------------------------------ MODULE BufferPool ------------------------------
(***************************************************************************)
(* The buffer pool, batch_system/optimized/buffer_pool.rs, as the factory  *)
(* makes it, and those who call it in integration.rs.                      *)
(*                                                                         *)
(* new makes the buffers of every size class and spawns a task that tends  *)
(* a clone of the pool; Clone gives it queues and counters of its own, all *)
(* empty.  No code takes a buffer or gives one back: no counter of hits    *)
(* leaves 0, and a buffer has been idle since it was made.                 *)
(*                                                                         *)
(* Left out: what is done when a hit rate is not 0, and the distribution   *)
(* of the sizes, of which nothing is ever recorded.                        *)
(***************************************************************************)
EXTENDS Naturals

CONSTANTS
    SizeClasses,    \* Small to Giant
    MaxBuffers,     \* max_buffers_per_class (750)
    MinPool,        \* the adaptive minimum of each class (50 to 5)
    StaleTurns,     \* max_buffer_age_secs in turns of cleanup_interval_secs (10)
    PoolStep        \* the most that one turn adds to a class (20)

\* preallocation_factor is 0.8.
Preallocated == (MaxBuffers * 4) \div 5

ASSUME PoolAssumption ==
    /\ MaxBuffers \in Nat /\ StaleTurns \in Nat \ {0} /\ PoolStep \in Nat \ {0}
    /\ MinPool \in [SizeClasses -> Nat]

VARIABLES
    pooled,   \* the buffers of each class, all of one age
    idle,     \* whether they have been idle for more than the 10 s of force_cleanup
    tended    \* of the clone: how many buffers of each class are at most so many turns old

bpvars == <<pooled, idle, tended>>

Ages == 0..StaleTurns + 1
Oldest == StaleTurns + 1

\* All that the class has.
Total(counted) == counted[Oldest]

BPInit ==
    /\ pooled = [c \in SizeClasses |-> Preallocated] /\ idle = FALSE
    /\ tended = [c \in SizeClasses |-> [a \in Ages |-> 0]]

(***************************************************************************)
(* A turn of the background task.                                          *)
(***************************************************************************)
\* Whatever is older than the oldest age that matters is counted with it.
Older(c) == [a \in Ages |-> IF a = 0 THEN 0
                            ELSE IF a = Oldest THEN Total(tended[c])
                            ELSE tended[c][a - 1]]

\* cleanup_old_buffers looks at how many there were before: above the minimum all that
\* are stale go, whatever is left.  The turn at which the limit falls is on time or late.
Freshest(late) == IF late THEN StaleTurns - 1 ELSE StaleTurns
Cleaned(c, older, late) ==
    IF Total(older) > MinPool[c]
    THEN [a \in Ages |-> IF a > Freshest(late) THEN older[Freshest(late)] ELSE older[a]]
    ELSE older

\* increase_pool_sizes: at a hit rate of 0 every turn adds to the class.
Increase(n) == IF MaxBuffers - n > PoolStep THEN PoolStep
               ELSE IF MaxBuffers > n THEN MaxBuffers - n ELSE 0

\* Mutant: the clone shares the queues of the pool.
TendShared ==
    /\ pooled' = [c \in SizeClasses |-> pooled[c] + Increase(pooled[c])]
    /\ idle' = TRUE /\ UNCHANGED tended

Tend ==
    /\ \E late \in BOOLEAN :
        tended' = [c \in SizeClasses |->
            LET kept == Cleaned(c, Older(c), late)
            IN  [a \in Ages |-> kept[a] + Increase(Total(kept))]]
    /\ idle' = TRUE /\ UNCHANGED pooled

(***************************************************************************)
(* The pool that the system uses.                                          *)
(***************************************************************************)
BuffersIdle == ~idle /\ idle' = TRUE /\ UNCHANGED <<pooled, tended>>

\* force_cleanup, from check_scaling_needs, whose target no rate of 0 meets, or from
\* flush_buffers.
ForceCleanup ==
    /\ pooled' = [c \in SizeClasses |->
                    IF idle /\ pooled[c] > MinPool[c] THEN 0 ELSE pooled[c]]
    /\ UNCHANGED <<idle, tended>>

BPNext == Tend \/ BuffersIdle \/ ForceCleanup

BPSpec == BPInit /\ [][BPNext]_bpvars

-----------------------------------------------------------------------------
(***************************************************************************)
(* Properties.                                                             *)
(***************************************************************************)
\* Every variable has its type: no class of the clone, which grows in every turn, has more
\* buffers than the maximum, and none fewer than those of it that are younger.
BPTypeOK ==
    /\ pooled \in [SizeClasses -> 0..MaxBuffers] /\ idle \in BOOLEAN
    /\ tended \in [SizeClasses -> [Ages -> 0..MaxBuffers]]
    /\ \A c \in SizeClasses : \A a, b \in Ages : a <= b => tended[c][a] <= tended[c][b]

\* The pool that the system uses (buffer_pool.rs:452): what tops the classes up tends a
\* clone, and the one other place that adds buffers, increase_buffer_pool, wants a hit
\* rate that is not 0.  Cleaned once, a class stays empty, whatever runs later.
PoolOnlyDrains ==
    [][\A c \in SizeClasses : pooled'[c] <= pooled[c]]_bpvars
===============================================================================
