----------------------------- MODULE QosManager -----------------------------
(***************************************************************************)
(* The QoS manager, src/src/core/protocol/batch_system/qos_manager.rs.     *)
(*                                                                         *)
(* Worker loops ask it for a permit with acquire_permit; the adaptive      *)
(* controller moves capacity between the three classes with adapt_quotas.  *)
(* Both take the same two locks, quotas and statistics, and acquire_permit *)
(* waits for a semaphore with a timeout, for the high class with quotas    *)
(* still locked.  A step below runs from one wait to the next.             *)
(*                                                                         *)
(* Tokens are counted in units of what one request of the class costs.     *)
(***************************************************************************)
EXTENDS Naturals, FiniteSets

CONSTANTS
    Callers,     \* worker loops
    Priority,    \* the priority of the task each caller has
    Capacity,    \* permits of each class at the start
    Burst,       \* the buckets hold Burst times as much as Capacity (10 in the code)
    Decisions,   \* the capacities that adapt_quotas may decide on
    MinSamples,  \* min_samples_for_adaptation
    MaxCalls     \* bound: the requests that are counted

Priorities == {"Critical", "High", "Normal", "Low"}  \* Background is as Low
Classes    == {"high", "normal", "low"}

ASSUME QosAssumption ==
    /\ IsFiniteSet(Callers)
    /\ Priority \in [Callers -> Priorities]
    /\ Capacity \in [Classes -> Nat] /\ Burst \in Nat
    /\ Decisions \subseteq [Classes -> Nat]
    /\ MinSamples \in Nat /\ MaxCalls \in Nat

VARIABLES
    free,       \* available permits of the semaphores
    tokens,     \* token buckets
    level,      \* leaky buckets
    size,       \* capacity of the leaky bucket; a token bucket has as much
    requests, rejected,  \* the statistics
    qpc,        \* the next step of each caller
    apc,        \* the next step of adapt_quotas
    decision,   \* what adapt_quotas decided
    seen        \* the free permits that apply_adaptation has read

buckets    == <<tokens, level, size>>
statistics == <<requests, rejected>>
adaptation == <<apc, decision, seen>>
qvars      == <<buckets, free, statistics, qpc, adaptation>>

\* What a token bucket of that size is worth: a request costs 1, 1/2 or 1/4.
Full(sizes) == [cl \in Classes |-> CASE cl = "high" -> sizes[cl]
                                    [] cl = "normal" -> 2 * sizes[cl]
                                    [] cl = "low" -> 4 * sizes[cl]]

ClassOf(c) == CASE Priority[c] \in {"Critical", "High"} -> "high"
                [] Priority[c] = "Normal" -> "normal"
                [] Priority[c] = "Low" -> "low"
Having(cl, steps) == {c \in Callers : ClassOf(c) = cl /\ qpc[c] \in steps}

(***************************************************************************)
(* The locks.  adapt_quotas reads the statistics until it returns, and     *)
(* quotas until it has decided; a caller has quotas until it is refused or,*)
(* in the high class, until it has its permit or gives up.                 *)
(***************************************************************************)
HoldsQuotas(c)  == \/ qpc[c] = "refuse"
                   \/ ClassOf(c) = "high" /\ qpc[c] \in {"wait", "timing", "late"}
QuotasUnwritten == (\A c \in Callers : ~HoldsQuotas(c)) /\ apc \notin {"add", "count"}
QuotasFree      == QuotasUnwritten /\ apc # "stats"
StatisticsFree  == apc \notin {"apply", "add", "count"}

Goto(c, step) == qpc' = [qpc EXCEPT ![c] = step]
Counted(cl)   == requests' = [requests EXCEPT ![cl] = @ + 1]

QInit ==
    /\ free = Capacity
    /\ size = [cl \in Classes |-> Burst * Capacity[cl]]
    /\ tokens = Full(size) /\ level = [cl \in Classes |-> 0]
    /\ requests = [cl \in Classes |-> 0] /\ rejected = [cl \in Classes |-> 0]
    /\ qpc = [c \in Callers |-> "idle"]
    /\ apc = "idle" /\ decision = Capacity /\ seen = Capacity

(***************************************************************************)
(* acquire_permit.                                                         *)
(***************************************************************************)
Call(c) ==
    /\ qpc[c] = "idle"
    /\ requests[ClassOf(c)] < MaxCalls
    /\ Goto(c, "ask")
    /\ UNCHANGED <<buckets, free, statistics, adaptation>>

CountRequest(c) ==
    /\ qpc[c] = "ask"
    /\ StatisticsFree
    /\ Counted(ClassOf(c))
    /\ Goto(c, "quotas")
    /\ UNCHANGED <<buckets, free, rejected, adaptation>>

\* A Critical task passes both buckets by; a High one the leaky bucket.
PassBuckets(c) ==
    LET cl == ClassOf(c) IN
    /\ qpc[c] = "quotas"
    /\ QuotasFree
    /\ \/ Priority[c] = "Critical" /\ UNCHANGED buckets
       \/ /\ Priority[c] = "High" /\ tokens[cl] > 0
          /\ tokens' = [tokens EXCEPT ![cl] = @ - 1]
          /\ UNCHANGED <<level, size>>
       \/ /\ Priority[c] \in {"Normal", "Low"} /\ tokens[cl] > 0 /\ level[cl] < size[cl]
          /\ tokens' = [tokens EXCEPT ![cl] = @ - 1]
          /\ level' = [level EXCEPT ![cl] = @ + 1]
          /\ UNCHANGED size
    /\ Goto(c, "wait")
    /\ UNCHANGED <<free, statistics, adaptation>>

\* The token that a full leaky bucket turns away is spent all the same.
FailBuckets(c) ==
    LET cl == ClassOf(c) IN
    /\ qpc[c] = "quotas"
    /\ QuotasFree
    /\ \/ Priority[c] # "Critical" /\ tokens[cl] = 0 /\ UNCHANGED tokens
       \/ /\ Priority[c] \in {"Normal", "Low"} /\ tokens[cl] > 0 /\ level[cl] >= size[cl]
          /\ tokens' = [tokens EXCEPT ![cl] = @ - 1]
    /\ Goto(c, "refuse")
    /\ UNCHANGED <<level, size, free, statistics, adaptation>>

\* update_statistics counts a refusal as a request of its own.
Refuse(c) ==
    /\ qpc[c] \in {"refuse", "late"}
    /\ StatisticsFree
    /\ Counted(ClassOf(c))
    /\ rejected' = [rejected EXCEPT ![ClassOf(c)] = @ + 1]
    /\ Goto(c, "idle")
    /\ UNCHANGED <<buckets, free, adaptation>>

Acquire(c) ==
    /\ qpc[c] = "wait"
    /\ free[ClassOf(c)] > 0
    /\ free' = [free EXCEPT ![ClassOf(c)] = @ - 1]
    /\ Goto(c, "timing")
    /\ UNCHANGED <<buckets, statistics, adaptation>>

\* Mutant: the timeout comes when the semaphore has let go of a permit.
TimeOutTakes(c) ==
    /\ qpc[c] = "wait"
    /\ free' = [free EXCEPT ![ClassOf(c)] = IF @ > 0 THEN @ - 1 ELSE 0]
    /\ Goto(c, "late")
    /\ UNCHANGED <<buckets, statistics, adaptation>>

\* 50, 100 or 200 ms are over, or its call of the semaphore was about to end.
TimeOut(c) ==
    /\ qpc[c] = "wait"
    /\ Goto(c, "late")
    /\ UNCHANGED <<buckets, free, statistics, adaptation>>

\* record_wait_time, and the permit is the caller's.
Grant(c) ==
    /\ qpc[c] = "timing"
    /\ StatisticsFree
    /\ Goto(c, "granted")
    /\ UNCHANGED <<buckets, free, statistics, adaptation>>

\* The permit is dropped when the task is done.
Release(c) ==
    /\ qpc[c] = "granted"
    /\ free' = [free EXCEPT ![ClassOf(c)] = @ + 1]
    /\ Goto(c, "idle")
    /\ UNCHANGED <<buckets, statistics, adaptation>>

\* Time passes: a bucket gets a token, or loses some of its level.
Refill(cl) ==
    /\ \/ tokens[cl] < Full(size)[cl] /\ tokens' = [tokens EXCEPT ![cl] = @ + 1] /\ UNCHANGED level
       \/ level[cl] > 0 /\ level' = [level EXCEPT ![cl] = @ - 1] /\ UNCHANGED tokens
    /\ UNCHANGED <<size, free, statistics, qpc, adaptation>>

(***************************************************************************)
(* adapt_quotas.                                                           *)
(***************************************************************************)
AdaptRead ==
    /\ apc = "idle"
    /\ QuotasUnwritten
    /\ apc' = "stats"
    /\ UNCHANGED <<buckets, free, statistics, qpc, decision, seen>>

Samples == requests["high"] + requests["normal"] + requests["low"]

\* Mutant: with too few samples, adapt_quotas waits for more with both guards held.
AdaptNothingWaits ==
    /\ apc = "stats"
    /\ Samples >= MinSamples
    /\ apc' = "idle"
    /\ UNCHANGED <<buckets, free, statistics, qpc, decision, seen>>

\* Too few samples, or nothing to change: both guards go.
AdaptNothing ==
    /\ apc = "stats"
    /\ apc' = "idle"
    /\ UNCHANGED <<buckets, free, statistics, qpc, decision, seen>>

\* It gives quotas up, to lock them again for writing; the statistics stay read.
AdaptDecide(d) ==
    /\ apc = "stats"
    /\ Samples >= MinSamples
    /\ decision' = d
    /\ apc' = "apply"
    /\ UNCHANGED <<buckets, free, statistics, qpc, seen>>

\* apply_adaptation has quotas to itself when it reads how many permits are free.
SeeFree ==
    /\ apc = "apply"
    /\ QuotasFree
    /\ seen' = free
    /\ apc' = "add"
    /\ UNCHANGED <<buckets, free, statistics, qpc, decision>>

\* Mutant: it adds the new capacity, not what the free permits lack of it.
AddCapacity ==
    /\ apc = "add"
    /\ free' = [cl \in Classes |-> free[cl] + decision[cl]]
    /\ size' = decision /\ tokens' = Full(decision)
    /\ level' = [cl \in Classes |-> 0]
    /\ apc' = "count"
    /\ UNCHANGED <<statistics, qpc, decision, seen>>

\* It adds what the free ones that it has read lack of the new capacity, whatever is out,
\* and whatever was taken or given back since: the semaphores are not behind the lock.  It
\* takes no permit away.  Then it waits to write the statistics, which its caller is
\* reading: no action leaves "count".
AddPermits ==
    LET added(cl) == IF decision[cl] > seen[cl] THEN decision[cl] - seen[cl] ELSE 0 IN
    /\ apc = "add"
    /\ free' = [cl \in Classes |-> free[cl] + added(cl)]
    /\ size' = decision /\ tokens' = Full(decision)
    /\ level' = [cl \in Classes |-> 0]
    /\ apc' = "count"
    /\ UNCHANGED <<statistics, qpc, decision, seen>>

Proceed(c) == \/ CountRequest(c) \/ PassBuckets(c) \/ FailBuckets(c) \/ Refuse(c)
              \/ Acquire(c) \/ TimeOut(c) \/ Grant(c)
Adapt      == \/ AdaptRead \/ AdaptNothing \/ SeeFree \/ AddPermits
              \/ \E d \in Decisions : AdaptDecide(d)

QNext == \/ \E c \in Callers : Call(c) \/ Proceed(c) \/ Release(c)
         \/ \E cl \in Classes : Refill(cl)
         \/ Adapt

QSpec == QInit /\ [][QNext]_qvars

\* The scheduler runs every task, a timeout fires, and tokio's locks are granted
\* in the order of the requests.
QFairness ==
    /\ \A c \in Callers : SF_qvars(Proceed(c)) /\ WF_qvars(Release(c))
    /\ WF_qvars(AdaptNothing \/ \E d \in Decisions : AdaptDecide(d))
-----------------------------------------------------------------------------
QTypeOK ==
    /\ free \in [Classes -> Nat] /\ seen \in [Classes -> Nat]
    /\ tokens \in [Classes -> Nat] /\ level \in [Classes -> Nat]
    /\ size \in [Classes -> Nat]
    /\ requests \in [Classes -> Nat] /\ rejected \in [Classes -> Nat]
    /\ qpc \in [Callers -> {"idle", "ask", "quotas", "refuse", "wait", "late",
                            "timing", "granted"}]
    /\ apc \in {"idle", "stats", "apply", "add", "count"}
    /\ decision \in [Classes -> Nat]

Total(cl)     == free[cl] + Cardinality(Having(cl, {"timing", "granted"}))
CallersOf(cl) == {c \in Callers : ClassOf(c) = cl}
Larger(m, n)  == IF m > n THEN m ELSE n

\* No permit is lost or made by a timeout that races with the semaphore: the free ones and
\* those that are out are as many as there were at the start.  An adaptation, which compares
\* the new capacity with the free permits alone, makes as many as it decided on and issues
\* those that are out a second time, but no more than the class has callers, whoever takes or
\* gives back a permit between its look and its addition.
PermitsConserved ==
    \A cl \in Classes :
        /\ apc # "count" => Total(cl) = Capacity[cl]
        /\ apc = "count" =>
              /\ Total(cl) >= Larger(Capacity[cl], decision[cl])
              /\ Total(cl) <= Larger(Capacity[cl], decision[cl] + Cardinality(CallersOf(cl)))

\* Because a refusal counts as a request too, at most half of the requests are
\* ever seen as rejected: the rates that adapt_quotas and the controller compare
\* with 5, 10 and 20 percent never go above 50.
HalfRejected == \A cl \in Classes : 2 * rejected[cl] <= requests[cl]

\* acquire_permit answers: a caller gets a permit or is refused, unless
\* adapt_quotas has decided on a change, after which nobody is answered.
AnswerComes ==
    \A c \in Callers :
        qpc[c] = "ask" ~> qpc[c] \in {"idle", "granted"} \/ apc \in {"apply", "add", "count"}
=============================================================================
