----------------------------- MODULE LockPrograms -----------------------------
(***************************************************************************)
(* Tasks that take locks.  What a task does to the locks is a program: a   *)
(* step takes a lock in a mode, and keeps the guard until a later step is  *)
(* done, or for the step alone; a step without a lock is an await under    *)
(* the guards that are there.                                              *)
(*                                                                         *)
(* The locks are tokio's Mutex and RwLock: a task that cannot have one     *)
(* stands in its line, and nobody overtakes, a reader behind a waiting     *)
(* writer neither.                                                         *)
(***************************************************************************)
EXTENDS Integers, Sequences, SequenceTheorems,
        NaturalsInduction, WellFoundedInduction, TLAPS

CONSTANTS
    Tasks,
    Locks,
    Program     \* the steps of each operation

VARIABLES
    op,         \* the operation that each task is in, or something else
    pos,        \* its next step
    line        \* who waits for each lock, first come first

Busy == {t \in Tasks : op[t] \in DOMAIN Program}

\* The steps whose guards a busy task has in its hands.
Guards(t) == {i \in 1 .. pos[t] - 1 : Program[op[t]][i].till >= pos[t]}

Holds(t, lock, modes) ==
    \E i \in Guards(t) : LET s == Program[op[t]][i] IN s.lock = lock /\ s.mode \in modes

Step(t) == Program[op[t]][pos[t]]

\* A writer wants the lock for itself, a reader shares it with readers.
Blocks(u, t) ==
    Holds(u, Step(t).lock, IF Step(t).mode = "write" THEN {"read", "write"} ELSE {"write"})

Free(t) == \A u \in Busy : ~Blocks(u, t)

Waiting(t, lock) == \E i \in DOMAIN line[lock] : line[lock][i] = t

NoneRuns ==
    /\ op = [t \in Tasks |-> "idle"]
    /\ pos = [t \in Tasks |-> 1]
    /\ line = [lock \in Locks |-> <<>>]

\* A task that is idle begins with o.
StartOn(t, o) ==
    /\ op[t] = "idle"
    /\ op' = [op EXCEPT ![t] = o]
    /\ UNCHANGED <<pos, line>>

\* The lock is not to be had at once.
JoinLine(t) ==
    /\ t \in Busy /\ Step(t).lock \in Locks
    /\ ~Waiting(t, Step(t).lock)
    /\ ~(line[Step(t).lock] = <<>> /\ Free(t))
    /\ line' = [line EXCEPT ![Step(t).lock] = Append(@, t)]
    /\ UNCHANGED <<op, pos>>

\* A lock, or an await, is had; the line moves up.
Obtain(t) ==
    LET lock == Step(t).lock IN
    /\ t \in Busy
    /\ IF lock \in Locks
       THEN /\ Free(t)
            /\ Head(Append(line[lock], t)) = t
            /\ line' = [line EXCEPT ![lock] = SubSeq(@, 2, Len(@))]
       ELSE UNCHANGED line

IsLast(t) == pos[t] = Len(Program[op[t]])

\* The task goes on to its next step; after the last one it is as ending says.
Proceed(t, ending) ==
    /\ Obtain(t)
    /\ pos' = [pos EXCEPT ![t] = IF IsLast(t) THEN 1 ELSE @ + 1]
    /\ op' = IF IsLast(t) THEN [op EXCEPT ![t] = ending] ELSE op

\* A lock has one writer or readers, and whoever stands in a line wants its lock.
LocksOK ==
    /\ \A t \in Busy : pos[t] \in 1 .. Len(Program[op[t]])
    /\ \A t \in Busy, u \in Busy, lock \in Locks :
           Holds(t, lock, {"write"}) /\ t # u => ~Holds(u, lock, {"read", "write"})
    /\ \A lock \in Locks : \A i, j \in DOMAIN line[lock] :
           /\ line[lock][i] \in Busy /\ Step(line[lock][i]).lock = lock
           /\ line[lock][i] = line[lock][j] => i = j

\* t waits for u: u has the lock, or stands before t.
WaitsFor(t, u) ==
    /\ t \in Busy /\ Step(t).lock \in Locks /\ Waiting(t, Step(t).lock)
    /\ \/ Blocks(u, t)
       \/ \E i, j \in DOMAIN line[Step(t).lock] :
              i < j /\ line[Step(t).lock][i] = u /\ line[Step(t).lock][j] = t

\* Some of these tasks wait for each other, or for themselves.
Deadlocked(tasks) ==
    \E S \in SUBSET tasks : S # {} /\ \A t \in S : \E u \in S : WaitsFor(t, u)

(***************************************************************************)
(* What holds of any tasks, locks and programs.                            *)
(***************************************************************************)
StepOf == [lock : Locks \cup {"none"}, mode : {"read", "write", "none"}, till : Nat]

\* Every program has steps, and being idle is none.
WellFormed == \A o \in DOMAIN Program : Program[o] \in Seq(StepOf) /\ Program[o] # <<>> /\ o # "idle"

\* The types behind LocksOK, and an idle task begins at the first step.
LocksTyped ==
    /\ DOMAIN op = Tasks /\ op = [t \in Tasks |-> op[t]]
    /\ pos \in [Tasks -> Nat \ {0}] /\ line \in [Locks -> Seq(Tasks)]
    /\ \A t \in Tasks \ Busy : pos[t] = 1

LocksInv == LocksTyped /\ LocksOK

\* A step that takes a lock under a guard goes up in rank.
Ascends(rank, steps) ==
    \A p \in DOMAIN steps, i \in 1 .. Len(steps) :
        /\ i < p /\ steps[i].till >= p
        /\ steps[i].mode \in {"read", "write"} /\ {steps[i].lock, steps[p].lock} \subseteq Locks
        => rank[steps[i].lock] < rank[steps[p].lock]

\* A set of numbers up to N that has one has a greatest one.
LEMMA MaxExists ==
    ASSUME NEW N \in Nat, NEW S \in SUBSET (0 .. N), S # {}
    PROVE  \E m \in S : \A n \in S : n <= m
<1> DEFINE R == OpToRel(<, Nat)
           T == {N - n : n \in S}
<1>1. IsWellFoundedOn(R, Nat)
  BY NatLessThanWellFounded
<1>2. \A i, j \in Nat : <<i, j>> \in R <=> i < j
  BY DEF OpToRel
<1>3. T \subseteq Nat /\ T # {}
  <2>1. \A n \in S : N - n \in Nat
    OBVIOUS
  <2>2. PICK n \in S : TRUE
    OBVIOUS
  <2> QED BY <2>1, <2>2
<1> HIDE DEF R
<1>4. PICK i \in T : \A j \in T : ~(<<j, i>> \in R)
  <2> HIDE DEF T
  <2> QED BY <1>1, <1>3, WFMin
<1>5. PICK m \in S : i = N - m
  BY <1>4
<1>6. ASSUME NEW n \in S PROVE n <= m
  <2>1. ~(N - n < N - m)
    <3>1. N - n \in T OBVIOUS
    <3> HIDE DEF T
    <3> QED BY <1>2, <1>3, <1>4, <1>5, <3>1
  <2> QED BY <2>1
<1> QED BY <1>6

\* And a set of numbers a least one.
LEMMA MinExists ==
    ASSUME NEW S \in SUBSET Nat, S # {}
    PROVE  \E m \in S : \A n \in S : m <= n
<1> DEFINE R == OpToRel(<, Nat)
<1>1. IsWellFoundedOn(R, Nat)
  BY NatLessThanWellFounded
<1>2. \A i, j \in Nat : <<i, j>> \in R <=> i < j
  BY DEF OpToRel
<1> HIDE DEF R
<1>3. PICK i \in S : \A j \in S : ~(<<j, i>> \in R)
  BY <1>1, WFMin
<1>4. ASSUME NEW j \in S PROVE i <= j
  <2>1. i \in Nat /\ j \in Nat
    OBVIOUS
  <2>2. ~(j < i)
    BY <1>2, <1>3, <2>1
  <2> QED BY <2>1, <2>2
<1> QED BY <1>4

\* The discipline behind every one of the repository's locks that does not deadlock: tasks
\* that take what they take under a guard in ascending rank never wait in a circle, neither
\* for a guard nor in a line.  Among the ranks that a circle waits for there is a greatest;
\* of those in the line of its lock the first waits for a guard whose owner wants more.
THEOREM OrderedNeverDeadlock ==
    ASSUME LocksInv, NEW N \in Nat, NEW rank \in [Locks -> 0 .. N],
           NEW tasks \in SUBSET Busy,
           WellFormed, \A t \in tasks : Ascends(rank, Program[op[t]])
    PROVE  ~Deadlocked(tasks)
<1> SUFFICES ASSUME NEW S \in SUBSET tasks, S # {}, \A t \in S : \E u \in S : WaitsFor(t, u)
             PROVE  FALSE
  BY DEF Deadlocked
<1> DEFINE Wants(t) == Step(t).lock
           Ranks == {rank[Wants(t)] : t \in S}
<1>1. \A t \in S : t \in Busy /\ Wants(t) \in Locks /\ Waiting(t, Wants(t))
  BY DEF WaitsFor
<1>2. Ranks \in SUBSET (0 .. N) /\ Ranks # {}
  BY <1>1
<1>3. PICK m \in Ranks : \A n \in Ranks : n <= m
  <2> HIDE DEF Ranks
  <2> QED BY <1>2, MaxExists
<1>4. PICK top \in S : rank[Wants(top)] = m
  BY <1>3
<1> DEFINE lock == Wants(top)
           Places == {i \in DOMAIN line[lock] : line[lock][i] \in S}
<1>5. lock \in Locks /\ \A t \in S : rank[Wants(t)] <= rank[lock]
  BY <1>1, <1>3, <1>4
<1>6. line[lock] \in Seq(Tasks)
  BY <1>5 DEF LocksInv, LocksTyped
<1>7. Places \in SUBSET Nat /\ Places # {}
  <2>1. PICK i \in DOMAIN line[lock] : line[lock][i] = top
    BY <1>1, <1>4 DEF Waiting
  <2> QED BY <1>6, <2>1
<1>8. PICK i \in Places : \A j \in Places : i <= j
  <2> HIDE DEF Places
  <2> QED BY <1>7, MinExists
<1>9. PICK t \in S : t = line[lock][i] /\ Wants(t) = lock
  BY <1>5, <1>8 DEF LocksInv, LocksOK
<1>10. PICK u \in S : WaitsFor(t, u)
  OBVIOUS
<1>11. CASE Blocks(u, t)
  <2>1. Holds(u, lock, {"read", "write"})
    BY <1>9, <1>11 DEF Blocks, Holds
  <2>2. rank[lock] < rank[Wants(u)]
    <3>1. PICK g \in 1 .. pos[u] - 1 :
             /\ Program[op[u]][g].till >= pos[u] /\ Program[op[u]][g].lock = lock
             /\ Program[op[u]][g].mode \in {"read", "write"}
      BY <2>1 DEF Holds, Guards
    <3>2. Len(Program[op[u]]) \in Nat /\ DOMAIN Program[op[u]] = 1 .. Len(Program[op[u]])
      <4>1. op[u] \in DOMAIN Program
        BY <1>1 DEF Busy
      <4>2. Program[op[u]] \in Seq(StepOf)
        BY <4>1 DEF WellFormed
      <4> QED BY <4>2, LenProperties
    <3>3. pos[u] \in 1 .. Len(Program[op[u]])
      BY <1>1 DEF LocksInv, LocksOK
    <3>4. g < pos[u] /\ g \in 1 .. Len(Program[op[u]])
      BY <3>2, <3>3
    <3>5. Ascends(rank, Program[op[u]])
      OBVIOUS
    <3>6. Program[op[u]][pos[u]].lock = Wants(u) /\ Wants(u) \in Locks
      BY <1>1 DEF Step
    <3>7. {Program[op[u]][g].lock, Program[op[u]][pos[u]].lock} \subseteq Locks
      BY <1>5, <3>1, <3>6
    <3>8. rank[Program[op[u]][g].lock] < rank[Program[op[u]][pos[u]].lock]
      BY <3>1, <3>2, <3>3, <3>4, <3>5, <3>7 DEF Ascends
    <3> QED BY <3>1, <3>6, <3>8
  <2>3. rank[Wants(u)] \in Nat /\ rank[lock] \in Nat
    BY <1>1, <1>5
  <2> QED BY <1>5, <2>2, <2>3
<1>12. CASE \E a, b \in DOMAIN line[lock] : a < b /\ line[lock][a] = u /\ line[lock][b] = t
  <2>1. PICK a, b \in DOMAIN line[lock] : a < b /\ line[lock][a] = u /\ line[lock][b] = t
    BY <1>12
  <2>2. b = i
    BY <1>5, <1>8, <1>9, <2>1 DEF LocksInv, LocksOK
  <2>3. a \in Places
    BY <2>1
  <2> QED BY <1>6, <1>8, <2>1, <2>2, <2>3
<1> QED BY <1>9, <1>10, <1>11, <1>12 DEF WaitsFor

\* Which locks a task has follows from its operation and its step.
HoldsAt(o, p, lock, modes) ==
    \E i \in 1 .. p - 1 : /\ Program[o][i].till >= p /\ Program[o][i].lock = lock
                          /\ Program[o][i].mode \in modes

\* What a task holds, now and after a step, by its place.
LEMMA HoldsByPlace ==
    \A t, lock, modes : /\ Holds(t, lock, modes) <=> HoldsAt(op[t], pos[t], lock, modes)
                        /\ Holds(t, lock, modes)' <=> HoldsAt(op'[t], pos'[t], lock, modes)
  BY DEF Holds, Guards, HoldsAt

(***************************************************************************)
(* LocksInv holds when none runs, and every step of a task keeps it.       *)
(***************************************************************************)
\* No task has a lock or waits for one.
LEMMA NoneRunsInv == ASSUME WellFormed, NoneRuns PROVE LocksInv
<1>1. Busy = {}
  BY DEF NoneRuns, WellFormed, Busy
<1> QED BY <1>1 DEF NoneRuns, LocksInv, LocksTyped, LocksOK

\* A task that begins is at its first step, where it has nothing.
LEMMA StartKeeps ==
    ASSUME WellFormed, LocksInv, NEW t \in Tasks, NEW o \in DOMAIN Program, StartOn(t, o)
    PROVE  LocksInv'
<1>1. op[t] = "idle" /\ t \notin Busy /\ pos[t] = 1
  BY DEF StartOn, WellFormed, Busy, LocksInv, LocksTyped
<1>2. op' = [op EXCEPT ![t] = o] /\ pos' = pos /\ line' = line
  BY DEF StartOn
<1>3. DOMAIN op = Tasks
  BY DEF LocksInv, LocksTyped
<1>4. Busy' = Busy \cup {t} /\ \A u \in Tasks \ {t} : op'[u] = op[u]
  BY <1>2, <1>3 DEF Busy
<1>5. LocksTyped'
  BY <1>2, <1>3, <1>4 DEF LocksInv, LocksTyped
<1>6. \A u \in Busy' : pos'[u] \in 1 .. Len(Program[op'[u]])
  <2>1. Len(Program[o]) \in Nat \ {0}
    BY DEF WellFormed
  <2>2. \A u \in Busy : pos[u] \in 1 .. Len(Program[op[u]]) /\ u \in Tasks
    BY DEF LocksInv, LocksOK, Busy
  <2> QED BY <1>1, <1>2, <1>3, <1>4, <2>1, <2>2
<1>7. \A lock, modes : ~Holds(t, lock, modes)'
  BY <1>1, <1>2, HoldsByPlace DEF HoldsAt
<1>8. \A lock, modes : \A u \in Busy : Holds(u, lock, modes)' <=> Holds(u, lock, modes)
  BY <1>1, <1>2, <1>4, HoldsByPlace DEF Busy
<1>9. \A u \in Busy : Step(u)' = Step(u)
  BY <1>1, <1>2, <1>4 DEF Step, Busy
<1>10. \A u \in Busy', v \in Busy', lock \in Locks :
          (Holds(u, lock, {"write"}) /\ u # v => ~Holds(v, lock, {"read", "write"}))'
  BY <1>4, <1>7, <1>8 DEF LocksInv, LocksOK
<1>11. \A lock \in Locks : \A i, j \in DOMAIN line[lock] :
          /\ line[lock][i] \in Busy /\ Step(line[lock][i]).lock = lock
          /\ line[lock][i] = line[lock][j] => i = j
  BY DEF LocksInv, LocksOK
<1>12. \A u \in Busy : u # t /\ op'[u] = op[u] /\ pos'[u] = pos[u]
  BY <1>1, <1>2, <1>4 DEF Busy
<1>13. (\A lock \in Locks : \A i, j \in DOMAIN line[lock] :
          /\ line[lock][i] \in Busy /\ Step(line[lock][i]).lock = lock
          /\ line[lock][i] = line[lock][j] => i = j)'
  BY <1>2, <1>4, <1>11, <1>12 DEF Step
<1>14. LocksOK'
  BY <1>6, <1>10, <1>13 DEF LocksOK
<1> QED BY <1>5, <1>14 DEF LocksInv

\* Who joins a line stands in it once.
LEMMA JoinKeeps ==
    ASSUME LocksInv, NEW t \in Tasks, JoinLine(t)
    PROVE  LocksInv'
<1> DEFINE lock == Step(t).lock
<1>1. lock \in Locks /\ t \in Busy /\ op' = op /\ pos' = pos
  BY DEF JoinLine
<1>2. line \in [Locks -> Seq(Tasks)] /\ line' = [line EXCEPT ![lock] = Append(@, t)]
  BY DEF JoinLine, LocksInv, LocksTyped
<1>3. line' \in [Locks -> Seq(Tasks)]
  BY <1>1, <1>2
<1>4. Busy' = Busy /\ \A u : Step(u)' = Step(u)
  BY <1>1 DEF Busy, Step
<1>5. LocksTyped'
  BY <1>1, <1>3, <1>4 DEF LocksInv, LocksTyped
<1>6. \A i \in DOMAIN line[lock] : line[lock][i] # t
  BY DEF JoinLine, Waiting
<1>7. ASSUME NEW l \in Locks, NEW i \in DOMAIN line'[l], NEW j \in DOMAIN line'[l]
      PROVE  /\ line'[l][i] \in Busy /\ Step(line'[l][i]).lock = l
             /\ line'[l][i] = line'[l][j] => i = j
  <2>1. CASE l # lock
    BY <1>1, <1>2, <1>7, <2>1 DEF LocksInv, LocksOK
  <2>2. CASE l = lock
    <3> DEFINE n == Len(line[lock])
    <3>1. /\ n \in Nat /\ DOMAIN line[lock] = 1 .. n /\ DOMAIN line'[l] = 1 .. n + 1
          /\ \A k \in 1 .. n : line'[l][k] = line[lock][k]
          /\ line'[l][n + 1] = t
      BY <1>1, <1>2, <2>2
    <3>2. \A k \in 1 .. n + 1 : k \in 1 .. n \/ k = n + 1
      BY <3>1
    <3>3. \A a, b \in 1 .. n : /\ line[l][a] \in Busy /\ Step(line[l][a]).lock = l
                               /\ line[l][a] = line[l][b] => a = b
      BY <2>2, <3>1 DEF LocksInv, LocksOK
    <3> HIDE DEF n
    <3> QED BY <1>1, <1>6, <1>7, <2>2, <3>1, <3>2, <3>3
  <2> QED BY <2>1, <2>2
<1>8. \A l, modes : \A u \in Busy' : Holds(u, l, modes)' <=> Holds(u, l, modes)
  BY <1>1, HoldsByPlace
<1>9. LocksOK'
  BY <1>1, <1>4, <1>7, <1>8 DEF LocksInv, LocksOK
<1> QED BY <1>5, <1>9 DEF LocksInv

\* Nor is it disturbed by what leaves the locks alone.
LEMMA NothingKeeps == ASSUME LocksInv, UNCHANGED <<op, pos, line>> PROVE LocksInv'
  BY DEF LocksInv, LocksTyped, LocksOK, Busy, Step, Holds, Guards

\* Whoever proceeds leaves the only line it may stand in.
LEMMA ObtainLeavesLines ==
    ASSUME LocksInv, NEW t \in Busy, Obtain(t)
    PROVE  /\ line' \in [Locks -> Seq(Tasks)]
           /\ \A lock \in Locks : \A i, j \in DOMAIN line'[lock] :
                 /\ line'[lock][i] \in Busy \ {t}
                 /\ Step(line'[lock][i]).lock = lock
                 /\ line'[lock][i] = line'[lock][j] => i = j
<1> DEFINE lock == Step(t).lock
<1>1. line \in [Locks -> Seq(Tasks)]
  BY DEF LocksInv, LocksTyped
<1>2. \A l \in Locks : \A i, j \in DOMAIN line[l] :
         /\ line[l][i] \in Busy /\ Step(line[l][i]).lock = l
         /\ line[l][i] = line[l][j] => i = j
  BY DEF LocksInv, LocksOK
<1>3. \A l \in Locks \ {lock} : \A i \in DOMAIN line[l] : line[l][i] # t
  BY <1>2
<1>4. CASE lock \notin Locks
  BY <1>1, <1>2, <1>3, <1>4 DEF Obtain
<1>5. CASE lock \in Locks
  <2> DEFINE old == line[lock]  n == Len(old)
  <2>1. Head(Append(old, t)) = t /\ line' = [line EXCEPT ![lock] = SubSeq(old, 2, n)]
    BY <1>5 DEF Obtain
  <2>2. old \in Seq(Tasks) /\ n \in Nat /\ DOMAIN old = 1 .. n
    BY <1>1, <1>5
  <2>3. /\ SubSeq(old, 2, n) \in Seq(Tasks)
        /\ DOMAIN SubSeq(old, 2, n) = 1 .. n - 1
        /\ \A i \in 1 .. n - 1 : i + 1 \in 2 .. n /\ SubSeq(old, 2, n)[i] = old[i + 1]
    BY <2>2
  <2>4. n > 0 => old[1] = t
    BY <2>1, <2>2
  <2>5. \A i \in 1 .. n - 1 : old[i + 1] # t
    BY <1>2, <1>5, <2>2, <2>4
  <2>6. \A l \in Locks : line'[l] = IF l = lock THEN SubSeq(old, 2, n) ELSE line[l]
    BY <1>1, <2>1
  <2>7. line' \in [Locks -> Seq(Tasks)]
    BY <1>1, <1>5, <2>1, <2>3
  <2>8. ASSUME NEW i \in 1 .. n - 1, NEW j \in 1 .. n - 1
        PROVE  /\ SubSeq(old, 2, n)[i] \in Busy \ {t}
               /\ Step(SubSeq(old, 2, n)[i]).lock = lock
               /\ SubSeq(old, 2, n)[i] = SubSeq(old, 2, n)[j] => i = j
    <3>1. /\ i + 1 \in DOMAIN old /\ j + 1 \in DOMAIN old
          /\ SubSeq(old, 2, n)[i] = old[i + 1] /\ SubSeq(old, 2, n)[j] = old[j + 1]
      BY <2>2, <2>3
    <3>2. old[i + 1] = old[j + 1] => i + 1 = j + 1
      BY <1>2, <1>5, <3>1
    <3>3. Step(old[i + 1]).lock = lock /\ old[i + 1] \in Busy
      BY <1>2, <1>5, <3>1
    <3>4. old[i + 1] # t
      BY <2>5
    <3>5. \A k \in 1 .. n - 1 : k \in Int
      OBVIOUS
    <3> DEFINE sub == SubSeq(old, 2, n)
    <3>6. sub[i] = old[i + 1] /\ sub[j] = old[j + 1]
      BY <3>1
    <3>7. i + 1 = j + 1 => i = j
      BY <3>5
    <3> HIDE DEF old, n, lock, sub
    <3>8. sub[i] \in Busy \ {t} /\ Step(sub[i]).lock = lock
      BY <3>3, <3>4, <3>6
    <3>9. sub[i] = sub[j] => i = j
      BY <3>2, <3>6, <3>7
    <3> QED BY <3>8, <3>9 DEF sub
  <2>9. ASSUME NEW l \in Locks, NEW i \in DOMAIN line'[l], NEW j \in DOMAIN line'[l]
        PROVE  /\ line'[l][i] \in Busy \ {t} /\ Step(line'[l][i]).lock = l
               /\ line'[l][i] = line'[l][j] => i = j
    <3>1. CASE l = lock
      <4> HIDE DEF old, n, lock
      <4> QED BY <2>3, <2>6, <2>8, <2>9, <3>1
    <3>2. CASE l # lock
      BY <1>2, <1>3, <2>6, <2>9, <3>2
    <3> QED BY <3>1, <3>2
  <2> QED BY <2>7, <2>9
<1> QED BY <1>4, <1>5

\* Who goes on has the lock that Free granted, next to readers at most.
LEMMA ProceedKeeps ==
    ASSUME WellFormed, LocksInv, NEW t \in Tasks, NEW ending, ending \notin DOMAIN Program,
           Proceed(t, ending)
    PROVE  LocksInv'
<1> DEFINE o == op[t]  p == pos[t]  s == Step(t)
<1>1. t \in Busy /\ Obtain(t)
  BY DEF Proceed, Obtain
<1>2. /\ DOMAIN op = Tasks /\ op = [u \in Tasks |-> op[u]] /\ pos \in [Tasks -> Nat \ {0}]
      /\ \A u \in Tasks \ Busy : pos[u] = 1
  BY DEF LocksInv, LocksTyped
<1>3. /\ pos' = [pos EXCEPT ![t] = IF IsLast(t) THEN 1 ELSE p + 1]
      /\ op' = IF IsLast(t) THEN [op EXCEPT ![t] = ending] ELSE op
  BY DEF Proceed
<1>4. \A u \in Tasks \ {t} : op'[u] = op[u] /\ pos'[u] = pos[u]
  BY <1>2, <1>3
<1>5. op'[t] = IF IsLast(t) THEN ending ELSE o
  BY <1>2, <1>3
<1>6. pos'[t] = IF IsLast(t) THEN 1 ELSE p + 1
  BY <1>2, <1>3
<1>7. Busy' = IF IsLast(t) THEN Busy \ {t} ELSE Busy
  BY <1>1, <1>4, <1>5 DEF Busy
<1>8. Len(Program[o]) \in Nat /\ p \in 1 .. Len(Program[o]) /\ p \in Nat
  BY <1>1, <1>2 DEF LocksInv, LocksOK, WellFormed, Busy
<1>9. LocksTyped'
  <2>1. DOMAIN op' = Tasks /\ op' = [u \in Tasks |-> op'[u]]
    BY <1>2, <1>3
  <2>2. pos' \in [Tasks -> Nat \ {0}]
    BY <1>2, <1>3, <1>8
  <2>3. ASSUME NEW u \in Tasks \ Busy' PROVE pos'[u] = 1
    <3>1. CASE u = t
      BY <1>1, <1>6, <1>7, <3>1
    <3>2. CASE u # t
      <4>1. u \in Tasks \ Busy
        BY <1>7, <3>2
      <4> QED BY <1>2, <1>4, <3>2, <4>1
    <3> QED BY <3>1, <3>2
  <2> QED BY <1>1, <2>1, <2>2, <2>3, ObtainLeavesLines DEF LocksTyped
<1>10. \A u \in Busy' : pos'[u] \in 1 .. Len(Program[op'[u]])
  <2>1. \A u \in Busy \ {t} : pos'[u] \in 1 .. Len(Program[op'[u]])
    BY <1>4 DEF LocksInv, LocksOK, Busy
  <2>2. ~IsLast(t) => pos'[t] \in 1 .. Len(Program[op'[t]])
    BY <1>5, <1>6, <1>8 DEF IsLast
  <2> QED BY <1>7, <2>1, <2>2
<1>11. \A lock, modes : \A u \in Busy \ {t} : Holds(u, lock, modes)' <=> Holds(u, lock, modes)
  BY <1>4, HoldsByPlace DEF Busy
<1>12. ASSUME NEW lock, NEW modes, Holds(t, lock, modes)', t \in Busy'
       PROVE  Holds(t, lock, modes) \/ (s.lock = lock /\ s.mode \in modes)
  <2>1. ~IsLast(t) /\ op'[t] = o /\ pos'[t] = p + 1
    BY <1>5, <1>6, <1>7, <1>12
  <2>2. HoldsAt(o, p + 1, lock, modes)
    BY <1>12, <2>1, HoldsByPlace
  <2>3. PICK i \in 1 .. p : /\ Program[o][i].till >= p + 1 /\ Program[o][i].lock = lock
                            /\ Program[o][i].mode \in modes
    BY <1>8, <2>2 DEF HoldsAt
  <2>4. Program[o] \in Seq(StepOf) /\ i \in 1 .. Len(Program[o])
    BY <1>1, <1>8, <2>3 DEF WellFormed, Busy
  <2>5. Program[o][i].till \in Nat
    <3>1. Program[o][i] \in StepOf
      BY <2>4
    <3> QED BY <3>1 DEF StepOf
  <2>6. CASE i = p
    BY <2>3, <2>6 DEF Step
  <2>7. CASE i # p
    <3>1. i \in 1 .. p - 1 /\ Program[o][i].till >= p
      BY <1>8, <2>3, <2>5, <2>7
    <3>2. HoldsAt(o, p, lock, modes)
      BY <2>3, <3>1 DEF HoldsAt
    <3> QED BY <3>2, HoldsByPlace
  <2> QED BY <2>6, <2>7
<1>13. ASSUME NEW u \in Busy', NEW v \in Busy', NEW lock \in Locks,
              Holds(u, lock, {"write"})', u # v, Holds(v, lock, {"read", "write"})'
       PROVE  FALSE
  <2>1. u \in Busy /\ v \in Busy
    BY <1>7
  <2>2. \A x \in Busy, y \in Busy : Holds(x, lock, {"write"}) /\ x # y
                                        => ~Holds(y, lock, {"read", "write"})
    BY DEF LocksInv, LocksOK
  <2>3. s.lock \in Locks => \A x \in Busy : ~Blocks(x, t)
    BY <1>1 DEF Obtain, Free
  <2>4. CASE u # t /\ v # t
    BY <1>11, <1>13, <2>1, <2>2, <2>4
  <2>5. CASE u = t
    <3>1. Holds(v, lock, {"read", "write"})
      BY <1>11, <1>13, <2>1, <2>5
    <3>2. Holds(t, lock, {"write"}) \/ (s.lock = lock /\ s.mode = "write")
      BY <1>12, <1>13, <2>5
    <3>3. CASE s.lock = lock /\ s.mode = "write"
      BY <2>1, <2>3, <3>1, <3>3 DEF Blocks
    <3> QED BY <1>1, <1>13, <2>1, <2>2, <2>5, <3>1, <3>2, <3>3
  <2>6. CASE v = t
    <3>1. Holds(u, lock, {"write"})
      BY <1>11, <1>13, <2>1, <2>6
    <3>2. Holds(t, lock, {"read", "write"}) \/ (s.lock = lock /\ s.mode \in {"read", "write"})
      BY <1>12, <1>13, <2>6
    <3>3. CASE s.lock = lock
      <4>1. Holds(u, lock, {"read", "write"})
        BY <3>1 DEF Holds
      <4> QED BY <2>1, <2>3, <3>1, <3>3, <4>1 DEF Blocks
    <3> QED BY <1>1, <1>13, <2>1, <2>2, <2>6, <3>1, <3>2, <3>3
  <2> QED BY <2>4, <2>5, <2>6
<1>14. (\A lock \in Locks : \A i, j \in DOMAIN line[lock] :
          /\ line[lock][i] \in Busy /\ Step(line[lock][i]).lock = lock
          /\ line[lock][i] = line[lock][j] => i = j)'
  <2>1. \A lock \in Locks : \A i, j \in DOMAIN line'[lock] :
          /\ line'[lock][i] \in Busy \ {t} /\ Step(line'[lock][i]).lock = lock
          /\ line'[lock][i] = line'[lock][j] => i = j
    BY <1>1, ObtainLeavesLines
  <2>2. \A u \in Busy \ {t} : op'[u] = op[u] /\ pos'[u] = pos[u]
    BY <1>4 DEF Busy
  <2> QED BY <1>7, <2>1, <2>2 DEF Step
<1>15. LocksOK'
  BY <1>10, <1>13, <1>14 DEF LocksOK
<1> QED BY <1>9, <1>15 DEF LocksInv

\* Programs of up to seven steps, as the operations of the repository are.
LEMMA ShortPrograms ==
    ASSUME NEW S
    PROVE  /\ \A a \in S : <<a>> \in Seq(S) \ {<<>>}
           /\ \A a, b \in S : <<a, b>> \in Seq(S) \ {<<>>}
           /\ \A a, b, c \in S : <<a, b, c>> \in Seq(S) \ {<<>>}
           /\ \A a, b, c, d \in S : <<a, b, c, d>> \in Seq(S) \ {<<>>}
           /\ \A a, b, c, d, e \in S : <<a, b, c, d, e>> \in Seq(S) \ {<<>>}
           /\ \A a, b, c, d, e, f \in S : <<a, b, c, d, e, f>> \in Seq(S) \ {<<>>}
           /\ \A a, b, c, d, e, f, g \in S : <<a, b, c, d, e, f, g>> \in Seq(S) \ {<<>>}
  OBVIOUS

(***************************************************************************)
(* What a deadlock is to the tasks: nothing else keeps all of them from    *)
(* going on, and nobody in it goes on ever again.                          *)
(***************************************************************************)
\* A task in the middle of a program may take its next step, if only into a line.
MayGoOn(t) ==
    LET lock == Step(t).lock IN
    lock \in Locks =>
        \/ Free(t) /\ Head(Append(line[lock], t)) = t
        \/ ~Waiting(t, lock) /\ ~(line[lock] = <<>> /\ Free(t))

\* As long as the busy tasks are not deadlocked one of them may go on: a task that cannot
\* have its lock waits for a guard, or for whoever is first in the line.
THEOREM OnlyDeadlocksStop ==
    ASSUME LocksInv, Busy # {}, ~Deadlocked(Busy)
    PROVE  \E t \in Busy : MayGoOn(t)
<1> SUFFICES ASSUME \A t \in Busy : ~MayGoOn(t) PROVE FALSE
  OBVIOUS
<1>1. ASSUME NEW t \in Busy PROVE \E u \in Busy : WaitsFor(t, u)
  <2> DEFINE lock == Step(t).lock
             queue == line[lock]
  <2>1. lock \in Locks /\ ~(Free(t) /\ Head(Append(queue, t)) = t)
    BY DEF MayGoOn
  <2>2. queue \in Seq(Tasks)
    BY <2>1 DEF LocksInv, LocksTyped
  <2>3. Waiting(t, lock)
    <3>1. queue = <<>> => Head(Append(queue, t)) = t
      BY <2>2
    <3> QED BY <2>1, <3>1 DEF MayGoOn
  <2>4. CASE ~Free(t)
    BY <2>1, <2>3, <2>4 DEF Free, WaitsFor
  <2>5. CASE Head(Append(queue, t)) # t
    <3>1. PICK j \in DOMAIN queue : queue[j] = t
      BY <2>3 DEF Waiting
    <3>2. Len(queue) \in Nat /\ DOMAIN queue = 1 .. Len(queue) /\ 1 \in DOMAIN queue
      BY <2>2, <3>1
    <3>3. Head(Append(queue, t)) = queue[1]
      BY <2>2, <3>2
    <3>4. 1 < j
      BY <2>5, <3>1, <3>2, <3>3
    <3>5. queue[1] \in Busy
      BY <2>1, <3>2 DEF LocksInv, LocksOK
    <3>6. WaitsFor(t, queue[1])
      BY <2>1, <2>3, <3>1, <3>2, <3>4 DEF WaitsFor
    <3> QED BY <3>5, <3>6
  <2> QED BY <2>1, <2>4, <2>5
<1> QED BY <1>1 DEF Deadlocked

\* u stands before t.
Before(lock, u, t) ==
    \E i, j \in DOMAIN line[lock] : i < j /\ line[lock][i] = u /\ line[lock][j] = t

\* Whoever joins a line or leaves one, the others stay in it, in their order.
LEMMA OrderIsKept ==
    ASSUME LocksInv, NEW x \in Busy, JoinLine(x) \/ Obtain(x),
           NEW lock \in Locks, NEW t, t # x
    PROVE  /\ Waiting(t, lock) => Waiting(t, lock)'
           /\ \A u : u # x /\ Before(lock, u, t) => Before(lock, u, t)'
<1>1. line \in [Locks -> Seq(Tasks)] /\ x \in Tasks
  BY DEF LocksInv, LocksTyped, Busy
<1> DEFINE old == line[lock]  n == Len(old)
<1>2. old \in Seq(Tasks) /\ n \in Nat /\ DOMAIN old = 1 .. n
  BY <1>1
\* The places move by one, or not at all.
<1>3. CASE line'[lock] = old
  BY <1>3 DEF Waiting, Before
<1>4. CASE line'[lock] = Append(old, x)
  <2>1. \A i \in DOMAIN old : i \in DOMAIN line'[lock] /\ line'[lock][i] = old[i]
    BY <1>1, <1>2, <1>4
  <2> QED BY <2>1 DEF Waiting, Before
<1>5. CASE line'[lock] = SubSeq(old, 2, n) /\ (n > 0 => old[1] = x)
  <2>1. \A i \in DOMAIN old : old[i] # x => /\ i - 1 \in DOMAIN line'[lock]
                                            /\ line'[lock][i - 1] = old[i]
    <3> SUFFICES ASSUME NEW i \in 1 .. n, old[i] # x
                 PROVE  i - 1 \in DOMAIN line'[lock] /\ line'[lock][i - 1] = old[i]
      BY <1>2
    <3>1. i # 1
      BY <1>2, <1>5
    <3>2. i - 1 \in 1 .. n - 1 /\ (i - 1) + 1 = i
      BY <1>2, <3>1
    <3>3. /\ DOMAIN SubSeq(old, 2, n) = 1 .. n - 1
          /\ SubSeq(old, 2, n)[i - 1] = old[(i - 1) + 1]
      BY <1>2, <3>2
    <3> QED BY <1>5, <3>2, <3>3
  <2>2. \A i, j \in DOMAIN old : i < j => i - 1 < j - 1
    BY <1>2
  <2> HIDE DEF old, n
  <2>3. Waiting(t, lock) => Waiting(t, lock)'
    BY <2>1 DEF Waiting, old
  <2>4. \A u : u # x /\ Before(lock, u, t) => Before(lock, u, t)'
    BY <2>1, <2>2 DEF Before, old
  <2> QED BY <2>3, <2>4
<1>6. line'[lock] = old \/ line'[lock] = Append(old, x)
      \/ (line'[lock] = SubSeq(old, 2, n) /\ (n > 0 => old[1] = x))
  <2>1. CASE JoinLine(x)
    BY <1>1, <2>1 DEF JoinLine
  <2>2. CASE Obtain(x)
    <3>1. CASE Step(x).lock = lock
      <4>1. Head(Append(old, x)) = x /\ line' = [line EXCEPT ![lock] = SubSeq(old, 2, n)]
        BY <2>2, <3>1 DEF Obtain
      <4>2. n > 0 => Head(Append(old, x)) = old[1]
        BY <1>1, <1>2
      <4> QED BY <1>1, <4>1, <4>2
    <3>2. CASE Step(x).lock # lock
      BY <1>1, <2>2, <3>2 DEF Obtain
    <3> QED BY <3>1, <3>2
  <2> QED BY <2>1, <2>2
<1> QED BY <1>3, <1>4, <1>5, <1>6

\* Everyone in the set waits for one in it.
Circle(S) == S # {} /\ \A t \in S : \E u \in S : WaitsFor(t, u)

LEMMA DeadlockedByCircle == \A tasks : Deadlocked(tasks) <=> \E S \in SUBSET tasks : Circle(S)
  BY DEF Deadlocked, Circle

\* Nobody of the circle can take a lock or join a line.
LEMMA CircleStands ==
    ASSUME LocksInv, NEW S, Circle(S), NEW t \in S
    PROVE  /\ t \in Busy /\ Step(t).lock \in Locks /\ Waiting(t, Step(t).lock)
           /\ ~Obtain(t) /\ ~JoinLine(t)
<1> DEFINE lock == Step(t).lock
<1>1. \A u \in S : u \in Busy /\ Step(u).lock \in Locks /\ Waiting(u, Step(u).lock)
  BY DEF Circle, WaitsFor
<1>2. PICK u \in S : WaitsFor(t, u)
  BY DEF Circle
<1>3. ~(Free(t) /\ Head(Append(line[lock], t)) = t)
  <2>1. CASE Blocks(u, t)
    BY <1>1, <2>1 DEF Free
  <2>2. CASE Before(lock, u, t)
    <3>1. PICK i, j \in DOMAIN line[lock] : i < j /\ line[lock][i] = u /\ line[lock][j] = t
      BY <2>2 DEF Before
    <3>2. line[lock] \in Seq(Tasks)
      BY <1>1 DEF LocksInv, LocksTyped
    <3>3. 1 \in DOMAIN line[lock] /\ 1 # j /\ Head(Append(line[lock], t)) = line[lock][1]
      BY <3>1, <3>2
    <3>4. line[lock][1] # t
      BY <1>1, <3>1, <3>3 DEF LocksInv, LocksOK
    <3> QED BY <3>3, <3>4
  <2> QED BY <1>2, <2>1, <2>2 DEF WaitsFor, Before
<1> QED BY <1>1, <1>3 DEF Obtain, JoinLine

\* A deadlock is for ever: whatever any task begins, joins or takes, those who wait for
\* each other stand where they stand, and nobody who is not one of them can help.
THEOREM DeadlocksLast ==
    ASSUME WellFormed, LocksInv, NEW tasks, Deadlocked(tasks),
           \/ \E t \in Tasks, o \in DOMAIN Program : StartOn(t, o)
           \/ \E t \in Tasks : JoinLine(t)
           \/ \E t \in Tasks : \E ending : Proceed(t, ending)
           \/ UNCHANGED <<op, pos, line>>
    PROVE  Deadlocked(tasks)'
<1>1. PICK S \in SUBSET tasks : Circle(S)
  BY DeadlockedByCircle
<1>2. SUFFICES Circle(S)'
  BY <1>1 DEF Deadlocked, Circle
<1>3. \A t \in S : /\ t \in Busy /\ Step(t).lock \in Locks /\ Waiting(t, Step(t).lock)
                   /\ ~Obtain(t) /\ ~JoinLine(t)
  BY <1>1, CircleStands
\* It is enough that none of them moves, or changes places with another one.
<1>4. ASSUME \A t \in S : op'[t] = op[t] /\ pos'[t] = pos[t],
             \A t \in S : /\ Waiting(t, Step(t).lock)'
                          /\ \A u \in S : Before(Step(t).lock, u, t)
                                              => (\E i, j \in DOMAIN line'[Step(t).lock] :
                                                    /\ i < j
                                                    /\ line'[Step(t).lock][i] = u
                                                    /\ line'[Step(t).lock][j] = t)
      PROVE  Circle(S)'
  <2>1. \A t \in S : t \in Busy' /\ Step(t)' = Step(t)
    BY <1>3, <1>4 DEF Busy, Step
  <2>2. \A t \in S : \A lock, modes : Holds(t, lock, modes)' <=> Holds(t, lock, modes)
    BY <1>4, HoldsByPlace
  <2>3. \A t, u \in S : WaitsFor(t, u) => WaitsFor(t, u)'
    <3> SUFFICES ASSUME NEW t \in S, NEW u \in S, WaitsFor(t, u) PROVE WaitsFor(t, u)'
      OBVIOUS
    <3>1. Waiting(t, Step(t).lock)'
      BY <1>4
    <3>2. Blocks(u, t) => Blocks(u, t)'
      BY <2>1, <2>2 DEF Blocks
    <3>3. CASE Blocks(u, t)
      BY <1>3, <2>1, <3>1, <3>2, <3>3 DEF WaitsFor
    <3>4. CASE Before(Step(t).lock, u, t)
      BY <1>3, <1>4, <2>1, <3>1, <3>4 DEF WaitsFor
    <3> QED BY <3>3, <3>4 DEF WaitsFor, Before
  <2> QED BY <1>1, <2>3 DEF Circle
<1>5. DOMAIN op = Tasks /\ pos \in [Tasks -> Nat \ {0}]
  BY DEF LocksInv, LocksTyped
<1>6. CASE \E t \in Tasks, o \in DOMAIN Program : StartOn(t, o)
  <2>1. PICK x \in Tasks, o \in DOMAIN Program : StartOn(x, o)
    BY <1>6
  <2>2. x \notin S /\ pos' = pos /\ line' = line
    BY <1>3, <2>1 DEF StartOn, WellFormed, Busy
  <2>3. \A t \in S : op'[t] = op[t]
    BY <1>3, <1>5, <2>1, <2>2 DEF StartOn, Busy
  <2>4. \A t \in S : Step(t)' = Step(t)
    BY <2>2, <2>3 DEF Step
  <2> QED BY <1>3, <1>4, <2>2, <2>3, <2>4 DEF Waiting, Before
<1>7. ASSUME NEW x \in Tasks, JoinLine(x) \/ (\E ending : Proceed(x, ending))
      PROVE  Circle(S)'
  <2>1. x \in Busy /\ (JoinLine(x) \/ Obtain(x)) /\ x \notin S
    BY <1>3, <1>7 DEF JoinLine, Proceed, Obtain
  <2>2. \A t \in S : op'[t] = op[t] /\ pos'[t] = pos[t]
    BY <1>3, <1>5, <1>7, <2>1 DEF JoinLine, Proceed, Busy
  <2>3. \A t \in S : Step(t)' = Step(t)
    BY <2>2 DEF Step
  <2>4. \A t \in S : /\ Waiting(t, Step(t).lock)'
                     /\ \A u \in S : Before(Step(t).lock, u, t)
                            => (\E i, j \in DOMAIN line'[Step(t).lock] :
                                    /\ i < j
                                    /\ line'[Step(t).lock][i] = u
                                    /\ line'[Step(t).lock][j] = t)
    <3> SUFFICES ASSUME NEW t \in S
                 PROVE  /\ Waiting(t, Step(t).lock)'
                        /\ \A u \in S : Before(Step(t).lock, u, t)
                               => (\E i, j \in DOMAIN line'[Step(t).lock] :
                                       /\ i < j
                                       /\ line'[Step(t).lock][i] = u
                                       /\ line'[Step(t).lock][j] = t)
      OBVIOUS
    <3> DEFINE lock == Step(t).lock
    <3>1. /\ Waiting(t, lock) => (\E i \in DOMAIN line'[lock] : line'[lock][i] = t)
          /\ \A u \in S : Before(lock, u, t)
                 => (\E i, j \in DOMAIN line'[lock] :
                         i < j /\ line'[lock][i] = u /\ line'[lock][j] = t)
      <4> SUFFICES ASSUME NEW l \in Locks
                   PROVE  /\ Waiting(t, l) => (\E i \in DOMAIN line'[l] : line'[l][i] = t)
                          /\ \A u \in S : Before(l, u, t)
                                 => (\E i, j \in DOMAIN line'[l] :
                                         i < j /\ line'[l][i] = u /\ line'[l][j] = t)
        BY <1>3
      <4>1. /\ Waiting(t, l) => Waiting(t, l)'
            /\ \A u : u # x /\ Before(l, u, t) => Before(l, u, t)'
        BY <2>1, OrderIsKept
      <4> QED BY <2>1, <4>1 DEF Waiting, Before
    <3> QED BY <1>3, <2>3, <3>1 DEF Waiting
  <2> QED BY <1>4, <2>2, <2>4
<1>8. CASE UNCHANGED <<op, pos, line>>
  BY <1>1, <1>8 DEF Circle, WaitsFor, Waiting, Blocks, Holds, Guards, Step, Busy
<1> QED BY <1>6, <1>7, <1>8
=============================================================================
