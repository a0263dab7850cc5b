-------------------- MODULE WorkStealingDispatcherProofs --------------------
(***************************************************************************)
(* What the dispatcher keeps for any number of workers, loops, tasks and   *)
(* any capacities: types, that a task is in one place, and that the        *)
(* counters of the queues are right but for a drift of one.                *)
(***************************************************************************)
EXTENDS WorkStealingDispatcher, FiniteSetTheorems, TLAPS

\* Any step, by the actions it may be.
LEMMA NextCases ==
    ASSUME Next
    PROVE  \/ SubmitTask \/ Reject \/ Inject \/ CountSent \/ CountInjected
           \/ \E w \in Workers : Send(w)
           \/ \E l \in Loops : \/ StartTurn(l) \/ Exit(l) \/ Receive(l) \/ Uncount(l)
                               \/ Steal(l) \/ Idle(l) \/ Refused(l) \/ ProcessTask(l)
           \/ \E t \in Cleanable : CleanResult(t)
           \/ CleanerExit \/ Shutdown \/ ClearQueues \/ ClearResults
BY DEF Next, Work, SubmitStep, LoopStep, CloseStep

(***************************************************************************)
(* Types.                                                                  *)
(***************************************************************************)
LEMMA TypeInit == Init => TypeOK
BY DispatcherAssumption DEF DispatcherAssumption, Init, TypeOK, Tasks

LEMMA CurrentIsTask == TypeOK /\ spc # "idle" => Current \in Tasks
BY DispatcherAssumption DEF DispatcherAssumption, TypeOK, Tasks, Current

LEMMA AppendTask ==
    ASSUME NEW s \in Seq(Tasks), NEW t \in Tasks
    PROVE  Append(s, t) \in Seq(Tasks)
OBVIOUS

LEMMA TailTask ==
    ASSUME NEW s \in Seq(Tasks), s # <<>>
    PROVE  Head(s) \in Tasks /\ Tail(s) \in Seq(Tasks)
OBVIOUS

LEMMA TypeSubmit ==
    ASSUME TypeOK, SubmitTask \/ Reject \/ Inject \/ CountSent \/ CountInjected
    PROVE  TypeOK'
<1> USE DispatcherAssumption DEF DispatcherAssumption, TypeOK, Tasks, Current,
        channels, counters, submit, loops, answers, stop
<1>1. CASE SubmitTask
    BY <1>1 DEF SubmitTask
<1>2. CASE Reject
    BY <1>2 DEF Reject
<1>3. CASE Inject
    <2>1. injector' \in Seq(Tasks)
        BY <1>3, CurrentIsTask, AppendTask DEF Inject
    <2> QED BY <1>3, <2>1 DEF Inject
<1>4. CASE CountSent
    BY <1>4 DEF CountSent
<1>5. CASE CountInjected
    BY <1>5 DEF CountInjected
<1> QED BY <1>1, <1>2, <1>3, <1>4, <1>5

LEMMA TypeSend ==
    ASSUME TypeOK, NEW w \in Workers, Send(w)
    PROVE  TypeOK'
<1>1. Append(queue[w], Current) \in Seq(Tasks)
    BY CurrentIsTask, AppendTask DEF Send, TypeOK
<1>2. queue' \in [Workers -> Seq(Tasks)]
    BY <1>1 DEF Send, TypeOK
<1> QED BY <1>2 DEF TypeOK, Send, channels, counters, submit, loops, answers, stop

LEMMA TypeLoop ==
    ASSUME TypeOK, NEW l \in Loops,
           \/ StartTurn(l) \/ Exit(l) \/ Receive(l) \/ Uncount(l)
           \/ Steal(l) \/ Idle(l) \/ Refused(l) \/ ProcessTask(l)
    PROVE  TypeOK'
<1> USE DEF TypeOK, channels, counters, submit, loops, answers, stop
<1>0. Own[l] \in Workers /\ None \notin Tasks
    BY DispatcherAssumption DEF DispatcherAssumption, Tasks
<1>1. CASE StartTurn(l)
    <2>1. OptimalStealPolicy(count[Own[l]]) \in BOOLEAN
        BY DEF OptimalStealPolicy
    <2>2. steal' \in [Loops -> BOOLEAN]
        <3>1. PICK s \in {FALSE, OptimalStealPolicy(count[Own[l]])} :
                  steal' = [steal EXCEPT ![l] = s]
            BY <1>1 DEF StartTurn
        <3>2. s \in BOOLEAN
            BY <2>1, <3>1, Zenon
        <3> QED BY <3>1, <3>2
    <2> QED BY <1>1, <2>2 DEF StartTurn
<1>2. CASE Exit(l)
    BY <1>2 DEF Exit
<1>3. CASE Receive(l)
    <2>1. Head(queue[Own[l]]) \in Tasks /\ Tail(queue[Own[l]]) \in Seq(Tasks)
        BY <1>0, <1>3, TailTask DEF Receive
    <2> QED BY <1>0, <1>3, <2>1 DEF Receive
<1>4. CASE Uncount(l)
    BY <1>0, <1>4 DEF Uncount
<1>5. CASE Steal(l)
    <2>1. Head(injector) \in Tasks /\ Tail(injector) \in Seq(Tasks)
        BY <1>5, TailTask DEF Steal
    <2> QED BY <1>0, <1>5, <2>1 DEF Steal
<1>6. CASE Idle(l)
    BY <1>6 DEF Idle
<1>7. CASE Refused(l)
    BY <1>7 DEF Refused
<1>8. CASE ProcessTask(l)
    BY <1>8 DEF ProcessTask
<1> QED BY <1>1, <1>2, <1>3, <1>4, <1>5, <1>6, <1>7, <1>8

LEMMA TypeRest ==
    ASSUME TypeOK, \/ \E t \in Cleanable : CleanResult(t)
                   \/ CleanerExit \/ Shutdown \/ ClearQueues \/ ClearResults
    PROVE  TypeOK'
<1> USE DEF TypeOK, channels, counters, submit, loops, answers, stop
<1>1. CASE \E t \in Cleanable : CleanResult(t)
    BY <1>1 DEF CleanResult
<1>2. CASE CleanerExit
    BY <1>2 DEF CleanerExit
<1>3. CASE Shutdown
    BY <1>3 DEF Shutdown
<1>4. CASE ClearQueues
    BY <1>4 DEF ClearQueues
<1>5. CASE ClearResults
    BY <1>5 DEF ClearResults
<1> QED BY <1>1, <1>2, <1>3, <1>4, <1>5

LEMMA TypeStep == TypeOK /\ [Next]_vars => TypeOK'
<1> SUFFICES ASSUME TypeOK, [Next]_vars PROVE TypeOK'
    OBVIOUS
<1>1. CASE Next
    BY <1>1, NextCases, TypeSubmit, TypeSend, TypeLoop, TypeRest
<1>2. CASE UNCHANGED vars
    BY <1>2 DEF TypeOK, vars, channels, counters, submit, loops, answers, stop
<1> QED BY <1>1, <1>2

\* Every variable keeps its type: TypeOK of the runs.
THEOREM TypeCorrect == Spec => []TypeOK
BY TypeInit, TypeStep, PTL DEF Spec

(***************************************************************************)
(* The counters.  CounterCovers and DriftAtMostOne are inductive together: *)
(* a decrement of a counter at 0 is lost, and then CounterCovers says that *)
(* the task just taken is the one being counted and the only one there is. *)
(***************************************************************************)
Balanced == CounterCovers /\ DriftAtMostOne

LEMMA TakenFinite ==
    \A w \in Workers : IsFiniteSet(Taken(w)) /\ Cardinality(Taken(w)) \in Nat
<1> SUFFICES ASSUME NEW w \in Workers
             PROVE  IsFiniteSet(Taken(w)) /\ Cardinality(Taken(w)) \in Nat
    OBVIOUS
<1>1. Taken(w) \subseteq Loops /\ IsFiniteSet(Loops)
    BY DispatcherAssumption DEF Taken, DispatcherAssumption
<1> QED BY <1>1, FS_Subset, FS_CardinalityType

\* What a step must show of each worker.
LEMMA BalancedFrom ==
    ASSUME TypeOK, Balanced, counting' => counting,
           counting' => \A w \in Workers :
              \E d \in Int :
                /\ count'[w] + Unsent(w)' = count[w] + Unsent(w) + d
                /\ Len(queue'[w]) + Cardinality(Taken(w)')
                   = Len(queue[w]) + Cardinality(Taken(w)) + d
    PROVE  Balanced'
<1> SUFFICES ASSUME counting', NEW w \in Workers
             PROVE  /\ count'[w] + Unsent(w)' >= Len(queue'[w]) + Cardinality(Taken(w)')
                    /\ count'[w] + Unsent(w)' <= Len(queue'[w]) + Cardinality(Taken(w)') + 1
    BY DEF Balanced, CounterCovers, DriftAtMostOne
<1>1. PICK d \in Int : /\ count'[w] + Unsent(w)' = count[w] + Unsent(w) + d
                       /\ Len(queue'[w]) + Cardinality(Taken(w)')
                          = Len(queue[w]) + Cardinality(Taken(w)) + d
    OBVIOUS
<1>2. /\ count[w] + Unsent(w) >= Len(queue[w]) + Cardinality(Taken(w))
      /\ count[w] + Unsent(w) <= Len(queue[w]) + Cardinality(Taken(w)) + 1
    BY DEF Balanced, CounterCovers, DriftAtMostOne
<1>3. /\ count[w] + Unsent(w) \in Int
      /\ Len(queue[w]) + Cardinality(Taken(w)) \in Int
    BY TakenFinite DEF TypeOK, Unsent
<1> QED BY <1>1, <1>2, <1>3

LEMMA BalancedInit == Init => Balanced
<1> SUFFICES ASSUME Init, NEW w \in Workers
             PROVE  /\ count[w] + Unsent(w) >= Len(queue[w]) + Cardinality(Taken(w))
                    /\ count[w] + Unsent(w) <= Len(queue[w]) + Cardinality(Taken(w)) + 1
    BY DEF Balanced, CounterCovers, DriftAtMostOne
<1>1. Taken(w) = {}
    BY DEF Init, Taken
<1>2. Cardinality(Taken(w)) = 0
    BY <1>1, FS_EmptySet
<1> QED BY <1>2 DEF Init, Unsent

\* A step that leaves the counters, the queues and the loops' receptions alone.
LEMMA BalancedSame ==
    ASSUME TypeOK, Balanced,
           counting' => counting /\ UNCHANGED <<count, queue>>,
           counting' => \A w \in Workers : Unsent(w)' = Unsent(w),
           counting' => \A w \in Workers : Taken(w)' = Taken(w)
    PROVE  Balanced'
BY Zenon DEF Balanced, CounterCovers, DriftAtMostOne

LEMMA BalancedSend ==
    ASSUME TypeOK, Balanced, NEW v \in Workers, Send(v)
    PROVE  Balanced'
<1> SUFFICES ASSUME NEW w \in Workers
             PROVE  \E d \in Int :
                      /\ count'[w] + Unsent(w)' = count[w] + Unsent(w) + d
                      /\ Len(queue'[w]) + Cardinality(Taken(w)')
                         = Len(queue[w]) + Cardinality(Taken(w)) + d
    BY BalancedFrom, Zenon DEF Send, counters
<1>1. Taken(w)' = Taken(w) /\ count' = count /\ Unsent(w) = 0
    BY DEF Send, Taken, loops, counters, Unsent
<1>2. CASE w = v
    <2>1. Unsent(w)' = 1
        BY <1>2 DEF Send, Unsent
    <2>2. Len(queue'[w]) = Len(queue[w]) + 1
        BY <1>2 DEF Send, TypeOK
    <2>3. count[w] \in Nat /\ Len(queue[w]) \in Nat /\ Cardinality(Taken(w)) \in Nat
        BY TakenFinite DEF TypeOK
    <2>4. /\ count'[w] + Unsent(w)' = count[w] + Unsent(w) + 1
          /\ Len(queue'[w]) + Cardinality(Taken(w)')
             = Len(queue[w]) + Cardinality(Taken(w)) + 1
        BY <1>1, <2>1, <2>2, <2>3
    <2> QED BY <2>4
<1>3. CASE w # v
    <2>1. Unsent(w)' = 0
        BY <1>3 DEF Send, Unsent
    <2>2. Len(queue'[w]) = Len(queue[w])
        BY <1>3 DEF Send, TypeOK
    <2>3. count[w] \in Nat /\ Len(queue[w]) \in Nat /\ Cardinality(Taken(w)) \in Nat
        BY TakenFinite DEF TypeOK
    <2>4. /\ count'[w] + Unsent(w)' = count[w] + Unsent(w) + 0
          /\ Len(queue'[w]) + Cardinality(Taken(w)')
             = Len(queue[w]) + Cardinality(Taken(w)) + 0
        BY <1>1, <2>1, <2>2, <2>3
    <2> QED BY <2>4
<1> QED BY <1>2, <1>3

LEMMA BalancedCountSent ==
    ASSUME TypeOK, Balanced, CountSent
    PROVE  Balanced'
<1> SUFFICES ASSUME counting, NEW w \in Workers
             PROVE  /\ count'[w] + Unsent(w)' = count[w] + Unsent(w) + 0
                    /\ Len(queue'[w]) + Cardinality(Taken(w)')
                       = Len(queue[w]) + Cardinality(Taken(w)) + 0
    BY BalancedFrom DEF CountSent
<1>1. Taken(w)' = Taken(w) /\ queue' = queue
    BY DEF CountSent, Taken, loops, channels
<1>2. count'[w] + Unsent(w)' = count[w] + Unsent(w)
    BY DEF CountSent, Unsent, TypeOK
<1> QED BY <1>1, <1>2, TakenFinite DEF TypeOK, Unsent

LEMMA BalancedReceive ==
    ASSUME TypeOK, Balanced, NEW l \in Loops, Receive(l)
    PROVE  Balanced'
<1> DEFINE v == Own[l]
<1>0. v \in Workers
    BY DispatcherAssumption DEF DispatcherAssumption
<1> SUFFICES ASSUME NEW w \in Workers
             PROVE  /\ count'[w] + Unsent(w)' = count[w] + Unsent(w) + 0
                    /\ Len(queue'[w]) + Cardinality(Taken(w)')
                       = Len(queue[w]) + Cardinality(Taken(w)) + 0
    BY BalancedFrom DEF Receive, counters
<1>1. count' = count /\ Unsent(w)' = Unsent(w)
    BY DEF Receive, counters, submit, Unsent
<1>2. CASE w = v
    <2>1. Taken(w)' = Taken(w) \cup {l} /\ l \notin Taken(w)
        BY <1>2 DEF Receive, Taken, TypeOK
    <2>2. Cardinality(Taken(w)') = Cardinality(Taken(w)) + 1
        BY <2>1, TakenFinite, FS_AddElement
    <2>3. queue[w] \in Seq(Tasks) /\ queue[w] # <<>> /\ queue'[w] = Tail(queue[w])
        BY <1>2, <1>0 DEF Receive, TypeOK
    <2>4. Len(queue'[w]) = Len(queue[w]) - 1 /\ Len(queue[w]) \in Nat
        BY <2>3
    <2>5. count[w] + Unsent(w) \in Int /\ Cardinality(Taken(w)) \in Nat
        BY TakenFinite DEF TypeOK, Unsent
    <2> QED BY <1>1, <2>2, <2>4, <2>5
<1>3. CASE w # v
    <2>1. Taken(w)' = Taken(w)
        BY <1>3 DEF Receive, Taken, TypeOK
    <2>2. queue'[w] = queue[w]
        BY <1>3, <1>0 DEF Receive, TypeOK
    <2>3. /\ count[w] + Unsent(w) \in Int
          /\ Len(queue[w]) \in Nat /\ Cardinality(Taken(w)) \in Nat
        BY TakenFinite DEF TypeOK, Unsent
    <2> QED BY <1>1, <2>1, <2>2, <2>3
<1> QED BY <1>2, <1>3
LEMMA BalancedUncount ==
    ASSUME TypeOK, Balanced, NEW l \in Loops, Uncount(l)
    PROVE  Balanced'
<1> DEFINE v == Own[l]
<1>0. v \in Workers
    BY DispatcherAssumption DEF DispatcherAssumption
<1> SUFFICES ASSUME counting, NEW w \in Workers
             PROVE  /\ count'[w] + Unsent(w)' >= Len(queue'[w]) + Cardinality(Taken(w)')
                    /\ count'[w] + Unsent(w)' <= Len(queue'[w]) + Cardinality(Taken(w)') + 1
    BY DEF Balanced, CounterCovers, DriftAtMostOne, Uncount
<1>1. queue' = queue /\ Unsent(w)' = Unsent(w)
    BY DEF Uncount, channels, submit, Unsent
<1>2. /\ count[w] + Unsent(w) >= Len(queue[w]) + Cardinality(Taken(w))
      /\ count[w] + Unsent(w) <= Len(queue[w]) + Cardinality(Taken(w)) + 1
    BY DEF Balanced, CounterCovers, DriftAtMostOne
<1>3. /\ count[w] \in Nat /\ Unsent(w) \in {0, 1}
      /\ Len(queue[w]) \in Nat /\ Cardinality(Taken(w)) \in Nat
    BY TakenFinite DEF TypeOK, Unsent
<1>4. CASE w = v
    <2>1. Taken(w)' = Taken(w) \ {l} /\ l \in Taken(w)
        BY <1>4 DEF Uncount, Taken, TypeOK
    <2>2. Cardinality(Taken(w)') = Cardinality(Taken(w)) - 1
        BY <2>1, TakenFinite, FS_RemoveElement
    <2>3. count'[w] = IF count[w] > 0 THEN count[w] - 1 ELSE count[w]
        BY <1>4 DEF Uncount, TypeOK
    <2>4. Cardinality(Taken(w)') \in Nat
        BY <2>1, TakenFinite, FS_RemoveElement, FS_CardinalityType
    <2>5. Len(queue'[w]) = Len(queue[w]) /\ Cardinality(Taken(w)) >= 1
        BY <1>1, <1>3, <2>2, <2>4
    <2>6. CASE count[w] > 0
        <3>1. count'[w] = count[w] - 1
            BY <2>3, <2>6
        <3> QED BY <1>1, <1>2, <1>3, <2>2, <2>5, <3>1
    <2>7. CASE count[w] = 0
        <3>1. count'[w] = 0
            BY <2>3, <2>7
        <3> QED BY <1>1, <1>2, <1>3, <2>2, <2>5, <2>7, <3>1
    <2> QED BY <1>3, <2>6, <2>7
<1>5. CASE w # v
    <2>1. Taken(w)' = Taken(w) /\ count'[w] = count[w]
        BY <1>5, <1>0 DEF Uncount, Taken, TypeOK
    <2> QED BY <1>1, <1>2, <2>1
<1> QED BY <1>4, <1>5

LEMMA BalancedStep == TypeOK /\ Balanced /\ [Next]_vars => Balanced'
<1> SUFFICES ASSUME TypeOK, Balanced, [Next]_vars PROVE Balanced'
    OBVIOUS
<1> USE DEF channels, counters, submit, loops, answers, stop
<1>1. CASE SubmitTask \/ Reject
    <2>1. UNCHANGED <<count, queue, counting, lpc>> /\ spc # "sent" /\ spc' # "sent"
        BY <1>1 DEF SubmitTask, Reject
    <2> QED BY <2>1, BalancedSame DEF Unsent, Taken
<1>2. CASE Inject
    BY <1>2, BalancedSame DEF Inject, Taken, Unsent
<1>3. CASE CountInjected
    BY <1>3, BalancedSame DEF CountInjected, Taken, Unsent
<1>4. ASSUME NEW l \in Loops,
             \/ StartTurn(l) \/ Exit(l) \/ Steal(l) \/ Idle(l)
             \/ Refused(l) \/ ProcessTask(l)
      PROVE  Balanced'
    <2>1. /\ UNCHANGED <<count, queue, counting, spc, sending>>
          /\ lpc[l] # "uncount" /\ lpc'[l] # "uncount"
          /\ \A k \in Loops : k # l => lpc'[k] = lpc[k]
        BY <1>4 DEF StartTurn, Exit, Steal, Idle, Refused, ProcessTask, TypeOK
    <2>2. \A w \in Workers : Taken(w)' = Taken(w)
        BY <2>1 DEF Taken
    <2> QED BY <2>1, <2>2, BalancedSame DEF Unsent
<1>5. CASE \/ \E t \in Cleanable : CleanResult(t)
           \/ CleanerExit \/ Shutdown \/ ClearResults \/ UNCHANGED vars
    <2>1. UNCHANGED <<count, queue, counting, spc, sending, lpc>>
        BY <1>5 DEF CleanResult, CleanerExit, Shutdown, ClearResults, vars
    <2> QED BY <2>1, BalancedSame DEF Unsent, Taken
<1>6. CASE ClearQueues
    BY <1>6 DEF ClearQueues, Balanced, CounterCovers, DriftAtMostOne
<1> QED BY <1>1, <1>2, <1>3, <1>4, <1>5, <1>6, NextCases, BalancedSend,
           BalancedCountSent, BalancedReceive, BalancedUncount

\* The counter of a queue never misses a task that is in it, but for the one
\* being sent: the backpressure check of submit_task is never late.
THEOREM CountersCover == Spec => []CounterCovers
<1>1. Init => TypeOK /\ Balanced
    BY TypeInit, BalancedInit
<1>2. TypeOK /\ Balanced /\ [Next]_vars => (TypeOK /\ Balanced)'
    BY TypeStep, BalancedStep
<1>3. Balanced => CounterCovers
    BY DEF Balanced
<1> QED BY <1>1, <1>2, <1>3, PTL DEF Spec

\* A counter is never more than one too high: increments that a receiver
\* overtakes do not add up.
THEOREM CountersDriftByOne == Spec => []DriftAtMostOne
<1>1. Init => TypeOK /\ Balanced
    BY TypeInit, BalancedInit
<1>2. TypeOK /\ Balanced /\ [Next]_vars => (TypeOK /\ Balanced)'
    BY TypeStep, BalancedStep
<1>3. Balanced => DriftAtMostOne
    BY DEF Balanced
<1> QED BY <1>1, <1>2, <1>3, PTL DEF Spec
(***************************************************************************)
(* Where a task is.  OnePlace needs to know that the id submit_task is     *)
(* about to send is new.                                                   *)
(***************************************************************************)
Known(t) == Queued(t) \/ Injected(t) \/ Held(t) \/ t \in finished
Fresh    == \A t \in Tasks : Known(t) => t < nextId /\ (spc = "check" => t # Current)
Placed   == OnePlace /\ Fresh

\* The parts of OnePlace, one by one.
QueuesApart ==
    \A v, w \in Workers : \A i \in 1 .. Len(queue[v]), j \in 1 .. Len(queue[w]) :
        queue[v][i] = queue[w][j] => v = w /\ i = j
InjectorApart == \A i, j \in 1 .. Len(injector) : injector[i] = injector[j] => i = j
LoopsApart    == \A k, l \in Loops : held[k] = held[l] /\ held[k] # None => k = l
PlacesApart   ==
    \A t \in Tasks : /\ Queued(t) => ~Injected(t) /\ ~Held(t) /\ t \notin finished
                     /\ Injected(t) => ~Held(t) /\ t \notin finished
                     /\ Held(t) => t \notin finished

LEMMA OnePlaceParts == OnePlace <=> QueuesApart /\ InjectorApart /\ LoopsApart /\ PlacesApart
BY DEF OnePlace, QueuesApart, InjectorApart, LoopsApart, PlacesApart

LEMMA PlacedInit == Init => Placed
<1> SUFFICES ASSUME Init PROVE Placed
    OBVIOUS
<1>1. /\ \A w \in Workers : queue[w] = <<>> /\ Len(queue[w]) = 0
      /\ injector = <<>> /\ Len(injector) = 0
      /\ \A l \in Loops : held[l] = None
      /\ finished = {}
    BY DEF Init
<1>2. None \notin Tasks /\ 1 .. 0 = {}
    BY DispatcherAssumption DEF DispatcherAssumption, Tasks
<1>3. \A t \in Tasks : ~Known(t)
    BY <1>1, <1>2 DEF Known, Queued, Injected, Held
<1> QED BY <1>1, <1>2, <1>3 DEF Placed, OnePlace, Fresh, Known

\* A step that moves no task.
LEMMA PlacedSame ==
    ASSUME TypeOK, Placed, UNCHANGED <<queue, injector, held, finished>>,
           \/ UNCHANGED <<nextId, spc>>
           \/ nextId' = nextId + 1
           \/ nextId' = nextId /\ spc' # "check"
    PROVE  Placed'
<1>1. OnePlace'
    BY DEF Placed, OnePlace, Queued, Injected, Held
<1>2. \A t \in Tasks : Known(t)' = Known(t)
    BY DEF Known, Queued, Injected, Held
<1>3. nextId \in Nat /\ \A t \in Tasks : t \in Nat
    BY DispatcherAssumption DEF TypeOK, Tasks, DispatcherAssumption
<1>4. Fresh'
    BY <1>2, <1>3 DEF Placed, Fresh, Current
<1> QED BY <1>1, <1>4 DEF Placed

\* A step that sends the new task into a worker's queue.
LEMMA PlacedSend ==
    ASSUME TypeOK, Placed, NEW v \in Workers, Send(v)
    PROVE  Placed'
<1> USE DEF loops, answers
<1>0. /\ Current \in Tasks /\ ~Known(Current) /\ Current \in Nat /\ nextId = Current + 1
      /\ \A t \in Tasks : t \in Nat
    BY CurrentIsTask, DispatcherAssumption
       DEF Send, Placed, Fresh, TypeOK, Current, Tasks, DispatcherAssumption
<1>1. /\ injector' = injector /\ held' = held /\ finished' = finished
      /\ nextId' = nextId /\ spc' # "check"
    BY DEF Send
<1>2. /\ \A w \in Workers : queue[w] \in Seq(Tasks)
      /\ \A w \in Workers : w # v => queue'[w] = queue[w]
      /\ Len(queue'[v]) = Len(queue[v]) + 1
      /\ \A i \in 1 .. Len(queue[v]) : queue'[v][i] = queue[v][i]
      /\ queue'[v][Len(queue[v]) + 1] = Current
    BY <1>0 DEF Send, TypeOK
<1>3. \A t : Queued(t)' <=> Queued(t) \/ t = Current
    <2> SUFFICES ASSUME NEW t PROVE Queued(t)' <=> Queued(t) \/ t = Current
        OBVIOUS
    <2>1. ASSUME NEW w \in Workers, NEW i \in 1 .. Len(queue[w]), queue[w][i] = t
          PROVE  Queued(t)'
        <3>1. i \in 1 .. Len(queue'[w]) /\ queue'[w][i] = t
            BY <1>2, <2>1
        <3> QED BY <3>1 DEF Queued
    <2>2. ASSUME t = Current PROVE Queued(t)'
        <3>1. Len(queue[v]) + 1 \in 1 .. Len(queue'[v])
            BY <1>2
        <3> QED BY <1>2, <2>2, <3>1 DEF Queued
    <2>3. ASSUME NEW w \in Workers, NEW i \in 1 .. Len(queue'[w]), queue'[w][i] = t
          PROVE  Queued(t) \/ t = Current
        <3>1. CASE w # v
            BY <1>2, <2>3, <3>1 DEF Queued
        <3>2. CASE w = v /\ i \in 1 .. Len(queue[v])
            BY <1>2, <2>3, <3>2 DEF Queued
        <3>3. CASE w = v /\ i = Len(queue[v]) + 1
            BY <1>2, <2>3, <3>3
        <3> QED BY <1>2, <2>3, <3>1, <3>2, <3>3
    <2> QED BY <2>1, <2>2, <2>3 DEF Queued
<1>4. \A w \in Workers : \A i \in 1 .. Len(queue[w]) : queue[w][i] # Current
    BY <1>0 DEF Known, Queued
<1>5. QueuesApart'
    <2> SUFFICES ASSUME NEW u \in Workers, NEW w \in Workers,
                        NEW i \in 1 .. Len(queue'[u]), NEW j \in 1 .. Len(queue'[w]),
                        queue'[u][i] = queue'[w][j]
                 PROVE  u = w /\ i = j
        BY DEF QueuesApart
    <2> DEFINE Old(x, k) == k \in 1 .. Len(queue[x]) /\ queue'[x][k] = queue[x][k]
               New(x, k) == x = v /\ k = Len(queue[v]) + 1 /\ queue'[x][k] = Current
    <2>0. ASSUME NEW x \in Workers, NEW k \in 1 .. Len(queue'[x])
          PROVE  Old(x, k) \/ New(x, k)
        <3>1. CASE x = v
            <4>1. Len(queue[v]) \in Nat
                BY <1>2
            <4>2. k \in 1 .. Len(queue[v]) \/ k = Len(queue[v]) + 1
                BY <1>2, <3>1, <4>1
            <4> QED BY <1>2, <3>1, <4>2
        <3>2. CASE x # v
            BY <1>2, <3>2
        <3> QED BY <3>1, <3>2
    <2>1. (Old(u, i) \/ New(u, i)) /\ (Old(w, j) \/ New(w, j))
        BY <2>0
    <2>2. CASE Old(u, i) /\ Old(w, j)
        <3>1. queue[u][i] = queue[w][j]
            BY <2>2
        <3>2. QueuesApart
            BY OnePlaceParts DEF Placed
        <3> QED BY <2>2, <3>1, <3>2 DEF QueuesApart
    <2>3. CASE New(u, i) /\ New(w, j)
        BY <2>3
    <2> QED BY <1>4, <2>1, <2>2, <2>3
<1>6. InjectorApart' /\ LoopsApart'
    BY <1>1, OnePlaceParts DEF Placed, InjectorApart, LoopsApart
<1>7. \A t : (Injected(t)' <=> Injected(t)) /\ (Held(t)' <=> Held(t))
    BY <1>1 DEF Injected, Held
<1>8. PlacesApart'
    BY <1>0, <1>1, <1>3, <1>7, OnePlaceParts DEF Placed, PlacesApart, Known
<1>9. Fresh'
    BY <1>0, <1>1, <1>3, <1>7 DEF Placed, Fresh, Known
<1> QED BY <1>5, <1>6, <1>8, <1>9, OnePlaceParts DEF Placed, OnePlace, QueuesApart,
           InjectorApart, LoopsApart, PlacesApart

\* A step that sends it into the injector.
LEMMA PlacedInject ==
    ASSUME TypeOK, Placed, Inject
    PROVE  Placed'
<1> USE DEF loops, answers
<1>0. /\ Current \in Tasks /\ ~Known(Current) /\ Current \in Nat /\ nextId = Current + 1
      /\ \A t \in Tasks : t \in Nat
    BY CurrentIsTask, DispatcherAssumption
       DEF Inject, Placed, Fresh, TypeOK, Current, Tasks, DispatcherAssumption
<1>1. /\ queue' = queue /\ held' = held /\ finished' = finished
      /\ nextId' = nextId /\ spc' # "check"
    BY DEF Inject
<1>2. /\ Len(injector) \in Nat /\ Len(injector') = Len(injector) + 1
      /\ \A i \in 1 .. Len(injector) : injector'[i] = injector[i]
      /\ injector'[Len(injector) + 1] = Current
    BY <1>0 DEF Inject, TypeOK
<1>3. \A t : Injected(t)' <=> Injected(t) \/ t = Current
    BY <1>2 DEF Injected
<1>4. \A i \in 1 .. Len(injector) : injector[i] # Current
    BY <1>0 DEF Known, Injected
<1>5. InjectorApart'
    BY <1>2, <1>4, OnePlaceParts DEF Placed, InjectorApart
<1>6. QueuesApart' /\ LoopsApart'
    BY <1>1, OnePlaceParts DEF Placed, QueuesApart, LoopsApart
<1>7. \A t : (Queued(t)' <=> Queued(t)) /\ (Held(t)' <=> Held(t))
    BY <1>1 DEF Queued, Held
<1>8. PlacesApart'
    BY <1>0, <1>1, <1>3, <1>7, OnePlaceParts DEF Placed, PlacesApart, Known
<1>9. Fresh'
    BY <1>0, <1>1, <1>3, <1>7 DEF Placed, Fresh, Known
<1> QED BY <1>5, <1>6, <1>8, <1>9, OnePlaceParts DEF Placed, OnePlace, QueuesApart,
           InjectorApart, LoopsApart, PlacesApart
\* A step by which a loop takes the head of its worker's queue.
LEMMA PlacedReceive ==
    ASSUME TypeOK, Placed, NEW l \in Loops, Receive(l)
    PROVE  Placed'
<1> USE DEF submit, answers
<1> DEFINE v == Own[l]
           h == Head(queue[v])
<1>0. v \in Workers /\ h \in Tasks /\ None \notin Tasks
    <2>1. v \in Workers /\ None \notin Tasks
        BY DispatcherAssumption DEF DispatcherAssumption, Tasks
    <2>2. queue[v] \in Seq(Tasks) /\ queue[v] # <<>>
        BY <2>1 DEF Receive, TypeOK
    <2> QED BY <2>1, <2>2, TailTask
<1>1. /\ injector' = injector /\ finished' = finished
      /\ nextId' = nextId /\ spc' = spc
      /\ held[l] = None /\ held'[l] = h
      /\ \A k \in Loops : k # l => held'[k] = held[k]
    BY DEF Receive, TypeOK
<1>2. /\ \A w \in Workers : w # v => queue'[w] = queue[w]
      /\ queue[v] \in Seq(Tasks) /\ queue[v] # <<>> /\ queue'[v] = Tail(queue[v])
    BY <1>0 DEF Receive, TypeOK
<1>3. /\ Len(queue[v]) \in Nat /\ Len(queue'[v]) = Len(queue[v]) - 1
      /\ \A i \in 1 .. Len(queue'[v]) : queue'[v][i] = queue[v][i + 1]
      /\ 1 \in 1 .. Len(queue[v]) /\ h = queue[v][1]
    BY <1>2
<1> DEFINE From(w, i) == IF w = v THEN i + 1 ELSE i
<1>4. \A w \in Workers : \A i \in 1 .. Len(queue'[w]) :
          /\ From(w, i) \in 1 .. Len(queue[w])
          /\ queue'[w][i] = queue[w][From(w, i)]
          /\ w = v => From(w, i) # 1
    <2> SUFFICES ASSUME NEW w \in Workers, NEW i \in 1 .. Len(queue'[w])
                 PROVE  /\ From(w, i) \in 1 .. Len(queue[w])
                        /\ queue'[w][i] = queue[w][From(w, i)]
                        /\ w = v => From(w, i) # 1
        OBVIOUS
    <2>1. CASE w = v
        BY <1>3, <2>1
    <2>2. CASE w # v
        BY <1>2, <2>2
    <2> QED BY <2>1, <2>2
<1>5. \A t : Queued(t)' => Queued(t) /\ t # h
    <2> SUFFICES ASSUME NEW w \in Workers, NEW i \in 1 .. Len(queue'[w])
                 PROVE  Queued(queue'[w][i]) /\ queue'[w][i] # h
        BY DEF Queued
    <2>1. Queued(queue'[w][i])
        BY <1>4 DEF Queued
    <2>2. queue[w][From(w, i)] # queue[v][1]
        BY <1>0, <1>3, <1>4, OnePlaceParts DEF Placed, QueuesApart
    <2> QED BY <1>3, <1>4, <2>1, <2>2
<1>6. Queued(h)
    BY <1>0, <1>3 DEF Queued
<1>7. \A t \in Tasks : Held(t)' <=> Held(t) \/ t = h
    BY <1>0, <1>1 DEF Held
<1>8. \A t : Injected(t)' <=> Injected(t)
    BY <1>1 DEF Injected
<1>9. QueuesApart'
    <2> SUFFICES ASSUME NEW u \in Workers, NEW w \in Workers,
                        NEW i \in 1 .. Len(queue'[u]), NEW j \in 1 .. Len(queue'[w]),
                        queue'[u][i] = queue'[w][j]
                 PROVE  u = w /\ i = j
        BY DEF QueuesApart
    <2>1. /\ From(u, i) \in 1 .. Len(queue[u]) /\ From(w, j) \in 1 .. Len(queue[w])
          /\ queue[u][From(u, i)] = queue[w][From(w, j)]
        BY <1>4
    <2>2. QueuesApart
        BY OnePlaceParts DEF Placed
    <2>3. u = w /\ From(u, i) = From(w, j)
        BY <2>1, <2>2 DEF QueuesApart
    <2> QED BY <2>3
<1>10. InjectorApart'
    BY <1>1, OnePlaceParts DEF Placed, InjectorApart
<1>11. LoopsApart'
    <2>1. \A k \in Loops : held[k] # h
        BY <1>0, <1>6, OnePlaceParts DEF Placed, PlacesApart, Held
    <2> QED BY <1>1, <2>1, OnePlaceParts DEF Placed, LoopsApart
<1>12. PlacesApart'
    BY <1>0, <1>1, <1>5, <1>6, <1>7, <1>8, OnePlaceParts DEF Placed, PlacesApart
<1>13. Fresh'
    BY <1>0, <1>1, <1>5, <1>6, <1>7, <1>8 DEF Placed, Fresh, Known, Current
<1> QED BY <1>9, <1>10, <1>11, <1>12, <1>13 DEF Placed, OnePlace, QueuesApart,
           InjectorApart, LoopsApart, PlacesApart

\* A step by which a loop takes the head of the injector.
LEMMA PlacedSteal ==
    ASSUME TypeOK, Placed, NEW l \in Loops, Steal(l)
    PROVE  Placed'
<1> USE DEF submit, answers
<1> DEFINE h == Head(injector)
<1>0. h \in Tasks /\ None \notin Tasks
    BY DispatcherAssumption, TailTask DEF DispatcherAssumption, Steal, TypeOK, Tasks
<1>1. /\ queue' = queue /\ finished' = finished
      /\ nextId' = nextId /\ spc' = spc
      /\ held[l] = None /\ held'[l] = h
      /\ \A k \in Loops : k # l => held'[k] = held[k]
    BY DEF Steal, TypeOK
<1>2. injector \in Seq(Tasks) /\ injector # <<>> /\ injector' = Tail(injector)
    BY DEF Steal, TypeOK
<1>3. /\ Len(injector) \in Nat /\ Len(injector') = Len(injector) - 1
      /\ \A i \in 1 .. Len(injector') : injector'[i] = injector[i + 1]
      /\ 1 \in 1 .. Len(injector) /\ h = injector[1]
    BY <1>2
<1>4. \A i \in 1 .. Len(injector') : i + 1 \in 1 .. Len(injector) /\ i + 1 # 1
    BY <1>3
<1>5. \A t : Injected(t)' => Injected(t) /\ t # h
    BY <1>3, <1>4, OnePlaceParts DEF Placed, InjectorApart, Injected
<1>6. Injected(h)
    BY <1>3 DEF Injected
<1>7. \A t \in Tasks : Held(t)' <=> Held(t) \/ t = h
    BY <1>0, <1>1 DEF Held
<1>8. \A t : Queued(t)' <=> Queued(t)
    BY <1>1 DEF Queued
<1>9. InjectorApart'
    <2> SUFFICES ASSUME NEW i \in 1 .. Len(injector'), NEW j \in 1 .. Len(injector'),
                        injector'[i] = injector'[j]
                 PROVE  i = j
        BY DEF InjectorApart
    <2>1. i + 1 = j + 1
        BY <1>3, <1>4, OnePlaceParts DEF Placed, InjectorApart
    <2> QED BY <2>1
<1>10. QueuesApart'
    BY <1>1, OnePlaceParts DEF Placed, QueuesApart
<1>11. LoopsApart'
    <2>1. \A k \in Loops : held[k] # h
        BY <1>0, <1>6, OnePlaceParts DEF Placed, PlacesApart, Held
    <2> QED BY <1>1, <2>1, OnePlaceParts DEF Placed, LoopsApart
<1>12. PlacesApart'
    BY <1>0, <1>1, <1>5, <1>6, <1>7, <1>8, OnePlaceParts DEF Placed, PlacesApart
<1>13. Fresh'
    BY <1>0, <1>1, <1>5, <1>6, <1>7, <1>8 DEF Placed, Fresh, Known, Current
<1> QED BY <1>9, <1>10, <1>11, <1>12, <1>13 DEF Placed, OnePlace, QueuesApart,
           InjectorApart, LoopsApart, PlacesApart

\* A step by which a loop lets its task go, with a result or without.
LEMMA PlacedRelease ==
    ASSUME TypeOK, Placed, NEW l \in Loops, Refused(l) \/ ProcessTask(l)
    PROVE  Placed'
<1> USE DEF submit, channels
<1>0. held[l] \in Tasks /\ None \notin Tasks
    BY DispatcherAssumption
       DEF DispatcherAssumption, Refused, ProcessTask, TypeOK, Tasks
<1>1. /\ queue' = queue /\ injector' = injector
      /\ nextId' = nextId /\ spc' = spc
      /\ held'[l] = None
      /\ \A k \in Loops : k # l => held'[k] = held[k]
      /\ finished' = finished \/ finished' = finished \cup {held[l]}
    BY DEF Refused, ProcessTask, TypeOK, answers
<1>2. \A t \in Tasks : Held(t)' => Held(t) /\ t # held[l]
    BY <1>0, <1>1, OnePlaceParts DEF Held, Placed, LoopsApart
<1>3. \A t : (Queued(t)' <=> Queued(t)) /\ (Injected(t)' <=> Injected(t))
    BY <1>1 DEF Queued, Injected
<1>4. Held(held[l])
    BY DEF Held
<1>5. QueuesApart' /\ InjectorApart'
    BY <1>1, OnePlaceParts DEF Placed, QueuesApart, InjectorApart
<1>6. LoopsApart'
    BY <1>1, OnePlaceParts DEF Placed, LoopsApart
<1>7. PlacesApart'
    BY <1>0, <1>1, <1>2, <1>3, <1>4, OnePlaceParts DEF Placed, PlacesApart
<1>8. Fresh'
    BY <1>0, <1>1, <1>2, <1>3, <1>4 DEF Placed, Fresh, Known, Current
<1> QED BY <1>5, <1>6, <1>7, <1>8 DEF Placed, OnePlace, QueuesApart,
           InjectorApart, LoopsApart, PlacesApart

LEMMA PlacedStep == TypeOK /\ Placed /\ [Next]_vars => Placed'
<1> SUFFICES ASSUME TypeOK, Placed, [Next]_vars PROVE Placed'
    OBVIOUS
<1> USE DEF channels, counters, submit, loops, answers, stop
<1>1. CASE SubmitTask
    BY <1>1, PlacedSame DEF SubmitTask
<1>2. CASE Reject \/ CountSent \/ CountInjected
    BY <1>2, PlacedSame DEF Reject, CountSent, CountInjected
<1>3. ASSUME NEW l \in Loops, StartTurn(l) \/ Exit(l) \/ Uncount(l) \/ Idle(l)
      PROVE  Placed'
    BY <1>3, PlacedSame DEF StartTurn, Exit, Uncount, Idle
<1>4. CASE \/ \E t \in Cleanable : CleanResult(t)
           \/ CleanerExit \/ Shutdown \/ ClearQueues \/ ClearResults \/ UNCHANGED vars
    BY <1>4, PlacedSame DEF CleanResult, CleanerExit, Shutdown, ClearQueues,
       ClearResults, vars
<1> QED BY <1>1, <1>2, <1>3, <1>4, NextCases, PlacedSend, PlacedInject,
           PlacedReceive, PlacedSteal, PlacedRelease

\* No task is ever in two places, held by two loops or processed twice.
THEOREM TaskInOnePlace == Spec => []OnePlace
<1>1. Init => TypeOK /\ Placed
    BY TypeInit, PlacedInit
<1>2. TypeOK /\ Placed /\ [Next]_vars => (TypeOK /\ Placed)'
    BY TypeStep, PlacedStep
<1>3. Placed => OnePlace
    BY DEF Placed
<1> QED BY <1>1, <1>2, <1>3, PTL DEF Spec

(***************************************************************************)
(* The dispatcher implements TaskService.  Of a task that is nowhere the   *)
(* mapping needs to know whether it was ever taken: only what has been     *)
(* sent is accepted, and what is inside is accepted or is being counted.   *)
(***************************************************************************)
Entered ==
    /\ \A t \in accepted : Sent(t)
    /\ \A t \in Tasks : Inside(t) => Settled(t)

LEMMA KnownIsSent ==
    ASSUME TypeOK, Placed, NEW t \in Tasks, Known(t)
    PROVE  Sent(t)
<1>1. t < nextId /\ (spc = "check" => t # Current)
    BY DEF Placed, Fresh
<1>2. t \in Nat /\ nextId \in Nat
    BY DispatcherAssumption DEF TypeOK, Tasks, DispatcherAssumption
<1> QED BY <1>1, <1>2 DEF Sent, Current

\* The fate of a task, by where it is.
LEMMA FateIs ==
    ASSUME TypeOK, Placed, NEW t \in Tasks
    PROVE  /\ ~Sent(t) => Fate[t] = "unknown"
           /\ Inside(t) => Fate[t] = "inside"
           /\ t \in results => Fate[t] = "done"
           /\ Sent(t) /\ Fate[t] = "done" => t \in results
           /\ Sent(t) /\ ~Inside(t) /\ t \notin results /\ t \in finished => Fate[t] = "gone"
           /\ Sent(t) /\ Settled(t) => Fate[t] \notin {"unknown", "refused"}
<1>1. /\ Known(t) => Sent(t)
      /\ t \in results => t \in finished
      /\ t \in finished => ~Inside(t)
    BY KnownIsSent, OnePlaceParts DEF TypeOK, Placed, PlacesApart, Inside
<1>2. Inside(t) \/ t \in finished => Known(t)
    BY DEF Known, Inside
<1> QED BY <1>1, <1>2 DEF Fate

\* A step that changes nothing of the tasks that have been sent changes no fate.
LEMMA FateSame ==
    ASSUME \A t \in Tasks : /\ Sent(t)' <=> Sent(t)
                            /\ Sent(t) => /\ Inside(t)' <=> Inside(t)
                                          /\ Settled(t)' <=> Settled(t),
           results' = results, finished' = finished
    PROVE  Fate' = Fate
BY DEF Fate

LEMMA EnteredInit == Init => Entered
<1> SUFFICES ASSUME Init PROVE Entered
    OBVIOUS
<1>1. /\ \A w \in Workers : queue[w] = <<>> /\ Len(queue[w]) = 0
      /\ injector = <<>> /\ Len(injector) = 0
      /\ \A l \in Loops : held[l] = None
      /\ accepted = {}
    BY DEF Init
<1>2. None \notin Tasks /\ 1 .. 0 = {}
    BY DispatcherAssumption DEF DispatcherAssumption, Tasks
<1>3. \A t \in Tasks : ~Inside(t)
    BY <1>1, <1>2 DEF Inside, Queued, Injected, Held
<1> QED BY <1>1, <1>3 DEF Entered

\* What each step does to where the tasks are.
LEMMA SendLocates ==
    ASSUME TypeOK, NEW v \in Workers, Send(v)
    PROVE  \A t \in Tasks : Inside(t)' <=> Inside(t) \/ t = Current
<1> SUFFICES ASSUME NEW t \in Tasks PROVE Queued(t)' <=> Queued(t) \/ t = Current
    BY DEF Inside, Injected, Held, Send, loops
<1>1. Current \in Tasks
    BY CurrentIsTask DEF Send
<1>2. /\ \A w \in Workers : w # v => queue'[w] = queue[w]
      /\ Len(queue[v]) \in Nat /\ Len(queue'[v]) = Len(queue[v]) + 1
      /\ \A i \in 1 .. Len(queue[v]) : queue'[v][i] = queue[v][i]
      /\ queue'[v][Len(queue[v]) + 1] = Current
    BY <1>1 DEF Send, TypeOK
<1>3. ASSUME NEW w \in Workers, NEW i \in 1 .. Len(queue[w]), queue[w][i] = t
      PROVE  Queued(t)'
    <2>1. i \in 1 .. Len(queue'[w]) /\ queue'[w][i] = t
        BY <1>2, <1>3
    <2> QED BY <2>1 DEF Queued
<1>4. ASSUME t = Current PROVE Queued(t)'
    <2>1. Len(queue[v]) + 1 \in 1 .. Len(queue'[v])
        BY <1>2
    <2> QED BY <1>2, <1>4, <2>1 DEF Queued
<1>5. ASSUME NEW w \in Workers, NEW i \in 1 .. Len(queue'[w]), queue'[w][i] = t
      PROVE  Queued(t) \/ t = Current
    <2>1. CASE w # v
        BY <1>2, <1>5, <2>1 DEF Queued
    <2>2. CASE w = v /\ i \in 1 .. Len(queue[v])
        BY <1>2, <1>5, <2>2 DEF Queued
    <2>3. CASE w = v /\ i = Len(queue[v]) + 1
        BY <1>2, <1>5, <2>3
    <2> QED BY <1>2, <1>5, <2>1, <2>2, <2>3
<1> QED BY <1>3, <1>4, <1>5 DEF Queued

LEMMA InjectLocates ==
    ASSUME TypeOK, Inject
    PROVE  \A t \in Tasks : Inside(t)' <=> Inside(t) \/ t = Current
<1>1. Current \in Tasks
    BY CurrentIsTask DEF Inject
<1>2. /\ Len(injector) \in Nat /\ Len(injector') = Len(injector) + 1
      /\ \A i \in 1 .. Len(injector) : injector'[i] = injector[i]
      /\ injector'[Len(injector) + 1] = Current
    BY <1>1 DEF Inject, TypeOK
<1>3. \A t : Injected(t)' <=> Injected(t) \/ t = Current
    BY <1>2 DEF Injected
<1>4. \A t : (Queued(t)' <=> Queued(t)) /\ (Held(t)' <=> Held(t))
    BY DEF Inject, Queued, Held, loops
<1> QED BY <1>3, <1>4 DEF Inside

LEMMA ReceiveLocates ==
    ASSUME TypeOK, NEW l \in Loops, Receive(l)
    PROVE  \A t \in Tasks : Inside(t)' <=> Inside(t)
<1> DEFINE v == Own[l]
           h == Head(queue[v])
<1>1. v \in Workers /\ None \notin Tasks
    BY DispatcherAssumption DEF DispatcherAssumption, Tasks
<1>2. queue[v] \in Seq(Tasks) /\ queue[v] # <<>>
    BY <1>1 DEF Receive, TypeOK
<1>3. /\ \A w \in Workers : w # v => queue'[w] = queue[w]
      /\ Len(queue[v]) \in Nat /\ Len(queue'[v]) = Len(queue[v]) - 1
      /\ \A i \in 1 .. Len(queue'[v]) : queue'[v][i] = queue[v][i + 1]
      /\ 1 \in 1 .. Len(queue[v]) /\ h = queue[v][1]
    BY <1>1, <1>2 DEF Receive, TypeOK
<1>4. /\ injector' = injector /\ held[l] = None /\ held'[l] = h
      /\ \A k \in Loops : k # l => held'[k] = held[k]
    BY DEF Receive, TypeOK
<1>5. SUFFICES ASSUME NEW t \in Tasks PROVE Inside(t)' <=> Inside(t)
    OBVIOUS
<1>6. Injected(t)' <=> Injected(t)
    BY <1>4 DEF Injected
<1>7. Held(t)' <=> Held(t) \/ t = h
    BY <1>1, <1>4 DEF Held
<1>8. Queued(h)
    BY <1>1, <1>3 DEF Queued
<1>9. ASSUME Queued(t), t # h PROVE Queued(t)'
    <2>0. PICK w \in Workers : \E i \in 1 .. Len(queue[w]) : queue[w][i] = t
        BY <1>9 DEF Queued
    <2>1. PICK i \in 1 .. Len(queue[w]) : queue[w][i] = t
        BY <2>0
    <2>2. CASE w # v
        BY <1>3, <2>1, <2>2 DEF Queued
    <2>3. CASE w = v
        <3>1. i # 1
            BY <1>3, <1>9, <2>1, <2>3
        <3>2. i - 1 \in 1 .. Len(queue'[v]) /\ (i - 1) + 1 = i
            BY <1>3, <2>1, <2>3, <3>1
        <3>3. queue'[v][i - 1] = t
            BY <1>3, <2>1, <2>3, <3>2
        <3> QED BY <1>1, <3>2, <3>3 DEF Queued
    <2> QED BY <2>2, <2>3
<1>10. ASSUME Queued(t)' PROVE Queued(t)
    <2>0. PICK w \in Workers : \E i \in 1 .. Len(queue'[w]) : queue'[w][i] = t
        BY <1>10 DEF Queued
    <2>1. PICK i \in 1 .. Len(queue'[w]) : queue'[w][i] = t
        BY <2>0
    <2>2. CASE w # v
        BY <1>3, <2>1, <2>2 DEF Queued
    <2>3. CASE w = v
        <3>1. i + 1 \in 1 .. Len(queue[v]) /\ queue[v][i + 1] = t
            BY <1>3, <2>1, <2>3
        <3> QED BY <1>1, <3>1 DEF Queued
    <2> QED BY <2>2, <2>3
<1> HIDE DEF h, v
<1> QED BY <1>6, <1>7, <1>8, <1>9, <1>10 DEF Inside

LEMMA StealLocates ==
    ASSUME TypeOK, NEW l \in Loops, Steal(l)
    PROVE  \A t \in Tasks : Inside(t)' <=> Inside(t)
<1> DEFINE h == Head(injector)
<1>1. None \notin Tasks
    BY DispatcherAssumption DEF DispatcherAssumption, Tasks
<1>2. injector \in Seq(Tasks) /\ injector # <<>> /\ injector' = Tail(injector)
    BY DEF Steal, TypeOK
<1>3. /\ Len(injector) \in Nat /\ Len(injector') = Len(injector) - 1
      /\ \A i \in 1 .. Len(injector') : injector'[i] = injector[i + 1]
      /\ 1 \in 1 .. Len(injector) /\ h = injector[1]
    BY <1>2
<1>4. /\ queue' = queue /\ held[l] = None /\ held'[l] = h
      /\ \A k \in Loops : k # l => held'[k] = held[k]
    BY DEF Steal, TypeOK
<1>5. SUFFICES ASSUME NEW t \in Tasks PROVE Inside(t)' <=> Inside(t)
    OBVIOUS
<1>6. Queued(t)' <=> Queued(t)
    BY <1>4 DEF Queued
<1>7. Held(t)' <=> Held(t) \/ t = h
    BY <1>1, <1>4 DEF Held
<1>8. Injected(h)
    BY <1>3 DEF Injected
<1>9. ASSUME Injected(t), t # h PROVE Injected(t)'
    <2>1. PICK i \in 1 .. Len(injector) : injector[i] = t
        BY <1>9 DEF Injected
    <2>2. i - 1 \in 1 .. Len(injector') /\ (i - 1) + 1 = i
        BY <1>3, <1>9, <2>1
    <2>3. injector'[i - 1] = t
        BY <1>3, <2>1, <2>2
    <2> QED BY <2>2, <2>3 DEF Injected
<1>10. Injected(t)' => Injected(t)
    BY <1>3 DEF Injected
<1> HIDE DEF h
<1> QED BY <1>6, <1>7, <1>8, <1>9, <1>10 DEF Inside

\* A loop lets go of the one task that it holds.
LEMMA ReleaseLocates ==
    ASSUME TypeOK, Placed, NEW l \in Loops, Refused(l) \/ ProcessTask(l)
    PROVE  /\ held[l] \in Tasks /\ Inside(held[l]) /\ held[l] \notin finished
           /\ \A t \in Tasks : Inside(t)' <=> Inside(t) /\ t # held[l]
<1>1. held[l] \in Tasks /\ None \notin Tasks
    BY DispatcherAssumption
       DEF DispatcherAssumption, Refused, ProcessTask, TypeOK, Tasks
<1>2. /\ queue' = queue /\ injector' = injector
      /\ held'[l] = None
      /\ \A k \in Loops : k # l => held'[k] = held[k]
    BY DEF Refused, ProcessTask, TypeOK, channels
<1>3. \A t \in Tasks : Held(t)' <=> Held(t) /\ t # held[l]
    BY <1>1, <1>2, OnePlaceParts DEF Held, Placed, LoopsApart
<1>4. \A t : (Queued(t)' <=> Queued(t)) /\ (Injected(t)' <=> Injected(t))
    BY <1>2 DEF Queued, Injected
<1>5. Held(held[l]) /\ ~Queued(held[l]) /\ ~Injected(held[l]) /\ held[l] \notin finished
    BY <1>1, OnePlaceParts DEF Held, Placed, PlacesApart
<1> QED BY <1>1, <1>3, <1>4, <1>5 DEF Inside

\* The ids: what is before the current one stays there.
LEMMA IdsAreNumbers ==
    ASSUME TypeOK
    PROVE  nextId \in Nat /\ Current \in Int /\ nextId = Current + 1 /\ \A t \in Tasks : t \in Nat
BY DispatcherAssumption DEF TypeOK, Current, Tasks, DispatcherAssumption

\* A step that leaves submit_task alone, and takes nothing in.
LEMMA EnteredSame ==
    ASSUME Entered, UNCHANGED submit, \A t \in Tasks : Inside(t)' => Inside(t)
    PROVE  Entered'
BY DEF Entered, submit, Sent, Settled, Current

LEMMA EnteredSubmit ==
    ASSUME TypeOK, Placed, Entered, SubmitTask \/ Reject \/ CountSent \/ CountInjected
    PROVE  Entered'
<1>1. \A t \in Tasks : Inside(t)' <=> Inside(t)
    BY DEF SubmitTask, Reject, CountSent, CountInjected, channels, loops, Inside,
       Queued, Injected, Held
<1>2. accepted \subseteq Tasks
    BY DEF TypeOK
<1>3. CASE SubmitTask
    <2>1. nextId' = nextId + 1 /\ accepted' = accepted /\ spc = "idle"
        BY <1>3 DEF SubmitTask
    <2>2. Current' = Current + 1
        BY <2>1, IdsAreNumbers DEF Current
    <2>3. \A t \in accepted : Sent(t)'
        BY <1>2, <2>1, <2>2, IdsAreNumbers DEF Entered, Sent
    <2>4. \A t \in Tasks : Settled(t) => Settled(t)'
        BY <2>1 DEF Settled
    <2> QED BY <1>1, <2>1, <2>3, <2>4 DEF Entered
<1>4. CASE Reject
    <2>1. /\ Current' = Current /\ accepted' = accepted
          /\ spc = "check" /\ spc' = "idle"
        BY <1>4 DEF Reject, Current
    <2>2. \A t : Sent(t) => Sent(t)'
        BY <2>1 DEF Sent
    <2>3. \A t \in Tasks : Inside(t) => t \in accepted
        BY <2>1 DEF Entered, Settled, Placed, Fresh, Known, Inside
    <2> QED BY <1>1, <2>1, <2>2, <2>3 DEF Entered, Settled
<1>5. CASE CountSent \/ CountInjected
    <2>1. /\ Current' = Current /\ accepted' = accepted \cup {Current}
          /\ spc \in {"sent", "injected"} /\ spc' = "idle"
        BY <1>5 DEF CountSent, CountInjected, Current
    <2>2. \A t : Sent(t) => Sent(t)'
        BY <2>1 DEF Sent
    <2>3. Sent(Current)'
        BY <2>1 DEF Sent
    <2>4. \A t : Settled(t) => Settled(t)'
        BY <2>1 DEF Settled
    <2> QED BY <1>1, <2>1, <2>2, <2>3, <2>4 DEF Entered
<1> QED BY <1>3, <1>4, <1>5

LEMMA EnteredSend ==
    ASSUME TypeOK, Entered, (\E v \in Workers : Send(v)) \/ Inject
    PROVE  Entered'
<1>1. /\ Current' = Current /\ accepted' = accepted
      /\ spc = "check" /\ spc' \in {"sent", "injected"}
    BY DEF Send, Inject, Current
<1>2. \A t \in Tasks : Inside(t)' <=> Inside(t) \/ t = Current
    BY SendLocates, InjectLocates
<1>3. \A t : (Sent(t) => Sent(t)') /\ (Settled(t) => Settled(t)') /\ Settled(Current)'
    BY <1>1 DEF Sent, Settled
<1> QED BY <1>1, <1>2, <1>3 DEF Entered

LEMMA EnteredStep == TypeOK /\ Placed /\ Entered /\ [Next]_vars => Entered'
<1> SUFFICES ASSUME TypeOK, Placed, Entered, [Next]_vars PROVE Entered'
    OBVIOUS
<1>1. ASSUME NEW l \in Loops, \/ StartTurn(l) \/ Exit(l) \/ Receive(l) \/ Uncount(l)
                              \/ Steal(l) \/ Idle(l) \/ Refused(l) \/ ProcessTask(l)
      PROVE  Entered'
    <2>1. UNCHANGED submit
        BY <1>1 DEF StartTurn, Exit, Receive, Uncount, Steal, Idle, Refused, ProcessTask
    <2>2. \A t \in Tasks : Inside(t)' => Inside(t)
        <3>1. CASE StartTurn(l) \/ Exit(l) \/ Uncount(l) \/ Idle(l)
            BY <3>1 DEF StartTurn, Exit, Uncount, Idle, channels, Inside, Queued, Injected, Held
        <3> QED BY <1>1, <3>1, ReceiveLocates, StealLocates, ReleaseLocates
    <2> QED BY <2>1, <2>2, EnteredSame
<1>2. CASE \/ \E t \in Cleanable : CleanResult(t)
           \/ CleanerExit \/ Shutdown \/ ClearQueues \/ ClearResults \/ UNCHANGED vars
    <2>1. UNCHANGED <<submit, channels, loops>>
        BY <1>2 DEF CleanResult, CleanerExit, Shutdown, ClearQueues, ClearResults, vars
    <2>2. \A t \in Tasks : Inside(t)' => Inside(t)
        BY <2>1 DEF channels, loops, Inside, Queued, Injected, Held
    <2> QED BY <2>1, <2>2, EnteredSame
<1> QED BY <1>1, <1>2, NextCases, EnteredSubmit, EnteredSend

(***************************************************************************)
(* The steps, one by one.                                                  *)
(***************************************************************************)
LEMMA ServesInit == Init => Service!TInit
<1> SUFFICES ASSUME Init, NEW t \in Tasks PROVE ~Sent(t)
    BY DEF Init, Service!TInit, Fate
<1> QED BY DispatcherAssumption DEF Init, Sent, Current, Tasks, DispatcherAssumption

\* A step that changes no fate, or the fate of one task.
LEMMA FateMoves ==
    ASSUME NEW t \in Tasks, NEW from, NEW to, Fate[t] = from, Fate'[t] = to,
           \A u \in Tasks : u # t => Fate'[u] = Fate[u],
           accepted' = accepted
    PROVE  Service!Become(t, from, to)
<1>1. /\ Fate = [u \in Tasks |-> Fate[u]]
      /\ Fate' = [u \in Tasks |-> Fate'[u]]
    BY DEF Fate
<1>2. Fate' = [Fate EXCEPT ![t] = to]
    BY <1>1
<1> QED BY <1>2 DEF Service!Become

LEMMA ServesSubmit ==
    ASSUME TypeOK, Placed, Entered, SubmitTask \/ Reject \/ CountSent \/ CountInjected
    PROVE  Service!TNext \/ UNCHANGED Service!tvars
<1>0. /\ \A t \in Tasks : Inside(t)' <=> Inside(t)
      /\ results' = results /\ finished' = finished
    BY DEF SubmitTask, Reject, CountSent, CountInjected, channels, loops, answers, Inside,
       Queued, Injected, Held
<1>1. CASE SubmitTask
    <2>1. /\ nextId' = nextId + 1 /\ accepted' = accepted
          /\ spc = "idle" /\ spc' = "check"
        BY <1>1 DEF SubmitTask
    <2>2. Current' = Current + 1
        BY <2>1, IdsAreNumbers DEF Current
    <2>3. \A t \in Tasks : Sent(t)' <=> Sent(t)
        BY <2>1, <2>2, IdsAreNumbers DEF Sent
    <2>4. \A t \in Tasks : Sent(t) => (Settled(t)' <=> Settled(t))
        BY <2>1, <2>2, IdsAreNumbers DEF Settled, Sent
    <2>5. Fate' = Fate
        BY <1>0, <2>3, <2>4, FateSame
    <2> QED BY <2>1, <2>5 DEF Service!tvars
<1>2. CASE Reject
    <2>1. /\ Current' = Current /\ accepted' = accepted
          /\ spc = "check" /\ spc' = "idle" /\ Current \in Tasks
        BY <1>2, CurrentIsTask DEF Reject, Current
    <2>2. ~Known(Current) /\ ~Sent(Current) /\ Current \notin accepted
        BY <2>1, IdsAreNumbers DEF Placed, Fresh, Sent, Entered
    <2>3. Fate[Current] = "unknown" /\ Fate'[Current] = "refused"
        <3>1. ~Inside(Current)' /\ Current \notin results' /\ Current \notin finished'
            BY <1>0, <2>1, <2>2 DEF Known, Inside, TypeOK
        <3>2. Sent(Current)' /\ ~Settled(Current)'
            BY <2>1, <2>2 DEF Sent, Settled
        <3>3. Fate[Current] = "unknown"
            BY <2>1, <2>2, FateIs
        <3>4. Fate'[Current] = "refused"
            BY <2>1, <3>1, <3>2 DEF Fate
        <3> QED BY <3>3, <3>4
    <2>4. \A u \in Tasks : u # Current => Fate'[u] = Fate[u]
        <3>1. \A u \in Tasks : u # Current => /\ Sent(u)' <=> Sent(u)
                                              /\ Settled(u)' <=> Settled(u)
            BY <2>1 DEF Sent, Settled
        <3> QED BY <1>0, <3>1 DEF Fate
    <2>5. Service!Refuse(Current)
        BY <2>1, <2>3, <2>4, FateMoves DEF Service!Refuse
    <2> QED BY <2>1, <2>5 DEF Service!TNext
<1>3. CASE CountSent \/ CountInjected
    <2>1. /\ Current' = Current /\ accepted' = accepted \cup {Current}
          /\ spc \in {"sent", "injected"} /\ spc' = "idle" /\ Current \in Tasks
        BY <1>3, CurrentIsTask DEF CountSent, CountInjected, Current
    <2>2. \A t \in Tasks : (Sent(t)' <=> Sent(t)) /\ (Settled(t)' <=> Settled(t))
        BY <2>1 DEF Sent, Settled
    <2>3. Fate' = Fate
        BY <1>0, <2>2, FateSame
    <2>4. Fate[Current] \notin {"unknown", "refused"}
        <3>1. Sent(Current) /\ Settled(Current)
            BY <2>1 DEF Sent, Settled
        <3> QED BY <2>1, <3>1, FateIs
    <2>5. Service!Accept(Current)
        BY <2>1, <2>3, <2>4 DEF Service!Accept
    <2> QED BY <2>1, <2>5 DEF Service!TNext
<1> QED BY <1>1, <1>2, <1>3

LEMMA ServesSend ==
    ASSUME TypeOK, Placed, Entered, (\E v \in Workers : Send(v)) \/ Inject
    PROVE  Service!TNext
<1>1. /\ Current' = Current /\ accepted' = accepted
      /\ spc = "check" /\ spc' \in {"sent", "injected"} /\ Current \in Tasks
      /\ results' = results /\ finished' = finished
    BY CurrentIsTask DEF Send, Inject, Current, answers
<1>2. \A t \in Tasks : Inside(t)' <=> Inside(t) \/ t = Current
    BY SendLocates, InjectLocates
<1>3. Fate[Current] = "unknown" /\ Fate'[Current] = "inside"
    <2>1. ~Sent(Current) /\ Sent(Current)' /\ Inside(Current)'
        BY <1>1, <1>2, IdsAreNumbers DEF Sent
    <2>2. Fate[Current] = "unknown"
        BY <1>1, <2>1, FateIs
    <2>3. Current \notin finished' /\ Current \notin results'
        BY <1>1, <2>1, KnownIsSent DEF TypeOK, Known
    <2>4. \A t \in Tasks : Sent(t)' /\ Inside(t)' /\ t \notin finished' /\ t \notin results'
                             => Fate'[t] = "inside"
        BY DEF Fate
    <2>5. Fate'[Current] = "inside"
        BY <1>1, <2>1, <2>3, <2>4
    <2> QED BY <2>2, <2>5
<1>4. \A u \in Tasks : u # Current => Fate'[u] = Fate[u]
    <2>1. \A u \in Tasks : u # Current => /\ Sent(u)' <=> Sent(u)
                                          /\ Settled(u)' <=> Settled(u)
                                          /\ Inside(u)' <=> Inside(u)
        BY <1>1, <1>2 DEF Sent, Settled
    <2> QED BY <1>1, <2>1 DEF Fate
<1>5. Service!Take(Current)
    BY <1>1, <1>3, <1>4, FateMoves DEF Service!Take
<1> QED BY <1>1, <1>5 DEF Service!TNext

\* A loop's step, up to the result.
LEMMA ServesLoop ==
    ASSUME TypeOK, Placed, Entered, NEW l \in Loops,
           \/ StartTurn(l) \/ Exit(l) \/ Receive(l) \/ Uncount(l)
           \/ Steal(l) \/ Idle(l) \/ Refused(l) \/ ProcessTask(l)
    PROVE  Service!TNext \/ UNCHANGED Service!tvars
<1>1. UNCHANGED submit
    BY DEF StartTurn, Exit, Receive, Uncount, Steal, Idle, Refused, ProcessTask
<1>2. /\ accepted' = accepted
      /\ \A t \in Tasks : (Sent(t)' <=> Sent(t)) /\ (Settled(t)' <=> Settled(t))
    BY <1>1 DEF submit, Sent, Settled, Current
<1>3. CASE StartTurn(l) \/ Exit(l) \/ Receive(l) \/ Uncount(l) \/ Steal(l) \/ Idle(l)
    <2>1. results' = results /\ finished' = finished
        BY <1>3 DEF StartTurn, Exit, Receive, Uncount, Steal, Idle, answers
    <2>2. \A t \in Tasks : Inside(t)' <=> Inside(t)
        <3>1. CASE StartTurn(l) \/ Exit(l) \/ Uncount(l) \/ Idle(l)
            BY <3>1 DEF StartTurn, Exit, Uncount, Idle, channels, Inside, Queued, Injected, Held
        <3> QED BY <1>3, <3>1, ReceiveLocates, StealLocates
    <2>3. Fate' = Fate
        BY <1>2, <2>1, <2>2, FateSame
    <2> QED BY <1>2, <2>3 DEF Service!tvars
<1>4. CASE Refused(l) \/ ProcessTask(l)
    <2> DEFINE t == held[l]
    <2>1. /\ t \in Tasks /\ Inside(t) /\ t \notin finished /\ t \notin results
          /\ \A u \in Tasks : Inside(u)' <=> Inside(u) /\ u # t
        BY <1>4, ReleaseLocates DEF TypeOK
    <2>2. Fate[t] = "inside" /\ Sent(t) /\ Settled(t)
        BY <2>1, FateIs, KnownIsSent DEF Inside, Known, Entered
    <2>3. CASE Refused(l)
        <3>1. results' = results /\ finished' = finished
            BY <2>3 DEF Refused, answers
        <3>2. Fate'[t] = "dropped"
            BY <1>2, <2>1, <2>2, <3>1 DEF Fate
        <3>3. \A u \in Tasks : u # t => Fate'[u] = Fate[u]
            BY <1>2, <2>1, <3>1 DEF Fate
        <3>4. Service!Drop(t)
            BY <1>2, <2>1, <2>2, <3>2, <3>3, FateMoves DEF Service!Drop
        <3> QED BY <2>1, <3>4 DEF Service!TNext
    <2>4. CASE ProcessTask(l)
        <3>1. results' = results \cup {t} /\ finished' = finished \cup {t}
            BY <2>4 DEF ProcessTask
        <3>2. Fate'[t] = "done"
            BY <1>2, <2>1, <2>2, <3>1 DEF Fate
        <3>3. \A u \in Tasks : u # t => Fate'[u] = Fate[u]
            BY <1>2, <2>1, <3>1 DEF Fate
        <3>4. Service!Finish(t)
            BY <1>2, <2>1, <2>2, <3>2, <3>3, FateMoves DEF Service!Finish
        <3> QED BY <2>1, <3>4 DEF Service!TNext
    <2> QED BY <1>4, <2>3, <2>4
<1> QED BY <1>3, <1>4

\* Results go one by one, or all together; what loops hold by then stays inside.
LEMMA ServesRest ==
    ASSUME TypeOK, Placed,
           \/ \E t \in Cleanable : CleanResult(t)
           \/ CleanerExit \/ Shutdown \/ ClearQueues \/ ClearResults \/ UNCHANGED vars
    PROVE  Service!TNext \/ UNCHANGED Service!tvars
<1>1. UNCHANGED <<submit, channels, loops, finished>>
    BY DEF CleanResult, CleanerExit, Shutdown, ClearQueues, ClearResults, answers, vars
<1>2. /\ accepted' = accepted
      /\ \A t \in Tasks : /\ (Sent(t)' <=> Sent(t)) /\ (Settled(t)' <=> Settled(t))
                          /\ (Inside(t)' <=> Inside(t))
    BY <1>1 DEF submit, channels, loops, Sent, Settled, Current, Inside, Queued, Injected, Held
<1>3. PICK old \in SUBSET results : results' = results \ old
    BY DEF CleanResult, CleanerExit, Shutdown, ClearQueues, ClearResults, answers, vars
<1>4. \A t \in old : t \in Tasks /\ Fate[t] = "done"
    BY FateIs DEF TypeOK
<1>5. Fate' = [t \in Tasks |-> IF t \in old THEN "gone" ELSE Fate[t]]
    <2>1. ASSUME NEW t \in Tasks, t \in old PROVE Fate'[t] = "gone"
        <3>1. t \in finished /\ Sent(t) /\ ~Inside(t)
            BY <2>1, KnownIsSent, OnePlaceParts
               DEF TypeOK, Known, Placed, PlacesApart, Inside
        <3> QED BY <1>1, <1>2, <1>3, <2>1, <3>1 DEF Fate
    <2>2. ASSUME NEW t \in Tasks, t \notin old PROVE Fate'[t] = Fate[t]
        BY <1>1, <1>2, <1>3, <2>2 DEF Fate
    <2> QED BY <2>1, <2>2 DEF Fate
<1>6. Service!Forget(old)
    BY <1>2, <1>5 DEF Service!Forget
<1> QED BY <1>4, <1>6 DEF Service!TNext

\* The dispatcher implements TaskService: a refused task is never worked on, a taken one
\* at most once, and its result is there until it is forgotten, through any race of the
\* loops for the queues and a shutdown in the middle of them.
THEOREM TasksAreServed == Spec => TasksServed
<1>1. Init => TypeOK /\ Placed /\ Entered /\ Service!TInit
    BY TypeInit, PlacedInit, EnteredInit, ServesInit
<1>2. TypeOK /\ Placed /\ Entered /\ [Next]_vars => (TypeOK /\ Placed /\ Entered)'
    BY TypeStep, PlacedStep, EnteredStep
<1>3. TypeOK /\ Placed /\ Entered /\ [Next]_vars => [Service!TNext]_(Service!tvars)
    BY NextCases, ServesSubmit, ServesSend, ServesLoop, ServesRest
<1> QED BY <1>1, <1>2, <1>3, PTL DEF Spec, TasksServed, Service!TSpec

(***************************************************************************)
(* What overflowed into the injector.                                      *)
(***************************************************************************)
\* Stealing pays from three counted tasks on.
LEMMA StealsFromThree == \A n \in Nat : OptimalStealPolicy(n) <=> n >= 3
<1> SUFFICES ASSUME NEW n \in Nat PROVE OptimalStealPolicy(n) <=> n >= 3
    OBVIOUS
<1>1. CASE n \in 0 .. 2
    <2>1. n = 0 \/ n = 1 \/ n = 2
        BY <1>1
    <2> QED BY <2>1 DEF OptimalStealPolicy
<1>2. CASE n >= 3
    <2>1. n * n >= 3 * n
        BY <1>2
    <2>2. 3 * n > 2 * (n + 1)
        BY <1>2
    <2> QED BY <1>2, <2>1, <2>2 DEF OptimalStealPolicy
<1> QED BY <1>1, <1>2

\* No step takes from the injector then, and none changes that.
LEMMA LeftStep == TypeOK /\ [Next]_vars => StaysLeft
<1> SUFFICES ASSUME TypeOK, [Next]_vars, LeftBehind, nextId' = nextId
             PROVE  LeftBehind' /\ injector' = injector
    BY DEF StaysLeft
<1> USE DEF LeftBehind, channels, counters, submit, loops, answers, stop
<1>0. /\ nextId \in Nat /\ count \in [Workers -> Nat] /\ Own \in [Loops -> Workers]
      /\ lpc \in [Loops -> {"top", "select", "uncount", "permit", "exited"}]
      /\ steal \in [Loops -> BOOLEAN]
    BY DispatcherAssumption DEF DispatcherAssumption, TypeOK
<1>1. ~SubmitTask /\ ~Reject /\ ~Inject /\ ~CountSent /\ ~CountInjected
      /\ \A w \in Workers : ~Send(w)
    BY <1>0 DEF SubmitTask, Reject, Inject, CountSent, CountInjected, Send
<1>2. ASSUME NEW l \in Loops, StartTurn(l) PROVE LeftBehind' /\ injector' = injector
    <2>1. ~OptimalStealPolicy(count[Own[l]])
        BY <1>0, StealsFromThree
    <2>2. PICK s \in {FALSE, OptimalStealPolicy(count[Own[l]])} : steal' = [steal EXCEPT ![l] = s]
        BY <1>2 DEF StartTurn
    <2>3. ~s
        BY <2>1, <2>2
    <2>4. ~steal'[l]
        BY <1>0, <2>2, <2>3, Zenon
    <2>5. \A k \in Loops : k # l => steal'[k] = steal[k] /\ lpc'[k] = lpc[k]
        BY <1>0, <1>2, <2>2 DEF StartTurn
    <2> QED BY <1>2, <2>4, <2>5 DEF StartTurn
<1>3. ASSUME NEW l \in Loops, Receive(l) \/ Exit(l) \/ Idle(l) \/ Refused(l) \/ ProcessTask(l)
      PROVE  LeftBehind' /\ injector' = injector
    BY <1>0, <1>3 DEF Receive, Exit, Idle, Refused, ProcessTask
<1>4. ASSUME NEW l \in Loops, Uncount(l) PROVE LeftBehind' /\ injector' = injector
    BY <1>0, <1>4 DEF Uncount
<1>5. \A l \in Loops : ~Steal(l)
    BY DEF Steal
<1>6. CASE \/ \E t \in Cleanable : CleanResult(t)
           \/ CleanerExit \/ Shutdown \/ ClearQueues \/ ClearResults \/ UNCHANGED vars
    BY <1>6 DEF CleanResult, CleanerExit, Shutdown, ClearQueues, ClearResults, vars
<1> QED BY <1>1, <1>2, <1>3, <1>4, <1>5, <1>6, NextCases

\* What is in the injector when the load falls below three counted tasks a queue stays there,
\* however idle the loops are and whether they are shut down or not, until something new is
\* submitted.
THEOREM LeftoversStay == Spec => LeftStays
BY TypeInit, TypeStep, LeftStep, PTL DEF Spec, LeftStays
=============================================================================
