----------------------- MODULE WorkStealingDispatcher -----------------------
(***************************************************************************)
(* The dispatcher that spreads received packets over worker loops,         *)
(* src/src/core/protocol/batch_system/optimized/                           *)
(* work_stealing_dispatcher.rs.                                            *)
(*                                                                         *)
(* One task, the event handler of the batch system, calls submit_task; the *)
(* worker loops take tasks from the bounded queue of their own worker or,  *)
(* when they decide to steal, from the bounded injector.  Queue lengths    *)
(* are not read from the queues: they are counters, changed after the send *)
(* and after the receive.  The circuit breaker and the QoS manager are     *)
(* seen here as answers that may go either way, or not come: a breaker     *)
(* that says no makes submit_task return and a loop wait 5 ms and start    *)
(* over at the top of its turn, as often as it says no.  Neither changes a *)
(* variable, but both keep a task where it is: that they end is not among  *)
(* the fairness below, it is a hypothesis of the properties that need it.  *)
(***************************************************************************)
EXTENDS Naturals, Sequences, FiniteSetsExt

CONSTANTS
    Workers,           \* one bounded queue each
    Loops,             \* the spawned worker loops
    Own,               \* the worker whose queue a loop serves
    Capacity,          \* queue_capacity
    InjectorCapacity,  \* 4 * queue_capacity in the code
    Limit,             \* backpressure_threshold * number of workers
    MaxTasks,          \* bound: the number of ids that are handed out
    Cleanable,         \* bound: the ids whose results grow old enough to clean
    None               \* no task

Tasks == 1 .. MaxTasks

ASSUME DispatcherAssumption ==
    /\ IsFiniteSet(Workers) /\ IsFiniteSet(Loops)
    /\ Own \in [Loops -> Workers]
    /\ Capacity \in Nat \ {0}
    /\ InjectorCapacity \in Nat \ {0}
    /\ Limit \in Nat
    /\ MaxTasks \in Nat /\ Cleanable \subseteq Tasks
    /\ None \notin Nat

VARIABLES
    queue,      \* the channel of each worker
    injector,   \* the shared overflow channel
    count,      \* worker_queues: the length each worker is thought to have,
                \* 0 where it has no entry
    counting,   \* FALSE once shutdown has cleared worker_queues
    backlog,    \* injector_backlog
    nextId,     \* next_task_id
    spc,        \* the next step of submit_task
    sending,    \* the worker that submit_task has just sent to
    lpc,        \* the next step of each loop
    steal,      \* should_steal of each loop
    held,       \* the task each loop has taken, or None
    results,    \* the ids that have an entry in results
    finished,   \* history: the ids that have ever had one
    accepted,   \* history: the ids that submit_task has returned with Ok
    running,    \* is_running
    cleaning,   \* the task cleaner has not left its loop
    closing     \* the next step of shutdown

channels == <<queue, injector>>
counters == <<count, counting, backlog>>
submit   == <<nextId, spc, sending, accepted>>
loops    == <<lpc, steal, held>>
answers  == <<results, finished>>
stop     == <<running, cleaning, closing>>
vars     == <<channels, counters, submit, loops, answers, stop>>

Current == nextId - 1
Backlog == MapThenSumSet(LAMBDA w : count[w], Workers) + backlog

\* benefit = (1 - 1/(n+1)) * n * 0.1 exceeds cost_steal = 0.2: from n = 3 on.
OptimalStealPolicy(n) == n * n > 2 * (n + 1)

Init ==
    /\ queue = [w \in Workers |-> <<>>] /\ injector = <<>>
    /\ count = [w \in Workers |-> 0] /\ counting = TRUE /\ backlog = 0
    /\ nextId = 1 /\ spc = "idle" /\ sending = None /\ accepted = {}
    /\ lpc = [l \in Loops |-> "top"]
    /\ steal = [l \in Loops |-> FALSE]
    /\ held = [l \in Loops |-> None]
    /\ results = {} /\ finished = {}
    /\ running = TRUE /\ cleaning = TRUE /\ closing = "up"

(***************************************************************************)
(* submit_task.  Between the check of the backlog and the send only other  *)
(* tasks lower it, so the check is part of the step that sends.            *)
(***************************************************************************)
SubmitTask ==
    /\ spc = "idle"
    /\ nextId \in Tasks
    /\ nextId' = nextId + 1
    /\ spc' = "check"
    /\ UNCHANGED <<sending, accepted, channels, counters, loops, answers, stop>>

\* Mutant: what is turned away is answered with its id all the same.
RejectAccepts ==
    /\ spc = "check"
    /\ \/ Backlog > Limit
       \/ /\ \E w \in Workers : Len(queue[w]) >= Capacity
          /\ Len(injector) >= InjectorCapacity
    /\ accepted' = accepted \cup {Current}
    /\ spc' = "idle"
    /\ UNCHANGED <<nextId, sending, channels, counters, loops, answers, stop>>

\* Backpressure: too long a backlog, or the chosen queue and the injector full.
Reject ==
    /\ spc = "check"
    /\ \/ Backlog > Limit
       \/ /\ \E w \in Workers : Len(queue[w]) >= Capacity
          /\ Len(injector) >= InjectorCapacity
    /\ spc' = "idle"
    /\ UNCHANGED <<nextId, sending, accepted, channels, counters, loops, answers, stop>>

\* Any worker may be one of the two random choices and the less loaded one.
Send(w) ==
    /\ spc = "check"
    /\ Backlog <= Limit
    /\ Len(queue[w]) < Capacity
    /\ queue' = [queue EXCEPT ![w] = Append(@, Current)]
    /\ spc' = "sent"
    /\ sending' = w
    /\ UNCHANGED <<nextId, accepted, injector, counters, loops, answers, stop>>

Inject ==
    /\ spc = "check"
    /\ Backlog <= Limit
    /\ \E w \in Workers : Len(queue[w]) >= Capacity
    /\ Len(injector) < InjectorCapacity
    /\ injector' = Append(injector, Current)
    /\ spc' = "injected"
    /\ UNCHANGED <<nextId, sending, accepted, queue, counters, loops, answers, stop>>

\* The counter of the queue is raised when the task is in it already.
CountSent ==
    /\ spc = "sent"
    /\ count' = IF counting THEN [count EXCEPT ![sending] = @ + 1] ELSE count
    /\ accepted' = accepted \cup {Current}
    /\ spc' = "idle"
    /\ sending' = None
    /\ UNCHANGED <<counting, backlog, nextId, channels, loops, answers, stop>>

CountInjected ==
    /\ spc = "injected"
    /\ backlog' = backlog + 1
    /\ accepted' = accepted \cup {Current}
    /\ spc' = "idle"
    /\ UNCHANGED <<count, counting, nextId, sending, channels, loops, answers, stop>>

(***************************************************************************)
(* worker_loop.                                                            *)
(***************************************************************************)
\* The breaker lets the loop in; as long as it does not, the loop stays at the top of its
\* turn.  Whether to steal is asked at most every 10 ms; in between it is FALSE.
StartTurn(l) ==
    /\ lpc[l] = "top"
    /\ running
    /\ \E s \in {FALSE, OptimalStealPolicy(count[Own[l]])} :
          steal' = [steal EXCEPT ![l] = s]
    /\ lpc' = [lpc EXCEPT ![l] = "select"]
    /\ UNCHANGED <<held, channels, counters, submit, answers, stop>>

\* Mutants: a refusal of the breaker ends the loop; or the loop wants to finish
\* its queue before it ends.
ExitRefused(l) ==
    /\ lpc[l] = "top"
    /\ lpc' = [lpc EXCEPT ![l] = "exited"]
    /\ UNCHANGED <<steal, held, channels, counters, submit, answers, stop>>

ExitDrained(l) ==
    /\ lpc[l] = "top"
    /\ ~running /\ queue[Own[l]] = <<>>
    /\ lpc' = [lpc EXCEPT ![l] = "exited"]
    /\ UNCHANGED <<steal, held, channels, counters, submit, answers, stop>>

Exit(l) ==
    /\ lpc[l] = "top"
    /\ ~running
    /\ lpc' = [lpc EXCEPT ![l] = "exited"]
    /\ UNCHANGED <<steal, held, channels, counters, submit, answers, stop>>

Receive(l) ==
    /\ lpc[l] = "select"
    /\ queue[Own[l]] # <<>>
    /\ held' = [held EXCEPT ![l] = Head(queue[Own[l]])]
    /\ queue' = [queue EXCEPT ![Own[l]] = Tail(@)]
    /\ lpc' = [lpc EXCEPT ![l] = "uncount"]
    /\ UNCHANGED <<steal, injector, counters, submit, answers, stop>>

\* saturating_sub: a counter that the sender has not raised yet stays at 0.
Uncount(l) ==
    /\ lpc[l] = "uncount"
    /\ count' = IF count[Own[l]] > 0
                THEN [count EXCEPT ![Own[l]] = @ - 1] ELSE count
    /\ lpc' = [lpc EXCEPT ![l] = "permit"]
    /\ UNCHANGED <<steal, held, counting, backlog, channels, submit, answers, stop>>

\* Mutants: a stolen task stays in the injector; or it lowers the counter of the
\* thief's own queue.
StealPeeks(l) ==
    /\ lpc[l] = "select"
    /\ steal[l]
    /\ injector # <<>>
    /\ held' = [held EXCEPT ![l] = Head(injector)]
    /\ lpc' = [lpc EXCEPT ![l] = "permit"]
    /\ UNCHANGED <<steal, channels, counters, submit, answers, stop>>

StealUncounts(l) ==
    /\ lpc[l] = "select"
    /\ steal[l]
    /\ injector # <<>>
    /\ held' = [held EXCEPT ![l] = Head(injector)]
    /\ injector' = Tail(injector)
    /\ lpc' = [lpc EXCEPT ![l] = "uncount"]
    /\ UNCHANGED <<steal, queue, counters, submit, answers, stop>>

\* Mutant: the injector's branch of the select has lost its condition.
StealAnyway(l) ==
    /\ lpc[l] = "select"
    /\ injector # <<>>
    /\ held' = [held EXCEPT ![l] = Head(injector)]
    /\ injector' = Tail(injector)
    /\ lpc' = [lpc EXCEPT ![l] = "permit"]
    /\ UNCHANGED <<steal, queue, counters, submit, answers, stop>>

\* A steal lowers no counter.
Steal(l) ==
    /\ lpc[l] = "select"
    /\ steal[l]
    /\ injector # <<>>
    /\ held' = [held EXCEPT ![l] = Head(injector)]
    /\ injector' = Tail(injector)
    /\ lpc' = [lpc EXCEPT ![l] = "permit"]
    /\ UNCHANGED <<steal, queue, counters, submit, answers, stop>>

\* The 5 microseconds of the select are over.
Idle(l) ==
    /\ lpc[l] = "select"
    /\ lpc' = [lpc EXCEPT ![l] = "top"]
    /\ UNCHANGED <<steal, held, channels, counters, submit, answers, stop>>

\* acquire_permit refuses: the task is let go, retry or not.
Refused(l) ==
    /\ lpc[l] = "permit"
    /\ held' = [held EXCEPT ![l] = None]
    /\ lpc' = [lpc EXCEPT ![l] = "top"]
    /\ UNCHANGED <<steal, channels, counters, submit, answers, stop>>

\* It grants, and process_task leaves a result whatever became of the task.
ProcessTask(l) ==
    /\ lpc[l] = "permit"
    /\ results' = results \cup {held[l]}
    /\ finished' = finished \cup {held[l]}
    /\ held' = [held EXCEPT ![l] = None]
    /\ lpc' = [lpc EXCEPT ![l] = "top"]
    /\ UNCHANGED <<steal, channels, counters, submit, stop>>

\* The task cleaner drops a result after 300 s; it looks at is_running before
\* it waits for its next pass.
CleanResult(t) ==
    /\ cleaning
    /\ t \in results
    /\ results' = results \ {t}
    /\ UNCHANGED <<finished, channels, counters, submit, loops, stop>>

CleanerExit ==
    /\ cleaning /\ ~running
    /\ cleaning' = FALSE
    /\ UNCHANGED <<running, closing, channels, counters, submit, loops, answers>>

(***************************************************************************)
(* shutdown clears the maps while loops are in the middle of a turn.       *)
(***************************************************************************)
Shutdown ==
    /\ closing = "up"
    /\ running' = FALSE
    /\ closing' = "clear_queues"
    /\ UNCHANGED <<cleaning, channels, counters, submit, loops, answers>>

ClearQueues ==
    /\ closing = "clear_queues"
    /\ counting' = FALSE
    /\ count' = [w \in Workers |-> 0]
    /\ closing' = "clear_results"
    /\ UNCHANGED <<backlog, running, cleaning, channels, submit, loops, answers>>

ClearResults ==
    /\ closing = "clear_results"
    /\ results' = {}
    /\ closing' = "down"
    /\ UNCHANGED <<finished, running, cleaning, channels, counters, submit, loops>>

SubmitStep  == \/ Reject \/ Inject \/ CountSent \/ CountInjected
               \/ \E w \in Workers : Send(w)
LoopStep(l) == \/ StartTurn(l) \/ Exit(l) \/ Receive(l) \/ Uncount(l)
               \/ Steal(l) \/ Idle(l) \/ Refused(l) \/ ProcessTask(l)
CloseStep   == ClearQueues \/ ClearResults \/ CleanerExit

Work == \/ SubmitTask \/ SubmitStep
        \/ \E l \in Loops : LoopStep(l)
        \/ \E t \in Cleanable : CleanResult(t)

Next == Work \/ Shutdown \/ CloseStep

Spec == Init /\ [][Next]_vars

\* The scheduler runs every task, and the select picks a branch at random, so
\* a branch that is ready again and again is taken.  A step that waits for the
\* breaker or for the QoS manager is not the loop's own.
OwnStep(l) == Exit(l) \/ Receive(l) \/ Uncount(l) \/ Steal(l) \/ Idle(l)
Fairness ==
    /\ WF_vars(SubmitStep) /\ WF_vars(CloseStep)
    /\ \A l \in Loops : /\ WF_vars(OwnStep(l))
                        /\ SF_vars(Receive(l)) /\ SF_vars(Steal(l))

\* What the other parts may withhold: the breaker lets in a loop that keeps asking, and
\* acquire_permit and the task itself come to an end.
LetIn           == \A l \in Loops : WF_vars(StartTurn(l))
PermitsAnswered == \A l \in Loops : WF_vars(Refused(l) \/ ProcessTask(l))

FairSpec == Spec /\ Fairness

\* The same system as long as nobody shuts it down.
UpSpec == Init /\ [][Work]_vars /\ Fairness
-----------------------------------------------------------------------------
TypeOK ==
    /\ queue \in [Workers -> Seq(Tasks)]
    /\ injector \in Seq(Tasks)
    /\ count \in [Workers -> Nat] /\ counting \in BOOLEAN /\ backlog \in Nat
    /\ nextId \in 1 .. MaxTasks + 1
    /\ spc \in {"idle", "check", "sent", "injected"}
    /\ spc # "idle" => nextId > 1
    /\ sending \in Workers \cup {None}
    /\ spc = "sent" => sending \in Workers
    /\ accepted \subseteq Tasks
    /\ lpc \in [Loops -> {"top", "select", "uncount", "permit", "exited"}]
    /\ steal \in [Loops -> BOOLEAN]
    /\ held \in [Loops -> Tasks \cup {None}]
    /\ \A l \in Loops : held[l] # None <=> lpc[l] \in {"uncount", "permit"}
    /\ results \subseteq finished /\ finished \subseteq Tasks
    /\ running \in BOOLEAN /\ cleaning \in BOOLEAN
    /\ closing \in {"up", "clear_queues", "clear_results", "down"}

\* Where a task is, between submit_task and its result.
Queued(t)    == \E w \in Workers : \E i \in 1 .. Len(queue[w]) : queue[w][i] = t
Injected(t)  == \E i \in 1 .. Len(injector) : injector[i] = t
Held(t)      == \E l \in Loops : held[l] = t
Taken(w)     == {l \in Loops : Own[l] = w /\ lpc[l] = "uncount"}
Unsent(w)    == IF spc = "sent" /\ sending = w THEN 1 ELSE 0

\* No task is handed to two loops or processed twice, whatever races for the
\* queues and the injector: the channels hold every id at most once, a loop
\* holds what no channel and no other loop has, and none of them has a result.
OnePlace ==
    /\ \A v, w \in Workers : \A i \in 1 .. Len(queue[v]), j \in 1 .. Len(queue[w]) :
          queue[v][i] = queue[w][j] => v = w /\ i = j
    /\ \A i, j \in 1 .. Len(injector) : injector[i] = injector[j] => i = j
    /\ \A k, l \in Loops : held[k] = held[l] /\ held[k] # None => k = l
    /\ \A t \in Tasks : /\ Queued(t) => ~Injected(t) /\ ~Held(t) /\ t \notin finished
                        /\ Injected(t) => ~Held(t) /\ t \notin finished
                        /\ Held(t) => t \notin finished

\* Until shutdown a counter never misses a task of its queue, but for the one
\* being sent: backpressure is never late.
CounterCovers ==
    counting => \A w \in Workers :
        count[w] + Unsent(w) >= Len(queue[w]) + Cardinality(Taken(w))

\* And the increment that a receiver overtakes makes it too high by one, once:
\* the drift does not add up.
DriftAtMostOne ==
    counting => \A w \in Workers :
        count[w] + Unsent(w) <= Len(queue[w]) + Cardinality(Taken(w)) + 1

\* Until shutdown every task in a worker's queue is taken from it, however the loops, the
\* senders and the thieves get in each other's way, unless the breaker turns a loop away for
\* ever or a loop gets no answer for the task it holds: an open breaker leaves the queues be.
QueuedIsTaken ==
    LetIn /\ PermitsAnswered => \A t \in Tasks : Queued(t) ~> ~Queued(t) \/ ~running

\* Once shut down, every loop ends, the ones in the middle of a turn too, whatever the breaker
\* says from then on and whatever is left in the queues, if the permits waited for are answered.
LoopsEnd == PermitsAnswered => (~running ~> \A l \in Loops : lpc[l] = "exited")

\* Only a loop whose own queue counts three tasks or more takes from the injector.  So what
\* is there when no queue counts as many, no loop is about to steal and nothing is being
\* submitted stays there, however idle the loops are, until something new is submitted.
LeftBehind ==
    /\ injector # <<>> /\ spc = "idle"
    /\ \A w \in Workers : count[w] < 3
    /\ \A l \in Loops : lpc[l] = "select" => ~steal[l]
StaysLeft == LeftBehind /\ nextId' = nextId => LeftBehind' /\ injector' = injector
LeftStays == [][StaysLeft]_vars

\* A task that submit_task has accepted stays with the dispatcher until it has
\* had a result.
NoTaskLost == \A t \in accepted : Queued(t) \/ Injected(t) \/ Held(t) \/ t \in finished

\* What has become of each task.  Its channel or its loop tells while it is inside; of a
\* task that is nowhere, accepted and spc tell whether it was let go or never taken.
Sent(t)    == t < Current \/ (t = Current /\ spc # "check")
Inside(t)  == Queued(t) \/ Injected(t) \/ Held(t)
Settled(t) == t \in accepted \/ (t = Current /\ spc # "idle")
Fate ==
    [t \in Tasks |-> CASE ~Sent(t)                -> "unknown"
                       [] Sent(t) /\ Inside(t)    -> "inside"
                       [] t \in results           -> "done"
                       [] t \in finished \ results -> "gone"
                       [] OTHER -> IF Settled(t) THEN "dropped" ELSE "refused"]
Service == INSTANCE TaskService WITH fate <- Fate

\* TaskService's promise holds of this dispatcher, through races of the loops for one
\* queue, refused permits, the cleaner and a shutdown in the middle of them: a task that
\* was refused is never worked on, one that was taken at most once, and its result is
\* there from then on until it is forgotten.
TasksServed == Service!TSpec
=============================================================================
