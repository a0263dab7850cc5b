------------------------------ MODULE SystemTasks ------------------------------
(***************************************************************************)
(* The tasks of the integrated batch system (integration.rs) as users of   *)
(* its shared locks: the event handler, the command handler and the loops  *)
(* that new and initialize spawn.  What a handler or a turn of a loop does *)
(* to the locks is a program: which it takes, in which order, and up to    *)
(* which later step it keeps the guard.  What the locks protect is the     *)
(* subject of other modules.                                               *)
(***************************************************************************)
EXTENDS Integers, FiniteSets, Sequences

CONSTANTS
    Slots,      \* places for the loops that an instance follows
    Followed    \* what may be in them

Loops == {"collector", "cleaner", "updater", "batches", "monitor", "scaler", "simd",
          "optimisation", "control", "crypto", "crypto_batches", "crypto_stats"}
Handlers == {"events", "commands"}

ASSUME SystemTasksAssumption ==
    Followed \subseteq [Slots -> Loops] /\ Slots \cap Handlers = {}

VARIABLES
    up,       \* the is_running flags that are up, of those that the followed loops look at:
              \*   the system's, the controller's, the crypto processor's
    loop,     \* the loop in each slot
    op,       \* the program that each task is in, "idle" or "ended"
    pos,      \* its next step
    line      \* who waits for each lock, first come first

tvars == <<up, loop, op, pos, line>>

\* "quotas" are those of the QoS manager; the others are the system's own.
RwLocks == {"stats", "connections", "cache", "pending", "settings", "scaling", "quotas"}
TasksOf == Handlers \cup Slots

(***************************************************************************)
(* The programs, in the form of LockPrograms.                              *)
(***************************************************************************)
Under(mode, lock, till) == [lock |-> lock, mode |-> mode, till |-> till]
Brief(mode, lock)      == Under(mode, lock, 0)
Await                  == Brief("none", "none")

\* Mutant: the performance monitor keeps its guard of the statistics while it
\* waits for the connections.
MonitorTurnKept ==
    << Under("write", "stats", 2), Brief("read", "connections"),
       Under("read", "settings", 4), Brief("read", "connections") >>

\* update_performance_counters, then check_scaling_needs, which finds nothing to do
MonitorTurn ==
    << Brief("write", "stats"), Brief("read", "connections"),
       Under("read", "settings", 4), Brief("read", "connections") >>

\* or calls scale_up under its own guard, which adds nothing or changes the pool.
MonitorTries ==
    << Brief("write", "stats"), Brief("read", "connections"),
       Under("read", "settings", 6), Brief("read", "connections"),
       Under("write", "scaling", 6), Brief("read", "settings") >>
MonitorScales ==
    << Brief("write", "stats"), Brief("read", "connections"),
       Under("read", "settings", 7), Brief("read", "connections"),
       Under("write", "scaling", 7), Under("read", "settings", 7),
       Brief("write", "settings") >>

CollectorTurn == << Brief("write", "stats") >>
CleanerTurn   == << Brief("write", "cache") >>
BatchesTurn   == << Brief("write", "pending") >>
UpdaterTurn   == << Under("read", "stats", 2), Await >>

\* perform_auto_scaling keeps the scaling lock and calls scale_up, which takes it.
ScalerTurn    == << Brief("read", "settings"), Under("write", "scaling", 3),
                    Brief("read", "settings") >>
ScalerScales  == << Brief("read", "settings"), Under("write", "scaling", 4),
                    Under("read", "settings", 4), Brief("write", "scaling") >>

\* The queues of the SIMD processor and of the crypto processor stay empty.
SimdTurn         == << Await >>
OptimisationTurn == << Await >>
CryptoTurn       == << Await >>
CryptoBatchTurn  == << Await, Await, Await >>
CryptoStatsTurn  == << Await, Await >>

\* A turn of the controller comes to its end, or stops in one of the four ways that
\* ControlCycle tells apart; they are all here as adapt_quotas, which writes the quotas
\* under its own guard of them.
ControlTurn  == << Await >>
ControlHangs == << Under("read", "quotas", 2), Brief("write", "quotas") >>

\* The event handler.  The tasks that wait for a result write the statistics and
\* hold nothing else.
ReceivedEvent  == << Brief("write", "stats"), Await >>
OpenedEvent    == << Under("write", "connections", 2), Brief("write", "stats") >>
ClosedEvent    == << Brief("write", "connections") >>
ProcessedEvent == << Under("write", "stats", 2), Brief("write", "connections"),
                     Brief("write", "cache") >>
CompletedEvent == << Brief("write", "stats") >>
ErrorEvent     == << Under("write", "stats", 2), Await >>

\* The command handler.  get_system_status keeps its guard of the connections,
\* and those that its result is made of, to the end.
StatusCommand ==
    << Brief("read", "stats"), Under("read", "connections", 7), Brief("read", "settings"),
       Under("read", "pending", 7), Under("read", "cache", 7), Under("read", "stats", 7),
       Await >>
ClearCommand  == << Under("write", "cache", 3), Under("write", "connections", 3),
                    Brief("write", "pending") >>
FlushCommand  == << Brief("write", "cache") >>
ResetCommand  == << Brief("write", "stats") >>

\* adjust_config: the size of the batches, the latency, or a parameter it does not know.
AdjustCommand == << Await >>

\* The number of workers: one that is out of the limits, or that there are already; one
\* for which scale_up or scale_down finds nothing to do; and one that changes the pool.
\* The guard that the limits are read under is kept over the scaling.
AdjustLooks   == << Brief("read", "settings") >>
AdjustTries   == << Under("read", "settings", 3), Under("write", "scaling", 3),
                    Brief("read", "settings") >>
AdjustScales  == << Under("read", "settings", 4), Under("write", "scaling", 4),
                    Under("read", "settings", 4), Brief("write", "settings") >>

\* update_scaling_settings writes at once, or lets go and scales up in between, which adds
\* nothing or changes the pool.
SettingsCommand == << Under("write", "settings", 2), Await >>
SettingsTries   == << Brief("write", "settings"), Under("write", "scaling", 3),
                      Brief("read", "settings"), Under("write", "settings", 5), Await >>
SettingsScales  == << Brief("write", "settings"), Under("write", "scaling", 4),
                      Under("read", "settings", 4), Brief("write", "settings"),
                      Under("write", "settings", 6), Await >>

\* scale_up and scale_down with nothing to do, and with something.
ScaleNothing == << Under("write", "scaling", 2), Brief("read", "settings") >>
ScaleCommand == << Under("write", "scaling", 3), Under("read", "settings", 3),
                   Brief("write", "settings") >>

\* Stopping waits for the dispatcher before it comes to the crypto processor.
StopCommand  == << Await >>

Program ==
    [collector |-> CollectorTurn, cleaner |-> CleanerTurn, updater |-> UpdaterTurn,
     batches |-> BatchesTurn, monitor |-> MonitorTurn, scaler |-> ScalerTurn,
     simd |-> SimdTurn, optimisation |-> OptimisationTurn, control |-> ControlTurn,
     crypto |-> CryptoTurn, crypto_batches |-> CryptoBatchTurn,
     crypto_stats |-> CryptoStatsTurn,
     monitor_tries |-> MonitorTries, monitor_scales |-> MonitorScales,
     scaler_scales |-> ScalerScales, control_hangs |-> ControlHangs,
     received |-> ReceivedEvent, opened |-> OpenedEvent, closed |-> ClosedEvent,
     processed |-> ProcessedEvent, completed |-> CompletedEvent, error |-> ErrorEvent,
     status |-> StatusCommand, clear |-> ClearCommand, flush |-> FlushCommand,
     reset |-> ResetCommand, adjust |-> AdjustCommand,
     adjust_looks |-> AdjustLooks, adjust_tries |-> AdjustTries,
     adjust_scales |-> AdjustScales, settings |-> SettingsCommand,
     settings_tries |-> SettingsTries, settings_scales |-> SettingsScales,
     scale_nothing |-> ScaleNothing, scale |-> ScaleCommand, stop |-> StopCommand]

Ops == DOMAIN Program

EventOps   == {"received", "opened", "closed", "processed", "completed", "error"}
CommandOps == {"status", "clear", "flush", "reset", "adjust", "adjust_looks", "adjust_tries",
               "adjust_scales", "settings", "settings_tries", "settings_scales",
               "scale_nothing", "scale"}

\* What a task may begin with when it is idle.
OpsOf(t) ==
    CASE t = "events"                      -> EventOps
      [] t = "commands"                    -> CommandOps
      [] t \in Slots /\ loop[t] = "monitor" -> {"monitor", "monitor_tries", "monitor_scales"}
      [] t \in Slots /\ loop[t] = "scaler"  -> {"scaler", "scaler_scales"}
      [] t \in Slots /\ loop[t] = "control" -> {"control", "control_hangs"}
      [] OTHER                             -> {loop[t]}

\* The flag that a loop looks at.
Flag(t) ==
    CASE loop[t] = "control" -> "controller"
      [] loop[t] \in {"crypto", "crypto_batches", "crypto_stats"} -> "crypto"
      [] OTHER               -> "system"

Flags == {Flag(t) : t \in Slots}

L == INSTANCE LockPrograms WITH Tasks <- TasksOf, Locks <- RwLocks

(***************************************************************************)
(* new starts every task; an instance follows a few of the loops.          *)
(***************************************************************************)
TInit ==
    /\ loop \in Followed
    /\ up = Flags
    /\ L!NoneRuns

\* An event, a command, a tick.
Start(t, o) ==
    /\ o \in OpsOf(t)
    /\ L!StartOn(t, o)
    /\ UNCHANGED <<up, loop>>

\* stop_processing and emergency_shutdown
BeginStop ==
    /\ L!StartOn("commands", "stop")
    /\ up' = up \ {"system", "controller"}
    /\ UNCHANGED loop

\* start_processing raises the flag that the loops of the system look at, and
\* starts none of them.
StartOrPause ==
    /\ op["commands"] = "idle"
    /\ \/ up' = up \cup ({"system"} \cap Flags)
       \/ up' = up \ {"system"}
    /\ UNCHANGED <<loop, op, pos, line>>

\* Mutant: the loop looks at its flag only after a turn with something to do.
AfterBusyTurn(t) ==
    IF t \in Slots /\ Flag(t) \notin up /\ Len(Program[op[t]]) > 1 THEN "ended" ELSE "idle"

\* A loop looks at its flag between two turns, the handlers wait for what comes.
After(t) == IF t \in Slots /\ Flag(t) \notin up THEN "ended" ELSE "idle"

Proceed(t) ==
    /\ L!Proceed(t, After(t))
    /\ up' = IF op[t] = "stop" /\ L!IsLast(t) THEN up \ {"crypto"} ELSE up
    /\ UNCHANGED loop

Wait(t) == L!JoinLine(t) /\ UNCHANGED <<up, loop>>

TaskStep(t) == Wait(t) \/ Proceed(t)

Tick(t) == \E o \in Ops : Start(t, o)

TNext ==
    \/ \E t \in TasksOf : TaskStep(t) \/ Tick(t)
    \/ BeginStop
    \/ StartOrPause

TSpec == TInit /\ [][TNext]_tvars

\* The runtime polls a task that can go on, and a timer ticks; nothing has to
\* arrive.
TFairSpec ==
    /\ TSpec
    /\ \A t \in TasksOf : WF_tvars(TaskStep(t))
    /\ \A t \in Slots : WF_tvars(Tick(t))

(***************************************************************************)
(* Properties.                                                             *)
(***************************************************************************)
\* The variables have their types and the locks are locks.
TTypeOK ==
    /\ up \subseteq {"system", "controller", "crypto"}
    /\ op \in [TasksOf -> Ops \cup {"idle", "ended"}]
    /\ loop \in [Slots -> Loops]
    /\ L!LocksOK

\* The operations that may wait for ever, for a lock that they have themselves or that
\* somebody has who waits for them: the status reads the statistics under its guard of the
\* connections, whoever changes the pool's size writes the settings that he reads, and the
\* monitor and the command that sets the number of workers scale under a guard of the settings.
Hanging == {"status", "scale", "adjust_tries", "adjust_scales", "settings_scales",
            "monitor_tries", "monitor_scales", "scaler_scales", "control_hangs"}

\* No handlers and loops come to a deadlock unless one of them is in one of these: the event
\* handler takes the statistics under the connections and the connections under the
\* statistics, and the others never hold one while they wait for the other; nor do the loops
\* and commands that take the scaling lock and the settings, and let go in between, wait for
\* each other.
OthersNeverDeadlock == ~L!Deadlocked({t \in L!Busy : op[t] \notin Hanging})

\* When its flag stays down every loop comes to its end, unless a deadlock holds
\* it: no wait for a lock, no line and no interval keeps a loop alive.
LoopsWindDown ==
    <>[](\A t \in Slots : Flag(t) \notin up)
        => <>((\A t \in Slots : op[t] = "ended") \/ L!Deadlocked(L!Busy))
================================================================================
