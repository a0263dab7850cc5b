------------------------------- MODULE Scaling -------------------------------
(***************************************************************************)
(* The worker pool of the batch system and the three tasks that resize it, *)
(* src/src/core/protocol/batch_system/integration.rs: the auto-scaler, the *)
(* command handler, which obeys the adaptive controller, and the           *)
(* performance monitor.  They share a mutex, scaling_lock, and an RwLock,  *)
(* scaling_settings; tokio's RwLock lets no reader pass a waiting writer.  *)
(***************************************************************************)
EXTENDS Naturals, Sequences

CONSTANTS
    MinWorkers, MaxWorkers,  \* 4 and 256, of the pool and of the settings
    CommandCap               \* capacity of the command channel (1000)

ASSUME ScalingAssumption ==
    /\ MinWorkers \in Nat \ {0} /\ MaxWorkers \in Nat /\ MinWorkers <= MaxWorkers
    /\ CommandCap \in Nat \ {0}

Tasks    == {"auto", "cmd", "mon"}
Commands == {"up", "down", "emergency"}  \* all that the controller sends

VARIABLES
    workers,   \* current_workers
    dynamic,   \* the tasks that add_workers has spawned and that still run
    loaded,    \* what each task has last read of current_workers
    goal,      \* what it is going to store there
    lock,      \* who has scaling_lock, or "none"
    reads,     \* the read guards of scaling_settings each task has
    tpc,       \* the next step of each task
    resize,    \* the direction of the resize that a task is in
    commands,  \* the command channel
    lagged,    \* a command was overwritten before the handler took it
    running    \* is_running, of the batch system and of the controller

pool  == <<workers, dynamic>>
plans == <<loaded, goal>>
locks == <<lock, reads>>
bus   == <<commands, lagged>>
svars == <<pool, plans, locks, tpc, resize, bus, running>>

SInit ==
    /\ workers = MinWorkers /\ dynamic = 0
    /\ loaded = [t \in Tasks |-> MinWorkers] /\ goal = loaded
    /\ lock = "none" /\ reads = [t \in Tasks |-> 0]
    /\ tpc = [t \in Tasks |-> "top"]
    /\ resize = [t \in Tasks |-> "up"]
    /\ commands = <<>> /\ lagged = FALSE
    /\ running = TRUE

Step(t, step) == tpc' = [tpc EXCEPT ![t] = step]
Unwritten     == \A t \in Tasks : tpc[t] # "write"
ReadSettings(t) == Unwritten /\ reads' = [reads EXCEPT ![t] = @ + 1]

(***************************************************************************)
(* The controller sends; a full channel drops its oldest command.          *)
(***************************************************************************)

SendCommand(k) ==
    /\ running
    /\ IF Len(commands) < CommandCap
       THEN commands' = Append(commands, k) /\ UNCHANGED lagged
       ELSE commands' = Append(Tail(commands), k) /\ lagged' = TRUE
    /\ UNCHANGED <<pool, plans, locks, tpc, resize, running>>

(***************************************************************************)
(* The command handler.                                                    *)
(***************************************************************************)
\* The receiver reports the loss with an error, which ends the handler's loop.
Lag ==
    /\ tpc["cmd"] = "top"
    /\ lagged
    /\ Step("cmd", "stopped")
    /\ UNCHANGED <<pool, plans, locks, resize, bus, running>>

HandleScale ==
    /\ tpc["cmd"] = "top"
    /\ ~lagged
    /\ commands # <<>> /\ Head(commands) # "emergency"
    /\ commands' = Tail(commands)
    /\ resize' = [resize EXCEPT !["cmd"] = Head(commands)]
    /\ Step("cmd", "lock")
    /\ UNCHANGED <<pool, plans, locks, lagged, running>>

\* emergency_shutdown: the loops see is_running when they come round.
HandleEmergency ==
    /\ tpc["cmd"] = "top"
    /\ ~lagged
    /\ commands # <<>> /\ Head(commands) = "emergency"
    /\ commands' = Tail(commands)
    /\ running' = FALSE
    /\ UNCHANGED <<pool, plans, locks, tpc, resize, lagged>>

(***************************************************************************)
(* scale_up and scale_down: the lock, then the settings, kept to the end.  *)
(***************************************************************************)
\* Mutant: nothing keeps two resizes apart.
LockShared(t) ==
    /\ tpc[t] = "lock"
    /\ lock' = t
    /\ loaded' = [loaded EXCEPT ![t] = workers]
    /\ Step(t, "settings")
    /\ UNCHANGED <<pool, goal, reads, resize, bus, running>>

\* The size is read as soon as the lock is there.
Lock(t) ==
    /\ tpc[t] = "lock"
    /\ lock = "none"
    /\ lock' = t
    /\ loaded' = [loaded EXCEPT ![t] = workers]
    /\ Step(t, "settings")
    /\ UNCHANGED <<pool, goal, reads, resize, bus, running>>

Settings(t) ==
    /\ tpc[t] = "settings"
    /\ ReadSettings(t)
    /\ Step(t, "resize")
    /\ UNCHANGED <<pool, plans, lock, resize, bus, running>>

\* All guards go; the performance monitor's own one too, when it returns.
Return(t) ==
    /\ lock' = "none"
    /\ reads' = [reads EXCEPT ![t] = 0]
    /\ Step(t, "top")

\* Mutant: a resize with nothing to do keeps the lock.
KeepSizeLocked(t) ==
    /\ tpc[t] = "resize"
    /\ reads' = [reads EXCEPT ![t] = 0]
    /\ Step(t, "top")
    /\ UNCHANGED <<pool, plans, lock, resize, bus, running>>

\* At the limit already, or the size is optimal: Ok(0).
KeepSize(t) ==
    /\ tpc[t] = "resize"
    /\ Return(t)
    /\ UNCHANGED <<pool, plans, resize, bus, running>>

\* scale_up goes up to the optimum and scale_down down to it, by no more than the count
\* they were asked for and within the limits.
Amount(t, k, optimal) ==
    /\ k >= 1
    /\ IF resize[t] = "up" THEN loaded[t] + k <= optimal /\ loaded[t] + k <= MaxWorkers
                           ELSE optimal + k <= loaded[t] /\ MinWorkers + k <= loaded[t]

\* The Kalman filter is read for the optimum; add_workers and remove_workers load the size
\* once more, and cut the new one to the limits of the pool.
Plan(t, k, optimal) ==
    /\ tpc[t] = "resize"
    /\ Amount(t, k, optimal)
    /\ loaded' = [loaded EXCEPT ![t] = workers]
    /\ goal' = [goal EXCEPT ![t] =
                   IF resize[t] = "up"
                   THEN IF workers + k <= MaxWorkers THEN workers + k ELSE MaxWorkers
                   ELSE IF workers >= MinWorkers + k THEN workers - k ELSE MinWorkers]
    /\ Step(t, "spawn")
    /\ UNCHANGED <<pool, locks, resize, bus, running>>

\* When it has the handles, add_workers spawns what is missing; remove_workers ends every
\* worker that was ever added.
Spawn(t) ==
    /\ tpc[t] = "spawn"
    /\ dynamic' = IF resize[t] = "up" THEN dynamic + (goal[t] - loaded[t]) ELSE 0
    /\ Step(t, "store")
    /\ UNCHANGED <<workers, plans, locks, resize, bus, running>>

\* What was planned is stored, whatever the size is by now.  Then the task waits to write
\* the settings it is reading: no action leaves "write".
Store(t) ==
    /\ tpc[t] = "store"
    /\ workers' = goal[t]
    /\ Step(t, "write")
    /\ UNCHANGED <<dynamic, plans, locks, resize, bus, running>>

(***************************************************************************)
(* The auto-scaler and the performance monitor.                            *)
(***************************************************************************)
\* The loops look at is_running before they wait for their tick, not after it.
Tick(t) ==
    /\ tpc[t] = "top" /\ running
    /\ Step(t, "tick")
    /\ UNCHANGED <<pool, plans, locks, resize, bus, running>>

\* perform_auto_scaling has the lock and the settings when it decides,
AutoLock ==
    /\ tpc["auto"] = "tick"
    /\ Unwritten
    /\ lock = "none"
    /\ lock' = "auto"
    /\ Step("auto", "look")
    /\ UNCHANGED <<pool, plans, reads, resize, bus, running>>

AutoLook ==
    /\ tpc["auto"] = "look"
    /\ ReadSettings("auto")
    /\ Step("auto", "decide")
    /\ UNCHANGED <<pool, plans, lock, resize, bus, running>>

AutoNothing ==
    /\ tpc["auto"] = "decide"
    /\ Return("auto")
    /\ UNCHANGED <<pool, plans, resize, bus, running>>

\* and calls scale_up or scale_down, which waits for the lock: no action leaves
\* "again".
AutoScale ==
    /\ tpc["auto"] = "decide"
    /\ workers < MaxWorkers \/ workers > MinWorkers
    /\ Step("auto", "again")
    /\ UNCHANGED <<pool, plans, locks, resize, bus, running>>

\* check_scaling_needs reads the settings and calls scale_up when there are
\* many connections.
MonLook ==
    /\ tpc["mon"] = "tick"
    /\ ReadSettings("mon")
    /\ Step("mon", "decide")
    /\ UNCHANGED <<pool, plans, lock, resize, bus, running>>

MonNothing ==
    /\ tpc["mon"] = "decide"
    /\ reads' = [reads EXCEPT !["mon"] = 0]
    /\ Step("mon", "top")
    /\ UNCHANGED <<pool, plans, lock, resize, bus, running>>

MonScale ==
    /\ tpc["mon"] = "decide"
    /\ workers < MaxWorkers
    /\ resize' = [resize EXCEPT !["mon"] = "up"]
    /\ Step("mon", "lock")
    /\ UNCHANGED <<pool, plans, locks, bus, running>>

LoopEnd(t) ==
    /\ t \in {"auto", "mon"}
    /\ tpc[t] = "top" /\ ~running
    /\ Step(t, "stopped")
    /\ UNCHANGED <<pool, plans, locks, resize, bus, running>>

ResizeStep(t) == \/ Lock(t) \/ Settings(t) \/ KeepSize(t)
                 \/ \E k, optimal \in 1 .. MaxWorkers + 1 : Plan(t, k, optimal)
                 \/ Spawn(t) \/ Store(t)
CmdStep  == Lag \/ HandleScale \/ HandleEmergency \/ ResizeStep("cmd")
AutoStep == Tick("auto") \/ AutoLock \/ AutoLook \/ AutoNothing \/ AutoScale
            \/ LoopEnd("auto")
MonStep  == Tick("mon") \/ MonLook \/ MonNothing \/ MonScale \/ ResizeStep("mon") \/ LoopEnd("mon")

SNext == \/ \E k \in Commands : SendCommand(k)
         \/ CmdStep \/ AutoStep \/ MonStep

SSpec == SInit /\ [][SNext]_svars

\* The scheduler runs every task, and the lock is granted in order.
SFairness == SF_svars(CmdStep) /\ SF_svars(AutoStep) /\ SF_svars(MonStep)
-----------------------------------------------------------------------------
STypeOK ==
    /\ workers \in Nat /\ dynamic \in Nat
    /\ loaded \in [Tasks -> Nat] /\ goal \in [Tasks -> Nat]
    /\ lock \in Tasks \cup {"none"}
    /\ reads \in [Tasks -> 0 .. 2]
    /\ tpc \in [Tasks -> {"top", "tick", "lock", "settings", "resize", "spawn", "store",
                          "write", "look", "decide", "again", "stopped"}]
    /\ resize \in [Tasks -> {"up", "down"}]
    /\ commands \in Seq(Commands) /\ Len(commands) <= CommandCap
    /\ lagged \in BOOLEAN /\ running \in BOOLEAN

\* A task that waits for what it has itself.
Stuck == \E t \in Tasks : tpc[t] \in {"write", "again"}

\* The counter that add_workers loads, and stores when it has waited for the handles and
\* spawned the tasks, agrees with the tasks that were spawned whenever nobody is in between,
\* and stays within the limits, whoever else wants to resize: no update is lost, and no
\* scale_down that ends all of them is told to leave some.
PoolCounted ==
    /\ workers \in MinWorkers .. MaxWorkers
    /\ (\A t \in Tasks : tpc[t] # "store") => workers = MinWorkers + dynamic

\* An emergency shutdown gets past the other commands and resizes, unless one
\* of these is stuck or the handler has lost a command.
EmergencyStops ==
    (\E i \in 1 .. Len(commands) : commands[i] = "emergency")
        ~> ~running \/ Stuck \/ lagged
=============================================================================
