----------------------------- MODULE ControlCycle -----------------------------
(***************************************************************************)
(* The control loop, AdaptiveSystemController of                           *)
(* batch_system/integration.rs, with the metrics it records in             *)
(* batch_system/metrics_tracing.rs.                                        *)
(*                                                                         *)
(* A turn of the loop collects the state, runs seven optimizations that    *)
(* join! polls in one task, and waits for all of them.  They alternate at  *)
(* any await: one that need not wait gives way too when the task's budget  *)
(* is spent.  Where two of them touch is the configuration's lock, fair to *)
(* a writer that waits, and the map of metrics, whose entry is locked for  *)
(* the thread and kept over an await.                                      *)
(*                                                                         *)
(* Left out: what the optimizations compute.  AdaptiveBatcher has the      *)
(* decision about the batch size.                                          *)
(***************************************************************************)
EXTENDS Naturals, FiniteSets

CONSTANTS BreakersPerTurn   \* the breakers optimize_circuit_breaker looks at (3 in the code)

ASSUME CycleAssumption == BreakersPerTurn \in Nat \ {0}

Branches == {"batch", "workers", "qos", "buffers", "breakers", "readerWriter", "crypto"}

VARIABLES
    turn,      \* the next step of the loop
    running,   \* is_running of the controller
    step,      \* the next step of each optimization
    readers,   \* how many guards each has to read the configuration
    writer,    \* those that have the guard to write it, at most one
    waiting,   \* those that wait to write it
    entry,     \* those that have the entry of a metric, at most one
    frozen,    \* whether the thread waits for an entry
    unchecked  \* the breakers that are still to be looked at

cfglock == <<readers, writer, waiting>>
metric  == <<entry, frozen>>
ccvars  == <<turn, running, step, cfglock, metric, unchecked>>

CCInit ==
    /\ turn = "tick" /\ running = TRUE
    /\ step = [b \in Branches |-> "done"]
    /\ readers = [b \in Branches |-> 0] /\ writer = {} /\ waiting = {}
    /\ entry = {} /\ frozen = FALSE /\ unchecked = 0

(***************************************************************************)
(* The loop: tick, collect_system_state, detect_critical_conditions, the   *)
(* optimizations, apply_decisions and log_system_health.                   *)
(***************************************************************************)
\* No anomaly is ever kept where detect_critical_conditions looks for them.
StartTurn ==
    /\ turn = "tick"
    /\ IF running THEN turn' = "collect" ELSE turn' = "ended"
    /\ UNCHANGED <<running, step, cfglock, metric, unchecked>>

CollectState ==
    /\ turn = "collect" /\ turn' = "join"
    /\ step' = [b \in Branches |-> "start"] /\ unchecked' = BreakersPerTurn
    /\ UNCHANGED <<running, cfglock, metric>>

FinishTurn ==
    /\ turn = "join" /\ \A b \in Branches : step[b] = "done"
    /\ turn' = "tick"
    /\ UNCHANGED <<running, step, cfglock, metric, unchecked>>

StopControl ==
    /\ running /\ running' = FALSE
    /\ UNCHANGED <<turn, step, cfglock, metric, unchecked>>

Polled(b)   == turn = "join" /\ ~frozen
StepTo(b, s) == step' = [step EXCEPT ![b] = s]
From(b, s)  == Polled(b) /\ step[b] = s

(***************************************************************************)
(* The lock of the configuration, and the entries of the metrics.          *)
(***************************************************************************)
MayRead(b)  == writer = {} /\ waiting = {}

MayWrite(b) == writer = {} /\ \A o \in Branches : readers[o] = 0

\* A guard to read that is dropped before the next await.
ReadConfig(b) == MayRead(b) /\ UNCHANGED cfglock

\* Mutant: the guard to read is kept while the one to write is awaited.
WriteConfigRead(b) ==
    /\ waiting' = waiting \ {b} /\ writer' = {b}
    /\ writer = {} /\ readers' = [readers EXCEPT ![b] = 1]
    /\ \A o \in Branches : readers[o] = 0

WriteConfig(b) == MayWrite(b) /\ writer' = {b} /\ waiting' = waiting \ {b} /\ UNCHANGED readers

\* A writer that cannot have the lock at once, queues for it.
QueueWriter(b) == ~MayWrite(b) /\ b \notin waiting /\ waiting' = waiting \cup {b}
                  /\ UNCHANGED <<readers, writer>>

\* record_metric: the entry is locked, detect_anomalies awaits the detector, and only
\* then the entry is free.  An optimization that meets a locked entry stops the thread.
TakeEntry(b, next) ==
    IF entry = {} THEN entry' = {b} /\ StepTo(b, next) /\ UNCHANGED frozen
                  ELSE frozen' = TRUE /\ UNCHANGED <<entry, step>>
DropEntry(b) == entry' = entry \ {b} /\ UNCHANGED frozen

LastMetric(b) ==
    \/ /\ From(b, "metric") /\ TakeEntry(b, "detect")
       /\ UNCHANGED <<turn, running, cfglock, unchecked>>
    \/ /\ From(b, "detect") /\ DropEntry(b) /\ StepTo(b, "done")
       /\ UNCHANGED <<turn, running, cfglock, unchecked>>

(***************************************************************************)
(* The optimizations.                                                      *)
(***************************************************************************)
Unlocked == UNCHANGED <<turn, running, metric, unchecked>>

\* optimize_batch_size: no real load, or not enough of it; the two guards of one clamp;
\* the new size, written to the configuration; and the metrics.
BatchStep ==
    \/ /\ From("batch", "start") /\ Unlocked
       /\ \/ StepTo("batch", "done") /\ UNCHANGED cfglock
          \/ ReadConfig("batch") /\ StepTo("batch", "clamp")
    \/ /\ From("batch", "clamp") /\ Unlocked /\ MayRead("batch")
       /\ readers' = [readers EXCEPT !["batch"] = 1] /\ UNCHANGED <<writer, waiting>>
       /\ StepTo("batch", "clampAgain")
    \/ /\ From("batch", "clampAgain") /\ Unlocked /\ MayRead("batch")
       /\ readers' = [readers EXCEPT !["batch"] = 0] /\ UNCHANGED <<writer, waiting>>
       /\ StepTo("batch", "final")
    \/ /\ From("batch", "final") /\ Unlocked /\ ReadConfig("batch")
       /\ \/ StepTo("batch", "write") \/ StepTo("batch", "metric")
    \/ /\ From("batch", "write") /\ Unlocked
       /\ \/ WriteConfig("batch") /\ StepTo("batch", "record")
          \/ QueueWriter("batch") /\ UNCHANGED step
    \/ /\ From("batch", "record") /\ Unlocked
       /\ writer' = {} /\ UNCHANGED waiting /\ readers' = [readers EXCEPT !["batch"] = 0]
       /\ StepTo("batch", "metric")
    \/ LastMetric("batch")

\* optimize_worker_count: the configuration is read, and nothing of it used.
WorkersStep ==
    \/ /\ From("workers", "start") /\ Unlocked
       /\ \/ StepTo("workers", "done") /\ UNCHANGED cfglock
          \/ /\ ReadConfig("workers")
             /\ \/ StepTo("workers", "done") \/ StepTo("workers", "metric")
    \/ LastMetric("workers")

\* optimize_qos_quotas: adapt_quotas does not return when it has something to change.
QosStep ==
    \/ /\ From("qos", "start") /\ Unlocked /\ UNCHANGED cfglock
       /\ \E s \in {"done", "metric", "adapting"} : StepTo("qos", s)
    \/ /\ From("qos", "adapting") /\ Unlocked /\ UNCHANGED cfglock
       /\ StepTo("qos", "metric")     \* nothing to change
    \/ LastMetric("qos")
QosHangs ==
    /\ From("qos", "adapting") /\ Unlocked /\ UNCHANGED cfglock /\ StepTo("qos", "hung")

\* optimize_buffer_pool: nobody takes buffers, so there is no hit rate to act on.
BuffersStep ==
    /\ From("buffers", "start") /\ Unlocked /\ UNCHANGED cfglock /\ StepTo("buffers", "done")

\* optimize_circuit_breaker: one that is open for long enough is asked for a request
\* while its recovery model is locked, and does not answer.
BreakersStep ==
    \/ /\ From("breakers", "start") /\ Unlocked /\ UNCHANGED cfglock
       /\ StepTo("breakers", "metric")
    \/ /\ From("breakers", "metric") /\ TakeEntry("breakers", "detect")
       /\ UNCHANGED <<turn, running, cfglock, unchecked>>
    \/ /\ From("breakers", "detect") /\ DropEntry("breakers")
       /\ unchecked' = unchecked - 1
       /\ StepTo("breakers", IF unchecked = 1 THEN "done" ELSE "start")
       /\ UNCHANGED <<turn, running, cfglock>>
BreakersHang ==
    /\ From("breakers", "start") /\ Unlocked /\ UNCHANGED cfglock
    /\ StepTo("breakers", "hung")

\* optimize_reader_writer: the configuration stays locked to the end, the metrics included.
ReaderWriterStep ==
    \/ /\ From("readerWriter", "start") /\ Unlocked
       /\ \/ WriteConfig("readerWriter") /\ StepTo("readerWriter", "metric")
          \/ QueueWriter("readerWriter") /\ UNCHANGED step
    \/ /\ From("readerWriter", "metric") /\ TakeEntry("readerWriter", "detect")
       /\ UNCHANGED <<turn, running, cfglock, unchecked>>
    \/ /\ From("readerWriter", "detect") /\ DropEntry("readerWriter")
       /\ writer' = {} /\ StepTo("readerWriter", "done")
       /\ UNCHANGED <<turn, running, readers, waiting, unchecked>>

\* optimize_crypto_processing: nothing was processed, so nothing failed.
CryptoStep ==
    \/ /\ From("crypto", "start") /\ Unlocked /\ UNCHANGED cfglock
       /\ StepTo("crypto", "metric")
    \/ LastMetric("crypto")

Optimization == BatchStep \/ WorkersStep \/ QosStep \/ BuffersStep \/ BreakersStep
                \/ ReaderWriterStep \/ CryptoStep
LoopStep == StartTurn \/ CollectState \/ FinishTurn \/ Optimization

CCNext == LoopStep \/ QosHangs \/ BreakersHang \/ StopControl

\* The task of the loop is run while it can go on.
CCFairSpec == CCInit /\ [][CCNext]_ccvars /\ WF_ccvars(LoopStep)

-----------------------------------------------------------------------------
(***************************************************************************)
(* Properties.                                                             *)
(***************************************************************************)
\* Every variable has its type; a lock to write excludes all others.
CCTypeOK ==
    /\ turn \in {"tick", "collect", "join", "ended"} /\ {running, frozen} \subseteq BOOLEAN
    /\ step \in [Branches -> {"start", "clamp", "clampAgain", "final", "write", "record",
                              "adapting", "metric", "detect", "hung", "done"}]
    /\ readers \in [Branches -> 0..1] /\ unchecked \in 0..BreakersPerTurn
    /\ Cardinality(writer) <= 1 /\ Cardinality(entry) <= 1 /\ waiting \subseteq Branches
    /\ writer # {} => \A b \in Branches \ writer : readers[b] = 0

\* The ways in which a turn does not end: adapt_quotas, an open breaker, the second guard
\* of the clamp behind a writer, and an entry that another optimization has kept.
Stuck == \/ step["qos"] = "hung" \/ step["breakers"] = "hung" \/ frozen
         \/ step["batch"] = "clampAgain" /\ waiting # {}

\* start_control_loop (integration.rs:195): the turns go on until the controller is
\* stopped, whatever the order in which the optimizations are polled, except for these
\* four; and a loop that is told to stop, ends.
TurnsGoOn == \/ []<>(turn = "tick") \/ <>(turn = "ended") \/ <>[]Stuck
===============================================================================
