---------------------------- MODULE EventPipeline ----------------------------
(***************************************************************************)
(* The event pipeline of the integrated batch system (integration.rs): the *)
(* two bounded channels, the converter between them, the one event         *)
(* handler, which also sends into the channel that it alone empties, a     *)
(* tracker per submitted frame that polls for its result, and the tasks    *)
(* that share the statistics with them: the performance monitor and the    *)
(* updater of the performance counters.                                    *)
(*                                                                         *)
(* The locks of the statistics and of active_connections are tokio's; a    *)
(* guard that lives across an await is a step at which its task holds the  *)
(* lock, the others are part of one action.  What active_connections       *)
(* contains, and the answers, are the subject of module Connections.       *)
(***************************************************************************)
EXTENDS Integers, FiniteSets, Sequences

CONSTANTS
    Frames,     \* frames that the readers read
    Conns,      \* connections that are announced and closed
    ChannelSize \* places in each of the two channels

ASSUME EventPipelineAssumption == ChannelSize \in Nat \ {0}

VARIABLES
    unread,        \* frames that are still to be read
    toOpen, toClose,  \* connections whose ConnectionOpened, ConnectionClosed is still to be sent
    readerEvents,  \* the reader's channel
    converter,     \* "receiving", "sending" or "stopped"; when stopped, its channel is closed
    carried,       \* the events that the converter, or the handler, has in its hands:
    handled,       \*   at most one
    systemEvents,  \* the handler's channel
    handler,       \* the next step of the event handler
    tracker,       \* the next step of each frame's tracker
    clone,         \* what the tracker has of the result
    result,        \* whether the dispatcher has a result for each frame
    updater,       \* the next step of the counter updater: a key, or waiting for its turn
    collision,     \* the first key that has the shard of an earlier one, fixed by the hasher
    monitor,       \* the next step of the performance monitor
    shutdown       \* how far emergency_shutdown has come

sources  == <<unread, toOpen, toClose>>
channels == <<readerEvents, systemEvents, converter, carried>>
handling == <<handler, handled>>
tracking == <<tracker, clone, result>>
watching == <<updater, collision, monitor>>
pvars    == <<sources, channels, handling, tracking, watching, shutdown>>

HandlerSteps == {"idle", "received", "submit", "report", "opened", "opening", "closed",
                 "processed", "crediting", "erring"}
TrackerSteps == {"none", "polling", "noting", "report", "processing", "counting", "ended"}
Keys         == {"throughput", "avg_latency_ms", "avg_batch_size"}

\* "processed" is a DataProcessed with data, "failed" one without success.
Error  == <<"error", "pipeline">>
Events == ({"data", "processed", "failed"} \X Frames) \cup ({"opened", "closed"} \X Conns)
          \cup {Error}

\* No key of the updater has the shard of an earlier one, or the second or third has.
PInit ==
    /\ unread = Frames /\ toOpen = Conns /\ toClose = Conns
    /\ readerEvents = <<>> /\ systemEvents = <<>>
    /\ converter = "receiving" /\ carried = <<>>
    /\ handler = "idle" /\ handled = <<>>
    /\ tracker = [f \in Frames |-> "none"] /\ clone = [f \in Frames |-> "none"]
    /\ result = [f \in Frames |-> "none"]
    /\ updater = "waiting" /\ collision \in {"none", "avg_latency_ms", "avg_batch_size"}
    /\ monitor = "waiting" /\ shutdown = "no"

Running == shutdown = "no"

(***************************************************************************)
(* The guards that live across an await.                                   *)
(***************************************************************************)
\* Mutant: the monitor keeps its guard of the statistics while it waits for the
\* connections.
StatsFreeOfMonitor ==
    handler # "crediting" /\ updater \notin Keys /\ monitor # "counting"

\* handle_data_processed writes, the updater reads.
StatsFree == handler # "crediting" /\ updater \notin Keys

\* handle_connection_opened writes.
ConnectionsFree == handler # "opening"

Room(channel) == Len(channel) < ChannelSize

(***************************************************************************)
(* The readers, and the connection's task that announces it.               *)
(***************************************************************************)
ReadFrame(f) ==
    /\ f \in unread
    /\ unread' = unread \ {f}
    /\ \/ /\ converter # "stopped" /\ Room(readerEvents)
          /\ readerEvents' = Append(readerEvents, <<"data", f>>)
       \/ converter = "stopped" /\ UNCHANGED readerEvents
    /\ UNCHANGED <<toOpen, toClose, systemEvents, converter, carried, handling, tracking,
                   watching, shutdown>>

ReaderEnds(c) ==
    /\ c \in toClose
    /\ toClose' = toClose \ {c}
    /\ \/ /\ converter # "stopped" /\ Room(readerEvents)
          /\ readerEvents' = Append(readerEvents, <<"closed", c>>)
       \/ converter = "stopped" /\ UNCHANGED readerEvents
    /\ UNCHANGED <<unread, toOpen, systemEvents, converter, carried, handling, tracking,
                   watching, shutdown>>

Announce(c) ==
    /\ c \in toOpen /\ Room(systemEvents)
    /\ toOpen' = toOpen \ {c}
    /\ systemEvents' = Append(systemEvents, <<"opened", c>>)
    /\ UNCHANGED <<unread, toClose, readerEvents, converter, carried, handling, tracking,
                   watching, shutdown>>

(***************************************************************************)
(* The converter.                                                          *)
(***************************************************************************)
ConverterReceive ==
    /\ converter = "receiving" /\ readerEvents # <<>>
    /\ carried' = <<Head(readerEvents)>> /\ readerEvents' = Tail(readerEvents)
    /\ converter' = "sending"
    /\ UNCHANGED <<sources, systemEvents, handling, tracking, watching, shutdown>>

\* The flag is read after each event; what is left goes with the receiver.
ConverterSend ==
    /\ converter = "sending" /\ Room(systemEvents)
    /\ systemEvents' = Append(systemEvents, Head(carried)) /\ carried' = <<>>
    /\ converter' = IF Running THEN "receiving" ELSE "stopped"
    /\ readerEvents' = IF Running THEN readerEvents ELSE <<>>
    /\ UNCHANGED <<sources, handling, tracking, watching, shutdown>>

(***************************************************************************)
(* The event handler.                                                      *)
(***************************************************************************)
FirstStep(kind) == CASE kind = "data"      -> "received"
                     [] kind = "processed" -> "processed"
                     [] kind = "failed"    -> "idle"
                     [] kind = "error"     -> "erring"
                     [] OTHER              -> kind

Goes(from, to) == handler = from /\ handler' = to
Done(from)     == Goes(from, "idle") /\ handled' = <<>>

\* An event is taken; of a failed DataProcessed only the empty session cache hears.
HandlerTake ==
    LET event == Head(systemEvents) IN
    /\ systemEvents # <<>>
    /\ Goes("idle", FirstStep(event[1]))
    /\ handled' = IF event[1] = "failed" THEN <<>> ELSE <<event>>
    /\ systemEvents' = Tail(systemEvents)
    /\ UNCHANGED <<sources, readerEvents, converter, carried, tracking, watching, shutdown>>

CountReceived ==
    /\ StatsFree /\ Goes("received", "submit")
    /\ UNCHANGED <<sources, channels, handled, tracking, watching, shutdown>>

\* Mutant: a refused frame gets a tracker too.
RefusedTracked(f) ==
    /\ handled = <<<<"data", f>>>> /\ Goes("submit", "report")
    /\ tracker' = [tracker EXCEPT ![f] = "polling"]
    /\ UNCHANGED <<sources, channels, handled, clone, result, watching, shutdown>>

\* The breaker of the packet service or the dispatcher refuses the frame.
Refused(f) ==
    /\ handled = <<<<"data", f>>>> /\ Goes("submit", "report")
    /\ UNCHANGED <<sources, channels, handled, tracking, watching, shutdown>>

\* The dispatcher has the frame, and track_task_result spawns its tracker.
Submitted(f) ==
    /\ handled = <<<<"data", f>>>> /\ Done("submit")
    /\ tracker' = [tracker EXCEPT ![f] = "polling"]
    /\ UNCHANGED <<sources, channels, clone, result, watching, shutdown>>

\* ErrorOccurred, sent by the task that has to receive it.
ReportRefusal ==
    /\ Room(systemEvents) /\ Done("report")
    /\ systemEvents' = Append(systemEvents, Error)
    /\ UNCHANGED <<sources, readerEvents, converter, carried, tracking, watching, shutdown>>

\* handle_connection_opened counts with active_connections locked.
LockConnections ==
    /\ Goes("opened", "opening")
    /\ UNCHANGED <<sources, channels, handled, tracking, watching, shutdown>>

CountOpened ==
    /\ StatsFree /\ Done("opening")
    /\ UNCHANGED <<sources, channels, tracking, watching, shutdown>>

RemoveConnection ==
    /\ Done("closed")
    /\ UNCHANGED <<sources, channels, tracking, watching, shutdown>>

\* handle_data_processed looks for the connection with the statistics locked.
LockStats ==
    /\ StatsFree /\ Goes("processed", "crediting")
    /\ UNCHANGED <<sources, channels, handled, tracking, watching, shutdown>>

CreditConnection ==
    /\ Done("crediting")
    /\ UNCHANGED <<sources, channels, tracking, watching, shutdown>>

CountError ==
    /\ StatsFree /\ Done("erring")
    /\ UNCHANGED <<sources, channels, tracking, watching, shutdown>>

(***************************************************************************)
(* The dispatcher, as its callers see it, and the trackers.                *)
(***************************************************************************)
Work(f) ==
    /\ tracker[f] # "none" /\ result[f] = "none"
    /\ result' = [result EXCEPT ![f] = "there"]
    /\ UNCHANGED <<sources, channels, handling, tracker, clone, watching, shutdown>>

Tracks(f, from, to) == tracker[f] = from /\ tracker' = [tracker EXCEPT ![f] = to]

\* get_result copies the result and leaves it where it is.
Poll(f) ==
    /\ result[f] = "there" /\ Tracks(f, "polling", "noting")
    /\ \E r \in {"ok", "error"} : clone' = [clone EXCEPT ![f] = r]
    /\ UNCHANGED <<sources, channels, handling, result, watching, shutdown>>

\* A hundred attempts, ten seconds.
GiveUp(f) ==
    /\ Tracks(f, "polling", "ended")
    /\ UNCHANGED <<sources, channels, handling, clone, result, watching, shutdown>>

NoteSteals(f) ==
    /\ StatsFree /\ Tracks(f, "noting", "report")
    /\ UNCHANGED <<sources, channels, handling, clone, result, watching, shutdown>>

SendProcessed(f) ==
    /\ Room(systemEvents) /\ Tracks(f, "report", "processing")
    /\ systemEvents' = Append(systemEvents,
                              <<IF clone[f] = "ok" THEN "processed" ELSE "failed", f>>)
    /\ UNCHANGED <<sources, readerEvents, converter, carried, handling, clone, result,
                   watching, shutdown>>

\* process_task_result ends without a count when the packet is empty, of a type that
\* is not supported, or cannot be written; an answer and every other failure count.
ProcessResult(f) ==
    /\ \/ clone[f] = "ok" /\ Tracks(f, "processing", "ended")
       \/ Tracks(f, "processing", "counting")
    /\ UNCHANGED <<sources, channels, handling, clone, result, watching, shutdown>>

CountResult(f) ==
    /\ StatsFree /\ Tracks(f, "counting", "ended")
    /\ UNCHANGED <<sources, channels, handling, clone, result, watching, shutdown>>

(***************************************************************************)
(* The updater of the performance counters: the statistics are read-locked *)
(* and each entry keeps its shard locked to the end of the iteration.      *)
(***************************************************************************)
NextTurn == IF Running THEN "waiting" ELSE "ended"

UpdaterReads ==
    /\ updater = "waiting" /\ handler # "crediting"
    /\ updater' = "throughput"
    /\ UNCHANGED <<sources, channels, handling, tracking, collision, monitor, shutdown>>

\* The entry of a key whose shard the task has locked never comes.
UpdaterTakes ==
    /\ updater \in Keys /\ updater # collision
    /\ updater' = CASE updater = "throughput"     -> "avg_latency_ms"
                    [] updater = "avg_latency_ms" -> "avg_batch_size"
                    [] updater = "avg_batch_size" -> NextTurn
    /\ UNCHANGED <<sources, channels, handling, tracking, collision, monitor, shutdown>>

\* update_performance_counters gives the statistics back before it waits for the
\* connections; the check of the scaling that follows is in module Scaling.
MonitorNotes ==
    /\ monitor = "waiting" /\ StatsFree
    /\ monitor' = "counting"
    /\ UNCHANGED <<sources, channels, handling, tracking, updater, collision, shutdown>>

MonitorCounts ==
    /\ monitor = "counting" /\ ConnectionsFree
    /\ monitor' = NextTurn
    /\ UNCHANGED <<sources, channels, handling, tracking, updater, collision, shutdown>>

(***************************************************************************)
(* emergency_shutdown lowers the flag; then the dispatcher's results go.   *)
(***************************************************************************)
LowerFlag ==
    /\ shutdown = "no" /\ shutdown' = "flag"
    /\ UNCHANGED <<sources, channels, handling, tracking, watching>>

ClearResults ==
    /\ shutdown = "flag" /\ shutdown' = "cleared"
    /\ result' = [f \in Frames |-> IF result[f] = "there" THEN "gone" ELSE result[f]]
    /\ UNCHANGED <<sources, channels, handling, tracker, clone, watching>>

ReaderStep    == \/ \E f \in Frames : ReadFrame(f)
                 \/ \E c \in Conns : ReaderEnds(c) \/ Announce(c)
ConverterStep == ConverterReceive \/ ConverterSend
HandlerStep   == \/ HandlerTake \/ CountReceived \/ ReportRefusal \/ LockConnections
                 \/ CountOpened \/ RemoveConnection \/ LockStats \/ CreditConnection
                 \/ CountError
                 \/ \E f \in Frames : Refused(f) \/ Submitted(f)
TrackerStep(f) == \/ Poll(f) \/ GiveUp(f) \/ NoteSteals(f) \/ SendProcessed(f)
                  \/ ProcessResult(f) \/ CountResult(f)
WatchStep     == UpdaterReads \/ UpdaterTakes \/ MonitorNotes \/ MonitorCounts
ShutdownStep  == LowerFlag \/ ClearResults

PNext == \/ ReaderStep \/ ConverterStep \/ HandlerStep \/ WatchStep \/ ShutdownStep
         \/ \E f \in Frames : Work(f) \/ TrackerStep(f)

PSpec == PInit /\ [][PNext]_pvars

\* Every task that can go on does; locks and the places of a channel are handed out
\* in the order in which the tasks ask.  Readers, results, the monitor's turns and the
\* shutdown need not come.
PFairness ==
    /\ WF_pvars(ConverterReceive) /\ SF_pvars(ConverterSend)
    /\ SF_pvars(HandlerStep)
    /\ \A f \in Frames : SF_pvars(TrackerStep(f))
    /\ WF_pvars(UpdaterTakes) /\ WF_pvars(MonitorCounts)
    /\ WF_pvars(ClearResults)

-----------------------------------------------------------------------------
PTypeOK ==
    /\ unread \subseteq Frames /\ toOpen \subseteq Conns /\ toClose \subseteq Conns
    /\ readerEvents \in Seq(Events) /\ systemEvents \in Seq(Events)
    /\ Len(readerEvents) \in 0..ChannelSize /\ Len(systemEvents) \in 0..ChannelSize
    /\ converter \in {"receiving", "sending", "stopped"}
    /\ carried \in Seq(Events) /\ Len(carried) = IF converter = "sending" THEN 1 ELSE 0
    /\ handler \in HandlerSteps
    /\ handled \in Seq(Events) /\ Len(handled) = IF handler = "idle" THEN 0 ELSE 1
    /\ tracker \in [Frames -> TrackerSteps]
    /\ clone \in [Frames -> {"none", "ok", "error"}]
    /\ result \in [Frames -> {"none", "there", "gone"}]
    /\ updater \in Keys \cup {"waiting", "ended"}
    /\ collision \in {"none", "avg_latency_ms", "avg_batch_size"}
    /\ monitor \in {"waiting", "counting", "ended"}
    /\ shutdown \in {"no", "flag", "cleared"}

\* How often an event is under way.
CopiesIn(event, events) == Cardinality({i \in DOMAIN events : events[i] = event})

Copies(event) == CopiesIn(event, readerEvents) + CopiesIn(event, carried)
                 + CopiesIn(event, systemEvents) + CopiesIn(event, handled)

\* A frame is handled once: it is to be read, or one event has it, or it was refused or
\* has its tracker, or it was dropped; and its result is reported once, after the
\* tracker has taken it.
HandledOnce ==
    \A f \in Frames :
        LET data     == Copies(<<"data", f>>)
            reported == Copies(<<"processed", f>>) + Copies(<<"failed", f>>) IN
        /\ data <= 1 /\ reported <= 1
        /\ data = 1 => f \notin unread /\ tracker[f] = "none"
        /\ reported = 1 => tracker[f] \in {"processing", "counting", "ended"}

\* The two ways in which the pipeline stops for good: the handler waits for a place in
\* the channel that it alone empties, or the updater for a shard that it has locked.
SelfWait == handler = "report" /\ ~Room(systemEvents)
Collided == updater = collision

\* A frame that has been read comes to its end: it is refused or dropped, or its tracker
\* ends.
Settled(f) == Copies(<<"data", f>>) = 0 /\ tracker[f] \in {"none", "ended"}

EverySettles == \A f \in Frames : f \notin unread ~> Settled(f)

\* ... unless the pipeline has stopped in one of the two ways.  The shutdown is no third.
SettlesOrStopped == \A f \in Frames : f \notin unread ~> (Settled(f) \/ SelfWait \/ Collided)
=============================================================================
