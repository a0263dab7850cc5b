----------------------------- MODULE BatchWriter -----------------------------
(***************************************************************************)
(* The batch writer, src/src/core/protocol/batch_system/core/writer.rs.    *)
(*                                                                         *)
(* A write that is critical or asks for a flush goes to its session's      *)
(* stream at once; any other goes through one channel to the loop that     *)
(* register_connection started for the stream's address.  The streams are  *)
(* one vector behind one lock, held while a frame is written.              *)
(*                                                                         *)
(* Left out: the statistics, and the batch size that WriteBatchModel finds *)
(* best, which is any of BatchSizes at every turn.                         *)
(***************************************************************************)
EXTENDS Naturals, Sequences, FiniteSets

CONSTANTS
    Streams,        \* how many connections are registered, at most
    AddressOf,      \* the remote address of each: two may share one
    Writes,         \* the calls of write
    SessionOf,      \* the stream of the session each call names
    Immediate,      \* the calls that are critical or require a flush
    MaxPending,     \* config.max_pending_writes
    BatchSizes      \* what optimal_batch_size may be

Conns == 1..Streams

ASSUME WriterAssumption ==
    /\ Streams \in Nat /\ MaxPending \in Nat \ {0}
    /\ SessionOf \in [Writes -> Conns] /\ Immediate \subseteq Writes
    /\ BatchSizes \subseteq Nat \ {0} /\ IsFiniteSet(Writes)

VARIABLES
    registered,   \* connections.len()
    active,       \* is_active of the streams
    permits,      \* backpressure_semaphore
    queue,        \* the channel task_tx / task_rx
    receiver,     \* the loop that has the mutex of task_rx, 0 if none
    pending,      \* pending_tasks of that loop
    wrunning,     \* is_running
    wpc, lpc, spc,  \* the next step of the calls, of the loops and of shutdown
    frames,       \* history: the frames that reached each stream, as sets of calls
    cut,          \* history: the streams on which a frame may have been cut short
    returned      \* history: the permits that the loops gave back

wstreams == <<registered, active, frames, cut>>
wvars    == <<wstreams, permits, queue, receiver, pending, wrunning,
              wpc, lpc, spc, returned>>

\* The lock of connections is held by whoever writes a frame.
LockFree == /\ \A t \in Writes : wpc[t] # "writing"
            /\ \A i \in Conns : lpc[i] # "writing"

\* The streams that are registered and alive; of those that fit the first is taken.
Alive        == {i \in 1..registered : active[i]}
OwnStream(t) == Alive \cap {SessionOf[t]}
AtAddress(a) == {i \in Alive : AddressOf[i] = a}
First(S)     == CHOOSE i \in S : \A j \in S : i <= j

WInit ==
    /\ registered = 0 /\ active = [i \in Conns |-> FALSE]
    /\ frames = [i \in Conns |-> <<>>] /\ cut = {}
    /\ permits = MaxPending /\ queue = <<>>
    /\ receiver = 0 /\ pending = <<>> /\ wrunning = TRUE
    /\ wpc = [t \in Writes |-> "idle"] /\ lpc = [i \in Conns |-> "none"] /\ spc = "idle"
    /\ returned = 0

WriteGoto(t, step) == wpc' = [wpc EXCEPT ![t] = step]
LoopGoto(i, step)  == lpc' = [lpc EXCEPT ![i] = step]

\* What comes of a frame: the whole of it or, with the stream given up, a part.
Framed(i, tasks) == /\ frames' = [frames EXCEPT ![i] = Append(@, tasks)]
                    /\ UNCHANGED <<registered, active, cut>>
\* Mutant: a stream stays alive after a failed or timed out frame.
BrokenStaysAlive(i) == cut' = cut \cup {i} /\ UNCHANGED <<registered, active, frames>>
Broken(i) == /\ active' = [active EXCEPT ![i] = FALSE]
             /\ cut' = cut \cup {i}
             /\ UNCHANGED <<registered, frames>>

(***************************************************************************)
(* register_connection, and the loop it starts.                            *)
(***************************************************************************)
RegisterWriter ==
    /\ registered < Streams /\ LockFree
    /\ registered' = registered + 1
    /\ active' = [active EXCEPT ![registered + 1] = TRUE]
    /\ LoopGoto(registered + 1, "lock")
    /\ UNCHANGED <<frames, cut, permits, queue, receiver, pending, wrunning,
                   wpc, spc, returned>>

(***************************************************************************)
(* write and write_immediate.  A stream that is flushed badly stays alive. *)
(***************************************************************************)
AskPermit(t) ==
    /\ wpc[t] = "idle"
    /\ IF permits = 0
       THEN WriteGoto(t, "refused") /\ UNCHANGED permits
       ELSE /\ permits' = permits - 1
            /\ WriteGoto(t, IF t \in Immediate THEN "immediate" ELSE "send")
    /\ UNCHANGED <<wstreams, queue, receiver, pending, wrunning, lpc, spc, returned>>

QueueWrite(t) ==
    /\ wpc[t] = "send" /\ Len(queue) < MaxPending
    /\ queue' = Append(queue, t)
    /\ permits' = permits + 1
    /\ WriteGoto(t, "queued")
    /\ UNCHANGED <<wstreams, receiver, pending, wrunning, lpc, spc, returned>>

\* Mutant: the permit is lost on the early return of a session without a stream.
FindStreamKeepsPermit(t) ==
    /\ wpc[t] = "immediate" /\ LockFree
    /\ IF OwnStream(t) = {}
       THEN WriteGoto(t, "failed")
       ELSE WriteGoto(t, "writing")
    /\ UNCHANGED <<permits, wstreams, queue, receiver, pending, wrunning, lpc, spc, returned>>
FindStream(t) ==
    /\ wpc[t] = "immediate" /\ LockFree
    /\ IF OwnStream(t) = {}
       THEN WriteGoto(t, "failed") /\ permits' = permits + 1
       ELSE WriteGoto(t, "writing") /\ UNCHANGED permits
    /\ UNCHANGED <<wstreams, queue, receiver, pending, wrunning, lpc, spc, returned>>

WriteFrame(t) ==
    /\ wpc[t] = "writing"
    /\ LET i == First(OwnStream(t)) IN
       \/ Framed(i, {t}) /\ WriteGoto(t, "written")
       \/ Framed(i, {t}) /\ WriteGoto(t, "failed")  \* the flush
       \/ Broken(i) /\ WriteGoto(t, "failed")
    /\ permits' = permits + 1
    /\ UNCHANGED <<queue, receiver, pending, wrunning, lpc, spc, returned>>

(***************************************************************************)
(* start_writer_for_connection.  A loop that has the receiver keeps it; a  *)
(* task for another address is dropped.                                    *)
(***************************************************************************)
LockReceiver(i) ==
    /\ lpc[i] = "lock" /\ receiver = 0
    /\ receiver' = i /\ LoopGoto(i, "turn")
    /\ UNCHANGED <<wstreams, permits, queue, pending, wrunning, wpc, spc, returned>>

LoopTurn(i) ==
    /\ lpc[i] = "turn"
    /\ IF wrunning
       THEN LoopGoto(i, "select") /\ UNCHANGED <<receiver, pending>>
       ELSE LoopGoto(i, "ended") /\ receiver' = 0 /\ pending' = <<>>
    /\ UNCHANGED <<wstreams, permits, queue, wrunning, wpc, spc, returned>>

\* WriteBatchModel: the size that wrote most per second within the target latency, of the
\* last hundred batches, is any of BatchSizes; until then a batch may grow.
BatchSmall(tasks) == \E n \in BatchSizes : Len(tasks) < n

\* A batch is due when it is large enough, or whenever the flush interval is over.
ReceiveWrite(i) ==
    /\ lpc[i] = "select" /\ queue # <<>>
    /\ queue' = Tail(queue)
    /\ IF AddressOf[SessionOf[Head(queue)]] # AddressOf[i]
       THEN LoopGoto(i, "turn") /\ UNCHANGED pending
       ELSE /\ pending' = Append(pending, Head(queue))
            /\ \/ LoopGoto(i, "batch")
               \/ BatchSmall(pending') /\ LoopGoto(i, "turn")
    /\ UNCHANGED <<wstreams, permits, receiver, wrunning, wpc, spc, returned>>

LoopSleep(i) ==
    /\ lpc[i] = "select"
    /\ \/ LoopGoto(i, "turn")
       \/ pending # <<>> /\ LoopGoto(i, "batch")
    /\ UNCHANGED <<wstreams, permits, queue, receiver, pending, wrunning, wpc, spc,
                   returned>>

\* After process_batch, whatever came of it.
BatchDone(i) ==
    /\ permits' = permits + Len(pending) /\ returned' = returned + Len(pending)
    /\ pending' = <<>> /\ LoopGoto(i, "turn")

FindAddress(i) ==
    /\ lpc[i] = "batch" /\ LockFree
    /\ IF AtAddress(AddressOf[i]) = {}
       THEN BatchDone(i)
       ELSE LoopGoto(i, "writing") /\ UNCHANGED <<permits, returned, pending>>
    /\ UNCHANGED <<wstreams, queue, receiver, wrunning, wpc, spc>>

WriteBatch(i) ==
    /\ lpc[i] = "writing"
    /\ LET s == First(AtAddress(AddressOf[i])) IN
       \/ Framed(s, {pending[n] : n \in DOMAIN pending})
       \/ Broken(s)
    /\ BatchDone(i)
    /\ UNCHANGED <<queue, receiver, wrunning, wpc, spc>>

(***************************************************************************)
(* shutdown.                                                               *)
(***************************************************************************)
StopWriter ==
    /\ spc = "idle"
    /\ wrunning' = FALSE /\ spc' = "deactivate"
    /\ UNCHANGED <<wstreams, permits, queue, receiver, pending, wpc, lpc, returned>>

Deactivate ==
    /\ spc = "deactivate" /\ LockFree
    /\ active' = [i \in Conns |-> FALSE] /\ spc' = "done"
    /\ UNCHANGED <<registered, frames, cut, permits, queue, receiver, pending,
                   wrunning, wpc, lpc, returned>>

\* What a call that has its permit does, and what a loop does besides receiving.
WriteStep(t)  == QueueWrite(t) \/ FindStream(t) \/ WriteFrame(t)
WriterLoop(i) == LockReceiver(i) \/ LoopTurn(i) \/ LoopSleep(i) \/ FindAddress(i) \/ WriteBatch(i)

WNext ==
    \/ RegisterWriter \/ StopWriter \/ Deactivate
    \/ \E t \in Writes : AskPermit(t) \/ WriteStep(t)
    \/ \E i \in Conns : ReceiveWrite(i) \/ WriterLoop(i)

WSpec == WInit /\ [][WNext]_wvars

-----------------------------------------------------------------------------
(***************************************************************************)
(* Properties.                                                             *)
(***************************************************************************)
\* Every variable has its type, and a loop past the receiver's mutex has the receiver.
WTypeOK ==
    /\ registered \in 0..Streams /\ active \in [Conns -> BOOLEAN]
    /\ permits \in Nat /\ returned \in Nat /\ wrunning \in BOOLEAN
    /\ queue \in Seq(Writes) /\ pending \in Seq(Writes) /\ receiver \in 0..Streams
    /\ wpc \in [Writes -> {"idle", "refused", "send", "queued", "immediate", "writing",
                           "written", "failed"}]
    /\ lpc \in [Conns -> {"none", "lock", "turn", "select", "batch", "writing", "ended"}]
    /\ spc \in {"idle", "deactivate", "done"} /\ cut \subseteq Conns
    /\ \A i \in Conns : lpc[i] \in {"turn", "select", "batch", "writing"} <=> receiver = i

\* write_immediate (writer.rs:381) and process_batch (writer.rs:561): once a frame may
\* have been cut short by a failure or a timeout, nothing more is written to that
\* stream, so that a peer never takes the middle of one frame for the start of another.
NothingAfterCut == [][\A i \in cut : frames'[i] = frames[i]]_wvars

\* write (writer.rs:336): the permits that are free and those that calls under way have
\* are as many as at the start and those that the loops gave back: no call that is
\* refused, dropped or fails keeps its permit.
Asking == {t \in Writes : wpc[t] \in {"send", "immediate", "writing"}}
PermitsComeBack == permits + Cardinality(Asking) = MaxPending + returned
===============================================================================
