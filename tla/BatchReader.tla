----------------------------- MODULE BatchReader -----------------------------
(***************************************************************************)
(* The reader of one connection: the task that register_connection starts, *)
(* src/src/core/protocol/batch_system/core/reader.rs, over read_frame of   *)
(* src/src/core/protocol/packets/frame_reader.rs.                          *)
(*                                                                         *)
(* The peer's frames are streams of pieces, two of the header and one of   *)
(* the body: a read that gives up keeps nothing of what it has taken, and  *)
(* the next one starts wherever that was.  Times are in milliseconds.      *)
(*                                                                         *)
(* The events go into one bounded channel that all readers share and the   *)
(* converter of the batch system empties: a reader waits there for room as *)
(* long as the channel is full and its other end exists.                   *)
(*                                                                         *)
(* Left out: the statistics and the models of packet size and intensity,   *)
(* which nothing decides on.                                               *)
(***************************************************************************)
EXTENDS Integers, Sequences

CONSTANTS
    Frames,        \* bound: the frames the peer sends
    MaxErrors,     \* MAX_CONSECUTIVE_ERRORS (10 in the code)
    BaseTimeout,   \* config.read_timeout
    ReadTimes,     \* what the 95th percentile of the read times may be
    EventCap       \* capacity of the event channel (50000 in the code)

HeaderPieces == 2
FramePieces  == HeaderPieces + 1
MaxTimeout   == 30000
MinTarget    == 5000

ASSUME ReaderAssumption ==
    /\ Frames \in Nat /\ MaxErrors \in Nat \ {0}
    /\ BaseTimeout \in MinTarget..MaxTimeout /\ ReadTimes \subseteq Nat
    /\ EventCap \in Nat \ {0}

VARIABLES
    sent,        \* pieces the peer has sent
    closed,      \* whether the peer has closed the connection
    taken,       \* pieces that were taken off the wire
    start,       \* where the frame that is being read began
    need,        \* pieces this read still waits for, of the header or of the body
    rpc,         \* the next step of the task
    errors,      \* consecutive_read_errors
    timeout,     \* current_timeout
    rrunning,    \* is_running
    listening,   \* whether the other end of event_tx is there
    inChannel,   \* how many events, of any reader, are in the channel
    delivered,   \* history: the frames that were sent as DataReady, 0 for what was none
    astray       \* history: whether a read gave up in the middle of a frame

rvars == <<sent, closed, taken, start, need, rpc, errors, timeout, rrunning, listening,
           inChannel, delivered, astray>>
wire  == <<sent, closed, rrunning, listening>>

RInit ==
    /\ sent = 0 /\ closed = FALSE /\ taken = 0 /\ start = 0 /\ need = 0
    /\ rpc = "turn" /\ errors = 0 /\ timeout = BaseTimeout
    /\ rrunning = TRUE /\ listening = TRUE /\ inChannel = 0 /\ delivered = <<>> /\ astray = FALSE

(***************************************************************************)
(* The peer, the shutdown of the reader and the end of the event handler.  *)
(***************************************************************************)
PeerSends ==
    /\ ~closed /\ sent < Frames * FramePieces
    /\ sent' = sent + 1
    /\ UNCHANGED <<closed, rrunning, listening, taken, start, need, rpc, errors, timeout,
                   inChannel, delivered, astray>>

PeerCloses ==
    /\ ~closed /\ closed' = TRUE
    /\ UNCHANGED <<sent, rrunning, listening, taken, start, need, rpc, errors, timeout,
                   inChannel, delivered, astray>>

StopReader ==
    /\ rrunning /\ rrunning' = FALSE
    /\ UNCHANGED <<sent, closed, listening, taken, start, need, rpc, errors, timeout,
                   inChannel, delivered, astray>>

\* What is in the channel goes with its end.
HandlerEnds ==
    /\ listening /\ listening' = FALSE /\ inChannel' = 0
    /\ UNCHANGED <<sent, closed, rrunning, taken, start, need, rpc, errors, timeout,
                   delivered, astray>>

\* The other readers fill the channel, and the converter takes what is in it.
OtherReaders ==
    /\ listening /\ inChannel < EventCap /\ inChannel' = inChannel + 1
    /\ UNCHANGED <<wire, taken, start, need, rpc, errors, timeout, delivered, astray>>

TakeEvent ==
    /\ inChannel > 0 /\ inChannel' = inChannel - 1
    /\ UNCHANGED <<wire, taken, start, need, rpc, errors, timeout, delivered, astray>>

(***************************************************************************)
(* The task.                                                               *)
(***************************************************************************)
ReaderTurn ==
    /\ rpc = "turn"
    /\ IF rrunning THEN rpc' = "header" /\ start' = taken /\ need' = HeaderPieces
                   ELSE rpc' = "closing" /\ UNCHANGED <<start, need>>
    /\ UNCHANGED <<wire, inChannel, taken, errors, timeout, delivered, astray>>

\* read_exact takes what has arrived.
TakePiece ==
    /\ rpc \in {"header", "body"} /\ need > 0 /\ taken < sent
    /\ taken' = taken + 1 /\ need' = need - 1
    /\ UNCHANGED <<wire, inChannel, start, rpc, errors, timeout, delivered, astray>>

Aligned == start % FramePieces = 0

\* An error that counts: the tenth in a row, or the end of the stream, ends the task.
CountError(ends) ==
    /\ errors' = errors + 1
    /\ rpc' = IF ends \/ errors + 1 >= MaxErrors THEN "closing" ELSE "turn"
    /\ UNCHANGED <<wire, inChannel, taken, start, need, timeout, delivered>>

\* Mutant: the length in a header counts the header.
TakeHeaderToo ==
    /\ rpc = "header" /\ need = 0
    /\ need' = IF Aligned THEN FramePieces ELSE 1
    /\ rpc' = "body"
    /\ UNCHANGED <<wire, inChannel, taken, start, errors, timeout, delivered, astray>>

\* The length in a header that is one, is that of the body.  What is taken for a header
\* elsewhere may say anything: too much, nothing, or some length.
TakeHeader ==
    /\ rpc = "header" /\ need = 0
    /\ \/ Aligned /\ need' = 1 /\ rpc' = "body" /\ UNCHANGED errors
       \/ ~Aligned /\ need' \in 1..FramePieces /\ rpc' = "body" /\ UNCHANGED errors
       \/ ~Aligned /\ rpc' = "closing" /\ UNCHANGED <<need, errors>>  \* length 0
    /\ UNCHANGED <<wire, inChannel, taken, start, timeout, delivered, astray>>

\* Longer than MAX_FRAME_SIZE.
MalformedHeader ==
    /\ rpc = "header" /\ need = 0 /\ ~Aligned
    /\ CountError(FALSE) /\ UNCHANGED astray

\* Mutant: a timeout is no error.
ReadTimesOutFree ==
    /\ rpc \in {"header", "body"} /\ need > 0 /\ taken = sent /\ ~closed
    /\ rpc' = "turn" /\ astray' = (astray \/ taken > start)
    /\ UNCHANGED <<wire, inChannel, taken, start, need, errors, timeout, delivered>>

\* The time of read_from_stream_dyn or one of read_frame's own is over.
ReadTimesOut ==
    /\ rpc \in {"header", "body"} /\ need > 0 /\ taken = sent /\ ~closed
    /\ CountError(FALSE)
    /\ astray' = (astray \/ taken > start)

EndOfStream ==
    /\ rpc \in {"header", "body"} /\ need > 0 /\ taken = sent /\ closed
    /\ CountError(TRUE) /\ UNCHANGED astray

\* ReadTimeoutModel::update: once there are ten read times, the timeout goes three tenths
\* of the way to one and a half times their percentile, and never down.
Raised(time) ==
    LET half   == (3 * time) \div 2
        target == IF half > MinTarget THEN half ELSE MinTarget
        new    == (7 * timeout + 3 * target) \div 10
    IN  IF target <= timeout THEN timeout
        ELSE IF new > MaxTimeout THEN MaxTimeout
        ELSE IF new < MinTarget THEN MinTarget ELSE new

TakeBody ==
    /\ rpc = "body" /\ need = 0
    /\ errors' = 0 /\ rpc' = "send"
    /\ \/ UNCHANGED timeout
       \/ \E time \in ReadTimes : time < timeout /\ timeout' = Raised(time)
    /\ UNCHANGED <<wire, inChannel, taken, start, need, delivered, astray>>

Whole == Aligned /\ taken = start + FramePieces

\* event_tx.send, which both of the task's sends await: it ends at once when the other end
\* is gone, and waits for room otherwise.
SendEnds == ~listening \/ inChannel < EventCap
Sends    == SendEnds /\ inChannel' = IF listening THEN inChannel + 1 ELSE inChannel

SendEvent ==
    /\ rpc = "send"
    /\ Sends
    /\ IF listening
       THEN /\ delivered' = Append(delivered, IF Whole THEN taken \div FramePieces ELSE 0)
            /\ rpc' = "turn"
       ELSE rpc' = "closing" /\ UNCHANGED delivered
    /\ UNCHANGED <<wire, taken, start, need, errors, timeout, astray>>

\* connection_count goes down, and the event ConnectionClosed is sent.
EndReader ==
    /\ rpc = "closing"
    /\ Sends
    /\ rpc' = "ended"
    /\ UNCHANGED <<wire, taken, start, need, errors, timeout, delivered, astray>>

ReaderStep == ReaderTurn \/ TakePiece \/ TakeHeader \/ MalformedHeader \/ ReadTimesOut
              \/ EndOfStream \/ TakeBody \/ SendEvent \/ EndReader

RNext == \/ PeerSends \/ PeerCloses \/ StopReader \/ HandlerEnds
         \/ OtherReaders \/ TakeEvent \/ ReaderStep

\* The task goes on; a read that nothing arrives for times out.  The channel serves those
\* who wait for room in their order, so that no other reader takes it again and again.
RFairSpec == RInit /\ [][RNext]_rvars /\ SF_rvars(ReaderStep)

-----------------------------------------------------------------------------
(***************************************************************************)
(* Properties.                                                             *)
(***************************************************************************)
\* Every variable has its type; the timeout is never below the one configured.
RTypeOK ==
    /\ sent \in 0..Frames * FramePieces /\ taken \in 0..sent /\ start \in 0..taken
    /\ need \in 0..FramePieces /\ errors \in 0..MaxErrors
    /\ timeout \in BaseTimeout..MaxTimeout
    /\ inChannel \in 0..EventCap
    /\ rpc \in {"turn", "header", "body", "send", "closing", "ended"}
    /\ {closed, rrunning, listening, astray} \subseteq BOOLEAN
    /\ delivered \in Seq(0..Frames)

\* register_connection (reader.rs:357) and read_frame: as long as no read gave up in the
\* middle of a frame, the events are the frames in order, none left out, split or joined;
\* and even after that, no frame comes twice or after a later one.
FramesInOrder ==
    /\ ~astray => \A i \in DOMAIN delivered : delivered[i] = i
    /\ \A i, j \in DOMAIN delivered : i < j /\ delivered[j] # 0 => delivered[i] < delivered[j]

\* register_connection (reader.rs:411): the task of a reader that has begun to read comes
\* to its end, whether the peer closes or falls silent in any place, however its errors
\* and its frames alternate, and however the other readers crowd the channel; unless that
\* is full for good, for then the reader waits in one of its two sends (408, 462) for ever,
\* after the peer has gone too.
ReaderEnds == []<>SendEnds => ((rpc # "turn") ~> (rpc = "ended"))
===============================================================================
