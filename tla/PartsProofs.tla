----------------------------- MODULE PartsProofs ------------------------------
(***************************************************************************)
(* What holds of the parts that share nothing: the batch writer and reader,*)
(* the phantom packets, the decision of the adaptive batcher, the buffer   *)
(* pool, the control loop, and the congestion controller.                  *)
(***************************************************************************)
EXTENDS MCParts, FiniteSetTheorems, WellFoundedInduction, TLAPS

-----------------------------------------------------------------------------

(***************************************************************************)
(* The batch writer: nothing is written to a stream on which a frame may   *)
(* have been cut short, and permits come back, for any number of streams,  *)
(* addresses and calls.                                                    *)
(***************************************************************************)
-----------------------------------------------------------------------------
(***************************************************************************)
(* The inductive invariants.                                               *)
(***************************************************************************)
\* Whoever has the lock of connections.
WritingCalls == {t \in Writes : wpc[t] = "writing"}
WritingLoops == {i \in Conns : lpc[i] = "writing"}

\* One frame is written at a time, and its stream is there until it is written.
OneWrites ==
    /\ \A t, u \in WritingCalls : t = u
    /\ \A i, j \in WritingLoops : i = j
    /\ WritingCalls = {} \/ WritingLoops = {}
    /\ \A t \in WritingCalls : OwnStream(t) # {}
    /\ \A i \in WritingLoops : AtAddress(AddressOf[i]) # {}

\* A stream that is cut is registered and dead.
CutIsDead == \A i \in cut : i <= registered /\ ~active[i]

\* A connection that is not registered has no loop.
LoopsRegistered == \A i \in Conns : i > registered => lpc[i] = "none"

StreamsInv == WTypeOK /\ OneWrites /\ CutIsDead /\ LoopsRegistered

-----------------------------------------------------------------------------
\* The first of the streams that fit is one of them.
LEMMA FirstFits ==
    ASSUME NEW S \in SUBSET Nat, S # {}
    PROVE  First(S) \in S
<1> DEFINE R == OpToRel(<, Nat)
<1>1. IsWellFoundedOn(R, Nat)
  BY NatLessThanWellFounded
<1>2. \A i, j \in Nat : <<i, j>> \in R <=> i < j
  BY DEF OpToRel
<1> HIDE DEF R
<1>3. PICK i \in S : \A j \in S : ~(<<j, i>> \in R)
  BY <1>1, WFMin
<1>4. ASSUME NEW j \in S PROVE i <= j
  <2>1. i \in Nat /\ j \in Nat
    OBVIOUS
  <2>2. ~(j < i)
    BY <1>2, <1>3, <2>1
  <2> QED BY <2>1, <2>2
<1> QED BY <1>4 DEF First

LEMMA AliveAre == WTypeOK => Alive \subseteq Conns /\ Alive \in SUBSET Nat
  BY WriterAssumption DEF WTypeOK, Alive, Conns

LEMMA TakenStreamFits ==
    ASSUME WTypeOK
    PROVE  /\ \A t \in Writes : OwnStream(t) # {} => First(OwnStream(t)) \in Alive
           /\ \A a : AtAddress(a) # {} => First(AtAddress(a)) \in Alive
<1>1. ASSUME NEW S \in SUBSET Alive, S # {} PROVE First(S) \in Alive
  BY <1>1, AliveAre, FirstFits
<1> QED BY <1>1 DEF OwnStream, AtAddress

\* A frame goes whole to a stream that lives, or its stream is cut and dies.
LEMMA FrameKeeps ==
    ASSUME WTypeOK, CutIsDead, NEW i \in Alive, NEW tasks, Framed(i, tasks) \/ Broken(i)
    PROVE  /\ CutIsDead' /\ \A j \in cut : frames'[j] = frames[j]
           /\ registered' = registered /\ active' \in [Conns -> BOOLEAN] /\ cut' \subseteq Conns
<1>1. i \in Conns /\ i <= registered /\ active[i]
  <2>1. i \in 1..registered /\ active[i]
    BY DEF Alive
  <2>2. registered \in Nat
    BY WriterAssumption DEF WTypeOK
  <2>3. i \in Conns
    BY AliveAre
  <2> QED BY <2>1, <2>2, <2>3
<1>2. CASE Framed(i, tasks)
  BY <1>1, <1>2 DEF Framed, CutIsDead, WTypeOK
<1>3. CASE Broken(i)
  BY <1>1, <1>3, WriterAssumption DEF Broken, CutIsDead, WTypeOK, Conns
<1> QED BY <1>2, <1>3

-----------------------------------------------------------------------------
(***************************************************************************)
(* Types.                                                                  *)
(***************************************************************************)
LEMMA StreamsStart == WInit => StreamsInv
<1> SUFFICES ASSUME WInit PROVE StreamsInv
  OBVIOUS
<1>1. WTypeOK
  BY WriterAssumption DEF WInit, WTypeOK, Conns
<1>2. WritingCalls = {} /\ WritingLoops = {}
  BY DEF WInit, WritingCalls, WritingLoops
<1>3. OneWrites /\ CutIsDead /\ LoopsRegistered
  BY <1>2 DEF WInit, OneWrites, CutIsDead, LoopsRegistered
<1> QED BY <1>1, <1>3 DEF StreamsInv

CallSteps == {"idle", "refused", "send", "queued", "immediate", "writing", "written", "failed"}
LoopSteps == {"none", "lock", "turn", "select", "batch", "writing", "ended"}
Holding   == {"turn", "select", "batch", "writing"}
LoopsOK   == /\ lpc \in [Conns -> LoopSteps]
             /\ \A i \in Conns : lpc[i] \in Holding <=> receiver = i

StreamsTypes ==
    /\ registered \in 0..Streams /\ active \in [Conns -> BOOLEAN]
    /\ permits \in Nat /\ returned \in Nat /\ wrunning \in BOOLEAN
    /\ queue \in Seq(Writes) /\ pending \in Seq(Writes) /\ receiver \in 0..Streams
    /\ wpc \in [Writes -> CallSteps] /\ LoopsOK
    /\ spc \in {"idle", "deactivate", "done"} /\ cut \subseteq Conns

\* The type invariant with its parts named, before and after a step.
LEMMA StreamsTypesNamed == (WTypeOK <=> StreamsTypes) /\ (WTypeOK' <=> StreamsTypes')
  BY DEF StreamsTypes, WTypeOK, LoopsOK, CallSteps, LoopSteps, Holding

LEMMA CallMoves ==
    ASSUME WTypeOK, NEW t \in Writes, NEW next \in CallSteps, WriteGoto(t, next)
    PROVE  wpc' \in [Writes -> CallSteps]
  BY StreamsTypesNamed DEF WriteGoto, StreamsTypes

\* A loop that goes on keeps or does not have the receiver, or gets it or gives it back.
LEMMA LoopMoves ==
    ASSUME WTypeOK, NEW i \in Conns, NEW next \in LoopSteps, LoopGoto(i, next),
           next \in Holding <=> receiver' = i,
           \A j \in Conns \ {i} : receiver' = j <=> receiver = j
    PROVE  LoopsOK'
<1>1. lpc \in [Conns -> LoopSteps] /\ \A j \in Conns : lpc[j] \in Holding <=> receiver = j
  BY StreamsTypesNamed DEF LoopsOK, StreamsTypes
<1>2. lpc' \in [Conns -> LoopSteps]
  BY <1>1 DEF LoopGoto
<1>3. \A j \in Conns : lpc'[j] = IF j = i THEN next ELSE lpc[j]
  BY <1>1 DEF LoopGoto
<1> QED BY <1>1, <1>2, <1>3 DEF LoopsOK

LEMMA StreamsTyped == StreamsInv /\ [WNext]_wvars => WTypeOK'
<1> SUFFICES ASSUME StreamsInv, [WNext]_wvars PROVE WTypeOK'
  OBVIOUS
<1> USE WriterAssumption
<1>0. /\ registered \in 0..Streams /\ active \in [Conns -> BOOLEAN]
      /\ permits \in Nat /\ returned \in Nat /\ wrunning \in BOOLEAN
      /\ queue \in Seq(Writes) /\ pending \in Seq(Writes) /\ receiver \in 0..Streams
      /\ wpc \in [Writes -> CallSteps] /\ LoopsOK
      /\ spc \in {"idle", "deactivate", "done"} /\ cut \subseteq Conns
      /\ WTypeOK /\ Len(pending) \in Nat
  BY StreamsTypesNamed DEF StreamsInv, StreamsTypes
<1>1. CASE RegisterWriter
  <2>1. registered + 1 \in Conns /\ lpc[registered + 1] = "none" /\ receiver # registered + 1
    BY <1>0, <1>1 DEF RegisterWriter, Conns, StreamsInv, LoopsRegistered, LoopsOK, Holding
  <2>2. LoopsOK'
    BY <1>0, <1>1, <2>1, LoopMoves DEF RegisterWriter, LoopSteps, Holding
  <2> QED BY <1>0, <1>1, <2>1, <2>2, StreamsTypesNamed DEF StreamsTypes, RegisterWriter
<1>2. CASE StopWriter
  BY <1>0, <1>2, StreamsTypesNamed DEF StreamsTypes, StopWriter, wstreams, LoopsOK
<1>3. CASE Deactivate
  BY <1>0, <1>3, StreamsTypesNamed DEF StreamsTypes, Deactivate, LoopsOK
<1>4. ASSUME NEW t \in Writes, AskPermit(t) PROVE WTypeOK'
  <2>1. permits' \in Nat
    BY <1>0, <1>4 DEF AskPermit
  <2>2. wpc' \in [Writes -> CallSteps]
    BY <1>0, <1>4, CallMoves DEF AskPermit, CallSteps
  <2> QED BY <1>0, <1>4, <2>1, <2>2, StreamsTypesNamed DEF StreamsTypes, AskPermit, wstreams, LoopsOK
<1>5. ASSUME NEW t \in Writes, QueueWrite(t) PROVE WTypeOK'
  <2>1. wpc' \in [Writes -> CallSteps]
    BY <1>0, <1>5, CallMoves DEF QueueWrite, CallSteps
  <2> QED BY <1>0, <1>5, <2>1, StreamsTypesNamed DEF StreamsTypes, QueueWrite, wstreams, LoopsOK
<1>6. ASSUME NEW t \in Writes, FindStream(t) PROVE WTypeOK'
  <2>1. wpc' \in [Writes -> CallSteps]
    BY <1>0, <1>6, CallMoves DEF FindStream, CallSteps
  <2>2. permits' \in Nat
    BY <1>0, <1>6 DEF FindStream
  <2> QED BY <1>0, <1>6, <2>1, <2>2, StreamsTypesNamed DEF StreamsTypes, FindStream, wstreams, LoopsOK
<1>7. ASSUME NEW t \in Writes, WriteFrame(t) PROVE WTypeOK'
  <2>1. OwnStream(t) # {}
    BY <1>7 DEF WriteFrame, StreamsInv, OneWrites, WritingCalls
  <2>2. /\ registered' = registered /\ active' \in [Conns -> BOOLEAN] /\ cut' \subseteq Conns
    BY <1>0, <1>7, <2>1, TakenStreamFits, FrameKeeps DEF WriteFrame, StreamsInv
  <2>3. wpc' \in [Writes -> CallSteps]
    BY <1>0, <1>7, CallMoves DEF WriteFrame, CallSteps
  <2> QED BY <1>0, <1>7, <2>2, <2>3, StreamsTypesNamed DEF StreamsTypes, WriteFrame, LoopsOK
<1>8. ASSUME NEW i \in Conns, LockReceiver(i) PROVE WTypeOK'
  <2>1. LoopsOK' /\ receiver' \in 0..Streams
    BY <1>0, <1>8, LoopMoves DEF LockReceiver, LoopSteps, Holding, Conns
  <2> QED BY <1>0, <1>8, <2>1, StreamsTypesNamed DEF StreamsTypes, LockReceiver, wstreams
<1>9. ASSUME NEW i \in Conns, LoopTurn(i) PROVE WTypeOK'
  <2>1. receiver = i /\ i # 0
    BY <1>0, <1>9 DEF LoopTurn, LoopsOK, Holding, Conns
  <2>2. CASE wrunning
    <3>1. LoopsOK'
      BY <1>0, <1>9, <2>1, <2>2, LoopMoves DEF LoopTurn, LoopSteps, Holding
    <3> QED BY <1>0, <1>9, <2>2, <3>1, StreamsTypesNamed DEF StreamsTypes, LoopTurn, wstreams
  <2>3. CASE ~wrunning
    <3>1. 0 \notin Conns /\ receiver' = 0
      BY <1>9, <2>3 DEF LoopTurn, Conns
    <3>2. LoopsOK'
      BY <1>0, <1>9, <2>1, <2>3, <3>1, LoopMoves DEF LoopTurn, LoopSteps, Holding
    <3>3. pending' = <<>>
      BY <1>9, <2>3 DEF LoopTurn
    <3> QED BY <1>0, <1>9, <3>1, <3>2, <3>3, StreamsTypesNamed DEF StreamsTypes, LoopTurn, wstreams
  <2> QED BY <2>2, <2>3
<1>10. ASSUME NEW i \in Conns, ReceiveWrite(i) PROVE WTypeOK'
  <2>1. receiver = i /\ queue # <<>> /\ receiver' = receiver
    BY <1>0, <1>10 DEF ReceiveWrite, LoopsOK, Holding
  <2>2. Head(queue) \in Writes /\ Tail(queue) \in Seq(Writes)
    BY <1>0, <2>1
  <2>3. queue' \in Seq(Writes) /\ pending' \in Seq(Writes)
    <3>1. pending' = pending \/ pending' = Append(pending, Head(queue))
      BY <1>10 DEF ReceiveWrite
    <3>2. queue' = Tail(queue)
      BY <1>10 DEF ReceiveWrite
    <3>3. pending \in Seq(Writes)
      BY <1>0
    <3>4. pending' \in Seq(Writes)
      BY <2>2, <3>1, <3>3
    <3> QED BY <2>2, <3>2, <3>4
  <2>4. LoopGoto(i, "turn") \/ LoopGoto(i, "batch")
    BY <1>10 DEF ReceiveWrite
  <2>5. LoopsOK'
    BY <1>0, <2>1, <2>4, LoopMoves DEF LoopSteps, Holding
  <2> QED BY <1>0, <1>10, <2>3, <2>5, StreamsTypesNamed DEF StreamsTypes, ReceiveWrite, wstreams
<1>11. ASSUME NEW i \in Conns, LoopSleep(i) PROVE WTypeOK'
  <2>1. receiver = i /\ receiver' = receiver
    BY <1>0, <1>11 DEF LoopSleep, LoopsOK, Holding
  <2>2. LoopsOK'
    BY <1>0, <1>11, <2>1, LoopMoves DEF LoopSleep, LoopSteps, Holding
  <2> QED BY <1>0, <1>11, <2>2, StreamsTypesNamed DEF StreamsTypes, LoopSleep, wstreams
<1>12. ASSUME NEW i \in Conns, FindAddress(i) PROVE WTypeOK'
  <2>1. receiver = i /\ receiver' = receiver
    BY <1>0, <1>12 DEF FindAddress, LoopsOK, Holding
  <2>2. LoopGoto(i, "turn") \/ LoopGoto(i, "writing")
    BY <1>12 DEF FindAddress, BatchDone
  <2>3. LoopsOK'
    BY <1>0, <2>1, <2>2, LoopMoves DEF LoopSteps, Holding
  <2>4. permits' \in Nat /\ returned' \in Nat /\ pending' \in Seq(Writes)
    <3>1. \/ permits' = permits /\ returned' = returned /\ pending' = pending
          \/ /\ permits' = permits + Len(pending) /\ returned' = returned + Len(pending)
             /\ pending' = <<>>
      BY <1>12 DEF FindAddress, BatchDone
    <3>2. permits \in Nat /\ returned \in Nat /\ Len(pending) \in Nat
      BY <1>0
    <3>3. permits' \in Nat /\ returned' \in Nat
      BY <3>1, <3>2
    <3>4. pending' = pending \/ pending' = <<>>
      BY <3>1
    <3>5. pending \in Seq(Writes) /\ <<>> \in Seq(Writes)
      BY <1>0
    <3> QED BY <3>3, <3>4, <3>5
  <2> QED BY <1>0, <1>12, <2>3, <2>4, StreamsTypesNamed DEF StreamsTypes, FindAddress, wstreams
<1>13. ASSUME NEW i \in Conns, WriteBatch(i) PROVE WTypeOK'
  <2>1. AtAddress(AddressOf[i]) # {}
    BY <1>13 DEF WriteBatch, StreamsInv, OneWrites, WritingLoops
  <2>2. /\ registered' = registered /\ active' \in [Conns -> BOOLEAN] /\ cut' \subseteq Conns
    BY <1>0, <1>13, <2>1, TakenStreamFits, FrameKeeps DEF WriteBatch, StreamsInv
  <2>3. receiver = i /\ receiver' = receiver
    BY <1>0, <1>13 DEF WriteBatch, LoopsOK, Holding
  <2>4. LoopsOK'
    BY <1>0, <1>13, <2>3, LoopMoves DEF WriteBatch, BatchDone, LoopSteps, Holding
  <2> QED BY <1>0, <1>13, <2>2, <2>4, StreamsTypesNamed DEF StreamsTypes, WriteBatch, BatchDone
<1>14. CASE UNCHANGED wvars
  BY <1>0, <1>14 DEF wvars, wstreams, WTypeOK
<1> QED
  BY <1>1, <1>2, <1>3, <1>4, <1>5, <1>6, <1>7, <1>8, <1>9, <1>10, <1>11, <1>12, <1>13,
     <1>14 DEF WNext, WriteStep, WriterLoop

-----------------------------------------------------------------------------
(***************************************************************************)
(* Streams: who writes, and what is cut.                                   *)
(***************************************************************************)
\* A step that leaves the streams and the writers alone, but that one may have gone.
LEMMA StreamsKept ==
    ASSUME StreamsInv, UNCHANGED <<registered, active, cut>>,
           WritingCalls' \subseteq WritingCalls, WritingLoops' \subseteq WritingLoops
    PROVE  OneWrites' /\ CutIsDead'
<1>1. Alive' = Alive
  BY DEF Alive
<1>2. (\A t : OwnStream(t)' = OwnStream(t)) /\ (\A a : AtAddress(a)' = AtAddress(a))
  BY <1>1 DEF OwnStream, AtAddress
<1> QED BY <1>2 DEF StreamsInv, OneWrites, CutIsDead

\* Nobody writes while the lock is free.
LEMMA FreeIsIdle == LockFree => WritingCalls = {} /\ WritingLoops = {}
  BY DEF LockFree, WritingCalls, WritingLoops

\* The writer that is done was the only one.
LEMMA WriterGone ==
    ASSUME StreamsInv, CutIsDead', WritingCalls' = {}, WritingLoops' = {}
    PROVE  OneWrites' /\ CutIsDead'
  BY DEF OneWrites

LEMMA CallGone ==
    ASSUME StreamsTypes, NEW t \in Writes, NEW next, next # "writing", WriteGoto(t, next)
    PROVE  WritingCalls' = WritingCalls \ {t}
  BY DEF StreamsTypes, WriteGoto, WritingCalls

LEMMA CallWrites ==
    ASSUME StreamsTypes, NEW t \in Writes, WriteGoto(t, "writing")
    PROVE  WritingCalls' = WritingCalls \cup {t}
  BY DEF StreamsTypes, WriteGoto, WritingCalls

LEMMA LoopGone ==
    ASSUME StreamsTypes, NEW i \in Conns, NEW next, next # "writing", LoopGoto(i, next)
    PROVE  WritingLoops' = WritingLoops \ {i}
  BY DEF StreamsTypes, LoopsOK, LoopGoto, WritingLoops

LEMMA LoopWrites ==
    ASSUME StreamsTypes, NEW i \in Conns, LoopGoto(i, "writing")
    PROVE  WritingLoops' = WritingLoops \cup {i}
  BY DEF StreamsTypes, LoopsOK, LoopGoto, WritingLoops

\* A loop that is there, or that registration has just started, goes on.
LEMMA LoopRegistered ==
    ASSUME StreamsInv, NEW i \in Conns, NEW next, LoopGoto(i, next),
           registered' \in Nat, registered' >= registered, lpc[i] # "none" \/ i <= registered'
    PROVE  LoopsRegistered'
<1>1. registered \in Nat /\ i \in Nat /\ lpc \in [Conns -> LoopSteps]
  BY StreamsTypesNamed, WriterAssumption DEF StreamsInv, StreamsTypes, LoopsOK, Conns
<1>2. i <= registered'
  BY <1>1 DEF StreamsInv, LoopsRegistered
<1>3. ASSUME NEW j \in Conns, j > registered' PROVE lpc'[j] = "none"
  <2>1. j # i /\ j > registered
    BY <1>1, <1>2, <1>3, WriterAssumption DEF Conns
  <2> QED BY <1>1, <2>1 DEF StreamsInv, LoopsRegistered, LoopGoto
<1> QED BY <1>3 DEF LoopsRegistered

LEMMA StreamsStep ==
    StreamsInv /\ [WNext]_wvars =>
        /\ OneWrites' /\ CutIsDead' /\ LoopsRegistered'
        /\ \A i \in cut : frames'[i] = frames[i]
<1> DEFINE Goal == /\ OneWrites' /\ CutIsDead' /\ LoopsRegistered'
                   /\ \A i \in cut : frames'[i] = frames[i]
<1> SUFFICES ASSUME StreamsInv, [WNext]_wvars PROVE Goal
  OBVIOUS
<1>0. StreamsTypes /\ WTypeOK /\ CutIsDead /\ OneWrites /\ registered \in Nat
  BY StreamsTypesNamed, WriterAssumption DEF StreamsInv, StreamsTypes
\* A call, or what is neither a call nor a loop, leaves the loops alone.
<1>a. UNCHANGED <<registered, lpc>> => LoopsRegistered'
  BY DEF StreamsInv, LoopsRegistered
<1>1. CASE RegisterWriter
  <2>1. registered + 1 \in Conns
    BY <1>0, <1>1, WriterAssumption DEF RegisterWriter, Conns
  <2>2. WritingCalls' = {} /\ WritingLoops' = {}
    BY <1>0, <1>1, <2>1, FreeIsIdle, LoopGone DEF RegisterWriter, WritingCalls
  <2>3. CutIsDead'
    BY <1>0, <1>1, <2>1, WriterAssumption DEF RegisterWriter, CutIsDead, StreamsTypes, Conns
  <2>4. LoopsRegistered'
    BY <1>0, <1>1, <2>1, LoopRegistered DEF RegisterWriter
  <2> QED BY <1>1, <2>2, <2>3, <2>4, WriterGone DEF RegisterWriter
<1>2. CASE StopWriter
  BY <1>2, <1>a, StreamsKept DEF StopWriter, wstreams, WritingCalls, WritingLoops
<1>3. CASE Deactivate
  <2>1. WritingCalls' = {} /\ WritingLoops' = {}
    BY <1>3, FreeIsIdle DEF Deactivate, WritingCalls, WritingLoops
  <2>2. CutIsDead'
    BY <1>0, <1>3 DEF Deactivate, CutIsDead, StreamsTypes
  <2> QED BY <1>3, <1>a, <2>1, <2>2, WriterGone DEF Deactivate
<1>4. ASSUME NEW t \in Writes, AskPermit(t) PROVE Goal
  <2>1. WritingCalls' \subseteq WritingCalls
    BY <1>0, <1>4, CallGone DEF AskPermit
  <2> QED BY <1>4, <1>a, <2>1, StreamsKept DEF AskPermit, wstreams, WritingLoops
<1>5. ASSUME NEW t \in Writes, QueueWrite(t) PROVE Goal
  <2>1. WritingCalls' \subseteq WritingCalls
    BY <1>0, <1>5, CallGone DEF QueueWrite
  <2> QED BY <1>5, <1>a, <2>1, StreamsKept DEF QueueWrite, wstreams, WritingLoops
<1>6. ASSUME NEW t \in Writes, FindStream(t) PROVE Goal
  <2>1. UNCHANGED <<registered, active, cut, frames, lpc>> /\ LockFree
    BY <1>6 DEF FindStream, wstreams
  <2>2. CASE OwnStream(t) = {}
    <3>1. WritingCalls' \subseteq WritingCalls
      BY <1>0, <1>6, <2>2, CallGone DEF FindStream
    <3> QED BY <1>a, <2>1, <3>1, StreamsKept DEF WritingLoops
  <2>3. CASE OwnStream(t) # {}
    <3>1. WritingCalls' = {t} /\ WritingLoops' = {}
      BY <1>0, <1>6, <2>1, <2>3, CallWrites, FreeIsIdle DEF FindStream, WritingLoops
    <3>2. OwnStream(t)' # {}
      BY <2>1, <2>3 DEF OwnStream, Alive
    <3>3. OneWrites'
      BY <3>1, <3>2 DEF OneWrites
    <3> QED BY <1>0, <1>a, <2>1, <3>3 DEF CutIsDead
  <2> QED BY <2>2, <2>3
<1>7. ASSUME NEW t \in Writes, WriteFrame(t) PROVE Goal
  <2>1. WritingCalls = {t} /\ WritingLoops = {} /\ OwnStream(t) # {}
    BY <1>0, <1>7 DEF WriteFrame, OneWrites, WritingCalls
  <2>2. WriteGoto(t, "written") \/ WriteGoto(t, "failed")
    BY <1>7 DEF WriteFrame
  <2>3. WritingCalls' = {} /\ WritingLoops' = {}
    BY <1>0, <1>7, <2>1, <2>2, CallGone DEF WriteFrame, WritingLoops
  <2>4. CutIsDead' /\ (\A j \in cut : frames'[j] = frames[j]) /\ registered' = registered
    BY <1>0, <1>7, <2>1, TakenStreamFits, FrameKeeps DEF WriteFrame
  <2> QED BY <1>7, <1>a, <2>3, <2>4, WriterGone DEF WriteFrame
<1>8. ASSUME NEW i \in Conns, NEW next \in LoopSteps \ {"writing"}, LoopGoto(i, next),
             lpc[i] # "none", UNCHANGED <<wstreams, wpc>>
      PROVE  Goal
  <2>1. WritingLoops' \subseteq WritingLoops
    BY <1>0, <1>8, LoopGone
  <2>2. LoopsRegistered'
    BY <1>0, <1>8, LoopRegistered DEF wstreams
  <2> QED BY <1>8, <2>1, <2>2, StreamsKept DEF wstreams, WritingCalls
<1>9. ASSUME NEW i \in Conns, LockReceiver(i) \/ LoopTurn(i) \/ ReceiveWrite(i) \/ LoopSleep(i)
      PROVE  Goal
  <2>1. lpc[i] # "none" /\ UNCHANGED <<wstreams, wpc>>
    BY <1>9 DEF LockReceiver, LoopTurn, ReceiveWrite, LoopSleep
  <2>2. \E next \in LoopSteps \ {"writing"} : LoopGoto(i, next)
    BY <1>9 DEF LockReceiver, LoopTurn, ReceiveWrite, LoopSleep, LoopSteps
  <2> QED BY <1>8, <2>1, <2>2
<1>10. ASSUME NEW i \in Conns, FindAddress(i) PROVE Goal
  <2>1. UNCHANGED <<registered, active, cut, frames, wpc>> /\ LockFree /\ lpc[i] # "none"
    BY <1>10 DEF FindAddress, wstreams
  <2>2. CASE AtAddress(AddressOf[i]) = {}
    BY <1>8, <1>10, <2>2 DEF FindAddress, BatchDone, LoopSteps
  <2>3. CASE AtAddress(AddressOf[i]) # {}
    <3>0. LoopGoto(i, "writing")
      BY <1>10, <2>3 DEF FindAddress
    <3>1. WritingLoops' = {i} /\ WritingCalls' = {}
      BY <1>0, <2>1, <3>0, LoopWrites, FreeIsIdle DEF WritingCalls
    <3>2. AtAddress(AddressOf[i])' # {}
      BY <2>1, <2>3 DEF AtAddress, Alive
    <3>3. OneWrites'
      BY <3>1, <3>2 DEF OneWrites
    <3>4. LoopsRegistered'
      BY <1>0, <2>1, <3>0, LoopRegistered
    <3> QED BY <1>0, <2>1, <3>3, <3>4 DEF CutIsDead
  <2> QED BY <2>2, <2>3
<1>11. ASSUME NEW i \in Conns, WriteBatch(i) PROVE Goal
  <2>1. WritingLoops = {i} /\ WritingCalls = {} /\ AtAddress(AddressOf[i]) # {}
    BY <1>0, <1>11 DEF WriteBatch, OneWrites, WritingLoops
  <2>2. LoopGoto(i, "turn") /\ wpc' = wpc /\ lpc[i] # "none"
    BY <1>11 DEF WriteBatch, BatchDone
  <2>3. WritingCalls' = {} /\ WritingLoops' = {}
    BY <1>0, <2>1, <2>2, LoopGone DEF WritingCalls
  <2>4. CutIsDead' /\ (\A j \in cut : frames'[j] = frames[j]) /\ registered' = registered
    BY <1>0, <1>11, <2>1, TakenStreamFits, FrameKeeps DEF WriteBatch
  <2>5. LoopsRegistered'
    BY <1>0, <2>2, <2>4, LoopRegistered
  <2> QED BY <2>3, <2>4, <2>5, WriterGone
<1>12. CASE UNCHANGED wvars
  BY <1>12, <1>a, StreamsKept DEF wvars, wstreams, WritingCalls, WritingLoops
<1> QED
  BY <1>1, <1>2, <1>3, <1>4, <1>5, <1>6, <1>7, <1>9, <1>10, <1>11, <1>12
  DEF WNext, WriteStep, WriterLoop

-----------------------------------------------------------------------------
(***************************************************************************)
(* Permits.                                                                *)
(***************************************************************************)
LEMMA AskingCounted ==
    ASSUME StreamsTypes
    PROVE  IsFiniteSet(Asking) /\ Cardinality(Asking) \in Nat
<1>1. IsFiniteSet(Asking)
  BY WriterAssumption, FS_Subset DEF Asking
<1> QED BY <1>1, FS_CardinalityType

\* A call that gets a permit, one that gives it back, and one that keeps what it has.
LEMMA AskingMoves ==
    ASSUME StreamsTypes, NEW t \in Writes, NEW next, WriteGoto(t, next)
    PROVE  Asking' = IF next \in {"send", "immediate", "writing"}
                     THEN Asking \cup {t} ELSE Asking \ {t}
  BY DEF StreamsTypes, WriteGoto, Asking

LEMMA PermitTaken ==
    ASSUME StreamsTypes, PermitsComeBack, NEW t \in Writes, t \notin Asking,
           Asking' = Asking \cup {t}, permits' = permits - 1, returned' = returned
    PROVE  PermitsComeBack'
<1>1. Cardinality(Asking') = Cardinality(Asking) + 1
  BY AskingCounted, FS_AddElement
<1> QED BY <1>1, AskingCounted DEF PermitsComeBack, StreamsTypes

LEMMA PermitReturned ==
    ASSUME StreamsTypes, PermitsComeBack, NEW t \in Writes, t \in Asking,
           Asking' = Asking \ {t}, permits' = permits + 1, returned' = returned
    PROVE  PermitsComeBack'
<1>1. Cardinality(Asking') = Cardinality(Asking) - 1
  BY AskingCounted, FS_RemoveElement
<1> QED BY <1>1, AskingCounted DEF PermitsComeBack, StreamsTypes

LEMMA PermitsStep == StreamsInv /\ PermitsComeBack /\ [WNext]_wvars => PermitsComeBack'
<1> SUFFICES ASSUME StreamsInv, PermitsComeBack, [WNext]_wvars PROVE PermitsComeBack'
  OBVIOUS
<1>0. StreamsTypes /\ permits \in Nat /\ returned \in Nat /\ Len(pending) \in Nat
  BY StreamsTypesNamed DEF StreamsInv, StreamsTypes
<1>1. CASE UNCHANGED <<wpc, permits, returned>>
  BY <1>1 DEF PermitsComeBack, Asking
<1>2. ASSUME NEW t \in Writes, AskPermit(t) PROVE PermitsComeBack'
  <2>1. t \notin Asking /\ returned' = returned
    BY <1>2 DEF AskPermit, Asking
  <2>2. CASE permits = 0
    <3>1. Asking' = Asking
      BY <1>0, <1>2, <2>1, <2>2, AskingMoves DEF AskPermit
    <3> QED BY <1>2, <2>1, <2>2, <3>1 DEF AskPermit, PermitsComeBack
  <2>3. CASE permits # 0
    <3>1. Asking' = Asking \cup {t} /\ permits' = permits - 1
      BY <1>0, <1>2, <2>3, AskingMoves DEF AskPermit
    <3> QED BY <1>0, <2>1, <3>1, PermitTaken
  <2> QED BY <2>2, <2>3
<1>3. ASSUME NEW t \in Writes, QueueWrite(t) PROVE PermitsComeBack'
  <2>1. t \in Asking /\ permits' = permits + 1 /\ returned' = returned
    BY <1>3 DEF QueueWrite, Asking
  <2>2. Asking' = Asking \ {t}
    BY <1>0, <1>3, AskingMoves DEF QueueWrite
  <2> QED BY <1>0, <2>1, <2>2, PermitReturned
<1>4. ASSUME NEW t \in Writes, FindStream(t) PROVE PermitsComeBack'
  <2>1. t \in Asking /\ returned' = returned
    BY <1>4 DEF FindStream, Asking
  <2>2. CASE OwnStream(t) = {}
    <3>1. Asking' = Asking \ {t} /\ permits' = permits + 1
      BY <1>0, <1>4, <2>2, AskingMoves DEF FindStream
    <3> QED BY <1>0, <2>1, <3>1, PermitReturned
  <2>3. CASE OwnStream(t) # {}
    <3>1. Asking' = Asking /\ permits' = permits
      <4>1. WriteGoto(t, "writing") /\ permits' = permits
        BY <1>4, <2>3 DEF FindStream
      <4>2. Asking' = Asking \cup {t}
        BY <1>0, <4>1, AskingMoves
      <4> QED BY <2>1, <4>1, <4>2
    <3> QED BY <2>1, <3>1 DEF PermitsComeBack
  <2> QED BY <2>2, <2>3
<1>5. ASSUME NEW t \in Writes, WriteFrame(t) PROVE PermitsComeBack'
  <2>1. t \in Asking /\ permits' = permits + 1 /\ returned' = returned
    BY <1>5 DEF WriteFrame, Asking
  <2>2. Asking' = Asking \ {t}
    BY <1>0, <1>5, AskingMoves DEF WriteFrame
  <2> QED BY <1>0, <2>1, <2>2, PermitReturned
<1>6. ASSUME wpc' = wpc, permits' = permits + Len(pending), returned' = returned + Len(pending)
      PROVE  PermitsComeBack'
  <2>1. Asking' = Asking
    BY <1>6 DEF Asking
  <2> QED BY <1>0, <1>6, <2>1, AskingCounted, WriterAssumption DEF PermitsComeBack
<1>7. ASSUME NEW i \in Conns, FindAddress(i) \/ WriteBatch(i) PROVE PermitsComeBack'
  BY <1>1, <1>6, <1>7 DEF FindAddress, WriteBatch, BatchDone
<1> QED
  BY <1>1, <1>2, <1>3, <1>4, <1>5, <1>7
  DEF WNext, WriteStep, WriterLoop, RegisterWriter, StopWriter, Deactivate, ReceiveWrite,
      LockReceiver, LoopTurn, LoopSleep, wvars

-----------------------------------------------------------------------------
LEMMA StreamsInvariant == WSpec => []StreamsInv
<1>1. StreamsInv /\ [WNext]_wvars => StreamsInv'
  BY StreamsTyped, StreamsStep DEF StreamsInv
<1> QED BY StreamsStart, <1>1, PTL DEF WSpec

\* Every variable of the writer has its type, for any streams, calls and addresses.
THEOREM WTypeCorrect == WSpec => []WTypeOK
<1>1. StreamsInv => WTypeOK
  BY DEF StreamsInv
<1> QED BY StreamsInvariant, <1>1, PTL

\* write_immediate and process_batch: nothing follows a frame that may have been cut short.
THEOREM NothingFollowsACut == WSpec => NothingAfterCut
<1>1. StreamsInv /\ [WNext]_wvars => [\A i \in cut : frames'[i] = frames[i]]_wvars
  BY StreamsStep
<1> QED BY StreamsInvariant, <1>1, PTL DEF WSpec, NothingAfterCut

\* write: no call that is refused, dropped or fails keeps its permit.
THEOREM PermitsAllComeBack == WSpec => []PermitsComeBack
<1>1. WInit => PermitsComeBack
  <2>1. ASSUME WInit PROVE PermitsComeBack
    <3>1. Asking = {}
      BY <2>1 DEF WInit, Asking
    <3> QED BY <2>1, <3>1, FS_EmptySet, WriterAssumption DEF WInit, PermitsComeBack
  <2> QED BY <2>1
<1> QED BY StreamsInvariant, <1>1, PermitsStep, PTL DEF WSpec

-----------------------------------------------------------------------------

(***************************************************************************)
(* The batch reader: frames are delivered in the order of the stream.      *)
(***************************************************************************)
Reading == {"header", "body", "send"}

\* The reader, what is on the wire, and what has been delivered.
ReaderTyped ==
    /\ sent \in 0 .. Frames * FramePieces /\ taken \in 0 .. sent /\ start \in 0 .. taken
    /\ need \in 0 .. FramePieces
    /\ rpc \in {"turn", "closing", "ended"} \cup Reading
    /\ closed \in BOOLEAN /\ rrunning \in BOOLEAN /\ listening \in BOOLEAN /\ astray \in BOOLEAN
    /\ delivered \in Seq(0 .. Frames) /\ inChannel \in 0 .. EventCap

\* The tenth error in a row has ended the task.
ErrorsCounted ==
    /\ errors \in 0 .. MaxErrors
    /\ rpc \in {"turn"} \cup Reading => errors < MaxErrors

TimeoutKept == timeout \in BaseTimeout .. MaxTimeout

\* What has been delivered lies before what is being read.
Behind ==
    \A i \in DOMAIN delivered :
        /\ FramePieces * delivered[i] <= taken
        /\ rpc \in Reading => FramePieces * delivered[i] <= start

\* A later delivery is of a later frame.
LaterIsGreater ==
    \A i, j \in DOMAIN delivered : i < j /\ delivered[j] # 0 => delivered[i] < delivered[j]

\* As long as no read gave up in the middle, each begins where a frame begins, has taken
\* what it no longer waits for, and every frame before it has been delivered.
OnTrack ==
    ~astray =>
        /\ rpc = "turn" => taken = FramePieces * Len(delivered)
        /\ rpc \in Reading => start = FramePieces * Len(delivered)
        /\ rpc = "header" => need <= HeaderPieces /\ taken = start + HeaderPieces - need
        /\ rpc = "body" => taken = start + FramePieces - need /\ need <= 1
        /\ rpc = "send" => taken = start + FramePieces
        /\ \A i \in DOMAIN delivered : delivered[i] = i

ReaderInv == ReaderTyped /\ ErrorsCounted /\ TimeoutKept /\ Behind /\ LaterIsGreater /\ OnTrack

\* The pieces of a frame.
LEMMA Three == FramePieces = 3 /\ HeaderPieces = 2
  BY DEF FramePieces, HeaderPieces

\* The timeout that adapts stays between the one at the start and the highest.
LEMMA TimeoutOnlyRises ==
    ASSUME TimeoutKept, NEW time \in Nat
    PROVE  Raised(time) \in BaseTimeout .. MaxTimeout
  BY ReaderAssumption DEF TimeoutKept, Raised, MinTarget, MaxTimeout

LEMMA ReaderStart == RInit => ReaderInv
<1> SUFFICES ASSUME RInit PROVE ReaderInv
  OBVIOUS
<1> USE ReaderAssumption, Three
<1>1. delivered \in Seq(0 .. Frames) /\ Len(delivered) = 0 /\ DOMAIN delivered = {}
  BY DEF RInit
<1>2. ReaderTyped
  <2>1. sent \in 0 .. Frames * FramePieces /\ taken \in 0 .. sent /\ start \in 0 .. taken
        /\ need \in 0 .. FramePieces
    BY DEF RInit
  <2>2. rpc \in {"turn", "closing", "ended"} \cup Reading
        /\ closed \in BOOLEAN /\ rrunning \in BOOLEAN /\ listening \in BOOLEAN /\ astray \in BOOLEAN
    BY DEF RInit
  <2>3. inChannel \in 0 .. EventCap
    BY DEF RInit
  <2> QED BY <1>1, <2>1, <2>2, <2>3 DEF ReaderTyped
<1>3. ErrorsCounted /\ TimeoutKept
  BY DEF RInit, ErrorsCounted, TimeoutKept, MinTarget, MaxTimeout
<1>4. Behind /\ LaterIsGreater
  BY <1>1 DEF Behind, LaterIsGreater
<1>5. OnTrack
  BY <1>1 DEF RInit, OnTrack, Reading
<1> QED BY <1>2, <1>3, <1>4, <1>5 DEF ReaderInv

\* What an error that counts leaves, in a read that has not been delivered.
LEMMA ErrorKeeps ==
    ASSUME ReaderInv, rpc \in Reading, NEW ends \in BOOLEAN, CountError(ends),
           astray' \in BOOLEAN, astray => astray',
           astray' \/ taken = start \/ ends
    PROVE  ReaderInv'
<1> USE ReaderAssumption, Three
<1>0. ReaderTyped /\ ErrorsCounted /\ TimeoutKept /\ Behind /\ LaterIsGreater /\ OnTrack
  BY DEF ReaderInv
<1>1. /\ UNCHANGED <<sent, closed, rrunning, listening, inChannel, taken, start, need, timeout, delivered>>
      /\ errors' = errors + 1 /\ rpc' \in {"turn", "closing"}
      /\ ends \/ errors + 1 >= MaxErrors => rpc' = "closing"
  BY DEF CountError, wire
<1>2. ReaderTyped'
  BY <1>0, <1>1 DEF ReaderTyped
<1>3. ErrorsCounted' /\ TimeoutKept'
  BY <1>0, <1>1 DEF ErrorsCounted, TimeoutKept, Reading
<1>4. Behind' /\ LaterIsGreater'
  BY <1>0, <1>1 DEF Behind, LaterIsGreater, Reading
<1>5. OnTrack'
  BY <1>0, <1>1 DEF OnTrack, Reading
<1> QED BY <1>2, <1>3, <1>4, <1>5 DEF ReaderInv

LEMMA ReaderKeeps == ReaderInv /\ [RNext]_rvars => ReaderInv'
<1> SUFFICES ASSUME ReaderInv, [RNext]_rvars PROVE ReaderInv'
  OBVIOUS
<1> USE ReaderAssumption, Three
<1>0. ReaderTyped /\ ErrorsCounted /\ TimeoutKept /\ Behind /\ LaterIsGreater /\ OnTrack
  BY DEF ReaderInv
<1>t. Len(delivered) \in Nat /\ DOMAIN delivered = 1 .. Len(delivered)
      /\ \A i \in DOMAIN delivered : delivered[i] \in 0 .. Frames
  BY <1>0 DEF ReaderTyped
<1>1. CASE PeerSends
  <2>1. sent' = sent + 1 /\ sent < Frames * FramePieces
        /\ UNCHANGED <<closed, rrunning, listening, inChannel, taken, start, need, rpc, errors, timeout, delivered, astray>>
    BY <1>1 DEF PeerSends
  <2>2. ReaderTyped'
    BY <1>0, <2>1 DEF ReaderTyped
  <2> QED BY <1>0, <2>1, <2>2
          DEF ReaderInv, ErrorsCounted, TimeoutKept, Behind, LaterIsGreater, OnTrack
<1>2. CASE PeerCloses \/ StopReader \/ HandlerEnds \/ OtherReaders \/ TakeEvent
  <2>1. closed' \in BOOLEAN /\ rrunning' \in BOOLEAN /\ listening' \in BOOLEAN
        /\ UNCHANGED <<sent, taken, start, need, rpc, errors, timeout, delivered, astray>>
    BY <1>0, <1>2 DEF PeerCloses, StopReader, HandlerEnds, OtherReaders, TakeEvent, wire, ReaderTyped
  <2>3. inChannel \in 0 .. EventCap
    BY <1>0 DEF ReaderTyped
  <2>4. inChannel' \in 0 .. EventCap
    <3>1. CASE PeerCloses \/ StopReader
      BY <2>3, <3>1 DEF PeerCloses, StopReader
    <3>2. CASE HandlerEnds
      BY <3>2 DEF HandlerEnds
    <3>3. CASE OtherReaders
      BY <2>3, <3>3 DEF OtherReaders
    <3>4. CASE TakeEvent
      BY <2>3, <3>4 DEF TakeEvent
    <3> QED BY <1>2, <3>1, <3>2, <3>3, <3>4
  <2>2. ReaderTyped'
    BY <1>0, <2>1, <2>4 DEF ReaderTyped
  <2> QED BY <1>0, <2>1, <2>2
          DEF ReaderInv, ErrorsCounted, TimeoutKept, Behind, LaterIsGreater, OnTrack
<1>3. CASE ReaderTurn
  <2>1. /\ rpc = "turn" /\ UNCHANGED <<sent, closed, rrunning, listening, inChannel, taken, errors, timeout, delivered, astray>>
        /\ \/ rpc' = "header" /\ start' = taken /\ need' = HeaderPieces
           \/ rpc' = "closing" /\ UNCHANGED <<start, need>>
    BY <1>3 DEF ReaderTurn, wire
  <2>2. ReaderTyped'
    BY <1>0, <2>1 DEF ReaderTyped, Reading
  <2>3. ErrorsCounted' /\ TimeoutKept' /\ LaterIsGreater'
    BY <1>0, <2>1 DEF ErrorsCounted, TimeoutKept, LaterIsGreater, Reading
  <2>4. Behind'
    BY <1>0, <2>1 DEF Behind, Reading
  <2>5. OnTrack'
    BY <1>0, <1>t, <2>1 DEF OnTrack, Reading, ReaderTyped
  <2> QED BY <2>2, <2>3, <2>4, <2>5 DEF ReaderInv
<1>4. CASE TakePiece
  <2>1. /\ rpc \in {"header", "body"} /\ need > 0 /\ taken < sent /\ taken' = taken + 1 /\ need' = need - 1
        /\ UNCHANGED <<sent, closed, rrunning, listening, inChannel, start, rpc, errors, timeout, delivered, astray>>
    BY <1>4 DEF TakePiece, wire
  <2>2. ReaderTyped'
    BY <1>0, <2>1 DEF ReaderTyped, Reading
  <2>3. ErrorsCounted' /\ TimeoutKept' /\ LaterIsGreater'
    BY <1>0, <2>1 DEF ErrorsCounted, TimeoutKept, LaterIsGreater, Reading
  <2>4. Behind'
    BY <1>0, <1>t, <2>1 DEF Behind, Reading, ReaderTyped
  <2>5. OnTrack'
    BY <1>0, <1>t, <2>1 DEF OnTrack, Reading, ReaderTyped
  <2> QED BY <2>2, <2>3, <2>4, <2>5 DEF ReaderInv
<1>5. CASE TakeHeader
  <2>1. /\ rpc = "header" /\ need = 0
        /\ UNCHANGED <<sent, closed, rrunning, listening, inChannel, taken, start, errors, timeout, delivered, astray>>
        /\ \/ Aligned /\ need' = 1 /\ rpc' = "body"
           \/ ~Aligned /\ need' \in 1 .. FramePieces /\ rpc' = "body"
           \/ rpc' = "closing" /\ need' = need
    BY <1>5 DEF TakeHeader, wire
  <2>2. ReaderTyped'
    BY <1>0, <2>1 DEF ReaderTyped, Reading
  <2>3. ErrorsCounted' /\ TimeoutKept' /\ LaterIsGreater' /\ Behind'
    BY <1>0, <2>1 DEF ErrorsCounted, TimeoutKept, LaterIsGreater, Behind, Reading
  <2>4. ~astray => Aligned
    BY <1>0, <1>t, <2>1 DEF OnTrack, Reading, Aligned
  <2>5. OnTrack'
    BY <1>0, <1>t, <2>1, <2>4 DEF OnTrack, Reading, ReaderTyped
  <2> QED BY <2>2, <2>3, <2>5 DEF ReaderInv
<1>6. CASE MalformedHeader
  <2>1. rpc = "header" /\ ~Aligned /\ CountError(FALSE) /\ astray' = astray
    BY <1>6 DEF MalformedHeader
  <2>2. ~astray => Aligned
    BY <1>0, <1>t, <2>1 DEF OnTrack, Reading, Aligned
  <2>3. astray \in BOOLEAN
    BY <1>0 DEF ReaderTyped
  <2> QED BY <2>1, <2>2, <2>3, ErrorKeeps DEF Reading
<1>7. CASE ReadTimesOut
  <2>1. rpc \in {"header", "body"} /\ CountError(FALSE) /\ astray' = (astray \/ taken > start)
    BY <1>7 DEF ReadTimesOut
  <2>2. astray' \in BOOLEAN /\ (astray => astray')
    BY <1>0, <2>1, Zenon DEF ReaderTyped
  <2>3. astray' \/ taken = start
    <3>1. taken > start => astray'
      BY <2>1, Zenon
    <3>2. taken > start \/ taken = start
      BY <1>0 DEF ReaderTyped
    <3> QED BY <3>1, <3>2
  <2> QED BY <2>1, <2>2, <2>3, ErrorKeeps DEF Reading
<1>8. CASE EndOfStream
  <2>1. rpc \in {"header", "body"} /\ CountError(TRUE) /\ astray' = astray
    BY <1>8 DEF EndOfStream
  <2>2. astray \in BOOLEAN
    BY <1>0 DEF ReaderTyped
  <2> QED BY <2>1, <2>2, ErrorKeeps DEF Reading
<1>9. CASE TakeBody
  <2>1. /\ rpc = "body" /\ need = 0 /\ errors' = 0 /\ rpc' = "send"
        /\ UNCHANGED <<sent, closed, rrunning, listening, inChannel, taken, start, need, delivered, astray>>
    BY <1>9 DEF TakeBody, wire
  <2>2. TimeoutKept'
    <3>1. timeout' = timeout \/ \E time \in ReadTimes : timeout' = Raised(time)
      BY <1>9 DEF TakeBody
    <3>2. \A time \in ReadTimes : Raised(time) \in BaseTimeout .. MaxTimeout
      BY <1>0, TimeoutOnlyRises
    <3> QED BY <1>0, <3>1, <3>2 DEF TimeoutKept
  <2>3. ReaderTyped'
    BY <1>0, <2>1 DEF ReaderTyped, Reading
  <2>4. ErrorsCounted' /\ LaterIsGreater' /\ Behind'
    BY <1>0, <2>1 DEF ErrorsCounted, LaterIsGreater, Behind, Reading
  <2>5. OnTrack'
    BY <1>0, <1>t, <2>1 DEF OnTrack, Reading, ReaderTyped
  <2> QED BY <2>2, <2>3, <2>4, <2>5 DEF ReaderInv
<1>10. CASE SendEvent
  <2> DEFINE frame == IF Whole THEN taken \div FramePieces ELSE 0
  <2>1. /\ rpc = "send"
        /\ UNCHANGED <<sent, closed, rrunning, listening, taken, start, need, errors, timeout, astray>>
        /\ inChannel' \in 0 .. EventCap
        /\ \/ delivered' = Append(delivered, frame) /\ rpc' = "turn"
           \/ delivered' = delivered /\ rpc' = "closing"
    BY <1>0, <1>10 DEF SendEvent, Sends, SendEnds, ReaderTyped, wire
  <2>2. frame \in 0 .. Frames /\ FramePieces * frame <= taken
        /\ (frame # 0 => FramePieces * frame = start + FramePieces)
    BY <1>0 DEF Whole, Aligned, ReaderTyped
  <2>3. ~astray => frame = Len(delivered) + 1 /\ taken = FramePieces * frame
    BY <1>0, <1>t, <2>1 DEF OnTrack, Reading, Whole, Aligned
  <2> HIDE DEF frame
  <2>4. ErrorsCounted' /\ TimeoutKept'
    BY <1>0, <2>1 DEF ErrorsCounted, TimeoutKept, Reading
  <2>5. CASE delivered' = delivered /\ rpc' = "closing"
    <3>1. ReaderTyped'
      BY <1>0, <2>1, <2>5 DEF ReaderTyped
    <3> QED BY <1>0, <2>1, <2>4, <2>5, <3>1 DEF ReaderInv, Behind, LaterIsGreater, OnTrack, Reading
  <2>6. CASE delivered' = Append(delivered, frame) /\ rpc' = "turn"
    <3>1. /\ delivered' \in Seq(0 .. Frames) /\ Len(delivered') = Len(delivered) + 1
          /\ DOMAIN delivered' = 1 .. Len(delivered) + 1 /\ delivered'[Len(delivered) + 1] = frame
          /\ \A i \in 1 .. Len(delivered) : delivered'[i] = delivered[i]
      BY <1>0, <2>2, <2>6 DEF ReaderTyped
    <3>2. ReaderTyped'
      BY <1>0, <2>1, <2>6, <3>1 DEF ReaderTyped
    <3>3. Behind'
      <4> SUFFICES ASSUME NEW i \in DOMAIN delivered' PROVE FramePieces * delivered'[i] <= taken
        BY <2>1, <2>6 DEF Behind, Reading
      <4>1. CASE i = Len(delivered) + 1
        BY <2>2, <3>1, <4>1
      <4>2. CASE i \in DOMAIN delivered
        BY <1>0, <1>t, <3>1, <4>2 DEF Behind
      <4> QED BY <1>t, <3>1, <4>1, <4>2
    <3>4. LaterIsGreater'
      <4> SUFFICES ASSUME NEW i \in DOMAIN delivered', NEW j \in DOMAIN delivered',
                          i < j, delivered'[j] # 0
                   PROVE  delivered'[i] < delivered'[j]
        BY DEF LaterIsGreater
      <4>1. i \in DOMAIN delivered /\ delivered'[i] = delivered[i]
        BY <1>t, <3>1
      <4>2. CASE j = Len(delivered) + 1
        <5>1. FramePieces * delivered[i] <= start
          BY <1>0, <2>1, <4>1 DEF Behind, Reading
        <5>2. delivered'[j] = frame /\ FramePieces * frame = start + FramePieces
          BY <2>2, <3>1, <4>2
        <5>3. delivered[i] \in Nat /\ frame \in Nat /\ start \in Nat
          BY <1>0, <1>t, <2>2, <4>1 DEF ReaderTyped
        <5> QED BY <4>1, <5>1, <5>2, <5>3
      <4>3. CASE j \in DOMAIN delivered
        BY <1>0, <1>t, <3>1, <4>1, <4>3 DEF LaterIsGreater
      <4> QED BY <1>t, <3>1, <4>2, <4>3
    <3>5. OnTrack'
      <4> SUFFICES ASSUME ~astray
                   PROVE  taken = FramePieces * Len(delivered')
                          /\ \A i \in DOMAIN delivered' : delivered'[i] = i
        BY <2>1, <2>6 DEF OnTrack, Reading
      <4>1. ASSUME NEW i \in DOMAIN delivered' PROVE delivered'[i] = i
        <5>1. CASE i = Len(delivered) + 1
          BY <2>3, <3>1, <5>1
        <5>2. CASE i \in DOMAIN delivered
          BY <1>0, <1>t, <3>1, <5>2 DEF OnTrack
        <5> QED BY <1>t, <3>1, <5>1, <5>2
      <4> QED BY <2>3, <3>1, <4>1
    <3> QED BY <2>4, <3>2, <3>3, <3>4, <3>5 DEF ReaderInv
  <2> QED BY <2>1, <2>5, <2>6
<1>11. CASE EndReader
  <2>1. /\ rpc' = "ended"
        /\ UNCHANGED <<sent, closed, rrunning, listening, taken, start, need, errors, timeout, delivered, astray>>
        /\ inChannel' \in 0 .. EventCap
    BY <1>0, <1>11 DEF EndReader, Sends, SendEnds, ReaderTyped, wire
  <2>2. ReaderTyped'
    BY <1>0, <2>1 DEF ReaderTyped
  <2> QED BY <1>0, <2>1, <2>2
          DEF ReaderInv, ErrorsCounted, TimeoutKept, Behind, LaterIsGreater, OnTrack, Reading
<1>12. CASE UNCHANGED rvars
  BY <1>0, <1>12 DEF rvars, ReaderInv, ReaderTyped, ErrorsCounted, TimeoutKept, Behind,
     LaterIsGreater, OnTrack
<1> QED BY <1>1, <1>2, <1>3, <1>4, <1>5, <1>6, <1>7, <1>8, <1>9, <1>10, <1>11, <1>12
        DEF RNext, ReaderStep

LEMMA ReaderInvariant == RFairSpec => []ReaderInv
  BY ReaderStart, ReaderKeeps, PTL DEF RFairSpec

LEMMA ReaderIsTyped == ReaderInv => RTypeOK
  BY DEF ReaderInv, ReaderTyped, ErrorsCounted, TimeoutKept, RTypeOK, Reading

\* The reader and its line, for any number of frames, errors and timeouts.
THEOREM ReaderTypeCorrect == RFairSpec => []RTypeOK
  BY ReaderIsTyped, ReaderInvariant, PTL

\* read_frame: the frames that are delivered are those of the stream, each once and in its
\* order, up to the first read that gives up in the middle of one; what is delivered later
\* is never an earlier frame again.
THEOREM FramesComeInOrder == RFairSpec => []FramesInOrder
<1>1. ReaderInv => FramesInOrder
  BY DEF ReaderInv, OnTrack, LaterIsGreater, FramesInOrder
<1> QED BY <1>1, ReaderInvariant, PTL

-----------------------------------------------------------------------------

(***************************************************************************)
(* The phantom packets: what one end makes the other can open.             *)
(***************************************************************************)
Agreed == Derived("client", "server")

Bodies == {"PONG", "acknowledged", "not found", "unknown packet type"}
PacketSet == [session : {Agreed}, number : Nat, type : PacketTypes,
              body : {"request"} \cup (Nat \X Bodies), size : Nat]
Frame == {Hello(kind) : kind \in {"ClientHello", "ServerHello", "other"}}
         \cup {Sealed(p) : p \in PacketSet}

\* Every packet on a line is in the set, and no two are the same.
CarriesOf(s, S) == \A i \in DOMAIN s : s[i].kind = "packet" => s[i].packet[1] \in S
NoneTwice(s) ==
    \A i, j \in DOMAIN s :
        s[i].kind = "packet" /\ s[j].kind = "packet" /\ s[i].packet[1] = s[j].packet[1] => i = j

\* The two ends, and the line that leads to each.
PacketsTyped ==
    /\ line \in [Ends -> Seq(Frame)] /\ left \subseteq Ends /\ deaf \subseteq Ends
    /\ hpc \in [Ends -> {"greet", "await", "answer", "derive", "done", "failed"}]
    /\ counter \in [Ends -> Nat] /\ counter["client"] <= MaxPackets
    /\ made \in [Ends -> SUBSET PacketSet] /\ opened \in [Ends -> SUBSET PacketSet]
    /\ making \in [Ends -> SUBSET PacketSet]
    /\ refused \in [Ends -> {{}}]

\* Who has ended the handshake has the session, which is the same at both ends.
SameSession == session = [e \in Ends |-> IF hpc[e] = "done" THEN {Agreed} ELSE {}]

\* A packet is being written, on its way or opened, and in one place at a time.
OnePlace(e) ==
    /\ making[Other(e)] \subseteq made[Other(e)] \ opened[e]
    /\ opened[e] \subseteq made[Other(e)]
    /\ CarriesOf(line[e], made[Other(e)] \ (making[Other(e)] \cup opened[e]))
    /\ NoneTwice(line[e])

\* An end has used every number below its counter, once.
NumbersUsedOnce(e) ==
    /\ \A p, q \in made[e] : p.number = q.number => p = q
    /\ \A p \in made[e] : p.number < counter[e]
    /\ \A n \in 0 .. counter[e] - 1 : \E p \in made[e] : p.number = n

\* The server has answered the requests it has opened, but for those that are to do.
AnswersOnce ==
    /\ todo \subseteq opened["server"]
    /\ \A a \in made["server"] :
        /\ a.body \in Nat \X Bodies
        /\ \E p \in opened["server"] \ todo : p.number = a.body[1] /\ p.type = a.type
    /\ \A a, b \in made["server"] : a.body[1] = b.body[1] => a = b

PacketsInv ==
    /\ PacketsTyped /\ SameSession /\ AnswersOnce
    /\ \A e \in Ends : OnePlace(e) /\ NumbersUsedOnce(e)

\* Each end has the other.
LEMMA TwoEnds ==
    /\ Other("client") = "server" /\ Other("server") = "client"
    /\ \A e \in Ends : Other(e) \in Ends /\ Other(e) # e
  BY DEF Other, Ends

\* What is on a line is a hello or a sealed packet.
LEMMA FramesAre ==
    /\ \A kind \in {"ClientHello", "ServerHello", "other"} :
           Hello(kind) \in Frame /\ Hello(kind).kind = kind
    /\ \A p \in PacketSet :
           Sealed(p) \in Frame /\ Sealed(p).kind = "packet" /\ Sealed(p).packet[1] = p
  BY DEF Frame, Hello, Sealed

\* A frame that is read leaves the line.
LEMMA LineRead ==
    ASSUME NEW s \in Seq(Frame), s # <<>>, NEW S
    PROVE  /\ Tail(s) \in Seq(Frame) /\ Head(s) \in Frame
           /\ CarriesOf(s, S) /\ NoneTwice(s) =>
                /\ NoneTwice(Tail(s))
                /\ Head(s).kind = "packet" =>
                       /\ Head(s).packet[1] \in S
                       /\ CarriesOf(Tail(s), S \ {Head(s).packet[1]})
                /\ CarriesOf(Tail(s), S)
<1>1. /\ Tail(s) \in Seq(Frame) /\ Head(s) \in Frame /\ Head(s) = s[1] /\ Len(s) \in Nat \ {0}
      /\ DOMAIN s = 1 .. Len(s) /\ DOMAIN Tail(s) = 1 .. Len(s) - 1
      /\ \A i \in 1 .. Len(s) - 1 : Tail(s)[i] = s[i + 1] /\ i + 1 \in 1 .. Len(s)
  OBVIOUS
<1>2. ASSUME CarriesOf(s, S), NoneTwice(s)
      PROVE  NoneTwice(Tail(s)) /\ CarriesOf(Tail(s), S)
  BY <1>1, <1>2 DEF NoneTwice, CarriesOf
<1>3. ASSUME CarriesOf(s, S), NoneTwice(s), s[1].kind = "packet"
      PROVE  s[1].packet[1] \in S /\ CarriesOf(Tail(s), S \ {s[1].packet[1]})
  <2>1. s[1].packet[1] \in S
    BY <1>1, <1>3 DEF CarriesOf
  <2>2. ASSUME NEW i \in DOMAIN Tail(s), Tail(s)[i].kind = "packet"
        PROVE  Tail(s)[i].packet[1] \in S \ {s[1].packet[1]}
    <3>1. i + 1 \in DOMAIN s /\ s[i + 1].kind = "packet" /\ Tail(s)[i] = s[i + 1] /\ i + 1 # 1
          /\ 1 \in DOMAIN s
      BY <1>1, <2>2
    <3> QED BY <1>3, <3>1 DEF CarriesOf, NoneTwice
  <2> QED BY <2>1, <2>2 DEF CarriesOf
<1> QED BY <1>1, <1>2, <1>3

\* A frame that is written comes at its end.
LEMMA LinePut ==
    ASSUME NEW s \in Seq(Frame), NEW f \in Frame, NEW S,
           CarriesOf(s, S), NoneTwice(s),
           f.kind = "packet" => f.packet[1] \in S /\ CarriesOf(s, S \ {f.packet[1]})
    PROVE  /\ Append(s, f) \in Seq(Frame)
           /\ CarriesOf(Append(s, f), S) /\ NoneTwice(Append(s, f))
<1> DEFINE t == Append(s, f)
<1>1. /\ t \in Seq(Frame) /\ Len(s) \in Nat /\ DOMAIN s = 1 .. Len(s)
      /\ DOMAIN t = 1 .. Len(s) + 1 /\ t[Len(s) + 1] = f /\ \A i \in 1 .. Len(s) : t[i] = s[i]
  OBVIOUS
<1> HIDE DEF t
<1>2. ASSUME NEW i \in DOMAIN t PROVE i = Len(s) + 1 \/ (i \in DOMAIN s /\ t[i] = s[i])
  BY <1>1
<1>3. CarriesOf(t, S)
  BY <1>1, <1>2 DEF CarriesOf
<1>4. NoneTwice(t)
  <2> SUFFICES ASSUME NEW i \in DOMAIN t, NEW j \in DOMAIN t, t[i].kind = "packet",
                      t[j].kind = "packet", t[i].packet[1] = t[j].packet[1], i # j
               PROVE  FALSE
    BY DEF NoneTwice
  <2>1. CASE i = Len(s) + 1
    BY <1>1, <1>2, <2>1 DEF CarriesOf
  <2>2. CASE j = Len(s) + 1
    BY <1>1, <1>2, <2>2 DEF CarriesOf
  <2>3. CASE i # Len(s) + 1 /\ j # Len(s) + 1
    BY <1>1, <1>2, <2>3 DEF NoneTwice
  <2> QED BY <2>1, <2>2, <2>3
<1> QED BY <1>1, <1>3, <1>4 DEF t

\* A line that carries packets of a set carries those of a larger one.
LEMMA CarriesMore ==
    ASSUME NEW s, NEW S, NEW T, S \subseteq T, CarriesOf(s, S)
    PROVE  CarriesOf(s, T)
  BY DEF CarriesOf

LEMMA PacketsStart == PhInit => PacketsInv
<1> SUFFICES ASSUME PhInit PROVE PacketsInv
  OBVIOUS
<1> USE PhantomAssumption, TwoEnds
<1>1. /\ \A e \in Ends : line[e] = <<>> /\ session[e] = {} /\ counter[e] = 0 /\ making[e] = {}
             /\ made[e] = {} /\ opened[e] = {} /\ refused[e] = {} /\ hpc[e] \in {"greet", "await"}
      /\ todo = {} /\ deaf = {} /\ left = {} /\ "client" \in Ends /\ "server" \in Ends
  BY DEF PhInit, Ends
<1>2. line \in [Ends -> Seq(Frame)]
  <2>1. <<>> \in Seq(Frame)
    OBVIOUS
  <2> QED BY <2>1, Zenon DEF PhInit
<1>3. counter \in [Ends -> Nat] /\ counter["client"] <= MaxPackets
  BY <1>1 DEF PhInit
<1>4. /\ made \in [Ends -> SUBSET PacketSet] /\ opened \in [Ends -> SUBSET PacketSet]
      /\ making \in [Ends -> SUBSET PacketSet] /\ refused \in [Ends -> {{}}]
      /\ hpc \in [Ends -> {"greet", "await", "answer", "derive", "done", "failed"}]
  BY DEF PhInit
<1>5. PacketsTyped
  BY <1>1, <1>2, <1>3, <1>4 DEF PacketsTyped
<1>6. SameSession
  <2>1. \A e \in Ends : hpc[e] # "done"
    BY <1>1
  <2> QED BY <2>1 DEF SameSession, PhInit
<1>7. AnswersOnce
  BY <1>1 DEF AnswersOnce
<1>8. ASSUME NEW e \in Ends PROVE OnePlace(e) /\ NumbersUsedOnce(e)
  <2>1. DOMAIN line[e] = {}
    BY <1>1
  <2>2. Other(e) \in Ends
    OBVIOUS
  <2> QED BY <1>1, <2>1, <2>2 DEF OnePlace, NumbersUsedOnce, CarriesOf, NoneTwice
<1> QED BY <1>5, <1>6, <1>7, <1>8 DEF PacketsInv

(***************************************************************************)
(* The handshake: the lines lose their first frame or get one that is no   *)
(* packet.                                                                 *)
(***************************************************************************)
LEMMA HelloMoves ==
    ASSUME PacketsInv, NEW e \in Ends, UNCHANGED packvars,
           \/ line' = line
           \/ line[e] # <<>> /\ Next1(e)
           \/ \E kind \in {"ClientHello", "ServerHello", "other"} : Puts(e, Hello(kind))
    PROVE  line' \in [Ends -> Seq(Frame)] /\ \A d \in Ends : OnePlace(d)'
<1>1. /\ line \in [Ends -> Seq(Frame)] /\ \A d \in Ends : OnePlace(d)
      /\ making' = making /\ opened' = opened /\ made' = made
  BY DEF PacketsInv, PacketsTyped, packvars
<1>2. /\ line'[e] \in Seq(Frame) /\ NoneTwice(line'[e])
      /\ CarriesOf(line'[e], made[Other(e)] \ (making[Other(e)] \cup opened[e]))
      /\ line' = [line EXCEPT ![e] = line'[e]]
  <2> DEFINE S == made[Other(e)] \ (making[Other(e)] \cup opened[e])
  <2>0. line[e] \in Seq(Frame) /\ CarriesOf(line[e], S) /\ NoneTwice(line[e])
    BY <1>1 DEF OnePlace
  <2> HIDE DEF S
  <2>1. CASE line' = line
    <3>1. line' = [line EXCEPT ![e] = line'[e]]
      BY <1>1, <2>1
    <3> QED BY <2>0, <2>1, <3>1 DEF S
  <2>2. CASE line[e] # <<>> /\ Next1(e)
    <3>1. Tail(line[e]) \in Seq(Frame) /\ CarriesOf(Tail(line[e]), S) /\ NoneTwice(Tail(line[e]))
      BY <2>0, <2>2, LineRead
    <3>2. line' = [line EXCEPT ![e] = Tail(line[e])]
      BY <2>2 DEF Next1
    <3>3. line'[e] = Tail(line[e])
      BY <1>1, <3>2
    <3> QED BY <3>1, <3>2, <3>3 DEF S
  <2>3. ASSUME NEW kind \in {"ClientHello", "ServerHello", "other"}, Puts(e, Hello(kind))
        PROVE  /\ line'[e] \in Seq(Frame) /\ NoneTwice(line'[e]) /\ CarriesOf(line'[e], S)
               /\ line' = [line EXCEPT ![e] = line'[e]]
    <3>1. Hello(kind) \in Frame /\ Hello(kind).kind # "packet"
      BY FramesAre
    <3>2. /\ Append(line[e], Hello(kind)) \in Seq(Frame) /\ CarriesOf(Append(line[e], Hello(kind)), S)
          /\ NoneTwice(Append(line[e], Hello(kind)))
      BY <2>0, <3>1, LinePut
    <3>3. line' = [line EXCEPT ![e] = Append(line[e], Hello(kind))]
      BY <2>3 DEF Puts
    <3>4. line'[e] = Append(line[e], Hello(kind))
      BY <1>1, <3>3
    <3> QED BY <3>2, <3>3, <3>4
  <2> QED BY <2>1, <2>2, <2>3 DEF S
<1>3. line' \in [Ends -> Seq(Frame)] /\ \A d \in Ends : d # e => line'[d] = line[d]
  BY <1>1, <1>2
<1>4. ASSUME NEW d \in Ends PROVE OnePlace(d)'
  <2>1. CASE d = e
    BY <1>1, <1>2, <2>1 DEF OnePlace
  <2>2. CASE d # e
    BY <1>1, <1>3, <2>2 DEF OnePlace
  <2> QED BY <2>1, <2>2
<1> QED BY <1>3, <1>4

\* A step of the handshake.
LEMMA HandshakeKeeps ==
    ASSUME PacketsInv, NEW e \in Ends, HandStep(e)
    PROVE  PacketsInv'
<1> USE TwoEnds
<1>0. PacketsTyped /\ SameSession /\ AnswersOnce /\ \A d \in Ends : OnePlace(d) /\ NumbersUsedOnce(d)
  BY DEF PacketsInv
<1>1. UNCHANGED packvars
  BY DEF HandStep, SendHello, ReadClientHello, SendServerHello, DeriveSession, ReadServerHello, HelloReadFails
<1>2. \E d \in Ends :
         \/ line' = line
         \/ line[d] # <<>> /\ Next1(d)
         \/ \E kind \in {"ClientHello", "ServerHello", "other"} : Puts(d, Hello(kind))
  <2>1. "client" \in Ends /\ "server" \in Ends
    BY DEF Ends
  <2> QED BY <2>1 DEF HandStep, SendHello, ReadClientHello, SendServerHello, DeriveSession,
                      ReadServerHello, HelloReadFails
<1>3. line' \in [Ends -> Seq(Frame)] /\ \A d \in Ends : OnePlace(d)'
  BY <1>1, <1>2, HelloMoves
<1>4. /\ hpc[e] # "done"
      /\ \/ HelloGoto(e, "done") /\ session' = [session EXCEPT ![e] = {Agreed}]
         \/ \E next \in {"await", "answer", "derive", "failed"} :
               HelloGoto(e, next) /\ session' = session
      /\ left' \subseteq Ends
  <2>1. left \subseteq Ends
    BY <1>0 DEF PacketsTyped
  <2> QED BY <2>1 DEF HandStep, SendHello, ReadClientHello, SendServerHello, DeriveSession,
               ReadServerHello, HelloReadFails, Fails, Establish, Agreed, HelloGoto
<1>5. hpc' \in [Ends -> {"greet", "await", "answer", "derive", "done", "failed"}]
  BY <1>0, <1>4 DEF PacketsTyped, HelloGoto
<1>6. SameSession'
  <2>1. CASE HelloGoto(e, "done") /\ session' = [session EXCEPT ![e] = {Agreed}]
    BY <1>0, <2>1 DEF PacketsTyped, SameSession, HelloGoto
  <2>2. ASSUME NEW next \in {"await", "answer", "derive", "failed"}, HelloGoto(e, next), session' = session
        PROVE  SameSession'
    BY <1>0, <1>4, <2>2 DEF PacketsTyped, SameSession, HelloGoto
  <2> QED BY <1>4, <2>1, <2>2
<1>7. PacketsTyped'
  BY <1>0, <1>1, <1>3, <1>4, <1>5 DEF PacketsTyped, packvars
<1>8. AnswersOnce' /\ \A d \in Ends : NumbersUsedOnce(d)'
  BY <1>0, <1>1 DEF packvars, AnswersOnce, NumbersUsedOnce
<1> QED BY <1>3, <1>6, <1>7, <1>8 DEF PacketsInv

(***************************************************************************)
(* The packets.                                                            *)
(***************************************************************************)
\* What has the next number is new, and is only being written.
LEMMA NumberedKeeps ==
    ASSUME PacketsInv, NEW e \in Ends, NEW type \in PacketTypes,
           NEW body \in {"request"} \cup (Nat \X Bodies), NEW size \in Nat,
           Numbered(e, Agreed, type, body, size),
           e = "client" => counter[e] < MaxPackets,
           UNCHANGED <<line, handvars, deaf, opened, refused>>
    PROVE  /\ PacketsTyped' /\ SameSession'
           /\ \A d \in Ends : OnePlace(d)' /\ NumbersUsedOnce(d)'
<1> USE PhantomAssumption, TwoEnds
<1> DEFINE p == Packet(Agreed, counter[e], type, body, size)
<1>0. PacketsTyped /\ SameSession /\ \A d \in Ends : OnePlace(d) /\ NumbersUsedOnce(d)
  BY DEF PacketsInv
<1>1. /\ counter' = [counter EXCEPT ![e] = counter[e] + 1]
      /\ making' = [making EXCEPT ![e] = making[e] \cup {p}]
      /\ made' = [made EXCEPT ![e] = made[e] \cup {p}]
  BY DEF Numbered
<1>2. counter[e] \in Nat
  BY <1>0 DEF PacketsTyped
<1>3. p \in PacketSet /\ p.number = counter[e]
  BY <1>2 DEF Packet, PacketSet
<1> HIDE DEF p
<1>4. p \notin made[e]
  BY <1>0, <1>2, <1>3 DEF NumbersUsedOnce
<1>5. /\ made[e] \subseteq PacketSet /\ making[e] \subseteq PacketSet
      /\ made'[e] = made[e] \cup {p} /\ making'[e] = making[e] \cup {p} /\ counter'[e] = counter[e] + 1
      /\ \A d \in Ends : d # e => made'[d] = made[d] /\ making'[d] = making[d] /\ counter'[d] = counter[d]
      /\ UNCHANGED <<line, left, hpc, session, deaf, opened, refused>>
  BY <1>0, <1>1 DEF PacketsTyped, handvars
<1>6. PacketsTyped'
  <2>1. made' \in [Ends -> SUBSET PacketSet] /\ making' \in [Ends -> SUBSET PacketSet]
    BY <1>0, <1>1, <1>3, <1>5 DEF PacketsTyped
  <2>2. counter' \in [Ends -> Nat]
    BY <1>0, <1>1, <1>2 DEF PacketsTyped
  <2>3. counter'["client"] <= MaxPackets
    <3>1. "client" \in Ends
      BY DEF Ends
    <3>2. CASE e = "client"
      BY <1>2, <1>5, <3>2
    <3>3. CASE e # "client"
      BY <1>0, <1>5, <3>1, <3>3 DEF PacketsTyped
    <3> QED BY <3>2, <3>3
  <2> QED BY <1>0, <1>5, <2>1, <2>2, <2>3 DEF PacketsTyped
<1>7. SameSession'
  BY <1>0, <1>5 DEF SameSession
<1>8. ASSUME NEW d \in Ends PROVE OnePlace(d)'
  <2>1. OnePlace(d)
    BY <1>0
  <2>2. CASE Other(d) # e
    <3>1. made'[Other(d)] = made[Other(d)] /\ making'[Other(d)] = making[Other(d)]
      BY <1>5, <2>2
    <3> QED BY <1>5, <2>1, <3>1 DEF OnePlace
  <2>3. CASE Other(d) = e
    <3>1. p \notin opened[d]
      BY <1>4, <2>1, <2>3 DEF OnePlace
    <3>2. made'[e] \ (making'[e] \cup opened[d]) = made[e] \ (making[e] \cup opened[d])
      BY <1>4, <1>5
    <3>3. making[e] \subseteq made[e] \ opened[d] /\ opened[d] \subseteq made[e]
      BY <2>1, <2>3 DEF OnePlace
    <3>4. making'[e] \subseteq made'[e] \ opened[d] /\ opened[d] \subseteq made'[e]
      BY <1>5, <3>1, <3>3
    <3> QED BY <1>5, <2>1, <2>3, <3>2, <3>4 DEF OnePlace
  <2> QED BY <2>2, <2>3
<1>9. ASSUME NEW d \in Ends PROVE NumbersUsedOnce(d)'
  <2>1. NumbersUsedOnce(d)
    BY <1>0
  <2>2. CASE d # e
    <3>1. made'[d] = made[d] /\ counter'[d] = counter[d]
      BY <1>5, <2>2
    <3> QED BY <2>1, <3>1 DEF NumbersUsedOnce
  <2>3. CASE d = e
    <3>0. \A q \in made[e] : q.number \in Nat
      BY <1>5 DEF PacketSet
    <3>1. \A q \in made'[e] : q.number < counter'[e]
      BY <1>2, <1>3, <1>5, <2>1, <2>3, <3>0 DEF NumbersUsedOnce
    <3>2. ASSUME NEW q \in made'[e], NEW r \in made'[e], q.number = r.number PROVE q = r
      BY <1>2, <1>3, <1>5, <2>1, <2>3, <3>0, <3>2 DEF NumbersUsedOnce
    <3>3. ASSUME NEW n \in 0 .. counter'[e] - 1 PROVE \E q \in made'[e] : q.number = n
      <4>1. CASE n = counter[e]
        BY <1>3, <1>5, <4>1
      <4>2. CASE n # counter[e]
        <5>1. n \in 0 .. counter[e] - 1
          BY <1>2, <1>5, <4>2
        <5> QED BY <1>5, <2>1, <2>3, <5>1 DEF NumbersUsedOnce
      <4> QED BY <4>1, <4>2
    <3> QED BY <2>3, <3>1, <3>2, <3>3 DEF NumbersUsedOnce
  <2> QED BY <2>2, <2>3
<1> QED BY <1>6, <1>7, <1>8, <1>9

\* The client makes a request.
LEMMA RequestKeeps ==
    ASSUME PacketsInv, NEW type \in PacketTypes, NEW size \in PayloadSizes, MakeRequest(type, size)
    PROVE  PacketsInv'
<1> USE PhantomAssumption, TwoEnds
<1>1. "client" \in Ends /\ "server" \in Ends /\ "client" # "server"
  BY DEF Ends
<1>2. Numbered("client", Agreed, type, "request", size)
  BY <1>1 DEF MakeRequest, PacketsInv, SameSession
<1>3. UNCHANGED <<line, handvars, deaf, opened, refused, todo>> /\ counter["client"] < MaxPackets
      /\ size \in Nat
  BY DEF MakeRequest
<1>4. /\ PacketsTyped' /\ SameSession' /\ \A d \in Ends : OnePlace(d)' /\ NumbersUsedOnce(d)'
  BY <1>1, <1>2, <1>3, NumberedKeeps
<1>5. made'["server"] = made["server"]
  BY <1>1, <1>2 DEF Numbered, PacketsInv, PacketsTyped
<1>6. AnswersOnce'
  BY <1>3, <1>5 DEF AnswersOnce, PacketsInv
<1> QED BY <1>4, <1>6 DEF PacketsInv

\* The server makes the answer to one it has opened.
LEMMA AnswerKeeps ==
    ASSUME PacketsInv, NEW p \in todo, ServeRequest(p)
    PROVE  PacketsInv'
<1> USE PhantomAssumption, TwoEnds
<1>0. PacketsTyped /\ SameSession /\ AnswersOnce /\ OnePlace("server") /\ NumbersUsedOnce("client")
  BY DEF PacketsInv, Ends
<1>1. "client" \in Ends /\ "server" \in Ends /\ "client" # "server"
  BY DEF Ends
<1>2. p \in opened["server"] /\ opened["server"] \subseteq made["client"]
      /\ made["client"] \subseteq PacketSet /\ made["server"] \subseteq PacketSet
  BY <1>0, <1>1 DEF AnswersOnce, OnePlace, PacketsTyped
<1>3. p.number \in Nat /\ p.type \in PacketTypes
  BY <1>2 DEF PacketSet
<1>4. PICK body \in Answers(p) : Numbered("server", Agreed, p.type, <<p.number, body>>, 0)
  BY <1>0, <1>1 DEF ServeRequest, SameSession
<1>5. body \in Bodies
  BY <1>4 DEF Answers, Bodies
<1>6. UNCHANGED <<line, handvars, deaf, opened, refused>> /\ todo' = todo \ {p}
  BY DEF ServeRequest
<1>7. <<p.number, body>> \in Nat \X Bodies
  BY <1>3, <1>5
<1>8. PacketsTyped' /\ SameSession' /\ \A d \in Ends : OnePlace(d)' /\ NumbersUsedOnce(d)'
  <2>1. <<p.number, body>> \in {"request"} \cup (Nat \X Bodies)
    BY <1>7
  <2> QED BY <1>1, <1>3, <1>4, <1>6, <2>1, NumberedKeeps
<1> DEFINE a == Packet(Agreed, counter["server"], p.type, <<p.number, body>>, 0)
<1>9. made'["server"] = made["server"] \cup {a}
  BY <1>0, <1>1, <1>4 DEF Numbered, PacketsTyped
<1>10. a.body = <<p.number, body>> /\ a.body[1] = p.number /\ a.type = p.type
  BY DEF Packet
<1> HIDE DEF a
<1>11. ASSUME NEW b \in made["server"] PROVE b.body[1] # p.number
  <2>1. PICK q \in opened["server"] \ todo : q.number = b.body[1]
    BY <1>0 DEF AnswersOnce
  <2>2. q \in made["client"] /\ p \in made["client"] /\ q # p
    BY <1>2, <2>1
  <2> QED BY <1>0, <2>1, <2>2 DEF NumbersUsedOnce
<1>12. AnswersOnce'
  <2>1. todo' \subseteq opened'["server"]
    BY <1>0, <1>6 DEF AnswersOnce
  <2>2. ASSUME NEW b \in made'["server"]
        PROVE  /\ b.body \in Nat \X Bodies
               /\ \E q \in opened'["server"] \ todo' : q.number = b.body[1] /\ q.type = b.type
    <3>1. CASE b = a
      <4>1. p \in opened'["server"] \ todo'
        BY <1>2, <1>6
      <4> QED BY <1>7, <1>10, <3>1, <4>1
    <3>2. CASE b \in made["server"]
      <4>1. PICK q \in opened["server"] \ todo : q.number = b.body[1] /\ q.type = b.type
        BY <1>0, <3>2 DEF AnswersOnce
      <4>2. q \in opened'["server"] \ todo'
        BY <1>6, <4>1
      <4> QED BY <1>0, <3>2, <4>1, <4>2 DEF AnswersOnce
    <3> QED BY <1>9, <3>1, <3>2
  <2>3. ASSUME NEW b \in made'["server"], NEW c \in made'["server"], b.body[1] = c.body[1]
        PROVE  b = c
    BY <1>0, <1>9, <1>10, <1>11, <2>3 DEF AnswersOnce
  <2> QED BY <2>1, <2>2, <2>3 DEF AnswersOnce
<1> QED BY <1>8, <1>12 DEF PacketsInv

\* What was made goes on the line.
LEMMA SendKeeps ==
    ASSUME PacketsInv, NEW e \in Ends, NEW p \in making[e], SendPacket(e, p)
    PROVE  PacketsInv'
<1> USE PhantomAssumption, TwoEnds
<1> DEFINE d == Other(e)
           S == made[e] \ (making[e] \cup opened[d])
           T == made[e] \ ((making[e] \ {p}) \cup opened[d])
<1>0. PacketsTyped /\ SameSession /\ AnswersOnce /\ \A f \in Ends : OnePlace(f) /\ NumbersUsedOnce(f)
  BY DEF PacketsInv
<1>1. d \in Ends /\ Other(d) = e /\ d # e
  BY DEF Other, Ends
<1>2. /\ making' = [making EXCEPT ![e] = making[e] \ {p}]
      /\ line' = line \/ Puts(d, Sealed(p))
      /\ UNCHANGED <<left, hpc, session, counter, todo, deaf, made, opened, refused>>
  BY DEF SendPacket, handvars
<1> HIDE DEF d
<1>3. OnePlace(d) /\ making[e] \subseteq made[e] \ opened[d] /\ opened[d] \subseteq made[e]
      /\ CarriesOf(line[d], S) /\ NoneTwice(line[d]) /\ line[d] \in Seq(Frame)
  BY <1>0, <1>1 DEF OnePlace, PacketsTyped
<1>4. p \in T /\ T \ {p} = S /\ S \subseteq T /\ p \in PacketSet
  BY <1>0, <1>3 DEF PacketsTyped
<1>5. making'[e] = making[e] \ {p} /\ \A f \in Ends : f # e => making'[f] = making[f]
  BY <1>0, <1>2 DEF PacketsTyped
<1> HIDE DEF S, T
<1>6. /\ line'[d] \in Seq(Frame) /\ NoneTwice(line'[d]) /\ CarriesOf(line'[d], T)
      /\ line' \in [Ends -> Seq(Frame)] /\ \A f \in Ends : f # d => line'[f] = line[f]
  <2>1. CASE line' = line
    BY <1>0, <1>3, <1>4, <2>1, CarriesMore DEF PacketsTyped
  <2>2. CASE Puts(d, Sealed(p))
    <3>1. Sealed(p) \in Frame /\ Sealed(p).packet[1] = p
      BY <1>4, FramesAre
    <3>2. CarriesOf(line[d], T) /\ CarriesOf(line[d], T \ {p})
      BY <1>3, <1>4, CarriesMore
    <3>3. /\ Append(line[d], Sealed(p)) \in Seq(Frame) /\ CarriesOf(Append(line[d], Sealed(p)), T)
          /\ NoneTwice(Append(line[d], Sealed(p)))
      BY <1>3, <1>4, <3>1, <3>2, LinePut
    <3>4. line' = [line EXCEPT ![d] = Append(line[d], Sealed(p))]
      BY <2>2 DEF Puts
    <3> QED BY <1>0, <1>1, <3>3, <3>4 DEF PacketsTyped
  <2> QED BY <1>2, <2>1, <2>2
<1>7. PacketsTyped'
  <2>1. making' \in [Ends -> SUBSET PacketSet]
    BY <1>0, <1>2 DEF PacketsTyped
  <2> QED BY <1>0, <1>2, <1>6, <2>1 DEF PacketsTyped
<1>8. SameSession' /\ AnswersOnce' /\ \A f \in Ends : NumbersUsedOnce(f)'
  BY <1>0, <1>2 DEF SameSession, AnswersOnce, NumbersUsedOnce
<1>9. ASSUME NEW f \in Ends PROVE OnePlace(f)'
  <2>1. CASE f = d
    <3>1. making'[e] \subseteq made[e] \ opened[d]
      BY <1>3, <1>5
    <3>2. CarriesOf(line'[d], made[e] \ (making'[e] \cup opened[d]))
      BY <1>5, <1>6 DEF T
    <3> QED BY <1>1, <1>2, <1>3, <1>6, <2>1, <3>1, <3>2 DEF OnePlace
  <2>2. CASE f # d
    <3>1. Other(f) # e /\ Other(f) \in Ends
      BY <2>2 DEF d, Other, Ends
    <3> QED BY <1>0, <1>2, <1>5, <1>6, <2>2, <3>1 DEF OnePlace
  <2> QED BY <2>1, <2>2
<1> QED BY <1>7, <1>8, <1>9 DEF PacketsInv

\* What is read opens: it is of the one session, and was not opened before.
LEMMA ReadKeeps ==
    ASSUME PacketsInv, NEW e \in Ends, ReadPacket(e)
    PROVE  PacketsInv'
<1> USE PhantomAssumption, TwoEnds
<1> DEFINE d == Other(e)
           S == made[d] \ (making[d] \cup opened[e])
           frame == Head(line[e])
           p == frame.packet[1]
<1>0. PacketsTyped /\ SameSession /\ AnswersOnce /\ \A f \in Ends : OnePlace(f) /\ NumbersUsedOnce(f)
  BY DEF PacketsInv
<1>1. /\ hpc[e] = "done" /\ line[e] # <<>> /\ line' = [line EXCEPT ![e] = Tail(line[e])]
      /\ UNCHANGED <<left, hpc, session, counter, making, made>>
  BY DEF ReadPacket, Next1, handvars
<1>2. line[e] \in Seq(Frame) /\ CarriesOf(line[e], S) /\ NoneTwice(line[e])
      /\ opened[e] \subseteq made[d] /\ making[d] \subseteq made[d] \ opened[e]
  BY <1>0 DEF OnePlace, PacketsTyped
<1>3. /\ Tail(line[e]) \in Seq(Frame) /\ NoneTwice(Tail(line[e])) /\ CarriesOf(Tail(line[e]), S)
      /\ frame.kind = "packet" => p \in S /\ CarriesOf(Tail(line[e]), S \ {p})
  <2> HIDE DEF S
  <2> QED BY <1>1, <1>2, LineRead
<1>4. session[e] = {Agreed} /\ \A q \in made[d] : q \in PacketSet /\ q.session = Agreed
  BY <1>0, <1>1 DEF SameSession, PacketsTyped, PacketSet
<1>5. \/ UNCHANGED <<deaf, opened, refused, todo>>
      \/ deaf' = deaf \cup {e} /\ UNCHANGED <<opened, refused, todo>>
      \/ /\ frame.kind = "packet" /\ UNCHANGED <<deaf, refused>>
         /\ opened' = [opened EXCEPT ![e] = opened[e] \cup {p}]
         /\ todo' = IF e = "server" THEN todo \cup {p} ELSE todo
  <2>1. CASE frame.kind # "packet"
    BY <2>1 DEF ReadPacket
  <2>2. CASE frame.kind = "packet"
    <3>1. p \in made[d] /\ p.session = Agreed /\ p.size \in Nat
      BY <1>3, <1>4, <2>2 DEF PacketSet
    <3>2. Opens(e, p)
      BY <1>4, <3>1 DEF Opens
    <3>3. p.size + Overhead > MaxFrameSize \/ p.size + Overhead <= MaxFrameSize
      BY <3>1 DEF Overhead, MaxFrameSize
    <3>4. ~(p.size + Overhead > MaxFrameSize /\ p.size + Overhead <= MaxFrameSize)
      BY <3>1 DEF Overhead, MaxFrameSize
    <3>5. CASE p.size + Overhead > MaxFrameSize
      <4>1. deaf' = deaf \cup {e} /\ UNCHANGED <<opened, refused, todo>>
        BY <2>2, <3>4, <3>5 DEF ReadPacket
      <4> QED BY <4>1
    <3>6. CASE p.size + Overhead <= MaxFrameSize
      <4>1. /\ opened' = [opened EXCEPT ![e] = opened[e] \cup {p}]
            /\ todo' = IF e = "server" THEN todo \cup {p} ELSE todo
            /\ UNCHANGED <<deaf, refused>>
        BY <2>2, <3>2, <3>4, <3>6 DEF ReadPacket
      <4> QED BY <2>2, <4>1
    <3> QED BY <3>3, <3>5, <3>6
  <2> QED BY <2>1, <2>2
<1> HIDE DEF p, frame
<1>6. /\ line'[e] = Tail(line[e]) /\ line' \in [Ends -> Seq(Frame)]
      /\ \A f \in Ends : f # e => line'[f] = line[f]
  BY <1>0, <1>1, <1>3 DEF PacketsTyped
<1>7. CASE UNCHANGED <<opened, refused, todo>> /\ deaf' \subseteq Ends
  <2>1. PacketsTyped'
    BY <1>0, <1>1, <1>6, <1>7 DEF PacketsTyped
  <2>2. SameSession' /\ AnswersOnce' /\ \A f \in Ends : NumbersUsedOnce(f)'
    BY <1>0, <1>1, <1>7 DEF SameSession, AnswersOnce, NumbersUsedOnce
  <2>3. ASSUME NEW f \in Ends PROVE OnePlace(f)'
    <3>1. CASE f = e
      BY <1>1, <1>2, <1>3, <1>6, <1>7, <3>1 DEF OnePlace
    <3>2. CASE f # e
      BY <1>0, <1>1, <1>6, <1>7, <3>2 DEF OnePlace
    <3> QED BY <3>1, <3>2
  <2> QED BY <2>1, <2>2, <2>3 DEF PacketsInv
<1>8. CASE /\ frame.kind = "packet" /\ UNCHANGED <<deaf, refused>>
           /\ opened' = [opened EXCEPT ![e] = opened[e] \cup {p}]
           /\ todo' = IF e = "server" THEN todo \cup {p} ELSE todo
  <2>1. p \in made[d] /\ p \notin making[d] /\ p \notin opened[e] /\ p \in PacketSet
        /\ CarriesOf(Tail(line[e]), S \ {p})
    BY <1>3, <1>4, <1>8
  <2>2. opened'[e] = opened[e] \cup {p} /\ \A f \in Ends : f # e => opened'[f] = opened[f]
    BY <1>0, <1>8 DEF PacketsTyped
  <2>3. PacketsTyped'
    <3>1. opened' \in [Ends -> SUBSET PacketSet]
      BY <1>0, <1>8, <2>1 DEF PacketsTyped
    <3> QED BY <1>0, <1>1, <1>6, <1>8, <3>1 DEF PacketsTyped
  <2>4. SameSession' /\ \A f \in Ends : NumbersUsedOnce(f)'
    BY <1>0, <1>1 DEF SameSession, NumbersUsedOnce
  <2>5. AnswersOnce'
    <3>1. todo' \subseteq opened'["server"]
      BY <1>0, <1>8, <2>2 DEF AnswersOnce, Ends
    <3>2. opened["server"] \ todo \subseteq opened'["server"] \ todo'
      BY <1>8, <2>1, <2>2 DEF Ends
    <3> QED BY <1>0, <1>1, <3>1, <3>2 DEF AnswersOnce
  <2>6. ASSUME NEW f \in Ends PROVE OnePlace(f)'
    <3>1. CASE f = e
      <4>1. opened'[e] \subseteq made[d] /\ making[d] \subseteq made[d] \ opened'[e]
        BY <1>2, <2>1, <2>2
      <4>2. made[d] \ (making[d] \cup opened'[e]) = S \ {p}
        BY <2>2
      <4> QED BY <1>1, <1>3, <1>6, <2>1, <3>1, <4>1, <4>2 DEF OnePlace
    <3>2. CASE f # e
      BY <1>0, <1>1, <1>6, <2>2, <3>2 DEF OnePlace
    <3> QED BY <3>1, <3>2
  <2> QED BY <2>3, <2>4, <2>5, <2>6 DEF PacketsInv
<1>9. deaf \subseteq Ends /\ deaf \cup {e} \subseteq Ends
  BY <1>0 DEF PacketsTyped
<1> QED BY <1>5, <1>7, <1>8, <1>9

\* What ends a connection touches no packet.
LEMMA QuietKeeps ==
    ASSUME PacketsInv, UNCHANGED <<line, hpc, session>>, UNCHANGED packvars, left' \subseteq Ends
    PROVE  PacketsInv'
<1>0. PacketsTyped /\ SameSession /\ AnswersOnce /\ \A f \in Ends : OnePlace(f) /\ NumbersUsedOnce(f)
  BY DEF PacketsInv
<1>1. UNCHANGED <<line, hpc, session, counter, making, todo, deaf, made, opened, refused>>
  BY DEF packvars
<1>2. PacketsTyped'
  BY <1>0, <1>1 DEF PacketsTyped
<1>3. SameSession' /\ AnswersOnce'
  BY <1>0, <1>1 DEF SameSession, AnswersOnce
<1>4. \A f \in Ends : OnePlace(f)'
  BY <1>0, <1>1 DEF OnePlace
<1>5. \A f \in Ends : NumbersUsedOnce(f)'
  BY <1>0, <1>1 DEF NumbersUsedOnce
<1> QED BY <1>2, <1>3, <1>4, <1>5 DEF PacketsInv

LEMMA PacketsStep == PacketsInv /\ [PhNext]_phvars => PacketsInv'
<1> SUFFICES ASSUME PacketsInv, [PhNext]_phvars PROVE PacketsInv'
  OBVIOUS
<1>0. PacketsTyped /\ SameSession /\ AnswersOnce /\ \A f \in Ends : OnePlace(f) /\ NumbersUsedOnce(f)
  BY DEF PacketsInv
<1>1. CASE SendJunk
  <2>1. "server" \in Ends /\ Puts("server", Hello("other")) /\ UNCHANGED packvars
        /\ UNCHANGED <<left, hpc, session>>
    BY <1>1 DEF SendJunk, Ends, handvars
  <2>2. line' \in [Ends -> Seq(Frame)] /\ \A d \in Ends : OnePlace(d)'
    BY <2>1, HelloMoves
  <2> QED BY <1>0, <2>1, <2>2
          DEF PacketsInv, PacketsTyped, SameSession, AnswersOnce, NumbersUsedOnce, packvars
<1>2. ASSUME NEW e \in Ends, EndLeaves(e) PROVE PacketsInv'
  <2>1. left' \subseteq Ends /\ UNCHANGED <<line, hpc, session>> /\ UNCHANGED packvars
    BY <1>0, <1>2 DEF EndLeaves, PacketsTyped
  <2> QED BY <2>1, QuietKeeps
<1>3. CASE UNCHANGED phvars
  <2>1. UNCHANGED <<line, left, hpc, session>> /\ UNCHANGED packvars /\ left \subseteq Ends
    BY <1>0, <1>3 DEF phvars, handvars, PacketsTyped
  <2> QED BY <2>1, QuietKeeps
<1> QED BY <1>1, <1>2, <1>3, HandshakeKeeps, RequestKeeps, AnswerKeeps, SendKeeps, ReadKeeps
        DEF PhNext, PacketStep

LEMMA PacketsInvariant == PhSpec => []PacketsInv
  BY PacketsStart, PacketsStep, PTL DEF PhSpec

\* decrypt and generate_operation_key: whatever the order in which packets are made, sent and
\* read, what either end makes the other opens, no two packets of an end share a number, and a
\* request gets one answer, for any number of packets.
THEOREM EveryPacketOpens == PhSpec => []PacketsOpen
<1>1. ASSUME PacketsInv PROVE PacketsOpen
  <2>1. \A e \in Ends : refused[e] = {}
    BY <1>1 DEF PacketsInv, PacketsTyped
  <2>2. "server" \in Ends
    BY DEF Ends
  <2> QED BY <1>1, <2>1, <2>2 DEF PacketsInv, PacketsOpen, OnePlace, NumbersUsedOnce, AnswersOnce
<1> QED BY <1>1, PacketsInvariant, PTL

\* The server makes no more packets than the client: each of its numbers is that of an
\* answer, and each answer has a request of its own.
LEMMA AnswersAreFew ==
    ASSUME PacketsInv
    PROVE  counter["server"] <= MaxPackets
<1>0. /\ PacketsTyped /\ AnswersOnce /\ OnePlace("server") /\ NumbersUsedOnce("client")
      /\ NumbersUsedOnce("server") /\ "client" \in Ends /\ "server" \in Ends
      /\ MaxPackets \in Nat
  BY PhantomAssumption DEF PacketsInv, Ends
<1> DEFINE n == counter["server"]
           A == 0 .. n - 1
           B == 0 .. MaxPackets - 1
           answer(i) == CHOOSE a \in made["server"] : a.number = i
           f == [i \in A |-> answer(i).body[1]]
<1>1. n \in Nat /\ counter["client"] \in Nat /\ counter["client"] <= MaxPackets
  BY <1>0 DEF PacketsTyped
<1>2. ASSUME NEW i \in A PROVE answer(i) \in made["server"] /\ answer(i).number = i
  <2>1. \E a \in made["server"] : a.number = i
    BY <1>0 DEF NumbersUsedOnce
  <2> QED BY <2>1, Zenon
<1>3. ASSUME NEW a \in made["server"] PROVE a.body[1] \in B
  <2>1. PICK p \in opened["server"] : p.number = a.body[1]
    BY <1>0 DEF AnswersOnce
  <2>2. p \in made["client"] /\ p \in PacketSet
    BY <1>0, TwoEnds DEF OnePlace, PacketsTyped
  <2>3. p.number \in Nat /\ p.number < counter["client"]
    BY <1>0, <2>2 DEF NumbersUsedOnce, PacketSet
  <2> QED BY <1>0, <1>1, <2>1, <2>3
<1> HIDE DEF answer
<1>4. f \in [A -> B]
  BY <1>2, <1>3
<1>5. \A i, j \in A : f[i] = f[j] => i = j
  <2>1. ASSUME NEW i \in A, NEW j \in A, f[i] = f[j] PROVE i = j
    <3>1. answer(i).body[1] = answer(j).body[1]
      BY <2>1
    <3>2. answer(i) = answer(j)
      BY <1>0, <1>2, <3>1 DEF AnswersOnce
    <3> QED BY <1>2, <3>2
  <2> QED BY <2>1
<1>6. /\ IsFiniteSet(A) /\ IsFiniteSet(B)
      /\ Cardinality(A) = n /\ Cardinality(B) = MaxPackets
  <2>1. 0 \in Int /\ n - 1 \in Int /\ MaxPackets - 1 \in Int
    BY <1>0, <1>1
  <2>2. IsFiniteSet(A) /\ Cardinality(A) = IF 0 > n - 1 THEN 0 ELSE n - 1 - 0 + 1
    BY <2>1, FS_Interval
  <2>3. IsFiniteSet(B) /\ Cardinality(B) = IF 0 > MaxPackets - 1 THEN 0 ELSE MaxPackets - 1 - 0 + 1
    BY <2>1, FS_Interval
  <2> QED BY <1>0, <1>1, <2>2, <2>3
<1> HIDE DEF n, A, B, f
<1>7. ~(Cardinality(B) < Cardinality(A))
  BY <1>4, <1>5, <1>6, FS_PigeonHole
<1> QED BY <1>0, <1>1, <1>6, <1>7 DEF n

LEMMA PacketsAreTyped == PacketsInv => PhTypeOK
<1> SUFFICES ASSUME PacketsInv PROVE PhTypeOK
  OBVIOUS
<1>1. /\ PacketsTyped /\ SameSession /\ AnswersOnce
      /\ \A e \in Ends : OnePlace(e) /\ NumbersUsedOnce(e)
  BY DEF PacketsInv
<1>2. counter \in [Ends -> 0 .. MaxPackets]
  <2>1. counter["server"] <= MaxPackets
    BY AnswersAreFew
  <2>2. MaxPackets \in Nat
    BY PhantomAssumption
  <2> QED BY <1>1, <2>1, <2>2 DEF PacketsTyped, Ends
<1>3. ASSUME NEW e \in Ends
      PROVE  /\ Cardinality(session[e]) = IF hpc[e] = "done" THEN 1 ELSE 0
             /\ making[e] \subseteq made[e]
             /\ \A p \in made[e] : p.number < counter[e] /\ p.type \in PacketTypes
  <2>1. session[e] = IF hpc[e] = "done" THEN {Agreed} ELSE {}
    BY <1>1 DEF SameSession
  <2>2. Cardinality({Agreed}) = 1 /\ Cardinality({}) = 0
    BY FS_Singleton, FS_EmptySet
  <2>3. making[e] \subseteq made[e]
    <3>1. Other(e) \in Ends /\ Other(Other(e)) = e
      BY DEF Other, Ends
    <3>2. OnePlace(Other(e))
      BY <1>1, <3>1
    <3> QED BY <3>1, <3>2 DEF OnePlace
  <2>4. \A p \in made[e] : p.number < counter[e] /\ p.type \in PacketTypes
    <3>1. made[e] \subseteq PacketSet /\ NumbersUsedOnce(e)
      BY <1>1 DEF PacketsTyped
    <3> QED BY <3>1 DEF NumbersUsedOnce, PacketSet
  <2> QED BY <2>1, <2>2, <2>3, <2>4
<1> QED BY <1>1, <1>2, <1>3 DEF PhTypeOK, PacketsTyped, AnswersOnce

\* The ends of a connection, and the packets between them, for any number of them.
THEOREM PacketsTypeCorrect == PhSpec => []PhTypeOK
  BY PacketsAreTyped, PacketsInvariant, PTL

-----------------------------------------------------------------------------

(***************************************************************************)
(* The adaptive batcher: the decisions are bounded, whatever the samples.  *)
(***************************************************************************)
\* A size that is clamped is between the limits.
LEMMA ClampedIsBetween ==
    ASSUME NEW x \in Int
    PROVE  /\ Clamped(x) \in MinBatch .. MaxBatch
           /\ Clamped(x) <= x \/ Clamped(x) = MinBatch
  BY BatcherAssumption DEF Clamped, Least, Most

\* Of the candidates about four workers, four is the cheapest.
LEMMA FourStay == CheapestWorkers(4) = 4
<1> DEFINE c == WorkerCandidates(4)
           Best(i) == /\ \A j \in 1 .. 3 : WorkerCost(c[i], 4) <= WorkerCost(c[j], 4)
                      /\ \A j \in 1 .. i - 1 : WorkerCost(c[i], 4) < WorkerCost(c[j], 4)
           best == CHOOSE i \in 1 .. 3 : Best(i)
<1>1. c[1] = 2 /\ c[2] = 4 /\ c[3] = 6
  BY DEF WorkerCandidates, Most, Least
<1>2. /\ WorkerCost(2, 4) = 10 * (1000 \div 2) + 500000 * 2
      /\ WorkerCost(4, 4) = 10 * (1000 \div 4)
      /\ WorkerCost(6, 4) = 10 * (1000 \div 6) + 500000 * 2
  BY DEF WorkerCost, Distance, Most, Least, Horizon
<1>3. WorkerCost(4, 4) < WorkerCost(2, 4) /\ WorkerCost(4, 4) < WorkerCost(6, 4)
      /\ WorkerCost(2, 4) \in Int /\ WorkerCost(4, 4) \in Int /\ WorkerCost(6, 4) \in Int
  BY <1>2
<1> HIDE DEF c
<1>4. \A i \in 1 .. 3 : i = 1 \/ i = 2 \/ i = 3
  OBVIOUS
<1>5. \A j \in 1 .. 2 - 1 : j = 1
  OBVIOUS
<1>6. Best(2)
  <2>1. \A j \in 1 .. 3 : WorkerCost(c[2], 4) <= WorkerCost(c[j], 4)
    BY <1>1, <1>3, <1>4
  <2>2. \A j \in 1 .. 2 - 1 : WorkerCost(c[2], 4) < WorkerCost(c[j], 4)
    BY <1>1, <1>3, <1>5
  <2> QED BY <2>1, <2>2
<1>7. \A i \in 1 .. 3 : Best(i) => i = 2
  <2>1. \A i \in 1 .. 3 : Best(i) => WorkerCost(c[i], 4) <= WorkerCost(c[2], 4)
    OBVIOUS
  <2> HIDE DEF Best
  <2> QED BY <1>1, <1>3, <1>4, <2>1
<1>8. best = 2
  <2> HIDE DEF Best
  <2>1. best \in 1 .. 3 /\ Best(best)
    <3>1. 2 \in 1 .. 3
      OBVIOUS
    <3> QED BY <1>6, <3>1, Zenon
  <2> QED BY <1>7, <2>1
<1>9. CheapestWorkers(4) = c[best]
  BY DEF CheapestWorkers, c
<1> QED BY <1>1, <1>8, <1>9

BatcherInv == ABTypeOK /\ DecisionsBounded

\* The first decision is between the limits.
LEMMA BatcherStart == ABInit => BatcherInv
<1> SUFFICES ASSUME ABInit PROVE BatcherInv
  OBVIOUS
<1> USE BatcherAssumption
<1>1. batch = InitialBatch /\ workers = 4 /\ seen = 0 /\ lastUpdate = 0 /\ fitted = FALSE
  BY DEF ABInit, InitialWorkers
<1>2. batch \in MinBatch .. MaxBatch /\ workers \in 1 .. 64 /\ seen \in 0 .. Window
      /\ batch <= InitialBatch
  BY <1>1
<1>3. lastUpdate \in Seconds \cup {0} /\ fitted \in BOOLEAN
  BY <1>1
<1> QED BY <1>1, <1>2, <1>3 DEF BatcherInv, ABTypeOK, DecisionsBounded, InitialWorkers

\* A third of what is proposed: below half of the largest sum, or no more than there was.
LEMMA ThirdIsBounded ==
    ASSUME NEW optimum \in Int, optimum <= MaxBatch, NEW correction \in Int, correction <= PidLimit,
           NEW b \in Int, b <= batch + 64, batch \in Nat
    PROVE  \/ 2 * Third(optimum + correction + b) <= MaxBatch + PidLimit + 64 + 1
           \/ Third(optimum + correction + b) <= batch
<1> DEFINE x == optimum + correction + b
<1>1. x \in Int /\ x <= MaxBatch + 164 + batch /\ MaxBatch \in Nat /\ PidLimit = 100
  BY BatcherAssumption DEF PidLimit
<1> HIDE DEF x
<1>2. Third(x) \in Int /\ (x < 0 => Third(x) = 0) /\ (x >= 0 => 6 * Third(x) <= 2 * x + 3)
  BY <1>1 DEF Third
<1>3. 2 * Third(x) <= MaxBatch + 165 \/ Third(x) <= batch
  BY <1>1, <1>2
<1> QED BY <1>1, <1>3 DEF x

\* What is no more than the bound stays so when it is clamped.
LEMMA BelowTheBound ==
    ASSUME NEW new \in Int, NEW t \in Int, NEW old \in Int, NEW least \in Int, NEW initial \in Int,
           NEW bound \in Int, least <= initial,
           new <= t \/ new = least,
           2 * t <= bound \/ t <= old,
           2 * old <= bound \/ old <= initial
    PROVE  2 * new <= bound \/ new <= initial
  OBVIOUS

LEMMA BatcherStep == BatcherInv /\ [ABNext]_abvars => BatcherInv'
<1> SUFFICES ASSUME BatcherInv, [ABNext]_abvars PROVE BatcherInv'
  OBVIOUS
<1> USE BatcherAssumption
<1>0. /\ batch \in MinBatch .. MaxBatch /\ workers = 4 /\ seen \in 0 .. Window
      /\ lastUpdate \in Seconds \cup {0} /\ fitted \in BOOLEAN
      /\ 2 * batch <= MaxBatch + PidLimit + 64 + 1 \/ batch <= InitialBatch
  BY DEF BatcherInv, ABTypeOK, DecisionsBounded, InitialWorkers
<1>1. CASE RecordExecution
  <2>1. seen' \in 0 .. Window /\ batch' = batch /\ workers' = workers
    BY <1>0, <1>1 DEF RecordExecution
  <2>2. lastUpdate' \in Seconds \cup {0}
    BY <1>0, <1>1 DEF RecordExecution
  <2>3. fitted' = fitted \/ \E n : UpdateModel(n)
    BY <1>1, Zenon DEF RecordExecution
  <2>4. fitted' \in BOOLEAN
    BY <1>0, <2>3, Zenon DEF UpdateModel
  <2> QED BY <1>0, <2>1, <2>2, <2>4 DEF BatcherInv, ABTypeOK, DecisionsBounded, InitialWorkers
<1>2. ASSUME NEW optimum \in OptimalSizes, NEW correction \in PidOutputs, Decide(optimum, correction)
      PROVE  BatcherInv'
  <2>1. optimum \in MinBatch .. MaxBatch
    <3>1. PICK o \in Optima : optimum = Clamped(o)
      BY DEF OptimalSizes
    <3> QED BY <3>1, ClampedIsBetween
  <2>2. correction \in Int /\ correction <= PidLimit
    <3>1. PICK p \in PidSums : correction = Least(Most(p, -PidLimit), PidLimit)
      BY DEF PidOutputs
    <3> QED BY <3>1 DEF Least, Most, PidLimit
  <2>3. PICK b \in BatchCandidates(batch) : batch' = Clamped(Third(optimum + correction + b))
    BY <1>2 DEF Decide
  <2>4. b \in Int /\ b <= batch + 64 /\ batch \in Nat
    BY <1>0, <2>3 DEF BatchCandidates, Most, Least
  <2> DEFINE t == Third(optimum + correction + b)
  <2>5. t \in Int /\ (2 * t <= MaxBatch + PidLimit + 64 + 1 \/ t <= batch)
    <3>1. t \in Int
      BY <2>1, <2>2, <2>4 DEF Third
    <3>2. optimum \in Int /\ optimum <= MaxBatch
      BY <2>1
    <3>3. \/ 2 * Third(optimum + correction + b) <= MaxBatch + PidLimit + 64 + 1
          \/ Third(optimum + correction + b) <= batch
      BY <2>2, <2>4, <3>2, ThirdIsBounded
    <3> QED BY <3>1, <3>3
  <2> HIDE DEF t
  <2>6. batch' \in MinBatch .. MaxBatch /\ (batch' <= t \/ batch' = MinBatch)
    <3>1. batch' = Clamped(t)
      BY <2>3 DEF t
    <3>2. Clamped(t) \in MinBatch .. MaxBatch /\ (Clamped(t) <= t \/ Clamped(t) = MinBatch)
      <4>1. t \in Int
        BY <2>5
      <4> QED BY <4>1, ClampedIsBetween
    <3> QED BY <3>1, <3>2
  <2>7. 2 * batch' <= MaxBatch + PidLimit + 64 + 1 \/ batch' <= InitialBatch
    <3>1. /\ batch' \in Int /\ t \in Int /\ batch \in Int /\ MinBatch \in Int /\ MinBatch <= InitialBatch
          /\ MaxBatch + PidLimit + 64 + 1 \in Int /\ InitialBatch \in Int
      BY <1>0, <2>5, <2>6 DEF PidLimit
    <3> QED BY <1>0, <2>5, <2>6, <3>1, BelowTheBound
  <2>8. workers' = 4 /\ UNCHANGED <<seen, lastUpdate, fitted>>
    BY <1>0, <1>2, FourStay DEF Decide
  <2> QED BY <1>0, <2>6, <2>7, <2>8 DEF BatcherInv, ABTypeOK, DecisionsBounded, InitialWorkers
<1>3. CASE UNCHANGED abvars
  BY <1>0, <1>3 DEF abvars, BatcherInv, ABTypeOK, DecisionsBounded, InitialWorkers
<1> QED BY <1>1, <1>2, <1>3 DEF ABNext

LEMMA BatcherInvariant == ABSpec => []BatcherInv
  BY BatcherStart, BatcherStep, PTL DEF ABSpec

\* The batch size keeps within its limits, and the samples within theirs.
THEOREM BatcherTypeCorrect == ABSpec => []ABTypeOK
<1>1. BatcherInv => ABTypeOK
  BY DEF BatcherInv
<1> QED BY <1>1, BatcherInvariant, PTL

\* optimize_batch_size and solve: the upper part of the configured range is never used, and the
\* number of workers never changes, whatever the samples, the optima and the limits.
THEOREM DecisionsStayBounded == ABSpec => []DecisionsBounded
<1>1. BatcherInv => DecisionsBounded
  BY DEF BatcherInv
<1> QED BY <1>1, BatcherInvariant, PTL

-----------------------------------------------------------------------------

(***************************************************************************)
(* The buffer pool: no class has more than it may, and none is refilled.   *)
(***************************************************************************)
\* How many buffers of a class are at most so many turns old: no fewer than are younger.
Grows(counted) == \A a, b \in Ages : a <= b => counted[a] <= counted[b]
Counts == [Ages -> 0 .. MaxBuffers]

LEMMA AgesAre ==
    /\ Oldest \in Ages /\ 0 \in Ages /\ Ages \subseteq Nat
    /\ \A a \in Ages : a <= Oldest /\ (a # 0 => a - 1 \in Ages)
  BY PoolAssumption DEF Oldest, Ages

LEMMA PoolStart == BPInit => BPTypeOK
<1> SUFFICES ASSUME BPInit PROVE BPTypeOK
  OBVIOUS
<1>1. Preallocated \in 0 .. MaxBuffers
  BY PoolAssumption DEF Preallocated
<1>2. tended \in [SizeClasses -> [Ages -> 0 .. MaxBuffers]]
  BY PoolAssumption DEF BPInit
<1>3. \A c \in SizeClasses : \A a, b \in Ages : a <= b => tended[c][a] <= tended[c][b]
  BY DEF BPInit
<1> QED BY <1>1, <1>2, <1>3 DEF BPInit, BPTypeOK

\* A turn older, nobody is gone.
LEMMA AgedKeeps ==
    ASSUME BPTypeOK, NEW c \in SizeClasses
    PROVE  Older(c) \in Counts /\ Grows(Older(c))
<1>1. tended[c] \in Counts /\ Grows(tended[c])
  BY DEF BPTypeOK, Counts, Grows
<1>2. Older(c) \in Counts
  BY <1>1, AgesAre, PoolAssumption DEF Older, Total, Counts
<1>3. ASSUME NEW a \in Ages, NEW b \in Ages, a <= b PROVE Older(c)[a] <= Older(c)[b]
  <2>1. CASE a = 0
    <3>1. Older(c)[a] = 0 /\ Older(c)[b] \in 0 .. MaxBuffers
      BY <1>2, <2>1 DEF Older, Counts
    <3> QED BY <3>1
  <2>2. CASE a # 0 /\ b = Oldest
    <3>1. Older(c)[b] = tended[c][Oldest]
      BY <2>2, AgesAre DEF Older, Total, Oldest
    <3>2. Older(c)[a] = tended[c][Oldest] \/ Older(c)[a] = tended[c][a - 1]
      BY <2>2 DEF Older, Total
    <3>3. a - 1 \in Ages /\ a - 1 <= Oldest
      BY <2>2, AgesAre
    <3>4. tended[c][a - 1] <= tended[c][Oldest] /\ tended[c][Oldest] \in Int
      BY <1>1, <3>3, AgesAre DEF Grows, Counts
    <3> QED BY <3>1, <3>2, <3>4
  <2>3. CASE a # 0 /\ b # Oldest
    <3>1. a # Oldest /\ b # 0 /\ a - 1 \in Ages /\ b - 1 \in Ages /\ a - 1 <= b - 1
      BY <1>3, <2>3, AgesAre
    <3>2. Older(c)[a] = tended[c][a - 1] /\ Older(c)[b] = tended[c][b - 1]
      BY <2>3, <3>1 DEF Older
    <3> QED BY <1>1, <3>1, <3>2 DEF Grows
  <2> QED BY <2>1, <2>2, <2>3
<1> QED BY <1>2, <1>3 DEF Grows

\* Without the stale ones, the others are as many as they were.
LEMMA CleanedKeeps ==
    ASSUME NEW c \in SizeClasses, NEW older \in Counts, Grows(older), NEW late \in BOOLEAN
    PROVE  Cleaned(c, older, late) \in Counts /\ Grows(Cleaned(c, older, late))
<1> DEFINE kept == Cleaned(c, older, late)
           f == Freshest(late)
<1>0. f \in Ages
  BY PoolAssumption DEF Freshest, Ages
<1>1. CASE Total(older) > MinPool[c]
  <2>1. kept = [a \in Ages |-> IF a > f THEN older[f] ELSE older[a]]
    BY <1>1 DEF Cleaned
  <2> HIDE DEF kept, f
  <2>2. kept \in Counts
    BY <1>0, <2>1 DEF Counts
  <2>3. ASSUME NEW a \in Ages, NEW b \in Ages, a <= b PROVE kept[a] <= kept[b]
    <3>1. /\ kept[a] = IF a > f THEN older[f] ELSE older[a]
          /\ kept[b] = IF b > f THEN older[f] ELSE older[b]
          /\ a \in Int /\ b \in Int /\ f \in Int
      BY <1>0, <2>1, AgesAre
    <3>2. /\ a <= b /\ older[a] <= older[b]
          /\ a <= f => older[a] <= older[f]
          /\ older[f] <= older[f]
      BY <1>0, <2>3 DEF Grows, Counts
    <3> QED BY <3>1, <3>2
  <2> QED BY <2>2, <2>3 DEF Grows, kept
<1>2. CASE ~(Total(older) > MinPool[c])
  BY <1>2 DEF Cleaned
<1> QED BY <1>1, <1>2

\* Topped up, a class is within the maximum.
LEMMA ToppedUpKeeps ==
    ASSUME NEW kept \in Counts, Grows(kept)
    PROVE  /\ [a \in Ages |-> kept[a] + Increase(Total(kept))] \in Counts
           /\ Grows([a \in Ages |-> kept[a] + Increase(Total(kept))])
<1> DEFINE n == Total(kept)
           added == Increase(n)
           more == [a \in Ages |-> kept[a] + added]
<1>1. \A a \in Ages : kept[a] \in 0 .. n
  BY AgesAre DEF Grows, Total, Counts
<1>2. n \in 0 .. MaxBuffers
  BY AgesAre DEF Total, Counts
<1> HIDE DEF n
<1>3. added \in Nat /\ n + added <= MaxBuffers
  BY <1>2, PoolAssumption DEF Increase
<1> HIDE DEF added
<1>4. \A a \in Ages : more[a] = kept[a] + added
  OBVIOUS
<1>5. more \in Counts
  BY <1>1, <1>2, <1>3, PoolAssumption DEF Counts
<1>6. Grows(more)
  <2> SUFFICES ASSUME NEW a \in Ages, NEW b \in Ages, a <= b PROVE more[a] <= more[b]
    BY DEF Grows
  <2>1. kept[a] <= kept[b] /\ kept[a] \in Int /\ kept[b] \in Int
    BY <1>1, <1>2 DEF Grows
  <2> QED BY <1>3, <1>4, <2>1
<1> QED BY <1>5, <1>6 DEF more, added, n

\* A turn of the task leaves the pool alone, and a cleanup leaves less or as much.
LEMMA PoolTurn ==
    ASSUME BPTypeOK, [BPNext]_bpvars
    PROVE  BPTypeOK' /\ \A c \in SizeClasses : pooled'[c] <= pooled[c]
<1>1. CASE Tend
  <2>1. PICK late \in BOOLEAN :
           tended' = [c \in SizeClasses |->
               LET kept == Cleaned(c, Older(c), late)
               IN  [a \in Ages |-> kept[a] + Increase(Total(kept))]]
    BY <1>1 DEF Tend
  <2>2. ASSUME NEW c \in SizeClasses
        PROVE  tended'[c] \in Counts /\ Grows(tended'[c])
    <3> DEFINE kept == Cleaned(c, Older(c), late)
    <3>1. kept \in Counts /\ Grows(kept)
      BY AgedKeeps, CleanedKeeps
    <3>2. tended'[c] = [a \in Ages |-> kept[a] + Increase(Total(kept))]
      BY <2>1
    <3> HIDE DEF kept
    <3> QED BY <3>1, <3>2, ToppedUpKeeps
  <2>3. tended' = [c \in SizeClasses |-> tended'[c]]
    BY <2>1
  <2>4. tended' \in [SizeClasses -> [Ages -> 0 .. MaxBuffers]]
    BY <2>2, <2>3 DEF Counts
  <2>5. pooled' = pooled /\ idle' = TRUE
    BY <1>1 DEF Tend
  <2> QED BY <2>2, <2>4, <2>5 DEF BPTypeOK, Grows
<1>2. CASE ForceCleanup
  <2>1. \A c \in SizeClasses : pooled'[c] = 0 \/ pooled'[c] = pooled[c]
    BY <1>2 DEF ForceCleanup, BPTypeOK
  <2>2. pooled' = [c \in SizeClasses |-> pooled'[c]]
    BY <1>2 DEF ForceCleanup
  <2>3. pooled' \in [SizeClasses -> 0 .. MaxBuffers]
    BY <2>1, <2>2, PoolAssumption DEF BPTypeOK
  <2> QED BY <1>2, <2>1, <2>3 DEF BPTypeOK, ForceCleanup
<1>3. CASE BuffersIdle \/ UNCHANGED bpvars
  <2>1. pooled' = pooled /\ tended' = tended /\ idle' \in BOOLEAN
    BY <1>3 DEF BuffersIdle, bpvars, BPTypeOK
  <2>2. BPTypeOK'
    BY <2>1 DEF BPTypeOK
  <2>3. \A c \in SizeClasses : pooled[c] \in Int
    BY DEF BPTypeOK
  <2> QED BY <2>1, <2>2, <2>3
<1> QED BY <1>1, <1>2, <1>3 DEF BPNext

\* No class of the clone that increase_pool_sizes tops up passes the maximum, for any
\* sizes, minima and ages.
THEOREM PoolTypeCorrect == BPSpec => []BPTypeOK
<1>1. BPTypeOK /\ [BPNext]_bpvars => BPTypeOK'
  BY PoolTurn
<1> QED BY <1>1, PoolStart, PTL DEF BPSpec

\* What tops the classes up tends a clone: no class of the pool that the system uses is ever
\* filled again, whatever its size and its minimum.
THEOREM PoolNeverRefills == BPSpec => PoolOnlyDrains
<1>1. BPTypeOK /\ [BPNext]_bpvars => [\A c \in SizeClasses : pooled'[c] <= pooled[c]]_bpvars
  BY PoolTurn
<1> QED BY <1>1, PoolTypeCorrect, PTL DEF BPSpec, PoolOnlyDrains

-----------------------------------------------------------------------------

(***************************************************************************)
(* The control loop: one optimization at a time may write the              *)
(* configuration, and one has the entry of a metric.                       *)
(***************************************************************************)
BranchSteps == {"start", "clamp", "clampAgain", "final", "write", "record", "adapting",
                "metric", "detect", "hung", "done"}

AtMostOne(S) == S = {} \/ \E b \in Branches : S = {b}

ControlTyped ==
    /\ turn \in {"tick", "collect", "join", "ended"} /\ running \in BOOLEAN /\ frozen \in BOOLEAN
    /\ step \in [Branches -> BranchSteps]
    /\ readers \in [Branches -> 0 .. 1] /\ unchecked \in 0 .. BreakersPerTurn
    /\ AtMostOne(writer) /\ AtMostOne(entry) /\ waiting \subseteq Branches

\* Whoever writes the configuration does so alone.
WritesAlone == writer # {} => \A b \in Branches : readers[b] = 0

\* As long as the optimization of the breakers is under way, one is left to be looked at.
BreakersLeft == step["breakers"] \in {"start", "metric", "detect"} => unchecked > 0

ControlInv == ControlTyped /\ WritesAlone /\ BreakersLeft

LEMMA ControlStart == CCInit => ControlInv
<1> SUFFICES ASSUME CCInit PROVE ControlInv
  OBVIOUS
<1>1. step \in [Branches -> BranchSteps] /\ step["breakers"] = "done"
  BY DEF CCInit, BranchSteps, Branches
<1>2. readers \in [Branches -> 0 .. 1]
  BY DEF CCInit
<1>3. unchecked \in 0 .. BreakersPerTurn
  BY CycleAssumption DEF CCInit
<1>4. ControlTyped
  BY <1>1, <1>2, <1>3 DEF CCInit, ControlTyped, AtMostOne
<1>5. WritesAlone
  BY DEF CCInit, WritesAlone
<1> QED BY <1>1, <1>4, <1>5 DEF ControlInv, BreakersLeft

\* One optimization goes to another step, and touches neither lock nor the breakers.
LEMMA ControlMoves ==
    ASSUME ControlInv, NEW b \in Branches, NEW s \in BranchSteps, StepTo(b, s),
           b = "breakers" => s \notin {"start", "metric", "detect"} \/ unchecked > 0
    PROVE  /\ step' \in [Branches -> BranchSteps]
           /\ step'["breakers"] \in {"start", "metric", "detect"} => unchecked > 0
  BY DEF ControlInv, ControlTyped, BreakersLeft, StepTo, Branches

LEMMA EntryMoves ==
    ASSUME ControlInv, NEW b \in Branches, DropEntry(b)
    PROVE  AtMostOne(entry') /\ frozen' \in BOOLEAN
  BY DEF ControlInv, ControlTyped, DropEntry, AtMostOne

LEMMA EntryTaken ==
    ASSUME ControlInv, NEW b \in Branches, NEW s \in BranchSteps, TakeEntry(b, s),
           b = "breakers" => unchecked > 0
    PROVE  /\ AtMostOne(entry') /\ frozen' \in BOOLEAN
           /\ step' \in [Branches -> BranchSteps]
           /\ step'["breakers"] \in {"start", "metric", "detect"} => unchecked > 0
<1>1. CASE entry = {}
  <2>1. entry' = {b} /\ StepTo(b, s) /\ UNCHANGED frozen
    BY <1>1 DEF TakeEntry
  <2> QED BY <2>1, ControlMoves DEF AtMostOne, ControlInv, ControlTyped
<1>2. CASE entry # {}
  BY <1>2 DEF TakeEntry, AtMostOne, ControlInv, ControlTyped, BreakersLeft
<1> QED BY <1>1, <1>2

LEMMA StepsAre ==
    /\ {"start", "clamp", "clampAgain", "final", "write", "record", "adapting",
        "metric", "detect", "hung", "done"} = BranchSteps
    /\ \A b \in {"batch", "workers", "qos", "buffers", "breakers", "readerWriter", "crypto"} :
          b \in Branches
  BY DEF BranchSteps, Branches

\* The last metric of an optimization.
LEMMA LastMetricKeeps ==
    ASSUME ControlInv, NEW b \in Branches \ {"breakers"}, LastMetric(b)
    PROVE  ControlInv'
<1>1. CASE From(b, "metric") /\ TakeEntry(b, "detect") /\ UNCHANGED <<turn, running, cfglock, unchecked>>
  <2>1. "detect" \in BranchSteps
    BY StepsAre
  <2> QED BY <1>1, <2>1, EntryTaken
      DEF ControlInv, ControlTyped, WritesAlone, BreakersLeft, cfglock
<1>2. CASE From(b, "detect") /\ DropEntry(b) /\ StepTo(b, "done") /\ UNCHANGED <<turn, running, cfglock, unchecked>>
  <2>1. "done" \in BranchSteps
    BY StepsAre
  <2> QED BY <1>2, <2>1, EntryMoves, ControlMoves
      DEF ControlInv, ControlTyped, WritesAlone, BreakersLeft, cfglock
<1> QED BY <1>1, <1>2 DEF LastMetric

\* A step that touches no more than the lock of the configuration.
LEMMA LockStepKeeps ==
    ASSUME ControlInv, Unlocked, NEW b \in Branches,
           \/ step' = step
           \/ \E s \in BranchSteps :
                 /\ StepTo(b, s)
                 /\ b = "breakers" => s \notin {"start", "metric", "detect"} \/ unchecked > 0,
           \/ UNCHANGED cfglock
           \/ MayRead(b) /\ UNCHANGED <<writer, waiting>> /\ \E n \in 0 .. 1 : readers' = [readers EXCEPT ![b] = n]
           \/ WriteConfig(b)
           \/ QueueWriter(b)
           \/ writer' = {} /\ UNCHANGED waiting /\ readers' = [readers EXCEPT ![b] = 0]
    PROVE  ControlInv'
<1>1. /\ step' \in [Branches -> BranchSteps]
      /\ step'["breakers"] \in {"start", "metric", "detect"} => unchecked > 0
  <2>1. CASE step' = step
    BY <2>1 DEF ControlInv, ControlTyped, BreakersLeft
  <2>2. CASE \E s \in BranchSteps :
                /\ StepTo(b, s)
                /\ b = "breakers" => s \notin {"start", "metric", "detect"} \/ unchecked > 0
    <3>1. PICK s \in BranchSteps :
             /\ StepTo(b, s)
             /\ b = "breakers" => s \notin {"start", "metric", "detect"} \/ unchecked > 0
      BY <2>2
    <3> QED BY <3>1, ControlMoves
  <2> QED BY <2>1, <2>2
<1>2. /\ turn' \in {"tick", "collect", "join", "ended"} /\ running' \in BOOLEAN /\ frozen' \in BOOLEAN
      /\ unchecked' \in 0 .. BreakersPerTurn /\ AtMostOne(entry') /\ unchecked' = unchecked
  BY DEF Unlocked, metric, ControlInv, ControlTyped, AtMostOne
<1>3. /\ readers' \in [Branches -> 0 .. 1] /\ AtMostOne(writer') /\ waiting' \subseteq Branches
      /\ WritesAlone'
  <2>1. CASE UNCHANGED cfglock
    BY <2>1 DEF cfglock, ControlInv, ControlTyped, AtMostOne, WritesAlone
  <2>2. CASE MayRead(b) /\ UNCHANGED <<writer, waiting>>
             /\ \E n \in 0 .. 1 : readers' = [readers EXCEPT ![b] = n]
    BY <2>2 DEF MayRead, ControlInv, ControlTyped, AtMostOne, WritesAlone
  <2>3. CASE WriteConfig(b)
    BY <2>3 DEF WriteConfig, MayWrite, ControlInv, ControlTyped, AtMostOne, WritesAlone
  <2>4. CASE QueueWriter(b)
    BY <2>4 DEF QueueWriter, ControlInv, ControlTyped, AtMostOne, WritesAlone
  <2>5. CASE writer' = {} /\ UNCHANGED waiting /\ readers' = [readers EXCEPT ![b] = 0]
    BY <2>5 DEF ControlInv, ControlTyped, AtMostOne, WritesAlone
  <2> QED BY <2>1, <2>2, <2>3, <2>4, <2>5
<1> QED BY <1>1, <1>2, <1>3 DEF ControlInv, ControlTyped, BreakersLeft

LEMMA ControlStep == ControlInv /\ [CCNext]_ccvars => ControlInv'
<1> SUFFICES ASSUME ControlInv, [CCNext]_ccvars PROVE ControlInv'
  OBVIOUS
<1>0. /\ "start" \in BranchSteps /\ "clamp" \in BranchSteps /\ "clampAgain" \in BranchSteps
      /\ "final" \in BranchSteps /\ "write" \in BranchSteps /\ "record" \in BranchSteps
      /\ "adapting" \in BranchSteps /\ "metric" \in BranchSteps /\ "detect" \in BranchSteps
      /\ "hung" \in BranchSteps /\ "done" \in BranchSteps
      /\ "batch" \in Branches /\ "workers" \in Branches /\ "qos" \in Branches
      /\ "buffers" \in Branches /\ "breakers" \in Branches /\ "readerWriter" \in Branches
      /\ "crypto" \in Branches
  BY DEF BranchSteps, Branches
<1>1. CASE StartTurn \/ FinishTurn \/ StopControl
  BY <1>1 DEF StartTurn, FinishTurn, StopControl, cfglock, metric, ControlInv, ControlTyped,
              WritesAlone, BreakersLeft, AtMostOne
<1>2. CASE CollectState
  <2>1. step' \in [Branches -> BranchSteps] /\ unchecked' \in 0 .. BreakersPerTurn /\ unchecked' > 0
    BY <1>0, <1>2, CycleAssumption DEF CollectState
  <2> QED BY <1>2, <2>1 DEF CollectState, cfglock, metric, ControlInv, ControlTyped,
              WritesAlone, BreakersLeft, AtMostOne
<1>3. CASE BatchStep
  <2>1. CASE LastMetric("batch")
    BY <1>0, <2>1, LastMetricKeeps
  <2>2. CASE ~LastMetric("batch")
    <3>1. /\ Unlocked
          /\ step' = step \/ \E s \in BranchSteps : StepTo("batch", s)
      BY <1>0, <1>3, <2>2 DEF BatchStep
    <3>2. \/ UNCHANGED cfglock
          \/ MayRead("batch") /\ UNCHANGED <<writer, waiting>>
             /\ \E n \in 0 .. 1 : readers' = [readers EXCEPT !["batch"] = n]
          \/ WriteConfig("batch")
          \/ QueueWriter("batch")
          \/ writer' = {} /\ UNCHANGED waiting /\ readers' = [readers EXCEPT !["batch"] = 0]
      BY <1>3, <2>2 DEF BatchStep, ReadConfig
    <3> QED BY <1>0, <3>1, <3>2, LockStepKeeps
  <2> QED BY <2>1, <2>2
<1>4. CASE WorkersStep
  <2>1. CASE LastMetric("workers")
    BY <1>0, <2>1, LastMetricKeeps
  <2>2. CASE ~LastMetric("workers")
    <3>1. Unlocked /\ (\E s \in BranchSteps : StepTo("workers", s)) /\ UNCHANGED cfglock
      BY <1>0, <1>4, <2>2 DEF WorkersStep, ReadConfig
    <3> QED BY <1>0, <3>1, LockStepKeeps
  <2> QED BY <2>1, <2>2
<1>5. CASE QosStep \/ QosHangs
  <2>1. CASE LastMetric("qos")
    BY <1>0, <2>1, LastMetricKeeps
  <2>2. CASE ~LastMetric("qos")
    <3>1. Unlocked /\ (\E s \in BranchSteps : StepTo("qos", s)) /\ UNCHANGED cfglock
      BY <1>0, <1>5, <2>2 DEF QosStep, QosHangs
    <3> QED BY <1>0, <3>1, LockStepKeeps
  <2> QED BY <2>1, <2>2
<1>6. CASE BuffersStep
  <2>1. Unlocked /\ StepTo("buffers", "done") /\ UNCHANGED cfglock
    BY <1>6 DEF BuffersStep
  <2> QED BY <1>0, <2>1, LockStepKeeps
<1>7. CASE BreakersStep
  <2>1. CASE From("breakers", "start") /\ Unlocked /\ UNCHANGED cfglock
             /\ StepTo("breakers", "metric")
    <3>1. unchecked > 0
      BY <2>1 DEF From, ControlInv, BreakersLeft
    <3> QED BY <1>0, <2>1, <3>1, LockStepKeeps
  <2>2. CASE From("breakers", "metric") /\ TakeEntry("breakers", "detect")
             /\ UNCHANGED <<turn, running, cfglock, unchecked>>
    <3>1. unchecked > 0
      BY <2>2 DEF From, ControlInv, BreakersLeft
    <3> QED BY <1>0, <2>2, <3>1, EntryTaken
        DEF ControlInv, ControlTyped, WritesAlone, BreakersLeft, cfglock
  <2>3. CASE /\ From("breakers", "detect") /\ DropEntry("breakers")
             /\ unchecked' = unchecked - 1
             /\ StepTo("breakers", IF unchecked = 1 THEN "done" ELSE "start")
             /\ UNCHANGED <<turn, running, cfglock>>
    <3>1. unchecked > 0 /\ unchecked \in 0 .. BreakersPerTurn
      BY <2>3 DEF From, ControlInv, ControlTyped, BreakersLeft
    <3>2. unchecked' \in 0 .. BreakersPerTurn /\ (unchecked # 1 => unchecked' > 0)
      BY <2>3, <3>1, CycleAssumption
    <3>3. /\ step' \in [Branches -> BranchSteps]
          /\ step'["breakers"] = IF unchecked = 1 THEN "done" ELSE "start"
      BY <1>0, <2>3 DEF StepTo, ControlInv, ControlTyped
    <3>4. BreakersLeft'
      BY <3>2, <3>3 DEF BreakersLeft
    <3> QED BY <1>0, <2>3, <3>2, <3>3, <3>4, EntryMoves
        DEF ControlInv, ControlTyped, WritesAlone, cfglock
  <2> QED BY <1>7, <2>1, <2>2, <2>3 DEF BreakersStep
<1>8. CASE BreakersHang
  <2>1. Unlocked /\ StepTo("breakers", "hung") /\ UNCHANGED cfglock
    BY <1>8 DEF BreakersHang
  <2> QED BY <1>0, <2>1, LockStepKeeps
<1>9. CASE ReaderWriterStep
  <2>1. CASE From("readerWriter", "start") /\ Unlocked
             /\ \/ WriteConfig("readerWriter") /\ StepTo("readerWriter", "metric")
                \/ QueueWriter("readerWriter") /\ UNCHANGED step
    BY <1>0, <2>1, LockStepKeeps
  <2>2. CASE From("readerWriter", "metric") /\ TakeEntry("readerWriter", "detect")
             /\ UNCHANGED <<turn, running, cfglock, unchecked>>
    BY <1>0, <2>2, EntryTaken DEF ControlInv, ControlTyped, WritesAlone, BreakersLeft, cfglock
  <2>3. CASE From("readerWriter", "detect") /\ DropEntry("readerWriter")
             /\ writer' = {} /\ StepTo("readerWriter", "done")
             /\ UNCHANGED <<turn, running, readers, waiting, unchecked>>
    BY <1>0, <2>3, EntryMoves, ControlMoves
       DEF ControlInv, ControlTyped, WritesAlone, BreakersLeft, AtMostOne
  <2> QED BY <1>9, <2>1, <2>2, <2>3 DEF ReaderWriterStep
<1>10. CASE CryptoStep
  <2>1. CASE LastMetric("crypto")
    BY <1>0, <2>1, LastMetricKeeps
  <2>2. CASE ~LastMetric("crypto")
    <3>1. Unlocked /\ StepTo("crypto", "metric") /\ UNCHANGED cfglock
      BY <1>10, <2>2 DEF CryptoStep
    <3> QED BY <1>0, <3>1, LockStepKeeps
  <2> QED BY <2>1, <2>2
<1>11. CASE UNCHANGED ccvars
  BY <1>11 DEF ccvars, cfglock, metric, ControlInv, ControlTyped, WritesAlone, BreakersLeft, AtMostOne
<1> QED BY <1>1, <1>2, <1>3, <1>4, <1>5, <1>6, <1>7, <1>8, <1>9, <1>10, <1>11
        DEF CCNext, LoopStep, Optimization

LEMMA ControlInvariant == CCFairSpec => []ControlInv
  BY ControlStart, ControlStep, PTL DEF CCFairSpec

LEMMA ControlIsTyped == ControlInv => CCTypeOK
<1> SUFFICES ASSUME ControlInv PROVE CCTypeOK
  OBVIOUS
<1>1. ASSUME NEW S, AtMostOne(S) PROVE Cardinality(S) <= 1
  <2>1. CASE S = {}
    BY <2>1, FS_EmptySet
  <2>2. CASE S # {}
    <3>1. PICK b \in Branches : S = {b}
      BY <1>1, <2>2 DEF AtMostOne
    <3>2. Cardinality({b}) = 1
      BY FS_Singleton
    <3> QED BY <3>1, <3>2
  <2> QED BY <2>1, <2>2
<1>2. Cardinality(writer) <= 1 /\ Cardinality(entry) <= 1
  BY <1>1 DEF ControlInv, ControlTyped
<1> QED BY <1>2 DEF CCTypeOK, ControlInv, ControlTyped, WritesAlone, BranchSteps

\* start_control_loop: whoever may write the configuration is alone with it, one optimization
\* at a time has the entry of a metric, and the breakers still to be looked at are counted
\* right, for any number of breakers.
THEOREM ControlTypeCorrect == CCFairSpec => []CCTypeOK
  BY ControlInvariant, ControlIsTyped, PTL

(***************************************************************************)
(* The ways in which a turn of the control loop does not end, and that     *)
(* there is no other.                                                      *)
(***************************************************************************)
\* An optimization is at a step of its own, has the guards of that step, and waits to write
\* only where it asks to; between two turns all of them are done.
AtTheirPlaces ==
    /\ step["batch"] \notin {"adapting", "hung"}
    /\ step["qos"] \in {"start", "adapting", "metric", "detect", "hung", "done"}
    /\ step["breakers"] \in {"start", "metric", "detect", "hung", "done"}
    /\ \A b \in Branches \ {"batch", "qos", "breakers"} :
           step[b] \in {"start", "metric", "detect", "done"}
    /\ turn # "join" => \A b \in Branches : step[b] = "done"
    /\ \A b \in Branches : readers[b] = 1 => b = "batch" /\ step[b] = "clampAgain"
    /\ step["batch"] = "clampAgain" => readers["batch"] = 1
    /\ writer \subseteq {"batch", "readerWriter"}
    /\ "batch" \in writer => step["batch"] = "record"
    /\ "readerWriter" \in writer => step["readerWriter"] \in {"metric", "detect"}
    /\ waiting \subseteq {"batch", "readerWriter"}
    /\ "batch" \in waiting => step["batch"] = "write"
    /\ "readerWriter" \in waiting => step["readerWriter"] = "start"

\* The last metric of an optimization.
LEMMA MetricPlaces ==
    ASSUME ControlInv, AtTheirPlaces, NEW b \in Branches \ {"breakers", "readerWriter"},
           LastMetric(b)
    PROVE  AtTheirPlaces'
<1>1. step \in [Branches -> BranchSteps] /\ turn = "join" /\ step[b] \in {"metric", "detect"}
  BY DEF ControlInv, ControlTyped, LastMetric, From, Polled
<1>2. step' = step \/ step' = [step EXCEPT ![b] = "detect"] \/ step' = [step EXCEPT ![b] = "done"]
  BY DEF LastMetric, TakeEntry, StepTo
<1>3. UNCHANGED <<turn, readers, writer, waiting>>
  BY DEF LastMetric, cfglock
<1>4. CASE step' = step
  BY <1>3, <1>4 DEF AtTheirPlaces
<1>5. ASSUME NEW s \in {"detect", "done"}, step' = [step EXCEPT ![b] = s]
      PROVE  AtTheirPlaces'
  <2>1. b = "batch" => "batch" \notin writer /\ "batch" \notin waiting
    BY <1>1 DEF AtTheirPlaces
  <2>2. step'[b] = s /\ \A c \in Branches \ {b} : step'[c] = step[c]
    BY <1>1, <1>5
  <2>3. readers[b] # 1 /\ turn' = "join"
    BY <1>1, <1>3 DEF AtTheirPlaces
  <2> QED BY <1>1, <1>3, <2>1, <2>2, <2>3, StepsAre DEF AtTheirPlaces
<1> QED BY <1>2, <1>4, <1>5

\* A step of an optimization to another of its steps that leaves the configuration alone.
LEMMA PlainPlaces ==
    ASSUME ControlInv, AtTheirPlaces, turn = "join", NEW b \in Branches, NEW s,
           step[b] \in {"start", "adapting", "final", "metric", "detect"}, b # "readerWriter",
           step' = [step EXCEPT ![b] = s],
           \/ b = "batch" /\ s \in {"clamp", "write", "metric", "done"}
           \/ b = "qos" /\ s \in {"metric", "adapting", "hung", "done"}
           \/ b = "breakers" /\ s \in {"start", "metric", "detect", "hung", "done"}
           \/ s \in {"metric", "done"},
           UNCHANGED <<turn, readers, writer, waiting>>
    PROVE  AtTheirPlaces'
<1>1. step \in [Branches -> BranchSteps]
  BY DEF ControlInv, ControlTyped
<1> QED BY <1>1 DEF AtTheirPlaces

LEMMA BatchPlaces ==
    ASSUME ControlInv, AtTheirPlaces, BatchStep
    PROVE  AtTheirPlaces'
<1> DEFINE b == "batch"
<1>1. step \in [Branches -> BranchSteps] /\ readers \in [Branches -> 0 .. 1]
      /\ "batch" \in Branches /\ WritesAlone /\ AtMostOne(writer)
  BY StepsAre DEF ControlInv, ControlTyped
<1> USE DEF Unlocked, From, Polled, StepTo
<1>2. CASE From(b, "start") /\ Unlocked
           /\ \/ StepTo(b, "done") /\ UNCHANGED cfglock
              \/ ReadConfig(b) /\ StepTo(b, "clamp")
  BY <1>1, <1>2, PlainPlaces DEF ReadConfig, cfglock
<1>3. CASE /\ From(b, "clamp") /\ Unlocked /\ MayRead(b)
           /\ readers' = [readers EXCEPT ![b] = 1] /\ UNCHANGED <<writer, waiting>>
           /\ StepTo(b, "clampAgain")
  BY <1>1, <1>3 DEF AtTheirPlaces, MayRead
<1>4. CASE /\ From(b, "clampAgain") /\ Unlocked /\ MayRead(b)
           /\ readers' = [readers EXCEPT ![b] = 0] /\ UNCHANGED <<writer, waiting>>
           /\ StepTo(b, "final")
  BY <1>1, <1>4 DEF AtTheirPlaces, MayRead
<1>5. CASE From(b, "final") /\ Unlocked /\ ReadConfig(b)
           /\ (StepTo(b, "write") \/ StepTo(b, "metric"))
  BY <1>1, <1>5, PlainPlaces DEF ReadConfig, cfglock
<1>6. CASE From(b, "write") /\ Unlocked
           /\ \/ WriteConfig(b) /\ StepTo(b, "record")
              \/ QueueWriter(b) /\ UNCHANGED step
  <2>1. CASE WriteConfig(b) /\ StepTo(b, "record")
    BY <1>1, <1>6, <2>1 DEF AtTheirPlaces, WriteConfig, MayWrite
  <2>2. CASE QueueWriter(b) /\ UNCHANGED step
    BY <1>1, <1>6, <2>2 DEF AtTheirPlaces, QueueWriter
  <2> QED BY <1>6, <2>1, <2>2
<1>7. CASE /\ From(b, "record") /\ Unlocked
           /\ writer' = {} /\ UNCHANGED waiting /\ readers' = [readers EXCEPT ![b] = 0]
           /\ StepTo(b, "metric")
  BY <1>1, <1>7 DEF AtTheirPlaces
<1>8. CASE LastMetric(b)
  BY <1>1, <1>8, MetricPlaces
<1> QED BY <1>2, <1>3, <1>4, <1>5, <1>6, <1>7, <1>8 DEF BatchStep

LEMMA PlacesStep == ControlInv /\ AtTheirPlaces /\ [CCNext]_ccvars => AtTheirPlaces'
<1> SUFFICES ASSUME ControlInv, AtTheirPlaces, [CCNext]_ccvars PROVE AtTheirPlaces'
  OBVIOUS
<1>0. step \in [Branches -> BranchSteps] /\ readers \in [Branches -> 0 .. 1]
      /\ AtMostOne(writer)
  BY DEF ControlInv, ControlTyped
<1>1. CASE StartTurn \/ FinishTurn \/ StopControl \/ UNCHANGED ccvars
  BY <1>1 DEF StartTurn, FinishTurn, StopControl, ccvars, cfglock, AtTheirPlaces
<1>2. CASE CollectState
  <2>1. \A b \in Branches : step[b] = "done" /\ step'[b] = "start"
    BY <1>2 DEF CollectState, AtTheirPlaces
  <2>2. turn' = "join" /\ UNCHANGED <<readers, writer, waiting>>
    BY <1>2 DEF CollectState, cfglock
  <2> QED BY <2>1, <2>2, StepsAre DEF AtTheirPlaces
<1>3. CASE BatchStep
  BY <1>3, BatchPlaces
<1>4. CASE WorkersStep
  <2>1. CASE LastMetric("workers")
    BY <2>1, MetricPlaces, StepsAre
  <2>2. CASE ~LastMetric("workers")
    BY <1>4, <2>2, PlainPlaces, StepsAre
       DEF WorkersStep, Unlocked, From, Polled, StepTo, ReadConfig, cfglock
  <2> QED BY <2>1, <2>2
<1>5. CASE QosStep \/ QosHangs
  <2>1. CASE LastMetric("qos")
    BY <2>1, MetricPlaces, StepsAre
  <2>2. CASE ~LastMetric("qos")
    BY <1>5, <2>2, PlainPlaces, StepsAre
       DEF QosStep, QosHangs, Unlocked, From, Polled, StepTo, cfglock
  <2> QED BY <2>1, <2>2
<1>6. CASE BuffersStep
  <2>1. /\ turn = "join" /\ step["buffers"] \in {"start", "metric"}
        /\ \E s \in {"metric", "done"} : step' = [step EXCEPT !["buffers"] = s]
        /\ UNCHANGED <<turn, readers, writer, waiting>>
    BY <1>6, StepsAre DEF BuffersStep, Unlocked, From, Polled, StepTo, cfglock
  <2> QED BY <1>0, <2>1, StepsAre DEF AtTheirPlaces
<1>7. CASE BreakersStep \/ BreakersHang
  <2>1. /\ turn = "join" /\ step["breakers"] \in {"start", "metric", "detect"}
        /\ UNCHANGED <<turn, readers, writer, waiting>>
        /\ step' = step \/ \E s \in {"start", "metric", "detect", "hung", "done"} :
                              step' = [step EXCEPT !["breakers"] = s]
    BY <1>7 DEF BreakersStep, BreakersHang, TakeEntry, Unlocked, From, Polled, StepTo, cfglock
  <2>2. CASE step' = step
    BY <2>1, <2>2 DEF AtTheirPlaces
  <2> QED BY <2>1, <2>2, PlainPlaces, StepsAre
<1>8. CASE ReaderWriterStep
  <2> DEFINE b == "readerWriter"
  <2> USE DEF From, Polled, StepTo
  <2>1. CASE From(b, "start") /\ Unlocked
             /\ \/ WriteConfig(b) /\ StepTo(b, "metric")
                \/ QueueWriter(b) /\ UNCHANGED step
    <3>1. CASE WriteConfig(b) /\ StepTo(b, "metric")
      BY <1>0, <2>1, <3>1, StepsAre DEF AtTheirPlaces, Unlocked, WriteConfig, MayWrite
    <3>2. CASE QueueWriter(b) /\ UNCHANGED step
      BY <1>0, <2>1, <3>2, StepsAre DEF AtTheirPlaces, Unlocked, QueueWriter
    <3> QED BY <2>1, <3>1, <3>2
  <2>2. CASE From(b, "metric") /\ TakeEntry(b, "detect")
             /\ UNCHANGED <<turn, running, cfglock, unchecked>>
    BY <1>0, <2>2, StepsAre DEF AtTheirPlaces, TakeEntry, cfglock
  <2>3. CASE From(b, "detect") /\ DropEntry(b) /\ writer' = {} /\ StepTo(b, "done")
             /\ UNCHANGED <<turn, running, readers, waiting, unchecked>>
    <3>1. writer = {"readerWriter"} \/ writer = {} \/ writer = {"batch"}
      BY <1>0 DEF AtTheirPlaces, AtMostOne
    <3> QED BY <1>0, <2>3, <3>1, StepsAre DEF AtTheirPlaces
  <2> QED BY <1>8, <2>1, <2>2, <2>3 DEF ReaderWriterStep
<1>9. CASE CryptoStep
  <2>1. CASE LastMetric("crypto")
    BY <2>1, MetricPlaces, StepsAre
  <2>2. CASE ~LastMetric("crypto")
    BY <1>9, <2>2, PlainPlaces, StepsAre
       DEF CryptoStep, Unlocked, From, Polled, StepTo, cfglock
  <2> QED BY <2>1, <2>2
<1> QED BY <1>1, <1>2, <1>3, <1>4, <1>5, <1>6, <1>7, <1>8, <1>9
        DEF CCNext, LoopStep, Optimization

\* What one optimization does at a time: it is polled at a step of its own, meets an entry
\* that is taken before its last steps, and no writer leaves the line while one reads.
Polls(b) ==
    /\ turn = "join" /\ ~frozen /\ UNCHANGED turn
    /\ step[b] \notin {"hung", "done"}
    /\ \A c \in Branches \ {b} : step'[c] = step[c]
    /\ frozen' => step' = step /\ step[b] = "metric"
    /\ b = "batch" /\ step[b] = "clampAgain" => MayRead(b)
    /\ waiting \subseteq waiting' \/ \A c \in Branches : readers[c] = 0

LEMMA MetricPolls ==
    ASSUME ControlInv, NEW b \in Branches,
           \/ From(b, "metric") /\ TakeEntry(b, "detect")
           \/ From(b, "detect") /\ DropEntry(b) /\ \E s : StepTo(b, s),
           turn' = turn, waiting' = waiting
    PROVE  Polls(b)
<1>1. step \in [Branches -> BranchSteps]
  BY DEF ControlInv, ControlTyped
<1>2. turn = "join" /\ ~frozen /\ step[b] \in {"metric", "detect"}
  BY DEF From, Polled
<1>3. step' = step \/ \E s : step' = [step EXCEPT ![b] = s]
  BY DEF TakeEntry, StepTo
<1>4. frozen' => step' = step /\ step[b] = "metric"
  BY <1>2 DEF TakeEntry, DropEntry, From
<1> QED BY <1>1, <1>2, <1>3, <1>4 DEF Polls

LEMMA PlainPolls ==
    ASSUME ControlInv, NEW b \in Branches, turn = "join", ~frozen, Unlocked,
           step[b] \notin {"hung", "done"},
           step' = step \/ \E s : StepTo(b, s),
           b = "batch" /\ step[b] = "clampAgain" => MayRead(b),
           waiting \subseteq waiting' \/ WriteConfig(b)
    PROVE  Polls(b)
<1>1. step \in [Branches -> BranchSteps]
  BY DEF ControlInv, ControlTyped
<1>2. WriteConfig(b) => \A c \in Branches : readers[c] = 0
  BY DEF WriteConfig, MayWrite
<1>3. \A c \in Branches \ {b} : step'[c] = step[c]
  BY <1>1 DEF StepTo
<1>4. turn' = turn /\ frozen' = frozen
  BY DEF Unlocked, metric
<1> QED BY <1>2, <1>3, <1>4 DEF Polls

LEMMA SomeonePolls ==
    ASSUME ControlInv, Optimization \/ QosHangs \/ BreakersHang
    PROVE  \E b \in Branches : Polls(b)
<1>0. /\ "batch" \in Branches /\ "workers" \in Branches /\ "qos" \in Branches
      /\ "buffers" \in Branches /\ "breakers" \in Branches /\ "readerWriter" \in Branches
      /\ "crypto" \in Branches
  BY StepsAre
<1>1. ASSUME NEW b \in Branches, LastMetric(b) PROVE Polls(b)
  <2>1. /\ \/ From(b, "metric") /\ TakeEntry(b, "detect")
           \/ From(b, "detect") /\ DropEntry(b) /\ \E s : StepTo(b, s)
        /\ turn' = turn /\ waiting' = waiting
    BY <1>1 DEF LastMetric, cfglock
  <2> QED BY <2>1, MetricPolls
<1>2. CASE BatchStep /\ ~LastMetric("batch")
  <2>1. turn = "join" /\ ~frozen /\ Unlocked /\ step["batch"] \notin {"hung", "done"}
    BY <1>2 DEF BatchStep, From, Polled
  <2>2. step' = step \/ \E s : StepTo("batch", s)
    BY <1>2 DEF BatchStep
  <2>3. step["batch"] = "clampAgain" => MayRead("batch")
    BY <1>2 DEF BatchStep, From
  <2>4. waiting \subseteq waiting' \/ WriteConfig("batch")
    BY <1>2 DEF BatchStep, ReadConfig, QueueWriter, cfglock
  <2> QED BY <1>0, <2>1, <2>2, <2>3, <2>4, PlainPolls
<1>3. CASE WorkersStep /\ ~LastMetric("workers")
  <2>1. turn = "join" /\ ~frozen /\ Unlocked /\ step["workers"] \notin {"hung", "done"}
        /\ (\E s : StepTo("workers", s)) /\ waiting' = waiting
    BY <1>3 DEF WorkersStep, From, Polled, ReadConfig, cfglock
  <2> QED BY <1>0, <2>1, PlainPolls
<1>4. CASE (QosStep \/ QosHangs) /\ ~LastMetric("qos")
  <2>1. turn = "join" /\ ~frozen /\ Unlocked /\ step["qos"] \notin {"hung", "done"}
        /\ (\E s : StepTo("qos", s)) /\ waiting' = waiting
    BY <1>4 DEF QosStep, QosHangs, From, Polled, cfglock
  <2> QED BY <1>0, <2>1, PlainPolls
<1>5. CASE BuffersStep
  <2>1. turn = "join" /\ ~frozen /\ Unlocked /\ step["buffers"] \notin {"hung", "done"}
        /\ (\E s : StepTo("buffers", s)) /\ waiting' = waiting
    BY <1>5 DEF BuffersStep, From, Polled, cfglock
  <2> QED BY <1>0, <2>1, PlainPolls
<1>6. CASE BreakersStep \/ BreakersHang
  <2>1. CASE \/ /\ From("breakers", "metric") /\ TakeEntry("breakers", "detect")
                /\ UNCHANGED <<turn, running, cfglock, unchecked>>
             \/ /\ From("breakers", "detect") /\ DropEntry("breakers")
                /\ unchecked' = unchecked - 1
                /\ StepTo("breakers", IF unchecked = 1 THEN "done" ELSE "start")
                /\ UNCHANGED <<turn, running, cfglock>>
    <3>1. /\ \/ From("breakers", "metric") /\ TakeEntry("breakers", "detect")
             \/ From("breakers", "detect") /\ DropEntry("breakers") /\ \E s : StepTo("breakers", s)
          /\ turn' = turn /\ waiting' = waiting
      BY <2>1 DEF cfglock
    <3> QED BY <1>0, <3>1, MetricPolls
  <2>2. CASE From("breakers", "start") /\ Unlocked /\ UNCHANGED cfglock
             /\ (StepTo("breakers", "metric") \/ StepTo("breakers", "hung"))
    <3>1. turn = "join" /\ ~frozen /\ Unlocked /\ step["breakers"] \notin {"hung", "done"}
          /\ (\E s : StepTo("breakers", s)) /\ waiting' = waiting
      BY <2>2 DEF From, Polled, cfglock
    <3> QED BY <1>0, <3>1, PlainPolls
  <2> QED BY <1>0, <1>6, <2>1, <2>2 DEF BreakersStep, BreakersHang
<1>7. CASE ReaderWriterStep
  <2> DEFINE b == "readerWriter"
  <2>1. CASE From(b, "start") /\ Unlocked
             /\ \/ WriteConfig(b) /\ StepTo(b, "metric")
                \/ QueueWriter(b) /\ UNCHANGED step
    <3>1. turn = "join" /\ ~frozen /\ Unlocked /\ step[b] \notin {"hung", "done"}
          /\ (step' = step \/ \E s : StepTo(b, s)) /\ (waiting \subseteq waiting' \/ WriteConfig(b))
      BY <2>1 DEF From, Polled, QueueWriter
    <3> QED BY <1>0, <3>1, PlainPolls
  <2>2. CASE \/ From(b, "metric") /\ TakeEntry(b, "detect")
                /\ UNCHANGED <<turn, running, cfglock, unchecked>>
             \/ From(b, "detect") /\ DropEntry(b) /\ writer' = {} /\ StepTo(b, "done")
                /\ UNCHANGED <<turn, running, readers, waiting, unchecked>>
    <3>1. /\ \/ From(b, "metric") /\ TakeEntry(b, "detect")
             \/ From(b, "detect") /\ DropEntry(b) /\ \E s : StepTo(b, s)
          /\ turn' = turn /\ waiting' = waiting
      BY <2>2 DEF cfglock
    <3> QED BY <1>0, <3>1, MetricPolls
  <2> QED BY <1>0, <1>7, <2>1, <2>2 DEF ReaderWriterStep
<1>8. CASE CryptoStep /\ ~LastMetric("crypto")
  <2>1. turn = "join" /\ ~frozen /\ Unlocked /\ step["crypto"] \notin {"hung", "done"}
        /\ (\E s : StepTo("crypto", s)) /\ waiting' = waiting
    BY <1>8 DEF CryptoStep, From, Polled, cfglock
  <2> QED BY <1>0, <2>1, PlainPolls
<1> QED BY <1>0, <1>1, <1>2, <1>3, <1>4, <1>5, <1>6, <1>7, <1>8 DEF Optimization

\* A thread that waits for an entry does so in a turn, in an optimization at a metric.
FrozenInTurn == frozen => turn = "join" /\ \E b \in Branches : step[b] = "metric"

\* A turn that does not end stays where it is.
StuckStays == Stuck => Stuck' /\ UNCHANGED turn

LEMMA StuckStep ==
    ControlInv /\ AtTheirPlaces /\ FrozenInTurn /\ [CCNext]_ccvars => FrozenInTurn' /\ StuckStays
<1> SUFFICES ASSUME ControlInv, AtTheirPlaces, FrozenInTurn, [CCNext]_ccvars
             PROVE  FrozenInTurn' /\ StuckStays
  OBVIOUS
<1>0. /\ "batch" \in Branches /\ "qos" \in Branches /\ "breakers" \in Branches
      /\ waiting \subseteq Branches
  BY StepsAre DEF ControlInv, ControlTyped
<1>1. CASE StopControl \/ UNCHANGED ccvars
  BY <1>1 DEF StopControl, ccvars, cfglock, metric, FrozenInTurn, StuckStays, Stuck
<1>2. CASE StartTurn \/ CollectState \/ FinishTurn
  <2>1. \A b \in Branches : step[b] = "done"
    BY <1>2 DEF StartTurn, CollectState, FinishTurn, AtTheirPlaces
  <2>2. ~Stuck /\ ~frozen
    BY <1>0, <2>1 DEF Stuck, FrozenInTurn
  <2>3. ~frozen'
    BY <1>2, <2>2 DEF StartTurn, CollectState, FinishTurn, metric
  <2> QED BY <2>2, <2>3 DEF FrozenInTurn, StuckStays
<1>3. ASSUME NEW b \in Branches, Polls(b) PROVE FrozenInTurn' /\ StuckStays
  <2>1. FrozenInTurn'
    BY <1>3 DEF Polls, FrozenInTurn
  <2>2. ASSUME NEW c \in {"qos", "breakers"}, step[c] = "hung" PROVE step'[c] = "hung"
    BY <1>0, <1>3, <2>2 DEF Polls
  <2>3. ASSUME step["batch"] = "clampAgain", waiting # {}
        PROVE  step'["batch"] = "clampAgain" /\ waiting' # {}
    <3>1. b # "batch"
      BY <1>3, <2>3 DEF Polls, MayRead
    <3>2. readers["batch"] # 0
      BY <2>3 DEF AtTheirPlaces
    <3> QED BY <1>0, <1>3, <2>3, <3>1, <3>2 DEF Polls
  <2> QED BY <1>3, <2>1, <2>2, <2>3 DEF StuckStays, Stuck, Polls
<1>4. CASE Optimization \/ QosHangs \/ BreakersHang
  BY <1>3, <1>4, SomeonePolls
<1> QED BY <1>1, <1>2, <1>4 DEF CCNext, LoopStep

LEMMA PlacesStart == CCInit => AtTheirPlaces /\ FrozenInTurn
  BY StepsAre DEF CCInit, AtTheirPlaces, FrozenInTurn

\* A turn of the control loop that meets one of the four waits never ends: adapt_quotas, an
\* open breaker, a second guard behind a writer and a metric's entry hold it for ever, and
\* stopping the controller does not help.
THEOREM StuckForEver == CCFairSpec => [][StuckStays]_ccvars
  BY ControlStart, ControlStep, PlacesStart, PlacesStep, StuckStep, PTL DEF CCFairSpec

\* What the next step of an optimization, and of the loop, waits for.
BranchMayGo(b) ==
    /\ turn = "join" /\ ~frozen
    /\ \/ step[b] \in {"adapting", "record", "metric", "detect"}
       \/ step[b] = "start" /\ (b = "readerWriter" => MayWrite(b) \/ b \notin waiting)
       \/ step[b] \in {"clamp", "clampAgain", "final"} /\ MayRead(b)
       \/ step[b] = "write" /\ (MayWrite(b) \/ b \notin waiting)
TurnMayGo ==
    \/ turn \in {"tick", "collect"}
    \/ turn = "join" /\ \A b \in Branches : step[b] = "done"
    \/ \E b \in Branches : BranchMayGo(b)

\* The loop that is neither stuck nor at its end may go on.
OnlyStuckStops == Stuck \/ turn = "ended" \/ TurnMayGo

\* Without the four waits only readers wait, for a writer, and the two writers, for each
\* other or for the one optimization that keeps a guard, and each of those goes on.
LEMMA SomeBranchGoes ==
    ASSUME ControlInv, AtTheirPlaces
    PROVE  OnlyStuckStops
<1> SUFFICES ASSUME ~Stuck, turn = "join", \A b \in Branches : ~BranchMayGo(b)
             PROVE  \A b \in Branches : step[b] = "done"
  BY DEF OnlyStuckStops, TurnMayGo, ControlInv, ControlTyped
<1>0. /\ "batch" \in Branches /\ "qos" \in Branches /\ "breakers" \in Branches
      /\ "readerWriter" \in Branches
      /\ step \in [Branches -> BranchSteps] /\ readers \in [Branches -> 0 .. 1]
  BY StepsAre DEF ControlInv, ControlTyped
<1>1. ~frozen /\ step["qos"] # "hung" /\ step["breakers"] # "hung"
  BY DEF Stuck
<1>2. \A b \in Branches :
         /\ step[b] \notin {"adapting", "record", "metric", "detect"}
         /\ step[b] = "start" => b = "readerWriter" /\ ~MayWrite(b) /\ b \in waiting
         /\ step[b] \in {"clamp", "clampAgain", "final"} => ~MayRead(b)
         /\ step[b] = "write" => ~MayWrite(b) /\ b \in waiting
  BY <1>1 DEF BranchMayGo
<1>3. writer = {}
  BY <1>0, <1>2 DEF AtTheirPlaces
<1>4. step["batch"] # "clampAgain"
  BY <1>0, <1>2, <1>3 DEF Stuck, MayRead
<1>5. \A b \in Branches : readers[b] = 0
  BY <1>0, <1>4 DEF AtTheirPlaces
<1>6. \A b \in Branches : MayWrite(b)
  BY <1>3, <1>5 DEF MayWrite
<1>7. step["readerWriter"] # "start" /\ step["batch"] # "write" /\ waiting = {}
  BY <1>0, <1>2, <1>6 DEF AtTheirPlaces
<1>8. step["batch"] \notin {"clamp", "final"}
  BY <1>0, <1>2, <1>3, <1>7 DEF MayRead
<1>9. step["batch"] = "done"
  BY <1>0, <1>2, <1>4, <1>7, <1>8 DEF AtTheirPlaces, BranchSteps
<1>10. step["qos"] = "done" /\ step["breakers"] = "done"
  BY <1>0, <1>1, <1>2 DEF AtTheirPlaces
<1> QED BY <1>2, <1>7, <1>9, <1>10 DEF AtTheirPlaces

\* And there is no fifth: unless the loop is stuck in one of the four, or ended, it or one of
\* its optimizations may go on, in whatever order they are polled.
THEOREM TurnsMayGoOn == CCFairSpec => []OnlyStuckStops
  BY ControlStart, ControlStep, PlacesStart, PlacesStep, SomeBranchGoes, PTL DEF CCFairSpec

-----------------------------------------------------------------------------

(***************************************************************************)
(* The congestion controller: no address is banned that ban_ip has not     *)
(* banned before, for any number of calls, any weights of the offences and *)
(* any threshold of the automatic ban from 80 on.                          *)
(***************************************************************************)
-----------------------------------------------------------------------------
(***************************************************************************)
(* The inductive invariant.                                                *)
(***************************************************************************)
GuardSteps ==
    {"idle", "config", "lookup", "fetch", "create", "score", "remake", "keep", "offense",
     "track", "count", "weigh", "autoban", "apply", "forget", "update", "save"}
CallStates == [job : Jobs \cup {"none"}, pc : GuardSteps, saw : Scores]

\* A score above 80 is that of an address that was banned.
HighScoreIsBan(s) == s.score > 80 => banned

\* Neither the record, nor the cache, nor what a call has seen of them, knows of a ban
\* that ban_ip has not made; a call that is about to ban by itself has seen such a score.
RecordOK ==
    /\ record \in Standings
    /\ ~record.there => record = NoRecord
    /\ record.black => banned
CacheOK == cached \in Scores /\ HighScoreIsBan(cached)
CallsOK ==
    /\ calls \in [Calls -> CallStates]
    /\ \A c \in Calls : HighScoreIsBan(calls[c].saw)
    /\ \A c \in Calls : calls[c].pc = "autoban" => banned

GUInv ==
    /\ banned \in BOOLEAN /\ tracked \in 0 .. BanOffenses /\ holder \in SUBSET Calls
    /\ RecordOK /\ CacheOK /\ CallsOK

-----------------------------------------------------------------------------
(***************************************************************************)
(* Lemmas on the operators.                                                *)
(***************************************************************************)
\* calculate_score: the cut at 80 bounds every score that offences alone can give.
LEMMA ScoreIsCut ==
    ASSUME NEW n \in 0 .. MaxOffenses, NEW age \in Ageing
    PROVE  Scored(n, age) \in 0 .. 80
<1> DEFINE m == IF LogScore[n] < 80 THEN LogScore[n] ELSE 80
<1>1. LogScore[n] \in Nat
  BY GuardAssumption
<1>2. m \in 0 .. 80
  BY <1>1
<1>3. age \in Int /\ 0 <= age /\ age <= 100
  <2>1. age \in 50 .. 100
    BY GuardAssumption
  <2> QED BY <2>1
<1> HIDE DEF m
<1>4. m * age \in Int /\ 0 <= m * age /\ m * age <= 8000
  <2>1. m \in Int /\ 0 <= m /\ m <= 80
    BY <1>2
  <2>2. ASSUME NEW x \in Int, NEW y \in Int, 0 <= x, x <= 80, 0 <= y, y <= 100
        PROVE  x * y \in Int /\ 0 <= x * y /\ x * y <= 8000
    BY <2>2
  <2> QED BY <1>3, <2>1, <2>2
<1> DEFINE x == m * age
<1>5. x \in Int /\ 0 <= x /\ x <= 8000
  BY <1>4
<1>6. Scored(n, age) = x \div 100
  BY DEF Scored, m
<1> HIDE DEF x
<1>7. x \div 100 \in 0 .. 80
  BY <1>5
<1> QED BY <1>6, <1>7

LEMMA Constants ==
    /\ NoRecord \in Standings /\ NewRecord \in Standings
    /\ NoScore \in Scores /\ Neutral \in Scores /\ Idle \in CallStates
<1>1. NoRecord \in Standings
  BY GuardAssumption DEF NoRecord, Standings
<1>2. NewRecord \in Standings
  <2>1. \A r \in Standings : [r EXCEPT !.there = TRUE] \in Standings
    BY DEF Standings
  <2> QED BY <1>1, <2>1 DEF NewRecord
<1>3. NoScore \in Scores /\ Neutral \in Scores
  <2>1. NoScore \in Scores
    BY DEF NoScore, Scores
  <2> QED BY <2>1 DEF Neutral, Scores
<1>4. Idle \in CallStates
  BY <1>3 DEF Idle, CallStates, GuardSteps
<1> QED BY <1>1, <1>2, <1>3, <1>4

LEMMA StandingsEqual ==
    ASSUME NEW r \in Standings, NEW s \in Standings,
           r.offenses = s.offenses, r.white = s.white, r.black = s.black, r.there = s.there
    PROVE  r = s
  BY DEF Standings

LEMMA GotoKeeps ==
    ASSUME CallsOK, NEW c \in Calls, NEW pc \in GuardSteps, Goto(c, pc),
           banned => banned', pc = "autoban" => banned'
    PROVE  CallsOK'
<1>1. calls[c] \in CallStates
  BY DEF CallsOK
<1>2. [calls[c] EXCEPT !.pc = pc] \in CallStates
  BY <1>1 DEF CallStates
<1>3. calls' = [calls EXCEPT ![c] = [calls[c] EXCEPT !.pc = pc]]
  BY DEF Goto
<1>4. calls' \in [Calls -> CallStates]
  BY <1>2, <1>3 DEF CallsOK
<1>5. ASSUME NEW d \in Calls
      PROVE  HighScoreIsBan(calls[d].saw)' /\ (calls'[d].pc = "autoban" => banned')
  <2>1. calls'[d].saw = calls[d].saw /\ calls'[d].pc = IF d = c THEN pc ELSE calls[d].pc
    BY <1>1, <1>3 DEF CallsOK, CallStates
  <2> QED BY <2>1 DEF CallsOK, HighScoreIsBan
<1> QED BY <1>4, <1>5 DEF CallsOK

LEMMA ReturnKeeps ==
    ASSUME CallsOK, NEW c \in Calls, Return(c), banned => banned'
    PROVE  CallsOK'
<1>1. calls' \in [Calls -> CallStates]
  BY Constants DEF CallsOK, Return
<1>2. Idle.saw.score = 0 /\ Idle.pc = "idle"
  BY DEF Idle, NoScore
<1>3. ASSUME NEW d \in Calls
      PROVE  HighScoreIsBan(calls[d].saw)' /\ (calls'[d].pc = "autoban" => banned')
  <2>1. calls'[d] = IF d = c THEN Idle ELSE calls[d]
    BY DEF CallsOK, Return
  <2> QED BY <1>2, <2>1 DEF CallsOK, HighScoreIsBan
<1> QED BY <1>1, <1>3 DEF CallsOK

LEMMA SeeKeeps ==
    ASSUME CallsOK, NEW c \in Calls, NEW saw \in Scores, NEW pc \in GuardSteps \ {"autoban"},
           See(c, saw, pc), banned => banned', saw.score > 80 => banned'
    PROVE  CallsOK'
<1>1. calls[c] \in CallStates
  BY DEF CallsOK
<1> DEFINE st == [calls[c] EXCEPT !.saw = saw, !.pc = pc]
<1>2. st \in CallStates /\ st.saw = saw /\ st.pc = pc
  BY <1>1 DEF CallStates
<1>3. calls' = [calls EXCEPT ![c] = st]
  BY DEF See
<1> HIDE DEF st
<1>4. calls' \in [Calls -> CallStates]
  BY <1>2, <1>3 DEF CallsOK
<1>5. ASSUME NEW d \in Calls
      PROVE  HighScoreIsBan(calls[d].saw)' /\ (calls'[d].pc = "autoban" => banned')
  <2>1. calls'[d] = IF d = c THEN st ELSE calls[d]
    BY <1>3 DEF CallsOK
  <2> QED BY <1>2, <2>1 DEF CallsOK, HighScoreIsBan
<1> QED BY <1>4, <1>5 DEF CallsOK

\* A packet's call returns with its score, an offence's goes on to weigh it.
LEMMA JudgeKeeps ==
    ASSUME CallsOK, NEW c \in Calls, NEW saw \in Scores, Judge(c, saw),
           banned => banned', saw.score > 80 => banned'
    PROVE  CallsOK'
<1>1. CASE Return(c)
  BY <1>1, ReturnKeeps
<1>2. CASE See(c, saw, "weigh")
  BY <1>2, SeeKeeps DEF GuardSteps
<1> QED BY <1>1, <1>2 DEF Judge

\* What a call makes of a record: 100 only for one that is on the blacklist.
LEMMA HaveKeeps ==
    ASSUME CallsOK, NEW c \in Calls, NEW r \in Standings, Have(c, r),
           banned => banned', r.black => banned'
    PROVE  CallsOK'
<1> DEFINE saw == [score |-> IF r.black /\ ~r.white THEN 100 ELSE 0,
                   white |-> r.white, black |-> r.black, fresh |-> TRUE]
<1>1. saw \in Scores /\ (saw.score > 80 => banned')
  BY DEF Scores, Standings
<1>2. \/ Return(c) \/ Goto(c, "apply") \/ See(c, saw, "keep") \/ See(c, saw, "score")
  BY DEF Have
<1> HIDE DEF saw
<1>3. CASE Return(c)
  BY <1>3, ReturnKeeps
<1>4. CASE Goto(c, "apply")
  BY <1>4, GotoKeeps DEF GuardSteps
<1>5. CASE See(c, saw, "keep") \/ See(c, saw, "score")
  BY <1>1, <1>5, SeeKeeps DEF GuardSteps
<1> QED BY <1>2, <1>3, <1>4, <1>5

-----------------------------------------------------------------------------
(***************************************************************************)
(* The invariant.                                                          *)
(***************************************************************************)
LEMMA BansStart == GUInit => GUInv
<1> SUFFICES ASSUME GUInit PROVE GUInv
  OBVIOUS
<1>1. RecordOK
  BY Constants DEF GUInit, RecordOK, NoRecord
<1>2. CacheOK
  BY Constants DEF GUInit, CacheOK, HighScoreIsBan, NoScore
<1>3. CallsOK
  <2>1. Idle.saw.score = 0 /\ Idle.pc = "idle"
    BY DEF Idle, NoScore
  <2> QED BY <2>1, Constants DEF GUInit, CallsOK, HighScoreIsBan
<1>4. 0 \in 0 .. BanOffenses
  BY GuardAssumption
<1> QED BY <1>1, <1>2, <1>3, <1>4 DEF GUInit, GUInv

\* A call begins with nothing seen.
LEMMA BeginKeeps ==
    ASSUME CallsOK, NEW c \in Calls, NEW job \in Jobs, Begin(c, job)
    PROVE  CallsOK'
<1> DEFINE st == [job |-> job, saw |-> NoScore, pc |->
            CASE job = "packet" -> "config"
              [] job \in {"opened", "allow", "disallow"} -> "fetch"
              [] OTHER -> job]
<1>1. st \in CallStates /\ st.saw.score = 0 /\ st.pc # "autoban"
  <2>1. st.pc \in GuardSteps \ {"autoban"}
    BY DEF Jobs, GuardSteps
  <2>2. NoScore \in Scores /\ NoScore.score = 0
    BY Constants DEF NoScore
  <2> QED BY <2>1, <2>2 DEF CallStates
<1>2. calls' = [calls EXCEPT ![c] = st] /\ banned' = banned
  BY DEF Begin
<1> HIDE DEF st
<1>3. calls' \in [Calls -> CallStates]
  BY <1>1, <1>2 DEF CallsOK
<1>4. ASSUME NEW d \in Calls
      PROVE  HighScoreIsBan(calls[d].saw)' /\ (calls'[d].pc = "autoban" => banned')
  <2>1. calls'[d] = IF d = c THEN st ELSE calls[d]
    BY <1>2 DEF CallsOK
  <2> QED BY <1>1, <1>2, <2>1 DEF CallsOK, HighScoreIsBan
<1> QED BY <1>3, <1>4 DEF CallsOK

\* calculate_reputation_score: above 80 only for a record that is on the blacklist.
LEMMA SeeScoreKeeps ==
    ASSUME GUInv, NEW c \in Calls, NEW r \in Standings, SeeScore(c, r),
           banned' = banned, r.black => banned
    PROVE  CallsOK'
<1> DEFINE saw == calls[c].saw
<1>1. saw \in Scores
  BY DEF GUInv, CallsOK, CallStates
<1>2. PICK age \in Ageing :
         See(c, [saw EXCEPT !.score =
                    CASE r.white -> 0
                      [] r.black /\ ~r.white -> 100
                      [] OTHER -> Scored(r.offenses, age)], "keep")
  BY DEF SeeScore
<1> DEFINE n == CASE r.white -> 0
                  [] r.black /\ ~r.white -> 100
                  [] OTHER -> Scored(r.offenses, age)
<1>3. n \in 0 .. 100 /\ (n > 80 => banned')
  <2>1. r.offenses \in 0 .. MaxOffenses /\ r.white \in BOOLEAN /\ r.black \in BOOLEAN
    BY DEF Standings
  <2>2. Scored(r.offenses, age) \in 0 .. 80
    BY <2>1, ScoreIsCut
  <2> QED BY <2>1, <2>2
<1>4. See(c, [saw EXCEPT !.score = n], "keep")
  BY <1>2
<1> HIDE DEF n
<1>5. [saw EXCEPT !.score = n] \in Scores /\ [saw EXCEPT !.score = n].score = n
  BY <1>1, <1>3 DEF Scores
<1> QED BY <1>3, <1>4, <1>5, SeeKeeps DEF GUInv, GuardSteps

\* The score of a record that is there, of one that is made again, or of none.
LEMMA ScoreKeeps ==
    ASSUME GUInv, NEW c \in Calls, Score(c) \/ Remake(c) \/ RemakeFails(c)
    PROVE  RecordOK' /\ CallsOK'
<1>1. CASE Score(c)
  <2>1. record \in Standings /\ (record.black => banned)
    BY DEF GUInv, RecordOK
  <2>2. CallsOK'
    BY <1>1, <2>1, SeeScoreKeeps, GotoKeeps DEF Score, GUInv, GuardSteps
  <2> QED BY <1>1, <2>2 DEF Score, standing, GUInv, RecordOK
<1>2. CASE Remake(c)
  <2>1. NewRecord \in Standings /\ ~NewRecord.black /\ NewRecord.there
    BY Constants DEF NewRecord, NoRecord
  <2>2. CallsOK'
    BY <1>2, <2>1, SeeScoreKeeps DEF Remake
  <2> QED BY <1>2, <2>1, <2>2 DEF Remake, RecordOK
<1>3. CASE RemakeFails(c)
  <2> DEFINE half == [calls[c].saw EXCEPT !.score = 50]
  <2>1. half \in Scores /\ ~(half.score > 80)
    BY DEF GUInv, CallsOK, CallStates, Scores
  <2>2. See(c, half, "keep")
    BY <1>3 DEF RemakeFails
  <2> HIDE DEF half
  <2>3. CallsOK'
    BY <1>3, <2>1, <2>2, SeeKeeps DEF RemakeFails, GUInv, GuardSteps
  <2> QED BY <1>3, <2>3 DEF RemakeFails, standing, GUInv, RecordOK
<1> QED BY <1>1, <1>2, <1>3

LEMMA CallStepKeeps ==
    ASSUME GUInv, NEW c \in Calls, GUStep(c)
    PROVE  RecordOK' /\ CacheOK' /\ CallsOK' /\ banned' = banned
<1> DEFINE saw == calls[c].saw
<1>0. saw \in Scores /\ (saw.score > 80 => banned) /\ banned \in BOOLEAN
  BY DEF GUInv, CallsOK, CallStates, HighScoreIsBan
<1> USE DEF At, standing
<1>1. CASE Validated(c)
  <2>1. CallsOK'
    BY <1>1, GotoKeeps, ReturnKeeps DEF Validated, GUInv, GuardSteps
  <2> QED BY <1>1, <2>1 DEF Validated, GUInv, RecordOK, CacheOK, HighScoreIsBan
<1>2. CASE Lookup(c)
  <2>1. CallsOK'
    <3>1. CASE cached.fresh
      BY <1>2, <3>1, JudgeKeeps DEF Lookup, GUInv, CacheOK, HighScoreIsBan
    <3>2. CASE ~cached.fresh
      BY <1>2, <3>2, GotoKeeps DEF Lookup, GUInv, GuardSteps
    <3> QED BY <3>1, <3>2
  <2> QED BY <1>2, <2>1 DEF Lookup, GUInv, RecordOK, CacheOK, HighScoreIsBan
<1>3. CASE Fetch(c)
  <2>1. CallsOK'
    BY <1>3, HaveKeeps, GotoKeeps DEF Fetch, GUInv, RecordOK, GuardSteps
  <2> QED BY <1>3, <2>1 DEF Fetch, GUInv, RecordOK, CacheOK, HighScoreIsBan
<1>4. CASE Create(c)
  <2>1. NewRecord \in Standings /\ ~NewRecord.black /\ NewRecord.there
    BY Constants DEF NewRecord, NoRecord
  <2>2. CallsOK'
    BY <1>4, <2>1, HaveKeeps DEF Create, GUInv
  <2> QED BY <1>4, <2>1, <2>2 DEF Create, GUInv, RecordOK, CacheOK, HighScoreIsBan
<1>5. CASE CreateFails(c)
  <2>1. Neutral \in Scores /\ ~(Neutral.score > 80)
    BY Constants DEF Neutral, NoScore
  <2>2. Return(c) \/ Goto(c, "forget") \/ Judge(c, Neutral)
    BY <1>5 DEF CreateFails
  <2>3. banned' = banned
    BY <1>5 DEF CreateFails
  <2>4. CallsOK'
    BY <2>1, <2>2, <2>3, ReturnKeeps, GotoKeeps, JudgeKeeps DEF GUInv, GuardSteps
  <2> QED BY <1>5, <2>4 DEF CreateFails, GUInv, RecordOK, CacheOK, HighScoreIsBan
<1>6. CASE Score(c) \/ Remake(c) \/ RemakeFails(c)
  BY <1>6, ScoreKeeps DEF Score, Remake, RemakeFails, GUInv, CacheOK, HighScoreIsBan
<1>7. CASE Keep(c)
  <2>1. CallsOK'
    BY <1>0, <1>7, JudgeKeeps DEF Keep, GUInv
  <2> QED BY <1>0, <1>7, <2>1 DEF Keep, GUInv, RecordOK, CacheOK, HighScoreIsBan
<1>8. CASE Report(c)
  <2>1. NoScore \in Scores /\ ~(NoScore.score > 80)
    BY Constants DEF NoScore
  <2>2. CallsOK'
    BY <1>8, GotoKeeps DEF Report, GUInv, GuardSteps
  <2> QED BY <1>8, <2>1, <2>2 DEF Report, GUInv, RecordOK, CacheOK, HighScoreIsBan
<1>9. CASE Track(c)
  <2>1. CallsOK'
    BY <1>9, GotoKeeps DEF Track, GUInv, GuardSteps
  <2> QED BY <1>9, <2>1 DEF Track, GUInv, RecordOK, CacheOK, HighScoreIsBan
<1>10. CASE TrackFails(c)
  <2>1. CallsOK'
    BY <1>10, ReturnKeeps DEF TrackFails, GUInv
  <2> QED BY <1>10, <2>1 DEF TrackFails, GUInv, RecordOK, CacheOK, HighScoreIsBan
<1>11. CASE Count(c)
  <2>1. CallsOK'
    BY <1>11, GotoKeeps, ReturnKeeps DEF Count, GUInv, GuardSteps
  <2>2. RecordOK'
    BY <1>11, GuardAssumption DEF Count, GUInv, RecordOK, Standings
  <2> QED BY <1>11, <2>1, <2>2 DEF Count, GUInv, CacheOK, HighScoreIsBan
<1>12. CASE Weigh(c)
  \* A score above the threshold is above 80.
  <2>1. ShouldBan(saw.score) => banned
    <3> HIDE DEF saw
    <3>1. saw.score \in Nat
      BY <1>0 DEF Scores
    <3>2. BanScore \in Nat /\ BanScore >= 80
      BY GuardAssumption
    <3> QED BY <1>0, <3>1, <3>2 DEF ShouldBan
  <2>2. CallsOK'
    BY <1>12, <2>1, GotoKeeps, ReturnKeeps DEF Weigh, GUInv, GuardSteps
  <2> QED BY <1>12, <2>2 DEF Weigh, GUInv, RecordOK, CacheOK, HighScoreIsBan
<1>13. CASE AutoBan(c)
  <2>1. banned
    BY <1>13 DEF AutoBan, GUInv, CallsOK
  <2>2. CallsOK'
    BY <1>13, ReturnKeeps DEF AutoBan, GUInv
  <2>3. RecordOK'
    BY <1>13, <2>1 DEF AutoBan, GUInv, RecordOK, Standings, Blacklisted
  <2> QED BY <1>13, <2>2, <2>3 DEF AutoBan, GUInv, CacheOK, HighScoreIsBan
<1>14. CASE Allow(c)
  <2>1. CallsOK'
    BY <1>14, GotoKeeps DEF Allow, GUInv, GuardSteps
  <2>2. RecordOK'
    BY <1>14 DEF Allow, GUInv, RecordOK, Standings
  <2> QED BY <1>14, <2>1, <2>2 DEF Allow, GUInv, CacheOK, HighScoreIsBan
<1>15. CASE Forget(c)
  <2>1. NoScore \in Scores /\ ~(NoScore.score > 80)
    BY Constants DEF NoScore
  <2>2. CallsOK'
    BY <1>15, ReturnKeeps DEF Forget, GUInv
  <2> QED BY <1>15, <2>1, <2>2 DEF Forget, GUInv, RecordOK, CacheOK, HighScoreIsBan
<1>16. CASE Update(c)
  <2>1. CallsOK'
    BY <1>16, GotoKeeps, ReturnKeeps DEF Update, GUInv, GuardSteps
  <2> QED BY <1>16, <2>1 DEF Update, GUInv, RecordOK, CacheOK, HighScoreIsBan
<1>17. CASE Save(c)
  <2>1. CallsOK'
    BY <1>17, ReturnKeeps DEF Save, GUInv
  <2> QED BY <1>17, <2>1 DEF Save, GUInv, RecordOK, CacheOK, HighScoreIsBan
<1> QED
  BY <1>1, <1>2, <1>3, <1>4, <1>5, <1>6, <1>7, <1>8, <1>9, <1>10, <1>11, <1>12, <1>13,
     <1>14, <1>15, <1>16, <1>17 DEF GUStep

\* The tracker's count and the configuration's lock.
LEMMA CountsKept ==
    ASSUME GUInv, [GUNext]_guvars
    PROVE  tracked' \in 0 .. BanOffenses /\ holder' \in SUBSET Calls
<1>1. ASSUME NEW c \in Calls, GUStep(c)
      PROVE  tracked' \in 0 .. BanOffenses /\ holder' \in SUBSET Calls
  BY <1>1, GuardAssumption
  DEF GUInv, GUStep, Validated, Lookup, Fetch, Create, CreateFails, Score, Remake,
      RemakeFails, Keep, Report, Track, TrackFails, Count, Weigh, AutoBan, Allow, Forget, Update, Save, standing
<1>2. ASSUME UNCHANGED <<holder, tracked>> \/ (holder' = holder /\ tracked' = 0)
      PROVE  tracked' \in 0 .. BanOffenses /\ holder' \in SUBSET Calls
  BY <1>2, GuardAssumption DEF GUInv
<1> QED
  BY <1>1, <1>2 DEF GUNext, guvars, standing, Begin, Ban, RemoveBan, Expire, Forgive, Cleanup

LEMMA BansStep == GUInv /\ [GUNext]_guvars => GUInv'
<1> SUFFICES ASSUME GUInv, [GUNext]_guvars PROVE GUInv'
  OBVIOUS
<1>0. tracked' \in 0 .. BanOffenses /\ holder' \in SUBSET Calls
  BY CountsKept
<1>1. ASSUME NEW c \in Calls, GUStep(c) PROVE GUInv'
  BY <1>0, <1>1, CallStepKeeps DEF GUInv
<1>2. ASSUME NEW c \in Calls, NEW job \in Jobs, Begin(c, job) PROVE GUInv'
  <2>1. CallsOK'
    BY <1>2, BeginKeeps DEF GUInv
  <2> QED BY <1>0, <1>2, <2>1
      DEF Begin, standing, GUInv, RecordOK, CacheOK, HighScoreIsBan
<1>3. CASE Ban
  <2>1. RecordOK' /\ banned' \in BOOLEAN
    BY <1>3 DEF Ban, GUInv, RecordOK, Standings, Blacklisted
  <2>2. CacheOK' /\ CallsOK'
    BY <1>3 DEF Ban, GUInv, CacheOK, CallsOK, HighScoreIsBan
  <2> QED BY <1>0, <2>1, <2>2 DEF GUInv
<1>4. CASE RemoveBan
  <2>1. RecordOK'
    <3>1. record' \in Standings /\ record'.black = FALSE
      BY <1>4 DEF RemoveBan, GUInv, RecordOK, Standings
    <3>2. /\ record'.offenses = record.offenses /\ record'.white = record.white
          /\ record'.there = record.there
      BY <1>4 DEF RemoveBan, GUInv, RecordOK, Standings
    <3>3. record \in Standings
      BY DEF GUInv, RecordOK
    <3>4. ASSUME record = NoRecord PROVE record' = NoRecord
      <4>1. record.black = FALSE
        BY <3>4 DEF NoRecord
      <4>2. record' = record
        BY <3>1, <3>2, <3>3, <4>1, StandingsEqual
      <4> QED BY <3>4, <4>2
    <3> QED BY <3>1, <3>2, <3>4 DEF GUInv, RecordOK
  <2> QED BY <1>0, <1>4, <2>1 DEF RemoveBan, GUInv, CacheOK, CallsOK, HighScoreIsBan
<1>5. CASE Expire
  <2>1. CacheOK'
    BY <1>5, Constants DEF Expire, GUInv, CacheOK, HighScoreIsBan, NoScore
  <2> QED BY <1>0, <1>5, <2>1 DEF Expire, GUInv, RecordOK, CallsOK, HighScoreIsBan
<1>6. CASE Forgive
  BY <1>0, <1>6 DEF Forgive, GUInv, RecordOK, CacheOK, CallsOK, HighScoreIsBan
<1>7. CASE Cleanup
  <2>1. RecordOK'
    BY <1>7, Constants DEF Cleanup, GUInv, RecordOK, NoRecord
  <2> QED BY <1>0, <1>7, <2>1 DEF Cleanup, GUInv, CacheOK, CallsOK, HighScoreIsBan
<1>8. CASE UNCHANGED guvars
  BY <1>8 DEF guvars, standing, GUInv, RecordOK, CacheOK, CallsOK, HighScoreIsBan
<1> QED BY <1>1, <1>2, <1>3, <1>4, <1>5, <1>6, <1>7, <1>8 DEF GUNext

LEMMA BansInvariant == GUSpec => []GUInv
  BY BansStart, BansStep, PTL DEF GUSpec

LEMMA BansAreTyped == GUInv => GUTypeOK
  BY DEF GUInv, RecordOK, CacheOK, CallsOK, CallStates, GUTypeOK

\* Every variable of the congestion controller has its type, for any calls and weights.
THEOREM GUTypeCorrect == GUSpec => []GUTypeOK
  BY BansInvariant, BansAreTyped, PTL

\* should_auto_blacklist bans no address that ban_ip has not banned before.
THEOREM BansAreManualAlways == GUSpec => []BansAreManual
<1>1. GUInv => BansAreManual
  BY DEF GUInv, RecordOK, BansAreManual
<1> QED BY BansInvariant, <1>1, PTL

-----------------------------------------------------------------------------

(***************************************************************************)
(* The parts side by side.                                                 *)
(***************************************************************************)
PartsInv ==
    StreamsInv /\ ReaderInv /\ PacketsInv /\ BatcherInv /\ BPTypeOK /\ ControlInv /\ GUInv

\* What each part keeps, they keep together, since a step is a step of one of them.
LEMMA PartsStart == PInit => PartsInv
  BY StreamsStart, ReaderStart, PacketsStart, BatcherStart, PoolStart, ControlStart, BansStart
     DEF PInit, PartsInv

LEMMA PartsStep == PartsInv /\ [PNext]_pvars => PartsInv'
<1> SUFFICES ASSUME PartsInv, [PNext]_pvars PROVE PartsInv'
  OBVIOUS
<1>1. /\ [WNext]_wvars /\ [RNext]_rvars /\ [PhNext]_phvars /\ [ABNext]_abvars
      /\ [BPNext]_bpvars /\ [CCNext]_ccvars /\ [GUNext]_guvars
  BY DEF PNext, Rest, pvars
<1>2. StreamsInv'
  BY <1>1, StreamsTyped, StreamsStep DEF PartsInv, StreamsInv
<1> QED BY <1>1, <1>2, ReaderKeeps, PacketsStep, BatcherStep, PoolTurn, ControlStep, BansStep
        DEF PartsInv

\* The types of the seven parts side by side, for any number of each thing they count.
THEOREM PartsTypeCorrect == PSpec => []PartsTypeOK
<1>1. PSpec => []PartsInv
  BY PartsStart, PartsStep, PTL DEF PSpec
<1>2. PartsInv => PartsTypeOK
  BY ReaderIsTyped, PacketsAreTyped, ControlIsTyped, BansAreTyped
     DEF PartsInv, StreamsInv, BatcherInv, PartsTypeOK
<1> QED BY <1>1, <1>2, PTL
===============================================================================
