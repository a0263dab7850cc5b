-------------------------- MODULE IntegrationProofs ---------------------------
(***************************************************************************)
(* What holds of the integrated batch system: its event pipeline for any   *)
(* frames, connections and size of the channels; its QoS manager for any   *)
(* number of callers, any capacities and any decisions of the adaptation;  *)
(* its worker pool for any limits and any command channel.                 *)
(***************************************************************************)
EXTENDS EventPipeline, QosManager, Scaling, FiniteSetTheorems, TLAPS

-----------------------------------------------------------------------------

(***************************************************************************)
(* The event pipeline: the channels keep within their size, and a frame is *)
(* handled once and its result reported once.                              *)
(***************************************************************************)
LEMMA NextCases ==
    ASSUME PNext
    PROVE  \/ \E f \in Frames : \/ ReadFrame(f) \/ Refused(f) \/ Submitted(f) \/ Work(f)
                                \/ Poll(f) \/ GiveUp(f) \/ NoteSteals(f) \/ SendProcessed(f)
                                \/ ProcessResult(f) \/ CountResult(f)
           \/ \E c \in Conns : ReaderEnds(c) \/ Announce(c)
           \/ ConverterReceive \/ ConverterSend
           \/ HandlerTake \/ CountReceived \/ ReportRefusal \/ LockConnections
           \/ CountOpened \/ RemoveConnection \/ LockStats \/ CreditConnection \/ CountError
           \/ UpdaterReads \/ UpdaterTakes \/ MonitorNotes \/ MonitorCounts
           \/ LowerFlag \/ ClearResults
BY DEF PNext, ReaderStep, ConverterStep, HandlerStep, TrackerStep, WatchStep, ShutdownStep

(***************************************************************************)
(* Sequences of events, and how often an event is in one.                  *)
(***************************************************************************)
LEMMA AppendEvent ==
    ASSUME NEW s \in Seq(Events), NEW e \in Events
    PROVE  /\ Append(s, e) \in Seq(Events) /\ Len(s) \in Nat
           /\ Len(Append(s, e)) = Len(s) + 1
           /\ \A i \in 1..Len(s) : Append(s, e)[i] = s[i]
           /\ Append(s, e)[Len(s) + 1] = e
OBVIOUS

LEMMA TailEvent ==
    ASSUME NEW s \in Seq(Events), s # <<>>
    PROVE  /\ Head(s) \in Events /\ Tail(s) \in Seq(Events)
           /\ Len(s) \in Nat \ {0} /\ Len(Tail(s)) = Len(s) - 1
           /\ s[1] = Head(s)
           /\ \A i \in 1..Len(Tail(s)) : Tail(s)[i] = s[i + 1]
OBVIOUS

LEMMA OneEvent ==
    ASSUME NEW e \in Events
    PROVE  <<e>> \in Seq(Events) /\ Len(<<e>>) = 1 /\ <<e>> = Append(<<>>, e) /\ Head(<<e>>) = e
OBVIOUS

LEMMA NoEvent == <<>> \in Seq(Events) /\ Len(<<>>) = 0
OBVIOUS

LEMMA PlacesFinite ==
    ASSUME NEW s \in Seq(Events), NEW x
    PROVE  /\ IsFiniteSet({i \in DOMAIN s : s[i] = x})
           /\ CopiesIn(x, s) \in Nat
<1>1. IsFiniteSet(1..Len(s))
    <2>1. Len(s) \in Nat
        OBVIOUS
    <2> QED BY <2>1, FS_Interval
<1>2. {i \in DOMAIN s : s[i] = x} \subseteq 1..Len(s)
    OBVIOUS
<1>3. IsFiniteSet({i \in DOMAIN s : s[i] = x})
    BY <1>1, <1>2, FS_Subset
<1> QED BY <1>3, FS_CardinalityType DEF CopiesIn

LEMMA CopiesInNone == \A x : CopiesIn(x, <<>>) = 0
<1>1. \A x : {i \in DOMAIN <<>> : <<>>[i] = x} = {}
    OBVIOUS
<1> QED BY <1>1, FS_EmptySet DEF CopiesIn

LEMMA CopiesInAppend ==
    ASSUME NEW s \in Seq(Events), NEW e \in Events, NEW x
    PROVE  CopiesIn(x, Append(s, e)) = CopiesIn(x, s) + (IF x = e THEN 1 ELSE 0)
<1> DEFINE P(t) == {i \in DOMAIN t : t[i] = x}
<1>1. /\ Len(s) \in Nat /\ DOMAIN s = 1..Len(s) /\ DOMAIN Append(s, e) = 1..(Len(s) + 1)
      /\ \A i \in 1..Len(s) : Append(s, e)[i] = s[i]
      /\ Append(s, e)[Len(s) + 1] = e
    BY AppendEvent
<1>2. IsFiniteSet(P(s)) /\ Cardinality(P(s)) \in Nat
    BY PlacesFinite, FS_CardinalityType
<1>2a. /\ CopiesIn(x, s) = Cardinality(P(s))
       /\ CopiesIn(x, Append(s, e)) = Cardinality(P(Append(s, e)))
    BY DEF CopiesIn
<1>3. CASE x = e
    <2>1. P(Append(s, e)) = P(s) \cup {Len(s) + 1} /\ Len(s) + 1 \notin P(s)
        BY <1>1, <1>3
    <2>2. Cardinality(P(Append(s, e))) = Cardinality(P(s)) + 1
        BY <1>2, <2>1, FS_AddElement
    <2> HIDE DEF P
    <2> QED BY <1>2, <1>2a, <1>3, <2>2
<1>4. CASE x # e
    <2>1. P(Append(s, e)) = P(s)
        BY <1>1, <1>4
    <2> HIDE DEF P
    <2> QED BY <1>2, <1>2a, <1>4, <2>1
<1> QED BY <1>3, <1>4

LEMMA CopiesInTail ==
    ASSUME NEW s \in Seq(Events), s # <<>>, NEW x
    PROVE  CopiesIn(x, s) = CopiesIn(x, Tail(s)) + (IF x = Head(s) THEN 1 ELSE 0)
<1> DEFINE P(t) == {i \in DOMAIN t : t[i] = x}
           Later == {i \in P(s) : i # 1}
<1>1. /\ Len(s) \in Nat \ {0} /\ Len(Tail(s)) = Len(s) - 1 /\ s[1] = Head(s)
      /\ \A i \in 1..Len(Tail(s)) : Tail(s)[i] = s[i + 1]
      /\ DOMAIN s = 1..Len(s) /\ DOMAIN Tail(s) = 1..(Len(s) - 1)
      /\ Tail(s) \in Seq(Events)
    BY TailEvent
<1>2. IsFiniteSet(P(s)) /\ IsFiniteSet(P(Tail(s))) /\ Cardinality(P(s)) \in Nat
    BY <1>1, PlacesFinite, FS_CardinalityType
<1>2a. CopiesIn(x, s) = Cardinality(P(s)) /\ CopiesIn(x, Tail(s)) = Cardinality(P(Tail(s)))
    BY DEF CopiesIn
<1>3. Cardinality(Later) = Cardinality(P(Tail(s)))
    <2> DEFINE shift == [i \in P(Tail(s)) |-> i + 1]
    <2>1. shift \in Bijection(P(Tail(s)), Later)
        <3>1. \A i \in P(Tail(s)) : i + 1 \in Later
            BY <1>1
        <3>2. \A i, j \in P(Tail(s)) : shift[i] = shift[j] => i = j
            BY <1>1
        <3>3. \A j \in Later : j - 1 \in P(Tail(s)) /\ shift[j - 1] = j
            BY <1>1
        <3> HIDE DEF P, Later
        <3>4. shift \in [P(Tail(s)) -> Later]
            BY <3>1
        <3>5. \A j \in Later : \E i \in P(Tail(s)) : shift[i] = j
            BY <3>3
        <3> QED BY <3>2, <3>4, <3>5 DEF Bijection, Injection, Surjection, IsInjective
    <2>2. ExistsBijection(P(Tail(s)), Later)
        BY <2>1 DEF ExistsBijection
    <2> QED BY <1>2, <2>2, FS_Bijection
<1>4. CASE x = Head(s)
    <2>1. 1 \in P(s) /\ Later = P(s) \ {1}
        BY <1>1, <1>4
    <2>2. Cardinality(Later) = Cardinality(P(s)) - 1
        BY <1>2, <2>1, FS_RemoveElement
    <2> HIDE DEF P, Later
    <2> QED BY <1>2, <1>3, <1>2a, <1>4, <2>2
<1>5. CASE x # Head(s)
    <2>1. Later = P(s)
        BY <1>1, <1>5
    <2> HIDE DEF P, Later
    <2> QED BY <1>2, <1>3, <1>2a, <1>5, <2>1
<1> QED BY <1>4, <1>5

(***************************************************************************)
(* Types.                                                                  *)
(***************************************************************************)
IsChannel(s) == s \in Seq(Events) /\ Len(s) \in 0..ChannelSize

LEMMA ChannelGrows ==
    ASSUME NEW s, IsChannel(s), Room(s), NEW e \in Events
    PROVE  IsChannel(Append(s, e))
<1>1. s \in Seq(Events) /\ Len(s) \in 0..ChannelSize /\ Len(s) < ChannelSize
    BY DEF IsChannel, Room
<1>2. Append(s, e) \in Seq(Events) /\ Len(Append(s, e)) = Len(s) + 1
    BY <1>1, AppendEvent
<1> QED BY <1>1, <1>2, EventPipelineAssumption DEF IsChannel, EventPipelineAssumption

LEMMA ChannelShrinks ==
    ASSUME NEW s, IsChannel(s), s # <<>>
    PROVE  IsChannel(Tail(s)) /\ Head(s) \in Events
<1>1. s \in Seq(Events) /\ Len(s) \in 0..ChannelSize
    BY DEF IsChannel
<1>2. Head(s) \in Events /\ Tail(s) \in Seq(Events) /\ Len(Tail(s)) = Len(s) - 1
      /\ Len(s) \in Nat \ {0}
    BY <1>1, TailEvent
<1> QED BY <1>1, <1>2, EventPipelineAssumption DEF IsChannel, EventPipelineAssumption

LEMMA EmptyChannel == IsChannel(<<>>)
BY NoEvent, EventPipelineAssumption DEF IsChannel, EventPipelineAssumption

\* The parts of PTypeOK that one task changes together.
HandsOK == /\ converter \in {"receiving", "sending", "stopped"}
           /\ carried \in Seq(Events) /\ Len(carried) = IF converter = "sending" THEN 1 ELSE 0
HandlerOK == /\ handler \in HandlerSteps
             /\ handled \in Seq(Events) /\ Len(handled) = IF handler = "idle" THEN 0 ELSE 1
TrackersOK == /\ tracker \in [Frames -> TrackerSteps]
              /\ clone \in [Frames -> {"none", "ok", "error"}]
              /\ result \in [Frames -> {"none", "there", "gone"}]
WatchOK == /\ updater \in Keys \cup {"waiting", "ended"}
           /\ collision \in {"none", "avg_latency_ms", "avg_batch_size"}
           /\ monitor \in {"waiting", "counting", "ended"}
SourcesOK == unread \subseteq Frames /\ toOpen \subseteq Conns /\ toClose \subseteq Conns

LEMMA TypeParts ==
    PTypeOK <=> /\ SourcesOK /\ IsChannel(readerEvents) /\ IsChannel(systemEvents)
                /\ HandsOK /\ HandlerOK /\ TrackersOK /\ WatchOK
                /\ shutdown \in {"no", "flag", "cleared"}
BY DEF PTypeOK, SourcesOK, IsChannel, HandsOK, HandlerOK, TrackersOK, WatchOK

LEMMA TypePartsNext ==
    PTypeOK' <=> /\ SourcesOK' /\ IsChannel(readerEvents)' /\ IsChannel(systemEvents)'
                 /\ HandsOK' /\ HandlerOK' /\ TrackersOK' /\ WatchOK'
                 /\ shutdown' \in {"no", "flag", "cleared"}
BY DEF PTypeOK, SourcesOK, IsChannel, HandsOK, HandlerOK, TrackersOK, WatchOK

LEMMA TypeInit == PInit => PTypeOK
<1> SUFFICES ASSUME PInit PROVE PTypeOK
    OBVIOUS
<1>1. IsChannel(readerEvents) /\ IsChannel(systemEvents)
    BY EmptyChannel DEF PInit
<1>2. HandsOK /\ HandlerOK
    BY NoEvent DEF PInit, HandsOK, HandlerOK, HandlerSteps
<1>3. TrackersOK /\ WatchOK /\ SourcesOK
    BY DEF PInit, TrackersOK, TrackerSteps, WatchOK, SourcesOK
<1> QED BY <1>1, <1>2, <1>3, TypeParts DEF PInit

LEMMA EventKinds ==
    /\ \A f \in Frames : /\ <<"data", f>> \in Events /\ <<"processed", f>> \in Events
                         /\ <<"failed", f>> \in Events
    /\ \A c \in Conns : <<"opened", c>> \in Events /\ <<"closed", c>> \in Events
    /\ Error \in Events
BY DEF Events

LEMMA TypeReaders ==
    ASSUME PTypeOK,
           \/ \E f \in Frames : ReadFrame(f)
           \/ \E c \in Conns : ReaderEnds(c) \/ Announce(c)
    PROVE  PTypeOK'
<1> USE DEF channels, handling, tracking, watching
<1>1. SourcesOK'
    BY TypeParts DEF SourcesOK, ReadFrame, ReaderEnds, Announce
<1>2. IsChannel(readerEvents)'
    BY TypeParts, ChannelGrows, EventKinds DEF ReadFrame, ReaderEnds, Announce
<1>3. IsChannel(systemEvents)'
    BY TypeParts, ChannelGrows, EventKinds DEF ReadFrame, ReaderEnds, Announce
<1>4. HandsOK' /\ HandlerOK' /\ TrackersOK' /\ WatchOK' /\ shutdown' \in {"no", "flag", "cleared"}
    BY TypeParts DEF HandsOK, HandlerOK, TrackersOK, WatchOK, ReadFrame, ReaderEnds, Announce
<1> QED BY <1>1, <1>2, <1>3, <1>4, TypePartsNext

LEMMA TypeConverter ==
    ASSUME PTypeOK, ConverterReceive \/ ConverterSend
    PROVE  PTypeOK'
<1> USE DEF sources, handling, tracking, watching
<1>1. CASE ConverterReceive
    <2>1. Head(readerEvents) \in Events /\ IsChannel(readerEvents)'
        BY <1>1, TypeParts, ChannelShrinks DEF ConverterReceive
    <2>2. HandsOK'
        BY <1>1, <2>1, OneEvent DEF ConverterReceive, HandsOK
    <2>3. IsChannel(systemEvents)'
        BY <1>1, TypeParts DEF ConverterReceive
    <2> QED BY <1>1, <2>1, <2>2, <2>3, TypeParts, TypePartsNext
            DEF ConverterReceive, SourcesOK, HandlerOK, TrackersOK, WatchOK
<1>2. CASE ConverterSend
    <2>1. carried # <<>> /\ Head(carried) \in Events
        BY <1>2, TypeParts, TailEvent, NoEvent DEF ConverterSend, HandsOK
    <2>2. IsChannel(systemEvents)'
        BY <1>2, <2>1, TypeParts, ChannelGrows DEF ConverterSend
    <2>3. IsChannel(readerEvents)'
        BY <1>2, TypeParts, EmptyChannel DEF ConverterSend
    <2>4. HandsOK'
        BY <1>2, NoEvent DEF ConverterSend, HandsOK
    <2> QED BY <1>2, <2>2, <2>3, <2>4, TypeParts, TypePartsNext
            DEF ConverterSend, SourcesOK, HandlerOK, TrackersOK, WatchOK
<1> QED BY <1>1, <1>2

LEMMA TypeHandler ==
    ASSUME PTypeOK,
           \/ HandlerTake \/ CountReceived \/ ReportRefusal \/ LockConnections
           \/ CountOpened \/ RemoveConnection \/ LockStats \/ CreditConnection \/ CountError
           \/ \E f \in Frames : Refused(f) \/ Submitted(f)
    PROVE  PTypeOK'
<1> USE DEF sources, channels, tracking, watching, Goes, Done
<1>1. SourcesOK' /\ IsChannel(readerEvents)' /\ HandsOK' /\ WatchOK'
      /\ shutdown' \in {"no", "flag", "cleared"}
    BY TypeParts DEF SourcesOK, HandsOK, WatchOK, HandlerTake, CountReceived, ReportRefusal,
           LockConnections, CountOpened, RemoveConnection, LockStats, CreditConnection,
           CountError, Refused, Submitted
<1>2. IsChannel(systemEvents)'
    BY TypeParts, ChannelShrinks, ChannelGrows, EventKinds
       DEF HandlerTake, CountReceived, ReportRefusal, LockConnections, CountOpened,
           RemoveConnection, LockStats, CreditConnection, CountError, Refused, Submitted
<1>3. TrackersOK'
    BY TypeParts DEF TrackersOK, TrackerSteps, HandlerTake, CountReceived, ReportRefusal,
           LockConnections, CountOpened, RemoveConnection, LockStats, CreditConnection,
           CountError, Refused, Submitted
<1>4. HandlerOK'
    <2>1. CASE HandlerTake
        <3>1. Head(systemEvents) \in Events
            BY <2>1, TypeParts, ChannelShrinks DEF HandlerTake
        <3>2. Head(systemEvents)[1] \in {"data", "processed", "failed", "opened", "closed", "error"}
            BY <3>1 DEF Events, Error
        <3>3. CASE Head(systemEvents)[1] = "failed"
            BY <2>1, <3>3, NoEvent DEF HandlerTake, HandlerOK, HandlerSteps, FirstStep
        <3>4. CASE Head(systemEvents)[1] # "failed"
            <4>1. handler' \in HandlerSteps \ {"idle"} /\ handled' = <<Head(systemEvents)>>
                BY <2>1, <3>2, <3>4 DEF HandlerTake, HandlerSteps, FirstStep
            <4> QED BY <3>1, <4>1, OneEvent DEF HandlerOK
        <3> QED BY <3>3, <3>4
    <2>2. CASE ~HandlerTake
        <3>1. \/ handled' = <<>> /\ handler' = "idle"
              \/ handled' = handled /\ handler # "idle" /\ handler' \in HandlerSteps \ {"idle"}
            BY <2>2 DEF HandlerSteps, CountReceived, ReportRefusal, LockConnections,
               CountOpened, RemoveConnection, LockStats, CreditConnection, CountError,
               Refused, Submitted
        <3>2. CASE handled' = <<>> /\ handler' = "idle"
            <4>1. handled' \in Seq(Events) /\ Len(handled') = 0
                BY <3>2, NoEvent
            <4> QED BY <3>2, <4>1 DEF HandlerOK, HandlerSteps
        <3>3. CASE handled' = handled /\ handler # "idle" /\ handler' \in HandlerSteps \ {"idle"}
            BY <3>3, TypeParts DEF HandlerOK
        <3> QED BY <3>1, <3>2, <3>3
    <2> QED BY <2>1, <2>2
<1> QED BY <1>1, <1>2, <1>3, <1>4, TypePartsNext

LEMMA TypeTracker ==
    ASSUME PTypeOK, NEW f \in Frames,
           \/ Work(f) \/ Poll(f) \/ GiveUp(f) \/ NoteSteals(f) \/ SendProcessed(f)
           \/ ProcessResult(f) \/ CountResult(f)
    PROVE  PTypeOK'
<1> USE DEF sources, channels, handling, watching, Tracks
<1>1. SourcesOK' /\ IsChannel(readerEvents)' /\ HandsOK' /\ HandlerOK' /\ WatchOK'
      /\ shutdown' \in {"no", "flag", "cleared"}
    BY TypeParts DEF SourcesOK, HandsOK, HandlerOK, WatchOK, Work, Poll, GiveUp, NoteSteals,
           SendProcessed, ProcessResult, CountResult
<1>2. TrackersOK'
    BY TypeParts DEF TrackersOK, TrackerSteps, Work, Poll, GiveUp, NoteSteals, SendProcessed,
           ProcessResult, CountResult
<1>3. IsChannel(systemEvents)'
    BY TypeParts, ChannelGrows, EventKinds DEF Work, Poll, GiveUp, NoteSteals, SendProcessed,
           ProcessResult, CountResult
<1> QED BY <1>1, <1>2, <1>3, TypePartsNext

LEMMA TypeRest ==
    ASSUME PTypeOK,
           \/ UpdaterReads \/ UpdaterTakes \/ MonitorNotes \/ MonitorCounts
           \/ LowerFlag \/ ClearResults \/ UNCHANGED pvars
    PROVE  PTypeOK'
<1> USE DEF sources, channels, handling, tracking, watching
<1>1. SourcesOK' /\ IsChannel(readerEvents)' /\ IsChannel(systemEvents)' /\ HandsOK' /\ HandlerOK'
    BY TypeParts DEF SourcesOK, HandsOK, HandlerOK, UpdaterReads, UpdaterTakes, MonitorNotes,
           MonitorCounts, LowerFlag, ClearResults, pvars
<1>2. TrackersOK' /\ shutdown' \in {"no", "flag", "cleared"}
    BY TypeParts DEF TrackersOK, UpdaterReads, UpdaterTakes, MonitorNotes,
           MonitorCounts, LowerFlag, ClearResults, pvars
<1>3. WatchOK'
    BY TypeParts DEF WatchOK, Keys, NextTurn, UpdaterReads, UpdaterTakes, MonitorNotes,
           MonitorCounts, LowerFlag, ClearResults, pvars
<1> QED BY <1>1, <1>2, <1>3, TypePartsNext

LEMMA TypeStep == PTypeOK /\ [PNext]_pvars => PTypeOK'
BY NextCases, TypeReaders, TypeConverter, TypeHandler, TypeTracker, TypeRest

\* The channels keep within their size, the converter and the handler have at most one
\* event in their hands, and every task is at a step that it has.
THEOREM PTypeCorrect == PSpec => []PTypeOK
BY TypeInit, TypeStep, PTL DEF PSpec

(***************************************************************************)
(* A frame is handled once.                                                *)
(***************************************************************************)
After == {"processing", "counting", "ended"}

\* HandledOnce, and a frame that is to be read has no tracker yet.
Once == HandledOnce /\ \A f \in Frames : f \in unread => tracker[f] = "none"

Kinds == {"data", "processed", "failed"}

LEMMA CopiesInOne ==
    ASSUME NEW e \in Events, NEW x
    PROVE  CopiesIn(x, <<e>>) = IF x = e THEN 1 ELSE 0
<1>1. CopiesIn(x, Append(<<>>, e)) = CopiesIn(x, <<>>) + (IF x = e THEN 1 ELSE 0)
    BY NoEvent, CopiesInAppend
<1> QED BY <1>1, OneEvent, CopiesInNone

LEMMA CopiesNat ==
    ASSUME PTypeOK, NEW x
    PROVE  /\ CopiesIn(x, readerEvents) \in Nat /\ CopiesIn(x, carried) \in Nat
           /\ CopiesIn(x, systemEvents) \in Nat /\ CopiesIn(x, handled) \in Nat
           /\ Copies(x) \in Nat
<1>1. /\ readerEvents \in Seq(Events) /\ carried \in Seq(Events)
      /\ systemEvents \in Seq(Events) /\ handled \in Seq(Events)
    BY DEF PTypeOK
<1>2. /\ CopiesIn(x, readerEvents) \in Nat /\ CopiesIn(x, carried) \in Nat
      /\ CopiesIn(x, systemEvents) \in Nat /\ CopiesIn(x, handled) \in Nat
    BY <1>1, PlacesFinite
<1> QED BY <1>2 DEF Copies

LEMMA CopiesNatNext ==
    ASSUME PTypeOK', NEW x
    PROVE  Copies(x)' \in Nat
<1>1. /\ readerEvents' \in Seq(Events) /\ carried' \in Seq(Events)
      /\ systemEvents' \in Seq(Events) /\ handled' \in Seq(Events)
    BY DEF PTypeOK
<1>2. /\ CopiesIn(x, readerEvents') \in Nat /\ CopiesIn(x, carried') \in Nat
      /\ CopiesIn(x, systemEvents') \in Nat /\ CopiesIn(x, handled') \in Nat
    BY <1>1, PlacesFinite
<1> QED BY <1>2 DEF Copies, CopiesIn

\* What moves an event, or drops one, adds none of a frame.
LEMMA ConverterMoves ==
    ASSUME PTypeOK, ConverterReceive \/ ConverterSend, NEW x
    PROVE  Copies(x)' <= Copies(x)
<1> USE DEF handling
<1>0. /\ readerEvents \in Seq(Events) /\ carried \in Seq(Events) /\ systemEvents \in Seq(Events)
      /\ Len(carried) = IF converter = "sending" THEN 1 ELSE 0
    BY DEF PTypeOK
<1>1. CASE ConverterReceive
    <2>1. readerEvents # <<>> /\ Head(readerEvents) \in Events
        BY <1>0, <1>1, TailEvent DEF ConverterReceive
    <2>2. CopiesIn(x, readerEvents)
              = CopiesIn(x, Tail(readerEvents)) + (IF x = Head(readerEvents) THEN 1 ELSE 0)
        BY <1>0, <2>1, CopiesInTail
    <2>3. CopiesIn(x, <<Head(readerEvents)>>) = IF x = Head(readerEvents) THEN 1 ELSE 0
        BY <2>1, CopiesInOne
    <2>4. CopiesIn(x, Tail(readerEvents)) \in Nat
        BY <1>0, <2>1, TailEvent, PlacesFinite
    <2>5. /\ CopiesIn(x, readerEvents)' = CopiesIn(x, Tail(readerEvents))
          /\ CopiesIn(x, carried)' = CopiesIn(x, <<Head(readerEvents)>>)
          /\ CopiesIn(x, systemEvents)' = CopiesIn(x, systemEvents)
          /\ CopiesIn(x, handled)' = CopiesIn(x, handled)
        BY <1>1 DEF ConverterReceive
    <2>6. CopiesIn(x, carried) \in Nat /\ CopiesIn(x, systemEvents) \in Nat
          /\ CopiesIn(x, handled) \in Nat
        BY CopiesNat
    <2>7. CopiesIn(x, readerEvents)' + CopiesIn(x, carried)'
              <= CopiesIn(x, readerEvents) + CopiesIn(x, carried)
        BY <2>2, <2>3, <2>4, <2>5, <2>6
    <2>8. CopiesIn(x, readerEvents)' \in Nat /\ CopiesIn(x, carried)' \in Nat
          /\ CopiesIn(x, readerEvents) \in Nat
        BY <2>3, <2>4, <2>5, CopiesNat
    <2> QED BY <2>5, <2>6, <2>7, <2>8 DEF Copies
<1>2. CASE ConverterSend
    <2>1. /\ carried # <<>> /\ Head(carried) \in Events
          /\ Tail(carried) \in Seq(Events)
        <3>1. Len(carried) = 1
            BY <1>0, <1>2 DEF ConverterSend
        <3>2. carried # <<>>
            BY <3>1, NoEvent
        <3> QED BY <1>0, <3>2, TailEvent
    <2>2. CopiesIn(x, carried) = CopiesIn(x, Tail(carried)) + (IF x = Head(carried) THEN 1 ELSE 0)
        BY <1>0, <2>1, CopiesInTail
    <2>3. CopiesIn(x, Append(systemEvents, Head(carried)))
              = CopiesIn(x, systemEvents) + (IF x = Head(carried) THEN 1 ELSE 0)
        BY <1>0, <2>1, CopiesInAppend
    <2>4. CopiesIn(x, Tail(carried)) \in Nat /\ CopiesIn(x, <<>>) = 0
        BY <2>1, PlacesFinite, CopiesInNone
    <2>5. /\ CopiesIn(x, readerEvents)' \in {CopiesIn(x, readerEvents), CopiesIn(x, <<>>)}
          /\ CopiesIn(x, carried)' = CopiesIn(x, <<>>)
          /\ CopiesIn(x, systemEvents)' = CopiesIn(x, Append(systemEvents, Head(carried)))
          /\ CopiesIn(x, handled)' = CopiesIn(x, handled)
        BY <1>2 DEF ConverterSend
    <2> QED BY <2>2, <2>3, <2>4, <2>5, CopiesNat DEF Copies
<1> QED BY <1>1, <1>2

LEMMA TakeMoves ==
    ASSUME PTypeOK, HandlerTake, NEW x
    PROVE  Copies(x)' <= Copies(x)
<1> USE DEF Goes
<1>0. systemEvents \in Seq(Events) /\ systemEvents # <<>>
    BY DEF PTypeOK, HandlerTake
<1>1. Head(systemEvents) \in Events /\ Tail(systemEvents) \in Seq(Events)
    BY <1>0, TailEvent
<1>2. CopiesIn(x, systemEvents)
          = CopiesIn(x, Tail(systemEvents)) + (IF x = Head(systemEvents) THEN 1 ELSE 0)
    BY <1>0, CopiesInTail
<1>3. /\ CopiesIn(x, <<Head(systemEvents)>>) = IF x = Head(systemEvents) THEN 1 ELSE 0
      /\ CopiesIn(x, <<>>) = 0 /\ CopiesIn(x, Tail(systemEvents)) \in Nat
    BY <1>1, CopiesInOne, CopiesInNone, PlacesFinite
<1>4. /\ CopiesIn(x, readerEvents)' = CopiesIn(x, readerEvents)
      /\ CopiesIn(x, carried)' = CopiesIn(x, carried)
      /\ CopiesIn(x, systemEvents)' = CopiesIn(x, Tail(systemEvents))
      /\ CopiesIn(x, handled)' \in {CopiesIn(x, <<>>), CopiesIn(x, <<Head(systemEvents)>>)}
    BY DEF HandlerTake
<1> QED BY <1>2, <1>3, <1>4, CopiesNat DEF Copies

\* The handler is done with an event, or goes on with it.
LEMMA HandlerMoves ==
    ASSUME PTypeOK, NEW x, x # Error,
           \/ CountReceived \/ ReportRefusal \/ LockConnections
           \/ CountOpened \/ RemoveConnection \/ LockStats \/ CreditConnection \/ CountError
           \/ \E f \in Frames : Refused(f) \/ Submitted(f)
    PROVE  Copies(x)' <= Copies(x)
<1> USE DEF channels, Goes, Done
<1>1. /\ CopiesIn(x, readerEvents)' = CopiesIn(x, readerEvents)
      /\ CopiesIn(x, carried)' = CopiesIn(x, carried)
      /\ CopiesIn(x, handled)' \in {CopiesIn(x, handled), CopiesIn(x, <<>>)}
    BY DEF CountReceived, ReportRefusal, LockConnections, CountOpened, RemoveConnection,
           LockStats, CreditConnection, CountError, Refused, Submitted
<1>2. CopiesIn(x, systemEvents)'
          \in {CopiesIn(x, systemEvents), CopiesIn(x, Append(systemEvents, Error))}
    BY DEF CountReceived, ReportRefusal, LockConnections, CountOpened, RemoveConnection,
           LockStats, CreditConnection, CountError, Refused, Submitted
<1>3. CopiesIn(x, Append(systemEvents, Error)) = CopiesIn(x, systemEvents)
    BY CopiesInAppend, EventKinds, CopiesNat DEF PTypeOK
<1>4. CopiesIn(x, <<>>) = 0
    BY CopiesInNone
<1> QED BY <1>1, <1>2, <1>3, <1>4, CopiesNat DEF Copies

LEMMA ChannelsKept ==
    ASSUME UNCHANGED <<readerEvents, carried, systemEvents, handled>>, NEW x
    PROVE  Copies(x)' = Copies(x)
BY DEF Copies

\* Once of one frame.
LEMMA OnceAt ==
    ASSUME Once, NEW f \in Frames
    PROVE  /\ Copies(<<"data", f>>) <= 1
           /\ Copies(<<"processed", f>>) + Copies(<<"failed", f>>) <= 1
           /\ Copies(<<"data", f>>) = 1 => f \notin unread /\ tracker[f] = "none"
           /\ Copies(<<"processed", f>>) + Copies(<<"failed", f>>) = 1 => tracker[f] \in After
           /\ f \in unread => tracker[f] = "none"
BY DEF Once, HandledOnce, After

LEMMA OnceFrom ==
    ASSUME \A f \in Frames :
             /\ Copies(<<"data", f>>)' <= 1
             /\ Copies(<<"processed", f>>)' + Copies(<<"failed", f>>)' <= 1
             /\ Copies(<<"data", f>>)' = 1 => f \notin unread' /\ tracker'[f] = "none"
             /\ Copies(<<"processed", f>>)' + Copies(<<"failed", f>>)' = 1
                    => tracker'[f] \in After
             /\ f \in unread' => tracker'[f] = "none"
    PROVE  Once'
BY DEF Once, HandledOnce, After

\* A step after which no event of a frame is under way more often, and that leaves a
\* tracker where its result has been taken.
LEMMA OnceKept ==
    ASSUME PTypeOK, PTypeOK', Once, unread' \subseteq unread,
           \A f \in Frames : \A k \in Kinds : Copies(<<k, f>>)' <= Copies(<<k, f>>),
           \A f \in Frames : /\ (tracker'[f] = "none") <=> (tracker[f] = "none")
                             /\ tracker[f] \in After => tracker'[f] \in After
    PROVE  Once'
<1> SUFFICES ASSUME NEW f \in Frames
             PROVE  /\ Copies(<<"data", f>>)' <= 1
                    /\ Copies(<<"processed", f>>)' + Copies(<<"failed", f>>)' <= 1
                    /\ Copies(<<"data", f>>)' = 1 => f \notin unread' /\ tracker'[f] = "none"
                    /\ Copies(<<"processed", f>>)' + Copies(<<"failed", f>>)' = 1
                           => tracker'[f] \in After
                    /\ f \in unread' => tracker'[f] = "none"
    BY DEF Once, HandledOnce, After
<1> DEFINE d == Copies(<<"data", f>>)
           r == Copies(<<"processed", f>>) + Copies(<<"failed", f>>)
<1>1. /\ d <= 1 /\ r <= 1
      /\ d = 1 => f \notin unread /\ tracker[f] = "none"
      /\ r = 1 => tracker[f] \in After
      /\ f \in unread => tracker[f] = "none"
    BY DEF Once, HandledOnce, After
<1>2. Copies(<<"data", f>>)' <= d /\ Copies(<<"processed", f>>)' <= Copies(<<"processed", f>>)
      /\ Copies(<<"failed", f>>)' <= Copies(<<"failed", f>>)
    BY DEF Kinds
<1>3. /\ d \in Nat /\ Copies(<<"processed", f>>) \in Nat /\ Copies(<<"failed", f>>) \in Nat
    BY CopiesNat
<1>4. /\ Copies(<<"data", f>>)' \in Nat /\ Copies(<<"processed", f>>)' \in Nat
      /\ Copies(<<"failed", f>>)' \in Nat
    BY CopiesNatNext
<1> HIDE DEF d
<1> QED BY <1>1, <1>2, <1>3, <1>4

LEMMA AddsToReader ==
    ASSUME PTypeOK, NEW e \in Events, NEW x,
           readerEvents' = Append(readerEvents, e),
           UNCHANGED <<carried, systemEvents, handled>>
    PROVE  Copies(x)' = Copies(x) + (IF x = e THEN 1 ELSE 0)
<1>1. CopiesIn(x, Append(readerEvents, e)) = CopiesIn(x, readerEvents) + (IF x = e THEN 1 ELSE 0)
    BY CopiesInAppend DEF PTypeOK
<1>2. /\ CopiesIn(x, readerEvents)' = CopiesIn(x, Append(readerEvents, e))
      /\ CopiesIn(x, carried)' = CopiesIn(x, carried)
      /\ CopiesIn(x, systemEvents)' = CopiesIn(x, systemEvents)
      /\ CopiesIn(x, handled)' = CopiesIn(x, handled)
    OBVIOUS
<1> QED BY <1>1, <1>2, CopiesNat DEF Copies

LEMMA AddsToSystem ==
    ASSUME PTypeOK, NEW e \in Events, NEW x,
           systemEvents' = Append(systemEvents, e),
           UNCHANGED <<carried, readerEvents, handled>>
    PROVE  Copies(x)' = Copies(x) + (IF x = e THEN 1 ELSE 0)
<1>1. CopiesIn(x, Append(systemEvents, e)) = CopiesIn(x, systemEvents) + (IF x = e THEN 1 ELSE 0)
    BY CopiesInAppend DEF PTypeOK
<1>2. /\ CopiesIn(x, systemEvents)' = CopiesIn(x, Append(systemEvents, e))
      /\ CopiesIn(x, carried)' = CopiesIn(x, carried)
      /\ CopiesIn(x, readerEvents)' = CopiesIn(x, readerEvents)
      /\ CopiesIn(x, handled)' = CopiesIn(x, handled)
    OBVIOUS
<1> QED BY <1>1, <1>2, CopiesNat DEF Copies

\* What OnceKept asks of the trackers, of a step that does not touch them.
LEMMA OnceElse ==
    ASSUME PTypeOK, PTypeOK', Once, UNCHANGED tracker, unread' \subseteq unread,
           \A f \in Frames : \A k \in Kinds : Copies(<<k, f>>)' <= Copies(<<k, f>>)
    PROVE  Once'
BY OnceKept

LEMMA OnceReaders ==
    ASSUME PTypeOK, PTypeOK', Once, NEW c \in Conns, ReaderEnds(c) \/ Announce(c)
    PROVE  Once'
<1> USE DEF channels, handling, tracking
<1>1. ASSUME NEW f \in Frames, NEW k \in Kinds
      PROVE  Copies(<<k, f>>)' = Copies(<<k, f>>)
    <2>1. <<k, f>> # <<"opened", c>> /\ <<k, f>> # <<"closed", c>>
        BY DEF Kinds
    <2>2. CASE UNCHANGED <<readerEvents, carried, systemEvents, handled>>
        BY <2>2, ChannelsKept
    <2>3. CASE /\ readerEvents' = Append(readerEvents, <<"closed", c>>)
               /\ UNCHANGED <<carried, systemEvents, handled>>
        <3>1. Copies(<<k, f>>)' = Copies(<<k, f>>) + (IF <<k, f>> = <<"closed", c>> THEN 1 ELSE 0)
            BY <2>3, AddsToReader, EventKinds
        <3>2. Copies(<<k, f>>) \in Nat
            BY CopiesNat
        <3> QED BY <2>1, <3>1, <3>2
    <2>4. CASE /\ systemEvents' = Append(systemEvents, <<"opened", c>>)
               /\ UNCHANGED <<carried, readerEvents, handled>>
        <3>1. Copies(<<k, f>>)' = Copies(<<k, f>>) + (IF <<k, f>> = <<"opened", c>> THEN 1 ELSE 0)
            BY <2>4, AddsToSystem, EventKinds
        <3>2. Copies(<<k, f>>) \in Nat
            BY CopiesNat
        <3> QED BY <2>1, <3>1, <3>2
    <2>5. CASE ReaderEnds(c)
        BY <2>2, <2>3, <2>5 DEF ReaderEnds
    <2>6. CASE Announce(c)
        BY <2>4, <2>6 DEF Announce
    <2> QED BY <2>5, <2>6
<1>2. ASSUME NEW f \in Frames, NEW k \in Kinds
      PROVE  Copies(<<k, f>>)' <= Copies(<<k, f>>)
    <2>1. Copies(<<k, f>>)' = Copies(<<k, f>>) /\ Copies(<<k, f>>) \in Nat
        BY <1>1, CopiesNat
    <2> QED BY <2>1
<1> QED BY <1>2, OnceElse DEF ReaderEnds, Announce

LEMMA OnceRead ==
    ASSUME PTypeOK, PTypeOK', Once, NEW f \in Frames, ReadFrame(f)
    PROVE  Once'
<1> USE DEF handling, tracking
<1>0. /\ f \in unread /\ unread' = unread \ {f} /\ UNCHANGED tracker
      /\ UNCHANGED <<carried, systemEvents, handled>>
    BY DEF ReadFrame
<1>1. CASE UNCHANGED readerEvents
    <2>1. \A g \in Frames : \A k \in Kinds : Copies(<<k, g>>)' <= Copies(<<k, g>>)
        BY <1>0, <1>1, ChannelsKept, CopiesNat
    <2> QED BY <1>0, <2>1, OnceElse
<1>2. CASE readerEvents' = Append(readerEvents, <<"data", f>>)
    <2>1. \A x : Copies(x)' = Copies(x) + (IF x = <<"data", f>> THEN 1 ELSE 0)
        BY <1>0, <1>2, AddsToReader, EventKinds
    <2>2. Copies(<<"data", f>>) = 0 /\ tracker[f] = "none"
        <3>1. Copies(<<"data", f>>) \in Nat
            BY CopiesNat
        <3>2. /\ Copies(<<"data", f>>) <= 1
              /\ Copies(<<"data", f>>) = 1 => f \notin unread
              /\ f \in unread => tracker[f] = "none"
            BY OnceAt
        <3> QED BY <1>0, <3>1, <3>2
    <2>3. ASSUME NEW g \in Frames
          PROVE  /\ Copies(<<"processed", g>>)' = Copies(<<"processed", g>>)
                 /\ Copies(<<"failed", g>>)' = Copies(<<"failed", g>>)
                 /\ Copies(<<"data", g>>)' = IF g = f THEN 1 ELSE Copies(<<"data", g>>)
        <3>1. /\ <<"processed", g>> # <<"data", f>> /\ <<"failed", g>> # <<"data", f>>
              /\ (<<"data", g>> = <<"data", f>>) <=> (g = f)
            OBVIOUS
        <3>2. /\ Copies(<<"processed", g>>) \in Nat /\ Copies(<<"failed", g>>) \in Nat
              /\ Copies(<<"data", g>>) \in Nat
            BY CopiesNat
        <3> QED BY <2>1, <2>2, <3>1, <3>2
    <2>4. ASSUME NEW g \in Frames
          PROVE  /\ Copies(<<"data", g>>)' <= 1
                 /\ Copies(<<"processed", g>>)' + Copies(<<"failed", g>>)' <= 1
                 /\ Copies(<<"data", g>>)' = 1 => g \notin unread' /\ tracker'[g] = "none"
                 /\ Copies(<<"processed", g>>)' + Copies(<<"failed", g>>)' = 1
                        => tracker'[g] \in After
                 /\ g \in unread' => tracker'[g] = "none"
        BY <1>0, <2>2, <2>3, OnceAt
    <2> QED BY <2>4, OnceFrom
<1> QED BY <1>1, <1>2 DEF ReadFrame

LEMMA OnceSubmitted ==
    ASSUME PTypeOK, PTypeOK', Once, NEW f \in Frames, Submitted(f)
    PROVE  Once'
<1> USE DEF sources, channels, Done, Goes
<1>0. \A x : x # Error => Copies(x)' <= Copies(x)
    BY HandlerMoves
<1>1. \A g \in Frames : \A k \in Kinds : Copies(<<k, g>>)' <= Copies(<<k, g>>)
    BY <1>0 DEF Error, Kinds
<1>2. CopiesIn(<<"data", f>>, handled) = 1 /\ CopiesIn(<<"data", f>>, <<>>) = 0
    BY CopiesInOne, CopiesInNone, EventKinds DEF Submitted
<1>3. Copies(<<"data", f>>) >= 1
    <2>1. /\ CopiesIn(<<"data", f>>, readerEvents) \in Nat
          /\ CopiesIn(<<"data", f>>, carried) \in Nat
          /\ CopiesIn(<<"data", f>>, systemEvents) \in Nat
        BY CopiesNat
    <2> QED BY <1>2, <2>1 DEF Copies
<1>4. Copies(<<"data", f>>) = 1 /\ f \notin unread /\ tracker[f] = "none"
    <2>1. Copies(<<"data", f>>) \in Nat
        BY CopiesNat
    <2>2. /\ Copies(<<"data", f>>) <= 1
          /\ Copies(<<"data", f>>) = 1 => f \notin unread /\ tracker[f] = "none"
        BY OnceAt
    <2> QED BY <1>3, <2>1, <2>2
<1>5. Copies(<<"data", f>>)' = 0
    <2>1. /\ CopiesIn(<<"data", f>>, readerEvents)' = CopiesIn(<<"data", f>>, readerEvents)
          /\ CopiesIn(<<"data", f>>, carried)' = CopiesIn(<<"data", f>>, carried)
          /\ CopiesIn(<<"data", f>>, systemEvents)' = CopiesIn(<<"data", f>>, systemEvents)
          /\ CopiesIn(<<"data", f>>, handled)' = CopiesIn(<<"data", f>>, <<>>)
        BY DEF Submitted
    <2>2. /\ CopiesIn(<<"data", f>>, readerEvents) \in Nat
          /\ CopiesIn(<<"data", f>>, carried) \in Nat
          /\ CopiesIn(<<"data", f>>, systemEvents) \in Nat
        BY CopiesNat
    <2>3. CopiesIn(<<"data", f>>, readerEvents) + CopiesIn(<<"data", f>>, carried)
              + CopiesIn(<<"data", f>>, systemEvents) = 0
        BY <1>2, <1>4, <2>2 DEF Copies
    <2> QED BY <1>2, <2>1, <2>2, <2>3 DEF Copies
<1>6. /\ unread' = unread
      /\ \A g \in Frames : tracker'[g] = IF g = f THEN "polling" ELSE tracker[g]
    BY DEF Submitted, PTypeOK
<1>7. \A g \in Frames : /\ Copies(<<"processed", g>>)' <= Copies(<<"processed", g>>)
                        /\ Copies(<<"failed", g>>)' <= Copies(<<"failed", g>>)
                        /\ Copies(<<"data", g>>)' <= Copies(<<"data", g>>)
    BY <1>1 DEF Kinds
<1>8. Copies(<<"processed", f>>)' + Copies(<<"failed", f>>)' = 0
    <2>1. Copies(<<"processed", f>>) + Copies(<<"failed", f>>) = 0
        <3>1. Copies(<<"processed", f>>) \in Nat /\ Copies(<<"failed", f>>) \in Nat
            BY CopiesNat
        <3> QED BY <1>4, <3>1, OnceAt DEF After
    <2>2. /\ Copies(<<"processed", f>>) \in Nat /\ Copies(<<"failed", f>>) \in Nat
          /\ Copies(<<"processed", f>>)' \in Nat /\ Copies(<<"failed", f>>)' \in Nat
        BY CopiesNat, CopiesNatNext
    <2>3. /\ Copies(<<"processed", f>>)' <= Copies(<<"processed", f>>)
          /\ Copies(<<"failed", f>>)' <= Copies(<<"failed", f>>)
        BY <1>7
    <2> QED BY <2>1, <2>2, <2>3
<1>9. ASSUME NEW g \in Frames
      PROVE  /\ Copies(<<"data", g>>)' <= 1
             /\ Copies(<<"processed", g>>)' + Copies(<<"failed", g>>)' <= 1
             /\ Copies(<<"data", g>>)' = 1 => g \notin unread' /\ tracker'[g] = "none"
             /\ Copies(<<"processed", g>>)' + Copies(<<"failed", g>>)' = 1
                    => tracker'[g] \in After
             /\ g \in unread' => tracker'[g] = "none"
    <2>1. CASE g = f
        BY <1>4, <1>5, <1>6, <1>8, <2>1
    <2>2. CASE g # f
        <3>1. /\ Copies(<<"data", g>>) <= 1
              /\ Copies(<<"processed", g>>) + Copies(<<"failed", g>>) <= 1
              /\ Copies(<<"data", g>>) = 1 => g \notin unread /\ tracker[g] = "none"
              /\ Copies(<<"processed", g>>) + Copies(<<"failed", g>>) = 1 => tracker[g] \in After
              /\ g \in unread => tracker[g] = "none"
            BY OnceAt
        <3>2. tracker'[g] = tracker[g] /\ unread' = unread
            BY <1>6, <2>2
        <3>3. /\ Copies(<<"data", g>>) \in Nat /\ Copies(<<"data", g>>)' \in Nat
              /\ Copies(<<"processed", g>>) \in Nat /\ Copies(<<"processed", g>>)' \in Nat
              /\ Copies(<<"failed", g>>) \in Nat /\ Copies(<<"failed", g>>)' \in Nat
            BY CopiesNat, CopiesNatNext
        <3> QED BY <1>7, <3>1, <3>2, <3>3
    <2> QED BY <2>1, <2>2
<1> QED BY <1>9, OnceFrom

LEMMA OnceReported ==
    ASSUME PTypeOK, PTypeOK', Once, NEW f \in Frames, SendProcessed(f)
    PROVE  Once'
<1> USE DEF sources, handling, Tracks
<1> DEFINE kind == IF clone[f] = "ok" THEN "processed" ELSE "failed"
<1>1. /\ tracker[f] = "report" /\ unread' = unread
      /\ \A g \in Frames : tracker'[g] = IF g = f THEN "processing" ELSE tracker[g]
      /\ systemEvents' = Append(systemEvents, <<kind, f>>)
      /\ UNCHANGED <<carried, readerEvents, handled>>
    BY DEF SendProcessed, PTypeOK
<1>2. kind \in {"processed", "failed"} /\ <<kind, f>> \in Events
    BY DEF Events
<1> HIDE DEF kind
<1>3. \A x : Copies(x)' = Copies(x) + (IF x = <<kind, f>> THEN 1 ELSE 0)
    BY <1>1, <1>2, AddsToSystem
<1>4. /\ Copies(<<"data", f>>) = 0 /\ f \notin unread
      /\ Copies(<<"processed", f>>) + Copies(<<"failed", f>>) = 0
    <2>1. /\ Copies(<<"data", f>>) \in Nat /\ Copies(<<"processed", f>>) \in Nat
          /\ Copies(<<"failed", f>>) \in Nat
        BY CopiesNat
    <2>2. /\ Copies(<<"data", f>>) <= 1
          /\ Copies(<<"processed", f>>) + Copies(<<"failed", f>>) <= 1
          /\ Copies(<<"data", f>>) = 1 => tracker[f] = "none"
          /\ Copies(<<"processed", f>>) + Copies(<<"failed", f>>) = 1 => tracker[f] \in After
          /\ f \in unread => tracker[f] = "none"
        BY OnceAt
    <2>3. tracker[f] \notin After /\ tracker[f] # "none"
        BY <1>1 DEF After
    <2> QED BY <2>1, <2>2, <2>3
<1>5. /\ Copies(<<"data", f>>)' = 0
      /\ Copies(<<"processed", f>>)' + Copies(<<"failed", f>>)' = 1
    <2>1. CASE kind = "processed"
        BY <1>3, <1>4, <2>1, CopiesNat
    <2>2. CASE kind = "failed"
        BY <1>3, <1>4, <2>2, CopiesNat
    <2> QED BY <1>2, <2>1, <2>2
<1>6. ASSUME NEW g \in Frames, g # f
      PROVE  /\ Copies(<<"data", g>>)' = Copies(<<"data", g>>)
             /\ Copies(<<"processed", g>>)' = Copies(<<"processed", g>>)
             /\ Copies(<<"failed", g>>)' = Copies(<<"failed", g>>)
    <2>1. \A k \in Kinds : <<k, g>> # <<kind, f>>
        BY <1>6
    <2>2. /\ Copies(<<"data", g>>) \in Nat /\ Copies(<<"processed", g>>) \in Nat
          /\ Copies(<<"failed", g>>) \in Nat
        BY CopiesNat
    <2> QED BY <1>3, <2>1, <2>2 DEF Kinds
<1>7. ASSUME NEW g \in Frames
      PROVE  /\ Copies(<<"data", g>>)' <= 1
             /\ Copies(<<"processed", g>>)' + Copies(<<"failed", g>>)' <= 1
             /\ Copies(<<"data", g>>)' = 1 => g \notin unread' /\ tracker'[g] = "none"
             /\ Copies(<<"processed", g>>)' + Copies(<<"failed", g>>)' = 1
                    => tracker'[g] \in After
             /\ g \in unread' => tracker'[g] = "none"
    <2>1. CASE g = f
        BY <1>1, <1>4, <1>5, <2>1 DEF After
    <2>2. CASE g # f
        BY <1>1, <1>6, <2>2, OnceAt
    <2> QED BY <2>1, <2>2
<1> QED BY <1>7, OnceFrom

LEMMA OnceStep == PTypeOK /\ Once /\ [PNext]_pvars => Once'
<1> SUFFICES ASSUME PTypeOK, Once, [PNext]_pvars
             PROVE  Once'
    OBVIOUS
<1>0. PTypeOK'
    BY TypeStep
<1>1. CASE \E c \in Conns : ReaderEnds(c) \/ Announce(c)
    BY <1>0, <1>1, OnceReaders
<1>2. CASE \E f \in Frames : ReadFrame(f) \/ Submitted(f) \/ SendProcessed(f)
    BY <1>0, <1>2, OnceRead, OnceSubmitted, OnceReported
<1>3. CASE ConverterReceive \/ ConverterSend \/ HandlerTake
    <2>1. \A f \in Frames : \A k \in Kinds : Copies(<<k, f>>)' <= Copies(<<k, f>>)
        BY <1>3, ConverterMoves, TakeMoves
    <2>2. UNCHANGED <<tracker, unread>>
        BY <1>3 DEF ConverterReceive, ConverterSend, HandlerTake, tracking, sources
    <2> QED BY <1>0, <2>1, <2>2, OnceElse
<1>4. CASE \/ CountReceived \/ ReportRefusal \/ LockConnections
           \/ CountOpened \/ RemoveConnection \/ LockStats \/ CreditConnection \/ CountError
           \/ \E f \in Frames : Refused(f)
    <2>1. \A f \in Frames : \A k \in Kinds : <<k, f>> # Error
        BY DEF Error, Kinds
    <2>2. \A f \in Frames : \A k \in Kinds : Copies(<<k, f>>)' <= Copies(<<k, f>>)
        BY <1>4, <2>1, HandlerMoves
    <2>3. UNCHANGED <<tracker, unread>>
        BY <1>4 DEF CountReceived, ReportRefusal, LockConnections, CountOpened,
               RemoveConnection, LockStats, CreditConnection, CountError, Refused,
               tracking, sources
    <2> QED BY <1>0, <2>2, <2>3, OnceElse
<1>5. CASE \/ \E f \in Frames : \/ Work(f) \/ Poll(f) \/ GiveUp(f) \/ NoteSteals(f)
                                \/ ProcessResult(f) \/ CountResult(f)
           \/ UpdaterReads \/ UpdaterTakes \/ MonitorNotes \/ MonitorCounts
           \/ LowerFlag \/ ClearResults \/ UNCHANGED pvars
    <2> USE DEF channels, handling, tracking, sources, pvars, Tracks
    <2>1. UNCHANGED <<readerEvents, carried, systemEvents, handled>> /\ unread' = unread
        BY <1>5 DEF Work, Poll, GiveUp, NoteSteals, ProcessResult, CountResult, UpdaterReads,
               UpdaterTakes, MonitorNotes, MonitorCounts, LowerFlag, ClearResults
    <2>2. \A f \in Frames : \A k \in Kinds : Copies(<<k, f>>)' <= Copies(<<k, f>>)
        BY <2>1, ChannelsKept, CopiesNat
    <2>3. \A f \in Frames : /\ (tracker'[f] = "none") <=> (tracker[f] = "none")
                            /\ tracker[f] \in After => tracker'[f] \in After
        BY <1>5 DEF PTypeOK, After, Work, Poll, GiveUp, NoteSteals, ProcessResult, CountResult,
               UpdaterReads, UpdaterTakes, MonitorNotes, MonitorCounts, LowerFlag, ClearResults
    <2> QED BY <1>0, <2>1, <2>2, <2>3, OnceKept
<1> QED BY <1>1, <1>2, <1>3, <1>4, <1>5, NextCases

LEMMA OnceInit == PInit => Once
<1> SUFFICES ASSUME PInit PROVE Once
    OBVIOUS
<1>1. \A x : Copies(x) = 0
    BY CopiesInNone DEF PInit, Copies
<1> QED BY <1>1 DEF PInit, Once, HandledOnce

\* A frame that was read is handled once, whatever the tasks do in between, and its
\* result is reported once, by a tracker that has taken it.
THEOREM FramesHandledOnce == PSpec => []HandledOnce
<1>1. PTypeOK /\ Once => HandledOnce
    BY DEF Once
<1> QED BY <1>1, TypeInit, TypeStep, OnceInit, OnceStep, PTL DEF PSpec

(***************************************************************************)
(* The two ways in which the pipeline stops are for ever, and there is no  *)
(* third.                                                                  *)
(***************************************************************************)
\* The handler's own channel never gets a place again and keeps its events; the updater
\* never gives back the statistics that it reads.
StopsForEver ==
    /\ SelfWait => SelfWait' /\ UNCHANGED <<systemEvents, handled>>
    /\ Collided => Collided' /\ ~StatsFree'

LEMMA StopsStay == PTypeOK /\ [PNext]_pvars => StopsForEver
<1> SUFFICES ASSUME PTypeOK, [PNext]_pvars PROVE StopsForEver
    OBVIOUS
<1> USE DEF StopsForEver, SelfWait, Collided, StatsFree, sources, channels, handling, tracking,
            watching, Goes, Done, Tracks
<1>0. updater = collision => updater \in Keys
    BY DEF PTypeOK, Keys
<1>1. ASSUME NEW f \in Frames,
             \/ ReadFrame(f) \/ Refused(f) \/ Submitted(f) \/ Work(f) \/ Poll(f) \/ GiveUp(f)
             \/ NoteSteals(f) \/ SendProcessed(f) \/ ProcessResult(f) \/ CountResult(f)
      PROVE  StopsForEver
    BY <1>0, <1>1 DEF ReadFrame, Refused, Submitted, Work, Poll, GiveUp, NoteSteals,
           SendProcessed, ProcessResult, CountResult
<1>2. ASSUME NEW c \in Conns, ReaderEnds(c) \/ Announce(c) PROVE StopsForEver
    BY <1>0, <1>2 DEF ReaderEnds, Announce
<1>3. CASE ConverterReceive \/ ConverterSend
    BY <1>0, <1>3 DEF ConverterReceive, ConverterSend
<1>4. CASE \/ HandlerTake \/ CountReceived \/ ReportRefusal \/ LockConnections
           \/ CountOpened \/ RemoveConnection \/ LockStats \/ CreditConnection \/ CountError
    BY <1>0, <1>4 DEF HandlerTake, CountReceived, ReportRefusal, LockConnections, CountOpened,
           RemoveConnection, LockStats, CreditConnection, CountError
<1>5. CASE \/ UpdaterReads \/ UpdaterTakes \/ MonitorNotes \/ MonitorCounts
           \/ LowerFlag \/ ClearResults \/ UNCHANGED pvars
    BY <1>0, <1>5 DEF UpdaterReads, UpdaterTakes, MonitorNotes, MonitorCounts, LowerFlag,
           ClearResults, pvars, Keys
<1> QED BY <1>1, <1>2, <1>3, <1>4, <1>5, NextCases

\* A handler that waits for a place in the channel that it alone empties waits for ever with
\* its event in its hands, and the channel never changes again; an updater that waits for a
\* shard of its own keeps the statistics from every writer for ever.  No shutdown helps.
THEOREM PipelineStaysStopped == PSpec => [][StopsForEver]_pvars
BY TypeInit, TypeStep, StopsStay, PTL DEF PSpec

\* What the next step of each task waits for.
ConverterMayGo ==
    \/ converter = "receiving" /\ readerEvents # <<>>
    \/ converter = "sending" /\ Room(systemEvents)
HandlerMayGo ==
    \/ handler = "idle" /\ systemEvents # <<>>
    \/ handler \in {"received", "opening", "processed", "erring"} /\ StatsFree
    \/ handler \in {"submit", "opened", "closed", "crediting"}
    \/ handler = "report" /\ Room(systemEvents)
TrackerMayGo(f) ==
    \/ tracker[f] \in {"polling", "processing"}
    \/ tracker[f] \in {"noting", "counting"} /\ StatsFree
    \/ tracker[f] = "report" /\ Room(systemEvents)
UpdaterMayGo == updater \in Keys \ {collision}

\* While a frame that was read is not settled, and the pipeline has not stopped in one of
\* the two ways, a task on its way may go on.
NoThirdStop ==
    (\E f \in Frames \ unread : ~Settled(f)) /\ ~SelfWait /\ ~Collided
        => ConverterMayGo \/ HandlerMayGo \/ UpdaterMayGo \/ \E f \in Frames : TrackerMayGo(f)

\* The channel of a converter that has stopped is gone.
StoppedEmpty == converter = "stopped" => readerEvents = <<>>

LEMMA StoppedStays == PTypeOK /\ StoppedEmpty /\ [PNext]_pvars => StoppedEmpty'
<1> SUFFICES ASSUME PTypeOK, StoppedEmpty, [PNext]_pvars PROVE StoppedEmpty'
    OBVIOUS
<1> USE DEF StoppedEmpty, sources, channels, handling, tracking, watching, Goes, Done, Tracks
<1>1. CASE UNCHANGED <<converter, readerEvents>>
    BY <1>1
<1>2. ASSUME NEW f \in Frames,
             \/ ReadFrame(f) \/ Refused(f) \/ Submitted(f) \/ Work(f) \/ Poll(f) \/ GiveUp(f)
             \/ NoteSteals(f) \/ SendProcessed(f) \/ ProcessResult(f) \/ CountResult(f)
      PROVE  StoppedEmpty'
    BY <1>2 DEF ReadFrame, Refused, Submitted, Work, Poll, GiveUp, NoteSteals,
           SendProcessed, ProcessResult, CountResult
<1>3. ASSUME NEW c \in Conns, ReaderEnds(c) \/ Announce(c) PROVE StoppedEmpty'
    BY <1>3 DEF ReaderEnds, Announce
<1>4. CASE ConverterReceive \/ ConverterSend
    BY <1>4 DEF ConverterReceive, ConverterSend
<1>5. CASE \/ HandlerTake \/ CountReceived \/ ReportRefusal \/ LockConnections
           \/ CountOpened \/ RemoveConnection \/ LockStats \/ CreditConnection \/ CountError
    BY <1>1, <1>5 DEF HandlerTake, CountReceived, ReportRefusal, LockConnections, CountOpened,
           RemoveConnection, LockStats, CreditConnection, CountError
<1>6. CASE \/ UpdaterReads \/ UpdaterTakes \/ MonitorNotes \/ MonitorCounts
           \/ LowerFlag \/ ClearResults \/ UNCHANGED pvars
    BY <1>1, <1>6 DEF UpdaterReads, UpdaterTakes, MonitorNotes, MonitorCounts, LowerFlag,
           ClearResults, pvars
<1> QED BY <1>2, <1>3, <1>4, <1>5, <1>6, NextCases

\* Whoever needs the statistics waits for the handler or the updater, who both go on; whoever
\* needs a place waits for the handler, who empties its channel unless it waits for a place
\* itself; and the reader's channel is emptied by a converter that waits for nothing else.
LEMMA SomeoneMayGo ==
    ASSUME PTypeOK, StoppedEmpty, NEW f \in Frames, ~Settled(f), ~SelfWait, ~Collided
    PROVE  ConverterMayGo \/ HandlerMayGo \/ UpdaterMayGo \/ TrackerMayGo(f)
<1> SUFFICES ASSUME ~ConverterMayGo, ~HandlerMayGo, ~UpdaterMayGo, ~TrackerMayGo(f)
             PROVE  FALSE
    OBVIOUS
<1>1. StatsFree
    <2>1. updater \notin Keys
        BY DEF Collided, UpdaterMayGo
    <2> QED BY <2>1 DEF StatsFree, HandlerMayGo
<1>2. handler = "idle" /\ systemEvents = <<>>
    BY <1>1 DEF HandlerMayGo, SelfWait, PTypeOK, HandlerSteps
<1>3. Room(systemEvents)
    BY <1>2, NoEvent, EventPipelineAssumption DEF Room, EventPipelineAssumption
<1>4. tracker[f] \in {"none", "ended"}
    BY <1>1, <1>3 DEF TrackerMayGo, PTypeOK, TrackerSteps
<1>5. converter # "sending" /\ readerEvents = <<>>
    BY <1>3 DEF ConverterMayGo, StoppedEmpty, PTypeOK
<1>6. carried = <<>> /\ handled = <<>>
    BY <1>2, <1>5 DEF PTypeOK
<1>7. Copies(<<"data", f>>) = 0
    BY <1>2, <1>5, <1>6, CopiesInNone DEF Copies
<1> QED BY <1>4, <1>7 DEF Settled

\* Besides the handler's wait for itself and the updater's for its own shard nothing stops
\* the pipeline: no shutdown, no full channel, no dispatcher without a result.
THEOREM PipelineGoesOn == PSpec => []NoThirdStop
<1>1. PInit => StoppedEmpty
    BY DEF PInit, StoppedEmpty
<1>2. PTypeOK /\ StoppedEmpty => NoThirdStop
    BY SomeoneMayGo DEF NoThirdStop
<1> QED BY <1>1, <1>2, TypeInit, TypeStep, StoppedStays, PTL DEF PSpec

-----------------------------------------------------------------------------

(***************************************************************************)
(* The QoS manager: the permits are conserved, and a refusal is counted.   *)
(***************************************************************************)
USE DEF Goto, buckets, statistics, adaptation, qvars

HavingIn(pcs, cl, steps) == {c \in Callers : ClassOf(c) = cl /\ pcs[c] \in steps}
Counts(c, step, cl, steps) == IF ClassOf(c) = cl /\ step \in steps THEN 1 ELSE 0
StepNames == {"idle", "ask", "quotas", "refuse", "wait", "late", "timing", "granted"}

\* The callers of a class at some steps are finitely many.
LEMMA HavingFinite ==
    ASSUME NEW pcs, NEW cl, NEW steps
    PROVE  /\ IsFiniteSet(HavingIn(pcs, cl, steps))
           /\ Cardinality(HavingIn(pcs, cl, steps)) \in Nat
  <1>1. HavingIn(pcs, cl, steps) \subseteq Callers
    BY DEF HavingIn
  <1> QED
    BY <1>1, QosAssumption, FS_Subset, FS_CardinalityType DEF QosAssumption

\* When one caller goes to another step, it leaves the callers it was counted
\* with and joins the others.
LEMMA MoveCounts ==
    ASSUME NEW pcs, NEW new, NEW c \in Callers, NEW to, NEW cl, NEW steps,
           new[c] = to, \A other \in Callers \ {c} : new[other] = pcs[other]
    PROVE  Cardinality(HavingIn(new, cl, steps))
             = Cardinality(HavingIn(pcs, cl, steps))
                 + Counts(c, to, cl, steps)
                 - Counts(c, pcs[c], cl, steps)
  <1> DEFINE rest == HavingIn(pcs, cl, steps) \ {c}
  <1>1. /\ IsFiniteSet(HavingIn(pcs, cl, steps)) /\ IsFiniteSet(HavingIn(new, cl, steps))
        /\ Cardinality(HavingIn(pcs, cl, steps)) \in Nat
        /\ Cardinality(HavingIn(new, cl, steps)) \in Nat
    BY HavingFinite
  <1>2. rest = HavingIn(new, cl, steps) \ {c}
    BY DEF HavingIn
  <1>3. IsFiniteSet(rest) /\ Cardinality(rest) \in Nat
    BY <1>1, FS_Subset, FS_CardinalityType
  <1>4. Cardinality(rest \cup {c}) = Cardinality(rest) + 1
    BY <1>3, FS_AddElement
  <1>5. Cardinality(HavingIn(pcs, cl, steps))
          = Cardinality(rest) + Counts(c, pcs[c], cl, steps)
    <2>1. CASE ClassOf(c) = cl /\ pcs[c] \in steps
      <3>1. HavingIn(pcs, cl, steps) = rest \cup {c}
        BY <2>1 DEF HavingIn
      <3> QED
        BY <2>1, <3>1, <1>4 DEF Counts
    <2>2. CASE ~(ClassOf(c) = cl /\ pcs[c] \in steps)
      <3>1. HavingIn(pcs, cl, steps) = rest
        BY <2>2 DEF HavingIn
      <3> HIDE DEF rest
      <3> QED
        BY <2>2, <3>1, <1>3 DEF Counts
    <2> QED
      BY <2>1, <2>2
  <1>6. Cardinality(HavingIn(new, cl, steps))
          = Cardinality(rest) + Counts(c, to, cl, steps)
    <2>1. CASE ClassOf(c) = cl /\ to \in steps
      <3>1. HavingIn(new, cl, steps) = rest \cup {c}
        BY <2>1, <1>2 DEF HavingIn
      <3> QED
        BY <2>1, <3>1, <1>4 DEF Counts
    <2>2. CASE ~(ClassOf(c) = cl /\ to \in steps)
      <3>1. HavingIn(new, cl, steps) = rest
        BY <2>2, <1>2 DEF HavingIn
      <3> HIDE DEF rest
      <3> QED
        BY <2>2, <3>1, <1>3 DEF Counts
    <2> HIDE DEF rest
    <2> QED
      BY <2>1, <2>2
  <1> HIDE DEF rest
  <1>7. Counts(c, pcs[c], cl, steps) \in Nat /\ Counts(c, to, cl, steps) \in Nat
    BY DEF Counts
  <1> QED
    BY <1>3, <1>5, <1>6, <1>7

-----------------------------------------------------------------------------
(***************************************************************************)
(* The inductive invariant.  A request is counted when it is made and once *)
(* more when it is refused, so that the requests under way make up for the *)
(* refusals to come.                                                       *)
(***************************************************************************)
UnderWay == {"quotas", "refuse", "wait", "late", "timing"}

RefusalsCovered ==
    \A cl \in Classes :
        2 * rejected[cl] + Cardinality(Having(cl, UnderWay)) <= requests[cl]

\* What apply_adaptation has read lacks the permits that were out at the time, at most one of
\* each caller; and these are what it issues a second time.
SeenLacks ==
    apc \in {"add", "count"} =>
        \A cl \in Classes : /\ seen[cl] <= Capacity[cl]
                            /\ Capacity[cl] - seen[cl] <= Cardinality(CallersOf(cl))

PermitsCounted ==
    \A cl \in Classes :
        Total(cl) = IF apc = "count" /\ decision[cl] > seen[cl]
                    THEN Capacity[cl] + (decision[cl] - seen[cl]) ELSE Capacity[cl]

QosInv == QTypeOK /\ SeenLacks /\ PermitsCounted /\ RefusalsCovered

\* Nobody has a permit and nothing is counted at the start.
LEMMA QosInit == QInit => QosInv
  <1> SUFFICES ASSUME QInit PROVE QosInv
    OBVIOUS
  <1> USE QosAssumption DEF QosAssumption
  <1>1. QTypeOK
    BY DEF QInit, QTypeOK, Full, Classes
  <1>2. \A cl \in Classes : /\ Having(cl, {"timing", "granted"}) = {}
                            /\ Having(cl, UnderWay) = {}
    BY DEF QInit, Having, UnderWay
  <1>3. Cardinality({}) = 0
    BY FS_EmptySet
  <1>4. SeenLacks /\ PermitsCounted /\ RefusalsCovered
    <2> SUFFICES ASSUME NEW cl \in Classes
                 PROVE  /\ free[cl] + 0 = Capacity[cl] /\ apc = "idle"
                        /\ 2 * rejected[cl] + 0 <= requests[cl]
      BY <1>2, <1>3 DEF QInit, SeenLacks, PermitsCounted, Total, RefusalsCovered
    <2> QED
      BY DEF QInit
  <1> QED
    BY <1>1, <1>4 DEF QosInv

\* A class is one of the three.
LEMMA ClassOfCaller == ASSUME NEW c \in Callers PROVE ClassOf(c) \in Classes
  BY QosAssumption DEF QosAssumption, Priorities, ClassOf, Classes

\* Every variable keeps its type.
LEMMA QosTypeStep == QTypeOK /\ [QNext]_qvars => QTypeOK'
  <1> SUFFICES ASSUME QTypeOK, [QNext]_qvars PROVE QTypeOK'
    OBVIOUS
  <1> USE DEF QTypeOK
  <1>1. CASE UNCHANGED qvars
    BY <1>1
  <1>2. ASSUME NEW c \in Callers, Call(c) \/ Proceed(c) \/ Release(c) PROVE QTypeOK'
    <2> USE ClassOfCaller
    <2>1. CASE Call(c)
      BY <2>1 DEF Call
    <2>2. CASE CountRequest(c)
      BY <2>2 DEF CountRequest, Counted
    <2>3. CASE PassBuckets(c)
      BY <2>3 DEF PassBuckets
    <2>4. CASE FailBuckets(c)
      BY <2>4 DEF FailBuckets
    <2>5. CASE Refuse(c)
      BY <2>5 DEF Refuse, Counted
    <2>6. CASE Acquire(c)
      BY <2>6 DEF Acquire
    <2>7. CASE TimeOut(c)
      BY <2>7 DEF TimeOut
    <2>8. CASE Grant(c)
      BY <2>8 DEF Grant
    <2>9. CASE Release(c)
      BY <2>9 DEF Release
    <2> QED
      BY <1>2, <2>1, <2>2, <2>3, <2>4, <2>5, <2>6, <2>7, <2>8, <2>9 DEF Proceed
  <1>3. ASSUME NEW cl \in Classes, Refill(cl) PROVE QTypeOK'
    BY <1>3 DEF Refill
  <1>4. CASE Adapt
    <2>1. CASE AdaptRead \/ AdaptNothing
      BY <2>1 DEF AdaptRead, AdaptNothing
    <2>2. CASE AddPermits
      BY <2>2 DEF AddPermits, Full, Classes
    <2>3. ASSUME NEW d \in Decisions, AdaptDecide(d) PROVE QTypeOK'
      BY <2>3, QosAssumption DEF QosAssumption, AdaptDecide
    <2>4. CASE SeeFree
      BY <2>4 DEF SeeFree
    <2> QED
      BY <1>4, <2>1, <2>2, <2>3, <2>4 DEF Adapt
  <1> QED
    BY <1>1, <1>2, <1>3, <1>4 DEF QNext

\* How a caller's step changes the two counts.
LEMMA StepCounts ==
    ASSUME QTypeOK, NEW c \in Callers, NEW to, Goto(c, to), NEW cl \in Classes
    PROVE  /\ Cardinality(Having(cl, {"timing", "granted"})) \in Nat
           /\ Cardinality(Having(cl, {"timing", "granted"}))'
                = Cardinality(Having(cl, {"timing", "granted"}))
                    + Counts(c, to, cl, {"timing", "granted"})
                    - Counts(c, qpc[c], cl, {"timing", "granted"})
           /\ Cardinality(Having(cl, UnderWay)) \in Nat
           /\ Cardinality(Having(cl, UnderWay))'
                = Cardinality(Having(cl, UnderWay))
                    + Counts(c, to, cl, UnderWay)
                    - Counts(c, qpc[c], cl, UnderWay)
  <1>1. \A steps : Having(cl, steps) = HavingIn(qpc, cl, steps)
    BY DEF Having, HavingIn
  <1>2. qpc \in [Callers -> StepNames]
    BY DEF QTypeOK, StepNames
  <1> DEFINE new == [qpc EXCEPT ![c] = to]
  <1>3. ASSUME NEW steps
        PROVE  /\ Cardinality(Having(cl, steps)) \in Nat
               /\ Cardinality(HavingIn(new, cl, steps))
                    = Cardinality(Having(cl, steps))
                        + Counts(c, to, cl, steps)
                        - Counts(c, qpc[c], cl, steps)
    <2>1. Cardinality(HavingIn(qpc, cl, steps)) \in Nat
      BY HavingFinite
    <2>2. new[c] = to /\ \A other \in Callers \ {c} : new[other] = qpc[other]
      BY <1>2
    <2> HIDE DEF new
    <2>3. Cardinality(HavingIn(new, cl, steps))
            = Cardinality(HavingIn(qpc, cl, steps))
                + Counts(c, to, cl, steps)
                - Counts(c, qpc[c], cl, steps)
      BY <2>2, MoveCounts
    <2> QED
      BY <1>1, <2>1, <2>3
  <1>4. Having(cl, UnderWay)' = HavingIn(new, cl, UnderWay)
    BY DEF Having, HavingIn, UnderWay
  <1>5. Having(cl, {"timing", "granted"})' = HavingIn(new, cl, {"timing", "granted"})
    BY DEF Having, HavingIn
  <1> HIDE DEF new
  <1> QED
    BY <1>3, <1>4, <1>5

\* A step of a caller keeps the permits and covers the refusals.
LEMMA CallerCounts ==
    ASSUME QosInv, NEW c \in Callers, Call(c) \/ Proceed(c) \/ Release(c)
    PROVE  PermitsCounted' /\ RefusalsCovered'
  <1>0. UNCHANGED adaptation
    BY DEF Call, Proceed, CountRequest, PassBuckets, FailBuckets, Refuse, Acquire, TimeOut, Grant,
           Release
  <1> SUFFICES ASSUME NEW cl \in Classes
               PROVE  /\ Total(cl)' = Total(cl)
                      /\ (2 * rejected[cl] + Cardinality(Having(cl, UnderWay)) <= requests[cl])'
    <2>1. PermitsCounted'
      BY <1>0 DEF QosInv, PermitsCounted
    <2> QED BY <2>1 DEF RefusalsCovered
  <1> DEFINE out  == Cardinality(Having(cl, {"timing", "granted"}))
             open == Cardinality(Having(cl, UnderWay))
  <1>1. /\ 2 * rejected[cl] + open <= requests[cl]
        /\ out \in Nat /\ open \in Nat
        /\ free \in [Classes -> Nat]
        /\ requests \in [Classes -> Nat] /\ rejected \in [Classes -> Nat]
    <2>1. Having(cl, UnderWay) = HavingIn(qpc, cl, UnderWay)
      BY DEF Having, HavingIn
    <2>2. Having(cl, {"timing", "granted"}) = HavingIn(qpc, cl, {"timing", "granted"})
      BY DEF Having, HavingIn
    <2> QED
      BY <2>1, <2>2, HavingFinite DEF QosInv, RefusalsCovered, QTypeOK
  <1>2. ClassOf(c) \in Classes
    BY ClassOfCaller
  <1>3. ASSUME NEW to, Goto(c, to)
        PROVE  /\ out' = out + Counts(c, to, cl, {"timing", "granted"})
                             - Counts(c, qpc[c], cl, {"timing", "granted"})
               /\ open' = open + Counts(c, to, cl, UnderWay)
                               - Counts(c, qpc[c], cl, UnderWay)
    BY <1>3, StepCounts DEF QosInv
  <1> HIDE DEF out, open
  <1> SUFFICES /\ free'[cl] + out' = free[cl] + out
               /\ 2 * rejected'[cl] + open' <= requests'[cl]
    BY DEF out, open, Total
  <1>4. CASE Call(c)
    <2>0. /\ out' = out + Counts(c, "ask", cl, {"timing", "granted"})
                        - Counts(c, qpc[c], cl, {"timing", "granted"})
          /\ open' = open + Counts(c, "ask", cl, UnderWay)
                          - Counts(c, qpc[c], cl, UnderWay)
      BY <1>3, <1>4 DEF Call
    <2>1. out' = out /\ open' = open
      BY <1>1, <2>0, <1>4 DEF Call, Counts, UnderWay
    <2> QED
      BY <1>1, <1>4, <2>1 DEF Call
  <1>5. CASE CountRequest(c)
    <2>0. /\ out' = out + Counts(c, "quotas", cl, {"timing", "granted"})
                        - Counts(c, qpc[c], cl, {"timing", "granted"})
          /\ open' = open + Counts(c, "quotas", cl, UnderWay)
                          - Counts(c, qpc[c], cl, UnderWay)
      BY <1>3, <1>5 DEF CountRequest
    <2>1. out' = out /\ open' = open + (IF ClassOf(c) = cl THEN 1 ELSE 0)
      BY <1>1, <2>0, <1>5 DEF CountRequest, Counts, UnderWay
    <2> QED
      BY <1>1, <1>2, <1>5, <2>1 DEF CountRequest, Counted, Counts
  <1>6. CASE PassBuckets(c) \/ FailBuckets(c) \/ TimeOut(c)
    <2>1. ASSUME NEW to \in {"wait", "refuse", "late"}, Goto(c, to), qpc[c] \in {"quotas", "wait"}
          PROVE  out' = out /\ open' = open
      <3>1. /\ out' = out + Counts(c, to, cl, {"timing", "granted"})
                         - Counts(c, qpc[c], cl, {"timing", "granted"})
            /\ open' = open + Counts(c, to, cl, UnderWay)
                           - Counts(c, qpc[c], cl, UnderWay)
        BY <1>3, <2>1
      <3> QED
        BY <1>1, <2>1, <3>1 DEF Counts, UnderWay
    <2>2. UNCHANGED <<free, requests, rejected>>
      BY <1>6 DEF PassBuckets, FailBuckets, TimeOut
    <2>3. out' = out /\ open' = open
      BY <1>6, <2>1 DEF PassBuckets, FailBuckets, TimeOut
    <2> QED
      BY <1>1, <2>2, <2>3
  <1>7. CASE Refuse(c)
    <2>0. /\ out' = out + Counts(c, "idle", cl, {"timing", "granted"})
                        - Counts(c, qpc[c], cl, {"timing", "granted"})
          /\ open' = open + Counts(c, "idle", cl, UnderWay)
                          - Counts(c, qpc[c], cl, UnderWay)
      BY <1>3, <1>7 DEF Refuse
    <2>1. out' = out /\ open' = open - (IF ClassOf(c) = cl THEN 1 ELSE 0)
      BY <1>1, <2>0, <1>7 DEF Refuse, Counts, UnderWay
    <2> QED
      BY <1>1, <1>2, <1>7, <2>1 DEF Refuse, Counted, Counts
  <1>8. CASE Acquire(c)
    <2>0. /\ out' = out + Counts(c, "timing", cl, {"timing", "granted"})
                        - Counts(c, qpc[c], cl, {"timing", "granted"})
          /\ open' = open + Counts(c, "timing", cl, UnderWay)
                          - Counts(c, qpc[c], cl, UnderWay)
      BY <1>3, <1>8 DEF Acquire
    <2>1. out' = out + (IF ClassOf(c) = cl THEN 1 ELSE 0) /\ open' = open
      BY <1>1, <2>0, <1>8 DEF Acquire, Counts, UnderWay
    <2> QED
      BY <1>1, <1>2, <1>8, <2>1 DEF Acquire, Counts
  <1>9. CASE Grant(c)
    <2>0. /\ out' = out + Counts(c, "granted", cl, {"timing", "granted"})
                        - Counts(c, qpc[c], cl, {"timing", "granted"})
          /\ open' = open + Counts(c, "granted", cl, UnderWay)
                          - Counts(c, qpc[c], cl, UnderWay)
      BY <1>3, <1>9 DEF Grant
    <2>1. out' = out /\ open' = open - (IF ClassOf(c) = cl THEN 1 ELSE 0)
      BY <1>1, <2>0, <1>9 DEF Grant, Counts, UnderWay
    <2> QED
      BY <1>1, <1>9, <2>1 DEF Grant, Counts
  <1>10. CASE Release(c)
    <2>0. /\ out' = out + Counts(c, "idle", cl, {"timing", "granted"})
                        - Counts(c, qpc[c], cl, {"timing", "granted"})
          /\ open' = open + Counts(c, "idle", cl, UnderWay)
                          - Counts(c, qpc[c], cl, UnderWay)
      BY <1>3, <1>10 DEF Release
    <2>1. out' = out - (IF ClassOf(c) = cl THEN 1 ELSE 0) /\ open' = open
      BY <1>1, <2>0, <1>10 DEF Release, Counts, UnderWay
    <2>2. free'[cl] = free[cl] + (IF ClassOf(c) = cl THEN 1 ELSE 0)
      BY <1>1, <1>2, <1>10 DEF Release
    <2>3. requests' = requests /\ rejected' = rejected
      BY <1>10 DEF Release
    <2> QED
      BY <1>1, <2>1, <2>2, <2>3
  <1> QED
    BY <1>4, <1>5, <1>6, <1>7, <1>8, <1>9, <1>10 DEF Proceed

\* When apply_adaptation looks, what is not free is out, and a caller has at most one.
LEMMA LookLacks == QosInv /\ SeeFree => SeenLacks'
  <1> SUFFICES ASSUME QosInv, SeeFree, NEW cl \in Classes
               PROVE  /\ seen'[cl] <= Capacity[cl]
                      /\ Capacity[cl] - seen'[cl] <= Cardinality(CallersOf(cl))
    BY DEF SeenLacks, CallersOf
  <1> DEFINE out == Having(cl, {"timing", "granted"})
  <1>1. out \subseteq CallersOf(cl) /\ CallersOf(cl) \subseteq Callers
    BY DEF Having, CallersOf
  <1>2. IsFiniteSet(CallersOf(cl))
    BY <1>1, QosAssumption, FS_Subset DEF QosAssumption
  <1>3. /\ Cardinality(out) <= Cardinality(CallersOf(cl)) /\ Cardinality(out) \in Nat
        /\ Cardinality(CallersOf(cl)) \in Nat
    BY <1>1, <1>2, FS_Subset, FS_CardinalityType
  <1>4. free[cl] + Cardinality(out) = Capacity[cl] /\ free[cl] \in Nat
    BY DEF QosInv, QTypeOK, SeeFree, PermitsCounted, Total
  <1>5. seen'[cl] = free[cl] /\ Capacity[cl] \in Nat
    BY QosAssumption DEF QosAssumption, SeeFree
  <1> HIDE DEF out
  <1> QED BY <1>3, <1>4, <1>5

\* The addition leaves the callers alone.
LEMMA AdditionCounts == QosInv /\ AddPermits => PermitsCounted'
  <1> SUFFICES ASSUME QosInv, AddPermits, NEW cl \in Classes
               PROVE  Total(cl)' = IF decision[cl] > seen[cl]
                                   THEN Capacity[cl] + (decision[cl] - seen[cl])
                                   ELSE Capacity[cl]
    BY DEF PermitsCounted, AddPermits
  <1> DEFINE out == Having(cl, {"timing", "granted"})
  <1>1. out' = out /\ out = HavingIn(qpc, cl, {"timing", "granted"})
    BY DEF AddPermits, Having, HavingIn
  <1>2. Cardinality(out) \in Nat
    BY <1>1, HavingFinite
  <1>3. free[cl] + Cardinality(out) = Capacity[cl]
    BY DEF QosInv, AddPermits, PermitsCounted, Total
  <1>4. free[cl] \in Nat /\ decision[cl] \in Nat /\ seen[cl] \in Nat /\ Capacity[cl] \in Nat
    BY QosAssumption DEF QosAssumption, QosInv, QTypeOK
  <1>5. free'[cl] = free[cl] + (IF decision[cl] > seen[cl] THEN decision[cl] - seen[cl] ELSE 0)
    BY DEF AddPermits
  <1>6. Total(cl)' = free'[cl] + Cardinality(out)
    BY <1>1 DEF Total
  <1> HIDE DEF out
  <1> QED BY <1>2, <1>3, <1>4, <1>5, <1>6

\* Every step preserves the invariant.
LEMMA QosStep == QosInv /\ [QNext]_qvars => QosInv'
  <1> SUFFICES ASSUME QosInv, [QNext]_qvars PROVE QosInv'
    OBVIOUS
  <1>1. QTypeOK'
    BY QosTypeStep DEF QosInv
  <1>2. ASSUME NEW c \in Callers, Call(c) \/ Proceed(c) \/ Release(c) PROVE QosInv'
    <2>1. UNCHANGED adaptation
      BY <1>2 DEF Call, Proceed, CountRequest, PassBuckets, FailBuckets, Refuse, Acquire, TimeOut,
             Grant, Release
    <2>2. SeenLacks'
      BY <2>1 DEF QosInv, SeenLacks, CallersOf
    <2> QED
      BY <1>1, <1>2, <2>2, CallerCounts DEF QosInv
  <1>3. ASSUME UNCHANGED <<qpc, statistics>> PROVE RefusalsCovered'
    <2>1. \A cl : Having(cl, UnderWay)' = Having(cl, UnderWay)
      BY <1>3 DEF Having, UnderWay
    <2> QED
      BY <1>3, <2>1 DEF QosInv, RefusalsCovered
  <1>4. ASSUME UNCHANGED <<qpc, statistics, free, seen>>,
               \/ UNCHANGED <<apc, decision>>
               \/ apc \notin {"add", "count"} /\ apc' \notin {"add", "count"}
        PROVE  QosInv'
    <2>1. \A cl : Total(cl)' = Total(cl)
      BY <1>4 DEF Total, Having
    <2>2. PermitsCounted'
      BY <1>4, <2>1 DEF QosInv, PermitsCounted
    <2>3. SeenLacks'
      BY <1>4 DEF QosInv, SeenLacks, CallersOf
    <2> QED
      BY <1>1, <1>3, <1>4, <2>2, <2>3 DEF QosInv
  <1>5. CASE AddPermits
    <2>1. SeenLacks'
      BY <1>5 DEF QosInv, SeenLacks, AddPermits, CallersOf
    <2> QED
      BY <1>1, <1>3, <1>5, <2>1, AdditionCounts DEF AddPermits, QosInv
  <1>6. CASE SeeFree
    <2>1. \A cl : Total(cl)' = Total(cl)
      BY <1>6 DEF SeeFree, Total, Having
    <2>2. PermitsCounted'
      BY <1>6, <2>1 DEF QosInv, PermitsCounted, SeeFree
    <2> QED
      BY <1>1, <1>3, <1>6, <2>2, LookLacks DEF SeeFree, QosInv
  <1>7. CASE UNCHANGED qvars \/ \E cl \in Classes : Refill(cl)
    BY <1>4, <1>7 DEF Refill
  <1>8. CASE AdaptRead \/ AdaptNothing \/ \E d \in Decisions : AdaptDecide(d)
    BY <1>4, <1>8 DEF AdaptRead, AdaptNothing, AdaptDecide
  <1> QED
    BY <1>2, <1>5, <1>6, <1>7, <1>8 DEF QNext, Adapt

\* The invariant holds in every reachable state.
LEMMA QosInvariant == QSpec => []QosInv
  BY QosInit, QosStep, PTL DEF QSpec

\* Every variable keeps its type; no bucket, permit or count falls below zero.
THEOREM QTypeCorrect == QSpec => []QTypeOK
  BY QosInvariant, PTL DEF QosInv

\* Permits are conserved: until an adaptation is applied, what is free and what is out is
\* what there was; after it, what it decided on and at most one more of each caller of the
\* class.  For any number of callers and whatever the adaptation decides.
THEOREM PermitsAreConserved == QSpec => []PermitsConserved
  <1>1. QosInv => PermitsConserved
    <2> SUFFICES ASSUME QosInv, NEW cl \in Classes
                 PROVE  /\ apc # "count" => Total(cl) = Capacity[cl]
                        /\ apc = "count" =>
                              /\ Total(cl) >= Larger(Capacity[cl], decision[cl])
                              /\ Total(cl) <= Larger(Capacity[cl],
                                                decision[cl] + Cardinality(CallersOf(cl)))
      BY DEF PermitsConserved
    <2>1. Total(cl) = IF apc = "count" /\ decision[cl] > seen[cl]
                      THEN Capacity[cl] + (decision[cl] - seen[cl]) ELSE Capacity[cl]
      BY DEF QosInv, PermitsCounted
    <2>2. Capacity[cl] \in Nat /\ decision[cl] \in Nat /\ seen[cl] \in Nat
      BY QosAssumption DEF QosAssumption, QosInv, QTypeOK
    <2>3. Cardinality(CallersOf(cl)) \in Nat
      <3>1. CallersOf(cl) \subseteq Callers
        BY DEF CallersOf
      <3> QED BY <3>1, QosAssumption, FS_Subset, FS_CardinalityType DEF QosAssumption
    <2>4. apc = "count" => /\ seen[cl] <= Capacity[cl]
                           /\ Capacity[cl] - seen[cl] <= Cardinality(CallersOf(cl))
      BY DEF QosInv, SeenLacks
    <2> QED BY <2>1, <2>2, <2>3, <2>4 DEF Larger
  <1> QED BY <1>1, QosInvariant, PTL

\* Refusals are never seen as more than half of the requests.
THEOREM RejectionsAreHalf == QSpec => []HalfRejected
  <1>1. QosInv => HalfRejected
    <2> SUFFICES ASSUME QosInv, NEW cl \in Classes PROVE 2 * rejected[cl] <= requests[cl]
      BY DEF HalfRejected
    <2>1. Having(cl, UnderWay) = HavingIn(qpc, cl, UnderWay)
      BY DEF Having, HavingIn
    <2> QED
      BY <2>1, HavingFinite DEF QosInv, QTypeOK, RefusalsCovered
  <1> QED
    BY <1>1, QosInvariant, PTL

\* Once adapt_quotas has decided on a change nobody is answered any more: no caller gets a
\* permit, no refusal and no request is counted, and the decision is the last.
NobodyIsAnswered ==
    apc \in {"apply", "add", "count"}
        => /\ apc' \in {"apply", "add", "count"} /\ UNCHANGED <<requests, rejected, decision>>
           /\ \A c \in Callers : /\ qpc'[c] = "granted" => qpc[c] = "granted"
                                 /\ qpc[c] \in {"ask", "refuse", "late", "timing"}
                                        => qpc'[c] = qpc[c]

LEMMA AnswersEnd == QTypeOK /\ [QNext]_qvars => NobodyIsAnswered
  <1> SUFFICES ASSUME QTypeOK, [QNext]_qvars, apc \in {"apply", "add", "count"}
               PROVE  NobodyIsAnswered
    BY DEF NobodyIsAnswered
  <1> DEFINE pcs == {"idle", "ask", "quotas", "refuse", "wait", "late", "timing", "granted"}
  <1>0. qpc \in [Callers -> pcs] /\ ~StatisticsFree
    BY DEF QTypeOK, StatisticsFree
  <1>1. CASE UNCHANGED <<requests, rejected, decision, qpc>> /\ apc' \in {"apply", "add", "count"}
    BY <1>1 DEF NobodyIsAnswered
  <1>2. ASSUME NEW c \in Callers, NEW s, Goto(c, s), s # "granted",
               qpc[c] \in {"idle", "quotas", "wait", "granted"},
               UNCHANGED <<requests, rejected, decision, apc>>
        PROVE  NobodyIsAnswered
    BY <1>0, <1>2 DEF NobodyIsAnswered
  <1>3. ASSUME NEW c \in Callers, Call(c) \/ Proceed(c) \/ Release(c)
        PROVE  NobodyIsAnswered
    <2>1. CASE Call(c)
      BY <1>2, <2>1 DEF Call
    <2>2. CASE PassBuckets(c)
      BY <1>2, <2>2 DEF PassBuckets
    <2>3. CASE FailBuckets(c)
      BY <1>2, <2>3 DEF FailBuckets
    <2>4. CASE Acquire(c)
      BY <1>2, <2>4 DEF Acquire
    <2>5. CASE TimeOut(c)
      BY <1>2, <2>5 DEF TimeOut
    <2>6. CASE Release(c)
      BY <1>2, <2>6 DEF Release
    <2>7. ~CountRequest(c) /\ ~Refuse(c) /\ ~Grant(c)
      BY <1>0 DEF CountRequest, Refuse, Grant
    <2> QED BY <1>3, <2>1, <2>2, <2>3, <2>4, <2>5, <2>6, <2>7 DEF Proceed
  <1>4. CASE (\E cl \in Classes : Refill(cl)) \/ UNCHANGED qvars
    BY <1>1, <1>4 DEF Refill
  <1>5. CASE Adapt
    BY <1>1, <1>5 DEF Adapt, AdaptRead, AdaptNothing, SeeFree, AddPermits, AdaptDecide
  <1> QED BY <1>3, <1>4, <1>5 DEF QNext

\* The first change that adapt_quotas decides on is the end of the QoS manager: for any
\* callers and capacities, nobody is granted a permit or refused one from then on.
THEOREM AdaptationIsTheEnd == QSpec => [][NobodyIsAnswered]_qvars
  <1>1. QosInv => QTypeOK
    BY DEF QosInv
  <1> QED BY <1>1, QosInvariant, AnswersEnd, PTL DEF QSpec

-----------------------------------------------------------------------------

(***************************************************************************)
(* The worker pool: it is resized once, and its count stays right.         *)
(***************************************************************************)
HIDE DEF Goto, buckets, statistics, adaptation, qvars
USE DEF Step, pool, plans, locks, bus, svars

(***************************************************************************)
(* The inductive invariant.  A task that resizes has scaling_lock, and the *)
(* auto-scaler has it from its look at the pool on.  Because a resize that *)
(* changed the pool stays at "write", where it keeps the lock, a task that *)
(* is about to resize finds the pool as it was made, and what it has read  *)
(* of the counter is what the counter is when it stores the new size.      *)
(***************************************************************************)
HasLock(t) == \/ tpc[t] \in {"settings", "resize", "spawn", "store", "write"}
              \/ t = "auto" /\ tpc[t] \in {"look", "decide", "again"}

LockHeld == \A t \in Tasks : HasLock(t) => lock = t

ResizerStays ==
    ~(workers = MinWorkers /\ dynamic = 0) => \E t \in Tasks : tpc[t] \in {"store", "write"}

PlanKept == \A t \in Tasks :
    /\ tpc[t] \in {"settings", "resize"} => loaded[t] = MinWorkers
    /\ tpc[t] \in {"spawn", "store"} =>
           resize[t] = "up" /\ loaded[t] = MinWorkers /\ goal[t] \in MinWorkers .. MaxWorkers
    /\ tpc[t] = "store" => workers = MinWorkers /\ dynamic = goal[t] - MinWorkers

GuardsAt == \A t \in Tasks :
    /\ tpc[t] \in {"top", "tick", "look"} => reads[t] = 0
    /\ tpc[t] \in {"lock", "settings", "decide"} => reads[t] <= 1

ScalingInv == STypeOK /\ LockHeld /\ ResizerStays /\ PlanKept /\ GuardsAt /\ PoolCounted

\* The pool as it is made satisfies the invariant.
LEMMA ScalingInit == SInit => ScalingInv
  <1> SUFFICES ASSUME SInit PROVE ScalingInv
    OBVIOUS
  <1> USE ScalingAssumption DEF ScalingAssumption, SInit
  <1>1. STypeOK
    <2>1. commands \in Seq(Commands) /\ Len(commands) = 0
      OBVIOUS
    <2>2. reads \in [Tasks -> 0 .. 2]
      OBVIOUS
    <2>3. resize \in [Tasks -> {"up", "down"}]
      OBVIOUS
    <2>4. tpc \in [Tasks -> {"top", "tick", "lock", "settings", "resize", "spawn", "store",
                             "write", "look", "decide", "again", "stopped"}]
      OBVIOUS
    <2>7. loaded \in [Tasks -> Nat] /\ goal \in [Tasks -> Nat]
      OBVIOUS
    <2>5. workers \in Nat /\ dynamic \in Nat /\ lock = "none" /\ lagged \in BOOLEAN /\ running \in BOOLEAN
      OBVIOUS
    <2>6. Len(commands) <= CommandCap
      BY <2>1
    <2> HIDE DEF SInit
    <2> QED
      BY <2>1, <2>2, <2>3, <2>4, <2>5, <2>6, <2>7 DEF STypeOK
  <1>2. LockHeld
    BY DEF LockHeld, HasLock
  <1>3. ResizerStays /\ PlanKept /\ GuardsAt /\ PoolCounted
    BY DEF ResizerStays, PlanKept, GuardsAt, PoolCounted
  <1> QED
    BY <1>1, <1>2, <1>3 DEF ScalingInv

\* Sending and receiving leave a channel that is no longer than its capacity.
LEMMA ChannelStep ==
    ASSUME commands \in Seq(Commands), Len(commands) <= CommandCap, NEW k \in Commands
    PROVE  /\ Len(commands) < CommandCap =>
                 /\ Append(commands, k) \in Seq(Commands)
                 /\ Len(Append(commands, k)) <= CommandCap
           /\ commands # <<>> =>
                 /\ Tail(commands) \in Seq(Commands) /\ Len(Tail(commands)) <= CommandCap
                 /\ Append(Tail(commands), k) \in Seq(Commands)
                 /\ Len(Append(Tail(commands), k)) <= CommandCap
                 /\ Head(commands) \in Commands
  BY ScalingAssumption DEF ScalingAssumption

\* A command that is sent or received leaves the locks alone.
LEMMA CommandStep ==
    ASSUME ScalingInv, Lag \/ HandleScale \/ HandleEmergency \/ \E k \in Commands : SendCommand(k)
    PROVE  ScalingInv'
  <1> USE DEF ScalingInv, STypeOK, Tasks
  <1>1. ASSUME NEW k \in Commands, SendCommand(k) PROVE ScalingInv'
    <2>1. commands = <<>> => Len(commands) < CommandCap
      BY ScalingAssumption DEF ScalingAssumption
    <2>2. commands' \in Seq(Commands) /\ Len(commands') <= CommandCap
      BY <1>1, <2>1, ChannelStep DEF SendCommand
    <2> QED
      BY <1>1, <2>2 DEF SendCommand, LockHeld, HasLock, ResizerStays, PlanKept, GuardsAt, PoolCounted
  <1>2. CASE Lag
    BY <1>2 DEF Lag, LockHeld, HasLock, ResizerStays, PlanKept, GuardsAt, PoolCounted
  <1>3. CASE HandleScale
    <2>1. commands' \in Seq(Commands) /\ Len(commands') <= CommandCap /\ Head(commands) \in Commands
      BY <1>3, ChannelStep DEF HandleScale, Commands
    <2> QED
      BY <1>3, <2>1 DEF HandleScale, LockHeld, HasLock, ResizerStays, PlanKept, GuardsAt, PoolCounted, Commands
  <1>4. CASE HandleEmergency
    <2>1. commands' \in Seq(Commands) /\ Len(commands') <= CommandCap
      BY <1>4, ChannelStep DEF HandleEmergency, Commands
    <2> QED
      BY <1>4, <2>1 DEF HandleEmergency, LockHeld, HasLock, ResizerStays, PlanKept, GuardsAt, PoolCounted
  <1> QED
    BY <1>1, <1>2, <1>3, <1>4

\* A task that is about to resize finds the pool as it was made.
LEMMA ResizerFindsMinimum ==
    ASSUME ScalingInv, NEW t \in Tasks, tpc[t] \in {"resize", "spawn"} \/ lock = "none"
    PROVE  workers = MinWorkers /\ dynamic = 0
  <1>1. \A u \in Tasks : tpc[u] \notin {"store", "write"}
    BY DEF ScalingInv, LockHeld, HasLock, Tasks
  <1> QED BY <1>1 DEF ScalingInv, ResizerStays

\* The steps of scale_up and scale_down, for the two tasks that get into them.
LEMMA ResizeSteps ==
    ASSUME ScalingInv, NEW t \in Tasks, ResizeStep(t)
    PROVE  ScalingInv'
  <1> USE DEF ScalingInv, STypeOK
  <1>1. CASE Lock(t)
    <2>1. workers = MinWorkers
      BY <1>1, ResizerFindsMinimum DEF Lock
    <2>2. STypeOK' /\ LockHeld' /\ ResizerStays' /\ GuardsAt' /\ PoolCounted'
      BY <1>1 DEF Lock, LockHeld, HasLock, ResizerStays, GuardsAt, PoolCounted, Tasks
    <2>3. PlanKept'
      BY <1>1, <2>1 DEF Lock, PlanKept, Tasks
    <2> QED BY <2>2, <2>3
  <1>2. CASE Settings(t)
    <2>1. reads[t] \in 0 .. 1 /\ reads' \in [Tasks -> 0 .. 2]
      BY <1>2 DEF Settings, ReadSettings, GuardsAt
    <2>2. STypeOK' /\ LockHeld' /\ ResizerStays' /\ PoolCounted' /\ PlanKept'
      BY <1>2, <2>1 DEF Settings, LockHeld, HasLock, ResizerStays, PoolCounted, PlanKept, Tasks
    <2>3. GuardsAt'
      BY <1>2 DEF Settings, ReadSettings, GuardsAt
    <2> QED
      BY <2>2, <2>3
  <1>3. CASE KeepSize(t)
    BY <1>3 DEF KeepSize, Return, LockHeld, HasLock, ResizerStays, PlanKept, GuardsAt, PoolCounted,
           Tasks
  <1>4. ASSUME NEW k \in 1 .. MaxWorkers + 1, NEW optimal \in 1 .. MaxWorkers + 1,
               Plan(t, k, optimal)
        PROVE  ScalingInv'
    <2>1. workers = MinWorkers /\ dynamic = 0 /\ loaded[t] = MinWorkers
      BY <1>4, ResizerFindsMinimum DEF Plan, PlanKept
    <2>2. resize[t] = "up" /\ MinWorkers + k <= MaxWorkers
      BY <1>4, <2>1, ScalingAssumption DEF ScalingAssumption, Plan, Amount
    <2>3. /\ loaded' = [loaded EXCEPT ![t] = MinWorkers]
          /\ goal' = [goal EXCEPT ![t] = MinWorkers + k]
      BY <1>4, <2>1, <2>2, ScalingAssumption DEF Plan, ScalingAssumption
    <2>4. MinWorkers + k \in Nat /\ MinWorkers \in Nat /\ MinWorkers + k \in MinWorkers .. MaxWorkers
      BY <2>2, ScalingAssumption DEF ScalingAssumption
    <2>4a. loaded' \in [Tasks -> Nat] /\ goal' \in [Tasks -> Nat]
      BY <2>3, <2>4
    <2>5. STypeOK' /\ LockHeld' /\ ResizerStays' /\ GuardsAt' /\ PoolCounted'
      BY <1>4, <2>4a DEF Plan, LockHeld, HasLock, ResizerStays, GuardsAt, PoolCounted, Tasks
    <2>6. PlanKept'
      BY <1>4, <2>1, <2>2, <2>3, <2>4 DEF Plan, PlanKept, Tasks
    <2> QED
      BY <2>5, <2>6
  <1>5. CASE Spawn(t)
    <2>1. workers = MinWorkers /\ dynamic = 0
      BY <1>5, ResizerFindsMinimum DEF Spawn
    <2>2. /\ resize[t] = "up" /\ loaded[t] = MinWorkers
          /\ goal[t] \in MinWorkers .. MaxWorkers
      BY <1>5 DEF Spawn, PlanKept
    <2>3. dynamic' = goal[t] - MinWorkers /\ dynamic' \in Nat
      BY <1>5, <2>1, <2>2, ScalingAssumption DEF Spawn, ScalingAssumption
    <2>4. \A u \in Tasks \ {t} : tpc[u] \notin {"spawn", "store"}
      BY <1>5 DEF Spawn, LockHeld, HasLock, Tasks
    <2>5. STypeOK' /\ LockHeld' /\ ResizerStays' /\ GuardsAt' /\ PoolCounted'
      BY <1>5, <2>3 DEF Spawn, LockHeld, HasLock, ResizerStays, GuardsAt, PoolCounted, Tasks
    <2>6. PlanKept'
      BY <1>5, <2>1, <2>2, <2>3, <2>4 DEF Spawn, PlanKept, Tasks
    <2> QED
      BY <2>5, <2>6
  <1>6. CASE Store(t)
    <2>1. /\ goal[t] \in MinWorkers .. MaxWorkers /\ dynamic = goal[t] - MinWorkers
          /\ workers' = goal[t] /\ dynamic' = dynamic
      BY <1>6 DEF Store, PlanKept
    <2>2. workers' \in Nat /\ PoolCounted'
      BY <2>1, ScalingAssumption DEF ScalingAssumption, PoolCounted
    <2>3. \A u \in Tasks \ {t} : tpc[u] \notin {"settings", "resize", "spawn", "store"}
      BY <1>6 DEF Store, LockHeld, HasLock, Tasks
    <2>4. STypeOK' /\ LockHeld' /\ ResizerStays' /\ GuardsAt'
      BY <1>6, <2>2 DEF Store, LockHeld, HasLock, ResizerStays, GuardsAt, Tasks
    <2>5. PlanKept'
      BY <1>6, <2>3 DEF Store, PlanKept, Tasks
    <2> QED
      BY <2>2, <2>4, <2>5
  <1> QED
    BY <1>1, <1>2, <1>3, <1>4, <1>5, <1>6 DEF ResizeStep

\* The auto-scaler's own steps.
LEMMA AutoSteps == ScalingInv /\ AutoStep => ScalingInv'
  <1> SUFFICES ASSUME ScalingInv, AutoStep PROVE ScalingInv'
    OBVIOUS
  <1> USE DEF ScalingInv, STypeOK, Tasks, LockHeld, HasLock, ResizerStays, PlanKept, GuardsAt, PoolCounted
  <1>1. CASE Tick("auto")
    BY <1>1 DEF Tick
  <1>2. CASE AutoLock
    BY <1>2 DEF AutoLock
  <1>3. CASE AutoLook
    BY <1>3 DEF AutoLook, ReadSettings
  <1>4. CASE AutoNothing
    BY <1>4 DEF AutoNothing, Return
  <1>5. CASE AutoScale
    BY <1>5 DEF AutoScale
  <1>6. CASE LoopEnd("auto")
    BY <1>6 DEF LoopEnd
  <1> QED
    BY <1>1, <1>2, <1>3, <1>4, <1>5, <1>6 DEF AutoStep

\* The performance monitor's own steps.
LEMMA MonSteps == ScalingInv /\ MonStep => ScalingInv'
  <1> SUFFICES ASSUME ScalingInv, MonStep PROVE ScalingInv'
    OBVIOUS
  <1>1. CASE ResizeStep("mon")
    BY <1>1, ResizeSteps DEF Tasks
  <1> USE DEF ScalingInv, STypeOK, Tasks, LockHeld, HasLock, ResizerStays, PlanKept, GuardsAt, PoolCounted
  <1>2. CASE Tick("mon")
    BY <1>2 DEF Tick
  <1>3. CASE MonLook
    BY <1>3 DEF MonLook, ReadSettings
  <1>4. CASE MonNothing
    BY <1>4 DEF MonNothing
  <1>5. CASE MonScale
    BY <1>5 DEF MonScale
  <1>6. CASE LoopEnd("mon")
    BY <1>6 DEF LoopEnd
  <1> QED
    BY <1>1, <1>2, <1>3, <1>4, <1>5, <1>6 DEF MonStep

\* Every step preserves the invariant.
LEMMA ScalingStep == ScalingInv /\ [SNext]_svars => ScalingInv'
  <1> SUFFICES ASSUME ScalingInv, [SNext]_svars PROVE ScalingInv'
    OBVIOUS
  <1>1. CASE UNCHANGED svars
    BY <1>1 DEF ScalingInv, STypeOK, LockHeld, HasLock, ResizerStays, PlanKept, GuardsAt, PoolCounted
  <1>2. CASE CmdStep
    BY <1>2, CommandStep, ResizeSteps DEF CmdStep, Tasks
  <1> QED
    BY <1>1, <1>2, CommandStep, AutoSteps, MonSteps DEF SNext

\* The invariant holds in every reachable state.
LEMMA ScalingInvariant == SSpec => []ScalingInv
  BY ScalingInit, ScalingStep, PTL DEF SSpec

\* Every variable keeps its type; no task has more than two guards of the
\* settings, and the channel never holds more than its capacity.
THEOREM STypeCorrect == SSpec => []STypeOK
  BY ScalingInvariant, PTL DEF ScalingInv

\* The pool's counter agrees with the tasks that were spawned and keeps within
\* the limits, whoever resizes and in whatever order.
THEOREM PoolStaysCounted == SSpec => []PoolCounted
  BY ScalingInvariant, PTL DEF ScalingInv

\* The size of the pool changes at most once: scale_up and scale_down never let
\* go of scaling_lock when they have changed it, so that the next task that
\* would resize waits for ever.
THEOREM ResizedOnce == SSpec => [][workers' # workers => workers = MinWorkers]_svars
  <1>1. ScalingInv /\ [SNext]_svars => [workers' # workers => workers = MinWorkers]_svars
    <2> SUFFICES ASSUME ScalingInv, SNext, workers' # workers PROVE workers = MinWorkers
      OBVIOUS
    <2>1. PICK t \in Tasks : ResizeStep(t)
      BY DEF SNext, CmdStep, AutoStep, MonStep, SendCommand, Lag, HandleScale, HandleEmergency,
         Tick, AutoLock, AutoLook, AutoNothing, AutoScale, MonLook, MonNothing, MonScale,
         LoopEnd, Tasks
    <2>2. tpc[t] = "store"
      BY <2>1 DEF ResizeStep, Lock, Settings, KeepSize, Plan, Spawn, Store
    <2> QED
      BY <2>2 DEF ScalingInv, PlanKept
  <1> QED
    BY <1>1, ScalingInvariant, PTL DEF SSpec
===============================================================================
