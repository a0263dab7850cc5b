---------------------------- MODULE ServerProofs ------------------------------
(***************************************************************************)
(* What holds of the server, for any number of connections, clients,       *)
(* queries and replicas: the registries follow the connection's task, the  *)
(* reader's count is right, and a frame gets one answer, on its own stream,*)
(* or none; the operations of the monitoring that should not hang do not;  *)
(* and the limits, the batches and the replicas of the SQL server.         *)
(***************************************************************************)
EXTENDS MCServer, FilterTheorems, FiniteSetTheorems

(***************************************************************************)
(* The connections.                                                        *)
(***************************************************************************)
LEMMA NextCases ==
    ASSUME Next
    PROVE  \/ \E c \in Conns :
                 \/ HandshakeFails(c) \/ AddSession(c) \/ StartReader(c) \/ ReaderRefused(c)
                 \/ RegisterWriter(c) \/ Announce(c) \/ RegisterSession(c) \/ TimeOut(c)
                 \/ LockCleanup(c) \/ RemoveHeartbeat(c) \/ RemoveSession(c)
           \/ \E c \in Conns : ReadEnds(c) \/ HandleOpened(c) \/ HandleClosed(c)
           \/ \E f \in Frames : \/ ReadFrame(f) \/ HandleData(f) \/ Lose(f) \/ FindSession(f)
                                \/ Beat(f) \/ WriteAnswer(f) \/ WriteFails(f)
           \/ Convert \/ Shutdown
BY DEF Next, TaskStep, ReaderStep, EventStep, FrameStep

LEMMA AppendAt ==
    ASSUME NEW s \in Seq(Events), NEW e \in Events
    PROVE  /\ Append(s, e) \in Seq(Events)
           /\ Len(s) \in Nat /\ Len(Append(s, e)) = Len(s) + 1
           /\ \A i \in 1..Len(s) : Append(s, e)[i] = s[i]
           /\ Append(s, e)[Len(s) + 1] = e
OBVIOUS

LEMMA AppendEvent ==
    ASSUME NEW s \in Seq(Events), NEW e \in Events
    PROVE  /\ Append(s, e) \in Seq(Events)
           /\ \A x : Contains(Append(s, e), x) <=> Contains(s, x) \/ x = e
<1>1. Append(s, e) \in Seq(Events) /\ Len(Append(s, e)) = Len(s) + 1 /\ Len(s) \in Nat
    BY AppendAt
<1>2. /\ \A i \in 1..Len(s) : Append(s, e)[i] = s[i]
      /\ Append(s, e)[Len(s) + 1] = e
    BY AppendAt
<1>3. ASSUME NEW x, Contains(s, x)
      PROVE  Contains(Append(s, e), x)
    BY <1>1, <1>2, <1>3 DEF Contains
<1>4. Contains(Append(s, e), e)
    BY <1>1, <1>2 DEF Contains
<1>5. ASSUME NEW x, Contains(Append(s, e), x), x # e
      PROVE  Contains(s, x)
    <2>1. PICK i \in 1..(Len(s) + 1) : Append(s, e)[i] = x
        BY <1>1, <1>5 DEF Contains
    <2>2. i \in 1..Len(s)
        BY <1>1, <1>2, <1>5, <2>1
    <2> QED BY <1>2, <2>1, <2>2 DEF Contains
<1> QED BY <1>1, <1>3, <1>4, <1>5

LEMMA TailEvent ==
    ASSUME NEW s \in Seq(Events), s # <<>>
    PROVE  /\ Head(s) \in Events /\ Tail(s) \in Seq(Events)
           /\ \A x : Contains(s, x) <=> Head(s) = x \/ Contains(Tail(s), x)
<1>1. Head(s) \in Events /\ Tail(s) \in Seq(Events)
    OBVIOUS
<1>2. ASSUME NEW x, Contains(Tail(s), x)
      PROVE  Contains(s, x)
    <2>1. PICK i \in 1..Len(Tail(s)) : Tail(s)[i] = x
        BY <1>2 DEF Contains
    <2>2. i + 1 \in 1..Len(s) /\ s[i + 1] = x
        BY <2>1
    <2> QED BY <2>2 DEF Contains
<1>3. ASSUME NEW x, Contains(s, x), Head(s) # x
      PROVE  Contains(Tail(s), x)
    <2>1. PICK i \in 1..Len(s) : s[i] = x
        BY <1>3 DEF Contains
    <2>2. i # 1 /\ i - 1 \in 1..Len(Tail(s)) /\ Tail(s)[i - 1] = x
        BY <1>3, <2>1
    <2> QED BY <2>2 DEF Contains
<1>4. Contains(s, Head(s))
    BY DEF Contains
<1> QED BY <1>1, <1>2, <1>3, <1>4

(***************************************************************************)
(* Types, and the count of the readers.                                    *)
(***************************************************************************)
Reading == {c \in Conns : reader[c] = "reading"}
CountIsRight == count = Cardinality(Reading)

LEMMA ReadingFinite == IsFiniteSet(Reading)
BY ConnectionsAssumption, FS_Subset DEF ConnectionsAssumption, Reading

LEMMA CountInit == Init => CountIsRight
<1>1. Init => Reading = {}
    BY DEF Init, Reading
<1> QED BY <1>1, FS_EmptySet DEF Init, CountIsRight

LEMMA CountUp ==
    ASSUME TypeOK, CountIsRight, NEW c \in Conns, reader[c] # "reading",
           reader' = [reader EXCEPT ![c] = "reading"], count' = count + 1
    PROVE  CountIsRight'
<1>1. Reading' = Reading \cup {c} /\ c \notin Reading
    BY DEF Reading, TypeOK
<1> QED BY <1>1, ReadingFinite, FS_AddElement DEF CountIsRight

LEMMA CountDown ==
    ASSUME TypeOK, CountIsRight, NEW c \in Conns, reader[c] = "reading",
           reader' = [reader EXCEPT ![c] = "ended"], count' = count - 1
    PROVE  CountIsRight' /\ count' \in Nat
<1>1. Reading' = Reading \ {c} /\ c \in Reading
    BY DEF Reading, TypeOK
<1>2. CountIsRight'
    BY <1>1, ReadingFinite, FS_RemoveElement DEF CountIsRight
<1>3. IsFiniteSet(Reading')
    BY <1>1, ReadingFinite, FS_Subset
<1> QED BY <1>2, <1>3, FS_CardinalityType DEF CountIsRight

\* A connection whose reader has not been started has none.
NoReaderYet == \A c \in Conns : task[c] \in {"away", "read"} => reader[c] = "none"

TypeInv == TypeOK /\ CountIsRight /\ NoReaderYet

LEMMA TypeInit == Init => TypeInv
<1>1. Init => TypeOK
    BY ConnectionsAssumption DEF ConnectionsAssumption, Init, TypeOK, Steps, FrameSteps, Events
<1> QED BY <1>1, CountInit DEF Init, TypeInv, NoReaderYet

LEMMA TypeTask ==
    ASSUME TypeInv, NEW c \in Conns,
           \/ HandshakeFails(c) \/ AddSession(c) \/ ReaderRefused(c)
           \/ RegisterWriter(c) \/ Announce(c) \/ RegisterSession(c) \/ TimeOut(c)
           \/ LockCleanup(c) \/ RemoveHeartbeat(c) \/ RemoveSession(c)
    PROVE  TypeInv'
<1> USE DEF registries, streams, channels, frames, Task, Steps
<1>1. CountIsRight'
    BY DEF TypeInv, CountIsRight, Reading, HandshakeFails, AddSession, ReaderRefused, RegisterWriter,
           Announce, RegisterSession, TimeOut, LockCleanup, RemoveHeartbeat, RemoveSession
<1>2. task' \in [Conns -> Steps] /\ NoReaderYet'
    BY DEF TypeInv, TypeOK, NoReaderYet, HandshakeFails, AddSession, ReaderRefused,
           RegisterWriter, Announce, RegisterSession, TimeOut, LockCleanup, RemoveHeartbeat,
           RemoveSession
<1>3. systemEvents' \in Seq(Events)
    <2>1. <<"opened", c>> \in Events
        BY DEF Events
    <2>2. systemEvents' \in {systemEvents, Append(systemEvents, <<"opened", c>>)}
        BY DEF HandshakeFails, AddSession, ReaderRefused, RegisterWriter, Announce,
               RegisterSession, TimeOut, LockCleanup, RemoveHeartbeat, RemoveSession
    <2>3. systemEvents \in Seq(Events)
        BY DEF TypeInv, TypeOK
    <2> QED BY <2>1, <2>2, <2>3, AppendEvent
<1>4. TypeOK'
    BY <1>2, <1>3 DEF TypeInv, TypeOK, HandshakeFails, AddSession, ReaderRefused, RegisterWriter,
           Announce, RegisterSession, TimeOut, LockCleanup, RemoveHeartbeat, RemoveSession
<1> QED BY <1>1, <1>2, <1>4 DEF TypeInv

LEMMA TypeStart ==
    ASSUME TypeInv, NEW c \in Conns, StartReader(c)
    PROVE  TypeInv'
<1>1. CountIsRight'
    BY CountUp DEF TypeInv, StartReader, NoReaderYet, Task
<1>2. NoReaderYet'
    <2>1. task' = [task EXCEPT ![c] = "write"] /\ reader' = [reader EXCEPT ![c] = "reading"]
        BY DEF StartReader, Task
    <2> QED BY <2>1 DEF TypeInv, TypeOK, NoReaderYet
<1>3. TypeOK'
    BY DEF TypeInv, TypeOK, StartReader, Task, Steps, registries, channels, frames
<1> QED BY <1>1, <1>2, <1>3 DEF TypeInv

LEMMA TypeEnds ==
    ASSUME TypeInv, NEW c \in Conns, reader[c] = "reading", Ends(c)
    PROVE  /\ CountIsRight' /\ count' \in Nat /\ readerEvents' \in Seq(Events)
           /\ reader' \in [Conns -> {"none", "reading", "ended"}]
           /\ task' = task => NoReaderYet'
<1>1. <<"closed", c>> \in Events
    BY DEF Events
<1>2. readerEvents' \in Seq(Events)
    BY <1>1, AppendEvent DEF TypeInv, TypeOK, Ends
<1> QED BY <1>2, CountDown DEF TypeInv, TypeOK, Ends, NoReaderYet

LEMMA TypeReader ==
    ASSUME TypeInv, \/ \E c \in Conns : ReadEnds(c)
                    \/ \E f \in Frames : ReadFrame(f)
    PROVE  TypeInv'
<1>1. CASE \E c \in Conns : ReadEnds(c)
    <2>1. PICK c \in Conns : ReadEnds(c)
        BY <1>1
    <2>2. /\ CountIsRight' /\ count' \in Nat /\ readerEvents' \in Seq(Events) /\ NoReaderYet'
          /\ reader' \in [Conns -> {"none", "reading", "ended"}]
        BY <2>1, TypeEnds DEF ReadEnds
    <2> QED BY <2>1, <2>2 DEF TypeInv, TypeOK, ReadEnds, registries, frames
<1>2. CASE \E f \in Frames : ReadFrame(f)
    <2>1. PICK f \in Frames : ReadFrame(f)
        BY <1>2
    <2>2. FrameOf[f] \in Conns
        BY ConnectionsAssumption DEF ConnectionsAssumption
    <2>3. CASE converter = "running"
        <3>1. <<"data", f>> \in Events
            BY DEF Events
        <3>2. readerEvents' \in Seq(Events)
            <4>1. readerEvents' = Append(readerEvents, <<"data", f>>)
                BY <2>1, <2>3 DEF ReadFrame
            <4>2. readerEvents \in Seq(Events)
                BY DEF TypeInv, TypeOK
            <4> QED BY <3>1, <4>1, <4>2, AppendEvent
        <3>3. frame' \in [Frames -> FrameSteps] /\ UNCHANGED <<reader, count, task>>
            BY <2>1, <2>3 DEF TypeInv, TypeOK, ReadFrame, Move, FrameSteps
        <3>4. CountIsRight' /\ NoReaderYet'
            BY <3>3 DEF TypeInv, CountIsRight, Reading, NoReaderYet
        <3> QED BY <2>1, <3>2, <3>3, <3>4 DEF TypeInv, TypeOK, ReadFrame, registries
    <2>4. CASE converter # "running"
        <3>1. Ends(FrameOf[f]) /\ reader[FrameOf[f]] = "reading" /\ task' = task
            BY <2>1, <2>4 DEF ReadFrame
        <3>2. /\ CountIsRight' /\ count' \in Nat /\ readerEvents' \in Seq(Events) /\ NoReaderYet'
              /\ reader' \in [Conns -> {"none", "reading", "ended"}]
            BY <2>2, <3>1, TypeEnds
        <3>3. frame' \in [Frames -> FrameSteps]
            BY <2>1, <2>4 DEF TypeInv, TypeOK, ReadFrame, Move, FrameSteps
        <3> QED BY <2>1, <3>2, <3>3 DEF TypeInv, TypeOK, ReadFrame, registries
    <2> QED BY <2>3, <2>4
<1> QED BY <1>1, <1>2

LEMMA TypeRest ==
    ASSUME TypeInv, \/ \E c \in Conns : HandleOpened(c) \/ HandleClosed(c)
                    \/ \E f \in Frames : \/ HandleData(f) \/ Lose(f) \/ FindSession(f)
                                         \/ Beat(f) \/ WriteAnswer(f) \/ WriteFails(f)
                    \/ Convert \/ Shutdown
    PROVE  TypeInv'
<1> USE DEF registries, streams, channels, frames
<1>1. UNCHANGED <<task, reader, count>>
    BY DEF HandleOpened, HandleClosed, HandleData, Lose, FindSession, Beat, WriteAnswer,
           WriteFails, Convert, Shutdown
<1>2. CountIsRight' /\ NoReaderYet'
    BY <1>1 DEF TypeInv, CountIsRight, Reading, NoReaderYet
<1>3. CASE \E c \in Conns : HandleOpened(c) \/ HandleClosed(c)
    <2>1. PICK c \in Conns : HandleOpened(c) \/ HandleClosed(c)
        BY <1>3
    <2>2. systemEvents' \in Seq(Events)
        BY <2>1, TailEvent DEF TypeInv, TypeOK, HandleOpened, HandleClosed, Take
    <2> QED BY <1>2, <2>1, <2>2 DEF TypeInv, TypeOK, HandleOpened, HandleClosed
<1>4. ASSUME NEW f \in Frames, HandleData(f)
      PROVE  TypeInv'
    <2>1. systemEvents' \in Seq(Events)
        BY <1>4, TailEvent DEF TypeInv, TypeOK, HandleData, Take
    <2> QED BY <1>2, <1>4, <2>1 DEF TypeInv, TypeOK, HandleData, Move, FrameSteps
<1>5. ASSUME NEW f \in Frames, Lose(f) \/ FindSession(f) \/ Beat(f) \/ WriteAnswer(f) \/ WriteFails(f)
      PROVE  TypeInv'
    <2>1. FrameOf[f] \in Conns
        BY ConnectionsAssumption DEF ConnectionsAssumption
    <2>2. frame' \in [Frames -> FrameSteps]
        BY <1>5 DEF TypeInv, TypeOK, Lose, FindSession, Beat, WriteAnswer, WriteFails, Move,
               Losing, FrameSteps
    <2>3. /\ verdict' \in [Frames -> {"none", "acknowledged", "unknown"}]
          /\ heard' \in [Frames -> Conns \cup {None}]
          /\ writer' \in [Conns -> {"none", "active", "broken"}]
        BY <1>5, <2>1 DEF TypeInv, TypeOK, Lose, FindSession, Beat, WriteAnswer, WriteFails
    <2> QED BY <1>2, <1>5, <2>2, <2>3
            DEF TypeInv, TypeOK, Lose, FindSession, Beat, WriteAnswer, WriteFails
<1>6. CASE Convert
    <2>1. /\ Head(readerEvents) \in Events /\ Tail(readerEvents) \in Seq(Events)
          /\ <<>> \in Seq(Events)
        BY <1>6, TailEvent DEF TypeInv, TypeOK, Convert
    <2>2. readerEvents' \in Seq(Events)
        BY <1>6, <2>1 DEF Convert
    <2>3. systemEvents' \in Seq(Events)
        BY <1>6, <2>1, AppendEvent DEF TypeInv, TypeOK, Convert
    <2>4. frame' \in [Frames -> FrameSteps]
        BY <1>6 DEF TypeInv, TypeOK, Convert, FrameSteps
    <2> QED BY <1>2, <1>6, <2>2, <2>3, <2>4 DEF TypeInv, TypeOK, Convert
<1>7. CASE Shutdown
    BY <1>2, <1>7 DEF TypeInv, TypeOK, Shutdown
<1> QED BY <1>3, <1>4, <1>5, <1>6, <1>7

LEMMA TypeStep == TypeInv /\ [Next]_vars => TypeInv'
<1>1. TypeInv /\ Next => TypeInv'
    BY NextCases, TypeTask, TypeStart, TypeReader, TypeRest
<1>2. TypeInv /\ UNCHANGED vars => TypeInv'
    BY DEF vars, registries, streams, channels, frames, TypeInv, TypeOK, CountIsRight, Reading,
           NoReaderYet
<1> QED BY <1>1, <1>2

\* Every variable keeps its type; the count of the readers never falls below zero.
THEOREM TypeCorrect == Spec => []TypeOK
<1>1. Spec => []TypeInv
    BY TypeInit, TypeStep, PTL DEF Spec
<1> QED BY <1>1, PTL DEF TypeInv

(***************************************************************************)
(* The registries follow the connection's task.                            *)
(***************************************************************************)
Entered == {"read", "write", "announce", "register", "serving", "lock", "unbeat"}

RegisteredAt(c) ==
    /\ c \in managed <=> task[c] \in Entered
    /\ c \in sessions <=> task[c] \in Entered \cup {"unsession"}
    /\ c \in heartbeats => task[c] \in {"serving", "lock", "unbeat"}
    /\ task[c] = "serving" => c \in heartbeats

Registered == \A c \in Conns : RegisteredAt(c)

LEMMA RegisteredInit == Init => Registered
BY DEF Init, Registered, RegisteredAt, Entered

\* A step of one connection's task leaves the others where they are.
LEMMA RegisteredTask ==
    ASSUME TypeOK, Registered, NEW c \in Conns,
           \/ HandshakeFails(c) \/ AddSession(c) \/ StartReader(c) \/ ReaderRefused(c)
           \/ RegisterWriter(c) \/ Announce(c) \/ RegisterSession(c) \/ TimeOut(c)
           \/ LockCleanup(c) \/ RemoveHeartbeat(c) \/ RemoveSession(c)
    PROVE  Registered'
<1> USE DEF registries, Task
<1>1. ASSUME NEW d \in Conns, d # c
      PROVE  RegisteredAt(d)'
    <2>1. /\ task'[d] = task[d]
          /\ d \in managed' <=> d \in managed
          /\ d \in sessions' <=> d \in sessions
          /\ d \in heartbeats' <=> d \in heartbeats
        BY <1>1 DEF TypeOK, HandshakeFails, AddSession, StartReader, ReaderRefused,
           RegisterWriter, Announce, RegisterSession, TimeOut, LockCleanup, RemoveHeartbeat,
           RemoveSession
    <2> QED BY <2>1 DEF Registered, RegisteredAt
<1>2. RegisteredAt(c)'
    <2> USE DEF TypeOK, Registered, RegisteredAt, Entered
    <2>1. CASE HandshakeFails(c)
        BY <2>1 DEF HandshakeFails
    <2>2. CASE AddSession(c)
        BY <2>2 DEF AddSession
    <2>3. CASE StartReader(c)
        BY <2>3 DEF StartReader
    <2>4. CASE ReaderRefused(c)
        BY <2>4 DEF ReaderRefused
    <2>5. CASE RegisterWriter(c)
        BY <2>5 DEF RegisterWriter
    <2>6. CASE Announce(c)
        BY <2>6 DEF Announce
    <2>7. CASE RegisterSession(c)
        BY <2>7 DEF RegisterSession
    <2>8. CASE TimeOut(c)
        BY <2>8 DEF TimeOut
    <2>9. CASE LockCleanup(c)
        BY <2>9 DEF LockCleanup
    <2>10. CASE RemoveHeartbeat(c)
        BY <2>10 DEF RemoveHeartbeat
    <2>11. CASE RemoveSession(c)
        BY <2>11 DEF RemoveSession
    <2> QED BY <2>1, <2>2, <2>3, <2>4, <2>5, <2>6, <2>7, <2>8, <2>9, <2>10, <2>11
<1> QED BY <1>1, <1>2 DEF Registered

\* What readers, events and frames do is no registry's business.
LEMMA OthersLeaveRegistries ==
    ASSUME \/ \E c \in Conns : ReadEnds(c) \/ HandleOpened(c) \/ HandleClosed(c)
           \/ \E f \in Frames : \/ ReadFrame(f) \/ HandleData(f) \/ Lose(f) \/ FindSession(f)
                                \/ Beat(f) \/ WriteAnswer(f) \/ WriteFails(f)
           \/ Convert \/ Shutdown
    PROVE  UNCHANGED <<task, sessions, heartbeats, managed>>
BY DEF ReadEnds, HandleOpened, HandleClosed, ReadFrame, HandleData, Lose, FindSession, Beat,
       WriteAnswer, WriteFails, Convert, Shutdown, registries

LEMMA RegisteredStep == TypeOK /\ Registered /\ [Next]_vars => Registered'
<1>1. UNCHANGED <<task, sessions, heartbeats, managed>> /\ Registered => Registered'
    BY DEF Registered, RegisteredAt
<1>2. TypeOK /\ Registered /\ Next => Registered'
    BY <1>1, NextCases, RegisteredTask, OthersLeaveRegistries
<1>3. UNCHANGED vars => UNCHANGED <<task, sessions, heartbeats, managed>>
    BY DEF vars, registries
<1> QED BY <1>1, <1>2, <1>3

\* The step of a connection's task says which registries have it: it is managed and has a
\* session just at the steps that say so, and a heartbeat at no others than those.
THEOREM AlwaysRegistered == Spec => []Registered
<1>1. Spec => []TypeOK
    BY TypeCorrect
<1> QED BY <1>1, RegisteredInit, RegisteredStep, PTL DEF Spec

\* A connection whose task has ended is in no registry.
THEOREM GoneIsGone == Spec => []GoneLeavesNothing
<1>1. Registered => GoneLeavesNothing
    BY DEF Registered, RegisteredAt, Entered, GoneLeavesNothing
<1> QED BY <1>1, AlwaysRegistered, PTL

\* The heartbeat manager only has sessions that exist.
THEOREM HeartbeatsAreOfSessions == Spec => []HeartbeatHasSession
<1>1. Registered /\ TypeOK => HeartbeatHasSession
    BY DEF Registered, RegisteredAt, Entered, HeartbeatHasSession, TypeOK
<1> QED BY <1>1, AlwaysRegistered, TypeCorrect, PTL

\* A heartbeat is only answered with "Session not found" before the session is
\* registered or while it is cleaned up.
THEOREM ServedAreKnown == Spec => UnknownOnlyAtEdges
<1>1. ASSUME TypeOK, Registered, [Next]_vars, NEW f \in Frames,
             verdict'[f] = "unknown", verdict[f] = "none"
      PROVE  task[FrameOf[f]] # "serving"
    <2>1. PICK g \in Frames : Beat(g)
        <3>1. verdict' # verdict
            BY <1>1
        <3>2. Next
            BY <1>1, <3>1 DEF vars, frames
        <3> USE DEF frames
        <3> QED BY <3>1, <3>2, NextCases
                DEF HandshakeFails, AddSession, StartReader, ReaderRefused, RegisterWriter,
                    Announce, RegisterSession, TimeOut, LockCleanup, RemoveHeartbeat,
                    RemoveSession, ReadEnds, ReadFrame, HandleOpened, HandleClosed, HandleData,
                    Lose, FindSession, WriteAnswer, WriteFails, Convert, Shutdown
    <2>2. g = f /\ FrameOf[f] \notin heartbeats
        BY <1>1, <2>1 DEF Beat, TypeOK
    <2>3. FrameOf[f] \in Conns
        BY ConnectionsAssumption DEF ConnectionsAssumption
    <2> QED BY <1>1, <2>2, <2>3 DEF Registered, RegisteredAt
<1>2. TypeOK /\ Registered /\ [Next]_vars =>
        [\A f \in Frames : verdict'[f] = "unknown" /\ verdict[f] = "none"
                              => task[FrameOf[f]] # "serving"]_vars
    BY <1>1
<1> QED BY <1>2, TypeCorrect, AlwaysRegistered, PTL DEF Spec, UnknownOnlyAtEdges

(***************************************************************************)
(* A frame gets one answer, on its own stream, or none: this is            *)
(* FrameService, once the events that the reader sent are known to be      *)
(* apart, each of a frame that is with the reader.                         *)
(***************************************************************************)
FrameEvents ==
    \A f \in Frames : \A i \in 1..Len(readerEvents) : readerEvents[i] = <<"data", f>>
        => /\ frame[f] = "reader"
           /\ \A j \in 1..Len(readerEvents) : readerEvents[j] = <<"data", f>> => j = i

LEMMA FrameEventsAppend ==
    ASSUME NEW s \in Seq(Events), NEW e \in Events, NEW f \in Frames,
           NEW i \in 1..Len(Append(s, e)), Append(s, e)[i] = <<"data", f>>
    PROVE  \/ i \in 1..Len(s) /\ s[i] = <<"data", f>>
           \/ i = Len(s) + 1 /\ e = <<"data", f>>
<1>1. Len(s) \in Nat /\ i \in 1..(Len(s) + 1)
    BY AppendAt
<1>2. CASE i = Len(s) + 1
    BY <1>2, AppendAt
<1>3. CASE i # Len(s) + 1
    <2>1. i \in 1..Len(s)
        BY <1>1, <1>3
    <2> QED BY <2>1, AppendAt
<1> QED BY <1>2, <1>3

LEMMA FrameEventsGrow ==
    ASSUME TypeOK, FrameEvents, NEW e \in Events, readerEvents' = Append(readerEvents, e),
           \A f \in Frames : /\ frame[f] = "reader" => frame'[f] = "reader" /\ e # <<"data", f>>
                             /\ e = <<"data", f>> => frame'[f] = "reader"
    PROVE  FrameEvents'
<1> SUFFICES ASSUME NEW f \in Frames, NEW i \in 1..Len(readerEvents'),
                    readerEvents'[i] = <<"data", f>>,
                    NEW j \in 1..Len(readerEvents')
             PROVE  /\ frame'[f] = "reader"
                    /\ readerEvents'[j] = <<"data", f>> => j = i
    BY DEF FrameEvents
<1>1. readerEvents \in Seq(Events)
    BY DEF TypeOK
<1>2. \/ i \in 1..Len(readerEvents) /\ readerEvents[i] = <<"data", f>>
      \/ i = Len(readerEvents) + 1 /\ e = <<"data", f>>
    BY <1>1, FrameEventsAppend
<1>3. readerEvents'[j] = <<"data", f>> =>
        \/ j \in 1..Len(readerEvents) /\ readerEvents[j] = <<"data", f>>
        \/ j = Len(readerEvents) + 1 /\ e = <<"data", f>>
    BY <1>1, FrameEventsAppend
<1> QED BY <1>2, <1>3 DEF FrameEvents

LEMMA FrameEventsShrink ==
    ASSUME TypeOK, FrameEvents, readerEvents # <<>>, readerEvents' = Tail(readerEvents),
           \A f \in Frames : frame[f] = "reader" /\ Head(readerEvents) # <<"data", f>>
                                => frame'[f] = "reader"
    PROVE  FrameEvents'
<1> SUFFICES ASSUME NEW f \in Frames, NEW i \in 1..Len(readerEvents'),
                    readerEvents'[i] = <<"data", f>>,
                    NEW j \in 1..Len(readerEvents')
             PROVE  /\ frame'[f] = "reader"
                    /\ readerEvents'[j] = <<"data", f>> => j = i
    BY DEF FrameEvents
<1>1. readerEvents \in Seq(Events)
    BY DEF TypeOK
<1>2. /\ i + 1 \in 1..Len(readerEvents) /\ readerEvents[i + 1] = <<"data", f>>
      /\ j + 1 \in 1..Len(readerEvents) /\ readerEvents[j + 1] = readerEvents'[j]
      /\ 1 \in 1..Len(readerEvents) /\ Head(readerEvents) = readerEvents[1]
      /\ i + 1 # 1 /\ i \in Nat /\ j \in Nat
    BY <1>1
<1>3. frame[f] = "reader" /\ Head(readerEvents) # <<"data", f>>
    BY <1>2 DEF FrameEvents
<1>4. readerEvents'[j] = <<"data", f>> => j + 1 = i + 1
    BY <1>2 DEF FrameEvents
<1> QED BY <1>2, <1>3, <1>4

\* Steps that leave the reader's channel alone move no frame that is with the reader.
LEMMA FrameEventsKept ==
    ASSUME FrameEvents, UNCHANGED readerEvents,
           \A f \in Frames : frame[f] = "reader" => frame'[f] = "reader"
    PROVE  FrameEvents'
BY DEF FrameEvents

LEMMA FrameEventsStep == TypeOK /\ FrameEvents /\ [Next]_vars => FrameEvents'
<1> SUFFICES ASSUME TypeOK, FrameEvents, [Next]_vars
             PROVE  FrameEvents'
    OBVIOUS
<1> USE DEF channels, frames
<1>1. CASE UNCHANGED <<readerEvents, frame>>
    BY <1>1 DEF FrameEvents
<1>2. CASE Next
    <2>1. CASE \E c \in Conns :
                 \/ HandshakeFails(c) \/ AddSession(c) \/ StartReader(c) \/ ReaderRefused(c)
                 \/ RegisterWriter(c) \/ Announce(c) \/ RegisterSession(c) \/ TimeOut(c)
                 \/ LockCleanup(c) \/ RemoveHeartbeat(c) \/ RemoveSession(c)
        BY <1>1, <2>1 DEF HandshakeFails, AddSession, StartReader, ReaderRefused,
           RegisterWriter, Announce, RegisterSession, TimeOut, LockCleanup, RemoveHeartbeat,
           RemoveSession
    <2>2. CASE \E c \in Conns : HandleOpened(c) \/ HandleClosed(c)
        BY <1>1, <2>2 DEF HandleOpened, HandleClosed
    <2>3. ASSUME NEW c \in Conns, ReadEnds(c)
          PROVE  FrameEvents'
        <3>1. <<"closed", c>> \in Events /\ \A f \in Frames : <<"closed", c>> # <<"data", f>>
            BY DEF Events
        <3>2. UNCHANGED frame /\ readerEvents' \in {readerEvents,
                                                   Append(readerEvents, <<"closed", c>>)}
            BY <2>3 DEF ReadEnds, Ends
        <3> QED BY <1>1, <3>1, <3>2, FrameEventsGrow
    <2>4. ASSUME NEW f \in Frames, ReadFrame(f)
          PROVE  FrameEvents'
        <3>1. FrameOf[f] \in Conns
            BY ConnectionsAssumption DEF ConnectionsAssumption
        <3>2. CASE converter = "running"
            <4>1. <<"data", f>> \in Events
                BY DEF Events
            <4>2. frame[f] = "unsent" /\ frame' = [frame EXCEPT ![f] = "reader"]
                  /\ readerEvents' = Append(readerEvents, <<"data", f>>)
                BY <2>4, <3>2 DEF ReadFrame, Move
            <4>3. \A g \in Frames :
                    /\ frame[g] = "reader" => frame'[g] = "reader" /\ <<"data", f>> # <<"data", g>>
                    /\ <<"data", f>> = <<"data", g>> => frame'[g] = "reader"
                BY <4>2 DEF TypeOK
            <4> QED BY <4>1, <4>2, <4>3, FrameEventsGrow
        <3>3. CASE converter # "running"
            <4>1. /\ frame[f] = "unsent" /\ frame' = [frame EXCEPT ![f] = "lost"]
                  /\ UNCHANGED readerEvents
                BY <2>4, <3>3 DEF ReadFrame, Move, Ends
            <4>2. \A g \in Frames : frame[g] = "reader" => frame'[g] = "reader"
                BY <4>1 DEF TypeOK
            <4> QED BY <4>1, <4>2, FrameEventsKept
        <3> QED BY <3>2, <3>3
    <2>5. ASSUME NEW f \in Frames, \/ HandleData(f) \/ Lose(f) \/ FindSession(f) \/ Beat(f)
                                   \/ WriteAnswer(f) \/ WriteFails(f)
          PROVE  FrameEvents'
        <3>1. UNCHANGED readerEvents
            BY <2>5 DEF HandleData, Lose, FindSession, Beat, WriteAnswer, WriteFails
        <3>2. \A g \in Frames : frame[g] = "reader" => frame'[g] = "reader"
            BY <2>5 DEF TypeOK, HandleData, Lose, FindSession, Beat, WriteAnswer, WriteFails,
                        Move, Losing
        <3> QED BY <3>1, <3>2, FrameEventsKept
    <2>6. CASE Convert
        <3>1. CASE running
            <4>1. readerEvents # <<>> /\ readerEvents' = Tail(readerEvents)
                BY <2>6, <3>1 DEF Convert
            <4>2. \A f \in Frames : frame[f] = "reader" /\ Head(readerEvents) # <<"data", f>>
                                        => frame'[f] = "reader"
                BY <2>6, <3>1 DEF Convert
            <4> QED BY <4>1, <4>2, FrameEventsShrink
        <3>2. CASE ~running
            <4>1. readerEvents' = <<>>
                BY <2>6, <3>2 DEF Convert
            <4> QED BY <4>1 DEF FrameEvents
        <3> QED BY <3>1, <3>2 DEF TypeOK
    <2>7. CASE Shutdown
        BY <1>1, <2>7 DEF Shutdown
    <2> QED BY <1>2, <2>1, <2>2, <2>3, <2>4, <2>5, <2>6, <2>7, NextCases
<1> QED BY <1>1, <1>2 DEF vars

\* What is under way for a frame, and where its answer goes, is what its step says.
THEOREM AlwaysFrameEvents == Spec => []FrameEvents
<1>1. Init => FrameEvents
    BY DEF Init, FrameEvents
<1> QED BY <1>1, FrameEventsStep, TypeCorrect, PTL DEF Spec

LEMMA RefinesInit == Init => Service!FInit
BY DEF Init, Service!FInit, Fate

\* A step that changes one frame moves its fate, or leaves it pending.
LEMMA RefinesFrame ==
    ASSUME TypeOK, NEW f \in Frames,
           \/ HandleData(f) \/ Lose(f) \/ FindSession(f) \/ Beat(f)
           \/ WriteAnswer(f) \/ WriteFails(f) \/ ReadFrame(f)
    PROVE  Service!FNext \/ UNCHANGED Service!fvars
<1> USE DEF TypeOK, Fate, Move, Service!fvars
<1>1. CASE ReadFrame(f)
    <2>1. CASE converter = "running"
        <3>1. Fate[f] = "unsent" /\ Fate' = [Fate EXCEPT ![f] = "pending"] /\ heard' = heard
            BY <1>1, <2>1 DEF ReadFrame
        <3> QED BY <3>1 DEF Service!FNext, Service!Send, Service!Become
    <2>2. CASE converter # "running"
        <3>1. Fate[f] = "unsent" /\ heard' = heard
            BY <1>1, <2>2 DEF ReadFrame
        <3>2. Fate' = [g \in Frames |-> IF g \in {f} THEN "lost" ELSE Fate[g]]
            BY <1>1, <2>2 DEF ReadFrame
        <3>3. Service!Drop({f})
            BY <3>1, <3>2 DEF Service!Drop
        <3> QED BY <3>3 DEF Service!FNext
    <2> QED BY <2>1, <2>2
<1>2. CASE HandleData(f) \/ FindSession(f) \/ Beat(f)
    <2>1. Fate' = Fate /\ heard' = heard
        BY <1>2 DEF HandleData, FindSession, Beat, frames
    <2> QED BY <2>1
<1>3. CASE WriteAnswer(f)
    <2>1. /\ Fate[f] = "pending" /\ Fate' = [Fate EXCEPT ![f] = "answered"]
          /\ heard' = [heard EXCEPT ![f] = FrameOf[f]]
        BY <1>3 DEF WriteAnswer
    <2> QED BY <2>1 DEF Service!FNext, Service!Answer, Service!Become
<1>4. CASE Lose(f) \/ WriteFails(f)
    <2>1. Fate[f] = "pending" /\ heard' = heard
        BY <1>4 DEF Lose, WriteFails
    <2>2. Fate' = [g \in Frames |-> IF g \in {f} THEN "lost" ELSE Fate[g]]
        BY <1>4 DEF Lose, WriteFails, Losing
    <2>3. Service!Drop({f})
        BY <2>1, <2>2 DEF Service!Drop
    <2> QED BY <2>3 DEF Service!FNext
<1> QED BY <1>1, <1>2, <1>3, <1>4

\* The converter passes one frame on and may drop the ones behind it.
LEMMA RefinesConvert ==
    ASSUME TypeOK, FrameEvents, Convert
    PROVE  Service!FNext \/ UNCHANGED Service!fvars
<1> DEFINE first == {f \in Frames : Head(readerEvents) = <<"data", f>>}
           behind == IF running THEN {} ELSE Left(Tail(readerEvents))
           lost == behind \ first
<1>1. /\ readerEvents \in Seq(Events) /\ readerEvents # <<>>
      /\ Head(readerEvents) = readerEvents[1] /\ 1 \in 1..Len(readerEvents)
    BY DEF Convert, TypeOK
<1>2. \A f \in first : frame[f] = "reader"
    BY <1>1 DEF FrameEvents
<1>3. \A f \in behind : frame[f] = "reader"
    <2> SUFFICES ASSUME NEW f \in Frames, Contains(Tail(readerEvents), <<"data", f>>)
                 PROVE  frame[f] = "reader"
        BY DEF Left
    <2>1. Contains(readerEvents, <<"data", f>>)
        BY <1>1, TailEvent
    <2> QED BY <2>1 DEF Contains, FrameEvents
<1>4. \A f \in Frames : frame'[f] = IF f \in first THEN "system"
                                    ELSE IF f \in behind THEN "lost" ELSE frame[f]
    BY DEF Convert
<1> HIDE DEF first, behind
<1>5. Fate' = [f \in Frames |-> IF f \in lost THEN "lost" ELSE Fate[f]]
    BY <1>2, <1>4 DEF Fate
<1>6. \A f \in lost : Fate[f] \in {"unsent", "pending"}
    <2>1. behind \subseteq Frames
        BY DEF behind, Left
    <2> QED BY <1>3, <2>1 DEF Fate
<1>7. heard' = heard /\ lost \in SUBSET Frames
    BY DEF Convert, behind, Left
<1>8. Service!Drop(lost)
    BY <1>5, <1>6, <1>7 DEF Service!Drop
<1> QED BY <1>7, <1>8 DEF Service!FNext

LEMMA RefinesOther ==
    ASSUME \/ \E c \in Conns :
                 \/ HandshakeFails(c) \/ AddSession(c) \/ StartReader(c) \/ ReaderRefused(c)
                 \/ RegisterWriter(c) \/ Announce(c) \/ RegisterSession(c) \/ TimeOut(c)
                 \/ LockCleanup(c) \/ RemoveHeartbeat(c) \/ RemoveSession(c)
                 \/ ReadEnds(c) \/ HandleOpened(c) \/ HandleClosed(c)
           \/ Shutdown
    PROVE  UNCHANGED Service!fvars
<1>1. UNCHANGED <<frame, heard>>
    BY DEF HandshakeFails, AddSession, StartReader, ReaderRefused, RegisterWriter, Announce,
           RegisterSession, TimeOut, LockCleanup, RemoveHeartbeat, RemoveSession, ReadEnds,
           HandleOpened, HandleClosed, Shutdown, frames
<1> QED BY <1>1 DEF Service!fvars, Fate

\* The server implements FrameService: a frame is answered at most once, on the
\* stream of its own connection, whatever connections come from one address.
THEOREM FramesAreServed == Spec => FramesServed
<1>1. TypeOK /\ FrameEvents /\ [Next]_vars => [Service!FNext]_(Service!fvars)
    <2>1. TypeOK /\ FrameEvents /\ Next => Service!FNext \/ UNCHANGED Service!fvars
        BY NextCases, RefinesFrame, RefinesConvert, RefinesOther
    <2>2. UNCHANGED vars => UNCHANGED Service!fvars
        BY DEF vars, frames, Service!fvars, Fate
    <2> QED BY <2>1, <2>2
<1> QED BY <1>1, RefinesInit, TypeCorrect, AlwaysFrameEvents, PTL
        DEF Spec, FramesServed, Service!FSpec

(***************************************************************************)
(* The events of a connection: closed follows opened in the handler's      *)
(* channel unless the reader had ended before the announcement, and it is  *)
(* on its way as long as anything may enter the connection.                *)
(***************************************************************************)
ClosedIsLast(c) ==
    \A i, j \in 1..Len(systemEvents) :
        systemEvents[i] = <<"opened", c>> /\ systemEvents[j] = <<"closed", c>> => i < j

MayBeEntered(c) == active[Addr[c]] = c \/ Contains(systemEvents, <<"opened", c>>)

OrderAt(c) ==
    /\ ~Contains(readerEvents, <<"opened", c>>)
    /\ Pending(<<"closed", c>>) => reader[c] = "ended"
    /\ c \notin late => ClosedIsLast(c)
    /\ running /\ reader[c] = "ended" /\ c \notin late /\ MayBeEntered(c)
        => Pending(<<"closed", c>>)

Ordered == /\ converter = "stopped" => ~running
           /\ \A c \in Conns : OrderAt(c)

LEMMA OrderInit == Init => Ordered
<1> SUFFICES ASSUME Init
             PROVE  Ordered
    OBVIOUS
<1>1. ASSUME NEW x
      PROVE  ~Pending(x)
    BY DEF Init, Pending, Contains
<1>2. ASSUME NEW c \in Conns
      PROVE  OrderAt(c)
    BY <1>1 DEF Init, OrderAt, ClosedIsLast, Pending
<1> QED BY <1>2 DEF Init, Ordered

\* What is appended to the handler's channel keeps the order unless it is an
\* announcement of a connection whose end is in the channel.
LEMMA OrderAppend ==
    ASSUME TypeOK, NEW c \in Conns, ClosedIsLast(c), NEW e \in Events,
           systemEvents' = Append(systemEvents, e),
           e = <<"opened", c>> => ~Contains(systemEvents, <<"closed", c>>)
    PROVE  ClosedIsLast(c)'
<1> SUFFICES ASSUME NEW i \in 1..Len(systemEvents'), NEW j \in 1..Len(systemEvents'),
                    systemEvents'[i] = <<"opened", c>>, systemEvents'[j] = <<"closed", c>>
             PROVE  i < j
    BY DEF ClosedIsLast
<1>1. systemEvents \in Seq(Events)
    BY DEF TypeOK
<1>2. /\ Len(systemEvents) \in Nat /\ Len(systemEvents') = Len(systemEvents) + 1
      /\ \A k \in 1..Len(systemEvents) : systemEvents'[k] = systemEvents[k]
      /\ systemEvents'[Len(systemEvents) + 1] = e
    BY <1>1, AppendAt
<1>3. CASE j = Len(systemEvents) + 1
    <2>1. i # j
        OBVIOUS
    <2> QED BY <1>2, <1>3, <2>1
<1>4. CASE j # Len(systemEvents) + 1
    <2>1. j \in 1..Len(systemEvents) /\ systemEvents[j] = <<"closed", c>>
        BY <1>2, <1>4
    <2>2. Contains(systemEvents, <<"closed", c>>)
        BY <2>1 DEF Contains
    <2>3. i # Len(systemEvents) + 1
        BY <1>2, <2>2
    <2>4. i \in 1..Len(systemEvents) /\ systemEvents[i] = <<"opened", c>>
        BY <1>2, <2>3
    <2> QED BY <2>1, <2>4 DEF ClosedIsLast
<1> QED BY <1>3, <1>4

LEMMA OrderTail ==
    ASSUME TypeOK, NEW c \in Conns, ClosedIsLast(c), systemEvents # <<>>,
           systemEvents' = Tail(systemEvents)
    PROVE  /\ ClosedIsLast(c)'
           /\ Head(systemEvents) = <<"closed", c>>
                => ~Contains(systemEvents', <<"opened", c>>)
<1>1. systemEvents \in Seq(Events) /\ Len(systemEvents) \in Nat \ {0}
    BY DEF TypeOK
<1>2. \A k \in 1..Len(systemEvents') :
        k + 1 \in 1..Len(systemEvents) /\ systemEvents'[k] = systemEvents[k + 1]
    BY <1>1
<1>3. ClosedIsLast(c)'
    <2> SUFFICES ASSUME NEW i \in 1..Len(systemEvents'), NEW j \in 1..Len(systemEvents'),
                        systemEvents'[i] = <<"opened", c>>, systemEvents'[j] = <<"closed", c>>
                 PROVE  i < j
        BY DEF ClosedIsLast
    <2>1. i + 1 < j + 1
        BY <1>2 DEF ClosedIsLast
    <2> QED BY <1>1, <2>1
<1>4. ASSUME Head(systemEvents) = <<"closed", c>>, NEW k \in 1..Len(systemEvents'),
             systemEvents'[k] = <<"opened", c>>
      PROVE  FALSE
    <2>1. 1 \in 1..Len(systemEvents) /\ systemEvents[1] = <<"closed", c>>
        BY <1>1, <1>4
    <2>2. k + 1 < 1
        BY <1>2, <1>4, <2>1 DEF ClosedIsLast
    <2> QED BY <1>1, <2>2
<1> QED BY <1>3, <1>4 DEF Contains

\* Steps that leave channels, readers and entries alone keep the order.
LEMMA OrderKept ==
    ASSUME Ordered, UNCHANGED <<reader, readerEvents, systemEvents, converter, active, late>>,
           running' => running
    PROVE  Ordered'
BY DEF Ordered, OrderAt, ClosedIsLast, MayBeEntered, Pending

LEMMA OrderTask ==
    ASSUME TypeInv, Ordered, NEW c \in Conns,
           \/ HandshakeFails(c) \/ AddSession(c) \/ StartReader(c) \/ ReaderRefused(c)
           \/ RegisterWriter(c) \/ Announce(c) \/ RegisterSession(c) \/ TimeOut(c)
           \/ LockCleanup(c) \/ RemoveHeartbeat(c) \/ RemoveSession(c)
    PROVE  Ordered'
<1>1. CASE StartReader(c)
    <2>1. UNCHANGED <<readerEvents, systemEvents, converter, running, active, late>>
        BY <1>1 DEF StartReader, channels
    <2>2. \A d \in Conns : reader'[d] = "ended" <=> reader[d] = "ended"
        BY <1>1 DEF StartReader, TypeInv, TypeOK, NoReaderYet, Task
    <2> QED BY <2>1, <2>2 DEF Ordered, OrderAt, ClosedIsLast, MayBeEntered, Pending
<1>2. CASE Announce(c)
    <2> DEFINE e == <<"opened", c>>
    <2>1. /\ systemEvents' = Append(systemEvents, e)
          /\ late' = IF reader[c] = "ended" THEN late \cup {c} ELSE late
          /\ UNCHANGED <<readerEvents, converter, running, reader, active>>
        BY <1>2 DEF Announce, streams
    <2>2. e \in Events /\ systemEvents \in Seq(Events)
        BY DEF Events, TypeInv, TypeOK
    <2>3. ASSUME NEW d \in Conns
          PROVE  OrderAt(d)'
        <3>1. OrderAt(d)
            BY DEF Ordered
        <3>2. /\ Pending(<<"closed", d>>)' <=> Pending(<<"closed", d>>)
              /\ MayBeEntered(d)' <=> MayBeEntered(d) \/ d = c
            BY <2>1, <2>2, AppendEvent DEF Pending, MayBeEntered
        <3>3. d \notin late' => d \notin late /\ (d = c => reader[c] # "ended")
            BY <2>1
        <3>4. d \notin late' => ClosedIsLast(d)'
            BY <2>1, <2>2, <3>1, <3>3, OrderAppend DEF OrderAt, Pending, TypeInv
        <3> QED BY <2>1, <3>1, <3>2, <3>3, <3>4 DEF OrderAt
    <2> QED BY <2>1, <2>3 DEF Ordered
<1>3. CASE ~StartReader(c) /\ ~Announce(c)
    <2>1. UNCHANGED <<reader, readerEvents, systemEvents, converter, active, late, running>>
        BY <1>3 DEF HandshakeFails, AddSession, ReaderRefused, RegisterWriter, RegisterSession,
                    TimeOut, LockCleanup, RemoveHeartbeat, RemoveSession, streams, channels
    <2> QED BY <2>1, OrderKept
<1> QED BY <1>1, <1>2, <1>3

\* The reader's last event enters its channel, or there is no channel any more.
LEMMA OrderEnds ==
    ASSUME TypeOK, Ordered, NEW c \in Conns, reader[c] = "reading", Ends(c),
           UNCHANGED <<systemEvents, converter, running, active, late>>
    PROVE  Ordered'
<1>1. <<"closed", c>> \in Events /\ readerEvents \in Seq(Events)
    BY DEF Events, TypeOK
<1>2. ASSUME NEW d \in Conns
      PROVE  OrderAt(d)'
    <2>1. OrderAt(d)
        BY DEF Ordered
    <2>2. reader'[d] = IF d = c THEN "ended" ELSE reader[d]
        BY DEF Ends, TypeOK
    <2>3. /\ ClosedIsLast(d)' <=> ClosedIsLast(d)
          /\ MayBeEntered(d)' <=> MayBeEntered(d)
        BY DEF ClosedIsLast, MayBeEntered
    <2>4. Pending(<<"closed", d>>)' <=>
            Pending(<<"closed", d>>) \/ (d = c /\ converter = "running")
        BY <1>1, AppendEvent DEF Ends, Pending
    <2>5. running => converter = "running"
        BY DEF Ordered, TypeOK
    <2>6. ~Contains(readerEvents', <<"opened", d>>)
        BY <1>1, <2>1, AppendEvent DEF Ends, OrderAt
    <2> QED BY <2>1, <2>2, <2>3, <2>4, <2>5, <2>6 DEF OrderAt
<1> QED BY <1>2 DEF Ordered

LEMMA OrderReader ==
    ASSUME TypeOK, Ordered, \/ \E c \in Conns : ReadEnds(c)
                            \/ \E f \in Frames : ReadFrame(f)
    PROVE  Ordered'
<1>1. ASSUME NEW c \in Conns, ReadEnds(c)
      PROVE  Ordered'
    BY <1>1, OrderEnds DEF ReadEnds
<1>2. ASSUME NEW f \in Frames, ReadFrame(f)
      PROVE  Ordered'
    <2>1. FrameOf[f] \in Conns
        BY ConnectionsAssumption DEF ConnectionsAssumption
    <2>2. CASE converter # "running"
        BY <1>2, <2>1, <2>2, OrderEnds DEF ReadFrame
    <2>3. CASE converter = "running"
        <3>1. /\ readerEvents' = Append(readerEvents, <<"data", f>>)
              /\ UNCHANGED <<reader, systemEvents, converter, running, active, late>>
            BY <1>2, <2>3 DEF ReadFrame
        <3>2. <<"data", f>> \in Events /\ readerEvents \in Seq(Events)
            BY DEF Events, TypeOK
        <3>3. \A d \in Conns :
                /\ Pending(<<"closed", d>>)' <=> Pending(<<"closed", d>>)
                /\ Contains(readerEvents', <<"opened", d>>)
                     <=> Contains(readerEvents, <<"opened", d>>)
            BY <3>1, <3>2, AppendEvent DEF Pending
        <3> QED BY <3>1, <3>3 DEF Ordered, OrderAt, ClosedIsLast, MayBeEntered
    <2> QED BY <2>2, <2>3
<1> QED BY <1>1, <1>2

LEMMA OrderConvert ==
    ASSUME TypeOK, Ordered, Convert
    PROVE  Ordered'
<1>1. /\ readerEvents \in Seq(Events) /\ systemEvents \in Seq(Events) /\ readerEvents # <<>>
      /\ systemEvents' = Append(systemEvents, Head(readerEvents))
      /\ readerEvents' = IF running THEN Tail(readerEvents) ELSE <<>>
      /\ UNCHANGED <<reader, running, active, late>>
    BY DEF TypeOK, Convert, streams
<1>2. Head(readerEvents) \in Events
    BY <1>1, TailEvent
<1>3. converter' = "stopped" => ~running'
    BY <1>1 DEF Convert
<1>4. ASSUME NEW d \in Conns
      PROVE  OrderAt(d)'
    <2>1. OrderAt(d)
        BY <1>4 DEF Ordered
    <2>2. Head(readerEvents) # <<"opened", d>>
        BY <1>1, <2>1, TailEvent DEF OrderAt
    <2>3. ~Contains(readerEvents', <<"opened", d>>)
        BY <1>1, <2>1, TailEvent DEF OrderAt, Contains
    <2>4. /\ Pending(<<"closed", d>>)' => Pending(<<"closed", d>>)
          /\ running /\ Pending(<<"closed", d>>) => Pending(<<"closed", d>>)'
        <3>1. ~Contains(<<>>, <<"closed", d>>)
            BY DEF Contains
        <3> QED BY <1>1, <1>2, <3>1, AppendEvent, TailEvent DEF Pending
    <2>5. MayBeEntered(d)' <=> MayBeEntered(d)
        BY <1>1, <1>2, <2>2, AppendEvent DEF MayBeEntered
    <2>6. ClosedIsLast(d) => ClosedIsLast(d)'
        BY <1>1, <1>2, <2>2, OrderAppend
    <2> QED BY <1>1, <2>1, <2>3, <2>4, <2>5, <2>6 DEF OrderAt
<1> QED BY <1>3, <1>4 DEF Ordered

\* What handling an event does to the entry of a connection.
LEMMA HandlerEnters ==
    ASSUME TypeOK, NEW d \in Conns,
           \/ \E c \in Conns : HandleOpened(c) \/ HandleClosed(c)
           \/ \E f \in Frames : HandleData(f)
    PROVE  /\ active'[Addr[d]] = d
                => active[Addr[d]] = d \/ Head(systemEvents) = <<"opened", d>>
           /\ Head(systemEvents) = <<"closed", d>> => active'[Addr[d]] # d
<1>1. Addr[d] \in Addrs /\ d # None
    BY ConnectionsAssumption DEF ConnectionsAssumption, Addrs
<1>2. ASSUME NEW c \in Conns, HandleOpened(c)
      PROVE  /\ active'[Addr[d]] \in {c, active[Addr[d]]}
             /\ Head(systemEvents) = <<"opened", c>>
    BY <1>1, <1>2 DEF HandleOpened, Take, TypeOK
<1>3. ASSUME NEW c \in Conns, HandleClosed(c)
      PROVE  /\ active'[Addr[d]] \in {None, active[Addr[d]]}
             /\ c = d => active'[Addr[d]] = None
             /\ Head(systemEvents) = <<"closed", c>>
    BY <1>1, <1>3 DEF HandleClosed, Take, TypeOK
<1>4. ASSUME NEW f \in Frames, HandleData(f)
      PROVE  active' = active /\ Head(systemEvents) = <<"data", f>>
    BY <1>4 DEF HandleData, Take
<1> QED BY <1>1, <1>2, <1>3, <1>4

\* Handling an event takes it from the front of the handler's channel.
LEMMA OrderHandle ==
    ASSUME TypeOK, Ordered, \/ \E c \in Conns : HandleOpened(c) \/ HandleClosed(c)
                            \/ \E f \in Frames : HandleData(f)
    PROVE  Ordered'
<1>1. /\ systemEvents \in Seq(Events) /\ systemEvents # <<>>
      /\ systemEvents' = Tail(systemEvents)
      /\ UNCHANGED <<readerEvents, reader, running, converter, late>>
    BY DEF TypeOK, HandleOpened, HandleClosed, HandleData, Take, streams
<1>2. ASSUME NEW d \in Conns
      PROVE  OrderAt(d)'
    <2>1. OrderAt(d)
        BY <1>2 DEF Ordered
    <2>2. \A x : Contains(systemEvents, x) <=> Head(systemEvents) = x \/ Contains(systemEvents', x)
        BY <1>1, TailEvent
    <2>3. Pending(<<"closed", d>>)' => Pending(<<"closed", d>>)
        BY <1>1, <2>2 DEF Pending
    <2>4. d \notin late =>
            /\ ClosedIsLast(d)'
            /\ Head(systemEvents) = <<"closed", d>> => ~Contains(systemEvents', <<"opened", d>>)
        BY <1>1, <2>1, OrderTail DEF OrderAt
    <2>5. Head(systemEvents) # <<"closed", d>> =>
            /\ Pending(<<"closed", d>>)' <=> Pending(<<"closed", d>>)
            /\ MayBeEntered(d)' => MayBeEntered(d)
        <3>1. Pending(<<"closed", d>>)
                <=> Pending(<<"closed", d>>)' \/ Head(systemEvents) = <<"closed", d>>
            BY <1>1, <2>2 DEF Pending
        <3>2. active'[Addr[d]] = d => active[Addr[d]] = d \/ Head(systemEvents) = <<"opened", d>>
            BY <1>2, HandlerEnters
        <3> QED BY <2>2, <2>3, <3>1, <3>2 DEF MayBeEntered
    <2>6. Head(systemEvents) = <<"closed", d>> => active'[Addr[d]] # d
        BY <1>2, HandlerEnters
    <2> QED BY <1>1, <2>1, <2>3, <2>4, <2>5, <2>6 DEF OrderAt, MayBeEntered
<1> QED BY <1>1, <1>2 DEF Ordered

LEMMA OrderRest ==
    ASSUME Ordered, \/ \E f \in Frames : Lose(f) \/ FindSession(f) \/ Beat(f) \/ WriteAnswer(f)
                                         \/ WriteFails(f)
                    \/ Shutdown \/ UNCHANGED vars
    PROVE  Ordered'
<1>1. UNCHANGED <<reader, readerEvents, systemEvents, converter, active, late>>
    BY DEF Lose, FindSession, Beat, WriteAnswer, WriteFails, Shutdown, vars, streams, channels
<1>2. running' \in {running, FALSE}
    BY DEF Lose, FindSession, Beat, WriteAnswer, WriteFails, Shutdown, vars
<1>3. running' => running
    BY <1>2
<1> QED BY <1>1, <1>3, OrderKept

\* An entry of active_connections is stale only for a connection announced after its
\* reader had ended; any other has its ConnectionClosed still on the way.
THEOREM StaleEntriesAreLate == Spec => []StaleOnlyWhenLate
<1>1. TypeInv /\ Ordered /\ [Next]_vars => Ordered'
    <2>1. TypeInv => TypeOK
        BY DEF TypeInv
    <2>2. TypeInv /\ Ordered /\ Next => Ordered'
        BY <2>1, NextCases, OrderTask, OrderReader, OrderConvert, OrderHandle, OrderRest
    <2> QED BY <2>2, OrderRest
<1>2. Ordered => StaleOnlyWhenLate
    BY DEF Ordered, OrderAt, MayBeEntered, StaleOnlyWhenLate
<1>3. Spec => []TypeInv
    BY TypeInit, TypeStep, PTL DEF Spec
<1> QED BY <1>1, <1>2, <1>3, OrderInit, PTL DEF Spec

(***************************************************************************)
(* The locks of the monitoring.                                            *)
(***************************************************************************)
\* Every operation is a list of steps.
LEMMA OperationsWellFormed == K!WellFormed
<1>1. \A lock \in Guarded, mode \in {"read", "write"}, till \in 0 .. 7 :
         Long(mode, lock, till) \in K!StepOf
  BY DEF K!StepOf, Long
<1> DEFINE Programs == Seq(K!StepOf) \ {<<>>}
<1>2. /\ Alert \in Programs /\ AlertCleans \in Programs /\ Record \in Programs
      /\ RecordAlerts \in Programs /\ RegisterMonitor \in Programs
      /\ RegisterCheck \in Programs /\ Overall \in Programs /\ ResetAll \in Programs
      /\ Recent \in Programs /\ History \in Programs /\ SendAlerts \in Programs
  BY <1>1, K!ShortPrograms
     DEF Guarded, Short, Alert, AlertCleans, Record, RecordAlerts, RegisterMonitor,
         RegisterCheck, Overall, ResetAll, Recent, History, SendAlerts
<1>3. /\ RecordAlertsCleans \in Programs /\ Collect \in Programs
  BY <1>1, K!ShortPrograms DEF Guarded, Short, RecordAlertsCleans, Collect
<1>4. Check \in Programs /\ CheckCleans \in Programs
  BY <1>1, K!ShortPrograms DEF Guarded, Short, Check, CheckCleans
<1>5. ASSUME NEW o \in DOMAIN Operations
      PROVE  Operations[o] \in Seq(K!StepOf) /\ Operations[o] # <<>> /\ o # "idle"
  <2>1. o \in {"alert", "alert_cleans", "record", "record_alerts", "record_alerts_cleans",
               "register_monitor", "register_check", "collect", "overall", "reset_all",
               "recent", "history", "check", "check_cleans", "send_alerts"}
    BY DEF Operations
  <2>2. o # "idle"
    BY <2>1
  <2>3. Operations[o] \in Programs
    <3> HIDE DEF Programs
    <3> QED BY <1>2, <1>3, <1>4, <2>1 DEF Operations
  <2> QED BY <2>2, <2>3
<1> QED BY <1>5 DEF K!WellFormed

\* The locks are locks, and whoever is not idle is in an operation.
HealthInv == K!LocksInv /\ doing \in [Callers -> DOMAIN Operations \cup {"idle"}]

LEMMA HealthInit == HRInit => HealthInv
<1> SUFFICES ASSUME HRInit PROVE HealthInv
  OBVIOUS
<1>1. K!LocksInv
  BY OperationsWellFormed, K!NoneRunsInv DEF HRInit
<1>2. doing = [c \in Callers |-> "idle"]
  BY DEF HRInit, K!NoneRuns
<1> HIDE DEF HRInit
<1> QED BY <1>1, <1>2 DEF HealthInv

LEMMA HealthStep == HealthInv /\ [HRNext]_hrvars => HealthInv'
<1> SUFFICES ASSUME HealthInv, [HRNext]_hrvars PROVE HealthInv'
  OBVIOUS
<1> DEFINE Typed == doing \in [Callers -> DOMAIN Operations \cup {"idle"}]
<1>0. K!LocksInv /\ Typed
  BY DEF HealthInv
<1>1. ASSUME NEW c \in Callers, NEW o \in DOMAIN Operations, K!StartOn(c, o)
      PROVE  K!LocksInv' /\ Typed'
  <2>1. K!LocksInv'
    BY <1>0, <1>1, OperationsWellFormed, K!StartKeeps
  <2>2. doing' = [doing EXCEPT ![c] = o]
    BY <1>1 DEF K!StartOn
  <2> QED BY <1>0, <2>1, <2>2
<1>2. ASSUME NEW c \in Callers, K!JoinLine(c) PROVE K!LocksInv' /\ Typed'
  <2>1. K!LocksInv'
    BY <1>0, <1>2, K!JoinKeeps
  <2>2. doing' = doing
    BY <1>2 DEF K!JoinLine
  <2> QED BY <1>0, <2>1, <2>2
<1>3. ASSUME NEW c \in Callers, K!Proceed(c, "idle") PROVE K!LocksInv' /\ Typed'
  <2>1. "idle" \notin DOMAIN Operations
    BY DEF Operations
  <2>2. K!LocksInv'
    BY <1>0, <1>3, <2>1, OperationsWellFormed, K!ProceedKeeps
  <2>3. doing' = doing \/ doing' = [doing EXCEPT ![c] = "idle"]
    BY <1>3 DEF K!Proceed
  <2> QED BY <1>0, <2>2, <2>3
<1>4. CASE UNCHANGED hrvars
  <2>1. K!LocksInv'
    BY <1>0, <1>4, K!NothingKeeps DEF hrvars
  <2>2. doing' = doing
    BY <1>4 DEF hrvars
  <2> QED BY <1>0, <2>1, <2>2 DEF HealthInv
<1> QED BY <1>1, <1>2, <1>3, <1>4 DEF HRNext, Call, HealthInv

LEMMA HealthInvariant == HRSpec => []HealthInv
  BY HealthInit, HealthStep, PTL DEF HRSpec

LEMMA HealthIsTyped == HealthInv => HRTypeOK
  BY DEF HealthInv, K!LocksInv, HRTypeOK

\* The locks are locks, for any number of callers.
THEOREM HealthTypeCorrect == HRSpec => []HRTypeOK
  BY HealthInvariant, HealthIsTyped, PTL

\* The monitors come before the metrics, and whatever is taken last after both.
RankOf == [lock \in Guarded |->
              CASE lock = "monitors" -> 0 [] lock = "metrics" -> 1 [] OTHER -> 2]

\* All operations but three take their locks in ascending rank.
LEMMA OthersAscend ==
    ASSUME NEW o \in DOMAIN Operations \ {"check", "check_cleans", "collect"}
    PROVE  K!Ascends(RankOf, Operations[o])
<1> USE DEF Long, Short
<1>1. RankOf["monitors"] = 0 /\ RankOf["metrics"] = 1 /\ RankOf["alerts"] = 2
  BY DEF RankOf, Guarded
<1>2. CASE o \in {"alert", "record", "register_monitor", "register_check", "recent", "history"}
  BY <1>2 DEF K!Ascends, Operations, Alert, Record, RegisterMonitor, RegisterCheck, Recent, History
<1>3. CASE o \in {"alert_cleans", "send_alerts"}
  BY <1>3 DEF K!Ascends, Operations, AlertCleans, SendAlerts
<1>4. CASE o = "overall"
  BY <1>1, <1>4 DEF K!Ascends, Operations, Overall
<1>7. CASE o = "reset_all"
  BY <1>1, <1>7 DEF K!Ascends, Operations, ResetAll
<1>5. CASE o = "record_alerts"
  BY <1>1, <1>5 DEF K!Ascends, Operations, RecordAlerts
<1>6. CASE o = "record_alerts_cleans"
  BY <1>1, <1>6 DEF K!Ascends, Operations, RecordAlertsCleans
<1> QED BY <1>2, <1>3, <1>4, <1>5, <1>6, <1>7 DEF Operations

\* The operations of the monitoring that report no health and collect no metrics never
\* deadlock, for any number of callers: the monitors, then the metrics, then one more.
THEOREM NoOtherHangs == HRSpec => []OthersNeverHang
<1>1. K!LocksInv => OthersNeverHang
  <2> SUFFICES ASSUME K!LocksInv PROVE OthersNeverHang
    OBVIOUS
  <2> DEFINE others == {c \in K!Busy : doing[c] \notin {"check", "check_cleans", "collect"}}
  <2>1. RankOf \in [Guarded -> 0 .. 2]
    BY DEF RankOf
  <2>2. \A c \in others : K!Ascends(RankOf, Operations[doing[c]])
    BY OthersAscend DEF K!Busy
  <2>3. others \in SUBSET K!Busy
    OBVIOUS
  <2> HIDE DEF others
  <2>4. ~K!Deadlocked(others)
    BY <2>1, <2>2, <2>3, OperationsWellFormed, K!OrderedNeverDeadlock
  <2> QED BY <2>4 DEF OthersNeverHang, others
<1>2. HealthInv => K!LocksInv
  BY DEF HealthInv
<1> QED BY <1>1, <1>2, HealthInvariant, PTL

\* A deadlock of the monitoring is for ever: no call that comes, no guard that another task
\* returns and no end of a call takes anybody out of it.
THEOREM HealthHangsLast ==
    HRSpec => [][K!Deadlocked(Callers) => K!Deadlocked(Callers)']_hrvars
<1>1. HealthInv /\ [HRNext]_hrvars => (K!Deadlocked(Callers) => K!Deadlocked(Callers)')
  <2> SUFFICES ASSUME HealthInv, [HRNext]_hrvars, K!Deadlocked(Callers)
               PROVE  K!Deadlocked(Callers)'
    OBVIOUS
  <2>1. K!LocksInv
    BY DEF HealthInv
  <2>2. \/ \E c \in Callers, o \in DOMAIN Operations : K!StartOn(c, o)
        \/ \E c \in Callers : K!JoinLine(c)
        \/ \E c \in Callers : \E ending : K!Proceed(c, ending)
        \/ UNCHANGED hrvars
    BY DEF HRNext, Call
  <2> QED BY <2>1, <2>2, OperationsWellFormed, K!DeadlocksLast DEF hrvars
<1> QED BY <1>1, HealthInvariant, PTL DEF HRSpec

\* No report of health ever ends: who is in comprehensive_health_check is in it for ever,
\* because its last step asks for the history that its own guard, from the third step on,
\* keeps from everybody.
THEOREM HealthIsNeverReported ==
    HRSpec => [][\A c \in Callers :
                     doing[c] \in {"check", "check_cleans"} => doing'[c] = doing[c]]_hrvars
<1> DEFINE Stays == \A c \in Callers :
                        doing[c] \in {"check", "check_cleans"} => doing'[c] = doing[c]
<1>1. ASSUME HealthInv, NEW c \in K!Busy, doing[c] \in {"check", "check_cleans"}, K!IsLast(c)
      PROVE  ~K!Obtain(c)
  <2> DEFINE steps == Operations[doing[c]]
             n == Len(steps)
  <2>1. /\ n \in {5, 7} /\ steps[3] = Long("write", "history", n)
        /\ steps[n].lock = "history" /\ "history" \in Guarded
    <3>1. CASE doing[c] = "check"
      <4>1. steps = Check
        BY <3>1 DEF Operations
      <4> HIDE DEF steps
      <4>2. n = 7 /\ steps[3] = Long("write", "history", 7) /\ steps[7] = Short("read", "history")
        BY <4>1 DEF Check
      <4> QED BY <4>2 DEF Short, Long, Guarded
    <3>2. CASE doing[c] = "check_cleans"
      <4>1. steps = CheckCleans
        BY <3>2 DEF Operations
      <4> HIDE DEF steps
      <4>2. n = 5 /\ steps[3] = Long("write", "history", 5) /\ steps[5] = Short("write", "history")
        BY <4>1 DEF CheckCleans
      <4> QED BY <4>2 DEF Short, Long, Guarded
    <3> QED BY <1>1, <3>1, <3>2
  <2>2. upto[c] = n
    BY <1>1 DEF K!IsLast
  <2> HIDE DEF steps, n
  <2>3. 3 \in 1 .. upto[c] - 1 /\ steps[3].till >= upto[c]
        /\ steps[3].lock = "history" /\ steps[3].mode = "write"
    BY <2>1, <2>2 DEF Long
  <2>4. \A modes : "write" \in modes => K!Holds(c, "history", modes)
    BY <2>3 DEF K!Holds, K!Guards, steps
  <2>5. K!Step(c).lock = "history"
    BY <2>1, <2>2 DEF K!Step, steps
  <2>6. K!Blocks(c, c)
    BY <2>4, <2>5 DEF K!Blocks
  <2> QED BY <1>1, <2>1, <2>5, <2>6 DEF K!Obtain, K!Free
<1>2. HealthInv /\ [HRNext]_hrvars => Stays
  <2> SUFFICES ASSUME HealthInv, [HRNext]_hrvars, NEW c \in Callers,
                      doing[c] \in {"check", "check_cleans"}
               PROVE  doing'[c] = doing[c]
    OBVIOUS
  <2>1. doing \in [Callers -> DOMAIN Operations \cup {"idle"}] /\ c \in K!Busy
    BY DEF HealthInv, K!Busy, Operations
  <2>2. ASSUME NEW d \in Callers, Call(d) PROVE doing'[c] = doing[c]
    <3>1. d # c /\ \E o : doing' = [doing EXCEPT ![d] = o]
      BY <2>2 DEF Call, K!StartOn
    <3> QED BY <2>1, <3>1
  <2>3. ASSUME NEW d \in Callers, K!Proceed(d, "idle") PROVE doing'[c] = doing[c]
    <3>1. K!IsLast(d) => d # c
      BY <1>1, <2>1, <2>3 DEF K!Proceed
    <3> QED BY <2>1, <2>3, <3>1 DEF K!Proceed
  <2>4. CASE (\E d \in Callers : K!JoinLine(d)) \/ UNCHANGED hrvars
    BY <2>4 DEF K!JoinLine, hrvars
  <2> QED BY <2>2, <2>3, <2>4 DEF HRNext
<1> QED BY <1>2, HealthInvariant, PTL DEF HRSpec

\* Nothing but a deadlock stops the monitoring: as long as its calls do not all wait in one,
\* a call that is under way may take its next lock, or join the line at it.
THEOREM HealthGoesOn ==
    HRSpec => [](K!Busy # {} /\ ~K!Deadlocked(K!Busy) => \E c \in K!Busy : K!MayGoOn(c))
<1>1. HealthInv
      => (K!Busy # {} /\ ~K!Deadlocked(K!Busy) => \E c \in K!Busy : K!MayGoOn(c))
  BY K!OnlyDeadlocksStop DEF HealthInv
<1> QED BY <1>1, HealthInvariant, PTL

(***************************************************************************)
(* The limits of the SQL server's clients.                                 *)
(***************************************************************************)
CallStages == {"look", "mark", "sweep", "decide", "match"}
CallOf == [at : CallStages, client : Addresses, age : 0 .. MaxDelay]

LimitsTyped ==
    /\ requests \in [Addresses -> Seq(Nat)] /\ accepted \in [Addresses -> Seq(Nat)]
    /\ cleanedAgo \in 0 .. CleanupEvery + MaxDelay + 1
    /\ checking \in [Checks -> {NoCheck} \cup CallOf]
    /\ matched \in [Addresses -> 0 .. Burst + 1]

\* The list of an address has at most so many, and of what was accepted in the window that
\* ends now it has everything: the cleanings only removed what is older.
LimitKept(c) ==
    /\ Len(requests[c]) <= MaxRequests
    /\ accepted[c] = Younger(requests[c], Window)

LimitsInv == LimitsTyped /\ \A c \in Addresses : LimitKept(c)

LEMMA LimitsStart == LMInit => LimitsInv
  BY SqlLimitsAssumption, RetainEmpty
  DEF LMInit, LimitsInv, LimitsTyped, LimitKept, Younger, NoCheck

\* What is younger was there, and is younger.
LEMMA YoungerLess ==
    ASSUME NEW s \in Seq(Nat), NEW n \in Int
    PROVE  /\ Younger(s, n) \in Seq(Nat) /\ Len(Younger(s, n)) <= Len(s)
           /\ Younger(s, n) \in Seq(0 .. n - 1)
<1>1. Retain(s, 0 .. n - 1) \in Seq(Nat \cap (0 .. n - 1)) /\ Retain(s, 0 .. n - 1) \in Seq(Nat)
      /\ Len(Retain(s, 0 .. n - 1)) <= Len(s)
  BY RetainLeavesLess
<1>2. Nat \cap (0 .. n - 1) = 0 .. n - 1
  OBVIOUS
<1> QED BY <1>1, <1>2, Zenon DEF Younger

\* What is younger than the window survives a sweep of what is older.
LEMMA YoungerOfYounger ==
    ASSUME NEW s \in Seq(Nat), NEW m \in Nat, NEW n \in Nat, m <= n
    PROVE  Younger(Younger(s, n), m) = Younger(s, m)
<1>1. Retain(Retain(s, 0 .. n - 1), 0 .. m - 1) = Retain(s, (0 .. n - 1) \cap (0 .. m - 1))
  BY RetainTwice
<1>2. (0 .. n - 1) \cap (0 .. m - 1) = 0 .. m - 1
  OBVIOUS
<1> QED BY <1>1, <1>2, Zenon DEF Younger

\* An entry that grows older; what is too old to matter stays as it is.
Aged == [a \in Nat |-> IF a > 2 * Window + MaxDelay THEN a ELSE a + 1]

\* The list grows older as a whole.
LEMMA AgedIsSeq ==
    ASSUME NEW s \in Seq(Nat)
    PROVE  Mapped(s, Aged) \in Seq(Nat) /\ Len(Mapped(s, Aged)) = Len(s)
<1>1. \A i \in DOMAIN s : s[i] \in Nat
  OBVIOUS
<1>2. \A i \in DOMAIN s : Aged[s[i]] \in Nat
  BY <1>1 DEF Aged
<1> QED BY <1>2 DEF Mapped

\* Growing older and looking at the window is the same in either list.
LEMMA AgeingKeeps ==
    ASSUME NEW s \in Seq(Nat)
    PROVE  Younger(OneOlder(Younger(s, Window)), Window) = Younger(Mapped(s, Aged), Window)
<1> DEFINE Win == 0 .. Window - 1
           S == {a \in Nat : Aged[a] \in Win}
           r == Retain(s, Win)
<1>1. Window \in Nat /\ MaxDelay \in Nat
  BY SqlLimitsAssumption
<1>2. \A a \in Nat : Aged[a] \in Nat /\ Aged[a] >= a
  BY DEF Aged
<1>3. r \in Seq(Nat) /\ r \in Seq(Nat \cap Win)
  BY RetainLeavesLess
<1>4. OneOlder(r) = Mapped(r, Aged)
  <2>1. \A i \in DOMAIN r : r[i] \in Nat /\ r[i] <= Window - 1
    <3> HIDE DEF r
    <3> QED BY <1>1, <1>3
  <2>2. \A i \in DOMAIN r : Aged[r[i]] = r[i] + 1
    <3> HIDE DEF r
    <3> QED BY <1>1, <2>1 DEF Aged
  <2> HIDE DEF r
  <2> QED BY <2>2 DEF OneOlder, Mapped
<1>5. Retain(Mapped(r, Aged), Win) = Mapped(Retain(r, S), Aged)
      /\ Retain(Mapped(s, Aged), Win) = Mapped(Retain(s, S), Aged)
  <2>1. \A a \in Nat : a \in S <=> Aged[a] \in Win
    OBVIOUS
  <2> HIDE DEF r, S, Win
  <2> QED BY <1>3, <2>1, RetainMapped
<1>6. Retain(r, S) = Retain(s, S)
  <2>1. Retain(r, S) = Retain(s, Win \cap S)
    <3> HIDE DEF Win, S
    <3> QED BY RetainTwice
  <2>2. Win \cap S = S
    BY <1>1, <1>2
  <2> QED BY <2>1, <2>2, Zenon
<1> HIDE DEF r, S
<1> QED BY <1>4, <1>5, <1>6 DEF Younger, r

LEMMA CheckMoves ==
    ASSUME NEW call \in CallOf
    PROVE  /\ call.client \in Addresses /\ call.age \in 0 .. MaxDelay /\ call.at \in CallStages
           /\ \A stage \in CallStages : [call EXCEPT !.at = stage] \in CallOf
           /\ \A age \in 0 .. MaxDelay : [call EXCEPT !.age = age] \in CallOf
  BY DEF CallOf

\* What a check that is under way is.
LEMMA ChecksAre ==
    ASSUME LimitsTyped, NEW k \in Checks
    PROVE  checking[k] = NoCheck \/ checking[k] \in CallOf
  BY DEF LimitsTyped

LEMMA UnderWay ==
    ASSUME LimitsTyped, NEW k \in Checks, checking[k].at # "idle"
    PROVE  /\ checking[k] \in CallOf
           /\ checking[k].client \in Addresses /\ checking[k].age \in 0 .. MaxDelay
<1>1. checking[k] # NoCheck
  BY DEF NoCheck
<1>2. checking[k] \in CallOf
  BY <1>1, ChecksAre
<1> QED BY <1>2, CheckMoves

LEMMA CheckGoesOn ==
    ASSUME LimitsTyped, NEW k \in Checks, NEW stage \in CallStages, checking[k].at # "idle",
           MoveOn(k, stage)
    PROVE  checking' \in [Checks -> {NoCheck} \cup CallOf]
<1>1. [checking[k] EXCEPT !.at = stage] \in CallOf
  BY UnderWay, CheckMoves
<1>2. checking \in [Checks -> {NoCheck} \cup CallOf]
  BY DEF LimitsTyped
<1> QED BY <1>1, <1>2 DEF MoveOn

LEMMA CheckIsOver ==
    ASSUME LimitsTyped, NEW k \in Checks, EndCheck(k)
    PROVE  checking' \in [Checks -> {NoCheck} \cup CallOf]
<1>1. checking \in [Checks -> {NoCheck} \cup CallOf]
  BY DEF LimitsTyped
<1> QED BY <1>1 DEF EndCheck

LEMMA LimitsStep == LimitsInv /\ [LMNext]_lmvars => LimitsInv'
<1> SUFFICES ASSUME LimitsInv, [LMNext]_lmvars PROVE LimitsInv'
  OBVIOUS
<1> USE SqlLimitsAssumption
<1>0. LimitsTyped /\ \A c \in Addresses : LimitKept(c)
  BY DEF LimitsInv
<1>1. CASE TimePasses
  <2>1. \A c \in Addresses : requests'[c] = Mapped(requests[c], Aged)
    <3> SUFFICES ASSUME NEW c \in Addresses
                 PROVE  [i \in DOMAIN requests[c] |-> IF requests[c][i] > 2 * Window + MaxDelay
                                         THEN requests[c][i] ELSE requests[c][i] + 1]
                         = Mapped(requests[c], Aged)
      BY <1>1 DEF TimePasses
    <3>1. requests[c] \in Seq(Nat)
      BY <1>0 DEF LimitsTyped
    <3>2. \A i \in DOMAIN requests[c] : requests[c][i] \in Nat
      BY <3>1
    <3> QED BY <3>2 DEF Mapped, Aged
  <2>2. \A c \in Addresses : Mapped(requests[c], Aged) \in Seq(Nat)
                             /\ Len(Mapped(requests[c], Aged)) = Len(requests[c])
    <3>1. \A c \in Addresses : requests[c] \in Seq(Nat)
      BY <1>0 DEF LimitsTyped
    <3> QED BY <3>1, AgedIsSeq
  <2>3. requests' \in [Addresses -> Seq(Nat)]
    BY <1>1, <2>1, <2>2 DEF TimePasses
  <2>4. \A c \in Addresses : accepted'[c] = Younger(requests'[c], Window)
    <3> SUFFICES ASSUME NEW c \in Addresses PROVE accepted'[c] = Younger(requests'[c], Window)
      OBVIOUS
    <3>1. accepted'[c] = Younger(OneOlder(accepted[c]), Window)
      BY <1>1 DEF TimePasses
    <3>2. accepted[c] = Younger(requests[c], Window) /\ requests[c] \in Seq(Nat)
      BY <1>0 DEF LimitKept, LimitsTyped
    <3>3. Younger(OneOlder(accepted[c]), Window) = Younger(Mapped(requests[c], Aged), Window)
      BY <3>2, AgeingKeeps
    <3> QED BY <2>1, <3>1, <3>3
  <2>5. accepted' \in [Addresses -> Seq(Nat)]
    <3>1. \A c \in Addresses : Younger(requests'[c], Window) \in Seq(Nat)
      BY <2>3, YoungerLess
    <3> QED BY <1>1, <2>4, <3>1 DEF TimePasses
  <2>6. checking' \in [Checks -> {NoCheck} \cup CallOf]
    <3> SUFFICES ASSUME NEW k \in Checks
                 PROVE  (IF checking[k].at = "idle" THEN NoCheck ELSE [checking[k] EXCEPT !.age = @ + 1])
                         \in {NoCheck} \cup CallOf
      BY <1>1 DEF TimePasses
    <3>1. checking[k] \in {NoCheck} \cup CallOf /\ (checking[k].at # "idle" => checking[k].age < MaxDelay)
      BY <1>0, <1>1 DEF TimePasses, LimitsTyped
    <3> QED BY <3>1 DEF NoCheck, CallOf
  <2>7. cleanedAgo' \in 0 .. CleanupEvery + MaxDelay + 1 /\ matched' = matched
    BY <1>0, <1>1 DEF TimePasses, LimitsTyped
  <2>8. LimitsTyped'
    BY <1>0, <2>3, <2>5, <2>6, <2>7 DEF LimitsTyped
  <2>9. \A c \in Addresses : Len(requests'[c]) <= MaxRequests
    BY <1>0, <2>1, <2>2 DEF LimitKept
  <2> QED BY <2>4, <2>8, <2>9 DEF LimitsInv, LimitKept
<1>2. ASSUME NEW k \in Checks,
             \/ \E c \in Addresses : Validate(k, c)
             \/ LookForCleanup(k) \/ MarkCleanup(k) \/ Refuse(k) \/ Match(k)
      PROVE  LimitsInv'
  <2>1. requests' = requests /\ accepted' = accepted
    BY <1>2 DEF Validate, LookForCleanup, MarkCleanup, Refuse, Match
  <2>2. checking' \in [Checks -> {NoCheck} \cup CallOf]
    <3>1. ASSUME NEW c \in Addresses, Validate(k, c)
          PROVE  checking' \in [Checks -> {NoCheck} \cup CallOf]
      <4>1. [at |-> "look", client |-> c, age |-> 0] \in CallOf
        BY DEF CallOf, CallStages
      <4> QED BY <1>0, <3>1, <4>1 DEF Validate, LimitsTyped
    <3>2. CASE LookForCleanup(k)
      <4>1. checking[k].at # "idle" /\ \E stage \in CallStages : MoveOn(k, stage)
        BY <3>2 DEF LookForCleanup, CallStages
      <4> QED BY <1>0, <4>1, CheckGoesOn
    <3>3. CASE MarkCleanup(k)
      <4>1. checking[k].at # "idle" /\ \E stage \in CallStages : MoveOn(k, stage)
        BY <3>3 DEF MarkCleanup, CallStages
      <4> QED BY <1>0, <4>1, CheckGoesOn
    <3>4. CASE Refuse(k) \/ Match(k)
      BY <1>0, <3>4, CheckIsOver DEF Refuse, Match
    <3> QED BY <1>2, <3>1, <3>2, <3>3, <3>4
  <2>3. cleanedAgo' \in 0 .. CleanupEvery + MaxDelay + 1
    <3>1. CASE MarkCleanup(k)
      <4>1. checking[k].age \in 0 .. MaxDelay
        BY <1>0, <3>1, UnderWay DEF MarkCleanup
      <4> QED BY <3>1, <4>1 DEF MarkCleanup
    <3>2. CASE ~MarkCleanup(k)
      <4>1. cleanedAgo' = cleanedAgo
        BY <1>2, <3>2 DEF Validate, LookForCleanup, Refuse, Match
      <4> QED BY <1>0, <4>1 DEF LimitsTyped
    <3> QED BY <3>1, <3>2
  <2>4. matched' \in [Addresses -> 0 .. Burst + 1]
    <3>1. CASE Match(k)
      <4> DEFINE c == checking[k].client
      <4>1. c \in Addresses
        BY <1>0, <3>1, UnderWay DEF Match
      <4>2. matched' = [matched EXCEPT ![c] = IF Anomalous(@) THEN @ ELSE @ + 1]
        BY <3>1 DEF Match
      <4>3. matched[c] \in 0 .. Burst + 1 /\ matched \in [Addresses -> 0 .. Burst + 1]
        BY <1>0, <4>1 DEF LimitsTyped
      <4> HIDE DEF c
      <4> QED BY <4>1, <4>2, <4>3 DEF Anomalous
    <3>2. CASE ~Match(k)
      <4>1. matched' = matched
        BY <1>2, <3>2 DEF Validate, LookForCleanup, MarkCleanup, Refuse
      <4> QED BY <1>0, <4>1 DEF LimitsTyped
    <3> QED BY <3>1, <3>2
  <2>5. LimitsTyped'
    BY <1>0, <2>1, <2>2, <2>3, <2>4 DEF LimitsTyped
  <2> QED BY <1>0, <2>1, <2>5 DEF LimitsInv, LimitKept
<1>3. ASSUME NEW age \in 0 .. MaxDelay, requests' = Swept(age), accepted' = accepted,
             checking' \in [Checks -> {NoCheck} \cup CallOf],
             UNCHANGED <<cleanedAgo, matched>>
      PROVE  LimitsInv'
  <2>1. ASSUME NEW c \in Addresses
        PROVE  requests'[c] \in Seq(Nat) /\ LimitKept(c)'
    <3>1. requests[c] \in Seq(Nat) /\ requests'[c] = Younger(requests[c], 2 * Window + age)
      BY <1>0, <1>3 DEF LimitsTyped, Swept
    <3>2. 2 * Window + age \in Nat /\ Window <= 2 * Window + age /\ Window \in Nat
      OBVIOUS
    <3>3. Younger(requests'[c], Window) = Younger(requests[c], Window)
      BY <3>1, <3>2, YoungerOfYounger
    <3>4. requests'[c] \in Seq(Nat) /\ Len(requests'[c]) <= Len(requests[c])
      BY <3>1, <3>2, YoungerLess
    <3>5. Len(requests'[c]) \in Nat /\ Len(requests[c]) \in Nat
      BY <3>1, <3>4
    <3> QED BY <1>0, <1>3, <3>3, <3>4, <3>5 DEF LimitKept
  <2>2. requests' \in [Addresses -> Seq(Nat)]
    BY <1>3, <2>1 DEF Swept
  <2> QED BY <1>0, <1>3, <2>1, <2>2 DEF LimitsInv, LimitsTyped
<1>4. ASSUME NEW k \in Checks, SweepExpired(k) PROVE LimitsInv'
  <2>1. checking[k].age \in 0 .. MaxDelay
    BY <1>0, <1>4, UnderWay DEF SweepExpired
  <2>2. checking' \in [Checks -> {NoCheck} \cup CallOf]
    <3>1. checking[k].at # "idle" /\ \E stage \in CallStages : MoveOn(k, stage)
      BY <1>4 DEF SweepExpired, CallStages
    <3> QED BY <1>0, <3>1, CheckGoesOn
  <2> QED BY <1>3, <1>4, <2>1, <2>2 DEF SweepExpired
<1>5. CASE ForceCleanup
  <2>1. 0 \in 0 .. MaxDelay
    OBVIOUS
  <2> QED BY <1>0, <1>3, <1>5, <2>1 DEF ForceCleanup, LimitsTyped
<1>6. ASSUME NEW k \in Checks, Admit(k) PROVE LimitsInv'
  <2> DEFINE c == checking[k].client
             age == checking[k].age
             kept == Younger(requests[c], Window + age)
  <2>1. c \in Addresses /\ age \in 0 .. MaxDelay
    BY <1>0, <1>6, UnderWay DEF Admit
  <2>2. checking' \in [Checks -> {NoCheck} \cup CallOf]
    <3>1. checking[k].at # "idle"
      BY <1>6 DEF Admit
    <3>2. EndCheck(k) \/ \E stage \in CallStages : MoveOn(k, stage)
      BY <1>6 DEF Admit, CallStages
    <3> QED BY <1>0, <3>1, <3>2, CheckGoesOn, CheckIsOver
  <2>3. requests[c] \in Seq(Nat) /\ accepted[c] \in Seq(Nat)
    BY <1>0, <2>1 DEF LimitsTyped
  <2>4. Window + age \in Nat /\ Window <= Window + age /\ Window \in Nat /\ age \in Nat
    BY <2>1
  <2>5. kept \in Seq(Nat) /\ Len(kept) <= Len(requests[c])
    <3> DEFINE than == Window + age
    <3>1. than \in Int
      BY <2>4
    <3> HIDE DEF c, than
    <3>2. Younger(requests[c], than) \in Seq(Nat) /\ Len(Younger(requests[c], than)) <= Len(requests[c])
      BY <2>3, <3>1, YoungerLess
    <3> QED BY <3>2 DEF than
  <2>6. Younger(kept, Window) = accepted[c]
    <3>1. Younger(kept, Window) = Younger(requests[c], Window)
      BY <2>3, <2>4, YoungerOfYounger
    <3> QED BY <1>0, <2>1, <3>1 DEF LimitKept
  <2>7. Younger(Append(kept, age), Window) = Append(accepted[c], age)
    <3>1. age \in 0 .. Window - 1
      BY <2>1
    <3> HIDE DEF kept, age
    <3>2. Retain(Append(kept, age), 0 .. Window - 1) = Append(Retain(kept, 0 .. Window - 1), age)
      BY <2>4, <2>5, <3>1, RetainStep
    <3> QED BY <2>6, <3>2 DEF Younger
  <2>8. UNCHANGED <<cleanedAgo, matched>>
    BY <1>6 DEF Admit
  <2>9. CASE Len(kept) >= MaxRequests
    <3>1. requests' = [requests EXCEPT ![c] = kept] /\ accepted' = accepted
      BY <1>6, <2>9 DEF Admit
    <3> HIDE DEF kept, c
    <3>2. \A d \in Addresses : LimitKept(d)'
      <4> SUFFICES ASSUME NEW d \in Addresses PROVE LimitKept(d)'
        OBVIOUS
      <4>1. CASE d = c
        <5>1. requests'[d] = kept /\ accepted'[d] = accepted[c]
          BY <1>0, <2>1, <3>1, <4>1, Zenon DEF LimitsTyped
        <5>2. Len(kept) <= MaxRequests
          <6>1. Len(kept) \in Nat /\ Len(requests[c]) \in Nat
            BY <2>3, <2>5
          <6>2. Len(requests[c]) <= MaxRequests
            BY <1>0, <2>1, Zenon DEF LimitKept
          <6> QED BY <2>5, <6>1, <6>2
        <5> QED BY <2>6, <5>1, <5>2, Zenon DEF LimitKept
      <4>2. CASE d # c
        <5>1. requests'[d] = requests[d] /\ accepted'[d] = accepted[d]
          BY <1>0, <3>1, <4>2 DEF LimitsTyped
        <5> QED BY <1>0, <5>1, Zenon DEF LimitKept
      <4> QED BY <4>1, <4>2
    <3>3. LimitsTyped'
      BY <1>0, <2>1, <2>2, <2>5, <2>8, <3>1 DEF LimitsTyped
    <3> QED BY <3>2, <3>3 DEF LimitsInv
  <2>10. CASE ~(Len(kept) >= MaxRequests)
    <3>1. /\ requests' = [requests EXCEPT ![c] = Append(kept, age)]
          /\ accepted' = [accepted EXCEPT ![c] = Append(accepted[c], age)]
      BY <1>6, <2>10 DEF Admit
    <3> HIDE DEF kept, c, age
    <3>2. Append(kept, age) \in Seq(Nat) /\ Append(accepted[c], age) \in Seq(Nat)
          /\ Len(Append(kept, age)) <= MaxRequests
      BY <2>3, <2>4, <2>5, <2>10
    <3>3. \A d \in Addresses : LimitKept(d)'
      <4> SUFFICES ASSUME NEW d \in Addresses PROVE LimitKept(d)'
        OBVIOUS
      <4>1. CASE d = c
        <5>1. requests'[d] = Append(kept, age) /\ accepted'[d] = Append(accepted[c], age)
          BY <1>0, <2>1, <3>1, <4>1, Zenon DEF LimitsTyped
        <5> QED BY <2>7, <3>2, <5>1, Zenon DEF LimitKept
      <4>2. CASE d # c
        <5>1. requests'[d] = requests[d] /\ accepted'[d] = accepted[d]
          BY <1>0, <3>1, <4>2 DEF LimitsTyped
        <5> QED BY <1>0, <5>1, Zenon DEF LimitKept
      <4> QED BY <4>1, <4>2
    <3>4. LimitsTyped'
      BY <1>0, <2>1, <2>2, <2>8, <3>1, <3>2 DEF LimitsTyped
    <3> QED BY <3>3, <3>4 DEF LimitsInv
  <2> QED BY <2>9, <2>10
<1>7. ASSUME NEW c \in Addresses, ResetLimit(c) PROVE LimitsInv'
  <2>1. <<>> \in Seq(Nat) /\ Len(<<>>) <= MaxRequests /\ <<>> = Younger(<<>>, Window)
    BY RetainEmpty DEF Younger
  <2>2. LimitsTyped'
    BY <1>0, <1>7, <2>1 DEF ResetLimit, LimitsTyped
  <2>3. \A d \in Addresses : LimitKept(d)'
    <3> SUFFICES ASSUME NEW d \in Addresses PROVE LimitKept(d)'
      OBVIOUS
    <3>1. CASE d = c
      <4>1. requests'[d] = <<>> /\ accepted'[d] = <<>>
        BY <1>0, <1>7, <3>1, Zenon DEF ResetLimit, LimitsTyped
      <4> QED BY <2>1, <4>1, Zenon DEF LimitKept
    <3>2. CASE d # c
      <4>1. requests'[d] = requests[d] /\ accepted'[d] = accepted[d]
        BY <1>0, <1>7, <3>2 DEF ResetLimit, LimitsTyped
      <4> QED BY <1>0, <4>1, Zenon DEF LimitKept
    <3> QED BY <3>1, <3>2
  <2> QED BY <2>2, <2>3 DEF LimitsInv
<1>8. CASE (\E c \in Addresses : SetBlock(c)) \/ UNCHANGED lmvars
  BY <1>0, <1>8 DEF SetBlock, lmvars, LimitsInv, LimitsTyped, LimitKept
<1> QED BY <1>1, <1>2, <1>4, <1>5, <1>6, <1>7, <1>8 DEF LMNext

LEMMA LimitsInvariant == LMSpec => []LimitsInv
  BY LimitsStart, LimitsStep, PTL DEF LMSpec

LEMMA LimitsAreTyped == LimitsInv => LMTypeOK
  BY DEF LimitsInv, LimitsTyped, LimitKept, LMTypeOK, CallOf

\* The types of the request lists and of the checks, for any number of clients.
THEOREM LimitsTypeCorrect == LMSpec => []LMTypeOK
  BY LimitsAreTyped, LimitsInvariant, PTL

\* No window of a client has more accepted requests than its limit, whichever checks of it
\* run side by side, are delayed, or clean the list in between.
THEOREM NoMoreInAWindow == LMSpec => []WindowHolds
<1>1. ASSUME LimitsInv PROVE WindowHolds
  <2> SUFFICES ASSUME NEW c \in Addresses, NEW from \in 0 .. MaxDelay
               PROVE  Len(Retain(accepted[c], from .. from + Window - MaxDelay - 1)) <= MaxRequests
    BY DEF WindowHolds
  <2> DEFINE span == from .. from + Window - MaxDelay - 1
  <2>1. accepted[c] \in Seq(Nat) /\ requests[c] \in Seq(Nat) /\ LimitKept(c) /\ Window \in Int /\ MaxRequests \in Nat
    BY <1>1, SqlLimitsAssumption DEF LimitsInv, LimitsTyped
  <2>2. Len(accepted[c]) <= Len(requests[c])
    BY <2>1, YoungerLess DEF LimitKept
  <2>3. Len(Retain(accepted[c], span)) <= Len(accepted[c]) /\ Retain(accepted[c], span) \in Seq(Nat)
    <3> HIDE DEF span
    <3> QED BY <2>1, RetainLeavesLess
  <2> HIDE DEF span
  <2>4. Len(Retain(accepted[c], span)) \in Nat /\ Len(accepted[c]) \in Nat /\ Len(requests[c]) \in Nat
    BY <2>1, <2>3
  <2>5. Len(requests[c]) <= MaxRequests
    BY <2>1 DEF LimitKept
  <2>6. Len(Retain(accepted[c], span)) <= MaxRequests
    BY <2>1, <2>2, <2>3, <2>4, <2>5
  <2> QED BY <2>6 DEF span
<1> QED BY <1>1, LimitsInvariant, PTL

(***************************************************************************)
(* The batches of queries.                                                 *)
(***************************************************************************)
\* How many of the added queries are in batches that have ended.
Ended == Len(added) - Len(gathered)

BatchTyped ==
    /\ added \in Seq(Queries) /\ gathered \in Seq(Queries) /\ ran \in Seq(Queries)
    /\ busy \in BOOLEAN /\ next \in 0 .. Len(gathered)
    /\ Len(gathered) <= MaxBatch

\* Until it is run, a batch is not full and none of it is behind.
NotRunYet == ~busy => Len(gathered) < MaxBatch /\ next = 0

\* The batch is the end of what was added.
LastAdded ==
    /\ Len(gathered) <= Len(added)
    /\ \A i \in DOMAIN gathered : gathered[i] = added[Ended + i]

\* What has been run was added before; a write that has been run is in a batch that has
\* ended or behind in this one, and so is everything before the batch is run.
RanWasAdded ==
    \A i \in DOMAIN ran : \E a \in DOMAIN added :
        /\ added[a] = ran[i]
        /\ ran[i] \notin Reads => a <= Ended + next
        /\ ~busy => a <= Ended

\* The queries of the ended batches have been run, and the writes that are behind.
BehindWasRun ==
    \A a \in DOMAIN added :
        a <= Ended \/ (a <= Ended + next /\ added[a] \notin Reads) => added[a] \in Elements(ran)

WritesInOrder ==
    \A i, j \in DOMAIN ran : \A a, b \in DOMAIN added :
        i < j /\ {ran[i], ran[j]} \cap Reads = {} /\ added[a] = ran[i] /\ added[b] = ran[j]
            => a < b

BatchInv ==
    /\ BatchTyped /\ NotRunYet /\ LastAdded /\ OnlyOnce(added) /\ OnlyOnce(ran)
    /\ RanWasAdded /\ BehindWasRun /\ WritesInOrder

LEMMA BatchStart == SBInit => BatchInv
<1> SUFFICES ASSUME SBInit PROVE BatchInv
  OBVIOUS
<1> USE BatchAssumption
<1>1. /\ added \in Seq(Queries) /\ gathered \in Seq(Queries) /\ ran \in Seq(Queries)
      /\ DOMAIN added = {} /\ DOMAIN gathered = {} /\ DOMAIN ran = {} /\ Len(gathered) = 0
      /\ Len(added) = 0 /\ busy = FALSE /\ next = 0
  BY DEF SBInit
<1>2. BatchTyped
  <2>1. next \in 0 .. Len(gathered) /\ Len(gathered) <= MaxBatch
    BY <1>1
  <2>2. busy \in BOOLEAN
    BY <1>1
  <2> QED BY <1>1, <2>1, <2>2 DEF BatchTyped
<1>4. NotRunYet /\ LastAdded
  <2>1. Len(gathered) < MaxBatch /\ Len(gathered) <= Len(added)
    BY <1>1
  <2> QED BY <1>1, <2>1, Zenon DEF NotRunYet, LastAdded
<1>3. OnlyOnce(added) /\ OnlyOnce(ran) /\ RanWasAdded /\ BehindWasRun /\ WritesInOrder
  BY <1>1 DEF OnlyOnce, RanWasAdded, BehindWasRun, WritesInOrder
<1> QED BY <1>2, <1>3, <1>4 DEF BatchInv

LEMMA BatchStep == BatchInv /\ [SBNext]_sbvars => BatchInv'
<1> SUFFICES ASSUME BatchInv, [SBNext]_sbvars PROVE BatchInv'
  OBVIOUS
<1> USE BatchAssumption
<1>0. /\ BatchTyped /\ NotRunYet /\ LastAdded /\ OnlyOnce(added) /\ OnlyOnce(ran)
      /\ RanWasAdded /\ BehindWasRun /\ WritesInOrder
  BY DEF BatchInv
<1>t. /\ Len(added) \in Nat /\ Len(gathered) \in Nat /\ Len(ran) \in Nat
      /\ DOMAIN added = 1 .. Len(added) /\ DOMAIN gathered = 1 .. Len(gathered)
      /\ DOMAIN ran = 1 .. Len(ran) /\ Ended \in 0 .. Len(added) /\ next \in Nat
  BY <1>0 DEF BatchTyped, LastAdded, Ended
<1>1. ASSUME NEW q \in Queries, AddQuery(q) PROVE BatchInv'
  <2>1. /\ q \notin Elements(added) /\ ~busy
        /\ added' = Append(added, q) /\ gathered' = Append(gathered, q)
        /\ busy' = (Len(gathered') >= MaxBatch) /\ next' = 0 /\ ran' = ran
    BY <1>1 DEF AddQuery
  <2>2. /\ added' \in Seq(Queries) /\ Len(added') = Len(added) + 1
        /\ DOMAIN added' = 1 .. Len(added) + 1 /\ added'[Len(added) + 1] = q
        /\ \A a \in 1 .. Len(added) : added'[a] = added[a]
    BY <1>0, <2>1, Appended DEF BatchTyped
  <2>3. /\ gathered' \in Seq(Queries) /\ Len(gathered') = Len(gathered) + 1
        /\ DOMAIN gathered' = 1 .. Len(gathered) + 1 /\ gathered'[Len(gathered) + 1] = q
        /\ \A i \in 1 .. Len(gathered) : gathered'[i] = gathered[i]
    BY <1>0, <2>1, Appended DEF BatchTyped
  <2>4. BatchTyped' /\ NotRunYet'
    <3>1. busy' \in BOOLEAN
      BY <2>1
    <3>2. Len(gathered) < MaxBatch
      BY <1>0, <2>1 DEF NotRunYet
    <3>3. Len(gathered') <= MaxBatch /\ next' \in 0 .. Len(gathered')
      BY <1>t, <2>1, <2>3, <3>2
    <3>4. NotRunYet'
      <4>1. ~busy' => ~(Len(gathered') >= MaxBatch)
        BY <2>1, Zenon
      <4>2. Len(gathered') >= MaxBatch \/ Len(gathered') < MaxBatch
        BY <1>t, <2>3
      <4> QED BY <2>1, <4>1, <4>2, Zenon DEF NotRunYet
    <3>5. ran' \in Seq(Queries)
      BY <1>0, <2>1 DEF BatchTyped
    <3> QED BY <2>2, <2>3, <3>1, <3>3, <3>4, <3>5 DEF BatchTyped
  <2>5. Ended' = Ended
    BY <1>t, <2>2, <2>3 DEF Ended
  <2>6. LastAdded'
    <3>1. ASSUME NEW i \in 1 .. Len(gathered) + 1 PROVE gathered'[i] = added'[Ended + i]
      <4>1. CASE i = Len(gathered) + 1
        BY <1>t, <2>2, <2>3, <4>1 DEF Ended
      <4>2. CASE i \in 1 .. Len(gathered)
        <5>1. Ended + i \in 1 .. Len(added)
          BY <1>t, <4>2 DEF Ended
        <5> QED BY <1>0, <1>t, <2>2, <2>3, <4>2, <5>1 DEF LastAdded
      <4> QED BY <1>t, <4>1, <4>2
    <3> QED BY <1>0, <1>t, <2>2, <2>3, <2>5, <3>1 DEF LastAdded
  <2>7. OnlyOnce(added')
    BY <1>0, <2>1, OnlyOnceAppended DEF BatchTyped
  <2>8. RanWasAdded'
    <3> SUFFICES ASSUME NEW i \in DOMAIN ran
                 PROVE  \E a \in DOMAIN added' : added'[a] = ran[i] /\ a <= Ended
      BY <1>t, <2>1, <2>2, <2>5 DEF RanWasAdded
    <3>1. PICK a \in DOMAIN added : added[a] = ran[i] /\ a <= Ended
      BY <1>0, <2>1 DEF RanWasAdded
    <3> QED BY <1>t, <2>2, <3>1
  <2>9. BehindWasRun'
    <3> SUFFICES ASSUME NEW a \in DOMAIN added', a <= Ended PROVE added'[a] \in Elements(ran)
      BY <1>t, <2>1, <2>2, <2>5 DEF BehindWasRun
    <3>1. a \in DOMAIN added
      BY <1>t, <2>2
    <3> QED BY <1>0, <1>t, <2>2, <3>1 DEF BehindWasRun
  <2>10. WritesInOrder'
    <3> SUFFICES ASSUME NEW i \in DOMAIN ran, NEW j \in DOMAIN ran,
                        NEW a \in DOMAIN added', NEW b \in DOMAIN added', i < j,
                        {ran[i], ran[j]} \cap Reads = {}, added'[a] = ran[i], added'[b] = ran[j]
                 PROVE  a < b
      BY <2>1 DEF WritesInOrder
    <3>1. ran[i] \in Elements(added) /\ ran[j] \in Elements(added)
      BY <1>0 DEF RanWasAdded, Elements
    <3>2. a \in DOMAIN added /\ b \in DOMAIN added
      BY <1>t, <2>1, <2>2, <3>1
    <3> QED BY <1>0, <1>t, <2>2, <3>2 DEF WritesInOrder
  <2> QED BY <1>0, <2>1, <2>4, <2>6, <2>7, <2>8, <2>9, <2>10 DEF BatchInv
<1>2. CASE Flush
  <2>1. ~busy /\ busy' = TRUE /\ next' = 0 /\ next = 0 /\ UNCHANGED <<added, gathered, ran>>
    BY <1>0, <1>2 DEF Flush, NotRunYet
  <2>2. BatchTyped' /\ NotRunYet' /\ LastAdded'
    BY <1>0, <1>t, <2>1 DEF BatchTyped, NotRunYet, LastAdded, Ended
  <2>3. RanWasAdded'
    BY <1>0, <2>1 DEF RanWasAdded, Ended
  <2>4. BehindWasRun' /\ WritesInOrder'
    BY <1>0, <2>1 DEF BehindWasRun, WritesInOrder, Ended
  <2> QED BY <1>0, <2>1, <2>2, <2>3, <2>4 DEF BatchInv, OnlyOnce
<1>3. ASSUME NEW q \in Queries, RunRead(q) PROVE BatchInv'
  <2>1. /\ busy /\ q \in Elements(gathered) /\ q \in Reads /\ q \notin Elements(ran)
        /\ ran' = Append(ran, q) /\ UNCHANGED <<added, gathered, busy, next>>
    BY <1>3 DEF RunRead, ReadsLeft
  <2>2. /\ ran' \in Seq(Queries) /\ DOMAIN ran' = 1 .. Len(ran) + 1 /\ ran'[Len(ran) + 1] = q
        /\ \A i \in 1 .. Len(ran) : ran'[i] = ran[i]
    BY <1>0, <2>1, Appended DEF BatchTyped
  <2>3. Elements(ran') = Elements(ran) \cup {q} /\ OnlyOnce(ran')
    BY <1>0, <2>1, ElementsAppended, OnlyOnceAppended DEF BatchTyped
  <2>4. BatchTyped' /\ NotRunYet' /\ LastAdded' /\ Ended' = Ended
    BY <1>0, <2>1, <2>2 DEF BatchTyped, NotRunYet, LastAdded, Ended
  <2>5. RanWasAdded'
    <3>1. \E a \in DOMAIN added : added[a] = q
      <4>1. PICK i \in DOMAIN gathered : gathered[i] = q
        BY <2>1 DEF Elements
      <4>2. Ended + i \in DOMAIN added
        BY <1>t DEF Ended
      <4> QED BY <1>0, <4>1, <4>2 DEF LastAdded
    <3> SUFFICES ASSUME NEW i \in DOMAIN ran'
                 PROVE  \E a \in DOMAIN added :
                            added[a] = ran'[i] /\ (ran'[i] \notin Reads => a <= Ended + next)
      BY <2>1, <2>4 DEF RanWasAdded
    <3>2. CASE i = Len(ran) + 1
      BY <2>1, <2>2, <3>1, <3>2
    <3>3. CASE i \in DOMAIN ran
      BY <1>0, <1>t, <2>2, <3>3 DEF RanWasAdded
    <3> QED BY <1>t, <2>2, <3>2, <3>3
  <2>6. BehindWasRun'
    BY <1>0, <2>1, <2>3, <2>4 DEF BehindWasRun
  <2>7. WritesInOrder'
    <3> SUFFICES ASSUME NEW i \in DOMAIN ran', NEW j \in DOMAIN ran',
                        NEW a \in DOMAIN added, NEW b \in DOMAIN added, i < j,
                        {ran'[i], ran'[j]} \cap Reads = {}, added[a] = ran'[i], added[b] = ran'[j]
                 PROVE  a < b
      BY <2>1 DEF WritesInOrder
    <3>1. i \in DOMAIN ran /\ j \in DOMAIN ran
      BY <1>t, <2>1, <2>2
    <3> QED BY <1>0, <1>t, <2>2, <3>1 DEF WritesInOrder
  <2> QED BY <1>0, <2>1, <2>3, <2>4, <2>5, <2>6, <2>7 DEF BatchInv
<1>4. CASE RunWrite
  <2> DEFINE w == gathered[next + 1]
             at == Ended + next + 1
  <2>1. busy /\ next < Len(gathered) /\ next' = next + 1 /\ UNCHANGED <<added, gathered, busy>>
        /\ ran' = (IF w \in Reads THEN ran ELSE Append(ran, w))
    BY <1>4 DEF RunWrite
  <2>2. at \in DOMAIN added /\ added[at] = w /\ w \in Queries
    <3>1. next + 1 \in DOMAIN gathered
      BY <1>t, <2>1
    <3>2. at \in DOMAIN added /\ at = Ended + (next + 1)
      BY <1>t, <2>1 DEF Ended
    <3> QED BY <1>0, <3>1, <3>2 DEF LastAdded, BatchTyped
  <2>3. LastAdded' /\ NotRunYet' /\ Ended' = Ended /\ Ended' + next' = at
    BY <1>0, <1>t, <2>1 DEF NotRunYet, LastAdded, Ended
  <2> HIDE DEF w
  <2>4. w \notin Reads => w \notin Elements(ran)
    <3> SUFFICES ASSUME w \notin Reads, NEW i \in DOMAIN ran, ran[i] = w PROVE FALSE
      BY DEF Elements
    <3>1. PICK a \in DOMAIN added : added[a] = w /\ a <= Ended + next
      BY <1>0 DEF RanWasAdded
    <3> QED BY <1>0, <1>t, <2>2, <3>1 DEF OnlyOnce
  <2>5. CASE w \in Reads
    <3>1. ran' = ran
      BY <2>1, <2>5
    <3>2. BatchTyped'
      <4>1. next' \in 0 .. Len(gathered)
        BY <1>t, <2>1
      <4> QED BY <1>0, <2>1, <3>1, <4>1 DEF BatchTyped
    <3>3. RanWasAdded'
      <4> SUFFICES ASSUME NEW i \in DOMAIN ran
                   PROVE  \E a \in DOMAIN added :
                              added[a] = ran[i] /\ (ran[i] \notin Reads => a <= at)
        BY <2>1, <2>3, <3>1 DEF RanWasAdded
      <4>1. PICK a \in DOMAIN added : added[a] = ran[i] /\ (ran[i] \notin Reads => a <= Ended + next)
        BY <1>0 DEF RanWasAdded
      <4> QED BY <1>t, <4>1
    <3>4. BehindWasRun'
      <4> SUFFICES ASSUME NEW a \in DOMAIN added, a <= Ended \/ (a <= at /\ added[a] \notin Reads)
                   PROVE  added[a] \in Elements(ran)
        BY <2>1, <2>3, <3>1 DEF BehindWasRun
      <4>1. a <= Ended \/ (a <= Ended + next /\ added[a] \notin Reads)
        BY <1>t, <2>2, <2>5
      <4> QED BY <1>0, <4>1 DEF BehindWasRun
    <3>5. WritesInOrder'
      BY <1>0, <2>1, <3>1 DEF WritesInOrder
    <3> QED BY <1>0, <2>1, <2>3, <3>1, <3>2, <3>3, <3>4, <3>5 DEF BatchInv
  <2>6. CASE w \notin Reads
    <3>1. ran' = Append(ran, w)
      BY <2>1, <2>6
    <3>2. /\ ran' \in Seq(Queries) /\ DOMAIN ran' = 1 .. Len(ran) + 1 /\ ran'[Len(ran) + 1] = w
          /\ \A i \in 1 .. Len(ran) : ran'[i] = ran[i]
      BY <1>0, <2>2, <3>1, Appended DEF BatchTyped
    <3>3. Elements(ran') = Elements(ran) \cup {w} /\ OnlyOnce(ran')
      BY <1>0, <2>2, <2>4, <2>6, <3>1, ElementsAppended, OnlyOnceAppended DEF BatchTyped
    <3>4. BatchTyped'
      BY <1>0, <1>t, <2>1, <3>2 DEF BatchTyped
    <3>5. RanWasAdded'
      <4> SUFFICES ASSUME NEW i \in DOMAIN ran'
                   PROVE  \E a \in DOMAIN added :
                              added[a] = ran'[i] /\ (ran'[i] \notin Reads => a <= at)
        BY <2>1, <2>3 DEF RanWasAdded
      <4>1. CASE i = Len(ran) + 1
        BY <1>t, <2>2, <3>2, <4>1
      <4>2. CASE i \in DOMAIN ran
        <5>1. PICK a \in DOMAIN added : added[a] = ran[i] /\ (ran[i] \notin Reads => a <= Ended + next)
          BY <1>0, <4>2 DEF RanWasAdded
        <5> QED BY <1>t, <3>2, <4>2, <5>1
      <4> QED BY <1>t, <3>2, <4>1, <4>2
    <3>6. BehindWasRun'
      <4> SUFFICES ASSUME NEW a \in DOMAIN added, a <= Ended \/ (a <= at /\ added[a] \notin Reads)
                   PROVE  added[a] \in Elements(ran) \cup {w}
        BY <2>1, <2>3, <3>3 DEF BehindWasRun
      <4>1. a = at \/ a <= Ended \/ (a <= Ended + next /\ added[a] \notin Reads)
        BY <1>t, <2>2
      <4> QED BY <1>0, <2>2, <4>1 DEF BehindWasRun
    <3>7. WritesInOrder'
      <4> SUFFICES ASSUME NEW i \in DOMAIN ran', NEW j \in DOMAIN ran',
                          NEW a \in DOMAIN added, NEW b \in DOMAIN added, i < j,
                          {ran'[i], ran'[j]} \cap Reads = {}, added[a] = ran'[i], added[b] = ran'[j]
                   PROVE  a < b
        BY <2>1 DEF WritesInOrder
      <4>1. i \in DOMAIN ran /\ ran'[i] = ran[i]
        BY <1>t, <3>2
      <4>2. CASE j = Len(ran) + 1
        <5>1. PICK c \in DOMAIN added : added[c] = ran[i] /\ (ran[i] \notin Reads => c <= Ended + next)
          BY <1>0, <4>1 DEF RanWasAdded
        <5>2. ran[i] \notin Reads
          BY <4>1
        <5>3. c = a /\ b = at
          BY <1>0, <2>2, <3>2, <4>1, <4>2, <5>1 DEF OnlyOnce
        <5> QED BY <1>t, <5>1, <5>2, <5>3
      <4>3. CASE j \in DOMAIN ran
        BY <1>0, <1>t, <3>2, <4>1, <4>3 DEF WritesInOrder
      <4> QED BY <1>t, <3>2, <4>2, <4>3
    <3> QED BY <1>0, <2>1, <2>3, <3>3, <3>4, <3>5, <3>6, <3>7 DEF BatchInv
  <2> QED BY <2>5, <2>6
<1>5. CASE EndBatch
  <2>1. /\ busy /\ ReadsLeft = {} /\ next = Len(gathered) /\ busy' = FALSE /\ gathered' = <<>>
        /\ next' = 0 /\ UNCHANGED <<added, ran>>
    BY <1>5 DEF EndBatch
  <2>2. gathered' \in Seq(Queries) /\ Len(gathered') = 0 /\ DOMAIN gathered' = {}
    BY <2>1
  <2>3. Ended' = Len(added) /\ Ended + next = Len(added)
    BY <1>t, <2>1, <2>2 DEF Ended
  <2>4. BatchTyped' /\ NotRunYet' /\ LastAdded'
    <3>1. BatchTyped'
      <4>1. Len(gathered') <= MaxBatch /\ next' \in 0 .. Len(gathered')
        BY <2>1, <2>2
      <4> QED BY <1>0, <2>1, <2>2, <4>1 DEF BatchTyped
    <3>2. NotRunYet' /\ LastAdded'
      BY <1>0, <1>t, <2>1, <2>2 DEF NotRunYet, LastAdded
    <3> QED BY <3>1, <3>2
  <2>5. RanWasAdded'
    BY <1>0, <1>t, <2>1, <2>3 DEF RanWasAdded
  <2>6. BehindWasRun'
    <3> SUFFICES ASSUME NEW a \in DOMAIN added PROVE added[a] \in Elements(ran)
      BY <2>1 DEF BehindWasRun
    <3>1. CASE added[a] \notin Reads \/ a <= Ended
      BY <1>0, <1>t, <2>3, <3>1 DEF BehindWasRun
    <3>2. CASE added[a] \in Reads /\ ~(a <= Ended)
      <4>1. a - Ended \in DOMAIN gathered /\ a = Ended + (a - Ended)
        BY <1>t, <3>2 DEF Ended
      <4>2. gathered[a - Ended] = added[a]
        BY <1>0, <4>1 DEF LastAdded
      <4>3. added[a] \in Elements(gathered)
        BY <4>1, <4>2 DEF Elements
      <4> QED BY <2>1, <3>2, <4>3 DEF ReadsLeft
    <3> QED BY <3>1, <3>2
  <2>7. WritesInOrder' /\ OnlyOnce(added') /\ OnlyOnce(ran')
    BY <1>0, <2>1 DEF WritesInOrder
  <2> QED BY <2>4, <2>5, <2>6, <2>7 DEF BatchInv
<1>6. CASE UNCHANGED sbvars
  BY <1>0, <1>6 DEF sbvars, BatchInv, BatchTyped, NotRunYet, LastAdded, RanWasAdded, BehindWasRun,
     WritesInOrder, Ended, OnlyOnce
<1> QED BY <1>1, <1>2, <1>3, <1>4, <1>5, <1>6 DEF SBNext

LEMMA BatchInvariant == SBSpec => []BatchInv
  BY BatchStart, BatchStep, PTL DEF SBSpec

LEMMA BatchIsTyped == BatchInv => SBTypeOK
  BY BatchAssumption DEF BatchInv, BatchTyped, SBTypeOK

\* The types, and that a batch never has more queries than its limit.
THEOREM BatchTypeCorrect == SBSpec => []SBTypeOK
  BY BatchIsTyped, BatchInvariant, PTL

\* What was added is run once, and the writes in the order in which they were added, for any
\* queries, any size of the batches, and whichever tasks add and run them.
THEOREM QueriesRunOnceInOrder == SBSpec => []RunOnceInOrder
<1>1. ASSUME BatchInv PROVE RunOnceInOrder
  <2>1. /\ BatchTyped /\ LastAdded /\ OnlyOnce(added) /\ OnlyOnce(ran)
        /\ RanWasAdded /\ BehindWasRun /\ WritesInOrder
    BY <1>1 DEF BatchInv
  <2>2. DOMAIN added = 1 .. Len(added) /\ DOMAIN gathered = 1 .. Len(gathered)
        /\ DOMAIN ran = 1 .. Len(ran)
        /\ Len(added) \in Nat /\ Len(gathered) \in Nat /\ Len(ran) \in Nat
    BY <2>1 DEF BatchTyped
  <2>3. ASSUME NEW q \in Elements(added) \ Elements(gathered) PROVE q \in Elements(ran)
    <3>1. PICK a \in DOMAIN added : added[a] = q
      BY DEF Elements
    <3>2. a <= Ended
      <4> SUFFICES ASSUME ~(a <= Ended) PROVE FALSE
        OBVIOUS
      <4>1. a - Ended \in DOMAIN gathered /\ a = Ended + (a - Ended)
        BY <2>1, <2>2 DEF Ended, LastAdded
      <4>2. gathered[a - Ended] = q
        BY <2>1, <3>1, <4>1 DEF LastAdded
      <4> QED BY <4>1, <4>2 DEF Elements
    <3> QED BY <2>1, <3>1, <3>2 DEF BehindWasRun
  <2>4. ASSUME NEW i \in DOMAIN ran, NEW j \in DOMAIN ran, i < j
        PROVE  /\ ran[i] # ran[j]
               /\ {ran[i], ran[j]} \cap Reads = {}
                      => Position(added, ran[i]) < Position(added, ran[j])
    <3>1. ran[i] # ran[j]
      BY <2>1, <2>2, <2>4 DEF OnlyOnce
    <3>2. ASSUME NEW k \in DOMAIN ran
          PROVE  Position(added, ran[k]) \in DOMAIN added
                 /\ added[Position(added, ran[k])] = ran[k]
      <4>1. \E a \in DOMAIN added : added[a] = ran[k]
        BY <2>1 DEF RanWasAdded
      <4> QED BY <4>1, Zenon DEF Position
    <3>3. CASE {ran[i], ran[j]} \cap Reads = {}
      <4> DEFINE a == Position(added, ran[i])
                 b == Position(added, ran[j])
      <4>1. a \in DOMAIN added /\ b \in DOMAIN added /\ added[a] = ran[i] /\ added[b] = ran[j]
        BY <3>2
      <4> HIDE DEF a, b
      <4>2. a < b
        BY <2>1, <2>4, <3>3, <4>1 DEF WritesInOrder
      <4> QED BY <3>1, <4>2 DEF a, b
    <3> QED BY <3>1, <3>3
  <2> QED BY <2>3, <2>4 DEF RunOnceInOrder
<1> QED BY <1>1, BatchInvariant, PTL

(***************************************************************************)
(* The replicas.                                                           *)
(***************************************************************************)
\* Among numbers, there is one with as many below it, for each less than there are.
LEMMA RankExists ==
    ASSUME NEW H \in SUBSET Nat, IsFiniteSet(H), NEW n \in 0 .. Cardinality(H) - 1
    PROVE  \E i \in H : Cardinality({j \in H : j < i}) = n
<1> DEFINE Below(i) == {j \in H : j < i}
           P == {m \in Nat : m < Cardinality(H) => \E i \in H : Cardinality(Below(i)) = m}
<1>0. Cardinality(H) \in Nat
  BY FS_CardinalityType
<1>1. 0 \in P
  <2> SUFFICES ASSUME 0 < Cardinality(H) PROVE \E i \in H : Cardinality(Below(i)) = 0
    OBVIOUS
  <2>1. H # {}
    BY FS_EmptySet
  <2>2. PICK i \in H : \A j \in H : i <= j
    BY <2>1, LeastExists
  <2>3. Below(i) = {}
    <3> SUFFICES ASSUME NEW j \in H, j < i PROVE FALSE
      OBVIOUS
    <3>1. i \in Nat /\ j \in Nat /\ i <= j
      BY <2>2
    <3> QED BY <3>1
  <2> HIDE DEF Below
  <2> QED BY <2>3, FS_EmptySet
<1>2. ASSUME NEW m \in 0 .. n - 1, m \in P PROVE m + 1 \in P
  <2> SUFFICES ASSUME m + 1 < Cardinality(H) PROVE \E i \in H : Cardinality(Below(i)) = m + 1
    OBVIOUS
  <2>1. PICK i \in H : Cardinality(Below(i)) = m
    BY <1>0, <1>2
  <2> DEFINE Above == {j \in H : i < j}
  <2>2. IsFiniteSet(Below(i))
    BY FS_Subset
  <2>3. IsFiniteSet(Below(i) \cup {i}) /\ Cardinality(Below(i) \cup {i}) = m + 1
    <3>1. i \notin Below(i)
      OBVIOUS
    <3> HIDE DEF Below
    <3> QED BY <2>1, <2>2, <3>1, FS_AddElement
  <2>4. Above # {}
    <3> SUFFICES ASSUME Above = {} PROVE FALSE
      OBVIOUS
    <3>1. H = Below(i) \cup {i}
      <4>1. ASSUME NEW j \in H, j # i PROVE j < i
        <5>1. i \in Nat /\ j \in Nat /\ ~(i < j)
          OBVIOUS
        <5> QED BY <4>1, <5>1
      <4> QED BY <4>1
    <3> HIDE DEF Below
    <3> QED BY <1>0, <2>3, <3>1
  <2>5. PICK k \in Above : \A j \in Above : k <= j
    <3>1. Above \in SUBSET Nat
      OBVIOUS
    <3> HIDE DEF Above
    <3> QED BY <2>4, <3>1, LeastExists
  <2>7. k \in H /\ i < k
    BY <2>5
  <2>6. Below(k) = Below(i) \cup {i}
    <3>1. ASSUME NEW j \in H PROVE j < k <=> j < i \/ j = i
      <4>1. i \in Nat /\ j \in Nat /\ k \in Nat
        BY <2>7
      <4>2. i < j => k <= j
        BY <2>5
      <4> QED BY <2>7, <4>1, <4>2
    <3> QED BY <3>1
  <2> HIDE DEF Below, Above
  <2> QED BY <2>3, <2>6, <2>7
<1>3. 0 .. n \subseteq P
  <2> HIDE DEF P
  <2> QED BY <1>1, <1>2, UpTo
<1>4. n \in P /\ n < Cardinality(H)
  BY <1>0, <1>3
<1> QED BY <1>4

(***************************************************************************)
(* The balancer.                                                           *)
(***************************************************************************)
NodeKind == [url : Urls, errors : 0 .. ErrorLimit + 1, healthy : BOOLEAN]
UrlOf == [m \in NodeKind |-> m.url]

ScalingTyped ==
    /\ nodes \in Seq(Urls) /\ metrics \in Seq(NodeKind)
    /\ Len(nodes) <= MaxNodes
    /\ index \in 0 .. IndexPeriod - 1
    /\ editing \in {NoEdit} \cup [kind : {"add", "remove"}, url : Urls]
    /\ replicaCount \in 0 .. MaxReplicas
    /\ scaling \in [Scalers -> {NotScaling} \cup 0 .. MaxReplicas]

\* The metrics are those of the nodes, or will be when the edit has ended.
Aligned ==
    /\ editing = NoEdit => nodes = Mapped(metrics, UrlOf)
    /\ editing.kind = "add" => nodes = Append(Mapped(metrics, UrlOf), editing.url)
    /\ editing.kind = "remove" => nodes = Retain(Mapped(metrics, UrlOf), Urls \ {editing.url})

ScalingInv == ScalingTyped /\ Aligned /\ PickedIsHealthy

LEMMA UrlsAre ==
    ASSUME NEW s \in Seq(NodeKind)
    PROVE  Mapped(s, UrlOf) \in Seq(Urls) /\ Len(Mapped(s, UrlOf)) = Len(s)
<1>1. \A m \in NodeKind : UrlOf[m] \in Urls
  BY DEF UrlOf, NodeKind
<1> QED BY <1>1 DEF Mapped

\* Of the constants only their types matter here.
LEMMA ScalingConstants ==
    /\ MaxNodes \in Nat \ {0} /\ ErrorLimit \in Nat /\ MaxReplicas \in Nat \ {0}
    /\ IndexPeriod \in Nat \ {0}
  BY SqlScalingAssumption

LEMMA NewIsKnown ==
    ASSUME NEW url \in Urls
    PROVE  NewNode(url) \in NodeKind /\ UrlOf[NewNode(url)] = url
<1>1. NewNode(url) \in NodeKind
  BY ScalingConstants DEF NewNode, NodeKind
<1>2. NewNode(url).url = url
  BY DEF NewNode
<1> QED BY <1>1, <1>2 DEF UrlOf

LEMMA ScalingStart == SLInit => ScalingInv
<1> SUFFICES ASSUME SLInit PROVE ScalingInv
  OBVIOUS
<1> USE ScalingConstants
<1>1. PICK urls \in {<<>>} \cup {<<u>> : u \in Urls} :
         nodes = urls /\ metrics = [i \in DOMAIN urls |-> NewNode(urls[i])]
  BY DEF SLInit
<1>2. nodes \in Seq(Urls) /\ Len(nodes) <= 1 /\ \A i \in DOMAIN nodes : nodes[i] \in Urls
  <2>1. nodes \in Seq(Urls) /\ Len(nodes) <= 1
    <3>1. CASE urls = <<>>
      BY <1>1, <3>1
    <3>2. ASSUME NEW u \in Urls, urls = <<u>> PROVE nodes \in Seq(Urls) /\ Len(nodes) <= 1
      BY <1>1, <3>2
    <3> QED BY <3>1, <3>2
  <2> QED BY <2>1
<1>3. metrics \in Seq(NodeKind) /\ DOMAIN metrics = DOMAIN nodes
  <2>1. \A i \in DOMAIN nodes : NewNode(nodes[i]) \in NodeKind
    BY <1>2, NewIsKnown
  <2> QED BY <1>1, <1>2, <2>1
<1>4. \A i \in DOMAIN nodes : UrlOf[metrics[i]] = nodes[i]
  BY <1>1, <1>2, NewIsKnown
<1>5. Mapped(metrics, UrlOf) = nodes
  BY <1>2, <1>3, <1>4 DEF Mapped
<1>6. ScalingTyped
  BY <1>2, <1>3 DEF SLInit, ScalingTyped
<1> QED BY <1>5, <1>6 DEF SLInit, ScalingInv, Aligned, PickedIsHealthy, NoEdit, NoNode

\* When nothing is being edited, a node has the health of its place.
LEMMA PickOfHealthy ==
    ASSUME ScalingInv, Editable, NEW i \in Healthy, Pick(i)
    PROVE  picked'.healthy
<1>1. i \in DOMAIN metrics /\ metrics[i].healthy /\ metrics \in Seq(NodeKind)
  BY DEF Healthy, ScalingInv, ScalingTyped
<1>2. nodes[i] = metrics[i].url
  <2>1. nodes = Mapped(metrics, UrlOf)
    BY DEF ScalingInv, Aligned, Editable
  <2>2. metrics[i] \in NodeKind
    BY <1>1
  <2> QED BY <1>1, <2>1, <2>2 DEF Mapped, UrlOf
<1>3. \E m \in DOMAIN metrics : metrics[m].url = nodes[i] /\ metrics[m].healthy
  BY <1>1, <1>2
<1> QED BY <1>3 DEF Pick

\* The n-th healthy replica is one, as long as there are more than n.
LEMMA NthIsHealthy ==
    ASSUME ScalingTyped, NEW n \in Nat, n < Cardinality(Healthy)
    PROVE  NthHealthy(n) \in Healthy
<1>1. Healthy \in SUBSET Nat /\ IsFiniteSet(Healthy)
  <2>1. Healthy \in SUBSET (1 .. Len(nodes)) /\ Len(nodes) \in Nat
    BY DEF Healthy, ScalingTyped
  <2>2. IsFiniteSet(1 .. Len(nodes))
    BY <2>1, FS_Interval
  <2>3. IsFiniteSet(Healthy)
    BY <2>1, <2>2, FS_Subset
  <2> HIDE DEF Healthy
  <2>4. 1 .. Len(nodes) \subseteq Nat
    BY <2>1
  <2> QED BY <2>1, <2>3, <2>4
<1>2. Cardinality(Healthy) \in Nat
  BY <1>1, FS_CardinalityType
<1>3. \E i \in Healthy : Cardinality({j \in Healthy : j < i}) = n
  <2> HIDE DEF Healthy
  <2>1. n \in 0 .. Cardinality(Healthy) - 1
    BY <1>2
  <2> QED BY <1>1, <2>1, RankExists
<1> HIDE DEF Healthy
<1> QED BY <1>3, Zenon DEF NthHealthy

LEMMA HealthyCount ==
    ASSUME ScalingTyped, Healthy # {}
    PROVE  Cardinality(Healthy) \in Nat \ {0}
<1>1. IsFiniteSet(Healthy)
  <2>1. Healthy \in SUBSET (1 .. Len(nodes)) /\ Len(nodes) \in Nat
    BY DEF Healthy, ScalingTyped
  <2>2. IsFiniteSet(1 .. Len(nodes))
    BY <2>1, FS_Interval
  <2> QED BY <2>1, <2>2, FS_Subset
<1> HIDE DEF Healthy
<1> QED BY <1>1, FS_CardinalityType, FS_EmptySet

LEMMA ScalingStep == ScalingInv /\ [SLNext]_slvars => ScalingInv'
<1> SUFFICES ASSUME ScalingInv, [SLNext]_slvars PROVE ScalingInv'
  OBVIOUS
<1> USE ScalingConstants
<1>0. ScalingTyped /\ Aligned /\ PickedIsHealthy
  BY DEF ScalingInv
<1>1. CASE SelectReplica
  <2>1. index' = index \/ Advance
    BY <1>1 DEF SelectReplica
  <2>2. index' \in 0 .. IndexPeriod - 1
    <3>1. IndexPeriod \in Nat \ {0} /\ index \in Nat
      BY <1>0 DEF ScalingTyped
    <3>2. (index + 1) % IndexPeriod \in 0 .. IndexPeriod - 1
      BY <3>1
    <3> QED BY <1>0, <2>1, <3>2 DEF Advance, ScalingTyped
  <2>3. UNCHANGED <<strategy, nodes, metrics, editing, replicaCount, scaling>> /\ Editable
    BY <1>1 DEF SelectReplica
  <2>4. ASSUME strategy # "RoundRobin" PROVE picked'.healthy
    <3>1. CASE nodes = <<>> \/ Healthy = {}
      <4>1. picked' = NoNode
        BY <1>1, <2>4, <3>1 DEF SelectReplica, PickNone
      <4> QED BY <4>1 DEF NoNode
    <3>2. CASE nodes # <<>> /\ Healthy # {}
      <4>1. \/ Pick(NthHealthy(index % Cardinality(Healthy)))
            \/ Pick(NthHealthy(0))
            \/ \E i \in Healthy : Pick(i)
        BY <1>1, <2>4, <3>2 DEF SelectReplica
      <4>2. Cardinality(Healthy) \in Nat \ {0} /\ index \in Nat
        BY <1>0, <3>2, HealthyCount DEF ScalingTyped
      <4>3. 0 < Cardinality(Healthy) /\ index % Cardinality(Healthy) \in Nat
            /\ index % Cardinality(Healthy) < Cardinality(Healthy)
        BY <4>2
      <4>4. NthHealthy(0) \in Healthy /\ NthHealthy(index % Cardinality(Healthy)) \in Healthy
        <5>1. NthHealthy(0) \in Healthy
          BY <1>0, <4>3, NthIsHealthy
        <5>2. NthHealthy(index % Cardinality(Healthy)) \in Healthy
          BY <1>0, <4>3, NthIsHealthy
        <5> QED BY <5>1, <5>2
      <4>5. \E i \in Healthy : Pick(i)
        BY <4>1, <4>4, Zenon
      <4> QED BY <2>3, <4>5, PickOfHealthy
    <3> QED BY <3>1, <3>2
  <2> QED BY <1>0, <2>2, <2>3, <2>4 DEF ScalingInv, ScalingTyped, Aligned, PickedIsHealthy
<1>2. ASSUME NEW url \in Urls, NEW success \in BOOLEAN, UpdateNodeMetrics(url, success)
      PROVE  ScalingInv'
  <2>1. UNCHANGED <<strategy, nodes, index, editing, picked, replicaCount, scaling>>
    BY <1>2 DEF UpdateNodeMetrics
  <2> DEFINE Failed(m) == IF success \/ m.errors > ErrorLimit THEN m.errors ELSE m.errors + 1
             Told(m) == [m EXCEPT !.errors = Failed(m), !.healthy = m.healthy /\ Failed(m) <= ErrorLimit]
  <2>2. ASSUME NEW m \in NodeKind PROVE Told(m) \in NodeKind /\ UrlOf[Told(m)] = UrlOf[m]
    <3>1. Failed(m) \in 0 .. ErrorLimit + 1
      BY DEF NodeKind
    <3> HIDE DEF Failed
    <3>2. Told(m) \in NodeKind /\ Told(m).url = m.url
      BY <3>1, Zenon DEF NodeKind
    <3> HIDE DEF Told
    <3> QED BY <3>2 DEF UrlOf
  <2>3. metrics' = [metrics EXCEPT ![FirstOf(url)] = Told(metrics[FirstOf(url)])]
    BY <1>2, Zenon DEF UpdateNodeMetrics, Counted
  <2> HIDE DEF Told
  <2>4. metrics \in Seq(NodeKind) /\ \A i \in DOMAIN metrics : metrics[i] \in NodeKind
    BY <1>0 DEF ScalingTyped
  <2>5. metrics' \in Seq(NodeKind) /\ DOMAIN metrics' = DOMAIN metrics
    <3> DEFINE first == FirstOf(url)
    <3>1. metrics' = [metrics EXCEPT ![first] = Told(metrics[first])]
      BY <2>3
    <3> HIDE DEF first
    <3>2. \A i \in DOMAIN metrics : metrics'[i] = (IF i = first THEN Told(metrics[i]) ELSE metrics[i])
      BY <3>1
    <3>3. \A i \in DOMAIN metrics : metrics'[i] \in NodeKind
      BY <2>2, <2>4, <3>2
    <3>4. DOMAIN metrics' = DOMAIN metrics /\ DOMAIN metrics = 1 .. Len(metrics) /\ Len(metrics) \in Nat
      BY <2>4, <3>1
    <3>5. metrics' = [i \in 1 .. Len(metrics) |-> metrics'[i]]
      BY <3>1, <3>4
    <3> QED BY <3>3, <3>4, <3>5
  <2>6. \A i \in DOMAIN metrics : UrlOf[metrics'[i]] = UrlOf[metrics[i]]
    BY <2>2, <2>3, <2>4
  <2>7. Mapped(metrics', UrlOf) = Mapped(metrics, UrlOf)
    BY <2>5, <2>6 DEF Mapped
  <2> QED BY <1>0, <2>1, <2>5, <2>7 DEF ScalingInv, ScalingTyped, Aligned, PickedIsHealthy
<1>3. ASSUME NEW url \in Urls, AddReplica(url) PROVE ScalingInv'
  <2>1. /\ nodes = Mapped(metrics, UrlOf) /\ nodes' = Append(nodes, url)
        /\ editing' = [kind |-> "add", url |-> url] /\ Len(nodes) < MaxNodes
        /\ UNCHANGED <<strategy, metrics, index, picked, replicaCount, scaling>>
    BY <1>0, <1>3 DEF AddReplica, Aligned, Editable
  <2>2. ScalingTyped'
    BY <1>0, <2>1 DEF ScalingTyped
  <2> QED BY <1>0, <2>1, <2>2 DEF ScalingInv, Aligned, PickedIsHealthy, NoEdit
<1>4. ASSUME NEW url \in Urls, RemoveReplica(url) PROVE ScalingInv'
  <2>1. /\ nodes = Mapped(metrics, UrlOf) /\ nodes' = Retain(nodes, Urls \ {url})
        /\ editing' = [kind |-> "remove", url |-> url]
        /\ UNCHANGED <<strategy, metrics, index, picked, replicaCount, scaling>>
    BY <1>0, <1>4 DEF RemoveReplica, Aligned, Editable
  <2>2. nodes \in Seq(Urls)
    BY <1>0 DEF ScalingTyped
  <2>3. Retain(nodes, Urls \ {url}) \in Seq(Urls) /\ Len(Retain(nodes, Urls \ {url})) <= Len(nodes)
    BY <2>2, RetainLeavesLess
  <2>4. Len(nodes') <= MaxNodes
    <3>1. Len(nodes) \in Nat /\ Len(nodes') \in Nat
      BY <2>1, <2>2, <2>3
    <3> QED BY <1>0, <2>1, <2>3, <3>1 DEF ScalingTyped
  <2>5. ScalingTyped'
    BY <1>0, <2>1, <2>3, <2>4 DEF ScalingTyped
  <2> QED BY <1>0, <2>1, <2>5 DEF ScalingInv, Aligned, PickedIsHealthy, NoEdit
<1>5. CASE EditMetrics
  <2>1. PICK kind \in {"add", "remove"}, url \in Urls : editing = [kind |-> kind, url |-> url]
    BY <1>0, <1>5 DEF EditMetrics, ScalingTyped, NoEdit
  <2>2. editing.kind = kind /\ editing.url = url
    BY <2>1
  <2>3. editing' = NoEdit /\ UNCHANGED <<strategy, nodes, index, picked, replicaCount, scaling>>
    BY <1>5 DEF EditMetrics
  <2>4. metrics \in Seq(NodeKind)
    BY <1>0 DEF ScalingTyped
  <2>5. CASE kind = "add"
    <3>1. metrics' = Append(metrics, NewNode(url)) /\ nodes = Append(Mapped(metrics, UrlOf), url)
      BY <1>0, <1>5, <2>2, <2>5 DEF EditMetrics, Aligned
    <3>2. NewNode(url) \in NodeKind /\ UrlOf[NewNode(url)] = url
      BY NewIsKnown
    <3>3. metrics' \in Seq(NodeKind)
      BY <2>4, <3>1, <3>2
    <3>4. Mapped(metrics', UrlOf) = nodes'
      BY <2>3, <2>4, <3>1, <3>2, MappedAppend
    <3> QED BY <1>0, <2>3, <3>3, <3>4 DEF ScalingInv, ScalingTyped, Aligned, PickedIsHealthy, NoEdit
  <2>6. CASE kind = "remove"
    <3>1. metrics' = Retain(metrics, Metrics(Urls \ {url}))
          /\ nodes = Retain(Mapped(metrics, UrlOf), Urls \ {url})
      BY <1>0, <1>5, <2>2, <2>6 DEF EditMetrics, Aligned
    <3>2. \A m \in NodeKind : m \in Metrics(Urls \ {url}) <=> UrlOf[m] \in Urls \ {url}
      BY DEF NodeKind, Metrics, UrlOf
    <3>3. metrics' \in Seq(NodeKind)
      BY <2>4, <3>1, RetainLeavesLess
    <3>5. Retain(Mapped(metrics, UrlOf), Urls \ {url})
            = Mapped(Retain(metrics, Metrics(Urls \ {url})), UrlOf)
      <4> DEFINE S == Metrics(Urls \ {url})
                 T == Urls \ {url}
      <4>1. \A m \in NodeKind : m \in S <=> UrlOf[m] \in T
        BY <3>2
      <4> HIDE DEF S, T
      <4>2. Retain(Mapped(metrics, UrlOf), T) = Mapped(Retain(metrics, S), UrlOf)
        BY <2>4, <4>1, RetainMapped
      <4> QED BY <4>2 DEF S, T
    <3>4. Mapped(metrics', UrlOf) = nodes'
      BY <2>3, <3>1, <3>5
    <3> QED BY <1>0, <2>3, <3>3, <3>4 DEF ScalingInv, ScalingTyped, Aligned, PickedIsHealthy, NoEdit
  <2> QED BY <2>5, <2>6
<1>6. ASSUME NEW k \in Scalers, ReadCount(k) \/ CheckAndScale(k) PROVE ScalingInv'
  <2>1. UNCHANGED <<strategy, nodes, metrics, index, editing, picked>>
    BY <1>6 DEF ReadCount, CheckAndScale
  <2>2. replicaCount' \in 0 .. MaxReplicas
    BY <1>0, <1>6 DEF ReadCount, CheckAndScale, ScalingTyped, Scaled, NotScaling
  <2>3. scaling' \in [Scalers -> {NotScaling} \cup 0 .. MaxReplicas]
    BY <1>0, <1>6 DEF ReadCount, CheckAndScale, ScalingTyped
  <2> QED BY <1>0, <2>1, <2>2, <2>3 DEF ScalingInv, ScalingTyped, Aligned, PickedIsHealthy
<1>7. CASE SetReplicaCount \/ UNCHANGED slvars
  BY <1>0, <1>7 DEF SetReplicaCount, slvars, ScalingInv, ScalingTyped, Aligned, PickedIsHealthy
<1> QED BY <1>1, <1>2, <1>3, <1>4, <1>5, <1>6, <1>7 DEF SLNext

LEMMA ScalingInvariant == SLSpec => []ScalingInv
  BY ScalingStart, ScalingStep, PTL DEF SLSpec

LEMMA ScalingIsTyped == ScalingInv => SLTypeOK
<1> SUFFICES ASSUME ScalingInv PROVE SLTypeOK
  OBVIOUS
<1>1. ScalingTyped
  BY DEF ScalingInv
<1>2. \A i \in DOMAIN metrics : metrics[i] \in NodeKind
  BY <1>1 DEF ScalingTyped
<1>3. \A i \in DOMAIN metrics : metrics[i].errors \in 0 .. ErrorLimit + 1
  BY <1>2 DEF NodeKind
<1> QED BY <1>1, <1>3 DEF ScalingTyped, SLTypeOK

\* The types, for any number of replicas and scalers, and the count within its limits.
THEOREM ScalingTypeCorrect == SLSpec => []SLTypeOK
  BY ScalingIsTyped, ScalingInvariant, PTL

\* What a strategy other than the round robin selects is healthy: the guard of the replicas,
\* kept until the metrics have followed, keeps the two lists aligned.
THEOREM PicksAreHealthy == SLSpec => []PickedIsHealthy
<1>1. ScalingInv => PickedIsHealthy
  BY DEF ScalingInv
<1> QED BY <1>1, ScalingInvariant, PTL

(***************************************************************************)
(* The parts side by side.                                                 *)
(***************************************************************************)
PartsInv == TypeInv /\ HealthInv /\ LimitsInv /\ BatchInv /\ ScalingInv

\* What each part keeps, they keep together, since a step is a step of one of them.
LEMMA PartsStart == SVInit => PartsInv
  BY TypeInit, HealthInit, LimitsStart, BatchStart, ScalingStart DEF SVInit, PartsInv

LEMMA PartsStep == PartsInv /\ [SVNext]_svvars => PartsInv'
<1> SUFFICES ASSUME PartsInv, [SVNext]_svvars PROVE PartsInv'
  OBVIOUS
<1>1. /\ [Next]_vars /\ [HRNext]_hrvars /\ [LMNext]_lmvars /\ [SBNext]_sbvars
      /\ [SLNext]_slvars
  BY DEF SVNext, svvars
<1> QED BY <1>1, TypeStep, HealthStep, LimitsStep, BatchStep, ScalingStep DEF PartsInv

\* The types of the connections, the monitoring, the limits, the batches and the replicas,
\* for any number of each.
THEOREM ServerTypeCorrect == SVSpec => []ServerTypeOK
<1>1. SVSpec => []PartsInv
  BY PartsStart, PartsStep, PTL DEF SVSpec
<1>2. PartsInv => ServerTypeOK
  BY HealthIsTyped, LimitsAreTyped, BatchIsTyped, ScalingIsTyped DEF PartsInv, TypeInv, ServerTypeOK
<1> QED BY <1>1, <1>2, PTL
===============================================================================
