--------------------------- MODULE ServicesProofs -----------------------------
(***************************************************************************)
(* What holds of the tasks of the batch system, the executor of the SQL    *)
(* server and the heartbeats of sessions, for any number of loops, clients *)
(* and sessions: which operations never deadlock, who has a place at the   *)
(* desk, and that only who is silent is cut.                               *)
(***************************************************************************)
EXTENDS MCServices, FilterTheorems, FiniteSetTheorems

(***************************************************************************)
(* The tasks and their locks.                                              *)
(***************************************************************************)
\* Every operation is a list of steps.
LEMMA ProgramsWellFormed == L!WellFormed
<1> DEFINE Programs == Seq(L!StepOf) \ {<<>>}
<1>1. \A lock \in RwLocks, mode \in {"read", "write"}, till \in 0 .. 7 :
         Under(mode, lock, till) \in L!StepOf
  BY DEF L!StepOf, Under
<1>2. Await \in L!StepOf
  BY DEF L!StepOf, Under, Brief, Await
<1>3. /\ CollectorTurn \in Programs /\ CleanerTurn \in Programs /\ BatchesTurn \in Programs
      /\ UpdaterTurn \in Programs /\ MonitorTurn \in Programs /\ ScalerTurn \in Programs
      /\ ScalerScales \in Programs
  BY <1>1, <1>2, L!ShortPrograms DEF RwLocks, Brief, CollectorTurn, CleanerTurn, BatchesTurn,
      UpdaterTurn, MonitorTurn, ScalerTurn, ScalerScales
<1>4. MonitorTries \in Programs /\ MonitorScales \in Programs
  BY <1>1, L!ShortPrograms DEF RwLocks, Brief, MonitorTries, MonitorScales
<1>5. /\ SimdTurn \in Programs /\ OptimisationTurn \in Programs /\ ControlTurn \in Programs
      /\ ControlHangs \in Programs /\ CryptoTurn \in Programs /\ CryptoBatchTurn \in Programs /\ CryptoStatsTurn \in Programs
      /\ AdjustCommand \in Programs /\ StopCommand \in Programs
  BY <1>1, <1>2, L!ShortPrograms DEF RwLocks, Brief, SimdTurn, OptimisationTurn, ControlTurn,
      ControlHangs, CryptoTurn, CryptoBatchTurn, CryptoStatsTurn, AdjustCommand, StopCommand
<1>6. /\ ReceivedEvent \in Programs /\ OpenedEvent \in Programs /\ ClosedEvent \in Programs
      /\ ProcessedEvent \in Programs /\ CompletedEvent \in Programs /\ ErrorEvent \in Programs
  BY <1>1, <1>2, L!ShortPrograms DEF RwLocks, Brief, ReceivedEvent, OpenedEvent, ClosedEvent,
      ProcessedEvent, CompletedEvent, ErrorEvent
<1>7. /\ StatusCommand \in Programs /\ ClearCommand \in Programs
      /\ FlushCommand \in Programs /\ ResetCommand \in Programs
  BY <1>1, <1>2, L!ShortPrograms DEF RwLocks, Brief, StatusCommand, ClearCommand, FlushCommand,
      ResetCommand
<1>8. /\ SettingsCommand \in Programs /\ SettingsTries \in Programs
      /\ SettingsScales \in Programs
      /\ ScaleNothing \in Programs /\ ScaleCommand \in Programs
  BY <1>1, <1>2, L!ShortPrograms DEF RwLocks, Brief, SettingsCommand, SettingsTries,
      SettingsScales, ScaleNothing, ScaleCommand
<1>9. /\ AdjustLooks \in Programs /\ AdjustTries \in Programs /\ AdjustScales \in Programs
  BY <1>1, L!ShortPrograms DEF RwLocks, Brief, AdjustLooks, AdjustTries, AdjustScales
<1> HIDE DEF Programs
<1>10. \A o \in DOMAIN Program : Program[o] \in Programs
  BY <1>3, <1>4, <1>5, <1>6, <1>7, <1>8, <1>9 DEF Program
<1>11. "idle" \notin DOMAIN Program
  BY DEF Program
<1> QED BY <1>10, <1>11 DEF L!WellFormed, Programs

\* The locks, and that only the event handler handles events.
TasksInv ==
    /\ L!LocksInv /\ TTypeOK
    /\ \A t \in TasksOf : op[t] \in EventOps => t = "events"

LEMMA TasksStart == TInit => TasksInv
<1> SUFFICES ASSUME TInit PROVE TasksInv
  OBVIOUS
<1>1. L!LocksInv
  BY ProgramsWellFormed, L!NoneRunsInv DEF TInit
<1>2. op = [t \in TasksOf |-> "idle"] /\ loop \in [Slots -> Loops]
  BY SystemTasksAssumption DEF TInit, L!NoneRuns
<1>3. up \subseteq {"system", "controller", "crypto"}
  BY DEF TInit, Flags, Flag
<1> QED BY <1>1, <1>2, <1>3 DEF TInit, TasksInv, TTypeOK, EventOps, L!LocksInv

\* A loop has no event to handle.
LEMMA LoopsHandleNoEvents ==
    ASSUME loop \in [Slots -> Loops], NEW t \in Slots
    PROVE  OpsOf(t) \cap EventOps = {}
<1>1. t # "events" /\ t # "commands" /\ loop[t] \in Loops
  BY SystemTasksAssumption DEF Handlers
<1>2. CASE loop[t] = "monitor"
  BY <1>1, <1>2, Zenon DEF OpsOf, EventOps
<1>3. CASE loop[t] = "scaler"
  BY <1>1, <1>3, Zenon DEF OpsOf, EventOps
<1>4. CASE loop[t] = "control"
  BY <1>1, <1>4, Zenon DEF OpsOf, EventOps
<1>5. CASE loop[t] \notin {"monitor", "scaler", "control"}
  <2>1. OpsOf(t) = {loop[t]}
    BY <1>1, <1>5, Zenon DEF OpsOf
  <2> QED BY <1>1, <2>1 DEF EventOps, Loops
<1> QED BY <1>2, <1>3, <1>4, <1>5

LEMMA TasksStep == TasksInv /\ [TNext]_tvars => TasksInv'
<1> SUFFICES ASSUME TasksInv, [TNext]_tvars PROVE TasksInv'
  OBVIOUS
<1>1. L!LocksInv /\ op \in [TasksOf -> Ops \cup {"idle", "ended"}] /\ loop \in [Slots -> Loops]
      /\ up \subseteq {"system", "controller", "crypto"}
      /\ \A t \in TasksOf : op[t] \in EventOps => t = "events"
  BY DEF TasksInv, TTypeOK
<1>2. "idle" \notin Ops /\ "ended" \notin Ops /\ "stop" \in Ops /\ "stop" \notin EventOps
      /\ "idle" \notin EventOps /\ "ended" \notin EventOps
  BY DEF Ops, Program, EventOps
<1>3. ASSUME L!LocksInv', loop' = loop, up' \subseteq {"system", "controller", "crypto"},
             NEW t \in TasksOf, NEW o, op' = [op EXCEPT ![t] = o],
             o \in Ops \cup {"idle", "ended"}, o \in EventOps => t = "events"
      PROVE  TasksInv'
  BY <1>1, <1>3 DEF TasksInv, TTypeOK, L!LocksInv
<1>4. ASSUME NEW t \in TasksOf, NEW o \in Ops, Start(t, o) PROVE TasksInv'
  <2>1. L!LocksInv'
    BY <1>1, <1>4, ProgramsWellFormed, L!StartKeeps DEF Start, Ops
  <2>2. o \in EventOps => t = "events"
    <3>1. CASE t = "commands"
      <4>1. t # "events" /\ t \notin Slots
        BY <3>1, SystemTasksAssumption DEF Handlers
      <4>2. OpsOf(t) = CommandOps
        BY <3>1, <4>1, Zenon DEF OpsOf
      <4> QED BY <1>4, <4>2 DEF Start, CommandOps, EventOps
    <3>2. CASE t \in Slots
      BY <1>1, <1>4, <3>2, LoopsHandleNoEvents DEF Start
    <3> QED BY <3>1, <3>2 DEF TasksOf, Handlers
  <2> QED BY <1>1, <1>3, <1>4, <2>1, <2>2 DEF Start, L!StartOn
<1>5. ASSUME NEW t \in TasksOf, Wait(t) PROVE TasksInv'
  BY <1>1, <1>5, L!JoinKeeps DEF Wait, L!JoinLine, TasksInv, TTypeOK, L!LocksInv
<1>6. ASSUME NEW t \in TasksOf, Proceed(t) PROVE TasksInv'
  <2>1. After(t) \in {"idle", "ended"}
    BY DEF After
  <2>2. L!LocksInv'
    BY <1>1, <1>2, <1>6, <2>1, ProgramsWellFormed, L!ProceedKeeps DEF Proceed, Ops
  <2>3. op' = [op EXCEPT ![t] = After(t)] \/ op' = [op EXCEPT ![t] = op[t]]
    BY <1>1, <1>6 DEF Proceed, L!Proceed
  <2>4. up' \subseteq {"system", "controller", "crypto"} /\ loop' = loop
    BY <1>1, <1>6 DEF Proceed
  <2>5. After(t) \in EventOps => t = "events"
    BY <1>2, <2>1
  <2> QED BY <1>1, <1>3, <2>1, <2>2, <2>3, <2>4, <2>5
<1>7. CASE BeginStop
  <2>1. "commands" \in TasksOf
    BY DEF TasksOf, Handlers
  <2>2. L!LocksInv'
    BY <1>1, <1>2, <1>7, <2>1, ProgramsWellFormed, L!StartKeeps DEF BeginStop, Ops
  <2> QED BY <1>1, <1>2, <1>3, <1>7, <2>1, <2>2 DEF BeginStop, L!StartOn
<1>8. CASE StartOrPause \/ UNCHANGED tvars
  <2>1. UNCHANGED <<loop, op, pos, line>> /\ up' \subseteq {"system", "controller", "crypto"}
    BY <1>1, <1>8 DEF StartOrPause, tvars
  <2>2. L!LocksInv'
    BY <1>1, <2>1, L!NothingKeeps
  <2> QED BY <1>1, <2>1, <2>2 DEF TasksInv, TTypeOK, L!LocksInv
<1> QED BY <1>4, <1>5, <1>6, <1>7, <1>8 DEF TNext, TaskStep, Tick

LEMMA TasksInvariant == TSpec => []TasksInv
  BY TasksStart, TasksStep, PTL DEF TSpec

\* The locks are locks, and each task is in an operation of its own, for any loops.
THEOREM TasksTypeCorrect == TSpec => []TTypeOK
  BY TasksInvariant, PTL DEF TasksInv

\* The operations that take no lock under a guard out of the order.
Harmless == Ops \ Hanging

\* The event handler takes the statistics and the connections in both orders, but in
\* one event it takes them in one.
RankWith(stats) == [lock \in RwLocks |-> CASE lock = "stats"       -> stats
                                           [] lock = "settings"    -> 1
                                           [] lock = "connections" -> 2
                                           [] lock = "pending"     -> 3
                                           [] OTHER                -> 0]

LEMMA RanksAre ==
    ASSUME NEW s \in 0 .. 3
    PROVE  /\ RankWith(s) \in [RwLocks -> 0 .. 3]
           /\ RankWith(s)["stats"] = s /\ RankWith(s)["settings"] = 1
           /\ RankWith(s)["connections"] = 2 /\ RankWith(s)["pending"] = 3
           /\ RankWith(s)["cache"] = 0 /\ RankWith(s)["scaling"] = 0
           /\ RankWith(s)["quotas"] = 0
  BY DEF RankWith, RwLocks

\* All but those that may hang take their locks in ascending
\* rank, wherever the statistics stand among them: before the settings or last.
LEMMA HarmlessAscend ==
    ASSUME NEW o \in Harmless, NEW s \in 0 .. 3,
           o = "processed" => s < 2, o = "opened" => s = 3
    PROVE  L!Ascends(RankWith(s), Program[o])
<1> USE DEF Brief, Under, Await, RwLocks
<1>1. CASE o \in {"collector", "cleaner", "batches", "simd", "optimisation", "control",
                  "crypto", "closed", "completed", "flush", "reset", "adjust",
                  "adjust_looks", "stop"}
  BY <1>1 DEF L!Ascends, Program, CollectorTurn, CleanerTurn, BatchesTurn, SimdTurn,
       OptimisationTurn, ControlTurn, CryptoTurn, ClosedEvent, CompletedEvent, FlushCommand,
       ResetCommand, AdjustCommand, AdjustLooks, StopCommand
<1>2. CASE o = "updater"
  BY <1>2 DEF L!Ascends, Program, UpdaterTurn
<1>3. CASE o = "monitor"
  BY <1>3, RanksAre DEF L!Ascends, Program, MonitorTurn
<1>4. CASE o = "scaler"
  BY <1>4, RanksAre DEF L!Ascends, Program, ScalerTurn
<1>5. CASE o = "crypto_batches"
  BY <1>5 DEF L!Ascends, Program, CryptoBatchTurn
<1>6. CASE o = "crypto_stats"
  BY <1>6 DEF L!Ascends, Program, CryptoStatsTurn
<1>7. CASE o = "received"
  BY <1>7 DEF L!Ascends, Program, ReceivedEvent
<1>8. CASE o = "opened"
  BY <1>8, RanksAre DEF L!Ascends, Program, OpenedEvent
<1>9. CASE o = "processed"
  BY <1>9, RanksAre DEF L!Ascends, Program, ProcessedEvent
<1>10. CASE o = "error"
  BY <1>10 DEF L!Ascends, Program, ErrorEvent
<1>11. CASE o = "clear"
  BY <1>11, RanksAre DEF L!Ascends, Program, ClearCommand
<1>12. CASE o = "settings"
  BY <1>12 DEF L!Ascends, Program, SettingsCommand
<1>13. CASE o = "settings_tries"
  BY <1>13, RanksAre DEF L!Ascends, Program, SettingsTries
<1>14. CASE o = "scale_nothing"
  BY <1>14, RanksAre DEF L!Ascends, Program, ScaleNothing
<1> QED
  BY <1>1, <1>2, <1>3, <1>4, <1>5, <1>6, <1>7, <1>8, <1>9, <1>10, <1>11, <1>12, <1>13, <1>14
    DEF Harmless, Hanging, Ops, Program

\* The loops, the event handler and the commands, but for the report of the status and those
\* that change the pool's size, or try to, never deadlock, for any loops: whatever the handler is at, there is an order
\* of the locks in which all of them ascend.
THEOREM NoOtherDeadlocks == TSpec => []OthersNeverDeadlock
<1>1. TasksInv => OthersNeverDeadlock
  <2> SUFFICES ASSUME TasksInv PROVE OthersNeverDeadlock
    OBVIOUS
  <2> DEFINE others == {t \in L!Busy : op[t] \notin Hanging}
             s == IF op["events"] = "opened" THEN 3 ELSE 0
  <2>1. s \in 0 .. 3
    OBVIOUS
  <2>2. ASSUME NEW t \in others PROVE L!Ascends(RankWith(s), Program[op[t]])
    <3>1. op[t] \in Harmless /\ t \in TasksOf
      BY DEF L!Busy, Harmless, Ops
    <3>2. op[t] \in {"processed", "opened"} => t = "events"
      BY <3>1 DEF TasksInv, EventOps
    <3>3. (op[t] = "processed" => s < 2) /\ (op[t] = "opened" => s = 3)
      BY <3>2
    <3> HIDE DEF s, others
    <3> QED BY <2>1, <3>1, <3>3, HarmlessAscend
  <2>3. others \in SUBSET L!Busy
    OBVIOUS
  <2> HIDE DEF others, s
  <2>4. ~L!Deadlocked(others)
    <3>1. RankWith(s) \in [RwLocks -> 0 .. 3]
      BY <2>1, RanksAre
    <3> QED BY <2>2, <2>3, <3>1, ProgramsWellFormed, L!OrderedNeverDeadlock DEF TasksInv
  <2> QED BY <2>4 DEF OthersNeverDeadlock, others
<1> QED BY <1>1, TasksInvariant, PTL

\* A deadlock of the system's tasks is for ever: no event, no command, no turn of a loop and
\* no stop takes anybody out of it.
THEOREM DeadlocksStay ==
    TSpec => [][L!Deadlocked(TasksOf) => L!Deadlocked(TasksOf)']_tvars
<1>1. TasksInv /\ [TNext]_tvars => (L!Deadlocked(TasksOf) => L!Deadlocked(TasksOf)')
  <2> SUFFICES ASSUME TasksInv, [TNext]_tvars, L!Deadlocked(TasksOf)
               PROVE  L!Deadlocked(TasksOf)'
    OBVIOUS
  <2>1. L!LocksInv /\ "commands" \in TasksOf /\ "stop" \in DOMAIN Program
    BY DEF TasksInv, TasksOf, Handlers, Program
  <2>2. \/ \E t \in TasksOf, o \in DOMAIN Program : L!StartOn(t, o)
        \/ \E t \in TasksOf : L!JoinLine(t)
        \/ \E t \in TasksOf : \E ending : L!Proceed(t, ending)
        \/ UNCHANGED <<op, pos, line>>
    <3>1. ASSUME NEW t \in TasksOf, TaskStep(t)
          PROVE  L!JoinLine(t) \/ \E ending : L!Proceed(t, ending)
      BY <3>1 DEF TaskStep, Wait, Proceed
    <3>2. ASSUME NEW t \in TasksOf, Tick(t)
          PROVE  \E o \in DOMAIN Program : L!StartOn(t, o)
      BY <3>2 DEF Tick, Start, Ops
    <3>3. CASE BeginStop
      BY <2>1, <3>3 DEF BeginStop
    <3>4. CASE StartOrPause \/ UNCHANGED tvars
      BY <3>4 DEF StartOrPause, tvars
    <3> QED BY <3>1, <3>2, <3>3, <3>4 DEF TNext
  <2> QED BY <2>1, <2>2, ProgramsWellFormed, L!DeadlocksLast
<1> QED BY <1>1, TasksInvariant, PTL DEF TSpec

\* Nothing but a deadlock stops the system's tasks: as long as those in a turn, an event or a
\* command do not all wait in one, one of them may take its next step.
THEOREM TasksGoOn ==
    TSpec => [](L!Busy # {} /\ ~L!Deadlocked(L!Busy) => \E t \in L!Busy : L!MayGoOn(t))
<1>1. TasksInv
      => (L!Busy # {} /\ ~L!Deadlocked(L!Busy) => \E t \in L!Busy : L!MayGoOn(t))
  BY L!OnlyDeadlocksStop DEF TasksInv
<1> QED BY <1>1, TasksInvariant, PTL

(***************************************************************************)
(* The heartbeats.                                                         *)
(***************************************************************************)
BeatOf == [silent : 0 .. Timeout + 1, unsent : {0, 1}, missed : 0 .. MaxMissed, alive : BOOLEAN]

AllStages == {"rest", "next", "cut", "forget", "look", "due", "beat", "register", "lock",
              "disconnect", "remove", "asked"}

\* The types, with what each task can be at.
HTyped ==
    /\ Known \subseteq Sessions
    /\ beats \in [Known -> BeatOf]
    /\ entries \subseteq Sessions /\ linked \subseteq Sessions
    /\ beating \subseteq Sessions /\ hungUp \subseteq Sessions
    /\ told \in Seq({"start", "received", "stop"} \X Sessions)
    /\ job \in [Workers -> [at : AllStages, id : Sessions \cup {"none"}]]
    /\ todo \in [Workers -> SUBSET Sessions]

JobsHaveSessions ==
    \A w \in Workers : job[w].at \notin {"rest", "next"} => job[w].id \in Sessions

\* Who is where.
OwnStages ==
    /\ job["check"].at \in {"rest", "next", "cut", "forget"}
    /\ job["sender"].at \in {"rest", "next", "look", "due", "beat", "cut", "forget"}
    /\ \A w \in {"commands", "caller"} :
           job[w].at \notin {"cut", "forget", "look", "due", "beat"}

OneRemoves == \A v, w \in Removing : v = w

Gone(id) == id \in late \cup ended

\* What has been silent is late, and what the check has on its list or in its hands.
SilentAreLate ==
    /\ \A id \in Known : beats[id].silent > Timeout => id \in late
    /\ todo["check"] \subseteq late
    /\ job["check"].at \in {"cut", "forget"} => job["check"].id \in late

AliveHasCredit == \A id \in Known : beats[id].alive => beats[id].missed < MaxMissed

SenderKnows ==
    /\ \A id \in todo["sender"] : Alive(id) \/ Gone(id)
    /\ job["sender"].at = "look" => Alive(job["sender"].id) \/ Gone(job["sender"].id)
    /\ job["sender"].at \in {"look", "due", "beat"} => job["sender"].id \notin todo["sender"]
    /\ job["sender"].at \in {"due", "beat"} /\ job["sender"].id \in Known
          => beats[job["sender"].id].alive
    /\ job["sender"].at \in {"cut", "forget"} => Gone(job["sender"].id)

BeatsInv ==
    /\ HTyped /\ JobsHaveSessions /\ OwnStages /\ OneRemoves
    /\ SilentAreLate /\ AliveHasCredit /\ SenderKnows
    /\ OnlySilentAreCut

\* A heartbeat after each of the things that change it.
LEMMA BeatParts ==
    ASSUME NEW b \in BeatOf
    PROVE  b.silent \in 0 .. Timeout + 1 /\ b.missed \in 0 .. MaxMissed /\ b.alive \in BOOLEAN
  BY Zenon DEF BeatOf

LEMMA SilenceCounted ==
    ASSUME NEW b \in BeatOf, NEW s \in 0 .. Timeout + 1
    PROVE  LET passed == [b EXCEPT !.silent = s, !.unsent = 1] IN
           /\ passed \in BeatOf /\ passed.silent = s
           /\ passed.missed = b.missed /\ passed.alive = b.alive
  BY Zenon DEF BeatOf

LEMMA BothCleared ==
    ASSUME NEW b \in BeatOf, NEW s \in 0 .. Timeout + 1, NEW m \in 0 .. MaxMissed
    PROVE  LET heard == [b EXCEPT !.silent = s, !.missed = m, !.alive = TRUE] IN
           heard \in BeatOf /\ heard.silent = s /\ heard.missed = m /\ heard.alive
  BY Zenon DEF BeatOf

LEMMA BeatGoesOn ==
    ASSUME NEW b \in BeatOf
    PROVE  LET passed == [b EXCEPT !.silent = IF @ > Timeout THEN @ ELSE @ + 1, !.unsent = 1] IN
           /\ passed \in BeatOf
           /\ passed.silent = IF b.silent > Timeout THEN b.silent ELSE b.silent + 1
           /\ passed.missed = b.missed /\ passed.alive = b.alive
<1>1. (IF b.silent > Timeout THEN b.silent ELSE b.silent + 1) \in 0 .. Timeout + 1
  BY HeartbeatsAssumption, BeatParts
<1> QED BY <1>1, SilenceCounted

LEMMA BeatSent ==
    ASSUME NEW b \in BeatOf, b.alive, b.missed < MaxMissed
    PROVE  LET sent == [b EXCEPT !.unsent = 0, !.missed = @ + 1,
                                 !.alive = @ /\ b.missed + 1 < MaxMissed] IN
           /\ sent \in BeatOf
           /\ sent.silent = b.silent /\ sent.missed = b.missed + 1
           /\ sent.alive => b.missed + 1 < MaxMissed
<1> DEFINE left == b.alive /\ b.missed + 1 < MaxMissed
           missed == b.missed + 1
           sent == [b EXCEPT !.unsent = 0, !.missed = missed, !.alive = left]
<1>1. missed \in 0 .. MaxMissed
  BY HeartbeatsAssumption, BeatParts
<1>2. left \in BOOLEAN /\ (left => b.missed + 1 < MaxMissed)
  OBVIOUS
<1>3. /\ sent \in BeatOf /\ sent.silent = b.silent /\ sent.missed = missed
      /\ sent.alive = left
  <2> HIDE DEF left, missed
  <2> QED BY <1>1, <1>2, Zenon DEF BeatOf
<1>4. sent.alive => b.missed + 1 < MaxMissed
  <2> HIDE DEF left, sent
  <2> QED BY <1>2, <1>3
<1> QED BY <1>3, <1>4, Zenon

LEMMA BeatHeard ==
    ASSUME NEW b \in BeatOf
    PROVE  LET heard == [b EXCEPT !.silent = 0, !.missed = 0, !.alive = TRUE] IN
           heard \in BeatOf /\ heard.silent = 0 /\ heard.missed = 0 /\ heard.alive
<1>1. 0 \in 0 .. Timeout + 1 /\ 0 \in 0 .. MaxMissed
  BY HeartbeatsAssumption
<1> QED BY <1>1, BothCleared, Zenon

LEMMA BeatsStart == HInit => BeatsInv
  BY HeartbeatsAssumption
     DEF HInit, BeatsInv, HTyped, JobsHaveSessions, OwnStages, OneRemoves, SilentAreLate,
         AliveHasCredit, SenderKnows, OnlySilentAreCut, Known, Removing, Workers, AtRest,
         AllStages, BeatOf

LEMMA BeatsStep == BeatsInv /\ [HNext]_hvars => BeatsInv'
<1> SUFFICES ASSUME BeatsInv, [HNext]_hvars PROVE BeatsInv'
  OBVIOUS
<1> USE HeartbeatsAssumption
        DEF BeatsInv, HTyped, JobsHaveSessions, OwnStages, OneRemoves, SilentAreLate,
            AliveHasCredit, SenderKnows, OnlySilentAreCut, Known, Removing, Workers,
            AllStages, JobAt, JobGoto, Alive, Gone
<1>1. CASE Pass
  <2>1. DOMAIN beats' = DOMAIN beats /\ beats' = [id \in DOMAIN beats |-> beats'[id]]
    BY <1>1 DEF Pass
  <2>2. \A id \in DOMAIN beats :
           /\ beats'[id] \in BeatOf
           /\ beats'[id].silent = IF beats[id].silent > Timeout THEN beats[id].silent
                                                               ELSE beats[id].silent + 1
           /\ beats'[id].missed = beats[id].missed /\ beats'[id].alive = beats[id].alive
           /\ beats[id].silent \in 0 .. Timeout + 1
    BY <1>1, BeatGoesOn, BeatParts DEF Pass
  <2>3. HTyped'
    BY <1>1, <2>1, <2>2 DEF Pass
  <2>4. SilentAreLate'
    <3>1. ASSUME NEW id \in DOMAIN beats, beats'[id].silent > Timeout PROVE id \in late'
      <4>1. CASE beats[id].silent > Timeout
        BY <1>1, <4>1 DEF Pass
      <4>2. CASE ~(beats[id].silent > Timeout)
        <5>1. beats[id].silent >= Timeout
          BY <2>2, <3>1, <4>2
        <5> QED BY <1>1, <5>1 DEF Pass
      <4> QED BY <4>1, <4>2
    <3> QED BY <1>1, <2>1, <3>1 DEF Pass
  <2>5. AliveHasCredit' /\ SenderKnows'
    BY <1>1, <2>1, <2>2 DEF Pass
  <2> QED BY <1>1, <2>3, <2>4, <2>5 DEF Pass
<1>2. ASSUME NEW id \in Sessions, Open(id) PROVE BeatsInv'
  BY <1>2 DEF Open
<1>3. ASSUME NEW id \in Sessions, Tell(id) PROVE BeatsInv'
  BY <1>3 DEF Tell
<1>4. ASSUME NEW id \in Sessions, HangUp(id) PROVE BeatsInv'
  BY <1>4 DEF HangUp
<1>5. ASSUME NEW id \in Sessions, AskAlive(id) PROVE BeatsInv'
  <2>1. HTyped'
    BY <1>5 DEF AskAlive
  <2>2. JobsHaveSessions'
    BY <1>5 DEF AskAlive
  <2>3. OwnStages'
    BY <1>5 DEF AskAlive
  <2>4. OneRemoves'
    BY <1>5 DEF AskAlive
  <2>5. SilentAreLate'
    BY <1>5 DEF AskAlive
  <2>6. AliveHasCredit'
    BY <1>5 DEF AskAlive
  <2>7. SenderKnows'
    BY <1>5 DEF AskAlive
  <2>8. OnlySilentAreCut'
    BY <1>5 DEF AskAlive
  <2> QED BY <2>1, <2>2, <2>3, <2>4, <2>5, <2>6, <2>7, <2>8
<1>6. ASSUME NEW w \in Workers, TakeNext(w) PROVE BeatsInv'
  <2>1. HTyped'
    BY <1>6 DEF TakeNext, FirstStage, AtRest
  <2>2. JobsHaveSessions'
    BY <1>6 DEF TakeNext, FirstStage, AtRest
  <2>3. OwnStages'
    BY <1>6 DEF TakeNext, FirstStage, AtRest
  <2>4. OneRemoves'
    BY <1>6 DEF TakeNext, FirstStage, AtRest
  <2>5. SilentAreLate'
    BY <1>6 DEF TakeNext, FirstStage, AtRest
  <2>6. AliveHasCredit'
    BY <1>6 DEF TakeNext, FirstStage, AtRest
  <2>7. SenderKnows'
    BY <1>6 DEF TakeNext, FirstStage, AtRest
  <2>8. OnlySilentAreCut'
    BY <1>6 DEF TakeNext, FirstStage, AtRest
  <2> QED BY <2>1, <2>2, <2>3, <2>4, <2>5, <2>6, <2>7, <2>8
<1>7. ASSUME NEW w \in Workers, Cut(w) PROVE BeatsInv'
  <2>1. HTyped'
    BY <1>7 DEF Cut
  <2>2. JobsHaveSessions'
    BY <1>7 DEF Cut
  <2>3. OwnStages'
    BY <1>7 DEF Cut
  <2>4. OneRemoves'
    BY <1>7 DEF Cut
  <2>5. SilentAreLate'
    BY <1>7 DEF Cut
  <2>6. AliveHasCredit'
    BY <1>7 DEF Cut
  <2>7. SenderKnows'
    BY <1>7 DEF Cut
  <2>8. OnlySilentAreCut'
    BY <1>7 DEF Cut
  <2> QED BY <2>1, <2>2, <2>3, <2>4, <2>5, <2>6, <2>7, <2>8
<1>8. ASSUME NEW w \in Workers, ForgetBeat(w) PROVE BeatsInv'
  BY <1>8 DEF ForgetBeat, Without
<1>9. ASSUME NEW w \in Workers, Unregister(w) PROVE BeatsInv'
  BY <1>9 DEF Unregister, Without
<1>10. ASSUME NEW w \in Workers, Disconnect(w) PROVE BeatsInv'
  BY <1>10 DEF Disconnect
<1>11. ASSUME NEW w \in Workers, Remove(w) PROVE BeatsInv'
  BY <1>11 DEF Remove
<1>12. CASE CheckSessions
  BY <1>12 DEF CheckSessions, Late
<1>13. CASE SendHeartbeats
  BY <1>13 DEF SendHeartbeats
<1>14. CASE Look
  <2>1. HTyped'
    <3>1. PICK where \in {"due", "cut", "beat", "next"} : job' = [job EXCEPT !["sender"].at = where]
      BY <1>14 DEF Look
    <3>2. job' \in [Workers -> [at : AllStages, id : Sessions \cup {"none"}]]
      BY <3>1
    <3> QED BY <1>14, <3>2 DEF Look
  <2>2. JobsHaveSessions'
    BY <1>14 DEF Look
  <2>3. OwnStages'
    BY <1>14 DEF Look
  <2>4. OneRemoves'
    BY <1>14 DEF Look
  <2>5. SilentAreLate'
    BY <1>14 DEF Look
  <2>6. AliveHasCredit'
    BY <1>14 DEF Look
  <2>7. SenderKnows'
    BY <1>14 DEF Look
  <2>8. OnlySilentAreCut'
    BY <1>14 DEF Look
  <2> QED BY <2>1, <2>2, <2>3, <2>4, <2>5, <2>6, <2>7, <2>8
<1>15. CASE Beat
  <2> DEFINE id == job["sender"].id
  <2>1. CASE id \notin Known
    BY <1>15, <2>1 DEF Beat
  <2>2. CASE id \in Known
    <3>1. beats[id] \in BeatOf /\ beats[id].alive /\ beats[id].missed < MaxMissed
      BY <1>15, <2>2 DEF Beat
    <3>2. PICK sent \in BeatOf :
              /\ beats' = [beats EXCEPT ![id] = sent]
              /\ sent.silent = beats[id].silent
              /\ sent.missed = beats[id].missed + 1
              /\ sent.alive => beats[id].missed + 1 < MaxMissed
      BY <1>15, <2>2, <3>1, BeatSent DEF Beat
    <3>3. HTyped'
      BY <1>15, <2>2, <3>1, <3>2 DEF Beat
    <3>4. SilentAreLate'
      BY <1>15, <2>2, <3>1, <3>2 DEF Beat
    <3>5. AliveHasCredit'
      BY <1>15, <2>2, <3>1, <3>2 DEF Beat
    <3>6. SenderKnows'
      BY <1>15, <2>2, <3>1, <3>2 DEF Beat
    <3> QED BY <1>15, <3>3, <3>4, <3>5, <3>6 DEF Beat
  <2> QED BY <2>1, <2>2
<1>16. CASE Obey
  <2> DEFINE id == told[1][2]
  <2>1. id \in Sessions /\ told' \in Seq({"start", "received", "stop"} \X Sessions)
    <3>1. told \in Seq({"start", "received", "stop"} \X Sessions) /\ told # <<>>
      BY <1>16 DEF Obey
    <3>2. told[1] \in {"start", "received", "stop"} \X Sessions
      BY <3>1
    <3> QED BY <1>16, <3>1, <3>2 DEF Obey
  <2>2. CASE told[1][1] = "start"
    BY <1>16, <2>1, <2>2 DEF Obey
  <2>3. CASE told[1][1] = "stop"
    BY <1>16, <2>1, <2>3 DEF Obey
  <2>4. CASE told[1][1] # "start" /\ told[1][1] # "stop"
    <3>1. /\ beats' = IF id \in Known THEN [beats EXCEPT ![id] = Answered(id)] ELSE beats
          /\ UNCHANGED <<beating, entries, job, linked, hungUp, todo, late, ended, forced>>
      BY <1>16, <2>4, Zenon DEF Obey
    <3>2. CASE id \notin Known
      BY <2>1, <3>1, <3>2
    <3>3. CASE id \in Known
      <4>1. PICK heard \in BeatOf :
                /\ beats' = [beats EXCEPT ![id] = heard]
                /\ heard.silent = 0 /\ heard.missed = 0 /\ heard.alive
        BY <3>1, <3>3, BeatHeard DEF Answered
      <4>2. HTyped' /\ JobsHaveSessions' /\ OwnStages' /\ OneRemoves'
        BY <2>1, <3>1, <3>3, <4>1
      <4>3. SilentAreLate' /\ AliveHasCredit' /\ OnlySilentAreCut'
        BY <3>1, <3>3, <4>1
      <4>4. SenderKnows'
        BY <3>1, <3>3, <4>1
      <4> QED BY <4>2, <4>3, <4>4
    <3> QED BY <3>2, <3>3
  <2> QED BY <2>2, <2>3, <2>4
<1>17. CASE RegisterBeat
  <2>1. HTyped'
    BY <1>17 DEF RegisterBeat, Fresh, BeatOf
  <2>2. JobsHaveSessions'
    BY <1>17 DEF RegisterBeat, Fresh, BeatOf
  <2>3. OwnStages'
    BY <1>17 DEF RegisterBeat, Fresh, BeatOf
  <2>4. OneRemoves'
    BY <1>17 DEF RegisterBeat, Fresh, BeatOf
  <2>5. SilentAreLate'
    BY <1>17 DEF RegisterBeat, Fresh, BeatOf
  <2>6. AliveHasCredit'
    BY <1>17 DEF RegisterBeat, Fresh, BeatOf
  <2>7. SenderKnows'
    BY <1>17 DEF RegisterBeat, Fresh, BeatOf
  <2>8. OnlySilentAreCut'
    BY <1>17 DEF RegisterBeat, Fresh, BeatOf
  <2> QED BY <2>1, <2>2, <2>3, <2>4, <2>5, <2>6, <2>7, <2>8
<1>18. CASE SendAll
  BY <1>18 DEF SendAll
<1>19. CASE UNCHANGED hvars
  BY <1>19 DEF hvars
<1> QED BY <1>1, <1>2, <1>3, <1>4, <1>5, <1>6, <1>7, <1>8, <1>9, <1>10, <1>11, <1>12, <1>13,
           <1>14, <1>15, <1>16, <1>17, <1>18, <1>19
        DEF HNext, Work

LEMMA BeatsInvariant == HSpec => []BeatsInv
  BY BeatsStart, BeatsStep, PTL DEF HSpec

\* No connection that answers in time is cut as silent, for any number of sessions and any
\* timeout and credit, however the check, the sender and the commands alternate.
THEOREM NoAnswererIsCut == HSpec => []OnlySilentAreCut
<1>1. BeatsInv => OnlySilentAreCut
  BY DEF BeatsInv
<1> QED BY <1>1, BeatsInvariant, PTL

LEMMA BeatsAreTyped == BeatsInv => HTypeOK
<1> SUFFICES ASSUME BeatsInv PROVE HTypeOK
  OBVIOUS
<1>1. Cardinality(Removing) <= 1
  <2>1. CASE Removing = {}
    BY <2>1, FS_EmptySet
  <2>2. CASE Removing # {}
    <3>1. PICK w \in Removing : Removing = {w}
      BY <2>2 DEF BeatsInv, OneRemoves
    <3> QED BY <3>1, FS_Singleton
  <2> QED BY <2>1, <2>2
<1> QED BY <1>1 DEF HTypeOK, BeatsInv, HTyped, BeatOf, Known

\* The types of the heartbeats, and that one task at a time removes a session.
THEOREM HeartbeatsTypeCorrect == HSpec => []HTypeOK
  BY BeatsInvariant, BeatsAreTyped, PTL

(***************************************************************************)
(* The executor's desk.                                                    *)
(***************************************************************************)
AtDesk == {"lookup", "database", "hung"}

DeskTyped ==
    /\ present \in BOOLEAN /\ near \in BOOLEAN /\ kept \in {"none", "fresh", "old"}
    /\ stage \in [Clients -> {"idle", "queue"} \cup AtDesk]
    /\ task \in [Clients -> Tasks \cup {"none"}]
    /\ desk \in Seq(Clients)

\* Each call is at the desk once, and only the first of them has got any further.
Queued ==
    /\ OnlyOnce(desk)
    /\ \A c \in Clients : stage[c] # "idle" <=> c \in Elements(desk)
    /\ \A c \in Clients : stage[c] \in AtDesk => desk # <<>> /\ desk[1] = c /\ present

\* The first level has only what the second has, and a server that is gone has no cache.
CacheOfServer == (near => kept # "none") /\ (~present => kept = "none")

DeskInv == DeskTyped /\ Queued /\ CacheOfServer

LEMMA DeskStart == SQInit => DeskInv
<1> SUFFICES ASSUME SQInit PROVE DeskInv
  OBVIOUS
<1>1. DeskTyped
  <2>1. desk \in Seq(Clients) /\ kept \in {"none", "fresh", "old"}
    BY DEF SQInit
  <2>3. present \in BOOLEAN /\ near \in BOOLEAN
    BY Zenon DEF SQInit
  <2>2. /\ stage \in [Clients -> {"idle", "queue"} \cup AtDesk]
        /\ task \in [Clients -> Tasks \cup {"none"}]
    BY DEF SQInit
  <2> QED BY <2>1, <2>2, <2>3 DEF DeskTyped
<1>2. Elements(desk) = {} /\ OnlyOnce(desk)
  BY DEF SQInit, Elements, OnlyOnce
<1> QED BY <1>1, <1>2 DEF SQInit, DeskInv, Queued, CacheOfServer, AtDesk

\* The one who is served leaves, and nobody behind has got further than the queue.
LEMMA LeaveKeeps ==
    ASSUME DeskTyped, Queued, NEW c \in Clients, desk # <<>>, Head(desk) = c, Leave(c),
           present' = present \/ stage[c] = "queue"
    PROVE  /\ Queued' /\ desk' \in Seq(Clients)
           /\ stage' \in [Clients -> {"idle", "queue"} \cup AtDesk]
           /\ task' \in [Clients -> Tasks \cup {"none"}]
<1>1. /\ stage' = [stage EXCEPT ![c] = "idle"] /\ task' = [task EXCEPT ![c] = "none"]
      /\ desk' = Tail(desk) /\ desk \in Seq(Clients) /\ Len(desk) \in Nat \ {0} /\ desk[1] = c
      /\ DOMAIN desk = 1 .. Len(desk)
  BY DEF Leave, DeskTyped
<1>2. /\ desk' \in Seq(Clients) /\ DOMAIN desk' = 1 .. Len(desk) - 1
      /\ \A i \in 1 .. Len(desk) - 1 : desk'[i] = desk[i + 1] /\ i + 1 \in 1 .. Len(desk)
  BY <1>1
<1>3. stage' \in [Clients -> {"idle", "queue"} \cup AtDesk] /\ task' \in [Clients -> Tasks \cup {"none"}]
  BY <1>1 DEF DeskTyped
<1>4. OnlyOnce(desk')
  BY <1>1, <1>2 DEF Queued, OnlyOnce
<1>5. Elements(desk') = Elements(desk) \ {c}
  <2>1. ASSUME NEW d \in Elements(desk') PROVE d \in Elements(desk) /\ d # c
    <3>1. PICK i \in DOMAIN desk' : desk'[i] = d
      BY <2>1 DEF Elements
    <3>2. i + 1 \in DOMAIN desk /\ desk[i + 1] = d /\ 1 \in DOMAIN desk /\ i + 1 # 1
      BY <1>1, <1>2, <3>1
    <3> QED BY <1>1, <3>2 DEF Queued, OnlyOnce, Elements
  <2>2. ASSUME NEW d \in Elements(desk), d # c PROVE d \in Elements(desk')
    <3>1. PICK i \in DOMAIN desk : desk[i] = d
      BY <2>2 DEF Elements
    <3>2. i - 1 \in DOMAIN desk' /\ desk'[i - 1] = d
      BY <1>1, <1>2, <2>2, <3>1
    <3> QED BY <3>2 DEF Elements
  <2> QED BY <2>1, <2>2
<1>6. \A d \in Clients : stage'[d] # "idle" <=> d \in Elements(desk')
  BY <1>1, <1>5 DEF DeskTyped, Queued
<1>7. \A d \in Clients : stage'[d] \notin AtDesk
  BY <1>1 DEF DeskTyped, Queued, AtDesk
<1> QED BY <1>2, <1>3, <1>4, <1>6, <1>7 DEF Queued

\* The one who is served goes on.
LEMMA MoveKeeps ==
    ASSUME DeskTyped, Queued, NEW c \in Clients, desk # <<>>, Head(desk) = c,
           NEW s \in AtDesk, MoveTo(c, s), present, present' = present, stage[c] # "idle"
    PROVE  /\ Queued' /\ desk' \in Seq(Clients)
           /\ stage' \in [Clients -> {"idle", "queue"} \cup AtDesk]
           /\ task' \in [Clients -> Tasks \cup {"none"}]
<1>1. /\ stage' = [stage EXCEPT ![c] = s] /\ UNCHANGED <<desk, task>> /\ desk \in Seq(Clients)
      /\ desk[1] = c /\ s # "idle"
  BY DEF MoveTo, DeskTyped, AtDesk
<1>2. stage' \in [Clients -> {"idle", "queue"} \cup AtDesk] /\ task' \in [Clients -> Tasks \cup {"none"}]
  BY <1>1 DEF DeskTyped
<1>3. \A d \in Clients : stage'[d] = IF d = c THEN s ELSE stage[d]
  BY <1>1 DEF DeskTyped
<1>4. \A d \in Clients : stage'[d] # "idle" <=> d \in Elements(desk')
  BY <1>1, <1>3 DEF Queued
<1> QED BY <1>1, <1>2, <1>3, <1>4 DEF Queued

LEMMA DeskStep == DeskInv /\ [SQNext]_sqvars => DeskInv'
<1> SUFFICES ASSUME DeskInv, [SQNext]_sqvars PROVE DeskInv'
  OBVIOUS
<1>0. DeskTyped /\ Queued /\ CacheOfServer
  BY DEF DeskInv
<1>1. ASSUME NEW c \in Clients, NEW t \in Tasks, Ask(c, t) PROVE DeskInv'
  <2>1. /\ stage[c] = "idle" /\ stage' = [stage EXCEPT ![c] = "queue"]
        /\ task' = [task EXCEPT ![c] = t] /\ desk' = Append(desk, c) /\ UNCHANGED <<present, near, kept>>
    BY <1>1 DEF Ask, answer
  <2>2. desk \in Seq(Clients) /\ c \notin Elements(desk)
    BY <1>0, <2>1 DEF DeskTyped, Queued
  <2>3. OnlyOnce(desk') /\ Elements(desk') = Elements(desk) \cup {c} /\ desk' \in Seq(Clients)
    BY <1>0, <2>1, <2>2, OnlyOnceAppended, ElementsAppended, Appended DEF Queued
  <2>4. DeskTyped'
    BY <1>0, <2>1, <2>3 DEF DeskTyped
  <2>5. \A d \in Clients : stage'[d] = IF d = c THEN "queue" ELSE stage[d]
    BY <1>0, <2>1 DEF DeskTyped
  <2>6. \A d \in Clients : stage'[d] # "idle" <=> d \in Elements(desk')
    BY <1>0, <2>3, <2>5 DEF Queued
  <2>7. desk # <<>> => desk' # <<>> /\ desk'[1] = desk[1]
    BY <2>1, <2>2
  <2>8. Queued'
    BY <1>0, <2>1, <2>3, <2>5, <2>6, <2>7 DEF Queued, AtDesk
  <2> QED BY <1>0, <2>1, <2>4, <2>8 DEF DeskInv, CacheOfServer
<1>2. ASSUME NEW c \in Clients, Register(c) PROVE DeskInv'
  <2>1. /\ desk # <<>> /\ Head(desk) = c /\ stage[c] = "queue" /\ Leave(c)
        /\ present' = (task[c] = "register") /\ near' = FALSE /\ kept' = "none"
    BY <1>2 DEF Register, Served
  <2>2. /\ Queued' /\ desk' \in Seq(Clients)
        /\ stage' \in [Clients -> {"idle", "queue"} \cup AtDesk]
        /\ task' \in [Clients -> Tasks \cup {"none"}]
    BY <1>0, <2>1, LeaveKeeps
  <2>3. present' \in BOOLEAN
    BY <2>1
  <2> QED BY <2>1, <2>2, <2>3 DEF DeskInv, DeskTyped, CacheOfServer
<1>3. ASSUME NEW c \in Clients, Enter(c) PROVE DeskInv'
  <2>1. /\ desk # <<>> /\ Head(desk) = c /\ stage[c] = "queue" /\ UNCHANGED <<present, near, kept>>
        /\ Leave(c) \/ (present /\ \E s \in AtDesk : MoveTo(c, s))
    BY <1>3 DEF Enter, Served, AtDesk, answer
  <2>2. /\ Queued' /\ desk' \in Seq(Clients)
        /\ stage' \in [Clients -> {"idle", "queue"} \cup AtDesk]
        /\ task' \in [Clients -> Tasks \cup {"none"}]
    BY <1>0, <2>1, LeaveKeeps, MoveKeeps
  <2> QED BY <1>0, <2>1, <2>2 DEF DeskInv, DeskTyped, CacheOfServer
<1>4. ASSUME NEW c \in Clients, LookUp(c) PROVE DeskInv'
  <2>1. /\ desk # <<>> /\ Head(desk) = c /\ stage[c] = "lookup" /\ UNCHANGED <<present, kept>>
        /\ kept \in {"none", "fresh", "old"}
    BY <1>0, <1>4 DEF LookUp, Served, DeskTyped
  <2>2. \/ near' = near /\ MoveTo(c, "database")
        \/ kept = "fresh" /\ near' = TRUE /\ Leave(c)
        \/ near' = FALSE /\ MoveTo(c, "hung")
    BY <1>4, <2>1 DEF LookUp
  <2>3. present
    BY <1>0, <2>1 DEF Queued, AtDesk
  <2>4. /\ Queued' /\ desk' \in Seq(Clients)
        /\ stage' \in [Clients -> {"idle", "queue"} \cup AtDesk]
        /\ task' \in [Clients -> Tasks \cup {"none"}]
    <3>1. present' = present /\ stage[c] # "idle"
      BY <2>1
    <3>2. CASE Leave(c)
      BY <1>0, <2>1, <3>1, <3>2, LeaveKeeps
    <3>3. CASE \E s \in AtDesk : MoveTo(c, s)
      BY <1>0, <2>1, <2>3, <3>1, <3>3, MoveKeeps
    <3> QED BY <2>2, <3>2, <3>3 DEF AtDesk
  <2>5. near' \in BOOLEAN /\ CacheOfServer'
    <3>1. CASE UNCHANGED near
      BY <1>0, <2>1, <3>1, Zenon DEF DeskTyped, CacheOfServer
    <3>2. CASE kept = "fresh" /\ near' = TRUE
      BY <1>0, <2>1, <2>3, <3>2 DEF CacheOfServer
    <3>3. CASE near' = FALSE
      BY <1>0, <2>1, <3>3, Zenon DEF CacheOfServer
    <3> QED BY <2>2, <3>1, <3>2, <3>3, Zenon
  <2> QED BY <1>0, <2>1, <2>4, <2>5 DEF DeskInv, DeskTyped
<1>5. ASSUME NEW c \in Clients, Fetched(c) \/ DatabaseFails(c) PROVE DeskInv'
  <2>1. /\ desk # <<>> /\ Head(desk) = c /\ stage[c] = "database" /\ Leave(c) /\ present' = present
        /\ (near' = TRUE /\ kept' = "fresh") \/ UNCHANGED <<near, kept>>
    BY <1>5 DEF Fetched, DatabaseFails, Served, answer
  <2>2. present
    BY <1>0, <2>1 DEF Queued, AtDesk
  <2>3. /\ Queued' /\ desk' \in Seq(Clients)
        /\ stage' \in [Clients -> {"idle", "queue"} \cup AtDesk]
        /\ task' \in [Clients -> Tasks \cup {"none"}]
    BY <1>0, <2>1, LeaveKeeps
  <2>4. DeskTyped' /\ CacheOfServer'
    <3>1. CASE near' = TRUE /\ kept' = "fresh"
      BY <1>0, <2>1, <2>2, <2>3, <3>1 DEF DeskTyped, CacheOfServer
    <3>2. CASE UNCHANGED <<near, kept>>
      BY <1>0, <2>1, <2>2, <2>3, <3>2, Zenon DEF DeskTyped, CacheOfServer
    <3> QED BY <2>1, <3>1, <3>2, Zenon
  <2> QED BY <2>3, <2>4 DEF DeskInv
<1>6. ASSUME NEW c \in Clients, GiveUp(c) PROVE DeskInv'
  <2>1. /\ stage' = [stage EXCEPT ![c] = "idle"] /\ task' = [task EXCEPT ![c] = "none"]
        /\ desk' = Retain(desk, Clients \ {c}) /\ UNCHANGED <<present, near, kept>>
    BY <1>6 DEF GiveUp, answer
  <2>2. desk \in Seq(Clients) /\ OnlyOnce(desk)
    BY <1>0 DEF DeskTyped, Queued
  <2>3. /\ desk' \in Seq(Clients) /\ OnlyOnce(desk') /\ Elements(desk') = Elements(desk) \cap (Clients \ {c})
        /\ (desk # <<>> /\ desk[1] \in Clients \ {c}) => (desk' # <<>> /\ desk'[1] = desk[1])
    <3> DEFINE S == Clients \ {c}
    <3>1. desk' = Retain(desk, S)
      BY <2>1
    <3> HIDE DEF S
    <3>2. /\ Elements(Retain(desk, S)) = Elements(desk) \cap S
          /\ OnlyOnce(Retain(desk, S)) /\ Retain(desk, S) \in Seq(Clients)
          /\ (desk # <<>> /\ desk[1] \in S) => (Retain(desk, S) # <<>> /\ Retain(desk, S)[1] = desk[1])
      <4>1. /\ Elements(Retain(desk, S)) = Elements(desk) \cap S
            /\ OnlyOnce(desk) => OnlyOnce(Retain(desk, S))
            /\ (desk # <<>> /\ desk[1] \in S) => (Retain(desk, S) # <<>> /\ Retain(desk, S)[1] = desk[1])
        <5>1. desk \in Seq(Clients)
          BY <2>2
        <5>2. Elements(Retain(desk, S)) = Elements(desk) \cap S
          BY <5>1, RetainElements, Zenon
        <5>3. OnlyOnce(desk) => OnlyOnce(Retain(desk, S))
          BY <5>1, RetainElements, Zenon
        <5>4. ASSUME desk # <<>>, desk[1] \in S
              PROVE  Retain(desk, S) # <<>> /\ Retain(desk, S)[1] = desk[1]
          BY <5>1, <5>4, RetainElements
        <5> QED BY <5>2, <5>3, <5>4
      <4>2. Retain(desk, S) \in Seq(Clients)
        BY <2>2, RetainLeavesLess, Zenon
      <4> QED BY <2>2, <4>1, <4>2, Zenon
    <3> QED BY <3>1, <3>2 DEF S
  <2>4. DeskTyped'
    BY <1>0, <2>1, <2>3 DEF DeskTyped
  <2>5. \A d \in Clients : stage'[d] = IF d = c THEN "idle" ELSE stage[d]
    BY <1>0, <2>1 DEF DeskTyped
  <2>6. \A d \in Clients : stage'[d] # "idle" <=> d \in Elements(desk')
    BY <1>0, <2>3, <2>5 DEF Queued
  <2>7. ASSUME NEW d \in Clients, stage'[d] \in AtDesk PROVE desk' # <<>> /\ desk'[1] = d /\ present'
    <3>1. d # c /\ stage[d] \in AtDesk
      BY <2>5, <2>7 DEF AtDesk
    <3>2. desk # <<>> /\ desk[1] = d /\ present
      BY <1>0, <3>1 DEF Queued
    <3> QED BY <2>1, <2>3, <3>1, <3>2
  <2>8. Queued'
    BY <2>3, <2>6, <2>7 DEF Queued
  <2> QED BY <1>0, <2>1, <2>4, <2>8 DEF DeskInv, CacheOfServer
<1>7. CASE GrowOld \/ Evict
  <2>1. /\ UNCHANGED <<present, desk, stage, task>>
        /\ (kept = "fresh" /\ kept' = "old" /\ near' = near) \/ (near' = FALSE /\ kept' = kept)
    BY <1>7 DEF GrowOld, Evict
  <2>2. DeskTyped' /\ Queued'
    BY <1>0, <2>1 DEF DeskTyped, Queued
  <2> QED BY <1>0, <2>1, <2>2 DEF DeskInv, CacheOfServer
<1>8. CASE UNCHANGED sqvars
  BY <1>0, <1>8 DEF sqvars, answer, DeskInv, DeskTyped, Queued, CacheOfServer
<1> QED BY <1>1, <1>2, <1>3, <1>4, <1>5, <1>6, <1>7, <1>8 DEF SQNext, SQStep

LEMMA DeskInvariant == SQFairSpec => []DeskInv
  BY DeskStart, DeskStep, PTL DEF SQFairSpec

LEMMA DeskIsTyped == DeskInv => SQTypeOK
  BY DEF DeskInv, DeskTyped, Queued, CacheOfServer, SQTypeOK, AtDesk, Elements

\* Every call in progress has its place at the desk, and what the first level of the cache has
\* the second has too, for any number of clients.
THEOREM SqlServerTypeCorrect == SQFairSpec => []SQTypeOK
  BY DeskInvariant, DeskIsTyped, PTL

\* While a call hangs nobody is served: it keeps the mutex, the others stay in the line or
\* give up, the server stays registered or not as it is, and the cache learns nothing.
HungStays ==
    \A c \in Clients :
        stage[c] = "hung" =>
            /\ stage'[c] = "hung"
            /\ UNCHANGED present /\ (near' => near)
            /\ (kept' = "fresh" => kept = "fresh")
            /\ \A d \in Clients \ {c} : /\ stage'[d] \in {"queue", "idle"}
                                        /\ (stage[d] = "queue" /\ d \notin Impatient
                                               => stage'[d] = "queue")

LEMMA HungStep == DeskInv /\ [SQNext]_sqvars => HungStays
<1> SUFFICES ASSUME DeskInv, [SQNext]_sqvars, NEW c \in Clients, stage[c] = "hung"
             PROVE  /\ stage'[c] = "hung" /\ UNCHANGED present
                    /\ (near' => near)
                    /\ (kept' = "fresh" => kept = "fresh")
                    /\ \A d \in Clients \ {c} : /\ stage'[d] \in {"queue", "idle"}
                                                /\ (stage[d] = "queue" /\ d \notin Impatient
                                                       => stage'[d] = "queue")
  BY DEF HungStays
<1>0. /\ stage \in [Clients -> {"idle", "queue"} \cup AtDesk] /\ desk \in Seq(Clients)
      /\ desk # <<>> /\ desk[1] = c /\ Head(desk) = c
      /\ \A d \in Clients \ {c} : stage[d] \in {"idle", "queue"}
  <2>1. desk \in Seq(Clients) /\ desk # <<>> /\ desk[1] = c
    BY DEF DeskInv, DeskTyped, Queued, AtDesk
  <2>2. \A d \in Clients : stage[d] \in AtDesk => d = c
    BY <2>1 DEF DeskInv, Queued
  <2> QED BY <2>1, <2>2 DEF DeskInv, DeskTyped, AtDesk
<1>1. \A d \in Clients : ~SQStep(d)
  BY <1>0 DEF SQStep, Register, Enter, LookUp, Fetched, DatabaseFails, Served
<1>2. ASSUME NEW d \in Clients, NEW t \in Tasks, Ask(d, t)
      PROVE  stage' = [stage EXCEPT ![d] = "queue"] /\ stage[d] = "idle"
             /\ UNCHANGED <<present, near, kept>>
  BY <1>2 DEF Ask, answer
<1>3. ASSUME NEW d \in Clients, GiveUp(d)
      PROVE  stage' = [stage EXCEPT ![d] = "idle"] /\ stage[d] # "hung" /\ d \in Impatient
             /\ UNCHANGED <<present, near, kept>>
  BY <1>3 DEF GiveUp, answer
<1>4. CASE GrowOld \/ Evict \/ UNCHANGED sqvars
  BY <1>0, <1>4 DEF GrowOld, Evict, sqvars, answer
<1>5. CASE \E d \in Clients, t \in Tasks : Ask(d, t)
  BY <1>0, <1>2, <1>5
<1>6. CASE \E d \in Clients : GiveUp(d)
  BY <1>0, <1>3, <1>6
<1> QED BY <1>1, <1>4, <1>5, <1>6 DEF SQNext

\* The cache removes an answer whose time is over while it still borrows it: the SELECT that
\* meets one keeps the executor's mutex for ever, and every patient call behind it waits as long.
THEOREM HungForEver == SQFairSpec => [][HungStays]_sqvars
  BY DeskInvariant, HungStep, PTL DEF SQFairSpec

(***************************************************************************)
(* The parts side by side.                                                 *)
(***************************************************************************)
ServicesInv == TasksInv /\ DeskInv /\ BeatsInv

\* What each part keeps, they keep together, since a step is a step of one of them.
LEMMA ServicesStart == MInit => ServicesInv
  BY TasksStart, DeskStart, BeatsStart DEF MInit, ServicesInv

LEMMA ServicesStep == ServicesInv /\ [MNext]_mvars => ServicesInv'
<1> SUFFICES ASSUME ServicesInv, [MNext]_mvars PROVE ServicesInv'
  OBVIOUS
<1>1. [TNext]_tvars /\ [SQNext]_sqvars /\ [HNext]_hvars
  BY DEF MNext, mvars
<1> QED BY <1>1, TasksStep, DeskStep, BeatsStep DEF ServicesInv

\* The types of the tasks, the executor and the heartbeats, for any number of each.
THEOREM ServicesTypeCorrect == MSpec => []ServicesTypeOK
<1>1. MSpec => []ServicesInv
  BY ServicesStart, ServicesStep, PTL DEF MSpec
<1>2. ServicesInv => ServicesTypeOK
  BY DeskIsTyped, BeatsAreTyped DEF ServicesInv, TasksInv, ServicesTypeOK
<1> QED BY <1>1, <1>2, PTL
===============================================================================
