------------------------------ MODULE Heartbeats ------------------------------
(***************************************************************************)
(* The heartbeats of sessions (server/heartbeat), with every task that the *)
(* library has for them running: the check of the silent                   *)
(* (HeartbeatManager::start), the sender (HeartbeatSender::start), the     *)
(* task that serves the commands (ConnectionHeartbeatManager::new), and a  *)
(* caller of PhantomSessionManager::is_connection_alive.  They share the   *)
(* heartbeat manager's sessions, the session manager's sessions and the    *)
(* connection manager's channels, each under a lock that is held for one   *)
(* step.                                                                   *)
(*                                                                         *)
(* A tick of time is the ping interval.                                    *)
(***************************************************************************)
EXTENDS Integers, Sequences, FiniteSets

CONSTANTS
    Sessions,
    Timeout,        \* config.timeout, in ping intervals
    MaxMissed,      \* config.max_missed_pings
    MaxTold         \* bound: commands that wait

ASSUME HeartbeatsAssumption == Timeout \in Nat /\ MaxMissed \in Nat \ {0} /\ MaxTold \in Nat

VARIABLES
    beats,      \* HeartbeatManager.sessions: the entries
    entries,    \* PhantomSessionManager.sessions
    linked,     \* PhantomConnectionManager.active_connections
    beating,    \* active_connections of the commands' task
    hungUp,     \* sessions whose response channel is closed
    told,       \* the commands that wait
    job,        \* what each task is at, and for which session
    todo,       \* the sessions that are left of its list
    late,       \* history: sessions that have been silent for longer than the timeout
    ended,      \* history: sessions that the session manager has begun to remove
    forced      \* history: sessions that the check or the sender has disconnected

hvars == <<beats, entries, linked, beating, hungUp, told, job, todo, late, ended, forced>>

Workers == {"check", "sender", "commands", "caller"}
Fresh   == [silent |-> 0, unsent |-> 0, missed |-> 0, alive |-> TRUE]
AtRest  == [at |-> "rest", id |-> "none"]

Known == DOMAIN beats
Without(id) == [x \in Known \ {id} |-> beats[x]]
Alive(id) == id \in Known /\ beats[id].alive

HInit ==
    /\ beats = [id \in {} |-> Fresh]
    /\ entries = {} /\ linked = {} /\ beating = {} /\ hungUp = {}
    /\ told = <<>>
    /\ job = [w \in Workers |-> AtRest]
    /\ todo = [w \in Workers |-> {}]
    /\ late = {} /\ ended = {} /\ forced = {}

JobAt(w, stage) == job[w].at = stage
JobGoto(w, stage) == job' = [job EXCEPT ![w].at = stage]

\* update_heartbeat_received
Answered(id) == [beats[id] EXCEPT !.silent = 0, !.missed = 0, !.alive = TRUE]

\* Mutant: a session that the sender has given up is no longer looked at.
LateAndAlive(id) == Alive(id) /\ beats[id].silent > Timeout

\* Mutant: a session is late at its timeout.
LateEarly(id) == id \in Known /\ beats[id].silent >= Timeout

Late(id) == id \in Known /\ beats[id].silent > Timeout

\* Time passes for every session that is known.
Pass ==
    /\ beats' = [id \in Known |->
           [beats[id] EXCEPT !.silent = IF @ > Timeout THEN @ ELSE @ + 1, !.unsent = 1]]
    /\ late' = late \cup {id \in Known : beats[id].silent >= Timeout}
    /\ UNCHANGED <<entries, linked, beating, hungUp, told, job, todo, ended, forced>>

(***************************************************************************)
(* The owners of the connections.                                          *)
(***************************************************************************)
\* A new connection: its channel, and the command that starts its heartbeats.
Open(id) ==
    /\ id \notin linked \cup beating \cup entries \cup late \cup ended \cup forced
    /\ Len(told) < MaxTold
    /\ linked' = linked \cup {id}
    /\ told' = Append(told, <<"start", id>>)
    /\ UNCHANGED <<beats, entries, beating, hungUp, job, todo, late, ended, forced>>

\* heartbeat_received and stop_heartbeat
Tell(id) ==
    /\ id \in beating /\ Len(told) < MaxTold
    /\ \E command \in {"received", "stop"} : told' = Append(told, <<command, id>>)
    /\ UNCHANGED <<beats, entries, linked, beating, hungUp, job, todo, late, ended, forced>>

HangUp(id) ==
    /\ id \in beating \ hungUp
    /\ hungUp' = hungUp \cup {id}
    /\ UNCHANGED <<beats, entries, linked, beating, told, job, todo, late, ended, forced>>

(***************************************************************************)
(* The lists that the tasks go through, and the two ways to remove.        *)
(***************************************************************************)
FirstStage(w) == CASE w = "check" -> "cut" [] w = "sender" -> "look" [] OTHER -> "lock"

TakeNext(w) ==
    /\ JobAt(w, "next")
    /\ IF todo[w] = {}
       THEN job' = [job EXCEPT ![w] = AtRest] /\ UNCHANGED todo
       ELSE \E id \in todo[w] :
                /\ job' = [job EXCEPT ![w] = [at |-> FirstStage(w), id |-> id]]
                /\ todo' = [todo EXCEPT ![w] = @ \ {id}]
    /\ UNCHANGED <<beats, entries, linked, beating, hungUp, told, late, ended, forced>>

\* HeartbeatManager's way: the connection's signal, then its own entry.
Cut(w) ==
    LET id == job[w].id IN
    /\ JobAt(w, "cut")
    /\ linked' = linked \ {id}
    /\ forced' = forced \cup ({id} \cap linked)
    /\ JobGoto(w, "forget")
    /\ UNCHANGED <<beats, entries, beating, hungUp, told, todo, late, ended>>

ForgetBeat(w) ==
    /\ JobAt(w, "forget")
    /\ beats' = Without(job[w].id)
    /\ JobGoto(w, "next")
    /\ UNCHANGED <<entries, linked, beating, hungUp, told, todo, late, ended, forced>>

\* PhantomSessionManager's way, one caller at a time: the heartbeat, the
\* connection's signal, the session.
Removing == {w \in Workers : job[w].at \in {"disconnect", "remove"}}

Unregister(w) ==
    /\ JobAt(w, "lock") /\ Removing = {}
    /\ beats' = Without(job[w].id)
    /\ ended' = ended \cup {job[w].id}
    /\ JobGoto(w, "disconnect")
    /\ UNCHANGED <<entries, linked, beating, hungUp, told, todo, late, forced>>

Disconnect(w) ==
    /\ JobAt(w, "disconnect")
    /\ linked' = linked \ {job[w].id}
    /\ JobGoto(w, "remove")
    /\ UNCHANGED <<beats, entries, beating, hungUp, told, todo, late, ended, forced>>

Remove(w) ==
    /\ JobAt(w, "remove")
    /\ entries' = entries \ {job[w].id}
    /\ JobGoto(w, "next")
    /\ UNCHANGED <<beats, linked, beating, hungUp, told, todo, late, ended, forced>>

(***************************************************************************)
(* The check and the sender.                                               *)
(***************************************************************************)
CheckSessions ==
    /\ JobAt("check", "rest")
    /\ todo' = [todo EXCEPT !["check"] = {id \in Sessions : Late(id)}]
    /\ JobGoto("check", "next")
    /\ UNCHANGED <<beats, entries, linked, beating, hungUp, told, late, ended, forced>>

SendHeartbeats ==
    /\ JobAt("sender", "rest")
    /\ todo' = [todo EXCEPT !["sender"] = {id \in Sessions : Alive(id)}]
    /\ JobGoto("sender", "next")
    /\ UNCHANGED <<beats, entries, linked, beating, hungUp, told, late, ended, forced>>

\* is_connection_alive and should_send_heartbeat, each a look of its own
Look ==
    LET id == job["sender"].id IN
    /\ \/ JobAt("sender", "look") /\ JobGoto("sender", IF Alive(id) THEN "due" ELSE "cut")
       \/ /\ JobAt("sender", "due")
          /\ JobGoto("sender", IF id \in Known /\ beats[id].unsent > 0 THEN "beat" ELSE "next")
    /\ UNCHANGED <<beats, entries, linked, beating, hungUp, told, todo, late, ended, forced>>

\* send_heartbeat counts, and marks the session that has missed too many.
Beat ==
    LET id == job["sender"].id
        sent == [beats[id] EXCEPT !.unsent = 0, !.missed = @ + 1,
                                  !.alive = @ /\ beats[id].missed + 1 < MaxMissed] IN
    /\ JobAt("sender", "beat")
    /\ beats' = IF id \in Known THEN [beats EXCEPT ![id] = sent] ELSE beats
    /\ JobGoto("sender", "next")
    /\ UNCHANGED <<entries, linked, beating, hungUp, told, todo, late, ended, forced>>

(***************************************************************************)
(* The commands, and the other caller.                                     *)
(***************************************************************************)
Obey ==
    /\ JobAt("commands", "rest") /\ told # <<>>
    /\ told' = Tail(told)
    /\ LET id == told[1][2] IN
       CASE told[1][1] = "start" ->
                /\ beating' = beating \cup {id} /\ entries' = entries \cup {id}
                /\ job' = [job EXCEPT !["commands"] = [at |-> "register", id |-> id]]
                /\ UNCHANGED beats
         [] told[1][1] = "stop" ->
                /\ beating' = beating \ {id}
                /\ job' = [job EXCEPT !["commands"] = [at |-> "lock", id |-> id]]
                /\ UNCHANGED <<beats, entries>>
         [] OTHER ->
                /\ beats' = IF id \in Known THEN [beats EXCEPT ![id] = Answered(id)] ELSE beats
                /\ UNCHANGED <<beating, entries, job>>
    /\ UNCHANGED <<linked, hungUp, todo, late, ended, forced>>

\* register_session: the session has come first, its heartbeat follows.
RegisterBeat ==
    /\ JobAt("commands", "register")
    /\ beats' = [id \in Known \cup {job["commands"].id} |->
                    IF id = job["commands"].id THEN Fresh ELSE beats[id]]
    /\ JobGoto("commands", "next")
    /\ UNCHANGED <<entries, linked, beating, hungUp, told, todo, late, ended, forced>>

\* The task's own interval: a heartbeat for everyone, and whose channel is closed
\* is removed.
SendAll ==
    /\ JobAt("commands", "rest")
    /\ beating' = beating \ hungUp
    /\ todo' = [todo EXCEPT !["commands"] = beating \cap hungUp]
    /\ JobGoto("commands", "next")
    /\ UNCHANGED <<beats, entries, linked, hungUp, told, late, ended, forced>>

\* is_connection_alive: two looks, then the removal.
AskAlive(id) ==
    /\ \/ /\ JobAt("caller", "rest") /\ id \in entries
          /\ job' = [job EXCEPT !["caller"] = [at |-> "asked", id |-> id]]
       \/ /\ JobAt("caller", "asked") /\ job["caller"].id = id
          /\ JobGoto("caller", IF Alive(id) THEN "next" ELSE "lock")
    /\ UNCHANGED <<beats, entries, linked, beating, hungUp, told, todo, late, ended, forced>>

Work(w) ==
    \/ TakeNext(w) \/ Cut(w) \/ ForgetBeat(w) \/ Unregister(w) \/ Disconnect(w) \/ Remove(w)
    \/ w = "check" /\ CheckSessions
    \/ w = "sender" /\ (SendHeartbeats \/ Look \/ Beat)
    \/ w = "commands" /\ (Obey \/ RegisterBeat \/ SendAll)

HNext ==
    \/ Pass
    \/ \E id \in Sessions : Open(id) \/ Tell(id) \/ HangUp(id) \/ AskAlive(id)
    \/ \E w \in Workers : Work(w)

HSpec == HInit /\ [][HNext]_hvars

\* Time goes on, the runtime polls the tasks, and their intervals tick.
HFairSpec == HSpec /\ WF_hvars(Pass) /\ \A w \in Workers : WF_hvars(Work(w))

(***************************************************************************)
(* Properties.                                                             *)
(***************************************************************************)
\* The variables have their types; one task at a time removes.
HTypeOK ==
    /\ Known \subseteq Sessions
    /\ \A id \in Known : beats[id] \in [silent : 0 .. Timeout + 1, unsent : {0, 1},
                                        missed : 0 .. MaxMissed, alive : BOOLEAN]
    /\ entries \cup linked \cup beating \cup hungUp \subseteq Sessions
    /\ Cardinality(Removing) <= 1

\* Neither the check nor the sender disconnects a session unless it has been silent
\* for longer than the timeout, whatever answers come between their looks and their
\* cuts, or the session manager has begun to remove it anyway.
OnlySilentAreCut == forced \subseteq late \cup ended

StaysSilent(id) == id \in Known /\ beats[id].silent > Timeout

\* A session that stays silent leaves the heartbeat manager, also one that the sender
\* has marked as dead, and one whose heartbeat was registered after its session had
\* been removed.
SilentAreForgotten ==
    \A id \in Sessions : StaysSilent(id) ~> ~StaysSilent(id)
================================================================================
