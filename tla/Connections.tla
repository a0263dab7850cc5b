----------------------------- MODULE Connections -----------------------------
(***************************************************************************)
(* The life of a connection: the task that main spawns for it              *)
(* (tcp_server_phantom.rs, connection_manager_phantom.rs), the registries  *)
(* it enters and leaves (session, heartbeat and connection manager, the    *)
(* writer's connections, active_connections), its reader task, the events  *)
(* that go from the reader through a converter to the one event handler,   *)
(* and the frames that are decrypted, looked up and answered meanwhile.    *)
(*                                                                         *)
(* A session id is new for every handshake, so it stands for the           *)
(* connection.  An address is not: a client may come back from the port it *)
(* had.  The heartbeat manager that main starts has no sessions: its loops *)
(* find nothing to do, and only the 300 seconds end a connection.          *)
(***************************************************************************)
EXTENDS Integers, FiniteSets, SequencesExt

CONSTANTS
    Conns,      \* connections that clients make
    Addr,       \* the address each comes from
    Frames,     \* frames that clients may send and the server reads
    FrameOf,    \* the connection each frame is sent on
    None        \* no connection

ASSUME ConnectionsAssumption ==
    /\ IsFiniteSet(Conns)
    /\ DOMAIN Addr = Conns
    /\ FrameOf \in [Frames -> Conns]
    /\ None \notin Conns

VARIABLES
    task,        \* the next step of each connection's task
    sessions,    \* PhantomSessionManager::sessions
    heartbeats,  \* the sessions of its HeartbeatManager
    managed,     \* PhantomConnectionManager::active_connections
    reader,      \* the reader task of each connection
    count,       \* BatchReader::connection_count
    writer,      \* the entries of BatchWriter::connections and their is_active
    active,      \* IntegratedBatchSystem::active_connections, by address
    readerEvents, systemEvents,  \* the two event channels
    converter,   \* whether the task between them runs; if not, the first is closed
    running,     \* is_running of the batch system and its reader
    frame,       \* how far each frame has come
    verdict,     \* what on_heartbeat_received said of each frame
    heard,       \* history: the stream that got the answer to each frame
    late         \* history: connections whose reader had ended when they were announced

registries == <<sessions, heartbeats, managed>>
streams    == <<reader, count, writer>>
channels   == <<readerEvents, systemEvents, converter>>
frames     == <<frame, verdict, heard>>
vars       == <<task, registries, streams, channels, frames, active, running, late>>

Steps == {"away", "read", "write", "announce", "register", "serving",
          "lock", "unbeat", "unsession", "gone"}
FrameSteps == {"unsent", "reader", "system", "working", "found", "answering",
               "answered", "lost"}

Events == ({"opened", "closed"} \X Conns) \cup ({"data"} \X Frames)

Addrs == {Addr[c] : c \in Conns}

Init ==
    /\ task = [c \in Conns |-> "away"]
    /\ sessions = {} /\ heartbeats = {} /\ managed = {}
    /\ reader = [c \in Conns |-> "none"] /\ count = 0 /\ writer = [c \in Conns |-> "none"]
    /\ active = [a \in Addrs |-> None]
    /\ readerEvents = <<>> /\ systemEvents = <<>>
    /\ converter = "running" /\ running = TRUE
    /\ frame = [f \in Frames |-> "unsent"] /\ verdict = [f \in Frames |-> "none"]
    /\ heard = [f \in Frames |-> None]
    /\ late = {}

Task(c, from, to) == task[c] = from /\ task' = [task EXCEPT ![c] = to]
Move(f, from, to) == frame[f] = from /\ frame' = [frame EXCEPT ![f] = to]
Losing(lost)      == frame' = [f \in Frames |-> IF f \in lost THEN "lost" ELSE frame[f]]

(***************************************************************************)
(* The connection's task.                                                  *)
(***************************************************************************)
\* The handshake fails or takes ten seconds: the stream is dropped.
HandshakeFails(c) ==
    /\ Task(c, "away", "gone")
    /\ UNCHANGED <<registries, streams, channels, frames, active, running, late>>

\* main has accepted it, and the handshake is done: add_session_with_addr, and
\* register_connection of the connection manager, whose entry only this task looks
\* for.  Nothing in the server has to have noticed yet that the client closed an
\* earlier connection from the same address.
AddSession(c) ==
    /\ Task(c, "away", "read")
    /\ sessions' = sessions \cup {c} /\ managed' = managed \cup {c}
    /\ UNCHANGED <<heartbeats, streams, channels, frames, active, running, late>>

\* Mutant: the reader is not counted.
StartReaderUncounted(c) ==
    /\ converter = "running"
    /\ Task(c, "read", "write")
    /\ reader' = [reader EXCEPT ![c] = "reading"]
    /\ UNCHANGED <<registries, count, writer, channels, frames, active, running, late>>

\* BatchReader::register_connection: the reader starts before the rest is in place.
StartReader(c) ==
    /\ converter = "running"
    /\ Task(c, "read", "write")
    /\ reader' = [reader EXCEPT ![c] = "reading"] /\ count' = count + 1
    /\ UNCHANGED <<registries, writer, channels, frames, active, running, late>>

\* "Event channel closed": register_connection fails, and the task cleans up.
ReaderRefused(c) ==
    /\ converter = "stopped"
    /\ Task(c, "read", "lock")
    /\ UNCHANGED <<registries, streams, channels, frames, active, running, late>>

RegisterWriter(c) ==
    /\ Task(c, "write", "announce")
    /\ writer' = [writer EXCEPT ![c] = "active"]
    /\ UNCHANGED <<registries, reader, count, channels, frames, active, running, late>>

\* ConnectionOpened goes to the handler's channel, past the converter.
Announce(c) ==
    /\ Task(c, "announce", "register")
    /\ systemEvents' = Append(systemEvents, <<"opened", c>>)
    /\ late' = IF reader[c] = "ended" THEN late \cup {c} ELSE late
    /\ UNCHANGED <<registries, streams, readerEvents, converter, frames, active, running>>

\* register_session enters the session, which is there, once more, and its heartbeat.
RegisterSession(c) ==
    /\ Task(c, "register", "serving")
    /\ sessions' = sessions \cup {c} /\ heartbeats' = heartbeats \cup {c}
    /\ UNCHANGED <<managed, streams, channels, frames, active, running, late>>

\* The 300 seconds are over.  Nothing else ends the wait: force_disconnect, which
\* would send the signal, is only called by the clean-up below.
TimeOut(c) ==
    /\ Task(c, "serving", "lock")
    /\ UNCHANGED <<registries, streams, channels, frames, active, running, late>>

(***************************************************************************)
(* cleanup_connection: force_remove_session, with cleanup_lock held, and   *)
(* unregister_connection.                                                  *)
(***************************************************************************)
Cleaning(c) == task[c] \in {"unbeat", "unsession"}

LockCleanup(c) ==
    /\ \A d \in Conns : ~Cleaning(d)
    /\ Task(c, "lock", "unbeat")
    /\ UNCHANGED <<registries, streams, channels, frames, active, running, late>>

\* Mutant: the session is removed before its heartbeat.
RemoveSessionFirst(c) ==
    /\ Task(c, "unbeat", "unsession")
    /\ sessions' = sessions \ {c} /\ managed' = managed \ {c}
    /\ UNCHANGED <<heartbeats, streams, channels, frames, active, running, late>>

\* unregister_session of the heartbeat manager, and force_disconnect: its signal goes
\* to the task itself, whose channel has room for it.
RemoveHeartbeat(c) ==
    /\ Task(c, "unbeat", "unsession")
    /\ heartbeats' = heartbeats \ {c} /\ managed' = managed \ {c}
    /\ UNCHANGED <<sessions, streams, channels, frames, active, running, late>>

\* The session goes, and the guard of cleanup_lock with it; unregister_connection
\* finds no entry left.
RemoveSession(c) ==
    /\ Task(c, "unsession", "gone")
    /\ sessions' = sessions \ {c}
    /\ UNCHANGED <<heartbeats, managed, streams, channels, frames, active, running, late>>

(***************************************************************************)
(* The reader task.                                                        *)
(***************************************************************************)
\* The loop ends: ConnectionClosed is sent, if there is anyone to receive it.
Ends(c) ==
    /\ reader' = [reader EXCEPT ![c] = "ended"] /\ count' = count - 1
    /\ readerEvents' = IF converter = "running" THEN Append(readerEvents, <<"closed", c>>)
                                                ELSE readerEvents

ReadFrame(f) ==
    LET c == FrameOf[f] IN
    /\ reader[c] = "reading"
    /\ \/ /\ converter = "running"
          /\ Move(f, "unsent", "reader")
          /\ readerEvents' = Append(readerEvents, <<"data", f>>)
          /\ UNCHANGED <<reader, count>>
       \/ /\ converter = "stopped"
          /\ Move(f, "unsent", "lost")
          /\ Ends(c)
    /\ UNCHANGED <<task, registries, writer, systemEvents, converter, verdict, heard, active,
                   running, late>>

\* The stream is closed, the client sent an empty frame, ten reads in a row failed
\* or found nothing, or the flag is down.  What is still to be read stays unsent.
ReadEnds(c) ==
    /\ reader[c] = "reading"
    /\ Ends(c)
    /\ UNCHANGED <<task, registries, writer, systemEvents, converter, frames,
                   active, running, late>>

(***************************************************************************)
(* The converter and the event handler.                                    *)
(***************************************************************************)
\* What is left in the reader's channel goes with its receiver.
Left(events) == {f \in Frames : Contains(events, <<"data", f>>)}

\* Mutant: the converter lets a closed connection's event go.
ConvertDataOnly ==
    /\ converter = "running" /\ readerEvents # <<>>
    /\ readerEvents' = Tail(readerEvents)
    /\ LET event == Head(readerEvents) IN
       IF event[1] = "data"
       THEN Move(event[2], "reader", "system") /\ systemEvents' = Append(systemEvents, event)
       ELSE UNCHANGED <<frame, systemEvents>>
    /\ UNCHANGED <<task, registries, streams, converter, verdict, heard, active, running, late>>

\* The flag is looked at after an event has been passed on.
Convert ==
    LET event == Head(readerEvents)
        lost  == IF running THEN {} ELSE Left(Tail(readerEvents)) IN
    /\ converter = "running" /\ readerEvents # <<>>
    /\ systemEvents' = Append(systemEvents, event)
    /\ frame' = [f \in Frames |-> IF event = <<"data", f>> THEN "system"
                                  ELSE IF f \in lost THEN "lost" ELSE frame[f]]
    /\ readerEvents' = IF running THEN Tail(readerEvents) ELSE <<>>
    /\ converter' = IF running THEN "running" ELSE "stopped"
    /\ UNCHANGED <<task, registries, streams, verdict, heard, active, running, late>>

Take(event) == systemEvents # <<>> /\ Head(systemEvents) = event /\ systemEvents' = Tail(systemEvents)

HandleOpened(c) ==
    /\ Take(<<"opened", c>>)
    /\ active' = [active EXCEPT ![Addr[c]] = c]
    /\ UNCHANGED <<task, registries, streams, readerEvents, converter, frames, running, late>>

HandleClosed(c) ==
    /\ Take(<<"closed", c>>)
    /\ active' = [active EXCEPT ![Addr[c]] = None]
    /\ UNCHANGED <<task, registries, streams, readerEvents, converter, frames, running, late>>

HandleData(f) ==
    /\ Take(<<"data", f>>)
    /\ Move(f, "system", "working")
    /\ UNCHANGED <<task, registries, streams, readerEvents, converter, verdict, heard, active,
                   running, late>>

\* emergency_shutdown
Shutdown ==
    /\ running
    /\ running' = FALSE
    /\ UNCHANGED <<task, registries, streams, channels, frames, active, late>>

(***************************************************************************)
(* A frame, from the dispatcher to the answer.                             *)
(***************************************************************************)
\* Refused, dropped by a loop, expired, not decrypted, without a result in time,
\* stopped by the breaker, of an unsupported type, or answered while the writer has
\* no permit.
Lose(f) ==
    /\ frame[f] \in {"working", "found", "answering"}
    /\ Losing({f})
    /\ UNCHANGED <<task, registries, streams, channels, verdict, heard, active, running, late>>

\* process_task of a worker loop looks the session up, and so does process_task_result.
FindSession(f) ==
    /\ FrameOf[f] \in sessions
    /\ Move(f, "working", "found")
    /\ UNCHANGED <<task, registries, streams, channels, verdict, heard, active, running, late>>

\* Mutant: a heartbeat of a session that is not there enters it.
BeatInserts(f) ==
    /\ Move(f, "found", "answering")
    /\ verdict' = [verdict EXCEPT ![f] = "acknowledged"]
    /\ heartbeats' = heartbeats \cup {FrameOf[f]}
    /\ UNCHANGED <<task, sessions, managed, streams, channels, heard, active, running, late>>

\* handle_heartbeat: "Heartbeat acknowledged" or "Session not found"
Beat(f) ==
    /\ Move(f, "found", "answering")
    /\ verdict' = [verdict EXCEPT ![f] = IF FrameOf[f] \in heartbeats THEN "acknowledged"
                                                                      ELSE "unknown"]
    /\ UNCHANGED <<task, registries, streams, channels, heard, active, running, late>>

\* Mutant: the stream is looked up by its address.
AnswerByAddress(f) ==
    /\ Move(f, "answering", "answered")
    /\ \E c \in Conns : /\ Addr[c] = Addr[FrameOf[f]] /\ writer[c] = "active"
                        /\ heard' = [heard EXCEPT ![f] = c]
    /\ UNCHANGED <<task, registries, streams, channels, verdict, active, running, late>>

\* write_immediate finds the stream by its session, and nothing ever removes it.
WriteAnswer(f) ==
    /\ writer[FrameOf[f]] = "active"
    /\ Move(f, "answering", "answered")
    /\ heard' = [heard EXCEPT ![f] = FrameOf[f]]
    /\ UNCHANGED <<task, registries, streams, channels, verdict, active, running, late>>

\* The write fails or takes five seconds, which ends the use of the stream, or
\* there is no stream to write to (yet).
WriteFails(f) ==
    LET c == FrameOf[f] IN
    /\ Move(f, "answering", "lost")
    /\ writer' = [writer EXCEPT ![c] = IF @ = "active" THEN "broken" ELSE @]
    /\ UNCHANGED <<task, registries, reader, count, channels, verdict, heard, active,
                   running, late>>

TaskStep(c) ==
    \/ HandshakeFails(c) \/ AddSession(c) \/ StartReader(c) \/ ReaderRefused(c)
    \/ RegisterWriter(c) \/ Announce(c) \/ RegisterSession(c) \/ TimeOut(c)
    \/ LockCleanup(c) \/ RemoveHeartbeat(c) \/ RemoveSession(c)

ReaderStep == \/ \E c \in Conns : ReadEnds(c)
              \/ \E f \in Frames : ReadFrame(f)

EventStep == \/ Convert
             \/ \E c \in Conns : HandleOpened(c) \/ HandleClosed(c)
             \/ \E f \in Frames : HandleData(f)

FrameStep(f) == Lose(f) \/ FindSession(f) \/ Beat(f) \/ WriteAnswer(f) \/ WriteFails(f)

Next == \/ \E c \in Conns : TaskStep(c)
        \/ ReaderStep \/ EventStep \/ Shutdown
        \/ \E f \in Frames : FrameStep(f)

Spec == Init /\ [][Next]_vars

-----------------------------------------------------------------------------
TypeOK ==
    /\ task \in [Conns -> Steps]
    /\ sessions \subseteq Conns /\ heartbeats \subseteq Conns /\ managed \subseteq Conns
    /\ reader \in [Conns -> {"none", "reading", "ended"}]
    /\ count \in Nat
    /\ writer \in [Conns -> {"none", "active", "broken"}]
    /\ active \in [Addrs -> Conns \cup {None}]
    /\ readerEvents \in Seq(Events) /\ systemEvents \in Seq(Events)
    /\ converter \in {"running", "stopped"} /\ running \in BOOLEAN
    /\ frame \in [Frames -> FrameSteps]
    /\ verdict \in [Frames -> {"none", "acknowledged", "unknown"}]
    /\ heard \in [Frames -> Conns \cup {None}]
    /\ late \subseteq Conns

\* A connection that is gone is in no registry: no heartbeat, answer or retry that
\* was under way during the clean-up brings it back.
GoneLeavesNothing ==
    \A c \in Conns : task[c] = "gone" => c \notin sessions \cup heartbeats \cup managed

\* A session that the heartbeat manager knows exists: it is entered after the
\* session and leaves before it.
HeartbeatHasSession == heartbeats \subseteq sessions

\* "Session not found" is only said while the connection is being set up or
\* cleaned up, never to one that is being served.
UnknownOnlyAtEdges ==
    [][\A f \in Frames : verdict'[f] = "unknown" /\ verdict[f] = "none"
                            => task[FrameOf[f]] # "serving"]_vars

\* Whether one of the channels still has that event.
Pending(event) == Contains(readerEvents, event) \/ Contains(systemEvents, event)

\* An entry of active_connections outlives its reader only if the reader had
\* ended when ConnectionOpened was sent, or the events were cut off by a shutdown.
StaleOnlyWhenLate ==
    \A c \in Conns : running /\ active[Addr[c]] = c /\ reader[c] = "ended"
                        => c \in late \/ Pending(<<"closed", c>>)

\* What FrameService promises of frames holds of this server's.
Fate == [f \in Frames |-> IF frame[f] \in {"unsent", "answered", "lost"} THEN frame[f]
                                                                       ELSE "pending"]
Service == INSTANCE FrameService WITH fate <- Fate

FramesServed == Service!FSpec
=============================================================================
