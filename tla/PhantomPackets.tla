---------------------------- MODULE PhantomPackets ----------------------------
(***************************************************************************)
(* One connection from its handshake on, seen from both ends:              *)
(* phantom_crypto/core/handshake.rs and keys.rs, phantom_crypto/packet.rs  *)
(* and packets/packet_service.rs of src/src/core/protocol.                 *)
(*                                                                         *)
(* An end's key and nonce are its name.  A packet opens with the session   *)
(* it was made with: keyed hashes and the cipher are taken to be perfect.  *)
(* An end makes packets in many tasks: each takes a number, and they are   *)
(* sent in whatever order the queues and priorities give.                  *)
(*                                                                         *)
(* Left out: the length field, which decode only logs, and the timestamp,  *)
(* which nobody reads.                                                     *)
(***************************************************************************)
EXTENDS Naturals, Sequences, FiniteSets

CONSTANTS
    PayloadSizes,   \* the sizes of the requests' payloads
    MaxPackets      \* bound: the packets of the client

Ends         == {"client", "server"}
Other(e)     == IF e = "client" THEN "server" ELSE "client"
PacketTypes  == {"ping", "heartbeat", "unknown"}
MaxPayload   == 65536
MaxFrameSize == 65536
Overhead     == 37 + 12 + 16 + 32     \* header, nonce, tag and signature

ASSUME PhantomAssumption ==
    PayloadSizes \subseteq Nat /\ MaxPackets \in Nat \ {0}

VARIABLES
    line,      \* the frames on their way to each end
    left,      \* the ends that have dropped the connection
    hpc,       \* the next step of each end's handshake
    session,   \* the PhantomSession of each end, a set with at most one
    counter,   \* sequence_number
    making,    \* the packets that have a number and are not written yet
    todo,      \* the requests that the server has opened and not processed
    deaf,      \* the ends that have met a frame longer than MAX_FRAME_SIZE
    made, opened, refused   \* history: the packets each end made, opened, could not open

handvars == <<left, hpc, session>>
packvars == <<counter, making, todo, deaf, made, opened, refused>>
phvars   == <<line, handvars, packvars>>

\* from_dh_shared: the shared secret is the same from both sides, the rest is in order.
Derived(client, server) == [secret |-> {client, server}, salt |-> <<client, server>>]

Packet(s, number, type, body, size) ==
    [session |-> s, number |-> number, type |-> type, body |-> body, size |-> size]

Hello(kind) == [kind |-> kind, packet |-> <<>>]
Sealed(p)   == [kind |-> "packet", packet |-> <<p>>]

PhInit ==
    /\ line = [e \in Ends |-> <<>>] /\ left = {}
    /\ hpc = [e \in Ends |-> IF e = "client" THEN "greet" ELSE "await"]
    /\ session = [e \in Ends |-> {}]
    /\ counter = [e \in Ends |-> 0] /\ making = [e \in Ends |-> {}]
    /\ todo = {} /\ deaf = {}
    /\ made = [e \in Ends |-> {}] /\ opened = [e \in Ends |-> {}]
    /\ refused = [e \in Ends |-> {}]

HelloGoto(e, step) == hpc' = [hpc EXCEPT ![e] = step]
Fails(e) == HelloGoto(e, "failed") /\ left' = left \cup {e} /\ UNCHANGED session
Next1(e) == line' = [line EXCEPT ![e] = Tail(@)]
Puts(e, frame) == line' = [line EXCEPT ![e] = Append(@, frame)]

(***************************************************************************)
(* client_phantom_handshake and server_phantom_handshake.                  *)
(***************************************************************************)
\* The peer may also be no client of this protocol and version, or say nothing.
SendHello ==
    /\ hpc["client"] = "greet"
    /\ IF "server" \in left THEN Fails("client") /\ UNCHANGED line
       ELSE \/ /\ Puts("server", Hello("ClientHello"))
               /\ HelloGoto("client", "await") /\ UNCHANGED <<left, session>>
            \/ /\ \/ Puts("server", Hello("other")) \/ UNCHANGED line
               /\ HelloGoto("client", "failed") /\ UNCHANGED <<left, session>>
    /\ UNCHANGED packvars

ReadClientHello ==
    /\ hpc["server"] = "await" /\ line["server"] # <<>> /\ Next1("server")
    /\ IF Head(line["server"]).kind = "ClientHello"
       THEN HelloGoto("server", "answer") /\ UNCHANGED <<left, session>>
       ELSE Fails("server")
    /\ UNCHANGED packvars

\* What the client has reached may be no server of this version, or fall silent.
SendServerHello ==
    /\ hpc["server"] = "answer"
    /\ IF "client" \in left THEN Fails("server") /\ UNCHANGED line
       ELSE \/ /\ Puts("client", Hello("ServerHello"))
               /\ HelloGoto("server", "derive") /\ UNCHANGED <<left, session>>
            \/ Puts("client", Hello("other")) /\ Fails("server")
            \/ HelloGoto("server", "failed") /\ UNCHANGED <<line, left, session>>
    /\ UNCHANGED packvars

Establish(e, s) == HelloGoto(e, "done") /\ session' = [session EXCEPT ![e] = {s}]

\* Mutant: the server hashes its own nonce and key first.
DeriveSessionSwapped ==
    /\ hpc["server"] = "derive" /\ Establish("server", Derived("server", "client"))
    /\ UNCHANGED <<line, left, packvars>>

DeriveSession ==
    /\ hpc["server"] = "derive" /\ Establish("server", Derived("client", "server"))
    /\ UNCHANGED <<line, left, packvars>>

ReadServerHello ==
    /\ hpc["client"] = "await" /\ line["client"] # <<>> /\ Next1("client")
    /\ IF Head(line["client"]).kind = "ServerHello"
       THEN Establish("client", Derived("client", "server")) /\ UNCHANGED left
       ELSE Fails("client")
    /\ UNCHANGED packvars

\* Ten seconds at the client and thirty at the server, or the stream has ended.
HelloReadFails(e) ==
    /\ hpc[e] = "await" /\ line[e] = <<>>
    /\ Fails(e) /\ UNCHANGED <<line, packvars>>

HandStep(e) ==
    \/ e = "client" /\ (SendHello \/ ReadServerHello)
    \/ e = "server" /\ (ReadClientHello \/ SendServerHello \/ DeriveSession)
    \/ HelloReadFails(e)

(***************************************************************************)
(* PhantomPacket::create, decode and decrypt.                              *)
(***************************************************************************)

\* generate_operation_key takes the next number; the key is a hash of it.
Numbered(e, s, type, body, size) ==
    LET p == Packet(s, counter[e], type, body, size) IN
    /\ counter' = [counter EXCEPT ![e] = @ + 1]
    /\ making' = [making EXCEPT ![e] = @ \cup {p}]
    /\ made' = [made EXCEPT ![e] = @ \cup {p}]

\* create refuses more than MAX_PAYLOAD_SIZE before it takes a number.
MakeRequest(type, size) ==
    /\ "client" \notin left /\ counter["client"] < MaxPackets /\ size <= MaxPayload
    /\ \E s \in session["client"] : Numbered("client", s, type, "request", size)
    /\ UNCHANGED <<line, handvars, todo, deaf, opened, refused>>

SendPacket(e, p) ==
    /\ p \in making[e] /\ e \notin left
    /\ making' = [making EXCEPT ![e] = @ \ {p}]
    /\ IF Other(e) \in left THEN UNCHANGED line ELSE Puts(Other(e), Sealed(p))
    /\ UNCHANGED <<handvars, counter, todo, deaf, made, opened, refused>>

\* What is no packet: shorter, or without the magic bytes.
SendJunk ==
    /\ hpc["client"] = "done" /\ "client" \notin left /\ line["server"] = <<>>
    /\ Puts("server", Hello("other")) /\ UNCHANGED <<handvars, packvars>>

\* The session id, the signature and the tag are right for what this session made.
Opens(e, p) == p.session \in session[e]

\* read_frame refuses a frame that is too long, and leaves the rest of it to be taken
\* for headers.
ReadPacket(e) ==
    /\ hpc[e] = "done" /\ e \notin left \cup deaf /\ line[e] # <<>> /\ Next1(e)
    /\ LET frame == Head(line[e]) IN
       IF frame.kind # "packet" THEN UNCHANGED <<deaf, opened, refused, todo>>
       ELSE LET p == frame.packet[1] IN
            CASE p.size + Overhead > MaxFrameSize ->
                     deaf' = deaf \cup {e} /\ UNCHANGED <<opened, refused, todo>>
              [] p.size + Overhead <= MaxFrameSize /\ Opens(e, p) ->
                     /\ opened' = [opened EXCEPT ![e] = @ \cup {p}]
                     /\ todo' = IF e = "server" THEN todo \cup {p} ELSE todo
                     /\ UNCHANGED <<deaf, refused>>
              [] OTHER -> /\ refused' = [refused EXCEPT ![e] = @ \cup {p}]
                          /\ UNCHANGED <<deaf, opened, todo>>
    /\ UNCHANGED <<handvars, counter, making, made>>

EndLeaves(e) ==
    /\ hpc[e] = "done" /\ e \notin left
    /\ left' = left \cup {e} /\ UNCHANGED <<line, hpc, session, packvars>>

(***************************************************************************)
(* PhantomPacketService::process_packet and the packet made of its result. *)
(***************************************************************************)
\* Whether the session is still registered is the session manager's to say.
Answers(p) == CASE p.type = "ping"      -> {"PONG"}
                [] p.type = "heartbeat" -> {"acknowledged", "not found"}
                [] OTHER                -> {"unknown packet type"}

\* The body of an answer names the request for the properties to see; its size is small.
ServeRequest(p) ==
    /\ p \in todo /\ "server" \notin left /\ todo' = todo \ {p}
    /\ \E s \in session["server"], body \in Answers(p) :
           Numbered("server", s, p.type, <<p.number, body>>, 0)
    /\ UNCHANGED <<line, handvars, deaf, opened, refused>>

PacketStep ==
    \/ \E type \in PacketTypes, size \in PayloadSizes : MakeRequest(type, size)
    \/ \E e \in Ends : \/ \E p \in making[e] : SendPacket(e, p)
                       \/ ReadPacket(e)
                       \/ EndLeaves(e)
    \/ \E p \in todo : ServeRequest(p)
    \/ SendJunk

PhNext == (\E e \in Ends : HandStep(e)) \/ PacketStep

PhSpec == PhInit /\ [][PhNext]_phvars

-----------------------------------------------------------------------------
(***************************************************************************)
(* Properties.                                                             *)
(***************************************************************************)
\* Every variable has its type; an end has a session exactly from its handshake on.
PhTypeOK ==
    /\ hpc \in [Ends -> {"greet", "await", "answer", "derive", "done", "failed"}]
    /\ left \subseteq Ends /\ deaf \subseteq Ends
    /\ counter \in [Ends -> 0..MaxPackets]
    /\ \A e \in Ends : /\ Cardinality(session[e]) = IF hpc[e] = "done" THEN 1 ELSE 0
                       /\ making[e] \subseteq made[e]
                       /\ \A p \in made[e] : p.number < counter[e] /\ p.type \in PacketTypes
    /\ todo \subseteq opened["server"]

\* PhantomPacket::decrypt (packet.rs:297) and generate_operation_key (keys.rs:199): the
\* two ends have the same session, so whatever the order in which packets are made, sent
\* and read, each that is read opens, as one the other end made; no two packets of an end
\* share a number and with it a key; and a request gets one answer, of its own type.
PacketsOpen ==
    /\ \A e \in Ends :
        /\ refused[e] = {} /\ opened[e] \subseteq made[Other(e)]
        /\ \A p, q \in made[e] : p.number = q.number => p = q
    /\ \A a \in made["server"] :
        \E p \in opened["server"] : p.number = a.body[1] /\ p.type = a.type
    /\ \A a, b \in made["server"] : a.body[1] = b.body[1] => a = b
===============================================================================
