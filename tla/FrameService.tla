---------------------------- MODULE FrameService ----------------------------
(***************************************************************************)
(* What the server promises a client about a frame it sends: it is         *)
(* answered at most once, on the stream of the connection it came from, or *)
(* it is dropped.  Connections is shown to implement this.                 *)
(***************************************************************************)
CONSTANTS
    Conns,     \* connections
    Frames,    \* frames that clients may send
    FrameOf,   \* the connection each frame is sent on
    None       \* no stream

VARIABLES
    fate,      \* what has become of each frame
    heard      \* the stream that got the answer to each frame

fvars == <<fate, heard>>

FInit ==
    /\ fate = [f \in Frames |-> "unsent"]
    /\ heard = [f \in Frames |-> None]

Become(f, from, to) == fate[f] = from /\ fate' = [fate EXCEPT ![f] = to]

Send(f)   == Become(f, "unsent", "pending") /\ UNCHANGED heard
Answer(f) == Become(f, "pending", "answered") /\ heard' = [heard EXCEPT ![f] = FrameOf[f]]

\* Frames may be dropped where they arrive, and several together with the channel
\* that they are in.
Drop(lost) ==
    /\ \A f \in lost : fate[f] \in {"unsent", "pending"}
    /\ fate' = [f \in Frames |-> IF f \in lost THEN "lost" ELSE fate[f]]
    /\ UNCHANGED heard

FNext == \/ \E f \in Frames : Send(f) \/ Answer(f)
         \/ \E lost \in SUBSET Frames : Drop(lost)

FSpec == FInit /\ [][FNext]_fvars
=============================================================================
