------------------------------- MODULE MCParts --------------------------------
\* Seven parts of the batch system and the congestion controller, which share nothing: one
\* run checks them all, and the initial state chooses the one that moves.
EXTENDS BatchWriter, BatchReader, PhantomPackets, AdaptiveBatcher, BufferPool, ControlCycle,
        CongestionControl, TLC

CONSTANTS t1, t2, g1, g2

\* Two connections of one address and one of another; the first write is of the first
\* stream, the other of the second stream of its address.
Addresses == <<"a", "b", "a">>
SessionOfTask == (t1 :> 1) @@ (t2 :> 3)

Minima == ("small" :> 3) @@ ("giant" :> 1)

ModelOptima == {32, 256, 600, 1024}
Sums        == {-250, -37, 0, 100}

\* The one offence of a run weighs as much as it takes for a ban.
Heavy == (0 :> 0) @@ (1 :> 95)

VARIABLE part

pvars == <<wvars, rvars, phvars, abvars, bpvars, ccvars, guvars, part>>

PInit ==
    /\ WInit /\ RInit /\ PhInit /\ ABInit /\ BPInit /\ CCInit /\ GUInit
    /\ part \in {"writer", "reader", "packets", "batcher", "buffers", "control", "congestion"}

Rest(p) ==
    /\ p # "writer"     => UNCHANGED wvars
    /\ p # "reader"     => UNCHANGED rvars
    /\ p # "packets"    => UNCHANGED phvars
    /\ p # "batcher"    => UNCHANGED abvars
    /\ p # "buffers"    => UNCHANGED bpvars
    /\ p # "control"    => UNCHANGED ccvars
    /\ p # "congestion" => UNCHANGED guvars

PNext ==
    /\ UNCHANGED part
    /\ Rest(part)
    /\ \/ part = "writer" /\ WNext
       \/ part = "reader" /\ RNext
       \/ part = "packets" /\ PhNext
       \/ part = "batcher" /\ ABNext
       \/ part = "buffers" /\ BPNext
       \/ part = "control" /\ CCNext
       \/ part = "congestion" /\ GUNext

PSpec == PInit /\ [][PNext]_pvars

\* The type invariants of the seven.
PartsTypeOK ==
    WTypeOK /\ RTypeOK /\ PhTypeOK /\ ABTypeOK /\ BPTypeOK /\ CCTypeOK /\ GUTypeOK

\* The liveness properties, each with the fairness of its own part.
ReaderFair     == SF_rvars(part = "reader" /\ ReaderStep)
ControlFair    == WF_ccvars(part = "control" /\ LoopStep)
CongestionFair == \A c \in Calls : WF_guvars(part = "congestion" /\ GUStep(c))

ReadersEnd        == part = "reader" /\ ReaderFair => ReaderEnds
ControlGoesOn     == part = "control" /\ ControlFair => TurnsGoOn
DecisionsComeBack == part = "congestion" /\ CongestionFair => DecisionsReturn
================================================================================
