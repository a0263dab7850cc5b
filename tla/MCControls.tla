------------------------------ MODULE MCControls ------------------------------
\* The QoS manager and the scaling of the pool share nothing: one run checks them
\* both, and the initial state chooses the one that moves.
EXTENDS QosManager, Scaling

CONSTANTS high1, normal1, critical1

\* A caller of three of the priorities, one permit of each class, and an adaptation
\* that gives the high class a second one.
PriorityOf == [c \in Callers |-> CASE c = high1 -> "High"
                                   [] c = normal1 -> "Normal"
                                   [] c = critical1 -> "Critical"]
OnePermit  == [cl \in Classes |-> 1]
MoreHigh   == {[OnePermit EXCEPT !["high"] = 2]}

VARIABLE part

cvars == <<qvars, svars, part>>

Qos(A)     == part = "qos" /\ A /\ UNCHANGED <<svars, part>>
Scales(A)  == part = "scaling" /\ A /\ UNCHANGED <<qvars, part>>

CInit == QInit /\ SInit /\ part \in {"qos", "scaling"}
CNext == \/ part = "qos" /\ QNext /\ UNCHANGED <<svars, part>>
         \/ part = "scaling" /\ SNext /\ UNCHANGED <<qvars, part>>

\* QFairness and SFairness, each of its part.
CFairness ==
    /\ \A c \in Callers : SF_cvars(Qos(Proceed(c))) /\ WF_cvars(Qos(Release(c)))
    /\ WF_cvars(Qos(AdaptNothing \/ \E d \in Decisions : AdaptDecide(d)))
    /\ SF_cvars(Scales(CmdStep)) /\ SF_cvars(Scales(AutoStep)) /\ SF_cvars(Scales(MonStep))

CFairSpec == CInit /\ [][CNext]_cvars /\ CFairness
===============================================================================
