------------------------------ MODULE MCServices ------------------------------
\* Three parts that share nothing: the tasks of the batch system, the executor of the SQL
\* server and the heartbeats of sessions.  One run checks them all, and the initial state
\* chooses the one that moves.
EXTENDS SystemTasks, SqlServer, Heartbeats, TLC

CONSTANTS c1, h

\* Of the loops those that hold one lock while they wait for another, and the controller,
\* which looks at another flag.
SomeLoop == [Slots -> {"monitor", "scaler", "control"}]

VARIABLE part

mvars == <<tvars, sqvars, hvars, part>>

MInit ==
    /\ TInit /\ SQInit /\ HInit
    /\ part \in {"tasks", "queries", "heartbeats"}
    /\ part # "tasks" => \A t \in Slots : loop[t] = "monitor"

MNext ==
    /\ UNCHANGED part
    /\ \/ part = "tasks" /\ TNext /\ UNCHANGED <<sqvars, hvars>>
       \/ part = "queries" /\ SQNext /\ UNCHANGED <<tvars, hvars>>
       \/ part = "heartbeats" /\ HNext /\ UNCHANGED <<tvars, sqvars>>

MSpec == MInit /\ [][MNext]_mvars

\* The type invariants of the three.
ServicesTypeOK == TTypeOK /\ SQTypeOK /\ HTypeOK

\* The liveness properties of the three, each with the fairness of its own part.
TasksFair      == /\ \A t \in TasksOf : WF_tvars(part = "tasks" /\ TaskStep(t))
                  /\ \A t \in Slots : WF_tvars(part = "tasks" /\ Tick(t))
QueriesFair    == \A c \in Clients : WF_sqvars(part = "queries" /\ SQStep(c))
HeartbeatsFair == /\ WF_hvars(part = "heartbeats" /\ Pass)
                  /\ \A w \in Workers : WF_hvars(part = "heartbeats" /\ Work(w))

TasksWindDown    == part = "tasks" /\ TasksFair => LoopsWindDown
QueriesComeBack  == part = "queries" /\ QueriesFair => QueriesReturn
SilenceIsNoticed == part = "heartbeats" /\ HeartbeatsFair => SilentAreForgotten
================================================================================
