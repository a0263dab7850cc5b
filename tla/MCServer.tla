------------------------------- MODULE MCServer -------------------------------
\* The connections of the server and, beside them, four parts that share nothing with
\* them: the monitoring's locks, and the limits, the batches and the replicas of the SQL
\* server.  One run checks them all, and the initial state chooses the one that moves.
EXTENDS Connections, HealthReports, SqlLimits, SqlBatch, SqlScaling

CONSTANTS c1, c2, f1, address

\* Two connections from one address, the second after the client has closed the first,
\* and a frame on the first.
OneAddress == [c \in Conns |-> address]
OnTheFirst == [f \in Frames |-> c1]

VARIABLE part

svvars == <<vars, hrvars, lmvars, sbvars, slvars, part>>

SVInit ==
    /\ Init /\ HRInit /\ LMInit /\ SBInit /\ SLInit
    /\ part \in {"connections", "monitoring", "limits", "batches", "replicas"}
    /\ part # "replicas" => strategy = "RoundRobin" /\ nodes = <<>>

SVNext ==
    /\ UNCHANGED part
    /\ \/ part = "connections" /\ Next /\ UNCHANGED <<hrvars, lmvars, sbvars, slvars>>
       \/ part = "monitoring" /\ HRNext /\ UNCHANGED <<vars, lmvars, sbvars, slvars>>
       \/ part = "limits" /\ LMNext /\ UNCHANGED <<vars, hrvars, sbvars, slvars>>
       \/ part = "batches" /\ SBNext /\ UNCHANGED <<vars, hrvars, lmvars, slvars>>
       \/ part = "replicas" /\ SLNext /\ UNCHANGED <<vars, hrvars, lmvars, sbvars>>

SVSpec == SVInit /\ [][SVNext]_svvars

\* The type invariants of the five.
ServerTypeOK == TypeOK /\ HRTypeOK /\ LMTypeOK /\ SBTypeOK /\ SLTypeOK
================================================================================
