------------------------------- MODULE SqlScaling -------------------------------
(***************************************************************************)
(* The scaling parts of the SQL server (core/sql_server/scaling): the      *)
(* ReadReplicaBalancer, which keeps the replicas and their metrics in two  *)
(* lists under two locks, and the AutoScaler, whose callers read the count *)
(* of replicas under one guard and write it under another.  Latencies and  *)
(* load are choices.                                                       *)
(***************************************************************************)
EXTENDS Integers, Sequences, FiniteSets, Filters

CONSTANTS
    Urls,
    Strategies,     \* of LoadBalancingStrategy
    MaxNodes,       \* bound: how many replicas the balancer has
    IndexPeriod,    \* bound: current_index counts up to this
    ErrorLimit,     \* the errors that a healthy node may have
    Scalers,        \* concurrent callers of check_and_scale
    MaxReplicas     \* max_replicas

ASSUME SqlScalingAssumption ==
    /\ MaxNodes \in Nat \ {0} /\ ErrorLimit \in Nat /\ MaxReplicas \in Nat \ {0}
    \* The index serves as a remainder by how many there are, which the period leaves as it is.
    /\ IndexPeriod \in Nat \ {0} /\ \A n \in 1 .. MaxNodes : IndexPeriod % n = 0

VARIABLES
    strategy,
    nodes,          \* replicas
    metrics,        \* node_metrics: url, errors and health
    index,          \* current_index, modulo the period
    editing,        \* the call that holds the guard of replicas for writing
    picked,         \* the last answer of select_replica, and how healthy it was
    replicaCount,   \* current_replicas
    scaling         \* each caller of check_and_scale: the count that it has read

slvars == <<strategy, nodes, metrics, index, editing, picked, replicaCount, scaling>>

NoEdit      == [kind |-> "none"]
NoNode      == [url |-> "none", healthy |-> TRUE]
NotScaling  == -1
NewNode(url) == [url |-> url, errors |-> 0, healthy |-> TRUE]
Metrics(urls) == [url : urls, errors : Nat, healthy : BOOLEAN]

SLInit ==
    /\ strategy \in Strategies
    /\ \E urls \in {<<>>} \cup {<<u>> : u \in Urls} :
           nodes = urls /\ metrics = [i \in DOMAIN urls |-> NewNode(urls[i])]
    /\ index = 0 /\ editing = NoEdit /\ picked = NoNode
    /\ replicaCount = 1
    /\ scaling = [k \in Scalers |-> NotScaling]

(***************************************************************************)
(* The balancer.                                                           *)
(***************************************************************************)
Healthy == {i \in DOMAIN nodes : i \in DOMAIN metrics /\ metrics[i].healthy}
NthHealthy(n) == CHOOSE i \in Healthy : Cardinality({j \in Healthy : j < i}) = n

Pick(i) == picked' = [url |-> nodes[i],
                      healthy |-> \E m \in DOMAIN metrics :
                                      metrics[m].url = nodes[i] /\ metrics[m].healthy]
PickNone == picked' = NoNode
Advance  == index' = (index + 1) % IndexPeriod

\* Mutant: the guard of the replicas ends before the metrics are edited.
EditableBetween == TRUE

\* Who selects or edits needs the guard that an edit keeps to its end.
Editable == editing = NoEdit

\* select_replica keeps the guard of the replicas while it reads the metrics.  Nothing
\* counts connections up, so the least loaded is the first of the healthy ones.
SelectReplica ==
    /\ Editable
    /\ IF nodes = <<>> \/ (strategy # "RoundRobin" /\ Healthy = {})
       THEN PickNone /\ UNCHANGED index
       ELSE CASE strategy = "RoundRobin"         -> Pick((index % Len(nodes)) + 1) /\ Advance
              [] strategy = "WeightedRoundRobin" ->
                     Pick(NthHealthy(index % Cardinality(Healthy))) /\ Advance
              [] strategy = "LeastConnections"   -> Pick(NthHealthy(0)) /\ UNCHANGED index
              [] OTHER                           ->
                     (\E i \in Healthy : Pick(i)) /\ UNCHANGED index
    /\ UNCHANGED <<strategy, nodes, metrics, editing, replicaCount, scaling>>

FirstOf(url) == CHOOSE i \in DOMAIN metrics :
                    metrics[i].url = url /\ \A j \in 1 .. i - 1 : metrics[j].url # url

\* A node's metrics after a query; what is too unhealthy already counts no further.
Counted(m, success) ==
    LET failed == IF success \/ m.errors > ErrorLimit THEN m.errors ELSE m.errors + 1
    IN  [m EXCEPT !.errors = failed, !.healthy = m.healthy /\ failed <= ErrorLimit]

\* update_node_metrics takes no guard of the replicas.
UpdateNodeMetrics(url, success) ==
    /\ \E i \in DOMAIN metrics : metrics[i].url = url
    /\ metrics' = [metrics EXCEPT ![FirstOf(url)] = Counted(@, success)]
    /\ UNCHANGED <<strategy, nodes, index, editing, picked, replicaCount, scaling>>

AddReplica(url) ==
    /\ Editable /\ Len(nodes) < MaxNodes
    /\ nodes' = Append(nodes, url)
    /\ editing' = [kind |-> "add", url |-> url]
    /\ UNCHANGED <<strategy, metrics, index, picked, replicaCount, scaling>>

RemoveReplica(url) ==
    /\ Editable
    /\ nodes' = Retain(nodes, Urls \ {url})
    /\ editing' = [kind |-> "remove", url |-> url]
    /\ UNCHANGED <<strategy, metrics, index, picked, replicaCount, scaling>>

\* The second half of both: the metrics follow.
EditMetrics ==
    /\ editing.kind # "none"
    /\ metrics' = IF editing.kind = "add" THEN Append(metrics, NewNode(editing.url))
                  ELSE Retain(metrics, Metrics(Urls \ {editing.url}))
    /\ editing' = NoEdit
    /\ UNCHANGED <<strategy, nodes, index, picked, replicaCount, scaling>>

(***************************************************************************)
(* The auto-scaler.                                                        *)
(***************************************************************************)
ReadCount(k) ==
    /\ scaling[k] = NotScaling
    /\ scaling' = [scaling EXCEPT ![k] = replicaCount]
    /\ UNCHANGED <<strategy, nodes, metrics, index, editing, picked, replicaCount>>

\* Up below the limit, down above one, or nothing, as the metrics say.
Scaled(n) == (IF n < MaxReplicas THEN {n + 1} ELSE {}) \cup (IF n > 1 THEN {n - 1} ELSE {})

CheckAndScale(k) ==
    /\ scaling[k] # NotScaling
    /\ replicaCount' \in Scaled(scaling[k]) \cup {replicaCount}
    /\ scaling' = [scaling EXCEPT ![k] = NotScaling]
    /\ UNCHANGED <<strategy, nodes, metrics, index, editing, picked>>

SetReplicaCount ==
    /\ replicaCount' \in 0 .. MaxReplicas
    /\ UNCHANGED <<strategy, nodes, metrics, index, editing, picked, scaling>>

SLNext ==
    \/ SelectReplica \/ EditMetrics \/ SetReplicaCount
    \/ \E url \in Urls : AddReplica(url) \/ RemoveReplica(url)
                             \/ \E success \in BOOLEAN : UpdateNodeMetrics(url, success)
    \/ \E k \in Scalers : ReadCount(k) \/ CheckAndScale(k)

SLSpec == SLInit /\ [][SLNext]_slvars

(***************************************************************************)
(* Properties.                                                             *)
(***************************************************************************)
\* The variables have their types; the count of the replicas stays in its limits.
SLTypeOK ==
    /\ Len(nodes) <= MaxNodes /\ index \in 0 .. IndexPeriod - 1
    /\ \A i \in DOMAIN metrics : metrics[i].errors \in 0 .. ErrorLimit + 1
    /\ replicaCount \in 0 .. MaxReplicas

\* Every strategy but the round robin answers with a replica that is healthy: the two
\* lists are edited one after the other, and the metrics in between belong to their
\* nodes by their places alone.
PickedIsHealthy == strategy # "RoundRobin" => picked.healthy
================================================================================
