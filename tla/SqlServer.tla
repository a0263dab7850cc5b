------------------------------ MODULE SqlServer ------------------------------
(***************************************************************************)
(* The way of a query: QueryExecutor of sql_server/executor.rs, whose one  *)
(* mutex holds the registered SqlServer and is kept for as long as a query *)
(* takes; execute_query of server.rs; and the two levels of its query      *)
(* cache, orm/cache.rs, here for one SELECT.                               *)
(*                                                                         *)
(* The database is external: a query it is given comes to an end, well or  *)
(* not.  Left out: the answers, the metrics and which pool is asked.       *)
(***************************************************************************)
EXTENDS Naturals, Sequences, Filters

CONSTANTS
    Clients,    \* the tasks that may have a call of the executor under way
    Impatient   \* those that give up after a while, as the database's health check does

ASSUME ClientsAssumption == Impatient \subseteq Clients

VARIABLES
    present,   \* whether a server is registered
    desk,      \* the calls that have or await the executor's mutex, which is fair
    stage,     \* how far the call of each client has come
    task,      \* what it is to do
    near,      \* whether the answer is in the first level of the cache
    kept       \* the answer in the second: none, or one whose 300 s are over or not

answer == <<near, kept>>
sqvars == <<present, desk, stage, task, answer>>

SQInit ==
    /\ present = FALSE /\ desk = <<>>
    /\ stage = [c \in Clients |-> "idle"] /\ task = [c \in Clients |-> "none"]
    /\ near = FALSE /\ kept = "none"

Tasks == {"select", "other", "status", "register", "unregister"}

\* execute_query, execute_batch, get_status, register_server and unregister_server.
Ask(c, t) ==
    /\ stage[c] = "idle"
    /\ stage' = [stage EXCEPT ![c] = "queue"] /\ task' = [task EXCEPT ![c] = t]
    /\ desk' = Append(desk, c)
    /\ UNCHANGED <<present, answer>>

Served(c, s) == desk # <<>> /\ Head(desk) = c /\ stage[c] = s
Leave(c) ==
    /\ stage' = [stage EXCEPT ![c] = "idle"] /\ task' = [task EXCEPT ![c] = "none"]
    /\ desk' = Tail(desk)
MoveTo(c, s) == stage' = [stage EXCEPT ![c] = s] /\ UNCHANGED <<desk, task>>

Register(c) ==
    /\ Served(c, "queue") /\ task[c] \in {"register", "unregister"}
    /\ present' = (task[c] = "register") /\ Leave(c)
    \* A server brings its own cache.
    /\ near' = FALSE /\ kept' = "none"

\* Mutant: get_status asks is_server_registered while it has the mutex, and waits for itself.
EnterTwice(c) ==
    /\ Served(c, "queue") /\ task[c] \in {"select", "other"}
    /\ \/ Leave(c)
       \/ present /\ MoveTo(c, IF task[c] = "select" THEN "lookup" ELSE "database")
    /\ UNCHANGED <<present, answer>>
\* What does not pass the validation is refused.
Enter(c) ==
    /\ Served(c, "queue") /\ task[c] \in {"select", "other", "status"}
    /\ \/ Leave(c)
       \/ present /\ MoveTo(c, IF task[c] = "select" THEN "lookup" ELSE "database")
    /\ UNCHANGED <<present, answer>>

\* One reading of the clock serves both levels.  An answer that is too old is removed from
\* the second while it is still borrowed from there, which waits for itself.
LookUp(c) ==
    /\ Served(c, "lookup") /\ UNCHANGED <<present, kept>>
    /\ CASE kept = "none"  -> UNCHANGED near /\ MoveTo(c, "database")
         [] kept = "fresh" -> near' = TRUE /\ Leave(c)
         [] kept = "old"   -> near' = FALSE /\ MoveTo(c, "hung")

\* Only what a SELECT fetched is kept.
Fetched(c) ==
    /\ Served(c, "database") /\ Leave(c)
    /\ IF task[c] = "select" THEN near' = TRUE /\ kept' = "fresh" ELSE UNCHANGED answer
    /\ UNCHANGED present

DatabaseFails(c) ==
    /\ Served(c, "database") /\ Leave(c)
    /\ UNCHANGED <<present, answer>>

\* The call is dropped where it waits, and the mutex with it.
GiveUp(c) ==
    /\ c \in Impatient /\ stage[c] \in {"queue", "lookup", "database"}
    /\ stage' = [stage EXCEPT ![c] = "idle"] /\ task' = [task EXCEPT ![c] = "none"]
    /\ desk' = Retain(desk, Clients \ {c})
    /\ UNCHANGED <<present, answer>>

\* Nobody calls clear_expired: what is too old stays.
GrowOld == kept = "fresh" /\ kept' = "old" /\ UNCHANGED <<present, desk, stage, task, near>>
\* The first level is full of other answers.
Evict == near /\ near' = FALSE /\ UNCHANGED <<present, desk, stage, task, kept>>

SQStep(c) == Register(c) \/ Enter(c) \/ LookUp(c) \/ Fetched(c) \/ DatabaseFails(c)

SQNext ==
    \/ \E c \in Clients : SQStep(c) \/ GiveUp(c) \/ \E t \in Tasks : Ask(c, t)
    \/ GrowOld \/ Evict

\* A call goes on whenever it can, and the database answers.
SQFairSpec == SQInit /\ [][SQNext]_sqvars /\ \A c \in Clients : WF_sqvars(SQStep(c))
-----------------------------------------------------------------------------
\* The types, every call in progress has its place at the desk, and what the first level
\* has the second has too.
SQTypeOK ==
    /\ present \in BOOLEAN /\ near \in BOOLEAN /\ kept \in {"none", "fresh", "old"}
    /\ stage \in [Clients -> {"idle", "queue", "lookup", "database", "hung"}]
    /\ task \in [Clients -> Tasks \cup {"none"}]
    /\ \A c \in Clients : (stage[c] # "idle") <=> (\E i \in DOMAIN desk : desk[i] = c)
    /\ near => kept # "none"
    /\ ~present => kept = "none"

\* Every call of the executor returns, however the others fare, as long as nobody asks for
\* an answer whose time is over: the removal of that one never ends, and no other call
\* gets the mutex again.
QueriesReturn ==
    \A c \in Clients :
        stage[c] # "idle" ~> (stage[c] = "idle" \/ \E d \in Clients : stage[d] = "hung")
=============================================================================
