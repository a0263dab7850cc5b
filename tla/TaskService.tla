----------------------------- MODULE TaskService -----------------------------
(***************************************************************************)
(* What the dispatcher promises whoever submits a task: it is refused and  *)
(* never worked on, or taken; what is taken is worked on at most once, and *)
(* then has one result, which stays until it is forgotten for good, or it  *)
(* is dropped without one.  Nothing that was refused is ever said to be    *)
(* accepted.  WorkStealingDispatcher is shown to implement this.           *)
(***************************************************************************)
CONSTANT Tasks     \* the ids that are handed out

VARIABLES
    fate,          \* what has become of each task
    accepted       \* the tasks of which the submitter has been told that they are taken

tvars == <<fate, accepted>>

Fates == {"unknown", "refused", "inside", "dropped", "done", "gone"}

TInit == fate = [t \in Tasks |-> "unknown"] /\ accepted = {}

Become(t, from, to) ==
    /\ fate[t] = from /\ fate' = [fate EXCEPT ![t] = to]
    /\ UNCHANGED accepted

Refuse(t) == Become(t, "unknown", "refused")
Take(t)   == Become(t, "unknown", "inside")
Drop(t)   == Become(t, "inside", "dropped")
Finish(t) == Become(t, "inside", "done")

\* The submitter may hear of it when the task is done, dropped or forgotten already.
Accept(t) ==
    /\ fate[t] \notin {"unknown", "refused"}
    /\ accepted' = accepted \cup {t}
    /\ UNCHANGED fate

\* Results are forgotten one by one or all together.
Forget(old) ==
    /\ fate' = [t \in Tasks |-> IF t \in old THEN "gone" ELSE fate[t]]
    /\ UNCHANGED accepted

TNext == \/ \E t \in Tasks : Refuse(t) \/ Take(t) \/ Drop(t) \/ Finish(t) \/ Accept(t)
         \/ \E old \in SUBSET {t \in Tasks : fate[t] = "done"} : Forget(old)

TSpec == TInit /\ [][TNext]_tvars
=============================================================================
