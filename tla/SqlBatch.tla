------------------------------- MODULE SqlBatch -------------------------------
(***************************************************************************)
(* BatchProcessor of sql_server/server.rs: queries are gathered under a    *)
(* mutex, and the task that fills a batch, or flushes it, runs it with the *)
(* mutex in its hands: the reads together, then the writes one by one.     *)
(*                                                                         *)
(* Left out: the answers, which nobody gets: a batch only counts its       *)
(* failures.                                                               *)
(***************************************************************************)
EXTENDS Naturals, Sequences, Filters

CONSTANTS
    Queries,   \* those that tasks of their own add, each once
    Reads,     \* those of them that are SELECTs
    MaxBatch   \* max_batch_size (100)

ASSUME BatchAssumption == Reads \subseteq Queries /\ MaxBatch \in Nat \ {0}

VARIABLES
    added,   \* the queries added so far, in their order
    gathered, \* current_batch
    busy,    \* whether a task runs the batch
    ran,     \* the queries that were run, in their order
    next     \* while the batch is run: how many of it are behind

sbvars == <<added, gathered, busy, ran, next>>

SBInit == added = <<>> /\ gathered = <<>> /\ busy = FALSE /\ ran = <<>> /\ next = 0

\* add_query; the one that fills the batch runs it.
AddQuery(q) ==
    /\ q \notin Elements(added) /\ ~busy
    /\ added' = Append(added, q) /\ gathered' = Append(gathered, q)
    /\ busy' = (Len(gathered') >= MaxBatch) /\ next' = 0
    /\ UNCHANGED ran

\* force_process
Flush ==
    /\ ~busy /\ gathered # <<>>
    /\ busy' = TRUE /\ next' = 0
    /\ UNCHANGED <<added, gathered, ran>>

ReadsLeft == (Elements(gathered) \cap Reads) \ Elements(ran)

\* The reads are under way together and end in any order.
RunRead(q) ==
    /\ busy /\ q \in ReadsLeft
    /\ ran' = Append(ran, q)
    /\ UNCHANGED <<added, gathered, busy, next>>

RunWrite ==
    /\ busy /\ ReadsLeft = {} /\ next < Len(gathered)
    /\ next' = next + 1
    /\ ran' = IF gathered[next'] \in Reads THEN ran ELSE Append(ran, gathered[next'])
    /\ UNCHANGED <<added, gathered, busy>>

\* Mutant: what has been run stays in the batch.
EndBatchKept ==
    /\ busy /\ ReadsLeft = {} /\ next = Len(gathered)
    /\ busy' = FALSE /\ next' = 0 /\ UNCHANGED gathered
    /\ UNCHANGED <<added, ran>>
\* Whatever failed, the batch is cleared.
EndBatch ==
    /\ busy /\ ReadsLeft = {} /\ next = Len(gathered)
    /\ busy' = FALSE /\ gathered' = <<>> /\ next' = 0
    /\ UNCHANGED <<added, ran>>

SBNext ==
    \/ \E q \in Queries : AddQuery(q) \/ RunRead(q)
    \/ Flush \/ RunWrite \/ EndBatch

SBSpec == SBInit /\ [][SBNext]_sbvars
-----------------------------------------------------------------------------
Position(s, q) == CHOOSE i \in DOMAIN s : s[i] = q

\* The types, and a batch never has more queries than its limit.
SBTypeOK ==
    /\ added \in Seq(Queries) /\ gathered \in Seq(Queries) /\ ran \in Seq(Queries)
    /\ busy \in BOOLEAN /\ next \in 0 .. MaxBatch
    /\ Len(gathered) <= MaxBatch

\* What was added is run once, and writes are run in the order in which they were added,
\* whichever tasks added them and whichever ran the batches.
RunOnceInOrder ==
    /\ \A q \in Elements(added) \ Elements(gathered) : q \in Elements(ran)
    /\ \A i, j \in DOMAIN ran :
        i < j => /\ ran[i] # ran[j]
                 /\ {ran[i], ran[j]} \cap Reads = {}
                        => Position(added, ran[i]) < Position(added, ran[j])
=============================================================================
