---------------------------- MODULE AdaptiveBatcher ----------------------------
(***************************************************************************)
(* The adaptive batcher, batch_system/adaptive_batcher.rs, and the         *)
(* decision that the control loop takes over it,                           *)
(* AdaptiveSystemController::optimize_batch_size of integration.rs.        *)
(*                                                                         *)
(* What the models estimate is any value of its range: the root of the     *)
(* cubic, the output of the PID controller and the batch size the          *)
(* predictive controller likes best.  What they decide about the number of *)
(* workers depends on no estimate, and is computed as in the code.         *)
(***************************************************************************)
EXTENDS Integers

CONSTANTS
    MinBatch, MaxBatch, InitialBatch,   \* of BatchConfig and AdaptiveBatcherConfig
    Window,        \* how many measurements are kept (1000 in the code)
    MinSeen,       \* measurements before the first decision (10 in the code)
    MinFit,        \* measurements before the model is fitted (50 in the code)
    Optima,        \* what the model may find best
    PidSums,       \* what the terms of the PID controller may add up to
    Seconds        \* how long record_batch_execution itself may take

PidLimit   == 100
InitialWorkers == 4
UpdateEvery    == 60
Horizon    == 10

ASSUME BatcherAssumption ==
    /\ MinBatch \in Nat \ {0} /\ MaxBatch \in Nat /\ InitialBatch \in MinBatch..MaxBatch
    /\ Window \in Nat /\ MinSeen \in 0..Window /\ MinFit \in Nat
    /\ Optima \subseteq Nat /\ PidSums \subseteq Int /\ Seconds \subseteq Nat

VARIABLES
    batch,       \* current_batch_size
    workers,     \* current_workers
    seen,        \* lambdas.len()
    lastUpdate,  \* LAST_UPDATE
    fitted       \* whether model_params are estimates, not the defaults

abvars == <<batch, workers, seen, lastUpdate, fitted>>

ABInit ==
    /\ batch = InitialBatch /\ workers = InitialWorkers
    /\ seen = 0 /\ lastUpdate = 0 /\ fitted = FALSE

(***************************************************************************)
(* record_batch_execution, which the workers call.                         *)
(***************************************************************************)
\* Mutant: the oldest measurement stays.
RecordExecutionUncut ==
    /\ seen <= Window /\ seen' = seen + 1
    /\ UNCHANGED <<batch, workers, lastUpdate, fitted>>

\* update_model: the chain is run over what was measured, and its averages replace the
\* parameters.
UpdateModel(n) == fitted' = (fitted \/ n >= MinFit)

\* now_sec is the time since the call began, which is what the update depends on.  Where
\* the difference is below 0, a debug build stops the task and a release build updates.
RecordExecution ==
    /\ seen' = IF seen < Window THEN seen + 1 ELSE seen
    /\ \E s \in Seconds :
        IF s - lastUpdate \in 0..UpdateEvery - 1 THEN UNCHANGED <<lastUpdate, fitted>>
        ELSE \/ lastUpdate' = s /\ UpdateModel(seen')
             \/ s < lastUpdate /\ UNCHANGED <<lastUpdate, fitted>>
    /\ UNCHANGED <<batch, workers>>

(***************************************************************************)
(* The decision.                                                           *)
(***************************************************************************)
Least(a, b)    == IF a <= b THEN a ELSE b
Most(a, b)     == IF a >= b THEN a ELSE b
Clamped(x)     == Least(Most(x, MinBatch), MaxBatch)
Distance(a, b) == Most(a, b) - Least(a, b)

\* optimal_batch_size: the best of the cubic's roots in the range, or the optimum of the
\* model.
OptimalSizes == {Clamped(o) : o \in Optima}

\* PIDController::compute: the sum of the three terms, cut off.
PidOutputs == {Least(Most(p, -PidLimit), PidLimit) : p \in PidSums}

\* ModelPredictiveController::solve: the candidates for the batch size, any of which may
\* be the cheapest.
BatchCandidates(b) ==
    {Most(b - 64, 32), Most(b - 32, 32), b, Least(b + 32, 1024), Least(b + 64, 1024)}

\* Its candidates for the workers, in the order in which they are tried, and the part of
\* the cost that depends on them: the time in the queue at each of the steps, and half
\* a unit for each worker more or less, here in millionths.
WorkerCandidates(m) == <<Most(m - 2, 1), m, Least(m + 2, 64)>>
WorkerCost(n, m)    == Horizon * (1000 \div n) + 500000 * Distance(n, m)
CheapestWorkers(m)  ==
    LET c == WorkerCandidates(m)
        best == CHOOSE i \in 1..3 :
                    /\ \A j \in 1..3 : WorkerCost(c[i], m) <= WorkerCost(c[j], m)
                    /\ \A j \in 1..i - 1 : WorkerCost(c[i], m) < WorkerCost(c[j], m)
    IN  c[best]

\* A third of the sum, to the nearest; a sum below 0 becomes 0.
Third(x) == IF x < 0 THEN 0 ELSE (2 * x + 3) \div 6

\* Mutant: the mean of the two proposals, and then the correction.
DecideMean(optimum, correction) ==
    /\ seen >= MinSeen
    /\ \E b \in BatchCandidates(batch) :
        batch' = Clamped((optimum + b) \div 2 + correction)
    /\ workers' = CheapestWorkers(workers)
    /\ UNCHANGED <<seen, lastUpdate, fitted>>

\* optimize_batch_size with a load that it takes for a real one.
Decide(optimum, correction) ==
    /\ seen >= MinSeen
    /\ \E b \in BatchCandidates(batch) :
        batch' = Clamped(Third(optimum + correction + b))
    /\ workers' = CheapestWorkers(workers)
    /\ UNCHANGED <<seen, lastUpdate, fitted>>

ABNext == RecordExecution \/ \E o \in OptimalSizes, c \in PidOutputs : Decide(o, c)

ABSpec == ABInit /\ [][ABNext]_abvars

-----------------------------------------------------------------------------
(***************************************************************************)
(* Properties.                                                             *)
(***************************************************************************)
\* Every variable has its type, with the bounds that the code's windows and clamps give.
ABTypeOK ==
    /\ batch \in MinBatch..MaxBatch /\ workers \in 1..64 /\ seen \in 0..Window
    /\ lastUpdate \in Seconds \cup {0} /\ fitted \in BOOLEAN

\* optimize_batch_size (integration.rs:407) adds the correction to two proposals and divides
\* the sum by three: however high the load and the optimum, twice the batch size stays
\* below the maximum with the largest correction and step, and the upper part of the
\* configured range is never used.  ModelPredictiveController::solve weighs a worker more
\* or less above anything a worker can gain: its decisions never change their number.
DecisionsBounded ==
    /\ 2 * batch <= MaxBatch + PidLimit + 64 + 1 \/ batch <= InitialBatch
    /\ workers = InitialWorkers
===============================================================================
