------------------------- MODULE CircuitBreakerProofs -------------------------
(***************************************************************************)
(* What holds of the breaker for any number of callers, any threshold and  *)
(* any number of half-open successes.                                      *)
(***************************************************************************)
EXTENDS CircuitBreaker, TLAPS

USE DEF Goto, gauges, locals, vars

\* UpTo stays within its bound, and is positive when the bound is.
LEMMA UpToBound ==
    ASSUME NEW max \in Nat, NEW n \in 0 .. max
    PROVE  /\ UpTo(n, max) \in 0 .. max
           /\ max > 0 => UpTo(n, max) > 0
  BY DEF UpTo

\* An answer leads a caller to one of three steps, none of which holds a lock.
LEMMA AnswerSteps ==
    ASSUME TypeOK, NEW c \in Callers, NEW b \in BOOLEAN, Answer(c, b)
    PROVE  \E s \in {"idle", "admitted", "must_fail"} :
              pc' = [pc EXCEPT ![c] = s]
  BY DEF Answer

\* Every field keeps its type in every step.  That the successes of HalfOpen
\* do not pass their bound needs that they are below it when a call counts one.
LEMMA TypeStep == TypeOK /\ ProbesNeverRejected /\ [Next]_vars => TypeOK'
  <1> SUFFICES ASSUME TypeOK, ProbesNeverRejected, [Next]_vars PROVE TypeOK'
    OBVIOUS
  <1> USE BreakerAssumption DEF BreakerAssumption
  <1>0. "idle" \in Steps /\ "admitted" \in Steps /\ "must_fail" \in Steps
    BY DEF Steps
  <1>1. CASE UNCHANGED vars
    BY <1>1 DEF TypeOK
  <1>2. CASE Tick
    BY <1>2 DEF TypeOK, Tick
  <1>3. ASSUME NEW c \in Callers, AllowRead(c) \/ AllowRequest(c) PROVE TypeOK'
    <2>1. CASE AllowRead(c)
      BY <1>3, <2>1 DEF TypeOK, AllowRead, Steps, AllowSteps
    <2>2. CASE AllowCount(c)
      BY <1>0, <1>3, <2>2, AnswerSteps DEF TypeOK, AllowCount, Steps, AllowSteps
    <2>3. CASE AllowRecover(c)
      BY <1>0, <1>3, <2>3, AnswerSteps DEF TypeOK, AllowRecover, Steps, AllowSteps
    <2>4. CASE AllowDelay(c)
      BY <1>0, <1>3, <2>4, AnswerSteps DEF TypeOK, AllowDelay, Steps, AllowSteps
    <2>5. CASE AllowHalfOpen(c)
      <3>1. \E s \in {"idle", "admitted", "must_fail"} : pc' = [pc EXCEPT ![c] = s]
        BY <1>3, <2>5 DEF AllowHalfOpen, Answer
      <3> QED
        BY <1>0, <1>3, <2>5, <3>1 DEF TypeOK, AllowHalfOpen, States
    <2>6. CASE AllowProbe(c)
      <3>1. \E s \in {"idle", "admitted", "must_fail"} : pc' = [pc EXCEPT ![c] = s]
        BY <1>3, <2>6 DEF AllowProbe, Answer
      <3> QED
        BY <1>0, <1>3, <2>6, <3>1 DEF TypeOK, AllowProbe
    <2> QED
      BY <1>3, <2>1, <2>2, <2>3, <2>4, <2>5, <2>6 DEF AllowRequest
  <1>4. ASSUME NEW c \in Callers, GiveUp(c) \/ SuccessStep(c) PROVE TypeOK'
    <2>1. CASE RecordSuccess(c)
      <3>1. probes < HalfOpenMax
        BY <2>1 DEF RecordSuccess, ProbesNeverRejected, Free, HoldsState, HoldsProbes
      <3> QED
        BY <1>0, <1>4, <2>1, <3>1 DEF TypeOK, RecordSuccess, States, Steps, HoldsState
    <2>2. CASE GiveUp(c) \/ OkCount(c) \/ CloseCount(c)
      BY <1>0, <1>4, <2>2 DEF TypeOK, GiveUp, OkCount, CloseCount, Steps, HoldsState
    <2>3. CASE CloseFailure(c)
      BY <1>0, <1>4, <2>3 DEF TypeOK, CloseFailure, Steps, HoldsState
    <2>4. CASE CloseDelay(c)
      BY <1>0, <1>4, <2>4 DEF TypeOK, CloseDelay
    <2> QED
      BY <1>4, <2>1, <2>2, <2>3, <2>4 DEF SuccessStep
  <1>5. ASSUME NEW c \in Callers, FailureStep(c) PROVE TypeOK'
    <2>1. CASE RecordFailure(c)
      BY <1>5, <2>1, UpToBound DEF TypeOK, RecordFailure, Steps, HoldsFailures
    <2>2. CASE FailStamp(c)
      BY <1>5, <2>2 DEF TypeOK, FailStamp, Steps, HoldsFailures
    <2>3. CASE FailRead(c)
      BY <1>5, <2>3 DEF TypeOK, FailRead, Steps, HoldsFailures
    <2>4. CASE FailOpen(c)
      BY <1>5, <2>4 DEF TypeOK, FailOpen, Steps, HoldsFailures, States
    <2>5. CASE FailDelay(c)
      BY <1>0, <1>5, <2>5, UpToBound DEF TypeOK, FailDelay
    <2> QED
      BY <1>5, <2>1, <2>2, <2>3, <2>4, <2>5 DEF FailureStep
  <1>6. ASSUME NEW c \in Callers, ResetStep(c) \/ Reset(c) PROVE TypeOK'
    BY <1>0, <1>6 DEF TypeOK, ResetStep, Reset, ResetCount, ResetFailure, ResetProbes,
       ResetDelay, States, Steps
  <1>7. ASSUME NEW c \in Callers, ControllerStep(c) \/ ControllerRetry(c) PROVE TypeOK'
    BY <1>0, <1>7 DEF TypeOK, ControllerStep, ControllerLook, ControllerFailure,
       ControllerRetry, Steps
  <1> QED
    BY <1>1, <1>2, <1>3, <1>4, <1>5, <1>6, <1>7 DEF Next, CallerStep, Proceed

\* The count of half-open successes can only be seen below its bound: the call
\* that reaches the bound keeps it locked until it is 0 again.
LEMMA ProbesStep ==
    TypeOK /\ ProbesNeverRejected /\ [Next]_vars => ProbesNeverRejected'
  <1> SUFFICES ASSUME TypeOK, ProbesNeverRejected, [Next]_vars
               PROVE  ProbesNeverRejected'
    OBVIOUS
  <1> USE BreakerAssumption DEF BreakerAssumption
  <1> USE DEF TypeOK, ProbesNeverRejected, Free, HoldsProbes
  <1>1. CASE UNCHANGED vars \/ Tick
    BY <1>1 DEF Tick
  <1>2. ASSUME NEW c \in Callers, AllowRead(c) \/ AllowRequest(c)
        PROVE  ProbesNeverRejected'
    <2>1. CASE AllowRead(c)
      BY <1>2, <2>1 DEF AllowRead
    <2>2. CASE AllowHalfOpen(c)
      BY <1>2, <2>2 DEF AllowHalfOpen
    <2>3. ASSUME probes' = probes, pc[c] \in AllowSteps,
                 \A d \in Callers \ {c} : pc'[d] = pc[d]
          PROVE  ProbesNeverRejected'
      BY <1>2, <2>3 DEF AllowSteps
    <2>4. CASE AllowCount(c) \/ AllowProbe(c)
      BY <1>2, <2>3, <2>4 DEF AllowCount, AllowProbe, Answer, AllowSteps
    <2>5. CASE AllowRecover(c) \/ AllowDelay(c)
      BY <1>2, <2>3, <2>5 DEF AllowRecover, AllowDelay, Answer, AllowSteps
    <2> QED
      BY <1>2, <2>1, <2>2, <2>4, <2>5 DEF AllowRequest
  <1>3. ASSUME NEW c \in Callers, GiveUp(c) \/ SuccessStep(c)
        PROVE  ProbesNeverRejected'
    <2>1. CASE RecordSuccess(c)
      BY <1>3, <2>1 DEF RecordSuccess
    <2>2. CASE GiveUp(c) \/ OkCount(c)
      BY <1>3, <2>2 DEF GiveUp, OkCount
    <2>3. CASE CloseCount(c) \/ CloseFailure(c)
      BY <1>3, <2>3 DEF CloseCount, CloseFailure
    <2>4. CASE CloseDelay(c)
      BY <1>3, <2>4 DEF CloseDelay
    <2> QED
      BY <1>3, <2>1, <2>2, <2>3, <2>4 DEF SuccessStep
  <1>4. ASSUME NEW c \in Callers, FailureStep(c) PROVE ProbesNeverRejected'
    <2>1. CASE RecordFailure(c) \/ FailStamp(c) \/ FailDelay(c)
      BY <1>4, <2>1 DEF RecordFailure, FailStamp, FailDelay
    <2>2. CASE FailRead(c)
      BY <1>4, <2>2 DEF FailRead
    <2>3. CASE FailOpen(c)
      BY <1>4, <2>3 DEF FailOpen
    <2> QED
      BY <1>4, <2>1, <2>2, <2>3 DEF FailureStep
  <1>5. ASSUME NEW c \in Callers, ResetStep(c) \/ Reset(c) PROVE ProbesNeverRejected'
    BY <1>5 DEF ResetStep, Reset, ResetCount, ResetFailure, ResetProbes, ResetDelay
  <1>6. ASSUME NEW c \in Callers, ControllerStep(c) \/ ControllerRetry(c)
        PROVE  ProbesNeverRejected'
    BY <1>6 DEF ControllerStep, ControllerLook, ControllerFailure, ControllerRetry
  <1> QED
    BY <1>1, <1>2, <1>3, <1>4, <1>5, <1>6 DEF Next, CallerStep, Proceed

\* Type correctness, and the fact it rests on: no probe is ever turned away by
\* half_open_max_requests.
THEOREM TypeCorrect == Spec => [](TypeOK /\ ProbesNeverRejected)
  <1>1. Init => TypeOK /\ ProbesNeverRejected
    BY BreakerAssumption
    DEF BreakerAssumption, Init, TypeOK, ProbesNeverRejected, States, Steps
  <1> QED
    BY <1>1, TypeStep, ProbesStep, PTL DEF Spec

-----------------------------------------------------------------------------
(***************************************************************************)
(* What a caller that holds the state knows of it.                         *)
(***************************************************************************)
Closers == {"ok_count", "close_count", "close_failure", "close_delay"}

HolderKnowsState ==
    \A c \in Callers : /\ pc[c] \in Closers => state = "Closed"
                       /\ pc[c] = "fail_delay" => state = "Open"

\* Nobody changes the state while another caller holds it.
LEMMA HolderStep == TypeOK /\ HolderKnowsState /\ [Next]_vars => HolderKnowsState'
  <1> SUFFICES ASSUME TypeOK, HolderKnowsState, [Next]_vars PROVE HolderKnowsState'
    OBVIOUS
  <1> USE DEF TypeOK, HolderKnowsState, Free, HoldsState, Closers
  <1>1. CASE UNCHANGED vars \/ Tick
    BY <1>1 DEF Tick
  <1>2. ASSUME NEW c \in Callers, AllowRead(c) \/ AllowRequest(c)
        PROVE  HolderKnowsState'
    <2>1. CASE AllowRead(c)
      BY <1>2, <2>1 DEF AllowRead
    <2>2. CASE AllowHalfOpen(c)
      BY <1>2, <2>2 DEF AllowHalfOpen, Answer
    <2>3. CASE AllowCount(c) \/ AllowProbe(c)
      BY <1>2, <2>3 DEF AllowCount, AllowProbe, Answer
    <2>4. CASE AllowRecover(c) \/ AllowDelay(c)
      BY <1>2, <2>4 DEF AllowRecover, AllowDelay, Answer
    <2> QED
      BY <1>2, <2>1, <2>2, <2>3, <2>4 DEF AllowRequest
  <1>3. ASSUME NEW c \in Callers, GiveUp(c) \/ SuccessStep(c) PROVE HolderKnowsState'
    BY <1>3 DEF GiveUp, SuccessStep, RecordSuccess, OkCount, CloseCount, CloseFailure,
       CloseDelay
  <1>4. ASSUME NEW c \in Callers, FailureStep(c) PROVE HolderKnowsState'
    BY <1>4 DEF FailureStep, RecordFailure, FailStamp, FailRead, FailOpen, FailDelay
  <1>5. ASSUME NEW c \in Callers, ResetStep(c) \/ Reset(c) PROVE HolderKnowsState'
    BY <1>5 DEF ResetStep, Reset, ResetCount, ResetFailure, ResetProbes, ResetDelay
  <1>6. ASSUME NEW c \in Callers, ControllerStep(c) \/ ControllerRetry(c)
        PROVE  HolderKnowsState'
    BY <1>6 DEF ControllerStep, ControllerLook, ControllerFailure, ControllerRetry
  <1> QED
    BY <1>1, <1>2, <1>3, <1>4, <1>5, <1>6 DEF Next, CallerStep, Proceed

\* The failure count of a Closed breaker is below the threshold whenever no
\* call is between a change of the count and the change of state it calls for.
LEMMA ClosedStep ==
    TypeOK /\ HolderKnowsState /\ ClosedBelowThreshold /\ [Next]_vars
        => ClosedBelowThreshold'
  <1> SUFFICES ASSUME TypeOK, HolderKnowsState, ClosedBelowThreshold, [Next]_vars
               PROVE  ClosedBelowThreshold'
    OBVIOUS
  <1> USE BreakerAssumption DEF BreakerAssumption
  <1> USE DEF TypeOK, ClosedBelowThreshold, Free, HoldsFailures
  <1>1. CASE UNCHANGED vars \/ Tick
    BY <1>1 DEF Tick
  <1>2. ASSUME NEW c \in Callers, AllowRead(c) \/ AllowRequest(c)
        PROVE  ClosedBelowThreshold'
    <2>1. CASE AllowRead(c)
      BY <1>2, <2>1 DEF AllowRead
    <2>2. CASE AllowHalfOpen(c)
      BY <1>2, <2>2 DEF AllowHalfOpen
    <2>3. CASE AllowCount(c) \/ AllowProbe(c)
      BY <1>2, <2>3 DEF AllowCount, AllowProbe, Answer
    <2>4. CASE AllowRecover(c) \/ AllowDelay(c)
      BY <1>2, <2>4 DEF AllowRecover, AllowDelay, Answer
    <2> QED
      BY <1>2, <2>1, <2>2, <2>3, <2>4 DEF AllowRequest
  <1>3. ASSUME NEW c \in Callers, GiveUp(c) \/ SuccessStep(c)
        PROVE  ClosedBelowThreshold'
    <2>1. CASE RecordSuccess(c)
      BY <1>3, <2>1 DEF RecordSuccess
    <2>2. CASE OkCount(c) \/ CloseCount(c)
      BY <1>3, <2>2 DEF OkCount, CloseCount
    <2>3. CASE GiveUp(c) \/ CloseFailure(c) \/ CloseDelay(c)
      BY <1>3, <2>3 DEF GiveUp, CloseFailure, CloseDelay
    <2> QED
      BY <1>3, <2>1, <2>2, <2>3 DEF SuccessStep
  <1>4. ASSUME NEW c \in Callers, FailureStep(c) PROVE ClosedBelowThreshold'
    <2>1. CASE RecordFailure(c) \/ FailStamp(c)
      BY <1>4, <2>1 DEF RecordFailure, FailStamp
    <2>2. CASE FailRead(c)
      BY <1>4, <2>2 DEF FailRead
    <2>3. CASE FailOpen(c)
      BY <1>4, <2>3 DEF FailOpen
    <2>4. CASE FailDelay(c)
      BY <1>4, <2>4 DEF FailDelay, HolderKnowsState
    <2> QED
      BY <1>4, <2>1, <2>2, <2>3, <2>4 DEF FailureStep
  <1>5. ASSUME NEW c \in Callers, ResetStep(c) \/ Reset(c) PROVE ClosedBelowThreshold'
    BY <1>5 DEF ResetStep, Reset, ResetCount, ResetFailure, ResetProbes, ResetDelay
  <1>6. ASSUME NEW c \in Callers, ControllerStep(c) \/ ControllerRetry(c)
        PROVE  ClosedBelowThreshold'
    BY <1>6 DEF ControllerStep, ControllerLook, ControllerFailure, ControllerRetry
  <1> QED
    BY <1>1, <1>2, <1>3, <1>4, <1>5, <1>6 DEF Next, CallerStep, Proceed

\* No interleaving of calls, resets included, leaves the breaker Closed with
\* a count of failures that should have opened it.
THEOREM ClosedIsBelowThreshold == Spec => []ClosedBelowThreshold
  <1>1. Init => HolderKnowsState /\ ClosedBelowThreshold
    BY BreakerAssumption
    DEF BreakerAssumption, Init, HolderKnowsState, ClosedBelowThreshold, Closers
  <1> QED
    BY <1>1, TypeCorrect, HolderStep, ClosedStep, PTL DEF Spec

-----------------------------------------------------------------------------
(***************************************************************************)
(* A breaker that nobody resets.                                           *)
(***************************************************************************)
NoReset == Resetters = {}

\* Without resets a failure that is about to open the breaker finds it above
\* the threshold or not Closed, unless the caller that closes it is still at
\* work; and that caller has not yet cleared the count of failures, because
\* the failure holds it.
OpenerIsRight ==
    \A c \in Callers : pc[c] = "fail_open" =>
        /\ \A d \in Callers : pc[d] \notin {"close_failure", "close_delay"}
        /\ failures >= Threshold \/ state # "Closed" \/ ~Free(HoldsState)

NobodyResets ==
    \A c \in Callers : pc[c] \notin {"reset_count", "reset_failure", "reset_probes",
                                    "reset_delay"}

\* Nobody begins or continues a reset when there is nobody to do it.
LEMMA NobodyResetsStep ==
    ASSUME NoReset
    PROVE  TypeOK /\ NobodyResets /\ [Next]_vars => NobodyResets'
  <1> SUFFICES ASSUME TypeOK, NobodyResets, [Next]_vars PROVE NobodyResets'
    OBVIOUS
  <1> USE NoReset DEF NoReset, TypeOK, NobodyResets
  <1>1. CASE UNCHANGED vars \/ Tick
    BY <1>1 DEF Tick
  <1>2. ASSUME NEW c \in Callers, AllowRead(c) \/ AllowRequest(c) PROVE NobodyResets'
    BY <1>2 DEF AllowRead, AllowRequest, AllowCount, AllowRecover, AllowDelay,
       AllowHalfOpen, AllowProbe, Answer
  <1>3. ASSUME NEW c \in Callers, GiveUp(c) \/ SuccessStep(c) PROVE NobodyResets'
    BY <1>3 DEF GiveUp, SuccessStep, RecordSuccess, OkCount, CloseCount, CloseFailure,
       CloseDelay
  <1>4. ASSUME NEW c \in Callers, FailureStep(c) PROVE NobodyResets'
    BY <1>4 DEF FailureStep, RecordFailure, FailStamp, FailRead, FailOpen, FailDelay
  <1>5. ASSUME NEW c \in Callers, ResetStep(c) \/ Reset(c) PROVE NobodyResets'
    BY <1>5 DEF ResetStep, Reset, ResetCount, ResetFailure, ResetProbes, ResetDelay
  <1>6. ASSUME NEW c \in Callers, ControllerStep(c) \/ ControllerRetry(c)
        PROVE  NobodyResets'
    BY <1>6 DEF ControllerStep, ControllerLook, ControllerFailure, ControllerRetry
  <1> QED
    BY <1>1, <1>2, <1>3, <1>4, <1>5, <1>6 DEF Next, CallerStep, Proceed

\* The count a failure decided on stays as it is while the failure holds it,
\* and nobody can close the breaker between the decision and the opening.
LEMMA OpenerStep ==
    ASSUME NoReset
    PROVE  TypeOK /\ HolderKnowsState /\ NobodyResets /\ OpenerIsRight /\ [Next]_vars
               => OpenerIsRight'
  <1> SUFFICES ASSUME TypeOK, HolderKnowsState, NobodyResets, OpenerIsRight, [Next]_vars
               PROVE  OpenerIsRight'
    OBVIOUS
  <1> USE NoReset DEF NoReset
  <1> USE DEF TypeOK, OpenerIsRight, Free, HoldsState, HoldsFailures
  <1>1. CASE UNCHANGED vars \/ Tick
    BY <1>1 DEF Tick
  <1>2. ASSUME NEW c \in Callers, AllowRead(c) \/ AllowRequest(c) PROVE OpenerIsRight'
    <2>1. CASE AllowRead(c)
      BY <1>2, <2>1 DEF AllowRead
    <2>2. CASE AllowHalfOpen(c)
      BY <1>2, <2>2 DEF AllowHalfOpen, Answer
    <2>3. CASE AllowCount(c) \/ AllowProbe(c)
      BY <1>2, <2>3 DEF AllowCount, AllowProbe, Answer
    <2>4. CASE AllowRecover(c) \/ AllowDelay(c)
      BY <1>2, <2>4 DEF AllowRecover, AllowDelay, Answer
    <2> QED
      BY <1>2, <2>1, <2>2, <2>3, <2>4 DEF AllowRequest
  <1>3. ASSUME NEW c \in Callers, GiveUp(c) \/ SuccessStep(c) PROVE OpenerIsRight'
    <2>1. CASE RecordSuccess(c)
      BY <1>3, <2>1 DEF RecordSuccess
    <2>2. CASE OkCount(c) \/ CloseCount(c)
      BY <1>3, <2>2 DEF OkCount, CloseCount
    <2>3. CASE GiveUp(c) \/ CloseFailure(c) \/ CloseDelay(c)
      BY <1>3, <2>3 DEF GiveUp, CloseFailure, CloseDelay
    <2> QED
      BY <1>3, <2>1, <2>2, <2>3 DEF SuccessStep
  <1>4. ASSUME NEW c \in Callers, FailureStep(c) PROVE OpenerIsRight'
    <2>1. CASE RecordFailure(c) \/ FailStamp(c)
      BY <1>4, <2>1 DEF RecordFailure, FailStamp
    <2>2. CASE FailRead(c)
      BY <1>4, <2>2 DEF FailRead
    <2>3. CASE FailOpen(c)
      BY <1>4, <2>3 DEF FailOpen
    <2>4. CASE FailDelay(c)
      BY <1>4, <2>4 DEF FailDelay, HolderKnowsState
    <2> QED
      BY <1>4, <2>1, <2>2, <2>3, <2>4 DEF FailureStep
  <1>5. ASSUME NEW c \in Callers, ResetStep(c) \/ Reset(c) PROVE OpenerIsRight'
    BY <1>5 DEF ResetStep, Reset, NobodyResets, ResetCount, ResetFailure, ResetProbes, ResetDelay
  <1>6. ASSUME NEW c \in Callers, ControllerStep(c) \/ ControllerRetry(c)
        PROVE  OpenerIsRight'
    BY <1>6 DEF ControllerStep, ControllerLook, ControllerFailure, ControllerRetry
  <1> QED
    BY <1>1, <1>2, <1>3, <1>4, <1>5, <1>6 DEF Next, CallerStep, Proceed

\* Only a caller that has closed the breaker, or a reset, sets the number of
\* recovery attempts back to 0; an opening always adds one.
LEMMA BackedOffStep ==
    ASSUME NoReset
    PROVE  TypeOK /\ HolderKnowsState /\ NobodyResets /\ OpenBackedOff /\ [Next]_vars
               => OpenBackedOff'
  <1> SUFFICES ASSUME TypeOK, HolderKnowsState, NobodyResets, OpenBackedOff, [Next]_vars
               PROVE  OpenBackedOff'
    OBVIOUS
  <1> USE BreakerAssumption DEF BreakerAssumption
  <1> USE NoReset DEF NoReset
  <1> USE DEF TypeOK, OpenBackedOff, HolderKnowsState, Closers, Free, HoldsState
  <1>1. CASE UNCHANGED vars \/ Tick
    BY <1>1 DEF Tick
  <1>2. ASSUME NEW c \in Callers, AllowRead(c) \/ AllowRequest(c) PROVE OpenBackedOff'
    <2>1. CASE AllowRead(c)
      BY <1>2, <2>1 DEF AllowRead
    <2>2. CASE AllowHalfOpen(c)
      BY <1>2, <2>2 DEF AllowHalfOpen
    <2>3. CASE AllowCount(c) \/ AllowProbe(c)
      BY <1>2, <2>3 DEF AllowCount, AllowProbe, Answer
    <2>4. CASE AllowRecover(c) \/ AllowDelay(c)
      BY <1>2, <2>4 DEF AllowRecover, AllowDelay, Answer
    <2> QED
      BY <1>2, <2>1, <2>2, <2>3, <2>4 DEF AllowRequest
  <1>3. ASSUME NEW c \in Callers, GiveUp(c) \/ SuccessStep(c) PROVE OpenBackedOff'
    <2>1. CASE RecordSuccess(c)
      BY <1>3, <2>1 DEF RecordSuccess
    <2>2. CASE OkCount(c) \/ CloseCount(c)
      BY <1>3, <2>2 DEF OkCount, CloseCount
    <2>3. CASE GiveUp(c) \/ CloseFailure(c) \/ CloseDelay(c)
      BY <1>3, <2>3 DEF GiveUp, CloseFailure, CloseDelay
    <2> QED
      BY <1>3, <2>1, <2>2, <2>3 DEF SuccessStep
  <1>4. ASSUME NEW c \in Callers, FailureStep(c) PROVE OpenBackedOff'
    <2>1. CASE RecordFailure(c) \/ FailStamp(c) \/ FailRead(c)
      BY <1>4, <2>1 DEF RecordFailure, FailStamp, FailRead
    <2>2. CASE FailOpen(c)
      BY <1>4, <2>2 DEF FailOpen
    <2>3. CASE FailDelay(c)
      BY <1>4, <2>3, UpToBound DEF FailDelay
    <2> QED
      BY <1>4, <2>1, <2>2, <2>3 DEF FailureStep
  <1>5. ASSUME NEW c \in Callers, ResetStep(c) \/ Reset(c) PROVE OpenBackedOff'
    BY <1>5 DEF ResetStep, Reset, NobodyResets, ResetCount, ResetFailure, ResetProbes,
       ResetDelay
  <1>6. ASSUME NEW c \in Callers, ControllerStep(c) \/ ControllerRetry(c)
        PROVE  OpenBackedOff'
    BY <1>6 DEF ControllerStep, ControllerLook, ControllerFailure, ControllerRetry
  <1> QED
    BY <1>1, <1>2, <1>3, <1>4, <1>5, <1>6 DEF Next, CallerStep, Proceed

\* Every initial state satisfies what the steps preserve.
LEMMA NoResetInit ==
    Init => HolderKnowsState /\ NobodyResets /\ OpenerIsRight /\ OpenBackedOff
  BY DEF Init, HolderKnowsState, NobodyResets, OpenerIsRight, OpenBackedOff, Closers

\* Without resets an Open breaker at rest waits for a delay that next_delay
\* computed, whatever stale transitions there were.
THEOREM OpenHasBackedOff == ASSUME NoReset PROVE Spec => []OpenBackedOff
  BY NoReset, NoResetInit, TypeCorrect, HolderStep, NobodyResetsStep, BackedOffStep,
     PTL DEF Spec

\* Without resets only a count of failures that has reached the threshold
\* takes the breaker from Closed to Open.
THEOREM OpensAtThreshold == ASSUME NoReset PROVE Spec => OpensOnlyAtThreshold
  <1>1. TypeOK /\ OpenerIsRight /\ HolderKnowsState /\ [Next]_vars
            => [state = "Closed" /\ state' = "Open" => failures >= Threshold]_vars
    <2> SUFFICES ASSUME TypeOK, OpenerIsRight, HolderKnowsState, Next,
                        state = "Closed", state' = "Open"
                 PROVE  failures >= Threshold
      OBVIOUS
    <2>1. PICK c \in Callers : FailOpen(c)
      BY DEF Next, CallerStep, Proceed, Tick, AllowRead, AllowRequest, AllowCount,
         AllowRecover, AllowDelay, AllowHalfOpen, AllowProbe, GiveUp, SuccessStep,
         RecordSuccess, OkCount, CloseCount, CloseFailure, CloseDelay, FailureStep,
         RecordFailure, FailStamp, FailRead, FailDelay, ResetStep, Reset, ResetCount,
         ResetFailure, ResetProbes, ResetDelay, ControllerStep, ControllerLook,
         ControllerFailure, ControllerRetry
    <2> QED
      BY <2>1 DEF FailOpen, OpenerIsRight
  <1> QED
    BY <1>1, NoReset, NoResetInit, TypeCorrect, HolderStep, NobodyResetsStep, OpenerStep,
       PTL DEF Spec, OpensOnlyAtThreshold

-----------------------------------------------------------------------------
(***************************************************************************)
(* The locks.  Who has last_failure wants the recovery model; who has the  *)
(* state and not yet the failure count wants that, or last_failure, or the *)
(* recovery model; who has the failure count wants last_failure, and then  *)
(* the state, unless it crosses with one of those; and who has the total   *)
(* wants the state or the count of the successes.                          *)
(***************************************************************************)
\* If there is somebody at a step past which nothing is kept locked, somebody goes on.
LEMMA FreeAt ==
    ASSUME NEW steps, ~Free(steps)
    PROVE  \E c \in Callers : pc[c] \in steps
  BY DEF Free

LEMMA SomebodyGoesOn ==
    ASSUME NoCrossedLocks, RecoveryFree, NEW c \in Callers, pc[c] # "idle"
    PROVE  \E d \in Callers : pc[d] # "idle" /\ LocksFree(d)
<1> DEFINE GoesOn == \E d \in Callers : pc[d] # "idle" /\ LocksFree(d)
<1>1. ASSUME NEW d \in Callers, pc[d] \in {"allow_delay", "close_delay", "fail_delay"}
      PROVE  GoesOn
  BY <1>1 DEF LocksFree
<1>2. CASE ~Free(HoldsLast)
  BY <1>1, <1>2, FreeAt DEF HoldsLast
<1>3. ASSUME NEW d \in Callers, pc[d] \in {"close_failure", "fail_stamp"}, Free(HoldsLast)
      PROVE  GoesOn
  BY <1>3 DEF LocksFree
<1>4. ASSUME NEW d \in Callers, pc[d] \in {"ok_count", "close_count"}, Free(HoldsLast)
      PROVE  GoesOn
  <2>1. CASE Free(HoldsFailures)
    BY <1>4, <2>1 DEF LocksFree
  <2>2. CASE ~Free(HoldsFailures)
    <3>1. PICK e \in Callers : pc[e] \in HoldsFailures
      BY <2>2, FreeAt
    <3>2. pc[e] \in {"fail_stamp", "fail_delay"}
      BY <1>4, <3>1 DEF NoCrossedLocks, HoldsFailures
    <3> QED BY <1>1, <1>3, <1>4, <3>2
  <2> QED BY <2>1, <2>2
<1>5. ASSUME Free(HoldsLast), ~Free(HoldsState) PROVE GoesOn
  <2>1. PICK d \in Callers : pc[d] \in HoldsState
    BY <1>5, FreeAt
  <2> QED BY <1>1, <1>3, <1>4, <1>5, <2>1 DEF HoldsState
<1>6. ASSUME Free(HoldsLast), Free(HoldsState), ~Free(HoldsFailures) PROVE GoesOn
  <2>1. PICK d \in Callers : pc[d] \in HoldsFailures
    BY <1>6, FreeAt
  <2>2. CASE pc[d] \in {"fail_read", "fail_open"}
    BY <1>6, <2>2 DEF LocksFree
  <2> QED BY <1>1, <1>3, <1>6, <2>1, <2>2 DEF HoldsFailures
<1>7. Free(HoldsState) => Free(HoldsProbes)
  BY DEF Free, HoldsState, HoldsProbes
<1>8. ASSUME Free(HoldsLast), Free(HoldsState), ~Free(HoldsTotal) PROVE GoesOn
  <2>1. PICK d \in Callers : pc[d] \in HoldsTotal
    BY <1>8, FreeAt
  <2> QED BY <1>7, <1>8, <2>1 DEF LocksFree, HoldsTotal, AllowSteps
<1>9. CASE Free(HoldsLast) /\ Free(HoldsState) /\ Free(HoldsFailures) /\ Free(HoldsTotal)
  BY <1>7, <1>9 DEF LocksFree
<1> QED BY <1>2, <1>5, <1>6, <1>8, <1>9

\* Unless record_success and record_failure have crossed or the controller has the recovery
\* model, one of the calls under way finds its lock free, for any number of callers.
THEOREM OneAlwaysMayGoOn == Spec => []OneMayGoOn
<1>1. OneMayGoOn
  BY SomebodyGoesOn DEF OneMayGoOn
<1> QED BY <1>1, PTL

\* record_success of c waits for the failure count with the state locked, record_failure of d
\* for the state with the failure count locked.
Crossed(c, d) == pc[c] \in {"ok_count", "close_count"} /\ pc[d] \in {"fail_read", "fail_open"}

\* The two wait on, and neither the state nor the failure count changes.
CrossedStands ==
    \A c, d \in Callers : Crossed(c, d) => UNCHANGED <<state, failures, pc[c], pc[d]>>

LEMMA CrossedStep == TypeOK /\ [Next]_vars => CrossedStands
  <1> SUFFICES ASSUME TypeOK, [Next]_vars, NEW c \in Callers, NEW d \in Callers, Crossed(c, d)
               PROVE  UNCHANGED <<state, failures, pc[c], pc[d]>>
    BY DEF CrossedStands
  <1>0. pc \in [Callers -> Steps]
    BY DEF TypeOK
  <1>1. ~Free(HoldsState) /\ ~Free(HoldsFailures)
    BY DEF Crossed, Free, HoldsState, HoldsFailures
  <1> USE DEF Crossed
  <1>2. CASE UNCHANGED vars \/ Tick
    BY <1>2 DEF Tick, vars
  <1>3. ASSUME NEW e \in Callers, CallerStep(e)
        PROVE  UNCHANGED <<state, failures>> /\ e # c /\ e # d /\ (\E s : Goto(e, s))
    <2>1. CASE AllowRead(e) \/ AllowRequest(e)
      BY <1>1, <2>1 DEF AllowRead, AllowRequest, AllowCount, AllowRecover, AllowDelay,
         AllowHalfOpen, AllowProbe, Answer, gauges
    <2>2. CASE GiveUp(e) \/ SuccessStep(e)
      BY <1>1, <2>2 DEF GiveUp, SuccessStep, RecordSuccess, OkCount, CloseCount, CloseFailure,
         CloseDelay, gauges
    <2>3. CASE FailureStep(e)
      BY <1>1, <2>3 DEF FailureStep, RecordFailure, FailStamp, FailRead, FailOpen, FailDelay,
         gauges
    <2>4. CASE ResetStep(e) \/ Reset(e)
      BY <1>1, <2>4 DEF ResetStep, Reset, ResetCount, ResetFailure, ResetProbes, ResetDelay,
         gauges
    <2>5. CASE ControllerStep(e) \/ ControllerRetry(e)
      BY <1>1, <2>5 DEF ControllerStep, ControllerLook, ControllerFailure, ControllerRetry,
         gauges
    <2> QED BY <1>3, <2>1, <2>2, <2>3, <2>4, <2>5 DEF CallerStep, Proceed
  <1>4. ASSUME NEW e \in Callers, CallerStep(e)
        PROVE  UNCHANGED <<state, failures, pc[c], pc[d]>>
    <2>1. UNCHANGED <<state, failures>> /\ e # c /\ e # d
      BY <1>3, <1>4
    <2>2. PICK s : pc' = [pc EXCEPT ![e] = s]
      BY <1>3, <1>4 DEF Goto
    <2> QED BY <1>0, <2>1, <2>2
  <1> QED BY <1>2, <1>4 DEF Next

\* Two calls that have crossed wait for each other for ever, and with them the breaker stands:
\* its state and its failure count never change again, and no other call, reset or controller
\* can free them.
THEOREM CrossedForEver == Spec => [][CrossedStands]_vars
  BY TypeCorrect, CrossedStep, PTL DEF Spec
=============================================================================
