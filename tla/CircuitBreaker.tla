--------------------------- MODULE CircuitBreaker ---------------------------
(***************************************************************************)
(* One circuit breaker of the batch system, src/src/core/protocol/         *)
(* batch_system/circuit_breaker.rs, called by several tasks at once.       *)
(*                                                                         *)
(* Every field of the breaker has a tokio RwLock of its own and a call     *)
(* takes several of them, one after the other.  A call is therefore a      *)
(* sequence of steps: pc says which lock the caller wants next, and the    *)
(* sets Holds... say which locks a caller standing at a step already has.  *)
(* A guard that the code drops at the end of its statement is part of one  *)
(* step; a guard that lives on is what blocks the others.                  *)
(***************************************************************************)
EXTENDS Naturals

CONSTANTS
    Submitters,   \* tasks that record a failure when they are rejected
    Pollers,      \* worker loops: they only ask again when they are rejected
    Controllers,  \* the adaptive controller, which looks at the breaker
    Resetters,    \* the performance monitor, which may reset the breaker
    Threshold,    \* failure_threshold
    HalfOpenMax,  \* half_open_max_requests (= consecutive_successes_needed)
    MaxBackoff,   \* max_delay = base_delay * 2^MaxBackoff (4 in the code)
    Never         \* last_failure = None

Callers == Submitters \cup Pollers \cup Controllers \cup Resetters
MaxAge  == 2 ^ MaxBackoff

ASSUME BreakerAssumption ==
    /\ Threshold \in Nat \ {0}
    /\ HalfOpenMax \in Nat \ {0}
    /\ MaxBackoff \in Nat \ {0}
    /\ Never \notin Nat
    /\ Controllers \cap (Submitters \cup Pollers \cup Resetters) = {}

VARIABLES
    state,      \* the state field
    failures,   \* failure_count, which is only compared with the threshold
    probes,     \* half_open_success_count
    age,        \* time since last_failure in units of base_delay, or Never
    delay,      \* current_delay = base_delay * 2^delay
    attempts,   \* recovery_attempts, which only matters up to the cap
    pc,         \* the next step of each caller
    seen,       \* the copy of state that a caller decides on
    waited      \* the elapsed time a caller computed from last_failure; 0
                \* when it is out of scope

gauges == <<failures, probes, age, delay, attempts>>
locals == <<seen, waited>>
vars   == <<state, gauges, pc, locals>>

States == {"Closed", "Open", "HalfOpen"}

(***************************************************************************)
(* The locks, by the steps at which a caller holds them.                   *)
(***************************************************************************)
AllowSteps    == {"allow_count", "allow_recover", "allow_delay",
                  "allow_halfopen", "allow_probe"}
HoldsTotal    == AllowSteps \ {"allow_count"}
HoldsLast     == {"allow_delay"}
\* Mutant: the guard of allow_request's read is still alive when it writes.
HoldsStateRead == {"ok_count", "close_count", "close_failure", "close_delay",
                   "fail_delay", "allow_halfopen"}
HoldsState    == {"ok_count", "close_count", "close_failure", "close_delay",
                  "fail_delay"}
HoldsProbes   == {"close_count", "close_failure", "close_delay"}
HoldsFailures == {"fail_stamp", "fail_read", "fail_open", "fail_delay"}
Steps         == AllowSteps \cup HoldsState \cup HoldsFailures \cup
                 {"idle", "admitted", "must_fail", "ctl_delay", "ctl_retry",
                  "reset_count", "reset_failure", "reset_probes", "reset_delay"}

Free(steps)  == \A c \in Callers : pc[c] \notin steps
\* The controller calls allow_request with the recovery model's guard alive.
RecoveryFree == \A c \in Controllers : pc[c] \notin AllowSteps \cup {"ctl_retry"}

Goto(c, step) == pc' = [pc EXCEPT ![c] = step]
UpTo(n, max)  == IF n < max THEN n + 1 ELSE max

Init ==
    /\ state = "Closed"
    /\ failures = 0 /\ probes = 0 /\ age = Never
    /\ delay = 0 /\ attempts = 0
    /\ pc = [c \in Callers |-> "idle"]
    /\ seen = [c \in Callers |-> "Closed"]
    /\ waited = [c \in Callers |-> 0]

(***************************************************************************)
(* allow_request.                                                          *)
(***************************************************************************)
\* The read guard on the state is gone before anything else is locked.
AllowRead(c) ==
    /\ \/ c \in Submitters \cup Pollers /\ pc[c] = "idle"
       \/ pc[c] = "ctl_retry"
    /\ Free(HoldsState)
    /\ seen' = [seen EXCEPT ![c] = state]
    /\ Goto(c, "allow_count")
    /\ UNCHANGED <<state, gauges, waited>>

\* What the caller does with the answer.
Answer(c, allowed) ==
    Goto(c, CASE c \in Controllers -> "idle"
              [] c \notin Controllers /\ allowed -> "admitted"
              [] c \in Submitters \ Controllers /\ ~allowed -> "must_fail"
              [] OTHER -> "idle")

AllowCount(c) ==
    /\ pc[c] = "allow_count"
    /\ Free(HoldsTotal)
    /\ \/ seen[c] = "Closed" /\ Answer(c, TRUE)
       \/ seen[c] = "Open" /\ Goto(c, "allow_recover")
       \/ seen[c] = "HalfOpen" /\ Goto(c, "allow_probe")
    /\ UNCHANGED <<state, gauges, locals>>

\* should_attempt_recovery: the elapsed time, with last_failure kept locked,
AllowRecover(c) ==
    /\ pc[c] = "allow_recover"
    /\ \/ age = Never /\ Answer(c, FALSE) /\ UNCHANGED waited
       \/ /\ age # Never
          /\ waited' = [waited EXCEPT ![c] = age]
          /\ Goto(c, "allow_delay")
    /\ UNCHANGED <<state, gauges, seen>>

\* Mutant: a request that comes too early counts as a failure of its own.
AllowDelayStamps(c) ==
    /\ pc[c] = "allow_delay"
    /\ RecoveryFree
    /\ \/ waited[c] >= 2 ^ delay /\ Goto(c, "allow_halfopen") /\ UNCHANGED age
       \/ waited[c] < 2 ^ delay /\ Answer(c, FALSE) /\ age' = 0
    /\ waited' = [waited EXCEPT ![c] = 0]
    /\ UNCHANGED <<state, failures, probes, delay, attempts, seen>>

\* and its comparison with the current delay.
AllowDelay(c) ==
    /\ pc[c] = "allow_delay"
    /\ RecoveryFree
    /\ \/ waited[c] >= 2 ^ delay /\ Goto(c, "allow_halfopen")
       \/ waited[c] < 2 ^ delay /\ Answer(c, FALSE)
    /\ waited' = [waited EXCEPT ![c] = 0]
    /\ UNCHANGED <<state, gauges, seen>>

\* The transition is written whatever the state has become in the meantime.
AllowHalfOpen(c) ==
    /\ pc[c] = "allow_halfopen"
    /\ Free(HoldsState)
    /\ state' = "HalfOpen"
    /\ probes' = 0
    /\ Answer(c, TRUE)
    /\ UNCHANGED <<failures, age, delay, attempts, locals>>

AllowProbe(c) ==
    /\ pc[c] = "allow_probe"
    /\ Free(HoldsProbes)
    /\ Answer(c, probes < HalfOpenMax)
    /\ UNCHANGED <<state, gauges, locals>>

(***************************************************************************)
(* An admitted request ends: it records its outcome, or nothing.           *)
(***************************************************************************)
GiveUp(c) ==
    /\ pc[c] = "admitted"
    /\ Goto(c, "idle")
    /\ UNCHANGED <<state, gauges, locals>>

\* record_success: the state stays locked until the call returns.
RecordSuccess(c) ==
    /\ pc[c] = "admitted"
    /\ Free(HoldsState)
    /\ \/ /\ state = "HalfOpen" /\ probes + 1 >= HalfOpenMax
          /\ state' = "Closed"
          /\ probes' = probes + 1
          /\ Goto(c, "close_count")
       \/ /\ state = "HalfOpen" /\ probes + 1 < HalfOpenMax
          /\ probes' = probes + 1
          /\ Goto(c, "idle")
          /\ UNCHANGED state
       \/ /\ state = "Closed"
          /\ Goto(c, "ok_count")
          /\ UNCHANGED <<state, probes>>
       \/ /\ state = "Open"
          /\ Goto(c, "idle")
          /\ UNCHANGED <<state, probes>>
    /\ UNCHANGED <<failures, age, delay, attempts, locals>>

OkCount(c) ==
    /\ pc[c] = "ok_count"
    /\ Free(HoldsFailures)
    /\ failures' = 0
    /\ Goto(c, "idle")
    /\ UNCHANGED <<state, probes, age, delay, attempts, locals>>

CloseCount(c) ==
    /\ pc[c] = "close_count"
    /\ Free(HoldsFailures)
    /\ failures' = 0
    /\ Goto(c, "close_failure")
    /\ UNCHANGED <<state, probes, age, delay, attempts, locals>>

CloseFailure(c) ==
    /\ pc[c] = "close_failure"
    /\ Free(HoldsLast)
    /\ age' = Never
    /\ Goto(c, "close_delay")
    /\ UNCHANGED <<state, failures, probes, delay, attempts, locals>>

CloseDelay(c) ==
    /\ pc[c] = "close_delay"
    /\ RecoveryFree
    /\ probes' = 0 /\ delay' = 0 /\ attempts' = 0
    /\ Goto(c, "idle")
    /\ UNCHANGED <<state, failures, age, locals>>

\* record_failure: the failure count stays locked until the call returns.
RecordFailure(c) ==
    /\ pc[c] \in {"admitted", "must_fail"}
    /\ Free(HoldsFailures)
    /\ failures' = UpTo(failures, Threshold)
    /\ Goto(c, "fail_stamp")
    /\ UNCHANGED <<state, probes, age, delay, attempts, locals>>

FailStamp(c) ==
    /\ pc[c] = "fail_stamp"
    /\ Free(HoldsLast)
    /\ age' = 0
    /\ Goto(c, "fail_read")
    /\ UNCHANGED <<state, failures, probes, delay, attempts, locals>>

\* Mutant: one failure too many is needed.
FailReadLate(c) ==
    /\ pc[c] = "fail_read"
    /\ Free(HoldsState)
    /\ seen' = [seen EXCEPT ![c] = state]
    /\ Goto(c, IF state = "HalfOpen" \/ (state = "Closed" /\ failures > Threshold)
               THEN "fail_open" ELSE "idle")
    /\ UNCHANGED <<state, gauges, waited>>

\* The state is copied and released, and locked again to be changed.
FailRead(c) ==
    /\ pc[c] = "fail_read"
    /\ Free(HoldsState)
    /\ seen' = [seen EXCEPT ![c] = state]
    /\ Goto(c, IF state = "HalfOpen" \/ (state = "Closed" /\ failures >= Threshold)
               THEN "fail_open" ELSE "idle")
    /\ UNCHANGED <<state, gauges, waited>>

FailOpen(c) ==
    /\ pc[c] = "fail_open"
    /\ Free(HoldsState)
    /\ state' = "Open"
    /\ probes' = IF seen[c] = "HalfOpen" THEN 0 ELSE probes
    /\ Goto(c, "fail_delay")
    /\ UNCHANGED <<failures, age, delay, attempts, locals>>

\* RecoveryModel::next_delay.
FailDelay(c) ==
    /\ pc[c] = "fail_delay"
    /\ RecoveryFree
    /\ delay' = attempts
    /\ attempts' = UpTo(attempts, MaxBackoff)
    /\ Goto(c, "idle")
    /\ UNCHANGED <<state, failures, probes, age, locals>>

(***************************************************************************)
(* The controller: optimize_circuit_breaker and optimize_crypto_processing.*)
(***************************************************************************)
\* get_stats gives it an Open state and the age of the last failure.
ControllerLook(c) ==
    /\ c \in Controllers
    /\ pc[c] = "idle"
    /\ Free(HoldsState) /\ Free(HoldsFailures) /\ Free(HoldsTotal)
    /\ state = "Open"
    /\ waited' = [waited EXCEPT ![c] = IF age = Never THEN 0 ELSE age]
    /\ Goto(c, "ctl_delay")
    /\ UNCHANGED <<state, gauges, seen>>

\* It locks the recovery model and keeps it locked while it calls
\* allow_request, the next step.
ControllerRetry(c) ==
    /\ pc[c] = "ctl_delay"
    /\ RecoveryFree
    /\ Goto(c, IF waited[c] >= 2 ^ delay THEN "ctl_retry" ELSE "idle")
    /\ waited' = [waited EXCEPT ![c] = 0]
    /\ UNCHANGED <<state, gauges, seen>>

\* It counts a low success rate of the crypto processor as a failure of the
\* breaker when it finds it Closed.
ControllerFailure(c) ==
    /\ c \in Controllers
    /\ pc[c] = "idle"
    /\ Free(HoldsState)
    /\ state = "Closed"
    /\ Goto(c, "must_fail")
    /\ UNCHANGED <<state, gauges, locals>>

(***************************************************************************)
(* reset: one field after the other, no lock kept.                         *)
(***************************************************************************)
Reset(c) ==
    /\ c \in Resetters
    /\ pc[c] = "idle"
    /\ Free(HoldsState)
    /\ state' = "Closed"
    /\ Goto(c, "reset_count")
    /\ UNCHANGED <<gauges, locals>>

ResetCount(c) ==
    /\ pc[c] = "reset_count"
    /\ Free(HoldsFailures)
    /\ failures' = 0
    /\ Goto(c, "reset_failure")
    /\ UNCHANGED <<state, probes, age, delay, attempts, locals>>

ResetFailure(c) ==
    /\ pc[c] = "reset_failure"
    /\ Free(HoldsLast)
    /\ age' = Never
    /\ Goto(c, "reset_probes")
    /\ UNCHANGED <<state, failures, probes, delay, attempts, locals>>

ResetProbes(c) ==
    /\ pc[c] = "reset_probes"
    /\ Free(HoldsProbes)
    /\ probes' = 0
    /\ Goto(c, "reset_delay")
    /\ UNCHANGED <<state, failures, age, delay, attempts, locals>>

ResetDelay(c) ==
    /\ pc[c] = "reset_delay"
    /\ RecoveryFree
    /\ delay' = 0 /\ attempts' = 0
    /\ Goto(c, "idle")
    /\ UNCHANGED <<state, failures, probes, age, locals>>

\* The clock: the delays only distinguish ages up to the longest delay.
Tick ==
    /\ age # Never /\ age < MaxAge
    /\ age' = age + 1
    /\ UNCHANGED <<state, failures, probes, delay, attempts, pc, locals>>

AllowRequest(c)   == \/ AllowCount(c) \/ AllowRecover(c) \/ AllowDelay(c)
                     \/ AllowHalfOpen(c) \/ AllowProbe(c)
SuccessStep(c)    == \/ RecordSuccess(c) \/ OkCount(c) \/ CloseCount(c)
                     \/ CloseFailure(c) \/ CloseDelay(c)
FailureStep(c)    == \/ RecordFailure(c) \/ FailStamp(c) \/ FailRead(c)
                     \/ FailOpen(c) \/ FailDelay(c)
ResetStep(c)      == \/ ResetCount(c) \/ ResetFailure(c) \/ ResetProbes(c)
                     \/ ResetDelay(c)
ControllerStep(c) == ControllerLook(c) \/ ControllerFailure(c)

\* A call once begun runs to its end.
Proceed(c) == \/ AllowRequest(c) \/ GiveUp(c) \/ SuccessStep(c)
              \/ FailureStep(c) \/ ResetStep(c) \/ ControllerRetry(c)

CallerStep(c) == \/ AllowRead(c) \/ Proceed(c) \/ ControllerStep(c) \/ Reset(c)

Next == Tick \/ \E c \in Callers : CallerStep(c)

Spec == Init /\ [][Next]_vars

(***************************************************************************)
(* The scheduler runs every task and tokio grants a lock in the order of   *)
(* the requests, so a caller whose step is enabled again and again takes   *)
(* it; requests keep coming, and time passes.                              *)
(***************************************************************************)
FairSpec ==
    /\ Spec
    /\ WF_vars(Tick)
    /\ \A c \in Submitters \cup Pollers : SF_vars(AllowRead(c) \/ Proceed(c))
    /\ \A c \in Controllers : SF_vars(AllowRead(c) \/ Proceed(c))

-----------------------------------------------------------------------------
TypeOK ==
    /\ state \in States
    /\ failures \in 0 .. Threshold
    /\ probes \in 0 .. HalfOpenMax
    /\ age \in Nat \cup {Never}
    /\ delay \in 0 .. MaxBackoff
    /\ attempts \in 0 .. MaxBackoff
    /\ pc \in [Callers -> Steps]
    /\ seen \in [Callers -> States]
    /\ waited \in [Callers -> Nat]

\* A breaker at rest in Closed has fewer failures than its threshold: no
\* interleaving of record_success, record_failure and reset leaves it Closed
\* with a count that should have opened it.
ClosedBelowThreshold ==
    state = "Closed" /\ Free(HoldsFailures \cup {"close_count", "reset_count"})
        => failures < Threshold

\* An Open breaker at rest has backed off: its delay comes from next_delay,
\* and not from the reset that a recovery or a stale transition left behind.
OpenBackedOff == state = "Open" /\ Free(HoldsState) => attempts > 0

\* allow_request never turns a probe away: whenever it can read the count of
\* successes it is below half_open_max_requests, because record_success keeps
\* the count locked from the last success to its reset to 0.  The number of
\* requests let through in HalfOpen is thus not limited by it.
ProbesNeverRejected == Free(HoldsProbes) => probes < HalfOpenMax

\* A Closed breaker is opened only by a failure that reached the threshold,
\* never by a failure that saw an earlier HalfOpen.
OpensOnlyAtThreshold ==
    [][state = "Closed" /\ state' = "Open" => failures >= Threshold]_vars

\* An Open breaker does not wait for ever with a time of failure to count from:
\* while worker loops keep asking, one of them makes it HalfOpen after
\* current_delay, or a closing or a reset that came in between forgets the time.
OpenIsLeft == state = "Open" /\ age # Never ~> state # "Open" \/ age = Never

\* No caller waits for the failure count with the state locked while another
\* waits for the state with the failure count locked.
NoCrossedLocks ==
    ~ \E c, d \in Callers : /\ pc[c] \in {"ok_count", "close_count"}
                            /\ pc[d] \in {"fail_read", "fail_open"}

\* Whether a caller finds the lock free that it wants next.
LocksFree(c) ==
    /\ pc[c] \in {"ctl_retry", "allow_halfopen", "fail_read", "fail_open"} => Free(HoldsState)
    /\ pc[c] = "allow_count" => Free(HoldsTotal)
    /\ pc[c] \in {"allow_probe", "reset_probes"} => Free(HoldsProbes)
    /\ pc[c] \in {"ok_count", "close_count", "must_fail", "reset_count"} => Free(HoldsFailures)
    /\ pc[c] \in {"close_failure", "fail_stamp", "reset_failure"} => Free(HoldsLast)
    /\ pc[c] \in {"allow_delay", "close_delay", "fail_delay", "ctl_delay", "reset_delay"}
           => RecoveryFree

\* The calls under way come to a stop in no other way: unless two callers have
\* crossed, or the controller keeps the recovery model locked (allow_request, which it
\* calls with the model write-locked, reads it), one finds its lock free.
OneMayGoOn ==
    NoCrossedLocks /\ RecoveryFree /\ (\E c \in Callers : pc[c] # "idle")
        => \E c \in Callers : pc[c] # "idle" /\ LocksFree(c)

\* Unless it is one of those two ways, a call is under way that goes on: one finds its lock
\* free, and whoever does has a step to take.
NoOtherDeadlock ==
    /\ OneMayGoOn
    /\ \A c \in Callers : pc[c] # "idle" /\ LocksFree(c)
                            => ENABLED (AllowRead(c) \/ Proceed(c))
=============================================================================
