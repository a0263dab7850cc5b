------------------------------- MODULE SqlLimits -------------------------------
(***************************************************************************)
(* How the SQL server limits its clients: AdvancedSecurityLayer            *)
(* (validate_query) with its RateLimiter, IpBlocker and query patterns     *)
(* (core/sql_server/security).  A call of check_limit takes the time       *)
(* first, may wait for the lock of last_cleanup, and only then looks at    *)
(* its client's entries, so calls with older and newer times interleave.   *)
(*                                                                         *)
(* Times are kept as ages, in units of a part of the window; an age is     *)
(* counted from the present, and duration_since of a call subtracts the    *)
(* age of the time that the call took.  What the queries say is left out:  *)
(* the detector and the analyser accept or refuse.                         *)
(***************************************************************************)
EXTENDS Integers, Sequences, Filters

CONSTANTS
    Addresses,      \* client_ip
    Checks,         \* concurrent calls of validate_query
    MaxRequests,    \* max_requests_per_minute
    Window,         \* the 60 seconds
    CleanupEvery,   \* cleanup_interval
    BlockFor,       \* block_duration
    Burst,          \* the queries of a pattern that are not anomalous,
    Dangerous,      \*   and the dangerous ones among them
    MaxDelay        \* bound: how long a call of check_limit takes

ASSUME SqlLimitsAssumption ==
    /\ {MaxRequests, CleanupEvery, BlockFor, Burst, MaxDelay} \subseteq Nat
    /\ Dangerous \in 0 .. Burst
    /\ Window \in Nat /\ MaxDelay < Window

VARIABLES
    requests,       \* RateLimiter.requests: the ages of each client's entries
    cleanedAgo,     \* the age of last_cleanup
    checking,       \* the calls
    blockLeft,      \* IpBlocker.blocked_ips: for how long still
    matched,        \* QueryPattern.query_count
    accepted        \* history: the ages of the requests that check_limit accepted

lmvars == <<requests, cleanedAgo, checking, blockLeft, matched, accepted>>

NoCheck == [at |-> "idle"]

LMInit ==
    /\ requests = [c \in Addresses |-> <<>>]
    /\ cleanedAgo = 0
    /\ checking = [k \in Checks |-> NoCheck]
    /\ blockLeft = [c \in Addresses |-> 0]
    /\ matched = [c \in Addresses |-> 0]
    /\ accepted = [c \in Addresses |-> <<>>]

OneOlder(ages) == [i \in DOMAIN ages |-> ages[i] + 1]
Younger(ages, than) == Retain(ages, 0 .. than - 1)

\* Time passes, unless a call would take longer than it may.
TimePasses ==
    /\ \A k \in Checks : checking[k].at # "idle" => checking[k].age < MaxDelay
    /\ requests' = [c \in Addresses |->
           [i \in DOMAIN requests[c] |-> IF requests[c][i] > 2 * Window + MaxDelay
                                         THEN requests[c][i] ELSE requests[c][i] + 1]]
    /\ cleanedAgo' = IF cleanedAgo > CleanupEvery + MaxDelay THEN cleanedAgo
                                                             ELSE cleanedAgo + 1
    /\ checking' = [k \in Checks |-> IF checking[k].at = "idle" THEN NoCheck
                                     ELSE [checking[k] EXCEPT !.age = @ + 1]]
    /\ blockLeft' = [c \in Addresses |-> IF blockLeft[c] > 0 THEN blockLeft[c] - 1 ELSE 0]
    /\ accepted' = [c \in Addresses |-> Younger(OneOlder(accepted[c]), Window)]
    /\ UNCHANGED matched

MoveOn(k, stage) == checking' = [checking EXCEPT ![k].at = stage]
EndCheck(k)        == checking' = [checking EXCEPT ![k] = NoCheck]

\* is_blocked, then the time of check_limit
Validate(k, c) ==
    /\ checking[k] = NoCheck
    /\ blockLeft[c] = 0
    /\ checking' = [checking EXCEPT ![k] = [at |-> "look", client |-> c, age |-> 0]]
    /\ UNCHANGED <<requests, cleanedAgo, blockLeft, matched, accepted>>

\* cleanup_expired: is it time, under a read guard that is given back ...
LookForCleanup(k) ==
    /\ checking[k].at = "look"
    /\ MoveOn(k, IF cleanedAgo - checking[k].age < CleanupEvery THEN "decide" ELSE "mark")
    /\ UNCHANGED <<requests, cleanedAgo, blockLeft, matched, accepted>>

\* ... the call's own time becomes last_cleanup ...
MarkCleanup(k) ==
    /\ checking[k].at = "mark"
    /\ cleanedAgo' = checking[k].age
    /\ MoveOn(k, "sweep")
    /\ UNCHANGED <<requests, blockLeft, matched, accepted>>

\* Mutant: the sweep is as strict as half of the window.
SweptSoon(age) == [c \in Addresses |-> Younger(requests[c], Window \div 2 + age)]

\* ... and every client's entries of two windows ago go.
Swept(age) == [c \in Addresses |-> Younger(requests[c], 2 * Window + age)]

SweepExpired(k) ==
    /\ checking[k].at = "sweep"
    /\ requests' = Swept(checking[k].age)
    /\ MoveOn(k, "decide")
    /\ UNCHANGED <<cleanedAgo, blockLeft, matched, accepted>>

\* The rest of check_limit, under the guard of the client's entry.
Admit(k) ==
    LET c == checking[k].client
        kept == Younger(requests[c], Window + checking[k].age) IN
    /\ checking[k].at = "decide"
    /\ IF Len(kept) >= MaxRequests
       THEN /\ requests' = [requests EXCEPT ![c] = kept]
            /\ EndCheck(k)
            /\ UNCHANGED accepted
       ELSE /\ requests' = [requests EXCEPT ![c] = Append(kept, checking[k].age)]
            /\ accepted' = [accepted EXCEPT ![c] = Append(@, checking[k].age)]
            /\ MoveOn(k, "match")
    /\ UNCHANGED <<cleanedAgo, blockLeft, matched>>

\* The detector or the analyser refuses, or the query is counted, and the client of
\* one too many is blocked: the time of the last query has just been set, so the
\* counts alone decide.
Refuse(k) ==
    /\ checking[k].at = "match"
    /\ EndCheck(k)
    /\ UNCHANGED <<requests, cleanedAgo, blockLeft, matched, accepted>>

Anomalous(count) == count > Burst
\* The dangerous queries are not counted by themselves: with more than Dangerous queries
\* there may be too many of them.
MayBeAnomalous(count) == count > Dangerous

Match(k) ==
    LET c == checking[k].client IN
    /\ checking[k].at = "match"
    /\ matched' = [matched EXCEPT ![c] = IF Anomalous(@) THEN @ ELSE @ + 1]
    /\ \/ blockLeft' = [blockLeft EXCEPT
                            ![c] = IF Anomalous(matched'[c]) THEN BlockFor ELSE @]
       \/ /\ MayBeAnomalous(matched'[c])
          /\ blockLeft' = [blockLeft EXCEPT ![c] = BlockFor]
    /\ EndCheck(k)
    /\ UNCHANGED <<requests, cleanedAgo, accepted>>

\* force_cleanup, reset_limit, block_ip, unblock_ip
ForceCleanup ==
    /\ requests' = Swept(0)
    /\ UNCHANGED <<cleanedAgo, checking, blockLeft, matched, accepted>>

ResetLimit(c) ==
    /\ requests' = [requests EXCEPT ![c] = <<>>]
    /\ accepted' = [accepted EXCEPT ![c] = <<>>]
    /\ UNCHANGED <<cleanedAgo, checking, blockLeft, matched>>

SetBlock(c) ==
    /\ \E left \in {0, BlockFor} : blockLeft' = [blockLeft EXCEPT ![c] = left]
    /\ UNCHANGED <<requests, cleanedAgo, checking, matched, accepted>>

LMNext ==
    \/ TimePasses \/ ForceCleanup
    \/ \E c \in Addresses : ResetLimit(c) \/ SetBlock(c) \/ \E k \in Checks : Validate(k, c)
    \/ \E k \in Checks :
          LookForCleanup(k) \/ MarkCleanup(k) \/ SweepExpired(k) \/ Admit(k)
              \/ Refuse(k) \/ Match(k)

LMSpec == LMInit /\ [][LMNext]_lmvars

(***************************************************************************)
(* Properties.                                                             *)
(***************************************************************************)
\* The variables have their types.
LMTypeOK ==
    /\ \A c \in Addresses : Len(requests[c]) <= MaxRequests /\ matched[c] \in 0 .. Burst + 1
    /\ cleanedAgo \in 0 .. CleanupEvery + MaxDelay + 1
    /\ \A k \in Checks : checking[k] = NoCheck \/ checking[k].age \in 0 .. MaxDelay

\* However the calls interleave with each other and with the cleanups, no more than
\* MaxRequests requests of a client are accepted whose times lie within a window that
\* is shorter than the 60 seconds by what a call may take: an entry is dropped at the
\* time of the call that drops it, which may be ahead of a slower call's time.
WindowHolds ==
    \A c \in Addresses, from \in 0 .. MaxDelay :
        Len(Retain(accepted[c], from .. from + Window - MaxDelay - 1)) <= MaxRequests
================================================================================
