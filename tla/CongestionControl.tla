-------------------------- MODULE CongestionControl --------------------------
(***************************************************************************)
(* The congestion controller of server/security/congestion_control: what   *)
(* its concurrent calls do to the standing of one address.  The standing   *)
(* is a record of the IP database, a score kept for a while in the         *)
(* reputation cache, and the offences the tracker remembers; each has its  *)
(* own lock, so the calls interleave at every access.                      *)
(*                                                                         *)
(* Left out: the rates the traffic analysis measures and the limits it     *)
(* tunes, of which should_accept_packet reads nothing back, and the        *)
(* learning mode, which changes only the answer to a packet.  Whether the  *)
(* controller is enabled, and whether a packet or a configuration passes   *)
(* its validation, is left open.                                           *)
(***************************************************************************)
EXTENDS Naturals

CONSTANTS
    Calls,         \* the tasks that may have a call under way
    MaxOffenses,   \* the steps in which the run counts total_offenses
    LogScore,      \* percent: ten times the logarithm the code takes of them
    Ageing,        \* percent: what the time since the last offence may leave of it
    BanScore,      \* an automatic ban wants a score above this (80)
    BanOffenses    \* and as many remembered offences as this (5)

ASSUME GuardAssumption ==
    /\ MaxOffenses \in Nat \ {0} /\ BanOffenses \in 1 .. MaxOffenses
    /\ LogScore \in [0 .. MaxOffenses -> Nat]
    /\ Ageing \subseteq 50 .. 100 /\ BanScore \in 80 .. 99

NoRecord == [offenses |-> 0, white |-> FALSE, black |-> FALSE, there |-> FALSE]
NewRecord == [NoRecord EXCEPT !.there = TRUE]
NoScore  == [score |-> 0, white |-> FALSE, black |-> FALSE, fresh |-> FALSE]
\* What is answered when the database takes no more records.
Neutral  == [NoScore EXCEPT !.score = 50]
Idle     == [job |-> "none", pc |-> "idle", saw |-> NoScore]

VARIABLES
    holder,    \* the calls that keep the configuration's write lock
    record,    \* the address in the IP database
    cached,    \* the address in the reputation cache
    tracked,   \* its offences in the tracker, as far as BanOffenses
    calls,     \* the call each task has under way
    banned     \* whether ban_ip ever took effect

standing == <<record, cached, tracked>>
guvars   == <<holder, standing, calls, banned>>

GUInit ==
    /\ holder = {} /\ record = NoRecord /\ cached = NoScore /\ tracked = 0
    /\ calls = [c \in Calls |-> Idle] /\ banned = FALSE

At(c, pc) == calls[c].pc = pc
Goto(c, pc) == calls' = [calls EXCEPT ![c].pc = pc]
Return(c) == calls' = [calls EXCEPT ![c] = Idle]
See(c, saw, pc) == calls' = [calls EXCEPT ![c].saw = saw, ![c].pc = pc]

(***************************************************************************)
(* should_accept_packet: the checks before the reputation is asked for.    *)
(***************************************************************************)
Jobs == {"packet", "opened", "offense", "allow", "disallow", "update"}

\* A packet to a disabled controller, and what takes one step, begin no call.
Begin(c, job) ==
    /\ At(c, "idle")
    /\ calls' = [calls EXCEPT ![c] = [job |-> job, saw |-> NoScore, pc |->
            CASE job = "packet" -> "config"
              [] job \in {"opened", "allow", "disallow"} -> "fetch"
              [] OTHER -> job]]
    /\ UNCHANGED <<holder, standing, banned>>

\* An address refused outside the test mode, a packet or a session identifier of a wrong
\* size are answered at once.
Validated(c) ==
    /\ At(c, "config") /\ holder = {}
    /\ \/ Goto(c, "lookup")
       \/ Return(c)
    /\ UNCHANGED <<holder, standing, banned>>

(***************************************************************************)
(* get_score, for a packet and for the weighing of an offence, and         *)
(* get_or_create_record, which looks under one lock and inserts under      *)
(* another.                                                                *)
(***************************************************************************)
\* calculate_score: the logarithm of the offences, cut at 80, less what time takes off.
Scored(n, left) == ((IF LogScore[n] < 80 THEN LogScore[n] ELSE 80) * left) \div 100

\* A packet is answered by the score, its anomalies and the mode: nothing is kept of it.
Judge(c, saw) == IF calls[c].job = "packet" THEN Return(c) ELSE See(c, saw, "weigh")

Lookup(c) ==
    /\ At(c, "lookup")
    /\ IF cached.fresh THEN Judge(c, cached) ELSE Goto(c, "fetch")
    /\ UNCHANGED <<holder, standing, banned>>

\* The cache's minute is over.
Expire ==
    /\ cached.fresh /\ cached' = NoScore
    /\ UNCHANGED <<holder, record, tracked, calls, banned>>

Have(c, r) ==
    LET saw == [score |-> IF r.black /\ ~r.white THEN 100 ELSE 0,
                white |-> r.white, black |-> r.black, fresh |-> TRUE]
    IN CASE calls[c].job = "opened" -> Return(c)
         [] calls[c].job \in {"allow", "disallow"} -> Goto(c, "apply")
         [] OTHER -> See(c, saw, IF r.white \/ r.black THEN "keep" ELSE "score")

Fetch(c) ==
    /\ At(c, "fetch")
    /\ IF record.there THEN Have(c, record) ELSE Goto(c, "create")
    /\ UNCHANGED <<holder, standing, banned>>

\* A record another call made meanwhile is replaced.
Create(c) ==
    /\ At(c, "create")
    /\ record' = NewRecord /\ Have(c, NewRecord)
    /\ UNCHANGED <<holder, cached, tracked, banned>>

\* The database is full of other addresses.
CreateFails(c) ==
    /\ At(c, "create")
    /\ CASE calls[c].job = "opened" -> Return(c)
         [] calls[c].job \in {"allow", "disallow"} -> Goto(c, "forget")
         [] OTHER -> Judge(c, Neutral)
    /\ UNCHANGED <<holder, standing, banned>>

\* calculate_reputation_score fetches the record again ...
SeeScore(c, r) ==
    \E left \in Ageing :
        See(c, [calls[c].saw EXCEPT !.score =
                    CASE r.white -> 0
                      [] r.black /\ ~r.white -> 100
                      [] OTHER -> Scored(r.offenses, left)], "keep")

Score(c) ==
    /\ At(c, "score")
    /\ IF record.there THEN SeeScore(c, record) ELSE Goto(c, "remake")
    /\ UNCHANGED <<holder, standing, banned>>

\* ... and makes it if it has gone, in the place of one that another call made meanwhile ...
Remake(c) ==
    /\ At(c, "remake")
    /\ record' = NewRecord /\ SeeScore(c, NewRecord)
    /\ UNCHANGED <<holder, cached, tracked, banned>>

\* ... or finds the database full of other addresses.
RemakeFails(c) ==
    /\ At(c, "remake")
    /\ See(c, [calls[c].saw EXCEPT !.score = 50], "keep")
    /\ UNCHANGED <<holder, standing, banned>>

Keep(c) ==
    /\ At(c, "keep")
    /\ cached' = calls[c].saw /\ Judge(c, calls[c].saw)
    /\ UNCHANGED <<holder, record, tracked, banned>>

(***************************************************************************)
(* report_offense, and the automatic ban a major offence may lead to.      *)
(***************************************************************************)
Report(c) ==
    /\ At(c, "offense")
    /\ cached' = NoScore /\ Goto(c, "track")
    /\ UNCHANGED <<holder, record, tracked, banned>>

Track(c) ==
    /\ At(c, "track")
    /\ tracked' = (IF tracked < BanOffenses THEN tracked + 1 ELSE tracked)
    /\ Goto(c, "count")
    /\ UNCHANGED <<holder, record, cached, banned>>

\* The tracker has no room: the offence is not counted either.
TrackFails(c) ==
    /\ At(c, "track") /\ Return(c)
    /\ UNCHANGED <<holder, standing, banned>>

Count(c) ==
    /\ At(c, "count")
    /\ record' = (IF record.there /\ record.offenses < MaxOffenses
                  THEN [record EXCEPT !.offenses = @ + 1] ELSE record)
    /\ \E major \in BOOLEAN :
            IF major /\ record.there THEN Goto(c, "lookup") ELSE Return(c)
    /\ UNCHANGED <<holder, cached, tracked, banned>>

\* Mutant: a score of 80 is enough.
ShouldBanAt(score) == score >= BanScore /\ tracked >= BanOffenses
\* should_auto_blacklist
ShouldBan(score) == score > BanScore /\ tracked >= BanOffenses

Weigh(c) ==
    /\ At(c, "weigh")
    /\ IF ShouldBan(calls[c].saw.score) THEN Goto(c, "autoban") ELSE Return(c)
    /\ UNCHANGED <<holder, standing, banned>>

\* An offence older than an hour is forgotten.
Forgive ==
    /\ tracked > 0 /\ tracked' = 0
    /\ UNCHANGED <<holder, record, cached, calls, banned>>

(***************************************************************************)
(* ban_ip, whitelist_ip, remove_ip and the database's cleanup.             *)
(***************************************************************************)
Blacklisted == IF record.there THEN [record EXCEPT !.black = TRUE] ELSE record

\* ban_ip.  Nothing is banned that has no record; the cache is left as it is.
Ban ==
    /\ record' = Blacklisted /\ banned' = (banned \/ record.there)
    /\ UNCHANGED <<holder, cached, tracked, calls>>

AutoBan(c) ==
    /\ At(c, "autoban") /\ Return(c)
    /\ record' = Blacklisted
    /\ UNCHANGED <<holder, cached, tracked, banned>>

Allow(c) ==
    /\ At(c, "apply") /\ Goto(c, "forget")
    /\ record' = (IF ~record.there THEN record
                  ELSE IF calls[c].job = "allow"
                       THEN [record EXCEPT !.white = TRUE, !.black = FALSE]
                       ELSE [record EXCEPT !.white = FALSE])
    /\ UNCHANGED <<holder, cached, tracked, banned>>

Forget(c) ==
    /\ At(c, "forget")
    /\ cached' = NoScore /\ Return(c)
    /\ UNCHANGED <<holder, record, tracked, banned>>

RemoveBan ==
    /\ record' = [record EXCEPT !.black = FALSE]
    /\ UNCHANGED <<holder, cached, tracked, calls, banned>>

\* A record neither banned nor allowed goes after a month, or when a ban's time is long over.
Cleanup ==
    /\ record.there /\ ~record.white /\ ~record.black /\ record' = NoRecord
    /\ UNCHANGED <<holder, cached, tracked, calls, banned>>

(***************************************************************************)
(* The configuration.  update_config keeps the write lock while it saves,  *)
(* and save_config, when there is a path to save to, asks for the read     *)
(* lock.                                                                   *)
(***************************************************************************)
\* Mutant: the lock is kept when the configuration is refused.
UpdateKeepsLock(c) ==
    /\ At(c, "update") /\ holder = {}
    /\ holder' = {c}
    /\ \/ Goto(c, "save")
       \/ Return(c)
    /\ UNCHANGED <<standing, banned>>
\* What validate_config refuses stays in force; what it accepts is saved, if to somewhere.
Update(c) ==
    /\ At(c, "update") /\ holder = {}
    /\ \/ holder' = {c} /\ Goto(c, "save")
       \/ UNCHANGED holder /\ Return(c)
    /\ UNCHANGED <<standing, banned>>

Save(c) ==
    /\ At(c, "save") /\ holder = {}
    /\ Return(c)
    /\ UNCHANGED <<holder, standing, banned>>

GUStep(c) ==
    \/ Validated(c) \/ Lookup(c) \/ Fetch(c) \/ Create(c) \/ CreateFails(c) \/ Score(c)
    \/ Remake(c) \/ RemakeFails(c)
    \/ Keep(c) \/ Report(c) \/ Track(c) \/ TrackFails(c) \/ Count(c) \/ Weigh(c)
    \/ AutoBan(c) \/ Allow(c) \/ Forget(c) \/ Update(c) \/ Save(c)

GUNext ==
    \/ \E c \in Calls : GUStep(c) \/ \E job \in Jobs : Begin(c, job)
    \/ Ban \/ RemoveBan \/ Expire \/ Forgive \/ Cleanup

GUSpec == GUInit /\ [][GUNext]_guvars
\* A task that can go on does.
GUFairSpec == GUSpec /\ \A c \in Calls : WF_guvars(GUStep(c))
-----------------------------------------------------------------------------
Standings == [offenses : 0 .. MaxOffenses, white : BOOLEAN, black : BOOLEAN, there : BOOLEAN]
Scores == [score : 0 .. 100, white : BOOLEAN, black : BOOLEAN, fresh : BOOLEAN]

\* The types, and what the locks and the missing record stand for.
GUTypeOK ==
    /\ holder \in SUBSET Calls /\ banned \in BOOLEAN
    /\ record \in Standings /\ cached \in Scores /\ tracked \in 0 .. BanOffenses
    /\ ~record.there => record = NoRecord
    /\ \A c \in Calls : calls[c].job \in Jobs \cup {"none"} /\ calls[c].saw \in Scores

\* An address is on the blacklist only if ban_ip has put it there before: however many
\* offences it has, its score never passes the threshold of the automatic ban.  What the
\* automatic ban can do is to put it back, after a removal, on the word of a cached score.
BansAreManual == record.black => banned

\* A call returns, unless one that updates the configuration waits to save it: then that
\* one keeps the lock every packet's check reads the configuration under.
DecisionsReturn ==
    \A c \in Calls : ~At(c, "idle") ~> (At(c, "idle") \/ \E d \in holder : At(d, "save"))
=============================================================================
