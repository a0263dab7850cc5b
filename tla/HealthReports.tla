----------------------------- MODULE HealthReports -----------------------------
(***************************************************************************)
(* The monitoring library (core/monitoring) as a user of its locks: the    *)
(* alerts, the registers and the health history of UnifiedMonitor, and the *)
(* metrics of the monitors that are registered with it.  What the alerts   *)
(* and the metrics say is left out; what a call takes, in which order, and *)
(* for how long, is its program.                                           *)
(***************************************************************************)
EXTENDS Integers, Sequences

CONSTANT Callers

VARIABLES
    doing,      \* the call that each caller is in, or "idle"
    upto,       \* its next step
    waits       \* the line at each lock

hrvars == <<doing, upto, waits>>

Guarded == {"alerts", "checks", "monitors", "history", "metrics", "components"}

Long(mode, lock, till) == [lock |-> lock, mode |-> mode, till |-> till]
Short(mode, lock)      == Long(mode, lock, 0)

\* Mutant: the alerts are cleaned under the guard that adds to them.
AlertCleansKept == << Long("write", "alerts", 2), Short("write", "alerts") >>

\* add_alert; every hundredth cleans the old ones before.
Alert       == << Short("write", "alerts") >>
AlertCleans == << Short("write", "alerts"), Short("write", "alerts") >>

\* A monitor records, and adds its alert under its own guard.
Record             == << Short("write", "metrics") >>
RecordAlerts       == << Long("write", "metrics", 2), Short("write", "alerts") >>
RecordAlertsCleans == << Long("write", "metrics", 3), Short("write", "alerts"),
                         Short("write", "alerts") >>

RegisterMonitor == << Short("write", "monitors") >>
RegisterCheck   == << Short("write", "checks") >>

\* collect_all_metrics: a monitor asks for its own health under its own guard.
Collect   == << Long("read", "monitors", 3), Long("read", "metrics", 3),
                Short("read", "metrics") >>
Overall   == << Long("read", "monitors", 2), Short("read", "metrics") >>
ResetAll  == << Long("read", "monitors", 2), Short("write", "metrics") >>
Recent    == << Short("read", "alerts") >>
History   == << Short("read", "history") >>

\* comprehensive_health_check keeps the history from its report to its end; one in
\* ten cleans it, and each one measures it.
Check ==
    << Long("read", "checks", 7), Short("read", "metrics"), Long("write", "history", 7),
       Long("read", "checks", 7), Long("read", "monitors", 7), Long("read", "alerts", 7),
       Short("read", "history") >>
CheckCleans ==
    << Long("read", "checks", 5), Short("read", "metrics"), Long("write", "history", 5),
       Short("write", "alerts"), Short("write", "history") >>

\* BatchSystemMonitor::send_alerts
SendAlerts == << Short("write", "components"), Short("write", "alerts") >>

Operations ==
    [alert |-> Alert, alert_cleans |-> AlertCleans, record |-> Record,
     record_alerts |-> RecordAlerts, record_alerts_cleans |-> RecordAlertsCleans,
     register_monitor |-> RegisterMonitor, register_check |-> RegisterCheck,
     collect |-> Collect, overall |-> Overall, reset_all |-> ResetAll, recent |-> Recent,
     history |-> History, check |-> Check, check_cleans |-> CheckCleans,
     send_alerts |-> SendAlerts]

K == INSTANCE LockPrograms WITH
         Tasks <- Callers, Locks <- Guarded, Program <- Operations,
         op <- doing, pos <- upto, line <- waits

HRInit == K!NoneRuns

Call(c) == \E o \in DOMAIN Operations : K!StartOn(c, o)

HRNext == \E c \in Callers : Call(c) \/ K!JoinLine(c) \/ K!Proceed(c, "idle")

HRSpec == HRInit /\ [][HRNext]_hrvars

(***************************************************************************)
(* Properties.                                                             *)
(***************************************************************************)
\* The variables have their types and the locks are locks.
HRTypeOK == doing \in [Callers -> DOMAIN Operations \cup {"idle"}] /\ K!LocksOK

\* Calls that report no health and collect no metrics never deadlock with each other:
\* only comprehensive_health_check, which asks for the history under its own guard,
\* and collect_metrics, which reads the metrics under its own guard while a record may
\* wait between, can hang.
OthersNeverHang ==
    ~K!Deadlocked({c \in K!Busy : doing[c] \notin {"check", "check_cleans", "collect"}})
================================================================================
