------------------------------- MODULE Retention -------------------------------
(***************************************************************************)
(* Where the usage events are kept, and for how long: the monthly          *)
(* partitions, the scheduler of the backend that creates and drops them,   *)
(* and the report of a period that is read from them.                      *)
(*                                                                         *)
(* Simplifications.  A time is a month, a day and whether it is in the     *)
(* last second of its day; an event is the time it happened at, whoever it *)
(* was of.  The calendar is a parameter.  usage_events stands for          *)
(* proxy_requests too; the rows of failed_requests and audit_events are    *)
(* left out.  The hourly ticker is what falls due on a day: the partition  *)
(* at 12 of a JobDay, whose hour no run of the ticker misses, and the      *)
(* cleanup only if the minute at which the backend started makes it tick   *)
(* in the first five minutes of 03:00.                                     *)
(***************************************************************************)
EXTENDS Integers, FiniteSets

CONSTANTS DaysIn,         \* the days of each month from the deployment on
          Year,           \* months in a year
          JobDay,         \* the 25th
          LastMonth,      \* where time stops (a bound)
          MaxDdlErrors,   \* statements that fail (a bound)
          MaxStarts,      \* starts of the backend (a bound)
          MaxEvents       \* stamps whose rows are looked for (a bound)

\* A month may be shorter than the last, but not by a month.
ASSUME RetentionAssumption ==
  /\ LastMonth \in Nat /\ LastMonth > Year
  /\ Year \in Nat \ {0}
  /\ DaysIn \in [1..(LastMonth + 2) -> Nat \ {0}]
  /\ \A m \in DOMAIN DaysIn : JobDay \in 1..DaysIn[m]
  /\ \A m \in 1..LastMonth : DaysIn[m] <= DaysIn[m + 1] + DaysIn[m + 2]
  /\ MaxDdlErrors \in Nat
  /\ MaxStarts \in Nat
  /\ MaxEvents \in Nat

Months == 1..LastMonth
Days   == UNION {{[month |-> m, day |-> d] : d \in 1..DaysIn[m]} : m \in Months}
Events == {[on |-> t, last |-> b] : t \in Days, b \in BOOLEAN}

VARIABLES
  today,
  backend,    \* "down", "up", or "aligned": up, and its cleanup runs
  due,        \* the jobs the ticker has still to start today
  parts,      \* the months that have a partition
  events,     \* usage_events
  happened,   \* history: the events that were to be inserted
  tended,     \* history: the months whose partitions somebody saw to in time
  ddlErrors,
  starts

retentionVars == <<today, backend, due, parts, events, happened, tended, ddlErrors, starts>>

Before(s, t) == s.month < t.month \/ (s.month = t.month /\ s.day < t.day)

\* AddDate(0, 1, 0): a day that the next month has not is one of the month after.
NextMonthOf(t) == IF t.day <= DaysIn[t.month + 1] THEN t.month + 1 ELSE t.month + 2

\* AddDate(-1, 0, 0), the same; before the deployment there is nothing to drop.
YearBefore(t) ==
  LET m == t.month - Year
  IN  IF m < 1 THEN [month |-> 0, day |-> 1]
      ELSE IF t.day <= DaysIn[m] THEN [month |-> m, day |-> t.day]
      ELSE [month |-> m + 1, day |-> t.day - DaysIn[m]]

DdlError == ddlErrors < MaxDdlErrors /\ ddlErrors' = ddlErrors + 1

-----------------------------------------------------------------------------
\* Migration 002 creates the partitions of three months.
RetentionInit ==
  /\ today = [month |-> 1, day |-> 1]
  /\ backend = "down"
  /\ due = {}
  /\ parts = 1..3
  /\ events = {}
  /\ happened = {}
  /\ tended = 0..2
  /\ ddlErrors = 0
  /\ starts = 0

\* Mutant: the month after next.
CreateOneTooFar == parts' = parts \cup {NextMonthOf(today) + 1}

CreateNext == parts' = parts \cup {NextMonthOf(today)}

\* CREATE TABLE IF NOT EXISTS, and the next attempt is at the next start or JobDay.
EnsureNextMonth ==
  \/ /\ CreateNext
     /\ tended' = IF today.day <= JobDay THEN tended \cup {today.month} ELSE tended
     /\ UNCHANGED ddlErrors
  \/ DdlError /\ UNCHANGED <<parts, tended>>

DueOn(t, b) ==
  (IF b # "down" /\ t.day = JobDay THEN {"partition"} ELSE {})
    \cup (IF b = "aligned" THEN {"cleanup"} ELSE {})

\* runScheduler: once at the start, then whatever the rest of the day still has.
StartBackend ==
  /\ backend = "down"
  /\ starts < MaxStarts
  /\ starts' = starts + 1
  /\ backend' \in {"up", "aligned"}
  /\ due' \in SUBSET DueOn(today, backend')
  /\ EnsureNextMonth
  /\ UNCHANGED <<today, events, happened>>

StopBackend ==
  /\ backend # "down"
  /\ backend' = "down"
  /\ due' = {}
  /\ UNCHANGED <<today, parts, events, happened, tended, ddlErrors, starts>>

PartitionJob ==
  /\ "partition" \in due
  /\ due' = due \ {"partition"}
  /\ EnsureNextMonth
  /\ UNCHANGED <<today, backend, events, happened, starts>>

\* Mutant: the partition of the cutoff's own month is dropped too.
UpToCutoff(m) == m <= YearBefore(today).month

BeforeCutoff(m) == m < YearBefore(today).month

\* dropOldPartitions lists the partitions by name and drops one after the other;
\* one that cannot be dropped, or is not reached, waits for another day.
CleanupJob ==
  /\ "cleanup" \in due
  /\ due' = due \ {"cleanup"}
  /\ LET old == {m \in parts : BeforeCutoff(m)}
     IN  \/ parts' = parts \ old /\ UNCHANGED ddlErrors
         \/ \E left \in SUBSET old \ {{}} : parts' = parts \ (old \ left) /\ DdlError
  /\ events' = {e \in events : e.on.month \in parts'}
  /\ UNCHANGED <<today, backend, happened, tended, starts>>

\* InsertEvent: without a partition for its time the row is refused, and the stamp
\* is sold and charged all the same.
InsertEvent(last) ==
  LET e == [on |-> today, last |-> last]
  IN  /\ backend # "down"
      /\ e \notin happened
      /\ Cardinality(happened) < MaxEvents
      /\ happened' = happened \cup {e}
      /\ events' = IF today.month \in parts THEN events \cup {e} ELSE events
      /\ UNCHANGED <<today, backend, due, parts, tended, ddlErrors, starts>>

Tomorrow == IF today.day < DaysIn[today.month]
            THEN [month |-> today.month, day |-> today.day + 1]
            ELSE [month |-> today.month + 1, day |-> 1]

NextDay ==
  /\ due = {}
  /\ Tomorrow.month <= LastMonth
  /\ today' = Tomorrow
  /\ due' = DueOn(Tomorrow, backend)
  /\ UNCHANGED <<backend, parts, events, happened, tended, ddlErrors, starts>>

RetentionNext ==
  \/ StartBackend \/ StopBackend \/ PartitionJob \/ CleanupJob
  \/ \E last \in BOOLEAN : InsertEvent(last)
  \/ NextDay

RetentionSpec == RetentionInit /\ [][RetentionNext]_retentionVars

-----------------------------------------------------------------------------
\* DailyUsage: from the first instant of a day to the last second, not the last
\* instant, of another.
InPeriod(e, from, to) ==
  /\ ~Before(e.on, from)
  /\ Before(e.on, to) \/ (e.on = to /\ ~e.last)

GetDailyConsumption(from, to) == {e \in events : InPeriod(e, from, to)}

\* The kinds of the state; a row is in a partition, and none is of a month beyond
\* the next but one.
RetentionTypeOK ==
  /\ today \in Days
  /\ backend \in {"down", "up", "aligned"}
  /\ due \subseteq DueOn(today, backend)
  /\ parts \subseteq 1..(today.month + 2)
  /\ events \subseteq happened
  /\ \A e \in events : e.on.month \in parts
  /\ happened \subseteq Events
  /\ tended \subseteq 0..LastMonth
  /\ ddlErrors \in 0..MaxDdlErrors
  /\ starts \in 0..MaxStarts

\* A report of any period within the last year counts every event of it, however
\* the jobs ran or failed, but for the last second of its last day -- and for the
\* months before which, up to the 25th, no partition job and no start succeeded.
ReportComplete ==
  \A from, to \in {e.on : e \in happened} :
    ~Before(from, YearBefore(today)) /\ ~Before(to, from) =>
      \A e \in happened :
        InPeriod(e, from, to) /\ e.on.month - 1 \in tended => e \in GetDailyConsumption(from, to)
=============================================================================
