---------------------------- MODULE RetentionProofs ----------------------------
(***************************************************************************)
(* Proofs about Retention: for any calendar, any day of the job, and any   *)
(* number of restarts and of failing statements.                           *)
(***************************************************************************)
EXTENDS Retention, TLAPS

\* The month before which nothing has to be kept on the day t.
Cutoff(t) == YearBefore(t).month

-----------------------------------------------------------------------------
\* The calendar.
LEMMA DayFields ==
  ASSUME NEW t \in Days
  PROVE  /\ t.month \in Nat /\ t.day \in Nat
         /\ t.month \in 1..LastMonth /\ t.day \in 1..DaysIn[t.month]
         /\ t = [month |-> t.month, day |-> t.day]
BY RetentionAssumption DEF Days, Months

LEMMA DayMade ==
  ASSUME NEW m \in 1..LastMonth, NEW d \in 1..DaysIn[m]
  PROVE  [month |-> m, day |-> d] \in Days
BY DEF Days, Months

LEMMA LengthOf ==
  ASSUME NEW m \in 1..(LastMonth + 2)
  PROVE  DaysIn[m] \in Nat /\ DaysIn[m] > 0 /\ JobDay \in Nat /\ JobDay >= 1 /\ JobDay <= DaysIn[m]
BY RetentionAssumption

LEMMA CutoffIs ==
  ASSUME NEW t \in Days
  PROVE  /\ t.month - Year < 1 => Cutoff(t) = 0
         /\ ~(t.month - Year < 1) /\ t.day <= DaysIn[t.month - Year] => Cutoff(t) = t.month - Year
         /\ ~(t.month - Year < 1) /\ ~(t.day <= DaysIn[t.month - Year]) => Cutoff(t) = t.month - Year + 1
BY DEF Cutoff, YearBefore

LEMMA CutoffType ==
  ASSUME NEW t \in Days
  PROVE  Cutoff(t) \in Nat /\ Cutoff(t) <= t.month
<1>1. Year \in Nat /\ Year > 0
  BY RetentionAssumption
<1>2. t.month \in Nat /\ t.month >= 1
  BY DayFields, RetentionAssumption
<1>. QED BY <1>1, <1>2, CutoffIs

\* Time does not bring back a month that may be dropped.
LEMMA CutoffGrows ==
  ASSUME today \in Days, Tomorrow.month <= LastMonth
  PROVE  /\ Tomorrow \in Days /\ today.month <= Tomorrow.month
         /\ Cutoff(today) <= Cutoff(Tomorrow)
<1>1. /\ today.month \in 1..LastMonth /\ today.day \in 1..DaysIn[today.month]
      /\ LastMonth \in Nat /\ Year \in Nat /\ Year > 0
  BY DayFields, RetentionAssumption
<1>2. DaysIn[today.month] \in Nat /\ today.month \in Nat /\ today.day \in Nat
  BY <1>1, LengthOf
<1>3. CASE today.day < DaysIn[today.month]
  <2>1. Tomorrow = [month |-> today.month, day |-> today.day + 1]
    BY <1>3 DEF Tomorrow
  <2>2. Tomorrow \in Days
    BY <1>1, <1>2, <1>3, <2>1, DayMade
  <2>3. Tomorrow.month = today.month /\ Tomorrow.day = today.day + 1
    BY <2>1
  <2>4. CASE today.month - Year < 1
    BY <1>1, <1>2, <2>2, <2>3, <2>4, CutoffIs
  <2>5. CASE ~(today.month - Year < 1)
    <3>1. DaysIn[today.month - Year] \in Nat
      BY <1>1, <1>2, <2>5, LengthOf
    <3>. QED BY <1>1, <1>2, <2>2, <2>3, <2>5, <3>1, CutoffIs
  <2>. QED BY <1>2, <2>2, <2>3, <2>4, <2>5
<1>4. CASE ~(today.day < DaysIn[today.month])
  <2>1. Tomorrow = [month |-> today.month + 1, day |-> 1]
    BY <1>4 DEF Tomorrow
  <2>2. Tomorrow.month = today.month + 1 /\ Tomorrow.day = 1
    BY <2>1
  <2>3. today.month + 1 \in 1..LastMonth /\ 1 \in 1..DaysIn[today.month + 1]
    BY <1>1, <1>2, <2>2, LengthOf
  <2>4. Tomorrow \in Days
    BY <2>1, <2>3, DayMade
  <2>5. CASE today.month + 1 - Year < 1
    BY <1>1, <1>2, <2>2, <2>4, <2>5, CutoffIs
  <2>6. CASE ~(today.month + 1 - Year < 1)
    <3>1. 1 <= DaysIn[today.month + 1 - Year] /\ DaysIn[today.month + 1 - Year] \in Nat
      BY <1>1, <1>2, <2>6, LengthOf
    <3>2. Cutoff(Tomorrow) = today.month + 1 - Year
      BY <1>1, <1>2, <2>2, <2>4, <2>6, <3>1, CutoffIs
    <3>3. Cutoff(today) <= today.month + 1 - Year
      BY <1>1, <1>2, <2>6, CutoffIs
    <3>. QED BY <1>1, <1>2, <2>2, <2>4, <3>2, <3>3
  <2>. QED BY <1>2, <2>2, <2>4, <2>5, <2>6
<1>. QED BY <1>3, <1>4

\* Up to the 25th, the month after today's is the one whose partition is made.
LEMMA NextMonthIs ==
  ASSUME NEW t \in Days
  PROVE  /\ NextMonthOf(t) \in {t.month + 1, t.month + 2}
         /\ t.day <= JobDay => NextMonthOf(t) = t.month + 1
<1>1. t.month \in 1..LastMonth /\ t.day \in Nat /\ LastMonth \in Nat
  BY DayFields, RetentionAssumption
<1>2. JobDay \in Nat /\ DaysIn[t.month + 1] \in Nat /\ JobDay <= DaysIn[t.month + 1]
  BY <1>1, LengthOf
<1>. QED BY <1>1, <1>2 DEF NextMonthOf

-----------------------------------------------------------------------------
\* What the jobs keep.

\* The months that were seen to in time have a partition until they are a year old.
PartsThere == \A m \in tended : m + 1 >= Cutoff(today) => m + 1 \in parts

\* And what happened in them has its row.
RowsThere ==
  \A e \in happened :
    /\ e.on.month <= today.month
    /\ e.on.month - 1 \in tended /\ e.on.month >= Cutoff(today) => e \in events

RetentionInv == RetentionTypeOK /\ PartsThere /\ RowsThere

LEMMA EventFields ==
  ASSUME NEW e \in Events
  PROVE  e.on \in Days /\ e.on.month \in Nat
BY DayFields DEF Events

\* CREATE TABLE, or its failure.
LEMMA EnsureKeeps ==
  ASSUME RetentionInv, EnsureNextMonth, UNCHANGED <<today, events, happened>>
  PROVE  /\ PartsThere' /\ RowsThere'
         /\ parts' \subseteq 1..(today.month + 2) /\ parts \subseteq parts'
         /\ tended' \subseteq 0..LastMonth /\ ddlErrors' \in 0..MaxDdlErrors
<1>1. today \in Days /\ parts \subseteq 1..(today.month + 2) /\ tended \subseteq 0..LastMonth
      /\ ddlErrors \in 0..MaxDdlErrors /\ happened \subseteq Events
  BY DEF RetentionInv, RetentionTypeOK
<1>2. today.month \in 1..LastMonth /\ today.month \in Nat /\ LastMonth \in Nat
  BY <1>1, DayFields, RetentionAssumption
<1>3. CASE DdlError /\ UNCHANGED <<parts, tended>>
  BY <1>1, <1>3, RetentionAssumption DEF DdlError, RetentionInv, PartsThere, RowsThere
<1>4. CASE CreateNext /\ ddlErrors' = ddlErrors
           /\ tended' = IF today.day <= JobDay THEN tended \cup {today.month} ELSE tended
  <2>1. parts' = parts \cup {NextMonthOf(today)} /\ today' = today /\ happened' = happened /\ events' = events
    BY <1>4 DEF CreateNext
  <2>2. parts' \subseteq 1..(today.month + 2) /\ parts \subseteq parts'
    <3>1. NextMonthOf(today) \in {today.month + 1, today.month + 2}
      BY <1>1, NextMonthIs
    <3>2. NextMonthOf(today) \in 1..(today.month + 2)
      BY <1>2, <3>1
    <3>. QED BY <1>1, <2>1, <3>2
  <2>3. tended' \subseteq 0..LastMonth
    <3>1. today.month \in 0..LastMonth
      BY <1>2
    <3>2. tended' \in {tended, tended \cup {today.month}}
      BY <1>4
    <3>. QED BY <1>1, <3>1, <3>2
  <2>4. PartsThere'
    <3>1. \A m \in tended' : m \in tended \/ (m = today.month /\ m + 1 \in parts')
      BY <1>1, <1>4, <2>1, NextMonthIs
    <3>2. Cutoff(today)' = Cutoff(today)
      BY <2>1 DEF Cutoff, YearBefore
    <3>. QED BY <2>1, <3>1, <3>2 DEF RetentionInv, PartsThere
  <2>5. RowsThere'
    <3>1. SUFFICES ASSUME NEW e \in happened
                   PROVE  /\ e.on.month <= today.month
                          /\ e.on.month - 1 \in tended' /\ e.on.month >= Cutoff(today) => e \in events
      BY <2>1 DEF RowsThere, Cutoff, YearBefore
    <3>2. e.on.month \in Nat /\ e.on.month <= today.month
      BY <1>1, EventFields DEF RetentionInv, RowsThere
    <3>3. e.on.month - 1 \in tended' => e.on.month - 1 \in tended
      BY <1>2, <1>4, <3>2
    <3>. QED BY <3>2, <3>3 DEF RetentionInv, RowsThere
  <2>. QED BY <1>1, <1>4, <2>2, <2>3, <2>4, <2>5
<1>. QED BY <1>3, <1>4 DEF EnsureNextMonth

LEMMA StartKeeps == ASSUME RetentionInv, StartBackend PROVE RetentionInv'
<1>1. UNCHANGED <<today, events, happened>> /\ EnsureNextMonth
  BY DEF StartBackend
<1>2. /\ PartsThere' /\ RowsThere'
      /\ parts' \subseteq 1..(today.month + 2) /\ parts \subseteq parts'
      /\ tended' \subseteq 0..LastMonth /\ ddlErrors' \in 0..MaxDdlErrors
  BY <1>1, EnsureKeeps
<1>3. starts' \in 0..MaxStarts
  BY RetentionAssumption DEF StartBackend, RetentionInv, RetentionTypeOK
<1>4. backend' \in {"down", "up", "aligned"} /\ due' \subseteq DueOn(today', backend')
  <2>1. due' \in SUBSET DueOn(today, backend') /\ today' = today
    BY DEF StartBackend
  <2>. QED BY <2>1 DEF StartBackend, DueOn
<1>5. today' \in Days /\ events' \subseteq happened' /\ happened' \subseteq Events
      /\ \A e \in events' : e.on.month \in parts'
  BY <1>1, <1>2 DEF RetentionInv, RetentionTypeOK
<1>6. RetentionTypeOK'
  BY <1>1, <1>2, <1>3, <1>4, <1>5 DEF RetentionTypeOK
<1>. QED BY <1>2, <1>6 DEF RetentionInv

LEMMA PartitionKeeps == ASSUME RetentionInv, PartitionJob PROVE RetentionInv'
<1>1. /\ UNCHANGED <<today, backend, events, happened, starts>> /\ EnsureNextMonth
      /\ due' = due \ {"partition"}
  BY DEF PartitionJob
<1>2. /\ PartsThere' /\ RowsThere'
      /\ parts' \subseteq 1..(today.month + 2) /\ parts \subseteq parts'
      /\ tended' \subseteq 0..LastMonth /\ ddlErrors' \in 0..MaxDdlErrors
  BY <1>1, EnsureKeeps
<1>3. RetentionTypeOK'
  BY <1>1, <1>2 DEF RetentionInv, RetentionTypeOK, DueOn
<1>. QED BY <1>2, <1>3 DEF RetentionInv

\* Only what is more than a year old goes.
LEMMA CleanupKeeps == ASSUME RetentionInv, CleanupJob PROVE RetentionInv'
<1>1. /\ UNCHANGED <<today, backend, happened, tended, starts>> /\ due' = due \ {"cleanup"}
      /\ events' = {e \in events : e.on.month \in parts'}
      /\ ddlErrors' \in {ddlErrors, ddlErrors + 1} /\ (ddlErrors' # ddlErrors => ddlErrors < MaxDdlErrors)
  BY DEF CleanupJob, DdlError
<1>2. parts' \subseteq parts /\ \A m \in parts \ parts' : m < Cutoff(today)
  BY DEF CleanupJob, BeforeCutoff, Cutoff
<1>3. RetentionTypeOK'
  <2>1. ddlErrors' \in 0..MaxDdlErrors
    BY <1>1, RetentionAssumption DEF RetentionInv, RetentionTypeOK
  <2>. QED BY <1>1, <1>2, <2>1 DEF RetentionInv, RetentionTypeOK, DueOn
<1>4. /\ today \in Days /\ tended \subseteq 0..LastMonth /\ happened \subseteq Events /\ LastMonth \in Nat
      /\ \A e \in events : e.on.month \in parts
  BY RetentionAssumption DEF RetentionInv, RetentionTypeOK
<1>5. Cutoff(today)' = Cutoff(today) /\ Cutoff(today) \in Nat /\ today' = today
  BY <1>1, <1>4, CutoffType DEF Cutoff, YearBefore
<1>6. PartsThere'
  <2>1. ASSUME NEW m \in tended, m + 1 >= Cutoff(today)
        PROVE  m + 1 \in parts'
    <3>1. m + 1 \in parts /\ m \in Nat
      BY <1>4, <2>1 DEF RetentionInv, PartsThere
    <3>. QED BY <1>2, <1>5, <2>1, <3>1
  <2>. QED BY <1>1, <1>5, <2>1 DEF PartsThere
<1>7. RowsThere'
  <2>1. ASSUME NEW e \in happened
        PROVE  /\ e.on.month <= today.month
               /\ e.on.month - 1 \in tended /\ e.on.month >= Cutoff(today) => e \in events'
    <3>1. e.on.month \in Nat
      BY <1>4, EventFields
    <3>2. /\ e.on.month <= today.month
          /\ e.on.month - 1 \in tended /\ e.on.month >= Cutoff(today) => e \in events
      BY DEF RetentionInv, RowsThere
    <3>. QED BY <1>1, <1>2, <1>4, <1>5, <3>1, <3>2
  <2>. QED BY <1>1, <1>5, <2>1 DEF RowsThere
<1>. QED BY <1>3, <1>6, <1>7 DEF RetentionInv

LEMMA InsertKeeps == ASSUME RetentionInv, NEW last \in BOOLEAN, InsertEvent(last) PROVE RetentionInv'
<1> DEFINE e == [on |-> today, last |-> last]
<1>1. /\ UNCHANGED <<today, backend, due, parts, tended, ddlErrors, starts>>
      /\ happened' = happened \cup {e}
      /\ events' = IF today.month \in parts THEN events \cup {e} ELSE events
  BY DEF InsertEvent
<1>2. today \in Days /\ e \in Events /\ e.on = today
  BY DEF RetentionInv, RetentionTypeOK, Events
<1> HIDE DEF e
<1>3. RetentionTypeOK'
  BY <1>1, <1>2 DEF RetentionInv, RetentionTypeOK, DueOn
<1>4. Cutoff(today)' = Cutoff(today) /\ Cutoff(today) \in Nat /\ Cutoff(today) <= today.month
      /\ today.month \in Nat
  BY <1>1, <1>2, CutoffType, DayFields DEF Cutoff, YearBefore
<1>5. PartsThere'
  BY <1>1, <1>4 DEF RetentionInv, PartsThere
<1>6. today.month - 1 \in tended => today.month \in parts
  BY <1>4 DEF RetentionInv, PartsThere
<1>7. RowsThere'
  <2>1. ASSUME NEW f \in happened'
        PROVE  /\ f.on.month <= today.month
               /\ f.on.month - 1 \in tended /\ f.on.month >= Cutoff(today) => f \in events'
    <3>1. CASE f = e
      BY <1>1, <1>2, <1>4, <1>6, <3>1
    <3>2. CASE f \in happened
      BY <1>1, <3>2 DEF RetentionInv, RowsThere
    <3>. QED BY <1>1, <2>1, <3>1, <3>2
  <2>. QED BY <1>1, <1>4, <2>1 DEF RowsThere
<1>. QED BY <1>3, <1>5, <1>7 DEF RetentionInv

LEMMA NextDayKeeps == ASSUME RetentionInv, NextDay PROVE RetentionInv'
<1>1. /\ UNCHANGED <<backend, parts, events, happened, tended, ddlErrors, starts>>
      /\ today' = Tomorrow /\ Tomorrow.month <= LastMonth /\ due' = DueOn(Tomorrow, backend)
  BY DEF NextDay
<1>2. today \in Days /\ tended \subseteq 0..LastMonth /\ happened \subseteq Events
      /\ parts \subseteq 1..(today.month + 2) /\ LastMonth \in Nat
  BY RetentionAssumption DEF RetentionInv, RetentionTypeOK
<1>3. /\ today' \in Days /\ today.month <= today'.month /\ Cutoff(today) <= Cutoff(today')
  BY <1>1, <1>2, CutoffGrows
<1>4. /\ today.month \in Nat /\ today'.month \in Nat /\ Cutoff(today) \in Nat /\ Cutoff(today') \in Nat
  BY <1>2, <1>3, DayFields, CutoffType
<1>5. Cutoff(today)' = Cutoff(today')
  BY DEF Cutoff, YearBefore
<1>6. RetentionTypeOK'
  <2>1. parts' \subseteq 1..(today'.month + 2)
    BY <1>1, <1>2, <1>3, <1>4
  <2>2. due' \subseteq DueOn(today', backend')
    BY <1>1
  <2>. QED BY <1>1, <1>3, <2>1, <2>2 DEF RetentionInv, RetentionTypeOK
<1>7. PartsThere'
  <2>1. ASSUME NEW m \in tended, m + 1 >= Cutoff(today')
        PROVE  m + 1 \in parts
    BY <1>2, <1>3, <1>4, <2>1 DEF RetentionInv, PartsThere
  <2>. QED BY <1>1, <1>5, <2>1 DEF PartsThere
<1>8. RowsThere'
  <2>1. ASSUME NEW e \in happened
        PROVE  /\ e.on.month <= today'.month
               /\ e.on.month - 1 \in tended /\ e.on.month >= Cutoff(today') => e \in events
    <3>1. e.on.month \in Nat
      BY <1>2, EventFields
    <3>. QED BY <1>3, <1>4, <3>1 DEF RetentionInv, RowsThere
  <2>. QED BY <1>1, <1>5, <2>1 DEF RowsThere
<1>. QED BY <1>6, <1>7, <1>8 DEF RetentionInv

LEMMA StopKeeps == ASSUME RetentionInv, StopBackend PROVE RetentionInv'
<1>1. UNCHANGED <<today, parts, events, happened, tended, ddlErrors, starts>>
      /\ backend' = "down" /\ due' = {}
  BY DEF StopBackend
<1>2. Cutoff(today)' = Cutoff(today)
  BY <1>1 DEF Cutoff, YearBefore
<1>. QED BY <1>1, <1>2 DEF RetentionInv, RetentionTypeOK, PartsThere, RowsThere

LEMMA RetentionStep == ASSUME RetentionInv, [RetentionNext]_retentionVars PROVE RetentionInv'
<1>1. CASE UNCHANGED retentionVars
  <2>1. Cutoff(today)' = Cutoff(today) /\ DueOn(today, backend)' = DueOn(today, backend)
    BY <1>1 DEF Cutoff, YearBefore, DueOn, retentionVars
  <2>. QED BY <1>1, <2>1 DEF retentionVars, RetentionInv, RetentionTypeOK, PartsThere, RowsThere
<1>. QED BY <1>1, StartKeeps, StopKeeps, PartitionKeeps, CleanupKeeps, InsertKeeps, NextDayKeeps
         DEF RetentionNext

LEMMA RetentionStarts == RetentionInit => RetentionInv
<1>. SUFFICES ASSUME RetentionInit PROVE RetentionInv
  OBVIOUS
<1>1. 1 \in 1..LastMonth /\ LastMonth \in Nat /\ LastMonth >= 2
  BY RetentionAssumption
<1>2. 1 \in 1..DaysIn[1]
  BY <1>1, LengthOf
<1>3. today \in Days /\ today.month = 1
  BY <1>1, <1>2, DayMade DEF RetentionInit
<1>4. RetentionTypeOK
  BY <1>1, <1>3, RetentionAssumption DEF RetentionInit, RetentionTypeOK
<1>5. PartsThere /\ RowsThere
  BY DEF RetentionInit, PartsThere, RowsThere
<1>. QED BY <1>4, <1>5 DEF RetentionInv

LEMMA ReportFollows == RetentionInv => ReportComplete
<1>. SUFFICES ASSUME RetentionInv,
                     NEW from \in {e.on : e \in happened}, NEW to \in {e.on : e \in happened},
                     ~Before(from, YearBefore(today)), NEW e \in happened, InPeriod(e, from, to),
                     e.on.month - 1 \in tended
              PROVE  e \in GetDailyConsumption(from, to)
  BY DEF ReportComplete
<1>1. /\ today \in Days /\ happened \subseteq Events
  BY DEF RetentionInv, RetentionTypeOK
<1>2. from \in Days /\ e.on \in Days
  BY <1>1, EventFields
<1>3. from.month \in Nat /\ e.on.month \in Nat /\ Cutoff(today) \in Nat
  BY <1>1, <1>2, DayFields, CutoffType
<1>4. from.month >= Cutoff(today)
  BY <1>3 DEF Before, Cutoff
<1>5. e.on.month >= from.month
  BY <1>3 DEF InPeriod, Before
<1>6. e \in events
  BY <1>3, <1>4, <1>5 DEF RetentionInv, RowsThere
<1>. QED BY <1>6 DEF GetDailyConsumption

-----------------------------------------------------------------------------
\* The state keeps its kinds, whatever the calendar and the failures: each row is
\* in a partition that exists.
THEOREM RetentionTypeCorrect == RetentionSpec => []RetentionTypeOK
BY RetentionStarts, RetentionStep, PTL DEF RetentionSpec, RetentionInv

\* For any calendar and any day of the month on which the job runs, no restart,
\* failure or missed day takes an event of the last year from a report: a month
\* seen to in time keeps its partition for a year, and its rows with it.
THEOREM ReportCorrect == RetentionSpec => []ReportComplete
BY RetentionStarts, RetentionStep, ReportFollows, PTL DEF RetentionSpec
=============================================================================
