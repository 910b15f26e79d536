------------------------------ MODULE Analytics ------------------------------
(***************************************************************************)
(* One event type of the analytics module: facts ingested from events that  *)
(* arrive late and more than once, and the daily rollup that sweeps, which  *)
(* may overlap, recompute over the last days.  A rollup reads its window in *)
(* one query and writes a row per day afterwards.                           *)
(***************************************************************************)
EXTENDS Naturals, FiniteSets

CONSTANTS
  FactEvents,   \* events of the type
  RollupRuns,   \* runs of runRecent that may be under way at once
  LookbackDays, \* LOOKBACK_DAYS
  LastDay       \* bound on the calendar of a behaviour

ASSUME AnalyticsAssumption == LookbackDays \in Nat /\ LastDay \in Nat /\ IsFiniteSet(FactEvents)

VARIABLES
  calendar,    \* platformToday()
  occurredOn,  \* the day each event occurred; LastDay + 1 before it does
  facts,       \* analytics.events: how many rows each event has
  metric,      \* analytics.daily_metrics: count_value of each day
  rollup,      \* the runs: what each has read and which days it still writes
  changed,     \* observer: days with facts no rollup has read
  overtaken    \* observer: days written by a run that another run overlapped

analyticsVars == <<calendar, occurredOn, facts, metric, rollup, changed, overtaken>>

Days == 0 .. LastDay
Never == LastDay + 1
\* COUNT(*) ... GROUP BY occurred_on; one row per event is the table's key, so the
\* sum over the events of a day is counted row by row.
FactRows(day) == {row \in FactEvents \X (1 .. 2) : occurredOn[row[1]] = day /\ row[2] <= facts[row[1]]}
CountOn(day) == Cardinality(FactRows(day))

AnalyticsTypeOK ==
  /\ calendar \in Days /\ occurredOn \in [FactEvents -> 0 .. Never]
  /\ facts \in [FactEvents -> 0 .. 2] /\ metric \in [Days -> Nat]
  /\ \A r \in RollupRuns : rollup[r].toWrite \subseteq Days
  /\ changed \subseteq Days /\ overtaken \subseteq Days

AnalyticsInit ==
  /\ calendar = 0
  /\ occurredOn = [e \in FactEvents |-> Never]
  /\ facts = [e \in FactEvents |-> 0]
  /\ metric = [d \in Days |-> 0]
  /\ rollup = [r \in RollupRuns |-> [read |-> metric, toWrite |-> {}]]
  /\ changed = {} /\ overtaken = {}

FactOccurs(e) ==
  /\ occurredOn[e] = Never
  /\ occurredOn' = [occurredOn EXCEPT ![e] = calendar]
  /\ UNCHANGED <<calendar, facts, metric, rollup, changed, overtaken>>

\* insertOnce on event_id.
InsertsFact(e) == facts[e] = 0

\* ingest: dated by the payload, whenever it is delivered.
Ingest(e) ==
  /\ occurredOn[e] # Never /\ InsertsFact(e)
  /\ facts' = [facts EXCEPT ![e] = @ + 1]
  /\ changed' = changed \union {occurredOn[e]}
  /\ UNCHANGED <<calendar, occurredOn, metric, rollup, overtaken>>

\* runRecent: from LOOKBACK_DAYS ago to today.
Window == {d \in Days : d <= calendar /\ d + LookbackDays >= calendar}
Busy(r) == rollup[r].toWrite # {}

\* computeRollup's query: a day without facts has no group and is not written.
ReadWindow(r) ==
  LET window == {d \in Window : CountOn(d) > 0} IN
  /\ ~Busy(r) /\ window # {}
  /\ rollup' = [rollup EXCEPT ![r] = [read |-> [d \in Days |-> CountOn(d)], toWrite |-> window]]
  /\ changed' = changed \ window
  /\ overtaken' = (overtaken \ window)
                    \union {d \in window : \E q \in RollupRuns \ {r} : d \in rollup[q].toWrite}
  /\ UNCHANGED <<calendar, occurredOn, facts, metric>>

\* Mutant: the row is incremented.
Accumulated(r, day) == metric[day] + rollup[r].read[day]
\* upsert: recompute replaces.
Replaced(r, day) == rollup[r].read[day]

WriteDay(r, day) ==
  /\ day \in rollup[r].toWrite
  /\ metric' = [metric EXCEPT ![day] = Replaced(r, day)]
  /\ rollup' = [rollup EXCEPT ![r].toWrite = @ \ {day}]
  /\ UNCHANGED <<calendar, occurredOn, facts, changed, overtaken>>

\* A failed run leaves the rest of its days to the next one.
RollupFails(r) ==
  /\ Busy(r)
  /\ rollup' = [rollup EXCEPT ![r].toWrite = {}]
  /\ changed' = changed \union rollup[r].toWrite
  /\ UNCHANGED <<calendar, occurredOn, facts, metric, overtaken>>

Midnight ==
  /\ calendar < LastDay /\ calendar' = calendar + 1
  /\ UNCHANGED <<occurredOn, facts, metric, rollup, changed, overtaken>>

AnalyticsNext ==
  \/ \E e \in FactEvents : FactOccurs(e) \/ Ingest(e)
  \/ \E r \in RollupRuns : ReadWindow(r) \/ RollupFails(r) \/ \E day \in Days : WriteDay(r, day)
  \/ Midnight

AnalyticsSpec == AnalyticsInit /\ [][AnalyticsNext]_analyticsVars

---------------------------------------------------------------------------
\* A metric counts an event of its day at most once, however often the event was
\* delivered and the day recomputed (ingest, "recompute REPLACES, never appends").
NeverOvercounted == \A d \in Days : metric[d] <= Cardinality({e \in FactEvents : occurredOn[e] = d})

\* A day whose facts a rollup has read, and that no run is about to write, shows
\* exactly its facts: a late fact inside the lookback window is picked up and a
\* redelivered one is not, unless two runs overlapped (runRecent, upsert).
RollupExact ==
  \A d \in Days \ (changed \union overtaken) :
    (\A r \in RollupRuns : d \notin rollup[r].toWrite) => metric[d] = CountOn(d)

\* Daily metrics count each event once and are exact where no two runs overlapped.
MetricsCountOnce == AnalyticsTypeOK /\ NeverOvercounted /\ RollupExact
=============================================================================
