----------------------------- MODULE Statistics -----------------------------
(***************************************************************************)
(* What readers make of the counters: /v1/stats returns the snapshot as it *)
(* is, ui/gradio_app.py looks up the cells of its two tables in it.        *)
(***************************************************************************)
EXTENDS Analytics, FiniteSets, Functions

ASSUME StatisticsAssumption == IsFiniteSet(Instant)

\* stats(), and GET /v1/stats with it: the snapshot, without the lock.
stats == [access |-> [p \in Period |-> snapshot[<<"access", p>>]],
          tokens |-> [p \in Period |-> snapshot[<<"tokens", p>>]],
          healthy |-> healthy]

\* The count a table of the UI shows in a column, 0 where there is no such
\* period.
Column(bucket, period) == IF period \in DOMAIN bucket THEN bucket[period] ELSE 0

Columns == {"daily", "weekly", "monthly", "yearly"}

DaysTotal(metric, days) ==
  SumFunctionOnSet([n \in Instant |-> stats[metric][DayKey(n)]], days)

\* A process that began with an empty store shows buckets that add up: each ISO
\* week has what its seven days have, across midnight and the turn of the year,
\* and the total has what all days have.
BucketsAddUp ==
  starts = 1 => \A m \in Metric :
    /\ stats[m][Total] = DaysTotal(m, Instant)
    /\ \A i \in Instant :
         stats[m][WeekKey(i)] =
           DaysTotal(m, {n \in Instant : (n - 1) \div 7 = (i - 1) \div 7})

\* "Aggregated usage counters (per model and period)": whenever an access is
\* counted, the day, week, month and year columns of the UI's table include it.
UiShowsPeriods ==
  [][(\E i \in Instant, t \in Token : Access(i, t)) =>
       \A column \in Columns : Column(stats.access, <<column>>)' # 0]_vars
=============================================================================
