-------------------------------- MODULE Activity --------------------------------
(***************************************************************************)
(* The second half of the hourly ingest run: the detailed activity events  *)
(* are kept for a window and reduced to daily totals                       *)
(* (rollup_persisted_activity of workers/usage_ingest.py, services/usage.py,*)
(* the event and aggregate collections of adapters/firestore_store.py).    *)
(* Dashboards and schedule gateways append events all the time, the latter *)
(* under the hour of their tick. One count stands for the eight counters   *)
(* of an aggregate.                                                        *)
(***************************************************************************)
EXTENDS Costs

CONSTANTS Everyone,     \* the organisation's own total (user_id None)
          DayLength,    \* a UTC day
          Retention,    \* plan_activity_retention keeps 30 days
          TickDelay     \* how late a tick's event may be recorded

ASSUME ActivityBounds ==
    /\ Everyone \notin People
    /\ DayLength \in Nat \ {0}
    /\ {Retention, TickDelay} \subseteq Nat

VARIABLES events,  \* the detailed activity events
          totals   \* the daily aggregates: a count, or NoTotal

activityVars == <<events, totals>>

\* as the models have them; the id of an event is whatever tells it apart
ActivityEvent == [id : Nat, by : People, at : 0..MaxTime]
Cells   == {t \div DayLength : t \in 0..MaxTime} \X (People \cup {Everyone})
NoTotal == -1

DayOf(x)    == x.at \div DayLength
InCell(x,c) == DayOf(x) = c[1] /\ c[2] \in {x.by, Everyone}
Count(c, xs) == Cardinality({x \in xs : InCell(x, c)})

\* _validate_event_time: one event later than the run's instant fails it
AllBefore(t) == \A x \in events : x.at <= t

Rolling(i, pc) == ingest[i].pc = pc /\ Alive(i)

(***************************************************************************)
(* Recording.                                                              *)
(***************************************************************************)

\* append_activity_event
RecordEvent(p, at) ==
    /\ Spend("visits")
    /\ events' = events \cup {[id |-> budget["visits"], by |-> p, at |-> at]}
    /\ UNCHANGED <<totals, ingest, costLease>>

\* a dashboard is looked at now, a schedule runs for an earlier tick
RecordVisit(p) == RecordEvent(p, now)
RecordRun(p)   == \E at \in (now - TickDelay)..now \cap Nat : RecordEvent(p, at)

(***************************************************************************)
(* The rollup.                                                             *)
(***************************************************************************)

\* plan_activity_retention, at the run's instant
PastRetention(t) == {x \in events : x.at < t - Retention}

PlanRetention(i) ==
    /\ Rolling(i, "billed")
    /\ IF AllBefore(ingest[i].now)
       THEN /\ ingest' = [ingest EXCEPT ![i].pc = "expiring",
                                        ![i].known = PastRetention(ingest[i].now)]
            /\ UNCHANGED costLease
       ELSE RunFails(i)
    /\ UNCHANGED <<events, totals, budget>>

\* expire_activity_events: one transaction, whose answer may be lost
ExpireEvents(i) ==
    /\ Rolling(i, "expiring")
    /\ \/ /\ events' = events \ ingest[i].known
          /\ RunsTo(i, "counting")
          /\ UNCHANGED <<costLease, budget>>
       \/ /\ events' \in {events, events \ ingest[i].known}
          /\ RunFails(i) /\ Spend("trouble")
    /\ UNCHANGED totals

Touched(xs) == {c \in Cells : Count(c, xs) > 0}

\* a bug: only the days that lost an event are counted again
CountedIfTouched(i) == Touched(ingest[i].known)

\* the cells of every day that keeps or has just lost an event
Counted(i) == Touched(events) \cup Touched(ingest[i].known)

\* aggregate_daily_activity over what is still stored, which is zero for
\* whom or for what day nothing is
Aggregate(i) ==
    /\ Rolling(i, "counting")
    /\ IF AllBefore(ingest[i].now)
       THEN /\ ingest' = [ingest EXCEPT ![i].pc = "rolling",
                   ![i].rows = [c \in Counted(i) |-> Count(c, events)]]
            /\ UNCHANGED costLease
       ELSE RunFails(i)
    /\ UNCHANGED <<events, totals, budget>>

\* _upsert_aggregate: created, or saved over the version just read; one
\* after the other, and the process may end between any two
UpsertAggregate(i) ==
    /\ Rolling(i, "rolling")
    /\ \E c \in DOMAIN ingest[i].rows :
          LET written == [totals EXCEPT ![c] = ingest[i].rows[c]]
          IN  \/ /\ totals' = written
                 /\ ingest' = [ingest EXCEPT
                        ![i].rows = [x \in DOMAIN ingest[i].rows \ {c} |-> ingest[i].rows[x]]]
                 /\ UNCHANGED <<costLease, budget>>
              \/ /\ totals' \in {totals, written}
                 /\ RunFails(i) /\ Spend("trouble")
    /\ UNCHANGED events

RollupDone(i) ==
    /\ Rolling(i, "rolling") /\ ingest[i].rows = <<>>
    /\ RunsTo(i, "completed")
    /\ UNCHANGED <<events, totals, costLease, budget>>

ActivityInit ==
    /\ events = {}
    /\ totals = [c \in Cells |-> NoTotal]

ActivityNext ==
    \/ \E p \in People : RecordVisit(p) \/ RecordRun(p)
    \/ \E i \in Runs : \/ PlanRetention(i) \/ ExpireEvents(i) \/ Aggregate(i)
                       \/ UpsertAggregate(i) \/ RollupDone(i)

--------------------------------------------------------------------------------

ActivityTypeOK ==
    /\ events \subseteq ActivityEvent
    /\ \A c \in Cells : totals[c] \in Nat \cup {NoTotal}

(***************************************************************************)
(* Whatever earlier runs left half written, a run that reports success has *)
(* caught up: for a day none of whose events is due to expire, no total    *)
(* counts an event that is not stored, and none misses an event that was   *)
(* recorded before the run began (rollup_persisted_activity,               *)
(* _upsert_aggregate).                                                     *)
(***************************************************************************)
RollupCatchesUp ==
    [][\A i \in Runs : ingest[i].pc # "completed" /\ ingest'[i].pc = "completed" =>
           \A c \in Cells : c[1] * DayLength >= ingest[i].now - Retention =>
               LET certain == {x \in events : x.at + TickDelay < ingest[i].now}
                   total   == IF totals[c] = NoTotal THEN 0 ELSE totals[c]
               IN  total \in Count(c, certain)..Count(c, events)]_ingest

================================================================================
