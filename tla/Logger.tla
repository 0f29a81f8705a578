------------------------------- MODULE Logger -------------------------------
(***************************************************************************)
(* laige::log::Logger (laige-core/logging.cpp) under threads that record    *)
(* events and shut it down, with a sink that serialises itself (FileSink,   *)
(* ConsoleSink).                                                            *)
(*                                                                          *)
(* A recorded event of a limited severity goes to the sink once per window; *)
(* the others of the window are counted, and the count is reported before   *)
(* the next record that opens a window, or by shutdown.  The facade's lock  *)
(* is held while this is decided and released before the sink is called.    *)
(*                                                                          *)
(* An event stands for a subsystem, a name and a severity.  Levels and the  *)
(* Fatal severity, whose record ends the process, are left out.             *)
(***************************************************************************)
EXTENDS Integers, FiniteSets, Functions

CONSTANTS
    LogThreads, NoThread,
    Events,    \* events recorded
    Limited,   \* those of severity Warn or Error
    RateWindow, \* LoggerOptions::rateWindow
    MaxTime,   \* bound: clock readings
    MaxCalls   \* bound: calls of record and shutdown

ASSUME LoggerAssumption ==
    /\ IsFiniteSet(LogThreads) /\ NoThread \notin LogThreads /\ Events # {}
    /\ RateWindow \in Nat /\ MaxTime \in Nat /\ MaxCalls \in Nat

ClockTimes == 0..MaxTime

VARIABLES
    now,        \* the clock: system_clock, which may be set back
    retired,    \* retired_
    rates,      \* rates_: per event, whether it was let through, when last,
                \* and how many were suppressed since
    \* per thread: where it is, the event, its time stamp, and, in record,
    \* the suppressed count it has to report
    logPc, event, stamp, summary,
    pending,    \* per thread in shutdown: the counts it has to report
    \* the sink
    lock,       \* the holder of the sink's mutex
    dirty,      \* something written is not flushed
    logged,     \* per event, records written
    told,       \* per event, suppressed records reported
    \* history
    calls,
    dispatched, \* per event, records that passed the facade's lock
    forgotten,  \* per event, suppressed records whose count init discarded
    epoch,      \* how often the rates were cleared
    passed,     \* per event, the <<epoch, stamp, number>> of records let through
    quiet       \* no record was under way when the logger last retired

threadVars == <<logPc, event, stamp, summary, pending>>
sinkVars == <<lock, dirty, logged, told>>
loggerHistory == <<calls, dispatched, forgotten, epoch, passed, quiet>>
loggerVars == <<now, retired, rates, threadVars, sinkVars, loggerHistory>>

NoRate == [ever |-> FALSE, last |-> 0, suppressed |-> 0]
NoCounts == [e \in Events |-> 0]

LoggerInit ==
    /\ now = 0
    /\ retired = FALSE
    /\ rates = [e \in Events |-> NoRate]
    /\ logPc = [t \in LogThreads |-> "idle"]
    /\ event = [t \in LogThreads |-> CHOOSE e \in Events : TRUE]
    /\ stamp = [t \in LogThreads |-> 0]
    /\ summary = [t \in LogThreads |-> 0]
    /\ pending = [t \in LogThreads |-> NoCounts]
    /\ lock = NoThread
    /\ dirty = FALSE
    /\ logged = NoCounts
    /\ told = NoCounts
    /\ calls = 0
    /\ dispatched = NoCounts
    /\ forgotten = NoCounts
    /\ epoch = 0
    /\ passed = [e \in Events |-> {}]
    /\ quiet = TRUE

Goes(t, from, to) == logPc[t] = from /\ logPc' = [logPc EXCEPT ![t] = to]

ClockMoves ==
    /\ now' \in ClockTimes \ {now}
    /\ UNCHANGED <<retired, rates, threadVars, sinkVars, loggerHistory>>

-----------------------------------------------------------------------------
(* record *)

\* enabled() and record() find the logger not retired.
Call(t, e) ==
    /\ calls < MaxCalls
    /\ ~retired
    /\ Goes(t, "idle", "checked")
    /\ event' = [event EXCEPT ![t] = e]
    /\ calls' = calls + 1
    /\ UNCHANGED <<now, retired, rates, stamp, summary, pending, sinkVars,
                   dispatched, forgotten, epoch, passed, quiet>>

Stamp(t) ==
    /\ Goes(t, "checked", "stamped")
    /\ stamp' = [stamp EXCEPT ![t] = now]
    /\ UNCHANGED <<now, retired, rates, event, summary, pending, sinkVars, loggerHistory>>

OpensWindow(t) ==
    LET rate == rates[event[t]]
    IN  ~rate.ever \/ stamp[t] - rate.last >= RateWindow

DispatchUnlimited(t) ==
    /\ event[t] \notin Limited
    /\ Goes(t, "stamped", "emit")
    /\ dispatched' = [dispatched EXCEPT ![event[t]] = @ + 1]
    /\ UNCHANGED <<now, retired, rates, event, stamp, summary, pending, sinkVars,
                   calls, forgotten, epoch, passed, quiet>>

DispatchSuppressed(t) ==
    /\ event[t] \in Limited
    /\ ~OpensWindow(t)
    /\ Goes(t, "stamped", "idle")
    /\ rates' = [rates EXCEPT ![event[t]].suppressed = @ + 1]
    /\ dispatched' = [dispatched EXCEPT ![event[t]] = @ + 1]
    /\ UNCHANGED <<now, retired, event, stamp, summary, pending, sinkVars,
                   calls, forgotten, epoch, passed, quiet>>

\* Faulty variant: the count is kept when it is handed over.
RateReportedTwice(e, time) == [rates[e] EXCEPT !.ever = TRUE, !.last = time]
RateAfter(e, time) == [ever |-> TRUE, last |-> time, suppressed |-> 0]

DispatchPassed(t) ==
    /\ event[t] \in Limited
    /\ OpensWindow(t)
    /\ Goes(t, "stamped", IF rates[event[t]].suppressed > 0 THEN "report" ELSE "emit")
    /\ summary' = [summary EXCEPT ![t] = rates[event[t]].suppressed]
    /\ rates' = [rates EXCEPT ![event[t]] = RateAfter(event[t], stamp[t])]
    /\ dispatched' = [dispatched EXCEPT ![event[t]] = @ + 1]
    /\ passed' = [passed EXCEPT ![event[t]] = @ \cup
                   {<<epoch, stamp[t], dispatched[event[t]]>>}]
    /\ UNCHANGED <<now, retired, event, stamp, pending, sinkVars,
                   calls, forgotten, epoch, quiet>>

\* The sink takes its mutex, writes and releases it: the record or a summary.
LockSink(t) ==
    /\ \/ Goes(t, "report", "reporting")
       \/ Goes(t, "emit", "emitting")
    /\ lock = NoThread
    /\ lock' = t
    /\ UNCHANGED <<now, retired, rates, event, stamp, summary, pending,
                   dirty, logged, told, loggerHistory>>

WriteSummary(t) ==
    /\ Goes(t, "reporting", "emit")
    /\ lock' = NoThread
    /\ dirty' = TRUE
    /\ told' = [told EXCEPT ![event[t]] = @ + summary[t]]
    /\ summary' = [summary EXCEPT ![t] = 0]
    /\ UNCHANGED <<now, retired, rates, event, stamp, pending, logged, loggerHistory>>

WriteRecord(t) ==
    /\ Goes(t, "emitting", "idle")
    /\ lock' = NoThread
    /\ dirty' = TRUE
    /\ logged' = [logged EXCEPT ![event[t]] = @ + 1]
    /\ UNCHANGED <<now, retired, rates, event, stamp, summary, pending, told,
                   loggerHistory>>

-----------------------------------------------------------------------------
(* shutdown and init *)

Shutdown(t) ==
    /\ calls < MaxCalls
    /\ Goes(t, "idle", "retire")
    /\ calls' = calls + 1
    /\ UNCHANGED <<now, retired, rates, event, stamp, summary, pending, sinkVars,
                   dispatched, forgotten, epoch, passed, quiet>>

\* Under the facade's lock: retire, take the counts, clear the rates.
Retire(t) ==
    /\ Goes(t, "retire", "drain")
    /\ retired' = TRUE
    /\ pending' = [pending EXCEPT ![t] = [e \in Events |-> rates[e].suppressed]]
    /\ rates' = [e \in Events |-> NoRate]
    /\ epoch' = epoch + 1
    /\ quiet' = \A s \in LogThreads \ {t} : logPc[s] \in {"idle", "retire"}
    /\ UNCHANGED <<now, event, stamp, summary, sinkVars,
                   calls, dispatched, forgotten, passed>>

DrainLock(t, e) ==
    /\ Goes(t, "drain", "draining")
    /\ pending[t][e] > 0
    /\ lock = NoThread
    /\ lock' = t
    /\ event' = [event EXCEPT ![t] = e]
    /\ UNCHANGED <<now, retired, rates, stamp, summary, pending,
                   dirty, logged, told, loggerHistory>>

DrainWrite(t) ==
    /\ Goes(t, "draining", "drain")
    /\ lock' = NoThread
    /\ dirty' = TRUE
    /\ told' = [told EXCEPT ![event[t]] = @ + pending[t][event[t]]]
    /\ pending' = [pending EXCEPT ![t][event[t]] = 0]
    /\ UNCHANGED <<now, retired, rates, event, stamp, summary, logged, loggerHistory>>

\* The sink's flush only tries its mutex: it is also called from a crash.
Flush(t) ==
    /\ Goes(t, "drain", "idle")
    /\ pending[t] = NoCounts
    /\ dirty' = IF lock = NoThread THEN FALSE ELSE dirty
    /\ UNCHANGED <<now, retired, rates, event, stamp, summary, pending,
                   lock, logged, told, loggerHistory>>

\* init, which its contract keeps apart from logging: the old sink is
\* flushed and replaced, the rates are cleared.
InitLogger ==
    /\ calls < MaxCalls
    /\ calls' = calls + 1
    /\ \A t \in LogThreads : logPc[t] = "idle"
    /\ forgotten' = [e \in Events |-> forgotten[e] + rates[e].suppressed]
    /\ rates' = [e \in Events |-> NoRate]
    /\ epoch' = epoch + 1
    /\ retired' = FALSE
    /\ dirty' = FALSE
    /\ UNCHANGED <<now, threadVars, lock, logged, told, dispatched, passed, quiet>>

LoggerNext ==
    \/ ClockMoves
    \/ InitLogger
    \/ \E t \in LogThreads :
         \/ \E e \in Events : Call(t, e) \/ DrainLock(t, e)
         \/ Stamp(t)
         \/ DispatchUnlimited(t) \/ DispatchSuppressed(t) \/ DispatchPassed(t)
         \/ LockSink(t) \/ WriteSummary(t) \/ WriteRecord(t)
         \/ Shutdown(t) \/ Retire(t) \/ DrainWrite(t) \/ Flush(t)

LoggerSpec == LoggerInit /\ [][LoggerNext]_loggerVars

-----------------------------------------------------------------------------
(* Properties *)

Writing == {"reporting", "emitting", "draining"}

LoggerTypeOK ==
    /\ now \in ClockTimes
    /\ retired \in BOOLEAN
    /\ rates \in [Events -> [ever : BOOLEAN, last : ClockTimes, suppressed : 0..MaxCalls]]
    /\ logPc \in [LogThreads -> Writing \cup {"idle", "checked", "stamped", "report",
                                        "emit", "retire", "drain"}]
    /\ event \in [LogThreads -> Events]
    /\ stamp \in [LogThreads -> ClockTimes]
    /\ summary \in [LogThreads -> 0..MaxCalls]
    /\ pending \in [LogThreads -> [Events -> 0..MaxCalls]]
    /\ \A t \in LogThreads : logPc[t] \in Writing <=> lock = t

\* Threads with a record of e that passed the window and is not written yet.
Emitting(e) ==
    {t \in LogThreads : event[t] = e /\ logPc[t] \in {"report", "reporting", "emit", "emitting"}}

\* The suppressed records of e whose count some thread has taken to report.
Reporting(e) ==
    SumFunction([t \in LogThreads |-> pending[t][e] + IF event[t] = e THEN summary[t] ELSE 0])

\* Every record that passed the facade is written, on its way, or counted
\* once: in the rates, in a report on its way, in one written, or in those
\* an init discarded.
BooksBalance ==
    \A e \in Events :
        dispatched[e] = logged[e] + Cardinality(Emitting(e)) + rates[e].suppressed
                          + told[e] + Reporting(e) + forgotten[e]

\* Records of one event let through between two clearings of the rates are
\* a window apart, however the threads took their time stamps and whatever
\* the clock did.
OnePerWindow ==
    \A e \in Events : \A p, q \in passed[e] :
        p # q /\ p[1] = q[1] => p[2] - q[2] >= RateWindow \/ q[2] - p[2] >= RateWindow

\* If no record was under way when the logger retired, then once its calls
\* have returned everything suppressed is reported and all output flushed.
QuietShutdownComplete ==
    retired /\ quiet /\ (\A t \in LogThreads : logPc[t] = "idle") =>
        /\ ~dirty
        /\ \A e \in Events : rates[e].suppressed = 0
        /\ \A e \in Events : dispatched[e] = logged[e] + told[e] + forgotten[e]

\* No record is lost or counted twice between the rate windows, the reports
\* and an init; one event's records are a window apart; and a shutdown with no
\* record under way leaves nothing unreported or unflushed (logging.cpp).
SuppressedAreReported == BooksBalance /\ OnePerWindow /\ QuietShutdownComplete

=============================================================================
