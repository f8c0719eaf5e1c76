-------------------------------- MODULE LogReplay --------------------------------
(***************************************************************************)
(* lib/emulator.cc: the outer loop, populate_access_log_cache, over the    *)
(* steps of Emulator: every line of the log, those passed over included,   *)
(* what process_access_log_line returns for it and what is counted of it,  *)
(* up to the end of the log.                                               *)
(***************************************************************************)
EXTENDS Emulator, Sequences

CONSTANT MaxLines   \* bound on the lines of the log

ASSUME ReplayAssumption == MaxLines \in Nat

VARIABLES
  lines_processed, lines_skipped,   \* (lines_unprocessed is never incremented)
  running,      \* "yes", "ended" with the log, or "aborted" by an exception
  reported,     \* history: the number of URLs of all reports so far
  reports,      \* history: of each report, the times of its requests
  unreported,   \* history: the times of the requests no report has counted yet
  written       \* history: layer -> the keys it has ever written to its disk

counts == <<lines_processed, lines_skipped, running>>
replayVars == <<counts, reported, reports, unreported, written>>
allVars == <<vars, replayVars>>

ReplayTypeOK ==
  /\ TypeOK
  /\ lines_processed \in 0..MaxLines
  /\ lines_skipped \in 0..MaxLines
  /\ running \in {"yes", "ended", "aborted"}
  /\ reported \in 0..MaxLines
  /\ reports \in Seq(Seq(Nat))
  /\ unreported \in Seq(Nat)
  /\ written \in [Layers -> SUBSET Keys]

ReplayInit ==
  /\ Init
  /\ lines_processed = 0
  /\ lines_skipped = 0
  /\ running = "yes"
  /\ reported = 0
  /\ reports = <<>>
  /\ unreported = <<>>
  /\ written = [i \in Layers |-> {}]

\* The bound: lines that leave a trace.
MoreLines == running = "yes" /\ lines_processed + lines_skipped < MaxLines

-------------------------------------------------------------------------------
(* process_access_log_line *)

\* set_status_string_and_code: at the slash the status field falls into two
\* words, the cache status and the code; both are fetched with at.
HasStatusAndCode(line) == line.status_tokens >= 2

\* An empty line; a size that is no number, which is looked at before the
\* byte count is fetched; a byte count that is none; a cache status that
\* says that nothing was cached.
Returns0(line) ==
  \/ line.fields = 0
  \/ line.fields >= 2 /\ "size" \notin line.numeric
  \/ line.fields >= 5 /\ "bytes_out" \notin line.numeric
  \/ line.fields >= 5 /\ HasStatusAndCode(line) /\ line.status \in BadStatuses

\* Every field is fetched with at as well: at throws when there is none, and
\* nobody catches it.
Throws(line) == ~Returns0(line) /\ (line.fields < 6 \/ ~HasStatusAndCode(line))

\* No URL, or a status code outside 200..400.
Returns2(line) ==
  /\ ~Throws(line)
  /\ ~Returns0(line)
  /\ line.url = "" \/ line.code \notin 200..400

-------------------------------------------------------------------------------
(* Faulty variants of the steps below *)

\* The line is counted when it is read, a report not yet made included.
ReadCounting(line, ts) ==
  /\ MoreLines
  /\ ~Returns0(line) /\ ~Throws(line)
  /\ ReadLine(line, ts)
  /\ unreported' = Append(unreported, ts)
  /\ lines_processed' = lines_processed + 1
  /\ UNCHANGED <<lines_skipped, running, reported, reports, written>>

-------------------------------------------------------------------------------
(* populate_access_log_cache *)

\* A line that is let through: ReadLine and the steps that follow it.
Read(line, ts) ==
  /\ MoreLines
  /\ ~Returns0(line) /\ ~Throws(line)
  /\ ReadLine(line, ts)
  /\ unreported' = Append(unreported, ts)
  /\ UNCHANGED <<counts, reported, reports, written>>

\* A line that is passed over: only those that return 2 are counted.
PassOver(line) ==
  /\ phase = "idle"
  /\ MoreLines
  /\ Returns0(line) \/ Returns2(line)
  /\ lines_skipped' = lines_skipped + IF Returns2(line) THEN 1 ELSE 0
  /\ UNCHANGED <<vars, lines_processed, running, reported, reports, unreported, written>>

\* A line with a part missing takes the run with it.
Abort(line) ==
  /\ phase = "idle"
  /\ running = "yes"
  /\ Throws(line)
  /\ running' = "aborted"
  /\ UNCHANGED <<vars, lines_processed, lines_skipped, reported, reports, unreported, written>>

\* The layers are asked; what they count as written, they have written.
Ask ==
  /\ ProcessStep
  /\ written' = [i \in Layers |->
                   IF stats'[i].number_of_writes > stats[i].number_of_writes
                   THEN written[i] \cup {request.key} ELSE written[i]]
  /\ UNCHANGED <<counts, reported, reports, unreported>>

\* execute_periodic_functions: the report, if it is due.
MayReport ==
  /\ PeriodicReport
  /\ IF Due(timer1, ReportInterval)
     THEN /\ reported' = reported + number_of_urls
          /\ reports' = Append(reports, unreported)
          /\ unreported' = <<>>
     ELSE UNCHANGED <<reported, reports, unreported>>
  /\ UNCHANGED <<counts, written>>

\* The purge, if it is due; then the line returns 3.
MayPurge ==
  /\ PeriodicPurge
  /\ lines_processed' = lines_processed + 1
  /\ UNCHANGED <<lines_skipped, running, reported, reports, unreported, written>>

\* getline fails: the totals are printed, but no final report.
End ==
  /\ phase = "idle"
  /\ running = "yes"
  /\ running' = "ended"
  /\ UNCHANGED <<vars, lines_processed, lines_skipped, reported, reports, unreported, written>>

ReplayNext ==
  \/ \E line \in Lines :
       \/ \E ts \in FirstTime..MaxTime : Read(line, ts)
       \/ PassOver(line)
       \/ Abort(line)
  \/ Ask \/ MayReport \/ MayPurge \/ End

ReplaySpec ==
  ReplayInit /\ [][ReplayNext]_allVars /\ WF_allVars(Ask \/ MayReport \/ MayPurge)

-------------------------------------------------------------------------------
(* Properties *)

\* Between lines, however the run ends: the lines counted as processed are
\* the requests of all reports and of the window that is still open, the one
\* that nobody reports when the log ends or a line aborts the run.
ReportsAndLinesAgree ==
  phase = "idle" => lines_processed = reported + number_of_urls

\* With the types of all counters: none outruns the lines of the log.
WellCounted == ReplayTypeOK /\ ReportsAndLinesAgree

\* The time of the n-th report, that of its last request; timer1 starts at 0.
ReportTime(n) == IF n = 0 THEN 0 ELSE reports[n][Len(reports[n])]

\* A request of the interval that follows the n-th report.
Follows(n, ts) == ReportTime(n) <= ts /\ ts - ReportTime(n) <= ReportInterval

\* Over the whole log, between lines: a report counts the requests of the
\* interval that follows the report before, and one more, the first that comes
\* after the interval and triggers it.  So the first request of a log, whose
\* times are far from 0, is reported by itself; and what the end of the log
\* leaves unreported is the requests of one interval, and is what the counters
\* hold.
ReportsAreWindows ==
  phase = "idle" =>
    /\ \A n \in 1..Len(reports) :
         LET last == Len(reports[n]) IN
         /\ \A k \in 1..last - 1 : Follows(n-1, reports[n][k])
         /\ last > 0 /\ reports[n][last] - ReportTime(n-1) > ReportInterval
    /\ FirstTime > ReportInterval /\ lines_processed > 0 =>
         reports # <<>> /\ Len(reports[1]) = 1
    /\ \A k \in 1..Len(unreported) : Follows(Len(reports), unreported[k])
    /\ number_of_urls = Len(unreported)

\* A layer that respects the refusals of the one below has never written an
\* object that one did not write before: each layer holds only what it wrote
\* itself, whatever hit, was evicted or was purged since, so that a hit below
\* is no way around the refusal.
RefusalsTravelUp ==
  /\ \A i \in Layers : contents[i] \subseteq written[i]
  /\ \A i \in 1..Depth - 1 :
       respect_lower_admission[i] => written[i] \subseteq written[i+1]
===============================================================================
