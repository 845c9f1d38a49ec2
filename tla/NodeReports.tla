---------------------------- MODULE NodeReports ----------------------------
(***************************************************************************)
(* How the dashboard knows of a node: core/reporter.py posts the node's    *)
(* last offset every two seconds, dashboard/app.py and dashboard/state.py  *)
(* keep it and show a status.  One node; a tick is a second.               *)
(*                                                                         *)
(* urlopen's timeout limits each wait for the socket: first that for the   *)
(* connection, then that for the answer, whose head comes in one piece.  A *)
(* report that is sent takes at most ReportMax seconds to be handled,      *)
(* whether or not urlopen still waits for the answer, or it is lost.       *)
(***************************************************************************)
EXTENDS Integers

CONSTANTS
  ReportInterval,   \* interval_s, 2 s
  ReportTimeout,    \* timeout of urlopen, 2 s
  OfflineAge,       \* age from which a node is shown as offline, 10 s
  SyncedBelow, DriftingBelow,  \* 5 and 20 ms
  ReportMax,        \* longest time until a report is handled
  Reported,         \* offsets the slave may compute
  MaxSeconds        \* bound: largest instant

ASSUME ReportAssumption ==
  /\ ReportInterval \in Nat \ {0} /\ ReportTimeout \in Nat \ {0}
  /\ OfflineAge \in Nat /\ SyncedBelow \in Nat /\ DriftingBelow \in Nat /\ MaxSeconds \in Nat
  /\ Reported \subseteq Int
  \* No report outlives the wait for its answer and the sleep that follow it.
  /\ ReportMax \in Nat /\ ReportMax < ReportTimeout + ReportInterval

\* The dashboard waits longer than the rest of the wait for an answer that does
\* not come, the sleep, the next connection and the handling of what it carries.
ASSUME PatienceAssumption == 2 * ReportTimeout + ReportInterval + ReportMax < OfflineAge

VARIABLES
  second,           \* the time
  reporter,         \* offset_ms; what _run does until when; the offset it posts
  reports,          \* requests under way
  info,             \* NodeInfo of the node on the dashboard
  silent            \* attempts that came to nothing since a report was handled, a ghost

reportVars == <<second, reporter, reports, info, silent>>

NoInfo == [known |-> FALSE, offset_ms |-> 0, last_seen |-> 0, status |-> "unknown", sent |-> 0]

ReportInit ==
  /\ second = 0
  /\ reporter = [offset_ms |-> 0, pc |-> "sleep", until |-> 0, posted |-> 0]
  /\ reports = {} /\ info = NoInfo /\ silent = 0

Asleep(until) == [reporter EXCEPT !.pc = "sleep", !.until = until]

\* update_offset, called by the slave's _on_follow_up.
UpdateOffset ==
  /\ \E offset_ms \in Reported \ {reporter.offset_ms} :
       reporter' = [reporter EXCEPT !.offset_ms = offset_ms]
  /\ UNCHANGED <<second, reports, info, silent>>

\* _run: read the offset; urlopen connects...
Post ==
  /\ reporter.pc = "sleep" /\ second >= reporter.until
  /\ reporter' = [reporter EXCEPT !.pc = "connect", !.until = second + ReportTimeout,
                                  !.posted = reporter.offset_ms]
  /\ UNCHANGED <<second, reports, info, silent>>

\* ... sends the report and waits for the answer...
Connected ==
  /\ reporter.pc = "connect"
  /\ reports' = reports \union {[offset_ms |-> reporter.posted, sent |-> second]}
  /\ reporter' = [reporter EXCEPT !.pc = "wait", !.until = second + ReportTimeout]
  /\ UNCHANGED <<second, info, silent>>

\* ... or raises, at the timeout at the latest.
NotConnected ==
  /\ reporter.pc = "connect"
  /\ reporter' = Asleep(second + ReportInterval)
  /\ silent' = silent + 1
  /\ UNCHANGED <<second, reports, info>>

\* Mutant of TimedOut: the next attempt follows at once.
TimedOutRetries ==
  /\ reporter.pc = "wait" /\ second >= reporter.until
  /\ reporter' = Asleep(second)
  /\ UNCHANGED <<second, reports, info, silent>>

\* Sleep when it was not answered in time, though it may still be handled.
TimedOut ==
  /\ reporter.pc = "wait" /\ second >= reporter.until
  /\ reporter' = Asleep(second + ReportInterval)
  /\ UNCHANGED <<second, reports, info, silent>>

Status(offset_ms) ==
  LET a == IF offset_ms < 0 THEN -offset_ms ELSE offset_ms
  IN  IF a < SyncedBelow THEN "synced" ELSE IF a < DriftingBelow THEN "drifting" ELSE "lost"

\* Mutant of UpdateNode: an offset that has not changed is not news.
UpdateNodeChanged(r) ==
  info' = IF info.known /\ info.offset_ms = r.offset_ms THEN [info EXCEPT !.sent = r.sent]
          ELSE [known |-> TRUE, offset_ms |-> r.offset_ms, last_seen |-> second,
                status |-> Status(r.offset_ms), sent |-> r.sent]

\* NetworkState.update_node, NodeInfo.update; `sent` is a ghost.
UpdateNode(r) ==
  info' = [known |-> TRUE, offset_ms |-> r.offset_ms, last_seen |-> second,
           status |-> Status(r.offset_ms), sent |-> r.sent]

\* The reporter still waits for what becomes of this report, and learns of it.
Learns(r) ==
  /\ reporter.pc = "wait" /\ reporter.until = r.sent + ReportTimeout
  /\ reporter' = Asleep(second + ReportInterval)

\* report() of the dashboard; the answer, unless it is lost, ends the post.
Handle(r) ==
  /\ UpdateNode(r)
  /\ reports' = reports \ {r}
  /\ silent' = 0
  /\ UNCHANGED reporter \/ Learns(r)
  /\ UNCHANGED second

\* The request is lost on the way, and urlopen learns of it or waits.
Lost(r) ==
  /\ reports' = reports \ {r}
  /\ silent' = silent + 1
  /\ UNCHANGED reporter \/ Learns(r)
  /\ UNCHANGED <<second, info>>

\* A second passes when nothing is due.
Second ==
  /\ second < MaxSeconds /\ second < reporter.until
  /\ \A r \in reports : second < r.sent + ReportMax
  /\ second' = second + 1
  /\ UNCHANGED <<reporter, reports, info, silent>>

ReportNext ==
  \/ UpdateOffset \/ Post \/ Connected \/ NotConnected \/ TimedOut \/ Second
  \/ \E r \in reports : Handle(r) \/ Lost(r)

\* NodeInfo.to_dict.
Shown ==
  IF ~info.known THEN "nothing"
  ELSE IF second - info.last_seen < OfflineAge THEN info.status ELSE "offline"

-----------------------------------------------------------------------------
\* The dashboard does not show a node as offline all of whose reports since the
\* last one arrive, however long each wait of the reporter and of the report is
\* within its limit, and whether or not the answers arrive.
LiveShown == silent = 0 => Shown # "offline"

\* A report never replaces a newer one, also when its handling outlasts the
\* reporter's wait for it.
NewestShown == [][info'.sent >= info.sent]_reportVars

=============================================================================
