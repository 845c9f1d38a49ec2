------------------------------ MODULE DriftLog ------------------------------
(***************************************************************************)
(* core/drift_logger.py: the samples of the nodes are kept in memory and   *)
(* written to one spreadsheet, every interval by the logger's own thread   *)
(* and on request by a thread of the dashboard (/api/drift/flush).         *)
(*                                                                         *)
(* One node's samples, by number.  No queue or lock keeps two flushes      *)
(* apart: saving truncates the file and writes it one piece after another, *)
(* here in two, and two flushes at once leave a mixture.                   *)
(***************************************************************************)
EXTENDS Integers, Sequences, SequencesExt

CONSTANTS
  Flushers,     \* the threads that may flush
  MaxSamples,   \* max_samples
  LastSample    \* bound: samples recorded in all

ASSUME DriftAssumption == MaxSamples \in Nat \ {0} /\ LastSample \in Nat

VARIABLES
  samples,      \* _data of the node
  recorded,     \* samples recorded since the logger's start, a ghost
  taken,        \* samples recorded in all, a ghost
  flusher,      \* what each thread does, with which copy of the samples; when it began
  file,         \* clock_drift.xlsx: the samples in each half
  left          \* when the flush began whose file must be there, a ghost

logVars == <<samples, recorded, taken, flusher, file, left>>

Never == [recorded |-> 0, taken |-> 0]
Resting == [pc |-> "rest", copy |-> << >>, began |-> Never, alone |-> TRUE]
Empty == [head |-> << >>, tail |-> << >>]

LogInit ==
  /\ samples = << >> /\ recorded = 0 /\ taken = 0
  /\ flusher = [f \in Flushers |-> Resting]
  /\ file = Empty /\ left = Never

\* samples[-max_samples:]
Trimmed(s) == SubSeq(s, Max({1, Len(s) - MaxSamples + 1}), Len(s))

Record ==
  /\ taken < LastSample
  /\ samples' = Trimmed(Append(samples, taken + 1))
  /\ recorded' = recorded + 1 /\ taken' = taken + 1
  /\ UNCHANGED <<flusher, file, left>>

Flushing(f) == flusher[f].pc # "rest"

\* flush: copy the samples under the lock; build the workbook from the copy.
Copy(f) ==
  /\ ~Flushing(f) /\ samples # << >>
  /\ LET others == {g \in Flushers \ {f} : Flushing(g)}
         began == [recorded |-> recorded, taken |-> taken]
     IN  flusher' = [g \in Flushers |->
           IF g = f THEN [pc |-> "build", copy |-> samples, began |-> began, alone |-> others = {}]
           ELSE IF g \in others THEN [flusher[g] EXCEPT !.alone = FALSE] ELSE flusher[g]]
  /\ UNCHANGED <<samples, recorded, taken, file, left>>

\* wb.save opens and thereby empties the file...
Open(f) ==
  /\ flusher[f].pc = "build"
  /\ flusher' = [flusher EXCEPT ![f].pc = "write"]
  /\ file' = Empty /\ left' = Never
  /\ UNCHANGED <<samples, recorded, taken>>

\* ... writes it...
Write(f) ==
  /\ flusher[f].pc = "write"
  /\ flusher' = [flusher EXCEPT ![f].pc = "save"]
  /\ file' = [file EXCEPT !.head = flusher[f].copy]
  /\ UNCHANGED <<samples, recorded, taken, left>>

\* Mutant of Save: flush has not copied the list, to which record() appends.
SaveLive(f) ==
  /\ flusher[f].pc = "save"
  /\ flusher' = [flusher EXCEPT ![f] = Resting]
  /\ file' = [file EXCEPT !.tail = samples]
  /\ left' = IF flusher[f].alone THEN flusher[f].began ELSE Never
  /\ UNCHANGED <<samples, recorded, taken>>

\* ... to its end.
Save(f) ==
  /\ flusher[f].pc = "save"
  /\ flusher' = [flusher EXCEPT ![f] = Resting]
  /\ file' = [file EXCEPT !.tail = flusher[f].copy]
  /\ left' = IF flusher[f].alone THEN flusher[f].began ELSE Never
  /\ UNCHANGED <<samples, recorded, taken>>

\* Any step of building and saving may raise, which is logged.
Fail(f) ==
  /\ Flushing(f)
  /\ flusher' = [flusher EXCEPT ![f] = Resting]
  /\ UNCHANGED <<samples, recorded, taken, file, left>>

\* The switch is started again: the samples are gone, the file stays.
RestartLog ==
  /\ samples' = << >> /\ recorded' = 0
  /\ flusher' = [f \in Flushers |-> Resting]
  /\ UNCHANGED <<taken, file, left>>

LogNext ==
  \/ Record \/ RestartLog
  \/ \E f \in Flushers : Copy(f) \/ Open(f) \/ Write(f) \/ Save(f) \/ Fail(f)

-----------------------------------------------------------------------------
\* A list holds the newest samples of those recorded since the start, all of them
\* up to MaxSamples, in order.
Newest(list, since_start, newest) ==
  /\ Len(list) = Min({since_start, MaxSamples})
  /\ \A i \in DOMAIN list : list[i] = newest - Len(list) + i

\* Nothing but its limit makes the logger forget a sample; and after a flush that
\* met no other and no error the file holds, in all its parts, the samples of the
\* moment the flush began, until another flush opens it: whatever was recorded
\* meanwhile, and whatever failed or was restarted before and since
\* (DriftLogger.record, flush).
LogComplete ==
  /\ Newest(samples, recorded, taken)
  /\ left # Never => /\ Newest(file.head, left.recorded, left.taken)
                     /\ Newest(file.tail, left.recorded, left.taken)
=============================================================================
