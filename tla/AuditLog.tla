------------------------------- MODULE AuditLog -------------------------------
(***************************************************************************)
(* The audit log (otgate/audit.py): several AuditLog objects, each in a    *)
(* process of its own, append to one JSONL file and read its tail back.    *)
(*                                                                         *)
(* The file is a sequence of chunks.  A line is three of them: the two     *)
(* halves of its JSON text and its newline, so that a write the disk cuts  *)
(* short can leave half an entry, or an entry without its newline.  What   *)
(* a failed flush did not write stays in the buffer of the file object and *)
(* goes out with the next one.                                             *)
(*                                                                         *)
(* tail counts lines by newlines and reads lines with str.splitlines,      *)
(* which also ends a line at U+0085, U+2028 and U+2029; json.dumps leaves  *)
(* these in the text as they are.  Such a character lies inside one half   *)
(* of the text, where no write is cut off.                                 *)
(***************************************************************************)
EXTENDS Naturals, Sequences, SequencesExt, FiniteSets, Selections

CONSTANTS
  Instances,   \* AuditLog objects on one path
  Splits,      \* the entries with a line separator in their text, by number
  MaxRecords,  \* bound: how many entries are recorded
  MaxFaults    \* bound: how many writes fail and how many processes die

ASSUME InstancesAssumption == IsFiniteSet(Instances) /\ Instances # {}
ASSUME SplitsAssumption == Splits \subseteq Nat
ASSUME BoundAssumption == MaxRecords \in Nat /\ MaxFaults \in Nat

VARIABLES
  file,      \* the chunks on disk
  open,      \* open[i]: the handle _fh is open
  pending,   \* pending[i]: chunks in the buffer of i's handle
  mirror,    \* mirror[i]: the entries i appended to _buffer
  issued,    \* how many entries were recorded; an entry is its number
  returned,  \* the entries whose record() returned (observed)
  tears,     \* how many writes were cut off inside a line (observed)
  faults     \* how many faults happened so far

vars == <<file, open, pending, mirror, issued, returned, tears, faults>>

-----------------------------------------------------------------------------
(* Lines *)

Newline == <<0, "newline">>

\* line + "\n"
Line(e) == <<<<e, "head">>, <<e, "tail">>, Newline>>

\* The positions at which a line that is not blank begins.
Starts(chunks) ==
  {k \in DOMAIN chunks : chunks[k] # Newline /\ (k = 1 \/ chunks[k - 1] = Newline)}

\* The line that begins at k is one whole entry; any other is malformed JSON.
\* The last line may lack its newline.
WholeAt(chunks, k) ==
  /\ k \in Starts(chunks)
  /\ k < Len(chunks)
  /\ chunks[k][2] = "head" /\ chunks[k + 1] = <<chunks[k][1], "tail">>
  /\ k + 1 < Len(chunks) => chunks[k + 2] = Newline

\* _line_count, malformed lines included.
LineCount == Cardinality(Starts(file))

\* The entries of the lines that begin at these positions, in file order.
EntriesAt(positions) ==
  LET heads == Selected(file, positions)
  IN  [n \in DOMAIN heads |-> heads[n][1]]

\* _read_file_tail: the pieces of an entry that splits are malformed, and skipped.
Readable == EntriesAt({k \in DOMAIN file : WholeAt(file, k) /\ file[k][1] \notin Splits})

\* entries[-limit:] for a positive limit.
LastOf(entries, limit) ==
  IF limit >= Len(entries) THEN entries
  ELSE SubSeq(entries, Len(entries) - limit + 1, Len(entries))

\* Slip: the mirror is trusted whenever it holds enough entries.
TailTrusting(i, limit) ==
  IF limit <= Len(mirror[i]) THEN LastOf(mirror[i], limit) ELSE LastOf(Readable, limit)

\* tail: from the mirror unless the file has more lines than it.
TailOf(i, limit) ==
  IF limit = 0 THEN <<>>
  ELSE IF LineCount <= Len(mirror[i]) THEN LastOf(mirror[i], limit)
  ELSE LastOf(Readable, limit)

-----------------------------------------------------------------------------
(* Operations *)

\* A flush that gets the first k of these chunks to the disk and keeps the rest.
Flush(i, chunks, k) ==
  /\ file' = file \o SubSeq(chunks, 1, k)
  /\ pending' = [pending EXCEPT ![i] = SubSeq(chunks, k + 1, Len(chunks))]
  /\ tears' = IF k > 0 /\ chunks[k] # Newline THEN tears + 1 ELSE tears

Fault == faults < MaxFaults /\ faults' = faults + 1

\* A new entry for i: what its handle holds back goes out before it.
Issue(i) == issued < MaxRecords /\ issued' = issued + 1
Outgoing(i) == pending[i] \o Line(issued + 1)

\* Slip: the line is not flushed.
RecordUnflushed(i) ==
  /\ Issue(i)
  /\ Flush(i, Outgoing(i), 0)
  /\ open' = [open EXCEPT ![i] = TRUE]
  /\ mirror' = [mirror EXCEPT ![i] = Append(@, issued + 1)]
  /\ returned' = returned \cup {issued + 1}
  /\ UNCHANGED faults

\* record: written, flushed, mirrored.
Record(i) ==
  /\ Issue(i)
  /\ Flush(i, Outgoing(i), Len(Outgoing(i)))
  /\ open' = [open EXCEPT ![i] = TRUE]
  /\ mirror' = [mirror EXCEPT ![i] = Append(@, issued + 1)]
  /\ returned' = returned \cup {issued + 1}
  /\ UNCHANGED faults

\* Slip: the entry is mirrored before it is flushed.
RecordRaisesMirrored(i) ==
  /\ Fault /\ Issue(i)
  /\ \E k \in 0..(Len(Outgoing(i)) - 1) : Flush(i, Outgoing(i), k)
  /\ open' = [open EXCEPT ![i] = TRUE]
  /\ mirror' = [mirror EXCEPT ![i] = Append(@, issued + 1)]
  /\ UNCHANGED returned

\* record raises OSError out of the flush: the rest stays in the buffer.
RecordRaises(i) ==
  /\ Fault /\ Issue(i)
  /\ \E k \in 0..(Len(Outgoing(i)) - 1) : Flush(i, Outgoing(i), k)
  /\ open' = [open EXCEPT ![i] = TRUE]
  /\ UNCHANGED <<mirror, returned>>

\* record raises OSError out of _ensure_open: nothing is buffered.
OpenRaises(i) ==
  /\ Fault /\ Issue(i)
  /\ ~open[i]
  /\ UNCHANGED <<file, open, pending, mirror, returned, tears>>

\* close, also at the end of a `with` block and at an orderly exit.
Close(i) ==
  /\ open[i]
  /\ Flush(i, pending[i], Len(pending[i]))
  /\ open' = [open EXCEPT ![i] = FALSE]
  /\ UNCHANGED <<mirror, issued, returned, faults>>

\* close raises OSError out of its flush: the handle stays.
CloseRaises(i) ==
  /\ Fault /\ open[i]
  /\ \E k \in 0..(Len(pending[i]) - 1) : Flush(i, pending[i], k)
  /\ UNCHANGED <<open, mirror, issued, returned>>

\* The process dies, perhaps inside the flush of a record, and a new one opens the
\* log: handle, buffer and mirror are gone, and k chunks of the record are on disk.
Die(i) ==
  /\ Fault
  /\ \E k \in 0..Len(Outgoing(i)) :
       /\ k > 0 => issued < MaxRecords
       /\ issued' = IF k > 0 THEN issued + 1 ELSE issued
       /\ file' = file \o SubSeq(Outgoing(i), 1, k)
       /\ tears' = IF k > 0 /\ Outgoing(i)[k] # Newline THEN tears + 1 ELSE tears
  /\ open' = [open EXCEPT ![i] = FALSE]
  /\ pending' = [pending EXCEPT ![i] = <<>>]
  /\ mirror' = [mirror EXCEPT ![i] = <<>>]
  /\ UNCHANGED returned

Init ==
  /\ file = <<>>
  /\ open = [i \in Instances |-> FALSE]
  /\ pending = [i \in Instances |-> <<>>]
  /\ mirror = [i \in Instances |-> <<>>]
  /\ issued = 0
  /\ returned = {}
  /\ tears = 0
  /\ faults = 0

Next ==
  \E i \in Instances :
    Record(i) \/ RecordRaises(i) \/ OpenRaises(i) \/ Close(i) \/ CloseRaises(i) \/ Die(i)

Spec == Init /\ [][Next]_vars

-----------------------------------------------------------------------------
(* Properties *)

Chunks == {Newline} \cup {<<e, half>> : e \in 1..issued, half \in {"head", "tail"}}

\* Every variable has its type; what a handle holds back ends with a newline, and
\* only an open handle holds anything back.
TypeOK ==
  /\ issued \in Nat /\ tears \in Nat /\ faults \in Nat
  /\ returned \subseteq 1..issued
  /\ file \in Seq(Chunks)
  /\ open \in [Instances -> BOOLEAN]
  /\ mirror \in [Instances -> Seq(returned)]
  /\ pending \in [Instances -> Seq(Chunks)]
  /\ \A i \in Instances :
       pending[i] # <<>> => open[i] /\ Last(pending[i]) = Newline

\* The entries that have a line of their own on disk.
OnDisk == EntriesAt({k \in DOMAIN file : WholeAt(file, k)})

\* "so nothing is missed": whatever other processes wrote, whatever writes failed
\* or were torn, no instance's tail leaves out an entry that can be read on disk,
\* and it shows these in the order of the file.
TailNeverBehind ==
  \A i \in Instances :
    LET tail == TailOf(i, MaxRecords)
        read == Readable
    IN  /\ Range(read) \subseteq Range(tail)
        /\ \A m, n \in DOMAIN read, p, q \in DOMAIN tail :
             tail[p] = read[m] /\ tail[q] = read[n] => (m < n <=> p < q)

\* As long as no write was cut off inside a line, each instance shows, for every
\* limit, the end of what can be read of the file.  Only an instance that holds
\* exactly the entries on disk may show the end of those, split or not.
TailExact ==
  tears = 0 =>
    \A i \in Instances, limit \in 0..MaxRecords :
      \/ TailOf(i, limit) = LastOf(Readable, limit)
      \/ mirror[i] = OnDisk /\ TailOf(i, limit) = LastOf(OnDisk, limit)

\* As long as no write was cut off inside a line, all instances show the same tail:
\* "The in-memory fast path and a fresh file read must agree" (tests/test_audit.py).
TailsAgree ==
  tears = 0 =>
    \A i, j \in Instances, limit \in 0..MaxRecords : TailOf(i, limit) = TailOf(j, limit)

\* An entry is on disk at most once even when its record() failed and a later one
\* completed it, and the entries of the returned records are in the order of the
\* calls.
InOrder ==
  /\ IsInjective(OnDisk)
  /\ \A m, n \in DOMAIN OnDisk :
       m < n /\ {OnDisk[m], OnDisk[n]} \subseteq returned => OnDisk[m] < OnDisk[n]

\* An entry whose record() returned stays on disk through every crash and every
\* failed write, except that each torn line may take one such entry with it.
LossBounded == Cardinality(returned \ Range(OnDisk)) <= tears
=============================================================================
