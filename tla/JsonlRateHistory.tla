--------------------------- MODULE JsonlRateHistory ---------------------------
(***************************************************************************)
(* The durable rate history (otgate/rate_history.py): a bucket of records  *)
(* per tag in memory, pruned to a retention time, and an append-only file  *)
(* that is replayed at start-up.  A put changes memory first and then the  *)
(* file; a crash or a full disk may leave a line of the file incomplete.   *)
(***************************************************************************)
EXTENDS Integers, Sequences, FiniteSets, SequencesExt, Selections

CONSTANTS
  Tags,
  Values,
  Retention,  \* seconds of history kept in memory
  ClockSteps, \* the wall clock may be set back
  Faults,     \* an append may fail or be cut short
  MaxTime,    \* bound: last reading of the clock
  MaxPuts     \* bound: lines in the file, records in a bucket, torn lines

ASSUME ValuesAssumption == Values \subseteq Int
ASSUME RetentionAssumption == Retention \in Nat
ASSUME SwitchAssumption == {ClockSteps, Faults} \subseteq BOOLEAN
ASSUME BoundAssumption == MaxTime \in Nat /\ MaxPuts \in Nat

VARIABLES
  clock,
  memory,  \* memory[tag]: the bucket of the tag
  file,    \* the lines of the file, readable or Corrupt
  ended,   \* the last line of the file ends in a newline
  written, \* the records whose put returned, in order (observed, never read)
  tears,   \* how often an append was cut short (observed, never read)
  intact   \* so far the clock never went back and no append failed (observed)

vars == <<clock, memory, file, ended, written, tears, intact>>

Corrupt == [tag |-> "corrupt"]
Line(tag, value) == [tag |-> tag, ts |-> clock, value |-> value]

-----------------------------------------------------------------------------
(* Memory *)

OfTag(lines, tag) ==
  Selected(lines, {k \in DOMAIN lines : lines[k] # Corrupt /\ lines[k].tag = tag})

\* Slips: only the newest record survives pruning; nothing is pruned.
PrunedToLast(bucket, now) == IF bucket = <<>> THEN <<>> ELSE <<bucket[Len(bucket)]>>
PrunedNever(bucket, now) == bucket

\* _prune: drops what is older than the retention time, never the newest record.
Pruned(bucket, now) ==
  Selected(bucket, {k \in DOMAIN bucket : bucket[k].ts >= now - Retention \/ k = Len(bucket)})

\* list.sort is stable: records of one time keep their order.
Before(bucket, i, j) ==
  \/ bucket[i].ts < bucket[j].ts
  \/ bucket[i].ts = bucket[j].ts /\ i < j

\* The place of record i in the sorted bucket.
Place(bucket, i) == Cardinality({j \in DOMAIN bucket : ~Before(bucket, i, j)})

SortedByTs(bucket) ==
  [k \in DOMAIN bucket |-> bucket[CHOOSE i \in DOMAIN bucket : Place(bucket, i) = k]]

\* Slip: the sort orders a tag's records from the newest to the oldest.
LoadedReversed(lines) ==
  [tag \in Tags |->
     LET bucket == Reverse(SortedByTs(OfTag(lines, tag)))
     IN  IF bucket = <<>> THEN <<>> ELSE Pruned(bucket, Last(bucket).ts)]

\* _load: replays the readable lines, sorts and prunes each bucket.
Loaded(lines) ==
  [tag \in Tags |->
     LET bucket == SortedByTs(OfTag(lines, tag))
     IN  IF bucket = <<>> THEN <<>> ELSE Pruned(bucket, Last(bucket).ts)]

Window(bucket, since) == Selected(bucket, {k \in DOMAIN bucket : bucket[k].ts >= since})

-----------------------------------------------------------------------------
(* The file: what is appended to a line without a newline spoils that line *)

\* Slip: the file is opened for writing instead of appending.
ExtendedAnew(lines, line) == <<line>>

Extended(lines, line) ==
  IF ended THEN Append(lines, line) ELSE [lines EXCEPT ![Len(lines)] = Corrupt]

Room(tag) == Len(file) < MaxPuts /\ Len(memory[tag]) < MaxPuts /\ tears < MaxPuts

Put(tag, value) ==
  /\ Room(tag)
  /\ memory' = [memory EXCEPT ![tag] = Pruned(Append(@, Line(tag, value)), clock)]
  /\ file' = Extended(file, Line(tag, value))
  /\ ended' = TRUE
  /\ written' = Append(written, Line(tag, value))
  /\ UNCHANGED <<clock, tears, intact>>

\* The append raises: the record stays in memory, and the file has nothing of its
\* line, a part, or all of it but the newline.
PutRaises(tag, value) ==
  /\ Faults /\ Room(tag)
  /\ memory' = [memory EXCEPT ![tag] = Pruned(Append(@, Line(tag, value)), clock)]
  /\ \/ UNCHANGED <<file, ended, tears>>
     \/ /\ \E rest \in {Corrupt, Line(tag, value)} : file' = Extended(file, rest)
        /\ ended' = FALSE
        /\ tears' = tears + 1
  /\ intact' = FALSE
  /\ UNCHANGED <<clock, written>>

Restart ==
  /\ memory' = Loaded(file)
  /\ UNCHANGED <<clock, file, ended, written, tears, intact>>

\* Slip: the process that dies leaves a line that names no time.
DieInPutNegative(tag, value) ==
  /\ Faults /\ Room(tag)
  /\ file' = Extended(file, [Line(tag, value) EXCEPT !.ts = -1])
  /\ ended' = FALSE
  /\ tears' = tears + 1
  /\ memory' = Loaded(file')
  /\ intact' = FALSE
  /\ UNCHANGED <<clock, written>>

\* The process dies in the append, with a part of the line in the file or all of it
\* but the newline, and is started again.
DieInPut(tag, value) ==
  /\ Faults /\ Room(tag)
  /\ \E rest \in {Corrupt, Line(tag, value)} : file' = Extended(file, rest)
  /\ ended' = FALSE
  /\ tears' = tears + 1
  /\ memory' = Loaded(file')
  /\ intact' = FALSE
  /\ UNCHANGED <<clock, written>>

Tick ==
  /\ clock < MaxTime
  /\ clock' = clock + 1
  /\ UNCHANGED <<memory, file, ended, written, tears, intact>>

ClockSetBack ==
  /\ ClockSteps /\ clock > 0
  /\ clock' = clock - 1
  /\ intact' = FALSE
  /\ UNCHANGED <<memory, file, ended, written, tears>>

Init ==
  /\ clock = 0
  /\ memory = [tag \in Tags |-> <<>>]
  /\ file = <<>>
  /\ ended = TRUE
  /\ written = <<>>
  /\ tears = 0
  /\ intact = TRUE

Next ==
  \/ \E tag \in Tags, value \in Values :
       Put(tag, value) \/ PutRaises(tag, value) \/ DieInPut(tag, value)
  \/ Restart
  \/ Tick
  \/ ClockSetBack

Spec == Init /\ [][Next]_vars

-----------------------------------------------------------------------------
(* Properties *)

Lines(tags) == [tag : tags, ts : Nat, value : Values]

\* Every variable has its type and a bucket holds only records of its tag.
TypeOK ==
  /\ clock \in Nat
  /\ DOMAIN memory = Tags
  /\ \A tag \in Tags : memory[tag] \in Seq(Lines({tag}))
  /\ file \in Seq(Lines(Tags) \cup {Corrupt})
  /\ ended \in BOOLEAN
  /\ written \in Seq(Lines(Tags))
  /\ tears \in Nat
  /\ intact \in BOOLEAN

\* Memory is bounded by the retention time, whatever the clock and the file do:
\* only the newest record may be older than that, measured from itself.
MemoryBounded ==
  \A tag \in Tags : \A i \in DOMAIN memory[tag] :
    memory[tag][i].ts >= Last(memory[tag]).ts - Retention

\* As long as the clock has not gone back and no append has failed, the last write
\* and every window the engine can ask for (no longer than the retention time) are
\* exactly what was recorded, restarts or not.
HistoryExact ==
  intact => \A tag \in Tags :
    LET recorded == OfTag(written, tag)
    IN  /\ (memory[tag] = <<>>) = (recorded = <<>>)
        /\ recorded # <<>> => Last(memory[tag]) = Last(recorded)
        /\ \A since \in (clock - Retention)..clock :
             Window(memory[tag], since) = Window(recorded, since)

\* A torn line costs at most one record whose put returned.
LossBounded ==
  Cardinality({i \in DOMAIN file : file[i] # Corrupt}) >= Len(written) - tears
=============================================================================
