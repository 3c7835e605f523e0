---------------------------- MODULE AuditLogProofs ----------------------------
(***************************************************************************)
(* Proofs about the audit log, for any number of processes on one file,    *)
(* any number of entries, and any pattern of failed and torn writes and    *)
(* of crashes.                                                             *)
(*                                                                         *)
(* Every operation is one push: some chunks of an instance go to the end   *)
(* of the file, the rest stays in its buffer or is lost.  The invariant    *)
(* says that no chunk is ever in two places, that what is held back and    *)
(* what hangs at the end of the file belongs to no entry that returned,    *)
(* and that every returned entry lies in the file as a line of its own or  *)
(* behind one torn line.                                                   *)
(***************************************************************************)
EXTENDS AuditLog, SelectionProofs, FiniteSetTheorems

\* A chunk that is not a newline occurs once in s, and not both in s and t.
Once(s) == \A p, q \in 1..Len(s) : s[p] = s[q] => p = q \/ s[p] = Newline
Apart(s, t) == \A p \in 1..Len(s), q \in 1..Len(t) : s[p] = t[q] => s[p] = Newline

WrittenOnce ==
  /\ Once(file)
  /\ \A i \in Instances : Once(pending[i]) /\ Apart(file, pending[i])
  /\ \A i, j \in Instances : i # j => Apart(pending[i], pending[j])

\* The last line of the file lacks its newline.
Dangling == file # <<>> /\ file[Len(file)] # Newline

Unreturned ==
  /\ \A i \in Instances : \A p \in 1..Len(pending[i]) : pending[i][p][1] \notin returned
  /\ Dangling => file[Len(file)][1] \notin returned

\* Returned entries lie in the file in the order of the calls.
Ordered ==
  \A p, q \in 1..Len(file) :
    p < q /\ file[p][1] \in returned /\ file[q][1] \in returned => file[p][1] <= file[q][1]

\* The three chunks of entry e lie in chunks from p on.
LineAt(chunks, e, p) ==
  /\ p \in 1..Len(chunks) /\ p + 2 \in 1..Len(chunks)
  /\ chunks[p] = <<e, "head">> /\ chunks[p + 1] = <<e, "tail">> /\ chunks[p + 2] = Newline
Landed == \A e \in returned : \E p \in Nat : LineAt(file, e, p)

Mirrored == \A i \in Instances : Increasing(mirror[i])

\* The entries that can be read.
Whole == {file[k][1] : k \in {m \in DOMAIN file : WholeAt(file, m)}}
Lost == returned \ Whole
Covered == Cardinality(Lost) + (IF Dangling THEN 1 ELSE 0) <= tears

Bounded == issued <= MaxRecords
IInv ==
  /\ TypeOK /\ Bounded /\ WrittenOnce /\ Unreturned /\ Ordered /\ Landed /\ Mirrored
  /\ Covered

-----------------------------------------------------------------------------
(* Chunks and sequences of them *)

\* A chunk is the newline or half an entry that was issued.
LEMMA ChunkFacts ==
  \A x \in Chunks : \/ x = Newline
                    \/ /\ x[1] \in 1..issued /\ x[2] \in {"head", "tail"}
                       /\ x = <<x[1], x[2]>> /\ x # Newline
  <1>1. \A e \in 1..issued : e # 0
    OBVIOUS
  <1>2. QED
    BY <1>1 DEF Chunks, Newline

\* The beginning of c put at the end of s, and what is left of c.
LEMMA Joined ==
  ASSUME NEW S, NEW s \in Seq(S), NEW c \in Seq(S), NEW k \in 0..Len(c)
  PROVE  /\ s \o SubSeq(c, 1, k) \in Seq(S)
         /\ Len(s \o SubSeq(c, 1, k)) = Len(s) + k
         /\ \A p \in 1..Len(s) : (s \o SubSeq(c, 1, k))[p] = s[p]
         /\ \A q \in 1..k : (s \o SubSeq(c, 1, k))[Len(s) + q] = c[q]
         /\ SubSeq(c, k + 1, Len(c)) \in Seq(S)
         /\ Len(SubSeq(c, k + 1, Len(c))) = Len(c) - k
         /\ \A q \in 1..(Len(c) - k) : SubSeq(c, k + 1, Len(c))[q] = c[k + q]
  <1>1. Len(s) \in Nat /\ Len(c) \in Nat /\ \A q \in 1..Len(c) : c[q] \in S
    BY LenProperties, ElementOfSeq
  <1>. DEFINE d == SubSeq(c, 1, k)
              r == SubSeq(c, k + 1, Len(c))
  <1>2. d \in Seq(S) /\ Len(d) = k /\ \A q \in 1..k : d[q] = c[q]
    <2>1. \A q \in 1..k : c[q] \in S
      BY <1>1
    <2>2. /\ d \in Seq(S) /\ Len(d) = (IF 1 <= k THEN k - 1 + 1 ELSE 0)
          /\ \A q \in 1..(k - 1 + 1) : d[q] = c[1 + q - 1]
      BY <1>1, <2>1, SubSeqProperties
    <2>3. QED
      BY <1>1, <2>2
  <1>3. r \in Seq(S) /\ Len(r) = Len(c) - k /\ \A q \in 1..(Len(c) - k) : r[q] = c[k + q]
    <2>1. \A q \in (k + 1)..Len(c) : c[q] \in S
      BY <1>1
    <2>2. /\ r \in Seq(S) /\ Len(r) = (IF k + 1 <= Len(c) THEN Len(c) - (k + 1) + 1 ELSE 0)
          /\ \A q \in 1..(Len(c) - (k + 1) + 1) : r[q] = c[(k + 1) + q - 1]
      BY <1>1, <2>1, SubSeqProperties
    <2>3. QED
      BY <1>1, <2>2
  <1>. HIDE DEF d, r
  <1>4. /\ s \o d \in Seq(S) /\ Len(s \o d) = Len(s) + k
        /\ \A p \in 1..(Len(s) + k) : (s \o d)[p] = IF p <= Len(s) THEN s[p] ELSE d[p - Len(s)]
    BY <1>2, ConcatProperties
  <1>5. /\ \A p \in 1..Len(s) : (s \o d)[p] = s[p]
        /\ \A q \in 1..k : (s \o d)[Len(s) + q] = c[q]
    BY <1>1, <1>2, <1>4
  <1>6. QED
    BY <1>3, <1>4, <1>5 DEF d, r

-----------------------------------------------------------------------------
(* A step is a push *)

\* What instance i gets to write: what its handle holds back, with or without a
\* new line behind it.
Sends(i, c) ==
  \/ c = pending[i] /\ issued' = issued
  \/ c = Outgoing(i) /\ issued < MaxRecords /\ issued' = issued + 1

\* The first k chunks of c reach the file; the handle keeps the rest, or nothing.
Push(i, c, k, rest) ==
  /\ Sends(i, c)
  /\ k \in 0..Len(c)
  /\ rest \in {SubSeq(c, k + 1, Len(c)), <<>>}
  /\ file' = file \o SubSeq(c, 1, k)
  /\ pending' = [pending EXCEPT ![i] = rest]
  /\ tears' = IF k > 0 /\ c[k] # Newline THEN tears + 1 ELSE tears
  /\ open' \in [Instances -> BOOLEAN]
  /\ \A j \in Instances : pending'[j] # <<>> => open'[j]
  /\ faults' \in Nat

\* No record returns; the mirror may be lost.
Silent(i) == returned' = returned /\ mirror' \in {mirror, [mirror EXCEPT ![i] = <<>>]}

\* The record of the new entry returns: everything is on disk.
Returns(i, c, k) ==
  /\ c = Outgoing(i) /\ issued' = issued + 1 /\ k = Len(c)
  /\ returned' = returned \cup {issued + 1}
  /\ mirror' = [mirror EXCEPT ![i] = Append(@, issued + 1)]

\* The chunks of a new entry behind what is held back.
LEMMA OutgoingIs ==
  ASSUME NEW S, NEW i \in Instances, pending[i] \in Seq(S), Range(Line(issued + 1)) \subseteq S
  PROVE  /\ Outgoing(i) \in Seq(S)
         /\ Len(pending[i]) \in Nat /\ Len(Outgoing(i)) = Len(pending[i]) + 3
         /\ \A p \in 1..Len(pending[i]) : Outgoing(i)[p] = pending[i][p]
         /\ Outgoing(i)[Len(pending[i]) + 1] = <<issued + 1, "head">>
         /\ Outgoing(i)[Len(pending[i]) + 2] = <<issued + 1, "tail">>
         /\ Outgoing(i)[Len(pending[i]) + 3] = Newline
  <1>. DEFINE l == Line(issued + 1)
  <1>1. /\ Len(l) = 3 /\ l[1] = <<issued + 1, "head">> /\ l[2] = <<issued + 1, "tail">>
        /\ l[3] = Newline /\ DOMAIN l = 1..3
    BY DEF Line
  <1>2. l \in Seq(S)
    <2>1. \A p \in DOMAIN l : l[p] \in S
      BY Zenon DEF Range
    <2>. DEFINE x == <<issued + 1, "head">>
                y == <<issued + 1, "tail">>
    <2>2. x \in S /\ y \in S /\ Newline \in S
      BY <1>1, <2>1
    <2>. HIDE DEF x, y
    <2>3. <<x, y, Newline>> \in Seq(S)
      BY <2>2
    <2>4. QED
      BY <2>3 DEF x, y, Line
  <1>3. Len(pending[i]) \in Nat
    BY LenProperties
  <1>. HIDE DEF l
  <1>4. /\ pending[i] \o l \in Seq(S) /\ Len(pending[i] \o l) = Len(pending[i]) + 3
        /\ \A p \in 1..(Len(pending[i]) + 3) :
             (pending[i] \o l)[p] = IF p <= Len(pending[i]) THEN pending[i][p]
                                    ELSE l[p - Len(pending[i])]
    <2>. DEFINE t == pending[i]
    <2>1. Len(l) = 3 /\ t \in Seq(S)
      BY <1>1
    <2>. HIDE DEF t
    <2>2. /\ t \o l \in Seq(S) /\ Len(t \o l) = Len(t) + Len(l)
          /\ \A p \in 1..(Len(t) + Len(l)) :
               (t \o l)[p] = IF p <= Len(t) THEN t[p] ELSE l[p - Len(t)]
      BY <1>2, <2>1, ConcatProperties
    <2>3. QED
      BY <2>1, <2>2 DEF t
  <1>5. Outgoing(i) = pending[i] \o l
    BY DEF Outgoing, l
  <1>6. /\ (pending[i] \o l)[Len(pending[i]) + 1] = l[1]
        /\ (pending[i] \o l)[Len(pending[i]) + 2] = l[2]
        /\ (pending[i] \o l)[Len(pending[i]) + 3] = l[3]
    BY <1>3, <1>4
  <1>7. QED
    BY <1>1, <1>3, <1>4, <1>5, <1>6

\* Nothing of a sequence, behind another.
LEMMA NothingJoined ==
  ASSUME NEW S, NEW s \in Seq(S), NEW T, NEW c \in Seq(T)
  PROVE  s \o SubSeq(c, 1, 0) = s /\ SubSeq(c, Len(c) + 1, Len(c)) = <<>>
  <1>. DEFINE d == SubSeq(c, 1, 0)
              r == SubSeq(c, Len(c) + 1, Len(c))
  <1>1. Len(c) \in Nat /\ (\A p \in 1..Len(c) : c[p] \in T)
    BY LenProperties, ElementOfSeq
  <1>2. d \in Seq(T) /\ Len(d) = 0
    <2>1. \A p \in 1..0 : c[p] \in T
      OBVIOUS
    <2>2. d \in Seq(T) /\ Len(d) = (IF 1 <= 0 THEN 0 - 1 + 1 ELSE 0)
      BY <2>1, SubSeqProperties
    <2>3. QED
      BY <2>2
  <1>3. r \in Seq(T) /\ Len(r) = 0
    <2>1. 0 \in 0..Len(c) /\ Len(c) \in 0..Len(c) /\ Len(c) - Len(c) = 0
      BY <1>1
    <2>2. QED
      BY <2>1, Joined
  <1>. HIDE DEF d, r
  <1>4. d = <<>> /\ r = <<>>
    BY <1>2, <1>3, EmptySeq
  <1>5. s \o <<>> = s
    BY ConcatEmptySeq
  <1>6. QED
    BY <1>4, <1>5 DEF d, r

\* The chunks of one more entry are chunks as well.
LEMMA ChunksGrow ==
  ASSUME issued \in Nat, issued' \in {issued, issued + 1}
  PROVE  /\ Chunks \subseteq Chunks'
         /\ issued' = issued + 1 => Range(Line(issued + 1)) \subseteq Chunks'
  <1>1. 1..issued \subseteq 1..issued'
    OBVIOUS
  <1>2. Chunks \subseteq Chunks'
    BY <1>1 DEF Chunks
  <1>3. ASSUME issued' = issued + 1
        PROVE  Range(Line(issued + 1)) \subseteq Chunks'
    <2>1. issued + 1 \in 1..issued'
      BY <1>3
    <2>. DEFINE n == issued + 1
                h == <<n, "head">>
                t == <<n, "tail">>
    <2>2. h \in Chunks' /\ t \in Chunks' /\ Newline \in Chunks'
      BY <2>1 DEF Chunks, Newline
    <2>. HIDE DEF h, t
    <2>3. Range(<<h, t, Newline>>) \subseteq {h, t, Newline}
      BY DEF Range
    <2>4. QED
      BY <2>2, <2>3 DEF h, t, Line
  <1>4. QED
    BY <1>2, <1>3

\* What an instance gets to write is a sequence of chunks.
LEMMA SendsChunks ==
  ASSUME TypeOK, NEW i \in Instances, NEW c, Sends(i, c)
  PROVE  /\ c \in Seq(Chunks') /\ Len(c) \in Nat /\ issued' \in {issued, issued + 1}
         /\ issued' \in Nat /\ Chunks \subseteq Chunks'
  <1>1. issued \in Nat /\ issued' \in {issued, issued + 1} /\ pending[i] \in Seq(Chunks)
    BY DEF TypeOK, Sends
  <1>2. /\ Chunks \subseteq Chunks'
        /\ issued' = issued + 1 => Range(Line(issued + 1)) \subseteq Chunks'
    BY <1>1, ChunksGrow
  <1>3. pending[i] \in Seq(Chunks')
    <2>. DEFINE T == Chunks'
    <2>1. Chunks \subseteq T /\ Len(pending[i]) \in Nat
      BY <1>1, <1>2, LenProperties
    <2>. HIDE DEF T
    <2>2. pending[i] \in Seq(T)
      BY <1>1, <2>1
    <2>3. QED
      BY <2>2 DEF T
  <1>4. c \in Seq(Chunks')
    <2>1. CASE c = pending[i]
      BY <1>3, <2>1
    <2>2. CASE c = Outgoing(i) /\ issued' = issued + 1
      BY <1>2, <1>3, <2>2, OutgoingIs
    <2>3. QED
      BY <2>1, <2>2 DEF Sends
  <1>5. QED
    BY <1>1, <1>2, <1>4, LenProperties

\* A flush is a push.
LEMMA FlushIsPush ==
  ASSUME TypeOK, NEW i \in Instances, NEW c, Sends(i, c), NEW k \in 0..Len(c), Flush(i, c, k),
         open' \in [Instances -> BOOLEAN], \A j \in Instances \ {i} : open'[j] = open[j],
         k < Len(c) => open'[i], faults' \in Nat
  PROVE  \E rest : Push(i, c, k, rest)
  <1>. DEFINE rest == SubSeq(c, k + 1, Len(c))
  <1>1. c \in Seq(Chunks') /\ Len(c) \in Nat
    BY SendsChunks
  <1>2. rest # <<>> => open'[i]
    <2>1. CASE k = Len(c)
      BY <1>1, <2>1, NothingJoined
    <2>2. QED
      BY <1>1, <2>1
  <1>. HIDE DEF rest
  <1>3. pending' = [pending EXCEPT ![i] = rest]
    BY DEF Flush, rest
  <1>4. \A j \in Instances : pending'[j] # <<>> => open'[j]
    BY <1>2, <1>3 DEF TypeOK
  <1>5. Push(i, c, k, rest)
    BY <1>3, <1>4 DEF Push, Flush, rest
  <1>6. QED
    BY <1>5

\* A line behind what is held back is a sequence.
LEMMA OutgoingTyped ==
  ASSUME TypeOK, NEW i \in Instances
  PROVE  Len(Outgoing(i)) \in Nat /\ \E T : Outgoing(i) \in Seq(T)
  <1>. DEFINE T == Chunks \cup Range(Line(issued + 1))
  <1>1. Chunks \subseteq T /\ Range(Line(issued + 1)) \subseteq T
    OBVIOUS
  <1>. HIDE DEF T
  <1>2. pending[i] \in Seq(Chunks) /\ Len(pending[i]) \in Nat
    BY LenProperties DEF TypeOK
  <1>3. pending[i] \in Seq(T)
    BY <1>1, <1>2
  <1>4. Outgoing(i) \in Seq(T)
    BY <1>1, <1>3, OutgoingIs
  <1>5. QED
    BY <1>4, LenProperties

\* A crash is a push of the new line, or of nothing, that drops the rest.
LEMMA DieIsPush ==
  ASSUME TypeOK, NEW i \in Instances, Die(i)
  PROVE  \E c, k, rest : Push(i, c, k, rest) /\ Silent(i)
  <1>1. /\ faults' \in Nat /\ open' \in [Instances -> BOOLEAN]
        /\ pending' = [pending EXCEPT ![i] = <<>>]
        /\ \A j \in Instances : pending'[j] # <<>> => open'[j]
    BY DEF Die, Fault, TypeOK
  <1>2. Silent(i)
    BY DEF Die, Silent
  <1>3. PICK k \in 0..Len(Outgoing(i)) :
          /\ k > 0 => issued < MaxRecords
          /\ issued' = IF k > 0 THEN issued + 1 ELSE issued
          /\ file' = file \o SubSeq(Outgoing(i), 1, k)
          /\ tears' = IF k > 0 /\ Outgoing(i)[k] # Newline THEN tears + 1 ELSE tears
    BY DEF Die
  <1>4. CASE k > 0
    <2>1. Sends(i, Outgoing(i))
      BY <1>3, <1>4 DEF Sends
    <2>2. Push(i, Outgoing(i), k, <<>>)
      BY <1>1, <1>3, <2>1 DEF Push
    <2>3. QED
      BY <1>2, <2>2
  <1>5. CASE ~(k > 0)
    <2>1. Sends(i, pending[i]) /\ k = 0
      <3>1. k \in Nat /\ k = 0
        BY <1>3, <1>5, OutgoingTyped
      <3>2. QED
        BY <1>3, <3>1 DEF Sends
    <2>2. pending[i] \in Seq(Chunks) /\ Len(pending[i]) \in Nat /\ file \in Seq(Chunks)
      BY LenProperties DEF TypeOK
    <2>3. file \o SubSeq(pending[i], 1, 0) = file
      BY <2>2, NothingJoined
    <2>4. file \o SubSeq(Outgoing(i), 1, 0) = file
      <3>1. PICK T : Outgoing(i) \in Seq(T)
        BY OutgoingTyped
      <3>2. QED
        BY <2>2, <3>1, NothingJoined
    <2>5. file' = file \o SubSeq(pending[i], 1, 0) /\ tears' = tears
      BY <1>3, <2>1, <2>3, <2>4
    <2>6. Push(i, pending[i], 0, <<>>)
      BY <1>1, <2>1, <2>2, <2>5 DEF Push
    <2>7. QED
      BY <1>2, <2>6
  <1>6. QED
    BY <1>4, <1>5

\* Every step is a push of one instance.
LEMMA StepIsPush ==
  ASSUME TypeOK, Next
  PROVE  \E i \in Instances : \E c, k, rest :
           Push(i, c, k, rest) /\ (Silent(i) \/ Returns(i, c, k))
  <1>1. PICK i \in Instances :
          Record(i) \/ RecordRaises(i) \/ OpenRaises(i) \/ Close(i) \/ CloseRaises(i) \/ Die(i)
    BY DEF Next
  <1>2. /\ open \in [Instances -> BOOLEAN] /\ faults \in Nat /\ Len(Outgoing(i)) \in Nat
        /\ pending[i] \in Seq(Chunks) /\ Len(pending[i]) \in Nat /\ file \in Seq(Chunks)
        /\ pending \in [Instances -> Seq(Chunks)]
    BY OutgoingTyped, LenProperties DEF TypeOK
  <1>3. CASE Record(i)
    <2>1. Sends(i, Outgoing(i)) /\ Returns(i, Outgoing(i), Len(Outgoing(i)))
      BY <1>3 DEF Record, Issue, Sends, Returns
    <2>2. /\ Len(Outgoing(i)) \in 0..Len(Outgoing(i)) /\ Flush(i, Outgoing(i), Len(Outgoing(i)))
          /\ open' = [open EXCEPT ![i] = TRUE] /\ faults' = faults
      BY <1>2, <1>3 DEF Record
    <2>3. /\ open' \in [Instances -> BOOLEAN] /\ \A j \in Instances \ {i} : open'[j] = open[j]
          /\ open'[i] /\ faults' \in Nat
      BY <1>2, <2>2
    <2>4. \E rest : Push(i, Outgoing(i), Len(Outgoing(i)), rest)
      BY <2>1, <2>2, <2>3, FlushIsPush
    <2>5. QED
      BY <2>1, <2>4
  <1>4. CASE RecordRaises(i)
    <2>1. Sends(i, Outgoing(i)) /\ Silent(i)
      BY <1>4 DEF RecordRaises, Issue, Sends, Silent
    <2>2. PICK k \in 0..(Len(Outgoing(i)) - 1) : Flush(i, Outgoing(i), k)
      BY <1>4 DEF RecordRaises
    <2>3. /\ open' \in [Instances -> BOOLEAN] /\ \A j \in Instances \ {i} : open'[j] = open[j]
          /\ open'[i] /\ faults' \in Nat /\ k \in 0..Len(Outgoing(i))
      BY <1>2, <1>4 DEF RecordRaises, Fault
    <2>4. \E rest : Push(i, Outgoing(i), k, rest)
      BY <2>1, <2>2, <2>3, FlushIsPush
    <2>5. QED
      BY <2>1, <2>4
  <1>5. CASE OpenRaises(i)
    <2>1. Sends(i, Outgoing(i)) /\ Silent(i) /\ faults' \in Nat /\ 0 \in 0..Len(Outgoing(i))
      BY <1>2, <1>5 DEF OpenRaises, Issue, Sends, Silent, Fault
    <2>2. /\ pending[i] = <<>> /\ file' = file /\ tears' = tears /\ open' = open
          /\ pending' = pending
      BY <1>5 DEF OpenRaises, TypeOK
    <2>3. pending' = [pending EXCEPT ![i] = <<>>]
      BY <1>2, <2>2
    <2>4. file' = file \o SubSeq(Outgoing(i), 1, 0)
      <3>1. PICK T : Outgoing(i) \in Seq(T)
        BY OutgoingTyped
      <3>2. QED
        BY <1>2, <2>2, <3>1, NothingJoined
    <2>5. \A j \in Instances : pending'[j] # <<>> => open'[j]
      BY <2>2 DEF TypeOK
    <2>6. Push(i, Outgoing(i), 0, <<>>)
      <3>1. tears' = IF 0 > 0 /\ Outgoing(i)[0] # Newline THEN tears + 1 ELSE tears
        BY <2>2
      <3>2. open' \in [Instances -> BOOLEAN]
        BY <1>2, <2>2
      <3>3. QED
        BY <2>1, <2>3, <2>4, <2>5, <3>1, <3>2 DEF Push
    <2>7. QED
      BY <2>1, <2>6
  <1>6. CASE Close(i)
    <2>1. Sends(i, pending[i]) /\ Silent(i)
      BY <1>6 DEF Close, Sends, Silent
    <2>2. /\ Len(pending[i]) \in 0..Len(pending[i]) /\ Flush(i, pending[i], Len(pending[i]))
          /\ open' \in [Instances -> BOOLEAN] /\ \A j \in Instances \ {i} : open'[j] = open[j]
          /\ faults' \in Nat /\ ~(Len(pending[i]) < Len(pending[i]))
      BY <1>2, <1>6 DEF Close
    <2>3. \E rest : Push(i, pending[i], Len(pending[i]), rest)
      BY <2>1, <2>2, FlushIsPush
    <2>4. QED
      BY <2>1, <2>3
  <1>7. CASE CloseRaises(i)
    <2>1. Sends(i, pending[i]) /\ Silent(i)
      BY <1>7 DEF CloseRaises, Sends, Silent
    <2>2. PICK k \in 0..(Len(pending[i]) - 1) : Flush(i, pending[i], k)
      BY <1>7 DEF CloseRaises
    <2>3. /\ open' \in [Instances -> BOOLEAN] /\ \A j \in Instances \ {i} : open'[j] = open[j]
          /\ open'[i] /\ faults' \in Nat /\ k \in 0..Len(pending[i])
      BY <1>2, <1>7 DEF CloseRaises, Fault
    <2>4. \E rest : Push(i, pending[i], k, rest)
      BY <2>1, <2>2, <2>3, FlushIsPush
    <2>5. QED
      BY <2>1, <2>4
  <1>8. CASE Die(i)
    BY <1>8, DieIsPush
  <1>9. QED
    BY <1>1, <1>3, <1>4, <1>5, <1>6, <1>7, <1>8

-----------------------------------------------------------------------------
(* What a push writes *)

\* What is sent is in no other place, belongs to no returned entry, and ends a line.
Clean(i, c) ==
  /\ Once(c) /\ Apart(file, c)
  /\ \A j \in Instances \ {i} : Apart(c, pending[j])
  /\ \A p \in 1..Len(c) : c[p][1] \notin returned
  /\ c # <<>> => c[Len(c)] = Newline

\* The file after a push, and what is left of the chunks sent.
Grows(c, k, rest) ==
  /\ Len(file) \in Nat /\ Len(c) \in Nat /\ k \in Nat /\ k <= Len(c)
  /\ file' \in Seq(Chunks') /\ Len(file') = Len(file) + k
  /\ \A p \in 1..Len(file) : file'[p] = file[p]
  /\ \A q \in 1..k : file'[Len(file) + q] = c[q]
  /\ rest \in Seq(Chunks') /\ Len(rest) \in Nat
  /\ \A q \in 1..Len(rest) : k + q \in 1..Len(c) /\ rest[q] = c[k + q]
  /\ rest # <<>> => Len(rest) > 0 /\ k + Len(rest) = Len(c)

\* A push does that.
LEMMA PushGrows ==
  ASSUME TypeOK, NEW i \in Instances, NEW c, NEW k, NEW rest, Push(i, c, k, rest)
  PROVE  Grows(c, k, rest)
  <1>. DEFINE T == Chunks'
  <1>1. /\ c \in Seq(T) /\ Len(c) \in Nat /\ Chunks \subseteq T /\ k \in 0..Len(c)
        /\ file' = file \o SubSeq(c, 1, k) /\ rest \in {SubSeq(c, k + 1, Len(c)), <<>>}
    BY SendsChunks DEF Push
  <1>. HIDE DEF T
  <1>2. file \in Seq(T) /\ Len(file) \in Nat
    <2>1. file \in Seq(Chunks)
      BY DEF TypeOK
    <2>2. Len(file) \in Nat
      BY <2>1, LenProperties
    <2>3. QED
      BY <1>1, <2>1, <2>2
  <1>. DEFINE r == SubSeq(c, k + 1, Len(c))
              s == file \o SubSeq(c, 1, k)
  <1>3. /\ s \in Seq(T) /\ Len(s) = Len(file) + k
        /\ \A p \in 1..Len(file) : s[p] = file[p]
        /\ \A q \in 1..k : s[Len(file) + q] = c[q]
        /\ r \in Seq(T) /\ Len(r) = Len(c) - k
        /\ \A q \in 1..(Len(c) - k) : r[q] = c[k + q]
    BY <1>1, <1>2, Joined
  <1>4. file' = s /\ rest \in {r, <<>>}
    BY <1>1
  <1>. HIDE DEF r, s
  <1>5. /\ rest \in Seq(T) /\ Len(rest) \in Nat
        /\ \A q \in 1..Len(rest) : k + q \in 1..Len(c) /\ rest[q] = c[k + q]
        /\ rest # <<>> => Len(rest) > 0 /\ k + Len(rest) = Len(c)
    <2>1. CASE rest = <<>>
      <3>1. rest \in Seq(T) /\ Len(rest) = 0
        BY <2>1, EmptySeq
      <3>2. QED
        BY <2>1, <3>1
    <2>2. CASE rest = r /\ r # <<>>
      <3>1. Len(r) # 0
        BY <1>3, <2>2, EmptySeq
      <3>2. QED
        BY <1>1, <1>3, <2>2, <3>1
    <2>3. QED
      BY <1>4, <2>1, <2>2
  <1>6. QED
    BY <1>1, <1>2, <1>3, <1>4, <1>5 DEF Grows, T

\* A chunk in the file or in a buffer is a newline or half an entry issued before.
LEMMA OldChunks ==
  ASSUME TypeOK
  PROVE  /\ \A p \in 1..Len(file) : file[p] = Newline \/ file[p][1] \in 1..issued
         /\ \A i \in Instances : /\ Len(pending[i]) \in Nat
                                 /\ \A p \in 1..Len(pending[i]) :
                                      pending[i][p] = Newline \/ pending[i][p][1] \in 1..issued
  <1>1. \A p \in 1..Len(file) : file[p] \in Chunks
    BY ElementOfSeq DEF TypeOK
  <1>2. ASSUME NEW i \in Instances
        PROVE  /\ Len(pending[i]) \in Nat
               /\ \A p \in 1..Len(pending[i]) : pending[i][p] \in Chunks
    <2>1. pending[i] \in Seq(Chunks)
      BY DEF TypeOK
    <2>2. QED
      BY <2>1, LenProperties, ElementOfSeq
  <1>3. QED
    BY <1>1, <1>2, ChunkFacts

\* What is sent is clean.
LEMMA SendsClean ==
  ASSUME TypeOK, WrittenOnce, Unreturned, NEW i \in Instances, NEW c, Sends(i, c)
  PROVE  Clean(i, c)
  <1>. DEFINE t == pending[i]
              n == issued + 1
  <1>1. /\ Len(t) \in Nat /\ issued \in Nat /\ returned \subseteq 1..issued
        /\ t # <<>> => t[Len(t)] = Newline
        /\ \A p \in 1..Len(t) : t[p][1] \notin returned
    BY OldChunks DEF TypeOK, Last, Unreturned
  <1>2. /\ \A p \in 1..Len(file) : file[p] = Newline \/ file[p][1] \in 1..issued
        /\ \A j \in Instances : \A p \in 1..Len(pending[j]) :
             pending[j][p] = Newline \/ pending[j][p][1] \in 1..issued
    BY OldChunks
  <1>3. /\ Once(t) /\ Apart(file, t)
        /\ \A j \in Instances \ {i} : Apart(t, pending[j])
    BY DEF WrittenOnce
  <1>4. CASE c = t
    BY <1>1, <1>3, <1>4 DEF Clean
  <1>5. CASE c = Outgoing(i) /\ issued' = issued + 1
    <2>1. /\ Len(c) = Len(t) + 3
          /\ \A p \in 1..Len(t) : c[p] = t[p]
          /\ c[Len(t) + 1] = <<n, "head">> /\ c[Len(t) + 2] = <<n, "tail">>
          /\ c[Len(t) + 3] = Newline
      <3>1. t \in Seq(Chunks \cup Range(Line(issued + 1)))
        <4>. DEFINE T == Chunks \cup Range(Line(issued + 1))
        <4>1. t \in Seq(Chunks) /\ Chunks \subseteq T
          BY DEF TypeOK
        <4>. HIDE DEF T, t
        <4>2. t \in Seq(T)
          BY <1>1, <4>1
        <4>3. QED
          BY <4>2 DEF T
      <3>2. QED
        BY <1>5, <3>1, OutgoingIs
    <2>. HIDE DEF t
    <2>2. \A p \in 1..Len(c) : \/ p \in 1..Len(t) /\ c[p] = t[p]
                               \/ p = Len(t) + 1 /\ c[p] = <<n, "head">>
                               \/ p = Len(t) + 2 /\ c[p] = <<n, "tail">>
                               \/ c[p] = Newline
      BY <1>1, <2>1
    <2>3. \A p \in 1..Len(t) : t[p] = Newline \/ t[p][1] \in 1..issued
      BY <1>2 DEF t
    <2>4. <<n, "head">>[1] = n /\ <<n, "tail">>[1] = n /\ <<n, "head">> # <<n, "tail">>
          /\ n \notin 1..issued /\ Newline[1] = 0 /\ 0 \notin 1..issued /\ n # 0
      BY <1>1 DEF Newline
    <2>. DEFINE h == <<n, "head">>
                g == <<n, "tail">>
    <2>5. /\ h[1] = n /\ g[1] = n /\ h # g /\ h # Newline /\ g # Newline
          /\ \A p \in 1..Len(c) : \/ p \in 1..Len(t) /\ c[p] = t[p]
                                  \/ p = Len(t) + 1 /\ c[p] = h
                                  \/ p = Len(t) + 2 /\ c[p] = g
                                  \/ c[p] = Newline
      BY <2>2, <2>4
    <2>. HIDE DEF h, g
    <2>6. Once(c)
      BY <1>3, <2>3, <2>4, <2>5 DEF Once
    <2>7. Apart(file, c)
      BY <1>2, <1>3, <2>4, <2>5 DEF Apart
    <2>8. \A j \in Instances \ {i} : Apart(c, pending[j])
      BY <1>2, <1>3, <2>4, <2>5 DEF Apart
    <2>9. \A p \in 1..Len(c) : c[p][1] \notin returned
      BY <1>1, <2>4, <2>5 DEF t
    <2>10. c[Len(c)] = Newline
      BY <2>1
    <2>11. QED
      BY <2>6, <2>7, <2>8, <2>9, <2>10 DEF Clean
  <1>6. QED
    BY <1>4, <1>5 DEF Sends

-----------------------------------------------------------------------------
(* A push keeps the invariant *)

\* Types.
LEMMA PushTyped ==
  ASSUME TypeOK, NEW i \in Instances, NEW c, NEW k, NEW rest, Push(i, c, k, rest),
         Clean(i, c), Grows(c, k, rest), Silent(i) \/ Returns(i, c, k)
  PROVE  TypeOK'
  <1>1. /\ issued \in Nat /\ tears \in Nat /\ returned \subseteq 1..issued
        /\ mirror \in [Instances -> Seq(returned)] /\ pending \in [Instances -> Seq(Chunks)]
    BY DEF TypeOK
  <1>2. /\ issued' \in {issued, issued + 1} /\ issued' \in Nat /\ Chunks \subseteq Chunks'
    BY SendsChunks DEF Push
  <1>3. tears' \in Nat /\ faults' \in Nat /\ open' \in [Instances -> BOOLEAN]
    BY <1>1 DEF Push
  <1>4. /\ returned' \subseteq 1..issued' /\ returned \subseteq returned'
        /\ \/ returned' = returned
           \/ issued + 1 \in returned'
    <2>1. CASE Silent(i)
      <3>1. 1..issued \subseteq 1..issued'
        BY <1>1, <1>2
      <3>2. QED
        BY <1>1, <2>1, <3>1 DEF Silent
    <2>2. CASE Returns(i, c, k)
      <3>1. 1..issued \subseteq 1..issued' /\ issued + 1 \in 1..issued'
        BY <1>1, <2>2 DEF Returns
      <3>2. QED
        BY <1>1, <2>2, <3>1 DEF Returns
    <2>3. QED
      BY <2>1, <2>2
  <1>5. mirror' \in [Instances -> Seq(returned')]
    <2>. DEFINE T == returned'
    <2>1. \A j \in Instances : mirror[j] \in Seq(returned) /\ Len(mirror[j]) \in Nat
      BY <1>1, LenProperties
    <2>2. returned \subseteq T
      BY <1>4
    <2>. HIDE DEF T
    <2>3. \A j \in Instances : mirror[j] \in Seq(T)
      BY <2>1, <2>2
    <2>4. <<>> \in Seq(T)
      BY EmptySeq
    <2>5. CASE Silent(i)
      BY <1>1, <2>3, <2>4, <2>5 DEF Silent, T
    <2>6. CASE Returns(i, c, k)
      <3>1. Append(mirror[i], issued + 1) \in Seq(T)
        <4>1. issued + 1 \in T
          BY <2>6 DEF Returns, T
        <4>2. QED
          BY <2>3, <4>1, AppendProperties
      <3>2. mirror' = [mirror EXCEPT ![i] = Append(mirror[i], issued + 1)]
        BY <2>6 DEF Returns
      <3>3. mirror' \in [Instances -> Seq(T)]
        BY <1>1, <2>3, <3>1, <3>2
      <3>4. QED
        BY <3>3 DEF T
    <2>7. QED
      BY <2>5, <2>6
  <1>6. pending' \in [Instances -> Seq(Chunks')]
    <2>. DEFINE T == Chunks'
    <2>1. \A j \in Instances : pending[j] \in Seq(Chunks) /\ Len(pending[j]) \in Nat
      BY <1>1, LenProperties
    <2>2. Chunks \subseteq T /\ rest \in Seq(T)
      BY <1>2 DEF Grows
    <2>. HIDE DEF T
    <2>3. \A j \in Instances : pending[j] \in Seq(T)
      BY <2>1, <2>2
    <2>4. pending' = [pending EXCEPT ![i] = rest]
      BY DEF Push
    <2>5. pending' \in [Instances -> Seq(T)]
      BY <1>1, <2>2, <2>3, <2>4
    <2>6. QED
      BY <2>5 DEF T
  <1>7. ASSUME NEW j \in Instances, pending'[j] # <<>>
        PROVE  open'[j] /\ pending'[j][Len(pending'[j])] = Newline
    <2>1. open'[j]
      BY <1>7 DEF Push
    <2>2. pending' = [pending EXCEPT ![i] = rest]
      BY DEF Push
    <2>3. CASE j = i
      <3>1. pending'[j] = rest /\ rest # <<>>
        BY <1>1, <1>7, <2>2, <2>3
      <3>2. /\ Len(rest) \in Nat /\ Len(rest) > 0 /\ k + Len(rest) = Len(c) /\ k \in Nat
            /\ \A q \in 1..Len(rest) : rest[q] = c[k + q]
        BY <3>1 DEF Grows
      <3>3. rest[Len(rest)] = c[Len(c)] /\ Len(c) > 0 /\ Len(c) \in Nat
        BY <3>2
      <3>4. c # <<>>
        BY <3>3, EmptySeq
      <3>5. QED
        BY <2>1, <3>1, <3>3, <3>4 DEF Clean
    <2>4. CASE j # i
      <3>1. pending'[j] = pending[j]
        BY <1>1, <2>2, <2>4
      <3>2. QED
        BY <1>7, <2>1, <3>1 DEF TypeOK, Last
    <2>5. QED
      BY <2>3, <2>4
  <1>8. file' \in Seq(Chunks')
    BY DEF Grows
  <1>9. QED
    BY <1>2, <1>3, <1>4, <1>5, <1>6, <1>7, <1>8 DEF TypeOK, Last

\* A chunk of the file after a push was there before or is one that was sent.
LEMMA OldOrNew ==
  ASSUME NEW c, NEW k, NEW rest, Grows(c, k, rest)
  PROVE  \A p \in 1..Len(file') :
           \/ p \in 1..Len(file) /\ file'[p] = file[p]
           \/ /\ p - Len(file) \in 1..k /\ p - Len(file) \in 1..Len(c)
              /\ p > Len(file) /\ file'[p] = c[p - Len(file)]
  <1>1. /\ Len(file) \in Nat /\ Len(c) \in Nat /\ k \in Nat /\ k <= Len(c)
        /\ Len(file') = Len(file) + k
        /\ \A p \in 1..Len(file) : file'[p] = file[p]
        /\ \A q \in 1..k : file'[Len(file) + q] = c[q]
    BY DEF Grows
  <1>2. ASSUME NEW p \in 1..Len(file'), p > Len(file)
        PROVE  p - Len(file) \in 1..k /\ p - Len(file) \in 1..Len(c) /\ file'[p] = c[p - Len(file)]
    <2>1. p - Len(file) \in 1..k
      BY <1>1, <1>2
    <2>2. file'[Len(file) + (p - Len(file))] = c[p - Len(file)]
      BY <1>1, <2>1
    <2>3. Len(file) + (p - Len(file)) = p
      BY <1>1
    <2>4. QED
      BY <1>1, <2>1, <2>2, <2>3
  <1>3. QED
    BY <1>1, <1>2

\* No chunk in two places.
LEMMA PushOnce ==
  ASSUME TypeOK, WrittenOnce, NEW i \in Instances, NEW c, NEW k, NEW rest, Push(i, c, k, rest),
         Clean(i, c), Grows(c, k, rest)
  PROVE  WrittenOnce'
  <1>1. /\ Once(file) /\ Once(c) /\ Apart(file, c)
        /\ \A j \in Instances : Once(pending[j]) /\ Apart(file, pending[j])
        /\ \A j \in Instances \ {i} : Apart(c, pending[j])
        /\ \A j, m \in Instances : j # m => Apart(pending[j], pending[m])
    BY DEF WrittenOnce, Clean
  <1>2. /\ pending'[i] = rest
        /\ \A j \in Instances \ {i} : pending'[j] = pending[j]
    BY DEF Push, TypeOK
  <1>. DEFINE f == file'
              N == Len(file)
  <1>3. /\ N \in Nat /\ Len(c) \in Nat /\ k \in Nat /\ k <= Len(c) /\ Len(f) = N + k
        /\ \A p \in 1..N : f[p] = file[p]
        /\ \A q \in 1..k : f[N + q] = c[q]
        /\ Len(rest) \in Nat /\ \A q \in 1..Len(rest) : k + q \in 1..Len(c) /\ rest[q] = c[k + q]
    BY DEF Grows
  <1>. HIDE DEF f
  <1>4. \A p \in 1..Len(f) : \/ p \in 1..N /\ f[p] = file[p]
                             \/ p - N \in 1..k /\ f[p] = c[p - N]
    BY OldOrNew DEF f
  <1>5. 1..k \subseteq 1..Len(c)
    BY <1>3
  <1>6. Once(f)
    <2>. SUFFICES ASSUME NEW p \in 1..Len(f), NEW q \in 1..Len(f), f[p] = f[q], f[p] # Newline
                  PROVE  p = q
      BY DEF Once
    <2>1. CASE p \in 1..N /\ q \in 1..N
      BY <1>1, <1>3, <2>1 DEF Once
    <2>2. CASE p \in 1..N /\ q - N \in 1..k /\ f[q] = c[q - N]
      BY <1>1, <1>3, <1>5, <2>2 DEF Apart
    <2>3. CASE q \in 1..N /\ p - N \in 1..k /\ f[p] = c[p - N]
      <3>1. file[q] = c[p - N] /\ p - N \in 1..Len(c) /\ f[q] = file[q]
        BY <1>3, <1>5, <2>3
      <3>2. file[q] = Newline
        BY <1>1, <2>3, <3>1 DEF Apart
      <3>3. QED
        BY <3>1, <3>2
    <2>4. CASE p - N \in 1..k /\ f[p] = c[p - N] /\ q - N \in 1..k /\ f[q] = c[q - N]
      <3>1. p - N = q - N
        BY <1>1, <1>5, <2>4 DEF Once
      <3>2. QED
        BY <1>3, <2>4, <3>1
    <2>5. QED
      BY <1>4, <2>1, <2>2, <2>3, <2>4
  <1>7. Once(rest) /\ Apart(f, rest)
    <2>1. Once(rest)
      BY <1>1, <1>3 DEF Once
    <2>2. ASSUME NEW p \in 1..Len(f), NEW q \in 1..Len(rest), f[p] = rest[q]
          PROVE  f[p] = Newline
      <3>1. k + q \in 1..Len(c) /\ rest[q] = c[k + q]
        BY <1>3
      <3>2. CASE p \in 1..N /\ f[p] = file[p]
        BY <1>1, <2>2, <3>1, <3>2 DEF Apart
      <3>3. CASE p - N \in 1..k /\ f[p] = c[p - N]
        <4>1. p - N # k + q
          BY <1>3, <3>3
        <4>2. QED
          BY <1>1, <1>5, <2>2, <3>1, <3>3, <4>1 DEF Once
      <3>4. QED
        BY <1>4, <3>2, <3>3
    <2>3. QED
      BY <2>1, <2>2 DEF Apart
  <1>8. ASSUME NEW j \in Instances \ {i}
        PROVE  Apart(f, pending[j])
    <2>. DEFINE t == pending[j]
    <2>1. Apart(file, t) /\ Apart(c, t)
      BY <1>1
    <2>. HIDE DEF t
    <2>2. ASSUME NEW p \in 1..Len(f), NEW q \in 1..Len(t), f[p] = t[q]
          PROVE  f[p] = Newline
      BY <1>4, <1>5, <2>1, <2>2 DEF Apart
    <2>3. QED
      BY <2>2 DEF Apart, t
  <1>9. ASSUME NEW j \in Instances \ {i}
        PROVE  Apart(rest, pending[j]) /\ Apart(pending[j], rest)
    <2>. DEFINE t == pending[j]
    <2>1. Apart(c, t)
      BY <1>1
    <2>. HIDE DEF t
    <2>2. ASSUME NEW p \in 1..Len(rest), NEW q \in 1..Len(t), rest[p] = t[q]
          PROVE  rest[p] = Newline
      BY <1>3, <2>1, <2>2 DEF Apart
    <2>3. QED
      BY <2>2 DEF Apart, t
  <1>10. QED
    <2>1. \A j \in Instances : Once(pending'[j]) /\ Apart(f, pending'[j])
      BY <1>1, <1>2, <1>7, <1>8
    <2>2. \A j, m \in Instances : j # m => Apart(pending'[j], pending'[m])
      BY <1>1, <1>2, <1>9
    <2>3. QED
      BY <1>6, <2>1, <2>2 DEF WrittenOnce, Once, Apart, f

\* The line of a record that returns is the end of what it wrote, behind a newline
\* or at the beginning.
LEMMA ReturnsLine ==
  ASSUME TypeOK, NEW i \in Instances, NEW c, NEW k, NEW rest, Grows(c, k, rest),
         Returns(i, c, k)
  PROVE  /\ Len(c) \in Nat /\ Len(c) >= 3 /\ k = Len(c) /\ rest = <<>>
         /\ c[Len(c) - 2] = <<issued + 1, "head">> /\ c[Len(c) - 1] = <<issued + 1, "tail">>
         /\ c[Len(c)] = Newline
         /\ Len(c) = 3 \/ c[Len(c) - 3] = Newline
  <1>. DEFINE t == pending[i]
              T == Chunks \cup Range(Line(issued + 1))
  <1>1. t \in Seq(Chunks) /\ Len(t) \in Nat /\ (t # <<>> => t[Len(t)] = Newline)
    BY OldChunks DEF TypeOK, Last
  <1>2. t \in Seq(T)
    <2>1. Chunks \subseteq T
      OBVIOUS
    <2>. HIDE DEF T, t
    <2>2. QED
      BY <1>1, <2>1
  <1>3. /\ Len(c) = Len(t) + 3
        /\ \A p \in 1..Len(t) : c[p] = t[p]
        /\ c[Len(t) + 1] = <<issued + 1, "head">> /\ c[Len(t) + 2] = <<issued + 1, "tail">>
        /\ c[Len(t) + 3] = Newline
    <2>1. Range(Line(issued + 1)) \subseteq T /\ c = Outgoing(i)
      BY DEF Returns
    <2>. HIDE DEF T
    <2>2. QED
      BY <1>2, <2>1, OutgoingIs
  <1>. HIDE DEF t
  <1>4. /\ Len(c) - 2 = Len(t) + 1 /\ Len(c) - 1 = Len(t) + 2 /\ Len(c) - 3 = Len(t)
        /\ Len(c) \in Nat /\ Len(c) >= 3
    BY <1>1, <1>3
  <1>5. Len(c) = 3 \/ c[Len(c) - 3] = Newline
    <2>1. CASE t = <<>>
      BY <1>3, <2>1, EmptySeq
    <2>2. CASE t # <<>>
      <3>1. Len(t) # 0
        BY <1>1, <2>2, EmptySeq
      <3>2. Len(t) \in 1..Len(t)
        BY <1>1, <3>1
      <3>3. QED
        BY <1>1, <1>3, <1>4, <2>2, <3>2
    <2>3. QED
      BY <2>1, <2>2
  <1>6. k = Len(c)
    BY DEF Returns
  <1>7. rest = <<>>
    <2>1. k \in Nat /\ Len(rest) \in Nat /\ (rest # <<>> => Len(rest) > 0 /\ k + Len(rest) = Len(c))
      BY DEF Grows
    <2>2. QED
      BY <1>4, <1>6, <2>1
  <1>8. QED
    BY <1>3, <1>4, <1>5, <1>6, <1>7

\* Of what was sent, only the new entry can have returned after a push.
LEMMA NewReturns ==
  ASSUME TypeOK, NEW i \in Instances, NEW c, NEW k, NEW rest, Clean(i, c), Grows(c, k, rest),
         Silent(i) \/ Returns(i, c, k)
  PROVE  /\ returned \subseteq 1..issued /\ issued \in Nat
         /\ returned' \in {returned, returned \cup {issued + 1}}
         /\ \A q \in 1..Len(c) : c[q][1] \in returned' =>
              /\ returned' = returned \cup {issued + 1} /\ c[q][1] = issued + 1
         /\ \A p \in 1..Len(file) : file[p][1] \in returned' => file[p][1] \in returned
         /\ \A j \in Instances : \A p \in 1..Len(pending[j]) :
              pending[j][p][1] \in returned' => pending[j][p][1] \in returned
  <1>1. returned \subseteq 1..issued /\ issued \in Nat
    BY DEF TypeOK
  <1>2. returned' \in {returned, returned \cup {issued + 1}}
    BY DEF Silent, Returns
  <1>3. \A q \in 1..Len(c) : c[q][1] \notin returned
    BY DEF Clean
  <1>4. Newline[1] = 0 /\ issued + 1 # 0 /\ issued + 1 \notin 1..issued
    BY <1>1 DEF Newline
  <1>5. /\ \A p \in 1..Len(file) : file[p][1] # issued + 1
        /\ \A j \in Instances : \A p \in 1..Len(pending[j]) : pending[j][p][1] # issued + 1
    BY <1>4, OldChunks
  <1>6. QED
    BY <1>1, <1>2, <1>3, <1>5

\* What is held back, and a line without its newline, did not return.
LEMMA PushUnreturned ==
  ASSUME TypeOK, Unreturned, NEW i \in Instances, NEW c, NEW k, NEW rest,
         Push(i, c, k, rest), Clean(i, c), Grows(c, k, rest), Silent(i) \/ Returns(i, c, k)
  PROVE  Unreturned'
  <1>1. /\ pending'[i] = rest
        /\ \A j \in Instances \ {i} : pending'[j] = pending[j]
    BY DEF Push, TypeOK
  <1>2. /\ returned' \in {returned, returned \cup {issued + 1}}
        /\ \A q \in 1..Len(c) : c[q][1] \in returned' => returned' = returned \cup {issued + 1}
        /\ \A p \in 1..Len(file) : file[p][1] \in returned' => file[p][1] \in returned
        /\ \A j \in Instances : \A p \in 1..Len(pending[j]) :
             pending[j][p][1] \in returned' => pending[j][p][1] \in returned
    BY NewReturns
  <1>3. \A j \in Instances : \A p \in 1..Len(pending[j]) : pending[j][p][1] \notin returned
    BY DEF Unreturned
  <1>4. CASE Returns(i, c, k)
    <2>1. /\ Len(c) \in Nat /\ Len(c) >= 3 /\ k = Len(c) /\ rest = <<>> /\ c[Len(c)] = Newline
      BY <1>4, ReturnsLine
    <2>2. file'[Len(file')] = Newline
      <3>1. Len(file) \in Nat /\ Len(file') = Len(file) + k /\ \A q \in 1..k : file'[Len(file) + q] = c[q]
        BY DEF Grows
      <3>2. k \in 1..k
        BY <2>1
      <3>3. QED
        BY <2>1, <3>1, <3>2
    <2>3. \A p \in 1..Len(rest) : FALSE
      <3>1. Len(rest) = 0
        BY <2>1, EmptySeq
      <3>2. QED
        BY <3>1
    <2>4. \A j \in Instances : \A p \in 1..Len(pending'[j]) : pending'[j][p][1] \notin returned'
      BY <1>1, <1>2, <1>3, <2>3
    <2>5. QED
      BY <2>2, <2>4 DEF Unreturned, Dangling
  <1>5. CASE Silent(i)
    <2>1. returned' = returned /\ \A q \in 1..Len(c) : c[q][1] \notin returned'
      BY <1>5 DEF Silent, Clean
    <2>2. \A p \in 1..Len(rest) : rest[p][1] \notin returned'
      BY <2>1 DEF Grows
    <2>3. \A j \in Instances : \A p \in 1..Len(pending'[j]) : pending'[j][p][1] \notin returned'
      BY <1>1, <1>3, <2>1, <2>2
    <2>4. ASSUME file' # <<>>, file'[Len(file')] # Newline
          PROVE  file'[Len(file')][1] \notin returned'
      <3>1. Len(file') \in 1..Len(file')
        <4>1. file' \in Seq(Chunks')
          BY DEF Grows
        <4>2. Len(file') \in Nat /\ Len(file') # 0
          BY <2>4, <4>1, LenProperties, EmptySeq
        <4>3. QED
          BY <4>2
      <3>2. CASE Len(file') \in 1..Len(file) /\ file'[Len(file')] = file[Len(file')]
        <4>1. Len(file') = Len(file)
          BY <3>2 DEF Grows
        <4>2. file # <<>>
          BY <3>2, <4>1, EmptySeq
        <4>3. QED
          BY <2>1, <2>4, <3>2, <4>1, <4>2 DEF Unreturned, Dangling
      <3>3. CASE Len(file') - Len(file) \in 1..Len(c) /\ file'[Len(file')] = c[Len(file') - Len(file)]
        BY <2>1, <3>3
      <3>4. QED
        BY <3>1, <3>2, <3>3, OldOrNew
    <2>5. QED
      BY <2>3, <2>4 DEF Unreturned, Dangling
  <1>6. QED
    BY <1>4, <1>5

\* The entries that returned lie in the file in the order of the calls.
LEMMA PushOrdered ==
  ASSUME TypeOK, Ordered, NEW i \in Instances, NEW c, NEW k, NEW rest,
         Clean(i, c), Grows(c, k, rest), Silent(i) \/ Returns(i, c, k)
  PROVE  Ordered'
  <1>. DEFINE N == Len(file)
              f == file'
              R == returned'
              n == issued + 1
  <1>1. /\ returned \subseteq 1..issued /\ issued \in Nat
        /\ \A q \in 1..Len(c) : c[q][1] \in R => c[q][1] = n
        /\ \A p \in 1..N : file[p][1] \in R => file[p][1] \in returned
    BY NewReturns
  <1>2. \A p \in 1..Len(f) : \/ p \in 1..N /\ f[p] = file[p]
                             \/ p - N \in 1..Len(c) /\ p > N /\ f[p] = c[p - N]
    BY OldOrNew
  <1>3. N \in Nat /\ Len(f) \in Nat
    BY DEF Grows
  <1>. HIDE DEF f, R
  <1>4. ASSUME NEW p \in 1..Len(f), NEW q \in 1..Len(f), p < q, f[p][1] \in R, f[q][1] \in R
        PROVE  f[p][1] <= f[q][1]
    <2>1. CASE p \in 1..N /\ f[p] = file[p] /\ q \in 1..N /\ f[q] = file[q]
      BY <1>1, <1>4, <2>1 DEF Ordered
    <2>2. CASE q - N \in 1..Len(c) /\ q > N /\ f[q] = c[q - N]
      <3>1. f[q][1] = n
        BY <1>1, <1>4, <2>2
      <3>2. f[p][1] \in 1..issued \/ f[p][1] = n
        <4>1. CASE p \in 1..N /\ f[p] = file[p]
          BY <1>1, <1>4, <4>1
        <4>2. CASE p - N \in 1..Len(c) /\ f[p] = c[p - N]
          BY <1>1, <1>4, <4>2
        <4>3. QED
          BY <1>2, <4>1, <4>2
      <3>3. QED
        BY <1>1, <3>1, <3>2
    <2>3. QED
      BY <1>2, <1>3, <1>4, <2>1, <2>2
  <1>5. QED
    BY <1>4 DEF Ordered, f, R

\* A line in the file stays there.
LEMMA PushLanded ==
  ASSUME TypeOK, Landed, NEW i \in Instances, NEW c, NEW k, NEW rest,
         Grows(c, k, rest), Silent(i) \/ Returns(i, c, k)
  PROVE  Landed'
  <1>1. /\ Len(file) \in Nat /\ Len(file') = Len(file) + k /\ k \in Nat
        /\ \A p \in 1..Len(file) : file'[p] = file[p]
        /\ \A q \in 1..k : file'[Len(file) + q] = c[q]
    BY DEF Grows
  <1>2. ASSUME NEW e \in returned
        PROVE  \E p \in Nat : LineAt(file', e, p)
    <2>1. PICK p \in Nat : LineAt(file, e, p)
      BY <1>2 DEF Landed
    <2>2. p \in 1..Len(file) /\ p + 1 \in 1..Len(file) /\ p + 2 \in 1..Len(file)
      BY <1>1, <2>1 DEF LineAt
    <2>3. LineAt(file', e, p)
      BY <1>1, <2>1, <2>2 DEF LineAt
    <2>4. QED
      BY <2>3
  <1>3. ASSUME Returns(i, c, k)
        PROVE  \E p \in Nat : LineAt(file', issued + 1, p)
    <2>1. /\ Len(c) \in Nat /\ Len(c) >= 3 /\ k = Len(c)
          /\ c[Len(c) - 2] = <<issued + 1, "head">> /\ c[Len(c) - 1] = <<issued + 1, "tail">>
          /\ c[Len(c)] = Newline
      BY <1>3, ReturnsLine
    <2>. DEFINE p == Len(file) + Len(c) - 2
    <2>2. /\ p \in Nat /\ p + 1 = Len(file) + (Len(c) - 1) /\ p + 2 = Len(file) + Len(c)
          /\ p = Len(file) + (Len(c) - 2)
          /\ p \in 1..Len(file') /\ p + 2 \in 1..Len(file')
          /\ Len(c) - 2 \in 1..k /\ Len(c) - 1 \in 1..k /\ Len(c) \in 1..k
      BY <1>1, <2>1
    <2>. HIDE DEF p
    <2>3. LineAt(file', issued + 1, p)
      BY <1>1, <2>1, <2>2 DEF LineAt
    <2>4. QED
      BY <2>2, <2>3
  <1>4. returned' = returned \/ (Returns(i, c, k) /\ returned' = returned \cup {issued + 1})
    BY DEF Silent, Returns
  <1>5. \A e \in returned' : \E p \in Nat : LineAt(file', e, p)
    BY <1>2, <1>3, <1>4
  <1>6. QED
    BY <1>5 DEF Landed, LineAt

\* A mirror holds its entries in the order of the calls.
LEMMA PushMirrored ==
  ASSUME TypeOK, Mirrored, NEW i \in Instances, NEW c, NEW k, Silent(i) \/ Returns(i, c, k)
  PROVE  Mirrored'
  <1>1. /\ issued \in Nat /\ returned \subseteq 1..issued
        /\ mirror \in [Instances -> Seq(returned)]
    BY DEF TypeOK
  <1>2. CASE Silent(i)
    <2>1. Increasing(<<>>)
      <3>1. Len(<<>>) = 0
        BY EmptySeq
      <3>2. QED
        BY <3>1 DEF Increasing
    <2>2. \A j \in Instances : mirror'[j] = mirror[j] \/ mirror'[j] = <<>>
      BY <1>1, <1>2 DEF Silent
    <2>3. QED
      BY <2>1, <2>2 DEF Mirrored, Increasing
  <1>3. CASE Returns(i, c, k)
    <2>. DEFINE m == mirror[i]
                n == issued + 1
                a == Append(m, n)
    <2>1. /\ m \in Seq(returned) /\ Len(m) \in Nat /\ Increasing(m)
          /\ \A p \in 1..Len(m) : m[p] \in 1..issued
      <3>1. m \in Seq(returned)
        BY <1>1
      <3>2. QED
        BY <1>1, <3>1, LenProperties, ElementOfSeq DEF Mirrored
    <2>2. Len(a) = Len(m) + 1 /\ a[Len(m) + 1] = n /\ \A p \in 1..Len(m) : a[p] = m[p]
      <3>. HIDE DEF m
      <3>1. m \in Seq(returned \cup {n})
        BY <2>1
      <3>2. QED
        BY <2>1, <3>1, AppendProperties
    <2>. HIDE DEF m, a
    <2>3. ASSUME NEW p \in 1..Len(a), NEW q \in 1..Len(a), p < q
          PROVE  a[p] < a[q]
      <3>1. p \in 1..Len(m)
        BY <2>1, <2>2, <2>3
      <3>2. CASE q \in 1..Len(m)
        BY <2>1, <2>2, <2>3, <3>1, <3>2 DEF Increasing
      <3>3. CASE q = Len(m) + 1
        <4>1. a[p] \in 1..issued /\ a[q] = n
          BY <2>1, <2>2, <3>1, <3>3
        <4>2. QED
          BY <1>1, <4>1
      <3>4. QED
        BY <2>1, <2>2, <3>2, <3>3
    <2>4. Increasing(a)
      BY <2>3 DEF Increasing
    <2>5. \A j \in Instances : mirror'[j] = IF j = i THEN a ELSE mirror[j]
      BY <1>1, <1>3 DEF Returns, a, m
    <2>6. \A j \in Instances : Increasing(mirror'[j])
      BY <2>4, <2>5 DEF Mirrored
    <2>7. QED
      BY <2>6 DEF Mirrored, Increasing
  <1>4. QED
    BY <1>2, <1>3

\* A line that can be read and whose record returned stays one that can be read.
LEMMA StaysWhole ==
  ASSUME TypeOK, Unreturned, NEW c, NEW k, NEW rest, Grows(c, k, rest),
         NEW m, WholeAt(file, m), file[m][1] \in returned
  PROVE  WholeAt(file', m) /\ file'[m] = file[m] /\ m \in DOMAIN file'
  <1>1. /\ Len(file) \in Nat /\ Len(file') = Len(file) + k /\ k \in Nat
        /\ \A p \in 1..Len(file) : file'[p] = file[p]
        /\ DOMAIN file = 1..Len(file) /\ DOMAIN file' = 1..Len(file')
    <2>1. file' \in Seq(Chunks') /\ file \in Seq(Chunks)
      BY DEF Grows, TypeOK
    <2>2. QED
      BY <2>1, LenProperties DEF Grows
  <1>. DEFINE e == file[m][1]
              s == "tail"
  <1>2. /\ m \in 1..Len(file) /\ file[m] # Newline /\ (m = 1 \/ file[m - 1] = Newline)
        /\ m < Len(file) /\ file[m][2] = "head" /\ file[m + 1] = <<e, s>>
        /\ m + 1 < Len(file) => file[m + 2] = Newline
    BY <1>1 DEF WholeAt, Starts
  <1>3. m + 1 # Len(file)
    <2>1. SUFFICES ASSUME m + 1 = Len(file)
                   PROVE  FALSE
      OBVIOUS
    <2>2. file[Len(file)] = <<e, s>> /\ <<e, s>>[1] = e /\ file # <<>>
      BY <1>1, <1>2, <2>1, EmptySeq
    <2>3. e # 0
      BY DEF TypeOK
    <2>4. <<e, s>> # Newline
      BY <2>3 DEF Newline
    <2>5. QED
      BY <2>2, <2>4 DEF Unreturned, Dangling
  <1>4. m + 1 \in 1..Len(file) /\ m + 2 \in 1..Len(file) /\ m + 1 < Len(file)
    BY <1>1, <1>2, <1>3
  <1>5. m - 1 \in 1..Len(file) \/ m = 1
    BY <1>1, <1>2
  <1>6. m \in Starts(file')
    BY <1>1, <1>2, <1>5 DEF Starts
  <1>7. QED
    BY <1>1, <1>2, <1>4, <1>6 DEF WholeAt

\* A returned entry that a push leaves readable, or lost, was so before.
LEMMA LostBefore ==
  ASSUME TypeOK, Unreturned, NEW c, NEW k, NEW rest, Grows(c, k, rest)
  PROVE  \A e \in returned : e \in Whole => e \in Whole'
  <1>1. ASSUME NEW e \in returned, e \in Whole
        PROVE  e \in Whole'
    <2>1. PICK m \in DOMAIN file : WholeAt(file, m) /\ file[m][1] = e
      BY <1>1 DEF Whole
    <2>2. WholeAt(file', m) /\ file'[m] = file[m] /\ m \in DOMAIN file'
      BY <1>1, <2>1, StaysWhole
    <2>. DEFINE f == file'
    <2>3. WholeAt(f, m) /\ f[m][1] = e /\ m \in DOMAIN f
      BY <2>1, <2>2
    <2>. HIDE DEF f
    <2>4. e \in {f[p][1] : p \in {q \in DOMAIN f : WholeAt(f, q)}}
      BY <2>3
    <2>5. QED
      BY <2>4 DEF Whole, f, WholeAt, Starts
  <1>2. QED
    BY <1>1

\* The line of a record that returns can be read, unless the file ended inside a line.
LEMMA NewWhole ==
  ASSUME TypeOK, NEW i \in Instances, NEW c, NEW k, NEW rest, Grows(c, k, rest),
         Returns(i, c, k), ~Dangling
  PROVE  issued + 1 \in Whole'
  <1>. DEFINE n == issued + 1
              f == file'
              N == Len(file)
              p == N + Len(c) - 2
              h == <<n, "head">>
              g == <<n, "tail">>
  <1>1. /\ Len(c) \in Nat /\ Len(c) >= 3 /\ k = Len(c)
        /\ c[Len(c) - 2] = h /\ c[Len(c) - 1] = g /\ c[Len(c)] = Newline
        /\ Len(c) = 3 \/ c[Len(c) - 3] = Newline
    BY ReturnsLine
  <1>2. /\ N \in Nat /\ Len(f) = N + k
        /\ \A q \in 1..N : f[q] = file[q]
        /\ \A q \in 1..k : f[N + q] = c[q]
        /\ f \in Seq(Chunks') /\ DOMAIN f = 1..Len(f)
    <2>1. f \in Seq(Chunks')
      BY DEF Grows
    <2>2. QED
      BY <2>1, LenProperties DEF Grows
  <1>3. issued \in Nat /\ file \in Seq(Chunks)
    BY DEF TypeOK
  <1>. HIDE DEF f
  <1>4. /\ p \in 1..Len(f) /\ p + 2 = Len(f) /\ p + 1 < Len(f) /\ p < Len(f)
        /\ p = N + (Len(c) - 2) /\ p + 1 = N + (Len(c) - 1) /\ p + 2 = N + Len(c)
        /\ Len(c) - 2 \in 1..k /\ Len(c) - 1 \in 1..k /\ Len(c) \in 1..k
    BY <1>1, <1>2
  <1>. HIDE DEF p
  <1>5. f[p] = h /\ f[p + 1] = g /\ f[p + 2] = Newline
    BY <1>1, <1>2, <1>4
  <1>6. h[1] = n /\ h[2] = "head" /\ g = <<n, "tail">> /\ h # Newline
    BY <1>3 DEF Newline
  <1>. HIDE DEF h, g
  <1>7. p = 1 \/ f[p - 1] = Newline
    <2>1. CASE Len(c) # 3
      <3>. DEFINE b == Len(c) - 3
      <3>1. b \in 1..k
        BY <1>1, <2>1
      <3>2. p - 1 = N + b
        <4>1. p = N + (Len(c) - 2) /\ N \in Nat /\ Len(c) \in Nat
          BY <1>1, <1>2, <1>4
        <4>2. QED
          BY <4>1
      <3>3. c[b] = Newline
        BY <1>1, <2>1
      <3>. HIDE DEF b
      <3>4. QED
        BY <1>2, <3>1, <3>2, <3>3
    <2>2. CASE Len(c) = 3 /\ file # <<>>
      <3>1. N # 0
        BY <1>3, <2>2, EmptySeq
      <3>2. N \in 1..N /\ p - 1 = N
        BY <1>2, <1>4, <2>2, <3>1
      <3>3. file[N] = Newline
        BY <2>2 DEF Dangling
      <3>4. QED
        BY <1>2, <3>2, <3>3
    <2>3. CASE Len(c) = 3 /\ file = <<>>
      <3>1. N = 0
        BY <2>3, EmptySeq
      <3>2. QED
        BY <1>4, <2>3, <3>1
    <2>4. QED
      BY <2>1, <2>2, <2>3
  <1>8. p \in Starts(f)
    BY <1>2, <1>4, <1>5, <1>6, <1>7 DEF Starts
  <1>9. WholeAt(f, p) /\ f[p][1] = n /\ p \in DOMAIN f
    BY <1>2, <1>4, <1>5, <1>6, <1>8 DEF WholeAt
  <1>10. n \in {f[m][1] : m \in {q \in DOMAIN f : WholeAt(f, q)}}
    BY <1>9
  <1>11. QED
    BY <1>10 DEF Whole, f, WholeAt, Starts

\* The lost entries are finitely many.
LEMMA LostFinite ==
  ASSUME TypeOK
  PROVE  IsFiniteSet(Lost) /\ Cardinality(Lost) \in Nat
  <1>1. issued \in Nat /\ Lost \subseteq 1..issued
    BY DEF TypeOK, Lost
  <1>2. IsFiniteSet(1..issued)
    BY <1>1, FS_Interval
  <1>3. QED
    BY <1>1, <1>2, FS_Subset, FS_CardinalityType

\* Each torn line hides at most one entry that returned; one that is still the last
\* line may yet do so.
LEMMA PushCovered ==
  ASSUME TypeOK, TypeOK', Unreturned, Covered, NEW i \in Instances, NEW c, NEW k, NEW rest,
         Push(i, c, k, rest), Clean(i, c), Grows(c, k, rest), Silent(i) \/ Returns(i, c, k)
  PROVE  Covered'
  <1>1. IsFiniteSet(Lost) /\ Cardinality(Lost) \in Nat /\ tears \in Nat
    BY LostFinite DEF TypeOK
  <1>2. \A e \in returned : e \in Whole => e \in Whole'
    BY LostBefore
  <1>3. /\ Len(file) \in Nat /\ Len(file') = Len(file) + k /\ k \in Nat /\ k <= Len(c)
        /\ Len(c) \in Nat
        /\ \A p \in 1..Len(file) : file'[p] = file[p]
        /\ \A q \in 1..k : file'[Len(file) + q] = c[q]
    BY DEF Grows
  <1>4. tears' = IF k > 0 /\ c[k] # Newline THEN tears + 1 ELSE tears
    BY DEF Push
  <1>5. file \in Seq(Chunks) /\ file' \in Seq(Chunks')
    BY DEF TypeOK, Grows
  <1>6. ASSUME k > 0
        PROVE  Dangling' => c[k] # Newline
    <2>1. k \in 1..k /\ file'[Len(file')] = c[k]
      BY <1>3, <1>6
    <2>2. QED
      BY <2>1 DEF Dangling
  <1>7. ASSUME k = 0
        PROVE  Dangling' => Dangling
    <2>1. Len(file') = Len(file) /\ \A p \in 1..Len(file) : file'[p] = file[p]
      BY <1>3, <1>7
    <2>2. ASSUME file' # <<>>
          PROVE  file # <<>> /\ file'[Len(file')] = file[Len(file)]
      <3>1. Len(file') # 0
        BY <1>5, <2>2, EmptySeq
      <3>2. Len(file) \in 1..Len(file) /\ file # <<>>
        BY <1>3, <2>1, <3>1, EmptySeq
      <3>3. QED
        BY <2>1, <3>2
    <2>3. QED
      BY <2>2 DEF Dangling
  <1>8. CASE Silent(i)
    <2>1. Lost' \subseteq Lost
      BY <1>2, <1>8 DEF Silent, Lost
    <2>2. Cardinality(Lost') <= Cardinality(Lost) /\ Cardinality(Lost') \in Nat
      BY <1>1, <2>1, FS_Subset, FS_CardinalityType
    <2>3. QED
      <3>. DEFINE x == Cardinality(Lost)
                  y == Cardinality(Lost')
      <3>1. x \in Nat /\ y \in Nat /\ y <= x
        BY <1>1, <2>2
      <3>. HIDE DEF x, y
      <3>2. x + (IF Dangling THEN 1 ELSE 0) <= tears
        BY DEF Covered, x
      <3>3. y + (IF Dangling' THEN 1 ELSE 0) <= tears'
        <4>1. CASE k > 0
          BY <1>1, <1>4, <1>6, <3>1, <3>2, <4>1
        <4>2. CASE k = 0
          BY <1>1, <1>4, <1>7, <3>1, <3>2, <4>2
        <4>3. QED
          BY <1>3, <4>1, <4>2
      <3>4. QED
        BY <3>3 DEF Covered, y
  <1>9. CASE Returns(i, c, k)
    <2>1. k = Len(c) /\ k > 0 /\ c[k] = Newline
      BY <1>9, ReturnsLine
    <2>2. tears' = tears /\ ~Dangling'
      BY <1>4, <1>6, <2>1
    <2>3. Lost' \subseteq Lost \cup {issued + 1}
      BY <1>2, <1>9 DEF Returns, Lost
    <2>4. ~Dangling => Lost' \subseteq Lost
      BY <1>9, <2>3, NewWhole DEF Lost
    <2>5. /\ IsFiniteSet(Lost \cup {issued + 1})
          /\ Cardinality(Lost \cup {issued + 1}) <= Cardinality(Lost) + 1
          /\ Cardinality(Lost \cup {issued + 1}) \in Nat
      <3>1. /\ IsFiniteSet(Lost \cup {issued + 1})
            /\ Cardinality(Lost \cup {issued + 1}) =
                 IF issued + 1 \in Lost THEN Cardinality(Lost) ELSE Cardinality(Lost) + 1
        BY <1>1, FS_AddElement
      <3>2. QED
        BY <1>1, <3>1
    <2>6. /\ Cardinality(Lost') \in Nat
          /\ Cardinality(Lost') <= Cardinality(Lost) + 1
          /\ ~Dangling => Cardinality(Lost') <= Cardinality(Lost)
      <3>1. IsFiniteSet(Lost') /\ Cardinality(Lost') <= Cardinality(Lost \cup {issued + 1})
        BY <2>3, <2>5, FS_Subset
      <3>2. Cardinality(Lost') \in Nat
        BY <3>1, FS_CardinalityType
      <3>3. ~Dangling => Cardinality(Lost') <= Cardinality(Lost)
        BY <1>1, <2>4, FS_Subset
      <3>4. QED
        BY <1>1, <2>5, <3>1, <3>2, <3>3
    <2>7. QED
      BY <1>1, <2>2, <2>6 DEF Covered
  <1>10. QED
    BY <1>8, <1>9

-----------------------------------------------------------------------------
(* The invariant *)

\* It holds at the start.
LEMMA InitIInv == Init => IInv
  <1>. SUFFICES ASSUME Init
                PROVE  IInv
    OBVIOUS
  <1>1. /\ file = <<>> /\ issued = 0 /\ tears = 0 /\ faults = 0 /\ returned = {}
        /\ open = [i \in Instances |-> FALSE] /\ pending = [i \in Instances |-> <<>>]
        /\ mirror = [i \in Instances |-> <<>>]
    BY DEF Init
  <1>2. Len(<<>>) = 0 /\ <<>> \in Seq(Chunks) /\ <<>> \in Seq(returned)
    BY EmptySeq
  <1>3. TypeOK
    BY <1>1, <1>2 DEF TypeOK
  <1>4. Bounded
    BY <1>1, BoundAssumption DEF Bounded
  <1>5. WrittenOnce
    BY <1>1, <1>2 DEF WrittenOnce, Once, Apart
  <1>6. Unreturned /\ Ordered /\ Landed
    BY <1>1, <1>2 DEF Unreturned, Ordered, Landed
  <1>7. Mirrored
    BY <1>1, <1>2 DEF Mirrored, Increasing
  <1>8. Covered
    <2>1. Lost = {} /\ ~Dangling
      BY <1>1 DEF Lost, Dangling
    <2>2. Cardinality(Lost) = 0
      BY <2>1, FS_EmptySet
    <2>3. QED
      BY <1>1, <2>1, <2>2 DEF Covered
  <1>9. QED
    BY <1>3, <1>4, <1>5, <1>6, <1>7, <1>8 DEF IInv

\* And every step keeps it.
LEMMA StepIInv == IInv /\ [Next]_vars => IInv'
  <1>. SUFFICES ASSUME IInv, [Next]_vars
                PROVE  IInv'
    OBVIOUS
  <1>1. /\ TypeOK /\ Bounded /\ WrittenOnce /\ Unreturned /\ Ordered /\ Landed /\ Mirrored
        /\ Covered
    BY DEF IInv
  <1>2. CASE Next
    <2>1. PICK i \in Instances :
            \E c, k, rest : Push(i, c, k, rest) /\ (Silent(i) \/ Returns(i, c, k))
      BY <1>1, <1>2, StepIsPush
    <2>2. PICK c, k, rest : Push(i, c, k, rest) /\ (Silent(i) \/ Returns(i, c, k))
      BY <2>1
    <2>3. Clean(i, c)
      BY <1>1, <2>2, SendsClean DEF Push
    <2>4. Grows(c, k, rest)
      BY <1>1, <2>2, PushGrows
    <2>5. TypeOK'
      BY <1>1, <2>2, <2>3, <2>4, PushTyped
    <2>6. WrittenOnce'
      BY <1>1, <2>2, <2>3, <2>4, PushOnce
    <2>7. Unreturned'
      BY <1>1, <2>2, <2>3, <2>4, PushUnreturned
    <2>8. Ordered'
      BY <1>1, <2>2, <2>3, <2>4, PushOrdered
    <2>9. Landed'
      BY <1>1, <2>2, <2>4, PushLanded
    <2>10. Mirrored'
      BY <1>1, <2>2, PushMirrored
    <2>11. Covered'
      BY <1>1, <2>2, <2>3, <2>4, <2>5, PushCovered
    <2>12. Bounded'
      <3>1. issued \in Nat /\ MaxRecords \in Nat /\ issued <= MaxRecords
        BY <1>1, BoundAssumption DEF Bounded, TypeOK
      <3>2. issued' = issued \/ (issued < MaxRecords /\ issued' = issued + 1)
        BY <2>2 DEF Push, Sends
      <3>3. QED
        BY <3>1, <3>2 DEF Bounded
    <2>13. QED
      BY <2>5, <2>6, <2>7, <2>8, <2>9, <2>10, <2>11, <2>12 DEF IInv
  <1>3. CASE UNCHANGED vars
    <2>1. UNCHANGED <<file, open, pending, mirror, issued, returned, tears, faults>>
      BY <1>3 DEF vars
    <2>2. TypeOK' /\ Bounded' /\ Mirrored'
      <3>1. TypeOK'
        BY <1>1, <2>1 DEF TypeOK, Chunks, Last
      <3>2. Bounded' /\ Mirrored'
        BY <1>1, <2>1 DEF Bounded, Mirrored, Increasing
      <3>3. QED
        BY <3>1, <3>2
    <2>3. WrittenOnce' /\ Ordered' /\ Landed'
      BY <1>1, <2>1 DEF WrittenOnce, Once, Apart, Ordered, Landed, LineAt
    <2>4. Unreturned' /\ Covered'
      BY <1>1, <2>1 DEF Unreturned, Dangling, Covered, Lost, Whole, WholeAt, Starts
    <2>5. QED
      BY <2>2, <2>3, <2>4 DEF IInv
  <1>4. QED
    BY <1>2, <1>3

\* So it always holds.
LEMMA AlwaysIInv == Spec => []IInv
  <1>1. QED
    BY InitIInv, StepIInv, PTL DEF Spec

\* Every variable of the log has its type: what a handle holds back is whole chunks
\* up to a newline, and only an open handle holds anything back (AuditLog.record,
\* close).
THEOREM LogTyped == Spec => []TypeOK
  <1>1. IInv => TypeOK
    BY DEF IInv
  <1>2. QED
    BY <1>1, AlwaysIInv, PTL

-----------------------------------------------------------------------------
(* What is on disk, and what can be read *)

\* The positions of the lines that are one whole entry.
WholeLines == {k \in DOMAIN file : WholeAt(file, k)}

\* Such a line starts with the head of its entry.
LEMMA WholeLineIs ==
  ASSUME TypeOK
  PROVE  /\ Len(file) \in Nat /\ DOMAIN file = 1..Len(file)
         /\ \A k \in WholeLines : /\ k \in 1..Len(file) /\ file[k][1] \in 1..issued
                                  /\ file[k] = <<file[k][1], "head">> /\ file[k] # Newline
                                  /\ file[k][1] \in Whole
         /\ \A e \in Whole : \E k \in WholeLines : file[k][1] = e
  <1>1. file \in Seq(Chunks)
    BY DEF TypeOK
  <1>2. Len(file) \in Nat /\ DOMAIN file = 1..Len(file) /\ \A k \in 1..Len(file) : file[k] \in Chunks
    BY <1>1, LenProperties, ElementOfSeq
  <1>3. ASSUME NEW k \in WholeLines
        PROVE  /\ k \in 1..Len(file) /\ file[k][1] \in 1..issued
               /\ file[k] = <<file[k][1], "head">> /\ file[k] # Newline
    <2>1. k \in 1..Len(file) /\ file[k] # Newline /\ file[k][2] = "head" /\ file[k] \in Chunks
      BY <1>2 DEF WholeLines, WholeAt, Starts
    <2>2. file[k][1] \in 1..issued /\ file[k] = <<file[k][1], file[k][2]>>
      BY <2>1, ChunkFacts
    <2>3. QED
      BY <2>1, <2>2
  <1>4. /\ \A k \in WholeLines : file[k][1] \in Whole
        /\ \A e \in Whole : \E k \in WholeLines : file[k][1] = e
    BY DEF Whole, WholeLines
  <1>5. QED
    BY <1>2, <1>3, <1>4

\* A selection of the whole lines, in the order of the file.
LEMMA EntriesIs ==
  ASSUME TypeOK, NEW P \in SUBSET WholeLines
  PROVE  \E at : /\ at \in Seq(Nat) /\ Increasing(at) /\ Len(at) \in Nat
                 /\ \A n \in 1..Len(at) : at[n] \in P
                 /\ \A k \in P : \E n \in 1..Len(at) : at[n] = k
                 /\ EntriesAt(P) = [n \in 1..Len(at) |-> file[at[n]][1]]
  <1>1. file \in Seq(Chunks) /\ Len(file) \in Nat
    BY WholeLineIs DEF TypeOK
  <1>. DEFINE s == Selected(file, P)
  <1>2. PICK at : /\ Enumerates(at, P, Len(file)) /\ Len(s) = Len(at)
                  /\ \A n \in 1..Len(at) : s[n] = file[at[n]]
    BY <1>1, SelectedIs
  <1>3. s \in Seq(Chunks)
    BY <1>1, SelectedIs
  <1>4. EntriesAt(P) = [n \in DOMAIN s |-> s[n][1]]
    BY DEF EntriesAt
  <1>. HIDE DEF s
  <1>5. DOMAIN s = 1..Len(at)
    BY <1>2, <1>3, LenProperties
  <1>. DEFINE T == P \cap (1..Len(file))
  <1>6. /\ at \in Seq(T) /\ Increasing(at)
        /\ \A k \in T : \E n \in 1..Len(at) : at[n] = k
    BY <1>2 DEF Enumerates
  <1>7. T \subseteq Nat /\ \A k \in P : k \in T
    BY <1>1, WholeLineIs
  <1>. HIDE DEF T
  <1>8. Len(at) \in Nat /\ \A n \in 1..Len(at) : at[n] \in T
    BY <1>6, LenProperties, ElementOfSeq
  <1>9. at \in Seq(Nat)
    <2>1. at \in [1..Len(at) -> T]
      BY <1>6, LenProperties
    <2>2. at \in [1..Len(at) -> Nat]
      BY <1>7, <2>1
    <2>3. QED
      BY <1>8, <2>2
  <1>10. \A n \in 1..Len(at) : at[n] \in P
    BY <1>8 DEF T
  <1>11. EntriesAt(P) = [n \in 1..Len(at) |-> file[at[n]][1]]
    BY <1>2, <1>4, <1>5
  <1>12. QED
    BY <1>6, <1>7, <1>8, <1>9, <1>10, <1>11

\* Each of its entries is in it once; the returned ones in the order of the calls.
LEMMA EntriesFacts ==
  ASSUME IInv, NEW P \in SUBSET WholeLines, NEW r, r = EntriesAt(P)
  PROVE  /\ r \in Seq(1..issued) /\ Len(r) \in Nat
         /\ DOMAIN r = 1..Len(r)
         /\ \A n \in 1..Len(r) : r[n] \in Whole /\ r[n] \in 1..issued
         /\ \A k \in P : \E n \in 1..Len(r) : r[n] = file[k][1]
         /\ \A m, n \in 1..Len(r) : r[m] = r[n] => m = n
         /\ \A m, n \in 1..Len(r) :
              m < n /\ r[m] \in returned /\ r[n] \in returned
                => r[m] < r[n]
  <1>1. TypeOK /\ Once(file) /\ Ordered /\ issued \in Nat
    BY DEF IInv, WrittenOnce, TypeOK
  <1>2. /\ \A k \in WholeLines : /\ k \in 1..Len(file) /\ file[k][1] \in 1..issued
                                 /\ file[k] = <<file[k][1], "head">> /\ file[k] # Newline
                                 /\ file[k][1] \in Whole
        /\ Len(file) \in Nat
    BY <1>1, WholeLineIs
  <1>3. PICK at : /\ at \in Seq(Nat) /\ Increasing(at) /\ Len(at) \in Nat
                  /\ \A n \in 1..Len(at) : at[n] \in P
                  /\ \A k \in P : \E n \in 1..Len(at) : at[n] = k
                  /\ r = [n \in 1..Len(at) |-> file[at[n]][1]]
    BY <1>1, EntriesIs
  <1>4. r \in Seq(1..issued) /\ Len(r) = Len(at) /\ DOMAIN r = 1..Len(r)
    <2>1. \A n \in 1..Len(at) : file[at[n]][1] \in 1..issued
      BY <1>2, <1>3
    <2>2. r \in [1..Len(at) -> 1..issued]
      BY <1>3, <2>1
    <2>3. r \in Seq(1..issued)
      BY <1>3, <2>2
    <2>4. Len(r) = Len(at)
      BY <1>3, <2>2, <2>3, LenProperties
    <2>5. QED
      BY <2>2, <2>3, <2>4
  <1>5. \A n \in 1..Len(r) : r[n] = file[at[n]][1] /\ at[n] \in P
    BY <1>3, <1>4
  <1>6. \A n \in 1..Len(r) : r[n] \in Whole /\ r[n] \in 1..issued
    BY <1>2, <1>5
  <1>7. \A k \in P : \E n \in 1..Len(r) : r[n] = file[k][1]
    BY <1>2, <1>3, <1>4, <1>5
  <1>8. ASSUME NEW m \in 1..Len(r), NEW n \in 1..Len(r), r[m] = r[n]
        PROVE  m = n
    <2>1. file[at[m]] = file[at[n]] /\ file[at[m]] # Newline
      <3>. DEFINE a == at[m]
                  b == at[n]
      <3>1. a \in P /\ b \in P /\ file[a][1] = file[b][1]
        BY <1>5, <1>8
      <3>. HIDE DEF a, b
      <3>2. /\ file[a] = <<file[a][1], "head">> /\ file[a] # Newline
            /\ file[b] = <<file[b][1], "head">>
        BY <1>2, <3>1
      <3>3. QED
        BY <3>1, <3>2 DEF a, b
    <2>2. at[m] = at[n]
      <3>1. at[m] \in P /\ at[n] \in P
        BY <1>5
      <3>2. at[m] \in 1..Len(file) /\ at[n] \in 1..Len(file)
        BY <1>2, <3>1
      <3>3. QED
        BY <1>1, <2>1, <3>2 DEF Once
    <2>3. at[m] \in Nat /\ at[n] \in Nat
      BY <1>2, <1>5
    <2>4. \A p, q \in 1..Len(r) : p < q => at[p] < at[q]
      BY <1>3, <1>4 DEF Increasing
    <2>5. ~(m < n) /\ ~(n < m)
      BY <2>2, <2>3, <2>4
    <2>6. QED
      BY <1>3, <1>4, <2>5
  <1>9. ASSUME NEW m \in 1..Len(r), NEW n \in 1..Len(r), m < n, r[m] \in returned, r[n] \in returned
        PROVE  r[m] < r[n]
    <2>1. at[m] < at[n]
      BY <1>3, <1>4, <1>9 DEF Increasing
    <2>2. r[m] <= r[n]
      BY <1>1, <1>2, <1>5, <1>9, <2>1 DEF Ordered
    <2>3. r[m] # r[n]
      BY <1>4, <1>8, <1>9
    <2>4. QED
      BY <1>6, <2>2, <2>3
  <1>10. QED
    BY <1>3, <1>4, <1>6, <1>7, <1>8, <1>9


\* On disk is what the whole lines hold.
LEMMA OnDiskFacts ==
  ASSUME IInv
  PROVE  /\ OnDisk \in Seq(1..issued) /\ Len(OnDisk) \in Nat
         /\ DOMAIN OnDisk = 1..Len(OnDisk)
         /\ \A n \in 1..Len(OnDisk) : OnDisk[n] \in Whole
         /\ \A e \in Whole : \E n \in 1..Len(OnDisk) : OnDisk[n] = e
         /\ \A m, n \in 1..Len(OnDisk) : OnDisk[m] = OnDisk[n] => m = n
         /\ \A m, n \in 1..Len(OnDisk) :
              m < n /\ OnDisk[m] \in returned /\ OnDisk[n] \in returned
                => OnDisk[m] < OnDisk[n]
  <1>. DEFINE r == OnDisk
  <1>1. r = EntriesAt(WholeLines)
    BY DEF OnDisk, WholeLines
  <1>. HIDE DEF r
  <1>2. /\ r \in Seq(1..issued) /\ Len(r) \in Nat
        /\ DOMAIN r = 1..Len(r)
        /\ \A n \in 1..Len(r) : r[n] \in Whole
        /\ \A k \in WholeLines : \E n \in 1..Len(r) : r[n] = file[k][1]
        /\ \A m, n \in 1..Len(r) : r[m] = r[n] => m = n
        /\ \A m, n \in 1..Len(r) : m < n /\ r[m] \in returned /\ r[n] \in returned => r[m] < r[n]
    BY <1>1, EntriesFacts
  <1>3. \A e \in Whole : \E k \in WholeLines : file[k][1] = e
    BY WholeLineIs DEF IInv
  <1>4. \A e \in Whole : \E n \in 1..Len(r) : r[n] = e
    BY <1>2, <1>3
  <1>5. QED
    BY <1>2, <1>4 DEF r

\* What can be read is part of it.
LEMMA ReadableFacts ==
  ASSUME IInv
  PROVE  /\ Readable \in Seq(1..issued) /\ Len(Readable) \in Nat
         /\ DOMAIN Readable = 1..Len(Readable)
         /\ \A n \in 1..Len(Readable) : Readable[n] \in Whole /\ Readable[n] \in 1..issued
         /\ \A m, n \in 1..Len(Readable) : Readable[m] = Readable[n] => m = n
         /\ \A m, n \in 1..Len(Readable) :
              m < n /\ Readable[m] \in returned /\ Readable[n] \in returned
                => Readable[m] < Readable[n]
  <1>. DEFINE P == {k \in DOMAIN file : WholeAt(file, k) /\ file[k][1] \notin Splits}
              r == Readable
  <1>1. P \in SUBSET WholeLines
    BY DEF WholeLines
  <1>2. r = EntriesAt(P)
    BY DEF Readable
  <1>. HIDE DEF P, r
  <1>3. QED
    BY <1>1, <1>2, EntriesFacts DEF r

\* The entries of record calls that returned never lie in another order than
\* that of the calls, and no entry is on disk twice, although a failed write may be
\* completed by a later one (AuditLog.record, _read_file_tail).
THEOREM EntriesInOrder == Spec => []InOrder
  <1>1. ASSUME IInv
        PROVE  InOrder
    <2>. DEFINE r == OnDisk
    <2>1. /\ DOMAIN r = 1..Len(r)
          /\ \A m, n \in 1..Len(r) : r[m] = r[n] => m = n
          /\ \A m, n \in 1..Len(r) : m < n /\ r[m] \in returned /\ r[n] \in returned => r[m] < r[n]
      BY <1>1, OnDiskFacts
    <2>. HIDE DEF r
    <2>2. /\ IsInjective(r)
          /\ \A m, n \in DOMAIN r : m < n /\ {r[m], r[n]} \subseteq returned => r[m] < r[n]
      BY <2>1 DEF IsInjective
    <2>3. QED
      BY <2>2 DEF InOrder, r
  <1>2. QED
    BY <1>1, AlwaysIInv, PTL

\* An entry whose record returned is lost only to a torn line, and each torn line
\* takes one at most, whatever fails or dies in between (AuditLog.record, close).
THEOREM LossIsBounded == Spec => []LossBounded
  <1>1. ASSUME IInv
        PROVE  LossBounded
    <2>. DEFINE r == OnDisk
    <2>1. /\ DOMAIN r = 1..Len(r)
          /\ \A n \in 1..Len(r) : r[n] \in Whole
          /\ \A e \in Whole : \E n \in 1..Len(r) : r[n] = e
      BY <1>1, OnDiskFacts
    <2>. HIDE DEF r
    <2>2. Range(r) = Whole
      BY <2>1 DEF Range
    <2>3. returned \ Range(OnDisk) = Lost
      BY <2>2 DEF Lost, r
    <2>4. /\ Cardinality(Lost) \in Nat /\ tears \in Nat
          /\ Cardinality(Lost) + (IF Dangling THEN 1 ELSE 0) <= tears
      BY <1>1, LostFinite DEF IInv, Covered, TypeOK
    <2>5. Cardinality(Lost) <= tears
      BY <2>4
    <2>6. QED
      BY <2>3, <2>5 DEF LossBounded
  <1>2. QED
    BY <1>1, AlwaysIInv, PTL

-----------------------------------------------------------------------------
(* Counting lines *)

\* The line that starts at k holds the tail of entry e: e hangs on it.
HangsOn(e, k) ==
  /\ k \in Starts(file)
  /\ \E p \in Nat : /\ LineAt(file, e, p) /\ k <= p
                    /\ \A q \in k..(p + 1) : file[q] # Newline

\* Every entry that returned hangs on some line.
LEMMA HangsSomewhere ==
  ASSUME TypeOK, Landed, NEW e \in returned
  PROVE  \E k : HangsOn(e, k)
  <1>1. PICK p \in Nat : LineAt(file, e, p)
    BY DEF Landed
  <1>2. Len(file) \in Nat /\ DOMAIN file = 1..Len(file) /\ e # 0
    BY WholeLineIs DEF TypeOK
  <1>3. /\ p \in 1..Len(file) /\ p + 1 \in 1..Len(file)
        /\ file[p] # Newline /\ file[p + 1] # Newline
    <2>1. <<e, "head">> # Newline /\ <<e, "tail">> # Newline
      BY <1>2 DEF Newline
    <2>2. QED
      BY <1>1, <1>2, <2>1 DEF LineAt
  <1>. DEFINE T == {k \in 1..p : \A q \in k..p : file[q] # Newline}
  <1>4. T \in SUBSET Nat /\ p \in T
    BY <1>3
  <1>. HIDE DEF T
  <1>5. PICK k \in T : \A m \in T : k <= m
    BY <1>4, LeastNat
  <1>6. k \in 1..p /\ \A q \in k..p : file[q] # Newline
    BY <1>5 DEF T
  <1>7. k = 1 \/ file[k - 1] = Newline
    <2>1. SUFFICES ASSUME k # 1, file[k - 1] # Newline
                   PROVE  FALSE
      OBVIOUS
    <2>2. k - 1 \in 1..p
      BY <1>6, <2>1
    <2>3. \A q \in (k - 1)..p : file[q] # Newline
      <3>1. \A q \in (k - 1)..p : q = k - 1 \/ q \in k..p
        BY <1>6
      <3>2. QED
        BY <1>6, <2>1, <3>1
    <2>4. k - 1 \in T
      BY <2>2, <2>3 DEF T
    <2>5. QED
      BY <1>5, <1>6, <2>4
  <1>8. k \in Starts(file)
    BY <1>2, <1>3, <1>6, <1>7 DEF Starts
  <1>9. \A q \in k..(p + 1) : file[q] # Newline
    <2>1. \A q \in k..(p + 1) : q = p + 1 \/ q \in k..p
      BY <1>6
    <2>2. QED
      BY <1>3, <1>6, <2>1
  <1>10. QED
    BY <1>1, <1>6, <1>8, <1>9 DEF HangsOn

\* No two hang on the same line: each is followed by a newline.
LEMMA HangsAlone ==
  ASSUME TypeOK, NEW d, NEW e, NEW k, HangsOn(d, k), HangsOn(e, k)
  PROVE  d = e
  <1>1. Len(file) \in Nat /\ k \in Nat
    BY WholeLineIs DEF HangsOn, Starts
  <1>2. PICK p \in Nat : /\ LineAt(file, d, p) /\ k <= p
                         /\ \A q \in k..(p + 1) : file[q] # Newline
    BY DEF HangsOn
  <1>3. PICK r \in Nat : /\ LineAt(file, e, r) /\ k <= r
                         /\ \A q \in k..(r + 1) : file[q] # Newline
    BY DEF HangsOn
  <1>4. file[p + 2] = Newline /\ file[r + 2] = Newline
    BY <1>2, <1>3 DEF LineAt
  <1>5. ~(p < r)
    <2>1. SUFFICES ASSUME p < r
                   PROVE  FALSE
      OBVIOUS
    <2>2. p + 2 \in k..(r + 1)
      BY <1>1, <1>2, <1>3, <2>1
    <2>3. QED
      BY <1>3, <1>4, <2>2
  <1>6. ~(r < p)
    <2>1. SUFFICES ASSUME r < p
                   PROVE  FALSE
      OBVIOUS
    <2>2. r + 2 \in k..(p + 1)
      BY <1>1, <1>2, <1>3, <2>1
    <2>3. QED
      BY <1>2, <1>4, <2>2
  <1>7. p = r
    BY <1>5, <1>6
  <1>8. file[p] = <<d, "head">> /\ file[p] = <<e, "head">>
    BY <1>2, <1>3, <1>7 DEF LineAt
  <1>9. QED
    BY <1>8

\* What can be read of the line an entry hangs on is that entry.
LEMMA HangsWhole ==
  ASSUME TypeOK, NEW e, NEW k, HangsOn(e, k), WholeAt(file, k)
  PROVE  file[k][1] = e
  <1>1. Len(file) \in Nat /\ k \in Nat /\ DOMAIN file = 1..Len(file)
    BY WholeLineIs DEF HangsOn, Starts
  <1>2. PICK p \in Nat : /\ LineAt(file, e, p) /\ k <= p
                         /\ \A q \in k..(p + 1) : file[q] # Newline
    BY DEF HangsOn
  <1>3. p + 2 \in 1..Len(file) /\ file[p] = <<e, "head">>
    BY <1>2 DEF LineAt
  <1>4. k + 1 < Len(file)
    BY <1>1, <1>2, <1>3
  <1>5. file[k + 2] = Newline
    BY <1>4 DEF WholeAt
  <1>6. k = p
    <2>1. SUFFICES ASSUME k # p
                   PROVE  FALSE
      OBVIOUS
    <2>2. k + 2 \in k..(p + 1)
      BY <1>1, <1>2, <2>1
    <2>3. QED
      BY <1>2, <1>5, <2>2
  <1>7. QED
    BY <1>3, <1>6

\* A mirror that holds as many entries as the file has lines has one for each line.
LEMMA EveryLineHung ==
  ASSUME IInv, NEW i \in Instances, LineCount <= Len(mirror[i]), NEW k \in Starts(file)
  PROVE  \E n \in 1..Len(mirror[i]) : HangsOn(mirror[i][n], k)
  <1>. DEFINE m == mirror[i]
              L == Len(mirror[i])
  <1>1. TypeOK /\ Landed /\ Increasing(m) /\ Len(file) \in Nat /\ DOMAIN file = 1..Len(file)
    BY WholeLineIs DEF IInv, Mirrored
  <1>2. L \in Nat /\ (\A n \in 1..L : m[n] \in returned) /\ \A n \in 1..L : m[n] \in Nat
    <2>1. m \in Seq(returned) /\ returned \subseteq 1..issued
      BY <1>1 DEF TypeOK
    <2>. HIDE DEF m
    <2>2. Len(m) \in Nat /\ \A n \in 1..Len(m) : m[n] \in returned
      BY <2>1, LenProperties, ElementOfSeq
    <2>3. returned \subseteq Nat
      BY <2>1
    <2>4. \A n \in 1..Len(m) : m[n] \in Nat
      BY <2>2, <2>3
    <2>5. QED
      BY <2>2, <2>4 DEF m
  <1>. HIDE DEF m, L
  <1>3. SUFFICES ASSUME \A n \in 1..L : ~HangsOn(m[n], k)
                 PROVE  FALSE
    BY DEF m, L
  <1>. DEFINE T == Starts(file) \ {k}
              f == [n \in 1..L |-> CHOOSE x : HangsOn(m[n], x)]
  <1>4. \A n \in 1..L : HangsOn(m[n], f[n])
    <2>1. ASSUME NEW n \in 1..L
          PROVE  HangsOn(m[n], CHOOSE x : HangsOn(m[n], x))
      <3>1. \E x : HangsOn(m[n], x)
        BY <1>1, <1>2, HangsSomewhere
      <3>2. QED
        BY <3>1
    <2>2. QED
      BY <2>1
  <1>5. f \in [1..L -> T]
    <2>1. \A n \in 1..L : f[n] \in T
      BY <1>3, <1>4 DEF HangsOn
    <2>2. f = [n \in 1..L |-> f[n]]
      OBVIOUS
    <2>. HIDE DEF f, T
    <2>3. QED
      BY <2>1, <2>2
  <1>6. /\ IsFiniteSet(1..L) /\ Cardinality(1..L) = L
    BY <1>2, FS_Interval
  <1>7. IsFiniteSet(T) /\ Cardinality(T) < L
    <2>1. IsFiniteSet(Starts(file)) /\ Cardinality(Starts(file)) \in Nat
      <3>1. Starts(file) \in SUBSET (1..Len(file)) /\ IsFiniteSet(1..Len(file))
        BY <1>1, FS_Interval DEF Starts
      <3>2. QED
        BY <3>1, FS_Subset, FS_CardinalityType
    <2>2. IsFiniteSet(T) /\ Cardinality(T) = Cardinality(Starts(file)) - 1
      <3>1. /\ IsFiniteSet(T)
            /\ Cardinality(T) = IF k \in Starts(file) THEN Cardinality(Starts(file)) - 1
                               ELSE Cardinality(Starts(file))
        BY <2>1, FS_RemoveElement
      <3>2. QED
        BY <3>1
    <2>3. Cardinality(Starts(file)) <= L
      BY DEF LineCount, L
    <2>4. QED
      BY <1>2, <2>1, <2>2, <2>3
  <1>. HIDE DEF f, T
  <1>8. PICK x \in 1..L, y \in 1..L : x # y /\ f[x] = f[y]
    BY <1>5, <1>6, <1>7, FS_PigeonHole
  <1>9. m[x] = m[y]
    BY <1>1, <1>4, <1>8, HangsAlone
  <1>10. \A p, q \in 1..L : p < q => m[p] < m[q]
    BY <1>1 DEF Increasing, L, m
  <1>11. QED
    BY <1>2, <1>8, <1>9, <1>10

-----------------------------------------------------------------------------
(* The tail *)

\* A mirror: entries that returned, in the order of the calls.
LEMMA MirrorFacts ==
  ASSUME IInv, NEW i \in Instances
  PROVE  /\ mirror[i] \in Seq(1..issued) /\ Len(mirror[i]) \in Nat
         /\ DOMAIN mirror[i] = 1..Len(mirror[i])
         /\ \A n \in 1..Len(mirror[i]) : mirror[i][n] \in returned /\ mirror[i][n] \in 1..issued
         /\ \A p, q \in 1..Len(mirror[i]) : p < q => mirror[i][p] < mirror[i][q]
  <1>. DEFINE m == mirror[i]
  <1>1. m \in Seq(returned) /\ returned \subseteq 1..issued
    BY DEF IInv, TypeOK
  <1>2. \A p, q \in 1..Len(m) : p < q => m[p] < m[q]
    BY DEF IInv, Mirrored, Increasing
  <1>. HIDE DEF m
  <1>3. /\ m \in [1..Len(m) -> returned] /\ Len(m) \in Nat
    BY <1>1, LenProperties
  <1>4. m \in [1..Len(m) -> 1..issued]
    BY <1>1, <1>3
  <1>5. m \in Seq(1..issued)
    <2>. DEFINE T == 1..issued
    <2>1. m \in [1..Len(m) -> T]
      BY <1>4
    <2>. HIDE DEF T
    <2>2. m \in Seq(T)
      BY <1>3, <2>1
    <2>3. QED
      BY <2>2 DEF T
  <1>6. QED
    BY <1>2, <1>3, <1>4, <1>5 DEF m

\* A sequence of different numbers of 1..n is not longer than n.
LEMMA NotLonger ==
  ASSUME NEW n \in Nat, NEW s \in Seq(1..n),
         \A p, q \in 1..Len(s) : s[p] = s[q] => p = q
  PROVE  Len(s) <= n
  <1>1. s \in [1..Len(s) -> 1..n] /\ Len(s) \in Nat
    BY LenProperties
  <1>2. \A m \in Nat : IsFiniteSet(1..m) /\ Cardinality(1..m) = m
    BY FS_Interval
  <1>3. ASSUME n < Len(s)
        PROVE  FALSE
    <2>1. \E x, y \in 1..Len(s) : x # y /\ s[x] = s[y]
      BY <1>1, <1>2, <1>3, FS_PigeonHole
    <2>2. QED
      BY <2>1
  <1>4. QED
    BY <1>1, <1>3

\* No limit of MaxRecords cuts anything off.
LEMMA NothingCutOff ==
  ASSUME IInv, NEW i \in Instances
  PROVE  /\ LastOf(Readable, MaxRecords) = Readable
         /\ LastOf(mirror[i], MaxRecords) = mirror[i]
  <1>1. issued \in Nat /\ MaxRecords \in Nat /\ issued <= MaxRecords
    BY BoundAssumption DEF IInv, TypeOK, Bounded
  <1>2. Len(Readable) \in Nat /\ Len(Readable) <= issued
    <2>. DEFINE r == Readable
    <2>1. /\ r \in Seq(1..issued) /\ Len(r) \in Nat
          /\ \A p, q \in 1..Len(r) : r[p] = r[q] => p = q
      BY ReadableFacts
    <2>. HIDE DEF r
    <2>2. Len(r) <= issued
      BY <1>1, <2>1, NotLonger
    <2>3. QED
      BY <2>1, <2>2 DEF r
  <1>3. Len(mirror[i]) \in Nat /\ Len(mirror[i]) <= issued
    <2>. DEFINE m == mirror[i]
    <2>1. /\ m \in Seq(1..issued) /\ Len(m) \in Nat
          /\ \A p, q \in 1..Len(m) : p < q => m[p] < m[q]
          /\ \A p \in 1..Len(m) : m[p] \in 1..issued
      BY MirrorFacts
    <2>. HIDE DEF m
    <2>2. ASSUME NEW p \in 1..Len(m), NEW q \in 1..Len(m), m[p] = m[q]
          PROVE  p = q
      <3>1. m[p] \in Nat /\ m[q] \in Nat
        BY <2>1
      <3>2. ~(p < q) /\ ~(q < p)
        BY <2>1, <2>2, <3>1
      <3>3. QED
        BY <2>1, <3>2
    <2>3. Len(m) <= issued
      BY <1>1, <2>1, <2>2, NotLonger
    <2>4. QED
      BY <2>1, <2>3 DEF m
  <1>4. MaxRecords >= Len(Readable) /\ MaxRecords >= Len(mirror[i])
    BY <1>1, <1>2, <1>3
  <1>5. QED
    BY <1>4 DEF LastOf

\* A mirror as long as the file has lines holds every entry that is on disk.
LEMMA MirrorHoldsWhole ==
  ASSUME IInv, NEW i \in Instances, LineCount <= Len(mirror[i])
  PROVE  /\ \A e \in Whole : \E n \in 1..Len(mirror[i]) : mirror[i][n] = e
         /\ Whole \subseteq returned
  <1>1. ASSUME NEW e \in Whole
        PROVE  \E n \in 1..Len(mirror[i]) : mirror[i][n] = e
    <2>1. PICK k \in WholeLines : file[k][1] = e
      BY <1>1, WholeLineIs DEF IInv
    <2>2. WholeAt(file, k) /\ k \in Starts(file)
      BY DEF WholeLines, WholeAt
    <2>3. PICK n \in 1..Len(mirror[i]) : HangsOn(mirror[i][n], k)
      BY <2>2, EveryLineHung
    <2>4. mirror[i][n] = e
      BY <2>1, <2>2, <2>3, HangsWhole DEF IInv
    <2>5. QED
      BY <2>4
  <1>2. \A n \in 1..Len(mirror[i]) : mirror[i][n] \in returned
    BY MirrorFacts
  <1>3. QED
    BY <1>1, <1>2

\* No instance's tail misses an entry that another process put on disk, or shows the
\* entries in another order than the file, whatever was torn, failed or lost
\* (AuditLog.tail: "so nothing is missed").
THEOREM TailMissesNothing == Spec => []TailNeverBehind
  <1>1. ASSUME IInv
        PROVE  TailNeverBehind
    <2>. DEFINE r == Readable
    <2>1. /\ DOMAIN r = 1..Len(r) /\ Len(r) \in Nat
          /\ r \in Seq(1..issued) /\ issued \in Nat
          /\ \A n \in 1..Len(r) : r[n] \in Whole /\ r[n] \in 1..issued
          /\ \A m, n \in 1..Len(r) : r[m] = r[n] => m = n
          /\ \A m, n \in 1..Len(r) : m < n /\ r[m] \in returned /\ r[n] \in returned
                                       => r[m] < r[n]
      BY <1>1, ReadableFacts DEF IInv, TypeOK
    <2>2. ASSUME NEW i \in Instances, NEW tail, tail = TailOf(i, MaxRecords)
          PROVE  /\ Range(r) \subseteq Range(tail)
                 /\ \A m, n \in DOMAIN r, p, q \in DOMAIN tail :
                      tail[p] = r[m] /\ tail[q] = r[n] => (m < n <=> p < q)
      <3>1. CASE MaxRecords = 0
        <4>1. issued = 0
          BY <1>1, <2>1, <3>1 DEF IInv, Bounded
        <4>2. DOMAIN r = {}
          BY <2>1, <4>1
        <4>. HIDE DEF r
        <4>3. QED
          BY <4>2 DEF Range
      <3>2. CASE MaxRecords # 0 /\ ~(LineCount <= Len(mirror[i]))
        <4>1. tail = r
          BY <1>1, <2>2, <3>2, NothingCutOff DEF TailOf
        <4>. HIDE DEF r
        <4>2. \A m, n \in DOMAIN r, p, q \in DOMAIN r :
                r[p] = r[m] /\ r[q] = r[n] => (m < n <=> p < q)
          BY <2>1
        <4>3. QED
          BY <4>1, <4>2
      <3>3. CASE MaxRecords # 0 /\ LineCount <= Len(mirror[i])
        <4>1. tail = mirror[i]
          BY <1>1, <2>2, <3>3, NothingCutOff DEF TailOf
        <4>2. /\ DOMAIN tail = 1..Len(tail) /\ Len(tail) \in Nat
              /\ \A n \in 1..Len(tail) : tail[n] \in 1..issued
              /\ \A p, q \in 1..Len(tail) : p < q => tail[p] < tail[q]
          BY <1>1, <4>1, MirrorFacts
        <4>3. /\ \A e \in Whole : \E n \in 1..Len(tail) : tail[n] = e
              /\ Whole \subseteq returned
          BY <1>1, <3>3, <4>1, MirrorHoldsWhole
        <4>. HIDE DEF r
        <4>4. Range(r) \subseteq Range(tail)
          <5>1. ASSUME NEW x \in Range(r)
                PROVE  x \in Range(tail)
            <6>1. PICK m \in 1..Len(r) : x = r[m]
              BY <2>1, <5>1 DEF Range
            <6>2. PICK n \in 1..Len(tail) : tail[n] = x
              BY <2>1, <4>3, <6>1
            <6>3. n \in DOMAIN tail
              BY <4>2
            <6>4. QED
              BY <6>2, <6>3 DEF Range
          <5>2. QED
            BY <5>1
        <4>5. \A m, n \in 1..Len(r) : m < n => r[m] < r[n]
          BY <2>1, <4>3
        <4>6. ASSUME NEW m \in 1..Len(r), NEW n \in 1..Len(r),
                     NEW p \in 1..Len(tail), NEW q \in 1..Len(tail),
                     tail[p] = r[m], tail[q] = r[n]
              PROVE  m < n <=> p < q
          <5>1. r[m] \in Nat /\ r[n] \in Nat
            BY <2>1
          <5>2. ASSUME m < n
                PROVE  ~(p = q) /\ ~(q < p)
            <6>1. tail[p] < tail[q] /\ tail[p] \in Nat /\ tail[q] \in Nat
              BY <4>5, <4>6, <5>1, <5>2
            <6>2. q < p => tail[q] < tail[p]
              BY <4>2
            <6>3. QED
              BY <6>1, <6>2
          <5>3. ASSUME p < q
                PROVE  ~(m = n) /\ ~(n < m)
            <6>1. r[m] < r[n]
              BY <4>2, <4>6, <5>3
            <6>2. n < m => r[n] < r[m]
              BY <4>5
            <6>3. QED
              BY <5>1, <6>1, <6>2
          <5>4. QED
            BY <2>1, <4>2, <5>2, <5>3
        <4>7. QED
          BY <2>1, <4>2, <4>4, <4>6
      <3>4. QED
        BY <3>1, <3>2, <3>3
    <2>. HIDE DEF r
    <2>3. QED
      BY <2>2 DEF TailNeverBehind, r
  <1>2. QED
    BY <1>1, AlwaysIInv, PTL

\* The last 0 entries of a sequence.
LEMMA LastOfNothing ==
  ASSUME NEW S, NEW s \in Seq(S)
  PROVE  LastOf(s, 0) = <<>>
  <1>1. Len(s) \in Nat
    BY LenProperties
  <1>2. CASE Len(s) = 0
    BY <1>2, EmptySeq DEF LastOf
  <1>3. CASE Len(s) # 0
    <2>1. LastOf(s, 0) = SubSeq(s, Len(s) + 1, Len(s))
      <3>1. ~(0 >= Len(s)) /\ Len(s) - 0 + 1 = Len(s) + 1
        BY <1>1, <1>3
      <3>2. QED
        BY <3>1 DEF LastOf
    <2>2. QED
      BY <2>1, NothingJoined
  <1>4. QED
    BY <1>2, <1>3

\* As long as no write is cut off inside a line, every instance shows the end of what
\* can be read of the file, for every limit, except that a mirror that is exactly what
\* is on disk may be shown in its stead (AuditLog.tail).
THEOREM TailIsExact == Spec => []TailExact
  <1>1. ASSUME IInv
        PROVE  TailExact
    <2>. SUFFICES ASSUME tears = 0, NEW i \in Instances, NEW limit \in 0..MaxRecords
                  PROVE  \/ TailOf(i, limit) = LastOf(Readable, limit)
                         \/ mirror[i] = OnDisk /\ TailOf(i, limit) = LastOf(OnDisk, limit)
      BY DEF TailExact
    <2>. DEFINE r == OnDisk
                d == Readable
                m == mirror[i]
    <2>1. /\ r \in Seq(1..issued) /\ Len(r) \in Nat
          /\ \A n \in 1..Len(r) : r[n] \in Whole
          /\ \A e \in Whole : \E n \in 1..Len(r) : r[n] = e
          /\ \A p, q \in 1..Len(r) : p < q /\ r[p] \in returned /\ r[q] \in returned
                                       => r[p] < r[q]
      BY <1>1, OnDiskFacts
    <2>2. CASE limit = 0
      <3>1. d \in Seq(1..issued)
        BY <1>1, ReadableFacts
      <3>. HIDE DEF d
      <3>2. LastOf(d, 0) = <<>>
        BY <3>1, LastOfNothing
      <3>3. QED
        BY <2>2, <3>2 DEF TailOf, d
    <2>3. CASE limit # 0 /\ ~(LineCount <= Len(mirror[i]))
      BY <2>3 DEF TailOf
    <2>4. CASE limit # 0 /\ LineCount <= Len(mirror[i])
      <3>1. /\ m \in Seq(1..issued) /\ Len(m) \in Nat
            /\ \A n \in 1..Len(m) : m[n] \in returned
            /\ \A p, q \in 1..Len(m) : p < q => m[p] < m[q]
        BY <1>1, MirrorFacts
      <3>2. /\ \A e \in Whole : \E n \in 1..Len(m) : m[n] = e
            /\ Whole \subseteq returned
        BY <1>1, <2>4, MirrorHoldsWhole
      <3>3. returned \subseteq Whole
        <4>1. /\ IsFiniteSet(Lost) /\ Cardinality(Lost) \in Nat
              /\ Cardinality(Lost) + (IF Dangling THEN 1 ELSE 0) <= 0
          BY <1>1, LostFinite DEF IInv, Covered
        <4>2. Cardinality(Lost) = 0
          BY <4>1
        <4>3. Lost = {}
          BY <4>1, <4>2, FS_EmptySet
        <4>4. QED
          BY <4>3 DEF Lost
      <3>. HIDE DEF r, m
      <3>4. r \in Seq(Nat) /\ m \in Seq(Nat)
        <4>1. \A s \in Seq(1..issued) : Len(s) \in Nat /\ s \in [1..Len(s) -> 1..issued]
          BY LenProperties
        <4>2. 1..issued \subseteq Nat
          BY <1>1 DEF IInv, TypeOK
        <4>3. \A s \in Seq(1..issued) : s \in [1..Len(s) -> Nat]
          BY <4>1, <4>2
        <4>4. \A s \in Seq(1..issued) : s \in Seq(Nat)
          BY <4>1, <4>3
        <4>5. QED
          BY <2>1, <3>1, <4>4
      <3>5. Increasing(r) /\ Increasing(m)
        BY <2>1, <3>1, <3>2 DEF Increasing
      <3>6. /\ \A n \in 1..Len(r) : \E k \in 1..Len(m) : m[k] = r[n]
            /\ \A k \in 1..Len(m) : \E n \in 1..Len(r) : r[n] = m[k]
        BY <2>1, <3>1, <3>2, <3>3
      <3>7. r = m
        BY <3>4, <3>5, <3>6, OneIncreasing
      <3>8. QED
        BY <2>4, <3>7 DEF TailOf, r, m
    <2>5. QED
      BY <2>2, <2>3, <2>4
  <1>2. QED
    BY <1>1, AlwaysIInv, PTL

\* It is only the entries with a separator in their text that make the tails of two
\* instances differ (AuditLog._line_count, _read_file_tail).
THEOREM TailsAgreeUnlessSplit ==
  ASSUME Splits = {}
  PROVE  Spec => []TailsAgree
  <1>1. Readable = OnDisk
    <2>1. {k \in DOMAIN file : WholeAt(file, k) /\ file[k][1] \notin Splits}
            = {k \in DOMAIN file : WholeAt(file, k)}
      OBVIOUS
    <2>2. QED
      BY <2>1 DEF Readable, OnDisk
  <1>2. TailExact => TailsAgree
    BY <1>1 DEF TailExact, TailsAgree
  <1>3. QED
    BY <1>2, TailIsExact, PTL
=============================================================================
