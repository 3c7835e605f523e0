-------------------------- MODULE DurableLimitsProofs --------------------------
(***************************************************************************)
(* Proofs about the durable rate history, for any tags, any values, any    *)
(* retention time and any pattern of failing and torn appends, crashes,    *)
(* restarts and clock steps.                                               *)
(*                                                                         *)
(* While nothing has failed, the file holds the records in the order of    *)
(* their times, and memory is what a replay of the file would give: a      *)
(* restart changes nothing.  Pruning a pruned bucket once more is pruning  *)
(* all that was ever recorded, because the clock has only moved on.        *)
(*                                                                         *)
(* The limits rest on that.  Where lines are torn and puts fail, every     *)
(* loss is paid for: from any moment within the retention time on, memory  *)
(* misses at most as many executed writes as were not put or were torn.    *)
(* Where nothing is missed, a write is checked against all that was ever   *)
(* executed, and the time that passes until it lands only widens what the  *)
(* rule allows it.                                                         *)
(***************************************************************************)
EXTENDS DurableLimits, SelectionProofs, FiniteSetTheorems

-----------------------------------------------------------------------------
(* Sorting *)

Timed(bucket) == \A k \in 1..Len(bucket) : bucket[k].ts \in Int
InTime(bucket) == \A i, j \in 1..Len(bucket) : i < j => bucket[i].ts <= bucket[j].ts

\* Every place of the sorted bucket is that of one record.
LEMMA PlaceTaken ==
  ASSUME NEW S, NEW b \in Seq(S), Timed(b), NEW k \in 1..Len(b)
  PROVE  \E i \in 1..Len(b) : Place(b, i) = k
  <1>. DEFINE n == Len(b)
              Up(i) == {j \in 1..n : ~Before(b, i, j)}
  <1>1. n \in Nat /\ DOMAIN b = 1..n /\ \A i \in 1..n : b[i].ts \in Int
    BY LenProperties DEF Timed
  <1>. HIDE DEF n
  <1>2. IsFiniteSet(1..n) /\ Cardinality(1..n) = n
    BY <1>1, FS_Interval
  <1>3. \A i \in 1..n : Place(b, i) = Cardinality(Up(i))
    BY <1>1 DEF Place
  <1>4. \A i \in 1..n : i \in Up(i)
    BY <1>1 DEF Before
  <1>5. ASSUME NEW i \in 1..n
        PROVE  IsFiniteSet(Up(i)) /\ Cardinality(Up(i)) \in 1..n
    <2>1. IsFiniteSet(Up(i)) /\ Cardinality(Up(i)) <= n /\ Cardinality(Up(i)) \in Nat
      BY <1>2, FS_Subset, FS_CardinalityType
    <2>2. Cardinality(Up(i)) # 0
      BY <1>4, <2>1, FS_EmptySet
    <2>3. QED
      BY <1>1, <2>1, <2>2
  <1>6. ASSUME NEW i \in 1..n, NEW j \in 1..n, Before(b, i, j), Cardinality(Up(i)) = Cardinality(Up(j))
        PROVE  FALSE
    <2>1. Up(i) \subseteq Up(j)
      BY <1>1, <1>6 DEF Before
    <2>2. j \in Up(j) /\ j \notin Up(i)
      BY <1>4, <1>6
    <2>3. Up(i) = Up(j)
      BY <1>5, <1>6, <2>1, FS_Subset
    <2>4. QED
      BY <2>2, <2>3
  <1>7. SUFFICES ASSUME \A i \in 1..n : Place(b, i) # k
                 PROVE  FALSE
    BY DEF n
  <1>. DEFINE T == (1..n) \ {k}
              f == [i \in 1..n |-> Cardinality(Up(i))]
  <1>8. f \in [1..n -> T]
    <2>1. \A i \in 1..n : Cardinality(Up(i)) \in T
      BY <1>3, <1>5, <1>7
    <2>. HIDE DEF Up, T
    <2>2. QED
      BY <2>1
  <1>9. IsFiniteSet(T) /\ Cardinality(T) < n
    <2>1. /\ IsFiniteSet(T)
          /\ Cardinality(T) = IF k \in 1..n THEN Cardinality(1..n) - 1 ELSE Cardinality(1..n)
      BY <1>2, FS_RemoveElement
    <2>2. QED
      BY <1>1, <1>2, <2>1 DEF n
  <1>. HIDE DEF T, f
  <1>10. PICK x \in 1..n, y \in 1..n : x # y /\ f[x] = f[y]
    BY <1>2, <1>8, <1>9, FS_PigeonHole
  <1>11. Cardinality(Up(x)) = Cardinality(Up(y))
    BY <1>10 DEF f
  <1>12. Before(b, x, y) \/ Before(b, y, x)
    BY <1>1, <1>10 DEF Before
  <1>13. QED
    BY <1>6, <1>11, <1>12

\* Sorting keeps the length and the kind of the records, and a bucket that is in
\* order as it is.
LEMMA SortedIs ==
  ASSUME NEW S, NEW b \in Seq(S), Timed(b)
  PROVE  /\ SortedByTs(b) \in Seq(S) /\ Len(SortedByTs(b)) = Len(b)
         /\ InTime(b) => SortedByTs(b) = b
  <1>. DEFINE n == Len(b)
              at(k) == CHOOSE i \in DOMAIN b : Place(b, i) = k
  <1>1. /\ n \in Nat /\ DOMAIN b = 1..n /\ b \in [1..n -> S]
        /\ \A i \in 1..n : b[i].ts \in Int
    BY LenProperties DEF Timed
  <1>2. ASSUME NEW k \in 1..n
        PROVE  at(k) \in 1..n /\ Place(b, at(k)) = k
    <2>1. \E i \in DOMAIN b : Place(b, i) = k
      BY <1>1, PlaceTaken
    <2>2. QED
      BY <1>1, <2>1
  <1>3. SortedByTs(b) = [k \in 1..n |-> b[at(k)]]
    BY <1>1 DEF SortedByTs
  <1>. HIDE DEF at
  <1>4. [k \in 1..n |-> b[at(k)]] \in [1..n -> S]
    BY <1>1, <1>2
  <1>5. SortedByTs(b) \in Seq(S) /\ Len(SortedByTs(b)) = n
    <2>. DEFINE v == SortedByTs(b)
    <2>1. v \in [1..n -> S]
      BY <1>3, <1>4
    <2>. HIDE DEF v, n
    <2>2. v \in Seq(S) /\ Len(v) = n
      BY <1>1, <2>1, LenProperties
    <2>3. QED
      BY <2>2 DEF v
  <1>6. ASSUME InTime(b)
        PROVE  SortedByTs(b) = b
    <2>1. ASSUME NEW i \in 1..n
          PROVE  Place(b, i) = i
      <3>1. {j \in DOMAIN b : ~Before(b, i, j)} = 1..i
        <4>1. \A j \in 1..n : j < i => b[j].ts <= b[i].ts
          BY <1>6 DEF InTime
        <4>2. \A j \in 1..n : i < j => b[i].ts <= b[j].ts
          BY <1>6 DEF InTime
        <4>3. \A j \in 1..n : ~Before(b, i, j) <=> j <= i
          BY <1>1, <4>1, <4>2 DEF Before
        <4>4. QED
          BY <1>1, <4>3
      <3>2. Cardinality(1..i) = i
        BY FS_Interval
      <3>3. QED
        BY <3>1, <3>2 DEF Place
    <2>2. \A k \in 1..n : at(k) = k
      BY <1>2, <2>1
    <2>3. QED
      BY <1>1, <1>3, <2>2
  <1>7. QED
    BY <1>5, <1>6

-----------------------------------------------------------------------------
(* Types *)

AnyLine == Lines(Tags) \cup {Corrupt}

\* A record has its three fields; a torn line is none.
LEMMA LineFacts ==
  /\ \A tags : \A line \in Lines(tags) : /\ line.tag \in tags /\ line.ts \in Nat
                                         /\ line.value \in Values /\ line # Corrupt
  /\ \A line \in AnyLine : line # Corrupt => line \in Lines({line.tag}) /\ line.tag \in Tags
  /\ \A tag \in Tags : Lines({tag}) \subseteq Lines(Tags)
  <1>1. \A tags : \A line \in Lines(tags) : line # Corrupt
    BY DEF Lines, Corrupt
  <1>2. \A tags : \A line \in Lines(tags) :
          line.tag \in tags /\ line.ts \in Nat /\ line.value \in Values
    BY DEF Lines
  <1>3. \A line \in Lines(Tags) : line \in Lines({line.tag}) /\ line.tag \in Tags
    BY DEF Lines
  <1>4. \A tag \in Tags : Lines({tag}) \subseteq Lines(Tags)
    BY DEF Lines
  <1>5. QED
    BY <1>1, <1>2, <1>3, <1>4 DEF AnyLine

\* The records of a tag.
LEMMA OfTagTyped ==
  ASSUME NEW lines \in Seq(AnyLine), NEW tag \in Tags
  PROVE  OfTag(lines, tag) \in Seq(Lines({tag}))
  <1>. DEFINE P == {k \in DOMAIN lines : lines[k] # Corrupt /\ lines[k].tag = tag}
              u == Selected(lines, P)
              at == Ascending(P, Len(lines))
  <1>1. Len(lines) \in Nat /\ \A k \in 1..Len(lines) : lines[k] \in AnyLine
    BY LenProperties, ElementOfSeq
  <1>2. Enumerates(at, P, Len(lines))
    BY <1>1, AscendingIs
  <1>. HIDE DEF at
  <1>3. /\ Len(at) \in Nat
        /\ \A k \in 1..Len(at) : at[k] \in P /\ at[k] \in 1..Len(lines)
        /\ u = [k \in 1..Len(at) |-> lines[at[k]]]
    BY <1>2, SelectedBy
  <1>4. \A k \in 1..Len(at) : lines[at[k]] \in Lines({tag})
    BY <1>1, <1>3, LineFacts
  <1>. HIDE DEF P
  <1>5. u \in Seq(Lines({tag}))
    <2>. DEFINE T == Lines({tag})
    <2>1. \A k \in 1..Len(at) : lines[at[k]] \in T
      BY <1>4
    <2>. HIDE DEF u, T
    <2>2. u \in [1..Len(at) -> T]
      BY <1>3, <2>1
    <2>3. u \in Seq(T)
      BY <1>3, <2>2
    <2>4. QED
      BY <2>3 DEF T
  <1>6. QED
    BY <1>5 DEF OfTag, P

\* The records of a tag have times.
LEMMA TaggedTimed ==
  ASSUME NEW tag, NEW b \in Seq(Lines({tag}))
  PROVE  Timed(b) /\ Len(b) \in Nat /\ \A k \in 1..Len(b) : b[k] \in Lines({tag}) /\ b[k].ts \in Nat
  <1>1. Len(b) \in Nat /\ \A k \in 1..Len(b) : b[k] \in Lines({tag})
    BY LenProperties, ElementOfSeq
  <1>2. QED
    BY <1>1, LineFacts DEF Timed

\* A selection that picks the last of n places picks it last.
LEMMA LastPicked ==
  ASSUME NEW n \in Nat \ {0}, NEW P, n \in P, NEW at, Enumerates(at, P, n)
  PROVE  /\ Len(at) \in Nat /\ Len(at) \in 1..Len(at)
         /\ \A k \in 1..Len(at) : at[k] \in P /\ at[k] \in 1..n
         /\ \A k \in 1..Len(at) : k = Len(at) <=> at[k] = n
  <1>1. /\ at \in Seq(Nat) /\ Increasing(at)
        /\ \A k \in 1..Len(at) : at[k] \in P /\ at[k] \in 1..n
        /\ \A m \in P \cap (1..n) : \E k \in 1..Len(at) : at[k] = m
    BY DEF Enumerates
  <1>2. Len(at) \in Nat
    BY <1>1, LenProperties
  <1>3. PICK k \in 1..Len(at) : at[k] = n
    BY <1>1
  <1>4. \A i, j \in 1..Len(at) : i < j => at[i] < at[j]
    BY <1>1 DEF Increasing
  <1>5. k = Len(at)
    <2>1. SUFFICES ASSUME k < Len(at)
                   PROVE  FALSE
      BY <1>2
    <2>2. Len(at) \in 1..Len(at)
      BY <1>2, <1>3
    <2>3. n < at[Len(at)] /\ at[Len(at)] \in 1..n
      BY <1>1, <1>3, <1>4, <2>1, <2>2
    <2>4. QED
      BY <2>3
  <1>6. ASSUME NEW j \in 1..Len(at), j # Len(at)
        PROVE  at[j] # n
    <2>1. j < k
      BY <1>2, <1>5, <1>6
    <2>2. at[j] < n
      BY <1>3, <1>4, <2>1
    <2>3. QED
      BY <2>2
  <1>7. QED
    BY <1>1, <1>2, <1>3, <1>5, <1>6

\* Pruning keeps the newest record and what is not older than the retention time.
LEMMA PrunedIs ==
  ASSUME NEW S, NEW b \in Seq(S), b # <<>>, NEW now
  PROVE  LET p == Pruned(b, now)
         IN  /\ p \in Seq(S) /\ Len(p) \in Nat /\ Len(p) >= 1 /\ Last(p) = Last(b)
             /\ \A k \in 1..Len(p) : p[k].ts >= now - Retention \/ k = Len(p)
  <1>. DEFINE n == Len(b)
              P == {k \in DOMAIN b : b[k].ts >= now - Retention \/ k = n}
              p == Selected(b, P)
              at == Ascending(P, n)
  <1>1. n \in Nat /\ DOMAIN b = 1..n /\ n \in 1..n
    <2>1. n \in Nat /\ DOMAIN b = 1..n /\ n # 0
      BY LenProperties, EmptySeq
    <2>2. QED
      BY <2>1
  <1>2. Enumerates(at, P, n)
    BY <1>1, AscendingIs
  <1>. HIDE DEF at, P
  <1>3. /\ Len(at) \in Nat /\ Len(p) = Len(at)
        /\ \A k \in 1..Len(at) : at[k] \in P /\ at[k] \in 1..n /\ p[k] = b[at[k]]
        /\ p \in Seq(S)
    BY <1>2, SelectedBy, SelectedIs
  <1>4. Len(at) \in 1..Len(at) /\ \A k \in 1..Len(at) : k = Len(at) <=> at[k] = n
    <2>1. n \in P /\ n \in Nat \ {0}
      BY <1>1 DEF P
    <2>. HIDE DEF n
    <2>2. QED
      BY <1>2, <2>1, LastPicked
  <1>. HIDE DEF p
  <1>5. Last(p) = Last(b) /\ Len(p) >= 1
    BY <1>3, <1>4 DEF Last
  <1>6. ASSUME NEW j \in 1..Len(at), j # Len(at)
        PROVE  p[j].ts >= now - Retention
    <2>1. at[j] \in P /\ at[j] # n /\ p[j] = b[at[j]]
      BY <1>3, <1>4, <1>6
    <2>2. QED
      BY <2>1 DEF P
  <1>7. p = Pruned(b, now)
    BY DEF Pruned, p, P
  <1>8. QED
    BY <1>3, <1>5, <1>6, <1>7

\* Nothing selected from nothing, nothing pruned of nothing.
LEMMA SelectedNothing == \A P : Selected(<<>>, P) = <<>>
  <1>. SUFFICES ASSUME NEW P
                PROVE  Selected(<<>>, P) = <<>>
    OBVIOUS
  <1>. DEFINE u == Selected(<<>>, P)
  <1>1. <<>> \in Seq({}) /\ Len(<<>>) = 0
    BY EmptySeq
  <1>2. Enumerates(<<>>, P, Len(<<>>))
    BY <1>1, EnumeratesNone
  <1>3. Len(u) = Len(<<>>) /\ u \in Seq({})
    BY <1>1, <1>2, SelectedBy, SelectedIs
  <1>. HIDE DEF u
  <1>4. u = <<>>
    BY <1>1, <1>3, EmptySeq
  <1>5. QED
    BY <1>4 DEF u

LEMMA PrunedNothing == \A now : Pruned(<<>>, now) = <<>>
  BY SelectedNothing DEF Pruned

\* No record is older than the retention time, measured from the newest.
Recent(b) == \A k \in 1..Len(b) : b[k].ts >= Last(b).ts - Retention

\* What a replay makes of the records of a tag that are in order.
Replay(b) == IF b = <<>> THEN <<>> ELSE Pruned(b, Last(b).ts)

\* The last of a sequence.
LEMMA LastIs ==
  ASSUME NEW S, NEW s \in Seq(S), s # <<>>
  PROVE  Len(s) \in 1..Len(s) /\ Len(s) \in Nat /\ Last(s) = s[Len(s)] /\ Last(s) \in S
  <1>1. Len(s) \in Nat /\ Len(s) # 0
    BY LenProperties, EmptySeq
  <1>2. Len(s) \in 1..Len(s)
    BY <1>1
  <1>3. QED
    BY <1>1, <1>2, ElementOfSeq DEF Last

\* A replayed bucket is recent.
LEMMA ReplayIs ==
  ASSUME NEW tag, NEW b \in Seq(Lines({tag}))
  PROVE  Replay(b) \in Seq(Lines({tag})) /\ Recent(Replay(b))
  <1>1. CASE b = <<>>
    <2>1. Replay(b) = b /\ Len(b) = 0
      BY <1>1, EmptySeq DEF Replay
    <2>2. QED
      BY <2>1 DEF Recent
  <1>2. CASE b # <<>>
    <2>. DEFINE now == Last(b).ts
                p == Pruned(b, now)
    <2>1. now \in Nat
      BY <1>2, LastIs, LineFacts
    <2>2. /\ p \in Seq(Lines({tag})) /\ Len(p) >= 1 /\ Last(p) = Last(b)
          /\ \A k \in 1..Len(p) : p[k].ts >= now - Retention \/ k = Len(p)
      BY <1>2, PrunedIs
    <2>. HIDE DEF p
    <2>3. Recent(p)
      BY <2>1, <2>2, RetentionAssumption DEF Recent, Last
    <2>4. Replay(b) = p
      BY <1>2 DEF Replay, p
    <2>5. QED
      BY <2>2, <2>3, <2>4
  <1>3. QED
    BY <1>1, <1>2

\* What is loaded is the replay of each tag's records.
LEMMA LoadedIs ==
  ASSUME NEW lines \in Seq(AnyLine), NEW tag \in Tags
  PROVE  /\ DOMAIN Loaded(lines) = Tags
         /\ Loaded(lines)[tag] = Replay(SortedByTs(OfTag(lines, tag)))
         /\ Loaded(lines)[tag] \in Seq(Lines({tag})) /\ Recent(Loaded(lines)[tag])
  <1>1. Loaded(lines)[tag] = Replay(SortedByTs(OfTag(lines, tag))) /\ DOMAIN Loaded(lines) = Tags
    BY DEF Loaded, Replay
  <1>2. OfTag(lines, tag) \in Seq(Lines({tag}))
    BY OfTagTyped
  <1>3. SortedByTs(OfTag(lines, tag)) \in Seq(Lines({tag}))
    BY <1>2, TaggedTimed, SortedIs
  <1>4. QED
    BY <1>1, <1>3, ReplayIs

\* A bucket with one more record, pruned.
LEMMA PutIs ==
  ASSUME TypeOK, NEW tag \in Tags, NEW value \in Values
  PROVE  LET p == Pruned(Append(memory[tag], Line(tag, value)), clock)
         IN  p \in Seq(Lines({tag})) /\ Recent(p)
  <1>. DEFINE line == Line(tag, value)
              a == Append(memory[tag], line)
              p == Pruned(a, clock)
  <1>1. line \in Lines({tag}) /\ line.ts = clock /\ clock \in Nat
    BY DEF Line, Lines, TypeOK
  <1>. HIDE DEF line
  <1>2. /\ a \in Seq(Lines({tag})) /\ a # <<>> /\ Last(a) = line
    <2>. DEFINE m == memory[tag]
                T == Lines({tag})
    <2>1. m \in Seq(T)
      BY DEF TypeOK
    <2>. HIDE DEF m, T
    <2>2. /\ Append(m, line) \in Seq(T) /\ Len(Append(m, line)) = Len(m) + 1
          /\ Append(m, line)[Len(m) + 1] = line /\ Len(m) \in Nat
      BY <1>1, <2>1, AppendProperties, LenProperties DEF T
    <2>3. Append(m, line) # <<>>
      BY <2>2, EmptySeq
    <2>4. QED
      BY <2>2, <2>3 DEF Last, m, T
  <1>. HIDE DEF a
  <1>3. /\ p \in Seq(Lines({tag})) /\ Len(p) >= 1 /\ Len(p) \in Nat /\ Last(p) = line
        /\ \A k \in 1..Len(p) : p[k].ts >= clock - Retention \/ k = Len(p)
    BY <1>2, PrunedIs
  <1>. HIDE DEF p
  <1>4. Recent(p)
    BY <1>1, <1>3, RetentionAssumption DEF Recent, Last
  <1>5. QED
    BY <1>3, <1>4 DEF p, a, line

\* A line put behind the file.
LEMMA ExtendedIs ==
  ASSUME TypeOK, NEW line \in AnyLine
  PROVE  /\ Extended(file, line) \in Seq(AnyLine)
         /\ ended => /\ Len(Extended(file, line)) = Len(file) + 1
                     /\ Extended(file, line)[Len(file) + 1] = line
                     /\ \A k \in 1..Len(file) : Extended(file, line)[k] = file[k]
         /\ ~ended => /\ Len(Extended(file, line)) = Len(file)
                      /\ \A k \in 1..Len(file) :
                           Extended(file, line)[k] = IF k = Len(file) THEN Corrupt ELSE file[k]
  <1>1. file \in Seq(AnyLine) /\ Len(file) \in Nat
    BY LenProperties DEF TypeOK, AnyLine
  <1>2. CASE ended
    BY <1>1, <1>2, AppendProperties DEF Extended
  <1>3. CASE ~ended
    <2>. DEFINE f == [file EXCEPT ![Len(file)] = Corrupt]
    <2>1. Corrupt \in AnyLine /\ file \in [1..Len(file) -> AnyLine]
      BY <1>1, LenProperties DEF AnyLine
    <2>2. f \in [1..Len(file) -> AnyLine]
          /\ \A k \in 1..Len(file) : f[k] = IF k = Len(file) THEN Corrupt ELSE file[k]
      BY <1>1, <2>1
    <2>. HIDE DEF f
    <2>3. f \in Seq(AnyLine) /\ Len(f) = Len(file)
      BY <1>1, <2>2, LenProperties
    <2>4. Extended(file, line) = f
      BY <1>3 DEF Extended, f
    <2>5. QED
      BY <1>3, <2>2, <2>3, <2>4
  <1>4. QED
    BY <1>2, <1>3

-----------------------------------------------------------------------------
(* The type invariant and the bound on memory, which a put and a replay give alike *)

Buckets(m) ==
  /\ DOMAIN m = Tags
  /\ \A tag \in Tags : m[tag] \in Seq(Lines({tag})) /\ Recent(m[tag])

Sane == TypeOK /\ Buckets(memory)

\* A bucket that is replaced.
LEMMA BucketReplaced ==
  ASSUME Sane, NEW tag \in Tags, NEW p \in Seq(Lines({tag})), Recent(p),
         memory' = [memory EXCEPT ![tag] = p]
  PROVE  Buckets(memory')
  <1>1. DOMAIN memory = Tags /\ \A t \in Tags : memory[t] \in Seq(Lines({t})) /\ Recent(memory[t])
    BY DEF Sane, Buckets
  <1>2. DOMAIN memory' = Tags /\ \A t \in Tags : memory'[t] = IF t = tag THEN p ELSE memory[t]
    BY <1>1
  <1>3. QED
    BY <1>1, <1>2 DEF Buckets

\* Memory replayed from a file.
LEMMA MemoryReplayed ==
  ASSUME NEW lines \in Seq(AnyLine), memory' = Loaded(lines)
  PROVE  Buckets(memory')
  <1>1. DOMAIN Loaded(lines) = Tags
    BY DEF Loaded
  <1>2. QED
    BY <1>1, LoadedIs DEF Buckets

LEMMA SaneInit == Init => Sane
  <1>. SUFFICES ASSUME Init
                PROVE  Sane
    OBVIOUS
  <1>1. \A S : <<>> \in Seq(S)
    BY EmptySeq
  <1>2. \A tag \in Tags : memory[tag] = <<>> /\ Len(memory[tag]) = 0
    BY EmptySeq DEF Init
  <1>3. TypeOK
    BY <1>1, <1>2 DEF Init, TypeOK
  <1>4. Buckets(memory)
    BY <1>2, <1>3 DEF Recent, Buckets, TypeOK
  <1>5. QED
    BY <1>3, <1>4 DEF Sane

LEMMA SaneStep == Sane /\ [Next]_vars => Sane'
  <1>. SUFFICES ASSUME Sane, [Next]_vars
                PROVE  Sane'
    OBVIOUS
  <1>1. TypeOK /\ file \in Seq(AnyLine)
    BY DEF Sane, TypeOK, AnyLine
  <1>2. \A tag \in Tags, value \in Values :
          Line(tag, value) \in Lines(Tags) /\ Line(tag, value) \in AnyLine /\ Corrupt \in AnyLine
    BY <1>1 DEF Line, Lines, TypeOK, AnyLine
  <1>. DEFINE Else == /\ clock \in Nat /\ file \in Seq(AnyLine) /\ ended \in BOOLEAN
                      /\ written \in Seq(Lines(Tags)) /\ tears \in Nat /\ intact \in BOOLEAN
  <1>3. Buckets(memory) /\ Else
    BY <1>1 DEF Sane, TypeOK
  <1>. SUFFICES Buckets(memory') /\ Else'
    BY DEF Sane, TypeOK, AnyLine, Buckets
  <1>4. ASSUME NEW tag \in Tags, NEW value \in Values, Put(tag, value)
        PROVE  Buckets(memory') /\ Else'
    <2>1. Buckets(memory')
      <3>1. memory' = [memory EXCEPT ![tag] = Pruned(Append(memory[tag], Line(tag, value)), clock)]
        BY <1>4 DEF Put
      <3>. QED
        BY <3>1, <1>1, PutIs, BucketReplaced
    <2>2. file' \in Seq(AnyLine)
      BY <1>1, <1>2, <1>4, ExtendedIs DEF Put
    <2>3. written' \in Seq(Lines(Tags))
      BY <1>2, <1>3, <1>4, AppendProperties DEF Put
    <2>4. QED
      BY <1>3, <1>4, <2>1, <2>2, <2>3 DEF Put
  <1>5. ASSUME NEW tag \in Tags, NEW value \in Values, PutRaises(tag, value)
        PROVE  Buckets(memory') /\ Else'
    <2>1. Buckets(memory')
      <3>1. memory' = [memory EXCEPT ![tag] = Pruned(Append(memory[tag], Line(tag, value)), clock)]
        BY <1>5 DEF PutRaises
      <3>. QED
        BY <3>1, <1>1, PutIs, BucketReplaced
    <2>2. file' \in Seq(AnyLine)
      BY <1>1, <1>2, <1>5, ExtendedIs DEF PutRaises
    <2>3. ended' \in BOOLEAN
      <3>1. ended \in BOOLEAN
        BY <1>3
      <3>2. UNCHANGED <<file, ended, tears>> \/ ended' = FALSE
        BY <1>5, Zenon DEF PutRaises
      <3>3. QED
        BY <3>1, <3>2
    <2>4. tears' \in Nat
      BY <1>3, <1>5 DEF PutRaises
    <2>5. intact' = FALSE /\ UNCHANGED <<clock, written>>
      BY <1>5 DEF PutRaises
    <2>6. QED
      BY <1>3, <2>1, <2>2, <2>3, <2>4, <2>5
  <1>6. ASSUME NEW tag \in Tags, NEW value \in Values, DieInPut(tag, value)
        PROVE  Buckets(memory') /\ Else'
    <2>1. file' \in Seq(AnyLine)
      BY <1>1, <1>2, <1>6, ExtendedIs DEF DieInPut
    <2>2. Buckets(memory')
      BY <1>6, <2>1, MemoryReplayed DEF DieInPut
    <2>3. tears' \in Nat
      BY <1>3, <1>6 DEF DieInPut
    <2>4. QED
      BY <1>3, <1>6, <2>1, <2>2, <2>3 DEF DieInPut
  <1>7. CASE Restart
    <2>1. Buckets(memory')
      BY <1>1, <1>7, MemoryReplayed DEF Restart
    <2>2. QED
      BY <1>3, <1>7, <2>1 DEF Restart
  <1>8. CASE Tick
    BY <1>3, <1>8 DEF Tick
  <1>9. CASE ClockSetBack
    <2>1. clock' \in Nat
      BY <1>3, <1>9 DEF ClockSetBack
    <2>2. QED
      BY <1>3, <1>9, <2>1 DEF ClockSetBack
  <1>10. CASE UNCHANGED vars
    BY <1>3, <1>10 DEF vars
  <1>11. QED
    <2>1. CASE Next
      BY <1>4, <1>5, <1>6, <1>7, <1>8, <1>9, <2>1 DEF Next
    <2>2. QED
      BY <1>10, <2>1

\* Every bucket is well typed and holds nothing older than the retention time.
THEOREM SaneAlways == Spec => []Sane
  <1>1. Init => Sane
    BY SaneInit
  <1>2. Sane /\ [Next]_vars => Sane'
    BY SaneStep
  <1>3. QED
    BY <1>1, <1>2, PTL DEF Spec

\* Every variable of the rate history keeps its type.
THEOREM HistoryTyped == Spec => []TypeOK
  <1>1. Sane => TypeOK
    BY DEF Sane
  <1>2. QED
    BY <1>1, SaneAlways, PTL

\* Memory holds nothing older than the retention time, measured from a tag's newest
\* record, whatever the clock and the file do.
THEOREM MemoryIsBounded == Spec => []MemoryBounded
  <1>1. Sane => MemoryBounded
    <2>. SUFFICES ASSUME Sane, NEW tag \in Tags
                  PROVE  \A i \in DOMAIN memory[tag] :
                           memory[tag][i].ts >= Last(memory[tag]).ts - Retention
      BY DEF MemoryBounded
    <2>1. Recent(memory[tag]) /\ DOMAIN memory[tag] = 1..Len(memory[tag])
      BY LenProperties DEF Sane, Buckets
    <2>2. QED
      BY <2>1 DEF Recent
  <1>2. QED
    BY <1>1, SaneAlways, PTL

\* The write at the backend is one of some tag.
Asked == pending \subseteq [tag : Tags, value : Values]

\* The limits only use the history: every step of theirs is one of its steps or
\* leaves it as it is, so that what holds of the history holds under them.
THEOREM LimitsUseTheHistory == LimitSpec => Spec
  <1>1. LimitInit => Init /\ Asked
    BY DEF LimitInit, Asked
  <1>2. Asked /\ [LimitNext]_<<vars, limitVars>> => [Next]_vars /\ Asked'
    <2>. SUFFICES ASSUME Asked, [LimitNext]_<<vars, limitVars>>
                  PROVE  [Next]_vars /\ Asked'
      OBVIOUS
    <2>1. ASSUME NEW tag \in Tags, NEW value \in Values, Admit(tag, value)
          PROVE  [Next]_vars /\ Asked'
      <3>1. pending' = {[tag |-> tag, value |-> value]} /\ UNCHANGED vars
        BY <2>1 DEF Admit
      <3>2. Asked'
        BY <3>1 DEF Asked
      <3>3. QED
        BY <3>1, <3>2
    <2>2. ASSUME NEW write \in pending, Record(write) \/ Refused(write) \/ DieBeforePut(write)
          PROVE  [Next]_vars /\ Asked'
      <3>1. write.tag \in Tags /\ write.value \in Values
        BY DEF Asked
      <3>2. pending' = {}
        BY <2>2 DEF Record, Refused, DieBeforePut
      <3>3. Next \/ UNCHANGED vars
        BY <2>2, <3>1 DEF Record, Refused, DieBeforePut, Next
      <3>4. QED
        BY <3>2, <3>3 DEF Asked
    <2>3. CASE \/ Restart /\ pending' = {} /\ UNCHANGED <<rule, landed, steady>>
               \/ Tick /\ UNCHANGED limitVars
               \/ ClockSetBack /\ steady' = FALSE /\ UNCHANGED <<rule, pending, landed>>
      BY <2>3 DEF Next, Asked, limitVars
    <2>4. CASE UNCHANGED <<vars, limitVars>>
      BY <2>4 DEF Asked, limitVars
    <2>5. QED
      BY <2>1, <2>2, <2>3, <2>4 DEF LimitNext
  <1>3. QED
    BY <1>1, <1>2, PTL DEF Spec, LimitSpec

-----------------------------------------------------------------------------
(* Counting the records of a kind *)

HowMany(s, C) == Cardinality({i \in DOMAIN s : s[i] \in C})

LEMMA HowManyIs ==
  ASSUME NEW S, NEW s \in Seq(S), NEW C
  PROVE  /\ IsFiniteSet({i \in 1..Len(s) : s[i] \in C})
         /\ HowMany(s, C) = Cardinality({i \in 1..Len(s) : s[i] \in C})
         /\ HowMany(s, C) \in Nat /\ HowMany(s, C) <= Len(s)
         /\ (\A i \in 1..Len(s) : s[i] \in C) => HowMany(s, C) = Len(s)
  <1>. DEFINE n == Len(s)
              G == {i \in 1..n : s[i] \in C}
  <1>1. n \in Nat /\ DOMAIN s = 1..n
    BY LenProperties
  <1>. HIDE DEF n
  <1>2. IsFiniteSet(1..n) /\ Cardinality(1..n) = n
    BY <1>1, FS_Interval
  <1>3. IsFiniteSet(G) /\ Cardinality(G) \in Nat /\ Cardinality(G) <= n
    <2>1. G \in SUBSET (1..n)
      OBVIOUS
    <2>. HIDE DEF G
    <2>2. IsFiniteSet(G) /\ Cardinality(G) <= Cardinality(1..n)
      BY <1>2, <2>1, FS_Subset
    <2>3. Cardinality(G) \in Nat
      BY <2>2, FS_CardinalityType
    <2>4. QED
      BY <1>2, <2>2, <2>3
  <1>4. HowMany(s, C) = Cardinality(G)
    BY <1>1 DEF HowMany
  <1>5. ASSUME \A i \in 1..n : s[i] \in C
        PROVE  Cardinality(G) = n
    <2>1. G = 1..n
      BY <1>5
    <2>. HIDE DEF G
    <2>2. QED
      BY <1>2, <2>1
  <1>6. QED
    BY <1>3, <1>4, <1>5 DEF n

\* One record more.
LEMMA HowManyAppend ==
  ASSUME NEW S, NEW s \in Seq(S), NEW e \in S, NEW C
  PROVE  /\ e \in C => HowMany(Append(s, e), C) = HowMany(s, C) + 1
         /\ e \notin C => HowMany(Append(s, e), C) = HowMany(s, C)
  <1>. DEFINE n == Len(s)
              t == Append(s, e)
              G == {i \in 1..n : s[i] \in C}
              H == {i \in 1..(n + 1) : t[i] \in C}
  <1>1. n \in Nat /\ t \in Seq(S) /\ Len(t) = n + 1 /\ t[n + 1] = e /\ \A i \in 1..n : t[i] = s[i]
    BY LenProperties, AppendProperties
  <1>2. HowMany(s, C) = Cardinality(G) /\ IsFiniteSet(G)
    BY HowManyIs
  <1>. HIDE DEF t, n
  <1>3. HowMany(t, C) = Cardinality(H)
    BY <1>1, HowManyIs
  <1>4. CASE e \in C
    <2>1. H = G \cup {n + 1} /\ n + 1 \notin G
      BY <1>1, <1>4
    <2>. HIDE DEF G, H
    <2>2. Cardinality(H) = Cardinality(G) + 1
      BY <1>2, <2>1, FS_AddElement
    <2>3. QED
      BY <1>2, <1>3, <1>4, <2>2 DEF t
  <1>5. CASE e \notin C
    <2>1. H = G
      BY <1>1, <1>5
    <2>2. QED
      BY <1>2, <1>3, <1>5, <2>1 DEF t
  <1>6. QED
    BY <1>4, <1>5

\* What a selection has of a kind are the picked records of that kind.
LEMMA HowManySelected ==
  ASSUME NEW S, NEW s \in Seq(S), NEW P, NEW C
  PROVE  HowMany(Selected(s, P), C) = Cardinality({i \in 1..Len(s) : i \in P /\ s[i] \in C})
  <1>. DEFINE n == Len(s)
              at == Ascending(P, n)
              u == Selected(s, P)
              G == {k \in 1..Len(u) : u[k] \in C}
              H == {i \in 1..n : i \in P /\ s[i] \in C}
  <1>1. n \in Nat
    BY LenProperties
  <1>. HIDE DEF n
  <1>2. Enumerates(at, P, n)
    BY <1>1, AscendingIs
  <1>. HIDE DEF at
  <1>3. /\ Len(at) \in Nat /\ Len(u) = Len(at) /\ u \in Seq(S)
        /\ \A k \in 1..Len(at) : at[k] \in P /\ at[k] \in 1..n /\ u[k] = s[at[k]]
    BY <1>2, SelectedBy, SelectedIs DEF n
  <1>4. /\ \A j, k \in 1..Len(at) : j < k => at[j] < at[k]
        /\ \A m \in P \cap (1..n) : \E k \in 1..Len(at) : at[k] = m
    BY <1>2 DEF Enumerates, Increasing
  <1>. HIDE DEF u
  <1>5. HowMany(u, C) = Cardinality(G) /\ IsFiniteSet(G)
    BY <1>3, HowManyIs
  <1>. DEFINE f == [k \in G |-> at[k]]
  <1>6. \A k \in G : at[k] \in H
    BY <1>3
  <1>7. \A j, k \in G : at[j] = at[k] => j = k
    <2>. SUFFICES ASSUME NEW j \in G, NEW k \in G, at[j] = at[k]
                  PROVE  j = k
      OBVIOUS
    <2>1. j \in 1..Len(at) /\ k \in 1..Len(at)
      BY <1>3
    <2>2. at[j] \in 1..n /\ at[k] \in 1..n
      BY <1>3, <2>1
    <2>3. ~(j < k) /\ ~(k < j)
      BY <1>4, <2>1, <2>2
    <2>4. QED
      BY <1>3, <2>1, <2>3
  <1>8. \A m \in H : \E k \in G : at[k] = m
    BY <1>3, <1>4
  <1>. HIDE DEF G, H
  <1>9. f \in Bijection(G, H)
    <2>1. f \in [G -> H]
      BY <1>6
    <2>2. \A a, b \in G : f[a] = f[b] => a = b
      BY <1>7
    <2>3. \A m \in H : \E k \in G : f[k] = m
      BY <1>8
    <2>. HIDE DEF f
    <2>4. f \in Injection(G, H) /\ f \in Surjection(G, H)
      BY <2>1, <2>2, <2>3 DEF Injection, IsInjective, Surjection
    <2>5. QED
      BY <2>4 DEF Bijection
  <1>10. Cardinality(H) = Cardinality(G)
    <2>. HIDE DEF f
    <2>1. QED
      BY <1>5, <1>9, FS_Bijection DEF ExistsBijection
  <1>11. QED
    BY <1>5, <1>10 DEF u, H, n

-----------------------------------------------------------------------------
(* Torn lines: what each costs *)

\* What an append does to the number of readable records of a kind.
LEMMA ExtendedCounts ==
  ASSUME TypeOK, ~ended => file # <<>>, NEW line \in AnyLine, NEW C, Corrupt \notin C
  PROVE  LET g == HowMany(file, C)
             h == HowMany(Extended(file, line), C)
         IN  /\ g \in Nat /\ h \in Nat /\ Extended(file, line) # <<>>
             /\ ended => /\ line \in C => h = g + 1
                         /\ line \notin C => h = g
                         /\ Last(Extended(file, line)) = line
             /\ ~ended => /\ Last(file) \in C => h = g - 1
                          /\ Last(file) \notin C => h = g
                          /\ Last(Extended(file, line)) = Corrupt
  <1>. DEFINE n == Len(file)
              e == Extended(file, line)
              m == Len(e)
              G == {i \in 1..n : file[i] \in C}
              H == {i \in 1..m : e[i] \in C}
  <1>1. file \in Seq(AnyLine) /\ n \in Nat
    BY LenProperties DEF TypeOK, AnyLine
  <1>2. e \in Seq(AnyLine)
    BY ExtendedIs
  <1>3. /\ HowMany(file, C) = Cardinality(G) /\ IsFiniteSet(G) /\ Cardinality(G) \in Nat
        /\ HowMany(e, C) = Cardinality(H) /\ Cardinality(H) \in Nat
    <2>1. HowMany(file, C) = Cardinality(G) /\ IsFiniteSet(G) /\ HowMany(file, C) \in Nat
      BY <1>1, HowManyIs
    <2>. HIDE DEF e
    <2>2. HowMany(e, C) = Cardinality(H) /\ HowMany(e, C) \in Nat
      BY <1>2, HowManyIs
    <2>3. QED
      BY <2>1, <2>2
  <1>4. CASE ended
    <2>1. m = n + 1 /\ e[n + 1] = line /\ \A k \in 1..n : e[k] = file[k]
      BY <1>4, ExtendedIs
    <2>2. e # <<>> /\ Last(e) = line
      <3>. HIDE DEF e
      <3>1. QED
        BY <1>1, <2>1, EmptySeq DEF Last
    <2>. HIDE DEF e, m
    <2>3. CASE line \notin C
      <3>1. H = G
        BY <1>1, <2>1, <2>3
      <3>2. QED
        BY <1>3, <1>4, <2>2, <2>3, <3>1 DEF e
    <2>4. CASE line \in C
      <3>1. H = G \cup {n + 1} /\ n + 1 \notin G
        BY <1>1, <2>1, <2>4
      <3>. HIDE DEF G, H
      <3>2. Cardinality(H) = Cardinality(G) + 1
        BY <1>3, <3>1, FS_AddElement
      <3>3. QED
        BY <1>3, <1>4, <2>2, <2>4, <3>2 DEF e
    <2>5. QED
      BY <2>3, <2>4
  <1>5. CASE ~ended
    <2>1. m = n /\ \A k \in 1..n : e[k] = IF k = n THEN Corrupt ELSE file[k]
      BY <1>5, ExtendedIs
    <2>2. n \in 1..n /\ n # 0 /\ Last(file) = file[n]
      BY <1>1, <1>5, LastIs
    <2>3. e # <<>> /\ Last(e) = Corrupt
      <3>. HIDE DEF e
      <3>1. QED
        BY <1>1, <2>1, <2>2, EmptySeq DEF Last
    <2>. HIDE DEF e, m
    <2>4. CASE Last(file) \notin C
      <3>1. H = G
        BY <1>1, <2>1, <2>2, <2>4
      <3>2. QED
        BY <1>3, <1>5, <2>3, <2>4, <3>1 DEF e
    <2>5. CASE Last(file) \in C
      <3>1. H = G \ {n} /\ n \in G
        BY <1>1, <2>1, <2>2, <2>5
      <3>. HIDE DEF G, H
      <3>2. Cardinality(H) = Cardinality(G) - 1
        BY <1>3, <3>1, FS_RemoveElement
      <3>3. QED
        BY <1>3, <1>5, <2>3, <2>5, <3>2 DEF e
    <2>6. QED
      BY <2>4, <2>5
  <1>6. QED
    BY <1>4, <1>5

\* A torn line is paid for when it is written; one that is torn in its newline only
\* still counts as a record, and is paid for twice over until the next append spoils
\* it.  This holds for the records of every kind by themselves.
SlackOf(lines, recorded, whole, torn, C) ==
  LET kept == HowMany(lines, C)
      due  == HowMany(recorded, C) - torn
  IN  /\ whole => kept >= due
      /\ ~whole => kept >= due + 1
      /\ ~whole /\ Last(lines) \in C => kept >= due + 2

Slack ==
  /\ ~ended => file # <<>>
  /\ \A C \in SUBSET Lines(Tags) : SlackOf(file, written, ended, tears, C)

LEMMA SlackInit == Init => Slack
  <1>. SUFFICES ASSUME Init
                PROVE  Slack
    OBVIOUS
  <1>1. file = <<>> /\ written = <<>> /\ ended = TRUE /\ tears = 0 /\ <<>> \in Seq({})
    BY EmptySeq DEF Init
  <1>2. \A C : HowMany(<<>>, C) \in Nat
    BY <1>1, HowManyIs
  <1>3. \A C : SlackOf(<<>>, <<>>, TRUE, 0, C)
    BY <1>2 DEF SlackOf
  <1>4. QED
    BY <1>1, <1>3 DEF Slack

\* A put that returns.
LEMMA SlackPut ==
  ASSUME TypeOK, Slack, NEW line \in Lines(Tags)
  PROVE  \A C \in SUBSET Lines(Tags) :
           SlackOf(Extended(file, line), Append(written, line), TRUE, tears, C)
  <1>. SUFFICES ASSUME NEW C \in SUBSET Lines(Tags)
                PROVE  SlackOf(Extended(file, line), Append(written, line), TRUE, tears, C)
    OBVIOUS
  <1>. DEFINE g == HowMany(file, C)
              h == HowMany(Extended(file, line), C)
              w == HowMany(written, C)
              v == HowMany(Append(written, line), C)
  <1>1. Corrupt \notin C /\ line \in AnyLine
    BY LineFacts DEF AnyLine
  <1>2. written \in Seq(Lines(Tags)) /\ tears \in Nat /\ SlackOf(file, written, ended, tears, C)
    BY DEF TypeOK, Slack
  <1>3. w \in Nat /\ (line \in C => v = w + 1) /\ (line \notin C => v = w)
    <2>1. w \in Nat
      BY <1>2, HowManyIs
    <2>2. (line \in C => v = w + 1) /\ (line \notin C => v = w)
      BY <1>2, HowManyAppend
    <2>3. QED
      BY <2>1, <2>2
  <1>4. /\ g \in Nat /\ h \in Nat
        /\ ended => /\ line \in C => h = g + 1
                    /\ line \notin C => h = g
        /\ ~ended => /\ Last(file) \in C => h = g - 1
                     /\ Last(file) \notin C => h = g
    BY <1>1, ExtendedCounts DEF Slack
  <1>5. /\ ended => g >= w - tears
        /\ ~ended => g >= w - tears + 1
        /\ ~ended /\ Last(file) \in C => g >= w - tears + 2
    BY <1>2 DEF SlackOf
  <1>. HIDE DEF g, h, w, v
  <1>6. h >= v - tears
    <2>1. CASE ended
      BY <1>2, <1>3, <1>4, <1>5, <2>1
    <2>2. CASE ~ended
      BY <1>2, <1>3, <1>4, <1>5, <2>2
    <2>3. QED
      BY <2>1, <2>2
  <1>7. QED
    BY <1>6 DEF SlackOf, h, v

\* An append that is cut short.
LEMMA SlackTear ==
  ASSUME TypeOK, Slack, NEW line \in AnyLine
  PROVE  /\ Extended(file, line) # <<>>
         /\ \A C \in SUBSET Lines(Tags) :
              SlackOf(Extended(file, line), written, FALSE, tears + 1, C)
  <1>1. Extended(file, line) # <<>>
    <2>1. Corrupt \notin {}
      OBVIOUS
    <2>2. QED
      BY <2>1, ExtendedCounts DEF Slack
  <1>2. ASSUME NEW C \in SUBSET Lines(Tags)
        PROVE  SlackOf(Extended(file, line), written, FALSE, tears + 1, C)
    <2>. DEFINE e == Extended(file, line)
                g == HowMany(file, C)
                h == HowMany(e, C)
                w == HowMany(written, C)
    <2>1. Corrupt \notin C
      BY LineFacts
    <2>2. written \in Seq(Lines(Tags)) /\ tears \in Nat /\ SlackOf(file, written, ended, tears, C)
      BY DEF TypeOK, Slack
    <2>3. w \in Nat
      BY <2>2, HowManyIs
    <2>4. /\ g \in Nat /\ h \in Nat
          /\ ended => /\ line \in C => h = g + 1
                      /\ line \notin C => h = g
                      /\ Last(e) = line
          /\ ~ended => /\ Last(file) \in C => h = g - 1
                       /\ Last(file) \notin C => h = g
                       /\ Last(e) = Corrupt
      BY <2>1, ExtendedCounts DEF Slack
    <2>5. /\ ended => g >= w - tears
          /\ ~ended => g >= w - tears + 1
          /\ ~ended /\ Last(file) \in C => g >= w - tears + 2
      BY <2>2 DEF SlackOf
    <2>. HIDE DEF e, g, h, w
    <2>6. h >= w - (tears + 1) + 1 /\ (Last(e) \in C => h >= w - (tears + 1) + 2)
      <3>1. CASE ended
        BY <2>2, <2>3, <2>4, <2>5, <3>1
      <3>2. CASE ~ended
        BY <2>1, <2>2, <2>3, <2>4, <2>5, <3>2
      <3>3. QED
        BY <3>1, <3>2
    <2>7. QED
      BY <2>6 DEF SlackOf, e, h, w
  <1>3. QED
    BY <1>1, <1>2

LEMMA SlackStep == TypeOK /\ Slack /\ [Next]_vars => Slack'
  <1>. SUFFICES ASSUME TypeOK, Slack, [Next]_vars
                PROVE  Slack'
    OBVIOUS
  <1>1. \A tag \in Tags, value \in Values :
          Line(tag, value) \in AnyLine /\ Line(tag, value) \in Lines(Tags) /\ Corrupt \in AnyLine
    BY DEF Line, Lines, TypeOK, AnyLine
  <1>2. CASE UNCHANGED <<file, ended, written, tears>>
    <2>1. ended' = ended /\ file' = file /\ written' = written /\ tears' = tears
      BY <1>2
    <2>2. QED
      BY <2>1 DEF Slack
  <1>3. ASSUME NEW tag \in Tags, NEW value \in Values, Put(tag, value)
        PROVE  Slack'
    <2>1. /\ file' = Extended(file, Line(tag, value)) /\ ended' = TRUE
          /\ written' = Append(written, Line(tag, value)) /\ tears' = tears
      BY <1>3 DEF Put
    <2>2. \A C \in SUBSET Lines(Tags) : SlackOf(file', written', ended', tears', C)
      BY <1>1, <2>1, SlackPut
    <2>3. QED
      BY <2>1, <2>2 DEF Slack
  <1>4. ASSUME NEW line \in AnyLine, file' = Extended(file, line), ended' = FALSE,
               tears' = tears + 1, written' = written
        PROVE  Slack'
    <2>1. file' # <<>> /\ \A C \in SUBSET Lines(Tags) : SlackOf(file', written', ended', tears', C)
      BY <1>4, SlackTear
    <2>2. QED
      BY <2>1 DEF Slack
  <1>5. ASSUME NEW tag \in Tags, NEW value \in Values, PutRaises(tag, value)
        PROVE  Slack'
    <2>1. CASE UNCHANGED <<file, ended, tears>>
      BY <1>2, <1>5, <2>1 DEF PutRaises
    <2>2. CASE /\ \E rest \in {Corrupt, Line(tag, value)} : file' = Extended(file, rest)
               /\ ended' = FALSE /\ tears' = tears + 1
      BY <1>1, <1>4, <1>5, <2>2 DEF PutRaises
    <2>3. QED
      BY <1>5, <2>1, <2>2 DEF PutRaises
  <1>6. ASSUME NEW tag \in Tags, NEW value \in Values, DieInPut(tag, value)
        PROVE  Slack'
    BY <1>1, <1>4, <1>6 DEF DieInPut
  <1>7. CASE Restart \/ Tick \/ ClockSetBack \/ UNCHANGED vars
    BY <1>2, <1>7 DEF Restart, Tick, ClockSetBack, vars
  <1>8. QED
    BY <1>3, <1>5, <1>6, <1>7 DEF Next

\* Every line that is torn is paid for, whatever the records that are counted.
THEOREM SlackAlways == Spec => []Slack
  <1>1. Init => Slack
    BY SlackInit
  <1>2. TypeOK /\ Slack /\ [Next]_vars => Slack'
    BY SlackStep
  <1>3. QED
    BY <1>1, <1>2, HistoryTyped, PTL DEF Spec

\* A torn line costs at most one record whose put returned, whatever is torn, in
\* whatever order, and however often the process restarts in between.
THEOREM LossIsBounded == Spec => []LossBounded
  <1>1. TypeOK /\ Slack => LossBounded
    <2>. SUFFICES ASSUME TypeOK, Slack
                  PROVE  LossBounded
      OBVIOUS
    <2>. DEFINE C == Lines(Tags)
                g == HowMany(file, C)
                w == HowMany(written, C)
    <2>1. file \in Seq(AnyLine) /\ written \in Seq(Lines(Tags)) /\ tears \in Nat
      BY DEF TypeOK, AnyLine
    <2>2. SlackOf(file, written, ended, tears, C)
      BY DEF Slack
    <2>3. g \in Nat /\ w \in Nat
      BY <2>1, HowManyIs
    <2>4. g >= w - tears
      <3>. HIDE DEF C
      <3>1. ended \in BOOLEAN
        BY DEF TypeOK
      <3>2. CASE ended
        BY <2>2, <3>2 DEF SlackOf
      <3>3. CASE ~ended
        BY <2>1, <2>2, <2>3, <3>3 DEF SlackOf
      <3>4. QED
        BY <3>2, <3>3
    <2>5. w = Len(written)
      <3>1. \A k \in 1..Len(written) : written[k] \in C
        BY <2>1, ElementOfSeq
      <3>2. QED
        BY <2>1, <3>1, HowManyIs
    <2>6. g = Cardinality({i \in DOMAIN file : file[i] # Corrupt})
      <3>1. DOMAIN file = 1..Len(file) /\ \A i \in 1..Len(file) : file[i] \in AnyLine
        BY <2>1, LenProperties, ElementOfSeq
      <3>2. \A i \in DOMAIN file : file[i] \in C <=> file[i] # Corrupt
        BY <3>1, LineFacts DEF AnyLine
      <3>3. {i \in DOMAIN file : file[i] \in C} = {i \in DOMAIN file : file[i] # Corrupt}
        BY <3>2
      <3>4. QED
        BY <3>3 DEF HowMany
    <2>7. QED
      BY <2>4, <2>5, <2>6 DEF LossBounded
  <1>2. QED
    BY <1>1, HistoryTyped, SlackAlways, PTL

-----------------------------------------------------------------------------
(* What memory holds is what was recorded *)

\* The part of a bucket that pruning keeps.
Kept(b, now) == {k \in DOMAIN b : b[k].ts >= now - Retention \/ k = Len(b)}

\* Putting a record into a bucket pruned at its last record is pruning everything
\* that was ever put.
LEMMA PrunedAgain ==
  ASSUME NEW S, NEW b \in Seq(S), Timed(b), NEW line \in S, line.ts \in Int,
         b # <<>> => Last(b).ts <= line.ts
  PROVE  Pruned(Append(Replay(b), line), line.ts) = Pruned(Append(b, line), line.ts)
  <1>1. CASE b = <<>>
    BY <1>1 DEF Replay
  <1>2. CASE b # <<>>
    <2>. DEFINE n == Len(b)
                now == line.ts
                t0 == Last(b).ts
                c == Append(b, line)
                P == Kept(b, t0)
                X == P \cup {n + 1}
                Q == Kept(c, now)
                at == Ascending(X, n + 1)
                u == Selected(c, X)
                R == Kept(u, now)
    <2>1. n \in Nat /\ n \in 1..n /\ DOMAIN b = 1..n /\ \A k \in 1..n : b[k].ts \in Int
      BY <1>2, LastIs, LenProperties DEF Timed
    <2>2. t0 = b[n].ts /\ t0 \in Int /\ t0 <= now /\ now \in Int
      BY <1>2, <2>1, LastIs
    <2>3. /\ c \in Seq(S) /\ Len(c) = n + 1 /\ DOMAIN c = 1..(n + 1)
          /\ c[n + 1] = line /\ \A k \in 1..n : c[k] = b[k]
      <3>. HIDE DEF n
      <3>1. Append(b, line) \in Seq(S) /\ Len(Append(b, line)) = n + 1
        BY AppendProperties DEF n
      <3>2. /\ Append(b, line)[n + 1] = line
            /\ \A k \in 1..n : Append(b, line)[k] = b[k]
        BY <2>1, AppendProperties DEF n
      <3>3. DOMAIN Append(b, line) = 1..(n + 1)
        BY <3>1, LenProperties
      <3>4. QED
        BY <3>1, <3>2, <3>3
    <2>4. Replay(b) = Selected(b, P)
      BY <1>2 DEF Replay, Pruned, Kept
    <2>5. Pruned(c, now) = Selected(c, Q)
      BY DEF Pruned, Kept
    <2>6. Append(Selected(b, P), line) = u
      <3>1. u = Append(Selected(b, X), line)
        <4>. HIDE DEF X
        <4>1. Selected(Append(b, line), X) =
                IF Len(b) + 1 \in X THEN Append(Selected(b, X), line) ELSE Selected(b, X)
          BY SelectedAppend
        <4>2. Len(b) + 1 \in X
          BY DEF X
        <4>3. QED
          BY <4>1, <4>2
      <3>2. P \cap (1..Len(b)) = X \cap (1..Len(b))
        <4>. HIDE DEF P
        <4>1. QED
          BY <2>1
      <3>3. Selected(b, P) = Selected(b, X)
        <4>. HIDE DEF P, X
        <4>1. QED
          BY <3>2, SelectedSame
      <3>4. QED
        BY <3>1, <3>3
    <2>7. Pruned(u, now) = Selected(u, R)
      BY DEF Pruned, Kept
    <2>8. Enumerates(at, X, n + 1)
      <3>. HIDE DEF X, n
      <3>1. n + 1 \in Nat
        BY <2>1
      <3>2. QED
        BY <3>1, AscendingIs
    <2>9. /\ Len(at) \in Nat /\ Len(at) \in 1..Len(at)
          /\ \A k \in 1..Len(at) : at[k] \in X /\ at[k] \in 1..(n + 1)
          /\ \A k \in 1..Len(at) : k = Len(at) <=> at[k] = n + 1
      <3>1. n + 1 \in Nat \ {0} /\ n + 1 \in X
        BY <2>1
      <3>. HIDE DEF at, X, n
      <3>2. QED
        BY <2>8, <3>1, LastPicked
    <2>10. Len(u) = Len(at) /\ DOMAIN u = 1..Len(at) /\ \A k \in 1..Len(at) : u[k] = c[at[k]]
      <3>. HIDE DEF at, X, c
      <3>1. /\ Len(Selected(c, X)) = Len(at)
            /\ \A k \in 1..Len(at) : Selected(c, X)[k] = c[at[k]]
            /\ Selected(c, X) = [k \in 1..Len(at) |-> c[at[k]]]
        BY <2>3, <2>8, SelectedBy
      <3>2. QED
        BY <3>1
    <2>11. \A m \in Q \cap (1..Len(c)) : m \in X
      <3>. HIDE DEF c, n
      <3>1. ASSUME NEW m \in Q \cap (1..Len(c)), m # n + 1
            PROVE  m \in P
        <4>1. m \in 1..n /\ c[m].ts >= now - Retention /\ c[m] = b[m]
          BY <2>1, <2>3, <3>1 DEF Kept
        <4>2. b[m].ts >= t0 - Retention
          <5>. HIDE DEF t0, now
          <5>1. QED
            BY <2>1, <2>2, <4>1, RetentionAssumption
        <4>3. QED
          BY <2>1, <4>1, <4>2 DEF Kept
      <3>2. QED
        BY <3>1
    <2>12. \A k \in 1..Len(at) : k \in R <=> at[k] \in Q
      <3>. SUFFICES ASSUME NEW k \in 1..Len(at)
                    PROVE  k \in R <=> at[k] \in Q
        OBVIOUS
      <3>. HIDE DEF at, u, c, n, now, X
      <3>1. k \in R <=> u[k].ts >= now - Retention \/ k = Len(at)
        BY <2>10 DEF Kept
      <3>2. at[k] \in Q <=> c[at[k]].ts >= now - Retention \/ at[k] = n + 1
        BY <2>3, <2>9 DEF Kept
      <3>3. QED
        BY <2>9, <2>10, <3>1, <3>2
    <2>13. Selected(u, R) = Selected(c, Q)
      <3>. HIDE DEF at, X, Q, R, c
      <3>1. Enumerates(at, X, Len(c))
        BY <2>3, <2>8
      <3>2. QED
        BY <2>3, <2>11, <2>12, <3>1, SelectedTwice
    <2>14. QED
      <3>. HIDE DEF u, c, P, Q, R, now
      <3>1. Pruned(Append(Replay(b), line), now) = Pruned(u, now)
        BY <2>4, <2>6
      <3>2. QED
        BY <2>5, <2>7, <2>13, <3>1 DEF c, now
  <1>3. QED
    BY <1>1, <1>2

\* A window no longer than the retention time is the same in a replayed bucket as in
\* all that was put.
LEMMA WindowKept ==
  ASSUME NEW S, NEW b \in Seq(S), Timed(b), NEW since \in Int,
         b # <<>> => Last(b).ts - Retention <= since
  PROVE  Window(Replay(b), since) = Window(b, since)
  <1>1. CASE b = <<>>
    BY <1>1 DEF Replay
  <1>2. CASE b # <<>>
    <2>. DEFINE n == Len(b)
                t0 == Last(b).ts
                P == Kept(b, t0)
                Q == {k \in DOMAIN b : b[k].ts >= since}
                at == Ascending(P, n)
                u == Selected(b, P)
                R == {k \in DOMAIN u : u[k].ts >= since}
    <2>1. n \in Nat /\ n \in 1..n /\ DOMAIN b = 1..n /\ \A k \in 1..n : b[k].ts \in Int
      BY <1>2, LastIs, LenProperties DEF Timed
    <2>2. t0 \in Int /\ t0 - Retention <= since
      BY <1>2, <2>1, LastIs
    <2>3. Enumerates(at, P, n)
      <3>. HIDE DEF P, n
      <3>1. QED
        BY <2>1, AscendingIs
    <2>4. /\ Len(at) \in Nat /\ \A k \in 1..Len(at) : at[k] \in P /\ at[k] \in 1..n
          /\ u = [k \in 1..Len(at) |-> b[at[k]]]
      <3>. HIDE DEF P, at
      <3>1. QED
        BY <2>3, SelectedBy
    <2>5. \A m \in Q \cap (1..n) : m \in P
      <3>. HIDE DEF n, t0
      <3>1. QED
        BY <2>1, <2>2, RetentionAssumption DEF Kept
    <2>6. \A k \in 1..Len(at) : k \in R <=> at[k] \in Q
      <3>. HIDE DEF P, at, n, u
      <3>1. QED
        BY <2>1, <2>4
    <2>7. Selected(u, R) = Selected(b, Q)
      <3>. HIDE DEF P, Q, R, at
      <3>1. QED
        BY <2>3, <2>5, <2>6, SelectedTwice
    <2>8. Replay(b) = u
      BY <1>2 DEF Replay, Pruned, Kept
    <2>9. QED
      <3>. HIDE DEF u
      <3>1. Window(u, since) = Selected(u, R) /\ Window(b, since) = Selected(b, Q)
        BY DEF Window
      <3>2. QED
        BY <2>7, <2>8, <3>1
  <1>3. QED
    BY <1>1, <1>2

\* The lines that can be read are in the order of time, and none is from later than now.
ReadableInTime(lines, now) ==
  /\ \A i, j \in 1..Len(lines) :
       i < j /\ lines[i] # Corrupt /\ lines[j] # Corrupt => lines[i].ts <= lines[j].ts
  /\ \A i \in 1..Len(lines) : lines[i] # Corrupt => lines[i].ts <= now

\* So are then the records of a tag.
LEMMA TaggedInTime ==
  ASSUME NEW lines \in Seq(AnyLine), NEW tag \in Tags, NEW now, ReadableInTime(lines, now)
  PROVE  LET b == OfTag(lines, tag)
         IN  InTime(b) /\ \A k \in 1..Len(b) : b[k].ts <= now
  <1>. DEFINE P == {k \in DOMAIN lines : lines[k] # Corrupt /\ lines[k].tag = tag}
              u == Selected(lines, P)
              at == Ascending(P, Len(lines))
  <1>1. Len(lines) \in Nat
    BY LenProperties
  <1>. HIDE DEF P
  <1>2. Enumerates(at, P, Len(lines))
    BY <1>1, AscendingIs
  <1>. HIDE DEF at
  <1>3. /\ Len(u) = Len(at)
        /\ \A k \in 1..Len(at) : at[k] \in P /\ at[k] \in 1..Len(lines) /\ u[k] = lines[at[k]]
    BY <1>2, SelectedBy
  <1>4. /\ \A i, j \in 1..Len(at) : i < j => at[i] < at[j]
        /\ \A k \in 1..Len(at) : lines[at[k]] # Corrupt
    BY <1>2, <1>3 DEF Enumerates, Increasing, P
  <1>. HIDE DEF u
  <1>5. InTime(u)
    BY <1>3, <1>4 DEF InTime, ReadableInTime
  <1>6. \A k \in 1..Len(u) : u[k].ts <= now
    BY <1>3, <1>4 DEF ReadableInTime
  <1>7. u = OfTag(lines, tag)
    BY DEF u, P, OfTag
  <1>8. QED
    BY <1>5, <1>6, <1>7

\* One more record is one more record of its tag.
LEMMA TaggedAppend ==
  ASSUME NEW lines \in Seq(AnyLine), NEW tag \in Tags, NEW line \in Lines(Tags)
  PROVE  OfTag(Append(lines, line), tag) =
           IF line.tag = tag THEN Append(OfTag(lines, tag), line) ELSE OfTag(lines, tag)
  <1>. DEFINE n == Len(lines)
              c == Append(lines, line)
              P == {k \in DOMAIN lines : lines[k] # Corrupt /\ lines[k].tag = tag}
              Q == {k \in DOMAIN c : c[k] # Corrupt /\ c[k].tag = tag}
  <1>1. n \in Nat /\ DOMAIN lines = 1..n
    BY LenProperties
  <1>2. line # Corrupt /\ line \in AnyLine
    BY LineFacts DEF AnyLine
  <1>. HIDE DEF n
  <1>3. /\ DOMAIN c = 1..(n + 1) /\ c[n + 1] = line /\ \A k \in 1..n : c[k] = lines[k]
    <2>1. Append(lines, line) \in Seq(AnyLine) /\ Len(Append(lines, line)) = n + 1
      BY <1>2, AppendProperties DEF n
    <2>2. /\ Append(lines, line)[n + 1] = line
          /\ \A k \in 1..n : Append(lines, line)[k] = lines[k]
      BY <1>1, <1>2, AppendProperties DEF n
    <2>3. DOMAIN Append(lines, line) = 1..(n + 1)
      BY <2>1, LenProperties
    <2>4. QED
      BY <2>1, <2>2, <2>3
  <1>4. OfTag(lines, tag) = Selected(lines, P) /\ OfTag(c, tag) = Selected(c, Q)
    BY DEF OfTag
  <1>5. (n + 1 \in Q) = (line.tag = tag) /\ Q \cap (1..n) = P \cap (1..n)
    <2>. HIDE DEF c
    <2>1. QED
      BY <1>1, <1>2, <1>3
  <1>6. Selected(c, Q) = IF n + 1 \in Q THEN Append(Selected(lines, Q), line) ELSE Selected(lines, Q)
    <2>. HIDE DEF Q
    <2>1. QED
      BY <1>2, SelectedAppend DEF n
  <1>7. Selected(lines, Q) = Selected(lines, P)
    <2>. HIDE DEF P, Q
    <2>1. QED
      BY <1>5, SelectedSame DEF n
  <1>8. QED
    <2>. HIDE DEF P, Q
    <2>1. QED
      BY <1>4, <1>5, <1>6, <1>7

-----------------------------------------------------------------------------
(* The history is exact while nothing has failed *)

\* The file is what was recorded, in the order of time, and memory is its replay.
FaithfulAt(m, lines, w, now) ==
  /\ lines = w
  /\ InTime(w) /\ \A k \in 1..Len(w) : w[k].ts <= now
  /\ \A tag \in Tags : m[tag] = Replay(OfTag(w, tag))

Faithful == ended /\ FaithfulAt(memory, file, written, clock)

Exact == intact => Faithful

\* What is known of a tag's records while the history is faithful.
LEMMA RecordedIs ==
  ASSUME TypeOK, Faithful, NEW tag \in Tags
  PROVE  LET b == OfTag(written, tag)
         IN  /\ b \in Seq(Lines({tag})) /\ Timed(b) /\ InTime(b)
             /\ b # <<>> => Last(b) \in Lines({tag}) /\ Last(b).ts <= clock
  <1>. DEFINE b == OfTag(written, tag)
  <1>1. written \in Seq(AnyLine)
    BY DEF TypeOK, AnyLine
  <1>2. b \in Seq(Lines({tag}))
    BY <1>1, OfTagTyped
  <1>3. InTime(b) /\ \A k \in 1..Len(b) : b[k].ts <= clock
    <2>1. ReadableInTime(written, clock)
      BY DEF Faithful, FaithfulAt, InTime, ReadableInTime
    <2>2. QED
      BY <1>1, <2>1, TaggedInTime
  <1>. HIDE DEF b
  <1>4. Timed(b)
    BY <1>2, TaggedTimed
  <1>5. ASSUME b # <<>>
        PROVE  Last(b) \in Lines({tag}) /\ Last(b).ts <= clock
    BY <1>2, <1>3, <1>5, LastIs
  <1>6. QED
    BY <1>2, <1>3, <1>4, <1>5 DEF b

LEMMA ExactInit == Init => Exact
  <1>. SUFFICES ASSUME Init
                PROVE  Faithful
    BY DEF Exact
  <1>1. written = <<>> /\ Len(written) = 0 /\ written \in Seq(AnyLine)
    BY EmptySeq DEF Init
  <1>2. ASSUME NEW tag \in Tags
        PROVE  Replay(OfTag(written, tag)) = <<>>
    <2>1. \A P : Selected(written, P) = <<>>
      <3>. SUFFICES ASSUME NEW P
                    PROVE  Selected(written, P) = <<>>
        OBVIOUS
      <3>1. Enumerates(<<>>, P, Len(written))
        BY <1>1, EnumeratesNone
      <3>2. Len(Selected(written, P)) = 0 /\ Selected(written, P) \in Seq(AnyLine)
        BY <1>1, <3>1, EmptySeq, SelectedBy, SelectedIs
      <3>. DEFINE u == Selected(written, P)
      <3>. HIDE DEF u
      <3>3. u \in Seq(AnyLine) /\ Len(u) = 0
        BY <3>2 DEF u
      <3>4. u = <<>>
        BY <3>3, EmptySeq
      <3>5. QED
        BY <3>4 DEF u
    <2>2. QED
      BY <2>1 DEF OfTag, Replay
  <1>3. QED
    BY <1>1, <1>2 DEF Init, Faithful, FaithfulAt, InTime

LEMMA ExactStep == TypeOK /\ TypeOK' /\ Exact /\ [Next]_vars => Exact'
  <1>. SUFFICES ASSUME TypeOK, TypeOK', Exact, [Next]_vars, intact'
                PROVE  Faithful'
    BY DEF Exact
  <1>1. ASSUME NEW tag \in Tags, NEW value \in Values, PutRaises(tag, value) \/ DieInPut(tag, value)
        PROVE  FALSE
    BY <1>1 DEF PutRaises, DieInPut
  <1>2. CASE ClockSetBack
    BY <1>2 DEF ClockSetBack
  <1>3. ASSUME UNCHANGED <<memory, file, ended, written, intact>>, clock' \in Nat, clock <= clock'
        PROVE  Faithful'
    <2>1. Faithful /\ clock \in Nat /\ written \in Seq(Lines(Tags))
      BY <1>3 DEF Exact, TypeOK
    <2>2. \A k \in 1..Len(written) : written[k].ts <= clock'
      <3>1. \A k \in 1..Len(written) : written[k].ts \in Nat /\ written[k].ts <= clock
        BY <2>1, ElementOfSeq, LineFacts DEF Faithful, FaithfulAt
      <3>2. QED
        BY <1>3, <2>1, <3>1
    <2>3. FaithfulAt(memory, file, written, clock')
      BY <2>1, <2>2 DEF Faithful, FaithfulAt
    <2>4. ended /\ ended' = ended /\ memory' = memory /\ file' = file /\ written' = written
      BY <1>3, <2>1, Zenon DEF Faithful
    <2>5. FaithfulAt(memory', file', written', clock') /\ ended'
      BY <2>3, <2>4
    <2>6. QED
      BY <2>5 DEF Faithful
  <1>4. CASE Tick \/ UNCHANGED vars
    <2>. DEFINE c == clock'
    <2>1. c \in Nat /\ clock <= c
      <3>1. clock \in Nat
        BY DEF TypeOK
      <3>2. c = clock \/ c = clock + 1
        BY <1>4 DEF Tick, vars
      <3>. HIDE DEF c
      <3>3. QED
        BY <3>1, <3>2
    <2>2. QED
      BY <1>3, <1>4, <2>1 DEF Tick, vars
  <1>5. CASE Restart
    <2>1. Faithful /\ UNCHANGED <<clock, file, ended, written>>
      BY <1>5 DEF Exact, Restart
    <2>2. ASSUME NEW tag \in Tags
          PROVE  memory'[tag] = Replay(OfTag(written, tag))
      <3>1. file \in Seq(AnyLine) /\ file = written /\ memory' = Loaded(file)
        BY <1>5, <2>1 DEF TypeOK, AnyLine, Restart, Faithful, FaithfulAt
      <3>2. memory'[tag] = Replay(SortedByTs(OfTag(written, tag)))
        BY <3>1, LoadedIs
      <3>. DEFINE b == OfTag(written, tag)
      <3>3. b \in Seq(Lines({tag})) /\ Timed(b) /\ InTime(b)
        BY <2>1, RecordedIs
      <3>. HIDE DEF b
      <3>4. SortedByTs(b) = b
        BY <3>3, SortedIs
      <3>5. QED
        BY <3>2, <3>4 DEF b
    <2>3. FaithfulAt(memory', file', written', clock')
      BY <2>1, <2>2 DEF Faithful, FaithfulAt
    <2>4. QED
      BY <2>1, <2>3 DEF Faithful
  <1>6. ASSUME NEW tag \in Tags, NEW value \in Values, Put(tag, value)
        PROVE  Faithful'
    <2>. DEFINE line == Line(tag, value)
                w == Append(written, line)
                n == Len(written)
    <2>1. Faithful /\ intact' = intact
      BY <1>6 DEF Put, Exact
    <2>2. /\ memory' = [memory EXCEPT ![tag] = Pruned(Append(memory[tag], line), clock)]
          /\ file' = Extended(file, line) /\ ended' = TRUE /\ written' = w /\ clock' = clock
      BY <1>6 DEF Put
    <2>3. line \in Lines(Tags) /\ line \in Lines({tag}) /\ line.ts = clock /\ line.tag = tag /\ clock \in Nat
      BY DEF Line, Lines, TypeOK
    <2>. HIDE DEF line
    <2>4. written \in Seq(Lines(Tags)) /\ written \in Seq(AnyLine) /\ n \in Nat
      BY LenProperties DEF TypeOK, AnyLine
    <2>5. file' = w
      BY <2>1, <2>2 DEF Extended, Faithful, FaithfulAt
    <2>6. /\ Len(w) = n + 1 /\ w[n + 1] = line /\ \A k \in 1..n : w[k] = written[k]
      BY <2>3, <2>4, AppendProperties
    <2>. HIDE DEF n, w
    <2>7. \A k \in 1..n : written[k].ts <= clock /\ written[k].ts \in Nat
      BY <2>1, <2>4, ElementOfSeq, LineFacts DEF Faithful, FaithfulAt, n
    <2>8. \A k \in 1..Len(w) : w[k].ts <= clock
      BY <2>3, <2>4, <2>6, <2>7
    <2>9. InTime(w)
      <3>1. \A i, j \in 1..n : i < j => written[i].ts <= written[j].ts
        BY <2>1 DEF Faithful, FaithfulAt, InTime, n
      <3>2. QED
        BY <2>3, <2>4, <2>6, <2>7, <3>1 DEF InTime
    <2>10. ASSUME NEW t \in Tags
           PROVE  memory'[t] = Replay(OfTag(w, t))
      <3>. DEFINE b == OfTag(written, t)
      <3>1. OfTag(w, t) = IF tag = t THEN Append(b, line) ELSE b
        BY <2>3, <2>4, TaggedAppend DEF w
      <3>2. memory[t] = Replay(b)
        BY <2>1 DEF Faithful, FaithfulAt
      <3>3. DOMAIN memory = Tags
        BY DEF TypeOK
      <3>4. CASE t # tag
        BY <2>2, <3>1, <3>2, <3>3, <3>4
      <3>5. CASE t = tag
        <4>1. b \in Seq(Lines({t})) /\ Timed(b) /\ (b # <<>> => Last(b).ts <= clock)
          BY <2>1, RecordedIs
        <4>. HIDE DEF b
        <4>2. Pruned(Append(Replay(b), line), clock) = Pruned(Append(b, line), clock)
          BY <2>3, <3>5, <4>1, PrunedAgain
        <4>3. Append(b, line) # <<>> /\ Last(Append(b, line)) = line
          <5>. DEFINE c == Append(b, line)
          <5>1. /\ c \in Seq(Lines({t})) /\ Len(c) = Len(b) + 1 /\ c[Len(b) + 1] = line
                /\ Len(b) \in Nat
            BY <2>3, <3>5, <4>1, AppendProperties, LenProperties
          <5>. HIDE DEF c
          <5>2. c # <<>> /\ Last(c) = line
            BY <5>1, EmptySeq DEF Last
          <5>3. QED
            BY <5>2 DEF c
        <4>4. Replay(Append(b, line)) = Pruned(Append(b, line), clock)
          BY <2>3, <4>3 DEF Replay
        <4>5. QED
          BY <2>2, <3>1, <3>2, <3>3, <3>5, <4>2, <4>4
      <3>6. QED
        BY <3>4, <3>5
    <2>11. FaithfulAt(memory', file', written', clock')
      BY <2>2, <2>5, <2>8, <2>9, <2>10 DEF FaithfulAt
    <2>12. QED
      BY <2>2, <2>11 DEF Faithful
  <1>7. QED
    BY <1>1, <1>2, <1>4, <1>5, <1>6 DEF Next

\* While nothing has failed, memory is what a restart would make of the file.
THEOREM ExactAlways == Spec => []Exact
  <1>1. Init => Exact
    BY ExactInit
  <1>2. TypeOK /\ TypeOK' /\ Exact /\ [Next]_vars => Exact'
    BY ExactStep
  <1>3. QED
    BY <1>1, <1>2, HistoryTyped, PTL DEF Spec

\* As long as the clock has not gone back and no append has failed, the last record of
\* a tag and every window of at most the retention time are exactly what was recorded,
\* restarts or not.
THEOREM HistoryIsExact == Spec => []HistoryExact
  <1>1. TypeOK /\ Exact => HistoryExact
    <2>. SUFFICES ASSUME TypeOK, Exact, intact, NEW tag \in Tags
                  PROVE  LET recorded == OfTag(written, tag)
                         IN  /\ (memory[tag] = <<>>) = (recorded = <<>>)
                             /\ recorded # <<>> => Last(memory[tag]) = Last(recorded)
                             /\ \A since \in (clock - Retention)..clock :
                                  Window(memory[tag], since) = Window(recorded, since)
      BY DEF HistoryExact
    <2>. DEFINE b == OfTag(written, tag)
    <2>1. Faithful /\ clock \in Nat
      BY DEF Exact, TypeOK
    <2>2. memory[tag] = Replay(b)
      BY <2>1 DEF Faithful, FaithfulAt
    <2>3. /\ b \in Seq(Lines({tag})) /\ Timed(b)
          /\ b # <<>> => Last(b) \in Lines({tag}) /\ Last(b).ts <= clock
      BY <2>1, RecordedIs
    <2>. HIDE DEF b
    <2>4. ASSUME b # <<>>
          PROVE  Replay(b) # <<>> /\ Last(Replay(b)) = Last(b)
      <3>. DEFINE p == Pruned(b, Last(b).ts)
      <3>1. Len(p) >= 1 /\ Last(p) = Last(b)
        BY <2>3, <2>4, PrunedIs
      <3>. HIDE DEF p
      <3>2. p # <<>>
        BY <3>1, EmptySeq
      <3>3. QED
        BY <2>4, <3>1, <3>2 DEF Replay, p
    <2>5. ASSUME b = <<>>
          PROVE  Replay(b) = <<>>
      BY <2>5 DEF Replay
    <2>6. ASSUME NEW since \in (clock - Retention)..clock
          PROVE  Window(Replay(b), since) = Window(b, since)
      <3>1. since \in Int /\ clock - Retention <= since
        BY <2>1, RetentionAssumption
      <3>2. b # <<>> => Last(b).ts - Retention <= since
        BY <2>1, <2>3, <3>1, LineFacts, RetentionAssumption
      <3>3. QED
        BY <2>3, <3>1, <3>2, WindowKept
    <2>7. QED
      BY <2>2, <2>4, <2>5, <2>6 DEF b
  <1>2. QED
    BY <1>1, HistoryTyped, ExactAlways, PTL

-----------------------------------------------------------------------------
(* The limits: what a step does *)

LimitTyped ==
  /\ rule \in Rules
  /\ Asked
  /\ landed \in Seq(Lines(Tags))
  /\ steady \in BOOLEAN

\* The write lands, whatever becomes of its record.
LandStep(tag, value) ==
  /\ landed' = Append(landed, Line(tag, value))
  /\ pending' = {} /\ clock' = clock /\ rule' = rule /\ steady' = steady
  /\ Put(tag, value) \/ PutRaises(tag, value) \/ DieInPut(tag, value) \/ Restart

RebootStep == Restart /\ pending' = {} /\ rule' = rule /\ landed' = landed /\ steady' = steady

BackStep == ClockSetBack /\ steady' = FALSE /\ rule' = rule /\ landed' = landed /\ pending' = pending

\* Nothing but the clock and what is at the backend changes.
RestStep ==
  /\ memory' = memory /\ file' = file /\ ended' = ended /\ written' = written
  /\ tears' = tears /\ intact' = intact
  /\ rule' = rule /\ landed' = landed /\ steady' = steady
  /\ clock' = clock \/ clock' = clock + 1

LEMMA LimitCases ==
  ASSUME [LimitNext]_<<vars, limitVars>>
  PROVE  \/ \E write \in pending : LandStep(write.tag, write.value)
         \/ \E tag \in Tags, value \in Values : Admit(tag, value) /\ RestStep /\ clock' = clock
         \/ RestStep /\ pending' \in SUBSET pending
         \/ RebootStep
         \/ BackStep
  <1>1. CASE \E tag \in Tags, value \in Values : Admit(tag, value)
    <2>1. PICK tag \in Tags, value \in Values : Admit(tag, value)
      BY <1>1
    <2>2. RestStep /\ clock' = clock
      BY <2>1 DEF Admit, RestStep, vars
    <2>3. QED
      BY <2>1, <2>2
  <1>2. ASSUME NEW write \in pending, Record(write)
        PROVE  LandStep(write.tag, write.value)
    <2>1. clock' = clock
      BY <1>2 DEF Record, Put, PutRaises, DieInPut
    <2>2. QED
      BY <1>2, <2>1 DEF Record, Executed, LandStep
  <1>3. ASSUME NEW write \in pending, Refused(write)
        PROVE  RestStep /\ pending' \in SUBSET pending
    BY <1>3 DEF Refused, RestStep, vars
  <1>4. ASSUME NEW write \in pending, DieBeforePut(write)
        PROVE  LandStep(write.tag, write.value)
    <2>1. clock' = clock /\ Restart
      BY <1>4 DEF DieBeforePut, Restart
    <2>2. QED
      BY <1>4, <2>1 DEF DieBeforePut, Executed, LandStep
  <1>5. CASE Restart /\ pending' = {} /\ UNCHANGED <<rule, landed, steady>>
    BY <1>5 DEF RebootStep
  <1>6. CASE Tick /\ UNCHANGED limitVars
    BY <1>6 DEF Tick, RestStep, limitVars
  <1>7. CASE ClockSetBack /\ steady' = FALSE /\ UNCHANGED <<rule, pending, landed>>
    BY <1>7 DEF BackStep
  <1>8. CASE UNCHANGED <<vars, limitVars>>
    BY <1>8 DEF RestStep, vars, limitVars
  <1>9. QED
    BY <1>1, <1>2, <1>3, <1>4, <1>5, <1>6, <1>7, <1>8 DEF LimitNext

\* What Put, PutRaises, DieInPut and a restart do to what is observed.
LEMMA LandCases ==
  ASSUME TypeOK, NEW tag \in Tags, NEW value \in Values, LandStep(tag, value)
  PROVE  /\ Line(tag, value) \in Lines({tag}) /\ Line(tag, value) \in Lines(Tags)
         /\ Line(tag, value) \in AnyLine /\ Line(tag, value).ts = clock
         /\ Line(tag, value).tag = tag /\ Line(tag, value).value = value
         /\ \/ written' = Append(written, Line(tag, value)) /\ tears' = tears /\ intact' = intact
            \/ written' = written /\ tears' \in {tears, tears + 1}
         /\ \/ memory' = [memory EXCEPT ![tag] = Pruned(Append(memory[tag], Line(tag, value)), clock)]
            \/ memory' = Loaded(file') /\ written' = written
         /\ file' = file \/ \E line \in {Corrupt, Line(tag, value)} : file' = Extended(file, line)
  <1>1. /\ Line(tag, value) \in Lines({tag}) /\ Line(tag, value) \in Lines(Tags)
        /\ Line(tag, value) \in AnyLine /\ Line(tag, value).ts = clock
        /\ Line(tag, value).tag = tag /\ Line(tag, value).value = value
    BY DEF Line, Lines, TypeOK, AnyLine
  <1>2. CASE Put(tag, value)
    BY <1>1, <1>2 DEF Put
  <1>3. CASE PutRaises(tag, value)
    <2>1. \/ file' = file /\ tears' = tears
          \/ /\ \E rest \in {Corrupt, Line(tag, value)} : file' = Extended(file, rest)
             /\ tears' = tears + 1
      <3>1. CASE UNCHANGED <<file, ended, tears>>
        BY <3>1
      <3>2. CASE /\ \E rest \in {Corrupt, Line(tag, value)} : file' = Extended(file, rest)
                 /\ ended' = FALSE /\ tears' = tears + 1
        BY <3>2
      <3>3. QED
        BY <1>3, <3>1, <3>2 DEF PutRaises
    <2>2. written' = written
          /\ memory' = [memory EXCEPT ![tag] = Pruned(Append(memory[tag], Line(tag, value)), clock)]
      BY <1>3 DEF PutRaises
    <2>3. QED
      BY <1>1, <2>1, <2>2
  <1>4. CASE DieInPut(tag, value)
    BY <1>1, <1>4 DEF DieInPut
  <1>5. CASE Restart
    BY <1>1, <1>5 DEF Restart
  <1>6. QED
    BY <1>2, <1>3, <1>4, <1>5 DEF LandStep

LEMMA LimitTypedInit == LimitInit => LimitTyped
  <1>1. <<>> \in Seq(Lines(Tags))
    BY EmptySeq
  <1>2. QED
    BY <1>1 DEF LimitInit, LimitTyped, Asked

LEMMA LimitTypedStep ==
  TypeOK /\ LimitTyped /\ [LimitNext]_<<vars, limitVars>> => LimitTyped'
  <1>. SUFFICES ASSUME TypeOK, LimitTyped, [LimitNext]_<<vars, limitVars>>
                PROVE  LimitTyped'
    OBVIOUS
  <1>1. ASSUME NEW write \in pending, LandStep(write.tag, write.value)
        PROVE  LimitTyped'
    <2>1. write.tag \in Tags /\ write.value \in Values
      BY DEF LimitTyped, Asked
    <2>2. Line(write.tag, write.value) \in Lines(Tags)
      BY <1>1, <2>1, LandCases
    <2>3. landed' \in Seq(Lines(Tags))
      BY <1>1, <2>2, AppendProperties DEF LandStep, LimitTyped
    <2>4. rule' \in Rules /\ steady' \in BOOLEAN /\ pending' = {}
      BY <1>1 DEF LandStep, LimitTyped
    <2>5. QED
      BY <2>3, <2>4 DEF LimitTyped, Asked
  <1>2. ASSUME NEW tag \in Tags, NEW value \in Values, Admit(tag, value), RestStep
        PROVE  LimitTyped'
    <2>1. pending' \subseteq [tag : Tags, value : Values]
      BY <1>2 DEF Admit
    <2>2. QED
      BY <1>2, <2>1 DEF RestStep, LimitTyped, Asked
  <1>3. CASE RestStep /\ pending' \in SUBSET pending
    BY <1>3 DEF RestStep, LimitTyped, Asked
  <1>4. CASE RebootStep
    BY <1>4 DEF RebootStep, LimitTyped, Asked
  <1>5. CASE BackStep
    BY <1>5 DEF BackStep, LimitTyped, Asked
  <1>6. QED
    BY <1>1, <1>2, <1>3, <1>4, <1>5, LimitCases

-----------------------------------------------------------------------------
(* The limits: executed writes and their records *)

\* All that is recorded was executed, and as many writes are missing from the record,
\* of any kind, as are missing at all.
BookedAt(l, w) ==
  /\ Len(w) <= Len(l)
  /\ Len(l) = Len(w) => l = w
  /\ \A C \in SUBSET Lines(Tags) : HowMany(l, C) <= HowMany(w, C) + (Len(l) - Len(w))

\* As long as every write is recorded and the clock is not set back, nothing has failed.
Booked ==
  /\ BookedAt(landed, written)
  /\ steady /\ Len(landed) = Len(written) => intact

LEMMA BookedNext ==
  ASSUME NEW l \in Seq(Lines(Tags)), NEW w \in Seq(Lines(Tags)), NEW e \in Lines(Tags),
         BookedAt(l, w)
  PROVE  /\ BookedAt(Append(l, e), Append(w, e)) /\ BookedAt(Append(l, e), w)
         /\ Len(Append(l, e)) = Len(l) + 1 /\ Len(Append(w, e)) = Len(w) + 1
         /\ Len(l) \in Nat /\ Len(w) \in Nat
  <1>. DEFINE T == Lines(Tags)
              le == Append(l, e)
              we == Append(w, e)
  <1>1. /\ Len(l) \in Nat /\ Len(w) \in Nat /\ Len(le) = Len(l) + 1 /\ Len(we) = Len(w) + 1
    <2>. HIDE DEF T
    <2>1. l \in Seq(T) /\ w \in Seq(T) /\ e \in T
      BY DEF T
    <2>2. QED
      BY <2>1, LenProperties, AppendProperties
  <1>2. ASSUME NEW C \in SUBSET T
        PROVE  /\ HowMany(le, C) <= HowMany(we, C) + (Len(l) - Len(w))
               /\ HowMany(le, C) <= HowMany(w, C) + (Len(l) + 1 - Len(w))
    <2>1. HowMany(l, C) \in Nat /\ HowMany(w, C) \in Nat
      BY HowManyIs
    <2>2. HowMany(l, C) <= HowMany(w, C) + (Len(l) - Len(w))
      BY DEF BookedAt
    <2>3. /\ e \in C => HowMany(le, C) = HowMany(l, C) + 1
          /\ e \notin C => HowMany(le, C) = HowMany(l, C)
      BY HowManyAppend
    <2>4. /\ e \in C => HowMany(we, C) = HowMany(w, C) + 1
          /\ e \notin C => HowMany(we, C) = HowMany(w, C)
      BY HowManyAppend
    <2>. HIDE DEF le, we
    <2>5. QED
      BY <1>1, <2>1, <2>2, <2>3, <2>4
  <1>3. BookedAt(le, we)
    <2>1. Len(we) <= Len(le) /\ (Len(le) = Len(we) => le = we)
      BY <1>1 DEF BookedAt
    <2>. HIDE DEF le, we
    <2>2. Len(le) - Len(we) = Len(l) - Len(w)
      BY <1>1
    <2>3. QED
      BY <1>2, <2>1, <2>2 DEF BookedAt
  <1>4. BookedAt(le, w)
    <2>1. Len(w) <= Len(l)
      BY DEF BookedAt
    <2>. HIDE DEF le, we
    <2>2. Len(w) <= Len(le) /\ Len(le) # Len(w) /\ Len(le) - Len(w) = Len(l) + 1 - Len(w)
      BY <1>1, <2>1
    <2>3. QED
      BY <1>2, <2>2 DEF BookedAt
  <1>5. QED
    BY <1>1, <1>3, <1>4

LEMMA BookedInit == LimitInit => Booked
  <1>. SUFFICES ASSUME LimitInit
                PROVE  Booked
    OBVIOUS
  <1>1. landed = <<>> /\ written = <<>> /\ intact
    BY DEF LimitInit, Init
  <1>2. <<>> \in Seq({}) /\ Len(<<>>) = 0
    BY EmptySeq
  <1>3. \A C : HowMany(<<>>, C) \in Nat
    BY <1>2, HowManyIs
  <1>4. BookedAt(<<>>, <<>>)
    BY <1>2, <1>3 DEF BookedAt
  <1>5. QED
    BY <1>1, <1>4 DEF Booked

LEMMA BookedStep ==
  TypeOK /\ LimitTyped /\ Booked /\ [LimitNext]_<<vars, limitVars>> => Booked'
  <1>. SUFFICES ASSUME TypeOK, LimitTyped, Booked, [LimitNext]_<<vars, limitVars>>
                PROVE  Booked'
    OBVIOUS
  <1>1. landed \in Seq(Lines(Tags)) /\ written \in Seq(Lines(Tags)) /\ BookedAt(landed, written)
    BY DEF TypeOK, LimitTyped, Booked
  <1>2. ASSUME NEW write \in pending, LandStep(write.tag, write.value)
        PROVE  Booked'
    <2>. DEFINE line == Line(write.tag, write.value)
    <2>1. write.tag \in Tags /\ write.value \in Values
      BY DEF LimitTyped, Asked
    <2>2. /\ line \in Lines(Tags)
          /\ \/ written' = Append(written, line) /\ tears' = tears /\ intact' = intact
             \/ written' = written /\ tears' \in {tears, tears + 1}
      BY <1>2, <2>1, LandCases
    <2>3. landed' = Append(landed, line) /\ steady' = steady
      BY <1>2 DEF LandStep
    <2>. HIDE DEF line
    <2>4. /\ BookedAt(Append(landed, line), Append(written, line))
          /\ BookedAt(Append(landed, line), written)
          /\ Len(Append(landed, line)) = Len(landed) + 1
          /\ Len(Append(written, line)) = Len(written) + 1
          /\ Len(landed) \in Nat /\ Len(written) \in Nat
      BY <1>1, <2>2, BookedNext
    <2>5. CASE written' = Append(written, line) /\ intact' = intact
      <3>1. BookedAt(landed', written')
        BY <2>3, <2>4, <2>5
      <3>2. Len(landed') = Len(written') => Len(landed) = Len(written)
        BY <2>3, <2>4, <2>5
      <3>3. steady' /\ Len(landed') = Len(written') => intact'
        BY <2>3, <2>5, <3>2 DEF Booked
      <3>4. QED
        BY <3>1, <3>3 DEF Booked
    <2>6. CASE written' = written
      <3>1. BookedAt(landed', written')
        BY <2>3, <2>4, <2>6
      <3>2. Len(written) <= Len(landed)
        BY <1>1 DEF BookedAt
      <3>3. Len(landed') # Len(written')
        BY <2>3, <2>4, <2>6, <3>2
      <3>4. QED
        BY <3>1, <3>3 DEF Booked
    <2>7. QED
      BY <2>2, <2>5, <2>6
  <1>3. ASSUME landed' = landed, written' = written, intact' = intact, steady' = steady
        PROVE  Booked'
    BY <1>3 DEF Booked
  <1>4. CASE RestStep
    BY <1>3, <1>4 DEF RestStep
  <1>5. CASE RebootStep
    BY <1>3, <1>5 DEF RebootStep, Restart
  <1>6. CASE BackStep
    <2>1. landed' = landed /\ written' = written /\ steady' = FALSE
      BY <1>6 DEF BackStep, ClockSetBack
    <2>2. QED
      BY <1>1, <2>1 DEF Booked
  <1>7. QED
    BY <1>2, <1>4, <1>5, <1>6, LimitCases

-----------------------------------------------------------------------------
(* The limits: while the clock is not set back *)

TimelyAt(l, f, now) == ReadableInTime(l, now) /\ ReadableInTime(f, now)
Timely == steady => TimelyAt(landed, file, clock)

\* One line more, and the last line spoiled, leave the rest in the order of time.
LEMMA AppendInTime ==
  ASSUME NEW lines \in Seq(AnyLine), NEW now \in Nat, ReadableInTime(lines, now),
         NEW line \in AnyLine, line # Corrupt => line.ts = now
  PROVE  ReadableInTime(Append(lines, line), now)
  <1>. DEFINE n == Len(lines)
              e == Append(lines, line)
  <1>1. n \in Nat /\ Len(e) = n + 1 /\ e[n + 1] = line /\ \A k \in 1..n : e[k] = lines[k]
    BY LenProperties, AppendProperties
  <1>2. /\ \A i, j \in 1..n : i < j /\ lines[i] # Corrupt /\ lines[j] # Corrupt => lines[i].ts <= lines[j].ts
        /\ \A i \in 1..n : lines[i] # Corrupt => lines[i].ts <= now
    BY DEF ReadableInTime
  <1>. HIDE DEF e, n
  <1>3. \A i \in 1..(n + 1) : e[i] # Corrupt => e[i].ts <= now
    BY <1>1, <1>2
  <1>4. ASSUME NEW i \in 1..(n + 1), NEW j \in 1..(n + 1), i < j, e[i] # Corrupt, e[j] # Corrupt
        PROVE  e[i].ts <= e[j].ts
    <2>1. CASE j = n + 1
      BY <1>1, <1>3, <1>4, <2>1
    <2>2. CASE j # n + 1
      BY <1>1, <1>2, <1>4, <2>2
    <2>3. QED
      BY <2>1, <2>2
  <1>5. QED
    BY <1>1, <1>3, <1>4 DEF ReadableInTime, e

LEMMA ExtendedInTime ==
  ASSUME TypeOK, ReadableInTime(file, clock),
         NEW line \in AnyLine, line # Corrupt => line.ts = clock
  PROVE  ReadableInTime(Extended(file, line), clock)
  <1>1. file \in Seq(AnyLine) /\ clock \in Nat /\ Len(file) \in Nat
    BY LenProperties DEF TypeOK, AnyLine
  <1>2. CASE ended
    BY <1>1, <1>2, AppendInTime DEF Extended
  <1>3. CASE ~ended
    <2>. DEFINE e == Extended(file, line)
                n == Len(file)
    <2>1. Len(e) = n /\ \A k \in 1..n : e[k] = IF k = n THEN Corrupt ELSE file[k]
      BY <1>3, ExtendedIs
    <2>. HIDE DEF e
    <2>2. \A k \in 1..n : e[k] # Corrupt => e[k] = file[k]
      BY <2>1
    <2>3. ReadableInTime(e, clock)
      BY <2>1, <2>2 DEF ReadableInTime
    <2>4. QED
      BY <2>3 DEF e
  <1>4. QED
    BY <1>2, <1>3

LEMMA TimelyInit == LimitInit => Timely
  <1>. SUFFICES ASSUME LimitInit
                PROVE  Timely
    OBVIOUS
  <1>1. landed = <<>> /\ file = <<>> /\ Len(<<>>) = 0
    BY EmptySeq DEF LimitInit, Init
  <1>2. \A now : ReadableInTime(<<>>, now)
    BY <1>1 DEF ReadableInTime
  <1>3. QED
    BY <1>1, <1>2 DEF Timely, TimelyAt

LEMMA TimelyStep ==
  TypeOK /\ LimitTyped /\ Timely /\ [LimitNext]_<<vars, limitVars>> => Timely'
  <1>. SUFFICES ASSUME TypeOK, LimitTyped, Timely, [LimitNext]_<<vars, limitVars>>, steady'
                PROVE  TimelyAt(landed', file', clock')
    BY DEF Timely
  <1>1. landed \in Seq(AnyLine) /\ file \in Seq(AnyLine) /\ clock \in Nat /\ Corrupt \in AnyLine
    BY DEF TypeOK, LimitTyped, AnyLine
  <1>2. ASSUME NEW write \in pending, LandStep(write.tag, write.value)
        PROVE  TimelyAt(landed', file', clock')
    <2>. DEFINE line == Line(write.tag, write.value)
    <2>1. write.tag \in Tags /\ write.value \in Values
      BY DEF LimitTyped, Asked
    <2>2. /\ line \in AnyLine /\ line.ts = clock
          /\ file' = file \/ \E l \in {Corrupt, line} : file' = Extended(file, l)
      BY <1>2, <2>1, LandCases
    <2>3. landed' = Append(landed, line) /\ steady' = steady /\ clock' = clock
      BY <1>2 DEF LandStep
    <2>. HIDE DEF line
    <2>4. ReadableInTime(landed, clock) /\ ReadableInTime(file, clock)
      BY <2>3 DEF Timely, TimelyAt
    <2>5. ReadableInTime(landed', clock')
      BY <1>1, <2>2, <2>3, <2>4, AppendInTime
    <2>6. ReadableInTime(file', clock')
      <3>1. CASE file' = file
        BY <2>3, <2>4, <3>1
      <3>2. ASSUME NEW l \in {Corrupt, line}, file' = Extended(file, l)
            PROVE  ReadableInTime(file', clock')
        BY <1>1, <2>2, <2>3, <2>4, <3>2, ExtendedInTime
      <3>3. QED
        BY <2>2, <3>1, <3>2
    <2>7. QED
      BY <2>5, <2>6 DEF TimelyAt
  <1>3. ASSUME landed' = landed, file' = file, steady' = steady, clock' = clock \/ clock' = clock + 1
        PROVE  TimelyAt(landed', file', clock')
    <2>1. ReadableInTime(landed, clock) /\ ReadableInTime(file, clock)
      BY <1>3 DEF Timely, TimelyAt
    <2>2. \A lines \in Seq(AnyLine) :
            ReadableInTime(lines, clock) => ReadableInTime(lines, clock + 1)
      <3>. SUFFICES ASSUME NEW lines \in Seq(AnyLine), ReadableInTime(lines, clock)
                    PROVE  ReadableInTime(lines, clock + 1)
        OBVIOUS
      <3>1. \A k \in 1..Len(lines) : lines[k] # Corrupt => lines[k].ts \in Nat /\ lines[k].ts <= clock
        <4>1. \A k \in 1..Len(lines) : lines[k] \in AnyLine
          BY ElementOfSeq
        <4>2. QED
          BY <4>1, LineFacts DEF ReadableInTime
      <3>2. \A k \in 1..Len(lines) : lines[k] # Corrupt => lines[k].ts <= clock + 1
        BY <1>1, <3>1
      <3>3. QED
        BY <3>2 DEF ReadableInTime
    <2>3. ReadableInTime(landed, clock') /\ ReadableInTime(file, clock')
      BY <1>1, <1>3, <2>1, <2>2
    <2>4. QED
      BY <1>3, <2>3 DEF TimelyAt
  <1>4. CASE RestStep
    BY <1>3, <1>4 DEF RestStep
  <1>5. CASE RebootStep
    BY <1>3, <1>5 DEF RebootStep, Restart
  <1>6. CASE BackStep
    BY <1>6 DEF BackStep
  <1>7. QED
    BY <1>2, <1>4, <1>5, <1>6, LimitCases

-----------------------------------------------------------------------------
(* The limits: memory covers what was executed *)

\* The records of a tag from some moment on.
From(tag, since) == {r \in Lines({tag}) : r.ts >= since}

\* Pruning keeps the records within the retention time.
LEMMA PrunedCount ==
  ASSUME NEW tag, NEW b \in Seq(Lines({tag})), NEW now \in Int,
         NEW since \in Int, since >= now - Retention
  PROVE  HowMany(Pruned(b, now), From(tag, since)) = HowMany(b, From(tag, since))
  <1>. DEFINE C == From(tag, since)
              P == Kept(b, now)
  <1>1. Pruned(b, now) = Selected(b, P) /\ DOMAIN b = 1..Len(b)
    BY LenProperties DEF Pruned, Kept
  <1>2. \A i \in 1..Len(b) : b[i] \in C => b[i].ts \in Nat /\ b[i].ts >= since
    <2>1. \A r \in Lines({tag}) : r.ts \in Nat
      BY LineFacts
    <2>2. QED
      BY <2>1 DEF From
  <1>3. \A i \in 1..Len(b) : b[i] \in C => i \in P
    BY <1>1, <1>2, RetentionAssumption DEF Kept
  <1>4. {i \in 1..Len(b) : i \in P /\ b[i] \in C} = {i \in 1..Len(b) : b[i] \in C}
    BY <1>3
  <1>5. HowMany(Selected(b, P), C) = Cardinality({i \in 1..Len(b) : i \in P /\ b[i] \in C})
    <2>. HIDE DEF P, C
    <2>1. QED
      BY HowManySelected
  <1>6. HowMany(b, C) = Cardinality({i \in 1..Len(b) : b[i] \in C})
    <2>. HIDE DEF P, C
    <2>1. QED
      BY HowManyIs
  <1>7. QED
    BY <1>1, <1>4, <1>5, <1>6

\* A tag's records of a kind are the records of that kind.
LEMMA TaggedCount ==
  ASSUME NEW lines \in Seq(AnyLine), NEW tag \in Tags, NEW C \in SUBSET Lines({tag})
  PROVE  HowMany(OfTag(lines, tag), C) = HowMany(lines, C)
  <1>. DEFINE P == {k \in DOMAIN lines : lines[k] # Corrupt /\ lines[k].tag = tag}
  <1>1. OfTag(lines, tag) = Selected(lines, P) /\ DOMAIN lines = 1..Len(lines)
    BY LenProperties DEF OfTag
  <1>2. \A i \in 1..Len(lines) : lines[i] \in C => i \in P
    <2>1. \A r \in C : r # Corrupt /\ r.tag = tag
      BY LineFacts
    <2>2. QED
      BY <1>1, <2>1
  <1>3. {i \in 1..Len(lines) : i \in P /\ lines[i] \in C} = {i \in 1..Len(lines) : lines[i] \in C}
    BY <1>2
  <1>4. /\ HowMany(Selected(lines, P), C) = Cardinality({i \in 1..Len(lines) : i \in P /\ lines[i] \in C})
        /\ HowMany(lines, C) = Cardinality({i \in 1..Len(lines) : lines[i] \in C})
    <2>. HIDE DEF P
    <2>1. HowMany(Selected(lines, P), C) = Cardinality({i \in 1..Len(lines) : i \in P /\ lines[i] \in C})
      BY HowManySelected
    <2>2. HowMany(lines, C) = Cardinality({i \in 1..Len(lines) : lines[i] \in C})
      BY HowManyIs
    <2>3. QED
      BY <2>1, <2>2
  <1>5. QED
    BY <1>1, <1>3, <1>4

\* A replay of a file in the order of time keeps what is within the retention time.
LEMMA LoadedCount ==
  ASSUME NEW lines \in Seq(AnyLine), NEW tag \in Tags, NEW now \in Nat, ReadableInTime(lines, now),
         NEW since \in Int, since >= now - Retention
  PROVE  HowMany(Loaded(lines)[tag], From(tag, since)) = HowMany(lines, From(tag, since))
  <1>. DEFINE b == OfTag(lines, tag)
              C == From(tag, since)
  <1>1. b \in Seq(Lines({tag})) /\ InTime(b) /\ \A k \in 1..Len(b) : b[k].ts <= now
    BY OfTagTyped, TaggedInTime
  <1>2. HowMany(b, C) = HowMany(lines, C)
    <2>1. C \in SUBSET Lines({tag})
      BY DEF From
    <2>. HIDE DEF C
    <2>2. QED
      BY <2>1, TaggedCount
  <1>3. Loaded(lines)[tag] = Replay(SortedByTs(b))
    BY LoadedIs
  <1>. HIDE DEF b
  <1>4. SortedByTs(b) = b
    BY <1>1, TaggedTimed, SortedIs
  <1>5. HowMany(Replay(b), C) = HowMany(b, C)
    <2>1. CASE b = <<>>
      BY <2>1 DEF Replay
    <2>2. CASE b # <<>>
      <3>1. Last(b).ts \in Nat /\ Last(b).ts <= now
        BY <1>1, <2>2, LastIs, LineFacts
      <3>2. since >= Last(b).ts - Retention
        BY <3>1, RetentionAssumption
      <3>3. Replay(b) = Pruned(b, Last(b).ts)
        BY <2>2 DEF Replay
      <3>. DEFINE t0 == Last(b).ts
      <3>. HIDE DEF t0
      <3>4. t0 \in Int /\ since >= t0 - Retention /\ Replay(b) = Pruned(b, t0)
        BY <3>1, <3>2, <3>3 DEF t0
      <3>5. QED
        BY <1>1, <3>4, PrunedCount
    <2>3. QED
      BY <2>1, <2>2
  <1>6. QED
    BY <1>2, <1>3, <1>4, <1>5

\* From any moment within the retention time on, memory holds as many records of a tag
\* as writes were executed, up to a number.
CoversAt(l, m, extra, now) ==
  \A tag \in Tags, since \in Int :
    since >= now - Retention => HowMany(l, From(tag, since)) <= HowMany(m[tag], From(tag, since)) + extra

\* The number is that of the writes that were not put and of the torn lines.
Covered == steady => CoversAt(landed, memory, Missed + tears, clock)

\* The record of a write is in the windows of its tag that have begun.
LEMMA LineFrom ==
  ASSUME TypeOK, NEW tag \in Tags, NEW value \in Values, NEW t \in Tags, NEW since \in Int
  PROVE  Line(tag, value) \in From(t, since) <=> t = tag /\ since <= clock
  <1>1. /\ Line(tag, value) \in Lines({tag}) /\ Line(tag, value).tag = tag
        /\ Line(tag, value).ts = clock /\ clock \in Nat
    BY DEF Line, Lines, TypeOK
  <1>2. \A r \in Lines({t}) : r.tag = t
    BY LineFacts
  <1>3. QED
    BY <1>1, <1>2 DEF From

\* A put that reaches memory is covered, whether its line reaches the file or not.
LEMMA PutCovers ==
  ASSUME TypeOK, LimitTyped, NEW tag \in Tags, NEW value \in Values, NEW extra \in Int,
         CoversAt(landed, memory, extra, clock)
  PROVE  CoversAt(Append(landed, Line(tag, value)),
                  [memory EXCEPT ![tag] = Pruned(Append(memory[tag], Line(tag, value)), clock)],
                  extra, clock)
  <1>. DEFINE line == Line(tag, value)
              p == Pruned(Append(memory[tag], line), clock)
              l == Append(landed, line)
              m == [memory EXCEPT ![tag] = p]
  <1>1. /\ line \in Lines({tag}) /\ line \in Lines(Tags)
        /\ clock \in Nat /\ clock \in Int /\ landed \in Seq(Lines(Tags)) /\ DOMAIN memory = Tags
        /\ \A t \in Tags : memory[t] \in Seq(Lines({t}))
    BY DEF Line, Lines, TypeOK, LimitTyped
  <1>2. \A t \in Tags : m[t] = IF t = tag THEN p ELSE memory[t]
    BY <1>1
  <1>3. ASSUME NEW t \in Tags, NEW since \in Int, since >= clock - Retention
        PROVE  HowMany(l, From(t, since)) <= HowMany(m[t], From(t, since)) + extra
    <2>. DEFINE C == From(t, since)
                b == memory[t]
    <2>1. HowMany(landed, C) <= HowMany(b, C) + extra
      BY <1>3 DEF CoversAt
    <2>2. HowMany(landed, C) \in Nat /\ HowMany(b, C) \in Nat
      <3>. HIDE DEF C, b
      <3>1. HowMany(landed, C) \in Nat
        BY <1>1, HowManyIs
      <3>2. b \in Seq(Lines({t}))
        BY <1>1 DEF b
      <3>3. HowMany(b, C) \in Nat
        BY <3>2, HowManyIs
      <3>4. QED
        BY <3>1, <3>3
    <2>3. line \in C <=> t = tag /\ since <= clock
      BY LineFrom
    <2>4. /\ line \in C => HowMany(l, C) = HowMany(landed, C) + 1
          /\ line \notin C => HowMany(l, C) = HowMany(landed, C)
      <3>. HIDE DEF C, line
      <3>1. QED
        BY <1>1, HowManyAppend
    <2>5. CASE t # tag
      BY <1>2, <2>1, <2>3, <2>4, <2>5
    <2>6. CASE t = tag
      <3>1. HowMany(p, C) = HowMany(Append(b, line), C)
        <4>. DEFINE a == Append(b, line)
        <4>1. a \in Seq(Lines({tag}))
          <5>. DEFINE T == Lines({tag})
          <5>1. b \in Seq(T) /\ line \in T
            BY <1>1, <2>6
          <5>. HIDE DEF T, b, line
          <5>2. Append(b, line) \in Seq(T)
            BY <5>1, AppendProperties
          <5>3. QED
            BY <5>2 DEF T
        <4>. HIDE DEF a, line
        <4>2. HowMany(Pruned(a, clock), From(tag, since)) = HowMany(a, From(tag, since))
          BY <1>1, <1>3, <4>1, PrunedCount
        <4>3. QED
          BY <2>6, <4>2 DEF a
      <3>2. /\ line \in C => HowMany(Append(b, line), C) = HowMany(b, C) + 1
            /\ line \notin C => HowMany(Append(b, line), C) = HowMany(b, C)
        <4>1. b \in Seq(Lines({tag}))
          BY <1>1, <2>6
        <4>. HIDE DEF b, line, C
        <4>2. QED
          BY <1>1, <4>1, HowManyAppend
      <3>3. m[t] = p
        BY <1>2, <2>6
      <3>4. HowMany(m[t], C) = HowMany(Append(b, line), C)
        BY <3>1, <3>3
      <3>. HIDE DEF l, m, p, C, line, b
      <3>5. HowMany(l, C) <= HowMany(m[t], C) + extra
        <4>1. CASE line \in C
          BY <2>1, <2>2, <2>4, <3>2, <3>4, <4>1
        <4>2. CASE line \notin C
          BY <2>1, <2>2, <2>4, <3>2, <3>4, <4>2
        <4>3. QED
          BY <4>1, <4>2
      <3>6. QED
        BY <3>5 DEF l, m, p, C, line, b
    <2>7. QED
      BY <2>5, <2>6
  <1>4. QED
    BY <1>3 DEF CoversAt

\* Memory replayed from the file is covered: what is missing from it was not put, or is
\* paid for by a torn line.
LEMMA ReloadCovers ==
  ASSUME NEW f \in Seq(AnyLine), NEW w \in Seq(Lines(Tags)), NEW l \in Seq(Lines(Tags)),
         NEW torn \in Nat, NEW whole \in BOOLEAN, NEW now \in Nat,
         \A C \in SUBSET Lines(Tags) : SlackOf(f, w, whole, torn, C),
         BookedAt(l, w), ReadableInTime(f, now)
  PROVE  CoversAt(l, Loaded(f), (Len(l) - Len(w)) + torn, now)
  <1>. SUFFICES ASSUME NEW tag \in Tags, NEW since \in Int, since >= now - Retention
                PROVE  HowMany(l, From(tag, since)) <=
                         HowMany(Loaded(f)[tag], From(tag, since)) + ((Len(l) - Len(w)) + torn)
    BY DEF CoversAt
  <1>. DEFINE C == From(tag, since)
  <1>1. C \in SUBSET Lines(Tags)
    BY LineFacts DEF From
  <1>2. HowMany(Loaded(f)[tag], C) = HowMany(f, C)
    BY LoadedCount
  <1>. HIDE DEF C
  <1>3. HowMany(f, C) \in Nat /\ HowMany(w, C) \in Nat /\ HowMany(l, C) \in Nat
    <2>1. HowMany(f, C) \in Nat
      BY HowManyIs
    <2>2. HowMany(w, C) \in Nat /\ HowMany(l, C) \in Nat
      BY HowManyIs
    <2>3. QED
      BY <2>1, <2>2
  <1>4. Len(l) \in Nat /\ Len(w) \in Nat
    BY LenProperties
  <1>5. HowMany(l, C) <= HowMany(w, C) + (Len(l) - Len(w))
    BY <1>1 DEF BookedAt
  <1>6. HowMany(f, C) >= HowMany(w, C) - torn
    <2>1. SlackOf(f, w, whole, torn, C)
      BY <1>1
    <2>2. CASE whole
      BY <2>1, <2>2 DEF SlackOf
    <2>3. CASE ~whole
      BY <1>3, <2>1, <2>3 DEF SlackOf
    <2>4. QED
      BY <2>2, <2>3
  <1>7. QED
    BY <1>2, <1>3, <1>4, <1>5, <1>6 DEF C

\* What covers still does with more to spare, and later.
LEMMA CoversMore ==
  ASSUME TypeOK, LimitTyped, NEW extra \in Int, NEW more \in Int, extra <= more,
         NEW now \in Int, NEW later \in Int, now <= later, CoversAt(landed, memory, extra, now)
  PROVE  CoversAt(landed, memory, more, later)
  <1>. SUFFICES ASSUME NEW tag \in Tags, NEW since \in Int, since >= later - Retention
                PROVE  HowMany(landed, From(tag, since)) <= HowMany(memory[tag], From(tag, since)) + more
    BY DEF CoversAt
  <1>1. since >= now - Retention
    BY RetentionAssumption
  <1>2. HowMany(landed, From(tag, since)) <= HowMany(memory[tag], From(tag, since)) + extra
    BY <1>1 DEF CoversAt
  <1>3. HowMany(landed, From(tag, since)) \in Nat /\ HowMany(memory[tag], From(tag, since)) \in Nat
    <2>. DEFINE C == From(tag, since)
                b == memory[tag]
    <2>1. landed \in Seq(Lines(Tags)) /\ b \in Seq(Lines({tag}))
      BY DEF TypeOK, LimitTyped
    <2>. HIDE DEF C, b
    <2>2. HowMany(landed, C) \in Nat
      BY <2>1, HowManyIs
    <2>3. HowMany(b, C) \in Nat
      BY <2>1, HowManyIs
    <2>4. QED
      BY <2>2, <2>3 DEF b, C
  <1>4. QED
    BY <1>2, <1>3

LEMMA CoveredInit == LimitInit => Covered
  <1>. SUFFICES ASSUME LimitInit
                PROVE  Covered
    OBVIOUS
  <1>1. landed = <<>> /\ written = <<>> /\ tears = 0 /\ \A tag \in Tags : memory[tag] = <<>>
    BY DEF LimitInit, Init
  <1>2. <<>> \in Seq({}) /\ Len(<<>>) = 0
    BY EmptySeq
  <1>3. \A C : HowMany(<<>>, C) \in Nat
    BY <1>2, HowManyIs
  <1>4. Missed + tears = 0
    BY <1>1, <1>2 DEF Missed
  <1>5. CoversAt(landed, memory, 0, clock)
    BY <1>1, <1>3 DEF CoversAt
  <1>6. QED
    BY <1>4, <1>5 DEF Covered

LEMMA CoveredStep ==
  /\ TypeOK /\ LimitTyped /\ Booked /\ Covered
  /\ TypeOK' /\ LimitTyped' /\ Booked' /\ Timely' /\ Slack'
  /\ [LimitNext]_<<vars, limitVars>>
  => Covered'
  <1>. SUFFICES ASSUME TypeOK, LimitTyped, Booked, Covered,
                       TypeOK', LimitTyped', Booked', Timely', Slack',
                       [LimitNext]_<<vars, limitVars>>, steady'
                PROVE  CoversAt(landed', memory', (Len(landed') - Len(written')) + tears', clock')
    BY DEF Covered, Missed
  <1>1. /\ Len(landed) \in Nat /\ Len(written) \in Nat /\ tears \in Nat /\ clock \in Nat
        /\ Len(written) <= Len(landed)
    BY LenProperties DEF TypeOK, LimitTyped, Booked, BookedAt
  <1>2. /\ file' \in Seq(AnyLine) /\ written' \in Seq(Lines(Tags)) /\ landed' \in Seq(Lines(Tags))
        /\ tears' \in Nat /\ ended' \in BOOLEAN /\ clock' \in Nat
    BY DEF TypeOK, LimitTyped, AnyLine
  <1>3. /\ \A C \in SUBSET Lines(Tags) : SlackOf(file', written', ended', tears', C)
        /\ BookedAt(landed', written') /\ ReadableInTime(file', clock')
    BY DEF Slack, Booked, Timely, TimelyAt
  <1>4. ASSUME memory' = Loaded(file')
        PROVE  CoversAt(landed', memory', (Len(landed') - Len(written')) + tears', clock')
    <2>. DEFINE f == file'
                w == written'
                l == landed'
                t == tears'
                e == ended'
                now == clock'
    <2>1. /\ f \in Seq(AnyLine) /\ w \in Seq(Lines(Tags)) /\ l \in Seq(Lines(Tags))
          /\ t \in Nat /\ e \in BOOLEAN /\ now \in Nat
          /\ \A C \in SUBSET Lines(Tags) : SlackOf(f, w, e, t, C)
          /\ BookedAt(l, w) /\ ReadableInTime(f, now)
      BY <1>2, <1>3
    <2>. HIDE DEF f, w, l, t, e, now
    <2>2. CoversAt(l, Loaded(f), (Len(l) - Len(w)) + t, now)
      BY <2>1, ReloadCovers
    <2>3. QED
      BY <1>4, <2>2 DEF f, w, l, t, now
  <1>5. ASSUME NEW write \in pending, LandStep(write.tag, write.value)
        PROVE  CoversAt(landed', memory', (Len(landed') - Len(written')) + tears', clock')
    <2>. DEFINE line == Line(write.tag, write.value)
                p == Pruned(Append(memory[write.tag], line), clock)
                extra == (Len(landed) - Len(written)) + tears
                more == (Len(landed') - Len(written')) + tears'
                l == landed'
                m == memory'
    <2>1. write.tag \in Tags /\ write.value \in Values
      BY DEF LimitTyped, Asked
    <2>2. /\ line \in Lines(Tags)
          /\ \/ written' = Append(written, line) /\ tears' = tears
             \/ written' = written /\ tears' \in {tears, tears + 1}
          /\ \/ memory' = [memory EXCEPT ![write.tag] = p]
             \/ memory' = Loaded(file')
      BY <1>5, <2>1, LandCases
    <2>3. landed' = Append(landed, line) /\ steady /\ clock' = clock
      BY <1>5 DEF LandStep
    <2>4. CASE memory' = [memory EXCEPT ![write.tag] = p]
      <3>1. CoversAt(landed, memory, extra, clock)
        BY <2>3 DEF Covered, Missed
      <3>2. extra \in Int
        BY <1>1
      <3>3. more \in Int /\ extra <= more
        <4>1. Len(landed') = Len(landed) + 1 /\ Len(Append(written, line)) = Len(written) + 1
          <5>. HIDE DEF line
          <5>1. landed \in Seq(Lines(Tags)) /\ written \in Seq(Lines(Tags))
            BY DEF TypeOK, LimitTyped
          <5>2. QED
            BY <2>2, <2>3, <5>1, AppendProperties
        <4>. HIDE DEF line
        <4>2. QED
          BY <1>1, <2>2, <4>1
      <3>4. CoversAt(l, m, extra, clock)
        <4>. HIDE DEF extra
        <4>1. QED
          BY <2>1, <2>3, <2>4, <3>1, <3>2, PutCovers
      <3>5. CoversAt(l, m, more, clock)
        <4>1. l \in Seq(Lines(Tags)) /\ \A t \in Tags : m[t] \in Seq(Lines({t}))
          BY DEF TypeOK, LimitTyped
        <4>. HIDE DEF l, m, extra, more
        <4>2. \A t \in Tags, since \in Int :
                HowMany(l, From(t, since)) \in Nat /\ HowMany(m[t], From(t, since)) \in Nat
          <5>1. \A C : HowMany(l, C) \in Nat
            BY <4>1, HowManyIs
          <5>2. \A t \in Tags : \A C : HowMany(m[t], C) \in Nat
            BY <4>1, HowManyIs
          <5>3. QED
            BY <5>1, <5>2
        <4>3. QED
          BY <3>2, <3>3, <3>4, <4>2 DEF CoversAt
      <3>6. QED
        BY <2>3, <3>5
    <2>5. QED
      BY <1>4, <2>2, <2>4
  <1>6. CASE RestStep
    <2>. DEFINE extra == (Len(landed) - Len(written)) + tears
                later == clock'
    <2>1. CoversAt(landed, memory, extra, clock)
      BY <1>6 DEF RestStep, Covered, Missed
    <2>2. extra \in Int /\ extra <= extra
      BY <1>1
    <2>3. clock \in Int /\ later \in Int /\ clock <= later
      <3>1. later = clock \/ later = clock + 1
        BY <1>6 DEF RestStep
      <3>. HIDE DEF later
      <3>2. QED
        BY <1>1, <3>1
    <2>. HIDE DEF extra, later
    <2>4. CoversAt(landed, memory, extra, later)
      BY <2>1, <2>2, <2>3, CoversMore
    <2>5. QED
      BY <1>6, <2>4 DEF RestStep, extra, later
  <1>7. CASE RebootStep
    <2>1. memory' = Loaded(file')
      BY <1>7 DEF RebootStep, Restart
    <2>2. QED
      BY <1>4, <2>1
  <1>8. CASE BackStep
    BY <1>8 DEF BackStep
  <1>9. QED
    BY <1>5, <1>6, <1>7, <1>8, LimitCases

-----------------------------------------------------------------------------
(* The call budget over restarts *)

\* What the parser and the deployment grant of the rule in force.
LEMMA RuleFacts ==
  ASSUME LimitTyped
  PROVE  /\ \A limit \in rule.calls : /\ limit.max \in Nat /\ limit.interval \in Nat
                                      /\ limit.interval <= Retention
         /\ \A limit \in rule.cumulative : /\ limit.interval \in Nat /\ limit.interval <= Retention
                                           /\ limit.lo \in Int /\ limit.hi \in Int
         /\ \A limit \in rule.rate : limit.max \in Nat /\ limit.interval \in Nat \ {0}
  <1>1. /\ Engine!IsRule(rule, Tags)
        /\ \A limit \in rule.cumulative \cup rule.calls : limit.interval <= Retention
    BY RulesAssumption DEF LimitTyped
  <1>2. /\ rule.rate \subseteq Engine!RateLimits
        /\ rule.cumulative \subseteq Engine!DriftLimits
        /\ rule.calls \subseteq Engine!CallBudgets
    BY <1>1 DEF Engine!IsRule
  <1>3. \A limit \in rule.calls : limit.max \in Nat /\ limit.interval \in Nat
    BY <1>2 DEF Engine!CallBudgets
  <1>4. \A limit \in rule.cumulative : limit.interval \in Nat /\ limit.lo \in Int /\ limit.hi \in Int
    BY <1>2 DEF Engine!DriftLimits
  <1>5. \A limit \in rule.rate : limit.max \in Nat /\ limit.interval \in Nat \ {0}
    BY <1>2 DEF Engine!RateLimits
  <1>6. QED
    BY <1>1, <1>3, <1>4, <1>5

\* The records of a tag in a window.
Between(tag, start, interval) == {r \in Lines({tag}) : r.ts - start \in 0..interval}

LEMMA HowManyMore ==
  ASSUME NEW S, NEW s \in Seq(S), NEW C, NEW D, C \subseteq D
  PROVE  HowMany(s, C) <= HowMany(s, D)
  <1>. DEFINE G == {i \in 1..Len(s) : s[i] \in C}
              H == {i \in 1..Len(s) : s[i] \in D}
  <1>1. IsFiniteSet(H) /\ HowMany(s, D) = Cardinality(H)
    BY HowManyIs
  <1>2. HowMany(s, C) = Cardinality(G)
    BY HowManyIs
  <1>3. G \in SUBSET H
    OBVIOUS
  <1>. HIDE DEF G, H
  <1>4. QED
    BY <1>1, <1>2, <1>3, FS_Subset

\* The write at the backend was admitted when it found room in the window that ended
\* then, and no write has been executed since.
RoomAt(w, r, l, extra, now) ==
  \A limit \in r.calls : \E c \in Int :
    c <= now /\ HowMany(l, From(w.tag, c - limit.interval)) < limit.max + extra

Budgeted == steady => \A w \in pending : RoomAt(w, rule, landed, Missed + tears, clock)

\* Every window of the executed writes, whenever it begins.
CeilingAt(l, r, extra) ==
  \A tag \in Tags, limit \in r.calls, start \in Int :
    HowMany(l, Between(tag, start, limit.interval)) <= limit.max + extra

Ceiling == steady => CeilingAt(landed, rule, Missed + tears)

\* A write that is admitted has room.
LEMMA AdmitRoom ==
  ASSUME TypeOK, LimitTyped, Covered, steady, NEW tag \in Tags, NEW value \in Values, Admit(tag, value)
  PROVE  RoomAt([tag |-> tag, value |-> value], rule, landed, Missed + tears, clock)
  <1>. SUFFICES ASSUME NEW limit \in rule.calls
                PROVE  \E c \in Int : /\ c <= clock
                                      /\ HowMany(landed, From(tag, c - limit.interval)) < limit.max + (Missed + tears)
    BY DEF RoomAt
  <1>. DEFINE since == clock - limit.interval
              b == memory[tag]
              C == From(tag, since)
  <1>1. /\ limit.max \in Nat /\ limit.interval \in Nat /\ limit.interval <= Retention
        /\ clock \in Nat /\ landed \in Seq(Lines(Tags)) /\ b \in Seq(Lines({tag}))
        /\ Len(landed) \in Nat /\ Len(written) \in Nat /\ tears \in Nat /\ Missed \in Int
    <2>1. landed \in Seq(Lines(Tags)) /\ written \in Seq(Lines(Tags)) /\ b \in Seq(Lines({tag}))
      BY DEF TypeOK, LimitTyped
    <2>2. Len(landed) \in Nat /\ Len(written) \in Nat
      BY <2>1, LenProperties
    <2>3. QED
      BY <2>1, <2>2, RuleFacts DEF TypeOK, Missed
  <1>2. since \in Int /\ since >= clock - Retention
    BY <1>1, RetentionAssumption
  <1>3. HowMany(landed, C) <= HowMany(b, C) + (Missed + tears)
    BY <1>2 DEF Covered, CoversAt
  <1>4. Cardinality(Engine!Window(b, since)) < limit.max
    <2>1. Engine!BudgetOk(rule, memory[tag], clock)
      BY Zenon DEF Admit, Engine!SeriesOk
    <2>2. Engine!Cardinality(Engine!Window(memory[tag], clock - limit.interval)) < limit.max
      BY <2>1, Zenon DEF Engine!BudgetOk
    <2>3. QED
      BY <2>2, Zenon DEF Engine!Cardinality, Cardinality
  <1>5. Engine!Window(b, since) = {i \in 1..Len(b) : b[i] \in C}
    <2>1. DOMAIN b = 1..Len(b) /\ \A i \in 1..Len(b) : b[i] \in Lines({tag})
      BY <1>1, LenProperties, ElementOfSeq
    <2>2. \A i \in 1..Len(b) : b[i].ts >= since <=> b[i] \in C
      BY <2>1 DEF From
    <2>. HIDE DEF C, b, since
    <2>3. QED
      BY <2>1, <2>2 DEF Engine!Window
  <1>. HIDE DEF C, b
  <1>6. HowMany(b, C) < limit.max /\ HowMany(b, C) \in Nat /\ HowMany(landed, C) \in Nat
    <2>1. HowMany(b, C) = Cardinality({i \in 1..Len(b) : b[i] \in C}) /\ HowMany(b, C) \in Nat
      BY <1>1, HowManyIs
    <2>2. HowMany(landed, C) \in Nat
      BY <1>1, HowManyIs
    <2>3. QED
      BY <1>4, <1>5, <2>1, <2>2
  <1>7. HowMany(landed, C) < limit.max + (Missed + tears)
    BY <1>1, <1>3, <1>6
  <1>8. clock \in Int /\ clock <= clock
    BY <1>1
  <1>9. QED
    BY <1>7, <1>8 DEF C

\* Nothing missing is found again, and no line is mended.
LEMMA ExtraGrows ==
  ASSUME TypeOK, LimitTyped, [LimitNext]_<<vars, limitVars>>
  PROVE  /\ Missed + tears \in Int /\ Missed' + tears' \in Int
         /\ Missed + tears <= Missed' + tears'
  <1>1. /\ landed \in Seq(Lines(Tags)) /\ written \in Seq(Lines(Tags))
        /\ Len(landed) \in Nat /\ Len(written) \in Nat /\ tears \in Nat
    BY LenProperties DEF TypeOK, LimitTyped
  <1>2. Missed + tears \in Int
    BY <1>1 DEF Missed
  <1>3. ASSUME NEW write \in pending, LandStep(write.tag, write.value)
        PROVE  Missed' + tears' \in Int /\ Missed + tears <= Missed' + tears'
    <2>. DEFINE line == Line(write.tag, write.value)
    <2>1. write.tag \in Tags /\ write.value \in Values
      BY DEF LimitTyped, Asked
    <2>2. /\ line \in Lines(Tags)
          /\ \/ written' = Append(written, line) /\ tears' = tears
             \/ written' = written /\ tears' \in {tears, tears + 1}
      BY <1>3, <2>1, LandCases
    <2>3. landed' = Append(landed, line)
      BY <1>3 DEF LandStep
    <2>. HIDE DEF line
    <2>4. Len(landed') = Len(landed) + 1 /\ Len(Append(written, line)) = Len(written) + 1
      BY <1>1, <2>2, <2>3, AppendProperties
    <2>5. QED
      BY <1>1, <2>2, <2>4 DEF Missed
  <1>4. ASSUME landed' = landed, written' = written, tears' = tears
        PROVE  Missed' + tears' \in Int /\ Missed + tears <= Missed' + tears'
    BY <1>1, <1>4 DEF Missed
  <1>5. ASSUME RestStep \/ RebootStep \/ BackStep
        PROVE  landed' = landed /\ written' = written /\ tears' = tears
    BY <1>5, Zenon DEF RestStep, RebootStep, BackStep, Restart, ClockSetBack
  <1>6. Missed' + tears' \in Int /\ Missed + tears <= Missed' + tears'
    BY <1>3, <1>4, <1>5, LimitCases
  <1>7. QED
    BY <1>2, <1>6

LEMMA BudgetedStep ==
  TypeOK /\ LimitTyped /\ Covered /\ Budgeted /\ [LimitNext]_<<vars, limitVars>> => Budgeted'
  <1>. SUFFICES ASSUME TypeOK, LimitTyped, Covered, Budgeted, [LimitNext]_<<vars, limitVars>>,
                       steady', NEW w \in pending'
                PROVE  RoomAt(w, rule', landed', Missed' + tears', clock')
    BY DEF Budgeted
  <1>1. CASE \E write \in pending : LandStep(write.tag, write.value)
    BY <1>1 DEF LandStep
  <1>2. CASE RebootStep
    BY <1>2 DEF RebootStep
  <1>3. CASE BackStep
    BY <1>3 DEF BackStep
  <1>4. CASE RestStep
    <2>1. /\ rule' = rule /\ landed' = landed /\ Missed' = Missed /\ tears' = tears /\ steady
          /\ clock' = clock \/ clock' = clock + 1
      BY <1>4 DEF RestStep, Missed
    <2>2. CASE w \in pending
      <3>1. RoomAt(w, rule, landed, Missed + tears, clock)
        BY <2>1, <2>2 DEF Budgeted
      <3>2. \A c \in Int : c <= clock => c <= clock'
        <4>1. clock \in Nat
          BY DEF TypeOK
        <4>2. QED
          BY <2>1, <4>1
      <3>3. RoomAt(w, rule, landed, Missed + tears, clock')
        BY <3>1, <3>2 DEF RoomAt
      <3>4. QED
        BY <2>1, <3>3
    <2>3. ASSUME NEW tag \in Tags, NEW value \in Values, Admit(tag, value), clock' = clock
          PROVE  RoomAt(w, rule', landed', Missed' + tears', clock')
      <3>1. w = [tag |-> tag, value |-> value]
        BY <2>3 DEF Admit
      <3>2. RoomAt(w, rule, landed, Missed + tears, clock)
        BY <2>1, <2>3, <3>1, AdmitRoom
      <3>3. QED
        BY <2>1, <2>3, <3>2
    <2>4. QED
      BY <1>1, <1>2, <1>3, <2>2, <2>3, LimitCases
  <1>5. QED
    BY <1>1, <1>2, <1>3, <1>4, LimitCases

LEMMA CeilingStep ==
  TypeOK /\ LimitTyped /\ Budgeted /\ Ceiling /\ [LimitNext]_<<vars, limitVars>> => Ceiling'
  <1>. SUFFICES ASSUME TypeOK, LimitTyped, Budgeted, Ceiling, [LimitNext]_<<vars, limitVars>>,
                       steady', NEW tag \in Tags, NEW limit \in rule'.calls, NEW start \in Int
                PROVE  HowMany(landed', Between(tag, start, limit.interval))
                         <= limit.max + (Missed' + tears')
    BY DEF Ceiling, CeilingAt
  <1>. DEFINE C == Between(tag, start, limit.interval)
              extra == Missed + tears
              more == Missed' + tears'
  <1>1. extra \in Int /\ more \in Int /\ extra <= more
    BY ExtraGrows
  <1>2. CASE BackStep
    BY <1>2 DEF BackStep
  <1>3. ASSUME rule' = rule, steady' = steady
        PROVE  /\ limit \in rule.calls /\ limit.max \in Nat /\ limit.interval \in Nat
               /\ HowMany(landed, C) <= limit.max + extra /\ HowMany(landed, C) \in Nat
    <2>1. limit \in rule.calls /\ limit.max \in Nat /\ limit.interval \in Nat
      BY <1>3, RuleFacts
    <2>2. HowMany(landed, C) <= limit.max + extra
      BY <1>3, <2>1 DEF Ceiling, CeilingAt
    <2>3. HowMany(landed, C) \in Nat
      <3>. HIDE DEF C
      <3>1. QED
        BY HowManyIs DEF LimitTyped
    <2>4. QED
      BY <2>1, <2>2, <2>3
  <1>4. ASSUME rule' = rule, steady' = steady, landed' = landed
        PROVE  HowMany(landed', C) <= limit.max + more
    <2>1. /\ limit.max \in Nat /\ HowMany(landed, C) \in Nat
          /\ HowMany(landed, C) <= limit.max + extra
      BY <1>3, <1>4, Zenon
    <2>2. HowMany(landed', C) = HowMany(landed, C)
      BY <1>4, Zenon
    <2>. HIDE DEF C, extra, more
    <2>3. QED
      BY <1>1, <2>1, <2>2
  <1>5. ASSUME NEW write \in pending, LandStep(write.tag, write.value)
        PROVE  HowMany(landed', C) <= limit.max + more
    <2>. DEFINE line == Line(write.tag, write.value)
    <2>1. write.tag \in Tags /\ write.value \in Values
      BY DEF LimitTyped, Asked
    <2>2. line \in Lines(Tags) /\ line \in Lines({write.tag}) /\ line.ts = clock /\ line.tag = write.tag
      BY <1>5, <2>1, LandCases
    <2>3. landed' = Append(landed, line) /\ rule' = rule /\ steady' = steady
      BY <1>5 DEF LandStep
    <2>4. /\ limit \in rule.calls /\ limit.max \in Nat /\ limit.interval \in Nat
          /\ HowMany(landed, C) <= limit.max + extra /\ HowMany(landed, C) \in Nat
      BY <1>3, <2>3
    <2>5. /\ line \in C => HowMany(landed', C) = HowMany(landed, C) + 1
          /\ line \notin C => HowMany(landed', C) = HowMany(landed, C)
      <3>. HIDE DEF C, line
      <3>1. QED
        BY <2>2, <2>3, HowManyAppend DEF LimitTyped
    <2>6. CASE line \notin C
      <3>. HIDE DEF C, line, extra, more
      <3>1. QED
        BY <1>1, <2>4, <2>5, <2>6
    <2>7. CASE line \in C
      <3>1. tag = write.tag /\ clock \in Nat /\ clock - start \in 0..limit.interval
        <4>1. \A r \in Lines({tag}) : r.tag = tag
          BY LineFacts
        <4>2. QED
          BY <2>2, <2>7, <4>1 DEF Between, TypeOK
      <3>2. PICK c \in Int : /\ c <= clock
                             /\ HowMany(landed, From(tag, c - limit.interval)) < limit.max + extra
        BY <2>3, <2>4, <3>1 DEF Budgeted, RoomAt
      <3>. DEFINE D == From(tag, c - limit.interval)
      <3>3. C \subseteq D
        <4>1. start >= c - limit.interval
          BY <2>4, <3>1, <3>2
        <4>2. \A r \in Lines({tag}) : r.ts \in Nat
          BY LineFacts
        <4>3. \A r \in Lines({tag}) : r.ts - start \in 0..limit.interval => r.ts >= c - limit.interval
          BY <2>4, <4>1, <4>2
        <4>4. QED
          BY <4>3 DEF Between, From
      <3>. HIDE DEF C, D, line
      <3>4. HowMany(landed, C) <= HowMany(landed, D)
        BY <3>3, HowManyMore DEF LimitTyped
      <3>5. HowMany(landed, D) \in Nat
        BY HowManyIs DEF LimitTyped
      <3>6. HowMany(landed, D) < limit.max + extra
        BY <3>2 DEF D
      <3>. HIDE DEF extra, more
      <3>7. HowMany(landed', C) <= limit.max + more
        BY <1>1, <2>4, <2>5, <2>7, <3>4, <3>5, <3>6
      <3>8. QED
        BY <3>7
    <2>8. QED
      BY <2>6, <2>7
  <1>6. CASE RestStep \/ RebootStep
    <2>1. rule' = rule /\ steady' = steady /\ landed' = landed
      BY <1>6 DEF RestStep, RebootStep
    <2>2. QED
      BY <1>4, <2>1
  <1>7. QED
    BY <1>2, <1>5, <1>6, LimitCases

LEMMA CeilingInit == LimitInit => Budgeted /\ Ceiling
  <1>. SUFFICES ASSUME LimitInit
                PROVE  Budgeted /\ Ceiling
    OBVIOUS
  <1>1. pending = {} /\ landed = <<>> /\ written = <<>> /\ tears = 0
    BY DEF LimitInit, Init
  <1>2. Budgeted
    BY <1>1 DEF Budgeted
  <1>3. Len(<<>>) = 0 /\ \A C : HowMany(<<>>, C) = 0
    <2>1. <<>> \in Seq({}) /\ Len(<<>>) = 0
      BY EmptySeq
    <2>2. ASSUME NEW C
          PROVE  HowMany(<<>>, C) = 0
      <3>1. HowMany(<<>>, C) = Cardinality({i \in 1..Len(<<>>) : <<>>[i] \in C})
        BY <2>1, HowManyIs
      <3>2. {i \in 1..Len(<<>>) : <<>>[i] \in C} = {}
        BY <2>1
      <3>3. QED
        BY <3>1, <3>2, FS_EmptySet
    <2>3. QED
      BY <2>1, <2>2
  <1>4. LimitTyped
    BY LimitTypedInit
  <1>5. Missed + tears = 0
    BY <1>1, <1>3 DEF Missed
  <1>6. CeilingAt(landed, rule, 0)
    <2>1. \A limit \in rule.calls : limit.max \in Nat
      BY <1>4, RuleFacts
    <2>2. QED
      BY <1>1, <1>3, <2>1 DEF CeilingAt
  <1>7. Ceiling
    BY <1>5, <1>6 DEF Ceiling
  <1>8. QED
    BY <1>2, <1>7

\* All that is known of a deployment.
Deployed == LimitTyped /\ Booked /\ Timely /\ Covered /\ Budgeted /\ Ceiling

\* It holds in every reachable state, whatever the rule, the faults and the clock.
THEOREM DeploymentHolds == LimitSpec => [](TypeOK /\ Deployed)
  <1>1. LimitInit => Deployed
    BY LimitTypedInit, BookedInit, TimelyInit, CoveredInit, CeilingInit DEF Deployed
  <1>2. TypeOK /\ TypeOK' /\ Slack' /\ Deployed /\ [LimitNext]_<<vars, limitVars>> => Deployed'
    <2>. SUFFICES ASSUME TypeOK, TypeOK', Slack', Deployed, [LimitNext]_<<vars, limitVars>>
                  PROVE  Deployed'
      OBVIOUS
    <2>. USE DEF Deployed
    <2>1. LimitTyped'
      BY LimitTypedStep
    <2>2. Booked'
      BY BookedStep
    <2>3. Timely'
      BY TimelyStep
    <2>4. Covered'
      BY <2>1, <2>2, <2>3, CoveredStep
    <2>5. Budgeted'
      BY BudgetedStep
    <2>6. Ceiling'
      BY CeilingStep
    <2>7. QED
      BY <2>1, <2>2, <2>3, <2>4, <2>5, <2>6
  <1>3. QED
    BY <1>1, <1>2, LimitsUseTheHistory, HistoryTyped, SlackAlways, PTL DEF LimitSpec

\* The call budget holds over restarts: no window of calls_interval holds more executed
\* writes of a tag than max_calls, but for one more per write that was executed and not
\* recorded, and one per torn line.
THEOREM CeilingOverRestarts == LimitSpec => []CeilingDurable
  <1>1. TypeOK /\ Deployed => CeilingDurable
    <2>. SUFFICES ASSUME TypeOK, Deployed, steady, NEW tag \in Tags, NEW limit \in rule.calls,
                         NEW i \in DOMAIN Executions(tag)
                  PROVE  Cardinality({j \in DOMAIN Executions(tag) :
                                        Executions(tag)[j].ts - Executions(tag)[i].ts \in 0..limit.interval})
                           <= limit.max + Missed + tears
      BY DEF CeilingDurable
    <2>. DEFINE e == Executions(tag)
                start == e[i].ts
                C == Between(tag, start, limit.interval)
    <2>1. landed \in Seq(AnyLine) /\ landed \in Seq(Lines(Tags)) /\ LimitTyped
      BY DEF Deployed, LimitTyped, AnyLine
    <2>2. e \in Seq(Lines({tag}))
      BY <2>1, OfTagTyped DEF Executions
    <2>3. DOMAIN e = 1..Len(e) /\ \A k \in 1..Len(e) : e[k] \in Lines({tag}) /\ e[k].ts \in Nat
      BY <2>2, LenProperties, TaggedTimed
    <2>4. start \in Int
      BY <2>3
    <2>5. HowMany(landed, C) <= limit.max + (Missed + tears)
      BY <2>4 DEF Deployed, Ceiling, CeilingAt
    <2>6. HowMany(e, C) = HowMany(landed, C)
      <3>1. C \in SUBSET Lines({tag})
        BY DEF Between
      <3>. HIDE DEF C
      <3>2. QED
        BY <2>1, <3>1, TaggedCount DEF Executions
    <2>7. HowMany(e, C) = Cardinality({j \in 1..Len(e) : e[j] \in C})
      <3>. HIDE DEF C, e
      <3>1. QED
        BY <2>2, HowManyIs
    <2>8. {j \in 1..Len(e) : e[j] \in C} = {j \in DOMAIN e : e[j].ts - start \in 0..limit.interval}
      BY <2>3 DEF Between
    <2>9. limit.max \in Nat /\ Missed \in Int /\ tears \in Nat
      <3>1. Len(landed) \in Nat /\ Len(written) \in Nat
        BY <2>1, LenProperties DEF TypeOK
      <3>2. QED
        BY <2>1, <3>1, RuleFacts DEF Missed, TypeOK
    <2>10. Cardinality({j \in DOMAIN e : e[j].ts - start \in 0..limit.interval}) <= limit.max + (Missed + tears)
      BY <2>5, <2>6, <2>7, <2>8
    <2>. HIDE DEF e, start
    <2>11. limit.max + (Missed + tears) = limit.max + Missed + tears
      BY <2>9
    <2>12. QED
      BY <2>10, <2>11 DEF e, start
  <1>2. QED
    BY <1>1, DeploymentHolds, PTL

-----------------------------------------------------------------------------
(* The rate and the drift over restarts *)

LEMMA MinOfTwo ==
  ASSUME NEW a \in Int, NEW b \in Int
  PROVE  Engine!Min({a, b}) = IF a <= b THEN a ELSE b
  BY DEF Engine!Min

LEMMA MaxOfTwo ==
  ASSUME NEW a \in Int, NEW b \in Int
  PROVE  Engine!Max({a, b}) = IF a >= b THEN a ELSE b
  BY DEF Engine!Max

LEMMA Times ==
  ASSUME NEW m \in Nat, NEW x \in Nat, NEW y \in Nat, x <= y
  PROVE  m * x <= m * y
  <1>1. PICK d \in Nat : y = x + d
    <2>1. y - x \in Nat /\ y = x + (y - x)
      OBVIOUS
    <2>2. QED
      BY <2>1
  <1>2. m * (x + d) = m * x + m * d
    OBVIOUS
  <1>3. m * d >= 0 /\ m * d \in Int /\ m * x \in Int
    OBVIOUS
  <1>4. QED
    BY <1>1, <1>2, <1>3

\* What max_rate allows from a record to a value now.
Near(limit, from, value, now) ==
  Engine!Magnitude(value - from.value) * limit.interval
    <= limit.max * Engine!Min({now - from.ts, limit.interval})

\* What cumulative_range allows after the first n records.
Drifts(limit, recs, n, value, now) ==
  \E t \in recs[n].ts..now, b \in 1..n :
    /\ \A j \in 1..(b - 1) : recs[j].ts < t - limit.interval
    /\ recs[b].ts >= t - limit.interval \/ b = n
    /\ value - recs[b].value \in limit.lo..limit.hi

\* What both allow after the first n records.
Follows(r, recs, n, value, now) ==
  /\ \A limit \in r.rate : Near(limit, recs[n], value, now)
  /\ \A limit \in r.cumulative : Drifts(limit, recs, n, value, now)

SeriesAt(r, recs) ==
  \A k \in 1..(Len(recs) - 1) : Follows(r, recs, k, recs[k + 1].value, recs[k + 1].ts)

\* While the clock is not set back and no put has failed, every series of executed
\* writes keeps to the rule, and so will the write at the backend, whenever it lands.
Regular == steady /\ Missed = 0 => \A tag \in Tags : SeriesAt(rule, Executions(tag))

VettedAt(w, r, recs, now) == recs # <<>> => Follows(r, recs, Len(recs), w.value, now)
Vetted == steady /\ Missed = 0 => \A w \in pending : VettedAt(w, rule, Executions(w.tag), clock)

\* One write more that follows.
LEMMA SeriesAppend ==
  ASSUME NEW r, NEW S, NEW recs \in Seq(S), NEW line \in S, SeriesAt(r, recs),
         recs # <<>> => Follows(r, recs, Len(recs), line.value, line.ts)
  PROVE  SeriesAt(r, Append(recs, line))
  <1>. DEFINE n == Len(recs)
              a == Append(recs, line)
  <1>1. n \in Nat /\ Len(a) = n + 1 /\ a[n + 1] = line /\ \A k \in 1..n : a[k] = recs[k]
    BY LenProperties, AppendProperties
  <1>. HIDE DEF a
  <1>2. ASSUME NEW k \in 1..n
        PROVE  Follows(r, recs, k, a[k + 1].value, a[k + 1].ts)
    <2>1. CASE k = n
      <3>1. recs # <<>>
        BY <2>1, EmptySeq
      <3>2. Follows(r, recs, n, line.value, line.ts)
        BY <3>1
      <3>3. QED
        BY <1>1, <2>1, <3>2
    <2>2. CASE k # n
      <3>1. k \in 1..(n - 1) /\ k + 1 \in 1..n
        BY <1>1, <2>2
      <3>2. a[k + 1] = recs[k + 1]
        BY <1>1, <3>1
      <3>3. QED
        BY <3>1, <3>2 DEF SeriesAt
    <2>3. QED
      BY <2>1, <2>2
  <1>3. ASSUME NEW k \in 1..n, NEW value, NEW now, Follows(r, recs, k, value, now)
        PROVE  Follows(r, a, k, value, now)
    <2>1. \A j \in 1..k : j \in 1..n /\ a[j] = recs[j]
      BY <1>1
    <2>2. a[k] = recs[k]
      BY <1>1
    <2>3. \A limit \in r.rate : Near(limit, a[k], value, now)
      BY <1>3, <2>2 DEF Follows
    <2>4. ASSUME NEW limit \in r.cumulative
          PROVE  Drifts(limit, a, k, value, now)
      <3>1. PICK t \in recs[k].ts..now, b \in 1..k :
              /\ \A j \in 1..(b - 1) : recs[j].ts < t - limit.interval
              /\ recs[b].ts >= t - limit.interval \/ b = k
              /\ value - recs[b].value \in limit.lo..limit.hi
        BY <1>3 DEF Follows, Drifts
      <3>2. t \in a[k].ts..now
        BY <2>2
      <3>3. \A j \in 1..(b - 1) : j \in 1..k
        OBVIOUS
      <3>4. /\ \A j \in 1..(b - 1) : a[j].ts < t - limit.interval
            /\ a[b].ts >= t - limit.interval \/ b = k
            /\ value - a[b].value \in limit.lo..limit.hi
        BY <2>1, <3>1, <3>3
      <3>5. QED
        BY <3>2, <3>4 DEF Drifts
    <2>5. QED
      BY <2>3, <2>4 DEF Follows
  <1>4. \A k \in 1..n : Follows(r, a, k, a[k + 1].value, a[k + 1].ts)
    BY <1>2, <1>3
  <1>5. Len(a) - 1 = n
    BY <1>1
  <1>. HIDE DEF n
  <1>6. QED
    BY <1>4, <1>5 DEF SeriesAt, a

\* A write that may follow now may follow later.
LEMMA FollowsLater ==
  ASSUME LimitTyped, NEW tag, NEW recs \in Seq(Lines({tag})), NEW n \in 1..Len(recs),
         NEW now \in Nat, recs[n].ts <= now, NEW later \in Nat, now <= later, NEW value \in Int,
         Follows(rule, recs, n, value, now)
  PROVE  Follows(rule, recs, n, value, later)
  <1>1. recs[n] \in Lines({tag}) /\ recs[n].ts \in Nat /\ recs[n].value \in Int
    BY ElementOfSeq, LineFacts, ValuesAssumption
  <1>2. ASSUME NEW limit \in rule.rate
        PROVE  Near(limit, recs[n], value, later)
    <2>. DEFINE d == now - recs[n].ts
                e == later - recs[n].ts
                i == limit.interval
                x == Engine!Min({d, i})
                y == Engine!Min({e, i})
                v == Engine!Magnitude(value - recs[n].value) * i
    <2>1. d \in Nat /\ e \in Nat /\ d <= e
      BY <1>1
    <2>2. limit.max \in Nat /\ i \in Nat
      BY RuleFacts
    <2>3. v <= limit.max * x
      BY DEF Follows, Near
    <2>4. v \in Int
      <3>1. Engine!Magnitude(value - recs[n].value) \in Int
        BY <1>1 DEF Engine!Magnitude
      <3>2. QED
        BY <2>2, <3>1
    <2>. HIDE DEF d, e, i, v
    <2>5. x \in Nat /\ y \in Nat /\ x <= y
      BY <2>1, <2>2, MinOfTwo
    <2>. HIDE DEF x, y
    <2>6. limit.max * x <= limit.max * y /\ limit.max * x \in Int /\ limit.max * y \in Int
      BY <2>2, <2>5, Times
    <2>7. v <= limit.max * y
      BY <2>3, <2>4, <2>6
    <2>8. QED
      BY <2>7 DEF Near, d, e, i, v, x, y
  <1>3. ASSUME NEW limit \in rule.cumulative
        PROVE  Drifts(limit, recs, n, value, later)
    <2>1. \A t \in recs[n].ts..now : t \in recs[n].ts..later
      BY <1>1
    <2>2. QED
      BY <2>1 DEF Follows, Drifts
  <1>4. QED
    BY <1>2, <1>3 DEF Follows

\* The baseline of a replayed bucket is the oldest record of the window among all that
\* were ever replayed, or the last one if the window is empty.
LEMMA BaselineIs ==
  ASSUME NEW tag, NEW b \in Seq(Lines({tag})), b # <<>>, InTime(b),
         NEW since \in Int, Last(b).ts - Retention <= since
  PROVE  \E o \in 1..Len(b) : /\ Engine!Baseline(Replay(b), since) = b[o].value
                              /\ \A j \in 1..(o - 1) : b[j].ts < since
                              /\ b[o].ts >= since \/ o = Len(b)
  <1>. DEFINE n == Len(b)
              t0 == Last(b).ts
              P == Kept(b, t0)
              at == Ascending(P, n)
              u == Selected(b, P)
              m == Len(at)
              inside == {k \in 1..m : u[k].ts >= since}
  <1>1. /\ n \in Nat \ {0} /\ n \in 1..n /\ DOMAIN b = 1..n /\ t0 = b[n].ts
        /\ \A k \in 1..n : b[k] \in Lines({tag}) /\ b[k].ts \in Nat
    <2>1. n \in Nat /\ n \in 1..n /\ Last(b) = b[n] /\ DOMAIN b = 1..n
      BY LastIs, LenProperties
    <2>2. \A k \in 1..n : b[k] \in Lines({tag}) /\ b[k].ts \in Nat
      BY TaggedTimed
    <2>3. t0 = b[n].ts
      BY <2>1
    <2>. HIDE DEF n, t0
    <2>4. n # 0
      BY <2>1
    <2>5. QED
      BY <2>1, <2>2, <2>3, <2>4
  <1>2. /\ \A k \in 1..n : k \in P <=> b[k].ts >= t0 - Retention \/ k = n
        /\ n \in P
    <2>. HIDE DEF t0
    <2>1. QED
      BY <1>1 DEF Kept
  <1>3. \A k \in 1..n : b[k].ts <= t0
    BY <1>1 DEF InTime
  <1>4. Replay(b) = u
    BY DEF Replay, Pruned, Kept
  <1>. HIDE DEF P
  <1>5. Enumerates(at, P, n)
    BY <1>1, AscendingIs
  <1>. HIDE DEF at
  <1>6. /\ Len(u) = m /\ m \in Nat /\ DOMAIN u = 1..m
        /\ \A k \in 1..m : at[k] \in P /\ at[k] \in 1..n /\ u[k] = b[at[k]]
    <2>1. u \in Seq(Lines({tag})) /\ Len(u) = m /\ m \in Nat
      BY <1>5, SelectedIs, SelectedBy
    <2>2. \A k \in 1..m : at[k] \in P /\ at[k] \in 1..n /\ u[k] = b[at[k]]
      BY <1>5, SelectedBy
    <2>. HIDE DEF u, m
    <2>3. DOMAIN u = 1..m
      BY <2>1, LenProperties
    <2>4. QED
      BY <2>1, <2>2, <2>3
  <1>7. m \in 1..m /\ at[m] = n
    <2>. HIDE DEF n
    <2>1. QED
      BY <1>1, <1>2, <1>5, LastPicked
  <1>8. /\ \A i, j \in 1..m : i < j => at[i] < at[j]
        /\ \A k \in P \cap (1..n) : \E i \in 1..m : at[i] = k
    BY <1>5 DEF Enumerates, Increasing
  <1>. HIDE DEF u, m
  <1>9. Engine!Window(u, since) = inside
    BY <1>6 DEF Engine!Window
  <1>10. CASE inside = {}
    <2>1. Engine!Baseline(u, since) = u[m].value
      BY <1>6, <1>9, <1>10 DEF Engine!Baseline
    <2>2. Engine!Baseline(u, since) = b[n].value
      BY <1>6, <1>7, <2>1
    <2>3. ~(b[n].ts >= since)
      BY <1>6, <1>7, <1>10
    <2>4. \A j \in 1..(n - 1) : b[j].ts < since
      BY <1>1, <1>3, <2>3
    <2>5. QED
      BY <1>1, <1>4, <2>2, <2>4
  <1>11. CASE inside # {}
    <2>. DEFINE f == Engine!Min(inside)
                o == at[f]
    <2>1. Engine!Baseline(u, since) = u[f].value
      BY <1>9, <1>11 DEF Engine!Baseline
    <2>2. f \in inside /\ \A k \in inside : f <= k
      <3>1. inside \in SUBSET Nat
        BY <1>6
      <3>. HIDE DEF inside
      <3>2. \E k \in inside : \A l \in inside : k <= l
        BY <1>11, <3>1, LeastNat
      <3>3. QED
        BY <3>2 DEF Engine!Min
    <2>. HIDE DEF f
    <2>3. f \in 1..m /\ u[f].ts >= since
      BY <2>2
    <2>4. o \in 1..n /\ b[o].ts >= since /\ Engine!Baseline(u, since) = b[o].value
      BY <1>6, <2>1, <2>3
    <2>5. ASSUME NEW j \in 1..(o - 1), b[j].ts >= since
          PROVE  FALSE
      <3>1. j \in 1..n /\ j < o
        BY <1>1, <2>4
      <3>2. b[j].ts >= t0 - Retention
        <4>. DEFINE x == b[j].ts
                    z == b[n].ts
        <4>1. x \in Nat /\ z \in Nat /\ x >= since /\ z - Retention <= since /\ t0 = z
          BY <1>1, <2>5, <3>1
        <4>. HIDE DEF x, z, t0
        <4>2. x >= t0 - Retention
          BY <4>1, RetentionAssumption
        <4>3. QED
          BY <4>2 DEF x
      <3>3. j \in P
        BY <1>2, <3>1, <3>2
      <3>4. PICK k \in 1..m : at[k] = j
        BY <1>8, <3>1, <3>3
      <3>5. k \in inside
        BY <1>6, <2>5, <3>4
      <3>6. f <= k /\ f # k
        BY <2>2, <3>1, <3>4, <3>5
      <3>7. at[f] < at[k]
        BY <1>6, <1>8, <2>3, <3>6
      <3>8. o \in Nat /\ j \in Nat /\ j < o /\ o < j
        BY <2>4, <3>1, <3>4, <3>7
      <3>. HIDE DEF o
      <3>9. QED
        BY <3>8
    <2>6. \A j \in 1..(o - 1) : b[j].ts < since
      <3>1. \A j \in 1..(o - 1) : b[j].ts \in Nat
        BY <1>1, <2>4
      <3>2. QED
        BY <2>5, <3>1
    <2>7. QED
      BY <1>4, <2>4, <2>6
  <1>12. QED
    BY <1>10, <1>11

\* The last record of a replayed bucket is the last there was.
LEMMA ReplayLast ==
  ASSUME NEW tag, NEW b \in Seq(Lines({tag})), b # <<>>
  PROVE  LET u == Replay(b)
         IN  u # <<>> /\ u \in Seq(Lines({tag})) /\ u[Len(u)] = b[Len(b)]
  <1>. DEFINE u == Replay(b)
  <1>1. u \in Seq(Lines({tag})) /\ Len(u) >= 1 /\ Last(u) = Last(b)
    <2>. DEFINE t0 == Last(b).ts
    <2>1. u = Pruned(b, t0)
      BY DEF Replay
    <2>. HIDE DEF u, t0
    <2>2. QED
      BY <2>1, PrunedIs
  <1>. HIDE DEF u
  <1>2. u # <<>>
    BY <1>1, EmptySeq
  <1>3. QED
    BY <1>1, <1>2 DEF Last, u

\* A write that is admitted follows.
LEMMA AdmitVetted ==
  ASSUME TypeOK, LimitTyped, Faithful, landed = written,
         NEW tag \in Tags, NEW value \in Values, Admit(tag, value)
  PROVE  VettedAt([tag |-> tag, value |-> value], rule, Executions(tag), clock)
  <1>. DEFINE b == Executions(tag)
              n == Len(b)
              u == memory[tag]
              m == Len(u)
  <1>1. /\ b \in Seq(Lines({tag})) /\ InTime(b) /\ clock \in Nat
        /\ b # <<>> => Last(b) \in Lines({tag}) /\ Last(b).ts <= clock
    BY RecordedIs DEF Executions, TypeOK
  <1>2. u = Replay(b)
    BY DEF Faithful, FaithfulAt, Executions
  <1>3. SUFFICES ASSUME b # <<>>
                 PROVE  Follows(rule, b, n, value, clock)
    BY DEF VettedAt
  <1>. HIDE DEF b
  <1>4. n \in 1..n /\ n \in Nat /\ b[n] \in Lines({tag}) /\ b[n] = Last(b) /\ b[n].ts \in Nat /\ b[n].ts <= clock
    BY <1>1, <1>3, LastIs, LineFacts
  <1>5. u # <<>> /\ u[m] = b[n]
    BY <1>1, <1>2, <1>3, ReplayLast
  <1>. HIDE DEF u
  <1>6. Engine!RateOk(rule, u, Engine!Number(value), clock) /\ Engine!CumulativeOk(rule, u, Engine!Number(value), clock)
    BY DEF Admit, Engine!SeriesOk, u
  <1>7. ~Engine!Number(value).bool /\ Engine!Number(value).n = value
    BY DEF Engine!Number
  <1>8. ASSUME NEW limit \in rule.rate
        PROVE  Near(limit, b[n], value, clock)
    <2>1. Engine!Magnitude(value - u[m].value) * limit.interval
            <= limit.max * Engine!Min({Engine!Max({clock - u[m].ts, 0}), limit.interval})
      BY <1>5, <1>6, <1>7 DEF Engine!RateOk
    <2>2. Engine!Max({clock - b[n].ts, 0}) = clock - b[n].ts
      <3>1. clock - b[n].ts \in Int /\ clock - b[n].ts >= 0 /\ 0 \in Int
        BY <1>1, <1>4
      <3>2. QED
        BY <3>1, MaxOfTwo
    <2>3. QED
      BY <1>5, <2>1, <2>2 DEF Near
  <1>9. ASSUME NEW limit \in rule.cumulative
        PROVE  Drifts(limit, b, n, value, clock)
    <2>. DEFINE since == clock - limit.interval
    <2>1. since \in Int /\ Last(b).ts - Retention <= since
      <3>1. limit.interval \in Nat /\ limit.interval <= Retention
        BY RuleFacts
      <3>2. QED
        BY <1>1, <1>4, <3>1, RetentionAssumption
    <2>2. value - Engine!Baseline(u, since) \in limit.lo..limit.hi
      BY <1>5, <1>6, <1>7 DEF Engine!CumulativeOk
    <2>. HIDE DEF since
    <2>3. PICK o \in 1..n : /\ Engine!Baseline(Replay(b), since) = b[o].value
                            /\ \A j \in 1..(o - 1) : b[j].ts < since
                            /\ b[o].ts >= since \/ o = n
      BY <1>1, <1>3, <2>1, BaselineIs
    <2>4. value - b[o].value \in limit.lo..limit.hi
      BY <1>2, <2>2, <2>3
    <2>5. clock \in b[n].ts..clock
      BY <1>1, <1>4
    <2>6. QED
      BY <2>3, <2>4, <2>5 DEF Drifts, since
  <1>10. QED
    BY <1>8, <1>9 DEF Follows

\* While nothing is missed and the clock is not set back, what is executed is what is
\* recorded, and memory is its replay.
LEMMA NothingMissed ==
  ASSUME TypeOK, LimitTyped, Booked, Exact, steady, Missed = 0
  PROVE  landed = written /\ Faithful
  <1>1. Len(landed) \in Nat /\ Len(written) \in Nat
    BY LenProperties DEF TypeOK, LimitTyped
  <1>2. Len(landed) = Len(written)
    BY <1>1 DEF Missed
  <1>3. QED
    BY <1>2 DEF Booked, BookedAt, Exact

LEMMA VettedStep ==
  TypeOK /\ LimitTyped /\ Booked /\ Timely /\ Exact /\ Vetted /\ [LimitNext]_<<vars, limitVars>>
    => Vetted'
  <1>. SUFFICES ASSUME TypeOK, LimitTyped, Booked, Timely, Exact, Vetted, [LimitNext]_<<vars, limitVars>>,
                       steady', Missed' = 0, NEW w \in pending'
                PROVE  VettedAt(w, rule', Executions(w.tag)', clock')
    BY DEF Vetted
  <1>1. CASE \E write \in pending : LandStep(write.tag, write.value)
    BY <1>1 DEF LandStep
  <1>2. CASE RebootStep
    BY <1>2 DEF RebootStep
  <1>3. CASE BackStep
    BY <1>3 DEF BackStep
  <1>4. ASSUME RestStep
        PROVE  /\ rule' = rule /\ landed' = landed /\ steady /\ Missed = 0
               /\ Executions(w.tag)' = Executions(w.tag)
               /\ clock \in Nat /\ clock' \in Nat /\ clock <= clock'
    <2>1. rule' = rule /\ landed' = landed /\ written' = written /\ steady
      BY <1>4, Zenon DEF RestStep
    <2>2. clock' = clock \/ clock' = clock + 1
      BY <1>4, Zenon DEF RestStep
    <2>3. clock \in Nat /\ clock' \in Nat /\ clock <= clock'
      BY <2>2 DEF TypeOK
    <2>4. Missed = 0 /\ Executions(w.tag)' = Executions(w.tag)
      BY <2>1 DEF Missed, Executions
    <2>5. QED
      BY <2>1, <2>3, <2>4
  <1>5. CASE RestStep /\ pending' \in SUBSET pending
    <2>. DEFINE b == Executions(w.tag)
                n == Len(b)
    <2>1. w \in pending /\ w.tag \in Tags /\ w.value \in Values
      BY <1>5 DEF LimitTyped, Asked
    <2>2. VettedAt(w, rule, b, clock)
      BY <1>4, <1>5, <2>1 DEF Vetted
    <2>3. b \in Seq(Lines({w.tag})) /\ \A k \in 1..Len(b) : b[k].ts <= clock
      <3>1. landed \in Seq(AnyLine)
        BY DEF LimitTyped, AnyLine
      <3>2. ReadableInTime(landed, clock)
        BY <1>4, <1>5 DEF Timely, TimelyAt
      <3>3. QED
        BY <2>1, <3>1, <3>2, OfTagTyped, TaggedInTime DEF Executions
    <2>. HIDE DEF b
    <2>4. ASSUME b # <<>>
          PROVE  Follows(rule, b, n, w.value, clock')
      <3>1. n \in 1..n
        BY <2>3, <2>4, LastIs
      <3>2. Follows(rule, b, n, w.value, clock) /\ b[n].ts <= clock
        BY <2>2, <2>3, <2>4, <3>1 DEF VettedAt
      <3>3. w.value \in Int
        BY <2>1, ValuesAssumption
      <3>4. QED
        BY <1>4, <1>5, <2>3, <3>1, <3>2, <3>3, FollowsLater
    <2>5. VettedAt(w, rule, b, clock')
      BY <2>4 DEF VettedAt
    <2>6. QED
      BY <1>4, <1>5, <2>5 DEF b
  <1>6. ASSUME NEW tag \in Tags, NEW value \in Values, Admit(tag, value), RestStep, clock' = clock
        PROVE  VettedAt(w, rule', Executions(w.tag)', clock')
    <2>1. w = [tag |-> tag, value |-> value] /\ w.tag = tag
      BY <1>6 DEF Admit
    <2>2. landed = written /\ Faithful
      BY <1>4, <1>6, NothingMissed
    <2>3. VettedAt(w, rule, Executions(tag), clock)
      BY <1>6, <2>1, <2>2, AdmitVetted
    <2>4. QED
      BY <1>4, <1>6, <2>1, <2>3
  <1>7. QED
    BY <1>1, <1>2, <1>3, <1>5, <1>6, LimitCases

LEMMA RegularStep ==
  TypeOK /\ LimitTyped /\ Booked /\ Vetted /\ Regular /\ [LimitNext]_<<vars, limitVars>> => Regular'
  <1>. SUFFICES ASSUME TypeOK, LimitTyped, Booked, Vetted, Regular, [LimitNext]_<<vars, limitVars>>,
                       steady', Missed' = 0, NEW tag \in Tags
                PROVE  SeriesAt(rule', OfTag(landed', tag))
    BY DEF Regular, Executions
  <1>1. /\ landed \in Seq(Lines(Tags)) /\ landed \in Seq(AnyLine) /\ written \in Seq(Lines(Tags))
        /\ Len(landed) \in Nat /\ Len(written) \in Nat /\ Len(written) <= Len(landed)
    BY LenProperties DEF TypeOK, LimitTyped, AnyLine, Booked, BookedAt
  <1>2. ASSUME landed' = landed, written' = written, rule' = rule, steady' = steady
        PROVE  SeriesAt(rule', OfTag(landed', tag))
    <2>1. steady /\ Missed = 0
      BY <1>2, Zenon DEF Missed
    <2>2. SeriesAt(rule, OfTag(landed, tag))
      BY <2>1 DEF Regular, Executions
    <2>3. QED
      BY <1>2, <2>2
  <1>3. CASE RestStep
    <2>1. landed' = landed /\ written' = written /\ rule' = rule /\ steady' = steady
      BY <1>3, Zenon DEF RestStep
    <2>2. QED
      BY <1>2, <2>1
  <1>4. CASE RebootStep
    <2>1. landed' = landed /\ written' = written /\ rule' = rule /\ steady' = steady
      BY <1>4, Zenon DEF RebootStep, Restart
    <2>2. QED
      BY <1>2, <2>1
  <1>5. CASE BackStep
    BY <1>5 DEF BackStep
  <1>6. ASSUME NEW write \in pending, LandStep(write.tag, write.value)
        PROVE  SeriesAt(rule', OfTag(landed', tag))
    <2>. DEFINE line == Line(write.tag, write.value)
                b == OfTag(landed, tag)
    <2>1. write.tag \in Tags /\ write.value \in Values
      BY DEF LimitTyped, Asked
    <2>2. /\ line \in Lines(Tags) /\ line \in Lines({write.tag})
          /\ line.tag = write.tag /\ line.value = write.value /\ line.ts = clock
          /\ written' = Append(written, line) \/ written' = written
      BY <1>6, <2>1, LandCases
    <2>3. landed' = Append(landed, line) /\ rule' = rule /\ steady
      BY <1>6, Zenon DEF LandStep
    <2>4. Missed = 0
      <3>1. Len(landed') = Len(landed) + 1 /\ Len(Append(written, line)) = Len(written) + 1
        <4>. HIDE DEF line
        <4>1. QED
          BY <1>1, <2>2, <2>3, AppendProperties
      <3>2. Len(landed') - Len(written') = 0
        BY DEF Missed
      <3>. HIDE DEF line
      <3>3. QED
        BY <1>1, <2>2, <3>1, <3>2 DEF Missed
    <2>5. SeriesAt(rule, b)
      BY <2>3, <2>4 DEF Regular, Executions
    <2>6. OfTag(landed', tag) = IF line.tag = tag THEN Append(b, line) ELSE b
      BY <1>1, <2>2, <2>3, TaggedAppend
    <2>7. ASSUME write.tag = tag
          PROVE  SeriesAt(rule, Append(b, line))
      <3>1. b # <<>> => Follows(rule, b, Len(b), line.value, line.ts)
        BY <2>2, <2>3, <2>4, <2>7 DEF Vetted, VettedAt, Executions
      <3>2. b \in Seq(Lines({tag})) /\ line \in Lines({tag})
        BY <1>1, <2>2, <2>7, OfTagTyped
      <3>. DEFINE S == Lines({tag})
      <3>3. b \in Seq(S) /\ line \in S
        BY <3>2
      <3>. HIDE DEF S, b, line
      <3>4. QED
        BY <2>5, <3>1, <3>3, SeriesAppend
    <2>. HIDE DEF b, line
    <2>8. QED
      BY <2>2, <2>3, <2>5, <2>6, <2>7
  <1>7. QED
    BY <1>3, <1>4, <1>5, <1>6, LimitCases

LEMMA RegularInit == LimitInit => Vetted /\ Regular
  <1>. SUFFICES ASSUME LimitInit
                PROVE  Vetted /\ Regular
    OBVIOUS
  <1>1. pending = {} /\ landed = <<>>
    BY DEF LimitInit
  <1>2. Vetted
    BY <1>1 DEF Vetted
  <1>3. ASSUME NEW tag \in Tags
        PROVE  SeriesAt(rule, Executions(tag))
    <2>1. Executions(tag) = <<>>
      BY <1>1, SelectedNothing DEF Executions, OfTag
    <2>2. Len(<<>>) = 0
      BY EmptySeq
    <2>3. QED
      BY <2>1, <2>2 DEF SeriesAt
  <1>4. QED
    BY <1>2, <1>3 DEF Regular

\* Series are regular, and what is at the backend will not spoil that.
THEOREM SeriesHolds == LimitSpec => [](Vetted /\ Regular)
  <1>1. LimitInit => Vetted /\ Regular
    BY RegularInit
  <1>2. TypeOK /\ Deployed /\ Exact /\ Vetted /\ Regular /\ [LimitNext]_<<vars, limitVars>>
          => Vetted' /\ Regular'
    BY VettedStep, RegularStep DEF Deployed
  <1>3. QED
    BY <1>1, <1>2, DeploymentHolds, LimitsUseTheHistory, ExactAlways, PTL DEF LimitSpec

\* From one executed write to the next the value moves at most as far as max_rate allows
\* for the time between them, restarts or not, while no put has failed and the clock is
\* not set back: a write is admitted against the true last one, and the time that passes
\* until it lands only widens what it is allowed.
THEOREM RateOverRestarts == LimitSpec => []RateDurable
  <1>1. LimitTyped /\ Regular => RateDurable
    <2>. SUFFICES ASSUME LimitTyped, Regular, steady, Missed = 0, NEW tag \in Tags, NEW limit \in rule.rate,
                         NEW i \in 1..(Len(Executions(tag)) - 1)
                  PROVE  LET recs == Executions(tag)
                             elapsed == Engine!Min({recs[i + 1].ts - recs[i].ts, limit.interval})
                         IN  Engine!Magnitude(recs[i + 1].value - recs[i].value) * limit.interval
                               <= limit.max * elapsed
      BY DEF RateDurable
    <2>1. SeriesAt(rule, Executions(tag))
      BY DEF Regular
    <2>2. Near(limit, Executions(tag)[i], Executions(tag)[i + 1].value, Executions(tag)[i + 1].ts)
      BY <2>1 DEF SeriesAt, Follows
    <2>3. QED
      BY <2>2 DEF Near
  <1>2. QED
    BY <1>1, DeploymentHolds, SeriesHolds, PTL DEF Deployed

\* Every write stays within cumulative_range of the oldest write in the window that
\* ended at some moment between it and the write before: no restart moves the baseline.
THEOREM DriftOverRestarts == LimitSpec => []DriftDurable
  <1>1. LimitTyped /\ Regular => DriftDurable
    <2>. SUFFICES ASSUME LimitTyped, Regular, steady, Missed = 0, NEW tag \in Tags,
                         NEW limit \in rule.cumulative, NEW k \in 2..Len(Executions(tag))
                  PROVE  LET recs == Executions(tag)
                         IN  \E t \in recs[k - 1].ts..recs[k].ts, b \in 1..(k - 1) :
                               /\ \A j \in 1..(b - 1) : recs[j].ts < t - limit.interval
                               /\ recs[b].ts >= t - limit.interval \/ b = k - 1
                               /\ recs[k].value - recs[b].value \in limit.lo..limit.hi
      BY DEF DriftDurable
    <2>. DEFINE recs == Executions(tag)
                p == k - 1
    <2>1. Len(recs) \in Nat
      <3>1. landed \in Seq(AnyLine)
        BY DEF LimitTyped, AnyLine
      <3>2. recs \in Seq(Lines({tag}))
        BY <3>1, OfTagTyped DEF Executions
      <3>. HIDE DEF recs
      <3>3. QED
        BY <3>2, LenProperties
    <2>2. SeriesAt(rule, recs)
      BY DEF Regular
    <2>. HIDE DEF recs
    <2>3. p \in 1..(Len(recs) - 1) /\ p + 1 = k
      BY <2>1 DEF recs
    <2>. HIDE DEF p
    <2>4. Drifts(limit, recs, p, recs[k].value, recs[k].ts)
      BY <2>2, <2>3 DEF SeriesAt, Follows
    <2>5. QED
      BY <2>4 DEF Drifts, recs, p
  <1>2. QED
    BY <1>1, DeploymentHolds, SeriesHolds, PTL DEF Deployed
=============================================================================
