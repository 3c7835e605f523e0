---------------------------- MODULE SelectionProofs ----------------------------
(***************************************************************************)
(* What the operators of Selections compute.  Induction is by the least    *)
(* number principle, with the property a set: the provers cannot           *)
(* instantiate a theorem that takes the property as an operator.           *)
(***************************************************************************)
EXTENDS Selections, WellFoundedInduction, SequenceTheorems, TLAPS

\* A set of natural numbers that is not empty has a least member.
LEMMA LeastNat ==
  ASSUME NEW T \in SUBSET Nat, T # {}
  PROVE  \E n \in T : \A m \in T : n <= m
  <1>. DEFINE less == {ss \in Nat \X Nat : ss[1] < ss[2]}
  <1>1. IsWellFoundedOn(less, Nat)
    BY NatLessThanWellFounded DEF OpToRel
  <1>2. PICK n \in T : \A m \in T : <<m, n>> \notin less
    BY <1>1, WFMin
  <1>3. ASSUME NEW m \in T, m < n
        PROVE  FALSE
    <2>1. <<m, n>> \in Nat \X Nat /\ <<m, n>>[1] < <<m, n>>[2]
      BY <1>3
    <2>2. QED
      BY <1>2, <2>1
  <1>4. QED
    BY <1>3

\* Induction.
LEMMA InductionNat ==
  ASSUME NEW S, 0 \in S, \A n \in Nat : n \in S => n + 1 \in S
  PROVE  Nat \subseteq S
  <1>1. ASSUME Nat \ S # {}
        PROVE  FALSE
    <2>1. PICK n \in Nat \ S : \A m \in Nat \ S : n <= m
      BY <1>1, LeastNat
    <2>2. n # 0 /\ n - 1 \in Nat /\ n - 1 \in S
      BY <2>1
    <2>3. QED
      BY <2>1, <2>2
  <1>2. QED
    BY <1>1

-----------------------------------------------------------------------------

Increasing(a) == \A j, k \in 1..Len(a) : j < k => a[j] < a[k]

\* One more number, if it is picked.
Next1(picked, u, k) ==
  IF k = 0 THEN <<>> ELSE IF k \in picked THEN Append(u[k - 1], k) ELSE u[k - 1]

\* The recursion has a solution, and Ascending is its last value.
LEMMA AscendingSolved ==
  ASSUME NEW picked, NEW n \in Nat
  PROVE  \E u : u = [k \in 0..n |-> Next1(picked, u, k)] /\ Ascending(picked, n) = u[n]
  <1>. DEFINE F(N, u) == [k \in 0..N |-> Next1(picked, u, k)]
              S == {N \in Nat : \E u : u = F(N, u)}
  <1>1. 0 \in S
    <2>1. F(0, <<>>) = F(0, F(0, <<>>))
      BY DEF Next1
    <2>. HIDE DEF F
    <2>2. QED
      BY <2>1
  <1>2. ASSUME NEW N \in Nat, N \in S
        PROVE  N + 1 \in S
    <2>1. PICK u : u = F(N, u)
      BY <1>2
    <2>. DEFINE v == [k \in 0..(N + 1) |-> IF k <= N THEN u[k] ELSE Next1(picked, u, k)]
    <2>2. \A k \in 0..(N + 1) : v[k] = Next1(picked, v, k)
      <3>1. \A k \in 0..N : v[k] = u[k]
        OBVIOUS
      <3>2. v[N + 1] = Next1(picked, u, N + 1)
        OBVIOUS
      <3>3. \A k \in 0..(N + 1) : Next1(picked, v, k) = Next1(picked, u, k)
        <4>. HIDE DEF v
        <4>. SUFFICES ASSUME NEW k \in 0..(N + 1) PROVE Next1(picked, v, k) = Next1(picked, u, k)
          OBVIOUS
        <4>1. k # 0 => k - 1 \in 0..N
          OBVIOUS
        <4>2. QED
          BY <3>1, <4>1 DEF Next1
      <3>4. \A k \in 0..N : u[k] = Next1(picked, u, k)
        BY <2>1
      <3>. HIDE DEF v
      <3>5. \A k \in 0..(N + 1) : k \in 0..N \/ k = N + 1
        OBVIOUS
      <3>6. QED
        BY <3>1, <3>2, <3>3, <3>4, <3>5
    <2>3. v = F(N + 1, v)
      BY <2>2
    <2>. HIDE DEF v, F
    <2>4. QED
      BY <2>3
  <1>3. n \in S
    <2>. HIDE DEF S
    <2>1. QED
      BY <1>1, <1>2, InductionNat
  <1>4. QED
    BY <1>3 DEF Ascending, Next1

\* The picked ones of 1..n, each once, in ascending order.
Enumerates(a, picked, n) ==
  /\ a \in Seq(picked \cap (1..n))
  /\ Increasing(a)
  /\ \A m \in picked \cap (1..n) : \E k \in 1..Len(a) : a[k] = m

\* An enumeration of no number.
LEMMA EnumeratesNone ==
  ASSUME NEW picked
  PROVE  Enumerates(<<>>, picked, 0)
  <1>1. Len(<<>>) = 0 /\ 1..0 = {} /\ <<>> \in Seq(picked \cap (1..0))
    BY EmptySeq
  <1>2. QED
    BY <1>1 DEF Enumerates, Increasing

\* One more number.
LEMMA EnumeratesNext ==
  ASSUME NEW picked, NEW n \in Nat, NEW a, Enumerates(a, picked, n)
  PROVE  Enumerates(IF n + 1 \in picked THEN Append(a, n + 1) ELSE a, picked, n + 1)
  <1>1. /\ a \in Seq(picked \cap (1..n)) /\ Len(a) \in Nat
        /\ \A k \in 1..Len(a) : a[k] \in picked \cap (1..n)
    BY LenProperties, ElementOfSeq DEF Enumerates
  <1>2. CASE n + 1 \in picked
    <2>. DEFINE b == Append(a, n + 1)
                T == picked \cap (1..(n + 1))
    <2>1. picked \cap (1..n) \subseteq T /\ n + 1 \in T
      BY <1>2
    <2>2. a \in Seq(T)
      BY <1>1, <2>1, SeqMonotonic
    <2>3. /\ b \in Seq(T) /\ Len(b) = Len(a) + 1 /\ b[Len(a) + 1] = n + 1
          /\ \A k \in 1..Len(a) : b[k] = a[k]
      BY <2>1, <2>2, AppendProperties
    <2>. HIDE DEF b
    <2>4. \A k \in 1..Len(b) : k \in 1..Len(a) \/ k = Len(a) + 1
      BY <1>1, <2>3
    <2>5. Increasing(b)
      <3>1. \A j \in 1..Len(a) : a[j] \in Nat /\ a[j] < n + 1
        BY <1>1
      <3>2. ASSUME NEW j \in 1..Len(b), NEW k \in 1..Len(b), j < k
            PROVE  b[j] < b[k]
        <4>1. j \in 1..Len(a)
          BY <1>1, <2>3, <3>2
        <4>2. CASE k \in 1..Len(a)
          BY <2>3, <3>2, <4>1, <4>2 DEF Enumerates, Increasing
        <4>3. CASE k = Len(a) + 1
          BY <2>3, <3>1, <4>1, <4>3
        <4>4. QED
          BY <2>4, <4>2, <4>3
      <3>3. QED
        BY <3>2 DEF Increasing
    <2>6. ASSUME NEW m \in T
          PROVE  \E k \in 1..Len(b) : b[k] = m
      <3>1. CASE m = n + 1
        BY <1>1, <2>3, <3>1
      <3>2. CASE m # n + 1
        <4>1. m \in picked \cap (1..n)
          BY <3>2
        <4>2. PICK k \in 1..Len(a) : a[k] = m
          BY <4>1 DEF Enumerates
        <4>3. k \in 1..Len(b) /\ b[k] = m
          BY <1>1, <2>3, <4>2
        <4>4. QED
          BY <4>3
      <3>3. QED
        BY <3>1, <3>2
    <2>7. Enumerates(b, picked, n + 1)
      BY <2>3, <2>5, <2>6 DEF Enumerates
    <2>8. QED
      BY <1>2, <2>7 DEF b
  <1>3. CASE n + 1 \notin picked
    <2>1. picked \cap (1..(n + 1)) = picked \cap (1..n)
      BY <1>3
    <2>2. QED
      BY <1>3, <2>1 DEF Enumerates
  <1>4. QED
    BY <1>2, <1>3

\* What Ascending computes.
LEMMA AscendingIs ==
  ASSUME NEW picked, NEW n \in Nat
  PROVE  Enumerates(Ascending(picked, n), picked, n)
  <1>1. PICK u : u = [k \in 0..n |-> Next1(picked, u, k)] /\ Ascending(picked, n) = u[n]
    BY AscendingSolved
  <1>. DEFINE S == {N \in Nat : N <= n => Enumerates(u[N], picked, N)}
  <1>. \A k \in 0..n : u[k] = Next1(picked, u, k)
    BY <1>1
  <1>2. 0 \in S
    <2>1. u[0] = <<>>
      BY <1>1 DEF Next1
    <2>2. QED
      BY <2>1, EnumeratesNone
  <1>3. ASSUME NEW N \in Nat, N \in S
        PROVE  N + 1 \in S
    <2>1. ASSUME N + 1 <= n
          PROVE  Enumerates(u[N + 1], picked, N + 1)
      <3>1. Enumerates(u[N], picked, N)
        BY <1>3, <2>1
      <3>2. u[N + 1] = IF N + 1 \in picked THEN Append(u[N], N + 1) ELSE u[N]
        BY <2>1 DEF Next1
      <3>3. QED
        BY <3>1, <3>2, EnumeratesNext
    <2>2. QED
      BY <2>1
  <1>4. n \in S
    <2>. HIDE DEF S
    <2>1. QED
      BY <1>2, <1>3, InductionNat
  <1>5. QED
    BY <1>1, <1>4

\* The first place where two sequences differ; a has the smaller number.
FirstBelow(a, b, k) ==
  /\ k \in 1..Len(a)
  /\ \A j \in 1..(k - 1) : j \in 1..Len(b) /\ a[j] = b[j]
  /\ k \in 1..Len(b) => a[k] < b[k]

\* Then that number is missing from the other sequence, if both increase.
LEMMA NoFirstDifference ==
  ASSUME NEW a \in Seq(Nat), NEW b \in Seq(Nat), Increasing(a), Increasing(b),
         NEW k, FirstBelow(a, b, k), NEW m \in 1..Len(b), b[m] = a[k]
  PROVE  FALSE
  <1>1. /\ k \in 1..Len(a)
        /\ \A j \in 1..(k - 1) : j \in 1..Len(b) /\ a[j] = b[j]
        /\ k \in 1..Len(b) => a[k] < b[k]
    BY DEF FirstBelow
  <1>2. /\ Len(a) \in Nat /\ Len(b) \in Nat /\ k \in Nat /\ m \in Nat
        /\ a[k] \in Nat /\ b[m] \in Nat
    BY <1>1, LenProperties, ElementOfSeq
  <1>3. CASE m < k
    <2>1. a[m] = b[m] /\ m \in 1..Len(a)
      BY <1>1, <1>2, <1>3
    <2>2. QED
      BY <1>1, <1>2, <1>3, <2>1 DEF Increasing
  <1>4. CASE ~(m < k)
    <2>1. k \in 1..Len(b)
      BY <1>1, <1>2, <1>4
    <2>2. b[k] \in Nat
      BY <2>1, ElementOfSeq
    <2>3. m = k \/ b[k] < b[m]
      BY <1>2, <1>4, <2>1 DEF Increasing
    <2>4. QED
      BY <1>1, <1>2, <2>1, <2>2, <2>3
  <1>5. QED
    BY <1>3, <1>4

\* Two increasing sequences of one set of numbers are one sequence.
LEMMA OneIncreasing ==
  ASSUME NEW a \in Seq(Nat), NEW b \in Seq(Nat), Increasing(a), Increasing(b),
         \A j \in 1..Len(a) : \E k \in 1..Len(b) : b[k] = a[j],
         \A k \in 1..Len(b) : \E j \in 1..Len(a) : a[j] = b[k]
  PROVE  a = b
  <1>1. /\ Len(a) \in Nat /\ Len(b) \in Nat
        /\ \A k \in 1..Len(a) : a[k] \in Nat
        /\ \A k \in 1..Len(b) : b[k] \in Nat
    BY LenProperties, ElementOfSeq
  <1>. DEFINE Agree(k) == k \in 1..Len(a) /\ k \in 1..Len(b) /\ a[k] = b[k]
              D == {k \in Nat : (k \in 1..Len(a) \/ k \in 1..Len(b)) /\ ~Agree(k)}
  <1>2. ASSUME D # {}
        PROVE  FALSE
    <2>1. PICK k \in D : \A m \in D : k <= m
      BY <1>2, LeastNat
    <2>2. \A m \in 1..(k - 1) : Agree(m)
      <3>. SUFFICES ASSUME NEW m \in 1..(k - 1) PROVE Agree(m)
        OBVIOUS
      <3>1. m \in Nat /\ m < k /\ k \in Nat /\ (k \in 1..Len(a) \/ k \in 1..Len(b))
        BY <2>1
      <3>2. m \in 1..Len(a) \/ m \in 1..Len(b)
        BY <1>1, <3>1
      <3>3. m \notin D
        BY <2>1, <3>1
      <3>. HIDE DEF Agree
      <3>4. QED
        BY <3>1, <3>2, <3>3
    <2>3. CASE k \in 1..Len(a) /\ (k \in 1..Len(b) => a[k] < b[k])
      <3>1. FirstBelow(a, b, k)
        BY <2>2, <2>3 DEF FirstBelow
      <3>2. PICK m \in 1..Len(b) : b[m] = a[k]
        BY <2>3
      <3>3. QED
        BY <3>1, <3>2, NoFirstDifference
    <2>4. CASE k \in 1..Len(b) /\ (k \in 1..Len(a) => b[k] < a[k])
      <3>1. FirstBelow(b, a, k)
        BY <2>2, <2>4 DEF FirstBelow
      <3>2. PICK m \in 1..Len(a) : a[m] = b[k]
        BY <2>4
      <3>3. QED
        BY <3>1, <3>2, NoFirstDifference
    <2>5. (k \in 1..Len(a) \/ k \in 1..Len(b)) /\ ~Agree(k)
      BY <2>1
    <2>6. CASE k \in 1..Len(a) /\ k \in 1..Len(b)
      <3>1. a[k] \in Nat /\ b[k] \in Nat /\ a[k] # b[k]
        BY <1>1, <2>5, <2>6 DEF Agree
      <3>2. CASE a[k] < b[k]
        BY <2>3, <2>6, <3>2
      <3>3. CASE b[k] < a[k]
        BY <2>4, <2>6, <3>3
      <3>4. QED
        BY <3>1, <3>2, <3>3
    <2>7. QED
      BY <2>3, <2>4, <2>5, <2>6
  <1>3. \A k \in Nat : k \in 1..Len(a) \/ k \in 1..Len(b) => Agree(k)
    <2>. HIDE DEF Agree
    <2>1. QED
      BY <1>2
  <1>. HIDE DEF D
  <1>4. Len(a) = Len(b)
    <2>1. Len(a) > 0 => Len(a) \in 1..Len(b)
      BY <1>1, <1>3
    <2>2. Len(b) > 0 => Len(b) \in 1..Len(a)
      BY <1>1, <1>3
    <2>3. QED
      BY <1>1, <2>1, <2>2
  <1>5. \A k \in 1..Len(a) : a[k] = b[k]
    BY <1>1, <1>3
  <1>6. QED
    BY <1>4, <1>5, SeqEqual

\* What is selected of s are its elements at the picked positions, in the order of s.
LEMMA SelectedIs ==
  ASSUME NEW S, NEW s \in Seq(S), NEW picked
  PROVE  /\ Selected(s, picked) \in Seq(S)
         /\ \E at : /\ Enumerates(at, picked, Len(s))
                    /\ Len(Selected(s, picked)) = Len(at)
                    /\ \A k \in 1..Len(at) : Selected(s, picked)[k] = s[at[k]]
  <1>. DEFINE at == Ascending(picked, Len(s))
              r == [n \in DOMAIN at |-> s[at[n]]]
  <1>1. Len(s) \in Nat /\ \A k \in 1..Len(s) : s[k] \in S
    BY LenProperties, ElementOfSeq
  <1>2. Enumerates(at, picked, Len(s))
    BY <1>1, AscendingIs
  <1>. HIDE DEF at
  <1>3. Len(at) \in Nat /\ DOMAIN at = 1..Len(at) /\ \A k \in 1..Len(at) : at[k] \in 1..Len(s)
    BY <1>2, LenProperties, ElementOfSeq DEF Enumerates
  <1>4. r \in [1..Len(at) -> S]
    BY <1>1, <1>3
  <1>5. r \in Seq(S) /\ Len(r) = Len(at)
    BY <1>3, <1>4
  <1>6. \A k \in 1..Len(at) : r[k] = s[at[k]]
    BY <1>3
  <1>7. Selected(s, picked) = r
    BY DEF Selected, at
  <1>. HIDE DEF r
  <1>8. QED
    BY <1>2, <1>5, <1>6, <1>7

-----------------------------------------------------------------------------
(* Selections compared *)

\* A set of positions is enumerated in one way.
LEMMA EnumeratesOnce ==
  ASSUME NEW n \in Nat, NEW P, NEW Q, P \cap (1..n) = Q \cap (1..n),
         NEW a, NEW b, Enumerates(a, P, n), Enumerates(b, Q, n)
  PROVE  a = b
  <1>. DEFINE T == P \cap (1..n)
  <1>1. /\ a \in Seq(T) /\ Increasing(a) /\ \A m \in T : \E k \in 1..Len(a) : a[k] = m
        /\ b \in Seq(T) /\ Increasing(b) /\ \A m \in T : \E k \in 1..Len(b) : b[k] = m
    BY DEF Enumerates
  <1>2. T \subseteq Nat
    OBVIOUS
  <1>. HIDE DEF T
  <1>3. /\ Len(a) \in Nat /\ a \in [1..Len(a) -> T] /\ \A k \in 1..Len(a) : a[k] \in T
        /\ Len(b) \in Nat /\ b \in [1..Len(b) -> T] /\ \A k \in 1..Len(b) : b[k] \in T
    BY <1>1, LenProperties, ElementOfSeq
  <1>4. a \in Seq(Nat) /\ b \in Seq(Nat)
    <2>1. a \in [1..Len(a) -> Nat] /\ b \in [1..Len(b) -> Nat]
      BY <1>2, <1>3
    <2>2. QED
      BY <1>3, <2>1
  <1>5. QED
    BY <1>1, <1>3, <1>4, OneIncreasing

\* What an enumeration of the picked positions says of the selection.
LEMMA SelectedBy ==
  ASSUME NEW S, NEW s \in Seq(S), NEW picked, NEW at, Enumerates(at, picked, Len(s))
  PROVE  /\ at = Ascending(picked, Len(s)) /\ Len(at) \in Nat
         /\ \A k \in 1..Len(at) : at[k] \in picked /\ at[k] \in 1..Len(s)
         /\ Selected(s, picked) = [k \in 1..Len(at) |-> s[at[k]]]
         /\ Len(Selected(s, picked)) = Len(at)
         /\ \A k \in 1..Len(at) : Selected(s, picked)[k] = s[at[k]]
  <1>1. Len(s) \in Nat
    BY LenProperties
  <1>2. at = Ascending(picked, Len(s))
    BY <1>1, AscendingIs, EnumeratesOnce
  <1>. DEFINE T == picked \cap (1..Len(s))
  <1>3. at \in Seq(T)
    BY DEF Enumerates
  <1>. HIDE DEF T
  <1>4. Len(at) \in Nat /\ DOMAIN at = 1..Len(at) /\ \A k \in 1..Len(at) : at[k] \in T
    BY <1>3, LenProperties, ElementOfSeq
  <1>5. Selected(s, picked) = [k \in 1..Len(at) |-> s[at[k]]]
    BY <1>2, <1>4 DEF Selected
  <1>6. Len([k \in 1..Len(at) |-> s[at[k]]]) = Len(at)
    BY <1>4
  <1>7. \A k \in 1..Len(at) : at[k] \in picked /\ at[k] \in 1..Len(s)
    BY <1>4 DEF T
  <1>8. QED
    BY <1>2, <1>4, <1>5, <1>6, <1>7

\* Only the picked positions of the sequence count.
LEMMA SelectedSame ==
  ASSUME NEW S, NEW s \in Seq(S), NEW P, NEW Q, P \cap (1..Len(s)) = Q \cap (1..Len(s))
  PROVE  Selected(s, P) = Selected(s, Q)
  <1>1. Len(s) \in Nat
    BY LenProperties
  <1>2. Ascending(P, Len(s)) = Ascending(Q, Len(s))
    BY <1>1, AscendingIs, EnumeratesOnce
  <1>3. QED
    BY <1>2 DEF Selected

\* A selection of a selection.
LEMMA SelectedTwice ==
  ASSUME NEW S, NEW s \in Seq(S), NEW P, NEW Q, NEW R,
         NEW at, Enumerates(at, P, Len(s)),
         \A m \in Q \cap (1..Len(s)) : m \in P,
         \A k \in 1..Len(at) : k \in R <=> at[k] \in Q
  PROVE  Selected(Selected(s, P), R) = Selected(s, Q)
  <1>. DEFINE n == Len(s)
              t == Selected(s, P)
              bt == Ascending(R, Len(t))
              ct == [k \in 1..Len(bt) |-> at[bt[k]]]
  <1>1. /\ n \in Nat /\ Len(at) \in Nat
        /\ \A k \in 1..Len(at) : at[k] \in P /\ at[k] \in 1..n
        /\ Len(t) = Len(at) /\ \A k \in 1..Len(at) : t[k] = s[at[k]]
        /\ \A p, q \in 1..Len(at) : p < q => at[p] < at[q]
        /\ \A m \in P \cap (1..n) : \E k \in 1..Len(at) : at[k] = m
    <2>1. n \in Nat
      BY LenProperties
    <2>2. /\ Len(at) \in Nat
          /\ \A k \in 1..Len(at) : at[k] \in P /\ at[k] \in 1..n
          /\ Len(t) = Len(at) /\ \A k \in 1..Len(at) : t[k] = s[at[k]]
      BY SelectedBy
    <2>3. /\ \A p, q \in 1..Len(at) : p < q => at[p] < at[q]
          /\ \A m \in P \cap (1..n) : \E k \in 1..Len(at) : at[k] = m
      BY DEF Enumerates, Increasing
    <2>4. QED
      BY <2>1, <2>2, <2>3
  <1>2. t \in Seq(S)
    BY SelectedIs
  <1>. HIDE DEF t
  <1>3. Enumerates(bt, R, Len(t))
    BY <1>1, AscendingIs
  <1>. HIDE DEF bt
  <1>4. /\ Len(bt) \in Nat
        /\ \A k \in 1..Len(bt) : bt[k] \in R /\ bt[k] \in 1..Len(t)
        /\ Selected(t, R) = [k \in 1..Len(bt) |-> t[bt[k]]]
    BY <1>2, <1>3, SelectedBy
  <1>5. /\ \A p, q \in 1..Len(bt) : p < q => bt[p] < bt[q]
        /\ \A m \in R \cap (1..Len(t)) : \E k \in 1..Len(bt) : bt[k] = m
    BY <1>3 DEF Enumerates, Increasing
  <1>6. \A k \in 1..Len(bt) : ct[k] = at[bt[k]] /\ ct[k] \in Q \cap (1..n)
    BY <1>1, <1>4
  <1>7. ct \in Seq(Q \cap (1..n)) /\ Len(ct) = Len(bt)
    <2>. DEFINE T == Q \cap (1..n)
    <2>1. ct \in [1..Len(bt) -> T]
      BY <1>6
    <2>. HIDE DEF T, ct
    <2>2. ct \in Seq(T) /\ Len(ct) = Len(bt)
      BY <1>4, <2>1, LenProperties
    <2>3. QED
      BY <2>2 DEF T
  <1>. HIDE DEF ct
  <1>8. Enumerates(ct, Q, n)
    <2>1. Increasing(ct)
      <3>1. ASSUME NEW p \in 1..Len(bt), NEW q \in 1..Len(bt), p < q
            PROVE  ct[p] < ct[q]
        <4>1. bt[p] < bt[q] /\ bt[p] \in 1..Len(at) /\ bt[q] \in 1..Len(at)
          BY <1>1, <1>4, <1>5, <3>1
        <4>2. at[bt[p]] < at[bt[q]]
          BY <1>1, <4>1
        <4>3. QED
          BY <1>6, <4>2
      <3>2. QED
        BY <1>7, <3>1 DEF Increasing
    <2>2. ASSUME NEW m \in Q \cap (1..n)
          PROVE  \E k \in 1..Len(ct) : ct[k] = m
      <3>1. PICK j \in 1..Len(at) : at[j] = m
        BY <1>1, <2>2
      <3>2. j \in R \cap (1..Len(t))
        BY <1>1, <3>1
      <3>3. PICK k \in 1..Len(bt) : bt[k] = j
        BY <1>5, <3>2
      <3>4. QED
        BY <1>6, <1>7, <3>1, <3>3
    <2>3. QED
      BY <1>7, <2>1, <2>2 DEF Enumerates
  <1>9. Selected(s, Q) = [k \in 1..Len(ct) |-> s[ct[k]]]
    BY <1>8, SelectedBy
  <1>10. \A k \in 1..Len(bt) : t[bt[k]] = s[ct[k]]
    BY <1>1, <1>4, <1>6
  <1>11. Selected(t, R) = Selected(s, Q)
    BY <1>4, <1>7, <1>9, <1>10
  <1>12. QED
    BY <1>11 DEF t

\* One more element to select from.
LEMMA SelectedAppend ==
  ASSUME NEW S, NEW s \in Seq(S), NEW e \in S, NEW P
  PROVE  Selected(Append(s, e), P) =
           IF Len(s) + 1 \in P THEN Append(Selected(s, P), e) ELSE Selected(s, P)
  <1>. DEFINE n == Len(s)
              t == Append(s, e)
              at == Ascending(P, n)
              bt == IF n + 1 \in P THEN Append(at, n + 1) ELSE at
              u == Selected(s, P)
  <1>1. n \in Nat /\ t \in Seq(S) /\ Len(t) = n + 1 /\ t[n + 1] = e /\ \A k \in 1..n : t[k] = s[k]
    BY LenProperties, AppendProperties
  <1>2. Enumerates(at, P, n)
    BY <1>1, AscendingIs
  <1>. HIDE DEF at
  <1>3. Enumerates(bt, P, n + 1)
    BY <1>1, <1>2, EnumeratesNext
  <1>. HIDE DEF t, bt
  <1>4. /\ Len(at) \in Nat /\ \A k \in 1..Len(at) : at[k] \in 1..n
        /\ u = [k \in 1..Len(at) |-> s[at[k]]] /\ Len(u) = Len(at)
    BY <1>2, SelectedBy
  <1>5. Selected(t, P) = [k \in 1..Len(bt) |-> t[bt[k]]]
    BY <1>1, <1>3, SelectedBy
  <1>6. CASE n + 1 \notin P
    <2>1. bt = at
      BY <1>6 DEF bt
    <2>2. Selected(t, P) = u
      BY <1>1, <1>4, <1>5, <2>1
    <2>3. QED
      BY <1>6, <2>2 DEF t
  <1>7. CASE n + 1 \in P
    <2>1. at \in Seq(Nat)
      <3>. DEFINE T == P \cap (1..n)
      <3>1. at \in Seq(T) /\ T \subseteq Nat
        BY <1>2 DEF Enumerates
      <3>. HIDE DEF T
      <3>2. at \in [1..Len(at) -> Nat]
        BY <3>1, LenProperties
      <3>3. QED
        BY <1>4, <3>2
    <2>2. Len(bt) = Len(at) + 1 /\ bt[Len(at) + 1] = n + 1 /\ \A k \in 1..Len(at) : bt[k] = at[k]
      <3>1. bt = Append(at, n + 1) /\ n + 1 \in Nat
        BY <1>1, <1>7 DEF bt
      <3>2. QED
        BY <2>1, <3>1, AppendProperties
    <2>3. Selected(t, P) = [k \in 1..(Len(at) + 1) |-> IF k = Len(at) + 1 THEN e ELSE s[at[k]]]
      <3>1. \A k \in 1..(Len(at) + 1) : t[bt[k]] = IF k = Len(at) + 1 THEN e ELSE s[at[k]]
        BY <1>1, <1>4, <2>2
      <3>2. QED
        BY <1>5, <2>2, <3>1
    <2>4. Append(u, e) = [k \in 1..(Len(at) + 1) |-> IF k = Len(at) + 1 THEN e ELSE s[at[k]]]
      <3>1. u \in Seq(S)
        BY SelectedIs
      <3>. HIDE DEF u
      <3>2. Append(u, e) \in Seq(S) /\ Len(Append(u, e)) = Len(at) + 1
            /\ Append(u, e)[Len(at) + 1] = e /\ \A k \in 1..Len(at) : Append(u, e)[k] = u[k]
        BY <1>4, <3>1, AppendProperties
      <3>. DEFINE v == Append(u, e)
      <3>3. v = [k \in 1..(Len(at) + 1) |-> v[k]]
        <4>1. v \in Seq(S) /\ Len(v) = Len(at) + 1
          BY <3>2
        <4>. HIDE DEF v
        <4>2. QED
          BY <4>1, LenProperties
      <3>4. \A k \in 1..(Len(at) + 1) : v[k] = IF k = Len(at) + 1 THEN e ELSE s[at[k]]
        BY <1>4, <3>2
      <3>. HIDE DEF v
      <3>5. v = [k \in 1..(Len(at) + 1) |-> IF k = Len(at) + 1 THEN e ELSE s[at[k]]]
        BY <3>3, <3>4
      <3>6. QED
        BY <3>5 DEF v
    <2>5. QED
      BY <1>7, <2>3, <2>4 DEF t
  <1>8. QED
    BY <1>6, <1>7
=============================================================================
