------------------------------ MODULE Selections ------------------------------
(***************************************************************************)
(* Subsequences by position: what a list comprehension with an `if` or a   *)
(* loop with `continue` keeps of a list.  SelectSeq of the standard module *)
(* has no definition a prover can use.                                     *)
(***************************************************************************)
EXTENDS Naturals, Sequences

\* The picked ones of 1..n, in ascending order.
Ascending(picked, n) ==
  LET upTo[k \in 0..n] == IF k = 0 THEN <<>>
                          ELSE IF k \in picked THEN Append(upTo[k - 1], k)
                          ELSE upTo[k - 1]
  IN  upTo[n]

\* The elements of s at the picked positions, in the order of s.
Selected(s, picked) ==
  LET at == Ascending(picked, Len(s))
  IN  [n \in DOMAIN at |-> s[at[n]]]
=============================================================================
