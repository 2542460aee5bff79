---------------------------- MODULE FirstOrderFolds ----------------------------
(***************************************************************************)
(* Two folds whose arguments are values: a filter by a set, where          *)
(* SelectSeq takes a test, and the sum of a function.  The prover cannot   *)
(* reason about an operator that takes an operator; these it can.          *)
(***************************************************************************)
EXTENDS Integers, Sequences

\* The elements of s that are in A, in order.
Kept(s, A) ==
  LET kept[i \in 0..Len(s)] ==
        IF i = 0 THEN <<>>
        ELSE IF s[i] \in A THEN Append(kept[i - 1], s[i]) ELSE kept[i - 1]
  IN kept[Len(s)]

\* f[1] + ... + f[n].
Total(f, n) ==
  LET total[i \in 0..n] == IF i = 0 THEN 0 ELSE total[i - 1] + f[i]
  IN total[n]

================================================================================
