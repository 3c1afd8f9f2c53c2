------------------------------ MODULE Selection -----------------------------
(***************************************************************************)
(* The rows of a table that a query, or a loop over the rows, picks: SQL's *)
(* WHERE with ORDER BY, and the loops of the exporter that skip with       *)
(* continue.  SelectSeq is this with an operator for a condition; here the *)
(* condition is a set, and the recursion a function, which the proof       *)
(* system can reason about.                                                *)
(***************************************************************************)
EXTENDS Naturals, Sequences

\* The elements of s that are in the set, in the order of s.
Kept(s, set) ==
  LET upTo[n \in 0..Len(s)] ==
        IF n = 0 THEN <<>>
        ELSE IF s[n] \in set THEN Append(upTo[n - 1], s[n]) ELSE upTo[n - 1]
  IN  upTo[Len(s)]
=============================================================================
