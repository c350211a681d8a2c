----------------------------- MODULE Subsequence -----------------------------
(* Items of a sequence picked and counted by membership in a set.  Where is  *)
(* SelectSeq for a set, written as a recursive function so that what it      *)
(* yields can be proved.                                                     *)
EXTENDS Integers, Sequences, FiniteSets

Where(seq, S) ==
  LET w[n \in 0..Len(seq)] ==
        IF n = 0 THEN <<>>
        ELSE IF seq[n] \in S THEN Append(w[n - 1], seq[n]) ELSE w[n - 1]
  IN w[Len(seq)]

\* The positions of seq that hold a member of S, and how many there are.
At(seq, S) == {n \in 1..Len(seq) : seq[n] \in S}

Times(seq, S) == Cardinality(At(seq, S))
=============================================================================
