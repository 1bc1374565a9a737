------------------------------- MODULE Lists -------------------------------
(***************************************************************************)
(* Vec::sort and VecDeque::retain.                                         *)
(***************************************************************************)
EXTENDS Naturals, Sequences, FiniteSets, SequencesExt

(* The numbers of a finite set in ascending order.                         *)
Ascending(S) == CHOOSE s \in SetToSeqs(S) : \A i, j \in DOMAIN s : i < j => s[i] < s[j]

(* retain(|x| x \in kept)                                                  *)
Retained(list, kept) ==
  LET from[i \in 0 .. Len(list)] ==
        IF i = 0 THEN <<>>
        ELSE IF list[i] \in kept THEN Append(from[i - 1], list[i]) ELSE from[i - 1]
  IN from[Len(list)]
=============================================================================
