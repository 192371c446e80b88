------------------------------ MODULE Filters ------------------------------
(***************************************************************************)
(* Keeping some entries of a queue, as retain and a walk with tailq_remove *)
(* do.  It is SelectSeq with a set for the test, written as a recursive    *)
(* function so that QueueLemmas can say what it does.                      *)
(***************************************************************************)
EXTENDS Naturals, Sequences

(* The entries of s that are in S, in their order.                         *)
Only(s, S) ==
    LET only[n \in 0 .. Len(s)] ==
            IF n = 0 THEN <<>>
            ELSE IF s[n] \in S THEN Append(only[n - 1], s[n]) ELSE only[n - 1]
    IN only[Len(s)]
=============================================================================
