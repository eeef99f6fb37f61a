-------------------------------- MODULE Sublists -----------------------------
(***************************************************************************)
(* What retain and filter make of a queue.                                 *)
(***************************************************************************)
EXTENDS Integers, Sequences

(* The elements of s that are in kept, in their order.                      *)
Sublist(s, kept) ==
  LET first[i \in 0 .. Len(s)] ==
        IF i = 0 THEN << >>
        ELSE IF s[i] \in kept THEN Append(first[i - 1], s[i]) ELSE first[i - 1]
  IN  first[Len(s)]
==============================================================================
