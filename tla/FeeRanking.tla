----------------------------- MODULE FeeRanking ------------------------------
(***************************************************************************)
(* What the heap of waiting transactions promises its connection: of the   *)
(* transactions that wait, each is ahead of those that pay less and of     *)
(* those that pay the same and came later, and their number is bounded.    *)
(* When there are too many, the oldest of those with the lowest fee is     *)
(* given up; a transaction that would be last of as many as may wait is    *)
(* not taken in.                                                           *)
(***************************************************************************)
EXTENDS Integers, FiniteSets

CONSTANTS Tx, FeeOf, LastValidOf, MaxTransactions

VARIABLES
  waiting, \* the transactions
  ahead,   \* pairs of them of which the first is sent before the second
  height

vars == <<waiting, ahead, height>>

Init == waiting = {} /\ ahead = {} /\ height = 0

IsBest(tx) == tx \in waiting /\ \A t \in waiting \ {tx} : <<tx, t>> \in ahead

IsCheapest(tx) ==
  /\ tx \in waiting
  /\ \A t \in waiting \ {tx} :
       FeeOf[tx] < FeeOf[t] \/ (FeeOf[tx] = FeeOf[t] /\ <<tx, t>> \in ahead)

(* Behind all that pay as much, ahead of all that pay less.                 *)
JoinedBy(tx) ==
  ahead \cup {<<t, tx>> : t \in {u \in waiting : FeeOf[u] >= FeeOf[tx]}}
        \cup {<<tx, t>> : t \in {u \in waiting : FeeOf[u] < FeeOf[tx]}}

Among(order, set) == order \cap (set \X set)

Arrive(tx) ==
  /\ tx \notin waiting
  /\ Cardinality(waiting) < MaxTransactions
  /\ waiting' = waiting \cup {tx}
  /\ ahead' = JoinedBy(tx)
  /\ UNCHANGED height

Displace(tx) ==
  /\ tx \notin waiting
  /\ Cardinality(waiting) = MaxTransactions
  /\ \E t \in waiting :
       /\ IsCheapest(t) /\ FeeOf[t] < FeeOf[tx]
       /\ waiting' = (waiting \cup {tx}) \ {t}
  /\ ahead' = Among(JoinedBy(tx), waiting')
  /\ UNCHANGED height

(* What stays keeps its place.                                              *)
Leave(gone) ==
  /\ waiting' = waiting \ gone
  /\ ahead' = Among(ahead, waiting')
  /\ UNCHANGED height

TakeBest == \E tx \in waiting : IsBest(tx) /\ Leave({tx})

Expire == Leave({tx \in waiting : LastValidOf[tx] <= height})

NewHeight ==
  /\ height' > height
  /\ UNCHANGED <<waiting, ahead>>

GiveUp == Leave(waiting)

Next ==
  \/ \E tx \in Tx : Arrive(tx) \/ Displace(tx)
  \/ TakeBest
  \/ Expire
  \/ NewHeight
  \/ GiveUp

Spec == Init /\ [][Next]_vars

----------------------------------------------------------------------------
(* Of any two that wait one is ahead, the one that pays more if one does.   *)
IsARanking ==
  /\ ahead \subseteq waiting \X waiting
  /\ \A t, u \in waiting :
       /\ <<t, u>> \in ahead => <<u, t>> \notin ahead
       /\ t # u => <<t, u>> \in ahead \/ <<u, t>> \in ahead
       /\ FeeOf[t] > FeeOf[u] => <<t, u>> \in ahead
       /\ \A v \in waiting : <<t, u>> \in ahead /\ <<u, v>> \in ahead => <<t, v>> \in ahead
==============================================================================
