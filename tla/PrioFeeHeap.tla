----------------------------- MODULE PrioFeeHeap -----------------------------
(***************************************************************************)
(* core/src/structures/prioritization_fee_heap.rs: the transactions that   *)
(* wait for a connection to one validator.  A map from a prioritization    *)
(* fee to the queue of the transactions that pay it, and the set of all    *)
(* their signatures.  Every method holds the mutex throughout, and is one  *)
(* operator on the value of the heap here.                                 *)
(*                                                                         *)
(* A transaction is identified with its signature, from which its fee and  *)
(* its last valid block height follow.                                     *)
(***************************************************************************)
EXTENDS FiniteSets, FiniteSetsExt, Functions, Sublists

CONSTANTS
  Tx,              \* transactions
  FeeOf,           \* prioritization_fee of each
  LastValidOf,     \* last_valid_block_height of each
  MaxTransactions  \* max_number_of_transactions

ASSUME HeapAssumption ==
  /\ FeeOf \in [Tx -> Nat]
  /\ LastValidOf \in [Tx -> Nat]
  /\ MaxTransactions \in Nat \ {0}

EmptyHeap == [map |-> << >>, signatures |-> {}]

IsEmpty(h) == DOMAIN h.map = {}

FirstKey(h) == Min(DOMAIN h.map)
LastKey(h)  == Max(DOMAIN h.map)

Queue(map, fee) == IF fee \in DOMAIN map THEN map[fee] ELSE << >>

(* A fee has an entry as long as its queue holds something.                *)
WithQueue(map, fee, queue) ==
  [f \in IF queue = << >> THEN DOMAIN map \ {fee} ELSE DOMAIN map \union {fee}
     |-> IF f = fee THEN queue ELSE map[f]]

TakeFront(h, fee) ==
  [map        |-> WithQueue(h.map, fee, Tail(h.map[fee])),
   signatures |-> h.signatures \ {Head(h.map[fee])}]

(* The oldest of the transactions with the highest fee.                    *)
Popped(h) == Head(h.map[LastKey(h)])
Pop(h)    == TakeFront(h, LastKey(h))

(* Mutant: a transaction that pays no more than the cheapest displaces it. *)
IsRefusedIfLower(h, tx) ==
  \/ tx \in h.signatures
  \/ /\ Cardinality(h.signatures) >= MaxTransactions
     /\ FeeOf[tx] < FirstKey(h)

(* Nothing but a higher fee than the lowest enters a full heap.            *)
IsRefused(h, tx) ==
  \/ tx \in h.signatures
  \/ /\ Cardinality(h.signatures) >= MaxTransactions
     /\ FeeOf[tx] <= FirstKey(h)

Put(h, tx) ==
  [map        |-> WithQueue(h.map, FeeOf[tx], Append(Queue(h.map, FeeOf[tx]), tx)),
   signatures |-> h.signatures \union {tx}]

Evict(h) ==
  IF Cardinality(h.signatures) > MaxTransactions
  THEN TakeFront(h, FirstKey(h))
  ELSE h

Insert(h, tx) == IF IsRefused(h, tx) THEN h ELSE Evict(Put(h, tx))

IsValidAt(tx, height) == LastValidOf[tx] > height

RemoveExpired(h, height) ==
  LET valid     == {tx \in Tx : IsValidAt(tx, height)}
      kept(fee) == Sublist(h.map[fee], valid)
  IN [map        |-> [fee \in {f \in DOMAIN h.map : kept(f) # << >>} |-> kept(fee)],
      signatures |-> h.signatures \cap valid]

----------------------------------------------------------------------------
(* No fee has an empty queue: pop and insert unwrap the front of whatever  *)
(* entry they find.                                                        *)
IsHeap(h) ==
  /\ DOMAIN h.map \subseteq {FeeOf[tx] : tx \in Tx}
  /\ \A fee \in DOMAIN h.map : h.map[fee] \in Seq(Tx) /\ h.map[fee] # << >>
  /\ h.signatures \subseteq Tx

(* The map and the set of signatures agree after any sequence of inserts,  *)
(* evictions, pops and expiries: each signature has one transaction, in    *)
(* the queue of its fee.  Otherwise a transaction sent again would be      *)
(* refused for ever, or the bound would count transactions that are gone.  *)
Agrees(h) ==
  /\ \A fee \in DOMAIN h.map :
       IsInjective(h.map[fee]) /\ \A tx \in Range(h.map[fee]) : FeeOf[tx] = fee
  /\ h.signatures = UNION {Range(h.map[fee]) : fee \in DOMAIN h.map}
  /\ Cardinality(h.signatures) <= MaxTransactions
==============================================================================
