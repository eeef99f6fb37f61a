--------------------------- MODULE PrioFeeHeapUse ----------------------------
(***************************************************************************)
(* The heap of one connection under its two users: the task that fills it  *)
(* (insert, remove_expired_transactions) and the task that sends what is   *)
(* in it (pop, and clear at the end), services/src/tpu_utils/              *)
(* tpu_connection_manager.rs.  A transaction may arrive again at any time, *)
(* since the replayer sends it until it is confirmed.                      *)
(***************************************************************************)
EXTENDS PrioFeeHeap

CONSTANT MaxTip   \* bound of the block height

VARIABLES
  ranked,  \* the heap
  tip      \* get_last_blockheight

heapVars == <<ranked, tip>>

HeapInit ==
  /\ ranked = EmptyHeap
  /\ tip = 0

HeapFill(tx) ==
  /\ ranked' = Insert(ranked, tx)
  /\ UNCHANGED tip

HeapSend ==
  /\ ~IsEmpty(ranked)
  /\ ranked' = Pop(ranked)
  /\ UNCHANGED tip

HeapExpire ==
  /\ ranked' = RemoveExpired(ranked, tip)
  /\ UNCHANGED tip

HeapClear ==
  /\ ranked' = EmptyHeap
  /\ UNCHANGED tip

NewTip ==
  /\ tip < MaxTip
  /\ tip' = tip + 1
  /\ UNCHANGED ranked

HeapNext ==
  \/ \E tx \in Tx : HeapFill(tx)
  \/ HeapSend
  \/ HeapExpire
  \/ HeapClear
  \/ NewTip

HeapSpec == HeapInit /\ [][HeapNext]_heapVars

----------------------------------------------------------------------------
Earlier(queue, t, u) ==
  \E i, j \in 1 .. Len(queue) : i < j /\ queue[i] = t /\ queue[j] = u

(* Whom pop would take first, of two that wait.                             *)
AheadIn(h) ==
  {pair \in h.signatures \X h.signatures :
     LET t == pair[1]
         u == pair[2]
     IN  \/ FeeOf[t] > FeeOf[u]
         \/ FeeOf[t] = FeeOf[u] /\ Earlier(h.map[FeeOf[t]], t, u)}

Ranked == INSTANCE FeeRanking
            WITH waiting <- ranked.signatures, ahead <- AheadIn(ranked), height <- tip

(* Map and signatures agree, and with evictions and expiries amount to one  *)
(* bounded ranking by fee: the best is sent first, first come first served  *)
(* among equals, and only the cheapest makes room for one that pays more.   *)
HeapIsRanked ==
  /\ [](IsHeap(ranked) /\ Agrees(ranked) /\ Ranked!IsARanking)
  /\ Ranked!Spec
==============================================================================
