------------------------------- MODULE PrioFees -------------------------------
(***************************************************************************)
(* prioritization_fees: what was paid in the latest processed blocks, by   *)
(* block and by account, with the fee at each percentile of the            *)
(* transactions and of the compute units (CU).                             *)
(*                                                                         *)
(* The lookup tables of a transaction are resolved: its accounts are those *)
(* it names and those the tables give.                                     *)
(***************************************************************************)
EXTENDS Integers, FiniteSets, SequencesExt

CONSTANTS
  Account,
  Tx,       \* transactions: whether a vote, fee, CU, the accounts written and read
  MaxTxs,   \* bound of the transactions of a block
  MaxSlot, MaxBlocks, \* bounds of the slots, and of the blocks that come
  Retain,   \* slots_to_retain, number_of_slots_to_save
  Stride      \* of the percentiles, 5; it divides 75

VARIABLES
  recent,    \* data of the blocks by slot
  writeonly, \* account_by_prio_fees_writeonly, by account and slot
  all,       \* account_by_prio_fees_all
  lastSlot,  \* of the account store
  message,   \* last update sent to the subscribers of account fees
  blocks,    \* number of blocks so far
  heard      \* history: the slots each store has had data for

feeVars == <<recent, writeonly, all, lastSlot, message, blocks, heard>>

Percent == {p \in 0 .. 100 : p % Stride = 0}
Nothing == [s \in {} |-> {}]
Fee(tx) == [fee |-> tx.fee, cu |-> tx.cu]
Sum(s, f(_)) == FoldLeft(LAMBDA n, x : n + f(x), 0, s)
Cu(fees) == Sum(fees, LAMBDA x : x.cu)

Init ==
  /\ recent = Nothing
  /\ writeonly = [a \in Account |-> Nothing]
  /\ all = [a \in Account |-> Nothing]
  /\ lastSlot = 0
  /\ message = [slot |-> 0, data |-> [a \in Account |-> << >>]]
  /\ blocks = 0
  /\ heard = [block |-> {}, account |-> [a \in Account |-> {}]]

------------------------------------------------------------------------------
(* BlockPrioData and stats_calculation.rs                                   *)

NoData == [fees |-> << >>, txs |-> 0, nonVote |-> 0, cu |-> 0, nonVoteCu |-> 0]

Add(a, b) ==
  [fees |-> a.fees \o b.fees, txs |-> a.txs + b.txs, nonVote |-> a.nonVote + b.nonVote,
   cu |-> a.cu + b.cu, nonVoteCu |-> a.nonVoteCu + b.nonVoteCu]

SortedByFee(s) ==
  LET order == SetToSortSeq(DOMAIN s,
        LAMBDA i, j : s[i].fee < s[j].fee \/ (s[i].fee = s[j].fee /\ i < j))
  IN  [k \in DOMAIN s |-> s[order[k]]]

(* Nothing is a transaction without a fee.                                  *)
Ranked(fees) == IF fees = << >> THEN <<[fee |-> 0, cu |-> 0]>> ELSE SortedByFee(fees)

ByTx(ranked, p) == ranked[Min({(Len(ranked) * p) \div 100, Len(ranked) - 1}) + 1].fee

(* Mutant: the one after the share is reached.                              *)
ReachesLate(ranked, i, p) == Cu(SubSeq(ranked, 1, i)) > (Cu(ranked) * p) \div 100 \/ i = Len(ranked)

Reaches(ranked, i, p) == Cu(SubSeq(ranked, 1, i)) >= (Cu(ranked) * p) \div 100

(* The index only goes up from one percentile to the next.                  *)
ByCu(ranked, p) ==
  LET index[q \in Percent] ==
        LET from == IF q = 0 THEN 1 ELSE index[q - Stride]
        IN  Min({i \in from .. Len(ranked) : Reaches(ranked, i, q)})
  IN  ranked[index[p]].fee

(* get_percentile, the greater of its two.                                  *)
Percentile(data, p) ==
  LET ranked == Ranked(data.fees) IN Max({ByTx(ranked, p), ByCu(ranked, p)})

------------------------------------------------------------------------------
(* Both stores forget what is Retain slots older than the block.            *)
Retained(bySlot, slot) ==
  [s \in {t \in DOMAIN bySlot : t > Max({0, slot - Retain})} |-> bySlot[s]]

With(bySlot, slot, data) ==
  [s \in DOMAIN bySlot \cup {slot} |-> IF s = slot THEN data ELSE bySlot[s]]

(* start_block_priofees_task                                                *)
UpdateBlock(slot, txs) ==
  LET paid == SelectSeq(txs, LAMBDA tx : ~tx.vote)
      data == [fees |-> [i \in DOMAIN paid |-> Fee(paid[i])],
               txs |-> Len(txs), nonVote |-> Len(paid), cu |-> Cu(txs), nonVoteCu |-> Cu(paid)]
  IN  recent' = Retained(With(recent, slot, data), slot)

(* BlockPrioData for an account: votes are not counted at all.              *)
AccountData(txs) ==
  [fees |-> [i \in DOMAIN txs |-> Fee(txs[i])],
   txs |-> Len(txs), nonVote |-> Len(txs), cu |-> Cu(txs), nonVoteCu |-> Cu(txs)]

(* AccountPrioStore::update: what was written, and what was read or         *)
(* written, both go to the map of the accounts that were written; nothing   *)
(* goes to the other.                                                       *)
UpdateAccounts(slot, txs) ==
  LET ranked == SortedByFee(SelectSeq(txs, LAMBDA tx : ~tx.vote))
      written(a) == SelectSeq(ranked, LAMBDA tx : a \in tx.writes)
      locked(a) == SelectSeq(ranked, LAMBDA tx : a \in tx.writes \cup tx.reads)
      stored(a) == IF locked(a) = << >> THEN writeonly[a]
                   ELSE With(writeonly[a], slot, AccountData(locked(a)))
  IN  /\ writeonly' = [a \in Account |-> Retained(stored(a), slot)]
      /\ all' = [a \in Account |-> Retained(all[a], slot)]
      /\ lastSlot' = slot
      /\ message' = [slot |-> slot, data |-> [a \in Account |-> AccountData(locked(a)).fees]]
      /\ heard' = [block |-> heard.block \cup {slot},
                   account |-> [a \in Account |-> heard.account[a] \cup
                                  (IF locked(a) = << >> THEN {} ELSE {slot})]]

(* A processed block.  The two tasks share nothing; one they miss because   *)
(* they lag does not come.                                                  *)
TakeBlock(slot, txs) ==
  /\ blocks < MaxBlocks
  /\ blocks' = blocks + 1
  /\ UpdateBlock(slot, txs)
  /\ UpdateAccounts(slot, txs)

Next == \E slot \in 1 .. MaxSlot, txs \in BoundedSeq(Tx, MaxTxs) : TakeBlock(slot, txs)

Spec == Init /\ [][Next]_feeVars

------------------------------------------------------------------------------
(* get_last_n_priofees_aggregate, get_n_last_stats                          *)
LastN(bySlot, n) ==
  LET order == SetToSortSeq(DOMAIN bySlot, >)
  IN  FoldLeft(LAMBDA d, s : Add(d, bySlot[s]), NoData, SubSeq(order, 1, Min({n, Len(order)})))

(* get_latest_priofees, get_latest_stats                                    *)
Latest(bySlot) == IF DOMAIN bySlot = {} THEN NoData ELSE bySlot[Max(DOMAIN bySlot)]

(* get_recent_prioritization_fees of the bridge, for one account.           *)
RecentFee(a) == Max({Percentile(Latest(recent), 75), Percentile(Latest(all[a]), 75)})

------------------------------------------------------------------------------
(* The fee at a percentile of the transactions, or of the CU, is the least  *)
(* that so many of them pay at most: for a block and for the last ones      *)
(* together.                                                                *)
PercentilesAreRight ==
  \A n \in 1 .. Cardinality(DOMAIN recent), p \in Percent :
    LET fees == LastN(recent, n).fees
        ranked == Ranked(fees)
        atMost(f) == SelectSeq(fees, LAMBDA x : x.fee <= f)
        below(f) == SelectSeq(fees, LAMBDA x : x.fee < f)
        share == (Len(fees) * p) \div 100
        cuShare == (Cu(fees) * p) \div 100
    IN  fees # << >> =>
          /\ Len(below(ByTx(ranked, p))) <= share
          /\ \/ Len(atMost(ByTx(ranked, p))) > share
             \/ atMost(ByTx(ranked, p)) = fees
          /\ Cu(atMost(ByCu(ranked, p))) >= cuShare
          /\ p > 0 /\ below(ByCu(ranked, p)) # << >> => Cu(below(ByCu(ranked, p))) < cuShare

(* Also when blocks come out of order, every block younger by less than     *)
(* Retain slots than the youngest is still there, and none that is older    *)
(* than the last one by as much.                                            *)
RetainsTheLast ==
  \A h \in {<<recent, heard.block>>} \cup {<<writeonly[a], heard.account[a]>> : a \in Account} :
    /\ \A s \in h[2] : (\A t \in heard.block : s > t - Retain) => s \in DOMAIN h[1]
    /\ \A s \in DOMAIN h[1] : s > lastSlot - Retain

(* The comment at bridge.rs:310: "the latest global and account             *)
(* prioritization fee stats and then send the maximum p75".                 *)
RecentFeeCoversAccount ==
  message.slot > 0 /\ message.slot = Max(heard.block) =>
    \A a \in Account :
      RecentFee(a) >= Percentile([NoData EXCEPT !.fees = message.data[a]], 75)
==============================================================================
