--------------------- MODULE BlockInformationStoreProofs ---------------------
(***************************************************************************)
(* Proofs, for any set of blocks, any chain and any number of writers, of  *)
(* the invariants of BlockInformationStore and of its refinement of        *)
(* RecentBlockhashes.                                                      *)
(***************************************************************************)
EXTENDS BlockInformationStore, TLAPS

(* What the cleaner has read is a block announced as finalized; a writer   *)
(* between two calls holds no block of its own.                            *)
SnapshotIsFinalized ==
  \A h \in Hash : snapshot = <<h>> => <<h, Finalized>> \in Taken

IdleWriterHoldsNothing ==
  /\ \A w \in Writer : pc[w] = "recv" => msg[w] = NoBlock
  /\ NoBlock \in done

IInv ==
  /\ TypeOK
  /\ KeptWhileValid
  /\ NeverOverstated
  /\ LatestCanBeLookedUp
  /\ FinalizedCellIsFinalized
  /\ SnapshotIsFinalized
  /\ IdleWriterHoldsNothing

USE ChainAssumption DEF Absent, Processed, Confirmed, Finalized, Commitment,
  Announcement

(* The initial state satisfies the inductive invariant.                    *)
LEMMA InitIInv == Init => IInv
<1> SUFFICES ASSUME Init PROVE IInv
  OBVIOUS
<1>1. TypeOK
  BY DEF Init, TypeOK, NoBlock
<1>2. KeptWhileValid
  BY DEF Init, KeptWhileValid
<1>3. NeverOverstated
  BY DEF Init, NeverOverstated
<1>4. LatestCanBeLookedUp
  BY DEF Init, LatestCanBeLookedUp
<1>5. FinalizedCellIsFinalized
  BY DEF Init, FinalizedCellIsFinalized, Taken
<1>6. SnapshotIsFinalized
  BY DEF Init, SnapshotIsFinalized
<1>7. IdleWriterHoldsNothing
  BY DEF Init, IdleWriterHoldsNothing, NoBlock
<1> QED
  BY <1>1, <1>2, <1>3, <1>4, <1>5, <1>6, <1>7 DEF IInv

LEMMA MsgIsPair ==
  ASSUME TypeOK, NEW w \in Writer
  PROVE  /\ msg[w][1] \in Hash
         /\ msg[w][2] \in Commitment
         /\ msg[w] = <<msg[w][1], msg[w][2]>>
<1>1. msg[w] \in Hash \X Commitment
  BY DEF TypeOK
<1> QED
  BY <1>1

(* A step keeps the types.                                                 *)
LEMMA NextTypeOK == TypeOK /\ [Next]_vars => TypeOK'
<1> SUFFICES ASSUME TypeOK, [Next]_vars PROVE TypeOK'
  OBVIOUS
<1> USE DEF TypeOK
<1>1. ASSUME NEW w \in Writer, Receive(w) PROVE TypeOK'
  BY <1>1 DEF Receive
<1>2. ASSUME NEW w \in Writer, LoadHeight(w) PROVE TypeOK'
  BY <1>2 DEF LoadHeight
<1>3. ASSUME NEW w \in Writer, StoreHeight(w) PROVE TypeOK'
  BY <1>3 DEF StoreHeight
<1>4. ASSUME NEW w \in Writer, ReadLatest(w) PROVE TypeOK'
  BY <1>4 DEF ReadLatest
<1>5. ASSUME NEW w \in Writer, WriteLatest(w) PROVE TypeOK'
  BY <1>5, MsgIsPair DEF WriteLatest, Cell
<1>6. ASSUME NEW w \in Writer, UpdateEntry(w) PROVE TypeOK'
  BY <1>6 DEF UpdateEntry, NoBlock
<1>7. CASE CleanRead
  BY <1>7 DEF CleanRead
<1>8. CASE CleanRetain
  BY <1>8 DEF CleanRetain
<1>9. CASE UNCHANGED vars
  BY <1>9 DEF vars
<1> QED
  BY <1>1, <1>2, <1>3, <1>4, <1>5, <1>6, <1>7, <1>8, <1>9 DEF Next, AddBlock

(* An announcement once taken stays taken, so that an expired blockhash    *)
(* stays expired and the cleaner may work from an old snapshot.            *)
LEMMA TakenGrows ==
  IInv /\ [Next]_vars => Taken \subseteq Taken' /\ done \subseteq done'
<1> SUFFICES ASSUME IInv, [Next]_vars
             PROVE  Taken \subseteq Taken' /\ done \subseteq done'
  OBVIOUS
<1> USE DEF IInv, TypeOK, IdleWriterHoldsNothing, Taken
<1>1. ASSUME NEW w \in Writer, Receive(w)
      PROVE  Taken \subseteq Taken' /\ done \subseteq done'
  BY <1>1 DEF Receive
<1>2. ASSUME NEW w \in Writer, UpdateEntry(w)
      PROVE  Taken \subseteq Taken' /\ done \subseteq done'
  BY <1>2 DEF UpdateEntry
<1>3. CASE UNCHANGED <<msg, done>>
  BY <1>3
<1> QED
  BY <1>1, <1>2, <1>3 DEF Next, AddBlock, LoadHeight, StoreHeight, ReadLatest,
     WriteLatest, CleanRead, CleanRetain, vars

LEMMA ExpiredForGood ==
  ASSUME IInv, [Next]_vars, NEW h \in Hash, Expired(h)
  PROVE  Expired(h)'
BY TakenGrows DEF Expired, LastValid

(* The commitments kept only rise while the blockhash is valid.            *)
LEMMA NextKept == IInv /\ [Next]_vars => KeptWhileValid'
<1> SUFFICES ASSUME IInv, [Next]_vars,
                    NEW h \in Hash, NEW c \in Commitment,
                    (<<h, c>> \in done)', ~Expired(h)'
             PROVE  blocks'[h] >= c
  BY DEF KeptWhileValid
<1> ~Expired(h)
  BY ExpiredForGood
<1> USE DEF IInv, TypeOK, KeptWhileValid
<1>1. ASSUME NEW w \in Writer, UpdateEntry(w) PROVE blocks'[h] >= c
  <2> DEFINE g == msg[w][1]
  <2> DEFINE new == msg[w][2]
  <2>1. g \in Hash /\ new \in Commitment /\ msg[w] = <<g, new>>
    BY MsgIsPair
  <2>2. done' = done \union {<<g, new>>}
    BY <1>1, <2>1 DEF UpdateEntry
  <2>3. blocks' = IF blocks[g] = Absent \/ ShouldUpdate(blocks[g], new)
                  THEN [blocks EXCEPT ![g] = new] ELSE blocks
    BY <1>1, <2>1 DEF UpdateEntry
  <2>4. blocks[g] = Absent \/ ShouldUpdate(blocks[g], new) \/ blocks[g] >= new
    BY DEF ShouldUpdate
  <2>5. ShouldUpdate(blocks[g], new) => new > blocks[g]
    BY DEF ShouldUpdate
  <2>5a. blocks[g] \in 0..3 /\ blocks[h] \in 0..3 /\ c \in 1..3 /\ new \in 1..3
    BY <2>1
  <2> HIDE DEF g, new
  <2>6. blocks'[g] >= new /\ blocks'[h] >= blocks[h]
    BY <2>1, <2>3, <2>4, <2>5, <2>5a, SMTT(30)
  <2>7. CASE <<h, c>> \in done
    <3>1. blocks[h] >= c
      BY <2>7
    <3>2. blocks'[h] \in 0..3
      BY <2>1, <2>3, <2>5a
    <3> QED
      BY <2>5a, <2>6, <3>1, <3>2, SMTT(30)
  <2>8. CASE h = g /\ c = new
    BY <2>6, <2>8
  <2> QED
    BY <2>2, <2>7, <2>8
<1>2. CASE CleanRetain
  <2>1. PICK f \in Hash : snapshot = <<f>>
    BY <1>2 DEF CleanRetain
  <2>2. <<f, Finalized>> \in Taken
    BY <2>1 DEF SnapshotIsFinalized
  <2>3. ~(LastValid(h) < HeightOf[f])
    BY <2>2 DEF Expired
  <2>4. LastValid(h) >= HeightOf[f]
    BY <2>3 DEF LastValid
  <2> QED
    BY <1>2, <2>1, <2>4 DEF CleanRetain
<1>3. CASE UNCHANGED <<blocks, done>>
  BY <1>3
<1> QED
  BY <1>1, <1>2, <1>3 DEF Next, AddBlock, Receive, LoadHeight, StoreHeight,
     ReadLatest, WriteLatest, CleanRead, vars

LEMMA NextNeverOverstated == IInv /\ [Next]_vars => NeverOverstated'
<1> SUFFICES ASSUME IInv, [Next]_vars, NEW h \in Hash, blocks'[h] # Absent
             PROVE  <<h, blocks'[h]>> \in done'
  BY DEF NeverOverstated
<1> USE DEF IInv, TypeOK, NeverOverstated
<1>1. ASSUME NEW w \in Writer, UpdateEntry(w)
      PROVE  <<h, blocks'[h]>> \in done'
  BY <1>1 DEF UpdateEntry
<1>2. CASE CleanRetain
  BY <1>2 DEF CleanRetain
<1>3. CASE UNCHANGED <<blocks, done>>
  BY <1>3
<1> QED
  BY <1>1, <1>2, <1>3 DEF Next, AddBlock, Receive, LoadHeight, StoreHeight,
     ReadLatest, WriteLatest, CleanRead, vars

(* A published blockhash is in the map, about to be, or expired.           *)
LEMMA NextLatestCanBeLookedUp ==
  IInv /\ [Next]_vars => LatestCanBeLookedUp'
<1> DEFINE Found(h) ==
             \/ blocks[h] # Absent
             \/ \E w \in Writer : pc[w] = "entry" /\ msg[w][1] = h
             \/ Expired(h)
<1> SUFFICES ASSUME IInv, [Next]_vars, NEW cell \in {"confirmed", "finalized"}
             PROVE  Found(latest[cell][1])'
  BY DEF LatestCanBeLookedUp
<1> latest[cell] \in Announcement
  BY DEF IInv, TypeOK
<1>1. latest[cell][1] \in Hash
  OBVIOUS
<1>2. Found(latest[cell][1])
  BY DEF IInv, LatestCanBeLookedUp
<1>3. ASSUME NEW w \in Writer, WriteLatest(w)
      PROVE  Found(latest[cell][1])'
  <2>1. CASE latest'[cell] = latest[cell]
    <3>1. CASE Expired(latest[cell][1])
      BY <1>1, <2>1, <3>1, ExpiredForGood DEF Expired, LastValid
    <3>2. CASE \E v \in Writer : pc[v] = "entry" /\ msg[v][1] = latest[cell][1]
      BY <1>3, <2>1, <3>2 DEF WriteLatest, IInv, TypeOK
    <3>3. CASE blocks[latest[cell][1]] # Absent
      BY <1>3, <2>1, <3>3 DEF WriteLatest
    <3> QED
      BY <1>2, <3>1, <3>2, <3>3
  <2>2. CASE latest'[cell] = msg[w]
    <3>1. pc'[w] = "entry" /\ msg' = msg
      BY <1>3 DEF WriteLatest, IInv, TypeOK
    <3> QED
      BY <2>2, <3>1
  <2> QED
    BY <1>3, <2>1, <2>2 DEF WriteLatest, IInv, TypeOK
<1>4. ASSUME latest' = latest, ~Expired(latest[cell][1])
      PROVE  Found(latest[cell][1])'
  <2> DEFINE h == latest[cell][1]
  <2>1. CASE CleanRetain
    <3>1. PICK f \in Hash : snapshot = <<f>>
      BY <2>1 DEF CleanRetain, IInv, TypeOK
    <3>2. <<f, Finalized>> \in Taken
      BY <3>1 DEF IInv, SnapshotIsFinalized
    <3>3. ~(LastValid(h) < HeightOf[f])
      BY <1>4, <3>2 DEF Expired
    <3>4. LastValid(h) >= HeightOf[f]
      BY <1>1, <3>3 DEF LastValid
    <3>5. blocks'[h] = blocks[h] /\ pc' = pc /\ msg' = msg
      BY <1>1, <2>1, <3>1, <3>4 DEF CleanRetain
    <3> QED
      BY <1>2, <1>4, <3>5
  <2>2. ASSUME NEW w \in Writer, UpdateEntry(w) PROVE Found(h)'
    <3> DEFINE g == msg[w][1]
    <3> DEFINE new == msg[w][2]
    <3>1. g \in Hash /\ new \in Commitment /\ msg[w] = <<g, new>>
      BY MsgIsPair DEF IInv
    <3>2. blocks' = IF blocks[g] = Absent \/ ShouldUpdate(blocks[g], new)
                    THEN [blocks EXCEPT ![g] = new] ELSE blocks
      BY <2>2, <3>1 DEF UpdateEntry
    <3>3. blocks'[g] # Absent /\ (blocks[h] # Absent => blocks'[h] # Absent)
      <4> blocks \in [Hash -> Commitment \union {Absent}]
        BY DEF IInv, TypeOK
      <4> HIDE DEF g, new, h
      <4> QED
        BY <3>1, <3>2 DEF h
    <3>4. \A v \in Writer : v # w => pc'[v] = pc[v] /\ msg'[v] = msg[v]
      BY <2>2 DEF UpdateEntry, IInv, TypeOK
    <3> QED
      BY <1>2, <1>4, <3>1, <3>3, <3>4
  <2>3. ASSUME NEW w \in Writer,
               \/ Receive(w)
               \/ LoadHeight(w)
               \/ StoreHeight(w)
               \/ ReadLatest(w)
        PROVE  Found(h)'
    <3>1. blocks' = blocks
      BY <2>3 DEF Receive, LoadHeight, StoreHeight, ReadLatest
    <3>2. pc[w] # "entry"
      BY <2>3 DEF Receive, LoadHeight, StoreHeight, ReadLatest
    <3>3. \A v \in Writer : v # w => pc'[v] = pc[v] /\ msg'[v] = msg[v]
      BY <2>3 DEF Receive, LoadHeight, StoreHeight, ReadLatest, IInv, TypeOK
    <3> QED
      BY <1>2, <1>4, <3>1, <3>2, <3>3
  <2>4. CASE UNCHANGED <<blocks, pc, msg>>
    BY <1>2, <1>4, <2>4
  <2>5. ASSUME NEW w \in Writer, WriteLatest(w) PROVE Found(h)'
    BY <1>3, <1>4, <2>5
  <2> QED
    BY <2>1, <2>2, <2>3, <2>4, <2>5 DEF Next, AddBlock, CleanRead, vars
<1>5. ASSUME latest' = latest, Expired(latest[cell][1])
      PROVE  Found(latest[cell][1])'
  BY <1>1, <1>5, ExpiredForGood DEF Expired, LastValid
<1>6. (\E w \in Writer : WriteLatest(w)) \/ latest' = latest
  BY DEF Next, AddBlock, Receive, LoadHeight, StoreHeight, ReadLatest,
     UpdateEntry, CleanRead, CleanRetain, vars
<1> QED
  BY <1>3, <1>4, <1>5, <1>6

(* The cleaner and the validity check go by a finalized block.             *)
LEMMA NextFinalizedRead ==
  IInv /\ [Next]_vars => FinalizedCellIsFinalized' /\ SnapshotIsFinalized'
<1> SUFFICES ASSUME IInv, [Next]_vars
             PROVE  FinalizedCellIsFinalized' /\ SnapshotIsFinalized'
  OBVIOUS
<1> USE DEF IInv, FinalizedCellIsFinalized, SnapshotIsFinalized
<1>1. ASSUME NEW w \in Writer, WriteLatest(w)
      PROVE  FinalizedCellIsFinalized' /\ SnapshotIsFinalized'
  <2>1. latest' = [latest EXCEPT ![Cell(msg[w][2])] = msg[w]]
        /\ UNCHANGED <<snapshot, msg, done>>
    BY <1>1 DEF WriteLatest
  <2>2. CASE msg[w][2] = Finalized
    BY <2>1, <2>2 DEF Cell, Taken, TypeOK
  <2>3. CASE msg[w][2] # Finalized
    BY <2>1, <2>3 DEF Cell, Taken, TypeOK
  <2> QED
    BY <2>2, <2>3
<1>2. CASE CleanRead
  <2>1. latest["finalized"] \in Hash \X Commitment
    BY DEF TypeOK
  <2>2. latest["finalized"] = <<latest["finalized"][1], Finalized>>
    BY <2>1 DEF TypeOK
  <2> QED
    BY <1>2, <2>2 DEF CleanRead, Taken
<1>3. CASE CleanRetain
  BY <1>3 DEF CleanRetain, Taken
<1>4. CASE UNCHANGED <<latest, snapshot>>
  BY <1>4, TakenGrows
<1> QED
  BY <1>1, <1>2, <1>3, <1>4 DEF Next, AddBlock, Receive, LoadHeight,
     StoreHeight, ReadLatest, UpdateEntry, vars

LEMMA NextIdle == IInv /\ [Next]_vars => IdleWriterHoldsNothing'
<1> SUFFICES ASSUME IInv, [Next]_vars PROVE IdleWriterHoldsNothing'
  OBVIOUS
<1> USE DEF IInv, TypeOK, IdleWriterHoldsNothing
<1>1. NoBlock \in done'
  BY TakenGrows
<1>2. ASSUME NEW w \in Writer, AddBlock(w) PROVE IdleWriterHoldsNothing'
  BY <1>1, <1>2 DEF AddBlock, Receive, LoadHeight, StoreHeight, ReadLatest,
     WriteLatest, UpdateEntry, NoBlock
<1>3. CASE UNCHANGED <<pc, msg, done>>
  BY <1>3 DEF NoBlock
<1> QED
  BY <1>2, <1>3 DEF Next, CleanRead, CleanRetain, vars

(* IInv is inductive.                                                      *)
LEMMA NextIInv == IInv /\ [Next]_vars => IInv'
BY NextTypeOK, NextKept, NextNeverOverstated, NextLatestCanBeLookedUp,
   NextFinalizedRead, NextIdle DEF IInv

LEMMA InvariantIInv == Spec => []IInv
BY InitIInv, NextIInv, PTL DEF Spec

(* Every state of the store is well typed.                                 *)
THEOREM StoreTypeOK == Spec => []TypeOK
BY InvariantIInv, PTL DEF IInv

(* An announcement that was added is kept, at its commitment or a higher   *)
(* one, until its blockhash has expired.                                   *)
THEOREM StoreKeepsWhileValid == Spec => []KeptWhileValid
BY InvariantIInv, PTL DEF IInv

(* The store never shows a commitment that nobody announced.               *)
THEOREM StoreNeverOverstates == Spec => []NeverOverstated
BY InvariantIInv, PTL DEF IInv

(* A blockhash handed out as the latest can be looked up, is about to be   *)
(* entered, or has expired.                                                *)
THEOREM StoreLatestCanBeLookedUp == Spec => []LatestCanBeLookedUp
BY InvariantIInv, PTL DEF IInv

----------------------------------------------------------------------------
(* Removing an entry needs an expired blockhash.                           *)
LEMMA RetainDropsExpired ==
  ASSUME IInv, CleanRetain, NEW h \in Hash, blocks'[h] # blocks[h]
  PROVE  blocks'[h] = Absent /\ Expired(h)
<1>1. PICK f \in Hash : snapshot = <<f>>
  BY DEF CleanRetain, IInv, TypeOK
<1>2. <<f, Finalized>> \in Taken
  BY <1>1 DEF IInv, SnapshotIsFinalized
<1>3. blocks'[h] = Absent /\ ~(LastValid(h) >= HeightOf[f])
  BY <1>1 DEF CleanRetain, IInv, TypeOK
<1>4. LastValid(h) < HeightOf[f]
  BY <1>3 DEF LastValid
<1> QED
  BY <1>2, <1>3, <1>4 DEF Expired

(* The effect of one addition on the map: the higher commitment stays.     *)
LEMMA EntryEffect ==
  ASSUME IInv, NEW w \in Writer, UpdateEntry(w)
  PROVE  /\ msg[w][1] \in Hash
         /\ msg[w][2] \in 1..3
         /\ blocks' = [blocks EXCEPT ![msg[w][1]] =
                         IF msg[w][2] > blocks[msg[w][1]]
                         THEN msg[w][2] ELSE blocks[msg[w][1]]]
<1> DEFINE g == msg[w][1]
<1> DEFINE new == msg[w][2]
<1>1. g \in Hash /\ new \in 1..3 /\ msg[w] = <<g, new>>
  BY MsgIsPair DEF IInv
<1>2. blocks \in [Hash -> 0..3]
  BY DEF IInv, TypeOK
<1>3. blocks' = IF blocks[g] = Absent \/ ShouldUpdate(blocks[g], new)
                THEN [blocks EXCEPT ![g] = new] ELSE blocks
  BY DEF UpdateEntry
<1>4. blocks[g] = Absent \/ ShouldUpdate(blocks[g], new) <=> new > blocks[g]
  <2> blocks[g] \in 0..3
    BY <1>1, <1>2
  <2> HIDE DEF g, new
  <2> QED
    BY <1>1 DEF ShouldUpdate
<1> HIDE DEF g, new
<1>5. blocks' = [blocks EXCEPT ![g] = IF new > blocks[g] THEN new ELSE blocks[g]]
  BY <1>1, <1>2, <1>3, <1>4
<1> QED
  BY <1>1, <1>5 DEF g, new

(* Stored commitments only rise, except that an expired blockhash may go.  *)
THEOREM StoreCommitmentOnlyRises == Spec => CommitmentOnlyRises
<1>1. ASSUME IInv, [Next]_vars, NEW h \in Hash, blocks'[h] < blocks[h]
      PROVE  blocks'[h] = Absent /\ Expired(h)
  <2> blocks \in [Hash -> 0..3]
    BY <1>1 DEF IInv, TypeOK
  <2>1. ASSUME NEW w \in Writer, UpdateEntry(w)
        PROVE  FALSE
    <3>1. blocks'[h] >= blocks[h] /\ blocks'[h] \in Nat
      BY <2>1, EntryEffect, <1>1
    <3> QED
      BY <1>1, <3>1
  <2>2. CASE CleanRetain
    BY <1>1, <2>2, RetainDropsExpired
  <2>3. blocks' # blocks
    BY <1>1
  <2> QED
    BY <1>1, <2>1, <2>2, <2>3 DEF Next, AddBlock, Receive, LoadHeight,
       StoreHeight, ReadLatest, WriteLatest, CleanRead, vars
<1>2. IInv /\ [Next]_vars
        => [\A h \in Hash : blocks'[h] < blocks[h]
                             => blocks'[h] = Absent /\ Expired(h)]_vars
  BY <1>1
<1> QED
  BY <1>2, InvariantIInv, PTL DEF Spec, CommitmentOnlyRises
----------------------------------------------------------------------------
(* To its users the store is the atomic register per blockhash of          *)
(* RecentBlockhashes, although add_block and clean are not atomic.         *)
LEMMA RefineInit == Init => Abstract!AbsInit
BY DEF Init, Abstract!AbsInit, FinalizedTaken, Taken, NoBlock,
   Abstract!Absent, Abstract!Final

LEMMA RefineNext ==
  IInv /\ [Next]_vars => [Abstract!AbsNext]_(Abstract!absVars)
<1> SUFFICES ASSUME IInv, [Next]_vars
             PROVE  Abstract!AbsNext \/ UNCHANGED Abstract!absVars
  OBVIOUS
<1> USE DEF Abstract!absVars, Abstract!Absent, Abstract!Final,
            Abstract!Commitment
<1>1. ASSUME NEW w \in Writer, Receive(w)
      PROVE  Abstract!AbsNext \/ UNCHANGED Abstract!absVars
  <2>1. PICK a \in Announced : msg' = [msg EXCEPT ![w] = a]
    BY <1>1 DEF Receive
  <2>2. Taken' = Taken \union {a}
    BY <1>1, <2>1 DEF Receive, Taken, IInv, TypeOK, IdleWriterHoldsNothing
  <2>3. a \in Hash \X Commitment
    OBVIOUS
  <2>4. FinalizedTaken' = FinalizedTaken \union
                           (IF a[2] = Finalized THEN {a[1]} ELSE {})
    BY <2>2, <2>3 DEF FinalizedTaken
  <2>5. blocks' = blocks
    BY <1>1 DEF Receive
  <2>6. CASE a[2] = Finalized
    <3>1. Abstract!HearFinalized(a[1])
      BY <2>4, <2>5, <2>6 DEF Abstract!HearFinalized
    <3> QED
      BY <2>3, <3>1 DEF Abstract!AbsNext
  <2>7. CASE a[2] # Finalized
    BY <2>4, <2>5, <2>7
  <2> QED
    BY <2>6, <2>7
<1>2. ASSUME NEW w \in Writer, UpdateEntry(w)
      PROVE  Abstract!AbsNext \/ UNCHANGED Abstract!absVars
  <2> DEFINE g == msg[w][1]
  <2> DEFINE new == msg[w][2]
  <2>1. Taken' = Taken
    BY <1>2 DEF UpdateEntry, Taken, IInv, TypeOK, IdleWriterHoldsNothing
  <2>2. FinalizedTaken' = FinalizedTaken
    BY <2>1 DEF FinalizedTaken
  <2>3. g \in Hash /\ new \in Commitment /\ msg[w] = <<g, new>>
    BY MsgIsPair DEF IInv
  <2>4. new = Finalized => g \in FinalizedTaken
    BY <2>3 DEF FinalizedTaken, Taken
  <2>5. Abstract!Add(g, new)
    BY <1>2, <2>2, <2>4, EntryEffect DEF Abstract!Add
  <2> QED
    BY <2>3, <2>5 DEF Abstract!AbsNext
<1>3. CASE CleanRetain
  <2> DEFINE gone == {h \in Hash : blocks'[h] # blocks[h]}
  <2>1. UNCHANGED FinalizedTaken
    BY <1>3 DEF CleanRetain, FinalizedTaken, Taken
  <2>2. \A h \in gone : blocks'[h] = Absent /\ Expired(h)
    BY <1>3, RetainDropsExpired
  <2>3. \A h \in gone : \E f \in FinalizedTaken :
           [x \in Hash |-> LastValid(x)][h] < HeightOf[f]
    BY <2>2 DEF Expired, FinalizedTaken
  <2>4. blocks' = [h \in Hash |-> IF h \in gone THEN Absent ELSE blocks[h]]
    <3>1. blocks' = [h \in Hash |-> blocks'[h]]
      BY <1>3 DEF CleanRetain
    <3> QED
      BY <2>2, <3>1
  <2>5. Abstract!Forget(gone)
    BY <2>1, <2>3, <2>4 DEF Abstract!Forget
  <2> QED
    BY <2>5 DEF Abstract!AbsNext
<1>4. CASE UNCHANGED <<blocks, msg, done>>
  BY <1>4 DEF FinalizedTaken, Taken
<1> QED
  BY <1>1, <1>2, <1>3, <1>4 DEF Next, AddBlock, LoadHeight, StoreHeight,
     ReadLatest, WriteLatest, CleanRead, vars

THEOREM StoreImplementsRecentBlockhashes ==
  Spec => ImplementsRecentBlockhashes
BY RefineInit, RefineNext, InvariantIInv, PTL
   DEF Spec, ImplementsRecentBlockhashes, Abstract!AbsSpec
=============================================================================
