------------------------- MODULE GrpcMultiplexProofs -------------------------
(***************************************************************************)
(* The safety of the multiplexer of geyser sources, for any blocks, forks,  *)
(* sizes of the memory and orders of the messages.                         *)
(*                                                                         *)
(* None of the invariants of GrpcMultiplex is inductive by itself.  What a *)
(* step relies on is what the two waiting sets, the cache and the memory of *)
(* the processed task say about the blocks that were sent before: MultiInv *)
(* relates each of them to the histories.                                  *)
(***************************************************************************)
EXTENDS GrpcMultiplex, FiniteSetTheorems, WellFoundedInduction, TLAPS

(* The memory of the processed task is finite and bounded; the slot of a   *)
(* block that was emitted is in it, or below all of a full one.            *)
Remembered(slot) ==
  \/ slot \in slotsProcessed
  \/ /\ Cardinality(slotsProcessed) = MaxSize
     /\ \A s \in slotsProcessed : slot < s

MemoryInv ==
  /\ IsFiniteSet(slotsProcessed)
  /\ Cardinality(slotsProcessed) <= MaxSize
  /\ \A h \in Block : <<h, Processed>> \in emitted => Remembered(BlockSlot[h])

(* The tips are above all metadata that were passed on, and the cleanup    *)
(* never looks further than the tip of the finalized ones.                 *)
TipInv ==
  /\ \A h \in Block, c \in Commitment : <<h, c>> \in infos => BlockSlot[h] <= tip[c]
  /\ lastFinalized <= tip[Finalized]

(* What waits for its block has been announced, and a block whose metadata *)
(* came first waits, unless they were ignored while starting up.           *)
WaitingInv ==
  /\ \A h \in awaitConfirmed : <<h, Confirmed>> \in infos
  /\ \A h \in awaitFinalized : <<h, Finalized>> \in infos
  /\ \A h \in Block : <<h, Processed>> \notin emitted =>
       /\ <<h, Confirmed>> \in infos => h \in awaitConfirmed
       /\ <<h, Finalized>> \in infos => h \in awaitFinalized \/ h \in early

(* The cache holds the blocks that were emitted, until they are finalized  *)
(* or far behind.                                                          *)
CacheInv ==
  /\ \A h \in recent : <<h, Processed>> \in emitted
  /\ \A h \in Block : <<h, Processed>> \in emitted =>
       h \in recent \/ <<h, Finalized>> \in emitted \/ ~IsRecent(h)

MultiInv ==
  /\ MultiplexTypeOK
  /\ twice = {}
  /\ MemoryInv
  /\ TipInv
  /\ WaitingInv
  /\ CacheInv
  /\ ProcessedFirst
  /\ ArrivedIsEmitted
  /\ InfoBeforeBlock

----------------------------------------------------------------------------
(* The least of some natural numbers exists, and Oldest is it.             *)
LEMMA OldestIsLeast ==
  ASSUME NEW S \in SUBSET Nat, S # {}
  PROVE  Oldest(S) \in S /\ \A x \in S : Oldest(S) <= x
<1> DEFINE Less == {ss \in Nat \X Nat : ss[1] < ss[2]}
<1>1. OpToRel(<, Nat) = Less
  BY Zenon DEF OpToRel
<1>2. IsWellFoundedOn(Less, Nat)
  BY <1>1, NatLessThanWellFounded
<1> HIDE DEF Less
<1>3. PICK m \in S : \A y \in S : ~ (<<y, m>> \in Less)
  BY <1>2, WFMin
<1>4. ASSUME NEW y \in S
      PROVE  m <= y
  <2>1. <<y, m>> \in Nat \X Nat /\ <<y, m>>[1] = y /\ <<y, m>>[2] = m
    OBVIOUS
  <2>2. ~ (y < m)
    BY <1>3, <2>1, Zenon DEF Less
  <2>. QED
    BY <2>2
<1>. QED
  BY <1>4 DEF Oldest

(* What the processed task remembers stays bounded, and what it forgets is *)
(* below all that it remembers then: never the slot that has just come.    *)
LEMMA RememberKeepsMemory ==
  ASSUME slotsProcessed \subseteq Nat, IsFiniteSet(slotsProcessed),
         Cardinality(slotsProcessed) <= MaxSize,
         NEW slot \in Nat, IsNew(slot)
  PROVE  LET new == Remember(slot)
         IN  /\ new \subseteq slotsProcessed \union {slot}
             /\ IsFiniteSet(new)
             /\ Cardinality(new) <= MaxSize
             /\ slot \in new
             /\ \A x \in Nat : Remembered(x) =>
                  x \in new \/ (Cardinality(new) = MaxSize /\ \A s \in new : x < s)
<1> DEFINE grown == slotsProcessed \union {slot}
<1>a. MaxSize \in Nat \ {0}
  BY MultiplexAssumption
<1>b. grown \in SUBSET Nat /\ grown # {} /\ slot \notin slotsProcessed
  BY DEF IsNew
<1>c. /\ IsFiniteSet(grown)
      /\ Cardinality(grown) = Cardinality(slotsProcessed) + 1
      /\ Cardinality(slotsProcessed) \in Nat
  BY <1>b, FS_AddElement, FS_CardinalityType
<1>1. CASE ~ (Cardinality(grown) > MaxSize)
  <2>1. Remember(slot) = grown
    BY <1>1 DEF Remember
  <2>2. Cardinality(slotsProcessed) # MaxSize /\ Cardinality(grown) <= MaxSize
    BY <1>1, <1>a, <1>c
  <2>. QED
    BY <2>1, <2>2, <1>c DEF Remembered
<1>2. CASE Cardinality(grown) > MaxSize
  <2> DEFINE o == Oldest(grown)
             p == Oldest(slotsProcessed)
  <2>1. Remember(slot) = grown \ {o}
    BY <1>2 DEF Remember
  <2>2. Cardinality(slotsProcessed) = MaxSize
    BY <1>2, <1>a, <1>c
  <2>3. slotsProcessed # {}
    BY <2>2, <1>a, FS_EmptySet
  <2>4. /\ p \in slotsProcessed
        /\ \A x \in slotsProcessed : p <= x
    BY <2>3, OldestIsLeast
  <2>5. o \in grown /\ \A x \in grown : o <= x
    BY <1>b, OldestIsLeast
  <2>6. MaxSize >= MaxSize \div 2
    BY <1>a
  <2>7. ~ (slot <= p)
    BY <2>2, <2>3, <2>6 DEF IsNew
  <2> HIDE DEF o, p
  <2>8. p < slot /\ o < slot
    <3>1. o \in Nat /\ p \in Nat /\ o <= p
      BY <2>4, <2>5, <1>b
    <3>. QED
      BY <3>1, <2>7
  <2>9. o \in slotsProcessed
    BY <2>5, <2>8
  <2>10. IsFiniteSet(grown \ {o}) /\ Cardinality(grown \ {o}) = MaxSize
    <3> HIDE DEF grown
    <3>1. /\ IsFiniteSet(grown \ {o})
          /\ Cardinality(grown \ {o}) = Cardinality(grown) - 1
      BY <1>c, <2>5, FS_RemoveElement
    <3>. QED
      BY <3>1, <1>a, <1>c, <2>2
  <2>11. slot \in grown \ {o}
    BY <2>8
  <2>12. ASSUME NEW x \in Nat, Remembered(x)
         PROVE  x \in grown \ {o} \/ \A s \in grown \ {o} : x < s
    <3>1. CASE x \in slotsProcessed /\ x # o
      BY <3>1
    <3>2. CASE x = o
      BY <3>2, <2>5
    <3>3. CASE \A s \in slotsProcessed : x < s
      BY <3>3, <2>4, <2>8
    <3>. QED
      BY <2>12, <3>1, <3>2, <3>3 DEF Remembered
  <2>13. Cardinality(grown \ {o}) <= MaxSize
    BY <2>10, <1>a
  <2>. QED
    BY <2>1, <2>10, <2>11, <2>12, <2>13
<1>. QED
  BY <1>1, <1>2

(* A slot that is remembered is never taken for a new one.                 *)
LEMMA RememberedIsNotNew ==
  ASSUME slotsProcessed \subseteq Nat, NEW slot \in Nat, Remembered(slot)
  PROVE  ~ IsNew(slot)
<1>a. MaxSize \in Nat \ {0} /\ MaxSize >= MaxSize \div 2
  BY MultiplexAssumption
<1>1. CASE slot \in slotsProcessed
  BY <1>1 DEF IsNew
<1>2. CASE /\ Cardinality(slotsProcessed) = MaxSize
           /\ \A s \in slotsProcessed : slot < s
  <2>1. slotsProcessed # {}
    BY <1>2, <1>a, FS_EmptySet
  <2> DEFINE p == Oldest(slotsProcessed)
  <2>2. p \in slotsProcessed
    BY <2>1, OldestIsLeast
  <2>3. slot <= p
    <3> HIDE DEF p
    <3>1. p \in Nat /\ slot < p
      BY <1>2, <2>2
    <3>. QED
      BY <3>1
  <2>. QED
    BY <1>2, <1>a, <2>1, <2>3 DEF IsNew
<1>. QED
  BY <1>1, <1>2 DEF Remembered

(* The types that the steps need of the memory and of the slots.           *)
LEMMA SlotsAreNatural ==
  /\ \A h \in Block : BlockSlot[h] \in Nat \ {0}
  /\ MultiplexTypeOK => slotsProcessed \subseteq Nat
BY MultiplexAssumption DEF MultiplexTypeOK

(* What every set-up begins with: nothing was sent, and nothing waits.     *)
Blank ==
  /\ slotsProcessed = {}
  /\ tip = Fresh(Commitment)
  /\ recent = {}
  /\ awaitConfirmed = {}
  /\ awaitFinalized = {}
  /\ lastFinalized = 0
  /\ startupCompleted = FALSE
  /\ emitted = {}
  /\ infos = {}
  /\ twice = {}
  /\ early = {}

TasksTypeOK ==
  /\ idle \in [Stream -> 0 .. MaxIdle + 1]
  /\ receiving \in BOOLEAN
  /\ merging \in [Merger -> {"runs", "stuck", "ended"}]

LEMMA BlankIsConsistent == Blank /\ TasksTypeOK => MultiInv
<1> SUFFICES ASSUME Blank, TasksTypeOK
             PROVE  MultiInv
  OBVIOUS
<1> USE DEF Blank
<1>1. MultiplexTypeOK
  <2>1. tip \in [Commitment -> Nat]
    BY DEF Fresh
  <2>. QED
    BY <2>1 DEF MultiplexTypeOK, TasksTypeOK
<1>2. MemoryInv
  BY FS_EmptySet, MultiplexAssumption DEF MemoryInv
<1>3. TipInv
  BY DEF TipInv, Fresh, Commitment, Finalized
<1>4. WaitingInv /\ CacheInv
  BY DEF WaitingInv, CacheInv
<1>5. ProcessedFirst /\ ArrivedIsEmitted /\ InfoBeforeBlock
  BY DEF ProcessedFirst, ArrivedIsEmitted, InfoBeforeBlock
<1>. QED
  BY <1>1, <1>2, <1>3, <1>4, <1>5 DEF MultiInv

LEMMA FreshIsIdle == Fresh(Stream) \in [Stream -> 0 .. MaxIdle + 1]
<1>1. 0 \in 0 .. MaxIdle + 1
  BY MultiplexAssumption
<1>. QED
  BY <1>1 DEF Fresh

LEMMA MultiInvInit == MultiplexInit => MultiInv
<1> SUFFICES ASSUME MultiplexInit
             PROVE  MultiInv
  OBVIOUS
<1>1. Blank
  BY DEF MultiplexInit, Blank
<1>2. TasksTypeOK
  BY FreshIsIdle DEF MultiplexInit, TasksTypeOK
<1>. QED
  BY <1>1, <1>2, BlankIsConsistent

(* A processed block: it is new to the histories because its slot is new   *)
(* to the memory, and so are the commitments it is emitted at with it.     *)
LEMMA ProcessedBlockStep ==
  ASSUME MultiInv, NEW h \in Block, ProcessedBlock(h)
  PROVE  MultiInv'
<1> DEFINE slot == BlockSlot[h]
<1>a. slot \in Nat /\ slotsProcessed \subseteq Nat /\ \A x \in Block : BlockSlot[x] \in Nat
  BY SlotsAreNatural DEF MultiInv
<1>b. /\ <<h, Processed>> \notin emitted
      /\ <<h, Confirmed>> \notin emitted
      /\ <<h, Finalized>> \notin emitted
  BY <1>a, RememberedIsNotNew DEF ProcessedBlock, MultiInv, MemoryInv, ProcessedFirst
<1>c. \A x \in Block, c \in Commitment :
        <<x, c>> \in emitted' <=>
          \/ <<x, c>> \in emitted
          \/ /\ x = h
             /\ \/ c = Processed
                \/ c = Confirmed /\ h \in awaitConfirmed
                \/ c = Finalized /\ h \in awaitFinalized
  BY DEF ProcessedBlock, Emit
<1>d. \A c \in {Processed, Confirmed, Finalized} : c \in Commitment
  BY DEF Commitment
<1>e. /\ awaitConfirmed' = awaitConfirmed \ {h}
      /\ awaitFinalized' = awaitFinalized \ {h}
      /\ recent' = recent \union {h}
      /\ UNCHANGED <<tip, lastFinalized, startupCompleted, infos, early>>
      /\ UNCHANGED <<receiving, merging>>
  BY DEF ProcessedBlock, InRecvLoop, tasks
<1>n. Processed # Confirmed /\ Processed # Finalized /\ Confirmed # Finalized
  BY DEF Processed, Confirmed, Finalized
<1>f. LET new == Remember(slot)
      IN  /\ new \subseteq slotsProcessed \union {slot}
          /\ IsFiniteSet(new)
          /\ Cardinality(new) <= MaxSize
          /\ slot \in new
          /\ \A x \in Nat : Remembered(x) =>
               x \in new \/ (Cardinality(new) = MaxSize /\ \A s \in new : x < s)
  BY <1>a, RememberKeepsMemory DEF ProcessedBlock, MultiInv, MemoryInv
<1>g. slotsProcessed' = Remember(slot)
  BY DEF ProcessedBlock
<1>1. MultiplexTypeOK'
  <2>1. slotsProcessed' \subseteq {BlockSlot[x] : x \in Block}
    BY <1>f, <1>g DEF MultiInv, MultiplexTypeOK
  <2>2. idle' \in [Stream -> 0 .. MaxIdle + 1]
    BY MultiplexAssumption DEF MultiInv, MultiplexTypeOK, ProcessedBlock, Stream
  <2>3. emitted' \subseteq Block \X Commitment
    BY <1>d DEF MultiInv, MultiplexTypeOK, ProcessedBlock, Emit
  <2>4. twice' \subseteq Block \X Commitment
    BY DEF MultiInv, MultiplexTypeOK, ProcessedBlock, Emit
  <2>. QED
    BY <2>1, <2>2, <2>3, <2>4, <1>e DEF MultiInv, MultiplexTypeOK
<1>2. twice' = {}
  BY <1>b, <1>n DEF MultiInv, ProcessedBlock, Emit
<1>3. MemoryInv'
  <2>1. ASSUME NEW x \in Block, <<x, Processed>> \in emitted'
        PROVE  Remembered(BlockSlot[x])'
    <3>1. CASE <<x, Processed>> \in emitted
      BY <3>1, <1>a, <1>f, <1>g DEF MultiInv, MemoryInv, Remembered
    <3>2. CASE x = h
      BY <3>2, <1>f, <1>g DEF Remembered
    <3>. QED
      BY <2>1, <3>1, <3>2, <1>c, <1>d
  <2>. QED
    BY <2>1, <1>f, <1>g DEF MemoryInv
<1>4. TipInv'
  BY <1>e DEF MultiInv, TipInv
<1>5. WaitingInv'
  BY <1>c, <1>d, <1>e, <1>n DEF MultiInv, WaitingInv
<1>6. CacheInv'
  BY <1>c, <1>d, <1>e, <1>n DEF MultiInv, CacheInv, IsRecent, MultiplexTypeOK
<1>7. ProcessedFirst'
  BY <1>c, <1>d DEF MultiInv, ProcessedFirst
<1>8. ArrivedIsEmitted'
  BY <1>b, <1>c, <1>d, <1>e, <1>n, MultiplexAssumption
     DEF MultiInv, ArrivedIsEmitted, WaitingInv, IsRecent
<1>9. InfoBeforeBlock'
  BY <1>c, <1>d, <1>e, <1>n DEF MultiInv, InfoBeforeBlock, WaitingInv
<1>. QED
  BY <1>1, <1>2, <1>3, <1>4, <1>5, <1>6, <1>7, <1>8, <1>9 DEF MultiInv

(* Metadata that are passed on are new, as they are above the tip, and     *)
(* become the tip.                                                         *)
LEMMA AdvanceRaisesTip ==
  ASSUME MultiplexTypeOK, TipInv, NEW h \in Block, NEW c \in Commitment,
         Advance(h, c), EmitInfo(h, c)
  PROVE  /\ <<h, c>> \notin infos
         /\ tip' \in [Commitment -> Nat]
         /\ tip'[c] = BlockSlot[h] /\ tip[c] < BlockSlot[h]
         /\ \A k \in Commitment : tip[k] <= tip'[k]
         /\ infos' \subseteq Block \X Commitment
         /\ \A x \in Block, k \in Commitment : <<x, k>> \in infos' => BlockSlot[x] <= tip'[k]
         /\ \A x \in Block, k \in Commitment :
              <<x, k>> \in infos' <=> <<x, k>> \in infos \/ (x = h /\ k = c)
<1>a. tip \in [Commitment -> Nat] /\ \A x \in Block : BlockSlot[x] \in Nat
  BY SlotsAreNatural DEF MultiplexTypeOK
<1>1. <<h, c>> \notin infos
  BY <1>a DEF TipInv, Advance
<1>2. tip' \in [Commitment -> Nat] /\ \A k \in Commitment : tip'[k] = IF k = c THEN BlockSlot[h] ELSE tip[k]
  BY <1>a DEF Advance
<1>3. tip[c] < BlockSlot[h] /\ \A k \in Commitment : tip[k] <= tip'[k]
  BY <1>a, <1>2 DEF Advance
<1>4. \A x \in Block, k \in Commitment :
        <<x, k>> \in infos' <=> <<x, k>> \in infos \/ (x = h /\ k = c)
  BY DEF EmitInfo
<1>5. infos' \subseteq Block \X Commitment
  BY DEF MultiplexTypeOK, EmitInfo
<1>6. ASSUME NEW x \in Block, NEW k \in Commitment, <<x, k>> \in infos'
      PROVE  BlockSlot[x] <= tip'[k]
  <2>1. CASE <<x, k>> \in infos
    BY <2>1, <1>a, <1>2, <1>3 DEF TipInv
  <2>2. CASE x = h /\ k = c
    BY <2>2, <1>a, <1>2
  <2>. QED
    BY <2>1, <2>2, <1>4, <1>6
<1>. QED
  BY <1>1, <1>2, <1>3, <1>4, <1>5, <1>6

(* The memory of the processed task is only touched by processed blocks.   *)
LEMMA MemoryIsKept ==
  ASSUME MemoryInv, UNCHANGED slotsProcessed,
         \A x \in Block : <<x, Processed>> \in emitted' => <<x, Processed>> \in emitted
  PROVE  MemoryInv'
BY DEF MemoryInv, Remembered

(* Metadata of a processed block: nothing waits for them.                  *)
LEMMA ProcessedInfoStep ==
  ASSUME MultiInv, NEW h \in Block, ProcessedInfo(h)
  PROVE  MultiInv'
<1>a. /\ MultiplexTypeOK /\ TipInv
      /\ Advance(h, Processed) /\ EmitInfo(h, Processed)
      /\ UNCHANGED <<slotsProcessed, recent, awaitConfirmed, awaitFinalized,
                     lastFinalized, startupCompleted, idle, emitted, twice, early,
                     receiving, merging>>
  BY DEF MultiInv, ProcessedInfo, InRecvLoop, tasks
<1>c. {Processed, Confirmed, Finalized} = Commitment
  BY DEF Commitment
<1>n. Processed # Confirmed /\ Processed # Finalized
  BY DEF Processed, Confirmed, Finalized
<1>t. /\ tip' \in [Commitment -> Nat]
      /\ \A k \in Commitment : tip[k] <= tip'[k]
      /\ infos' \subseteq Block \X Commitment
      /\ \A x \in Block, k \in Commitment : <<x, k>> \in infos' => BlockSlot[x] <= tip'[k]
      /\ \A x \in Block, k \in Commitment :
           <<x, k>> \in infos' <=> <<x, k>> \in infos \/ (x = h /\ k = Processed)
  BY <1>a, <1>c, AdvanceRaisesTip
<1>1. MultiplexTypeOK' /\ twice' = {}
  BY <1>a, <1>t DEF MultiInv, MultiplexTypeOK
<1>2. MemoryInv'
  BY <1>a, MemoryIsKept DEF MultiInv
<1>3. TipInv'
  BY <1>a, <1>t, <1>c DEF TipInv, MultiplexTypeOK
<1>4. WaitingInv' /\ CacheInv' /\ ProcessedFirst'
  BY <1>a, <1>t, <1>c, <1>n, MultiplexAssumption
     DEF MultiInv, MultiplexTypeOK, WaitingInv, CacheInv, ProcessedFirst, IsRecent
<1>5. ArrivedIsEmitted' /\ InfoBeforeBlock'
  BY <1>a, <1>t, <1>c, <1>n, MultiplexAssumption
     DEF MultiInv, ArrivedIsEmitted, InfoBeforeBlock, IsRecent
<1>. QED
  BY <1>1, <1>2, <1>3, <1>4, <1>5 DEF MultiInv

(* Metadata of a confirmed block: emitted when the cache has it, which it  *)
(* has unless it is finalized or far behind; waited for otherwise.         *)
LEMMA ConfirmedInfoStep ==
  ASSUME MultiInv, NEW h \in Canonical, ConfirmedInfo(h)
  PROVE  MultiInv'
<1>a. /\ MultiplexTypeOK /\ TipInv
      /\ Advance(h, Confirmed) /\ EmitInfo(h, Confirmed)
      /\ UNCHANGED <<slotsProcessed, recent, awaitFinalized,
                     lastFinalized, startupCompleted, early, receiving, merging>>
  BY DEF MultiInv, ConfirmedInfo, InRecvLoop, tasks
<1>h. h \in Block /\ Canonical \subseteq Block
  BY MultiplexAssumption
<1>c. {Processed, Confirmed, Finalized} = Commitment
  BY DEF Commitment
<1>n. Processed # Confirmed /\ Processed # Finalized /\ Confirmed # Finalized
  BY DEF Processed, Confirmed, Finalized
<1>t. /\ <<h, Confirmed>> \notin infos
      /\ tip' \in [Commitment -> Nat]
      /\ \A k \in Commitment : tip[k] <= tip'[k]
      /\ infos' \subseteq Block \X Commitment
      /\ \A x \in Block, k \in Commitment : <<x, k>> \in infos' => BlockSlot[x] <= tip'[k]
      /\ \A x \in Block, k \in Commitment :
           <<x, k>> \in infos' <=> <<x, k>> \in infos \/ (x = h /\ k = Confirmed)
  BY <1>a, <1>c, <1>h, AdvanceRaisesTip
<1>s. <<h, Confirmed>> \notin emitted
  BY <1>t, <1>h DEF MultiInv, InfoBeforeBlock
<1>e. /\ h \in recent => emitted' = emitted \union {<<h, Confirmed>>}
      /\ h \notin recent => emitted' = emitted
      /\ awaitConfirmed' = IF h \in recent THEN awaitConfirmed
                           ELSE awaitConfirmed \union {h}
  BY DEF ConfirmedInfo, Emit
<1>1. MultiplexTypeOK'
  <2>1. idle' \in [Stream -> 0 .. MaxIdle + 1]
    BY MultiplexAssumption DEF MultiInv, MultiplexTypeOK, ConfirmedInfo, Stream
  <2>2. /\ emitted' \subseteq Block \X Commitment
        /\ awaitConfirmed' \subseteq Canonical
    BY <1>a, <1>c, <1>e, <1>h DEF MultiplexTypeOK
  <2>3. twice' = {}
    BY <1>s DEF ConfirmedInfo, Emit, MultiInv
  <2>. QED
    BY <1>a, <1>t, <2>1, <2>2, <2>3 DEF MultiplexTypeOK
<1>2. twice' = {}
  BY <1>s DEF ConfirmedInfo, Emit, MultiInv
<1>3. MemoryInv'
  BY <1>a, <1>e, <1>n, MemoryIsKept DEF MultiInv
<1>4. TipInv'
  BY <1>a, <1>t, <1>c DEF TipInv, MultiplexTypeOK
<1>5. WaitingInv'
  BY <1>a, <1>e, <1>t, <1>c, <1>h, <1>n DEF MultiInv, MultiplexTypeOK, WaitingInv, CacheInv
<1>6. CacheInv'
  BY <1>a, <1>e, <1>n DEF MultiInv, MultiplexTypeOK, CacheInv, IsRecent
<1>7. ProcessedFirst'
  BY <1>a, <1>e, <1>n DEF MultiInv, ProcessedFirst, CacheInv
<1>8. ArrivedIsEmitted'
  BY <1>a, <1>e, <1>t, <1>c, <1>h, <1>n
     DEF MultiInv, ArrivedIsEmitted, CacheInv, IsRecent
<1>9. InfoBeforeBlock'
  BY <1>e, <1>t, <1>c, <1>h, <1>n DEF MultiInv, InfoBeforeBlock
<1>. QED
  BY <1>1, <1>2, <1>3, <1>4, <1>5, <1>6, <1>7, <1>8, <1>9 DEF MultiInv

(* Metadata of a finalized block: the block leaves the cache and is         *)
(* emitted; one that is not in the cache was not emitted yet, since its     *)
(* slot is above the finalized tip and so not behind it.                    *)
LEMMA FinalizedInfoStep ==
  ASSUME MultiInv, NEW h \in Canonical, FinalizedInfo(h)
  PROVE  MultiInv'
<1>a. /\ MultiplexTypeOK /\ TipInv
      /\ Advance(h, Finalized) /\ EmitInfo(h, Finalized)
      /\ UNCHANGED <<slotsProcessed, awaitConfirmed, receiving, merging>>
  BY DEF MultiInv, FinalizedInfo, InRecvLoop, tasks
<1>h. h \in Block /\ Canonical \subseteq Block
  BY MultiplexAssumption
<1>c. {Processed, Confirmed, Finalized} = Commitment
  BY DEF Commitment
<1>n. Processed # Confirmed /\ Processed # Finalized /\ Confirmed # Finalized
  BY DEF Processed, Confirmed, Finalized
<1>t. /\ <<h, Finalized>> \notin infos
      /\ tip' \in [Commitment -> Nat]
      /\ tip'[Finalized] = BlockSlot[h] /\ tip[Finalized] < BlockSlot[h]
      /\ \A k \in Commitment : tip[k] <= tip'[k]
      /\ infos' \subseteq Block \X Commitment
      /\ \A x \in Block, k \in Commitment : <<x, k>> \in infos' => BlockSlot[x] <= tip'[k]
      /\ \A x \in Block, k \in Commitment :
           <<x, k>> \in infos' <=> <<x, k>> \in infos \/ (x = h /\ k = Finalized)
  BY <1>a, <1>c, <1>h, AdvanceRaisesTip
<1>s. <<h, Finalized>> \notin emitted
  BY <1>t, <1>h DEF MultiInv, InfoBeforeBlock
<1>l. /\ \A x \in Block : BlockSlot[x] \in Nat \ {0}
      /\ tip[Finalized] \in Nat /\ lastFinalized \in Nat /\ Behind \in Nat
      /\ lastFinalized <= tip[Finalized]
  BY <1>a, <1>c, SlotsAreNatural, MultiplexAssumption DEF MultiplexTypeOK, TipInv
<1>r. /\ lastFinalized' = BlockSlot[h]
      /\ IsRecent(h)
      /\ \A x \in Block : ~IsRecent(x) => ~IsRecent(x)'
  <2>1. lastFinalized < BlockSlot[h]
    BY <1>h, <1>l, <1>t
  <2>2. lastFinalized' = BlockSlot[h]
    BY <2>1, <1>h, <1>l DEF FinalizedInfo, Larger
  <2>. QED
    BY <2>1, <2>2, <1>h, <1>l DEF IsRecent
<1>e. /\ recent' = recent \ {h}
      /\ h \in recent => /\ emitted' = emitted \union {<<h, Finalized>>}
                         /\ UNCHANGED <<awaitFinalized, early>>
      /\ h \notin recent => /\ UNCHANGED emitted
                            /\ awaitFinalized' \in {awaitFinalized, awaitFinalized \union {h}}
                            /\ early' \in {early, early \union {h}}
                            /\ h \in awaitFinalized' \/ h \in early'
  BY DEF FinalizedInfo, Emit
<1>p. h \notin recent => <<h, Processed>> \notin emitted
  BY <1>h, <1>r, <1>s DEF MultiInv, CacheInv
<1>1. MultiplexTypeOK'
  <2>1. idle' \in [Stream -> 0 .. MaxIdle + 1]
    BY MultiplexAssumption DEF MultiInv, MultiplexTypeOK, FinalizedInfo, Stream
  <2>2. /\ emitted' \subseteq Block \X Commitment
        /\ awaitFinalized' \subseteq Canonical
        /\ early' \subseteq Canonical
        /\ recent' \subseteq Block
    BY <1>a, <1>c, <1>e, <1>h DEF MultiplexTypeOK
  <2>3. twice' = {} /\ startupCompleted' \in BOOLEAN
    BY <1>s DEF FinalizedInfo, Emit, MultiInv, MultiplexTypeOK
  <2>4. lastFinalized' \in Nat
    BY <1>h, <1>l, <1>r
  <2>. QED
    BY <1>a, <1>t, <2>1, <2>2, <2>3, <2>4 DEF MultiplexTypeOK
<1>2. twice' = {}
  BY <1>s DEF FinalizedInfo, Emit, MultiInv
<1>3. MemoryInv'
  BY <1>a, <1>e, <1>n, MemoryIsKept DEF MultiInv
<1>4. TipInv'
  BY <1>t, <1>r, <1>h, <1>l DEF TipInv
<1>5. WaitingInv'
  <2>1. \A x \in awaitConfirmed' : <<x, Confirmed>> \in infos'
    BY <1>a DEF MultiInv, WaitingInv, EmitInfo
  <2>2. \A x \in awaitFinalized' : <<x, Finalized>> \in infos'
    BY <1>a, <1>e DEF MultiInv, WaitingInv, EmitInfo
  <2>3. ASSUME NEW x \in Block, <<x, Processed>> \notin emitted'
        PROVE  /\ <<x, Confirmed>> \in infos' => x \in awaitConfirmed'
               /\ <<x, Finalized>> \in infos' => x \in awaitFinalized' \/ x \in early'
    <3>1. <<x, Processed>> \notin emitted
      BY <2>3, <1>e
    <3>2. <<x, Confirmed>> \in infos' => x \in awaitConfirmed'
      BY <3>1, <1>a, <1>c, <1>n, <1>t DEF MultiInv, WaitingInv
    <3>3. CASE x = h
      BY <3>1, <3>2, <3>3, <1>e DEF MultiInv, CacheInv
    <3>4. CASE x # h
      BY <3>1, <3>2, <3>4, <1>c, <1>e, <1>t DEF MultiInv, WaitingInv
    <3>. QED
      BY <3>3, <3>4
  <2>. QED
    BY <2>1, <2>2, <2>3 DEF WaitingInv
<1>6. CacheInv'
  BY <1>e, <1>n, <1>r DEF MultiInv, CacheInv
<1>7. ProcessedFirst'
  BY <1>e, <1>n DEF MultiInv, ProcessedFirst, CacheInv
<1>8. ArrivedIsEmitted'
  BY <1>e, <1>t, <1>c, <1>h, <1>n, <1>p, <1>r DEF MultiInv, ArrivedIsEmitted
<1>9. InfoBeforeBlock'
  BY <1>e, <1>t, <1>c, <1>h, <1>n DEF MultiInv, InfoBeforeBlock
<1>. QED
  BY <1>1, <1>2, <1>3, <1>4, <1>5, <1>6, <1>7, <1>8, <1>9 DEF MultiInv

(* The tick takes from the cache only what is far behind.                  *)
LEMMA CleanupTickStep ==
  ASSUME MultiInv, CleanupTick
  PROVE  MultiInv'
<1>a. /\ recent' = {h \in recent : IsRecent(h)}
      /\ UNCHANGED <<slotsProcessed, tip, awaitConfirmed, awaitFinalized,
                     lastFinalized, startupCompleted, emitted, infos, twice, early,
                     receiving, merging>>
  BY DEF CleanupTick, history, InRecvLoop, tasks
<1>b. \A h \in Block : IsRecent(h)' = IsRecent(h)
  BY <1>a DEF IsRecent
<1>1. idle' \in [Stream -> 0 .. MaxIdle + 1]
  <2>1. \A s \in Stream : idle[s] \in 0 .. MaxIdle + 1 /\ idle[s] <= MaxIdle
    BY DEF MultiInv, MultiplexTypeOK, CleanupTick
  <2>2. \A s \in Stream : idle[s] + 1 \in 0 .. MaxIdle + 1
    BY <2>1, MultiplexAssumption
  <2>. QED
    BY <2>2 DEF CleanupTick
<1>2. MultiplexTypeOK' /\ twice' = {}
  BY <1>a, <1>1 DEF MultiInv, MultiplexTypeOK
<1>3. MemoryInv'
  BY <1>a, MemoryIsKept DEF MultiInv
<1>4. TipInv' /\ WaitingInv' /\ ProcessedFirst' /\ InfoBeforeBlock'
  BY <1>a DEF MultiInv, TipInv, WaitingInv, ProcessedFirst, InfoBeforeBlock
<1>5. CacheInv'
  BY <1>a, <1>b DEF MultiInv, CacheInv, MultiplexTypeOK
<1>6. ArrivedIsEmitted'
  BY <1>a, <1>b, MultiplexAssumption DEF MultiInv, ArrivedIsEmitted
<1>. QED
  BY <1>2, <1>3, <1>4, <1>5, <1>6 DEF MultiInv

(* What the emitter forgets, when it stops and when it starts again, leaves *)
(* it as it begins.                                                        *)
LEMMA ForgetStep ==
  ASSUME Forget, TasksTypeOK'
  PROVE  MultiInv'
<1>1. Blank'
  BY DEF Forget, Blank
<1>2. Blank' /\ TasksTypeOK' => MultiInv'
  BY BlankIsConsistent, PTL
<1>. QED
  BY <1>1, <1>2

LEMMA StopStep ==
  ASSUME MultiInv, Stop
  PROVE  MultiInv'
<1>1. Forget /\ receiving' = FALSE /\ UNCHANGED <<idle, merging>>
  BY DEF Stop
<1>2. TasksTypeOK'
  BY <1>1 DEF TasksTypeOK, MultiInv, MultiplexTypeOK
<1>. QED
  BY <1>1, <1>2, ForgetStep

LEMMA RestartStep ==
  ASSUME Restart
  PROVE  MultiInv'
<1>1. /\ Forget
      /\ receiving' = TRUE
      /\ merging' = [m \in Merger |-> "runs"]
      /\ idle' = Fresh(Stream)
  BY DEF Restart
<1>2. TasksTypeOK'
  BY <1>1, FreshIsIdle DEF TasksTypeOK
<1>. QED
  BY <1>1, <1>2, ForgetStep

(* A merging task that ends, or does not, touches nothing of the emitter.  *)
LEMMA MergerStep ==
  ASSUME MultiInv, NEW m \in Merger, Fills(m) \/ Exits(m)
  PROVE  MultiInv'
<1>1. UNCHANGED <<local, receiving, history>>
  BY DEF Fills, Exits
<1>2. merging' \in [Merger -> {"runs", "stuck", "ended"}]
  BY DEF Fills, Exits, MultiInv, MultiplexTypeOK
<1>3. MultiplexTypeOK'
  BY <1>1, <1>2 DEF local, history, MultiInv, MultiplexTypeOK
<1>. QED
  BY <1>1, <1>3 DEF local, history, MultiInv, MemoryInv, Remembered, TipInv, WaitingInv,
     CacheInv, IsRecent, ProcessedFirst, ArrivedIsEmitted, InfoBeforeBlock

(* The inductive invariant.                                                *)
THEOREM MultiplexInvariant == MultiplexSpec => []MultiInv
<1>1. MultiplexInit => MultiInv
  BY MultiInvInit
<1>2. MultiInv /\ [MultiplexNext]_multiplexVars => MultiInv'
  <2> SUFFICES ASSUME MultiInv, [MultiplexNext]_multiplexVars
               PROVE  MultiInv'
    OBVIOUS
  <2>1. ASSUME NEW h \in Block, ProcessedBlock(h)
        PROVE  MultiInv'
    BY <2>1, ProcessedBlockStep
  <2>2. ASSUME NEW h \in Block, ProcessedInfo(h)
        PROVE  MultiInv'
    BY <2>2, ProcessedInfoStep
  <2>3. ASSUME NEW h \in Canonical, ConfirmedInfo(h)
        PROVE  MultiInv'
    BY <2>3, ConfirmedInfoStep
  <2>4. ASSUME NEW h \in Canonical, FinalizedInfo(h)
        PROVE  MultiInv'
    BY <2>4, FinalizedInfoStep
  <2>5. CASE CleanupTick
    BY <2>5, CleanupTickStep
  <2>6. CASE Restart
    BY <2>6, RestartStep
  <2>7. CASE Stop
    BY <2>7, StopStep
  <2>8. ASSUME NEW m \in Merger, Fills(m) \/ Exits(m)
        PROVE  MultiInv'
    BY <2>8, MergerStep
  <2>9. CASE UNCHANGED multiplexVars
    BY <2>9 DEF multiplexVars, local, tasks, history, MultiInv, MultiplexTypeOK, MemoryInv, Remembered, TipInv,
                WaitingInv, CacheInv, IsRecent, ProcessedFirst, ArrivedIsEmitted,
                InfoBeforeBlock
  <2>. QED
    BY <2>1, <2>2, <2>3, <2>4, <2>5, <2>6, <2>7, <2>8, <2>9 DEF MultiplexNext, BlockInfoMessage
<1>. QED
  BY <1>1, <1>2, PTL DEF MultiplexSpec

(* However many sources deliver a block, and in whatever order its metadata *)
(* come, it is broadcast once at each commitment, and the bounded memory of *)
(* the processed task never takes a forgotten slot for a new one.          *)
THEOREM MultiplexNothingTwice == MultiplexSpec => []NothingTwice
<1>1. MultiInv => NothingTwice
  BY SlotsAreNatural, RememberedIsNotNew DEF MultiInv, MemoryInv, NothingTwice
<1>. QED
  BY <1>1, MultiplexInvariant, PTL

(* A confirmed or finalized block is never broadcast before it was at       *)
(* commitment processed.                                                   *)
THEOREM MultiplexProcessedFirst == MultiplexSpec => []ProcessedFirst
<1>1. MultiInv => ProcessedFirst
  BY DEF MultiInv
<1>. QED
  BY <1>1, MultiplexInvariant, PTL

(* A block whose metadata and full block have both arrived is broadcast at *)
(* that commitment, whichever came first.                                  *)
THEOREM MultiplexArrivedIsEmitted == MultiplexSpec => []ArrivedIsEmitted
<1>1. MultiInv => ArrivedIsEmitted
  BY DEF MultiInv
<1>. QED
  BY <1>1, MultiplexInvariant, PTL

(* The block info is out before the block at its commitment.               *)
THEOREM MultiplexInfoBeforeBlock == MultiplexSpec => []InfoBeforeBlock
<1>1. MultiInv => InfoBeforeBlock
  BY DEF MultiInv
<1>. QED
  BY <1>1, MultiplexInvariant, PTL
==============================================================================
