---------------------------- MODULE GrpcMultiplex ----------------------------
(***************************************************************************)
(* cluster-endpoints/src/grpc_multiplex.rs: several geyser sources send    *)
(* processed blocks and the metadata of processed, confirmed and finalized *)
(* blocks.  One task per kind of message merges the sources and drops what *)
(* it has seen; the emitter task pairs the blocks with the metadata, and   *)
(* broadcasts a block again when it is confirmed and when it is finalized. *)
(*                                                                         *)
(* The channel from a merging task to the emitter is first-in first-out    *)
(* and the two share nothing else, so that merging a message and handling  *)
(* it are one step here; the four kinds of messages interleave freely.     *)
(***************************************************************************)
EXTENDS Commitments, Integers, FiniteSets

CONSTANTS
  Block,       \* blocks, those of forks included
  BlockSlot,   \* slot of each block
  Canonical,   \* the blocks that become confirmed and finalized
  MaxSize,     \* MAX_SIZE, the slots the processed task remembers
  Behind,      \* CLEANUP_SLOTS_BEHIND_FINALIZED
  MaxIdle      \* MAX_ALLOWED_CLEANUP_WITHOUT_RECV

ASSUME MultiplexAssumption ==
  /\ BlockSlot \in [Block -> Nat \ {0}]
  /\ Canonical \subseteq Block
  /\ MaxSize \in Nat \ {0}
  /\ Behind \in Nat
  /\ MaxIdle \in Nat

Stream == {"block", "confirmed", "finalized"}

(* The tasks that merge the sources, by the kind of message they pass on.  *)
Merger == {"block", "processed", "confirmed", "finalized"}

VARIABLES
  slotsProcessed, \* slots the processed block task has passed on
  tip,            \* highest slot each block info task has passed on
  recent,         \* recent_processed_blocks
  awaitConfirmed, \* confirmed_block_not_yet_processed
  awaitFinalized, \* finalized_block_not_yet_processed
  lastFinalized,  \* last_finalized_slot
  startupCompleted,
  idle,           \* cleanup ticks since each stream delivered something
  receiving,      \* whether the emitter is in its recv_loop
  merging,        \* whether each merging task runs, is stuck or has ended
  emitted,        \* history: <<block, commitment>> sent on the block stream
  infos,          \* history: <<block, commitment>> sent as block info
  twice,          \* history: what was sent twice since the last restart
  early           \* history: finalized blocks ignored while starting up

local   == <<slotsProcessed, tip, recent, awaitConfirmed, awaitFinalized,
             lastFinalized, startupCompleted, idle>>
tasks   == <<receiving, merging>>
history == <<emitted, infos, twice, early>>
multiplexVars == <<local, tasks, history>>

(* The state a (re)started multiplexer sets out with.                      *)
Fresh(c) == [k \in c |-> 0]

MultiplexInit ==
  /\ slotsProcessed = {}
  /\ tip = Fresh(Commitment)
  /\ recent = {}
  /\ awaitConfirmed = {}
  /\ awaitFinalized = {}
  /\ lastFinalized = 0
  /\ startupCompleted = FALSE
  /\ idle = Fresh(Stream)
  /\ receiving = TRUE
  /\ merging = [m \in Merger |-> "runs"]
  /\ emitted = {}
  /\ infos = {}
  /\ twice = {}
  /\ early = {}

Oldest(slots) == CHOOSE s \in slots : \A x \in slots : s <= x
Larger(a, b)  == IF a > b THEN a ELSE b

InRecvLoop == receiving /\ UNCHANGED tasks

(* producedblock_sender.send, for one or more blocks in a row.             *)
Emit(batch) ==
  /\ emitted' = emitted \union batch
  /\ twice' = twice \union (batch \intersect emitted)

(* blockinfo_sender.send                                                   *)
EmitInfo(h, c) == infos' = infos \union {<<h, c>>}

----------------------------------------------------------------------------
(* The task that merges the processed blocks passes each slot on once; a   *)
(* slot below all it remembers is too old, once it remembers enough.       *)
IsNew(slot) ==
  /\ slot \notin slotsProcessed
  /\ ~ /\ Cardinality(slotsProcessed) >= MaxSize \div 2
       /\ slotsProcessed # {}
       /\ slot <= Oldest(slotsProcessed)

Remember(slot) ==
  LET grown == slotsProcessed \union {slot}
  IN IF Cardinality(grown) > MaxSize THEN grown \ {Oldest(grown)} ELSE grown

(* Mutant: metadata that came before the block is not looked up.           *)
ProcessedBlockAlone(h) ==
  /\ InRecvLoop
  /\ IsNew(BlockSlot[h])
  /\ slotsProcessed' = Remember(BlockSlot[h])
  /\ idle' = [idle EXCEPT !["block"] = 0]
  /\ Emit({<<h, Processed>>})
  /\ UNCHANGED <<awaitConfirmed, awaitFinalized>>
  /\ recent' = recent \union {h}
  /\ UNCHANGED <<tip, lastFinalized, startupCompleted, infos, early>>

(* Mutant: the two waiting sets are swapped.                               *)
ProcessedBlockSwapped(h) ==
  /\ InRecvLoop
  /\ IsNew(BlockSlot[h])
  /\ slotsProcessed' = Remember(BlockSlot[h])
  /\ idle' = [idle EXCEPT !["block"] = 0]
  /\ Emit({<<h, Processed>>}
          \union (IF h \in awaitFinalized THEN {<<h, Confirmed>>} ELSE {})
          \union (IF h \in awaitConfirmed THEN {<<h, Finalized>>} ELSE {}))
  /\ awaitConfirmed' = awaitConfirmed \ {h}
  /\ awaitFinalized' = awaitFinalized \ {h}
  /\ recent' = recent \union {h}
  /\ UNCHANGED <<tip, lastFinalized, startupCompleted, infos, early>>

(* A processed block is emitted at once, and at the commitments whose      *)
(* metadata came before it.                                                *)
ProcessedBlock(h) ==
  /\ InRecvLoop
  /\ IsNew(BlockSlot[h])
  /\ slotsProcessed' = Remember(BlockSlot[h])
  /\ idle' = [idle EXCEPT !["block"] = 0]
  /\ Emit({<<h, Processed>>}
          \union (IF h \in awaitConfirmed THEN {<<h, Confirmed>>} ELSE {})
          \union (IF h \in awaitFinalized THEN {<<h, Finalized>>} ELSE {}))
  /\ awaitConfirmed' = awaitConfirmed \ {h}
  /\ awaitFinalized' = awaitFinalized \ {h}
  /\ recent' = recent \union {h}
  /\ UNCHANGED <<tip, lastFinalized, startupCompleted, infos, early>>

(* Mutant: the slot of the tip is passed on again.                         *)
AdvanceOrSame(h, c) ==
  /\ BlockSlot[h] >= tip[c]
  /\ tip' = [tip EXCEPT ![c] = BlockSlot[h]]

(* The tasks that merge the metadata pass on rising slots only.            *)
Advance(h, c) ==
  /\ BlockSlot[h] > tip[c]
  /\ tip' = [tip EXCEPT ![c] = BlockSlot[h]]

ProcessedInfo(h) ==
  /\ InRecvLoop
  /\ Advance(h, Processed)
  /\ EmitInfo(h, Processed)
  /\ UNCHANGED <<slotsProcessed, recent, awaitConfirmed, awaitFinalized,
                 lastFinalized, startupCompleted, idle, emitted,
                 twice, early>>

(* Mutant: the confirmed block is emitted without its processed block.     *)
ConfirmedInfoUncached(h) ==
  /\ InRecvLoop
  /\ Advance(h, Confirmed)
  /\ EmitInfo(h, Confirmed)
  /\ idle' = [idle EXCEPT !["confirmed"] = 0]
  /\ Emit({<<h, Confirmed>>})
  /\ UNCHANGED <<slotsProcessed, recent, awaitConfirmed, awaitFinalized,
                 lastFinalized, startupCompleted, early>>

ConfirmedInfo(h) ==
  /\ InRecvLoop
  /\ Advance(h, Confirmed)
  /\ EmitInfo(h, Confirmed)
  /\ idle' = [idle EXCEPT !["confirmed"] = 0]
  /\ IF h \in recent
     THEN /\ Emit({<<h, Confirmed>>})
          /\ UNCHANGED awaitConfirmed
     ELSE /\ awaitConfirmed' = awaitConfirmed \union {h}
          /\ UNCHANGED <<emitted, twice>>
  /\ UNCHANGED <<slotsProcessed, recent, awaitFinalized, lastFinalized,
                 startupCompleted, early>>

(* A finalized block leaves the cache.  One that is not there is waited    *)
(* for only after the first finalized block was emitted.                   *)
FinalizedInfo(h) ==
  /\ InRecvLoop
  /\ Advance(h, Finalized)
  /\ EmitInfo(h, Finalized)
  /\ idle' = [idle EXCEPT !["finalized"] = 0]
  /\ lastFinalized' = Larger(lastFinalized, BlockSlot[h])
  /\ recent' = recent \ {h}
  /\ IF h \in recent
     THEN /\ Emit({<<h, Finalized>>})
          /\ startupCompleted' = TRUE
          /\ UNCHANGED <<awaitFinalized, early>>
     ELSE /\ awaitFinalized' = IF startupCompleted
                               THEN awaitFinalized \union {h}
                               ELSE awaitFinalized
          /\ early' = IF startupCompleted THEN early ELSE early \union {h}
          /\ UNCHANGED <<startupCompleted, emitted, twice>>
  /\ UNCHANGED <<slotsProcessed, awaitConfirmed>>

(* The tick drops cached blocks far behind the finalized one.              *)
IsRecent(h) == lastFinalized = 0 \/ BlockSlot[h] > lastFinalized - Behind

CleanupTick ==
  /\ InRecvLoop
  /\ \A s \in Stream : idle[s] <= MaxIdle
  /\ idle' = [s \in Stream |-> idle[s] + 1]
  /\ recent' = {h \in recent : IsRecent(h)}
  /\ UNCHANGED <<slotsProcessed, tip, awaitConfirmed, awaitFinalized,
                 lastFinalized, startupCompleted, history>>

(* What the emitter has kept is dropped with its loop, and what the new     *)
(* set-up begins with.                                                     *)
Forget ==
  /\ slotsProcessed' = {}
  /\ tip' = Fresh(Commitment)
  /\ recent' = {}
  /\ awaitConfirmed' = {}
  /\ awaitFinalized' = {}
  /\ lastFinalized' = 0
  /\ startupCompleted' = FALSE
  /\ emitted' = {}
  /\ infos' = {}
  /\ twice' = {}
  /\ early' = {}

(* When a stream has been silent for too long the emitter leaves its loop, *)
(* tells the tasks to exit and waits for them; nothing reads what it has   *)
(* kept any more.                                                          *)
Stop ==
  /\ receiving
  /\ \E s \in Stream : idle[s] > MaxIdle
  /\ receiving' = FALSE
  /\ Forget
  /\ UNCHANGED <<idle, merging>>

(* A merging task that has not looked at the exit notification goes on     *)
(* passing on messages.  Nobody takes them from its channel, and once that *)
(* is full the task is stuck: it does not look at the exit while it sends. *)
Fills(m) ==
  /\ ~receiving
  /\ merging[m] = "runs"
  /\ merging' = [merging EXCEPT ![m] = "stuck"]
  /\ UNCHANGED <<local, receiving, history>>

Exits(m) ==
  /\ ~receiving
  /\ merging[m] = "runs"
  /\ merging' = [merging EXCEPT ![m] = "ended"]
  /\ UNCHANGED <<local, receiving, history>>

(* Mutant: the counters of the silent ticks survive the new set-up.        *)
RestartKeepsCounting ==
  /\ ~receiving
  /\ \A m \in Merger : merging[m] = "ended"
  /\ Forget
  /\ receiving' = TRUE
  /\ merging' = [m \in Merger |-> "runs"]
  /\ UNCHANGED idle

(* After the last of the tasks everything is set up anew.                  *)
Restart ==
  /\ ~receiving
  /\ \A m \in Merger : merging[m] = "ended"
  /\ Forget
  /\ receiving' = TRUE
  /\ merging' = [m \in Merger |-> "runs"]
  /\ idle' = Fresh(Stream)

BlockInfoMessage ==
  \/ \E h \in Block : ProcessedInfo(h)
  \/ \E h \in Canonical : ConfirmedInfo(h) \/ FinalizedInfo(h)

MultiplexNext ==
  \/ \E h \in Block : ProcessedBlock(h)
  \/ BlockInfoMessage
  \/ CleanupTick
  \/ Stop
  \/ \E m \in Merger : Fills(m) \/ Exits(m)
  \/ Restart

MultiplexSpec == MultiplexInit /\ [][MultiplexNext]_multiplexVars

(* The ticks come, the emitter acts on them, and a task that is not stuck  *)
(* takes the exit notification at last; no source is relied upon.          *)
MultiplexFairSpec ==
  /\ MultiplexSpec
  /\ WF_multiplexVars(CleanupTick) /\ WF_multiplexVars(Stop)
  /\ \A m \in Merger : WF_multiplexVars(Exits(m))
  /\ WF_multiplexVars(Restart)

----------------------------------------------------------------------------
MultiplexTypeOK ==
  /\ slotsProcessed \subseteq {BlockSlot[h] : h \in Block}
  /\ tip \in [Commitment -> Nat]
  /\ recent \subseteq Block
  /\ awaitConfirmed \subseteq Canonical
  /\ awaitFinalized \subseteq Canonical
  /\ lastFinalized \in Nat
  /\ startupCompleted \in BOOLEAN
  /\ idle \in [Stream -> 0 .. MaxIdle + 1]
  /\ receiving \in BOOLEAN
  /\ merging \in [Merger -> {"runs", "stuck", "ended"}]
  /\ \A s \in {emitted, infos, twice} : s \subseteq Block \X Commitment
  /\ early \subseteq Canonical

(* "should not see same processed slot twice", confirmed or finalized      *)
(* neither: however many sources deliver a block, and in whatever order    *)
(* its metadata come, it is emitted once per commitment.  The memory of the *)
(* processed task is bounded, and yet a slot it has forgotten is never      *)
(* taken for a new one.                                                     *)
NothingTwice ==
  /\ MultiplexTypeOK
  /\ twice = {}
  /\ Cardinality(slotsProcessed) <= MaxSize
  /\ \A h \in Block : <<h, Processed>> \in emitted => ~IsNew(BlockSlot[h])

(* "should not see confirmed (finalized) slot without seeing processed     *)
(* slot first"                                                             *)
ProcessedFirst ==
  \A h \in Block :
    <<h, Confirmed>> \in emitted \/ <<h, Finalized>> \in emitted
    => <<h, Processed>> \in emitted

(* A block whose metadata and full block have both arrived is emitted at   *)
(* that commitment: confirmed unless it is finalized or far behind by now, *)
(* finalized unless that came before the start-up was over.                *)
ArrivedIsEmitted ==
  \A h \in Canonical :
    <<h, Processed>> \in emitted =>
      /\ <<h, Confirmed>> \in infos =>
           \/ <<h, Confirmed>> \in emitted
           \/ <<h, Finalized>> \in emitted
           \/ ~IsRecent(h)
      /\ <<h, Finalized>> \in infos =>
           <<h, Finalized>> \in emitted \/ h \in early

(* "provide information about finalized blocks as quickly as possible":    *)
(* the block info is out before the block at that commitment.              *)
InfoBeforeBlock ==
  \A h \in Block, c \in {Confirmed, Finalized} :
    <<h, c>> \in emitted => <<h, c>> \in infos

(* "should not see confirmed slot after seeing finalized slot"             *)
NoConfirmedAfterFinalized ==
  [][\A h \in Block :
       <<h, Finalized>> \in emitted => <<h, Confirmed>> \notin emitted' \ emitted]_multiplexVars

(* A restart waits for all tasks, and no other end of the wait is in the   *)
(* code than theirs: with one that is stuck it never ends.                 *)
Hangs == \E m \in Merger : merging[m] = "stuck"

(* A stream that stays silent makes the multiplexer connect anew: each      *)
(* stream delivers something, or is set up again, again and again, unless  *)
(* a task got stuck on its way out.                                        *)
SilenceIsNoticed == \A s \in Stream : []<>(idle[s] = 0 \/ Hangs)
=============================================================================
