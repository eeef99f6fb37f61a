------------------------ MODULE BlockInformationStore ------------------------
(***************************************************************************)
(* The store of recent blockhashes of lite-rpc                             *)
(* (core/src/stores/block_information_store.rs) under the tasks that use   *)
(* it: the writers of services/src/data_caching_service.rs, which call     *)
(* add_block once per message of their stream, and the cleaning task.      *)
(*                                                                         *)
(* add_block is not atomic.  The runtime is multi-threaded, last_blockheight*)
(* is loaded and stored separately, and the read guard of the latest block *)
(* is released before the write guard is asked for.  Each of these is a    *)
(* step of its own here; the update of one DashMap entry is one step.      *)
(*                                                                         *)
(* A BlockInformation is determined by its blockhash and the commitment it *)
(* was announced at, so only these two are kept.                           *)
(***************************************************************************)
EXTENDS Commitments, Naturals

CONSTANTS
  Hash,       \* blockhashes the cluster produces, forks included
  SlotOf,     \* slot of each block
  HeightOf,   \* block height of each block
  Genesis,    \* first finalized block, seen before the store is created
  Announced,  \* the announcements <<hash, commitment>> of the cluster
  Writer,     \* tasks that call add_block
  MaxRecent   \* MAX_RECENT_BLOCKHASHES

Announcement == Hash \X Commitment

ASSUME ChainAssumption ==
  /\ SlotOf \in [Hash -> Nat]
  /\ HeightOf \in [Hash -> Nat]
  /\ Genesis \in Hash
  /\ Announced \subseteq Announcement
  /\ MaxRecent \in Nat

VARIABLES
  blocks,     \* commitment stored for each blockhash, or Absent
  lastHeight, \* last_blockheight
  latest,     \* [confirmed, finalized]: the two latest_*_block cells
  pc, msg,    \* where each writer stands in add_block, and its block
  snapshot,   \* finalized block the cleaner has read, or <<>>
  done        \* history: announcements whose add_block has returned

vars == <<blocks, lastHeight, latest, pc, msg, snapshot, done>>

(* BlockInformation::from_block and from_block_info *)
LastValid(h) == HeightOf[h] + MaxRecent

(* Mutant: only processed blocks have the other cell.                      *)
CellAnyConfirmed(commitment) ==
  IF commitment # Processed THEN "finalized" ELSE "confirmed"

(* get_latest_block_arc: anything that is not finalized shares one cell. *)
Cell(commitment) == IF commitment = Finalized THEN "finalized" ELSE "confirmed"

(* What msg holds between two calls of add_block.                          *)
NoBlock == <<Genesis, Finalized>>

Init ==
  /\ blocks = [h \in Hash |-> IF h = Genesis THEN Finalized ELSE Absent]
  /\ lastHeight = HeightOf[Genesis]
  /\ latest = [c \in {"confirmed", "finalized"} |-> <<Genesis, Finalized>>]
  /\ pc = [w \in Writer |-> "recv"]
  /\ msg = [w \in Writer |-> NoBlock]
  /\ snapshot = <<>>
  /\ done = {<<Genesis, Finalized>>}

----------------------------------------------------------------------------
(* A writer takes the next message of its stream.  A lagging receiver      *)
(* skips messages, parallel block pollers announce out of order and a      *)
(* restarted multiplexer announces again: any announcement may be next.    *)
Receive(w) ==
  /\ pc[w] = "recv"
  /\ \E a \in Announced : msg' = [msg EXCEPT ![w] = a]
  /\ pc' = [pc EXCEPT ![w] = "load_height"]
  /\ UNCHANGED <<blocks, lastHeight, latest, snapshot, done>>

LoadHeight(w) ==
  /\ pc[w] = "load_height"
  /\ pc' = [pc EXCEPT ![w] = IF lastHeight < HeightOf[msg[w][1]]
                             THEN "store_height" ELSE "read_latest"]
  /\ UNCHANGED <<blocks, lastHeight, latest, msg, snapshot, done>>

StoreHeight(w) ==
  /\ pc[w] = "store_height"
  /\ lastHeight' = HeightOf[msg[w][1]]
  /\ pc' = [pc EXCEPT ![w] = "read_latest"]
  /\ UNCHANGED <<blocks, latest, msg, snapshot, done>>

ReadLatest(w) ==
  /\ pc[w] = "read_latest"
  /\ pc' = [pc EXCEPT ![w] =
              IF SlotOf[msg[w][1]] > SlotOf[latest[Cell(msg[w][2])][1]]
              THEN "write_latest" ELSE "entry"]
  /\ UNCHANGED <<blocks, lastHeight, latest, msg, snapshot, done>>

WriteLatest(w) ==
  /\ pc[w] = "write_latest"
  /\ latest' = [latest EXCEPT ![Cell(msg[w][2])] = msg[w]]
  /\ pc' = [pc EXCEPT ![w] = "entry"]
  /\ UNCHANGED <<blocks, lastHeight, msg, snapshot, done>>

(* Mutant: the announcement that comes last wins.                          *)
ShouldUpdateAlways(old, new) == old # Absent \/ new # Absent

(* Whether an occupied entry is replaced by one of commitment new. *)
ShouldUpdate(old, new) ==
  \/ old = Processed /\ new \in {Confirmed, Finalized}
  \/ old = Confirmed /\ new = Finalized

(* Mutant: the commitment is taken from the latest cell, read again.       *)
UpdateEntryFromLatest(w) ==
  /\ pc[w] = "entry"
  /\ blocks' = [blocks EXCEPT ![msg[w][1]] = latest[Cell(msg[w][2])][2]]
  /\ done' = done \union {msg[w]}
  /\ pc' = [pc EXCEPT ![w] = "recv"]
  /\ msg' = [msg EXCEPT ![w] = NoBlock]
  /\ UNCHANGED <<lastHeight, latest, snapshot>>

(* The entry API: insert when vacant, replace when should_update. *)
UpdateEntry(w) ==
  /\ pc[w] = "entry"
  /\ LET h == msg[w][1]
         new == msg[w][2]
     IN blocks' = IF blocks[h] = Absent \/ ShouldUpdate(blocks[h], new)
                  THEN [blocks EXCEPT ![h] = new]
                  ELSE blocks
  /\ done' = done \union {msg[w]}
  /\ pc' = [pc EXCEPT ![w] = "recv"]
  /\ msg' = [msg EXCEPT ![w] = NoBlock]
  /\ UNCHANGED <<lastHeight, latest, snapshot>>

(* clean, in two steps: the latest finalized block is read under its lock, *)
(* the retain runs later with the value read.                              *)
CleanRead ==
  /\ snapshot = <<>>
  /\ snapshot' = <<latest["finalized"][1]>>
  /\ UNCHANGED <<blocks, lastHeight, latest, pc, msg, done>>

(* Mutant: off by one at the last height a blockhash may be used.          *)
CleanRetainOffByOne ==
  /\ snapshot # <<>>
  /\ blocks' = [h \in Hash |-> IF LastValid(h) > HeightOf[snapshot[1]]
                               THEN blocks[h] ELSE Absent]
  /\ snapshot' = <<>>
  /\ UNCHANGED <<lastHeight, latest, pc, msg, done>>

(* Mutant: entries go by the last height seen, not by the finalized one.   *)
CleanRetainByLastHeight ==
  /\ snapshot # <<>>
  /\ blocks' = [h \in Hash |-> IF LastValid(h) >= lastHeight
                               THEN blocks[h] ELSE Absent]
  /\ snapshot' = <<>>
  /\ UNCHANGED <<lastHeight, latest, pc, msg, done>>

CleanRetain ==
  /\ snapshot # <<>>
  /\ blocks' = [h \in Hash |-> IF LastValid(h) >= HeightOf[snapshot[1]]
                               THEN blocks[h] ELSE Absent]
  /\ snapshot' = <<>>
  /\ UNCHANGED <<lastHeight, latest, pc, msg, done>>

AddBlock(w) ==
  \/ Receive(w)
  \/ LoadHeight(w)
  \/ StoreHeight(w)
  \/ ReadLatest(w)
  \/ WriteLatest(w)
  \/ UpdateEntry(w)

Next ==
  \/ \E w \in Writer : AddBlock(w)
  \/ CleanRead
  \/ CleanRetain

Spec == Init /\ [][Next]_vars

----------------------------------------------------------------------------
(* The announcements some writer has taken from its stream so far.         *)
Taken == done \union {msg[w] : w \in Writer}

(* A finalized block beyond the last height at which h may be used has     *)
(* been announced: nobody may rely on h being in the store any more.       *)
Expired(h) ==
  \E f \in Hash : <<f, Finalized>> \in Taken /\ LastValid(h) < HeightOf[f]

(* The variables keep their types, and the finalized cell, which the       *)
(* cleaner and the validity check go by, only ever holds a block that was  *)
(* announced as finalized, whatever the other announcements are.           *)
TypeOK ==
  /\ blocks \in [Hash -> Commitment \union {Absent}]
  /\ lastHeight \in Nat
  /\ latest \in [{"confirmed", "finalized"} -> Announcement]
  /\ latest["finalized"][2] = Finalized
  /\ pc \in [Writer -> {"recv", "load_height", "store_height", "read_latest",
                        "write_latest", "entry"}]
  /\ msg \in [Writer -> Announcement]
  /\ snapshot \in {<<>>} \union {<<h>> : h \in Hash}
  /\ done \subseteq Announcement

(* "This structure will store block information till where finalized block *)
(* is still in range of last valid block hash": every announcement that    *)
(* was added is still there, at that commitment or a higher one, until the *)
(* blockhash has expired -- in whatever order the two tasks announced it   *)
(* and however old the block is that the cleaner compares with.            *)
KeptWhileValid ==
  \A h \in Hash, c \in Commitment :
    <<h, c>> \in done /\ ~Expired(h) => blocks[h] >= c

(* The store never shows a block at a commitment nobody has announced.     *)
NeverOverstated ==
  \A h \in Hash : blocks[h] # Absent => <<h, blocks[h]>> \in done

(* The blockhash get_latest_blockhash hands out can be looked up by        *)
(* send_transaction, except while the writer that published it has still   *)
(* to reach the map entry, or when it has expired meanwhile.               *)
LatestCanBeLookedUp ==
  \A cell \in {"confirmed", "finalized"} :
    LET h == latest[cell][1]
    IN \/ blocks[h] # Absent
       \/ \E w \in Writer : pc[w] = "entry" /\ msg[w][1] = h
       \/ Expired(h)

(* What the finalized cell holds was announced, however late.              *)
FinalizedCellIsFinalized == latest["finalized"] \in Taken

(* add_block replaces an entry only by one of a higher commitment; an      *)
(* entry disappears only when its blockhash has expired.                   *)
CommitmentOnlyRises ==
  [][\A h \in Hash : blocks'[h] < blocks[h] => blocks'[h] = Absent /\ Expired(h)]_vars

(* "update latest block": the latest block never moves back.               *)
LatestNeverRegresses ==
  [][\A cell \in {"confirmed", "finalized"} :
       SlotOf[latest'[cell][1]] >= SlotOf[latest[cell][1]]]_vars

----------------------------------------------------------------------------
(* To its users the store is a register per blockhash, updated atomically: *)
(* an addition takes effect at the map entry, the finalized blocks are     *)
(* those whose announcement a writer has taken.                            *)
FinalizedTaken == {h \in Hash : <<h, Finalized>> \in Taken}

Abstract == INSTANCE RecentBlockhashes WITH
  ValidUpTo <- [h \in Hash |-> LastValid(h)],
  store <- blocks,
  finalized <- FinalizedTaken

ImplementsRecentBlockhashes == Abstract!AbsSpec
=============================================================================
