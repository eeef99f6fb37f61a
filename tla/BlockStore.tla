------------------------------ MODULE BlockStore ------------------------------
(***************************************************************************)
(* The block store in Postgres: a schema for every epoch, made statement by *)
(* statement, a block saved as a row and chunks of transactions over        *)
(* several sessions, and queries that read them meanwhile.  A task prepares *)
(* the schemas, one saves blocks, one queries, as in the integration test.  *)
(***************************************************************************)
EXTENDS Integers, Sequences, FiniteSets

CONSTANTS
  BlockSlot,      \* a set of naturals
  SlotsInEpoch,
  Sessions        \* write_sessions, 4; every block has as many chunks

ASSUME BlocksAssumption ==
  BlockSlot \subseteq Nat /\ SlotsInEpoch \in Nat \ {0} /\ Sessions \in Nat \ {0}

VARIABLES
  statements,     \* how many of the statements that make an epoch's schema were done
  blocks,         \* rows of the blocks tables
  rows,           \* chunks of transactions by slot
  prepared,       \* epochs prepare_epoch_schema still has to look at
  save,           \* the save at work: where, its slot, its chunks that run, whether one failed
  open,           \* write sessions that are connected
  asking,         \* the query at work, and whether its block was whole when its row was read
  cut             \* history: the epochs and slots at work when the process ended,
                  \* and the slots whose rows went in without an answer

blockstoreVars == <<statements, blocks, rows, prepared, save, open, asking, cut>>

EpochAt(slot) == slot \div SlotsInEpoch
SchemaEpoch == {EpochAt(s) + n : s \in BlockSlot, n \in {0, 1}}
Chunk == 1 .. Sessions

(* CREATE SCHEMA, permissions, blocks, transactions, foreign key.            *)
BlocksTable == 3
Complete == 5

NoSave == [at |-> "idle", slot |-> -1, chunks |-> {}, failed |-> FALSE]
NoQuery == [at |-> "idle", slot |-> -1, whole |-> FALSE, chunks |-> {}]

BlocksInit ==
  /\ statements = [e \in SchemaEpoch |-> 0]
  /\ blocks = {} /\ rows = [s \in BlockSlot |-> {}]
  /\ prepared = << >> /\ save = NoSave /\ open = Chunk /\ asking = NoQuery
  /\ cut = [epoch |-> {}, slot |-> {}]

------------------------------------------------------------------------------
(* prepare_epoch_schema, for the epoch and the next                         *)
Prepare(slot) ==
  /\ prepared = << >>
  /\ prepared' = <<[epoch |-> EpochAt(slot), new |-> FALSE],
                   [epoch |-> EpochAt(slot) + 1, new |-> FALSE]>>
  /\ UNCHANGED <<statements, blocks, rows, save, open, asking, cut>>

(* A schema that is there is left as it is.                                  *)
Statement ==
  /\ prepared # << >>
  /\ LET p == Head(prepared)
         done == statements[p.epoch]
     IN  IF done > 0 /\ ~p.new
         THEN prepared' = Tail(prepared) /\ UNCHANGED statements
         ELSE /\ statements' = [statements EXCEPT ![p.epoch] = @ + 1]
              /\ prepared' = IF done + 1 = Complete THEN Tail(prepared)
                             ELSE [prepared EXCEPT ![1].new = TRUE]
  /\ UNCHANGED <<blocks, rows, save, open, asking, cut>>

------------------------------------------------------------------------------
(* save_block                                                               *)

(* The single session is the first.  One that is closed is replaced under   *)
(* the write lock while get_write_session holds the read lock: it never is.  *)
Save(slot) ==
  /\ save = NoSave
  /\ save' = [NoSave EXCEPT !.at = IF 1 \in open THEN "block" ELSE "stuck", !.slot = slot]
  /\ UNCHANGED <<statements, blocks, rows, prepared, open, asking, cut>>

Insertable == 1 \in open /\ statements[EpochAt(save.slot)] >= BlocksTable

(* ON CONFLICT DO NOTHING: a block that is there is not saved again.         *)
InsertBlock ==
  /\ save.at = "block" /\ Insertable
  /\ IF save.slot \in blocks
     THEN save' = NoSave /\ UNCHANGED blocks
     ELSE save' = [save EXCEPT !.at = "chunks"] /\ blocks' = blocks \cup {save.slot}
  /\ UNCHANGED <<statements, rows, prepared, open, asking, cut>>

(* The caller is told of an error; the row may be in, if the answer was lost. *)
BlockFails(stored) ==
  /\ save.at = "block"
  /\ stored => Insertable /\ save.slot \notin blocks
  /\ save' = NoSave
  /\ IF stored
     THEN blocks' = blocks \cup {save.slot} /\ cut' = [cut EXCEPT !.slot = @ \cup {save.slot}]
     ELSE UNCHANGED <<blocks, cut>>
  /\ UNCHANGED <<statements, rows, prepared, open, asking>>

(* One session for each chunk of the transactions.                           *)
Chunks ==
  /\ save.at = "chunks"
  /\ save' = IF Chunk \subseteq open THEN [save EXCEPT !.at = "rows", !.chunks = Chunk]
             ELSE [save EXCEPT !.at = "stuck"]
  /\ UNCHANGED <<statements, blocks, rows, prepared, open, asking, cut>>

(* Like the block, a chunk may be in though its answer is lost.              *)
SaveTransactions(c) ==
  /\ save.at = "rows" /\ c \in save.chunks
  /\ \E stored, fails \in BOOLEAN :
       /\ stored \/ fails
       /\ stored => c \in open /\ statements[EpochAt(save.slot)] > BlocksTable
       /\ rows' = IF stored THEN [rows EXCEPT ![save.slot] = @ \cup {c}] ELSE rows
       /\ save' = IF fails THEN [save EXCEPT !.chunks = @ \ {c}, !.failed = TRUE]
                  ELSE [save EXCEPT !.chunks = @ \ {c}]
  /\ UNCHANGED <<statements, blocks, prepared, open, asking, cut>>

(* Mutant: the save is over with its first chunk.                            *)
AllSavedFirst == save.chunks # Chunk

AllSaved == save.chunks = {}

Saved ==
  /\ save.at = "rows" /\ AllSaved /\ ~save.failed
  /\ save' = NoSave
  /\ UNCHANGED <<statements, blocks, rows, prepared, open, asking, cut>>

SessionCloses(c) ==
  /\ c \in open
  /\ open' = open \ {c}
  /\ UNCHANGED <<statements, blocks, rows, prepared, save, asking, cut>>

MakesSchema == {i \in DOMAIN prepared : prepared[i].new}

(* Everything at work ends: the process is killed, or one of its saves or    *)
(* statements panics.  It starts again with new sessions.                    *)
Restart ==
  /\ prepared' = << >> /\ save' = NoSave /\ open' = Chunk /\ asking' = NoQuery
  /\ cut' = [epoch |-> cut.epoch \cup {prepared[i].epoch : i \in MakesSchema},
             slot |-> cut.slot \cup {s \in {save.slot} : s \in blocks}]
  /\ UNCHANGED <<statements, blocks, rows>>

------------------------------------------------------------------------------
(* query_block of the multiple-strategy storage                             *)

(* get_slot_range_by_epoch: the epochs with blocks, from all the schemas.    *)
Ranged == {EpochAt(s) : s \in blocks}

(* is_block_in_range: whether the epoch has a range, which its slot need not *)
(* be in.  There is no other storage.                                        *)
InRange(slot) == EpochAt(slot) \in Ranged

Query(slot) ==
  /\ asking = NoQuery
  /\ InRange(slot)
  /\ asking' = [NoQuery EXCEPT !.at = "block", !.slot = slot]
  /\ UNCHANGED <<statements, blocks, rows, prepared, save, open, cut>>

Whole(s) == save.slot # s /\ s \notin cut.slot

(* The row of the block is read, then its transactions.                      *)
QueryReads(part) ==
  /\ asking.at = part
  /\ LET slot == asking.slot
         at   == IF part = "block" THEN "chunks" ELSE "answer"
     IN  IF part = "chunks"
         THEN asking' = [asking EXCEPT !.chunks = rows[slot], !.at = at]
         ELSE asking' = IF slot \in blocks
                       THEN [asking EXCEPT !.whole = Whole(slot), !.at = at]
                       ELSE NoQuery
  /\ UNCHANGED <<statements, blocks, rows, prepared, save, open, cut>>

AnswerQuery ==
  /\ asking.at = "answer"
  /\ asking' = NoQuery
  /\ UNCHANGED <<statements, blocks, rows, prepared, save, open, cut>>

BlocksNext ==
  \/ \E s \in BlockSlot : Prepare(s) \/ Save(s) \/ Query(s)
  \/ \E c \in Chunk : SaveTransactions(c) \/ SessionCloses(c)
  \/ Statement \/ InsertBlock \/ Chunks \/ Saved \/ Restart
  \/ \E stored \in BOOLEAN : BlockFails(stored)
  \/ \E part \in {"block", "chunks"} : QueryReads(part)
  \/ AnswerQuery

BlocksSpec == BlocksInit /\ [][BlocksNext]_blockstoreVars

------------------------------------------------------------------------------
(* A block in the store has all its transactions, unless its save is at work *)
(* or was cut, by the end of the process or by the loss of the answer to its *)
(* insert: a later save of it skips a block that is there.                   *)
StoredIsWhole == \A s \in blocks : rows[s] = Chunk \/ ~Whole(s)

(* A query answers with all the transactions of its block, unless the save   *)
(* of it was at work, or had been cut so, when it read the row of the block. *)
AnswerIsWhole == asking.at = "answer" /\ asking.whole => asking.chunks = Chunk

(* An epoch whose schema is there has all its tables, unless making it is at *)
(* work or was cut: the schema is then never completed.                      *)
SchemasAreComplete ==
  \A e \in SchemaEpoch : statements[e] \in {0, Complete} \/ e \in cut.epoch
                     \/ \E i \in DOMAIN prepared : prepared[i].epoch = e

(* A block in the store, the answer to a query and a schema of an epoch are *)
(* whole, unless what makes them is at work or was cut.                     *)
BlocksAreWhole == StoredIsWhole /\ AnswerIsWhole /\ SchemasAreComplete
==============================================================================
