----------------------------- MODULE ProxyClient -----------------------------
(***************************************************************************)
(* services/src/tpu_utils/quic_proxy_connection_manager.rs: instead of     *)
(* sending to the leaders, the transactions are sent to the forward proxy  *)
(* in batches, with the TPUs of the leaders.  One task does so; it is      *)
(* started with the first TPUs and reads the later ones from a lock.       *)
(***************************************************************************)
EXTENDS Integers, Sequences, AutoReconnect

CONSTANTS
  Tpu,     \* TPUs of leaders
  Batch,   \* number_of_transactions_per_unistream
  Chunk,   \* CHUNK_SIZE_PER_STREAM
  Backlog, \* capacity of the broadcast channel
  MaxTx,   \* bound of the transactions
  MaxNodes \* bound of the changes of the TPUs

ASSUME ClientAssumption ==
  /\ {Batch, Chunk, Backlog} \subseteq Nat \ {0}
  /\ {MaxTx, MaxNodes, MaxAttempts} \subseteq Nat

VARIABLES
  nodes,    \* current_tpu_nodes, with the number of the change
  reader,   \* where the task is
  backlog,  \* transactions the task has yet to receive
  lags,     \* it has missed some
  txs,      \* transactions of the batch that are not sent yet
  fanout,   \* TPUs the batch goes to
  conn,     \* the connection to the proxy
  arrived,  \* number of transactions that were broadcast
  since,    \* history: number of the change of TPUs when the batch was taken
  misses,   \* history: failed attempts to connect, in a row
  stopped   \* exit_signal

clientVars == <<nodes, reader, backlog, lags, txs, fanout, conn, arrived, since, misses, stopped>>

NoNodes == [number |-> 0, tpus |-> {}]

ClientInit ==
  /\ nodes = NoNodes
  /\ reader = "unstarted"
  /\ backlog = << >>
  /\ lags = FALSE
  /\ txs = << >>
  /\ fanout = NoNodes
  /\ conn = NotConnected
  /\ arrived = 0
  /\ since = 0
  /\ misses = 0
  /\ stopped = FALSE

(* TpuService::send_transaction.                                            *)
Broadcast ==
  /\ arrived < MaxTx
  /\ arrived' = arrived + 1
  /\ LET full == Len(backlog) = Backlog
         hears == reader \notin {"unstarted", "gone"}
     IN  /\ backlog' = IF ~hears THEN << >>
                       ELSE Append(IF full THEN Tail(backlog) ELSE backlog, arrived')
         /\ lags' = (hears /\ (lags \/ full))
  /\ UNCHANGED <<nodes, reader, txs, fanout, conn, since, misses, stopped>>

UpdateConnection(tpus) ==
  /\ nodes.number < MaxNodes
  /\ nodes' = [number |-> nodes.number + 1, tpus |-> tpus]
  /\ reader' = IF reader = "unstarted" THEN "receive" ELSE reader
  /\ UNCHANGED <<backlog, lags, txs, fanout, conn, arrived, since, misses, stopped>>

SignalShutdown ==
  /\ ~stopped
  /\ stopped' = TRUE
  /\ UNCHANGED <<nodes, reader, backlog, lags, txs, fanout, conn, arrived, since, misses>>

(* The task ends when it sees the exit signal, which it looks at before it  *)
(* waits for the next transaction, and when it has missed transactions.     *)
ReaderEnds ==
  /\ reader = "receive"
  /\ stopped \/ lags
  /\ reader' = "gone"
  /\ backlog' = << >>
  /\ lags' = FALSE
  /\ UNCHANGED <<nodes, txs, fanout, conn, arrived, since, misses, stopped>>

TakeBatch ==
  LET n == IF Len(backlog) < Batch THEN Len(backlog) ELSE Batch
  IN  /\ reader = "receive"
      /\ ~lags
      /\ n > 0
      /\ txs' = SubSeq(backlog, 1, n)
      /\ backlog' = SubSeq(backlog, n + 1, Len(backlog))
      /\ since' = nodes.number
      /\ reader' = "read"
      /\ UNCHANGED <<nodes, lags, fanout, conn, arrived, misses, stopped>>

(* Without TPUs the batch is dropped.                                       *)
ReadNodes ==
  /\ reader = "read"
  /\ fanout' = nodes
  /\ reader' = IF nodes.tpus = {} THEN "receive" ELSE "send"
  /\ txs' = IF nodes.tpus = {} THEN << >> ELSE txs
  /\ UNCHANGED <<nodes, backlog, lags, conn, arrived, since, misses, stopped>>

(* send_uni: on a connection that is there, or can be made, the stream may  *)
(* still fail.  The connection is found open or closed.                     *)
SendUni(before, success, after) ==
  /\ before \in {conn} \cup (IF conn = Open THEN {Closed} ELSE {})
  /\ after = Refreshed(before, success)

(* A chunk is sent, or the rest of the batch is dropped.                    *)
SendChunk ==
  /\ reader = "send"
  /\ \E before \in {conn, Closed}, success, written \in BOOLEAN :
       /\ SendUni(before, success, conn')
       /\ misses' = IF ~MustConnect(before) THEN misses ELSE IF success THEN 0 ELSE misses + 1
       /\ LET left == SubSeq(txs, Chunk + 1, Len(txs))
              ok == conn' = Open /\ written
          IN  /\ txs' = IF ok THEN left ELSE << >>
              /\ reader' = IF txs' = << >> THEN "receive" ELSE "send"
  /\ UNCHANGED <<nodes, backlog, lags, fanout, arrived, since, stopped>>

(* create_connection panics on any failure but a timeout, and takes the     *)
(* task along.                                                              *)
SendPanics ==
  /\ reader = "send"
  /\ MustConnect(conn) \/ conn = Open
  /\ reader' = "gone"
  /\ backlog' = << >>
  /\ lags' = FALSE
  /\ UNCHANGED <<nodes, txs, fanout, conn, arrived, since, misses, stopped>>

ClientNext ==
  \/ Broadcast
  \/ \E tpus \in SUBSET Tpu : UpdateConnection(tpus)
  \/ SignalShutdown
  \/ ReaderEnds
  \/ TakeBatch
  \/ ReadNodes
  \/ SendChunk
  \/ SendPanics

ClientSpec == ClientInit /\ [][ClientNext]_clientVars

------------------------------------------------------------------------------
(* No batch is sent to TPUs that had been replaced before it was taken, and *)
(* there are always some.                                                   *)
FanoutIsCurrent == reader = "send" => fanout.number >= since /\ fanout.tpus # {}

(* The proxy is given up for good only after MaxAttempts attempts and the   *)
(* first one have failed in a row, however often it was lost before.        *)
GivenUpAfterAttempts ==
  /\ conn = PermanentError <=> misses > MaxAttempts
  /\ conn.is = "failed" => conn.attempts = misses

(* The comment at quic_proxy_connection_manager.rs:186 expects a receive    *)
(* error when the channel is closed, and gets one whenever it lags; and a   *)
(* failed handshake ends the task, too: no run checks this.                 *)
ReaderGoesOn == reader = "gone" => stopped
==============================================================================
