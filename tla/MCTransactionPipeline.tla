------------------------ MODULE MCTransactionPipeline ------------------------
(* The way of a transaction up to the TPU service, and from there through   *)
(* the connection of one leader.  The two are apart: a behaviour is one of  *)
(* either, under the fairness of its tasks.                                 *)
(*                                                                          *)
(* A client sends the same transaction twice.  It may land up to height 1;  *)
(* height 2 expires it.  With two replays asked for, the second is due      *)
(* later than in one Offset, so that the entry goes round in the queue.     *)
(*                                                                          *)
(* The leader is removed and comes back, and gets two transactions of       *)
(* different fees, with a heap and a broadcast channel for two, one permit. *)
EXTENDS TransactionPipeline, TLC

CONSTANTS
  r1, r2, t1,
  v1, cheap, dear,
  Parts       \* which of the two there are behaviours of

VARIABLES
  part,
  active, born, main, filler, exitMain, exitFiller, inbox, heap, wake, seen, inUse,
  tpuHeight, confirmed, sent

MCLastValid == t1 :> 1
MCTxOf      == (r1 :> t1) @@ (r2 :> t1)

Connections == INSTANCE TpuConnections WITH
  Tx <- {cheap, dear}, FeeOf <- (cheap :> 0) @@ (dear :> 1),
  LastValidOf <- (cheap :> 1) @@ (dear :> 2), MaxTransactions <- 2,
  Identity <- {v1}, MaxBorn <- 1, PoolSize <- 1, QueueSize <- 2, MaxSent <- 3,
  MaxHeight <- 1, height <- tpuHeight

connectionVars == <<active, born, main, filler, exitMain, exitFiller, inbox, heap, wake,
                    seen, inUse, tpuHeight, confirmed, sent>>

MCInit == part \in Parts /\ Init /\ Connections!Init

MCNext ==
  /\ UNCHANGED part
  /\ IF part = "transactions" THEN Next ELSE UNCHANGED vars
  /\ IF part = "connections" THEN Connections!Next ELSE UNCHANGED connectionVars

(* That of TransactionPipeline and of TpuConnections, each in its part.     *)
MCFairness ==
  /\ \A r \in Request : WF_vars(part = "transactions" /\ Submit(r))
  /\ WF_vars(part = "transactions" /\ TxSender)
  /\ WF_vars(part = "transactions" /\ Replayer)
  /\ WF_vars(part = "transactions" /\ Tick)
  /\ \A i \in Connections!Incarnation :
       /\ WF_connectionVars(part = "connections" /\ Connections!Main(i))
       /\ SF_connectionVars(part = "connections" /\ Connections!MainExit(i))
       /\ WF_connectionVars(part = "connections" /\ Connections!FillerReceive(i))
       /\ WF_connectionVars(
            /\ part = "connections"
            /\ \/ Connections!FillerStart(i)
               \/ Connections!FillerNotify(i)
               \/ Connections!FillerExpire(i))
       /\ SF_connectionVars(part = "connections" /\ Connections!FillerExit(i))
       /\ WF_connectionVars(part = "connections" /\ Connections!SendEnds(i))

MCSpec == MCInit /\ [][MCNext]_<<part, vars, connectionVars>> /\ MCFairness

------------------------------------------------------------------------------
(* TransactionPipeline: every call of send_transaction returns.             *)
SendsReturn == part = "transactions" => SubmitsReturn

(* TpuConnections: a connection that is told to exit ends.                  *)
ToldEnds == Connections!ToldEnds

(* TpuConnections: what waits in the heap gets out of it.                   *)
HeapIsEmptied == Connections!HeapIsEmptied
==============================================================================
