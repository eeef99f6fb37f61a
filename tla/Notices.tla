-------------------------------- MODULE Notices -------------------------------
(***************************************************************************)
(* What others are told: the clients of their signatures, the database of  *)
(* the transactions that were forwarded, the operator of blocks that come  *)
(* out of order.  The three have no state in common.                       *)
(***************************************************************************)
EXTENDS PubSub, TransactionLog, GrpcInspect

(* A client gets one notification of its signature, a forward one row of    *)
(* the log, and the inspection warns of what has come out of order and of   *)
(* nothing else.                                                            *)
NoticesAreTrue == ToldOnce /\ LoggedOnce /\ WarningsAreJustified
==============================================================================
