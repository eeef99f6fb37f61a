------------------------------ MODULE MCBlocks -------------------------------
(* Where blocks come in and where their blockhashes are kept: the           *)
(* multiplexer of geyser sources and the block information store.  They     *)
(* share no state, so a behaviour is one of either.                         *)
(*                                                                          *)
(* The store gets a chain of four blocks and one block of a fork that is    *)
(* only ever processed.  With MaxRecent = 1 a finalized block expires the   *)
(* blocks two heights below it, so the cleaner has something to remove.     *)
(* The multiplexer gets all of them but the first; its processed task       *)
(* remembers two slots only, so that it forgets some.                       *)
EXTENDS BlockInformationStore, GrpcMultiplex, TLC

CONSTANTS
  b0, b1, b2, b3, fork,
  Parts       \* which of the two there are behaviours of

VARIABLE part

MCSlotOf == (b0 :> 0) @@ (b1 :> 1) @@ (b2 :> 3) @@ (b3 :> 4) @@ (fork :> 2)
MCHeightOf == (b0 :> 0) @@ (b1 :> 1) @@ (b2 :> 2) @@ (b3 :> 3) @@ (fork :> 2)
MCBlockSlot == [b \in Block |-> MCSlotOf[b]]
MCAnnounced ==
  {<<b1, Finalized>>, <<b2, Processed>>, <<b2, Confirmed>>,
   <<b3, Finalized>>, <<fork, Processed>>}

MCInit == part \in Parts /\ Init /\ MultiplexInit

MCNext ==
  /\ UNCHANGED part
  /\ IF part = "store" THEN Next ELSE UNCHANGED vars
  /\ IF part = "multiplex" THEN MultiplexNext ELSE UNCHANGED multiplexVars

(* The store needs no fairness; that of the multiplexer.                    *)
MCFairness ==
  /\ WF_multiplexVars(part = "multiplex" /\ CleanupTick)
  /\ WF_multiplexVars(part = "multiplex" /\ Stop)
  /\ \A m \in Merger : WF_multiplexVars(part = "multiplex" /\ Exits(m))
  /\ WF_multiplexVars(part = "multiplex" /\ Restart)

MCSpec == MCInit /\ [][MCNext]_<<part, vars, multiplexVars>> /\ MCFairness
==============================================================================
