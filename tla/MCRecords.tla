------------------------------ MODULE MCRecords ------------------------------
(* What is kept and read: an account that changes its owner; the loading of *)
(* accounts on demand; the stores of stake and vote accounts; the files of  *)
(* the stakes and the schedules drawn from them; prioritization fees;       *)
(* address lookup tables; blocks and transactions in the database; the      *)
(* subscriptions to signatures; and the inspection of the stream of blocks. *)
(* They share no state, so a behaviour is one of one of them.               *)
EXTENDS Accounts, StakeVote, StakeFiles, BlockStore, Notices, TLC

CONSTANTS acc, prog, sys, old, middle, young,
          Staker, Voter, Node, Amount, Slots, Distance,               \* StakeSchedule
          MaxTxs, FeeSlots, MaxBlocks, Retain, Stride                 \* PrioFees
VARIABLES part,
          delegation, node, voted, leaders,
          recent, writeonly, all, lastSlot, message, count, heard

MCStreamed == {[account |-> acc, slot |-> 1, owner |-> sys],
               [account |-> acc, slot |-> 2, owner |-> prog]}
MCLoaded == {[account |-> acc, slot |-> 0, owner |-> prog, level |-> Confirmed]}
MCTx == {[vote |-> FALSE, fee |-> 1, cu |-> 3, writes |-> {acc}, reads |-> {}],
         [vote |-> FALSE, fee |-> 5, cu |-> 1, writes |-> {}, reads |-> {acc}],
         [vote |-> TRUE, fee |-> 0, cu |-> 2, writes |-> {}, reads |-> {}]}

(* One block that is older than what the others make of the cleanup point,  *)
(* and old enough for it to wrap around.                                    *)
MCSlotOf == [b \in Block |-> CASE b = old -> 1 [] b = middle -> 3 [] b = young -> 4]

(* The clients that subscribe to slots and accounts are run elsewhere.      *)
MCNobody == << >>

Draws == INSTANCE StakeSchedule
Fees == INSTANCE PrioFees WITH Account <- Pubkey, Tx <- MCTx, MaxSlot <- FeeSlots, blocks <- count

drawVars == <<delegation, node, voted, leaders>>
feeVars == <<recent, writeonly, all, lastSlot, message, count, heard>>

MCInit ==
  /\ part \in {"accounts", "demand", "votes", "files", "draws", "fees", "tables", "blocks",
               "log", "clients", "inspect"}
  /\ Init /\ DemandInit /\ VotesInit /\ TablesInit /\ BlocksInit
  /\ ClientsInit /\ LogInit /\ InspectInit /\ FilesInit /\ Fees!Init
  /\ part # "votes" => schedule.current = 0
  /\ IF part = "draws" THEN Draws!Init
     ELSE delegation = << >> /\ node = << >> /\ voted = << >> /\ leaders = << >>
  /\ part # "tables" => tables = [t \in Table |-> 1]

MCNext ==
  /\ UNCHANGED part
  /\ IF part = "accounts" THEN Next ELSE UNCHANGED vars
  /\ IF part = "demand" THEN DemandNext ELSE UNCHANGED odVars
  /\ IF part = "votes" THEN VotesNext ELSE UNCHANGED voteVars
  /\ IF part = "files" THEN FilesNext ELSE UNCHANGED fileVars
  /\ IF part = "draws" THEN Draws!Next ELSE UNCHANGED drawVars
  /\ IF part = "fees" THEN Fees!Next ELSE UNCHANGED feeVars
  /\ IF part = "tables" THEN TablesNext ELSE UNCHANGED tableVars
  /\ IF part = "blocks" THEN BlocksNext ELSE UNCHANGED blockstoreVars
  /\ IF part = "log" THEN LogNext ELSE UNCHANGED logVars
  /\ IF part = "clients" THEN ClientsNext ELSE UNCHANGED pubsubVars
  /\ IF part = "inspect" THEN InspectNext ELSE UNCHANGED inspectVars

MCSpec ==
  MCInit /\ [][MCNext]_<<part, vars, odVars, voteVars, fileVars, drawVars, feeVars,
                         tableVars, blockstoreVars, logVars, pubsubVars, inspectVars>>

------------------------------------------------------------------------------
(* StakeSchedule and PrioFees: all stakes are drawn, and a schedule can be  *)
(* had back by slots; percentiles are what they are by definition, and the  *)
(* last slots are retained.                                                 *)
CalculationsAreRight ==
  CASE part = "draws" -> Draws!AllStakesAreDrawn /\ Draws!SchedulesAgree /\ Draws!IdentityAgrees
    [] part = "fees" -> Fees!PercentilesAreRight /\ Fees!RetainsTheLast
    [] OTHER -> TRUE
==============================================================================
