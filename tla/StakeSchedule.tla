---------------------------- MODULE StakeSchedule ----------------------------
(***************************************************************************)
(* The calculations of stake_vote/src/leader_schedule.rs and vote.rs, and  *)
(* of core/src/structures/identity_stakes.rs: from delegations and vote    *)
(* accounts to the stakes of the nodes, the order in which the schedule is *)
(* drawn from them, the answer to get_vote_accounts and the stake of the   *)
(* node itself.                                                            *)
(*                                                                         *)
(* What a delegation counts in an epoch, and the drawing, are done by the  *)
(* Solana library; a delegation is the amount that counts.                 *)
(***************************************************************************)
EXTENDS Integers, FiniteSets, SequencesExt

CONSTANTS
  Staker,    \* stake accounts
  Voter,     \* vote accounts
  Node,      \* identities, numbers
  Amount,    \* what a delegation may count
  Slots,     \* slots of an epoch
  Distance   \* delinquent_slot_distance

VARIABLES
  delegation, \* of each stake account: to whom and how much
  node,       \* of each vote account that exists
  voted,      \* last slot each vote account voted for
  leaders     \* a schedule that was drawn, by slot

scheduleVars == <<delegation, node, voted, leaders>>

Init ==
  /\ delegation \in [Staker -> [voter : Voter, amount : Amount]]
  /\ node \in UNION {[V -> Node] : V \in SUBSET Voter}
  /\ voted \in [Voter -> {0, Distance + 1}]
  /\ leaders \in [1 .. Slots -> Node]

Next == UNCHANGED scheduleVars

Spec == Init /\ [][Next]_scheduleVars

------------------------------------------------------------------------------
(* calculate_epoch_stakes: the stakes of the vote accounts that exist.      *)
EpochStakes ==
  [v \in DOMAIN node |->
     SumFunctionOnSet([s \in Staker |-> delegation[s].amount],
                      {s \in Staker : delegation[s].voter = v})]

(* calculate_leader_schedule: the stakes of the nodes that have any.        *)
NodeStakes(stakes) ==
  LET staked == {v \in DOMAIN stakes : stakes[v] # 0}
  IN  [n \in {node[v] : v \in staked} |->
         SumFunctionOnSet(stakes, {v \in staked : node[v] = n})]

(* sort_stakes: most stake first, then the greater key.  All are distinct.  *)
Sorted(stakes) ==
  SetToSortSeq({<<n, stakes[n]>> : n \in DOMAIN stakes},
    LAMBDA l, r : IF l[2] = r[2] THEN l[1] > r[1] ELSE l[2] > r[2])

(* get_schedule_by_nodes: the indices of each leader, from 0.               *)
ByNodes(slotLeaders) ==
  [n \in ToSet(slotLeaders) |->
     SetToSortSeq({i - 1 : i \in {j \in DOMAIN slotLeaders : slotLeaders[j] = n}}, <)]

(* calculate_slot_leaders_from_schedule: the leaders in the order of their  *)
(* indices, which are not kept.                                             *)
SlotLeadersOf(byNodes) ==
  LET indices == UNION {ToSet(byNodes[n]) : n \in DOMAIN byNodes}
      leader == [i \in indices |-> CHOOSE n \in DOMAIN byNodes : i \in ToSet(byNodes[n])]
      order == SetToSortSeq(indices, <)
  IN  [i \in DOMAIN order |-> leader[order[i]]]

------------------------------------------------------------------------------
(* get_rpc_vote_accounts_info: of the vote accounts that exist, those that  *)
(* have voted lately and those that have not; without stake these are left  *)
(* out.                                                                     *)
VotesLately(v, slot) ==
  IF slot >= Distance THEN voted[v] > slot - Distance ELSE voted[v] > 0

VoteAccountsInfo(slot, stakes, keepUnstaked) ==
  LET current == {v \in DOMAIN node : VotesLately(v, slot)}
  IN  [current |-> current,
       delinquent |-> {v \in DOMAIN node \ current : keepUnstaked \/ stakes[v] > 0}]

(* update_stakes_for_identity: one entry for each node, of the last of its  *)
(* vote accounts in the list; nothing is done without an own one.           *)
IdentityStakes(me, infos, stakes, last) ==
  LET nodes == {node[v] : v \in infos}
      amounts == {stakes[last[n]] : n \in nodes}
  IN  IF me \notin nodes THEN [stakes |-> 0, total |-> 0, most |-> 0]
      ELSE [stakes |-> stakes[last[me]],
            total |-> SumFunctionOnSet([n \in nodes |-> stakes[last[n]]], nodes),
            most |-> Max(amounts)]

------------------------------------------------------------------------------
(* The nodes are drawn from a list that has each once, ordered by stake,    *)
(* and together all that is delegated to vote accounts that exist.          *)
AllStakesAreDrawn ==
  LET drawn == Sorted(NodeStakes(EpochStakes))
      counted == {s \in Staker : delegation[s].voter \in DOMAIN node}
  IN  /\ \A i, j \in DOMAIN drawn : i < j => drawn[i][1] # drawn[j][1] /\ drawn[i][2] >= drawn[j][2]
      /\ SumFunction([i \in DOMAIN drawn |-> drawn[i][2]])
           = SumFunctionOnSet([s \in Staker |-> delegation[s].amount], counted)

(* The schedule by slots can be had back from the one by nodes: both are    *)
(* kept, and one is calculated from the other in each of the two ways a     *)
(* schedule is loaded.                                                      *)
SchedulesAgree == SlotLeadersOf(ByNodes(leaders)) = leaders

(* If no node has two vote accounts, the stakes of the identity are what    *)
(* the leader schedule takes for its stake and for the total.               *)
IdentityAgrees ==
  LET stakes == EpochStakes
      info == VoteAccountsInfo(Distance + 1, stakes, FALSE)
      listed == info.current \cup info.delinquent
      last == [n \in Node |-> CHOOSE v \in Voter : v \in listed /\ node[v] = n]
      weights == NodeStakes(stakes)
  IN  (\A u, v \in DOMAIN node : node[u] = node[v] => u = v) =>
        \A me \in DOMAIN weights :
          LET mine == IdentityStakes(me, listed, stakes, last)
          IN  mine = [stakes |-> weights[me], total |-> SumFunction(weights),
                      most |-> Sorted(weights)[1][2]]
==============================================================================
