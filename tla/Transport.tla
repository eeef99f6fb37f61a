------------------------------ MODULE Transport -------------------------------
(***************************************************************************)
(* Where slots are had from, whose slots they are, and what is sent        *)
(* through a proxy: the polling of RPC with the leaders around a slot, the *)
(* feed of the gRPC sources, the client of the proxy in the TPU service,   *)
(* and the forward proxy.  The connection between the last two is a part   *)
(* of neither, and the four have no state in common.                       *)
(***************************************************************************)
EXTENDS LeaderSchedule, SlotFeed, ProxyClient, ForwardProxy

(* The slots the TPU service is told rise, the leaders of every slot of the *)
(* fanout are known, an answer from the schedules is whole within an epoch  *)
(* and too short over its end by what it counts twice, and the slot cache   *)
(* follows the sources without a gap.                                       *)
LeadersAreKnown ==
  NoticesRise /\ FanoutIsComplete /\ SlotLeadersAreRight /\ CacheFollowsFeed

(* A batch goes to the TPUs of the time, and the proxy is given up only     *)
(* after all attempts; what an agent of the proxy was handed is tried by    *)
(* the task of its shard, once, and by no other.                            *)
ProxiesDeliver ==
  FanoutIsCurrent /\ GivenUpAfterAttempts /\ AcceptedIsTried /\ SentOnce
==============================================================================
