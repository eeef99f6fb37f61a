----------------------------- MODULE MCTransport -----------------------------
(***************************************************************************)
(* What sends transactions: the heap of a connection; a leader that is     *)
(* removed and comes back, with a broadcast channel with room for one      *)
(* transaction; the forward proxy; its client; the tracking of slots and   *)
(* leaders; and the feed of slots from gRPC sources.  They share           *)
(* no state, so a behaviour is one of one of them.                         *)
(***************************************************************************)
EXTENDS TpuConnections, PrioFeeHeapUse, Transport, TLC

CONSTANTS low1, low2, low3, mid1, mid2, mid3, high1
VARIABLES part

(* Room for four: heaps with up to three transactions of one fee, evictions *)
(* from each, and expiry at two heights.  The connections are told of one   *)
(* transaction, so that their heaps never fill.                             *)
MCFeeOf == [t \in Tx |-> CASE t \in {low1, low2, low3} -> 0
                           [] t \in {mid1, mid2, mid3} -> 1
                           [] t = high1 -> 2]
MCLastValidOf == [t \in Tx |-> IF t \in {low1, mid1, mid3, high1} THEN 1 ELSE 2]
OneIsSent == (\A i \in Incarnation : Range(inbox[i]) \subseteq {low1}) /\ confirmed \subseteq {low1}

MCInit ==
  /\ part \in {"heap", "connections", "proxy", "client", "leaders", "feed"}
  /\ HeapInit /\ Init /\ ProxyInit /\ ClientInit /\ LeadersInit /\ FeedInit
  /\ part # "leaders" => chain = 1
  /\ part # "feed" => cache.current.slot = 1

MCNext ==
  /\ UNCHANGED part
  /\ IF part = "heap" THEN HeapNext ELSE UNCHANGED heapVars
  /\ IF part = "connections" THEN Next /\ OneIsSent' ELSE UNCHANGED vars
  /\ IF part = "proxy" THEN ProxyNext ELSE UNCHANGED proxyVars
  /\ IF part = "client" THEN ClientNext ELSE UNCHANGED clientVars
  /\ IF part = "leaders" THEN LeadersNext ELSE UNCHANGED leaderVars
  /\ IF part = "feed" THEN FeedNext ELSE UNCHANGED feedVars

MCSpec ==
  MCInit /\ [][MCNext]_<<part, vars, heapVars, proxyVars, clientVars, leaderVars, feedVars>>
==============================================================================
