------------------------------- MODULE SlotFeed -------------------------------
(***************************************************************************)
(* The slots of the gRPC sources: grpc_multiplex.rs merges them into one   *)
(* stream of notifications, which it starts anew when nothing has come for *)
(* long, and data_caching_service.rs writes them to the slot cache.        *)
(***************************************************************************)
EXTENDS Integers, Sequences

CONSTANTS
  FeedSlots, \* bound of the slots
  FeedRoom,  \* capacity of the broadcast channel, 32
  MaxRuns    \* bound of the runs of the receive loop

ASSUME FeedAssumption == FeedSlots \in Nat /\ FeedRoom \in Nat \ {0} /\ MaxRuns \in Nat

VARIABLES
  run,      \* history: number of the run of the receive loop
  lastSlot, \* last_slot, the last one sent in this run
  slots,    \* notifications the slot task has yet to receive
  lagging,   \* it has missed some
  slotTask, \* where it is
  cache     \* current_slot and estimated_slot

feedVars == <<run, lastSlot, slots, lagging, slotTask, cache>>

(* History: a notification carries the run that has sent it.                *)
Notice(n, slot) == [run |-> n, slot |-> slot]

(* The cache starts at the slot of a finalized block.                       *)
FeedInit ==
  /\ run = 1
  /\ lastSlot = 0
  /\ slots = << >>
  /\ lagging = FALSE
  /\ slotTask = "receive"
  /\ \E slot \in 1 .. FeedSlots :
       cache = [current |-> Notice(0, slot), estimated |-> Notice(0, slot)]

(* Not before one already sent in this run.                                 *)
IsPassed(slot) == slot >= lastSlot

(* An update from any of the sources, which need not be equally far.  Only  *)
(* the slot task is looked at among those that listen.                      *)
Update(slot) ==
  /\ IsPassed(slot)
  /\ lastSlot' = slot
  /\ LET full == Len(slots) = FeedRoom
         hears == slotTask # "ended"
     IN  /\ slots' = IF ~hears THEN << >>
                     ELSE Append(IF full THEN Tail(slots) ELSE slots, Notice(run, slot))
         /\ lagging' = (hears /\ (lagging \/ full))
  /\ UNCHANGED <<run, slotTask, cache>>

(* 30 seconds without an update, or every source gone.                      *)
Reconnect ==
  /\ run < MaxRuns
  /\ run' = run + 1
  /\ lastSlot' = 0
  /\ UNCHANGED <<slots, lagging, slotTask, cache>>

(* The slot task ends when it has missed notifications, and with it the     *)
(* process.                                                                 *)
SlotTaskEnds ==
  /\ slotTask = "receive"
  /\ lagging
  /\ slotTask' = "ended"
  /\ slots' = << >>
  /\ lagging' = FALSE
  /\ UNCHANGED <<run, lastSlot, cache>>

(* SlotCache::update: two stores, one after the other, as anybody reads.    *)
StoreCurrent ==
  /\ slotTask = "receive"
  /\ ~lagging
  /\ slots # << >>
  /\ cache' = [cache EXCEPT !.current = Head(slots)]
  /\ slots' = Tail(slots)
  /\ slotTask' = "store"
  /\ UNCHANGED <<run, lastSlot, lagging>>

StoreEstimated ==
  /\ slotTask = "store"
  /\ cache' = [cache EXCEPT !.estimated = cache.current]
  /\ slotTask' = "receive"
  /\ UNCHANGED <<run, lastSlot, slots, lagging>>

FeedNext ==
  \/ \E slot \in 1 .. FeedSlots : Update(slot)
  \/ Reconnect
  \/ SlotTaskEnds
  \/ StoreCurrent
  \/ StoreEstimated

FeedSpec == FeedInit /\ [][FeedNext]_feedVars

------------------------------------------------------------------------------
(* What the cache shows, what waits and what was sent last come in this     *)
(* order, in which slots go back only from one run to the next; and a slot  *)
(* task that goes on has missed nothing: the last slot is in the cache, or  *)
(* waits.                                                                   *)
CacheFollowsFeed ==
  LET line == <<cache.estimated, cache.current>> \o slots
  IN  /\ \A i, j \in DOMAIN line : i < j =>
           /\ line[i].run <= line[j].run
           /\ line[i].run = line[j].run => line[i].slot <= line[j].slot
      /\ lastSlot > 0 /\ slotTask # "ended" => line[Len(line)] = Notice(run, lastSlot)
      /\ slotTask = "receive" => cache.estimated = cache.current
==============================================================================
