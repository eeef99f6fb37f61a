---------------------------- MODULE BlockPolling -----------------------------
(***************************************************************************)
(* cluster-endpoints/src/rpc_polling/poll_blocks.rs: without geyser, the   *)
(* blocks are fetched slot by slot.  The poller schedules every new slot   *)
(* at commitment confirmed; a number of workers fetch what is scheduled.   *)
(* A block that was fetched is announced, and scheduled once more to be    *)
(* fetched when it is finalized; one that was not there is tried again.    *)
(* Both go through the retry task, which waits for the time of each in     *)
(* turn and gives up slots that have become too old.                       *)
(*                                                                         *)
(* An item is a slot with a commitment.  How long the retry task sleeps is *)
(* left open, and so is what the RPC node answers, except that it has no   *)
(* block before the cluster has.                                           *)
(***************************************************************************)
EXTENDS Integers, Sequences

CONSTANTS
  Worker,   \* num_parallel_tasks workers
  MaxSlot,  \* bound of the slots
  Filled,   \* the slots that have a block
  TooOld    \* slots after which no retry is made, 128

ASSUME PollingAssumption ==
  /\ MaxSlot \in Nat
  /\ Filled \subseteq 0 .. MaxSlot
  /\ TooOld \in Nat

Slot == 0 .. MaxSlot
Confirmed == 1
Finalized == 2
Item == Slot \X {Confirmed, Finalized}
Existing == Filled \X {Confirmed, Finalized}   \* what the cluster ever has
None == << >>   \* no item
NoSlot == -1

VARIABLES
  recent,    \* recent_slot
  first,     \* the slot the poller started with, or NoSlot
  schedule,  \* block_schedule_queue
  fetching,  \* item that each worker fetches
  retry,     \* slot_retry_queue
  resting,   \* item whose time the retry task waits for
  cluster,   \* highest commitment at which each slot has its block
  announced, \* history: items sent to the block and block info streams
  twice,     \* history: items announced when they had been before
  givenUp    \* history: items the retry task has dropped

vars == <<recent, first, schedule, fetching, retry, resting, cluster,
          announced, twice, givenUp>>

Init ==
  /\ recent = 0
  /\ first = NoSlot
  /\ schedule = << >>
  /\ fetching = [w \in Worker |-> None]
  /\ retry = << >>
  /\ resting = None
  /\ cluster = [s \in Slot |-> 0]
  /\ announced = {}
  /\ twice = {}
  /\ givenUp = {}

(* The poller asks for the current slot before it listens.                 *)
StartPolling(slot) ==
  /\ first = NoSlot
  /\ first' = slot
  /\ recent' = slot
  /\ UNCHANGED <<schedule, fetching, retry, resting, cluster, announced,
                 twice, givenUp>>

(* Mutant: the slots that were skipped are not scheduled.                  *)
SlotItemsLast(from, to) == << <<to, Confirmed>> >>

SlotItems(from, to) == [i \in 1 .. to - from |-> <<from + i, Confirmed>>]

(* A notification schedules all slots since the last one.                  *)
NotifySlot(slot) ==
  /\ first # NoSlot
  /\ recent < slot
  /\ recent' = slot
  /\ schedule' = schedule \o SlotItems(recent, slot)
  /\ UNCHANGED <<first, fetching, retry, resting, cluster, announced, twice,
                 givenUp>>

Fetch(w) ==
  /\ fetching[w] = None
  /\ schedule # << >>
  /\ fetching' = [fetching EXCEPT ![w] = Head(schedule)]
  /\ schedule' = Tail(schedule)
  /\ UNCHANGED <<recent, first, retry, resting, cluster, announced, twice,
                 givenUp>>

(* A block that is not finalized yet is fetched again later.               *)
Fetched(w) ==
  LET item == fetching[w] IN
  /\ item # None
  /\ cluster[item[1]] >= item[2]
  /\ announced' = announced \union {item}
  /\ twice' = twice \union ({item} \intersect announced)
  /\ retry' = IF item[2] = Finalized
              THEN retry
              ELSE Append(retry, <<item[1], Finalized>>)
  /\ fetching' = [fetching EXCEPT ![w] = None]
  /\ UNCHANGED <<recent, first, schedule, resting, cluster, givenUp>>

(* The node has no block, or fails.                                        *)
NotFetched(w) ==
  /\ fetching[w] # None
  /\ retry' = Append(retry, fetching[w])
  /\ fetching' = [fetching EXCEPT ![w] = None]
  /\ UNCHANGED <<recent, first, schedule, resting, cluster, announced, twice,
                 givenUp>>

IsTooOld(slot) == recent - slot > TooOld

TakeRetry ==
  /\ resting = None
  /\ retry # << >>
  /\ ~IsTooOld(Head(retry)[1])
  /\ resting' = Head(retry)
  /\ retry' = Tail(retry)
  /\ UNCHANGED <<recent, first, schedule, fetching, cluster, announced, twice,
                 givenUp>>

GiveUp ==
  /\ resting = None
  /\ retry # << >>
  /\ IsTooOld(Head(retry)[1])
  /\ givenUp' = givenUp \union {Head(retry)}
  /\ retry' = Tail(retry)
  /\ UNCHANGED <<recent, first, schedule, fetching, resting, cluster,
                 announced, twice>>

(* Mutant: the item is put back in the retry queue.                        *)
RestEndsInRetry ==
  /\ resting # None
  /\ retry' = Append(retry, resting)
  /\ resting' = None
  /\ UNCHANGED <<recent, first, schedule, fetching, cluster, announced, twice,
                 givenUp>>

RestEnds ==
  /\ resting # None
  /\ schedule' = Append(schedule, resting)
  /\ resting' = None
  /\ UNCHANGED <<recent, first, fetching, retry, cluster, announced, twice,
                 givenUp>>

RetryTask == TakeRetry \/ GiveUp \/ RestEnds

(* The cluster confirms and finalizes the block of a slot.                 *)
BlockRises(slot) ==
  /\ cluster[slot] < Finalized
  /\ cluster' = [cluster EXCEPT ![slot] = @ + 1]
  /\ UNCHANGED <<recent, first, schedule, fetching, retry, resting, announced,
                 twice, givenUp>>

Next ==
  \/ \E slot \in Slot : StartPolling(slot) \/ NotifySlot(slot)
  \/ \E w \in Worker : Fetch(w) \/ Fetched(w) \/ NotFetched(w)
  \/ RetryTask
  \/ \E slot \in Filled : BlockRises(slot)

Spec == Init /\ [][Next]_vars

(* The tasks run, and the RPC node does not fail for ever to answer with a *)
(* block that it has.  Neither slots nor blocks are relied upon.           *)
FairSpec ==
  /\ Spec
  /\ \A w \in Worker :
       WF_vars(Fetch(w)) /\ WF_vars(Fetched(w) \/ NotFetched(w))
  /\ \A item \in Existing : SF_vars(\E w \in Worker : fetching[w] = item /\ Fetched(w))
  /\ WF_vars(RetryTask)

----------------------------------------------------------------------------
(* The places an item can be in, one for each copy.                        *)
Copies(item) ==
  {<<"schedule", i>> : i \in {j \in DOMAIN schedule : schedule[j] = item}}
  \union {<<"retry", i>> : i \in {j \in DOMAIN retry : retry[j] = item}}
  \union {<<"fetching", w>> : w \in {v \in Worker : fetching[v] = item}}
  \union (IF resting = item THEN {<<"resting", 0>>} ELSE {})

Pursued(item) == Copies(item) # {}

TypeOK ==
  /\ recent \in Slot
  /\ first \in Slot \union {NoSlot} /\ first <= recent
  /\ schedule \in Seq(Item)
  /\ fetching \in [Worker -> Item \union {None}]
  /\ retry \in Seq(Item)
  /\ resting \in Item \union {None}
  /\ cluster \in [Slot -> {0, Confirmed, Finalized}]
  /\ announced \subseteq Item /\ twice \subseteq Item /\ givenUp \subseteq Item

(* However fetches, retries and new slots interleave among the workers, no *)
(* block is announced twice at a commitment, and none at finalized before  *)
(* it was at confirmed.                                                    *)
AnnouncedInOrder ==
  /\ twice = {}
  /\ \A s \in Slot : <<s, Finalized>> \in announced => <<s, Confirmed>> \in announced

(* No slot falls through: between the first slot and the most recent one,  *)
(* each is on its way to be confirmed, on its way to be finalized, settled *)
(* or given up when it was too old, exactly one of these, and exactly once *)
(* in all the queues and hands.                                            *)
EachInOnePlace ==
  first # NoSlot =>
    \A s \in first + 1 .. recent :
      LET c == <<s, Confirmed>>
          f == <<s, Finalized>>
          places == Copies(c) \union Copies(f)
      IN /\ \A p, q \in places : p = q
         /\ \/ Pursued(c) /\ announced \intersect {c, f} = {}
            \/ Pursued(f) /\ announced \intersect {c, f} = {c}
            \/ places = {} /\ f \in announced
            \/ places = {} /\ \E g \in givenUp : g[1] = s /\ IsTooOld(s)

(* Every slot is in one place until it is settled, and what comes of it is *)
(* announced once, at confirmed first.                                     *)
EverySlotIsPursued == TypeOK /\ EachInOnePlace /\ AnnouncedInOrder

(* A block the cluster has is announced in the end, unless its slot is     *)
(* given up first: neither empty slots nor blocks that wait in the retry   *)
(* task hold the others up for ever.                                       *)
AvailableIsAnnounced ==
  \A item \in Existing :
    Pursued(item) /\ cluster[item[1]] >= item[2]
    ~> item \in announced \union givenUp
==============================================================================
