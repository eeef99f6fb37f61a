---------------------------- MODULE LeaderSchedule ---------------------------
(***************************************************************************)
(* Which leaders the transactions are sent to: poll_slots.rs polls the     *)
(* slot and estimates it while nothing comes, the TPU service asks for the *)
(* leaders around it on each notification (tpu_service.rs), and            *)
(* json_rpc_leaders_getter.rs keeps a window of them, fetched from RPC.    *)
(* leaderschedule.rs answers the same question from the schedules of the   *)
(* current and the next epoch.                                             *)
(*                                                                         *)
(* The leader of a slot is known by the slot.                              *)
(***************************************************************************)
EXTENDS Integers, Sequences

CONSTANTS
  MaxSlot,   \* bound of the slots
  MaxErrors, \* errors in a row until poll_commitment_slots gives up, 10
  MaxAhead,  \* slots the estimate may be ahead, 32
  Behind,    \* slots before the current one that are served, 4
  Fanout,    \* fanout_slots
  CacheCount,\* leaders_to_cache_count, 1024
  OldCount,  \* old_slot_leader_cache_size, 128
  MaxNotices,\* bound of the notifications that wait when one is estimated
  EpochSlots \* slots of an epoch

(* What is fetched reaches further than what is asked for.                  *)
ASSUME LeadersAssumption ==
  /\ {MaxSlot, MaxErrors, MaxAhead, Behind, Fanout, CacheCount, OldCount, MaxNotices} \subseteq Nat
  /\ EpochSlots \in Nat \ {0}
  /\ MaxAhead + Behind + Fanout < CacheCount

VARIABLES
  chain,     \* the slot the RPC node has reached
  polled,    \* last_slot of the polling task
  errors,    \* its errors in a row
  updates,   \* slots on their way to the estimating task
  current,   \* current_slot and
  estimated, \* estimated_slot of the estimating task
  notices,   \* slot notifications on their way to the TPU service
  window,    \* leader_schedule: slots whose leaders are known
  asked,     \* slots asked for last, and the answer
  ended,     \* tasks that have ended
  schedule   \* epochs of CalculatedSchedule, 0 if it has none

leaderVars == <<chain, polled, errors, updates, current, estimated, notices,
            window, asked, ended, schedule>>

Least(a, b) == IF a < b THEN a ELSE b
Minus(a, b) == IF a > b THEN a - b ELSE 0 \* saturating_sub

LeadersInit ==
  /\ chain \in 1 .. MaxSlot
  /\ polled = 0
  /\ errors = 0
  /\ updates = << >>
  /\ current = chain
  /\ estimated = chain
  /\ notices = << >>
  /\ window = << >>
  /\ asked = [from |-> 0, to |-> 0, answer |-> {}]
  /\ ended = {}
  /\ schedule = [current |-> 0, next |-> 0]

SlotRises ==
  /\ chain < MaxSlot
  /\ chain' = chain + 1
  /\ UNCHANGED <<polled, errors, updates, current, estimated,
                 notices, window, asked, ended, schedule>>

------------------------------------------------------------------------------
(* poll_slots.rs                                                            *)

(* poll_commitment_slots.  A node behind the load balancer may be older.    *)
Poll(slot) ==
  /\ "polling" \notin ended
  /\ updates' = IF slot > polled THEN Append(updates, slot) ELSE updates
  /\ polled' = IF slot > polled THEN slot ELSE polled
  /\ errors' = 0
  /\ UNCHANGED <<chain, current, estimated, notices, window, asked, ended, schedule>>

PollFails ==
  /\ "polling" \notin ended
  /\ errors' = errors + 1
  /\ ended' = IF errors' > MaxErrors THEN ended \cup {"polling"} ELSE ended
  /\ UNCHANGED <<chain, polled, updates, current, estimated, notices, window, asked, schedule>>

Notify(slot, estimate) == notices' = Append(notices, [slot |-> slot, estimate |-> estimate])

SlotUpdate ==
  LET slot == Head(updates)
  IN  /\ updates # << >>
      /\ updates' = Tail(updates)
      /\ IF slot > current
         THEN /\ current' = slot
              /\ estimated' = IF slot > estimated THEN slot ELSE estimated
              /\ Notify(current', estimated')
         ELSE UNCHANGED <<current, estimated, notices>>
      /\ UNCHANGED <<chain, polled, errors, window, asked, ended, schedule>>

(* 400 milliseconds without an update: the next slot is expected.           *)
Estimate ==
  /\ updates = << >>
  /\ Len(notices) < MaxNotices
  /\ estimated < current + MaxAhead
  /\ estimated' = estimated + 1
  /\ Notify(current, estimated')
  /\ UNCHANGED <<chain, polled, errors, updates, current, window, asked, ended, schedule>>

------------------------------------------------------------------------------
(* json_rpc_leaders_getter.rs                                               *)

(* Mutant: the window is only looked at where the slots begin.              *)
CoversStart(from, to) ==
  window # << >> /\ Head(window) <= from /\ window[Len(window)] >= from

Covers(from, to) == window # << >> /\ Head(window) <= from /\ window[Len(window)] >= to

(* From the front all are dropped that are too old.                         *)
FirstKept(slot) ==
  CHOOSE i \in 1 .. Len(window) + 1 :
    /\ \A j \in 1 .. i - 1 : window[j] < Minus(slot, OldCount)
    /\ i <= Len(window) => window[i] >= Minus(slot, OldCount)

(* update_leader_schedule: what is too old is dropped, what is missing up   *)
(* to the end of the window is fetched; the end itself is not.              *)
Updated(slot) ==
  LET kept == SubSeq(window, FirstKept(slot), Len(window))
      first == IF kept = << >> THEN slot ELSE kept[Len(kept)] + 1
  IN  kept \o [i \in 1 .. Minus(slot + CacheCount, first) |-> first + i - 1]

(* The service ends with the first request that cannot be answered: a range *)
(* that is not served, or an error of RPC when leaders have to be fetched.  *)
UpdateQuicConnections ==
  LET from == Minus(Head(notices).slot, Behind)
      to == Head(notices).estimate + Fanout
      fails == to <= from \/ to - from > CacheCount
  IN  /\ "tpu" \notin ended
      /\ notices # << >>
      /\ notices' = Tail(notices)
      /\ \/ /\ ~fails
            /\ window' = IF Covers(from, to) THEN window ELSE Updated(from)
            /\ asked' = [from |-> from, to |-> to,
                         answer |-> {window'[i] : i \in DOMAIN window'} \cap from .. to]
            /\ UNCHANGED ended
         \/ /\ fails \/ ~Covers(from, to)
            /\ ended' = ended \cup {"tpu"}
            /\ UNCHANGED <<window, asked>>
      /\ UNCHANGED <<chain, polled, errors, updates, current, estimated, schedule>>

(* A service that lags too far behind the notifications ends, too.          *)
TpuLags ==
  /\ "tpu" \notin ended
  /\ Len(notices) > 1
  /\ ended' = ended \cup {"tpu"}
  /\ UNCHANGED <<chain, polled, errors, updates, current, estimated,
                 notices, window, asked, schedule>>

------------------------------------------------------------------------------
(* leaderschedule.rs, grpc_leaders_getter.rs                                *)

EpochAt(slot) == slot \div EpochSlots + 1
SlotIndex(slot) == slot % EpochSlots
SlotsOf(epoch) == [i \in 1 .. EpochSlots |-> (epoch - 1) * EpochSlots + i - 1]

(* The schedules of the current epoch and, later, of the next one.          *)
SetSchedule(next) ==
  /\ schedule' = [current |-> EpochAt(chain), next |-> IF next THEN EpochAt(chain) + 1 ELSE 0]
  /\ UNCHANGED <<chain, polled, errors, updates, current, estimated, notices, window, asked, ended>>

(* What one epoch adds: limit was lowered by what is there already, which   *)
(* is taken off once more.                                                  *)
Extended(leaders, limit, slots, index) ==
  leaders \o SubSeq(slots, index + 1, Least(Len(slots), index + Minus(limit, Len(leaders))))

(* CalculatedSchedule::get_slot_leaders; the empty answer stands for its    *)
(* error, too.  The limit that may wrap around is not read again.           *)
SlotLeaders(start, limit) ==
  LET epoch == EpochAt(start)
      own == IF epoch \in {schedule.current, schedule.next}
             THEN Extended(<< >>, limit, SlotsOf(epoch), SlotIndex(start)) ELSE << >>
  IN  IF schedule.next = epoch + 1
      THEN Extended(own, limit - Len(own), SlotsOf(epoch + 1), 0) ELSE own

(* GrpcLeaderGetter::get_slot_leaders refuses what is not in the epochs.    *)
GrpcServes(from, to) ==
  /\ from <= to
  /\ schedule.current # 0 =>
       EpochAt(from) >= schedule.current /\ EpochAt(to) <= schedule.current + 1

(* It counts the slots without the last one.                                *)
GetterLeaders(from, to) == SlotLeaders(from, Minus(to, from))

LeadersNext ==
  \/ SlotRises
  \/ \E slot \in {chain - 1, chain} : Poll(slot)
  \/ PollFails
  \/ SlotUpdate
  \/ Estimate
  \/ UpdateQuicConnections
  \/ TpuLags
  \/ \E next \in BOOLEAN : SetSchedule(next)

LeadersSpec == LeadersInit /\ [][LeadersNext]_leaderVars

------------------------------------------------------------------------------
(* The slots the TPU service is told never go back, and the estimate is     *)
(* between the current slot and MaxAhead slots after it.                    *)
NoticesRise ==
  \A i \in DOMAIN notices :
    /\ notices[i].slot <= notices[i].estimate /\ notices[i].estimate <= notices[i].slot + MaxAhead
    /\ i > 1 => /\ notices[i - 1].slot <= notices[i].slot
                /\ notices[i - 1].estimate <= notices[i].estimate

(* The leaders of every slot asked for are in the answer, also those of the *)
(* slots before the first one ever fetched and after a pause.               *)
FanoutIsComplete == asked.from # asked.to => asked.answer = asked.from .. asked.to

(* An answer from the schedules has the leaders of start, start + 1, ... in *)
(* their order: all limit of them when they are of one epoch, and when they *)
(* are not, those up to the end of the epoch and then fewer than are left   *)
(* to give, by as many as the first part has.                               *)
SlotLeadersAreRight ==
  \A start \in 0 .. MaxSlot, limit \in 0 .. 2 * EpochSlots :
    LET answer == SlotLeaders(start, limit)
        left == EpochSlots - SlotIndex(start)
    IN  EpochAt(start) \in {schedule.current, schedule.next} =>
          /\ answer = [i \in 1 .. Len(answer) |-> start + i - 1]
          /\ limit <= left => Len(answer) = limit
          /\ limit > left =>
               Len(answer) = IF schedule.next = EpochAt(start) + 1
                             THEN left + Least(EpochSlots, Minus(limit, 2 * left))
                             ELSE left

(* leaders_fetcher_interface.rs:7 "should return leader schedule for all    *)
(* the slots >= from and <= to", for a range the getter serves when it has  *)
(* the schedules of both epochs.                                            *)
SlotLeadersAreAll ==
  \A from, to \in 0 .. MaxSlot :
    schedule.current # 0 /\ schedule.next # 0 /\ GrpcServes(from, to)
      => GetterLeaders(from, to) = [i \in 1 .. to - from + 1 |-> from + i - 1]
==============================================================================
