------------------------------ MODULE StakeVote ------------------------------
(***************************************************************************)
(* stake_vote: the loop that keeps the stake and vote accounts up to date, *)
(* and lends their stores to tasks: the bootstrap, the calculation of a    *)
(* leader schedule at the end of an epoch, the answers to                  *)
(* get_vote_accounts.  A store that is lent collects its updates until it  *)
(* is merged back, and whoever wants it meanwhile waits to be notified.    *)
(*                                                                         *)
(* One account stands for each store; its content is the slot of its last  *)
(* update, 0 for what was loaded from RPC.                                 *)
(***************************************************************************)
EXTENDS Integers, Sequences, FiniteSets

CONSTANTS
  Boot,      \* the bootstrap task
  Request,   \* calls of get_vote_accounts
  Changing,  \* the stores whose account changes
  EpochLen,  \* slots_per_epoch
  LastEpoch, \* bound of the epochs
  MaxVoteSlot    \* bound of the slots

ASSUME VotesAssumption ==
  /\ EpochLen \in Nat \ {0} /\ LastEpoch \in Nat /\ MaxVoteSlot \in Nat
  /\ Changing \subseteq {"stakes", "votes"}
  /\ Boot \notin Request \cup 1 .. LastEpoch /\ Request \cap 1 .. LastEpoch = {}

NoAccount == -1
NoEpoch == 0
StoreName == {"stakes", "votes"}
VoteTask == {Boot} \cup Request \cup 1 .. LastEpoch   \* an epoch: its schedule task
Needs(t) == IF t \in Request THEN {"votes"} ELSE StoreName
EpochOf(slot) == slot \div EpochLen + 1
LastSlotOf(epoch) == epoch * EpochLen - 1

VARIABLES
  content,  \* of each store, here or lent
  lent,     \* the task that each store is lent to, if any
  updates,  \* of each store: what is added when it is merged
  permit,   \* of each store: Notify::notify_one found nobody waiting
  task,     \* where each task is and the notifications it waits for
  epochs,   \* ScheduleEpochData
  slot,     \* latest confirmed slot
  boot,     \* epoch of loading, and whether the bootstrap is done or has failed
  pending,  \* pending_rpc_request
  schedule, \* epochs of the current and the next leader schedule
  latest    \* history: last update of each store

voteVars == <<content, lent, updates, permit, task, epochs, slot, boot, pending,
              schedule, latest>>

EpochData(s) == [epoch |-> EpochOf(s), last |-> LastSlotOf(EpochOf(s)), slot |-> s,
                 history |-> FALSE, change |-> NoEpoch]

NoContent == [k \in StoreName |-> NoAccount]
NotLent == [k \in StoreName |-> {}]
NoUpdates == [k \in StoreName |-> << >>]
NoPermit == [k \in StoreName |-> FALSE]
NoTasks == [t \in VoteTask |-> [at |-> "none", waits |-> {}]]
NothingHeard == [k \in StoreName |-> [slot |-> 0, gone |-> FALSE]]

VotesInit ==
  /\ content = NoContent
  /\ lent = NotLent
  /\ updates = NoUpdates
  /\ permit = NoPermit
  /\ task = NoTasks
  /\ epochs = EpochData(0)
  /\ slot = 0
  /\ boot = [epoch |-> NoEpoch, state |-> "fetching"]
  /\ pending = {}
  /\ schedule \in {[current |-> NoEpoch, next |-> NoEpoch], [current |-> 1, next |-> 2]}
  /\ latest = NothingHeard

LoopRuns == boot.state # "dead"

------------------------------------------------------------------------------
(* utils.rs, TakableMap                                                     *)

(* An update replaces what is not newer, a removal removes it.              *)
Applied(value, u) ==
  IF value # NoAccount /\ value > u.slot THEN value
  ELSE IF u.gone THEN NoAccount ELSE u.slot

(* Mutant: the updates that were collected first win.                       *)
MergedFirst(value, us) == IF us = << >> THEN value ELSE Applied(value, us[1])

Merged(value, us) ==
  LET f[i \in 0 .. Len(us)] == IF i = 0 THEN value ELSE Applied(f[i - 1], us[i])
  IN  f[Len(us)]

(* The stores are taken together or not at all.  A task that finds one      *)
(* taken waits for its notification, unless one was left behind.            *)
Take(t) ==
  LET taken == {k \in Needs(t) : lent[k] # {}}
  IN  \/ /\ taken = {}
         /\ lent' = [k \in StoreName |-> IF k \in Needs(t) THEN {t} ELSE lent[k]]
         /\ task' = [task EXCEPT ![t] = [at |-> "holds", waits |-> {}]]
         /\ UNCHANGED permit
      \/ /\ taken # {}
         /\ task' = [task EXCEPT ![t] = [at |-> "asks",
                       waits |-> {k \in taken : ~permit[k]}]]
         /\ permit' = [k \in StoreName |-> permit[k] /\ k \notin taken]
         /\ UNCHANGED lent

Waiters(k) == {t \in VoteTask : k \in task[t].waits}

(* Mutant: nobody is told that a store is back.                             *)
MergeSilently(t, value) ==
  /\ content' = [k \in StoreName |-> IF k \in Needs(t) THEN Merged(value[k], updates[k])
                                 ELSE content[k]]
  /\ updates' = [k \in StoreName |-> IF k \in Needs(t) THEN << >> ELSE updates[k]]
  /\ lent' = [k \in StoreName |-> IF k \in Needs(t) THEN {} ELSE lent[k]]
  /\ task' = [task EXCEPT ![t].at = "done"]
  /\ UNCHANGED permit

(* The stores come back, and one of those that wait for each is notified.   *)
Merge(t, value) ==
  /\ content' = [k \in StoreName |-> IF k \in Needs(t) THEN Merged(value[k], updates[k])
                                 ELSE content[k]]
  /\ updates' = [k \in StoreName |-> IF k \in Needs(t) THEN << >> ELSE updates[k]]
  /\ lent' = [k \in StoreName |-> IF k \in Needs(t) THEN {} ELSE lent[k]]
  /\ permit' = [k \in StoreName |-> permit[k] \/ (k \in Needs(t) /\ Waiters(k) = {})]
  /\ \E woken \in [Needs(t) -> VoteTask] :
       /\ \A k \in Needs(t) :
            woken[k] \in IF Waiters(k) = {} THEN {t} ELSE Waiters(k)
       /\ task' = [u \in VoteTask |->
            [at |-> IF u = t THEN "done" ELSE task[u].at,
             waits |-> task[u].waits \ {k \in Needs(t) : woken[k] = u}]]

------------------------------------------------------------------------------
(* lib.rs, start_stakes_and_votes_loop                                      *)

(* While the store is lent, and when it was done in the next epoch, a       *)
(* change is put aside.                                                     *)
Aside(k, u) == lent[k] # {} \/ u.slot > epochs.last

(* An account changes or is removed.                                        *)
Update(k, u) ==
  /\ LoopRuns
  /\ u.slot \in latest[k].slot + 1 .. slot + 1
  /\ latest' = [latest EXCEPT ![k] = u]
  /\ IF Aside(k, u)
     THEN updates' = [updates EXCEPT ![k] = Append(@, u)] /\ UNCHANGED content
     ELSE content' = [content EXCEPT ![k] = Applied(@, u)] /\ UNCHANGED updates
  /\ UNCHANGED <<lent, permit, task, epochs, slot, boot, pending, schedule>>

(* verify_epoch_change: the epoch changes once its last slot is confirmed   *)
(* and the new stake history has come; then the next schedule is calculated *)
(* if the bootstrap is done.                                                *)
ChangeEpoch(data) ==
  IF data.history /\ data.change # NoEpoch
  THEN /\ epochs' = [data EXCEPT !.epoch = data.change, !.last = LastSlotOf(data.change),
                                 !.history = FALSE, !.change = NoEpoch]
       /\ IF boot.state = "done" THEN Take(data.change)
          ELSE UNCHANGED <<lent, permit, task>>
  ELSE epochs' = data /\ UNCHANGED <<lent, permit, task>>

NewSlot(s) ==
  /\ LoopRuns
  /\ slot < s
  /\ slot' = s
  /\ LET data == [epochs EXCEPT !.slot = s]
     IN  IF s >= epochs.last /\ EpochOf(epochs.last + 1) <= LastEpoch
         THEN ChangeEpoch([data EXCEPT !.change = EpochOf(epochs.last + 1)])
         ELSE epochs' = data /\ UNCHANGED <<lent, permit, task>>
  /\ UNCHANGED <<content, updates, boot, pending, schedule, latest>>

NewStakeHistory ==
  /\ LoopRuns
  /\ ~epochs.history
  /\ ChangeEpoch([epochs EXCEPT !.history = TRUE])
  /\ UNCHANGED <<content, updates, slot, boot, pending, schedule, latest>>

GetVoteAccounts(r) ==
  /\ LoopRuns
  /\ task[r].at = "none"
  /\ pending' = pending \cup {r}
  /\ Take(r)
  /\ UNCHANGED <<content, updates, epochs, slot, boot, schedule, latest>>

(* A task that has been notified asks again.                                *)
AskAgain(t) ==
  /\ LoopRuns
  /\ task[t] = [at |-> "asks", waits |-> {}]
  /\ Take(t)
  /\ boot' = IF t = Boot THEN [boot EXCEPT !.epoch = epochs.epoch] ELSE boot
  /\ UNCHANGED <<content, updates, epochs, slot, pending, schedule, latest>>

(* bootstrap.rs: the accounts come from RPC.                                *)
AccountsFetched ==
  /\ LoopRuns
  /\ task[Boot].at = "none"
  /\ Take(Boot)
  /\ boot' = [boot EXCEPT !.epoch = epochs.epoch]
  /\ UNCHANGED <<content, updates, epochs, slot, pending, schedule, latest>>

(* A stake history that cannot be read: the stores are dropped with it.     *)
StoresAreLost ==
  /\ LoopRuns
  /\ task[Boot].at = "holds"
  /\ task' = [task EXCEPT ![Boot].at = "done"]
  /\ boot' = [boot EXCEPT !.state = "lost"]
  /\ UNCHANGED <<content, lent, updates, permit, epochs, slot, pending, schedule, latest>>

(* The loaded accounts, if there are any, join those that were updated, and *)
(* files of the right epoch, if they exist, give the schedules.             *)
AccountsMerged ==
  /\ LoopRuns
  /\ task[Boot].at = "holds"
  /\ \E loaded \in SUBSET StoreName :
       Merge(Boot, [k \in StoreName |-> IF k \in loaded
                      THEN Applied(content[k], [slot |-> 0, gone |-> FALSE])
                      ELSE content[k]])
  /\ schedule' \in {schedule, [current |-> boot.epoch, next |-> boot.epoch + 1]}
  /\ boot' = [boot EXCEPT !.state = "done"]
  /\ epochs' = EpochData(slot)
  /\ UNCHANGED <<slot, pending, latest>>

(* leader_schedule.rs: the schedule for the epoch after e is calculated.    *)
ScheduleCalculated(e) ==
  /\ LoopRuns
  /\ task[e].at = "holds"
  /\ Merge(e, content)
  /\ schedule' = [current |-> schedule.next, next |-> e + 1]
  /\ UNCHANGED <<epochs, slot, boot, pending, latest>>

(* rpcrequest.rs: all requests that are pending get the same answer.        *)
AnswerVotes(r) ==
  /\ LoopRuns
  /\ task[r].at = "holds"
  /\ Merge(r, content)
  /\ pending' = {}
  /\ UNCHANGED <<epochs, slot, boot, schedule, latest>>

(* A stream closes, or the accounts cannot be fetched: the loop ends and    *)
(* drops all it has.                                                        *)
LoopEnds ==
  /\ LoopRuns
  /\ boot' = [epoch |-> NoEpoch, state |-> "dead"]
  /\ content' = NoContent /\ lent' = NotLent
  /\ updates' = NoUpdates /\ permit' = NoPermit
  /\ task' = NoTasks /\ pending' = {}
  /\ epochs' = EpochData(slot)
  /\ latest' = NothingHeard
  /\ UNCHANGED <<slot, schedule>>

VoteTaskGoes(t) ==
  \/ AskAgain(t)
  \/ t \in Request /\ AnswerVotes(t)
  \/ t \in 1 .. LastEpoch /\ ScheduleCalculated(t)
  \/ t = Boot /\ AccountsMerged

VotesNext ==
  \/ \E k \in Changing, s \in 1 .. MaxVoteSlot, gone \in BOOLEAN :
       Update(k, [slot |-> s, gone |-> gone])
  \/ \E s \in 1 .. MaxVoteSlot : NewSlot(s)
  \/ NewStakeHistory
  \/ \E r \in Request : GetVoteAccounts(r)
  \/ AccountsFetched \/ StoresAreLost
  \/ \E t \in VoteTask : VoteTaskGoes(t)
  \/ LoopEnds

(* A calculation ends, and the loop takes its result.                       *)
VotesFairness == \A t \in VoteTask : WF_voteVars(VoteTaskGoes(t))

VotesSpec == VotesInit /\ [][VotesNext]_voteVars /\ VotesFairness

------------------------------------------------------------------------------
(* Whatever was last heard of an account that exists is in the store or     *)
(* will be when the updates put aside are added, however often the store    *)
(* is lent meanwhile.                                                       *)
UpdatesAreKept ==
  \A k \in StoreName : latest[k].slot > 0 /\ ~latest[k].gone =>
    Merged(content[k], updates[k]) = latest[k].slot

(* Each merge notifies one waiter of each store, and of two schedules that   *)
(* wait for both one may be notified of the stakes and the other of the      *)
(* votes: then neither asks again, until the votes come back once more.      *)
SchedulesCross ==
  /\ lent["stakes"] = {}
  /\ \E d, e \in 1 .. LastEpoch :
       "stakes" \in task[d].waits /\ "votes" \in task[e].waits /\ "stakes" \notin task[e].waits

(* A task waits only for a store that is lent, or that another task has     *)
(* been notified of and is about to take, unless schedules cross.           *)
WaitsForSomebody ==
  \A t \in VoteTask, k \in StoreName :
    k \in task[t].waits /\ lent[k] = {} =>
      \/ \E u \in VoteTask : task[u] = [at |-> "asks", waits |-> {}] /\ k \in Needs(u)
      \/ SchedulesCross

(* What was last heard of an account is kept, and nobody waits for a store  *)
(* that nobody has.                                                         *)
LatestIsKept == UpdatesAreKept /\ WaitsForSomebody

(* Every request is answered, also one that came while the votes were lent, *)
(* and a schedule that is to be calculated is calculated, unless the loop   *)
(* ends, the bootstrap has lost the stores or schedules cross.              *)
Stuck == boot.state \in {"dead", "lost"} \/ SchedulesCross
RequestsAreAnswered ==
  /\ \A r \in Request : r \in pending ~> r \notin pending \/ Stuck
  /\ \A e \in 1 .. LastEpoch : task[e].at = "asks" ~> task[e].at = "done" \/ Stuck

(* Comment at utils.rs:219: an account change of the next epoch is put into *)
(* the updates "to be merged next epoch change", and not when a call of     *)
(* get_vote_accounts gives the store back.  It is: no run checks this.      *)
NextEpochWaits ==
  [][\A r \in Request : task[r].at = "holds" /\ task'[r].at = "done"
       => content'["votes"] <= epochs.last]_voteVars
==============================================================================
