---------------------------- MODULE AccountStreams ---------------------------
(***************************************************************************)
(* cluster-endpoints/src/grpc/grpc_accounts_streaming.rs and               *)
(* accounts-on-demand/src/subscription_manager.rs: the streams of account  *)
(* updates.  A group of tasks, one for each geyser source, subscribes with *)
(* some filters.  The group of the configured filters is replaced when it  *)
(* has been silent for a minute.  The one of the accounts on demand is     *)
(* replaced when the filters change, once the new group has delivered.     *)
(***************************************************************************)
EXTENDS Integers

CONSTANTS
  Source,     \* geyser sources
  MaxFilters  \* bound of the changes of the filters on demand

VARIABLES
  group,   \* the tasks: "configured", "current" and "next" on demand
  told,    \* number of filters sent to the watch channel, the last is current
  seen,    \* the number the manager has seen
  manager, \* where the manager of the accounts on demand is
  tried    \* history: the last filters that a group was started with

streamVars == <<group, told, seen, manager, tried>>

Task == {"connecting", "streaming", "resting", "gone"}
NewGroup(n) == [filters |-> n, started |-> FALSE,
                task |-> [s \in Source |-> "connecting"]]
NoGroup == [filters |-> 0, started |-> FALSE, task |-> [s \in Source |-> "gone"]]

Init ==
  /\ group = [configured |-> NewGroup(0), current |-> NoGroup, next |-> NoGroup]
  /\ told = 0
  /\ seen = 0
  /\ manager = "first"
  /\ tried = 0

------------------------------------------------------------------------------
(* start_account_streaming_tasks, for each group and source                 *)

Becomes(g, s, state) == group' = [group EXCEPT ![g].task[s] = state]

(* A task whose connection cannot be made ends, one whose stream breaks     *)
(* connects again after a second.                                           *)
TaskStep(g, s) ==
  /\ \/ /\ group[g].task[s] = "connecting"
        /\ Becomes(g, s, "streaming") \/ Becomes(g, s, "gone")
     \/ group[g].task[s] = "streaming" /\ Becomes(g, s, "resting")
     \/ group[g].task[s] = "resting" /\ Becomes(g, s, "connecting")
  /\ UNCHANGED <<told, seen, manager, tried>>

(* The first message of any source leaves a permit in has_started.          *)
Deliver(g, s) ==
  /\ group[g].task[s] = "streaming"
  /\ group' = [group EXCEPT ![g].started = TRUE]
  /\ UNCHANGED <<told, seen, manager, tried>>

------------------------------------------------------------------------------
(* create_grpc_account_streaming                                            *)

AllGone(g) == \A s \in Source : group[g].task[s] = "gone"

(* Mutant: a source that has gone is never looked for again.                *)
SilenceKeeps(g) == UNCHANGED streamVars

(* A minute without data, or lag: all tasks are aborted and started anew.   *)
Silence(g) ==
  /\ g = "configured"
  /\ group' = [group EXCEPT ![g] = NewGroup(0)]
  /\ UNCHANGED <<told, seen, manager, tried>>

------------------------------------------------------------------------------
(* SubscriptionManger, create_grpc_account_streaming_tasks                  *)

UpdateSubscriptions ==
  /\ told < MaxFilters
  /\ told' = told + 1
  /\ UNCHANGED <<group, seen, manager, tried>>

(* The first filters are subscribed to at once.                             *)
FirstFilters ==
  /\ manager = "first"
  /\ seen < told
  /\ seen' = told
  /\ tried' = told
  /\ group' = [group EXCEPT !.current = NewGroup(told)]
  /\ manager' = "watching"
  /\ UNCHANGED told

(* Later ones are taken a second after the change was noticed.              *)
FiltersChange ==
  /\ manager = "watching"
  /\ seen < told
  /\ seen' = told
  /\ manager' = "collecting"
  /\ UNCHANGED <<group, told, tried>>

StartNext ==
  /\ manager = "collecting"
  /\ seen' = told
  /\ tried' = told
  /\ group' = [group EXCEPT !.next = NewGroup(told)]
  /\ manager' = "starting"
  /\ UNCHANGED told

(* The new group takes over when it has delivered; if it has not within a   *)
(* minute it is aborted, and the old one stays.                             *)
NextStarts ==
  /\ manager = "starting"
  /\ \/ /\ group.next.started
        /\ group' = [group EXCEPT !.current = group.next, !.next = NoGroup]
     \/ group' = [group EXCEPT !.next = NoGroup]
  /\ manager' = "watching"
  /\ UNCHANGED <<told, seen, tried>>

ManagerStep == FirstFilters \/ FiltersChange \/ StartNext \/ NextStarts

Next ==
  \/ \E g \in DOMAIN group, s \in Source : TaskStep(g, s) \/ Deliver(g, s)
  \/ Silence("configured")
  \/ UpdateSubscriptions
  \/ ManagerStep

(* Silence of a minute comes for sure when no task is left.  The manager    *)
(* waits for a bounded time at every step.                                  *)
DeadSilence == AllGone("configured") /\ Silence("configured")

Spec == /\ Init /\ [][Next]_streamVars
        /\ WF_streamVars(DeadSilence) /\ WF_streamVars(ManagerStep)

------------------------------------------------------------------------------
StreamsTypeOK ==
  /\ \A g \in DOMAIN group :
       /\ group[g].filters \in 0 .. told
       /\ \A s \in Source : group[g].task[s] \in Task
  /\ seen \in 0 .. told

(* The accounts on demand are never without the updates they had: the tasks *)
(* that stream them are replaced only by tasks that have delivered.         *)
ReplacedByStarted ==
  [][group'.current.filters # group.current.filters /\ group.current # NoGroup
       => group'.current.started]_streamVars

(* The last filters sent are tried, also those sent while tasks for other   *)
(* filters are starting.                                                    *)
LastFiltersAreTried == told > tried ~> told = tried

(* The configured accounts are subscribed to again after every source has   *)
(* been lost.                                                               *)
DeadStreamIsRestarted == AllGone("configured") ~> ~ AllGone("configured")
==============================================================================
