------------------------------ MODULE MCServices -----------------------------
(* The tasks that must go on by themselves: the loop of the stake and vote  *)
(* accounts, the calls of the accounts on demand, the account streams, the  *)
(* subscriptions of web-socket clients, the polling of blocks, and the QUIC *)
(* connections to one leader.  They share no state, so a behaviour is one   *)
(* of one of them.                                                          *)
EXTENDS BlockPolling, QuicConnections

CONSTANTS Boot, Request, Changing, EpochLen, LastEpoch, VoteSlots, \* StakeVote
          Caller, Key, Ghost, Program, MaxTries,       \* AccountsOnDemand
          Source, MaxFilters,                          \* AccountStreams
          ta, ts, Subject, Capacity, Nobody, Ttl       \* PubSub
VARIABLES part,
          content, lent, updates, permit, task, epochs, slot, boot, pending, epochSchedule, latest,
          stored, loading, subscribed, filters, wanted, calls, outcome, behind,
          group, told, seen, manager, tried,
          subscription, backlog, sink, signatureSubscribers, notifying, asked, notified

Votes == INSTANCE StakeVote WITH MaxVoteSlot <- VoteSlots, schedule <- epochSchedule
Demand == INSTANCE AccountsOnDemand
Streams == INSTANCE AccountStreams

(* A subscription to accounts and one to slots; no client of signatures.    *)
Subscription == {ta, ts}
Wanted == [t \in Subscription |-> IF t = ta THEN {CHOOSE s \in Subject : TRUE} ELSE Subject]
Kind == [t \in Subscription |->
           [channel |-> IF t = ta THEN "accounts" ELSE "blockinfo",
            waits |-> t = ta, looks |-> t = ta]]
Clients == INSTANCE PubSub WITH Task <- Subscription,
             told <- notified, Client <- {}, Signature <- {}

voteVars == <<content, lent, updates, permit, task, epochs, slot, boot, pending, epochSchedule,
              latest>>
demandVars == <<stored, loading, subscribed, filters, wanted, calls, outcome,
                behind>>
streamVars == <<group, told, seen, manager, tried>>
clientVars == <<subscription, backlog, sink, signatureSubscribers, notifying, asked, notified>>

MCInit ==
  /\ part \in {"votes", "demand", "streams", "clients", "polling", "quic"}
  /\ Init /\ QuicInit /\ Votes!VotesInit
  /\ part # "votes" => epochSchedule.current = Votes!NoEpoch
  /\ part # "quic" => permits = MaxPermits
  /\ Demand!DemandInit /\ Streams!Init /\ Clients!ClientsInit

MCNext ==
  /\ UNCHANGED part
  /\ IF part = "votes" THEN Votes!VotesNext ELSE UNCHANGED voteVars
  /\ IF part = "demand" THEN Demand!DemandNext ELSE UNCHANGED demandVars
  /\ IF part = "streams" THEN Streams!Next ELSE UNCHANGED streamVars
  /\ IF part = "clients" THEN Clients!ClientsNext ELSE UNCHANGED clientVars
  /\ IF part = "polling" THEN Next ELSE UNCHANGED vars
  /\ IF part = "quic" THEN QuicNext ELSE UNCHANGED quicVars

(* The fairness of each part.                                               *)
MCFairness ==
  /\ \A t \in Votes!VoteTask : WF_voteVars(part = "votes" /\ Votes!VoteTaskGoes(t))
  /\ \A c \in Caller : WF_demandVars(part = "demand" /\ Demand!Step(c))
  /\ WF_streamVars(part = "streams" /\ Streams!DeadSilence)
  /\ WF_streamVars(part = "streams" /\ Streams!ManagerStep)
  /\ \A t \in Subscription :
       /\ WF_clientVars(part = "clients" /\ Clients!Recv(t))
       /\ WF_clientVars(part = "clients" /\ Clients!Send(t))
       /\ WF_clientVars(part = "clients" /\ Clients!TimedOut(t))
  /\ \A w \in Worker :
       /\ WF_vars(part = "polling" /\ Fetch(w))
       /\ WF_vars(part = "polling" /\ (Fetched(w) \/ NotFetched(w)))
  /\ \A item \in Existing :
       SF_vars(\E w \in Worker : part = "polling" /\ fetching[w] = item /\ Fetched(w))
  /\ WF_vars(part = "polling" /\ RetryTask)
  /\ \A s \in Sender : SF_quicVars(part = "quic" /\ Step(s))

MCSpec ==
  /\ MCInit
  /\ [][MCNext]_<<part, vars, voteVars, demandVars, streamVars, clientVars, quicVars>>
  /\ MCFairness

------------------------------------------------------------------------------
(* AccountsOnDemand: every call returns, whenever it begins to wait.        *)
CallsReturn == Demand!CallsReturn

(* AccountStreams: the filters sent last are tried, tasks that stream are   *)
(* replaced only by tasks that have delivered, and a group whose sources    *)
(* are all lost is started anew.                                            *)
StreamsGoOn ==
  /\ []Streams!StreamsTypeOK
  /\ Streams!LastFiltersAreTried /\ Streams!ReplacedByStarted /\ Streams!DeadStreamIsRestarted

(* PubSub: the account task of a client that is gone ends.                  *)
AccountTasksEnd == Clients!AccountTasksEnd

(* StakeVote: the calls of get_vote_accounts are answered.                  *)
RequestsAreAnswered == Votes!RequestsAreAnswered
==============================================================================
