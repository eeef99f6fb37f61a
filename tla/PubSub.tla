-------------------------------- MODULE PubSub --------------------------------
(***************************************************************************)
(* The subscriptions of web-socket clients: LitePubSubBridge, where every  *)
(* subscription to slots, fees, accounts or programs is a task that reads a *)
(* broadcast channel, and SubscriptionStore, where the subscription to a   *)
(* signature waits for the task that caches the blocks.                    *)
(*                                                                         *)
(* A sink takes one message until its client reads it or disconnects.      *)
(***************************************************************************)
EXTENDS Integers, Sequences, FiniteSets

CONSTANTS
  Task,          \* subscriptions that have a task
  Kind,          \* [Task -> Kinds]
  Subject,       \* what a message of the channels is about
  Wanted,        \* [Task -> SUBSET Subject]: what the account, slot and filters let through
  Capacity,      \* of a broadcast channel
  Client,        \* that subscribe to a signature
  Signature,     \* with a commitment, the keys of signature_subscribers
  Nobody,        \* neither a client nor a subject
  Ttl            \* clean_duration, in cleaning rounds

ASSUME ClientsAssumption == Nobody \notin Client \cup Signature

VARIABLES
  subscription,  \* where a task stands: "recv", "send", "ended"
  backlog,       \* messages it has not received
  sink,          \* of a task or client: "free", "full", "closed"
  signatureSubscribers, \* by signature: the client and its age
  notifying,     \* client the block task is sending to
  asked,         \* history: the signature a client subscribed to
  told           \* history: how often a client was told

pubsubVars == <<subscription, backlog, sink, signatureSubscribers, notifying, asked, told>>
signatureVars == <<signatureSubscribers, notifying, asked, told>>

NoClient == [client |-> Nobody, age |-> 0]

ClientsInit ==
  /\ subscription = [t \in Task |-> "recv"]
  /\ backlog = [t \in Task |-> << >>]
  /\ sink = [c \in Task \cup Client |-> "free"]
  /\ signatureSubscribers = [s \in Signature |-> NoClient]
  /\ notifying = Nobody
  /\ asked = [c \in Client |-> Nobody]
  /\ told = [c \in Client |-> 0]

------------------------------------------------------------------------------
(* Tasks that read a channel: whether they wait for a second at most, and    *)
(* whether they ask if the sink is closed before they look at a message.     *)
SlotSubscribe == [channel |-> "blockinfo", waits |-> FALSE, looks |-> FALSE]
LatestBlockPriofeesSubscribe == [channel |-> "block fees", waits |-> FALSE, looks |-> FALSE]
LatestAccountPriofeesSubscribe == [channel |-> "account fees", waits |-> TRUE, looks |-> FALSE]
AccountSubscribe == [channel |-> "accounts", waits |-> TRUE, looks |-> TRUE]
ProgramSubscribe == [channel |-> "accounts", waits |-> TRUE, looks |-> TRUE]
Kinds == {SlotSubscribe, LatestBlockPriofeesSubscribe, LatestAccountPriofeesSubscribe,
          AccountSubscribe, ProgramSubscribe}

(* A message for the receivers of a channel; who has Capacity of them loses  *)
(* the oldest, and with the error Lagged goes on.                            *)
Publish(channel, subject) ==
  /\ backlog' = [t \in Task |->
       IF Kind[t].channel # channel \/ subscription[t] = "ended" THEN backlog[t]
       ELSE Append(IF Len(backlog[t]) = Capacity THEN Tail(backlog[t]) ELSE backlog[t],
                   subject)]
  /\ UNCHANGED <<subscription, sink, signatureVars>>

(* Mutant: every task looks at its sink when it sends only.                  *)
LooksNever(t) == FALSE

LooksFirst(t) == Kind[t].looks /\ sink[t] = "closed"

Recv(t) ==
  /\ subscription[t] = "recv" /\ backlog[t] # << >>
  /\ backlog' = [backlog EXCEPT ![t] = Tail(@)]
  /\ subscription' = [subscription EXCEPT ![t] = IF LooksFirst(t) THEN "ended"
                                 ELSE IF Head(backlog[t]) \in Wanted[t] THEN "send" ELSE "recv"]
  /\ UNCHANGED <<sink, signatureVars>>

(* sink.send waits for room and fails when the client is gone.               *)
Send(t) ==
  /\ subscription[t] = "send" /\ sink[t] # "full"
  /\ IF sink[t] = "closed"
     THEN subscription' = [subscription EXCEPT ![t] = "ended"] /\ UNCHANGED sink
     ELSE /\ subscription' = [subscription EXCEPT ![t] = "recv"]
          /\ sink' = [sink EXCEPT ![t] = "full"]
  /\ UNCHANGED <<backlog, signatureVars>>

(* A second without a message.                                               *)
TimedOut(t) ==
  /\ subscription[t] = "recv" /\ backlog[t] = << >>
  /\ Kind[t].waits
  /\ sink[t] = "closed"
  /\ subscription' = [subscription EXCEPT ![t] = "ended"]
  /\ UNCHANGED <<backlog, sink, signatureVars>>

------------------------------------------------------------------------------
(* Signatures                                                               *)

SignatureSubscribe(c, s) ==
  /\ asked[c] = Nobody
  /\ asked' = [asked EXCEPT ![c] = s]
  /\ signatureSubscribers' = [signatureSubscribers EXCEPT ![s] = [client |-> c, age |-> 0]]
  /\ UNCHANGED <<subscription, backlog, sink, notifying, told>>

(* notify for a transaction of a block: the entry is removed before the      *)
(* message is sent.                                                          *)
Notify(s) ==
  /\ notifying = Nobody /\ signatureSubscribers[s] # NoClient
  /\ notifying' = signatureSubscribers[s].client
  /\ signatureSubscribers' = [signatureSubscribers EXCEPT ![s] = NoClient]
  /\ UNCHANGED <<subscription, backlog, sink, asked, told>>

(* The block task waits until the client has room; its error is ignored.     *)
Notified ==
  /\ notifying # Nobody /\ sink[notifying] # "full"
  /\ told' = [told EXCEPT ![notifying] = @ + 1]
  /\ sink' = [sink EXCEPT ![notifying] = IF @ = "free" THEN "full" ELSE @]
  /\ notifying' = Nobody
  /\ UNCHANGED <<subscription, backlog, signatureSubscribers, asked>>

Kept(e) == sink[e.client] # "closed" /\ e.age < Ttl

(* A cleaning round.                                                         *)
Clean ==
  /\ signatureSubscribers' = [s \in Signature |->
       LET e == signatureSubscribers[s] IN
       IF e # NoClient /\ Kept(e) THEN [e EXCEPT !.age = @ + 1] ELSE NoClient]
  /\ UNCHANGED <<subscription, backlog, sink, notifying, asked, told>>

------------------------------------------------------------------------------
Read(c) ==
  /\ sink[c] = "full"
  /\ sink' = [sink EXCEPT ![c] = "free"]
  /\ UNCHANGED <<subscription, backlog, signatureVars>>

Close(c) ==
  /\ sink[c] # "closed"
  /\ sink' = [sink EXCEPT ![c] = "closed"]
  /\ UNCHANGED <<subscription, backlog, signatureVars>>

ClientsNext ==
  \/ \E channel \in {k.channel : k \in Kinds}, subject \in Subject : Publish(channel, subject)
  \/ \E t \in Task : Recv(t) \/ Send(t) \/ TimedOut(t)
  \/ \E c \in Client, s \in Signature : SignatureSubscribe(c, s)
  \/ \E s \in Signature : Notify(s)
  \/ Notified \/ Clean
  \/ \E c \in Task \cup Client : Read(c) \/ Close(c)

(* The runtime schedules what a task can do.                                 *)
ClientsFairness ==
  /\ \A t \in Task :
       WF_pubsubVars(Recv(t)) /\ WF_pubsubVars(Send(t)) /\ WF_pubsubVars(TimedOut(t))
  /\ WF_pubsubVars(Notified)

ClientsSpec == ClientsInit /\ [][ClientsNext]_pubsubVars /\ ClientsFairness

------------------------------------------------------------------------------
(* A signature subscription ends with its first notification, though the     *)
(* block task sends it after the entry is gone and clients come meanwhile.   *)
ToldOnce ==
  \A c \in Client :
    LET waits == \E s \in Signature : signatureSubscribers[s].client = c
    IN  told[c] + (IF waits THEN 1 ELSE 0) + (IF notifying = c THEN 1 ELSE 0)
          <= (IF asked[c] = Nobody THEN 0 ELSE 1)

(* The task of a client that is gone ends, also when messages that are not   *)
(* for it never stop coming.  That of account fees may not: it looks at the  *)
(* sink in a second without a message or when it has one to send.            *)
AccountTasksEnd ==
  \A t \in {u \in Task : Kind[u].looks} : (sink[t] = "closed") ~> (subscription[t] = "ended")
==============================================================================
