----------------------------- MODULE ForwardProxy ----------------------------
(***************************************************************************)
(* quic-forward-proxy: a request names some TPUs, and a packet for each is *)
(* put into a bounded channel.  The forwarder hands every packet to all    *)
(* the tasks there are; each belongs to an agent, which serves a TPU with  *)
(* one task for each shard.  An agent is made when it is needed, and told  *)
(* to exit when it has been idle while other TPUs were used.               *)
(*                                                                         *)
(* A packet carries its number in place of the transactions.  The global   *)
(* exit signal is left out: nothing sets it.                               *)
(***************************************************************************)
EXTENDS Functions, FiniteSets, Sublists, AutoReconnect

CONSTANTS
  Address,     \* TPUs
  Shards,      \* PARALLEL_TPU_CONNECTION_COUNT
  Room,        \* capacity of the forwarder channel
  AgentRoom,   \* capacity of the broadcast channel
  MaxRequests, \* bound of the requests
  MaxHandlers, \* bound of the requests handled at once
  MaxAgents    \* bound of the agents ever made

ASSUME ProxyAssumption ==
  /\ Shards \in Nat \ {0}
  /\ {Room, AgentRoom, MaxRequests, MaxHandlers, MaxAgents} \subseteq Nat
  /\ AgentRoom # 0

Shard == 0 .. Shards - 1
Agent == 1 .. MaxAgents
NoAgent == 0

VARIABLES
  requests,  \* number of requests so far; a request's number is its hash
  entering,  \* packets that the handlers of requests have yet to enqueue
  inbound,   \* the forwarder channel
  forwarder, \* "running" or "panicked"
  agents,    \* the agent of each TPU
  made,      \* the TPU of every agent made so far
  told,      \* agents told to exit
  task,      \* the tasks of the agents
  accepted,  \* history: packets handed to each agent for its TPU
  tried      \* history: for each agent and shard, the packets it has tried to send

proxyVars == <<requests, entering, inbound, forwarder, agents, made, told, task,
               accepted, tried>>

NewTask == [at |-> "receive", queue |-> << >>, lags |-> FALSE, batch |-> << >>,
            conn |-> NotConnected]
GoneTask == [NewTask EXCEPT !.at = "gone"]

ProxyInit ==
  /\ requests = 0
  /\ entering = {}
  /\ inbound = << >>
  /\ forwarder = "running"
  /\ agents = [a \in Address |-> NoAgent]
  /\ made = << >>
  /\ told = {}
  /\ task = [n \in Agent |-> [k \in Shard |-> GoneTask]]
  /\ accepted = [n \in Agent |-> {}]
  /\ tried = [n \in Agent |-> [k \in Shard |-> << >>]]

------------------------------------------------------------------------------
(* ProxyListener::handle_client_connection                                  *)

AcceptRequest(nodes) ==
  /\ requests < MaxRequests
  /\ Cardinality(entering) < MaxHandlers
  /\ requests' = requests + 1
  /\ entering' = entering \cup {[id |-> requests', nodes |-> nodes]}
  /\ UNCHANGED <<inbound, forwarder, agents, made, told, task, accepted, tried>>

(* The handler waits for room; if it waits too long, or the forwarder is    *)
(* gone, it panics and the remaining TPUs do not get the transactions.      *)
Enqueue(r) ==
  /\ r \in entering
  /\ \/ \E a \in r.nodes :
          /\ forwarder = "running" /\ Len(inbound) < Room
          /\ inbound' = Append(inbound, [id |-> r.id, address |-> a])
          /\ entering' = (entering \ {r}) \cup
               (IF r.nodes = {a} THEN {} ELSE {[r EXCEPT !.nodes = @ \ {a}]})
     \/ /\ forwarder # "running" \/ Len(inbound) = Room
        /\ entering' = entering \ {r}
        /\ UNCHANGED inbound
  /\ UNCHANGED <<requests, forwarder, agents, made, told, task, accepted, tried>>

------------------------------------------------------------------------------
(* tx_forwarder                                                             *)

(* What a broadcast does to a receiver: when it is full the oldest is lost. *)
Delivered(t, packet) ==
  IF t.at = "gone" THEN t
  ELSE IF Len(t.queue) < AgentRoom THEN [t EXCEPT !.queue = Append(@, packet)]
  ELSE [t EXCEPT !.queue = Append(Tail(@), packet), !.lags = TRUE]

(* Mutant: the agent that is told to exit stays in the map.                 *)
RemovedKept(map, dropped) == map

Removed(map, dropped) == [a \in Address |-> IF a \in dropped THEN NoAgent ELSE map[a]]

(* The agent of the packet is made if there is none; those of other TPUs    *)
(* that have been idle for long are told to exit, when the debouncer has    *)
(* its turn; and the packet is broadcast.  A broadcast that nobody receives *)
(* fails, and the forwarder panics.                                         *)
Forward(idle) ==
  LET packet == Head(inbound)
      a == packet.address
      new == agents[a] = NoAgent
      n == IF new THEN Len(made) + 1 ELSE agents[a]
      dropped == {b \in idle \ {a} : agents[b] # NoAgent}
      before == IF new THEN [task EXCEPT ![n] = [k \in Shard |-> NewTask]] ELSE task
  IN  /\ forwarder = "running"
      /\ inbound # << >>
      /\ n \in Agent
      /\ inbound' = Tail(inbound)
      /\ made' = IF new THEN Append(made, a) ELSE made
      /\ agents' = Removed([agents EXCEPT ![a] = n], dropped)
      /\ told' = told \cup {agents[b] : b \in dropped}
      /\ forwarder' = IF \E m \in Agent, k \in Shard : before[m][k].at # "gone"
                      THEN "running" ELSE "panicked"
      /\ task' = [m \in Agent |-> [k \in Shard |-> Delivered(before[m][k], packet)]]
      /\ accepted' = [accepted EXCEPT ![n] = @ \cup {packet.id}]
      /\ UNCHANGED <<requests, entering, tried>>

------------------------------------------------------------------------------
(* The task of one shard of an agent                                        *)

Becomes(n, k, t) ==
  /\ task' = [task EXCEPT ![n][k] = t]
  /\ UNCHANGED <<requests, entering, inbound, forwarder, agents, made, told, accepted>>

Ended == [GoneTask EXCEPT !.conn = ShuttingDown]

Matches(n, k, packet) == packet.address = made[n] /\ packet.id % Shards = k

(* filters: of the packets that wait, those of the task's TPU and shard.    *)
Filtered(n, k, packets) ==
  Sublist(packets, {p \in Range(packets) : Matches(n, k, p)})

(* The next packet, and with it all that are queued.  Told to exit, the     *)
(* task ends with the last packet it receives; it ends, too, when it has    *)
(* missed packets or its connection is given up.                            *)
Receive(n, k) ==
  LET t == task[n][k]
      dead == t.conn = PermanentError
      ends == \/ n \in told /\ (Len(t.queue) = 1 \/ dead)
              \/ t.lags
              \/ Matches(n, k, Head(t.queue)) /\ dead
  IN  /\ t.at = "receive"
      /\ t.queue # << >>
      /\ Becomes(n, k,
           IF ends THEN Ended
           ELSE IF ~Matches(n, k, Head(t.queue)) THEN [t EXCEPT !.queue = Tail(@)]
           ELSE [t EXCEPT !.at = "send", !.batch = Filtered(n, k, t.queue), !.queue = << >>])
      /\ UNCHANGED tried

(* A connection that is open may be found closed when it is needed.         *)
Found(conn) == {conn} \cup (IF conn = Open THEN {Closed} ELSE {})

(* Each packet of the batch is sent when the connection can be had; whether *)
(* it arrives or not is not looked at.                                      *)
Send(n, k) ==
  LET t == task[n][k]
  IN  /\ t.at = "send"
      /\ \E conn \in Found(t.conn), success \in BOOLEAN :
           Becomes(n, k, [t EXCEPT !.conn = Refreshed(conn, success), !.batch = Tail(@),
                                   !.at = IF Len(t.batch) = 1 THEN "receive" ELSE "send"])
      /\ tried' = [tried EXCEPT ![n][k] = Append(@, Head(t.batch).id)]

(* All that is not sent within 5 seconds is dropped.                        *)
SendTimesOut(n, k) ==
  LET t == task[n][k]
  IN  /\ t.at = "send"
      /\ Becomes(n, k, [t EXCEPT !.at = "receive", !.batch = << >>])
      /\ tried' = [tried EXCEPT ![n][k] = @ \o [i \in DOMAIN t.batch |-> t.batch[i].id]]

(* A connection that fails with anything but a timeout takes the task along.*)
TaskPanics(n, k) ==
  /\ task[n][k].at = "send"
  /\ \E conn \in Found(task[n][k].conn) : MustConnect(conn)
  /\ Becomes(n, k, GoneTask)
  /\ UNCHANGED tried

Task(n, k) == Receive(n, k) \/ Send(n, k) \/ SendTimesOut(n, k) \/ TaskPanics(n, k)

ProxyNext ==
  \/ \E nodes \in SUBSET Address \ {{}} : AcceptRequest(nodes)
  \/ \E r \in entering : Enqueue(r)
  \/ \E idle \in SUBSET Address : Forward(idle)
  \/ \E n \in Agent, k \in Shard : Task(n, k)

ProxySpec == ProxyInit /\ [][ProxyNext]_proxyVars

------------------------------------------------------------------------------
Tried(n, k) == Range(tried[n][k])

(* As long as an agent is in the map, none of its tasks is told to exit,    *)
(* and every packet handed to it is queued at, being sent or was tried by   *)
(* the task of its shard, unless that one has ended or missed packets.      *)
AcceptedIsTried ==
  \A a \in Address : agents[a] # NoAgent =>
    LET n == agents[a]
    IN  /\ made[n] = a /\ n \notin told
        /\ \A p \in accepted[n] :
             LET t == task[n][p % Shards]
             IN  \/ t.at = "gone" \/ t.lags
                 \/ [id |-> p, address |-> a] \in Range(t.queue) \cup Range(t.batch)
                 \/ p \in Tried(n, p % Shards)

(* No task sends a packet twice, and no two tasks of an agent the same one. *)
SentOnce ==
  \A n \in Agent, k \in Shard :
    /\ \A i, j \in DOMAIN tried[n][k] : tried[n][k][i] = tried[n][k][j] => i = j
    /\ \A j \in Shard \ {k} : Tried(n, k) \cap Tried(n, j) = {}

(* The expect at tx_forward.rs:214, "send must succeed".  It does not when  *)
(* every task of the agent has ended: no run checks this.                   *)
SendMustSucceed == forwarder = "running"
==============================================================================
