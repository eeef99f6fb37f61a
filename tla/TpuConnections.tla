--------------------------- MODULE TpuConnections ----------------------------
(***************************************************************************)
(* services/src/tpu_utils/tpu_connection_manager.rs: the TPU service keeps *)
(* one ActiveConnection for each of the next leaders.  Each is served by   *)
(* two tasks: the filler takes the broadcast transactions and puts them in *)
(* the heap, the main task is woken up, empties the heap and hands every   *)
(* transaction, with a permit of the connection pool, to a task that sends *)
(* it.  A leader that is no longer needed is removed from the map, and its *)
(* tasks are told to exit on a broadcast channel, which reaches those that *)
(* have subscribed by then.                                                *)
(*                                                                         *)
(* One step is what a task does between two points where another task can  *)
(* interfere.  An incarnation of a connection is a number, in the order in *)
(* which they are created; a leader that comes back gets a new one.        *)
(***************************************************************************)
EXTENDS PrioFeeHeap

CONSTANTS
  Identity,   \* validators
  MaxBorn,    \* bound of the connections created
  PoolSize,   \* permits of a connection pool, those of all its connections
  QueueSize,  \* maximum_transaction_in_queue, of the broadcast channel
  MaxSent,    \* bound of the transactions sent
  MaxHeight   \* bound of the block height

ASSUME ConnectionsAssumption ==
  /\ IsFiniteSet(Identity)
  /\ MaxBorn \in Nat
  /\ PoolSize \in Nat \ {0}
  /\ QueueSize \in Nat \ {0}
  /\ MaxSent \in Nat
  /\ MaxHeight \in Nat

Incarnation == 1 .. MaxBorn
None == 0

VARIABLES
  active,     \* identity_to_active_connection, None where there is none
  born,       \* connections created so far
  main,       \* where ActiveConnection::listen of each incarnation is
  filler,     \* where its heap_filler_task is
  exitMain,   \* exit_notifier of the main task: "absent", "open" or "told"
  exitFiller, \* exit_notifier of the filler
  inbox,      \* what the transaction receiver holds
  heap,       \* priorization_heap
  wake,       \* the permit stored in fill_notify
  seen,       \* current_blockheight of the filler
  inUse,      \* permits of the pool in use
  height,     \* get_last_blockheight
  confirmed,  \* transactions for which is_transaction_confirmed holds
  sent        \* transactions broadcast so far

tasks == <<main, filler, exitMain, exitFiller>>
data  == <<inbox, heap, wake, seen, inUse>>
world == <<height, confirmed, sent>>
vars  == <<active, born, tasks, data, world>>

Init ==
  /\ active = [id \in Identity |-> None]
  /\ born = 0
  /\ main = [i \in Incarnation |-> "unborn"]
  /\ filler = [i \in Incarnation |-> "unborn"]
  /\ exitMain = [i \in Incarnation |-> "absent"]
  /\ exitFiller = [i \in Incarnation |-> "absent"]
  /\ inbox = [i \in Incarnation |-> << >>]
  /\ heap = [i \in Incarnation |-> EmptyHeap]
  /\ wake = [i \in Incarnation |-> FALSE]
  /\ seen = [i \in Incarnation |-> 0]
  /\ inUse = [i \in Incarnation |-> 0]
  /\ height = 0
  /\ confirmed = {}
  /\ sent = 0

----------------------------------------------------------------------------
(* The TPU service                                                         *)

(* exit_notifier.send(()): an error, when nobody listens, is ignored.      *)
Tell(told, exit) ==
  [i \in Incarnation |-> IF i \in told /\ exit[i] = "open" THEN "told" ELSE exit[i]]

(* The incarnations that new leaders get, in any order.                    *)
Births(new) ==
  {number \in [new -> born + 1 .. born + Cardinality(new)] :
     \A a, b \in new : number[a] = number[b] => a = b}

(* New leaders get a connection, whose receiver is subscribed and whose    *)
(* task is spawned; those that are not to be kept lose theirs.             *)
UpdateConnections(keep) ==
  LET new     == {id \in keep : active[id] = None}
      removed == {active[id] : id \in Identity \ keep} \ {None}
  IN /\ born + Cardinality(new) <= MaxBorn
     /\ born' = born + Cardinality(new)
     /\ \E number \in Births(new) :
          /\ active' = [id \in Identity |-> IF id \in new THEN number[id]
                                            ELSE IF id \in keep THEN active[id]
                                            ELSE None]
          /\ main' = [i \in Incarnation |->
                        IF \E id \in new : number[id] = i THEN "spawned" ELSE main[i]]
     /\ exitMain' = Tell(removed, exitMain)
     /\ exitFiller' = Tell(removed, exitFiller)
     /\ UNCHANGED <<filler, data, world>>

(* Every receiver gets the transaction; one that lags loses its oldest.    *)
Receiving(i) == main[i] # "unborn" /\ filler[i] # "done"

Push(queue, tx) ==
  Append(IF Len(queue) = QueueSize THEN Tail(queue) ELSE queue, tx)

SendTransaction(tx) ==
  /\ sent < MaxSent
  /\ sent' = sent + 1
  /\ inbox' = [i \in Incarnation |->
                 IF Receiving(i) THEN Push(inbox[i], tx) ELSE inbox[i]]
  /\ UNCHANGED <<active, born, tasks, heap, wake, seen, inUse, height, confirmed>>

----------------------------------------------------------------------------
(* The filler                                                              *)

ConfirmedOrExpired(tx) == tx \in confirmed \/ height > LastValidOf[tx]

FillerStart(i) ==
  /\ filler[i] = "spawned"
  /\ filler' = [filler EXCEPT ![i] = "recv"]
  /\ seen' = [seen EXCEPT ![i] = height]
  /\ UNCHANGED <<active, born, main, exitMain, exitFiller, inbox, heap, wake, inUse, world>>

(* A transaction from the channel enters the heap, unless it is too late.  *)
FillerReceive(i) ==
  LET tx == Head(inbox[i]) IN
  /\ filler[i] = "recv"
  /\ inbox[i] # << >>
  /\ inbox' = [inbox EXCEPT ![i] = Tail(@)]
  /\ IF ConfirmedOrExpired(tx)
     THEN UNCHANGED <<heap, filler>>
     ELSE /\ heap' = [heap EXCEPT ![i] = Insert(@, tx)]
          /\ filler' = [filler EXCEPT ![i] = "notify"]
  /\ UNCHANGED <<active, born, main, exitMain, exitFiller, wake, seen, inUse, world>>

(* Mutant: only a main task that is waiting is woken up.                   *)
FillerNotifyWaiter(i) ==
  /\ filler[i] = "notify"
  /\ wake' = [wake EXCEPT ![i] = @ \/ main[i] = "select"]
  /\ seen' = [seen EXCEPT ![i] = height]
  /\ filler' = [filler EXCEPT ![i] = IF seen[i] = height THEN "recv" ELSE "expire"]
  /\ UNCHANGED <<active, born, main, exitMain, exitFiller, inbox, heap, inUse, world>>

(* notify_one leaves a permit when the main task is busy.                  *)
FillerNotify(i) ==
  /\ filler[i] = "notify"
  /\ wake' = [wake EXCEPT ![i] = TRUE]
  /\ seen' = [seen EXCEPT ![i] = height]
  /\ filler' = [filler EXCEPT ![i] = IF seen[i] = height THEN "recv" ELSE "expire"]
  /\ UNCHANGED <<active, born, main, exitMain, exitFiller, inbox, heap, inUse, world>>

FillerExpire(i) ==
  /\ filler[i] = "expire"
  /\ heap' = [heap EXCEPT ![i] = RemoveExpired(@, seen[i])]
  /\ filler' = [filler EXCEPT ![i] = "recv"]
  /\ UNCHANGED <<active, born, main, exitMain, exitFiller, inbox, wake, seen, inUse, world>>

(* The receiver is dropped with the task.                                  *)
FillerExit(i) ==
  /\ filler[i] = "recv"
  /\ exitFiller[i] = "told"
  /\ filler' = [filler EXCEPT ![i] = "done"]
  /\ inbox' = [inbox EXCEPT ![i] = << >>]
  /\ UNCHANGED <<active, born, main, exitMain, exitFiller, heap, wake, seen, inUse, world>>

Filler(i) ==
  \/ FillerStart(i) \/ FillerReceive(i) \/ FillerNotify(i)
  \/ FillerExpire(i) \/ FillerExit(i)

----------------------------------------------------------------------------
(* The main task                                                           *)

(* Mutant: the filler is spawned without a subscription to the exit.       *)
StartUnsubscribed(i) ==
  /\ main[i] = "spawned"
  /\ main' = [main EXCEPT ![i] = "first"]
  /\ filler' = [filler EXCEPT ![i] = "spawned"]
  /\ UNCHANGED <<active, born, exitMain, exitFiller, data, world>>

Start(i) ==
  /\ main[i] = "spawned"
  /\ main' = [main EXCEPT ![i] = "first"]
  /\ filler' = [filler EXCEPT ![i] = "spawned"]
  /\ exitFiller' = [exitFiller EXCEPT ![i] = "open"]
  /\ UNCHANGED <<active, born, exitMain, data, world>>

(* A first connection is made before the main loop subscribes and begins.  *)
ConnectFirst(i) ==
  /\ main[i] = "first"
  /\ inUse[i] < PoolSize
  /\ inUse' = [inUse EXCEPT ![i] = @ + 1]
  /\ exitMain' = [exitMain EXCEPT ![i] = "open"]
  /\ main' = [main EXCEPT ![i] = "select"]
  /\ UNCHANGED <<active, born, filler, exitFiller, inbox, heap, wake, seen, world>>

WakeUp(i) ==
  /\ main[i] = "select"
  /\ wake[i]
  /\ wake' = [wake EXCEPT ![i] = FALSE]
  /\ main' = [main EXCEPT ![i] = "heap"]
  /\ UNCHANGED <<active, born, filler, exitMain, exitFiller, inbox, heap, seen, inUse, world>>

(* A transaction that is confirmed by now is dropped.                      *)
PopHeap(i) ==
  /\ main[i] = "heap"
  /\ ~IsEmpty(heap[i])
  /\ heap' = [heap EXCEPT ![i] = Pop(@)]
  /\ main' = [main EXCEPT ![i] =
                IF Popped(heap[i]) \in confirmed THEN "heap" ELSE "permit"]
  /\ UNCHANGED <<active, born, filler, exitMain, exitFiller, inbox, wake, seen, inUse, world>>

HeapIsEmpty(i) ==
  /\ main[i] = "heap"
  /\ IsEmpty(heap[i])
  /\ main' = [main EXCEPT ![i] = "select"]
  /\ UNCHANGED <<active, born, filler, exitMain, exitFiller, data, world>>

(* Mutant: the main task waits for the next notification after each.       *)
SpawnSendOnce(i) ==
  /\ main[i] = "permit"
  /\ inUse[i] < PoolSize
  /\ inUse' = [inUse EXCEPT ![i] = @ + 1]
  /\ main' = [main EXCEPT ![i] = "select"]
  /\ UNCHANGED <<active, born, filler, exitMain, exitFiller, inbox, heap, wake, seen, world>>

(* get_pooled_connection waits for a permit, which the sending task keeps. *)
SpawnSend(i) ==
  /\ main[i] = "permit"
  /\ inUse[i] < PoolSize
  /\ inUse' = [inUse EXCEPT ![i] = @ + 1]
  /\ main' = [main EXCEPT ![i] = "heap"]
  /\ UNCHANGED <<active, born, filler, exitMain, exitFiller, inbox, heap, wake, seen, world>>

MainExit(i) ==
  /\ main[i] = "select"
  /\ exitMain[i] = "told"
  /\ main' = [main EXCEPT ![i] = "join"]
  /\ UNCHANGED <<active, born, filler, exitMain, exitFiller, data, world>>

CleanUp(i) ==
  /\ main[i] = "join"
  /\ filler[i] = "done"
  /\ heap' = [heap EXCEPT ![i] = EmptyHeap]
  /\ main' = [main EXCEPT ![i] = "done"]
  /\ UNCHANGED <<active, born, filler, exitMain, exitFiller, inbox, wake, seen, inUse, world>>

Main(i) ==
  \/ Start(i) \/ ConnectFirst(i) \/ WakeUp(i) \/ PopHeap(i) \/ HeapIsEmpty(i)
  \/ SpawnSend(i) \/ CleanUp(i)

(* A task that sends ends and gives its permit back: every wait in         *)
(* send_transaction and connect has a timeout.                             *)
SendEnds(i) ==
  /\ inUse[i] > 0
  /\ inUse' = [inUse EXCEPT ![i] = @ - 1]
  /\ UNCHANGED <<active, born, tasks, inbox, heap, wake, seen, world>>

----------------------------------------------------------------------------
(* The rest of the system                                                  *)

Confirm(tx) ==
  /\ confirmed' = confirmed \union {tx}
  /\ UNCHANGED <<active, born, tasks, data, height, sent>>

NewHeight ==
  /\ height < MaxHeight
  /\ height' = height + 1
  /\ UNCHANGED <<active, born, tasks, data, confirmed, sent>>

Next ==
  \/ \E keep \in SUBSET Identity : UpdateConnections(keep)
  \/ \E tx \in Tx : SendTransaction(tx) \/ Confirm(tx)
  \/ \E i \in Incarnation : Filler(i) \/ Main(i) \/ MainExit(i) \/ SendEnds(i)
  \/ NewHeight

Spec == Init /\ [][Next]_vars

(* The runtime runs every task that is ready, and select! takes a branch   *)
(* at random, so that one that is ready again and again is taken in the    *)
(* end.  Nothing is assumed of the service, the clients and the chain.     *)
FairSpec ==
  /\ Spec
  /\ \A i \in Incarnation :
       /\ WF_vars(Main(i))
       /\ SF_vars(MainExit(i))
       /\ WF_vars(FillerReceive(i))
       /\ WF_vars(FillerStart(i) \/ FillerNotify(i) \/ FillerExpire(i))
       /\ SF_vars(FillerExit(i))
       /\ WF_vars(SendEnds(i))

----------------------------------------------------------------------------
TypeOK ==
  /\ active \in [Identity -> 0 .. born]
  /\ born \in 0 .. MaxBorn
  /\ main \in [Incarnation -> {"unborn", "spawned", "first", "select", "heap",
                               "permit", "join", "done"}]
  /\ filler \in [Incarnation -> {"unborn", "spawned", "recv", "notify", "expire", "done"}]
  /\ exitMain \in [Incarnation -> {"absent", "open", "told"}]
  /\ exitFiller \in [Incarnation -> {"absent", "open", "told"}]
  /\ inbox \in [Incarnation -> Seq(Tx)]
  /\ \A i \in Incarnation : Len(inbox[i]) <= QueueSize
  /\ \A i \in Incarnation : heap[i].signatures \subseteq Tx
  /\ wake \in [Incarnation -> BOOLEAN]
  /\ seen \in [Incarnation -> 0 .. MaxHeight]
  /\ inUse \in [Incarnation -> 0 .. PoolSize]
  /\ height \in 0 .. MaxHeight
  /\ confirmed \subseteq Tx
  /\ sent \in 0 .. MaxSent

(* The main task never sleeps on transactions nobody will wake it for:     *)
(* however the insert, the notification and the last look into the heap    *)
(* interleave, a waiting main task with something in its heap has a permit *)
(* or is about to get one.                                                 *)
NoLostWakeup ==
  \A i \in Incarnation :
    main[i] = "select" /\ ~IsEmpty(heap[i]) => wake[i] \/ filler[i] = "notify"

(* A leader in the map is served: its connection is its own, and neither   *)
(* of its tasks has ended or been told to.                                 *)
MappedIsServed ==
  \A id \in Identity :
    active[id] # None =>
      LET i == active[id] IN
      /\ main[i] \notin {"unborn", "join", "done"}
      /\ filler[i] # "done"
      /\ "told" \notin {exitMain[i], exitFiller[i]}
      /\ \A other \in Identity \ {id} : active[other] # i

(* Nothing is left behind: when listen returns, its filler has ended and   *)
(* no transaction can enter the heap any more.                             *)
NothingLeftBehind ==
  \A i \in Incarnation :
    main[i] = "done" => filler[i] = "done" /\ IsEmpty(heap[i]) /\ inbox[i] = << >>

(* No wake-up is lost, who is in the map is served, and who has ended left  *)
(* nothing behind.                                                         *)
LeadersAreServed == TypeOK /\ NoLostWakeup /\ MappedIsServed /\ NothingLeftBehind

(* Once it has subscribed, a connection that is told to exit ends.         *)
ToldEnds ==
  \A i \in Incarnation : exitMain[i] = "told" ~> main[i] = "done"

(* What waits for a connection is sent or given up in the end, even if no  *)
(* transaction arrives any more.                                           *)
HeapIsEmptied ==
  \A i \in Incarnation : []<>(IsEmpty(heap[i]))

(* "remove connections which are no longer needed": a connection that is   *)
(* no longer in the map ends.                                              *)
RemovedEnds ==
  \A i \in Incarnation :
    main[i] # "unborn" /\ (\A id \in Identity : active[id] # i) ~> main[i] = "done"
==============================================================================
