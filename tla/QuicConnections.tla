--------------------------- MODULE QuicConnections ---------------------------
(***************************************************************************)
(* services/src/quic_connection.rs and quic_connection_utils.rs: the       *)
(* connections to one leader and the sends that share them.  A send takes  *)
(* a permit of a connection, connects it when nobody has, or again when a  *)
(* send has failed on it, and gives the permit back when it ends.          *)
(*                                                                         *)
(* A QUIC connection is its stable id.  The retries of connect are one     *)
(* step that succeeds or does not: it holds the write lock all the while.  *)
(***************************************************************************)
EXTENDS Integers, FiniteSets

CONSTANTS
  Sender,     \* sends, each begun with get_pooled_connection
  Size,       \* number of connections in the pool
  MaxPermits, \* bound of the permits of a connection
  Threshold,  \* threshold_to_create_new_connection
  MaxId       \* bound of the connections ever made

ASSUME QuicAssumption ==
  /\ IsFiniteSet(Sender)
  /\ Size \in Nat \ {0}
  /\ MaxPermits \in Nat \ {0}
  /\ Threshold \in Nat
  /\ MaxId \in Nat

Pool == 1 .. Size
NoId == 0

VARIABLES
  cell,    \* the QUIC connection of each connection of the pool
  broken,  \* last_stable_id: the one that a send has failed on last
  writer,  \* sends that hold the write lock of each cell
  free,    \* available permits
  permits, \* max_number_of_unistream_connection, the same for all
  once,    \* has_connected_once
  alive,   \* QUIC connections without a close reason
  made,    \* number of QUIC connections made
  send,    \* where each send is
  exit,    \* the exit notification was sent
  failed   \* history: QUIC connections that a send has failed on

quicVars == <<cell, broken, writer, free, permits, once, alive, made, send, exit, failed>>

Idle == [at |-> "idle", i |-> 0, id |-> NoId, deaf |-> FALSE]

QuicInit ==
  /\ cell = [i \in Pool |-> NoId]
  /\ broken = [i \in Pool |-> NoId]
  /\ writer = [i \in Pool |-> {}]
  /\ permits \in 1 .. MaxPermits
  /\ free = [i \in Pool |-> permits]
  /\ once = [i \in Pool |-> FALSE]
  /\ alive = {}
  /\ made = 0
  /\ send = [s \in Sender |-> Idle]
  /\ exit = FALSE
  /\ failed = {}

At(s, place) == send[s].at = place

(* A send listens to the exit notification from when it has its permit; it  *)
(* does not hear one that was sent before.                                  *)
Goes(s, place, i, id) ==
  send' = [send EXCEPT ![s] = [at |-> place, i |-> i, id |-> id,
                               deaf |-> IF place = "load" THEN exit ELSE @.deaf]]

------------------------------------------------------------------------------
(* QuicConnectionPool                                                       *)

(* One listener asks for the connections, one after the other, and goes on  *)
(* after the exit notification until its heap is empty.                     *)
Begin(s) ==
  /\ At(s, "idle")
  /\ \A r \in Sender : send[r].at \notin {"pick", "any"}
  /\ Goes(s, "pick", 1, NoId)
  /\ UNCHANGED <<cell, broken, writer, free, permits, once, alive, made, exit, failed>>

(* The connections are looked at in turn.  One that has never been          *)
(* connected may be used; one that is connected and has more permits than   *)
(* the threshold, too.  Whether it is connected is read under its lock.     *)
Pick(s) ==
  LET i == send[s].i
  IN  /\ At(s, "pick")
      /\ once[i] => writer[i] = {}
      /\ IF (~once[i] \/ (cell[i] \in alive /\ free[i] > Threshold)) /\ free[i] > 0
         THEN /\ Goes(s, "load", i, NoId)
              /\ free' = [free EXCEPT ![i] = @ - 1]
         ELSE /\ Goes(s, IF i < Size THEN "pick" ELSE "any", IF i < Size THEN i + 1 ELSE 0, NoId)
              /\ UNCHANGED free
      /\ UNCHANGED <<cell, broken, writer, permits, once, alive, made, exit, failed>>

(* Otherwise the permit that gets free first.                               *)
PickAny(s) ==
  /\ At(s, "any")
  /\ \E i \in Pool :
       /\ free[i] > 0
       /\ free' = [free EXCEPT ![i] = @ - 1]
       /\ Goes(s, "load", i, NoId)
  /\ UNCHANGED <<cell, broken, writer, permits, once, alive, made, exit, failed>>

(* The permit is dropped with the send.                                     *)
Ends(s) ==
  /\ free' = [free EXCEPT ![send[s].i] = @ + 1]
  /\ send' = [send EXCEPT ![s] = Idle]

------------------------------------------------------------------------------
(* QuicConnection::get_connection                                           *)

Load(s) ==
  /\ At(s, "load")
  /\ Goes(s, "read", send[s].i, broken[send[s].i])
  /\ UNCHANGED <<cell, broken, writer, free, permits, once, alive, made, exit, failed>>

Read(s) ==
  LET i == send[s].i
  IN  /\ At(s, "read")
      /\ writer[i] = {}
      /\ Goes(s, IF cell[i] = NoId \/ cell[i] = send[s].id THEN "lock" ELSE "use", i, cell[i])
      /\ UNCHANGED <<cell, broken, writer, free, permits, once, alive, made, exit, failed>>

(* Mutant: who was waiting for the lock connects once more.                 *)
LockUnchecked(s) ==
  LET i == send[s].i
  IN  /\ At(s, "lock")
      /\ writer[i] = {}
      /\ Goes(s, "connect", i, cell[i])
      /\ writer' = [writer EXCEPT ![i] = {s}]
      /\ UNCHANGED <<cell, broken, free, permits, once, alive, made, exit, failed>>

(* Another send may have connected while this one waited for the lock.      *)
Lock(s) ==
  LET i == send[s].i
  IN  /\ At(s, "lock")
      /\ writer[i] = {}
      /\ IF cell[i] # send[s].id
         THEN Goes(s, "use", i, cell[i]) /\ UNCHANGED writer
         ELSE Goes(s, "connect", i, cell[i]) /\ writer' = [writer EXCEPT ![i] = {s}]
      /\ UNCHANGED <<cell, broken, free, permits, once, alive, made, exit, failed>>

Connected(s) ==
  LET i == send[s].i
  IN  /\ At(s, "connect")
      /\ made < MaxId
      /\ made' = made + 1
      /\ alive' = alive \cup {made'}
      /\ cell' = [cell EXCEPT ![i] = made']
      /\ once' = [once EXCEPT ![i] = @ \/ cell[i] = NoId]
      /\ writer' = [writer EXCEPT ![i] = {}]
      /\ Goes(s, "use", i, made')
      /\ UNCHANGED <<broken, free, permits, exit, failed>>

(* All tries have failed or timed out; the send is given up.                *)
NotConnected(s) ==
  LET i == send[s].i
  IN  /\ At(s, "connect")
      /\ once' = [once EXCEPT ![i] = @ \/ cell[i] = NoId]
      /\ writer' = [writer EXCEPT ![i] = {}]
      /\ Ends(s)
      /\ UNCHANGED <<cell, broken, permits, alive, made, exit, failed>>

------------------------------------------------------------------------------
(* QuicConnection::send_transaction                                         *)

(* The transaction is written, or not within the time, or the stream cannot *)
(* be finished.                                                             *)
Written(s) ==
  /\ At(s, "use")
  /\ Ends(s)
  /\ UNCHANGED <<cell, broken, writer, permits, once, alive, made, exit, failed>>

(* No stream can be opened, or not written to: the connection is marked.    *)
Fails(s) ==
  LET i == send[s].i
  IN  /\ At(s, "use")
      /\ broken' = [broken EXCEPT ![i] = send[s].id]
      /\ failed' = failed \cup {send[s].id}
      /\ Ends(s)
      /\ UNCHANGED <<cell, writer, permits, once, alive, made, exit>>

(* Mutant: a send that is told to exit keeps the lock.                      *)
ExitsLocked(s) ==
  /\ exit /\ ~send[s].deaf
  /\ send[s].at \in {"load", "read", "lock", "connect", "use"}
  /\ Ends(s)
  /\ UNCHANGED <<cell, broken, writer, permits, once, alive, made, exit, failed>>

(* Wherever it waits, a send listens to the exit notification.  What it     *)
(* holds is released; has_connected_once is set only if connect itself sees *)
(* the notification first.                                                  *)
Exits(s) ==
  LET i == send[s].i
  IN  /\ exit /\ ~send[s].deaf
      /\ send[s].at \in {"load", "read", "lock", "connect", "use"}
      /\ once' \in IF At(s, "connect") /\ cell[i] = NoId
                   THEN {once, [once EXCEPT ![i] = TRUE]} ELSE {once}
      /\ writer' = [writer EXCEPT ![i] = @ \ {s}]
      /\ Ends(s)
      /\ UNCHANGED <<cell, broken, permits, alive, made, exit, failed>>

TellExit ==
  /\ ~exit
  /\ exit' = TRUE
  /\ UNCHANGED <<cell, broken, writer, free, permits, once, alive, made, send, failed>>

(* Closed by the leader or for silence, or with the pool.                   *)
Dies(id) ==
  /\ id \in alive
  /\ alive' = alive \ {id}
  /\ UNCHANGED <<cell, broken, writer, free, permits, once, made, send, exit, failed>>

(* What a send does while it waits for nobody else.                         *)
Step(s) ==
  \/ Pick(s) \/ PickAny(s) \/ Load(s) \/ Read(s) \/ Lock(s) \/ Connected(s)
  \/ NotConnected(s) \/ Written(s) \/ Fails(s) \/ Exits(s)

QuicNext ==
  \/ \E s \in Sender : Begin(s) \/ Step(s)
  \/ TellExit
  \/ \E id \in 1 .. MaxId : Dies(id)

(* Locks and semaphores are fair, and every other wait has a timeout.       *)
QuicFairness == \A s \in Sender : SF_quicVars(Step(s))

QuicSpec == QuicInit /\ [][QuicNext]_quicVars /\ QuicFairness

------------------------------------------------------------------------------
Holding(s) == send[s].at \notin {"idle", "pick", "any"}
Holders(i) == {s \in Sender : Holding(s) /\ send[s].i = i}
Connecting(i) == {s \in Holders(i) : At(s, "connect")}

QuicTypeOK ==
  /\ made \in 0 .. MaxId
  /\ cell \in [Pool -> 0 .. made] /\ broken \in [Pool -> 0 .. made]
  /\ writer \in [Pool -> SUBSET Sender]
  /\ free \in [Pool -> 0 .. permits]
  /\ permits \in 1 .. MaxPermits
  /\ once \in [Pool -> BOOLEAN]
  /\ alive \subseteq 1 .. made /\ failed \subseteq 1 .. made
  /\ send \in [Sender -> [at : {"idle", "pick", "any", "load", "read", "lock", "connect", "use"},
                          i : 0 .. Size, id : 0 .. made, deaf : BOOLEAN]]
  /\ exit \in BOOLEAN

(* A permit is held by one send, and comes back whichever way it ends; the  *)
(* lock is held only by a send that is connecting, and by one at a time.    *)
PermitsComeBack ==
  \A i \in Pool :
    /\ free[i] + Cardinality(Holders(i)) = permits
    /\ writer[i] = Connecting(i)
    /\ \A s, r \in writer[i] : s = r

(* The expect at quic_connection.rs:93: a connection, once there, may be    *)
(* replaced while a send waits for the lock, but is never taken away.       *)
CannotBeNone ==
  [][\A i \in Pool : cell[i] # NoId => cell'[i] # NoId]_quicVars

(* However many sends have seen it fail, a connection is replaced once, and *)
(* only one that a send has failed on.                                      *)
OnlyFailedIsReplaced ==
  [][\A i \in Pool : cell[i] # NoId /\ cell'[i] # cell[i] => cell[i] \in failed]_quicVars

(* The connections of the pool are shared without losing a permit, the lock *)
(* or a connection that nobody has failed on.                               *)
ConnectionsAreShared ==
  [](QuicTypeOK /\ PermitsComeBack) /\ CannotBeNone /\ OnlyFailedIsReplaced

(* Every send ends: those that wait for a permit or for a connection behind *)
(* one that is being established, too.                                      *)
SendsEnd == \A s \in Sender : send[s] # Idle ~> send[s] = Idle
==============================================================================
