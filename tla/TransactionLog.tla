---------------------------- MODULE TransactionLog ----------------------------
(***************************************************************************)
(* The log of forwarded transactions: TxSender gathers notifications and    *)
(* sends them every tick, PostgresLogger drains them into a batch and        *)
(* writes the batch until it succeeds.                                      *)
(*                                                                         *)
(* Updates of transactions, which it would write beside them, are sent by   *)
(* nobody.                                                                  *)
(***************************************************************************)
EXTENDS Integers, Sequences, FiniteSets

CONSTANTS
  Transaction,
  BatchCapacity, \* TX_MAX_CAPACITY, where the draining stops
  MaxForwards   \* bound of the forwards of a transaction

ASSUME LogAssumption == BatchCapacity \in Nat /\ MaxForwards \in Nat

VARIABLES
  forwards,     \* history: how often a transaction was forwarded
  notes,        \* notifications of the tick
  channel,      \* messages, each with notifications
  batch,        \* tx_batch
  logger,       \* "drain", "session", "write", "retry"
  sessionError, \* session_establish_error
  table,        \* rows of lite_rpc.Txs by transaction
  again         \* history: rows of batches whose write had failed in an unknown state

logVars == <<forwards, notes, channel, batch, logger, sessionError, table, again>>

Zero == [t \in Transaction |-> 0]
Places(s, t) == {i \in DOMAIN s : s[i] = t}
Count(s, t) == Cardinality(Places(s, t))
Plus(f, s) == [t \in Transaction |-> f[t] + Count(s, t)]

LogInit ==
  /\ forwards = Zero /\ notes = << >> /\ channel = << >> /\ batch = << >>
  /\ logger = "drain" /\ sessionError = FALSE /\ table = Zero /\ again = Zero

(* A transaction, or its replay, is forwarded.                               *)
Forward(t) ==
  /\ forwards[t] < MaxForwards
  /\ forwards' = [forwards EXCEPT ![t] = @ + 1]
  /\ notes' = Append(notes, t)
  /\ UNCHANGED <<channel, batch, logger, sessionError, table, again>>

Tick ==
  /\ notes # << >>
  /\ channel' = Append(channel, notes) /\ notes' = << >>
  /\ UNCHANGED <<forwards, batch, logger, sessionError, table, again>>

(* The batch may get longer than Capacity, by a message.                     *)
Drain ==
  /\ logger = "drain"
  /\ IF sessionError \/ Len(batch) >= BatchCapacity \/ channel = << >>
     THEN /\ logger' = IF batch = << >> THEN "drain" ELSE "session"
          /\ UNCHANGED <<channel, batch>>
     ELSE channel' = Tail(channel) /\ batch' = batch \o Head(channel) /\ UNCHANGED logger
  /\ UNCHANGED <<forwards, notes, sessionError, table, again>>

(* A session, from the cache or new.                                         *)
GetSession ==
  /\ logger = "session"
  /\ sessionError' = FALSE /\ logger' = "write"
  /\ UNCHANGED <<forwards, notes, channel, batch, table, again>>

(* Retried in a second, without draining.                                    *)
NoSession ==
  /\ logger = "session"
  /\ sessionError' = TRUE /\ logger' = "drain"
  /\ UNCHANGED <<forwards, notes, channel, batch, table, again>>

(* Mutant: the batch is given up with an error.                              *)
KeptBatchNever == << >>

(* With an error the batch is kept.                                          *)
KeptBatch == batch

Write ==
  /\ logger = "write"
  /\ table' = Plus(table, batch) /\ batch' = << >> /\ logger' = "drain"
  /\ UNCHANGED <<forwards, notes, channel, sessionError, again>>

(* The insert fails, or is done and its answer lost.                         *)
WriteFails(done) ==
  /\ logger = "write"
  /\ batch' = KeptBatch /\ logger' = "drain"
  /\ IF done THEN table' = Plus(table, batch) /\ again' = Plus(again, batch)
             ELSE UNCHANGED <<table, again>>
  /\ UNCHANGED <<forwards, notes, channel, sessionError>>

LogNext ==
  \/ \E t \in Transaction : Forward(t)
  \/ Tick \/ Drain \/ GetSession \/ NoSession \/ Write
  \/ \E done \in BOOLEAN : (done => \A t \in Transaction : again[t] = 0) /\ WriteFails(done)

LogSpec == LogInit /\ [][LogNext]_logVars

------------------------------------------------------------------------------
(* The notifications of a transaction in the channel, by message and place.  *)
Sent(t) == UNION {{i} \X Places(channel[i], t) : i \in DOMAIN channel}

(* A forward has its row or its notification, and more than one only when a  *)
(* write was done whose answer was lost: errors of the database neither lose *)
(* nor repeat one.                                                           *)
LoggedOnce ==
  \A t \in Transaction :
    table[t] + Count(batch, t) + Cardinality(Sent(t)) + Count(notes, t) = forwards[t] + again[t]
==============================================================================
