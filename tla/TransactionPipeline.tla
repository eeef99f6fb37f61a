------------------------- MODULE TransactionPipeline -------------------------
(***************************************************************************)
(* The life of a transaction in lite-rpc: TransactionService accepts it,   *)
(* TxSender forwards it and tracks it in the transaction store,            *)
(* TransactionReplayer sends it again while it is neither confirmed nor    *)
(* expired, the block task of DataCachingService records the blocks it     *)
(* lands in, the cleaning task forgets it.                                 *)
(*                                                                         *)
(* Each is a task of its own: an await point, or a send on a channel, ends *)
(* a step.  Replay times are relative: wait is what is left until          *)
(* replay_at, and Tick is the passing of one unit of time.                 *)
(***************************************************************************)
EXTENDS Integers, Sequences

CONSTANTS
  Request,    \* calls of send_wire_transaction
  Tx,         \* transaction signatures
  TxOf,       \* the transaction of each request: clients send them again
  LastValid,  \* last_valid_block_height of each transaction
  MaxReplay,  \* max_replay, the retries a request asks for
  Offset,     \* retry_offset, in units of time
  QueueSize,  \* max_nb_txs_in_queue
  MaxHeight   \* bound of the model: heights that are produced

ASSUME PipelineAssumption ==
  /\ TxOf \in [Request -> Tx]
  /\ LastValid \in [Tx -> Nat]
  /\ MaxReplay \in Nat
  /\ Offset \in Nat \ {0}
  /\ QueueSize \in Nat \ {0}
  /\ MaxHeight \in Nat

(* What the store knows of a transaction.                                  *)
Absent    == 0
Sent      == 1   \* status: None
Processed == 2
Confirmed == 3
Finalized == 4
Landed    == {Processed, Confirmed, Finalized}

VARIABLES
  height,      \* last_blockheight of the block store
  finalized,   \* height of the latest finalized block
  txs,         \* the transaction store
  call,        \* where each request stands in send_wire_transaction
  txChannel,   \* transaction_channel, bounded: transactions to forward
  forwarding,  \* transaction TxSender has inserted and is to send, or <<>>
  replayQueue, \* replay_channel, unbounded
  held,        \* entry the replayer works on, or <<>>
  replayPc,    \* where the replayer stands with it
  noticed,     \* history: highest commitment a block announced it at
  replays      \* history: how often each request was sent again

vars == <<height, finalized, txs, call, txChannel, forwarding, replayQueue,
          held, replayPc, noticed, replays>>

chain    == <<height, finalized, noticed>>
replayer == <<replayQueue, held, replayPc, replays>>

(* TransactionReplay; the transaction is that of the request.              *)
Entry == [req : Request, count : 0 .. MaxReplay, wait : 0 .. Offset * (MaxReplay + 1)]

Init ==
  /\ height = 0
  /\ finalized = 0
  /\ txs = [t \in Tx |-> Absent]
  /\ call = [r \in Request |-> "lookup"]
  /\ txChannel = <<>>
  /\ forwarding = <<>>
  /\ replayQueue = <<>>
  /\ held = <<>>
  /\ replayPc = "recv"
  /\ noticed = [t \in Tx |-> Absent]
  /\ replays = [r \in Request |-> 0]

----------------------------------------------------------------------------
(* TransactionService::send_wire_transaction                               *)

(* An expired blockhash is refused, and so is one that is not (or not yet) *)
(* in the block store.                                                     *)
Lookup(r) ==
  /\ call[r] = "lookup"
  /\ \/ call' = [call EXCEPT ![r] = "refused"]
     \/ height <= LastValid[TxOf[r]] /\ call' = [call EXCEPT ![r] = "channel"]
  /\ UNCHANGED <<chain, txs, txChannel, forwarding, replayer>>

(* transaction_channel.send(..).await: waits while the channel is full.    *)
SendToChannel(r) ==
  /\ call[r] = "channel"
  /\ Len(txChannel) < QueueSize
  /\ txChannel' = Append(txChannel, TxOf[r])
  /\ call' = [call EXCEPT ![r] = "replay"]
  /\ UNCHANGED <<chain, txs, forwarding, replayer>>

SendToReplay(r) ==
  /\ call[r] = "replay"
  /\ replayQueue' = Append(replayQueue, [req |-> r, count |-> 0, wait |-> Offset])
  /\ call' = [call EXCEPT ![r] = "accepted"]
  /\ UNCHANGED <<chain, txs, txChannel, forwarding, held, replayPc, replays>>

----------------------------------------------------------------------------
(* Mutant: the transaction is looked at but not taken out of the channel.  *)
ForwardInsertPeek ==
  /\ forwarding = <<>>
  /\ txChannel # <<>>
  /\ txs' = [txs EXCEPT ![Head(txChannel)] = Sent]
  /\ forwarding' = <<Head(txChannel)>>
  /\ UNCHANGED <<chain, call, txChannel, replayer>>

(* TxSender::forward_txs: an unconditional insert, then the send.          *)
ForwardInsert ==
  /\ forwarding = <<>>
  /\ txChannel # <<>>
  /\ txs' = [txs EXCEPT ![Head(txChannel)] = Sent]
  /\ forwarding' = <<Head(txChannel)>>
  /\ txChannel' = Tail(txChannel)
  /\ UNCHANGED <<chain, call, replayer>>

ForwardSend ==
  /\ forwarding # <<>>
  /\ forwarding' = <<>>
  /\ UNCHANGED <<chain, txs, call, txChannel, replayer>>

----------------------------------------------------------------------------
(* TransactionReplayer::start_service                                      *)

(* Mutant: a copy goes back, the entry stays.                              *)
ReplayRequeueCopy ==
  /\ replayPc = "recv"
  /\ replayQueue # <<>>
  /\ Head(replayQueue).wait > Offset
  /\ Len(replayQueue) < 4
  /\ replayQueue' = Append(replayQueue, Head(replayQueue))
  /\ UNCHANGED <<chain, txs, call, txChannel, forwarding, held, replayPc, replays>>

(* An entry that is due later than in one retry_offset goes back at once.  *)
ReplayRequeue ==
  /\ replayPc = "recv"
  /\ replayQueue # <<>>
  /\ Head(replayQueue).wait > Offset
  /\ replayQueue' = Append(Tail(replayQueue), Head(replayQueue))
  /\ UNCHANGED <<chain, txs, call, txChannel, forwarding, held, replayPc, replays>>

(* For any other the task sleeps, and everything behind it waits.          *)
ReplayTake ==
  /\ replayPc = "recv"
  /\ replayQueue # <<>>
  /\ Head(replayQueue).wait <= Offset
  /\ held' = <<Head(replayQueue)>>
  /\ replayQueue' = Tail(replayQueue)
  /\ replayPc' = "check"
  /\ UNCHANGED <<chain, txs, call, txChannel, forwarding, replays>>

(* Mutant: a transaction that is merely in the store counts as confirmed.  *)
ContainedOrExpired(t) == height > LastValid[t] \/ txs[t] # Absent

(* check_if_confirmed_or_expired_blockheight: any status counts.           *)
ConfirmedOrExpired(t) == height > LastValid[t] \/ txs[t] \in Landed

(* Mutant: a confirmed or expired transaction is queued again.             *)
ReplayCheckRequeues ==
  /\ replayPc = "check"
  /\ held[1].wait = 0
  /\ IF ConfirmedOrExpired(TxOf[held[1].req])
     THEN /\ replayQueue' = Append(replayQueue, [held[1] EXCEPT !.wait = Offset])
          /\ held' = <<>>
          /\ replayPc' = "recv"
     ELSE /\ replayPc' = "send"
          /\ UNCHANGED <<held, replayQueue>>
  /\ UNCHANGED <<chain, txs, call, txChannel, forwarding, replays>>

ReplayCheck ==
  /\ replayPc = "check"
  /\ held[1].wait = 0
  /\ IF ConfirmedOrExpired(TxOf[held[1].req])
     THEN /\ held' = <<>>
          /\ replayPc' = "recv"
     ELSE /\ held' = held
          /\ replayPc' = "send"
  /\ UNCHANGED <<chain, txs, call, txChannel, forwarding, replayQueue, replays>>

(* Mutant: the count is compared once too late.                            *)
ReplaySendOnceMore ==
  /\ replayPc = "send"
  /\ LET e == held[1]
     IN /\ replays' = [replays EXCEPT ![e.req] = @ + 1]
        /\ replayQueue' =
             IF e.count <= MaxReplay
             THEN Append(replayQueue, [e EXCEPT !.count = @ + 1, !.wait = Offset])
             ELSE replayQueue
  /\ held' = <<>>
  /\ replayPc' = "recv"
  /\ UNCHANGED <<chain, txs, call, txChannel, forwarding>>

(* The transaction is sent, and queued again unless its count is used up.  *)
ReplaySend ==
  /\ replayPc = "send"
  /\ LET e == held[1]
     IN /\ replays' = [replays EXCEPT ![e.req] = @ + 1]
        /\ replayQueue' =
             IF e.count < MaxReplay
             THEN Append(replayQueue, [req   |-> e.req,
                                       count |-> e.count + 1,
                                       wait  |-> Offset * (e.count + 1)])
             ELSE replayQueue
  /\ held' = <<>>
  /\ replayPc' = "recv"
  /\ UNCHANGED <<chain, txs, call, txChannel, forwarding>>

----------------------------------------------------------------------------
(* The block task: update_status with the commitment of the block that     *)
(* holds t.  A stream announces t at rising commitments; one seen as       *)
(* processed in a fork may be so again in another block, or never more.    *)
UpdateStatus(t, c) ==
  /\ c > noticed[t] \/ (c = Processed /\ noticed[t] = Processed)
  /\ txs' = [txs EXCEPT ![t] = c]
  /\ noticed' = [noticed EXCEPT ![t] = c]
  /\ UNCHANGED <<height, finalized, call, txChannel, forwarding, replayer>>

NewBlock ==
  /\ height < MaxHeight
  /\ height' = height + 1
  /\ UNCHANGED <<finalized, txs, call, txChannel, forwarding, noticed, replayer>>

FinalizeBlock ==
  /\ finalized < height
  /\ finalized' = finalized + 1
  /\ UNCHANGED <<height, txs, call, txChannel, forwarding, noticed, replayer>>

(* Mutant: off by one at the last height of a transaction.                 *)
CleanOffByOne(h) ==
  /\ txs' = [t \in Tx |-> IF LastValid[t] > h THEN txs[t] ELSE Absent]
  /\ UNCHANGED <<chain, call, txChannel, forwarding, replayer>>

(* DataCache::clean: the finalized height h was read some time ago.        *)
Clean(h) ==
  /\ txs' = [t \in Tx |-> IF LastValid[t] >= h THEN txs[t] ELSE Absent]
  /\ UNCHANGED <<chain, call, txChannel, forwarding, replayer>>

Elapse(e) == [e EXCEPT !.wait = IF @ > 0 THEN @ - 1 ELSE 0]

(* Time passes.                                                            *)
Tick ==
  /\ replayQueue' = [i \in DOMAIN replayQueue |-> Elapse(replayQueue[i])]
  /\ held' = [i \in DOMAIN held |-> Elapse(held[i])]
  /\ UNCHANGED <<chain, txs, call, txChannel, forwarding, replayPc, replays>>

----------------------------------------------------------------------------
Submit(r) == Lookup(r) \/ SendToChannel(r) \/ SendToReplay(r)
TxSender  == ForwardInsert \/ ForwardSend
Replayer  == ReplayRequeue \/ ReplayTake \/ ReplayCheck \/ ReplaySend
BlockTask == \E t \in Tx, c \in Landed : UpdateStatus(t, c)
Chain     == NewBlock \/ FinalizeBlock
Cleaning  == \E h \in 0 .. MaxHeight : h <= finalized /\ Clean(h)

Next ==
  \/ \E r \in Request : Submit(r)
  \/ TxSender
  \/ Replayer
  \/ BlockTask
  \/ Chain
  \/ Cleaning
  \/ Tick

Spec == Init /\ [][Next]_vars

(* The runtime polls every ready task, and time passes; blocks, landings   *)
(* and the cleaner are not relied upon.                                    *)
Fairness ==
  /\ \A r \in Request : WF_vars(Submit(r))
  /\ WF_vars(TxSender)
  /\ WF_vars(Replayer)
  /\ WF_vars(Tick)

FairSpec == Spec /\ Fairness

----------------------------------------------------------------------------
(* Every call, once begun, is being served or has its answer.              *)
Calls == {"lookup", "refused", "channel", "replay", "accepted"}

TypeOK ==
  /\ height \in 0 .. MaxHeight
  /\ finalized \in 0 .. height
  /\ txs \in [Tx -> {Absent, Sent} \union Landed]
  /\ call \in [Request -> Calls]
  /\ txChannel \in Seq(Tx)
  /\ forwarding \in {<<>>} \union {<<t>> : t \in Tx}
  /\ replayQueue \in Seq(Entry)
  /\ held \in {<<>>} \union {<<e>> : e \in Entry}
  /\ replayPc \in {"recv", "check", "send"}
  /\ noticed \in [Tx -> {Absent} \union Landed]
  /\ replays \in [Request -> Nat]

(* The entries of the replay loop, wherever they are.                      *)
InLoop(r) ==
  \/ \E i \in DOMAIN replayQueue : replayQueue[i].req = r
  \/ held # <<>> /\ held[1].req = r

(* A request has at most one entry in the replay loop, so that it is never *)
(* replayed at twice the rate, and none before it is accepted.             *)
OneEntryPerRequest ==
  /\ \A i, j \in DOMAIN replayQueue :
       replayQueue[i].req = replayQueue[j].req => i = j
  /\ held # <<>> =>
       \A i \in DOMAIN replayQueue : replayQueue[i].req # held[1].req
  /\ \A r \in Request : InLoop(r) => call[r] = "accepted"

(* An accepted transaction that no block has shown and that may still land *)
(* is in the replay loop, until it has been replayed to the full.          *)
NeverGivenUpEarly ==
  \A r \in Request :
    /\ call[r] = "accepted"
    /\ noticed[TxOf[r]] = Absent
    /\ height <= LastValid[TxOf[r]]
    => InLoop(r) \/ replays[r] = MaxReplay + 1

(* The count carried by an entry is the number of replays made, which the  *)
(* entry's end bounds: it is compared after the send, so that there is one *)
(* replay more than max_replay.                                            *)
ReplaysAreCounted ==
  /\ \A i \in DOMAIN replayQueue :
       replayQueue[i].count = replays[replayQueue[i].req]
  /\ held # <<>> => held[1].count = replays[held[1].req]
  /\ \A r \in Request : replays[r] <= MaxReplay + 1

(* "They will be replayed max_replay times".                               *)
ReplayedAsTold == \A r \in Request : replays[r] <= MaxReplay

(* The store keeps track of every transaction TxSender has taken from the  *)
(* channel until it has expired.                                           *)
TrackedUntilExpired ==
  \A r \in Request :
    LET t == TxOf[r]
    IN /\ call[r] \in {"replay", "accepted"}
       /\ \A i \in DOMAIN txChannel : txChannel[i] # t
       /\ finalized <= LastValid[t]
       => txs[t] # Absent

(* Every accepted request leaves the replay loop for good: it does not     *)
(* wait behind others for ever, nor go round without being looked at.      *)
LoopIsLeft ==
  \A r \in Request : call[r] = "accepted" ~> (call[r] = "accepted" /\ ~InLoop(r))

(* A caller blocked by a full channel gets its answer in the end.          *)
SubmitsReturn ==
  \A r \in Request : <>(call[r] \in {"accepted", "refused"})

(* "It will replay transaction sent to the cluster if they are not         *)
(* confirmed": none is given up that is only processed and not expired.    *)
(* It is, when a block of a fork had it: no run checks this.               *)
NeverGivenUpUnconfirmed ==
  \A r \in Request :
    /\ call[r] = "accepted"
    /\ noticed[TxOf[r]] < Confirmed
    /\ height <= LastValid[TxOf[r]]
    => InLoop(r) \/ replays[r] >= MaxReplay

(* "keep a track of confirmed transactions": what is known to be confirmed *)
(* stays so until it has expired.  The sender forgets it: no run checks    *)
(* this.                                                                   *)
ConfirmedIsKept ==
  \A t \in Tx : noticed[t] >= Confirmed /\ finalized <= LastValid[t]
               => txs[t] >= Confirmed
=============================================================================
