---------------------- MODULE TransactionPipelineProofs ----------------------
(***************************************************************************)
(* Proofs, for any requests, transactions, retry counts, queue sizes and   *)
(* heights, of the safety invariants of TransactionPipeline.               *)
(***************************************************************************)
EXTENDS TransactionPipeline, SequenceTheorems, TLAPS

(* The replayer holds an entry exactly while it works on one.              *)
HeldWhileWorking == held # <<>> <=> replayPc # "recv"

(* No request is replayed before it is accepted.                           *)
FreshUntilAccepted == \A r \in Request : call[r] # "accepted" => replays[r] = 0

(* A status comes from a block.                                            *)
LandedWasNoticed == \A t \in Tx : txs[t] \in Landed => noticed[t] # Absent

IInv ==
  /\ TypeOK
  /\ HeldWhileWorking
  /\ FreshUntilAccepted
  /\ LandedWasNoticed
  /\ OneEntryPerRequest
  /\ ReplaysAreCounted
  /\ NeverGivenUpEarly
  /\ TrackedUntilExpired

USE PipelineAssumption DEF Absent, Sent, Processed, Confirmed, Finalized, Landed

----------------------------------------------------------------------------
(* Queues                                                                  *)

LEMMA AppendFacts ==
  ASSUME NEW S, NEW q \in Seq(S), NEW e \in S
  PROVE  /\ Append(q, e) \in Seq(S)
         /\ DOMAIN q = 1 .. Len(q)
         /\ DOMAIN Append(q, e) = 1 .. Len(q) + 1
         /\ Len(q) \in Nat
         /\ \A i \in 1 .. Len(q) : Append(q, e)[i] = q[i]
         /\ Append(q, e)[Len(q) + 1] = e
  OBVIOUS

LEMMA TailFacts ==
  ASSUME NEW S, NEW q \in Seq(S), q # <<>>
  PROVE  /\ Tail(q) \in Seq(S)
         /\ Head(q) \in S
         /\ Head(q) = q[1]
         /\ Len(q) \in Nat \ {0}
         /\ DOMAIN q = 1 .. Len(q)
         /\ DOMAIN Tail(q) = 1 .. Len(q) - 1
         /\ \A i \in 1 .. Len(q) - 1 : Tail(q)[i] = q[i + 1]
  OBVIOUS

(* Moving the head of a queue to its end permutes it.                      *)
LEMMA RotateFacts ==
  ASSUME NEW S, NEW q \in Seq(S), q # <<>>
  PROVE  /\ Append(Tail(q), Head(q)) \in Seq(S)
         /\ DOMAIN Append(Tail(q), Head(q)) = 1 .. Len(q)
         /\ DOMAIN q = 1 .. Len(q)
         /\ Len(q) \in Nat \ {0}
         /\ \A i \in 1 .. Len(q) - 1 : Append(Tail(q), Head(q))[i] = q[i + 1]
         /\ Append(Tail(q), Head(q))[Len(q)] = q[1]
<1> DEFINE t == Tail(q)
           e == Head(q)
<1>1. /\ t \in Seq(S) /\ e \in S /\ e = q[1]
      /\ Len(q) \in Nat \ {0} /\ DOMAIN q = 1 .. Len(q)
      /\ DOMAIN t = 1 .. Len(q) - 1
      /\ \A i \in 1 .. Len(q) - 1 : t[i] = q[i + 1]
  BY TailFacts
<1>2. Len(t) = Len(q) - 1
  BY <1>1
<1>3. /\ Append(t, e) \in Seq(S)
      /\ DOMAIN Append(t, e) = 1 .. Len(t) + 1
      /\ \A i \in 1 .. Len(t) : Append(t, e)[i] = t[i]
      /\ Append(t, e)[Len(t) + 1] = e
  BY <1>1, AppendFacts
<1> HIDE DEF t, e
<1>4. \A i \in 1 .. Len(q) - 1 : Append(t, e)[i] = q[i + 1]
  BY <1>1, <1>2, <1>3
<1>5. Len(t) + 1 = Len(q)
  BY <1>1, <1>2
<1>6. DOMAIN Append(t, e) = 1 .. Len(q) /\ Append(t, e)[Len(q)] = q[1]
  BY <1>1, <1>3, <1>5, Zenon
<1> QED
  BY <1>1, <1>3, <1>4, <1>6 DEF t, e

(* A function on 1 .. n with values in S is a sequence over S.             *)
LEMMA MapFacts ==
  ASSUME NEW S, NEW q \in Seq(S), NEW f, f \in [DOMAIN q -> S]
  PROVE  f \in Seq(S) /\ DOMAIN f = DOMAIN q
<1>1. Len(q) \in Nat /\ DOMAIN q = 1 .. Len(q)
  OBVIOUS
<1>2. f \in [1 .. Len(q) -> S]
  BY <1>1
<1>3. Seq(S) = UNION {[1 .. n -> S] : n \in Nat}
  BY SeqDef
<1>4. f \in Seq(S)
  BY <1>1, <1>2, <1>3, Zenon
<1> QED
  BY <1>4

----------------------------------------------------------------------------
(* Types                                                                   *)

(* An entry that is queued again is due after retry_offset * count.        *)
LEMMA NextEntryType ==
  ASSUME NEW e \in Entry, e.count < MaxReplay
  PROVE  [req |-> e.req, count |-> e.count + 1, wait |-> Offset * (e.count + 1)] \in Entry
<1>1. e.count + 1 \in 0 .. MaxReplay /\ e.count + 1 <= MaxReplay + 1
  BY DEF Entry
<1>2. \A k \in Nat, m \in Nat, o \in Nat : k <= m => o * k <= o * m /\ o * k \in Nat
  OBVIOUS
<1>3. Offset * (e.count + 1) \in 0 .. Offset * (MaxReplay + 1)
  BY <1>1, <1>2
<1> QED
  BY <1>1, <1>3 DEF Entry

LEMMA FirstEntryType ==
  ASSUME NEW r \in Request
  PROVE  [req |-> r, count |-> 0, wait |-> Offset] \in Entry
<1>1. \A k \in Nat \ {0}, o \in Nat : o <= o * k /\ o * k \in Nat
  OBVIOUS
<1>2. Offset \in 0 .. Offset * (MaxReplay + 1)
  BY <1>1
<1> QED
  BY <1>2 DEF Entry

LEMMA ElapseType ==
  ASSUME NEW e \in Entry
  PROVE  Elapse(e) \in Entry /\ Elapse(e).req = e.req /\ Elapse(e).count = e.count
<1>1. Offset * (MaxReplay + 1) \in Nat
  OBVIOUS
<1> DEFINE top == Offset * (MaxReplay + 1)
<1> HIDE DEF top
<1>2. e \in [req : Request, count : 0 .. MaxReplay, wait : 0 .. top]
  BY DEF Entry, top
<1>3. Elapse(e) \in [req : Request, count : 0 .. MaxReplay, wait : 0 .. top]
  BY <1>1, <1>2 DEF Elapse, top
<1>4. Elapse(e).req = e.req /\ Elapse(e).count = e.count
  BY <1>2 DEF Elapse
<1> QED
  BY <1>3, <1>4 DEF Entry, top

LEMMA InitType == Init => TypeOK
<1> SUFFICES ASSUME Init PROVE TypeOK
  OBVIOUS
<1>1. <<>> \in Seq(Tx) /\ <<>> \in Seq(Entry)
  OBVIOUS
<1> QED
  BY <1>1 DEF Init, TypeOK, Calls

LEMMA StepType == TypeOK /\ HeldWhileWorking /\ [Next]_vars => TypeOK'
<1> SUFFICES ASSUME TypeOK, HeldWhileWorking, [Next]_vars PROVE TypeOK'
  OBVIOUS
<1> USE DEF TypeOK
<1>1. ASSUME NEW r \in Request, Lookup(r) PROVE TypeOK'
  BY <1>1 DEF Lookup, chain, replayer, Calls
<1>2. ASSUME NEW r \in Request, SendToChannel(r) PROVE TypeOK'
  <2>1. TxOf[r] \in Tx
    OBVIOUS
  <2>2. txChannel' \in Seq(Tx)
    BY <1>2, <2>1, AppendFacts DEF SendToChannel
  <2> QED
    BY <1>2, <2>2 DEF SendToChannel, chain, replayer, Calls
<1>3. ASSUME NEW r \in Request, SendToReplay(r) PROVE TypeOK'
  <2>1. replayQueue' \in Seq(Entry)
    BY <1>3, FirstEntryType, AppendFacts DEF SendToReplay
  <2> QED
    BY <1>3, <2>1 DEF SendToReplay, chain, Calls
<1>4. ASSUME ForwardInsert PROVE TypeOK'
  <2>1. Head(txChannel) \in Tx /\ Tail(txChannel) \in Seq(Tx)
    BY <1>4, TailFacts DEF ForwardInsert
  <2> QED
    BY <1>4, <2>1 DEF ForwardInsert, chain, replayer
<1>5. ASSUME ForwardSend PROVE TypeOK'
  BY <1>5 DEF ForwardSend, chain, replayer
<1>6. ASSUME ReplayRequeue PROVE TypeOK'
  <2>1. replayQueue' \in Seq(Entry)
    BY <1>6, RotateFacts DEF ReplayRequeue
  <2> QED
    BY <1>6, <2>1 DEF ReplayRequeue, chain
<1>7. ASSUME ReplayTake PROVE TypeOK'
  <2>1. Head(replayQueue) \in Entry /\ Tail(replayQueue) \in Seq(Entry)
    BY <1>7, TailFacts DEF ReplayTake
  <2> QED
    BY <1>7, <2>1 DEF ReplayTake, chain
<1>8. ASSUME ReplayCheck PROVE TypeOK'
  BY <1>8 DEF ReplayCheck, chain
<1>9. ASSUME ReplaySend PROVE TypeOK'
  <2> DEFINE e == held[1]
  <2>1. e \in Entry
    BY <1>9 DEF ReplaySend, HeldWhileWorking
  <2>2. replayQueue' \in Seq(Entry)
    BY <1>9, <2>1, NextEntryType, AppendFacts DEF ReplaySend
  <2>3. replays' = [replays EXCEPT ![e.req] = replays[e.req] + 1] /\ e.req \in Request
    BY <1>9, <2>1 DEF ReplaySend, Entry
  <2>4. \A n \in Nat : n + 1 \in Nat
    OBVIOUS
  <2>5. replays' \in [Request -> Nat]
    BY <2>3, <2>4, Zenon
  <2> QED
    BY <1>9, <2>2, <2>5 DEF ReplaySend, chain
<1>10. ASSUME NEW t \in Tx, NEW c \in Landed, UpdateStatus(t, c) PROVE TypeOK'
  BY <1>10 DEF UpdateStatus, replayer
<1>11. ASSUME NewBlock PROVE TypeOK'
  BY <1>11 DEF NewBlock, replayer
<1>12. ASSUME FinalizeBlock PROVE TypeOK'
  BY <1>12 DEF FinalizeBlock, replayer
<1>13. ASSUME NEW h \in 0 .. MaxHeight, Clean(h) PROVE TypeOK'
  BY <1>13 DEF Clean, chain, replayer
<1>14. ASSUME Tick PROVE TypeOK'
  <2>1. \A i \in DOMAIN replayQueue : Elapse(replayQueue[i]) \in Entry
    BY ElapseType
  <2>2. replayQueue' \in Seq(Entry)
    BY <1>14, <2>1, MapFacts DEF Tick
  <2>3. held' \in {<<>>} \union {<<e>> : e \in Entry}
    <3>1. CASE held = <<>>
      BY <1>14, <3>1 DEF Tick
    <3>2. CASE held # <<>>
      <4>1. held[1] \in Entry /\ held = <<held[1]>>
        BY <3>2
      <4>2. held' = <<Elapse(held[1])>>
        BY <1>14, <4>1 DEF Tick
      <4> QED
        BY <4>1, <4>2, ElapseType
    <3> QED
      BY <3>1, <3>2
  <2> QED
    BY <1>14, <2>2, <2>3 DEF Tick, chain
<1>15. ASSUME UNCHANGED vars PROVE TypeOK'
  BY <1>15 DEF vars
<1> QED
  BY <1>1, <1>2, <1>3, <1>4, <1>5, <1>6, <1>7, <1>8, <1>9, <1>10, <1>11,
     <1>12, <1>13, <1>14, <1>15
     DEF Next, Submit, TxSender, Replayer, BlockTask, Chain, Cleaning

----------------------------------------------------------------------------
(* What the steps of the replay loop do to its entries                     *)

(* Held is empty or one entry.                                             *)
LEMMA HeldShape ==
  ASSUME TypeOK, held # <<>>
  PROVE  held[1] \in Entry /\ held = <<held[1]>> /\ held[1].req \in Request
  BY DEF TypeOK, Entry

LEMMA QueueShape ==
  ASSUME TypeOK
  PROVE  /\ DOMAIN replayQueue = 1 .. Len(replayQueue)
         /\ Len(replayQueue) \in Nat
         /\ \A i \in DOMAIN replayQueue :
              replayQueue[i] \in Entry /\ replayQueue[i].req \in Request
<1>1. replayQueue \in Seq(Entry)
  BY DEF TypeOK
<1>2. DOMAIN replayQueue = 1 .. Len(replayQueue) /\ Len(replayQueue) \in Nat
  BY <1>1
<1>3. \A i \in DOMAIN replayQueue : replayQueue[i] \in Entry
  BY <1>1
<1>4. \A e \in Entry : e.req \in Request
  BY DEF Entry
<1> QED
  BY <1>2, <1>3, <1>4

(* Time leaves every entry its request and its count.                      *)
LEMMA TickFacts ==
  ASSUME TypeOK, Tick
  PROVE  /\ DOMAIN replayQueue' = DOMAIN replayQueue
         /\ \A i \in DOMAIN replayQueue :
              /\ replayQueue'[i].req = replayQueue[i].req
              /\ replayQueue'[i].count = replayQueue[i].count
         /\ held' = <<>> <=> held = <<>>
         /\ held # <<>> => held'[1].req = held[1].req /\ held'[1].count = held[1].count
<1>1. \A i \in DOMAIN replayQueue :
        replayQueue'[i].req = replayQueue[i].req /\ replayQueue'[i].count = replayQueue[i].count
  BY QueueShape, ElapseType DEF Tick
<1>2. held = <<>> => held' = <<>>
  BY DEF Tick
<1>3. ASSUME held # <<>>
      PROVE  held' # <<>> /\ held'[1].req = held[1].req /\ held'[1].count = held[1].count
  <2>1. held[1] \in Entry /\ held = <<held[1]>>
    BY <1>3, HeldShape
  <2>2. held' = <<Elapse(held[1])>>
    BY <2>1 DEF Tick
  <2> QED
    BY <2>1, <2>2, ElapseType
<1> QED
  BY <1>1, <1>2, <1>3 DEF Tick

LEMMA StepHeld == TypeOK /\ HeldWhileWorking /\ [Next]_vars => HeldWhileWorking'
<1> SUFFICES ASSUME TypeOK, HeldWhileWorking, [Next]_vars PROVE HeldWhileWorking'
  OBVIOUS
<1> USE DEF HeldWhileWorking
<1>1. ASSUME ReplayTake PROVE HeldWhileWorking'
  BY <1>1 DEF ReplayTake
<1>2. ASSUME ReplayCheck PROVE HeldWhileWorking'
  BY <1>2 DEF ReplayCheck
<1>3. ASSUME ReplaySend PROVE HeldWhileWorking'
  BY <1>3 DEF ReplaySend
<1>4. ASSUME Tick PROVE HeldWhileWorking'
  BY <1>4, TickFacts DEF Tick
<1>5. ASSUME UNCHANGED <<held, replayPc>> PROVE HeldWhileWorking'
  BY <1>5
<1> QED
  BY <1>1, <1>2, <1>3, <1>4, <1>5
     DEF Next, Submit, TxSender, Replayer, BlockTask, Chain, Cleaning, Lookup,
         SendToChannel, SendToReplay, ForwardInsert, ForwardSend, ReplayRequeue,
         UpdateStatus, NewBlock, FinalizeBlock, Clean, replayer, vars

LEMMA StepLanded == TypeOK /\ LandedWasNoticed /\ [Next]_vars => LandedWasNoticed'
<1> SUFFICES ASSUME TypeOK, LandedWasNoticed, [Next]_vars PROVE LandedWasNoticed'
  OBVIOUS
<1> USE DEF LandedWasNoticed
<1>1. ASSUME ForwardInsert PROVE LandedWasNoticed'
  <2>1. Head(txChannel) \in Tx
    BY <1>1, TailFacts DEF ForwardInsert, TypeOK
  <2> QED
    BY <1>1, <2>1 DEF ForwardInsert, TypeOK, chain
<1>2. ASSUME NEW t \in Tx, NEW c \in Landed, UpdateStatus(t, c) PROVE LandedWasNoticed'
  BY <1>2 DEF UpdateStatus, TypeOK
<1>3. ASSUME NEW h \in 0 .. MaxHeight, Clean(h) PROVE LandedWasNoticed'
  BY <1>3 DEF Clean, TypeOK, chain
<1>4. ASSUME UNCHANGED <<txs, noticed>> PROVE LandedWasNoticed'
  BY <1>4
<1> QED
  BY <1>1, <1>2, <1>3, <1>4
     DEF Next, Submit, TxSender, Replayer, BlockTask, Chain, Cleaning, Lookup,
         SendToChannel, SendToReplay, ForwardSend, ReplayRequeue, ReplayTake,
         ReplayCheck, ReplaySend, NewBlock, FinalizeBlock, Tick, chain, vars

LEMMA StepFresh ==
  TypeOK /\ HeldWhileWorking /\ FreshUntilAccepted /\ OneEntryPerRequest /\ [Next]_vars
  => FreshUntilAccepted'
<1> SUFFICES ASSUME TypeOK, HeldWhileWorking, FreshUntilAccepted, OneEntryPerRequest,
                    [Next]_vars
             PROVE  FreshUntilAccepted'
  OBVIOUS
<1> USE DEF FreshUntilAccepted
<1>1. ASSUME NEW r \in Request, Submit(r) PROVE FreshUntilAccepted'
  BY <1>1 DEF Submit, Lookup, SendToChannel, SendToReplay, replayer, TypeOK
<1>2. ASSUME ReplaySend PROVE FreshUntilAccepted'
  <2>1. held # <<>> /\ held[1].req \in Request
    BY <1>2, HeldShape DEF ReplaySend, HeldWhileWorking
  <2>2. call[held[1].req] = "accepted"
    BY <2>1 DEF OneEntryPerRequest, InLoop
  <2> QED
    BY <1>2, <2>1, <2>2 DEF ReplaySend, TypeOK
<1>3. ASSUME UNCHANGED <<call, replays>> PROVE FreshUntilAccepted'
  BY <1>3
<1> QED
  BY <1>1, <1>2, <1>3
     DEF Next, TxSender, Replayer, BlockTask, Chain, Cleaning, ForwardInsert,
         ForwardSend, ReplayRequeue, ReplayTake, ReplayCheck, UpdateStatus,
         NewBlock, FinalizeBlock, Clean, Tick, replayer, vars

(* The steps of the replay loop; no other changes its state.               *)
LEMMA LoopStep ==
  ASSUME [Next]_vars
  PROVE  \/ \E r \in Request : SendToReplay(r)
         \/ ReplayRequeue
         \/ ReplayTake
         \/ ReplayCheck
         \/ ReplaySend
         \/ Tick
         \/ UNCHANGED replayer
  BY DEF Next, Submit, TxSender, Replayer, BlockTask, Chain, Cleaning, Lookup,
         SendToChannel, ForwardInsert, ForwardSend, UpdateStatus, NewBlock,
         FinalizeBlock, Clean, vars, replayer

(* A request that is accepted stays so.                                    *)
LEMMA AcceptedStays ==
  ASSUME TypeOK, [Next]_vars, NEW r \in Request, call[r] = "accepted"
  PROVE  call'[r] = "accepted"
  BY DEF TypeOK, Next, Submit, TxSender, Replayer, BlockTask, Chain, Cleaning,
         Lookup, SendToChannel, SendToReplay, ForwardInsert, ForwardSend,
         ReplayRequeue, ReplayTake, ReplayCheck, ReplaySend, UpdateStatus,
         NewBlock, FinalizeBlock, Clean, Tick, vars, replayer

(* The entries that a step leaves in the loop were there before, except    *)
(* for the one that SendToReplay queues.                                   *)
LEMMA StepOneEntry ==
  TypeOK /\ HeldWhileWorking /\ OneEntryPerRequest /\ [Next]_vars => OneEntryPerRequest'
<1> SUFFICES ASSUME TypeOK, HeldWhileWorking, OneEntryPerRequest, [Next]_vars
             PROVE  OneEntryPerRequest'
  OBVIOUS
<1> DEFINE q == replayQueue
           n == Len(replayQueue)
<1>1. /\ n \in Nat /\ DOMAIN q = 1 .. n
      /\ \A i \in 1 .. n : q[i] \in Entry /\ q[i].req \in Request
      /\ q \in Seq(Entry)
  BY QueueShape DEF TypeOK
<1>2. /\ \A i, j \in 1 .. n : q[i].req = q[j].req => i = j
      /\ held # <<>> => \A i \in 1 .. n : q[i].req # held[1].req
      /\ \A i \in 1 .. n : call[q[i].req] = "accepted"
      /\ held # <<>> => call[held[1].req] = "accepted"
  BY <1>1, HeldShape DEF OneEntryPerRequest, InLoop
<1>3. ASSUME NEW m \in Nat,
             DOMAIN q' = 1 .. m,
             \A i, j \in 1 .. m : q'[i].req = q'[j].req => i = j,
             held' # <<>> => \A i \in 1 .. m : q'[i].req # held'[1].req,
             \A i \in 1 .. m : call'[q'[i].req] = "accepted",
             held' # <<>> => call'[held'[1].req] = "accepted"
      PROVE  OneEntryPerRequest'
  BY <1>3 DEF OneEntryPerRequest, InLoop
<1>4. \A r \in Request : call[r] = "accepted" => call'[r] = "accepted"
  BY AcceptedStays
<1>5. ASSUME NEW r \in Request, SendToReplay(r) PROVE OneEntryPerRequest'
  <2> DEFINE new == [req |-> r, count |-> 0, wait |-> Offset]
  <2>1. /\ DOMAIN q' = 1 .. n + 1
        /\ \A i \in 1 .. n : q'[i] = q[i]
        /\ q'[n + 1] = new
    BY <1>1, <1>5, FirstEntryType, AppendFacts DEF SendToReplay
  <2>2. new.req = r /\ call[r] = "replay" /\ call'[r] = "accepted" /\ held' = held
    BY <1>5 DEF SendToReplay, TypeOK
  <2>3. \A i \in 1 .. n : q[i].req # r
    BY <1>2, <2>2
  <2>4. held # <<>> => held[1].req # r /\ held[1].req \in Request
    BY <1>2, <2>2, HeldShape
  <2> HIDE DEF q, n, new
  <2>5. \A i \in 1 .. n + 1 : i \in 1 .. n \/ i = n + 1
    BY <1>1
  <2>6. \A i, j \in 1 .. n + 1 : q'[i].req = q'[j].req => i = j
    BY <1>1, <1>2, <2>1, <2>2, <2>3, <2>5
  <2>7. held' # <<>> => \A i \in 1 .. n + 1 : q'[i].req # held'[1].req
    BY <1>1, <1>2, <2>1, <2>2, <2>4, <2>5
  <2>8. \A i \in 1 .. n + 1 : call'[q'[i].req] = "accepted"
    BY <1>1, <1>2, <1>4, <2>1, <2>2, <2>5
  <2>9. held' # <<>> => call'[held'[1].req] = "accepted"
    BY <1>2, <1>4, <2>2, <2>4
  <2>10. n + 1 \in Nat
    BY <1>1
  <2> QED
    BY <1>3, <2>1, <2>6, <2>7, <2>8, <2>9, <2>10
<1>6. ASSUME ReplayRequeue PROVE OneEntryPerRequest'
  <2>1. /\ DOMAIN q' = 1 .. n
        /\ \A i \in 1 .. n - 1 : q'[i] = q[i + 1]
        /\ q'[n] = q[1]
        /\ n \in Nat \ {0}
        /\ UNCHANGED <<held, call>>
    BY <1>1, <1>6, RotateFacts DEF ReplayRequeue
  <2> HIDE DEF q, n
  <2>2. \A i \in 1 .. n : (i \in 1 .. n - 1 /\ i + 1 \in 2 .. n) \/ i = n
    BY <2>1
  <2>3. \A i \in 1 .. n - 1, j \in 1 .. n - 1 : i + 1 = j + 1 => i = j
    BY <2>1
  <2>4. 1 \in 1 .. n /\ \A i \in 2 .. n : i \in 1 .. n /\ i # 1
    BY <2>1
  <2>5. \A i, j \in 1 .. n : q'[i].req = q'[j].req => i = j
    BY <1>2, <2>1, <2>2, <2>3, <2>4
  <2>6. held' # <<>> => \A i \in 1 .. n : q'[i].req # held'[1].req
    BY <1>2, <2>1, <2>2, <2>4
  <2>7. \A i \in 1 .. n : call'[q'[i].req] = "accepted"
    BY <1>2, <2>1, <2>2, <2>4
  <2> QED
    BY <1>1, <1>2, <1>3, <2>1, <2>5, <2>6, <2>7
<1>7. ASSUME ReplayTake PROVE OneEntryPerRequest'
  <2>1. /\ n \in Nat \ {0}
        /\ DOMAIN q' = 1 .. n - 1
        /\ \A i \in 1 .. n - 1 : q'[i] = q[i + 1]
        /\ held' = <<q[1]>> /\ held'[1] = q[1]
        /\ call' = call
    BY <1>1, <1>7, TailFacts DEF ReplayTake
  <2> HIDE DEF q, n
  <2>2. n - 1 \in Nat /\ 1 \in 1 .. n
        /\ \A i \in 1 .. n - 1 : i + 1 \in 1 .. n /\ i + 1 # 1
    BY <2>1
  <2>3. \A i, j \in 1 .. n - 1 : i + 1 = j + 1 => i = j
    BY <2>1
  <2>4. \A i, j \in 1 .. n - 1 : q'[i].req = q'[j].req => i = j
    <3> SUFFICES ASSUME NEW i \in 1 .. n - 1, NEW j \in 1 .. n - 1, q'[i].req = q'[j].req
                 PROVE  i = j
      OBVIOUS
    <3>1. q'[i] = q[i + 1] /\ q'[j] = q[j + 1]
      BY <2>1
    <3>2. q[i + 1].req = q[j + 1].req
      BY <3>1
    <3>3. i + 1 \in 1 .. n /\ j + 1 \in 1 .. n
      BY <2>2
    <3>4. i + 1 = j + 1
      BY <1>2, <3>2, <3>3
    <3> QED
      BY <2>3, <3>4
  <2>5. \A i \in 1 .. n - 1 : q'[i].req # held'[1].req
    BY <1>2, <2>1, <2>2
  <2>6. call'[held'[1].req] = "accepted"
    BY <1>2, <2>1, <2>2
  <2>7. \A i \in 1 .. n - 1 : call'[q'[i].req] = "accepted"
    <3> SUFFICES ASSUME NEW i \in 1 .. n - 1 PROVE call'[q'[i].req] = "accepted"
      OBVIOUS
    <3>1. q'[i] = q[i + 1] /\ i + 1 \in 1 .. n
      BY <2>1, <2>2
    <3>2. call[q[i + 1].req] = "accepted"
      BY <1>2, <3>1
    <3> QED
      BY <2>1, <3>1, <3>2
  <2> QED
    BY <1>3, <2>1, <2>2, <2>4, <2>5, <2>6, <2>7
<1>8. ASSUME ReplayCheck PROVE OneEntryPerRequest'
  <2>1. q' = q /\ call' = call /\ (held' = held \/ held' = <<>>)
    BY <1>8 DEF ReplayCheck
  <2> HIDE DEF q, n
  <2> QED
    BY <1>1, <1>2, <1>3, <2>1
<1>9. ASSUME ReplaySend PROVE OneEntryPerRequest'
  <2>1. held # <<>> /\ held' = <<>> /\ call' = call
    BY <1>9 DEF ReplaySend, HeldWhileWorking
  <2>2. CASE q' = q
    <3> HIDE DEF q, n
    <3> QED
      BY <1>1, <1>2, <1>3, <2>1, <2>2
  <2>3. CASE q' # q
    <3> DEFINE e   == held[1]
               new == [req |-> e.req, count |-> e.count + 1, wait |-> Offset * (e.count + 1)]
    <3>1. q' = Append(q, new) /\ e.count < MaxReplay
      BY <1>9, <2>3 DEF ReplaySend
    <3>2. new \in Entry /\ new.req = held[1].req
      BY <2>1, <3>1, HeldShape, NextEntryType
    <3> HIDE DEF new
    <3>3. /\ DOMAIN q' = 1 .. n + 1
          /\ \A i \in 1 .. n : q'[i] = q[i]
          /\ q'[n + 1] = new
      BY <1>1, <3>1, <3>2, AppendFacts
    <3> HIDE DEF q, n
    <3>4. n + 1 \in Nat /\ \A i \in 1 .. n + 1 : i \in 1 .. n \/ i = n + 1
      BY <1>1
    <3>5. \A i, j \in 1 .. n + 1 : q'[i].req = q'[j].req => i = j
      BY <1>1, <1>2, <2>1, <3>2, <3>3, <3>4
    <3>6. \A i \in 1 .. n + 1 : call'[q'[i].req] = "accepted"
      BY <1>1, <1>2, <2>1, <3>2, <3>3, <3>4
    <3> QED
      BY <1>3, <2>1, <3>3, <3>4, <3>5, <3>6
  <2> QED
    BY <2>2, <2>3
<1>10. ASSUME Tick PROVE OneEntryPerRequest'
  <2>1. /\ DOMAIN q' = 1 .. n
        /\ \A i \in 1 .. n : q'[i].req = q[i].req
        /\ held' = <<>> <=> held = <<>>
        /\ held # <<>> => held'[1].req = held[1].req
        /\ call' = call
    BY <1>1, <1>10, TickFacts DEF Tick
  <2> HIDE DEF q, n
  <2>2. \A i, j \in 1 .. n : q'[i].req = q'[j].req => i = j
    BY <1>2, <2>1
  <2>3. held' # <<>> => \A i \in 1 .. n : q'[i].req # held'[1].req
    BY <1>2, <2>1
  <2>4. \A i \in 1 .. n : call'[q'[i].req] = "accepted"
    BY <1>2, <2>1
  <2>5. held' # <<>> => call'[held'[1].req] = "accepted"
    BY <1>2, <2>1
  <2> QED
    BY <1>1, <1>3, <2>1, <2>2, <2>3, <2>4, <2>5
<1>11. ASSUME UNCHANGED replayer PROVE OneEntryPerRequest'
  <2>1. q' = q /\ held' = held
    BY <1>11 DEF replayer
  <2>2. held # <<>> => held[1].req \in Request
    BY HeldShape
  <2> HIDE DEF q, n
  <2> QED
    BY <1>1, <1>2, <1>3, <1>4, <2>1, <2>2
<1> QED
  BY <1>5, <1>6, <1>7, <1>8, <1>9, <1>10, <1>11, LoopStep

(* A step counts the replay it makes, and the entry carries the new count. *)
LEMMA StepCounted ==
  TypeOK /\ HeldWhileWorking /\ FreshUntilAccepted /\ OneEntryPerRequest
    /\ ReplaysAreCounted /\ [Next]_vars
  => ReplaysAreCounted'
<1> SUFFICES ASSUME TypeOK, HeldWhileWorking, FreshUntilAccepted, OneEntryPerRequest,
                    ReplaysAreCounted, [Next]_vars
             PROVE  ReplaysAreCounted'
  OBVIOUS
<1> DEFINE q == replayQueue
           n == Len(replayQueue)
<1>1. /\ n \in Nat /\ DOMAIN q = 1 .. n
      /\ \A i \in 1 .. n : q[i] \in Entry /\ q[i].req \in Request
      /\ q \in Seq(Entry)
      /\ replays \in [Request -> Nat]
  BY QueueShape DEF TypeOK
<1>2. /\ \A i \in 1 .. n : q[i].count = replays[q[i].req]
      /\ held # <<>> => held[1].count = replays[held[1].req]
      /\ \A r \in Request : replays[r] <= MaxReplay + 1
  BY <1>1 DEF ReplaysAreCounted
<1>3. ASSUME NEW m \in Nat,
             DOMAIN q' = 1 .. m,
             \A i \in 1 .. m : q'[i].count = replays'[q'[i].req],
             held' # <<>> => held'[1].count = replays'[held'[1].req],
             \A r \in Request : replays'[r] <= MaxReplay + 1
      PROVE  ReplaysAreCounted'
  BY <1>3 DEF ReplaysAreCounted
<1>4. ASSUME NEW r \in Request, SendToReplay(r) PROVE ReplaysAreCounted'
  <2> DEFINE new == [req |-> r, count |-> 0, wait |-> Offset]
  <2>1. /\ DOMAIN q' = 1 .. n + 1
        /\ \A i \in 1 .. n : q'[i] = q[i]
        /\ q'[n + 1] = new
    BY <1>1, <1>4, FirstEntryType, AppendFacts DEF SendToReplay
  <2>2. new.req = r /\ new.count = 0 /\ call[r] # "accepted"
        /\ held' = held /\ replays' = replays
    BY <1>4 DEF SendToReplay
  <2>3. replays[r] = 0
    BY <2>2 DEF FreshUntilAccepted
  <2> HIDE DEF q, n, new
  <2>4. n + 1 \in Nat /\ \A i \in 1 .. n + 1 : i \in 1 .. n \/ i = n + 1
    BY <1>1
  <2>5. \A i \in 1 .. n + 1 : q'[i].count = replays'[q'[i].req]
    BY <1>2, <2>1, <2>2, <2>3, <2>4
  <2> QED
    BY <1>2, <1>3, <2>1, <2>2, <2>4, <2>5
<1>5. ASSUME ReplayRequeue PROVE ReplaysAreCounted'
  <2>1. /\ DOMAIN q' = 1 .. n
        /\ \A i \in 1 .. n - 1 : q'[i] = q[i + 1]
        /\ q'[n] = q[1]
        /\ n \in Nat \ {0}
        /\ UNCHANGED <<held, replays>>
    BY <1>1, <1>5, RotateFacts DEF ReplayRequeue
  <2> HIDE DEF q, n
  <2>2. 1 \in 1 .. n /\ \A i \in 1 .. n : (i \in 1 .. n - 1 /\ i + 1 \in 1 .. n) \/ i = n
    BY <2>1
  <2>3. \A i \in 1 .. n : q'[i].count = replays'[q'[i].req]
    <3> SUFFICES ASSUME NEW i \in 1 .. n PROVE q'[i].count = replays[q'[i].req]
      BY <2>1
    <3>1. CASE i = n
      BY <1>2, <2>1, <2>2, <3>1
    <3>2. CASE i # n
      <4>1. i \in 1 .. n - 1 /\ i + 1 \in 1 .. n
        BY <2>2, <3>2
      <4>2. q'[i] = q[i + 1]
        BY <2>1, <4>1
      <4> QED
        BY <1>2, <4>1, <4>2
    <3> QED
      BY <3>1, <3>2
  <2> QED
    BY <1>1, <1>2, <1>3, <2>1, <2>3
<1>6. ASSUME ReplayTake PROVE ReplaysAreCounted'
  <2>1. /\ n \in Nat \ {0}
        /\ DOMAIN q' = 1 .. n - 1
        /\ \A i \in 1 .. n - 1 : q'[i] = q[i + 1]
        /\ held'[1] = q[1]
        /\ replays' = replays
    BY <1>1, <1>6, TailFacts DEF ReplayTake
  <2> HIDE DEF q, n
  <2>2. n - 1 \in Nat /\ 1 \in 1 .. n /\ \A i \in 1 .. n - 1 : i + 1 \in 1 .. n
    BY <2>1
  <2>3. \A i \in 1 .. n - 1 : q'[i].count = replays'[q'[i].req]
    BY <1>2, <2>1, <2>2
  <2>4. held'[1].count = replays'[held'[1].req]
    BY <1>2, <2>1, <2>2
  <2>5. \A r \in Request : replays'[r] <= MaxReplay + 1
    BY <1>2, <2>1
  <2> QED
    BY <1>3, <2>1, <2>2, <2>3, <2>4, <2>5
<1>7. ASSUME ReplayCheck PROVE ReplaysAreCounted'
  <2>1. q' = q /\ replays' = replays /\ (held' = held \/ held' = <<>>)
    BY <1>7 DEF ReplayCheck
  <2> HIDE DEF q, n
  <2> QED
    BY <1>1, <1>2, <1>3, <2>1
<1>8. ASSUME ReplaySend PROVE ReplaysAreCounted'
  <2> DEFINE e == held[1]
  <2>1. /\ held # <<>> /\ held' = <<>>
        /\ e \in Entry /\ e.req \in Request
    BY <1>8, HeldShape DEF ReplaySend, HeldWhileWorking
  <2>2. replays' = [replays EXCEPT ![e.req] = replays[e.req] + 1]
    BY <1>8 DEF ReplaySend
  <2>3. e.count \in 0 .. MaxReplay /\ e.count = replays[e.req]
    BY <1>2, <2>1 DEF Entry
  <2>4. \A i \in 1 .. n : q[i].req # e.req
    BY <1>1, <2>1 DEF OneEntryPerRequest
  <2>5. replays'[e.req] = e.count + 1
        /\ \A r \in Request : r # e.req => replays'[r] = replays[r]
    BY <1>1, <2>1, <2>2, <2>3
  <2>6. e.count + 1 <= MaxReplay + 1
    BY <2>3
  <2> HIDE DEF e
  <2>7. \A r \in Request : replays'[r] <= MaxReplay + 1
    BY <1>2, <2>5, <2>6
  <2>8. \A i \in 1 .. n : q[i].count = replays'[q[i].req]
    BY <1>1, <1>2, <2>4, <2>5
  <2>9. CASE q' = q
    <3> HIDE DEF q, n
    <3> QED
      BY <1>1, <1>3, <2>1, <2>7, <2>8, <2>9
  <2>10. CASE q' # q
    <3> DEFINE new == [req |-> e.req, count |-> e.count + 1, wait |-> Offset * (e.count + 1)]
    <3>1. q' = Append(q, new) /\ e.count < MaxReplay
      BY <1>8, <2>10 DEF ReplaySend, e
    <3>2. new \in Entry /\ new.req = e.req /\ new.count = e.count + 1
      BY <2>1, <3>1, NextEntryType
    <3> HIDE DEF new
    <3>3. /\ DOMAIN q' = 1 .. n + 1
          /\ \A i \in 1 .. n : q'[i] = q[i]
          /\ q'[n + 1] = new
      BY <1>1, <3>1, <3>2, AppendFacts
    <3> HIDE DEF q, n
    <3>4. n + 1 \in Nat /\ \A i \in 1 .. n + 1 : i \in 1 .. n \/ i = n + 1
      BY <1>1
    <3>5. \A i \in 1 .. n + 1 : q'[i].count = replays'[q'[i].req]
      BY <2>5, <2>8, <3>2, <3>3, <3>4
    <3> QED
      BY <1>3, <2>1, <2>7, <3>3, <3>4, <3>5
  <2> QED
    BY <2>9, <2>10
<1>9. ASSUME Tick PROVE ReplaysAreCounted'
  <2>1. /\ DOMAIN q' = 1 .. n
        /\ \A i \in 1 .. n : q'[i].req = q[i].req /\ q'[i].count = q[i].count
        /\ held' = <<>> <=> held = <<>>
        /\ held # <<>> => held'[1].req = held[1].req /\ held'[1].count = held[1].count
        /\ replays' = replays
    BY <1>1, <1>9, TickFacts DEF Tick
  <2> HIDE DEF q, n
  <2>2. \A i \in 1 .. n : q'[i].count = replays'[q'[i].req]
    BY <1>2, <2>1
  <2>3. held' # <<>> => held'[1].count = replays'[held'[1].req]
    BY <1>2, <2>1
  <2>4. \A r \in Request : replays'[r] <= MaxReplay + 1
    BY <1>2, <2>1
  <2> QED
    BY <1>1, <1>3, <2>1, <2>2, <2>3, <2>4
<1>10. ASSUME UNCHANGED replayer PROVE ReplaysAreCounted'
  <2>1. q' = q /\ held' = held /\ replays' = replays
    BY <1>10 DEF replayer
  <2> HIDE DEF q, n
  <2> QED
    BY <1>1, <1>2, <1>3, <2>1
<1> QED
  BY <1>4, <1>5, <1>6, <1>7, <1>8, <1>9, <1>10, LoopStep

(* An entry stays in the loop unless the check or the last send drops it.  *)
LEMMA StepLoop ==
  ASSUME TypeOK, HeldWhileWorking, [Next]_vars, NEW r \in Request, InLoop(r)
  PROVE  \/ InLoop(r)'
         \/ /\ ReplayCheck
            /\ held[1].req = r
            /\ ConfirmedOrExpired(TxOf[r])
         \/ /\ ReplaySend
            /\ held # <<>>
            /\ held[1].req = r
            /\ held[1].count >= MaxReplay
<1> DEFINE q == replayQueue
           n == Len(replayQueue)
           Dropped == \/ ReplayCheck /\ held[1].req = r /\ ConfirmedOrExpired(TxOf[r])
                      \/ ReplaySend /\ held # <<>> /\ held[1].req = r /\ held[1].count >= MaxReplay
<1>1. /\ n \in Nat /\ DOMAIN q = 1 .. n
      /\ q \in Seq(Entry)
  BY QueueShape DEF TypeOK
<1>2. \/ \E i \in 1 .. n : q[i].req = r
      \/ held # <<>> /\ held[1].req = r
  BY <1>1 DEF InLoop
<1>3. ASSUME NEW m \in Nat, DOMAIN q' = 1 .. m,
             \/ \E i \in 1 .. m : q'[i].req = r
             \/ held' # <<>> /\ held'[1].req = r
      PROVE  InLoop(r)'
  BY <1>3 DEF InLoop
<1>4. ASSUME NEW x \in Request, SendToReplay(x) PROVE InLoop(r)'
  <2>1. /\ DOMAIN q' = 1 .. n + 1
        /\ \A i \in 1 .. n : q'[i] = q[i]
        /\ held' = held
    BY <1>1, <1>4, FirstEntryType, AppendFacts DEF SendToReplay
  <2> HIDE DEF q, n
  <2>2. n + 1 \in Nat /\ \A i \in 1 .. n : i \in 1 .. n + 1
    BY <1>1
  <2>3. \/ \E i \in 1 .. n + 1 : q'[i].req = r
        \/ held' # <<>> /\ held'[1].req = r
    BY <1>2, <2>1, <2>2
  <2> QED
    BY <1>3, <2>1, <2>2, <2>3
<1>5. ASSUME ReplayRequeue PROVE InLoop(r)'
  <2>1. /\ DOMAIN q' = 1 .. n
        /\ \A i \in 1 .. n - 1 : q'[i] = q[i + 1]
        /\ q'[n] = q[1]
        /\ n \in Nat \ {0}
        /\ held' = held
    BY <1>1, <1>5, RotateFacts DEF ReplayRequeue
  <2> HIDE DEF q, n
  <2>2. CASE held # <<>> /\ held[1].req = r
    BY <1>1, <1>3, <2>1, <2>2
  <2>3. ASSUME NEW i \in 1 .. n, q[i].req = r PROVE InLoop(r)'
    <3>1. CASE i = 1
      <4>1. n \in 1 .. n /\ q'[n].req = r
        BY <2>1, <2>3, <3>1
      <4> QED
        BY <1>1, <1>3, <2>1, <4>1
    <3>2. CASE i # 1
      <4>1. i - 1 \in 1 .. n - 1 /\ i - 1 \in 1 .. n /\ (i - 1) + 1 = i
        BY <2>1, <3>2
      <4>2. q'[i - 1].req = r
        BY <2>1, <2>3, <4>1
      <4> QED
        BY <1>1, <1>3, <2>1, <4>1, <4>2
    <3> QED
      BY <3>1, <3>2
  <2> QED
    BY <1>2, <2>2, <2>3
<1>6. ASSUME ReplayTake PROVE InLoop(r)'
  <2>1. /\ n \in Nat \ {0}
        /\ DOMAIN q' = 1 .. n - 1
        /\ \A i \in 1 .. n - 1 : q'[i] = q[i + 1]
        /\ held = <<>>
        /\ held' # <<>> /\ held'[1] = q[1]
    BY <1>1, <1>6, TailFacts DEF ReplayTake, HeldWhileWorking
  <2> HIDE DEF q, n
  <2>2. n - 1 \in Nat
    BY <2>1
  <2>3. ASSUME NEW i \in 1 .. n, q[i].req = r PROVE InLoop(r)'
    <3>1. CASE i = 1
      BY <1>3, <2>1, <2>2, <2>3, <3>1
    <3>2. CASE i # 1
      <4>1. i - 1 \in 1 .. n - 1 /\ (i - 1) + 1 = i
        BY <2>1, <3>2
      <4>2. q'[i - 1].req = r
        BY <2>1, <2>3, <4>1
      <4> QED
        BY <1>3, <2>1, <2>2, <4>1, <4>2
    <3> QED
      BY <3>1, <3>2
  <2> QED
    BY <1>2, <2>1, <2>3
<1>7. ASSUME ReplayCheck PROVE InLoop(r)' \/ Dropped
  <2>1. q' = q
    BY <1>7 DEF ReplayCheck
  <2>2. CASE ConfirmedOrExpired(TxOf[held[1].req])
    <3>1. CASE held # <<>> /\ held[1].req = r
      BY <1>7, <2>2, <3>1
    <3>2. CASE ~(held # <<>> /\ held[1].req = r)
      <4> HIDE DEF q, n
      <4> QED
        BY <1>1, <1>2, <1>3, <2>1, <3>2
    <3> QED
      BY <3>1, <3>2
  <2>3. CASE ~ConfirmedOrExpired(TxOf[held[1].req])
    <3>1. held' = held
      BY <1>7, <2>3 DEF ReplayCheck
    <3> HIDE DEF q, n
    <3> QED
      BY <1>1, <1>2, <1>3, <2>1, <3>1
  <2> QED
    BY <2>2, <2>3
<1>8. ASSUME ReplaySend PROVE InLoop(r)' \/ Dropped
  <2> DEFINE e   == held[1]
             new == [req |-> e.req, count |-> e.count + 1, wait |-> Offset * (e.count + 1)]
  <2>1. held # <<>> /\ e \in Entry
    BY <1>8, HeldShape DEF ReplaySend, HeldWhileWorking
  <2>2. CASE e.count < MaxReplay
    <3>1. q' = Append(q, new)
      BY <1>8, <2>2 DEF ReplaySend
    <3>2. new \in Entry /\ new.req = held[1].req
      BY <2>1, <2>2, NextEntryType
    <3> HIDE DEF new
    <3>3. /\ DOMAIN q' = 1 .. n + 1
          /\ \A i \in 1 .. n : q'[i] = q[i]
          /\ q'[n + 1] = new
      BY <1>1, <3>1, <3>2, AppendFacts
    <3> HIDE DEF q, n
    <3>4. n + 1 \in Nat /\ n + 1 \in 1 .. n + 1 /\ \A i \in 1 .. n : i \in 1 .. n + 1
      BY <1>1
    <3>5. \E i \in 1 .. n + 1 : q'[i].req = r
      BY <1>2, <3>2, <3>3, <3>4
    <3> QED
      BY <1>3, <3>3, <3>4, <3>5
  <2>3. CASE ~(e.count < MaxReplay)
    <3>1. q' = q
      BY <1>8, <2>3 DEF ReplaySend
    <3>2. e.count >= MaxReplay
      BY <2>1, <2>3 DEF Entry
    <3>3. CASE e.req = r
      BY <1>8, <2>1, <3>2, <3>3
    <3>4. CASE e.req # r
      <4> HIDE DEF q, n
      <4> QED
        BY <1>1, <1>2, <1>3, <3>1, <3>4
    <3> QED
      BY <3>3, <3>4
  <2> QED
    BY <2>2, <2>3
<1>9. ASSUME Tick PROVE InLoop(r)'
  <2>1. /\ DOMAIN q' = 1 .. n
        /\ \A i \in 1 .. n : q'[i].req = q[i].req
        /\ held' = <<>> <=> held = <<>>
        /\ held # <<>> => held'[1].req = held[1].req
    BY <1>1, <1>9, TickFacts
  <2> HIDE DEF q, n
  <2> QED
    BY <1>1, <1>2, <1>3, <2>1
<1>10. ASSUME UNCHANGED replayer PROVE InLoop(r)'
  BY <1>10 DEF replayer, InLoop
<1> QED
  BY <1>4, <1>5, <1>6, <1>7, <1>8, <1>9, <1>10, LoopStep

(* What the chain has shown is not taken back.                             *)
LEMMA ChainStep ==
  ASSUME TypeOK, [Next]_vars
  PROVE  /\ height <= height'
         /\ finalized <= finalized'
         /\ \A t \in Tx : noticed'[t] = Absent => noticed[t] = Absent
<1>1. ASSUME NEW t \in Tx, NEW c \in Landed, UpdateStatus(t, c)
      PROVE  /\ height' = height /\ finalized' = finalized
             /\ \A u \in Tx : noticed'[u] = Absent => noticed[u] = Absent
  BY <1>1 DEF UpdateStatus, TypeOK
<1>2. ASSUME NewBlock \/ FinalizeBlock
      PROVE  height <= height' /\ finalized <= finalized' /\ noticed' = noticed
  BY <1>2 DEF NewBlock, FinalizeBlock, TypeOK
<1>3. \/ \E t \in Tx, c \in Landed : UpdateStatus(t, c)
      \/ NewBlock \/ FinalizeBlock
      \/ UNCHANGED chain
  BY DEF Next, Submit, TxSender, Replayer, BlockTask, Chain, Cleaning, Lookup,
         SendToChannel, SendToReplay, ForwardInsert, ForwardSend, ReplayRequeue,
         ReplayTake, ReplayCheck, ReplaySend, Clean, Tick, vars, chain
<1>4. height \in Int /\ finalized \in Int
  BY DEF TypeOK
<1> QED
  BY <1>1, <1>2, <1>3, <1>4 DEF chain

(* The replays made of a request change only when it is replayed.          *)
LEMMA ReplaysStep ==
  ASSUME TypeOK, HeldWhileWorking, [Next]_vars, NEW r \in Request
  PROVE  \/ replays'[r] = replays[r]
         \/ /\ ReplaySend /\ held # <<>> /\ held[1].req = r
            /\ replays'[r] = replays[r] + 1
<1>1. ASSUME ReplaySend
      PROVE  /\ held # <<>>
             /\ replays'[r] = IF held[1].req = r THEN replays[r] + 1 ELSE replays[r]
  <2>1. held # <<>> /\ held[1].req \in Request
    BY <1>1, HeldShape DEF ReplaySend, HeldWhileWorking
  <2> QED
    BY <1>1, <2>1 DEF ReplaySend, TypeOK
<1>2. ReplaySend \/ UNCHANGED replays
  BY LoopStep DEF SendToReplay, ReplayRequeue, ReplayTake, ReplayCheck, Tick, replayer
<1> QED
  BY <1>1, <1>2

(* A request is accepted by queuing its entry.                             *)
LEMMA AcceptStep ==
  ASSUME TypeOK, [Next]_vars, NEW r \in Request,
         call[r] # "accepted", call'[r] = "accepted"
  PROVE  InLoop(r)'
<1>1. SendToReplay(r)
  BY DEF TypeOK, Next, Submit, TxSender, Replayer, BlockTask, Chain, Cleaning,
         Lookup, SendToChannel, SendToReplay, ForwardInsert, ForwardSend,
         ReplayRequeue, ReplayTake, ReplayCheck, ReplaySend, UpdateStatus,
         NewBlock, FinalizeBlock, Clean, Tick, vars, replayer
<1> DEFINE new == [req |-> r, count |-> 0, wait |-> Offset]
<1>2. /\ DOMAIN replayQueue' = 1 .. Len(replayQueue) + 1
      /\ replayQueue'[Len(replayQueue) + 1] = new
      /\ Len(replayQueue) \in Nat
  BY <1>1, FirstEntryType, AppendFacts DEF SendToReplay, TypeOK
<1>3. Len(replayQueue) + 1 \in 1 .. Len(replayQueue) + 1 /\ new.req = r
  BY <1>2
<1> QED
  BY <1>2, <1>3 DEF InLoop

(* An entry is dropped only for a landing, an expiry or the last replay.   *)
LEMMA StepNeverGivenUp ==
  TypeOK /\ HeldWhileWorking /\ LandedWasNoticed /\ ReplaysAreCounted
    /\ NeverGivenUpEarly /\ ReplaysAreCounted' /\ [Next]_vars
  => NeverGivenUpEarly'
<1> SUFFICES ASSUME TypeOK, HeldWhileWorking, LandedWasNoticed, ReplaysAreCounted,
                    NeverGivenUpEarly, ReplaysAreCounted', [Next]_vars,
                    NEW r \in Request,
                    call'[r] = "accepted",
                    noticed'[TxOf[r]] = Absent,
                    height' <= LastValid[TxOf[r]]
             PROVE  InLoop(r)' \/ replays'[r] = MaxReplay + 1
  BY DEF NeverGivenUpEarly
<1> DEFINE t == TxOf[r]
<1>1. t \in Tx
  OBVIOUS
<1>2. noticed[t] = Absent /\ height <= LastValid[t]
  <2>1. LastValid[t] \in Nat /\ height \in Int /\ height' \in Int
    BY <1>1, StepType DEF TypeOK
  <2> QED
    BY <1>1, <2>1, ChainStep
<1>3. txs[t] \notin Landed
  BY <1>1, <1>2 DEF LandedWasNoticed
<1>4. ~ConfirmedOrExpired(t)
  <2>1. LastValid[t] \in Nat /\ height \in Int
    BY <1>1 DEF TypeOK
  <2> QED
    BY <1>2, <1>3, <2>1 DEF ConfirmedOrExpired
<1>5. CASE call[r] # "accepted"
  BY <1>5, AcceptStep
<1>6. CASE call[r] = "accepted" /\ InLoop(r)
  <2>1. \/ InLoop(r)'
        \/ ReplaySend /\ held # <<>> /\ held[1].req = r /\ held[1].count >= MaxReplay
    BY <1>4, <1>6, StepLoop
  <2>2. ASSUME ReplaySend, held # <<>>, held[1].req = r, held[1].count >= MaxReplay
        PROVE  replays'[r] = MaxReplay + 1
    <3>1. held[1].count = replays[r] /\ held[1].count = MaxReplay
      BY <2>2, HeldShape DEF ReplaysAreCounted, Entry
    <3>2. replays'[r] = replays[r] + 1
      BY <2>2 DEF ReplaySend, TypeOK
    <3> QED
      BY <3>1, <3>2
  <2> QED
    BY <2>1, <2>2
<1>7. CASE call[r] = "accepted" /\ ~InLoop(r)
  <2>1. replays[r] = MaxReplay + 1
    BY <1>2, <1>7 DEF NeverGivenUpEarly
  <2>2. replays'[r] <= MaxReplay + 1
    BY DEF ReplaysAreCounted
  <2> QED
    BY <2>1, <2>2, ReplaysStep
<1> QED
  BY <1>5, <1>6, <1>7

(* What TxSender takes from the channel it puts into the store, and only   *)
(* the cleaning of expired transactions takes it out.                      *)
LEMMA StepTracked ==
  TypeOK /\ HeldWhileWorking /\ TrackedUntilExpired /\ [Next]_vars => TrackedUntilExpired'
<1> SUFFICES ASSUME TypeOK, HeldWhileWorking, TrackedUntilExpired, [Next]_vars,
                    NEW r \in Request,
                    call'[r] \in {"replay", "accepted"},
                    \A i \in DOMAIN txChannel' : txChannel'[i] # TxOf[r],
                    finalized' <= LastValid[TxOf[r]]
             PROVE  txs'[TxOf[r]] # Absent
  BY DEF TrackedUntilExpired
<1> DEFINE t == TxOf[r]
           q == txChannel
           n == Len(txChannel)
<1>1. t \in Tx /\ LastValid[t] \in Nat
  OBVIOUS
<1>2. finalized <= LastValid[t]
  <2>1. finalized \in Int /\ finalized' \in Int
    BY StepType DEF TypeOK
  <2> QED
    BY <1>1, <2>1, ChainStep
<1>3. q \in Seq(Tx) /\ n \in Nat /\ DOMAIN q = 1 .. n
  BY DEF TypeOK
<1>4. ASSUME call[r] \in {"replay", "accepted"}, \A i \in 1 .. n : q[i] # t
      PROVE  txs[t] # Absent
  BY <1>2, <1>3, <1>4 DEF TrackedUntilExpired
<1>5. ASSUME NEW x \in Request, Lookup(x) PROVE txs'[t] # Absent
  <2>1. call[r] = call'[r] /\ txChannel' = txChannel /\ txs' = txs
    BY <1>5 DEF Lookup, TypeOK
  <2> QED
    BY <1>3, <1>4, <2>1
<1>6. ASSUME NEW x \in Request, SendToChannel(x) PROVE txs'[t] # Absent
  <2>1. TxOf[x] \in Tx
    OBVIOUS
  <2>2. /\ DOMAIN q' = 1 .. n + 1
        /\ \A i \in 1 .. n : q'[i] = q[i]
        /\ q'[n + 1] = TxOf[x]
    BY <1>3, <1>6, <2>1, AppendFacts DEF SendToChannel
  <2>3. n + 1 \in 1 .. n + 1 /\ \A i \in 1 .. n : i \in 1 .. n + 1
    BY <1>3
  <2>4. x # r
    BY <2>2, <2>3
  <2>5. call[r] = call'[r] /\ txs' = txs
    BY <1>6, <2>4 DEF SendToChannel, TypeOK
  <2>6. \A i \in 1 .. n : q[i] # t
    BY <2>2, <2>3
  <2> QED
    BY <1>4, <2>5, <2>6
<1>7. ASSUME NEW x \in Request, SendToReplay(x) PROVE txs'[t] # Absent
  <2>1. call[r] \in {"replay", "accepted"} /\ txChannel' = txChannel /\ txs' = txs
    BY <1>7 DEF SendToReplay, TypeOK
  <2> QED
    BY <1>3, <1>4, <2>1
<1>8. ASSUME ForwardInsert PROVE txs'[t] # Absent
  <2>1. /\ Head(q) \in Tx /\ Head(q) = q[1]
        /\ n \in Nat \ {0}
        /\ DOMAIN q' = 1 .. n - 1
        /\ \A i \in 1 .. n - 1 : q'[i] = q[i + 1]
    BY <1>3, <1>8, TailFacts DEF ForwardInsert
  <2>2. txs' = [txs EXCEPT ![Head(q)] = Sent] /\ call' = call
    BY <1>8 DEF ForwardInsert
  <2>3. CASE Head(q) = t
    BY <1>1, <2>2, <2>3 DEF TypeOK
  <2>4. CASE Head(q) # t
    <3>1. txs'[t] = txs[t]
      BY <1>1, <2>2, <2>4 DEF TypeOK
    <3>2. \A i \in 1 .. n : q[i] # t
      <4> SUFFICES ASSUME NEW i \in 1 .. n, q[i] = t PROVE FALSE
        OBVIOUS
      <4>1. i # 1
        BY <2>1, <2>4
      <4>2. i - 1 \in 1 .. n - 1 /\ (i - 1) + 1 = i
        BY <2>1, <4>1
      <4>3. q'[i - 1] = t
        BY <2>1, <4>2
      <4> QED
        BY <2>1, <4>2, <4>3
    <3> QED
      BY <1>4, <2>2, <3>1, <3>2
  <2> QED
    BY <2>3, <2>4
<1>9. ASSUME NEW u \in Tx, NEW c \in Landed, UpdateStatus(u, c) PROVE txs'[t] # Absent
  <2>1. txs'[t] = txs[t] \/ txs'[t] \in Landed
    BY <1>1, <1>9 DEF UpdateStatus, TypeOK
  <2>2. call' = call /\ txChannel' = txChannel
    BY <1>9 DEF UpdateStatus
  <2>3. txs[t] # Absent
    BY <1>3, <1>4, <2>2
  <2> QED
    BY <2>1, <2>3
<1>10. ASSUME NEW h \in 0 .. MaxHeight, h <= finalized, Clean(h) PROVE txs'[t] # Absent
  <2> DEFINE lv == LastValid[t]
  <2>1. lv >= h
    <3>1. finalized \in Int
      BY DEF TypeOK
    <3>2. h \in Int /\ h <= finalized
      BY <1>10
    <3>3. lv \in Int /\ finalized <= lv
      BY <1>1, <1>2
    <3> HIDE DEF lv
    <3> QED
      BY <3>1, <3>2, <3>3
  <2>2. txs'[t] = txs[t] /\ call' = call /\ txChannel' = txChannel
    BY <1>1, <1>10, <2>1 DEF Clean
  <2> QED
    BY <1>3, <1>4, <2>2
<1>11. ASSUME UNCHANGED <<txs, call, txChannel>> PROVE txs'[t] # Absent
  BY <1>3, <1>4, <1>11
<1>12. \/ \E x \in Request : Lookup(x) \/ SendToChannel(x) \/ SendToReplay(x)
       \/ ForwardInsert
       \/ \E u \in Tx, c \in Landed : UpdateStatus(u, c)
       \/ \E h \in 0 .. MaxHeight : h <= finalized /\ Clean(h)
       \/ UNCHANGED <<txs, call, txChannel>>
  BY DEF Next, Submit, TxSender, Replayer, BlockTask, Chain, Cleaning, ForwardSend,
         ReplayRequeue, ReplayTake, ReplayCheck, ReplaySend, NewBlock,
         FinalizeBlock, Tick, vars
<1> QED
  BY <1>5, <1>6, <1>7, <1>8, <1>9, <1>10, <1>11, <1>12

----------------------------------------------------------------------------
(* The invariant is inductive                                              *)

LEMMA InitIInv == Init => IInv
<1> SUFFICES ASSUME Init PROVE IInv
  OBVIOUS
<1>1. DOMAIN replayQueue = {} /\ held = <<>> /\ replayPc = "recv"
  BY DEF Init
<1>2. \A r \in Request : call[r] = "lookup" /\ replays[r] = 0
  BY DEF Init
<1>3. \A t \in Tx : txs[t] = Absent
  BY DEF Init
<1>4. HeldWhileWorking /\ FreshUntilAccepted /\ LandedWasNoticed
  BY <1>1, <1>2, <1>3 DEF HeldWhileWorking, FreshUntilAccepted, LandedWasNoticed
<1>5. OneEntryPerRequest /\ NeverGivenUpEarly /\ TrackedUntilExpired
  BY <1>1, <1>2 DEF OneEntryPerRequest, NeverGivenUpEarly, TrackedUntilExpired, InLoop
<1>6. ReplaysAreCounted
  BY <1>1, <1>2 DEF ReplaysAreCounted
<1> QED
  BY <1>4, <1>5, <1>6, InitType DEF IInv

LEMMA StepIInv == IInv /\ [Next]_vars => IInv'
  BY StepType, StepHeld, StepFresh, StepLanded, StepOneEntry, StepCounted,
     StepNeverGivenUp, StepTracked DEF IInv

LEMMA SpecIInv == Spec => []IInv
  BY InitIInv, StepIInv, PTL DEF Spec

----------------------------------------------------------------------------
(* Every variable keeps its type: no count of the replay loop leaves       *)
(* 0 .. max_retries, and no entry is due later than the last one can be.   *)
THEOREM PipelineTypeOK == Spec => []TypeOK
<1>1. IInv => TypeOK
  BY DEF IInv
<1> QED
  BY <1>1, SpecIInv, PTL

(* send_wire_transaction and the replayer between them keep at most one    *)
(* entry of a request in the replay loop, whatever the order of the calls, *)
(* of the requeues and of the wake-ups.                                    *)
THEOREM PipelineOneEntry == Spec => []OneEntryPerRequest
<1>1. IInv => OneEntryPerRequest
  BY DEF IInv
<1> QED
  BY <1>1, SpecIInv, PTL

(* A request is replayed as often as its entry says, and at most           *)
(* max_retries + 1 times.                                                  *)
THEOREM PipelineReplaysAreCounted == Spec => []ReplaysAreCounted
<1>1. IInv => ReplaysAreCounted
  BY DEF IInv
<1> QED
  BY <1>1, SpecIInv, PTL

(* The replayer gives up an accepted transaction only when a block has     *)
(* shown it, it has expired, or all its replays are made.                  *)
THEOREM PipelineNeverGivenUpEarly == Spec => []NeverGivenUpEarly
<1>1. IInv => NeverGivenUpEarly
  BY DEF IInv
<1> QED
  BY <1>1, SpecIInv, PTL

(* The transaction store holds every transaction that TxSender has taken   *)
(* from the channel until its last valid height is finalized.              *)
THEOREM PipelineTrackedUntilExpired == Spec => []TrackedUntilExpired
<1>1. IInv => TrackedUntilExpired
  BY DEF IInv
<1> QED
  BY <1>1, SpecIInv, PTL
=============================================================================
