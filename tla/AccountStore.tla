----------------------------- MODULE AccountStore ----------------------------
(***************************************************************************)
(* accounts/src/inmemory_account_store.rs under the tasks that drive it:   *)
(* the account stream and the block info stream of account_service.rs, the *)
(* stream of the accounts on demand, the initial loading from RPC and the  *)
(* queries of clients.                                                     *)
(*                                                                         *)
(* Two concurrent maps hold the store.  An update keeps its account locked *)
(* while it indexes the owner; a query keeps an owner of the index locked  *)
(* while it reads the accounts one by one.  What an account holds is its   *)
(* slot and its owner.  Any write of the chain may arrive at any time and  *)
(* any number of times, and so may any block info: the streams are         *)
(* broadcast channels that lag, fed by several sources.                    *)
(***************************************************************************)
EXTENDS Integers, FiniteSets

CONSTANTS
  Pubkey, Owner, NoOwner,
  MaxSlot,  \* bound of the slots
  Streamed, \* the writes of the chain: records of account, slot and owner
  Loaded,   \* what RPC answers the accounts on demand: such records, slot 0
            \* too, with the commitment that was asked for
  MaxCalls, \* bound of the updates at a time
  Streamer, \* tasks that call update_account with what is streamed
  Fetcher,  \* calls of the accounts on demand that store what RPC answers
  Loader    \* tasks that call initilize_or_update_account

ASSUME AccountStoreAssumption ==
  /\ MaxSlot \in Nat \ {0}
  /\ NoOwner \notin Owner
  /\ Streamed \subseteq [account : Pubkey, slot : 1 .. MaxSlot, owner : Owner]
  /\ Loaded \subseteq [account : Pubkey, slot : 0 .. MaxSlot, owner : Owner,
                     level : {0, 1, 2}]
  /\ MaxCalls \in Nat
  /\ Streamer \cap Loader = {}
  /\ Streamer \cap Fetcher = {}
  /\ Fetcher \cap Loader = {}

Processed == 0
Confirmed == 1
Finalized == 2
Level == {Processed, Confirmed, Finalized}
Slot == 1 .. MaxSlot
Updater == Streamer \cup Fetcher \cup Loader

Data == [slot : 0 .. MaxSlot, owner : Owner]
NoData == [slot |-> -1, owner |-> NoOwner]
Absent == [processed |-> {}, confirmed |-> NoData, finalized |-> NoData]
Entry == [processed : SUBSET Data, confirmed : Data \cup {NoData},
          finalized : Data \cup {NoData}]

VARIABLES
  store,     \* account_store; an absent account has no processed data
  index,     \* accounts_by_owner, as pairs
  confirmedSlots, \* confirmed_slots_map
  updating,  \* where each updater is
  block,     \* where the task of block infos is
  query,     \* where the query of a client is
  missed,    \* history: account and slot of each update that had looked at
             \* confirmedSlots before the slot came in, and stored after
  reset      \* history: accounts that the loading has overwritten

vars == <<store, index, confirmedSlots, updating, block, query, missed, reset>>
history == <<missed, reset>>

Idle == [at |-> "idle"]

Init ==
  /\ store = [a \in Pubkey |-> Absent]
  /\ index = {}
  /\ confirmedSlots = {}
  /\ updating = [u \in Updater |-> Idle]
  /\ block = Idle
  /\ query = Idle
  /\ missed = {}
  /\ reset = {}

------------------------------------------------------------------------------
(* AccountDataByCommitment                                                  *)

Newest(P) == CHOOSE d \in P : \A e \in P : e.slot <= d.slot

(* get_account_data, NoData where it answers None.                          *)
AccountData(e, level) ==
  IF level = Processed
  THEN IF e.processed # {} THEN Newest(e.processed) ELSE e.confirmed
  ELSE IF level = Confirmed THEN e.confirmed ELSE e.finalized

(* new; with Finalized, initialize.                                         *)
NewEntry(d, level) ==
  [processed |-> {d},
   confirmed |-> IF level >= Confirmed THEN d ELSE NoData,
   finalized |-> IF level = Finalized THEN d ELSE NoData]

Newer(d, old) == old.slot < d.slot

(* update: the first data of a slot stays.                                  *)
Updated(e, d, level) ==
  [processed |-> IF \E p \in e.processed : p.slot = d.slot
                 THEN e.processed ELSE e.processed \cup {d},
   confirmed |-> IF level >= Confirmed /\ Newer(d, e.confirmed)
                 THEN d ELSE e.confirmed,
   finalized |-> IF level = Finalized /\ Newer(d, e.finalized)
                 THEN d ELSE e.finalized]

(* Mutant: the last data is removed with the others.                        *)
PopUpToAll(P, slot) == {d \in P : d.slot > slot}

(* The data of a finalized slot and before is removed, but never the last.  *)
PopUpTo(P, slot) ==
  IF \E d \in P : d.slot > slot THEN {d \in P : d.slot > slot}
  ELSE IF P = {} THEN {} ELSE {Newest(P)}

(* Mutant: promotion ignores that it may come late.                         *)
PromotesAny(e, slot, level) ==
  (\E d \in e.processed : d.slot = slot) /\ AccountData(e, level).slot # slot

Promotes(e, slot, level) ==
  (\E d \in e.processed : d.slot = slot) /\ AccountData(e, level).slot < slot

(* promote_slot_commitment.                                                 *)
Promoted(e, slot, level) ==
  LET kept == IF level = Finalized
              THEN [e EXCEPT !.processed = PopUpTo(@, slot)] ELSE e
      data == CHOOSE d \in e.processed : d.slot = slot
  IN  IF ~ Promotes(e, slot, level) THEN kept
      ELSE IF level = Confirmed THEN [kept EXCEPT !.confirmed = data]
      ELSE [kept EXCEPT !.finalized = data]

(* update_owner.                                                            *)
Reindexed(ix, a, prev, d, level) ==
  IF prev.owner = d.owner THEN ix
  ELSE (IF level = Finalized THEN ix \ {<<prev.owner, a>>} ELSE ix)
         \cup {<<d.owner, a>>}

------------------------------------------------------------------------------
(* update_account, initilize_or_update_account                              *)

Locked(a) == \E u \in Updater : updating[u].at = "index" /\ updating[u].account = a

(* The index of an owner is written only while no query reads it.           *)
Readable(owners) == query.at = "reading" => query.owner \notin owners

(* update_account begins by raising processed to confirmed when the slot is *)
(* in already.                                                              *)
Raised(level, slot) ==
  IF level = Processed /\ slot \in confirmedSlots THEN Confirmed ELSE level

Call(u, at, w, level) ==
  /\ updating[u] = Idle
  /\ Cardinality({v \in Updater : updating[v] # Idle}) < MaxCalls
  /\ updating' = [updating EXCEPT ![u] =
       [at |-> at, account |-> w.account, level |-> level, prev |-> NoData,
        data |-> [slot |-> w.slot, owner |-> w.owner]]]
  /\ UNCHANGED <<store, index, confirmedSlots, block, query, history>>

(* The streams carry processed updates.                                     *)
Receive(u, w) ==
  u \in Streamer /\ Call(u, "store", w, Raised(Processed, w.slot))

(* An account on demand comes with the slot of the answer, the accounts of  *)
(* a program with slot 0, at the commitment that was asked for.             *)
Fetch(u, r) == u \in Fetcher /\ Call(u, "store", r, Raised(r.level, r.slot))

(* What populate_from_rpc is answered is finalized.  A chunk whose request   *)
(* fails ten times is skipped, which is a call that is not made.            *)
Load(u, w) ==
  /\ u \in Loader
  /\ Call(u, IF store[w.account] = Absent THEN "owner" ELSE "store", w, Finalized)

(* The entry is updated or inserted, and stays locked for the index if the  *)
(* owner is new to it.                                                      *)
Store(u) ==
  LET m == updating[u]  a == m.account  e == store[a]
      new == IF e = Absent THEN NewEntry(m.data, m.level)
             ELSE Updated(e, m.data, m.level)
      prev == AccountData(e, m.level)
  IN  /\ m.at = "store"
      /\ ~ Locked(a)
      /\ store' = [store EXCEPT ![a] = new]
      /\ updating' = [updating EXCEPT ![u] =
           IF e = Absent \/ (new # e /\ prev # NoData /\ prev.owner # m.data.owner)
           THEN [m EXCEPT !.at = "index", !.prev = prev] ELSE Idle]
      /\ missed' = IF Raised(m.level, m.data.slot) # m.level
                   THEN missed \cup {<<a, m.data.slot>>} ELSE missed
      /\ UNCHANGED <<index, confirmedSlots, block, query, reset>>

Index(u) ==
  LET m == updating[u]
  IN  /\ m.at = "index"
      /\ Readable({m.data.owner, m.prev.owner})
      /\ index' = Reindexed(index, m.account, m.prev, m.data, m.level)
      /\ updating' = [updating EXCEPT ![u] = Idle]
      /\ UNCHANGED <<store, confirmedSlots, block, query, history>>

(* The loading of an account that was absent: its owner, then the entry,    *)
(* whatever has come in since.                                              *)
LoadOwner(u) ==
  LET m == updating[u]
  IN  /\ m.at = "owner"
      /\ Readable({m.data.owner})
      /\ index' = index \cup {<<m.data.owner, m.account>>}
      /\ updating' = [updating EXCEPT ![u].at = "insert"]
      /\ UNCHANGED <<store, confirmedSlots, block, query, history>>

LoadInsert(u) ==
  LET m == updating[u]  a == m.account
  IN  /\ m.at = "insert"
      /\ ~ Locked(a)
      /\ store' = [store EXCEPT ![a] = NewEntry(m.data, Finalized)]
      /\ reset' = IF store[a] = Absent THEN reset ELSE reset \cup {a}
      /\ updating' = [updating EXCEPT ![u] = Idle]
      /\ UNCHANGED <<index, confirmedSlots, block, query, missed>>

------------------------------------------------------------------------------
(* process_slot_data, by the task of block infos                            *)

(* Block infos of commitment processed are skipped.                         *)
Mark(slot, level) ==
  /\ block = Idle
  /\ level \in {Confirmed, Finalized}
  /\ confirmedSlots' = IF level = Confirmed THEN confirmedSlots \cup {slot}
                       ELSE confirmedSlots \ {slot}
  /\ block' = [at |-> "promote", slot |-> slot, level |-> level,
               todo |-> Pubkey, moved |-> {}]
  /\ UNCHANGED <<store, index, updating, query, history>>

BlockGoesOn(todo, moved) ==
  block' = IF todo = {} /\ moved = {} THEN Idle
           ELSE [block EXCEPT !.todo = todo, !.moved = moved]

(* The accounts are visited in any order; one that is inserted meanwhile    *)
(* may be visited or not.                                                   *)
Promote(a) ==
  LET e == store[a]  slot == block.slot  level == block.level
      data == CHOOSE d \in e.processed : d.slot = slot
  IN  /\ block.at = "promote"
      /\ a \in block.todo
      /\ ~ Locked(a)
      /\ store' = [store EXCEPT ![a] = Promoted(e, slot, level)]
      /\ BlockGoesOn(block.todo \ {a},
           IF Promotes(e, slot, level)
           THEN block.moved \cup {[account |-> a, data |-> data,
                                   prev |-> AccountData(e, level)]}
           ELSE block.moved)
      /\ UNCHANGED <<index, confirmedSlots, updating, query, history>>

(* Then the owners of those that were promoted, and they are announced.     *)
IndexPromoted(m) ==
  /\ block.at = "promote"
  /\ block.todo = {}
  /\ m \in block.moved
  /\ IF m.prev = NoData THEN UNCHANGED index
     ELSE /\ Readable({m.data.owner, m.prev.owner})
          /\ index' = Reindexed(index, m.account, m.prev, m.data, block.level)
  /\ BlockGoesOn({}, block.moved \ {m})
  /\ UNCHANGED <<store, confirmedSlots, updating, query, history>>

------------------------------------------------------------------------------
(* get_program_accounts: the owner of the index stays locked while its      *)
(* accounts are read.  What is read is in no variable, the properties speak *)
(* of the store.                                                            *)
QueryStart(o) ==
  /\ query = Idle
  /\ \E a \in Pubkey : <<o, a>> \in index
  /\ query' = [at |-> "reading", owner |-> o,
               todo |-> {a \in Pubkey : <<o, a>> \in index}]
  /\ UNCHANGED <<store, index, confirmedSlots, updating, block, history>>

QueryRead(a) ==
  /\ query.at = "reading"
  /\ a \in query.todo
  /\ ~ Locked(a)
  /\ query' = IF query.todo = {a} THEN Idle ELSE [query EXCEPT !.todo = @ \ {a}]
  /\ UNCHANGED <<store, index, confirmedSlots, updating, block, history>>

Next ==
  \/ \E u \in Updater :
       \/ \E w \in Streamed : Receive(u, w) \/ Load(u, w)
       \/ \E r \in Loaded : Fetch(u, r)
       \/ Store(u) \/ Index(u) \/ LoadOwner(u) \/ LoadInsert(u)
  \/ \E slot \in Slot, level \in Level : Mark(slot, level)
  \/ \E a \in Pubkey : Promote(a)
  \/ block # Idle /\ \E m \in block.moved : IndexPromoted(m)
  \/ \E o \in Owner : QueryStart(o)
  \/ \E a \in Pubkey : QueryRead(a)

Spec == Init /\ [][Next]_vars

------------------------------------------------------------------------------
TypeOK ==
  /\ store \in [Pubkey -> Entry]
  /\ \A a \in Pubkey : \A d, e \in store[a].processed :
       d.slot = e.slot => d = e
  /\ index \subseteq Owner \X Pubkey
  /\ confirmedSlots \subseteq Slot
  /\ missed \subseteq Pubkey \X (0 .. MaxSlot)
  /\ reset \subseteq Pubkey

(* A client never reads older data at a lower commitment: what an account   *)
(* holds at processed is at least as new as at confirmed and at finalized,  *)
(* and there is some as soon as the account is known, whatever order        *)
(* updates, promotions and the removal of finalized slots come in.          *)
NewestIsKept ==
  \A a \in Pubkey : store[a] # Absent =>
    \A level \in {Confirmed, Finalized} :
      \E d \in store[a].processed : store[a][
        IF level = Confirmed THEN "confirmed" ELSE "finalized"].slot <= d.slot

(* An account that is known is found under some owner, although queries,    *)
(* the loading and the promotion of slots interleave with the removal of    *)
(* owners: an index is taken away only together with another that is added. *)
KnownIsIndexed ==
  \A a \in Pubkey : store[a] # Absent /\ ~ Locked(a) =>
    \E o \in Owner : <<o, a>> \in index

(* Comment at inmemory_account_store.rs:231: when an account changes its    *)
(* owner from A to B, the key is kept for both, and removed from A when the *)
(* change is finalized.  So the owner at finalized always has the key, once *)
(* the update and the slot have been dealt with.  It has not, when older    *)
(* data were loaded meanwhile: no run checks this.                          *)
OwnerIsIndexed ==
  \A a \in Pubkey :
    store[a].finalized # NoData /\ ~ Locked(a) /\ block = Idle
    => <<store[a].finalized.owner, a>> \in index

(* When the block info of a confirmed slot has been dealt with, every       *)
(* account with data of the slot shows it or newer data at confirmed: only  *)
(* an update that had looked whether the slot is confirmed just before it   *)
(* was, can stay behind.                                                    *)
ConfirmedIsShown ==
  \A slot \in confirmedSlots, a \in Pubkey \ reset :
    /\ block = Idle \/ block.slot # slot
    /\ \E d \in store[a].processed : d.slot = slot
    /\ <<a, slot>> \notin missed
    => slot <= store[a].confirmed.slot

(* Processed data are the newest, an account that is known is found under   *)
(* some owner, and shows at confirmed what it has of a confirmed slot.      *)
AccountsAreCurrent == TypeOK /\ NewestIsKept /\ KnownIsIndexed /\ ConfirmedIsShown

(* What a client can read of an account at a commitment never goes back to  *)
(* an older slot, save when the loading overwrites this very account.       *)
ReadsAdvance ==
  [][\A a \in Pubkey, level \in Level :
       \/ AccountData(store[a], level).slot <= AccountData(store'[a], level).slot
       \/ \E u \in Loader : LoadInsert(u) /\ updating[u].account = a]_vars
==============================================================================
