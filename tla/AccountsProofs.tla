---------------------------- MODULE AccountsProofs ---------------------------
(***************************************************************************)
(* What is kept of accounts, for any accounts, owners, programs, tables,   *)
(* writes of the chain, tasks and calls.                                   *)
(*                                                                         *)
(* The store: whatever order updates, promotions and the loading come in,  *)
(* what is read is current and advances.  Most of it is about single       *)
(* entries: each of the ways in which an entry is written keeps it well    *)
(* formed and lets what is read of it advance.  Beyond that the invariant  *)
(* says what the tasks carry from one step to the next, and which accounts *)
(* the promotion of a slot has yet to visit.                               *)
(*                                                                         *)
(* On demand: an account that is asked for is loaded by one call, those    *)
(* that wait for it find what it stored, and it is in what the             *)
(* subscription manager was told.  An account is subscribed to before it   *)
(* is loaded and stays so for ever: that it is not subscribed to tells     *)
(* that nobody has loaded it, and that it is loading, that one call will   *)
(* tell those that wait.                                                   *)
(*                                                                         *)
(* The lookup tables: what a block asks for is found, as what is stored of *)
(* a table was on the chain and a load that was given up is all that makes *)
(* it shorter.                                                             *)
(***************************************************************************)
EXTENDS Accounts, WellFoundedInduction, TLAPS

------------------------------------------------------------------------------
(* AccountStore                                                             *)

(* Of each slot an entry has one data, and what is processed is the newest. *)
Clean(e) == \A d, f \in e.processed : d.slot = f.slot => d = f

Covered(e) ==
  /\ \E d \in e.processed : e.confirmed.slot <= d.slot
  /\ \E d \in e.processed : e.finalized.slot <= d.slot

Good(e) == e \in Entry /\ Clean(e) /\ (e # Absent => Covered(e))

(* What is read of an entry at any commitment does not get older.           *)
Rises(e, f) == \A level \in Level : AccountData(e, level).slot <= AccountData(f, level).slot

Pending == [at : {"store", "index", "owner", "insert"}, account : Pubkey,
            level : Level, prev : Data \cup {NoData}, data : Data]
Moved == [account : Pubkey, data : Data, prev : Data \cup {NoData}]
Promoting == [at : {"promote"}, slot : Slot, level : {Confirmed, Finalized},
              todo : SUBSET Pubkey, moved : SUBSET Moved]

TasksTypeOK ==
  /\ updating \in [Updater -> {Idle} \cup Pending]
  /\ block \in {Idle} \cup Promoting

Indexed(a) == \E o \in Owner : <<o, a>> \in index

(* Who loads is a loader, who indexes has another owner to add, and who    *)
(* inserts has added one.                                                  *)
UpdaterInv(u) ==
  /\ updating[u].at \in {"owner", "insert"} => u \in Loader
  /\ updating[u].at = "index" => updating[u].prev.owner # updating[u].data.owner
  /\ updating[u].at = "insert" => Indexed(updating[u].account)

IndexInv == KnownIsIndexed /\ \A u \in Updater : UpdaterInv(u)

(* An account shows its data of a slot at confirmed.                        *)
Shown(a, slot) ==
  /\ \E d \in store[a].processed : d.slot = slot
  /\ a \notin reset
  /\ <<a, slot>> \notin missed
  => slot <= store[a].confirmed.slot

(* The promotion of a confirmed slot has yet to visit an account.           *)
ToVisit(a, slot) ==
  block # Idle /\ block.slot = slot /\ block.level = Confirmed /\ a \in block.todo

ShownInv ==
  /\ \A slot \in confirmedSlots, a \in Pubkey : Shown(a, slot) \/ ToVisit(a, slot)
  /\ block # Idle /\ block.level = Finalized => block.slot \notin confirmedSlots

StoreInv ==
  /\ TypeOK
  /\ TasksTypeOK
  /\ \A a \in Pubkey : Good(store[a])
  /\ IndexInv
  /\ ShownInv

----------------------------------------------------------------------------
(* Entries                                                                 *)

(* Every set of natural numbers that is not empty has a least one.         *)
LEMMA LeastExists ==
  ASSUME NEW S \in SUBSET Nat, S # {}
  PROVE  \E m \in S : \A x \in S : m <= x
<1> DEFINE Less == {ss \in Nat \X Nat : ss[1] < ss[2]}
<1>1. OpToRel(<, Nat) = Less
  BY Zenon DEF OpToRel
<1>2. IsWellFoundedOn(Less, Nat)
  BY <1>1, NatLessThanWellFounded
<1> HIDE DEF Less
<1>3. PICK m \in S : \A y \in S : ~ (<<y, m>> \in Less)
  BY <1>2, WFMin
<1>4. ASSUME NEW y \in S
      PROVE  m <= y
  <2>1. <<y, m>> \in Nat \X Nat /\ <<y, m>>[1] = y /\ <<y, m>>[2] = m
    OBVIOUS
  <2>2. ~ (y < m)
    BY <1>3, <2>1, Zenon DEF Less
  <2>. QED
    BY <2>2
<1>. QED
  BY <1>4

(* What data are.                                                          *)
LEMMA DataFacts ==
  /\ \A d \in Data : d.slot \in Nat /\ d.slot <= MaxSlot /\ d.owner \in Owner
  /\ NoData.slot = -1 /\ NoData.owner = NoOwner
  /\ \A d \in Data : d # NoData
  /\ \A d \in Data \cup {NoData} : d.slot \in Int /\ -1 <= d.slot
<1>a. MaxSlot \in Nat
  BY AccountStoreAssumption
<1>1. \A d \in Data : d.slot \in Nat /\ d.slot <= MaxSlot /\ d.owner \in Owner
  BY <1>a DEF Data
<1>2. NoData.slot = -1 /\ NoData.owner = NoOwner
  BY DEF NoData
<1>. QED
  BY <1>1, <1>2

(* The newest of some data is the newest.                                  *)
LEMMA NewestIsNewest ==
  ASSUME NEW P \in SUBSET Data, P # {}
  PROVE  Newest(P) \in P /\ \A d \in P : d.slot <= Newest(P).slot
<1> DEFINE S == {MaxSlot - d.slot : d \in P}
<1>a. MaxSlot \in Nat /\ \A d \in P : d.slot \in Nat /\ d.slot <= MaxSlot
  BY AccountStoreAssumption, DataFacts
<1>1. S \in SUBSET Nat /\ S # {}
  BY <1>a
<1>2. PICK m \in S : \A x \in S : m <= x
  BY <1>1, LeastExists
<1>3. PICK d \in P : m = MaxSlot - d.slot
  BY <1>2
<1>4. \A e \in P : MaxSlot - d.slot <= MaxSlot - e.slot
  BY <1>2, <1>3
<1>5. \A e \in P : e.slot <= d.slot
  BY <1>a, <1>4
<1>. QED
  BY <1>5 DEF Newest

(* What a good entry holds.                                                *)
LEMMA EntryFacts ==
  ASSUME NEW e \in Entry
  PROVE  /\ e.processed \in SUBSET Data
         /\ e.confirmed \in Data \cup {NoData} /\ e.finalized \in Data \cup {NoData}
         /\ e.confirmed.slot \in Int /\ e.finalized.slot \in Int
         /\ e = [processed |-> e.processed, confirmed |-> e.confirmed,
                 finalized |-> e.finalized]
<1>1. /\ e.processed \in SUBSET Data
      /\ e.confirmed \in Data \cup {NoData} /\ e.finalized \in Data \cup {NoData}
      /\ e = [processed |-> e.processed, confirmed |-> e.confirmed,
              finalized |-> e.finalized]
  BY DEF Entry
<1>. QED
  BY <1>1, DataFacts

LEMMA AbsentFacts ==
  /\ Absent \in Entry /\ Good(Absent)
  /\ \A level \in Level : AccountData(Absent, level) = NoData
BY DEF Absent, Entry, Good, Clean, AccountData, Level, Processed, Confirmed, Finalized

(* What is read of a good entry is data of it, or nothing.                 *)
LEMMA AccountDataType ==
  ASSUME NEW e \in Entry, NEW level \in Level
  PROVE  /\ AccountData(e, level) \in Data \cup {NoData}
         /\ AccountData(e, level).slot \in Int /\ -1 <= AccountData(e, level).slot
<1>1. AccountData(e, level) \in Data \cup {NoData}
  BY EntryFacts, NewestIsNewest DEF AccountData
<1>. QED
  BY <1>1, DataFacts

(* A new entry is good, and more than nothing.                             *)
LEMMA NewEntryIsGood ==
  ASSUME NEW d \in Data, NEW level \in Level
  PROVE  /\ Good(NewEntry(d, level)) /\ NewEntry(d, level) # Absent
         /\ NewEntry(d, level).processed = {d}
         /\ level # Processed => NewEntry(d, level).confirmed = d
<1> DEFINE e == NewEntry(d, level)
<1>1. /\ e.processed = {d} /\ e.confirmed \in {d, NoData} /\ e.finalized \in {d, NoData}
      /\ e = [processed |-> e.processed, confirmed |-> e.confirmed,
              finalized |-> e.finalized]
      /\ level # Processed => e.confirmed = d
  BY DEF NewEntry, Level, Processed, Confirmed, Finalized
<1> HIDE DEF e
<1>2. e \in Entry /\ Clean(e) /\ e # Absent
  BY <1>1 DEF Entry, Clean, Absent
<1>3. Covered(e)
  BY <1>1, DataFacts DEF Covered
<1>. QED
  BY <1>1, <1>2, <1>3 DEF Good, e

(* An update keeps an entry good; its data are there, and nothing is lost. *)
LEMMA UpdatedIsGood ==
  ASSUME NEW e, Good(e), NEW d \in Data, NEW level \in Level
  PROVE  LET f == Updated(e, d, level)
         IN  /\ Good(f) /\ f # Absent
             /\ e.processed \subseteq f.processed
             /\ \A p \in f.processed : p \in e.processed \/ p.slot = d.slot
             /\ e.confirmed.slot <= f.confirmed.slot
             /\ e.finalized.slot <= f.finalized.slot
             /\ level # Processed => d.slot <= f.confirmed.slot
<1> DEFINE f == Updated(e, d, level)
<1>a. e \in Entry /\ Clean(e) /\ (e # Absent => Covered(e)) /\ d.slot \in Nat
  BY DataFacts DEF Good
<1>b. /\ e.processed \in SUBSET Data
      /\ e.confirmed \in Data \cup {NoData} /\ e.finalized \in Data \cup {NoData}
      /\ e.confirmed.slot \in Int /\ e.finalized.slot \in Int
  BY <1>a, EntryFacts
<1>1. /\ f = [processed |-> f.processed, confirmed |-> f.confirmed, finalized |-> f.finalized]
      /\ f.processed = IF \E p \in e.processed : p.slot = d.slot
                       THEN e.processed ELSE e.processed \cup {d}
      /\ \/ f.confirmed = d /\ e.confirmed.slot < d.slot
         \/ f.confirmed = e.confirmed /\ (level = Processed \/ ~ (e.confirmed.slot < d.slot))
      /\ \/ f.finalized = d /\ e.finalized.slot < d.slot
         \/ f.finalized = e.finalized
  BY DEF Updated, Newer, Level, Processed, Confirmed, Finalized
<1> HIDE DEF f
<1>2. f \in Entry
  BY <1>1, <1>b DEF Entry
<1>3. Clean(f)
  BY <1>1, <1>a DEF Clean
<1>4. PICK p \in f.processed : p.slot = d.slot
  BY <1>1
<1>5. /\ e.processed \subseteq f.processed
      /\ \A q \in f.processed : q \in e.processed \/ q.slot = d.slot
  BY <1>1
<1>6. /\ e.confirmed.slot <= f.confirmed.slot
      /\ e.finalized.slot <= f.finalized.slot
      /\ level # Processed => d.slot <= f.confirmed.slot
  BY <1>1, <1>a, <1>b
<1>7. Covered(f)
  <2>1. CASE e = Absent
    <3>1. e.confirmed = NoData /\ e.finalized = NoData
      BY <2>1 DEF Absent
    <3>2. f.confirmed \in {d, NoData} /\ f.finalized \in {d, NoData}
      BY <1>1, <3>1
    <3>3. f.confirmed.slot <= p.slot /\ f.finalized.slot <= p.slot
      BY <3>2, <1>4, <1>a, DataFacts
    <3>. QED
      BY <3>3, <1>4 DEF Covered
  <2>2. CASE Covered(e)
    <3>1. \E q \in f.processed : f.confirmed.slot <= q.slot
      BY <2>2, <1>1, <1>4, <1>5, <1>a DEF Covered
    <3>2. \E q \in f.processed : f.finalized.slot <= q.slot
      BY <2>2, <1>1, <1>4, <1>5, <1>a DEF Covered
    <3>. QED
      BY <3>1, <3>2 DEF Covered
  <2>. QED
    BY <2>1, <2>2, <1>a
<1>8. f # Absent
  BY <1>4 DEF Absent
<1>. QED
  BY <1>2, <1>3, <1>5, <1>6, <1>7, <1>8 DEF Good, f

(* The removal of a finalized slot keeps the newest data.                  *)
LEMMA PopUpToKeepsNewest ==
  ASSUME NEW P \in SUBSET Data, NEW slot \in Slot
  PROVE  /\ PopUpTo(P, slot) \subseteq P
         /\ \A d \in P : \E k \in PopUpTo(P, slot) : d.slot <= k.slot
         /\ (\E d \in P : d.slot = slot) => \E k \in PopUpTo(P, slot) : slot <= k.slot
<1>a. slot \in Nat /\ \A d \in P : d.slot \in Nat
  BY DataFacts DEF Slot
<1>1. CASE P = {}
  BY <1>1 DEF PopUpTo
<1>2. CASE P # {}
  <2> DEFINE n == Newest(P)
  <2>1. n \in P /\ \A d \in P : d.slot <= n.slot
    BY <1>2, NewestIsNewest
  <2>2. n \in PopUpTo(P, slot) /\ PopUpTo(P, slot) \subseteq P
    <3>1. CASE \E d \in P : d.slot > slot
      <4> HIDE DEF n
      <4>1. PopUpTo(P, slot) = {d \in P : d.slot > slot}
        BY <3>1 DEF PopUpTo
      <4>2. n.slot > slot
        BY <2>1, <3>1, <1>a
      <4>. QED
        BY <2>1, <4>1, <4>2
    <3>2. CASE ~ \E d \in P : d.slot > slot
      BY <2>1, <3>2, <1>2 DEF PopUpTo
    <3>. QED
      BY <3>1, <3>2
  <2> HIDE DEF n
  <2>. QED
    BY <2>1, <2>2
<1>. QED
  BY <1>1, <1>2

(* A promotion keeps an entry good, whether or not there are data of the   *)
(* slot and however late it comes.                                         *)
LEMMA PromotedIsGood ==
  ASSUME NEW e, Good(e), NEW slot \in Slot, NEW level \in {Confirmed, Finalized}
  PROVE  LET f == Promoted(e, slot, level)
         IN  /\ Good(f) /\ (f = Absent <=> e = Absent)
             /\ f.processed \subseteq e.processed
             /\ \A d \in e.processed : \E k \in f.processed : d.slot <= k.slot
             /\ e.confirmed.slot <= f.confirmed.slot
             /\ e.finalized.slot <= f.finalized.slot
             /\ level = Confirmed /\ (\E d \in e.processed : d.slot = slot)
                => slot <= f.confirmed.slot
<1> DEFINE f == Promoted(e, slot, level)
           has == \E d \in e.processed : d.slot = slot
           data == CHOOSE d \in e.processed : d.slot = slot
           popped == PopUpTo(e.processed, slot)
<1>a. e \in Entry /\ Clean(e) /\ (e # Absent => Covered(e))
  BY DEF Good
<1>b. /\ e.processed \in SUBSET Data
      /\ e.confirmed \in Data \cup {NoData} /\ e.finalized \in Data \cup {NoData}
      /\ e.confirmed.slot \in Int /\ e.finalized.slot \in Int
      /\ slot \in Nat /\ \A d \in e.processed : d.slot \in Nat
  BY <1>a, EntryFacts, DataFacts DEF Slot
<1>c. has => data \in e.processed /\ data.slot = slot
  OBVIOUS
<1>d. Confirmed # Finalized /\ Confirmed # Processed /\ Finalized # Processed
  BY DEF Confirmed, Finalized, Processed
<1>p. /\ popped \subseteq e.processed
      /\ \A d \in e.processed : \E k \in popped : d.slot <= k.slot
      /\ has => \E k \in popped : slot <= k.slot
  BY <1>b, PopUpToKeepsNewest
<1>e. e = [processed |-> e.processed, confirmed |-> e.confirmed, finalized |-> e.finalized]
  BY <1>a, EntryFacts
<1>1. CASE level = Confirmed
  <2>1. /\ f.processed = e.processed /\ f.finalized = e.finalized
        /\ f = [processed |-> f.processed, confirmed |-> f.confirmed,
                finalized |-> f.finalized]
        /\ \/ has /\ e.confirmed.slot < slot /\ f.confirmed = data
           \/ ~ (has /\ e.confirmed.slot < slot) /\ f.confirmed = e.confirmed
    BY <1>1, <1>d, <1>e DEF Promoted, Promotes, AccountData
  <2> HIDE DEF f, data
  <2>2. /\ f.confirmed \in Data \cup {NoData}
        /\ e.confirmed.slot <= f.confirmed.slot
        /\ has => slot <= f.confirmed.slot
    BY <2>1, <1>b, <1>c
  <2>3. f \in Entry /\ Clean(f)
    BY <2>1, <2>2, <1>a, <1>b DEF Entry, Clean
  <2>4. has => Covered(e)
    BY <1>a DEF Absent
  <2>5. Covered(e) => Covered(f)
    BY <2>1, <1>b, <1>c DEF Covered
  <2>6. f = Absent <=> e = Absent
    <3>1. CASE has
      BY <3>1, <2>1 DEF Absent
    <3>2. CASE ~has
      BY <3>2, <2>1, <1>e
    <3>. QED
      BY <3>1, <3>2
  <2>7. \A d \in e.processed : \E k \in f.processed : d.slot <= k.slot
    BY <2>1, <1>b
  <2>. QED
    BY <2>1, <2>2, <2>3, <2>5, <2>6, <2>7, <1>a, <1>b DEF Good, f
<1>2. CASE level = Finalized
  <2>1. /\ f.processed = popped /\ f.confirmed = e.confirmed
        /\ f = [processed |-> f.processed, confirmed |-> f.confirmed,
                finalized |-> f.finalized]
        /\ \/ has /\ e.finalized.slot < slot /\ f.finalized = data
           \/ ~ (has /\ e.finalized.slot < slot) /\ f.finalized = e.finalized
    BY <1>2, <1>d, <1>e DEF Promoted, Promotes, AccountData
  <2> HIDE DEF f, data, popped
  <2>2. /\ f.finalized \in Data \cup {NoData}
        /\ e.finalized.slot <= f.finalized.slot
    BY <2>1, <1>b, <1>c
  <2>3. f \in Entry /\ Clean(f)
    BY <2>1, <2>2, <1>a, <1>b, <1>p DEF Entry, Clean
  <2>4. has => Covered(e)
    BY <1>a DEF Absent
  <2>5. Covered(e) => Covered(f)
    <3> SUFFICES ASSUME Covered(e)
                 PROVE  Covered(f)
      OBVIOUS
    <3>a. \A k \in popped : k.slot \in Nat
      BY <1>b, <1>p
    <3>1. \E k \in popped : e.confirmed.slot <= k.slot
      <4>1. PICK d \in e.processed : e.confirmed.slot <= d.slot
        BY DEF Covered
      <4>2. PICK k \in popped : d.slot <= k.slot
        BY <1>p
      <4>. QED
        BY <4>1, <4>2, <3>a, <1>b
    <3>2. \E k \in popped : e.finalized.slot <= k.slot
      <4>1. PICK d \in e.processed : e.finalized.slot <= d.slot
        BY DEF Covered
      <4>2. PICK k \in popped : d.slot <= k.slot
        BY <1>p
      <4>. QED
        BY <4>1, <4>2, <3>a, <1>b
    <3>3. \E k \in popped : f.finalized.slot <= k.slot
      BY <2>1, <3>2, <1>c, <1>p
    <3>. QED
      BY <2>1, <3>1, <3>3 DEF Covered
  <2>6. f = Absent <=> e = Absent
    <3>1. CASE e = Absent
      <4>1. e.processed = {} /\ popped = {} /\ ~has
        BY <3>1, <1>p DEF Absent
      <4>. QED
        BY <2>1, <3>1, <4>1, <1>e
    <3>2. CASE e # Absent
      <4>1. popped # {}
        BY <3>2, <1>a, <1>p DEF Covered
      <4>. QED
        BY <2>1, <3>2, <4>1 DEF Absent
    <3>. QED
      BY <3>1, <3>2
  <2>. QED
    BY <1>2, <2>1, <2>2, <2>3, <2>5, <2>6, <1>a, <1>b, <1>d, <1>p DEF Good, f
<1>. QED
  BY <1>1, <1>2

(* What is read of an entry advances, when its data at confirmed and at     *)
(* finalized do and what was processed is kept or followed by newer data.  *)
LEMMA EntryRises ==
  ASSUME NEW e, Good(e), NEW f \in Entry,
         e.confirmed.slot <= f.confirmed.slot, e.finalized.slot <= f.finalized.slot,
         \A d \in e.processed : \E k \in f.processed : d.slot <= k.slot
  PROVE  Rises(e, f)
<1> SUFFICES ASSUME NEW level \in Level
             PROVE  AccountData(e, level).slot <= AccountData(f, level).slot
  BY DEF Rises
<1>a. e \in Entry
  BY DEF Good
<1>1. CASE level # Processed
  BY <1>1 DEF AccountData
<1>2. CASE level = Processed /\ e.processed = {}
  <2>1. e = Absent
    BY <1>2 DEF Good, Covered
  <2>2. AccountData(e, level).slot = -1
    BY <2>1, AbsentFacts, DataFacts
  <2>. QED
    BY <2>2, AccountDataType
<1>3. CASE level = Processed /\ e.processed # {}
  <2> DEFINE n == Newest(e.processed)
             m == Newest(f.processed)
  <2>1. n \in e.processed
    BY <1>3, <1>a, EntryFacts, NewestIsNewest
  <2>2. PICK k \in f.processed : n.slot <= k.slot
    BY <2>1
  <2>3. m \in f.processed /\ k.slot <= m.slot
    BY <2>2, EntryFacts, NewestIsNewest
  <2>4. AccountData(e, level) = n /\ AccountData(f, level) = m
    BY <1>3, <2>2 DEF AccountData
  <2> HIDE DEF n, m
  <2>5. n.slot \in Nat /\ k.slot \in Nat /\ m.slot \in Nat
    BY <1>a, <2>1, <2>2, <2>3, EntryFacts, DataFacts
  <2>. QED
    BY <2>2, <2>3, <2>4, <2>5
<1>. QED
  BY <1>1, <1>2, <1>3

----------------------------------------------------------------------------
(* The index and the tasks                                                 *)

(* A change of the index takes no account its last owner, and gives the    *)
(* changed account the new one.                                            *)
LEMMA ReindexedKeepsAnOwner ==
  ASSUME NEW ix \in SUBSET (Owner \X Pubkey), NEW a \in Pubkey,
         NEW prev, NEW d \in Data, NEW level
  PROVE  LET new == Reindexed(ix, a, prev, d, level)
         IN  /\ new \subseteq Owner \X Pubkey
             /\ \A b \in Pubkey : (\E o \in Owner : <<o, b>> \in ix)
                                  => \E o \in Owner : <<o, b>> \in new
             /\ prev.owner # d.owner => <<d.owner, a>> \in new
<1> DEFINE new == Reindexed(ix, a, prev, d, level)
<1>1. d.owner \in Owner
  BY DataFacts
<1>2. CASE prev.owner = d.owner
  BY <1>2 DEF Reindexed
<1>3. CASE prev.owner # d.owner
  <2>1. new = (IF level = Finalized THEN ix \ {<<prev.owner, a>>} ELSE ix)
                \cup {<<d.owner, a>>}
    BY <1>3 DEF Reindexed
  <2> HIDE DEF new
  <2>2. new \subseteq Owner \X Pubkey /\ <<d.owner, a>> \in new
    BY <1>1, <2>1
  <2>3. ASSUME NEW b \in Pubkey, NEW o \in Owner, <<o, b>> \in ix
        PROVE  \E p \in Owner : <<p, b>> \in new
    BY <1>1, <2>1, <2>3
  <2>. QED
    BY <2>2, <2>3 DEF new
<1>. QED
  BY <1>2, <1>3

(* An account stays locked while another task takes a step.                *)
LEMMA OthersStayLocked ==
  ASSUME TasksTypeOK, NEW u \in Updater, NEW x,
         updating' = [updating EXCEPT ![u] = x], NEW b,
         updating[u].at # "index" \/ updating[u].account # b,
         Locked(b)
  PROVE  Locked(b)'
<1>1. PICK v \in Updater : updating[v].at = "index" /\ updating[v].account = b
  BY DEF Locked
<1>2. v # u
  BY <1>1
<1>3. updating'[v] = updating[v]
  BY <1>2 DEF TasksTypeOK
<1>. QED
  BY <1>1, <1>3 DEF Locked

(* Who is not idle has an update to make.                                  *)
LEMMA BusyIsPending ==
  ASSUME TasksTypeOK, NEW u \in Updater, updating[u].at # "idle"
  PROVE  updating[u] \in Pending
BY DEF TasksTypeOK, Idle

(* What is known of the updaters holds of all when it holds of the one that *)
(* took a step, no account having lost its last owner.                     *)
LEMMA OneUpdaterSteps ==
  ASSUME TasksTypeOK, \A v \in Updater : UpdaterInv(v),
         NEW u \in Updater, NEW x \in {Idle} \cup Pending,
         updating' = [updating EXCEPT ![u] = x],
         \A b \in Pubkey : Indexed(b) => Indexed(b)',
         x.at \in {"owner", "insert"} => u \in Loader,
         x.at = "index" => x.prev.owner # x.data.owner,
         x.at = "insert" => Indexed(x.account)'
  PROVE  /\ \A v \in Updater : UpdaterInv(v)'
         /\ updating' \in [Updater -> {Idle} \cup Pending]
<1>1. updating' \in [Updater -> {Idle} \cup Pending]
  BY DEF TasksTypeOK
<1>2. ASSUME NEW v \in Updater
      PROVE  UpdaterInv(v)'
  <2>1. CASE v = u
    <3>1. updating'[v] = x
      BY <2>1 DEF TasksTypeOK
    <3>. QED
      BY <3>1 DEF UpdaterInv
  <2>2. CASE v # u
    <3>1. updating'[v] = updating[v]
      BY <2>2 DEF TasksTypeOK
    <3>2. updating[v].at = "insert" => updating[v].account \in Pubkey
      BY DEF TasksTypeOK, Pending, Idle
    <3>. QED
      BY <3>1, <3>2 DEF UpdaterInv
  <2>. QED
    BY <2>1, <2>2
<1>. QED
  BY <1>1, <1>2

(* What is shown of a slot stays shown when its entry is only added to, or  *)
(* only data of slots that are shown.                                      *)
LEMMA OthersStayShown ==
  ASSUME NEW a \in Pubkey, NEW slot, Shown(a, slot),
         store'[a] = store[a], reset \subseteq reset', missed \subseteq missed'
  PROVE  Shown(a, slot)'
BY DEF Shown

----------------------------------------------------------------------------
(* The steps                                                               *)

(* The invariant holds at the start.                                       *)
LEMMA InitInv == Init => StoreInv
<1> SUFFICES ASSUME Init
             PROVE  StoreInv
  OBVIOUS
<1> USE DEF Init
<1>1. \A a \in Pubkey : store[a] = Absent
  OBVIOUS
<1>2. TypeOK
  <2>1. store \in [Pubkey -> Entry]
    BY AbsentFacts
  <2>2. \A a \in Pubkey : store[a].processed = {}
    BY <1>1 DEF Absent
  <2>. QED
    BY <2>1, <2>2 DEF TypeOK
<1>3. TasksTypeOK
  BY DEF TasksTypeOK
<1>4. \A a \in Pubkey : Good(store[a])
  BY <1>1, AbsentFacts
<1>5. IndexInv
  BY <1>1 DEF IndexInv, UpdaterInv, KnownIsIndexed, Idle
<1>6. ShownInv
  BY DEF ShownInv
<1>. QED
  BY <1>2, <1>3, <1>4, <1>5, <1>6 DEF StoreInv

(* A call of the store begins: nothing is written.                         *)
LEMMA CallStep ==
  ASSUME StoreInv, NEW u \in Updater, NEW at \in {"store", "owner"},
         NEW w, NEW level \in Level, w.account \in Pubkey,
         [slot |-> w.slot, owner |-> w.owner] \in Data,
         at = "owner" => u \in Loader,
         Call(u, at, w, level)
  PROVE  StoreInv'
<1> DEFINE x == [at |-> at, account |-> w.account, level |-> level, prev |-> NoData,
                 data |-> [slot |-> w.slot, owner |-> w.owner]]
<1>1. /\ updating[u] = Idle
      /\ updating' = [updating EXCEPT ![u] = x]
      /\ UNCHANGED <<store, index, confirmedSlots, block, missed, reset>>
  BY DEF Call, history
<1>2. /\ x \in Pending /\ x.at # "index" /\ x.at # "insert"
      /\ x.at = "owner" => u \in Loader
  BY DEF Pending
<1> HIDE DEF x
<1>a. TasksTypeOK /\ IndexInv /\ ShownInv /\ TypeOK
  BY DEF StoreInv
<1>3. (\A v \in Updater : UpdaterInv(v)') /\ updating' \in [Updater -> {Idle} \cup Pending]
  <2>1. \A b \in Pubkey : Indexed(b) => Indexed(b)'
    BY <1>1 DEF Indexed
  <2>. QED
    BY <1>1, <1>2, <1>a, <2>1, OneUpdaterSteps DEF IndexInv
<1>4. KnownIsIndexed'
  <2>1. \A a \in Pubkey : Locked(a) => Locked(a)'
    <3>1. updating[u].at # "index"
      BY <1>1 DEF Idle
    <3>. QED
      BY <1>1, <1>a, <3>1, OthersStayLocked
  <2>. QED
    BY <1>1, <1>a, <2>1 DEF IndexInv, KnownIsIndexed
<1>5. TypeOK' /\ TasksTypeOK'
  BY <1>1, <1>3, <1>a DEF TypeOK, TasksTypeOK
<1>6. \A a \in Pubkey : Good(store'[a])
  BY <1>1 DEF StoreInv
<1>7. ShownInv'
  BY <1>1, <1>a DEF ShownInv, Shown, ToVisit
<1>. QED
  BY <1>3, <1>4, <1>5, <1>6, <1>7 DEF StoreInv, IndexInv

(* What the streams, the answers to the accounts on demand and the loading *)
(* carry are data of an account.                                           *)
LEMMA WritesAreData ==
  /\ \A w \in Streamed : /\ w.account \in Pubkey
                         /\ [slot |-> w.slot, owner |-> w.owner] \in Data
  /\ \A r \in Loaded : /\ r.account \in Pubkey /\ r.level \in Level
                       /\ [slot |-> r.slot, owner |-> r.owner] \in Data
<1>1. ASSUME NEW w \in Streamed
      PROVE  /\ w.account \in Pubkey
             /\ [slot |-> w.slot, owner |-> w.owner] \in Data
  <2>1. w.account \in Pubkey /\ w.slot \in 1 .. MaxSlot /\ w.owner \in Owner
    BY AccountStoreAssumption
  <2>. QED
    BY <2>1, AccountStoreAssumption DEF Data
<1>2. ASSUME NEW r \in Loaded
      PROVE  /\ r.account \in Pubkey /\ r.level \in Level
             /\ [slot |-> r.slot, owner |-> r.owner] \in Data
  <2>1. r.account \in Pubkey /\ r.slot \in 0 .. MaxSlot /\ r.owner \in Owner
        /\ r.level \in {0, 1, 2}
    BY AccountStoreAssumption
  <2>. QED
    BY <2>1 DEF Data, Level, Processed, Confirmed, Finalized
<1>. QED
  BY <1>1, <1>2

(* An update is received from a stream, or loaded.                         *)
LEMMA ReceiveStep ==
  ASSUME StoreInv, NEW u \in Updater, NEW w \in Streamed, Receive(u, w) \/ Load(u, w)
  PROVE  StoreInv'
<1>1. w.account \in Pubkey /\ [slot |-> w.slot, owner |-> w.owner] \in Data
  BY WritesAreData
<1>2. CASE Receive(u, w)
  <2>1. Raised(Processed, w.slot) \in Level
    BY DEF Raised, Level
  <2>. QED
    BY <1>1, <1>2, <2>1, CallStep DEF Receive
<1>3. CASE Load(u, w)
  <2> DEFINE at == IF store[w.account] = Absent THEN "owner" ELSE "store"
  <2>1. at \in {"store", "owner"} /\ Finalized \in Level
    BY DEF Level
  <2>2. Call(u, at, w, Finalized) /\ u \in Loader
    BY <1>3 DEF Load
  <2> HIDE DEF at
  <2>. QED
    BY <1>1, <2>1, <2>2, CallStep
<1>. QED
  BY <1>2, <1>3

(* The answer to the accounts on demand is stored like an update.          *)
LEMMA FetchStep ==
  ASSUME StoreInv, NEW u \in Updater, NEW r \in Loaded, Fetch(u, r)
  PROVE  StoreInv'
<1>1. /\ r.account \in Pubkey /\ r.level \in Level
      /\ [slot |-> r.slot, owner |-> r.owner] \in Data
  BY WritesAreData
<1>2. Raised(r.level, r.slot) \in Level
  BY <1>1 DEF Raised, Level
<1>. QED
  BY <1>1, <1>2, CallStep DEF Fetch

(* An entry is written: what is known of the entries stays known when the  *)
(* new entry is good.                                                      *)
LEMMA EntryIsWritten ==
  ASSUME TypeOK, \A b \in Pubkey : Good(store[b]),
         NEW a \in Pubkey, NEW f, Good(f), store' = [store EXCEPT ![a] = f]
  PROVE  /\ \A b \in Pubkey : Good(store'[b])
         /\ store' \in [Pubkey -> Entry]
         /\ store'[a] = f
         /\ \A b \in Pubkey : b # a => store'[b] = store[b]
         /\ \A b \in Pubkey : \A d, e \in store'[b].processed : d.slot = e.slot => d = e
<1>1. store \in [Pubkey -> Entry] /\ f \in Entry
  BY DEF TypeOK, Good
<1>2. /\ store' \in [Pubkey -> Entry]
      /\ store'[a] = f
      /\ \A b \in Pubkey : b # a => store'[b] = store[b]
  BY <1>1
<1>3. \A b \in Pubkey : Good(store'[b])
  BY <1>2
<1>4. \A b \in Pubkey : \A d, e \in store'[b].processed : d.slot = e.slot => d = e
  BY <1>3 DEF Good, Clean
<1>. QED
  BY <1>2, <1>3, <1>4

(* What is read of an entry stays when it is not written.                  *)
LEMMA EntryStays ==
  ASSUME NEW e, Good(e)
  PROVE  Rises(e, e)
<1>1. \A level \in Level : AccountData(e, level).slot \in Int
  BY AccountDataType DEF Good
<1>. QED
  BY <1>1 DEF Rises

(* What is read of all accounts advances when one entry is written, with a *)
(* newer one.                                                              *)
LEMMA OtherReads ==
  ASSUME \A b \in Pubkey : Good(store[b]),
         NEW a \in Pubkey, Rises(store[a], store'[a]),
         \A b \in Pubkey : b # a => store'[b] = store[b]
  PROVE  \A b \in Pubkey : Rises(store[b], store'[b])
BY EntryStays

(* The entry is updated or inserted.                                       *)
LEMMA StoreStep ==
  ASSUME StoreInv, NEW u \in Updater, Store(u)
  PROVE  StoreInv' /\ \A a \in Pubkey : Rises(store[a], store'[a])
<1>0. PICK a : a = updating[u].account
  OBVIOUS
<1> DEFINE m == updating[u]
           e == store[a]
           new == IF e = Absent THEN NewEntry(m.data, m.level)
                  ELSE Updated(e, m.data, m.level)
           prev == AccountData(e, m.level)
           x == IF e = Absent \/ (new # e /\ prev # NoData /\ prev.owner # m.data.owner)
                THEN [m EXCEPT !.at = "index", !.prev = prev] ELSE Idle
<1>a. TypeOK /\ TasksTypeOK /\ IndexInv /\ ShownInv
  BY DEF StoreInv
<1>1. /\ m.at = "store"
      /\ m.account = a
      /\ ~ Locked(a)
      /\ store' = [store EXCEPT ![a] = new]
      /\ updating' = [updating EXCEPT ![u] = x]
      /\ missed' = IF Raised(m.level, m.data.slot) # m.level
                   THEN missed \cup {<<a, m.data.slot>>} ELSE missed
      /\ UNCHANGED <<index, confirmedSlots, block, reset>>
  BY <1>0, Zenon DEF Store
<1>2. m \in Pending
  BY <1>1, <1>a, BusyIsPending
<1>b. /\ a \in Pubkey /\ m.level \in Level /\ m.data \in Data
      /\ m.data.slot \in 0 .. MaxSlot /\ m.data.slot \in Nat /\ m.data.owner \in Owner
  BY <1>1, <1>2, DataFacts DEF Pending, Data
<1>c. e \in Entry /\ Good(e)
  BY <1>b DEF StoreInv, Good
<1>3. prev \in Data \cup {NoData}
  BY <1>b, <1>c, AccountDataType
<1>d. e.confirmed.slot \in Int /\ e.finalized.slot \in Int
  BY <1>c, EntryFacts
<1>4. /\ Good(new) /\ new # Absent
      /\ e.processed \subseteq new.processed
      /\ \A p \in new.processed : p \in e.processed \/ p.slot = m.data.slot
      /\ e.confirmed.slot <= new.confirmed.slot
      /\ e.finalized.slot <= new.finalized.slot
      /\ m.level # Processed => m.data.slot <= new.confirmed.slot
  <2>1. CASE e = Absent
    <3>1. new = NewEntry(m.data, m.level)
      BY <2>1
    <3>2. e.processed = {} /\ e.confirmed.slot = -1 /\ e.finalized.slot = -1
      BY <2>1 DEF Absent, NoData
    <3>3. /\ Good(new) /\ new # Absent /\ new.processed = {m.data}
          /\ m.level # Processed => new.confirmed = m.data
      BY <3>1, <1>b, NewEntryIsGood
    <3> HIDE DEF new, e, m
    <3>4. -1 <= new.confirmed.slot /\ -1 <= new.finalized.slot
      BY <3>3, EntryFacts, DataFacts DEF Good
    <3>. QED
      BY <3>2, <3>3, <3>4, <1>b
  <2>2. CASE e # Absent
    <3>1. new = Updated(e, m.data, m.level)
      BY <2>2
    <3>. QED
      BY <3>1, <1>b, <1>c, UpdatedIsGood
  <2>. QED
    BY <2>1, <2>2
<1>5. x \in {Idle} \cup Pending
  BY <1>2, <1>3 DEF Pending
<1>6. x.at \notin {"owner", "insert"} /\ (x.at = "index" => x.prev.owner # x.data.owner)
  <2> SUFFICES ASSUME x # Idle
               PROVE  x.at = "index" /\ x.prev.owner # x.data.owner
    BY DEF Idle
  <2>1. x = [m EXCEPT !.at = "index", !.prev = prev] /\ (e = Absent \/ prev.owner # m.data.owner)
    OBVIOUS
  <2>2. x.at = "index" /\ x.prev = prev /\ x.data = m.data
    BY <2>1, <1>2 DEF Pending
  <2>3. e = Absent => prev.owner # m.data.owner
    <3>1. NoData.owner \notin Owner
      BY AccountStoreAssumption DEF NoData
    <3>. QED
      BY <3>1, <1>b, AbsentFacts
  <2> HIDE DEF x, prev, e, m
  <2>. QED
    BY <2>1, <2>2, <2>3
<1>l. \A b \in Pubkey : Locked(b) => Locked(b)'
  <2>1. updating[u].at # "index"
    BY <1>1
  <2> HIDE DEF x
  <2>. QED
    BY <1>1, <1>a, <2>1, OthersStayLocked
<1>i. e = Absent => Locked(a)'
  <2> SUFFICES ASSUME e = Absent
               PROVE  Locked(a)'
    OBVIOUS
  <2>1. x = [m EXCEPT !.at = "index", !.prev = prev]
    OBVIOUS
  <2>2. x.at = "index" /\ x.account = a
    BY <2>1, <1>1, <1>2 DEF Pending
  <2> HIDE DEF x
  <2>3. updating'[u] = x
    BY <1>1, <1>a DEF TasksTypeOK
  <2>. QED
    BY <2>2, <2>3 DEF Locked
<1> HIDE DEF x, new, prev
<1>7. (\A v \in Updater : UpdaterInv(v)') /\ updating' \in [Updater -> {Idle} \cup Pending]
  <2>1. \A b \in Pubkey : Indexed(b) => Indexed(b)'
    BY <1>1 DEF Indexed
  <2>. QED
    BY <1>1, <1>5, <1>6, <1>a, <2>1, OneUpdaterSteps DEF IndexInv
<1>8. /\ \A b \in Pubkey : Good(store'[b])
      /\ store' \in [Pubkey -> Entry]
      /\ store'[a] = new
      /\ \A b \in Pubkey : b # a => store'[b] = store[b]
      /\ \A b \in Pubkey : \A d, f \in store'[b].processed : d.slot = f.slot => d = f
  <2>1. \A b \in Pubkey : Good(store[b])
    BY DEF StoreInv
  <2> HIDE DEF e, m
  <2>. QED
    BY <2>1, <1>1, <1>4, <1>a, <1>b, EntryIsWritten
<1> HIDE DEF e, m
<1>9. TypeOK' /\ TasksTypeOK'
  <2>1. missed' \subseteq Pubkey \X (0 .. MaxSlot)
    BY <1>1, <1>a, <1>b DEF TypeOK
  <2>. QED
    BY <1>1, <1>7, <1>8, <1>a, <2>1 DEF TypeOK, TasksTypeOK
<1>10. KnownIsIndexed'
  <2> SUFFICES ASSUME NEW b \in Pubkey, store'[b] # Absent, ~ Locked(b)'
               PROVE  Indexed(b)'
    BY DEF KnownIsIndexed, Indexed
  <2>1. store[b] # Absent
    <3>1. CASE b = a
      <4>1. e # Absent
        BY <3>1, <1>i
      <4>. QED
        BY <3>1, <4>1 DEF e
    <3>2. CASE b # a
      BY <3>2, <1>8
    <3>. QED
      BY <3>1, <3>2
  <2>. QED
    BY <2>1, <1>1, <1>l, <1>a DEF IndexInv, KnownIsIndexed, Indexed
<1>11. ShownInv'
  <2> SUFFICES ASSUME NEW slot \in confirmedSlots, NEW b \in Pubkey, Shown(b, slot)
               PROVE  Shown(b, slot)'
    BY <1>1, <1>a DEF ShownInv, ToVisit
  <2>1. CASE b # a
    <3>1. missed \subseteq missed' /\ reset \subseteq reset'
      BY <1>1
    <3>. QED
      BY <2>1, <3>1, <1>8, OthersStayShown
  <2>2. CASE b = a
    <3> SUFFICES ASSUME NEW d \in new.processed, d.slot = slot, a \notin reset,
                        <<a, slot>> \notin missed'
                 PROVE  slot <= new.confirmed.slot
      BY <2>2, <1>1, <1>8 DEF Shown
    <3>a. slot \in Int /\ new.confirmed.slot \in Int
      BY <1>4, EntryFacts, <1>a DEF Good, TypeOK, Slot
    <3>1. CASE d \in e.processed
      <4>1. <<a, slot>> \notin missed
        BY <1>1
      <4>2. slot <= e.confirmed.slot
        BY <2>2, <3>1, <4>1 DEF Shown, e
      <4>. QED
        BY <4>2, <3>a, <1>4, <1>d
    <3>2. CASE d.slot = m.data.slot
      <4>1. m.level # Processed
        <5> SUFFICES ASSUME m.level = Processed
                     PROVE  FALSE
          OBVIOUS
        <5>1. Raised(m.level, m.data.slot) # m.level
          BY <3>2 DEF Raised, Processed, Confirmed
        <5>. QED
          BY <5>1, <3>2, <1>1
      <4>. QED
        BY <4>1, <3>2, <1>4
    <3>. QED
      BY <3>1, <3>2, <1>4
  <2>. QED
    BY <2>1, <2>2
<1>12. \A b \in Pubkey : Rises(store[b], store'[b])
  <2>1. Rises(e, new)
    <3>1. \A d \in e.processed : \E k \in new.processed : d.slot <= k.slot
      BY <1>4, <1>c, EntryFacts, DataFacts
    <3>. QED
      BY <3>1, <1>4, <1>c, EntryRises DEF Good
  <2>2. \A b \in Pubkey : Good(store[b])
    BY DEF StoreInv
  <2>3. Rises(store[a], store'[a])
    BY <2>1, <1>8 DEF e
  <2>. QED
    BY <2>2, <2>3, <1>b, <1>8, OtherReads
<1>. QED
  BY <1>7, <1>8, <1>9, <1>10, <1>11, <1>12 DEF StoreInv, IndexInv

(* The index takes the owner of what was stored.                           *)
LEMMA IndexStep ==
  ASSUME StoreInv, NEW u \in Updater, Index(u)
  PROVE  StoreInv'
<1>0. PICK a : a = updating[u].account
  OBVIOUS
<1> DEFINE m == updating[u]
<1>a. TypeOK /\ TasksTypeOK /\ IndexInv /\ ShownInv
  BY DEF StoreInv
<1>1. /\ m.at = "index" /\ m.account = a
      /\ index' = Reindexed(index, a, m.prev, m.data, m.level)
      /\ updating' = [updating EXCEPT ![u] = Idle]
      /\ UNCHANGED <<store, confirmedSlots, block, missed, reset>>
  BY <1>0 DEF Index, history
<1>2. a \in Pubkey /\ m.data \in Data
  <2>1. m \in Pending
    BY <1>1, <1>a, BusyIsPending
  <2>. QED
    BY <2>1, <1>1 DEF Pending
<1>3. m.prev.owner # m.data.owner
  BY <1>1, <1>a DEF IndexInv, UpdaterInv
<1> HIDE DEF m
<1>4. /\ index' \subseteq Owner \X Pubkey
      /\ \A b \in Pubkey : Indexed(b) => Indexed(b)'
      /\ Indexed(a)'
  <2>1. index \in SUBSET (Owner \X Pubkey)
    BY <1>a DEF TypeOK
  <2>2. m.data.owner \in Owner
    BY <1>2, DataFacts
  <2>. QED
    BY <2>1, <2>2, <1>1, <1>2, <1>3, ReindexedKeepsAnOwner DEF Indexed
<1>5. (\A v \in Updater : UpdaterInv(v)') /\ updating' \in [Updater -> {Idle} \cup Pending]
  <2>1. Idle \in {Idle} \cup Pending /\ Idle.at \notin {"index", "owner", "insert"}
    BY DEF Idle
  <2>. QED
    BY <2>1, <1>1, <1>4, <1>a, OneUpdaterSteps DEF IndexInv
<1>6. KnownIsIndexed'
  <2> SUFFICES ASSUME NEW b \in Pubkey, store[b] # Absent, ~ Locked(b)'
               PROVE  Indexed(b)'
    BY <1>1 DEF KnownIsIndexed, Indexed
  <2>1. CASE b = a
    BY <2>1, <1>4
  <2>2. CASE b # a
    <3>1. ~ Locked(b)
      BY <2>2, <1>1, <1>a, OthersStayLocked DEF m
    <3>. QED
      BY <3>1, <1>4, <1>a DEF IndexInv, KnownIsIndexed, Indexed
  <2>. QED
    BY <2>1, <2>2
<1>7. TypeOK' /\ TasksTypeOK'
  BY <1>1, <1>4, <1>5, <1>a DEF TypeOK, TasksTypeOK
<1>8. \A b \in Pubkey : Good(store'[b])
  BY <1>1 DEF StoreInv
<1>9. ShownInv'
  BY <1>1, <1>a DEF ShownInv, Shown, ToVisit
<1>. QED
  BY <1>5, <1>6, <1>7, <1>8, <1>9 DEF StoreInv, IndexInv

(* The loading adds the owner of an account that was absent.               *)
LEMMA LoadOwnerStep ==
  ASSUME StoreInv, NEW u \in Updater, LoadOwner(u)
  PROVE  StoreInv'
<1>0. PICK a : a = updating[u].account
  OBVIOUS
<1> DEFINE m == updating[u]
           x == [m EXCEPT !.at = "insert"]
<1>a. TypeOK /\ TasksTypeOK /\ IndexInv /\ ShownInv
  BY DEF StoreInv
<1>1. /\ m.at = "owner" /\ m.account = a
      /\ index' = index \cup {<<m.data.owner, a>>}
      /\ updating' = [updating EXCEPT ![u] = x]
      /\ UNCHANGED <<store, confirmedSlots, block, missed, reset>>
  BY <1>0, <1>a DEF LoadOwner, history, TasksTypeOK
<1>2. m \in Pending
  BY <1>1, <1>a, BusyIsPending
<1>3. a \in Pubkey /\ m.data.owner \in Owner
  BY <1>1, <1>2, DataFacts DEF Pending
<1>4. x \in Pending /\ x.at = "insert" /\ x.account = a /\ u \in Loader
  BY <1>1, <1>2, <1>a DEF Pending, IndexInv, UpdaterInv
<1> HIDE DEF m, x
<1>5. /\ index' \subseteq Owner \X Pubkey
      /\ \A b \in Pubkey : Indexed(b) => Indexed(b)'
      /\ Indexed(a)'
  BY <1>1, <1>3, <1>a DEF Indexed, TypeOK
<1>6. (\A v \in Updater : UpdaterInv(v)') /\ updating' \in [Updater -> {Idle} \cup Pending]
  BY <1>0, <1>1, <1>4, <1>5, <1>a, OneUpdaterSteps DEF IndexInv
<1>7. KnownIsIndexed'
  <2>1. \A b \in Pubkey : Locked(b) => Locked(b)'
    <3>1. updating[u].at # "index"
      BY <1>1 DEF m
    <3>. QED
      BY <3>1, <1>1, <1>a, OthersStayLocked
  <2>. QED
    BY <2>1, <1>1, <1>5, <1>a DEF IndexInv, KnownIsIndexed, Indexed
<1>8. TypeOK' /\ TasksTypeOK'
  BY <1>1, <1>5, <1>6, <1>a DEF TypeOK, TasksTypeOK
<1>9. \A b \in Pubkey : Good(store'[b])
  BY <1>1 DEF StoreInv
<1>10. ShownInv'
  BY <1>1, <1>a DEF ShownInv, Shown, ToVisit
<1>. QED
  BY <1>6, <1>7, <1>8, <1>9, <1>10 DEF StoreInv, IndexInv

(* The loading writes the entry, over whatever has come in since.          *)
LEMMA LoadInsertStep ==
  ASSUME StoreInv, NEW u \in Updater, LoadInsert(u)
  PROVE  /\ StoreInv'
         /\ \A b \in Pubkey : Rises(store[b], store'[b]) \/ updating[u].account = b
<1>0. PICK a : a = updating[u].account
  OBVIOUS
<1> DEFINE m == updating[u]
           new == NewEntry(m.data, Finalized)
<1>a. TypeOK /\ TasksTypeOK /\ IndexInv /\ ShownInv /\ \A b \in Pubkey : Good(store[b])
  BY DEF StoreInv
<1>1. /\ m.at = "insert" /\ m.account = a
      /\ ~ Locked(a)
      /\ store' = [store EXCEPT ![a] = new]
      /\ reset' = IF store[a] = Absent THEN reset ELSE reset \cup {a}
      /\ updating' = [updating EXCEPT ![u] = Idle]
      /\ UNCHANGED <<index, confirmedSlots, block, missed>>
  BY <1>0 DEF LoadInsert
<1>2. a \in Pubkey /\ m.data \in Data
  <2>1. m \in Pending
    BY <1>1, <1>a, BusyIsPending
  <2>. QED
    BY <2>1, <1>1 DEF Pending
<1>3. /\ Good(new) /\ new # Absent /\ new.processed = {m.data} /\ new.confirmed = m.data
      /\ m.data.slot \in Nat
  <2>1. Finalized \in Level /\ Finalized # Processed
    BY DEF Level, Finalized, Processed
  <2>. QED
    BY <1>2, <2>1, NewEntryIsGood, DataFacts
<1>4. Indexed(a)
  BY <1>1, <1>a DEF IndexInv, UpdaterInv
<1> HIDE DEF new
<1>5. /\ \A b \in Pubkey : Good(store'[b])
      /\ store' \in [Pubkey -> Entry]
      /\ store'[a] = new
      /\ \A b \in Pubkey : b # a => store'[b] = store[b]
      /\ \A b \in Pubkey : \A d, f \in store'[b].processed : d.slot = f.slot => d = f
  BY <1>1, <1>2, <1>3, <1>a, EntryIsWritten
<1>6. (\A v \in Updater : UpdaterInv(v)') /\ updating' \in [Updater -> {Idle} \cup Pending]
  <2>1. Idle \in {Idle} \cup Pending /\ Idle.at \notin {"index", "owner", "insert"}
    BY DEF Idle
  <2>2. \A b \in Pubkey : Indexed(b) => Indexed(b)'
    BY <1>1 DEF Indexed
  <2>. QED
    BY <2>1, <2>2, <1>1, <1>a, OneUpdaterSteps DEF IndexInv
<1>7. KnownIsIndexed'
  <2>1. \A b \in Pubkey : Locked(b) => Locked(b)'
    <3>1. updating[u].at # "index"
      BY <1>1
    <3>. QED
      BY <3>1, <1>1, <1>a, OthersStayLocked
  <2> SUFFICES ASSUME NEW b \in Pubkey, store'[b] # Absent, ~ Locked(b)'
               PROVE  Indexed(b)'
    BY DEF KnownIsIndexed, Indexed
  <2>2. CASE b = a
    BY <2>2, <1>1, <1>4 DEF Indexed
  <2>3. CASE b # a
    BY <2>1, <2>3, <1>1, <1>5, <1>a DEF IndexInv, KnownIsIndexed, Indexed
  <2>. QED
    BY <2>2, <2>3
<1>8. TypeOK' /\ TasksTypeOK'
  <2>1. reset' \subseteq Pubkey
    BY <1>1, <1>2, <1>a DEF TypeOK
  <2>. QED
    BY <1>1, <1>5, <1>6, <1>a, <2>1 DEF TypeOK, TasksTypeOK
<1>9. ShownInv'
  <2> SUFFICES ASSUME NEW slot \in confirmedSlots, NEW b \in Pubkey, Shown(b, slot)
               PROVE  Shown(b, slot)'
    BY <1>1, <1>a DEF ShownInv, ToVisit
  <2>1. CASE b # a
    <3>1. missed \subseteq missed' /\ reset \subseteq reset'
      BY <1>1
    <3>. QED
      BY <2>1, <3>1, <1>5, OthersStayShown
  <2>2. CASE b = a
    BY <2>2, <1>3, <1>5 DEF Shown
  <2>. QED
    BY <2>1, <2>2
<1>10. \A b \in Pubkey : Rises(store[b], store'[b]) \/ updating[u].account = b
  BY <1>0, <1>5, <1>a, EntryStays
<1>. QED
  BY <1>5, <1>6, <1>7, <1>8, <1>9, <1>10 DEF StoreInv, IndexInv

(* A block info is taken: all accounts are to be visited.                  *)
LEMMA MarkStep ==
  ASSUME StoreInv, NEW slot \in Slot, NEW level \in Level, Mark(slot, level)
  PROVE  StoreInv'
<1> DEFINE x == [at |-> "promote", slot |-> slot, level |-> level,
                 todo |-> Pubkey, moved |-> {}]
<1>a. TypeOK /\ TasksTypeOK /\ IndexInv /\ ShownInv /\ \A b \in Pubkey : Good(store[b])
  BY DEF StoreInv
<1>1. /\ block = Idle /\ level \in {Confirmed, Finalized}
      /\ confirmedSlots' = IF level = Confirmed THEN confirmedSlots \cup {slot}
                           ELSE confirmedSlots \ {slot}
      /\ block' = x
      /\ UNCHANGED <<store, index, updating, missed, reset>>
  BY DEF Mark, history
<1>2. /\ x \in Promoting /\ x # Idle
      /\ x.slot = slot /\ x.level = level /\ x.todo = Pubkey
  <2>1. x \in Promoting
    BY <1>1 DEF Promoting
  <2>2. x.at = "promote" /\ Idle.at = "idle"
    BY DEF Idle
  <2>. QED
    BY <2>1, <2>2
<1> HIDE DEF x
<1>3. TypeOK' /\ TasksTypeOK'
  BY <1>1, <1>2, <1>a DEF TypeOK, TasksTypeOK
<1>4. IndexInv' /\ \A b \in Pubkey : Good(store'[b])
  BY <1>1, <1>a DEF IndexInv, UpdaterInv, Indexed, KnownIsIndexed, Locked
<1>5. ShownInv'
  <2>1. ASSUME NEW s \in confirmedSlots', NEW b \in Pubkey
        PROVE  Shown(b, s)' \/ ToVisit(b, s)'
    <3>1. CASE s \in confirmedSlots
      BY <3>1, <1>1, <1>a DEF ShownInv, Shown, ToVisit
    <3>2. CASE s \notin confirmedSlots
      <4>1. s = slot /\ level = Confirmed
        BY <3>2, <2>1, <1>1
      <4>. QED
        BY <4>1, <1>1, <1>2 DEF ToVisit
    <3>. QED
      BY <3>1, <3>2
  <2>2. block' # Idle /\ block'.level = Finalized => block'.slot \notin confirmedSlots'
    BY <1>1, <1>2 DEF Confirmed, Finalized
  <2>. QED
    BY <2>1, <2>2 DEF ShownInv
<1>. QED
  BY <1>3, <1>4, <1>5 DEF StoreInv

(* The promotion of a slot goes on with its block info.                    *)
LEMMA BlockGoesOnType ==
  ASSUME NEW todo \in SUBSET Pubkey, NEW moved \in SUBSET Moved,
         block \in Promoting, BlockGoesOn(todo, moved)
  PROVE  /\ block' \in {Idle} \cup Promoting
         /\ block' # Idle => /\ block'.slot = block.slot /\ block'.level = block.level
                             /\ block'.todo = todo
         /\ todo # {} => block' # Idle
<1> DEFINE x == [block EXCEPT !.todo = todo, !.moved = moved]
<1>1. /\ x \in Promoting /\ x.slot = block.slot /\ x.level = block.level
      /\ x.todo = todo /\ x.at = "promote"
  BY DEF Promoting
<1>2. block' = IF todo = {} /\ moved = {} THEN Idle ELSE x
  BY DEF BlockGoesOn
<1> HIDE DEF x
<1>3. x # Idle
  BY <1>1 DEF Idle
<1>. QED
  BY <1>1, <1>2, <1>3

(* An account is visited, and shows its data of the slot from now on.      *)
LEMMA PromoteStep ==
  ASSUME StoreInv, NEW a \in Pubkey, Promote(a)
  PROVE  StoreInv' /\ \A b \in Pubkey : Rises(store[b], store'[b])
<1> DEFINE e == store[a]
           slot == block.slot
           level == block.level
           data == CHOOSE d \in e.processed : d.slot = slot
           new == Promoted(e, slot, level)
           todo == block.todo \ {a}
           moved == IF Promotes(e, slot, level)
                    THEN block.moved \cup {[account |-> a, data |-> data,
                                            prev |-> AccountData(e, level)]}
                    ELSE block.moved
<1>a. TypeOK /\ TasksTypeOK /\ IndexInv /\ ShownInv /\ \A b \in Pubkey : Good(store[b])
  BY DEF StoreInv
<1>1. /\ block.at = "promote" /\ a \in block.todo
      /\ store' = [store EXCEPT ![a] = new]
      /\ BlockGoesOn(todo, moved)
      /\ UNCHANGED <<index, confirmedSlots, updating, missed, reset>>
  BY DEF Promote, history
<1>2. block \in Promoting /\ block # Idle
  BY <1>1, <1>a DEF TasksTypeOK, Idle
<1>3. /\ slot \in Slot /\ level \in {Confirmed, Finalized} /\ level \in Level
      /\ todo \in SUBSET Pubkey /\ block.moved \in SUBSET Moved
  BY <1>2 DEF Promoting, Level
<1>4. e \in Entry /\ Good(e) /\ e.processed \in SUBSET Data
      /\ e.confirmed.slot \in Int
  BY <1>a, EntryFacts DEF Good
<1>5. moved \in SUBSET Moved
  <2>1. CASE Promotes(e, slot, level)
    <3>1. data \in e.processed
      BY <2>1 DEF Promotes
    <3>2. AccountData(e, level) \in Data \cup {NoData}
      BY <1>3, <1>4, AccountDataType
    <3> HIDE DEF data, e, level
    <3>3. [account |-> a, data |-> data, prev |-> AccountData(e, level)] \in Moved
      BY <3>1, <3>2, <1>4 DEF Moved
    <3>. QED
      BY <3>3, <1>3
  <2>2. CASE ~ Promotes(e, slot, level)
    BY <2>2, <1>3
  <2>. QED
    BY <2>1, <2>2
<1>6. /\ Good(new) /\ (new = Absent <=> e = Absent)
      /\ new.processed \subseteq e.processed
      /\ \A d \in e.processed : \E k \in new.processed : d.slot <= k.slot
      /\ e.confirmed.slot <= new.confirmed.slot
      /\ e.finalized.slot <= new.finalized.slot
      /\ level = Confirmed /\ (\E d \in e.processed : d.slot = slot)
         => slot <= new.confirmed.slot
  BY <1>3, <1>4, PromotedIsGood
<1> HIDE DEF new, moved, data
<1>7. /\ block' \in {Idle} \cup Promoting
      /\ block' # Idle => /\ block'.slot = slot /\ block'.level = level
                          /\ block'.todo = todo
      /\ todo # {} => block' # Idle
  BY <1>1, <1>2, <1>3, <1>5, BlockGoesOnType
<1>8. /\ \A b \in Pubkey : Good(store'[b])
      /\ store' \in [Pubkey -> Entry]
      /\ store'[a] = new
      /\ \A b \in Pubkey : b # a => store'[b] = store[b]
      /\ \A b \in Pubkey : \A d, f \in store'[b].processed : d.slot = f.slot => d = f
  BY <1>1, <1>6, <1>a, EntryIsWritten
<1>9. TypeOK' /\ TasksTypeOK'
  BY <1>1, <1>7, <1>8, <1>a DEF TypeOK, TasksTypeOK
<1>10. IndexInv'
  <2>1. \A b \in Pubkey : store'[b] # Absent => store[b] # Absent
    BY <1>6, <1>8
  <2>2. KnownIsIndexed'
    BY <2>1, <1>1, <1>a DEF IndexInv, KnownIsIndexed, Locked
  <2>3. \A v \in Updater : UpdaterInv(v)'
    BY <1>1, <1>a DEF IndexInv, UpdaterInv, Indexed
  <2>. QED
    BY <2>2, <2>3 DEF IndexInv
<1>11. ShownInv'
  <2>1. ASSUME NEW s \in confirmedSlots, NEW b \in Pubkey
        PROVE  Shown(b, s)' \/ ToVisit(b, s)'
    <3>1. CASE b # a /\ Shown(b, s)
      BY <3>1, <1>1, <1>8, OthersStayShown
    <3>2. CASE b # a /\ ToVisit(b, s)
      <4>1. s = slot /\ level = Confirmed /\ b \in todo
        BY <3>2 DEF ToVisit
      <4>. QED
        BY <4>1, <1>7 DEF ToVisit
    <3>3. CASE b = a
      <4> SUFFICES ASSUME NEW d \in e.processed, d.slot = s, a \notin reset,
                          <<a, s>> \notin missed
                   PROVE  s <= new.confirmed.slot
        BY <3>3, <1>1, <1>6, <1>8 DEF Shown
      <4>1. CASE Shown(a, s)
        <5>1. s <= e.confirmed.slot
          BY <4>1 DEF Shown
        <5>2. s \in Int /\ new.confirmed.slot \in Int
          BY <1>6, EntryFacts, <1>a DEF Good, TypeOK, Slot
        <5>. QED
          BY <5>1, <5>2, <1>4, <1>6
      <4>2. CASE ToVisit(a, s)
        BY <4>2, <1>6 DEF ToVisit
      <4>. QED
        BY <3>3, <4>1, <4>2, <1>a DEF ShownInv
    <3>. QED
      BY <3>1, <3>2, <3>3, <1>a DEF ShownInv
  <2>2. block' # Idle /\ block'.level = Finalized => block'.slot \notin confirmedSlots'
    BY <1>1, <1>2, <1>7, <1>a DEF ShownInv
  <2>. QED
    BY <2>1, <2>2, <1>1 DEF ShownInv
<1>12. \A b \in Pubkey : Rises(store[b], store'[b])
  <2>1. Rises(e, new)
    BY <1>4, <1>6, EntryRises DEF Good
  <2>. QED
    BY <2>1, <1>8, <1>a, OtherReads
<1>. QED
  BY <1>8, <1>9, <1>10, <1>11, <1>12 DEF StoreInv

(* The index takes the owner of what was promoted.                         *)
LEMMA IndexPromotedStep ==
  ASSUME StoreInv, block # Idle, NEW m \in block.moved, IndexPromoted(m)
  PROVE  StoreInv'
<1>a. TypeOK /\ TasksTypeOK /\ IndexInv /\ ShownInv /\ \A b \in Pubkey : Good(store[b])
  BY DEF StoreInv
<1>1. /\ block.todo = {}
      /\ index' = index \/ index' = Reindexed(index, m.account, m.prev, m.data, block.level)
      /\ BlockGoesOn({}, block.moved \ {m})
      /\ UNCHANGED <<store, confirmedSlots, updating, missed, reset>>
  BY DEF IndexPromoted, history
<1>2. block \in Promoting
  BY <1>a DEF TasksTypeOK
<1>3. block.moved \in SUBSET Moved /\ m.account \in Pubkey /\ m.data \in Data
  BY <1>2 DEF Promoting, Moved
<1>4. index' \subseteq Owner \X Pubkey /\ \A b \in Pubkey : Indexed(b) => Indexed(b)'
  <2>1. index \in SUBSET (Owner \X Pubkey)
    BY <1>a DEF TypeOK
  <2>. QED
    BY <2>1, <1>1, <1>3, ReindexedKeepsAnOwner DEF Indexed
<1>5. /\ block' \in {Idle} \cup Promoting
      /\ block' # Idle => block'.slot = block.slot /\ block'.level = block.level
  BY <1>1, <1>2, <1>3, BlockGoesOnType
<1>6. TypeOK' /\ TasksTypeOK'
  BY <1>1, <1>4, <1>5, <1>a DEF TypeOK, TasksTypeOK
<1>7. IndexInv'
  <2>1. KnownIsIndexed'
    BY <1>1, <1>4, <1>a DEF IndexInv, KnownIsIndexed, Locked, Indexed
  <2>2. ASSUME NEW v \in Updater
        PROVE  UpdaterInv(v)'
    <3>1. updating[v].at = "insert" => updating[v].account \in Pubkey
      BY <1>a DEF TasksTypeOK, Pending, Idle
    <3>. QED
      BY <3>1, <1>1, <1>4, <1>a DEF IndexInv, UpdaterInv
  <2>. QED
    BY <2>1, <2>2 DEF IndexInv
<1>8. ShownInv'
  <2>1. \A s \in confirmedSlots, b \in Pubkey : Shown(b, s)'
    BY <1>1, <1>a DEF ShownInv, Shown, ToVisit
  <2>2. block' # Idle /\ block'.level = Finalized => block'.slot \notin confirmedSlots'
    BY <1>1, <1>5, <1>a DEF ShownInv
  <2>. QED
    BY <2>1, <2>2, <1>1 DEF ShownInv
<1>9. \A b \in Pubkey : Good(store'[b])
  BY <1>1, <1>a
<1>. QED
  BY <1>6, <1>7, <1>8, <1>9 DEF StoreInv

----------------------------------------------------------------------------
(* The store                                                               *)

(* Every step keeps the invariant, and what is read of an account advances *)
(* save where the loading overwrites it.                                   *)
LEMMA NextStep ==
  StoreInv /\ [Next]_vars =>
    /\ StoreInv'
    /\ \A a \in Pubkey :
         \/ Rises(store[a], store'[a])
         \/ \E u \in Loader : LoadInsert(u) /\ updating[u].account = a
<1> SUFFICES ASSUME StoreInv, [Next]_vars
             PROVE  /\ StoreInv'
                    /\ \A a \in Pubkey :
                         \/ Rises(store[a], store'[a])
                         \/ \E u \in Loader : LoadInsert(u) /\ updating[u].account = a
  OBVIOUS
<1>a. \A a \in Pubkey : Good(store[a])
  BY DEF StoreInv
<1>s. store' = store => \A a \in Pubkey : Rises(store[a], store'[a])
  BY <1>a, EntryStays
<1>1. ASSUME NEW u \in Updater, NEW w \in Streamed, Receive(u, w) \/ Load(u, w)
      PROVE  StoreInv' /\ store' = store
  BY <1>1, ReceiveStep DEF Receive, Load, Call
<1>2. ASSUME NEW u \in Updater, NEW r \in Loaded, Fetch(u, r)
      PROVE  StoreInv' /\ store' = store
  BY <1>2, FetchStep DEF Fetch, Call
<1>3. ASSUME NEW u \in Updater, Index(u) \/ LoadOwner(u)
      PROVE  StoreInv' /\ store' = store
  BY <1>3, IndexStep, LoadOwnerStep DEF Index, LoadOwner
<1>4. ASSUME NEW slot \in Slot, NEW level \in Level, Mark(slot, level)
      PROVE  StoreInv' /\ store' = store
  BY <1>4, MarkStep DEF Mark
<1>5. ASSUME block # Idle, NEW m \in block.moved, IndexPromoted(m)
      PROVE  StoreInv' /\ store' = store
  BY <1>5, IndexPromotedStep DEF IndexPromoted
<1>6. ASSUME UNCHANGED <<store, index, confirmedSlots, updating, block, missed, reset>>
      PROVE  StoreInv' /\ store' = store
  BY <1>6 DEF StoreInv, TypeOK, TasksTypeOK, IndexInv, UpdaterInv, Indexed, KnownIsIndexed,
              Locked, ShownInv, Shown, ToVisit
<1>7. ASSUME NEW u \in Updater, LoadInsert(u)
      PROVE  /\ StoreInv'
             /\ \A a \in Pubkey :
                  \/ Rises(store[a], store'[a])
                  \/ \E v \in Loader : LoadInsert(v) /\ updating[v].account = a
  <2>1. u \in Loader
    BY <1>7 DEF LoadInsert, StoreInv, IndexInv, UpdaterInv
  <2>. QED
    BY <1>7, <2>1, LoadInsertStep
<1>8. CASE \E o \in Owner : QueryStart(o)
  BY <1>6, <1>8, <1>s DEF QueryStart, history
<1>9. CASE \E a \in Pubkey : QueryRead(a)
  BY <1>6, <1>9, <1>s DEF QueryRead, history
<1>10. CASE UNCHANGED vars
  BY <1>6, <1>10, <1>s DEF vars
<1>. QED
  BY <1>1, <1>2, <1>3, <1>4, <1>5, <1>7, <1>8, <1>9, <1>10, <1>s, StoreStep, PromoteStep
     DEF Next

(* The invariant says what the properties of the store say.                *)
LEMMA InvImpliesCurrent == StoreInv => AccountsAreCurrent
<1> SUFFICES ASSUME StoreInv
             PROVE  AccountsAreCurrent
  OBVIOUS
<1>1. TypeOK /\ KnownIsIndexed
  BY DEF StoreInv, IndexInv
<1>2. NewestIsKept
  <2> SUFFICES ASSUME NEW a \in Pubkey, store[a] # Absent,
                      NEW level \in {Confirmed, Finalized}
               PROVE  \E d \in store[a].processed : store[a][
                        IF level = Confirmed THEN "confirmed" ELSE "finalized"].slot <= d.slot
    BY DEF NewestIsKept
  <2>1. Covered(store[a])
    BY DEF StoreInv, Good
  <2>. QED
    BY <2>1 DEF Covered
<1>3. ConfirmedIsShown
  <2> SUFFICES ASSUME NEW slot \in confirmedSlots, NEW a \in Pubkey \ reset,
                      block = Idle \/ block.slot # slot
               PROVE  Shown(a, slot)
    BY DEF ConfirmedIsShown, Shown
  <2>. QED
    BY DEF StoreInv, ShownInv, ToVisit
<1>. QED
  BY <1>1, <1>2, <1>3 DEF AccountsAreCurrent

(* The inductive invariant of the account store always holds.              *)
THEOREM AccountStoreInvariant == Spec => []StoreInv
<1>1. StoreInv /\ [Next]_vars => StoreInv'
  BY NextStep
<1>. QED
  BY <1>1, InitInv, PTL DEF Spec

(* Whatever order updates, promotions, the loading and queries interleave  *)
(* in, processed data are the newest, an account that is known is found    *)
(* under some owner, and an account shows at confirmed what it has of a    *)
(* confirmed slot (update_account, process_slot_data).                     *)
THEOREM StoreIsCurrent == Spec => []AccountsAreCurrent
BY AccountStoreInvariant, InvImpliesCurrent, PTL

(* What a client can read of an account at any commitment never goes back  *)
(* to an older slot, save when the loading overwrites this account.        *)
THEOREM StoreReadsAdvance == Spec => ReadsAdvance
<1>1. StoreInv /\ [Next]_vars =>
        [\A a \in Pubkey, level \in Level :
           \/ AccountData(store[a], level).slot <= AccountData(store'[a], level).slot
           \/ \E u \in Loader : LoadInsert(u) /\ updating[u].account = a]_vars
  BY NextStep DEF Rises
<1>. QED
  BY <1>1, AccountStoreInvariant, PTL DEF Spec, ReadsAdvance

------------------------------------------------------------------------------
(* AccountsOnDemand                                                         *)

(* What a call has behind it, where it is.                                  *)
Right(c) ==
  calls[c] # NoCall =>
    LET a == calls[c].key
    IN  /\ calls[c].at \in {"lock", "joining", "waiting", "notified", "unload"} => a \in Account
        /\ calls[c].at \in {"filters", "push"} => a \in Program
        /\ At(c, "send") /\ a \in Account => a \in calls[c].sees
        /\ calls[c].at \in {"unload", "notified"} => outcome[a] # "none"

(* An account that is not subscribed to was not loaded, and what a load has *)
(* stored is there.                                                         *)
Told ==
  \A a \in Account :
    /\ a \notin subscribed => outcome[a] = "none"
    /\ outcome[a] = "stored" => <<a, 0>> \in stored

DemandInv ==
  /\ DemandTypeOK
  /\ OneLoader
  /\ AddedIsWanted
  /\ Told
  /\ \A c \in Caller : Right(c)

BeingLoaded == {"refresh", "send", "fetch", "unload"}

------------------------------------------------------------------------------
(* Steps of a call                                                          *)

(* The other calls are where they were.                                     *)
OthersStay(c) ==
  /\ DOMAIN calls' = Caller
  /\ \A d \in Caller \ {c} : calls'[d] = calls[d]

(* A call that goes somewhere is there, with what it had.                   *)
LEMMA GoesThere ==
  ASSUME DemandTypeOK, NEW c \in Caller, calls[c] # NoCall,
         NEW place \in {"lock", "joining", "waiting", "notified", "filters", "push", "refresh",
                        "send", "fetch", "unload", "found", "null", "timeout"},
         Goes(c, place)
  PROVE  /\ OthersStay(c)
         /\ calls'[c] \in CallState
         /\ calls'[c].at = place /\ calls'[c].key = calls[c].key
         /\ calls'[c].sees = calls[c].sees /\ calls'[c].level = calls[c].level
         /\ \A d \in Caller : calls'[d] \in CallState \cup {NoCall}
<1>1. calls' = [calls EXCEPT ![c] = [calls[c] EXCEPT !.at = place]]
  BY DEF Goes, DemandTypeOK
<1>2. calls[c] \in CallState
  BY DEF DemandTypeOK
<1>3. /\ [calls[c] EXCEPT !.at = place] \in CallState
      /\ [calls[c] EXCEPT !.at = place].at = place
      /\ [calls[c] EXCEPT !.at = place].key = calls[c].key
      /\ [calls[c] EXCEPT !.at = place].sees = calls[c].sees
      /\ [calls[c] EXCEPT !.at = place].level = calls[c].level
  BY <1>2 DEF CallState
<1> QED BY <1>1, <1>3 DEF OthersStay, DemandTypeOK

(* Calls that have their state and are not idle.                            *)
LEMMA CallIsOfType ==
  ASSUME DemandTypeOK, NEW c \in Caller, calls[c].at # "idle"
  PROVE  calls[c] # NoCall /\ calls[c] \in CallState
BY DEF DemandTypeOK, NoCall

(* A call that loads nothing, before and after, leaves who loads what.      *)
LEMMA LoadersStay ==
  ASSUME NEW c \in Caller, OthersStay(c), NEW a,
         ~ Loads(c, a), ~ Loads(c, a)'
  PROVE  \A d \in Caller : Loads(d, a)' <=> Loads(d, a)
BY DEF OthersStay, Loads

(* So does one that goes on loading the same.                               *)
LEMMA LoaderStays ==
  ASSUME NEW c \in Caller, OthersStay(c), NEW a, Loads(c, a), Loads(c, a)'
  PROVE  \A d \in Caller : Loads(d, a)' <=> Loads(d, a)
BY DEF OthersStay, Loads

------------------------------------------------------------------------------
(* Steps that neither begin nor end a load, and change nothing of the       *)
(* subscriptions, keep the invariant.                                       *)
LEMMA QuietKeeps ==
  ASSUME DemandInv, NEW c \in Caller, OthersStay(c),
         calls'[c] \in CallState \cup {NoCall}, Right(c)',
         \A a \in Account :
           /\ Loads(c, a)' <=> Loads(c, a)
           /\ Loads(c, a) /\ calls'[c].at # "unload" => calls[c].at # "unload"
           /\ Loads(c, a) /\ calls[c].at \in {"refresh", "send"}
                => calls'[c].at \in {"refresh", "send"},
         stored \subseteq stored', stored' \subseteq Key \X Commitment,
         filters' \in [Program -> Nat],
         UNCHANGED <<loading, subscribed, wanted, outcome, behind>>
  PROVE  DemandInv'
<1> USE DEF DemandInv
<1>1. DemandTypeOK'
  BY DEF DemandTypeOK, OthersStay, Account, Commitment, CallState, NoCall
<1>2. \A d \in Caller, a \in Account : Loads(d, a)' <=> Loads(d, a)
  BY DEF OthersStay, Loads
<1>3. \A d \in Caller, a \in Account :
        Loads(d, a) /\ calls'[d].at # "unload" => calls[d].at # "unload"
  BY DEF OthersStay
<1>4. \A d \in Caller, a \in Account :
        Loads(d, a) /\ calls[d].at \in {"refresh", "send"} => calls'[d].at \in {"refresh", "send"}
  BY DEF OthersStay
<1>5. OneLoader'
  BY <1>2, <1>3 DEF OneLoader, Account
<1>6. AddedIsWanted'
  BY <1>2, <1>4 DEF AddedIsWanted, DemandTypeOK
<1>7. Told' BY DEF Told, Account
<1>8. ASSUME NEW d \in Caller \ {c} PROVE Right(d)'
  <2>1. Right(d) /\ calls'[d] = calls[d] BY DEF OthersStay
  <2> QED BY <2>1 DEF Right, At, NoCall, Account
<1> QED BY <1>1, <1>5, <1>6, <1>7, <1>8

(* A call that goes somewhere else than to load keeps it, too.              *)
LEMMA QuietMoveKeeps ==
  ASSUME DemandInv, NEW c \in Caller, calls[c] # NoCall,
         NEW place \in {"joining", "waiting", "found", "null", "timeout", "push"},
         calls[c].at \in {"lock", "joining", "waiting", "notified", "filters", "fetch"},
         calls[c].at = "fetch" => calls[c].key \notin Account,
         place = "push" => calls[c].key \in Program,
         place \in {"joining", "waiting"} => calls[c].key \in Account,
         Goes(c, place),
         stored \subseteq stored', stored' \subseteq Key \X Commitment,
         UNCHANGED <<loading, subscribed, filters, wanted, outcome, behind>>
  PROVE  DemandInv'
<1> USE DEF DemandInv
<1>1. /\ OthersStay(c)
      /\ calls'[c] \in CallState
      /\ calls'[c].at = place /\ calls'[c].key = calls[c].key
  BY GoesThere
<1>2. \A a \in Account : ~ Loads(c, a) /\ ~ Loads(c, a)'
  BY <1>1 DEF Loads
<1>3. Right(c)'
  BY <1>1 DEF Right, At, Account
<1>4. filters' \in [Program -> Nat] BY DEF DemandTypeOK
<1> QED BY <1>1, <1>2, <1>3, <1>4, QuietKeeps

------------------------------------------------------------------------------
(* Steps that begin, go on with or end a load                               *)

(* A call that finds the account neither subscribed to nor loading is the   *)
(* first to load it, and the only one.                                      *)
LEMMA InspectKeeps ==
  ASSUME DemandInv, NEW c \in Caller, Inspect(c)
  PROVE  DemandInv'
<1> USE DEF DemandInv
<1>0. PICK a : a = calls[c].key
  OBVIOUS
<1>1. At(c, "lock") /\ calls[c] # NoCall /\ a \in Account
  BY <1>0, CallIsOfType DEF Inspect, At, Right
<1>2. CASE a \in loading
  BY <1>0, <1>1, <1>2, QuietMoveKeeps DEF Inspect, At, DemandTypeOK
<1>3. CASE a \in subscribed \ loading
  BY <1>0, <1>1, <1>3, QuietMoveKeeps DEF Inspect, At, DemandTypeOK, Returns
<1>4. CASE a \notin subscribed \cup loading
  <2>1. /\ loading' = loading \cup {a} /\ subscribed' = subscribed \cup {a}
        /\ Goes(c, "refresh")
        /\ UNCHANGED <<stored, filters, wanted, outcome, behind>>
    BY <1>0, <1>4 DEF Inspect
  <2>2. /\ OthersStay(c)
        /\ calls'[c] \in CallState
        /\ calls'[c].at = "refresh" /\ calls'[c].key = a
        /\ \A d \in Caller : calls'[d] \in CallState \cup {NoCall}
    BY <1>0, <1>1, <2>1, GoesThere
  <2>3. DemandTypeOK'
    BY <1>1, <2>1, <2>2 DEF DemandTypeOK, OthersStay, Account, Commitment, CallState, NoCall
  <2>4. calls'[c] # NoCall
    BY <2>2 DEF NoCall
  <2>5. Loads(c, a)' /\ outcome[a] = "none" /\ \A d \in Caller : ~ Loads(d, a)
    BY <1>1, <1>4, <2>2, <2>4 DEF Loads, OneLoader, Told
  <2>6. \A d \in Caller : Loads(d, a)' <=> d = c
    BY <2>2, <2>5 DEF Loads, OthersStay
  <2>7. \A b \in Account \ {a} : ~ Loads(c, b) /\ ~ Loads(c, b)'
    BY <1>0, <1>1, <2>2 DEF Loads
  <2>8. \A d \in Caller, b \in Account \ {a} : (Loads(d, b)' <=> Loads(d, b))
    BY <2>2, <2>7 DEF Loads, OthersStay
  <2>9. \A d \in Caller, b \in Account \ {a} : Loads(d, b) => calls'[d].at = calls[d].at
    BY <2>2, <2>7 DEF OthersStay
  <2>10. OneLoader'
    <3> SUFFICES ASSUME NEW b \in Account
                 PROVE /\ b \in loading' <=> \E d \in Caller : Loads(d, b)'
                       /\ \A d, e \in Caller : Loads(d, b)' /\ Loads(e, b)' => d = e
                       /\ \A d \in Caller : Loads(d, b)' /\ calls'[d].at # "unload" => outcome'[b] = "none"
      BY DEF OneLoader, Account
    <3>1. CASE b = a BY <2>1, <2>5, <2>6, <3>1
    <3>2. CASE b # a BY <2>1, <2>8, <2>9, <3>2 DEF OneLoader
    <3> QED BY <3>1, <3>2
  <2>11. AddedIsWanted'
    <3> SUFFICES ASSUME NEW b \in subscribed'
                 PROVE  \/ b \in wanted' \cup behind'
                        \/ \E d \in Caller : Loads(d, b)' /\ calls'[d].at \in {"refresh", "send"}
      BY DEF AddedIsWanted
    <3>1. CASE b = a BY <2>2, <2>5, <3>1
    <3>2. CASE b # a
      <4>1. b \in subscribed /\ b \in Account \ {a} BY <1>1, <2>1, <3>2 DEF DemandTypeOK
      <4> QED BY <2>1, <2>8, <2>9, <4>1 DEF AddedIsWanted
    <3> QED BY <3>1, <3>2
  <2>12. Told' BY <2>1 DEF Told, Account
  <2>13. ASSUME NEW d \in Caller PROVE Right(d)'
    <3>1. CASE d = c BY <2>2, <3>1 DEF Right, At
    <3>2. CASE d # c BY <2>1, <2>2, <3>2 DEF Right, At, OthersStay, NoCall, Account
    <3> QED BY <3>1, <3>2
  <2> QED BY <2>3, <2>10, <2>11, <2>12, <2>13
<1> QED BY <1>0, <1>2, <1>3, <1>4

(* A refresh that collects the subscriptions has the account among them.    *)
LEMMA RefreshReadKeeps ==
  ASSUME DemandInv, NEW c \in Caller, RefreshRead(c)
  PROVE  DemandInv'
<1> USE DEF DemandInv
<1>0. PICK seen : seen = {p \in Program : filters[p] > 0} \cup subscribed
  OBVIOUS
<1>1. At(c, "refresh") /\ calls[c] # NoCall /\ calls[c] \in CallState
  BY CallIsOfType DEF RefreshRead, At
<1>2. calls' = [calls EXCEPT ![c] = [calls[c] EXCEPT !.at = "send", !.sees = seen]]
  BY <1>0 DEF RefreshRead, DemandTypeOK
<1>3. seen \subseteq Account \cup Program
  BY <1>0 DEF DemandTypeOK
<1>4. /\ OthersStay(c)
      /\ calls'[c] \in CallState
      /\ calls'[c].at = "send" /\ calls'[c].key = calls[c].key /\ calls'[c].sees = seen
  BY <1>1, <1>2, <1>3 DEF OthersStay, DemandTypeOK, CallState
<1>5. calls'[c] # NoCall BY <1>4 DEF NoCall
<1>6. \A a \in Account : Loads(c, a)' <=> Loads(c, a)
  BY <1>1, <1>4, <1>5 DEF Loads, At
<1>7. Right(c)'
  <2>1. calls[c].key \in Account => calls[c].key \in seen
    BY <1>0, <1>1 DEF OneLoader, Loads, At, DemandTypeOK
  <2> QED BY <1>4, <2>1 DEF Right, At, Account
<1>8. filters' \in [Program -> Nat] /\ stored' \subseteq Key \X Commitment
  BY DEF DemandTypeOK, RefreshRead
<1> QED BY <1>1, <1>4, <1>6, <1>7, <1>8, QuietKeeps DEF RefreshRead, At

(* A refresh that is sent has the account; what it does not have that was   *)
(* wanted before falls behind.                                              *)
LEMMA RefreshSendKeeps ==
  ASSUME DemandInv, NEW c \in Caller, RefreshSend(c)
  PROVE  DemandInv'
<1> USE DEF DemandInv
<1>0. PICK k, seen : k = calls[c].key /\ seen = calls[c].sees
  OBVIOUS
<1>1. At(c, "send") /\ calls[c] # NoCall /\ calls[c] \in CallState
  BY CallIsOfType DEF RefreshSend, At
<1>2. calls' = [calls EXCEPT ![c] = [calls[c] EXCEPT !.at = "fetch", !.sees = {}]]
  BY DEF RefreshSend, DemandTypeOK
<1>3. /\ OthersStay(c)
      /\ calls'[c] \in CallState
      /\ calls'[c].at = "fetch" /\ calls'[c].key = k
      /\ \A d \in Caller : calls'[d] \in CallState \cup {NoCall}
  BY <1>0, <1>1, <1>2 DEF OthersStay, DemandTypeOK, CallState
<1>4. /\ wanted' = seen /\ behind' = (behind \cup wanted) \ wanted'
      /\ UNCHANGED <<stored, loading, subscribed, filters, outcome>>
  BY <1>0 DEF RefreshSend
<1>5. DemandTypeOK'
  <2>1. seen \subseteq Account \cup Program BY <1>0, <1>1 DEF CallState
  <2> QED
    BY <1>3, <1>4, <2>1 DEF DemandTypeOK, OthersStay, Account, Commitment, CallState, NoCall
<1>6. calls'[c] # NoCall BY <1>3 DEF NoCall
<1>7. \A d \in Caller, a \in Account :
        /\ Loads(d, a)' <=> Loads(d, a)
        /\ Loads(d, a) /\ d # c => calls'[d].at = calls[d].at
        /\ Loads(c, a) => a = k /\ calls[c].at # "unload"
  BY <1>0, <1>1, <1>3, <1>6 DEF Loads, OthersStay, At
<1>8. OneLoader'
  <2>1. \A d \in Caller, a \in Account :
          Loads(d, a) /\ calls'[d].at # "unload" => calls[d].at # "unload"
    BY <1>7
  <2> QED BY <1>4, <1>7, <2>1 DEF OneLoader, Account
<1>9. AddedIsWanted'
  <2> SUFFICES ASSUME NEW a \in subscribed'
               PROVE  \/ a \in wanted' \cup behind'
                      \/ \E d \in Caller : Loads(d, a)' /\ calls'[d].at \in {"refresh", "send"}
    BY DEF AddedIsWanted
  <2>1. a \in subscribed /\ a \in Account BY <1>4 DEF DemandTypeOK
  <2>2. CASE a \in wanted \cup behind
    BY <1>4, <2>2
  <2>3. CASE \E d \in Caller : Loads(d, a) /\ calls[d].at \in {"refresh", "send"}
    <3>1. PICK d \in Caller : Loads(d, a) /\ calls[d].at \in {"refresh", "send"}
      BY <2>3
    <3>2. CASE d = c
      <4>1. a = k /\ k \in seen BY <1>0, <1>1, <1>7, <2>1, <3>1, <3>2 DEF Right, At
      <4> QED BY <1>4, <4>1
    <3>3. CASE d # c BY <1>7, <2>1, <3>1, <3>3
    <3> QED BY <3>2, <3>3
  <2> QED BY <2>1, <2>2, <2>3 DEF AddedIsWanted
<1>10. Told' BY <1>4 DEF Told, Account
<1>11. ASSUME NEW d \in Caller PROVE Right(d)'
  <2>1. CASE d = c BY <1>3, <2>1 DEF Right, At
  <2>2. CASE d # c BY <1>3, <1>4, <2>2 DEF Right, At, OthersStay, NoCall, Account
  <2> QED BY <2>1, <2>2
<1> QED BY <1>5, <1>8, <1>9, <1>10, <1>11

(* The outcome of a load is told by the one call that loads the account.    *)
LEMMA LoadEnds ==
  ASSUME DemandInv, NEW c \in Caller, NEW a \in Account, calls[c].key = a, At(c, "fetch"),
         NEW what \in {"stored", "absent", "failed"},
         outcome' = [outcome EXCEPT ![a] = what],
         what = "stored" => <<a, 0>> \in stored',
         OthersStay(c), calls'[c] \in CallState,
         calls'[c].at = "unload", calls'[c].key = a,
         stored \subseteq stored', stored' \subseteq Key \X Commitment,
         UNCHANGED <<loading, subscribed, filters, wanted, behind>>
  PROVE  DemandInv'
<1> USE DEF DemandInv
<1>1. calls[c] # NoCall /\ calls'[c] # NoCall /\ Loads(c, a) /\ Loads(c, a)'
  BY DEF NoCall, At, Loads
<1>2. a \in loading /\ a \in subscribed
  BY <1>1 DEF OneLoader, DemandTypeOK
<1>3. DemandTypeOK'
  BY DEF DemandTypeOK, OthersStay, Account, Commitment, CallState, NoCall
<1>4. \A d \in Caller, b \in Account :
        /\ Loads(d, b)' <=> Loads(d, b)
        /\ Loads(d, b) /\ d # c => calls'[d].at = calls[d].at /\ b # a
        /\ Loads(c, b) => b = a
  BY <1>1 DEF Loads, OthersStay, OneLoader
<1>5. outcome'[a] = what /\ \A b \in Account \ {a} : outcome'[b] = outcome[b]
  BY DEF DemandTypeOK
<1>6. OneLoader'
  <2>1. \A b \in Account : b \in loading' <=> \E d \in Caller : Loads(d, b)'
    BY <1>4 DEF OneLoader
  <2>2. \A b \in Account : \A d, e \in Caller : Loads(d, b)' /\ Loads(e, b)' => d = e
    BY <1>4 DEF OneLoader
  <2>3. \A b \in Account : \A d \in Caller :
          Loads(d, b)' /\ calls'[d].at # "unload" => outcome'[b] = "none"
    BY <1>4, <1>5 DEF OneLoader
  <2> QED BY <2>1, <2>2, <2>3 DEF OneLoader, Account
<1>7. AddedIsWanted'
  <2>1. ~ (calls[c].at \in {"refresh", "send"}) BY DEF At
  <2>2. \A d \in Caller, b \in Account :
          Loads(d, b) /\ calls[d].at \in {"refresh", "send"}
            => Loads(d, b)' /\ calls'[d].at \in {"refresh", "send"}
    BY <1>4, <2>1
  <2>3. subscribed \subseteq Account BY DEF DemandTypeOK
  <2> QED BY <2>2, <2>3 DEF AddedIsWanted
<1>8. Told' BY <1>2, <1>5 DEF Told, Account
<1>9. ASSUME NEW d \in Caller PROVE Right(d)'
  <2>1. CASE d = c BY <1>5, <2>1 DEF Right, At
  <2>2. CASE d # c
    <3>1. Right(d) /\ calls'[d] = calls[d] BY <2>2 DEF OthersStay
    <3>2. \A b \in Account : outcome[b] # "none" => outcome'[b] # "none" BY <1>5
    <3> QED BY <3>1, <3>2 DEF Right, At, NoCall, Account
  <2> QED BY <2>1, <2>2
<1> QED BY <1>3, <1>6, <1>7, <1>8, <1>9

(* RPC has answered, has failed for good, or is asked again.                *)
LEMMA FetchAccountKeeps ==
  ASSUME DemandInv, NEW c \in Caller, FetchAccount(c)
  PROVE  DemandInv'
<1> USE DEF DemandInv
<1>0. PICK a : a = calls[c].key
  OBVIOUS
<1>1. At(c, "fetch") /\ a \in Account /\ calls[c] # NoCall /\ calls[c] \in CallState
  BY <1>0, CallIsOfType DEF FetchAccount, At
<1>2. UNCHANGED <<loading, subscribed, filters, wanted, behind>> /\ stored \subseteq Key \X Commitment
  BY DEF FetchAccount, DemandTypeOK
<1>3. CASE /\ a \in Key
           /\ stored' = stored \cup ({a} \X Reached(calls[c].level))
           /\ outcome' = [outcome EXCEPT ![a] = "stored"]
           /\ Goes(c, "unload")
  <2>1. Reached(calls[c].level) \subseteq Commitment /\ 0 \in Reached(calls[c].level)
    BY <1>1 DEF Reached, Commitment, CallState
  <2>2. stored \subseteq stored' /\ stored' \subseteq Key \X Commitment /\ <<a, 0>> \in stored'
    BY <1>2, <1>3, <2>1
  <2>3. OthersStay(c) /\ calls'[c] \in CallState /\ calls'[c].at = "unload" /\ calls'[c].key = a
    BY <1>0, <1>1, <1>3, GoesThere
  <2> QED BY <1>0, <1>1, <1>2, <1>3, <2>2, <2>3, LoadEnds
<1>4. CASE /\ outcome' = [outcome EXCEPT ![a] = "absent"]
           /\ Goes(c, "unload")
           /\ UNCHANGED stored
  <2>1. OthersStay(c) /\ calls'[c] \in CallState /\ calls'[c].at = "unload" /\ calls'[c].key = a
    BY <1>0, <1>1, <1>4, GoesThere
  <2> QED BY <1>0, <1>1, <1>2, <1>4, <2>1, LoadEnds
<1>5. CASE /\ calls' = [calls EXCEPT ![c].tries = calls[c].tries + 1,
                ![c].at = IF calls[c].tries + 1 < MaxTries THEN "fetch" ELSE "unload"]
           /\ outcome' = IF calls[c].tries + 1 < MaxTries THEN outcome
                         ELSE [outcome EXCEPT ![a] = "failed"]
           /\ UNCHANGED stored
  <2>1. calls[c].tries + 1 \in Nat BY <1>1 DEF CallState
  <2>2. PICK place \in {"fetch", "unload"} :
          /\ place = IF calls[c].tries + 1 < MaxTries THEN "fetch" ELSE "unload"
          /\ calls' = [calls EXCEPT ![c] = [calls[c] EXCEPT !.tries = calls[c].tries + 1, !.at = place]]
    BY <1>5 DEF DemandTypeOK
  <2>3. /\ OthersStay(c) /\ calls'[c] \in CallState
        /\ calls'[c].at = place /\ calls'[c].key = a
    BY <1>0, <1>1, <2>1, <2>2 DEF OthersStay, DemandTypeOK, CallState
  <2>4. CASE place = "unload"
    <3>1. outcome' = [outcome EXCEPT ![a] = "failed"] BY <1>5, <2>2, <2>4
    <3> QED BY <1>0, <1>1, <1>2, <1>5, <2>3, <2>4, <3>1, LoadEnds
  <2>5. CASE place = "fetch"
    <3>1. outcome' = outcome BY <1>5, <2>2, <2>5
    <3>2. \A b \in Account : Loads(c, b)' <=> Loads(c, b)
      BY <1>0, <1>1, <2>3, <2>5 DEF Loads, At, NoCall
    <3>3. Right(c)' BY <2>3, <2>5 DEF Right, At
    <3>4. filters' \in [Program -> Nat] BY <1>2 DEF DemandTypeOK
    <3> QED BY <1>1, <1>2, <1>5, <2>3, <2>5, <3>1, <3>2, <3>3, <3>4, QuietKeeps DEF At
  <2> QED BY <2>4, <2>5
<1> QED BY <1>0, <1>3, <1>4, <1>5 DEF FetchAccount

(* The call that has loaded an account tells all that wait for it.          *)
LEMMA UnloadKeeps ==
  ASSUME DemandInv, NEW c \in Caller, Unload(c)
  PROVE  DemandInv'
<1> USE DEF DemandInv
<1>0. PICK a : a = calls[c].key
  OBVIOUS
<1>1. At(c, "unload") /\ calls[c] # NoCall /\ calls[c] \in CallState
  BY CallIsOfType DEF Unload, At
<1>2. a \in Account /\ outcome[a] # "none" /\ Loads(c, a)
  BY <1>0, <1>1 DEF Right, At, Loads
<1>3. PICK place \in {"found", "null"} :
        place = IF outcome[a] = "stored" THEN "found" ELSE "null"
  OBVIOUS
<1>4. /\ loading' = loading \ {a}
      /\ UNCHANGED <<stored, subscribed, filters, wanted, outcome, behind>>
  BY <1>0 DEF Unload
<1>5. /\ DOMAIN calls' = Caller
      /\ calls'[c] = [calls[c] EXCEPT !.at = place]
      /\ \A d \in Caller \ {c} :
           \/ /\ At(d, "waiting") /\ calls[d].key = a
              /\ calls'[d] = [calls[d] EXCEPT !.at = "notified"]
           \/ calls'[d] = calls[d]
  BY <1>0, <1>3 DEF Unload
<1>6. /\ calls'[c] \in CallState /\ calls'[c].at = place /\ calls'[c].key = a
  BY <1>0, <1>1, <1>5 DEF CallState
<1>7. \A d \in Caller \ {c} :
        \/ /\ At(d, "waiting") /\ calls[d] \in CallState /\ calls[d].key = a
           /\ calls'[d] \in CallState /\ calls'[d].at = "notified" /\ calls'[d].key = a
        \/ calls'[d] = calls[d]
  <2> SUFFICES ASSUME NEW d \in Caller \ {c}, At(d, "waiting"), calls[d].key = a,
                      calls'[d] = [calls[d] EXCEPT !.at = "notified"]
               PROVE  /\ calls[d] \in CallState
                      /\ calls'[d] \in CallState /\ calls'[d].at = "notified" /\ calls'[d].key = a
    BY <1>5
  <2>1. calls[d] \in CallState BY CallIsOfType DEF At
  <2> QED BY <2>1 DEF CallState
<1>8. DemandTypeOK'
  <2>1. \A d \in Caller : calls'[d] \in CallState \cup {NoCall}
    BY <1>6, <1>7 DEF DemandTypeOK
  <2> QED BY <1>4, <1>5, <2>1 DEF DemandTypeOK, Account, Commitment, CallState, NoCall
<1>9. \A d \in Caller \ {c}, b \in Account :
        /\ Loads(d, b)' <=> Loads(d, b)
        /\ Loads(d, b) => calls'[d].at = calls[d].at
  BY <1>7 DEF Loads, At
<1>10. \A b \in Account : ~ Loads(c, b)' /\ (Loads(c, b) => b = a)
  BY <1>0, <1>6 DEF Loads
<1>11. \A d \in Caller \ {c} : ~ Loads(d, a)
  BY <1>2 DEF OneLoader
<1>12. OneLoader'
  <2> SUFFICES ASSUME NEW b \in Account
               PROVE /\ b \in loading' <=> \E d \in Caller : Loads(d, b)'
                     /\ \A d, e \in Caller : Loads(d, b)' /\ Loads(e, b)' => d = e
                     /\ \A d \in Caller : Loads(d, b)' /\ calls'[d].at # "unload" => outcome'[b] = "none"
    BY DEF OneLoader, Account
  <2>1. CASE b = a BY <1>4, <1>9, <1>10, <1>11, <2>1
  <2>2. CASE b # a BY <1>4, <1>9, <1>10, <2>2 DEF OneLoader
  <2> QED BY <2>1, <2>2
<1>13. AddedIsWanted'
  <2>1. \A d \in Caller, b \in Account :
          Loads(d, b) /\ calls[d].at \in {"refresh", "send"}
            => Loads(d, b)' /\ calls'[d].at \in {"refresh", "send"}
    BY <1>1, <1>9 DEF At
  <2>2. subscribed \subseteq Account BY DEF DemandTypeOK
  <2> QED BY <1>4, <2>1, <2>2 DEF AddedIsWanted
<1>14. Told' BY <1>4 DEF Told, Account
<1>15. ASSUME NEW d \in Caller PROVE Right(d)'
  <2>1. CASE d = c BY <1>6, <2>1 DEF Right, At
  <2>2. CASE d # c /\ calls'[d] = calls[d]
    BY <1>4, <2>2 DEF Right, At, NoCall, Account
  <2>3. CASE d # c /\ calls'[d] # calls[d]
    BY <1>2, <1>4, <1>7, <2>3 DEF Right, At, Account
  <2> QED BY <2>1, <2>2, <2>3
<1> QED BY <1>8, <1>12, <1>13, <1>14, <1>15

------------------------------------------------------------------------------
(* The invariant                                                            *)

(* Nothing is subscribed to, loaded or wanted at the start.                 *)
LEMMA DemandBegins == DemandInit => DemandInv
BY DemandAssumption
   DEF DemandInit, DemandInv, DemandTypeOK, OneLoader, AddedIsWanted, Told, Right, Loads,
       NoCall, At

(* A call that begins looks into the store.                                 *)
LEMMA AskKeeps ==
  ASSUME DemandInv, NEW c \in Caller, NEW key \in Account \cup Program,
         NEW level \in Commitment, Ask(c, key, level)
  PROVE  DemandInv'
<1> USE DEF DemandInv
<1>1. PICK place \in {"found", "lock", "filters"} :
        /\ place = IF key \in Account
                   THEN IF <<key, level>> \in stored THEN "found" ELSE "lock"
                   ELSE IF stored # {} THEN "found" ELSE "filters"
        /\ calls' = [calls EXCEPT ![c] =
             [key |-> key, level |-> level, tries |-> 0, sees |-> {}, at |-> place]]
  BY DEF Ask
<1>2. /\ OthersStay(c)
      /\ calls'[c] = [key |-> key, level |-> level, tries |-> 0, sees |-> {}, at |-> place]
      /\ calls'[c] \in CallState
  BY <1>1 DEF OthersStay, DemandTypeOK, CallState
<1>3. Right(c)' BY <1>1, <1>2 DEF Right, At, Account
<1>4. \A a \in Account : ~ Loads(c, a) /\ ~ Loads(c, a)'
  BY <1>2 DEF Ask, Loads
<1>5. filters' \in [Program -> Nat] /\ stored' \subseteq Key \X Commitment
  BY DEF DemandTypeOK, Ask
<1> QED BY <1>2, <1>3, <1>4, <1>5, QuietKeeps DEF Ask

(* Every step of a call keeps the invariant.                                *)
LEMMA StepKeeps ==
  ASSUME DemandInv, NEW c \in Caller, Step(c)
  PROVE  DemandInv'
<1> USE DEF DemandInv
<1>0. filters \in [Program -> Nat] /\ stored \subseteq Key \X Commitment
  BY DEF DemandTypeOK
<1>a. calls[c].at # "idle" => calls[c] # NoCall /\ calls[c] \in CallState /\ Right(c)
  BY CallIsOfType
<1>1. CASE Return(c)
  <2>1. OthersStay(c) /\ calls'[c] = NoCall
    BY <1>1 DEF Return, OthersStay, DemandTypeOK
  <2>2. Right(c)' BY <2>1 DEF Right
  <2>3. \A a \in Account : ~ Loads(c, a) /\ ~ Loads(c, a)'
    BY <1>1, <2>1 DEF Return, Loads
  <2> QED BY <1>0, <1>1, <2>1, <2>2, <2>3, QuietKeeps DEF Return
<1>2. CASE Inspect(c)
  BY <1>2, InspectKeeps
<1>3. CASE Join(c)
  BY <1>0, <1>3, <1>a, QuietMoveKeeps DEF Join, At, Right
<1>4. CASE WaitEnds(c)
  <2>1. PICK place \in {"timeout", "found", "null"} : Goes(c, place)
    BY <1>4 DEF WaitEnds, Returns
  <2>2. calls[c].at \in {"waiting", "notified"} /\ stored' = stored
        /\ UNCHANGED <<loading, subscribed, filters, wanted, outcome, behind>>
    BY <1>4 DEF WaitEnds, At
  <2> QED BY <1>0, <1>a, <2>1, <2>2, QuietMoveKeeps
<1>5. CASE RefreshRead(c)
  BY <1>5, RefreshReadKeeps
<1>6. CASE RefreshSend(c)
  BY <1>6, RefreshSendKeeps
<1>7. CASE FetchAccount(c)
  BY <1>7, FetchAccountKeeps
<1>8. CASE Unload(c)
  BY <1>8, UnloadKeeps
<1>9. CASE LookForFilter(c)
  <2>1. PICK place \in {"null", "push"} : Goes(c, place)
    BY <1>9 DEF LookForFilter, Returns
  <2>2. calls[c].at = "filters" /\ calls[c].key \in Program
        /\ UNCHANGED <<stored, loading, subscribed, filters, wanted, outcome, behind>>
    BY <1>9, <1>a DEF LookForFilter, At, Right
  <2> QED BY <1>0, <1>a, <2>1, <2>2, QuietMoveKeeps
<1>10. CASE PushFilter(c)
  <2>1. /\ calls[c].at = "push" /\ calls[c].key \in Program /\ calls[c] # NoCall
        /\ Goes(c, "refresh")
        /\ filters' = [filters EXCEPT ![calls[c].key] = @ + 1]
        /\ UNCHANGED <<stored, loading, subscribed, wanted, outcome, behind>>
    BY <1>10, <1>a DEF PushFilter, At, Right
  <2>2. /\ OthersStay(c) /\ calls'[c] \in CallState
        /\ calls'[c].at = "refresh" /\ calls'[c].key = calls[c].key
    BY <2>1, GoesThere
  <2>3. \A a \in Account : ~ Loads(c, a) /\ ~ Loads(c, a)'
    BY <2>1, <2>2, DemandAssumption DEF Loads, Account
  <2>4. Right(c)' BY <2>2 DEF Right, At
  <2>5. filters' \in [Program -> Nat] BY <1>0, <2>1
  <2> QED BY <1>0, <2>1, <2>2, <2>3, <2>4, <2>5, QuietKeeps
<1>11. CASE FetchProgram(c)
  <2>1. /\ calls[c].at = "fetch" /\ calls[c] # NoCall /\ calls[c] \in CallState
        /\ calls[c].key \notin Account
        /\ UNCHANGED <<loading, subscribed, filters, wanted, outcome, behind>>
    BY <1>11, <1>a, DemandAssumption DEF FetchProgram, At, Account
  <2>2. Reached(calls[c].level) \subseteq Commitment
    BY <2>1 DEF Reached, Commitment, CallState
  <2>3. stored \subseteq stored' /\ stored' \subseteq Key \X Commitment
    BY <1>0, <1>11, <2>2 DEF FetchProgram
  <2>4. PICK place \in {"found", "null"} : Goes(c, place)
    BY <1>11 DEF FetchProgram, Returns
  <2> QED BY <2>1, <2>3, <2>4, QuietMoveKeeps
<1> QED
  BY <1>1, <1>2, <1>3, <1>4, <1>5, <1>6, <1>7, <1>8, <1>9, <1>10, <1>11 DEF Step

(* The stream only adds to what is stored.                                  *)
LEMMA StreamKeeps ==
  ASSUME DemandInv, NEW a \in Account, Stream(a)
  PROVE  DemandInv'
<1> USE DEF DemandInv
<1>1. PICK level \in Commitment : a \in Key /\ stored' = stored \cup ({a} \X Reached(level))
  BY DEF Stream
<1>2. Reached(level) \subseteq Commitment
  BY DEF Reached, Commitment
<1>3. stored \subseteq stored' /\ stored' \subseteq Key \X Commitment
  BY <1>1, <1>2 DEF DemandTypeOK
<1>4. UNCHANGED <<loading, subscribed, filters, wanted, calls, outcome, behind>>
  BY DEF Stream
<1>5. DemandTypeOK'
  BY <1>3, <1>4 DEF DemandTypeOK, Account, Commitment, CallState, NoCall
<1>6. OneLoader' /\ AddedIsWanted'
  BY <1>4 DEF OneLoader, AddedIsWanted, Loads, Account, NoCall
<1>7. Told' BY <1>3, <1>4 DEF Told, Account
<1>8. \A c \in Caller : Right(c)' BY <1>4 DEF Right, At, Account, NoCall
<1> QED BY <1>5, <1>6, <1>7, <1>8

(* The invariant holds in every reachable state, for any number of calls,   *)
(* accounts, programs and tries.                                            *)
THEOREM DemandInvariant == DemandSpec => []DemandInv
<1>1. DemandInv /\ [DemandNext]_odVars => DemandInv'
  <2> SUFFICES ASSUME DemandInv, [DemandNext]_odVars PROVE DemandInv'
    OBVIOUS
  <2>1. CASE \E a \in Account : Stream(a) BY <2>1, StreamKeeps
  <2>2. CASE \E c \in Caller, key \in Account \cup Program, level \in Commitment : Ask(c, key, level)
    BY <2>2, AskKeeps
  <2>3. CASE \E c \in Caller : Step(c) BY <2>3, StepKeeps
  <2>4. CASE UNCHANGED odVars
    BY <2>4 DEF odVars, DemandInv, DemandTypeOK, OneLoader, AddedIsWanted, Told, Right, Loads,
                At, Account, Commitment, CallState, NoCall
  <2> QED BY <2>1, <2>2, <2>3, <2>4 DEF DemandNext
<1> QED BY <1>1, DemandBegins, PTL DEF DemandSpec

(* An account is loaded by one call, those that wait for it are told after  *)
(* it was stored or the load has failed (accounts_in_loading), and whatever *)
(* is subscribed to was sent to the manager, unless an older refresh was    *)
(* sent after it (refresh_subscription).                                    *)
THEOREM DemandSubscribedIsWanted == DemandSpec => []SubscribedIsWanted
<1>1. DemandInv => NotifiedAfterStored
  <2> SUFFICES ASSUME DemandInv, NEW c \in Caller, At(c, "notified")
               PROVE  /\ outcome[calls[c].key] # "none"
                      /\ outcome[calls[c].key] = "stored" => <<calls[c].key, 0>> \in stored
    BY DEF NotifiedAfterStored
  <2>1. calls[c] # NoCall BY DEF At, NoCall
  <2>2. calls[c].key \in Account /\ outcome[calls[c].key] # "none"
    BY <2>1 DEF DemandInv, Right, At
  <2> QED BY <2>2 DEF DemandInv, Told
<1>2. DemandInv => SubscribedIsWanted
  BY <1>1 DEF DemandInv, SubscribedIsWanted
<1> QED BY <1>2, DemandInvariant, PTL

(* An account whose load has ended is not loaded again: it stays subscribed *)
(* to, and a call that finds it so gives up (accounts_on_demand.rs:148).    *)
THEOREM DemandLoadsOnce ==
  DemandSpec => [][\A a \in Account : outcome[a] # "none" => outcome'[a] = outcome[a]]_odVars
<1>1. ASSUME DemandInv, [DemandNext]_odVars, NEW a \in Account, outcome[a] # "none"
      PROVE  outcome'[a] = outcome[a]
  <2>1. CASE \E c \in Caller : FetchAccount(c)
    <3>1. PICK c \in Caller : FetchAccount(c) BY <2>1
    <3>2. PICK k : k = calls[c].key OBVIOUS
    <3>3. calls[c] # NoCall /\ At(c, "fetch") /\ k \in Account
      BY <3>1, <3>2 DEF FetchAccount, At, NoCall
    <3>4. outcome[k] = "none"
      <4>1. Loads(c, k) /\ calls[c].at # "unload" BY <3>2, <3>3 DEF Loads, At
      <4>2. OneLoader BY <1>1 DEF DemandInv
      <4> QED BY <3>3, <4>1, <4>2 DEF OneLoader
    <3>5. \/ outcome' = outcome
          \/ \E what \in {"stored", "absent", "failed"} : outcome' = [outcome EXCEPT ![k] = what]
      BY <3>1, <3>2 DEF FetchAccount
    <3> QED BY <1>1, <3>4, <3>5 DEF DemandInv, DemandTypeOK
  <2>2. CASE ~ \E c \in Caller : FetchAccount(c)
    <3>1. outcome' = outcome
      BY <1>1, <2>2 DEF DemandNext, odVars, Stream, Ask, Step, Return, Inspect, Join, WaitEnds,
             RefreshRead, RefreshSend, Unload, LookForFilter, PushFilter, FetchProgram
    <3> QED BY <3>1
  <2> QED BY <2>1, <2>2
<1>2. DemandInv /\ [DemandNext]_odVars
        => [\A a \in Account : outcome[a] # "none" => outcome'[a] = outcome[a]]_odVars
  BY <1>1
<1> QED BY <1>2, DemandInvariant, PTL DEF DemandSpec

------------------------------------------------------------------------------
(* AddressTables                                                            *)

TableLoad == [table : Table, round : Nat, answer : Unread .. Modulus, behind : BOOLEAN,
              late : BOOLEAN, done : BOOLEAN]

TablesTypeOK ==
  /\ tables \in [Table -> NoTable .. Modulus]
  /\ request \in [Table -> Unused .. Modulus - 1]
  /\ rest \in [Table -> Nat]
  /\ round \in Nat
  /\ loads \in Seq(TableLoad)
  /\ flawed \in SUBSET Table

(* Loads are of this batch or of one before it; those of before that go on  *)
(* were given up.                                                           *)
RoundsAgree ==
  \A n \in DOMAIN loads :
    loads[n].round <= round /\ (n \in Loading \ Started => loads[n].late)

(* Loads are started and waited for only while a block is at work, and an   *)
(* answer has what the block asks for unless its table is flawed.           *)
AnswerIsOfUse ==
  /\ NoBlock => Reloaded
  /\ \A n \in OfBatch : loads[n].answer # Unread =>
       request[loads[n].table] < loads[n].answer \/ loads[n].table \in flawed

(* Unless another load may interfere, or it was behind from the beginning,  *)
(* the answer waited for is not older than what is stored.                  *)
AnswerIsNewest ==
  \A n \in OfBatch :
    loads[n].answer # Unread /\ ~ loads[n].behind =>
      \/ LoadedLate(loads[n].table) \/ AskedTwice(loads[n].table)
      \/ tables[loads[n].table] <= loads[n].answer

(* A lookup is still to be loaded, is being loaded, or resolves, unless a   *)
(* load of its table was of no use or came late.                            *)
LookupIsServed ==
  \A t \in Table : request[t] # Unused =>
    \/ rest[t] > 0 \/ Resolves(t) \/ t \in flawed \/ LoadedLate(t)
    \/ \E n \in OfBatch : loads[n].table = t

TablesInv ==
  TablesTypeOK /\ RoundsAgree /\ AnswerIsOfUse /\ AnswerIsNewest /\ LookupIsServed

(* The size that reload_if_necessary goes by is not above the size stored.  *)
LEMMA SizeIsNotOver ==
  ASSUME NEW size \in 0 .. Modulus
  PROVE  size % Modulus \in Nat /\ size % Modulus <= size
<1>1. CASE size = Modulus
  BY <1>1, TablesAssumption
<1>2. CASE size < Modulus
  BY <1>2, TablesAssumption
<1> QED BY <1>1, <1>2, TablesAssumption

LEMMA TablesInitInv == TablesInit => TablesInv
<1> SUFFICES ASSUME TablesInit PROVE TablesInv
  OBVIOUS
<1>1. /\ DOMAIN loads = {} /\ Started = {} /\ OfBatch = {} /\ Reloaded
  BY DEF TablesInit, OfBatch, Started, Reloaded
<1>2. TablesTypeOK
  BY TablesAssumption DEF TablesInit, TablesTypeOK, NoRequest, NoRest, Unused, NoTable
<1>3. RoundsAgree /\ AnswerIsOfUse /\ AnswerIsNewest
  BY <1>1 DEF RoundsAgree, AnswerIsOfUse, AnswerIsNewest
<1>4. LookupIsServed
  BY DEF LookupIsServed, TablesInit, NoRequest
<1> QED BY <1>2, <1>3, <1>4 DEF TablesInv

(* A load as it is in a state of the invariant.                             *)
LEMMA LoadsTyped ==
  ASSUME TablesInv, NEW n \in DOMAIN loads
  PROVE  /\ loads[n] \in TableLoad /\ loads[n].table \in Table /\ loads[n].round \in Nat
         /\ loads[n].answer \in Int /\ loads[n].behind \in BOOLEAN
         /\ loads[n].late \in BOOLEAN /\ loads[n].done \in BOOLEAN
<1>1. loads \in Seq(TableLoad)
  BY DEF TablesInv, TablesTypeOK
<1>2. loads[n] \in TableLoad
  BY <1>1
<1> QED BY <1>2, TablesAssumption DEF TableLoad, Unread

------------------------------------------------------------------------------
(* One lemma for each action                                                *)

LEMMA ReloadInv ==
  ASSUME TablesInv, NEW lookups \in [Table -> Unused .. Modulus - 1],
         NEW entries \in [Table -> 0 .. MaxLookups], Reload(lookups, entries)
  PROVE  TablesInv'
<1> USE DEF Reload
<1>1. TablesTypeOK'
  BY TablesAssumption DEF TablesInv, TablesTypeOK
<1>2. OfBatch' = {} /\ ~ NoBlock'
  BY DEF TablesInv, AnswerIsOfUse, Reloaded, OfBatch, Started, NoBlock
<1>3. RoundsAgree'
  BY DEF TablesInv, RoundsAgree, Loading, Started
<1>4. AnswerIsOfUse' /\ AnswerIsNewest'
  BY <1>2 DEF AnswerIsOfUse, AnswerIsNewest
<1>5. ASSUME NEW t \in Table, request'[t] # Unused, ~ (rest'[t] > 0)
      PROVE  Resolves(t)'
  <2>1. tables[t] \in 0 .. Modulus /\ lookups[t] \in Nat
    BY <1>5, TablesAssumption DEF TablesInv, TablesTypeOK, NeedsReload, NoTable, Unused
  <2>2. lookups[t] < tables[t] % Modulus
    BY <1>5, <2>1, SizeIsNotOver DEF NeedsReload
  <2> QED BY <2>1, <2>2, SizeIsNotOver, TablesAssumption DEF Resolves
<1>6. LookupIsServed'
  BY <1>5 DEF LookupIsServed
<1> QED BY <1>1, <1>3, <1>4, <1>6 DEF TablesInv

LEMMA StartLoadInv ==
  ASSUME TablesInv, NEW t \in Table, StartLoad(t)
  PROVE  TablesInv'
<1> DEFINE new == [table |-> t, round |-> round, answer |-> Unread,
                   behind |-> FALSE, late |-> FALSE, done |-> FALSE]
           k == Len(loads) + 1
<1>1. /\ loads \in Seq(TableLoad) /\ loads' = Append(loads, new) /\ rest[t] > 0
      /\ rest' = [rest EXCEPT ![t] = @ - 1] /\ rest \in [Table -> Nat] /\ round \in Nat
      /\ tables' = tables /\ request' = request /\ round' = round /\ flawed' = flawed
  BY DEF StartLoad, TablesInv, TablesTypeOK
<1>2. new \in TableLoad
  BY <1>1, TablesAssumption DEF TableLoad, Unread
<1>3. /\ DOMAIN loads' = DOMAIN loads \cup {k} /\ k \notin DOMAIN loads
      /\ loads'[k] = new /\ \A n \in DOMAIN loads : loads'[n] = loads[n]
  BY <1>1, <1>2
<1>4. OfBatch' = OfBatch \cup {k} /\ Started' = Started \cup {k}
  BY <1>1, <1>3 DEF OfBatch, Started, Loading
<1>5. OfBatch \subseteq DOMAIN loads /\ Started \subseteq DOMAIN loads
  BY DEF OfBatch, Started
<1>6. TablesTypeOK'
  <2>1. rest' \in [Table -> Nat]
    BY <1>1
  <2>2. loads' \in Seq(TableLoad)
    BY <1>1, <1>2
  <2> QED BY <1>1, <2>1, <2>2 DEF TablesInv, TablesTypeOK
<1>7. RoundsAgree'
  BY <1>1, <1>3 DEF TablesInv, RoundsAgree, Loading, Started
<1>8. ~ NoBlock
  BY <1>1 DEF TablesInv, AnswerIsOfUse, Reloaded, NoRest
<1>9. AnswerIsOfUse'
  BY <1>1, <1>3, <1>4, <1>5, <1>8 DEF TablesInv, AnswerIsOfUse, NoBlock
<1>10. \A u \in Table : /\ LoadedLate(u) => LoadedLate(u)'
                        /\ AskedTwice(u) => AskedTwice(u)'
  BY <1>3, <1>4, <1>5 DEF LoadedLate, AskedTwice
<1>11. AnswerIsNewest'
  <2>1. ASSUME NEW n \in OfBatch', loads'[n].answer # Unread, ~ loads'[n].behind,
               NEW u, u = loads'[n].table
        PROVE  LoadedLate(u)' \/ AskedTwice(u)' \/ tables[u] <= loads'[n].answer
    <3>1. n \in OfBatch /\ loads'[n] = loads[n] /\ u \in Table
      BY <2>1, <1>3, <1>4, <1>5, LoadsTyped
    <3> QED BY <2>1, <3>1, <1>10 DEF TablesInv, AnswerIsNewest
  <2> QED BY <2>1, <1>1 DEF AnswerIsNewest
<1>12. LookupIsServed'
  <2> SUFFICES ASSUME NEW u \in Table, request[u] # Unused
               PROVE  \/ rest'[u] > 0 \/ Resolves(u) \/ u \in flawed \/ LoadedLate(u)'
                      \/ \E n \in OfBatch' : loads'[n].table = u
    BY <1>1 DEF LookupIsServed, Resolves
  <2>1. CASE u = t
    BY <2>1, <1>3, <1>4
  <2>2. CASE u # t
    BY <2>2, <1>1, <1>3, <1>4, <1>5, <1>10 DEF TablesInv, LookupIsServed
  <2> QED BY <2>1, <2>2
<1> QED BY <1>6, <1>7, <1>9, <1>11, <1>12 DEF TablesInv

(* The loads after a step that changes one of them and leaves its table.    *)
LEMMA LoadChanges ==
  ASSUME TablesInv, NEW n \in DOMAIN loads, NEW new \in TableLoad,
         new.table = loads[n].table, new.round = loads[n].round, new.late = loads[n].late,
         round' = round, loads' = [loads EXCEPT ![n] = new]
  PROVE  /\ loads' \in Seq(TableLoad) /\ DOMAIN loads' = DOMAIN loads /\ loads'[n] = new
         /\ \A m \in DOMAIN loads \ {n} : loads'[m] = loads[m]
         /\ \A m \in DOMAIN loads : loads'[m].table = loads[m].table
         /\ Started' = Started
         /\ \A u : LoadedLate(u)' <=> LoadedLate(u)
         /\ \A u : AskedTwice(u)' <=> AskedTwice(u)
<1>1. /\ loads' \in Seq(TableLoad) /\ DOMAIN loads' = DOMAIN loads /\ loads'[n] = new
      /\ \A m \in DOMAIN loads \ {n} : loads'[m] = loads[m]
  BY DEF TablesInv, TablesTypeOK
<1>2. \A m \in DOMAIN loads : /\ loads'[m].table = loads[m].table
                              /\ loads'[m].round = loads[m].round
                              /\ loads'[m].late = loads[m].late
  BY <1>1
<1>3. Started' = Started
  BY <1>1, <1>2 DEF Started
<1>4. \A u : LoadedLate(u)' <=> LoadedLate(u)
  BY <1>1, <1>2 DEF LoadedLate
<1>5. \A u : AskedTwice(u)' <=> AskedTwice(u)
  BY <1>2, <1>3 DEF AskedTwice, Started
<1> QED BY <1>1, <1>2, <1>3, <1>4, <1>5

LEMMA ReplyInv ==
  ASSUME TablesInv, NEW n, NEW size \in NoTable .. Modulus, Reply(n, size)
  PROVE  TablesInv'
<1> DEFINE t == loads[n].table
           less == size < tables[t]
           new == [loads[n] EXCEPT !.answer = size, !.behind = less]
<1>1. n \in DOMAIN loads /\ ~ loads[n].done
  BY DEF Reply, Loading
<1>2. loads[n] \in TableLoad /\ t \in Table
  BY <1>1, LoadsTyped
<1>3. /\ new \in TableLoad /\ new.table = t /\ new.answer = size
      /\ new.round = loads[n].round
      /\ new.late = loads[n].late /\ new.done = loads[n].done
      /\ ~ new.behind => tables[t] <= size
  <2>1. size \in Unread .. Modulus /\ less \in BOOLEAN
    BY TablesAssumption DEF Unread, NoTable
  <2>2. tables[t] \in Int /\ size \in Int
    BY <1>2, TablesAssumption DEF TablesInv, TablesTypeOK, NoTable
  <2>3. ~ less => tables[t] <= size
    BY <2>2
  <2> HIDE DEF less
  <2>4. /\ new \in TableLoad /\ new.table = t /\ new.answer = size /\ new.behind = less
        /\ new.round = loads[n].round
        /\ new.late = loads[n].late /\ new.done = loads[n].done
    BY <1>2, <2>1 DEF TableLoad
  <2> QED BY <2>1, <2>3, <2>4
<1>4. loads' = [loads EXCEPT ![n] = new]
  BY DEF Reply
<1>5. /\ tables' = tables /\ request' = request /\ rest' = rest /\ round' = round
      /\ flawed' = IF size <= request[t] THEN flawed \cup {t} ELSE flawed
  BY DEF Reply
<1> HIDE DEF new
<1>6. /\ loads' \in Seq(TableLoad) /\ DOMAIN loads' = DOMAIN loads /\ loads'[n] = new
      /\ \A m \in DOMAIN loads \ {n} : loads'[m] = loads[m]
      /\ \A m \in DOMAIN loads : loads'[m].table = loads[m].table
      /\ Started' = Started
      /\ \A u : LoadedLate(u)' <=> LoadedLate(u)
      /\ \A u : AskedTwice(u)' <=> AskedTwice(u)
  BY <1>1, <1>3, <1>4, <1>5, LoadChanges
<1>7. Loading' = Loading /\ OfBatch' = OfBatch
  BY <1>3, <1>6 DEF OfBatch, Loading
<1>8. OfBatch \subseteq DOMAIN loads
  BY DEF OfBatch, Started
<1>9. TablesTypeOK'
  BY <1>2, <1>5, <1>6 DEF TablesInv, TablesTypeOK
<1>10. RoundsAgree'
  BY <1>3, <1>5, <1>6, <1>7 DEF TablesInv, RoundsAgree
<1>11. /\ request \in [Table -> Int] /\ tables \in [Table -> Int] /\ size \in Int
       /\ flawed \subseteq flawed'
  BY <1>5, TablesAssumption DEF TablesInv, TablesTypeOK, NoTable, Unused
<1> HIDE DEF t
<1>12. AnswerIsOfUse'
  <2>1. NoBlock' => Reloaded'
    BY <1>5, <1>6 DEF TablesInv, AnswerIsOfUse, NoBlock, Reloaded
  <2>2. ASSUME NEW m \in OfBatch, loads'[m].answer # Unread
        PROVE  request[loads'[m].table] < loads'[m].answer \/ loads'[m].table \in flawed'
    <3>1. CASE m = n
      BY <3>1, <1>2, <1>3, <1>5, <1>6, <1>11
    <3>2. CASE m # n
      BY <2>2, <3>2, <1>6, <1>8, <1>11 DEF TablesInv, AnswerIsOfUse
    <3> QED BY <3>1, <3>2
  <2> QED BY <2>1, <2>2, <1>5, <1>7 DEF AnswerIsOfUse
<1>13. AnswerIsNewest'
  <2> SUFFICES ASSUME NEW m \in OfBatch, loads'[m].answer # Unread, ~ loads'[m].behind
               PROVE  \/ LoadedLate(loads'[m].table) \/ AskedTwice(loads'[m].table)
                      \/ tables[loads'[m].table] <= loads'[m].answer
    BY <1>5, <1>6, <1>7 DEF AnswerIsNewest
  <2>1. CASE m = n
    BY <2>1, <1>2, <1>3, <1>6, <1>11
  <2>2. CASE m # n
    BY <2>2, <1>6, <1>8 DEF TablesInv, AnswerIsNewest
  <2> QED BY <2>1, <2>2
<1>14. LookupIsServed'
  BY <1>5, <1>6, <1>7, <1>8, <1>11 DEF TablesInv, LookupIsServed, Resolves
<1> QED BY <1>9, <1>10, <1>12, <1>13, <1>14 DEF TablesInv

(* A load that is done is not waited for any more.                          *)
LEMMA DoneEnds ==
  ASSUME TablesInv, NEW n \in Loading, Done(n), round' = round
  PROVE  /\ loads' \in Seq(TableLoad) /\ DOMAIN loads' = DOMAIN loads
         /\ Started' = Started /\ Loading' = Loading \ {n} /\ OfBatch' = OfBatch \ {n}
         /\ \A u : LoadedLate(u)' <=> LoadedLate(u)
         /\ \A u : AskedTwice(u)' <=> AskedTwice(u)
         /\ \A m \in DOMAIN loads : /\ loads'[m].table = loads[m].table
                                    /\ loads'[m].round = loads[m].round
                                    /\ loads'[m].late = loads[m].late
                                    /\ loads'[m].behind = loads[m].behind
                                    /\ loads'[m].answer = loads[m].answer
<1> DEFINE new == [loads[n] EXCEPT !.done = TRUE]
<1>1. n \in DOMAIN loads
  BY DEF Loading
<1>2. loads[n] \in TableLoad
  BY <1>1, LoadsTyped
<1>3. /\ new \in TableLoad /\ new.table = loads[n].table /\ new.answer = loads[n].answer
      /\ new.behind = loads[n].behind /\ new.round = loads[n].round
      /\ new.late = loads[n].late /\ new.done
  BY <1>2 DEF TableLoad
<1>4. loads' = [loads EXCEPT ![n] = new]
  BY DEF Done
<1> HIDE DEF new
<1>5. /\ loads' \in Seq(TableLoad) /\ DOMAIN loads' = DOMAIN loads /\ loads'[n] = new
      /\ \A m \in DOMAIN loads \ {n} : loads'[m] = loads[m]
      /\ Started' = Started
      /\ \A u : LoadedLate(u)' <=> LoadedLate(u)
      /\ \A u : AskedTwice(u)' <=> AskedTwice(u)
  BY <1>1, <1>3, <1>4, LoadChanges
<1>6. Loading' = Loading \ {n} /\ OfBatch' = OfBatch \ {n}
  BY <1>1, <1>3, <1>5 DEF OfBatch, Loading
<1> QED BY <1>1, <1>3, <1>5, <1>6

LEMMA SaveAccountInv ==
  ASSUME TablesInv, NEW n, SaveAccount(n)
  PROVE  TablesInv'
<1> DEFINE t == loads[n].table
           a == loads[n].answer
<1>1. n \in Loading /\ n \in DOMAIN loads /\ a # Unread
  BY DEF SaveAccount, Loading
<1>2. loads[n] \in TableLoad /\ t \in Table /\ a \in NoTable .. Modulus
  BY <1>1, LoadsTyped, TablesAssumption DEF TableLoad, Unread, NoTable
<1>3. /\ tables' = IF a = NoTable THEN tables ELSE [tables EXCEPT ![t] = a]
      /\ request' = request /\ rest' = rest /\ round' = round /\ flawed' = flawed
  BY DEF SaveAccount
<1>4. /\ loads' \in Seq(TableLoad) /\ DOMAIN loads' = DOMAIN loads
      /\ Started' = Started /\ Loading' = Loading \ {n} /\ OfBatch' = OfBatch \ {n}
      /\ \A u : LoadedLate(u)' <=> LoadedLate(u)
      /\ \A u : AskedTwice(u)' <=> AskedTwice(u)
      /\ \A m \in DOMAIN loads : /\ loads'[m].table = loads[m].table
                                 /\ loads'[m].round = loads[m].round
                                 /\ loads'[m].late = loads[m].late
                                 /\ loads'[m].behind = loads[m].behind
                                 /\ loads'[m].answer = loads[m].answer
  BY <1>1, <1>3, DoneEnds DEF SaveAccount
<1>5. /\ a # NoTable => tables'[t] = a
      /\ a = NoTable => tables'[t] = tables[t]
      /\ \A u \in Table \ {t} : tables'[u] = tables[u]
  BY <1>2, <1>3 DEF TablesInv, TablesTypeOK
<1>6. n \in OfBatch \/ LoadedLate(t)
  BY <1>1 DEF OfBatch, LoadedLate, TablesInv, RoundsAgree
<1>7. OfBatch \subseteq DOMAIN loads /\ OfBatch = Started \cap Loading
  BY DEF OfBatch, Started
<1>8. TablesTypeOK'
  BY <1>2, <1>3, <1>4 DEF TablesInv, TablesTypeOK
<1>9. RoundsAgree'
  BY <1>3, <1>4 DEF TablesInv, RoundsAgree
<1>10. AnswerIsOfUse'
  BY <1>3, <1>4, <1>7 DEF TablesInv, AnswerIsOfUse, NoBlock, Reloaded
<1> HIDE DEF t, a
<1>11. AnswerIsNewest'
  <2>1. ASSUME NEW m \in OfBatch, m # n, loads[m].answer # Unread, ~ loads[m].behind
        PROVE  \/ LoadedLate(loads[m].table) \/ AskedTwice(loads[m].table)
               \/ tables'[loads[m].table] <= loads[m].answer
    <3>1. CASE loads[m].table = t
      <4>1. n \in OfBatch => AskedTwice(t)
        BY <2>1, <3>1, <1>7 DEF AskedTwice, t
      <4> QED BY <3>1, <4>1, <1>6
    <3>2. CASE loads[m].table # t
      <4>1. loads[m].table \in Table
        BY <1>7, LoadsTyped
      <4> QED BY <2>1, <3>2, <4>1, <1>5 DEF TablesInv, AnswerIsNewest
    <3> QED BY <3>1, <3>2
  <2> QED BY <2>1, <1>4, <1>7 DEF AnswerIsNewest
<1>12. LookupIsServed'
  <2> SUFFICES ASSUME NEW u \in Table, request[u] # Unused
               PROVE  \/ rest[u] > 0 \/ Resolves(u)' \/ u \in flawed \/ LoadedLate(u)
                      \/ \E m \in OfBatch \ {n} : loads[m].table = u
    BY <1>3, <1>4, <1>7 DEF LookupIsServed
  <2>1. CASE u = t /\ n \in OfBatch
    <3>1. request[t] < a \/ t \in flawed
      BY <2>1, <1>1 DEF TablesInv, AnswerIsOfUse, t, a
    <3>2. request[t] < a => a # NoTable
      BY <1>2, TablesAssumption DEF TablesInv, TablesTypeOK, NoTable, Unused
    <3> QED BY <2>1, <3>1, <3>2, <1>3, <1>5 DEF Resolves
  <2>2. CASE u = t /\ n \notin OfBatch
    BY <2>2, <1>6
  <2>3. CASE u # t
    <3>1. Resolves(u)' <=> Resolves(u)
      BY <2>3, <1>3, <1>5 DEF Resolves
    <3> QED BY <2>3, <3>1 DEF TablesInv, LookupIsServed, t
  <2> QED BY <2>1, <2>2, <2>3
<1> QED BY <1>8, <1>9, <1>10, <1>11, <1>12 DEF TablesInv

LEMMA FailInv ==
  ASSUME TablesInv, NEW n, Fail(n)
  PROVE  TablesInv'
<1> DEFINE t == loads[n].table
<1>1. n \in Loading /\ n \in DOMAIN loads
  BY DEF Fail, Loading
<1>2. t \in Table
  BY <1>1, LoadsTyped
<1>3. /\ tables' = tables /\ request' = request /\ rest' = rest /\ round' = round
      /\ flawed' = flawed \cup {t}
  BY DEF Fail
<1>4. /\ loads' \in Seq(TableLoad) /\ DOMAIN loads' = DOMAIN loads
      /\ Started' = Started /\ Loading' = Loading \ {n} /\ OfBatch' = OfBatch \ {n}
      /\ \A u : LoadedLate(u)' <=> LoadedLate(u)
      /\ \A u : AskedTwice(u)' <=> AskedTwice(u)
      /\ \A m \in DOMAIN loads : /\ loads'[m].table = loads[m].table
                                 /\ loads'[m].round = loads[m].round
                                 /\ loads'[m].late = loads[m].late
                                 /\ loads'[m].behind = loads[m].behind
                                 /\ loads'[m].answer = loads[m].answer
  BY <1>1, <1>3, DoneEnds DEF Fail
<1>5. OfBatch \subseteq DOMAIN loads
  BY DEF OfBatch, Started
<1> HIDE DEF t
<1>6. TablesTypeOK'
  BY <1>2, <1>3, <1>4 DEF TablesInv, TablesTypeOK
<1>7. RoundsAgree'
  BY <1>3, <1>4 DEF TablesInv, RoundsAgree
<1>8. AnswerIsOfUse'
  BY <1>3, <1>4, <1>5 DEF TablesInv, AnswerIsOfUse, NoBlock, Reloaded
<1>9. AnswerIsNewest'
  BY <1>3, <1>4, <1>5 DEF TablesInv, AnswerIsNewest
<1>10. LookupIsServed'
  <2> SUFFICES ASSUME NEW u \in Table, request[u] # Unused
               PROVE  \/ rest[u] > 0 \/ Resolves(u) \/ u \in flawed' \/ LoadedLate(u)
                      \/ \E m \in OfBatch \ {n} : loads[m].table = u
    BY <1>3, <1>4, <1>5 DEF LookupIsServed, Resolves
  <2>1. CASE u = t
    BY <2>1, <1>3
  <2>2. CASE u # t
    BY <2>2, <1>3 DEF TablesInv, LookupIsServed, t
  <2> QED BY <2>1, <2>2
<1> QED BY <1>6, <1>7, <1>8, <1>9, <1>10 DEF TablesInv

LEMMA JoinAllInv ==
  ASSUME TablesInv, JoinAll
  PROVE  TablesInv'
<1> USE DEF JoinAll
<1>1. TablesTypeOK'
  BY DEF TablesInv, TablesTypeOK
<1>2. Started' = {} /\ OfBatch' = {} /\ Loading' = Loading
  BY DEF TablesInv, TablesTypeOK, RoundsAgree, OfBatch, Started, Loading
<1>3. RoundsAgree'
  BY <1>2, LoadsTyped DEF TablesInv, TablesTypeOK, RoundsAgree, OfBatch
<1>4. ~ NoBlock
  BY DEF Joins, TablesInv, AnswerIsOfUse, Reloaded
<1>5. AnswerIsOfUse' /\ AnswerIsNewest'
  BY <1>2, <1>4 DEF AnswerIsOfUse, AnswerIsNewest, NoBlock
<1>6. LookupIsServed'
  BY DEF TablesInv, LookupIsServed, Resolves, LoadedLate
<1> QED BY <1>1, <1>3, <1>5, <1>6 DEF TablesInv

LEMMA JoinTimedOutInv ==
  ASSUME TablesInv, JoinTimedOut
  PROVE  TablesInv'
<1>1. /\ tables' = tables /\ request' = request /\ rest' = rest /\ round' = round + 1
      /\ flawed' = flawed \cup {loads[n].table : n \in OfBatch}
  BY DEF JoinTimedOut
<1>2. loads' = [n \in DOMAIN loads |-> [loads[n] EXCEPT !.late = @ \/ n \in OfBatch]]
  BY DEF JoinTimedOut
<1>3. ASSUME NEW n \in DOMAIN loads
      PROVE  /\ loads'[n] \in TableLoad
             /\ loads'[n].table = loads[n].table /\ loads'[n].round = loads[n].round
             /\ loads'[n].done = loads[n].done
             /\ loads'[n].late = (loads[n].late \/ n \in OfBatch)
  <2>1. loads'[n] = [loads[n] EXCEPT !.late = @ \/ n \in OfBatch]
    BY <1>2
  <2>2. loads[n] \in TableLoad
    BY LoadsTyped
  <2>3. loads'[n] = [loads[n] EXCEPT !.late = loads[n].late \/ n \in OfBatch]
    BY <2>1
  <2>4. (loads[n].late \/ n \in OfBatch) \in BOOLEAN
    OBVIOUS
  <2> QED BY <2>2, <2>3, <2>4 DEF TableLoad
<1>4. loads \in Seq(TableLoad) /\ round \in Nat
  BY DEF TablesInv, TablesTypeOK
<1>5. DOMAIN loads' = DOMAIN loads /\ loads' \in Seq(TableLoad)
  <2>1. DOMAIN loads = 1 .. Len(loads) /\ Len(loads) \in Nat
    BY <1>4
  <2>2. loads' \in [1 .. Len(loads) -> TableLoad]
    BY <2>1, <1>2, <1>3
  <2> QED BY <2>1, <2>2
<1>6. OfBatch \subseteq DOMAIN loads /\ OfBatch = Started \cap Loading
  BY DEF OfBatch, Started
<1>7. Loading' = Loading
  BY <1>3, <1>5 DEF Loading
<1>8. Started' = {} /\ OfBatch' = {}
  <2>1. \A n \in DOMAIN loads : loads[n].round \in Nat /\ loads[n].round <= round
    BY LoadsTyped DEF TablesInv, RoundsAgree
  <2>2. Started' = {}
    BY <1>1, <1>3, <1>4, <1>5, <2>1 DEF Started
  <2> QED BY <2>2 DEF OfBatch
<1>9. \A u \in Table : LoadedLate(u) => LoadedLate(u)'
  BY <1>3, <1>5 DEF LoadedLate
<1>10. TablesTypeOK'
  BY <1>1, <1>4, <1>5, <1>6, LoadsTyped DEF TablesInv, TablesTypeOK
<1>11. RoundsAgree'
  <2> SUFFICES ASSUME NEW n \in DOMAIN loads
               PROVE  loads'[n].round <= round + 1 /\ (n \in Loading => loads'[n].late)
    BY <1>1, <1>5, <1>7, <1>8 DEF RoundsAgree
  <2>1. loads'[n].round = loads[n].round /\ loads[n].round \in Nat /\ loads[n].round <= round
    BY <1>3, LoadsTyped DEF TablesInv, RoundsAgree
  <2>2. n \in Loading => loads[n].late \/ n \in OfBatch
    BY <1>6 DEF TablesInv, RoundsAgree
  <2>3. loads'[n].late <=> (loads[n].late \/ n \in OfBatch)
    BY <1>3
  <2> QED BY <2>1, <2>2, <2>3, <1>4
<1>12. ~ NoBlock
  BY DEF JoinTimedOut, Joins, TablesInv, AnswerIsOfUse, Reloaded
<1>13. AnswerIsOfUse' /\ AnswerIsNewest'
  BY <1>1, <1>8, <1>12 DEF AnswerIsOfUse, AnswerIsNewest, NoBlock
<1>14. LookupIsServed'
  BY <1>1, <1>9 DEF TablesInv, LookupIsServed, Resolves
<1> QED BY <1>10, <1>11, <1>13, <1>14 DEF TablesInv

LEMMA ResolveInv ==
  ASSUME TablesInv, Resolve
  PROVE  TablesInv'
<1> USE DEF Resolve
<1>1. TablesTypeOK'
  BY TablesAssumption DEF TablesInv, TablesTypeOK, NoRequest, Unused
<1>2. Started' = {} /\ OfBatch' = {} /\ Reloaded'
  BY DEF Reloaded, OfBatch, Started
<1>3. RoundsAgree'
  BY DEF TablesInv, RoundsAgree, Loading, Started
<1>4. AnswerIsOfUse' /\ AnswerIsNewest'
  BY <1>2 DEF AnswerIsOfUse, AnswerIsNewest
<1>5. LookupIsServed'
  BY DEF LookupIsServed, NoRequest
<1> QED BY <1>1, <1>3, <1>4, <1>5 DEF TablesInv

------------------------------------------------------------------------------
(* Theorems                                                                 *)

(* What is stored of the lookup tables, the block at work and the loads     *)
(* agree in every reachable state, for any tables, sizes, batches and       *)
(* answers of the RPC node.                                                 *)
THEOREM TablesInvariant == TablesSpec => []TablesInv
<1>1. TablesInit => TablesInv
  BY TablesInitInv
<1>2. TablesInv /\ [TablesNext]_tableVars => TablesInv'
  <2> SUFFICES ASSUME TablesInv, [TablesNext]_tableVars PROVE TablesInv'
    OBVIOUS
  <2>1. CASE \E lookups \in [Table -> Unused .. Modulus - 1],
                entries \in [Table -> 0 .. MaxLookups] : Reload(lookups, entries)
    BY <2>1, ReloadInv
  <2>2. CASE \E t \in Table : StartLoad(t)
    BY <2>2, StartLoadInv
  <2>3. CASE \E n \in 1 .. MaxLoads : SaveAccount(n) \/ Fail(n)
                                  \/ \E size \in NoTable .. Modulus : Reply(n, size)
    BY <2>3, ReplyInv, SaveAccountInv, FailInv
  <2>4. CASE JoinAll \/ JoinTimedOut \/ Resolve
    BY <2>4, JoinAllInv, JoinTimedOutInv, ResolveInv
  <2>5. CASE UNCHANGED tableVars
    BY <2>5 DEF tableVars, TablesInv, TablesTypeOK, RoundsAgree, AnswerIsOfUse, AnswerIsNewest,
         LookupIsServed, OfBatch, Started, Loading, NoBlock, Reloaded, LoadedLate, AskedTwice,
         Resolves
  <2> QED BY <2>1, <2>2, <2>3, <2>4, <2>5 DEF TablesNext
<1> QED BY <1>1, <1>2, PTL DEF TablesSpec

(* address_lookup_table_store.rs: after reload_if_necessary the lookups of  *)
(* a block resolve, but for those whose load failed, timed out or answered  *)
(* no table or not the whole of it, or whose table a load that was given up *)
(* has overwritten.                                                         *)
THEOREM TablesLookupsResolve == TablesSpec => []LookupsResolve
<1>1. TablesInv => LookupsResolve
  BY DEF TablesInv, LookupIsServed, LookupsResolve, Reloaded, OfBatch, NoRest
<1> QED BY <1>1, TablesInvariant, PTL

(* A stored table gets shorter only by loads that cross, one that was given *)
(* up or two of one batch, or by an answer that was behind what was stored: *)
(* save_account of a load that is alone never writes an older table.        *)
THEOREM TablesShrinkByCrossedLoads == TablesSpec => ShrinksByCrossedLoads
<1> DEFINE Shrinks == \A t \in Table : tables'[t] < tables[t] =>
                         LoadedLate(t) \/ AskedTwice(t) \/ AnsweredBehind(t)
<1>1. TablesInv /\ [TablesNext]_tableVars => [Shrinks]_tableVars
  <2> SUFFICES ASSUME TablesInv, TablesNext, NEW t \in Table, tables'[t] < tables[t]
               PROVE  LoadedLate(t) \/ AskedTwice(t) \/ AnsweredBehind(t)
    OBVIOUS
  <2>1. tables \in [Table -> Int]
    BY TablesAssumption DEF TablesInv, TablesTypeOK, NoTable
  <2>2. PICK n \in 1 .. MaxLoads : SaveAccount(n)
    <3>1. tables' # tables
      BY <2>1
    <3> QED BY <3>1 DEF TablesNext, StartLoad, Reload, Reply, Fail, JoinAll, JoinTimedOut, Resolve
  <2>3. n \in Loading /\ n \in DOMAIN loads /\ loads[n].answer # Unread
    BY <2>2 DEF SaveAccount, Loading
  <2>4. tables' = tables \/ tables' = [tables EXCEPT ![loads[n].table] = loads[n].answer]
    BY <2>2 DEF SaveAccount
  <2>5. loads[n].table \in Table /\ loads[n].answer \in Int
    BY <2>3, LoadsTyped
  <2>6. loads[n].table = t /\ loads[n].answer < tables[t]
    BY <2>1, <2>4, <2>5
  <2>7. CASE n \in OfBatch
    BY <2>1, <2>3, <2>5, <2>6, <2>7 DEF TablesInv, AnswerIsNewest, AnsweredBehind
  <2>8. CASE n \notin OfBatch
    BY <2>3, <2>6, <2>8 DEF OfBatch, LoadedLate, TablesInv, RoundsAgree
  <2> QED BY <2>7, <2>8
<1> QED BY <1>1, TablesInvariant, PTL DEF TablesSpec, ShrinksByCrossedLoads

------------------------------------------------------------------------------
(* Together                                                                 *)

(* Nothing that is kept of accounts goes back: what is read of an account   *)
(* at a commitment never gets older, and a table gets shorter only by loads *)
(* that cross or an RPC node that is behind.                                *)
THEOREM AccountsNeverGoBack == Spec /\ TablesSpec => NothingGoesBack
BY StoreReadsAdvance, TablesShrinkByCrossedLoads DEF NothingGoesBack
==============================================================================
