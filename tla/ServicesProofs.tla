---------------------------- MODULE ServicesProofs ---------------------------
(***************************************************************************)
(* Two of the tasks that go on by themselves.                              *)
(*                                                                         *)
(* No slot falls through the polling of blocks, for any number of workers  *)
(* and slots and whatever the RPC node answers.  The queues, the workers   *)
(* and the retry task hand items to one another.  The invariant follows    *)
(* the items in hand: each is in one place, once; a slot has one item at a *)
(* time, whose commitment tells what has been announced of the slot; and a *)
(* slot that was scheduled leaves the hands only when it is finalized or   *)
(* given up.                                                               *)
(*                                                                         *)
(* The connections to one leader are shared without losing a permit, the   *)
(* lock of a connection or a connection that still works, for any number   *)
(* of sends, connections and permits.  That only a failed connection is    *)
(* replaced rests on what a send has seen when it asks for the lock: an id *)
(* that a send has failed on, which it has read as the one of the cell     *)
(* before, or that of an empty cell.                                       *)
(***************************************************************************)
EXTENDS BlockPolling, QuicConnections, SequenceTheorems, FiniteSetTheorems, TLAPS

------------------------------------------------------------------------------
(* The polling of blocks                                                    *)

Elems(q) == {q[i] : i \in 1 .. Len(q)}
Distinct(q) == \A i, j \in 1 .. Len(q) : q[i] = q[j] => i = j

Fetching == {fetching[w] : w \in Worker} \ {None}
Resting == {resting} \ {None}
InHand == Elems(schedule) \union Elems(retry) \union Fetching \union Resting

(* Every item in hand is in one place.                                     *)
OnePlace ==
  /\ Distinct(schedule)
  /\ Distinct(retry)
  /\ \A v, w \in Worker : fetching[v] = fetching[w] /\ fetching[v] # None => v = w
  /\ Elems(schedule) \intersect Elems(retry) = {}
  /\ Elems(schedule) \intersect Fetching = {}
  /\ Elems(schedule) \intersect Resting = {}
  /\ Elems(retry) \intersect Fetching = {}
  /\ Elems(retry) \intersect Resting = {}
  /\ Fetching \intersect Resting = {}

(* What is still to be done of a slot.                                     *)
InOrder(x) ==
  /\ first # NoSlot /\ first < x[1] /\ x[1] <= recent
  /\ x[2] = Confirmed => <<x[1], Confirmed>> \notin announced
  /\ x[2] = Finalized => <<x[1], Confirmed>> \in announced
  /\ <<x[1], Finalized>> \notin announced
  /\ \A g \in givenUp : g[1] # x[1]

OnePerSlot == \A x, y \in InHand : x[1] = y[1] => x = y

(* What has been dealt with is of slots that were scheduled.               *)
Past ==
  /\ \A x \in announced \union givenUp : first # NoSlot /\ x[1] <= recent
  /\ \A g \in givenUp : IsTooOld(g[1])

NothingLost ==
  first # NoSlot =>
    \A s \in first + 1 .. recent :
      \/ \E x \in InHand : x[1] = s
      \/ <<s, Finalized>> \in announced
      \/ \E g \in givenUp : g[1] = s

PollingInv ==
  /\ TypeOK
  /\ OnePlace
  /\ \A x \in InHand : InOrder(x)
  /\ OnePerSlot
  /\ Past
  /\ NothingLost
  /\ AnnouncedInOrder

----------------------------------------------------------------------------
(* Queues                                                                  *)

(* The head of a queue leaves it.                                          *)
LEMMA HeadLeaves ==
  ASSUME NEW q \in Seq(Item), q # << >>, Distinct(q)
  PROVE  /\ Head(q) \in Item /\ Head(q) \in Elems(q)
         /\ Tail(q) \in Seq(Item) /\ Distinct(Tail(q))
         /\ Elems(Tail(q)) = Elems(q) \ {Head(q)}
<1> DEFINE t == Tail(q)
<1>1. /\ Len(q) \in Nat /\ Len(q) > 0
      /\ t \in Seq(Item) /\ Len(t) = Len(q) - 1
      /\ \A i \in 1 .. Len(t) : t[i] = q[i + 1]
      /\ Head(q) = q[1] /\ Head(q) \in Item
  OBVIOUS
<1> HIDE DEF t
<1>2. Distinct(t)
  <2> SUFFICES ASSUME NEW i \in 1 .. Len(t), NEW j \in 1 .. Len(t), t[i] = t[j]
               PROVE  i = j
    BY DEF Distinct
  <2>1. i + 1 \in 1 .. Len(q) /\ j + 1 \in 1 .. Len(q) /\ q[i + 1] = q[j + 1]
    BY <1>1
  <2>2. i + 1 = j + 1
    BY <2>1 DEF Distinct
  <2>. QED
    BY <2>2
<1>3. Head(q) \in Elems(q)
  BY <1>1 DEF Elems
<1>4. ASSUME NEW x \in Elems(t)
      PROVE  x \in Elems(q) \ {Head(q)}
  <2>1. PICK i \in 1 .. Len(t) : x = t[i]
    BY DEF Elems
  <2>2. i + 1 \in 1 .. Len(q) /\ x = q[i + 1] /\ 1 \in 1 .. Len(q) /\ i + 1 # 1
    BY <1>1, <2>1
  <2>3. q[i + 1] # q[1]
    BY <2>2 DEF Distinct
  <2>. QED
    BY <2>2, <2>3, <1>1 DEF Elems
<1>5. ASSUME NEW x \in Elems(q), x # Head(q)
      PROVE  x \in Elems(t)
  <2>1. PICK i \in 1 .. Len(q) : x = q[i]
    BY DEF Elems
  <2>2. i # 1
    BY <1>1, <1>5, <2>1
  <2>3. i - 1 \in 1 .. Len(t) /\ t[i - 1] = q[i]
    BY <1>1, <2>1, <2>2
  <2>. QED
    BY <2>1, <2>3 DEF Elems
<1>. QED
  BY <1>1, <1>2, <1>3, <1>4, <1>5 DEF t

(* A queue that is followed by another, which holds none of its items.     *)
LEMMA QueuesJoin ==
  ASSUME NEW q \in Seq(Item), NEW r \in Seq(Item), Distinct(q), Distinct(r),
         Elems(q) \intersect Elems(r) = {}
  PROVE  /\ q \o r \in Seq(Item) /\ Distinct(q \o r)
         /\ Elems(q \o r) = Elems(q) \union Elems(r)
<1> DEFINE z == q \o r
<1>1. /\ Len(q) \in Nat /\ Len(r) \in Nat
      /\ z \in Seq(Item) /\ Len(z) = Len(q) + Len(r)
      /\ \A i \in 1 .. Len(z) : z[i] = IF i <= Len(q) THEN q[i] ELSE r[i - Len(q)]
  OBVIOUS
<1> HIDE DEF z
<1>2. \A i \in 1 .. Len(q) : i \in 1 .. Len(z) /\ z[i] = q[i]
  BY <1>1
<1>3. \A i \in 1 .. Len(r) : i + Len(q) \in 1 .. Len(z) /\ z[i + Len(q)] = r[i]
  BY <1>1, SMTT(30)
<1>4. ASSUME NEW i \in 1 .. Len(z)
      PROVE  \/ i \in 1 .. Len(q) /\ z[i] = q[i] /\ z[i] \in Elems(q)
             \/ i - Len(q) \in 1 .. Len(r) /\ z[i] = r[i - Len(q)] /\ z[i] \in Elems(r)
  <2>1. CASE i <= Len(q)
    <3>1. i \in 1 .. Len(q) /\ z[i] = q[i]
      BY <1>1, <2>1
    <3>. QED
      BY <3>1 DEF Elems
  <2>2. CASE ~ (i <= Len(q))
    <3>1. i - Len(q) \in 1 .. Len(r) /\ z[i] = r[i - Len(q)]
      BY <1>1, <2>2
    <3>. QED
      BY <3>1 DEF Elems
  <2>. QED
    BY <2>1, <2>2
<1>5. Elems(z) = Elems(q) \union Elems(r)
  <2>1. \A x \in Elems(z) : x \in Elems(q) \union Elems(r)
    BY <1>4 DEF Elems
  <2>2. \A x \in Elems(q) : x \in Elems(z)
    BY <1>2 DEF Elems
  <2>3. \A x \in Elems(r) : x \in Elems(z)
    BY <1>3 DEF Elems
  <2>. QED
    BY <2>1, <2>2, <2>3
<1>6. Distinct(z)
  <2> SUFFICES ASSUME NEW i \in 1 .. Len(z), NEW j \in 1 .. Len(z), z[i] = z[j]
               PROVE  i = j
    BY DEF Distinct
  <2>1. CASE z[i] \in Elems(q)
    <3>1. /\ i \in 1 .. Len(q) /\ z[i] = q[i]
          /\ j \in 1 .. Len(q) /\ z[j] = q[j]
      BY <1>4, <2>1
    <3>. QED
      BY <3>1 DEF Distinct
  <2>2. CASE z[i] \in Elems(r)
    <3>1. /\ i - Len(q) \in 1 .. Len(r) /\ z[i] = r[i - Len(q)]
          /\ j - Len(q) \in 1 .. Len(r) /\ z[j] = r[j - Len(q)]
      BY <1>4, <2>2
    <3>2. i - Len(q) = j - Len(q)
      BY <3>1 DEF Distinct
    <3>. QED
      BY <3>2, <1>1
  <2>. QED
    BY <1>4, <2>1, <2>2
<1>. QED
  BY <1>1, <1>5, <1>6 DEF z

(* An item joins a queue that does not hold it.                            *)
LEMMA ItemJoins ==
  ASSUME NEW q \in Seq(Item), NEW x \in Item, Distinct(q), x \notin Elems(q)
  PROVE  /\ Append(q, x) \in Seq(Item) /\ Distinct(Append(q, x))
         /\ Elems(Append(q, x)) = Elems(q) \union {x}
<1> DEFINE r == <<x>>
<1>1. r \in Seq(Item) /\ Len(r) = 1 /\ r[1] = x
  OBVIOUS
<1>2. Append(q, x) = q \o r
  OBVIOUS
<1> HIDE DEF r
<1>3. Elems(r) = {x} /\ Distinct(r)
  BY <1>1 DEF Elems, Distinct
<1>. QED
  BY <1>1, <1>2, <1>3, QueuesJoin
----------------------------------------------------------------------------
(* Hands                                                                   *)

(* What items are.                                                         *)
LEMMA ItemFacts ==
  /\ None \notin Item
  /\ \A x \in Item : /\ x[1] \in Slot /\ x[1] \in Int
                     /\ x[2] = Confirmed \/ x[2] = Finalized
                     /\ x = <<x[1], x[2]>>
  /\ Slot \subseteq Int
  /\ Confirmed # Finalized
<1>1. Slot \subseteq Int
  BY DEF Slot
<1>2. \A x \in Item : /\ x[1] \in Slot
                      /\ x[2] = Confirmed \/ x[2] = Finalized
                      /\ x = <<x[1], x[2]>>
  BY DEF Item
<1>3. None \notin Item
  <2> SUFFICES ASSUME None \in Item
               PROVE  FALSE
    OBVIOUS
  <2>1. PICK a, b : None = <<a, b>>
    BY <1>2
  <2>2. Len(None) = 0 /\ Len(<<a, b>>) = 2
    BY DEF None
  <2>. QED
    BY <2>1, <2>2
<1>. QED
  BY <1>1, <1>2, <1>3 DEF Confirmed, Finalized

(* A worker that had nothing takes an item.                                *)
LEMMA WorkerTakes ==
  ASSUME TypeOK, OnePlace, NEW w \in Worker, fetching[w] = None,
         NEW x \in Item, x \notin Fetching,
         fetching' = [fetching EXCEPT ![w] = x]
  PROVE  /\ fetching' \in [Worker -> Item \union {None}]
         /\ Fetching' = Fetching \union {x}
         /\ \A u, v \in Worker : fetching'[u] = fetching'[v] /\ fetching'[u] # None => u = v
<1>1. fetching \in [Worker -> Item \union {None}]
  BY DEF TypeOK
<1>2. \A v \in Worker : fetching'[v] = IF v = w THEN x ELSE fetching[v]
  BY <1>1
<1>3. Fetching' = Fetching \union {x}
  <2>1. x # None
    BY ItemFacts
  <2>. QED
    BY <1>2, <2>1 DEF Fetching
<1>4. ASSUME NEW u \in Worker, NEW v \in Worker,
             fetching'[u] = fetching'[v], fetching'[u] # None
      PROVE  u = v
  <2>1. \A k \in Worker : k # w /\ fetching[k] # None => fetching[k] # x
    BY DEF Fetching
  <2>. QED
    BY <1>2, <1>4, <2>1 DEF OnePlace
<1>. QED
  BY <1>1, <1>3, <1>4

(* A worker gives its item away.                                           *)
LEMMA WorkerGives ==
  ASSUME TypeOK, OnePlace, NEW w \in Worker, fetching[w] # None,
         fetching' = [fetching EXCEPT ![w] = None]
  PROVE  /\ fetching' \in [Worker -> Item \union {None}]
         /\ fetching[w] \in Item /\ fetching[w] \in Fetching
         /\ Fetching' = Fetching \ {fetching[w]}
         /\ \A u, v \in Worker : fetching'[u] = fetching'[v] /\ fetching'[u] # None => u = v
<1>1. fetching \in [Worker -> Item \union {None}]
  BY DEF TypeOK
<1>2. \A v \in Worker : fetching'[v] = IF v = w THEN None ELSE fetching[v]
  BY <1>1
<1>3. fetching[w] \in Item /\ fetching[w] \in Fetching
  BY <1>1 DEF Fetching
<1>4. Fetching' = Fetching \ {fetching[w]}
  <2>1. \A v \in Worker : v # w /\ fetching[v] # None => fetching[v] # fetching[w]
    BY DEF OnePlace
  <2>. QED
    BY <1>2, <2>1 DEF Fetching
<1>5. \A u, v \in Worker : fetching'[u] = fetching'[v] /\ fetching'[u] # None => u = v
  BY <1>2 DEF OnePlace
<1>. QED
  BY <1>1, <1>2, <1>3, <1>4, <1>5

(* The invariant stays when an item only changes hands.                    *)
LEMMA SameHands ==
  ASSUME PollingInv, TypeOK', OnePlace', InHand' = InHand,
         UNCHANGED <<recent, first, announced, twice, givenUp>>
  PROVE  PollingInv'
<1>1. \A x \in InHand' : InOrder(x)'
  BY DEF PollingInv, InOrder
<1>2. OnePerSlot'
  BY DEF PollingInv, OnePerSlot
<1>3. Past' /\ NothingLost' /\ AnnouncedInOrder'
  BY DEF PollingInv, Past, IsTooOld, NothingLost, AnnouncedInOrder
<1>. QED
  BY <1>1, <1>2, <1>3 DEF PollingInv

(* What is in hand are items.                                              *)
LEMMA HandsHoldItems ==
  ASSUME TypeOK
  PROVE  /\ Elems(schedule) \subseteq Item /\ Elems(retry) \subseteq Item
         /\ Fetching \subseteq Item /\ Resting \subseteq Item
         /\ InHand \subseteq Item
<1>1. \A q \in Seq(Item) : Elems(q) \subseteq Item
  BY DEF Elems
<1>2. schedule \in Seq(Item) /\ retry \in Seq(Item)
  BY DEF TypeOK
<1>3. Fetching \subseteq Item /\ Resting \subseteq Item
  BY DEF TypeOK, Fetching, Resting
<1>. QED
  BY <1>1, <1>2, <1>3 DEF InHand

----------------------------------------------------------------------------
(* The steps                                                               *)

(* Nothing is in hand at the start.                                        *)
LEMMA InitInv == Init => PollingInv
<1> SUFFICES ASSUME Init
             PROVE  PollingInv
  OBVIOUS
<1> USE DEF Init
<1>1. TypeOK
  <2>1. 0 \in Slot /\ NoSlot <= 0
    BY PollingAssumption DEF Slot, NoSlot
  <2>2. << >> \in Seq(Item)
    OBVIOUS
  <2>. QED
    BY <2>1, <2>2 DEF TypeOK
<1>2. Elems(schedule) = {} /\ Elems(retry) = {} /\ Fetching = {} /\ Resting = {}
  <2>1. 1 .. Len(<< >>) = {}
    OBVIOUS
  <2>2. Elems(schedule) = {} /\ Elems(retry) = {}
    BY <2>1 DEF Elems
  <2>. QED
    BY <2>2 DEF Fetching, Resting
<1>3. OnePlace
  <2>1. Distinct(schedule) /\ Distinct(retry)
    BY DEF Distinct
  <2>. QED
    BY <1>2, <2>1 DEF OnePlace
<1>4. InHand = {}
  BY <1>2 DEF InHand
<1>5. OnePerSlot /\ Past /\ NothingLost /\ AnnouncedInOrder
  BY <1>4 DEF OnePerSlot, Past, NothingLost, AnnouncedInOrder
<1>. QED
  BY <1>1, <1>3, <1>4, <1>5 DEF PollingInv

(* The poller starts: nothing was in hand.                                 *)
LEMMA StartStep ==
  ASSUME PollingInv, NEW slot \in Slot, StartPolling(slot)
  PROVE  PollingInv'
<1> USE DEF StartPolling
<1>1. InHand = {} /\ announced = {} /\ givenUp = {}
  BY DEF PollingInv, InOrder, Past
<1>2. UNCHANGED <<Elems(schedule), Elems(retry), Fetching, Resting, InHand>>
  BY DEF Elems, Fetching, Resting, InHand
<1>3. TypeOK'
  BY ItemFacts DEF PollingInv, TypeOK
<1>4. OnePlace'
  BY <1>2 DEF PollingInv, OnePlace, Distinct
<1>5. \A x \in InHand' : InOrder(x)'
  BY <1>1, <1>2
<1>6. OnePerSlot' /\ Past'
  BY <1>1, <1>2 DEF OnePerSlot, Past
<1>7. NothingLost'
  BY ItemFacts DEF NothingLost
<1>8. AnnouncedInOrder'
  BY DEF PollingInv, AnnouncedInOrder
<1>. QED
  BY <1>3, <1>4, <1>5, <1>6, <1>7, <1>8 DEF PollingInv

(* A notification schedules the slots since the last: all of them are new. *)
LEMMA NotifyStep ==
  ASSUME PollingInv, NEW slot \in Slot, NotifySlot(slot)
  PROVE  PollingInv'
<1> DEFINE new == SlotItems(recent, slot)
<1>a. TypeOK /\ OnePlace /\ OnePerSlot /\ Past /\ NothingLost /\ AnnouncedInOrder
      /\ \A x \in InHand : InOrder(x)
  BY DEF PollingInv
<1>1. /\ first # NoSlot /\ recent < slot /\ recent' = slot
      /\ schedule' = schedule \o new
      /\ UNCHANGED <<first, fetching, retry, resting, cluster, announced, twice, givenUp>>
  BY DEF NotifySlot
<1>2. /\ recent \in Nat /\ slot \in Nat /\ slot <= MaxSlot /\ MaxSlot \in Nat
      /\ first \in Int /\ first <= recent
  BY <1>a, PollingAssumption DEF TypeOK, Slot, NoSlot
<1>3. /\ new \in Seq(Item) /\ Distinct(new)
      /\ Elems(new) = {<<s, Confirmed>> : s \in recent + 1 .. slot}
  <2>1. /\ Len(new) = slot - recent /\ slot - recent \in Nat
        /\ \A i \in 1 .. slot - recent : new[i] = <<recent + i, Confirmed>>
    BY <1>1, <1>2 DEF SlotItems
  <2>2. \A i \in 1 .. slot - recent : <<recent + i, Confirmed>> \in Item
    BY <1>2 DEF Item, Slot
  <2>3. new \in Seq(Item)
    <3>1. new \in [1 .. slot - recent -> Item]
      BY <2>2 DEF SlotItems
    <3> HIDE DEF new
    <3>. QED
      BY <2>1, <3>1, SeqDef, Zenon
  <2> HIDE DEF new
  <2>4. Distinct(new)
    BY <1>2, <2>1 DEF Distinct
  <2>5. ASSUME NEW s \in recent + 1 .. slot
        PROVE  <<s, Confirmed>> \in Elems(new)
    <3>1. s - recent \in 1 .. slot - recent /\ recent + (s - recent) = s
      BY <1>2
    <3>2. new[s - recent] = <<s, Confirmed>>
      BY <2>1, <3>1
    <3>. QED
      BY <2>1, <3>1, <3>2 DEF Elems
  <2>6. ASSUME NEW x \in Elems(new)
        PROVE  x \in {<<s, Confirmed>> : s \in recent + 1 .. slot}
    <3>1. PICK i \in 1 .. slot - recent : x = new[i]
      BY <2>1 DEF Elems
    <3>2. x = <<recent + i, Confirmed>> /\ recent + i \in recent + 1 .. slot
      BY <1>2, <2>1, <3>1
    <3>. QED
      BY <3>2
  <2>. QED
    BY <2>3, <2>4, <2>5, <2>6
<1> HIDE DEF new
<1>4. \A x \in InHand : x \notin Elems(new) /\ x[1] <= recent /\ x[1] \in Int
  <2> SUFFICES ASSUME NEW x \in InHand
               PROVE  x \notin Elems(new) /\ x[1] <= recent /\ x[1] \in Int
    OBVIOUS
  <2>1. x[1] <= recent /\ x[1] \in Int
    BY <1>a, ItemFacts, HandsHoldItems DEF InOrder
  <2>2. \A s \in recent + 1 .. slot : ~ (s <= recent)
    BY <1>2
  <2>. QED
    BY <1>3, <2>1, <2>2
<1>5. /\ schedule' \in Seq(Item) /\ Distinct(schedule')
      /\ Elems(schedule') = Elems(schedule) \union Elems(new)
  <2>1. schedule \in Seq(Item) /\ Distinct(schedule)
    BY <1>a DEF TypeOK, OnePlace
  <2>2. Elems(schedule) \intersect Elems(new) = {}
    BY <1>4 DEF InHand
  <2>. QED
    BY <1>1, <1>3, <2>1, <2>2, QueuesJoin
<1>6. /\ UNCHANGED <<Elems(retry), Fetching, Resting>>
      /\ InHand' = InHand \union Elems(new)
  BY <1>1, <1>5 DEF Fetching, Resting, InHand
<1>7. TypeOK'
  BY <1>1, <1>2, <1>5, <1>a DEF TypeOK, Slot
<1>8. OnePlace'
  <2>1. \A x \in Elems(retry) \union Fetching \union Resting : x \notin Elems(new)
    BY <1>4 DEF InHand
  <2>. QED
    BY <2>1, <1>1, <1>5, <1>6, <1>a DEF OnePlace
<1>n. \A s \in recent + 1 .. slot : s \in Int /\ first < s /\ s <= slot /\ ~ (s <= recent)
  BY <1>2
<1>9. \A x \in InHand' : InOrder(x)'
  <2>1. ASSUME NEW x \in InHand
        PROVE  InOrder(x)'
    BY <1>1, <1>2, <1>4, <1>a DEF InOrder
  <2>2. ASSUME NEW s \in recent + 1 .. slot
        PROVE  InOrder(<<s, Confirmed>>)'
    <3>1. \A x \in announced \union givenUp : x[1] # s
      BY <1>n, <1>a DEF Past
    <3>2. <<s, Confirmed>>[1] = s /\ <<s, Finalized>>[1] = s /\ <<s, Confirmed>>[2] = Confirmed
      OBVIOUS
    <3>3. <<s, Confirmed>> \notin announced /\ <<s, Finalized>> \notin announced
      BY <3>1, <3>2
    <3>. QED
      BY <3>1, <3>2, <3>3, <1>1, <1>n, ItemFacts DEF InOrder
  <2>. QED
    BY <2>1, <2>2, <1>3, <1>6
<1>10. OnePerSlot'
  <2> SUFFICES ASSUME NEW x \in InHand', NEW y \in InHand', x[1] = y[1]
               PROVE  x = y
    BY DEF OnePerSlot
  <2>1. \A z \in Elems(new) : \E s \in recent + 1 .. slot : z = <<s, Confirmed>> /\ z[1] = s
    BY <1>3
  <2>2. CASE x \in InHand /\ y \in InHand
    BY <2>2, <1>a DEF OnePerSlot
  <2>3. CASE x \in Elems(new) /\ y \in Elems(new)
    BY <2>1, <2>3
  <2>4. CASE x \in InHand /\ y \in Elems(new)
    BY <2>1, <2>4, <1>4, <1>n
  <2>5. CASE x \in Elems(new) /\ y \in InHand
    BY <2>1, <2>5, <1>4, <1>n
  <2>. QED
    BY <2>2, <2>3, <2>4, <2>5, <1>6
<1>11. Past'
  <2>1. \A x \in announced \union givenUp : x[1] \in Int
    BY <1>a, ItemFacts DEF TypeOK
  <2>2. \A x \in announced \union givenUp : x[1] <= slot
    BY <2>1, <1>1, <1>2, <1>a DEF Past
  <2>3. ASSUME NEW g \in givenUp
        PROVE  IsTooOld(g[1])'
    <3>1. recent - g[1] > TooOld /\ g[1] \in Int /\ TooOld \in Nat
      BY <2>1, <1>a, PollingAssumption DEF Past, IsTooOld
    <3>. QED
      BY <3>1, <1>1, <1>2 DEF IsTooOld
  <2>. QED
    BY <2>2, <2>3, <1>1 DEF Past
<1>12. NothingLost'
  <2> SUFFICES ASSUME NEW s \in first + 1 .. slot
               PROVE  \/ \E x \in InHand' : x[1] = s
                      \/ <<s, Finalized>> \in announced
                      \/ \E g \in givenUp : g[1] = s
    BY <1>1 DEF NothingLost
  <2>1. CASE s \in first + 1 .. recent
    BY <2>1, <1>1, <1>6, <1>a DEF NothingLost
  <2>2. CASE s \in recent + 1 .. slot
    <3>1. <<s, Confirmed>> \in InHand' /\ <<s, Confirmed>>[1] = s
      BY <2>2, <1>3, <1>6
    <3>. QED
      BY <3>1
  <2>. QED
    BY <2>1, <2>2, <1>2
<1>13. AnnouncedInOrder'
  BY <1>1, <1>a DEF AnnouncedInOrder
<1>. QED
  BY <1>7, <1>8, <1>9, <1>10, <1>11, <1>12, <1>13 DEF PollingInv

(* A worker takes the next item of the schedule.                           *)
LEMMA FetchStep ==
  ASSUME PollingInv, NEW w \in Worker, Fetch(w)
  PROVE  PollingInv'
<1>0. PICK x : x = Head(schedule)
  OBVIOUS
<1>a. TypeOK /\ OnePlace
  BY DEF PollingInv
<1>1. /\ fetching[w] = None
      /\ fetching' = [fetching EXCEPT ![w] = x]
      /\ schedule' = Tail(schedule)
      /\ UNCHANGED <<recent, first, retry, resting, cluster, announced, twice, givenUp>>
  BY <1>0 DEF Fetch
<1>2. /\ x \in Item /\ x \in Elems(schedule)
      /\ schedule' \in Seq(Item) /\ Distinct(schedule')
      /\ Elems(schedule') = Elems(schedule) \ {x}
  <2>1. schedule \in Seq(Item) /\ schedule # << >> /\ Distinct(schedule)
    BY <1>a DEF Fetch, TypeOK, OnePlace
  <2>. QED
    BY <2>1, <1>0, <1>1, HeadLeaves
<1>3. /\ fetching' \in [Worker -> Item \union {None}]
      /\ Fetching' = Fetching \union {x}
      /\ \A u, v \in Worker : fetching'[u] = fetching'[v] /\ fetching'[u] # None => u = v
  <2>1. x \notin Fetching
    BY <1>2, <1>a DEF OnePlace
  <2>. QED
    BY <2>1, <1>1, <1>2, <1>a, WorkerTakes
<1>4. UNCHANGED <<Elems(retry), Resting>>
  BY <1>1 DEF Resting
<1>5. TypeOK'
  BY <1>1, <1>2, <1>3, <1>a DEF TypeOK
<1>6. OnePlace'
  BY <1>1, <1>2, <1>3, <1>4, <1>a DEF OnePlace
<1>7. InHand' = InHand
  BY <1>2, <1>3, <1>4 DEF InHand
<1>. QED
  BY <1>1, <1>5, <1>6, <1>7, SameHands

(* A worker hands its item to the retry queue.                             *)
LEMMA NotFetchedStep ==
  ASSUME PollingInv, NEW w \in Worker, NotFetched(w)
  PROVE  PollingInv'
<1>0. PICK x : x = fetching[w]
  OBVIOUS
<1>a. TypeOK /\ OnePlace
  BY DEF PollingInv
<1>1. /\ x # None
      /\ fetching' = [fetching EXCEPT ![w] = None]
      /\ retry' = Append(retry, x)
      /\ UNCHANGED <<recent, first, schedule, resting, cluster, announced, twice, givenUp>>
  BY <1>0 DEF NotFetched
<1>2. /\ fetching' \in [Worker -> Item \union {None}]
      /\ x \in Item /\ x \in Fetching
      /\ Fetching' = Fetching \ {x}
      /\ \A u, v \in Worker : fetching'[u] = fetching'[v] /\ fetching'[u] # None => u = v
  BY <1>0, <1>1, <1>a, WorkerGives
<1>3. retry' \in Seq(Item) /\ Distinct(retry') /\ Elems(retry') = Elems(retry) \union {x}
  <2>1. retry \in Seq(Item) /\ Distinct(retry) /\ x \notin Elems(retry)
    BY <1>2, <1>a DEF TypeOK, OnePlace
  <2>. QED
    BY <2>1, <1>1, <1>2, ItemJoins
<1>4. UNCHANGED <<Elems(schedule), Resting>>
  BY <1>1 DEF Resting
<1>5. TypeOK'
  BY <1>1, <1>2, <1>3, <1>a DEF TypeOK
<1>6. OnePlace'
  BY <1>1, <1>2, <1>3, <1>4, <1>a DEF OnePlace
<1>7. InHand' = InHand
  BY <1>2, <1>3, <1>4 DEF InHand
<1>. QED
  BY <1>1, <1>5, <1>6, <1>7, SameHands

(* The retry task takes an item.                                           *)
LEMMA TakeRetryStep ==
  ASSUME PollingInv, TakeRetry
  PROVE  PollingInv'
<1>0. PICK x : x = Head(retry)
  OBVIOUS
<1>a. TypeOK /\ OnePlace
  BY DEF PollingInv
<1>1. /\ resting = None /\ resting' = x
      /\ retry' = Tail(retry)
      /\ UNCHANGED <<recent, first, schedule, fetching, cluster, announced, twice, givenUp>>
  BY <1>0 DEF TakeRetry
<1>2. /\ x \in Item /\ x \in Elems(retry)
      /\ retry' \in Seq(Item) /\ Distinct(retry')
      /\ Elems(retry') = Elems(retry) \ {x}
  <2>1. retry \in Seq(Item) /\ retry # << >> /\ Distinct(retry)
    BY <1>a DEF TakeRetry, TypeOK, OnePlace
  <2>. QED
    BY <2>1, <1>0, <1>1, HeadLeaves
<1>3. UNCHANGED <<Elems(schedule), Fetching>> /\ Resting = {} /\ Resting' = {x}
  BY <1>1, <1>2, ItemFacts DEF Resting, Fetching
<1>4. TypeOK'
  BY <1>1, <1>2, <1>a DEF TypeOK
<1>5. OnePlace'
  BY <1>1, <1>2, <1>3, <1>a DEF OnePlace
<1>6. InHand' = InHand
  BY <1>2, <1>3 DEF InHand
<1>. QED
  BY <1>1, <1>4, <1>5, <1>6, SameHands

(* The item whose time has come is scheduled again.                        *)
LEMMA RestEndsStep ==
  ASSUME PollingInv, RestEnds
  PROVE  PollingInv'
<1>0. PICK x : x = resting
  OBVIOUS
<1>a. TypeOK /\ OnePlace
  BY DEF PollingInv
<1>1. /\ resting = x /\ x # None /\ resting' = None
      /\ schedule' = Append(schedule, x)
      /\ UNCHANGED <<recent, first, fetching, retry, cluster, announced, twice, givenUp>>
  BY <1>0 DEF RestEnds
<1>2. x \in Item /\ Resting = {x} /\ Resting' = {} /\ UNCHANGED <<Elems(retry), Fetching>>
  BY <1>1, <1>a DEF TypeOK, Resting, Fetching
<1>3. schedule' \in Seq(Item) /\ Distinct(schedule') /\ Elems(schedule') = Elems(schedule) \union {x}
  <2>1. schedule \in Seq(Item) /\ Distinct(schedule) /\ x \notin Elems(schedule)
    BY <1>2, <1>a DEF TypeOK, OnePlace
  <2>. QED
    BY <2>1, <1>1, <1>2, ItemJoins
<1>4. TypeOK'
  BY <1>1, <1>3, <1>a DEF TypeOK
<1>5. OnePlace'
  BY <1>1, <1>2, <1>3, <1>a DEF OnePlace
<1>6. InHand' = InHand
  BY <1>2, <1>3 DEF InHand
<1>. QED
  BY <1>1, <1>4, <1>5, <1>6, SameHands

(* An item that is too old is dropped, and its slot with it.               *)
LEMMA GiveUpStep ==
  ASSUME PollingInv, GiveUp
  PROVE  PollingInv'
<1>0. PICK x : x = Head(retry)
  OBVIOUS
<1>a. TypeOK /\ OnePlace /\ OnePerSlot /\ Past /\ NothingLost /\ AnnouncedInOrder
      /\ \A y \in InHand : InOrder(y)
  BY DEF PollingInv
<1>1. /\ IsTooOld(x[1])
      /\ givenUp' = givenUp \union {x}
      /\ retry' = Tail(retry)
      /\ UNCHANGED <<recent, first, schedule, fetching, resting, cluster, announced, twice>>
  BY <1>0 DEF GiveUp
<1>2. /\ x \in Item /\ x \in Elems(retry)
      /\ retry' \in Seq(Item) /\ Distinct(retry')
      /\ Elems(retry') = Elems(retry) \ {x}
  <2>1. retry \in Seq(Item) /\ retry # << >> /\ Distinct(retry)
    BY <1>a DEF GiveUp, TypeOK, OnePlace
  <2>. QED
    BY <2>1, <1>0, <1>1, HeadLeaves
<1>3. UNCHANGED <<Elems(schedule), Fetching, Resting>>
  BY <1>1 DEF Resting, Fetching
<1>4. TypeOK'
  BY <1>1, <1>2, <1>a DEF TypeOK
<1>5. OnePlace'
  BY <1>1, <1>2, <1>3, <1>a DEF OnePlace
<1>6. InHand' = InHand \ {x} /\ x \in InHand
  BY <1>2, <1>3, <1>a DEF InHand, OnePlace
<1>7. ASSUME NEW y \in InHand'
      PROVE  InOrder(y)'
  <2>1. y \in InHand /\ y[1] # x[1]
    BY <1>6, <1>7, <1>a DEF OnePerSlot
  <2>. QED
    BY <2>1, <1>1, <1>a DEF InOrder
<1>8. OnePerSlot'
  BY <1>6, <1>a DEF OnePerSlot
<1>9. Past'
  <2>1. first # NoSlot /\ x[1] <= recent
    BY <1>6, <1>a DEF InOrder
  <2>. QED
    BY <2>1, <1>1, <1>a DEF Past, IsTooOld
<1>10. NothingLost'
  BY <1>1, <1>6, <1>a DEF NothingLost
<1>11. AnnouncedInOrder'
  BY <1>1, <1>a DEF AnnouncedInOrder
<1>. QED
  BY <1>4, <1>5, <1>7, <1>8, <1>9, <1>10, <1>11 DEF PollingInv

(* A block was fetched: it is announced, for the first time, and when it   *)
(* was confirmed it is to be fetched again.                                *)
LEMMA FetchedStep ==
  ASSUME PollingInv, NEW w \in Worker, Fetched(w)
  PROVE  PollingInv'
<1>0. PICK x : x = fetching[w]
  OBVIOUS
<1>a. TypeOK /\ OnePlace /\ OnePerSlot /\ Past /\ NothingLost /\ AnnouncedInOrder
      /\ \A y \in InHand : InOrder(y)
  BY DEF PollingInv
<1> DEFINE f == <<x[1], Finalized>>
<1>1. /\ x # None
      /\ announced' = announced \union {x}
      /\ twice' = twice \union ({x} \intersect announced)
      /\ retry' = IF x[2] = Finalized THEN retry ELSE Append(retry, f)
      /\ fetching' = [fetching EXCEPT ![w] = None]
      /\ UNCHANGED <<recent, first, schedule, resting, cluster, givenUp>>
  BY <1>0 DEF Fetched
<1>2. /\ fetching' \in [Worker -> Item \union {None}]
      /\ x \in Item /\ x \in Fetching
      /\ Fetching' = Fetching \ {x}
      /\ \A u, v \in Worker : fetching'[u] = fetching'[v] /\ fetching'[u] # None => u = v
  BY <1>0, <1>1, <1>a, WorkerGives
<1>3. x \in InHand /\ InOrder(x)
  BY <1>2, <1>a DEF InHand
<1>4. /\ x[1] \in Slot /\ x = <<x[1], x[2]>> /\ x[2] \in {Confirmed, Finalized}
      /\ f \in Item /\ f[1] = x[1] /\ f[2] = Finalized
  BY <1>2, ItemFacts DEF Item
<1> HIDE DEF f
<1>5. x \notin announced /\ f \notin announced
  BY <1>3, <1>4 DEF InOrder, f
<1>6. \A y \in InHand : y[1] = x[1] => y = x
  BY <1>3, <1>a DEF OnePerSlot
<1>7. UNCHANGED <<Elems(schedule), Resting>>
  BY <1>1 DEF Resting
<1>8. InHand \ {x} = Elems(schedule) \union Elems(retry) \union Fetching' \union Resting
  BY <1>2, <1>a DEF InHand, OnePlace
<1>9. /\ retry' \in Seq(Item) /\ Distinct(retry')
      /\ Elems(retry') = IF x[2] = Finalized THEN Elems(retry) ELSE Elems(retry) \union {f}
  <2>1. retry \in Seq(Item) /\ Distinct(retry)
    BY <1>a DEF TypeOK, OnePlace
  <2>2. CASE x[2] = Finalized
    BY <2>1, <2>2, <1>1
  <2>3. CASE x[2] # Finalized
    <3>1. f \notin Elems(retry)
      BY <2>3, <1>4, <1>6 DEF InHand
    <3>. QED
      BY <2>1, <2>3, <3>1, <1>1, <1>4, ItemJoins
  <2>. QED
    BY <2>2, <2>3
<1>10. InHand' = IF x[2] = Finalized THEN InHand \ {x} ELSE (InHand \ {x}) \union {f}
  BY <1>7, <1>8, <1>9 DEF InHand
<1>11. TypeOK'
  BY <1>1, <1>2, <1>9, <1>a DEF TypeOK
<1>12. OnePlace'
  <2>1. x[2] # Finalized => f \notin InHand
    BY <1>4, <1>6
  <2>2. x[2] # Finalized =>
          f \notin Elems(schedule) /\ f \notin Fetching /\ f \notin Resting
    BY <2>1 DEF InHand
  <2>. QED
    BY <2>2, <1>1, <1>2, <1>7, <1>9, <1>a DEF OnePlace
<1>13. ASSUME NEW y \in InHand'
       PROVE  InOrder(y)'
  <2>1. CASE y \in InHand \ {x}
    <3>1. y[1] # x[1] /\ y \in InHand
      BY <2>1, <1>6
    <3>2. <<y[1], Confirmed>> # x /\ <<y[1], Finalized>> # x
      <4>1. <<y[1], Confirmed>>[1] = y[1] /\ <<y[1], Finalized>>[1] = y[1]
        OBVIOUS
      <4>. QED
        BY <3>1, <4>1
    <3>. QED
      BY <3>1, <3>2, <1>1, <1>a DEF InOrder
  <2>2. CASE y = f /\ x[2] = Confirmed
    <3>1. x = <<f[1], Confirmed>> /\ f # x /\ f = <<f[1], Finalized>>
      BY <2>2, <1>4, ItemFacts DEF f
    <3>2. <<f[1], Confirmed>> \in announced'
      BY <3>1, <1>1
    <3>3. <<f[1], Finalized>> \notin announced'
      BY <3>1, <1>1, <1>5
    <3>. QED
      BY <2>2, <3>2, <3>3, <1>1, <1>3, <1>4, ItemFacts DEF InOrder
  <2>. QED
    BY <2>1, <2>2, <1>4, <1>10, <1>13
<1>14. OnePerSlot'
  <2> SUFFICES ASSUME NEW y \in InHand', NEW z \in InHand', y[1] = z[1]
               PROVE  y = z
    BY DEF OnePerSlot
  <2>1. \A k \in InHand \ {x} : k[1] # f[1]
    BY <1>4, <1>6
  <2>2. y \in InHand \ {x} \/ y = f
    BY <1>10
  <2>3. z \in InHand \ {x} \/ z = f
    BY <1>10
  <2>. QED
    BY <2>1, <2>2, <2>3, <1>a DEF OnePerSlot
<1>15. Past'
  BY <1>1, <1>3, <1>a DEF Past, InOrder, IsTooOld
<1>16. NothingLost'
  <2> SUFFICES ASSUME first # NoSlot, NEW s \in first + 1 .. recent,
                      <<s, Finalized>> \notin announced',
                      \A g \in givenUp : g[1] # s
               PROVE  \E y \in InHand' : y[1] = s
    BY <1>1 DEF NothingLost
  <2>1. PICK y \in InHand : y[1] = s
    BY <1>1, <1>a DEF NothingLost
  <2>2. CASE y # x
    BY <2>1, <2>2, <1>10
  <2>3. CASE y = x
    <3>1. x[2] # Finalized
      BY <2>1, <2>3, <1>1, <1>4
    <3>. QED
      BY <2>1, <2>3, <3>1, <1>4, <1>10
  <2>. QED
    BY <2>2, <2>3
<1>17. AnnouncedInOrder'
  <2>1. twice' = {}
    BY <1>1, <1>5, <1>a DEF AnnouncedInOrder
  <2>2. ASSUME NEW s \in Slot, <<s, Finalized>> \in announced'
        PROVE  <<s, Confirmed>> \in announced'
    <3>1. CASE <<s, Finalized>> \in announced
      BY <3>1, <1>1, <1>a DEF AnnouncedInOrder
    <3>2. CASE <<s, Finalized>> = x
      <4>1. x[1] = s /\ x[2] = Finalized
        BY <3>2
      <4>. QED
        BY <4>1, <1>1, <1>3 DEF InOrder
    <3>. QED
      BY <2>2, <3>1, <3>2, <1>1
  <2>. QED
    BY <2>1, <2>2 DEF AnnouncedInOrder
<1>. QED
  BY <1>11, <1>12, <1>13, <1>14, <1>15, <1>16, <1>17 DEF PollingInv

(* The cluster goes on: nothing of the polling changes.                    *)
LEMMA BlockRisesStep ==
  ASSUME PollingInv, NEW slot \in Filled, BlockRises(slot)
  PROVE  PollingInv'
<1> USE DEF BlockRises
<1>1. UNCHANGED <<Elems(schedule), Elems(retry), Fetching, Resting, InHand>>
  BY DEF Elems, Fetching, Resting, InHand
<1>2. TypeOK'
  <2>1. cluster \in [Slot -> {0, Confirmed, Finalized}] /\ slot \in Slot
    BY PollingAssumption DEF PollingInv, TypeOK, Slot
  <2>2. cluster[slot] + 1 \in {0, Confirmed, Finalized}
    BY <2>1 DEF Confirmed, Finalized
  <2>3. cluster' \in [Slot -> {0, Confirmed, Finalized}]
    BY <2>1, <2>2
  <2>. QED
    BY <2>3 DEF PollingInv, TypeOK
<1>3. OnePlace'
  BY <1>1 DEF PollingInv, OnePlace
<1>. QED
  BY <1>1, <1>2, <1>3, SameHands

----------------------------------------------------------------------------
(* The polling                                                             *)

(* The copies of an item are its places: it has one when it is in hand.    *)
LEMMA CopiesArePlaces ==
  ASSUME PollingInv, NEW x \in Item
  PROVE  /\ x \in InHand <=> Copies(x) # {}
         /\ \A p, q \in Copies(x) : p = q
<1> DEFINE S == {<<"schedule", i>> : i \in {j \in DOMAIN schedule : schedule[j] = x}}
           R == {<<"retry", i>> : i \in {j \in DOMAIN retry : retry[j] = x}}
           F == {<<"fetching", w>> : w \in {v \in Worker : fetching[v] = x}}
           T == IF resting = x THEN {<<"resting", 0>>} ELSE {}
<1>a. TypeOK /\ OnePlace /\ x # None
  BY ItemFacts DEF PollingInv
<1>b. /\ schedule \in Seq(Item) /\ retry \in Seq(Item)
      /\ DOMAIN schedule = 1 .. Len(schedule) /\ DOMAIN retry = 1 .. Len(retry)
  BY <1>a DEF TypeOK
<1>1. Copies(x) = S \union R \union F \union T
  BY DEF Copies
<1>2. (S # {} <=> x \in Elems(schedule)) /\ \A p, q \in S : p = q
  <2> DEFINE K == {j \in DOMAIN schedule : schedule[j] = x}
  <2>1. (K # {} <=> x \in Elems(schedule)) /\ \A i, j \in K : i = j
    BY <1>a, <1>b DEF Elems, OnePlace, Distinct
  <2>2. \A p : p \in S <=> \E i \in K : p = <<"schedule", i>>
    OBVIOUS
  <2> HIDE DEF K, S
  <2>3. \A p, q \in S : p = q
    BY <2>1, <2>2
  <2>4. S # {} <=> K # {}
    <3>1. ASSUME NEW i \in K PROVE S # {}
      BY <2>2
    <3>2. ASSUME NEW p \in S PROVE K # {}
      BY <2>2
    <3>. QED
      BY <3>1, <3>2
  <2>. QED
    BY <2>1, <2>3, <2>4
<1>3. (R # {} <=> x \in Elems(retry)) /\ \A p, q \in R : p = q
  <2> DEFINE K == {j \in DOMAIN retry : retry[j] = x}
  <2>1. (K # {} <=> x \in Elems(retry)) /\ \A i, j \in K : i = j
    BY <1>a, <1>b DEF Elems, OnePlace, Distinct
  <2>2. \A p : p \in R <=> \E i \in K : p = <<"retry", i>>
    OBVIOUS
  <2> HIDE DEF K, R
  <2>3. \A p, q \in R : p = q
    BY <2>1, <2>2
  <2>4. R # {} <=> K # {}
    <3>1. ASSUME NEW i \in K PROVE R # {}
      BY <2>2
    <3>2. ASSUME NEW p \in R PROVE K # {}
      BY <2>2
    <3>. QED
      BY <3>1, <3>2
  <2>. QED
    BY <2>1, <2>3, <2>4
<1>4. (F # {} <=> x \in Fetching) /\ \A p, q \in F : p = q
  <2> DEFINE K == {v \in Worker : fetching[v] = x}
  <2>1. (K # {} <=> x \in Fetching) /\ \A i, j \in K : i = j
    BY <1>a DEF Fetching, OnePlace
  <2>2. \A p : p \in F <=> \E i \in K : p = <<"fetching", i>>
    OBVIOUS
  <2> HIDE DEF K, F
  <2>3. \A p, q \in F : p = q
    BY <2>1, <2>2
  <2>4. F # {} <=> K # {}
    <3>1. ASSUME NEW i \in K PROVE F # {}
      BY <2>2
    <3>2. ASSUME NEW p \in F PROVE K # {}
      BY <2>2
    <3>. QED
      BY <3>1, <3>2
  <2>. QED
    BY <2>1, <2>3, <2>4
<1>5. (T # {} <=> x \in Resting) /\ \A p, q \in T : p = q
  BY <1>a DEF Resting
<1> HIDE DEF S, R, F, T
<1>6. x \in InHand <=> Copies(x) # {}
  BY <1>1, <1>2, <1>3, <1>4, <1>5 DEF InHand
<1>7. ASSUME NEW p \in Copies(x), NEW q \in Copies(x)
      PROVE  p = q
  <2>1. /\ S # {} => R = {} /\ F = {} /\ T = {}
        /\ R # {} => F = {} /\ T = {}
        /\ F # {} => T = {}
    BY <1>2, <1>3, <1>4, <1>5, <1>a DEF OnePlace
  <2>. QED
    BY <2>1, <1>1, <1>2, <1>3, <1>4, <1>5
<1>. QED
  BY <1>6, <1>7

(* The invariant says that every slot is pursued, in one place.            *)
LEMMA InvImpliesPursued == PollingInv => EverySlotIsPursued
<1> SUFFICES ASSUME PollingInv
             PROVE  EverySlotIsPursued
  OBVIOUS
<1>a. TypeOK /\ AnnouncedInOrder
  BY DEF PollingInv
<1>1. EachInOnePlace
  <2> SUFFICES ASSUME first # NoSlot, NEW s \in first + 1 .. recent
               PROVE  LET c == <<s, Confirmed>>
                          f == <<s, Finalized>>
                          places == Copies(c) \union Copies(f)
                      IN /\ \A p, q \in places : p = q
                         /\ \/ Pursued(c) /\ announced \intersect {c, f} = {}
                            \/ Pursued(f) /\ announced \intersect {c, f} = {c}
                            \/ places = {} /\ f \in announced
                            \/ places = {} /\ \E g \in givenUp : g[1] = s /\ IsTooOld(s)
    BY Zenon DEF EachInOnePlace
  <2> DEFINE c == <<s, Confirmed>>
             f == <<s, Finalized>>
             places == Copies(c) \union Copies(f)
  <2>1. s \in Slot
    BY <1>a, PollingAssumption DEF TypeOK, Slot, NoSlot
  <2>2. /\ c \in Item /\ c[1] = s /\ c[2] = Confirmed
        /\ f \in Item /\ f[1] = s /\ f[2] = Finalized
        /\ c # f
    <3>1. c # f
      BY ItemFacts
    <3>. QED
      BY <2>1, <3>1 DEF Item
  <2>3. /\ c \in InHand <=> Pursued(c)
        /\ f \in InHand <=> Pursued(f)
        /\ \A p, q \in Copies(c) : p = q
        /\ \A p, q \in Copies(f) : p = q
    BY <2>2, CopiesArePlaces DEF Pursued
  <2>4. ~ (c \in InHand /\ f \in InHand)
    BY <2>2 DEF PollingInv, OnePerSlot
  <2>5. c \in InHand => c \notin announced /\ f \notin announced
    BY <2>2 DEF PollingInv, InOrder
  <2>6. f \in InHand => c \in announced /\ f \notin announced
    BY <2>2 DEF PollingInv, InOrder
  <2>7. c \in InHand \/ f \in InHand \/ f \in announced
        \/ \E g \in givenUp : g[1] = s /\ IsTooOld(s)
    <3>1. CASE \E x \in InHand : x[1] = s
      <4>1. PICK x \in InHand : x[1] = s
        BY <3>1
      <4>2. x = c \/ x = f
        BY <4>1, <1>a, HandsHoldItems, ItemFacts
      <4>. QED
        BY <4>1, <4>2
    <3>2. CASE \E g \in givenUp : g[1] = s
      BY <3>2 DEF PollingInv, Past
    <3>. QED
      BY <3>1, <3>2 DEF PollingInv, NothingLost
  <2> HIDE DEF c, f
  <2>8. \A p, q \in places : p = q
    BY <2>3, <2>4 DEF Pursued
  <2>9. CASE c \in InHand
    BY <2>3, <2>5, <2>8, <2>9 DEF c, f
  <2>10. CASE f \in InHand
    <3>1. announced \intersect {c, f} = {c}
      BY <2>6, <2>10
    <3>. QED
      BY <2>3, <2>8, <2>10, <3>1 DEF c, f
  <2>11. CASE c \notin InHand /\ f \notin InHand
    <3>1. places = {}
      BY <2>3, <2>11 DEF Pursued
    <3>. QED
      BY <2>7, <2>8, <2>11, <3>1 DEF c, f
  <2>. QED
    BY <2>9, <2>10, <2>11
<1>. QED
  BY <1>a, <1>1 DEF EverySlotIsPursued

(* The inductive invariant of the polling always holds.                    *)
THEOREM PollingInvariant == Spec => []PollingInv
<1>1. PollingInv /\ [Next]_vars => PollingInv'
  <2> SUFFICES ASSUME PollingInv, [Next]_vars
               PROVE  PollingInv'
    OBVIOUS
  <2>1. CASE UNCHANGED vars
    <3> USE <2>1 DEF vars
    <3>1. UNCHANGED <<Elems(schedule), Elems(retry), Fetching, Resting, InHand>>
      BY DEF Elems, Fetching, Resting, InHand
    <3>2. TypeOK' /\ OnePlace'
      BY <3>1 DEF PollingInv, TypeOK, OnePlace
    <3>. QED
      BY <3>1, <3>2, SameHands
  <2>2. CASE \E slot \in Slot : StartPolling(slot) \/ NotifySlot(slot)
    BY <2>2, StartStep, NotifyStep
  <2>3. CASE \E w \in Worker : Fetch(w) \/ Fetched(w) \/ NotFetched(w)
    BY <2>3, FetchStep, FetchedStep, NotFetchedStep
  <2>4. CASE RetryTask
    BY <2>4, TakeRetryStep, GiveUpStep, RestEndsStep DEF RetryTask
  <2>5. CASE \E slot \in Filled : BlockRises(slot)
    BY <2>5, BlockRisesStep
  <2>. QED
    BY <2>1, <2>2, <2>3, <2>4, <2>5 DEF Next
<1>. QED
  BY <1>1, InitInv, PTL DEF Spec

(* However fetches, retries and new slots interleave among any number of   *)
(* workers, each slot since the first is in exactly one queue or hand until *)
(* it is finalized or too old, and is announced once at each commitment,   *)
(* at confirmed first (poll_block, the retry task of poll_blocks.rs).      *)
THEOREM SlotsArePursued == Spec => []EverySlotIsPursued
BY PollingInvariant, InvImpliesPursued, PTL

------------------------------------------------------------------------------
(* The QUIC connections to one leader                                       *)

(* The two halves of PermitsComeBack.                                       *)
PermitsAdd == \A i \in Pool : free[i] + Cardinality(Holders(i)) = permits
LocksAreHeld ==
  \A i \in Pool : writer[i] = Connecting(i) /\ \A s, r \in writer[i] : s = r

Known == failed \cup {NoId}

BrokenHasFailed == \A i \in Pool : broken[i] \in Known

(* What a send holds, and what it knows of the connection where it is.      *)
Seen(s) ==
  LET i == send[s].i
  IN  /\ Holding(s) \/ At(s, "pick") => i \in Pool
      /\ send[s].at \in {"read", "lock", "connect"} => send[s].id \in Known
      /\ At(s, "lock") /\ send[s].id # NoId => cell[i] # NoId
      /\ At(s, "connect") => send[s].id = cell[i]
      /\ At(s, "use") => send[s].id # NoId

QuicInv ==
  /\ QuicTypeOK
  /\ PermitsAdd
  /\ LocksAreHeld
  /\ BrokenHasFailed
  /\ \A s \in Sender : Seen(s)

(* The other sends are where they were.                                     *)
OthersStay(s) ==
  /\ DOMAIN send' = Sender
  /\ \A r \in Sender \ {s} : send'[r] = send[r]

------------------------------------------------------------------------------
(* Where a step takes a send                                                *)

(* A send that goes on is where it goes to, and the others stay.            *)
LEMMA GoesThere ==
  ASSUME QuicTypeOK, NEW s \in Sender, NEW place, NEW i, NEW id,
         Goes(s, place, i, id)
  PROVE  /\ OthersStay(s)
         /\ send'[s].at = place /\ send'[s].i = i /\ send'[s].id = id
BY DEF QuicTypeOK, Goes, OthersStay

(* What a send is stays of its type when it goes on.                        *)
LEMMA GoesTyped ==
  ASSUME QuicTypeOK, NEW s \in Sender, NEW place, NEW i, NEW id,
         Goes(s, place, i, id), made' \in Nat, made' >= made,
         place \in {"pick", "any", "load", "read", "lock", "connect", "use"},
         i \in 0 .. Size, id \in 0 .. made'
  PROVE  send' \in [Sender -> [at : {"idle", "pick", "any", "load", "read", "lock", "connect", "use"},
                               i : 0 .. Size, id : 0 .. made', deaf : BOOLEAN]]
<1> DEFINE T(m) == [at : {"idle", "pick", "any", "load", "read", "lock", "connect", "use"},
                    i : 0 .. Size, id : 0 .. m, deaf : BOOLEAN]
<1>1. made \in Nat /\ send \in [Sender -> T(made)] /\ exit \in BOOLEAN
  BY QuicAssumption DEF QuicTypeOK
<1>2. \A x : x \in T(made) => x \in T(made') /\ x.deaf \in BOOLEAN
  BY <1>1
<1>3. PICK d \in BOOLEAN : send' = [send EXCEPT ![s] = [at |-> place, i |-> i, id |-> id, deaf |-> d]]
  BY <1>1 DEF Goes
<1>4. [at |-> place, i |-> i, id |-> id, deaf |-> d] \in T(made')
  OBVIOUS
<1> HIDE DEF T
<1>5. send' \in [Sender -> T(made')]
  BY <1>1, <1>2, <1>3, <1>4
<1> QED BY <1>5 DEF T

(* A send that ends is idle, and the others stay.                           *)
LEMMA EndsIdle ==
  ASSUME QuicTypeOK, NEW s \in Sender, Ends(s), made' = made
  PROVE  /\ OthersStay(s)
         /\ send'[s] = Idle
         /\ send' \in [Sender -> [at : {"idle", "pick", "any", "load", "read", "lock", "connect", "use"},
                                  i : 0 .. Size, id : 0 .. made', deaf : BOOLEAN]]
BY QuicAssumption DEF QuicTypeOK, Ends, OthersStay, Idle, NoId

------------------------------------------------------------------------------
(* Permits                                                                  *)

(* There are finitely many holders of a connection.                         *)
LEMMA HoldersAreFinite ==
  ASSUME NEW i
  PROVE  IsFiniteSet(Holders(i)) /\ Cardinality(Holders(i)) \in Nat
<1>1. Holders(i) \subseteq Sender BY DEF Holders
<1> QED BY <1>1, QuicAssumption, FS_Subset, FS_CardinalityType

(* A send that neither takes nor gives back a permit leaves them as they    *)
(* are.                                                                     *)
LEMMA PermitsKept ==
  ASSUME PermitsAdd, NEW s \in Sender, OthersStay(s),
         Holding(s)' <=> Holding(s), Holding(s) => send'[s].i = send[s].i,
         free' = free, permits' = permits
  PROVE  PermitsAdd'
<1>1. ASSUME NEW i \in Pool PROVE Holders(i)' = Holders(i)
  BY DEF Holders, Holding, OthersStay
<1> QED BY <1>1 DEF PermitsAdd

(* A permit that is taken is one less of those that are free.               *)
LEMMA PermitTaken ==
  ASSUME QuicTypeOK, PermitsAdd, NEW s \in Sender, NEW i \in Pool, OthersStay(s),
         ~ Holding(s), Holding(s)', send'[s].i = i,
         free[i] > 0, free' = [free EXCEPT ![i] = @ - 1], permits' = permits
  PROVE  PermitsAdd' /\ free' \in [Pool -> 0 .. permits']
<1>1. s \notin Holders(i) /\ Holders(i)' = Holders(i) \cup {s}
  BY DEF Holders, Holding, OthersStay
<1>2. \A j \in Pool \ {i} : Holders(j)' = Holders(j)
  BY DEF Holders, Holding, OthersStay
<1>3. Cardinality(Holders(i)') = Cardinality(Holders(i)) + 1
  BY <1>1, HoldersAreFinite, FS_AddElement
<1>4. free'[i] = free[i] - 1 /\ \A j \in Pool \ {i} : free'[j] = free[j]
  BY DEF QuicTypeOK
<1>5. free[i] \in Int /\ Cardinality(Holders(i)) \in Nat
  BY HoldersAreFinite, QuicAssumption DEF QuicTypeOK
<1>6. free[i] + Cardinality(Holders(i)) = permits
  BY DEF PermitsAdd
<1>7. free'[i] + Cardinality(Holders(i)') = permits'
  BY <1>3, <1>4, <1>5, <1>6
<1>8. \A j \in Pool \ {i} : free'[j] + Cardinality(Holders(j)') = permits'
  BY <1>2, <1>4 DEF PermitsAdd
<1>9. free' \in [Pool -> 0 .. permits']
  BY QuicAssumption DEF QuicTypeOK
<1> QED BY <1>7, <1>8, <1>9 DEF PermitsAdd

(* A permit that is given back is free again.                               *)
LEMMA PermitGivenBack ==
  ASSUME QuicTypeOK, PermitsAdd, NEW s \in Sender, OthersStay(s),
         Holding(s), send[s].i \in Pool, ~ Holding(s)',
         free' = [free EXCEPT ![send[s].i] = @ + 1], permits' = permits
  PROVE  PermitsAdd' /\ free' \in [Pool -> 0 .. permits']
<1>0. PICK i \in Pool : i = send[s].i
  OBVIOUS
<1>1. s \in Holders(i) /\ Holders(i)' = Holders(i) \ {s}
  BY <1>0 DEF Holders, Holding, OthersStay
<1>2. \A j \in Pool \ {i} : Holders(j)' = Holders(j)
  BY <1>0 DEF Holders, Holding, OthersStay
<1>3. Cardinality(Holders(i)') = Cardinality(Holders(i)) - 1
  BY <1>1, HoldersAreFinite, FS_RemoveElement
<1>4. free'[i] = free[i] + 1 /\ \A j \in Pool \ {i} : free'[j] = free[j]
  BY <1>0 DEF QuicTypeOK
<1>5. free[i] \in Int /\ Cardinality(Holders(i)) \in Nat
  BY HoldersAreFinite, QuicAssumption DEF QuicTypeOK
<1>6. free[i] + Cardinality(Holders(i)) = permits
  BY DEF PermitsAdd
<1>7. free'[i] + Cardinality(Holders(i)') = permits'
  BY <1>3, <1>4, <1>5, <1>6
<1>8. \A j \in Pool \ {i} : free'[j] + Cardinality(Holders(j)') = permits'
  BY <1>2, <1>4 DEF PermitsAdd
<1>9. free'[i] \in 0 .. permits'
  <2>1. Cardinality(Holders(i)') \in Nat BY <1>1, HoldersAreFinite, FS_RemoveElement, FS_CardinalityType
  <2>2. free[i] \in 0 .. permits /\ permits \in Nat BY QuicAssumption DEF QuicTypeOK
  <2> QED BY <2>1, <2>2, <1>4, <1>7
<1>10. free' \in [Pool -> 0 .. permits']
  <2>1. free \in [Pool -> 0 .. permits] BY DEF QuicTypeOK
  <2> QED BY <2>1, <1>9, <1>0
<1> QED BY <1>7, <1>8, <1>10 DEF PermitsAdd

------------------------------------------------------------------------------
(* Locks                                                                    *)

(* A send that is not at the lock's holder's place, before and after, does  *)
(* not change who holds a lock.                                             *)
LEMMA LocksKept ==
  ASSUME LocksAreHeld, NEW s \in Sender, OthersStay(s),
         ~ At(s, "connect"), ~ At(s, "connect")', writer' = writer
  PROVE  LocksAreHeld'
<1>1. ASSUME NEW i \in Pool PROVE Connecting(i)' = Connecting(i)
  BY DEF Connecting, Holders, Holding, At, OthersStay
<1> QED BY <1>1 DEF LocksAreHeld

(* A lock that is taken was free.                                           *)
LEMMA LockTaken ==
  ASSUME QuicTypeOK, LocksAreHeld, NEW s \in Sender, NEW i \in Pool, OthersStay(s),
         ~ At(s, "connect"), send'[s].at = "connect", send'[s].i = i,
         writer[i] = {}, writer' = [writer EXCEPT ![i] = {s}]
  PROVE  LocksAreHeld'
<1>1. Connecting(i)' = Connecting(i) \cup {s}
  BY DEF Connecting, Holders, Holding, At, OthersStay
<1>2. \A j \in Pool \ {i} : Connecting(j)' = Connecting(j)
  BY DEF Connecting, Holders, Holding, At, OthersStay
<1>3. writer'[i] = {s} /\ \A j \in Pool \ {i} : writer'[j] = writer[j]
  BY DEF QuicTypeOK
<1> QED BY <1>1, <1>2, <1>3 DEF LocksAreHeld

(* A send that goes from where it may hold the lock releases it.            *)
LEMMA LockReleased ==
  ASSUME QuicTypeOK, LocksAreHeld, NEW s \in Sender, OthersStay(s),
         send[s].i \in Pool, ~ At(s, "connect")',
         writer' = [writer EXCEPT ![send[s].i] = @ \ {s}]
  PROVE  LocksAreHeld'
<1>0. PICK i \in Pool : i = send[s].i
  OBVIOUS
<1>1. Connecting(i)' = Connecting(i) \ {s}
  BY <1>0 DEF Connecting, Holders, Holding, At, OthersStay
<1>2. \A j \in Pool \ {i} : Connecting(j)' = Connecting(j)
  BY <1>0 DEF Connecting, Holders, Holding, At, OthersStay
<1>3. writer'[i] = writer[i] \ {s} /\ \A j \in Pool \ {i} : writer'[j] = writer[j]
  BY <1>0 DEF QuicTypeOK
<1> QED BY <1>1, <1>2, <1>3 DEF LocksAreHeld

(* Who connects is the only one that holds the lock.                        *)
LEMMA ConnectsAlone ==
  ASSUME LocksAreHeld, NEW s \in Sender, At(s, "connect"), send[s].i \in Pool
  PROVE  /\ writer[send[s].i] = {s}
         /\ \A r \in Sender : At(r, "connect") /\ send[r].i = send[s].i => r = s
<1>1. \A r \in Sender : At(r, "connect") /\ send[r].i = send[s].i => r \in writer[send[s].i]
  BY DEF LocksAreHeld, Connecting, Holders, Holding, At
<1> QED BY <1>1 DEF LocksAreHeld

------------------------------------------------------------------------------
(* What the sends have seen                                                 *)

(* The others still know what they knew, as long as no connection is        *)
(* replaced.                                                                *)
LEMMA OthersSee ==
  ASSUME QuicInv, NEW s \in Sender, OthersStay(s), cell' = cell, failed \subseteq failed'
  PROVE  \A r \in Sender \ {s} : Seen(r)'
BY DEF QuicInv, Seen, Holding, At, Known, OthersStay

(* Nothing that has failed is forgotten.                                    *)
LEMMA BrokenStaysFailed ==
  ASSUME BrokenHasFailed, broken' = broken, failed \subseteq failed'
  PROVE  BrokenHasFailed'
BY DEF BrokenHasFailed, Known

(* The sends keep their types when what they are is of the type still.      *)
LEMMA TypesKept ==
  ASSUME QuicTypeOK, cell' = cell, broken' \in [Pool -> 0 .. made],
         writer' \in [Pool -> SUBSET Sender],
         free' \in [Pool -> 0 .. permits'], permits' = permits,
         once' \in [Pool -> BOOLEAN], alive' \subseteq alive, made' = made,
         exit' \in BOOLEAN, failed' \subseteq 1 .. made,
         send' \in [Sender -> [at : {"idle", "pick", "any", "load", "read", "lock", "connect", "use"},
                               i : 0 .. Size, id : 0 .. made', deaf : BOOLEAN]]
  PROVE  QuicTypeOK'
BY DEF QuicTypeOK

(* A step that only moves a send on keeps the invariant, if what the send   *)
(* has seen is so.                                                          *)
LEMMA MovesOn ==
  ASSUME QuicInv, NEW s \in Sender, NEW place \in {"pick", "any", "read", "lock", "use"},
         NEW i \in 0 .. Size, NEW id \in 0 .. made,
         Goes(s, place, i, id), Seen(s)',
         Holding(s) <=> place \notin {"pick", "any"}, Holding(s) => i = send[s].i,
         ~ At(s, "connect"),
         UNCHANGED <<cell, broken, writer, free, permits, once, alive, made, exit, failed>>
  PROVE  QuicInv'
<1> USE DEF QuicInv
<1>1. made \in Nat /\ made' = made BY QuicAssumption DEF QuicTypeOK
<1>2. /\ OthersStay(s)
      /\ send'[s].at = place /\ send'[s].i = i /\ send'[s].id = id
  BY GoesThere
<1>3. QuicTypeOK'
  <2>1. send' \in [Sender -> [at : {"idle", "pick", "any", "load", "read", "lock", "connect", "use"},
                              i : 0 .. Size, id : 0 .. made', deaf : BOOLEAN]]
    BY <1>1, GoesTyped
  <2> QED BY <1>1, <2>1, TypesKept DEF QuicTypeOK
<1>4. PermitsAdd'
  <2>1. Holding(s)' <=> Holding(s) BY <1>2 DEF Holding
  <2> QED BY <1>2, <2>1, PermitsKept
<1>5. LocksAreHeld'
  <2>1. ~ At(s, "connect")' BY <1>2 DEF At
  <2> QED BY <1>2, <2>1, LocksKept
<1>6. BrokenHasFailed' BY BrokenStaysFailed
<1>7. \A r \in Sender \ {s} : Seen(r)' BY <1>2, OthersSee
<1> QED BY <1>3, <1>4, <1>5, <1>6, <1>7

(* A send that gets a permit keeps the invariant.                           *)
LEMMA TakesPermit ==
  ASSUME QuicInv, NEW s \in Sender, NEW i \in Pool, ~ Holding(s), free[i] > 0,
         Goes(s, "load", i, NoId), free' = [free EXCEPT ![i] = @ - 1],
         UNCHANGED <<cell, broken, writer, permits, once, alive, made, exit, failed>>
  PROVE  QuicInv'
<1> USE DEF QuicInv
<1>1. made \in Nat /\ made' = made /\ i \in 0 .. Size /\ NoId \in 0 .. made'
  BY QuicAssumption DEF QuicTypeOK, Pool, NoId
<1>2. /\ OthersStay(s)
      /\ send'[s].at = "load" /\ send'[s].i = i /\ send'[s].id = NoId
  BY GoesThere
<1>3. PermitsAdd' /\ free' \in [Pool -> 0 .. permits']
  <2>1. Holding(s)' BY <1>2 DEF Holding
  <2> QED BY <1>2, <2>1, PermitTaken
<1>4. QuicTypeOK'
  <2>1. send' \in [Sender -> [at : {"idle", "pick", "any", "load", "read", "lock", "connect", "use"},
                              i : 0 .. Size, id : 0 .. made', deaf : BOOLEAN]]
    BY <1>1, GoesTyped
  <2> QED BY <1>1, <1>3, <2>1, TypesKept DEF QuicTypeOK
<1>5. LocksAreHeld'
  <2>1. ~ At(s, "connect") BY DEF At, Holding
  <2>2. ~ At(s, "connect")' BY <1>2 DEF At
  <2> QED BY <1>2, <2>1, <2>2, LocksKept
<1>6. BrokenHasFailed' BY BrokenStaysFailed
<1>7. \A r \in Sender \ {s} : Seen(r)' BY <1>2, OthersSee
<1>8. Seen(s)' BY <1>2 DEF Seen, At
<1> QED BY <1>3, <1>4, <1>5, <1>6, <1>7, <1>8

(* A send that ends gives back its permit and the lock, if it holds it, and *)
(* marks at most the connection it has used.                                *)
LEMMA GivesBack ==
  ASSUME QuicInv, NEW s \in Sender, Holding(s), Ends(s),
         writer' = [writer EXCEPT ![send[s].i] = @ \ {s}],
         once' \in [Pool -> BOOLEAN], broken' \in [Pool -> 0 .. made],
         failed \subseteq failed', failed' \subseteq 1 .. made, BrokenHasFailed',
         UNCHANGED <<cell, permits, alive, made, exit>>
  PROVE  QuicInv'
<1> USE DEF QuicInv
<1>1. /\ OthersStay(s)
      /\ send'[s] = Idle
      /\ send' \in [Sender -> [at : {"idle", "pick", "any", "load", "read", "lock", "connect", "use"},
                               i : 0 .. Size, id : 0 .. made', deaf : BOOLEAN]]
  BY EndsIdle
<1>2. send[s].i \in Pool BY DEF Seen
<1>3. PermitsAdd' /\ free' \in [Pool -> 0 .. permits']
  <2>1. ~ Holding(s)' BY <1>1 DEF Holding, Idle
  <2> QED BY <1>1, <1>2, <2>1, PermitGivenBack DEF Ends
<1>4. QuicTypeOK'
  <2>1. writer' \in [Pool -> SUBSET Sender] BY DEF QuicTypeOK
  <2> QED BY <1>1, <1>3, <2>1, TypesKept DEF QuicTypeOK
<1>5. LocksAreHeld'
  <2>1. ~ At(s, "connect")' BY <1>1 DEF At, Idle
  <2> QED BY <1>1, <1>2, <2>1, LockReleased
<1>6. \A r \in Sender \ {s} : Seen(r)' BY <1>1, OthersSee
<1>7. Seen(s)' BY <1>1 DEF Seen, At, Holding, Idle
<1> QED BY <1>3, <1>4, <1>5, <1>6, <1>7

------------------------------------------------------------------------------
(* The invariant                                                            *)

(* The pool begins with all permits, and without a connection.              *)
LEMMA QuicBegins == QuicInit => QuicInv
<1> SUFFICES ASSUME QuicInit PROVE QuicInv
  OBVIOUS
<1>1. QuicTypeOK
  <2>1. /\ made = 0 /\ NoId = 0 /\ 0 \in 0 .. 0 /\ 0 \in 0 .. Size /\ 0 \in 0 .. MaxId
        /\ permits \in 1 .. MaxPermits /\ permits \in 0 .. permits
    BY QuicAssumption DEF QuicInit, NoId
  <2>2. send \in [Sender -> [at : {"idle", "pick", "any", "load", "read", "lock", "connect", "use"},
                             i : 0 .. Size, id : 0 .. made, deaf : BOOLEAN]]
    BY <2>1 DEF QuicInit, Idle
  <2> QED BY <2>1, <2>2 DEF QuicInit, QuicTypeOK
<1>2. \A i \in Pool : Holders(i) = {} /\ Connecting(i) = {}
  BY DEF QuicInit, Holders, Connecting, Holding, Idle
<1>3. PermitsAdd
  <2>1. permits + 0 = permits BY QuicAssumption DEF QuicTypeOK, QuicInit
  <2> QED BY <1>2, <2>1, FS_EmptySet DEF PermitsAdd, QuicInit
<1>4. LocksAreHeld BY <1>2 DEF LocksAreHeld, QuicInit
<1>5. BrokenHasFailed BY DEF BrokenHasFailed, Known, QuicInit
<1>6. \A s \in Sender : Seen(s)
  BY DEF Seen, Holding, At, Idle, QuicInit
<1> QED BY <1>1, <1>3, <1>4, <1>5, <1>6 DEF QuicInv

(* A connection that is established replaces the one that its send has seen *)
(* fail, or none.                                                           *)
LEMMA ConnectsWell ==
  ASSUME QuicInv, NEW s \in Sender, Connected(s)
  PROVE  QuicInv'
<1> USE DEF QuicInv
<1>0. PICK i \in Pool : i = send[s].i
  BY DEF Connected, Seen, Holding, At
<1>1. /\ made \in Nat /\ made' = made + 1 /\ made' \in 0 .. MaxId
      /\ send[s].at = "connect"
      /\ cell' = [cell EXCEPT ![i] = made'] /\ writer' = [writer EXCEPT ![i] = {}]
      /\ Goes(s, "use", i, made')
      /\ UNCHANGED <<broken, free, permits, exit, failed>>
  BY <1>0, QuicAssumption DEF Connected, QuicTypeOK, At
<1>2. /\ OthersStay(s)
      /\ send'[s].at = "use" /\ send'[s].i = i /\ send'[s].id = made'
  BY <1>1, GoesThere
<1>3. QuicTypeOK'
  <2>1. send' \in [Sender -> [at : {"idle", "pick", "any", "load", "read", "lock", "connect", "use"},
                              i : 0 .. Size, id : 0 .. made', deaf : BOOLEAN]]
    <3>1. i \in 0 .. Size /\ made' \in 0 .. made' /\ made' \in Nat /\ made' >= made
      BY <1>1, QuicAssumption DEF Pool
    <3> QED BY <1>1, <3>1, GoesTyped
  <2>2. 0 .. made \subseteq 0 .. made' /\ 1 .. made \subseteq 1 .. made' /\ made' \in 1 .. made'
    BY <1>1
  <2>3. cell' \in [Pool -> 0 .. made'] /\ broken' \in [Pool -> 0 .. made']
    BY <1>1, <2>2 DEF QuicTypeOK
  <2>4. alive' \subseteq 1 .. made' /\ failed' \subseteq 1 .. made'
    BY <1>1, <2>2 DEF QuicTypeOK, Connected
  <2>5. once' \in [Pool -> BOOLEAN] /\ writer' \in [Pool -> SUBSET Sender]
    BY <1>1 DEF QuicTypeOK, Connected
  <2> QED BY <1>1, <2>1, <2>3, <2>4, <2>5 DEF QuicTypeOK
<1>4. PermitsAdd'
  <2>1. Holding(s) /\ Holding(s)' BY <1>1, <1>2 DEF Holding
  <2> QED BY <1>0, <1>1, <1>2, <2>1, PermitsKept
<1>5. writer[i] = {s} /\ \A r \in Sender \ {s} : ~ (At(r, "connect") /\ send[r].i = i)
  BY <1>0, <1>1, ConnectsAlone DEF At
<1>6. LocksAreHeld'
  <2>1. ~ At(s, "connect")' BY <1>2 DEF At
  <2>2. writer' = [writer EXCEPT ![send[s].i] = @ \ {s}]
    BY <1>0, <1>1, <1>5 DEF QuicTypeOK
  <2> QED BY <1>0, <1>2, <2>1, <2>2, LockReleased
<1>7. BrokenHasFailed' BY <1>1, BrokenStaysFailed
<1>8. ASSUME NEW r \in Sender \ {s} PROVE Seen(r)'
  <2>1. send'[r] = send[r] /\ Seen(r) BY <1>2 DEF OthersStay
  <2>2. cell'[i] # NoId /\ \A j \in Pool \ {i} : cell'[j] = cell[j]
    BY <1>1 DEF QuicTypeOK, NoId
  <2>3. At(r, "connect") => send[r].i \in Pool \ {i}
    BY <1>5, <2>1 DEF Seen, Holding, At
  <2>4. At(r, "lock") => send[r].i \in Pool
    BY <2>1 DEF Seen, Holding, At
  <2> QED BY <1>1, <2>1, <2>2, <2>3, <2>4 DEF Seen, Holding, At, Known
<1>9. Seen(s)'
  BY <1>1, <1>2 DEF Seen, Holding, At, NoId
<1> QED BY <1>3, <1>4, <1>6, <1>7, <1>8, <1>9

(* Every step of a send keeps the invariant.                                *)
LEMMA SendKeeps ==
  ASSUME QuicInv, NEW s \in Sender, Begin(s) \/ Step(s)
  PROVE  QuicInv'
<1> USE DEF QuicInv
<1>0. PICK i \in 0 .. Size : i = send[s].i
  BY DEF QuicTypeOK
<1>a. /\ Size \in Nat \ {0} /\ made \in Nat /\ NoId \in 0 .. made
      /\ Pool = 1 .. Size /\ Seen(s)
  BY QuicAssumption DEF QuicTypeOK, NoId, Pool
<1>b. ASSUME Holding(s), ~ At(s, "connect")
      PROVE  writer = [writer EXCEPT ![send[s].i] = @ \ {s}]
  <2>1. i \in Pool BY <1>0, <1>a, <1>b DEF Seen
  <2>2. s \notin writer[i] BY <1>b, <2>1 DEF LocksAreHeld, Connecting
  <2> QED BY <1>0, <2>1, <2>2 DEF QuicTypeOK
<1>1. CASE Begin(s)
  <2>1. 1 \in 0 .. Size BY <1>a
  <2>2. Seen(s)'
    <3>1. send'[s].at = "pick" /\ send'[s].i = 1 BY <1>1, GoesThere DEF Begin
    <3>2. 1 \in Pool' BY <1>a DEF Pool
    <3> QED BY <3>1, <3>2 DEF Seen, Holding, At
  <2> QED BY <1>1, <1>a, <2>1, <2>2, MovesOn DEF Begin, Holding, At
<1>2. CASE Pick(s)
  <2>1. i \in Pool /\ ~ Holding(s)
    BY <1>0, <1>2, <1>a DEF Pick, Seen, Holding, At
  <2>2. CASE /\ free[i] > 0 /\ Goes(s, "load", i, NoId)
             /\ free' = [free EXCEPT ![i] = @ - 1]
    BY <1>2, <2>1, <2>2, TakesPermit DEF Pick
  <2>3. CASE /\ Goes(s, IF i < Size THEN "pick" ELSE "any", IF i < Size THEN i + 1 ELSE 0, NoId)
             /\ UNCHANGED free
    <3>1. CASE i < Size
      <4>1. Goes(s, "pick", i + 1, NoId) /\ i + 1 \in 0 .. Size /\ i + 1 \in Pool
        BY <1>a, <2>1, <2>3, <3>1
      <4>2. Seen(s)'
        <5>1. send'[s].at = "pick" /\ send'[s].i = i + 1 BY <4>1, GoesThere
        <5>2. i + 1 \in Pool' BY <4>1 DEF Pool
        <5> QED BY <5>1, <5>2 DEF Seen, Holding, At
      <4> QED BY <1>2, <1>a, <2>1, <2>3, <4>1, <4>2, MovesOn DEF Pick, At
    <3>2. CASE ~ i < Size
      <4>1. Goes(s, "any", 0, NoId) /\ 0 \in 0 .. Size
        BY <1>a, <2>3, <3>2
      <4>2. Seen(s)'
        <5>1. send'[s].at = "any" BY <4>1, GoesThere
        <5> QED BY <5>1 DEF Seen, Holding, At
      <4> QED BY <1>2, <1>a, <2>1, <2>3, <4>1, <4>2, MovesOn DEF Pick, At
    <3> QED BY <3>1, <3>2
  <2> QED BY <1>0, <1>2, <2>2, <2>3 DEF Pick
<1>3. CASE PickAny(s)
  BY <1>3, TakesPermit DEF PickAny, Holding, At
<1>4. CASE Load(s)
  <2>1. i \in Pool /\ Holding(s) /\ ~ At(s, "connect")
    BY <1>0, <1>4, <1>a DEF Load, Seen, Holding, At
  <2>2. Goes(s, "read", i, broken[i]) /\ broken[i] \in Known /\ broken[i] \in 0 .. made
    BY <1>0, <1>4, <2>1 DEF Load, BrokenHasFailed, QuicTypeOK
  <2>3. send'[s].at = "read" /\ send'[s].i = i /\ send'[s].id = broken[i]
    BY <2>2, GoesThere
  <2>4. Seen(s)'
    BY <1>4, <2>1, <2>2, <2>3 DEF Load, Seen, Holding, At, Known, Pool
  <2> QED BY <1>0, <1>4, <2>1, <2>2, <2>4, MovesOn DEF Load
<1>5. CASE Read(s)
  <2>1. i \in Pool /\ Holding(s) /\ ~ At(s, "connect") /\ send[s].id \in Known
    BY <1>0, <1>5, <1>a DEF Read, Seen, Holding, At
  <2>2. cell[i] \in 0 .. made BY <2>1 DEF QuicTypeOK
  <2>3. CASE cell[i] = NoId \/ cell[i] = send[s].id
    <3>1. Goes(s, "lock", i, cell[i]) /\ cell[i] \in Known
      BY <1>0, <1>5, <2>1, <2>3 DEF Read, Known
    <3>2. send'[s].at = "lock" /\ send'[s].i = i /\ send'[s].id = cell[i]
      BY <3>1, GoesThere
    <3>3. Seen(s)'
      BY <1>5, <2>1, <3>1, <3>2 DEF Read, Seen, Holding, At, Known, Pool
    <3> QED BY <1>0, <1>5, <2>1, <2>2, <3>1, <3>3, MovesOn DEF Read
  <2>4. CASE ~ (cell[i] = NoId \/ cell[i] = send[s].id)
    <3>1. Goes(s, "use", i, cell[i]) /\ cell[i] # NoId
      BY <1>0, <1>5, <2>1, <2>4 DEF Read
    <3>2. send'[s].at = "use" /\ send'[s].i = i /\ send'[s].id = cell[i]
      BY <3>1, GoesThere
    <3>3. Seen(s)'
      BY <1>5, <2>1, <3>1, <3>2 DEF Seen, Holding, At, NoId, Pool
    <3> QED BY <1>0, <1>5, <2>1, <2>2, <3>1, <3>3, MovesOn DEF Read
  <2> QED BY <2>3, <2>4
<1>6. CASE Lock(s)
  <2>1. i \in Pool /\ Holding(s) /\ ~ At(s, "connect") /\ send[s].id \in Known
    BY <1>0, <1>6, <1>a DEF Lock, Seen, Holding, At
  <2>2. cell[i] \in 0 .. made BY <2>1 DEF QuicTypeOK
  <2>3. CASE cell[i] # send[s].id
    <3>1. Goes(s, "use", i, cell[i]) /\ writer' = writer /\ cell[i] # NoId
      BY <1>0, <1>6, <1>a, <2>1, <2>3 DEF Lock, Seen
    <3>2. send'[s].at = "use" /\ send'[s].i = i /\ send'[s].id = cell[i]
      BY <3>1, GoesThere
    <3>3. Seen(s)'
      BY <1>6, <2>1, <3>1, <3>2 DEF Seen, Holding, At, NoId, Pool
    <3> QED BY <1>0, <1>6, <2>1, <2>2, <3>1, <3>3, MovesOn DEF Lock
  <2>4. CASE cell[i] = send[s].id
    <3>1. /\ Goes(s, "connect", i, cell[i]) /\ writer[i] = {}
          /\ writer' = [writer EXCEPT ![i] = {s}] /\ cell[i] \in Known
          /\ UNCHANGED <<cell, broken, free, permits, once, alive, made, exit, failed>>
      BY <1>0, <1>6, <2>1, <2>4 DEF Lock
    <3>2. /\ OthersStay(s)
          /\ send'[s].at = "connect" /\ send'[s].i = i /\ send'[s].id = cell[i]
      BY <3>1, GoesThere
    <3>3. QuicTypeOK'
      <4>1. send' \in [Sender -> [at : {"idle", "pick", "any", "load", "read", "lock", "connect", "use"},
                                  i : 0 .. Size, id : 0 .. made', deaf : BOOLEAN]]
        BY <1>a, <2>2, <3>1, GoesTyped
      <4>2. writer' \in [Pool -> SUBSET Sender] BY <2>1, <3>1 DEF QuicTypeOK
      <4> QED BY <3>1, <4>1, <4>2, TypesKept DEF QuicTypeOK
    <3>4. PermitsAdd'
      <4>1. Holding(s)' BY <3>2 DEF Holding
      <4> QED BY <1>0, <2>1, <3>1, <3>2, <4>1, PermitsKept
    <3>5. LocksAreHeld' BY <2>1, <3>1, <3>2, LockTaken
    <3>6. BrokenHasFailed' BY <3>1, BrokenStaysFailed
    <3>7. \A r \in Sender \ {s} : Seen(r)' BY <3>1, <3>2, OthersSee
    <3>8. Seen(s)'
      BY <2>1, <3>1, <3>2 DEF Seen, Holding, At, Known, Pool
    <3> QED BY <3>3, <3>4, <3>5, <3>6, <3>7, <3>8
  <2> QED BY <2>3, <2>4
<1>7. CASE Connected(s)
  BY <1>7, ConnectsWell
<1>8. CASE NotConnected(s)
  <2>1. Holding(s) /\ At(s, "connect") /\ i \in Pool
    BY <1>0, <1>8, <1>a DEF NotConnected, Seen, Holding, At
  <2>2. writer' = [writer EXCEPT ![send[s].i] = @ \ {s}]
    BY <1>0, <1>8, <2>1, ConnectsAlone DEF NotConnected, QuicTypeOK
  <2>3. once' \in [Pool -> BOOLEAN] BY <1>8 DEF NotConnected, QuicTypeOK
  <2>4. BrokenHasFailed' BY <1>8, BrokenStaysFailed DEF NotConnected
  <2> QED BY <1>8, <2>1, <2>2, <2>3, <2>4, GivesBack DEF NotConnected, QuicTypeOK
<1>9. CASE Written(s)
  <2>1. Holding(s) /\ ~ At(s, "connect") BY <1>9 DEF Written, Holding, At
  <2>2. writer' = [writer EXCEPT ![send[s].i] = @ \ {s}] BY <1>9, <1>b, <2>1 DEF Written
  <2>3. BrokenHasFailed' BY <1>9, BrokenStaysFailed DEF Written
  <2> QED BY <1>9, <2>1, <2>2, <2>3, GivesBack DEF Written, QuicTypeOK
<1>10. CASE Fails(s)
  <2>1. Holding(s) /\ ~ At(s, "connect") /\ i \in Pool /\ send[s].id # NoId
    BY <1>0, <1>10, <1>a DEF Fails, Seen, Holding, At
  <2>2. writer' = [writer EXCEPT ![send[s].i] = @ \ {s}] BY <1>10, <1>b, <2>1 DEF Fails
  <2>3. send[s].id \in 1 .. made BY <1>a, <2>1 DEF QuicTypeOK, NoId
  <2>4. /\ broken' = [broken EXCEPT ![i] = send[s].id]
        /\ failed' = failed \cup {send[s].id}
    BY <1>0, <1>10 DEF Fails
  <2>5. BrokenHasFailed' BY <2>1, <2>4 DEF BrokenHasFailed, Known, QuicTypeOK, Pool
  <2>6. broken' \in [Pool -> 0 .. made] /\ failed' \subseteq 1 .. made
    BY <1>a, <2>3, <2>4 DEF QuicTypeOK
  <2> QED BY <1>10, <2>1, <2>2, <2>4, <2>5, <2>6, GivesBack DEF Fails, QuicTypeOK
<1>11. CASE Exits(s)
  <2>1. Holding(s) BY <1>11 DEF Exits, Holding
  <2>2. once' \in [Pool -> BOOLEAN] BY <1>11 DEF Exits, QuicTypeOK
  <2>3. BrokenHasFailed' BY <1>11, BrokenStaysFailed DEF Exits
  <2> QED BY <1>11, <2>1, <2>2, <2>3, GivesBack DEF Exits, QuicTypeOK
<1> QED
  BY <1>1, <1>2, <1>3, <1>4, <1>5, <1>6, <1>7, <1>8, <1>9, <1>10, <1>11 DEF Step

(* The exit notification and the death of a connection keep it, too.        *)
LEMMA QuicKeeps == QuicInv /\ [QuicNext]_quicVars => QuicInv'
<1> SUFFICES ASSUME QuicInv, [QuicNext]_quicVars PROVE QuicInv'
  OBVIOUS
<1>1. ASSUME UNCHANGED <<cell, broken, writer, free, permits, once, made, send, failed>>,
             alive' \subseteq alive, exit' \in BOOLEAN
      PROVE  QuicInv'
  <2>1. QuicTypeOK' BY <1>1 DEF QuicInv, QuicTypeOK
  <2>2. \A i \in Pool : Holders(i)' = Holders(i) /\ Connecting(i)' = Connecting(i)
    BY <1>1 DEF Holders, Connecting, Holding, At
  <2>3. PermitsAdd' /\ LocksAreHeld' BY <1>1, <2>2 DEF QuicInv, PermitsAdd, LocksAreHeld
  <2>4. BrokenHasFailed' BY <1>1 DEF QuicInv, BrokenHasFailed, Known
  <2>5. \A s \in Sender : Seen(s)'
    BY <1>1 DEF QuicInv, Seen, Holding, At, Known
  <2> QED BY <2>1, <2>3, <2>4, <2>5 DEF QuicInv
<1>2. CASE \E s \in Sender : Begin(s) \/ Step(s)
  BY <1>2, SendKeeps
<1>3. CASE TellExit
  BY <1>1, <1>3 DEF TellExit
<1>4. CASE \E id \in 1 .. MaxId : Dies(id)
  <2>1. exit \in BOOLEAN BY DEF QuicInv, QuicTypeOK
  <2> QED BY <1>1, <1>4, <2>1 DEF Dies
<1>5. CASE UNCHANGED quicVars
  <2>1. exit \in BOOLEAN BY DEF QuicInv, QuicTypeOK
  <2> QED BY <1>1, <1>5, <2>1 DEF quicVars
<1> QED BY <1>2, <1>3, <1>4, <1>5 DEF QuicNext

------------------------------------------------------------------------------
(* The theorems                                                             *)

(* The connections, permits, locks and sends agree in every reachable       *)
(* state, for any number of each.                                           *)
THEOREM QuicInvariant == QuicSpec => []QuicInv
<1> QED BY QuicBegins, QuicKeeps, PTL DEF QuicSpec

(* A step replaces only a connection that a send has failed on.             *)
LEMMA ReplacesFailed ==
  ASSUME QuicInv, [QuicNext]_quicVars, NEW i \in Pool, cell[i] # NoId, cell'[i] # cell[i]
  PROVE  cell[i] \in failed /\ cell'[i] # NoId
<1>1. PICK s \in Sender : Connected(s)
  BY DEF QuicNext, Step, quicVars, Begin, Pick, PickAny, Load, Read, Lock, NotConnected,
         Written, Fails, Exits, TellExit, Dies
<1>2. /\ Seen(s) /\ At(s, "connect") /\ made \in Nat
      /\ cell' = [cell EXCEPT ![send[s].i] = made + 1]
  BY <1>1, QuicAssumption DEF QuicInv, QuicTypeOK, Connected
<1>3. send[s].i = i /\ cell'[i] = made + 1
  BY <1>2 DEF QuicInv, QuicTypeOK
<1> QED BY <1>2, <1>3 DEF Seen, At, Known, NoId

(* A permit is held by one send and comes back, the lock is held only by a  *)
(* send that connects (get_connection, get_pooled_connection); a            *)
(* connection, once there, is never taken away, which is the expect at      *)
(* quic_connection.rs:93, and only one that a send has failed on is         *)
(* replaced.                                                                *)
THEOREM QuicConnectionsAreShared == QuicSpec => ConnectionsAreShared
<1>1. QuicInv => QuicTypeOK /\ PermitsComeBack
  BY DEF QuicInv, PermitsAdd, LocksAreHeld, PermitsComeBack
<1>2. QuicInv /\ [QuicNext]_quicVars
        => [\A i \in Pool : cell[i] # NoId => cell'[i] # NoId]_quicVars
  <2> SUFFICES ASSUME QuicInv, [QuicNext]_quicVars, NEW i \in Pool, cell[i] # NoId
               PROVE  cell'[i] # NoId
    OBVIOUS
  <2> QED BY ReplacesFailed
<1>3. QuicInv /\ [QuicNext]_quicVars
        => [\A i \in Pool : cell[i] # NoId /\ cell'[i] # cell[i] => cell[i] \in failed]_quicVars
  BY ReplacesFailed
<1> QED
  BY <1>1, <1>2, <1>3, QuicInvariant, PTL
  DEF QuicSpec, ConnectionsAreShared, CannotBeNone, OnlyFailedIsReplaced
==============================================================================
