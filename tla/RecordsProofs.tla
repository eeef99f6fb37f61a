---------------------------- MODULE RecordsProofs ----------------------------
(***************************************************************************)
(* What is kept of stakes and votes, of blocks and of transactions, and    *)
(* what others are told, for every value of the constants.                 *)
(*                                                                         *)
(* The votes: the updates that are put aside while a store is lent are a   *)
(* list of which the last that is not a removal wins, however long it is;  *)
(* the lemmas about it are by induction over its length.  The blocks: a    *)
(* row is never older than its chunks.  The notices: a client is told      *)
(* once, and the places of the log in which a transaction stands are       *)
(* counted as sets, of which a step moves a part without loss.             *)
(***************************************************************************)
EXTENDS StakeVote, StakeFiles, BlockStore, Notices, FiniteSetTheorems, WellFoundedInduction, TLAPS

------------------------------------------------------------------------------
(* StakeVote                                                                *)

VoteUpdate == [slot : Nat \ {0}, gone : BOOLEAN]
Content == Nat \cup {NoAccount}
TaskRecord == [at : {"none", "asks", "holds", "done"}, waits : SUBSET StoreName]
EpochRecord == [epoch : Nat, last : Nat \cup {-1}, slot : Nat, history : BOOLEAN,
                change : 0 .. LastEpoch]

VotesTypeOK ==
  /\ content \in [StoreName -> Content]
  /\ lent \in [StoreName -> SUBSET VoteTask]
  /\ updates \in [StoreName -> Seq(VoteUpdate)]
  /\ permit \in [StoreName -> BOOLEAN]
  /\ task \in [VoteTask -> TaskRecord]
  /\ epochs \in EpochRecord
  /\ slot \in Nat
  /\ boot \in [epoch : Nat, state : {"fetching", "done", "lost", "dead"}]
  /\ latest \in [StoreName -> [slot : Nat, gone : BOOLEAN]]

(* Nothing of an account is newer than what was last heard of it.           *)
NothingIsNewer ==
  \A k \in StoreName :
    /\ content[k] <= latest[k].slot
    /\ \A i \in 1 .. Len(updates[k]) : updates[k][i].slot <= latest[k].slot

(* The stakes are lent with the votes, and to whoever holds them.           *)
LentTogether ==
  /\ lent["stakes"] # {} => lent["votes"] = lent["stakes"] /\ lent["stakes"] \cap Request = {}
  /\ \A t \in VoteTask : task[t].at = "holds" => \A k \in Needs(t) : lent[k] = {t}

(* Who waits has asked, and waits for what it needs; when a store is back   *)
(* another task has been notified of it, and has not taken it yet.          *)
WaitersAreNext ==
  /\ \A t \in VoteTask : /\ task[t].waits # {} => task[t].at = "asks"
                         /\ task[t].waits \subseteq Needs(t)
  /\ \A t \in VoteTask, k \in StoreName :
       k \in task[t].waits /\ lent[k] = {} =>
         \E u \in VoteTask : /\ task[u].at = "asks" /\ k \in Needs(u)
                             /\ k \notin task[u].waits

(* No schedule is calculated before the bootstrap is done.                  *)
BootIsFirst ==
  /\ task[Boot].at # "done" => boot.state \in {"fetching", "dead"}
  /\ \A e \in 1 .. LastEpoch : task[e].at # "none" => boot.state = "done"

VotesInv ==
  /\ VotesTypeOK /\ NothingIsNewer /\ UpdatesAreKept
  /\ LentTogether /\ WaitersAreNext /\ BootIsFirst

------------------------------------------------------------------------------
(* Merging a list of updates                                                *)

(* A set of naturals that is not empty has a least element.                 *)
LEMMA LeastNatural ==
  ASSUME NEW T, T \subseteq Nat, T # {}
  PROVE  \E x \in T : \A y \in T : x <= y
<1>1. PICK x \in T : \A y \in T : ~(<<y, x>> \in OpToRel(<, Nat))
  BY NatLessThanWellFounded, WFMin
<1>2. ASSUME NEW y \in T PROVE x <= y
  <2>1. ~(<<y, x>> \in OpToRel(<, Nat))
    BY <1>1
  <2>2. <<y, x>> \in Nat \X Nat
    OBVIOUS
  <2>3. ~(y < x)
    BY <2>1, <2>2 DEF OpToRel
  <2> QED BY <2>3
<1> QED BY <1>2

(* Induction over the naturals, of which the statement is a set.            *)
LEMMA AllNaturals ==
  ASSUME NEW T, 0 \in T, \A n \in Nat : n \in T => n + 1 \in T
  PROVE  \A n \in Nat : n \in T
<1> DEFINE D == {n \in Nat : n \notin T}
<1> SUFFICES ASSUME D # {} PROVE FALSE
  OBVIOUS
<1>1. PICK x \in D : \A y \in D : x <= y
  BY LeastNatural, D \subseteq Nat, Zenon
<1>2. x # 0 /\ x \in Nat
  OBVIOUS
<1>3. x - 1 \in Nat /\ x - 1 \notin D
  BY <1>1, <1>2
<1>4. x - 1 \in T
  BY <1>3
<1> QED BY <1>2, <1>3, <1>4

(* The function that Merged is computed by.                                 *)
MergedBy(v, us, n, f) ==
  f = [i \in 0 .. n |-> IF i = 0 THEN v ELSE Applied(f[i - 1], us[i])]

LEMMA MergedByExists ==
  ASSUME NEW v, NEW us, NEW n \in Nat
  PROVE  \E f : MergedBy(v, us, n, f)
<1> DEFINE T == {m \in Nat : \E f : MergedBy(v, us, m, f)}
<1>1. 0 \in T
  <2>1. MergedBy(v, us, 0, [i \in 0 .. 0 |-> v])
    BY DEF MergedBy
  <2> QED BY <2>1
<1>2. ASSUME NEW m \in Nat, m \in T PROVE m + 1 \in T
  <2>1. PICK f : MergedBy(v, us, m, f)
    BY <1>2
  <2> DEFINE g == [i \in 0 .. m + 1 |-> IF i = m + 1 THEN Applied(f[m], us[m + 1]) ELSE f[i]]
  <2>2. \A i \in 0 .. m : f[i] = IF i = 0 THEN v ELSE Applied(f[i - 1], us[i])
    BY <2>1 DEF MergedBy
  <2>3. \A i \in 0 .. m + 1 : g[i] = IF i = 0 THEN v ELSE Applied(g[i - 1], us[i])
    <3> TAKE i \in 0 .. m + 1
    <3>1. CASE i = m + 1
      <4>1. g[i] = Applied(f[m], us[i]) /\ g[i - 1] = f[m] /\ i # 0
        BY <3>1
      <4> QED BY <4>1
    <3>2. CASE i \in 1 .. m
      <4>1. g[i] = f[i] /\ g[i - 1] = f[i - 1] /\ i # 0
        BY <3>2
      <4> QED BY <4>1, <2>2, <3>2
    <3>3. CASE i = 0
      <4>1. g[i] = f[i]
        BY <3>3
      <4> QED BY <4>1, <2>2, <3>3
    <3> QED BY <3>1, <3>2, <3>3
  <2>4. MergedBy(v, us, m + 1, g)
    BY <2>3 DEF MergedBy
  <2> QED BY <2>4
<1>3. n \in T
  <2> HIDE DEF T
  <2> QED BY <1>1, <1>2, AllNaturals
<1> QED BY <1>3

(* Merged starts with the value and applies one update after the other.     *)
LEMMA MergedSteps ==
  ASSUME NEW v, NEW us \in Seq(VoteUpdate)
  PROVE  \E f : /\ f[0] = v
                /\ \A i \in 1 .. Len(us) : f[i] = Applied(f[i - 1], us[i])
                /\ Merged(v, us) = f[Len(us)]
<1> DEFINE f == CHOOSE f : MergedBy(v, us, Len(us), f)
<1>1. Merged(v, us) = f[Len(us)]
  BY DEF Merged, MergedBy
<1>2. MergedBy(v, us, Len(us), f)
  <2>1. Len(us) \in Nat
    OBVIOUS
  <2> QED BY <2>1, MergedByExists
<1> HIDE DEF f
<1>3. \A i \in 0 .. Len(us) : f[i] = IF i = 0 THEN v ELSE Applied(f[i - 1], us[i])
  BY <1>2 DEF MergedBy
<1>4. f[0] = v /\ \A i \in 1 .. Len(us) : f[i] = Applied(f[i - 1], us[i])
  BY <1>3
<1> QED BY <1>1, <1>4

(* Two computations that agree at a point, and on the updates after it,     *)
(* agree from there on.                                                     *)
LEMMA StepsAgree ==
  ASSUME NEW m \in Nat, NEW n \in Nat, m <= n, NEW f, NEW g, NEW us, f[m] = g[m],
         \A i \in m + 1 .. n : f[i] = Applied(f[i - 1], us[i]) /\ g[i] = Applied(g[i - 1], us[i])
  PROVE  f[n] = g[n]
<1> DEFINE T == {i \in Nat : m + i <= n => f[m + i] = g[m + i]}
<1>1. 0 \in T
  OBVIOUS
<1>2. ASSUME NEW i \in Nat, i \in T PROVE i + 1 \in T
  <2> SUFFICES ASSUME m + i + 1 <= n PROVE f[m + i + 1] = g[m + i + 1]
    OBVIOUS
  <2>1. f[m + i] = g[m + i]
    BY <1>2
  <2>2. m + i + 1 \in m + 1 .. n /\ (m + i + 1) - 1 = m + i
    OBVIOUS
  <2> QED BY <2>1, <2>2
<1>3. n - m \in T
  <2>1. n - m \in Nat
    OBVIOUS
  <2> HIDE DEF T
  <2> QED BY <1>1, <1>2, <2>1, AllNaturals
<1> QED BY <1>3

LEMMA MergedEmpty ==
  ASSUME NEW v, NEW us \in Seq(VoteUpdate)
  PROVE  Len(us) = 0 => Merged(v, us) = v
<1>1. PICK f : /\ f[0] = v /\ \A i \in 1 .. Len(us) : f[i] = Applied(f[i - 1], us[i])
               /\ Merged(v, us) = f[Len(us)]
  BY MergedSteps
<1> QED BY <1>1

LEMMA MergedAppend ==
  ASSUME NEW v, NEW us \in Seq(VoteUpdate), NEW u \in VoteUpdate
  PROVE  Merged(v, Append(us, u)) = Applied(Merged(v, us), u)
<1> DEFINE ws == Append(us, u)
           n == Len(us)
<1>1. /\ ws \in Seq(VoteUpdate) /\ n \in Nat /\ Len(ws) = n + 1 /\ ws[n + 1] = u
      /\ \A i \in 1 .. n : ws[i] = us[i]
  OBVIOUS
<1>2. PICK f : /\ f[0] = v /\ \A i \in 1 .. n : f[i] = Applied(f[i - 1], us[i])
               /\ Merged(v, us) = f[n]
  BY MergedSteps
<1> HIDE DEF ws, n
<1>3. PICK g : /\ g[0] = v /\ \A i \in 1 .. Len(ws) : g[i] = Applied(g[i - 1], ws[i])
               /\ Merged(v, ws) = g[Len(ws)]
  BY MergedSteps, <1>1
<1>4. \A i \in 1 .. n : f[i] = Applied(f[i - 1], us[i]) /\ g[i] = Applied(g[i - 1], us[i])
  BY <1>1, <1>2, <1>3
<1>5. f[n] = g[n]
  <2> DEFINE T == {i \in Nat : i <= n => f[i] = g[i]}
  <2>1. 0 \in T
    BY <1>2, <1>3
  <2>2. ASSUME NEW i \in Nat, i \in T PROVE i + 1 \in T
    <3> SUFFICES ASSUME i + 1 <= n PROVE f[i + 1] = g[i + 1]
      OBVIOUS
    <3>1. i + 1 \in 1 .. n /\ (i + 1) - 1 = i /\ f[i] = g[i]
      BY <2>2, <1>1
    <3> QED BY <3>1, <1>4
  <2>3. n \in T
    <3> HIDE DEF T
    <3> QED BY <2>1, <2>2, <1>1, AllNaturals
  <2> QED BY <2>3
<1>6. g[n + 1] = Applied(g[n], u)
  BY <1>1, <1>3
<1> QED BY <1>1, <1>2, <1>3, <1>5, <1>6 DEF ws

LEMMA AppliedRises ==
  ASSUME NEW v \in Content, NEW u \in VoteUpdate
  PROVE  /\ Applied(v, u) \in Content
         /\ Applied(v, u) <= v \/ Applied(v, u) <= u.slot
         /\ v > u.slot => Applied(v, u) = v
         /\ v <= u.slot /\ ~ u.gone => Applied(v, u) = u.slot
BY DEF Applied, VoteUpdate, Content, NoAccount

(* What is merged is not newer than the value and the updates.              *)
LEMMA MergedIsBounded ==
  ASSUME NEW v \in Content, NEW us \in Seq(VoteUpdate), NEW b \in Nat, v <= b,
         \A i \in 1 .. Len(us) : us[i].slot <= b
  PROVE  Merged(v, us) \in Content /\ Merged(v, us) <= b
<1>1. PICK f : /\ f[0] = v /\ \A i \in 1 .. Len(us) : f[i] = Applied(f[i - 1], us[i])
               /\ Merged(v, us) = f[Len(us)]
  BY MergedSteps
<1> DEFINE T == {i \in Nat : i <= Len(us) => f[i] \in Content /\ f[i] <= b}
<1>2. 0 \in T
  BY <1>1
<1>3. ASSUME NEW i \in Nat, i \in T PROVE i + 1 \in T
  <2> SUFFICES ASSUME i + 1 <= Len(us) PROVE f[i + 1] \in Content /\ f[i + 1] <= b
    OBVIOUS
  <2>1. f[i] \in Content /\ f[i] <= b
    BY <1>3
  <2>2. i + 1 \in 1 .. Len(us) /\ us[i + 1] \in VoteUpdate /\ us[i + 1].slot <= b
    OBVIOUS
  <2>3. f[i + 1] = Applied(f[i], us[i + 1])
    BY <1>1, <2>2
  <2>4. us[i + 1].slot \in Nat
    BY <2>2 DEF VoteUpdate
  <2>5. /\ Applied(f[i], us[i + 1]) \in Content
        /\ Applied(f[i], us[i + 1]) <= f[i] \/ Applied(f[i], us[i + 1]) <= us[i + 1].slot
    BY <2>1, <2>2, AppliedRises
  <2> HIDE DEF T
  <2> QED BY <2>1, <2>2, <2>3, <2>4, <2>5 DEF Content, NoAccount
<1>4. Len(us) \in T
  <2>1. Len(us) \in Nat
    OBVIOUS
  <2> HIDE DEF T
  <2> QED BY <1>2, <1>3, <2>1, AllNaturals
<1> QED BY <1>1, <1>4

(* Updates that are older than the value leave it.                          *)
LEMMA MergedIsNewer ==
  ASSUME NEW v \in Nat, NEW us \in Seq(VoteUpdate), \A i \in 1 .. Len(us) : us[i].slot < v
  PROVE  Merged(v, us) = v
<1>1. PICK f : /\ f[0] = v /\ \A i \in 1 .. Len(us) : f[i] = Applied(f[i - 1], us[i])
               /\ Merged(v, us) = f[Len(us)]
  BY MergedSteps
<1> DEFINE T == {i \in Nat : i <= Len(us) => f[i] = v}
<1>2. 0 \in T
  BY <1>1
<1>3. ASSUME NEW i \in Nat, i \in T PROVE i + 1 \in T
  <2> SUFFICES ASSUME i + 1 <= Len(us) PROVE f[i + 1] = v
    OBVIOUS
  <2>1. i + 1 \in 1 .. Len(us) /\ us[i + 1] \in VoteUpdate /\ us[i + 1].slot < v
    OBVIOUS
  <2>2. f[i + 1] = Applied(v, us[i + 1])
    BY <1>1, <1>3, <2>1
  <2>3. us[i + 1].slot \in Nat
    BY <2>1 DEF VoteUpdate
  <2> QED BY <2>1, <2>2, <2>3, AppliedRises DEF Content
<1>4. Len(us) \in T
  <2>1. Len(us) \in Nat
    OBVIOUS
  <2> HIDE DEF T
  <2> QED BY <1>2, <1>3, <2>1, AllNaturals
<1> QED BY <1>1, <1>4

(* An account that was loaded does not matter when an update comes after.   *)
LEMMA MergedForgets ==
  ASSUME NEW us \in Seq(VoteUpdate), us # << >>
  PROVE  Merged(0, us) = Merged(NoAccount, us)
<1>1. PICK f : /\ f[0] = 0 /\ \A i \in 1 .. Len(us) : f[i] = Applied(f[i - 1], us[i])
               /\ Merged(0, us) = f[Len(us)]
  BY MergedSteps
<1>2. PICK g : /\ g[0] = NoAccount /\ \A i \in 1 .. Len(us) : g[i] = Applied(g[i - 1], us[i])
               /\ Merged(NoAccount, us) = g[Len(us)]
  BY MergedSteps
<1>3. 1 \in 1 .. Len(us) /\ us[1] \in VoteUpdate /\ Len(us) \in Nat /\ 1 <= Len(us)
  OBVIOUS
<1>4. f[1] = Applied(0, us[1]) /\ g[1] = Applied(NoAccount, us[1])
  BY <1>1, <1>2, <1>3
<1>5. Applied(0, us[1]) = Applied(NoAccount, us[1])
  BY <1>3 DEF Applied, VoteUpdate, NoAccount
<1>6. \A i \in 1 + 1 .. Len(us) : f[i] = Applied(f[i - 1], us[i]) /\ g[i] = Applied(g[i - 1], us[i])
  BY <1>1, <1>2
<1> QED BY <1>1, <1>2, <1>3, <1>4, <1>5, <1>6, StepsAgree

------------------------------------------------------------------------------
(* Tasks and what is lent to them                                           *)

(* Requests need the votes only, the others both stores.                    *)
LEMMA NeedsOfTasks ==
  ASSUME NEW t \in VoteTask
  PROVE  /\ Needs(t) \subseteq StoreName /\ "votes" \in Needs(t)
         /\ "stakes" \in Needs(t) <=> t \notin Request
BY DEF Needs, StoreName

LEMMA TakeEffect ==
  ASSUME VotesTypeOK, NEW t \in VoteTask, Take(t)
  PROVE  /\ lent' \in [StoreName -> SUBSET VoteTask]
         /\ permit' \in [StoreName -> BOOLEAN]
         /\ task' \in [VoteTask -> TaskRecord]
         /\ \A u \in VoteTask \ {t} : task'[u] = task[u]
         /\ \/ /\ \A k \in Needs(t) : lent[k] = {} /\ lent'[k] = {t}
               /\ \A k \in StoreName \ Needs(t) : lent'[k] = lent[k]
               /\ task'[t].at = "holds" /\ task'[t].waits = {}
            \/ /\ lent' = lent
               /\ task'[t].at = "asks"
               /\ \A k \in task'[t].waits : k \in Needs(t) /\ lent[k] # {}
<1> DEFINE taken == {k \in Needs(t) : lent[k] # {}}
           waits == {k \in taken : ~ permit[k]}
<1>1. Needs(t) \subseteq StoreName
  BY NeedsOfTasks
<1>2. CASE /\ taken = {}
           /\ lent' = [k \in StoreName |-> IF k \in Needs(t) THEN {t} ELSE lent[k]]
           /\ task' = [task EXCEPT ![t] = [at |-> "holds", waits |-> {}]]
           /\ UNCHANGED permit
  BY <1>1, <1>2 DEF VotesTypeOK, TaskRecord
<1>3. CASE /\ taken # {}
           /\ task' = [task EXCEPT ![t] = [at |-> "asks", waits |-> waits]]
           /\ permit' = [k \in StoreName |-> permit[k] /\ k \notin taken]
           /\ UNCHANGED lent
  <2>1. permit' \in [StoreName -> BOOLEAN]
    BY <1>3
  <2>2. [at |-> "asks", waits |-> waits] \in TaskRecord
    BY <1>1 DEF TaskRecord
  <2>3. /\ task' \in [VoteTask -> TaskRecord] /\ task'[t] = [at |-> "asks", waits |-> waits]
        /\ \A u \in VoteTask \ {t} : task'[u] = task[u]
    BY <1>3, <2>2 DEF VotesTypeOK
  <2>4. task'[t].at = "asks" /\ \A k \in task'[t].waits : k \in Needs(t) /\ lent[k] # {}
    BY <2>3
  <2> QED BY <1>3, <2>1, <2>3, <2>4 DEF VotesTypeOK
<1> QED BY <1>2, <1>3 DEF Take

(* Taking the stores, or waiting for them.                                  *)
LEMMA TakeKeeps ==
  ASSUME VotesInv, NEW t \in VoteTask, Take(t)
  PROVE  LentTogether' /\ WaitersAreNext'
<1>1. /\ \A u \in VoteTask : /\ Needs(u) \subseteq StoreName /\ "votes" \in Needs(u)
                             /\ "stakes" \in Needs(u) <=> u \notin Request
      /\ \A u \in VoteTask \ {t} : task'[u] = task[u]
      /\ "stakes" \in StoreName /\ "votes" \in StoreName
  BY TakeEffect, NeedsOfTasks DEF VotesInv, StoreName
<1>2. CASE /\ \A k \in Needs(t) : lent[k] = {} /\ lent'[k] = {t}
           /\ \A k \in StoreName \ Needs(t) : lent'[k] = lent[k]
           /\ task'[t].at = "holds" /\ task'[t].waits = {}
  <2>1. lent["votes"] = {} /\ lent'["votes"] = {t}
    BY <1>1, <1>2
  <2>2. \A u \in VoteTask : task[u].at # "holds"
    BY <1>1, <2>1 DEF VotesInv, LentTogether
  <2>3. lent["stakes"] = {}
    BY <2>1 DEF VotesInv, LentTogether
  <2>4. LentTogether'
    <3>1. lent'["stakes"] # {} => lent'["votes"] = lent'["stakes"] /\ lent'["stakes"] \cap Request = {}
      BY <1>1, <1>2, <2>1, <2>3
    <3>2. \A u \in VoteTask : task'[u].at = "holds" => u = t
      BY <1>1, <2>2
    <3> QED BY <1>2, <3>1, <3>2 DEF LentTogether
  <2>5. WaitersAreNext'
    <3>1. \A u \in VoteTask : /\ task'[u].waits # {} => task'[u].at = "asks"
                             /\ task'[u].waits \subseteq Needs(u)
      BY <1>1, <1>2 DEF VotesInv, WaitersAreNext
    <3>2. ASSUME NEW x \in VoteTask, NEW k \in StoreName, k \in task'[x].waits, lent'[k] = {}
          PROVE  \E u \in VoteTask : /\ task'[u].at = "asks" /\ k \in Needs(u)
                                    /\ k \notin task'[u].waits
      <4>1. x # t /\ k \notin Needs(t) /\ lent[k] = {} /\ k \in task[x].waits
        BY <3>2, <1>1, <1>2
      <4>2. PICK u \in VoteTask : task[u].at = "asks" /\ k \in Needs(u) /\ k \notin task[u].waits
        BY <4>1 DEF VotesInv, WaitersAreNext
      <4> QED BY <4>1, <4>2, <1>1
    <3> QED BY <3>1, <3>2 DEF WaitersAreNext
  <2> QED BY <2>4, <2>5
<1>3. CASE /\ lent' = lent
           /\ task'[t].at = "asks"
           /\ \A k \in task'[t].waits : k \in Needs(t) /\ lent[k] # {}
  <2>1. LentTogether'
    BY <1>1, <1>3 DEF VotesInv, LentTogether
  <2>2. \A u \in VoteTask : /\ task'[u].waits # {} => task'[u].at = "asks"
                           /\ task'[u].waits \subseteq Needs(u)
    BY <1>1, <1>3 DEF VotesInv, WaitersAreNext
  <2>3. ASSUME NEW x \in VoteTask, NEW k \in StoreName, k \in task'[x].waits, lent'[k] = {}
        PROVE  \E u \in VoteTask : /\ task'[u].at = "asks" /\ k \in Needs(u)
                                  /\ k \notin task'[u].waits
    <3>1. x # t /\ lent[k] = {} /\ k \in task[x].waits /\ k \notin task'[t].waits
      BY <2>3, <1>1, <1>3
    <3>2. PICK u \in VoteTask : task[u].at = "asks" /\ k \in Needs(u) /\ k \notin task[u].waits
      BY <3>1 DEF VotesInv, WaitersAreNext
    <3> QED BY <3>1, <3>2, <1>1, <1>3
  <2> QED BY <2>1, <2>2, <2>3 DEF WaitersAreNext
<1> QED BY <1>2, <1>3, TakeEffect DEF VotesInv

(* The schedules come after the bootstrap.                                  *)
LEMMA TakeIsInTurn ==
  ASSUME VotesInv, NEW t \in VoteTask, Take(t), boot'.state = boot.state,
         t = Boot => task[Boot].at # "done",
         t \in 1 .. LastEpoch => boot.state = "done"
  PROVE  BootIsFirst'
<1>1. \A u \in VoteTask \ {t} : task'[u] = task[u]
  BY TakeEffect DEF VotesInv
<1>2. Boot \in VoteTask /\ \A e \in 1 .. LastEpoch : e \in VoteTask
  BY DEF VoteTask
<1> QED BY <1>1, <1>2 DEF VotesInv, BootIsFirst

LEMMA MergeEffect ==
  ASSUME VotesTypeOK, NEW t \in VoteTask, NEW value, Merge(t, value)
  PROVE  /\ content' = [k \in StoreName |-> IF k \in Needs(t) THEN Merged(value[k], updates[k])
                                            ELSE content[k]]
         /\ updates' = [k \in StoreName |-> IF k \in Needs(t) THEN << >> ELSE updates[k]]
         /\ lent' \in [StoreName -> SUBSET VoteTask]
         /\ \A k \in StoreName : lent'[k] = IF k \in Needs(t) THEN {} ELSE lent[k]
         /\ permit' \in [StoreName -> BOOLEAN]
         /\ task' \in [VoteTask -> TaskRecord]
         /\ \A u \in VoteTask : /\ task'[u].at = IF u = t THEN "done" ELSE task[u].at
                                /\ task'[u].waits \subseteq task[u].waits
         /\ \A k \in Needs(t) : Waiters(k) # {} =>
              \E w \in Waiters(k) : k \notin task'[w].waits
<1>1. Needs(t) \subseteq StoreName
  BY NeedsOfTasks
<1>2. PICK woken \in [Needs(t) -> VoteTask] :
        /\ \A k \in Needs(t) : woken[k] \in IF Waiters(k) = {} THEN {t} ELSE Waiters(k)
        /\ task' = [u \in VoteTask |->
             [at |-> IF u = t THEN "done" ELSE task[u].at,
              waits |-> task[u].waits \ {k \in Needs(t) : woken[k] = u}]]
  BY DEF Merge
<1>3. \A u \in VoteTask : task[u].at \in {"none", "asks", "holds", "done"} /\ task[u].waits \subseteq StoreName
  BY DEF VotesTypeOK, TaskRecord
<1>4. task' \in [VoteTask -> TaskRecord]
  BY <1>2, <1>3 DEF TaskRecord
<1>5. \A u \in VoteTask : /\ task'[u].at = IF u = t THEN "done" ELSE task[u].at
                          /\ task'[u].waits = task[u].waits \ {k \in Needs(t) : woken[k] = u}
  BY <1>2
<1>6. \A k \in Needs(t) : Waiters(k) # {} => \E w \in Waiters(k) : k \notin task'[w].waits
  <2> TAKE k \in Needs(t)
  <2> SUFFICES ASSUME Waiters(k) # {} PROVE \E w \in Waiters(k) : k \notin task'[w].waits
    OBVIOUS
  <2>1. woken[k] \in Waiters(k) /\ woken[k] \in VoteTask
    BY <1>2
  <2> QED BY <2>1, <1>5
<1>7. /\ lent' = [k \in StoreName |-> IF k \in Needs(t) THEN {} ELSE lent[k]]
      /\ permit' = [k \in StoreName |-> permit[k] \/ (k \in Needs(t) /\ Waiters(k) = {})]
      /\ content' = [k \in StoreName |-> IF k \in Needs(t) THEN Merged(value[k], updates[k])
                                         ELSE content[k]]
      /\ updates' = [k \in StoreName |-> IF k \in Needs(t) THEN << >> ELSE updates[k]]
  BY DEF Merge
<1>8. lent' \in [StoreName -> SUBSET VoteTask] /\ permit' \in [StoreName -> BOOLEAN]
  BY <1>7 DEF VotesTypeOK
<1>9. \A k \in StoreName : lent'[k] = IF k \in Needs(t) THEN {} ELSE lent[k]
  BY <1>7
<1> QED BY <1>4, <1>5, <1>6, <1>7, <1>8, <1>9

(* Whoever merges the stores leaves them to one of their waiters.           *)
LEMMA MergeKeepsTasks ==
  ASSUME VotesInv, NEW t \in VoteTask, NEW value, Merge(t, value), task[t].at = "holds"
  PROVE  LentTogether' /\ WaitersAreNext'
<1>1. /\ \A u \in VoteTask : /\ Needs(u) \subseteq StoreName /\ "votes" \in Needs(u)
                             /\ "stakes" \in Needs(u) <=> u \notin Request
      /\ "stakes" \in StoreName /\ "votes" \in StoreName
  BY NeedsOfTasks DEF StoreName
<1>2. /\ \A k \in StoreName : lent'[k] = IF k \in Needs(t) THEN {} ELSE lent[k]
      /\ \A u \in VoteTask : /\ task'[u].at = IF u = t THEN "done" ELSE task[u].at
                             /\ task'[u].waits \subseteq task[u].waits
      /\ \A k \in Needs(t) : Waiters(k) # {} => \E w \in Waiters(k) : k \notin task'[w].waits
  BY MergeEffect DEF VotesInv
<1>3. /\ \A k \in Needs(t) : lent[k] = {t}
      /\ task[t].waits = {}
  BY DEF VotesInv, LentTogether, WaitersAreNext
<1>4. LentTogether'
  <2>1. \A u \in VoteTask : u # t => task[u].at # "holds"
    BY <1>1, <1>3 DEF VotesInv, LentTogether
  <2>2. \A u \in VoteTask : task'[u].at # "holds"
    BY <1>2, <2>1
  <2>3. lent'["stakes"] = {}
    BY <1>1, <1>2, <1>3 DEF VotesInv, LentTogether
  <2> QED BY <2>2, <2>3 DEF LentTogether
<1>5. \A u \in VoteTask : /\ task'[u].waits # {} => task'[u].at = "asks"
                         /\ task'[u].waits \subseteq Needs(u)
  BY <1>2, <1>3 DEF VotesInv, WaitersAreNext
<1>6. ASSUME NEW x \in VoteTask, NEW k \in StoreName, k \in task'[x].waits, lent'[k] = {}
      PROVE  \E u \in VoteTask : /\ task'[u].at = "asks" /\ k \in Needs(u)
                                /\ k \notin task'[u].waits
  <2>1. k \in task[x].waits
    BY <1>2, <1>6
  <2>2. CASE k \in Needs(t)
    <3>1. x \in Waiters(k)
      BY <2>1 DEF Waiters
    <3>2. PICK w \in Waiters(k) : k \notin task'[w].waits
      BY <3>1, <2>2, <1>2
    <3>3. w \in VoteTask /\ k \in task[w].waits
      BY DEF Waiters
    <3>4. task[w].at = "asks" /\ k \in Needs(w) /\ w # t
      BY <3>3, <1>3 DEF VotesInv, WaitersAreNext
    <3> QED BY <3>2, <3>3, <3>4, <1>2
  <2>3. CASE k \notin Needs(t)
    <3>1. lent[k] = {}
      BY <2>3, <1>2, <1>6
    <3>2. PICK u \in VoteTask : task[u].at = "asks" /\ k \in Needs(u) /\ k \notin task[u].waits
      BY <2>1, <3>1 DEF VotesInv, WaitersAreNext
    <3> QED BY <3>2, <1>2
  <2> QED BY <2>2, <2>3
<1> QED BY <1>4, <1>5, <1>6 DEF WaitersAreNext

(* Of what was loaded from RPC nothing is newer than what was heard.        *)
Load == [slot |-> 0, gone |-> FALSE]

LEMMA LoadedIsOld ==
  ASSUME NEW v \in Content
  PROVE  /\ Applied(v, Load) \in Content
         /\ \/ Applied(v, Load) = v
            \/ v = NoAccount /\ Applied(v, Load) = 0
BY DEF Applied, Load, Content, NoAccount

(* Merging the updates that were collected keeps the latest of each account. *)
LEMMA MergeKeepsStores ==
  ASSUME VotesInv, NEW t \in VoteTask, NEW value, Merge(t, value), latest' = latest,
         \A k \in StoreName : value[k] \in {content[k], Applied(content[k], Load)}
  PROVE  /\ content' \in [StoreName -> Content]
         /\ updates' \in [StoreName -> Seq(VoteUpdate)]
         /\ NothingIsNewer' /\ UpdatesAreKept'
<1>1. \A k \in StoreName : content[k] \in Content /\ updates[k] \in Seq(VoteUpdate) /\ latest[k].slot \in Nat
  BY DEF VotesInv, VotesTypeOK
<1>2. \A k \in StoreName : value[k] \in Content /\ value[k] <= latest[k].slot
  <2> TAKE k \in StoreName
  <2>1. content[k] <= latest[k].slot
    BY DEF VotesInv, NothingIsNewer
  <2>2. value[k] = content[k] \/ value[k] = 0
    BY <1>1, LoadedIsOld
  <2> QED BY <1>1, <2>1, <2>2 DEF Content
<1>3. \A k \in StoreName : /\ Merged(value[k], updates[k]) \in Content
                          /\ Merged(value[k], updates[k]) <= latest[k].slot
  <2> TAKE k \in StoreName
  <2>1. \A i \in 1 .. Len(updates[k]) : updates[k][i].slot <= latest[k].slot
    BY DEF VotesInv, NothingIsNewer
  <2> QED BY <1>1, <1>2, <2>1, MergedIsBounded
<1>4. \A k \in StoreName : latest[k].slot > 0 /\ ~ latest[k].gone =>
                            Merged(value[k], updates[k]) = latest[k].slot
  <2> TAKE k \in StoreName
  <2> SUFFICES ASSUME latest[k].slot > 0 /\ ~ latest[k].gone
               PROVE  Merged(value[k], updates[k]) = latest[k].slot
    OBVIOUS
  <2>1. Merged(content[k], updates[k]) = latest[k].slot
    BY DEF VotesInv, UpdatesAreKept
  <2>2. CASE value[k] = content[k]
    BY <2>1, <2>2
  <2>3. CASE value[k] # content[k]
    <3>1. content[k] = NoAccount /\ value[k] = 0
      BY <1>1, <2>3, LoadedIsOld
    <3>2. Len(updates[k]) # 0
      BY <1>1, <2>1, <3>1, MergedEmpty DEF NoAccount
    <3>3. updates[k] # << >>
      BY <3>2
    <3> QED BY <1>1, <2>1, <3>1, <3>3, MergedForgets
  <2> QED BY <2>2, <2>3
<1>5. \A k \in StoreName : /\ content'[k] = IF k \in Needs(t) THEN Merged(value[k], updates[k])
                                            ELSE content[k]
                          /\ updates'[k] = IF k \in Needs(t) THEN << >> ELSE updates[k]
  BY MergeEffect DEF VotesInv
<1>6. << >> \in Seq(VoteUpdate) /\ Len(<< >>) = 0
  OBVIOUS
<1>7. content' \in [StoreName -> Content]
  BY <1>1, <1>3, MergeEffect DEF VotesInv
<1>8. updates' \in [StoreName -> Seq(VoteUpdate)]
  <2> DEFINE left(k) == IF k \in Needs(t) THEN << >> ELSE updates[k]
  <2>1. updates' = [k \in StoreName |-> left(k)]
    BY MergeEffect DEF VotesInv
  <2>2. \A k \in StoreName : left(k) \in Seq(VoteUpdate)
    BY <1>1, <1>6
  <2> HIDE DEF left
  <2> QED BY <2>1, <2>2
<1>9. NothingIsNewer'
  BY <1>3, <1>5, <1>6 DEF VotesInv, NothingIsNewer
<1>10. UpdatesAreKept'
  <2> SUFFICES ASSUME NEW k \in StoreName, latest[k].slot > 0, ~ latest[k].gone
               PROVE  Merged(content'[k], updates'[k]) = latest[k].slot
    BY DEF UpdatesAreKept
  <2>1. CASE k \in Needs(t)
    <3>1. Merged(content'[k], updates'[k]) = content'[k]
      BY <2>1, <1>5, <1>6, MergedEmpty
    <3> QED BY <3>1, <2>1, <1>4, <1>5
  <2>2. CASE k \notin Needs(t)
    BY <2>2, <1>5 DEF VotesInv, UpdatesAreKept
  <2> QED BY <2>1, <2>2
<1> QED BY <1>7, <1>8, <1>9, <1>10

------------------------------------------------------------------------------
(* Epochs                                                                   *)

(* An epoch is a natural number and its last slot as well.                  *)
LEMMA EpochsAreNatural ==
  ASSUME NEW s \in Nat
  PROVE  EpochData(s) \in EpochRecord
<1>1. s \div EpochLen \in Nat
  BY VotesAssumption
<1>2. EpochOf(s) \in Nat
  BY <1>1 DEF EpochOf
<1>3. \A e \in Nat : e * EpochLen \in Nat
  BY VotesAssumption
<1>4. LastSlotOf(EpochOf(s)) \in Nat \cup {-1}
  BY <1>2, <1>3 DEF LastSlotOf
<1>5. NoEpoch \in 0 .. LastEpoch
  BY VotesAssumption DEF NoEpoch
<1> QED BY <1>2, <1>4, <1>5 DEF EpochData, EpochRecord

LEMMA VotesInitInv == VotesInit => VotesInv
<1> SUFFICES ASSUME VotesInit PROVE VotesInv
  OBVIOUS
<1> USE DEF VotesInit, NoContent, NotLent, NoUpdates, NoPermit, NoTasks, NothingHeard
<1>1. EpochData(0) \in EpochRecord
  BY EpochsAreNatural
<1>2. << >> \in Seq(VoteUpdate)
  OBVIOUS
<1>3. VotesTypeOK
  BY <1>1, <1>2 DEF VotesTypeOK, Content, TaskRecord, NoEpoch
<1>4. NothingIsNewer
  BY DEF NothingIsNewer, NoAccount
<1>5. UpdatesAreKept
  BY DEF UpdatesAreKept
<1>6. LentTogether /\ WaitersAreNext
  BY DEF LentTogether, WaitersAreNext, StoreName, VoteTask
<1>7. BootIsFirst
  BY DEF BootIsFirst, VoteTask
<1> QED BY <1>3, <1>4, <1>5, <1>6, <1>7 DEF VotesInv

LEMMA ChangeEpochKeeps ==
  ASSUME VotesInv, NEW data \in EpochRecord, ChangeEpoch(data), UNCHANGED boot
  PROVE  /\ lent' \in [StoreName -> SUBSET VoteTask]
         /\ permit' \in [StoreName -> BOOLEAN]
         /\ task' \in [VoteTask -> TaskRecord]
         /\ LentTogether' /\ WaitersAreNext' /\ BootIsFirst'
         /\ epochs' \in EpochRecord
<1> DEFINE e == data.change
<1>0. epochs' \in EpochRecord
  <2>1. CASE epochs' = data
    BY <2>1
  <2>2. CASE /\ e # NoEpoch
             /\ epochs' = [data EXCEPT !.epoch = e, !.last = LastSlotOf(e), !.history = FALSE,
                                       !.change = NoEpoch]
    <3>1. e \in Nat
      BY DEF EpochRecord
    <3>2. LastSlotOf(e) \in Nat \cup {-1}
      <4> HIDE DEF e
      <4>1. e * EpochLen \in Nat
        BY <3>1, VotesAssumption
      <4> QED BY <4>1 DEF LastSlotOf
    <3>3. NoEpoch \in 0 .. LastEpoch
      BY VotesAssumption DEF NoEpoch
    <3> QED BY <2>2, <3>1, <3>2, <3>3 DEF EpochRecord
  <2> QED BY <2>1, <2>2 DEF ChangeEpoch
<1>1. CASE UNCHANGED <<lent, permit, task>>
  <2>1. LentTogether' /\ WaitersAreNext' /\ BootIsFirst'
    BY <1>1 DEF VotesInv, LentTogether, WaitersAreNext, BootIsFirst
  <2> QED BY <1>0, <1>1, <2>1 DEF VotesInv, VotesTypeOK
<1>2. CASE Take(e) /\ e \in 1 .. LastEpoch /\ boot.state = "done"
  <2>1. e \in VoteTask /\ e # Boot
    BY <1>2, VotesAssumption DEF VoteTask
  <2> HIDE DEF e
  <2> QED BY <1>0, <1>2, <2>1, TakeEffect, TakeKeeps, TakeIsInTurn DEF VotesInv
<1>3. e # NoEpoch => e \in 1 .. LastEpoch
  BY VotesAssumption DEF EpochRecord, NoEpoch
<1> QED BY <1>1, <1>2, <1>3 DEF ChangeEpoch

------------------------------------------------------------------------------
(* The loop                                                                 *)

(* Nothing of the stores changes.                                           *)
StoresStay == UNCHANGED <<content, updates, latest>>

LEMMA StoresStayKept ==
  ASSUME VotesInv, StoresStay
  PROVE  /\ content' \in [StoreName -> Content]
         /\ updates' \in [StoreName -> Seq(VoteUpdate)]
         /\ latest' \in [StoreName -> [slot : Nat, gone : BOOLEAN]]
         /\ NothingIsNewer' /\ UpdatesAreKept'
BY DEF StoresStay, VotesInv, VotesTypeOK, NothingIsNewer, UpdatesAreKept

LEMMA UpdateKeeps ==
  ASSUME VotesInv, NEW k \in StoreName, NEW u \in VoteUpdate, Update(k, u)
  PROVE  VotesInv'
<1>1. /\ content \in [StoreName -> Content] /\ updates \in [StoreName -> Seq(VoteUpdate)]
      /\ latest \in [StoreName -> [slot : Nat, gone : BOOLEAN]]
      /\ slot \in Nat
      /\ content[k] \in Content /\ updates[k] \in Seq(VoteUpdate) /\ latest[k].slot \in Nat
  BY DEF VotesInv, VotesTypeOK
<1>2. /\ latest' = [latest EXCEPT ![k] = u] /\ latest[k].slot < u.slot
      /\ u.slot \in Nat /\ u.gone \in BOOLEAN
      /\ UNCHANGED <<lent, permit, task, epochs, slot, boot, pending, schedule>>
  BY <1>1 DEF Update, VoteUpdate
<1>3. /\ latest' \in [StoreName -> [slot : Nat, gone : BOOLEAN]]
      /\ latest'[k] = u /\ \A j \in StoreName \ {k} : latest'[j] = latest[j]
  BY <1>1, <1>2 DEF VoteUpdate
<1>4. /\ content[k] <= latest[k].slot
      /\ \A i \in 1 .. Len(updates[k]) : updates[k][i].slot <= latest[k].slot
  BY DEF VotesInv, NothingIsNewer
<1>5. ASSUME updates' = [updates EXCEPT ![k] = Append(@, u)], UNCHANGED content
      PROVE  /\ content' \in [StoreName -> Content] /\ updates' \in [StoreName -> Seq(VoteUpdate)]
             /\ NothingIsNewer' /\ UpdatesAreKept'
  <2>1. /\ updates' \in [StoreName -> Seq(VoteUpdate)]
        /\ updates'[k] = Append(updates[k], u) /\ \A j \in StoreName \ {k} : updates'[j] = updates[j]
    BY <1>1, <1>5
  <2>2. \A i \in 1 .. Len(updates'[k]) : updates'[k][i].slot <= u.slot
    <3> TAKE i \in 1 .. Len(updates'[k])
    <3>1. CASE i = Len(updates[k]) + 1
      BY <3>1, <2>1, <1>1, <1>2
    <3>2. CASE i \in 1 .. Len(updates[k])
      <4>1. updates'[k][i] = updates[k][i] /\ updates[k][i] \in VoteUpdate
        BY <3>2, <2>1, <1>1
      <4>2. updates[k][i].slot \in Nat
        BY <4>1 DEF VoteUpdate
      <4> QED BY <3>2, <4>1, <4>2, <1>1, <1>2, <1>4
    <3> QED BY <3>1, <3>2, <2>1, <1>1
  <2>3. content[k] <= u.slot
    BY <1>1, <1>2, <1>4 DEF Content, NoAccount
  <2>4. NothingIsNewer'
    BY <2>1, <2>2, <2>3, <1>3, <1>5 DEF VotesInv, NothingIsNewer
  <2>5. UpdatesAreKept'
    <3> SUFFICES ASSUME NEW j \in StoreName, latest'[j].slot > 0, ~ latest'[j].gone
                 PROVE  Merged(content[j], updates'[j]) = latest'[j].slot
      BY <1>5 DEF UpdatesAreKept
    <3>1. CASE j # k
      BY <3>1, <2>1, <1>3 DEF VotesInv, UpdatesAreKept
    <3>2. CASE j = k
      <4>1. Merged(content[k], updates[k]) \in Content /\ Merged(content[k], updates[k]) <= latest[k].slot
        BY <1>1, <1>4, MergedIsBounded
      <4>2. Merged(content[k], updates'[k]) = Applied(Merged(content[k], updates[k]), u)
        BY <1>1, <2>1, MergedAppend
      <4>3. Merged(content[k], updates[k]) <= u.slot
        BY <4>1, <1>1, <1>2 DEF Content, NoAccount
      <4> QED BY <3>2, <4>1, <4>2, <4>3, <1>3, AppliedRises
    <3> QED BY <3>1, <3>2
  <2>6. content' \in [StoreName -> Content]
    BY <1>1, <1>5
  <2> QED BY <2>1, <2>4, <2>5, <2>6
<1>6. ASSUME content' = [content EXCEPT ![k] = Applied(@, u)], UNCHANGED updates
      PROVE  /\ content' \in [StoreName -> Content] /\ updates' \in [StoreName -> Seq(VoteUpdate)]
             /\ NothingIsNewer' /\ UpdatesAreKept'
  <2>1. Applied(content[k], u) \in Content /\ Applied(content[k], u) <= u.slot
        /\ (~ u.gone => Applied(content[k], u) = u.slot)
    <3>1. content[k] \in Int /\ content[k] <= u.slot
      BY <1>1, <1>2, <1>4 DEF Content, NoAccount
    <3>2. Applied(content[k], u) \in Content
      BY <1>1, AppliedRises
    <3>3. Applied(content[k], u) \in Int
      BY <3>2 DEF Content, NoAccount
    <3> QED BY <1>1, <1>2, <3>1, <3>2, <3>3, AppliedRises
  <2>2. /\ content' \in [StoreName -> Content] /\ content'[k] = Applied(content[k], u)
        /\ \A j \in StoreName \ {k} : content'[j] = content[j]
    BY <1>1, <1>6, <2>1
  <2>3. \A i \in 1 .. Len(updates[k]) : updates[k][i].slot < u.slot
    <3> TAKE i \in 1 .. Len(updates[k])
    <3>1. updates[k][i] \in VoteUpdate
      BY <1>1
    <3> QED BY <3>1, <1>1, <1>2, <1>4 DEF VoteUpdate
  <2>4. NothingIsNewer'
    <3>1. \A i \in 1 .. Len(updates[k]) : updates[k][i].slot <= u.slot
      <4> TAKE i \in 1 .. Len(updates[k])
      <4>1. updates[k][i] \in VoteUpdate
        BY <1>1
      <4> QED BY <4>1, <1>2, <2>3 DEF VoteUpdate
    <3> QED BY <3>1, <2>1, <2>2, <1>3, <1>6 DEF VotesInv, NothingIsNewer
  <2>5. UpdatesAreKept'
    <3> SUFFICES ASSUME NEW j \in StoreName, latest'[j].slot > 0, ~ latest'[j].gone
                 PROVE  Merged(content'[j], updates[j]) = latest'[j].slot
      BY <1>6 DEF UpdatesAreKept
    <3>1. CASE j # k
      BY <3>1, <2>2, <1>3 DEF VotesInv, UpdatesAreKept
    <3>2. CASE j = k
      <4>1. Merged(u.slot, updates[k]) = u.slot
        BY <2>3, <1>1, <1>2, MergedIsNewer
      <4>2. ~ u.gone /\ latest'[j].slot = u.slot /\ content'[j] = u.slot
        BY <3>2, <2>1, <2>2, <1>3
      <4> QED BY <3>2, <4>1, <4>2
    <3> QED BY <3>1, <3>2
  <2>6. updates' \in [StoreName -> Seq(VoteUpdate)]
    BY <1>1, <1>6
  <2> QED BY <2>2, <2>4, <2>5, <2>6
<1>7. /\ content' \in [StoreName -> Content] /\ updates' \in [StoreName -> Seq(VoteUpdate)]
      /\ NothingIsNewer' /\ UpdatesAreKept'
  BY <1>5, <1>6 DEF Update
<1>8. VotesTypeOK'
  BY <1>2, <1>3, <1>7 DEF VotesInv, VotesTypeOK
<1>9. LentTogether' /\ WaitersAreNext' /\ BootIsFirst'
  BY <1>2 DEF VotesInv, LentTogether, WaitersAreNext, BootIsFirst
<1> QED BY <1>7, <1>8, <1>9 DEF VotesInv

LEMMA NewSlotKeeps ==
  ASSUME VotesInv, NEW s \in Nat, NewSlot(s)
  PROVE  VotesInv'
<1> DEFINE data == [epochs EXCEPT !.slot = s]
           upcoming == EpochOf(epochs.last + 1)
<1>1. /\ StoresStay /\ UNCHANGED boot /\ slot' = s
      /\ \/ epochs' = data /\ UNCHANGED <<lent, permit, task>>
         \/ upcoming <= LastEpoch /\ ChangeEpoch([data EXCEPT !.change = upcoming])
  BY DEF NewSlot, StoresStay
<1>2. epochs \in EpochRecord /\ data \in EpochRecord
  BY DEF VotesInv, VotesTypeOK, EpochRecord
<1>3. upcoming \in Nat
  <2>1. epochs.last + 1 \in Nat
    BY <1>2 DEF EpochRecord
  <2>2. (epochs.last + 1) \div EpochLen \in Nat
    BY <2>1, VotesAssumption
  <2> QED BY <2>2 DEF EpochOf
<1>4. upcoming <= LastEpoch => [data EXCEPT !.change = upcoming] \in EpochRecord
  <2> HIDE DEF upcoming, data
  <2> SUFFICES ASSUME upcoming <= LastEpoch PROVE [data EXCEPT !.change = upcoming] \in EpochRecord
    OBVIOUS
  <2>1. upcoming \in 0 .. LastEpoch
    BY <1>3, VotesAssumption
  <2> QED BY <1>2, <2>1 DEF EpochRecord
<1> HIDE DEF data, upcoming
<1>5. /\ lent' \in [StoreName -> SUBSET VoteTask]
      /\ permit' \in [StoreName -> BOOLEAN]
      /\ task' \in [VoteTask -> TaskRecord]
      /\ LentTogether' /\ WaitersAreNext' /\ BootIsFirst'
      /\ epochs' \in EpochRecord
  <2>1. CASE epochs' = data /\ UNCHANGED <<lent, permit, task>>
    <3>1. LentTogether' /\ WaitersAreNext' /\ BootIsFirst'
      BY <2>1, <1>1 DEF VotesInv, LentTogether, WaitersAreNext, BootIsFirst
    <3> QED BY <3>1, <2>1, <1>2 DEF VotesInv, VotesTypeOK
  <2>2. CASE upcoming <= LastEpoch /\ ChangeEpoch([data EXCEPT !.change = upcoming])
    BY <2>2, <1>1, <1>4, ChangeEpochKeeps
  <2> QED BY <2>1, <2>2, <1>1
<1>6. VotesTypeOK'
  BY <1>1, <1>5, StoresStayKept DEF VotesInv, VotesTypeOK
<1> QED BY <1>1, <1>5, <1>6, StoresStayKept DEF VotesInv

LEMMA NewStakeHistoryKeeps ==
  ASSUME VotesInv, NewStakeHistory
  PROVE  VotesInv'
<1>1. StoresStay /\ UNCHANGED <<boot, slot>> /\ ChangeEpoch([epochs EXCEPT !.history = TRUE])
  BY DEF NewStakeHistory, StoresStay
<1>2. [epochs EXCEPT !.history = TRUE] \in EpochRecord
  BY DEF VotesInv, VotesTypeOK, EpochRecord
<1>3. /\ lent' \in [StoreName -> SUBSET VoteTask]
      /\ permit' \in [StoreName -> BOOLEAN]
      /\ task' \in [VoteTask -> TaskRecord]
      /\ LentTogether' /\ WaitersAreNext' /\ BootIsFirst'
      /\ epochs' \in EpochRecord
  BY <1>1, <1>2, ChangeEpochKeeps
<1>4. VotesTypeOK'
  BY <1>1, <1>3, StoresStayKept DEF VotesInv, VotesTypeOK
<1> QED BY <1>1, <1>3, <1>4, StoresStayKept DEF VotesInv

(* A task asks for the stores, for the first time or again.                 *)
LEMMA AsksKeeps ==
  ASSUME VotesInv, NEW t \in VoteTask, Take(t), StoresStay, UNCHANGED <<epochs, slot>>,
         boot' = boot \/ boot' = [boot EXCEPT !.epoch = epochs.epoch],
         t = Boot => task[Boot].at # "done",
         t \in 1 .. LastEpoch => boot.state = "done"
  PROVE  VotesInv'
<1>1. boot' \in [epoch : Nat, state : {"fetching", "done", "lost", "dead"}] /\ boot'.state = boot.state
  BY DEF VotesInv, VotesTypeOK, EpochRecord
<1>2. VotesTypeOK'
  BY <1>1, TakeEffect, StoresStayKept DEF VotesInv, VotesTypeOK
<1> QED BY <1>1, <1>2, StoresStayKept, TakeKeeps, TakeIsInTurn DEF VotesInv

LEMMA AskAgainKeeps ==
  ASSUME VotesInv, NEW t \in VoteTask, AskAgain(t)
  PROVE  VotesInv'
<1>1. /\ Take(t) /\ StoresStay /\ UNCHANGED <<epochs, slot>>
      /\ boot' = boot \/ boot' = [boot EXCEPT !.epoch = epochs.epoch]
      /\ task[t].at = "asks"
  BY DEF AskAgain, StoresStay
<1>2. t \in 1 .. LastEpoch => boot.state = "done"
  BY <1>1 DEF VotesInv, BootIsFirst
<1> QED BY <1>1, <1>2, AsksKeeps

LEMMA GetVoteAccountsKeeps ==
  ASSUME VotesInv, NEW r \in Request, GetVoteAccounts(r)
  PROVE  VotesInv'
<1>1. r \in VoteTask /\ r # Boot /\ r \notin 1 .. LastEpoch
  BY VotesAssumption DEF VoteTask
<1>2. Take(r) /\ StoresStay /\ UNCHANGED <<epochs, slot>> /\ boot' = boot
  BY DEF GetVoteAccounts, StoresStay
<1> QED BY <1>1, <1>2, AsksKeeps

LEMMA AccountsFetchedKeeps ==
  ASSUME VotesInv, AccountsFetched
  PROVE  VotesInv'
<1>1. Boot \in VoteTask /\ Boot \notin 1 .. LastEpoch
  BY VotesAssumption DEF VoteTask
<1>2. /\ Take(Boot) /\ StoresStay /\ UNCHANGED <<epochs, slot>> /\ task[Boot].at = "none"
      /\ boot' = [boot EXCEPT !.epoch = epochs.epoch]
  BY DEF AccountsFetched, StoresStay
<1> QED BY <1>1, <1>2, AsksKeeps

LEMMA StoresAreLostKeeps ==
  ASSUME VotesInv, StoresAreLost
  PROVE  VotesInv'
<1>1. /\ StoresStay /\ UNCHANGED <<lent, permit, epochs, slot>> /\ task[Boot].at = "holds"
      /\ task' = [task EXCEPT ![Boot].at = "done"]
      /\ boot' = [boot EXCEPT !.state = "lost"]
  BY DEF StoresAreLost, StoresStay
<1>2. Boot \in VoteTask /\ Boot \notin 1 .. LastEpoch /\ \A e \in 1 .. LastEpoch : e \in VoteTask
  BY VotesAssumption DEF VoteTask
<1>3. /\ task' \in [VoteTask -> TaskRecord] /\ task'[Boot].at = "done"
      /\ task'[Boot].waits = task[Boot].waits
      /\ \A u \in VoteTask \ {Boot} : task'[u] = task[u]
  BY <1>1, <1>2 DEF VotesInv, VotesTypeOK, TaskRecord
<1>4. boot' \in [epoch : Nat, state : {"fetching", "done", "lost", "dead"}] /\ boot'.state = "lost"
  BY <1>1 DEF VotesInv, VotesTypeOK
<1>5. VotesTypeOK'
  BY <1>1, <1>3, <1>4, StoresStayKept DEF VotesInv, VotesTypeOK
<1>6. LentTogether'
  BY <1>1, <1>3 DEF VotesInv, LentTogether
<1>7. task[Boot].waits = {}
  BY <1>1, <1>2 DEF VotesInv, WaitersAreNext
<1>8. WaitersAreNext'
  <2>1. \A u \in VoteTask : /\ task'[u].waits # {} => task'[u].at = "asks"
                           /\ task'[u].waits \subseteq Needs(u)
    BY <1>3, <1>7 DEF VotesInv, WaitersAreNext
  <2>2. ASSUME NEW x \in VoteTask, NEW k \in StoreName, k \in task'[x].waits, lent'[k] = {}
        PROVE  \E u \in VoteTask : /\ task'[u].at = "asks" /\ k \in Needs(u)
                                  /\ k \notin task'[u].waits
    <3>1. k \in task[x].waits /\ lent[k] = {}
      BY <2>2, <1>1, <1>3
    <3>2. PICK u \in VoteTask : task[u].at = "asks" /\ k \in Needs(u) /\ k \notin task[u].waits
      BY <3>1 DEF VotesInv, WaitersAreNext
    <3> QED BY <3>2, <1>1, <1>3
  <2> QED BY <2>1, <2>2 DEF WaitersAreNext
<1>9. BootIsFirst'
  BY <1>1, <1>2, <1>3, <1>4 DEF VotesInv, BootIsFirst
<1> QED BY <1>5, <1>6, <1>8, <1>9, StoresStayKept, <1>1 DEF VotesInv

(* A task gives the stores back.                                            *)
LEMMA GivesBackKeeps ==
  ASSUME VotesInv, NEW t \in VoteTask, NEW value, Merge(t, value), task[t].at = "holds",
         UNCHANGED <<slot, latest>>, epochs' \in EpochRecord,
         \A k \in StoreName : value[k] \in {content[k], Applied(content[k], Load)},
         boot' \in [epoch : Nat, state : {"fetching", "done", "lost", "dead"}],
         IF t = Boot THEN boot'.state = "done" ELSE boot' = boot
  PROVE  VotesInv'
<1>1. Boot \in VoteTask /\ Boot \notin 1 .. LastEpoch /\ \A e \in 1 .. LastEpoch : e \in VoteTask
  BY VotesAssumption DEF VoteTask
<1>2. \A u \in VoteTask : task'[u].at = IF u = t THEN "done" ELSE task[u].at
  BY MergeEffect DEF VotesInv
<1>3. BootIsFirst'
  <2>1. CASE t = Boot
    BY <2>1, <1>1, <1>2 DEF VotesInv, BootIsFirst
  <2>2. CASE t # Boot
    <3>1. t \in 1 .. LastEpoch => boot.state = "done"
      BY DEF VotesInv, BootIsFirst
    <3> QED BY <2>2, <3>1, <1>1, <1>2 DEF VotesInv, BootIsFirst
  <2> QED BY <2>1, <2>2
<1>4. VotesTypeOK'
  BY MergeEffect, MergeKeepsStores DEF VotesInv, VotesTypeOK
<1> QED BY <1>3, <1>4, MergeKeepsStores, MergeKeepsTasks DEF VotesInv

LEMMA VoteTaskGoesKeeps ==
  ASSUME VotesInv, NEW t \in VoteTask, VoteTaskGoes(t)
  PROVE  VotesInv'
<1> USE DEF VotesTypeOK
<1>1. CASE AskAgain(t)
  BY <1>1, AskAgainKeeps
<1>2. CASE t \in Request /\ AnswerVotes(t)
  <2>1. t # Boot
    BY <1>2, VotesAssumption
  <2> QED BY <1>2, <2>1, GivesBackKeeps DEF AnswerVotes, VotesInv
<1>3. CASE t \in 1 .. LastEpoch /\ ScheduleCalculated(t)
  <2>1. t # Boot
    BY <1>3, VotesAssumption
  <2> QED BY <1>3, <2>1, GivesBackKeeps DEF ScheduleCalculated, VotesInv
<1>4. CASE t = Boot /\ AccountsMerged
  <2>1. PICK fetched \in SUBSET StoreName :
          Merge(Boot, [k \in StoreName |-> IF k \in fetched THEN Applied(content[k], Load)
                                          ELSE content[k]])
    BY <1>4 DEF AccountsMerged, Load
  <2> DEFINE value == [k \in StoreName |-> IF k \in fetched THEN Applied(content[k], Load)
                                          ELSE content[k]]
  <2>2. \A k \in StoreName : value[k] \in {content[k], Applied(content[k], Load)}
    OBVIOUS
  <2>3. Merge(Boot, value)
    BY <2>1
  <2> HIDE DEF value
  <2>4. epochs' \in EpochRecord
    BY <1>4, EpochsAreNatural DEF AccountsMerged, VotesInv
  <2>5. /\ boot' \in [epoch : Nat, state : {"fetching", "done", "lost", "dead"}] /\ boot'.state = "done"
        /\ UNCHANGED <<slot, latest>> /\ task[Boot].at = "holds"
    BY <1>4 DEF AccountsMerged, VotesInv
  <2> QED BY <1>4, <2>2, <2>3, <2>4, <2>5, GivesBackKeeps
<1> QED BY <1>1, <1>2, <1>3, <1>4 DEF VoteTaskGoes

LEMMA LoopEndsKeeps ==
  ASSUME VotesInv, LoopEnds
  PROVE  VotesInv'
<1> USE DEF LoopEnds, NoContent, NotLent, NoUpdates, NoPermit, NoTasks, NothingHeard
<1>1. slot \in Nat /\ slot' = slot /\ epochs' = EpochData(slot)
  BY DEF VotesInv, VotesTypeOK
<1>2. epochs' \in EpochRecord
  BY <1>1, EpochsAreNatural
<1>3. << >> \in Seq(VoteUpdate)
  OBVIOUS
<1>4. VotesTypeOK'
  BY <1>1, <1>2, <1>3 DEF VotesTypeOK, Content, TaskRecord, NoEpoch
<1>5. NothingIsNewer'
  BY DEF NothingIsNewer, NoAccount
<1>6. UpdatesAreKept'
  BY DEF UpdatesAreKept
<1>7. LentTogether' /\ WaitersAreNext'
  BY DEF LentTogether, WaitersAreNext, StoreName, VoteTask
<1>8. BootIsFirst'
  BY DEF BootIsFirst, VoteTask
<1> QED BY <1>4, <1>5, <1>6, <1>7, <1>8 DEF VotesInv

THEOREM VotesInvariant == VotesSpec => []VotesInv
<1>1. VotesInv /\ [VotesNext]_voteVars => VotesInv'
  <2> SUFFICES ASSUME VotesInv, [VotesNext]_voteVars PROVE VotesInv'
    OBVIOUS
  <2>1. ASSUME NEW k \in Changing, NEW s \in 1 .. MaxVoteSlot, NEW gone \in BOOLEAN,
               Update(k, [slot |-> s, gone |-> gone])
        PROVE  VotesInv'
    <3>1. [slot |-> s, gone |-> gone] \in VoteUpdate
      BY VotesAssumption DEF VoteUpdate
    <3>2. k \in StoreName
      BY VotesAssumption DEF StoreName
    <3> QED BY <2>1, <3>1, <3>2, UpdateKeeps
  <2>2. ASSUME NEW s \in 1 .. MaxVoteSlot, NewSlot(s) PROVE VotesInv'
    <3>1. s \in Nat
      OBVIOUS
    <3> QED BY <2>2, <3>1, NewSlotKeeps
  <2>3. CASE NewStakeHistory
    BY <2>3, NewStakeHistoryKeeps
  <2>4. ASSUME NEW r \in Request, GetVoteAccounts(r) PROVE VotesInv'
    BY <2>4, GetVoteAccountsKeeps
  <2>5. CASE AccountsFetched
    BY <2>5, AccountsFetchedKeeps
  <2>6. CASE StoresAreLost
    BY <2>6, StoresAreLostKeeps
  <2>7. ASSUME NEW t \in VoteTask, VoteTaskGoes(t) PROVE VotesInv'
    BY <2>7, VoteTaskGoesKeeps
  <2>8. CASE LoopEnds
    BY <2>8, LoopEndsKeeps
  <2>9. CASE UNCHANGED voteVars
    BY <2>9 DEF voteVars, VotesInv, VotesTypeOK, NothingIsNewer, UpdatesAreKept, LentTogether,
                WaitersAreNext, BootIsFirst
  <2> QED BY <2>1, <2>2, <2>3, <2>4, <2>5, <2>6, <2>7, <2>8, <2>9 DEF VotesNext
<1> QED BY <1>1, VotesInitInv, PTL DEF VotesSpec

(* When a store is back and somebody waits for it, another task is about to *)
(* take it, or has been notified of this store and waits for the other.     *)
LEMMA NobodyIsForgotten ==
  ASSUME VotesInv
  PROVE  WaitsForSomebody
<1> SUFFICES ASSUME NEW t \in VoteTask, NEW k \in StoreName, k \in task[t].waits, lent[k] = {},
                    ~ \E u \in VoteTask : /\ task[u] = [at |-> "asks", waits |-> {}]
                                         /\ k \in Needs(u)
             PROVE  SchedulesCross
  BY DEF WaitsForSomebody
<1>1. /\ \A u \in VoteTask : /\ Needs(u) \subseteq StoreName /\ "votes" \in Needs(u)
                             /\ "stakes" \in Needs(u) <=> u \notin Request
      /\ \A j \in StoreName : j = "stakes" \/ j = "votes"
      /\ "stakes" \in StoreName /\ "votes" \in StoreName
  BY NeedsOfTasks DEF StoreName
<1>2. \A u \in VoteTask : /\ task[u].waits # {} => task[u].at = "asks"
                         /\ \A j \in task[u].waits : j \in Needs(u) /\ j \in StoreName
  BY <1>1 DEF VotesInv, WaitersAreNext
<1>3. \A u \in VoteTask : task[u].at = "asks" /\ k \in Needs(u) => task[u].waits # {}
  <2> SUFFICES ASSUME NEW u \in VoteTask, task[u].at = "asks", k \in Needs(u), task[u].waits = {}
               PROVE  FALSE
    OBVIOUS
  <2>1. task[u] = [at |-> task[u].at, waits |-> task[u].waits]
    <3>1. task[u] \in TaskRecord
      BY DEF VotesInv, VotesTypeOK
    <3> QED BY <3>1 DEF TaskRecord
  <2>2. task[u] = [at |-> "asks", waits |-> {}]
    BY <2>1
  <2> QED BY <2>2
<1>4. lent["stakes"] = {}
  BY <1>1 DEF VotesInv, LentTogether
<1>5. PICK u \in VoteTask : task[u].at = "asks" /\ k \in Needs(u) /\ k \notin task[u].waits
  BY DEF VotesInv, WaitersAreNext
<1>6. \E j \in StoreName : j \in task[u].waits
  <2>1. task[u].waits # {}
    BY <1>3, <1>5
  <2>2. PICK j \in task[u].waits : TRUE
    BY <2>1
  <2>3. j \in StoreName
    BY <1>1, <1>2
  <2> QED BY <2>3
<1>7. \E d, e \in VoteTask : /\ "stakes" \in task[d].waits
                            /\ "votes" \in task[e].waits /\ "stakes" \notin task[e].waits
                            /\ e \notin Request
  <2>1. CASE k = "stakes"
    <3>1. "votes" \in task[u].waits /\ "stakes" \notin task[u].waits /\ u \notin Request
      BY <2>1, <1>1, <1>5, <1>6
    <3> QED BY <2>1, <3>1
  <2>2. CASE k = "votes"
    <3>1. "stakes" \in task[u].waits
      BY <2>2, <1>1, <1>5, <1>6
    <3>2. PICK v \in VoteTask : task[v].at = "asks" /\ "stakes" \in Needs(v) /\ "stakes" \notin task[v].waits
      BY <3>1, <1>1, <1>4 DEF VotesInv, WaitersAreNext
    <3>3. task[v].waits # {}
      BY <2>2, <3>2, <1>1, <1>3
    <3>4. PICK j \in task[v].waits : TRUE
      BY <3>3
    <3>5. j \in StoreName /\ v \notin Request
      BY <3>2, <1>1, <1>2
    <3>6. "votes" \in task[v].waits
      BY <3>2, <3>5, <1>1
    <3> QED BY <3>1, <3>2, <3>5, <3>6
  <2> QED BY <2>1, <2>2, <1>1
<1>8. PICK d, e \in VoteTask : /\ "stakes" \in task[d].waits
                             /\ "votes" \in task[e].waits /\ "stakes" \notin task[e].waits
                             /\ e \notin Request
  BY <1>7
<1>9. d \notin Request /\ d # e /\ task[d].at = "asks" /\ task[e].at = "asks"
  <2>1. "stakes" \in Needs(d)
    BY <1>2, <1>8
  <2>2. d # e /\ task[d].waits # {} /\ task[e].waits # {}
    BY <1>8
  <2> QED BY <2>1, <2>2, <1>1, <1>2
<1>10. d \in {Boot} \cup 1 .. LastEpoch /\ e \in {Boot} \cup 1 .. LastEpoch
  BY <1>8, <1>9 DEF VoteTask
<1>11. d # Boot /\ e # Boot
  BY <1>9, <1>10 DEF VotesInv, BootIsFirst
<1> QED BY <1>4, <1>8, <1>10, <1>11 DEF SchedulesCross

(* Whatever was last heard of an account is in its store or will be, however *)
(* many updates are put aside and however often the store is lent; and when  *)
(* a store is back somebody takes it, unless two schedules cross.           *)
THEOREM VotesLatestIsKept == VotesSpec => []LatestIsKept
<1>1. VotesInv => LatestIsKept
  BY NobodyIsForgotten DEF VotesInv, LatestIsKept
<1> QED BY <1>1, VotesInvariant, PTL

------------------------------------------------------------------------------
(* StakeFiles                                                               *)

ScheduleRecord == [epoch : Nat, of : Nat]
Schedules == [current : ScheduleRecord, next : ScheduleRecord]

FilesTypeOK ==
  /\ epoch \in Epoch
  /\ current \in {NoFile, Torn} \cup Nat /\ next \in {NoFile, Torn} \cup Nat
  /\ known \in Nat
  /\ read \in Schedules
  /\ calc \in [at : {"idle", "rename", "create", "write", "done"}, epoch : Nat]
  /\ early \in BOOLEAN

(* A calculation is for the epoch the program goes by, and ends with it.    *)
CalculatesKnown ==
  calc # NotCalculating => process = "runs" /\ calc.epoch = known

(* The program goes by an epoch of the cluster, or by the next one while it *)
(* calculates for it or waits for it.                                       *)
KnowsTheEpoch ==
  known <= epoch \/ (process = "runs" /\ known = epoch + 1)

(* No file is ahead of the calculations: as far as one was begun, the file  *)
(* of the current epoch is of the known one or before, and that of the next *)
(* at most one after.                                                       *)
NoFileAhead ==
  /\ current <= known
  /\ next <= known + 1
  /\ calc.at = "rename" => next <= known

(* Two files that are not in a row are of the past, and not read any more.  *)
InARowOrPast ==
  current \in Epoch /\ next >= 1 => next = current + 1 \/ current < known

FilesInv ==
  /\ FilesTypeOK
  /\ CalculatesKnown
  /\ ~early => KnowsTheEpoch /\ NoFileAhead /\ InARowOrPast
  /\ ReadInARow

LEMMA FilesStart == FilesInit => FilesInv
<1> SUFFICES ASSUME FilesInit PROVE FilesInv
  OBVIOUS
<1>1. FilesTypeOK
  <2>1. read \in Schedules
    BY DEF FilesInit, Nothing, NoSchedule, Schedule, Schedules, ScheduleRecord
  <2>2. calc \in [at : {"idle", "rename", "create", "write", "done"}, epoch : Nat]
    BY DEF FilesInit, NotCalculating
  <2>3. epoch \in Epoch /\ known \in Nat /\ current = NoFile /\ next = NoFile /\ early = FALSE
    BY FilesAssumption DEF FilesInit, Epoch
  <2> QED
    BY <2>1, <2>2, <2>3 DEF FilesTypeOK
<1>2. CalculatesKnown /\ KnowsTheEpoch /\ NoFileAhead /\ InARowOrPast /\ ReadInARow
  BY FilesAssumption DEF FilesInit, CalculatesKnown, KnowsTheEpoch, NoFileAhead, InARowOrPast,
                         ReadInARow, Epoch, NoFile, NotCalculating
<1> QED
  BY <1>1, <1>2 DEF FilesInv

(* A file is taken for what it is: of two epochs in a row, if it is the     *)
(* known one that is loaded.                                                *)
LEMMA TakenInARow ==
  ASSUME FilesInv, process = "fetches"
  PROVE  LET found == CurrentSchedule(known, FileSlots)
         IN  /\ found \in Schedules
             /\ found # Nothing /\ ~early => found.next.epoch = found.current.epoch + 1
<1>1. CASE current \in Epoch /\ next \in 1 .. MaxEpoch + 1 /\ known = current
  <2>1. CurrentSchedule(known, FileSlots)
          = [current |-> Schedule(current, current), next |-> Schedule(next, next)]
    BY <1>1 DEF CurrentSchedule
  <2>2. ~early => next = current + 1
    BY <1>1, FilesAssumption DEF FilesInv, FilesTypeOK, InARowOrPast, Epoch
  <2>3. current \in Nat /\ next \in Nat
    BY <1>1, FilesAssumption DEF Epoch
  <2> QED
    BY <2>1, <2>2, <2>3 DEF Schedules, ScheduleRecord, Schedule
<1>2. CASE ~(current \in Epoch /\ next \in 1 .. MaxEpoch + 1 /\ known = current)
  <2>1. CurrentSchedule(known, FileSlots) = Nothing
    BY <1>2 DEF CurrentSchedule
  <2> QED
    BY <2>1 DEF Nothing, NoSchedule, Schedule, Schedules, ScheduleRecord
<1> QED
  BY <1>1, <1>2

LEMMA FilesKeep == FilesInv /\ [FilesNext]_fileVars => FilesInv'
<1> SUFFICES ASSUME FilesInv, [FilesNext]_fileVars PROVE FilesInv'
  OBVIOUS
<1> USE FilesAssumption DEF FilesInv, FilesTypeOK, CalculatesKnown, KnowsTheEpoch, NoFileAhead,
                            InARowOrPast, ReadInARow, Epoch, NoFile, Torn, NotCalculating
<1>0. Nothing \in Schedules
  BY DEF Nothing, NoSchedule, Schedule, Schedules, ScheduleRecord
<1>1. CASE EpochChanges
  BY <1>1 DEF EpochChanges
<1>2. CASE Crash
  <2>1. (early' <=> early \/ known > epoch) /\ early' \in BOOLEAN
        /\ UNCHANGED <<epoch, current, next, known>> /\ process' = "down"
        /\ read' \in Schedules /\ calc' = NotCalculating
    BY <1>0, <1>2 DEF Crash
  <2>2. ~early' => ~early /\ known <= epoch
    BY <2>1
  <2> QED
    BY <2>1, <2>2
<1>3. CASE Start
  <2>1. process' \in {"asksEpoch", "boots"} /\ known' = epoch
        /\ UNCHANGED <<epoch, current, next, read, calc, early>> /\ process = "down"
    BY <1>3 DEF Start
  <2> QED
    BY <2>1
<1>4. CASE AskEpoch
  <2>1. read' \in Schedules
    BY <1>4 DEF AskEpoch, Schedules, ScheduleRecord
  <2> QED
    BY <1>4, <2>1 DEF AskEpoch
<1>5. CASE AskCurrent
  <2>1. read' \in Schedules
    BY <1>5 DEF AskCurrent, Schedules, ScheduleRecord
  <2> QED
    BY <1>5, <2>1 DEF AskCurrent
<1>6. CASE AskNext
  BY <1>0, <1>6 DEF AskNext
<1>7. CASE AskFails
  BY <1>0, <1>7 DEF AskFails
<1>8. CASE LoopStarts
  BY <1>8 DEF LoopStarts
<1>9. CASE ReadFiles
  <2>1. process = "fetches" /\ process' = "merges" /\ read' = CurrentSchedule(known, FileSlots)
        /\ UNCHANGED <<epoch, current, next, known, loaded, calc, early>>
    BY <1>9 DEF ReadFiles
  <2>2. read' \in Schedules
        /\ (read' # Nothing /\ ~early => read'.next.epoch = read'.current.epoch + 1)
    BY <2>1, TakenInARow
  <2> QED
    BY <2>1, <2>2
<1>10. CASE LoadSchedules
  BY <1>0, <1>10 DEF LoadSchedules
<1>11. CASE Calculate
  BY <1>11 DEF Calculate
<1>12. CASE RenameFile
  BY <1>12 DEF RenameFile
<1>13. CASE CreateFile
  BY <1>13 DEF CreateFile
<1>14. CASE WriteFile
  BY <1>14 DEF WriteFile
<1>15. CASE Calculated
  BY <1>15 DEF Calculated
<1>16. CASE UNCHANGED fileVars
  BY <1>16 DEF fileVars, Nothing
<1> QED
  BY <1>1, <1>2, <1>3, <1>4, <1>5, <1>6, <1>7, <1>8, <1>9, <1>10, <1>11, <1>12, <1>13, <1>14,
     <1>15, <1>16 DEF FilesNext

(* What the loop of the stakes reads from the files and what the files say  *)
(* of the known epoch, whatever crash interrupted their writing.            *)
THEOREM FilesInvariant == FilesSpec => []FilesInv
<1> QED BY FilesStart, FilesKeep, PTL DEF FilesSpec

(* bootstrap.rs, leader_schedule.rs: schedules that are loaded from the     *)
(* files are of two epochs in a row, unless a crash came between a          *)
(* calculation and the epoch it was for.                                    *)
THEOREM FilesReadInARow == FilesSpec => []ReadInARow
<1>1. FilesInv => ReadInARow
  BY DEF FilesInv
<1> QED BY <1>1, FilesInvariant, PTL

------------------------------------------------------------------------------
(* PrioFees                                                                 *)

CONSTANTS Account, FeeTx, MaxTxs, MaxSlot, MaxBlocks, Retain, Stride
VARIABLES recent, writeonly, all, lastSlot, message, count, heard

Fees == INSTANCE PrioFees WITH Tx <- FeeTx, blocks <- count

(* What is kept of the slots that were heard of: none is so old that the    *)
(* last block has it forgotten, and none of the last ones is missing.       *)
Keeps(bySlot, slots) ==
  /\ \A s \in slots :
       (\A t \in heard.block : s > t - Retain) => s \in DOMAIN bySlot
  /\ DOMAIN bySlot \subseteq Nat \ {0}
  /\ \A s \in DOMAIN bySlot : s > lastSlot - Retain

FeesInv ==
  /\ heard.block \subseteq Nat \ {0} /\ lastSlot \in Nat
  /\ Keeps(recent, heard.block)
  /\ \A a \in Account : Keeps(writeonly[a], heard.account[a])

LEMMA TheGreater ==
  ASSUME NEW m \in Int
  PROVE  Fees!Max({0, m}) = IF m > 0 THEN m ELSE 0
BY DEF Fees!Max

(* What a block adds is kept, and of the rest what is not too old.          *)
LEMMA KeptIsKept ==
  ASSUME Retain \in Nat \ {0}, NEW slot_ \in Nat \ {0}, FeesInv,
         NEW bySlot, NEW slots, Keeps(bySlot, slots),
         NEW stored, DOMAIN bySlot \subseteq DOMAIN stored,
         DOMAIN stored \subseteq DOMAIN bySlot \cup {slot_},
         NEW kept, kept = Fees!Retained(stored, slot_)
  PROVE  /\ \A s \in slots \cup DOMAIN stored :
              (\A t \in heard.block \cup {slot_} : s > t - Retain) => s \in DOMAIN kept
         /\ DOMAIN kept \subseteq Nat \ {0}
         /\ \A s \in DOMAIN kept : s > slot_ - Retain
<1>1. PICK m : m = slot_ - Retain /\ m \in Int
  OBVIOUS
<1>2. DOMAIN kept = {t \in DOMAIN stored : t > IF m > 0 THEN m ELSE 0}
  BY <1>1, TheGreater DEF Fees!Retained
<1>3. DOMAIN stored \subseteq Nat \ {0}
  BY DEF Keeps
<1>4. ASSUME NEW s \in slots \cup DOMAIN stored, \A t \in heard.block \cup {slot_} : s > t - Retain
      PROVE  s \in DOMAIN kept
  <2>1. s \in DOMAIN stored
    BY <1>4 DEF Keeps
  <2>2. s > m
    BY <1>1, <1>4
  <2> QED
    BY <1>2, <1>3, <2>1, <2>2
<1> QED
  BY <1>1, <1>2, <1>3, <1>4

(* UpdateAccounts, as far as it matters here.                               *)
LEMMA AccountsUpdated ==
  ASSUME NEW slot_, NEW txs, Fees!UpdateAccounts(slot_, txs), NEW a \in Account
  PROVE  \E stored :
           /\ writeonly'[a] = Fees!Retained(stored, slot_)
           /\ \/ stored = writeonly[a] /\ heard'.account[a] = heard.account[a] \cup {}
              \/ /\ DOMAIN stored = DOMAIN writeonly[a] \cup {slot_}
                 /\ heard'.account[a] = heard.account[a] \cup {slot_}
<1> DEFINE ranked == Fees!SortedByFee(SelectSeq(txs, LAMBDA tx : ~tx.vote))
           locked(b) == SelectSeq(ranked, LAMBDA tx : b \in tx.writes \cup tx.reads)
           data(b) == Fees!AccountData(locked(b))
           stored(b) == IF locked(b) = << >> THEN writeonly[b]
                        ELSE Fees!With(writeonly[b], slot_, data(b))
<1>1. writeonly' = [b \in Account |-> Fees!Retained(stored(b), slot_)]
  BY DEF Fees!UpdateAccounts
<1>2. heard' = [block |-> heard.block \cup {slot_},
                account |-> [b \in Account |-> heard.account[b] \cup
                               (IF locked(b) = << >> THEN {} ELSE {slot_})]]
  BY DEF Fees!UpdateAccounts
<1> HIDE DEF locked, data
<1>3. writeonly'[a] = Fees!Retained(stored(a), slot_)
  BY <1>1
<1>4. CASE locked(a) = << >>
  BY <1>2, <1>3, <1>4
<1>5. CASE locked(a) # << >>
  <2>1. DOMAIN stored(a) = DOMAIN writeonly[a] \cup {slot_}
    BY <1>5 DEF Fees!With
  <2> QED
    BY <1>2, <1>3, <1>5, <2>1
<1> QED
  BY <1>4, <1>5

LEMMA FeesStart == Fees!Init => FeesInv
BY DEF Fees!Init, Fees!Nothing, FeesInv, Keeps

LEMMA FeesKeep ==
  ASSUME Retain \in Nat \ {0}, MaxSlot \in Nat
  PROVE  FeesInv /\ [Fees!Next]_(Fees!feeVars) => FeesInv'
<1> SUFFICES ASSUME FeesInv, [Fees!Next]_(Fees!feeVars) PROVE FeesInv'
  OBVIOUS
<1>1. ASSUME NEW slot_ \in 1 .. MaxSlot, NEW txs, Fees!TakeBlock(slot_, txs) PROVE FeesInv'
  <2>1. Fees!UpdateBlock(slot_, txs) /\ Fees!UpdateAccounts(slot_, txs)
    BY <1>1 DEF Fees!TakeBlock
  <2>2. heard'.block = heard.block \cup {slot_} /\ lastSlot' = slot_
    BY <2>1 DEF Fees!UpdateAccounts
  <2>3. slot_ \in Nat \ {0}
    OBVIOUS
  <2>4. Keeps(recent, heard.block)'
    <3>1. PICK data : recent' = Fees!Retained(Fees!With(recent, slot_, data), slot_)
      BY <2>1 DEF Fees!UpdateBlock
    <3>2. PICK stored : stored = Fees!With(recent, slot_, data)
      OBVIOUS
    <3>3. /\ DOMAIN recent \subseteq DOMAIN stored /\ slot_ \in DOMAIN stored
          /\ DOMAIN stored \subseteq DOMAIN recent \cup {slot_}
      BY <3>2 DEF Fees!With
    <3>4. Keeps(recent, heard.block) /\ recent' = Fees!Retained(stored, slot_)
      BY <3>1, <3>2 DEF FeesInv
    <3>5. /\ \A s \in heard.block \cup DOMAIN stored :
               (\A t \in heard.block \cup {slot_} : s > t - Retain) => s \in DOMAIN recent'
          /\ DOMAIN recent' \subseteq Nat \ {0}
          /\ \A s \in DOMAIN recent' : s > slot_ - Retain
      BY <2>3, <3>3, <3>4, KeptIsKept
    <3> QED
      BY <2>2, <3>3, <3>5 DEF Keeps
  <2>5. ASSUME NEW a \in Account PROVE Keeps(writeonly[a], heard.account[a])'
    <3>1. PICK stored :
            /\ writeonly'[a] = Fees!Retained(stored, slot_)
            /\ \/ stored = writeonly[a] /\ heard'.account[a] = heard.account[a] \cup {}
               \/ /\ DOMAIN stored = DOMAIN writeonly[a] \cup {slot_}
                  /\ heard'.account[a] = heard.account[a] \cup {slot_}
      BY <2>1, AccountsUpdated
    <3>2. PICK old, slots, kept :
            old = writeonly[a] /\ slots = heard.account[a] /\ kept = writeonly'[a]
      OBVIOUS
    <3>3. Keeps(old, slots)
      BY <3>2 DEF FeesInv
    <3>4. DOMAIN old \subseteq DOMAIN stored /\ DOMAIN stored \subseteq DOMAIN old \cup {slot_}
      BY <3>1, <3>2
    <3>5. kept = Fees!Retained(stored, slot_)
      BY <3>1, <3>2
    <3>6. /\ \A s \in slots \cup DOMAIN stored :
               (\A t \in heard.block \cup {slot_} : s > t - Retain) => s \in DOMAIN kept
          /\ DOMAIN kept \subseteq Nat \ {0}
          /\ \A s \in DOMAIN kept : s > slot_ - Retain
      BY <2>3, <3>3, <3>4, <3>5, KeptIsKept
    <3>7. heard'.account[a] \subseteq slots \cup DOMAIN stored
      BY <3>1, <3>2
    <3> QED
      BY <2>2, <3>2, <3>6, <3>7 DEF Keeps
  <2> QED
    BY <2>2, <2>3, <2>4, <2>5 DEF FeesInv
<1>2. CASE UNCHANGED Fees!feeVars
  BY <1>2 DEF Fees!feeVars, FeesInv, Keeps
<1> QED
  BY <1>1, <1>2 DEF Fees!Next

(* account_priofees.rs, block_priofees.rs: also when blocks come out of     *)
(* order, the data of each of the last slots is there, and of none that is  *)
(* older.                                                                   *)
THEOREM FeesRetainTheLast ==
  ASSUME Retain \in Nat \ {0}, MaxSlot \in Nat
  PROVE  Fees!Spec => []Fees!RetainsTheLast
<1>1. FeesInv => Fees!RetainsTheLast
  BY DEF FeesInv, Keeps, Fees!RetainsTheLast
<1> QED
  BY <1>1, FeesStart, FeesKeep, PTL DEF Fees!Spec

------------------------------------------------------------------------------
(* BlockStore                                                               *)

PreparedEpoch == [epoch : SchemaEpoch, new : BOOLEAN]

BlocksTypeOK ==
  /\ statements \in [SchemaEpoch -> 0 .. Complete]
  /\ blocks \in SUBSET BlockSlot
  /\ rows \in [BlockSlot -> SUBSET Chunk]
  /\ prepared \in Seq(PreparedEpoch)
  /\ save \in [at : {"idle", "block", "chunks", "rows", "stuck"}, slot : BlockSlot \cup {-1},
               chunks : SUBSET Chunk, failed : BOOLEAN]
  /\ save.at # "idle" => save.slot \in BlockSlot
  /\ open \in SUBSET Chunk
  /\ asking \in [at : {"idle", "block", "chunks", "answer"}, slot : BlockSlot \cup {-1},
                 whole : BOOLEAN, chunks : SUBSET Chunk]
  /\ asking.at # "idle" => asking.slot \in BlockSlot
  /\ cut \in [epoch : SUBSET SchemaEpoch, slot : SUBSET BlockSlot]

(* A block whose row a save has still to insert is whole if it is there;    *)
(* and of the one it has inserted, all transactions are stored or to be     *)
(* stored, unless one has failed.                                           *)
SaveGoesOn ==
  LET s == save.slot
  IN  /\ save.at = "idle" => save = NoSave
      /\ save.at = "block" /\ s \in blocks /\ s \notin cut.slot => rows[s] = Chunk
      /\ save.at = "rows" /\ ~ save.failed => rows[s] \cup save.chunks = Chunk

(* A query that has read the row of a whole block will read all of it.      *)
QueryGoesOn ==
  asking.at = "chunks" /\ asking.whole => rows[asking.slot] = Chunk

(* A schema that lacks tables is the one at work, or was cut.               *)
FirstIsMade ==
  /\ \A i \in DOMAIN prepared : prepared[i].new =>
       i = 1 /\ statements[prepared[i].epoch] \in 1 .. Complete - 1
  /\ \A e \in SchemaEpoch :
       \/ statements[e] \in {0, Complete}
       \/ e \in cut.epoch
       \/ prepared # << >> /\ prepared[1].new /\ prepared[1].epoch = e

BlocksInv ==
  /\ BlocksTypeOK /\ SaveGoesOn /\ QueryGoesOn /\ FirstIsMade
  /\ StoredIsWhole /\ AnswerIsWhole

(* The epoch of a slot and the next one have a schema.                      *)
LEMMA EpochsOfSlots ==
  ASSUME NEW s \in BlockSlot
  PROVE  EpochAt(s) \in SchemaEpoch /\ EpochAt(s) + 1 \in SchemaEpoch /\ EpochAt(s) \in Int
<1>1. EpochAt(s) \in Int
  BY BlocksAssumption DEF EpochAt
<1>2. EpochAt(s) + 0 \in SchemaEpoch /\ EpochAt(s) + 1 \in SchemaEpoch
  BY DEF SchemaEpoch
<1> QED BY <1>1, <1>2

LEMMA BlocksInitInv == BlocksInit => BlocksInv
<1> SUFFICES ASSUME BlocksInit PROVE BlocksInv
  OBVIOUS
<1> USE DEF BlocksInit, NoSave, NoQuery
<1>1. BlocksTypeOK
  BY DEF BlocksTypeOK, Complete
<1>2. SaveGoesOn /\ QueryGoesOn /\ StoredIsWhole /\ AnswerIsWhole
  BY DEF SaveGoesOn, QueryGoesOn, StoredIsWhole, AnswerIsWhole
<1>3. FirstIsMade
  BY DEF FirstIsMade
<1> QED BY <1>1, <1>2, <1>3 DEF BlocksInv

------------------------------------------------------------------------------
(* The schemas                                                              *)

LEMMA PrepareInv ==
  ASSUME BlocksInv, NEW s \in BlockSlot, Prepare(s)
  PROVE  BlocksInv'
<1> USE DEF Prepare
<1>1. /\ EpochAt(s) \in SchemaEpoch /\ EpochAt(s) + 1 \in SchemaEpoch
  BY EpochsOfSlots
<1>2. BlocksTypeOK'
  BY <1>1 DEF BlocksInv, BlocksTypeOK, PreparedEpoch
<1>3. SaveGoesOn' /\ QueryGoesOn' /\ StoredIsWhole' /\ AnswerIsWhole'
  BY DEF BlocksInv, SaveGoesOn, QueryGoesOn, StoredIsWhole, AnswerIsWhole, Whole
<1>4. FirstIsMade'
  BY DEF BlocksInv, FirstIsMade
<1> QED BY <1>2, <1>3, <1>4 DEF BlocksInv

LEMMA StatementInv ==
  ASSUME BlocksInv, Statement
  PROVE  BlocksInv'
<1> DEFINE p == Head(prepared)
           done == statements[p.epoch]
<1>1. /\ prepared \in Seq(PreparedEpoch) /\ prepared # << >>
      /\ p = prepared[1] /\ p \in PreparedEpoch
      /\ 1 \in DOMAIN prepared
      /\ DOMAIN Tail(prepared) = 1 .. Len(prepared) - 1
      /\ \A i \in DOMAIN Tail(prepared) : /\ Tail(prepared)[i] = prepared[i + 1]
                                          /\ i + 1 \in DOMAIN prepared /\ i + 1 # 1
      /\ Tail(prepared) \in Seq(PreparedEpoch)
  BY DEF Statement, BlocksInv, BlocksTypeOK
<1>2. p.epoch \in SchemaEpoch /\ p.new \in BOOLEAN /\ done \in 0 .. Complete
  BY <1>1 DEF PreparedEpoch, BlocksInv, BlocksTypeOK
<1>3. p.new => done \in 1 .. Complete - 1
  BY <1>1 DEF BlocksInv, FirstIsMade
<1>4. \A i \in DOMAIN Tail(prepared) : ~ Tail(prepared)[i].new
  BY <1>1 DEF BlocksInv, FirstIsMade
<1>5. SaveGoesOn' /\ QueryGoesOn' /\ StoredIsWhole' /\ AnswerIsWhole'
  BY DEF Statement, BlocksInv, SaveGoesOn, QueryGoesOn, StoredIsWhole, AnswerIsWhole, Whole
<1>6. CASE done > 0 /\ ~ p.new
  <2>1. prepared' = Tail(prepared) /\ statements' = statements /\ cut' = cut
    BY <1>6 DEF Statement
  <2>2. BlocksTypeOK'
    BY <2>1, <1>1 DEF Statement, BlocksInv, BlocksTypeOK
  <2>3. FirstIsMade'
    BY <2>1, <1>1, <1>4, <1>6 DEF BlocksInv, FirstIsMade
  <2> QED BY <2>2, <2>3, <1>5 DEF BlocksInv
<1>7. CASE ~ (done > 0 /\ ~ p.new)
  <2>1. done \in 0 .. Complete - 1
    BY <1>2, <1>3, <1>7 DEF Complete
  <2>2. statements' = [statements EXCEPT ![p.epoch] = @ + 1] /\ cut' = cut
    BY <1>7 DEF Statement
  <2>3. /\ statements' \in [SchemaEpoch -> 0 .. Complete]
        /\ statements'[p.epoch] = done + 1
        /\ \A e \in SchemaEpoch \ {p.epoch} : statements'[e] = statements[e]
    BY <2>1, <2>2, <1>2 DEF BlocksInv, BlocksTypeOK, Complete
  <2>4. CASE done + 1 = Complete
    <3>1. prepared' = Tail(prepared)
      BY <2>4, <1>7 DEF Statement
    <3>2. BlocksTypeOK'
      BY <3>1, <1>1, <2>3 DEF Statement, BlocksInv, BlocksTypeOK
    <3>3. FirstIsMade'
      BY <3>1, <1>1, <1>4, <2>2, <2>3, <2>4 DEF BlocksInv, FirstIsMade
    <3> QED BY <3>2, <3>3, <1>5 DEF BlocksInv
  <2>5. CASE done + 1 # Complete
    <3> DEFINE q == [p EXCEPT !.new = TRUE]
    <3>1. prepared' = [prepared EXCEPT ![1] = q]
      BY <2>5, <1>1, <1>7 DEF Statement
    <3>2. q \in PreparedEpoch /\ q.new /\ q.epoch = p.epoch
      BY <1>1 DEF PreparedEpoch
    <3> HIDE DEF q
    <3>3. /\ prepared' \in Seq(PreparedEpoch) /\ DOMAIN prepared' = DOMAIN prepared
          /\ prepared'[1] = q /\ \A i \in DOMAIN prepared \ {1} : prepared'[i] = prepared[i]
      BY <3>1, <3>2, <1>1
    <3>4. BlocksTypeOK'
      BY <3>3, <2>3 DEF Statement, BlocksInv, BlocksTypeOK
    <3>5. done + 1 \in 1 .. Complete - 1
      BY <2>1, <2>5 DEF Complete
    <3>6. \A i \in DOMAIN prepared' : prepared'[i].new =>
            i = 1 /\ statements'[prepared'[i].epoch] \in 1 .. Complete - 1
      BY <3>2, <3>3, <3>5, <2>3 DEF BlocksInv, FirstIsMade
    <3>7. prepared' # << >> /\ prepared'[1].new /\ prepared'[1].epoch = p.epoch
      BY <3>2, <3>3, <1>1
    <3>8. FirstIsMade'
      BY <3>6, <3>7, <1>1, <2>2, <2>3 DEF BlocksInv, FirstIsMade
    <3> QED BY <3>4, <3>8, <1>5 DEF BlocksInv
  <2> QED BY <2>4, <2>5
<1> QED BY <1>6, <1>7

------------------------------------------------------------------------------
(* Saves                                                                    *)

(* The schemas are as they were when a step leaves them.                    *)
LEMMA SchemasStay ==
  ASSUME FirstIsMade, statements' = statements, prepared' = prepared, cut' = cut
  PROVE  FirstIsMade'
BY DEF FirstIsMade

(* The record of a save, and what a step makes of it.                       *)
SaveRecord ==
  [at : {"idle", "block", "chunks", "rows", "stuck"}, slot : BlockSlot \cup {-1},
   chunks : SUBSET Chunk, failed : BOOLEAN]

LEMMA SaveInv ==
  ASSUME BlocksInv, NEW s \in BlockSlot, Save(s)
  PROVE  BlocksInv'
<1>1. s # -1
  BY BlocksAssumption
<1>2. /\ save = NoSave /\ save.slot = -1
      /\ save' \in SaveRecord /\ save'.slot = s /\ save'.at \in {"block", "stuck"}
      /\ UNCHANGED <<statements, blocks, rows, prepared, open, asking, cut>>
  BY DEF Save, NoSave, SaveRecord
<1>3. BlocksTypeOK'
  BY <1>2 DEF BlocksInv, BlocksTypeOK, SaveRecord
<1>4. \A r \in blocks : r \in BlockSlot /\ (rows[r] = Chunk \/ r \in cut.slot)
  <2> TAKE r \in blocks
  <2>1. r \in BlockSlot /\ r # -1
    BY BlocksAssumption DEF BlocksInv, BlocksTypeOK
  <2> QED BY <1>2, <2>1 DEF BlocksInv, StoredIsWhole, Whole
<1>5. SaveGoesOn' /\ StoredIsWhole'
  BY <1>2, <1>4 DEF SaveGoesOn, StoredIsWhole, Whole
<1>6. QueryGoesOn' /\ AnswerIsWhole' /\ FirstIsMade'
  BY <1>2, SchemasStay DEF BlocksInv, QueryGoesOn, AnswerIsWhole
<1> QED BY <1>3, <1>5, <1>6 DEF BlocksInv

LEMMA InsertBlockInv ==
  ASSUME BlocksInv, InsertBlock
  PROVE  BlocksInv'
<1>1. /\ save.slot \in BlockSlot /\ save \in SaveRecord /\ save.at = "block"
      /\ UNCHANGED <<statements, rows, prepared, open, asking, cut>>
  BY DEF InsertBlock, BlocksInv, BlocksTypeOK, SaveRecord
<1>2. QueryGoesOn' /\ AnswerIsWhole' /\ FirstIsMade'
  BY <1>1, SchemasStay DEF BlocksInv, QueryGoesOn, AnswerIsWhole
<1>3. CASE save.slot \in blocks
  <2>1. save' = NoSave /\ blocks' = blocks
    BY <1>3 DEF InsertBlock
  <2>2. BlocksTypeOK'
    BY <1>1, <2>1 DEF BlocksInv, BlocksTypeOK, NoSave
  <2>3. SaveGoesOn' /\ StoredIsWhole'
    BY <1>1, <2>1 DEF BlocksInv, SaveGoesOn, StoredIsWhole, Whole, NoSave
  <2> QED BY <1>2, <2>2, <2>3 DEF BlocksInv
<1>4. CASE save.slot \notin blocks
  <2>1. save' = [save EXCEPT !.at = "chunks"] /\ blocks' = blocks \cup {save.slot}
    BY <1>4 DEF InsertBlock
  <2>2. save' \in SaveRecord /\ save'.at = "chunks" /\ save'.slot = save.slot
    BY <1>1, <2>1 DEF SaveRecord
  <2>3. BlocksTypeOK'
    BY <1>1, <2>1, <2>2 DEF BlocksInv, BlocksTypeOK, SaveRecord
  <2>4. SaveGoesOn' /\ StoredIsWhole'
    BY <1>1, <2>1, <2>2 DEF BlocksInv, SaveGoesOn, StoredIsWhole, Whole
  <2> QED BY <1>2, <2>3, <2>4 DEF BlocksInv
<1> QED BY <1>3, <1>4

(* A row that went in without an answer counts as cut.                      *)
LEMMA BlockFailsInv ==
  ASSUME BlocksInv, NEW stored \in BOOLEAN, BlockFails(stored)
  PROVE  BlocksInv'
<1>1. /\ save.at = "block" /\ save' = NoSave /\ save.slot \in BlockSlot
      /\ UNCHANGED <<statements, rows, prepared, open, asking>>
  BY DEF BlockFails, BlocksInv, BlocksTypeOK
<1>2. CASE ~ stored
  <2>1. UNCHANGED <<blocks, cut>>
    BY <1>2 DEF BlockFails
  <2>2. BlocksTypeOK'
    BY <1>1, <2>1 DEF BlocksInv, BlocksTypeOK, NoSave
  <2>3. SaveGoesOn' /\ StoredIsWhole'
    BY <1>1, <2>1 DEF BlocksInv, SaveGoesOn, StoredIsWhole, Whole, NoSave
  <2>4. QueryGoesOn' /\ AnswerIsWhole' /\ FirstIsMade'
    BY <1>1, <2>1, SchemasStay DEF BlocksInv, QueryGoesOn, AnswerIsWhole
  <2> QED BY <2>2, <2>3, <2>4 DEF BlocksInv
<1>3. CASE stored
  <2>1. /\ blocks' = blocks \cup {save.slot} /\ save.slot \notin blocks
        /\ cut' = [cut EXCEPT !.slot = @ \cup {save.slot}]
    BY <1>3 DEF BlockFails
  <2>2. /\ cut' \in [epoch : SUBSET SchemaEpoch, slot : SUBSET BlockSlot]
        /\ cut'.epoch = cut.epoch /\ cut'.slot = cut.slot \cup {save.slot}
    BY <1>1, <2>1 DEF BlocksInv, BlocksTypeOK
  <2>3. BlocksTypeOK'
    BY <1>1, <2>1, <2>2 DEF BlocksInv, BlocksTypeOK, NoSave
  <2>4. SaveGoesOn' /\ StoredIsWhole'
    BY <1>1, <2>1, <2>2 DEF BlocksInv, SaveGoesOn, StoredIsWhole, Whole, NoSave
  <2>5. QueryGoesOn' /\ AnswerIsWhole'
    BY <1>1 DEF BlocksInv, QueryGoesOn, AnswerIsWhole
  <2>6. FirstIsMade'
    BY <1>1, <2>2 DEF BlocksInv, FirstIsMade
  <2> QED BY <2>3, <2>4, <2>5, <2>6 DEF BlocksInv
<1> QED BY <1>2, <1>3

LEMMA ChunksInv ==
  ASSUME BlocksInv, Chunks
  PROVE  BlocksInv'
<1>1. /\ save.slot \in BlockSlot /\ save \in SaveRecord /\ save.at = "chunks"
      /\ UNCHANGED <<statements, blocks, rows, prepared, open, asking, cut>>
  BY DEF Chunks, BlocksInv, BlocksTypeOK, SaveRecord
<1>2. /\ save' \in SaveRecord /\ save'.slot = save.slot /\ save'.at \in {"rows", "stuck"}
      /\ save'.at = "rows" => save'.chunks = Chunk
  BY <1>1 DEF Chunks, SaveRecord
<1>3. BlocksTypeOK'
  BY <1>1, <1>2 DEF BlocksInv, BlocksTypeOK, SaveRecord
<1>4. rows[save.slot] \subseteq Chunk
  BY <1>1 DEF BlocksInv, BlocksTypeOK
<1>5. SaveGoesOn' /\ StoredIsWhole'
  BY <1>1, <1>2, <1>4 DEF BlocksInv, SaveGoesOn, StoredIsWhole, Whole
<1>6. QueryGoesOn' /\ AnswerIsWhole' /\ FirstIsMade'
  BY <1>1, SchemasStay DEF BlocksInv, QueryGoesOn, AnswerIsWhole
<1> QED BY <1>3, <1>5, <1>6 DEF BlocksInv

LEMMA SaveTransactionsInv ==
  ASSUME BlocksInv, NEW c \in Chunk, SaveTransactions(c)
  PROVE  BlocksInv'
<1> DEFINE s == save.slot
<1>1. /\ s \in BlockSlot /\ save.at = "rows" /\ c \in save.chunks /\ save.chunks \subseteq Chunk
      /\ rows \in [BlockSlot -> SUBSET Chunk]
      /\ blocks' = blocks /\ cut' = cut /\ asking' = asking
      /\ statements' = statements /\ prepared' = prepared /\ open' = open
  BY DEF SaveTransactions, BlocksInv, BlocksTypeOK
<1> DEFINE S == [at : {"idle", "block", "chunks", "rows", "stuck"}, slot : BlockSlot \cup {-1},
                 chunks : SUBSET Chunk, failed : BOOLEAN]
           less == [save EXCEPT !.chunks = @ \ {c}]
           failing == [save EXCEPT !.chunks = @ \ {c}, !.failed = TRUE]
<1>2. /\ save'.slot = s /\ save'.at = "rows" /\ save'.chunks = save.chunks \ {c} /\ save' \in S
      /\ ~ save'.failed => ~ save.failed /\ rows' = [rows EXCEPT ![s] = @ \cup {c}]
  <2>1. save \in S
    BY DEF BlocksInv, BlocksTypeOK
  <2>2. /\ less \in S /\ less.slot = s /\ less.at = "rows" /\ less.chunks = save.chunks \ {c}
        /\ less.failed = save.failed
    BY <2>1, <1>1
  <2>3. /\ failing \in S /\ failing.slot = s /\ failing.at = "rows"
        /\ failing.chunks = save.chunks \ {c} /\ failing.failed
    BY <2>1, <1>1
  <2>4. \/ save' = less /\ rows' = [rows EXCEPT ![s] = @ \cup {c}]
        \/ save' = failing
    BY DEF SaveTransactions
  <2> HIDE DEF S, less, failing
  <2> QED BY <2>2, <2>3, <2>4
<1>3. /\ rows' \in [BlockSlot -> SUBSET Chunk]
      /\ \A r \in BlockSlot : rows[r] \subseteq rows'[r] /\ rows[r] \subseteq Chunk /\ rows'[r] \subseteq Chunk
      /\ \A r \in BlockSlot \ {s} : rows'[r] = rows[r]
  BY <1>1 DEF SaveTransactions
<1>4. BlocksTypeOK'
  BY <1>1, <1>2, <1>3 DEF BlocksInv, BlocksTypeOK
<1>5. SaveGoesOn'
  BY <1>1, <1>2, <1>3 DEF BlocksInv, SaveGoesOn
<1>6. QueryGoesOn'
  <2> SUFFICES ASSUME asking.at = "chunks", asking.whole PROVE rows'[asking.slot] = Chunk
    BY <1>1 DEF QueryGoesOn
  <2>1. asking.slot \in BlockSlot /\ rows[asking.slot] = Chunk
    BY DEF BlocksInv, BlocksTypeOK, QueryGoesOn
  <2>2. rows[asking.slot] \subseteq rows'[asking.slot] /\ rows'[asking.slot] \subseteq Chunk
    BY <2>1, <1>3
  <2> QED BY <2>1, <2>2
<1>7. StoredIsWhole'
  BY <1>1, <1>2, <1>3 DEF BlocksInv, BlocksTypeOK, StoredIsWhole, Whole
<1>8. AnswerIsWhole' /\ FirstIsMade'
  BY <1>1, SchemasStay DEF BlocksInv, AnswerIsWhole
<1> QED BY <1>4, <1>5, <1>6, <1>7, <1>8 DEF BlocksInv

LEMMA SavedInv ==
  ASSUME BlocksInv, Saved
  PROVE  BlocksInv'
<1>1. /\ save.at = "rows" /\ save.chunks = {} /\ ~ save.failed /\ save' = NoSave
      /\ UNCHANGED <<statements, blocks, rows, prepared, open, asking, cut>>
  BY DEF Saved, AllSaved
<1>2. BlocksTypeOK'
  BY <1>1 DEF BlocksInv, BlocksTypeOK, NoSave
<1>3. rows[save.slot] = Chunk
  BY <1>1 DEF BlocksInv, SaveGoesOn
<1>4. SaveGoesOn' /\ StoredIsWhole'
  BY <1>1, <1>3 DEF BlocksInv, SaveGoesOn, StoredIsWhole, Whole, NoSave
<1>5. QueryGoesOn' /\ AnswerIsWhole' /\ FirstIsMade'
  BY <1>1, SchemasStay DEF BlocksInv, QueryGoesOn, AnswerIsWhole
<1> QED BY <1>2, <1>4, <1>5 DEF BlocksInv

LEMMA SessionClosesInv ==
  ASSUME BlocksInv, NEW c \in Chunk, SessionCloses(c)
  PROVE  BlocksInv'
<1> USE DEF SessionCloses
<1>1. BlocksTypeOK'
  BY DEF BlocksInv, BlocksTypeOK
<1>2. SaveGoesOn' /\ QueryGoesOn' /\ AnswerIsWhole' /\ FirstIsMade' /\ StoredIsWhole'
  BY SchemasStay
  DEF BlocksInv, SaveGoesOn, QueryGoesOn, AnswerIsWhole, StoredIsWhole, Whole
<1> QED BY <1>1, <1>2 DEF BlocksInv

LEMMA RestartInv ==
  ASSUME BlocksInv, Restart
  PROVE  BlocksInv'
<1> USE DEF Restart
<1> DEFINE epochsCut == {prepared[i].epoch : i \in MakesSchema}
<1>1. epochsCut \subseteq SchemaEpoch
  <2>1. prepared \in Seq(PreparedEpoch)
    BY DEF BlocksInv, BlocksTypeOK
  <2>2. \A i \in DOMAIN prepared : prepared[i] \in PreparedEpoch
    BY <2>1
  <2> QED BY <2>2 DEF MakesSchema, PreparedEpoch
<1>2. prepared # << >> /\ prepared[1].new => prepared[1].epoch \in epochsCut
  BY DEF MakesSchema, BlocksInv, BlocksTypeOK
<1>3. /\ cut'.epoch = cut.epoch \cup epochsCut
      /\ cut'.slot = cut.slot \cup {s \in {save.slot} : s \in blocks}
  OBVIOUS
<1> HIDE DEF epochsCut
<1>4. cut' \in [epoch : SUBSET SchemaEpoch, slot : SUBSET BlockSlot]
  BY <1>1 DEF BlocksInv, BlocksTypeOK, epochsCut
<1>5. BlocksTypeOK'
  BY <1>4 DEF BlocksInv, BlocksTypeOK, NoSave, NoQuery
<1>6. SaveGoesOn' /\ QueryGoesOn' /\ AnswerIsWhole'
  BY DEF SaveGoesOn, QueryGoesOn, AnswerIsWhole, NoSave, NoQuery
<1>7. FirstIsMade'
  BY <1>2, <1>3 DEF BlocksInv, FirstIsMade
<1>8. StoredIsWhole'
  BY <1>3 DEF BlocksInv, StoredIsWhole, Whole
<1> QED BY <1>5, <1>6, <1>7, <1>8 DEF BlocksInv

------------------------------------------------------------------------------
(* Queries                                                                  *)

LEMMA QueryInv ==
  ASSUME BlocksInv, NEW s \in BlockSlot, Query(s)
  PROVE  BlocksInv'
<1> USE DEF Query
<1>1. BlocksTypeOK'
  BY DEF BlocksInv, BlocksTypeOK, NoQuery
<1>2. SaveGoesOn' /\ QueryGoesOn' /\ AnswerIsWhole' /\ FirstIsMade' /\ StoredIsWhole'
  BY SchemasStay
  DEF BlocksInv, SaveGoesOn, QueryGoesOn, AnswerIsWhole, StoredIsWhole, Whole, NoQuery
<1> QED BY <1>1, <1>2 DEF BlocksInv

LEMMA QueryReadsInv ==
  ASSUME BlocksInv, NEW part \in {"block", "chunks"}, QueryReads(part)
  PROVE  BlocksInv'
<1> USE DEF QueryReads
<1>1. asking.slot \in BlockSlot
  BY DEF BlocksInv, BlocksTypeOK
<1> DEFINE Q == [at : {"idle", "block", "chunks", "answer"}, slot : BlockSlot \cup {-1},
                 whole : BOOLEAN, chunks : SUBSET Chunk]
<1>2. BlocksTypeOK'
  <2>1. asking \in Q /\ rows[asking.slot] \in SUBSET Chunk /\ Whole(asking.slot) \in BOOLEAN
    BY <1>1 DEF BlocksInv, BlocksTypeOK, Whole
  <2>2. [asking EXCEPT !.chunks = rows[asking.slot], !.at = "answer"] \in Q
    BY <2>1
  <2>3. [asking EXCEPT !.whole = Whole(asking.slot), !.at = "chunks"] \in Q
    BY <2>1
  <2>4. asking' \in Q /\ (asking' = NoQuery \/ asking'.slot = asking.slot)
    <3>1. NoQuery \in Q
      BY DEF NoQuery
    <3> QED BY <2>1, <2>2, <2>3, <3>1
  <2> QED BY <1>1, <2>4 DEF BlocksInv, BlocksTypeOK, NoQuery
<1> HIDE DEF Q
<1>3. SaveGoesOn' /\ FirstIsMade' /\ StoredIsWhole'
  BY SchemasStay DEF BlocksInv, SaveGoesOn, StoredIsWhole, Whole
<1>4. QueryGoesOn' /\ AnswerIsWhole'
  <2> DEFINE s == asking.slot
  <2>1. CASE part = "chunks"
    <3>1. asking' = [asking EXCEPT !.chunks = rows[s], !.at = "answer"]
      BY <2>1
    <3>2. asking'.at = "answer" /\ asking'.chunks = rows[s] /\ asking'.whole = asking.whole
      BY <3>1 DEF BlocksInv, BlocksTypeOK
    <3> QED BY <2>1, <3>2 DEF BlocksInv, QueryGoesOn, AnswerIsWhole
  <2>2. CASE part = "block" /\ s \in blocks
    <3>1. asking' = [asking EXCEPT !.whole = Whole(s), !.at = "chunks"]
      BY <2>2
    <3>2. asking'.at = "chunks" /\ asking'.slot = s /\ asking'.whole = Whole(s)
      BY <3>1 DEF BlocksInv, BlocksTypeOK
    <3> QED BY <2>2, <3>2 DEF BlocksInv, StoredIsWhole, QueryGoesOn, AnswerIsWhole
  <2>3. CASE part = "block" /\ s \notin blocks
    BY <2>3 DEF QueryGoesOn, AnswerIsWhole, NoQuery
  <2> QED BY <2>1, <2>2, <2>3
<1> QED BY <1>2, <1>3, <1>4 DEF BlocksInv

LEMMA AnswerQueryInv ==
  ASSUME BlocksInv, AnswerQuery
  PROVE  BlocksInv'
<1> USE DEF AnswerQuery, NoQuery
<1>1. BlocksTypeOK'
  BY DEF BlocksInv, BlocksTypeOK
<1>2. SaveGoesOn' /\ QueryGoesOn' /\ AnswerIsWhole' /\ FirstIsMade' /\ StoredIsWhole'
  BY SchemasStay
  DEF BlocksInv, SaveGoesOn, QueryGoesOn, AnswerIsWhole, StoredIsWhole, Whole
<1> QED BY <1>1, <1>2 DEF BlocksInv

------------------------------------------------------------------------------
(* Theorems                                                                 *)

(* Schemas, saves, queries and what was cut agree in every reachable state, *)
(* for any slots, epochs and sessions.                                      *)
THEOREM BlocksInvariant == BlocksSpec => []BlocksInv
<1>1. BlocksInit => BlocksInv
  BY BlocksInitInv
<1>2. BlocksInv /\ [BlocksNext]_blockstoreVars => BlocksInv'
  <2> SUFFICES ASSUME BlocksInv, [BlocksNext]_blockstoreVars PROVE BlocksInv'
    OBVIOUS
  <2>1. CASE \E s \in BlockSlot : Prepare(s) \/ Save(s) \/ Query(s)
    BY <2>1, PrepareInv, SaveInv, QueryInv
  <2>2. CASE \E c \in Chunk : SaveTransactions(c) \/ SessionCloses(c)
    BY <2>2, SaveTransactionsInv, SessionClosesInv
  <2>3. CASE Statement \/ InsertBlock \/ Chunks \/ Saved \/ Restart
    BY <2>3, StatementInv, InsertBlockInv, ChunksInv, SavedInv, RestartInv
  <2>4. CASE \E part \in {"block", "chunks"} : QueryReads(part)
    BY <2>4, QueryReadsInv
  <2>5. CASE AnswerQuery
    BY <2>5, AnswerQueryInv
  <2>6. CASE \E stored \in BOOLEAN : BlockFails(stored)
    BY <2>6, BlockFailsInv
  <2>7. CASE UNCHANGED blockstoreVars
    BY <2>7 DEF blockstoreVars, BlocksInv, BlocksTypeOK, SaveGoesOn, QueryGoesOn, FirstIsMade,
         StoredIsWhole, AnswerIsWhole, Whole
  <2> QED BY <2>1, <2>2, <2>3, <2>4, <2>5, <2>6, <2>7 DEF BlocksNext
<1> QED BY <1>1, <1>2, PTL DEF BlocksSpec

(* save_block, query_block, prepare_epoch_schema: whatever is interleaved,  *)
(* wherever the process ends and whichever answers of Postgres are lost, a  *)
(* block in the store and the answer to a query lack transactions, and a    *)
(* schema lacks tables, only when what makes them is at work, or was cut by *)
(* the end of the process or by a lost answer to the insert of the block.   *)
THEOREM BlocksStayWhole == BlocksSpec => []BlocksAreWhole
<1>1. BlocksInv => SchemasAreComplete
  BY DEF BlocksInv, BlocksTypeOK, FirstIsMade, SchemasAreComplete
<1>2. BlocksInv => BlocksAreWhole
  BY <1>1 DEF BlocksInv, BlocksAreWhole
<1> QED BY <1>2, BlocksInvariant, PTL

------------------------------------------------------------------------------
(* PubSub                                                                   *)

ClientsTypeOK ==
  /\ signatureSubscribers \in [Signature -> [client : Client \cup {Nobody}, age : Nat]]
  /\ notifying \in Client \cup {Nobody}
  /\ asked \in [Client -> Signature \cup {Nobody}]
  /\ told \in [Client -> Nat]

(* A client waits for the one signature it has subscribed to.               *)
WaitsForAsked ==
  \A s \in Signature : LET c == signatureSubscribers[s].client
                       IN  c # Nobody => asked[c] = s

(* Of a client there is an entry, or its notification is under way, or it   *)
(* has been told.                                                           *)
OneNotice ==
  \A c \in Client :
    /\ told[c] <= 1
    /\ asked[c] = Nobody => told[c] = 0 /\ notifying # c
    /\ told[c] = 1 => notifying # c
    /\ \A s \in Signature : signatureSubscribers[s].client = c => told[c] = 0 /\ notifying # c

ClientsInv == ClientsTypeOK /\ WaitsForAsked /\ OneNotice

LEMMA ClientsInitInv == ClientsInit => ClientsInv
BY ClientsAssumption
DEF ClientsInit, ClientsInv, ClientsTypeOK, WaitsForAsked, OneNotice, NoClient

LEMMA SignatureSubscribeKeeps ==
  ASSUME ClientsInv, NEW c \in Client, NEW s \in Signature, SignatureSubscribe(c, s)
  PROVE  ClientsInv'
<1>1. /\ asked[c] = Nobody /\ c # Nobody /\ s # Nobody
      /\ asked' = [asked EXCEPT ![c] = s]
      /\ signatureSubscribers' = [signatureSubscribers EXCEPT ![s] = [client |-> c, age |-> 0]]
      /\ UNCHANGED <<notifying, told>>
  BY ClientsAssumption DEF SignatureSubscribe
<1>2. ClientsTypeOK'
  BY <1>1 DEF ClientsInv, ClientsTypeOK
<1>3. /\ signatureSubscribers'[s].client = c
      /\ \A r \in Signature \ {s} : signatureSubscribers'[r] = signatureSubscribers[r]
      /\ asked'[c] = s /\ \A d \in Client \ {c} : asked'[d] = asked[d]
  BY <1>1 DEF ClientsInv, ClientsTypeOK
<1>4. \A r \in Signature : signatureSubscribers[r].client \in Client \cup {Nobody}
  BY DEF ClientsInv, ClientsTypeOK
<1>5. \A r \in Signature : signatureSubscribers[r].client # c
  BY <1>1, <1>4, ClientsAssumption DEF ClientsInv, WaitsForAsked
<1>6. WaitsForAsked'
  BY <1>1, <1>3, <1>4, <1>5 DEF ClientsInv, WaitsForAsked
<1>7. OneNotice'
  BY <1>1, <1>3 DEF ClientsInv, OneNotice
<1> QED BY <1>2, <1>6, <1>7 DEF ClientsInv

LEMMA NotifyKeeps ==
  ASSUME ClientsInv, NEW s \in Signature, Notify(s)
  PROVE  ClientsInv'
<1> DEFINE c == signatureSubscribers[s].client
<1>1. /\ notifying = Nobody /\ notifying' = c
      /\ signatureSubscribers' = [signatureSubscribers EXCEPT ![s] = NoClient]
      /\ UNCHANGED <<asked, told>>
      /\ c \in Client \cup {Nobody} /\ NoClient.client = Nobody
  BY DEF Notify, NoClient, ClientsInv, ClientsTypeOK
<1>2. ClientsTypeOK'
  BY <1>1 DEF ClientsInv, ClientsTypeOK, NoClient
<1>3. /\ signatureSubscribers'[s].client = Nobody
      /\ \A r \in Signature \ {s} : signatureSubscribers'[r] = signatureSubscribers[r]
  BY <1>1 DEF ClientsInv, ClientsTypeOK
<1>4. WaitsForAsked'
  BY <1>1, <1>3 DEF ClientsInv, WaitsForAsked
<1>5. OneNotice'
  <2> SUFFICES ASSUME NEW d \in Client
               PROVE  /\ told[d] <= 1
                      /\ asked[d] = Nobody => told[d] = 0 /\ c # d
                      /\ told[d] = 1 => c # d
                      /\ \A r \in Signature : signatureSubscribers'[r].client = d => told[d] = 0 /\ c # d
    BY <1>1 DEF OneNotice
  <2>1. d # Nobody
    BY ClientsAssumption
  <2>2. c = d => asked[d] = s /\ told[d] = 0
    BY <2>1 DEF ClientsInv, WaitsForAsked, OneNotice
  <2>3. s # Nobody
    BY ClientsAssumption
  <2>4. ASSUME NEW r \in Signature, signatureSubscribers'[r].client = d PROVE told[d] = 0 /\ c # d
    <3>1. r # s /\ signatureSubscribers[r].client = d
      BY <2>4, <2>1, <1>3
    <3>2. asked[d] = r /\ told[d] = 0
      BY <3>1, <2>1 DEF ClientsInv, WaitsForAsked, OneNotice
    <3> QED BY <3>1, <3>2, <2>2
  <2> QED BY <2>2, <2>3, <2>4 DEF ClientsInv, OneNotice
<1> QED BY <1>2, <1>4, <1>5 DEF ClientsInv

LEMMA NotifiedKeeps ==
  ASSUME ClientsInv, Notified
  PROVE  ClientsInv'
<1>1. /\ notifying \in Client /\ notifying' = Nobody
      /\ told' = [told EXCEPT ![notifying] = @ + 1]
      /\ UNCHANGED <<signatureSubscribers, asked>>
  BY DEF Notified, ClientsInv, ClientsTypeOK
<1>2. ClientsTypeOK'
  BY <1>1 DEF ClientsInv, ClientsTypeOK
<1>3. /\ told'[notifying] = told[notifying] + 1
      /\ \A d \in Client \ {notifying} : told'[d] = told[d]
  BY <1>1 DEF ClientsInv, ClientsTypeOK
<1>4. told[notifying] = 0
  <2>1. told[notifying] \in Nat
    BY <1>1 DEF ClientsInv, ClientsTypeOK
  <2>2. told[notifying] <= 1 /\ told[notifying] # 1
    BY <1>1 DEF ClientsInv, OneNotice
  <2> QED BY <2>1, <2>2
<1>5. WaitsForAsked'
  BY <1>1 DEF ClientsInv, WaitsForAsked
<1>6. OneNotice'
  BY <1>1, <1>3, <1>4, ClientsAssumption DEF ClientsInv, OneNotice
<1> QED BY <1>2, <1>5, <1>6 DEF ClientsInv

LEMMA CleanKeeps ==
  ASSUME ClientsInv, Clean
  PROVE  ClientsInv'
<1>1. /\ UNCHANGED <<notifying, asked, told>>
      /\ signatureSubscribers' = [s \in Signature |->
           IF signatureSubscribers[s] # NoClient /\ Kept(signatureSubscribers[s])
           THEN [signatureSubscribers[s] EXCEPT !.age = @ + 1] ELSE NoClient]
  BY DEF Clean
<1>2. \A s \in Signature : [signatureSubscribers[s] EXCEPT !.age = @ + 1] \in [client : Client \cup {Nobody}, age : Nat]
  BY DEF ClientsInv, ClientsTypeOK
<1>3. ClientsTypeOK'
  BY <1>1, <1>2 DEF ClientsInv, ClientsTypeOK, NoClient
<1>4. \A s \in Signature : \/ signatureSubscribers'[s].client = signatureSubscribers[s].client
                           \/ signatureSubscribers'[s].client = Nobody
  BY <1>1 DEF ClientsInv, ClientsTypeOK, NoClient
<1>5. WaitsForAsked' /\ OneNotice'
  BY <1>1, <1>4, ClientsAssumption DEF ClientsInv, WaitsForAsked, OneNotice
<1> QED BY <1>3, <1>5 DEF ClientsInv

THEOREM ClientsInvariant == ClientsSpec => []ClientsInv
<1>1. ClientsInv /\ [ClientsNext]_pubsubVars => ClientsInv'
  <2> SUFFICES ASSUME ClientsInv, [ClientsNext]_pubsubVars PROVE ClientsInv'
    OBVIOUS
  <2>1. CASE UNCHANGED signatureVars
    BY <2>1 DEF signatureVars, ClientsInv, ClientsTypeOK, WaitsForAsked, OneNotice
  <2>2. CASE \E over \in {k.channel : k \in Kinds}, subject \in Subject : Publish(over, subject)
    BY <2>1, <2>2 DEF Publish
  <2>3. CASE \E t \in Task : Recv(t) \/ Send(t) \/ TimedOut(t)
    BY <2>1, <2>3 DEF Recv, Send, TimedOut, signatureVars
  <2>4. CASE \E c \in Client, s \in Signature : SignatureSubscribe(c, s)
    BY <2>4, SignatureSubscribeKeeps
  <2>5. CASE \E s \in Signature : Notify(s)
    BY <2>5, NotifyKeeps
  <2>6. CASE Notified
    BY <2>6, NotifiedKeeps
  <2>7. CASE Clean
    BY <2>7, CleanKeeps
  <2>8. CASE \E c \in Task \cup Client : Read(c) \/ Close(c)
    BY <2>1, <2>8 DEF Read, Close
  <2>9. CASE UNCHANGED pubsubVars
    BY <2>1, <2>9 DEF pubsubVars, signatureVars
  <2> QED BY <2>2, <2>3, <2>4, <2>5, <2>6, <2>7, <2>8, <2>9 DEF ClientsNext
<1> QED BY <1>1, ClientsInitInv, PTL DEF ClientsSpec

LEMMA ToldOnceHolds ==
  ASSUME ClientsInv
  PROVE  ToldOnce
<1> SUFFICES ASSUME NEW c \in Client
             PROVE  told[c] + (IF \E s \in Signature : signatureSubscribers[s].client = c THEN 1 ELSE 0)
                      + (IF notifying = c THEN 1 ELSE 0) <= (IF asked[c] = Nobody THEN 0 ELSE 1)
  BY DEF ToldOnce
<1>1. told[c] \in Nat /\ c # Nobody
  BY ClientsAssumption DEF ClientsInv, ClientsTypeOK
<1>2. \A s \in Signature : signatureSubscribers[s].client = c => asked[c] # Nobody /\ told[c] = 0 /\ notifying # c
  BY <1>1, ClientsAssumption DEF ClientsInv, WaitsForAsked, OneNotice
<1> QED BY <1>1, <1>2 DEF ClientsInv, OneNotice

------------------------------------------------------------------------------
(* GrpcInspect                                                              *)

InspectTypeOK ==
  /\ saw \in [BlockLevel -> SUBSET Block]
  /\ complete \in [BlockLevel -> SUBSET Block]
  /\ cleanupBefore \in Int /\ oldest \in Int

(* What was forgotten is older than a cleanup point.                        *)
ForgottenIsOld ==
  /\ cleanupBefore <= oldest
  /\ \A c \in BlockLevel, b \in Block :
       /\ b \in saw[c] => b \in complete[c]
       /\ b \in complete[c] => b \in saw[c] \/ SlotOf[b] < oldest

InspectInv == InspectTypeOK /\ ForgottenIsOld /\ WarningsAreJustified

LEMMA InspectInitInv == InspectInit => InspectInv
BY DEF InspectInit, InspectInv, InspectTypeOK, ForgottenIsOld, WarningsAreJustified

LEMMA CleanupPointIsInt ==
  ASSUME NEW s \in Nat
  PROVE  CleanupPoint(s) \in Int
BY InspectAssumption DEF CleanupPoint

(* Warnings go by what was seen of the block.                               *)
LEMMA WarningsAgree ==
  ASSUME NEW b \in Block, NEW c \in BlockLevel,
         NEW f \in [BlockLevel -> SUBSET Block], NEW g \in [BlockLevel -> SUBSET Block],
         \A d \in BlockLevel : b \in f[d] <=> b \in g[d]
  PROVE  Warnings(b, c, f) = Warnings(b, c, g)
<1>1. Before(c) \subseteq BlockLevel /\ After(c) \subseteq BlockLevel
  BY DEF Before, After, BlockLevel
<1>2. {e \in {c} : b \in f[e]} = {e \in {c} : b \in g[e]}
  OBVIOUS
<1>3. {e \in Before(c) : b \notin f[e]} = {e \in Before(c) : b \notin g[e]}
  BY <1>1
<1>4. {e \in After(c) : b \in f[e]} = {e \in After(c) : b \in g[e]}
  BY <1>1
<1> QED BY <1>2, <1>3, <1>4, Zenon DEF Warnings

LEMMA ReceiveBlockKeeps ==
  ASSUME InspectInv, NEW b \in Block, NEW c \in BlockLevel, ReceiveBlock(b, c)
  PROVE  InspectInv'
<1> DEFINE seen == [saw EXCEPT ![c] = @ \cup {b}]
<1>1. /\ warned' = Warnings(b, c, saw)
      /\ due' = [warnings |-> Warnings(b, c, complete), old |-> SlotOf[b] < oldest]
      /\ complete' = [complete EXCEPT ![c] = @ \cup {b}]
  BY DEF ReceiveBlock
<1>2. \A x \in Block : SlotOf[x] \in Nat
  BY InspectAssumption
<1>3. WarningsAreJustified'
  <2> SUFFICES ASSUME ~ (SlotOf[b] < oldest) PROVE Warnings(b, c, saw) = Warnings(b, c, complete)
    BY <1>1 DEF WarningsAreJustified
  <2>1. \A d \in BlockLevel : b \in saw[d] <=> b \in complete[d]
    BY DEF InspectInv, ForgottenIsOld
  <2> QED BY <2>1, WarningsAgree DEF InspectInv, InspectTypeOK
<1>4. /\ complete' \in [BlockLevel -> SUBSET Block] /\ seen \in [BlockLevel -> SUBSET Block]
      /\ \A d \in BlockLevel, x \in Block : /\ x \in complete'[d] <=> x \in complete[d] \/ (x = b /\ d = c)
                                            /\ x \in seen[d] <=> x \in saw[d] \/ (x = b /\ d = c)
  BY <1>1 DEF InspectInv, InspectTypeOK
<1> HIDE DEF seen
<1>5. CASE saw' = seen /\ UNCHANGED <<cleanupBefore, oldest>>
  BY <1>3, <1>4, <1>5 DEF InspectInv, InspectTypeOK, ForgottenIsOld
<1>6. CASE /\ saw' = [d \in BlockLevel |-> {x \in seen[d] : IsKept(x)}]
           /\ cleanupBefore' = CleanupPoint(SlotOf[b])
           /\ oldest' = IF cleanupBefore' > oldest THEN cleanupBefore' ELSE oldest
  <2>1. /\ cleanupBefore' \in Int /\ oldest' \in Int /\ cleanupBefore' <= oldest' /\ oldest <= oldest'
        /\ cleanupBefore \in Int /\ oldest \in Int /\ cleanupBefore <= oldest
    BY <1>2, <1>6, CleanupPointIsInt DEF InspectInv, InspectTypeOK, ForgottenIsOld
  <2>2. /\ saw' \in [BlockLevel -> SUBSET Block]
        /\ \A d \in BlockLevel, x \in Block : x \in saw'[d] <=> x \in seen[d] /\ SlotOf[x] >= cleanupBefore
    BY <1>4, <1>6 DEF IsKept
  <2>3. ForgottenIsOld'
    <3> SUFFICES ASSUME NEW d \in BlockLevel, NEW x \in Block
                 PROVE  /\ x \in saw'[d] => x \in complete'[d]
                        /\ x \in complete'[d] => x \in saw'[d] \/ SlotOf[x] < oldest'
      BY <2>1 DEF ForgottenIsOld
    <3>1. SlotOf[x] \in Nat
      BY <1>2
    <3> QED BY <3>1, <2>1, <2>2, <1>4 DEF InspectInv, ForgottenIsOld
  <2> QED BY <1>3, <1>4, <2>1, <2>2, <2>3 DEF InspectInv, InspectTypeOK
<1> QED BY <1>5, <1>6 DEF ReceiveBlock, Remember, seen

THEOREM InspectInvariant == InspectSpec => []InspectInv
<1>1. InspectInv /\ [InspectNext]_inspectVars => InspectInv'
  <2> SUFFICES ASSUME InspectInv, [InspectNext]_inspectVars PROVE InspectInv'
    OBVIOUS
  <2>1. CASE InspectNext
    BY <2>1, ReceiveBlockKeeps DEF InspectNext
  <2>2. CASE UNCHANGED inspectVars
    BY <2>2 DEF inspectVars, InspectInv, InspectTypeOK, ForgottenIsOld, WarningsAreJustified
  <2> QED BY <2>1, <2>2
<1> QED BY <1>1, InspectInitInv, PTL DEF InspectSpec

------------------------------------------------------------------------------
(* TransactionLog                                                           *)

Notes == Seq(Transaction)

LogTypeOK ==
  /\ forwards \in [Transaction -> Nat]
  /\ notes \in Notes
  /\ channel \in Seq(Notes)
  /\ batch \in Notes
  /\ table \in [Transaction -> Nat]
  /\ again \in [Transaction -> Nat]

SentIsFinite == \A t \in Transaction : IsFiniteSet(Sent(t))

LogInv == LogTypeOK /\ SentIsFinite /\ LoggedOnce

(* Sets with a bijection between them have as many elements.                *)
LEMMA SameSize ==
  ASSUME NEW S, NEW T, IsFiniteSet(S), NEW f \in [S -> T],
         \A x, y \in S : f[x] = f[y] => x = y,
         \A y \in T : \E x \in S : f[x] = y
  PROVE  IsFiniteSet(T) /\ Cardinality(T) = Cardinality(S)
<1>1. f \in Bijection(S, T)
  BY DEF Bijection, Injection, Surjection, IsInjective
<1>2. ExistsBijection(S, T)
  BY <1>1 DEF ExistsBijection
<1> QED BY <1>2, FS_Bijection

(* Disjoint sets together have the sum of their elements.                   *)
LEMMA SizesAdd ==
  ASSUME NEW S, NEW T, IsFiniteSet(S), IsFiniteSet(T), S \cap T = {}
  PROVE  IsFiniteSet(S \cup T) /\ Cardinality(S \cup T) = Cardinality(S) + Cardinality(T)
<1>1. Cardinality(S) \in Nat /\ Cardinality(T) \in Nat /\ Cardinality({}) = 0
  BY FS_CardinalityType, FS_EmptySet
<1>2. /\ IsFiniteSet(S \cup T)
      /\ Cardinality(S \cup T) = Cardinality(S) + Cardinality(T) - Cardinality(S \cap T)
  BY FS_Union
<1>3. Cardinality(S \cap T) = 0
  BY <1>1
<1> QED BY <1>1, <1>2, <1>3

LEMMA PlacesAreFinite ==
  ASSUME NEW s \in Notes, NEW t
  PROVE  IsFiniteSet(Places(s, t)) /\ Count(s, t) \in Nat
<1>1. Len(s) \in Nat /\ DOMAIN s = 1 .. Len(s)
  BY DEF Notes
<1>2. IsFiniteSet(1 .. Len(s))
  BY <1>1, FS_Interval
<1>3. Places(s, t) \subseteq 1 .. Len(s)
  BY <1>1 DEF Places
<1>4. IsFiniteSet(Places(s, t))
  BY <1>2, <1>3, FS_Subset
<1> QED BY <1>4, FS_CardinalityType DEF Count

LEMMA CountEmpty ==
  ASSUME NEW t
  PROVE  Count(<< >>, t) = 0
<1>1. Places(<< >>, t) = {}
  BY DEF Places
<1> QED BY <1>1, FS_EmptySet DEF Count

LEMMA CountAppend ==
  ASSUME NEW s \in Notes, NEW x \in Transaction, NEW t
  PROVE  Count(Append(s, x), t) = Count(s, t) + (IF x = t THEN 1 ELSE 0)
<1> DEFINE n == Len(s)
           more == IF x = t THEN {n + 1} ELSE {}
<1>1. n \in Nat /\ Append(s, x) \in Notes
  BY DEF Notes
<1>2. /\ \A i \in 1 .. n : Append(s, x)[i] = s[i]
      /\ Append(s, x)[n + 1] = x /\ DOMAIN Append(s, x) = 1 .. n + 1 /\ DOMAIN s = 1 .. n
  BY DEF Notes
<1> HIDE DEF n
<1>3. Places(Append(s, x), t) = Places(s, t) \cup more
  BY <1>1, <1>2 DEF Places
<1>4. Places(s, t) \cap more = {}
  BY <1>1, <1>2 DEF Places
<1>5. IsFiniteSet(more) /\ Cardinality(more) = IF x = t THEN 1 ELSE 0
  BY FS_Singleton, FS_EmptySet
<1> HIDE DEF more
<1> QED BY <1>3, <1>4, <1>5, PlacesAreFinite, SizesAdd DEF Count

LEMMA CountConcat ==
  ASSUME NEW s \in Notes, NEW r \in Notes, NEW t
  PROVE  Count(s \o r, t) = Count(s, t) + Count(r, t)
<1> DEFINE m == Len(s)
           n == Len(r)
           w == s \o r
           moved == {i \in m + 1 .. m + n : w[i] = t}
           f == [j \in Places(r, t) |-> m + j]
<1>1. /\ m \in Nat /\ n \in Nat
      /\ DOMAIN s = 1 .. m /\ DOMAIN r = 1 .. n /\ DOMAIN w = 1 .. m + n
      /\ \A i \in 1 .. m : w[i] = s[i]
      /\ \A j \in 1 .. n : w[m + j] = r[j]
  BY DEF Notes
<1> HIDE DEF m, n, w
<1>2. Places(w, t) = Places(s, t) \cup moved /\ Places(s, t) \cap moved = {}
  BY <1>1 DEF Places
<1>3. f \in [Places(r, t) -> moved]
  BY <1>1 DEF Places
<1>4. \A x, y \in Places(r, t) : f[x] = f[y] => x = y
  BY <1>1 DEF Places
<1>5. \A y \in moved : \E x \in Places(r, t) : f[x] = y
  <2> TAKE y \in moved
  <2>1. y - m \in Places(r, t) /\ y = m + (y - m)
    BY <1>1 DEF Places
  <2> QED BY <2>1
<1> HIDE DEF f, moved
<1>6. IsFiniteSet(moved) /\ Cardinality(moved) = Count(r, t)
  BY <1>3, <1>4, <1>5, SameSize, PlacesAreFinite DEF Count
<1> QED BY <1>2, <1>6, PlacesAreFinite, SizesAdd DEF Count, w

(* A message more.                                                          *)
LEMMA SentAppend ==
  ASSUME LogTypeOK, SentIsFinite, NEW t \in Transaction, channel' = Append(channel, notes)
  PROVE  IsFiniteSet(Sent(t)') /\ Cardinality(Sent(t)') = Cardinality(Sent(t)) + Count(notes, t)
<1> DEFINE n == Len(channel)
           last == {n + 1} \X Places(notes, t)
<1>1. /\ n \in Nat /\ DOMAIN channel = 1 .. n /\ DOMAIN channel' = 1 .. n + 1
      /\ \A i \in 1 .. n : channel'[i] = channel[i]
      /\ channel'[n + 1] = notes
  BY DEF LogTypeOK
<1> HIDE DEF n
<1>2. Sent(t)' = Sent(t) \cup last
  <2>1. Sent(t)' = UNION {{i} \X Places(channel'[i], t) : i \in DOMAIN channel'}
    BY DEF Sent, Places
  <2>2. ASSUME NEW p PROVE p \in Sent(t)' <=> p \in Sent(t) \cup last
    <3>1. p \in Sent(t)' <=> \E i \in 1 .. n + 1 : p \in {i} \X Places(channel'[i], t)
      BY <2>1, <1>1
    <3>2. p \in Sent(t) <=> \E i \in 1 .. n : p \in {i} \X Places(channel[i], t)
      BY <1>1 DEF Sent
    <3>3. \A i \in 1 .. n + 1 : i \in 1 .. n \/ i = n + 1
      BY <1>1
    <3>4. n + 1 \in 1 .. n + 1 /\ \A i \in 1 .. n : i \in 1 .. n + 1
      BY <1>1
    <3> QED BY <1>1, <3>1, <3>2, <3>3, <3>4
  <2> QED BY <2>2
<1>3. Sent(t) \cap last = {}
  <2>1. \A p \in Sent(t) : \E i \in 1 .. n : p \in {i} \X Places(channel[i], t)
    BY <1>1 DEF Sent
  <2>2. \A p \in Sent(t) : p[1] \in 1 .. n
    BY <2>1
  <2>3. \A p \in last : p[1] = n + 1
    OBVIOUS
  <2> QED BY <2>2, <2>3, <1>1
<1>4. IsFiniteSet(last) /\ Cardinality(last) = Count(notes, t)
  <2>1. IsFiniteSet(Places(notes, t)) /\ Count(notes, t) \in Nat
    BY PlacesAreFinite DEF LogTypeOK
  <2>2. IsFiniteSet({n + 1}) /\ Cardinality({n + 1}) = 1
    BY FS_Singleton
  <2>3. IsFiniteSet(last) /\ Cardinality(last) = 1 * Cardinality(Places(notes, t))
    BY <2>1, <2>2, FS_Product
  <2> QED BY <2>1, <2>3 DEF Count
<1> HIDE DEF last
<1> QED BY <1>2, <1>3, <1>4, SizesAdd DEF SentIsFinite

(* A message less.                                                          *)
LEMMA SentTail ==
  ASSUME LogTypeOK, SentIsFinite, NEW t \in Transaction, channel # << >>, channel' = Tail(channel)
  PROVE  IsFiniteSet(Sent(t)') /\ Cardinality(Sent(t)) = Cardinality(Sent(t)') + Count(Head(channel), t)
<1> DEFINE n == Len(channel)
           head == Head(channel)
           first == {1} \X Places(head, t)
           rest == Sent(t) \ first
           f == [p \in rest |-> <<p[1] - 1, p[2]>>]
<1>1. /\ n \in Nat \ {0} /\ DOMAIN channel = 1 .. n /\ DOMAIN channel' = 1 .. n - 1
      /\ \A i \in 1 .. n - 1 : channel'[i] = channel[i + 1]
      /\ head = channel[1] /\ head \in Notes
  BY DEF LogTypeOK
<1> HIDE DEF n, head
<1>2. \A p : p \in Sent(t) <=> \E i \in 1 .. n : \E j \in Places(channel[i], t) : p = <<i, j>>
  BY <1>1 DEF Sent
<1>3. \A p : p \in Sent(t)' <=> \E i \in 1 .. n - 1 : \E j \in Places(channel[i + 1], t) : p = <<i, j>>
  <2>1. Sent(t)' = UNION {{i} \X Places(channel'[i], t) : i \in DOMAIN channel'}
    BY DEF Sent, Places
  <2> QED BY <2>1, <1>1
<1>4. first \subseteq Sent(t)
  BY <1>1, <1>2
<1>5. \A p : p \in rest <=> \E i \in 2 .. n : \E j \in Places(channel[i], t) : p = <<i, j>>
  <2> SUFFICES ASSUME NEW p PROVE p \in rest <=> \E i \in 2 .. n : \E j \in Places(channel[i], t) : p = <<i, j>>
    OBVIOUS
  <2>1. \A i \in 1 .. n : \A j : p = <<i, j>> /\ p \in first => i = 1
    OBVIOUS
  <2>2. \A i \in 1 .. n : i \in 2 .. n \/ i = 1
    BY <1>1
  <2>3. \A i \in 2 .. n : i \in 1 .. n /\ i # 1
    BY <1>1
  <2>4. \A j \in Places(channel[1], t) : <<1, j>> \in first
    BY <1>1
  <2> QED BY <1>2, <2>1, <2>2, <2>3, <2>4
<1>6. f \in [rest -> Sent(t)']
  <2> SUFFICES ASSUME NEW p \in rest PROVE <<p[1] - 1, p[2]>> \in Sent(t)'
    OBVIOUS
  <2>1. PICK i \in 2 .. n : \E j \in Places(channel[i], t) : p = <<i, j>>
    BY <1>5
  <2>2. PICK j \in Places(channel[i], t) : p = <<i, j>>
    BY <2>1
  <2>3. i - 1 \in 1 .. n - 1 /\ (i - 1) + 1 = i
    BY <1>1
  <2> QED BY <2>2, <2>3, <1>3
<1>7. \A p, q \in rest : f[p] = f[q] => p = q
  <2> SUFFICES ASSUME NEW p \in rest, NEW q \in rest, f[p] = f[q] PROVE p = q
    OBVIOUS
  <2>1. PICK i \in 2 .. n : \E j \in Places(channel[i], t) : p = <<i, j>>
    BY <1>5
  <2>2. PICK k \in 2 .. n : \E l \in Places(channel[k], t) : q = <<k, l>>
    BY <1>5
  <2>3. PICK j \in Places(channel[i], t) : p = <<i, j>>
    BY <2>1
  <2>4. PICK l \in Places(channel[k], t) : q = <<k, l>>
    BY <2>2
  <2>5. i - 1 = k - 1 /\ j = l
    BY <2>3, <2>4
  <2>6. i = k
    BY <2>5, <1>1
  <2> QED BY <2>3, <2>4, <2>5, <2>6
<1>8. \A q \in Sent(t)' : \E p \in rest : f[p] = q
  <2> TAKE q \in Sent(t)'
  <2>1. PICK i \in 1 .. n - 1 : \E j \in Places(channel[i + 1], t) : q = <<i, j>>
    BY <1>3
  <2>2. PICK j \in Places(channel[i + 1], t) : q = <<i, j>>
    BY <2>1
  <2>3. i + 1 \in 2 .. n /\ (i + 1) - 1 = i
    BY <1>1
  <2>4. <<i + 1, j>> \in rest
    BY <1>5, <2>2, <2>3
  <2>5. f[<<i + 1, j>>] = <<i, j>>
    BY <2>3, <2>4
  <2> QED BY <2>2, <2>4, <2>5
<1>9. IsFiniteSet(first) /\ Cardinality(first) = Count(head, t) /\ Count(head, t) \in Nat
  <2>1. IsFiniteSet(Places(head, t)) /\ Count(head, t) \in Nat
    BY <1>1, PlacesAreFinite
  <2>2. IsFiniteSet({1}) /\ Cardinality({1}) = 1
    BY FS_Singleton
  <2>3. IsFiniteSet(first) /\ Cardinality(first) = 1 * Cardinality(Places(head, t))
    BY <2>1, <2>2, FS_Product
  <2> QED BY <2>1, <2>3 DEF Count
<1>10. IsFiniteSet(Sent(t))
  BY DEF SentIsFinite
<1>11. IsFiniteSet(rest)
  BY <1>10, FS_Difference
<1>12. Sent(t) = first \cup rest /\ first \cap rest = {}
  BY <1>4
<1> HIDE DEF f, rest, first
<1>13. IsFiniteSet(Sent(t)') /\ Cardinality(Sent(t)') = Cardinality(rest)
  BY <1>6, <1>7, <1>8, <1>11, SameSize
<1>14. Cardinality(Sent(t)) = Cardinality(first) + Cardinality(rest)
  BY <1>9, <1>11, <1>12, SizesAdd
<1> QED BY <1>9, <1>11, <1>13, <1>14, FS_CardinalityType DEF head

(* The rows of a batch, added to a table.                                   *)
LEMMA PlusAdds ==
  ASSUME NEW f \in [Transaction -> Nat], NEW s \in Notes
  PROVE  /\ Plus(f, s) \in [Transaction -> Nat]
         /\ \A t \in Transaction : Plus(f, s)[t] = f[t] + Count(s, t)
BY PlacesAreFinite DEF Plus

LEMMA LogInitInv == LogInit => LogInv
<1> SUFFICES ASSUME LogInit PROVE LogInv
  OBVIOUS
<1>1. LogTypeOK
  BY DEF LogInit, LogTypeOK, Zero, Notes
<1>2. \A t \in Transaction : Sent(t) = {}
  BY DEF LogInit, Sent
<1>3. SentIsFinite
  BY <1>2, FS_EmptySet DEF SentIsFinite
<1>4. LoggedOnce
  BY <1>2, FS_EmptySet, CountEmpty DEF LogInit, Zero, LoggedOnce
<1> QED BY <1>1, <1>3, <1>4 DEF LogInv

(* What is counted, as numbers.                                             *)
LEMMA LogNumbers ==
  ASSUME LogInv, NEW t \in Transaction
  PROVE  /\ forwards[t] \in Nat /\ table[t] \in Nat /\ again[t] \in Nat
         /\ Count(batch, t) \in Nat /\ Count(notes, t) \in Nat
         /\ IsFiniteSet(Sent(t)) /\ Cardinality(Sent(t)) \in Nat
         /\ table[t] + Count(batch, t) + Cardinality(Sent(t)) + Count(notes, t)
              = forwards[t] + again[t]
<1>1. IsFiniteSet(Sent(t)) /\ Cardinality(Sent(t)) \in Nat
  BY FS_CardinalityType DEF LogInv, SentIsFinite
<1> QED BY <1>1, PlacesAreFinite DEF LogInv, LogTypeOK, LoggedOnce

(* A step of the logger alone.                                              *)
LEMMA LogIsUnchanged ==
  ASSUME LogInv, UNCHANGED <<channel, batch, forwards, notes, table, again>>
  PROVE  LogInv'
<1>1. LogTypeOK'
  BY DEF LogInv, LogTypeOK
<1>2. \A t \in Transaction : Sent(t)' = Sent(t)
  BY DEF Sent, Places
<1>3. \A t \in Transaction : (Count(batch, t))' = Count(batch, t) /\ (Count(notes, t))' = Count(notes, t)
  BY DEF Count, Places
<1>4. SentIsFinite'
  BY <1>2 DEF LogInv, SentIsFinite
<1>5. LoggedOnce'
  BY <1>2, <1>3 DEF LogInv, LoggedOnce
<1> QED BY <1>1, <1>4, <1>5 DEF LogInv

LEMMA ForwardKeeps ==
  ASSUME LogInv, NEW u \in Transaction, Forward(u)
  PROVE  LogInv'
<1>1. LogTypeOK'
  BY DEF LogInv, LogTypeOK, Forward, Notes
<1>2. \A t \in Transaction : Sent(t)' = Sent(t)
  BY DEF Forward, Sent, Places
<1>3. SentIsFinite'
  BY <1>2 DEF SentIsFinite, LogInv
<1>4. LoggedOnce'
  <2> SUFFICES ASSUME NEW t \in Transaction
               PROVE  (table[t] + Count(batch, t) + Cardinality(Sent(t)) + Count(notes, t)
                         = forwards[t] + again[t])'
    BY DEF LoggedOnce
  <2>1. Count(notes', t) = Count(notes, t) + (IF u = t THEN 1 ELSE 0)
    BY CountAppend DEF LogInv, LogTypeOK, Forward
  <2>2. forwards'[t] = forwards[t] + (IF u = t THEN 1 ELSE 0)
    BY DEF LogInv, LogTypeOK, Forward
  <2>3. table' = table /\ batch' = batch /\ again' = again
    BY DEF Forward
  <2>4. (Count(notes, t))' = Count(notes', t) /\ (Count(batch, t))' = Count(batch, t)
    BY <2>3 DEF Count, Places
  <2>5. Cardinality(Sent(t)') = Cardinality(Sent(t))
    BY <1>2
  <2> QED BY <2>1, <2>2, <2>3, <2>4, <2>5, LogNumbers
<1> QED BY <1>1, <1>3, <1>4 DEF LogInv

LEMMA TickKeeps ==
  ASSUME LogInv, Tick
  PROVE  LogInv'
<1>1. LogTypeOK'
  BY DEF LogInv, LogTypeOK, Tick, Notes
<1>2. \A t \in Transaction : /\ IsFiniteSet(Sent(t)')
                             /\ Cardinality(Sent(t)') = Cardinality(Sent(t)) + Count(notes, t)
  BY SentAppend DEF Tick, LogInv
<1>3. SentIsFinite'
  BY <1>2 DEF SentIsFinite
<1>4. LoggedOnce'
  <2> SUFFICES ASSUME NEW t \in Transaction
               PROVE  (table[t] + Count(batch, t) + Cardinality(Sent(t)) + Count(notes, t)
                         = forwards[t] + again[t])'
    BY DEF LoggedOnce
  <2>1. table' = table /\ batch' = batch /\ again' = again /\ forwards' = forwards
        /\ notes' = << >>
    BY DEF Tick
  <2>2. (Count(notes, t))' = 0 /\ (Count(batch, t))' = Count(batch, t)
    <3>1. (Count(notes, t))' = Count(notes', t)
      BY DEF Count, Places
    <3> QED BY <2>1, <3>1, CountEmpty DEF Count, Places
  <2> QED BY <1>2, <2>1, <2>2, LogNumbers
<1> QED BY <1>1, <1>3, <1>4 DEF LogInv

LEMMA DrainKeeps ==
  ASSUME LogInv, Drain
  PROVE  LogInv'
<1>1. CASE sessionError \/ Len(batch) >= BatchCapacity \/ channel = << >>
  <2>1. UNCHANGED <<channel, batch, forwards, notes, table, again>>
    BY <1>1 DEF Drain
  <2> QED BY <2>1, LogIsUnchanged
<1>2. CASE ~(sessionError \/ Len(batch) >= BatchCapacity \/ channel = << >>)
  <2> DEFINE h == Head(channel)
  <2>1. channel' = Tail(channel) /\ batch' = batch \o h /\ channel # << >>
        /\ UNCHANGED <<forwards, notes, table, again>>
    BY <1>2 DEF Drain
  <2>2. h \in Notes
    BY <2>1 DEF LogInv, LogTypeOK
  <2>3. LogTypeOK'
    <3>1. channel' \in Seq(Notes)
      BY <2>1 DEF LogInv, LogTypeOK
    <3>2. batch' \in Notes
      BY <2>1, <2>2 DEF LogInv, LogTypeOK, Notes
    <3> QED BY <2>1, <3>1, <3>2 DEF LogInv, LogTypeOK
  <2>4. \A t \in Transaction : /\ IsFiniteSet(Sent(t)')
                               /\ Cardinality(Sent(t)) = Cardinality(Sent(t)') + Count(h, t)
    BY <2>1, SentTail DEF LogInv
  <2>5. SentIsFinite'
    BY <2>4 DEF SentIsFinite
  <2>6. LoggedOnce'
    <3> SUFFICES ASSUME NEW t \in Transaction
                 PROVE  (table[t] + Count(batch, t) + Cardinality(Sent(t)) + Count(notes, t)
                           = forwards[t] + again[t])'
      BY DEF LoggedOnce
    <3>1. Count(batch \o h, t) = Count(batch, t) + Count(h, t)
      BY <2>2, CountConcat DEF LogInv, LogTypeOK
    <3>2. (Count(batch, t))' = Count(batch \o h, t) /\ (Count(notes, t))' = Count(notes, t)
      BY <2>1 DEF Count, Places
    <3>3. Count(h, t) \in Nat /\ Cardinality(Sent(t)') \in Nat
      BY <2>2, <2>4, PlacesAreFinite, FS_CardinalityType
    <3> HIDE DEF h
    <3> QED BY <2>1, <2>4, <3>1, <3>2, <3>3, LogNumbers
  <2> QED BY <2>3, <2>5, <2>6 DEF LogInv
<1> QED BY <1>1, <1>2

LEMMA WriteKeeps ==
  ASSUME LogInv, Write
  PROVE  LogInv'
<1>1. /\ table' = Plus(table, batch) /\ batch' = << >>
      /\ UNCHANGED <<forwards, notes, channel, again>>
  BY DEF Write
<1>2. LogTypeOK'
  <2>1. table' \in [Transaction -> Nat]
    BY <1>1, PlusAdds DEF LogInv, LogTypeOK
  <2>2. batch' \in Notes
    BY <1>1 DEF Notes
  <2> QED BY <1>1, <2>1, <2>2 DEF LogInv, LogTypeOK
<1>3. \A t \in Transaction : Sent(t)' = Sent(t)
  BY <1>1 DEF Sent, Places
<1>4. SentIsFinite'
  BY <1>3 DEF SentIsFinite, LogInv
<1>5. LoggedOnce'
  <2> SUFFICES ASSUME NEW t \in Transaction
               PROVE  (table[t] + Count(batch, t) + Cardinality(Sent(t)) + Count(notes, t)
                         = forwards[t] + again[t])'
    BY DEF LoggedOnce
  <2>1. table'[t] = table[t] + Count(batch, t)
    BY <1>1, PlusAdds DEF LogInv, LogTypeOK
  <2>2. (Count(batch, t))' = Count(batch', t) /\ (Count(notes, t))' = Count(notes, t)
    BY <1>1 DEF Count, Places
  <2>3. Count(batch', t) = 0
    BY <1>1, CountEmpty
  <2> QED BY <1>1, <1>3, <2>1, <2>2, <2>3, LogNumbers
<1> QED BY <1>2, <1>4, <1>5 DEF LogInv

LEMMA WriteFailsKeeps ==
  ASSUME LogInv, NEW done \in BOOLEAN, WriteFails(done)
  PROVE  LogInv'
<1>1. UNCHANGED <<forwards, notes, channel, batch>>
  BY DEF WriteFails, KeptBatch
<1>2. CASE ~done
  <2>1. UNCHANGED <<table, again>>
    BY <1>2 DEF WriteFails
  <2> QED BY <1>1, <2>1, LogIsUnchanged
<1>3. CASE done
  <2>1. table' = Plus(table, batch) /\ again' = Plus(again, batch)
    BY <1>3 DEF WriteFails
  <2>2. LogTypeOK'
    BY <1>1, <2>1, PlusAdds DEF LogInv, LogTypeOK
  <2>3. \A t \in Transaction : Sent(t)' = Sent(t)
    BY <1>1 DEF Sent, Places
  <2>4. SentIsFinite'
    BY <2>3 DEF SentIsFinite, LogInv
  <2>5. LoggedOnce'
    <3> SUFFICES ASSUME NEW t \in Transaction
                 PROVE  (table[t] + Count(batch, t) + Cardinality(Sent(t)) + Count(notes, t)
                           = forwards[t] + again[t])'
      BY DEF LoggedOnce
    <3>1. table'[t] = table[t] + Count(batch, t) /\ again'[t] = again[t] + Count(batch, t)
      BY <2>1, PlusAdds DEF LogInv, LogTypeOK
    <3>2. (Count(batch, t))' = Count(batch, t) /\ (Count(notes, t))' = Count(notes, t)
      BY <1>1 DEF Count, Places
    <3> QED BY <1>1, <2>3, <3>1, <3>2, LogNumbers
  <2> QED BY <2>2, <2>4, <2>5 DEF LogInv
<1> QED BY <1>2, <1>3

(* No forward of a transaction is lost from the log, or in it twice but for *)
(* a write whose answer was lost, whatever the database does.               *)
THEOREM LogInvariant == LogSpec => []LogInv
<1>1. LogInv /\ [LogNext]_logVars => LogInv'
  <2> SUFFICES ASSUME LogInv, [LogNext]_logVars PROVE LogInv'
    OBVIOUS
  <2>1. ASSUME NEW t \in Transaction, Forward(t) PROVE LogInv'
    BY <2>1, ForwardKeeps
  <2>2. CASE Tick
    BY <2>2, TickKeeps
  <2>3. CASE Drain
    BY <2>3, DrainKeeps
  <2>4. CASE GetSession \/ NoSession \/ UNCHANGED logVars
    <3>1. UNCHANGED <<channel, batch, forwards, notes, table, again>>
      BY <2>4 DEF GetSession, NoSession, logVars
    <3> QED BY <3>1, LogIsUnchanged
  <2>5. CASE Write
    BY <2>5, WriteKeeps
  <2>6. ASSUME NEW done \in BOOLEAN, WriteFails(done) PROVE LogInv'
    BY <2>6, WriteFailsKeeps
  <2> QED BY <2>1, <2>2, <2>3, <2>4, <2>5, <2>6 DEF LogNext
<1> QED BY <1>1, LogInitInv, PTL DEF LogSpec

------------------------------------------------------------------------------
(* The three beside each other: a client is told once of its signature, a   *)
(* forward is logged once, and the inspection warns of what it may, for     *)
(* every number of clients, transactions and blocks.                        *)
THEOREM NoticesHold == ClientsSpec /\ LogSpec /\ InspectSpec => []NoticesAreTrue
<1>1. ClientsInv /\ LogInv /\ InspectInv => NoticesAreTrue
  BY ToldOnceHolds DEF LogInv, InspectInv, NoticesAreTrue
<1> QED BY <1>1, ClientsInvariant, LogInvariant, InspectInvariant, PTL
==============================================================================
