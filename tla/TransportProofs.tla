--------------------------- MODULE TransportProofs ---------------------------
(***************************************************************************)
(* What sends transactions: the heap of a connection, the connections, the *)
(* leaders they are to, and the proxy, for every value of the constants.   *)
(*                                                                         *)
(* The feed: what the cache shows, what waits and what was sent last are   *)
(* one line in which slots go back only from one run to the next.  The     *)
(* leaders: the window is without a gap, and begins before every slot that *)
(* is yet to be asked for, because the notices rise.  The client: the      *)
(* attempts are counted in the connection.  The proxy: a packet is at one  *)
(* place of each task, and none that is yet to be forwarded is at any.     *)
(* The connections: which places of the two tasks of an incarnation occur  *)
(* together, and what has been subscribed by then.  The heap: the set of   *)
(* signatures is that of the queues, each of which has its fee.            *)
(***************************************************************************)
EXTENDS TpuConnections, PrioFeeHeapUse, Transport, FiniteSetTheorems, WellFoundedInduction, TLAPS

------------------------------------------------------------------------------
(* Induction over the naturals, and what is in a queue                      *)

(* A set of naturals that is not empty has a least element.                 *)
LEMMA LeastNatural ==
  ASSUME NEW T, T \subseteq Nat, T # {}
  PROVE  \E x \in T : \A y \in T : x <= y
<1>1. PICK x \in T : \A y \in T : ~(<<y, x>> \in OpToRel(<, Nat))
  BY NatLessThanWellFounded, WFMin
<1>2. ASSUME NEW y \in T PROVE x <= y
  <2>1. ~(<<y, x>> \in OpToRel(<, Nat))
    BY <1>1
  <2>2. <<y, x>> \in Nat \X Nat
    OBVIOUS
  <2>3. ~(y < x)
    BY <2>1, <2>2 DEF OpToRel
  <2> QED
    BY <2>3
<1> QED
  BY <1>2

(* Induction over the naturals, of which the statement is a set.            *)
LEMMA AllNaturals ==
  ASSUME NEW T, 0 \in T, \A n \in Nat : n \in T => n + 1 \in T
  PROVE  \A n \in Nat : n \in T
<1> DEFINE D == {n \in Nat : n \notin T}
<1> SUFFICES ASSUME D # {} PROVE FALSE
  OBVIOUS
<1>1. PICK x \in D : \A y \in D : x <= y
  BY LeastNatural, D \subseteq Nat, Zenon
<1>2. x # 0 /\ x \in Nat
  OBVIOUS
<1>3. x - 1 \in Nat /\ x - 1 \notin D
  BY <1>1, <1>2
<1>4. x - 1 \in T
  BY <1>3
<1> QED
  BY <1>2, <1>3, <1>4

(* A finite set of naturals that is not empty has a greatest element.       *)
LEMMA GreatestNatural ==
  ASSUME NEW T, T \subseteq Nat, T # {}, IsFiniteSet(T)
  PROVE  \E x \in T : \A y \in T : x >= y
<1> DEFINE Wrong == {D \in SUBSET Nat : /\ D # {} /\ IsFiniteSet(D)
                                       /\ ~\E x \in D : \A y \in D : x >= y}
           Sizes == {n \in Nat : \E D \in Wrong : n = Cardinality(D)}
<1> SUFFICES ASSUME Wrong # {} PROVE FALSE
  OBVIOUS
<1>1. \A D \in Wrong : Cardinality(D) \in Nat
  BY FS_CardinalityType
<1>2. PICK n \in Sizes : \A m \in Sizes : n <= m
  <2>1. Sizes # {} /\ Sizes \subseteq Nat
    BY <1>1
  <2> HIDE DEF Sizes
  <2> QED
    BY <2>1, LeastNatural
<1>3. PICK D \in Wrong : n = Cardinality(D)
  OBVIOUS
<1>4. PICK z \in D : TRUE
  OBVIOUS
<1>5. /\ IsFiniteSet(D \ {z}) /\ Cardinality(D \ {z}) = n - 1 /\ D \in SUBSET Nat
      /\ z \in Nat /\ IsFiniteSet(D)
  BY <1>3, <1>4, FS_RemoveElement
<1>6. n \in Nat /\ n - 1 \notin Sizes
  BY <1>2
<1>7. D \ {z} \notin Wrong
  BY <1>1, <1>5, <1>6
<1>8. CASE D \ {z} = {}
  <2>1. D = {z}
    BY <1>4, <1>8
  <2> QED
    BY <1>3, <1>5, <2>1
<1>9. CASE D \ {z} # {}
  <2>1. PICK x \in D \ {z} : \A y \in D \ {z} : x >= y
    BY <1>5, <1>7, <1>9
  <2>2. PICK w \in {x, z} : w >= x /\ w >= z
    BY <1>5, <2>1
  <2>3. \A y \in D : w >= y
    BY <1>5, <2>1, <2>2
  <2> QED
    BY <1>3, <1>4, <2>1, <2>2, <2>3
<1> QED
  BY <1>8, <1>9

------------------------------------------------------------------------------
In(p, s) == \E i \in 1 .. Len(s) : s[i] = p
Distinct(s) == \A i, j \in 1 .. Len(s) : s[i] = s[j] => i = j

LEMMA AppendedIs ==
  ASSUME NEW S, NEW s \in Seq(S), NEW p \in S
  PROVE  /\ Append(s, p) \in Seq(S)
         /\ \A q : In(q, Append(s, p)) <=> In(q, s) \/ q = p
         /\ Distinct(s) /\ ~In(p, s) => Distinct(Append(s, p))
<1>1. PICK n \in Nat : n = Len(s)
  OBVIOUS
<1>2. PICK t : t = Append(s, p)
  OBVIOUS
<1>3. /\ t \in Seq(S) /\ Len(t) = n + 1 /\ t[n + 1] = p
      /\ \A i \in 1 .. n : t[i] = s[i]
  BY <1>1, <1>2
<1>4. 1 .. n + 1 = (1 .. n) \cup {n + 1}
  OBVIOUS
<1>5. \A q : In(q, t) <=> In(q, s) \/ q = p
  BY <1>1, <1>3, <1>4 DEF In
<1>6. ASSUME Distinct(s), ~In(p, s) PROVE Distinct(t)
  <2> SUFFICES ASSUME NEW i \in 1 .. n + 1, NEW j \in 1 .. n + 1, t[i] = t[j] PROVE i = j
    BY <1>3 DEF Distinct
  <2>1. \A l \in 1 .. n : t[l] = s[l] /\ t[l] # p
    BY <1>1, <1>3, <1>6 DEF In
  <2>2. CASE i = n + 1
    BY <1>3, <1>4, <2>1, <2>2
  <2>3. CASE j = n + 1
    BY <1>3, <1>4, <2>1, <2>3
  <2>4. CASE i \in 1 .. n /\ j \in 1 .. n
    BY <1>1, <1>6, <2>1, <2>4 DEF Distinct
  <2> QED
    BY <1>4, <2>2, <2>3, <2>4
<1> QED
  BY <1>2, <1>3, <1>5, <1>6

LEMMA TailIs ==
  ASSUME NEW S, NEW s \in Seq(S), s # << >>
  PROVE  /\ Head(s) \in S /\ Tail(s) \in Seq(S) /\ In(Head(s), s)
         /\ \A q : In(q, s) <=> q = Head(s) \/ In(q, Tail(s))
         /\ Distinct(s) => Distinct(Tail(s)) /\ ~In(Head(s), Tail(s))
<1>1. PICK n \in Nat : n = Len(s) /\ n > 0
  OBVIOUS
<1>2. PICK t : t = Tail(s)
  OBVIOUS
<1>3. /\ t \in Seq(S) /\ Len(t) = n - 1 /\ Head(s) = s[1] /\ s[1] \in S
      /\ \A i \in 1 .. n - 1 : t[i] = s[i + 1]
  BY <1>1, <1>2
<1>4. \A q : In(q, s) <=> q = s[1] \/ In(q, t)
  <2> TAKE q
  <2>1. ASSUME NEW i \in 1 .. n, s[i] = q, i # 1 PROVE In(q, t)
    <3>1. i - 1 \in 1 .. n - 1 /\ (i - 1) + 1 = i
      BY <2>1
    <3>2. t[i - 1] = s[i]
      BY <1>3, <3>1
    <3> QED
      BY <1>3, <2>1, <3>1, <3>2 DEF In
  <2>2. ASSUME NEW i \in 1 .. n - 1, t[i] = q PROVE In(q, s)
    <3>1. i + 1 \in 1 .. n /\ s[i + 1] = q
      BY <1>3, <2>2
    <3> QED
      BY <1>1, <3>1 DEF In
  <2>3. 1 \in 1 .. n
    BY <1>1
  <2> QED
    BY <1>1, <1>3, <2>1, <2>2, <2>3 DEF In
<1>5. ASSUME Distinct(s) PROVE Distinct(t) /\ ~In(s[1], t)
  <2>1. \A i \in 1 .. n - 1 : i + 1 \in 1 .. n /\ i + 1 # 1
    BY <1>1
  <2>2. 1 \in 1 .. n
    BY <1>1
  <2>3. ~In(s[1], t)
    BY <1>1, <1>3, <1>5, <2>1, <2>2 DEF Distinct, In
  <2>4. \A i, j \in 1 .. n - 1 : t[i] = t[j] => i + 1 = j + 1
    BY <1>1, <1>3, <1>5, <2>1 DEF Distinct
  <2> QED
    BY <1>3, <2>3, <2>4 DEF Distinct
<1> QED
  BY <1>2, <1>3, <1>4, <1>5

(* Who comes earlier in a queue after an append.                            *)
LEMMA EarlierAppended ==
  ASSUME NEW S, NEW s \in Seq(S), NEW p \in S
  PROVE  \A t, u : Earlier(Append(s, p), t, u) <=> Earlier(s, t, u) \/ (In(t, s) /\ u = p)
<1>1. PICK n, a : n \in Nat /\ n = Len(s) /\ a = Append(s, p)
  <2>1. Len(s) \in Nat
    OBVIOUS
  <2> QED
    BY <2>1
<1>2. /\ a \in Seq(S) /\ Len(a) = n + 1 /\ a[n + 1] = p
      /\ \A i \in 1 .. n : a[i] = s[i]
  BY <1>1
<1>3. 1 .. n + 1 = (1 .. n) \cup {n + 1} /\ \A i \in 1 .. n : i < n + 1
  BY <1>1
<1>4. ASSUME NEW t, NEW u PROVE Earlier(a, t, u) <=> Earlier(s, t, u) \/ (In(t, s) /\ u = p)
  <2>1. ASSUME NEW i \in 1 .. n + 1, NEW j \in 1 .. n + 1, i < j, a[i] = t, a[j] = u
        PROVE  Earlier(s, t, u) \/ (In(t, s) /\ u = p)
    <3>1. i \in 1 .. n /\ s[i] = t
      BY <1>1, <1>2, <2>1
    <3>2. CASE j = n + 1
      BY <1>1, <1>2, <2>1, <3>1, <3>2 DEF In
    <3>3. CASE j \in 1 .. n
      BY <1>1, <1>2, <2>1, <3>1, <3>3 DEF Earlier
    <3> QED
      BY <1>3, <3>2, <3>3
  <2>2. ASSUME NEW i \in 1 .. n, NEW j \in 1 .. n, i < j, s[i] = t, s[j] = u
        PROVE  Earlier(a, t, u)
    BY <1>2, <1>3, <2>2 DEF Earlier
  <2>3. ASSUME NEW i \in 1 .. n, s[i] = t, u = p PROVE Earlier(a, t, u)
    BY <1>2, <1>3, <2>3 DEF Earlier
  <2>4. Earlier(a, t, u) => Earlier(s, t, u) \/ (In(t, s) /\ u = p)
    BY <1>2, <2>1 DEF Earlier
  <2>5. Earlier(s, t, u) => Earlier(a, t, u)
    BY <1>1, <2>2 DEF Earlier
  <2>6. In(t, s) /\ u = p => Earlier(a, t, u)
    BY <1>1, <2>3 DEF In
  <2> QED
    BY <2>4, <2>5, <2>6
<1> QED
  BY <1>1, <1>4

(* The function that Sublist is computed by.                                *)
SublistBy(kept, s, m, f) ==
  f = [i \in 0 .. m |->
         IF i = 0 THEN << >>
         ELSE IF s[i] \in kept THEN Append(f[i - 1], s[i]) ELSE f[i - 1]]

LEMMA SublistByExists ==
  ASSUME NEW kept, NEW s, NEW m \in Nat
  PROVE  \E f : SublistBy(kept, s, m, f)
<1> DEFINE T == {l \in Nat : \E f : SublistBy(kept, s, l, f)}
           Then(x, i) == IF s[i] \in kept THEN Append(x, s[i]) ELSE x
<1>1. 0 \in T
  <2>1. SublistBy(kept, s, 0, [i \in 0 .. 0 |-> << >>])
    BY DEF SublistBy
  <2> QED
    BY <2>1
<1>2. ASSUME NEW l \in Nat, l \in T PROVE l + 1 \in T
  <2>1. PICK f : SublistBy(kept, s, l, f)
    BY <1>2
  <2> DEFINE g == [i \in 0 .. l + 1 |-> IF i = l + 1 THEN Then(f[l], l + 1) ELSE f[i]]
  <2>2. \A i \in 0 .. l : f[i] = IF i = 0 THEN << >> ELSE Then(f[i - 1], i)
    BY <2>1 DEF SublistBy
  <2> HIDE DEF Then
  <2>3. \A i \in 0 .. l + 1 : g[i] = IF i = 0 THEN << >> ELSE Then(g[i - 1], i)
    <3> TAKE i \in 0 .. l + 1
    <3>1. CASE i = l + 1
      <4>1. g[i] = Then(f[l], i) /\ g[i - 1] = f[l] /\ i # 0
        BY <3>1
      <4> QED
        BY <4>1
    <3>2. CASE i \in 1 .. l
      <4>1. g[i] = f[i] /\ g[i - 1] = f[i - 1] /\ i # 0
        BY <3>2
      <4> QED
        BY <4>1, <2>2, <3>2
    <3>3. CASE i = 0
      <4>1. g[i] = f[i]
        BY <3>3
      <4> QED
        BY <4>1, <2>2, <3>3
    <3> QED
      BY <3>1, <3>2, <3>3
  <2>4. g = [i \in 0 .. l + 1 |-> IF i = 0 THEN << >> ELSE Then(g[i - 1], i)]
    BY <2>3
  <2>5. SublistBy(kept, s, l + 1, g)
    BY <2>4 DEF SublistBy, Then
  <2> QED
    BY <2>5
<1>3. m \in T
  <2> HIDE DEF T
  <2> QED
    BY <1>1, <1>2, AllNaturals
<1> QED
  BY <1>3

(* It has what is kept, as often.                                           *)
LEMMA SublistIs ==
  ASSUME NEW S, NEW kept, NEW s \in Seq(S)
  PROVE  /\ Sublist(s, kept) \in Seq(S)
         /\ \A p : In(p, Sublist(s, kept)) <=> In(p, s) /\ p \in kept
         /\ Distinct(s) => Distinct(Sublist(s, kept))
         /\ \A t, u : Earlier(Sublist(s, kept), t, u) <=>
                       Earlier(s, t, u) /\ t \in kept /\ u \in kept
<1> DEFINE f == CHOOSE f : SublistBy(kept, s, Len(s), f)
           UpTo(p, i) == \E j \in 1 .. i : s[j] = p
           EarlierUpTo(t, u, i) == \E j, k \in 1 .. i : j < k /\ s[j] = t /\ s[k] = u
           Is(x, i) == /\ x \in Seq(S)
                       /\ \A p : In(p, x) <=> UpTo(p, i) /\ p \in kept
                       /\ Distinct(s) => Distinct(x)
                       /\ \A t, u : Earlier(x, t, u) <=>
                                     EarlierUpTo(t, u, i) /\ t \in kept /\ u \in kept
           T == {i \in Nat : i <= Len(s) => Is(f[i], i)}
<1>1. Len(s) \in Nat
  OBVIOUS
<1>2. Sublist(s, kept) = f[Len(s)]
  BY DEF Sublist, SublistBy
<1>3. \A i \in 0 .. Len(s) :
        f[i] = IF i = 0 THEN << >>
               ELSE IF s[i] \in kept THEN Append(f[i - 1], s[i]) ELSE f[i - 1]
  <2>1. SublistBy(kept, s, Len(s), f)
    BY <1>1, SublistByExists
  <2> HIDE DEF f
  <2> QED
    BY <2>1 DEF SublistBy
<1> HIDE DEF f
<1>4. 0 \in T
  <2>1. f[0] = << >>
    BY <1>1, <1>3
  <2>2. Is(<< >>, 0)
    BY DEF In, Distinct, Earlier
  <2> HIDE DEF Is
  <2> QED
    BY <2>1, <2>2
<1>5. ASSUME NEW i \in Nat, i \in T PROVE i + 1 \in T
  <2> SUFFICES ASSUME i + 1 <= Len(s) PROVE Is(f[i + 1], i + 1)
    OBVIOUS
  <2>1. PICK x : x = f[i] /\ Is(x, i)
    BY <1>1, <1>5
  <2>2. PICK p : p = s[i + 1] /\ p \in S
    BY <1>1
  <2>3. \A q : UpTo(q, i + 1) <=> UpTo(q, i) \/ q = p
    <3>1. 1 .. i + 1 = (1 .. i) \cup {i + 1}
      OBVIOUS
    <3> QED
      BY <2>2, <3>1
  <2>4. \A t, u : EarlierUpTo(t, u, i + 1) <=> EarlierUpTo(t, u, i) \/ (UpTo(t, i) /\ u = p)
    <3>1. 1 .. i + 1 = (1 .. i) \cup {i + 1} /\ \A j \in 1 .. i : j < i + 1 /\ ~(i + 1 < j)
      OBVIOUS
    <3>2. ~(i + 1 < i + 1)
      OBVIOUS
    <3> QED
      BY <2>2, <3>1, <3>2
  <2>5. CASE p \notin kept
    <3>1. f[i + 1] = x
      BY <1>1, <1>3, <2>1, <2>2, <2>5
    <3> HIDE DEF UpTo, EarlierUpTo
    <3> QED
      BY <2>1, <2>3, <2>4, <2>5, <3>1
  <2>6. CASE p \in kept
    <3>1. f[i + 1] = Append(x, p)
      <4>1. i + 1 \in 0 .. Len(s) /\ i + 1 # 0 /\ (i + 1) - 1 = i
        BY <1>1
      <4>2. PICK n \in 0 .. Len(s) : n = i + 1 /\ n # 0 /\ n - 1 = i
        BY <4>1
      <4>3. f[n] = IF s[n] \in kept THEN Append(f[n - 1], s[n]) ELSE f[n - 1]
        BY <1>3, <4>2
      <4> QED
        BY <2>1, <2>2, <2>6, <4>2, <4>3
    <3>2. PICK y : y = Append(x, p)
      OBVIOUS
    <3>3. x \in Seq(S) /\ y \in Seq(S)
      BY <2>1, <2>2, <3>2
    <3>4. \A q : In(q, y) <=> In(q, x) \/ q = p
      BY <2>2, <3>2, <3>3, AppendedIs
    <3>5. Distinct(s) => Distinct(y)
      <4> SUFFICES ASSUME Distinct(s) PROVE Distinct(y)
        OBVIOUS
      <4>1. ~In(p, x)
        <5>1. \A j \in 1 .. i : s[j] # p
          BY <1>1, <2>2 DEF Distinct
        <5> QED
          BY <2>1, <5>1
      <4>2. Distinct(x)
        BY <2>1
      <4> QED
        BY <2>2, <3>2, <3>3, <4>1, <4>2, AppendedIs
    <3>6. \A t, u : Earlier(y, t, u) <=> Earlier(x, t, u) \/ (In(t, x) /\ u = p)
      BY <2>2, <3>2, <3>3, EarlierAppended
    <3> HIDE DEF UpTo, EarlierUpTo
    <3>7. \A q : In(q, y) <=> UpTo(q, i + 1) /\ q \in kept
      BY <2>1, <2>3, <2>6, <3>4
    <3>8. \A t, u : Earlier(y, t, u) <=> EarlierUpTo(t, u, i + 1) /\ t \in kept /\ u \in kept
      BY <2>1, <2>4, <2>6, <3>6
    <3> QED
      BY <3>1, <3>2, <3>3, <3>5, <3>7, <3>8
  <2> QED
    BY <2>5, <2>6
<1>6. Len(s) \in T
  <2> HIDE DEF T
  <2> QED
    BY <1>1, <1>4, <1>5, AllNaturals
<1>7. Is(f[Len(s)], Len(s))
  BY <1>1, <1>6
<1> QED
  <2>1. PICK x, n : x = Sublist(s, kept) /\ n = Len(s) /\ Is(x, n)
    BY <1>2, <1>7
  <2>2. \A p : UpTo(p, n) <=> In(p, s)
    BY <2>1 DEF In
  <2>3. \A t, u : EarlierUpTo(t, u, n) <=> Earlier(s, t, u)
    BY <2>1 DEF Earlier
  <2> HIDE DEF UpTo, EarlierUpTo
  <2> QED
    BY <2>1, <2>2, <2>3

LEMMA RangeIs ==
  ASSUME NEW S, NEW s \in Seq(S)
  PROVE  Range(s) \subseteq S /\ \A p : p \in Range(s) <=> In(p, s)
<1>1. DOMAIN s = 1 .. Len(s) /\ \A i \in 1 .. Len(s) : s[i] \in S
  OBVIOUS
<1> QED
  BY <1>1 DEF Range, In

LEMMA EmptyIs == Range(<< >>) = {} /\ Distinct(<< >>)
BY DEF Range, Distinct

LEMMA RangeAppended ==
  ASSUME NEW S, NEW s \in Seq(S), NEW p \in S
  PROVE  /\ Append(s, p) \in Seq(S) /\ Range(Append(s, p)) = Range(s) \cup {p}
         /\ Distinct(s) /\ p \notin Range(s) => Distinct(Append(s, p))
<1>1. Append(s, p) \in Seq(S)
  BY AppendedIs
<1>2. \A q : In(q, Append(s, p)) <=> In(q, s) \/ q = p
  BY AppendedIs
<1>3. \A q : q \in Range(Append(s, p)) <=> In(q, Append(s, p))
  BY <1>1, RangeIs, Zenon
<1>4. \A q : q \in Range(s) <=> In(q, s)
  BY RangeIs, Zenon
<1>5. Distinct(s) /\ p \notin Range(s) => Distinct(Append(s, p))
  BY <1>4, AppendedIs, Zenon
<1> QED
  BY <1>1, <1>2, <1>3, <1>4, <1>5

LEMMA RangeTail ==
  ASSUME NEW S, NEW s \in Seq(S), s # << >>
  PROVE  /\ Head(s) \in S /\ Tail(s) \in Seq(S)
         /\ Range(s) = {Head(s)} \cup Range(Tail(s))
         /\ Distinct(s) => Distinct(Tail(s)) /\ Head(s) \notin Range(Tail(s))
<1>1. Head(s) \in S /\ Tail(s) \in Seq(S)
  BY TailIs
<1>2. \A q : q \in Range(s) <=> q = Head(s) \/ q \in Range(Tail(s))
  BY <1>1, TailIs, RangeIs, Zenon
<1>3. Distinct(s) => Distinct(Tail(s)) /\ Head(s) \notin Range(Tail(s))
  BY <1>1, TailIs, RangeIs, Zenon
<1> QED
  BY <1>1, <1>2, <1>3

LEMMA RangeSublist ==
  ASSUME NEW S, NEW kept, NEW s \in Seq(S)
  PROVE  /\ Sublist(s, kept) \in Seq(S)
         /\ Range(Sublist(s, kept)) = Range(s) \cap kept
         /\ Distinct(s) => Distinct(Sublist(s, kept))
<1>1. Sublist(s, kept) \in Seq(S) /\ (Distinct(s) => Distinct(Sublist(s, kept)))
  BY SublistIs
<1>2. \A p : p \in Range(Sublist(s, kept)) <=> p \in Range(s) /\ p \in kept
  BY <1>1, SublistIs, RangeIs, ZenonT(30)
<1> QED
  BY <1>1, <1>2

(* Who comes earlier in a queue without its head.                           *)
LEMMA EarlierTail ==
  ASSUME NEW S, NEW s \in Seq(S), s # << >>, Distinct(s)
  PROVE  \A t, u : Earlier(Tail(s), t, u) <=> Earlier(s, t, u) /\ t # Head(s)
<1>1. PICK n, r : n \in Nat /\ n + 1 = Len(s) /\ r = Tail(s)
  <2>1. Len(s) \in Nat \ {0}
    OBVIOUS
  <2>2. Len(s) - 1 \in Nat /\ (Len(s) - 1) + 1 = Len(s)
    BY <2>1
  <2> QED
    BY <2>2
<1>2. /\ r \in Seq(S) /\ Len(r) = n /\ s[1] = Head(s)
      /\ \A i \in 1 .. n : r[i] = s[i + 1]
  BY <1>1
<1>3. \A i, j \in 1 .. n + 1 : s[i] = s[j] => i = j
  BY <1>1 DEF Distinct
<1>4. ASSUME NEW t, NEW u PROVE Earlier(r, t, u) <=> Earlier(s, t, u) /\ t # s[1]
  <2>1. ASSUME NEW i \in 1 .. n, NEW j \in 1 .. n, i < j, r[i] = t, r[j] = u
        PROVE  Earlier(s, t, u) /\ t # s[1]
    <3>1. /\ i + 1 \in 1 .. n + 1 /\ j + 1 \in 1 .. n + 1 /\ i + 1 < j + 1 /\ i + 1 # 1
          /\ s[i + 1] = t /\ s[j + 1] = u /\ 1 \in 1 .. n + 1
      BY <1>2, <2>1
    <3> QED
      BY <1>1, <1>3, <3>1 DEF Earlier
  <2>2. ASSUME NEW i \in 1 .. n + 1, NEW j \in 1 .. n + 1, i < j, s[i] = t, s[j] = u, t # s[1]
        PROVE  Earlier(r, t, u)
    <3>1. PICK k \in 1 .. n, l \in 1 .. n : i = k + 1 /\ j = l + 1
      <4>1. i - 1 \in 1 .. n /\ j - 1 \in 1 .. n /\ i = (i - 1) + 1 /\ j = (j - 1) + 1
        <5>1. i # 1
          BY <2>2
        <5> QED
          BY <1>1, <2>2, <5>1
      <4> QED
        BY <4>1
    <3>2. k < l /\ r[k] = t /\ r[l] = u
      BY <1>2, <2>2, <3>1
    <3> QED
      BY <1>2, <3>2 DEF Earlier
  <2>3. Earlier(r, t, u) => Earlier(s, t, u) /\ t # s[1]
    BY <1>2, <2>1 DEF Earlier
  <2>4. Earlier(s, t, u) /\ t # s[1] => Earlier(r, t, u)
    BY <1>1, <2>2 DEF Earlier
  <2> QED
    BY <2>3, <2>4
<1> QED
  BY <1>1, <1>2, <1>4

(* Of those in a queue in which none is twice.                              *)
LEMMA EarlierOrders ==
  ASSUME NEW S, NEW s \in Seq(S), Distinct(s)
  PROVE  /\ \A t, u : Earlier(s, t, u) => In(t, s) /\ In(u, s) /\ t # u /\ ~Earlier(s, u, t)
         /\ \A t, u : In(t, s) /\ In(u, s) /\ t # u => Earlier(s, t, u) \/ Earlier(s, u, t)
         /\ \A t, u, v : Earlier(s, t, u) /\ Earlier(s, u, v) => Earlier(s, t, v)
         /\ s # << >> => \A u : In(u, s) /\ u # Head(s) => Earlier(s, Head(s), u)
<1>1. PICK n \in Nat : n = Len(s)
  OBVIOUS
<1>2. \A i, j \in 1 .. n : s[i] = s[j] => i = j
  BY <1>1 DEF Distinct
<1>3. \A t, u : Earlier(s, t, u) <=> \E i, j \in 1 .. n : i < j /\ s[i] = t /\ s[j] = u
  BY <1>1 DEF Earlier
<1>4. \A t : In(t, s) <=> \E i \in 1 .. n : s[i] = t
  BY <1>1 DEF In
<1>5. ASSUME NEW t, NEW u, Earlier(s, t, u)
      PROVE  In(t, s) /\ In(u, s) /\ t # u /\ ~Earlier(s, u, t)
  <2>1. PICK i \in 1 .. n, j \in 1 .. n : i < j /\ s[i] = t /\ s[j] = u
    BY <1>3, <1>5
  <2>2. ~(j < i) /\ i # j
    BY <2>1
  <2>3. ~Earlier(s, u, t)
    BY <1>2, <1>3, <2>1, <2>2
  <2> QED
    BY <1>2, <1>4, <2>1, <2>2, <2>3
<1>6. ASSUME NEW t, NEW u, In(t, s), In(u, s), t # u PROVE Earlier(s, t, u) \/ Earlier(s, u, t)
  <2>1. PICK i \in 1 .. n, j \in 1 .. n : s[i] = t /\ s[j] = u
    BY <1>4, <1>6
  <2>2. i < j \/ j < i
    BY <1>6, <2>1
  <2> QED
    BY <1>3, <2>1, <2>2
<1>7. ASSUME NEW t, NEW u, NEW v, Earlier(s, t, u), Earlier(s, u, v) PROVE Earlier(s, t, v)
  <2>1. PICK i \in 1 .. n, j \in 1 .. n : i < j /\ s[i] = t /\ s[j] = u
    BY <1>3, <1>7
  <2>2. PICK k \in 1 .. n, l \in 1 .. n : k < l /\ s[k] = u /\ s[l] = v
    BY <1>3, <1>7
  <2>3. j = k
    BY <1>2, <2>1, <2>2
  <2>4. i < l
    BY <2>1, <2>2, <2>3
  <2> QED
    BY <1>3, <2>1, <2>2, <2>4
<1>8. ASSUME s # << >>, NEW u, In(u, s), u # Head(s) PROVE Earlier(s, Head(s), u)
  <2>1. PICK j \in 1 .. n : s[j] = u
    BY <1>4, <1>8
  <2>2. s[1] = Head(s) /\ 1 \in 1 .. n
    BY <1>1, <1>8
  <2>3. 1 < j
    BY <1>8, <2>1, <2>2
  <2> QED
    BY <1>3, <2>1, <2>2, <2>3
<1> QED
  BY <1>5, <1>6, <1>7, <1>8

LEMMA RangeJoined ==
  ASSUME NEW S, NEW s \in Seq(S), NEW t \in Seq(S)
  PROVE  /\ s \o t \in Seq(S) /\ Range(s \o t) = Range(s) \cup Range(t)
         /\ Distinct(s) /\ Distinct(t) /\ Range(s) \cap Range(t) = {} => Distinct(s \o t)
<1>1. PICK m \in Nat, n \in Nat : m = Len(s) /\ n = Len(t)
  OBVIOUS
<1>2. PICK u : u = s \o t
  OBVIOUS
<1>3. /\ u \in Seq(S) /\ Len(u) = m + n
      /\ \A i \in 1 .. m : u[i] = s[i]
      /\ \A i \in 1 .. n : u[m + i] = t[i]
  BY <1>1, <1>2
<1>4. \A i \in 1 .. m + n : i \in 1 .. m \/ \E j \in 1 .. n : i = m + j
  <2> TAKE i \in 1 .. m + n
  <2>1. CASE i > m
    <3>1. i - m \in 1 .. n /\ i = m + (i - m)
      BY <2>1
    <3> QED
      BY <3>1
  <2> QED
    BY <2>1
<1>5. \A i \in 1 .. n : m + i \in 1 .. m + n
  OBVIOUS
<1>6. \A i \in 1 .. m : i \in 1 .. m + n
  OBVIOUS
<1>7. \A q : In(q, u) <=> In(q, s) \/ In(q, t)
  <2> TAKE q
  <2>1. ASSUME NEW i \in 1 .. m, s[i] = q PROVE In(q, u)
    BY <1>3, <1>6, <2>1 DEF In
  <2>2. ASSUME NEW i \in 1 .. n, t[i] = q PROVE In(q, u)
    BY <1>3, <1>5, <2>2 DEF In
  <2>3. ASSUME NEW i \in 1 .. m + n, u[i] = q PROVE In(q, s) \/ In(q, t)
    <3>1. CASE i \in 1 .. m
      BY <1>1, <1>3, <2>3, <3>1 DEF In
    <3>2. ASSUME NEW j \in 1 .. n, i = m + j PROVE In(q, t)
      BY <1>1, <1>3, <2>3, <3>2 DEF In
    <3> QED
      BY <1>4, <3>1, <3>2
  <2>4. In(q, s) => In(q, u)
    BY <1>1, <2>1 DEF In
  <2>5. In(q, t) => In(q, u)
    BY <1>1, <2>2 DEF In
  <2>6. In(q, u) => In(q, s) \/ In(q, t)
    <3> SUFFICES ASSUME In(q, u) PROVE In(q, s) \/ In(q, t)
      OBVIOUS
    <3>1. PICK i \in 1 .. m + n : u[i] = q
      BY <1>3 DEF In
    <3> QED
      BY <2>3, <3>1
  <2> QED
    BY <2>4, <2>5, <2>6
<1>8. \A q : q \in Range(u) <=> q \in Range(s) \/ q \in Range(t)
  BY <1>3, <1>7, RangeIs, Zenon
<1>9. ASSUME Distinct(s), Distinct(t), Range(s) \cap Range(t) = {} PROVE Distinct(u)
  <2>1. \A i \in 1 .. m, j \in 1 .. n : s[i] # t[j]
    <3> SUFFICES ASSUME NEW i \in 1 .. m, NEW j \in 1 .. n, s[i] = t[j] PROVE FALSE
      OBVIOUS
    <3>1. In(s[i], s) /\ In(s[i], t)
      BY <1>1 DEF In
    <3>2. s[i] \in Range(s) /\ s[i] \in Range(t)
      BY <3>1, RangeIs, Zenon
    <3> QED
      BY <1>9, <3>2
  <2> SUFFICES ASSUME NEW i \in 1 .. m + n, NEW j \in 1 .. m + n, u[i] = u[j] PROVE i = j
    BY <1>3 DEF Distinct
  <2>2. CASE i \in 1 .. m /\ j \in 1 .. m
    BY <1>1, <1>3, <1>9, <2>2 DEF Distinct
  <2>3. ASSUME NEW x \in 1 .. n, i = m + x, j \in 1 .. m PROVE FALSE
    BY <1>3, <2>1, <2>3
  <2>4. ASSUME NEW x \in 1 .. n, j = m + x, i \in 1 .. m PROVE FALSE
    BY <1>3, <2>1, <2>4
  <2>5. ASSUME NEW x \in 1 .. n, i = m + x, NEW y \in 1 .. n, j = m + y PROVE i = j
    <3>1. t[x] = t[y]
      BY <1>3, <2>5
    <3> QED
      BY <1>1, <1>9, <2>5, <3>1 DEF Distinct
  <2> QED
    BY <1>4, <2>2, <2>3, <2>4, <2>5
<1> QED
  BY <1>2, <1>3, <1>8, <1>9

------------------------------------------------------------------------------
(* SlotFeed                                                                 *)

FeedNotice == [run : Nat, slot : Nat]
Before(x, y) == x.run < y.run \/ (x.run = y.run /\ x.slot <= y.slot)
NowSent == Notice(run, lastSlot)

FeedTypeOK ==
  /\ run \in Nat
  /\ lastSlot \in Nat
  /\ slots \in Seq(FeedNotice)
  /\ slotTask \in {"receive", "store", "ended"}
  /\ cache \in [current : FeedNotice, estimated : FeedNotice]

(* The line from the cache over what waits to what was sent last.           *)
FeedInOrder ==
  /\ Before(cache.estimated, cache.current)
  /\ Before(cache.current, NowSent)
  /\ \A i \in 1 .. Len(slots) : Before(cache.current, slots[i]) /\ Before(slots[i], NowSent)
  /\ \A i, j \in 1 .. Len(slots) : i < j => Before(slots[i], slots[j])

(* The last that was sent in this run waits, or is in the cache.            *)
LastArrives ==
  lastSlot > 0 /\ slotTask # "ended" =>
    NowSent = IF slots = << >> THEN cache.current ELSE slots[Len(slots)]

FeedInv ==
  /\ FeedTypeOK /\ FeedInOrder /\ LastArrives
  /\ slotTask = "receive" => cache.estimated = cache.current

LEMMA BeforeIsTransitive ==
  \A x, y, z \in FeedNotice : Before(x, y) /\ Before(y, z) => Before(x, z)
BY DEF Before, FeedNotice

LEMMA FeedInitInv == ASSUME FeedInit PROVE FeedInv
<1>1. PICK slot \in 1 .. FeedSlots :
        cache = [current |-> Notice(0, slot), estimated |-> Notice(0, slot)]
  BY DEF FeedInit
<1>2. slot \in Nat
  BY FeedAssumption DEF FeedAssumption
<1>3. FeedTypeOK
  BY <1>1, <1>2 DEF FeedInit, FeedTypeOK, FeedNotice, Notice
<1>4. FeedInOrder /\ LastArrives
  BY <1>1, <1>2 DEF FeedInit, FeedInOrder, LastArrives, Before, NowSent, Notice
<1> QED
  BY <1>1, <1>3, <1>4 DEF FeedInit, FeedInv

LEMMA FeedUpdateInv ==
  ASSUME FeedInv, NEW slot \in 1 .. FeedSlots, Update(slot) PROVE FeedInv'
<1> DEFINE kept == IF Len(slots) = FeedRoom THEN Tail(slots) ELSE slots
<1>1. slot \in Nat /\ FeedRoom \in Nat \ {0}
  BY FeedAssumption DEF FeedAssumption
<1>2. FeedTypeOK /\ FeedInOrder /\ slots \in Seq(FeedNotice)
  BY DEF FeedInv, FeedTypeOK
<1>3. /\ kept \in Seq(FeedNotice)
      /\ Len(kept) \in Nat
      /\ \E d \in {0, 1} : /\ Len(kept) + d = Len(slots)
                           /\ \A i \in 1 .. Len(kept) : kept[i] = slots[i + d]
  <2>1. CASE Len(slots) = FeedRoom
    <3>1. slots # << >>
      BY <1>1, <1>2, <2>1
    <3> QED
      BY <1>2, <2>1, <3>1
  <2>2. CASE Len(slots) # FeedRoom
    BY <1>2, <2>2
  <2> QED
    BY <2>1, <2>2
<1>4. /\ lastSlot' = slot /\ run' = run /\ slotTask' = slotTask /\ cache' = cache
      /\ lastSlot <= slot
  BY DEF Update, IsPassed, feedVars
<1>5. NowSent' = Notice(run, slot) /\ NowSent' \in FeedNotice
  BY <1>1, <1>2, <1>4 DEF NowSent, Notice, FeedNotice, FeedTypeOK
<1>6. \A x \in FeedNotice : Before(x, NowSent) => Before(x, NowSent')
  BY <1>1, <1>2, <1>4, <1>5 DEF FeedNotice, Before, NowSent, Notice, FeedTypeOK
<1>7. CASE slotTask = "ended"
  <2>1. slots' = << >>
    BY <1>7 DEF Update
  <2> QED
    <3>1. Before(cache.current, NowSent') /\ Before(cache.estimated, cache.current)
      BY <1>2, <1>6 DEF FeedInOrder, FeedTypeOK
    <3>2. FeedTypeOK' /\ FeedInOrder'
      BY <1>1, <1>2, <1>4, <2>1, <3>1 DEF FeedTypeOK, FeedInOrder
    <3> QED
      BY <1>4, <1>7, <3>2 DEF FeedInv, LastArrives
<1>8. CASE slotTask # "ended"
  <2>1. slots' = Append(kept, NowSent')
    BY <1>5, <1>8 DEF Update
  <2>2. /\ slots' \in Seq(FeedNotice) /\ Len(slots') = Len(kept) + 1
        /\ slots'[Len(slots')] = NowSent'
        /\ \A i \in 1 .. Len(kept) : slots'[i] = kept[i]
    BY <1>3, <1>5, <2>1
  <2>3. FeedTypeOK'
    BY <1>1, <1>2, <1>4, <2>1, <2>2 DEF FeedTypeOK
  <2>4. Before(NowSent', NowSent')
    BY <1>1, <1>2, <1>5 DEF Before, Notice, FeedTypeOK
  <2>5. \A i \in 1 .. Len(kept) : /\ Before(cache.current, kept[i]) /\ Before(kept[i], NowSent)
                                  /\ kept[i] \in FeedNotice
    BY <1>2, <1>3 DEF FeedInOrder
  <2>6. \A i, j \in 1 .. Len(kept) : i < j => Before(kept[i], kept[j])
    BY <1>2, <1>3 DEF FeedInOrder
  <2>7. FeedInOrder'
    <3>1. Before(cache.current, NowSent') /\ Before(cache.estimated, cache.current)
      BY <1>2, <1>6 DEF FeedInOrder, FeedTypeOK
    <3>2. \A i \in 1 .. Len(slots') : Before(cache.current, slots'[i]) /\ Before(slots'[i], NowSent')
      BY <1>3, <1>6, <2>2, <2>4, <2>5, <3>1
    <3>3. \A i, j \in 1 .. Len(slots') : i < j => Before(slots'[i], slots'[j])
      BY <1>3, <1>6, <2>2, <2>5, <2>6
    <3> QED
      BY <1>4, <3>1, <3>2, <3>3 DEF FeedInOrder
  <2>8. LastArrives'
    BY <1>3, <2>2 DEF LastArrives
  <2> QED
    BY <1>4, <2>3, <2>7, <2>8 DEF FeedInv
<1> QED
  BY <1>7, <1>8

LEMMA FeedStepInv == ASSUME FeedInv, [FeedNext]_feedVars PROVE FeedInv'
<1> USE DEF FeedInv
<1>1. CASE \E slot \in 1 .. FeedSlots : Update(slot)
  BY <1>1, FeedUpdateInv
<1>2. CASE Reconnect
  <2>1. \A x \in FeedNotice : Before(x, NowSent) => Before(x, NowSent')
    BY <1>2 DEF Reconnect, FeedTypeOK, Before, NowSent, Notice, FeedNotice
  <2>2. FeedTypeOK'
    BY <1>2 DEF Reconnect, FeedTypeOK
  <2>3. FeedInOrder'
    <3>1. \A i \in 1 .. Len(slots) : slots[i] \in FeedNotice
      BY DEF FeedTypeOK
    <3> QED
      BY <1>2, <2>1, <3>1 DEF Reconnect, FeedTypeOK, FeedInOrder
  <2> QED
    BY <1>2, <2>2, <2>3 DEF Reconnect, LastArrives
<1>3. CASE SlotTaskEnds
  <2>1. NowSent' = NowSent /\ slots' = << >> /\ cache' = cache /\ slotTask' = "ended"
    BY <1>3 DEF SlotTaskEnds, NowSent
  <2>2. FeedTypeOK'
    BY <1>3 DEF SlotTaskEnds, FeedTypeOK
  <2> QED
    BY <2>1, <2>2 DEF FeedInOrder, LastArrives
<1>4. CASE StoreCurrent
  <2>1. /\ slots \in Seq(FeedNotice) /\ slots # << >> /\ Len(slots) \in Nat \ {0}
        /\ slots' = Tail(slots) /\ slots' \in Seq(FeedNotice) /\ Len(slots') = Len(slots) - 1
        /\ \A i \in 1 .. Len(slots') : slots'[i] = slots[i + 1]
        /\ cache'.current = slots[1] /\ cache'.estimated = cache.estimated
        /\ cache' \in [current : FeedNotice, estimated : FeedNotice]
    BY <1>4 DEF StoreCurrent, FeedTypeOK
  <2>2. FeedTypeOK'
    BY <1>4, <2>1 DEF StoreCurrent, FeedTypeOK
  <2>3. NowSent' = NowSent
    BY <1>4 DEF StoreCurrent, NowSent
  <2>4. FeedInOrder'
    <3>1. Before(cache.estimated, slots[1])
      <4>1. slots[1] \in FeedNotice /\ Before(cache.current, slots[1])
        BY <2>1 DEF FeedInOrder
      <4> QED
        BY <4>1, BeforeIsTransitive DEF FeedInOrder, FeedTypeOK
    <3> QED
      BY <2>1, <2>3, <3>1 DEF FeedInOrder
  <2>5. LastArrives'
    <3>1. CASE slots' = << >>
      <4>1. Len(slots) = 1 /\ slots' = << >>
        BY <2>1, <3>1, SMTT(30)
      <4>2. lastSlot > 0 => NowSent = cache'.current
        BY <1>4, <2>1, <4>1 DEF StoreCurrent, LastArrives
      <4> QED
        BY <1>4, <2>3, <4>1, <4>2 DEF StoreCurrent, LastArrives
    <3>2. CASE slots' # << >>
      <4>1. Len(slots') \in 1 .. Len(slots') /\ slots'[Len(slots')] = slots[Len(slots)]
        BY <2>1, <3>2
      <4> QED
        BY <1>4, <2>1, <2>3, <3>2, <4>1 DEF StoreCurrent, LastArrives
    <3> QED
      BY <3>1, <3>2
  <2> QED
    BY <1>4, <2>2, <2>4, <2>5 DEF StoreCurrent
<1>5. CASE StoreEstimated
  <2>1. /\ cache'.current = cache.current /\ cache'.estimated = cache.current
        /\ cache' \in [current : FeedNotice, estimated : FeedNotice]
    BY <1>5 DEF StoreEstimated, FeedTypeOK
  <2>2. /\ UNCHANGED <<run, lastSlot, slots>> /\ NowSent' = NowSent
        /\ slotTask = "store" /\ slotTask' = "receive"
    BY <1>5 DEF StoreEstimated, NowSent
  <2>3. FeedTypeOK' /\ LastArrives'
    BY <2>1, <2>2 DEF FeedTypeOK, LastArrives
  <2>4. Before(cache.current, cache.current)
    BY DEF FeedTypeOK, Before, FeedNotice
  <2>5. FeedInOrder'
    BY <2>1, <2>2, <2>4 DEF FeedInOrder
  <2> QED
    BY <2>1, <2>3, <2>5
<1>6. CASE UNCHANGED feedVars
  BY <1>6 DEF feedVars, FeedTypeOK, FeedInOrder, LastArrives, NowSent
<1> QED
  BY <1>1, <1>2, <1>3, <1>4, <1>5, <1>6 DEF FeedNext

LEMMA FeedInvFollows == ASSUME FeedInv PROVE CacheFollowsFeed
<1> DEFINE line == <<cache.estimated, cache.current>> \o slots
<1>1. /\ slots \in Seq(FeedNotice) /\ Len(slots) \in Nat
      /\ cache.estimated \in FeedNotice /\ cache.current \in FeedNotice
  BY DEF FeedInv, FeedTypeOK
<1>2. /\ DOMAIN line = 1 .. Len(slots) + 2 /\ Len(line) = Len(slots) + 2
      /\ line[1] = cache.estimated /\ line[2] = cache.current
      /\ \A i \in 1 .. Len(slots) : line[i + 2] = slots[i]
  BY <1>1
<1>3. \A i, j \in DOMAIN line : i < j => Before(line[i], line[j])
  <2> SUFFICES ASSUME NEW i \in DOMAIN line, NEW j \in DOMAIN line, i < j
               PROVE  Before(line[i], line[j])
    OBVIOUS
  <2>1. CASE j = 2
    BY <1>2, <2>1 DEF FeedInv, FeedInOrder
  <2>2. CASE j > 2
    <3>1. j - 2 \in 1 .. Len(slots) /\ line[j] = slots[j - 2]
      BY <1>1, <1>2, <2>2
    <3>2. Before(cache.current, line[j]) /\ line[j] \in FeedNotice
      BY <1>1, <3>1 DEF FeedInv, FeedInOrder
    <3>3. Before(cache.estimated, line[j])
      <4>1. Before(cache.estimated, cache.current)
        BY DEF FeedInv, FeedInOrder
      <4> HIDE DEF line
      <4> QED
        BY <1>1, <3>2, <4>1, BeforeIsTransitive
    <3>4. CASE i > 2
      <4>1. i - 2 \in 1 .. Len(slots) /\ line[i] = slots[i - 2] /\ i - 2 < j - 2
        BY <1>1, <1>2, <3>4
      <4> QED
        BY <3>1, <4>1 DEF FeedInv, FeedInOrder
    <3>5. CASE i \in {1, 2}
      BY <1>2, <3>2, <3>3, <3>5
    <3> QED
      BY <1>1, <1>2, <3>4, <3>5
  <2> QED
    BY <1>1, <1>2, <2>1, <2>2
<1>4. \A i \in DOMAIN line : line[i] \in FeedNotice
  <2> SUFFICES ASSUME NEW i \in DOMAIN line PROVE line[i] \in FeedNotice
    OBVIOUS
  <2>1. CASE i > 2
    <3>1. i - 2 \in 1 .. Len(slots) /\ line[i] = slots[i - 2]
      BY <1>1, <1>2, <2>1
    <3> QED
      BY <1>1, <3>1
  <2> QED
    BY <1>1, <1>2, <2>1
<1>5. lastSlot > 0 /\ slotTask # "ended" => line[Len(line)] = Notice(run, lastSlot)
  BY <1>1, <1>2 DEF FeedInv, LastArrives, NowSent
<1> HIDE DEF line
<1>6. \A i, j \in DOMAIN line : i < j =>
        /\ line[i].run <= line[j].run
        /\ line[i].run = line[j].run => line[i].slot <= line[j].slot
  BY <1>3, <1>4 DEF Before, FeedNotice
<1> QED
  BY <1>5, <1>6 DEF CacheFollowsFeed, FeedInv, line

(* The feed of slots from the gRPC sources and the slot cache,              *)
(* grpc_multiplex.rs and data_caching_service.rs, in every reachable state. *)
THEOREM FeedInvariant == FeedSpec => [](FeedInv /\ CacheFollowsFeed)
<1> QED
  BY FeedInitInv, FeedStepInv, FeedInvFollows, PTL DEF FeedSpec

------------------------------------------------------------------------------
(* LeaderSchedule                                                           *)

SlotNotice == [slot : Nat, estimate : Nat]

LeadersTypeOK ==
  /\ chain \in Nat \ {0}
  /\ updates \in Seq(Nat)
  /\ current \in Nat /\ estimated \in Nat
  /\ notices \in Seq(SlotNotice)
  /\ window \in Seq(Nat)
  /\ schedule \in [current : Nat, next : Nat]

(* The notices rise, up to where the estimating task is.                    *)
NoticesInOrder ==
  /\ current <= estimated /\ estimated <= current + MaxAhead
  /\ \A i \in 1 .. Len(notices) :
       /\ notices[i].slot <= notices[i].estimate
       /\ notices[i].estimate <= notices[i].slot + MaxAhead
       /\ notices[i].slot <= current /\ notices[i].estimate <= estimated
  /\ \A i, j \in 1 .. Len(notices) : i < j =>
       /\ notices[i].slot <= notices[j].slot
       /\ notices[i].estimate <= notices[j].estimate

(* The window has no gap, and begins before all that will be asked for.     *)
NoGap == \A i \in 1 .. Len(window) : window[i] = window[1] + i - 1

BeginsBefore ==
  window # << >> =>
    /\ window[1] <= Minus(current, Behind)
    /\ \A i \in 1 .. Len(notices) : window[1] <= Minus(notices[i].slot, Behind)

WindowIsAhead == NoGap /\ BeginsBefore /\ FanoutIsComplete

(* The next epoch is known with the current one only.                       *)
NextFollows ==
  schedule.next # 0 => schedule.next = schedule.current + 1 /\ schedule.current # 0

LeadersInv == LeadersTypeOK /\ NoticesInOrder /\ WindowIsAhead /\ NextFollows

LEMMA LeaderConstants ==
  /\ MaxSlot \in Nat /\ MaxAhead \in Nat /\ Behind \in Nat /\ Fanout \in Nat
  /\ CacheCount \in Nat /\ OldCount \in Nat /\ EpochSlots \in Nat \ {0}
  /\ MaxAhead + Behind + Fanout < CacheCount
BY LeadersAssumption DEF LeadersAssumption

LEMMA MinusType ==
  ASSUME NEW a \in Nat, NEW b \in Nat
  PROVE  Minus(a, b) \in Nat /\ Minus(a, b) <= a /\ a <= Minus(a, b) + b
BY DEF Minus

LEMMA MinusRises ==
  ASSUME NEW a \in Nat, NEW b \in Nat, NEW d \in Nat, a <= d
  PROVE  Minus(a, b) <= Minus(d, b)
BY DEF Minus

(* What a notification does to the notices.                                 *)
LEMMA NotifyInOrder ==
  ASSUME LeadersTypeOK, NoticesInOrder, BeginsBefore,
         current' \in Nat, estimated' \in Nat, current <= current', estimated <= estimated',
         current' <= estimated', estimated' <= current' + MaxAhead,
         Notify(current', estimated'), window' = window
  PROVE  notices' \in Seq(SlotNotice) /\ NoticesInOrder' /\ BeginsBefore'
<1> DEFINE new == [slot |-> current', estimate |-> estimated']
           n == Len(notices)
<1>1. /\ new \in SlotNotice /\ new.slot = current' /\ new.estimate = estimated'
      /\ n \in Nat /\ notices \in Seq(SlotNotice)
      /\ \A i \in 1 .. n : notices[i] \in SlotNotice
  <2>1. new \in SlotNotice /\ new.slot = current' /\ new.estimate = estimated'
    BY DEF SlotNotice
  <2>2. notices \in Seq(SlotNotice)
    BY DEF LeadersTypeOK
  <2>3. n \in Nat /\ \A i \in 1 .. n : notices[i] \in SlotNotice
    BY <2>2
  <2> QED
    BY <2>1, <2>2, <2>3
<1>2. notices' = Append(notices, new)
  BY DEF Notify
<1> HIDE DEF new
<1>3. /\ notices' \in Seq(SlotNotice) /\ Len(notices') = n + 1
      /\ notices'[n + 1] = new
      /\ \A i \in 1 .. n : notices'[i] = notices[i]
  BY <1>1, <1>2
<1>4. \A i \in 1 .. n : /\ notices[i].slot \in Nat /\ notices[i].estimate \in Nat
                        /\ notices[i].slot <= current' /\ notices[i].estimate <= estimated'
                        /\ notices[i].slot <= notices[i].estimate
                        /\ notices[i].estimate <= notices[i].slot + MaxAhead
  <2> SUFFICES ASSUME NEW i \in 1 .. n
               PROVE  /\ notices[i].slot \in Nat /\ notices[i].estimate \in Nat
                      /\ notices[i].slot <= current' /\ notices[i].estimate <= estimated'
                      /\ notices[i].slot <= notices[i].estimate
                      /\ notices[i].estimate <= notices[i].slot + MaxAhead
    OBVIOUS
  <2>1. /\ notices[i].slot \in Nat /\ notices[i].estimate \in Nat
        /\ current \in Nat /\ estimated \in Nat /\ MaxAhead \in Nat
    BY <1>1, LeaderConstants DEF SlotNotice, LeadersTypeOK
  <2>2. /\ notices[i].slot <= current /\ notices[i].estimate <= estimated
        /\ notices[i].slot <= notices[i].estimate
        /\ notices[i].estimate <= notices[i].slot + MaxAhead
    BY DEF NoticesInOrder
  <2> HIDE DEF n
  <2> QED
    BY <2>1, <2>2
<1>5. NoticesInOrder'
  <2>1. \A i \in 1 .. Len(notices') :
          /\ notices'[i].slot <= notices'[i].estimate
          /\ notices'[i].estimate <= notices'[i].slot + MaxAhead
          /\ notices'[i].slot <= current' /\ notices'[i].estimate <= estimated'
    <3> SUFFICES ASSUME NEW i \in 1 .. Len(notices')
                 PROVE  /\ notices'[i].slot <= notices'[i].estimate
                        /\ notices'[i].estimate <= notices'[i].slot + MaxAhead
                        /\ notices'[i].slot <= current' /\ notices'[i].estimate <= estimated'
      OBVIOUS
    <3>1. CASE i = n + 1
      BY <1>1, <1>3, <3>1
    <3>2. CASE i # n + 1
      <4>1. i \in 1 .. n
        BY <1>1, <1>3, <3>2
      <4> QED
        BY <1>3, <1>4, <4>1
    <3> QED
      BY <3>1, <3>2
  <2>2. \A i, j \in 1 .. Len(notices') : i < j =>
          /\ notices'[i].slot <= notices'[j].slot
          /\ notices'[i].estimate <= notices'[j].estimate
    <3> SUFFICES ASSUME NEW i \in 1 .. Len(notices'), NEW j \in 1 .. Len(notices'), i < j
                 PROVE  /\ notices'[i].slot <= notices'[j].slot
                        /\ notices'[i].estimate <= notices'[j].estimate
      OBVIOUS
    <3>1. i \in 1 .. n
      BY <1>1, <1>3
    <3>2. CASE j = n + 1
      BY <1>1, <1>3, <1>4, <3>1, <3>2
    <3>3. CASE j # n + 1
      <4>1. j \in 1 .. n
        BY <1>1, <1>3, <3>3
      <4> QED
        BY <1>3, <3>1, <4>1 DEF NoticesInOrder
    <3> QED
      BY <3>2, <3>3
  <2> QED
    BY <2>1, <2>2 DEF NoticesInOrder
<1>6. BeginsBefore'
  <2> SUFFICES ASSUME window # << >>
               PROVE  /\ window[1] <= Minus(current', Behind)
                      /\ \A i \in 1 .. Len(notices') : window[1] <= Minus(notices'[i].slot, Behind)
    BY DEF BeginsBefore
  <2>1. window[1] \in Nat /\ current \in Nat /\ Behind \in Nat
    BY LeaderConstants DEF LeadersTypeOK
  <2>2. window[1] <= Minus(current', Behind)
    <3>1. /\ Minus(current, Behind) \in Nat /\ Minus(current', Behind) \in Nat
          /\ Minus(current, Behind) <= Minus(current', Behind)
      BY <2>1, MinusType, MinusRises
    <3> QED
      BY <2>1, <3>1 DEF BeginsBefore
  <2>3. ASSUME NEW i \in 1 .. Len(notices') PROVE window[1] <= Minus(notices'[i].slot, Behind)
    <3>1. CASE i = n + 1
      BY <1>1, <1>3, <2>2, <3>1
    <3>2. CASE i # n + 1
      <4>1. i \in 1 .. n
        BY <1>1, <1>3, <3>2
      <4> QED
        BY <1>3, <4>1 DEF BeginsBefore
    <3> QED
      BY <3>1, <3>2
  <2> QED
    BY <2>2, <2>3
<1> QED
  BY <1>3, <1>5, <1>6

(* What is kept of the window begins where it must, wherever that is.       *)
LEMMA FirstKeptIs ==
  ASSUME window \in Seq(Nat), NoGap, NEW slot \in Nat
  PROVE  /\ FirstKept(slot) \in 1 .. Len(window) + 1
         /\ \A j \in 1 .. FirstKept(slot) - 1 : window[j] < Minus(slot, OldCount)
<1> DEFINE m == Minus(slot, OldCount)
           P(i) == /\ \A j \in 1 .. i - 1 : window[j] < m
                   /\ i <= Len(window) => window[i] >= m
<1>1. m \in Nat /\ Len(window) \in Nat /\ \A i \in 1 .. Len(window) : window[i] \in Nat
  <2>1. m \in Nat
    BY LeaderConstants, MinusType
  <2> QED
    BY <2>1
<1> HIDE DEF m
<1>2. \E i \in 1 .. Len(window) + 1 : P(i)
  <2>1. CASE Len(window) = 0 \/ window[1] >= m
    <3>1. P(1) /\ 1 \in 1 .. Len(window) + 1
      BY <1>1, <2>1
    <3> QED
      BY <3>1
  <2>2. CASE Len(window) # 0 /\ ~(window[1] >= m) /\ m <= window[1] + Len(window) - 1
    <3> DEFINE i == m - window[1] + 1
    <3>1. i \in 1 .. Len(window)
      BY <1>1, <2>2
    <3>2. window[i] = m
      BY <1>1, <2>2, <3>1, SMTT(30) DEF NoGap
    <3>3. \A j \in 1 .. i - 1 : window[j] < m
      <4> SUFFICES ASSUME NEW j \in 1 .. i - 1 PROVE window[j] < m
        OBVIOUS
      <4>1. j \in 1 .. Len(window) /\ j < i
        BY <1>1, <3>1
      <4>2. window[j] = window[1] + j - 1
        BY <4>1 DEF NoGap
      <4> QED
        BY <1>1, <2>2, <4>1, <4>2
    <3> HIDE DEF i
    <3>4. P(i)
      BY <1>1, <3>1, <3>2, <3>3
    <3> QED
      BY <1>1, <3>1, <3>4
  <2>3. CASE Len(window) # 0 /\ ~(window[1] >= m) /\ ~(m <= window[1] + Len(window) - 1)
    <3>1. P(Len(window) + 1)
      BY <1>1, <2>3 DEF NoGap
    <3> QED
      BY <1>1, <3>1
  <2> QED
    BY <1>1, <2>1, <2>2, <2>3
<1>3. FirstKept(slot) = CHOOSE i \in 1 .. Len(window) + 1 : P(i)
  BY DEF FirstKept, m
<1> DEFINE k == FirstKept(slot)
<1>4. k \in 1 .. Len(window) + 1 /\ P(k)
  <2> HIDE DEF P
  <2> QED
    BY <1>2, <1>3
<1> QED
  BY <1>4 DEF m

(* The slots from a on, without a gap.                                      *)
Run(s, a) == \A i \in 1 .. Len(s) : s[i] = a + i - 1

LEMMA JoinedAt ==
  ASSUME NEW s \in Seq(Nat), NEW t \in Seq(Nat)
  PROVE  \A i \in 1 .. Len(s) + Len(t) :
           (s \o t)[i] = IF i <= Len(s) THEN s[i] ELSE t[i - Len(s)]
OBVIOUS

LEMMA RunExtended ==
  ASSUME NEW s \in Seq(Nat), NEW a \in Nat, NEW d \in Nat, NEW first \in Nat,
         Run(s, a), first = a + Len(s)
  PROVE  LET t == s \o [i \in 1 .. d |-> first + i - 1]
         IN  t \in Seq(Nat) /\ Len(t) = Len(s) + d /\ Run(t, a)
<1> DEFINE more == [i \in 1 .. d |-> first + i - 1]
           t == s \o more
<1>1. Len(s) \in Nat
  OBVIOUS
<1>2. more \in Seq(Nat) /\ Len(more) = d /\ \A i \in 1 .. d : more[i] = first + i - 1
  OBVIOUS
<1> HIDE DEF more
<1>3. t \in Seq(Nat)
  BY <1>2
<1>4. Len(t) = Len(s) + d
  BY <1>2, SMTT(30)
<1>5. \A i \in 1 .. Len(s) + d : t[i] = IF i <= Len(s) THEN s[i] ELSE more[i - Len(s)]
  BY <1>2
<1> HIDE DEF t
<1>6. Run(t, a)
  <2> SUFFICES ASSUME NEW i \in 1 .. Len(s) + d PROVE t[i] = a + i - 1
    BY <1>4 DEF Run
  <2>1. CASE i <= Len(s)
    BY <1>1, <1>5, <2>1 DEF Run
  <2>2. CASE i > Len(s)
    <3>1. i - Len(s) \in 1 .. d
      BY <1>1, <2>2
    <3>2. t[i] = first + (i - Len(s)) - 1
      BY <1>1, <1>2, <1>5, <2>2, <3>1
    <3> QED
      BY <1>1, <3>2
  <2> QED
    BY <1>1, <2>1, <2>2
<1> QED
  BY <1>3, <1>4, <1>6 DEF t, more

LEMMA RunKept ==
  ASSUME NEW s \in Seq(Nat), NEW a \in Nat, Run(s, a), NEW k \in 1 .. Len(s) + 1
  PROVE  LET t == SubSeq(s, k, Len(s))
         IN  t \in Seq(Nat) /\ Len(t) = Len(s) + 1 - k /\ Run(t, a + k - 1)
<1> DEFINE t == SubSeq(s, k, Len(s))
<1>1. Len(s) \in Nat /\ k \in Nat
  OBVIOUS
<1>2. t \in Seq(Nat)
  BY <1>1
<1>3. Len(t) = Len(s) + 1 - k
  BY <1>1
<1>4. \A i \in 1 .. Len(s) + 1 - k : t[i] = s[k + i - 1]
  BY <1>1
<1> HIDE DEF t
<1>5. Run(t, a + k - 1)
  <2> SUFFICES ASSUME NEW i \in 1 .. Len(s) + 1 - k PROVE t[i] = (a + k - 1) + i - 1
    BY <1>3 DEF Run
  <2>1. k + i - 1 \in 1 .. Len(s)
    BY <1>1
  <2> QED
    BY <1>1, <1>4, <2>1 DEF Run
<1> QED
  BY <1>2, <1>3, <1>5 DEF t

(* When the slots asked for are not in the window, afterwards they are.     *)
LEMMA UpdatedCovers ==
  ASSUME window \in Seq(Nat), NoGap, NEW from \in Nat, NEW to \in Nat,
         window # << >> => window[1] <= from, to < from + CacheCount
  PROVE  LET after == Updated(from)
         IN  /\ after \in Seq(Nat) /\ after # << >>
             /\ \E b \in Nat : Run(after, b) /\ b <= from /\ to < b + Len(after)
<1>1. PICK n \in Nat : n = Len(window)
  OBVIOUS
<1>2. PICK k \in 1 .. n + 1 : k = FirstKept(from)
  BY <1>1, FirstKeptIs
<1>3. PICK m \in Nat : m = Minus(from, OldCount) /\ m <= from
  BY LeaderConstants, MinusType
<1>4. \A j \in 1 .. k - 1 : window[j] < m
  BY <1>2, <1>3, FirstKeptIs
<1>5. PICK a \in Nat : Run(window, a) /\ a <= from
  <2>1. CASE window = << >>
    BY <2>1 DEF Run
  <2>2. CASE window # << >>
    <3>1. window[1] \in Nat
      BY <2>2
    <3> QED
      BY <2>2, <3>1 DEF Run, NoGap
  <2> QED
    BY <2>1, <2>2
<1>6. PICK kept \in Seq(Nat) : /\ kept = SubSeq(window, k, n)
                               /\ Len(kept) = n + 1 - k /\ Run(kept, a + k - 1)
  BY <1>1, <1>5, RunKept
<1>7. k <= n => a + k - 1 <= from
  <2>1. CASE k = 1
    BY <1>5, <2>1
  <2>2. CASE k > 1 /\ k <= n
    <3>1. k - 1 \in 1 .. k - 1 /\ k - 1 \in 1 .. n
      BY <2>2
    <3>2. window[k - 1] < m /\ window[k - 1] = a + (k - 1) - 1
      BY <1>1, <1>4, <1>5, <3>1 DEF Run
    <3> QED
      BY <1>3, <3>2
  <2> QED
    BY <2>1, <2>2
<1> DEFINE first == IF kept = << >> THEN from ELSE kept[Len(kept)] + 1
<1>8. PICK c \in Nat : Run(kept, c) /\ c <= from /\ first = c + Len(kept)
  <2>1. CASE k = n + 1
    <3>1. kept = << >> /\ Len(kept) = 0
      BY <1>6, <2>1
    <3> QED
      BY <3>1 DEF Run
  <2>2. CASE k <= n
    <3>1. Len(kept) \in Nat /\ Len(kept) \in 1 .. Len(kept) /\ kept # << >>
      <4>1. Len(kept) \in Nat /\ Len(kept) = n + 1 - k
        BY <1>6
      <4>2. Len(kept) > 0
        BY <2>2, <4>1
      <4> QED
        BY <4>1, <4>2
    <3>2. kept[Len(kept)] = (a + k - 1) + Len(kept) - 1
      BY <1>6, <3>1 DEF Run
    <3>3. first = (a + k - 1) + Len(kept) /\ a + k - 1 \in Nat
      BY <3>1, <3>2
    <3> QED
      BY <1>6, <1>7, <2>2, <3>3
  <2> QED
    BY <2>1, <2>2
<1>9. Len(kept) \in Nat /\ first \in Nat /\ CacheCount \in Nat
  BY <1>8, LeaderConstants
<1>10. PICK d \in Nat : d = Minus(from + CacheCount, first) /\ from + CacheCount <= d + first
  <2>1. from + CacheCount \in Nat
    BY <1>9
  <2> HIDE DEF first
  <2> QED
    BY <1>9, <2>1, MinusType
<1> DEFINE after == kept \o [i \in 1 .. d |-> first + i - 1]
<1>11. Updated(from) = after
  BY <1>1, <1>2, <1>6, <1>10 DEF Updated
<1> HIDE DEF first
<1>12. after \in Seq(Nat) /\ Len(after) = Len(kept) + d /\ Run(after, c)
  BY <1>8, <1>9, RunExtended
<1> HIDE DEF after
<1>13. Len(after) > 0 /\ to < c + Len(after)
  <2>1. Len(after) \in Nat /\ Len(after) = Len(kept) + d
    BY <1>12
  <2> QED
    BY <1>8, <1>9, <1>10, <2>1, LeaderConstants, SMTT(30)
<1> QED
  BY <1>8, <1>11, <1>12, <1>13

(* The leaders around a notification.                                       *)
LEMMA AnswerIsComplete ==
  ASSUME LeadersInv, UpdateQuicConnections PROVE LeadersInv'
<1> DEFINE head == Head(notices)
           from == Minus(head.slot, Behind)
           to == head.estimate + Fanout
           n == Len(notices)
<1>0. LeadersTypeOK /\ NoticesInOrder /\ NoGap /\ BeginsBefore
  BY DEF LeadersInv, WindowIsAhead
<1>1. /\ notices # << >> /\ notices' = Tail(notices)
      /\ UNCHANGED <<chain, updates, current, estimated, schedule>>
  BY DEF UpdateQuicConnections
<1>2. /\ notices \in Seq(SlotNotice) /\ n \in Nat /\ n > 0
      /\ notices' \in Seq(SlotNotice) /\ Len(notices') = n - 1
      /\ \A i \in 1 .. n - 1 : notices'[i] = notices[i + 1]
      /\ head = notices[1] /\ head \in SlotNotice
  BY <1>0, <1>1 DEF LeadersTypeOK
<1>3. /\ head.slot \in Nat /\ head.estimate \in Nat
      /\ head.slot <= head.estimate /\ head.estimate <= head.slot + MaxAhead
      /\ head.slot <= current
      /\ \A i \in 1 .. n : notices[i].slot \in Nat /\ head.slot <= notices[i].slot
  <2>1. \A i \in 1 .. n : notices[i].slot \in Nat /\ notices[i].estimate \in Nat
    <3>1. \A i \in 1 .. n : notices[i] \in SlotNotice
      BY <1>2
    <3> QED
      BY <3>1 DEF SlotNotice
  <2>2. 1 \in 1 .. n
    BY <1>2
  <2>3. \A i \in 1 .. n : notices[1].slot <= notices[i].slot
    BY <1>0, <1>2, <2>1, <2>2 DEF NoticesInOrder
  <2> QED
    BY <1>0, <1>2, <2>1, <2>2, <2>3 DEF NoticesInOrder
<1>4. /\ from \in Nat /\ to \in Nat /\ to < from + CacheCount
      /\ from <= Minus(current, Behind)
      /\ \A i \in 1 .. n : from <= Minus(notices[i].slot, Behind)
      /\ \A i \in 1 .. n : Minus(notices[i].slot, Behind) \in Nat
      /\ Minus(current, Behind) \in Nat
  <2>1. from \in Nat /\ head.slot <= from + Behind
    BY <1>3, LeaderConstants, MinusType
  <2>2. from <= Minus(current, Behind) /\ Minus(current, Behind) \in Nat
    BY <1>0, <1>3, LeaderConstants, MinusType, MinusRises DEF LeadersTypeOK
  <2>3. \A i \in 1 .. n : /\ from <= Minus(notices[i].slot, Behind)
                          /\ Minus(notices[i].slot, Behind) \in Nat
    BY <1>3, LeaderConstants, MinusType, MinusRises
  <2>4. to \in Nat /\ to < from + CacheCount
    BY <1>3, <2>1, LeaderConstants
  <2> QED
    BY <2>1, <2>2, <2>3, <2>4
<1>5. window # << >> => window[1] <= from
  BY <1>0, <1>2 DEF BeginsBefore
<1>6. window \in Seq(Nat) /\ current \in Nat
  BY <1>0 DEF LeadersTypeOK
<1>7. NoticesInOrder'
  <2>1. \A i \in 1 .. n - 1 : i + 1 \in 1 .. n
    BY <1>2
  <2> QED
    BY <1>0, <1>1, <1>2, <2>1 DEF NoticesInOrder
<1>8. NextFollows'
  BY <1>1 DEF LeadersInv, NextFollows
<1> HIDE DEF head, from, to
<1>9. CASE /\ window' = IF Covers(from, to) THEN window ELSE Updated(from)
           /\ asked' = [from |-> from, to |-> to,
                        answer |-> {window'[i] : i \in DOMAIN window'} \cap from .. to]
  <2>1. window' \in Seq(Nat) /\ window' # << >>
    BY <1>4, <1>5, <1>6, <1>0, <1>9, UpdatedCovers DEF Covers
  <2>2. PICK b \in Nat : Run(window', b) /\ b <= from /\ to < b + Len(window')
    <3>1. CASE Covers(from, to)
      <4>1. /\ window[1] \in Nat /\ Len(window) \in Nat /\ Len(window) \in 1 .. Len(window)
            /\ window[1] <= from /\ to <= window[Len(window)]
        BY <1>5, <1>6, <3>1 DEF Covers
      <4>2. Run(window, window[1])
        BY <1>0 DEF NoGap, Run
      <4>3. window[Len(window)] = window[1] + Len(window) - 1
        BY <4>1, <4>2 DEF Run
      <4>4. window' = window
        BY <1>9, <3>1
      <4> QED
        BY <1>4, <4>1, <4>2, <4>3, <4>4
    <3>2. CASE ~Covers(from, to)
      BY <1>0, <1>4, <1>5, <1>6, <1>9, <3>2, UpdatedCovers
    <3> QED
      BY <3>1, <3>2
  <2>3. /\ Len(window') \in Nat /\ DOMAIN window' = 1 .. Len(window') /\ 1 \in 1 .. Len(window')
        /\ window'[1] = b /\ NoGap'
    <3>1. Len(window') \in Nat /\ DOMAIN window' = 1 .. Len(window') /\ 1 \in 1 .. Len(window')
      BY <2>1
    <3>2. window'[1] = b
      BY <2>2, <3>1 DEF Run
    <3> QED
      BY <2>2, <3>1, <3>2 DEF Run, NoGap
  <2>7. from .. to \subseteq {window'[i] : i \in DOMAIN window'}
    <3> SUFFICES ASSUME NEW s \in from .. to PROVE \E i \in 1 .. Len(window') : s = window'[i]
      BY <2>3
    <3>1. s - b + 1 \in 1 .. Len(window')
      BY <1>4, <2>2, <2>3
    <3>2. window'[s - b + 1] = b + (s - b + 1) - 1
      BY <2>2, <3>1 DEF Run
    <3>3. window'[s - b + 1] = s
      BY <1>4, <2>2, <3>2
    <3> QED
      BY <3>1, <3>3
  <2>4. FanoutIsComplete'
    <3>1. asked'.answer = from .. to /\ asked'.from = from /\ asked'.to = to
      BY <1>9, <2>7
    <3> QED
      BY <3>1 DEF FanoutIsComplete
  <2>5. BeginsBefore'
    <3>1. \A i \in 1 .. n - 1 : i + 1 \in 1 .. n
      BY <1>2
    <3>2. window'[1] <= Minus(current', Behind)
      BY <1>1, <1>4, <2>2, <2>3
    <3>3. \A i \in 1 .. n : b <= Minus(notices[i].slot, Behind)
      BY <1>4, <2>2
    <3>4. \A i \in 1 .. n - 1 : window'[1] <= Minus(notices'[i].slot, Behind)
      BY <1>2, <2>3, <3>1, <3>3
    <3> QED
      BY <1>2, <3>2, <3>4 DEF BeginsBefore
  <2>6. NoGap' /\ LeadersTypeOK'
    BY <1>0, <1>1, <1>2, <2>1, <2>3 DEF LeadersTypeOK
  <2> QED
    BY <1>7, <1>8, <2>4, <2>5, <2>6 DEF LeadersInv, WindowIsAhead
<1>10. CASE UNCHANGED <<window, asked>>
  <2>1. BeginsBefore'
    <3>1. \A i \in 1 .. n - 1 : i + 1 \in 1 .. n
      BY <1>2
    <3> QED
      BY <1>0, <1>1, <1>2, <1>10, <3>1 DEF BeginsBefore
  <2>2. LeadersTypeOK' /\ NoGap' /\ FanoutIsComplete'
    BY <1>0, <1>1, <1>2, <1>10 DEF LeadersTypeOK, NoGap, FanoutIsComplete, LeadersInv, WindowIsAhead
  <2> QED
    BY <1>7, <1>8, <2>1, <2>2 DEF LeadersInv, WindowIsAhead
<1> QED
  BY <1>9, <1>10 DEF UpdateQuicConnections, from, to, head

LEMMA LeadersStepInv == ASSUME LeadersInv, [LeadersNext]_leaderVars PROVE LeadersInv'
<1>0. LeadersTypeOK /\ NoticesInOrder /\ NoGap /\ BeginsBefore /\ FanoutIsComplete /\ NextFollows
  BY DEF LeadersInv, WindowIsAhead
<1>1. CASE SlotUpdate
  <2> DEFINE slot == Head(updates)
  <2>1. /\ slot \in Nat /\ updates' \in Seq(Nat)
        /\ UNCHANGED <<chain, window, asked, schedule>>
    BY <1>0, <1>1 DEF SlotUpdate, LeadersTypeOK
  <2>2. CASE slot > current
    <3>1. /\ current' = slot /\ estimated' = IF slot > estimated THEN slot ELSE estimated
          /\ Notify(current', estimated')
      BY <1>1, <2>2 DEF SlotUpdate
    <3>2. current \in Nat /\ estimated \in Nat /\ estimated <= current + MaxAhead
      BY <1>0 DEF LeadersTypeOK, NoticesInOrder
    <3> HIDE DEF slot
    <3>3. /\ current' \in Nat /\ estimated' \in Nat /\ current <= current' /\ estimated <= estimated'
          /\ current' <= estimated' /\ estimated' <= current' + MaxAhead
      BY <2>1, <2>2, <3>1, <3>2, LeaderConstants
    <3>4. notices' \in Seq(SlotNotice) /\ NoticesInOrder' /\ BeginsBefore'
      BY <1>0, <2>1, <3>1, <3>3, NotifyInOrder
    <3> QED
      BY <1>0, <2>1, <3>3, <3>4
      DEF LeadersInv, LeadersTypeOK, WindowIsAhead, NoGap, FanoutIsComplete, NextFollows
  <2>3. CASE ~(slot > current)
    <3>1. UNCHANGED <<current, estimated, notices>>
      BY <1>1, <2>3 DEF SlotUpdate
    <3> QED
      BY <1>0, <2>1, <3>1 DEF LeadersInv, LeadersTypeOK, NoticesInOrder, WindowIsAhead, NoGap,
         BeginsBefore, FanoutIsComplete, NextFollows
  <2> QED
    BY <2>2, <2>3
<1>2. CASE Estimate
  <2>1. /\ estimated < current + MaxAhead /\ estimated' = estimated + 1 /\ current' = current
        /\ Notify(current', estimated')
        /\ UNCHANGED <<chain, updates, window, asked, schedule>>
    BY <1>2 DEF Estimate
  <2>2. /\ current' \in Nat /\ estimated' \in Nat /\ current <= current' /\ estimated <= estimated'
        /\ current' <= estimated' /\ estimated' <= current' + MaxAhead
    BY <1>0, <2>1, LeaderConstants, SMTT(30) DEF LeadersTypeOK, NoticesInOrder
  <2>3. notices' \in Seq(SlotNotice) /\ NoticesInOrder' /\ BeginsBefore'
    BY <1>0, <2>1, <2>2, NotifyInOrder
  <2> QED
    BY <1>0, <2>1, <2>2, <2>3
    DEF LeadersInv, LeadersTypeOK, WindowIsAhead, NoGap, FanoutIsComplete, NextFollows
<1>3. CASE UpdateQuicConnections
  BY <1>3, AnswerIsComplete
<1>4. CASE \E slot \in {chain - 1, chain} : Poll(slot)
  <2>1. PICK slot \in {chain - 1, chain} : Poll(slot)
    BY <1>4
  <2>2. slot \in Nat
    BY <1>0 DEF LeadersTypeOK
  <2>3. updates' \in Seq(Nat)
    BY <1>0, <2>1, <2>2 DEF Poll, LeadersTypeOK
  <2>4. UNCHANGED <<chain, current, estimated, notices, window, asked, schedule>>
    BY <2>1 DEF Poll
  <2> QED
    BY <1>0, <2>3, <2>4 DEF LeadersInv, LeadersTypeOK, NoticesInOrder, WindowIsAhead, NoGap,
       BeginsBefore, FanoutIsComplete, NextFollows
<1>5. CASE \E next \in BOOLEAN : SetSchedule(next)
  <2>1. PICK next \in BOOLEAN : SetSchedule(next)
    BY <1>5
  <2>2. EpochAt(chain) \in Nat /\ EpochAt(chain) # 0
    BY <1>0, LeaderConstants, SMTT(30) DEF EpochAt, LeadersTypeOK
  <2>3. /\ schedule' = [current |-> EpochAt(chain), next |-> IF next THEN EpochAt(chain) + 1 ELSE 0]
        /\ UNCHANGED <<chain, updates, current, estimated, notices, window, asked>>
    BY <2>1 DEF SetSchedule
  <2>4. schedule' \in [current : Nat, next : Nat] /\ NextFollows'
    BY <2>2, <2>3 DEF NextFollows
  <2> QED
    BY <1>0, <2>3, <2>4 DEF LeadersInv, LeadersTypeOK, NoticesInOrder, WindowIsAhead, NoGap,
       BeginsBefore, FanoutIsComplete
<1>6. CASE SlotRises
  BY <1>0, <1>6 DEF SlotRises, LeadersInv, LeadersTypeOK, NoticesInOrder, WindowIsAhead, NoGap,
     BeginsBefore, FanoutIsComplete, NextFollows
<1>7. CASE PollFails \/ TpuLags \/ UNCHANGED leaderVars
  <2>1. UNCHANGED <<chain, updates, current, estimated, notices, window, asked, schedule>>
    BY <1>7 DEF PollFails, TpuLags, leaderVars
  <2> QED
    BY <1>0, <2>1 DEF LeadersInv, LeadersTypeOK, NoticesInOrder, WindowIsAhead, NoGap,
       BeginsBefore, FanoutIsComplete, NextFollows
<1> QED
  BY <1>1, <1>2, <1>3, <1>4, <1>5, <1>6, <1>7 DEF LeadersNext

(* get_slot_leaders: what is left of the epoch, then the next one.          *)
LEMMA SlotInEpoch ==
  ASSUME NEW slot \in Nat
  PROVE  /\ EpochAt(slot) \in Nat \ {0} /\ SlotIndex(slot) \in 0 .. EpochSlots - 1
         /\ (EpochAt(slot) - 1) * EpochSlots \in Nat
         /\ slot = (EpochAt(slot) - 1) * EpochSlots + SlotIndex(slot)
         /\ EpochAt(slot) * EpochSlots = slot + EpochSlots - SlotIndex(slot)
BY LeaderConstants DEF EpochAt, SlotIndex

LEMMA OwnSlots ==
  ASSUME NEW start \in Nat, NEW limit \in Nat
  PROVE  LET own == Extended(<< >>, limit, SlotsOf(EpochAt(start)), SlotIndex(start))
         IN  /\ own \in Seq(Nat) /\ Run(own, start)
             /\ Len(own) = Least(EpochSlots - SlotIndex(start), limit)
<1> DEFINE E == EpochSlots
           index == SlotIndex(start)
           all == SlotsOf(EpochAt(start))
           upto == Least(Len(all), index + Minus(limit, Len(<< >>)))
           own == SubSeq(all, index + 1, upto)
<1>1. PICK base \in Nat : base = (EpochAt(start) - 1) * E /\ start = base + index
  BY SlotInEpoch, LeaderConstants
<1>2. index \in 0 .. E - 1 /\ E \in Nat \ {0}
  BY SlotInEpoch, LeaderConstants
<1>3. all = [i \in 1 .. E |-> base + i - 1]
  BY <1>1 DEF SlotsOf
<1> HIDE DEF index, all
<1>4. /\ all \in Seq(Nat) /\ Len(all) = E /\ \A i \in 1 .. E : all[i] = base + i - 1
  <2> DEFINE slice == [i \in 1 .. E |-> base + i - 1]
  <2>1. slice \in Seq(Nat) /\ Len(slice) = E /\ \A i \in 1 .. E : slice[i] = base + i - 1
    BY <1>2
  <2> QED
    BY <1>3, <2>1
<1>5. upto \in Nat /\ upto <= E /\ upto = index + Least(E - index, limit)
  BY <1>2, <1>4 DEF Least, Minus
<1> HIDE DEF upto
<1>6. index <= upto
  BY <1>2, <1>5 DEF Least
<1>7. own \in Seq(Nat) /\ Len(own) = upto - index
  BY <1>2, <1>4, <1>5, <1>6, SMTT(30)
<1>8. Run(own, start)
  <2> SUFFICES ASSUME NEW i \in 1 .. upto - index PROVE own[i] = start + i - 1
    BY <1>7 DEF Run
  <2>1. index + i \in 1 .. E /\ i \in Nat
    BY <1>2, <1>5
  <2>2. own[i] = all[index + i]
    BY <1>2, <1>4, <1>5, <1>6, <2>1
  <2>3. all[index + i] = base + (index + i) - 1
    BY <1>4, <2>1
  <2>4. index \in Nat /\ start = base + index
    BY <1>1, <1>2
  <2> HIDE DEF own
  <2> QED
    BY <2>1, <2>2, <2>3, <2>4
<1>9. Extended(<< >>, limit, all, index) = own
  BY <1>7 DEF Extended, upto
<1>10. Least(E - index, limit) = upto - index
  BY <1>2, <1>5 DEF Least
<1> HIDE DEF own
<1> QED
  BY <1>7, <1>8, <1>9, <1>10 DEF all, index

LEMMA AnswerIsRight ==
  ASSUME LeadersInv, NEW start \in Nat, NEW limit \in Nat
  PROVE  LET answer == SlotLeaders(start, limit)
             left == EpochSlots - SlotIndex(start)
             known == EpochAt(start) \in {schedule.current, schedule.next}
         IN  /\ answer \in Seq(Nat)
             /\ known => Run(answer, start)
             /\ known /\ limit <= left => Len(answer) = limit
             /\ known /\ limit > left =>
                  Len(answer) = IF schedule.next = EpochAt(start) + 1
                                THEN left + Least(EpochSlots, Minus(limit, 2 * left))
                                ELSE left
<1> DEFINE E == EpochSlots
           epoch == EpochAt(start)
           known == epoch \in {schedule.current, schedule.next}
           own == IF known
                  THEN Extended(<< >>, limit, SlotsOf(epoch), SlotIndex(start)) ELSE << >>
           d == Least(E, 0 + Minus(limit - Len(own), Len(own)))
           next == SlotsOf(epoch + 1)
           more == own \o SubSeq(next, 1, d)
           left == E - SlotIndex(start)
           answer == SlotLeaders(start, limit)
<1>1. /\ E \in Nat \ {0} /\ epoch \in Nat \ {0} /\ SlotIndex(start) \in 0 .. E - 1
      /\ epoch * E = start + E - SlotIndex(start) /\ epoch * E \in Nat
  BY SlotInEpoch, LeaderConstants
<1>2. /\ own \in Seq(Nat) /\ Run(own, start)
      /\ Len(own) = IF known THEN Least(E - SlotIndex(start), limit) ELSE 0
  <2>1. CASE known
    BY <2>1, OwnSlots
  <2>2. CASE ~known
    BY <2>2 DEF Run
  <2> QED
    BY <2>1, <2>2
<1>3. answer = IF schedule.next = epoch + 1
               THEN Extended(own, limit - Len(own), next, 0) ELSE own
  BY DEF SlotLeaders
<1> HIDE DEF epoch, known, own, next, answer
<1>4. PICK base \in Nat : base = epoch * E
  BY <1>1
<1>5. next \in Seq(Nat) /\ Len(next) = E /\ \A i \in 1 .. E : next[i] = base + i - 1
  <2> DEFINE slice == [i \in 1 .. E |-> base + i - 1]
  <2>1. slice \in Seq(Nat) /\ Len(slice) = E /\ \A i \in 1 .. E : slice[i] = base + i - 1
    BY <1>1
  <2>2. next = slice
    BY <1>1, <1>4 DEF SlotsOf, next, epoch
  <2> HIDE DEF slice
  <2> QED
    BY <2>1, <2>2
<1>6. PICK n \in Nat : n = Len(own) /\ n <= limit
  BY <1>1, <1>2 DEF Least
<1>7. d \in Nat /\ d <= E /\ n + d <= limit /\ (d > 0 => n < limit)
  <2>1. d = IF limit - n > n THEN (IF E < limit - n - n THEN E ELSE limit - n - n) ELSE 0
    BY <1>1, <1>6 DEF Least, Minus
  <2> QED
    BY <1>1, <1>6, <2>1
<1>12. known => n + d = IF limit <= left THEN limit
                         ELSE left + Least(E, Minus(limit, 2 * left))
  <2>1. left \in Nat \ {0}
    BY <1>1
  <2> HIDE DEF left
  <2>2. known => n = IF left < limit THEN left ELSE limit
    BY <1>2, <1>6 DEF Least, left
  <2>3. d = IF limit - n > n THEN (IF E < limit - n - n THEN E ELSE limit - n - n) ELSE 0
    BY <1>1, <1>6 DEF Least, Minus
  <2>4. Least(E, Minus(limit, 2 * left)) =
          IF limit > 2 * left THEN (IF E < limit - 2 * left THEN E ELSE limit - 2 * left)
          ELSE 0
    BY <1>1, <2>1 DEF Least, Minus
  <2> HIDE DEF d
  <2> QED
    BY <1>1, <2>1, <2>2, <2>3, <2>4
<1> HIDE DEF d
<1>8. known /\ n < limit => base = start + n
  BY <1>1, <1>2, <1>4, <1>6 DEF Least
<1>9. known => n = IF limit <= left THEN limit ELSE left
  BY <1>1, <1>2, <1>6 DEF Least
<1> HIDE DEF left
<1>10. CASE schedule.next = epoch + 1
  <2>1. answer = more
    BY <1>3, <1>5, <1>10 DEF Extended, d
  <2>2. PICK tail \in Seq(Nat) : /\ tail = SubSeq(next, 1, d) /\ Len(tail) = d
                                 /\ \A i \in 1 .. d : tail[i] = next[i]
    <3> DEFINE tail == SubSeq(next, 1, d)
    <3>1. tail \in Seq(Nat)
      BY <1>1, <1>5, <1>7
    <3>2. Len(tail) = d
      BY <1>1, <1>5, <1>7
    <3>3. \A i \in 1 .. d : tail[i] = next[i]
      BY <1>1, <1>5, <1>7
    <3> QED
      BY <3>1, <3>2, <3>3
  <2>3. \A i \in 1 .. d : tail[i] = base + i - 1
    BY <1>1, <1>5, <1>7, <2>2
  <2>4. /\ more \in Seq(Nat) /\ Len(more) = n + d
        /\ \A i \in 1 .. n + d : more[i] = IF i <= n THEN own[i] ELSE tail[i - n]
    <3>1. more = own \o tail
      BY <2>2
    <3> HIDE DEF more
    <3> QED
      <4>1. own \in Seq(Nat) /\ Len(own) = n
        BY <1>2, <1>6
      <4>2. more \in Seq(Nat) /\ Len(more) = n + d
        BY <2>2, <3>1, <4>1
      <4>3. \A i \in 1 .. n + d : more[i] = IF i <= n THEN own[i] ELSE tail[i - n]
        <5>1. Len(tail) = d /\ Len(own) = n
          BY <2>2, <4>1
        <5> QED
          BY <3>1, <4>1, <5>1, JoinedAt
      <4> QED
        BY <4>2, <4>3
  <2> HIDE DEF more
  <2>5. known => Run(more, start)
    <3> SUFFICES ASSUME known, NEW i \in 1 .. n + d PROVE more[i] = start + i - 1
      BY <2>4 DEF Run
    <3>1. CASE i <= n
      BY <1>2, <1>6, <2>4, <3>1 DEF Run
    <3>2. CASE i > n
      <4>1. i - n \in 1 .. d /\ i \in Nat /\ d > 0
        BY <1>7, <3>2
      <4>2. more[i] = base + (i - n) - 1
        BY <2>3, <2>4, <3>2, <4>1
      <4> QED
        BY <1>7, <1>8, <4>1, <4>2
    <3> QED
      BY <1>7, <3>1, <3>2
  <2>6. /\ known /\ limit <= left => Len(more) = limit
        /\ known /\ limit > left => Len(more) = left + Least(E, Minus(limit, 2 * left))
    <3>1. left \in Nat
      BY <1>1 DEF left
    <3> QED
      BY <1>12, <2>4, <3>1
  <2> QED
    BY <1>10, <2>1, <2>4, <2>5, <2>6 DEF answer, known, epoch, left
<1>11. CASE schedule.next # epoch + 1
  <2>1. answer = own
    BY <1>3, <1>11
  <2>2. left \in Nat
    BY <1>1 DEF left
  <2>3. /\ known /\ limit <= left => Len(own) = limit
        /\ known /\ limit > left => Len(own) = left
    BY <1>6, <1>9, <2>2
  <2> QED
    BY <1>2, <1>11, <2>1, <2>3 DEF answer, known, epoch, left
<1> QED
  BY <1>10, <1>11

LEMMA LeadersInvFollows ==
  ASSUME LeadersInv PROVE NoticesRise /\ FanoutIsComplete /\ SlotLeadersAreRight
<1>1. NoticesRise
  <2>1. notices \in Seq(SlotNotice) /\ Len(notices) \in Nat /\ DOMAIN notices = 1 .. Len(notices)
    BY DEF LeadersInv, LeadersTypeOK
  <2>2. \A i \in DOMAIN notices : i > 1 => i - 1 \in 1 .. Len(notices) /\ i - 1 < i
    BY <2>1
  <2> QED
    BY <2>1, <2>2 DEF NoticesRise, LeadersInv, NoticesInOrder
<1>2. SlotLeadersAreRight
  <2> SUFFICES ASSUME NEW start \in 0 .. MaxSlot, NEW limit \in 0 .. 2 * EpochSlots,
                      EpochAt(start) \in {schedule.current, schedule.next}
               PROVE  LET answer == SlotLeaders(start, limit)
                          left == EpochSlots - SlotIndex(start)
                      IN  /\ answer = [i \in 1 .. Len(answer) |-> start + i - 1]
                          /\ limit <= left => Len(answer) = limit
                          /\ limit > left =>
                               Len(answer) = IF schedule.next = EpochAt(start) + 1
                                             THEN left + Least(EpochSlots, Minus(limit, 2 * left))
                                             ELSE left
    BY DEF SlotLeadersAreRight
  <2> DEFINE answer == SlotLeaders(start, limit)
             left == EpochSlots - SlotIndex(start)
  <2>1. start \in Nat /\ limit \in Nat
    BY LeaderConstants
  <2>2. /\ answer \in Seq(Nat)
        /\ Run(answer, start)
        /\ limit <= left => Len(answer) = limit
        /\ limit > left =>
             Len(answer) = IF schedule.next = EpochAt(start) + 1
                           THEN left + Least(EpochSlots, Minus(limit, 2 * left))
                           ELSE left
    BY <2>1, AnswerIsRight
  <2> HIDE DEF answer, left
  <2>3. answer = [i \in 1 .. Len(answer) |-> start + i - 1]
    BY <2>2 DEF Run
  <2> QED
    BY <2>2, <2>3 DEF answer, left
<1> QED
  BY <1>1, <1>2 DEF LeadersInv, WindowIsAhead

(* The slots the TPU service is told, poll_slots.rs, and whose leaders it   *)
(* gets for them, json_rpc_leaders_getter.rs and leaderschedule.rs, in      *)
(* every reachable state.                                                   *)
THEOREM LeadersInvariant ==
  LeadersSpec => [](LeadersInv /\ NoticesRise /\ FanoutIsComplete /\ SlotLeadersAreRight)
<1>1. ASSUME LeadersInit PROVE LeadersInv
  <2>1. chain \in Nat \ {0}
    BY <1>1, LeaderConstants DEF LeadersInit
  <2>2. LeadersTypeOK /\ NextFollows
    BY <1>1, <2>1 DEF LeadersInit, LeadersTypeOK, NextFollows
  <2>3. NoticesInOrder /\ WindowIsAhead
    BY <1>1, <2>1, LeaderConstants
    DEF LeadersInit, NoticesInOrder, WindowIsAhead, NoGap, BeginsBefore, FanoutIsComplete
  <2> QED
    BY <2>2, <2>3 DEF LeadersInv
<1> QED
  BY <1>1, LeadersInvFollows, LeadersStepInv, PTL DEF LeadersSpec

(* The slots and the leaders that sending needs, together.                  *)
THEOREM LeadersStayKnown == LeadersSpec /\ FeedSpec => []LeadersAreKnown
<1>1. /\ NoticesRise /\ FanoutIsComplete /\ SlotLeadersAreRight
      /\ CacheFollowsFeed
      => LeadersAreKnown
  BY DEF LeadersAreKnown
<1> QED
  BY <1>1, LeadersInvariant, FeedInvariant, PTL

------------------------------------------------------------------------------
(* ProxyClient                                                              *)

ClientTypeOK ==
  /\ nodes \in [number : Nat, tpus : SUBSET Tpu]
  /\ fanout \in [number : Nat, tpus : SUBSET Tpu]
  /\ reader \in {"unstarted", "receive", "read", "send", "gone"}
  /\ since \in Nat
  /\ misses \in Nat

ConnState == [is : {"unconnected", "open", "closed", "failed", "permanent"}, attempts : Nat]

(* The attempts that have failed are counted in the connection.             *)
Counted(c, n) ==
  /\ c \in ConnState
  /\ IF c.is = "failed" THEN c.attempts \in 1 .. MaxAttempts ELSE c.attempts = 0
  /\ n = IF c.is = "permanent" THEN MaxAttempts + 1 ELSE c.attempts

MissesAreCounted == Counted(conn, misses)

(* A batch was taken under the nodes of the time or older ones.             *)
TakenBefore ==
  /\ reader = "read" => since <= nodes.number
  /\ FanoutIsCurrent

ClientInv == ClientTypeOK /\ MissesAreCounted /\ TakenBefore

(* An attempt, when one must be made.                                       *)
LEMMA AttemptIsCounted ==
  ASSUME NEW c, NEW n \in Nat, Counted(c, n), NEW success \in BOOLEAN, NEW after,
         after = IF ~MustConnect(c) THEN n ELSE IF success THEN 0 ELSE n + 1
  PROVE  Counted(Refreshed(c, success), after)
<1>0. /\ MaxAttempts \in Nat
      /\ c.is \in {"unconnected", "open", "closed", "failed", "permanent"}
      /\ c.attempts \in Nat
      /\ IF c.is = "failed" THEN c.attempts \in 1 .. MaxAttempts ELSE c.attempts = 0
      /\ n = IF c.is = "permanent" THEN MaxAttempts + 1 ELSE c.attempts
  BY ClientAssumption DEF ClientAssumption, Counted, ConnState
<1>1. CASE ~MustConnect(c)
  BY <1>1 DEF Refreshed
<1>2. CASE MustConnect(c) /\ success
  <2>1. Refreshed(c, success) = Open /\ Open \in ConnState /\ Open.is = "open" /\ Open.attempts = 0
    BY <1>2 DEF Refreshed, Open, State, ConnState
  <2>2. after = 0
    BY <1>2
  <2> QED
    BY <2>1, <2>2 DEF Counted
<1>3. CASE MustConnect(c) /\ ~success
  <2>1. after = n + 1
    BY <1>3
  <2>2. n = c.attempts /\ n <= MaxAttempts
    BY <1>0, <1>3 DEF MustConnect
  <2>3. CASE n < MaxAttempts
    <3>1. Refreshed(c, success) = [is |-> "failed", attempts |-> n + 1]
      BY <1>3, <2>2, <2>3 DEF Refreshed, FailedAttempt, State
    <3>2. [is |-> "failed", attempts |-> n + 1] \in ConnState /\ n + 1 \in 1 .. MaxAttempts
      BY <1>0, <2>3 DEF ConnState
    <3> QED
      BY <2>1, <3>1, <3>2 DEF Counted
  <2>4. CASE n = MaxAttempts
    <3>1. Refreshed(c, success) = [is |-> "permanent", attempts |-> 0]
      BY <1>3, <2>2, <2>4 DEF Refreshed, PermanentError, State
    <3>2. [is |-> "permanent", attempts |-> 0] \in ConnState
      BY DEF ConnState
    <3> QED
      BY <2>1, <2>4, <3>1, <3>2 DEF Counted
  <2> QED
    BY <1>0, <2>2, <2>3, <2>4
<1> QED
  BY <1>1, <1>2, <1>3

LEMMA ClientStepInv == ASSUME ClientInv, [ClientNext]_clientVars PROVE ClientInv'
<1> USE DEF ClientInv
<1>1. CASE SendChunk
  <2>1. PICK before \in {conn, Closed}, success \in BOOLEAN :
          /\ before \in {conn} \cup (IF conn = Open THEN {Closed} ELSE {})
          /\ conn' = Refreshed(before, success)
          /\ misses' = IF ~MustConnect(before) THEN misses ELSE IF success THEN 0 ELSE misses + 1
    BY <1>1 DEF SendChunk, SendUni
  <2>2. /\ reader = "send" /\ reader' \in {"receive", "send"}
        /\ nodes' = nodes /\ fanout' = fanout /\ since' = since
    BY <1>1 DEF SendChunk
  <2>3. Counted(before, misses)
    <3>1. CASE conn = Open /\ before = Closed
      BY <3>1 DEF MissesAreCounted, Counted, ConnState, Open, Closed, State
    <3>2. CASE before = conn
      BY <3>2 DEF MissesAreCounted
    <3> QED
      BY <2>1, <3>1, <3>2
  <2>4. MissesAreCounted' /\ misses' \in Nat
    <3>1. misses \in Nat
      BY DEF ClientTypeOK
    <3>2. misses' \in Nat
      BY <2>1, <3>1
    <3> QED
      BY <2>1, <2>3, <3>1, <3>2, AttemptIsCounted, Zenon DEF MissesAreCounted
  <2> QED
    BY <2>2, <2>4 DEF ClientTypeOK, TakenBefore, FanoutIsCurrent
<1>2. CASE \E tpus \in SUBSET Tpu : UpdateConnection(tpus)
  <2>1. PICK tpus \in SUBSET Tpu : UpdateConnection(tpus)
    BY <1>2
  <2>2. /\ nodes' = [number |-> nodes.number + 1, tpus |-> tpus]
        /\ nodes.number \in Nat
        /\ reader' \in {reader, "receive"}
        /\ UNCHANGED <<fanout, since, conn, misses>>
    BY <2>1 DEF UpdateConnection, ClientTypeOK
  <2>3. nodes' \in [number : Nat, tpus : SUBSET Tpu] /\ nodes'.number = nodes.number + 1
    BY <2>2
  <2>4. ClientTypeOK' /\ MissesAreCounted'
    BY <2>2, <2>3 DEF ClientTypeOK, MissesAreCounted
  <2>5. TakenBefore'
    <3>1. since \in Nat /\ (reader = "read" => since <= nodes.number)
      BY DEF ClientTypeOK, TakenBefore
    <3>2. FanoutIsCurrent'
      BY <2>2 DEF TakenBefore, FanoutIsCurrent
    <3> QED
      BY <2>2, <2>3, <3>1, <3>2 DEF TakenBefore
  <2> QED
    BY <2>4, <2>5
<1>3. CASE TakeBatch
  <2>1. /\ since' = nodes.number /\ reader' = "read"
        /\ UNCHANGED <<nodes, fanout, conn, misses>>
    BY <1>3 DEF TakeBatch
  <2> QED
    <3>1. ClientTypeOK' /\ MissesAreCounted' /\ FanoutIsCurrent'
      BY <2>1 DEF ClientTypeOK, MissesAreCounted, FanoutIsCurrent
    <3>2. nodes.number \in Nat
      BY DEF ClientTypeOK
    <3> QED
      BY <2>1, <3>1, <3>2 DEF TakenBefore
<1>4. CASE ReadNodes
  BY <1>4 DEF ReadNodes, ClientTypeOK, MissesAreCounted, TakenBefore, FanoutIsCurrent
<1>5. CASE Broadcast \/ SignalShutdown \/ ReaderEnds \/ SendPanics \/ UNCHANGED clientVars
  BY <1>5 DEF Broadcast, SignalShutdown, ReaderEnds, SendPanics, clientVars, ClientTypeOK,
     MissesAreCounted, TakenBefore, FanoutIsCurrent
<1> QED
  BY <1>1, <1>2, <1>3, <1>4, <1>5 DEF ClientNext

(* The client of the proxy, quic_proxy_connection_manager.rs: what a batch  *)
(* goes to, and how often the connection was tried, in every reachable      *)
(* state.                                                                   *)
THEOREM ClientInvariant == ClientSpec => [](ClientInv /\ FanoutIsCurrent /\ GivenUpAfterAttempts)
<1>1. ASSUME ClientInit PROVE ClientInv
  <2>1. NotConnected \in ConnState /\ NotConnected.is = "unconnected" /\ NotConnected.attempts = 0
    BY DEF NotConnected, State, ConnState
  <2> QED
    BY <1>1, <2>1 DEF ClientInit, ClientInv, ClientTypeOK, MissesAreCounted, Counted, TakenBefore,
       FanoutIsCurrent, NoNodes
<1>2. ASSUME ClientInv PROVE FanoutIsCurrent /\ GivenUpAfterAttempts
  <2>1. /\ conn \in ConnState /\ misses \in Nat /\ MaxAttempts \in Nat
        /\ IF conn.is = "failed" THEN conn.attempts \in 1 .. MaxAttempts ELSE conn.attempts = 0
        /\ misses = IF conn.is = "permanent" THEN MaxAttempts + 1 ELSE conn.attempts
    BY <1>2, ClientAssumption DEF ClientInv, MissesAreCounted, Counted, ClientTypeOK, ClientAssumption
  <2>2. conn = PermanentError <=> conn.is = "permanent"
    <3>1. conn = [is |-> conn.is, attempts |-> conn.attempts]
      BY <2>1 DEF ConnState
    <3> QED
      BY <2>1, <3>1 DEF PermanentError, State
  <2>3. GivenUpAfterAttempts
    BY <2>1, <2>2 DEF GivenUpAfterAttempts
  <2> QED
    BY <1>2, <2>3 DEF ClientInv, TakenBefore
<1> QED
  BY <1>1, <1>2, ClientStepInv, PTL DEF ClientSpec

------------------------------------------------------------------------------
(* ForwardProxy: packets that match                                         *)

Packet == [id : Nat, address : Address]
(* What is filtered are the packets that match.                             *)
LEMMA RangeFiltered ==
  ASSUME NEW n, NEW k, NEW s \in Seq(Packet)
  PROVE  /\ Filtered(n, k, s) \in Seq(Packet)
         /\ Range(Filtered(n, k, s)) = {p \in Range(s) : Matches(n, k, p)}
         /\ Distinct(s) => Distinct(Filtered(n, k, s))
BY RangeSublist DEF Filtered

------------------------------------------------------------------------------
(* ForwardProxy: one task                                                   *)

ProxyConn == [is : {"unconnected", "open", "closed", "failed", "permanent", "shutdown"},
              attempts : Nat]
TaskRecord == [at : {"receive", "send", "gone"}, queue : Seq(Packet), lags : BOOLEAN,
               batch : Seq(Packet), conn : ProxyConn]

(* A task of address a and shard k: of the packets f that were forwarded,   *)
(* each is at one place, and those it sends are its own.                    *)
TaskOK(t, s, f, a, k) ==
  /\ t \in TaskRecord /\ s \in Seq(Nat)
  /\ Distinct(t.queue) /\ Distinct(t.batch) /\ Distinct(s)
  /\ Range(t.queue) \subseteq f /\ Range(t.batch) \subseteq f
  /\ Range(t.queue) \cap Range(t.batch) = {}
  /\ \A p \in Range(t.batch) : p.address = a /\ p.id % Shards = k
  /\ \A i \in Range(s) :
       i % Shards = k /\ [id |-> i, address |-> a] \in f \ (Range(t.queue) \cup Range(t.batch))
  /\ (t.at = "send") <=> (t.batch # << >>)
  /\ t.at = "gone" => t.queue = << >>

(* A packet handed to the agent is with the task, or was.                   *)
Holds(t, s, a, p) ==
  \/ t.at = "gone" \/ t.lags
  \/ [id |-> p, address |-> a] \in Range(t.queue) \cup Range(t.batch)
  \/ p \in Range(s)

(* What a step of the task keeps.                                           *)
Goes(t, s, t2, s2, f, a, k) ==
  /\ TaskOK(t2, s2, f, a, k)
  /\ \A p \in Nat : p % Shards = k /\ Holds(t, s, a, p) => Holds(t2, s2, a, p)

LEMMA TaskForgets ==
  ASSUME NEW t, NEW s, NEW f, NEW a, NEW k, TaskOK(t, s, f, a, k)
  PROVE  Goes(t, s, GoneTask, s, f, a, k) /\ Goes(t, s, Ended, s, f, a, k)
<1>1. /\ NotConnected \in ProxyConn /\ ShuttingDown \in ProxyConn
      /\ << >> \in Seq(Packet)
  BY DEF NotConnected, ShuttingDown, State, ProxyConn
<1>2. ASSUME NEW u \in TaskRecord, u.at = "gone", u.queue = << >>, u.batch = << >>
      PROVE  Goes(t, s, u, s, f, a, k)
  BY <1>2, EmptyIs DEF Goes, TaskOK, Holds
<1>3. NewTask \in TaskRecord /\ NewTask.queue = << >> /\ NewTask.batch = << >>
  BY <1>1 DEF NewTask, TaskRecord
<1>4. /\ GoneTask \in TaskRecord
      /\ GoneTask.at = "gone" /\ GoneTask.queue = << >> /\ GoneTask.batch = << >>
  BY <1>3 DEF GoneTask, TaskRecord
<1>5. /\ Ended \in TaskRecord
      /\ Ended.at = "gone" /\ Ended.queue = << >> /\ Ended.batch = << >>
  BY <1>1, <1>4 DEF Ended, TaskRecord
<1> QED
  BY <1>2, <1>4, <1>5

LEMMA ReceiveGoes ==
  ASSUME NEW n \in Agent, NEW k \in Shard, NEW f, Receive(n, k),
         TaskOK(task[n][k], tried[n][k], f, made[n], k)
  PROVE  \E u : /\ task' = [task EXCEPT ![n][k] = u]
                /\ Goes(task[n][k], tried[n][k], u, tried[n][k], f, made[n], k)
<1>1. PICK t, s, a : t = task[n][k] /\ s = tried[n][k] /\ a = made[n]
  OBVIOUS
<1>2. /\ TaskOK(t, s, f, a, k) /\ t \in TaskRecord /\ t.queue \in Seq(Packet)
      /\ t.at = "receive" /\ t.queue # << >> /\ t.batch = << >>
  BY <1>1 DEF Receive, TaskOK, TaskRecord
<1>3. PICK head : head = Head(t.queue)
  OBVIOUS
<1>4. PICK u : /\ task' = [task EXCEPT ![n][k] = u]
               /\ \/ u = Ended
                  \/ ~Matches(n, k, head) /\ u = [t EXCEPT !.queue = Tail(@)]
                  \/ /\ Matches(n, k, head)
                     /\ u = [t EXCEPT !.at = "send", !.batch = Filtered(n, k, t.queue),
                                      !.queue = << >>]
  BY <1>1, <1>3 DEF Receive, Becomes
<1>5. CASE u = Ended
  BY <1>1, <1>2, <1>4, <1>5, TaskForgets
<1>6. CASE ~Matches(n, k, head) /\ u = [t EXCEPT !.queue = Tail(@)]
  <2>1. /\ u \in TaskRecord /\ u.at = "receive" /\ u.batch = << >> /\ u.lags = t.lags
        /\ u.queue = Tail(t.queue)
    BY <1>2, <1>6, RangeTail DEF TaskRecord
  <2>2. /\ Range(t.queue) = {head} \cup Range(u.queue) /\ Distinct(u.queue) /\ head \in Packet
    BY <1>2, <1>3, <2>1, RangeTail DEF TaskOK
  <2>3. TaskOK(u, s, f, a, k)
    BY <1>2, <2>1, <2>2 DEF TaskOK
  <2>4. ASSUME NEW p \in Nat, p % Shards = k, Holds(t, s, a, p) PROVE Holds(u, s, a, p)
    <3>1. [id |-> p, address |-> a] # head
      BY <1>1, <1>6, <2>4 DEF Matches
    <3> QED
      BY <1>2, <2>1, <2>2, <2>4, <3>1 DEF Holds
  <2> QED
    BY <1>1, <1>4, <2>3, <2>4 DEF Goes
<1>7. CASE /\ Matches(n, k, head)
           /\ u = [t EXCEPT !.at = "send", !.batch = Filtered(n, k, t.queue), !.queue = << >>]
  <2>1. PICK b \in Seq(Packet) : b = Filtered(n, k, t.queue)
    BY <1>2, RangeFiltered
  <2>2. /\ u \in TaskRecord /\ u.at = "send" /\ u.batch = b /\ u.lags = t.lags
        /\ u.queue = << >>
    <3>1. << >> \in Seq(Packet)
      OBVIOUS
    <3> QED
      BY <1>2, <1>7, <2>1, <3>1 DEF TaskRecord
  <2>3. /\ Range(b) = {p \in Range(t.queue) : Matches(n, k, p)} /\ Distinct(b)
    BY <1>2, <2>1, RangeFiltered DEF TaskOK
  <2>4. b # << >>
    <3>1. head \in Range(t.queue)
      BY <1>2, <1>3, RangeTail
    <3> QED
      BY <1>7, <2>3, <3>1, EmptyIs
  <2>5. TaskOK(u, s, f, a, k)
    BY <1>1, <1>2, <2>2, <2>3, <2>4, EmptyIs DEF TaskOK, Matches
  <2>6. ASSUME NEW p \in Nat, p % Shards = k, Holds(t, s, a, p) PROVE Holds(u, s, a, p)
    BY <1>1, <1>2, <2>2, <2>3, <2>6, EmptyIs DEF Holds, Matches
  <2> QED
    BY <1>1, <1>4, <2>6, <2>5 DEF Goes
<1> QED
  BY <1>4, <1>5, <1>6, <1>7

LEMMA RefreshedType ==
  ASSUME NEW c \in ProxyConn, NEW success \in BOOLEAN PROVE Refreshed(c, success) \in ProxyConn
BY DEF ProxyConn, Refreshed, MustConnect, Open, FailedAttempt, PermanentError, State

LEMMA SendGoes ==
  ASSUME NEW n \in Agent, NEW k \in Shard, NEW f, Send(n, k), f \subseteq Packet,
         TaskOK(task[n][k], tried[n][k], f, made[n], k)
  PROVE  \E u, v : /\ task' = [task EXCEPT ![n][k] = u]
                   /\ tried' = [tried EXCEPT ![n][k] = v]
                   /\ Goes(task[n][k], tried[n][k], u, v, f, made[n], k)
<1>1. PICK t, s, a : t = task[n][k] /\ s = tried[n][k] /\ a = made[n]
  OBVIOUS
<1>2. /\ TaskOK(t, s, f, a, k) /\ t \in TaskRecord /\ s \in Seq(Nat) /\ t.batch \in Seq(Packet)
      /\ t.at = "send" /\ t.batch # << >> /\ t.conn \in ProxyConn
  BY <1>1 DEF Send, TaskOK, TaskRecord
<1>3. PICK head : head = Head(t.batch)
  OBVIOUS
<1>4. PICK conn1 \in Found(t.conn), success \in BOOLEAN :
        Becomes(n, k, [t EXCEPT !.conn = Refreshed(conn1, success), !.batch = Tail(@),
                                !.at = IF Len(t.batch) = 1 THEN "receive" ELSE "send"])
  BY <1>1 DEF Send
<1> DEFINE u == [t EXCEPT !.conn = Refreshed(conn1, success), !.batch = Tail(@),
                          !.at = IF Len(t.batch) = 1 THEN "receive" ELSE "send"]
           v == Append(s, head.id)
<1>5. task' = [task EXCEPT ![n][k] = u] /\ tried' = [tried EXCEPT ![n][k] = v]
  BY <1>1, <1>3, <1>4 DEF Becomes, Send
<1>6. Refreshed(conn1, success) \in ProxyConn
  <2>1. conn1 \in ProxyConn
    BY <1>2 DEF Found, ProxyConn, Closed, State
  <2> QED
    BY <2>1, RefreshedType
<1>7. /\ u \in TaskRecord /\ u.at \in {"receive", "send"} /\ u.batch = Tail(t.batch)
      /\ u.queue = t.queue /\ u.lags = t.lags
      /\ (u.at = "receive") <=> (Len(t.batch) = 1)
  BY <1>2, <1>6, RangeTail DEF TaskRecord
<1> HIDE DEF u
<1>8. /\ Range(t.batch) = {head} \cup Range(u.batch) /\ Distinct(u.batch)
      /\ head \notin Range(u.batch) /\ head \in Packet
  BY <1>2, <1>3, <1>7, RangeTail DEF TaskOK
<1>9. (u.at = "send") <=> (u.batch # << >>)
  <2>1. Len(t.batch) = 1 <=> Tail(t.batch) = << >>
    <3>1. PICK b \in Seq(Packet) : b = t.batch /\ b # << >>
      BY <1>2
    <3>2. PICK x \in Seq(Packet) : x = Tail(b) /\ Len(x) = Len(b) - 1
      <4>1. Tail(b) \in Seq(Packet)
        BY <3>1, RangeTail
      <4>2. Len(Tail(b)) = Len(b) - 1
        BY <3>1
      <4> QED
        BY <4>1, <4>2
    <3>3. Len(x) = 0 <=> x = << >>
      OBVIOUS
    <3>4. Len(b) \in Nat
      OBVIOUS
    <3> QED
      BY <3>1, <3>2, <3>3, <3>4
  <2> QED
    BY <1>2, <1>7, <2>1
<1>10. /\ head = [id |-> head.id, address |-> a] /\ head.id \in Nat /\ head.id % Shards = k
       /\ head \in f /\ head \notin Range(t.queue)
  <2>1. head \in Range(t.batch)
    BY <1>8
  <2>2. head.address = a /\ head.id % Shards = k /\ head \in f /\ head \notin Range(t.queue)
    BY <1>2, <2>1 DEF TaskOK
  <2> QED
    BY <1>8, <2>2 DEF Packet
<1>11. head.id \notin Range(s)
  BY <1>2, <1>8, <1>10 DEF TaskOK
<1>12. v \in Seq(Nat) /\ Range(v) = Range(s) \cup {head.id} /\ Distinct(v)
  BY <1>2, <1>10, <1>11, RangeAppended DEF TaskOK
<1> HIDE DEF v
<1>13. TaskOK(u, v, f, a, k)
  <2>1. \A i \in Range(v) :
          i % Shards = k /\ [id |-> i, address |-> a] \in f \ (Range(u.queue) \cup Range(u.batch))
    BY <1>2, <1>7, <1>8, <1>10, <1>12 DEF TaskOK
  <2> QED
    BY <1>2, <1>7, <1>8, <1>9, <1>12, <2>1 DEF TaskOK
<1>14. \A p \in Nat : p % Shards = k /\ Holds(t, s, a, p) => Holds(u, v, a, p)
  <2> SUFFICES ASSUME NEW p \in Nat, Holds(t, s, a, p) PROVE Holds(u, v, a, p)
    OBVIOUS
  <2>1. [id |-> p, address |-> a] = head => p = head.id
    OBVIOUS
  <2> QED
    BY <1>2, <1>7, <1>8, <1>12, <2>1 DEF Holds
<1> QED
  BY <1>1, <1>5, <1>13, <1>14 DEF Goes

LEMMA SendTimesOutGoes ==
  ASSUME NEW n \in Agent, NEW k \in Shard, NEW f, SendTimesOut(n, k), f \subseteq Packet,
         TaskOK(task[n][k], tried[n][k], f, made[n], k)
  PROVE  \E u, v : /\ task' = [task EXCEPT ![n][k] = u]
                   /\ tried' = [tried EXCEPT ![n][k] = v]
                   /\ Goes(task[n][k], tried[n][k], u, v, f, made[n], k)
<1>1. PICK t, s, a : t = task[n][k] /\ s = tried[n][k] /\ a = made[n]
  OBVIOUS
<1>2. /\ TaskOK(t, s, f, a, k) /\ t \in TaskRecord /\ s \in Seq(Nat) /\ t.batch \in Seq(Packet)
      /\ t.at = "send"
  BY <1>1 DEF SendTimesOut, TaskOK, TaskRecord
<1> DEFINE u == [t EXCEPT !.at = "receive", !.batch = << >>]
           w == [i \in DOMAIN t.batch |-> t.batch[i].id]
           v == s \o w
<1>3. task' = [task EXCEPT ![n][k] = u] /\ tried' = [tried EXCEPT ![n][k] = v]
  BY <1>1 DEF Becomes, SendTimesOut
<1>4. /\ u \in TaskRecord /\ u.at = "receive" /\ u.batch = << >>
      /\ u.queue = t.queue /\ u.lags = t.lags
  <2>1. << >> \in Seq(Packet)
    OBVIOUS
  <2> QED
    BY <1>2, <2>1 DEF TaskRecord
<1> HIDE DEF u
<1>5. PICK b \in Seq(Packet) : b = t.batch
  BY <1>2
<1>6. PICK m \in Nat : m = Len(b)
  OBVIOUS
<1>7. /\ DOMAIN b = 1 .. m
      /\ \A i \in 1 .. m : b[i] \in Packet /\ b[i] \in Range(b)
  <2>1. \A i \in 1 .. m : b[i] \in Packet /\ In(b[i], b)
    BY <1>6 DEF In
  <2>2. \A i \in 1 .. m : b[i] \in Range(b)
    BY <2>1, RangeIs, Zenon
  <2> QED
    BY <1>6, <2>1, <2>2
<1>8. \A p \in Packet : p = [id |-> p.id, address |-> p.address] /\ p.id \in Nat
  BY DEF Packet
<1>9. \A i \in 1 .. m : b[i].address = a /\ b[i].id % Shards = k
  BY <1>2, <1>5, <1>7 DEF TaskOK
<1>10. \A i \in 1 .. m : /\ b[i] = [id |-> b[i].id, address |-> a]
                         /\ b[i].id \in Nat /\ b[i].id % Shards = k
  <2> TAKE i \in 1 .. m
  <2>1. PICK p \in Packet : p = b[i]
    BY <1>7
  <2> QED
    BY <1>8, <1>9, <2>1
<1>11. w = [i \in 1 .. m |-> b[i].id]
  BY <1>5, <1>7
<1> HIDE DEF w
<1>12. /\ w \in Seq(Nat) /\ Len(w) = m /\ \A i \in 1 .. m : w[i] = b[i].id
  <2>1. \A i \in 1 .. m : b[i].id \in Nat
    BY <1>10
  <2>2. w \in [1 .. m -> Nat]
    BY <1>11, <2>1
  <2>3. w \in Seq(Nat) /\ Len(w) = m
    BY <2>2
  <2> QED
    BY <1>11, <2>3
<1>13. Distinct(w)
  <2>1. ASSUME NEW i \in 1 .. m, NEW j \in 1 .. m, w[i] = w[j] PROVE b[i] = b[j]
    <3>1. b[i].id = b[j].id
      BY <1>12, <2>1
    <3>2. b[i] = [id |-> b[i].id, address |-> a] /\ b[j] = [id |-> b[j].id, address |-> a]
      BY <1>10
    <3> QED
      BY <3>1, <3>2, Zenon
  <2> QED
    BY <1>2, <1>5, <1>6, <1>12, <2>1 DEF TaskOK, Distinct
<1>14. \A i : i \in Range(w) =>
         i \in Nat /\ i % Shards = k /\ [id |-> i, address |-> a] \in Range(b)
  <2> SUFFICES ASSUME NEW i, i \in Range(w)
               PROVE  i \in Nat /\ i % Shards = k /\ [id |-> i, address |-> a] \in Range(b)
    OBVIOUS
  <2>1. In(i, w)
    BY <1>12, RangeIs, Zenon
  <2>2. PICK j \in 1 .. m : w[j] = i
    BY <1>12, <2>1 DEF In
  <2> QED
    BY <1>7, <1>10, <1>12, <2>2
<1>15. \A p \in Nat : [id |-> p, address |-> a] \in Range(b) => p \in Range(w)
  <2> SUFFICES ASSUME NEW p \in Nat, [id |-> p, address |-> a] \in Range(b)
               PROVE  p \in Range(w)
    OBVIOUS
  <2>1. In([id |-> p, address |-> a], b)
    BY RangeIs, Zenon
  <2>2. PICK j \in 1 .. m : b[j] = [id |-> p, address |-> a]
    BY <1>6, <2>1 DEF In
  <2>3. w[j] = p
    BY <1>12, <2>2
  <2>4. In(p, w)
    BY <1>12, <2>2, <2>3 DEF In
  <2> QED
    BY <1>12, <2>4, RangeIs, Zenon
<1>16. Range(s) \cap Range(w) = {}
  BY <1>2, <1>5, <1>14 DEF TaskOK
<1>17. v \in Seq(Nat) /\ Range(v) = Range(s) \cup Range(w) /\ Distinct(v)
  BY <1>2, <1>12, <1>13, <1>16, RangeJoined DEF TaskOK
<1> HIDE DEF v
<1>18. TaskOK(u, v, f, a, k)
  <2>1. \A i \in Range(v) :
          i % Shards = k /\ [id |-> i, address |-> a] \in f \ (Range(u.queue) \cup Range(u.batch))
    BY <1>2, <1>4, <1>5, <1>14, <1>17, EmptyIs DEF TaskOK
  <2> QED
    BY <1>2, <1>4, <1>17, <2>1, EmptyIs DEF TaskOK
<1>19. \A p \in Nat : p % Shards = k /\ Holds(t, s, a, p) => Holds(u, v, a, p)
  BY <1>2, <1>4, <1>5, <1>15, <1>17 DEF Holds
<1> QED
  BY <1>1, <1>3, <1>18, <1>19 DEF Goes

(* What is broadcast is new to the task, and kept if it can be.             *)
LEMMA DeliveredGoes ==
  ASSUME NEW t, NEW s, NEW f, NEW a, NEW k, TaskOK(t, s, f, a, k), f \subseteq Packet,
         NEW packet \in Packet, packet \notin f
  PROVE  /\ Goes(t, s, Delivered(t, packet), s, f \cup {packet}, a, k)
         /\ packet.address = a => Holds(Delivered(t, packet), s, a, packet.id)
<1> DEFINE u == Delivered(t, packet)
<1>0. AgentRoom \in Nat \ {0}
  BY ProxyAssumption DEF ProxyAssumption
<1>1. CASE t.at = "gone"
  <2>1. u = t
    BY <1>1 DEF Delivered
  <2>2. TaskOK(t, s, f \cup {packet}, a, k)
    BY DEF TaskOK
  <2> QED
    BY <1>1, <2>1, <2>2 DEF Goes, Holds
<1>2. CASE t.at # "gone"
  <2>1. t \in TaskRecord /\ t.queue \in Seq(Packet)
    BY DEF TaskOK, TaskRecord
  <2>2. PICK q \in Seq(Packet) :
          \/ q = t.queue /\ u = [t EXCEPT !.queue = Append(q, packet)]
          \/ /\ t.queue # << >> /\ q = Tail(t.queue)
             /\ u = [t EXCEPT !.queue = Append(q, packet), !.lags = TRUE]
    <3>1. CASE Len(t.queue) < AgentRoom
      <4>1. u = [t EXCEPT !.queue = Append(t.queue, packet)]
        BY <1>2, <2>1, <3>1 DEF Delivered
      <4> QED
        BY <2>1, <4>1
    <3>2. CASE ~(Len(t.queue) < AgentRoom)
      <4>1. u = [t EXCEPT !.queue = Append(Tail(t.queue), packet), !.lags = TRUE]
        BY <1>2, <2>1, <3>2 DEF Delivered
      <4>2. t.queue # << >> /\ Tail(t.queue) \in Seq(Packet)
        BY <1>0, <2>1, <3>2
      <4> QED
        BY <4>1, <4>2
    <3> QED
      BY <3>1, <3>2
  <2>3. Range(q) \subseteq Range(t.queue) /\ Distinct(q)
    <3>1. Distinct(t.queue)
      BY DEF TaskOK
    <3>2. CASE t.queue # << >> /\ q = Tail(t.queue)
      <4>1. /\ Range(t.queue) = {Head(t.queue)} \cup Range(q)
            /\ Distinct(t.queue) => Distinct(q)
        BY <2>1, <3>2, RangeTail
      <4> QED
        BY <3>1, <4>1
    <3> QED
      BY <2>2, <3>1, <3>2
  <2>4. packet \notin Range(t.queue) /\ packet \notin Range(t.batch)
    BY DEF TaskOK
  <2>5. PICK r \in Seq(Packet) : /\ r = Append(q, packet) /\ Range(r) = Range(q) \cup {packet}
                                 /\ Distinct(r)
    BY <2>3, <2>4, RangeAppended
  <2>6. /\ u \in TaskRecord /\ u.at = t.at /\ u.batch = t.batch /\ u.queue = r
        /\ u.lags \/ (q = t.queue /\ u.lags = t.lags)
    BY <2>1, <2>2, <2>5 DEF TaskRecord
  <2> HIDE DEF u
  <2>7. TaskOK(u, s, f \cup {packet}, a, k)
    BY <1>2, <2>3, <2>4, <2>5, <2>6 DEF TaskOK
  <2>8. \A p \in Nat : p % Shards = k /\ Holds(t, s, a, p) => Holds(u, s, a, p)
    BY <1>2, <2>5, <2>6 DEF Holds
  <2>9. packet.address = a => packet = [id |-> packet.id, address |-> a]
    BY DEF Packet
  <2>10. packet.address = a => Holds(u, s, a, packet.id)
    BY <2>5, <2>6, <2>9 DEF Holds
  <2> QED
    BY <2>7, <2>8, <2>10 DEF Goes, u
<1> QED
  BY <1>1, <1>2

------------------------------------------------------------------------------
(* ForwardProxy: the state                                                  *)

ProxyTypeOK ==
  /\ requests \in Nat
  /\ entering \subseteq [id : 1 .. requests, nodes : SUBSET Address]
  /\ inbound \in Seq(Packet) /\ \A p \in Range(inbound) : p.id \in 1 .. requests
  /\ made \in Seq(Address) /\ Len(made) <= MaxAgents
  /\ agents \in [Address -> 0 .. Len(made)]
  /\ told \subseteq 1 .. Len(made)
  /\ task \in [Agent -> [Shard -> TaskRecord]]
  /\ accepted \in [Agent -> SUBSET Nat]
  /\ tried \in [Agent -> [Shard -> Seq(Nat)]]

Entering(p) == \E r \in entering : r.id = p.id /\ p.address \in r.nodes

(* A packet that a handler has yet to enqueue is not enqueued yet, and none *)
(* is enqueued twice.                                                       *)
EnqueuedOnce ==
  /\ \A r, q \in entering : r.id = q.id => r = q
  /\ Distinct(inbound)
  /\ \A p \in Range(inbound) : ~Entering(p)

(* The packets that are enqueued no more.                                   *)
Forwarded ==
  {p \in [id : 1 .. requests, address : Address] : ~Entering(p) /\ p \notin Range(inbound)}

TasksOK ==
  \A n \in 1 .. Len(made), k \in Shard :
    TaskOK(task[n][k], tried[n][k], Forwarded, made[n], k)

UnmadeAreGone ==
  \A n \in Agent : n > Len(made) =>
    accepted[n] = {} /\ \A k \in Shard : task[n][k].at = "gone" /\ tried[n][k] = << >>

AgentsHold ==
  \A a \in Address : agents[a] # NoAgent =>
    /\ made[agents[a]] = a /\ agents[a] \notin told
    /\ \A p \in accepted[agents[a]] :
         Holds(task[agents[a]][p % Shards], tried[agents[a]][p % Shards], a, p)

ProxyInv == ProxyTypeOK /\ EnqueuedOnce /\ TasksOK /\ UnmadeAreGone /\ AgentsHold

LEMMA OfShard == ASSUME NEW p \in Nat PROVE p % Shards \in Shard
<1>1. Shards \in Nat \ {0}
  BY ProxyAssumption DEF ProxyAssumption
<1> QED
  BY <1>1 DEF Shard

LEMMA ForwardedType == ASSUME requests \in Nat PROVE Forwarded \subseteq Packet
BY DEF Forwarded, Packet

LEMMA TaskOKGrows ==
  ASSUME NEW t, NEW s, NEW f, NEW g, NEW a, NEW k, TaskOK(t, s, f, a, k), f \subseteq g
  PROVE  TaskOK(t, s, g, a, k)
BY DEF TaskOK

(* What leaves the agents and their tasks alone, and takes back no packet.  *)
LEMMA EntryInv ==
  ASSUME ProxyInv, ProxyTypeOK', EnqueuedOnce', Forwarded \subseteq Forwarded',
         UNCHANGED <<agents, made, told, task, accepted, tried>>
  PROVE  ProxyInv'
<1>1. TasksOK'
  <2> SUFFICES ASSUME NEW n \in 1 .. Len(made), NEW k \in Shard
               PROVE  TaskOK(task[n][k], tried[n][k], Forwarded', made[n], k)
    BY DEF TasksOK
  <2>1. TaskOK(task[n][k], tried[n][k], Forwarded, made[n], k)
    BY DEF ProxyInv, TasksOK
  <2> QED
    BY <2>1, TaskOKGrows
<1>2. UnmadeAreGone' /\ AgentsHold'
  BY DEF ProxyInv, UnmadeAreGone, AgentsHold
<1> QED
  BY <1>1, <1>2 DEF ProxyInv

LEMMA AcceptRequestInv ==
  ASSUME ProxyInv, NEW tpus \in SUBSET Address, AcceptRequest(tpus) PROVE ProxyInv'
<1> DEFINE r == [id |-> requests + 1, nodes |-> tpus]
<1>1. /\ requests \in Nat /\ requests' = requests + 1 /\ entering' = entering \cup {r}
      /\ UNCHANGED <<inbound, agents, made, told, task, accepted, tried>>
  BY DEF AcceptRequest, ProxyInv, ProxyTypeOK
<1>2. /\ 1 .. requests \subseteq 1 .. requests' /\ requests' \in 1 .. requests'
      /\ requests' \notin 1 .. requests
  BY <1>1
<1>3. entering \subseteq [id : 1 .. requests, nodes : SUBSET Address]
  BY DEF ProxyInv, ProxyTypeOK
<1>4. ProxyTypeOK'
  <2>1. entering' \subseteq [id : 1 .. requests', nodes : SUBSET Address]
    BY <1>1, <1>2, <1>3
  <2>2. \A p \in Range(inbound) : p.id \in 1 .. requests'
    BY <1>2 DEF ProxyInv, ProxyTypeOK
  <2> QED
    BY <1>1, <2>1, <2>2 DEF ProxyInv, ProxyTypeOK
<1>5. \A q \in entering : q.id # r.id
  BY <1>1, <1>2, <1>3
<1>6. \A p : p.id \in 1 .. requests => (Entering(p)' <=> Entering(p))
  BY <1>1, <1>2 DEF Entering
<1>7. EnqueuedOnce'
  <2>1. \A q, o \in entering' : q.id = o.id => q = o
    BY <1>1, <1>5 DEF ProxyInv, EnqueuedOnce
  <2>2. \A p \in Range(inbound) : ~Entering(p)'
    BY <1>6 DEF ProxyInv, EnqueuedOnce, ProxyTypeOK
  <2> QED
    BY <1>1, <2>1, <2>2 DEF ProxyInv, EnqueuedOnce
<1>8. Forwarded \subseteq Forwarded'
  <2> SUFFICES ASSUME NEW p \in Forwarded PROVE p \in Forwarded'
    OBVIOUS
  <2>1. /\ p \in [id : 1 .. requests, address : Address] /\ p.id \in 1 .. requests
        /\ ~Entering(p) /\ p \notin Range(inbound)
    BY DEF Forwarded
  <2>2. p \in [id : 1 .. requests', address : Address]
    BY <1>2, <2>1
  <2> QED
    BY <1>1, <1>6, <2>1, <2>2 DEF Forwarded
<1> QED
  BY <1>1, <1>4, <1>7, <1>8, EntryInv

LEMMA EnqueueInv ==
  ASSUME ProxyInv, NEW r \in entering, Enqueue(r) PROVE ProxyInv'
<1>1. UNCHANGED <<requests, agents, made, told, task, accepted, tried>>
  BY DEF Enqueue
<1>2. /\ entering \subseteq [id : 1 .. requests, nodes : SUBSET Address] /\ requests \in Nat
      /\ inbound \in Seq(Packet) /\ \A p \in Range(inbound) : p.id \in 1 .. requests
  BY DEF ProxyInv, ProxyTypeOK
<1>3. /\ \A q, o \in entering : q.id = o.id => q = o
      /\ Distinct(inbound) /\ \A p \in Range(inbound) : ~Entering(p)
  BY DEF ProxyInv, EnqueuedOnce
<1>4. CASE entering' = entering \ {r} /\ inbound' = inbound
  <2>1. \A p : Entering(p)' => Entering(p)
    BY <1>4 DEF Entering
  <2>2. ProxyTypeOK'
    BY <1>1, <1>2, <1>4 DEF ProxyInv, ProxyTypeOK
  <2>3. EnqueuedOnce'
    BY <1>3, <1>4, <2>1 DEF EnqueuedOnce
  <2>4. Forwarded \subseteq Forwarded'
    BY <1>1, <1>4, <2>1 DEF Forwarded
  <2> QED
    BY <1>1, <2>2, <2>3, <2>4, EntryInv
<1>5. ASSUME NEW a \in r.nodes, inbound' = Append(inbound, [id |-> r.id, address |-> a]),
             entering' = (entering \ {r}) \cup
               (IF r.nodes = {a} THEN {} ELSE {[r EXCEPT !.nodes = @ \ {a}]})
      PROVE  ProxyInv'
  <2>1. PICK p : p = [id |-> r.id, address |-> a]
    OBVIOUS
  <2>2. PICK o : o = [r EXCEPT !.nodes = @ \ {a}]
    OBVIOUS
  <2>3. /\ o \in [id : 1 .. requests, nodes : SUBSET Address] /\ o.id = r.id
        /\ o.nodes = r.nodes \ {a} /\ r.id \in 1 .. requests /\ a \in Address
    BY <1>2, <1>5, <2>2
  <2>4. entering' \subseteq (entering \ {r}) \cup {o}
    BY <1>5, <2>2
  <2>5. p \in Packet /\ p.id = r.id /\ p.address = a
    BY <2>1, <2>3 DEF Packet
  <2>6. Entering(p) /\ p \notin Range(inbound)
    <3>1. Entering(p)
      BY <1>5, <2>5 DEF Entering
    <3> QED
      BY <1>3, <3>1
  <2>7. /\ inbound' \in Seq(Packet) /\ Range(inbound') = Range(inbound) \cup {p}
        /\ Distinct(inbound')
    BY <1>2, <1>3, <1>5, <2>1, <2>5, <2>6, RangeAppended
  <2>8. \A q : Entering(q)' => Entering(q)
    BY <2>3, <2>4 DEF Entering
  <2>9. ~Entering(p)'
    <3> SUFFICES ASSUME NEW q \in entering', q.id = r.id, a \in q.nodes PROVE FALSE
      BY <2>5 DEF Entering
    <3>1. q # o
      BY <2>3
    <3>2. q \in entering /\ q # r
      BY <2>4, <3>1
    <3> QED
      BY <1>3, <3>2
  <2>10. ProxyTypeOK'
    <3>1. entering' \subseteq [id : 1 .. requests, nodes : SUBSET Address]
      BY <1>2, <2>3, <2>4
    <3>2. \A q \in Range(inbound') : q.id \in 1 .. requests
      BY <1>2, <2>3, <2>5, <2>7
    <3> QED
      BY <1>1, <2>7, <3>1, <3>2 DEF ProxyInv, ProxyTypeOK
  <2>11. EnqueuedOnce'
    <3>1. \A q, x \in entering' : q.id = x.id => q = x
      BY <1>3, <2>3, <2>4
    <3> QED
      BY <1>3, <2>7, <2>8, <2>9, <3>1 DEF EnqueuedOnce
  <2>12. Forwarded \subseteq Forwarded'
    BY <1>1, <2>6, <2>7, <2>8 DEF Forwarded
  <2> QED
    BY <1>1, <2>10, <2>11, <2>12, EntryInv
<1> QED
  BY <1>4, <1>5 DEF Enqueue

(* A step of one task.                                                      *)
LEMMA TaskInv ==
  ASSUME ProxyInv, NEW n \in Agent, NEW k \in Shard, NEW u, NEW v,
         task[n][k].at # "gone",
         task' = [task EXCEPT ![n][k] = u], tried' = [tried EXCEPT ![n][k] = v],
         Goes(task[n][k], tried[n][k], u, v, Forwarded, made[n], k),
         UNCHANGED <<requests, entering, inbound, agents, made, told, accepted>>
  PROVE  ProxyInv'
<1>1. /\ task \in [Agent -> [Shard -> TaskRecord]] /\ tried \in [Agent -> [Shard -> Seq(Nat)]]
      /\ made \in Seq(Address) /\ Len(made) \in Nat /\ Len(made) <= MaxAgents
      /\ accepted \in [Agent -> SUBSET Nat] /\ agents \in [Address -> 0 .. Len(made)]
  BY DEF ProxyInv, ProxyTypeOK
<1>2. u \in TaskRecord /\ v \in Seq(Nat) /\ TaskOK(u, v, Forwarded, made[n], k)
  BY DEF Goes, TaskOK
<1>3. /\ task'[n][k] = u /\ tried'[n][k] = v
      /\ \A m \in Agent, j \in Shard :
           m # n \/ j # k => task'[m][j] = task[m][j] /\ tried'[m][j] = tried[m][j]
  BY <1>1
<1>4. Forwarded' = Forwarded
  BY DEF Forwarded, Entering
<1>5. n <= Len(made)
  BY <1>1 DEF ProxyInv, UnmadeAreGone, Agent
<1>6. ProxyTypeOK'
  <2>1. task' \in [Agent -> [Shard -> TaskRecord]] /\ tried' \in [Agent -> [Shard -> Seq(Nat)]]
    BY <1>1, <1>2
  <2> QED
    BY <2>1 DEF ProxyInv, ProxyTypeOK
<1>7. EnqueuedOnce'
  BY DEF ProxyInv, EnqueuedOnce, Entering
<1>8. TasksOK'
  <2> SUFFICES ASSUME NEW m \in 1 .. Len(made), NEW j \in Shard
               PROVE  TaskOK(task'[m][j], tried'[m][j], Forwarded, made[m], j)
    BY <1>4 DEF TasksOK
  <2>1. m \in Agent
    BY <1>1, ProxyAssumption DEF Agent, ProxyAssumption
  <2>2. TaskOK(task[m][j], tried[m][j], Forwarded, made[m], j)
    BY DEF ProxyInv, TasksOK
  <2> QED
    BY <1>2, <1>3, <2>1, <2>2
<1>9. UnmadeAreGone'
  <2> SUFFICES ASSUME NEW m \in Agent, m > Len(made)
               PROVE  /\ accepted[m] = {}
                      /\ \A j \in Shard : task'[m][j].at = "gone" /\ tried'[m][j] = << >>
    BY DEF UnmadeAreGone
  <2>1. m # n
    BY <1>1, <1>5 DEF Agent
  <2> QED
    BY <1>3, <2>1 DEF ProxyInv, UnmadeAreGone
<1>10. AgentsHold'
  <2> SUFFICES ASSUME NEW a \in Address, agents[a] # NoAgent
               PROVE  /\ made[agents[a]] = a /\ agents[a] \notin told
                      /\ \A p \in accepted[agents[a]] :
                           Holds(task'[agents[a]][p % Shards], tried'[agents[a]][p % Shards], a, p)
    BY DEF AgentsHold
  <2>1. PICK m : m = agents[a]
    OBVIOUS
  <2>2. /\ made[m] = a /\ m \notin told
        /\ \A p \in accepted[m] : Holds(task[m][p % Shards], tried[m][p % Shards], a, p)
    BY <2>1 DEF ProxyInv, AgentsHold
  <2>3. m \in Agent
    BY <1>1, <2>1, ProxyAssumption DEF Agent, NoAgent, ProxyAssumption
  <2>4. ASSUME NEW p \in accepted[m]
        PROVE  Holds(task'[m][p % Shards], tried'[m][p % Shards], a, p)
    <3>1. p \in Nat /\ p % Shards \in Shard
      <4>1. p \in Nat
        BY <1>1, <2>3
      <4> QED
        BY <4>1, OfShard
    <3>2. CASE m = n /\ p % Shards = k
      <4>1. Holds(task[n][k], tried[n][k], made[n], p)
        BY <2>2, <2>4, <3>2
      <4>2. Holds(u, v, made[n], p)
        BY <3>1, <3>2, <4>1 DEF Goes
      <4> QED
        BY <1>3, <2>2, <3>2, <4>2
    <3>3. CASE m # n \/ p % Shards # k
      BY <1>3, <2>2, <2>3, <2>4, <3>1, <3>3
    <3> QED
      BY <3>2, <3>3
  <2> QED
    BY <2>1, <2>2, <2>4
<1> QED
  BY <1>6, <1>7, <1>8, <1>9, <1>10 DEF ProxyInv

LEMMA NewTaskIs ==
  ASSUME NEW f, NEW a, NEW k PROVE NewTask \in TaskRecord /\ TaskOK(NewTask, << >>, f, a, k)
<1>1. NotConnected \in ProxyConn /\ << >> \in Seq(Packet) /\ << >> \in Seq(Nat)
  BY DEF NotConnected, State, ProxyConn
<1>2. /\ NewTask \in TaskRecord /\ NewTask.queue = << >> /\ NewTask.batch = << >>
      /\ NewTask.at = "receive"
  BY <1>1 DEF NewTask, TaskRecord
<1> QED
  BY <1>1, <1>2, EmptyIs DEF TaskOK

(* The forwarder: the packet is new to every task, and one agent has it     *)
(* handed.                                                                  *)
LEMMA ForwardInv ==
  ASSUME ProxyInv, NEW idle \in SUBSET Address, Forward(idle) PROVE ProxyInv'
<1>1. PICK packet : packet = Head(inbound)
  OBVIOUS
<1>2. PICK a : a = packet.address
  OBVIOUS
<1>3. PICK n : n = IF agents[a] = NoAgent THEN Len(made) + 1 ELSE agents[a]
  OBVIOUS
<1>4. PICK dropped : dropped = {b \in idle \ {a} : agents[b] # NoAgent}
  OBVIOUS
<1>5. PICK before : before = IF agents[a] = NoAgent
                             THEN [task EXCEPT ![n] = [k \in Shard |-> NewTask]] ELSE task
  OBVIOUS
<1>6. /\ inbound # << >> /\ n \in Agent /\ inbound' = Tail(inbound)
      /\ made' = IF agents[a] = NoAgent THEN Append(made, a) ELSE made
      /\ agents' = Removed([agents EXCEPT ![a] = n], dropped)
      /\ told' = told \cup {agents[b] : b \in dropped}
      /\ task' = [m \in Agent |-> [k \in Shard |-> Delivered(before[m][k], packet)]]
      /\ accepted' = [accepted EXCEPT ![n] = @ \cup {packet.id}]
      /\ UNCHANGED <<requests, entering, tried>>
  BY <1>1, <1>2, <1>3, <1>4, <1>5 DEF Forward
<1>7. /\ task \in [Agent -> [Shard -> TaskRecord]] /\ tried \in [Agent -> [Shard -> Seq(Nat)]]
      /\ made \in Seq(Address) /\ Len(made) \in Nat /\ Len(made) <= MaxAgents
      /\ accepted \in [Agent -> SUBSET Nat] /\ agents \in [Address -> 0 .. Len(made)]
      /\ told \subseteq 1 .. Len(made) /\ requests \in Nat /\ inbound \in Seq(Packet)
      /\ \A p \in Range(inbound) : p.id \in 1 .. requests
  BY DEF ProxyInv, ProxyTypeOK
<1>8. Agent = 1 .. MaxAgents /\ NoAgent = 0 /\ MaxAgents \in Nat
  BY ProxyAssumption DEF Agent, NoAgent, ProxyAssumption
(* the channel *)
<1>9. /\ packet \in Packet /\ inbound' \in Seq(Packet) /\ Distinct(inbound')
      /\ Range(inbound) = {packet} \cup Range(inbound') /\ packet \notin Range(inbound')
  BY <1>1, <1>6, <1>7, RangeTail DEF ProxyInv, EnqueuedOnce
<1>10. /\ packet.id \in 1 .. requests /\ a \in Address /\ packet.id \in Nat
       /\ packet \in [id : 1 .. requests, address : Address]
  <2>1. packet.id \in 1 .. requests
    BY <1>7, <1>9
  <2> QED
    BY <1>2, <1>9, <2>1 DEF Packet
<1>11. ~Entering(packet)
  BY <1>9 DEF ProxyInv, EnqueuedOnce
<1>12. \A p : Entering(p)' <=> Entering(p)
  BY <1>6 DEF Entering
<1>13. packet \notin Forwarded /\ Forwarded' = Forwarded \cup {packet}
  <2>1. packet \notin Forwarded
    BY <1>9 DEF Forwarded
  <2>2. \A p : p \in Forwarded' <=> p \in Forwarded \/ p = packet
    BY <1>6, <1>9, <1>10, <1>11, <1>12 DEF Forwarded
  <2> QED
    BY <2>1, <2>2
<1>14. EnqueuedOnce'
  BY <1>6, <1>9, <1>12 DEF ProxyInv, EnqueuedOnce
(* the agents *)
<1>15. n \in 1 .. Len(made') /\ made'[n] = a
  <2>1. CASE agents[a] = NoAgent
    BY <1>3, <1>6, <1>7, <1>10, <2>1
  <2>2. CASE agents[a] # NoAgent
    BY <1>3, <1>6, <1>7, <1>8, <1>10, <2>2 DEF ProxyInv, AgentsHold
  <2> QED
    BY <2>1, <2>2
<1>16. /\ made' \in Seq(Address) /\ Len(made') \in Nat /\ Len(made') <= MaxAgents
       /\ Len(made) <= Len(made') /\ \A m \in 1 .. Len(made) : made'[m] = made[m]
       /\ \A m \in 1 .. Len(made') : m \in 1 .. Len(made) \/ (m = n /\ agents[a] = NoAgent)
  <2>1. CASE agents[a] = NoAgent
    <3>1. made' = Append(made, a) /\ Len(made) + 1 <= MaxAgents /\ n = Len(made) + 1
      BY <1>3, <1>6, <1>7, <1>8, <1>10, <2>1
    <3>2. made \in Seq(Address) /\ a \in Address
      BY <1>7, <1>10
    <3>. QED
      BY <2>1, <3>1, <3>2
  <2>2. CASE agents[a] # NoAgent
    BY <1>6, <1>7, <2>2
  <2> QED
    BY <2>1, <2>2
<1>17. agents[a] = NoAgent => n \notin 1 .. Len(made) /\ n > Len(made)
  BY <1>3, <1>7
<1>18. \A b \in Address : agents'[b] = IF b \in dropped THEN NoAgent
                                       ELSE IF b = a THEN n ELSE agents[b]
  BY <1>6, <1>7 DEF Removed
<1>19. a \notin dropped /\ dropped \subseteq Address
  BY <1>4
<1>20. \A b \in Address : b # a /\ agents[b] # NoAgent =>
         agents[b] \in 1 .. Len(made) /\ agents[b] # n /\ made[agents[b]] = b
  <2> SUFFICES ASSUME NEW b \in Address, b # a, agents[b] # NoAgent
               PROVE  agents[b] \in 1 .. Len(made) /\ agents[b] # n /\ made[agents[b]] = b
    OBVIOUS
  <2>1. agents[b] \in 1 .. Len(made) /\ made[agents[b]] = b
    BY <1>7, <1>8 DEF ProxyInv, AgentsHold
  <2>2. CASE agents[a] = NoAgent
    BY <1>17, <2>1, <2>2
  <2>3. CASE agents[a] # NoAgent
    BY <1>3, <1>10, <2>1, <2>3 DEF ProxyInv, AgentsHold
  <2> QED
    BY <2>1, <2>2, <2>3
(* the tasks *)
<1>21. /\ before \in [Agent -> [Shard -> TaskRecord]]
       /\ \A m \in Agent : (m # n \/ agents[a] # NoAgent) => before[m] = task[m]
       /\ agents[a] = NoAgent => \A k \in Shard : before[n][k] = NewTask
  <2>1. CASE agents[a] = NoAgent
    <3>1. [k \in Shard |-> NewTask] \in [Shard -> TaskRecord]
      BY NewTaskIs
    <3> QED
      BY <1>5, <1>6, <1>7, <2>1, <3>1
  <2>2. CASE agents[a] # NoAgent
    BY <1>5, <1>7, <2>2
  <2> QED
    BY <2>1, <2>2
<1>22. ASSUME NEW m \in 1 .. Len(made'), NEW k \in Shard
       PROVE  TaskOK(before[m][k], tried[m][k], Forwarded, made'[m], k)
  <2>1. m \in Agent
    BY <1>8, <1>16
  <2>2. CASE m = n /\ agents[a] = NoAgent
    <3>1. before[m][k] = NewTask /\ tried[m][k] = << >>
      BY <1>6, <1>17, <1>21, <2>2 DEF ProxyInv, UnmadeAreGone
    <3> QED
      BY <3>1, NewTaskIs
  <2>3. CASE m \in 1 .. Len(made) /\ (m # n \/ agents[a] # NoAgent)
    <3>1. before[m][k] = task[m][k] /\ made'[m] = made[m]
      BY <1>16, <1>21, <2>1, <2>3
    <3> QED
      BY <2>3, <3>1 DEF ProxyInv, TasksOK
  <2> QED
    BY <1>16, <1>17, <2>2, <2>3
<1>23. \A m \in Agent, k \in Shard : task'[m][k] = Delivered(before[m][k], packet)
  BY <1>6
<1>24. ASSUME NEW m \in 1 .. Len(made'), NEW k \in Shard
       PROVE  /\ Goes(before[m][k], tried[m][k], task'[m][k], tried[m][k], Forwarded', made'[m], k)
              /\ packet.address = made'[m] =>
                   Holds(task'[m][k], tried[m][k], made'[m], packet.id)
  <2>1. m \in Agent
    BY <1>8, <1>16
  <2>2. Forwarded \subseteq Packet
    BY <1>7, ForwardedType
  <2> QED
    BY <1>9, <1>13, <1>22, <1>23, <2>1, <2>2, DeliveredGoes
<1>25. TasksOK'
  BY <1>6, <1>24 DEF TasksOK, Goes
<1>26. UnmadeAreGone'
  <2> SUFFICES ASSUME NEW m \in Agent, m > Len(made')
               PROVE  /\ accepted'[m] = {}
                      /\ \A k \in Shard : task'[m][k].at = "gone" /\ tried[m][k] = << >>
    BY <1>6 DEF UnmadeAreGone
  <2>1. m > Len(made) /\ m # n
    BY <1>7, <1>8, <1>15, <1>16
  <2>2. accepted[m] = {} /\ \A k \in Shard : task[m][k].at = "gone" /\ tried[m][k] = << >>
    BY <2>1 DEF ProxyInv, UnmadeAreGone
  <2>3. \A k \in Shard : task'[m][k] = task[m][k]
    <3>1. before[m] = task[m]
      BY <1>21, <2>1
    <3> QED
      BY <1>23, <2>2, <3>1 DEF Delivered
  <2> QED
    BY <1>6, <1>7, <2>1, <2>2, <2>3
<1>27. ProxyTypeOK'
  <2>1. \A b \in Address : agents'[b] \in 0 .. Len(made')
    <3>1. PICK x, y : x = Len(made) /\ y = Len(made')
      OBVIOUS
    <3>2. x \in Nat /\ y \in Nat /\ x <= y /\ n \in 1 .. y /\ agents \in [Address -> 0 .. x]
      BY <1>7, <1>15, <1>16, <3>1
    <3>3. 0 \in 0 .. y /\ n \in 0 .. y /\ 0 .. x \subseteq 0 .. y
      BY <3>2
    <3> QED
      BY <1>8, <1>18, <3>1, <3>2, <3>3
  <2>2. agents' \in [Address -> 0 .. Len(made')]
    BY <1>6, <2>1 DEF Removed
  <2>3. \A b \in dropped : agents[b] \in 1 .. Len(made)
    BY <1>4, <1>7, <1>8, <1>19
  <2>4. told' \subseteq 1 .. Len(made')
    <3>1. PICK x, y : x = Len(made) /\ y = Len(made')
      OBVIOUS
    <3>2. 1 .. x \subseteq 1 .. y
      BY <1>7, <1>16, <3>1
    <3> QED
      BY <1>6, <1>7, <2>3, <3>1, <3>2
  <2>5. task' \in [Agent -> [Shard -> TaskRecord]]
    <3> SUFFICES ASSUME NEW m \in Agent, NEW k \in Shard PROVE task'[m][k] \in TaskRecord
      BY <1>6
    <3>1. CASE m \in 1 .. Len(made')
      BY <1>24, <3>1 DEF Goes, TaskOK
    <3>2. CASE m > Len(made')
      <4>1. m > Len(made) /\ m # n
        BY <1>7, <1>8, <1>15, <1>16, <3>2
      <4>2. task'[m][k] = task[m][k]
        <5>1. before[m] = task[m] /\ task[m][k].at = "gone"
          BY <1>21, <4>1 DEF ProxyInv, UnmadeAreGone
        <5> QED
          BY <1>23, <5>1 DEF Delivered
      <4> QED
        BY <1>7, <4>2
    <3> QED
      BY <1>8, <1>16, <3>1, <3>2
  <2>6. accepted' \in [Agent -> SUBSET Nat]
    BY <1>6, <1>7, <1>10
  <2>7. entering' \subseteq [id : 1 .. requests', nodes : SUBSET Address]
    BY <1>6 DEF ProxyInv, ProxyTypeOK
  <2>8. \A p \in Range(inbound') : p.id \in 1 .. requests'
    BY <1>6, <1>7, <1>9
  <2> QED
    BY <1>6, <1>7, <1>9, <1>16, <2>2, <2>4, <2>5, <2>6, <2>7, <2>8 DEF ProxyTypeOK
(* the agents hold what they were handed *)
<1>28. \A b \in dropped : agents[b] \in 1 .. Len(made) /\ agents[b] # n
  BY <1>4, <1>19, <1>20
<1>29. n \notin told'
  <2>1. n \notin told
    <3>1. CASE agents[a] = NoAgent
      BY <1>7, <1>17, <3>1
    <3>2. CASE agents[a] # NoAgent
      BY <1>3, <1>10, <3>2 DEF ProxyInv, AgentsHold
    <3> QED
      BY <3>1, <3>2
  <2> QED
    BY <1>6, <1>28, <2>1
<1>30. \A p \in accepted'[n] : Holds(task'[n][p % Shards], tried[n][p % Shards], a, p)
  <2> SUFFICES ASSUME NEW p \in accepted'[n]
               PROVE  Holds(task'[n][p % Shards], tried[n][p % Shards], a, p)
    OBVIOUS
  <2>1. p \in Nat /\ p \in accepted[n] \cup {packet.id}
    BY <1>6, <1>7, <1>10
  <2>2. p % Shards \in Shard
    BY <2>1, OfShard
  <2>3. CASE p = packet.id
    BY <1>2, <1>15, <1>24, <2>2, <2>3
  <2>4. CASE p \in accepted[n]
    <3>1. agents[a] # NoAgent
      BY <1>6, <1>17, <2>4 DEF ProxyInv, UnmadeAreGone
    <3>2. n = agents[a] /\ before[n] = task[n]
      BY <1>3, <1>6, <1>21, <3>1
    <3>3. Holds(before[n][p % Shards], tried[n][p % Shards], a, p)
      BY <1>10, <2>4, <3>1, <3>2 DEF ProxyInv, AgentsHold
    <3> QED
      BY <1>15, <1>24, <2>1, <2>2, <3>3 DEF Goes
  <2> QED
    BY <2>1, <2>3, <2>4
<1>31. ASSUME NEW b \in Address, b # a, b \notin dropped, NEW m, m = agents[b], m # NoAgent
       PROVE  /\ made'[m] = b /\ m \notin told'
              /\ \A p \in accepted'[m] : Holds(task'[m][p % Shards], tried[m][p % Shards], b, p)
  <2>1. /\ m \in 1 .. Len(made) /\ m # n /\ made[m] = b /\ m \in Agent
        /\ m \in 1 .. Len(made')
    BY <1>7, <1>8, <1>16, <1>20, <1>31
  <2>2. m \notin told'
    <3>1. m \notin told
      BY <1>31 DEF ProxyInv, AgentsHold
    <3>2. \A c \in dropped : agents[c] # m
      BY <1>4, <1>19, <1>20, <1>31, <2>1
    <3> QED
      BY <1>6, <3>1, <3>2
  <2>3. made'[m] = b
    BY <1>16, <2>1
  <2>4. accepted'[m] = accepted[m] /\ before[m] = task[m]
    BY <1>6, <1>7, <1>21, <2>1
  <2>5. ASSUME NEW p \in accepted[m]
        PROVE  Holds(task'[m][p % Shards], tried[m][p % Shards], b, p)
    <3>1. Holds(before[m][p % Shards], tried[m][p % Shards], b, p)
      BY <1>31, <2>4, <2>5 DEF ProxyInv, AgentsHold
    <3>2. p \in Nat /\ p % Shards \in Shard
      <4>1. p \in Nat
        BY <1>7, <2>1
      <4> QED
        BY <4>1, OfShard
    <3> QED
      BY <1>24, <2>1, <2>3, <3>1, <3>2 DEF Goes
  <2> QED
    BY <2>2, <2>3, <2>4, <2>5
<1>32. AgentsHold'
  <2> SUFFICES ASSUME NEW b \in Address, agents'[b] # NoAgent
               PROVE  /\ made'[agents'[b]] = b /\ agents'[b] \notin told'
                      /\ \A p \in accepted'[agents'[b]] :
                           Holds(task'[agents'[b]][p % Shards], tried[agents'[b]][p % Shards], b, p)
    BY <1>6 DEF AgentsHold
  <2>1. b \notin dropped /\ agents'[b] = IF b = a THEN n ELSE agents[b]
    BY <1>18
  <2>2. CASE b = a
    BY <1>15, <1>29, <1>30, <2>1, <2>2
  <2>3. CASE b # a
    BY <1>31, <2>1, <2>3
  <2> QED
    BY <2>2, <2>3
<1> QED
  BY <1>14, <1>25, <1>26, <1>27, <1>32 DEF ProxyInv

LEMMA ProxyStepInv == ASSUME ProxyInv, [ProxyNext]_proxyVars PROVE ProxyInv'
<1>1. ASSUME NEW tpus \in SUBSET Address, AcceptRequest(tpus) PROVE ProxyInv'
  BY <1>1, AcceptRequestInv
<1>2. ASSUME NEW r \in entering, Enqueue(r) PROVE ProxyInv'
  BY <1>2, EnqueueInv
<1>3. ASSUME NEW idle \in SUBSET Address, Forward(idle) PROVE ProxyInv'
  BY <1>3, ForwardInv
<1>4. ASSUME NEW n \in Agent, NEW k \in Shard, Task(n, k) PROVE ProxyInv'
  <2>1. task[n][k].at # "gone"
    BY <1>4 DEF Task, Receive, Send, SendTimesOut, TaskPanics
  <2>2. n \in 1 .. Len(made)
    BY <2>1 DEF ProxyInv, ProxyTypeOK, UnmadeAreGone, Agent
  <2>3. TaskOK(task[n][k], tried[n][k], Forwarded, made[n], k) /\ Forwarded \subseteq Packet
    BY <2>2, ForwardedType DEF ProxyInv, TasksOK, ProxyTypeOK
  <2>4. UNCHANGED <<requests, entering, inbound, agents, made, told, accepted>>
    BY <1>4 DEF Task, Receive, Send, SendTimesOut, TaskPanics, Becomes
  <2>5. tried = [tried EXCEPT ![n][k] = tried[n][k]]
    BY DEF ProxyInv, ProxyTypeOK
  <2>6. CASE Receive(n, k)
    <3>1. tried' = tried
      BY <2>6 DEF Receive
    <3>2. PICK u : /\ task' = [task EXCEPT ![n][k] = u]
                   /\ Goes(task[n][k], tried[n][k], u, tried[n][k], Forwarded, made[n], k)
      BY <2>3, <2>6, ReceiveGoes
    <3> QED
      BY <2>1, <2>4, <2>5, <3>1, <3>2, TaskInv
  <2>7. CASE Send(n, k)
    <3>1. PICK u, v : /\ task' = [task EXCEPT ![n][k] = u]
                      /\ tried' = [tried EXCEPT ![n][k] = v]
                      /\ Goes(task[n][k], tried[n][k], u, v, Forwarded, made[n], k)
      BY <2>3, <2>7, SendGoes
    <3> QED
      BY <2>1, <2>4, <3>1, TaskInv
  <2>8. CASE SendTimesOut(n, k)
    <3>1. PICK u, v : /\ task' = [task EXCEPT ![n][k] = u]
                      /\ tried' = [tried EXCEPT ![n][k] = v]
                      /\ Goes(task[n][k], tried[n][k], u, v, Forwarded, made[n], k)
      BY <2>3, <2>8, SendTimesOutGoes
    <3> QED
      BY <2>1, <2>4, <3>1, TaskInv
  <2>9. CASE TaskPanics(n, k)
    <3>1. task' = [task EXCEPT ![n][k] = GoneTask] /\ tried' = tried
      BY <2>9 DEF TaskPanics, Becomes
    <3>2. Goes(task[n][k], tried[n][k], GoneTask, tried[n][k], Forwarded, made[n], k)
      BY <2>3, TaskForgets
    <3> QED
      BY <2>1, <2>4, <2>5, <3>1, <3>2, TaskInv
  <2> QED
    BY <1>4, <2>6, <2>7, <2>8, <2>9 DEF Task
<1>5. ASSUME UNCHANGED proxyVars PROVE ProxyInv'
  <2>1. UNCHANGED <<requests, entering, inbound, agents, made, told, task, accepted, tried>>
    BY <1>5 DEF proxyVars
  <2>2. ProxyTypeOK' /\ EnqueuedOnce' /\ Forwarded' = Forwarded
    BY <2>1 DEF ProxyInv, ProxyTypeOK, EnqueuedOnce, Entering, Forwarded
  <2> QED
    BY <2>1, <2>2, EntryInv
<1> QED
  BY <1>1, <1>2, <1>3, <1>4, <1>5 DEF ProxyNext

LEMMA ProxyInitInv == ASSUME ProxyInit PROVE ProxyInv
<1>1. << >> \in Seq(Packet) /\ << >> \in Seq(Address) /\ << >> \in Seq(Nat)
      /\ Len(<< >>) = 0 /\ MaxAgents \in Nat
  BY ProxyAssumption DEF ProxyAssumption
<1>2. GoneTask \in TaskRecord /\ GoneTask.at = "gone"
  <2>1. NewTask \in TaskRecord
    BY NewTaskIs
  <2> QED
    BY <2>1 DEF GoneTask, TaskRecord
<1>3. ProxyTypeOK
  BY <1>1, <1>2, EmptyIs DEF ProxyInit, ProxyTypeOK, NoAgent
<1>4. EnqueuedOnce
  BY EmptyIs DEF ProxyInit, EnqueuedOnce
<1>5. TasksOK
  BY <1>1 DEF ProxyInit, TasksOK
<1>6. UnmadeAreGone /\ AgentsHold
  BY <1>2 DEF ProxyInit, UnmadeAreGone, AgentsHold
<1> QED
  BY <1>3, <1>4, <1>5, <1>6 DEF ProxyInv

LEMMA ProxyInvDelivers == ASSUME ProxyInv PROVE AcceptedIsTried /\ SentOnce
<1>1. AcceptedIsTried
  BY DEF ProxyInv, AgentsHold, AcceptedIsTried, Holds, Tried
<1>2. SentOnce
  <2> SUFFICES ASSUME NEW n \in Agent, NEW k \in Shard
               PROVE  /\ \A i, j \in DOMAIN tried[n][k] :
                           tried[n][k][i] = tried[n][k][j] => i = j
                      /\ \A j \in Shard \ {k} : Tried(n, k) \cap Tried(n, j) = {}
    BY DEF SentOnce
  <2>1. n \in 1 .. Len(made) \/ n > Len(made)
    BY DEF ProxyInv, ProxyTypeOK, Agent
  <2>2. CASE n > Len(made)
    <3>1. \A j \in Shard : tried[n][j] = << >>
      BY <2>2 DEF ProxyInv, UnmadeAreGone
    <3> QED
      BY <3>1, EmptyIs DEF Tried
  <2>3. CASE n \in 1 .. Len(made)
    <3>1. \A j \in Shard : /\ tried[n][j] \in Seq(Nat) /\ Distinct(tried[n][j])
                           /\ \A i \in Tried(n, j) : i % Shards = j
      <4> TAKE j \in Shard
      <4>1. TaskOK(task[n][j], tried[n][j], Forwarded, made[n], j)
        BY <2>3 DEF ProxyInv, TasksOK
      <4> QED
        BY <4>1 DEF TaskOK, Tried
    <3>2. DOMAIN tried[n][k] = 1 .. Len(tried[n][k])
      BY <3>1
    <3> QED
      BY <3>1, <3>2 DEF Distinct
  <2> QED
    BY <2>1, <2>2, <2>3
<1> QED
  BY <1>1, <1>2

(* The invariant of the forward proxy: every task has the packets that were *)
(* forwarded to it at one place each, in its queue, its batch or among      *)
(* those it tried, and only its own in the last two.                        *)
THEOREM ProxyInvariant == ProxySpec => [](ProxyInv /\ AcceptedIsTried /\ SentOnce)
<1>1. ProxyInit => ProxyInv
  BY ProxyInitInv
<1>2. ProxyInv /\ [ProxyNext]_proxyVars => ProxyInv'
  BY ProxyStepInv
<1>3. ProxyInv => AcceptedIsTried /\ SentOnce
  BY ProxyInvDelivers
<1> QED
  BY <1>1, <1>2, <1>3, PTL DEF ProxySpec

(* Sending through a proxy: the client and the forward proxy.               *)
THEOREM ProxiesAlwaysDeliver == ClientSpec /\ ProxySpec => []ProxiesDeliver
BY ClientInvariant, ProxyInvariant, PTL DEF ProxiesDeliver

------------------------------------------------------------------------------
(* PrioFeeHeap: the map and the signatures                                  *)

Good(m, s) ==
  /\ IsFiniteSet(s) /\ s \subseteq Tx
  /\ \A f \in DOMAIN m : /\ m[f] \in Seq(Tx) /\ m[f] # << >> /\ Distinct(m[f])
                         /\ \A tx \in Range(m[f]) : FeeOf[tx] = f
  /\ \A tx : tx \in s <=> \E f \in DOMAIN m : tx \in Range(m[f])

GoodHeap(h) == Good(h.map, h.signatures) /\ Cardinality(h.signatures) <= MaxTransactions

(* An empty heap has no signatures, and the others a lowest and a highest   *)
(* fee.                                                                     *)
LEMMA HeapHasFees ==
  ASSUME NEW h, Good(h.map, h.signatures)
  PROVE  /\ IsEmpty(h) <=> h.signatures = {}
         /\ ~IsEmpty(h) =>
              /\ FirstKey(h) \in DOMAIN h.map /\ LastKey(h) \in DOMAIN h.map
              /\ \A f \in DOMAIN h.map : FirstKey(h) <= f /\ f <= LastKey(h)
<1>1. PICK m, s : m = h.map /\ s = h.signatures
  OBVIOUS
<1>2. /\ IsFiniteSet(s) /\ s \subseteq Tx
      /\ \A f \in DOMAIN m : /\ m[f] \in Seq(Tx) /\ m[f] # << >>
                             /\ \A tx \in Range(m[f]) : FeeOf[tx] = f
      /\ \A tx : tx \in s <=> \E f \in DOMAIN m : tx \in Range(m[f])
  BY <1>1 DEF Good
<1>3. \A f \in DOMAIN m : \E tx \in s : FeeOf[tx] = f
  <2> TAKE f \in DOMAIN m
  <2>1. Head(m[f]) \in Range(m[f])
    BY <1>2, RangeTail
  <2> QED
    BY <1>2, <2>1
<1>4. \A tx \in s : FeeOf[tx] \in DOMAIN m
  BY <1>2
<1>5. DOMAIN m \subseteq Nat
  BY <1>2, <1>3, HeapAssumption DEF HeapAssumption
<1>6. IsFiniteSet(DOMAIN m)
  <2> DEFINE g == [tx \in s |-> FeeOf[tx]]
  <2>1. g \in Surjection(s, DOMAIN m)
    BY <1>3, <1>4 DEF Surjection
  <2> QED
    BY <1>2, <2>1, FS_Surjection
<1>7. DOMAIN m = {} <=> s = {}
  BY <1>3, <1>4
<1>8. ASSUME DOMAIN m # {}
      PROVE  /\ Min(DOMAIN m) \in DOMAIN m /\ Max(DOMAIN m) \in DOMAIN m
             /\ \A f \in DOMAIN m : Min(DOMAIN m) <= f /\ f <= Max(DOMAIN m)
  <2>1. \E x \in DOMAIN m : \A y \in DOMAIN m : x =< y
    BY <1>5, <1>8, LeastNatural
  <2>2. \E x \in DOMAIN m : \A y \in DOMAIN m : x >= y
    BY <1>5, <1>6, <1>8, GreatestNatural
  <2> QED
    BY <2>1, <2>2 DEF Min, Max
<1> QED
  BY <1>1, <1>7, <1>8 DEF IsEmpty, FirstKey, LastKey

(* The queue of one fee is replaced.                                        *)
LEMMA QueueReplaced ==
  ASSUME NEW m, NEW s, Good(m, s), NEW fee, NEW q \in Seq(Tx), Distinct(q),
         \A tx \in Range(q) : FeeOf[tx] = fee,
         NEW r, IsFiniteSet(r), r \subseteq Tx,
         \A tx : tx \in r <=> tx \in Range(q) \/ (tx \in s /\ FeeOf[tx] # fee)
  PROVE  Good(WithQueue(m, fee, q), r)
<1>1. PICK w : w = WithQueue(m, fee, q)
  OBVIOUS
<1>2. /\ \A f : f \in DOMAIN w <=> (f = fee /\ q # << >>) \/ (f # fee /\ f \in DOMAIN m)
      /\ \A f \in DOMAIN w : w[f] = IF f = fee THEN q ELSE m[f]
  BY <1>1 DEF WithQueue
<1>3. \A f \in DOMAIN w : /\ w[f] \in Seq(Tx) /\ w[f] # << >> /\ Distinct(w[f])
                          /\ \A tx \in Range(w[f]) : FeeOf[tx] = f
  BY <1>2 DEF Good
<1>4. ASSUME NEW tx PROVE tx \in r <=> \E f \in DOMAIN w : tx \in Range(w[f])
  <2>1. ASSUME tx \in Range(q) PROVE \E f \in DOMAIN w : tx \in Range(w[f])
    <3>1. q # << >>
      BY <2>1, EmptyIs
    <3> QED
      BY <1>2, <2>1, <3>1
  <2>2. ASSUME tx \in s, FeeOf[tx] # fee PROVE \E f \in DOMAIN w : tx \in Range(w[f])
    <3>1. PICK f \in DOMAIN m : tx \in Range(m[f])
      BY <2>2 DEF Good
    <3>2. f # fee
      BY <2>2, <3>1 DEF Good
    <3> QED
      BY <1>2, <3>1, <3>2
  <2>3. ASSUME NEW f \in DOMAIN w, tx \in Range(w[f]) PROVE tx \in r
    <3>1. CASE f = fee
      BY <1>2, <2>3, <3>1
    <3>2. CASE f # fee
      <4>1. f \in DOMAIN m /\ tx \in Range(m[f])
        BY <1>2, <2>3, <3>2
      <4>2. tx \in s /\ FeeOf[tx] # fee
        BY <3>2, <4>1 DEF Good
      <4> QED
        BY <4>2
    <3> QED
      BY <3>1, <3>2
  <2> QED
    BY <2>1, <2>2, <2>3
<1> QED
  BY <1>1, <1>3, <1>4 DEF Good

LEMMA TakeFrontGood ==
  ASSUME NEW h, Good(h.map, h.signatures), NEW fee \in DOMAIN h.map
  PROVE  /\ Good(TakeFront(h, fee).map, TakeFront(h, fee).signatures)
         /\ Cardinality(TakeFront(h, fee).signatures) = Cardinality(h.signatures) - 1
<1>1. PICK m, s, q : m = h.map /\ s = h.signatures /\ q = m[fee]
  OBVIOUS
<1>2. /\ Good(m, s) /\ fee \in DOMAIN m /\ q \in Seq(Tx) /\ q # << >> /\ Distinct(q)
      /\ \A tx \in Range(q) : FeeOf[tx] = fee
      /\ IsFiniteSet(s) /\ s \subseteq Tx
  BY <1>1 DEF Good
<1>3. /\ Tail(q) \in Seq(Tx) /\ Range(q) = {Head(q)} \cup Range(Tail(q))
      /\ Distinct(Tail(q)) /\ Head(q) \notin Range(Tail(q))
  BY <1>2, RangeTail
<1>4. \A tx : tx \in s /\ FeeOf[tx] = fee <=> tx \in Range(q)
  BY <1>1, <1>2 DEF Good
<1>5. \A tx : tx \in s \ {Head(q)} <=> tx \in Range(Tail(q)) \/ (tx \in s /\ FeeOf[tx] # fee)
  BY <1>2, <1>3, <1>4
<1>6. /\ IsFiniteSet(s \ {Head(q)}) /\ Head(q) \in s
      /\ Cardinality(s \ {Head(q)}) = Cardinality(s) - 1
  BY <1>2, <1>3, <1>4, FS_RemoveElement
<1>7. Good(WithQueue(m, fee, Tail(q)), s \ {Head(q)})
  <2>1. PICK t, r : t = Tail(q) /\ r = s \ {Head(q)}
    OBVIOUS
  <2>2. t \in Seq(Tx) /\ Distinct(t) /\ \A tx \in Range(t) : FeeOf[tx] = fee
    BY <1>2, <1>3, <2>1
  <2>3. IsFiniteSet(r) /\ r \subseteq Tx
    BY <1>2, <1>6, <2>1
  <2>4. \A tx : tx \in r <=> tx \in Range(t) \/ (tx \in s /\ FeeOf[tx] # fee)
    BY <1>5, <2>1
  <2>5. Good(WithQueue(m, fee, t), r)
    BY <1>2, <2>2, <2>3, <2>4, QueueReplaced
  <2> QED
    BY <2>1, <2>5
<1> QED
  BY <1>1, <1>6, <1>7 DEF TakeFront

LEMMA PutGood ==
  ASSUME NEW h, Good(h.map, h.signatures), NEW tx \in Tx, tx \notin h.signatures
  PROVE  /\ Good(Put(h, tx).map, Put(h, tx).signatures)
         /\ Cardinality(Put(h, tx).signatures) = Cardinality(h.signatures) + 1
         /\ ~IsEmpty(Put(h, tx))
<1>1. PICK m, s, fee, q : m = h.map /\ s = h.signatures /\ fee = FeeOf[tx] /\ q = Queue(m, fee)
  OBVIOUS
<1>2. Good(m, s) /\ IsFiniteSet(s) /\ s \subseteq Tx /\ tx \notin s
  BY <1>1 DEF Good
<1>3. q \in Seq(Tx) /\ Distinct(q) /\ \A x \in Range(q) : FeeOf[x] = fee
  <2>1. CASE fee \in DOMAIN m
    BY <1>1, <1>2, <2>1 DEF Queue, Good
  <2>2. CASE fee \notin DOMAIN m
    <3>1. q = << >>
      BY <1>1, <2>2 DEF Queue
    <3> QED
      BY <3>1, EmptyIs
  <2> QED
    BY <2>1, <2>2
<1>4. \A x : x \in s /\ FeeOf[x] = fee <=> x \in Range(q)
  <2>1. CASE fee \in DOMAIN m
    BY <1>1, <1>2, <2>1 DEF Queue, Good
  <2>2. CASE fee \notin DOMAIN m
    <3>1. q = << >>
      BY <1>1, <2>2 DEF Queue
    <3> QED
      BY <1>2, <2>2, <3>1, EmptyIs DEF Good
  <2> QED
    BY <2>1, <2>2
<1>5. PICK p : p = Append(q, tx)
  OBVIOUS
<1>6. p \in Seq(Tx) /\ Range(p) = Range(q) \cup {tx} /\ Distinct(p)
  <2>1. tx \notin Range(q)
    BY <1>2, <1>4
  <2> QED
    BY <1>3, <1>5, <2>1, RangeAppended
<1>7. \A x : x \in s \cup {tx} <=> x \in Range(p) \/ (x \in s /\ FeeOf[x] # fee)
  BY <1>4, <1>6
<1>8. IsFiniteSet(s \cup {tx}) /\ Cardinality(s \cup {tx}) = Cardinality(s) + 1
  BY <1>2, FS_AddElement
<1>9. Good(WithQueue(m, fee, p), s \cup {tx})
  <2>1. \A x \in Range(p) : FeeOf[x] = fee
    BY <1>1, <1>3, <1>6
  <2> QED
    BY <1>2, <1>6, <1>7, <1>8, <2>1, QueueReplaced
<1>10. Put(h, tx).map = WithQueue(m, fee, p) /\ Put(h, tx).signatures = s \cup {tx}
  BY <1>1, <1>5 DEF Put
<1>11. ~IsEmpty(Put(h, tx))
  BY <1>9, <1>10, HeapHasFees
<1> QED
  BY <1>1, <1>8, <1>9, <1>10, <1>11

LEMMA InsertGood ==
  ASSUME NEW h, GoodHeap(h), NEW tx \in Tx PROVE GoodHeap(Insert(h, tx))
<1>1. CASE IsRefused(h, tx)
  BY <1>1 DEF Insert
<1>2. CASE ~IsRefused(h, tx)
  <2>1. PICK p : p = Put(h, tx)
    OBVIOUS
  <2>2. /\ Good(p.map, p.signatures) /\ ~IsEmpty(p)
        /\ Cardinality(p.signatures) = Cardinality(h.signatures) + 1
    BY <1>2, <2>1, PutGood DEF GoodHeap, IsRefused
  <2>3. /\ Cardinality(h.signatures) \in Nat /\ Cardinality(h.signatures) <= MaxTransactions
        /\ MaxTransactions \in Nat
    BY FS_CardinalityType, HeapAssumption DEF GoodHeap, Good, HeapAssumption
  <2>4. Insert(h, tx) = Evict(p)
    BY <1>2, <2>1 DEF Insert
  <2>5. CASE Cardinality(p.signatures) > MaxTransactions
    <3>1. PICK fee \in DOMAIN p.map : fee = FirstKey(p)
      BY <2>2, HeapHasFees
    <3>2. Insert(h, tx) = TakeFront(p, fee)
      BY <2>4, <2>5, <3>1 DEF Evict
    <3>3. /\ Good(TakeFront(p, fee).map, TakeFront(p, fee).signatures)
          /\ Cardinality(TakeFront(p, fee).signatures) = Cardinality(p.signatures) - 1
      BY <2>2, TakeFrontGood
    <3>4. Cardinality(TakeFront(p, fee).signatures) <= MaxTransactions
      BY <2>2, <2>3, <3>3
    <3> QED
      BY <3>2, <3>3, <3>4 DEF GoodHeap
  <2>6. CASE ~(Cardinality(p.signatures) > MaxTransactions)
    <3>1. Insert(h, tx) = p
      BY <2>4, <2>6 DEF Evict
    <3> QED
      BY <2>2, <2>3, <2>6, <3>1 DEF GoodHeap
  <2> QED
    BY <2>5, <2>6
<1> QED
  BY <1>1, <1>2

LEMMA PopGood ==
  ASSUME NEW h, GoodHeap(h), ~IsEmpty(h)
  PROVE  GoodHeap(Pop(h)) /\ Popped(h) \in h.signatures /\ Popped(h) \notin Pop(h).signatures
<1>1. PICK fee \in DOMAIN h.map : fee = LastKey(h)
  BY HeapHasFees DEF GoodHeap
<1>2. Pop(h) = TakeFront(h, fee) /\ Popped(h) = Head(h.map[fee])
  BY <1>1 DEF Pop, Popped
<1>3. /\ Good(TakeFront(h, fee).map, TakeFront(h, fee).signatures)
      /\ Cardinality(TakeFront(h, fee).signatures) = Cardinality(h.signatures) - 1
  BY TakeFrontGood DEF GoodHeap
<1>4. /\ Cardinality(h.signatures) \in Nat /\ Cardinality(h.signatures) <= MaxTransactions
      /\ MaxTransactions \in Nat
  BY FS_CardinalityType, HeapAssumption DEF GoodHeap, Good, HeapAssumption
<1>5. Cardinality(TakeFront(h, fee).signatures) <= MaxTransactions
  BY <1>3, <1>4
<1>6. Head(h.map[fee]) \in Range(h.map[fee])
  BY RangeTail DEF GoodHeap, Good
<1>7. Popped(h) \in h.signatures
  BY <1>2, <1>6 DEF GoodHeap, Good
<1>8. Popped(h) \notin TakeFront(h, fee).signatures
  BY <1>2 DEF TakeFront
<1> QED
  BY <1>2, <1>3, <1>5, <1>7, <1>8 DEF GoodHeap

LEMMA RemoveExpiredGood ==
  ASSUME NEW h, GoodHeap(h), NEW b PROVE GoodHeap(RemoveExpired(h, b))
<1>1. PICK m, s : m = h.map /\ s = h.signatures
  OBVIOUS
<1>2. Good(m, s) /\ IsFiniteSet(s) /\ s \subseteq Tx
  BY <1>1 DEF GoodHeap, Good
<1>3. PICK valid : valid = {tx \in Tx : IsValidAt(tx, b)}
  OBVIOUS
<1>4. PICK w : w = RemoveExpired(h, b).map
  OBVIOUS
<1>5. RemoveExpired(h, b).signatures = s \cap valid
  BY <1>1, <1>3 DEF RemoveExpired
<1>6. w = [f \in {x \in DOMAIN m : Sublist(m[x], valid) # << >>} |-> Sublist(m[f], valid)]
  BY <1>1, <1>3, <1>4 DEF RemoveExpired
<1>7. \A f \in DOMAIN m : /\ Sublist(m[f], valid) \in Seq(Tx)
                          /\ Range(Sublist(m[f], valid)) = Range(m[f]) \cap valid
                          /\ Distinct(Sublist(m[f], valid))
  BY <1>2, RangeSublist DEF Good
<1>8. \A f \in DOMAIN w : /\ f \in DOMAIN m /\ w[f] \in Seq(Tx) /\ w[f] # << >>
                          /\ Distinct(w[f]) /\ Range(w[f]) = Range(m[f]) \cap valid
  BY <1>6, <1>7
<1>9. \A f \in DOMAIN m \ DOMAIN w : Range(m[f]) \cap valid = {}
  BY <1>6, <1>7, EmptyIs
<1>10. \A tx : tx \in s \cap valid <=> \E f \in DOMAIN w : tx \in Range(w[f])
  BY <1>2, <1>8, <1>9 DEF Good
<1>11. /\ IsFiniteSet(s \cap valid) /\ Cardinality(s \cap valid) <= Cardinality(s)
       /\ Cardinality(s \cap valid) \in Nat /\ Cardinality(s) \in Nat
  BY <1>2, FS_Subset, FS_CardinalityType
<1>12. Good(w, s \cap valid)
  BY <1>2, <1>8, <1>10, <1>11 DEF Good
<1>13. Cardinality(s \cap valid) <= MaxTransactions
  BY <1>1, <1>11, HeapAssumption DEF GoodHeap, HeapAssumption
<1> QED
  BY <1>4, <1>5, <1>12, <1>13 DEF GoodHeap

LEMMA EmptyHeapGood == GoodHeap(EmptyHeap)
<1>1. EmptyHeap.map = << >> /\ EmptyHeap.signatures = {} /\ DOMAIN << >> = {}
  BY DEF EmptyHeap
<1> QED
  BY <1>1, FS_EmptySet, HeapAssumption DEF GoodHeap, Good, HeapAssumption

LEMMA GoodHeapAgrees == ASSUME NEW h, GoodHeap(h) PROVE IsHeap(h) /\ Agrees(h)
<1>1. PICK m, s : m = h.map /\ s = h.signatures
  OBVIOUS
<1>2. Good(m, s)
  BY <1>1 DEF GoodHeap
<1>3. DOMAIN m \subseteq {FeeOf[tx] : tx \in Tx}
  <2> SUFFICES ASSUME NEW f \in DOMAIN m PROVE \E tx \in Tx : FeeOf[tx] = f
    OBVIOUS
  <2>1. Head(m[f]) \in Range(m[f]) /\ Head(m[f]) \in Tx
    BY <1>2, RangeTail DEF Good
  <2> QED
    BY <1>2, <2>1 DEF Good
<1>4. \A f \in DOMAIN m : IsInjective(m[f])
  <2> TAKE f \in DOMAIN m
  <2>1. m[f] \in Seq(Tx) /\ Distinct(m[f])
    BY <1>2 DEF Good
  <2>2. DOMAIN m[f] = 1 .. Len(m[f])
    BY <2>1
  <2> QED
    BY <2>1, <2>2 DEF IsInjective, Distinct
<1>5. s = UNION {Range(m[f]) : f \in DOMAIN m}
  BY <1>2 DEF Good
<1>6. IsHeap(h)
  BY <1>1, <1>2, <1>3 DEF IsHeap, Good
<1>7. Agrees(h)
  BY <1>1, <1>2, <1>4, <1>5 DEF Agrees, Good, GoodHeap
<1> QED
  BY <1>6, <1>7

------------------------------------------------------------------------------
(* PrioFeeHeapUse: the heap as a ranking                                    *)

Leads(m, t, u) ==
  FeeOf[t] > FeeOf[u] \/ (FeeOf[t] = FeeOf[u] /\ Earlier(m[FeeOf[t]], t, u))

LEMMA AheadIs ==
  ASSUME NEW h
  PROVE  /\ AheadIn(h) \subseteq h.signatures \X h.signatures
         /\ \A t, u \in h.signatures : <<t, u>> \in AheadIn(h) <=> Leads(h.map, t, u)
<1>1. AheadIn(h) \subseteq h.signatures \X h.signatures
  BY DEF AheadIn
<1>2. ASSUME NEW t \in h.signatures, NEW u \in h.signatures
      PROVE  <<t, u>> \in AheadIn(h) <=> Leads(h.map, t, u)
  <2>1. PICK pair : pair = <<t, u>>
    OBVIOUS
  <2>a. pair[1] = t /\ pair[2] = u
    BY <2>1
  <2>2. pair \in h.signatures \X h.signatures
    BY <2>1
  <2>3. pair \in AheadIn(h) <=> Leads(h.map, pair[1], pair[2])
    BY <2>2 DEF AheadIn, Leads
  <2> QED
    BY <2>1, <2>a, <2>3
<1> QED
  BY <1>1, <1>2

LEMMA QueueOfTx ==
  ASSUME NEW m, NEW s, Good(m, s), NEW tx \in s
  PROVE  /\ FeeOf[tx] \in DOMAIN m /\ FeeOf[tx] \in Nat /\ tx \in Tx
         /\ m[FeeOf[tx]] \in Seq(Tx) /\ Distinct(m[FeeOf[tx]]) /\ m[FeeOf[tx]] # << >>
         /\ In(tx, m[FeeOf[tx]])
<1>1. PICK f \in DOMAIN m : tx \in Range(m[f])
  BY DEF Good
<1>2. FeeOf[tx] = f /\ m[f] \in Seq(Tx) /\ Distinct(m[f]) /\ m[f] # << >>
  BY <1>1 DEF Good
<1>3. In(tx, m[f])
  BY <1>1, <1>2, RangeIs
<1>4. tx \in Tx /\ FeeOf[tx] \in Nat
  BY HeapAssumption DEF Good, HeapAssumption
<1> QED
  BY <1>2, <1>3, <1>4

LEMMA QueuesHaveFees ==
  ASSUME NEW m, NEW s, Good(m, s)
  PROVE  DOMAIN m \subseteq Nat
<1> SUFFICES ASSUME NEW f \in DOMAIN m PROVE f \in Nat
  OBVIOUS
<1>1. Head(m[f]) \in Tx /\ Head(m[f]) \in Range(m[f])
  BY RangeTail DEF Good
<1> QED
  BY <1>1, HeapAssumption DEF Good, HeapAssumption

LEMMA LeadsOrders ==
  ASSUME NEW m, NEW s, Good(m, s), NEW t \in s, NEW u \in s
  PROVE  /\ Leads(m, t, u) => ~Leads(m, u, t) /\ t # u
         /\ t # u => Leads(m, t, u) \/ Leads(m, u, t)
         /\ \A v \in s : Leads(m, t, u) /\ Leads(m, u, v) => Leads(m, t, v)
<1>1. FeeOf[t] \in Nat /\ FeeOf[u] \in Nat
  BY QueueOfTx
<1>2. PICK q : q = m[FeeOf[t]] /\ q \in Seq(Tx) /\ Distinct(q) /\ In(t, q)
  BY QueueOfTx
<1>3. FeeOf[t] = FeeOf[u] => In(u, q)
  BY <1>2, QueueOfTx
<1>4. FeeOf[t] = FeeOf[u] =>
        /\ Leads(m, t, u) <=> Earlier(q, t, u)
        /\ Leads(m, u, t) <=> Earlier(q, u, t)
  BY <1>1, <1>2 DEF Leads
<1>5. FeeOf[t] # FeeOf[u] =>
        /\ Leads(m, t, u) <=> FeeOf[t] > FeeOf[u]
        /\ Leads(m, u, t) <=> FeeOf[u] > FeeOf[t]
  BY DEF Leads
<1>6. Leads(m, t, u) => ~Leads(m, u, t) /\ t # u
  <2>1. CASE FeeOf[t] = FeeOf[u]
    BY <1>2, <1>4, <2>1, EarlierOrders
  <2>2. CASE FeeOf[t] # FeeOf[u]
    BY <1>1, <1>5, <2>2
  <2> QED
    BY <2>1, <2>2
<1>7. t # u => Leads(m, t, u) \/ Leads(m, u, t)
  <2>1. CASE FeeOf[t] = FeeOf[u]
    BY <1>2, <1>3, <1>4, <2>1, EarlierOrders
  <2>2. CASE FeeOf[t] # FeeOf[u]
    BY <1>1, <1>5, <2>2
  <2> QED
    BY <2>1, <2>2
<1>8. ASSUME NEW v \in s, Leads(m, t, u), Leads(m, u, v) PROVE Leads(m, t, v)
  <2>1. FeeOf[v] \in Nat
    BY QueueOfTx
  <2>2. CASE FeeOf[t] = FeeOf[u] /\ FeeOf[u] = FeeOf[v]
    <3>1. Earlier(q, t, u) /\ Earlier(q, u, v)
      BY <1>1, <1>2, <1>8, <2>1, <2>2 DEF Leads
    <3>2. Earlier(q, t, v)
      BY <1>2, <3>1, EarlierOrders
    <3> QED
      BY <1>2, <2>2, <3>2 DEF Leads
  <2>3. CASE ~(FeeOf[t] = FeeOf[u] /\ FeeOf[u] = FeeOf[v])
    <3>1. FeeOf[t] >= FeeOf[u] /\ FeeOf[u] >= FeeOf[v]
      BY <1>1, <1>8, <2>1 DEF Leads
    <3>2. FeeOf[t] > FeeOf[v]
      BY <1>1, <2>1, <2>3, <3>1
    <3> QED
      BY <3>2 DEF Leads
  <2> QED
    BY <2>2, <2>3
<1> QED
  BY <1>6, <1>7, <1>8

LEMMA GoodHeapIsARanking == GoodHeap(ranked) => Ranked!IsARanking
<1> SUFFICES ASSUME GoodHeap(ranked) PROVE Ranked!IsARanking
  OBVIOUS
<1>1. PICK m, s, a : m = ranked.map /\ s = ranked.signatures /\ a = AheadIn(ranked)
  OBVIOUS
<1>2. /\ a \subseteq s \X s
      /\ \A t, u \in s : <<t, u>> \in a <=> Leads(m, t, u)
  BY <1>1, AheadIs
<1>3. Good(m, s)
  BY <1>1 DEF GoodHeap
<1>4. ASSUME NEW t \in s, NEW u \in s
      PROVE  /\ <<t, u>> \in a => <<u, t>> \notin a
             /\ t # u => <<t, u>> \in a \/ <<u, t>> \in a
             /\ FeeOf[t] > FeeOf[u] => <<t, u>> \in a
             /\ \A v \in s : <<t, u>> \in a /\ <<u, v>> \in a => <<t, v>> \in a
  <2>1. FeeOf[t] > FeeOf[u] => Leads(m, t, u)
    BY DEF Leads
  <2> QED
    BY <1>2, <1>3, <2>1, LeadsOrders
<1> QED
  BY <1>1, <1>2, <1>4 DEF Ranked!IsARanking

(* What stays in its queue keeps its place.                                 *)
LEMMA RankKept ==
  ASSUME NEW h, NEW g, Good(h.map, h.signatures), Good(g.map, g.signatures),
         g.signatures \subseteq h.signatures,
         \A t, u \in g.signatures : FeeOf[t] = FeeOf[u] =>
           (Earlier(g.map[FeeOf[t]], t, u) <=> Earlier(h.map[FeeOf[t]], t, u))
  PROVE  AheadIn(g) = Ranked!Among(AheadIn(h), g.signatures)
<1>1. PICK s, r, a, b : /\ s = h.signatures /\ r = g.signatures
                        /\ a = AheadIn(h) /\ b = AheadIn(g)
  OBVIOUS
<1>2. a \subseteq s \X s /\ b \subseteq r \X r /\ r \subseteq s
  BY <1>1, AheadIs
<1>3. \A t, u \in r : <<t, u>> \in b <=> <<t, u>> \in a
  <2> TAKE t, u \in r
  <2>1. <<t, u>> \in b <=> Leads(g.map, t, u)
    BY <1>1, AheadIs
  <2>2. <<t, u>> \in a <=> Leads(h.map, t, u)
    BY <1>1, AheadIs
  <2>3. Leads(g.map, t, u) <=> Leads(h.map, t, u)
    BY <1>1 DEF Leads
  <2> QED
    BY <2>1, <2>2, <2>3
<1>4. \A pair \in r \X r : pair \in b <=> pair \in a
  BY <1>3
<1>5. b = a \cap (r \X r)
  BY <1>2, <1>4
<1> QED
  BY <1>1, <1>5 DEF Ranked!Among

LEMMA TakeFrontRanks ==
  ASSUME NEW h, Good(h.map, h.signatures), NEW fee \in DOMAIN h.map
  PROVE  AheadIn(TakeFront(h, fee))
           = Ranked!Among(AheadIn(h), h.signatures \ {Head(h.map[fee])})
<1>1. PICK g, q, m, w, s : /\ g = TakeFront(h, fee) /\ m = h.map /\ s = h.signatures
                           /\ q = m[fee] /\ w = g.map
  OBVIOUS
<1>2. Good(w, g.signatures) /\ g.signatures = s \ {Head(q)} /\ w = WithQueue(m, fee, Tail(q))
  BY <1>1, TakeFrontGood DEF TakeFront
<1>3. \A f \in DOMAIN w : w[f] = IF f = fee THEN Tail(q) ELSE m[f]
  BY <1>2 DEF WithQueue
<1>4. q \in Seq(Tx) /\ q # << >> /\ Distinct(q)
  BY <1>1 DEF Good
<1>5. \A t, u : Earlier(Tail(q), t, u) <=> Earlier(q, t, u) /\ t # Head(q)
  BY <1>4, EarlierTail
<1>6. ASSUME NEW t \in g.signatures, NEW u \in g.signatures, FeeOf[t] = FeeOf[u]
      PROVE  Earlier(w[FeeOf[t]], t, u) <=> Earlier(m[FeeOf[t]], t, u)
  <2>1. FeeOf[t] \in DOMAIN w /\ t # Head(q)
    BY <1>2, QueueOfTx
  <2> QED
    BY <1>1, <1>3, <1>5, <2>1
<1>7. g.signatures \subseteq s
  BY <1>2
<1>8. AheadIn(g) = Ranked!Among(AheadIn(h), g.signatures)
  BY <1>1, <1>2, <1>6, <1>7, RankKept
<1> QED
  BY <1>1, <1>2, <1>8

LEMMA RemoveExpiredRanks ==
  ASSUME NEW h, GoodHeap(h), NEW b
  PROVE  AheadIn(RemoveExpired(h, b))
           = Ranked!Among(AheadIn(h), RemoveExpired(h, b).signatures)
<1>1. PICK g, m, w, s, valid : /\ g = RemoveExpired(h, b) /\ m = h.map /\ s = h.signatures
                               /\ w = g.map /\ valid = {tx \in Tx : IsValidAt(tx, b)}
  OBVIOUS
<1>2. Good(w, g.signatures) /\ Good(m, s) /\ g.signatures = s \cap valid
  BY <1>1, RemoveExpiredGood DEF GoodHeap, RemoveExpired
<1>3. \A f \in DOMAIN w : f \in DOMAIN m /\ w[f] = Sublist(m[f], valid)
  BY <1>1 DEF RemoveExpired
<1>4. ASSUME NEW t \in g.signatures, NEW u \in g.signatures, FeeOf[t] = FeeOf[u]
      PROVE  Earlier(w[FeeOf[t]], t, u) <=> Earlier(m[FeeOf[t]], t, u)
  <2>1. FeeOf[t] \in DOMAIN w /\ t \in valid /\ u \in valid
    BY <1>2, QueueOfTx
  <2>2. PICK q : q = m[FeeOf[t]] /\ q \in Seq(Tx)
    BY <1>2, QueueOfTx
  <2>3. Earlier(Sublist(q, valid), t, u) <=> Earlier(q, t, u) /\ t \in valid /\ u \in valid
    BY <2>2, SublistIs
  <2> QED
    BY <1>3, <2>1, <2>2, <2>3
<1>5. g.signatures \subseteq s
  BY <1>2
<1>6. AheadIn(g) = Ranked!Among(AheadIn(h), g.signatures)
  BY <1>1, <1>2, <1>4, <1>5, RankKept
<1> QED
  BY <1>1, <1>6

LEMMA PutRanks ==
  ASSUME Good(ranked.map, ranked.signatures), NEW tx \in Tx, tx \notin ranked.signatures
  PROVE  AheadIn(Put(ranked, tx)) = Ranked!JoinedBy(tx)
<1>1. PICK g, m, w, s, r, a, b, fee, q :
        /\ g = Put(ranked, tx) /\ m = ranked.map /\ s = ranked.signatures
        /\ w = g.map /\ r = g.signatures /\ a = AheadIn(ranked) /\ b = AheadIn(g)
        /\ fee = FeeOf[tx] /\ q = Queue(m, fee)
  OBVIOUS
<1>2. Good(m, s) /\ Good(w, r) /\ r = s \cup {tx} /\ w = WithQueue(m, fee, Append(q, tx))
  BY <1>1, PutGood DEF Put
<1>3. \A f \in DOMAIN w : w[f] = IF f = fee THEN Append(q, tx) ELSE m[f]
  BY <1>2 DEF WithQueue
<1>4. q \in Seq(Tx) /\ (fee \in DOMAIN m => q = m[fee]) /\ (fee \notin DOMAIN m => q = << >>)
  BY <1>1, <1>2 DEF Queue, Good
<1>5. \A x \in r : FeeOf[x] \in DOMAIN w /\ FeeOf[x] \in Nat
  BY <1>2, QueueOfTx
<1>6. \A x \in s : FeeOf[x] \in DOMAIN m /\ In(x, m[FeeOf[x]])
  BY <1>2, QueueOfTx
<1>7. ~In(tx, q)
  <2>1. CASE fee \in DOMAIN m
    <3>1. In(tx, q) => tx \in Range(m[fee])
      BY <1>4, <2>1, RangeIs
    <3>2. tx \notin s
      BY <1>1
    <3> QED
      BY <1>2, <2>1, <3>1, <3>2 DEF Good
  <2>2. CASE fee \notin DOMAIN m
    BY <1>4, <2>2 DEF In
  <2> QED
    BY <2>1, <2>2
<1>8. \A t, u : Earlier(Append(q, tx), t, u) <=> Earlier(q, t, u) \/ (In(t, q) /\ u = tx)
  BY <1>4, EarlierAppended
<1>9. \A t, u : Earlier(q, t, u) => In(t, q) /\ In(u, q)
  BY DEF Earlier, In
<1>10. /\ a \subseteq s \X s /\ b \subseteq r \X r
       /\ \A t, u \in s : <<t, u>> \in a <=> Leads(m, t, u)
       /\ \A t, u \in r : <<t, u>> \in b <=> Leads(w, t, u)
  BY <1>1, AheadIs
<1>11. ASSUME NEW t \in s, NEW u \in s PROVE <<t, u>> \in b <=> <<t, u>> \in a
  <2>1. t # tx /\ u # tx /\ t \in r /\ u \in r
    BY <1>1, <1>2
  <2>2. CASE FeeOf[t] = fee
    <3>1. w[FeeOf[t]] = Append(q, tx) /\ m[FeeOf[t]] = q
      BY <1>3, <1>4, <1>5, <1>6, <2>1, <2>2
    <3>2. Earlier(w[FeeOf[t]], t, u) <=> Earlier(m[FeeOf[t]], t, u)
      BY <1>8, <2>1, <3>1
    <3> QED
      BY <1>10, <2>1, <3>2 DEF Leads
  <2>3. CASE FeeOf[t] # fee
    <3>1. w[FeeOf[t]] = m[FeeOf[t]]
      BY <1>3, <1>5, <2>1, <2>3
    <3> QED
      BY <1>10, <2>1, <3>1 DEF Leads
  <2> QED
    BY <2>2, <2>3
<1>12. ASSUME NEW t \in s PROVE /\ <<t, tx>> \in b <=> FeeOf[t] >= FeeOf[tx]
                                /\ <<tx, t>> \in b <=> FeeOf[t] < FeeOf[tx]
  <2>1. t # tx /\ t \in r /\ tx \in r /\ FeeOf[t] \in Nat /\ FeeOf[tx] \in Nat
    BY <1>1, <1>2, <1>5
  <2>2. w[FeeOf[tx]] = Append(q, tx)
    BY <1>1, <1>3, <1>5, <2>1
  <2>3. ~Earlier(Append(q, tx), tx, t)
    BY <1>7, <1>8, <1>9, <2>1
  <2>4. FeeOf[t] = FeeOf[tx] => Earlier(Append(q, tx), t, tx)
    BY <1>1, <1>4, <1>6, <1>8
  <2>5. <<t, tx>> \in b <=> FeeOf[t] >= FeeOf[tx]
    <3>1. <<t, tx>> \in b <=> Leads(w, t, tx)
      BY <1>10, <2>1
    <3>2. CASE FeeOf[t] = FeeOf[tx]
      <4>1. w[FeeOf[t]] = Append(q, tx)
        BY <2>2, <3>2
      <4>2. Earlier(w[FeeOf[t]], t, tx)
        BY <2>4, <3>2, <4>1
      <4>3. Leads(w, t, tx)
        BY <3>2, <4>2 DEF Leads
      <4> QED
        BY <2>1, <3>1, <3>2, <4>3
    <3>3. CASE FeeOf[t] # FeeOf[tx]
      BY <2>1, <3>1, <3>3 DEF Leads
    <3> QED
      BY <3>2, <3>3
  <2>6. <<tx, t>> \in b <=> FeeOf[t] < FeeOf[tx]
    <3>1. <<tx, t>> \in b <=> Leads(w, tx, t)
      BY <1>10, <2>1
    <3> QED
      BY <2>1, <2>2, <2>3, <3>1 DEF Leads
  <2> QED
    BY <2>5, <2>6
<1>13. <<tx, tx>> \notin b
  <2>1. tx \in r /\ FeeOf[tx] \in Nat /\ w[FeeOf[tx]] = Append(q, tx)
    BY <1>1, <1>2, <1>3, <1>5
  <2>2. ~Earlier(Append(q, tx), tx, tx)
    BY <1>7, <1>8, <1>9
  <2>3. <<tx, tx>> \in b <=> Leads(w, tx, tx)
    BY <1>10, <2>1
  <2> QED
    BY <2>1, <2>2, <2>3 DEF Leads
<1>14. PICK c : c = Ranked!JoinedBy(tx)
  OBVIOUS
<1>15. c = a \cup {<<t, tx>> : t \in {u \in s : FeeOf[u] >= FeeOf[tx]}}
             \cup {<<tx, t>> : t \in {u \in s : FeeOf[u] < FeeOf[tx]}}
  BY <1>1, <1>14 DEF Ranked!JoinedBy
<1>16. tx \notin s
  BY <1>1
<1>17. c \subseteq r \X r
  BY <1>2, <1>10, <1>15
<1>18. \A t, u \in r : <<t, u>> \in b <=> <<t, u>> \in c
  <2> TAKE t, u \in r
  <2>1. CASE t \in s /\ u \in s
    <3>1. <<t, u>> \in c <=> <<t, u>> \in a
      BY <1>15, <1>16, <2>1
    <3> QED
      BY <1>11, <2>1, <3>1
  <2>2. CASE t \in s /\ u = tx
    <3>1. <<t, u>> \in c <=> FeeOf[t] >= FeeOf[tx]
      BY <1>10, <1>15, <1>16, <2>2
    <3> QED
      BY <1>12, <2>2, <3>1
  <2>3. CASE t = tx /\ u \in s
    <3>1. <<t, u>> \in c <=> FeeOf[u] < FeeOf[tx]
      BY <1>10, <1>15, <1>16, <2>3
    <3> QED
      BY <1>12, <2>3, <3>1
  <2>4. CASE t = tx /\ u = tx
    <3>1. <<t, u>> \notin c
      BY <1>10, <1>15, <1>16, <2>4
    <3> QED
      BY <1>13, <2>4, <3>1
  <2> QED
    BY <1>2, <2>1, <2>2, <2>3, <2>4
<1>19. \A pair \in r \X r : pair \in b <=> pair \in c
  BY <1>18
<1>20. b = c
  BY <1>10, <1>17, <1>19
<1> QED
  BY <1>1, <1>14, <1>20

(* Pop takes the best.                                                      *)
LEMMA BestIsPopped ==
  ASSUME GoodHeap(ranked), ~IsEmpty(ranked)
  PROVE  Ranked!IsBest(Popped(ranked))
<1>1. PICK m, s, a, k, q, c :
        /\ m = ranked.map /\ s = ranked.signatures /\ a = AheadIn(ranked)
        /\ k = LastKey(ranked) /\ q = m[k] /\ c = Head(q)
  OBVIOUS
<1>2. Good(m, s) /\ k \in DOMAIN m /\ \A f \in DOMAIN m : f <= k
  BY <1>1, HeapHasFees DEF GoodHeap
<1>3. q \in Seq(Tx) /\ q # << >> /\ Distinct(q) /\ c \in Range(q) /\ FeeOf[c] = k /\ c \in s
  <2>1. q \in Seq(Tx) /\ q # << >> /\ Distinct(q)
    BY <1>1, <1>2 DEF Good
  <2>2. c \in Range(q)
    BY <1>1, <2>1, RangeTail
  <2> QED
    BY <1>1, <1>2, <2>1, <2>2 DEF Good
<1>4. \A t \in s : <<c, t>> \in a <=> Leads(m, c, t)
  BY <1>1, <1>3, AheadIs
<1>5. ASSUME NEW t \in s \ {c} PROVE <<c, t>> \in a
  <2>1. FeeOf[t] \in DOMAIN m /\ FeeOf[t] \in Nat /\ In(t, m[FeeOf[t]])
    BY <1>2, QueueOfTx
  <2>2. k \in Nat
    BY <1>2, <1>3, QueueOfTx
  <2>3. CASE FeeOf[t] = k
    <3>1. Earlier(q, c, t)
      BY <1>1, <1>3, <2>1, <2>3, EarlierOrders
    <3> QED
      BY <1>1, <1>3, <1>4, <2>3, <3>1 DEF Leads
  <2>4. CASE FeeOf[t] # k
    <3>1. k > FeeOf[t]
      BY <1>2, <2>1, <2>2, <2>4
    <3> QED
      BY <1>3, <1>4, <3>1 DEF Leads
  <2> QED
    BY <2>3, <2>4
<1>6. Popped(ranked) = c
  BY <1>1 DEF Popped
<1> QED
  BY <1>1, <1>3, <1>5, <1>6 DEF Ranked!IsBest

LEMMA CheapestIsInFront ==
  ASSUME GoodHeap(ranked), ~IsEmpty(ranked)
  PROVE  LET c == Head(ranked.map[FirstKey(ranked)])
         IN  Ranked!IsCheapest(c) /\ FeeOf[c] = FirstKey(ranked)
<1>1. PICK m, s, a, k, q, c :
        /\ m = ranked.map /\ s = ranked.signatures /\ a = AheadIn(ranked)
        /\ k = FirstKey(ranked) /\ q = m[k] /\ c = Head(q)
  OBVIOUS
<1>2. Good(m, s) /\ k \in DOMAIN m /\ \A f \in DOMAIN m : k <= f
  BY <1>1, HeapHasFees DEF GoodHeap
<1>3. q \in Seq(Tx) /\ q # << >> /\ Distinct(q) /\ c \in Range(q) /\ FeeOf[c] = k /\ c \in s
  <2>1. q \in Seq(Tx) /\ q # << >> /\ Distinct(q)
    BY <1>1, <1>2 DEF Good
  <2>2. c \in Range(q)
    BY <1>1, <2>1, RangeTail
  <2> QED
    BY <1>1, <1>2, <2>1, <2>2 DEF Good
<1>4. \A t \in s : <<c, t>> \in a <=> Leads(m, c, t)
  BY <1>1, <1>3, AheadIs
<1>5. ASSUME NEW t \in s \ {c}
      PROVE  FeeOf[c] < FeeOf[t] \/ (FeeOf[c] = FeeOf[t] /\ <<c, t>> \in a)
  <2>1. FeeOf[t] \in DOMAIN m /\ FeeOf[t] \in Nat /\ In(t, m[FeeOf[t]])
    BY <1>2, QueueOfTx
  <2>2. k \in Nat
    BY <1>2, <1>3, QueueOfTx
  <2>3. CASE FeeOf[t] = k
    <3>1. Earlier(q, c, t)
      BY <1>1, <1>3, <2>1, <2>3, EarlierOrders
    <3> QED
      BY <1>1, <1>3, <1>4, <2>3, <3>1 DEF Leads
  <2>4. CASE FeeOf[t] # k
    BY <1>2, <1>3, <2>1, <2>2, <2>4
  <2> QED
    BY <2>3, <2>4
<1> QED
  BY <1>1, <1>3, <1>5 DEF Ranked!IsCheapest

LEMMA SizesAreTheSame == \A set : Ranked!Cardinality(set) = Cardinality(set)
BY DEF Ranked!Cardinality, Cardinality

(* A full heap that takes one in gives up the cheapest it had.              *)
LEMMA FullHeapDisplaces ==
  ASSUME GoodHeap(ranked), NEW tx \in Tx, ~IsRefused(ranked, tx),
         Cardinality(ranked.signatures) = MaxTransactions, tip' = tip,
         ranked' = Insert(ranked, tx)
  PROVE  Ranked!Displace(tx)
<1>1. PICK m, s, p, k, c :
        /\ m = ranked.map /\ s = ranked.signatures /\ p = Put(ranked, tx)
        /\ k = FirstKey(ranked) /\ c = Head(m[k])
  OBVIOUS
<1>2. /\ Good(m, s) /\ tx \notin s /\ Cardinality(s) = MaxTransactions
      /\ MaxTransactions \in Nat \ {0}
  BY <1>1, HeapAssumption DEF GoodHeap, IsRefused, HeapAssumption
<1>3. s # {}
  BY <1>2, FS_EmptySet
<1>4. /\ ~IsEmpty(ranked) /\ k \in DOMAIN m /\ \A f \in DOMAIN m : k <= f
  BY <1>1, <1>2, <1>3, HeapHasFees
<1>5. Ranked!IsCheapest(c) /\ FeeOf[c] = k /\ c \in s
  <2>1. Ranked!IsCheapest(c) /\ FeeOf[c] = k
    BY <1>1, <1>4, CheapestIsInFront
  <2> QED
    BY <1>1, <2>1 DEF Ranked!IsCheapest
<1>6. k \in Nat /\ FeeOf[tx] \in Nat
  BY <1>2, <1>5, QueueOfTx, HeapAssumption DEF HeapAssumption
<1>7. k < FeeOf[tx]
  BY <1>1, <1>2, <1>6 DEF IsRefused
<1>8. /\ Good(p.map, p.signatures) /\ ~IsEmpty(p) /\ p.signatures = s \cup {tx}
      /\ Cardinality(p.signatures) = Cardinality(s) + 1
      /\ p.map = WithQueue(m, FeeOf[tx], Append(Queue(m, FeeOf[tx]), tx))
  BY <1>1, <1>2, PutGood DEF Put
<1>9. /\ DOMAIN p.map \subseteq DOMAIN m \cup {FeeOf[tx]}
      /\ k \in DOMAIN p.map /\ p.map[k] = m[k]
  <2>1. k # FeeOf[tx]
    BY <1>6, <1>7
  <2>2. PICK x : x = Append(Queue(m, FeeOf[tx]), tx)
    OBVIOUS
  <2> QED
    BY <1>4, <1>8, <2>1, <2>2 DEF WithQueue
<1>10. FirstKey(p) = k
  <2>1. FirstKey(p) \in DOMAIN p.map /\ \A f \in DOMAIN p.map : FirstKey(p) <= f
    BY <1>8, HeapHasFees
  <2>2. FirstKey(p) <= k /\ k <= FirstKey(p)
    BY <1>4, <1>6, <1>7, <1>9, <2>1
  <2>3. FirstKey(p) \in Nat
    <3>1. \A f \in DOMAIN m : f \in Nat
      BY <1>2, QueuesHaveFees
    <3> QED
      BY <1>6, <1>9, <2>1, <3>1
  <2> QED
    BY <1>6, <2>2, <2>3
<1>11. ranked' = TakeFront(p, k)
  <2>1. Cardinality(p.signatures) > MaxTransactions
    BY <1>2, <1>8
  <2>2. Insert(ranked, tx) = Evict(p)
    BY <1>1 DEF Insert
  <2> QED
    BY <1>10, <2>1, <2>2 DEF Evict
<1>12. ranked'.signatures = (s \cup {tx}) \ {c}
  BY <1>1, <1>8, <1>9, <1>11 DEF TakeFront
<1>13. AheadIn(ranked') = Ranked!Among(AheadIn(p), p.signatures \ {c})
  BY <1>1, <1>8, <1>9, <1>11, TakeFrontRanks
<1>14. AheadIn(p) = Ranked!JoinedBy(tx)
  BY <1>1, <1>2, PutRanks
<1>15. AheadIn(ranked') = Ranked!Among(Ranked!JoinedBy(tx), ranked'.signatures)
  BY <1>8, <1>12, <1>13, <1>14
<1>16. \E t \in ranked.signatures :
         /\ Ranked!IsCheapest(t) /\ FeeOf[t] < FeeOf[tx]
         /\ ranked'.signatures = (ranked.signatures \cup {tx}) \ {t}
  BY <1>1, <1>5, <1>7, <1>12
<1>17. tx \notin ranked.signatures
  BY <1>1, <1>2
<1> QED
  BY <1>15, <1>16, <1>17, SizesAreTheSame DEF Ranked!Displace

LEMMA RoomyHeapTakesIn ==
  ASSUME GoodHeap(ranked), NEW tx \in Tx, ~IsRefused(ranked, tx),
         Cardinality(ranked.signatures) # MaxTransactions, tip' = tip,
         ranked' = Insert(ranked, tx)
  PROVE  Ranked!Arrive(tx)
<1>1. PICK s, p : s = ranked.signatures /\ p = Put(ranked, tx)
  OBVIOUS
<1>2. /\ Good(ranked.map, s) /\ tx \notin s /\ Cardinality(s) <= MaxTransactions
      /\ MaxTransactions \in Nat /\ Cardinality(s) \in Nat
  BY <1>1, HeapAssumption, FS_CardinalityType DEF GoodHeap, Good, IsRefused, HeapAssumption
<1>3. Cardinality(s) < MaxTransactions
  BY <1>1, <1>2
<1>4. p.signatures = s \cup {tx} /\ Cardinality(p.signatures) = Cardinality(s) + 1
  BY <1>1, <1>2, PutGood DEF Put
<1>5. ranked' = p
  <2>1. ~(Cardinality(p.signatures) > MaxTransactions)
    BY <1>2, <1>3, <1>4
  <2> QED
    BY <1>1, <2>1 DEF Insert, Evict
<1>6. AheadIn(p) = Ranked!JoinedBy(tx)
  BY <1>1, <1>2, PutRanks
<1>7. tx \notin ranked.signatures /\ Cardinality(ranked.signatures) < MaxTransactions
  BY <1>1, <1>2, <1>3
<1>8. ranked'.signatures = ranked.signatures \cup {tx}
  BY <1>1, <1>4, <1>5
<1>9. AheadIn(ranked') = Ranked!JoinedBy(tx)
  BY <1>5, <1>6
<1> QED
  BY <1>7, <1>8, <1>9, SizesAreTheSame DEF Ranked!Arrive

HeapInv == GoodHeap(ranked) /\ tip \in Nat

LEMMA HeapKeepsRanking ==
  HeapInv /\ [HeapNext]_heapVars => HeapInv' /\ [Ranked!Next]_(Ranked!vars)
<1> SUFFICES ASSUME HeapInv, [HeapNext]_heapVars PROVE HeapInv' /\ [Ranked!Next]_(Ranked!vars)
  OBVIOUS
<1> USE DEF HeapInv
<1>1. ASSUME NEW tx \in Tx, HeapFill(tx) PROVE HeapInv' /\ [Ranked!Next]_(Ranked!vars)
  <2>1. ranked' = Insert(ranked, tx) /\ tip' = tip
    BY <1>1 DEF HeapFill
  <2>2. HeapInv'
    BY <2>1, InsertGood
  <2>3. CASE IsRefused(ranked, tx)
    <3>1. ranked' = ranked
      BY <2>1, <2>3 DEF Insert
    <3> QED
      BY <2>1, <2>2, <3>1 DEF Ranked!vars
  <2>4. CASE ~IsRefused(ranked, tx)
    <3>1. Ranked!Arrive(tx) \/ Ranked!Displace(tx)
      BY <2>1, <2>4, FullHeapDisplaces, RoomyHeapTakesIn
    <3> QED
      BY <2>2, <3>1 DEF Ranked!Next
  <2> QED
    BY <2>3, <2>4
<1>2. CASE HeapSend
  <2>1. ranked' = Pop(ranked) /\ tip' = tip /\ ~IsEmpty(ranked)
    BY <1>2 DEF HeapSend
  <2>2. HeapInv' /\ Popped(ranked) \in ranked.signatures
    BY <2>1, PopGood
  <2>3. Ranked!IsBest(Popped(ranked))
    BY <2>1, BestIsPopped
  <2>4. ranked'.signatures = ranked.signatures \ {Popped(ranked)}
    BY <2>1 DEF Pop, Popped, TakeFront
  <2>5. AheadIn(ranked') = Ranked!Among(AheadIn(ranked), ranked'.signatures)
    <3>1. LastKey(ranked) \in DOMAIN ranked.map
      BY <2>1, HeapHasFees DEF GoodHeap
    <3> QED
      BY <2>1, <2>4, <3>1, TakeFrontRanks DEF Pop, Popped, GoodHeap
  <2>6. Ranked!Leave({Popped(ranked)})
    BY <2>1, <2>4, <2>5 DEF Ranked!Leave
  <2> QED
    BY <2>2, <2>3, <2>6 DEF Ranked!Next, Ranked!TakeBest
<1>3. CASE HeapExpire
  <2>1. ranked' = RemoveExpired(ranked, tip) /\ tip' = tip
    BY <1>3 DEF HeapExpire
  <2>2. HeapInv'
    BY <2>1, RemoveExpiredGood
  <2>3. AheadIn(ranked') = Ranked!Among(AheadIn(ranked), ranked'.signatures)
    BY <2>1, RemoveExpiredRanks
  <2>4. ranked'.signatures
          = ranked.signatures \ {tx \in ranked.signatures : LastValidOf[tx] <= tip}
    <3>1. ranked'.signatures = ranked.signatures \cap {tx \in Tx : LastValidOf[tx] > tip}
      BY <2>1 DEF RemoveExpired, IsValidAt
    <3>2. \A tx \in ranked.signatures : tx \in Tx /\ LastValidOf[tx] \in Nat
      BY HeapAssumption DEF GoodHeap, Good, HeapAssumption
    <3> QED
      BY <3>1, <3>2
  <2>5. Ranked!Expire
    BY <2>1, <2>3, <2>4 DEF Ranked!Expire, Ranked!Leave
  <2> QED
    BY <2>2, <2>5 DEF Ranked!Next
<1>4. CASE HeapClear
  <2>1. ranked' = EmptyHeap /\ tip' = tip
    BY <1>4 DEF HeapClear
  <2>2. HeapInv' /\ ranked'.signatures = {}
    BY <2>1, EmptyHeapGood DEF EmptyHeap
  <2>3. AheadIn(ranked') = Ranked!Among(AheadIn(ranked), {})
    BY <2>2 DEF AheadIn, Ranked!Among
  <2>4. Ranked!GiveUp
    BY <2>1, <2>2, <2>3 DEF Ranked!GiveUp, Ranked!Leave
  <2> QED
    BY <2>2, <2>4 DEF Ranked!Next
<1>5. CASE NewTip
  <2>1. tip' = tip + 1 /\ ranked' = ranked
    BY <1>5 DEF NewTip
  <2>2. HeapInv'
    BY <2>1
  <2>3. Ranked!NewHeight
    BY <2>1 DEF Ranked!NewHeight
  <2> QED
    BY <2>2, <2>3 DEF Ranked!Next
<1>6. CASE UNCHANGED heapVars
  <2>1. ranked' = ranked /\ tip' = tip
    BY <1>6 DEF heapVars
  <2> QED
    BY <2>1 DEF Ranked!vars
<1> QED
  BY <1>1, <1>2, <1>3, <1>4, <1>5, <1>6 DEF HeapNext

(* prioritization_fee_heap.rs: after any sequence of its operations the map *)
(* and the signatures agree, whom pop takes first is a ranking by fee and   *)
(* arrival, and every operation is one of FeeRanking: the heap implements   *)
(* the ranking it promises.                                                 *)
THEOREM HeapStaysRanked == HeapSpec => HeapIsRanked
<1>1. HeapInit => HeapInv /\ Ranked!Init
  <2> SUFFICES ASSUME HeapInit PROVE HeapInv /\ Ranked!Init
    OBVIOUS
  <2>1. ranked = EmptyHeap /\ tip = 0 /\ ranked.signatures = {}
    BY DEF HeapInit, EmptyHeap
  <2>2. AheadIn(ranked) = {}
    BY <2>1 DEF AheadIn
  <2> QED
    BY <2>1, <2>2, EmptyHeapGood DEF HeapInv, Ranked!Init
<1>2. HeapInv => IsHeap(ranked) /\ Agrees(ranked) /\ Ranked!IsARanking
  BY GoodHeapAgrees, GoodHeapIsARanking DEF HeapInv
<1> QED
  BY <1>1, <1>2, HeapKeepsRanking, PTL DEF HeapSpec, HeapIsRanked, Ranked!Spec

------------------------------------------------------------------------------
(* TpuConnections: the incarnations and their tasks                         *)

(* Numbers that were not given out are of nobody.                          *)
Given(i) == i > born => main[i] = "unborn"

(* A task is told to exit only after it subscribed, and ends only when told. *)
Subscribed(i) ==
  /\ main[i] \in {"unborn", "spawned", "first"} => exitMain[i] = "absent"
  /\ main[i] \in {"join", "done"} => exitMain[i] = "told"
  /\ main[i] \in {"unborn", "spawned"} => filler[i] = "unborn"
  /\ filler[i] = "unborn" => exitFiller[i] = "absent"
  /\ filler[i] = "done" => exitFiller[i] = "told"

(* Before the filler runs and after it ended nothing waits; before the main *)
(* task first looks into the heap, a permit tells it to.                   *)
Waiting(i) ==
  /\ filler[i] \in {"unborn", "spawned"} => IsEmpty(heap[i])
  /\ filler[i] = "done" => inbox[i] = << >>
  /\ main[i] \in {"first", "select"} /\ ~IsEmpty(heap[i]) =>
       wake[i] \/ filler[i] = "notify"
  /\ main[i] = "done" => filler[i] = "done" /\ IsEmpty(heap[i])

ConnectionInv(i) == Given(i) /\ Subscribed(i) /\ Waiting(i)

TpuInv ==
  /\ TypeOK
  /\ heap = [i \in Incarnation |-> heap[i]]
  /\ \A i \in Incarnation : ConnectionInv(i)
  /\ MappedIsServed

------------------------------------------------------------------------------
(* The heap holds only transactions, and expiry adds nothing to it.        *)
LEMMA HeapOperations ==
  ASSUME NEW h, h.signatures \subseteq Tx
  PROVE  /\ \A tx \in Tx : Insert(h, tx).signatures \subseteq Tx
         /\ Pop(h).signatures \subseteq Tx
         /\ \A b : RemoveExpired(h, b).signatures \subseteq Tx
         /\ \A b : IsEmpty(h) => IsEmpty(RemoveExpired(h, b))
<1>1. ASSUME NEW tx \in Tx
      PROVE  Insert(h, tx).signatures \subseteq Tx
  BY DEF Insert, Evict, TakeFront, Put
<1>2. Pop(h).signatures \subseteq Tx
  BY DEF Pop, TakeFront
<1>3. ASSUME NEW b
      PROVE  /\ RemoveExpired(h, b).signatures \subseteq Tx
             /\ IsEmpty(h) => IsEmpty(RemoveExpired(h, b))
  BY DEF RemoveExpired, IsEmpty
<1>. QED
  BY <1>1, <1>2, <1>3

LEMMA EmptyHeapIsEmpty == IsEmpty(EmptyHeap) /\ EmptyHeap.signatures = {}
BY DEF IsEmpty, EmptyHeap

(* A receiver never holds more than the broadcast channel.                 *)
LEMMA PushKeepsBound ==
  ASSUME NEW q \in Seq(Tx), Len(q) <= QueueSize, NEW tx \in Tx
  PROVE  Push(q, tx) \in Seq(Tx) /\ Len(Push(q, tx)) <= QueueSize
<1>a. QueueSize \in Nat \ {0}
  BY ConnectionsAssumption
<1>1. CASE Len(q) = QueueSize
  <2>1. q # << >> /\ Tail(q) \in Seq(Tx) /\ Len(Tail(q)) = Len(q) - 1
    BY <1>1, <1>a
  <2>2. Push(q, tx) = Append(Tail(q), tx)
    BY <1>1 DEF Push
  <2>. QED
    BY <1>1, <1>a, <2>1, <2>2
<1>2. CASE Len(q) # QueueSize
  <2>1. Push(q, tx) = Append(q, tx)
    BY <1>2 DEF Push
  <2>. QED
    BY <1>2, <1>a, <2>1
<1>. QED
  BY <1>1, <1>2

(* At the start there are no connections.                                  *)
LEMMA TpuInvInit == Init => TpuInv
<1> SUFFICES ASSUME Init
             PROVE  TpuInv
  OBVIOUS
<1> USE DEF Init
<1>a. /\ MaxBorn \in Nat /\ PoolSize \in Nat /\ QueueSize \in Nat
      /\ MaxSent \in Nat /\ MaxHeight \in Nat
  BY ConnectionsAssumption
<1>1. TypeOK
  <2>1. /\ active \in [Identity -> 0 .. born] /\ born \in 0 .. MaxBorn
        /\ seen \in [Incarnation -> 0 .. MaxHeight]
        /\ inUse \in [Incarnation -> 0 .. PoolSize]
        /\ height \in 0 .. MaxHeight /\ sent \in 0 .. MaxSent
    BY <1>a DEF None
  <2>2. /\ inbox \in [Incarnation -> Seq(Tx)]
        /\ \A i \in Incarnation : Len(inbox[i]) <= QueueSize
    BY <1>a
  <2>. QED
    BY <2>1, <2>2, EmptyHeapIsEmpty DEF TypeOK
<1>2. \A i \in Incarnation : ConnectionInv(i)
  BY EmptyHeapIsEmpty DEF ConnectionInv, Given, Subscribed, Waiting
<1>3. MappedIsServed
  BY DEF MappedIsServed
<1>. QED
  BY <1>1, <1>2, <1>3 DEF TpuInv

(* A connection in the map is still served when its tasks go on and nobody  *)
(* is told anything.                                                       *)
LEMMA ServedIsKept ==
  ASSUME TypeOK, MappedIsServed, UNCHANGED <<active, exitMain, exitFiller>>,
         \A j \in Incarnation :
           /\ main'[j] \in {"unborn", "join", "done"} => main[j] \in {"unborn", "join", "done"}
           /\ filler'[j] = "done" => filler[j] = "done"
  PROVE  MappedIsServed'
<1> SUFFICES ASSUME NEW id \in Identity, active[id] # None
             PROVE  LET i == active[id] IN
                    /\ main'[i] \notin {"unborn", "join", "done"}
                    /\ filler'[i] # "done"
                    /\ "told" \notin {exitMain[i], exitFiller[i]}
                    /\ \A other \in Identity \ {id} : active[other] # i
  BY DEF MappedIsServed
<1>1. active[id] \in Incarnation
  BY ConnectionsAssumption DEF TypeOK, Incarnation, None
<1>. QED
  BY <1>1 DEF MappedIsServed

(* The steps of the filler.                                                *)
LEMMA FillerStep ==
  ASSUME TpuInv, NEW i \in Incarnation, Filler(i)
  PROVE  TpuInv'
<1> USE DEF TpuInv
<1>u. UNCHANGED <<active, born, main, exitMain, exitFiller, inUse, world>>
  BY DEF Filler, FillerStart, FillerReceive, FillerNotify, FillerExpire, FillerExit
<1>w. UNCHANGED <<height, confirmed, sent>>
  BY <1>u DEF world
<1>1. CASE FillerStart(i)
  <2> USE <1>1 DEF FillerStart
  <2>1. TypeOK'
    BY <1>u, <1>w DEF TypeOK
  <2>2. \A j \in Incarnation : ConnectionInv(j)'
    BY <1>u DEF ConnectionInv, Given, Subscribed, Waiting, TypeOK
  <2>3. MappedIsServed'
    BY <1>u DEF MappedIsServed, TypeOK
  <2>. QED
    BY <2>1, <2>2, <2>3
<1>2. CASE FillerReceive(i)
  <2> DEFINE tx == Head(inbox[i])
  <2>a. tx \in Tx /\ Tail(inbox[i]) \in Seq(Tx) /\ Len(Tail(inbox[i])) <= QueueSize
    BY <1>2, ConnectionsAssumption DEF TypeOK, FillerReceive
  <2>b. /\ filler[i] = "recv"
        /\ inbox' = [inbox EXCEPT ![i] = Tail(@)]
        /\ UNCHANGED <<wake, seen>>
        /\ \/ UNCHANGED <<heap, filler>>
           \/ /\ heap' = [heap EXCEPT ![i] = Insert(@, tx)]
              /\ filler' = [filler EXCEPT ![i] = "notify"]
    BY <1>2 DEF FillerReceive
  <2> HIDE DEF tx
  <2>c. Insert(heap[i], tx).signatures \subseteq Tx
    BY <2>a, HeapOperations DEF TypeOK
  <2>1. TypeOK'
    <3>1. inbox' \in [Incarnation -> Seq(Tx)] /\ \A j \in Incarnation : Len(inbox'[j]) <= QueueSize
      BY <2>a, <2>b DEF TypeOK
    <3>2. \A j \in Incarnation : heap'[j].signatures \subseteq Tx
      BY <2>b, <2>c DEF TypeOK
    <3>3. /\ filler' \in [Incarnation -> {"unborn", "spawned", "recv", "notify", "expire", "done"}]
          /\ UNCHANGED <<wake, seen>>
      BY <2>b DEF TypeOK
    <3>. QED
      BY <3>1, <3>2, <3>3, <1>u, <1>w DEF TypeOK
  <2>2. \A j \in Incarnation : ConnectionInv(j)'
    BY <1>u, <2>b DEF ConnectionInv, Given, Subscribed, Waiting, TypeOK
  <2>3. MappedIsServed'
    <3>1. \A j \in Incarnation : filler'[j] = "done" => filler[j] = "done"
      BY <2>b DEF TypeOK
    <3>. QED
      BY <3>1, <1>u, ServedIsKept
  <2>4. heap' = [j \in Incarnation |-> heap'[j]]
    BY <2>b
  <2>. QED
    BY <2>1, <2>2, <2>3, <2>4
<1>3. CASE FillerNotify(i)
  <2> USE <1>3 DEF FillerNotify
  <2>1. TypeOK'
    BY <1>u, <1>w DEF TypeOK
  <2>2. \A j \in Incarnation : ConnectionInv(j)'
    BY <1>u DEF ConnectionInv, Given, Subscribed, Waiting, TypeOK
  <2>3. MappedIsServed'
    BY <1>u DEF MappedIsServed, TypeOK
  <2>. QED
    BY <2>1, <2>2, <2>3
<1>4. CASE FillerExpire(i)
  <2> USE <1>4 DEF FillerExpire
  <2>a. \A j \in Incarnation :
          /\ heap'[j].signatures \subseteq Tx
          /\ IsEmpty(heap[j]) => IsEmpty(heap'[j])
    BY HeapOperations DEF TypeOK
  <2>1. TypeOK'
    BY <1>u, <1>w, <2>a DEF TypeOK
  <2>2. \A j \in Incarnation : ConnectionInv(j)'
    BY <1>u, <2>a DEF ConnectionInv, Given, Subscribed, Waiting, TypeOK
  <2>3. MappedIsServed'
    BY <1>u DEF MappedIsServed, TypeOK
  <2>. QED
    BY <2>1, <2>2, <2>3
<1>5. CASE FillerExit(i)
  <2> USE <1>5 DEF FillerExit
  <2>1. TypeOK'
    BY <1>u, <1>w, ConnectionsAssumption DEF TypeOK
  <2>2. \A j \in Incarnation : ConnectionInv(j)'
    BY <1>u DEF ConnectionInv, Given, Subscribed, Waiting, TypeOK
  <2>3. MappedIsServed'
    BY <1>u DEF MappedIsServed, TypeOK
  <2>. QED
    BY <2>1, <2>2, <2>3
<1>. QED
  BY <1>1, <1>2, <1>3, <1>4, <1>5 DEF Filler

(* The steps of the main task.                                             *)
LEMMA MainStep ==
  ASSUME TpuInv, NEW i \in Incarnation, Main(i) \/ MainExit(i)
  PROVE  TpuInv'
<1> USE DEF TpuInv
<1>p. PoolSize \in Nat
  BY ConnectionsAssumption
<1>1. CASE Start(i)
  <2> USE <1>1 DEF Start, data, world
  <2>1. TypeOK'
    BY DEF TypeOK
  <2>2. \A j \in Incarnation : ConnectionInv(j)'
    BY DEF ConnectionInv, Given, Subscribed, Waiting, TypeOK
  <2>3. MappedIsServed'
    BY DEF MappedIsServed, TypeOK
  <2>. QED
    BY <2>1, <2>2, <2>3
<1>2. CASE ConnectFirst(i)
  <2> USE <1>2 DEF ConnectFirst, world
  <2>1. TypeOK'
    BY <1>p DEF TypeOK
  <2>2. \A j \in Incarnation : ConnectionInv(j)'
    BY DEF ConnectionInv, Given, Subscribed, Waiting, TypeOK
  <2>3. MappedIsServed'
    BY DEF MappedIsServed, TypeOK
  <2>. QED
    BY <2>1, <2>2, <2>3
<1>3. CASE WakeUp(i)
  <2> USE <1>3 DEF WakeUp, world
  <2>1. TypeOK'
    BY DEF TypeOK
  <2>2. \A j \in Incarnation : ConnectionInv(j)'
    BY DEF ConnectionInv, Given, Subscribed, Waiting, TypeOK
  <2>3. MappedIsServed'
    BY DEF MappedIsServed, TypeOK
  <2>. QED
    BY <2>1, <2>2, <2>3
<1>4. CASE PopHeap(i)
  <2>a. /\ main[i] = "heap" /\ ~IsEmpty(heap[i])
        /\ heap' = [heap EXCEPT ![i] = Pop(@)]
        /\ main' = [main EXCEPT ![i] = "heap"] \/ main' = [main EXCEPT ![i] = "permit"]
        /\ UNCHANGED <<active, born, filler, exitMain, exitFiller, inbox, wake, seen,
                       inUse, height, confirmed, sent>>
    BY <1>4 DEF PopHeap, world
  <2>b. Pop(heap[i]).signatures \subseteq Tx
    BY HeapOperations DEF TypeOK
  <2>c. /\ main' \in [Incarnation -> {"unborn", "spawned", "first", "select", "heap",
                                      "permit", "join", "done"}]
        /\ main'[i] \in {"heap", "permit"}
        /\ \A j \in Incarnation \ {i} : main'[j] = main[j] /\ heap'[j] = heap[j]
    BY <2>a DEF TypeOK
  <2>1. TypeOK'
    BY <2>a, <2>b, <2>c DEF TypeOK
  <2>2. \A j \in Incarnation : ConnectionInv(j)'
    <3>1. ConnectionInv(i)'
      BY <2>a, <2>c DEF ConnectionInv, Given, Subscribed, Waiting, TypeOK
    <3>2. ASSUME NEW j \in Incarnation \ {i}
          PROVE  ConnectionInv(j)'
      BY <2>a, <2>c DEF ConnectionInv, Given, Subscribed, Waiting, TypeOK
    <3>. QED
      BY <3>1, <3>2
  <2>3. MappedIsServed'
    <3>1. main'[i] \notin {"unborn", "join", "done"}
      BY <2>c
    <3>. QED
      BY <2>a, <2>c, <3>1, ServedIsKept
  <2>. QED
    BY <2>1, <2>2, <2>3, <2>a
<1>5. CASE HeapIsEmpty(i)
  <2> USE <1>5 DEF HeapIsEmpty, data, world
  <2>1. TypeOK'
    BY DEF TypeOK
  <2>2. \A j \in Incarnation : ConnectionInv(j)'
    BY DEF ConnectionInv, Given, Subscribed, Waiting, TypeOK
  <2>3. MappedIsServed'
    BY DEF MappedIsServed, TypeOK
  <2>. QED
    BY <2>1, <2>2, <2>3
<1>6. CASE SpawnSend(i)
  <2> USE <1>6 DEF SpawnSend, world
  <2>1. TypeOK'
    BY <1>p DEF TypeOK
  <2>2. \A j \in Incarnation : ConnectionInv(j)'
    BY DEF ConnectionInv, Given, Subscribed, Waiting, TypeOK
  <2>3. MappedIsServed'
    BY DEF MappedIsServed, TypeOK
  <2>. QED
    BY <2>1, <2>2, <2>3
<1>7. CASE CleanUp(i)
  <2> USE <1>7 DEF CleanUp, world
  <2>1. TypeOK'
    BY EmptyHeapIsEmpty DEF TypeOK
  <2>2. \A j \in Incarnation : ConnectionInv(j)'
    BY EmptyHeapIsEmpty DEF ConnectionInv, Given, Subscribed, Waiting, TypeOK
  <2>3. MappedIsServed'
    BY DEF MappedIsServed, TypeOK
  <2>. QED
    BY <2>1, <2>2, <2>3
<1>8. CASE MainExit(i)
  <2> USE <1>8 DEF MainExit, data, world
  <2>1. TypeOK'
    BY DEF TypeOK
  <2>2. \A j \in Incarnation : ConnectionInv(j)'
    BY DEF ConnectionInv, Given, Subscribed, Waiting, TypeOK
  <2>3. MappedIsServed'
    BY DEF MappedIsServed, TypeOK
  <2>. QED
    BY <2>1, <2>2, <2>3
<1>. QED
  BY <1>1, <1>2, <1>3, <1>4, <1>5, <1>6, <1>7, <1>8 DEF Main

(* The numbers that new leaders get were not given out before.             *)
LEMMA NumbersAreNew ==
  ASSUME TypeOK, NEW keep \in SUBSET Identity,
         NEW new, new = {id \in keep : active[id] = None},
         NEW number \in Births(new)
  PROVE  /\ Cardinality(new) \in Nat
         /\ \A id \in new : /\ number[id] \in Nat
                            /\ born < number[id] /\ number[id] <= born + Cardinality(new)
         /\ \A x, y \in new : number[x] = number[y] => x = y
<1> DEFINE n == Cardinality(new)
<1>1. n \in Nat
  BY ConnectionsAssumption, FS_Subset, FS_CardinalityType
<1>2. /\ number \in [new -> born + 1 .. born + n]
      /\ \A x, y \in new : number[x] = number[y] => x = y
  BY DEF Births
<1> HIDE DEF n
<1>3. born \in Nat
  BY ConnectionsAssumption DEF TypeOK
<1>4. \A id \in new : number[id] \in born + 1 .. born + n
  BY <1>2
<1>5. \A id \in new : number[id] \in Nat /\ born < number[id] /\ number[id] <= born + n
  BY <1>1, <1>3, <1>4
<1>. QED
  BY <1>1, <1>2, <1>5 DEF n

(* The service changes the map: a new leader gets a number that nobody has, *)
(* and who is told to exit was in the map for no leader that is kept.      *)
LEMMA UpdateStep ==
  ASSUME TpuInv, NEW keep \in SUBSET Identity, UpdateConnections(keep)
  PROVE  TpuInv'
<1> USE DEF TpuInv
<1> DEFINE new     == {id \in keep : active[id] = None}
           removed == {active[id] : id \in Identity \ keep} \ {None}
           n       == Cardinality(new)
<1>a. /\ born' = born + n /\ born + n <= MaxBorn
      /\ exitMain' = Tell(removed, exitMain)
      /\ exitFiller' = Tell(removed, exitFiller)
      /\ UNCHANGED <<filler, inbox, heap, wake, seen, inUse, height, confirmed, sent>>
  BY DEF UpdateConnections, data, world
<1>b. PICK number \in Births(new) :
        /\ active' = [id \in Identity |-> IF id \in new THEN number[id]
                                          ELSE IF id \in keep THEN active[id]
                                          ELSE None]
        /\ main' = [i \in Incarnation |->
                      IF \E id \in new : number[id] = i THEN "spawned" ELSE main[i]]
  BY DEF UpdateConnections
<1>c. /\ n \in Nat
      /\ \A id \in new : number[id] \in Nat /\ born < number[id] /\ number[id] <= born + n
      /\ \A x, y \in new : number[x] = number[y] => x = y
  BY NumbersAreNew
<1> HIDE DEF n
<1>d. /\ MaxBorn \in Nat /\ born \in Nat /\ born <= MaxBorn
      /\ born' \in Nat /\ born <= born' /\ born' <= MaxBorn /\ born' = born + n
      /\ \A id \in Identity : active[id] \in Nat /\ active[id] <= born
  BY <1>a, <1>c, ConnectionsAssumption DEF TypeOK
<1>e. /\ \A id \in new : number[id] \in Nat /\ born < number[id] /\ number[id] <= born'
      /\ \A x, y \in new : number[x] = number[y] => x = y
  BY <1>c, <1>d
<1>f. \A id \in new : number[id] \in Incarnation /\ main[number[id]] = "unborn"
  BY <1>d, <1>e DEF ConnectionInv, Given, Incarnation
<1>g. \A i \in Incarnation :
        \/ /\ main'[i] = "spawned" /\ main[i] = "unborn" /\ i > born /\ i <= born'
        \/ main'[i] = main[i]
  BY <1>b, <1>d, <1>e, <1>f
<1>h. \A i \in Incarnation :
        /\ exitMain'[i] = IF i \in removed /\ exitMain[i] = "open" THEN "told" ELSE exitMain[i]
        /\ exitFiller'[i] = IF i \in removed /\ exitFiller[i] = "open" THEN "told"
                            ELSE exitFiller[i]
  BY <1>a DEF Tell
<1>1. TypeOK'
  <2>1. active' \in [Identity -> 0 .. born']
    BY <1>b, <1>d, <1>e DEF None
  <2>2. main' \in [Incarnation -> {"unborn", "spawned", "first", "select", "heap",
                                   "permit", "join", "done"}]
    BY <1>b DEF TypeOK
  <2>3. /\ exitMain' \in [Incarnation -> {"absent", "open", "told"}]
        /\ exitFiller' \in [Incarnation -> {"absent", "open", "told"}]
    BY <1>a DEF Tell, TypeOK
  <2>4. born' \in 0 .. MaxBorn
    BY <1>d
  <2> HIDE DEF new, removed
  <2>. QED
    BY <2>1, <2>2, <2>3, <2>4, <1>a DEF TypeOK
<1>2. ASSUME NEW i \in Incarnation
      PROVE  ConnectionInv(i)'
  <2>1. Given(i)'
    BY <1>d, <1>g DEF ConnectionInv, Given, Incarnation
  <2>2. Subscribed(i)'
    BY <1>a, <1>g, <1>h DEF ConnectionInv, Subscribed
  <2>3. Waiting(i)'
    BY <1>a, <1>g DEF ConnectionInv, Waiting
  <2>. QED
    BY <2>1, <2>2, <2>3 DEF ConnectionInv
<1>3. MappedIsServed'
  <2> SUFFICES ASSUME NEW id \in Identity, active'[id] # None
               PROVE  LET i == active'[id] IN
                      /\ main'[i] \notin {"unborn", "join", "done"}
                      /\ filler'[i] # "done"
                      /\ "told" \notin {exitMain'[i], exitFiller'[i]}
                      /\ \A other \in Identity \ {id} : active'[other] # i
    BY DEF MappedIsServed
  <2>1. CASE id \in new
    <3> DEFINE i == number[id]
    <3>1. active'[id] = i /\ i \in Incarnation /\ main'[i] = "spawned" /\ main[i] = "unborn"
      BY <1>b, <1>f, <2>1
    <3>2. filler[i] = "unborn" /\ exitMain[i] = "absent" /\ exitFiller[i] = "absent"
      BY <3>1 DEF ConnectionInv, Subscribed
    <3>3. ASSUME NEW other \in Identity \ {id}
          PROVE  active'[other] # i
      BY <1>b, <1>d, <1>e, <2>1 DEF None
    <3> HIDE DEF i
    <3>. QED
      BY <3>1, <3>2, <3>3, <1>a, <1>h
  <2>2. CASE id \in keep \ new
    <3> DEFINE i == active[id]
    <3>1. active'[id] = i /\ i # None
      BY <1>b, <2>2
    <3>2. i \in Incarnation /\ i <= born
      BY <1>d, <3>1 DEF Incarnation, None
    <3>3. /\ main[i] \notin {"unborn", "join", "done"} /\ filler[i] # "done"
          /\ "told" \notin {exitMain[i], exitFiller[i]}
          /\ \A other \in Identity \ {id} : active[other] # i
      BY <3>1 DEF MappedIsServed
    <3>4. i \notin removed
      BY <3>3, <2>2
    <3>5. ASSUME NEW other \in Identity \ {id}
          PROVE  active'[other] # i
      BY <1>b, <1>d, <1>e, <3>1, <3>2, <3>3
    <3> HIDE DEF i, removed
    <3>. QED
      BY <3>1, <3>2, <3>3, <3>4, <3>5, <1>a, <1>g, <1>h
  <2>3. CASE id \notin keep
    BY <1>b, <2>3
  <2>. QED
    BY <2>1, <2>2, <2>3
<1>4. heap' = [i \in Incarnation |-> heap'[i]]
  BY <1>a
<1>. QED
  BY <1>1, <1>2, <1>3, <1>4

(* Clients, the chain and the tasks that send touch neither the tasks nor  *)
(* the heaps.                                                              *)
LEMMA WorldStep ==
  ASSUME TpuInv,
         \/ \E tx \in Tx : SendTransaction(tx) \/ Confirm(tx)
         \/ \E i \in Incarnation : SendEnds(i)
         \/ NewHeight
  PROVE  TpuInv'
<1> USE DEF TpuInv
<1>1. ASSUME NEW tx \in Tx, SendTransaction(tx)
      PROVE  TpuInv'
  <2>a. /\ inbox' = [i \in Incarnation |-> IF Receiving(i) THEN Push(inbox[i], tx) ELSE inbox[i]]
        /\ sent < MaxSent /\ sent' = sent + 1
        /\ UNCHANGED <<active, born, main, filler, exitMain, exitFiller, heap, wake, seen,
                       inUse, height, confirmed>>
    BY <1>1 DEF SendTransaction, tasks
  <2>b. \A i \in Incarnation : inbox'[i] \in Seq(Tx) /\ Len(inbox'[i]) <= QueueSize
    BY <2>a, PushKeepsBound DEF TypeOK
  <2>c. sent' \in 0 .. MaxSent
    BY <2>a, ConnectionsAssumption DEF TypeOK
  <2>1. TypeOK'
    BY <2>a, <2>b, <2>c DEF TypeOK
  <2>2. \A i \in Incarnation : ConnectionInv(i)'
    BY <2>a DEF ConnectionInv, Given, Subscribed, Waiting, Receiving
  <2>3. MappedIsServed'
    BY <2>a DEF MappedIsServed
  <2>. QED
    BY <2>1, <2>2, <2>3, <2>a
<1>2. ASSUME NEW tx \in Tx, Confirm(tx)
      PROVE  TpuInv'
  BY <1>2 DEF Confirm, tasks, data, TypeOK, ConnectionInv, Given, Subscribed, Waiting,
              MappedIsServed
<1>3. ASSUME NEW i \in Incarnation, SendEnds(i)
      PROVE  TpuInv'
  <2>a. /\ inUse[i] > 0 /\ inUse' = [inUse EXCEPT ![i] = @ - 1]
        /\ UNCHANGED <<active, born, main, filler, exitMain, exitFiller, inbox, heap, wake,
                       seen, height, confirmed, sent>>
    BY <1>3 DEF SendEnds, tasks, world
  <2>1. inUse' \in [Incarnation -> 0 .. PoolSize]
    BY <2>a, ConnectionsAssumption, SMTT(30) DEF TypeOK
  <2>. QED
    BY <2>1, <2>a DEF TypeOK, ConnectionInv, Given, Subscribed, Waiting, MappedIsServed
<1>4. CASE NewHeight
  <2>a. /\ height < MaxHeight /\ height' = height + 1
        /\ UNCHANGED <<active, born, main, filler, exitMain, exitFiller, inbox, heap, wake,
                       seen, inUse, confirmed, sent>>
    BY <1>4 DEF NewHeight, tasks, data
  <2>1. height' \in 0 .. MaxHeight
    BY <2>a, ConnectionsAssumption DEF TypeOK
  <2>. QED
    BY <2>1, <2>a DEF TypeOK, ConnectionInv, Given, Subscribed, Waiting, MappedIsServed
<1>. QED
  BY <1>1, <1>2, <1>3, <1>4

(* The inductive invariant.                                                *)
THEOREM TpuInvariant == Spec => []TpuInv
<1>1. Init => TpuInv
  BY TpuInvInit
<1>2. TpuInv /\ [Next]_vars => TpuInv'
  <2> SUFFICES ASSUME TpuInv, [Next]_vars
               PROVE  TpuInv'
    OBVIOUS
  <2>1. ASSUME NEW keep \in SUBSET Identity, UpdateConnections(keep)
        PROVE  TpuInv'
    BY <2>1, UpdateStep
  <2>2. ASSUME NEW i \in Incarnation, Filler(i)
        PROVE  TpuInv'
    BY <2>2, FillerStep
  <2>3. ASSUME NEW i \in Incarnation, Main(i) \/ MainExit(i)
        PROVE  TpuInv'
    BY <2>3, MainStep
  <2>4. ASSUME \/ \E tx \in Tx : SendTransaction(tx) \/ Confirm(tx)
               \/ \E i \in Incarnation : SendEnds(i)
               \/ NewHeight
        PROVE  TpuInv'
    BY <2>4, WorldStep
  <2>5. CASE UNCHANGED vars
    BY <2>5 DEF vars, tasks, data, world, TpuInv, TypeOK, ConnectionInv, Given, Subscribed,
                Waiting, MappedIsServed
  <2>. QED
    BY <2>1, <2>2, <2>3, <2>4, <2>5 DEF Next
<1>. QED
  BY <1>1, <1>2, PTL DEF Spec

(* However insert, notification and the last look into the heap interleave, *)
(* however often a leader is removed and comes back while its old tasks are *)
(* ending: no wake-up is lost, who is in the map is served by tasks of its  *)
(* own, and who has ended left nothing behind.                             *)
THEOREM TpuLeadersAreServed == Spec => []LeadersAreServed
<1>1. TpuInv => NoLostWakeup /\ NothingLeftBehind
  BY DEF TpuInv, ConnectionInv, Waiting, NoLostWakeup, NothingLeftBehind
<1>2. TpuInv => LeadersAreServed
  BY <1>1 DEF TpuInv, LeadersAreServed
<1>. QED
  BY <1>2, TpuInvariant, PTL

(* A task that was told to exit stays told, and one that has ended never    *)
(* runs again: the two exit channels are written once per incarnation.     *)
THEOREM TpuToldStaysTold ==
  Spec => [][\A i \in Incarnation :
               /\ exitMain[i] = "told" => exitMain'[i] = "told"
               /\ exitFiller[i] = "told" => exitFiller'[i] = "told"
               /\ main[i] = "done" => main'[i] = "done"
               /\ filler[i] = "done" => filler'[i] = "done"]_vars
<1> DEFINE Kept(i) == /\ exitMain[i] = "told" => exitMain'[i] = "told"
                      /\ exitFiller[i] = "told" => exitFiller'[i] = "told"
                      /\ main[i] = "done" => main'[i] = "done"
                      /\ filler[i] = "done" => filler'[i] = "done"
<1>1. TpuInv /\ [Next]_vars => [\A i \in Incarnation : Kept(i)]_vars
  <2> SUFFICES ASSUME TpuInv, Next, NEW i \in Incarnation
               PROVE  Kept(i)
    BY DEF Kept
  <2> USE DEF TpuInv, ConnectionInv, Given, Subscribed, TypeOK
  <2>1. ASSUME NEW keep \in SUBSET Identity, UpdateConnections(keep)
        PROVE  Kept(i)
    <3> DEFINE new == {id \in keep : active[id] = None}
    <3>a. PICK number \in Births(new) :
            main' = [k \in Incarnation |->
                       IF \E id \in new : number[id] = k THEN "spawned" ELSE main[k]]
      BY <2>1 DEF UpdateConnections
    <3>b. \A id \in new : number[id] \in Nat /\ born < number[id]
      BY NumbersAreNew
    <3>c. born \in Nat /\ \A id \in new : ~ (number[id] <= born)
      BY <3>b, ConnectionsAssumption
    <3> HIDE DEF new
    <3>1. /\ main'[i] = main[i] \/ i > born
          /\ filler' = filler
      <4>1. filler' = filler
        BY <2>1 DEF UpdateConnections
      <4>. QED
        BY <3>a, <3>c, <4>1, ConnectionsAssumption DEF Incarnation
    <3>2. /\ exitMain[i] = "told" => exitMain'[i] = "told"
          /\ exitFiller[i] = "told" => exitFiller'[i] = "told"
      BY <2>1 DEF UpdateConnections, Tell
    <3>. QED
      BY <3>1, <3>2
  <2>2. ASSUME NEW j \in Incarnation, Filler(j)
        PROVE  Kept(i)
    BY <2>2 DEF Filler, FillerStart, FillerReceive, FillerNotify, FillerExpire, FillerExit
  <2>3. ASSUME NEW j \in Incarnation, Main(j) \/ MainExit(j)
        PROVE  Kept(i)
    BY <2>3 DEF Main, Start, ConnectFirst, WakeUp, PopHeap, HeapIsEmpty, SpawnSend, CleanUp,
                MainExit
  <2>4. ASSUME \/ \E tx \in Tx : SendTransaction(tx) \/ Confirm(tx)
               \/ \E j \in Incarnation : SendEnds(j)
               \/ NewHeight
        PROVE  Kept(i)
    BY <2>4 DEF SendTransaction, Confirm, SendEnds, NewHeight, tasks
  <2>. QED
    BY <2>1, <2>2, <2>3, <2>4 DEF Next
<1>. QED
  BY <1>1, TpuInvariant, PTL DEF Spec, Kept

(* The heap of every connection, filled, emptied and rid of what expires by *)
(* its two tasks: no fee has an empty queue, which pop and insert would     *)
(* unwrap, each signature has one transaction, in the queue of its fee, and *)
(* there are never more than fit.                                           *)
THEOREM HeapsAgree == Spec => [](\A i \in Incarnation : IsHeap(heap[i]) /\ Agrees(heap[i]))
<1> DEFINE HeapsGood == \A i \in Incarnation : GoodHeap(heap[i])
<1>1. Init => HeapsGood
  BY EmptyHeapGood DEF Init
<1>2. TpuInv /\ HeapsGood /\ [Next]_vars => HeapsGood'
  <2> SUFFICES ASSUME TpuInv, HeapsGood, [Next]_vars, NEW j \in Incarnation
               PROVE  GoodHeap(heap'[j])
    OBVIOUS
  <2>1. heap = [i \in Incarnation |-> heap[i]] /\ GoodHeap(heap[j])
    BY DEF TpuInv
  <2>2. CASE UNCHANGED heap
    BY <2>1, <2>2
  <2>3. ASSUME NEW i \in Incarnation, NEW tx \in Tx, heap' = [heap EXCEPT ![i] = Insert(@, tx)]
        PROVE  GoodHeap(heap'[j])
    <3>1. GoodHeap(Insert(heap[i], tx))
      BY InsertGood
    <3> QED
      BY <2>1, <2>3, <3>1
  <2>4. ASSUME NEW i \in Incarnation, FillerReceive(i) PROVE GoodHeap(heap'[j])
    <3>1. inbox[i] \in Seq(Tx) /\ inbox[i] # << >>
      BY <2>4 DEF FillerReceive, TpuInv, TypeOK
    <3>2. Head(inbox[i]) \in Tx
      BY <3>1
    <3>3. UNCHANGED heap \/ heap' = [heap EXCEPT ![i] = Insert(@, Head(inbox[i]))]
      BY <2>4 DEF FillerReceive
    <3> QED
      BY <2>2, <2>3, <3>2, <3>3
  <2>5. ASSUME NEW i \in Incarnation, FillerExpire(i) PROVE GoodHeap(heap'[j])
    <3>1. GoodHeap(RemoveExpired(heap[i], seen[i]))
      BY RemoveExpiredGood
    <3> QED
      BY <2>1, <2>5, <3>1 DEF FillerExpire
  <2>6. ASSUME NEW i \in Incarnation, PopHeap(i) PROVE GoodHeap(heap'[j])
    <3>1. GoodHeap(Pop(heap[i]))
      BY <2>6, PopGood DEF PopHeap
    <3> QED
      BY <2>1, <2>6, <3>1 DEF PopHeap
  <2>7. ASSUME NEW i \in Incarnation, CleanUp(i) PROVE GoodHeap(heap'[j])
    BY <2>1, <2>7, EmptyHeapGood DEF CleanUp
  <2>8. UNCHANGED heap \/ \E i \in Incarnation : \/ FillerReceive(i) \/ FillerExpire(i)
                                                 \/ PopHeap(i) \/ CleanUp(i)
    BY DEF Next, vars, data, UpdateConnections, SendTransaction, Confirm, NewHeight, SendEnds,
           Filler, FillerStart, FillerNotify, FillerExit, Main, Start, ConnectFirst, WakeUp,
           HeapIsEmpty, SpawnSend, MainExit
  <2> QED
    BY <2>2, <2>4, <2>5, <2>6, <2>7, <2>8
<1>3. HeapsGood => \A i \in Incarnation : IsHeap(heap[i]) /\ Agrees(heap[i])
  BY GoodHeapAgrees
<1> QED
  BY <1>1, <1>2, <1>3, TpuInvariant, PTL DEF Spec
==============================================================================
