---------------------------- MODULE FilterProofs ----------------------------
(* Induction over the numbers, and what it says of the filters of Filters,    *)
(* for any arrays and conditions.                                             *)
EXTENDS Filters, Integers, TLAPS, NaturalsInduction, WellFoundedInduction

-----------------------------------------------------------------------------
(* Induction. A property holds of every number because no number is the       *)
(* least one without it.                                                      *)

(* The order of the numbers is well-founded.                                  *)
LEMMA LessThanWellFounded ==
    \E R : IsWellFoundedOn(R, Nat) /\ \A i, j \in Nat : <<i, j>> \in R <=> i < j
<1>1. IsWellFoundedOn(OpToRel(<, Nat), Nat)
  BY NatLessThanWellFounded
<1>2. \A i, j \in Nat : <<i, j>> \in OpToRel(<, Nat) <=> i < j
  BY DEF OpToRel
<1> QED BY <1>1, <1>2

(* A non-empty set of numbers has a least element.                            *)
LEMMA LeastNumber ==
    ASSUME NEW T, T \subseteq Nat, T # {}
    PROVE  \E n \in T : \A m \in T : n <= m
<1>1. PICK R : IsWellFoundedOn(R, Nat) /\ \A i, j \in Nat : <<i, j>> \in R <=> i < j
  BY LessThanWellFounded
<1>2. IsWellFoundedOn(R, Nat)
  BY <1>1
<1>3. \E n \in T : \A m \in T : ~ (<<m, n>> \in R)
  BY <1>2, WFMin
<1>4. PICK n \in T : \A m \in T : ~ (<<m, n>> \in R)
  BY <1>3
<1>5. ASSUME NEW m \in T PROVE n <= m
  <2>1. n \in Nat /\ m \in Nat /\ ~ (m < n)
    BY <1>1, <1>4, <1>5
  <2> QED BY <2>1
<1> QED BY <1>5

(* A non-empty set of numbers up to a bound has a greatest element.           *)
LEMMA GreatestNumber ==
    ASSUME NEW m \in Nat, NEW T, T \subseteq 0..m, T # {}
    PROVE  \E n \in T : \A k \in T : k <= n
<1> DEFINE U == {m - k : k \in T}
<1>1. U \subseteq Nat /\ U # {}
  <2>1. \A k \in T : m - k \in Nat
    OBVIOUS
  <2>2. U \subseteq Nat
    BY <2>1
  <2>3. PICK k \in T : TRUE
    OBVIOUS
  <2>4. m - k \in U
    OBVIOUS
  <2> QED BY <2>2, <2>4
<1>2. PICK u \in U : \A v \in U : u <= v
  <2> HIDE DEF U
  <2> QED BY <1>1, LeastNumber
<1>3. PICK n \in T : u = m - n
  BY <1>2
<1>4. ASSUME NEW k \in T PROVE k <= n
  <2>1. m - n <= m - k
    BY <1>2, <1>3
  <2>2. k \in 0..m /\ n \in 0..m
    OBVIOUS
  <2> QED BY <2>1, <2>2
<1> QED BY <1>4

(* The induction principle, with a set for the property.                      *)
LEMMA AllNumbers ==
    ASSUME NEW P, 0 \in P, \A n \in Nat : n \in P => n + 1 \in P
    PROVE  Nat \subseteq P
<1> DEFINE T == Nat \ P
<1> SUFFICES ASSUME T # {} PROVE FALSE
  OBVIOUS
<1>1. PICK n \in T : \A m \in T : n <= m
  BY LeastNumber
<1>2. n \in Nat /\ n # 0 /\ n - 1 \in Nat /\ ~ (n <= n - 1)
  BY <1>1
<1>3. n - 1 \in P
  BY <1>1, <1>2
<1>4. (n - 1) + 1 = n
  BY <1>2
<1> QED BY <1>1, <1>2, <1>3, <1>4

(* The same for the numbers up to a bound.                                    *)
LEMMA NumbersUpTo ==
    ASSUME NEW m \in Nat, NEW P, 0 \in P, \A n \in 0..(m - 1) : n \in P => n + 1 \in P
    PROVE  0..m \subseteq P
<1> DEFINE Q == {n \in Nat : n <= m => n \in P}
<1>1. 0 \in Q
  OBVIOUS
<1>2. ASSUME NEW n \in Nat, n \in Q PROVE n + 1 \in Q
  <2>1. CASE n + 1 <= m
    <3>1. n \in 0..(m - 1) /\ n <= m
      BY <2>1
    <3>2. n \in P
      BY <1>2, <3>1
    <3> QED BY <3>1, <3>2
  <2>2. CASE ~ (n + 1 <= m)
    BY <2>2
  <2> QED BY <2>1, <2>2
<1>3. Nat \subseteq Q
  <2> HIDE DEF Q
  <2> QED BY <1>1, <1>2, AllNumbers
<1> QED BY <1>3

-----------------------------------------------------------------------------
(* Filters.                                                                   *)

(* The numbers of S up to each bound.                                         *)
UpTo(f, S, n) ==
    f = [i \in 0..n |-> IF i = 0 THEN <<>> ELSE IF i \in S THEN Append(f[i - 1], i) ELSE f[i - 1]]

(* There are such numbers for every bound.                                    *)
LEMMA UpToExists ==
    ASSUME NEW S, NEW m \in Nat
    PROVE  \E f : UpTo(f, S, m)
<1> DEFINE P == {n \in Nat : \E f : UpTo(f, S, n)}
           Step(f, k) == IF k = 0 THEN <<>> ELSE IF k \in S THEN Append(f[k - 1], k) ELSE f[k - 1]
<1>1. 0 \in P
  <2> DEFINE f == [k \in 0..0 |-> <<>>]
  <2>1. UpTo(f, S, 0)
    BY DEF UpTo
  <2> QED BY <2>1
<1>2. ASSUME NEW n \in Nat, n \in P PROVE n + 1 \in P
  <2>1. PICK f : UpTo(f, S, n)
    BY <1>2
  <2> DEFINE g == [k \in 0..(n + 1) |-> IF k = n + 1 THEN Step(f, n + 1) ELSE f[k]]
  <2>2. \A k \in 0..n : f[k] = Step(f, k)
    BY <2>1 DEF UpTo
  <2>3. ASSUME NEW k \in 0..(n + 1)
        PROVE  g[k] = Step(g, k)
    <3>1. CASE k = n + 1
      <4>1. g[k] = Step(f, k) /\ g[k - 1] = f[k - 1] /\ k # 0
        BY <3>1
      <4> QED BY <4>1
    <3>2. CASE k \in 0..n
      <4>1. g[k] = f[k] /\ (k # 0 => g[k - 1] = f[k - 1])
        BY <3>2
      <4>2. f[k] = Step(f, k)
        BY <2>2, <3>2
      <4> HIDE DEF g
      <4> QED BY <4>1, <4>2
    <3> QED BY <3>1, <3>2
  <2>4. UpTo(g, S, n + 1)
    <3>1. DOMAIN g = 0..(n + 1) /\ g = [k \in 0..(n + 1) |-> g[k]]
      OBVIOUS
    <3> HIDE DEF g
    <3> QED BY <2>3, <3>1 DEF UpTo
  <2> QED BY <2>4
<1>3. Nat \subseteq P
  <2> HIDE DEF P
  <2> QED BY <1>1, <1>2, AllNumbers
<1> QED BY <1>3

(* InOrder() is the last of them.                                             *)
LEMMA InOrderIs ==
    ASSUME NEW S, NEW m \in Nat
    PROVE  \E f : UpTo(f, S, m) /\ InOrder(m, S) = f[m]
<1> DEFINE value == CHOOSE f : UpTo(f, S, m)
<1>1. UpTo(value, S, m)
  BY UpToExists
<1>2. InOrder(m, S) = value[m]
  BY DEF InOrder, UpTo
<1> HIDE DEF value
<1> QED BY <1>1, <1>2

(* q lists the numbers from 1 to n that are in S, in order and each once.     *)
ListsInOrder(q, S, n) ==
    /\ q \in Seq(1..n)
    /\ \A j, k \in DOMAIN q : j < k => q[j] < q[k]
    /\ \A k \in DOMAIN q : q[k] \in S
    /\ \A x \in 1..n : x \in S => \E k \in DOMAIN q : q[k] = x

(* One number more keeps the list in order.                                   *)
LEMMA ListsOneMore ==
    ASSUME NEW S, NEW n \in Nat, NEW q, ListsInOrder(q, S, n)
    PROVE  /\ n + 1 \in S => ListsInOrder(Append(q, n + 1), S, n + 1)
           /\ n + 1 \notin S => ListsInOrder(q, S, n + 1)
<1> DEFINE more == Append(q, n + 1)
<1>1. /\ q \in Seq(1..n)
      /\ \A j, k \in DOMAIN q : j < k => q[j] < q[k]
      /\ \A k \in DOMAIN q : q[k] \in S
      /\ \A x \in 1..n : x \in S => \E k \in DOMAIN q : q[k] = x
  BY DEF ListsInOrder
<1>2. /\ DOMAIN q = 1..Len(q) /\ Len(q) \in Nat
      /\ \A k \in DOMAIN q : q[k] \in 1..n
  BY <1>1
<1>3. \A x \in 1..(n + 1) : x \in 1..n \/ x = n + 1
  OBVIOUS
<1>4. q \in Seq(1..(n + 1))
  BY <1>1, <1>2
<1>5. ASSUME n + 1 \in S PROVE ListsInOrder(more, S, n + 1)
  <2>1. /\ more \in Seq(1..(n + 1)) /\ DOMAIN more = 1..(Len(q) + 1)
        /\ more[Len(q) + 1] = n + 1 /\ \A k \in 1..Len(q) : more[k] = q[k]
    BY <1>2, <1>4
  <2> HIDE DEF more
  <2>2. \A k \in DOMAIN more : k \in DOMAIN q \/ k = Len(q) + 1
    BY <1>2, <2>1
  <2>3. DOMAIN q \subseteq DOMAIN more /\ Len(q) + 1 \in DOMAIN more
    BY <1>2, <2>1
  <2>4. \A j, k \in DOMAIN more : j < k => more[j] < more[k]
    <3> SUFFICES ASSUME NEW j \in DOMAIN more, NEW k \in DOMAIN more, j < k
                 PROVE  more[j] < more[k]
      OBVIOUS
    <3>1. j \in DOMAIN q
      BY <1>2, <2>1
    <3>2. CASE k \in DOMAIN q
      BY <1>1, <1>2, <2>1, <3>1, <3>2
    <3>3. CASE k = Len(q) + 1
      <4>1. more[j] \in 1..n /\ more[k] = n + 1
        BY <1>2, <2>1, <3>1, <3>3
      <4> QED BY <4>1
    <3> QED BY <2>2, <3>2, <3>3
  <2>5. \A k \in DOMAIN more : more[k] \in S
    BY <1>1, <1>2, <1>5, <2>1, <2>2
  <2>6. \A x \in 1..(n + 1) : x \in S => \E k \in DOMAIN more : more[k] = x
    BY <1>1, <1>2, <1>3, <2>1, <2>3
  <2> QED BY <2>1, <2>4, <2>5, <2>6 DEF ListsInOrder
<1>6. ASSUME n + 1 \notin S PROVE ListsInOrder(q, S, n + 1)
  BY <1>1, <1>3, <1>4, <1>6 DEF ListsInOrder
<1> QED BY <1>5, <1>6

(* InOrder() lists the numbers of S.                                          *)
LEMMA InOrderLists ==
    ASSUME NEW S, NEW m \in Nat
    PROVE  ListsInOrder(InOrder(m, S), S, m)
<1>1. PICK f : UpTo(f, S, m) /\ InOrder(m, S) = f[m]
  BY InOrderIs
<1>2. \A k \in 0..m : f[k] = IF k = 0 THEN <<>> ELSE IF k \in S THEN Append(f[k - 1], k) ELSE f[k - 1]
  BY <1>1 DEF UpTo
<1> DEFINE P == {k \in 0..m : ListsInOrder(f[k], S, k)}
<1>3. 0 \in P
  <2>1. f[0] = <<>>
    BY <1>2
  <2>2. ListsInOrder(<<>>, S, 0)
    BY DEF ListsInOrder
  <2> QED BY <2>1, <2>2
<1>4. ASSUME NEW k \in 0..(m - 1), k \in P PROVE k + 1 \in P
  <2>1. k + 1 \in 0..m /\ k + 1 # 0 /\ (k + 1) - 1 = k /\ k \in Nat
    OBVIOUS
  <2>2. f[k + 1] = IF k + 1 \in S THEN Append(f[k], k + 1) ELSE f[k]
    BY <1>2, <2>1
  <2>3. ListsInOrder(f[k], S, k)
    BY <1>4
  <2>4. ListsInOrder(f[k + 1], S, k + 1)
    BY <2>1, <2>2, <2>3, ListsOneMore
  <2> QED BY <2>1, <2>4
<1>5. 0..m \subseteq P
  <2> HIDE DEF P
  <2> QED BY <1>3, <1>4, NumbersUpTo
<1> QED BY <1>1, <1>5

(* A filtered array has exactly the elements at the positions of S, in the    *)
(* order in which they stand.                                                 *)
THEOREM PickedKeeps ==
    ASSUME NEW T, NEW s \in Seq(T), NEW S
    PROVE  \E at : /\ ListsInOrder(at, S, Len(s))
                   /\ Picked(s, S) \in Seq(T) /\ DOMAIN Picked(s, S) = DOMAIN at
                   /\ \A k \in DOMAIN at : Picked(s, S)[k] = s[at[k]]
<1>1. Len(s) \in Nat /\ DOMAIN s = 1..Len(s) /\ \A i \in 1..Len(s) : s[i] \in T
  OBVIOUS
<1> DEFINE at == InOrder(Len(s), S)
<1>2. ListsInOrder(at, S, Len(s))
  BY <1>1, InOrderLists
<1>3. Picked(s, S) = [k \in DOMAIN at |-> s[at[k]]]
  BY DEF Picked
<1> HIDE DEF at
<1>4. /\ DOMAIN at = 1..Len(at) /\ Len(at) \in Nat
      /\ \A k \in DOMAIN at : at[k] \in 1..Len(s)
  BY <1>2 DEF ListsInOrder
<1>5. Picked(s, S) \in Seq(T)
  BY <1>1, <1>3, <1>4
<1> QED BY <1>2, <1>3, <1>5
=============================================================================
