-------------------------- MODULE OrderedSets_proof --------------------------
(***************************************************************************)
(* What the proofs about the components need to know of sets of numbers,   *)
(* their least members and the order of Ascending, and of lists.           *)
(***************************************************************************)
EXTENDS OrderedSets, Sequences, FiniteSetsExt, FiniteSetTheorems, WellFoundedInduction, TLAPS

(* A set of numbers that is not empty has a least element. *)
LEMMA LeastExists ==
    ASSUME NEW S \in SUBSET Nat, S # {}
    PROVE  \E m \in S : \A n \in S : m <= n
<1> DEFINE R == {ss \in Nat \X Nat : ss[1] < ss[2]}
<1>1. IsWellFoundedOn(R, Nat)
  BY NatLessThanWellFounded DEF OpToRel
<1>2. \E m \in S : \A n \in S : <<n, m>> \notin R
  BY <1>1, WFMin
<1>3. \A m, n \in Nat : <<n, m>> \notin R => m <= n
  OBVIOUS
<1> QED BY <1>2, <1>3

(* Min returns the least member. *)
LEMMA MinIsLeast ==
    ASSUME NEW S \in SUBSET Nat, S # {}
    PROVE  Min(S) \in S /\ \A n \in S : Min(S) <= n
BY LeastExists DEF Min

(* A set of numbers up to n is finite. *)
LEMMA UpToIsFinite ==
    ASSUME NEW n \in Nat, NEW S \in SUBSET (1 .. n)
    PROVE  IsFiniteSet(S)
<1>1. IsFiniteSet(1 .. n)
  BY FS_Interval
<1> QED BY <1>1, FS_Subset

(* The members of any set of numbers up to n can be put in order. *)
LEMMA OrderExists ==
    \A n \in Nat : \A S \in SUBSET (1 .. n) :
        \E s \in [1 .. Cardinality(S) -> S] : \A i, j \in DOMAIN s : i < j => s[i] < s[j]
<1> DEFINE InOrder(S) ==
        \E s \in [1 .. Cardinality(S) -> S] :
            \A i, j \in 1 .. Cardinality(S) : i < j => s[i] < s[j]
           Failing == {n \in Nat : \E S \in SUBSET (1 .. n) : ~InOrder(S)}
<1>1. InOrder({})
  <2>1. Cardinality({}) = 0
    BY FS_EmptySet
  <2>2. [i \in 1 .. 0 |-> 0] \in [1 .. 0 -> {}]
    OBVIOUS
  <2> QED BY <2>1, <2>2
<1>2. ASSUME NEW n \in Nat, NEW S \in SUBSET (1 .. n), n \in S, InOrder(S \ {n})
      PROVE  InOrder(S)
  <2> DEFINE k == Cardinality(S \ {n})
  <2>1. IsFiniteSet(S)
    BY UpToIsFinite
  <2>2. Cardinality(S) = k + 1 /\ k \in Nat
    <3>1. IsFiniteSet(S \ {n}) /\ k = Cardinality(S) - 1
      BY <1>2, <2>1, FS_RemoveElement
    <3>2. Cardinality(S) \in Nat /\ Cardinality(S \ {n}) \in Nat
      BY <2>1, <3>1, FS_CardinalityType
    <3> QED BY <3>1, <3>2
  <2>3. PICK t \in [1 .. k -> S \ {n}] : \A i, j \in 1 .. k : i < j => t[i] < t[j]
    BY <1>2
  <2> HIDE DEF k
  <2> DEFINE s == [i \in 1 .. k + 1 |-> IF i = k + 1 THEN n ELSE t[i]]
  <2>4. \A i \in 1 .. k + 1 : i # k + 1 => i \in 1 .. k
    BY <2>2
  <2>5. s \in [1 .. k + 1 -> S]
    BY <1>2, <2>3, <2>4
  <2>6. \A i \in 1 .. k : t[i] \in S \ {n} /\ t[i] < n
    <3>1. \A x \in S \ {n} : x < n
      OBVIOUS
    <3> QED BY <2>3, <3>1
  <2>7. ASSUME NEW i \in 1 .. k + 1, NEW j \in 1 .. k + 1, i < j
        PROVE  s[i] < s[j]
    <3>1. i \in 1 .. k
      BY <2>2, <2>7
    <3>2. CASE j = k + 1
      BY <2>2, <2>6, <2>7, <3>1, <3>2
    <3>3. CASE j # k + 1
      BY <2>2, <2>3, <2>4, <2>7, <3>1, <3>3
    <3> QED BY <3>2, <3>3
  <2> QED BY <2>2, <2>5, <2>7
<1> HIDE DEF InOrder
<1>3. ASSUME Failing # {}
      PROVE  FALSE
  <2>1. PICK n \in Failing : \A m \in Failing : n <= m
    BY <1>3, LeastExists
  <2>2. PICK S \in SUBSET (1 .. n) : ~InOrder(S)
    BY <2>1
  <2>3. n \in Nat /\ S # {}
    BY <1>1, <2>1, <2>2
  <2>4. n - 1 \in Nat /\ n # 0
    <3>1. PICK x \in S : TRUE
      BY <2>3
    <3>2. x \in 1 .. n
      BY <2>2, <3>1
    <3> QED BY <2>3, <3>2
  <2>5. n - 1 \notin Failing
    BY <2>1, <2>4
  <2>6. \A T \in SUBSET (1 .. n - 1) : InOrder(T)
    BY <2>4, <2>5
  <2>7. S \ {n} \in SUBSET (1 .. n - 1)
    BY <2>2, <2>4
  <2>8. n \in S
    <3>1. CASE n \notin S
      BY <2>2, <2>6, <2>7, <3>1
    <3> QED BY <3>1
  <2> QED BY <1>2, <2>2, <2>3, <2>6, <2>7, <2>8
<1> QED BY <1>3 DEF InOrder

(* A finite set of numbers in its order: every member once, the smaller    *)
(* ones before the greater ones.                                           *)
LEMMA AscendingOrder ==
    ASSUME NEW n \in Nat, NEW S \in SUBSET (1 .. n)
    PROVE  /\ Cardinality(S) \in Nat
           /\ Ascending(S) \in [1 .. Cardinality(S) -> S]
           /\ \A i, j \in 1 .. Cardinality(S) : i < j => Ascending(S)[i] < Ascending(S)[j]
           /\ \A i, j \in 1 .. Cardinality(S) : Ascending(S)[i] = Ascending(S)[j] => i = j
           /\ \A x \in S : \E i \in 1 .. Cardinality(S) : Ascending(S)[i] = x
<1> DEFINE k == Cardinality(S)
           s == Ascending(S)
<1>1. s \in [1 .. k -> S] /\ \A i, j \in 1 .. k : i < j => s[i] < s[j]
  BY OrderExists DEF Ascending
<1>2. IsFiniteSet(S) /\ k \in Nat
  <2>1. IsFiniteSet(S)
    BY UpToIsFinite
  <2> QED BY <2>1, FS_CardinalityType
<1> HIDE DEF k, s
<1>3. \A i, j \in 1 .. k : s[i] = s[j] => i = j
  <2>1. \A i \in 1 .. k : s[i] \in Nat
    <3>1. \A x \in S : x \in Nat
      OBVIOUS
    <3> QED BY <1>1, <3>1
  <2> QED BY <1>1, <1>2, <2>1
<1>4. s \in Injection(1 .. k, S)
  BY <1>1, <1>3 DEF Injection, IsInjective
<1>5. Cardinality(1 .. k) = Cardinality(S)
  BY <1>2, FS_Interval DEF k
<1>6. s \in Surjection(1 .. k, S)
  BY <1>2, <1>4, <1>5, FS_Injection
<1> QED BY <1>1, <1>2, <1>3, <1>6 DEF Surjection, k, s

-----------------------------------------------------------------------------
(***************************************************************************)
(* Lists: what they hold, and whether they hold it once.                   *)
(***************************************************************************)

Members(seq) == {seq[i] : i \in DOMAIN seq}
OnceIn(seq) == \A i, j \in DOMAIN seq : seq[i] = seq[j] => i = j

(* The members of a concatenation; it repeats nothing when its parts do    *)
(* not and share nothing.                                                  *)
LEMMA Concatenation ==
    ASSUME NEW S, NEW s \in Seq(S), NEW t \in Seq(S)
    PROVE  /\ s \o t \in Seq(S)
           /\ Members(s \o t) = Members(s) \cup Members(t)
           /\ OnceIn(s) /\ OnceIn(t) /\ Members(s) \cap Members(t) = {} => OnceIn(s \o t)
<1>1. /\ DOMAIN s = 1 .. Len(s) /\ DOMAIN t = 1 .. Len(t)
      /\ Len(s) \in Nat /\ Len(t) \in Nat
      /\ s \o t \in Seq(S) /\ DOMAIN (s \o t) = 1 .. Len(s) + Len(t)
  OBVIOUS
<1>2. \A i \in 1 .. Len(s) : i \in DOMAIN (s \o t) /\ (s \o t)[i] = s[i]
  BY <1>1
<1>3. \A i \in 1 .. Len(t) : Len(s) + i \in DOMAIN (s \o t) /\ (s \o t)[Len(s) + i] = t[i]
  BY <1>1
<1>4. \A i \in DOMAIN (s \o t) :
        i \notin 1 .. Len(s) => i - Len(s) \in 1 .. Len(t) /\ (s \o t)[i] = t[i - Len(s)]
  BY <1>1
<1>5. Members(s \o t) = Members(s) \cup Members(t)
  <2>1. ASSUME NEW i \in DOMAIN (s \o t)
        PROVE  (s \o t)[i] \in Members(s) \cup Members(t)
    <3>1. CASE i \in 1 .. Len(s)
      BY <1>1, <1>2, <3>1 DEF Members
    <3>2. CASE i \notin 1 .. Len(s)
      BY <1>1, <1>4, <3>2 DEF Members
    <3> QED BY <3>1, <3>2
  <2>2. Members(s) \subseteq Members(s \o t)
    BY <1>1, <1>2 DEF Members
  <2>3. Members(t) \subseteq Members(s \o t)
    BY <1>1, <1>3 DEF Members
  <2>4. Members(s \o t) \subseteq Members(s) \cup Members(t)
    BY <2>1 DEF Members
  <2> QED BY <2>2, <2>3, <2>4
<1>6. ASSUME OnceIn(s), OnceIn(t), Members(s) \cap Members(t) = {}
      PROVE  OnceIn(s \o t)
  <2> SUFFICES ASSUME NEW i \in DOMAIN (s \o t), NEW j \in DOMAIN (s \o t),
                      (s \o t)[i] = (s \o t)[j]
               PROVE  i = j
    BY DEF OnceIn
  <2>1. CASE i \in 1 .. Len(s) /\ j \in 1 .. Len(s)
    BY <1>1, <1>2, <1>6, <2>1 DEF OnceIn
  <2>2. CASE i \notin 1 .. Len(s) /\ j \notin 1 .. Len(s)
    <3>1. i - Len(s) = j - Len(s)
      BY <1>1, <1>4, <1>6, <2>2 DEF OnceIn
    <3> QED BY <1>1, <3>1
  <2>3. CASE i \in 1 .. Len(s) /\ j \notin 1 .. Len(s)
    BY <1>1, <1>2, <1>4, <1>6, <2>3 DEF Members
  <2>4. CASE i \notin 1 .. Len(s) /\ j \in 1 .. Len(s)
    BY <1>1, <1>2, <1>4, <1>6, <2>4 DEF Members
  <2> QED BY <2>1, <2>2, <2>3, <2>4
<1> QED BY <1>1, <1>5, <1>6

(* A list of one member, and the empty one. *)
LEMMA ShortLists ==
    ASSUME NEW S, NEW t \in S
    PROVE  /\ <<t>> \in Seq(S) /\ Members(<<t>>) = {t} /\ OnceIn(<<t>>)
           /\ << >> \in Seq(S) /\ Members(<< >>) = {} /\ OnceIn(<< >>)
BY DEF Members, OnceIn

(* The first member of a list and the others. *)
LEMMA FirstAndRest ==
    ASSUME NEW S, NEW s \in Seq(S), s # << >>
    PROVE  /\ Head(s) \in S /\ Head(s) \in Members(s) /\ Tail(s) \in Seq(S)
           /\ Members(s) = {Head(s)} \cup Members(Tail(s))
<1>1. Len(s) \in Nat \ {0} /\ DOMAIN s = 1 .. Len(s) /\ Head(s) = s[1]
  OBVIOUS
<1>2. Tail(s) \in Seq(S) /\ DOMAIN Tail(s) = 1 .. Len(s) - 1
  BY <1>1
<1>3. \A i \in DOMAIN Tail(s) : i + 1 \in DOMAIN s /\ Tail(s)[i] = s[i + 1]
  BY <1>1, <1>2
<1>4. \A i \in DOMAIN s : i # 1 => i - 1 \in DOMAIN Tail(s) /\ Tail(s)[i - 1] = s[i]
  BY <1>1, <1>2
<1>5. Members(Tail(s)) \subseteq Members(s)
  BY <1>3 DEF Members
<1>6. \A i \in DOMAIN s : s[i] = Head(s) \/ s[i] \in Members(Tail(s))
  BY <1>1, <1>4 DEF Members
<1>7. Members(s) \subseteq {Head(s)} \cup Members(Tail(s))
  BY <1>6 DEF Members
<1>8. Head(s) \in S /\ Head(s) \in Members(s)
  BY <1>1 DEF Members
<1> QED BY <1>2, <1>5, <1>7, <1>8

(* A list that repeats nothing is without its first member afterwards.     *)
LEMMA HeadAndTail ==
    ASSUME NEW S, NEW s \in Seq(S), s # << >>, OnceIn(s)
    PROVE  OnceIn(Tail(s)) /\ Members(Tail(s)) = Members(s) \ {Head(s)}
<1>1. Len(s) \in Nat \ {0} /\ DOMAIN s = 1 .. Len(s) /\ Head(s) = s[1]
  OBVIOUS
<1>2. Tail(s) \in Seq(S) /\ DOMAIN Tail(s) = 1 .. Len(s) - 1
  BY <1>1
<1>3. \A i \in DOMAIN Tail(s) : i + 1 \in DOMAIN s /\ i + 1 # 1 /\ Tail(s)[i] = s[i + 1]
  BY <1>1, <1>2
<1>4. OnceIn(Tail(s))
  <2> SUFFICES ASSUME NEW i \in DOMAIN Tail(s), NEW j \in DOMAIN Tail(s), Tail(s)[i] = Tail(s)[j]
               PROVE  i = j
    BY DEF OnceIn
  <2>1. i + 1 = j + 1
    BY <1>3 DEF OnceIn
  <2> QED BY <1>2, <2>1
<1>5. \A i \in DOMAIN Tail(s) : Tail(s)[i] # Head(s)
  BY <1>1, <1>3 DEF OnceIn
<1>6. Head(s) \notin Members(Tail(s))
  BY <1>5 DEF Members
<1> QED BY <1>4, <1>6, FirstAndRest

-----------------------------------------------------------------------------
(***************************************************************************)
(* Loops: recursive functions of the turns taken.  What a turn does and    *)
(* what holds after it are functions, so that the lemmas can be applied.   *)
(***************************************************************************)

(* What holds before the first turn and is kept by each of n turns holds   *)
(* after every one.                                                        *)
LEMMA LoopKeeps ==
    ASSUME NEW n \in Nat, NEW f, NEW after, f[0] \in after[0],
           \A k \in 1 .. n : f[k - 1] \in after[k - 1] => f[k] \in after[k]
    PROVE  \A k \in 0 .. n : f[k] \in after[k]
<1> DEFINE Failing == {k \in 0 .. n : f[k] \notin after[k]}
<1> SUFFICES ASSUME Failing # {} PROVE FALSE
  OBVIOUS
<1>1. Failing \in SUBSET Nat
  OBVIOUS
<1>2. PICK k \in Failing : \A other \in Failing : k <= other
  <2> HIDE DEF Failing
  <2> QED BY <1>1, LeastExists
<1>3. k # 0
  BY <1>2
<1>4. k \in 1 .. n /\ k - 1 \in 0 .. n /\ ~(k <= k - 1)
  BY <1>2, <1>3
<1>5. k - 1 \notin Failing
  <2> HIDE DEF Failing
  <2> QED BY <1>2, <1>4
<1> QED BY <1>2, <1>4, <1>5

(* The turns of a loop that stays within S. *)
Turns(S, n) == [S \X (1 .. n) -> S]

(* The function of a loop exists when its turns stay within a set.         *)
LEMMA LoopExists ==
    ASSUME NEW n \in Nat, NEW S, NEW first \in S, NEW turn \in Turns(S, n)
    PROVE  \E g \in [0 .. n -> S] :
              g[0] = first /\ \A k \in 1 .. n : g[k] = turn[<<g[k - 1], k>>]
<1> DEFINE Works(o) == \E g \in [0 .. o -> S] :
              g = [k \in 0 .. o |-> IF k = 0 THEN first ELSE turn[<<g[k - 1], k>>]]
           Failing == {o \in 0 .. n : ~Works(o)}
<1>1. Works(0)
  <2> DEFINE g == [k \in 0 .. 0 |-> first]
  <2>1. g = [k \in 0 .. 0 |-> IF k = 0 THEN first ELSE turn[<<g[k - 1], k>>]]
    OBVIOUS
  <2>2. g \in [0 .. 0 -> S]
    OBVIOUS
  <2> QED BY <2>1, <2>2
<1>0. turn \in [S \X (1 .. n) -> S]
  BY DEF Turns
<1>2. ASSUME NEW o \in 1 .. n, Works(o - 1) PROVE Works(o)
  <2>1. PICK g \in [0 .. o - 1 -> S] :
            g = [k \in 0 .. o - 1 |-> IF k = 0 THEN first ELSE turn[<<g[k - 1], k>>]]
    BY <1>2
  <2> DEFINE h == [k \in 0 .. o |-> IF k = o THEN turn[<<g[o - 1], o>>] ELSE g[k]]
  <2>2. \A k \in 0 .. o : k = o \/ k \in 0 .. o - 1
    OBVIOUS
  <2>3. h \in [0 .. o -> S]
    <3>1. turn[<<g[o - 1], o>>] \in S
      <4>1. o - 1 \in 0 .. o - 1
        OBVIOUS
      <4>2. g[o - 1] \in S
        BY <4>1
      <4> QED BY <1>0, <4>2
    <3> QED BY <2>2, <3>1
  <2>4. ASSUME NEW k \in 0 .. o PROVE h[k] = IF k = 0 THEN first ELSE turn[<<h[k - 1], k>>]
    <3>1. CASE k = o
      <4>1. k # 0 /\ k - 1 # o /\ k - 1 \in 0 .. o
        BY <3>1
      <4>2. h[k - 1] = g[o - 1]
        BY <3>1, <4>1
      <4> QED BY <3>1, <4>1, <4>2
    <3>2. CASE k # o
      <4>1. k \in 0 .. o - 1 /\ (k # 0 => k - 1 \in 0 .. o /\ k - 1 # o)
        BY <3>2
      <4>2. h[k] = g[k] /\ (k # 0 => h[k - 1] = g[k - 1])
        BY <3>2, <4>1
      <4>3. g[k] = IF k = 0 THEN first ELSE turn[<<g[k - 1], k>>]
        BY <2>1, <4>1
      <4> QED BY <4>2, <4>3
    <3> QED BY <3>1, <3>2
  <2> HIDE DEF h
  <2>5. h = [k \in 0 .. o |-> IF k = 0 THEN first ELSE turn[<<h[k - 1], k>>]]
    BY <2>3, <2>4
  <2> QED BY <2>3, <2>5
<1> HIDE DEF Works
<1>3. Failing = {}
  <2> SUFFICES ASSUME Failing # {} PROVE FALSE
    OBVIOUS
  <2>1. Failing \in SUBSET Nat
    OBVIOUS
  <2>2. PICK o \in Failing : \A p \in Failing : o <= p
    <3> HIDE DEF Failing
    <3> QED BY <2>1, LeastExists
  <2>3. o # 0
    BY <1>1, <2>2
  <2>4. o \in 1 .. n /\ o - 1 \in 0 .. n /\ ~(o <= o - 1)
    BY <2>2, <2>3
  <2>5. o - 1 \notin Failing
    <3> HIDE DEF Failing
    <3> QED BY <2>2, <2>4
  <2>6. Works(o)
    BY <1>2, <2>4, <2>5
  <2> QED BY <2>2, <2>6
<1>4. Works(n)
  <2>1. n \in 0 .. n
    OBVIOUS
  <2> QED BY <1>3, <2>1
<1>5. PICK g \in [0 .. n -> S] :
            g = [k \in 0 .. n |-> IF k = 0 THEN first ELSE turn[<<g[k - 1], k>>]]
  BY <1>4 DEF Works
<1>6. g[0] = first
  <2>1. 0 \in 0 .. n
    OBVIOUS
  <2> QED BY <1>5, <2>1
<1>7. ASSUME NEW k \in 1 .. n PROVE g[k] = turn[<<g[k - 1], k>>]
  <2>1. k \in 0 .. n /\ k # 0
    OBVIOUS
  <2> QED BY <1>5, <2>1
<1> QED BY <1>6, <1>7
=============================================================================
