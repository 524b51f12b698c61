----------------------------- MODULE ListProofs -----------------------------
(***************************************************************************)
(* Facts about numbers and lists that the proofs of the components share.  *)
(***************************************************************************)
EXTENDS Lists, FiniteSetTheorems, SequenceTheorems, TLAPS

NoneTwice(list) == \A i, j \in DOMAIN list : list[i] = list[j] => i = j
ElementsOf(list) == {list[i] : i \in DOMAIN list}

-----------------------------------------------------------------------------
(* A set of numbers that is not empty has a least one.                       *)
LEMMA LeastNumber ==
  ASSUME NEW T \in SUBSET Nat, T # {}
  PROVE  \E n \in T : \A m \in T : n <= m
<1> DEFINE Below == {0..k : k \in T}
<1>1. IsWellFoundedOn(StrictSubsetOrdering(Nat), FiniteSubsetsOf(Nat))
  BY FS_StrictSubsetOrderingWellFounded
<1>2. Below # {} /\ Below \subseteq FiniteSubsetsOf(Nat)
  <2>1. ASSUME NEW k \in T
        PROVE  0..k \in FiniteSubsetsOf(Nat)
    BY FS_Interval DEF FiniteSubsetsOf
  <2>2. QED
    BY <2>1
<1>3. PICK x \in Below : \A y \in Below : ~(<<y, x>> \in StrictSubsetOrdering(Nat))
  <2> HIDE DEF Below
  <2> QED
    BY <1>1, <1>2, WFMin
<1>4. PICK n \in T : x = 0..n
  OBVIOUS
<1>5. ASSUME NEW m \in T, m < n
      PROVE  FALSE
  <2>1. 0..m \subseteq 0..n /\ n \in 0..n /\ n \notin 0..m
    BY <1>5
  <2>2. ~(<<0..m, 0..n>> \in StrictSubsetOrdering(Nat))
    BY <1>3, <1>4
  <2>3. QED
    BY <2>1, <2>2 DEF StrictSubsetOrdering
<1>6. QED
  BY <1>5

(* Counting up: what holds of nought and of the next number, holds of all.   *)
LEMMA CountingUp ==
  ASSUME NEW n \in Nat, NEW G, 0 \in G, \A k \in 1..n : k - 1 \in G => k \in G
  PROVE  \A k \in 0..n : k \in G
<1> DEFINE T == {k \in 0..n : k \notin G}
<1>1. ASSUME T # {}
      PROVE  FALSE
  <2>1. T \in SUBSET Nat
    OBVIOUS
  <2>2. PICK m \in T : \A k \in T : m <= k
    BY ONLY <1>1, <2>1, LeastNumber
  <2>3. m \in 1..n /\ m - 1 \in 0..n /\ ~(m <= m - 1)
    BY <2>2
  <2>4. m - 1 \notin T
    <3> HIDE DEF T
    <3> QED
      BY <2>2, <2>3
  <2>5. QED
    BY <2>2, <2>3, <2>4
<1>2. QED
  BY <1>1

(* The list that Those makes, one entry after the other, is defined.         *)
TakenFrom(list, set, g, n) ==
    g = [k \in 0..n |-> IF k = 0 THEN <<>>
          ELSE IF list[k] \in set THEN Append(g[k - 1], list[k]) ELSE g[k - 1]]
LEMMA ThoseDefined ==
  ASSUME NEW S, NEW list \in Seq(S), NEW set, NEW n \in 0..Len(list)
  PROVE  \E g \in [0..n -> Seq(S)] : TakenFrom(list, set, g, n)
<1> USE DEF TakenFrom
<1> DEFINE Next(k, t) == IF list[k] \in set THEN Append(t, list[k]) ELSE t
           Made(g, m) == g = [k \in 0..m |-> IF k = 0 THEN <<>> ELSE Next(k, g[k - 1])]
           T == {m \in 0..Len(list) : ~ \E g \in [0..m -> Seq(S)] : Made(g, m)}
<1>1. SUFFICES ASSUME T # {}
               PROVE  FALSE
  OBVIOUS
<1>2. PICK m \in T : \A k \in T : m <= k
  <2>1. T \in SUBSET Nat
    OBVIOUS
  <2>2. QED
    BY ONLY <1>1, <2>1, LeastNumber
<1>3. m \in 0..Len(list)
  BY <1>2
<1>4. CASE m = 0
  <2>1. [k \in 0..0 |-> <<>>] \in [0..0 -> Seq(S)] /\ Made([k \in 0..0 |-> <<>>], 0)
    OBVIOUS
  <2>2. QED
    BY <1>2, <1>4, <2>1
<1>5. CASE m # 0
  <2>1. m - 1 \in 0..Len(list) /\ m - 1 \notin T
    <3> HIDE DEF T
    <3>1. QED
      BY <1>2, <1>3, <1>5
  <2>2. PICK g \in [0..(m - 1) -> Seq(S)] : Made(g, m - 1)
    BY <2>1
  <2>3. g[m - 1] \in Seq(S) /\ list[m] \in S
    BY <1>3, <1>5
  <2>4. Next(m, g[m - 1]) \in Seq(S)
    BY <2>3
  <2>5. PICK last \in Seq(S) : last = Next(m, g[m - 1])
    BY <2>4
  <2> HIDE DEF Next
  <2> DEFINE h == [k \in 0..m |-> IF k = m THEN last ELSE g[k]]
  <2>6. h \in [0..m -> Seq(S)]
    BY <1>3
  <2>7. ASSUME NEW k \in 0..m
        PROVE  h[k] = IF k = 0 THEN <<>> ELSE Next(k, h[k - 1])
    <3>1. CASE k = m
      <4>1. h[m - 1] = g[m - 1] /\ h[m] = last
        BY <1>3, <1>5
      <4>2. QED
        BY <1>5, <2>5, <3>1, <4>1
    <3>2. CASE k # m
      <4>1. g[k] = IF k = 0 THEN <<>> ELSE Next(k, g[k - 1])
        BY <1>3, <2>2, <3>2
      <4>2. h[k] = g[k] /\ (k # 0 => h[k - 1] = g[k - 1])
        BY <1>3, <3>2
      <4>3. QED
        BY <4>1, <4>2
    <3>3. QED
      BY <3>1, <3>2
  <2>8. Made(h, m)
    BY <2>6, <2>7
  <2>9. QED
    BY <1>2, <2>6, <2>8
<1>6. QED
  BY <1>4, <1>5

(* Those, entry by entry.                                                    *)
Collects(list, set, g) ==
    /\ g[0] = <<>>
    /\ \A k \in 1..Len(list) :
         g[k] = IF list[k] \in set THEN Append(g[k - 1], list[k]) ELSE g[k - 1]

LEMMA ThoseStep ==
  ASSUME NEW S, NEW list \in Seq(S), NEW set
  PROVE  \E g \in [0..Len(list) -> Seq(S)] :
            Collects(list, set, g) /\ Those(list, set) = g[Len(list)]
<1> DEFINE Made(g) == g = [k \in 0..Len(list) |-> IF k = 0 THEN <<>>
                       ELSE IF list[k] \in set THEN Append(g[k - 1], list[k]) ELSE g[k - 1]]
           those == CHOOSE g : Made(g)
<1>1. Len(list) \in Nat /\ Len(list) \in 0..Len(list)
  OBVIOUS
<1>2. PICK f \in [0..Len(list) -> Seq(S)] : Made(f)
  <2>1. PICK g \in [0..Len(list) -> Seq(S)] : TakenFrom(list, set, g, Len(list))
    BY ONLY <1>1, list \in Seq(S), ThoseDefined
  <2>2. QED
    BY <2>1 DEF TakenFrom
<1>3. Made(those)
  BY <1>2
<1>4. Those(list, set) = those[Len(list)]
  BY DEF Those
<1>5. those[0] = <<>> /\ \A k \in 1..Len(list) :
        those[k] = IF list[k] \in set THEN Append(those[k - 1], list[k]) ELSE those[k - 1]
  <2> HIDE DEF those
  <2>1. \A k \in 0..Len(list) :
          those[k] = IF k = 0 THEN <<>>
                     ELSE IF list[k] \in set THEN Append(those[k - 1], list[k]) ELSE those[k - 1]
    BY ONLY <1>3
  <2>2. \A k \in 1..Len(list) : k \in 0..Len(list) /\ k # 0
    BY ONLY <1>1
  <2>3. QED
    BY ONLY <1>1, <2>1, <2>2
<1>6. DOMAIN those = 0..Len(list) /\ those = [k \in 0..Len(list) |-> those[k]]
  <2> HIDE DEF those
  <2> QED
    BY <1>3
<1> HIDE DEF those, Made
<1>7. \A k \in 0..Len(list) : those[k] \in Seq(S)
  <2> DEFINE G == {k \in 0..Len(list) : those[k] \in Seq(S)}
  <2>1. 0 \in G
    <3>1. those[0] = <<>> /\ <<>> \in Seq(S) /\ 0 \in 0..Len(list)
      BY ONLY <1>1, <1>5
    <3>2. QED
      BY ONLY <3>1
  <2>2. ASSUME NEW k \in 1..Len(list), k - 1 \in G
        PROVE  k \in G
    <3>1. those[k - 1] \in Seq(S) /\ list[k] \in S
      BY <1>1, <2>2
    <3>2. Append(those[k - 1], list[k]) \in Seq(S)
      BY <3>1
    <3>3. those[k] \in Seq(S) /\ k \in 0..Len(list)
      <4>1. those[k] = IF list[k] \in set THEN Append(those[k - 1], list[k]) ELSE those[k - 1]
        BY <1>5
      <4>2. QED
        BY <1>1, <3>1, <3>2, <4>1
    <3>4. QED
      BY ONLY <3>3
  <2>3. \A k \in 0..Len(list) : k \in G
    <3> HIDE DEF G
    <3> QED
      BY ONLY <1>1, <2>1, <2>2, CountingUp
  <2>4. QED
    BY <2>3
<1>8. those \in [0..Len(list) -> Seq(S)]
  BY <1>6, <1>7
<1>9. QED
  BY <1>4, <1>5, <1>8 DEF Collects

(* Those are the entries that are in the set.                                *)
LEMMA ThoseMembers ==
  ASSUME NEW S, NEW list \in Seq(S), NEW set
  PROVE  /\ Those(list, set) \in Seq(S)
         /\ ElementsOf(Those(list, set)) = ElementsOf(list) \cap set
<1>1. PICK g \in [0..Len(list) -> Seq(S)] :
        Collects(list, set, g) /\ Those(list, set) = g[Len(list)]
  BY ThoseStep
<1>2. Len(list) \in Nat /\ Len(list) \in 0..Len(list) /\ DOMAIN list = 1..Len(list)
  OBVIOUS
<1> DEFINE Upto(k) == {list[i] : i \in 1..k} \cap set
           G == {k \in 0..Len(list) : ElementsOf(g[k]) = Upto(k)}
<1>3. 0 \in G
  BY <1>1, <1>2 DEF Collects, ElementsOf
<1>4. ASSUME NEW k \in 1..Len(list), k - 1 \in G
      PROVE  k \in G
  <2>1. ElementsOf(g[k - 1]) = Upto(k - 1) /\ k \in 0..Len(list)
    BY <1>2, <1>4
  <2>2. PICK t \in Seq(S) : t = g[k - 1]
    BY <1>2
  <2>3. PICK e \in S : e = list[k]
    BY <1>2
  <2>4. 1..k = 1..(k - 1) \cup {k}
    BY <1>2
  <2>5. g[k] = IF e \in set THEN Append(t, e) ELSE t
    BY <1>1, <2>2, <2>3 DEF Collects
  <2>6. Upto(k) = Upto(k - 1) \cup ({e} \cap set)
    BY <2>3, <2>4
  <2>7. ElementsOf(Append(t, e)) = ElementsOf(t) \cup {e}
    <3>1. /\ DOMAIN Append(t, e) = 1..(Len(t) + 1) /\ DOMAIN t = 1..Len(t) /\ Len(t) \in Nat
          /\ Append(t, e)[Len(t) + 1] = e /\ \A i \in 1..Len(t) : Append(t, e)[i] = t[i]
      OBVIOUS
    <3>2. 1..(Len(t) + 1) = 1..Len(t) \cup {Len(t) + 1}
      BY <3>1
    <3>3. QED
      BY ONLY <3>1, <3>2 DEF ElementsOf
  <2>8. ElementsOf(g[k]) = Upto(k)
    <3> HIDE DEF Upto
    <3>1. CASE e \in set
      BY <2>1, <2>2, <2>5, <2>6, <2>7, <3>1
    <3>2. CASE e \notin set
      BY <2>1, <2>2, <2>5, <2>6, <3>2
    <3>3. QED
      BY <3>1, <3>2
  <2>9. QED
    BY <2>1, <2>8
<1>5. \A k \in 0..Len(list) : k \in G
  <2> HIDE DEF G
  <2> QED
    BY ONLY <1>2, <1>3, <1>4, CountingUp
<1>6. ElementsOf(g[Len(list)]) = Upto(Len(list))
  BY <1>2, <1>5
<1>7. Upto(Len(list)) = ElementsOf(list) \cap set
  BY <1>2 DEF ElementsOf
<1>8. QED
  BY <1>1, <1>2, <1>6, <1>7

(* All of them, if all are in the set.                                       *)
LEMMA ThoseAll ==
  ASSUME NEW S, NEW list \in Seq(S), NEW set, ElementsOf(list) \subseteq set
  PROVE  Those(list, set) = list
<1>1. PICK g \in [0..Len(list) -> Seq(S)] :
        Collects(list, set, g) /\ Those(list, set) = g[Len(list)]
  BY ThoseStep
<1>2. Len(list) \in Nat /\ Len(list) \in 0..Len(list) /\ DOMAIN list = 1..Len(list)
  OBVIOUS
<1> DEFINE Same(t, k) == Len(t) = k /\ \A i \in 1..k : t[i] = list[i]
           G == {k \in 0..Len(list) : Same(g[k], k)}
<1>3. 0 \in G
  BY <1>1, <1>2 DEF Collects
<1>4. ASSUME NEW k \in 1..Len(list), k - 1 \in G
      PROVE  k \in G
  <2>1. PICK t \in Seq(S) : t = g[k - 1]
    BY <1>2
  <2>2. Same(t, k - 1) /\ k \in 0..Len(list)
    <3>1. Same(g[k - 1], k - 1)
      BY <1>4
    <3>2. QED
      BY ONLY <1>2, <2>1, <3>1
  <2>3. PICK e \in S : e = list[k]
    BY <1>2
  <2>4. e \in set
    BY <1>2, <2>3 DEF ElementsOf
  <2>5. g[k] = Append(t, e)
    BY <1>1, <2>1, <2>3, <2>4 DEF Collects
  <2>6. Len(t) = k - 1 /\ \A i \in 1..(k - 1) : t[i] = list[i]
    BY <2>2
  <2>7. /\ Len(Append(t, e)) = k /\ Append(t, e)[k] = e
        /\ \A i \in 1..(k - 1) : Append(t, e)[i] = t[i]
    BY <2>6
  <2>8. Same(Append(t, e), k)
    <3>1. \A i \in 1..k : i \in 1..(k - 1) \/ i = k
      BY <1>2
    <3>2. QED
      BY <2>3, <2>6, <2>7, <3>1
  <2>9. QED
    <3> HIDE DEF Same
    <3> QED
      BY <2>2, <2>5, <2>8
<1>5. \A k \in 0..Len(list) : k \in G
  <2> HIDE DEF G
  <2> QED
    BY ONLY <1>2, <1>3, <1>4, CountingUp
<1>6. Same(g[Len(list)], Len(list)) /\ g[Len(list)] \in Seq(S)
  BY <1>2, <1>5
<1>7. g[Len(list)] = list
  BY <1>2, <1>6, SeqEqual
<1>8. QED
  BY <1>1, <1>7

(* Without repetition if the list is.                                        *)
LEMMA ThoseFound ==
  ASSUME NEW S, NEW list \in Seq(S), NEW set, NoneTwice(list)
  PROVE  Those(list, set) \in Seq(S) /\ NoneTwice(Those(list, set))
<1>1. PICK g \in [0..Len(list) -> Seq(S)] :
        Collects(list, set, g) /\ Those(list, set) = g[Len(list)]
  BY ThoseStep
<1>2. Len(list) \in Nat /\ Len(list) \in 0..Len(list) /\ DOMAIN list = 1..Len(list)
  OBVIOUS
<1> DEFINE Fine(t, k) == NoneTwice(t) /\ \A i \in DOMAIN t : \E j \in 1..k : t[i] = list[j]
           G == {k \in 0..Len(list) : Fine(g[k], k)}
<1>3. 0 \in G
  BY <1>1, <1>2 DEF Collects, NoneTwice
<1>4. ASSUME NEW k \in 1..Len(list), k - 1 \in G
      PROVE  k \in G
  <2>1. PICK t \in Seq(S) : t = g[k - 1]
    BY <1>2
  <2>2. Fine(t, k - 1) /\ k \in 0..Len(list) /\ 1..(k - 1) \subseteq 1..k
    BY <1>2, <1>4, <2>1
  <2>3. PICK e \in S : e = list[k]
    BY <1>2
  <2>4. Fine(t, k)
    BY <2>2
  <2>5. Fine(Append(t, e), k)
    <3>1. /\ DOMAIN Append(t, e) = 1..(Len(t) + 1) /\ DOMAIN t = 1..Len(t) /\ Len(t) \in Nat
          /\ Append(t, e)[Len(t) + 1] = e /\ \A i \in 1..Len(t) : Append(t, e)[i] = t[i]
      OBVIOUS
    <3>2. \A i \in 1..(Len(t) + 1) : i \in 1..Len(t) \/ i = Len(t) + 1
      BY <3>1
    <3>3. ASSUME NEW i \in 1..Len(t), t[i] = e
          PROVE  FALSE
      <4>1. PICK j \in 1..(k - 1) : t[i] = list[j]
        BY <2>2, <3>1
      <4>2. j # k /\ j \in DOMAIN list /\ k \in DOMAIN list
        BY <1>2
      <4>3. QED
        BY <2>3, <3>3, <4>1, <4>2 DEF NoneTwice
    <3>4. NoneTwice(t)
      BY <2>2
    <3>5. NoneTwice(Append(t, e))
      <4>1. SUFFICES ASSUME NEW i \in 1..(Len(t) + 1), NEW j \in 1..(Len(t) + 1),
                            Append(t, e)[i] = Append(t, e)[j]
                     PROVE  i = j
        BY <3>1 DEF NoneTwice
      <4>2. QED
        BY <3>1, <3>2, <3>3, <3>4, <4>1 DEF NoneTwice
    <3>6. \A i \in 1..(Len(t) + 1) : \E j \in 1..k : Append(t, e)[i] = list[j]
      <4>1. k \in 1..k
        BY <1>2
      <4>2. QED
        BY <2>3, <2>4, <3>1, <3>2, <4>1
    <3>7. QED
      BY <3>1, <3>5, <3>6
  <2>6. Fine(g[k], k)
    <3>1. g[k] = IF e \in set THEN Append(t, e) ELSE t
      BY <1>1, <2>1, <2>3 DEF Collects
    <3> HIDE DEF Fine
    <3>2. QED
      BY <2>4, <2>5, <3>1
  <2>7. QED
    BY <2>2, <2>6
<1>5. \A k \in 0..Len(list) : k \in G
  <2> HIDE DEF G
  <2> QED
    BY ONLY <1>2, <1>3, <1>4, CountingUp
<1>6. QED
  BY <1>1, <1>2, <1>5

(* A list without repetition is as long as there are entries in it.          *)
LEMMA CountedOnce ==
  ASSUME NEW S, NEW list \in Seq(S), NoneTwice(list)
  PROVE  IsFiniteSet(ElementsOf(list)) /\ Cardinality(ElementsOf(list)) = Len(list)
<1>1. Len(list) \in Nat /\ DOMAIN list = 1..Len(list) /\ 1 \in Int /\ Len(list) \in Int
  OBVIOUS
<1>2. list \in [1..Len(list) -> ElementsOf(list)]
  BY <1>1 DEF ElementsOf
<1>3. list \in Surjection(1..Len(list), ElementsOf(list))
  BY <1>1, <1>2 DEF Surjection, ElementsOf
<1>4. list \in Injection(1..Len(list), ElementsOf(list))
  BY <1>1, <1>2 DEF Injection, IsInjective, NoneTwice
<1>5. IsFiniteSet(1..Len(list)) /\ Cardinality(1..Len(list)) = Len(list)
  <2>1. IsFiniteSet(1..Len(list))
        /\ Cardinality(1..Len(list)) = IF 1 > Len(list) THEN 0 ELSE Len(list) - 1 + 1
    BY ONLY <1>1, FS_Interval
  <2>2. QED
    BY <1>1, <2>1
<1>6. QED
  BY <1>3, <1>4, <1>5, FS_Surjection

=============================================================================
