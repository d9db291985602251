-------------------------------- MODULE SequenceFacts --------------------------------
(***************************************************************************)
(* Lemmas about numbers and sequences that the proofs about several        *)
(* components rest on.                                                     *)
(*                                                                         *)
(* The conclusion of some is an operator of its own (UpTo, Computes,       *)
(* LastOfBoth, InAnyOrder): the provers match a lemma with a name, where   *)
(* they get lost among sets and sequences.                                 *)
(***************************************************************************)
EXTENDS FiniteSetTheorems, SequenceTheorems, WellFoundedInduction, TLAPS

\* The order of the naturals as a set of pairs is well founded.
LEMMA LessThan == IsWellFoundedOn({p \in Nat \X Nat : p[1] < p[2]}, Nat)
  BY NatLessThanWellFounded DEF OpToRel

\* A set of naturals that is not empty has a least element.
LEMMA LeastNat ==
  ASSUME NEW S, S \subseteq Nat, S # {}
  PROVE  \E m \in S : \A n \in S : m <= n
<1> DEFINE R == {p \in Nat \X Nat : p[1] < p[2]}
<1>1. IsWellFoundedOn(R, Nat)
  BY LessThan
<1>2. PICK m \in S : \A n \in S : ~(<<n, m>> \in R)
  <2> HIDE DEF R
  <2>1. QED BY <1>1, WFMin
<1>3. ASSUME NEW n \in S PROVE m <= n
  <2>1. m \in Nat /\ n \in Nat
    OBVIOUS
  <2>2. <<n, m>> \in R <=> n < m
    <3>1. <<n, m>> \in Nat \X Nat
      BY <2>1
    <3>2. <<n, m>>[1] = n /\ <<n, m>>[2] = m
      OBVIOUS
    <3>3. QED BY <3>1, <3>2, Zenon
  <2>3. ~(n < m)
    BY <1>2, <2>2
  <2>4. QED BY <2>1, <2>3
<1>4. QED BY <1>3

\* The members of a set of numbers that are not after i.
UpTo(T, i) == {j \in T : j <= i}

\* Of a set of numbers up to m, for each n up to their number one is the n-th.
LEMMA NthOf ==
  ASSUME NEW m \in Nat, NEW T, T \subseteq 1..m, NEW n \in 1..Cardinality(T)
  PROVE  \E i \in T : Cardinality(UpTo(T, i)) = n
<1> DEFINE Upto(i) == {j \in T : j <= i}
           S == {i \in 0..m : Cardinality(Upto(i)) >= n}
<1>0. \A j \in T : j \in Nat /\ 1 <= j /\ j <= m
  OBVIOUS
<1>1. IsFiniteSet(1..m) /\ IsFiniteSet(T)
  <2>1. 1 \in Int /\ m \in Int
    OBVIOUS
  <2>2. IsFiniteSet(1..m)
    BY <2>1, FS_Interval
  <2> QED BY <2>2, FS_Subset
<1>2. \A i : IsFiniteSet(Upto(i)) /\ Cardinality(Upto(i)) \in Nat
  <2> SUFFICES ASSUME NEW i PROVE IsFiniteSet(Upto(i)) /\ Cardinality(Upto(i)) \in Nat
    OBVIOUS
  <2>1. Upto(i) \subseteq T
    OBVIOUS
  <2> QED BY <1>1, <2>1, FS_Subset, FS_CardinalityType
<1>3. Upto(m) = T /\ Upto(0) = {}
  <2>1. \A j \in T : j <= m /\ ~(j <= 0)
    BY <1>0
  <2> QED BY <2>1
<1>4. n \in Nat /\ n >= 1 /\ Cardinality(T) \in Nat /\ Cardinality(T) >= n
  BY <1>1, FS_CardinalityType
<1>5. m \in S
  BY <1>3, <1>4
<1>6. S # {} /\ S \subseteq 0..m
  BY <1>5
<1>7. PICK i \in 0..m : Cardinality(Upto(i)) >= n /\ \A k \in S : i <= k
  <2>1. S \subseteq Nat /\ \A k \in S : k \in 0..m /\ Cardinality(Upto(k)) >= n
    BY <1>6
  <2> HIDE DEF S
  <2>2. PICK i \in S : \A k \in S : i <= k
    BY <1>6, <2>1, LeastNat
  <2> QED BY <2>1, <2>2
<1>8. Cardinality(Upto(0)) = 0
  BY <1>3, FS_EmptySet
<1>9. i \in Nat /\ i # 0 /\ Cardinality(Upto(i)) >= n
  BY <1>4, <1>7, <1>8
<1>10. i - 1 \in 0..m /\ ~(i <= i - 1)
  BY <1>7, <1>9
<1>11. ~(Cardinality(Upto(i - 1)) >= n)
  BY <1>7, <1>10
<1>14. \A j \in T : j <= i <=> j <= i - 1 \/ j = i
  BY <1>0, <1>9
<1>12. CASE i \notin T
  <2>1. Upto(i) = Upto(i - 1)
    BY <1>12, <1>14
  <2> QED BY <1>9, <1>11, <2>1
<1>13. CASE i \in T
  <2>1. Upto(i) = Upto(i - 1) \cup {i} /\ i \notin Upto(i - 1)
    BY <1>10, <1>13, <1>14
  <2> HIDE DEF Upto
  <2>2. Cardinality(Upto(i)) = Cardinality(Upto(i - 1)) + 1
    BY <1>2, <2>1, FS_AddElement
  <2>3. Cardinality(Upto(i)) = n
    BY <1>2, <1>4, <1>9, <1>11, <2>2
  <2> QED BY <1>13, <2>3 DEF Upto, UpTo
<1> QED BY <1>12, <1>13

-------------------------------------------------------------------------------
\* g has what comes of a sequence read up to each of its places.
Computes(g, T, base, step, s) ==
  /\ g \in [0..Len(s) -> T] /\ g[0] = base
  /\ \A n \in 1..Len(s) : g[n] = step[<<g[n - 1], s[n]>>]

\* A value computed from a sequence, an element after the other, exists for all of it.
LEMMA Recursion ==
  ASSUME NEW T, NEW X, NEW base \in T, NEW step \in [T \X X -> T], NEW s \in Seq(X)
  PROVE  \E g : Computes(g, T, base, step, s)
<1> DEFINE Upto(m) == \E g \in [0..m -> T] :
                        g[0] = base /\ \A n \in 1..m : g[n] = step[<<g[n - 1], s[n]>>]
           Never == {m \in 0..Len(s) : ~Upto(m)}
<1>1. Len(s) \in Nat /\ \A n \in 1..Len(s) : s[n] \in X
  OBVIOUS
<1>2. Upto(0)
  <2> DEFINE g == [n \in 0..0 |-> base]
  <2>1. g \in [0..0 -> T] /\ g[0] = base /\ \A n \in 1..0 : g[n] = step[<<g[n - 1], s[n]>>]
    OBVIOUS
  <2> QED BY <2>1
<1>3. ASSUME NEW m \in 0..Len(s), m # 0, Upto(m - 1) PROVE Upto(m)
  <2>1. PICK h \in [0..m - 1 -> T] :
          h[0] = base /\ \A n \in 1..m - 1 : h[n] = step[<<h[n - 1], s[n]>>]
    BY <1>3
  <2> DEFINE g == [n \in 0..m |-> IF n = m THEN step[<<h[m - 1], s[m]>>] ELSE h[n]]
  <2>2. m \in Nat /\ m - 1 \in 0..m - 1 /\ m \in 1..Len(s)
    BY <1>1, <1>3
  <2>3. step[<<h[m - 1], s[m]>>] \in T
    <3>1. h[m - 1] \in T /\ s[m] \in X
      BY <1>1, <2>1, <2>2
    <3> QED BY <3>1
  <2>4. g \in [0..m -> T]
    <3>1. \A n \in 0..m : n # m => n \in 0..m - 1
      BY <2>2
    <3> QED BY <2>1, <2>3, <3>1
  <2>5. g[0] = base
    BY <2>1, <2>2
  <2>6. \A n \in 1..m : g[n] = step[<<g[n - 1], s[n]>>]
    <3> SUFFICES ASSUME NEW n \in 1..m PROVE g[n] = step[<<g[n - 1], s[n]>>]
      OBVIOUS
    <3>1. n - 1 \in 0..m /\ n - 1 # m /\ n \in 0..m
      BY <2>2
    <3>2. g[n - 1] = h[n - 1]
      BY <3>1
    <3>3. CASE n = m
      BY <3>1, <3>2, <3>3
    <3>4. CASE n # m
      <4>1. n \in 1..m - 1 /\ g[n] = h[n]
        BY <2>2, <3>1, <3>4
      <4> QED BY <2>1, <3>2, <4>1
    <3> QED BY <3>3, <3>4
  <2> HIDE DEF g
  <2> QED BY <2>4, <2>5, <2>6
<1>4. Never = {}
  <2> SUFFICES ASSUME Never # {} PROVE FALSE
    OBVIOUS
  <2>1. Never \subseteq Nat
    BY <1>1
  <2> HIDE DEF Upto
  <2>2. PICK m \in Never : \A n \in Never : m <= n
    <3> HIDE DEF Never
    <3> QED BY <2>1, LeastNat
  <2>3. m \in 0..Len(s) /\ ~Upto(m) /\ m # 0
    BY <1>2, <2>2
  <2>4. m - 1 \in 0..Len(s) /\ ~(m <= m - 1)
    BY <1>1, <2>3
  <2>5. Upto(m - 1)
    BY <2>2, <2>4
  <2> QED BY <1>3, <2>3, <2>5
<1>5. Upto(Len(s))
  <2> HIDE DEF Upto
  <2> QED BY <1>1, <1>4
<1> QED BY <1>5 DEF Computes

\* The last one of the second sequence is the last of both.
LastOfBoth(a, b, c) == Append(a \o b, c) = a \o Append(b, c)

\* What is appended to the second of two sequences is appended to both.
LEMMA AppendLast ==
  ASSUME NEW C, NEW a \in Seq(C), NEW b \in Seq(C), NEW c \in C
  PROVE  LastOfBoth(a, b, c)
BY DEF LastOfBoth

\* Three sequences one after the other.
InAnyOrder(a, b, c) == (a \o b) \o c = a \o (b \o c)

\* Three sequences may be joined in any order of joins.
LEMMA Joined ==
  ASSUME NEW C, NEW a \in Seq(C), NEW b \in Seq(C), NEW c \in Seq(C)
  PROVE  InAnyOrder(a, b, c)
BY ConcatAssociative DEF InAnyOrder

\* A function on the first numbers is a sequence.
LEMMA SeqOf ==
  ASSUME NEW T, NEW n \in Nat, NEW s \in [1..n -> T]
  PROVE  s \in Seq(T)
OBVIOUS

\* A sequence with one more element: the facts the provers need of it.
LEMMA Appended ==
  ASSUME NEW S, NEW s \in Seq(S), NEW e \in S, NEW t, t = Append(s, e)
  PROVE  /\ t \in Seq(S) /\ Len(s) \in Nat /\ Len(t) = Len(s) + 1
         /\ DOMAIN s = 1..Len(s) /\ DOMAIN t = 1..Len(s) + 1
         /\ \A i \in 1..Len(s) : t[i] = s[i] /\ s[i] \in S
         /\ t[Len(s) + 1] = e
  OBVIOUS

\* A sequence without its first element.
LEMMA Popped ==
  ASSUME NEW S, NEW s \in Seq(S), s # <<>>, NEW t, t = Tail(s)
  PROVE  /\ t \in Seq(S) /\ Len(t) \in Nat /\ Len(s) = Len(t) + 1
         /\ DOMAIN t = 1..Len(t) /\ DOMAIN s = 1..Len(t) + 1
         /\ Head(s) = s[1] /\ s[1] \in S
         /\ \A i \in 1..Len(t) : t[i] = s[i + 1] /\ t[i] \in S
  OBVIOUS

\* The elements of a part.
LEMMA PartOf ==
  ASSUME NEW C, NEW w \in Seq(C), NEW a \in Nat, NEW b \in Nat, a <= b, b <= Len(w)
  PROVE  /\ SubSeq(w, a + 1, b) \in Seq(C) /\ Len(SubSeq(w, a + 1, b)) = b - a
         /\ \A i \in 1..b - a : SubSeq(w, a + 1, b)[i] = w[a + i]
<1>1. a + 1 \in Int /\ b \in Int /\ \A i \in a + 1..b : w[i] \in C
  OBVIOUS
<1>2. /\ SubSeq(w, a + 1, b) \in Seq(C)
      /\ Len(SubSeq(w, a + 1, b)) = IF a + 1 <= b THEN b - (a + 1) + 1 ELSE 0
      /\ \A i \in 1..b - (a + 1) + 1 : SubSeq(w, a + 1, b)[i] = w[a + 1 + i - 1]
  BY <1>1, SubSeqProperties
<1>3. /\ b - (a + 1) + 1 = b - a /\ (~(a + 1 <= b) => b - a = 0)
      /\ \A i \in 1..b - a : a + 1 + i - 1 = a + i
  OBVIOUS
<1> QED BY <1>2, <1>3

\* A part of a sequence is its start and the rest.
LEMMA CutInTwo ==
  ASSUME NEW C, NEW w \in Seq(C), NEW a \in Nat, NEW b \in Nat, NEW c \in Nat,
         a <= b, b <= c, c <= Len(w)
  PROVE  /\ SubSeq(w, a + 1, c) = SubSeq(w, a + 1, b) \o SubSeq(w, b + 1, c)
         /\ SubSeq(w, a + 1, b) \in Seq(C) /\ SubSeq(w, b + 1, c) \in Seq(C)
<1>1. SubSeq(w, a + 1, b) \in Seq(C) /\ SubSeq(w, b + 1, c) \in Seq(C)
  BY PartOf
<1>2. a + 1 \in 1..Len(w) + 1 /\ b \in a + 1 - 1..Len(w) /\ c \in b..Len(w)
  OBVIOUS
<1>3. SubSeq(w, a + 1, b) \o SubSeq(w, b + 1, c) = SubSeq(w, a + 1, c)
  BY <1>2, ConcatAdjacentSubSeq
<1> QED BY <1>1, <1>3

\* A part of a part.
LEMMA PartOfPart ==
  ASSUME NEW C, NEW w \in Seq(C), NEW p \in Nat, NEW q \in Nat, p <= q, q <= Len(w),
         NEW a \in Nat, NEW b \in Nat, a <= b, b <= q - p
  PROVE  SubSeq(SubSeq(w, p + 1, q), a + 1, b) = SubSeq(w, p + a + 1, p + b)
<1> DEFINE v == SubSeq(w, p + 1, q)
           l == SubSeq(v, a + 1, b)
           r == SubSeq(w, p + a + 1, p + b)
<1>1. /\ v \in Seq(C) /\ Len(v) = q - p /\ \A i \in 1..q - p : v[i] = w[p + i]
  BY PartOf
<1> HIDE DEF v
<1>2. /\ l \in Seq(C) /\ Len(l) = b - a /\ \A i \in 1..b - a : l[i] = v[a + i]
  BY <1>1, PartOf
<1>3. /\ r \in Seq(C) /\ Len(r) = b - a /\ \A i \in 1..b - a : r[i] = w[p + a + i]
  <2>1. p + a \in Nat /\ p + b \in Nat /\ p + a <= p + b /\ p + b <= Len(w) /\ p + b - (p + a) = b - a
    OBVIOUS
  <2>2. /\ r \in Seq(C) /\ Len(r) = p + b - (p + a)
        /\ \A i \in 1..p + b - (p + a) : r[i] = w[p + a + i]
    BY <2>1, PartOf
  <2> QED BY <2>1, <2>2
<1> HIDE DEF l, r
<1>4. \A i \in 1..b - a : l[i] = r[i]
  <2> SUFFICES ASSUME NEW i \in 1..b - a PROVE l[i] = r[i]
    OBVIOUS
  <2>1. a + i \in 1..q - p /\ p + (a + i) = p + a + i
    OBVIOUS
  <2> QED BY <1>1, <1>2, <1>3, <2>1
<1>5. l = r
  BY <1>2, <1>3, <1>4, SeqEqual
<1> QED BY <1>5 DEF l, r, v

\* More bytes change no part of those before.
LEMMA PartStays ==
  ASSUME NEW C, NEW w \in Seq(C), NEW x \in Seq(C), NEW a \in Nat, NEW b \in Nat,
         a <= b, b <= Len(w)
  PROVE  SubSeq(w \o x, a + 1, b) = SubSeq(w, a + 1, b)
<1> DEFINE wx == w \o x
<1>1. wx \in Seq(C) /\ Len(wx) >= Len(w) /\ \A i \in 1..Len(w) : wx[i] = w[i]
  BY ConcatProperties
<1> HIDE DEF wx
<1>2. /\ SubSeq(w, a + 1, b) \in Seq(C) /\ Len(SubSeq(w, a + 1, b)) = b - a
      /\ \A i \in 1..b - a : SubSeq(w, a + 1, b)[i] = w[a + i]
  BY PartOf
<1>3. /\ SubSeq(wx, a + 1, b) \in Seq(C) /\ Len(SubSeq(wx, a + 1, b)) = b - a
      /\ \A i \in 1..b - a : SubSeq(wx, a + 1, b)[i] = wx[a + i]
  <2>1. b <= Len(wx)
    BY <1>1
  <2> QED BY <1>1, <2>1, PartOf
<1>4. \A i \in 1..b - a : SubSeq(wx, a + 1, b)[i] = SubSeq(w, a + 1, b)[i]
  <2>1. \A i \in 1..b - a : a + i \in 1..Len(w)
    OBVIOUS
  <2> QED BY <1>1, <1>2, <1>3, <2>1
<1>5. SubSeq(wx, a + 1, b) = SubSeq(w, a + 1, b)
  BY <1>2, <1>3, <1>4, SeqEqual
<1> QED BY <1>5 DEF wx
================================================================================
