--------------------------- MODULE TableWidgetProofs ---------------------------
(***************************************************************************)
(* Proofs about TableWidget, for any alphabet, any note and any number of  *)
(* changes.                                                                *)
(*                                                                         *)
(* ShapeInv is inductive by itself: the tables are rectangular, hold       *)
(* trimmed source without a bare pipe, each widget has its table's shape   *)
(* and focus is in a cell.  It gives TypeOK and FocusFollowsRow.  ViewInv  *)
(* adds what is on screen: the document itself outside a composition, all  *)
(* of it but the focused cell during one.  It gives DomAgrees and          *)
(* TypingIsMinimal, with the one composition set aside whose end writes    *)
(* nothing although the cell never saw the document's text (EndsApart).    *)
(***************************************************************************)
EXTENDS TableWidget, SequenceTheorems, FiniteSetTheorems, WellFoundedInduction, TLAPS

(* The glyphs with a meaning are apart from one another and the rest.      *)
LEMMA GlyphsApart == Pipe # EscapedPipe /\ Pipe # Space /\ EscapedPipe # Space /\ {Pipe, EscapedPipe, Space} \cap Mark = {}
BY TableAssumption

(* A function on 1 .. n is a sequence.                                     *)
LEMMA ASeq ==
    ASSUME NEW n \in Nat, NEW S, NEW f \in [1 .. n -> S]
    PROVE  f \in Seq(S) /\ Len(f) = n /\ DOMAIN f = 1 .. n
OBVIOUS

(* What there is to know of a sequence that is taken apart.                *)
LEMMA SeqIs ==
    ASSUME NEW S, NEW s \in Seq(S)
    PROVE  /\ Len(s) \in Nat /\ DOMAIN s = 1 .. Len(s) /\ s \in [1 .. Len(s) -> S]
           /\ \A i \in DOMAIN s : s[i] \in S
           /\ s = <<>> <=> Len(s) = 0
BY LenProperties, EmptySeq, ElementOfSeq

(* Sequences that agree place by place are the same.                       *)
LEMMA SeqSame ==
    ASSUME NEW S, NEW s \in Seq(S), NEW T, NEW t \in Seq(T), Len(s) = Len(t),
           \A i \in 1 .. Len(s) : s[i] = t[i]
    PROVE  s = t
BY LenProperties

(* Two functions that agree everywhere are the same.                       *)
LEMMA SameFunction ==
    ASSUME NEW S, NEW T, NEW v \in [S -> T], NEW w \in [S -> T], \A x \in S : v[x] = w[x]
    PROVE  v = w
OBVIOUS

(* The extremes of a bounded set of numbers.                               *)
LEMMA Extremes ==
    ASSUME NEW n \in Nat, NEW T \in SUBSET (1 .. n), T # {}
    PROVE  /\ Min(T) \in T /\ \A x \in T : Min(T) <= x
           /\ Max(T) \in T /\ \A x \in T : Max(T) >= x
<1> DEFINE R == OpToRel(<, Nat)
<1>1. \A x, y \in Nat : x < y => <<x, y>> \in R
  BY DEF OpToRel
<1>2. IsWellFoundedOn(R, Nat)
  BY NatLessThanWellFounded
<1> HIDE DEF R
<1>3. ASSUME NEW U \in SUBSET Nat, U # {} PROVE \E x \in U : \A y \in U : x <= y
  <2>1. PICK x \in U : \A y \in U : ~(<<y, x>> \in R)
    BY <1>2, <1>3, WFMin
  <2>2. x \in Nat /\ \A y \in U : y \in Nat /\ ~(y < x)
    BY <2>1, <1>1
  <2> QED
    BY <2>1, <2>2
<1>4. \E x \in T : \A y \in T : x <= y
  BY <1>3
<1>5. \E x \in T : \A y \in T : x >= y
  <2> DEFINE above == {b \in Nat : \A y \in T : y <= b}
  <2>1. n \in above
    OBVIOUS
  <2>2. PICK b \in above : \A c \in above : b <= c
    <3> HIDE DEF above
    <3>1. above \in SUBSET Nat
      BY DEF above
    <3> QED
      BY <2>1, <3>1, <1>3
  <2>3. SUFFICES ASSUME b \notin T PROVE FALSE
    BY <2>2
  <2>4. PICK y \in T : TRUE
    OBVIOUS
  <2>5. b >= 1 /\ \A z \in T : z <= b - 1
    BY <2>2, <2>3, <2>4
  <2>6. b - 1 \in above
    BY <2>2, <2>5
  <2> QED
    BY <2>2, <2>6
<1> QED
  BY <1>4, <1>5 DEF Min, Max

(* Max of the sets that a row count and a paste take it of.                *)
LEMMA MaxOfOne == ASSUME NEW n \in Nat PROVE Max({n}) = n
BY DEF Max

LEMMA MaxOfTwo == ASSUME NEW m \in Nat, NEW n \in Nat PROVE Max({m, n}) \in Nat /\ Max({m, n}) >= m /\ Max({m, n}) >= n
<1> DEFINE S == {m, n}
<1>1. \E x \in S : \A y \in S : x >= y
  OBVIOUS
<1>2. Max(S) \in S /\ \A y \in S : Max(S) >= y
  BY <1>1 DEF Max
<1> QED
  BY <1>2

(* ------------------------------ what is picked ------------------------- *)

(* How many numbers there are up to n.                                     *)
LEMMA UpTo == ASSUME NEW n \in Nat PROVE IsFiniteSet(1 .. n) /\ Cardinality(1 .. n) = n
<1>1. IsFiniteSet(1 .. n) /\ Cardinality(1 .. n) = IF 1 > n THEN 0 ELSE n - 1 + 1
  BY FS_Interval
<1> QED
  BY <1>1

(* A sequence without repetition has as many entries as values.            *)
LEMMA CountedOnce ==
    ASSUME NEW S, NEW s \in Seq(S), IsInjective(s)
    PROVE  Cardinality(ToSet(s)) = Len(s)
<1>1. Len(s) \in Nat /\ DOMAIN s = 1 .. Len(s) /\ s \in [1 .. Len(s) -> S]
  BY LenProperties
<1>2. IsFiniteSet(1 .. Len(s)) /\ Cardinality(1 .. Len(s)) = Len(s)
  BY <1>1, UpTo
<1>3. s \in [1 .. Len(s) -> ToSet(s)]
  BY <1>1 DEF ToSet
<1>4. s \in Injection(1 .. Len(s), ToSet(s))
  BY <1>3 DEF Injection
<1>5. s \in Surjection(1 .. Len(s), ToSet(s))
  BY <1>1, <1>3 DEF Surjection, ToSet
<1>6. ExistsBijection(1 .. Len(s), ToSet(s))
  BY <1>4, <1>5 DEF ExistsBijection, Bijection
<1> QED
  BY <1>2, <1>6, FS_Bijection

(* Where in their order the members of a set of numbers stand: each number *)
(* up to how many they are is the rank of one of them.                     *)
Rank(J) == [i \in J |-> Cardinality({j \in J : j < i}) + 1]

LEMMA Ranked ==
    ASSUME NEW n \in Nat, NEW J \in SUBSET (1 .. n)
    PROVE  /\ IsFiniteSet(J) /\ Cardinality(J) \in Nat
           /\ Rank(J) \in [J -> 1 .. Cardinality(J)]
           /\ \A i, j \in J : i < j => Rank(J)[i] < Rank(J)[j]
           /\ \A k \in 1 .. Cardinality(J) : \E i \in J : Rank(J)[i] = k
<1> DEFINE Below(i) == {j \in J : j < i}
           m == Cardinality(J)
           rank == Rank(J)
<1>1. IsFiniteSet(J) /\ m \in Nat
  BY UpTo, FS_Subset, FS_CardinalityType
<1>2. ASSUME NEW i \in J
      PROVE  IsFiniteSet(Below(i)) /\ Cardinality(Below(i)) \in Nat
             /\ Cardinality(Below(i) \cup {i}) = Cardinality(Below(i)) + 1
  <2>1. IsFiniteSet(Below(i))
    <3>1. Below(i) \in SUBSET J
      OBVIOUS
    <3> QED
      BY <1>1, <3>1, FS_Subset
  <2>2. Cardinality(Below(i)) \in Nat
    BY <2>1, FS_CardinalityType
  <2>3. i \notin Below(i)
    OBVIOUS
  <2> HIDE DEF Below
  <2>4. Cardinality(Below(i) \cup {i}) = Cardinality(Below(i)) + 1
    BY <2>1, <2>3, FS_AddElement
  <2> QED
    BY <2>1, <2>2, <2>4
<1>3. ASSUME NEW i \in J PROVE rank[i] = Cardinality(Below(i)) + 1 /\ rank[i] \in 1 .. m
  <2>1. rank[i] = Cardinality(Below(i)) + 1
    BY DEF Rank
  <2>2. Below(i) \cup {i} \in SUBSET J
    OBVIOUS
  <2> HIDE DEF Below, m, rank
  <2>3. Cardinality(Below(i) \cup {i}) <= m
    BY <1>1, <2>2, FS_Subset DEF m
  <2> QED
    BY <1>1, <1>2, <2>1, <2>3
<1>4. ASSUME NEW i \in J, NEW j \in J, i < j PROVE rank[i] < rank[j]
  <2>0. \A k \in J : k \in Nat
    OBVIOUS
  <2>1. Below(i) \cup {i} \in SUBSET Below(j)
    <3>1. ASSUME NEW k \in Below(i) \cup {i} PROVE k \in Below(j)
      <4>1. k \in J /\ (k < i \/ k = i)
        OBVIOUS
      <4>2. k \in Nat /\ i \in Nat /\ j \in Nat
        BY <2>0, <4>1
      <4>3. k < j
        BY <1>4, <4>1, <4>2
      <4> QED
        BY <4>1, <4>3
    <3> HIDE DEF Below
    <3> QED
      BY <3>1
  <2> HIDE DEF Below, rank
  <2>2. Cardinality(Below(i) \cup {i}) <= Cardinality(Below(j))
    BY <1>2, <2>1, FS_Subset
  <2>3. rank[i] = Cardinality(Below(i)) + 1 /\ rank[j] = Cardinality(Below(j)) + 1
    BY <1>3
  <2>4. Cardinality(Below(i)) \in Nat /\ Cardinality(Below(j)) \in Nat
    BY <1>2
  <2>5. Cardinality(Below(i)) + 1 <= Cardinality(Below(j))
    BY <1>2, <2>2
  <2> QED
    BY <2>3, <2>4, <2>5
<1>5. rank \in [J -> 1 .. m]
  <2>1. rank = [i \in J |-> rank[i]]
    BY DEF Rank
  <2> HIDE DEF rank, m
  <2> QED
    BY <2>1, <1>3
<1> HIDE DEF rank
<1>6. rank \in Injection(J, 1 .. m)
  <2>1. ASSUME NEW i \in J, NEW j \in J, rank[i] = rank[j] PROVE i = j
    <3>1. rank[i] \in 1 .. m /\ rank[j] \in 1 .. m
      BY <1>3
    <3>2. i \in Nat /\ j \in Nat
      OBVIOUS
    <3>3. rank[i] \in Nat /\ rank[j] \in Nat
      <4> HIDE DEF m
      <4> QED
        BY <1>1, <3>1
    <3> QED
      BY <1>4, <2>1, <3>2, <3>3
  <2> QED
    BY <1>5, <2>1 DEF Injection, IsInjective
<1>7. IsFiniteSet(1 .. m) /\ Cardinality(1 .. m) = m
  BY <1>1, UpTo
<1>8. rank \in Surjection(J, 1 .. m)
  BY <1>6, <1>7, FS_Injection
<1> QED
  BY <1>1, <1>4, <1>5, <1>8 DEF Surjection, rank

(* pos tells where the entries of t stand in s: in order, at all of the    *)
(* positions of J.                                                         *)
Places(pos, t, s, J) ==
    /\ pos \in [1 .. Len(t) -> J]
    /\ \A k, l \in 1 .. Len(t) : k < l => pos[k] < pos[l]
    /\ \A i \in J : \E k \in 1 .. Len(t) : pos[k] = i
    /\ \A k \in 1 .. Len(t) : t[k] = s[pos[k]]

(* What is picked of s: its entries at the positions of I that it has.     *)
LEMMA PickedRight ==
    ASSUME NEW S, NEW s \in Seq(S), NEW I
    PROVE  Picked(s, I) \in Seq(S) /\ \E pos : Places(pos, Picked(s, I), s, I \cap 1 .. Len(s))
<1> DEFINE J == I \cap 1 .. Len(s)
           m == Cardinality(J)
           Nth(k) == CHOOSE i \in J : Cardinality({j \in J : j < i}) = k - 1
           pos == [k \in 1 .. m |-> Nth(k)]
           t == Picked(s, I)
<1>1. Len(s) \in Nat /\ DOMAIN s = 1 .. Len(s) /\ \A i \in 1 .. Len(s) : s[i] \in S
  BY LenProperties, ElementOfSeq
<1>2. t = [k \in 1 .. m |-> s[Nth(k)]]
  BY <1>1 DEF Picked
<1>3. J \in SUBSET (1 .. Len(s))
  OBVIOUS
<1> HIDE DEF J
<1>4. /\ m \in Nat /\ Rank(J) \in [J -> 1 .. m]
      /\ \A i, j \in J : i < j => Rank(J)[i] < Rank(J)[j]
      /\ \A k \in 1 .. m : \E i \in J : Rank(J)[i] = k
      /\ \A i \in J : Cardinality({j \in J : j < i}) \in Nat
  <2>1. \A i \in J : Cardinality({j \in J : j < i}) \in Nat
    <3>1. ASSUME NEW i \in J PROVE Cardinality({j \in J : j < i}) \in Nat
      <4>1. {j \in J : j < i} \in SUBSET J
        OBVIOUS
      <4> QED
        BY <1>1, <1>3, <4>1, Ranked, FS_Subset, FS_CardinalityType
    <3> QED
      BY <3>1
  <2> QED
    BY <1>1, <1>3, <2>1, Ranked
<1>5. ASSUME NEW k \in 1 .. m PROVE Nth(k) \in J /\ Rank(J)[Nth(k)] = k
  <2>1. PICK i \in J : Rank(J)[i] = k
    BY <1>4
  <2>2. Cardinality({j \in J : j < i}) + 1 = k /\ Cardinality({j \in J : j < i}) \in Nat
    BY <1>4, <2>1 DEF Rank
  <2>3. Cardinality({j \in J : j < i}) = k - 1
    BY <2>2
  <2>4. Nth(k) \in J /\ Cardinality({j \in J : j < Nth(k)}) = k - 1
    BY <2>3
  <2> HIDE DEF Nth
  <2>5. Rank(J)[Nth(k)] = Cardinality({j \in J : j < Nth(k)}) + 1
    BY <2>4 DEF Rank
  <2>6. (k - 1) + 1 = k
    OBVIOUS
  <2> QED
    BY <2>4, <2>5, <2>6
<1> HIDE DEF m, Nth, t
<1>6. t \in [1 .. m -> S]
  <2>1. \A k \in 1 .. m : s[Nth(k)] \in S
    BY <1>1, <1>3, <1>5
  <2> QED
    BY <1>2, <2>1
<1>7. t \in Seq(S) /\ Len(t) = m
  BY <1>4, <1>6
<1>8. Places(pos, t, s, J)
  <2>1. pos \in [1 .. m -> J] /\ \A k \in 1 .. m : pos[k] = Nth(k)
    BY <1>5
  <2>2. \A k \in 1 .. m : t[k] = s[pos[k]]
    BY <1>2, <2>1
  <2> HIDE DEF pos
  <2>3. ASSUME NEW k \in 1 .. m, NEW l \in 1 .. m, k < l PROVE pos[k] < pos[l]
    <3>1. pos[k] \in J /\ pos[l] \in J /\ Rank(J)[pos[k]] = k /\ Rank(J)[pos[l]] = l
      BY <1>5, <2>1
    <3>2. \A i \in J : i \in Nat
      BY <1>1, <1>3
    <3>3. k \in Nat /\ l \in Nat /\ ~(l < k) /\ k # l
      BY <1>4, <2>3
    <3>4. ~(pos[l] < pos[k]) /\ pos[k] # pos[l]
      BY <1>4, <3>1, <3>3
    <3> QED
      BY <3>1, <3>2, <3>4
  <2>4. ASSUME NEW i \in J PROVE \E k \in 1 .. m : pos[k] = i
    <3> DEFINE k == Rank(J)[i]
    <3>1. k \in 1 .. m
      BY <1>4
    <3>2. pos[k] \in J /\ Rank(J)[pos[k]] = k
      BY <1>5, <2>1, <3>1
    <3>3. \A j \in J : j \in Nat
      BY <1>1, <1>3
    <3>4. ~(Rank(J)[pos[k]] < k) /\ ~(k < Rank(J)[pos[k]])
      BY <1>4, <3>1, <3>2
    <3>5. ~(pos[k] < i) /\ ~(i < pos[k])
      BY <1>4, <3>2, <3>4
    <3> QED
      BY <3>1, <3>2, <3>3, <3>5
  <2> QED
    BY <1>7, <2>1, <2>2, <2>3, <2>4 DEF Places
<1> QED
  BY <1>7, <1>8 DEF t, J

(* Nothing else is picked than what stands at those positions in order.    *)
LEMMA PickedIs ==
    ASSUME NEW S, NEW s \in Seq(S), NEW I, NEW t \in Seq(S), NEW pos, Places(pos, t, s, I \cap 1 .. Len(s))
    PROVE  Picked(s, I) = t
<1> DEFINE J == I \cap 1 .. Len(s)
           n == Len(t)
           Nth(k) == CHOOSE i \in J : Cardinality({j \in J : j < i}) = k - 1
<1>1. n \in Nat /\ DOMAIN s = 1 .. Len(s) /\ t = [k \in 1 .. n |-> t[k]] /\ Len(s) \in Nat
  BY SeqIs
<1>2. /\ pos \in [1 .. n -> J]
      /\ \A k, l \in 1 .. n : k < l => pos[k] < pos[l]
      /\ \A i \in J : \E k \in 1 .. n : pos[k] = i
      /\ \A k \in 1 .. n : t[k] = s[pos[k]]
  BY DEF Places
<1>3. J \in SUBSET Nat
  OBVIOUS
<1>4. Picked(s, I) = [k \in 1 .. Cardinality(J) |-> s[Nth(k)]]
  BY <1>1 DEF Picked
<1> HIDE DEF J, n
<1>5. \A k, l \in 1 .. n : pos[k] < pos[l] <=> k < l
  <2>1. ASSUME NEW k \in 1 .. n, NEW l \in 1 .. n PROVE pos[k] < pos[l] <=> k < l
    <3>1. pos[k] \in Nat /\ pos[l] \in Nat /\ k \in Nat /\ l \in Nat
      BY <1>1, <1>2, <1>3
    <3>2. (k < l => pos[k] < pos[l]) /\ (l < k => pos[l] < pos[k])
      BY <1>2
    <3> QED
      BY <3>1, <3>2
  <2> QED
    BY <2>1
<1>6. Cardinality(J) = n
  <2>1. ASSUME NEW k \in 1 .. n, NEW l \in 1 .. n, pos[k] = pos[l] PROVE k = l
    <3>1. pos[k] \in Nat /\ k \in Nat /\ l \in Nat
      BY <1>1, <1>2, <1>3
    <3>2. ~(k < l) /\ ~(l < k)
      BY <1>2, <2>1, <3>1
    <3> QED
      BY <3>1, <3>2
  <2>2. pos \in Bijection(1 .. n, J)
    BY <1>2, <2>1 DEF Bijection, Injection, Surjection, IsInjective
  <2> QED
    BY <1>1, <2>2, UpTo, FS_Bijection DEF ExistsBijection
<1>7. ASSUME NEW k \in 1 .. n PROVE Cardinality({j \in J : j < pos[k]}) = k - 1
  <2> DEFINE m == k - 1
             B == {j \in J : j < pos[k]}
             low == [l \in 1 .. m |-> pos[l]]
  <2>1. m \in Nat /\ k \in Nat /\ \A l \in 1 .. m : l \in 1 .. n /\ l < k
    BY <1>1
  <2>2. \A l \in 1 .. n : l < k => l \in 1 .. m
    BY <1>1
  <2> HIDE DEF m
  <2>3. ASSUME NEW l \in 1 .. m PROVE low[l] \in B
    BY <1>2, <1>5, <2>1
  <2>4. ASSUME NEW l \in 1 .. m, NEW o \in 1 .. m, low[l] = low[o] PROVE l = o
    <3>0. low[l] = pos[l] /\ low[o] = pos[o]
      OBVIOUS
    <3> HIDE DEF low
    <3>1. pos[l] = pos[o]
      BY <2>4, <3>0
    <3>2. l \in 1 .. n /\ o \in 1 .. n
      BY <2>1
    <3>3. l \in Nat /\ o \in Nat
      BY <1>1, <3>2
    <3>4. pos[l] \in Nat
      BY <1>2, <1>3, <3>2
    <3>5. ~(l < o) /\ ~(o < l)
      BY <1>5, <3>1, <3>2, <3>4
    <3> QED
      BY <3>3, <3>5
  <2>5. ASSUME NEW j \in B PROVE \E l \in 1 .. m : low[l] = j
    <3>1. PICK l \in 1 .. n : pos[l] = j
      BY <1>2
    <3>2. l \in 1 .. m
      BY <1>5, <2>2, <3>1
    <3> QED
      BY <3>1, <3>2
  <2>6. low \in Bijection(1 .. m, B)
    <3>1. low \in [1 .. m -> B]
      BY <2>3
    <3> HIDE DEF low, B
    <3> QED
      BY <2>4, <2>5, <3>1 DEF Bijection, Injection, Surjection, IsInjective
  <2> HIDE DEF B
  <2>7. Cardinality(B) = m
    BY <2>1, <2>6, UpTo, FS_Bijection DEF ExistsBijection
  <2> QED
    BY <2>7 DEF B, m
<1>8. ASSUME NEW k \in 1 .. n PROVE Nth(k) = pos[k]
  <2>1. ASSUME NEW i \in J, Cardinality({j \in J : j < i}) = k - 1 PROVE i = pos[k]
    <3>1. PICK l \in 1 .. n : pos[l] = i
      BY <1>2
    <3>2. l - 1 = k - 1
      BY <1>7, <2>1, <3>1
    <3>3. l = k
      BY <1>1, <3>2
    <3> QED
      BY <3>1, <3>3
  <2>2. pos[k] \in J /\ Cardinality({j \in J : j < pos[k]}) = k - 1
    BY <1>2, <1>7
  <2> QED
    BY <2>1, <2>2
<1> HIDE DEF Nth
<1>9. Picked(s, I) = [k \in 1 .. n |-> t[k]]
  BY <1>2, <1>4, <1>6, <1>8
<1> QED
  BY <1>1, <1>9

(* ------------------------------ the text of a cell --------------------- *)

(* Trimmed text neither starts nor ends with a space.                      *)
LEMMA TrimmedEnds ==
    ASSUME NEW G, NEW s \in Seq(G)
    PROVE  Trim(s) = s <=> s = Blank \/ (s[1] # Space /\ s[Len(s)] # Space)
<1> DEFINE inked == {i \in DOMAIN s : s[i] # Space}
<1>1. Len(s) \in Nat /\ DOMAIN s = 1 .. Len(s) /\ (s = Blank <=> Len(s) = 0)
  BY SeqIs DEF Blank
<1>2. CASE inked = {}
  <2>1. Trim(s) = Blank
    BY <1>2 DEF Trim
  <2>2. s # Blank => s[1] = Space
    BY <1>1, <1>2
  <2> QED
    BY <2>1, <2>2
<1>3. CASE inked # {}
  <2>1. Trim(s) = SubSeq(s, Min(inked), Max(inked))
    BY <1>3 DEF Trim
  <2>2. /\ Min(inked) \in inked /\ \A x \in inked : Min(inked) <= x
        /\ Max(inked) \in inked /\ \A x \in inked : Max(inked) >= x
    BY <1>1, <1>3, Extremes
  <2> DEFINE lo == Min(inked)
             hi == Max(inked)
  <2>3. lo \in 1 .. Len(s) /\ hi \in 1 .. Len(s) /\ lo <= hi /\ s[lo] # Space /\ s[hi] # Space
    BY <2>2, <1>1
  <2> HIDE DEF lo, hi
  <2>4. Trim(s) = SubSeq(s, lo, hi) /\ Len(Trim(s)) = hi - lo + 1
    <3>1. \A i \in lo .. hi : s[i] \in G
      BY <2>3, <1>1, SeqIs
    <3>2. Trim(s) = SubSeq(s, lo, hi)
      BY <2>1 DEF lo, hi
    <3> QED
      BY <2>3, <3>1, <3>2, SubSeqProperties
  <2>8. lo \in Int /\ hi \in Int /\ Len(s) \in Int /\ 1 <= lo /\ lo <= hi /\ hi <= Len(s)
    BY <2>3, <1>1
  <2>5. ASSUME Trim(s) = s PROVE s[1] # Space /\ s[Len(s)] # Space
    <3>1. hi - lo + 1 = Len(s)
      BY <2>4, <2>5
    <3>2. lo = 1 /\ hi = Len(s)
      BY <3>1, <2>8
    <3> QED
      BY <3>2, <2>3
  <2>6. ASSUME s[1] # Space, s[Len(s)] # Space PROVE Trim(s) = s
    <3>0. Len(s) >= 1 /\ 1 \in 1 .. Len(s) /\ Len(s) \in 1 .. Len(s)
      BY <2>3, <1>1
    <3>1. 1 \in inked /\ Len(s) \in inked
      BY <2>6, <3>0, <1>1
    <3>2. lo <= 1 /\ hi >= Len(s)
      BY <3>1, <2>2 DEF lo, hi
    <3>3. lo = 1 /\ hi = Len(s)
      BY <3>2, <2>8
    <3> QED
      BY <3>3, <2>4, SubSeqFull
  <2>7. s # Blank
    BY <1>3, <1>1
  <2> QED
    BY <2>5, <2>6, <2>7
<1> QED
  BY <1>2, <1>3

(* An empty cell is a text, and so is whatever trim leaves.                *)
LEMMA BlankIsText == ASSUME NEW G PROVE Blank \in Text(G)
<1>1. Blank \in Seq(G)
  BY EmptySeq DEF Blank
<1> QED
  BY <1>1, TrimmedEnds DEF Text

LEMMA TrimIsText == ASSUME NEW G, NEW s \in Seq(G) PROVE Trim(s) \in Text(G)
<1> DEFINE inked == {i \in DOMAIN s : s[i] # Space}
<1>1. Len(s) \in Nat /\ DOMAIN s = 1 .. Len(s) /\ \A i \in 1 .. Len(s) : s[i] \in G
  BY SeqIs
<1>2. CASE inked = {}
  BY <1>2, BlankIsText DEF Trim
<1>3. CASE inked # {}
  <2> DEFINE lo == Min(inked)
             hi == Max(inked)
  <2>1. Trim(s) = SubSeq(s, lo, hi)
    BY <1>3 DEF Trim
  <2>2. lo \in inked /\ hi \in inked /\ \A x \in inked : lo <= x
    BY <1>1, <1>3, Extremes
  <2>3. lo \in 1 .. Len(s) /\ hi \in 1 .. Len(s) /\ lo <= hi /\ s[lo] # Space /\ s[hi] # Space
    BY <2>2, <1>1
  <2> HIDE DEF lo, hi
  <2>4. /\ Trim(s) \in Seq(G) /\ Len(Trim(s)) = hi - lo + 1
        /\ \A i \in 1 .. hi - lo + 1 : Trim(s)[i] = s[lo + i - 1]
    <3>1. \A i \in lo .. hi : s[i] \in G
      BY <2>3, <1>1
    <3> QED
      BY <2>1, <2>3, <3>1, SubSeqProperties
  <2>5. Trim(s)[1] = s[lo] /\ Trim(s)[Len(Trim(s))] = s[hi]
    BY <2>4, <2>3
  <2> QED
    BY <2>3, <2>4, <2>5, TrimmedEnds DEF Text
<1> QED
  BY <1>2, <1>3

(* A key that is no space, after trimmed text.                             *)
LEMMA AppendedText ==
    ASSUME NEW G, NEW s \in Text(G), NEW key \in G, key # Space
    PROVE  Append(s, key) \in Text(G)
<1>1. s \in Seq(G) /\ (s = Blank \/ s[1] # Space)
  BY TrimmedEnds DEF Text
<1>2. Len(s) \in Nat /\ (s = Blank <=> Len(s) = 0)
  BY <1>1, SeqIs DEF Blank
<1> DEFINE t == Append(s, key)
<1>3. /\ t \in Seq(G) /\ Len(t) = Len(s) + 1
      /\ \A i \in 1 .. Len(s) : t[i] = s[i]
      /\ t[Len(s) + 1] = key
  BY <1>1, AppendProperties
<1> HIDE DEF t
<1>4. t[1] # Space /\ t[Len(t)] # Space
  BY <1>1, <1>2, <1>3
<1> QED
  BY <1>3, <1>4, TrimmedEnds DEF Text, t

(* A text without its last glyph.                                          *)
LEMMA FrontIsSeq == ASSUME NEW G, NEW s \in Seq(G), s # <<>> PROVE Front(s) \in Seq(G) /\ Len(Front(s)) = Len(s) - 1
<1>1. Len(s) \in Nat /\ Len(s) # 0 /\ \A i \in 1 .. Len(s) : s[i] \in G
  BY SeqIs
<1>2. \A i \in 1 .. Len(s) - 1 : s[i] \in G
  BY <1>1
<1>3. Len(s) - 1 \in Int /\ 1 <= Len(s)
  BY <1>1
<1> DEFINE n == Len(s) - 1
<1>4. SubSeq(s, 1, n) \in Seq(G) /\ Len(SubSeq(s, 1, n)) = IF 1 <= n THEN n - 1 + 1 ELSE 0
  <2> HIDE DEF n
  <2>1. n \in Int /\ \A i \in 1 .. n : s[i] \in G
    BY <1>2, <1>3 DEF n
  <2> QED
    BY <2>1, SubSeqProperties
<1>5. Front(s) = SubSeq(s, 1, n)
  BY DEF Front
<1>6. n \in Nat /\ n = Len(s) - 1
  BY <1>1
<1> HIDE DEF n
<1>7. (IF 1 <= n THEN n - 1 + 1 ELSE 0) = n
  BY <1>6
<1> QED
  BY <1>4, <1>5, <1>6, <1>7

Written(g) == IF g = Pipe THEN EscapedPipe ELSE g
Read(g) == IF g = EscapedPipe THEN Pipe ELSE g

(* escapeCell and unescapeCell go glyph by glyph.                          *)
LEMMA EscapeIsSeq ==
    ASSUME NEW V, NEW G, \A g \in V : Written(g) \in G, NEW text \in Seq(V)
    PROVE  Escape(text) \in Seq(G) /\ Len(Escape(text)) = Len(text)
           /\ \A i \in 1 .. Len(text) : Escape(text)[i] = Written(text[i])
<1>1. Len(text) \in Nat /\ DOMAIN text = 1 .. Len(text) /\ \A i \in 1 .. Len(text) : text[i] \in V
  BY SeqIs
<1>2. Escape(text) = [i \in 1 .. Len(text) |-> Written(text[i])]
  BY <1>1 DEF Escape, Written
<1>3. [i \in 1 .. Len(text) |-> Written(text[i])] \in [1 .. Len(text) -> G]
  BY <1>1
<1> QED
  BY <1>1, <1>2, <1>3, ASeq

LEMMA UnescapeIsSeq ==
    ASSUME NEW V, NEW G, \A g \in G : Read(g) \in V, NEW src \in Seq(G)
    PROVE  Unescape(src) \in Seq(V) /\ Len(Unescape(src)) = Len(src)
           /\ \A i \in 1 .. Len(src) : Unescape(src)[i] = Read(src[i])
<1>1. Len(src) \in Nat /\ DOMAIN src = 1 .. Len(src) /\ \A i \in 1 .. Len(src) : src[i] \in G
  BY SeqIs
<1>2. Unescape(src) = [i \in 1 .. Len(src) |-> Read(src[i])]
  BY <1>1 DEF Unescape, Read
<1>3. [i \in 1 .. Len(src) |-> Read(src[i])] \in [1 .. Len(src) -> V]
  BY <1>1
<1> QED
  BY <1>1, <1>2, <1>3, ASeq

(* Text on screen has no escaped pipe and source no bare one, so each is   *)
(* what the other reads or writes.                                         *)
LEMMA ReadBack ==
    ASSUME NEW text \in Seq(Glyph \ {EscapedPipe}) PROVE Unescape(Escape(text)) = text
<1> DEFINE V == Glyph \ {EscapedPipe}
           G == {Written(g) : g \in V}
<1>1. \A g \in V : Written(g) \in G /\ Read(Written(g)) = g
  BY GlyphsApart DEF Written, Read
<1>2. \A h \in G : Read(h) \in V
  BY <1>1
<1> HIDE DEF G
<1>3. /\ Escape(text) \in Seq(G) /\ Len(Escape(text)) = Len(text)
      /\ \A i \in 1 .. Len(text) : Escape(text)[i] = Written(text[i])
  BY <1>1, EscapeIsSeq
<1>4. /\ Unescape(Escape(text)) \in Seq(V) /\ Len(Unescape(Escape(text))) = Len(text)
      /\ \A i \in 1 .. Len(text) : Unescape(Escape(text))[i] = Read(Escape(text)[i])
  BY <1>2, <1>3, UnescapeIsSeq
<1>5. \A i \in 1 .. Len(text) : text[i] \in V
  BY SeqIs
<1>6. \A i \in 1 .. Len(text) : Unescape(Escape(text))[i] = text[i]
  BY <1>1, <1>3, <1>4, <1>5
<1> QED
  BY <1>4, <1>6, SeqSame

(* And source that is shown and written is the same source.                *)
LEMMA WrittenBack ==
    ASSUME NEW src \in Seq(Glyph \ {Pipe}) PROVE Escape(Unescape(src)) = src
<1> DEFINE G == Glyph \ {Pipe}
           V == {Read(g) : g \in G}
<1>1. \A g \in G : Read(g) \in V /\ Written(Read(g)) = g
  BY GlyphsApart DEF Written, Read
<1>2. \A h \in V : Written(h) \in G
  BY <1>1
<1> HIDE DEF V
<1>3. /\ Unescape(src) \in Seq(V) /\ Len(Unescape(src)) = Len(src)
      /\ \A i \in 1 .. Len(src) : Unescape(src)[i] = Read(src[i])
  BY <1>1, UnescapeIsSeq
<1>4. /\ Escape(Unescape(src)) \in Seq(G) /\ Len(Escape(Unescape(src))) = Len(src)
      /\ \A i \in 1 .. Len(src) : Escape(Unescape(src))[i] = Written(Unescape(src)[i])
  BY <1>2, <1>3, EscapeIsSeq
<1>5. \A i \in 1 .. Len(src) : src[i] \in G
  BY SeqIs
<1>6. \A i \in 1 .. Len(src) : Escape(Unescape(src))[i] = src[i]
  BY <1>1, <1>3, <1>4, <1>5
<1> QED
  BY <1>4, <1>6, SeqSame

(* Source without a bare pipe parses to one cell.                          *)
LEMMA OneCell ==
    ASSUME NEW G, Pipe \notin G, NEW src \in Seq(G)
    PROVE  SplitCells(src) = <<Trim(src)>>
<1> DEFINE bare == {i \in DOMAIN src : src[i] = Pipe}
           pipes == Picked([i \in DOMAIN src |-> i], bare)
           ends == <<0>> \o pipes \o <<Len(src) + 1>>
<1>0. Len(src) \in Nat
  BY SeqIs
<1>1. bare = {}
  BY SeqIs
<1>2. pipes = <<>>
  <2>1. Cardinality(bare) = 0
    BY <1>1, FS_EmptySet
  <2> HIDE DEF bare
  <2>2. pipes = [k \in 1 .. 0 |-> [i \in DOMAIN src |-> i][CHOOSE i \in {} : Cardinality({j \in {} : j < i}) = k - 1]]
    BY <1>1, <2>1 DEF Picked
  <2>3. 1 .. 0 = {}
    OBVIOUS
  <2> HIDE DEF pipes
  <2>4. pipes \in [1 .. 0 -> {}]
    BY <2>2, <2>3
  <2> QED
    BY <2>4, ASeq, EmptySeq
<1>3. SplitCells(src) = [k \in 1 .. Len(pipes) + 1 |-> Trim(SubSeq(src, ends[k] + 1, ends[k + 1] - 1))]
  BY DEF SplitCells
<1>4. Len(pipes) + 1 = 1 /\ ends[1] = 0 /\ ends[2] = Len(src) + 1
  <2> DEFINE n == Len(src) + 1
  <2>0. n \in Nat
    BY <1>0
  <2> HIDE DEF n
  <2>1. <<0>> \in Seq(Nat) /\ <<0>> \o <<>> = <<0>>
    BY ConcatEmptySeq
  <2>2. <<n>> \in Seq(Nat) /\ Len(<<n>>) = 1 /\ Len(<<0>>) = 1 /\ <<n>>[1] = n /\ <<0>>[1] = 0
    BY <2>0
  <2>3. \A i \in 1 .. 1 + 1 : (<<0>> \o <<n>>)[i] = IF i <= 1 THEN <<0>>[i] ELSE <<n>>[i - 1]
    BY <2>1, <2>2, ConcatProperties
  <2>4. ends = <<0>> \o <<n>>
    BY <1>2, <2>1 DEF n
  <2> HIDE DEF ends
  <2>5. ends[1] = 0 /\ ends[2] = n
    BY <2>2, <2>3, <2>4
  <2>6. Len(pipes) = 0
    BY <1>2, EmptySeq
  <2> QED
    BY <2>5, <2>6 DEF n
<1> HIDE DEF pipes, ends
<1>5. SplitCells(src) = [k \in 1 .. 1 |-> Trim(SubSeq(src, ends[k] + 1, ends[k + 1] - 1))]
  BY <1>3, <1>4
<1>6. ends[1] + 1 = 1 /\ ends[2] - 1 = Len(src)
  BY <1>4, <1>0
<1>7. Trim(SubSeq(src, ends[1] + 1, ends[2] - 1)) = Trim(src)
  BY <1>6, SubSeqFull
<1>8. [k \in 1 .. 1 |-> Trim(SubSeq(src, ends[k] + 1, ends[k + 1] - 1))] = <<Trim(src)>>
  BY <1>7
<1> QED
  BY <1>5, <1>8

(* One cell of a row is replaced.                                          *)
Splice(row, c, x) == SubSeq(row, 1, c - 1) \o <<x>> \o SubSeq(row, c + 1, Len(row))
Overwrite(row, c, x) == [row EXCEPT ![c] = x]

(* The two ways to say that one cell of a row is another.                  *)
LEMMA Spliced ==
    ASSUME NEW S, NEW row \in Seq(S), NEW c \in 1 .. Len(row), NEW x \in S
    PROVE  Splice(row, c, x) = Overwrite(row, c, x)
<1> DEFINE n == Len(row)
           a == SubSeq(row, 1, c - 1)
           b == SubSeq(row, c + 1, Len(row))
           ax == a \o <<x>>
           axb == ax \o b
           new == [row EXCEPT ![c] = x]
<1>1. n \in Nat /\ c \in Nat /\ 1 <= c /\ c <= n /\ \A i \in 1 .. n : row[i] \in S
  BY SeqIs
<1>2. a \in Seq(S) /\ Len(a) = c - 1 /\ \A i \in 1 .. c - 1 : a[i] = row[i]
  <2>1. c - 1 \in Int /\ \A i \in 1 .. c - 1 : row[i] \in S
    BY <1>1
  <2>2. /\ SubSeq(row, 1, c - 1) \in Seq(S)
        /\ Len(SubSeq(row, 1, c - 1)) = IF 1 <= c - 1 THEN c - 1 - 1 + 1 ELSE 0
        /\ \A i \in 1 .. c - 1 - 1 + 1 : SubSeq(row, 1, c - 1)[i] = row[1 + i - 1]
    BY <2>1, SubSeqProperties
  <2> QED
    BY <2>2, <1>1
<1>3. b \in Seq(S) /\ Len(b) = n - c /\ \A i \in 1 .. n - c : b[i] = row[c + i]
  <2>1. c + 1 \in Int /\ \A i \in c + 1 .. n : row[i] \in S
    BY <1>1
  <2>2. /\ b \in Seq(S) /\ Len(b) = IF c + 1 <= n THEN n - (c + 1) + 1 ELSE 0
        /\ \A i \in 1 .. n - (c + 1) + 1 : b[i] = row[(c + 1) + i - 1]
    BY <2>1, <1>1, SubSeqProperties
  <2> HIDE DEF b, n
  <2>3. \A i \in 1 .. n - c : (c + 1) + i - 1 = c + i /\ i \in 1 .. n - (c + 1) + 1
    BY <1>1
  <2> QED
    BY <2>2, <2>3, <1>1
<1>4. <<x>> \in Seq(S) /\ Len(<<x>>) = 1 /\ <<x>>[1] = x
  OBVIOUS
<1> HIDE DEF a, b, n
<1>5. ax \in Seq(S) /\ Len(ax) = c /\ \A i \in 1 .. c : ax[i] = IF i <= c - 1 THEN a[i] ELSE <<x>>[i - (c - 1)]
  <2> DEFINE one == <<x>>
  <2>1. one \in Seq(S) /\ Len(one) = 1
    BY <1>4
  <2> HIDE DEF one
  <2>2. /\ a \o one \in Seq(S) /\ Len(a \o one) = Len(a) + Len(one)
        /\ \A i \in 1 .. Len(a) + Len(one) : (a \o one)[i] = IF i <= Len(a) THEN a[i] ELSE one[i - Len(a)]
    BY <1>2, <2>1, ConcatProperties
  <2>3. Len(a) = c - 1 /\ Len(a) + Len(one) = c
    BY <1>1, <1>2, <2>1
  <2>4. /\ a \o one \in Seq(S) /\ Len(a \o one) = c
        /\ \A i \in 1 .. c : (a \o one)[i] = IF i <= c - 1 THEN a[i] ELSE one[i - (c - 1)]
    BY <2>2, <2>3
  <2> QED
    BY <2>4 DEF one
<1> HIDE DEF ax
<1>6. axb \in Seq(S) /\ Len(axb) = n /\ \A i \in 1 .. n : axb[i] = IF i <= c THEN ax[i] ELSE b[i - c]
  <2>1. Len(ax) + Len(b) = n
    BY <1>1, <1>3, <1>5
  <2>2. /\ ax \o b \in Seq(S) /\ Len(ax \o b) = Len(ax) + Len(b)
        /\ \A i \in 1 .. Len(ax) + Len(b) : (ax \o b)[i] = IF i <= Len(ax) THEN ax[i] ELSE b[i - Len(ax)]
    <3>1. ax \in Seq(S) /\ b \in Seq(S)
      BY <1>3, <1>5
    <3> QED
      BY <3>1, ConcatProperties
  <2> QED
    BY <2>1, <2>2, <1>5
<1> HIDE DEF axb
<1>7. new \in Seq(S) /\ Len(new) = n /\ \A i \in 1 .. n : new[i] = IF i = c THEN x ELSE row[i]
  BY ExceptSeq DEF n
<1> HIDE DEF new
<1>8. ASSUME NEW i \in 1 .. n PROVE axb[i] = new[i]
  <2>1. CASE i < c
    BY <2>1, <1>1, <1>2, <1>5, <1>6, <1>7
  <2>2. CASE i = c
    BY <2>2, <1>1, <1>4, <1>5, <1>6, <1>7
  <2>3. CASE i > c
    <3>1. i - c \in 1 .. n - c /\ c + (i - c) = i
      BY <2>3, <1>1
    <3>2. axb[i] = b[i - c] /\ new[i] = row[i]
      BY <2>3, <1>1, <1>6, <1>7
    <3> QED
      BY <3>1, <3>2, <1>3
  <2> QED
    BY <2>1, <2>2, <2>3, <1>1
<1>9. axb = new
  BY <1>6, <1>7, <1>8, SeqSame
<1> QED
  BY <1>9 DEF axb, ax, a, b, new, Splice, Overwrite

Source == Glyph \ {Pipe}
Visible == Glyph \ {EscapedPipe}
CellState == [src : Seq(Source), shown : Seq(Visible), raw : BOOLEAN]
Grid(table) == [1 .. Len(table) -> [1 .. Cols(table) -> CellState]]
Fit(grids, docs) ==
    grids \in [1 .. Len(docs) -> Seq(Seq(CellState))] /\ \A i \in 1 .. Len(docs) : grids[i] \in Grid(docs[i])
IsCell(docs, at) ==
    \E i \in 1 .. Len(docs) : \E r \in 1 .. Len(docs[i]) : \E c \in 1 .. Cols(docs[i]) : at = <<i, r, c>>

Focal(src) == [src |-> src, shown |-> Unescape(src), raw |-> TRUE]
IsAt(f, r, c) == <<r, c>> = f
GridWith(table, f, cell) ==
    [r \in 1 .. Len(table) |-> [c \in 1 .. Cols(table) |->
        IF IsAt(f, r, c) THEN cell ELSE ToRendered(table[r][c])]]
GridOf(table, f) ==
    [r \in 1 .. Len(table) |-> [c \in 1 .. Cols(table) |->
        IF IsAt(f, r, c) THEN Focal(table[r][c]) ELSE ToRendered(table[r][c])]]
Within(f, i) == IF f # NoCell /\ f[1] = i THEN <<f[2], f[3]>> ELSE NoCell
ScreensWith(docs, f, cell) == [i \in 1 .. Len(docs) |-> GridWith(docs[i], Within(f, i), cell)]
Screens(docs, f) == [i \in 1 .. Len(docs) |-> GridOf(docs[i], Within(f, i))]

(* Source in any alphabet is source, and can be shown and written back.    *)
LEMMA Alphabets == ASSUME NEW G \in SUBSET Source, NEW s \in Seq(G)
    PROVE  Pipe \notin G /\ s \in Seq(Source) /\ Unescape(s) \in Seq(Visible) /\ Escape(Unescape(s)) = s
<1>1. Pipe \notin G /\ s \in Seq(Source)
  BY SeqMonotonic DEF Source
<1>2. \A g \in Source : Read(g) \in Visible
  BY GlyphsApart DEF Source, Visible, Read, Glyph
<1> QED
  BY <1>1, <1>2, UnescapeIsSeq, WrittenBack DEF Source

(* A sheet that has rows.                                                  *)
Filled(G) == Sheet(G) \ {<<>>}

(* What it is made of: rows of as many cells, and text in each.            *)
LEMMA FilledIs ==
    ASSUME NEW G, NEW t \in Filled(G)
    PROVE  /\ Len(t) \in Nat \ {0} /\ Cols(t) \in Nat \ {0} /\ DOMAIN t = 1 .. Len(t)
           /\ t \in Seq(Seq(Text(G)))
           /\ \A r \in 1 .. Len(t) : /\ t[r] \in Seq(Text(G)) /\ Len(t[r]) = Cols(t) /\ DOMAIN t[r] = 1 .. Cols(t)
                                     /\ \A c \in 1 .. Cols(t) : t[r][c] \in Text(G) /\ t[r][c] \in Seq(G) /\ SrcAt(t, r, c) = t[r][c]
<1>1. t \in Seq(Seq(Text(G))) /\ t # <<>> /\ \A r \in DOMAIN t : t[r] # <<>> /\ Len(t[r]) = Cols(t)
  BY DEF Filled, Sheet
<1>2. Len(t) \in Nat \ {0} /\ DOMAIN t = 1 .. Len(t) /\ \A r \in 1 .. Len(t) : t[r] \in Seq(Text(G))
  BY <1>1, SeqIs
<1>3. 1 \in 1 .. Len(t)
  BY <1>2
<1>4. Cols(t) \in Nat \ {0}
  <2>1. t[1] \in Seq(Text(G)) /\ t[1] # <<>> /\ Len(t[1]) = Cols(t)
    BY <1>1, <1>2, <1>3
  <2> QED
    BY <2>1, SeqIs
<1>5. ASSUME NEW r \in 1 .. Len(t)
      PROVE  /\ t[r] \in Seq(Text(G)) /\ Len(t[r]) = Cols(t) /\ DOMAIN t[r] = 1 .. Cols(t)
             /\ \A c \in 1 .. Cols(t) : t[r][c] \in Text(G) /\ t[r][c] \in Seq(G) /\ SrcAt(t, r, c) = t[r][c]
  <2>1. t[r] \in Seq(Text(G)) /\ Len(t[r]) = Cols(t)
    BY <1>1, <1>2
  <2>2. DOMAIN t[r] = 1 .. Cols(t) /\ \A c \in 1 .. Cols(t) : t[r][c] \in Text(G)
    BY <2>1, SeqIs
  <2>3. \A c \in 1 .. Cols(t) : SrcAt(t, r, c) = t[r][c]
    BY <2>1, <1>4 DEF SrcAt
  <2> QED
    BY <2>1, <2>2, <2>3 DEF Text
<1> QED
  BY <1>1, <1>2, <1>4, <1>5

(* Rows of one length make a sheet.                                        *)
LEMMA RowsMakeSheet ==
    ASSUME NEW G, NEW t \in Seq(Seq(Text(G))), NEW n \in Nat \ {0}, Len(t) # 0,
           \A r \in 1 .. Len(t) : Len(t[r]) = n
    PROVE  t \in Filled(G) /\ Cols(t) = n
<1>1. Len(t) \in Nat /\ DOMAIN t = 1 .. Len(t) /\ t # <<>> /\ \A r \in 1 .. Len(t) : t[r] \in Seq(Text(G))
  BY SeqIs
<1>2. 1 \in 1 .. Len(t)
  BY <1>1
<1>3. Cols(t) = n
  BY <1>1, <1>2 DEF Cols
<1>4. \A r \in 1 .. Len(t) : t[r] # <<>>
  BY <1>1, SeqIs
<1> QED
  BY <1>1, <1>3, <1>4 DEF Filled, Sheet

(* Whatever has rows of as many texts is a sheet.                          *)
LEMMA MakeSheet ==
    ASSUME NEW G, NEW n \in Nat \ {0}, NEW m \in Nat \ {0}, NEW t \in [1 .. n -> [1 .. m -> Text(G)]]
    PROVE  t \in Filled(G) /\ Len(t) = n /\ Cols(t) = m
<1>1. \A r \in 1 .. n : t[r] \in Seq(Text(G)) /\ Len(t[r]) = m
  BY ASeq
<1>2. t \in [1 .. n -> Seq(Text(G))]
  BY <1>1
<1>3. t \in Seq(Seq(Text(G))) /\ Len(t) = n
  BY <1>2, ASeq
<1>4. Len(t) # 0 /\ \A r \in 1 .. Len(t) : Len(t[r]) = m
  BY <1>1, <1>3
<1> QED
  BY <1>3, <1>4, RowsMakeSheet

(* A table is such a sheet, or empty, and none of its rows is skipped.     *)
LEMMA TableIs ==
    ASSUME NEW G, NEW t \in Table(G)
    PROVE  /\ t # <<>> => t \in Filled(G)
           /\ t = <<>> => Len(t) = 0 /\ Cols(t) = 0
           /\ Len(t) \in Nat /\ Cols(t) \in Nat /\ DOMAIN t = 1 .. Len(t)
           /\ t \in Seq(Seq(Text(G)))
           /\ \A r \in 1 .. Len(t) : /\ t[r] \in Seq(Text(G)) /\ Len(t[r]) = Cols(t) /\ DOMAIN t[r] = 1 .. Cols(t)
                                     /\ ~IsDivider(t[r])
                                     /\ \A c \in 1 .. Cols(t) : t[r][c] \in Text(G) /\ t[r][c] \in Seq(G) /\ SrcAt(t, r, c) = t[r][c]
<1>1. t \in Sheet(G) /\ \A r \in DOMAIN t : ~IsDivider(t[r])
  BY DEF Table
<1>2. CASE t # <<>>
  <2>1. t \in Filled(G)
    BY <1>1, <1>2 DEF Filled
  <2> QED
    BY <1>1, <1>2, <2>1, FilledIs
<1>3. CASE t = <<>>
  <2>1. t \in Seq(Seq(Text(G))) /\ Len(t) = 0 /\ DOMAIN t = 1 .. Len(t)
    BY <1>1, <1>3, SeqIs DEF Sheet
  <2>2. Cols(t) = 0
    BY <1>3 DEF Cols
  <2>3. 1 .. Len(t) = {}
    BY <2>1
  <2> QED
    BY <1>3, <2>1, <2>2, <2>3
<1> QED
  BY <1>2, <1>3

(* A sheet without rows to skip is a table.                                *)
LEMMA SheetIsTable ==
    ASSUME NEW G, NEW t \in Filled(G), \A r \in 1 .. Len(t) : ~IsDivider(t[r])
    PROVE  t \in Table(G)
BY FilledIs DEF Filled, Table

(* A table in which there is a row is a sheet.                             *)
LEMMA HasRows ==
    ASSUME NEW G, NEW t \in Table(G), NEW r \in 1 .. Len(t)
    PROVE  t \in Filled(G)
<1>1. t # <<>>
  BY TableIs
<1> QED
  BY <1>1, TableIs

(* Parsing leaves a table, of as many columns if it has rows at all.       *)
LEMMA ParsedIs ==
    ASSUME NEW G, NEW t \in Filled(G)
    PROVE  Parsed(t) \in Table(G) /\ (Parsed(t) # <<>> => Cols(Parsed(t)) = Cols(t))
<1> DEFINE I == {r \in DOMAIN t : ~IsDivider(t[r])}
           u == Parsed(t)
           m == Cols(t)
<1>1. /\ t \in Seq(Seq(Text(G))) /\ m \in Nat \ {0} /\ DOMAIN t = 1 .. Len(t)
      /\ \A r \in 1 .. Len(t) : t[r] \in Seq(Text(G)) /\ Len(t[r]) = m
  BY FilledIs
<1>2. u \in Seq(Seq(Text(G))) /\ \E pos : Places(pos, u, t, I \cap 1 .. Len(t))
  BY <1>1, PickedRight DEF Parsed
<1>3. PICK pos : Places(pos, u, t, I \cap 1 .. Len(t))
  BY <1>2
<1>4. \A r \in I \cap 1 .. Len(t) : ~IsDivider(t[r])
  OBVIOUS
<1>5. Len(u) \in Nat /\ DOMAIN u = 1 .. Len(u) /\ (u = <<>> <=> Len(u) = 0)
  BY <1>2, SeqIs
<1> HIDE DEF I, m, u
<1>6. ASSUME NEW k \in 1 .. Len(u) PROVE Len(u[k]) = m /\ ~IsDivider(u[k])
  <2>1. pos[k] \in I \cap 1 .. Len(t) /\ u[k] = t[pos[k]]
    BY <1>3 DEF Places
  <2> QED
    BY <1>1, <1>4, <2>1
<1>7. CASE u = <<>>
  <2>1. 1 .. Len(u) = {}
    BY <1>5, <1>7
  <2>2. u \in Table(G)
    BY <1>2, <1>5, <2>1 DEF Table, Sheet
  <2> QED
    BY <1>7, <2>2 DEF u
<1>8. CASE u # <<>>
  <2>1. u \in Filled(G) /\ Cols(u) = m
    BY <1>1, <1>2, <1>5, <1>6, <1>8, RowsMakeSheet
  <2>2. u \in Table(G)
    BY <1>6, <2>1, SheetIsTable
  <2> QED
    BY <2>1, <2>2 DEF u, m
<1> QED
  BY <1>7, <1>8

(* A table is parsed to itself.                                            *)
LEMMA ParsedIdle ==
    ASSUME NEW G, NEW t \in Filled(G), \A r \in 1 .. Len(t) : ~IsDivider(t[r])
    PROVE  Parsed(t) = t
<1> DEFINE I == {r \in DOMAIN t : ~IsDivider(t[r])}
           pos == [k \in 1 .. Len(t) |-> k]
<1>1. t \in Seq(Seq(Text(G))) /\ DOMAIN t = 1 .. Len(t)
  BY FilledIs
<1>2. I \cap 1 .. Len(t) = 1 .. Len(t)
  BY <1>1
<1> HIDE DEF I
<1>3. Places(pos, t, t, I \cap 1 .. Len(t))
  BY <1>2 DEF Places
<1>4. Picked(t, I) = t
  BY <1>1, <1>3, PickedIs
<1> QED
  BY <1>4 DEF Parsed, I

(* What a grid on screen is made of, and when it has a table's shape.      *)
LEMMA GridIs ==
    ASSUME NEW G, NEW t \in Table(G), NEW g \in Grid(t)
    PROVE  /\ g \in Seq(Seq(CellState)) /\ Len(g) = Len(t) /\ DOMAIN g = 1 .. Len(t)
           /\ \A r \in 1 .. Len(t) : /\ g[r] \in [1 .. Cols(t) -> CellState] /\ g[r] \in Seq(CellState) /\ Len(g[r]) = Cols(t)
                                     /\ \A c \in 1 .. Cols(t) : g[r][c] \in CellState
           /\ \A u : SameShape(g, u) <=> (Len(u) = Len(t) /\ Cols(u) = Cols(t))
<1>1. Len(t) \in Nat /\ Cols(t) \in Nat /\ (t = <<>> => Len(t) = 0 /\ Cols(t) = 0)
      /\ (t # <<>> => Len(t) # 0)
  BY TableIs, FilledIs
<1>2. \A r \in 1 .. Len(t) : g[r] \in [1 .. Cols(t) -> CellState] /\ g[r] \in Seq(CellState) /\ Len(g[r]) = Cols(t)
  BY <1>1, ASeq DEF Grid
<1>3. g \in [1 .. Len(t) -> Seq(CellState)]
  BY <1>2 DEF Grid
<1>4. g \in Seq(Seq(CellState)) /\ Len(g) = Len(t) /\ DOMAIN g = 1 .. Len(t)
  BY <1>1, <1>3, ASeq
<1>5. Cols(g) = Cols(t)
  <2>1. CASE t = <<>>
    <3>1. g = <<>>
      BY <1>1, <1>4, <2>1, SeqIs
    <3> QED
      BY <1>1, <2>1, <3>1 DEF Cols
  <2>2. CASE t # <<>>
    <3>1. 1 \in 1 .. Len(t) /\ Len(g) # 0
      BY <1>1, <1>4, <2>2
    <3>2. g # <<>>
      BY <1>4, <3>1, SeqIs
    <3> QED
      BY <1>2, <3>1, <3>2 DEF Cols
  <2> QED
    BY <2>1, <2>2
<1>6. \A u : SameShape(g, u) <=> (Len(u) = Len(t) /\ Cols(u) = Cols(t))
  BY <1>4, <1>5 DEF SameShape
<1> QED
  BY <1>2, <1>4, <1>6

(* Screens that fit a document have a grid for each of its tables.         *)
LEMMA FitIs ==
    ASSUME NEW G, NEW docs \in Seq(Table(G)), NEW grids, Fit(grids, docs)
    PROVE  /\ Len(docs) \in Nat /\ DOMAIN docs = 1 .. Len(docs) /\ \A i \in 1 .. Len(docs) : docs[i] \in Table(G)
           /\ DOMAIN grids = 1 .. Len(docs) /\ Len(grids) = Len(docs)
           /\ \A i \in 1 .. Len(docs) : grids[i] \in Grid(docs[i])
<1>1. Len(docs) \in Nat /\ DOMAIN docs = 1 .. Len(docs) /\ \A i \in 1 .. Len(docs) : docs[i] \in Table(G)
  BY SeqIs
<1> QED
  BY <1>1, ASeq DEF Fit

(* The cells on screen are the cells of the document.                      *)
LEMMA CellsAre ==
    ASSUME NEW G, NEW docs \in Seq(Table(G)), NEW grids, Fit(grids, docs), NEW at
    PROVE  at \in Cells(grids) <=> IsCell(docs, at)
<1>1. Len(grids) = Len(docs) /\ \A i \in 1 .. Len(docs) : docs[i] \in Table(G) /\ grids[i] \in Grid(docs[i])
  BY FitIs
<1>2. ASSUME NEW i \in 1 .. Len(docs) PROVE Len(grids[i]) = Len(docs[i]) /\ Cols(grids[i]) = Cols(docs[i])
  <2>1. docs[i] \in Table(G) /\ grids[i] \in Grid(docs[i])
    BY <1>1
  <2>2. Len(grids[i]) = Len(docs[i]) /\ SameShape(grids[i], docs[i])
    BY <2>1, GridIs
  <2> QED
    BY <2>2 DEF SameShape
<1>3. at \in Cells(grids) <=> \E i \in 1 .. Len(grids) : \E r \in 1 .. Len(grids[i]) : \E c \in 1 .. Cols(grids[i]) : at = <<i, r, c>>
  BY SMTT(30) DEF Cells
<1> QED
  BY <1>1, <1>2, <1>3 DEF IsCell

(* NoCell is no position.                                                  *)
LEMMA NoCellApart == /\ \A r, c \in Nat : NoCell # <<r, c>>
                     /\ \A i, r, c \in Nat : NoCell # <<i, r, c>>
<1>1. NoCell \notin Seq(Nat)
  BY TableAssumption
<1>2. ASSUME NEW r \in Nat, NEW c \in Nat PROVE NoCell # <<r, c>>
  <2>1. <<r, c>> \in Seq(Nat)
    OBVIOUS
  <2> QED
    BY <2>1, <1>1
<1>3. ASSUME NEW i \in Nat, NEW r \in Nat, NEW c \in Nat PROVE NoCell # <<i, r, c>>
  <2>1. <<i, r, c>> \in Seq(Nat)
    OBVIOUS
  <2> QED
    BY <2>1, <1>1
<1> QED
  BY <1>2, <1>3

(* A cell that shows its source, rendered or raw, is a cell state.         *)
LEMMA CellIs ==
    ASSUME NEW G \in SUBSET Source, NEW src \in Seq(G)
    PROVE  Focal(src) \in CellState /\ ToRendered(src) \in CellState
BY Alphabets DEF Focal, CellState, ToRendered

(* One field of a cell written.                                            *)
LEMMA CellExcept ==
    ASSUME NEW cell \in CellState, NEW v
    PROVE  /\ [cell EXCEPT !.src = v] = [src |-> v, shown |-> cell.shown, raw |-> cell.raw]
           /\ [cell EXCEPT !.shown = v] = [src |-> cell.src, shown |-> v, raw |-> cell.raw]
BY DEF CellState

(* A grid built anew shows the table, with no cell in focus.               *)
LEMMA RebuiltGrid ==
    ASSUME NEW G \in SUBSET Source, NEW t \in Table(G)
    PROVE  RebuildGrid(t) = GridOf(t, NoCell) /\ RebuildGrid(t) \in Grid(t)
<1>1. ASSUME NEW r \in 1 .. Len(t), NEW c \in 1 .. Cols(t)
      PROVE  ~IsAt(NoCell, r, c) /\ ToRendered(SrcAt(t, r, c)) = ToRendered(t[r][c])
             /\ ToRendered(SrcAt(t, r, c)) \in CellState
  <2>1. t[r][c] \in Seq(G) /\ SrcAt(t, r, c) = t[r][c]
    BY TableIs, SMTT(30)
  <2>2. ~IsAt(NoCell, r, c)
    BY NoCellApart DEF IsAt
  <2> QED
    BY <2>1, <2>2, CellIs
<1>2. RebuildGrid(t) = GridOf(t, NoCell)
  BY <1>1 DEF RebuildGrid, GridOf
<1>3. RebuildGrid(t) \in Grid(t)
  BY <1>1 DEF RebuildGrid, Grid
<1> QED
  BY <1>2, <1>3

(* What is on screen stays of its shape whatever the cells hold.           *)
LEMMA ReconciledGrid ==
    ASSUME NEW G \in SUBSET Source, NEW t \in Table(G), NEW u \in Table(G), NEW g \in Grid(t), NEW f, NEW b
    PROVE  Reconcile(g, u, f, b) \in Grid(u)
<1> DEFINE Echo(cell, next) == next = Escape(cell.shown)
           Focused(cell, next) ==
               IF b THEN cell
               ELSE IF Echo(cell, next) THEN [cell EXCEPT !.src = next]
               ELSE [src |-> next, shown |-> Unescape(next), raw |-> cell.raw]
           Other(cell, next) == IF cell.src # next \/ cell.raw THEN ToRendered(next) ELSE cell
<1>1. CASE ~SameShape(g, u)
  BY <1>1, RebuiltGrid DEF Reconcile
<1>2. CASE SameShape(g, u)
  <2>1. Len(u) = Len(t) /\ Cols(u) = Cols(t)
    BY <1>2, GridIs
  <2>2. ASSUME NEW r \in 1 .. Len(u), NEW c \in 1 .. Cols(u)
        PROVE  /\ Focused(g[r][c], SrcAt(u, r, c)) \in CellState
               /\ Other(g[r][c], SrcAt(u, r, c)) \in CellState
    <3>1. g[r][c] \in CellState
      BY <2>1, GridIs
    <3>2. SrcAt(u, r, c) \in Seq(G)
      BY TableIs, SMTT(30)
    <3>3. SrcAt(u, r, c) \in Seq(Source) /\ Unescape(SrcAt(u, r, c)) \in Seq(Visible)
      BY <3>2, Alphabets
    <3> QED
      BY <3>1, <3>3 DEF CellState, ToRendered
  <2>3. Reconcile(g, u, f, b) = [r \in 1..Len(u) |-> [c \in 1..Cols(u) |->
                IF IsAt(f, r, c) THEN Focused(g[r][c], SrcAt(u, r, c))
                ELSE Other(g[r][c], SrcAt(u, r, c))]]
    BY <1>2 DEF Reconcile, IsAt
  <2> HIDE DEF Focused, Other
  <2> QED
    BY <2>2, <2>3 DEF Grid
<1> QED
  BY <1>1, <1>2

(* The grids that the view is stated with fit their table.                 *)
LEMMA GridWithIs ==
    ASSUME NEW G \in SUBSET Source, NEW t \in Table(G), NEW f, NEW cell \in CellState
    PROVE  GridWith(t, f, cell) \in Grid(t)
<1>1. ASSUME NEW r \in 1 .. Len(t), NEW c \in 1 .. Cols(t) PROVE ToRendered(t[r][c]) \in CellState
  <2>1. t[r][c] \in Seq(G)
    BY TableIs
  <2> QED
    BY <2>1, CellIs
<1> QED
  BY <1>1 DEF GridWith, Grid

LEMMA GridOfIs ==
    ASSUME NEW G \in SUBSET Source, NEW t \in Table(G), NEW f
    PROVE  GridOf(t, f) \in Grid(t)
<1>1. ASSUME NEW r \in 1 .. Len(t), NEW c \in 1 .. Cols(t)
      PROVE  Focal(t[r][c]) \in CellState /\ ToRendered(t[r][c]) \in CellState
  <2>1. t[r][c] \in Seq(G)
    BY TableIs
  <2> QED
    BY <2>1, CellIs
<1> QED
  BY <1>1 DEF GridOf, Grid

(* What they have at each cell.                                            *)
LEMMA GridWithAt ==
    ASSUME NEW t, NEW f, NEW cell, NEW r \in 1 .. Len(t), NEW c \in 1 .. Cols(t)
    PROVE  /\ IsAt(f, r, c) => GridWith(t, f, cell)[r][c] = cell
           /\ ~IsAt(f, r, c) => GridWith(t, f, cell)[r][c] = ToRendered(t[r][c])
BY DEF GridWith

LEMMA GridOfAt ==
    ASSUME NEW t, NEW f, NEW r \in 1 .. Len(t), NEW c \in 1 .. Cols(t)
    PROVE  /\ IsAt(f, r, c) => GridOf(t, f)[r][c] = Focal(t[r][c])
           /\ ~IsAt(f, r, c) => GridOf(t, f)[r][c] = ToRendered(t[r][c])
BY DEF GridOf

(* A grid whose focused cell says what the document says there.            *)
LEMMA GridsMeet ==
    ASSUME NEW t, NEW f, NEW cell,
           \A r \in 1 .. Len(t), c \in 1 .. Cols(t) : IsAt(f, r, c) => cell = Focal(t[r][c])
    PROVE  GridWith(t, f, cell) = GridOf(t, f)
BY DEF GridWith, GridOf

(* reconcile: another shape is built anew; a composed cell stays as it is; *)
(* otherwise every cell shows what the table says.                         *)
LEMMA ReconciledView ==
    ASSUME NEW G \in SUBSET Source, NEW t \in Table(G), NEW u \in Table(G), NEW f,
           NEW cell \in CellState, cell.raw, NEW b \in BOOLEAN
    PROVE  LET g == GridWith(t, f, cell)
           IN  /\ ~SameShape(g, u) => Reconcile(g, u, f, b) = GridOf(u, NoCell)
               /\ SameShape(g, u) /\ b => Reconcile(g, u, f, b) = GridWith(u, f, cell)
               /\ SameShape(g, u) /\ ~b => Reconcile(g, u, f, b) = GridOf(u, f)
<1> DEFINE g == GridWith(t, f, cell)
           Echo(x, next) == next = Escape(x.shown)
           Focused(x, next) ==
               IF b THEN x
               ELSE IF Echo(x, next) THEN [x EXCEPT !.src = next]
               ELSE [src |-> next, shown |-> Unescape(next), raw |-> x.raw]
           Other(x, next) == IF x.src # next \/ x.raw THEN ToRendered(next) ELSE x
<1>1. ~SameShape(g, u) => Reconcile(g, u, f, b) = GridOf(u, NoCell)
  BY RebuiltGrid DEF Reconcile
<1>2. ASSUME SameShape(g, u)
      PROVE  /\ b => Reconcile(g, u, f, b) = GridWith(u, f, cell)
             /\ ~b => Reconcile(g, u, f, b) = GridOf(u, f)
  <2>0. g \in Grid(t)
    BY GridWithIs
  <2>1. Len(u) = Len(t) /\ Cols(u) = Cols(t)
    BY <1>2, <2>0, GridIs
  <2>2. Reconcile(g, u, f, b) = [r \in 1..Len(u) |-> [c \in 1..Cols(u) |->
                IF IsAt(f, r, c) THEN Focused(g[r][c], SrcAt(u, r, c))
                ELSE Other(g[r][c], SrcAt(u, r, c))]]
    BY <1>2 DEF Reconcile, IsAt
  <2>3. ASSUME NEW r \in 1 .. Len(u), NEW c \in 1 .. Cols(u)
        PROVE  /\ IsAt(f, r, c) /\ b => Focused(g[r][c], SrcAt(u, r, c)) = cell
               /\ IsAt(f, r, c) /\ ~b => Focused(g[r][c], SrcAt(u, r, c)) = Focal(u[r][c])
               /\ ~IsAt(f, r, c) => Other(g[r][c], SrcAt(u, r, c)) = ToRendered(u[r][c])
    <3>1. u[r][c] \in Seq(G) /\ SrcAt(u, r, c) = u[r][c]
      BY TableIs
    <3>2. /\ IsAt(f, r, c) => g[r][c] = cell
          /\ ~IsAt(f, r, c) => g[r][c] = ToRendered(t[r][c])
      <4>1. r \in 1 .. Len(t) /\ c \in 1 .. Cols(t)
        BY <2>1
      <4> QED
        BY <4>1, GridWithAt
    <3> HIDE DEF g
    <3>4. ASSUME IsAt(f, r, c), b PROVE Focused(g[r][c], SrcAt(u, r, c)) = cell
      BY <3>2, <3>4
    <3>5. ASSUME IsAt(f, r, c), ~b PROVE Focused(g[r][c], SrcAt(u, r, c)) = Focal(u[r][c])
      <4>1. g[r][c] = cell
        BY <3>2, <3>5
      <4>2. cell.raw = TRUE
        <5>1. cell.raw \in BOOLEAN
          BY DEF CellState
        <5> QED
          BY <5>1
      <4>3. CASE u[r][c] = Escape(cell.shown)
        <5>1. cell.shown = Unescape(u[r][c])
          BY <4>3, ReadBack DEF CellState, Visible
        <5>2. [cell EXCEPT !.src = u[r][c]] = [src |-> u[r][c], shown |-> cell.shown, raw |-> cell.raw]
          BY CellExcept
        <5>3. [cell EXCEPT !.src = u[r][c]] = Focal(u[r][c])
          BY <4>2, <5>1, <5>2 DEF Focal
        <5> QED
          BY <3>1, <3>5, <4>1, <4>3, <5>3
      <4>4. CASE u[r][c] # Escape(cell.shown)
        BY <4>1, <4>2, <4>4, <3>1, <3>5 DEF Focal
      <4> QED
        BY <4>3, <4>4
    <3>6. ASSUME ~IsAt(f, r, c) PROVE Other(g[r][c], SrcAt(u, r, c)) = ToRendered(u[r][c])
      <4>1. g[r][c] = ToRendered(t[r][c])
        BY <3>2, <3>6
      <4>2. g[r][c].src = t[r][c] /\ ~g[r][c].raw
        BY <4>1 DEF ToRendered
      <4> QED
        BY <4>1, <4>2, <3>1
    <3> QED
      BY <3>4, <3>5, <3>6
  <2> HIDE DEF Focused, Other, g
  <2>4. ASSUME b PROVE Reconcile(g, u, f, b) = GridWith(u, f, cell)
    BY <2>2, <2>3, <2>4 DEF GridWith
  <2>5. ASSUME ~b PROVE Reconcile(g, u, f, b) = GridOf(u, f)
    BY <2>2, <2>3, <2>5 DEF GridOf
  <2> QED
    BY <2>4, <2>5
<1> QED
  BY <1>1, <1>2

(* Without focus the cell put aside does not matter.                       *)
LEMMA NoFocusGrid ==
    ASSUME NEW G, NEW t \in Table(G), NEW cell
    PROVE  GridWith(t, NoCell, cell) = GridOf(t, NoCell)
<1>1. Len(t) \in Nat /\ Cols(t) \in Nat
  BY TableIs
<1>2. \A r \in 1 .. Len(t), c \in 1 .. Cols(t) : ~IsAt(NoCell, r, c)
  BY <1>1, NoCellApart DEF IsAt
<1> QED
  BY <1>2, GridsMeet

(* After every update each table has a grid of its shape.                  *)
LEMMA UpdatedFit ==
    ASSUME NEW G \in SUBSET Source, NEW d \in Seq(Table(G)), NEW docs \in Seq(Table(G)), NEW screens, Fit(screens, d),
           NEW kept \in SUBSET ((1 .. Len(d)) \cap (1 .. Len(docs))), NEW changed,
           \A i \in kept \ changed : docs[i] = d[i]
    PROVE  Fit(Updated(screens, docs, kept, changed), docs)
<1> DEFINE g == Updated(screens, docs, kept, changed)
<1>1. \A i \in 1 .. Len(docs) : docs[i] \in Table(G)
  BY SeqIs
<1>2. \A i \in 1 .. Len(d) : d[i] \in Table(G) /\ screens[i] \in Grid(d[i])
  BY FitIs
<1>3. g = [i \in 1..Len(docs) |->
        IF i \notin kept THEN RebuildGrid(docs[i])
        ELSE IF i \notin changed THEN screens[i]
        ELSE Reconcile(screens[i], docs[i], FocusIn(i), i \in composing')]
  BY DEF Updated
<1>4. ASSUME NEW i \in 1 .. Len(docs) PROVE g[i] \in Grid(docs[i])
  <2>1. CASE i \notin kept
    <3>1. g[i] = RebuildGrid(docs[i])
      BY <1>3, <2>1
    <3> QED
      BY <1>1, <3>1, RebuiltGrid
  <2>2. CASE i \in kept /\ i \notin changed
    <3>1. g[i] = screens[i] /\ docs[i] = d[i]
      BY <1>3, <2>2
    <3> QED
      BY <1>2, <2>2, <3>1
  <2>3. CASE i \in kept /\ i \in changed
    <3>1. g[i] = Reconcile(screens[i], docs[i], FocusIn(i), i \in composing')
      BY <1>3, <2>3
    <3>2. i \in 1 .. Len(d)
      BY <2>3
    <3>3. \A f, b : Reconcile(screens[i], docs[i], f, b) \in Grid(docs[i])
      BY <1>1, <1>2, <3>2, ReconciledGrid
    <3> QED
      BY <3>1, <3>3
  <2> QED
    BY <2>1, <2>2, <2>3
<1>5. g = [i \in 1 .. Len(docs) |-> g[i]]
  BY <1>3
<1> HIDE DEF g
<1>6. ASSUME NEW i \in 1 .. Len(docs) PROVE g[i] \in Seq(Seq(CellState))
  <2>1. docs[i] \in Table(G) /\ g[i] \in Grid(docs[i])
    BY <1>1, <1>4
  <2> QED
    BY <2>1, GridIs
<1>7. g \in [1 .. Len(docs) -> Seq(Seq(CellState))]
  BY <1>5, <1>6
<1> QED
  BY <1>4, <1>7 DEF Fit, g

(* The widgets in `kept` that are not in `changed` have the same table; the *)
(* focused cell is in a widget that keeps its shape.                       *)
Unmoved(d, docs, kept, changed) ==
    kept \in SUBSET ((1 .. Len(d)) \cap (1 .. Len(docs))) /\ \A i \in kept \ changed : docs[i] = d[i]
Holding(screens, docs, kept) ==
    focus # NoCell /\ focus[1] \in kept /\ SameShape(screens[focus[1]], docs[focus[1]])

(* The cells that show their source.                                       *)
RawCell == {x \in CellState : x.raw = TRUE}

(* An update leaves the document on screen: with the focused cell as it    *)
(* was when its widget was not offered the change or composes.             *)
LEMMA UpdatedView ==
    ASSUME NEW G \in SUBSET Source, NEW d \in Seq(Table(G)), NEW docs \in Seq(Table(G)),
           NEW cell \in RawCell, NEW kept, NEW changed, Unmoved(d, docs, kept, changed),
           focus = NoCell \/ IsCell(d, focus)
    PROVE  LET screens == ScreensWith(d, focus, cell)
               after == Updated(screens, docs, kept, changed)
           IN  /\ Holding(screens, docs, kept) =>
                     /\ focus[1] \in changed /\ focus[1] \notin composing' => after = Screens(docs, focus)
                     /\ focus[1] \notin changed \/ focus[1] \in composing' => after = ScreensWith(docs, focus, cell)
               /\ ~Holding(screens, docs, kept) => after = ScreensWith(docs, NoCell, cell)
<1>0. cell \in CellState /\ cell.raw /\ kept \in SUBSET ((1 .. Len(d)) \cap (1 .. Len(docs))) /\ \A i \in kept \ changed : docs[i] = d[i]
  BY DEF Unmoved, RawCell
<1> USE <1>0
<1> DEFINE screens == ScreensWith(d, focus, cell)
           keeps == focus # NoCell /\ focus[1] \in kept /\ SameShape(screens[focus[1]], docs[focus[1]])
           to == IF keeps THEN focus ELSE NoCell
           after == Updated(screens, docs, kept, changed)
           redrawn == keeps /\ focus[1] \in changed /\ focus[1] \notin composing'
<1>1. \A i \in 1 .. Len(docs) : docs[i] \in Table(G)
  BY SeqIs
<1>2. \A i \in 1 .. Len(d) : d[i] \in Table(G) /\ screens[i] = GridWith(d[i], Within(focus, i), cell)
  BY SeqIs DEF ScreensWith
<1>3. after = [i \in 1..Len(docs) |->
        IF i \notin kept THEN RebuildGrid(docs[i])
        ELSE IF i \notin changed THEN screens[i]
        ELSE Reconcile(screens[i], docs[i], Within(focus, i), i \in composing')]
  BY DEF Updated, FocusIn, Within
<1>5. ASSUME NEW i \in 1 .. Len(docs)
      PROVE  /\ redrawn => after[i] = GridOf(docs[i], Within(to, i))
             /\ ~redrawn => after[i] = GridWith(docs[i], Within(to, i), cell)
  <2>0. docs[i] \in Table(G) /\ GridWith(docs[i], NoCell, cell) = GridOf(docs[i], NoCell)
    BY <1>1, NoFocusGrid
  <2>1. CASE i \notin kept
    <3>1. after[i] = RebuildGrid(docs[i])
      BY <1>3, <2>1
    <3>2. Within(to, i) = NoCell
      BY <2>1 DEF Within
    <3> QED
      BY <2>0, <3>1, <3>2, RebuiltGrid
  <2>2. CASE i \in kept /\ i \notin changed
    <3>1. i \in 1 .. Len(d) /\ after[i] = screens[i] /\ docs[i] = d[i]
      BY <1>3, <2>2
    <3>2. after[i] = GridWith(docs[i], Within(focus, i), cell)
      BY <1>2, <3>1
    <3>3. focus # NoCell /\ focus[1] = i => to = focus
      <4>1. GridWith(d[i], Within(focus, i), cell) \in Grid(d[i])
        BY <1>2, <3>1, GridWithIs
      <4>2. SameShape(screens[i], docs[i])
        <5>1. d[i] \in Table(G) /\ screens[i] \in Grid(d[i]) /\ docs[i] = d[i]
          BY <1>2, <3>1, <4>1
        <5> QED
          BY <5>1, GridIs
      <4> QED
        BY <2>2, <4>2
    <3>4. Within(to, i) = Within(focus, i)
      BY <3>3 DEF Within
    <3>5. CASE redrawn
      <4>1. Within(focus, i) = NoCell
        BY <2>2, <3>5 DEF Within
      <4> QED
        BY <2>0, <3>2, <3>4, <3>5, <4>1
    <3> QED
      BY <3>2, <3>4, <3>5
  <2>3. CASE i \in kept /\ i \in changed
    <3> DEFINE b == i \in composing'
               W == Within(focus, i)
               g == GridWith(d[i], W, cell)
    <3>1. i \in 1 .. Len(d) /\ after[i] = Reconcile(screens[i], docs[i], W, b)
      BY <1>3, <2>3
    <3>2. after[i] = Reconcile(g, docs[i], W, b) /\ d[i] \in Table(G) /\ screens[i] = g
      BY <1>2, <3>1
    <3>3. /\ ~SameShape(g, docs[i]) => after[i] = GridOf(docs[i], NoCell)
          /\ SameShape(g, docs[i]) /\ b => after[i] = GridWith(docs[i], W, cell)
          /\ SameShape(g, docs[i]) /\ ~b => after[i] = GridOf(docs[i], W)
      <4>1. b \in BOOLEAN
        OBVIOUS
      <4> HIDE DEF b, W, after
      <4> QED
        BY <2>0, <3>2, <4>1, ReconciledView
    <3>4. W = NoCell \/ (focus # NoCell /\ focus[1] = i)
      BY DEF Within
    <3>5. CASE ~SameShape(g, docs[i])
      <4>1. Within(to, i) = NoCell
        BY <3>5, <3>2 DEF Within
      <4> QED
        BY <2>0, <3>3, <3>5, <4>1
    <3>6. CASE SameShape(g, docs[i])
      <4>1. focus # NoCell /\ focus[1] = i => keeps
        BY <2>3, <3>2, <3>6
      <4>2. Within(to, i) = W
        BY <4>1 DEF Within
      <4>3. W # NoCell => keeps /\ focus[1] = i
        BY <3>4, <4>1
      <4>4. W # NoCell => (redrawn <=> ~b)
        BY <2>3, <4>3
      <4>5. W = NoCell => after[i] = GridOf(docs[i], NoCell)
        BY <2>0, <3>3, <3>6
      <4> HIDE DEF redrawn, W, b, after, g, to
      <4>6. CASE W = NoCell
        BY <2>0, <4>2, <4>5, <4>6
      <4>7. CASE W # NoCell
        BY <3>3, <3>6, <4>2, <4>4, <4>7
      <4> QED
        BY <4>6, <4>7
    <3> QED
      BY <3>5, <3>6
  <2> QED
    BY <2>1, <2>2, <2>3
<1>6. DOMAIN after = 1 .. Len(docs) /\ after = [i \in 1 .. Len(docs) |-> after[i]]
  BY <1>3
<1> HIDE DEF after, redrawn, to
<1>7. redrawn => after = Screens(docs, to)
  BY <1>5, <1>6 DEF Screens
<1>8. ~redrawn => after = ScreensWith(docs, to, cell)
  BY <1>5, <1>6 DEF ScreensWith
<1>9. /\ Holding(screens, docs, kept) => to = focus /\ (redrawn <=> focus[1] \in changed /\ focus[1] \notin composing')
      /\ ~Holding(screens, docs, kept) => to = NoCell /\ ~redrawn
  BY DEF redrawn, to, Holding
<1> HIDE DEF keeps, screens
<1>10. /\ Holding(screens, docs, kept) =>
             /\ focus[1] \in changed /\ focus[1] \notin composing' => after = Screens(docs, focus)
             /\ focus[1] \notin changed \/ focus[1] \in composing' => after = ScreensWith(docs, focus, cell)
       /\ ~Holding(screens, docs, kept) => after = ScreensWith(docs, NoCell, cell)
  BY <1>7, <1>8, <1>9
<1> QED
  BY <1>10 DEF after, screens

(* A place in a document, one cell written, and what screens agree on.     *)
Place(docs, i, r, c) == i \in 1 .. Len(docs) /\ r \in 1 .. Len(docs[i]) /\ c \in 1 .. Cols(docs[i])
Put(s, i, r, c, x) == [s EXCEPT ![i][r][c] = x]
Alike(u, s, docs) == \A j, p, q : Place(docs, j, p, q) => u[j][p][q] = s[j][p][q]
AlikeBut(u, s, docs, i, r, c) ==
    \A j, p, q : Place(docs, j, p, q) /\ ~(j = i /\ p = r /\ q = c) => u[j][p][q] = s[j][p][q]

(* One cell on screen is written.                                          *)
LEMMA CellSet ==
    ASSUME NEW G, NEW docs \in Seq(Table(G)), NEW s, Fit(s, docs), NEW i, NEW r, NEW c, Place(docs, i, r, c), NEW x \in CellState
    PROVE  LET u == Put(s, i, r, c, x)
           IN  Fit(u, docs) /\ u[i][r][c] = x /\ AlikeBut(u, s, docs, i, r, c)
<1> DEFINE u == Put(s, i, r, c, x)
<1>0. i \in 1 .. Len(docs) /\ r \in 1 .. Len(docs[i]) /\ c \in 1 .. Cols(docs[i])
  BY DEF Place
<1>1. s \in [1 .. Len(docs) -> Seq(Seq(CellState))] /\ \A j \in 1 .. Len(docs) : s[j] \in Grid(docs[j])
  BY DEF Fit
<1> DEFINE row == [s[i][r] EXCEPT ![c] = x]
           grid == [s[i] EXCEPT ![r] = row]
<1>2. s[i] \in [1 .. Len(docs[i]) -> [1 .. Cols(docs[i]) -> CellState]]
  BY <1>0, <1>1 DEF Grid
<1>3. s[i][r] \in [1 .. Cols(docs[i]) -> CellState]
  BY <1>0, <1>2
<1>4. row \in [1 .. Cols(docs[i]) -> CellState] /\ row[c] = x /\ \A q \in 1 .. Cols(docs[i]) : q # c => row[q] = s[i][r][q]
  BY <1>0, <1>3
<1> HIDE DEF row
<1>5. /\ grid \in [1 .. Len(docs[i]) -> [1 .. Cols(docs[i]) -> CellState]] /\ grid[r] = row
      /\ \A p \in 1 .. Len(docs[i]) : p # r => grid[p] = s[i][p]
  BY <1>0, <1>2, <1>4
<1>6. u = [s EXCEPT ![i] = grid]
  BY DEF row, Put
<1> HIDE DEF grid, u
<1>7. grid \in Grid(docs[i])
  BY <1>5 DEF Grid
<1>8. docs[i] \in Table(G)
  BY <1>0, SeqIs
<1>9. grid \in Seq(Seq(CellState))
  BY <1>7, <1>8, GridIs
<1>10. /\ u \in [1 .. Len(docs) -> Seq(Seq(CellState))] /\ u[i] = grid
       /\ \A j \in 1 .. Len(docs) : j # i => u[j] = s[j]
  BY <1>0, <1>1, <1>6, <1>9
<1>11. Fit(u, docs)
  <2>1. \A j \in 1 .. Len(docs) : u[j] \in Grid(docs[j])
    BY <1>1, <1>7, <1>10
  <2> QED
    BY <1>10, <2>1 DEF Fit
<1>12. u[i][r][c] = x
  BY <1>0, <1>4, <1>5, <1>10
<1>13. ASSUME NEW j \in 1 .. Len(docs), NEW p \in 1 .. Len(docs[j]), NEW q \in 1 .. Cols(docs[j]), ~(j = i /\ p = r /\ q = c)
       PROVE  u[j][p][q] = s[j][p][q]
  <2>1. CASE j # i
    BY <2>1, <1>10
  <2>2. CASE j = i /\ p # r
    BY <2>2, <1>5, <1>10
  <2>3. CASE j = i /\ p = r
    BY <2>3, <1>4, <1>5, <1>10, <1>13
  <2> QED
    BY <2>1, <2>2, <2>3
<1> QED
  BY <1>11, <1>12, <1>13 DEF u, AlikeBut, Place

(* Screens that agree cell by cell are the same.                           *)
LEMMA ScreenSame ==
    ASSUME NEW docs, NEW s, Fit(s, docs), NEW u, Fit(u, docs), Alike(s, u, docs)
    PROVE  s = u
<1>1. ASSUME NEW i \in 1 .. Len(docs) PROVE s[i] = u[i]
  <2>1. /\ s[i] \in [1 .. Len(docs[i]) -> [1 .. Cols(docs[i]) -> CellState]]
        /\ u[i] \in [1 .. Len(docs[i]) -> [1 .. Cols(docs[i]) -> CellState]]
    BY DEF Fit, Grid
  <2>2. ASSUME NEW r \in 1 .. Len(docs[i]) PROVE s[i][r] = u[i][r]
    <3>1. s[i][r] \in [1 .. Cols(docs[i]) -> CellState] /\ u[i][r] \in [1 .. Cols(docs[i]) -> CellState]
      BY <2>1
    <3>2. \A c \in 1 .. Cols(docs[i]) : s[i][r][c] = u[i][r][c]
      BY DEF Alike, Place
    <3>3. PICK v, w, S : v = s[i][r] /\ w = u[i][r] /\ S = 1 .. Cols(docs[i])
      OBVIOUS
    <3>4. v \in [S -> CellState] /\ w \in [S -> CellState] /\ \A c \in S : v[c] = w[c]
      BY <3>1, <3>2, <3>3
    <3>5. v = w
      BY <3>4, SameFunction
    <3> QED
      BY <3>3, <3>5
  <2> QED
    BY <2>1, <2>2
<1> QED
  BY <1>1 DEF Fit

(* The screens that the view is stated with fit their document.            *)
LEMMA ScreensFit ==
    ASSUME NEW G \in SUBSET Source, NEW docs \in Seq(Table(G)), NEW f, NEW cell \in CellState
    PROVE  Fit(Screens(docs, f), docs) /\ Fit(ScreensWith(docs, f, cell), docs)
<1>1. ASSUME NEW i \in 1 .. Len(docs)
      PROVE  /\ GridOf(docs[i], Within(f, i)) \in Grid(docs[i]) /\ GridOf(docs[i], Within(f, i)) \in Seq(Seq(CellState))
             /\ GridWith(docs[i], Within(f, i), cell) \in Grid(docs[i]) /\ GridWith(docs[i], Within(f, i), cell) \in Seq(Seq(CellState))
  <2>1. docs[i] \in Table(G)
    BY SeqIs
  <2>2. GridOf(docs[i], Within(f, i)) \in Grid(docs[i]) /\ GridWith(docs[i], Within(f, i), cell) \in Grid(docs[i])
    BY <2>1, GridOfIs, GridWithIs
  <2> QED
    BY <2>1, <2>2, GridIs
<1> QED
  BY <1>1 DEF Screens, ScreensWith, Fit

(* What a document is made of.                                             *)
LEMMA DocIs ==
    ASSUME NEW G, NEW docs \in Seq(Table(G)), NEW i \in 1 .. Len(docs)
    PROVE  /\ Len(docs) \in Nat /\ docs[i] \in Table(G) /\ Len(docs[i]) \in Nat /\ Cols(docs[i]) \in Nat
           /\ \A r \in 1 .. Len(docs[i]) : \A c \in 1 .. Cols(docs[i]) : docs[i][r][c] \in Text(G) /\ docs[i][r][c] \in Seq(G)
<1>1. Len(docs) \in Nat /\ docs[i] \in Table(G)
  BY SeqIs
<1> QED
  BY <1>1, TableIs

(* The position in a widget and the position in the note.                  *)
LEMMA AtWithin ==
    ASSUME NEW G, NEW docs \in Seq(Table(G)), NEW f, f = NoCell \/ IsCell(docs, f),
           NEW i, NEW r, NEW c, Place(docs, i, r, c)
    PROVE  IsAt(Within(f, i), r, c) <=> f = <<i, r, c>>
<1>0. i \in Nat /\ r \in Nat /\ c \in Nat
  <2>1. i \in 1 .. Len(docs) /\ r \in 1 .. Len(docs[i]) /\ c \in 1 .. Cols(docs[i])
    BY DEF Place
  <2>2. Len(docs) \in Nat /\ Len(docs[i]) \in Nat /\ Cols(docs[i]) \in Nat
    BY <2>1, DocIs
  <2> QED
    BY <2>1, <2>2
<1>1. CASE f = NoCell
  BY <1>0, <1>1, NoCellApart DEF Within, IsAt
<1>2. CASE f # NoCell
  <2>1. PICK j, p, q : f = <<j, p, q>>
    BY <1>2 DEF IsCell
  <2>2. CASE j = i
    <3>1. Within(f, i) = <<p, q>>
      BY <1>2, <2>1, <2>2 DEF Within
    <3> QED
      BY <2>1, <2>2, <3>1 DEF IsAt
  <2>3. CASE j # i
    <3>1. Within(f, i) = NoCell
      BY <1>2, <2>1, <2>3 DEF Within
    <3> QED
      BY <1>0, <2>1, <2>3, <3>1, NoCellApart DEF IsAt
  <2> QED
    BY <2>2, <2>3
<1> QED
  BY <1>1, <1>2

(* A place has `cell` on screen when focus is there, and the rendered text *)
(* of the document elsewhere.                                              *)
Displays(screens, docs, f, cell, i, r, c) ==
    /\ f = <<i, r, c>> => screens[i][r][c] = cell
    /\ f # <<i, r, c>> => screens[i][r][c] = ToRendered(docs[i][r][c])

(* What the screens have at a cell.                                        *)
LEMMA ScreenAt ==
    ASSUME NEW G, NEW docs \in Seq(Table(G)), NEW f, f = NoCell \/ IsCell(docs, f),
           NEW i, NEW r, NEW c, Place(docs, i, r, c)
    PROVE  Displays(Screens(docs, f), docs, f, Focal(docs[i][r][c]), i, r, c)
<1>0. i \in 1 .. Len(docs) /\ r \in 1 .. Len(docs[i]) /\ c \in 1 .. Cols(docs[i])
  BY DEF Place
<1>1. IsAt(Within(f, i), r, c) <=> f = <<i, r, c>>
  BY AtWithin
<1>2. Screens(docs, f)[i] = GridOf(docs[i], Within(f, i))
  BY <1>0 DEF Screens
<1>3. /\ IsAt(Within(f, i), r, c) => GridOf(docs[i], Within(f, i))[r][c] = Focal(docs[i][r][c])
      /\ ~IsAt(Within(f, i), r, c) => GridOf(docs[i], Within(f, i))[r][c] = ToRendered(docs[i][r][c])
  BY <1>0, GridOfAt
<1> QED
  BY <1>1, <1>2, <1>3 DEF Displays

LEMMA ScreenWithAt ==
    ASSUME NEW G, NEW docs \in Seq(Table(G)), NEW f, f = NoCell \/ IsCell(docs, f), NEW cell,
           NEW i, NEW r, NEW c, Place(docs, i, r, c)
    PROVE  Displays(ScreensWith(docs, f, cell), docs, f, cell, i, r, c)
<1>0. i \in 1 .. Len(docs) /\ r \in 1 .. Len(docs[i]) /\ c \in 1 .. Cols(docs[i])
  BY DEF Place
<1>1. IsAt(Within(f, i), r, c) <=> f = <<i, r, c>>
  BY AtWithin
<1>2. ScreensWith(docs, f, cell)[i] = GridWith(docs[i], Within(f, i), cell)
  BY <1>0 DEF ScreensWith
<1>3. /\ IsAt(Within(f, i), r, c) => GridWith(docs[i], Within(f, i), cell)[r][c] = cell
      /\ ~IsAt(Within(f, i), r, c) => GridWith(docs[i], Within(f, i), cell)[r][c] = ToRendered(docs[i][r][c])
  BY <1>0, GridWithAt
<1> QED
  BY <1>1, <1>2, <1>3 DEF Displays

(* Focus that moves leaves grids of the same shape.                        *)
LEMMA MovedFit ==
    ASSUME NEW G \in SUBSET Source, NEW docs \in Seq(Table(G)), NEW s, Fit(s, docs),
           NEW from, from = NoCell \/ IsCell(docs, from), NEW to, to = NoCell \/ IsCell(docs, to)
    PROVE  Fit(MoveFocus(s, from, to), docs)
<1> DEFINE left == IF from = NoCell THEN s
                ELSE [s EXCEPT ![from[1]][from[2]][from[3]] = ToRendered(s[from[1]][from[2]][from[3]].src)]
<1>1. ASSUME NEW g, Fit(g, docs), NEW i \in 1 .. Len(docs), NEW r \in 1 .. Len(docs[i]), NEW c \in 1 .. Cols(docs[i])
      PROVE  g[i][r][c] \in CellState /\ ToRendered(g[i][r][c].src) \in CellState /\ ToRaw(g[i][r][c]) \in CellState
  <2>1. g[i][r][c] \in CellState
    <3>1. g[i] \in [1 .. Len(docs[i]) -> [1 .. Cols(docs[i]) -> CellState]]
      BY <1>1 DEF Fit, Grid
    <3>2. g[i][r] \in [1 .. Cols(docs[i]) -> CellState]
      BY <3>1
    <3> QED
      BY <3>2
  <2>2. g[i][r][c].src \in Seq(Source) /\ Unescape(g[i][r][c].src) \in Seq(Visible)
    BY <2>1, Alphabets DEF CellState
  <2> QED
    BY <2>1, <2>2 DEF CellState, ToRendered, ToRaw
<1>2. Fit(left, docs)
  <2>1. CASE from = NoCell
    BY <2>1
  <2>2. CASE from # NoCell
    <3>1. PICK i \in 1 .. Len(docs) : \E r \in 1 .. Len(docs[i]) : \E c \in 1 .. Cols(docs[i]) : from = <<i, r, c>>
      BY <2>2 DEF IsCell
    <3>2. PICK r \in 1 .. Len(docs[i]), c \in 1 .. Cols(docs[i]) : from = <<i, r, c>>
      BY <3>1
    <3>3. left = Put(s, i, r, c, ToRendered(s[i][r][c].src))
      BY <2>2, <3>2 DEF Put
    <3> HIDE DEF left
    <3>4. ToRendered(s[i][r][c].src) \in CellState
      BY <1>1
    <3>5. Place(docs, i, r, c)
      BY DEF Place
    <3> QED
      BY <3>3, <3>4, <3>5, CellSet
  <2> QED
    BY <2>1, <2>2
<1>3. MoveFocus(s, from, to) = IF to = NoCell THEN left ELSE [left EXCEPT ![to[1]][to[2]][to[3]] = ToRaw(left[to[1]][to[2]][to[3]])]
  BY DEF MoveFocus
<1> HIDE DEF left
<1>4. CASE to = NoCell
  BY <1>2, <1>3, <1>4
<1>5. CASE to # NoCell
  <2>1. PICK i \in 1 .. Len(docs) : \E r \in 1 .. Len(docs[i]) : \E c \in 1 .. Cols(docs[i]) : to = <<i, r, c>>
    BY <1>5 DEF IsCell
  <2>2. PICK r \in 1 .. Len(docs[i]), c \in 1 .. Cols(docs[i]) : to = <<i, r, c>>
    BY <2>1
  <2>3. MoveFocus(s, from, to) = Put(left, i, r, c, ToRaw(left[i][r][c]))
    BY <1>3, <1>5, <2>2 DEF Put
  <2>4. ToRaw(left[i][r][c]) \in CellState
    BY <1>1, <1>2
  <2>5. Place(docs, i, r, c)
    BY DEF Place
  <2> QED
    BY <1>2, <2>3, <2>4, <2>5, CellSet
<1> QED
  BY <1>4, <1>5

(* Focus that moves renders the cell it leaves and opens the one it        *)
(* enters.                                                                 *)
LEMMA MovedView ==
    ASSUME NEW G \in SUBSET Source, NEW docs \in Seq(Table(G)),
           NEW from, from = NoCell \/ IsCell(docs, from), NEW to, to = NoCell \/ IsCell(docs, to)
    PROVE  MoveFocus(Screens(docs, from), from, to) = Screens(docs, to)
<1> DEFINE s == Screens(docs, from)
           left == IF from = NoCell THEN s
                ELSE [s EXCEPT ![from[1]][from[2]][from[3]] = ToRendered(s[from[1]][from[2]][from[3]].src)]
           blurred == Screens(docs, NoCell)
<1>0. Blank \in Seq(Source)
  BY EmptySeq DEF Blank
<1>1. \A f : Fit(Screens(docs, f), docs)
  <2>1. Focal(Blank) \in CellState
    BY <1>0, CellIs
  <2> QED
    BY <2>1, ScreensFit
<1>2. ASSUME NEW f, f = NoCell \/ IsCell(docs, f), NEW i \in 1 .. Len(docs), NEW r \in 1 .. Len(docs[i]), NEW c \in 1 .. Cols(docs[i])
      PROVE  /\ f = <<i, r, c>> => Screens(docs, f)[i][r][c] = Focal(docs[i][r][c])
             /\ f # <<i, r, c>> => Screens(docs, f)[i][r][c] = ToRendered(docs[i][r][c])
             /\ docs[i][r][c] \in Seq(G) /\ Focal(docs[i][r][c]) \in CellState /\ ToRendered(docs[i][r][c]) \in CellState
             /\ i \in Nat /\ r \in Nat /\ c \in Nat
  <2>1. /\ Len(docs) \in Nat /\ Len(docs[i]) \in Nat /\ Cols(docs[i]) \in Nat
        /\ docs[i][r][c] \in Seq(G)
    BY DocIs
  <2>2. Focal(docs[i][r][c]) \in CellState /\ ToRendered(docs[i][r][c]) \in CellState
    BY <2>1, CellIs
  <2>3. /\ f = <<i, r, c>> => Screens(docs, f)[i][r][c] = Focal(docs[i][r][c])
        /\ f # <<i, r, c>> => Screens(docs, f)[i][r][c] = ToRendered(docs[i][r][c])
    <3>1. Place(docs, i, r, c)
      BY DEF Place
    <3>2. Displays(Screens(docs, f), docs, f, Focal(docs[i][r][c]), i, r, c)
      BY <1>2, <3>1, ScreenAt
    <3> QED
      BY <3>2 DEF Displays
  <2> QED
    BY <2>1, <2>2, <2>3
<1>3. left = blurred
  <2>1. CASE from = NoCell
    BY <2>1
  <2>2. CASE from # NoCell
    <3>1. PICK i \in 1 .. Len(docs) : \E r \in 1 .. Len(docs[i]) : \E c \in 1 .. Cols(docs[i]) : from = <<i, r, c>>
      BY <2>2 DEF IsCell
    <3>2. PICK r \in 1 .. Len(docs[i]), c \in 1 .. Cols(docs[i]) : from = <<i, r, c>>
      BY <3>1
    <3>3. s[i][r][c] = Focal(docs[i][r][c]) /\ ToRendered(docs[i][r][c]) \in CellState
      BY <1>2, <3>2
    <3>4. ToRendered(s[i][r][c].src) = ToRendered(docs[i][r][c])
      BY <3>3 DEF Focal
    <3>5. left = Put(s, i, r, c, ToRendered(docs[i][r][c]))
      BY <2>2, <3>2, <3>4 DEF Put
    <3>6. Fit(s, docs) /\ Fit(blurred, docs)
      BY <1>1
    <3>7. Fit(left, docs) /\ left[i][r][c] = ToRendered(docs[i][r][c]) /\ AlikeBut(left, s, docs, i, r, c)
      <4> DEFINE x == ToRendered(docs[i][r][c])
      <4>0. x \in CellState /\ Fit(s, docs) /\ left = Put(s, i, r, c, x)
        BY <3>3, <3>5, <3>6
      <4>1. Place(docs, i, r, c)
        BY DEF Place
      <4> HIDE DEF s, left, x
      <4>2. Fit(left, docs) /\ left[i][r][c] = x /\ AlikeBut(left, s, docs, i, r, c)
        BY <4>0, <4>1, CellSet
      <4> QED
        BY <4>2 DEF x
    <3>8. ASSUME NEW j \in 1 .. Len(docs), NEW p \in 1 .. Len(docs[j]), NEW q \in 1 .. Cols(docs[j])
          PROVE  left[j][p][q] = blurred[j][p][q]
      <4>1. blurred[j][p][q] = ToRendered(docs[j][p][q])
        <5>1. j \in Nat /\ p \in Nat /\ q \in Nat
          BY <1>2
        <5>2. NoCell # <<j, p, q>>
          BY <5>1, NoCellApart
        <5> QED
          BY <5>2, <1>2
      <4>2. CASE j = i /\ p = r /\ q = c
        BY <3>7, <4>1, <4>2
      <4>3. CASE ~(j = i /\ p = r /\ q = c)
        <5>1. from # <<j, p, q>>
          BY <3>2, <4>3
        <5>2. s[j][p][q] = ToRendered(docs[j][p][q])
          BY <1>2, <5>1
        <5> HIDE DEF s, left, blurred
        <5>3. left[j][p][q] = s[j][p][q]
          <6>1. Place(docs, j, p, q)
            BY DEF Place
          <6> QED
            BY <3>7, <4>3, <6>1 DEF AlikeBut
        <5> QED
          BY <4>1, <5>2, <5>3
      <4> QED
        BY <4>2, <4>3
    <3>9. Fit(left, docs) /\ Fit(blurred, docs)
      BY <3>6, <3>7
    <3> HIDE DEF left, blurred, s
    <3>10. Alike(left, blurred, docs)
      BY <3>8 DEF Alike, Place
    <3> QED
      BY <3>9, <3>10, ScreenSame
  <2> QED
    BY <2>1, <2>2
<1>4. MoveFocus(s, from, to) = IF to = NoCell THEN left ELSE [left EXCEPT ![to[1]][to[2]][to[3]] = ToRaw(left[to[1]][to[2]][to[3]])]
  BY DEF MoveFocus
<1> DEFINE after == MoveFocus(s, from, to)
           aim == Screens(docs, to)
<1> HIDE DEF left, s, after, aim
<1>5. CASE to = NoCell
  BY <1>3, <1>4, <1>5 DEF after, aim, s
<1>6. CASE to # NoCell
  <2>1. PICK i \in 1 .. Len(docs) : \E r \in 1 .. Len(docs[i]) : \E c \in 1 .. Cols(docs[i]) : to = <<i, r, c>>
    BY <1>6 DEF IsCell
  <2>2. PICK r \in 1 .. Len(docs[i]), c \in 1 .. Cols(docs[i]) : to = <<i, r, c>>
    BY <2>1
  <2>3. i \in Nat /\ r \in Nat /\ c \in Nat /\ docs[i][r][c] \in Seq(G) /\ Focal(docs[i][r][c]) \in CellState
    BY <1>2
  <2>4. blurred[i][r][c] = ToRendered(docs[i][r][c])
    <3>1. NoCell # <<i, r, c>>
      BY <2>3, NoCellApart
    <3> QED
      BY <3>1, <1>2
  <2> HIDE DEF blurred
  <2>5. ToRaw(blurred[i][r][c]) = Focal(docs[i][r][c])
    BY <2>4 DEF ToRaw, ToRendered, Focal
  <2>6. after = Put(blurred, i, r, c, Focal(docs[i][r][c]))
    BY <1>3, <1>4, <1>6, <2>2, <2>5 DEF after, Put
  <2>7. Fit(blurred, docs) /\ Fit(aim, docs)
    BY <1>1 DEF blurred, aim
  <2>8. Fit(after, docs) /\ after[i][r][c] = Focal(docs[i][r][c]) /\ AlikeBut(after, blurred, docs, i, r, c)
    <3>1. Place(docs, i, r, c)
      BY DEF Place
    <3> QED
      BY <2>3, <2>6, <2>7, <3>1, CellSet
  <2>9. ASSUME NEW j \in 1 .. Len(docs), NEW p \in 1 .. Len(docs[j]), NEW q \in 1 .. Cols(docs[j])
        PROVE  after[j][p][q] = aim[j][p][q]
    <3>1. CASE j = i /\ p = r /\ q = c
      <4>1. aim[i][r][c] = Focal(docs[i][r][c])
        BY <1>2, <2>2 DEF aim
      <4> QED
        BY <2>8, <3>1, <4>1
    <3>2. CASE ~(j = i /\ p = r /\ q = c)
      <4>1. to # <<j, p, q>>
        BY <2>2, <3>2
      <4>2. aim[j][p][q] = ToRendered(docs[j][p][q])
        BY <1>2, <4>1 DEF aim
      <4>3. blurred[j][p][q] = ToRendered(docs[j][p][q])
        <5>1. j \in Nat /\ p \in Nat /\ q \in Nat
          BY <1>2
        <5>2. NoCell # <<j, p, q>>
          BY <5>1, NoCellApart
        <5> QED
          BY <5>2, <1>2 DEF blurred
      <4>4. after[j][p][q] = blurred[j][p][q]
        <5>1. Place(docs, j, p, q)
          BY DEF Place
        <5> QED
          BY <2>8, <3>2, <5>1 DEF AlikeBut
      <4> QED
        BY <4>2, <4>3, <4>4
    <3> QED
      BY <3>1, <3>2
  <2>10. Alike(after, aim, docs)
    BY <2>9 DEF Alike, Place
  <2>11. after = aim
    BY <2>7, <2>8, <2>10, ScreenSame
  <2> QED
    BY <2>11 DEF after, aim, s
<1> QED
  BY <1>5, <1>6 DEF after, aim, s

(* SubSeq, InsertAt and RemoveAt, place by place.                          *)
LEMMA Slice ==
    ASSUME NEW S, NEW s \in Seq(S), NEW m \in 1 .. Len(s) + 1, NEW n \in m - 1 .. Len(s)
    PROVE  SubSeq(s, m, n) \in Seq(S) /\ Len(SubSeq(s, m, n)) = n - m + 1
           /\ \A i \in 1 .. n - m + 1 : SubSeq(s, m, n)[i] = s[m + i - 1]
<1>1. Len(s) \in Nat /\ \A i \in 1 .. Len(s) : s[i] \in S
  BY SeqIs
<1>2. m \in Int /\ n \in Int /\ \A i \in m .. n : s[i] \in S
  BY <1>1
<1>3. /\ SubSeq(s, m, n) \in Seq(S) /\ Len(SubSeq(s, m, n)) = (IF m <= n THEN n - m + 1 ELSE 0)
      /\ \A i \in 1 .. n - m + 1 : SubSeq(s, m, n)[i] = s[m + i - 1]
  BY <1>2, SubSeqProperties
<1>4. (IF m <= n THEN n - m + 1 ELSE 0) = n - m + 1
  BY <1>1, <1>2
<1> QED
  BY <1>3, <1>4

LEMMA Inserted ==
    ASSUME NEW S, NEW s \in Seq(S), NEW i \in 1 .. Len(s) + 1, NEW x \in S
    PROVE  LET t == InsertAt(s, i, x)
           IN  /\ t \in Seq(S) /\ Len(t) = Len(s) + 1
               /\ t[i] = x
               /\ \A j \in 1 .. Len(s) + 1 : /\ j < i => t[j] = s[j]
                                             /\ j > i => t[j] = s[j - 1]
<1> DEFINE a == SubSeq(s, 1, i - 1)
           b == SubSeq(s, i, Len(s))
           ax == a \o <<x>>
           t == ax \o b
           n == Len(s)
<1>1. n \in Nat /\ i \in Nat /\ 1 <= i /\ i <= n + 1 /\ i - 1 \in 1 - 1 .. n /\ n \in i - 1 .. n
  BY SeqIs
<1>2. a \in Seq(S) /\ Len(a) = i - 1 /\ \A j \in 1 .. i - 1 : a[j] = s[j]
  <2>1. /\ a \in Seq(S) /\ Len(a) = i - 1 - 1 + 1
        /\ \A j \in 1 .. i - 1 - 1 + 1 : a[j] = s[1 + j - 1]
    BY <1>1, Slice
  <2> HIDE DEF a
  <2> QED
    BY <1>1, <2>1
<1>3. b \in Seq(S) /\ Len(b) = n - i + 1 /\ \A j \in 1 .. n - i + 1 : b[j] = s[i + j - 1]
  BY <1>1, Slice
<1>4. <<x>> \in Seq(S) /\ Len(<<x>>) = 1 /\ <<x>>[1] = x
  OBVIOUS
<1>9. InsertAt(s, i, x) = t
  BY DEF InsertAt
<1> HIDE DEF a, b, n
<1>5. ax \in Seq(S) /\ Len(ax) = i /\ \A j \in 1 .. i : ax[j] = IF j <= i - 1 THEN a[j] ELSE <<x>>[j - (i - 1)]
  BY <1>1, <1>2, <1>4, ConcatProperties
<1> HIDE DEF ax
<1>6. t \in Seq(S) /\ Len(t) = n + 1 /\ \A j \in 1 .. n + 1 : t[j] = IF j <= i THEN ax[j] ELSE b[j - i]
  <2>1. Len(ax) + Len(b) = n + 1
    BY <1>1, <1>3, <1>5
  <2>2. /\ t \in Seq(S) /\ Len(t) = Len(ax) + Len(b)
        /\ \A j \in 1 .. Len(ax) + Len(b) : t[j] = IF j <= Len(ax) THEN ax[j] ELSE b[j - Len(ax)]
    BY <1>3, <1>5, ConcatProperties
  <2> QED
    BY <2>1, <2>2, <1>5
<1> HIDE DEF t
<1>7. t[i] = x
  BY <1>1, <1>4, <1>5, <1>6
<1>8. ASSUME NEW j \in 1 .. n + 1 PROVE (j < i => t[j] = s[j]) /\ (j > i => t[j] = s[j - 1])
  <2>1. CASE j < i
    <3>1. j \in 1 .. i /\ j <= i - 1 /\ j \in 1 .. i - 1 /\ j <= i
      BY <2>1, <1>1
    <3>2. ax[j] = a[j]
      BY <1>5, <3>1
    <3>3. t[j] = ax[j]
      BY <1>6, <3>1
    <3>4. ~(j > i)
      BY <2>1, <1>1
    <3> QED
      BY <1>2, <3>1, <3>2, <3>3, <3>4
  <2>2. CASE j > i
    <3>1. t[j] = b[j - i] /\ j - i \in 1 .. n - i + 1 /\ i + (j - i) - 1 = j - 1
      BY <2>2, <1>1, <1>6
    <3> QED
      BY <2>2, <3>1, <1>1, <1>3
  <2> QED
    BY <2>1, <2>2, <1>1
<1> QED
  BY <1>6, <1>7, <1>8, <1>9 DEF n

LEMMA Removed ==
    ASSUME NEW S, NEW s \in Seq(S), NEW i \in 1 .. Len(s)
    PROVE  LET t == RemoveAt(s, i)
           IN  /\ t \in Seq(S) /\ Len(t) = Len(s) - 1
               /\ \A j \in 1 .. Len(s) - 1 : t[j] = IF j < i THEN s[j] ELSE s[j + 1]
<1> DEFINE a == SubSeq(s, 1, i - 1)
           b == SubSeq(s, i + 1, Len(s))
           t == a \o b
           n == Len(s)
<1>1. n \in Nat /\ i \in Nat /\ 1 <= i /\ i <= n /\ i - 1 \in 1 - 1 .. n /\ i + 1 \in 1 .. n + 1 /\ n \in (i + 1) - 1 .. n /\ 1 \in 1 .. n + 1
  BY SeqIs
<1>2. a \in Seq(S) /\ Len(a) = i - 1 /\ \A j \in 1 .. i - 1 : a[j] = s[j]
  <2>1. /\ a \in Seq(S) /\ Len(a) = i - 1 - 1 + 1
        /\ \A j \in 1 .. i - 1 - 1 + 1 : a[j] = s[1 + j - 1]
    BY <1>1, Slice
  <2> HIDE DEF a
  <2> QED
    BY <1>1, <2>1
<1>3. b \in Seq(S) /\ Len(b) = n - i /\ \A j \in 1 .. n - i : b[j] = s[i + j]
  <2>1. /\ b \in Seq(S) /\ Len(b) = n - (i + 1) + 1
        /\ \A j \in 1 .. n - (i + 1) + 1 : b[j] = s[(i + 1) + j - 1]
    BY <1>1, Slice
  <2> HIDE DEF b, n
  <2>2. n - (i + 1) + 1 = n - i /\ \A j \in 1 .. n - i : (i + 1) + j - 1 = i + j
    BY <1>1
  <2> QED
    BY <2>1, <2>2
<1>9. RemoveAt(s, i) = t
  BY DEF RemoveAt
<1> HIDE DEF a, b, n
<1>6. t \in Seq(S) /\ Len(t) = n - 1 /\ \A j \in 1 .. n - 1 : t[j] = IF j <= i - 1 THEN a[j] ELSE b[j - (i - 1)]
  <2>1. Len(a) + Len(b) = n - 1
    BY <1>1, <1>2, <1>3
  <2>2. /\ t \in Seq(S) /\ Len(t) = Len(a) + Len(b)
        /\ \A j \in 1 .. Len(a) + Len(b) : t[j] = IF j <= Len(a) THEN a[j] ELSE b[j - Len(a)]
    BY <1>2, <1>3, ConcatProperties
  <2> QED
    BY <2>1, <2>2, <1>2
<1> HIDE DEF t
<1>8. ASSUME NEW j \in 1 .. n - 1 PROVE t[j] = IF j < i THEN s[j] ELSE s[j + 1]
  <2>1. CASE j < i
    BY <2>1, <1>1, <1>2, <1>6
  <2>2. CASE j >= i
    <3>1. t[j] = b[j - (i - 1)] /\ j - (i - 1) \in 1 .. n - i /\ i + (j - (i - 1)) = j + 1
      BY <2>2, <1>1, <1>6
    <3> QED
      BY <2>2, <3>1, <1>1, <1>3
  <2> QED
    BY <2>1, <2>2, <1>1
<1> QED
  BY <1>6, <1>8, <1>9 DEF n

(* A sheet with one row to skip is parsed to what is left without it.      *)
LEMMA ParsedWithout ==
    ASSUME NEW G, NEW t \in Filled(G), NEW r \in 1 .. Len(t), IsDivider(t[r]),
           \A p \in 1 .. Len(t) : p # r => ~IsDivider(t[p])
    PROVE  Parsed(t) = RemoveAt(t, r)
<1> DEFINE I == {p \in DOMAIN t : ~IsDivider(t[p])}
           n == Len(t)
           u == RemoveAt(t, r)
           pos == [k \in 1 .. n - 1 |-> IF k < r THEN k ELSE k + 1]
<1>1. t \in Seq(Seq(Text(G))) /\ DOMAIN t = 1 .. n /\ n \in Nat /\ r \in 1 .. n
  BY FilledIs
<1>2. I \cap 1 .. n = (1 .. n) \ {r}
  BY <1>1
<1>3. /\ u \in Seq(Seq(Text(G))) /\ Len(u) = n - 1
      /\ \A j \in 1 .. n - 1 : u[j] = IF j < r THEN t[j] ELSE t[j + 1]
  BY <1>1, Removed
<1> HIDE DEF I, u, n
<1>4. /\ pos \in [1 .. n - 1 -> (1 .. n) \ {r}]
      /\ \A k \in 1 .. n - 1 : u[k] = t[pos[k]]
      /\ \A k, l \in 1 .. n - 1 : k < l => pos[k] < pos[l]
  BY <1>1, <1>3
<1>5. ASSUME NEW i \in (1 .. n) \ {r} PROVE \E k \in 1 .. n - 1 : pos[k] = i
  <2>1. CASE i < r
    <3>1. i \in 1 .. n - 1
      BY <1>1, <2>1
    <3> QED
      BY <2>1, <3>1
  <2>2. CASE i > r
    <3>1. i - 1 \in 1 .. n - 1 /\ ~(i - 1 < r) /\ (i - 1) + 1 = i
      BY <1>1, <2>2
    <3> QED
      BY <3>1
  <2> QED
    BY <1>1, <2>1, <2>2
<1> HIDE DEF pos
<1>6. Places(pos, u, t, I \cap 1 .. n)
  BY <1>2, <1>3, <1>4, <1>5 DEF Places
<1>7. Picked(t, I) = u
  BY <1>1, <1>3, <1>6, PickedIs DEF n
<1> QED
  BY <1>7 DEF Parsed, I, u

(* render has nothing to fill up in a sheet whose rows are as long.        *)
LEMMA RenderIsIdle ==
    ASSUME NEW G, NEW t \in Filled(G)
    PROVE  Width(t) = Cols(t) /\ Render(t) = t
<1> DEFINE m == Cols(t)
<1>1. /\ Len(t) \in Nat \ {0} /\ m \in Nat \ {0} /\ DOMAIN t = 1 .. Len(t)
      /\ \A r \in 1 .. Len(t) : /\ t[r] \in Seq(Text(G)) /\ Len(t[r]) = m
                                /\ \A c \in 1 .. m : SrcAt(t, r, c) = t[r][c]
      /\ t \in Seq(Seq(Text(G)))
  BY FilledIs
<1>2. {Len(t[r]) : r \in DOMAIN t} = {m}
  <2>1. 1 \in 1 .. Len(t)
    BY <1>1
  <2> HIDE DEF m
  <2>2. \A r \in DOMAIN t : Len(t[r]) = m
    BY <1>1
  <2> QED
    BY <1>1, <2>1, <2>2
<1>3. Width(t) = m
  BY <1>1, <1>2, MaxOfOne DEF Width
<1> HIDE DEF m
<1>4. ASSUME NEW r \in 1 .. Len(t) PROVE [c \in 1 .. m |-> SrcAt(t, r, c)] = t[r]
  <2>1. t[r] \in [1 .. m -> Text(G)]
    BY <1>1, SeqIs
  <2>2. \A c \in 1 .. m : SrcAt(t, r, c) = t[r][c]
    BY <1>1
  <2> QED
    BY <2>1, <2>2
<1>5. Render(t) = [r \in 1 .. Len(t) |-> t[r]]
  BY <1>1, <1>3, <1>4 DEF Render
<1>6. t = [r \in 1 .. Len(t) |-> t[r]]
  <2>1. t \in [1 .. Len(t) -> Seq(Text(G))]
    BY <1>1
  <2> QED
    BY <2>1
<1> QED
  BY <1>3, <1>5, <1>6 DEF m

(* emptyRow is a row of empty cells.                                       *)
LEMMA EmptyRowIs ==
    ASSUME NEW G, NEW m \in Nat
    PROVE  EmptyRow(m) \in Seq(Text(G)) /\ Len(EmptyRow(m)) = m /\ \A c \in 1 .. m : EmptyRow(m)[c] = Blank
<1>1. EmptyRow(m) \in [1 .. m -> Text(G)]
  BY BlankIsText DEF EmptyRow
<1> QED
  BY <1>1, ASeq DEF EmptyRow

(* ------------------------- what a command makes of a sheet -------------- *)

(* The caret a command asks for is a cell of the sheet that it made.       *)
Inside(rows, caret) ==
    caret = NoCell \/ \E p \in 1 .. Len(rows) : \E q \in 1 .. Cols(rows) : caret = <<p, q>>

(* A row with an empty cell is never skipped.                              *)
LEMMA BlankIsNoDrawing == ASSUME NEW row, NEW c \in DOMAIN row, row[c] = Blank PROVE ~IsDivider(row)
<1>1. ~LooksDrawn(Blank)
  BY DEF LooksDrawn, Blank
<1> QED
  BY <1>1 DEF IsDivider

(* None of the rows is one that parsing skips.                             *)
NoneSkipped(t) == \A r \in 1 .. Len(t) : ~IsDivider(t[r])

(* tableInsertRowAbove, tableInsertRowBelow: the new row is empty.         *)
LEMMA RowInserted ==
    ASSUME NEW G, NEW t \in Filled(G), NEW i \in 1 .. Len(t) + 1
    PROVE  LET u == InsertAt(t, i, EmptyRow(Cols(t)))
           IN  /\ u \in Filled(G) /\ Len(u) = Len(t) + 1 /\ Cols(u) = Cols(t)
               /\ \A c \in 1 .. Cols(t) : u[i][c] = Blank
               /\ NoneSkipped(t) => NoneSkipped(u)
<1> DEFINE m == Cols(t)
           row == EmptyRow(m)
           u == InsertAt(t, i, row)
<1>1. /\ t \in Seq(Seq(Text(G))) /\ Len(t) \in Nat \ {0} /\ m \in Nat \ {0}
      /\ \A r \in 1 .. Len(t) : Len(t[r]) = m
  BY FilledIs
<1> HIDE DEF m
<1>2. row \in Seq(Text(G)) /\ Len(row) = m /\ \A c \in 1 .. m : row[c] = Blank
  BY <1>1, EmptyRowIs
<1> HIDE DEF row
<1>3. /\ u \in Seq(Seq(Text(G))) /\ Len(u) = Len(t) + 1 /\ u[i] = row
      /\ \A j \in 1 .. Len(t) + 1 : (j < i => u[j] = t[j]) /\ (j > i => u[j] = t[j - 1])
  BY <1>1, <1>2, Inserted
<1> HIDE DEF u
<1>4. ASSUME NEW j \in 1 .. Len(u) PROVE Len(u[j]) = m
  <2>0. i \in Int /\ j \in Int /\ Len(t) \in Int /\ 1 <= i /\ i <= Len(t) + 1 /\ 1 <= j /\ j <= Len(t) + 1
    BY <1>1, <1>3
  <2>1. CASE j < i
    <3>1. j \in 1 .. Len(t)
      BY <2>0, <2>1
    <3> QED
      BY <1>1, <1>3, <2>0, <2>1, <3>1
  <2>2. CASE j = i
    BY <1>2, <1>3, <2>2
  <2>3. CASE j > i
    <3>1. j - 1 \in 1 .. Len(t)
      BY <2>0, <2>3
    <3> QED
      BY <1>1, <1>3, <2>0, <2>3, <3>1
  <2> QED
    BY <2>0, <2>1, <2>2, <2>3
<1>5. Len(u) # 0
  BY <1>1, <1>3
<1>6. u \in Filled(G) /\ Cols(u) = m
  BY <1>1, <1>3, <1>4, <1>5, RowsMakeSheet
<1>7. ASSUME NoneSkipped(t) PROVE NoneSkipped(u)
  <2>1. ~IsDivider(row)
    <3>1. 1 \in DOMAIN row /\ row[1] = Blank
      BY <1>1, <1>2, SeqIs
    <3> QED
      BY <3>1, BlankIsNoDrawing
  <2>2. ASSUME NEW j \in 1 .. Len(u) PROVE ~IsDivider(u[j])
    <3>0. i \in Int /\ j \in Int /\ Len(t) \in Int /\ 1 <= i /\ i <= Len(t) + 1 /\ 1 <= j /\ j <= Len(t) + 1
      BY <1>1, <1>3
    <3>1. CASE j < i
      <4>1. j \in 1 .. Len(t) /\ u[j] = t[j]
        BY <1>1, <1>3, <3>0, <3>1
      <4> QED
        BY <1>7, <4>1 DEF NoneSkipped
    <3>2. CASE j = i
      BY <1>3, <2>1, <3>2
    <3>3. CASE j > i
      <4>1. j - 1 \in 1 .. Len(t) /\ u[j] = t[j - 1]
        BY <1>1, <1>3, <3>0, <3>3
      <4> QED
        BY <1>7, <4>1 DEF NoneSkipped
    <3> QED
      BY <3>0, <3>1, <3>2, <3>3
  <2> QED
    BY <2>2 DEF NoneSkipped
<1> QED
  BY <1>2, <1>3, <1>6, <1>7 DEF u, row, m

(* moveRow: the row is found at the other place.                           *)
LEMMA RowsSwapped ==
    ASSUME NEW G, NEW t \in Filled(G), NEW r \in 1 .. Len(t), NEW q \in 1 .. Len(t)
    PROVE  LET u == Swap(t, r, q)
           IN  u \in Filled(G) /\ Len(u) = Len(t) /\ Cols(u) = Cols(t) /\ u[q] = t[r] /\ (NoneSkipped(t) => NoneSkipped(u))
<1> DEFINE m == Cols(t)
           u == Swap(t, r, q)
<1>1. /\ t \in Seq(Seq(Text(G))) /\ Len(t) \in Nat \ {0} /\ m \in Nat \ {0} /\ DOMAIN t = 1 .. Len(t)
      /\ \A p \in 1 .. Len(t) : Len(t[p]) = m /\ t[p] \in Seq(Text(G))
  BY FilledIs
<1> HIDE DEF m
<1>2. t \in [1 .. Len(t) -> Seq(Text(G))]
  BY <1>1
<1>3. u = [[t EXCEPT ![r] = t[q]] EXCEPT ![q] = t[r]]
  BY DEF Swap
<1>4. u \in [1 .. Len(t) -> Seq(Text(G))] /\ u[q] = t[r]
      /\ \A p \in 1 .. Len(t) : \E o \in 1 .. Len(t) : u[p] = t[o]
  BY <1>2, <1>3
<1> HIDE DEF u
<1>5. u \in Seq(Seq(Text(G))) /\ Len(u) = Len(t)
  BY <1>1, <1>4, ASeq
<1>6. \A p \in 1 .. Len(u) : Len(u[p]) = m
  BY <1>1, <1>4, <1>5
<1>7. u \in Filled(G) /\ Cols(u) = m
  <2>1. Len(u) # 0 /\ m \in Nat \ {0}
    BY <1>1, <1>5
  <2> QED
    BY <1>5, <1>6, <2>1, RowsMakeSheet
<1>8. NoneSkipped(t) => NoneSkipped(u)
  BY <1>4, <1>5 DEF NoneSkipped
<1> QED
  BY <1>4, <1>5, <1>7, <1>8 DEF u, m

(* tableDeleteRow.                                                         *)
LEMMA RowRemoved ==
    ASSUME NEW G, NEW t \in Filled(G), NEW r \in 2 .. Len(t)
    PROVE  LET u == RemoveAt(t, r)
           IN  u \in Filled(G) /\ Len(u) = Len(t) - 1 /\ Cols(u) = Cols(t)
<1> DEFINE m == Cols(t)
           u == RemoveAt(t, r)
<1>1. /\ t \in Seq(Seq(Text(G))) /\ Len(t) \in Nat \ {0} /\ m \in Nat \ {0}
      /\ \A p \in 1 .. Len(t) : Len(t[p]) = m
  BY FilledIs
<1> HIDE DEF m
<1>2. r \in 1 .. Len(t) /\ Len(t) >= 2
  BY <1>1
<1>3. /\ u \in Seq(Seq(Text(G))) /\ Len(u) = Len(t) - 1
      /\ \A j \in 1 .. Len(t) - 1 : u[j] = IF j < r THEN t[j] ELSE t[j + 1]
  BY <1>1, <1>2, Removed
<1> HIDE DEF u
<1>4. ASSUME NEW j \in 1 .. Len(u) PROVE Len(u[j]) = m
  <2>1. j \in 1 .. Len(t) /\ j + 1 \in 1 .. Len(t)
    BY <1>1, <1>3
  <2> QED
    BY <1>1, <1>3, <2>1
<1>5. Len(u) # 0
  <2>1. Len(u) = Len(t) - 1
    BY <1>3
  <2> QED
    BY <1>1, <1>2, <2>1
<1>6. u \in Filled(G) /\ Cols(u) = m
  <2>1. u \in Seq(Seq(Text(G))) /\ m \in Nat \ {0}
    BY <1>1, <1>3
  <2> QED
    BY <1>4, <1>5, <2>1, RowsMakeSheet
<1> QED
  BY <1>3, <1>6 DEF u, m

(* insertColumn: the new column is empty under its heading.                *)
LEMMA ColumnInserted ==
    ASSUME NEW G, Heading \in Text(G), NEW t \in Filled(G), NEW at \in 1 .. Cols(t) + 1
    PROVE  LET u == WithColumn(t, at)
           IN  /\ u \in Filled(G) /\ Len(u) = Len(t) /\ Cols(u) = Cols(t) + 1
               /\ \A r \in 1 .. Len(t) : u[r][at] = IF r = 1 THEN Heading ELSE Blank
<1> DEFINE m == Cols(t)
           u == WithColumn(t, at)
           New(r) == InsertAt(t[r], at, IF r = 1 THEN Heading ELSE Blank)
<1>1. /\ Len(t) \in Nat \ {0} /\ m \in Nat \ {0} /\ DOMAIN t = 1 .. Len(t)
      /\ \A p \in 1 .. Len(t) : Len(t[p]) = m /\ t[p] \in Seq(Text(G))
  BY FilledIs
<1>2. at \in 1 .. m + 1
  OBVIOUS
<1>8. u = [r \in DOMAIN t |-> InsertAt(t[r], IF at > Len(t[r]) + 1 THEN Len(t[r]) + 1 ELSE at, IF r = 1 THEN Heading ELSE Blank)]
  BY DEF WithColumn
<1> HIDE DEF m
<1>3. u = [r \in 1 .. Len(t) |-> New(r)]
  <2>1. \A r \in 1 .. Len(t) : (IF at > Len(t[r]) + 1 THEN Len(t[r]) + 1 ELSE at) = at
    BY <1>1, <1>2
  <2> HIDE DEF u
  <2> QED
    BY <1>1, <1>8, <2>1
<1> HIDE DEF u
<1>4. ASSUME NEW r \in 1 .. Len(t) PROVE New(r) \in Seq(Text(G)) /\ Len(New(r)) = m + 1 /\ New(r)[at] = IF r = 1 THEN Heading ELSE Blank
  <2>1. t[r] \in Seq(Text(G)) /\ at \in 1 .. Len(t[r]) + 1 /\ Len(t[r]) = m
    BY <1>1, <1>2
  <2> DEFINE x == IF r = 1 THEN Heading ELSE Blank
  <2>2. x \in Text(G)
    BY BlankIsText
  <2> HIDE DEF x
  <2>4. PICK S : S = Text(G)
    OBVIOUS
  <2>5. /\ InsertAt(t[r], at, x) \in Seq(S) /\ Len(InsertAt(t[r], at, x)) = Len(t[r]) + 1
        /\ InsertAt(t[r], at, x)[at] = x
    <3>1. t[r] \in Seq(S) /\ at \in 1 .. Len(t[r]) + 1 /\ x \in S
      BY <2>1, <2>2, <2>4
    <3> QED
      BY <3>1, Inserted
  <2>3. InsertAt(t[r], at, x) \in Seq(Text(G)) /\ Len(InsertAt(t[r], at, x)) = m + 1 /\ InsertAt(t[r], at, x)[at] = x
    BY <2>1, <2>4, <2>5
  <2> QED
    BY <2>3 DEF x
<1> HIDE DEF New
<1>5. u \in [1 .. Len(t) -> Seq(Text(G))] /\ \A r \in 1 .. Len(t) : u[r] = New(r)
  BY <1>3, <1>4
<1>6. u \in Seq(Seq(Text(G))) /\ Len(u) = Len(t)
  BY <1>1, <1>5, ASeq
<1>7. u \in Filled(G) /\ Cols(u) = m + 1
  <2>1. m + 1 \in Nat \ {0}
    BY <1>1
  <2>2. Len(u) # 0 /\ \A r \in 1 .. Len(u) : Len(u[r]) = m + 1
    BY <1>1, <1>4, <1>5, <1>6
  <2> QED
    BY <1>6, <2>1, <2>2, RowsMakeSheet
<1> QED
  BY <1>4, <1>5, <1>6, <1>7 DEF u, m

(* tableDeleteColumn.                                                      *)
LEMMA ColumnRemoved ==
    ASSUME NEW G, NEW t \in Filled(G), NEW c \in 1 .. Cols(t), Cols(t) > 1
    PROVE  LET u == WithoutColumn(t, c)
           IN  u \in Filled(G) /\ Len(u) = Len(t) /\ Cols(u) = Cols(t) - 1
<1> DEFINE m == Cols(t)
           u == WithoutColumn(t, c)
           New(r) == RemoveAt(t[r], c)
<1>1. /\ Len(t) \in Nat \ {0} /\ m \in Nat \ {0} /\ DOMAIN t = 1 .. Len(t)
      /\ \A p \in 1 .. Len(t) : Len(t[p]) = m /\ t[p] \in Seq(Text(G))
  BY FilledIs
<1>2. c \in 1 .. m /\ m > 1
  OBVIOUS
<1>8. u = [r \in DOMAIN t |-> IF c <= Len(t[r]) THEN RemoveAt(t[r], c) ELSE t[r]]
  BY DEF WithoutColumn
<1> HIDE DEF m
<1>3. u = [r \in 1 .. Len(t) |-> New(r)]
  <2>1. \A r \in 1 .. Len(t) : c <= Len(t[r])
    BY <1>1, <1>2
  <2> HIDE DEF u
  <2> QED
    BY <1>1, <1>8, <2>1
<1> HIDE DEF u
<1>4. ASSUME NEW r \in 1 .. Len(t) PROVE New(r) \in Seq(Text(G)) /\ Len(New(r)) = m - 1
  <2>1. t[r] \in Seq(Text(G)) /\ c \in 1 .. Len(t[r]) /\ Len(t[r]) = m
    BY <1>1, <1>2
  <2> QED
    BY <2>1, Removed
<1> HIDE DEF New
<1>5. u \in [1 .. Len(t) -> Seq(Text(G))] /\ \A r \in 1 .. Len(t) : u[r] = New(r)
  BY <1>3, <1>4
<1>6. u \in Seq(Seq(Text(G))) /\ Len(u) = Len(t)
  BY <1>1, <1>5, ASeq
<1>7. u \in Filled(G) /\ Cols(u) = m - 1
  <2>1. m - 1 \in Nat \ {0}
    BY <1>1, <1>2
  <2>2. Len(u) # 0 /\ \A r \in 1 .. Len(u) : Len(u[r]) = m - 1
    BY <1>1, <1>4, <1>5, <1>6
  <2> QED
    BY <1>6, <2>1, <2>2, RowsMakeSheet
<1> QED
  BY <1>6, <1>7 DEF u, m

(* sort.                                                                   *)
LEMMA RowsSorted ==
    ASSUME NEW G, NEW t \in Filled(G), NEW p \in SetToSeqs(1 .. Len(t) - 1), Len(t) > 1
    PROVE  [k \in 1 .. Len(t) |-> IF k = 1 THEN t[1] ELSE t[p[k - 1] + 1]] \in Filled(G)
<1> DEFINE m == Cols(t)
           n == Len(t)
           u == [k \in 1 .. n |-> IF k = 1 THEN t[1] ELSE t[p[k - 1] + 1]]
<1>1. /\ n \in Nat \ {0} /\ m \in Nat \ {0}
      /\ \A r \in 1 .. n : Len(t[r]) = m /\ t[r] \in Seq(Text(G))
  BY FilledIs
<1>2. p \in [1 .. n - 1 -> 1 .. n - 1]
  <2>1. Cardinality(1 .. n - 1) = n - 1
    <3>1. 1 \in Int /\ n - 1 \in Int /\ (IF 1 > n - 1 THEN 0 ELSE n - 1 - 1 + 1) = n - 1
      BY <1>1
    <3> HIDE DEF n
    <3>2. Cardinality(1 .. n - 1) = IF 1 > n - 1 THEN 0 ELSE n - 1 - 1 + 1
      BY <3>1, FS_Interval
    <3> QED
      BY <3>1, <3>2
  <2>2. p \in [1 .. Cardinality(1 .. n - 1) -> 1 .. n - 1]
    BY DEF SetToSeqs
  <2> QED
    BY <2>1, <2>2
<1> HIDE DEF m, n
<1>3. ASSUME NEW k \in 1 .. n PROVE u[k] \in Seq(Text(G)) /\ Len(u[k]) = m
  <2>1. CASE k = 1
    <3>1. 1 \in 1 .. n /\ u[k] = t[1]
      BY <1>1, <2>1
    <3> QED
      BY <1>1, <3>1
  <2>2. CASE k # 1
    <3>1. k - 1 \in 1 .. n - 1
      BY <1>1, <2>2
    <3>2. p[k - 1] \in 1 .. n - 1
      BY <1>2, <3>1
    <3>3. p[k - 1] + 1 \in 1 .. n
      BY <1>1, <3>2
    <3>4. u[k] = t[p[k - 1] + 1]
      BY <2>2
    <3> HIDE DEF u
    <3> QED
      BY <1>1, <3>3, <3>4
  <2> QED
    BY <2>1, <2>2
<1>4. u = [k \in 1 .. n |-> u[k]]
  OBVIOUS
<1> HIDE DEF u
<1>5. u \in [1 .. n -> Seq(Text(G))]
  BY <1>3, <1>4
<1>6. u \in Seq(Seq(Text(G))) /\ Len(u) = n
  BY <1>1, <1>5, ASeq
<1>7. u \in Filled(G)
  <2>1. Len(u) # 0 /\ \A r \in 1 .. Len(u) : Len(u[r]) = m
    BY <1>1, <1>3, <1>6
  <2> QED
    BY <1>1, <1>6, <2>1, RowsMakeSheet
<1> QED
  BY <1>7 DEF u, n

(* A command makes a sheet of a sheet, and asks for focus in a cell of it. *)
LEMMA EditHolds ==
    ASSUME NEW G, Heading \in Text(G), NEW t \in Filled(G), NEW op \in Ops, NEW r \in 1 .. Len(t), NEW c \in 1 .. Cols(t),
           NEW e \in Edit(op, t, r, c)
    PROVE  e.rows \in Filled(G) /\ Inside(e.rows, e.caret)
<1> DEFINE n == Len(t)
           m == Cols(t)
           To(table, row, col) == {[rows |-> table, caret |-> <<row, col>>]}
<1>1. n \in Nat \ {0} /\ m \in Nat \ {0} /\ r \in 1 .. n /\ c \in 1 .. m
  BY FilledIs
<1>2. ASSUME NEW u \in Filled(G), NEW p \in 1 .. Len(u), NEW q \in 1 .. Cols(u), e \in To(u, p, q)
      PROVE  e.rows \in Filled(G) /\ Inside(e.rows, e.caret)
  <2>1. e.rows = u /\ e.caret = <<p, q>>
    BY <1>2
  <2> QED
    BY <2>1 DEF Inside
<1>3. CASE op = "insertRowAbove"
  <2> DEFINE at == IF r = 1 THEN 2 ELSE r
             u == InsertAt(t, at, EmptyRow(m))
  <2>1. at \in 1 .. n + 1
    BY <1>1
  <2>2. e \in To(u, at, c)
    BY <1>3 DEF Edit
  <2> HIDE DEF at
  <2>3. u \in Filled(G) /\ Len(u) = n + 1 /\ Cols(u) = m
    BY <2>1, RowInserted
  <2> HIDE DEF u, n, m, To
  <2> QED
    BY <1>1, <1>2, <2>1, <2>2, <2>3
<1>4. CASE op = "insertRowBelow"
  <2> DEFINE at == r + 1
             u == InsertAt(t, at, EmptyRow(m))
  <2>1. at \in 1 .. n + 1
    BY <1>1
  <2>2. e \in To(u, at, c)
    BY <1>4 DEF Edit
  <2> HIDE DEF at
  <2>3. u \in Filled(G) /\ Len(u) = n + 1 /\ Cols(u) = m
    BY <2>1, RowInserted
  <2> HIDE DEF u, n, m, To
  <2> QED
    BY <1>1, <1>2, <2>1, <2>2, <2>3
<1>5. CASE op = "moveRowUp"
  <2> DEFINE q == r - 1
             u == Swap(t, r, q)
  <2>1. ~(r <= 2) /\ e \in To(u, q, c)
    BY <1>5 DEF Edit
  <2>2. q \in 1 .. n
    BY <1>1, <2>1
  <2> HIDE DEF q
  <2>3. u \in Filled(G) /\ Len(u) = n /\ Cols(u) = m
    BY <2>2, RowsSwapped
  <2> HIDE DEF u, n, m, To
  <2> QED
    BY <1>1, <1>2, <2>1, <2>2, <2>3
<1>6. CASE op = "moveRowDown"
  <2> DEFINE q == r + 1
             u == Swap(t, r, q)
  <2>1. ~(r = 1 \/ r = n) /\ e \in To(u, q, c)
    BY <1>6 DEF Edit
  <2>2. q \in 1 .. n
    BY <1>1, <2>1
  <2> HIDE DEF q
  <2>3. u \in Filled(G) /\ Len(u) = n /\ Cols(u) = m
    BY <2>2, RowsSwapped
  <2> HIDE DEF u, n, m, To
  <2> QED
    BY <1>1, <1>2, <2>1, <2>2, <2>3
<1>7. CASE op = "deleteRow"
  <2> DEFINE q == Least(r, n - 1)
             u == RemoveAt(t, r)
  <2>1. r # 1 /\ e \in To(u, q, c)
    BY <1>7 DEF Edit
  <2>2. r \in 2 .. n /\ q \in 1 .. n - 1
    BY <1>1, <2>1 DEF Least
  <2> HIDE DEF q
  <2>3. u \in Filled(G) /\ Len(u) = n - 1 /\ Cols(u) = m
    BY <2>2, RowRemoved
  <2> HIDE DEF u, n, m, To
  <2> QED
    BY <1>1, <1>2, <2>1, <2>2, <2>3
<1>8. CASE op = "insertColumnLeft"
  <2> DEFINE u == WithColumn(t, c)
  <2>1. e \in To(u, r, c)
    BY <1>8 DEF Edit
  <2>2. c \in 1 .. m + 1
    BY <1>1
  <2>3. u \in Filled(G) /\ Len(u) = n /\ Cols(u) = m + 1
    BY <2>2, ColumnInserted
  <2> HIDE DEF u, n, m, To
  <2> QED
    BY <1>1, <1>2, <2>1, <2>2, <2>3
<1>9. CASE op = "insertColumnRight"
  <2> DEFINE at == c + 1
             u == WithColumn(t, at)
  <2>1. e \in To(u, r, at)
    BY <1>9 DEF Edit
  <2>2. at \in 1 .. m + 1
    BY <1>1
  <2> HIDE DEF at
  <2>3. u \in Filled(G) /\ Len(u) = n /\ Cols(u) = m + 1
    BY <2>2, ColumnInserted
  <2> HIDE DEF u, n, m, To
  <2> QED
    BY <1>1, <1>2, <2>1, <2>2, <2>3
<1>10. CASE op = "deleteColumn"
  <2> DEFINE q == Least(c, m - 1)
             u == WithoutColumn(t, c)
  <2>1. ~(m <= 1) /\ e \in To(u, r, q)
    BY <1>10 DEF Edit
  <2>2. m > 1 /\ q \in 1 .. m - 1
    BY <1>1, <2>1 DEF Least
  <2> HIDE DEF q
  <2>3. u \in Filled(G) /\ Len(u) = n /\ Cols(u) = m - 1
    BY <2>2, ColumnRemoved
  <2> HIDE DEF u, n, m, To
  <2> QED
    BY <1>1, <1>2, <2>1, <2>2, <2>3
<1>11. CASE op = "format"
  <2>1. e = [rows |-> t, caret |-> NoCell]
    BY <1>11 DEF Edit
  <2> QED
    BY <2>1 DEF Inside
<1>12. CASE op = "sort"
  <2>1. ~(n <= 2) /\ \E p \in SetToSeqs(1 .. n - 1) :
            e = [rows |-> [k \in 1 .. n |-> IF k = 1 THEN t[1] ELSE t[p[k - 1] + 1]], caret |-> NoCell]
    BY <1>12 DEF Edit
  <2>2. PICK p \in SetToSeqs(1 .. n - 1) :
            e = [rows |-> [k \in 1 .. n |-> IF k = 1 THEN t[1] ELSE t[p[k - 1] + 1]], caret |-> NoCell]
    BY <2>1
  <2> DEFINE u == [k \in 1 .. n |-> IF k = 1 THEN t[1] ELSE t[p[k - 1] + 1]]
  <2>3. n > 1
    BY <1>1, <2>1
  <2>4. u \in Filled(G)
    BY <2>3, RowsSorted
  <2>5. e.rows = u /\ e.caret = NoCell
    BY <2>2
  <2> HIDE DEF u
  <2> QED
    BY <2>4, <2>5 DEF Inside
<1> QED
  BY <1>3, <1>4, <1>5, <1>6, <1>7, <1>8, <1>9, <1>10, <1>11, <1>12 DEF Ops, RowOps, ColumnOps, OtherOps

(* ------------------------- one table, one cell -------------------------- *)

(* A document with one table replaced, and with one cell replaced.         *)
LEMMA TablePut ==
    ASSUME NEW G, NEW docs \in Seq(Table(G)), NEW i \in 1 .. Len(docs), NEW t \in Table(G)
    PROVE  LET u == [docs EXCEPT ![i] = t]
           IN  u \in Seq(Table(G)) /\ Len(u) = Len(docs) /\ u[i] = t /\ \A j \in 1 .. Len(docs) : j # i => u[j] = docs[j]
<1> DEFINE u == [docs EXCEPT ![i] = t]
<1>1. Len(docs) \in Nat /\ docs \in [1 .. Len(docs) -> Table(G)]
  BY SeqIs
<1>2. u \in [1 .. Len(docs) -> Table(G)] /\ u[i] = t /\ \A j \in 1 .. Len(docs) : j # i => u[j] = docs[j]
  BY <1>1
<1> HIDE DEF u
<1>3. u \in Seq(Table(G)) /\ Len(u) = Len(docs)
  BY <1>1, <1>2, ASeq
<1> QED
  BY <1>2, <1>3 DEF u

(* A sheet with one cell replaced.                                         *)
Wrote(t, r, c, x) == [t EXCEPT ![r] = [t[r] EXCEPT ![c] = x]]
LEMMA WrittenSheet ==
    ASSUME NEW G, NEW t \in Filled(G), NEW r \in 1 .. Len(t), NEW c \in 1 .. Cols(t), NEW x \in Text(G)
    PROVE  LET v == Wrote(t, r, c, x)
           IN  /\ v \in Filled(G) /\ Len(v) = Len(t) /\ Cols(v) = Cols(t)
               /\ v[r] = [t[r] EXCEPT ![c] = x] /\ v[r][c] = x
               /\ \A p \in 1 .. Len(t) : p # r => v[p] = t[p]
<1> DEFINE m == Cols(t)
           row == [t[r] EXCEPT ![c] = x]
           v == [t EXCEPT ![r] = row]
<1>2. /\ Len(t) \in Nat \ {0} /\ m \in Nat \ {0} /\ r \in 1 .. Len(t) /\ c \in 1 .. m
      /\ t \in Seq(Seq(Text(G)))
      /\ \A p \in 1 .. Len(t) : Len(t[p]) = m /\ t[p] \in Seq(Text(G))
  BY FilledIs
<1> HIDE DEF m
<1>3. row \in Seq(Text(G)) /\ Len(row) = m /\ row[c] = x
  <2>1. t[r] \in [1 .. m -> Text(G)]
    BY <1>2, SeqIs
  <2>2. row \in [1 .. m -> Text(G)] /\ row[c] = x
    BY <1>2, <2>1
  <2> HIDE DEF row
  <2> QED
    BY <1>2, <2>2, ASeq
<1>9. Wrote(t, r, c, x) = v
  BY DEF Wrote
<1> HIDE DEF row
<1>4. v \in Seq(Seq(Text(G))) /\ Len(v) = Len(t) /\ v[r] = row /\ \A p \in 1 .. Len(t) : p # r => v[p] = t[p]
  <2>1. t \in [1 .. Len(t) -> Seq(Text(G))]
    BY <1>2, SeqIs
  <2>2. v \in [1 .. Len(t) -> Seq(Text(G))] /\ v[r] = row /\ \A p \in 1 .. Len(t) : p # r => v[p] = t[p]
    BY <1>2, <1>3, <2>1
  <2> HIDE DEF v
  <2> QED
    BY <1>2, <2>2, ASeq
<1> HIDE DEF v
<1>5. v \in Filled(G) /\ Cols(v) = m
  <2>1. Len(v) # 0 /\ \A p \in 1 .. Len(v) : Len(v[p]) = m
    BY <1>2, <1>3, <1>4
  <2>2. v \in Seq(Seq(Text(G))) /\ m \in Nat \ {0}
    BY <1>2, <1>4
  <2> QED
    BY <2>1, <2>2, RowsMakeSheet
<1> QED
  BY <1>3, <1>4, <1>5, <1>9 DEF m, row

(* A table with one cell replaced, as it is parsed: the cell says what was *)
(* written, or its row is gone.                                            *)
LEMMA WrittenTable ==
    ASSUME NEW G, NEW t \in Table(G), NEW r \in 1 .. Len(t), NEW c \in 1 .. Cols(t), NEW x \in Text(G)
    PROVE  LET row == [t[r] EXCEPT ![c] = x]
               u == Parsed(Wrote(t, r, c, x))
           IN  /\ u \in Table(G)
               /\ IsDivider(row) => u = RemoveAt(t, r) /\ Len(u) = Len(t) - 1
               /\ ~IsDivider(row) => /\ u = [t EXCEPT ![r] = row] /\ Len(u) = Len(t) /\ Cols(u) = Cols(t)
                                     /\ u[r][c] = x
<1> DEFINE row == [t[r] EXCEPT ![c] = x]
           v == Wrote(t, r, c, x)
           u == Parsed(v)
<1>0. v = [t EXCEPT ![r] = row]
  BY DEF Wrote
<1>1. t \in Filled(G) /\ \A p \in 1 .. Len(t) : ~IsDivider(t[p])
  <2>1. t # <<>>
    BY TableIs
  <2> QED
    BY <2>1, TableIs
<1>2. /\ v \in Filled(G) /\ Len(v) = Len(t) /\ Cols(v) = Cols(t) /\ v[r] = row /\ v[r][c] = x
      /\ \A p \in 1 .. Len(t) : p # r => v[p] = t[p]
  BY <1>1, WrittenSheet
<1>3. Len(t) \in Nat \ {0} /\ t \in Seq(Seq(Text(G))) /\ DOMAIN t = 1 .. Len(t)
  BY <1>1, FilledIs
<1> HIDE DEF row, v
<1>4. u \in Table(G)
  BY <1>2, ParsedIs
<1>5. CASE IsDivider(row)
  <2>1. u = RemoveAt(v, r)
    BY <1>1, <1>2, <1>5, ParsedWithout
  <2>2. v \in Seq(Seq(Text(G))) /\ r \in 1 .. Len(v)
    BY <1>2, FilledIs
  <2>3. /\ RemoveAt(v, r) \in Seq(Seq(Text(G))) /\ Len(RemoveAt(v, r)) = Len(t) - 1
        /\ \A j \in 1 .. Len(t) - 1 : RemoveAt(v, r)[j] = IF j < r THEN v[j] ELSE v[j + 1]
    BY <1>2, <2>2, Removed
  <2>4. /\ RemoveAt(t, r) \in Seq(Seq(Text(G))) /\ Len(RemoveAt(t, r)) = Len(t) - 1
        /\ \A j \in 1 .. Len(t) - 1 : RemoveAt(t, r)[j] = IF j < r THEN t[j] ELSE t[j + 1]
    BY <1>3, Removed
  <2>5. ASSUME NEW j \in 1 .. Len(t) - 1 PROVE RemoveAt(v, r)[j] = RemoveAt(t, r)[j]
    <3>1. /\ j \in 1 .. Len(t) /\ j + 1 \in 1 .. Len(t) /\ (j < r => j # r) /\ (~(j < r) => j + 1 # r)
      BY <1>3
    <3>2. CASE j < r
      BY <1>2, <2>3, <2>4, <3>1, <3>2
    <3>3. CASE ~(j < r)
      BY <1>2, <2>3, <2>4, <3>1, <3>3
    <3> QED
      BY <3>2, <3>3
  <2>6. RemoveAt(v, r) = RemoveAt(t, r)
    BY <2>3, <2>4, <2>5, SeqSame
  <2> HIDE DEF u
  <2> QED
    BY <1>4, <1>5, <2>1, <2>3, <2>6 DEF u, v, row
<1>6. CASE ~IsDivider(row)
  <2>1. \A p \in 1 .. Len(v) : ~IsDivider(v[p])
    BY <1>1, <1>2, <1>6
  <2>2. u = v
    BY <1>2, <2>1, ParsedIdle
  <2> HIDE DEF u
  <2> QED
    BY <1>0, <1>2, <1>4, <1>6, <2>2 DEF u, v, row
<1> QED
  BY <1>5, <1>6

(* The document with x written in a cell, as it is parsed then: its row    *)
(* says so, or is gone, and every other table is the one it was.           *)
With(s, k, x) == [s EXCEPT ![k] = x]
Entered(i, r, c, x) == [doc EXCEPT ![i] = Parsed(Wrote(doc[i], r, c, x))]
LEMMA EnteredFrame ==
    ASSUME NEW G, doc \in Seq(Table(G)), NEW i \in 1 .. Len(doc), NEW r \in 1 .. Len(doc[i]),
           NEW c \in 1 .. Cols(doc[i]), NEW x \in Text(G), NEW u, u = Entered(i, r, c, x)
    PROVE  /\ u \in Seq(Table(G)) /\ Len(u) = Len(doc) /\ \A j \in 1 .. Len(doc) : j # i => u[j] = doc[j]
           /\ u[i] = Parsed(Wrote(doc[i], r, c, x))
<1> DEFINE t == doc[i]
           v == Parsed(Wrote(t, r, c, x))
<1>1. t \in Table(G) /\ r \in 1 .. Len(t) /\ c \in 1 .. Cols(t)
  BY SeqIs
<1> HIDE DEF t
<1>2. v \in Table(G)
  BY <1>1, WrittenTable
<1>3. u = [doc EXCEPT ![i] = v]
  BY DEF Entered, t
<1> HIDE DEF v
<1> QED
  BY <1>2, <1>3, TablePut DEF v, t

LEMMA EnteredIs ==
    ASSUME NEW G, doc \in Seq(Table(G)), NEW i \in 1 .. Len(doc), NEW r \in 1 .. Len(doc[i]),
           NEW c \in 1 .. Cols(doc[i]), NEW x \in Text(G), NEW u, u = Entered(i, r, c, x),
           NEW row, row = With(doc[i][r], c, x)
    PROVE  /\ IsDivider(row) => u[i] = RemoveAt(doc[i], r) /\ Len(u[i]) = Len(doc[i]) - 1
           /\ ~IsDivider(row) => /\ u[i] = With(doc[i], r, row) /\ u[i][r][c] = x
                                 /\ Len(u[i]) = Len(doc[i]) /\ Cols(u[i]) = Cols(doc[i])
<1> DEFINE t == doc[i]
           v == Parsed(Wrote(t, r, c, x))
<1>1. t \in Table(G) /\ r \in 1 .. Len(t) /\ c \in 1 .. Cols(t) /\ row = [t[r] EXCEPT ![c] = x]
  BY SeqIs DEF With
<1>2. u[i] = v
  BY EnteredFrame
<1> HIDE DEF t
<1>3. /\ IsDivider(row) => v = RemoveAt(t, r) /\ Len(v) = Len(t) - 1
      /\ ~IsDivider(row) => v = [t EXCEPT ![r] = row] /\ Len(v) = Len(t) /\ Cols(v) = Cols(t) /\ v[r][c] = x
  BY <1>1, WrittenTable
<1> HIDE DEF v
<1> QED
  BY <1>2, <1>3 DEF t, With

Reshow(cell, text) == [cell EXCEPT !.shown = text]
Writes(i, r, c, text) ==
    LET shown == Put(dom, i, r, c, Reshow(dom[i][r][c], text))
        docs == Entered(i, r, c, Trim(Escape(text)))
        idle == i \in composing' \/ Escape(text) = doc[i][r][c]
    IN  /\ idle => doc' = doc /\ dom' = shown /\ focus' = focus
        /\ ~idle => /\ doc' = docs /\ dom' = Updated(shown, docs, DOMAIN doc, {i})
                    /\ focus' = FocusKept(docs, DOMAIN doc)

(* The cell with focus shows `text`, and commit writes it over its source  *)
(* unless a composition holds it back or the source says so already.       *)
LEMMA Committed ==
    ASSUME NEW G \in SUBSET Source, doc \in Seq(Table(G)),
           NEW i, NEW r, NEW c, Place(doc, i, r, c), focus = <<i, r, c>>,
           NEW text, Escape(text) \in Seq(G), Commit(text)
    PROVE  Writes(i, r, c, text)
<1>0. i \in 1 .. Len(doc) /\ r \in 1 .. Len(doc[i]) /\ c \in 1 .. Cols(doc[i])
  BY DEF Place
<1> USE <1>0
<1> DEFINE row == doc[i][r]
           shown == [dom EXCEPT ![i][r][c].shown = text]
           new == SubSeq(row, 1, c - 1) \o SplitCells(Escape(text)) \o SubSeq(row, c + 1, Len(row))
<1>1. focus[1] = i /\ focus[2] = r /\ focus[3] = c
  OBVIOUS
<1>2. IF i \in composing' \/ c > Len(row) \/ Escape(text) = row[c]
      THEN doc' = doc /\ dom' = shown /\ focus' = focus
      ELSE /\ doc' = [doc EXCEPT ![i] = Parsed([doc[i] EXCEPT ![r] = new])]
           /\ dom' = Updated(shown, doc', DOMAIN doc, {i}) /\ focus' = FocusKept(doc', DOMAIN doc)
  BY <1>1 DEF Commit
<1>3. shown = Put(dom, i, r, c, Reshow(dom[i][r][c], text))
  BY DEF Put, Reshow
<1>4. doc[i] \in Table(G)
  BY SeqIs
<1>5. row \in Seq(Text(G)) /\ Len(row) = Cols(doc[i]) /\ Len(row) \in Nat
  <2> DEFINE t == doc[i]
  <2>1. t \in Table(G) /\ r \in 1 .. Len(t)
    BY <1>4
  <2> HIDE DEF t
  <2>2. t[r] \in Seq(Text(G)) /\ Len(t[r]) = Cols(t) /\ Cols(t) \in Nat
    BY <2>1, TableIs
  <2> QED
    BY <2>2 DEF t
<1>6. ~(c > Len(row))
  BY <1>5
<1>7. new = [row EXCEPT ![c] = Trim(Escape(text))]
  <2>1. Pipe \notin G
    BY DEF Source
  <2>2. SplitCells(Escape(text)) = <<Trim(Escape(text))>>
    BY <2>1, OneCell
  <2>3. Trim(Escape(text)) \in Text(G)
    BY TrimIsText
  <2> DEFINE x == Trim(Escape(text))
  <2>4. new = Splice(row, c, x)
    BY <2>2 DEF Splice
  <2>5. c \in 1 .. Len(row) /\ x \in Text(G)
    BY <1>5, <2>3
  <2> DEFINE S == Text(G)
  <2>7. row \in Seq(S) /\ c \in 1 .. Len(row) /\ x \in S
    BY <1>5, <2>5
  <2> HIDE DEF x, row, new, S
  <2>6. Splice(row, c, x) = Overwrite(row, c, x)
    BY <2>7, Spliced
  <2> QED
    BY <2>4, <2>6 DEF x, Overwrite
<1>8. [doc EXCEPT ![i] = Parsed([doc[i] EXCEPT ![r] = [row EXCEPT ![c] = Trim(Escape(text))]])]
          = Entered(i, r, c, Trim(Escape(text)))
  BY DEF Entered, Wrote
<1> HIDE DEF new, shown
<1> QED
  BY <1>2, <1>3, <1>6, <1>7, <1>8 DEF Writes

(* What a paste makes of a table.                                          *)
Pasted(table, clip, r0, c0) ==
    LET Inner(r, c) == r \in r0 .. r0 + Len(clip) - 1 /\ c \in c0 .. c0 + Cols(clip) - 1
        n == Max({Len(table), r0 + Len(clip) - 1})
        cols == Max({Width(table), c0 + Cols(clip) - 1})
        Cell(r, c) == IF Inner(r, c) THEN Trim(Escape(clip[r - r0 + 1][c - c0 + 1]))
                      ELSE IF r <= Len(table) THEN SrcAt(table, r, c) ELSE Blank
    IN  [r \in 1 .. n |-> [c \in 1 .. cols |-> Cell(r, c)]]

(* A paste makes a sheet of a table, and focus stays in it.                *)
LEMMA PastedTable ==
    ASSUME NEW V, NEW G, \A g \in V : Written(g) \in G, NEW t \in Filled(G), NEW clip \in Filled(V),
           NEW r0 \in 1 .. Len(t), NEW c0 \in 1 .. Cols(t)
    PROVE  LET u == Pasted(t, clip, r0, c0)
           IN  u \in Filled(G) /\ r0 \in 1 .. Len(u) /\ c0 \in 1 .. Cols(u)
<1> DEFINE Inner(r, c) == r \in r0 .. r0 + Len(clip) - 1 /\ c \in c0 .. c0 + Cols(clip) - 1
           n == Max({Len(t), r0 + Len(clip) - 1})
           cols == Max({Width(t), c0 + Cols(clip) - 1})
           Cell(r, c) == IF Inner(r, c) THEN Trim(Escape(clip[r - r0 + 1][c - c0 + 1]))
                         ELSE IF r <= Len(t) THEN SrcAt(t, r, c) ELSE Blank
           u == [r \in 1 .. n |-> [c \in 1 .. cols |-> Cell(r, c)]]
<1>1. /\ Len(t) \in Nat \ {0} /\ Cols(t) \in Nat \ {0} /\ Width(t) = Cols(t)
      /\ Len(clip) \in Nat \ {0} /\ Cols(clip) \in Nat \ {0}
  BY FilledIs, RenderIsIdle
<1>2. n \in Nat /\ n >= Len(t)
  <2>1. r0 + Len(clip) - 1 \in Nat
    BY <1>1
  <2> QED
    BY <1>1, <2>1, MaxOfTwo
<1>3. cols \in Nat /\ cols >= Cols(t)
  <2>1. c0 + Cols(clip) - 1 \in Nat
    BY <1>1
  <2> QED
    BY <1>1, <2>1, MaxOfTwo
<1>4. u = Pasted(t, clip, r0, c0)
  BY DEF Pasted
<1> HIDE DEF n, cols
<1>5. ASSUME NEW r \in 1 .. n, NEW c \in 1 .. cols PROVE Cell(r, c) \in Text(G)
  <2>0. Blank \in Text(G)
    BY BlankIsText
  <2>1. CASE Inner(r, c)
    <3> DEFINE p == r - r0 + 1
               q == c - c0 + 1
    <3>1. p \in 1 .. Len(clip) /\ q \in 1 .. Cols(clip)
      BY <1>1, <1>2, <1>3, <2>1
    <3> HIDE DEF p, q
    <3>2. clip[p][q] \in Seq(V)
      BY <3>1, FilledIs
    <3>3. Escape(clip[p][q]) \in Seq(G)
      BY <3>2, EscapeIsSeq
    <3>4. Trim(Escape(clip[p][q])) \in Text(G)
      BY <3>3, TrimIsText
    <3> QED
      BY <2>1, <3>4 DEF p, q
  <2>2. CASE ~Inner(r, c) /\ r <= Len(t)
    <3>1. r \in 1 .. Len(t)
      BY <1>1, <1>2, <2>2
    <3>2. SrcAt(t, r, c) \in Text(G)
      <4>1. CASE c <= Len(t[r])
        <5>1. c \in 1 .. Cols(t)
          BY <1>1, <1>3, <3>1, <4>1, FilledIs, SMTT(30)
        <5>2. \A p \in 1 .. Len(t) : \A q \in 1 .. Cols(t) : t[p][q] \in Text(G) /\ SrcAt(t, p, q) = t[p][q]
          BY FilledIs, SMTT(30)
        <5> QED
          BY <3>1, <5>1, <5>2
      <4>2. CASE ~(c <= Len(t[r]))
        BY <2>0, <4>2 DEF SrcAt
      <4> QED
        BY <4>1, <4>2
    <3> QED
      BY <2>2, <3>2
  <2>3. CASE ~Inner(r, c) /\ ~(r <= Len(t))
    BY <2>0, <2>3
  <2> QED
    BY <2>1, <2>2, <2>3
<1> HIDE DEF Cell
<1>6. u \in [1 .. n -> [1 .. cols -> Text(G)]]
  BY <1>5
<1> HIDE DEF u
<1>7. u \in Filled(G) /\ Len(u) = n /\ Cols(u) = cols
  <2>1. n \in Nat \ {0} /\ cols \in Nat \ {0}
    BY <1>1, <1>2, <1>3
  <2> QED
    BY <1>6, <2>1, MakeSheet, SMTT(30)
<1>8. r0 \in 1 .. n /\ c0 \in 1 .. cols
  BY <1>1, <1>2, <1>3
<1> QED
  BY <1>4, <1>7, <1>8

(* ------------------------------ the shape ------------------------------- *)

(* The tables are rectangular and hold trimmed source, each widget has as  *)
(* many rows and columns as its table, and focus is in one of the cells.   *)
ShapeInv ==
    /\ doc \in Seq(Table(Source)) /\ Fit(dom, doc)
    /\ focus = NoCell \/ IsCell(doc, focus)
    /\ composing \subseteq 1 .. Len(doc) /\ ime \in BOOLEAN /\ (ime => focus # NoCell /\ focus[1] \in composing)
    /\ typed \subseteq Keys /\ peer \in 0 .. MaxPeer /\ commands \in 0 .. MaxCommands

(* What the assumption on the constants says of the alphabets.             *)
LEMMA Typed == /\ Keys \subseteq Visible /\ Source \in SUBSET Source
               /\ \A g \in Visible : Written(g) \in Source
               /\ PeerKeys \subseteq Source \ {Space} /\ PeerKeys \subseteq Mark
               /\ \A g \in Mark : Written(g) = g
               /\ Doc0 \in Seq(Table(Source)) /\ Grids \subseteq Filled(Visible)
               /\ Heading \in Text(Source) /\ ~LooksDrawn(Heading)
               /\ Dash \in Source \ {Space} /\ PeerKeys \ {Dash, Colon} \subseteq Source
               /\ MaxPeer \in Nat /\ MaxCommands \in Nat
BY TableAssumption DEF Visible, Source, Glyph, Written, Filled

(* A position taken apart.                                                 *)
LEMMA CellOf ==
    ASSUME NEW G, NEW docs \in Seq(Table(G)), NEW f, IsCell(docs, f)
    PROVE  \E i \in 1 .. Len(docs) : \E r \in 1 .. Len(docs[i]) : \E c \in 1 .. Cols(docs[i]) :
               /\ f = <<i, r, c>> /\ f[1] = i /\ f[2] = r /\ f[3] = c /\ f # NoCell
               /\ i \in Nat /\ r \in Nat /\ c \in Nat
<1>1. PICK i \in 1 .. Len(docs) : \E r \in 1 .. Len(docs[i]) : \E c \in 1 .. Cols(docs[i]) : f = <<i, r, c>>
  BY DEF IsCell
<1>2. PICK r \in 1 .. Len(docs[i]), c \in 1 .. Cols(docs[i]) : f = <<i, r, c>>
  BY <1>1
<1>3. Len(docs) \in Nat /\ Len(docs[i]) \in Nat /\ Cols(docs[i]) \in Nat
  BY DocIs
<1>4. i \in Nat /\ r \in Nat /\ c \in Nat
  BY <1>3
<1>5. f # NoCell
  BY <1>2, <1>4, NoCellApart
<1> QED
  BY <1>2, <1>4, <1>5

(* What a screen that fits has at a cell.                                  *)
LEMMA ScreenCell ==
    ASSUME NEW docs, NEW s, Fit(s, docs),
           NEW i \in 1 .. Len(docs), NEW r \in 1 .. Len(docs[i]), NEW c \in 1 .. Cols(docs[i])
    PROVE  s[i][r][c] \in CellState
<1>1. s[i] \in [1 .. Len(docs[i]) -> [1 .. Cols(docs[i]) -> CellState]]
  BY DEF Fit, Grid
<1>2. s[i][r] \in [1 .. Cols(docs[i]) -> CellState]
  BY <1>1
<1> QED
  BY <1>2

(* Focus that a widget keeps is in a cell of its new table.                *)
LEMMA KeptCell ==
    ASSUME doc \in Seq(Table(Source)), Fit(dom, doc), focus = NoCell \/ IsCell(doc, focus),
           NEW docs \in Seq(Table(Source)), NEW kept \in SUBSET ((1 .. Len(doc)) \cap (1 .. Len(docs)))
    PROVE  LET k == FocusKept(docs, kept)
           IN  /\ k = NoCell \/ (k = focus /\ IsCell(docs, focus) /\ focus # NoCell /\ focus[1] \in kept)
               /\ k = NoCell \/ IsCell(docs, k)
<1>1. CASE FocusKept(docs, kept) = NoCell
  BY <1>1
<1>2. CASE FocusKept(docs, kept) # NoCell
  <2>1. focus # NoCell /\ focus[1] \in kept /\ SameShape(dom[focus[1]], docs[focus[1]]) /\ FocusKept(docs, kept) = focus
    BY <1>2 DEF FocusKept
  <2>2. PICK i \in 1 .. Len(doc) : \E r \in 1 .. Len(doc[i]) : \E c \in 1 .. Cols(doc[i]) : focus = <<i, r, c>> /\ focus[1] = i
    BY <2>1, CellOf
  <2>3. PICK r \in 1 .. Len(doc[i]), c \in 1 .. Cols(doc[i]) : focus = <<i, r, c>> /\ focus[1] = i
    BY <2>2
  <2>4. doc[i] \in Table(Source) /\ dom[i] \in Grid(doc[i]) /\ i \in 1 .. Len(docs)
    BY <2>1, <2>3, FitIs
  <2>5. Len(docs[i]) = Len(doc[i]) /\ Cols(docs[i]) = Cols(doc[i])
    <3>1. SameShape(dom[i], docs[i])
      BY <2>1, <2>3
    <3> QED
      BY <2>4, <3>1, GridIs
  <2>6. r \in 1 .. Len(docs[i]) /\ c \in 1 .. Cols(docs[i]) /\ focus = <<i, r, c>>
    BY <2>3, <2>5
  <2>7. IsCell(docs, focus)
    BY <2>4, <2>6 DEF IsCell
  <2> QED
    BY <2>1, <2>7
<1> QED
  BY <1>1, <1>2

(* A table is replaced, and focus goes where that asks for it.             *)
LEMMA RewrittenFit ==
    ASSUME doc \in Seq(Table(Source)), Fit(dom, doc), focus = NoCell \/ IsCell(doc, focus),
           NEW i \in 1 .. Len(doc), NEW rows \in Filled(Source), NEW caret, Inside(rows, caret),
           Rewrite(i, rows, caret)
    PROVE  LET docs == [doc EXCEPT ![i] = Parsed(rows)]
           IN  /\ doc' = docs /\ doc' \in Seq(Table(Source)) /\ Len(doc') = Len(doc)
               /\ Fit(dom', doc')
               /\ focus' = NoCell \/ IsCell(doc', focus')
<1> DEFINE docs == [doc EXCEPT ![i] = Parsed(rows)]
           updated == Updated(dom, docs, DOMAIN doc, {i})
           kept == FocusKept(docs, DOMAIN doc)
           to == IF caret = NoCell \/ caret[1] > Len(docs[i]) \/ caret[2] > Cols(docs[i])
                 THEN kept ELSE <<i, caret[1], caret[2]>>
<1>1. Render(rows) = rows
  BY RenderIsIdle
<1>2. doc' = docs /\ dom' = (IF to = kept THEN updated ELSE MoveFocus(updated, kept, to)) /\ focus' = to
  BY <1>1 DEF Rewrite
<1>3. docs \in Seq(Table(Source)) /\ Len(docs) = Len(doc) /\ docs[i] = Parsed(rows) /\ \A j \in 1 .. Len(doc) : j # i => docs[j] = doc[j]
  <2>1. Parsed(rows) \in Table(Source)
    BY ParsedIs
  <2> QED
    BY <2>1, TablePut
<1> HIDE DEF docs
<1>4. DOMAIN doc = 1 .. Len(doc) /\ Len(doc) \in Nat
  BY SeqIs
<1>5. kept = NoCell \/ IsCell(docs, kept)
  <2>1. DOMAIN doc \in SUBSET ((1 .. Len(doc)) \cap (1 .. Len(docs)))
    BY <1>3, <1>4
  <2> QED
    BY <1>3, <2>1, KeptCell
<1> HIDE DEF kept
<1>6. to = NoCell \/ IsCell(docs, to)
  <2>1. CASE caret = NoCell \/ caret[1] > Len(docs[i]) \/ caret[2] > Cols(docs[i])
    BY <1>5, <2>1
  <2>2. CASE ~(caret = NoCell \/ caret[1] > Len(docs[i]) \/ caret[2] > Cols(docs[i]))
    <3>1. PICK p \in 1 .. Len(rows) : \E q \in 1 .. Cols(rows) : caret = <<p, q>>
      BY <2>2 DEF Inside
    <3>2. PICK q \in 1 .. Cols(rows) : caret = <<p, q>>
      BY <3>1
    <3>3. to = <<i, p, q>>
      BY <2>2, <3>2
    <3>4. i \in 1 .. Len(docs) /\ p \in 1 .. Len(docs[i]) /\ q \in 1 .. Cols(docs[i])
      <4>1. Len(rows) \in Nat /\ Cols(rows) \in Nat
        BY FilledIs
      <4>2. i \in 1 .. Len(docs)
        BY <1>3
      <4>3. Len(docs[i]) \in Nat /\ Cols(docs[i]) \in Nat
        BY <1>3, <4>2, DocIs
      <4>4. ~(p > Len(docs[i])) /\ ~(q > Cols(docs[i]))
        BY <2>2, <3>2
      <4> QED
        BY <4>1, <4>2, <4>3, <4>4
    <3> QED
      BY <3>3, <3>4 DEF IsCell
  <2> QED
    BY <2>1, <2>2
<1> HIDE DEF to
<1>7. Fit(updated, docs)
  <2>1. DOMAIN doc \in SUBSET ((1 .. Len(doc)) \cap (1 .. Len(docs))) /\ \A j \in DOMAIN doc \ {i} : docs[j] = doc[j]
    BY <1>3, <1>4
  <2>2. Source \in SUBSET Source
    OBVIOUS
  <2> QED
    BY <1>3, <2>1, <2>2, UpdatedFit
<1> HIDE DEF updated
<1>8. Fit(dom', docs)
  <2>1. CASE to = kept
    BY <1>2, <1>7, <2>1
  <2>2. CASE to # kept
    <3>1. Source \in SUBSET Source
      OBVIOUS
    <3>2. Fit(MoveFocus(updated, kept, to), docs)
      BY <1>3, <1>5, <1>6, <1>7, <3>1, MovedFit
    <3> QED
      BY <1>2, <2>2, <3>2
  <2> QED
    BY <2>1, <2>2
<1> QED
  BY <1>2, <1>3, <1>6, <1>8 DEF docs

(* A change from elsewhere keeps the shape.                                *)
LEMMA ArrivedFit ==
    ASSUME ShapeInv, NEW docs \in Seq(Table(Source)),
           NEW kept \in SUBSET ((1 .. Len(doc)) \cap (1 .. Len(docs))), NEW changed,
           \A i \in kept \ changed : docs[i] = doc[i],
           Arrive(docs, kept, changed)
    PROVE  ShapeInv'
<1> USE DEF ShapeInv
<1>1. /\ peer < MaxPeer /\ peer' = peer + 1 /\ doc' = docs /\ focus' = FocusKept(docs, kept)
      /\ composing' = (composing \cap kept) \ {i \in composing : EndHeard /\ focus' = NoCell}
      /\ ime' = (ime /\ focus' # NoCell)
      /\ dom' = Updated(dom, docs, kept, changed) /\ typed' = typed /\ commands' = commands
  BY DEF Arrive
<1>2. Fit(dom', docs)
  <2>1. Source \in SUBSET Source
    OBVIOUS
  <2>2. Fit(Updated(dom, docs, kept, changed), docs)
    BY <2>1, UpdatedFit
  <2> QED
    BY <1>1, <2>2
<1>3. /\ focus' = NoCell \/ (focus' = focus /\ focus[1] \in kept)
      /\ focus' = NoCell \/ IsCell(docs, focus')
  BY <1>1, KeptCell
<1>4. composing' \subseteq 1 .. Len(docs) /\ ime' \in BOOLEAN
  BY <1>1
<1>5. ime' => focus' # NoCell /\ focus'[1] \in composing'
  BY <1>1, <1>3
<1>6. peer' \in 0 .. MaxPeer
  BY <1>1, Typed
<1> QED
  BY <1>1, <1>2, <1>3, <1>4, <1>5, <1>6

(* A commit keeps the shape, and takes focus away with its row only.       *)
LEMMA CommittedFit ==
    ASSUME doc \in Seq(Table(Source)), Fit(dom, doc), IsCell(doc, focus),
           NEW text \in Seq(Visible), Commit(text)
    PROVE  /\ doc' \in Seq(Table(Source)) /\ Len(doc') = Len(doc) /\ Fit(dom', doc')
           /\ focus' = NoCell \/ (focus' = focus /\ IsCell(doc', focus))
           /\ focus[1] \in composing' => focus' = focus
<1>1. PICK i \in 1 .. Len(doc) : \E r \in 1 .. Len(doc[i]) : \E c \in 1 .. Cols(doc[i]) : focus = <<i, r, c>>
  BY DEF IsCell
<1>2. PICK r \in 1 .. Len(doc[i]), c \in 1 .. Cols(doc[i]) : focus = <<i, r, c>>
  BY <1>1
<1> DEFINE shown == Put(dom, i, r, c, Reshow(dom[i][r][c], text))
           src == Trim(Escape(text))
           docs == Entered(i, r, c, src)
           idle == i \in composing' \/ Escape(text) = doc[i][r][c]
<1>3. Escape(text) \in Seq(Source)
  BY Typed, EscapeIsSeq
<1>4. /\ idle => doc' = doc /\ dom' = shown /\ focus' = focus
      /\ ~idle => /\ doc' = docs /\ dom' = Updated(shown, docs, DOMAIN doc, {i})
                  /\ focus' = FocusKept(docs, DOMAIN doc)
  <2>1. Source \in SUBSET Source
    OBVIOUS
  <2>2. Place(doc, i, r, c)
    BY DEF Place
  <2>3. Writes(i, r, c, text)
    BY <1>2, <1>3, <2>1, <2>2, Committed
  <2> QED
    BY <2>3 DEF Writes
<1>9. focus[1] \in composing' => idle
  BY <1>2
<1> HIDE DEF idle
<1>5. Fit(shown, doc)
  <2>1. dom[i][r][c] \in CellState
    BY ScreenCell
  <2>2. Reshow(dom[i][r][c], text) \in CellState
    <3>1. Reshow(dom[i][r][c], text) = [src |-> dom[i][r][c].src, shown |-> text, raw |-> dom[i][r][c].raw]
      BY <2>1, CellExcept DEF Reshow
    <3> QED
      BY <2>1, <3>1 DEF CellState
  <2> DEFINE x == Reshow(dom[i][r][c], text)
  <2>3. x \in CellState
    BY <2>2
  <2> HIDE DEF x
  <2>4. Place(doc, i, r, c) /\ doc \in Seq(Table(Source)) /\ Fit(dom, doc)
    BY DEF Place
  <2>5. Fit(Put(dom, i, r, c, x), doc)
    BY <2>3, <2>4, CellSet
  <2> QED
    BY <2>5 DEF x
<1> HIDE DEF shown
<1>6. /\ docs \in Seq(Table(Source)) /\ Len(docs) = Len(doc)
      /\ \A j \in 1 .. Len(doc) : j # i => docs[j] = doc[j]
  <2>1. src \in Text(Source)
    BY <1>3, TrimIsText
  <2>2. PICK x : x = src
    OBVIOUS
  <2>3. x \in Text(Source)
    BY <2>1, <2>2
  <2>6. PICK u : u = Entered(i, r, c, x)
    OBVIOUS
  <2>4. u \in Seq(Table(Source)) /\ Len(u) = Len(doc) /\ \A j \in 1 .. Len(doc) : j # i => u[j] = doc[j]
    BY <2>3, <2>6, EnteredFrame
  <2>5. docs = u
    BY <2>2, <2>6
  <2> HIDE DEF docs
  <2> QED
    BY <2>4, <2>5
<1> HIDE DEF docs
<1>7. CASE idle
  BY <1>4, <1>5, <1>7
<1>8. CASE ~idle
  <2>1. DOMAIN doc \in SUBSET ((1 .. Len(doc)) \cap (1 .. Len(docs))) /\ \A j \in DOMAIN doc \ {i} : docs[j] = doc[j]
    BY <1>6, SeqIs
  <2>2. Source \in SUBSET Source
    OBVIOUS
  <2>3. Fit(Updated(shown, docs, DOMAIN doc, {i}), docs)
    BY <1>5, <1>6, <2>1, <2>2, UpdatedFit
  <2>4. doc' = docs /\ dom' = Updated(shown, docs, DOMAIN doc, {i})
    BY <1>4, <1>8
  <2>5. focus' = NoCell \/ (focus' = focus /\ IsCell(docs, focus))
    BY <1>4, <1>6, <1>8, <2>1, KeptCell
  <2> QED
    BY <1>6, <1>8, <1>9, <2>3, <2>4, <2>5
<1> QED
  BY <1>7, <1>8

(* Focus is in a cell, which shows a text.                                 *)
LEMMA InCell ==
    ASSUME ShapeInv, focus # NoCell
    PROVE  IsCell(doc, focus) /\ focus[1] \in 1 .. Len(doc) /\ Shown(focus) \in Seq(Visible)
<1>1. IsCell(doc, focus)
  BY DEF ShapeInv
<1>2. PICK i \in 1 .. Len(doc) : \E r \in 1 .. Len(doc[i]) : \E c \in 1 .. Cols(doc[i]) :
          focus = <<i, r, c>> /\ focus[1] = i /\ focus[2] = r /\ focus[3] = c
  BY <1>1, CellOf DEF ShapeInv
<1>3. PICK r \in 1 .. Len(doc[i]), c \in 1 .. Cols(doc[i]) : focus[1] = i /\ focus[2] = r /\ focus[3] = c
  BY <1>2
<1>4. dom[i][r][c] \in CellState
  BY ScreenCell DEF ShapeInv
<1>5. Shown(focus) = dom[i][r][c].shown
  BY <1>3 DEF Shown
<1> QED
  BY <1>1, <1>3, <1>4, <1>5 DEF CellState

(* The shape, action by action.                                            *)
LEMMA ShapeInit == Init => ShapeInv
<1> SUFFICES ASSUME Init PROVE ShapeInv
  OBVIOUS
<1>1. /\ doc = Doc0 /\ dom = [i \in DOMAIN Doc0 |-> RebuildGrid(Doc0[i])]
      /\ focus = NoCell /\ composing = {} /\ ime = FALSE
      /\ typed = {} /\ peer = 0 /\ commands = 0
  BY DEF Init
<1>2. Doc0 \in Seq(Table(Source)) /\ DOMAIN Doc0 = 1 .. Len(Doc0)
  BY Typed, SeqIs
<1>3. Fit(dom, doc)
  <2>1. ASSUME NEW i \in 1 .. Len(Doc0)
        PROVE  RebuildGrid(Doc0[i]) \in Grid(Doc0[i]) /\ RebuildGrid(Doc0[i]) \in Seq(Seq(CellState))
    <3>1. Doc0[i] \in Table(Source) /\ Source \in SUBSET Source
      BY <1>2, SeqIs
    <3>2. RebuildGrid(Doc0[i]) \in Grid(Doc0[i])
      BY <3>1, RebuiltGrid
    <3> QED
      BY <3>1, <3>2, GridIs
  <2> QED
    BY <1>1, <1>2, <2>1 DEF Fit
<1>4. peer \in 0 .. MaxPeer /\ commands \in 0 .. MaxCommands
  BY <1>1, Typed
<1> QED
  BY <1>1, <1>2, <1>3, <1>4 DEF ShapeInv

LEMMA FocusShape == ASSUME ShapeInv, NEW to \in Cells(dom) \cup {NoCell}, Focus(to) PROVE ShapeInv'
<1>1. /\ dom' = MoveFocus(dom, focus, to) /\ focus' = to
      /\ UNCHANGED <<doc, composing, ime, typed, counters>> /\ ~ime
  BY DEF Focus
<1>2. to = NoCell \/ IsCell(doc, to)
  BY CellsAre DEF ShapeInv
<1>3. Fit(dom', doc)
  <2>1. Source \in SUBSET Source
    OBVIOUS
  <2>2. Fit(MoveFocus(dom, focus, to), doc)
    BY <1>2, <2>1, MovedFit DEF ShapeInv
  <2> QED
    BY <1>1, <2>2
<1> QED
  BY <1>1, <1>2, <1>3 DEF ShapeInv, counters

LEMMA TypeShape == ASSUME ShapeInv, NEW key \in Keys, Type(key) PROVE ShapeInv'
<1>1. /\ key \in Keys \ typed /\ focus # NoCell /\ typed' = typed \cup {key}
      /\ UNCHANGED <<composing, ime, counters>>
      /\ Commit(Append(Shown(focus), key))
  BY DEF Type, Input
<1>2. IsCell(doc, focus) /\ focus[1] \in 1 .. Len(doc) /\ Shown(focus) \in Seq(Visible)
  BY <1>1, InCell
<1>3. Append(Shown(focus), key) \in Seq(Visible)
  BY <1>2, Typed, AppendProperties
<1>4. /\ doc' \in Seq(Table(Source)) /\ Len(doc') = Len(doc) /\ Fit(dom', doc')
      /\ focus' = NoCell \/ (focus' = focus /\ IsCell(doc', focus))
      /\ focus[1] \in composing' => focus' = focus
  BY <1>1, <1>2, <1>3, CommittedFit DEF ShapeInv
<1> QED
  BY <1>1, <1>4 DEF ShapeInv, counters

LEMMA EraseShape == ASSUME ShapeInv, Erase PROVE ShapeInv'
<1>1. /\ focus # NoCell /\ typed' = typed /\ Shown(focus) # Blank
      /\ UNCHANGED <<composing, ime, counters>>
      /\ Commit(Front(Shown(focus)))
  BY DEF Erase, Input
<1>2. IsCell(doc, focus) /\ focus[1] \in 1 .. Len(doc) /\ Shown(focus) \in Seq(Visible)
  BY <1>1, InCell
<1>3. Front(Shown(focus)) \in Seq(Visible)
  BY <1>1, <1>2, FrontIsSeq DEF Blank
<1>4. /\ doc' \in Seq(Table(Source)) /\ Len(doc') = Len(doc) /\ Fit(dom', doc')
      /\ focus' = NoCell \/ (focus' = focus /\ IsCell(doc', focus))
      /\ focus[1] \in composing' => focus' = focus
  BY <1>1, <1>2, <1>3, CommittedFit DEF ShapeInv
<1> QED
  BY <1>1, <1>4 DEF ShapeInv, counters

LEMMA CompositionShape == ASSUME ShapeInv, CompositionStart \/ CompositionEnd PROVE ShapeInv'
<1>1. CASE CompositionStart
  <2>1. /\ focus # NoCell /\ composing' = composing \cup {focus[1]} /\ ime' = TRUE
        /\ UNCHANGED <<doc, dom, focus, typed, counters>>
    BY <1>1 DEF CompositionStart
  <2>2. focus[1] \in 1 .. Len(doc)
    BY <2>1, InCell
  <2> QED
    BY <2>1, <2>2 DEF ShapeInv, counters
<1>2. CASE CompositionEnd
  <2>1. /\ ime /\ composing' = composing \ {focus[1]} /\ ime' = FALSE
        /\ Commit(Shown(focus)) /\ UNCHANGED <<typed, counters>>
    BY <1>2 DEF CompositionEnd
  <2>2. IsCell(doc, focus) /\ Shown(focus) \in Seq(Visible)
    BY <2>1, InCell DEF ShapeInv
  <2>3. /\ doc' \in Seq(Table(Source)) /\ Len(doc') = Len(doc) /\ Fit(dom', doc')
        /\ focus' = NoCell \/ (focus' = focus /\ IsCell(doc', focus))
    BY <2>1, <2>2, CommittedFit DEF ShapeInv
  <2> QED
    BY <2>1, <2>3 DEF ShapeInv, counters
<1> QED
  BY <1>1, <1>2

(* A command or a paste: one table is rewritten, outside a composition.    *)
LEMMA RewriteShape ==
    ASSUME ShapeInv, ~ime, commands < MaxCommands, commands' = commands + 1, UNCHANGED <<composing, ime, typed, peer>>,
           NEW i \in 1 .. Len(doc), NEW rows \in Filled(Source), NEW caret, Inside(rows, caret),
           Rewrite(i, rows, caret)
    PROVE  ShapeInv'
<1>1. doc' \in Seq(Table(Source)) /\ Len(doc') = Len(doc) /\ Fit(dom', doc') /\ (focus' = NoCell \/ IsCell(doc', focus'))
  BY RewrittenFit DEF ShapeInv
<1>2. commands' \in 0 .. MaxCommands
  BY Typed DEF ShapeInv
<1> QED
  BY <1>1, <1>2 DEF ShapeInv

LEMMA PasteShape == ASSUME ShapeInv, NEW clip \in Grids, PasteInto(clip) PROVE ShapeInv'
<1>1. /\ focus # NoCell /\ ~ime /\ commands < MaxCommands /\ commands' = commands + 1
      /\ UNCHANGED <<composing, ime, typed, peer>>
      /\ Rewrite(focus[1], Pasted(doc[focus[1]], clip, focus[2], focus[3]), <<focus[2], focus[3]>>)
  BY DEF PasteInto, Pasted
<1>2. PICK i \in 1 .. Len(doc) : \E r \in 1 .. Len(doc[i]) : \E c \in 1 .. Cols(doc[i]) :
          focus = <<i, r, c>> /\ focus[1] = i /\ focus[2] = r /\ focus[3] = c
  BY <1>1, InCell, CellOf DEF ShapeInv
<1>3. PICK r \in 1 .. Len(doc[i]), c \in 1 .. Cols(doc[i]) : focus[1] = i /\ focus[2] = r /\ focus[3] = c
  BY <1>2
<1> DEFINE rows == Pasted(doc[i], clip, r, c)
           caret == <<r, c>>
<1>4. rows \in Filled(Source) /\ r \in 1 .. Len(rows) /\ c \in 1 .. Cols(rows)
  <2>0. doc[i] \in Table(Source) /\ clip \in Filled(Visible) /\ \A g \in Visible : Written(g) \in Source
    BY Typed, SeqIs DEF ShapeInv
  <2>1. doc[i] \in Filled(Source) /\ clip \in Filled(Visible) /\ \A g \in Visible : Written(g) \in Source
    BY <2>0, HasRows
  <2> QED
    BY <2>1, PastedTable
<1>5. Rewrite(i, rows, caret)
  BY <1>1, <1>3
<1> HIDE DEF rows
<1>6. Inside(rows, caret)
  BY <1>4 DEF Inside
<1> HIDE DEF caret
<1> QED
  BY <1>1, <1>4, <1>5, <1>6, RewriteShape

LEMMA CommandShape ==
    ASSUME ShapeInv, NEW op \in Ops, NEW i \in 1 .. Len(doc), NEW at, at[1] \in 1 .. Len(doc[i]), at[2] \in 1 .. Cols(doc[i]),
           Command(i, op, at)
    PROVE  ShapeInv'
<1>1. /\ ~ime /\ commands < MaxCommands /\ commands' = commands + 1
      /\ UNCHANGED <<composing, ime, typed, peer>>
      /\ \E e \in Edit(op, doc[i], at[1], at[2]) : Rewrite(i, e.rows, e.caret)
  BY DEF Command
<1>2. PICK e \in Edit(op, doc[i], at[1], at[2]) : Rewrite(i, e.rows, e.caret)
  BY <1>1
<1>3. doc[i] \in Filled(Source)
  <2>1. doc[i] \in Table(Source)
    BY SeqIs DEF ShapeInv
  <2> QED
    BY <2>1, HasRows
<1>4. e.rows \in Filled(Source) /\ Inside(e.rows, e.caret)
  BY <1>3, EditHolds, Typed
<1> QED
  BY <1>1, <1>2, <1>4, RewriteShape

(* The buttons act at a cell of their table, wherever focus is.            *)
LEMMA AnchorIsCell ==
    ASSUME ShapeInv, NEW i \in 1 .. Len(doc), doc[i] # <<>>
    PROVE  /\ Anchor(i)[1] \in 1 .. Len(doc[i]) /\ Anchor(i)[2] \in 1 .. Cols(doc[i])
           /\ focus # NoCell /\ focus[1] = i => Anchor(i)[1] = focus[2] /\ Anchor(i)[2] = focus[3]
<1>1. /\ Len(doc[i]) \in Nat \ {0} /\ Cols(doc[i]) \in Nat \ {0}
      /\ \A r \in 1 .. Len(doc[i]) : Len(doc[i][r]) = Cols(doc[i])
  <2>1. doc[i] \in Filled(Source)
    BY SeqIs, TableIs DEF ShapeInv
  <2> QED
    BY <2>1, FilledIs
<1>2. CASE focus # NoCell /\ focus[2] <= Len(doc[i]) /\ focus[3] <= Len(doc[i][focus[2]])
  <2>1. Anchor(i) = <<focus[2], Least(focus[3], Cols(doc[i]))>>
    BY <1>2 DEF Anchor
  <2>2. PICK j \in 1 .. Len(doc) : \E r \in 1 .. Len(doc[j]) : \E c \in 1 .. Cols(doc[j]) :
            focus[1] = j /\ focus[2] = r /\ focus[3] = c /\ r \in Nat /\ c \in Nat
    BY <1>2, InCell, CellOf DEF ShapeInv
  <2>3. PICK r \in 1 .. Len(doc[j]), c \in 1 .. Cols(doc[j]) :
            focus[1] = j /\ focus[2] = r /\ focus[3] = c /\ r \in Nat /\ c \in Nat
    BY <2>2
  <2>4. r \in 1 .. Len(doc[i])
    <3>1. 1 <= r /\ r <= Len(doc[i])
      BY <1>2, <2>3
    <3> QED
      BY <1>1, <2>3, <3>1
  <2>5. Least(focus[3], Cols(doc[i])) \in 1 .. Cols(doc[i])
    <3>1. c <= Cols(doc[i]) /\ 1 <= c /\ focus[3] = c
      BY <1>1, <1>2, <2>3, <2>4
    <3> QED
      BY <1>1, <2>3, <3>1 DEF Least
  <2>6. focus[1] = i => Least(focus[3], Cols(doc[i])) = focus[3]
    <3>1. c <= Cols(doc[i]) /\ focus[3] = c
      BY <1>1, <1>2, <2>3, <2>4
    <3> QED
      BY <1>1, <2>3, <3>1 DEF Least
  <2> QED
    BY <2>1, <2>3, <2>4, <2>5, <2>6
<1>3. CASE ~(focus # NoCell /\ focus[2] <= Len(doc[i]) /\ focus[3] <= Len(doc[i][focus[2]]))
  <2>1. Anchor(i) = <<1, 1>>
    BY <1>3 DEF Anchor
  <2>2. ~(focus # NoCell /\ focus[1] = i)
    <3> SUFFICES ASSUME focus # NoCell, focus[1] = i PROVE FALSE
      OBVIOUS
    <3>1. PICK j \in 1 .. Len(doc) : \E r \in 1 .. Len(doc[j]) : \E c \in 1 .. Cols(doc[j]) :
              focus[1] = j /\ focus[2] = r /\ focus[3] = c
      BY InCell, CellOf DEF ShapeInv
    <3>2. PICK r \in 1 .. Len(doc[i]), c \in 1 .. Cols(doc[i]) : focus[2] = r /\ focus[3] = c
      BY <3>1
    <3> QED
      BY <1>1, <1>3, <3>2
  <2> QED
    BY <1>1, <2>1, <2>2
<1> QED
  BY <1>2, <1>3

LEMMA ControlShape == ASSUME ShapeInv, NEW i \in DOMAIN doc, NEW op \in Ops, RunControl(i, op) PROVE ShapeInv'
<1>1. i \in 1 .. Len(doc) /\ Command(i, op, Anchor(i)) /\ doc[i] # <<>>
  BY SeqIs DEF ShapeInv, RunControl, Command
<1>2. Anchor(i)[1] \in 1 .. Len(doc[i]) /\ Anchor(i)[2] \in 1 .. Cols(doc[i])
  BY <1>1, AnchorIsCell
<1> QED
  BY <1>1, <1>2, CommandShape

LEMMA MenuShape == ASSUME ShapeInv, NEW at \in Cells(dom), NEW op \in Ops, RunMenu(at, op) PROVE ShapeInv'
<1>1. IsCell(doc, at)
  BY CellsAre DEF ShapeInv
<1>2. PICK i \in 1 .. Len(doc) : \E r \in 1 .. Len(doc[i]) : \E c \in 1 .. Cols(doc[i]) :
          at[1] = i /\ at[2] = r /\ at[3] = c
  BY <1>1, CellOf DEF ShapeInv
<1>3. PICK r \in 1 .. Len(doc[i]), c \in 1 .. Cols(doc[i]) : at[1] = i /\ at[2] = r /\ at[3] = c
  BY <1>2
<1> DEFINE to == <<at[2], Least(at[3], Cols(doc[at[1]]))>>
<1>4. Command(i, op, to)
  BY <1>3 DEF RunMenu
<1>6. Cols(doc[i]) \in Nat
  BY DocIs DEF ShapeInv
<1>5. to[1] \in 1 .. Len(doc[i]) /\ to[2] \in 1 .. Cols(doc[i])
  BY <1>3, <1>6 DEF Least
<1> HIDE DEF to
<1> QED
  BY <1>4, <1>5, CommandShape

(* ------------------------- changes from elsewhere ----------------------- *)

(* What arrives leaves the kept widgets that it does not touch as they     *)
(* are, and is written with the glyphs that the document has already.      *)
Arrival(G) ==
    \E docs \in Seq(Table(G)) : \E kept \in SUBSET ((1 .. Len(doc)) \cap (1 .. Len(docs))) : \E changed :
        (\A i \in kept \ changed : docs[i] = doc[i]) /\ Arrive(docs, kept, changed)

(* Each of the changes from elsewhere is such an arrival.                  *)
LEMMA OneTableArrives ==
    ASSUME NEW G, doc \in Seq(Table(G)), NEW i \in 1 .. Len(doc), NEW docs \in Seq(Table(G)), Len(docs) = Len(doc),
           \A j \in 1 .. Len(doc) : j # i => docs[j] = doc[j],
           Arrive(docs, DOMAIN doc, {i})
    PROVE  Arrival(G)
<1>1. DOMAIN doc \in SUBSET ((1 .. Len(doc)) \cap (1 .. Len(docs))) /\ \A j \in DOMAIN doc \ {i} : docs[j] = doc[j]
  BY SeqIs
<1> QED
  BY <1>1 DEF Arrival

LEMMA PeerCellArrives ==
    ASSUME NEW G \in SUBSET Source, doc \in Seq(Table(G)), PeerKeys \subseteq G,
           NEW i \in 1 .. Len(doc), NEW r \in 1 .. Len(doc[i]), NEW c \in 1 .. Cols(doc[i]), PeerCell(i, r, c)
    PROVE  Arrival(G)
<1>1. doc[i] \in Table(G)
  BY SeqIs
<1>2. doc[i][r][c] \in Text(G)
  BY <1>1, TableIs
<1>3. PICK src \in {Append(doc[i][r][c], key) : key \in PeerKeys \ ToSet(doc[i][r][c])} \cup
                   {Trim(Front(s)) : s \in {doc[i][r][c]} \ {Blank}} :
          Arrive([doc EXCEPT ![i] = Parsed([doc[i] EXCEPT ![r][c] = src])], DOMAIN doc, {i})
  BY DEF PeerCell
<1>4. src \in Text(G)
  <2>1. CASE \E key \in PeerKeys : src = Append(doc[i][r][c], key)
    <3>1. PICK key \in PeerKeys : src = Append(doc[i][r][c], key)
      BY <2>1
    <3>2. key \in G /\ key # Space
      BY Typed
    <3> QED
      BY <1>2, <3>1, <3>2, AppendedText
  <2>2. CASE src = Trim(Front(doc[i][r][c])) /\ doc[i][r][c] # Blank
    <3>1. doc[i][r][c] \in Seq(G) /\ doc[i][r][c] # <<>>
      BY <1>2, <2>2 DEF Text, Blank
    <3>2. Front(doc[i][r][c]) \in Seq(G)
      BY <3>1, FrontIsSeq
    <3> QED
      BY <2>2, <3>2, TrimIsText
  <2> QED
    BY <1>3, <2>1, <2>2
<1> DEFINE docs == Entered(i, r, c, src)
<1>5. Arrive(docs, DOMAIN doc, {i})
  BY <1>3 DEF Entered, Wrote
<1>6. docs \in Seq(Table(G)) /\ Len(docs) = Len(doc) /\ \A j \in 1 .. Len(doc) : j # i => docs[j] = doc[j]
  BY <1>4, EnteredFrame
<1> HIDE DEF docs
<1> QED
  BY <1>5, <1>6, OneTableArrives

LEMMA PeerCommandArrives ==
    ASSUME NEW G \in SUBSET Source, doc \in Seq(Table(G)), Heading \in Text(G),
           NEW i \in DOMAIN doc, NEW r \in DOMAIN doc[i], NEW c \in DOMAIN doc[i][r], NEW op \in Ops, PeerCommand(i, op, r, c)
    PROVE  Arrival(G)
<1>1. i \in 1 .. Len(doc) /\ doc[i] \in Table(G)
  BY SeqIs
<1>2. r \in 1 .. Len(doc[i]) /\ c \in 1 .. Cols(doc[i])
  BY <1>1, TableIs
<1>3. PICK e \in Edit(op, doc[i], r, c) : Arrive([doc EXCEPT ![i] = Parsed(Render(e.rows))], DOMAIN doc, {i})
  BY DEF PeerCommand
<1>7. doc[i] \in Filled(G)
  BY <1>1, <1>2, HasRows
<1>8. e.rows \in Filled(G)
  BY <1>2, <1>7, EditHolds
<1>4. Render(e.rows) = e.rows /\ Parsed(e.rows) \in Table(G)
  BY <1>8, RenderIsIdle, ParsedIs
<1> DEFINE docs == [doc EXCEPT ![i] = Parsed(e.rows)]
<1>5. Arrive(docs, DOMAIN doc, {i})
  BY <1>3, <1>4
<1>6. docs \in Seq(Table(G)) /\ Len(docs) = Len(doc) /\ \A j \in 1 .. Len(doc) : j # i => docs[j] = doc[j]
  BY <1>1, <1>4, TablePut
<1> HIDE DEF docs
<1> QED
  BY <1>1, <1>5, <1>6, OneTableArrives

LEMMA PeerRowArrives ==
    ASSUME NEW G \in SUBSET Source, doc \in Seq(Table(G)), PeerKeys \cup {Dash} \subseteq G,
           NEW i \in DOMAIN doc, NEW r \in 1 .. Len(doc[i]) + 1, NEW key \in PeerKeys, PeerRow(i, r, key)
    PROVE  Arrival(G)
<1> DEFINE t == doc[i]
           cols == IF t = <<>> THEN 1 ELSE Cols(t)
           row == [c \in 1 .. cols |-> IF c = 1 THEN <<Dash, key>> ELSE <<Dash>>]
           u == InsertAt(t, r, row)
           docs == [doc EXCEPT ![i] = u]
<1>1. i \in 1 .. Len(doc) /\ t \in Table(G)
  BY SeqIs
<1>2. key \notin {Dash, Colon} /\ Arrive(docs, DOMAIN doc, {i})
  BY DEF PeerRow
<1>3. <<Dash>> \in Text(G) /\ <<Dash, key>> \in Text(G)
  <2>1. Dash \in G /\ key \in G /\ Dash # Space /\ key # Space
    BY Typed
  <2>2. ASSUME NEW x \in Seq(G), Len(x) \in {1, 2}, x[1] = Dash, x[Len(x)] # Space PROVE x \in Text(G)
    BY <2>1, <2>2, TrimmedEnds DEF Text
  <2>3. <<Dash>> \in Seq(G) /\ Len(<<Dash>>) = 1 /\ <<Dash>>[1] = Dash
    BY <2>1
  <2>4. <<Dash, key>> \in Seq(G) /\ Len(<<Dash, key>>) = 2 /\ <<Dash, key>>[1] = Dash /\ <<Dash, key>>[2] = key
    BY <2>1
  <2>5. ASSUME NEW one, one = <<Dash>>, NEW two, two = <<Dash, key>> PROVE one \in Text(G) /\ two \in Text(G)
    <3>1. /\ one \in Seq(G) /\ Len(one) = 1 /\ one[1] = Dash
          /\ two \in Seq(G) /\ Len(two) = 2 /\ two[1] = Dash /\ two[2] = key
      BY <2>3, <2>4, <2>5
    <3> QED
      BY <2>1, <2>2, <3>1
  <2> QED
    BY <2>5
<1>4. /\ t \in Seq(Seq(Text(G))) /\ Len(t) \in Nat /\ cols \in Nat \ {0}
      /\ \A p \in 1 .. Len(t) : Len(t[p]) = cols /\ ~IsDivider(t[p])
  <2>1. CASE t = <<>>
    <3>1. Len(t) = 0 /\ 1 .. Len(t) = {}
      BY <1>1, <2>1, TableIs
    <3> QED
      BY <1>1, <2>1, <3>1, TableIs
  <2>2. CASE t # <<>>
    <3>1. cols = Cols(t) /\ t \in Filled(G)
      BY <1>1, <2>2, TableIs
    <3> QED
      BY <1>1, <3>1, FilledIs, TableIs
  <2> QED
    BY <2>1, <2>2
<1> HIDE DEF cols
<1>5. row \in Seq(Text(G)) /\ Len(row) = cols /\ ~IsDivider(row)
  <2>1. row \in [1 .. cols -> Text(G)] /\ 1 \in 1 .. cols /\ row[1] = <<Dash, key>>
    BY <1>3, <1>4
  <2>2. ~LooksDrawn(row[1])
    <3>1. 2 \in DOMAIN <<Dash, key>> /\ <<Dash, key>>[2] = key
      OBVIOUS
    <3> QED
      BY <1>2, <2>1, <3>1 DEF LooksDrawn
  <2> HIDE DEF row
  <2>3. row \in Seq(Text(G)) /\ Len(row) = cols /\ DOMAIN row = 1 .. cols
    BY <1>4, <2>1, ASeq
  <2> QED
    BY <2>1, <2>2, <2>3 DEF IsDivider
<1> HIDE DEF row
<1>6. /\ u \in Seq(Seq(Text(G))) /\ Len(u) = Len(t) + 1 /\ u[r] = row
      /\ \A j \in 1 .. Len(t) + 1 : (j < r => u[j] = t[j]) /\ (j > r => u[j] = t[j - 1])
  <2>1. PICK S : S = Seq(Text(G))
    OBVIOUS
  <2>2. t \in Seq(S) /\ r \in 1 .. Len(t) + 1 /\ row \in S
    BY <1>4, <1>5, <2>1
  <2>3. /\ u \in Seq(S) /\ Len(u) = Len(t) + 1 /\ u[r] = row
        /\ \A j \in 1 .. Len(t) + 1 : (j < r => u[j] = t[j]) /\ (j > r => u[j] = t[j - 1])
    BY <2>2, Inserted
  <2> HIDE DEF u
  <2> QED
    BY <2>1, <2>3
<1> HIDE DEF u
<1>7. ASSUME NEW j \in 1 .. Len(u) PROVE Len(u[j]) = cols /\ ~IsDivider(u[j])
  <2>0. r \in Int /\ j \in Int /\ Len(t) \in Int /\ 1 <= r /\ r <= Len(t) + 1 /\ 1 <= j /\ j <= Len(t) + 1
    BY <1>4, <1>6
  <2>1. CASE j < r
    <3>1. j \in 1 .. Len(t)
      BY <2>0, <2>1
    <3> QED
      BY <1>4, <1>6, <2>0, <2>1, <3>1
  <2>2. CASE j = r
    BY <1>5, <1>6, <2>2
  <2>3. CASE j > r
    <3>1. j - 1 \in 1 .. Len(t)
      BY <2>0, <2>3
    <3> QED
      BY <1>4, <1>6, <2>0, <2>3, <3>1
  <2> QED
    BY <2>0, <2>1, <2>2, <2>3
<1>8. u \in Table(G)
  <2>1. Len(u) # 0 /\ \A j \in 1 .. Len(u) : Len(u[j]) = cols
    BY <1>4, <1>6, <1>7
  <2>2. u \in Filled(G)
    BY <1>4, <1>6, <2>1, RowsMakeSheet
  <2> QED
    BY <1>7, <2>2, SheetIsTable
<1> HIDE DEF t
<1>9. docs \in Seq(Table(G)) /\ Len(docs) = Len(doc) /\ \A j \in 1 .. Len(doc) : j # i => docs[j] = doc[j]
  BY <1>1, <1>8, TablePut
<1> HIDE DEF docs
<1> QED
  BY <1>1, <1>2, <1>9, OneTableArrives

LEMMA TableArrives ==
    ASSUME NEW G, doc \in Seq(Table(G)), NEW docs \in Seq(Table(G)), NEW i \in Nat \ {0},
           i <= Len(doc) + 1, i <= Len(docs) + 1,
           \A j \in 1 .. i - 1 : docs[j] = doc[j], PeerTable(docs, i)
    PROVE  Arrival(G)
<1>1. PICK late \in SUBSET (i .. Least(Len(docs), Len(doc))) : Arrive(docs, late \cup 1 .. i - 1, i .. Len(docs))
  BY DEF PeerTable
<1> DEFINE kept == late \cup 1 .. i - 1
           changed == i .. Len(docs)
<1>2. Len(doc) \in Nat /\ Len(docs) \in Nat
  BY SeqIs
<1>3. kept \in SUBSET ((1 .. Len(doc)) \cap (1 .. Len(docs)))
  <2>1. ASSUME NEW j \in late PROVE j \in 1 .. Len(doc) /\ j \in 1 .. Len(docs)
    BY <1>2 DEF Least
  <2>2. ASSUME NEW j \in 1 .. i - 1 PROVE j \in 1 .. Len(doc) /\ j \in 1 .. Len(docs)
    BY <1>2
  <2> QED
    BY <2>1, <2>2
<1>4. ASSUME NEW j \in kept \ changed PROVE docs[j] = doc[j]
  <2>1. j \in 1 .. Len(docs)
    BY <1>3
  <2>2. j \in 1 .. i - 1
    BY <1>2, <1>4, <2>1
  <2> QED
    BY <2>2
<1>5. Arrive(docs, kept, changed)
  BY <1>1
<1> HIDE DEF kept, changed
<1> QED
  BY <1>3, <1>4, <1>5 DEF Arrival

LEMMA InsertedTableArrives ==
    ASSUME NEW G, doc \in Seq(Table(G)), NEW i \in 1 .. Len(doc) + 1, PeerInsertsTable(i)
    PROVE  Arrival(G)
<1> DEFINE new == <<EmptyRow(1), EmptyRow(1)>>
           docs == InsertAt(doc, i, new)
<1>1. Len(doc) \in Nat
  BY SeqIs
<1>2. new \in Table(G)
  <2>1. EmptyRow(1) \in Seq(Text(G)) /\ Len(EmptyRow(1)) = 1
    BY EmptyRowIs
  <2> DEFINE row == EmptyRow(1)
  <2> HIDE DEF row
  <2>2. <<row, row>> \in Seq(Seq(Text(G))) /\ Len(<<row, row>>) = 2 /\ <<row, row>>[1] = row /\ <<row, row>>[2] = row
    BY <2>1 DEF row
  <2>3. Len(<<row, row>>) # 0 /\ \A r \in 1 .. Len(<<row, row>>) : Len(<<row, row>>[r]) = 1
    BY <2>1, <2>2 DEF row
  <2> DEFINE t == <<row, row>>
  <2>4. t \in Seq(Seq(Text(G))) /\ Len(t) # 0 /\ \A r \in 1 .. Len(t) : Len(t[r]) = 1
    BY <2>2, <2>3
  <2> HIDE DEF t
  <2>5. t \in Filled(G)
    <3> DEFINE n == 1
    <3>1. n \in Nat \ {0} /\ \A r \in 1 .. Len(t) : Len(t[r]) = n
      BY <2>4
    <3> HIDE DEF n
    <3> QED
      BY <2>4, <3>1, RowsMakeSheet
  <2>6. ~IsDivider(row)
    <3>1. 1 \in DOMAIN row /\ row[1] = Blank
      BY DEF row, EmptyRow
    <3> QED
      BY <3>1, BlankIsNoDrawing
  <2>7. \A r \in 1 .. Len(t) : t[r] = row
    BY <2>2 DEF t
  <2>8. t \in Table(G)
    BY <2>5, <2>6, <2>7, SheetIsTable
  <2> QED
    BY <2>8 DEF t, row
<1> HIDE DEF new
<1>3. docs \in Seq(Table(G)) /\ Len(docs) = Len(doc) + 1 /\ \A j \in 1 .. Len(doc) + 1 : j < i => docs[j] = doc[j]
  BY <1>2, Inserted
<1>4. PeerTable(docs, i)
  BY DEF PeerInsertsTable, new
<1> HIDE DEF docs
<1>5. i \in Nat \ {0} /\ i <= Len(doc) + 1 /\ i <= Len(docs) + 1 /\ \A j \in 1 .. i - 1 : docs[j] = doc[j]
  BY <1>1, <1>3
<1> QED
  BY <1>3, <1>4, <1>5, TableArrives

LEMMA RemovedTableArrives ==
    ASSUME NEW G, doc \in Seq(Table(G)), NEW i \in DOMAIN doc, PeerRemovesTable(i)
    PROVE  Arrival(G)
<1> DEFINE docs == RemoveAt(doc, i)
<1>1. Len(doc) \in Nat /\ i \in 1 .. Len(doc)
  BY SeqIs
<1>2. docs \in Seq(Table(G)) /\ Len(docs) = Len(doc) - 1
      /\ \A j \in 1 .. Len(doc) - 1 : docs[j] = IF j < i THEN doc[j] ELSE doc[j + 1]
  BY <1>1, Removed
<1>3. PeerTable(docs, i)
  BY DEF PeerRemovesTable
<1> HIDE DEF docs
<1>4. ASSUME NEW j \in 1 .. i - 1 PROVE docs[j] = doc[j]
  <2>1. j \in 1 .. Len(doc) - 1 /\ j < i
    BY <1>1
  <2> QED
    BY <1>2, <2>1
<1>5. i \in Nat \ {0} /\ i <= Len(doc) + 1 /\ i <= Len(docs) + 1
  BY <1>1, <1>2
<1> QED
  BY <1>2, <1>3, <1>4, <1>5, TableArrives

(* And keeps the shape.                                                    *)
LEMMA ArrivalShape == ASSUME ShapeInv, Arrival(Source) PROVE ShapeInv'
<1>1. PICK docs \in Seq(Table(Source)) : \E kept \in SUBSET ((1 .. Len(doc)) \cap (1 .. Len(docs))) : \E changed :
          (\A i \in kept \ changed : docs[i] = doc[i]) /\ Arrive(docs, kept, changed)
  BY DEF Arrival
<1>2. PICK kept \in SUBSET ((1 .. Len(doc)) \cap (1 .. Len(docs))) : \E changed :
          (\A i \in kept \ changed : docs[i] = doc[i]) /\ Arrive(docs, kept, changed)
  BY <1>1
<1>3. PICK changed : (\A i \in kept \ changed : docs[i] = doc[i]) /\ Arrive(docs, kept, changed)
  BY <1>2
<1> QED
  BY <1>3, ArrivedFit

(* Every step is one of the person's or one that arrives.                  *)
LEMMA StepIs ==
    ASSUME NEW G \in SUBSET Source, doc \in Seq(Table(G)), PeerKeys \cup {Dash} \subseteq G, Heading \in Text(G), Next
    PROVE  \/ \E at \in Cells(dom) \cup {NoCell} : Focus(at)
           \/ \E key \in Keys : Type(key)
           \/ Erase \/ CompositionStart \/ CompositionEnd
           \/ \E clip \in Grids : PasteInto(clip)
           \/ \E i \in DOMAIN doc : \E op \in Ops : RunControl(i, op)
           \/ \E at \in Cells(dom) : \E op \in Ops : RunMenu(at, op)
           \/ Arrival(G)
<1>1. ASSUME NEW i \in DOMAIN doc, NEW r \in DOMAIN doc[i], NEW c \in DOMAIN doc[i][r],
             PeerCell(i, r, c) \/ \E op \in Ops : PeerCommand(i, op, r, c)
      PROVE  Arrival(G)
  <2>1. i \in 1 .. Len(doc) /\ doc[i] \in Table(G)
    BY SeqIs
  <2>2. r \in 1 .. Len(doc[i]) /\ c \in 1 .. Cols(doc[i])
    BY <2>1, TableIs
  <2>3. CASE PeerCell(i, r, c)
    BY <2>1, <2>2, <2>3, PeerCellArrives
  <2>4. CASE \E op \in Ops : PeerCommand(i, op, r, c)
    BY <2>4, PeerCommandArrives
  <2> QED
    BY <1>1, <2>3, <2>4
<1>2. ASSUME NEW i \in DOMAIN doc, PeerRemovesTable(i) PROVE Arrival(G)
  BY <1>2, RemovedTableArrives
<1>3. ASSUME NEW i \in 1 .. Len(doc) + 1, PeerInsertsTable(i) PROVE Arrival(G)
  BY <1>3, InsertedTableArrives
<1>4. ASSUME NEW i \in DOMAIN doc, NEW r \in 1 .. Len(doc[i]) + 1, NEW key \in PeerKeys, PeerRow(i, r, key)
      PROVE  Arrival(G)
  BY <1>4, PeerRowArrives
<1> QED
  BY <1>1, <1>2, <1>3, <1>4 DEF Next

(* Every step keeps the shape.                                             *)
LEMMA ShapeStep == ShapeInv /\ [Next]_vars => ShapeInv'
<1> SUFFICES ASSUME ShapeInv, [Next]_vars PROVE ShapeInv'
  OBVIOUS
<1>1. CASE Next
  <2>1. /\ Source \in SUBSET Source /\ doc \in Seq(Table(Source))
        /\ PeerKeys \cup {Dash} \subseteq Source /\ Heading \in Text(Source)
    BY Typed DEF ShapeInv
  <2>2. CASE \E at \in Cells(dom) \cup {NoCell} : Focus(at)
    BY <2>2, FocusShape
  <2>3. CASE \E key \in Keys : Type(key)
    BY <2>3, TypeShape
  <2>4. CASE Erase \/ CompositionStart \/ CompositionEnd
    BY <2>4, EraseShape, CompositionShape
  <2>5. CASE \E clip \in Grids : PasteInto(clip)
    BY <2>5, PasteShape
  <2>6. CASE \E i \in DOMAIN doc : \E op \in Ops : RunControl(i, op)
    BY <2>6, ControlShape
  <2>7. CASE \E at \in Cells(dom) : \E op \in Ops : RunMenu(at, op)
    BY <2>7, MenuShape
  <2>8. CASE Arrival(Source)
    BY <2>8, ArrivalShape
  <2> QED
    BY <1>1, <2>1, <2>2, <2>3, <2>4, <2>5, <2>6, <2>7, <2>8, StepIs
<1>2. CASE UNCHANGED vars
  BY <1>2 DEF vars, screen, counters, ShapeInv
<1> QED
  BY <1>1, <1>2

(* Spec => []TypeOK: whatever is typed, pasted, commanded or received, the *)
(* document holds trimmed source with no bare pipe in every cell, focus is *)
(* in a cell that is on screen, and a composition is in the focused widget.*)
THEOREM TypesHold == Spec => []TypeOK
<1>1. ShapeInv => TypeOK
  <2> SUFFICES ASSUME ShapeInv PROVE TypeOK
    OBVIOUS
  <2>1. doc \in Seq(Table(Source)) /\ DOMAIN doc = 1 .. Len(doc)
    BY SeqIs DEF ShapeInv
  <2>2. ASSUME NEW i \in DOMAIN doc, NEW r \in DOMAIN doc[i], NEW c \in DOMAIN doc[i][r]
        PROVE  LET src == doc[i][r][c]
               IN  DOMAIN src = 1..Len(src) /\ ToSet(src) \subseteq Glyph \ {Pipe} /\ Trim(src) = src
    <3>1. doc[i] \in Table(Source)
      BY <2>1, SeqIs
    <3>2. doc[i][r][c] \in Text(Source)
      BY <3>1, TableIs
    <3> DEFINE src == doc[i][r][c]
    <3>3. src \in Seq(Source) /\ Trim(src) = src
      BY <3>2 DEF Text
    <3> HIDE DEF src
    <3>4. DOMAIN src = 1 .. Len(src) /\ \A k \in DOMAIN src : src[k] \in Source
      BY <3>3, SeqIs
    <3> QED
      BY <3>3, <3>4 DEF ToSet, Source, src
  <2>3. focus \in Cells(dom) \cup {NoCell}
    BY CellsAre DEF ShapeInv
  <2> QED
    BY <2>1, <2>2, <2>3 DEF ShapeInv, TypeOK
<1> QED
  BY <1>1, ShapeInit, ShapeStep, PTL DEF Spec

(* The table is replaced, and focus is where the command asks for it.      *)
LEMMA RewriteLands ==
    ASSUME ShapeInv, NEW i \in 1 .. Len(doc), NEW rows \in Filled(Source), rows \in Table(Source),
           NEW p \in 1 .. Len(rows), NEW q \in 1 .. Cols(rows), Rewrite(i, rows, <<p, q>>)
    PROVE  doc'[i] = rows /\ focus' = <<i, p, q>> /\ focus' # NoCell /\ focus'[1] = i /\ focus'[2] = p /\ focus'[3] = q
<1>1. p \in Nat /\ q \in Nat /\ i \in Nat
  <2>1. Len(doc) \in Nat /\ Len(rows) \in Nat /\ Cols(rows) \in Nat
    BY FilledIs, SeqIs DEF ShapeInv
  <2> QED
    BY <2>1
<1>2. <<p, q>> # NoCell /\ <<i, p, q>> # NoCell
  BY <1>1, NoCellApart
<1> DEFINE docs == [doc EXCEPT ![i] = rows]
           caret == <<p, q>>
           to == IF caret = NoCell \/ caret[1] > Len(docs[i]) \/ caret[2] > Cols(docs[i])
                 THEN FocusKept(docs, DOMAIN doc) ELSE <<i, caret[1], caret[2]>>
<1>5. DOMAIN doc = 1 .. Len(doc)
  BY SeqIs DEF ShapeInv
<1>6. docs[i] = rows
  BY <1>5
<1>7. Parsed(Render(rows)) = rows
  <2>1. \A r \in 1 .. Len(rows) : ~IsDivider(rows[r])
    BY TableIs
  <2> QED
    BY <2>1, RenderIsIdle, ParsedIdle
<1>4. doc' = docs /\ focus' = to
  BY <1>7 DEF Rewrite
<1>8. Len(rows) \in Nat /\ Cols(rows) \in Nat
  BY FilledIs
<1> HIDE DEF docs
<1>9. caret # NoCell /\ caret[1] = p /\ caret[2] = q /\ ~(p > Len(docs[i])) /\ ~(q > Cols(docs[i]))
  BY <1>1, <1>2, <1>6, <1>8
<1> HIDE DEF caret
<1>3. focus' = <<i, p, q>>
  BY <1>4, <1>9
<1> QED
  BY <1>2, <1>3, <1>4, <1>6

(* Focus goes with the row, or to the new row or column.                   *)
LEMMA FocusFollows ==
    ASSUME ShapeInv, NEW i \in DOMAIN doc, NEW op \in {"moveRowUp", "moveRowDown", "insertRowBelow", "insertColumnRight"},
           RunControl(i, op), focus # NoCell, focus[1] = i
    PROVE  /\ focus' # NoCell /\ focus'[1] = i
           /\ op \in {"moveRowUp", "moveRowDown"} => doc'[i][focus'[2]][focus'[3]] = doc[i][focus[2]][focus[3]]
           /\ op = "insertRowBelow" => doc'[i][focus'[2]][focus'[3]] = Blank
           /\ op = "insertColumnRight" => doc'[i][focus'[2]][focus'[3]] = IF focus'[2] = 1 THEN Heading ELSE Blank
<1> DEFINE t == doc[i]
           r == focus[2]
           c == focus[3]
           n == Len(t)
           m == Cols(t)
           To(table, row, col) == {[rows |-> table, caret |-> <<row, col>>]}
<1>1. i \in 1 .. Len(doc) /\ t \in Table(Source) /\ t # <<>>
  BY SeqIs DEF ShapeInv, RunControl, Command
<1>0. t \in Filled(Source) /\ NoneSkipped(t)
  BY <1>1, TableIs DEF NoneSkipped
<1>2. Anchor(i)[1] \in 1 .. n /\ Anchor(i)[2] \in 1 .. m /\ Anchor(i)[1] = r /\ Anchor(i)[2] = c
  BY <1>1, AnchorIsCell
<1>3. PICK e \in Edit(op, t, r, c) : Rewrite(i, e.rows, e.caret)
  BY <1>2 DEF RunControl, Command
<1>4. n \in Nat \ {0} /\ m \in Nat \ {0} /\ r \in 1 .. n /\ c \in 1 .. m
  BY <1>0, <1>1, <1>2, FilledIs
<1>5. ASSUME NEW u \in Filled(Source), NoneSkipped(u),
             NEW p \in 1 .. Len(u), NEW q \in 1 .. Cols(u), e \in To(u, p, q)
      PROVE  doc'[i] = u /\ focus' # NoCell /\ focus'[1] = i /\ focus'[2] = p /\ focus'[3] = q
  <2>1. e.rows = u /\ e.caret = <<p, q>>
    BY <1>5
  <2>2. Rewrite(i, u, <<p, q>>)
    BY <1>3, <2>1
  <2>3. u \in Table(Source)
    BY <1>5, SheetIsTable DEF NoneSkipped
  <2> QED
    BY <1>1, <2>2, <2>3, RewriteLands
<1>6. CASE op = "moveRowUp"
  <2> DEFINE q == r - 1
             u == Swap(t, r, q)
  <2>1. ~(r <= 2) /\ e \in To(u, q, c)
    BY <1>3, <1>6 DEF Edit
  <2>2. q \in 1 .. n
    BY <1>4, <2>1
  <2> HIDE DEF q
  <2>3. u \in Filled(Source) /\ Len(u) = n /\ Cols(u) = m /\ u[q] = t[r] /\ NoneSkipped(u)
    <3>1. t \in Filled(Source) /\ r \in 1 .. Len(t) /\ q \in 1 .. Len(t) /\ NoneSkipped(t)
      BY <1>0, <1>1, <1>4, <2>2
    <3> HIDE DEF t, r
    <3> QED
      BY <3>1, RowsSwapped
  <2> HIDE DEF u, n, m, To, t, r, c
  <2>4. doc'[i] = u /\ focus' # NoCell /\ focus'[1] = i /\ focus'[2] = q /\ focus'[3] = c
    BY <1>4, <1>5, <2>1, <2>2, <2>3
  <2> QED
    BY <1>6, <2>3, <2>4 DEF t, r, c
<1>7. CASE op = "moveRowDown"
  <2> DEFINE q == r + 1
             u == Swap(t, r, q)
  <2>1. ~(r = 1 \/ r = n) /\ e \in To(u, q, c)
    BY <1>3, <1>7 DEF Edit
  <2>2. q \in 1 .. n
    BY <1>4, <2>1
  <2> HIDE DEF q
  <2>3. u \in Filled(Source) /\ Len(u) = n /\ Cols(u) = m /\ u[q] = t[r] /\ NoneSkipped(u)
    <3>1. t \in Filled(Source) /\ r \in 1 .. Len(t) /\ q \in 1 .. Len(t) /\ NoneSkipped(t)
      BY <1>0, <1>1, <1>4, <2>2
    <3> HIDE DEF t, r
    <3> QED
      BY <3>1, RowsSwapped
  <2> HIDE DEF u, n, m, To, t, r, c
  <2>4. doc'[i] = u /\ focus' # NoCell /\ focus'[1] = i /\ focus'[2] = q /\ focus'[3] = c
    BY <1>4, <1>5, <2>1, <2>2, <2>3
  <2> QED
    BY <1>7, <2>3, <2>4 DEF t, r, c
<1>8. CASE op = "insertRowBelow"
  <2> DEFINE at == r + 1
             u == InsertAt(t, at, EmptyRow(m))
  <2>1. at \in 1 .. n + 1
    BY <1>4
  <2>2. e \in To(u, at, c)
    BY <1>3, <1>8 DEF Edit
  <2> HIDE DEF at
  <2>3. /\ u \in Filled(Source) /\ Len(u) = n + 1 /\ Cols(u) = m /\ \A k \in 1 .. m : u[at][k] = Blank
        /\ NoneSkipped(u)
    <3>1. t \in Filled(Source) /\ at \in 1 .. Len(t) + 1 /\ NoneSkipped(t)
      BY <1>0, <2>1
    <3> HIDE DEF t
    <3> QED
      BY <3>1, RowInserted
  <2> HIDE DEF u, n, m, To, t, r, c
  <2>4. at \in 1 .. Len(u) /\ c \in 1 .. Cols(u)
    BY <1>4, <2>1, <2>3
  <2>5. doc'[i] = u /\ focus' # NoCell /\ focus'[1] = i /\ focus'[2] = at /\ focus'[3] = c
    BY <1>5, <2>2, <2>3, <2>4
  <2> QED
    BY <1>4, <1>8, <2>3, <2>5
<1>9. CASE op = "insertColumnRight"
  <2> DEFINE at == c + 1
             u == WithColumn(t, at)
  <2>1. e \in To(u, r, at)
    BY <1>3, <1>9 DEF Edit
  <2>2. at \in 1 .. m + 1
    BY <1>4
  <2> HIDE DEF at
  <2>3. /\ u \in Filled(Source) /\ Len(u) = n /\ Cols(u) = m + 1
        /\ \A k \in 1 .. n : u[k][at] = IF k = 1 THEN Heading ELSE Blank
    BY <1>0, <2>2, ColumnInserted, Typed
  <2>6. NoneSkipped(u)
    <3>1. at \in 1 .. Cols(u) /\ ~LooksDrawn(Heading) /\ ~LooksDrawn(Blank)
      BY <1>4, <2>2, <2>3, Typed DEF LooksDrawn, Blank
    <3> HIDE DEF u, n, m
    <3>2. ASSUME NEW k \in 1 .. Len(u) PROVE at \in DOMAIN u[k] /\ ~LooksDrawn(u[k][at])
      <4>1. DOMAIN u[k] = 1 .. Cols(u)
        BY <2>3, FilledIs
      <4>2. u[k][at] = IF k = 1 THEN Heading ELSE Blank
        BY <2>3
      <4> QED
        BY <3>1, <4>1, <4>2
    <3> QED
      BY <3>2 DEF IsDivider, NoneSkipped
  <2> HIDE DEF u, n, m, To, t, r, c
  <2>4. r \in 1 .. Len(u) /\ at \in 1 .. Cols(u)
    BY <1>4, <2>2, <2>3
  <2>5. doc'[i] = u /\ focus' # NoCell /\ focus'[1] = i /\ focus'[2] = r /\ focus'[3] = at
    BY <1>5, <2>1, <2>3, <2>4, <2>6
  <2> QED
    BY <1>4, <1>9, <2>3, <2>5
<1> QED
  BY <1>6, <1>7, <1>8, <1>9

(* Spec => FocusFollowsRow: a button that moves a row leaves the person in *)
(* the cell with the same text, and one that inserts a row or a column     *)
(* leaves them in it: in an empty cell, or at the heading of the column.   *)
THEOREM FocusFollowsRowHolds == Spec => FocusFollowsRow
<1>1. ShapeInv /\ [Next]_vars =>
        [\A i \in DOMAIN doc, op \in {"moveRowUp", "moveRowDown", "insertRowBelow", "insertColumnRight"} :
            RunControl(i, op) /\ focus # NoCell /\ focus[1] = i =>
                /\ focus' # NoCell /\ focus'[1] = i
                /\ LET text == doc'[i][focus'[2]][focus'[3]]
                   IN  CASE op \in {"moveRowUp", "moveRowDown"} -> text = doc[i][focus[2]][focus[3]]
                         [] op = "insertRowBelow" -> text = Blank
                         [] op = "insertColumnRight" -> text = IF focus'[2] = 1 THEN Heading ELSE Blank]_vars
  BY FocusFollows
<1> QED
  BY <1>1, ShapeInit, ShapeStep, PTL DEF Spec, FocusFollowsRow

(* ------------------------------- the view ------------------------------- *)

(* The source that a document has in a cell.                               *)
SourceAt(docs, at) == docs[at[1]][at[2]][at[3]]

(* Without focus the cell that is put aside does not matter.               *)
LEMMA NoFocusScreens ==
    ASSUME NEW docs \in Seq(Table(Source)), NEW cell \in CellState
    PROVE  ScreensWith(docs, NoCell, cell) = Screens(docs, NoCell)
<1>1. Within(NoCell, 0) = NoCell /\ \A i : Within(NoCell, i) = NoCell
  BY DEF Within
<1>2. ASSUME NEW i \in 1 .. Len(docs) PROVE GridWith(docs[i], NoCell, cell) = GridOf(docs[i], NoCell)
  BY DocIs, NoFocusGrid
<1> QED
  BY <1>1, <1>2 DEF ScreensWith, Screens

(* A cell that shows its source is what the screens have at focus.         *)
LEMMA FocalScreens ==
    ASSUME NEW docs \in Seq(Table(Source)), NEW f, IsCell(docs, f)
    PROVE  /\ Focal(SourceAt(docs, f)) \in CellState /\ Focal(SourceAt(docs, f)).raw = TRUE
           /\ ScreensWith(docs, f, Focal(SourceAt(docs, f))) = Screens(docs, f)
<1>1. PICK i \in 1 .. Len(docs) : \E r \in 1 .. Len(docs[i]) : \E c \in 1 .. Cols(docs[i]) :
          f = <<i, r, c>> /\ f[1] = i /\ f[2] = r /\ f[3] = c
  BY CellOf
<1>2. PICK r \in 1 .. Len(docs[i]), c \in 1 .. Cols(docs[i]) : f = <<i, r, c>> /\ f[1] = i /\ f[2] = r /\ f[3] = c
  BY <1>1
<1>3. SourceAt(docs, f) = docs[i][r][c]
  BY <1>2 DEF SourceAt
<1>4. docs[i][r][c] \in Seq(Source)
  BY DocIs
<1> DEFINE cell == Focal(SourceAt(docs, f))
<1>5. cell \in CellState /\ cell.raw = TRUE
  BY <1>3, <1>4, CellIs DEF Focal
<1>6. cell = Focal(docs[i][r][c])
  BY <1>3
<1> HIDE DEF cell
<1> DEFINE s == ScreensWith(docs, f, cell)
           u == Screens(docs, f)
<1>7. Fit(s, docs) /\ Fit(u, docs)
  BY <1>5, ScreensFit
<1>8. ASSUME NEW j \in 1 .. Len(docs), NEW p \in 1 .. Len(docs[j]), NEW q \in 1 .. Cols(docs[j])
      PROVE  s[j][p][q] = u[j][p][q]
  <2>1. Place(docs, j, p, q)
    BY DEF Place
  <2>2. /\ f = <<j, p, q>> => u[j][p][q] = Focal(docs[j][p][q])
        /\ f # <<j, p, q>> => u[j][p][q] = ToRendered(docs[j][p][q])
    <3>1. Displays(u, docs, f, Focal(docs[j][p][q]), j, p, q)
      BY <2>1, ScreenAt
    <3> QED
      BY <3>1 DEF Displays
  <2>4. /\ f = <<j, p, q>> => s[j][p][q] = cell
        /\ f # <<j, p, q>> => s[j][p][q] = ToRendered(docs[j][p][q])
    <3>1. Displays(s, docs, f, cell, j, p, q)
      BY <2>1, ScreenWithAt
    <3> QED
      BY <3>1 DEF Displays
  <2>3. f = <<j, p, q>> => j = i /\ p = r /\ q = c
    BY <1>2
  <2> HIDE DEF s, u
  <2> QED
    BY <1>6, <2>2, <2>3, <2>4
<1> HIDE DEF s, u
<1>9. Alike(s, u, docs)
  BY <1>8 DEF Alike, Place
<1>10. s = u
  BY <1>7, <1>9, ScreenSame
<1> QED
  BY <1>5, <1>10 DEF s, u, cell

(* What is written in the focused cell is all that changes on screen.      *)
LEMMA FocusPut ==
    ASSUME NEW docs \in Seq(Table(Source)), NEW i \in 1 .. Len(docs), NEW r \in 1 .. Len(docs[i]), NEW c \in 1 .. Cols(docs[i]),
           NEW cell \in CellState, NEW x \in CellState
    PROVE  LET f == <<i, r, c>>
           IN  /\ ScreensWith(docs, f, cell)[i][r][c] = cell
               /\ Put(ScreensWith(docs, f, cell), i, r, c, x) = ScreensWith(docs, f, x)
<1> DEFINE f == <<i, r, c>>
           s == ScreensWith(docs, f, cell)
           u == ScreensWith(docs, f, x)
           v == Put(s, i, r, c, x)
<1>1. Fit(s, docs) /\ Fit(u, docs)
  BY ScreensFit
<1>2. IsCell(docs, f)
  BY DEF IsCell
<1>3. ASSUME NEW j \in 1 .. Len(docs), NEW p \in 1 .. Len(docs[j]), NEW q \in 1 .. Cols(docs[j])
      PROVE  /\ j = i /\ p = r /\ q = c => s[j][p][q] = cell /\ u[j][p][q] = x
             /\ ~(j = i /\ p = r /\ q = c) => s[j][p][q] = ToRendered(docs[j][p][q]) /\ u[j][p][q] = ToRendered(docs[j][p][q])
  <2>1. docs \in Seq(Table(Source)) /\ Place(docs, j, p, q) /\ (f = NoCell \/ IsCell(docs, f))
    BY <1>2 DEF Place
  <2>2. f = <<j, p, q>> <=> j = i /\ p = r /\ q = c
    OBVIOUS
  <2> HIDE DEF f
  <2>3. /\ f = <<j, p, q>> => s[j][p][q] = cell
        /\ f # <<j, p, q>> => s[j][p][q] = ToRendered(docs[j][p][q])
    <3>1. Displays(s, docs, f, cell, j, p, q)
      BY <2>1, ScreenWithAt
    <3> QED
      BY <3>1 DEF Displays
  <2>4. /\ f = <<j, p, q>> => u[j][p][q] = x
        /\ f # <<j, p, q>> => u[j][p][q] = ToRendered(docs[j][p][q])
    <3>1. Displays(u, docs, f, x, j, p, q)
      BY <2>1, ScreenWithAt
    <3> QED
      BY <3>1 DEF Displays
  <2> HIDE DEF s, u
  <2> QED
    BY <2>2, <2>3, <2>4
<1> HIDE DEF s, u, f
<1>4. Fit(v, docs) /\ v[i][r][c] = x /\ AlikeBut(v, s, docs, i, r, c)
  <2>1. docs \in Seq(Table(Source)) /\ Fit(s, docs) /\ x \in CellState /\ Place(docs, i, r, c)
    BY <1>1 DEF Place
  <2> QED
    BY <2>1, CellSet
<1> HIDE DEF v
<1>5. Alike(v, u, docs)
  <2>1. ASSUME NEW j \in 1 .. Len(docs), NEW p \in 1 .. Len(docs[j]), NEW q \in 1 .. Cols(docs[j])
        PROVE  v[j][p][q] = u[j][p][q]
    <3>1. CASE j = i /\ p = r /\ q = c
      BY <1>3, <1>4, <3>1
    <3>2. CASE ~(j = i /\ p = r /\ q = c)
      <4>1. v[j][p][q] = s[j][p][q]
        <5>1. Place(docs, j, p, q)
          BY DEF Place
        <5> QED
          BY <1>4, <3>2, <5>1 DEF AlikeBut
      <4> QED
        BY <1>3, <3>2, <4>1
    <3> QED
      BY <3>1, <3>2
  <2> QED
    BY <2>1 DEF Alike, Place
<1>6. v = u
  <2>1. docs \in Seq(Table(Source)) /\ Fit(v, docs) /\ Fit(u, docs)
    BY <1>1, <1>4
  <2> QED
    BY <2>1, <1>5, ScreenSame
<1>7. s[i][r][c] = cell
  BY <1>3
<1> QED
  BY <1>6, <1>7 DEF v, u, s, f

(* The document changes under a person who composes nothing.               *)
LEMMA CalmUpdate ==
    ASSUME doc \in Seq(Table(Source)), focus = NoCell \/ IsCell(doc, focus), dom = Screens(doc, focus),
           NEW docs \in Seq(Table(Source)),
           NEW kept \in SUBSET ((1 .. Len(doc)) \cap (1 .. Len(docs))), NEW changed,
           \A i \in kept \ changed : docs[i] = doc[i],
           composing' = {}
    PROVE  Updated(dom, docs, kept, changed) = Screens(docs, FocusKept(docs, kept))
<1> DEFINE to == FocusKept(docs, kept)
           after == Updated(dom, docs, kept, changed)
<1>0. Source \in SUBSET Source /\ Blank \in Seq(Source)
  BY EmptySeq DEF Blank
<1>1. PICK cell \in CellState : cell.raw = TRUE /\ dom = ScreensWith(doc, focus, cell)
                                /\ (focus # NoCell => cell = Focal(SourceAt(doc, focus)))
  <2>1. CASE focus = NoCell
    <3>1. Focal(Blank) \in CellState /\ Focal(Blank).raw = TRUE
      BY <1>0, CellIs DEF Focal
    <3> QED
      BY <2>1, <3>1, NoFocusScreens
  <2>2. CASE focus # NoCell
    BY <2>2, FocalScreens
  <2> QED
    BY <2>1, <2>2
<1>2. Fit(dom, doc)
  BY <1>0, <1>1, ScreensFit
<1>3. /\ to # NoCell /\ focus[1] \in changed => after = Screens(docs, to)
      /\ ~(to # NoCell /\ focus[1] \in changed) => after = ScreensWith(docs, to, cell)
  <2>1. /\ Holding(dom, docs, kept) => to = focus /\ to # NoCell
        /\ ~Holding(dom, docs, kept) => to = NoCell
    BY DEF FocusKept, Holding
  <2>2. Unmoved(doc, docs, kept, changed) /\ cell \in RawCell
    BY <1>1 DEF Unmoved, RawCell
  <2> HIDE DEF to
  <2>3. /\ Holding(dom, docs, kept) =>
              /\ focus[1] \in changed /\ focus[1] \notin composing' => after = Screens(docs, focus)
              /\ focus[1] \notin changed \/ focus[1] \in composing' => after = ScreensWith(docs, focus, cell)
        /\ ~Holding(dom, docs, kept) => after = ScreensWith(docs, NoCell, cell)
    BY <1>0, <1>1, <2>2, UpdatedView
  <2> HIDE DEF after
  <2> QED
    BY <2>1, <2>3
<1>4. to = NoCell \/ (to = focus /\ IsCell(docs, focus) /\ focus # NoCell /\ focus[1] \in kept)
  BY <1>2, KeptCell
<1> HIDE DEF to, after
<1>5. CASE to # NoCell /\ focus[1] \in changed
  BY <1>3, <1>5 DEF to, after
<1>6. CASE to = NoCell
  BY <1>3, <1>6, NoFocusScreens DEF to, after
<1>7. CASE to # NoCell /\ focus[1] \notin changed
  <2>1. docs[focus[1]] = doc[focus[1]]
    BY <1>4, <1>7
  <2>2. cell = Focal(SourceAt(docs, focus))
    BY <1>1, <1>4, <1>7, <2>1 DEF SourceAt
  <2>3. after = ScreensWith(docs, focus, cell) /\ IsCell(docs, focus)
    BY <1>3, <1>4, <1>7
  <2>4. ScreensWith(docs, focus, Focal(SourceAt(docs, focus))) = Screens(docs, focus)
    BY <2>3, FocalScreens
  <2> QED
    BY <1>4, <1>7, <2>2, <2>3, <2>4 DEF to, after
<1> QED
  BY <1>5, <1>6, <1>7

(* And under one who composes: the cell is left alone, or taken away.      *)
LEMMA ComposedUpdate ==
    ASSUME doc \in Seq(Table(Source)), IsCell(doc, focus),
           NEW cell \in CellState, cell.raw = TRUE, dom = ScreensWith(doc, focus, cell),
           NEW docs \in Seq(Table(Source)),
           NEW kept \in SUBSET ((1 .. Len(doc)) \cap (1 .. Len(docs))), NEW changed,
           \A i \in kept \ changed : docs[i] = doc[i],
           FocusKept(docs, kept) # NoCell => focus[1] \in composing'
    PROVE  LET to == FocusKept(docs, kept)
           IN  Updated(dom, docs, kept, changed) = ScreensWith(docs, to, cell)
<1> DEFINE to == FocusKept(docs, kept)
           after == Updated(dom, docs, kept, changed)
<1>0. /\ Source \in SUBSET Source /\ (focus = NoCell \/ IsCell(doc, focus))
      /\ doc \in Seq(Table(Source)) /\ docs \in Seq(Table(Source)) /\ dom = ScreensWith(doc, focus, cell)
  OBVIOUS
<1>1. /\ Holding(dom, docs, kept) => to = focus /\ to # NoCell
      /\ ~Holding(dom, docs, kept) => to = NoCell
  BY DEF FocusKept, Holding
<1>2. Unmoved(doc, docs, kept, changed) /\ cell \in RawCell
  BY DEF Unmoved, RawCell
<1>3. /\ Holding(dom, docs, kept) =>
            /\ focus[1] \in changed /\ focus[1] \notin composing' => after = Screens(docs, focus)
            /\ focus[1] \notin changed \/ focus[1] \in composing' => after = ScreensWith(docs, focus, cell)
      /\ ~Holding(dom, docs, kept) => after = ScreensWith(docs, NoCell, cell)
  BY <1>0, <1>2, UpdatedView
<1>4. Holding(dom, docs, kept) => focus[1] \in composing'
  BY <1>1
<1> HIDE DEF to, after
<1>5. after = ScreensWith(docs, to, cell)
  BY <1>1, <1>3, <1>4
<1> QED
  BY <1>5 DEF to, after

(* The focused cell takes over what is written in its place, or is gone.   *)
LEMMA CellTaken ==
    ASSUME doc \in Seq(Table(Source)), IsCell(doc, focus), Fit(dom, doc), NEW cell \in RawCell,
           NEW docs \in Seq(Table(Source)), NEW kept, NEW changed, Unmoved(doc, docs, kept, changed),
           focus[1] \in kept, focus[1] \in changed, focus[1] \notin composing'
    PROVE  Updated(ScreensWith(doc, focus, cell), docs, kept, changed) = Screens(docs, FocusKept(docs, kept))
<1> DEFINE s == ScreensWith(doc, focus, cell)
           after == Updated(s, docs, kept, changed)
           to == FocusKept(docs, kept)
<1>0. /\ Source \in SUBSET Source /\ (focus = NoCell \/ IsCell(doc, focus))
      /\ doc \in Seq(Table(Source)) /\ docs \in Seq(Table(Source)) /\ Unmoved(doc, docs, kept, changed) /\ cell \in CellState
      /\ kept \in SUBSET ((1 .. Len(doc)) \cap (1 .. Len(docs)))
  BY DEF Unmoved, RawCell
<1>1. /\ Holding(s, docs, kept) => after = Screens(docs, focus)
      /\ ~Holding(s, docs, kept) => after = ScreensWith(docs, NoCell, cell)
  BY <1>0, UpdatedView
<1>2. focus # NoCell
  BY CellOf
<1>3. SameShape(s[focus[1]], docs[focus[1]]) <=> SameShape(dom[focus[1]], docs[focus[1]])
  <2>1. Fit(s, doc)
    BY <1>0, ScreensFit
  <2> HIDE DEF s
  <2>2. focus[1] \in 1 .. Len(doc) /\ Fit(s, doc)
    BY <1>0, <2>1
  <2>3. s[focus[1]] \in Grid(doc[focus[1]]) /\ dom[focus[1]] \in Grid(doc[focus[1]]) /\ doc[focus[1]] \in Table(Source)
    BY <2>2, FitIs
  <2> QED
    BY <2>3, GridIs
<1>4. Holding(s, docs, kept) <=> Holding(dom, docs, kept)
  BY <1>3 DEF Holding
<1>5. /\ Holding(dom, docs, kept) => to = focus
      /\ ~Holding(dom, docs, kept) => to = NoCell
  BY DEF FocusKept, Holding
<1>6. ScreensWith(docs, NoCell, cell) = Screens(docs, NoCell)
  BY <1>0, NoFocusScreens
<1> HIDE DEF s, after, to
<1>7. after = Screens(docs, to)
  BY <1>1, <1>4, <1>5, <1>6
<1> QED
  BY <1>7 DEF after, s, to

Reshown(cell, text) == [src |-> cell.src, shown |-> text, raw |-> TRUE]

Working(i, r, c, cell) ==
    /\ doc \in Seq(Table(Source)) /\ Fit(dom, doc)
    /\ i \in 1 .. Len(doc) /\ r \in 1 .. Len(doc[i]) /\ c \in 1 .. Cols(doc[i]) /\ focus = <<i, r, c>>
    /\ cell \in CellState /\ cell.raw = TRUE /\ dom = ScreensWith(doc, focus, cell)
Leaves(i, r, c, cell, text, row) ==
    LET idle == i \in composing' \/ Escape(text) = doc[i][r][c]
    IN  /\ idle => doc' = doc /\ dom' = ScreensWith(doc, focus, Reshown(cell, text)) /\ focus' = focus
        /\ ~idle => /\ doc' = Entered(i, r, c, Trim(Escape(text))) /\ dom' = Screens(doc', focus')
                    /\ ~IsDivider(row) => focus' = focus

(* What a commit leaves on screen.                                         *)
LEMMA CommittedView ==
    ASSUME NEW i, NEW r, NEW c, NEW cell, Working(i, r, c, cell), NEW text, text \in Seq(Visible), Commit(text),
           NEW row, row = With(doc[i][r], c, Trim(Escape(text)))
    PROVE  Leaves(i, r, c, cell, text, row)
<1>0. /\ doc \in Seq(Table(Source)) /\ Fit(dom, doc)
      /\ i \in 1 .. Len(doc) /\ r \in 1 .. Len(doc[i]) /\ c \in 1 .. Cols(doc[i]) /\ focus = <<i, r, c>>
      /\ cell \in CellState /\ cell.raw = TRUE /\ dom = ScreensWith(doc, focus, cell)
  BY DEF Working
<1> USE <1>0
<1> DEFINE x == Reshown(cell, text)
           shown == Put(dom, i, r, c, Reshow(dom[i][r][c], text))
           idle == i \in composing' \/ Escape(text) = doc[i][r][c]
           new == Trim(Escape(text))
<1>1. Escape(text) \in Seq(Source)
  BY Typed, EscapeIsSeq
<1>a. PICK docs : docs = Entered(i, r, c, Trim(Escape(text)))
  OBVIOUS
<1>2. /\ idle => doc' = doc /\ dom' = shown /\ focus' = focus
      /\ ~idle => doc' = docs /\ dom' = Updated(shown, docs, DOMAIN doc, {i}) /\ focus' = FocusKept(docs, DOMAIN doc)
  <2>1. Source \in SUBSET Source
    OBVIOUS
  <2>2. /\ doc \in Seq(Table(Source)) /\ Place(doc, i, r, c) /\ focus = <<i, r, c>>
        /\ Escape(text) \in Seq(Source) /\ Commit(text)
    BY <1>1 DEF Place
  <2>3. Writes(i, r, c, text)
    BY <2>1, <2>2, Committed
  <2> QED
    BY <1>a, <2>3 DEF Writes
<1>3. x \in CellState /\ x.raw = TRUE
  BY DEF CellState, Reshown
<1>4. shown = ScreensWith(doc, focus, x)
  <2>1. dom[i][r][c] = cell
    BY FocusPut
  <2>2. Reshow(cell, text) = x
    BY CellExcept DEF Reshow, Reshown
  <2>3. shown = Put(ScreensWith(doc, <<i, r, c>>, cell), i, r, c, x)
    BY <2>1, <2>2
  <2> HIDE DEF x, shown
  <2>4. Put(ScreensWith(doc, <<i, r, c>>, cell), i, r, c, x) = ScreensWith(doc, <<i, r, c>>, x)
    BY <1>3, FocusPut
  <2> QED
    BY <2>3, <2>4
<1> HIDE DEF x, shown, idle
<1>b. new \in Text(Source) /\ docs = Entered(i, r, c, new) /\ row = With(doc[i][r], c, new)
  BY <1>1, <1>a, TrimIsText
<1> HIDE DEF new
<1>5. /\ docs \in Seq(Table(Source)) /\ Len(docs) = Len(doc)
      /\ \A j \in 1 .. Len(doc) : j # i => docs[j] = doc[j]
  BY <1>b, EnteredFrame
<1>c. ~IsDivider(row) => Len(docs[i]) = Len(doc[i]) /\ Cols(docs[i]) = Cols(doc[i])
  BY <1>b, EnteredIs
<1>6. CASE idle
  BY <1>2, <1>4, <1>6 DEF idle, x, Leaves
<1>7. CASE ~idle
  <2> DEFINE kept == DOMAIN doc
             changed == {i}
             after == Updated(ScreensWith(doc, focus, x), docs, kept, changed)
             to == FocusKept(docs, kept)
  <2>1. IsCell(doc, focus) /\ focus[1] = i /\ focus # NoCell
    <3>1. IsCell(doc, focus)
      BY DEF IsCell
    <3> QED
      BY <3>1, CellOf
  <2>2. kept = 1 .. Len(doc)
    BY SeqIs
  <2>3. /\ kept \in SUBSET ((1 .. Len(doc)) \cap (1 .. Len(docs)))
        /\ \A j \in kept \ changed : docs[j] = doc[j]
        /\ focus[1] \in kept /\ focus[1] \in changed /\ focus[1] \notin composing'
    BY <1>5, <1>7, <2>1, <2>2 DEF idle
  <2>7. ~IsDivider(row) => to = focus
    <3> SUFFICES ASSUME ~IsDivider(row) PROVE to = focus
      OBVIOUS
    <3>1. dom[i] \in Grid(doc[i]) /\ doc[i] \in Table(Source)
      BY FitIs
    <3>2. SameShape(dom[i], docs[i])
      BY <1>c, <3>1, GridIs
    <3> QED
      BY <2>1, <2>3, <3>2 DEF FocusKept
  <2> HIDE DEF kept, changed, to
  <2>4. after = Screens(docs, to)
    <3>1. x \in RawCell /\ Unmoved(doc, docs, kept, changed)
      BY <1>3, <2>3 DEF RawCell, Unmoved
    <3>2. docs \in Seq(Table(Source)) /\ focus[1] \in kept /\ focus[1] \in changed /\ focus[1] \notin composing'
      BY <1>5, <2>3
    <3> QED
      BY <2>1, <3>1, <3>2, CellTaken DEF to
  <2>5. doc' = docs /\ dom' = after /\ focus' = to
    BY <1>2, <1>4, <1>7 DEF kept, changed, to
  <2> HIDE DEF after
  <2>6. doc' = docs /\ dom' = Screens(doc', focus') /\ (~IsDivider(row) => focus' = focus)
    BY <2>4, <2>5, <2>7
  <2> QED
    BY <1>7, <1>a, <2>6 DEF idle, Leaves
<1> QED
  BY <1>6, <1>7

(* Outside a composition the screen is the document, with the markdown of  *)
(* the focused cell; during one, all of it but that cell.                  *)
ViewInv ==
    /\ ShapeInv
    /\ ~ime => composing = {} /\ dom = Screens(doc, focus)
    /\ ime => /\ composing = {focus[1]}
              /\ \E cell \in CellState : cell.raw = TRUE /\ dom = ScreensWith(doc, focus, cell)

(* The view, action by action.                                             *)
LEMMA ViewInit == Init => ViewInv
<1> SUFFICES ASSUME Init PROVE ViewInv
  OBVIOUS
<1>1. ShapeInv /\ ~ime /\ composing = {} /\ focus = NoCell /\ doc = Doc0 /\ dom = [i \in DOMAIN Doc0 |-> RebuildGrid(Doc0[i])]
  BY ShapeInit DEF Init
<1>2. Doc0 \in Seq(Table(Source)) /\ DOMAIN Doc0 = 1 .. Len(Doc0)
  BY Typed, SeqIs
<1>3. ASSUME NEW i \in 1 .. Len(Doc0) PROVE RebuildGrid(Doc0[i]) = GridOf(Doc0[i], Within(NoCell, i))
  <2>1. Doc0[i] \in Table(Source) /\ Source \in SUBSET Source
    BY <1>2, SeqIs
  <2> QED
    BY <2>1, RebuiltGrid DEF Within
<1> QED
  BY <1>1, <1>2, <1>3 DEF ViewInv, Screens

(* The cell with focus, and what it says.                                  *)
LEMMA WorkingCell ==
    ASSUME ViewInv, focus # NoCell
    PROVE  \E i \in 1 .. Len(doc) : \E r \in 1 .. Len(doc[i]) : \E c \in 1 .. Cols(doc[i]) : \E cell \in CellState :
              /\ focus = <<i, r, c>> /\ focus[1] = i /\ IsCell(doc, focus) /\ SourceAt(doc, focus) = doc[i][r][c]
              /\ cell.raw = TRUE /\ dom = ScreensWith(doc, focus, cell)
              /\ dom[i][r][c] = cell /\ Shown(focus) = cell.shown
              /\ ~ime => cell.src = doc[i][r][c] /\ cell.shown = Unescape(doc[i][r][c])
<1>1. doc \in Seq(Table(Source)) /\ IsCell(doc, focus)
  BY InCell DEF ViewInv, ShapeInv
<1>2. PICK i \in 1 .. Len(doc) : \E r \in 1 .. Len(doc[i]) : \E c \in 1 .. Cols(doc[i]) :
          focus = <<i, r, c>> /\ focus[1] = i /\ focus[2] = r /\ focus[3] = c
  BY <1>1, CellOf
<1>3. PICK r \in 1 .. Len(doc[i]), c \in 1 .. Cols(doc[i]) : focus = <<i, r, c>> /\ focus[1] = i /\ focus[2] = r /\ focus[3] = c
  BY <1>2
<1>4. SourceAt(doc, focus) = doc[i][r][c]
  BY <1>3 DEF SourceAt
<1>5. \E cell \in CellState : cell.raw = TRUE /\ dom = ScreensWith(doc, focus, cell)
                              /\ (~ime => cell.src = doc[i][r][c] /\ cell.shown = Unescape(doc[i][r][c]))
  <2>1. CASE ime
    BY <2>1 DEF ViewInv
  <2>2. CASE ~ime
    <3>1. dom = Screens(doc, focus)
      BY <2>2 DEF ViewInv
    <3>2. /\ Focal(SourceAt(doc, focus)) \in CellState /\ Focal(SourceAt(doc, focus)).raw = TRUE
          /\ ScreensWith(doc, focus, Focal(SourceAt(doc, focus))) = Screens(doc, focus)
      BY <1>1, FocalScreens
    <3>3. Focal(SourceAt(doc, focus)).src = doc[i][r][c] /\ Focal(SourceAt(doc, focus)).shown = Unescape(doc[i][r][c])
      BY <1>4 DEF Focal
    <3> QED
      BY <3>1, <3>2, <3>3
  <2> QED
    BY <2>1, <2>2
<1>6. PICK cell \in CellState : cell.raw = TRUE /\ dom = ScreensWith(doc, focus, cell)
                                /\ (~ime => cell.src = doc[i][r][c] /\ cell.shown = Unescape(doc[i][r][c]))
  BY <1>5
<1>7. dom[i][r][c] = cell
  BY <1>1, <1>3, <1>6, FocusPut
<1>8. Shown(focus) = cell.shown
  BY <1>3, <1>7 DEF Shown
<1> QED
  BY <1>1, <1>3, <1>4, <1>6, <1>7, <1>8

LEMMA FocusView == ASSUME ViewInv, NEW to \in Cells(dom) \cup {NoCell}, Focus(to) PROVE ViewInv'
<1>1. /\ dom' = MoveFocus(dom, focus, to) /\ focus' = to
      /\ UNCHANGED <<doc, composing, ime, typed, counters>> /\ ~ime
  BY DEF Focus
<1>2. ShapeInv' /\ composing = {} /\ dom = Screens(doc, focus)
  BY <1>1, FocusShape DEF ViewInv
<1>3. doc \in Seq(Table(Source)) /\ (focus = NoCell \/ IsCell(doc, focus)) /\ (to = NoCell \/ IsCell(doc, to))
  BY CellsAre DEF ViewInv, ShapeInv
<1>4. MoveFocus(Screens(doc, focus), focus, to) = Screens(doc, to)
  <2>1. Source \in SUBSET Source
    OBVIOUS
  <2> QED
    BY <1>3, <2>1, MovedView
<1> QED
  BY <1>1, <1>2, <1>4 DEF ViewInv

(* A text that is not as long as the source is not an echo of it.          *)
LEMMA NoEcho ==
    ASSUME NEW src \in Seq(Source), NEW text \in Seq(Visible), Len(text) # Len(src)
    PROVE  Escape(text) # src
<1>1. Len(Escape(text)) = Len(text)
  BY Typed, EscapeIsSeq
<1> QED
  BY <1>1

(* Typing or erasing: during a composition only the cell on screen changes;*)
(* outside one the document takes the text, and the screen follows.        *)
LEMMA InputView ==
    ASSUME ViewInv, focus # NoCell, UNCHANGED <<composing, ime, counters>>, ShapeInv',
           NEW text \in Seq(Visible), Len(text) # Len(Shown(focus)), Commit(text)
    PROVE  /\ ViewInv'
           /\ ~ime => \E i \in 1 .. Len(doc) : \E r \in 1 .. Len(doc[i]) : \E c \in 1 .. Cols(doc[i]) :
                          /\ focus = <<i, r, c>> /\ doc' = Entered(i, r, c, Trim(Escape(text)))
                          /\ ~IsDivider(With(doc[i][r], c, Trim(Escape(text)))) => focus' = focus
<1>1. doc \in Seq(Table(Source)) /\ Fit(dom, doc)
  BY DEF ViewInv, ShapeInv
<1>2. PICK i \in 1 .. Len(doc) : \E r \in 1 .. Len(doc[i]) : \E c \in 1 .. Cols(doc[i]) : \E cell \in CellState :
              /\ focus = <<i, r, c>> /\ focus[1] = i /\ IsCell(doc, focus) /\ SourceAt(doc, focus) = doc[i][r][c]
              /\ cell.raw = TRUE /\ dom = ScreensWith(doc, focus, cell)
              /\ dom[i][r][c] = cell /\ Shown(focus) = cell.shown
              /\ ~ime => cell.src = doc[i][r][c] /\ cell.shown = Unescape(doc[i][r][c])
  BY WorkingCell
<1>3. PICK r \in 1 .. Len(doc[i]), c \in 1 .. Cols(doc[i]), cell \in CellState :
              /\ focus = <<i, r, c>> /\ focus[1] = i /\ IsCell(doc, focus) /\ SourceAt(doc, focus) = doc[i][r][c]
              /\ cell.raw = TRUE /\ dom = ScreensWith(doc, focus, cell)
              /\ dom[i][r][c] = cell /\ Shown(focus) = cell.shown
              /\ ~ime => cell.src = doc[i][r][c] /\ cell.shown = Unescape(doc[i][r][c])
  BY <1>2
<1>a. PICK row : row = With(doc[i][r], c, Trim(Escape(text)))
  OBVIOUS
<1> DEFINE x == Reshown(cell, text)
           idle == i \in composing' \/ Escape(text) = doc[i][r][c]
<1>4. /\ idle => doc' = doc /\ dom' = ScreensWith(doc, focus, x) /\ focus' = focus
      /\ ~idle => /\ doc' = Entered(i, r, c, Trim(Escape(text))) /\ dom' = Screens(doc', focus')
                  /\ ~IsDivider(row) => focus' = focus
  <2>1. Working(i, r, c, cell)
    BY <1>1, <1>3 DEF Working
  <2>2. Leaves(i, r, c, cell, text, row)
    BY <1>a, <2>1, CommittedView
  <2> QED
    BY <2>2 DEF Leaves
<1>5. x \in CellState /\ x.raw = TRUE
  BY DEF CellState, Reshown
<1> HIDE DEF x
<1>6. CASE ime
  <2>1. composing = {i} /\ composing' = composing /\ ime' = ime
    BY <1>3, <1>6 DEF ViewInv
  <2>2. idle
    BY <2>1
  <2> QED
    BY <1>3, <1>4, <1>5, <1>6, <2>1, <2>2, SMTT(30) DEF ViewInv
<1>7. CASE ~ime
  <2>1. composing = {} /\ composing' = composing /\ ime' = ime
    BY <1>7 DEF ViewInv
  <2>2. Escape(text) # doc[i][r][c]
    <3>1. doc[i][r][c] \in Seq(Source)
      BY <1>1, DocIs
    <3>2. Len(Unescape(doc[i][r][c])) = Len(doc[i][r][c])
      <4>1. \A g \in Source : Read(g) \in Visible
        BY TableAssumption DEF Source, Visible, Read, Glyph
      <4> QED
        BY <3>1, <4>1, UnescapeIsSeq
    <3> QED
      BY <1>3, <1>7, <3>1, <3>2, NoEcho
  <2>3. ~idle
    BY <2>1, <2>2
  <2>4. ViewInv'
    BY <1>4, <1>7, <2>1, <2>3 DEF ViewInv
  <2>5. /\ focus = <<i, r, c>> /\ doc' = Entered(i, r, c, Trim(Escape(text)))
        /\ ~IsDivider(With(doc[i][r], c, Trim(Escape(text)))) => focus' = focus
    BY <1>3, <1>4, <1>a, <2>3
  <2> QED
    BY <2>4, <2>5
<1> QED
  BY <1>6, <1>7

(* A key.                                                                  *)
LEMMA TypeView ==
    ASSUME ViewInv, NEW key \in Keys, Type(key)
    PROVE  /\ ViewInv'
           /\ ~ime => \E i \in 1 .. Len(doc) : \E r \in 1 .. Len(doc[i]) : \E c \in 1 .. Cols(doc[i]) :
                          /\ focus = <<i, r, c>> /\ doc' = Entered(i, r, c, Trim(Escape(Append(Shown(focus), key))))
                          /\ ~IsDivider(With(doc[i][r], c, Trim(Escape(Append(Shown(focus), key))))) => focus' = focus
<1>1. /\ focus # NoCell /\ UNCHANGED <<composing, ime, counters>>
      /\ Commit(Append(Shown(focus), key))
  BY DEF Type, Input
<1>2. ShapeInv'
  BY TypeShape DEF ViewInv
<1>3. Shown(focus) \in Seq(Visible)
  BY <1>1, InCell DEF ViewInv
<1>4. Append(Shown(focus), key) \in Seq(Visible) /\ Len(Append(Shown(focus), key)) # Len(Shown(focus))
  <2>1. Len(Shown(focus)) \in Nat /\ key \in Visible
    BY <1>3, SeqIs, Typed
  <2>2. Append(Shown(focus), key) \in Seq(Visible) /\ Len(Append(Shown(focus), key)) = Len(Shown(focus)) + 1
    BY <1>3, <2>1, AppendProperties
  <2> QED
    BY <2>1, <2>2
<1> QED
  BY <1>1, <1>2, <1>4, InputView

(* Backspace.                                                              *)
LEMMA EraseView == ASSUME ViewInv, Erase PROVE ViewInv'
<1>1. /\ focus # NoCell /\ Shown(focus) # Blank
      /\ UNCHANGED <<composing, ime, counters>>
      /\ Commit(Front(Shown(focus)))
  BY DEF Erase, Input
<1>2. ShapeInv'
  BY EraseShape DEF ViewInv
<1>3. Shown(focus) \in Seq(Visible)
  BY <1>1, InCell DEF ViewInv
<1>4. Front(Shown(focus)) \in Seq(Visible) /\ Len(Front(Shown(focus))) # Len(Shown(focus))
  <2>1. Len(Shown(focus)) \in Nat
    BY <1>3, SeqIs
  <2>2. Front(Shown(focus)) \in Seq(Visible) /\ Len(Front(Shown(focus))) = Len(Shown(focus)) - 1
    BY <1>1, <1>3, FrontIsSeq DEF Blank
  <2> QED
    BY <2>1, <2>2
<1> QED
  BY <1>1, <1>2, <1>4, InputView

(* The source that a cell on screen last saw.                              *)
SeenAt(at) == dom[at[1]][at[2]][at[3]].src

(* A composition that ends with the very text that the document has by     *)
(* then began with it: commit writes nothing, and nothing else looks at    *)
(* what the cell saw last.                                                 *)
EndsApart ==
    CompositionEnd /\ Escape(Shown(focus)) = SourceAt(doc, focus) => SeenAt(focus) = SourceAt(doc, focus)

(* A composition begins, and ends.                                         *)
LEMMA StartView == ASSUME ViewInv, CompositionStart PROVE ViewInv'
<1>1. /\ focus # NoCell /\ ~ime /\ composing' = composing \cup {focus[1]} /\ ime' = TRUE
      /\ UNCHANGED <<doc, dom, focus, typed, counters>>
  BY DEF CompositionStart
<1>2. ShapeInv'
  BY CompositionShape DEF ViewInv
<1>3. \E cell \in CellState : cell.raw = TRUE /\ dom = ScreensWith(doc, focus, cell)
  BY <1>1, WorkingCell
<1>4. composing' = {focus[1]}
  BY <1>1 DEF ViewInv
<1> QED
  BY <1>1, <1>2, <1>3, <1>4 DEF ViewInv

LEMMA EndView == ASSUME ViewInv, CompositionEnd, EndsApart PROVE ViewInv'
<1>1. /\ ime /\ composing' = composing \ {focus[1]} /\ ime' = FALSE
      /\ Commit(Shown(focus)) /\ UNCHANGED <<typed, counters>>
  BY DEF CompositionEnd
<1>2. ShapeInv'
  BY CompositionShape DEF ViewInv
<1>3. focus # NoCell /\ composing' = {} /\ doc \in Seq(Table(Source)) /\ Fit(dom, doc)
  BY <1>1 DEF ViewInv, ShapeInv
<1>4. Shown(focus) \in Seq(Visible)
  BY <1>3, InCell DEF ViewInv
<1>5. PICK i \in 1 .. Len(doc) : \E r \in 1 .. Len(doc[i]) : \E c \in 1 .. Cols(doc[i]) : \E cell \in CellState :
              /\ focus = <<i, r, c>> /\ focus[1] = i /\ IsCell(doc, focus) /\ SourceAt(doc, focus) = doc[i][r][c]
              /\ cell.raw = TRUE /\ dom = ScreensWith(doc, focus, cell)
              /\ dom[i][r][c] = cell /\ Shown(focus) = cell.shown
              /\ ~ime => cell.src = doc[i][r][c] /\ cell.shown = Unescape(doc[i][r][c])
  BY <1>3, WorkingCell
<1>6. PICK r \in 1 .. Len(doc[i]), c \in 1 .. Cols(doc[i]), cell \in CellState :
              /\ focus = <<i, r, c>> /\ focus[1] = i /\ IsCell(doc, focus) /\ SourceAt(doc, focus) = doc[i][r][c]
              /\ cell.raw = TRUE /\ dom = ScreensWith(doc, focus, cell)
              /\ dom[i][r][c] = cell /\ Shown(focus) = cell.shown
  BY <1>5
<1> DEFINE text == Shown(focus)
           x == Reshown(cell, text)
           idle == i \in composing' \/ Escape(text) = doc[i][r][c]
<1>7. /\ idle => doc' = doc /\ dom' = ScreensWith(doc, focus, x) /\ focus' = focus
      /\ ~idle => dom' = Screens(doc', focus')
  <2>1. Working(i, r, c, cell) /\ Commit(text) /\ text \in Seq(Visible)
    BY <1>1, <1>3, <1>4, <1>6 DEF Working
  <2> HIDE DEF text
  <2>2. PICK row : row = With(doc[i][r], c, Trim(Escape(text)))
    OBVIOUS
  <2>3. Leaves(i, r, c, cell, text, row)
    BY <2>1, <2>2, CommittedView
  <2> QED
    BY <2>3 DEF Leaves
<1>8. CASE Escape(text) = doc[i][r][c]
  <2>1. SeenAt(focus) = cell.src
    BY <1>6 DEF SeenAt
  <2>2. cell.src = doc[i][r][c]
    BY <1>6, <1>8, <2>1 DEF EndsApart
  <2>3. Unescape(doc[i][r][c]) = text
    <3>1. text \in Seq(Glyph \ {EscapedPipe})
      BY <1>4 DEF Visible
    <3> HIDE DEF text
    <3> QED
      BY <1>8, <3>1, ReadBack
  <2>4. x = Focal(SourceAt(doc, focus))
    BY <1>6, <2>2, <2>3 DEF Reshown, Focal
  <2>5. ScreensWith(doc, focus, x) = Screens(doc, focus)
    BY <1>3, <1>6, <2>4, FocalScreens
  <2>6. doc' = doc /\ dom' = ScreensWith(doc, focus, x) /\ focus' = focus
    BY <1>7, <1>8
  <2> QED
    BY <1>1, <1>2, <1>3, <2>5, <2>6 DEF ViewInv
<1>9. CASE Escape(text) # doc[i][r][c]
  <2>1. ~idle
    BY <1>3, <1>9
  <2> QED
    BY <1>1, <1>2, <1>3, <1>7, <2>1 DEF ViewInv
<1> QED
  BY <1>8, <1>9

(* A command or a paste.                                                   *)
LEMMA RewriteView ==
    ASSUME ViewInv, ~ime, UNCHANGED <<composing, ime>>, ShapeInv',
           NEW i \in 1 .. Len(doc), NEW rows \in Filled(Source), NEW caret, Rewrite(i, rows, caret)
    PROVE  ViewInv'
<1> DEFINE docs == [doc EXCEPT ![i] = Parsed(rows)]
           updated == Updated(dom, docs, DOMAIN doc, {i})
           kept == FocusKept(docs, DOMAIN doc)
           to == IF caret = NoCell \/ caret[1] > Len(docs[i]) \/ caret[2] > Cols(docs[i])
                 THEN kept ELSE <<i, caret[1], caret[2]>>
<1>1. doc' = docs /\ dom' = (IF to = kept THEN updated ELSE MoveFocus(updated, kept, to)) /\ focus' = to
  <2>1. Render(rows) = rows
    BY RenderIsIdle
  <2> QED
    BY <2>1 DEF Rewrite
<1>2. /\ doc \in Seq(Table(Source)) /\ (focus = NoCell \/ IsCell(doc, focus)) /\ dom = Screens(doc, focus)
      /\ composing = {} /\ composing' = {} /\ ~ime'
  BY DEF ViewInv, ShapeInv
<1>3. docs \in Seq(Table(Source)) /\ Len(docs) = Len(doc) /\ \A j \in 1 .. Len(doc) : j # i => docs[j] = doc[j]
  <2>1. Parsed(rows) \in Table(Source)
    BY ParsedIs DEF Filled
  <2> QED
    BY <1>2, <2>1, TablePut
<1> HIDE DEF docs
<1>4. DOMAIN doc \in SUBSET ((1 .. Len(doc)) \cap (1 .. Len(docs))) /\ \A j \in DOMAIN doc \ {i} : docs[j] = doc[j]
  BY <1>2, <1>3, SeqIs
<1>5. updated = Screens(docs, kept)
  BY <1>2, <1>3, <1>4, CalmUpdate
<1>6. kept = NoCell \/ IsCell(docs, kept)
  <2>1. Fit(dom, doc)
    BY DEF ViewInv, ShapeInv
  <2> QED
    BY <1>2, <1>3, <1>4, <2>1, KeptCell
<1>7. to = NoCell \/ IsCell(docs, to)
  BY <1>1 DEF ShapeInv
<1> HIDE DEF updated, kept, to
<1>8. dom' = Screens(docs, to)
  <2>1. CASE to = kept
    BY <1>1, <1>5, <2>1
  <2>2. CASE to # kept
    <3>1. Source \in SUBSET Source
      OBVIOUS
    <3>2. MoveFocus(Screens(docs, kept), kept, to) = Screens(docs, to)
      BY <1>3, <1>6, <1>7, <3>1, MovedView
    <3> QED
      BY <1>1, <1>5, <2>2, <3>2
  <2> QED
    BY <2>1, <2>2
<1> QED
  BY <1>1, <1>2, <1>8 DEF ViewInv

LEMMA PasteView == ASSUME ViewInv, NEW clip \in Grids, PasteInto(clip) PROVE ViewInv'
<1>1. /\ focus # NoCell /\ ~ime /\ UNCHANGED <<composing, ime>>
      /\ Rewrite(focus[1], Pasted(doc[focus[1]], clip, focus[2], focus[3]), <<focus[2], focus[3]>>)
  BY DEF PasteInto, Pasted
<1>2. ShapeInv'
  BY PasteShape DEF ViewInv
<1>3. PICK i \in 1 .. Len(doc) : \E r \in 1 .. Len(doc[i]) : \E c \in 1 .. Cols(doc[i]) :
          focus = <<i, r, c>> /\ focus[1] = i /\ focus[2] = r /\ focus[3] = c
  BY <1>1, InCell, CellOf DEF ViewInv, ShapeInv
<1>4. PICK r \in 1 .. Len(doc[i]), c \in 1 .. Cols(doc[i]) : focus[1] = i /\ focus[2] = r /\ focus[3] = c
  BY <1>3
<1> DEFINE rows == Pasted(doc[i], clip, r, c)
           caret == <<r, c>>
<1>5. rows \in Filled(Source)
  <2>1. doc[i] \in Table(Source) /\ clip \in Filled(Visible) /\ \A g \in Visible : Written(g) \in Source
    BY Typed, SeqIs DEF ViewInv, ShapeInv
  <2>2. doc[i] \in Filled(Source)
    BY <2>1, HasRows
  <2> QED
    BY <2>1, <2>2, PastedTable
<1>6. Rewrite(i, rows, caret)
  BY <1>1, <1>4
<1> HIDE DEF rows, caret
<1> QED
  BY <1>1, <1>2, <1>5, <1>6, RewriteView

LEMMA CommandView ==
    ASSUME ViewInv, ShapeInv', NEW op \in Ops, NEW i \in 1 .. Len(doc),
           NEW at, at[1] \in 1 .. Len(doc[i]), at[2] \in 1 .. Cols(doc[i]), Command(i, op, at)
    PROVE  ViewInv'
<1>1. PICK e \in Edit(op, doc[i], at[1], at[2]) : Rewrite(i, e.rows, e.caret)
  BY DEF Command
<1>2. ~ime /\ UNCHANGED <<composing, ime>>
  BY DEF Command
<1>3. doc[i] \in Filled(Source)
  <2>1. doc[i] \in Table(Source)
    BY SeqIs DEF ViewInv, ShapeInv
  <2> QED
    BY <2>1, HasRows
<1>4. e.rows \in Filled(Source)
  BY <1>3, EditHolds, Typed
<1> QED
  BY <1>1, <1>2, <1>4, RewriteView

LEMMA ControlView == ASSUME ViewInv, NEW i \in DOMAIN doc, NEW op \in Ops, RunControl(i, op) PROVE ViewInv'
<1>1. i \in 1 .. Len(doc) /\ Command(i, op, Anchor(i)) /\ doc[i] # <<>>
  BY SeqIs DEF ViewInv, ShapeInv, RunControl, Command
<1>2. Anchor(i)[1] \in 1 .. Len(doc[i]) /\ Anchor(i)[2] \in 1 .. Cols(doc[i])
  BY <1>1, AnchorIsCell DEF ViewInv
<1>3. ShapeInv'
  BY ControlShape DEF ViewInv
<1> QED
  BY <1>1, <1>2, <1>3, CommandView

LEMMA MenuView == ASSUME ViewInv, NEW at \in Cells(dom), NEW op \in Ops, RunMenu(at, op) PROVE ViewInv'
<1>1. IsCell(doc, at)
  BY CellsAre DEF ViewInv, ShapeInv
<1>2. PICK i \in 1 .. Len(doc) : \E r \in 1 .. Len(doc[i]) : \E c \in 1 .. Cols(doc[i]) :
          at[1] = i /\ at[2] = r /\ at[3] = c
  BY <1>1, CellOf DEF ViewInv, ShapeInv
<1>3. PICK r \in 1 .. Len(doc[i]), c \in 1 .. Cols(doc[i]) : at[1] = i /\ at[2] = r /\ at[3] = c
  BY <1>2
<1> DEFINE to == <<at[2], Least(at[3], Cols(doc[at[1]]))>>
<1>4. Command(i, op, to)
  BY <1>3 DEF RunMenu
<1>5. Cols(doc[i]) \in Nat
  BY DocIs DEF ViewInv, ShapeInv
<1>6. to[1] \in 1 .. Len(doc[i]) /\ to[2] \in 1 .. Cols(doc[i])
  BY <1>3, <1>5 DEF Least
<1>7. ShapeInv'
  BY MenuShape DEF ViewInv
<1> HIDE DEF to
<1> QED
  BY <1>4, <1>6, <1>7, CommandView

(* The widget hears of it when focus goes with a cell that is gone.        *)
LEMMA ArrivalView == ASSUME EndHeard = TRUE, ViewInv, Arrival(Source) PROVE ViewInv'
<1>1. PICK docs \in Seq(Table(Source)) : \E kept \in SUBSET ((1 .. Len(doc)) \cap (1 .. Len(docs))) : \E changed :
          (\A i \in kept \ changed : docs[i] = doc[i]) /\ Arrive(docs, kept, changed)
  BY DEF Arrival
<1>a. PICK kept \in SUBSET ((1 .. Len(doc)) \cap (1 .. Len(docs))) : \E changed :
          (\A i \in kept \ changed : docs[i] = doc[i]) /\ Arrive(docs, kept, changed)
  BY <1>1
<1>b. PICK changed : (\A i \in kept \ changed : docs[i] = doc[i]) /\ Arrive(docs, kept, changed)
  BY <1>a
<1>2. /\ kept \in SUBSET ((1 .. Len(doc)) \cap (1 .. Len(docs)))
      /\ (\A i \in kept \ changed : docs[i] = doc[i]) /\ Arrive(docs, kept, changed)
  BY <1>a, <1>b
<1>3. /\ doc' = docs /\ focus' = FocusKept(docs, kept)
      /\ composing' = (composing \cap kept) \ {i \in composing : focus' = NoCell}
      /\ ime' = (ime /\ focus' # NoCell)
      /\ dom' = Updated(dom, docs, kept, changed)
  BY <1>2 DEF Arrive
<1>4. /\ doc \in Seq(Table(Source)) /\ (focus = NoCell \/ IsCell(doc, focus)) /\ Fit(dom, doc)
      /\ ime => IsCell(doc, focus)
  BY DEF ViewInv, ShapeInv
<1>5. focus' = NoCell \/ (focus' = focus /\ IsCell(docs, focus) /\ focus # NoCell /\ focus[1] \in kept)
  BY <1>2, <1>3, <1>4, KeptCell
<1>6. ShapeInv'
  BY ArrivalShape DEF ViewInv
<1>7. CASE ~ime
  <2>1. composing' = {} /\ ~ime' /\ dom = Screens(doc, focus)
    BY <1>3, <1>7 DEF ViewInv
  <2>2. Updated(dom, docs, kept, changed) = Screens(docs, FocusKept(docs, kept))
    BY <1>2, <1>4, <2>1, CalmUpdate
  <2> QED
    BY <1>3, <1>6, <2>1, <2>2 DEF ViewInv
<1>8. CASE ime
  <2>1. composing = {focus[1]}
    BY <1>8 DEF ViewInv
  <2>2. PICK cell \in CellState : cell.raw = TRUE /\ dom = ScreensWith(doc, focus, cell)
    BY <1>8 DEF ViewInv
  <2>3. focus' # NoCell => focus[1] \in composing' /\ composing' = {focus'[1]}
    BY <1>3, <1>5, <2>1
  <2>4. Updated(dom, docs, kept, changed) = ScreensWith(docs, FocusKept(docs, kept), cell)
    <3>1. FocusKept(docs, kept) # NoCell => focus[1] \in composing'
      BY <1>3, <2>3
    <3> QED
      BY <1>2, <1>4, <1>8, <2>2, <3>1, ComposedUpdate
  <2>5. dom' = ScreensWith(docs, focus', cell)
    BY <1>3, <2>4
  <2>6. CASE focus' = NoCell
    <3>1. composing' = {} /\ ~ime'
      BY <1>3, <2>6
    <3>2. dom' = Screens(docs, focus')
      BY <2>5, <2>6, NoFocusScreens
    <3> QED
      BY <1>3, <1>6, <3>1, <3>2 DEF ViewInv
  <2>7. CASE focus' # NoCell
    <3>1. composing' = {focus'[1]} /\ ime'
      BY <1>3, <1>8, <2>3, <2>7
    <3> QED
      BY <1>3, <1>6, <2>2, <2>5, <3>1 DEF ViewInv
  <2> QED
    BY <2>6, <2>7
<1> QED
  BY <1>7, <1>8

(* Every step keeps the view.                                              *)
LEMMA ViewStep == ASSUME EndHeard = TRUE PROVE ViewInv /\ [Next]_vars /\ [EndsApart]_vars => ViewInv'
<1> SUFFICES ASSUME ViewInv, [Next]_vars, [EndsApart]_vars PROVE ViewInv'
  OBVIOUS
<1>1. CASE Next /\ EndsApart
  <2>1. /\ Source \in SUBSET Source /\ doc \in Seq(Table(Source))
        /\ PeerKeys \cup {Dash} \subseteq Source /\ Heading \in Text(Source)
    BY Typed DEF ViewInv, ShapeInv
  <2>2. CASE \E at \in Cells(dom) \cup {NoCell} : Focus(at)
    BY <2>2, FocusView
  <2>3. CASE \E key \in Keys : Type(key)
    BY <2>3, TypeView
  <2>4. CASE Erase \/ CompositionStart \/ CompositionEnd
    BY <1>1, <2>4, EraseView, StartView, EndView
  <2>5. CASE \E clip \in Grids : PasteInto(clip)
    BY <2>5, PasteView
  <2>6. CASE \E i \in DOMAIN doc : \E op \in Ops : RunControl(i, op)
    BY <2>6, ControlView
  <2>7. CASE \E at \in Cells(dom) : \E op \in Ops : RunMenu(at, op)
    BY <2>7, MenuView
  <2>8. CASE Arrival(Source)
    BY <2>8, ArrivalView
  <2> QED
    BY <1>1, <2>1, <2>2, <2>3, <2>4, <2>5, <2>6, <2>7, <2>8, StepIs
<1>2. CASE UNCHANGED vars
  <2>1. ShapeInv'
    BY ShapeStep DEF ViewInv
  <2> QED
    BY <1>2, <2>1 DEF vars, screen, counters, ViewInv
<1> QED
  BY <1>1, <1>2

(* The view says what DomAgrees asks for.                                  *)
LEMMA ViewAgrees == ViewInv => DomAgrees
<1> SUFFICES ASSUME ViewInv PROVE DomAgrees
  OBVIOUS
<1>1. doc \in Seq(Table(Source)) /\ Fit(dom, doc) /\ (focus = NoCell \/ IsCell(doc, focus))
  BY DEF ViewInv, ShapeInv
<1>2. Len(dom) = Len(doc) /\ DOMAIN doc = 1 .. Len(doc) /\ \A i \in 1 .. Len(doc) : doc[i] \in Table(Source) /\ dom[i] \in Grid(doc[i])
  BY <1>1, FitIs
<1>3. ASSUME NEW i \in DOMAIN doc PROVE SameShape(dom[i], doc[i])
  <2>1. doc[i] \in Table(Source) /\ dom[i] \in Grid(doc[i])
    BY <1>2
  <2> QED
    BY <2>1, GridIs
<1>4. ASSUME NEW at \in Cells(dom)
      PROVE  LET cell == dom[at[1]][at[2]][at[3]]
                 src == SrcAt(doc[at[1]], at[2], at[3])
             IN  /\ ~(at = focus /\ at[1] \in composing) => cell.src = src /\ cell.shown = Unescape(src)
                 /\ cell.raw = (at = focus)
  <2>1. IsCell(doc, at)
    BY <1>1, CellsAre
  <2>2. PICK i \in 1 .. Len(doc) : \E r \in 1 .. Len(doc[i]) : \E c \in 1 .. Cols(doc[i]) :
            at = <<i, r, c>> /\ at[1] = i /\ at[2] = r /\ at[3] = c
    BY <1>1, <2>1, CellOf
  <2>3. PICK r \in 1 .. Len(doc[i]), c \in 1 .. Cols(doc[i]) : at = <<i, r, c>> /\ at[1] = i /\ at[2] = r /\ at[3] = c
    BY <2>2
  <2> DEFINE cell == dom[i][r][c]
             src == doc[i][r][c]
  <2>4. SrcAt(doc[i], r, c) = src
    <3>1. doc[i] \in Table(Source)
      BY <1>2
    <3> QED
      BY <3>1, TableIs
  <2>5. Place(doc, i, r, c)
    BY DEF Place
  <2>6. CASE ~ime
    <3>1. dom = Screens(doc, focus)
      BY <2>6 DEF ViewInv
    <3>2. /\ focus = <<i, r, c>> => cell = Focal(src)
          /\ focus # <<i, r, c>> => cell = ToRendered(src)
      <4>1. Displays(dom, doc, focus, Focal(doc[i][r][c]), i, r, c)
        BY <1>1, <2>5, <3>1, ScreenAt
      <4> QED
        BY <4>1 DEF Displays
    <3> HIDE DEF cell, src
    <3>3. /\ at = focus => cell.raw = TRUE
          /\ at # focus => cell.raw = FALSE
          /\ cell.src = src /\ cell.shown = Unescape(src)
      BY <2>3, <3>2 DEF Focal, ToRendered
    <3> QED
      BY <2>3, <2>4, <3>3 DEF cell, src
  <2>7. CASE ime
    <3>1. composing = {focus[1]}
      BY <2>7 DEF ViewInv
    <3>2. PICK x \in CellState : x.raw = TRUE /\ dom = ScreensWith(doc, focus, x)
      BY <2>7 DEF ViewInv
    <3>3. /\ focus = <<i, r, c>> => cell = x
          /\ focus # <<i, r, c>> => cell = ToRendered(src)
      <4>1. Displays(dom, doc, focus, x, i, r, c)
        BY <1>1, <2>5, <3>2, ScreenWithAt
      <4> QED
        BY <4>1 DEF Displays
    <3> HIDE DEF cell, src
    <3>4. /\ at = focus => cell.raw = TRUE
          /\ at # focus => cell.raw = FALSE /\ cell.src = src /\ cell.shown = Unescape(src)
      BY <2>3, <3>2, <3>3 DEF ToRendered
    <3> QED
      BY <2>3, <2>4, <3>1, <3>4 DEF cell, src
  <2> QED
    BY <2>6, <2>7
<1> QED
  BY <1>2, <1>3, <1>4 DEF DomAgrees

(* Spec => []DomAgrees while compositions end apart from the document: the *)
(* screen says what the document says, cell by cell and whoever changed it,*)
(* and only the focused cell shows its markdown (reconcile).               *)
THEOREM DomAgreesHolds == ASSUME EndHeard = TRUE PROVE Spec /\ [][EndsApart]_vars => []DomAgrees
BY ViewInit, ViewStep, ViewAgrees, PTL DEF Spec

(* A key after what a cell says is a key after its source.                 *)
LEMMA KeyAppended ==
    ASSUME NEW src \in Text(Source), NEW key \in Visible, key # Space
    PROVE  LET text == Append(Unescape(src), key)
           IN  Trim(Escape(text)) = src \o Escape(<<key>>) /\ Unescape(src \o Escape(<<key>>)) = text
<1> DEFINE seen == Unescape(src)
           text == Append(seen, key)
           long == Append(src, Written(key))
<1>1. src \in Seq(Source) /\ Len(src) \in Nat
  BY SeqIs DEF Text
<1>2. seen \in Seq(Visible) /\ Len(seen) = Len(src) /\ Escape(seen) = src
  <2>1. Source \in SUBSET Source
    OBVIOUS
  <2>2. \A g \in Source : Read(g) \in Visible
    BY TableAssumption DEF Source, Visible, Read, Glyph
  <2> QED
    BY <1>1, <2>1, <2>2, Alphabets, UnescapeIsSeq
<1> HIDE DEF seen
<1>3. Written(key) \in Source /\ Written(key) # Space
  BY Typed, TableAssumption DEF Written
<1>4. text \in Seq(Visible) /\ Len(text) = Len(src) + 1 /\ text[Len(src) + 1] = key
      /\ \A i \in 1 .. Len(src) : text[i] = seen[i]
  BY <1>1, <1>2, AppendProperties
<1>5. long \in Seq(Source) /\ Len(long) = Len(src) + 1 /\ long[Len(src) + 1] = Written(key)
      /\ \A i \in 1 .. Len(src) : long[i] = src[i]
  BY <1>1, <1>3, AppendProperties
<1> HIDE DEF text, long
<1>6. Escape(text) = long
  <2>1. Escape(text) \in Seq(Source) /\ Len(Escape(text)) = Len(text)
        /\ \A i \in 1 .. Len(text) : Escape(text)[i] = Written(text[i])
    BY <1>4, Typed, EscapeIsSeq
  <2>2. \A i \in 1 .. Len(seen) : Escape(seen)[i] = Written(seen[i])
    BY <1>2, Typed, EscapeIsSeq
  <2>3. ASSUME NEW i \in 1 .. Len(long) PROVE Escape(text)[i] = long[i]
    <3>1. CASE i = Len(src) + 1
      BY <1>4, <1>5, <2>1, <3>1
    <3>2. CASE i # Len(src) + 1
      <4>1. i \in 1 .. Len(src)
        BY <1>1, <1>5, <3>2
      <4>2. text[i] = seen[i] /\ Written(seen[i]) = src[i] /\ i \in 1 .. Len(text)
        BY <1>1, <1>2, <1>4, <2>2, <4>1
      <4> QED
        BY <1>5, <2>1, <4>1, <4>2
    <3> QED
      BY <3>1, <3>2
  <2>4. Len(Escape(text)) = Len(long)
    BY <1>4, <1>5, <2>1
  <2> DEFINE e == Escape(text)
  <2>5. e \in Seq(Source) /\ Len(e) = Len(long) /\ \A i \in 1 .. Len(e) : e[i] = long[i]
    BY <2>1, <2>3, <2>4
  <2> HIDE DEF e
  <2>6. e = long
    BY <1>5, <2>5, SeqSame
  <2> QED
    BY <2>6 DEF e
<1>7. Trim(long) = long
  <2>1. long \in Text(Source)
    BY <1>3, AppendedText DEF long
  <2> QED
    BY <2>1 DEF Text
<1>8. src \o Escape(<<key>>) = long
  <2>1. Escape(<<key>>) = <<Written(key)>>
    BY DEF Escape, Written
  <2>2. src \o <<Written(key)>> = Append(src, Written(key))
    BY <1>1, <1>3
  <2> QED
    BY <2>1, <2>2 DEF long
<1>9. Unescape(long) = text
  <2>1. text \in Seq(Glyph \ {EscapedPipe})
    BY <1>4 DEF Visible
  <2> QED
    BY <1>6, <2>1, ReadBack
<1> QED
  BY <1>6, <1>7, <1>8, <1>9 DEF text, seen

(* A key outside a composition.                                            *)
LEMMA TypedKey ==
    ASSUME ViewInv, NEW key \in Keys \ {Space}, Type(key), focus[1] \notin composing
    PROVE  /\ doc' = [doc EXCEPT ![focus[1]] =
                         IF IsDivider(RowWith(key)) THEN RemoveAt(doc[focus[1]], focus[2])
                         ELSE [doc[focus[1]] EXCEPT ![focus[2]] = RowWith(key)]]
           /\ ~IsDivider(RowWith(key)) =>
                 /\ focus' = focus /\ IsCell(doc', focus)
                 /\ Unescape(SourceAt(doc', focus)) = Append(Shown(focus), key)
<1>1. focus # NoCell /\ ~ime
  BY DEF Type, ViewInv
<1> DEFINE text == Append(Shown(focus), key)
<1>2. PICK i \in 1 .. Len(doc) : \E r \in 1 .. Len(doc[i]) : \E c \in 1 .. Cols(doc[i]) :
          /\ focus = <<i, r, c>> /\ doc' = Entered(i, r, c, Trim(Escape(text)))
          /\ ~IsDivider(With(doc[i][r], c, Trim(Escape(text)))) => focus' = focus
  BY <1>1, TypeView
<1>3. PICK r \in 1 .. Len(doc[i]), c \in 1 .. Cols(doc[i]) :
          /\ focus = <<i, r, c>> /\ doc' = Entered(i, r, c, Trim(Escape(text)))
          /\ ~IsDivider(With(doc[i][r], c, Trim(Escape(text)))) => focus' = focus
  BY <1>2
<1>4. focus[1] = i /\ focus[2] = r /\ focus[3] = c
  BY <1>3
<1>a. doc \in Seq(Table(Source))
  BY DEF ViewInv, ShapeInv
<1>5. Shown(focus) = Unescape(doc[i][r][c])
  BY <1>1, <1>4, WorkingCell DEF SourceAt
<1>6. PICK src : src \in Text(Source) /\ src = doc[i][r][c]
  BY <1>a, DocIs
<1>7. key \in Visible /\ key # Space
  BY Typed
<1>8. PICK x : x = src \o Escape(<<key>>)
  OBVIOUS
<1>9. Trim(Escape(text)) = x /\ Unescape(x) = text
  BY <1>5, <1>6, <1>7, <1>8, KeyAppended
<1>10. x \in Text(Source)
  <2>1. Shown(focus) \in Seq(Visible)
    BY <1>1, InCell DEF ViewInv
  <2>2. text \in Seq(Visible)
    BY <1>7, <2>1, AppendProperties
  <2> HIDE DEF text
  <2>3. Escape(text) \in Seq(Source)
    BY <2>2, Typed, EscapeIsSeq
  <2> QED
    BY <1>9, <2>3, TrimIsText
<1>11. PICK row : row = With(doc[i][r], c, x)
  OBVIOUS
<1>12. RowWith(key) = row
  BY <1>4, <1>6, <1>8, <1>11 DEF RowWith, With
<1>13. PICK u : u = Entered(i, r, c, x)
  OBVIOUS
<1>14. doc' = u /\ (~IsDivider(row) => focus' = focus)
  BY <1>3, <1>9, <1>11, <1>13
<1>15. /\ u \in Seq(Table(Source)) /\ Len(u) = Len(doc) /\ \A j \in 1 .. Len(doc) : j # i => u[j] = doc[j]
       /\ u[i] = Parsed(Wrote(doc[i], r, c, x))
  BY <1>a, <1>10, <1>13, EnteredFrame
<1>16. /\ IsDivider(row) => u[i] = RemoveAt(doc[i], r)
       /\ ~IsDivider(row) => /\ u[i] = With(doc[i], r, row) /\ u[i][r][c] = x
                             /\ Len(u[i]) = Len(doc[i]) /\ Cols(u[i]) = Cols(doc[i])
  <2>1. doc \in Seq(Table(Source)) /\ x \in Text(Source) /\ u = Entered(i, r, c, x) /\ row = With(doc[i][r], c, x)
    BY <1>a, <1>10, <1>11, <1>13
  <2> HIDE DEF text
  <2>2. IsDivider(row) => u[i] = RemoveAt(doc[i], r)
    BY <2>1, EnteredIs
  <2>3. ~IsDivider(row) => /\ u[i] = With(doc[i], r, row) /\ u[i][r][c] = x
                           /\ Len(u[i]) = Len(doc[i]) /\ Cols(u[i]) = Cols(doc[i])
    BY <2>1, EnteredIs
  <2> QED
    BY <2>2, <2>3
<1>17. u = [doc EXCEPT ![i] = IF IsDivider(row) THEN RemoveAt(doc[i], r) ELSE [doc[i] EXCEPT ![r] = row]]
  <2>1. u = [doc EXCEPT ![i] = u[i]]
    BY <1>13 DEF Entered
  <2> QED
    BY <1>16, <2>1 DEF With
<1>18. ~IsDivider(row) => IsCell(u, focus) /\ Unescape(SourceAt(u, focus)) = text
  <2> SUFFICES ASSUME ~IsDivider(row) PROVE IsCell(u, focus) /\ Unescape(SourceAt(u, focus)) = text
    OBVIOUS
  <2>1. i \in 1 .. Len(u) /\ r \in 1 .. Len(u[i]) /\ c \in 1 .. Cols(u[i]) /\ u[i][r][c] = x
    BY <1>15, <1>16
  <2>2. IsCell(u, focus)
    BY <1>3, <2>1 DEF IsCell
  <2>3. SourceAt(u, focus) = x
    BY <1>4, <2>1 DEF SourceAt
  <2> QED
    BY <1>9, <2>2, <2>3
<1> QED
  BY <1>4, <1>12, <1>14, <1>17, <1>18

(* Spec => TypingIsMinimal while compositions end apart from the document: *)
(* a key is added to what the document has in the focused cell at that     *)
(* moment, and nothing else in the document changes (commit), but that the *)
(* row is read no more once it looks like a delimiter.                     *)
THEOREM TypingIsMinimalHolds == ASSUME EndHeard = TRUE PROVE Spec /\ [][EndsApart]_vars => TypingIsMinimal
<1>1. ViewInv /\ [Next]_vars =>
        [\A key \in Keys \ {Space} :
            Type(key) /\ focus[1] \notin composing =>
                LET table == doc[focus[1]]
                    r == focus[2]
                IN  doc' = [doc EXCEPT ![focus[1]] =
                                IF IsDivider(RowWith(key)) THEN RemoveAt(table, r)
                                ELSE [table EXCEPT ![r] = RowWith(key)]]]_vars
  BY TypedKey
<1> QED
  BY <1>1, ViewInit, ViewStep, PTL DEF Spec, TypingIsMinimal

(* Every key but a space shows after the text that was there, unless it    *)
(* makes its row look like a delimiter; composed, every key does.          *)
KeysShow ==
    [][\A key \in Keys :
        Type(key) /\ (focus[1] \in composing \/ (key # Space /\ ~IsDivider(RowWith(key)))) =>
            focus' = focus /\ dom'[focus[1]][focus[2]][focus[3]].shown = Append(Shown(focus), key)]_vars

(* A key shows: it is left alone while it is composed, and is what comes   *)
(* back from the document otherwise.                                       *)
LEMMA ShownKey ==
    ASSUME ViewInv, NEW key \in Keys, Type(key),
           focus[1] \in composing \/ (key # Space /\ ~IsDivider(RowWith(key)))
    PROVE  focus' = focus /\ dom'[focus[1]][focus[2]][focus[3]].shown = Append(Shown(focus), key)
<1>1. /\ focus # NoCell /\ UNCHANGED <<composing, ime, counters>>
      /\ Commit(Append(Shown(focus), key))
  BY DEF Type, Input
<1> DEFINE text == Append(Shown(focus), key)
<1>2. doc \in Seq(Table(Source)) /\ Fit(dom, doc) /\ IsCell(doc, focus)
  BY <1>1, InCell DEF ViewInv, ShapeInv
<1>3. PICK i \in 1 .. Len(doc) : \E r \in 1 .. Len(doc[i]) : \E c \in 1 .. Cols(doc[i]) :
          focus = <<i, r, c>> /\ focus[1] = i /\ focus[2] = r /\ focus[3] = c
  BY <1>2, CellOf
<1>4. PICK r \in 1 .. Len(doc[i]), c \in 1 .. Cols(doc[i]) : focus = <<i, r, c>> /\ focus[1] = i /\ focus[2] = r /\ focus[3] = c
  BY <1>3
<1>5. CASE ime
  <2> DEFINE x == [dom[i][r][c] EXCEPT !.shown = text]
  <2>1. composing' = {i}
    BY <1>1, <1>4, <1>5 DEF ViewInv
  <2>2. dom' = Put(dom, i, r, c, x) /\ focus' = focus
    BY <1>1, <1>4, <2>1 DEF Commit, Put
  <2>3. dom[i][r][c] \in CellState
    BY <1>2, ScreenCell
  <2>4. x \in CellState /\ x.shown = text
    <3>1. text \in Seq(Visible)
      <4>1. Shown(focus) \in Seq(Visible) /\ key \in Visible
        BY <1>1, InCell, Typed DEF ViewInv
      <4> QED
        BY <4>1, AppendProperties
    <3>2. x = [src |-> dom[i][r][c].src, shown |-> text, raw |-> dom[i][r][c].raw]
      BY <2>3, CellExcept
    <3> HIDE DEF text
    <3> QED
      BY <2>3, <3>1, <3>2 DEF CellState
  <2> HIDE DEF x, text
  <2>5. dom'[i][r][c] = x
    <3>1. Place(doc, i, r, c)
      BY DEF Place
    <3> QED
      BY <1>2, <2>2, <2>4, <3>1, CellSet
  <2> QED
    BY <1>4, <2>2, <2>4, <2>5 DEF text
<1>6. CASE ~ime
  <2>1. composing = {}
    BY <1>6 DEF ViewInv
  <2>2. ViewInv'
    BY TypeView
  <2>3. focus' = focus /\ IsCell(doc', focus) /\ Unescape(SourceAt(doc', focus)) = text
    BY <2>1, TypedKey
  <2>4. ime' = ime
    BY <1>1
  <2>5. doc' \in Seq(Table(Source)) /\ dom' = Screens(doc', focus')
    BY <1>6, <2>2, <2>4 DEF ViewInv, ShapeInv
  <2>6. PICK docs : docs = doc' /\ docs \in Seq(Table(Source)) /\ dom' = Screens(docs, focus)
                    /\ IsCell(docs, focus) /\ Unescape(SourceAt(docs, focus)) = text
    BY <2>3, <2>5
  <2>7. i \in 1 .. Len(docs) /\ r \in 1 .. Len(docs[i]) /\ c \in 1 .. Cols(docs[i])
    <3>1. \E j \in 1 .. Len(docs) : \E p \in 1 .. Len(docs[j]) : \E q \in 1 .. Cols(docs[j]) :
              focus = <<j, p, q>> /\ focus[1] = j /\ focus[2] = p /\ focus[3] = q
      BY <2>6, CellOf
    <3> QED
      BY <1>4, <3>1
  <2>8. Screens(docs, focus)[i][r][c] = Focal(docs[i][r][c])
    <3>1. Place(docs, i, r, c)
      BY <2>7 DEF Place
    <3>2. Displays(Screens(docs, focus), docs, focus, Focal(docs[i][r][c]), i, r, c)
      BY <2>6, <3>1, ScreenAt
    <3> QED
      BY <1>4, <3>2 DEF Displays
  <2>9. SourceAt(docs, focus) = docs[i][r][c]
    BY <1>4 DEF SourceAt
  <2>10. dom'[i][r][c].shown = text
    BY <2>6, <2>8, <2>9 DEF Focal
  <2> QED
    BY <1>4, <2>3, <2>10
<1> QED
  BY <1>5, <1>6

(* Spec => KeysShow while compositions end apart from the document: of     *)
(* what is typed only the space at the end of a cell is taken back         *)
(* (splitCells trims, reconcile writes what it finds), and only a row that *)
(* looks like a delimiter goes from under the person.                      *)
THEOREM KeysShowHolds == ASSUME EndHeard = TRUE PROVE Spec /\ [][EndsApart]_vars => KeysShow
<1>1. ViewInv /\ [Next]_vars =>
        [\A key \in Keys :
            Type(key) /\ (focus[1] \in composing \/ (key # Space /\ ~IsDivider(RowWith(key)))) =>
                focus' = focus /\ dom'[focus[1]][focus[2]][focus[3]].shown = Append(Shown(focus), key)]_vars
  BY ShownKey
<1> QED
  BY <1>1, ViewInit, ViewStep, PTL DEF Spec, KeysShow
===============================================================================
