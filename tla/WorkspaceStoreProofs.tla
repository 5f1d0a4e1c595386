------------------------ MODULE WorkspaceStoreProofs ------------------------
(***************************************************************************)
(* The workspace store for any number of windows, vaults and notes.  No    *)
(* window changes the layout of another vault: every operation writes      *)
(* through Keep or leaves the record alone, and what Keep writes is read   *)
(* again first.  And the panes are in order: an operation is a few changes *)
(* of lists (a tab removed, replaced, inserted, the pinned ones put first, *)
(* repetitions dropped from a history), so the lemmas go from what those   *)
(* do to a list, to a pane, to a layout of one or two panes, to the record *)
(* that the windows share.                                                 *)
(***************************************************************************)
EXTENDS WorkspaceStore, Functions, SequenceTheorems, FiniteSetTheorems, WellFoundedInduction, TLAPS

(* ------------------------- what is picked of a list --------------------- *)

(* Of some natural numbers, one is the least.                              *)
LEMMA LeastNumber ==
    ASSUME NEW T \in SUBSET Nat, T # {}
    PROVE  \E x \in T : \A y \in T : x <= y
<1> DEFINE R == OpToRel(<, Nat)
<1>1. \A x, y \in Nat : x < y => <<x, y>> \in R
  BY DEF OpToRel
<1>2. IsWellFoundedOn(R, Nat)
  BY NatLessThanWellFounded
<1> HIDE DEF R
<1>3. PICK x \in T : \A y \in T : ~(<<y, x>> \in R)
  BY <1>2, WFMin
<1>4. x \in Nat /\ \A y \in T : y \in Nat /\ ~(y < x)
  BY <1>1, <1>3
<1>5. \A y \in T : x <= y
  BY <1>4
<1> QED
  BY <1>3, <1>5

(* Of the numbers up to n, one is the greatest.                            *)
LEMMA GreatestNumber ==
    ASSUME NEW n \in Nat, NEW T \in SUBSET (0 .. n), T # {}
    PROVE  \E x \in T : \A y \in T : y <= x
<1> DEFINE above == {b \in Nat : \A y \in T : y <= b}
<1>1. n \in above
  OBVIOUS
<1>2. PICK b \in above : \A c \in above : b <= c
  BY <1>1, LeastNumber
<1>3. b \in T
  <2> SUFFICES ASSUME b \notin T PROVE FALSE
    OBVIOUS
  <2>1. PICK y \in T : TRUE
    OBVIOUS
  <2>2. b # 0 /\ b - 1 \in Nat
    BY <1>2, <2>1
  <2>3. b - 1 \in above
    BY <1>2, <2>2
  <2> QED
    BY <1>2, <2>2, <2>3
<1> QED
  BY <1>2, <1>3

(* How many numbers there are up to n.                                     *)
LEMMA UpTo == ASSUME NEW n \in Nat PROVE IsFiniteSet(1 .. n) /\ Cardinality(1 .. n) = n
<1>1. IsFiniteSet(1 .. n) /\ Cardinality(1 .. n) = IF 1 > n THEN 0 ELSE n - 1 + 1
  BY FS_Interval
<1> QED
  BY <1>1

(* A sequence without repetition has as many entries as values.            *)
LEMMA CountedOnce ==
    ASSUME NEW S, NEW s \in Seq(S), IsInjective(s)
    PROVE  Cardinality(ToSet(s)) = Len(s)
<1>1. Len(s) \in Nat /\ DOMAIN s = 1 .. Len(s) /\ s \in [1 .. Len(s) -> S]
  BY LenProperties
<1>2. IsFiniteSet(1 .. Len(s)) /\ Cardinality(1 .. Len(s)) = Len(s)
  BY <1>1, UpTo
<1>3. s \in [1 .. Len(s) -> ToSet(s)]
  BY <1>1 DEF ToSet
<1>4. s \in Injection(1 .. Len(s), ToSet(s))
  BY <1>3 DEF Injection
<1>5. s \in Surjection(1 .. Len(s), ToSet(s))
  BY <1>1, <1>3 DEF Surjection, ToSet
<1>6. ExistsBijection(1 .. Len(s), ToSet(s))
  BY <1>4, <1>5 DEF ExistsBijection, Bijection
<1> QED
  BY <1>2, <1>6, FS_Bijection

(* Where in their order the members of a set of numbers stand: each number *)
(* up to how many they are is the rank of one of them.                     *)
Rank(J) == [i \in J |-> Cardinality({j \in J : j < i}) + 1]

LEMMA Ranked ==
    ASSUME NEW n \in Nat, NEW J \in SUBSET (1 .. n)
    PROVE  /\ IsFiniteSet(J) /\ Cardinality(J) \in Nat
           /\ Rank(J) \in [J -> 1 .. Cardinality(J)]
           /\ \A i, j \in J : i < j => Rank(J)[i] < Rank(J)[j]
           /\ \A k \in 1 .. Cardinality(J) : \E i \in J : Rank(J)[i] = k
<1> DEFINE Below(i) == {j \in J : j < i}
           m == Cardinality(J)
           rank == Rank(J)
<1>1. IsFiniteSet(J) /\ m \in Nat
  BY UpTo, FS_Subset, FS_CardinalityType
<1>2. ASSUME NEW i \in J
      PROVE  IsFiniteSet(Below(i)) /\ Cardinality(Below(i)) \in Nat
             /\ Cardinality(Below(i) \cup {i}) = Cardinality(Below(i)) + 1
  <2>1. IsFiniteSet(Below(i))
    <3>1. Below(i) \in SUBSET J
      OBVIOUS
    <3> QED
      BY <1>1, <3>1, FS_Subset
  <2>2. Cardinality(Below(i)) \in Nat
    BY <2>1, FS_CardinalityType
  <2>3. i \notin Below(i)
    OBVIOUS
  <2> HIDE DEF Below
  <2>4. Cardinality(Below(i) \cup {i}) = Cardinality(Below(i)) + 1
    BY <2>1, <2>3, FS_AddElement
  <2> QED
    BY <2>1, <2>2, <2>4
<1>3. ASSUME NEW i \in J PROVE rank[i] = Cardinality(Below(i)) + 1 /\ rank[i] \in 1 .. m
  <2>1. rank[i] = Cardinality(Below(i)) + 1
    BY DEF Rank
  <2>2. Below(i) \cup {i} \in SUBSET J
    OBVIOUS
  <2> HIDE DEF Below, m, rank
  <2>3. Cardinality(Below(i) \cup {i}) <= m
    BY <1>1, <2>2, FS_Subset DEF m
  <2> QED
    BY <1>1, <1>2, <2>1, <2>3
<1>4. ASSUME NEW i \in J, NEW j \in J, i < j PROVE rank[i] < rank[j]
  <2>0. \A k \in J : k \in Nat
    OBVIOUS
  <2>1. Below(i) \cup {i} \in SUBSET Below(j)
    <3>1. ASSUME NEW k \in Below(i) \cup {i} PROVE k \in Below(j)
      <4>1. k \in J /\ (k < i \/ k = i)
        OBVIOUS
      <4>2. k \in Nat /\ i \in Nat /\ j \in Nat
        BY <2>0, <4>1
      <4>3. k < j
        BY <1>4, <4>1, <4>2
      <4> QED
        BY <4>1, <4>3
    <3> HIDE DEF Below
    <3> QED
      BY <3>1
  <2> HIDE DEF Below, rank
  <2>2. Cardinality(Below(i) \cup {i}) <= Cardinality(Below(j))
    BY <1>2, <2>1, FS_Subset
  <2>3. rank[i] = Cardinality(Below(i)) + 1 /\ rank[j] = Cardinality(Below(j)) + 1
    BY <1>3
  <2>4. Cardinality(Below(i)) \in Nat /\ Cardinality(Below(j)) \in Nat
    BY <1>2
  <2>5. Cardinality(Below(i)) + 1 <= Cardinality(Below(j))
    BY <1>2, <2>2
  <2> QED
    BY <2>3, <2>4, <2>5
<1>5. rank \in [J -> 1 .. m]
  <2>1. rank = [i \in J |-> rank[i]]
    BY DEF Rank
  <2> HIDE DEF rank, m
  <2> QED
    BY <2>1, <1>3
<1> HIDE DEF rank
<1>6. rank \in Injection(J, 1 .. m)
  <2>1. ASSUME NEW i \in J, NEW j \in J, rank[i] = rank[j] PROVE i = j
    <3>1. rank[i] \in 1 .. m /\ rank[j] \in 1 .. m
      BY <1>3
    <3>2. i \in Nat /\ j \in Nat
      OBVIOUS
    <3>3. rank[i] \in Nat /\ rank[j] \in Nat
      <4> HIDE DEF m
      <4> QED
        BY <1>1, <3>1
    <3> QED
      BY <1>4, <2>1, <3>2, <3>3
  <2> QED
    BY <1>5, <2>1 DEF Injection, IsInjective
<1>7. IsFiniteSet(1 .. m) /\ Cardinality(1 .. m) = m
  BY <1>1, UpTo
<1>8. rank \in Surjection(J, 1 .. m)
  BY <1>6, <1>7, FS_Injection
<1> QED
  BY <1>1, <1>4, <1>5, <1>8 DEF Surjection, rank

(* pos tells where the entries of t stand in s: in order, at all of the    *)
(* positions of J.                                                         *)
Places(pos, t, s, J) ==
    /\ pos \in [1 .. Len(t) -> J]
    /\ \A k, l \in 1 .. Len(t) : k < l => pos[k] < pos[l]
    /\ \A i \in J : \E k \in 1 .. Len(t) : pos[k] = i
    /\ \A k \in 1 .. Len(t) : t[k] = s[pos[k]]

(* What is picked of s: its entries at the positions of I that it has.     *)
LEMMA PickedRight ==
    ASSUME NEW S, NEW s \in Seq(S), NEW I
    PROVE  Picked(s, I) \in Seq(S) /\ \E pos : Places(pos, Picked(s, I), s, I \cap 1 .. Len(s))
<1> DEFINE J == I \cap 1 .. Len(s)
           m == Cardinality(J)
           Nth(k) == CHOOSE i \in J : Cardinality({j \in J : j < i}) = k - 1
           pos == [k \in 1 .. m |-> Nth(k)]
           t == Picked(s, I)
<1>1. Len(s) \in Nat /\ DOMAIN s = 1 .. Len(s) /\ \A i \in 1 .. Len(s) : s[i] \in S
  BY LenProperties, ElementOfSeq
<1>2. t = [k \in 1 .. m |-> s[Nth(k)]]
  BY <1>1 DEF Picked
<1>3. J \in SUBSET (1 .. Len(s))
  OBVIOUS
<1> HIDE DEF J
<1>4. /\ m \in Nat /\ Rank(J) \in [J -> 1 .. m]
      /\ \A i, j \in J : i < j => Rank(J)[i] < Rank(J)[j]
      /\ \A k \in 1 .. m : \E i \in J : Rank(J)[i] = k
      /\ \A i \in J : Cardinality({j \in J : j < i}) \in Nat
  <2>1. \A i \in J : Cardinality({j \in J : j < i}) \in Nat
    <3>1. ASSUME NEW i \in J PROVE Cardinality({j \in J : j < i}) \in Nat
      <4>1. {j \in J : j < i} \in SUBSET J
        OBVIOUS
      <4> QED
        BY <1>1, <1>3, <4>1, Ranked, FS_Subset, FS_CardinalityType
    <3> QED
      BY <3>1
  <2> QED
    BY <1>1, <1>3, <2>1, Ranked
<1>5. ASSUME NEW k \in 1 .. m PROVE Nth(k) \in J /\ Rank(J)[Nth(k)] = k
  <2>1. PICK i \in J : Rank(J)[i] = k
    BY <1>4
  <2>2. Cardinality({j \in J : j < i}) + 1 = k /\ Cardinality({j \in J : j < i}) \in Nat
    BY <1>4, <2>1 DEF Rank
  <2>3. Cardinality({j \in J : j < i}) = k - 1
    BY <2>2
  <2>4. Nth(k) \in J /\ Cardinality({j \in J : j < Nth(k)}) = k - 1
    BY <2>3
  <2> HIDE DEF Nth
  <2>5. Rank(J)[Nth(k)] = Cardinality({j \in J : j < Nth(k)}) + 1
    BY <2>4 DEF Rank
  <2>6. (k - 1) + 1 = k
    OBVIOUS
  <2> QED
    BY <2>4, <2>5, <2>6
<1> HIDE DEF m, Nth, t
<1>6. t \in [1 .. m -> S]
  <2>1. \A k \in 1 .. m : s[Nth(k)] \in S
    BY <1>1, <1>3, <1>5
  <2> QED
    BY <1>2, <2>1
<1>7. t \in Seq(S) /\ Len(t) = m
  BY <1>4, <1>6
<1>8. Places(pos, t, s, J)
  <2>1. pos \in [1 .. m -> J] /\ \A k \in 1 .. m : pos[k] = Nth(k)
    BY <1>5
  <2>2. \A k \in 1 .. m : t[k] = s[pos[k]]
    BY <1>2, <2>1
  <2> HIDE DEF pos
  <2>3. ASSUME NEW k \in 1 .. m, NEW l \in 1 .. m, k < l PROVE pos[k] < pos[l]
    <3>1. pos[k] \in J /\ pos[l] \in J /\ Rank(J)[pos[k]] = k /\ Rank(J)[pos[l]] = l
      BY <1>5, <2>1
    <3>2. \A i \in J : i \in Nat
      BY <1>1, <1>3
    <3>3. k \in Nat /\ l \in Nat /\ ~(l < k) /\ k # l
      BY <1>4, <2>3
    <3>4. ~(pos[l] < pos[k]) /\ pos[k] # pos[l]
      BY <1>4, <3>1, <3>3
    <3> QED
      BY <3>1, <3>2, <3>4
  <2>4. ASSUME NEW i \in J PROVE \E k \in 1 .. m : pos[k] = i
    <3> DEFINE k == Rank(J)[i]
    <3>1. k \in 1 .. m
      BY <1>4
    <3>2. pos[k] \in J /\ Rank(J)[pos[k]] = k
      BY <1>5, <2>1, <3>1
    <3>3. \A j \in J : j \in Nat
      BY <1>1, <1>3
    <3>4. ~(Rank(J)[pos[k]] < k) /\ ~(k < Rank(J)[pos[k]])
      BY <1>4, <3>1, <3>2
    <3>5. ~(pos[k] < i) /\ ~(i < pos[k])
      BY <1>4, <3>2, <3>4
    <3> QED
      BY <3>1, <3>2, <3>3, <3>5
  <2> QED
    BY <1>7, <2>1, <2>2, <2>3, <2>4 DEF Places
<1> QED
  BY <1>7, <1>8 DEF t, J

(* As many are picked as there are positions to pick.                      *)
LEMMA PickedCount ==
    ASSUME NEW S, NEW s \in Seq(S), NEW I
    PROVE  Len(Picked(s, I)) = Cardinality(I \cap 1 .. Len(s)) /\ IsFiniteSet(I \cap 1 .. Len(s))
<1> DEFINE t == Picked(s, I)
           J == I \cap 1 .. Len(s)
<1>1. PICK pos : Places(pos, t, s, J)
  BY PickedRight
<1>2. Len(t) \in Nat /\ Len(s) \in Nat
  BY PickedRight, LenProperties
<1>3. IsFiniteSet(1 .. Len(t)) /\ Cardinality(1 .. Len(t)) = Len(t)
  BY <1>2, UpTo
<1>4. pos \in Injection(1 .. Len(t), J)
  <2> HIDE DEF t
  <2>1. pos \in [1 .. Len(t) -> J]
    BY <1>1 DEF Places
  <2>2. ASSUME NEW k \in 1 .. Len(t), NEW l \in 1 .. Len(t), pos[k] = pos[l] PROVE k = l
    <3>1. pos[k] \in Nat /\ pos[l] \in Nat
      BY <2>1
    <3>2. ~(k < l) /\ ~(l < k)
      BY <1>1, <2>2, <3>1 DEF Places
    <3> QED
      BY <3>2
  <2> QED
    BY <2>1, <2>2 DEF Injection, IsInjective
<1>5. pos \in Surjection(1 .. Len(t), J)
  BY <1>1 DEF Places, Surjection
<1>6. ExistsBijection(1 .. Len(t), J)
  BY <1>4, <1>5 DEF ExistsBijection, Bijection
<1> QED
  BY <1>3, <1>6, FS_Bijection

(* The positions a .. b are a slice.                                       *)
LEMMA PickedSlice ==
    ASSUME NEW S, NEW s \in Seq(S), NEW I, NEW a \in Nat \ {0}, NEW b \in Nat, a <= b + 1,
           I \cap 1 .. Len(s) = a .. b
    PROVE  LET t == Picked(s, I)
           IN  t \in Seq(S) /\ Len(t) = b - a + 1 /\ \A k \in 1 .. Len(t) : t[k] = s[a + k - 1]
<1> DEFINE t == Picked(s, I)
           m == Len(t)
<1>1. PICK pos : Places(pos, t, s, a .. b)
  BY PickedRight
<1>2. t \in Seq(S) /\ m \in Nat
  BY PickedRight, LenProperties
<1> HIDE DEF t
<1>3. /\ \A k \in 1 .. m : pos[k] \in a .. b /\ t[k] = s[pos[k]]
      /\ \A k, l \in 1 .. m : k < l => pos[k] < pos[l]
      /\ \A i \in a .. b : \E k \in 1 .. m : pos[k] = i
  BY <1>1 DEF Places
<1>4. \A k \in 1 .. m : pos[k] = a + k - 1
  <2> SUFFICES ASSUME \E k \in 1 .. m : pos[k] # a + k - 1 PROVE FALSE
    OBVIOUS
  <2> DEFINE off == {k \in 1 .. m : pos[k] # a + k - 1}
  <2>0. off \in SUBSET Nat /\ off # {}
    OBVIOUS
  <2>1. PICK k \in off : \A l \in off : k <= l
    BY <2>0, LeastNumber
  <2>2. k \in 1 .. m /\ pos[k] \in a .. b /\ pos[k] # a + k - 1
    BY <2>1, <1>3
  <2>3. \A l \in 1 .. m : l < k => pos[l] = a + l - 1
    BY <2>1
  <2>4. pos[k] > a + k - 1
    <3>1. CASE k = 1
      BY <3>1, <2>2
    <3>2. CASE k # 1
      <4>0. k - 1 \in 1 .. m /\ k - 1 < k
        BY <3>2, <2>2, <1>2
      <4>1. pos[k - 1] = a + (k - 1) - 1
        BY <4>0, <2>3
      <4>2. pos[k - 1] < pos[k]
        BY <4>0, <2>2, <1>3
      <4>3. a + (k - 1) - 1 = a + k - 2 /\ k \in Int /\ pos[k] \in Int
        BY <2>2
      <4> QED
        BY <4>1, <4>2, <4>3, <2>2
    <3> QED
      BY <3>1, <3>2
  <2>5. PICK l \in 1 .. m : pos[l] = a + k - 1
    <3>1. a + k - 1 \in a .. b
      BY <2>2, <2>4
    <3> QED
      BY <3>1, <1>3
  <2>6. ~(l < k) /\ l # k /\ ~(k < l)
    <3>0. k \in Nat /\ l \in Nat /\ pos[k] \in Int /\ a + k - 1 \in Int /\ a + l - 1 \in Int
      BY <1>2, <2>2, <2>5
    <3>1. l # k
      BY <2>2, <2>5
    <3>2. ~(l < k)
      <4>1. l < k => a + l - 1 = a + k - 1
        BY <2>3, <2>5
      <4>2. a + l - 1 = a + k - 1 => l = k
        BY <3>0
      <4> QED
        BY <3>1, <4>1, <4>2
    <3>3. k < l => pos[k] < a + k - 1
      BY <1>3, <2>2, <2>5
    <3> QED
      BY <2>4, <3>0, <3>1, <3>2, <3>3
  <2> QED
    BY <2>2, <2>5, <2>6
<1>5. m = b - a + 1
  <2>1. m <= b - a + 1
    <3>1. CASE m = 0
      BY <3>1
    <3>2. CASE m # 0
      <4>1. m \in 1 .. m /\ pos[m] \in a .. b /\ pos[m] = a + m - 1
        BY <3>2, <1>2, <1>3, <1>4
      <4> QED
        BY <4>1
    <3> QED
      BY <3>1, <3>2
  <2>2. ~(m < b - a + 1)
    <3> SUFFICES ASSUME m < b - a + 1 PROVE FALSE
      OBVIOUS
    <3>1. a + m \in a .. b
      BY <1>2
    <3>2. PICK l \in 1 .. m : pos[l] = a + m
      BY <3>1, <1>3
    <3> QED
      BY <3>2, <1>2, <1>4
  <2> QED
    BY <2>1, <2>2, <1>2
<1>6. \A k \in 1 .. m : t[k] = s[a + k - 1]
  BY <1>3, <1>4
<1> QED
  BY <1>2, <1>5, <1>6 DEF t

(* A sequence whose positions in I come first is left as it is when they   *)
(* are put first.                                                          *)
LEMMA PickedFirst ==
    ASSUME NEW S, NEW s \in Seq(S), NEW I \in SUBSET DOMAIN s,
           \A i, j \in DOMAIN s : i < j /\ j \in I => i \in I
    PROVE  Picked(s, I) \o Picked(s, DOMAIN s \ I) = s
<1> DEFINE n == Len(s)
<1>1. n \in Nat /\ DOMAIN s = 1 .. n
  BY LenProperties
<1>2. PICK c \in 0 .. n : I = 1 .. c
  <2>1. CASE I = {}
    BY <2>1, <1>1
  <2>2. CASE I # {}
    <3>1. I \in SUBSET (0 .. n)
      BY <1>1
    <3>2. PICK c \in I : \A i \in I : i <= c
      BY <3>1, <2>2, <1>1, GreatestNumber
    <3>3. c \in 1 .. n /\ I \subseteq 1 .. c
      BY <3>1, <3>2, <1>1
    <3>4. \A i \in 1 .. c : i \in I
      BY <3>2, <3>3, <1>1
    <3> QED
      <4>1. I = 1 .. c
        BY <3>3, <3>4
      <4>2. c \in 0 .. n
        BY <3>3
      <4> QED
        BY <4>1, <4>2
  <2> QED
    BY <2>1, <2>2
<1> DEFINE f == Picked(s, I)
           r == Picked(s, DOMAIN s \ I)
<1>3. f \in Seq(S) /\ Len(f) = c /\ \A k \in 1 .. Len(f) : f[k] = s[k]
  <2>1. I \cap 1 .. Len(s) = 1 .. c
    BY <1>1, <1>2
  <2>2. f \in Seq(S) /\ Len(f) = c - 1 + 1 /\ \A k \in 1 .. Len(f) : f[k] = s[1 + k - 1]
    BY <2>1, <1>2, PickedSlice
  <2> HIDE DEF f
  <2> QED
    BY <2>2
<1>4. r \in Seq(S) /\ Len(r) = n - c /\ \A k \in 1 .. Len(r) : r[k] = s[c + k]
  <2> DEFINE a == c + 1
             J == DOMAIN s \ I
  <2>1. J \cap 1 .. Len(s) = a .. n
    BY <1>1, <1>2
  <2>2. a \in Nat \ {0}
    BY <1>1
  <2>3. n \in Nat
    BY <1>1
  <2>4. a <= n + 1
    BY <1>1
  <2> HIDE DEF a, n, J
  <2>5. LET u == Picked(s, J)
        IN  u \in Seq(S) /\ Len(u) = n - a + 1 /\ \A k \in 1 .. Len(u) : u[k] = s[a + k - 1]
    BY <2>1, <2>2, <2>3, <2>4, PickedSlice, Z3
  <2>6. r \in Seq(S) /\ Len(r) = n - a + 1 /\ \A k \in 1 .. Len(r) : r[k] = s[a + k - 1]
    BY <2>5 DEF J
  <2>7. a = c + 1
    BY DEF a
  <2> HIDE DEF r
  <2> QED
    <3>1. Len(r) = n - c
      BY <2>6, <2>7, <1>1
    <3>2. \A k \in 1 .. Len(r) : a + k - 1 = c + k
      BY <2>7, <3>1, <1>1
    <3> QED
      BY <2>6, <3>1, <3>2
<1> HIDE DEF f, r
<1>5. /\ f \o r \in Seq(S) /\ Len(f \o r) = Len(f) + Len(r)
      /\ \A i \in 1 .. Len(f) + Len(r) : (f \o r)[i] = IF i <= Len(f) THEN f[i] ELSE r[i - Len(f)]
  BY <1>3, <1>4, ConcatProperties
<1>6. Len(f \o r) = n
  BY <1>1, <1>3, <1>4, <1>5
<1>7. ASSUME NEW i \in 1 .. n PROVE (f \o r)[i] = s[i]
  <2>1. CASE i <= c
    BY <2>1, <1>1, <1>3, <1>4, <1>5
  <2>2. CASE i > c
    <3>1. i - c \in 1 .. Len(r)
      BY <2>2, <1>1, <1>4
    <3>2. r[i - c] = s[c + (i - c)] /\ c + (i - c) = i
      BY <3>1, <1>4
    <3> QED
      BY <2>2, <3>2, <1>1, <1>3, <1>4, <1>5
  <2>3. i <= c \/ i > c
    BY <1>1, <1>2
  <2> QED
    BY <2>1, <2>2, <2>3
<1>8. f \o r = s
  BY <1>5, <1>6, <1>7, SeqEqual
<1> QED
  BY <1>8 DEF f, r

(* ------------------------- every vault apart ---------------------------- *)

(* The store and the record know every window and every vault.             *)
Shaped ==
    /\ store = [w \in Window |-> store[w]]
    /\ stored.layouts = [v \in Vault |-> stored.layouts[v]]

(* Of the layouts at most the one that a window shows has changed.         *)
Apart ==
    \A v \in Vault : stored'.layouts[v] # stored.layouts[v] =>
        \E w \in Window : store'[w].vault = v /\ stored'.layouts[v] = Layout(store'[w])

(* A window that writes its state s keeps both functions whole, and of the *)
(* layouts only that of its own vault changes (setItem).                   *)
LEMMA KeepIsLocal ==
    ASSUME Shaped, NEW w \in Window, NEW s, Keep(w, s)
    PROVE  Shaped' /\ Apart
<1>1. store' = [store EXCEPT ![w] = s]
  BY DEF Keep
<1>2. store' = [x \in Window |-> IF x = w THEN s ELSE store[x]]
  BY <1>1 DEF Shaped
<1>3. stored'.layouts = IF s.vault = None THEN stored.layouts
                        ELSE [stored.layouts EXCEPT ![s.vault] = Layout(s)]
  BY DEF Keep, SetItem
<1>4. stored'.layouts = [v \in Vault |->
          IF s.vault # None /\ v = s.vault THEN Layout(s) ELSE stored.layouts[v]]
  BY <1>3 DEF Shaped
<1>5. Shaped'
  BY <1>2, <1>4 DEF Shaped
<1>6. ASSUME NEW v \in Vault, stored'.layouts[v] # stored.layouts[v]
      PROVE  store'[w].vault = v /\ stored'.layouts[v] = Layout(store'[w])
  <2>1. v = s.vault /\ stored'.layouts[v] = Layout(s)
    BY <1>4, <1>6
  <2>2. store'[w] = s
    BY <1>2
  <2> QED BY <2>1, <2>2
<1>7. Apart
  BY <1>6 DEF Apart
<1> QED BY <1>5, <1>7

(* The operations on one pane all write through Keep.                      *)
LEMMA PaneKeeps ==
    ASSUME NEW w \in Window, NEW i, InPane(w, i)
    PROVE  \E s : Keep(w, s)
<1>1. CASE SetActivePane(w, i)
  BY <1>1 DEF SetActivePane, KeepPanes
<1>2. CASE ClosePane(w, i)
  BY <1>2 DEF ClosePane, KeepPanes
<1>3. CASE NavigateBack(w, i)
  BY <1>3 DEF NavigateBack, KeepPane, KeepPanes
<1>4. CASE NavigateForward(w, i)
  BY <1>4 DEF NavigateForward, KeepPane, KeepPanes
<1>5. ASSUME NEW id, CloseTab(w, id, i)
      PROVE  \E s : Keep(w, s)
  BY <1>5 DEF CloseTab, KeepPanes
<1>6. ASSUME NEW id, SetActiveTab(w, id, i)
      PROVE  \E s : Keep(w, s)
  BY <1>6 DEF SetActiveTab, KeepPanes
<1>7. ASSUME NEW id, TogglePin(w, id, i)
      PROVE  \E s : Keep(w, s)
  BY <1>7 DEF TogglePin, KeepPane, KeepPanes
<1>8. ASSUME NEW id, NEW k, ReorderTab(w, id, i, k)
      PROVE  \E s : Keep(w, s)
  BY <1>8 DEF ReorderTab, KeepPane, KeepPanes
<1>9. ASSUME NEW id, NEW k, MoveTabToPane(w, id, i, k)
      PROVE  \E s : Keep(w, s)
  BY <1>9 DEF MoveTabToPane, KeepPanes
<1> QED BY <1>1, <1>2, <1>3, <1>4, <1>5, <1>6, <1>7, <1>8, <1>9, Zenon DEF InPane

(* So do those that open tabs.                                             *)
LEMMA NoteKeeps ==
    ASSUME NEW w \in Window, NEW n,
           \/ \E replace \in BOOLEAN : OpenTab(w, n, replace)
           \/ OpenTabBackground(w, n)
           \/ CloseTab(w, n, 0)
           \/ \E before \in BOOLEAN : SplitWithTab(w, n, before)
           \/ \E i \in DOMAIN Panes(w) : OpenNoteBeside(w, n, i)
    PROVE  \E s : Keep(w, s)
<1>1. ASSUME NEW replace, OpenTab(w, n, replace)
      PROVE  \E s : Keep(w, s)
  BY <1>1 DEF OpenTab, Opened, KeepPane, KeepPanes
<1>2. CASE OpenTabBackground(w, n)
  BY <1>2 DEF OpenTabBackground, KeepPane, KeepPanes
<1>3. CASE CloseTab(w, n, 0)
  BY <1>3 DEF CloseTab, KeepPanes
<1>4. ASSUME NEW before, SplitWithTab(w, n, before)
      PROVE  \E s : Keep(w, s)
  BY <1>4 DEF SplitWithTab, KeepPanes
<1>5. ASSUME NEW i, OpenNoteBeside(w, n, i)
      PROVE  \E s : Keep(w, s)
  BY <1>5 DEF OpenNoteBeside, KeepPanes
<1> QED BY <1>1, <1>2, <1>3, <1>4, <1>5, Zenon

(* Every step of a window writes through Keep, or leaves the record alone  *)
(* and at most loads a layout.                                             *)
LEMMA WindowKeeps ==
    ASSUME Shaped, NEW w \in Window, InWindow(w)
    PROVE  (\E s : Keep(w, s)) \/ (Shaped' /\ stored' = stored)
<1>1. ASSUME NEW v \in Vault, Load(w, v)
      PROVE  Shaped' /\ stored' = stored
  <2>1. stored' = stored
    BY <1>1 DEF Load
  <2>2. PICK s : store' = [store EXCEPT ![w] = s]
    BY <1>1 DEF Load
  <2>3. store' = [x \in Window |-> IF x = w THEN s ELSE store[x]]
    BY <2>2 DEF Shaped
  <2> QED BY <2>1, <2>3 DEF Shaped
<1>2. ASSUME NEW v \in Vault, MoveTo(w, v)
      PROVE  Shaped' /\ stored' = stored
  BY <1>2 DEF MoveTo, Shaped
<1>3. ASSUME NEW n \in Note, Ask(w, n)
      PROVE  Shaped' /\ stored' = stored
  BY <1>3 DEF Ask, Shaped
<1>4. CASE SetActiveVault(w)
  BY <1>4 DEF SetActiveVault
<1>5. CASE Touch(w)
  BY <1>5 DEF Touch
<1>6. CASE Answer(w)
  BY <1>6 DEF Answer, Opened, KeepPane, KeepPanes
<1>7. CASE CloseOtherTabs(w)
  BY <1>7 DEF CloseOtherTabs, KeepPane, KeepPanes
<1>8. CASE SplitRight(w)
  BY <1>8 DEF SplitRight, KeepPanes
<1>9. CASE SetExplorerCollapsed(w)
  BY <1>9 DEF SetExplorerCollapsed
<1>10. CASE GoToRelativeTab(w, 1)
  BY <1>10 DEF GoToRelativeTab, SetActiveTab, KeepPanes
<1> QED
  BY <1>1, <1>2, <1>3, <1>4, <1>5, <1>6, <1>7, <1>8, <1>9, <1>10, NoteKeeps, PaneKeeps, Zenon
  DEF InWindow

(* So does every step of the system.                                       *)
LEMMA StepIsLocal ==
    ASSUME Shaped, [Next]_vars
    PROVE  Shaped' /\ Apart
<1>1. CASE UNCHANGED vars
  BY <1>1 DEF vars, Shaped, Apart
<1>2. ASSUME NEW w \in Window, InWindow(w)
      PROVE  Shaped' /\ Apart
  <2>1. CASE \E s : Keep(w, s)
    BY <2>1, KeepIsLocal
  <2>2. CASE Shaped' /\ stored' = stored
    BY <2>2 DEF Apart
  <2> QED BY <1>2, <2>1, <2>2, WindowKeeps
<1> QED BY <1>1, <1>2 DEF Next

(* Whatever the windows do, and in any order, a step of one changes the    *)
(* stored layout of no vault but the one that its panes belong to          *)
(* (vaultScopedStorage.setItem).                                           *)
THEOREM VaultsApartHolds == Spec => VaultsApart
<1>1. Init => Shaped
  BY DEF Init, Shaped
<1>2. Shaped /\ [Next]_vars => Shaped' /\ [Apart]_vars
  BY StepIsLocal
<1>3. Spec => [][Apart]_vars
  BY <1>1, <1>2, PTL DEF Spec
<1> QED BY <1>3 DEF VaultsApart, Apart

(* ------------------------ lists of tabs --------------------------------- *)

(* No two tabs of the list show the same thing.                            *)
Distinct(tabs) == \A i, j \in DOMAIN tabs : tabs[i].id = tabs[j].id => i = j

(* What a list of tabs is made of.                                         *)
LEMMA TabList ==
    ASSUME NEW t \in Seq(Tab)
    PROVE  /\ Len(t) \in Nat /\ DOMAIN t = 1 .. Len(t)
           /\ \A i \in DOMAIN t : t[i] \in Tab /\ t[i].id \in Note /\ t[i].pinned \in BOOLEAN
           /\ Ids(t) = {} <=> t = <<>>
           /\ Ids(t) = {} <=> Len(t) = 0
<1>1. Len(t) \in Nat /\ DOMAIN t = 1 .. Len(t)
  BY LenProperties
<1>2. \A i \in DOMAIN t : t[i] \in Tab
  BY <1>1, ElementOfSeq
<1>3. \A i \in DOMAIN t : t[i].id \in Note /\ t[i].pinned \in BOOLEAN
  BY <1>2 DEF Tab
<1>4. Ids(t) = {} <=> Len(t) = 0
  <2>1. ASSUME Len(t) # 0 PROVE Ids(t) # {}
    <3>1. 1 \in DOMAIN t
      BY <2>1, <1>1
    <3> QED
      BY <3>1 DEF Ids
  <2>2. ASSUME Len(t) = 0 PROVE Ids(t) = {}
    BY <2>2, <1>1 DEF Ids
  <2> QED
    BY <2>1, <2>2
<1>5. t = <<>> <=> Len(t) = 0
  BY EmptySeq
<1> QED
  BY <1>1, <1>2, <1>3, <1>4, <1>5

(* What stays of tabs after a filter.                                      *)
LEMMA PickedTabs ==
    ASSUME NEW t \in Seq(Tab), NEW I
    PROVE  LET u == Picked(t, I)
           IN  /\ u \in Seq(Tab)
               /\ Ids(u) = {t[i].id : i \in I \cap DOMAIN t}
               /\ Distinct(t) => Distinct(u)
               /\ PinnedFirst(t) => PinnedFirst(u)
<1> DEFINE u == Picked(t, I)
<1>1. PICK pos : Places(pos, u, t, I \cap 1 .. Len(t))
  BY PickedRight
<1>2. u \in Seq(Tab)
  BY PickedRight
<1> HIDE DEF u
<1>3. Len(t) \in Nat /\ DOMAIN t = 1 .. Len(t) /\ Len(u) \in Nat /\ DOMAIN u = 1 .. Len(u)
  BY <1>2, TabList
<1>4. /\ \A k \in DOMAIN u : pos[k] \in I \cap DOMAIN t /\ u[k] = t[pos[k]]
      /\ \A k, l \in DOMAIN u : k < l => pos[k] < pos[l]
      /\ \A i \in I \cap DOMAIN t : \E k \in DOMAIN u : pos[k] = i
  BY <1>1, <1>3 DEF Places
<1>5. Ids(u) = {t[i].id : i \in I \cap DOMAIN t}
  <2>1. ASSUME NEW k \in DOMAIN u PROVE u[k].id \in {t[i].id : i \in I \cap DOMAIN t}
    BY <1>4
  <2>2. ASSUME NEW i \in I \cap DOMAIN t PROVE \E k \in DOMAIN u : u[k].id = t[i].id
    BY <1>4
  <2> QED
    BY <2>1, <2>2 DEF Ids
<1>6. ASSUME Distinct(t) PROVE Distinct(u)
  <2> SUFFICES ASSUME NEW k \in DOMAIN u, NEW l \in DOMAIN u, u[k].id = u[l].id PROVE k = l
    BY DEF Distinct
  <2>1. pos[k] = pos[l]
    BY <1>4, <1>6 DEF Distinct
  <2>2. k \in Nat /\ l \in Nat /\ pos[k] \in Nat /\ pos[l] \in Nat
    BY <1>3, <1>4
  <2>3. ~(k < l) /\ ~(l < k)
    BY <2>1, <2>2, <1>4
  <2> QED
    BY <2>2, <2>3
<1>7. ASSUME PinnedFirst(t) PROVE PinnedFirst(u)
  <2> SUFFICES ASSUME NEW k \in DOMAIN u, NEW l \in DOMAIN u, k < l, u[l].pinned PROVE u[k].pinned
    BY DEF PinnedFirst
  <2>1. pos[k] < pos[l] /\ pos[k] \in DOMAIN t /\ pos[l] \in DOMAIN t /\ t[pos[l]].pinned
    BY <1>4
  <2> QED
    BY <2>1, <1>4, <1>7 DEF PinnedFirst
<1> QED
  BY <1>2, <1>5, <1>6, <1>7 DEF u

(* Sorting pinned tabs to the front loses none and doubles none.           *)
LEMMA SortedTabs ==
    ASSUME NEW t \in Seq(Tab), Distinct(t)
    PROVE  LET u == SortPinned(t)
           IN  u \in Seq(Tab) /\ Ids(u) = Ids(t) /\ Distinct(u) /\ PinnedFirst(u)
<1> DEFINE I == {i \in DOMAIN t : t[i].pinned}
           J == DOMAIN t \ I
           f == Picked(t, I)
           r == Picked(t, J)
           u == f \o r
<1>1. SortPinned(t) = u
  BY DEF SortPinned
<1>2. Len(t) \in Nat /\ DOMAIN t = 1 .. Len(t)
  BY TabList
<1>3. I \cap 1 .. Len(t) = I /\ J \cap 1 .. Len(t) = J
  BY <1>2
<1> HIDE DEF I, J
<1>4. PICK p1 : Places(p1, f, t, I)
  BY <1>3, PickedRight
<1>5. PICK p2 : Places(p2, r, t, J)
  BY <1>3, PickedRight
<1>6. f \in Seq(Tab) /\ r \in Seq(Tab)
  BY PickedRight
<1> HIDE DEF f, r
<1>7. /\ Len(f) \in Nat /\ DOMAIN f = 1 .. Len(f)
      /\ Len(r) \in Nat /\ DOMAIN r = 1 .. Len(r)
  BY <1>6, TabList
<1>8. /\ u \in Seq(Tab) /\ Len(u) = Len(f) + Len(r)
      /\ \A i \in 1 .. Len(f) + Len(r) : u[i] = IF i <= Len(f) THEN f[i] ELSE r[i - Len(f)]
  BY <1>6, ConcatProperties
<1>9. DOMAIN u = 1 .. Len(f) + Len(r)
  BY <1>8, TabList
<1> HIDE DEF u
<1> DEFINE q == [k \in DOMAIN u |-> IF k <= Len(f) THEN p1[k] ELSE p2[k - Len(f)]]
<1>10. \A k \in 1 .. Len(f) : p1[k] \in I /\ f[k] = t[p1[k]]
  BY <1>4 DEF Places
<1>11. \A k \in 1 .. Len(r) : p2[k] \in J /\ r[k] = t[p2[k]]
  BY <1>5 DEF Places
<1>12. ASSUME NEW k \in DOMAIN u
       PROVE  /\ k <= Len(f) => u[k] = t[p1[k]] /\ p1[k] \in I /\ k \in 1 .. Len(f)
              /\ ~(k <= Len(f)) => u[k] = t[p2[k - Len(f)]] /\ p2[k - Len(f)] \in J /\ k - Len(f) \in 1 .. Len(r)
  <2>1. CASE k <= Len(f)
    <3>1. k \in 1 .. Len(f)
      BY <2>1, <1>7, <1>9
    <3> QED
      BY <2>1, <3>1, <1>8, <1>9, <1>10
  <2>2. CASE ~(k <= Len(f))
    <3>1. k - Len(f) \in 1 .. Len(r)
      BY <2>2, <1>7, <1>9
    <3>2. u[k] = r[k - Len(f)]
      BY <2>2, <1>8, <1>9
    <3> QED
      BY <2>2, <3>1, <3>2, <1>11
  <2> QED
    BY <2>1, <2>2
<1>13. /\ I \subseteq DOMAIN t /\ J = DOMAIN t \ I
       /\ \A i \in I : t[i].pinned
       /\ \A i \in J : ~t[i].pinned
  BY DEF I, J
<1>14. Ids(u) = Ids(t)
  <2>1. ASSUME NEW k \in DOMAIN u PROVE u[k].id \in Ids(t)
    BY <1>12, <1>13 DEF Ids
  <2>2. ASSUME NEW i \in DOMAIN t PROVE t[i].id \in Ids(u)
    <3>1. CASE i \in I
      <4>1. PICK k \in 1 .. Len(f) : p1[k] = i
        BY <3>1, <1>4 DEF Places
      <4>2. k \in DOMAIN u /\ k <= Len(f)
        BY <1>7, <1>9
      <4>3. u[k] = t[i]
        BY <4>1, <4>2, <1>12
      <4> QED
        BY <4>2, <4>3 DEF Ids
    <3>2. CASE i \in J
      <4>1. PICK l \in 1 .. Len(r) : p2[l] = i
        BY <3>2, <1>5 DEF Places
      <4>2. l + Len(f) \in DOMAIN u /\ ~(l + Len(f) <= Len(f)) /\ (l + Len(f)) - Len(f) = l
        BY <1>7, <1>9
      <4>3. u[l + Len(f)] = t[i]
        BY <4>1, <4>2, <1>12
      <4> QED
        BY <4>2, <4>3 DEF Ids
    <3> QED
      BY <3>1, <3>2, <1>13
  <2> QED
    BY <2>1, <2>2 DEF Ids
<1>15. Distinct(u)
  <2> SUFFICES ASSUME NEW k \in DOMAIN u, NEW l \in DOMAIN u, u[k].id = u[l].id, k < l PROVE FALSE
    BY <1>9 DEF Distinct
  <2>1. CASE l <= Len(f)
    <3>1. k <= Len(f)
      BY <2>1, <1>7, <1>9
    <3>2. p1[k] = p1[l]
      BY <2>1, <3>1, <1>12, <1>13 DEF Distinct
    <3>3. p1[k] < p1[l]
      BY <2>1, <3>1, <1>12, <1>4 DEF Places
    <3>4. p1[k] \in Nat
      BY <3>1, <1>12, <1>13, <1>2
    <3> QED
      BY <3>2, <3>3, <3>4
  <2>2. CASE ~(l <= Len(f)) /\ k <= Len(f)
    <3>1. p1[k] = p2[l - Len(f)]
      BY <2>2, <1>12, <1>13 DEF Distinct
    <3> QED
      BY <2>2, <3>1, <1>12, <1>13
  <2>3. CASE ~(l <= Len(f)) /\ ~(k <= Len(f))
    <3> DEFINE x == k - Len(f)
               y == l - Len(f)
    <3>1. x \in 1 .. Len(r) /\ y \in 1 .. Len(r) /\ x < y
      BY <2>3, <1>7, <1>9
    <3>2. p2[x] = p2[y]
      <4>1. u[k] = t[p2[x]] /\ p2[x] \in DOMAIN t /\ u[l] = t[p2[y]] /\ p2[y] \in DOMAIN t
        BY <2>3, <1>12, <1>13
      <4> QED
        BY <4>1 DEF Distinct
    <3> HIDE DEF x, y
    <3>3. p2[x] < p2[y]
      BY <3>1, <1>5 DEF Places
    <3>4. p2[x] \in Nat
      BY <3>1, <1>11, <1>13, <1>2
    <3> QED
      BY <3>2, <3>3, <3>4
  <2> QED
    BY <2>1, <2>2, <2>3
<1>16. PinnedFirst(u)
  <2> SUFFICES ASSUME NEW k \in DOMAIN u, NEW l \in DOMAIN u, k < l, u[l].pinned PROVE u[k].pinned
    BY DEF PinnedFirst
  <2>1. l <= Len(f)
    BY <1>12, <1>13
  <2>2. k <= Len(f)
    BY <2>1, <1>7, <1>9
  <2> QED
    BY <2>2, <1>12, <1>13
<1>17. u \in Seq(Tab) /\ Ids(u) = Ids(t) /\ Distinct(u) /\ PinnedFirst(u)
  BY <1>8, <1>14, <1>15, <1>16
<1> QED
  BY <1>1, <1>17

(* Where pinned tabs come first there is nothing to sort.                  *)
LEMMA SortedAlready ==
    ASSUME NEW t \in Seq(Tab), PinnedFirst(t)
    PROVE  SortPinned(t) = t
<1> DEFINE I == {i \in DOMAIN t : t[i].pinned}
<1>1. \A i, j \in DOMAIN t : i < j /\ j \in I => i \in I
  BY DEF PinnedFirst
<1>2. I \in SUBSET DOMAIN t
  OBVIOUS
<1>3. SortPinned(t) = Picked(t, I) \o Picked(t, DOMAIN t \ I)
  BY DEF SortPinned
<1> HIDE DEF I
<1> QED
  BY <1>1, <1>2, <1>3, PickedFirst

(* The size of a list whose tabs differ.                                   *)
LEMMA AsManyIds ==
    ASSUME NEW t \in Seq(Tab), Distinct(t)
    PROVE  Cardinality(Ids(t)) = Len(t)
<1> DEFINE s == [i \in 1 .. Len(t) |-> t[i].id]
<1>1. Len(t) \in Nat /\ DOMAIN t = 1 .. Len(t) /\ \A i \in DOMAIN t : t[i].id \in Note
  BY TabList
<1>2. s \in [1 .. Len(t) -> Note]
  BY <1>1
<1>3. s \in Seq(Note)
  BY <1>1, <1>2, SeqDef
<1>4. Len(s) = Len(t)
  <2>1. DOMAIN s = 1 .. Len(s) /\ Len(s) \in Nat
    BY <1>3, LenProperties
  <2>2. DOMAIN s = 1 .. Len(t)
    OBVIOUS
  <2> HIDE DEF s
  <2>3. 1 .. Len(s) = 1 .. Len(t)
    BY <2>1, <2>2
  <2>4. ~(Len(s) > Len(t))
    <3> SUFFICES ASSUME Len(s) > Len(t) PROVE FALSE
      OBVIOUS
    <3>1. Len(s) \in 1 .. Len(s) /\ Len(s) \notin 1 .. Len(t)
      BY <2>1, <1>1
    <3> QED
      BY <3>1, <2>3
  <2>5. ~(Len(t) > Len(s))
    <3> SUFFICES ASSUME Len(t) > Len(s) PROVE FALSE
      OBVIOUS
    <3>1. Len(t) \in 1 .. Len(t) /\ Len(t) \notin 1 .. Len(s)
      BY <2>1, <1>1
    <3> QED
      BY <3>1, <2>3
  <2>6. Len(s) \in Nat /\ Len(t) \in Nat
    BY <2>1, <1>1
  <2> QED
    BY <2>4, <2>5, <2>6
<1>5. IsInjective(s)
  BY <1>1 DEF IsInjective, Distinct
<1>6. ToSet(s) = Ids(t)
  BY <1>1 DEF ToSet, Ids
<1> HIDE DEF s
<1>7. Cardinality(ToSet(s)) = Len(s)
  BY <1>3, <1>5, CountedOnce
<1> QED
  BY <1>4, <1>6, <1>7

(* Tabs as a pane keeps them, of the ids S.                                *)
InOrder(t, S) == t \in Seq(Tab) /\ Distinct(t) /\ PinnedFirst(t) /\ Ids(t) = S

(* A tab is found where it is, or not at all.                              *)
LEMMA FindTab ==
    ASSUME NEW t \in Seq(Tab), NEW id
    PROVE  /\ Find(t, id) \in 0 .. Len(t)
           /\ id \in Ids(t) => Find(t, id) \in DOMAIN t /\ Find(t, id) > 0 /\ t[Find(t, id)].id = id
           /\ id \notin Ids(t) => Find(t, id) = 0
<1> DEFINE I == {i \in 1 .. Len(t) : t[i].id = id}
<1>1. Find(t, id) = IF I # {} THEN Min(I) ELSE 0
  BY DEF Find, SelectInSeq
<1>2. Len(t) \in Nat /\ DOMAIN t = 1 .. Len(t)
  BY TabList
<1>3. CASE I = {}
  <2>1. id \notin Ids(t)
    BY <1>2, <1>3 DEF Ids
  <2> QED
    BY <2>1, <1>1, <1>2, <1>3
<1>4. CASE I # {}
  <2>1. I \in SUBSET Nat
    BY <1>2
  <2>2. \E x \in I : \A y \in I : x <= y
    BY <1>4, <2>1, LeastNumber
  <2> HIDE DEF I
  <2>3. Min(I) \in I
    BY <2>2 DEF Min
  <2>4. Find(t, id) \in I
    BY <2>3, <1>1, <1>4
  <2>5. Find(t, id) \in 1 .. Len(t) /\ t[Find(t, id)].id = id
    BY <2>4 DEF I
  <2>6. id \in Ids(t)
    BY <2>5, <1>2 DEF Ids
  <2> QED
    BY <2>5, <2>6, <1>2
<1> QED
  BY <1>3, <1>4

(* A new tab at the end, in the place of another, or between others, and a *)
(* tab taken out.                                                          *)
LEMMA AppendedTab ==
    ASSUME NEW t \in Seq(Tab), Distinct(t), NEW x \in Tab, x.id \notin Ids(t)
    PROVE  LET u == Append(t, x)
           IN  u \in Seq(Tab) /\ Distinct(u) /\ Ids(u) = Ids(t) \cup {x.id}
<1> DEFINE u == Append(t, x)
<1>1. Len(t) \in Nat /\ DOMAIN t = 1 .. Len(t)
  BY TabList
<1>2. /\ u \in Seq(Tab) /\ Len(u) = Len(t) + 1 /\ u[Len(t) + 1] = x
      /\ \A i \in 1 .. Len(t) : u[i] = t[i]
  BY AppendProperties
<1>3. DOMAIN u = 1 .. Len(t) + 1
  BY <1>2, TabList
<1> HIDE DEF u
<1>4. \A k \in DOMAIN u : (k \in DOMAIN t /\ u[k] = t[k]) \/ (k = Len(t) + 1 /\ u[k] = x)
  BY <1>1, <1>2, <1>3
<1>5. Distinct(u)
  <2> SUFFICES ASSUME NEW k \in DOMAIN u, NEW l \in DOMAIN u, u[k].id = u[l].id PROVE k = l
    BY DEF Distinct
  <2>1. \A j \in DOMAIN t : t[j].id # x.id
    BY DEF Ids
  <2> QED
    BY <2>1, <1>4 DEF Distinct
<1>6. Ids(u) = Ids(t) \cup {x.id}
  <2>1. \A k \in DOMAIN u : u[k].id \in Ids(t) \cup {x.id}
    BY <1>4 DEF Ids
  <2>2. \A k \in DOMAIN t : k \in DOMAIN u /\ u[k] = t[k]
    BY <1>1, <1>2, <1>3
  <2>3. Len(t) + 1 \in DOMAIN u /\ u[Len(t) + 1] = x
    BY <1>1, <1>2, <1>3
  <2> QED
    BY <2>1, <2>2, <2>3 DEF Ids
<1> QED
  BY <1>2, <1>5, <1>6 DEF u

LEMMA ReplacedTab ==
    ASSUME NEW t \in Seq(Tab), Distinct(t), NEW x \in Tab, x.id \notin Ids(t), NEW k \in DOMAIN t
    PROVE  LET u == ReplaceAt(t, k, x)
           IN  u \in Seq(Tab) /\ Distinct(u) /\ Ids(u) = (Ids(t) \ {t[k].id}) \cup {x.id}
<1> DEFINE u == ReplaceAt(t, k, x)
<1>1. Len(t) \in Nat /\ DOMAIN t = 1 .. Len(t)
  BY TabList
<1>2. /\ u \in Seq(Tab) /\ Len(u) = Len(t)
      /\ \A j \in 1 .. Len(t) : u[j] = IF j = k THEN x ELSE t[j]
  BY <1>1, ExceptSeq DEF ReplaceAt
<1>3. DOMAIN u = DOMAIN t
  BY <1>1, <1>2, TabList
<1> HIDE DEF u
<1>4. \A j \in DOMAIN t : u[j] = IF j = k THEN x ELSE t[j]
  BY <1>1, <1>2
<1>5. \A j \in DOMAIN t : t[j].id # x.id
  BY DEF Ids
<1>6. Distinct(u)
  BY <1>3, <1>4, <1>5 DEF Distinct
<1>7. Ids(u) = (Ids(t) \ {t[k].id}) \cup {x.id}
  <2>1. \A j \in DOMAIN t : u[j].id \in (Ids(t) \ {t[k].id}) \cup {x.id}
    <3> SUFFICES ASSUME NEW j \in DOMAIN t, j # k PROVE t[j].id \in Ids(t) \ {t[k].id}
      BY <1>4
    <3> QED
      BY DEF Ids, Distinct
  <2>2. \A n \in Ids(t) \ {t[k].id} : \E j \in DOMAIN t : j # k /\ t[j].id = n
    BY DEF Ids
  <2>3. \A n \in Ids(t) \ {t[k].id} : \E j \in DOMAIN t : u[j].id = n
    BY <2>2, <1>4
  <2>4. u[k].id = x.id
    BY <1>4
  <2> QED
    <3> DEFINE S == (Ids(t) \ {t[k].id}) \cup {x.id}
    <3>1. \A n \in Ids(u) : n \in S
      BY <2>1, <1>3 DEF Ids
    <3>2. k \in DOMAIN u
      BY <1>3
    <3>3. x.id \in Ids(u)
      BY <2>4, <3>2 DEF Ids
    <3>4. \A n \in Ids(t) \ {t[k].id} : n \in Ids(u)
      BY <2>3, <1>3 DEF Ids
    <3> QED
      BY <3>1, <3>3, <3>4
<1> QED
  BY <1>2, <1>6, <1>7 DEF u

LEMMA InsertedTab ==
    ASSUME NEW t \in Seq(Tab), Distinct(t), NEW x \in Tab, x.id \notin Ids(t), NEW k \in 1 .. Len(t) + 1
    PROVE  LET u == InsertAt(t, k, x)
           IN  u \in Seq(Tab) /\ Distinct(u) /\ Ids(u) = Ids(t) \cup {x.id}
<1> DEFINE f == SubSeq(t, 1, k - 1)
           g == SubSeq(t, k, Len(t))
           h == f \o <<x>>
           u == h \o g
<1>1. Len(t) \in Nat /\ DOMAIN t = 1 .. Len(t) /\ \A i \in DOMAIN t : t[i] \in Tab
  BY TabList
<1>2. InsertAt(t, k, x) = u
  BY DEF InsertAt
<1>3. f \in Seq(Tab) /\ Len(f) = k - 1 /\ \A i \in 1 .. k - 1 : f[i] = t[i]
  <2>1. \A i \in 1 .. k - 1 : t[i] \in Tab
    BY <1>1
  <2>2. /\ f \in Seq(Tab) /\ Len(f) = IF 1 <= k - 1 THEN k - 1 - 1 + 1 ELSE 0
        /\ \A i \in 1 .. (k - 1) - 1 + 1 : f[i] = t[1 + i - 1]
    BY <2>1, <1>1, SubSeqProperties
  <2> HIDE DEF f
  <2> QED
    BY <2>2, <1>1
<1>4. g \in Seq(Tab) /\ Len(g) = Len(t) - k + 1 /\ \A i \in 1 .. Len(t) - k + 1 : g[i] = t[k + i - 1]
  <2>1. \A i \in k .. Len(t) : t[i] \in Tab
    BY <1>1
  <2>2. /\ g \in Seq(Tab) /\ Len(g) = IF k <= Len(t) THEN Len(t) - k + 1 ELSE 0
        /\ \A i \in 1 .. Len(t) - k + 1 : g[i] = t[k + i - 1]
    BY <2>1, <1>1, SubSeqProperties
  <2> HIDE DEF g
  <2> QED
    BY <2>2, <1>1
<1> HIDE DEF f, g
<1>5. h \in Seq(Tab) /\ Len(h) = k /\ h[k] = x /\ \A i \in 1 .. k - 1 : h[i] = t[i]
  <2>1. h = Append(f, x)
    BY <1>3, AppendIsConcat
  <2>2. /\ Append(f, x) \in Seq(Tab) /\ Len(Append(f, x)) = Len(f) + 1 /\ Append(f, x)[Len(f) + 1] = x
        /\ \A i \in 1 .. Len(f) : Append(f, x)[i] = f[i]
    BY <1>3, AppendProperties
  <2> HIDE DEF h
  <2> QED
    BY <2>1, <2>2, <1>1, <1>3
<1> HIDE DEF h
<1>6. /\ u \in Seq(Tab) /\ Len(u) = Len(h) + Len(g)
      /\ \A i \in 1 .. Len(h) + Len(g) : u[i] = IF i <= Len(h) THEN h[i] ELSE g[i - Len(h)]
  BY <1>4, <1>5, ConcatProperties
<1> HIDE DEF u
<1>7. DOMAIN u = 1 .. Len(t) + 1
  BY <1>1, <1>4, <1>5, <1>6, TabList
<1>8. \A i \in DOMAIN u : u[i] = IF i < k THEN t[i] ELSE IF i = k THEN x ELSE t[i - 1]
  <2> SUFFICES ASSUME NEW i \in 1 .. Len(t) + 1 PROVE u[i] = IF i < k THEN t[i] ELSE IF i = k THEN x ELSE t[i - 1]
    BY <1>7
  <2>1. u[i] = IF i <= k THEN h[i] ELSE g[i - k]
    BY <1>1, <1>4, <1>5, <1>6
  <2>2. CASE i < k
    BY <2>1, <2>2, <1>5
  <2>3. CASE i = k
    BY <2>1, <2>3, <1>5
  <2>4. CASE i > k
    <3>1. i - k \in 1 .. Len(t) - k + 1 /\ k + (i - k) - 1 = i - 1
      BY <2>4, <1>1
    <3>2. g[i - k] = t[i - 1]
      BY <3>1, <1>4
    <3> QED
      BY <2>1, <2>4, <3>2
  <2> QED
    BY <2>2, <2>3, <2>4, <1>1
<1>9. \A i \in DOMAIN t : t[i].id # x.id
  BY DEF Ids
<1>10. Distinct(u)
  <2> SUFFICES ASSUME NEW i \in DOMAIN u, NEW j \in DOMAIN u, u[i].id = u[j].id, i < j PROVE FALSE
    BY <1>7 DEF Distinct
  <2>1. i < k => i \in DOMAIN t /\ u[i] = t[i]
    BY <1>1, <1>7, <1>8
  <2>2. i > k => i - 1 \in DOMAIN t /\ u[i] = t[i - 1]
    BY <1>1, <1>7, <1>8
  <2>3. j < k => j \in DOMAIN t /\ u[j] = t[j]
    BY <1>1, <1>7, <1>8
  <2>4. j > k => j - 1 \in DOMAIN t /\ u[j] = t[j - 1]
    BY <1>1, <1>7, <1>8
  <2>5. (i = k => u[i] = x) /\ (j = k => u[j] = x)
    BY <1>1, <1>7, <1>8
  <2>6. i \in Nat /\ j \in Nat /\ k \in Nat
    BY <1>7
  <2> QED
    BY <2>1, <2>2, <2>3, <2>4, <2>5, <2>6, <1>9 DEF Distinct
<1>11. Ids(u) = Ids(t) \cup {x.id}
  <2>1. ASSUME NEW i \in DOMAIN u PROVE u[i].id \in Ids(t) \cup {x.id}
    <3>1. \/ i < k /\ i \in DOMAIN t
          \/ i = k
          \/ i > k /\ i - 1 \in DOMAIN t
      BY <1>1, <1>7
    <3>2. CASE i < k /\ i \in DOMAIN t
      <4>1. u[i] = t[i]
        BY <3>2, <1>8
      <4> QED
        BY <3>2, <4>1 DEF Ids
    <3>3. CASE i = k
      <4>1. u[i] = x
        BY <3>3, <1>8
      <4> QED
        BY <4>1
    <3>4. CASE i > k /\ i - 1 \in DOMAIN t
      <4>1. u[i] = t[i - 1]
        BY <3>4, <1>7, <1>8
      <4> QED
        BY <3>4, <4>1 DEF Ids
    <3> QED
      BY <3>1, <3>2, <3>3, <3>4
  <2>2. ASSUME NEW i \in DOMAIN t PROVE \E j \in DOMAIN u : u[j].id = t[i].id
    <3>1. CASE i < k
      BY <3>1, <1>1, <1>7, <1>8
    <3>2. CASE ~(i < k)
      <4>1. i + 1 \in DOMAIN u /\ ~(i + 1 < k) /\ i + 1 # k /\ (i + 1) - 1 = i
        BY <3>2, <1>1, <1>7
      <4> QED
        BY <4>1, <1>8
    <3> QED
      BY <3>1, <3>2
  <2>3. k \in DOMAIN u /\ u[k].id = x.id
    BY <1>7, <1>8
  <2> QED
    BY <2>1, <2>2, <2>3 DEF Ids
<1> QED
  BY <1>2, <1>6, <1>10, <1>11

LEMMA WithoutTab ==
    ASSUME NEW t, InOrder(t, Ids(t)), NEW id
    PROVE  InOrder(Without(t, id), Ids(t) \ {id})
<1> DEFINE I == {i \in DOMAIN t : t[i].id # id}
           u == Picked(t, I)
<1>1. Without(t, id) = u
  BY DEF Without
<1>2. I \cap DOMAIN t = I
  OBVIOUS
<1>3. {t[i].id : i \in I} = Ids(t) \ {id}
  BY DEF Ids
<1> HIDE DEF I
<1>4. /\ u \in Seq(Tab) /\ Ids(u) = {t[i].id : i \in I \cap DOMAIN t}
      /\ Distinct(u) /\ PinnedFirst(u)
  BY PickedTabs DEF InOrder
<1> HIDE DEF u
<1> QED
  BY <1>1, <1>2, <1>3, <1>4 DEF InOrder

(* Sorting puts tabs that differ in order.                                 *)
LEMMA SortedInOrder ==
    ASSUME NEW t \in Seq(Tab), Distinct(t)
    PROVE  InOrder(SortPinned(t), Ids(t))
BY SortedTabs DEF InOrder

(* The tabs after opening one (openedTabs): it is among them, and no other *)
(* is new.                                                                 *)
LEMMA TabOpened ==
    ASSUME NEW p, InOrder(p.tabs, Ids(p.tabs)), NEW tab \in Tab, NEW replace
    PROVE  LET u == OpenedTabs(p, tab, replace)
           IN  /\ InOrder(u, Ids(u)) /\ tab.id \in Ids(u) /\ Ids(u) \subseteq Ids(p.tabs) \cup {tab.id}
               /\ ~replace => Ids(p.tabs) \subseteq Ids(u)
<1> DEFINE t == p.tabs
           here == Find(t, p.shown)
<1>0. t \in Seq(Tab) /\ Distinct(t)
  BY DEF InOrder
<1>1. CASE tab.id \in Ids(t)
  BY <1>1 DEF OpenedTabs
<1>2. CASE tab.id \notin Ids(t) /\ replace /\ here > 0 /\ ~t[here].pinned
  <2>1. here \in DOMAIN t
    BY <1>0, <1>2, FindTab
  <2> DEFINE r == ReplaceAt(t, here, tab)
  <2>2. r \in Seq(Tab) /\ Distinct(r) /\ Ids(r) = (Ids(t) \ {t[here].id}) \cup {tab.id}
    <3> HIDE DEF t, here
    <3> QED
      BY <1>0, <1>2, <2>1, ReplacedTab
  <2>3. OpenedTabs(p, tab, replace) = SortPinned(r)
    BY <1>2 DEF OpenedTabs
  <2> HIDE DEF r
  <2>4. InOrder(SortPinned(r), Ids(r))
    BY <2>2, SortedInOrder
  <2> QED
    BY <1>2, <2>2, <2>3, <2>4 DEF InOrder
<1>3. CASE tab.id \notin Ids(t) /\ ~(replace /\ here > 0 /\ ~t[here].pinned)
  <2> DEFINE r == Append(t, tab)
  <2>2. r \in Seq(Tab) /\ Distinct(r) /\ Ids(r) = Ids(t) \cup {tab.id}
    <3> HIDE DEF t
    <3> QED
      BY <1>0, <1>3, AppendedTab
  <2>3. OpenedTabs(p, tab, replace) = SortPinned(r)
    BY <1>3 DEF OpenedTabs
  <2> HIDE DEF r
  <2>4. InOrder(SortPinned(r), Ids(r))
    BY <2>2, SortedInOrder
  <2> QED
    BY <2>2, <2>3, <2>4 DEF InOrder
<1> QED
  BY <1>1, <1>2, <1>3

(* A tab that is dropped on a strip which lacks it.                        *)
LEMMA TabPlaced ==
    ASSUME NEW t, InOrder(t, Ids(t)), NEW x \in Tab, x.id \notin Ids(t), NEW k \in Nat \ {0}
    PROVE  InOrder(Placed(t, x, k), Ids(t) \cup {x.id})
<1> DEFINE j == IF k > Len(t) + 1 THEN Len(t) + 1 ELSE k
           r == InsertAt(t, j, x)
<1>1. t \in Seq(Tab) /\ Distinct(t) /\ Len(t) \in Nat
  BY TabList DEF InOrder
<1>2. j \in 1 .. Len(t) + 1
  BY <1>1
<1>3. Placed(t, x, k) = SortPinned(r)
  BY DEF Placed
<1> HIDE DEF j
<1>4. r \in Seq(Tab) /\ Distinct(r) /\ Ids(r) = Ids(t) \cup {x.id}
  BY <1>1, <1>2, InsertedTab
<1> HIDE DEF r
<1> QED
  BY <1>3, <1>4, SortedInOrder

(* --------------------------- histories ---------------------------------- *)

(* Neighbours in a history of the vault differ, or Back would do nothing.  *)
HistoryOK(h, v) ==
    /\ h \in Seq(Tab)
    /\ \A n \in Ids(h) : VaultOf[n] = v
    /\ \A i \in 1 .. Len(h) - 1 : h[i].id # h[i + 1].id

(* An entry more, a part, and the front part of a history.                 *)
LEMMA HistoryMore ==
    ASSUME NEW v, NEW h, HistoryOK(h, v), NEW x \in Tab, VaultOf[x.id] = v,
           Len(h) > 0 => h[Len(h)].id # x.id
    PROVE  LET u == Append(h, x)
           IN  HistoryOK(u, v) /\ Len(u) = Len(h) + 1 /\ u[Len(h) + 1] = x
<1> DEFINE u == Append(h, x)
<1>1. h \in Seq(Tab) /\ Len(h) \in Nat /\ DOMAIN h = 1 .. Len(h)
  BY TabList DEF HistoryOK
<1>2. /\ u \in Seq(Tab) /\ Len(u) = Len(h) + 1 /\ u[Len(h) + 1] = x
      /\ \A i \in 1 .. Len(h) : u[i] = h[i]
  BY <1>1, AppendProperties
<1>3. DOMAIN u = 1 .. Len(h) + 1
  BY <1>2, TabList
<1> HIDE DEF u
<1>4. \A n \in Ids(u) : VaultOf[n] = v
  <2> SUFFICES ASSUME NEW k \in 1 .. Len(h) + 1 PROVE VaultOf[u[k].id] = v
    BY <1>3 DEF Ids
  <2>1. CASE k \in 1 .. Len(h)
    <3>1. u[k] = h[k] /\ h[k].id \in Ids(h)
      BY <2>1, <1>1, <1>2 DEF Ids
    <3> QED
      BY <3>1 DEF HistoryOK
  <2>2. CASE k = Len(h) + 1
    BY <2>2, <1>2
  <2> QED
    BY <2>1, <2>2, <1>1
<1>5. \A i \in 1 .. Len(u) - 1 : u[i].id # u[i + 1].id
  <2> SUFFICES ASSUME NEW i \in 1 .. Len(h) PROVE u[i].id # u[i + 1].id
    BY <1>1, <1>2
  <2>1. CASE i = Len(h)
    BY <2>1, <1>1, <1>2
  <2>2. CASE i # Len(h)
    <3>0. Len(h) \in Nat
      BY <1>1
    <3>1. i \in 1 .. Len(h) - 1 /\ i + 1 \in 1 .. Len(h)
      BY <2>2, <3>0
    <3> QED
      BY <3>1, <1>2 DEF HistoryOK
  <2> QED
    BY <2>1, <2>2
<1> QED
  BY <1>2, <1>4, <1>5 DEF HistoryOK, u

LEMMA HistorySlice ==
    ASSUME NEW v, NEW h, HistoryOK(h, v), NEW a \in Nat \ {0}, NEW b \in 0 .. Len(h), a <= b + 1
    PROVE  LET u == SubSeq(h, a, b)
           IN  HistoryOK(u, v) /\ Len(u) = b - a + 1 /\ \A i \in 1 .. Len(u) : u[i] = h[a + i - 1]
<1> DEFINE u == SubSeq(h, a, b)
<1>1. h \in Seq(Tab) /\ Len(h) \in Nat /\ DOMAIN h = 1 .. Len(h) /\ \A i \in DOMAIN h : h[i] \in Tab
  BY TabList DEF HistoryOK
<1>2. /\ u \in Seq(Tab) /\ Len(u) = IF a <= b THEN b - a + 1 ELSE 0
      /\ \A i \in 1 .. b - a + 1 : u[i] = h[a + i - 1]
  <2>1. \A i \in a .. b : h[i] \in Tab
    BY <1>1
  <2> QED
    BY <2>1, <1>1, SubSeqProperties
<1>3. b \in Nat
  BY <1>1
<1> HIDE DEF u
<1>4. Len(u) = b - a + 1 /\ DOMAIN u = 1 .. Len(u)
  BY <1>2, <1>3, TabList
<1>5. \A n \in Ids(u) : VaultOf[n] = v
  <2> SUFFICES ASSUME NEW k \in 1 .. b - a + 1 PROVE VaultOf[u[k].id] = v
    BY <1>4 DEF Ids
  <2>1. a + k - 1 \in DOMAIN h
    BY <1>1
  <2>2. u[k] = h[a + k - 1]
    BY <1>2
  <2> QED
    BY <2>1, <2>2 DEF HistoryOK, Ids
<1>6. \A i \in 1 .. Len(u) - 1 : u[i].id # u[i + 1].id
  <2> SUFFICES ASSUME NEW i \in 1 .. b - a PROVE u[i].id # u[i + 1].id
    BY <1>3, <1>4
  <2>1. u[i] = h[a + i - 1]
    BY <1>2, <1>3
  <2>2. u[i + 1] = h[a + (i + 1) - 1]
    <3>1. i + 1 \in 1 .. b - a + 1
      BY <1>3
    <3> QED
      BY <3>1, <1>2
  <2>3. a + i - 1 \in 1 .. Len(h) - 1 /\ a + (i + 1) - 1 = (a + i - 1) + 1
    BY <1>1, <1>3
  <2>4. h[a + i - 1].id # h[(a + i - 1) + 1].id
    BY <2>3 DEF HistoryOK
  <2> QED
    BY <2>1, <2>2, <2>3, <2>4
<1>7. HistoryOK(u, v)
  BY <1>2, <1>5, <1>6 DEF HistoryOK
<1>8. \A i \in 1 .. Len(u) : u[i] = h[a + i - 1]
  BY <1>2, <1>4
<1> QED
  BY <1>4, <1>7, <1>8 DEF u

LEMMA HistoryFront ==
    ASSUME NEW v, NEW h, HistoryOK(h, v), NEW b \in 0 .. Len(h)
    PROVE  LET u == SubSeq(h, 1, b)
           IN  HistoryOK(u, v) /\ Len(u) = b /\ \A i \in 1 .. Len(u) : u[i] = h[i]
<1> DEFINE a == 1
           u == SubSeq(h, a, b)
<1>1. b \in Nat
  BY LenProperties DEF HistoryOK
<1>2. a \in Nat \ {0}
  OBVIOUS
<1>3. a <= b + 1
  BY <1>1
<1> HIDE DEF a
<1>4. HistoryOK(u, v) /\ Len(u) = b - a + 1 /\ \A i \in 1 .. Len(u) : u[i] = h[a + i - 1]
  BY <1>2, <1>3, HistorySlice
<1>5. a = 1
  BY DEF a
<1> HIDE DEF u
<1>6. HistoryOK(u, v) /\ Len(u) = b /\ \A i \in 1 .. Len(u) : u[i] = h[i]
  BY <1>1, <1>4, <1>5
<1> QED
  BY <1>6 DEF u, a

(* The greatest of a set of positions.                                     *)
LEMMA MaxOf ==
    ASSUME NEW n \in Nat, NEW T \in SUBSET (0 .. n), T # {}
    PROVE  Max(T) \in T /\ \A y \in T : y <= Max(T)
<1>1. \E x \in T : \A y \in T : x >= y
  <2>1. PICK x \in T : \A y \in T : y <= x
    BY GreatestNumber
  <2>2. x \in Int /\ \A y \in T : y \in Int
    OBVIOUS
  <2>3. \A y \in T : x >= y
    BY <2>1, <2>2
  <2> QED
    BY <2>3
<1>2. Max(T) \in T /\ \A y \in T : Max(T) >= y
  BY <1>1 DEF Max
<1>3. Max(T) \in Int /\ \A y \in T : y \in Int
  <2> DEFINE m == Max(T)
  <2>1. m \in T
    BY <1>2
  <2> HIDE DEF m
  <2>2. m \in Int /\ \A y \in T : y \in Int
    BY <2>1
  <2> QED
    BY <2>2 DEF m
<1> QED
  BY <1>2, <1>3

(* The positions of h that syncedHistory keeps.                            *)
Open(h, closed) == {i \in DOMAIN h : h[i].id \notin closed}

(* The entries that syncedHistory keeps.                                   *)
Kept(h, closed) ==
    {i \in Open(h, closed) :
        LET before == {j \in Open(h, closed) : j < i}
        IN  ~(before # {} /\ h[Max(before)].id = h[i].id)}

(* Between two kept entries all that stay open are repetitions of the      *)
(* first.                                                                  *)
LEMMA SameBetween ==
    ASSUME NEW h \in Seq(Tab), NEW closed, NEW i \in Kept(h, closed), NEW j \in DOMAIN h,
           \A k \in Kept(h, closed) : ~(i < k /\ k < j)
    PROVE  \A x \in Open(h, closed) : i <= x /\ x < j => h[x].id = h[i].id
<1> DEFINE O == Open(h, closed)
           wrong == {x \in O : i <= x /\ x < j /\ h[x].id # h[i].id}
<1>1. Len(h) \in Nat /\ DOMAIN h = 1 .. Len(h)
  BY TabList
<1>2. O \subseteq 1 .. Len(h) /\ i \in O
  BY <1>1 DEF Open, Kept
<1> SUFFICES ASSUME wrong # {} PROVE FALSE
  OBVIOUS
<1>3. wrong \in SUBSET Nat
  BY <1>2
<1>4. PICK x \in wrong : \A y \in wrong : x <= y
  BY <1>3, LeastNumber
<1>5. x \in O /\ i < x /\ x < j /\ h[x].id # h[i].id /\ x \in Nat /\ i \in Nat
  BY <1>2, <1>4
<1> DEFINE before == {y \in O : y < x}
<1>6. i \in before /\ before \in SUBSET (0 .. Len(h))
  BY <1>2, <1>5
<1>7. x \notin Kept(h, closed)
  BY <1>5
<1> DEFINE m == Max(before)
<1>8. h[m].id = h[x].id
  BY <1>5, <1>7 DEF Kept
<1>9. m \in before /\ \A y \in before : y <= m
  <2> HIDE DEF before
  <2> QED
    BY <1>1, <1>6, MaxOf
<1> HIDE DEF m
<1>10. m \in O /\ m < x /\ i <= m
  BY <1>6, <1>9
<1>11. m \in wrong
  BY <1>5, <1>8, <1>10
<1>12. x <= m
  BY <1>4, <1>11
<1>13. m \in Nat
  BY <1>2, <1>10
<1> QED
  BY <1>5, <1>10, <1>12, <1>13

(* They are a history of what is open.                                     *)
LEMMA HistoryKept ==
    ASSUME NEW v, NEW h, HistoryOK(h, v), NEW closed
    PROVE  LET u == Picked(h, Kept(h, closed))
           IN  /\ HistoryOK(u, v)
               /\ \A n \in Ids(u) : n \notin closed
               /\ \A at \in Nat : Cardinality({i \in Kept(h, closed) : i <= at}) \in 0 .. Len(u)
<1> DEFINE K == Kept(h, closed)
           O == Open(h, closed)
           u == Picked(h, K)
<1>1. h \in Seq(Tab) /\ Len(h) \in Nat /\ DOMAIN h = 1 .. Len(h)
  BY TabList DEF HistoryOK
<1>2. O = {i \in 1 .. Len(h) : h[i].id \notin closed} /\ K \subseteq O
  BY <1>1 DEF Open, Kept
<1>3. K \cap 1 .. Len(h) = K /\ K \cap DOMAIN h = K
  BY <1>1, <1>2
<1>4. PICK pos : Places(pos, u, h, K)
  BY <1>1, <1>3, PickedRight
<1>5. u \in Seq(Tab) /\ Ids(u) = {h[i].id : i \in K}
  <2> HIDE DEF K
  <2>1. u \in Seq(Tab) /\ Ids(u) = {h[i].id : i \in K \cap DOMAIN h}
    BY <1>1, PickedTabs
  <2> QED
    BY <2>1, <1>3
<1>6. Len(u) = Cardinality(K) /\ IsFiniteSet(K)
  <2> HIDE DEF K
  <2>1. Len(u) = Cardinality(K \cap 1 .. Len(h)) /\ IsFiniteSet(K \cap 1 .. Len(h))
    BY <1>1, PickedCount
  <2> QED
    BY <2>1, <1>3
<1> HIDE DEF u
<1>7. Len(u) \in Nat /\ DOMAIN u = 1 .. Len(u)
  BY <1>5, TabList
<1>8. \A n \in Ids(u) : VaultOf[n] = v
  <2> HIDE DEF K, O
  <2>1. \A i \in K : i \in DOMAIN h
    BY <1>3
  <2> QED
    BY <2>1, <1>5 DEF HistoryOK, Ids
<1>9. \A n \in Ids(u) : n \notin closed
  BY <1>2, <1>5
<1>10. ASSUME NEW at \in Nat PROVE Cardinality({i \in K : i <= at}) \in 0 .. Len(u)
  <2> DEFINE P == {i \in K : i <= at}
  <2> HIDE DEF K
  <2>1. P \subseteq K
    OBVIOUS
  <2> HIDE DEF P
  <2>2. IsFiniteSet(P) /\ Cardinality(P) <= Cardinality(K)
    BY <2>1, <1>6, FS_Subset
  <2>3. Cardinality(P) \in Nat
    BY <2>2, FS_CardinalityType
  <2> QED
    BY <2>2, <2>3, <1>6, <1>7 DEF P
<1>11. ASSUME NEW k \in 1 .. Len(u) - 1 PROVE u[k].id # u[k + 1].id
  <2> DEFINE i == pos[k]
             j == pos[k + 1]
  <2> HIDE DEF K, O
  <2>1. k \in 1 .. Len(u) /\ k + 1 \in 1 .. Len(u) /\ k < k + 1
    BY <1>7
  <2>2. i \in K /\ j \in K /\ i < j /\ u[k] = h[i] /\ u[k + 1] = h[j]
    BY <2>1, <1>4 DEF Places
  <2>3. ASSUME NEW l \in K, i < l, l < j PROVE FALSE
    <3>1. PICK m \in 1 .. Len(u) : pos[m] = l
      BY <1>4 DEF Places
    <3>2. CASE m <= k
      <4>1. pos[m] <= i
        <5>1. m = k \/ m < k
          BY <2>1, <3>2
        <5>2. m < k => pos[m] < pos[k]
          BY <2>1, <1>4 DEF Places
        <5> QED
          BY <5>1, <5>2, <3>1, <2>3, <2>2, <1>1, <1>3
      <4> QED
        BY <4>1, <3>1, <2>3, <2>2, <1>1, <1>3
    <3>3. CASE ~(m <= k)
      <4>1. m = k + 1 \/ k + 1 < m
        BY <2>1, <3>3
      <4>2. k + 1 < m => pos[k + 1] < pos[m]
        BY <2>1, <1>4 DEF Places
      <4> QED
        BY <4>1, <4>2, <3>1, <2>3, <2>2, <1>1, <1>3
    <3> QED
      BY <3>2, <3>3
  <2> HIDE DEF i, j
  <2>4. i \in Kept(h, closed) /\ j \in Kept(h, closed) /\ j \in DOMAIN h
    BY <2>2, <1>3 DEF K
  <2>5. \A x \in O : i <= x /\ x < j => h[x].id = h[i].id
    <3>1. \A l \in Kept(h, closed) : ~(i < l /\ l < j)
      BY <2>3 DEF K
    <3> QED
      BY <3>1, <2>4, <1>1, SameBetween DEF O
  <2> DEFINE before == {x \in O : x < j}
             m == Max(before)
  <2>6. O \subseteq 1 .. Len(h) /\ i \in O /\ j \in O /\ i \in Nat /\ j \in Nat
    BY <2>2, <1>2
  <2>7. i \in before /\ before \in SUBSET (0 .. Len(h))
    <3>1. i \in before
      BY <2>2, <2>6
    <3>2. before \subseteq O
      OBVIOUS
    <3>3. before \subseteq 0 .. Len(h)
      <4> HIDE DEF before
      <4> QED
        BY <3>2, <2>6, <1>1
    <3> QED
      BY <3>1, <3>3
  <2>8. h[m].id # h[j].id
    BY <2>4, <2>7 DEF Kept, O
  <2>9. m \in before /\ i <= m
    <3> HIDE DEF before
    <3> QED
      BY <2>7, <1>1, MaxOf
  <2> HIDE DEF m
  <2>10. m \in O /\ m < j
    BY <2>9
  <2> QED
    BY <2>2, <2>5, <2>8, <2>9, <2>10
<1>12. HistoryOK(u, v)
  BY <1>5, <1>8, <1>11 DEF HistoryOK
<1> QED
  BY <1>9, <1>10, <1>12 DEF u

(* ----------------------------- panes ------------------------------------ *)

(* What a pane of the vault is at any time: what an older build left, with *)
(* each tab once and the cursor in the history.                            *)
PaneOK(p, v) == OldPane(p, v) /\ Distinct(p.tabs) /\ p.at <= Len(p.history)

(* The same, by field.                                                     *)
LEMMA PaneFacts ==
    ASSUME NEW v, NEW p, PaneOK(p, v)
    PROVE  /\ p \in Pane
           /\ p = [tabs |-> p.tabs, shown |-> p.shown, history |-> p.history, at |-> p.at]
           /\ p.tabs \in Seq(Tab) /\ InOrder(p.tabs, Ids(p.tabs)) /\ Ids(p.tabs) \subseteq Note
           /\ \A n \in Ids(p.tabs) : VaultOf[n] = v
           /\ HistoryOK(p.history, v) /\ p.at \in 0 .. Len(p.history)
           /\ Ids(p.tabs) = {} => p.shown = None
           /\ Ids(p.tabs) # {} => p.shown \in Ids(p.tabs)
<1>1. p \in Pane /\ Distinct(p.tabs) /\ PinnedFirst(p.tabs) /\ p.at <= Len(p.history)
  BY DEF PaneOK, OldPane
<1>2. /\ p = [tabs |-> p.tabs, shown |-> p.shown, history |-> p.history, at |-> p.at]
      /\ p.tabs \in Seq(Tab) /\ p.history \in Seq(Tab) /\ p.at \in Nat
  BY <1>1 DEF Pane
<1>3. InOrder(p.tabs, Ids(p.tabs)) /\ Ids(p.tabs) \subseteq Note
  <2>1. Ids(p.tabs) \subseteq Note
    BY <1>2, TabList DEF Ids
  <2> QED
    BY <1>1, <1>2, <2>1 DEF InOrder
<1>4. \A n \in Ids(p.tabs) : VaultOf[n] = v
  BY DEF PaneOK, OldPane
<1>5. HistoryOK(p.history, v)
  BY <1>2 DEF PaneOK, OldPane, HistoryOK
<1>6. p.at \in 0 .. Len(p.history)
  <2>1. Len(p.history) \in Nat
    BY <1>2, LenProperties
  <2> QED
    BY <2>1, <1>1, <1>2
<1>7. Ids(p.tabs) = {} <=> p.tabs = <<>>
  BY <1>2, TabList
<1>8. IF p.tabs = <<>> THEN p.shown = None ELSE p.shown \in Ids(p.tabs)
  BY DEF PaneOK, OldPane
<1> QED
  BY <1>1, <1>2, <1>3, <1>4, <1>5, <1>6, <1>7, <1>8

(* A pane with some of its fields set.                                     *)
LEMMA PaneWith ==
    ASSUME NEW p \in Pane, NEW tabs, NEW shown
    PROVE  /\ [p EXCEPT !.tabs = tabs] = [tabs |-> tabs, shown |-> p.shown, history |-> p.history, at |-> p.at]
           /\ [p EXCEPT !.tabs = tabs, !.shown = shown] =
                  [tabs |-> tabs, shown |-> shown, history |-> p.history, at |-> p.at]
<1> DEFINE t == p.tabs
           s == p.shown
           h == p.history
           k == p.at
           q == [p EXCEPT !.tabs = tabs]
<1>1. p = [tabs |-> t, shown |-> s, history |-> h, at |-> k]
  BY DEF Pane
<1>2. [p EXCEPT !.tabs = tabs, !.shown = shown] = [q EXCEPT !.shown = shown]
  BY <1>1
<1> HIDE DEF t, s, h, k
<1>3. q = [tabs |-> tabs, shown |-> s, history |-> h, at |-> k]
  BY <1>1
<1> HIDE DEF q
<1>4. [q EXCEPT !.shown = shown] = [tabs |-> tabs, shown |-> shown, history |-> h, at |-> k]
  BY <1>3
<1> QED
  BY <1>2, <1>3, <1>4 DEF q, s, h, k

LEMMA PaneShowing ==
    ASSUME NEW p \in Pane, NEW tabs, NEW shown, NEW at
    PROVE  [p EXCEPT !.tabs = tabs, !.shown = shown, !.at = at] =
               [tabs |-> tabs, shown |-> shown, history |-> p.history, at |-> at]
<1> DEFINE q == [p EXCEPT !.tabs = tabs, !.shown = shown]
           h == p.history
           k == p.at
<1>1. [p EXCEPT !.tabs = tabs, !.shown = shown, !.at = at] = [q EXCEPT !.at = at]
  BY DEF Pane
<1>2. q = [tabs |-> tabs, shown |-> shown, history |-> h, at |-> k]
  BY PaneWith
<1> HIDE DEF q, h, k
<1>3. [q EXCEPT !.at = at] = [tabs |-> tabs, shown |-> shown, history |-> h, at |-> at]
  BY <1>2
<1> QED
  BY <1>1, <1>3 DEF h, q

(* Fields that make a pane.                                                *)
LEMMA PaneMade ==
    ASSUME NEW v, NEW tabs, NEW shown, NEW h, NEW at,
           InOrder(tabs, Ids(tabs)), \A n \in Ids(tabs) : VaultOf[n] = v,
           Ids(tabs) = {} => shown = None, Ids(tabs) # {} => shown \in Ids(tabs),
           HistoryOK(h, v), at \in 0 .. Len(h)
    PROVE  PaneOK([tabs |-> tabs, shown |-> shown, history |-> h, at |-> at], v)
<1> DEFINE p == [tabs |-> tabs, shown |-> shown, history |-> h, at |-> at]
<1>1. tabs \in Seq(Tab) /\ Distinct(tabs) /\ PinnedFirst(tabs) /\ h \in Seq(Tab)
  BY DEF InOrder, HistoryOK
<1>2. Ids(tabs) = {} <=> tabs = <<>>
  BY <1>1, TabList
<1>3. Ids(tabs) \subseteq Note
  BY <1>1, TabList DEF Ids
<1>4. p.tabs = tabs /\ p.shown = shown /\ p.history = h /\ p.at = at
  OBVIOUS
<1>5. p \in Pane
  <2>1. shown \in Note \cup {None}
    BY <1>3
  <2>2. at \in Nat
    BY <1>1, LenProperties
  <2> QED
    BY <1>1, <2>1, <2>2 DEF Pane
<1>6. IF tabs = <<>> THEN shown = None ELSE shown \in Ids(tabs)
  BY <1>2
<1>7. at <= Len(h)
  BY <1>1, LenProperties
<1>8. \A n \in Ids(tabs) \cup Ids(h) : VaultOf[n] = v
  BY DEF HistoryOK
<1>9. \A i \in 1 .. Len(h) - 1 : h[i].id # h[i + 1].id
  BY DEF HistoryOK
<1> HIDE DEF p
<1> QED
  BY <1>1, <1>4, <1>5, <1>6, <1>7, <1>8, <1>9 DEF PaneOK, OldPane, p

(* A tab of the pane.                                                      *)
LEMMA TabThere ==
    ASSUME NEW v, NEW p, PaneOK(p, v), NEW id \in Ids(p.tabs)
    PROVE  LET k == Find(p.tabs, id)
           IN  /\ k \in DOMAIN p.tabs /\ k \in 1 .. Len(p.tabs) /\ p.tabs[k] \in Tab /\ p.tabs[k].id = id
               /\ VaultOf[id] = v /\ id \in Note
<1>1. p.tabs \in Seq(Tab) /\ Ids(p.tabs) \subseteq Note /\ \A n \in Ids(p.tabs) : VaultOf[n] = v
  BY PaneFacts
<1>2. Find(p.tabs, id) \in DOMAIN p.tabs /\ p.tabs[Find(p.tabs, id)].id = id
  BY <1>1, FindTab
<1>3. p.tabs[Find(p.tabs, id)] \in Tab /\ DOMAIN p.tabs = 1 .. Len(p.tabs)
  BY <1>1, <1>2, TabList
<1> QED
  BY <1>1, <1>2, <1>3

(* The panes that there are to begin with.                                 *)
LEMMA NewPaneOK ==
    ASSUME NEW v, NEW tab \in Tab, VaultOf[tab.id] = v
    PROVE  PaneOK(NewPane(tab), v) /\ OnCursor(NewPane(tab)) /\ NewPane(tab).tabs # <<>>
<1> DEFINE t == <<tab>>
<1>1. t \in Seq(Tab) /\ Len(t) = 1 /\ t[1] = tab /\ t # <<>>
  OBVIOUS
<1>2. DOMAIN t = 1 .. 1
  BY <1>1, TabList
<1> HIDE DEF t
<1>3. Ids(t) = {tab.id}
  BY <1>1, <1>2 DEF Ids
<1>4. InOrder(t, Ids(t))
  BY <1>1, <1>2 DEF InOrder, Distinct, PinnedFirst
<1>5. HistoryOK(t, v)
  BY <1>1, <1>3 DEF HistoryOK
<1>6. NewPane(tab) = [tabs |-> t, shown |-> tab.id, history |-> t, at |-> 1]
  BY DEF NewPane, t
<1>7. PaneOK(NewPane(tab), v)
  <2>1. 1 \in 0 .. Len(t)
    BY <1>1
  <2> QED
    BY <1>3, <1>4, <1>5, <1>6, <2>1, PaneMade
<1>8. OnCursor(NewPane(tab)) /\ NewPane(tab).tabs # <<>>
  BY <1>1, <1>6 DEF OnCursor
<1> QED
  BY <1>7, <1>8

LEMMA EmptyPaneOK ==
    ASSUME NEW v
    PROVE  PaneOK(EmptyPane, v)
<1> DEFINE t == <<>>
<1>1. t \in Seq(Tab) /\ Len(t) = 0
  OBVIOUS
<1>2. DOMAIN t = {}
  OBVIOUS
<1>3. EmptyPane = [tabs |-> t, shown |-> None, history |-> t, at |-> 0]
  BY DEF EmptyPane
<1> HIDE DEF t
<1>4. Ids(t) = {}
  BY <1>2 DEF Ids
<1>5. InOrder(t, Ids(t))
  BY <1>1, <1>2 DEF InOrder, Distinct, PinnedFirst
<1>6. HistoryOK(t, v)
  BY <1>1, <1>4 DEF HistoryOK
<1>7. 0 \in 0 .. Len(t)
  BY <1>1
<1> QED
  BY <1>3, <1>4, <1>5, <1>6, <1>7, PaneMade

(* A pane that goes to a tab puts it on its cursor (recorded).             *)
LEMMA RecordedOK ==
    ASSUME NEW v, NEW p, PaneOK(p, v), NEW tab \in Tab, NEW tabs,
           InOrder(tabs, Ids(tabs)), \A n \in Ids(tabs) : VaultOf[n] = v, tab.id \in Ids(tabs)
    PROVE  LET r == Recorded(p, tab, tabs)
           IN  PaneOK(r, v) /\ OnCursor(r) /\ r.tabs = tabs
<1> DEFINE h == p.history
           r == Recorded(p, tab, tabs)
<1>1. /\ p = [tabs |-> p.tabs, shown |-> p.shown, history |-> h, at |-> p.at]
      /\ HistoryOK(h, v) /\ p.at \in 0 .. Len(h)
  BY PaneFacts
<1>2. Len(h) \in Nat /\ p.at \in Nat
  <2>1. Len(h) \in Nat
    BY <1>1, LenProperties DEF HistoryOK
  <2> QED
    BY <1>1, <2>1
<1>3. CASE p.at > 0 /\ h[p.at].id = tab.id
  <2>1. r = [tabs |-> tabs, shown |-> tab.id, history |-> h, at |-> p.at]
    BY <1>1, <1>3 DEF Recorded
  <2>2. PaneOK(r, v)
    BY <1>1, <2>1, PaneMade
  <2>3. OnCursor(r) /\ r.tabs = tabs
    BY <1>3, <2>1 DEF OnCursor
  <2> QED
    BY <2>2, <2>3
<1>4. CASE ~(p.at > 0 /\ h[p.at].id = tab.id)
  <2> DEFINE past == SubSeq(h, 1, p.at)
             all == Append(past, tab)
             a == IF Len(all) > MaxHistory THEN Len(all) - MaxHistory + 1 ELSE 1
             kept == SubSeq(all, a, Len(all))
  <2>1. /\ HistoryOK(past, v) /\ Len(past) = p.at
        /\ \A i \in 1 .. Len(past) : past[i] = h[i]
    BY <1>1, HistoryFront
  <2> HIDE DEF past
  <2>2. HistoryOK(all, v) /\ Len(all) = p.at + 1 /\ all[p.at + 1] = tab
    <3>1. Len(past) > 0 => past[Len(past)].id # tab.id
      BY <2>1, <1>2, <1>4
    <3>2. VaultOf[tab.id] = v
      OBVIOUS
    <3> QED
      BY <2>1, <3>1, <3>2, HistoryMore
  <2> HIDE DEF all
  <2>3. a \in Nat \ {0} /\ a <= Len(all)
    BY <2>2, <1>2, WorkspaceBounds
  <2>4. r = [tabs |-> tabs, shown |-> tab.id, history |-> kept, at |-> Len(kept)]
    BY <1>4 DEF Recorded, all, past
  <2> HIDE DEF a
  <2>5. /\ HistoryOK(kept, v) /\ Len(kept) = Len(all) - a + 1
        /\ \A i \in 1 .. Len(kept) : kept[i] = all[a + i - 1]
    <3>1. Len(all) \in 0 .. Len(all) /\ a <= Len(all) + 1
      BY <2>2, <2>3, <1>2
    <3> QED
      BY <2>2, <2>3, <3>1, HistorySlice
  <2> HIDE DEF kept
  <2>6. Len(kept) \in Nat /\ Len(kept) > 0 /\ kept[Len(kept)] = tab
    <3>1. Len(kept) \in 1 .. Len(kept) /\ a + Len(kept) - 1 = p.at + 1
      BY <2>2, <2>3, <2>5, <1>2
    <3>2. kept[Len(kept)] = all[p.at + 1]
      BY <3>1, <2>5
    <3> QED
      BY <3>1, <3>2, <2>2
  <2>7. PaneOK(r, v)
    <3>1. Len(kept) \in 0 .. Len(kept)
      BY <2>6
    <3> QED
      BY <2>4, <2>5, <3>1, PaneMade
  <2>8. OnCursor(r) /\ r.tabs = tabs
    BY <2>4, <2>6 DEF OnCursor
  <2> QED
    BY <2>7, <2>8
<1> QED
  BY <1>3, <1>4

(* A pane that loses tabs keeps a history of what is left, with its cursor *)
(* on the tab that shows (syncedHistory).                                  *)
LEMMA SyncedOK ==
    ASSUME NEW v, NEW p, PaneOK(p, v), NEW tabs, NEW closed, NEW shown,
           InOrder(tabs, Ids(tabs)), Ids(tabs) \subseteq Ids(p.tabs),
           Ids(tabs) = {} => shown = None, Ids(tabs) # {} => shown \in Ids(tabs)
    PROVE  LET r == Synced(p, tabs, closed, shown)
           IN  PaneOK(r, v) /\ OnCursor(r) /\ r.tabs = tabs
<1> DEFINE h == p.history
           K == Kept(h, closed)
           u == Picked(h, K)
           I == {i \in 1 .. Len(u) : u[i].id = shown}
           cursor == Cardinality({i \in K : i <= p.at})
           s == SyncedHistory(p, closed, shown)
           r == Synced(p, tabs, closed, shown)
<1>1. /\ HistoryOK(h, v) /\ p.at \in 0 .. Len(h)
      /\ \A n \in Ids(p.tabs) : VaultOf[n] = v
      /\ Ids(p.tabs) \subseteq Note
  BY PaneFacts
<1>2. p.at \in Nat
  BY <1>1, LenProperties DEF HistoryOK
<1>3. HistoryOK(u, v) /\ cursor \in 0 .. Len(u)
  BY <1>1, <1>2, HistoryKept
<1>4. SelectLastInSeq(u, LAMBDA t : t.id = shown) = IF I # {} THEN Max(I) ELSE 0
  BY DEF SelectLastInSeq
<1>5. s = IF shown = None THEN [history |-> u, at |-> cursor]
          ELSE IF SelectLastInSeq(u, LAMBDA t : t.id = shown) > 0
               THEN [history |-> u, at |-> SelectLastInSeq(u, LAMBDA t : t.id = shown)]
          ELSE [history |-> Append(u, p.tabs[Find(p.tabs, shown)]), at |-> Len(u) + 1]
  BY DEF SyncedHistory, Kept, Open
<1> HIDE DEF K, u, cursor
<1>6. Len(u) \in Nat
  BY <1>3, LenProperties DEF HistoryOK
<1>7. /\ HistoryOK(s.history, v) /\ s.at \in 0 .. Len(s.history)
      /\ shown = None \/ (s.at > 0 /\ s.history[s.at].id = shown)
  <2>1. CASE shown = None
    <3>1. s.history = u /\ s.at = cursor
      BY <1>5, <2>1
    <3> HIDE DEF s
    <3> QED
      BY <3>1, <1>3, <2>1
  <2>2. CASE shown # None /\ I # {}
    <3>1. Max(I) \in I
      <4>1. I \in SUBSET (0 .. Len(u))
        BY <1>6
      <4> HIDE DEF I
      <4> QED
        BY <4>1, <2>2, <1>6, MaxOf
    <3>2. Max(I) \in 1 .. Len(u) /\ u[Max(I)].id = shown
      BY <3>1
    <3>3. s = [history |-> u, at |-> Max(I)]
      <4>1. SelectLastInSeq(u, LAMBDA t : t.id = shown) = Max(I)
        BY <1>4, <2>2
      <4>2. Max(I) > 0
        BY <3>2, <1>6
      <4> HIDE DEF I, s
      <4> QED
        BY <4>1, <4>2, <1>5, <2>2
    <3> HIDE DEF I, s
    <3> QED
      BY <3>2, <3>3, <1>3, <1>6
  <2>3. CASE shown # None /\ I = {}
    <3> DEFINE x == p.tabs[Find(p.tabs, shown)]
    <3>1. shown \in Ids(p.tabs)
      BY <2>3
    <3>2. x \in Tab /\ x.id = shown /\ VaultOf[shown] = v
      BY <3>1, TabThere
    <3>3. s = [history |-> Append(u, x), at |-> Len(u) + 1]
      BY <1>4, <1>5, <2>3
    <3> HIDE DEF x
    <3>4. Len(u) > 0 => u[Len(u)].id # x.id
      BY <1>6, <2>3, <3>2
    <3> DEFINE g == Append(u, x)
    <3>5. HistoryOK(g, v) /\ Len(g) = Len(u) + 1 /\ g[Len(u) + 1] = x
      BY <1>3, <3>2, <3>4, HistoryMore
    <3>6. s.history = g /\ s.at = Len(u) + 1
      BY <3>3
    <3> HIDE DEF g, s
    <3> QED
      BY <3>2, <3>5, <3>6, <1>6
  <2> QED
    BY <2>1, <2>2, <2>3
<1>8. r = [tabs |-> tabs, shown |-> shown, history |-> s.history, at |-> s.at]
  BY DEF Synced
<1> HIDE DEF s
<1>9. PaneOK(r, v)
  <2>1. \A n \in Ids(tabs) : VaultOf[n] = v
    BY <1>1
  <2> QED
    BY <1>7, <1>8, <2>1, PaneMade
<1>10. OnCursor(r) /\ r.tabs = tabs
  BY <1>7, <1>8 DEF OnCursor
<1> QED
  BY <1>9, <1>10

(* What a pane shows once the tab `id` is gone from it.                    *)
LEMMA ShownWithoutOK ==
    ASSUME NEW v, NEW p, PaneOK(p, v), NEW id \in Ids(p.tabs)
    PROVE  LET rest == Without(p.tabs, id)
               shown == ShownWithout(p, id)
           IN  /\ Ids(rest) = {} => shown = None
               /\ Ids(rest) # {} => shown \in Ids(rest)
               /\ Len(p.tabs) > 1 => Ids(rest) # {}
<1> DEFINE t == p.tabs
           n == Len(t)
           k == Find(t, id)
           I == {i \in DOMAIN t : t[i].id # id}
           rest == Without(t, id)
           shown == ShownWithout(p, id)
<1>1. /\ t \in Seq(Tab) /\ InOrder(t, Ids(t))
      /\ Ids(t) # {} => p.shown \in Ids(t)
  BY PaneFacts
<1>2. n \in Nat /\ DOMAIN t = 1 .. n
  BY <1>1, TabList
<1>3. k \in 1 .. n /\ t[k].id = id
  BY <1>2, TabThere
<1>4. InOrder(rest, Ids(t) \ {id})
  BY <1>1, WithoutTab
<1>5. rest \in Seq(Tab) /\ Ids(rest) = Ids(t) \ {id}
  BY <1>4 DEF InOrder
<1>6. Len(rest) = n - 1
  <2>1. I \cap 1 .. n = 1 .. n \ {k}
    <3>1. \A i \in 1 .. n : t[i].id = id => i = k
      BY <1>1, <1>2, <1>3 DEF InOrder, Distinct
    <3> QED
      BY <3>1, <1>2, <1>3
  <2>2. IsFiniteSet(1 .. n) /\ Cardinality(1 .. n) = n
    BY <1>2, UpTo
  <2>3. Cardinality(1 .. n \ {k}) = n - 1
    BY <2>2, <1>3, FS_RemoveElement
  <2>4. rest = Picked(t, I)
    BY DEF Without
  <2> HIDE DEF I, rest, t
  <2>5. Len(Picked(t, I)) = Cardinality(I \cap 1 .. Len(t))
    BY <1>1, PickedCount
  <2> QED
    BY <2>1, <2>3, <2>4, <2>5
<1>7. DOMAIN rest = 1 .. Len(rest) /\ (Ids(rest) = {} <=> Len(rest) = 0) /\ Len(rest) \in Nat
  BY <1>5, TabList
<1>8. shown = IF p.shown # id THEN p.shown
              ELSE IF k <= Len(rest) THEN rest[k].id
              ELSE IF k > 1 THEN rest[k - 1].id ELSE None
  BY DEF ShownWithout
<1> HIDE DEF n, k, rest, shown
<1>9. n > 1 => Ids(rest) # {}
  BY <1>2, <1>6, <1>7
<1>10. CASE p.shown # id
  <2>1. shown = p.shown
    BY <1>8, <1>10
  <2>2. shown \in Ids(rest)
    BY <2>1, <1>1, <1>5, <1>10
  <2> QED
    BY <2>2, <1>9 DEF n, rest, shown
<1>11. CASE p.shown = id /\ k <= Len(rest)
  <2>1. shown = rest[k].id /\ k \in DOMAIN rest
    BY <1>3, <1>2, <1>7, <1>8, <1>11
  <2>2. shown \in Ids(rest)
    BY <2>1 DEF Ids
  <2> QED
    BY <2>2, <1>9 DEF n, rest, shown
<1>12. CASE p.shown = id /\ ~(k <= Len(rest)) /\ k > 1
  <2>1. shown = rest[k - 1].id /\ k - 1 \in DOMAIN rest
    BY <1>3, <1>2, <1>6, <1>7, <1>8, <1>12
  <2>2. shown \in Ids(rest)
    BY <2>1 DEF Ids
  <2> QED
    BY <2>2, <1>9 DEF n, rest, shown
<1>13. CASE p.shown = id /\ ~(k <= Len(rest)) /\ ~(k > 1)
  <2>1. shown = None /\ Len(rest) = 0
    BY <1>3, <1>2, <1>6, <1>7, <1>8, <1>13
  <2>2. Ids(rest) = {}
    BY <2>1, <1>7
  <2> QED
    BY <2>1, <2>2, <1>9 DEF n, rest, shown
<1> QED
  BY <1>10, <1>11, <1>12, <1>13

(* A pane that a tab is closed in, or dragged from (closeTab,              *)
(* moveTabToPane).                                                         *)
LEMMA DroppedOK ==
    ASSUME NEW v, NEW p, PaneOK(p, v), NEW id \in Ids(p.tabs)
    PROVE  PaneOK(Dropped(p, id), v) /\ OnCursor(Dropped(p, id))
<1> DEFINE rest == Without(p.tabs, id)
           shown == ShownWithout(p, id)
<1>1. InOrder(p.tabs, Ids(p.tabs))
  BY PaneFacts
<1>2. InOrder(rest, Ids(p.tabs) \ {id})
  BY <1>1, WithoutTab
<1>3. (Ids(rest) = {} => shown = None) /\ (Ids(rest) # {} => shown \in Ids(rest))
  BY ShownWithoutOK
<1>4. Dropped(p, id) = Synced(p, rest, {id}, shown)
  BY DEF Dropped
<1> HIDE DEF rest, shown
<1>5. InOrder(rest, Ids(rest)) /\ Ids(rest) \subseteq Ids(p.tabs)
  BY <1>2 DEF InOrder
<1>6. PaneOK(Synced(p, rest, {id}, shown), v) /\ OnCursor(Synced(p, rest, {id}, shown))
  BY <1>3, <1>5, SyncedOK
<1> QED
  BY <1>4, <1>6

(* The pane that a tab leaves to split it (splitWithTab).                  *)
LEMMA LeftOK ==
    ASSUME NEW v, NEW p, PaneOK(p, v), NEW id \in Ids(p.tabs), Len(p.tabs) > 1
    PROVE  LET r == [p EXCEPT !.tabs = Without(p.tabs, id), !.shown = ShownWithout(p, id)]
           IN  PaneOK(r, v) /\ r.tabs # <<>>
<1> DEFINE rest == Without(p.tabs, id)
           shown == ShownWithout(p, id)
           r == [p EXCEPT !.tabs = rest, !.shown = shown]
<1>1. /\ p = [tabs |-> p.tabs, shown |-> p.shown, history |-> p.history, at |-> p.at]
      /\ InOrder(p.tabs, Ids(p.tabs)) /\ \A n \in Ids(p.tabs) : VaultOf[n] = v
      /\ HistoryOK(p.history, v) /\ p.at \in 0 .. Len(p.history)
  BY PaneFacts
<1>2. InOrder(rest, Ids(p.tabs) \ {id})
  BY <1>1, WithoutTab
<1>3. (Ids(rest) = {} => shown = None) /\ (Ids(rest) # {} => shown \in Ids(rest)) /\ Ids(rest) # {}
  BY ShownWithoutOK
<1> HIDE DEF rest, shown
<1>4. r = [tabs |-> rest, shown |-> shown, history |-> p.history, at |-> p.at]
  <2>1. p \in Pane
    BY PaneFacts
  <2> QED
    BY <2>1, PaneWith
<1> HIDE DEF r
<1>5. InOrder(rest, Ids(rest)) /\ rest \in Seq(Tab) /\ \A n \in Ids(rest) : VaultOf[n] = v
  BY <1>1, <1>2 DEF InOrder
<1>6. PaneOK(r, v)
  BY <1>1, <1>3, <1>4, <1>5, PaneMade
<1>7. r.tabs # <<>>
  BY <1>3, <1>4, <1>5, TabList
<1> QED
  BY <1>6, <1>7 DEF r, rest, shown

(* Only the tabs in T are left: the one on display is (closeOtherTabs).    *)
LEMMA OthersClosedOK ==
    ASSUME NEW v, NEW p, PaneOK(p, v)
    PROVE  LET rest == Picked(p.tabs, {k \in DOMAIN p.tabs : p.tabs[k].pinned \/ p.tabs[k].id = p.shown})
               r == Synced(p, rest, Ids(p.tabs) \ Ids(rest), p.shown)
           IN  PaneOK(r, v) /\ OnCursor(r) /\ (p.tabs # <<>> => r.tabs # <<>>)
<1> DEFINE t == p.tabs
           I == {k \in DOMAIN t : t[k].pinned \/ t[k].id = p.shown}
           rest == Picked(t, I)
           r == Synced(p, rest, Ids(t) \ Ids(rest), p.shown)
<1>1. /\ t \in Seq(Tab) /\ InOrder(t, Ids(t))
      /\ Ids(t) = {} => p.shown = None
      /\ Ids(t) # {} => p.shown \in Ids(t)
      /\ Ids(t) \subseteq Note
  BY PaneFacts
<1>2. /\ rest \in Seq(Tab) /\ Ids(rest) = {t[i].id : i \in I \cap DOMAIN t}
      /\ Distinct(rest) /\ PinnedFirst(rest)
  <2> HIDE DEF I
  <2> QED
    BY <1>1, PickedTabs DEF InOrder
<1> HIDE DEF rest
<1>3. Ids(rest) \subseteq Ids(t) /\ InOrder(rest, Ids(rest))
  BY <1>2 DEF Ids, InOrder
<1>4. p.shown \in Ids(t) => p.shown \in Ids(rest)
  <2> SUFFICES ASSUME p.shown \in Ids(t) PROVE p.shown \in Ids(rest)
    OBVIOUS
  <2>1. PICK i \in DOMAIN t : t[i].id = p.shown
    BY DEF Ids
  <2>2. i \in I \cap DOMAIN t
    BY <2>1
  <2> HIDE DEF I
  <2> QED
    BY <2>1, <2>2, <1>2
<1>5. (Ids(rest) = {} => p.shown = None) /\ (Ids(rest) # {} => p.shown \in Ids(rest))
  BY <1>1, <1>3, <1>4
<1>6. PaneOK(r, v) /\ OnCursor(r) /\ r.tabs = rest
  BY <1>3, <1>5, SyncedOK
<1>7. t # <<>> => rest # <<>>
  BY <1>1, <1>2, <1>4, TabList
<1> HIDE DEF r
<1>8. PaneOK(r, v) /\ OnCursor(r) /\ (t # <<>> => r.tabs # <<>>)
  BY <1>6, <1>7
<1> QED
  BY <1>8 DEF r, rest

(* Going to an entry of the history shows it and loses at most the tab it  *)
(* takes over (shownAt).                                                   *)
LEMMA ShownAtOK ==
    ASSUME NEW v, NEW p, PaneOK(p, v), NEW k \in 1 .. Len(p.history)
    PROVE  LET r == ShownAt(p, k)
               id == p.history[k].id
           IN  /\ PaneOK(r, v) /\ OnCursor(r) /\ r.tabs # <<>>
               /\ r.shown = id /\ r.history = p.history /\ r.at = k /\ id \in Ids(r.tabs)
               /\ Ids(p.tabs) \ {p.shown} \subseteq Ids(r.tabs)
               /\ id \in Ids(p.tabs) => Ids(r.tabs) = Ids(p.tabs)
<1> DEFINE t == p.tabs
           h == p.history
           x == h[k]
           here == Find(t, p.shown)
           u == IF x.id \in Ids(t) THEN t
                ELSE IF here > 0 /\ ~t[here].pinned THEN SortPinned(ReplaceAt(t, here, x))
                ELSE SortPinned(Append(t, x))
           r == ShownAt(p, k)
<1>1. /\ p \in Pane /\ t \in Seq(Tab) /\ InOrder(t, Ids(t))
      /\ \A n \in Ids(t) : VaultOf[n] = v
      /\ HistoryOK(h, v) /\ Ids(t) \subseteq Note
  BY PaneFacts
<1>2. h \in Seq(Tab) /\ Len(h) \in Nat /\ DOMAIN h = 1 .. Len(h)
  BY <1>1, TabList DEF HistoryOK
<1>3. x \in Tab /\ x.id \in Ids(h)
  BY <1>2, TabList DEF Ids
<1>4. VaultOf[x.id] = v
  BY <1>1, <1>3 DEF HistoryOK
<1>5. r = [tabs |-> u, shown |-> x.id, history |-> h, at |-> k]
  <2>1. r = [p EXCEPT !.tabs = u, !.shown = x.id, !.at = k]
    BY DEF ShownAt
  <2> HIDE DEF u, x
  <2> QED
    BY <2>1, <1>1, PaneShowing
<1>6. /\ InOrder(u, Ids(u)) /\ x.id \in Ids(u) /\ Ids(u) \subseteq Ids(t) \cup {x.id}
      /\ Ids(t) \ {p.shown} \subseteq Ids(u)
      /\ x.id \in Ids(t) => Ids(u) = Ids(t)
  <2> HIDE DEF x
  <2>1. CASE x.id \in Ids(t)
    BY <2>1, <1>1
  <2>2. CASE x.id \notin Ids(t) /\ here > 0 /\ ~t[here].pinned
    <3>1. here \in DOMAIN t /\ t[here].id = p.shown
      BY <2>2, <1>1, FindTab
    <3> DEFINE q == ReplaceAt(t, here, x)
    <3>2. q \in Seq(Tab) /\ Distinct(q) /\ Ids(q) = (Ids(t) \ {p.shown}) \cup {x.id}
      <4> HIDE DEF t, here
      <4>1. q \in Seq(Tab) /\ Distinct(q) /\ Ids(q) = (Ids(t) \ {t[here].id}) \cup {x.id}
        BY <1>1, <1>3, <2>2, <3>1, ReplacedTab DEF InOrder
      <4> QED
        BY <4>1, <3>1
    <3>3. u = SortPinned(q)
      BY <2>2
    <3> HIDE DEF q, u
    <3>4. InOrder(u, Ids(q))
      BY <3>2, <3>3, SortedInOrder
    <3> QED
      BY <3>2, <3>4, <2>2 DEF InOrder
  <2>3. CASE x.id \notin Ids(t) /\ ~(here > 0 /\ ~t[here].pinned)
    <3> DEFINE q == Append(t, x)
    <3>2. q \in Seq(Tab) /\ Distinct(q) /\ Ids(q) = Ids(t) \cup {x.id}
      <4> HIDE DEF t
      <4> QED
        BY <1>1, <1>3, <2>3, AppendedTab DEF InOrder
    <3>3. u = SortPinned(q)
      BY <2>3
    <3> HIDE DEF q, u
    <3>4. InOrder(u, Ids(q))
      BY <3>2, <3>3, SortedInOrder
    <3> QED
      BY <3>2, <3>4, <2>3 DEF InOrder
  <2> QED
    BY <2>1, <2>2, <2>3
<1> HIDE DEF u
<1>7. \A n \in Ids(u) : VaultOf[n] = v
  BY <1>1, <1>4, <1>6
<1>8. k \in 0 .. Len(h) /\ k > 0
  BY <1>2
<1> HIDE DEF r, x, h, t
<1>9. PaneOK(r, v)
  BY <1>1, <1>5, <1>6, <1>7, <1>8, PaneMade
<1>10. r.shown = x.id /\ r.history = h /\ r.at = k /\ r.tabs = u
  BY <1>5
<1>11. OnCursor(r)
  BY <1>8, <1>10 DEF OnCursor, x
<1>12. r.tabs # <<>>
  <2>1. u \in Seq(Tab)
    BY <1>6 DEF InOrder
  <2> QED
    BY <2>1, <1>6, <1>10, TabList
<1> QED
  BY <1>6, <1>9, <1>10, <1>11, <1>12 DEF r, x, h, t

(* Back shows another tab, and Forward the tab that was showing, with all  *)
(* of the tabs there were (navigateBack, navigateForward).                 *)
LEMMA ThereAndBack ==
    ASSUME NEW v, NEW p, PaneOK(p, v), p.shown # None, OnCursor(p), p.at > 1
    PROVE  LET back == ShownAt(p, p.at - 1)
               forth == ShownAt(back, p.at)
           IN  back.shown # p.shown /\ forth.shown = p.shown /\ Ids(p.tabs) \subseteq Ids(forth.tabs)
<1> DEFINE h == p.history
           k == p.at
           back == ShownAt(p, k - 1)
           forth == ShownAt(back, k)
<1>1. HistoryOK(h, v) /\ k \in 0 .. Len(h) /\ h[k].id = p.shown
  BY PaneFacts DEF OnCursor
<1>2. Len(h) \in Nat
  BY <1>1, LenProperties DEF HistoryOK
<1>3. k \in 1 .. Len(h) /\ k - 1 \in 1 .. Len(h) /\ k - 1 \in 1 .. Len(h) - 1 /\ (k - 1) + 1 = k
  BY <1>1, <1>2
<1>4. h[k - 1].id # p.shown
  <2>1. h[k - 1].id # h[(k - 1) + 1].id
    BY <1>1, <1>3 DEF HistoryOK
  <2> QED
    BY <2>1, <1>1, <1>3
<1> DEFINE i == k - 1
<1>5. i \in 1 .. Len(p.history)
  BY <1>3
<1> HIDE DEF i
<1>6. LET r == ShownAt(p, i)
          id == p.history[i].id
      IN  /\ PaneOK(r, v) /\ OnCursor(r) /\ r.tabs # <<>>
          /\ r.shown = id /\ r.history = p.history /\ r.at = i /\ id \in Ids(r.tabs)
          /\ Ids(p.tabs) \ {p.shown} \subseteq Ids(r.tabs)
          /\ id \in Ids(p.tabs) => Ids(r.tabs) = Ids(p.tabs)
  <2> HIDE DEF back, forth, h, k
  <2> QED
    BY <1>5, ShownAtOK
<1>7. /\ PaneOK(back, v) /\ back.shown = h[k - 1].id /\ back.history = h
      /\ Ids(p.tabs) \ {p.shown} \subseteq Ids(back.tabs)
      /\ h[k - 1].id \in Ids(p.tabs) => Ids(back.tabs) = Ids(p.tabs)
  BY <1>6 DEF i
<1> HIDE DEF back
<1>8. k \in 1 .. Len(back.history)
  BY <1>3, <1>7
<1> HIDE DEF k
<1>9. LET r == ShownAt(back, k)
          id == back.history[k].id
      IN  /\ PaneOK(r, v) /\ OnCursor(r) /\ r.tabs # <<>>
          /\ r.shown = id /\ r.history = back.history /\ r.at = k /\ id \in Ids(r.tabs)
          /\ Ids(back.tabs) \ {back.shown} \subseteq Ids(r.tabs)
          /\ id \in Ids(back.tabs) => Ids(r.tabs) = Ids(back.tabs)
  <2> HIDE DEF forth, h
  <2>1. PaneOK(back, v)
    BY <1>7
  <2> QED
    BY <2>1, <1>8, ShownAtOK
<1>10. /\ forth.shown = p.shown /\ p.shown \in Ids(forth.tabs)
       /\ Ids(back.tabs) \ {back.shown} \subseteq Ids(forth.tabs)
       /\ p.shown \in Ids(back.tabs) => Ids(forth.tabs) = Ids(back.tabs)
  BY <1>1, <1>7, <1>9
<1> HIDE DEF forth
<1>11. Ids(p.tabs) \subseteq Ids(forth.tabs)
  <2>1. CASE h[k - 1].id \in Ids(p.tabs)
    <3>1. p.shown \in Ids(p.tabs)
      BY <2>1, PaneFacts
    <3> QED
      BY <2>1, <3>1, <1>7, <1>10
  <2>2. CASE h[k - 1].id \notin Ids(p.tabs)
    BY <2>2, <1>7, <1>10
  <2> QED
    BY <2>1, <2>2
<1>12. back.shown # p.shown
  BY <1>4, <1>7
<1> QED
  BY <1>10, <1>11, <1>12 DEF back, forth, k

(* A pane whose tabs are arranged anew.                                    *)
LEMMA ArrangedOK ==
    ASSUME NEW v, NEW p, PaneOK(p, v), NEW tabs, InOrder(tabs, Ids(p.tabs))
    PROVE  LET r == [p EXCEPT !.tabs = tabs]
           IN  PaneOK(r, v) /\ (OnCursor(p) => OnCursor(r)) /\ (p.tabs # <<>> => r.tabs # <<>>)
<1> DEFINE r == [p EXCEPT !.tabs = tabs]
<1>1. /\ p \in Pane /\ p.tabs \in Seq(Tab)
      /\ \A n \in Ids(p.tabs) : VaultOf[n] = v
      /\ HistoryOK(p.history, v) /\ p.at \in 0 .. Len(p.history)
      /\ Ids(p.tabs) = {} => p.shown = None
      /\ Ids(p.tabs) # {} => p.shown \in Ids(p.tabs)
  BY PaneFacts
<1>2. r = [tabs |-> tabs, shown |-> p.shown, history |-> p.history, at |-> p.at]
  BY <1>1, PaneWith
<1> HIDE DEF r
<1>3. Ids(tabs) = Ids(p.tabs) /\ tabs \in Seq(Tab) /\ InOrder(tabs, Ids(tabs))
  BY DEF InOrder
<1>4. PaneOK(r, v)
  BY <1>1, <1>2, <1>3, PaneMade
<1>5. OnCursor(p) => OnCursor(r)
  BY <1>2 DEF OnCursor
<1>6. p.tabs # <<>> => r.tabs # <<>>
  <2>1. r.tabs = tabs
    BY <1>2
  <2>2. Ids(p.tabs) = {} <=> p.tabs = <<>>
    BY <1>1, TabList
  <2>3. Ids(tabs) = {} <=> tabs = <<>>
    BY <1>3, TabList
  <2> QED
    BY <2>1, <2>2, <2>3, <1>3
<1> QED
  BY <1>4, <1>5, <1>6 DEF r

(* A tab is pinned or unpinned and the strip sorted (togglePin).           *)
LEMMA ToggledTabs ==
    ASSUME NEW t, InOrder(t, Ids(t)), NEW id
    PROVE  LET tabs == [k \in DOMAIN t |-> IF t[k].id = id THEN [t[k] EXCEPT !.pinned = ~@] ELSE t[k]]
           IN  InOrder(SortPinned(tabs), Ids(t))
<1> DEFINE tabs == [k \in DOMAIN t |-> IF t[k].id = id THEN [t[k] EXCEPT !.pinned = ~@] ELSE t[k]]
<1>1. /\ t \in Seq(Tab) /\ Distinct(t) /\ Len(t) \in Nat /\ DOMAIN t = 1 .. Len(t)
      /\ \A k \in DOMAIN t : t[k] \in Tab
  BY TabList DEF InOrder
<1>2. \A k \in DOMAIN t : tabs[k] \in Tab /\ tabs[k].id = t[k].id
  BY <1>1 DEF Tab
<1>3. tabs \in [1 .. Len(t) -> Tab]
  BY <1>1, <1>2
<1>4. tabs \in Seq(Tab) /\ DOMAIN tabs = DOMAIN t
  BY <1>1, <1>3, SeqDef
<1> HIDE DEF tabs
<1>5. Distinct(tabs)
  BY <1>1, <1>2, <1>4 DEF Distinct
<1>6. Ids(tabs) = Ids(t)
  BY <1>2, <1>4 DEF Ids
<1>7. InOrder(SortPinned(tabs), Ids(t))
  BY <1>4, <1>5, <1>6, SortedInOrder
<1> QED
  BY <1>7 DEF tabs

(* A tab opened in the background (openTabBackground).                     *)
LEMMA BackgroundOK ==
    ASSUME NEW v, NEW p, PaneOK(p, v), NEW n \in Note, VaultOf[n] = v
    PROVE  LET r == [p EXCEPT !.tabs = OpenedTabs(p, Fresh(n), FALSE),
                              !.shown = IF p.shown = None THEN n ELSE p.shown]
           IN  PaneOK(r, v) /\ (p.shown # None /\ OnCursor(p) => OnCursor(r)) /\ r.tabs # <<>>
<1> DEFINE u == OpenedTabs(p, Fresh(n), FALSE)
           s == IF p.shown = None THEN n ELSE p.shown
           r == [p EXCEPT !.tabs = u, !.shown = s]
<1> HIDE DEF u, s, r
<1>1. /\ p \in Pane /\ InOrder(p.tabs, Ids(p.tabs)) /\ Ids(p.tabs) \subseteq Note
      /\ \A m \in Ids(p.tabs) : VaultOf[m] = v
      /\ HistoryOK(p.history, v) /\ p.at \in 0 .. Len(p.history)
      /\ Ids(p.tabs) = {} => p.shown = None
      /\ Ids(p.tabs) # {} => p.shown \in Ids(p.tabs)
  <2>1. p \in Pane /\ InOrder(p.tabs, Ids(p.tabs)) /\ Ids(p.tabs) \subseteq Note
    BY PaneFacts
  <2>2. \A m \in Ids(p.tabs) : VaultOf[m] = v
    BY PaneFacts
  <2>3. HistoryOK(p.history, v) /\ p.at \in 0 .. Len(p.history)
    BY PaneFacts
  <2>4. (Ids(p.tabs) = {} => p.shown = None) /\ (Ids(p.tabs) # {} => p.shown \in Ids(p.tabs))
    BY PaneFacts
  <2> QED
    BY <2>1, <2>2, <2>3, <2>4
<1>2. Fresh(n) \in Tab /\ Fresh(n).id = n
  BY DEF Fresh, Tab
<1>3. /\ InOrder(u, Ids(u)) /\ n \in Ids(u) /\ Ids(u) \subseteq Ids(p.tabs) \cup {n}
      /\ Ids(p.tabs) \subseteq Ids(u)
  <2>1. /\ InOrder(u, Ids(u)) /\ Fresh(n).id \in Ids(u) /\ Ids(u) \subseteq Ids(p.tabs) \cup {Fresh(n).id}
        /\ ~FALSE => Ids(p.tabs) \subseteq Ids(u)
    BY <1>1, <1>2, TabOpened DEF u
  <2> QED
    BY <2>1, <1>2
<1>4. s \in Ids(u) /\ (p.shown # None => s = p.shown)
  BY <1>1, <1>3 DEF s
<1>5. r = [tabs |-> u, shown |-> s, history |-> p.history, at |-> p.at]
  BY <1>1, PaneWith DEF r
<1>6. PaneOK(r, v)
  <2>1. \A m \in Ids(u) : VaultOf[m] = v
    BY <1>1, <1>3
  <2>2. (Ids(u) = {} => s = None) /\ (Ids(u) # {} => s \in Ids(u))
    BY <1>4
  <2> QED
    BY <2>1, <2>2, <1>1, <1>3, <1>5, PaneMade
<1>7. p.shown # None /\ OnCursor(p) => OnCursor(r)
  BY <1>4, <1>5 DEF OnCursor
<1>8. r.tabs # <<>>
  <2>1. u \in Seq(Tab)
    BY <1>3 DEF InOrder
  <2> QED
    BY <2>1, <1>3, <1>5, TabList
<1> QED
  BY <1>6, <1>7, <1>8 DEF r, s, u

(* ---------------------------- layouts ----------------------------------- *)

(* One pane or two of the vault, the second not empty, and one of them     *)
(* active.                                                                 *)
LayoutOK(panes, active, v) ==
    /\ panes \in Seq(Pane) /\ Len(panes) \in 1 .. 2 /\ active \in 1 .. Len(panes)
    /\ Len(panes) = 2 => panes[2].tabs # <<>>
    /\ \A i \in 1 .. Len(panes) : PaneOK(panes[i], v)

OnCursors(panes) == \A i \in DOMAIN panes : OnCursor(panes[i])

(* The same, by part; then layouts of one pane, of two, and with one pane  *)
(* replaced.                                                               *)
LEMMA LayoutFacts ==
    ASSUME NEW panes, NEW active, NEW v, LayoutOK(panes, active, v)
    PROVE  /\ DOMAIN panes = 1 .. Len(panes) /\ Len(panes) \in 1 .. 2 /\ active \in 1 .. Len(panes)
           /\ \A i \in DOMAIN panes : PaneOK(panes[i], v)
           /\ panes \in Seq(Pane)
           /\ PaneOK(panes[1], v)
<1>1. panes \in Seq(Pane) /\ Len(panes) \in 1 .. 2 /\ active \in 1 .. Len(panes)
  BY DEF LayoutOK
<1>2. DOMAIN panes = 1 .. Len(panes)
  BY <1>1, LenProperties
<1>3. \A i \in 1 .. Len(panes) : PaneOK(panes[i], v)
  BY DEF LayoutOK
<1> QED
  BY <1>1, <1>2, <1>3

LEMMA OnePane ==
    ASSUME NEW v, NEW p, PaneOK(p, v)
    PROVE  LayoutOK(<<p>>, 1, v) /\ (OnCursor(p) => OnCursors(<<p>>))
<1> DEFINE s == <<p>>
<1>1. p \in Pane
  BY PaneFacts
<1>2. s \in Seq(Pane) /\ Len(s) = 1 /\ s[1] = p
  BY <1>1
<1> HIDE DEF s
<1>3. DOMAIN s = 1 .. 1
  BY <1>2, LenProperties
<1>4. \A i \in 1 .. 1 : s[i] = p
  BY <1>2
<1>5. LayoutOK(s, 1, v)
  BY <1>2, <1>4 DEF LayoutOK
<1>6. OnCursor(p) => OnCursors(s)
  BY <1>3, <1>4 DEF OnCursors
<1> QED
  BY <1>5, <1>6 DEF s

LEMMA TwoPanes ==
    ASSUME NEW v, NEW p, PaneOK(p, v), NEW q, PaneOK(q, v), q.tabs # <<>>, NEW active \in 1 .. 2
    PROVE  LayoutOK(<<p, q>>, active, v) /\ (OnCursor(p) /\ OnCursor(q) => OnCursors(<<p, q>>))
<1> DEFINE s == <<p, q>>
<1>1. p \in Pane /\ q \in Pane
  BY PaneFacts
<1>2. s \in Seq(Pane) /\ Len(s) = 2 /\ s[1] = p /\ s[2] = q
  BY <1>1
<1> HIDE DEF s
<1>3. DOMAIN s = 1 .. 2
  BY <1>2, LenProperties
<1>4. \A i \in 1 .. 2 : (i = 1 /\ s[i] = p) \/ (i = 2 /\ s[i] = q)
  BY <1>2
<1>5. LayoutOK(s, active, v)
  BY <1>2, <1>4 DEF LayoutOK
<1>6. OnCursor(p) /\ OnCursor(q) => OnCursors(s)
  BY <1>3, <1>4 DEF OnCursors
<1> QED
  BY <1>5, <1>6 DEF s

LEMMA PaneSet ==
    ASSUME NEW v, NEW panes, NEW active, LayoutOK(panes, active, v),
           NEW i \in 1 .. Len(panes), NEW p, PaneOK(p, v), panes[i].tabs # <<>> => p.tabs # <<>>,
           NEW now \in 1 .. Len(panes)
    PROVE  LET r == [panes EXCEPT ![i] = p]
           IN  LayoutOK(r, now, v) /\ (OnCursors(panes) /\ OnCursor(p) => OnCursors(r))
<1> DEFINE r == [panes EXCEPT ![i] = p]
<1>1. panes \in Seq(Pane) /\ p \in Pane /\ Len(panes) \in 1 .. 2
  BY PaneFacts, LayoutFacts
<1>2. /\ r \in Seq(Pane) /\ Len(r) = Len(panes)
      /\ \A j \in 1 .. Len(panes) : r[j] = IF j = i THEN p ELSE panes[j]
  BY <1>1, ExceptSeq
<1> HIDE DEF r
<1>3. DOMAIN r = 1 .. Len(panes) /\ DOMAIN panes = 1 .. Len(panes)
  BY <1>1, <1>2, LenProperties
<1>4. \A j \in 1 .. Len(panes) : PaneOK(r[j], v)
  BY <1>2 DEF LayoutOK
<1>5. Len(panes) = 2 => r[2].tabs # <<>>
  <2> SUFFICES ASSUME Len(panes) = 2 PROVE r[2].tabs # <<>>
    OBVIOUS
  <2>1. r[2] = IF 2 = i THEN p ELSE panes[2]
    BY <1>2
  <2>2. panes[2].tabs # <<>>
    BY DEF LayoutOK
  <2> QED
    BY <2>1, <2>2
<1>6. LayoutOK(r, now, v)
  BY <1>1, <1>2, <1>4, <1>5 DEF LayoutOK
<1>7. OnCursors(panes) /\ OnCursor(p) => OnCursors(r)
  BY <1>2, <1>3 DEF OnCursors
<1> QED
  BY <1>6, <1>7 DEF r

(* A second pane without tabs goes.                                        *)
LEMMA StandingOK ==
    ASSUME NEW v, NEW panes \in Seq(Pane), Len(panes) \in 1 .. 2,
           \A i \in 1 .. Len(panes) : PaneOK(panes[i], v)
    PROVE  LET r == Standing(panes)
           IN  /\ r \in Seq(Pane) /\ Len(r) \in 1 .. 2 /\ Len(r) <= Len(panes)
               /\ \A active \in 1 .. Len(r) : LayoutOK(r, active, v)
               /\ OnCursors(panes) => OnCursors(r)
               /\ r[1] = panes[1]
               /\ Len(panes) = 2 /\ panes[2].tabs # <<>> => r = panes
<1> DEFINE r == Standing(panes)
<1>1. DOMAIN panes = 1 .. Len(panes)
  BY LenProperties
<1>2. CASE Len(panes) = 2 /\ panes[2].tabs = <<>>
  <2>1. r = <<panes[1]>>
    BY <1>2 DEF Standing
  <2>2. PaneOK(panes[1], v)
    OBVIOUS
  <2>3. LayoutOK(r, 1, v) /\ (OnCursor(panes[1]) => OnCursors(r))
    BY <2>1, <2>2, OnePane
  <2>4. Len(r) = 1 /\ r[1] = panes[1]
    BY <2>1
  <2> HIDE DEF r
  <2>5. OnCursors(panes) => OnCursors(r)
    BY <2>3, <1>1, <1>2 DEF OnCursors
  <2>6. r \in Seq(Pane)
    BY <2>3 DEF LayoutOK
  <2>7. \A active \in 1 .. Len(r) : active = 1
    BY <2>4
  <2> QED
    BY <2>3, <2>4, <2>5, <2>6, <2>7, <1>2 DEF r
<1>3. CASE ~(Len(panes) = 2 /\ panes[2].tabs = <<>>)
  <2>1. r = panes
    BY <1>3 DEF Standing
  <2> HIDE DEF r
  <2>2. \A active \in 1 .. Len(r) : LayoutOK(r, active, v)
    BY <2>1, <1>3 DEF LayoutOK
  <2>3. Len(r) <= Len(panes)
    BY <2>1
  <2> QED
    BY <2>1, <2>2, <2>3 DEF r
<1> QED
  BY <1>2, <1>3

(* --------------------------- the record --------------------------------- *)

(* The layout of a vault that has none yet.                                *)
LEMMA BlankOK ==
    ASSUME NEW v
    PROVE  LayoutOK(Blank.panes, Blank.active, v) /\ Blank \in [panes: Seq(Pane), active: Nat]
<1>1. PaneOK(EmptyPane, v)
  BY EmptyPaneOK
<1>2. LayoutOK(<<EmptyPane>>, 1, v)
  BY <1>1, OnePane
<1>3. Blank.panes = <<EmptyPane>> /\ Blank.active = 1
  BY DEF Blank
<1>4. Blank \in [panes: Seq(Pane), active: Nat]
  <2>1. <<EmptyPane>> \in Seq(Pane)
    BY <1>2 DEF LayoutOK
  <2> HIDE DEF EmptyPane
  <2> QED
    BY <2>1 DEF Blank
<1> QED
  BY <1>2, <1>3, <1>4

(* The first of every tab that a list has more than once.                  *)
LEMMA FirstTabs ==
    ASSUME NEW t \in Seq(Tab), PinnedFirst(t)
    PROVE  LET once == {i \in DOMAIN t : \A j \in 1 .. i - 1 : t[j].id # t[i].id}
           IN  InOrder(Picked(t, once), Ids(t))
<1> DEFINE once == {i \in DOMAIN t : \A j \in 1 .. i - 1 : t[j].id # t[i].id}
           u == Picked(t, once)
<1>1. Len(t) \in Nat /\ DOMAIN t = 1 .. Len(t)
  BY TabList
<1>2. once \cap 1 .. Len(t) = once /\ once \cap DOMAIN t = once
  BY <1>1
<1>3. PICK pos : Places(pos, u, t, once)
  <2> HIDE DEF once
  <2> QED
    BY <1>2, PickedRight
<1>4. u \in Seq(Tab) /\ Ids(u) = {t[i].id : i \in once} /\ PinnedFirst(u)
  <2> HIDE DEF once
  <2>1. u \in Seq(Tab) /\ Ids(u) = {t[i].id : i \in once \cap DOMAIN t} /\ PinnedFirst(u)
    BY PickedTabs
  <2> QED
    BY <2>1, <1>2
<1> HIDE DEF u
<1>5. DOMAIN u = 1 .. Len(u) /\ Len(u) \in Nat
  BY <1>4, TabList
<1>6. Distinct(u)
  <2> SUFFICES ASSUME NEW k \in 1 .. Len(u), NEW l \in 1 .. Len(u), u[k].id = u[l].id, k < l PROVE FALSE
    BY <1>5 DEF Distinct
  <2> DEFINE i == pos[k]
             j == pos[l]
  <2>1. i \in once /\ j \in once /\ i < j /\ u[k] = t[i] /\ u[l] = t[j]
    <3> HIDE DEF once
    <3> QED
      BY <1>3 DEF Places
  <2> HIDE DEF i, j
  <2>2. i \in 1 .. j - 1
    BY <2>1, <1>1
  <2> QED
    BY <2>1, <2>2
<1>7. Ids(u) = Ids(t)
  <2>1. ASSUME NEW k \in DOMAIN t PROVE \E i \in once : t[i].id = t[k].id
    <3> DEFINE same == {i \in 1 .. Len(t) : t[i].id = t[k].id}
    <3>1. same \in SUBSET Nat /\ same # {}
      BY <1>1
    <3>2. PICK i \in same : \A j \in same : i <= j
      BY <3>1, LeastNumber
    <3>3. i \in once
      <4>1. i \in 1 .. Len(t) /\ t[i].id = t[k].id
        BY <3>2
      <4>2. ASSUME NEW j \in 1 .. i - 1 PROVE t[j].id # t[i].id
        <5>1. j \in 1 .. Len(t) /\ ~(i <= j)
          BY <4>1, <1>1
        <5> QED
          BY <5>1, <4>1, <3>2
      <4> QED
        BY <4>1, <4>2, <1>1
    <3> QED
      BY <3>2, <3>3
  <2>2. \A i \in once : i \in DOMAIN t
    OBVIOUS
  <2> HIDE DEF once
  <2> QED
    BY <2>1, <2>2, <1>4 DEF Ids
<1>8. InOrder(u, Ids(t))
  BY <1>4, <1>6, <1>7 DEF InOrder
<1> QED
  BY <1>8 DEF u

(* A layout that is read is in order, whoever left it (merge).             *)
LEMMA MergedOK ==
    ASSUME NEW l, NEW v, OldLayout(l, v)
    PROVE  LayoutOK(Merge(l).panes, Merge(l).active, v)
<1> DEFINE first(t) == Picked(t, {i \in DOMAIN t : \A j \in 1 .. i - 1 : t[j].id # t[i].id})
           clamped(p) == IF p.at > Len(p.history) THEN Len(p.history) ELSE p.at
           merged(p) == [p EXCEPT !.tabs = first(p.tabs), !.at = clamped(p)]
           panes == [i \in DOMAIN l.panes |-> merged(l.panes[i])]
<1>1. /\ l \in [panes: Seq(Pane), active: Nat]
      /\ Len(l.panes) \in 1 .. 2 /\ l.active \in 1 .. Len(l.panes)
      /\ Len(l.panes) = 2 => l.panes[2].tabs # <<>>
      /\ \A i \in 1 .. Len(l.panes) : OldPane(l.panes[i], v)
  BY DEF OldLayout
<1>2. Merge(l) = [l EXCEPT !.panes = panes]
  BY DEF Merge
<1>3. l.panes \in Seq(Pane) /\ DOMAIN l.panes = 1 .. Len(l.panes)
  BY <1>1, LenProperties
<1>4. ASSUME NEW p, OldPane(p, v)
      PROVE  PaneOK(merged(p), v) /\ (p.tabs # <<>> => merged(p).tabs # <<>>)
  <2> DEFINE t == p.tabs
             s == p.shown
             h == p.history
             u == first(t)
             k == clamped(p)
             r == merged(p)
  <2>1. /\ p \in Pane /\ PinnedFirst(t)
        /\ IF t = <<>> THEN s = None ELSE s \in Ids(t)
        /\ \A n \in Ids(t) \cup Ids(h) : VaultOf[n] = v
        /\ \A i \in 1 .. Len(h) - 1 : h[i].id # h[i + 1].id
    BY <1>4 DEF OldPane
  <2>2. t \in Seq(Tab) /\ h \in Seq(Tab) /\ p.at \in Nat
    BY <2>1 DEF Pane
  <2>3. InOrder(u, Ids(t))
    BY <2>1, <2>2, FirstTabs
  <2>4. k \in 0 .. Len(h)
    <3>1. Len(h) \in Nat
      BY <2>2, LenProperties
    <3> QED
      BY <3>1, <2>2
  <2>5. HistoryOK(h, v)
    BY <2>1, <2>2 DEF HistoryOK
  <2>6. r = [tabs |-> u, shown |-> s, history |-> h, at |-> k]
    <3> DEFINE q == [p EXCEPT !.tabs = u]
    <3> HIDE DEF u, k
    <3>1. q = [tabs |-> u, shown |-> s, history |-> h, at |-> p.at]
      BY <2>1, PaneWith
    <3>2. r = [q EXCEPT !.at = k]
      BY <2>1 DEF u, k, Pane
    <3> DEFINE at == p.at
    <3>3. q = [tabs |-> u, shown |-> s, history |-> h, at |-> at]
      BY <3>1
    <3> HIDE DEF q, s, h, at
    <3>4. [q EXCEPT !.at = k] = [tabs |-> u, shown |-> s, history |-> h, at |-> k]
      BY <3>3
    <3> HIDE DEF r
    <3> QED
      BY <3>2, <3>4
  <2> HIDE DEF r, u, k
  <2>7. Ids(u) = Ids(t) /\ InOrder(u, Ids(u)) /\ u \in Seq(Tab)
    BY <2>3 DEF InOrder
  <2>8. Ids(t) = {} <=> t = <<>>
    BY <2>2, TabList
  <2>9. PaneOK(r, v)
    BY <2>1, <2>4, <2>5, <2>6, <2>7, <2>8, PaneMade
  <2>10. t # <<>> => r.tabs # <<>>
    <3>1. Ids(u) = {} <=> u = <<>>
      BY <2>7, TabList
    <3> QED
      BY <3>1, <2>6, <2>7, <2>8
  <2> QED
    BY <2>9, <2>10 DEF r
<1>5. \A i \in 1 .. Len(l.panes) :
          panes[i] = merged(l.panes[i]) /\ PaneOK(panes[i], v) /\ (l.panes[i].tabs # <<>> => panes[i].tabs # <<>>)
  <2> SUFFICES ASSUME NEW i \in 1 .. Len(l.panes)
               PROVE  /\ panes[i] = merged(l.panes[i]) /\ PaneOK(panes[i], v)
                      /\ (l.panes[i].tabs # <<>> => panes[i].tabs # <<>>)
    OBVIOUS
  <2>1. panes[i] = merged(l.panes[i])
    BY <1>3
  <2>2. OldPane(l.panes[i], v)
    BY <1>1
  <2> HIDE DEF panes, merged
  <2> QED
    BY <2>1, <2>2, <1>4
<1>6. DOMAIN panes = 1 .. Len(l.panes)
  BY <1>3
<1> HIDE DEF panes, merged
<1>7. panes \in Seq(Pane) /\ Len(panes) = Len(l.panes)
  <2>1. \A i \in 1 .. Len(l.panes) : panes[i] \in Pane
    BY <1>5, PaneFacts
  <2>2. panes = [i \in 1 .. Len(l.panes) |-> panes[i]]
    BY <1>6 DEF panes
  <2>3. panes \in [1 .. Len(l.panes) -> Pane]
    BY <2>1, <2>2
  <2>4. panes \in Seq(Pane)
    BY <2>3, <1>1, SeqDef
  <2>5. DOMAIN panes = 1 .. Len(panes) /\ Len(panes) \in Nat
    BY <2>4, LenProperties
  <2>6. 1 .. Len(panes) = 1 .. Len(l.panes)
    BY <2>5, <1>6
  <2>7. Len(panes) = Len(l.panes)
    <3>1. CASE Len(l.panes) = 1
      <4>1. 1 \in 1 .. Len(panes) /\ 2 \notin 1 .. Len(panes)
        BY <3>1, <2>6
      <4> QED
        BY <4>1, <3>1, <2>5
    <3>2. CASE Len(l.panes) = 2
      <4>1. 2 \in 1 .. Len(panes) /\ 3 \notin 1 .. Len(panes)
        BY <3>2, <2>6
      <4> QED
        BY <4>1, <3>2, <2>5
    <3> QED
      BY <3>1, <3>2, <1>1
  <2> QED
    BY <2>4, <2>7
<1>8. Merge(l).panes = panes /\ Merge(l).active = l.active
  BY <1>1, <1>2
<1>9. LayoutOK(panes, l.active, v)
  <2>1. Len(panes) = 2 => panes[2].tabs # <<>>
    BY <1>1, <1>5, <1>7
  <2> QED
    BY <2>1, <1>1, <1>5, <1>7 DEF LayoutOK
<1> QED
  BY <1>8, <1>9

(* What this build stores would do as the layout of an older one.          *)
LEMMA KeptIsOld ==
    ASSUME NEW l \in [panes: Seq(Pane), active: Nat], NEW v, LayoutOK(l.panes, l.active, v)
    PROVE  OldLayout(l, v)
BY DEF LayoutOK, OldLayout, PaneOK

(* ------------------------- what a window does --------------------------- *)

(* The panes that the window has on screen.                                *)
Ordered(w) == LayoutOK(Panes(w), Active(w), store[w].vault)

(* The window's panes become others that are in order ...                  *)
Moves(w) == \E panes, active : KeepPanes(w, panes, active) /\ LayoutOK(panes, active, store[w].vault)

(* ... with their cursors on what they show, if they were.                 *)
Follows(w) ==
    \E panes, active :
        /\ KeepPanes(w, panes, active) /\ LayoutOK(panes, active, store[w].vault)
        /\ OnCursors(Panes(w)) => OnCursors(panes)

(* An operation that changes one pane and may change which is active.      *)
LEMMA OneIsSet ==
    ASSUME NEW w, Ordered(w), NEW i \in DOMAIN Panes(w), NEW p, PaneOK(p, store[w].vault),
           Panes(w)[i].tabs # <<>> => p.tabs # <<>>, NEW now \in DOMAIN Panes(w),
           KeepPanes(w, [Panes(w) EXCEPT ![i] = p], now)
    PROVE  Moves(w) /\ ((OnCursor(Panes(w)[i]) => OnCursor(p)) => Follows(w))
<1> DEFINE r == [Panes(w) EXCEPT ![i] = p]
           v == store[w].vault
<1>1. i \in 1 .. Len(Panes(w)) /\ now \in 1 .. Len(Panes(w))
  BY LayoutFacts DEF Ordered
<1>2. LayoutOK(r, now, v) /\ (OnCursors(Panes(w)) /\ OnCursor(p) => OnCursors(r))
  BY <1>1, PaneSet DEF Ordered
<1>3. KeepPanes(w, r, now)
  OBVIOUS
<1> HIDE DEF r
<1>4. Moves(w)
  BY <1>2, <1>3 DEF Moves
<1>5. ASSUME OnCursor(Panes(w)[i]) => OnCursor(p)
      PROVE  Follows(w)
  <2>1. OnCursors(Panes(w)) => OnCursors(r)
    BY <1>2, <1>5 DEF OnCursors
  <2> QED
    BY <2>1, <1>2, <1>3 DEF Follows
<1> QED
  BY <1>4, <1>5

(* The operations that open a tab: in the active pane, beside it, in the   *)
(* background.                                                             *)
LEMMA OpenedFollows ==
    ASSUME NEW w, Ordered(w), NEW tab \in Tab, VaultOf[tab.id] = store[w].vault, NEW i \in DOMAIN Panes(w),
           NEW replace,
           KeepPanes(w, [Panes(w) EXCEPT ![i] =
               Recorded(Panes(w)[i], tab, OpenedTabs(Panes(w)[i], tab, replace))], i)
    PROVE  Follows(w)
<1> DEFINE p == Panes(w)[i]
           v == store[w].vault
           u == OpenedTabs(p, tab, replace)
           r == Recorded(p, tab, u)
<1>1. PaneOK(p, v)
  BY LayoutFacts DEF Ordered
<1>2. InOrder(p.tabs, Ids(p.tabs)) /\ \A n \in Ids(p.tabs) : VaultOf[n] = v
  BY <1>1, PaneFacts
<1>3. InOrder(u, Ids(u)) /\ tab.id \in Ids(u) /\ Ids(u) \subseteq Ids(p.tabs) \cup {tab.id}
  BY <1>2, TabOpened
<1>4. KeepPanes(w, [Panes(w) EXCEPT ![i] = r], i)
  OBVIOUS
<1> HIDE DEF u
<1>5. \A n \in Ids(u) : VaultOf[n] = v
  BY <1>2, <1>3
<1>6. PaneOK(r, v) /\ OnCursor(r) /\ r.tabs = u
  BY <1>1, <1>3, <1>5, RecordedOK
<1>7. u # <<>>
  BY <1>3, TabList DEF InOrder
<1> HIDE DEF r, p
<1> QED
  BY <1>4, <1>6, <1>7, OneIsSet

LEMMA FreshTab ==
    ASSUME NEW n \in Note
    PROVE  Fresh(n) \in Tab /\ Fresh(n).id = n
BY DEF Fresh, Tab

LEMMA OpenFollows ==
    ASSUME NEW w, Ordered(w), NEW n \in Note, VaultOf[n] = store[w].vault, NEW replace,
           Opened(w, Fresh(n), replace)
    PROVE  Follows(w)
<1> DEFINE tab == Fresh(n)
           i == Active(w)
<1>1. tab \in Tab /\ VaultOf[tab.id] = store[w].vault
  BY FreshTab
<1>2. i \in DOMAIN Panes(w)
  BY LayoutFacts DEF Ordered
<1>3. KeepPanes(w, [Panes(w) EXCEPT ![i] =
               Recorded(Panes(w)[i], tab, OpenedTabs(Panes(w)[i], tab, replace))], i)
  BY DEF Opened, KeepPane
<1> HIDE DEF tab, i
<1> QED
  BY <1>1, <1>2, <1>3, OpenedFollows

LEMMA BesideFollows ==
    ASSUME NEW w, Ordered(w), NEW n \in Note, VaultOf[n] = store[w].vault, NEW from \in DOMAIN Panes(w),
           OpenNoteBeside(w, n, from)
    PROVE  Follows(w)
<1> DEFINE tab == Fresh(n)
           v == store[w].vault
           beside == IF from = 1 THEN 2 ELSE 1
<1>1. tab \in Tab /\ VaultOf[tab.id] = v
  BY FreshTab
<1>2. DOMAIN Panes(w) = 1 .. Len(Panes(w)) /\ Len(Panes(w)) \in 1 .. 2 /\ PaneOK(Panes(w)[1], v)
  BY LayoutFacts DEF Ordered
<1>3. CASE Len(Panes(w)) = 1
  <2> DEFINE r == <<Panes(w)[1], NewPane(tab)>>
             q == Panes(w)[1]
  <2>1. KeepPanes(w, r, 2)
    BY <1>3 DEF OpenNoteBeside
  <2>2. PaneOK(NewPane(tab), v) /\ OnCursor(NewPane(tab)) /\ NewPane(tab).tabs # <<>>
    BY <1>1, NewPaneOK
  <2>3. LayoutOK(r, 2, v) /\ (OnCursor(q) => OnCursors(r))
    BY <1>2, <2>2, TwoPanes
  <2>4. OnCursors(Panes(w)) => OnCursor(q)
    BY <1>2, <1>3 DEF OnCursors
  <2> HIDE DEF r
  <2> QED
    BY <2>1, <2>3, <2>4 DEF Follows
<1>4. CASE Len(Panes(w)) # 1
  <2>1. beside \in DOMAIN Panes(w)
    BY <1>2, <1>4
  <2>2. KeepPanes(w, [Panes(w) EXCEPT ![beside] =
            Recorded(Panes(w)[beside], tab, OpenedTabs(Panes(w)[beside], tab, FALSE))], beside)
    BY <1>4 DEF OpenNoteBeside
  <2> HIDE DEF beside, tab
  <2> QED
    BY <1>1, <2>1, <2>2, OpenedFollows
<1> QED
  BY <1>3, <1>4

LEMMA BackgroundMoves ==
    ASSUME NEW w, Ordered(w), NEW n \in Note, VaultOf[n] = store[w].vault, OpenTabBackground(w, n)
    PROVE  Moves(w) /\ (Panes(w)[Active(w)].shown # None => Follows(w))
<1> DEFINE i == Active(w)
           p == Panes(w)[i]
           v == store[w].vault
           r == [p EXCEPT !.tabs = OpenedTabs(p, Fresh(n), FALSE),
                          !.shown = IF p.shown = None THEN n ELSE p.shown]
<1>1. i \in DOMAIN Panes(w) /\ PaneOK(p, v)
  BY LayoutFacts DEF Ordered
<1>2. KeepPanes(w, [Panes(w) EXCEPT ![i] = r], i)
  BY DEF OpenTabBackground, KeepPane
<1>3. PaneOK(r, v) /\ (p.shown # None /\ OnCursor(p) => OnCursor(r)) /\ r.tabs # <<>>
  BY <1>1, BackgroundOK
<1> HIDE DEF r
<1>4. Moves(w) /\ ((OnCursor(p) => OnCursor(r)) => Follows(w))
  BY <1>1, <1>2, <1>3, OneIsSet
<1> QED
  BY <1>3, <1>4

(* Those that close tabs.                                                  *)
LEMMA CloseFollows ==
    ASSUME NEW w, Ordered(w), NEW id, NEW i, CloseTab(w, id, i)
    PROVE  Follows(w)
<1> DEFINE v == store[w].vault
           Stays(p) == id \notin Ids(p.tabs) \/ p.tabs[Find(p.tabs, id)].pinned
           closed(j) == IF i \notin {0, j} \/ Stays(Panes(w)[j]) THEN Panes(w)[j] ELSE Dropped(Panes(w)[j], id)
           all == [j \in DOMAIN Panes(w) |-> closed(j)]
           panes == Standing(all)
           active == IF Active(w) > Len(panes) THEN Len(panes) ELSE Active(w)
<1>1. /\ DOMAIN Panes(w) = 1 .. Len(Panes(w)) /\ Len(Panes(w)) \in 1 .. 2 /\ Active(w) \in 1 .. Len(Panes(w))
      /\ \A j \in DOMAIN Panes(w) : PaneOK(Panes(w)[j], v)
  BY LayoutFacts DEF Ordered
<1>2. KeepPanes(w, panes, active)
  BY DEF CloseTab
<1>3. \A j \in DOMAIN Panes(w) :
          PaneOK(closed(j), v) /\ (OnCursor(Panes(w)[j]) => OnCursor(closed(j)))
  <2> SUFFICES ASSUME NEW j \in DOMAIN Panes(w)
               PROVE  PaneOK(closed(j), v) /\ (OnCursor(Panes(w)[j]) => OnCursor(closed(j)))
    OBVIOUS
  <2> DEFINE p == Panes(w)[j]
  <2>1. PaneOK(p, v)
    BY <1>1
  <2>2. CASE i \notin {0, j} \/ Stays(p)
    BY <2>1, <2>2
  <2>3. CASE ~(i \notin {0, j} \/ Stays(p))
    <3>1. id \in Ids(p.tabs)
      BY <2>3
    <3>2. PaneOK(Dropped(p, id), v) /\ OnCursor(Dropped(p, id))
      BY <2>1, <3>1, DroppedOK
    <3>3. closed(j) = Dropped(p, id)
      BY <2>3
    <3> QED
      BY <3>2, <3>3
  <2> HIDE DEF closed, Stays
  <2> QED
    BY <2>2, <2>3
<1>4. \A j \in DOMAIN Panes(w) : all[j] = closed(j)
  OBVIOUS
<1>5. DOMAIN all = 1 .. Len(Panes(w))
  BY <1>1
<1> HIDE DEF closed
<1>6. all \in Seq(Pane) /\ DOMAIN all = 1 .. Len(all)
  <2>1. \A j \in 1 .. Len(Panes(w)) : all[j] \in Pane
    BY <1>1, <1>3, <1>4, PaneFacts
  <2>2. all = [j \in 1 .. Len(Panes(w)) |-> all[j]]
    BY <1>1
  <2> HIDE DEF all
  <2>3. all \in [1 .. Len(Panes(w)) -> Pane]
    BY <2>1, <2>2
  <2>4. all \in Seq(Pane)
    BY <2>3, <1>1, SeqDef
  <2> QED
    BY <2>4, LenProperties
<1> HIDE DEF all
<1>7. Len(all) \in 1 .. 2
  <2> DEFINE n == Len(all)
             m == Len(Panes(w))
  <2>1. n \in Nat /\ 1 .. n = 1 .. m
    BY <1>5, <1>6, LenProperties
  <2>2. 1 \in 1 .. m /\ 3 \notin 1 .. m
    BY <1>1
  <2> HIDE DEF n, m
  <2>3. 1 \in 1 .. n /\ 3 \notin 1 .. n
    BY <2>1, <2>2
  <2>4. n \in 1 .. 2
    BY <2>1, <2>3
  <2> QED
    BY <2>4 DEF n
<1>8. \A j \in 1 .. Len(all) : PaneOK(all[j], v)
  BY <1>1, <1>3, <1>4, <1>5, <1>6
<1>9. /\ Len(panes) \in 1 .. 2 /\ \A a \in 1 .. Len(panes) : LayoutOK(panes, a, v)
      /\ OnCursors(all) => OnCursors(panes)
  BY <1>6, <1>7, <1>8, StandingOK
<1> HIDE DEF panes
<1>10. active \in 1 .. Len(panes)
  <2> DEFINE n == Len(panes)
             a == Active(w)
  <2>1. n \in 1 .. 2 /\ a \in 1 .. 2
    BY <1>1, <1>9
  <2> HIDE DEF n, a
  <2>2. (IF a > n THEN n ELSE a) \in 1 .. n
    BY <2>1
  <2> QED
    BY <2>2 DEF n, a
<1> HIDE DEF active
<1>11. OnCursors(Panes(w)) => OnCursors(all)
  BY <1>1, <1>3, <1>4, <1>5 DEF OnCursors
<1> QED
  BY <1>2, <1>9, <1>10, <1>11 DEF Follows

LEMMA CloseOthersFollows ==
    ASSUME NEW w, Ordered(w), CloseOtherTabs(w)
    PROVE  Follows(w)
<1> DEFINE i == Active(w)
           p == Panes(w)[i]
           v == store[w].vault
           rest == Picked(p.tabs, {k \in DOMAIN p.tabs : p.tabs[k].pinned \/ p.tabs[k].id = p.shown})
           r == Synced(p, rest, Ids(p.tabs) \ Ids(rest), p.shown)
<1>1. i \in DOMAIN Panes(w) /\ PaneOK(p, v)
  BY LayoutFacts DEF Ordered
<1>2. KeepPanes(w, [Panes(w) EXCEPT ![i] = r], i)
  BY DEF CloseOtherTabs, KeepPane
<1>3. PaneOK(r, v) /\ OnCursor(r) /\ (p.tabs # <<>> => r.tabs # <<>>)
  BY <1>1, OthersClosedOK
<1> HIDE DEF r
<1> QED
  BY <1>1, <1>2, <1>3, OneIsSet

(* Those that go to a tab or a pane.                                       *)
LEMMA ActiveFollows ==
    ASSUME NEW w, Ordered(w), NEW i \in DOMAIN Panes(w), NEW id, SetActiveTab(w, id, i)
    PROVE  Follows(w)
<1> DEFINE p == Panes(w)[i]
           v == store[w].vault
           tab == p.tabs[Find(p.tabs, id)]
           r == Recorded(p, tab, p.tabs)
<1>1. PaneOK(p, v)
  BY LayoutFacts DEF Ordered
<1>2. id \in Ids(p.tabs) /\ KeepPanes(w, [Panes(w) EXCEPT ![i] = r], i)
  BY DEF SetActiveTab
<1>3. tab \in Tab /\ tab.id = id
  BY <1>1, <1>2, TabThere
<1>4. InOrder(p.tabs, Ids(p.tabs)) /\ \A n \in Ids(p.tabs) : VaultOf[n] = v
  BY <1>1, PaneFacts
<1> HIDE DEF tab
<1>5. PaneOK(r, v) /\ OnCursor(r) /\ r.tabs = p.tabs
  BY <1>1, <1>2, <1>3, <1>4, RecordedOK
<1> HIDE DEF r
<1> QED
  BY <1>1, <1>2, <1>5, OneIsSet

LEMMA RelativeFollows ==
    ASSUME NEW w, Ordered(w), NEW dir, GoToRelativeTab(w, dir)
    PROVE  Follows(w)
<1>1. \E id : SetActiveTab(w, id, Active(w))
  BY DEF GoToRelativeTab
<1>2. Active(w) \in DOMAIN Panes(w)
  BY LayoutFacts DEF Ordered
<1> QED
  BY <1>1, <1>2, ActiveFollows

LEMMA FocusFollows ==
    ASSUME NEW w, Ordered(w), NEW i \in DOMAIN Panes(w), SetActivePane(w, i)
    PROVE  Follows(w)
<1>1. KeepPanes(w, Panes(w), i)
  BY DEF SetActivePane
<1>2. LayoutOK(Panes(w), i, store[w].vault)
  BY LayoutFacts DEF Ordered, LayoutOK
<1> QED
  BY <1>1, <1>2 DEF Follows

(* A pane more and a pane less.                                            *)
LEMMA SplitFollows ==
    ASSUME NEW w, Ordered(w), SplitRight(w)
    PROVE  Follows(w)
<1> DEFINE p == Panes(w)[1]
           v == store[w].vault
           tab == p.tabs[Find(p.tabs, p.shown)]
           r == <<p, NewPane(tab)>>
<1>1. DOMAIN Panes(w) = 1 .. Len(Panes(w)) /\ PaneOK(p, v)
  BY LayoutFacts DEF Ordered
<1>2. Len(Panes(w)) = 1 /\ p.shown # None /\ KeepPanes(w, r, 2)
  BY DEF SplitRight
<1>3. p.shown \in Ids(p.tabs)
  BY <1>1, <1>2, PaneFacts
<1>4. tab \in Tab /\ VaultOf[tab.id] = v
  BY <1>1, <1>3, TabThere
<1> HIDE DEF tab
<1>5. PaneOK(NewPane(tab), v) /\ OnCursor(NewPane(tab)) /\ NewPane(tab).tabs # <<>>
  BY <1>4, NewPaneOK
<1>6. LayoutOK(r, 2, v) /\ (OnCursor(p) => OnCursors(r))
  BY <1>1, <1>5, TwoPanes
<1>7. OnCursors(Panes(w)) => OnCursor(p)
  BY <1>1, <1>2 DEF OnCursors
<1> HIDE DEF r
<1> QED
  BY <1>2, <1>6, <1>7 DEF Follows

LEMMA ClosePaneFollows ==
    ASSUME NEW w, Ordered(w), NEW i \in DOMAIN Panes(w), ClosePane(w, i)
    PROVE  Follows(w)
<1> DEFINE v == store[w].vault
           k == 3 - i
           p == Panes(w)[k]
<1>1. DOMAIN Panes(w) = 1 .. Len(Panes(w)) /\ \A j \in DOMAIN Panes(w) : PaneOK(Panes(w)[j], v)
  BY LayoutFacts DEF Ordered
<1>2. Len(Panes(w)) = 2 /\ KeepPanes(w, <<p>>, 1)
  BY DEF ClosePane
<1>3. k \in DOMAIN Panes(w)
  BY <1>1, <1>2
<1>4. PaneOK(p, v)
  BY <1>1, <1>3
<1>5. LayoutOK(<<p>>, 1, v) /\ (OnCursor(p) => OnCursors(<<p>>))
  BY <1>4, OnePane
<1>6. OnCursors(Panes(w)) => OnCursor(p)
  BY <1>3 DEF OnCursors
<1> HIDE DEF p
<1> QED
  BY <1>2, <1>5, <1>6 DEF Follows

(* A tab is pinned.                                                        *)
LEMMA PinFollows ==
    ASSUME NEW w, Ordered(w), NEW i \in DOMAIN Panes(w), NEW id, TogglePin(w, id, i)
    PROVE  Follows(w)
<1> DEFINE p == Panes(w)[i]
           v == store[w].vault
           toggled == [k \in DOMAIN p.tabs |->
                          IF p.tabs[k].id = id THEN [p.tabs[k] EXCEPT !.pinned = ~@] ELSE p.tabs[k]]
           tabs == SortPinned(toggled)
           r == [p EXCEPT !.tabs = tabs]
<1>1. PaneOK(p, v) /\ Active(w) \in DOMAIN Panes(w)
  BY LayoutFacts DEF Ordered
<1>2. KeepPanes(w, [Panes(w) EXCEPT ![i] = r], Active(w))
  BY DEF TogglePin, KeepPane
<1>3. InOrder(p.tabs, Ids(p.tabs))
  BY <1>1, PaneFacts
<1>4. InOrder(tabs, Ids(p.tabs))
  BY <1>3, ToggledTabs
<1> HIDE DEF tabs
<1>5. PaneOK(r, v) /\ (OnCursor(p) => OnCursor(r)) /\ (p.tabs # <<>> => r.tabs # <<>>)
  BY <1>1, <1>4, ArrangedOK
<1> HIDE DEF r
<1> QED
  BY <1>1, <1>2, <1>5, OneIsSet

(* Back and Forward alike.                                                 *)
LEMMA WalkFollows ==
    ASSUME NEW w, Ordered(w), NEW i \in DOMAIN Panes(w), NEW k \in 1 .. Len(Panes(w)[i].history),
           KeepPane(w, i, ShownAt(Panes(w)[i], k))
    PROVE  Follows(w)
<1> DEFINE p == Panes(w)[i]
           v == store[w].vault
           r == ShownAt(p, k)
<1>1. PaneOK(p, v) /\ Active(w) \in DOMAIN Panes(w)
  BY LayoutFacts DEF Ordered
<1>2. KeepPanes(w, [Panes(w) EXCEPT ![i] = r], Active(w))
  BY DEF KeepPane
<1>3. PaneOK(r, v) /\ OnCursor(r) /\ r.tabs # <<>>
  BY <1>1, ShownAtOK
<1> HIDE DEF r
<1> QED
  BY <1>1, <1>2, <1>3, OneIsSet

(* The cursor is inside the history, so each has an entry to go to.        *)
LEMMA BackFollows ==
    ASSUME NEW w, Ordered(w), NEW i \in DOMAIN Panes(w), NavigateBack(w, i) \/ NavigateForward(w, i)
    PROVE  Follows(w)
<1> DEFINE p == Panes(w)[i]
<1>1. Len(p.history) \in Nat /\ p.at \in 0 .. Len(p.history)
  <2>1. PaneOK(p, store[w].vault)
    BY LayoutFacts DEF Ordered
  <2>2. p.history \in Seq(Tab) /\ p.at \in 0 .. Len(p.history)
    BY <2>1, PaneFacts DEF HistoryOK
  <2> QED
    BY <2>2, LenProperties
<1>2. CASE NavigateBack(w, i)
  <2>1. p.at > 1 /\ KeepPane(w, i, ShownAt(p, p.at - 1))
    BY <1>2 DEF NavigateBack
  <2>2. p.at - 1 \in 1 .. Len(p.history)
    BY <1>1, <2>1
  <2> QED
    BY <2>1, <2>2, WalkFollows
<1>3. CASE NavigateForward(w, i)
  <2>1. p.at < Len(p.history) /\ KeepPane(w, i, ShownAt(p, p.at + 1))
    BY <1>3 DEF NavigateForward
  <2>2. p.at + 1 \in 1 .. Len(p.history)
    BY <1>1, <2>1
  <2> QED
    BY <2>1, <2>2, WalkFollows
<1> QED
  BY <1>2, <1>3

(* Drags: within a strip, to the other pane, and to an edge of the only    *)
(* one.                                                                    *)
LEMMA ReorderFollows ==
    ASSUME NEW w, Ordered(w), NEW i \in DOMAIN Panes(w), NEW id, NEW k \in Nat \ {0}, ReorderTab(w, id, i, k)
    PROVE  Follows(w)
<1> DEFINE p == Panes(w)[i]
           v == store[w].vault
           rest == Without(p.tabs, id)
           tab == p.tabs[Find(p.tabs, id)]
           tabs == Placed(rest, tab, k)
           r == [p EXCEPT !.tabs = tabs]
<1>1. PaneOK(p, v) /\ Active(w) \in DOMAIN Panes(w)
  BY LayoutFacts DEF Ordered
<1>2. id \in Ids(p.tabs) /\ KeepPanes(w, [Panes(w) EXCEPT ![i] = r], Active(w))
  BY DEF ReorderTab, KeepPane
<1>3. InOrder(p.tabs, Ids(p.tabs))
  BY <1>1, PaneFacts
<1>4. tab \in Tab /\ tab.id = id
  BY <1>1, <1>2, TabThere
<1>5. InOrder(rest, Ids(p.tabs) \ {id})
  BY <1>3, WithoutTab
<1> HIDE DEF rest, tab
<1>6. Ids(rest) = Ids(p.tabs) \ {id} /\ InOrder(rest, Ids(rest))
  BY <1>5 DEF InOrder
<1>7. InOrder(tabs, Ids(rest) \cup {tab.id})
  BY <1>4, <1>6, TabPlaced
<1>8. InOrder(tabs, Ids(p.tabs))
  <2>1. Ids(rest) \cup {tab.id} = Ids(p.tabs)
    BY <1>2, <1>4, <1>6
  <2> QED
    BY <1>7, <2>1
<1> HIDE DEF tabs
<1>9. PaneOK(r, v) /\ (OnCursor(p) => OnCursor(r)) /\ (p.tabs # <<>> => r.tabs # <<>>)
  BY <1>1, <1>8, ArrangedOK
<1> HIDE DEF r
<1> QED
  BY <1>1, <1>2, <1>9, OneIsSet

LEMMA MoveFollows ==
    ASSUME NEW w, Ordered(w), NEW from \in DOMAIN Panes(w), NEW id, NEW k \in Nat \ {0},
           MoveTabToPane(w, id, from, k)
    PROVE  Follows(w)
<1> DEFINE v == store[w].vault
           to == 3 - from
           src == Panes(w)[from]
           dst == Panes(w)[to]
           tab == src.tabs[Find(src.tabs, id)]
           rest == Without(dst.tabs, id)
           tabs == Placed(rest, tab, k)
           moved == Recorded(dst, tab, tabs)
           left == Dropped(src, id)
           both == [i \in 1 .. 2 |-> IF i = from THEN left ELSE moved]
           panes == Standing(both)
           active == IF id \in Ids(panes[1].tabs) THEN 1 ELSE 2
<1>1. /\ Len(Panes(w)) = 2 /\ id \in Ids(src.tabs) /\ KeepPanes(w, panes, active)
  BY DEF MoveTabToPane
<1>2. /\ DOMAIN Panes(w) = 1 .. 2
      /\ \A i \in DOMAIN Panes(w) : PaneOK(Panes(w)[i], v)
  BY <1>1, LayoutFacts DEF Ordered
<1>3. from \in 1 .. 2 /\ to \in 1 .. 2 /\ PaneOK(src, v) /\ PaneOK(dst, v)
  BY <1>2
<1>4. tab \in Tab /\ tab.id = id /\ VaultOf[id] = v
  BY <1>1, <1>3, TabThere
<1>5. InOrder(dst.tabs, Ids(dst.tabs)) /\ \A n \in Ids(dst.tabs) : VaultOf[n] = v
  BY <1>3, PaneFacts
<1>6. InOrder(rest, Ids(dst.tabs) \ {id})
  BY <1>5, WithoutTab
<1>7. PaneOK(left, v) /\ OnCursor(left)
  BY <1>1, <1>3, DroppedOK
<1> HIDE DEF tab, rest, left
<1>8. Ids(rest) = Ids(dst.tabs) \ {id} /\ InOrder(rest, Ids(rest))
  BY <1>6 DEF InOrder
<1>9. InOrder(tabs, Ids(rest) \cup {tab.id})
  BY <1>4, <1>8, TabPlaced
<1> HIDE DEF tabs
<1>10. /\ InOrder(tabs, Ids(tabs)) /\ tab.id \in Ids(tabs) /\ id \in Ids(tabs)
       /\ \A n \in Ids(tabs) : VaultOf[n] = v
  BY <1>4, <1>5, <1>8, <1>9 DEF InOrder
<1> HIDE DEF dst
<1>11. PaneOK(moved, v) /\ OnCursor(moved) /\ moved.tabs = tabs
  BY <1>3, <1>4, <1>10, RecordedOK
<1> HIDE DEF moved
<1>12. \A i \in 1 .. 2 : both[i] = IF i = from THEN left ELSE moved
  OBVIOUS
<1>13. both \in Seq(Pane) /\ Len(both) = 2
  <2>1. left \in Pane /\ moved \in Pane
    BY <1>7, <1>11, PaneFacts
  <2> DEFINE one == both[1]
             two == both[2]
  <2>2. both = <<one, two>>
    OBVIOUS
  <2>3. one \in Pane /\ two \in Pane
    BY <2>1, <1>12
  <2> HIDE DEF both, one, two
  <2>4. <<one, two>> \in Seq(Pane) /\ Len(<<one, two>>) = 2
    BY <2>3
  <2> QED
    BY <2>2, <2>4
<1> HIDE DEF both
<1>14. \A i \in 1 .. Len(both) : PaneOK(both[i], v) /\ OnCursor(both[i])
  BY <1>7, <1>11, <1>12, <1>13
<1>15. both[to] = moved /\ id \in Ids(both[to].tabs) /\ both[to].tabs # <<>>
  <2>1. both[to] = moved
    BY <1>3, <1>12
  <2>2. tabs # <<>>
    BY <1>10, TabList DEF InOrder
  <2> QED
    BY <2>1, <2>2, <1>10, <1>11
<1>16. /\ Len(panes) \in 1 .. 2 /\ \A a \in 1 .. Len(panes) : LayoutOK(panes, a, v)
       /\ OnCursors(both) => OnCursors(panes)
       /\ panes[1] = both[1]
       /\ Len(both) = 2 /\ both[2].tabs # <<>> => panes = both
  BY <1>13, <1>14, StandingOK
<1> HIDE DEF panes
<1>17. active \in 1 .. Len(panes)
  <2>1. CASE id \in Ids(panes[1].tabs)
    BY <2>1, <1>16
  <2>2. CASE id \notin Ids(panes[1].tabs)
    <3>1. to = 2
      BY <1>3, <1>15, <1>16, <2>2
    <3>2. panes = both
      BY <3>1, <1>13, <1>15, <1>16
    <3> QED
      BY <3>2, <2>2, <1>13
  <2> QED
    BY <2>1, <2>2
<1> HIDE DEF active
<1>18. OnCursors(panes)
  <2>1. DOMAIN both = 1 .. Len(both)
    BY <1>13, LenProperties
  <2> QED
    BY <2>1, <1>14, <1>16 DEF OnCursors
<1> QED
  BY <1>1, <1>16, <1>17, <1>18 DEF Follows

LEMMA SplitWithMoves ==
    ASSUME NEW w, Ordered(w), NEW id, NEW before, SplitWithTab(w, id, before)
    PROVE  Moves(w)
<1> DEFINE v == store[w].vault
           src == Panes(w)[1]
           old == [src EXCEPT !.tabs = Without(src.tabs, id), !.shown = ShownWithout(src, id)]
           tab == src.tabs[Find(src.tabs, id)]
           new == NewPane(tab)
<1>1. id \in Ids(src.tabs) /\ Len(src.tabs) > 1
  BY DEF SplitWithTab
<1>2. KeepPanes(w, <<new, old>>, 1) \/ KeepPanes(w, <<old, new>>, 2)
  BY DEF SplitWithTab
<1>3. PaneOK(src, v)
  BY LayoutFacts DEF Ordered
<1>4. PaneOK(old, v) /\ old.tabs # <<>>
  BY <1>1, <1>3, LeftOK
<1>5. tab \in Tab /\ VaultOf[tab.id] = v
  BY <1>1, <1>3, TabThere
<1> HIDE DEF tab
<1>6. PaneOK(new, v) /\ new.tabs # <<>>
  BY <1>5, NewPaneOK
<1> HIDE DEF old, new
<1>7. 1 \in 1 .. 2 /\ 2 \in 1 .. 2
  OBVIOUS
<1>8. LayoutOK(<<new, old>>, 1, v) /\ LayoutOK(<<old, new>>, 2, v)
  BY <1>4, <1>6, <1>7, TwoPanes
<1> QED
  BY <1>2, <1>8 DEF Moves

(* --------------------------- the invariant ------------------------------ *)

(* The state that a window keeps, in order.                                *)
WindowState == [vault: Vault \cup {None}, panes: Seq(Pane), active: Nat, collapsed: SUBSET Vault]
Kind == [panes: Seq(Pane), active: Nat]

Sound(s) == s \in WindowState /\ LayoutOK(s.panes, s.active, s.vault)

StoreOK == Shaped /\ \A w \in Window : Sound(store[w])

(* The stored layouts are as good as those on screen; what an older build  *)
(* left may be worse, but belongs to the vault that was active.            *)
RecordOK ==
    /\ stored.vault \in Vault \cup {None} /\ stored.collapsed \subseteq Vault
    /\ \A v \in Vault : stored.layouts[v] # None =>
          stored.layouts[v] \in Kind /\ LayoutOK(stored.layouts[v].panes, stored.layouts[v].active, v)
    /\ stored.legacy # None => stored.vault \in Vault /\ OldLayout(stored.legacy, stored.vault)

(* What is asked of a window is asked of the vault that it shows.          *)
AskedOK ==
    /\ url \in [Window -> Vault \cup {None}] /\ asked \in [Window -> Note \cup {None}]
    /\ steps \in 0 .. MaxSteps
    /\ \A w \in Window :
        /\ url[w] \in Vault \/ store[w].vault = url[w]
        /\ asked[w] # None => url[w] = store[w].vault /\ VaultOf[asked[w]] = store[w].vault

(* The inductive invariant.                                                *)
WorkspaceInv == StoreOK /\ RecordOK /\ AskedOK

(* A window writes a state of its own vault ...                            *)
Writes(w) == \E s : Keep(w, s) /\ Sound(s) /\ s.vault = store[w].vault

(* ... with its cursors on what its panes show, if they were.              *)
WritesOn(w) ==
    \E s : /\ Keep(w, s) /\ Sound(s) /\ s.vault = store[w].vault
           /\ OnCursors(Panes(w)) => OnCursors(s.panes)

(* A window that writes a sound state leaves everything sound.             *)
LEMMA KeepSound ==
    ASSUME StoreOK, RecordOK, NEW w \in Window, NEW s, Sound(s), Keep(w, s)
    PROVE  StoreOK' /\ RecordOK' /\ store' = [x \in Window |-> IF x = w THEN s ELSE store[x]]
<1>1. store' = [x \in Window |-> IF x = w THEN s ELSE store[x]]
  <2>1. store' = [store EXCEPT ![w] = s]
    BY DEF Keep
  <2> QED
    BY <2>1 DEF StoreOK, Shaped
<1>2. Shaped'
  BY KeepIsLocal DEF StoreOK
<1>3. StoreOK'
  <2> SUFFICES ASSUME NEW x \in Window PROVE Sound(store'[x])
    BY <1>2 DEF StoreOK, Sound, LayoutOK
  <2>1. store'[x] = IF x = w THEN s ELSE store[x]
    BY <1>1
  <2> QED
    BY <2>1 DEF StoreOK
<1>4. /\ stored'.vault = s.vault /\ stored'.collapsed = s.collapsed /\ stored'.legacy = None
      /\ stored'.layouts = IF s.vault = None THEN stored.layouts
                           ELSE [stored.layouts EXCEPT ![s.vault] = Layout(s)]
  BY DEF Keep, SetItem
<1>5. /\ s.vault \in Vault \cup {None} /\ s.panes \in Seq(Pane) /\ s.active \in Nat /\ s.collapsed \subseteq Vault
      /\ LayoutOK(s.panes, s.active, s.vault)
  BY DEF Sound, WindowState
<1>6. Layout(s) \in Kind /\ Layout(s).panes = s.panes /\ Layout(s).active = s.active
  BY <1>5 DEF Layout, Kind
<1>7. ASSUME NEW v \in Vault, stored'.layouts[v] # None
      PROVE  /\ stored'.layouts[v] \in Kind
             /\ LayoutOK(stored'.layouts[v].panes, stored'.layouts[v].active, v)
  <2>1. CASE s.vault # None /\ v = s.vault
    <3>1. stored'.layouts[v] = Layout(s)
      BY <1>4, <2>1 DEF StoreOK, Shaped
    <3> QED
      BY <3>1, <2>1, <1>5, <1>6
  <2>2. CASE ~(s.vault # None /\ v = s.vault)
    <3>1. stored'.layouts[v] = stored.layouts[v]
      BY <1>4, <2>2 DEF StoreOK, Shaped
    <3> QED
      BY <3>1, <1>7 DEF RecordOK
  <2> QED
    BY <2>1, <2>2
<1>8. RecordOK'
  <2> SUFFICES /\ stored'.vault \in Vault \cup {None} /\ stored'.collapsed \subseteq Vault
               /\ \A v \in Vault : stored'.layouts[v] # None =>
                     /\ stored'.layouts[v] \in Kind
                     /\ LayoutOK(stored'.layouts[v].panes, stored'.layouts[v].active, v)
               /\ stored'.legacy = None
    BY DEF RecordOK, LayoutOK
  <2> QED
    BY <1>4, <1>5, <1>7
<1> QED
  BY <1>1, <1>3, <1>8

(* The state with other panes in it.                                       *)
LEMMA PanesKept ==
    ASSUME NEW w, Sound(store[w]), NEW panes, NEW active,
           KeepPanes(w, panes, active), LayoutOK(panes, active, store[w].vault)
    PROVE  \E s : Keep(w, s) /\ Sound(s) /\ s.vault = store[w].vault /\ s.panes = panes
<1> DEFINE now == store[w]
           v == now.vault
           c == now.collapsed
           p == now.panes
           a == now.active
           q == [now EXCEPT !.panes = panes]
           s == [vault |-> v, panes |-> panes, active |-> active, collapsed |-> c]
<1>1. now = [vault |-> v, panes |-> p, active |-> a, collapsed |-> c] /\ v \in Vault \cup {None} /\ c \in SUBSET Vault
  BY DEF Sound, WindowState
<1>2. Keep(w, [now EXCEPT !.panes = panes, !.active = active])
  BY DEF KeepPanes
<1>3. [now EXCEPT !.panes = panes, !.active = active] = [q EXCEPT !.active = active]
  BY <1>1
<1>4. LayoutOK(panes, active, v)
  OBVIOUS
<1> HIDE DEF v, c, p, a
<1>5. q = [vault |-> v, panes |-> panes, active |-> a, collapsed |-> c]
  BY <1>1
<1> HIDE DEF q
<1>6. [q EXCEPT !.active = active] = s
  BY <1>5
<1> HIDE DEF now
<1>7. panes \in Seq(Pane) /\ active \in Nat
  <2>1. panes \in Seq(Pane) /\ active \in 1 .. Len(panes)
    BY <1>4 DEF LayoutOK
  <2> QED
    BY <2>1, LenProperties
<1>8. Sound(s)
  BY <1>1, <1>4, <1>7 DEF Sound, WindowState
<1>9. Keep(w, s)
  BY <1>2, <1>3, <1>6
<1>10. s.vault = store[w].vault /\ s.panes = panes
  BY DEF now, v
<1> HIDE DEF s
<1> QED
  BY <1>8, <1>9, <1>10

LEMMA MovesWrite ==
    ASSUME NEW w, Sound(store[w])
    PROVE  (Moves(w) => Writes(w)) /\ (Follows(w) => WritesOn(w))
<1>1. ASSUME Moves(w) PROVE Writes(w)
  <2>1. PICK panes, active : KeepPanes(w, panes, active) /\ LayoutOK(panes, active, store[w].vault)
    BY <1>1 DEF Moves
  <2> QED
    BY <2>1, PanesKept DEF Writes
<1>2. ASSUME Follows(w) PROVE WritesOn(w)
  <2>1. PICK panes, active : /\ KeepPanes(w, panes, active) /\ LayoutOK(panes, active, store[w].vault)
                             /\ OnCursors(Panes(w)) => OnCursors(panes)
    BY <1>2 DEF Follows
  <2>2. PICK s : Keep(w, s) /\ Sound(s) /\ s.vault = store[w].vault /\ s.panes = panes
    BY <2>1, PanesKept
  <2> QED
    BY <2>1, <2>2 DEF WritesOn
<1> QED
  BY <1>1, <1>2

(* The rest of the store: a setter, and the collapsed folders.             *)
LEMMA TouchWrites ==
    ASSUME NEW w, Sound(store[w]), Touch(w) \/ SetExplorerCollapsed(w), url[w] \in Vault \/ store[w].vault = url[w]
    PROVE  WritesOn(w)
<1> DEFINE now == store[w]
           v == now.vault
           c == now.collapsed
           p == now.panes
           a == now.active
<1>1. /\ now = [vault |-> v, panes |-> p, active |-> a, collapsed |-> c] /\ v \in Vault \cup {None} /\ c \in SUBSET Vault
      /\ p \in Seq(Pane) /\ a \in Nat /\ LayoutOK(p, a, v)
  BY DEF Sound, WindowState
<1>2. CASE Touch(w)
  <2>1. Keep(w, now)
    BY <1>2 DEF Touch
  <2> QED
    BY <2>1 DEF WritesOn, Panes
<1>3. CASE SetExplorerCollapsed(w)
  <2> DEFINE n == IF {v} \subseteq c THEN c \ {v} ELSE c \cup {v}
             s == [vault |-> v, panes |-> p, active |-> a, collapsed |-> n]
  <2>1. Keep(w, [now EXCEPT !.collapsed = n]) /\ url[w] # None /\ url[w] = v
    BY <1>3 DEF SetExplorerCollapsed, Do
  <2>2. n \in SUBSET Vault
    BY <1>1, <2>1
  <2> HIDE DEF n
  <2>3. p = Panes(w)
    BY DEF Panes
  <2>4. v = store[w].vault
    OBVIOUS
  <2> HIDE DEF v, c, p, a
  <2>5. [now EXCEPT !.collapsed = n] = s
    BY <1>1
  <2> HIDE DEF now
  <2>6. Sound(s)
    BY <1>1, <2>2 DEF Sound, WindowState
  <2>7. s.vault = store[w].vault /\ s.panes = Panes(w)
    BY <2>3, <2>4
  <2>8. Keep(w, s)
    BY <2>1, <2>5
  <2> HIDE DEF s
  <2> QED
    BY <2>6, <2>7, <2>8 DEF WritesOn
<1> QED
  BY <1>2, <1>3

(* What an operation within the vault leaves alone.                        *)
Stays(w) ==
    /\ url' = url /\ (asked' = asked \/ asked' = [asked EXCEPT ![w] = None])
    /\ steps' = steps \/ (steps < MaxSteps /\ steps' = steps + 1)

LEMMA DoStays ==
    ASSUME NEW w, Do(w)
    PROVE  Stays(w)
BY DEF Do, Stays

(* Nothing a window does within its vault breaks the invariant.            *)
LEMMA WriteKeepsInv ==
    ASSUME WorkspaceInv, NEW w \in Window, Writes(w), Stays(w)
    PROVE  WorkspaceInv'
<1>1. PICK s : Keep(w, s) /\ Sound(s) /\ s.vault = store[w].vault
  BY DEF Writes
<1>2. StoreOK' /\ RecordOK' /\ store' = [x \in Window |-> IF x = w THEN s ELSE store[x]]
  BY <1>1, KeepSound DEF WorkspaceInv
<1>3. \A x \in Window : store'[x].vault = store[x].vault
  BY <1>1, <1>2
<1>4. AskedOK
  BY DEF WorkspaceInv
<1>5. url' = url /\ steps' \in 0 .. MaxSteps
  BY <1>4, WorkspaceBounds DEF Stays, AskedOK
<1>6. asked' \in [Window -> Note \cup {None}] /\ \A x \in Window : asked'[x] = asked[x] \/ asked'[x] = None
  BY <1>4 DEF Stays, AskedOK
<1>7. AskedOK'
  BY <1>3, <1>4, <1>5, <1>6 DEF AskedOK
<1> QED
  BY <1>2, <1>7 DEF WorkspaceInv

LEMMA WritesOnWrites ==
    ASSUME NEW w, WritesOn(w)
    PROVE  Writes(w)
BY DEF Writes, WritesOn

(* --------------------- what can change a vault -------------------------- *)

(* What is read from the record is in order.                               *)
LEMMA ReadLayout ==
    ASSUME RecordOK, NEW v \in Vault
    PROVE  /\ StoredLayout(v) \in Kind /\ LayoutOK(StoredLayout(v).panes, StoredLayout(v).active, v)
           /\ LayoutOK(GetItem(v).panes, GetItem(v).active, v)
<1>1. StoredLayout(v) \in Kind /\ LayoutOK(StoredLayout(v).panes, StoredLayout(v).active, v)
  BY BlankOK DEF StoredLayout, RecordOK, Kind
<1>2. OldLayout(StoredLayout(v), v)
  BY <1>1, KeptIsOld DEF Kind
<1> DEFINE l == IF stored.legacy # None /\ v = stored.vault THEN stored.legacy ELSE StoredLayout(v)
<1>3. OldLayout(l, v)
  BY <1>2 DEF RecordOK
<1>4. GetItem(v) = Merge(l)
  BY DEF GetItem
<1> HIDE DEF l
<1>5. LayoutOK(Merge(l).panes, Merge(l).active, v)
  BY <1>3, MergedOK
<1> QED
  BY <1>1, <1>4, <1>5

LEMMA LayoutKinds ==
    ASSUME NEW panes, NEW active, NEW v, LayoutOK(panes, active, v)
    PROVE  panes \in Seq(Pane) /\ active \in Nat
<1>1. panes \in Seq(Pane) /\ active \in 1 .. Len(panes)
  BY DEF LayoutOK
<1> QED
  BY <1>1, LenProperties

(* A load, a change of the address, a question, and the change of vault.   *)
LEMMA LoadKeepsInv ==
    ASSUME WorkspaceInv, NEW w \in Window, NEW v \in Vault, Load(w, v)
    PROVE  WorkspaceInv'
<1> DEFINE panes == GetItem(v).panes
           active == GetItem(v).active
           c == stored.collapsed
           s == [vault |-> v, panes |-> panes, active |-> active, collapsed |-> c]
<1>1. StoreOK /\ RecordOK /\ AskedOK
  BY DEF WorkspaceInv
<1>2. LayoutOK(panes, active, v) /\ c \in SUBSET Vault
  BY <1>1, ReadLayout DEF RecordOK
<1>3. store' = [store EXCEPT ![w] = s]
  BY DEF Load
<1> HIDE DEF panes, active, c
<1>4. panes \in Seq(Pane) /\ active \in Nat
  BY <1>2, LayoutKinds
<1>5. Sound(s) /\ s.vault = v
  BY <1>2, <1>4 DEF Sound, WindowState
<1> HIDE DEF s
<1>6. store' = [x \in Window |-> IF x = w THEN s ELSE store[x]]
  BY <1>1, <1>3 DEF StoreOK, Shaped
<1>7. stored' = stored /\ url' = [url EXCEPT ![w] = v] /\ asked' = [asked EXCEPT ![w] = None]
      /\ steps < MaxSteps /\ steps' = steps + 1
  BY DEF Load
<1>8. StoreOK'
  <2>1. Shaped'
    BY <1>1, <1>6, <1>7 DEF StoreOK, Shaped
  <2>2. \A x \in Window : Sound(store'[x])
    BY <1>1, <1>5, <1>6 DEF StoreOK
  <2> QED
    BY <2>1, <2>2 DEF StoreOK, Sound, LayoutOK
<1>9. RecordOK'
  BY <1>1, <1>7 DEF RecordOK, LayoutOK
<1>10. AskedOK'
  <2>1. url' \in [Window -> Vault \cup {None}] /\ asked' \in [Window -> Note \cup {None}] /\ steps' \in 0 .. MaxSteps
    BY <1>1, <1>7, WorkspaceBounds DEF AskedOK
  <2>2. \A x \in Window : x # w => url'[x] = url[x] /\ asked'[x] = asked[x] /\ store'[x] = store[x]
    BY <1>1, <1>6, <1>7 DEF AskedOK
  <2>3. url'[w] \in Vault /\ asked'[w] = None
    BY <1>1, <1>7 DEF AskedOK
  <2> QED
    BY <1>1, <2>1, <2>2, <2>3 DEF AskedOK
<1> QED
  BY <1>8, <1>9, <1>10 DEF WorkspaceInv

LEMMA MoveKeepsInv ==
    ASSUME WorkspaceInv, ~Overtaken, NEW w \in Window, NEW v \in Vault, MoveTo(w, v)
    PROVE  WorkspaceInv'
<1>1. StoreOK /\ RecordOK /\ AskedOK
  BY DEF WorkspaceInv
<1>2. /\ url' = [url EXCEPT ![w] = v] /\ store' = store /\ asked' = asked /\ stored' = stored
      /\ asked[w] = None /\ steps < MaxSteps /\ steps' = steps + 1
  BY DEF MoveTo
<1>3. StoreOK' /\ RecordOK'
  BY <1>1, <1>2 DEF StoreOK, Shaped, Sound, LayoutOK, RecordOK
<1>4. AskedOK'
  BY <1>1, <1>2, WorkspaceBounds DEF AskedOK
<1> QED
  BY <1>3, <1>4 DEF WorkspaceInv

LEMMA AskKeepsInv ==
    ASSUME WorkspaceInv, NEW w \in Window, NEW n \in Note, VaultOf[n] = store[w].vault, Ask(w, n)
    PROVE  WorkspaceInv'
<1>1. StoreOK /\ RecordOK /\ AskedOK
  BY DEF WorkspaceInv
<1>2. /\ asked' = [asked EXCEPT ![w] = n] /\ store' = store /\ url' = url /\ stored' = stored
      /\ url[w] = store[w].vault /\ steps < MaxSteps /\ steps' = steps + 1
  BY DEF Ask
<1>3. StoreOK' /\ RecordOK'
  BY <1>1, <1>2 DEF StoreOK, Shaped, Sound, LayoutOK, RecordOK
<1>4. AskedOK'
  BY <1>1, <1>2, WorkspaceBounds DEF AskedOK
<1> QED
  BY <1>3, <1>4 DEF WorkspaceInv

LEMMA SwitchKeepsInv ==
    ASSUME WorkspaceInv, NEW w \in Window, SetActiveVault(w)
    PROVE  WorkspaceInv' /\ store'[w].vault # store[w].vault
<1> DEFINE to == url[w]
           panes == StoredLayout(to).panes
           active == StoredLayout(to).active
           now == store[w]
           v == now.vault
           c == now.collapsed
           p == now.panes
           a == now.active
           q == [now EXCEPT !.vault = to]
           r == [q EXCEPT !.panes = panes]
           s == [vault |-> to, panes |-> panes, active |-> active, collapsed |-> c]
<1>1. StoreOK /\ RecordOK /\ AskedOK
  BY DEF WorkspaceInv
<1>2. /\ to # v /\ url' = url /\ asked' = asked /\ steps' = steps
      /\ Keep(w, [now EXCEPT !.vault = to, !.panes = panes, !.active = active])
  BY DEF SetActiveVault
<1>3. to \in Vault /\ asked[w] = None
  BY <1>1, <1>2 DEF AskedOK
<1>4. LayoutOK(panes, active, to)
  BY <1>1, <1>3, ReadLayout
<1>5. /\ now = [vault |-> v, panes |-> p, active |-> a, collapsed |-> c] /\ c \in SUBSET Vault
  BY <1>1 DEF StoreOK, Sound, WindowState
<1> HIDE DEF panes, active
<1>6. panes \in Seq(Pane) /\ active \in Nat
  BY <1>4, LayoutKinds
<1> HIDE DEF to
<1>7. [now EXCEPT !.vault = to, !.panes = panes, !.active = active] = [r EXCEPT !.active = active]
  BY <1>5
<1>v. v = store[w].vault
  OBVIOUS
<1> HIDE DEF v, c, p, a
<1>8. q = [vault |-> to, panes |-> p, active |-> a, collapsed |-> c]
  BY <1>5
<1> HIDE DEF q
<1>9. r = [vault |-> to, panes |-> panes, active |-> a, collapsed |-> c]
  BY <1>8
<1> HIDE DEF r
<1>10. [r EXCEPT !.active = active] = s
  BY <1>9
<1> HIDE DEF now
<1>11. Keep(w, s)
  BY <1>2, <1>7, <1>10
<1>12. Sound(s) /\ s.vault = to
  BY <1>3, <1>4, <1>5, <1>6 DEF Sound, WindowState
<1> HIDE DEF s
<1>13. StoreOK' /\ RecordOK' /\ store' = [x \in Window |-> IF x = w THEN s ELSE store[x]]
  BY <1>1, <1>11, <1>12, KeepSound
<1>14. store'[w].vault = to /\ \A x \in Window : x # w => store'[x] = store[x]
  BY <1>12, <1>13
<1>15. AskedOK'
  BY <1>1, <1>2, <1>3, <1>14 DEF AskedOK, to
<1> QED
  BY <1>2, <1>13, <1>14, <1>15, <1>v DEF WorkspaceInv

(* The operations of InPane, and below those on a note.                    *)
LEMMA InPaneFollows ==
    ASSUME NEW w, Ordered(w), NEW i \in DOMAIN Panes(w), InPane(w, i)
    PROVE  Follows(w) /\ Do(w)
<1>1. CASE SetActivePane(w, i)
  BY <1>1, FocusFollows DEF SetActivePane
<1>2. CASE ClosePane(w, i)
  BY <1>2, ClosePaneFollows DEF ClosePane
<1>3. CASE NavigateBack(w, i) \/ NavigateForward(w, i)
  BY <1>3, BackFollows DEF NavigateBack, NavigateForward
<1>4. ASSUME NEW id, CloseTab(w, id, i)
      PROVE  Follows(w) /\ Do(w)
  BY <1>4, CloseFollows DEF CloseTab
<1>5. ASSUME NEW id, SetActiveTab(w, id, i)
      PROVE  Follows(w) /\ Do(w)
  BY <1>5, ActiveFollows DEF SetActiveTab
<1>6. ASSUME NEW id, TogglePin(w, id, i)
      PROVE  Follows(w) /\ Do(w)
  BY <1>6, PinFollows DEF TogglePin
<1>7. ASSUME NEW id, NEW n, NEW k \in 1 .. n, ReorderTab(w, id, i, k)
      PROVE  Follows(w) /\ Do(w)
  <2>1. k \in Nat \ {0}
    OBVIOUS
  <2> QED
    BY <2>1, <1>7, ReorderFollows DEF ReorderTab
<1>8. ASSUME NEW id, NEW n, NEW k \in 1 .. n, MoveTabToPane(w, id, i, k)
      PROVE  Follows(w) /\ Do(w)
  <2>1. k \in Nat \ {0}
    OBVIOUS
  <2> QED
    BY <2>1, <1>8, MoveFollows DEF MoveTabToPane
<1> QED
  BY <1>1, <1>2, <1>3, <1>4, <1>5, <1>6, <1>7, <1>8, Zenon DEF InPane

(* The steps after which a cursor may be elsewhere than on what shows.     *)
Strays(w) ==
    \/ \E id \in Note, before \in BOOLEAN : SplitWithTab(w, id, before)
    \/ Panes(w)[Active(w)].shown = None /\ \E n \in Note : OpenTabBackground(w, n)

OnNote(w, n) ==
    \/ \E replace \in BOOLEAN : OpenTab(w, n, replace)
    \/ OpenTabBackground(w, n) \/ CloseTab(w, n, 0)
    \/ \E before \in BOOLEAN : SplitWithTab(w, n, before)
    \/ \E i \in DOMAIN Panes(w) : OpenNoteBeside(w, n, i)

LEMMA OnNoteMoves ==
    ASSUME NEW w, Ordered(w), NEW n \in Note, VaultOf[n] = store[w].vault, OnNote(w, n)
    PROVE  Do(w) /\ (Follows(w) \/ (Moves(w) /\ Strays(w)))
<1>1. ASSUME NEW replace, OpenTab(w, n, replace)
      PROVE  Do(w) /\ Follows(w)
  BY <1>1, OpenFollows DEF OpenTab
<1>2. CASE OpenTabBackground(w, n)
  <2>1. Moves(w) /\ (Panes(w)[Active(w)].shown # None => Follows(w))
    BY <1>2, BackgroundMoves
  <2>2. Panes(w)[Active(w)].shown = None => Strays(w)
    BY <1>2 DEF Strays
  <2>3. Do(w)
    BY <1>2 DEF OpenTabBackground
  <2> QED
    BY <2>1, <2>2, <2>3
<1>3. CASE CloseTab(w, n, 0)
  BY <1>3, CloseFollows DEF CloseTab
<1>4. ASSUME NEW before \in BOOLEAN, SplitWithTab(w, n, before)
      PROVE  Do(w) /\ Moves(w) /\ Strays(w)
  <2>1. Moves(w) /\ Do(w)
    BY <1>4, SplitWithMoves DEF SplitWithTab
  <2>2. Strays(w)
    BY <1>4 DEF Strays
  <2> QED
    BY <2>1, <2>2
<1>5. ASSUME NEW i \in DOMAIN Panes(w), OpenNoteBeside(w, n, i)
      PROVE  Do(w) /\ Follows(w)
  BY <1>5, BesideFollows DEF OpenNoteBeside
<1> QED
  BY <1>1, <1>2, <1>3, <1>4, <1>5, Zenon DEF OnNote

(* What a window can do, by what it leaves alone.                          *)
WithinVault(w) == Stays(w) /\ (WritesOn(w) \/ (Writes(w) /\ Strays(w)))

(* Every step of a window is one of five kinds.                            *)
LEMMA WindowSteps ==
    ASSUME WorkspaceInv, NEW w \in Window, InWindow(w)
    PROVE  \/ WithinVault(w) \/ SetActiveVault(w)
           \/ \E v \in Vault : Load(w, v) \/ MoveTo(w, v)
           \/ \E n \in Note : VaultOf[n] = store[w].vault /\ Ask(w, n)
<1>1. Sound(store[w]) /\ (url[w] \in Vault \/ store[w].vault = url[w])
  BY DEF WorkspaceInv, StoreOK, AskedOK
<1>2. Ordered(w)
  BY <1>1 DEF Sound, Ordered, Panes, Active
<1>3. (Moves(w) => Writes(w)) /\ (Follows(w) => WritesOn(w))
  BY <1>1, MovesWrite
<1>4. CASE Touch(w)
  <2>1. WritesOn(w)
    BY <1>1, <1>4, TouchWrites
  <2>2. Stays(w)
    BY <1>4 DEF Touch, Stays
  <2> QED
    BY <2>1, <2>2 DEF WithinVault
<1>5. CASE SetExplorerCollapsed(w)
  <2>1. WritesOn(w)
    BY <1>1, <1>5, TouchWrites
  <2>2. Stays(w)
    BY <1>5, DoStays DEF SetExplorerCollapsed
  <2> QED
    BY <2>1, <2>2 DEF WithinVault
<1>6. CASE Answer(w)
  <2>1. asked[w] # None /\ Opened(w, Fresh(asked[w]), FALSE) /\ Stays(w)
    BY <1>6 DEF Answer, Stays
  <2>2. asked[w] \in Note /\ VaultOf[asked[w]] = store[w].vault
    BY <2>1 DEF WorkspaceInv, AskedOK
  <2>3. Follows(w)
    BY <1>2, <2>1, <2>2, OpenFollows
  <2> QED
    BY <2>1, <2>3, <1>3 DEF WithinVault
<1>7. CASE CloseOtherTabs(w)
  <2>1. Follows(w) /\ Stays(w)
    BY <1>2, <1>7, CloseOthersFollows, DoStays DEF CloseOtherTabs
  <2> QED
    BY <2>1, <1>3 DEF WithinVault
<1>8. CASE SplitRight(w)
  <2>1. Follows(w) /\ Stays(w)
    BY <1>2, <1>8, SplitFollows, DoStays DEF SplitRight
  <2> QED
    BY <2>1, <1>3 DEF WithinVault
<1>9. CASE GoToRelativeTab(w, 1)
  <2>1. Follows(w)
    BY <1>2, <1>9, RelativeFollows
  <2>2. Do(w)
    BY <1>9 DEF GoToRelativeTab, SetActiveTab
  <2> QED
    BY <2>1, <2>2, <1>3, DoStays DEF WithinVault
<1>10. ASSUME NEW n \in Note, VaultOf[n] = store[w].vault, OnNote(w, n)
       PROVE  WithinVault(w)
  <2>1. Do(w) /\ (Follows(w) \/ (Moves(w) /\ Strays(w)))
    BY <1>2, <1>10, OnNoteMoves
  <2> QED
    BY <2>1, <1>3, DoStays DEF WithinVault
<1>11. ASSUME NEW i \in DOMAIN Panes(w), InPane(w, i)
       PROVE  WithinVault(w)
  <2>1. Follows(w) /\ Do(w)
    BY <1>2, <1>11, InPaneFollows
  <2> QED
    BY <2>1, <1>3, DoStays DEF WithinVault
<1> QED
  BY <1>4, <1>5, <1>6, <1>7, <1>8, <1>9, <1>10, <1>11, Zenon DEF InWindow, OnNote

(* The invariant is inductive.                                             *)
LEMMA StepKeepsInv ==
    ASSUME ~Overtaken, WorkspaceInv, [Next]_vars
    PROVE  WorkspaceInv'
<1>1. CASE UNCHANGED vars
  BY <1>1 DEF vars, WorkspaceInv, StoreOK, Shaped, RecordOK, AskedOK, Sound, LayoutOK
<1>2. ASSUME NEW w \in Window, InWindow(w)
      PROVE  WorkspaceInv'
  <2>1. CASE WithinVault(w)
    <3>1. Writes(w) /\ Stays(w)
      BY <2>1, WritesOnWrites DEF WithinVault
    <3> QED
      BY <3>1, <1>2, WriteKeepsInv
  <2>2. CASE SetActiveVault(w)
    BY <2>2, <1>2, SwitchKeepsInv
  <2>3. ASSUME NEW v \in Vault, Load(w, v)
        PROVE  WorkspaceInv'
    BY <2>3, <1>2, LoadKeepsInv
  <2>4. ASSUME NEW v \in Vault, MoveTo(w, v)
        PROVE  WorkspaceInv'
    BY <2>4, <1>2, MoveKeepsInv
  <2>5. ASSUME NEW n \in Note, VaultOf[n] = store[w].vault, Ask(w, n)
        PROVE  WorkspaceInv'
    BY <2>5, <1>2, AskKeepsInv
  <2> QED
    BY <1>2, <2>1, <2>2, <2>3, <2>4, <2>5, WindowSteps
<1> QED
  BY <1>1, <1>2 DEF Next

LEMMA InitInv ==
    ASSUME Init
    PROVE  WorkspaceInv
<1> DEFINE s == [vault |-> None, panes |-> <<EmptyPane>>, active |-> 1, collapsed |-> {}]
<1>1. LayoutOK(<<EmptyPane>>, 1, None)
  BY EmptyPaneOK, OnePane
<1>2. <<EmptyPane>> \in Seq(Pane) /\ 1 \in Nat
  BY <1>1, LayoutKinds
<1>3. Sound(s)
  <2> DEFINE panes == <<EmptyPane>>
  <2> HIDE DEF panes
  <2>1. s = [vault |-> None, panes |-> panes, active |-> 1, collapsed |-> {}]
    BY DEF panes
  <2>2. panes \in Seq(Pane) /\ LayoutOK(panes, 1, None)
    BY <1>1, <1>2 DEF panes
  <2> HIDE DEF s
  <2> QED
    BY <2>1, <2>2 DEF Sound, WindowState
<1>4. store = [w \in Window |-> s]
  BY DEF Init
<1> HIDE DEF s
<1>6. PICK old \in Legacy \cup {[vault |-> None, layout |-> None]} :
          stored = [vault |-> old.vault, collapsed |-> {}, layouts |-> [v \in Vault |-> None], legacy |-> old.layout]
  BY DEF Init
<1>7. /\ stored.vault = old.vault /\ stored.collapsed = {} /\ stored.legacy = old.layout
      /\ stored.layouts = [v \in Vault |-> None] /\ \A v \in Vault : stored.layouts[v] = None
  BY <1>6
<1>5. StoreOK
  <2>1. Shaped
    BY <1>4, <1>7 DEF Shaped
  <2> QED
    BY <1>3, <1>4, <2>1 DEF StoreOK
<1>8. RecordOK
  <2>1. CASE old \in Legacy
    BY <2>1, <1>7, LegacyIsOld DEF RecordOK
  <2>2. CASE old = [vault |-> None, layout |-> None]
    BY <2>2, <1>7 DEF RecordOK
  <2> QED
    BY <2>1, <2>2
<1>9. AskedOK
  <2>1. /\ url = [w \in Window |-> None] /\ asked = [w \in Window |-> None] /\ steps = 0
    BY DEF Init
  <2>2. \A w \in Window : store[w].vault = None
    BY <1>4 DEF s
  <2> QED
    BY <2>1, <2>2, WorkspaceBounds DEF AskedOK
<1> QED
  BY <1>5, <1>8, <1>9 DEF WorkspaceInv

(* The invariant is one of every behaviour in which no window leaves a     *)
(* vault while a request of its own is under way.                          *)
LEMMA WorkspaceHolds ==
    ASSUME ~Overtaken
    PROVE  Spec => []WorkspaceInv
<1>1. Init => WorkspaceInv
  BY InitInv
<1>2. WorkspaceInv /\ [Next]_vars => WorkspaceInv'
  BY StepKeepsInv
<1> QED
  BY <1>1, <1>2, PTL DEF Spec

(* What TypeOK says of a pane, and of all.                                 *)
LEMMA TypedPane ==
    ASSUME NEW v, NEW p, PaneOK(p, v)
    PROVE  /\ ToSet(p.tabs) \cup ToSet(p.history) \subseteq Tab
           /\ \A n \in Ids(p.tabs) \cup Ids(p.history) : VaultOf[n] = v
           /\ Cardinality(Ids(p.tabs)) = Len(p.tabs) /\ SortPinned(p.tabs) = p.tabs
           /\ IF p.tabs = <<>> THEN p.shown = None ELSE p.shown \in Ids(p.tabs)
           /\ p.at \in 0 .. Len(p.history)
<1> DEFINE t == p.tabs
           h == p.history
<1>1. /\ t \in Seq(Tab) /\ Distinct(t) /\ PinnedFirst(t) /\ h \in Seq(Tab) /\ p.at \in 0 .. Len(h)
      /\ \A n \in Ids(t) : VaultOf[n] = v
      /\ \A n \in Ids(h) : VaultOf[n] = v
      /\ Ids(t) = {} => p.shown = None
      /\ Ids(t) # {} => p.shown \in Ids(t)
  BY PaneFacts DEF InOrder, HistoryOK
<1>2. Ids(t) = {} <=> t = <<>>
  BY <1>1, TabList
<1>3. ToSet(t) \subseteq Tab /\ ToSet(h) \subseteq Tab
  <2>1. (\A i \in DOMAIN t : t[i] \in Tab) /\ \A i \in DOMAIN h : h[i] \in Tab
    BY <1>1, TabList
  <2> QED
    BY <2>1 DEF ToSet
<1>4. Cardinality(Ids(t)) = Len(t) /\ SortPinned(t) = t
  BY <1>1, AsManyIds, SortedAlready
<1> QED
  BY <1>1, <1>2, <1>3, <1>4

LEMMA InvTypes ==
    ASSUME WorkspaceInv
    PROVE  TypeOK
<1>1. /\ url \in [Window -> Vault \cup {None}] /\ asked \in [Window -> Note \cup {None}]
      /\ stored.vault \in Vault \cup {None} /\ stored.collapsed \subseteq Vault
      /\ steps \in 0 .. MaxSteps
  BY DEF WorkspaceInv, AskedOK, RecordOK
<1>2. ASSUME NEW w \in Window
      PROVE  /\ store[w].vault \in Vault \cup {None} /\ store[w].collapsed \subseteq Vault
             /\ Len(Panes(w)) \in 1 .. 2 /\ Active(w) \in DOMAIN Panes(w)
             /\ Len(Panes(w)) = 2 => Panes(w)[2].tabs # <<>>
             /\ \A i \in DOMAIN Panes(w) : PaneOK(Panes(w)[i], store[w].vault)
  <2>1. store[w] \in WindowState /\ LayoutOK(Panes(w), Active(w), store[w].vault)
    BY DEF WorkspaceInv, StoreOK, Sound, Panes, Active
  <2>2. /\ DOMAIN Panes(w) = 1 .. Len(Panes(w)) /\ Len(Panes(w)) \in 1 .. 2 /\ Active(w) \in 1 .. Len(Panes(w))
        /\ \A i \in DOMAIN Panes(w) : PaneOK(Panes(w)[i], store[w].vault)
    BY <2>1, LayoutFacts
  <2>3. Len(Panes(w)) = 2 => Panes(w)[2].tabs # <<>>
    BY <2>1 DEF LayoutOK
  <2>4. store[w].vault \in Vault \cup {None} /\ store[w].collapsed \subseteq Vault
    BY <2>1 DEF WindowState
  <2> QED
    BY <2>2, <2>3, <2>4
<1> QED
  BY <1>1, <1>2, TypedPane DEF TypeOK

(* No pane of any window ever holds a tab twice, or a tab or a history     *)
(* entry of another vault, its pinned tabs come first, a pane with tabs    *)
(* shows one of them and the second pane is never empty: for any numbers   *)
(* of windows, vaults, notes and steps, whatever layouts an older build    *)
(* left, as long as no window leaves a vault while it waits for an answer  *)
(* (openTab, closeTab, moveTabToPane, splitWithTab, merge).                *)
THEOREM TypeOKHolds ==
    ASSUME ~Overtaken
    PROVE  Spec => []TypeOK
<1>1. Spec => []WorkspaceInv
  BY WorkspaceHolds
<1>2. WorkspaceInv => TypeOK
  BY InvTypes
<1> QED
  BY <1>1, <1>2, PTL

(* Back and Forward in a state that is in order.                           *)
LEMMA InvBackAndForth ==
    ASSUME WorkspaceInv
    PROVE  BackAndForth
<1>1. \A w \in Window : \A i \in DOMAIN Panes(w) : PaneOK(Panes(w)[i], store[w].vault)
  BY LayoutFacts DEF WorkspaceInv, StoreOK, Sound, Panes
<1> SUFFICES ASSUME NEW w \in Window, NEW i \in DOMAIN Panes(w)
             PROVE  LET p == Panes(w)[i]
                        back == ShownAt(p, p.at - 1)
                        forth == ShownAt(back, p.at)
                    IN  p.shown # None /\ OnCursor(p) /\ p.at > 1 =>
                            back.shown # p.shown /\ forth.shown = p.shown /\ Ids(p.tabs) \subseteq Ids(forth.tabs)
  BY DEF BackAndForth
<1> DEFINE p == Panes(w)[i]
           back == ShownAt(p, p.at - 1)
           forth == ShownAt(back, p.at)
<1>2. PaneOK(p, store[w].vault)
  BY <1>1
<1>3. ASSUME p.shown # None, OnCursor(p), p.at > 1
      PROVE  back.shown # p.shown /\ forth.shown = p.shown /\ Ids(p.tabs) \subseteq Ids(forth.tabs)
  <2> HIDE DEF p
  <2> QED
    BY <1>2, <1>3, ThereAndBack
<1> QED
  BY <1>3

(* From a pane whose cursor is on the tab that shows, Back goes to another *)
(* tab, and Forward then brings the first one back with every tab there    *)
(* was, however long the history and whichever of its tabs are closed or   *)
(* pinned (navigateBack, navigateForward, shownAt).                        *)
THEOREM BackAndForthHolds ==
    ASSUME ~Overtaken
    PROVE  Spec => []BackAndForth
<1>1. Spec => []WorkspaceInv
  BY WorkspaceHolds
<1>2. WorkspaceInv => BackAndForth
  BY InvBackAndForth
<1> QED
  BY <1>1, <1>2, PTL

(* What CursorFollows says of one window.                                  *)
Follow(w) ==
    LET Lost == \/ \E id \in Note, before \in BOOLEAN : SplitWithTab(w, id, before)
                \/ Panes(w)[Active(w)].shown = None /\ \E n \in Note : OpenTabBackground(w, n)
        Again == \E v \in Vault : Load(w, v)
    IN  (\A i \in DOMAIN Panes(w) : OnCursor(Panes(w)[i])) /\ store'[w].vault = store[w].vault
            => Lost \/ Again \/ \A i \in DOMAIN store'[w].panes : OnCursor(store'[w].panes[i])

LEMMA SameStore ==
    ASSUME NEW w, store'[w] = store[w]
    PROVE  Follow(w)
BY DEF Follow, Panes

(* It holds of every step.                                                 *)
LEMMA StepFollows ==
    ASSUME WorkspaceInv, [Next]_vars, NEW w \in Window
    PROVE  Follow(w)
<1>1. CASE UNCHANGED vars
  BY <1>1, SameStore DEF vars
<1>2. ASSUME NEW x \in Window, InWindow(x)
      PROVE  Follow(w)
  <2>1. StoreOK /\ RecordOK
    BY DEF WorkspaceInv
  <2>2. CASE WithinVault(x) /\ w = x /\ WritesOn(x)
    <3>1. PICK s : Keep(w, s) /\ Sound(s) /\ (OnCursors(Panes(w)) => OnCursors(s.panes))
      BY <2>2 DEF WritesOn
    <3>2. store' = [y \in Window |-> IF y = w THEN s ELSE store[y]]
      BY <2>1, <3>1, KeepSound
    <3> QED
      BY <3>1, <3>2 DEF Follow, OnCursors
  <2>3. CASE WithinVault(x) /\ w = x /\ Strays(x)
    BY <2>3 DEF Follow, Strays
  <2>4. CASE WithinVault(x) /\ w # x
    <3>1. PICK s : Keep(x, s) /\ Sound(s)
      BY <2>4 DEF WithinVault, WritesOn, Writes
    <3>2. store' = [y \in Window |-> IF y = x THEN s ELSE store[y]]
      BY <2>1, <3>1, KeepSound
    <3> QED
      BY <2>4, <3>2, SameStore
  <2>5. CASE SetActiveVault(x)
    <3>1. CASE w = x
      BY <2>5, <3>1, <1>2, SwitchKeepsInv DEF Follow
    <3>2. CASE w # x
      <4>1. PICK s : store' = [store EXCEPT ![x] = s]
        BY <2>5 DEF SetActiveVault, Keep
      <4>2. store'[w] = store[w]
        BY <2>1, <3>2, <4>1 DEF StoreOK, Shaped
      <4> QED
        BY <4>2, SameStore
    <3> QED
      BY <3>1, <3>2
  <2>6. ASSUME NEW v \in Vault, Load(x, v)
        PROVE  Follow(w)
    <3>1. CASE w = x
      BY <2>6, <3>1 DEF Follow
    <3>2. CASE w # x
      <4>1. PICK s : store' = [store EXCEPT ![x] = s]
        BY <2>6 DEF Load
      <4>2. store'[w] = store[w]
        BY <2>1, <3>2, <4>1 DEF StoreOK, Shaped
      <4> QED
        BY <4>2, SameStore
    <3> QED
      BY <3>1, <3>2
  <2>7. ASSUME NEW v \in Vault, MoveTo(x, v)
        PROVE  Follow(w)
    BY <2>7, SameStore DEF MoveTo
  <2>8. ASSUME NEW n \in Note, Ask(x, n)
        PROVE  Follow(w)
    BY <2>8, SameStore DEF Ask
  <2>9. CASE WithinVault(x)
    BY <2>9, <2>2, <2>3, <2>4 DEF WithinVault
  <2> QED
    BY <1>2, <2>5, <2>6, <2>7, <2>8, <2>9, WindowSteps
<1> QED
  BY <1>1, <1>2 DEF Next

(* In every behaviour a pane whose cursor is on the tab that shows keeps   *)
(* it there, unless a drag splits it, its first tab is opened in the       *)
(* background, or a layout is read again (recorded, syncedHistory).        *)
THEOREM CursorFollowsHolds ==
    ASSUME ~Overtaken
    PROVE  Spec => CursorFollows
<1>1. Spec => []WorkspaceInv
  BY WorkspaceHolds
<1>2. WorkspaceInv /\ [Next]_vars => [\A w \in Window : Follow(w)]_vars
  BY StepFollows
<1>3. Spec => [][\A w \in Window : Follow(w)]_vars
  BY <1>1, <1>2, PTL DEF Spec
<1> QED
  BY <1>3 DEF CursorFollows, Follow
=============================================================================
