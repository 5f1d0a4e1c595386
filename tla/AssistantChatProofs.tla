------------------------- MODULE AssistantChatProofs -------------------------
(***************************************************************************)
(* Proofs about AssistantChat, for any number of panels, threads, turns    *)
(* and questions: the type invariant, that stored threads are whole turns, *)
(* and that a panel at rest shows its thread as it is stored.              *)
(*                                                                         *)
(* The inductive invariant ChatInv says of the server that a stored thread *)
(* is made of whole turns, each of which is in it for as long as it is     *)
(* stored, and of a panel that what it has in its cache was such a thread  *)
(* once, that it lacks an answered turn only while that thread is stale,   *)
(* and that its local copy holds no more than the question it is waiting   *)
(* for unless a refetch is under way that will clear it.                   *)
(*                                                                         *)
(* The lemmas that need no step of the program take the turns as an        *)
(* argument: T before the step and U after it.                             *)
(***************************************************************************)
EXTENDS AssistantChat, Functions, SequenceTheorems, FiniteSetTheorems, TLAPS

Stages == {"running", "failed", "stored", "broken", "answered"}
Settled == {"stored", "broken", "answered"}

TurnRecord == [panel : Panel \cup {None}, ask : Question \cup {None}, thread : Thread \cup {None},
               stage : Stages, wrote : BOOLEAN]
PanelState == [selection : Thread \cup {"auto", "new"}, list : Seq(Thread),
               cache : [Thread -> Seq(Message) \cup {None}], pending : Seq(Message),
               draft : Question \cup {None}, sending : Nat, stale : SUBSET Thread,
               wiping : SUBSET Thread, removing : Thread \cup {None}]

ChatTypes ==
    /\ threads \in [Thread -> Seq(Message) \cup {None}]
    /\ recent \in Seq(Thread)
    /\ turns \in Seq(TurnRecord)
    /\ panel \in [Panel -> PanelState]

(* A turn that is stored keeps its thread, its note and its panel.         *)
Later(T, U) ==
    /\ Len(T) <= Len(U)
    /\ \A k \in 1..Len(T) :
        /\ U[k].panel = T[k].panel
        /\ T[k].stage \in Settled => /\ U[k].stage \in Settled /\ U[k].thread = T[k].thread
                                     /\ U[k].wrote = T[k].wrote

Answer(T, k) == [role |-> "assistant", turn |-> k, wrote |-> T[k].wrote]

(* The messages are n whole turns of T, each stored in thread c.           *)
Pairs(T, msgs, c, n) ==
    /\ Len(msgs) = 2 * n
    /\ \A i \in 1..n :
        LET k == msgs[2 * i - 1].turn
        IN  /\ k \in 1..Len(T) /\ msgs[2 * i - 1] = Ask(k) /\ msgs[2 * i] = Answer(T, k)
            /\ T[k].thread = c /\ T[k].stage \in Settled
    /\ \A i, j \in 1..n : msgs[2 * i - 1].turn = msgs[2 * j - 1].turn => i = j

Whole(T, msgs, c) == \E n \in Nat \ {0} : Pairs(T, msgs, c, n)

Has(T, msgs, k) == {Ask(k), Answer(T, k)} \subseteq ToSet(msgs)

(* The history names every stored thread once.                             *)
Listed(list, stored) ==
    /\ ToSet(list) = {c \in Thread : stored[c] # None}
    /\ IsInjective(list)

(* Every stored thread is whole turns, and a stored turn is in its thread  *)
(* for as long as that is stored.                                          *)
ThreadsHold(T, stored) ==
    /\ \A c \in Thread : stored[c] # None => Whole(T, stored[c], c)
    /\ \A k \in 1..Len(T) : T[k].stage \in Settled =>
          T[k].thread # None /\ (stored[T[k].thread] # None => Has(T, stored[T[k].thread], k))

(* What a panel p in state s may count on.                                 *)
PanelHolds(T, stored, s, p) ==
    /\ s.sending \in 1..Len(T) \cup {0} /\ s.wiping \subseteq s.stale
    /\ s.sending # 0 => T[s.sending].panel = p
    /\ s.wiping = {} => s.pending = <<>> \/ (s.sending # 0 /\ s.pending = <<Ask(s.sending)>>)
    /\ \A c \in Thread : s.cache[c] # None => Whole(T, s.cache[c], c)
    /\ \A k \in 1..Len(T) :
          LET c == T[k].thread
          IN  /\ T[k].stage = "answered" /\ T[k].panel = p /\ c # None
              /\ c \notin s.stale /\ stored[c] # None /\ s.cache[c] # None
              => Has(T, s.cache[c], k)

ChatInv ==
    /\ ChatTypes
    /\ Len(turns) <= MaxTurns /\ notes \subseteq Turn
    /\ Listed(recent, threads)
    /\ ThreadsHold(turns, threads)
    /\ \A p \in Panel : PanelHolds(turns, threads, panel[p], p)

(* ------------------------- whole turns, over time ----------------------- *)

LEMMA WholeStays ==
    ASSUME NEW T \in Seq(TurnRecord), NEW U \in Seq(TurnRecord), Later(T, U),
           NEW msgs \in Seq(Message), NEW c, Whole(T, msgs, c)
    PROVE  Whole(U, msgs, c)
<1>0. Len(T) \in Nat /\ Len(U) \in Nat
  BY LenProperties
<1>1. PICK n \in Nat \ {0} : Pairs(T, msgs, c, n)
  BY DEF Whole
<1>2. ASSUME NEW i \in 1..n, NEW k, k = msgs[2 * i - 1].turn
      PROVE  /\ k \in 1..Len(U) /\ msgs[2 * i - 1] = Ask(k) /\ msgs[2 * i] = Answer(U, k)
             /\ U[k].thread = c /\ U[k].stage \in Settled
  <2>1. /\ k \in 1..Len(T) /\ msgs[2 * i - 1] = Ask(k) /\ msgs[2 * i] = Answer(T, k)
        /\ T[k].thread = c /\ T[k].stage \in Settled
    BY <1>1, <1>2 DEF Pairs
  <2>2. Answer(U, k) = Answer(T, k) /\ k \in 1..Len(U)
    BY <1>0, <2>1 DEF Later, Answer
  <2> QED
    BY <2>1, <2>2 DEF Later
<1>3. Pairs(U, msgs, c, n)
  BY <1>1, <1>2 DEF Pairs
<1> QED
  BY <1>3 DEF Whole

LEMMA HasStays ==
    ASSUME NEW T, NEW U, Later(T, U), NEW k \in 1..Len(T), T[k].stage \in Settled, NEW msgs
    PROVE  Has(U, msgs, k) <=> Has(T, msgs, k)
BY DEF Later, Has, Answer

(* A turn that is stored makes its thread two messages longer.             *)
LEMMA WholeGrows ==
    ASSUME NEW T \in Seq(TurnRecord), NEW U \in Seq(TurnRecord), Later(T, U),
           NEW k \in 1..Len(T), T[k].stage = "running",
           NEW c, U[k].thread = c, U[k].stage \in Settled, U[k].wrote = T[k].wrote,
           NEW old \in Seq(Message), old = <<>> \/ Whole(T, old, c)
    PROVE  LET new == old \o <<Ask(k), Answer(T, k)>>
           IN  /\ new \in Seq(Message) /\ Whole(U, new, c) /\ Has(U, new, k)
               /\ \A j \in 1..Len(T) : T[j].stage \in Settled /\ Has(T, old, j) => Has(U, new, j)
<1> DEFINE new == old \o <<Ask(k), Answer(T, k)>>
<1>0. Len(T) \in Nat /\ Len(U) \in Nat /\ Len(old) \in Nat /\ k \in Nat /\ k \in 1..Len(U)
  BY LenProperties DEF Later
<1>1. Ask(k) \in Message /\ Answer(T, k) \in Message
  <2>1. T[k] \in TurnRecord
    BY ElementOfSeq
  <2> QED
    BY <1>0, <2>1 DEF Ask, Answer, Message, TurnRecord
<1>2. /\ new \in Seq(Message) /\ Len(new) = Len(old) + 2
      /\ \A i \in 1..Len(old) : new[i] = old[i]
      /\ new[Len(old) + 1] = Ask(k) /\ new[Len(old) + 2] = Answer(T, k)
  BY <1>0, <1>1
<1> HIDE DEF new
<1>3. PICK n \in Nat : Pairs(T, old, c, n)
  <2>1. CASE old = <<>>
    <3>1. Pairs(T, old, c, 0)
      BY <2>1 DEF Pairs
    <3> QED
      BY <3>1
  <2> QED
    BY <2>1 DEF Whole
<1>4. Len(old) = 2 * n
  BY <1>3 DEF Pairs
<1>5. ASSUME NEW i \in 1..n
      PROVE  LET j == old[2 * i - 1].turn
             IN  /\ j \in 1..Len(T) /\ old[2 * i - 1] = Ask(j) /\ old[2 * i] = Answer(T, j)
                 /\ T[j].thread = c /\ T[j].stage \in Settled /\ j # k
                 /\ new[2 * i - 1] = old[2 * i - 1] /\ new[2 * i] = old[2 * i]
  <2>1. 2 * i - 1 \in 1..Len(old) /\ 2 * i \in 1..Len(old)
    BY <1>4
  <2> QED
    BY <1>2, <1>3, <2>1 DEF Pairs, Settled
<1>6. ASSUME NEW i \in 1..(n + 1), NEW j, j = new[2 * i - 1].turn
      PROVE  /\ j \in 1..Len(U) /\ new[2 * i - 1] = Ask(j) /\ new[2 * i] = Answer(U, j)
             /\ U[j].thread = c /\ U[j].stage \in Settled
  <2>1. CASE i = n + 1
    <3>1. new[2 * i - 1] = Ask(k) /\ new[2 * i] = Answer(T, k)
      BY <1>2, <1>4, <2>1, SMTT(30)
    <3>2. j = k
      BY <1>6, <3>1 DEF Ask
    <3> QED
      BY <1>0, <3>1, <3>2 DEF Answer
  <2>2. CASE i \in 1..n
    <3>1. j = old[2 * i - 1].turn
      BY <1>5, <1>6, <2>2
    <3>2. /\ j \in 1..Len(T) /\ new[2 * i - 1] = Ask(j) /\ new[2 * i] = Answer(T, j)
          /\ T[j].thread = c /\ T[j].stage \in Settled
      BY <1>5, <2>2, <3>1
    <3>3. /\ j \in 1..Len(U) /\ U[j].thread = T[j].thread /\ U[j].stage \in Settled /\ U[j].wrote = T[j].wrote
      BY <1>0, <3>2 DEF Later
    <3>4. Answer(T, j) = Answer(U, j)
      BY <3>3 DEF Answer
    <3> QED
      BY <3>2, <3>3, <3>4
  <2> QED
    BY <2>1, <2>2
<1>7. ASSUME NEW i \in 1..(n + 1), NEW j \in 1..(n + 1), new[2 * i - 1].turn = new[2 * j - 1].turn
      PROVE  i = j
  <2>1. new[2 * (n + 1) - 1].turn = k
    <3>1. 2 * (n + 1) - 1 = Len(old) + 1
      BY <1>4
    <3> QED
      BY <1>2, <3>1 DEF Ask
  <2>2. \A l \in 1..n : new[2 * l - 1].turn # k /\ new[2 * l - 1].turn = old[2 * l - 1].turn
    BY <1>5
  <2>3. \A l, m \in 1..n : old[2 * l - 1].turn = old[2 * m - 1].turn => l = m
    BY <1>3 DEF Pairs
  <2>4. 1..(n + 1) = 1..n \cup {n + 1}
    OBVIOUS
  <2> QED
    BY <1>7, <2>1, <2>2, <2>3, <2>4
<1>8. Whole(U, new, c)
  <2>1. Pairs(U, new, c, n + 1)
    BY <1>2, <1>4, <1>6, <1>7 DEF Pairs
  <2> QED
    BY <2>1 DEF Whole
<1>9. DOMAIN new = 1..(Len(old) + 2) /\ DOMAIN old = 1..Len(old)
  BY <1>2, LenProperties
<1>10. Has(U, new, k)
  <2>1. Len(old) + 1 \in DOMAIN new /\ Len(old) + 2 \in DOMAIN new
    BY <1>0, <1>9
  <2> QED
    BY <1>2, <2>1 DEF Has, Answer, ToSet
<1>11. ASSUME NEW j \in 1..Len(T), T[j].stage \in Settled, Has(T, old, j) PROVE Has(U, new, j)
  <2>1. \A x : x \in ToSet(old) => x \in ToSet(new)
    BY <1>0, <1>2, <1>9 DEF ToSet
  <2>2. Has(T, new, j)
    BY <1>11, <2>1 DEF Has
  <2> QED
    BY <1>11, <2>2, HasStays
<1> QED
  BY <1>2, <1>8, <1>10, <1>11 DEF new

(* ------------------------- what is picked of a list --------------------- *)

(* How many numbers there are up to n.                                     *)
LEMMA UpTo == ASSUME NEW n \in Nat PROVE IsFiniteSet(1 .. n) /\ Cardinality(1 .. n) = n
<1>1. IsFiniteSet(1 .. n) /\ Cardinality(1 .. n) = IF 1 > n THEN 0 ELSE n - 1 + 1
  BY FS_Interval
<1> QED
  BY <1>1

(* A sequence without repetition has as many entries as values.            *)
LEMMA CountedOnce ==
    ASSUME NEW S, NEW s \in Seq(S), IsInjective(s)
    PROVE  Cardinality(ToSet(s)) = Len(s)
<1>1. Len(s) \in Nat /\ DOMAIN s = 1 .. Len(s) /\ s \in [1 .. Len(s) -> S]
  BY LenProperties
<1>2. IsFiniteSet(1 .. Len(s)) /\ Cardinality(1 .. Len(s)) = Len(s)
  BY <1>1, UpTo
<1>3. s \in [1 .. Len(s) -> ToSet(s)]
  BY <1>1 DEF ToSet
<1>4. s \in Injection(1 .. Len(s), ToSet(s))
  BY <1>3 DEF Injection
<1>5. s \in Surjection(1 .. Len(s), ToSet(s))
  BY <1>1, <1>3 DEF Surjection, ToSet
<1>6. ExistsBijection(1 .. Len(s), ToSet(s))
  BY <1>4, <1>5 DEF ExistsBijection, Bijection
<1> QED
  BY <1>2, <1>6, FS_Bijection

(* Where in their order the members of a set of numbers stand: each number *)
(* up to how many they are is the rank of one of them.                     *)
Rank(J) == [i \in J |-> Cardinality({j \in J : j < i}) + 1]

LEMMA Ranked ==
    ASSUME NEW n \in Nat, NEW J \in SUBSET (1 .. n)
    PROVE  /\ IsFiniteSet(J) /\ Cardinality(J) \in Nat
           /\ Rank(J) \in [J -> 1 .. Cardinality(J)]
           /\ \A i, j \in J : i < j => Rank(J)[i] < Rank(J)[j]
           /\ \A k \in 1 .. Cardinality(J) : \E i \in J : Rank(J)[i] = k
<1> DEFINE Below(i) == {j \in J : j < i}
           m == Cardinality(J)
           rank == Rank(J)
<1>1. IsFiniteSet(J) /\ m \in Nat
  BY UpTo, FS_Subset, FS_CardinalityType
<1>2. ASSUME NEW i \in J
      PROVE  IsFiniteSet(Below(i)) /\ Cardinality(Below(i)) \in Nat
             /\ Cardinality(Below(i) \cup {i}) = Cardinality(Below(i)) + 1
  <2>1. IsFiniteSet(Below(i))
    <3>1. Below(i) \in SUBSET J
      OBVIOUS
    <3> QED
      BY <1>1, <3>1, FS_Subset
  <2>2. Cardinality(Below(i)) \in Nat
    BY <2>1, FS_CardinalityType
  <2>3. i \notin Below(i)
    OBVIOUS
  <2> HIDE DEF Below
  <2>4. Cardinality(Below(i) \cup {i}) = Cardinality(Below(i)) + 1
    BY <2>1, <2>3, FS_AddElement
  <2> QED
    BY <2>1, <2>2, <2>4
<1>3. ASSUME NEW i \in J PROVE rank[i] = Cardinality(Below(i)) + 1 /\ rank[i] \in 1 .. m
  <2>1. rank[i] = Cardinality(Below(i)) + 1
    BY DEF Rank
  <2>2. Below(i) \cup {i} \in SUBSET J
    OBVIOUS
  <2> HIDE DEF Below, m, rank
  <2>3. Cardinality(Below(i) \cup {i}) <= m
    BY <1>1, <2>2, FS_Subset DEF m
  <2> QED
    BY <1>1, <1>2, <2>1, <2>3
<1>4. ASSUME NEW i \in J, NEW j \in J, i < j PROVE rank[i] < rank[j]
  <2>0. \A k \in J : k \in Nat
    OBVIOUS
  <2>1. Below(i) \cup {i} \in SUBSET Below(j)
    <3>1. ASSUME NEW k \in Below(i) \cup {i} PROVE k \in Below(j)
      <4>1. k \in J /\ (k < i \/ k = i)
        OBVIOUS
      <4>2. k \in Nat /\ i \in Nat /\ j \in Nat
        BY <2>0, <4>1
      <4>3. k < j
        BY <1>4, <4>1, <4>2
      <4> QED
        BY <4>1, <4>3
    <3> HIDE DEF Below
    <3> QED
      BY <3>1
  <2> HIDE DEF Below, rank
  <2>2. Cardinality(Below(i) \cup {i}) <= Cardinality(Below(j))
    BY <1>2, <2>1, FS_Subset
  <2>3. rank[i] = Cardinality(Below(i)) + 1 /\ rank[j] = Cardinality(Below(j)) + 1
    BY <1>3
  <2>4. Cardinality(Below(i)) \in Nat /\ Cardinality(Below(j)) \in Nat
    BY <1>2
  <2>5. Cardinality(Below(i)) + 1 <= Cardinality(Below(j))
    BY <1>2, <2>2
  <2> QED
    BY <2>3, <2>4, <2>5
<1>5. rank \in [J -> 1 .. m]
  <2>1. rank = [i \in J |-> rank[i]]
    BY DEF Rank
  <2> HIDE DEF rank, m
  <2> QED
    BY <2>1, <1>3
<1> HIDE DEF rank
<1>6. rank \in Injection(J, 1 .. m)
  <2>1. ASSUME NEW i \in J, NEW j \in J, rank[i] = rank[j] PROVE i = j
    <3>1. rank[i] \in 1 .. m /\ rank[j] \in 1 .. m
      BY <1>3
    <3>2. i \in Nat /\ j \in Nat
      OBVIOUS
    <3>3. rank[i] \in Nat /\ rank[j] \in Nat
      <4> HIDE DEF m
      <4> QED
        BY <1>1, <3>1
    <3> QED
      BY <1>4, <2>1, <3>2, <3>3
  <2> QED
    BY <1>5, <2>1 DEF Injection, IsInjective
<1>7. IsFiniteSet(1 .. m) /\ Cardinality(1 .. m) = m
  BY <1>1, UpTo
<1>8. rank \in Surjection(J, 1 .. m)
  BY <1>6, <1>7, FS_Injection
<1> QED
  BY <1>1, <1>4, <1>5, <1>8 DEF Surjection, rank

(* pos tells where the entries of t stand in s: in order, at all of the    *)
(* positions of J.                                                         *)
Places(pos, t, s, J) ==
    /\ pos \in [1 .. Len(t) -> J]
    /\ \A k, l \in 1 .. Len(t) : k < l => pos[k] < pos[l]
    /\ \A i \in J : \E k \in 1 .. Len(t) : pos[k] = i
    /\ \A k \in 1 .. Len(t) : t[k] = s[pos[k]]

(* What is picked of s: its entries at the positions of I that it has.     *)
LEMMA PickedRight ==
    ASSUME NEW S, NEW s \in Seq(S), NEW I
    PROVE  Picked(s, I) \in Seq(S) /\ \E pos : Places(pos, Picked(s, I), s, I \cap 1 .. Len(s))
<1> DEFINE J == I \cap 1 .. Len(s)
           m == Cardinality(J)
           Nth(k) == CHOOSE i \in J : Cardinality({j \in J : j < i}) = k - 1
           pos == [k \in 1 .. m |-> Nth(k)]
           t == Picked(s, I)
<1>1. Len(s) \in Nat /\ DOMAIN s = 1 .. Len(s) /\ \A i \in 1 .. Len(s) : s[i] \in S
  BY LenProperties, ElementOfSeq
<1>2. t = [k \in 1 .. m |-> s[Nth(k)]]
  BY <1>1 DEF Picked
<1>3. J \in SUBSET (1 .. Len(s))
  OBVIOUS
<1> HIDE DEF J
<1>4. /\ m \in Nat /\ Rank(J) \in [J -> 1 .. m]
      /\ \A i, j \in J : i < j => Rank(J)[i] < Rank(J)[j]
      /\ \A k \in 1 .. m : \E i \in J : Rank(J)[i] = k
      /\ \A i \in J : Cardinality({j \in J : j < i}) \in Nat
  <2>1. \A i \in J : Cardinality({j \in J : j < i}) \in Nat
    <3>1. ASSUME NEW i \in J PROVE Cardinality({j \in J : j < i}) \in Nat
      <4>1. {j \in J : j < i} \in SUBSET J
        OBVIOUS
      <4> QED
        BY <1>1, <1>3, <4>1, Ranked, FS_Subset, FS_CardinalityType
    <3> QED
      BY <3>1
  <2> QED
    BY <1>1, <1>3, <2>1, Ranked
<1>5. ASSUME NEW k \in 1 .. m PROVE Nth(k) \in J /\ Rank(J)[Nth(k)] = k
  <2>1. PICK i \in J : Rank(J)[i] = k
    BY <1>4
  <2>2. Cardinality({j \in J : j < i}) + 1 = k /\ Cardinality({j \in J : j < i}) \in Nat
    BY <1>4, <2>1 DEF Rank
  <2>3. Cardinality({j \in J : j < i}) = k - 1
    BY <2>2
  <2>4. Nth(k) \in J /\ Cardinality({j \in J : j < Nth(k)}) = k - 1
    BY <2>3
  <2> HIDE DEF Nth
  <2>5. Rank(J)[Nth(k)] = Cardinality({j \in J : j < Nth(k)}) + 1
    BY <2>4 DEF Rank
  <2>6. (k - 1) + 1 = k
    OBVIOUS
  <2> QED
    BY <2>4, <2>5, <2>6
<1> HIDE DEF m, Nth, t
<1>6. t \in [1 .. m -> S]
  <2>1. \A k \in 1 .. m : s[Nth(k)] \in S
    BY <1>1, <1>3, <1>5
  <2> QED
    BY <1>2, <2>1
<1>7. t \in Seq(S) /\ Len(t) = m
  BY <1>4, <1>6
<1>8. Places(pos, t, s, J)
  <2>1. pos \in [1 .. m -> J] /\ \A k \in 1 .. m : pos[k] = Nth(k)
    BY <1>5
  <2>2. \A k \in 1 .. m : t[k] = s[pos[k]]
    BY <1>2, <2>1
  <2> HIDE DEF pos
  <2>3. ASSUME NEW k \in 1 .. m, NEW l \in 1 .. m, k < l PROVE pos[k] < pos[l]
    <3>1. pos[k] \in J /\ pos[l] \in J /\ Rank(J)[pos[k]] = k /\ Rank(J)[pos[l]] = l
      BY <1>5, <2>1
    <3>2. \A i \in J : i \in Nat
      BY <1>1, <1>3
    <3>3. k \in Nat /\ l \in Nat /\ ~(l < k) /\ k # l
      BY <1>4, <2>3
    <3>4. ~(pos[l] < pos[k]) /\ pos[k] # pos[l]
      BY <1>4, <3>1, <3>3
    <3> QED
      BY <3>1, <3>2, <3>4
  <2>4. ASSUME NEW i \in J PROVE \E k \in 1 .. m : pos[k] = i
    <3> DEFINE k == Rank(J)[i]
    <3>1. k \in 1 .. m
      BY <1>4
    <3>2. pos[k] \in J /\ Rank(J)[pos[k]] = k
      BY <1>5, <2>1, <3>1
    <3>3. \A j \in J : j \in Nat
      BY <1>1, <1>3
    <3>4. ~(Rank(J)[pos[k]] < k) /\ ~(k < Rank(J)[pos[k]])
      BY <1>4, <3>1, <3>2
    <3>5. ~(pos[k] < i) /\ ~(i < pos[k])
      BY <1>4, <3>2, <3>4
    <3> QED
      BY <3>1, <3>2, <3>3, <3>5
  <2> QED
    BY <1>7, <2>1, <2>2, <2>3, <2>4 DEF Places
<1> QED
  BY <1>7, <1>8 DEF t, J

LEMMA PickedMembers ==
    ASSUME NEW S, NEW s \in Seq(S), NEW I
    PROVE  LET t == Picked(s, I)
           IN  /\ t \in Seq(S)
               /\ \A k \in 1 .. Len(t) : \E i \in I \cap 1 .. Len(s) : t[k] = s[i]
               /\ \A i \in I \cap 1 .. Len(s) : \E k \in 1 .. Len(t) : t[k] = s[i]
<1> DEFINE t == Picked(s, I)
<1>1. PICK pos : Places(pos, t, s, I \cap 1 .. Len(s))
  BY PickedRight
<1>2. t \in Seq(S)
  BY PickedRight
<1> HIDE DEF t
<1>3. ASSUME NEW k \in 1 .. Len(t) PROVE \E i \in I \cap 1 .. Len(s) : t[k] = s[i]
  BY <1>1 DEF Places
<1>4. ASSUME NEW i \in I \cap 1 .. Len(s) PROVE \E k \in 1 .. Len(t) : t[k] = s[i]
  <2>1. PICK k \in 1 .. Len(t) : pos[k] = i
    BY <1>1 DEF Places
  <2> QED
    BY <1>1, <2>1 DEF Places
<1> QED
  BY <1>2, <1>3, <1>4 DEF t

(* No entry twice in s, none twice in what is picked of it.                *)
LEMMA PickedOnce ==
    ASSUME NEW S, NEW s \in Seq(S), IsInjective(s), NEW I
    PROVE  IsInjective(Picked(s, I))
<1> DEFINE t == Picked(s, I)
<1>1. PICK pos : Places(pos, t, s, I \cap 1 .. Len(s))
  BY PickedRight
<1>2. t \in Seq(S)
  BY PickedRight
<1> HIDE DEF t
<1>3. DOMAIN t = 1 .. Len(t) /\ Len(t) \in Nat /\ DOMAIN s = 1 .. Len(s)
  BY <1>2, LenProperties
<1>4. ASSUME NEW k \in 1 .. Len(t), NEW l \in 1 .. Len(t), t[k] = t[l] PROVE k = l
  <2>1. s[pos[k]] = s[pos[l]] /\ pos[k] \in 1 .. Len(s) /\ pos[l] \in 1 .. Len(s)
    BY <1>1, <1>4 DEF Places
  <2>2. pos[k] = pos[l]
    BY <1>3, <2>1 DEF IsInjective
  <2>3. ~(k < l) /\ ~(l < k)
    BY <1>1, <2>1, <2>2 DEF Places
  <2> QED
    BY <1>3, <2>3
<1> QED
  BY <1>3, <1>4 DEF t, IsInjective

(* ------------------------- the list of threads -------------------------- *)

(* A thread leaves the list, and comes to its front.                       *)
LEMMA Delisted ==
    ASSUME NEW s \in Seq(Thread), IsInjective(s), NEW c
    PROVE  LET t == Picked(s, {i \in DOMAIN s : s[i] # c})
           IN  t \in Seq(Thread) /\ IsInjective(t) /\ ToSet(t) = ToSet(s) \ {c}
<1> DEFINE I == {i \in DOMAIN s : s[i] # c}
           t == Picked(s, I)
<1>1. DOMAIN s = 1 .. Len(s)
  BY LenProperties
<1> HIDE DEF I
<1>2. /\ t \in Seq(Thread) /\ IsInjective(t)
      /\ \A k \in 1 .. Len(t) : \E i \in I \cap 1 .. Len(s) : t[k] = s[i]
      /\ \A i \in I \cap 1 .. Len(s) : \E k \in 1 .. Len(t) : t[k] = s[i]
  BY PickedMembers, PickedOnce
<1> HIDE DEF t
<1>3. DOMAIN t = 1 .. Len(t)
  BY <1>2, LenProperties
<1>4. ASSUME NEW x \in ToSet(t) PROVE x \in ToSet(s) \ {c}
  <2>1. PICK k \in 1 .. Len(t) : t[k] = x
    BY <1>3, <1>4 DEF ToSet
  <2>2. PICK i \in I \cap 1 .. Len(s) : t[k] = s[i]
    BY <1>2
  <2> QED
    BY <1>1, <2>1, <2>2 DEF ToSet, I
<1>5. ASSUME NEW x \in ToSet(s) \ {c} PROVE x \in ToSet(t)
  <2>1. PICK i \in DOMAIN s : s[i] = x
    BY <1>5 DEF ToSet
  <2>2. i \in I \cap 1 .. Len(s)
    BY <1>1, <1>5, <2>1 DEF I
  <2>3. PICK k \in 1 .. Len(t) : t[k] = s[i]
    BY <1>2, <2>2
  <2> QED
    BY <1>3, <2>1, <2>3 DEF ToSet
<1> QED
  BY <1>2, <1>4, <1>5 DEF t, I

LEMMA Fronted ==
    ASSUME NEW s \in Seq(Thread), IsInjective(s), NEW c \in Thread, c \notin ToSet(s)
    PROVE  LET t == <<c>> \o s
           IN  t \in Seq(Thread) /\ IsInjective(t) /\ ToSet(t) = ToSet(s) \cup {c}
<1> DEFINE t == <<c>> \o s
<1>1. /\ t \in Seq(Thread) /\ Len(t) = Len(s) + 1 /\ t[1] = c
      /\ \A i \in 1 .. Len(s) : t[i + 1] = s[i]
      /\ Len(s) \in Nat
  BY LenProperties
<1> HIDE DEF t
<1>2. DOMAIN t = 1 .. Len(s) + 1 /\ DOMAIN s = 1 .. Len(s)
  BY <1>1, LenProperties
<1>3. \A i \in DOMAIN t : i = 1 \/ (i - 1 \in DOMAIN s /\ t[i] = s[i - 1])
  <2> SUFFICES ASSUME NEW i \in DOMAIN t, i # 1 PROVE i - 1 \in DOMAIN s /\ t[i] = s[i - 1]
    OBVIOUS
  <2>1. i - 1 \in 1 .. Len(s) /\ (i - 1) + 1 = i
    BY <1>1, <1>2
  <2> QED
    BY <1>1, <1>2, <2>1
<1>4. IsInjective(t)
  <2> SUFFICES ASSUME NEW i \in DOMAIN t, NEW j \in DOMAIN t, t[i] = t[j] PROVE i = j
    BY DEF IsInjective
  <2>1. i \in Nat /\ j \in Nat
    BY <1>2
  <2>2. \A m \in DOMAIN s : s[m] # c
    BY DEF ToSet
  <2>3. CASE i = 1 /\ j # 1
    BY <1>1, <1>3, <2>2, <2>3
  <2>4. CASE i # 1 /\ j = 1
    BY <1>1, <1>3, <2>2, <2>4
  <2>5. CASE i # 1 /\ j # 1
    <3>1. s[i - 1] = s[j - 1] /\ i - 1 \in DOMAIN s /\ j - 1 \in DOMAIN s
      BY <1>3, <2>5
    <3>2. i - 1 = j - 1
      BY <3>1 DEF IsInjective
    <3> QED
      BY <2>1, <3>2
  <2> QED
    BY <2>3, <2>4, <2>5
<1>5. ToSet(t) = ToSet(s) \cup {c}
  <2>1. \A x : x \in ToSet(t) => x \in ToSet(s) \cup {c}
    BY <1>1, <1>3 DEF ToSet
  <2>2. ToSet(s) \subseteq ToSet(t)
    <3> SUFFICES ASSUME NEW i \in DOMAIN s PROVE s[i] \in ToSet(t)
      BY DEF ToSet
    <3>1. i + 1 \in DOMAIN t /\ t[i + 1] = s[i]
      BY <1>1, <1>2
    <3> QED
      BY <3>1 DEF ToSet
  <2>3. c \in ToSet(t)
    BY <1>1, <1>2 DEF ToSet
  <2> QED
    BY <2>1, <2>2, <2>3
<1> QED
  BY <1>1, <1>4, <1>5 DEF t

(* ------------------ threads and panels under a later T ------------------ *)

LEMMA ThreadsStay ==
    ASSUME NEW T \in Seq(TurnRecord), NEW U \in Seq(TurnRecord), Later(T, U),
           \A k \in 1..Len(U) : U[k].stage \in Settled => k \in 1..Len(T) /\ T[k].stage \in Settled,
           NEW stored \in [Thread -> Seq(Message) \cup {None}], ThreadsHold(T, stored)
    PROVE  ThreadsHold(U, stored)
<1>1. ASSUME NEW c \in Thread, stored[c] # None PROVE Whole(U, stored[c], c)
  <2>1. stored[c] \in Seq(Message) /\ Whole(T, stored[c], c)
    BY <1>1 DEF ThreadsHold
  <2> QED
    BY <2>1, WholeStays
<1>2. ASSUME NEW k \in 1..Len(U), U[k].stage \in Settled
      PROVE  U[k].thread # None /\ (stored[U[k].thread] # None => Has(U, stored[U[k].thread], k))
  <2>1. k \in 1..Len(T) /\ T[k].stage \in Settled
    BY <1>2
  <2>2. U[k].thread = T[k].thread
    BY <2>1 DEF Later
  <2>3. T[k].thread # None /\ (stored[T[k].thread] # None => Has(T, stored[T[k].thread], k))
    BY <2>1 DEF ThreadsHold
  <2> QED
    BY <2>1, <2>2, <2>3, HasStays
<1> QED
  BY <1>1, <1>2 DEF ThreadsHold

LEMMA PanelStays ==
    ASSUME NEW T \in Seq(TurnRecord), NEW U \in Seq(TurnRecord), Later(T, U),
           NEW p \in Panel, NEW s \in PanelState,
           NEW stored, NEW now,
           PanelHolds(T, stored, s, p),
           \A k \in 1..Len(U) : /\ U[k].stage = "answered" /\ U[k].panel = p
                                /\ U[k].thread # None /\ now[U[k].thread] # None
                => /\ k \in 1..Len(T) /\ T[k].stage = "answered" /\ stored[U[k].thread] # None
    PROVE  PanelHolds(U, now, s, p)
<1>0. Len(T) \in Nat /\ Len(U) \in Nat /\ Len(T) <= Len(U)
  BY LenProperties DEF Later
<1>1. /\ s.sending \in 1..Len(U) \cup {0} /\ s.wiping \subseteq s.stale
      /\ s.sending # 0 => U[s.sending].panel = p
      /\ s.wiping = {} => s.pending = <<>> \/ (s.sending # 0 /\ s.pending = <<Ask(s.sending)>>)
  <2>1. /\ s.sending \in 1..Len(T) \cup {0} /\ s.wiping \subseteq s.stale
        /\ s.sending # 0 => T[s.sending].panel = p
        /\ s.wiping = {} => s.pending = <<>> \/ (s.sending # 0 /\ s.pending = <<Ask(s.sending)>>)
    BY DEF PanelHolds
  <2>2. s.sending # 0 => U[s.sending].panel = T[s.sending].panel
    BY <2>1 DEF Later
  <2> QED
    BY <1>0, <2>1, <2>2
<1>2. ASSUME NEW c \in Thread, s.cache[c] # None PROVE Whole(U, s.cache[c], c)
  <2>1. s.cache[c] \in Seq(Message) /\ Whole(T, s.cache[c], c)
    BY <1>2 DEF PanelHolds, PanelState
  <2> QED
    BY <2>1, WholeStays
<1>3. ASSUME NEW k \in 1..Len(U), NEW c, c = U[k].thread,
             U[k].stage = "answered", U[k].panel = p, c # None,
             c \notin s.stale, now[c] # None, s.cache[c] # None
      PROVE  Has(U, s.cache[c], k)
  <2>1. k \in 1..Len(T) /\ T[k].stage = "answered" /\ stored[c] # None
    BY <1>3
  <2>2. T[k].stage \in Settled
    BY <2>1 DEF Settled
  <2>3. T[k].thread = c /\ T[k].panel = p
    BY <1>3, <2>1, <2>2 DEF Later
  <2>4. Has(T, s.cache[c], k)
    BY <1>3, <2>1, <2>3 DEF PanelHolds
  <2> QED
    BY <2>1, <2>2, <2>4, HasStays
<1> QED
  BY <1>1, <1>2, <1>3 DEF PanelHolds

(* One turn of T changes, and only from running, to failed, to stored, or  *)
(* between the stages of one that is stored.                               *)
LEMMA TurnChanges ==
    ASSUME NEW T \in Seq(TurnRecord), NEW k \in 1..Len(T), NEW r \in TurnRecord,
           r.panel = T[k].panel,
           T[k].stage \in Settled => (r.stage \in Settled /\ r.thread = T[k].thread /\ r.wrote = T[k].wrote)
    PROVE  LET U == [T EXCEPT ![k] = r]
           IN  /\ U \in Seq(TurnRecord) /\ Len(U) = Len(T) /\ Later(T, U)
               /\ U[k] = r /\ \A j \in 1..Len(T) : j # k => U[j] = T[j]
<1> DEFINE U == [T EXCEPT ![k] = r]
<1>1. Len(T) \in Nat /\ DOMAIN T = 1..Len(T)
  BY LenProperties
<1>2. U \in Seq(TurnRecord) /\ Len(U) = Len(T) /\ U[k] = r /\ \A j \in 1..Len(T) : j # k => U[j] = T[j]
  BY <1>1, ExceptSeq
<1> HIDE DEF U
<1>3. Later(T, U)
  BY <1>1, <1>2 DEF Later
<1> QED
  BY <1>2, <1>3 DEF U

LEMMA TurnBegins ==
    ASSUME NEW T \in Seq(TurnRecord), NEW r \in TurnRecord
    PROVE  LET U == Append(T, r)
           IN  /\ U \in Seq(TurnRecord) /\ Len(U) = Len(T) + 1 /\ Later(T, U)
               /\ U[Len(T) + 1] = r /\ \A j \in 1..Len(T) : U[j] = T[j]
<1> DEFINE U == Append(T, r)
<1>1. Len(T) \in Nat
  BY LenProperties
<1>2. /\ U \in Seq(TurnRecord) /\ Len(U) = Len(T) + 1
      /\ U[Len(T) + 1] = r /\ \A j \in 1..Len(T) : U[j] = T[j]
  BY <1>1, AppendProperties
<1> HIDE DEF U
<1>3. Later(T, U)
  BY <1>1, <1>2 DEF Later
<1> QED
  BY <1>2, <1>3 DEF U

(* A step that leaves the threads and the panels alone and settles nothing. *)
LEMMA TurnStep ==
    ASSUME ChatInv, turns' \in Seq(TurnRecord), Later(turns, turns'), Len(turns') <= MaxTurns,
           \A k \in 1..Len(turns') : /\ turns'[k].stage \in Settled => k \in Turn /\ turns[k].stage \in Settled
                                     /\ turns'[k].stage = "answered" => turns[k].stage = "answered",
           notes' \subseteq 1..Len(turns'), UNCHANGED <<threads, recent, panel>>
    PROVE  ChatInv'
<1>0. /\ ChatTypes /\ Listed(recent, threads) /\ ThreadsHold(turns, threads)
      /\ \A p \in Panel : PanelHolds(turns, threads, panel[p], p)
  BY DEF ChatInv
<1>1. ChatTypes'
  BY <1>0 DEF ChatTypes
<1>2. ThreadsHold(turns', threads)
  BY <1>0, ThreadsStay DEF ChatTypes, Turn
<1>3. ASSUME NEW p \in Panel PROVE PanelHolds(turns', threads, panel[p], p)
  <2>1. panel[p] \in PanelState /\ PanelHolds(turns, threads, panel[p], p) /\ turns \in Seq(TurnRecord)
    BY <1>0 DEF ChatTypes
  <2>2. \A k \in 1..Len(turns') : turns'[k].stage = "answered" => k \in 1..Len(turns)
    BY DEF Settled, Turn
  <2> QED
    BY <2>1, <2>2, PanelStays
<1>4. notes' \subseteq Turn'
  BY DEF Turn
<1> QED
  BY <1>0, <1>1, <1>2, <1>3, <1>4 DEF ChatInv

LEMMA RunToolHolds == ASSUME ChatInv, NEW k \in Turn, RunTool(k) PROVE ChatInv'
<1> DEFINE r == [turns[k] EXCEPT !.wrote = TRUE]
           U == [turns EXCEPT ![k] = r]
<1>0. turns \in Seq(TurnRecord) /\ Len(turns) <= MaxTurns /\ notes \subseteq Turn /\ k \in 1..Len(turns)
  BY DEF ChatInv, ChatTypes, Turn
<1>1. turns[k] \in TurnRecord /\ turns[k].stage = "running"
  BY <1>0, ElementOfSeq DEF RunTool
<1>2. r \in TurnRecord /\ r.stage = "running"
  BY <1>1 DEF TurnRecord
<1>3. r.panel = turns[k].panel
  BY <1>1 DEF TurnRecord
<1>4. turns[k].stage \in Settled => (r.stage \in Settled /\ r.thread = turns[k].thread /\ r.wrote = turns[k].wrote)
  BY <1>1 DEF Settled
<1>5. turns' = U /\ notes' = notes \cup {k} /\ UNCHANGED <<threads, recent, panel>>
  BY DEF RunTool
<1> HIDE DEF r
<1>6. /\ U \in Seq(TurnRecord) /\ Len(U) = Len(turns) /\ Later(turns, U)
      /\ U[k] = r /\ \A j \in 1..Len(turns) : j # k => U[j] = turns[j]
  BY <1>0, <1>2, <1>3, <1>4, TurnChanges
<1> HIDE DEF U
<1> QED
  BY <1>0, <1>1, <1>2, <1>5, <1>6, TurnStep DEF Settled, Turn

LEMMA StageHolds ==
    ASSUME ChatInv, NEW k \in Turn, NEW stage \in Stages \ {"answered"},
           turns[k].stage \in Settled <=> stage \in Settled,
           Stage(k, stage), UNCHANGED <<threads, recent, notes, panel>>
    PROVE  ChatInv'
<1> DEFINE r == [turns[k] EXCEPT !.stage = stage]
           U == [turns EXCEPT ![k] = r]
<1>0. turns \in Seq(TurnRecord) /\ Len(turns) <= MaxTurns /\ notes \subseteq Turn /\ k \in 1..Len(turns)
  BY DEF ChatInv, ChatTypes, Turn
<1>1. turns[k] \in TurnRecord
  BY <1>0, ElementOfSeq
<1>2. r \in TurnRecord /\ r.stage = stage
  BY <1>1 DEF TurnRecord
<1>3. r.panel = turns[k].panel
  BY <1>1 DEF TurnRecord
<1>4. turns[k].stage \in Settled => (r.stage \in Settled /\ r.thread = turns[k].thread /\ r.wrote = turns[k].wrote)
  BY <1>1 DEF TurnRecord
<1>5. turns' = U
  BY DEF Stage
<1> HIDE DEF r
<1>6. /\ U \in Seq(TurnRecord) /\ Len(U) = Len(turns) /\ Later(turns, U)
      /\ U[k] = r /\ \A j \in 1..Len(turns) : j # k => U[j] = turns[j]
  BY <1>0, <1>2, <1>3, <1>4, TurnChanges
<1> HIDE DEF U
<1> QED
  BY <1>0, <1>2, <1>5, <1>6, TurnStep DEF Turn

LEMMA AskElsewhereHolds == ASSUME ChatInv, NEW c \in Thread, AskElsewhere(c) PROVE ChatInv'
<1>0. turns \in Seq(TurnRecord) /\ Len(turns) <= MaxTurns /\ notes \subseteq Turn /\ Len(turns) \in Nat
  BY LenProperties DEF ChatInv, ChatTypes
<1> DEFINE r == [panel |-> None, ask |-> None, thread |-> c, stage |-> "running", wrote |-> FALSE]
<1>1. r \in TurnRecord /\ r.stage = "running"
  BY DEF TurnRecord, Stages
<1>2. turns' = Append(turns, r) /\ Len(turns) < MaxTurns /\ UNCHANGED <<threads, recent, notes, panel>>
  BY DEF AskElsewhere
<1> HIDE DEF r
<1>3. /\ turns' \in Seq(TurnRecord) /\ Len(turns') = Len(turns) + 1 /\ Later(turns, turns')
      /\ turns'[Len(turns) + 1] = r /\ \A j \in 1..Len(turns) : turns'[j] = turns[j]
  <2>1. turns \in Seq(TurnRecord) /\ r \in TurnRecord /\ turns' = Append(turns, r)
    BY <1>0, <1>1, <1>2
  <2> QED
    BY <2>1, TurnBegins
<1>4. 1..Len(turns') = 1..Len(turns) \cup {Len(turns) + 1}
  BY <1>0, <1>3
<1> QED
  BY <1>0, <1>1, <1>2, <1>3, <1>4, MaxTurnsAssumption, TurnStep DEF Turn, Settled

(* ------------------------- the stored threads --------------------------- *)

LEMMA DeletionHolds ==
    ASSUME ChatInv, NEW c \in Thread,
           threads' = [threads EXCEPT ![c] = None], recent' = Without(c), UNCHANGED <<notes, turns>>
    PROVE  /\ threads' \in [Thread -> Seq(Message) \cup {None}] /\ recent' \in Seq(Thread)
           /\ Listed(recent', threads') /\ ThreadsHold(turns', threads')
           /\ \A p \in Panel : PanelHolds(turns', threads', panel[p], p)
<1>0. /\ ChatTypes /\ Listed(recent, threads) /\ ThreadsHold(turns, threads)
      /\ \A p \in Panel : PanelHolds(turns, threads, panel[p], p)
      /\ turns' = turns
  BY DEF ChatInv
<1>1. /\ threads' \in [Thread -> Seq(Message) \cup {None}] /\ threads'[c] = None
      /\ \A d \in Thread : d # c => threads'[d] = threads[d]
  BY <1>0 DEF ChatTypes
<1>2. recent' \in Seq(Thread) /\ IsInjective(recent') /\ ToSet(recent') = ToSet(recent) \ {c}
  BY <1>0, Delisted DEF ChatTypes, Listed, Without
<1>3. Listed(recent', threads')
  BY <1>0, <1>1, <1>2 DEF Listed
<1>4. ThreadsHold(turns, threads')
  <2>1. ASSUME NEW k \in 1..Len(turns), turns[k].stage \in Settled
        PROVE  /\ turns[k].thread # None
               /\ threads'[turns[k].thread] # None => Has(turns, threads'[turns[k].thread], k)
    <3>1. turns[k].thread \in Thread
      <4>1. turns[k] \in TurnRecord
        BY <1>0, ElementOfSeq DEF ChatTypes
      <4> QED
        BY <1>0, <2>1, <4>1 DEF ThreadsHold, TurnRecord
    <3> QED
      BY <1>0, <1>1, <2>1, <3>1 DEF ThreadsHold
  <2> QED
    BY <1>0, <1>1, <2>1 DEF ThreadsHold
<1>5. ASSUME NEW p \in Panel PROVE PanelHolds(turns, threads', panel[p], p)
  <2>1. ASSUME NEW k \in 1..Len(turns), turns[k].thread # None, threads'[turns[k].thread] # None
        PROVE  threads[turns[k].thread] # None
    <3>1. turns[k].thread \in Thread
      <4>1. turns[k] \in TurnRecord
        BY <1>0, ElementOfSeq DEF ChatTypes
      <4> QED
        BY <2>1, <4>1 DEF TurnRecord
    <3> QED
      BY <1>1, <2>1, <3>1
  <2> QED
    BY <1>0, <2>1 DEF PanelHolds
<1> QED
  BY <1>0, <1>1, <1>2, <1>3, <1>4, <1>5

LEMMA DeleteElsewhereHolds == ASSUME ChatInv, NEW c \in Thread, DeleteElsewhere(c) PROVE ChatInv'
<1>1. /\ threads' = [threads EXCEPT ![c] = None] /\ recent' = Without(c) /\ UNCHANGED <<notes, turns, panel>>
  BY DEF DeleteElsewhere
<1>2. /\ threads' \in [Thread -> Seq(Message) \cup {None}] /\ recent' \in Seq(Thread)
      /\ Listed(recent', threads') /\ ThreadsHold(turns', threads')
      /\ \A p \in Panel : PanelHolds(turns', threads', panel[p], p)
  BY <1>1, DeletionHolds
<1> QED
  BY <1>1, <1>2 DEF ChatInv, ChatTypes, Turn

LEMMA StoreTurnHolds == ASSUME ChatInv, NEW k \in Turn, NEW c \in Thread, StoreTurn(k, c) PROVE ChatInv'
<1> DEFINE r == [turns[k] EXCEPT !.stage = "stored", !.thread = c]
           U == [turns EXCEPT ![k] = r]
           old == IF threads[c] = None THEN <<>> ELSE threads[c]
           new == old \o <<Ask(k), Answer(turns, k)>>
<1>0. /\ ChatTypes /\ Listed(recent, threads) /\ ThreadsHold(turns, threads)
      /\ \A p \in Panel : panel[p] \in PanelState /\ PanelHolds(turns, threads, panel[p], p)
      /\ turns \in Seq(TurnRecord) /\ Len(turns) <= MaxTurns /\ notes \subseteq Turn /\ k \in 1..Len(turns)
  BY DEF ChatInv, ChatTypes, Turn
<1>1. turns[k] \in TurnRecord /\ turns[k].stage = "running"
  BY <1>0, ElementOfSeq DEF StoreTurn
<1>2. r \in TurnRecord /\ r.stage = "stored" /\ r.thread = c /\ r.wrote = turns[k].wrote
  BY <1>1 DEF TurnRecord, Stages
<1>3. r.panel = turns[k].panel
  BY <1>1 DEF TurnRecord
<1>4. turns[k].stage \in Settled => (r.stage \in Settled /\ r.thread = turns[k].thread /\ r.wrote = turns[k].wrote)
  BY <1>1 DEF Settled
<1>5. /\ turns' = U /\ UNCHANGED <<notes, panel>>
      /\ threads' = [threads EXCEPT ![c] = new]
      /\ recent' = <<c>> \o Without(c)
  BY <1>0, <1>1 DEF StoreTurn, Reply, Answer
<1> HIDE DEF r
<1>6. /\ U \in Seq(TurnRecord) /\ Len(U) = Len(turns) /\ Later(turns, U)
      /\ U[k] = r /\ \A j \in 1..Len(turns) : j # k => U[j] = turns[j]
  BY <1>0, <1>2, <1>3, <1>4, TurnChanges
<1> HIDE DEF U
<1>7. old \in Seq(Message) /\ (old = <<>> \/ Whole(turns, old, c))
  BY <1>0, EmptySeq DEF ThreadsHold, ChatTypes
<1>8. threads[c] = None => \A j \in Turn : turns[j].thread # c
  BY DEF StoreTurn
<1>9. threads[c] # None => old = threads[c]
  OBVIOUS
<1> HIDE DEF old
<1>10. /\ new \in Seq(Message) /\ Whole(U, new, c) /\ Has(U, new, k)
       /\ \A j \in 1..Len(turns) : turns[j].stage \in Settled /\ Has(turns, old, j) => Has(U, new, j)
  <2>1. U[k].thread = c /\ U[k].stage \in Settled /\ U[k].wrote = turns[k].wrote
    BY <1>2, <1>6 DEF Settled
  <2> QED
    BY <1>0, <1>1, <1>6, <1>7, <2>1, WholeGrows
<1> HIDE DEF new
<1>11. /\ threads' \in [Thread -> Seq(Message) \cup {None}] /\ threads'[c] = new /\ new # None
       /\ \A d \in Thread : d # c => threads'[d] = threads[d]
  BY <1>0, <1>5, <1>10, NoneIsNoTranscript DEF ChatTypes
<1>12. recent' \in Seq(Thread) /\ Listed(recent', threads')
  <2> DEFINE w == Without(c)
  <2>1. w \in Seq(Thread) /\ IsInjective(w) /\ ToSet(w) = ToSet(recent) \ {c}
    BY <1>0, Delisted DEF ChatTypes, Listed, Without
  <2> HIDE DEF w
  <2>2. recent' = <<c>> \o w
    BY <1>5 DEF w
  <2>3. recent' \in Seq(Thread) /\ IsInjective(recent') /\ ToSet(recent') = ToSet(w) \cup {c}
    BY <2>1, <2>2, Fronted
  <2> QED
    BY <1>0, <1>11, <2>1, <2>3 DEF Listed
<1>13. ASSUME NEW d \in Thread, threads'[d] # None PROVE Whole(U, threads'[d], d)
  <2>1. CASE d = c
    BY <1>10, <1>11, <2>1
  <2>2. CASE d # c
    <3>1. threads'[d] = threads[d] /\ threads[d] \in Seq(Message) /\ Whole(turns, threads[d], d)
      BY <1>0, <1>11, <1>13, <2>2 DEF ThreadsHold, ChatTypes
    <3> QED
      BY <1>0, <1>6, <3>1, WholeStays
  <2> QED
    BY <2>1, <2>2
<1>14. ASSUME NEW j \in 1..Len(U), U[j].stage \in Settled
       PROVE  U[j].thread # None /\ (threads'[U[j].thread] # None => Has(U, threads'[U[j].thread], j))
  <2>1. CASE j = k
    BY <1>2, <1>6, <1>10, <1>11, <2>1, NoneIsNoThread
  <2>2. CASE j # k
    <3>1. /\ j \in 1..Len(turns) /\ j \in Turn /\ U[j] = turns[j] /\ turns[j] \in TurnRecord
      BY <1>0, <1>6, <2>2, ElementOfSeq DEF Turn
    <3>2. /\ turns[j].stage \in Settled /\ turns[j].thread # None /\ turns[j].thread \in Thread
          /\ threads[turns[j].thread] # None => Has(turns, threads[turns[j].thread], j)
      BY <1>0, <1>14, <3>1 DEF ThreadsHold, TurnRecord
    <3>3. CASE turns[j].thread = c
      <4>1. threads[c] # None
        BY <1>8, <3>1, <3>3
      <4>2. Has(turns, old, j)
        BY <1>9, <3>2, <3>3, <4>1
      <4> QED
        BY <1>10, <1>11, <3>1, <3>2, <3>3, <4>2
    <3>4. CASE turns[j].thread # c
      <4>1. threads'[turns[j].thread] = threads[turns[j].thread]
        BY <1>11, <3>2, <3>4
      <4> QED
        BY <1>6, <3>1, <3>2, <4>1, HasStays
    <3> QED
      BY <3>3, <3>4
  <2> QED
    BY <2>1, <2>2
<1>15. ThreadsHold(U, threads')
  BY <1>13, <1>14 DEF ThreadsHold
<1>16. ASSUME NEW p \in Panel PROVE PanelHolds(U, threads', panel[p], p)
  <2>1. ASSUME NEW j \in 1..Len(U), U[j].stage = "answered",
               U[j].thread # None, threads'[U[j].thread] # None
        PROVE  j \in 1..Len(turns) /\ turns[j].stage = "answered" /\ threads[U[j].thread] # None
    <3>1. j # k
      BY <1>2, <1>6, <2>1
    <3>2. /\ j \in 1..Len(turns) /\ j \in Turn /\ U[j] = turns[j] /\ turns[j] \in TurnRecord
      BY <1>0, <1>6, <3>1, ElementOfSeq DEF Turn
    <3>3. U[j].thread \in Thread
      BY <2>1, <3>2 DEF TurnRecord
    <3>4. U[j].thread = c => threads[c] # None
      BY <1>8, <3>2
    <3> QED
      BY <1>11, <2>1, <3>2, <3>3, <3>4
  <2>2. panel[p] \in PanelState /\ PanelHolds(turns, threads, panel[p], p) /\ turns \in Seq(TurnRecord)
        /\ U \in Seq(TurnRecord) /\ Later(turns, U)
    BY <1>0, <1>6
  <2> QED
    BY <2>1, <2>2, PanelStays
<1>17. notes' \subseteq Turn' /\ Len(turns') <= MaxTurns
  BY <1>0, <1>5, <1>6 DEF Turn
<1>18. ChatTypes'
  BY <1>0, <1>5, <1>6, <1>11, <1>12 DEF ChatTypes
<1> QED
  BY <1>5, <1>12, <1>15, <1>16, <1>17, <1>18 DEF ChatInv

(* ----------------------------- the panels ------------------------------- *)

(* One panel changes its state, and no turn and no thread does.            *)
LEMMA PanelStep ==
    ASSUME ChatInv, NEW p \in Panel, NEW s \in PanelState, Set(p, s),
           PanelHolds(turns, threads, s, p), UNCHANGED <<threads, recent, notes, turns>>
    PROVE  ChatInv'
<1>1. /\ panel' \in [Panel -> PanelState] /\ panel'[p] = s
      /\ \A q \in Panel : q # p => panel'[q] = panel[q]
  BY DEF Set, ChatInv, ChatTypes
<1>2. ChatTypes'
  BY <1>1 DEF ChatInv, ChatTypes
<1>3. \A q \in Panel : PanelHolds(turns', threads', panel'[q], q)
  BY <1>1 DEF ChatInv
<1> QED
  BY <1>2, <1>3 DEF ChatInv, Turn

LEMMA PanelKnown ==
    ASSUME ChatInv, NEW p \in Panel
    PROVE  panel[p] \in PanelState /\ PanelHolds(turns, threads, panel[p], p)
BY DEF ChatInv, ChatTypes

(* Other fields than those of the panel's messages change: only pending    *)
(* may go.                                                                 *)
LEMMA PendingGoes ==
    ASSUME NEW T, NEW stored, NEW p, NEW s \in PanelState, NEW t \in PanelState, PanelHolds(T, stored, s, p),
           t.sending = s.sending, t.wiping = s.wiping, t.stale = s.stale, t.cache = s.cache,
           t.pending \in {s.pending, <<>>}
    PROVE  PanelHolds(T, stored, t, p)
BY DEF PanelHolds

LEMMA ShownIsAThread ==
    ASSUME NEW s \in PanelState
    PROVE  Shown(s) \in Thread \cup {None}
<1>1. s.list # <<>> => s.list[1] \in Thread
  BY DEF PanelState
<1> QED
  BY <1>1 DEF Shown, PanelState

LEMMA QuietHolds ==
    ASSUME ChatInv, NEW p \in Panel,
           \/ LoadList(p) \/ StartNewChat(p) \/ Deleted(p)
           \/ \E q \in Question : Write(p, q)
           \/ \E c \in Thread : Pick(p, c)
    PROVE  ChatInv'
<1> DEFINE s == panel[p]
<1>0. s \in PanelState /\ PanelHolds(turns, threads, s, p) /\ recent \in Seq(Thread) /\ <<>> \in Seq(Message)
  BY PanelKnown, EmptySeq DEF ChatInv, ChatTypes
<1>1. SUFFICES ASSUME NEW t \in PanelState, Set(p, t), UNCHANGED <<threads, recent, notes, turns>>,
                      t.sending = s.sending, t.wiping = s.wiping, t.stale = s.stale, t.cache = s.cache,
                      t.pending \in {s.pending, <<>>}
               PROVE  ChatInv'
  <2> HIDE DEF s
  <2>1. CASE LoadList(p)
    <3> DEFINE t == [s EXCEPT !.list = recent]
    <3>1. /\ t \in PanelState /\ t.sending = s.sending /\ t.wiping = s.wiping /\ t.stale = s.stale
          /\ t.cache = s.cache /\ t.pending = s.pending
      BY <1>0 DEF PanelState
    <3>2. Set(p, t) /\ UNCHANGED <<threads, recent, notes, turns>>
      BY <2>1 DEF LoadList, s
    <3> HIDE DEF t
    <3> QED
      BY <3>1, <3>2
  <2>2. CASE StartNewChat(p)
    <3> DEFINE t == [s EXCEPT !.selection = "new", !.pending = <<>>]
    <3>1. /\ t \in PanelState /\ t.sending = s.sending /\ t.wiping = s.wiping /\ t.stale = s.stale
          /\ t.cache = s.cache /\ t.pending = <<>>
      BY <1>0 DEF PanelState
    <3>2. Set(p, t) /\ UNCHANGED <<threads, recent, notes, turns>>
      BY <2>2 DEF StartNewChat, s
    <3> HIDE DEF t
    <3> QED
      BY <3>1, <3>2
  <2>3. CASE Deleted(p) /\ Shown(s) = s.removing
    <3> DEFINE t == [s EXCEPT !.removing = None, !.selection = "auto", !.pending = <<>>]
    <3>1. /\ t \in PanelState /\ t.sending = s.sending /\ t.wiping = s.wiping /\ t.stale = s.stale
          /\ t.cache = s.cache /\ t.pending = <<>>
      BY <1>0 DEF PanelState
    <3>2. Set(p, t) /\ UNCHANGED <<threads, recent, notes, turns>>
      BY <2>3 DEF Deleted, s
    <3> HIDE DEF t
    <3> QED
      BY <3>1, <3>2
  <2>4. CASE Deleted(p) /\ Shown(s) # s.removing
    <3> DEFINE t == [s EXCEPT !.removing = None]
    <3>1. /\ t \in PanelState /\ t.sending = s.sending /\ t.wiping = s.wiping /\ t.stale = s.stale
          /\ t.cache = s.cache /\ t.pending = s.pending
      BY <1>0 DEF PanelState
    <3>2. Set(p, t) /\ UNCHANGED <<threads, recent, notes, turns>>
      BY <2>4 DEF Deleted, s
    <3> HIDE DEF t
    <3> QED
      BY <3>1, <3>2
  <2>5. ASSUME NEW q \in Question, Write(p, q) PROVE ChatInv'
    <3> DEFINE t == [s EXCEPT !.draft = q]
    <3>1. /\ t \in PanelState /\ t.sending = s.sending /\ t.wiping = s.wiping /\ t.stale = s.stale
          /\ t.cache = s.cache /\ t.pending = s.pending
      BY <1>0 DEF PanelState
    <3>2. Set(p, t) /\ UNCHANGED <<threads, recent, notes, turns>>
      BY <2>5 DEF Write, s
    <3> HIDE DEF t
    <3> QED
      BY <3>1, <3>2
  <2>6. ASSUME NEW c \in Thread, Pick(p, c) PROVE ChatInv'
    <3> DEFINE t == [s EXCEPT !.selection = c, !.pending = <<>>]
    <3>1. /\ t \in PanelState /\ t.sending = s.sending /\ t.wiping = s.wiping /\ t.stale = s.stale
          /\ t.cache = s.cache /\ t.pending = <<>>
      BY <1>0 DEF PanelState
    <3>2. Set(p, t) /\ UNCHANGED <<threads, recent, notes, turns>>
      BY <2>6 DEF Pick, s
    <3> HIDE DEF t
    <3> QED
      BY <3>1, <3>2
  <2> QED
    BY <2>1, <2>2, <2>3, <2>4, <2>5, <2>6
<1>2. PanelHolds(turns, threads, t, p)
  BY <1>0, <1>1, PendingGoes
<1> QED
  BY <1>1, <1>2, PanelStep

(* What is fetched is the thread as it is stored, if it is.                *)
LEMMA FetchedIsStored ==
    ASSUME ChatInv, NEW p \in Panel, NEW c \in Thread, NEW t, t = Fetched(panel[p], c)
    PROVE  /\ t \in PanelState /\ t.sending = panel[p].sending /\ t.pending = panel[p].pending
           /\ t.wiping = panel[p].wiping /\ t.stale = panel[p].stale \ {c}
           /\ \A d \in Thread : t.cache[d] # None => Whole(turns, t.cache[d], d)
           /\ \A k \in 1..Len(turns) : \A d \in Thread :
                 (/\ turns[k].stage = "answered" /\ turns[k].panel = p /\ d = turns[k].thread
                  /\ d \notin t.stale /\ threads[d] # None /\ t.cache[d] # None)
                 => Has(turns, t.cache[d], k)
<1> DEFINE s == panel[p]
<1>0. /\ s \in PanelState /\ PanelHolds(turns, threads, s, p) /\ ThreadsHold(turns, threads)
      /\ threads \in [Thread -> Seq(Message) \cup {None}] /\ turns \in Seq(TurnRecord)
  BY PanelKnown DEF ChatInv, ChatTypes
<1> DEFINE what == IF threads[c] = None THEN s.cache[c] ELSE threads[c]
<1>1. what \in Seq(Message) \cup {None}
  BY <1>0 DEF PanelState
<1>2. t = [s EXCEPT !.cache = [s.cache EXCEPT ![c] = what], !.stale = s.stale \ {c}]
  BY <1>0 DEF Fetched, PanelState
<1> HIDE DEF s, what
<1>3. /\ t \in PanelState /\ t.sending = s.sending /\ t.pending = s.pending
      /\ t.wiping = s.wiping /\ t.stale = s.stale \ {c}
      /\ t.cache = [s.cache EXCEPT ![c] = what]
  <2> DEFINE cache == [s.cache EXCEPT ![c] = what]
  <2>1. cache \in [Thread -> Seq(Message) \cup {None}]
    BY <1>0, <1>1 DEF PanelState
  <2>2. t = [s EXCEPT !.cache = cache, !.stale = s.stale \ {c}]
    BY <1>2
  <2> HIDE DEF cache
  <2>3. t \in PanelState /\ t.sending = s.sending /\ t.pending = s.pending
    BY <1>0, <2>1, <2>2 DEF PanelState
  <2>4. t.wiping = s.wiping /\ t.stale = s.stale \ {c} /\ t.cache = cache
    BY <1>0, <2>1, <2>2 DEF PanelState
  <2> QED
    BY <2>3, <2>4 DEF cache
<1>4. t.cache[c] = what /\ \A d \in Thread : d # c => t.cache[d] = s.cache[d]
  BY <1>0, <1>3 DEF PanelState
<1>5. ASSUME NEW d \in Thread, t.cache[d] # None PROVE Whole(turns, t.cache[d], d)
  <2>1. CASE d = c /\ threads[c] # None
    BY <1>0, <1>4, <2>1 DEF what, ThreadsHold
  <2>2. CASE d # c \/ threads[c] = None
    <3>1. t.cache[d] = s.cache[d]
      BY <1>4, <2>2 DEF what
    <3> QED
      BY <1>0, <1>5, <3>1 DEF PanelHolds
  <2> QED
    BY <2>1, <2>2
<1>6. ASSUME NEW k \in 1..Len(turns), NEW d \in Thread,
             turns[k].stage = "answered", turns[k].panel = p, d = turns[k].thread,
             d \notin t.stale, threads[d] # None, t.cache[d] # None
      PROVE  Has(turns, t.cache[d], k)
  <2>1. CASE d = c
    <3>1. t.cache[d] = threads[d]
      BY <1>4, <1>6, <2>1 DEF what
    <3> QED
      BY <1>0, <1>6, <3>1 DEF ThreadsHold, Settled
  <2>2. CASE d # c
    <3>1. t.cache[d] = s.cache[d] /\ d \notin s.stale
      BY <1>3, <1>4, <1>6, <2>2
    <3> QED
      BY <1>0, <1>6, <3>1, NoneIsNoThread DEF PanelHolds
  <2> QED
    BY <2>1, <2>2
<1> QED
  BY <1>3, <1>5, <1>6 DEF s

LEMMA AnsweredThread ==
    ASSUME ChatInv, NEW k \in 1..Len(turns), turns[k].thread # None
    PROVE  turns[k].thread \in Thread
<1>1. turns[k] \in TurnRecord
  BY ElementOfSeq DEF ChatInv, ChatTypes
<1> QED
  BY <1>1 DEF TurnRecord

LEMMA CatchUpHolds == ASSUME ChatInv, NEW p \in Panel, NEW c \in Thread, CatchUp(p, c) PROVE ChatInv'
<1> DEFINE f == Fetched(panel[p], c)
           s == [f EXCEPT !.wiping = f.wiping \ {c}, !.pending = <<>>]
<1>1. /\ f \in PanelState /\ f.sending = panel[p].sending
      /\ f.wiping = panel[p].wiping /\ f.stale = panel[p].stale \ {c}
      /\ \A d \in Thread : f.cache[d] # None => Whole(turns, f.cache[d], d)
      /\ \A k \in 1..Len(turns) : \A d \in Thread :
            (/\ turns[k].stage = "answered" /\ turns[k].panel = p /\ d = turns[k].thread
             /\ d \notin f.stale /\ threads[d] # None /\ f.cache[d] # None)
            => Has(turns, f.cache[d], k)
  BY FetchedIsStored
<1>2. PanelHolds(turns, threads, panel[p], p)
  BY PanelKnown
<1>3. Set(p, s) /\ UNCHANGED <<threads, recent, notes, turns>>
  BY DEF CatchUp
<1> HIDE DEF f
<1>4. /\ s \in PanelState /\ s.sending = f.sending /\ s.pending = <<>> /\ s.wiping = f.wiping \ {c}
      /\ s.stale = f.stale /\ s.cache = f.cache
  BY <1>1, EmptySeq DEF PanelState
<1> HIDE DEF s
<1>5. PanelHolds(turns, threads, s, p)
  <2>1. /\ s.sending \in 1..Len(turns) \cup {0} /\ s.wiping \subseteq s.stale
        /\ s.sending # 0 => turns[s.sending].panel = p
    BY <1>1, <1>2, <1>4 DEF PanelHolds
  <2> QED
    BY <1>1, <1>4, <2>1, AnsweredThread DEF PanelHolds
<1> QED
  BY <1>3, <1>4, <1>5, PanelStep

LEMMA LoadThreadHolds == ASSUME ChatInv, NEW p \in Panel, LoadThread(p) PROVE ChatInv'
<1> DEFINE c == Shown(panel[p])
           s == Fetched(panel[p], c)
<1>0. panel[p] \in PanelState /\ PanelHolds(turns, threads, panel[p], p)
  BY PanelKnown
<1>1. c \in Thread /\ c \notin panel[p].wiping
  BY <1>0, ShownIsAThread DEF LoadThread
<1>2. Set(p, s) /\ UNCHANGED <<threads, recent, notes, turns>>
  BY DEF LoadThread
<1> HIDE DEF c
<1>3. /\ s \in PanelState /\ s.sending = panel[p].sending /\ s.pending = panel[p].pending
      /\ s.wiping = panel[p].wiping /\ s.stale = panel[p].stale \ {c}
      /\ \A d \in Thread : s.cache[d] # None => Whole(turns, s.cache[d], d)
      /\ \A k \in 1..Len(turns) : \A d \in Thread :
            (/\ turns[k].stage = "answered" /\ turns[k].panel = p /\ d = turns[k].thread
             /\ d \notin s.stale /\ threads[d] # None /\ s.cache[d] # None)
            => Has(turns, s.cache[d], k)
  BY <1>1, FetchedIsStored
<1> HIDE DEF s
<1>4. PanelHolds(turns, threads, s, p)
  <2>1. /\ s.sending \in 1..Len(turns) \cup {0} /\ s.wiping \subseteq s.stale
        /\ s.sending # 0 => turns[s.sending].panel = p
        /\ s.wiping = {} => s.pending = <<>> \/ (s.sending # 0 /\ s.pending = <<Ask(s.sending)>>)
    BY <1>0, <1>1, <1>3 DEF PanelHolds
  <2> QED
    BY <1>3, <2>1, AnsweredThread DEF PanelHolds
<1> QED
  BY <1>2, <1>3, <1>4, PanelStep

(* The panel closes: what was fetched is kept.                             *)
LEMMA ReopenHolds == ASSUME ChatInv, NEW p \in Panel, Reopen(p) PROVE ChatInv'
<1> DEFINE s == panel[p]
           t == [Fresh EXCEPT !.list = s.list, !.cache = s.cache, !.stale = s.stale]
<1>0. s \in PanelState /\ PanelHolds(turns, threads, s, p) /\ <<>> \in Seq(Message) /\ <<>> \in Seq(Thread)
  BY PanelKnown, EmptySeq
<1>1. Set(p, t) /\ UNCHANGED <<threads, recent, notes, turns>>
  BY DEF Reopen
<1> HIDE DEF s
<1>2. /\ t \in PanelState /\ t.sending = 0 /\ t.pending = <<>> /\ t.wiping = {}
      /\ t.stale = s.stale /\ t.cache = s.cache
  BY <1>0 DEF PanelState, Fresh
<1> HIDE DEF t
<1>3. PanelHolds(turns, threads, t, p)
  BY <1>0, <1>2 DEF PanelHolds
<1> QED
  BY <1>1, <1>2, <1>3, PanelStep

(* A panel whose only message is the question has none when it takes the   *)
(* question back.                                                          *)
LEMMA HandBackHolds == ASSUME ChatInv, NEW p \in Panel, HandBack(p) PROVE ChatInv'
<1> DEFINE s == panel[p]
           k == s.sending
           others == {i \in DOMAIN s.pending :
                         s.pending[i].role # "user" \/ turns[s.pending[i].turn].ask # turns[k].ask}
           rest == Picked(s.pending, others)
           t == [s EXCEPT !.draft = turns[k].ask, !.sending = 0, !.pending = rest]
<1>0. s \in PanelState /\ PanelHolds(turns, threads, s, p)
  BY PanelKnown
<1>1. k # 0 /\ k \in 1..Len(turns)
  BY <1>0 DEF HandBack, PanelHolds
<1>2. turns[k].ask \in Question \cup {None}
  <2>1. turns[k] \in TurnRecord
    BY <1>1, ElementOfSeq DEF ChatInv, ChatTypes
  <2> QED
    BY <2>1 DEF TurnRecord
<1>3. Set(p, t) /\ UNCHANGED <<threads, recent, notes, turns>>
  BY DEF HandBack
<1>4. /\ rest \in Seq(Message)
      /\ \A l \in 1 .. Len(rest) : \E i \in others \cap 1 .. Len(s.pending) : rest[l] = s.pending[i]
  <2>1. s.pending \in Seq(Message)
    BY <1>0 DEF PanelState
  <2> HIDE DEF s, k, others
  <2> QED
    BY <2>1, PickedMembers
<1>5. s.wiping = {} => rest = <<>>
  <2> SUFFICES ASSUME s.wiping = {} PROVE rest = <<>>
    OBVIOUS
  <2>1. s.pending = <<>> \/ s.pending = <<Ask(k)>>
    BY <1>0 DEF PanelHolds
  <2>2. others = {}
    <3> SUFFICES ASSUME NEW i \in others PROVE FALSE
      OBVIOUS
    <3>1. s.pending[i] = Ask(k)
      BY <2>1
    <3> QED
      BY <3>1 DEF Ask
  <2> HIDE DEF rest, others
  <2>3. ~ \E l \in 1 .. Len(rest) : TRUE
    BY <1>4, <2>2
  <2>4. Len(rest) = 0
    <3>1. Len(rest) \in Nat
      BY <1>4, LenProperties
    <3>2. Len(rest) # 0 => 1 \in 1 .. Len(rest)
      BY <3>1
    <3> QED
      BY <2>3, <3>2
  <2> QED
    BY <1>4, <2>4, EmptySeq
<1> HIDE DEF rest, k, others
<1>7. /\ t \in PanelState /\ t.sending = 0 /\ t.pending = rest /\ t.wiping = s.wiping
      /\ t.stale = s.stale /\ t.cache = s.cache
  BY <1>0, <1>2, <1>4 DEF PanelState
<1> HIDE DEF t, s
<1>8. PanelHolds(turns, threads, t, p)
  BY <1>0, <1>5, <1>7 DEF PanelHolds
<1> QED
  BY <1>3, <1>7, <1>8, PanelStep

LEMMA DeleteThreadHolds == ASSUME ChatInv, NEW p \in Panel, NEW c \in Thread, DeleteThread(p, c) PROVE ChatInv'
<1> DEFINE s == panel[p]
           t == [s EXCEPT !.removing = c]
<1>1. /\ threads' = [threads EXCEPT ![c] = None] /\ recent' = Without(c) /\ UNCHANGED <<notes, turns>>
      /\ panel' = [panel EXCEPT ![p] = t]
  BY DEF DeleteThread, Set
<1>2. /\ threads' \in [Thread -> Seq(Message) \cup {None}] /\ recent' \in Seq(Thread)
      /\ Listed(recent', threads') /\ ThreadsHold(turns', threads')
      /\ \A q \in Panel : PanelHolds(turns', threads', panel[q], q)
  BY <1>1, DeletionHolds
<1>3. s \in PanelState
  BY PanelKnown
<1> HIDE DEF s
<1>4. /\ t \in PanelState /\ t.sending = s.sending /\ t.pending = s.pending /\ t.wiping = s.wiping
      /\ t.stale = s.stale /\ t.cache = s.cache
  BY <1>3 DEF PanelState
<1> HIDE DEF t
<1>5. /\ panel' \in [Panel -> PanelState] /\ panel'[p] = t
      /\ \A q \in Panel : q # p => panel'[q] = panel[q]
  BY <1>1, <1>4 DEF ChatInv, ChatTypes
<1>6. PanelHolds(turns', threads', t, p)
  BY <1>2, <1>3, <1>4, PendingGoes DEF s
<1>7. \A q \in Panel : PanelHolds(turns', threads', panel'[q], q)
  BY <1>2, <1>5, <1>6
<1> QED
  BY <1>1, <1>2, <1>5, <1>7 DEF ChatInv, ChatTypes, Turn

(* One panel changes its state with a turn of its own.                     *)
LEMMA PanelTurnStep ==
    ASSUME ChatInv, NEW p \in Panel, NEW s \in PanelState, Set(p, s), UNCHANGED <<threads, recent, notes>>,
           turns' \in Seq(TurnRecord), Later(turns, turns'), Len(turns') <= MaxTurns,
           \A k \in 1..Len(turns') : turns'[k].stage \in Settled => k \in Turn /\ turns[k].stage \in Settled,
           \A k \in 1..Len(turns') : turns'[k].stage = "answered" /\ turns'[k].panel # p
              => turns[k].stage = "answered",
           PanelHolds(turns', threads, s, p)
    PROVE  ChatInv'
<1>0. /\ ChatTypes /\ Listed(recent, threads) /\ ThreadsHold(turns, threads) /\ notes \subseteq Turn
      /\ turns \in Seq(TurnRecord) /\ Len(turns) \in Nat /\ Len(turns') \in Nat
  BY LenProperties DEF ChatInv, ChatTypes
<1>1. /\ panel' \in [Panel -> PanelState] /\ panel'[p] = s
      /\ \A q \in Panel : q # p => panel'[q] = panel[q]
  BY <1>0 DEF Set, ChatTypes
<1>2. ChatTypes'
  BY <1>0, <1>1 DEF ChatTypes
<1>3. ThreadsHold(turns', threads)
  BY <1>0, ThreadsStay DEF ChatTypes, Turn
<1>4. ASSUME NEW q \in Panel, q # p PROVE PanelHolds(turns', threads, panel[q], q)
  <2>1. panel[q] \in PanelState /\ PanelHolds(turns, threads, panel[q], q)
    BY PanelKnown
  <2>2. \A k \in 1..Len(turns') : (/\ turns'[k].stage = "answered" /\ turns'[k].panel = q
                                   /\ turns'[k].thread # None /\ threads[turns'[k].thread] # None)
          => k \in 1..Len(turns) /\ turns[k].stage = "answered" /\ threads[turns'[k].thread] # None
    BY <1>4 DEF Settled, Turn
  <2> QED
    BY <1>0, <2>1, <2>2, PanelStays
<1>5. \A q \in Panel : PanelHolds(turns', threads', panel'[q], q)
  BY <1>1, <1>4
<1>6. notes' \subseteq Turn'
  BY <1>0 DEF Turn, Later
<1> QED
  BY <1>0, <1>2, <1>3, <1>5, <1>6 DEF ChatInv

LEMMA SendHolds == ASSUME ChatInv, NEW p \in Panel, Send(p) PROVE ChatInv'
<1> DEFINE s == panel[p]
           k == Len(turns) + 1
           c == Shown(s)
           stage == IF c # None /\ threads[c] = None THEN "failed" ELSE "running"
           r == [panel |-> p, ask |-> s.draft, thread |-> c, stage |-> stage, wrote |-> FALSE]
           U == Append(turns, r)
           asked == Append(s.pending, Ask(k))
           t == [s EXCEPT !.pending = asked, !.draft = None, !.sending = k]
<1>0. /\ s \in PanelState /\ PanelHolds(turns, threads, s, p)
      /\ turns \in Seq(TurnRecord) /\ Len(turns) \in Nat
  BY PanelKnown, LenProperties DEF ChatInv, ChatTypes
<1>1. /\ s.sending = 0 /\ k <= MaxTurns /\ turns' = U /\ Set(p, t) /\ UNCHANGED <<threads, recent, notes>>
  BY DEF Send
<1>2. r \in TurnRecord /\ r.stage \notin Settled /\ r.panel = p
  <2>1. c \in Thread \cup {None} /\ s.draft \in Question \cup {None}
    BY <1>0, ShownIsAThread DEF PanelState
  <2> HIDE DEF s, c
  <2>2. stage \in {"failed", "running"}
    OBVIOUS
  <2> HIDE DEF stage
  <2> QED
    BY <2>1, <2>2 DEF TurnRecord, Stages, Settled
<1> HIDE DEF r, s
<1>3. /\ U \in Seq(TurnRecord) /\ Len(U) = Len(turns) + 1 /\ Later(turns, U)
      /\ U[Len(turns) + 1] = r /\ \A j \in 1..Len(turns) : U[j] = turns[j]
  BY <1>0, <1>2, TurnBegins
<1> HIDE DEF U
<1>4. 1..Len(U) = 1..Len(turns) \cup {k}
  BY <1>0, <1>3
<1>5. asked \in Seq(Message) /\ k \in Nat /\ (s.pending = <<>> => asked = <<Ask(k)>>)
  <2>1. Ask(k) \in Message /\ s.pending \in Seq(Message)
    BY <1>0 DEF Ask, Message, PanelState
  <2>2. \A m : Append(<<>>, m) = <<m>>
    OBVIOUS
  <2>3. asked \in Seq(Message)
    BY <2>1, AppendProperties
  <2>4. s.pending = <<>> => asked = <<Ask(k)>>
    BY <2>2
  <2> QED
    BY <1>0, <2>3, <2>4
<1> HIDE DEF asked, k
<1>6. /\ t \in PanelState /\ t.sending = k /\ t.pending = asked
      /\ t.wiping = s.wiping /\ t.stale = s.stale /\ t.cache = s.cache
  BY <1>0, <1>5 DEF PanelState
<1> HIDE DEF t
<1> USE DEF k
<1>7. \A j \in 1..Len(U) : U[j].stage \in Settled => j \in Turn /\ turns[j].stage \in Settled /\ U[j] = turns[j]
  BY <1>2, <1>3, <1>4 DEF Turn
<1>8. \A j \in 1..Len(U) : U[j].stage = "answered" => turns[j].stage = "answered" /\ j \in 1..Len(turns)
  BY <1>7 DEF Settled, Turn
<1>9. PanelHolds(U, threads, s, p)
  BY <1>0, <1>3, <1>8, PanelStays
<1>10. PanelHolds(U, threads, t, p)
  <2>1. t.wiping = {} => t.pending = <<Ask(k)>>
    <3>1. s.wiping = {} => s.pending = <<>>
      BY <1>0, <1>1 DEF PanelHolds, s
    <3> QED
      BY <1>5, <1>6, <3>1
  <2>2. t.sending \in 1..Len(U) /\ U[t.sending].panel = p /\ t.sending # 0
    BY <1>0, <1>2, <1>3, <1>4, <1>6
  <2> QED
    BY <1>6, <1>9, <2>1, <2>2 DEF PanelHolds
<1> QED
  BY <1>1, <1>3, <1>6, <1>7, <1>8, <1>10, PanelTurnStep

LEMMA SucceedHolds == ASSUME ChatInv, NEW p \in Panel, Succeed(p) PROVE ChatInv'
<1> DEFINE s == panel[p]
           k == s.sending
           c == turns[k].thread
           onScreen == Shown(s) = c
           r == [turns[k] EXCEPT !.stage = "answered"]
           U == [turns EXCEPT ![k] = r]
           pending == IF onScreen THEN Append(s.pending, Reply(k)) ELSE <<>>
           wiping == IF onScreen THEN s.wiping \cup {c} ELSE s.wiping
           t == [s EXCEPT !.pending = pending, !.wiping = wiping,
                          !.selection = c, !.sending = 0, !.stale = s.stale \cup {c}]
<1>0. /\ s \in PanelState /\ PanelHolds(turns, threads, s, p) /\ ThreadsHold(turns, threads)
      /\ turns \in Seq(TurnRecord) /\ Len(turns) \in Nat /\ Len(turns) <= MaxTurns
  BY PanelKnown, LenProperties DEF ChatInv, ChatTypes
<1>1. /\ k # 0 /\ turns[k].stage = "stored" /\ turns' = U /\ Set(p, t) /\ UNCHANGED <<threads, recent, notes>>
  BY DEF Succeed, Stage
<1>2. k \in 1..Len(turns) /\ turns[k].panel = p
  BY <1>0, <1>1 DEF PanelHolds
<1>3. turns[k] \in TurnRecord
  BY <1>0, <1>2, ElementOfSeq
<1>4. c \in Thread
  <2>1. c # None
    BY <1>0, <1>1, <1>2 DEF ThreadsHold, Settled
  <2> QED
    BY <1>3, <2>1 DEF TurnRecord
<1>5. pending \in Seq(Message)
  <2>1. Reply(k) \in Message /\ s.pending \in Seq(Message)
    BY <1>0, <1>2, <1>3 DEF Reply, Message, PanelState, TurnRecord
  <2> HIDE DEF s, k, c, onScreen
  <2>2. Append(s.pending, Reply(k)) \in Seq(Message) /\ <<>> \in Seq(Message)
    BY <2>1, AppendProperties, EmptySeq
  <2> QED
    BY <2>2
<1>6. wiping \subseteq s.stale \cup {c} /\ wiping \subseteq Thread /\ (wiping = {} => pending = <<>>)
  BY <1>0, <1>4 DEF PanelHolds, PanelState
<1>7. r \in TurnRecord /\ r.stage = "answered" /\ r.thread = c
  BY <1>3 DEF TurnRecord, Stages
<1>8. r.panel = turns[k].panel
  BY <1>3 DEF TurnRecord
<1>9. turns[k].stage \in Settled => (r.stage \in Settled /\ r.thread = turns[k].thread /\ r.wrote = turns[k].wrote)
  BY <1>3 DEF TurnRecord, Settled
<1> HIDE DEF r, s, k, c, onScreen, pending, wiping
<1>10. /\ U \in Seq(TurnRecord) /\ Len(U) = Len(turns) /\ Later(turns, U)
       /\ U[k] = r /\ \A j \in 1..Len(turns) : j # k => U[j] = turns[j]
  BY <1>0, <1>2, <1>7, <1>8, <1>9, TurnChanges
<1> HIDE DEF U
<1>11. /\ t \in PanelState /\ t.sending = 0 /\ t.pending = pending /\ t.wiping = wiping
       /\ t.stale = s.stale \cup {c} /\ t.cache = s.cache
  <2>1. t \in PanelState
    BY <1>0, <1>4, <1>5, <1>6 DEF PanelState
  <2>2. /\ t.sending = 0 /\ t.pending = pending /\ t.wiping = wiping
        /\ t.stale = s.stale \cup {c} /\ t.cache = s.cache
    BY <1>0 DEF PanelState
  <2> QED
    BY <2>1, <2>2
<1> HIDE DEF t
<1>12. ASSUME NEW d \in Thread, t.cache[d] # None PROVE Whole(U, t.cache[d], d)
  <2>1. t.cache[d] \in Seq(Message) /\ Whole(turns, t.cache[d], d)
    BY <1>0, <1>11, <1>12 DEF PanelHolds, PanelState
  <2> QED
    BY <1>0, <1>10, <2>1, WholeStays
<1>13. ASSUME NEW j \in 1..Len(U), NEW d, d = U[j].thread,
              U[j].stage = "answered", U[j].panel = p, d # None,
              d \notin t.stale, threads[d] # None, t.cache[d] # None
       PROVE  Has(U, t.cache[d], j)
  <2>1. j # k
    BY <1>7, <1>10, <1>11, <1>13
  <2>2. j \in 1..Len(turns) /\ U[j] = turns[j] /\ d \notin s.stale
    BY <1>10, <1>11, <1>13, <2>1
  <2>3. Has(turns, s.cache[d], j)
    BY <1>0, <1>11, <1>13, <2>2 DEF PanelHolds
  <2> QED
    BY <1>10, <1>11, <1>13, <2>2, <2>3, HasStays DEF Settled
<1>14. PanelHolds(U, threads, t, p)
  <2>1. t.sending \in 1..Len(U) \cup {0} /\ t.wiping \subseteq t.stale
        /\ t.sending = 0 /\ (t.wiping = {} => t.pending = <<>>)
    BY <1>6, <1>11
  <2> QED
    BY <1>12, <1>13, <2>1 DEF PanelHolds
<1>15. \A j \in 1..Len(U) : U[j].stage \in Settled => j \in Turn /\ turns[j].stage \in Settled
  BY <1>1, <1>2, <1>10 DEF Turn, Settled
<1>16. \A j \in 1..Len(U) : U[j].stage = "answered" /\ U[j].panel # p => turns[j].stage = "answered"
  BY <1>2, <1>7, <1>8, <1>10
<1>17. /\ turns' \in Seq(TurnRecord) /\ Later(turns, turns') /\ Len(turns') <= MaxTurns
       /\ Set(p, t) /\ UNCHANGED <<threads, recent, notes>> /\ t \in PanelState /\ turns' = U
  BY <1>0, <1>1, <1>10, <1>11
<1> QED
  BY <1>14, <1>15, <1>16, <1>17, PanelTurnStep

(* ------------------------------ theorems -------------------------------- *)

LEMMA ChatInvInit == ASSUME Init PROVE ChatInv
<1>1. /\ Len(turns) = 0 /\ turns \in Seq(TurnRecord) /\ recent \in Seq(Thread) /\ recent = <<>>
      /\ <<>> \in Seq(Message)
  BY EmptySeq DEF Init
<1>2. Fresh \in PanelState
  BY <1>1, EmptySeq DEF Fresh, PanelState
<1>3. ChatTypes
  BY <1>1, <1>2 DEF ChatTypes, Init
<1>4. Listed(recent, threads)
  BY <1>1 DEF Listed, Init, ToSet, IsInjective
<1>5. ThreadsHold(turns, threads)
  BY <1>1 DEF ThreadsHold, Init
<1>6. ASSUME NEW p \in Panel PROVE PanelHolds(turns, threads, panel[p], p)
  BY <1>1 DEF PanelHolds, Init, Fresh
<1>7. notes \subseteq Turn /\ Len(turns) <= MaxTurns
  BY <1>1, MaxTurnsAssumption DEF Init
<1> QED
  BY <1>3, <1>4, <1>5, <1>6, <1>7 DEF ChatInv

LEMMA ChatInvNext == ASSUME ChatInv, [Next]_vars PROVE ChatInv'
<1>1. ASSUME NEW k \in Turn, FailTurn(k) \/ BreakStream(k) PROVE ChatInv'
  <2>1. CASE FailTurn(k)
    BY <2>1, StageHolds DEF FailTurn, Stages, Settled
  <2>2. CASE BreakStream(k)
    BY <2>2, StageHolds DEF BreakStream, Stages, Settled
  <2> QED
    BY <1>1, <2>1, <2>2
<1>2. ASSUME NEW k \in Turn, OnServer(k) PROVE ChatInv'
  BY <1>1, <1>2, RunToolHolds, StoreTurnHolds DEF OnServer
<1>3. ASSUME NEW p \in Panel, InPanel(p) PROVE ChatInv'
  <2>1. CASE Send(p) \/ Succeed(p) \/ HandBack(p) \/ LoadThread(p) \/ Reopen(p)
    BY <2>1, SendHolds, SucceedHolds, HandBackHolds, LoadThreadHolds, ReopenHolds
  <2>2. CASE LoadList(p) \/ StartNewChat(p) \/ Deleted(p)
             \/ (\E q \in Question : Write(p, q)) \/ (\E c \in Thread : Pick(p, c))
    BY <2>2, QuietHolds
  <2>3. CASE \E c \in Thread : CatchUp(p, c) \/ DeleteThread(p, c)
    BY <2>3, CatchUpHolds, DeleteThreadHolds
  <2> QED
    BY <1>3, <2>1, <2>2, <2>3 DEF InPanel
<1>4. CASE UNCHANGED vars
  BY <1>4 DEF vars, ChatInv, ChatTypes, Turn
<1> QED
  BY <1>2, <1>3, <1>4, AskElsewhereHolds, DeleteElsewhereHolds DEF Next

(* ChatInv holds of every state the panels, the server and another device  *)
(* bring about.                                                            *)
THEOREM ChatInvariant == Spec => []ChatInv
BY ChatInvInit, ChatInvNext, PTL DEF Spec

(* No message of whole turns is there twice.                               *)
LEMMA WholeIsDistinct ==
    ASSUME NEW T \in Seq(TurnRecord), NEW msgs \in Seq(Message), NEW c, Whole(T, msgs, c)
    PROVE  IsInjective(msgs)
<1>1. PICK n \in Nat : Pairs(T, msgs, c, n)
  BY DEF Whole
<1>2. DOMAIN msgs = 1 .. 2 * n
  BY <1>1, LenProperties DEF Pairs
<1>3. ASSUME NEW i \in 1 .. n
      PROVE  LET k == msgs[2 * i - 1].turn
             IN  msgs[2 * i - 1] = Ask(k) /\ msgs[2 * i] = Answer(T, k)
  BY <1>1 DEF Pairs
<1>4. \A i, j \in 1 .. n : msgs[2 * i - 1].turn = msgs[2 * j - 1].turn => i = j
  BY <1>1 DEF Pairs
<1>5. ASSUME NEW a \in 1 .. 2 * n
      PROVE  \E i \in 1 .. n : \/ a = 2 * i - 1 /\ msgs[a].role = "user" /\ msgs[a].turn = msgs[2 * i - 1].turn
                               \/ a = 2 * i /\ msgs[a].role = "assistant" /\ msgs[a].turn = msgs[2 * i - 1].turn
  <2>1. \E i \in 1 .. n : a = 2 * i - 1 \/ a = 2 * i
    <3> DEFINE h == a \div 2
    <3>1. a \in Nat /\ h \in Nat /\ (a = 2 * h \/ a = 2 * h + 1)
      OBVIOUS
    <3> HIDE DEF h
    <3>2. CASE a = 2 * h
      <4>1. h \in 1 .. n
        BY <3>1, <3>2
      <4> QED
        BY <3>2, <4>1
    <3>3. CASE a = 2 * h + 1
      <4>1. h + 1 \in 1 .. n /\ a = 2 * (h + 1) - 1
        BY <3>1, <3>3
      <4> QED
        BY <4>1
    <3> QED
      BY <3>1, <3>2, <3>3
  <2>2. PICK i \in 1 .. n : a = 2 * i - 1 \/ a = 2 * i
    BY <2>1
  <2> DEFINE k == msgs[2 * i - 1].turn
  <2>4. msgs[2 * i - 1] = Ask(k) /\ msgs[2 * i] = Answer(T, k)
    BY <1>3
  <2>5. Ask(k).role = "user" /\ Answer(T, k).role = "assistant" /\ Answer(T, k).turn = k
    BY DEF Ask, Answer
  <2>3. msgs[2 * i - 1].role = "user" /\ msgs[2 * i].role = "assistant" /\ msgs[2 * i].turn = msgs[2 * i - 1].turn
    BY <2>4, <2>5
  <2> QED
    BY <2>2, <2>3
<1>6. ASSUME NEW a \in 1 .. 2 * n, NEW b \in 1 .. 2 * n, msgs[a] = msgs[b] PROVE a = b
  <2>1. PICK i \in 1 .. n : \/ a = 2 * i - 1 /\ msgs[a].role = "user" /\ msgs[a].turn = msgs[2 * i - 1].turn
                            \/ a = 2 * i /\ msgs[a].role = "assistant" /\ msgs[a].turn = msgs[2 * i - 1].turn
    BY <1>5
  <2>2. PICK j \in 1 .. n : \/ b = 2 * j - 1 /\ msgs[b].role = "user" /\ msgs[b].turn = msgs[2 * j - 1].turn
                            \/ b = 2 * j /\ msgs[b].role = "assistant" /\ msgs[b].turn = msgs[2 * j - 1].turn
    BY <1>5
  <2>3. i = j
    BY <1>4, <1>6, <2>1, <2>2
  <2> QED
    BY <1>6, <2>1, <2>2, <2>3
<1> QED
  BY <1>2, <1>6 DEF IsInjective

LEMMA ListTyped == ASSUME ChatInv PROVE TypeOK
<1>1. ToSet(recent) = {c \in Thread : threads[c] # None} /\ Cardinality(ToSet(recent)) = Len(recent)
  BY CountedOnce DEF ChatInv, ChatTypes, Listed
<1>2. \A k \in Turn : turns[k].stage \in Stages
  <2> SUFFICES ASSUME NEW k \in Turn PROVE turns[k].stage \in Stages
    OBVIOUS
  <2>1. turns[k] \in TurnRecord
    BY ElementOfSeq DEF ChatInv, ChatTypes, Turn
  <2> QED
    BY <2>1 DEF TurnRecord
<1>3. ASSUME NEW p \in Panel
      PROVE  LET s == panel[p] IN
             /\ s.selection \in Thread \cup {"auto", "new"} /\ s.draft \in Question \cup {None}
             /\ s.sending \in Turn \cup {0} /\ s.stale \subseteq Thread /\ s.wiping \subseteq s.stale
             /\ s.removing \in Thread \cup {None}
  BY PanelKnown DEF PanelState, PanelHolds, Turn
<1> QED
  BY <1>1, <1>2, <1>3 DEF TypeOK, ChatInv, Stages

LEMMA TurnsWhole == ASSUME ChatInv PROVE WholeTurns
<1> SUFFICES ASSUME NEW c \in Thread, threads[c] # None
             PROVE  LET msgs == threads[c]
                        n == Len(msgs) \div 2
                        at(i) == msgs[2 * i - 1].turn
                    IN  /\ Len(msgs) = 2 * n /\ n > 0
                        /\ \A i \in 1..n : /\ msgs[2 * i - 1] = Ask(at(i)) /\ msgs[2 * i] = Reply(at(i))
                                           /\ turns[at(i)].thread = c
                                           /\ turns[at(i)].stage \notin {"running", "failed"}
                        /\ \A i, j \in 1..n : at(i) = at(j) => i = j
  BY DEF WholeTurns
<1> DEFINE msgs == threads[c]
<1>1. PICK n \in Nat \ {0} : Pairs(turns, msgs, c, n)
  BY DEF ChatInv, ThreadsHold, Whole
<1> HIDE DEF msgs
<1>2. Len(msgs) = 2 * n /\ Len(msgs) \div 2 = n /\ n > 0
  BY <1>1 DEF Pairs
<1>3. ASSUME NEW i \in 1..n, NEW k, k = msgs[2 * i - 1].turn
      PROVE  /\ msgs[2 * i - 1] = Ask(k) /\ msgs[2 * i] = Reply(k)
             /\ turns[k].thread = c /\ turns[k].stage \notin {"running", "failed"}
  BY <1>1, <1>3 DEF Pairs, Reply, Answer, Settled
<1>4. \A i, j \in 1..n : msgs[2 * i - 1].turn = msgs[2 * j - 1].turn => i = j
  BY <1>1 DEF Pairs
<1> QED
  BY <1>2, <1>3, <1>4 DEF msgs

LEMMA PanelsRest == ASSUME ChatInv PROVE AtRest
<1> SUFFICES ASSUME NEW p \in Panel, NEW s, s = panel[p], NEW c, c = Shown(s), NEW shown, shown = Messages(s),
                    c # None, threads[c] # None, s.sending = 0, c \notin s.stale, s.wiping = {}
             PROVE  /\ Cardinality(ToSet(shown)) = Len(shown)
                    /\ \A k \in Turn : turns[k].stage = "answered" /\ turns[k].panel = p /\ turns[k].thread = c
                          => s.cache[c] = None \/ {Ask(k), Reply(k)} \subseteq ToSet(shown)
  BY DEF AtRest
<1>1. s \in PanelState /\ PanelHolds(turns, threads, s, p) /\ turns \in Seq(TurnRecord)
  BY PanelKnown DEF ChatInv, ChatTypes
<1>2. c \in Thread
  BY <1>1, ShownIsAThread
<1>3. s.pending = <<>>
  BY <1>1 DEF PanelHolds
<1>4. shown \in Seq(Message) /\ shown = IF s.cache[c] = None THEN <<>> ELSE s.cache[c]
  <2>1. s.cache[c] \in Seq(Message) \cup {None} /\ <<>> \in Seq(Message)
    BY <1>1, <1>2, EmptySeq DEF PanelState
  <2>2. \A m \in Seq(Message) : m \o <<>> = m
    OBVIOUS
  <2>3. Stored(s) \in Seq(Message) /\ Stored(s) = IF s.cache[c] = None THEN <<>> ELSE s.cache[c]
    BY <2>1 DEF Stored
  <2> QED
    BY <1>3, <2>2, <2>3 DEF Messages
<1>5. IsInjective(shown)
  <2>1. CASE s.cache[c] = None
    BY <1>4, <2>1 DEF IsInjective
  <2>2. CASE s.cache[c] # None
    <3>1. Whole(turns, shown, c)
      BY <1>1, <1>2, <1>4, <2>2 DEF PanelHolds
    <3> QED
      BY <1>1, <1>4, <3>1, WholeIsDistinct
  <2> QED
    BY <2>1, <2>2
<1>6. Cardinality(ToSet(shown)) = Len(shown)
  BY <1>4, <1>5, CountedOnce
<1>7. ASSUME NEW k \in Turn, turns[k].stage = "answered", turns[k].panel = p, turns[k].thread = c,
             s.cache[c] # None
      PROVE  {Ask(k), Reply(k)} \subseteq ToSet(shown)
  <2>1. Has(turns, s.cache[c], k)
    BY <1>1, <1>7 DEF PanelHolds, Turn
  <2> QED
    BY <1>4, <1>7, <2>1 DEF Has, Answer, Reply
<1> QED
  BY <1>6, <1>7

(* Variables keep their types, and the history menu lists every stored     *)
(* thread once (ai_service.list_conversations).                            *)
THEOREM TypeOKHolds == Spec => []TypeOK
BY ChatInvariant, ListTyped, PTL

(* A stored thread is made of whole turns, each once and in the thread it  *)
(* was asked in: question and reply are committed together, at the end of  *)
(* chat_with_vault_events.                                                 *)
THEOREM WholeTurnsHolds == Spec => []WholeTurns
BY ChatInvariant, TurnsWhole, PTL

(* A panel that waits for nothing shows no message twice, and shows every  *)
(* turn it was answered in the thread on screen, in whatever order answers *)
(* and refetches arrive (ai-chat-pane.tsx, send.onSuccess and `pending`).  *)
THEOREM AtRestHolds == Spec => []AtRest
BY ChatInvariant, PanelsRest, PTL
=============================================================================
