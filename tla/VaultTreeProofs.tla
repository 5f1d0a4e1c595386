-------------------------- MODULE VaultTreeProofs ---------------------------
(***************************************************************************)
(* For any number of folders, notes, names and requests: a cached view     *)
(* whose folders, notes or links are wrong is about to be dropped, however *)
(* requests overlap; and if no request is checked while another is yet to  *)
(* commit, paths follow the tree, links lead to notes that bear their      *)
(* names, and they are those that saving every note again would draw if no *)
(* two notes share a name.                                                 *)
(***************************************************************************)
EXTENDS VaultTree, SequenceTheorems, TLAPS

(* ------------------------- paths as sequences -------------------------- *)

LEMMA FrontOfAppend ==
    ASSUME NEW p \in Seq(Name), NEW a \in Name
    PROVE  Front(Append(p, a)) = p
<1>1. /\ Append(p, a) \in Seq(Name) /\ Len(Append(p, a)) = Len(p) + 1
      /\ \A i \in 1..Len(p) : Append(p, a)[i] = p[i]
  BY AppendProperties
<1>2. Len(p) \in Nat /\ \A i \in 1..Len(p) : p[i] \in Name
  BY LenProperties, ElementOfSeq
<1>3. Front(Append(p, a)) = SubSeq(Append(p, a), 1, Len(p))
  BY <1>1, <1>2 DEF Front
<1>4. /\ SubSeq(Append(p, a), 1, Len(p)) \in Seq(Name)
      /\ Len(SubSeq(Append(p, a), 1, Len(p))) = Len(p)
      /\ \A i \in 1..Len(p) : SubSeq(Append(p, a), 1, Len(p))[i] = p[i]
  BY <1>1, <1>2, SubSeqProperties
<1> QED BY <1>3, <1>4, SeqEqual

(* What is under a folder is in it or in something under it.               *)
LEMMA UnderAppend ==
    ASSUME NEW old \in Seq(Name), NEW p \in Seq(Name), NEW a \in Name
    PROVE  Under(old, Append(p, a)) <=> p = old \/ Under(old, p)
<1> DEFINE q == Append(p, a)
<1>1. /\ q \in Seq(Name) /\ Len(q) = Len(p) + 1
      /\ \A i \in 1..Len(p) : q[i] = p[i]
  BY AppendProperties
<1>2. /\ Len(p) \in Nat /\ \A i \in 1..Len(p) : p[i] \in Name
      /\ Len(old) \in Nat /\ \A i \in 1..Len(old) : old[i] \in Name
  BY LenProperties, ElementOfSeq
<1>3. ASSUME Len(p) >= Len(old)
      PROVE  SubSeq(q, 1, Len(old)) = SubSeq(p, 1, Len(old))
  <2> DEFINE k == Len(old)
  <2>1. /\ SubSeq(q, 1, k) \in Seq(Name) /\ Len(SubSeq(q, 1, k)) = k
        /\ \A i \in 1..k : SubSeq(q, 1, k)[i] = q[i]
    BY <1>1, <1>2, <1>3, SubSeqProperties
  <2>2. /\ SubSeq(p, 1, k) \in Seq(Name) /\ Len(SubSeq(p, 1, k)) = k
        /\ \A i \in 1..k : SubSeq(p, 1, k)[i] = p[i]
    BY <1>2, <1>3, SubSeqProperties
  <2>3. \A i \in 1..k : SubSeq(q, 1, k)[i] = SubSeq(p, 1, k)[i]
    BY <1>1, <1>2, <1>3, <2>1, <2>2
  <2> HIDE DEF q
  <2> QED BY <2>1, <2>2, <2>3, SeqEqual
<1>4. SubSeq(p, 1, Len(p)) = p
  BY SubSeqFull
<1> HIDE DEF q
<1>5. ASSUME Under(old, q) PROVE p = old \/ Under(old, p)
  <2>1. Len(p) >= Len(old)
    BY <1>1, <1>2, <1>5 DEF Under
  <2>2. SubSeq(p, 1, Len(old)) = old
    BY <1>3, <1>5, <2>1 DEF Under
  <2>3. CASE Len(p) = Len(old)
    BY <1>4, <2>2, <2>3
  <2>4. CASE Len(p) # Len(old)
    BY <1>2, <2>1, <2>2, <2>4 DEF Under
  <2> QED BY <2>3, <2>4
<1>6. ASSUME p = old PROVE Under(old, q)
  <2>1. SubSeq(q, 1, Len(old)) = old
    BY <1>2, <1>3, <1>4, <1>6
  <2> QED BY <1>1, <1>2, <1>6, <2>1 DEF Under
<1>7. ASSUME Under(old, p) PROVE Under(old, q)
  <2>1. Len(p) > Len(old) /\ SubSeq(p, 1, Len(old)) = old
    BY <1>7 DEF Under
  <2> QED BY <1>1, <1>2, <1>3, <2>1 DEF Under
<1> QED BY <1>5, <1>6, <1>7 DEF q

LEMMA MovedTyped ==
    ASSUME NEW old \in Seq(Name), NEW new \in Seq(Name), NEW p \in Seq(Name)
    PROVE  Moved(p, old, new) \in Seq(Name)
<1>1. Len(p) \in Nat /\ Len(old) \in Nat /\ \A i \in 1..Len(p) : p[i] \in Name
  BY LenProperties, ElementOfSeq
<1>2. SubSeq(p, Len(old) + 1, Len(p)) \in Seq(Name)
  BY <1>1, SubSeqProperties
<1> QED BY <1>2, ConcatProperties DEF Moved

(* The path of what is in a folder moves as the path of the folder does.   *)
LEMMA MovedAppend ==
    ASSUME NEW old \in Seq(Name), NEW new \in Seq(Name), NEW p \in Seq(Name), NEW a \in Name,
           Len(p) >= Len(old)
    PROVE  Moved(Append(p, a), old, new) = Append(Moved(p, old, new), a)
<1> DEFINE q == Append(p, a)
           k == Len(old) + 1
           rest == SubSeq(p, k, Len(p))
<1>1. /\ q \in Seq(Name) /\ Len(q) = Len(p) + 1
      /\ \A i \in 1..Len(p) : q[i] = p[i]
      /\ q[Len(p) + 1] = a
  BY AppendProperties
<1>2. /\ Len(p) \in Nat /\ \A i \in 1..Len(p) : p[i] \in Name
      /\ Len(old) \in Nat
      /\ \A i \in 1..Len(q) : q[i] \in Name
  BY <1>1, LenProperties, ElementOfSeq
<1>3. rest \in Seq(Name)
  BY <1>2, SubSeqProperties
<1>4. k \in 1..Len(q) /\ Len(q) \in k..Len(q)
  BY <1>1, <1>2
<1>5. SubSeq(q, k, Len(q)) = SubSeq(q, k, Len(q) - 1) \o <<a>>
  <2> HIDE DEF q, k
  <2>1. SubSeq(q, k, Len(q)) = SubSeq(q, k, Len(q) - 1) \o <<q[Len(q)]>>
    BY <1>1, <1>4, SubSeqRecursiveSecond
  <2> QED BY <1>1, <2>1
<1>6. SubSeq(q, k, Len(q) - 1) = rest
  <2>1. Len(q) - 1 = Len(p)
    BY <1>1, <1>2
  <2>2. /\ SubSeq(q, k, Len(p)) \in Seq(Name)
        /\ Len(SubSeq(q, k, Len(p))) = IF k <= Len(p) THEN Len(p) - k + 1 ELSE 0
        /\ \A i \in 1..(Len(p) - k + 1) : SubSeq(q, k, Len(p))[i] = q[k + i - 1]
    <3>1. \A i \in k..Len(p) : q[i] \in Name
      BY <1>1, <1>2
    <3> HIDE DEF q
    <3> QED BY <1>2, <3>1, SubSeqProperties
  <2>3. /\ Len(rest) = IF k <= Len(p) THEN Len(p) - k + 1 ELSE 0
        /\ \A i \in 1..(Len(p) - k + 1) : rest[i] = p[k + i - 1]
    <3>1. \A i \in k..Len(p) : p[i] \in Name
      BY <1>2
    <3> QED BY <1>2, <3>1, SubSeqProperties
  <2>4. \A i \in 1..Len(rest) : SubSeq(q, k, Len(p))[i] = rest[i]
    <3> SUFFICES ASSUME NEW i \in 1..Len(rest) PROVE SubSeq(q, k, Len(p))[i] = rest[i]
      OBVIOUS
    <3>1. k <= Len(p) /\ Len(rest) = Len(p) - k + 1
      BY <2>3
    <3>2. i \in 1..(Len(p) - k + 1) /\ k + i - 1 \in 1..Len(p)
      BY <1>2, <3>1
    <3> HIDE DEF q, rest, k
    <3> QED BY <1>1, <2>2, <2>3, <3>2
  <2> HIDE DEF q, rest, k
  <2> QED BY <1>3, <2>1, <2>2, <2>3, <2>4, SeqEqual
<1>7. Moved(q, old, new) = new \o (rest \o <<a>>)
  BY <1>5, <1>6 DEF Moved
<1>8. new \o (rest \o <<a>>) = (new \o rest) \o <<a>>
  <2>1. <<a>> \in Seq(Name)
    OBVIOUS
  <2> HIDE DEF rest
  <2> QED BY <1>3, <2>1, ConcatAssociative
<1>9. (new \o rest) \in Seq(Name)
  <2> HIDE DEF rest
  <2> QED BY <1>3, ConcatProperties
<1>10. (new \o rest) \o <<a>> = Append(new \o rest, a)
  <2> HIDE DEF rest
  <2> QED BY <1>9, AppendIsConcat
<1> QED BY <1>7, <1>8, <1>10 DEF Moved

LEMMA MovedItself ==
    ASSUME NEW old \in Seq(Name), NEW new \in Seq(Name)
    PROVE  Moved(old, old, new) = new
<1>1. Len(old) \in Nat
  BY LenProperties
<1>2. SubSeq(old, Len(old) + 1, Len(old)) = <<>>
  BY <1>1, SubSeqEmpty
<1> QED BY <1>2, ConcatEmptySeq DEF Moved

(* A path that follows its folder's still does when both have moved.       *)
LEMMA RowFollows ==
    ASSUME NEW old \in Seq(Name), NEW new \in Seq(Name), NEW base \in Seq(Name), NEW a \in Name
    PROVE  (IF Under(old, Append(base, a)) THEN Moved(Append(base, a), old, new) ELSE Append(base, a))
             = Append(IF base = old \/ Under(old, base) THEN Moved(base, old, new) ELSE base, a)
<1>1. CASE base = old \/ Under(old, base)
  <2>1. Len(base) \in Nat /\ Len(old) \in Nat
    BY LenProperties
  <2>2. Len(base) >= Len(old)
    BY <1>1, <2>1 DEF Under
  <2>3. Under(old, Append(base, a))
    BY <1>1, UnderAppend
  <2> QED BY <1>1, <2>2, <2>3, MovedAppend
<1>2. CASE ~(base = old \/ Under(old, base))
  BY <1>2, UnderAppend
<1> QED BY <1>1, <1>2

(* ------------------------------ the rows ------------------------------- *)

Typed(fs, ns) ==
    /\ fs \in [Folder -> FolderRow \cup {None}]
    /\ ns \in [Note -> NoteRow \cup {None}]

Base(fs, home) == IF home = None THEN <<>> ELSE fs[home].path

(* PathsFollow of any two tables.                                          *)
Follows(fs, ns) ==
    /\ \A f \in Live(fs) : fs[f].path = Append(Base(fs, fs[f].home), fs[f].name)
    /\ \A n \in Live(ns) : ns[n].path = Append(Base(fs, ns[n].home), ns[n].name)
    /\ Sound(fs, ns)

LEMMA PathsAre ==
    /\ PathsFollow <=> Follows(folder, note)
    /\ PathsFollow' <=> Follows(folder', note')
BY DEF PathsFollow, Follows, Path, Base

LEMMA RowsTyped ==
    ASSUME NEW fs, NEW ns, Typed(fs, ns)
    PROVE  /\ Live(fs) \subseteq Folder /\ Live(ns) \subseteq Note
           /\ \A f \in Live(fs) : fs[f] \in FolderRow
           /\ \A n \in Live(ns) : ns[n] \in NoteRow
BY DEF Typed, Live

LEMMA BaseTyped ==
    ASSUME NEW fs, NEW ns, Typed(fs, ns), NEW home \in Live(fs) \cup {None}
    PROVE  Base(fs, home) \in Seq(Name)
<1>1. CASE home = None
  BY <1>1, EmptySeq DEF Base
<1>2. CASE home # None
  <2>1. fs[home] \in FolderRow
    BY <1>2, RowsTyped
  <2> QED BY <1>2, <2>1 DEF Base, FolderRow
<1> QED BY <1>1, <1>2

(* What folder f is to become: a row whose folder is neither f nor below.  *)
Fits(fs, f, row) ==
    /\ row \in FolderRow
    /\ row.home \in Live(fs) \cup {None}
    /\ row.home # f
    /\ row.path = Append(Base(fs, row.home), row.name)
    /\ row.home # None => ~Under(fs[f].path, fs[row.home].path)

(* A rename or a move of f takes every path below it along.                *)
LEMMA RecomputedFollows ==
    ASSUME NEW fs, NEW ns, Typed(fs, ns), Follows(fs, ns),
           NEW f \in Live(fs), NEW row, Fits(fs, f, row),
           NEW put, put = [fs EXCEPT ![f] = Merged(@, fs[f], row)],
           NEW folders, folders = Recomputed(put, fs[f].path, row.path),
           NEW notes, notes = Recomputed(ns, fs[f].path, row.path),
           Sound(folders, notes)
    PROVE  Typed(folders, notes) /\ Follows(folders, notes)
<1> DEFINE old == fs[f].path
           new == row.path
           Carried(p) == IF Under(old, p) THEN Moved(p, old, new) ELSE p
<1>1. /\ f \in Folder /\ fs[f] \in FolderRow /\ fs[f] # None
      /\ old \in Seq(Name) /\ new \in Seq(Name)
  BY RowsTyped DEF Live, Fits, FolderRow
<1>2. put = [g \in Folder |-> IF g = f THEN row ELSE fs[g]]
  <2>1. Merged(fs[f], fs[f], row) = row
    BY <1>1 DEF Merged, Fits, FolderRow
  <2> QED BY <1>1, <2>1 DEF Typed
<1>3. /\ row # None
      /\ Live(put) = Live(fs)
      /\ \A g \in Live(fs) : put[g] \in FolderRow
  BY <1>1, <1>2, RowsTyped, NoneIsNoRow DEF Live, Fits, Typed
<1>4. \A p \in Seq(Name) : Carried(p) \in Seq(Name)
  BY <1>1, MovedTyped
<1>5. folders = [g \in Folder |->
          IF put[g] # None /\ Under(old, put[g].path) THEN [put[g] EXCEPT !.path = Moved(@, old, new)] ELSE put[g]]
  BY <1>2 DEF Recomputed
<1>6. notes = [n \in Note |->
          IF ns[n] # None /\ Under(old, ns[n].path) THEN [ns[n] EXCEPT !.path = Moved(@, old, new)] ELSE ns[n]]
  BY DEF Recomputed, Typed
<1>7. ASSUME NEW g \in Live(fs)
      PROVE  /\ folders[g] \in FolderRow /\ folders[g] # None
             /\ folders[g].home = put[g].home /\ folders[g].name = put[g].name
             /\ folders[g].path = Carried(put[g].path)
  <2>1. put[g] \in FolderRow /\ put[g] # None /\ g \in Folder
    BY <1>3, <1>7, RowsTyped DEF Live
  <2>2. put[g].path \in Seq(Name) /\ Carried(put[g].path) \in Seq(Name)
    BY <1>4, <2>1 DEF FolderRow
  <2>3. CASE Under(old, put[g].path)
    <3>1. folders[g] = [put[g] EXCEPT !.path = Moved(@, old, new)]
      BY <1>5, <2>1, <2>3
    <3>2. folders[g] \in FolderRow
      BY <2>1, <2>2, <2>3, <3>1 DEF FolderRow
    <3> QED BY <2>1, <2>3, <3>1, <3>2, NoneIsNoRow DEF FolderRow
  <2>4. CASE ~Under(old, put[g].path)
    BY <1>5, <2>1, <2>4
  <2> QED BY <2>3, <2>4
<1>8. ASSUME NEW n \in Live(ns)
      PROVE  /\ notes[n] \in NoteRow /\ notes[n] # None
             /\ notes[n].home = ns[n].home /\ notes[n].name = ns[n].name
             /\ notes[n].path = Carried(ns[n].path)
  <2>1. ns[n] \in NoteRow /\ ns[n] # None /\ n \in Note
    BY <1>8, RowsTyped DEF Live
  <2>2. ns[n].path \in Seq(Name) /\ Carried(ns[n].path) \in Seq(Name)
    BY <1>4, <2>1 DEF NoteRow
  <2>3. CASE Under(old, ns[n].path)
    <3>1. notes[n] = [ns[n] EXCEPT !.path = Moved(@, old, new)]
      BY <1>6, <2>1, <2>3
    <3>2. notes[n] \in NoteRow
      BY <2>1, <2>2, <2>3, <3>1 DEF NoteRow
    <3> QED BY <2>1, <2>3, <3>1, <3>2, NoneIsNoRow DEF NoteRow
  <2>4. CASE ~Under(old, ns[n].path)
    BY <1>6, <2>1, <2>4
  <2> QED BY <2>3, <2>4
<1>9. /\ \A g \in Folder : g \notin Live(fs) => folders[g] = None
      /\ \A n \in Note : n \notin Live(ns) => notes[n] = None
  BY <1>2, <1>3, <1>5, <1>6 DEF Live, Typed
<1>10. Live(folders) = Live(fs) /\ Live(notes) = Live(ns)
  <2>1. DOMAIN folders = Folder /\ DOMAIN notes = Note
    BY <1>5, <1>6
  <2>2. \A g \in Folder : folders[g] # None <=> g \in Live(fs)
    BY <1>7, <1>9
  <2>3. \A n \in Note : notes[n] # None <=> n \in Live(ns)
    BY <1>8, <1>9
  <2>4. Live(fs) \subseteq Folder /\ Live(ns) \subseteq Note
    BY RowsTyped
  <2>5. Live(folders) = Live(fs)
    BY <2>1, <2>2, <2>4 DEF Live
  <2>6. Live(notes) = Live(ns)
    BY <2>1, <2>3, <2>4 DEF Live
  <2> QED BY <2>5, <2>6
<1>11. Typed(folders, notes)
  BY <1>5, <1>6, <1>7, <1>8, <1>9 DEF Typed
(* What was at Base is at the carried Base, whatever folder it is.         *)
<1>12. old # <<>> /\ Len(old) > 0
  <2>1. fs[f].home \in Live(fs) \cup {None}
    BY DEF Follows, Sound
  <2>2. Base(fs, fs[f].home) \in Seq(Name)
    BY <2>1, BaseTyped
  <2>3. old = Append(Base(fs, fs[f].home), fs[f].name) /\ fs[f].name \in Name
    BY <1>1 DEF Follows, FolderRow
  <2>4. old # <<>>
    BY <2>2, <2>3, AppendProperties
  <2> QED BY <1>1, <2>4, EmptySeq
<1>13. \A g \in Live(fs) : fs[g].path = old => g = f
  BY <1>1 DEF Follows, Sound, Taken
<1>14. ASSUME NEW home \in Live(fs) \cup {None}
       PROVE  Base(folders, home) = IF Base(fs, home) = old \/ Under(old, Base(fs, home))
                                    THEN Moved(Base(fs, home), old, new) ELSE Base(fs, home)
  <2>1. CASE home = None
    <3>1. Base(fs, home) = <<>> /\ Base(folders, home) = <<>>
      BY <2>1 DEF Base
    <3>2. ~Under(old, <<>>)
      <4>1. Len(<<>>) = 0 /\ Len(old) \in Nat
        BY <1>1, LenProperties
      <4> QED BY <1>12, <4>1 DEF Under
    <3> QED BY <1>12, <3>1, <3>2
  <2>2. CASE home = f
    <3>1. Base(fs, home) = old /\ Base(folders, home) = folders[f].path
      BY <2>2, <1>1, NoneIsNoRow DEF Base
    <3>2. folders[f].path = Carried(new)
      BY <1>1, <1>2, <1>7
    <3>3. ~Under(old, new)
      <4>1. Base(fs, row.home) \in Seq(Name) /\ row.name \in Name
        BY BaseTyped DEF Fits, FolderRow
      <4>2. Under(old, new) <=> Base(fs, row.home) = old \/ Under(old, Base(fs, row.home))
        BY <1>1, <4>1, UnderAppend DEF Fits
      <4>3. CASE row.home = None
        <5>1. Base(fs, row.home) = <<>>
          BY <4>3 DEF Base
        <5>2. Len(<<>>) = 0 /\ Len(old) \in Nat
          BY <1>1, LenProperties
        <5> QED BY <1>12, <4>2, <5>1, <5>2 DEF Under
      <4>4. CASE row.home # None
        <5>1. row.home \in Live(fs) /\ row.home # f /\ Base(fs, row.home) = fs[row.home].path
          BY <4>4 DEF Fits, Base
        <5>2. fs[row.home].path # old
          BY <1>13, <5>1
        <5>3. ~Under(old, fs[row.home].path)
          BY <4>4 DEF Fits
        <5> QED BY <4>2, <5>1, <5>2, <5>3
      <4> QED BY <4>3, <4>4
    <3>4. Moved(old, old, new) = new
      BY <1>1, MovedItself
    <3> QED BY <3>1, <3>2, <3>3, <3>4
  <2>3. CASE home # None /\ home # f
    <3>1. home \in Live(fs) /\ home \in Folder
      BY <2>3, RowsTyped
    <3>2. Base(fs, home) = fs[home].path /\ Base(folders, home) = folders[home].path
      BY <2>3 DEF Base
    <3>3. put[home] = fs[home]
      BY <1>2, <2>3, <3>1
    <3>4. folders[home].path = Carried(fs[home].path) /\ fs[home].path # old
      BY <1>7, <1>13, <2>3, <3>1, <3>3
    <3> QED BY <3>2, <3>4
  <2> QED BY <2>1, <2>2, <2>3
<1>15. ASSUME NEW home \in Live(fs) \cup {None}, NEW a \in Name
       PROVE  Carried(Append(Base(fs, home), a)) = Append(Base(folders, home), a)
  <2>1. Base(fs, home) \in Seq(Name)
    BY BaseTyped
  <2> DEFINE b == Base(fs, home)
  <2>2. (IF Under(old, Append(b, a)) THEN Moved(Append(b, a), old, new) ELSE Append(b, a))
          = Append(IF b = old \/ Under(old, b) THEN Moved(b, old, new) ELSE b, a)
    <3> HIDE DEF b, old, new
    <3> QED BY <1>1, <2>1, RowFollows DEF b
  <2>3. Base(folders, home) = IF b = old \/ Under(old, b) THEN Moved(b, old, new) ELSE b
    BY <1>14, <1>15
  <2> QED BY <2>2, <2>3
<1>16. ASSUME NEW g \in Live(folders)
       PROVE  folders[g].path = Append(Base(folders, folders[g].home), folders[g].name)
  <2>1. g \in Live(fs) /\ g \in Folder
    BY <1>10, RowsTyped
  <2>2. put[g].home \in Live(fs) \cup {None} /\ put[g].name \in Name
    BY <1>2, <1>3, <2>1 DEF Fits, Follows, Sound, FolderRow
  <2>3. put[g].path = Append(Base(fs, put[g].home), put[g].name)
    BY <1>2, <2>1 DEF Fits, Follows
  <2>4. /\ folders[g].path = Carried(put[g].path)
        /\ folders[g].home = put[g].home /\ folders[g].name = put[g].name
    BY <1>7, <2>1
  <2>5. Carried(Append(Base(fs, put[g].home), put[g].name)) = Append(Base(folders, put[g].home), put[g].name)
    BY <1>15, <2>2
  <2> HIDE DEF Carried
  <2> QED BY <2>3, <2>4, <2>5
<1>17. ASSUME NEW n \in Live(notes)
       PROVE  notes[n].path = Append(Base(folders, notes[n].home), notes[n].name)
  <2>1. n \in Live(ns)
    BY <1>10
  <2>2. ns[n].home \in Live(fs) \cup {None} /\ ns[n].name \in Name
    BY <2>1, RowsTyped DEF Follows, Sound, NoteRow
  <2>3. ns[n].path = Append(Base(fs, ns[n].home), ns[n].name)
    BY <2>1 DEF Follows
  <2>4. /\ notes[n].path = Carried(ns[n].path)
        /\ notes[n].home = ns[n].home /\ notes[n].name = ns[n].name
    BY <1>8, <2>1
  <2>5. Carried(Append(Base(fs, ns[n].home), ns[n].name)) = Append(Base(folders, ns[n].home), ns[n].name)
    BY <1>15, <2>2
  <2> HIDE DEF Carried
  <2> QED BY <2>3, <2>4, <2>5
<1> QED BY <1>11, <1>16, <1>17 DEF Follows
(* A new folder is nobody's folder yet.                                    *)
LEMMA NewFolderFollows ==
    ASSUME NEW fs, NEW ns, Typed(fs, ns), Follows(fs, ns),
           NEW f \in Folder, fs[f] = None,
           NEW row \in FolderRow, row.home \in Live(fs) \cup {None},
           row.path = Append(Base(fs, row.home), row.name),
           NEW folders, folders = [fs EXCEPT ![f] = row],
           Sound(folders, ns)
    PROVE  Typed(folders, ns) /\ Follows(folders, ns)
<1>1. folders = [g \in Folder |-> IF g = f THEN row ELSE fs[g]]
  BY DEF Typed
<1>2. f \notin Live(fs) /\ Live(fs) \subseteq Folder
  BY RowsTyped DEF Live
<1>3. \A home \in Live(fs) \cup {None} : Base(folders, home) = Base(fs, home)
  BY <1>1, <1>2 DEF Base
<1>4. \A g \in Live(folders) : g = f \/ (g \in Live(fs) /\ folders[g] = fs[g])
  <2>1. DOMAIN folders = Folder /\ DOMAIN fs = Folder
    BY <1>1 DEF Typed
  <2>2. ASSUME NEW g \in Live(folders), g # f
        PROVE  g \in Live(fs) /\ folders[g] = fs[g]
    <3>1. g \in DOMAIN folders /\ folders[g] # None
      BY DEF Live
    <3>2. folders[g] = fs[g]
      BY <1>1, <2>1, <2>2, <3>1
    <3> QED BY <2>1, <3>1, <3>2 DEF Live
  <2> QED BY <2>2
<1>5. ASSUME NEW g \in Live(folders)
      PROVE  folders[g].path = Append(Base(folders, folders[g].home), folders[g].name)
  <2>1. CASE g = f
    BY <1>1, <1>3, <2>1
  <2>2. CASE g # f
    <3>1. g \in Live(fs) /\ folders[g] = fs[g]
      BY <1>4, <2>2
    <3>2. fs[g].home \in Live(fs) \cup {None}
      BY <3>1 DEF Follows, Sound
    <3> QED BY <1>3, <3>1, <3>2 DEF Follows
  <2> QED BY <2>1, <2>2
<1>6. ASSUME NEW n \in Live(ns)
      PROVE  ns[n].path = Append(Base(folders, ns[n].home), ns[n].name)
  BY <1>3 DEF Follows, Sound
<1>7. Typed(folders, ns)
  BY <1>1 DEF Typed
<1> QED BY <1>5, <1>6, <1>7 DEF Follows

(* A note that is made, renamed or moved.                                  *)
LEMMA PutNoteFollows ==
    ASSUME NEW fs, NEW ns, Typed(fs, ns), Follows(fs, ns),
           NEW n \in Note, NEW row \in NoteRow, row.home \in Live(fs) \cup {None},
           row.path = Append(Base(fs, row.home), row.name),
           NEW notes, notes = [ns EXCEPT ![n] = row],
           Sound(fs, notes)
    PROVE  Typed(fs, notes) /\ Follows(fs, notes)
<1>1. notes = [m \in Note |-> IF m = n THEN row ELSE ns[m]]
  BY DEF Typed
<1>2. \A m \in Live(notes) : m = n \/ (m \in Live(ns) /\ notes[m] = ns[m])
  <2>1. DOMAIN notes = Note /\ DOMAIN ns = Note
    BY <1>1 DEF Typed
  <2>2. ASSUME NEW m \in Live(notes), m # n
        PROVE  m \in Live(ns) /\ notes[m] = ns[m]
    <3>1. m \in DOMAIN notes /\ notes[m] # None
      BY DEF Live
    <3>2. notes[m] = ns[m]
      BY <1>1, <2>1, <2>2, <3>1
    <3> QED BY <2>1, <3>1, <3>2 DEF Live
  <2> QED BY <2>2
<1>3. ASSUME NEW m \in Live(notes)
      PROVE  notes[m].path = Append(Base(fs, notes[m].home), notes[m].name)
  BY <1>1, <1>2 DEF Follows
<1>4. Typed(fs, notes)
  BY <1>1 DEF Typed
<1> QED BY <1>3, <1>4 DEF Follows

(* A save leaves the columns that the tree is made of.                     *)
LEMMA SavedFollows ==
    ASSUME NEW fs, NEW ns, Typed(fs, ns), Follows(fs, ns),
           NEW n \in Live(ns), NEW refs \in SUBSET Seq(Name), NEW aliases \in SUBSET Name,
           NEW notes, notes = [ns EXCEPT ![n] = [ns[n] EXCEPT !.refs = refs, !.aliases = aliases]]
    PROVE  Typed(fs, notes) /\ Follows(fs, notes)
<1> DEFINE row == [ns[n] EXCEPT !.refs = refs, !.aliases = aliases]
<1>1. n \in Note /\ ns[n] \in NoteRow
  BY RowsTyped
<1>2. /\ row \in NoteRow /\ row # None
      /\ row.home = ns[n].home /\ row.name = ns[n].name /\ row.path = ns[n].path
  BY <1>1, NoneIsNoRow DEF NoteRow
<1>3. notes = [m \in Note |-> IF m = n THEN row ELSE ns[m]]
  BY DEF Typed
<1> HIDE DEF row
<1>4. Live(notes) = Live(ns)
  BY <1>1, <1>2, <1>3 DEF Live, Typed
<1>5. \A m \in Live(ns) : notes[m].home = ns[m].home /\ notes[m].name = ns[m].name /\ notes[m].path = ns[m].path
  BY <1>2, <1>3, <1>4, RowsTyped
<1>6. Typed(fs, notes)
  BY <1>2, <1>3 DEF Typed
<1>7. Sound(fs, notes)
  <2>1. Sound(fs, ns)
    BY DEF Follows
  <2>2. ASSUME NEW m \in Live(notes)
        PROVE  ~Taken(notes, notes[m].path, m) /\ notes[m].home \in Live(fs) \cup {None}
    <3>1. m \in Live(ns) /\ ~Taken(ns, ns[m].path, m) /\ ns[m].home \in Live(fs) \cup {None}
      BY <1>4, <2>1 DEF Sound
    <3> QED BY <1>4, <1>5, <3>1 DEF Taken
  <2> QED BY <2>1, <2>2 DEF Sound
<1>8. \A m \in Live(notes) : notes[m].path = Append(Base(fs, notes[m].home), notes[m].name)
  BY <1>4, <1>5 DEF Follows
<1> QED BY <1>6, <1>7, <1>8 DEF Follows

(* What goes takes with it all that is in it.                              *)
LEMMA DeletedFollows ==
    ASSUME NEW fs, NEW ns, Typed(fs, ns), Follows(fs, ns), NEW gone, NEW lost,
           \A g \in Live(fs) : fs[g].home \in gone => g \in gone,
           \A n \in Live(ns) : ns[n].home \in gone => n \in lost,
           None \notin gone,
           NEW folders, folders = [f \in Folder |-> IF f \in gone THEN None ELSE fs[f]],
           NEW notes, notes = [n \in Note |-> IF n \in lost THEN None ELSE ns[n]]
    PROVE  Typed(folders, notes) /\ Follows(folders, notes)
<1>1. /\ Live(folders) = Live(fs) \ gone
      /\ Live(notes) = Live(ns) \ lost
  BY DEF Live, Typed
<1>2. /\ \A g \in Live(folders) : folders[g] = fs[g]
      /\ \A n \in Live(notes) : notes[n] = ns[n]
  BY <1>1, RowsTyped
<1>3. Typed(folders, notes)
  BY DEF Typed
<1>4. /\ \A g \in Live(folders) : folders[g].home \in Live(folders) \cup {None}
      /\ \A n \in Live(notes) : notes[n].home \in Live(folders) \cup {None}
  BY <1>1, <1>2 DEF Follows, Sound
<1>5. Sound(folders, notes)
  BY <1>1, <1>2, <1>4 DEF Follows, Sound, Taken
<1>6. \A home \in Live(folders) \cup {None} : Base(folders, home) = Base(fs, home)
  BY <1>2 DEF Base
<1>7. ASSUME NEW g \in Live(folders)
      PROVE  folders[g].path = Append(Base(folders, folders[g].home), folders[g].name)
  <2>1. fs[g].path = Append(Base(fs, fs[g].home), fs[g].name)
    BY <1>1 DEF Follows
  <2>2. folders[g] = fs[g] /\ Base(folders, fs[g].home) = Base(fs, fs[g].home)
    BY <1>2, <1>4, <1>6
  <2> QED BY <2>1, <2>2
<1>8. ASSUME NEW n \in Live(notes)
      PROVE  notes[n].path = Append(Base(folders, notes[n].home), notes[n].name)
  <2>1. ns[n].path = Append(Base(fs, ns[n].home), ns[n].name)
    BY <1>1 DEF Follows
  <2>2. notes[n] = ns[n] /\ Base(folders, ns[n].home) = Base(fs, ns[n].home)
    BY <1>2, <1>4, <1>6
  <2> QED BY <2>1, <2>2
<1> QED BY <1>3, <1>5, <1>7, <1>8 DEF Follows

LEMMA SubtreeClosed ==
    ASSUME NEW f, NEW g \in Live(folder), Live(folder) \subseteq Folder, folder[g].home \in Subtree(f)
    PROVE  g \in Subtree(f)
BY DEF Subtree
(* -------------------------------- links -------------------------------- *)

Names(row) == Keys(row) \cup AliasKeys(row.aliases)
NamesOf(ns) == [n \in Note |-> IF ns[n] = None THEN {} ELSE Names(ns[n])]

(* Every link is to nothing or to a note with its key among these names.   *)
Among(names, links) ==
    /\ links \subseteq LinkRow
    /\ \A l \in links : l.target # None => l.key \in names[l.target]

LEMMA AmongMore ==
    ASSUME NEW names, NEW more, NEW links, Among(names, links),
           \A n \in Note : names[n] \subseteq more[n]
    PROVE  Among(more, links)
BY DEF Among, LinkRow

LEMMA ClaimAmong ==
    ASSUME NEW names, NEW links, Among(names, links),
           NEW n \in Note, NEW keys, keys \subseteq names[n]
    PROVE  Among(names, Claim(links, n, keys))
<1> SUFFICES ASSUME NEW l \in Claim(links, n, keys)
             PROVE  l \in LinkRow /\ (l.target # None => l.key \in names[l.target])
  BY DEF Among
<1>1. PICK k \in links : l = IF k.target = None /\ k.key \in keys THEN [k EXCEPT !.target = n] ELSE k
  BY DEF Claim
<1> QED BY <1>1 DEF Among, LinkRow

(* What n lets go of is all that it no longer bears.                       *)
LEMMA ReleaseAmong ==
    ASSUME NEW names, NEW less, NEW links, Among(names, links),
           NEW n \in Note, NEW keys, names[n] \subseteq less[n] \cup keys,
           \A m \in Note \ {n} : names[m] \subseteq less[m]
    PROVE  Among(less, Release(links, n, keys))
<1> SUFFICES ASSUME NEW l \in Release(links, n, keys)
             PROVE  l \in LinkRow /\ (l.target # None => l.key \in less[l.target])
  BY DEF Among
<1>1. PICK k \in links : l = IF k.target = n /\ k.key \in keys THEN [k EXCEPT !.target = None] ELSE k
  BY DEF Release
<1>2. k \in LinkRow /\ (k.target # None => k.key \in names[k.target])
  BY DEF Among
<1>3. CASE k.target = n /\ k.key \in keys
  BY <1>1, <1>2, <1>3 DEF LinkRow
<1>4. CASE ~(k.target = n /\ k.key \in keys)
  BY <1>1, <1>2, <1>4 DEF LinkRow
<1> QED BY <1>3, <1>4

LEMMA ResolvedBears ==
    ASSUME NEW ns \in [Note -> NoteRow \cup {None}], NEW key
    PROVE  \/ Resolved(ns, key) = None
           \/ Resolved(ns, key) \in Note /\ key \in NamesOf(ns)[Resolved(ns, key)]
<1> DEFINE ByPath == {n \in Live(ns) : ns[n].path = key}
           ByTitle == {n \in Live(ns) : <<ns[n].name>> = key}
           ByAlias == {n \in Live(ns) : key \in AliasKeys(ns[n].aliases)}
           One(S) == CHOOSE n \in S : TRUE
<1>1. \A S : S # {} => One(S) \in S
  OBVIOUS
<1>2. Resolved(ns, key) = IF ByPath # {} THEN One(ByPath)
                          ELSE IF ByTitle # {} THEN One(ByTitle)
                          ELSE IF ByAlias # {} THEN One(ByAlias) ELSE None
  BY DEF Resolved
<1>3. \A n \in ByPath \cup ByTitle \cup ByAlias : n \in Note /\ key \in NamesOf(ns)[n]
  BY DEF Live, NamesOf, Names, Keys
<1> HIDE DEF ByPath, ByTitle, ByAlias, One
<1> QED BY <1>1, <1>2, <1>3

LEMMA DrawnAmong ==
    ASSUME NEW ns \in [Note -> NoteRow \cup {None}], NEW n \in Note, NEW refs \in SUBSET Seq(Name)
    PROVE  Among(NamesOf(ns), Drawn(ns, n, refs))
<1> SUFFICES ASSUME NEW l \in Drawn(ns, n, refs)
             PROVE  l \in LinkRow /\ (l.target # None => l.key \in NamesOf(ns)[l.target])
  BY DEF Among
<1>1. PICK k \in refs : l = [source |-> n, key |-> k, target |-> Resolved(ns, k)]
  BY DEF Drawn
<1>2. \/ Resolved(ns, k) = None
      \/ Resolved(ns, k) \in Note /\ k \in NamesOf(ns)[Resolved(ns, k)]
  BY ResolvedBears
<1> QED BY <1>1, <1>2 DEF LinkRow

LEMMA SyncAmong ==
    ASSUME NEW names, NEW links, Among(names, links),
           NEW ns \in [Note -> NoteRow \cup {None}], NEW n \in Note, NEW refs \in SUBSET Seq(Name),
           \A m \in Note : NamesOf(ns)[m] \subseteq names[m]
    PROVE  Among(names, SyncNoteLinks(links, ns, n, refs))
<1>1. Among(names, Drawn(ns, n, refs))
  BY DrawnAmong, AmongMore
<1> QED BY <1>1 DEF Among, SyncNoteLinks

(* A note whose names were `names[n]` and are those of row.                *)
LEMMA AliasesAmong ==
    ASSUME NEW names, NEW less, NEW links, Among(names, links),
           NEW n \in Note, NEW row, NEW had,
           names[n] \subseteq Keys(row) \cup AliasKeys(had) \cup AliasKeys(row.aliases),
           less[n] = Names(row),
           \A m \in Note \ {n} : names[m] \subseteq less[m]
    PROVE  Among(less, SyncNoteAliases(links, n, row, had))
<1> DEFINE more == [m \in Note |-> IF m = n THEN names[n] \cup Names(row) ELSE names[m]]
           added == AliasKeys(row.aliases \ had)
           removed == AliasKeys(had \ row.aliases) \ Keys(row)
<1>1. Among(more, links)
  BY AmongMore
<1>2. added \subseteq more[n]
  BY DEF Names, AliasKeys
<1>3. Among(more, Claim(links, n, added))
  <2> HIDE DEF more, added
  <2> QED BY <1>1, <1>2, ClaimAmong
<1>4. more[n] \subseteq less[n] \cup removed
  BY DEF Names, AliasKeys
<1>5. \A m \in Note \ {n} : more[m] \subseteq less[m]
  OBVIOUS
<1>6. Among(less, Release(Claim(links, n, added), n, removed))
  <2> HIDE DEF more, added, removed
  <2> QED BY <1>3, <1>4, <1>5, ReleaseAmong
<1> QED BY <1>6 DEF SyncNoteAliases

LEMMA RenamedAmong ==
    ASSUME NEW names, NEW less, NEW links, Among(names, links),
           NEW n \in Note, NEW was, NEW row,
           names[n] = Names(was), less[n] = Names(row), was.aliases = row.aliases,
           \A m \in Note \ {n} : names[m] \subseteq less[m]
    PROVE  Among(less, RenamedLinks(links, n, was, row))
<1>1. names[n] \subseteq less[n] \cup (Keys(was) \ Keys(row))
  BY DEF Names
<1>2. Among(less, Release(links, n, Keys(was) \ Keys(row)))
  BY <1>1, ReleaseAmong
<1>3. Keys(row) \subseteq less[n]
  BY DEF Names
<1> QED BY <1>2, <1>3, ClaimAmong DEF RenamedLinks

(* Notes whose paths alone have changed.                                   *)
LEMMA RecomputedAmong ==
    ASSUME note \in [Note -> NoteRow \cup {None}], Among(NamesOf(note), link),
           NEW notes \in [Note -> NoteRow \cup {None}], Live(notes) = Live(note),
           \A n \in Live(note) : notes[n].name = note[n].name /\ notes[n].aliases = note[n].aliases
    PROVE  Among(NamesOf(notes), RecomputedLinks(link, notes))
<1> DEFINE moved == {n \in Live(notes) : notes[n].path # note[n].path}
           Left(l) == l.target \in moved /\ l.key = note[l.target].path /\ l.key \notin Keys(notes[l.target])
           Claimants(key) == {n \in moved : key \in Keys(notes[n])}
           Kept(l) == IF Left(l) THEN None ELSE l.target
           After(l) == IF Kept(l) = None /\ Claimants(l.key) # {}
                       THEN CHOOSE n \in Claimants(l.key) : TRUE ELSE Kept(l)
<1>1. RecomputedLinks(link, notes) = {[l EXCEPT !.target = After(l)] : l \in link}
  BY DEF RecomputedLinks
<1>2. ASSUME NEW l \in link, Kept(l) # None
      PROVE  Kept(l) \in Note /\ l.key \in NamesOf(notes)[Kept(l)]
  <2>1. Kept(l) = l.target /\ ~Left(l) /\ l.target \in Note /\ l.key \in NamesOf(note)[l.target]
    BY <1>2 DEF Among, LinkRow
  <2> DEFINE n == l.target
  <2>2. n \in Live(note) /\ n \in Live(notes) /\ l.key \in Names(note[n])
    BY <2>1 DEF NamesOf, Live
  <2>3. l.key \in Names(notes[n])
    <3>1. CASE l.key = note[n].path
      <4>1. CASE n \in moved
        BY <2>1, <3>1, <4>1 DEF Names
      <4>2. CASE n \notin moved
        BY <2>2, <3>1, <4>2 DEF Names, Keys
      <4> QED BY <4>1, <4>2
    <3>2. CASE l.key # note[n].path
      BY <2>2, <3>2 DEF Names, Keys
    <3> QED BY <3>1, <3>2
  <2>4. NamesOf(notes)[n] = Names(notes[n])
    BY <2>1, <2>2 DEF NamesOf, Live
  <2> QED BY <2>1, <2>3, <2>4
<1>3. ASSUME NEW key, NEW n \in Claimants(key)
      PROVE  n \in Note /\ key \in NamesOf(notes)[n]
  BY <1>3 DEF NamesOf, Names, Live
<1>4. ASSUME NEW l \in link, After(l) # None
      PROVE  After(l) \in Note /\ l.key \in NamesOf(notes)[After(l)]
  <2>1. CASE Kept(l) = None /\ Claimants(l.key) # {}
    <3>1. After(l) \in Claimants(l.key)
      BY <2>1
    <3> HIDE DEF After, Claimants
    <3> QED BY <1>3, <3>1
  <2>2. CASE ~(Kept(l) = None /\ Claimants(l.key) # {})
    <3>1. After(l) = Kept(l)
      BY <2>2
    <3> HIDE DEF After, Kept
    <3> QED BY <1>2, <1>4, <3>1
  <2> QED BY <2>1, <2>2
<1> HIDE DEF After
<1> SUFFICES ASSUME NEW k \in {[l EXCEPT !.target = After(l)] : l \in link}
             PROVE  k \in LinkRow /\ (k.target # None => k.key \in NamesOf(notes)[k.target])
  BY <1>1 DEF Among
<1>5. PICK l \in link : k = [l EXCEPT !.target = After(l)]
  OBVIOUS
<1>6. l \in LinkRow
  BY DEF Among
<1>7. k.source = l.source /\ k.key = l.key /\ k.target = After(l)
      /\ k = [source |-> l.source, key |-> l.key, target |-> After(l)]
  BY <1>5, <1>6 DEF LinkRow
<1> QED BY <1>4, <1>6, <1>7 DEF LinkRow

LEMMA DeletedAmong ==
    ASSUME NEW ns \in [Note -> NoteRow \cup {None}], NEW links, Among(NamesOf(ns), links), NEW lost,
           NEW notes, notes = [n \in Note |-> IF n \in lost THEN None ELSE ns[n]]
    PROVE  Among(NamesOf(notes), Unlinked(links, lost))
<1> SUFFICES ASSUME NEW k \in Unlinked(links, lost)
             PROVE  k \in LinkRow /\ (k.target # None => k.key \in NamesOf(notes)[k.target])
  BY DEF Among
<1>1. PICK l \in links : k = IF l.target \in lost THEN [l EXCEPT !.target = None] ELSE l
  BY DEF Unlinked
<1>2. l \in LinkRow /\ (l.target # None => l.key \in NamesOf(ns)[l.target])
  BY DEF Among
<1>3. CASE l.target \in lost
  BY <1>1, <1>2, <1>3 DEF LinkRow
<1>4. CASE l.target \notin lost
  BY <1>1, <1>2, <1>4 DEF LinkRow, NamesOf
<1> QED BY <1>3, <1>4
(* ---------------------------- the invariant ---------------------------- *)

(* What a request has checked is still so when it commits.                 *)
FolderPlan(q) ==
    /\ q.id \in Folder /\ q.was = folder[q.id]
    /\ q.row \in FolderRow /\ q.row.home \in Live(folder) \cup {None}
    /\ q.row.path = Path(q.row.home, q.row.name)
    /\ q.was # None => Fits(folder, q.id, q.row)

NotePlan(q) ==
    /\ q.id \in Note /\ q.was = note[q.id]
    /\ q.row \in NoteRow /\ q.row.home \in Live(folder) \cup {None}
    /\ q.row.path = Path(q.row.home, q.row.name)
    /\ q.was # None => q.row.refs = q.was.refs /\ q.row.aliases = q.was.aliases

Plan(q) ==
    \/ q.do = "folder" /\ FolderPlan(q)
    \/ q.do = "note" /\ NotePlan(q)

Fresh ==
    /\ req = [r \in Request |-> req[r]]
    /\ \A s, t \in Checked : s = t
    /\ \A s \in Checked : Plan(req[s])

CachesTyped ==
    /\ cached \in [View -> {"none", "right", "dated", "wrong"}]
    /\ fill \in [View -> {"none", "half", "right", "dated", "wrong"}]
    /\ late \subseteq View /\ steps \in Nat

IInv ==
    /\ Typed(folder, note) /\ Follows(folder, note) /\ Among(NamesOf(note), link)
    /\ CachesTyped /\ Fresh

LEMMA InitIInv == Init => IInv
<1> SUFFICES ASSUME Init PROVE IInv
  OBVIOUS
<1>1. Live(folder) = {} /\ Live(note) = {}
  BY DEF Init, Live
<1>2. Typed(folder, note) /\ Follows(folder, note)
  BY <1>1 DEF Init, Typed, Follows, Sound
<1>3. Among(NamesOf(note), link) /\ CachesTyped
  BY DEF Init, Among, CachesTyped
<1>4. Checked = {}
  BY DEF Init, Checked
<1>5. Fresh
  BY <1>4 DEF Init, Fresh
<1> QED BY <1>2, <1>3, <1>5 DEF IInv

LEMMA FreshSame ==
    ASSUME Fresh, UNCHANGED rows, req' = [r \in Request |-> req'[r]],
           Checked' \subseteq Checked, \A s \in Checked' : req'[s] = req[s]
    PROVE  Fresh'
<1>1. folder' = folder /\ note' = note
  BY DEF rows
<1>2. ASSUME NEW s \in Checked' PROVE Plan(req[s])'
  <2>1. Plan(req[s]) /\ req'[s] = req[s]
    BY <1>2 DEF Fresh
  <2> QED BY <1>1, <2>1 DEF Plan, FolderPlan, NotePlan, Path
<1> QED BY <1>2 DEF Fresh

LEMMA RowsSame ==
    ASSUME IInv, UNCHANGED rows, CachesTyped', Fresh'
    PROVE  IInv'
BY DEF IInv, rows

(* A request is checked while no other is.                                 *)
LEMMA CheckKeeps ==
    ASSUME IInv, ~Overlap, NEW r \in Request, NEW do, NEW id, NEW was, NEW row,
           Check(r, do, id, was, row),
           Plan([do |-> do, id |-> id, was |-> was, row |-> row])
    PROVE  IInv'
<1> DEFINE q == [do |-> do, id |-> id, was |-> was, row |-> row]
<1>1. /\ Checked = {} /\ req' = [req EXCEPT ![r] = q] /\ UNCHANGED <<rows, cached, fill, late>>
      /\ steps' = steps + 1
  BY DEF Check, Idle
<1>2. req' = [s \in Request |-> IF s = r THEN q ELSE req[s]]
  BY <1>1 DEF IInv, Fresh
<1>3. Checked' \subseteq {r}
  BY <1>1, <1>2 DEF Checked
<1>4. folder' = folder /\ note' = note
  BY <1>1 DEF rows
<1> HIDE DEF q
<1>6. req'[r] = q
  BY <1>2
<1>7. ASSUME NEW s \in Checked' PROVE Plan(req[s])'
  <2>1. s = r /\ req'[s] = q
    BY <1>3, <1>6
  <2>2. Plan(q)
    BY DEF q
  <2> QED BY <1>4, <2>1, <2>2 DEF Plan, FolderPlan, NotePlan, Path
<1>8. Fresh'
  <2>1. (req = [s \in Request |-> req[s]])'
    BY <1>2
  <2>2. (\A s, t \in Checked : s = t)'
    BY <1>3
  <2> QED BY <1>7, <2>1, <2>2 DEF Fresh
<1>9. CachesTyped'
  BY <1>1 DEF IInv, CachesTyped
<1> QED BY <1>1, <1>8, <1>9, RowsSame

(* A commit that keeps the rows as they must be.                           *)
LEMMA WriteKeeps ==
    ASSUME IInv, NEW r \in Request, Checked \subseteq {r},
           NEW drop, NEW edited, NEW folders, NEW notes, NEW links,
           Write(r, drop, edited, folders, notes, links), steps' \in Nat,
           Typed(folders, notes), Follows(folders, notes), Among(NamesOf(notes), links)
    PROVE  IInv'
<1>1. /\ folder' = folders /\ note' = notes /\ link' = links /\ late' = late
      /\ req' = [req EXCEPT ![r] = [do |-> "drop", views |-> drop]]
  BY DEF Write
<1>2. cached' \in [View -> {"none", "right", "dated", "wrong"}] /\ fill' \in [View -> {"none", "half", "right", "dated", "wrong"}]
  BY DEF Write, IInv, CachesTyped
<1>3. req' = [s \in Request |-> IF s = r THEN [do |-> "drop", views |-> drop] ELSE req[s]]
  BY <1>1 DEF IInv, Fresh
<1>4. Checked' = {}
  BY <1>3 DEF Checked
<1>5. Fresh'
  BY <1>3, <1>4 DEF Fresh
<1>6. CachesTyped'
  BY <1>1, <1>2 DEF IInv, CachesTyped
<1> QED BY <1>1, <1>5, <1>6 DEF IInv

LEMMA FailKeeps ==
    ASSUME IInv, NEW r \in Request, Fails(r), UNCHANGED steps
    PROVE  IInv'
<1>1. req' = [s \in Request |-> IF s = r THEN None ELSE req[s]]
  BY DEF Fails, IInv, Fresh
<1>2. Checked' \subseteq Checked /\ \A s \in Checked' : req'[s] = req[s]
  BY <1>1 DEF Checked
<1>3. Fresh'
  BY <1>1, <1>2, FreshSame DEF Fails, IInv
<1>4. CachesTyped'
  BY DEF Fails, IInv, CachesTyped
<1> QED BY <1>3, <1>4, RowsSame DEF Fails
(* ------------------------------- requests ------------------------------ *)

LEMMA HomePath ==
    ASSUME IInv, NEW home \in Live(folder) \cup {None}, NEW name \in Name
    PROVE  /\ Path(home, name) = Append(Base(folder, home), name)
           /\ Base(folder, home) \in Seq(Name) /\ Path(home, name) \in Seq(Name)
<1>1. Base(folder, home) \in Seq(Name)
  BY BaseTyped DEF IInv
<1>2. Append(Base(folder, home), name) \in Seq(Name)
  BY <1>1, AppendProperties
<1> QED BY <1>1, <1>2 DEF Path, Base

LEMMA LiveFolder ==
    ASSUME IInv, NEW f \in Live(folder)
    PROVE  /\ f \in Folder /\ folder[f] \in FolderRow /\ folder[f] # None
           /\ folder[f].home \in Live(folder) \cup {None}
           /\ folder[f].path = Append(Base(folder, folder[f].home), folder[f].name)
BY RowsTyped DEF IInv, Follows, Sound, Live

LEMMA LiveNote ==
    ASSUME IInv, NEW n \in Live(note)
    PROVE  /\ n \in Note /\ note[n] \in NoteRow /\ note[n] # None
           /\ note[n].home \in Live(folder) \cup {None}
BY RowsTyped DEF IInv, Follows, Sound, Live

LEMMA FolderPlanned ==
    ASSUME NEW f \in Folder, NEW row \in FolderRow, row.home \in Live(folder) \cup {None},
           row.path = Path(row.home, row.name), folder[f] # None => Fits(folder, f, row)
    PROVE  Plan([do |-> "folder", id |-> f, was |-> folder[f], row |-> row])
<1> DEFINE q == [do |-> "folder", id |-> f, was |-> folder[f], row |-> row]
<1>1. q.do = "folder" /\ q.id = f /\ q.was = folder[f] /\ q.row = row
  OBVIOUS
<1> HIDE DEF q
<1>2. FolderPlan(q)
  BY <1>1 DEF FolderPlan
<1>3. Plan(q)
  BY <1>1, <1>2 DEF Plan
<1> QED BY <1>3 DEF q

LEMMA CreateFolderKeeps ==
    ASSUME IInv, ~Overlap, NEW r \in Request, NEW f \in Folder, NEW name \in Name,
           NEW home \in Live(folder) \cup {None}, CreateFolder(r, f, name, home)
    PROVE  IInv'
<1> DEFINE row == [home |-> home, name |-> name, path |-> Path(home, name)]
<1>1. folder[f] = None /\ Check(r, "folder", f, None, row)
  BY DEF CreateFolder, New
<1>2. row \in FolderRow
  BY HomePath, RowsTyped DEF FolderRow, IInv
<1>3. Plan([do |-> "folder", id |-> f, was |-> folder[f], row |-> row])
  <2>1. row.home = home /\ row.name = name /\ row.path = Path(home, name)
    OBVIOUS
  <2> HIDE DEF row
  <2> QED BY <1>1, <1>2, <2>1, FolderPlanned
<1> HIDE DEF row
<1> QED BY <1>1, <1>3, CheckKeeps

LEMMA RenameFolderKeeps ==
    ASSUME IInv, ~Overlap, NEW r \in Request, NEW f \in Live(folder), NEW name \in Name,
           RenameFolder(r, f, name)
    PROVE  IInv'
<1> DEFINE was == folder[f]
           base == Base(folder, was.home)
           row == [was EXCEPT !.name = name, !.path = Append(Front(was.path), name)]
<1>1. Check(r, "folder", f, was, row)
  BY DEF RenameFolder
<1>2. /\ was \in FolderRow /\ f \in Folder /\ was # None
      /\ was.home \in Live(folder) \cup {None} /\ was.name \in Name
      /\ was.path = Append(base, was.name)
  BY LiveFolder DEF FolderRow
<1>3. base \in Seq(Name) /\ Path(was.home, name) = Append(base, name) /\ Append(base, name) \in Seq(Name)
  <2> HIDE DEF was
  <2> QED BY <1>2, HomePath
<1>4. Front(was.path) = base
  <2> HIDE DEF base, was
  <2> QED BY <1>2, <1>3, FrontOfAppend
<1>5. row \in FolderRow /\ row.home = was.home /\ row.name = name /\ row.path = Append(base, name)
  <2> HIDE DEF base
  <2> QED BY <1>2, <1>3, <1>4 DEF FolderRow
<1>6. Len(was.path) = Len(base) + 1 /\ Len(base) \in Nat
  <2> HIDE DEF base, was
  <2> QED BY <1>2, <1>3, AppendProperties, LenProperties
<1>7. ASSUME was.home # None
      PROVE  was.home # f /\ ~Under(was.path, folder[was.home].path)
  <2>1. base = folder[was.home].path
    BY <1>7 DEF Base
  <2>2. was.home = f => folder[was.home].path = was.path
    OBVIOUS
  <2> HIDE DEF base, was
  <2>3. base # was.path
    BY <1>6
  <2>4. ~Under(was.path, base)
    BY <1>6 DEF Under
  <2> QED BY <2>1, <2>2, <2>3, <2>4
<1>8. was.home # f
  BY <1>2, <1>7, NoneIsNoRow
<1>9. Fits(folder, f, row)
  <2> HIDE DEF row
  <2> QED BY <1>2, <1>5, <1>7, <1>8 DEF Fits
<1>10. Plan([do |-> "folder", id |-> f, was |-> was, row |-> row])
  <2>1. row.path = Path(row.home, row.name)
    <3> HIDE DEF row
    <3> QED BY <1>3, <1>5
  <2>2. row.home \in Live(folder) \cup {None}
    BY <1>2, <1>5
  <2> HIDE DEF row
  <2> QED BY <1>2, <1>5, <1>9, <2>1, <2>2, FolderPlanned
<1> HIDE DEF was, row
<1> QED BY <1>1, <1>10, CheckKeeps

LEMMA MoveFolderKeeps ==
    ASSUME IInv, ~Overlap, NEW r \in Request, NEW f \in Live(folder),
           NEW home \in Live(folder) \cup {None}, MoveFolder(r, f, home)
    PROVE  IInv'
<1> DEFINE was == folder[f]
           row == [was EXCEPT !.home = home, !.path = Path(home, was.name)]
<1>1. /\ Check(r, "folder", f, was, row)
      /\ home # None => home # f /\ ~Under(was.path, folder[home].path)
  BY DEF MoveFolder
<1>2. was \in FolderRow /\ f \in Folder /\ was.name \in Name
  BY LiveFolder DEF FolderRow
<1>3. /\ Path(home, was.name) \in Seq(Name)
      /\ Path(home, was.name) = Append(Base(folder, home), was.name)
      /\ home \in Folder \cup {None}
  <2> HIDE DEF was
  <2> QED BY <1>2, HomePath, RowsTyped DEF IInv
<1>4. row \in FolderRow /\ row.home = home /\ row.name = was.name /\ row.path = Path(home, was.name)
  BY <1>2, <1>3 DEF FolderRow
<1>5. Fits(folder, f, row)
  <2> HIDE DEF row
  <2> QED BY <1>1, <1>2, <1>3, <1>4, NoneIsNoRow DEF Fits
<1>6. Plan([do |-> "folder", id |-> f, was |-> was, row |-> row])
  <2>1. row.path = Path(row.home, row.name)
    <3> HIDE DEF row
    <3> QED BY <1>4
  <2>2. row.home \in Live(folder) \cup {None}
    BY <1>4
  <2> HIDE DEF row
  <2> QED BY <1>2, <1>4, <1>5, <2>1, <2>2, FolderPlanned
<1> HIDE DEF was, row
<1> QED BY <1>1, <1>6, CheckKeeps

LEMMA CreateNoteKeeps ==
    ASSUME IInv, ~Overlap, NEW r \in Request, NEW n \in Note, NEW name \in Name,
           NEW home \in Live(folder) \cup {None}, NEW text \in Text, CreateNote(r, n, name, home, text)
    PROVE  IInv'
<1> DEFINE row == [home |-> home, name |-> name, path |-> Path(home, name),
                   refs |-> text.refs, aliases |-> text.aliases]
<1>1. note[n] = None /\ Check(r, "note", n, None, row)
  BY DEF CreateNote, New
<1>2. row \in NoteRow
  <2>1. text.refs \in SUBSET Seq(Name) /\ text.aliases \in SUBSET Name
    BY TextsAreTexts
  <2> QED BY <2>1, HomePath, RowsTyped DEF NoteRow, IInv
<1>3. Plan([do |-> "note", id |-> n, was |-> None, row |-> row])
  BY <1>1, <1>2 DEF Plan, NotePlan
<1> HIDE DEF row
<1> QED BY <1>1, <1>3, CheckKeeps

LEMMA RenameNoteKeeps ==
    ASSUME IInv, ~Overlap, NEW r \in Request, NEW n \in Live(note), NEW name \in Name,
           NEW home \in Live(folder) \cup {None}, RenameNote(r, n, name, home)
    PROVE  IInv'
<1> DEFINE was == note[n]
           row == [was EXCEPT !.name = name, !.home = home, !.path = Path(home, name)]
<1>1. Check(r, "note", n, was, row)
  BY DEF RenameNote
<1>2. was \in NoteRow /\ n \in Note
  BY LiveNote
<1>3. Path(home, name) \in Seq(Name) /\ home \in Folder \cup {None}
  BY HomePath, RowsTyped DEF IInv
<1>4. /\ row \in NoteRow /\ row.home = home /\ row.name = name /\ row.path = Path(home, name)
      /\ row.refs = was.refs /\ row.aliases = was.aliases
  BY <1>2, <1>3 DEF NoteRow
<1>5. Plan([do |-> "note", id |-> n, was |-> was, row |-> row])
  <2> HIDE DEF row
  <2> QED BY <1>2, <1>4 DEF Plan, NotePlan
<1> HIDE DEF was, row
<1> QED BY <1>1, <1>5, CheckKeeps

LEMMA CommitFolderKeeps ==
    ASSUME IInv, NEW r \in Request, CommitFolder(r)
    PROVE  IInv'
<1> DEFINE q == req[r]
           made == q.was = None
           put == [folder EXCEPT ![q.id] = IF made THEN q.row ELSE Merged(@, q.was, q.row)]
           folders == IF made THEN put ELSE Recomputed(put, q.was.path, q.row.path)
           notes == IF made THEN note ELSE Recomputed(note, q.was.path, q.row.path)
           links == IF made THEN link ELSE RecomputedLinks(link, notes)
           drop == IF made THEN {"tree"} ELSE View
<1>1. /\ q # None /\ q.do = "folder" /\ UNCHANGED steps
      /\ \/ (made \/ folder[q.id] # None) /\ Sound(folders, notes) /\ Write(r, drop, FALSE, folders, notes, links)
         \/ Fails(r)
  BY DEF CommitFolder
<1>2. r \in Checked /\ Checked \subseteq {r}
  BY <1>1 DEF Checked, IInv, Fresh
<1>3. FolderPlan(q)
  BY <1>1, <1>2 DEF IInv, Fresh, Plan
<1>4. steps' \in Nat
  BY <1>1 DEF IInv, CachesTyped
<1>5. CASE Fails(r)
  BY <1>1, <1>5, FailKeeps
<1>6. CASE made /\ Sound(folders, notes) /\ Write(r, drop, FALSE, folders, notes, links)
  <2>1. folders = [folder EXCEPT ![q.id] = q.row] /\ notes = note /\ links = link
    BY <1>6
  <2>2. /\ q.id \in Folder /\ folder[q.id] = None /\ q.row \in FolderRow
        /\ q.row.home \in Live(folder) \cup {None}
        /\ q.row.path = Append(Base(folder, q.row.home), q.row.name)
    BY <1>3, <1>6 DEF FolderPlan, Path, Base
  <2>3. Sound(folders, note)
    BY <1>6, <2>1
  <2> HIDE DEF folders, notes, links, drop, q
  <2>4. Typed(folders, note) /\ Follows(folders, note)
    BY <2>1, <2>2, <2>3, NewFolderFollows DEF IInv
  <2> QED BY <1>2, <1>4, <1>6, <2>1, <2>4, WriteKeeps DEF IInv
<1>7. CASE ~made /\ Sound(folders, notes) /\ Write(r, drop, FALSE, folders, notes, links)
  <2> DEFINE f == q.id
  <2>1. f \in Live(folder) /\ q.was = folder[f] /\ Fits(folder, f, q.row)
    BY <1>3, <1>7 DEF FolderPlan, Live, IInv, Typed
  <2>2. /\ put = [folder EXCEPT ![f] = Merged(@, folder[f], q.row)]
        /\ folders = Recomputed(put, folder[f].path, q.row.path)
        /\ notes = Recomputed(note, folder[f].path, q.row.path)
        /\ links = RecomputedLinks(link, notes)
    BY <1>7, <2>1
  <2>3. Sound(folders, notes) /\ Write(r, drop, FALSE, folders, notes, links)
    BY <1>7
  <2> HIDE DEF put, folders, notes, links, drop, f, q
  <2>4. Typed(folders, notes) /\ Follows(folders, notes)
    BY <2>1, <2>2, <2>3, RecomputedFollows DEF IInv
  <2>5. notes = [i \in Note |->
            IF note[i] # None /\ Under(folder[f].path, note[i].path)
            THEN [note[i] EXCEPT !.path = Moved(@, folder[f].path, q.row.path)] ELSE note[i]]
    BY <2>2 DEF Recomputed, IInv, Typed
  <2>6. \A n \in Live(note) : notes[n].name = note[n].name /\ notes[n].aliases = note[n].aliases
    BY <2>5, LiveNote DEF NoteRow
  <2>7. Live(notes) = Live(note)
    <3>1. \A n \in Note : note[n] = None => notes[n] = None
      BY <2>5
    <3>2. ASSUME NEW n \in Live(note) PROVE notes[n] # None
      <4>1. note[n] \in NoteRow /\ n \in Note /\ note[n] # None
        BY LiveNote
      <4>2. q.row.path \in Seq(Name) /\ folder[f].path \in Seq(Name) /\ note[n].path \in Seq(Name)
        BY <2>1, <4>1, LiveFolder DEF Fits, FolderRow, NoteRow
      <4>3. Moved(note[n].path, folder[f].path, q.row.path) \in Seq(Name)
        BY <4>2, MovedTyped
      <4>4. CASE Under(folder[f].path, note[n].path)
        <5>1. notes[n] = [note[n] EXCEPT !.path = Moved(@, folder[f].path, q.row.path)]
          BY <2>5, <4>1, <4>4
        <5>2. notes[n] \in NoteRow
          BY <4>1, <4>3, <5>1 DEF NoteRow
        <5> QED BY <5>2, NoneIsNoRow
      <4>5. CASE ~Under(folder[f].path, note[n].path)
        BY <2>5, <4>1, <4>5
      <4> QED BY <4>4, <4>5
    <3>3. DOMAIN notes = Note /\ DOMAIN note = Note
      BY <2>5 DEF IInv, Typed
    <3> QED BY <3>1, <3>2, <3>3 DEF Live
  <2>8. Among(NamesOf(notes), links)
    BY <2>2, <2>4, <2>6, <2>7, RecomputedAmong DEF IInv, Typed
  <2> QED BY <1>2, <1>4, <2>3, <2>4, <2>8, WriteKeeps
<1> QED BY <1>1, <1>5, <1>6, <1>7

LEMMA CommitNoteKeeps ==
    ASSUME IInv, NEW r \in Request, CommitNote(r)
    PROVE  IInv'
<1> DEFINE q == req[r]
           made == q.was = None
           n == q.id
           notes == [note EXCEPT ![n] = IF made THEN q.row ELSE Merged(@, q.was, q.row)]
           unaliased == [notes EXCEPT ![n].aliases = {}]
           drawn == SyncNoteLinks(link, unaliased, n, q.row.refs)
           links == IF made THEN Claim(SyncNoteAliases(drawn, n, q.row, {}), n, Keys(q.row))
                    ELSE RenamedLinks(link, n, q.was, q.row)
<1>1. /\ q # None /\ q.do = "note" /\ UNCHANGED steps
      /\ \/ (made \/ note[n] # None) /\ Sound(folder, notes) /\ Write(r, View, ~made, folder, notes, links)
         \/ Fails(r)
  BY DEF CommitNote
<1>2. r \in Checked /\ Checked \subseteq {r}
  BY <1>1 DEF Checked, IInv, Fresh
<1>3. NotePlan(q)
  BY <1>1, <1>2 DEF IInv, Fresh, Plan
<1>4. steps' \in Nat
  BY <1>1 DEF IInv, CachesTyped
<1>5. CASE Fails(r)
  BY <1>1, <1>5, FailKeeps
<1>6. CASE Sound(folder, notes) /\ Write(r, View, ~made, folder, notes, links)
  <2>1. /\ n \in Note /\ q.was = note[n] /\ q.row \in NoteRow
        /\ q.row.home \in Live(folder) \cup {None}
        /\ q.row.path = Append(Base(folder, q.row.home), q.row.name)
        /\ note \in [Note -> NoteRow \cup {None}]
    BY <1>3 DEF NotePlan, Path, Base, IInv, Typed
  <2>2. notes = [note EXCEPT ![n] = q.row]
    <3>1. CASE made
      BY <3>1
    <3>2. CASE ~made
      <4>1. q.was \in NoteRow /\ q.row.refs = q.was.refs /\ q.row.aliases = q.was.aliases
        BY <1>3, <2>1, <3>2 DEF NotePlan
      <4>2. Merged(q.was, q.was, q.row) = q.row
        BY <2>1, <4>1 DEF Merged, NoteRow
      <4> QED BY <2>1, <3>2, <4>2
    <3> QED BY <3>1, <3>2
  <2>3. Typed(folder, notes) /\ Follows(folder, notes)
    <3> HIDE DEF notes, n, q
    <3> QED BY <1>6, <2>1, <2>2, PutNoteFollows DEF IInv
  <2>4. notes = [m \in Note |-> IF m = n THEN q.row ELSE note[m]] /\ q.row # None
    BY <2>1, <2>2, NoneIsNoRow
  <2>5. /\ NamesOf(notes)[n] = Names(q.row)
        /\ \A m \in Note \ {n} : NamesOf(note)[m] = NamesOf(notes)[m]
    BY <2>1, <2>4 DEF NamesOf
  <2>6. CASE made
    <3>1. NamesOf(note)[n] = {}
      BY <2>1, <2>6 DEF NamesOf
    <3>2. Among(NamesOf(notes), link)
      <4> HIDE DEF notes, n, q
      <4> QED BY <2>5, <3>1, AmongMore DEF IInv
    <3>3. unaliased = [m \in Note |-> IF m = n THEN [q.row EXCEPT !.aliases = {}] ELSE note[m]]
      BY <2>1, <2>4
    <3>4. [q.row EXCEPT !.aliases = {}] \in NoteRow /\ Keys([q.row EXCEPT !.aliases = {}]) = Keys(q.row)
      BY <2>1 DEF NoteRow, Keys
    <3>5. unaliased \in [Note -> NoteRow \cup {None}]
      <4> HIDE DEF unaliased
      <4> QED BY <2>1, <3>3, <3>4
    <3>6. \A m \in Note : NamesOf(unaliased)[m] \subseteq NamesOf(notes)[m]
      <4>1. AliasKeys([q.row EXCEPT !.aliases = {}].aliases) = {}
        BY <2>1 DEF NoteRow, AliasKeys
      <4>2. NamesOf(unaliased)[n] \subseteq Keys(q.row)
        <5>1. unaliased[n] = [q.row EXCEPT !.aliases = {}]
          BY <2>1, <3>3
        <5> HIDE DEF unaliased
        <5> QED BY <2>1, <3>4, <4>1, <5>1 DEF NamesOf, Names
      <4>3. \A m \in Note \ {n} : unaliased[m] = notes[m]
        BY <2>4, <3>3
      <4> HIDE DEF unaliased, notes
      <4> QED BY <2>5, <4>2, <4>3 DEF NamesOf, Names
    <3>7. Among(NamesOf(notes), drawn)
      <4>1. q.row.refs \in SUBSET Seq(Name)
        BY <2>1 DEF NoteRow
      <4> HIDE DEF unaliased, notes, n, q
      <4> QED BY <2>1, <3>2, <3>5, <3>6, <4>1, SyncAmong
    <3>8. Among(NamesOf(notes), SyncNoteAliases(drawn, n, q.row, {}))
      <4>1. NamesOf(notes)[n] \subseteq Keys(q.row) \cup AliasKeys({}) \cup AliasKeys(q.row.aliases)
        BY <2>5 DEF Names
      <4> HIDE DEF drawn, notes, n, q
      <4> QED BY <2>1, <2>5, <3>7, <4>1, AliasesAmong
    <3>9. Among(NamesOf(notes), links)
      <4>1. links = Claim(SyncNoteAliases(drawn, n, q.row, {}), n, Keys(q.row))
        BY <2>6
      <4>2. Keys(q.row) \subseteq NamesOf(notes)[n]
        BY <2>5 DEF Names
      <4> HIDE DEF links, drawn, notes, n, q
      <4> QED BY <2>1, <3>8, <4>1, <4>2, ClaimAmong
    <3> HIDE DEF links, notes
    <3> QED BY <1>2, <1>4, <1>6, <2>3, <3>9, WriteKeeps
  <2>7. CASE ~made
    <3>1. links = RenamedLinks(link, n, q.was, q.row) /\ q.was.aliases = q.row.aliases
      BY <1>3, <2>7 DEF NotePlan
    <3>2. NamesOf(note)[n] = Names(q.was)
      BY <2>1, <2>7 DEF NamesOf
    <3>3. Among(NamesOf(notes), links)
      <4> HIDE DEF links, notes, n, q
      <4> QED BY <2>1, <2>5, <3>1, <3>2, RenamedAmong DEF IInv
    <3> HIDE DEF links, notes
    <3> QED BY <1>2, <1>4, <1>6, <2>3, <3>3, WriteKeeps
  <2> QED BY <2>6, <2>7
<1> QED BY <1>1, <1>5, <1>6

LEMMA SavedKeeps ==
    ASSUME IInv, ~Overlap, NEW r \in Request, NEW n \in Live(note),
           NEW refs \in SUBSET Seq(Name), NEW aliases \in SUBSET Name, NEW drop,
           NEW edited, Saved(r, n, edited, refs, aliases, drop)
    PROVE  IInv'
<1> DEFINE row == [note[n] EXCEPT !.refs = refs, !.aliases = aliases]
           notes == [note EXCEPT ![n] = row]
           drawn == SyncNoteLinks(link, note, n, refs)
           links == SyncNoteAliases(drawn, n, row, note[n].aliases)
<1>1. Checked = {} /\ steps' = steps + 1 /\ Write(r, drop, edited, folder, notes, links)
  BY DEF Saved, Idle
<1>2. n \in Note /\ note[n] \in NoteRow /\ note[n] # None /\ note \in [Note -> NoteRow \cup {None}]
  BY LiveNote DEF IInv, Typed
<1>3. row \in NoteRow /\ row # None /\ Keys(row) = Keys(note[n]) /\ row.aliases = aliases
  BY <1>2, NoneIsNoRow DEF NoteRow, Keys
<1>4. Typed(folder, notes) /\ Follows(folder, notes)
  <2>1. notes = [note EXCEPT ![n] = [note[n] EXCEPT !.refs = refs, !.aliases = aliases]]
    OBVIOUS
  <2> HIDE DEF notes
  <2> QED BY <2>1, SavedFollows DEF IInv
<1>5. Among(NamesOf(note), drawn)
  BY <1>2, SyncAmong DEF IInv
<1>6. /\ NamesOf(notes)[n] = Names(row)
      /\ \A m \in Note \ {n} : NamesOf(note)[m] = NamesOf(notes)[m]
  <2> HIDE DEF row
  <2> QED BY <1>2, <1>3 DEF NamesOf
<1>7. NamesOf(note)[n] \subseteq Keys(row) \cup AliasKeys(note[n].aliases) \cup AliasKeys(row.aliases)
  BY <1>2, <1>3 DEF NamesOf, Names
<1>8. Among(NamesOf(notes), links)
  <2> HIDE DEF row, drawn, notes
  <2> QED BY <1>2, <1>5, <1>6, <1>7, AliasesAmong
<1>9. steps' \in Nat
  BY <1>1 DEF IInv, CachesTyped
<1> HIDE DEF notes, links
<1> QED BY <1>1, <1>4, <1>8, <1>9, WriteKeeps

LEMMA DeletedKeeps ==
    ASSUME IInv, ~Overlap, NEW r \in Request, NEW gone, NEW lost, None \notin gone,
           \A g \in Live(folder) : folder[g].home \in gone => g \in gone,
           \A n \in Live(note) : note[n].home \in gone => n \in lost,
           Deleted(r, gone, lost)
    PROVE  IInv'
<1> DEFINE folders == [f \in Folder |-> IF f \in gone THEN None ELSE folder[f]]
           notes == [n \in Note |-> IF n \in lost THEN None ELSE note[n]]
           links == Unlinked(link, lost)
<1>1. Checked = {} /\ steps' = steps + 1 /\ Write(r, View, FALSE, folders, notes, links)
  BY DEF Deleted, Idle
<1>2. Typed(folders, notes) /\ Follows(folders, notes)
  BY DeletedFollows DEF IInv
<1>3. Among(NamesOf(notes), links)
  <2>1. note \in [Note -> NoteRow \cup {None}] /\ Among(NamesOf(note), link)
    BY DEF IInv, Typed
  <2>2. notes = [n \in Note |-> IF n \in lost THEN None ELSE note[n]]
    OBVIOUS
  <2> HIDE DEF notes
  <2> QED BY <2>1, <2>2, DeletedAmong
<1>4. steps' \in Nat
  BY <1>1 DEF IInv, CachesTyped
<1> HIDE DEF folders, notes, links
<1> QED BY <1>1, <1>2, <1>3, <1>4, WriteKeeps
LEMMA OnFolderKeeps ==
    ASSUME IInv, ~Overlap, NEW r \in Request, NEW f \in Live(folder), OnFolder(r, f)
    PROVE  IInv'
<1>1. ASSUME NEW name \in Name, RenameFolder(r, f, name) PROVE IInv'
  BY <1>1, RenameFolderKeeps
<1>2. ASSUME NEW home \in Live(folder) \cup {None}, MoveFolder(r, f, home) PROVE IInv'
  BY <1>2, MoveFolderKeeps
<1>3. CASE DeleteFolder(r, f)
  <2> DEFINE lost == {n \in Live(note) : note[n].home \in Subtree(f)}
  <2>1. Deleted(r, Subtree(f), lost)
    BY <1>3 DEF DeleteFolder
  <2>2. None \notin Subtree(f)
    BY NoneIsNoRow DEF Subtree
  <2>3. \A g \in Live(folder) : folder[g].home \in Subtree(f) => g \in Subtree(f)
    BY SubtreeClosed, RowsTyped DEF IInv
  <2>4. \A n \in Live(note) : note[n].home \in Subtree(f) => n \in lost
    OBVIOUS
  <2> HIDE DEF lost
  <2> QED BY <2>1, <2>2, <2>3, <2>4, DeletedKeeps
<1> QED BY <1>1, <1>2, <1>3 DEF OnFolder

LEMMA OnNoteKeeps ==
    ASSUME IInv, ~Overlap, NEW r \in Request, NEW n \in Live(note), OnNote(r, n)
    PROVE  IInv'
<1>1. /\ n \in Note /\ note[n].refs \in SUBSET Seq(Name) /\ note[n].aliases \in SUBSET Name
  BY LiveNote DEF NoteRow
<1>2. ASSUME NEW name \in Name, NEW home \in Live(folder) \cup {None}, RenameNote(r, n, name, home) PROVE IInv'
  BY <1>2, RenameNoteKeeps
<1>3. ASSUME NEW text \in Text, NEW restored \in BOOLEAN, UpdateContent(r, n, text, restored) PROVE IInv'
  <2>1. text.refs \in SUBSET Seq(Name) /\ text.aliases \in SUBSET Name
    BY TextsAreTexts
  <2>2. PICK edited : Saved(r, n, edited, text.refs, text.aliases, IF restored THEN View ELSE {"graph"})
    BY <1>3 DEF UpdateContent
  <2> QED BY <2>1, <2>2, SavedKeeps
<1>4. ASSUME NEW m \in Live(note), UnlinkNotes(r, n, m) PROVE IInv'
  <2>1. Saved(r, n, TRUE, note[n].refs \ NamesResolvingTo(m), note[n].aliases, {"graph"})
    BY <1>4 DEF UnlinkNotes
  <2>2. note[n].refs \ NamesResolvingTo(m) \in SUBSET Seq(Name)
    BY <1>1
  <2> QED BY <1>1, <2>1, <2>2, SavedKeeps
<1>5. ASSUME NEW m \in Live(note), NEW context \in BOOLEAN, LinkNotes(r, n, m, context) PROVE IInv'
  <2> DEFINE form == IF <<note[m].name>> \in NamesResolvingTo(m) THEN <<note[m].name>> ELSE note[m].path
  <2>1. Saved(r, n, TRUE, note[n].refs \cup {form}, note[n].aliases, {"graph"})
    BY <1>5 DEF LinkNotes
  <2>2. form \in Seq(Name)
    <3>1. note[m].name \in Name /\ note[m].path \in Seq(Name)
      BY LiveNote DEF NoteRow
    <3>2. <<note[m].name>> \in Seq(Name)
      BY <3>1
    <3> QED BY <3>1, <3>2
  <2>3. note[n].refs \cup {form} \in SUBSET Seq(Name)
    BY <1>1, <2>2
  <2> HIDE DEF form
  <2> QED BY <1>1, <2>1, <2>3, SavedKeeps
<1>6. CASE DeleteNote(r, n)
  BY <1>6, DeletedKeeps DEF DeleteNote
<1> QED BY <1>2, <1>3, <1>4, <1>5, <1>6 DEF OnNote

LEMMA DropViewsKeeps ==
    ASSUME IInv, NEW r \in Request, DropViews(r)
    PROVE  IInv'
<1>1. req' = [s \in Request |-> IF s = r THEN None ELSE req[s]]
  BY DEF DropViews, IInv, Fresh
<1>2. Checked' \subseteq Checked /\ \A s \in Checked' : req'[s] = req[s]
  BY <1>1 DEF Checked
<1>3. Fresh'
  BY <1>1, <1>2, FreshSame DEF DropViews, IInv
<1>4. CachesTyped'
  BY DEF DropViews, IInv, CachesTyped
<1> QED BY <1>3, <1>4, RowsSame DEF DropViews

LEMMA ReadersKeep ==
    ASSUME IInv, NEW v \in View, StartFill(v) \/ ReadRest(v) \/ StoreFill(v) \/ Expire(v)
    PROVE  IInv'
<1>1. UNCHANGED rows /\ req' = req
  BY DEF StartFill, ReadRest, StoreFill, Expire
<1>2. Checked' = Checked
  BY <1>1 DEF Checked
<1>3. Fresh'
  BY <1>1, <1>2, FreshSame DEF IInv, Fresh
<1>4. CachesTyped'
  BY DEF StartFill, ReadRest, StoreFill, Expire, IInv, CachesTyped
<1> QED BY <1>1, <1>3, <1>4, RowsSame

LEMMA NextIInv ==
    ASSUME IInv, ~Overlap, [Next]_vars
    PROVE  IInv'
<1>1. CASE UNCHANGED vars
  <2>1. UNCHANGED rows /\ req' = req /\ CachesTyped'
    BY <1>1 DEF vars, rows, IInv, CachesTyped
  <2>2. Checked' = Checked
    BY <2>1 DEF Checked
  <2>3. Fresh'
    BY <2>1, <2>2, FreshSame DEF IInv, Fresh
  <2> QED BY <2>1, <2>3, RowsSame
<1>2. ASSUME NEW r \in Request, NEW name \in Name, NEW home \in Live(folder) \cup {None},
             NEW f \in Folder, CreateFolder(r, f, name, home)
      PROVE  IInv'
  BY <1>2, CreateFolderKeeps
<1>3. ASSUME NEW r \in Request, NEW name \in Name, NEW home \in Live(folder) \cup {None},
             NEW n \in Note, NEW text \in Text, CreateNote(r, n, name, home, text)
      PROVE  IInv'
  BY <1>3, CreateNoteKeeps
<1>4. ASSUME NEW r \in Request, NEW f \in Live(folder), OnFolder(r, f) PROVE IInv'
  BY <1>4, OnFolderKeeps
<1>5. ASSUME NEW r \in Request, NEW n \in Live(note), OnNote(r, n) PROVE IInv'
  BY <1>5, OnNoteKeeps
<1>6. ASSUME NEW r \in Request, CommitFolder(r) PROVE IInv'
  BY <1>6, CommitFolderKeeps
<1>7. ASSUME NEW r \in Request, CommitNote(r) PROVE IInv'
  BY <1>7, CommitNoteKeeps
<1>8. ASSUME NEW r \in Request, DropViews(r) PROVE IInv'
  BY <1>8, DropViewsKeeps
<1>9. ASSUME NEW v \in View, StartFill(v) \/ ReadRest(v) \/ StoreFill(v) \/ Expire(v) PROVE IInv'
  BY <1>9, ReadersKeep
<1> QED BY <1>1, <1>2, <1>3, <1>4, <1>5, <1>6, <1>7, <1>8, <1>9 DEF Next

LEMMA AlwaysIInv ==
    ASSUME ~Overlap
    PROVE  Spec => []IInv
<1>1. IInv /\ [Next]_vars => IInv'
  BY NextIInv
<1> QED BY <1>1, InitIInv, PTL DEF Spec

(* Paths follow the tree through every rename, move and deletion above     *)
(* them (_recompute_subtree_paths), if requests do not overlap.            *)
THEOREM PathsFollowHolds ==
    ASSUME ~Overlap
    PROVE  Spec => []PathsFollow
<1>1. IInv => PathsFollow
  BY PathsAre DEF IInv
<1> QED BY <1>1, AlwaysIInv, PTL

(* No link is resolved to a note that does not bear its name, whoever      *)
(* shares names and aliases (sync_note_links, sync_note_aliases,           *)
(* unresolve_links_for_renamed_note, resolve_links_for_new_note).          *)
THEOREM TargetsBearTheNameHolds ==
    ASSUME ~Overlap
    PROVE  Spec => []TargetsBearTheName
<1>1. IInv => TargetsBearTheName
  BY DEF IInv, Among, LinkRow, NamesOf, Names, TargetsBearTheName
<1> QED BY <1>1, AlwaysIInv, PTL

(* The rows, the links and the caches keep their types.                    *)
THEOREM VaultTypeCorrect ==
    ASSUME ~Overlap
    PROVE  Spec => []TypeOK
<1>1. IInv => TypeOK
  BY DEF IInv, Typed, Among, CachesTyped, TypeOK
<1> QED BY <1>1, AlwaysIInv, PTL

(* ------------------------------- caches -------------------------------- *)

(* What a request has checked, whatever the others have committed since.   *)
Asked(q) ==
    \/ q.do = "folder" /\ q.id \in Folder /\ q.was \in FolderRow \cup {None} /\ q.row \in FolderRow
    \/ q.do = "note" /\ q.id \in Note /\ q.was \in NoteRow \cup {None} /\ q.row \in NoteRow
    \/ q.do = "drop"

ReqTyped ==
    /\ req = [r \in Request |-> req[r]]
    /\ \A r \in Request : req[r] # None => Asked(req[r])

CacheInv == Typed(folder, note) /\ ReqTyped /\ CachesTyped /\ CachesCurrent

(* The columns that the tree shows are the same.                           *)
SameTree(notes) ==
    \A n \in Note :
        /\ notes[n] = None <=> note[n] = None
        /\ note[n] # None => /\ notes[n].home = note[n].home
                             /\ notes[n].name = note[n].name
                             /\ notes[n].path = note[n].path

(* A commit that drops each view that it changes.                          *)
LEMMA WriteCaches ==
    ASSUME CacheInv, NEW r \in Request, req[r] # None => req[r].do # "drop",
           NEW drop \in SUBSET View, NEW edited, NEW folders, NEW notes, NEW links,
           Write(r, drop, edited, folders, notes, links), steps' \in Nat,
           Typed(folders, notes),
           "tree" \notin drop => folders = folder /\ SameTree(notes),
           "graph" \notin drop => notes = note /\ links = link
    PROVE  CacheInv'
<1> DEFINE Seen(v, fs, ns, ls) ==
               IF v = "tree" THEN <<fs, [n \in Note |-> IF ns[n] = None THEN None ELSE <<ns[n].home, ns[n].name, ns[n].path>>]>>
               ELSE <<ls, [n \in Note |-> IF ns[n] = None THEN None ELSE <<ns[n].name, ns[n].path>>]>>
           Overtaken(v) == Seen(v, folders, notes, links) # Seen(v, folder, note, link)
           After(x) == [v \in View |->
                           IF x[v] # "none" /\ Overtaken(v) THEN "wrong"
                           ELSE IF v = "tree" /\ edited /\ x[v] = "right" THEN "dated"
                           ELSE x[v]]
<1>1. /\ folder' = folders /\ note' = notes /\ late' = late
      /\ cached' = After(cached) /\ fill' = After(fill)
      /\ req' = [req EXCEPT ![r] = [do |-> "drop", views |-> drop]]
  BY DEF Write
<1>2. ASSUME NEW v \in View \ drop PROVE ~Overtaken(v)
  <2>1. CASE v = "tree"
    <3>1. folders = folder /\ SameTree(notes)
      BY <2>1
    <3>2. \A n \in Note : (IF notes[n] = None THEN None ELSE <<notes[n].home, notes[n].name, notes[n].path>>)
                          = (IF note[n] = None THEN None ELSE <<note[n].home, note[n].name, note[n].path>>)
      BY <3>1 DEF SameTree
    <3> QED BY <2>1, <3>1, <3>2
  <2>2. CASE v = "graph"
    BY <2>2
  <2> QED BY <2>1, <2>2 DEF View
<1>3. req' = [s \in Request |-> IF s = r THEN [do |-> "drop", views |-> drop] ELSE req[s]]
  BY <1>1 DEF CacheInv, ReqTyped
<1>4. ReqTyped'
  BY <1>3 DEF CacheInv, ReqTyped, Asked
<1> HIDE DEF Overtaken
<1>5. CachesTyped'
  BY <1>1 DEF CacheInv, CachesTyped
<1>6. CachesCurrent'
  <2> SUFFICES ASSUME NEW v \in View, cached'[v] = "wrong"
               PROVE  v \in late' \/ \E s \in Request : req'[s] # None /\ req'[s].do = "drop" /\ v \in req'[s].views
    BY DEF CachesCurrent
  <2>1. CASE v \in drop
    <3>1. req'[r] = [do |-> "drop", views |-> drop]
      BY <1>3
    <3>2. [do |-> "drop", views |-> drop] \in [do : {"drop"}, views : SUBSET {"tree", "graph"}]
      BY DEF View
    <3>3. req'[r] # None
      BY <3>1, <3>2, NoneIsNoRequest
    <3> QED BY <2>1, <3>1, <3>3
  <2>2. CASE v \notin drop
    <3>1. cached[v] = "wrong"
      BY <1>1, <1>2, <2>2
    <3>2. CASE v \in late
      BY <1>1, <3>2
    <3>3. CASE v \notin late
      <4>1. PICK s \in Request : req[s] # None /\ req[s].do = "drop" /\ v \in req[s].views
        BY <3>1, <3>3 DEF CacheInv, CachesCurrent
      <4>2. req'[s] = req[s]
        BY <1>3, <4>1
      <4> QED BY <4>1, <4>2
    <3> QED BY <3>2, <3>3
  <2> QED BY <2>1, <2>2
<1> QED BY <1>1, <1>4, <1>5, <1>6 DEF CacheInv

(* A step that leaves rows and caches, and every request that drops.       *)
LEMMA ReqCaches ==
    ASSUME CacheInv, UNCHANGED <<rows, cached, fill, late>>, steps' \in Nat, NEW r \in Request,
           req[r] # None => req[r].do # "drop", NEW q, q # None => Asked(q), req' = [req EXCEPT ![r] = q]
    PROVE  CacheInv'
<1>1. req' = [s \in Request |-> IF s = r THEN q ELSE req[s]]
  BY DEF CacheInv, ReqTyped
<1>2. ReqTyped'
  BY <1>1 DEF CacheInv, ReqTyped, Asked
<1>3. CachesCurrent'
  <2> SUFFICES ASSUME NEW v \in View, cached'[v] = "wrong", v \notin late'
               PROVE  \E s \in Request : req'[s] # None /\ req'[s].do = "drop" /\ v \in req'[s].views
    BY DEF CachesCurrent
  <2>1. PICK s \in Request : req[s] # None /\ req[s].do = "drop" /\ v \in req[s].views
    BY DEF CacheInv, CachesCurrent
  <2>2. req'[s] = req[s]
    BY <1>1, <2>1
  <2> QED BY <2>1, <2>2
<1>4. Typed(folder', note') /\ CachesTyped'
  BY DEF CacheInv, CachesTyped, rows
<1> QED BY <1>2, <1>3, <1>4 DEF CacheInv

LEMMA CheckCaches ==
    ASSUME CacheInv, NEW r \in Request, NEW do, NEW id, NEW was, NEW row,
           Check(r, do, id, was, row), Asked([do |-> do, id |-> id, was |-> was, row |-> row])
    PROVE  CacheInv'
<1> DEFINE q == [do |-> do, id |-> id, was |-> was, row |-> row]
<1>1. /\ req[r] = None /\ req' = [req EXCEPT ![r] = q] /\ UNCHANGED <<rows, cached, fill, late>>
      /\ steps' = steps + 1
  BY DEF Check, Idle
<1>2. steps' \in Nat
  BY <1>1 DEF CacheInv, CachesTyped
<1> HIDE DEF q
<1>3. Asked(q)
  BY DEF q
<1> QED BY <1>1, <1>2, <1>3, ReqCaches

(* ----------------- rows stay rows, however requests overlap ------------ *)

LEMMA PathTyped ==
    ASSUME CacheInv, NEW home \in Live(folder) \cup {None}, NEW name \in Name
    PROVE  Path(home, name) \in Seq(Name) /\ home \in Folder \cup {None}
<1>1. Base(folder, home) \in Seq(Name)
  BY BaseTyped DEF CacheInv
<1>2. home \in Folder \cup {None}
  BY RowsTyped DEF CacheInv
<1>3. Append(Base(folder, home), name) \in Seq(Name)
  BY <1>1, AppendProperties
<1> QED BY <1>2, <1>3 DEF Path, Base

LEMMA FrontTyped ==
    ASSUME NEW p \in Seq(Name)
    PROVE  Front(p) \in Seq(Name)
<1>1. Len(p) \in Nat /\ \A i \in 1..Len(p) : p[i] \in Name
  BY LenProperties, ElementOfSeq
<1>2. SubSeq(p, 1, Len(p) - 1) \in Seq(Name)
  BY <1>1, SubSeqProperties
<1> QED BY <1>2 DEF Front

LEMMA RecomputedTyped ==
    ASSUME NEW fs, NEW ns, Typed(fs, ns), NEW old \in Seq(Name), NEW new \in Seq(Name)
    PROVE  Typed(Recomputed(fs, old, new), Recomputed(ns, old, new))
<1>1. ASSUME NEW f \in Folder, fs[f] # None
      PROVE  [fs[f] EXCEPT !.path = Moved(@, old, new)] \in FolderRow
  <2>1. fs[f] \in FolderRow
    BY <1>1 DEF Typed
  <2>2. Moved(fs[f].path, old, new) \in Seq(Name)
    BY <2>1, MovedTyped DEF FolderRow
  <2> QED BY <2>1, <2>2 DEF FolderRow
<1>2. ASSUME NEW n \in Note, ns[n] # None
      PROVE  [ns[n] EXCEPT !.path = Moved(@, old, new)] \in NoteRow
  <2>1. ns[n] \in NoteRow
    BY <1>2 DEF Typed
  <2>2. Moved(ns[n].path, old, new) \in Seq(Name)
    BY <2>1, MovedTyped DEF NoteRow
  <2> QED BY <2>1, <2>2 DEF NoteRow
<1> QED BY <1>1, <1>2 DEF Typed, Recomputed

LEMMA CommitFolderCaches ==
    ASSUME CacheInv, NEW r \in Request, CommitFolder(r)
    PROVE  CacheInv'
<1> DEFINE q == req[r]
           made == q.was = None
           put == [folder EXCEPT ![q.id] = IF made THEN q.row ELSE Merged(@, q.was, q.row)]
           folders == IF made THEN put ELSE Recomputed(put, q.was.path, q.row.path)
           notes == IF made THEN note ELSE Recomputed(note, q.was.path, q.row.path)
           links == IF made THEN link ELSE RecomputedLinks(link, notes)
           drop == IF made THEN {"tree"} ELSE View
<1>1. /\ q # None /\ q.do = "folder" /\ steps' = steps
      /\ \/ /\ made \/ folder[q.id] # None
            /\ Write(r, drop, FALSE, folders, notes, links)
         \/ Fails(r)
  BY DEF CommitFolder
<1>2. steps' \in Nat
  BY <1>1 DEF CacheInv, CachesTyped
<1>3. CASE Fails(r)
  BY <1>1, <1>2, <1>3, ReqCaches DEF Fails
<1>4. CASE (made \/ folder[q.id] # None) /\ Write(r, drop, FALSE, folders, notes, links)
  <2>1. q.id \in Folder /\ q.was \in FolderRow \cup {None} /\ q.row \in FolderRow
    BY <1>1 DEF CacheInv, ReqTyped, Asked
  <2>2. Typed(put, note)
    <3>1. folder[q.id] # None => folder[q.id] \in FolderRow
      BY <2>1 DEF CacheInv, Typed
    <3>2. ~made => Merged(folder[q.id], q.was, q.row) \in FolderRow
      BY <1>4, <2>1, <3>1 DEF Merged, FolderRow
    <3>3. put \in [Folder -> FolderRow \cup {None}]
      BY <2>1, <3>2 DEF CacheInv, Typed
    <3> QED BY <3>3 DEF CacheInv, Typed
  <2>3. Typed(folders, notes)
    <3>1. CASE made
      BY <2>2, <3>1
    <3>2. CASE ~made
      <4>1. q.was.path \in Seq(Name) /\ q.row.path \in Seq(Name)
        BY <2>1, <3>2 DEF FolderRow
      <4> HIDE DEF put
      <4> QED BY <2>2, <3>2, <4>1, RecomputedTyped
    <3> QED BY <3>1, <3>2
  <2>4. drop \in SUBSET View /\ "tree" \in drop /\ ("graph" \notin drop => notes = note /\ links = link)
    BY DEF View
  <2> HIDE DEF folders, notes, links, drop
  <2> QED BY <1>1, <1>2, <1>4, <2>3, <2>4, WriteCaches
<1> QED BY <1>1, <1>3, <1>4

LEMMA CommitNoteCaches ==
    ASSUME CacheInv, NEW r \in Request, CommitNote(r)
    PROVE  CacheInv'
<1> DEFINE q == req[r]
           made == q.was = None
           notes == [note EXCEPT ![q.id] = IF made THEN q.row ELSE Merged(@, q.was, q.row)]
<1>1. /\ q # None /\ q.do = "note" /\ steps' = steps
      /\ \/ /\ made \/ note[q.id] # None
            /\ \E links : Write(r, View, ~made, folder, notes, links)
         \/ Fails(r)
  BY DEF CommitNote
<1>2. steps' \in Nat
  BY <1>1 DEF CacheInv, CachesTyped
<1>3. CASE Fails(r)
  BY <1>1, <1>2, <1>3, ReqCaches DEF Fails
<1>4. CASE (made \/ note[q.id] # None) /\ \E links : Write(r, View, ~made, folder, notes, links)
  <2>1. q.id \in Note /\ q.was \in NoteRow \cup {None} /\ q.row \in NoteRow
    BY <1>1 DEF CacheInv, ReqTyped, Asked
  <2>2. note[q.id] # None => note[q.id] \in NoteRow
    BY <2>1 DEF CacheInv, Typed
  <2>3. ~made => Merged(note[q.id], q.was, q.row) \in NoteRow
    BY <1>4, <2>1, <2>2 DEF Merged, NoteRow
  <2>4. Typed(folder, notes)
    BY <2>1, <2>3 DEF CacheInv, Typed
  <2>5. PICK links : Write(r, View, ~made, folder, notes, links)
    BY <1>4
  <2>6. View \in SUBSET View /\ "tree" \in View /\ "graph" \in View
    BY DEF View
  <2> HIDE DEF notes
  <2> QED BY <1>1, <1>2, <2>4, <2>5, <2>6, WriteCaches
<1> QED BY <1>1, <1>3, <1>4

(* A save leaves the tree as it is.                                        *)
LEMMA SavedCaches ==
    ASSUME CacheInv, NEW r \in Request, NEW n \in Live(note),
           NEW refs \in SUBSET Seq(Name), NEW aliases \in SUBSET Name, NEW drop \in SUBSET View,
           "graph" \in drop, NEW edited, Saved(r, n, edited, refs, aliases, drop)
    PROVE  CacheInv'
<1> DEFINE row == [note[n] EXCEPT !.refs = refs, !.aliases = aliases]
           notes == [note EXCEPT ![n] = row]
<1>1. /\ req[r] = None /\ steps' = steps + 1
      /\ \E links : Write(r, drop, edited, folder, notes, links)
  BY DEF Saved, Idle
<1>2. n \in Note /\ note[n] \in NoteRow
  BY RowsTyped DEF CacheInv
<1>3. /\ row \in NoteRow /\ row # None
      /\ row.home = note[n].home /\ row.name = note[n].name /\ row.path = note[n].path
  BY <1>2, NoneIsNoRow DEF NoteRow
<1>4. steps' \in Nat
  BY <1>1 DEF CacheInv, CachesTyped
<1> HIDE DEF row
<1>5. notes = [m \in Note |-> IF m = n THEN row ELSE note[m]]
  BY DEF CacheInv, Typed
<1>6. Typed(folder, notes)
  BY <1>3, <1>5 DEF CacheInv, Typed
<1>7. note[n] # None
  BY DEF Live
<1>8. SameTree(notes)
  BY <1>3, <1>5, <1>7 DEF SameTree
<1>9. PICK links : Write(r, drop, edited, folder, notes, links)
  BY <1>1
<1> HIDE DEF notes
<1> QED BY <1>1, <1>4, <1>6, <1>8, <1>9, WriteCaches

LEMMA DeletedCaches ==
    ASSUME CacheInv, NEW r \in Request, NEW folders, NEW notes, Deleted(r, folders, notes)
    PROVE  CacheInv'
<1> DEFINE fs == [f \in Folder |-> IF f \in folders THEN None ELSE folder[f]]
           ns == [n \in Note |-> IF n \in notes THEN None ELSE note[n]]
<1>1. /\ req[r] = None /\ steps' = steps + 1
      /\ Write(r, View, FALSE, fs, ns, Unlinked(link, notes))
  BY DEF Deleted, Idle
<1>2. steps' \in Nat
  BY <1>1 DEF CacheInv, CachesTyped
<1>3. Typed(fs, ns)
  BY DEF CacheInv, Typed
<1>4. View \in SUBSET View /\ "tree" \in View /\ "graph" \in View
  BY DEF View
<1> HIDE DEF fs, ns
<1> QED BY <1>1, <1>2, <1>3, <1>4, WriteCaches

LEMMA OnFolderCaches ==
    ASSUME CacheInv, NEW r \in Request, NEW f \in Live(folder), OnFolder(r, f)
    PROVE  CacheInv'
<1>1. f \in Folder /\ folder[f] \in FolderRow
  BY RowsTyped DEF CacheInv
<1>2. ASSUME NEW name \in Name, RenameFolder(r, f, name) PROVE CacheInv'
  <2> DEFINE row == [folder[f] EXCEPT !.name = name, !.path = Append(Front(folder[f].path), name)]
  <2>1. Check(r, "folder", f, folder[f], row)
    BY <1>2 DEF RenameFolder
  <2>2. Append(Front(folder[f].path), name) \in Seq(Name)
    BY <1>1, FrontTyped, AppendProperties DEF FolderRow
  <2>3. row \in FolderRow
    BY <1>1, <2>2 DEF FolderRow
  <2> HIDE DEF row
  <2> QED BY <1>1, <2>1, <2>3, CheckCaches DEF Asked
<1>3. ASSUME NEW home \in Live(folder) \cup {None}, MoveFolder(r, f, home) PROVE CacheInv'
  <2> DEFINE row == [folder[f] EXCEPT !.home = home, !.path = Path(home, folder[f].name)]
  <2>1. Check(r, "folder", f, folder[f], row)
    BY <1>3 DEF MoveFolder
  <2>2. Path(home, folder[f].name) \in Seq(Name) /\ home \in Folder \cup {None}
    BY <1>1, PathTyped DEF FolderRow
  <2>3. row \in FolderRow
    BY <1>1, <2>2 DEF FolderRow
  <2> HIDE DEF row
  <2> QED BY <1>1, <2>1, <2>3, CheckCaches DEF Asked
<1>4. CASE DeleteFolder(r, f)
  BY <1>4, DeletedCaches DEF DeleteFolder
<1> QED BY <1>2, <1>3, <1>4 DEF OnFolder

LEMMA OnNoteCaches ==
    ASSUME CacheInv, NEW r \in Request, NEW n \in Live(note), OnNote(r, n)
    PROVE  CacheInv'
<1>1. n \in Note /\ note[n] \in NoteRow
  BY RowsTyped DEF CacheInv
<1>2. {"graph"} \in SUBSET View /\ View \in SUBSET View /\ "graph" \in View
  BY DEF View
<1>3. ASSUME NEW name \in Name, NEW home \in Live(folder) \cup {None}, RenameNote(r, n, name, home)
      PROVE  CacheInv'
  <2> DEFINE row == [note[n] EXCEPT !.name = name, !.home = home, !.path = Path(home, name)]
  <2>1. Check(r, "note", n, note[n], row)
    BY <1>3 DEF RenameNote
  <2>2. Path(home, name) \in Seq(Name) /\ home \in Folder \cup {None}
    BY PathTyped
  <2>3. row \in NoteRow
    BY <1>1, <2>2 DEF NoteRow
  <2> HIDE DEF row
  <2> QED BY <1>1, <2>1, <2>3, CheckCaches DEF Asked
<1>4. ASSUME NEW text \in Text, NEW restored \in BOOLEAN, UpdateContent(r, n, text, restored)
      PROVE  CacheInv'
  <2>1. text.refs \in SUBSET Seq(Name) /\ text.aliases \in SUBSET Name
    BY TextsAreTexts
  <2>2. PICK edited : Saved(r, n, edited, text.refs, text.aliases, IF restored THEN View ELSE {"graph"})
    BY <1>4 DEF UpdateContent
  <2> QED BY <1>2, <2>1, <2>2, SavedCaches
<1>5. ASSUME NEW m \in Live(note), UnlinkNotes(r, n, m) PROVE CacheInv'
  <2>1. /\ note[n].refs \ NamesResolvingTo(m) \in SUBSET Seq(Name) /\ note[n].aliases \in SUBSET Name
        /\ Saved(r, n, TRUE, note[n].refs \ NamesResolvingTo(m), note[n].aliases, {"graph"})
    BY <1>1, <1>5 DEF UnlinkNotes, NoteRow
  <2> QED BY <1>2, <2>1, SavedCaches
<1>6. ASSUME NEW m \in Live(note), NEW context \in BOOLEAN, LinkNotes(r, n, m, context) PROVE CacheInv'
  <2> DEFINE title == <<note[m].name>>
             form == IF title \in NamesResolvingTo(m) THEN title ELSE note[m].path
  <2>1. note[m] \in NoteRow
    BY RowsTyped DEF CacheInv
  <2>2. title \in Seq(Name) /\ note[m].path \in Seq(Name)
    BY <2>1 DEF NoteRow
  <2>3. form \in Seq(Name)
    BY <2>2
  <2>4. Saved(r, n, TRUE, note[n].refs \cup {form}, note[n].aliases, {"graph"})
    BY <1>6 DEF LinkNotes
  <2>5. note[n].refs \cup {form} \in SUBSET Seq(Name) /\ note[n].aliases \in SUBSET Name
    <3> HIDE DEF form
    <3> QED BY <1>1, <2>3 DEF NoteRow
  <2> HIDE DEF form
  <2> QED BY <1>2, <2>4, <2>5, SavedCaches
<1>7. CASE DeleteNote(r, n)
  BY <1>7, DeletedCaches DEF DeleteNote
<1> QED BY <1>3, <1>4, <1>5, <1>6, <1>7 DEF OnNote

LEMMA CreateFolderCaches ==
    ASSUME CacheInv, NEW r \in Request, NEW name \in Name, NEW home \in Live(folder) \cup {None},
           NEW f \in Folder, CreateFolder(r, f, name, home)
    PROVE  CacheInv'
<1> DEFINE row == [home |-> home, name |-> name, path |-> Path(home, name)]
<1>1. Check(r, "folder", f, None, row)
  BY DEF CreateFolder
<1>2. row \in FolderRow
  BY PathTyped DEF FolderRow
<1> HIDE DEF row
<1> QED BY <1>1, <1>2, CheckCaches DEF Asked

LEMMA CreateNoteCaches ==
    ASSUME CacheInv, NEW r \in Request, NEW name \in Name, NEW home \in Live(folder) \cup {None},
           NEW n \in Note, NEW text \in Text, CreateNote(r, n, name, home, text)
    PROVE  CacheInv'
<1> DEFINE row == [home |-> home, name |-> name, path |-> Path(home, name),
                   refs |-> text.refs, aliases |-> text.aliases]
<1>1. Check(r, "note", n, None, row)
  BY DEF CreateNote
<1>2. text.refs \in SUBSET Seq(Name) /\ text.aliases \in SUBSET Name
  BY TextsAreTexts
<1>3. row \in NoteRow
  BY <1>2, PathTyped DEF NoteRow
<1> HIDE DEF row
<1> QED BY <1>1, <1>3, CheckCaches DEF Asked

LEMMA DropViewsCaches ==
    ASSUME CacheInv, NEW r \in Request, DropViews(r)
    PROVE  CacheInv'
<1>1. req' = [s \in Request |-> IF s = r THEN None ELSE req[s]]
  BY DEF DropViews, CacheInv, ReqTyped
<1>2. ReqTyped'
  BY <1>1 DEF CacheInv, ReqTyped, Asked
<1>3. CachesTyped' /\ Typed(folder', note')
  BY DEF DropViews, CacheInv, CachesTyped, rows
<1>4. CachesCurrent'
  <2> SUFFICES ASSUME NEW v \in View, cached'[v] = "wrong", v \notin late'
               PROVE  \E s \in Request : req'[s] # None /\ req'[s].do = "drop" /\ v \in req'[s].views
    BY DEF CachesCurrent
  <2>1. v \notin req[r].views /\ cached[v] = "wrong" /\ v \notin late
    BY DEF DropViews
  <2>2. PICK s \in Request : req[s] # None /\ req[s].do = "drop" /\ v \in req[s].views
    BY <2>1 DEF CacheInv, CachesCurrent
  <2>3. req'[s] = req[s]
    BY <1>1, <2>1, <2>2
  <2> QED BY <2>2, <2>3
<1> QED BY <1>2, <1>3, <1>4 DEF CacheInv

LEMMA ReadersCaches ==
    ASSUME CacheInv, NEW v \in View, StartFill(v) \/ ReadRest(v) \/ StoreFill(v) \/ Expire(v)
    PROVE  CacheInv'
<1>1. folder' = folder /\ note' = note /\ req' = req
  BY DEF StartFill, ReadRest, StoreFill, Expire, rows
<1>2. CachesTyped'
  BY DEF StartFill, ReadRest, StoreFill, Expire, CacheInv, CachesTyped
<1>3. \A u \in View : cached'[u] = "wrong" => u \in late' \/ (cached[u] = "wrong" /\ u \notin late)
  BY DEF StartFill, ReadRest, StoreFill, Expire, CacheInv, CachesTyped
<1>4. CachesCurrent'
  BY <1>1, <1>3 DEF CacheInv, CachesCurrent
<1>5. ReqTyped'
  BY <1>1 DEF CacheInv, ReqTyped
<1> QED BY <1>1, <1>2, <1>4, <1>5 DEF CacheInv

LEMMA AlwaysCacheInv == Spec => []CacheInv
<1>1. Init => CacheInv
  BY DEF Init, CacheInv, Typed, ReqTyped, CachesTyped, CachesCurrent
<1>2. ASSUME CacheInv, [Next]_vars PROVE CacheInv'
  <2>1. CASE UNCHANGED vars
    <3>1. UNCHANGED <<folder, note, req, cached, fill, late, steps>>
      BY <2>1 DEF vars
    <3> QED BY <1>2, <3>1 DEF CacheInv, ReqTyped, CachesTyped, CachesCurrent
  <2>2. ASSUME NEW r \in Request, NEW name \in Name, NEW home \in Live(folder) \cup {None},
               NEW f \in Folder, CreateFolder(r, f, name, home)
        PROVE  CacheInv'
    BY <1>2, <2>2, CreateFolderCaches
  <2>3. ASSUME NEW r \in Request, NEW name \in Name, NEW home \in Live(folder) \cup {None},
               NEW n \in Note, NEW text \in Text, CreateNote(r, n, name, home, text)
        PROVE  CacheInv'
    BY <1>2, <2>3, CreateNoteCaches
  <2>4. ASSUME NEW r \in Request, NEW f \in Live(folder), OnFolder(r, f) PROVE CacheInv'
    BY <1>2, <2>4, OnFolderCaches
  <2>5. ASSUME NEW r \in Request, NEW n \in Live(note), OnNote(r, n) PROVE CacheInv'
    BY <1>2, <2>5, OnNoteCaches
  <2>6. ASSUME NEW r \in Request, CommitFolder(r) \/ CommitNote(r) \/ DropViews(r) PROVE CacheInv'
    BY <1>2, <2>6, CommitFolderCaches, CommitNoteCaches, DropViewsCaches
  <2>7. ASSUME NEW v \in View, StartFill(v) \/ ReadRest(v) \/ StoreFill(v) \/ Expire(v) PROVE CacheInv'
    BY <1>2, <2>7, ReadersCaches
  <2> QED BY <1>2, <2>1, <2>2, <2>3, <2>4, <2>5, <2>6, <2>7 DEF Next
<1> QED BY <1>1, <1>2, PTL DEF Spec

(* Spec => []CachesCurrent.  Whatever requests overlap, an operation drops *)
(* every view in which it changes a folder, a note, a path or a link: such *)
(* a view, if it is cached, is about to be dropped or was stored by a      *)
(* reader that a commit had overtaken (invalidate_tree_cache,              *)
(* cache_delete).  Of the times in the tree nothing is claimed.            *)
THEOREM CachesCurrentHolds == Spec => []CachesCurrent
<1>1. CacheInv => CachesCurrent
  BY DEF CacheInv
<1> QED BY <1>1, AlwaysCacheInv, PTL

(* ------------------ links, if no name is borne twice ------------------- *)

Named(row) == {row.name} \cup row.aliases

(* What is assumed of names unless there are namesakes.                    *)
Distinct(ns) ==
    /\ \A n \in Live(ns) : ns[n].name \notin ns[n].aliases
    /\ \A m, n \in Live(ns) : m # n => Named(ns[m]) \cap Named(ns[n]) = {}

Uniq(names) == \A m, n \in Note : m # n => names[m] \cap names[n] = {}

(* Every link that is written with a name of n leads to n.                 *)
Found(names, links) == \A l \in links, n \in Note : l.key \in names[n] => l.target = n

Has(links, n, key) == \E l \in links : l.source = n /\ l.key = key

(* The links are those of the texts, wherever they lead.                   *)
Written(ns, links) ==
    \A n \in Note, key \in Seq(Name) : Has(links, n, key) <=> ns[n] # None /\ key \in ns[n].refs

Tip(key) == key[Len(key)]

LEMMA TipOfKeys ==
    ASSUME NEW row, row.name \in Name, NEW base \in Seq(Name), row.path = Append(base, row.name)
    PROVE  /\ \A key \in Keys(row) : Tip(key) = row.name
           /\ \A a : <<a>> \in Keys(row) => a = row.name
<1>1. /\ Len(Append(base, row.name)) = Len(base) + 1
      /\ Append(base, row.name)[Len(base) + 1] = row.name
  BY AppendProperties
<1>2. Tip(row.path) = row.name
  BY <1>1 DEF Tip
<1>3. \A a : Tip(<<a>>) = a
  BY DEF Tip
<1> QED BY <1>2, <1>3 DEF Keys

LEMMA TipOfNames ==
    ASSUME NEW row, row.name \in Name, NEW base \in Seq(Name), row.path = Append(base, row.name),
           NEW key \in Names(row)
    PROVE  Tip(key) \in Named(row)
<1>1. CASE key \in Keys(row)
  BY <1>1, TipOfKeys DEF Named
<1>2. CASE key \in AliasKeys(row.aliases)
  <2>1. PICK a \in row.aliases : key = <<a>>
    BY <1>2 DEF AliasKeys
  <2> QED BY <2>1 DEF Named, Tip
<1> QED BY <1>1, <1>2 DEF Names

(* Notes that share no name share no form of a link.                       *)
LEMMA UniqNames ==
    ASSUME NEW fs, NEW ns, Typed(fs, ns), Follows(fs, ns), Distinct(ns)
    PROVE  Uniq(NamesOf(ns))
<1> SUFFICES ASSUME NEW m \in Note, NEW n \in Note, m # n,
                    NEW key, key \in NamesOf(ns)[m], key \in NamesOf(ns)[n]
             PROVE  FALSE
  BY DEF Uniq
<1>1. m \in Live(ns) /\ n \in Live(ns) /\ key \in Names(ns[m]) /\ key \in Names(ns[n])
  BY DEF NamesOf, Live, Typed
<1>2. ASSUME NEW i \in Live(ns)
      PROVE  /\ ns[i].name \in Name /\ Base(fs, ns[i].home) \in Seq(Name)
             /\ ns[i].path = Append(Base(fs, ns[i].home), ns[i].name)
  BY BaseTyped, RowsTyped DEF Follows, Sound, NoteRow
<1>3. Tip(key) \in Named(ns[m])
  BY <1>1, <1>2, TipOfNames
<1>4. Tip(key) \in Named(ns[n])
  BY <1>1, <1>2, TipOfNames
<1> QED BY <1>1, <1>3, <1>4 DEF Distinct

LEMMA DistinctPut ==
    ASSUME NEW ns \in [Note -> NoteRow \cup {None}], Distinct(ns), NEW n \in Note, NEW row,
           row.name \notin row.aliases,
           \A m \in Live(ns) \ {n} : Named(row) \cap Named(ns[m]) = {},
           NEW notes, notes = [m \in Note |-> IF m = n THEN row ELSE ns[m]]
    PROVE  Distinct(notes)
<1>1. \A m \in Live(notes) : (m = n /\ notes[m] = row) \/ (m # n /\ m \in Live(ns) /\ notes[m] = ns[m])
  BY DEF Live
<1> QED BY <1>1 DEF Distinct

(* ---- what a link leads to ---- *)

LEMMA ResolvedFinds ==
    ASSUME NEW ns \in [Note -> NoteRow \cup {None}], NEW key, NEW n \in Note, key \in NamesOf(ns)[n]
    PROVE  Resolved(ns, key) \in Note /\ key \in NamesOf(ns)[Resolved(ns, key)]
<1> DEFINE ByPath == {m \in Live(ns) : ns[m].path = key}
           ByTitle == {m \in Live(ns) : <<ns[m].name>> = key}
           ByAlias == {m \in Live(ns) : key \in AliasKeys(ns[m].aliases)}
           One(S) == CHOOSE m \in S : TRUE
<1>1. \A S : S # {} => One(S) \in S
  OBVIOUS
<1>2. Resolved(ns, key) = IF ByPath # {} THEN One(ByPath)
                          ELSE IF ByTitle # {} THEN One(ByTitle)
                          ELSE IF ByAlias # {} THEN One(ByAlias) ELSE None
  BY DEF Resolved
<1>3. ByPath \cup ByTitle \cup ByAlias \subseteq Note
  BY DEF Live
<1>4. n \in ByPath \cup ByTitle \cup ByAlias
  BY DEF Live, NamesOf, Names, Keys
<1>5. Resolved(ns, key) \in Note
  <2> HIDE DEF ByPath, ByTitle, ByAlias, One
  <2> QED BY <1>1, <1>2, <1>3, <1>4
<1> QED BY <1>5, ResolvedBears, NoneIsNoRow

LEMMA DrawnFound ==
    ASSUME NEW ns \in [Note -> NoteRow \cup {None}], Uniq(NamesOf(ns)), NEW n, NEW refs
    PROVE  Found(NamesOf(ns), Drawn(ns, n, refs))
<1> SUFFICES ASSUME NEW l \in Drawn(ns, n, refs), NEW m \in Note, l.key \in NamesOf(ns)[m]
             PROVE  l.target = m
  BY DEF Found
<1>1. PICK k \in refs : l = [source |-> n, key |-> k, target |-> Resolved(ns, k)]
  BY DEF Drawn
<1>2. l.key = k /\ l.target = Resolved(ns, k)
  BY <1>1
<1>3. Resolved(ns, k) \in Note /\ k \in NamesOf(ns)[Resolved(ns, k)]
  BY <1>2, ResolvedFinds
<1> QED BY <1>2, <1>3 DEF Uniq

LEMMA SyncFound ==
    ASSUME NEW names, NEW links, Found(names, links),
           NEW ns \in [Note -> NoteRow \cup {None}], Uniq(NamesOf(ns)), NEW n, NEW refs,
           \A m \in Note : names[m] \subseteq NamesOf(ns)[m]
    PROVE  Found(names, SyncNoteLinks(links, ns, n, refs))
<1>1. Found(NamesOf(ns), Drawn(ns, n, refs))
  BY DrawnFound
<1> QED BY <1>1 DEF Found, SyncNoteLinks

LEMMA ClaimFound ==
    ASSUME NEW names, NEW full, NEW links, Found(names, links), Among(full, links), Uniq(full),
           NEW n \in Note, NEW keys, keys \subseteq full[n],
           NEW more, more[n] \subseteq names[n] \cup keys,
           \A m \in Note \ {n} : more[m] \subseteq names[m]
    PROVE  Found(more, Claim(links, n, keys))
<1> SUFFICES ASSUME NEW l \in Claim(links, n, keys), NEW m \in Note, l.key \in more[m]
             PROVE  l.target = m
  BY DEF Found
<1>1. PICK k \in links : l = IF k.target = None /\ k.key \in keys THEN [k EXCEPT !.target = n] ELSE k
  BY DEF Claim
<1>2. /\ k \in LinkRow /\ l.key = k.key
      /\ l.target = IF k.target = None /\ k.key \in keys THEN n ELSE k.target
  BY <1>1 DEF Among, LinkRow
<1>3. CASE k.key \in names[m]
  <2>1. k.target = m
    BY <1>3 DEF Found
  <2> QED BY <1>2, <2>1, NoneIsNoRow
<1>4. CASE k.key \notin names[m]
  <2>1. m = n /\ k.key \in keys
    BY <1>2, <1>4
  <2>2. k.target # None => k.target \in Note /\ k.key \in full[k.target]
    BY <1>2 DEF Among, LinkRow
  <2>3. k.target # None => k.target = n
    BY <2>1, <2>2 DEF Uniq
  <2> QED BY <1>2, <2>1, <2>3
<1> QED BY <1>3, <1>4

LEMMA ReleaseFound ==
    ASSUME NEW names, NEW links, Found(names, links), links \subseteq LinkRow,
           NEW n \in Note, NEW keys, NEW less, less[n] \cap keys = {},
           \A m \in Note : less[m] \subseteq names[m]
    PROVE  Found(less, Release(links, n, keys))
<1> SUFFICES ASSUME NEW l \in Release(links, n, keys), NEW m \in Note, l.key \in less[m]
             PROVE  l.target = m
  BY DEF Found
<1>1. PICK k \in links : l = IF k.target = n /\ k.key \in keys THEN [k EXCEPT !.target = None] ELSE k
  BY DEF Release
<1>2. /\ l.key = k.key
      /\ l.target = IF k.target = n /\ k.key \in keys THEN None ELSE k.target
  BY <1>1 DEF LinkRow
<1>3. k.target = m
  BY <1>2 DEF Found
<1> QED BY <1>2, <1>3

LEMMA AliasesFound ==
    ASSUME NEW names, NEW full, NEW links, Found(names, links), Among(full, links), Uniq(full),
           \A m \in Note : names[m] \subseteq full[m],
           NEW n \in Note, NEW row, NEW had, AliasKeys(row.aliases \ had) \subseteq full[n],
           NEW less, less[n] \subseteq names[n] \cup AliasKeys(row.aliases \ had),
           less[n] \subseteq Names(row),
           \A m \in Note \ {n} : less[m] \subseteq names[m]
    PROVE  Found(less, SyncNoteAliases(links, n, row, had))
<1> DEFINE added == AliasKeys(row.aliases \ had)
           removed == AliasKeys(had \ row.aliases) \ Keys(row)
           more == [m \in Note |-> IF m = n THEN names[n] \cup added ELSE names[m]]
<1>1. Found(more, Claim(links, n, added)) /\ Among(full, Claim(links, n, added))
  <2>1. more[n] \subseteq names[n] \cup added /\ \A m \in Note \ {n} : more[m] \subseteq names[m]
    OBVIOUS
  <2> HIDE DEF more, added
  <2>2. added \subseteq full[n]
    BY DEF added
  <2> QED BY <2>1, <2>2, ClaimFound, ClaimAmong
<1>2. less[n] \cap removed = {}
  BY DEF Names, AliasKeys
<1>3. \A m \in Note : less[m] \subseteq more[m]
  OBVIOUS
<1>4. Claim(links, n, added) \subseteq LinkRow
  BY <1>1 DEF Among
<1>5. Found(less, Release(Claim(links, n, added), n, removed))
  <2> HIDE DEF more, added, removed
  <2> QED BY <1>1, <1>2, <1>3, <1>4, ReleaseFound
<1> QED BY <1>5 DEF SyncNoteAliases

LEMMA RenamedFound ==
    ASSUME NEW names, NEW full, NEW links, Found(names, links), Among(names, links), Uniq(full),
           NEW n \in Note, NEW was, NEW row,
           names[n] = Names(was), full[n] = Names(row), was.aliases = row.aliases,
           Keys(was) \cap AliasKeys(row.aliases) = {},
           \A m \in Note \ {n} : names[m] = full[m]
    PROVE  Found(full, RenamedLinks(links, n, was, row))
<1> DEFINE gone == Keys(was) \ Keys(row)
           both == [m \in Note |-> IF m = n THEN names[n] \ gone ELSE names[m]]
<1>1. Found(both, Release(links, n, gone))
  <2>1. both[n] \cap gone = {} /\ \A m \in Note : both[m] \subseteq names[m]
    OBVIOUS
  <2>2. links \subseteq LinkRow
    BY DEF Among
  <2> HIDE DEF both, gone
  <2> QED BY <2>1, <2>2, ReleaseFound
<1>2. Among(full, Release(links, n, gone))
  <2>1. names[n] \subseteq full[n] \cup gone
    BY DEF Names
  <2> HIDE DEF gone
  <2> QED BY <2>1, ReleaseAmong
<1>3. /\ full[n] \subseteq both[n] \cup Keys(row)
      /\ Keys(row) \subseteq full[n]
      /\ \A m \in Note \ {n} : full[m] \subseteq both[m]
  BY DEF Names
<1>4. Found(full, Claim(Release(links, n, gone), n, Keys(row)))
  <2> HIDE DEF both, gone
  <2> QED BY <1>1, <1>2, <1>3, ClaimFound
<1> QED BY <1>4 DEF RenamedLinks

LEMMA DeletedFound ==
    ASSUME NEW ns \in [Note -> NoteRow \cup {None}], NEW links, links \subseteq LinkRow,
           Found(NamesOf(ns), links), NEW lost,
           NEW notes, notes = [n \in Note |-> IF n \in lost THEN None ELSE ns[n]]
    PROVE  Found(NamesOf(notes), Unlinked(links, lost))
<1> SUFFICES ASSUME NEW l \in Unlinked(links, lost), NEW m \in Note, l.key \in NamesOf(notes)[m]
             PROVE  l.target = m
  BY DEF Found
<1>1. PICK k \in links : l = IF k.target \in lost THEN [k EXCEPT !.target = None] ELSE k
  BY DEF Unlinked
<1>2. l.key = k.key /\ l.target = IF k.target \in lost THEN None ELSE k.target
  BY <1>1 DEF LinkRow
<1>3. m \notin lost /\ k.key \in NamesOf(ns)[m]
  BY <1>2 DEF NamesOf
<1>4. k.target = m
  BY <1>3 DEF Found
<1> QED BY <1>2, <1>3, <1>4

(* Notes whose paths alone have changed: no new path is a name of another. *)
LEMMA RecomputedFound ==
    ASSUME NEW fs, NEW gs, Typed(fs, note), Follows(fs, note), Distinct(note),
           Among(NamesOf(note), link), Found(NamesOf(note), link),
           NEW notes, Typed(gs, notes), Follows(gs, notes), Live(notes) = Live(note),
           \A n \in Live(note) : notes[n].name = note[n].name /\ notes[n].aliases = note[n].aliases
    PROVE  Found(NamesOf(notes), RecomputedLinks(link, notes)) /\ Distinct(notes)
<1> DEFINE moved == {n \in Live(notes) : notes[n].path # note[n].path}
           Left(l) == l.target \in moved /\ l.key = note[l.target].path /\ l.key \notin Keys(notes[l.target])
           Claimants(key) == {n \in moved : key \in Keys(notes[n])}
           Kept(l) == IF Left(l) THEN None ELSE l.target
           After(l) == IF Kept(l) = None /\ Claimants(l.key) # {}
                       THEN CHOOSE n \in Claimants(l.key) : TRUE ELSE Kept(l)
<1>1. RecomputedLinks(link, notes) = {[l EXCEPT !.target = After(l)] : l \in link}
  BY DEF RecomputedLinks
<1>2. Distinct(notes)
  BY DEF Distinct, Named
<1>3. Uniq(NamesOf(notes))
  BY <1>2, UniqNames
<1>4. /\ Live(note) \subseteq Note
      /\ \A n \in Live(note) :
          /\ note[n].name \in Name /\ note[n].path = Append(Base(fs, note[n].home), note[n].name)
          /\ notes[n].path = Append(Base(gs, notes[n].home), notes[n].name)
  BY RowsTyped DEF Follows, NoteRow
<1>5. \A n \in Live(note) : Base(fs, note[n].home) \in Seq(Name) /\ Base(gs, notes[n].home) \in Seq(Name)
  BY BaseTyped DEF Follows, Sound
<1>6. ASSUME NEW l \in link, NEW n \in Note, l.key \in NamesOf(notes)[n]
      PROVE  After(l) = n
  <2>1. n \in Live(note) /\ n \in Live(notes) /\ l.key \in Names(notes[n])
    BY <1>6 DEF NamesOf, Live, Typed
  <2>2. n # None
    BY NoneIsNoRow
  <2>3. CASE l.key \in NamesOf(note)[n]
    <3>1. l.target = n
      BY <2>3 DEF Found
    <3>2. ~Left(l)
      <4> SUFFICES ASSUME Left(l) PROVE FALSE
        OBVIOUS
      <4>1. l.key = note[n].path /\ l.key \notin Keys(notes[n])
        BY <3>1
      <4>2. PICK a \in note[n].aliases : l.key = <<a>>
        BY <2>1, <4>1 DEF Names, AliasKeys
      <4>3. <<a>> \in Keys(note[n])
        BY <4>1, <4>2 DEF Keys
      <4>4. a = note[n].name
        BY <1>4, <1>5, <2>1, <4>3, TipOfKeys
      <4> QED BY <2>1, <4>2, <4>4 DEF Distinct
    <3> QED BY <2>2, <3>1, <3>2
  <2>4. CASE l.key \notin NamesOf(note)[n]
    <3>1. l.key \notin Names(note[n])
      BY <2>1, <2>4 DEF NamesOf, Live
    <3>2. l.key = notes[n].path /\ n \in moved
      BY <2>1, <3>1 DEF Names, Keys
    <3>3. n \in Claimants(l.key)
      BY <3>2 DEF Keys
    <3>4. \A m \in Claimants(l.key) : m = n
      <4>1. \A m \in Claimants(l.key) : m \in Note /\ l.key \in NamesOf(notes)[m]
        BY <1>4 DEF NamesOf, Names, Live
      <4> HIDE DEF Claimants
      <4> QED BY <1>3, <1>6, <4>1 DEF Uniq
    <3>5. l.target = None
      <4> SUFFICES ASSUME l.target # None PROVE FALSE
        OBVIOUS
      <4> DEFINE m == l.target
      <4>1. m \in Note /\ l.key \in NamesOf(note)[m]
        BY DEF Among, LinkRow
      <4>2. m \in Live(note) /\ l.key \in Names(note[m]) /\ m # n
        BY <2>4, <4>1 DEF NamesOf, Live, Typed
      <4> HIDE DEF m
      <4>3. Tip(l.key) \in Named(note[m])
        BY <1>4, <1>5, <4>2, TipOfNames
      <4>4. notes[n].name \in Name /\ notes[n].name = note[n].name
        BY <1>4, <2>1
      <4>5. Tip(l.key) \in Named(notes[n])
        BY <1>4, <1>5, <2>1, <4>4, TipOfNames
      <4> QED BY <2>1, <4>2, <4>3, <4>5 DEF Distinct, Named
    <3> HIDE DEF Claimants
    <3> QED BY <3>3, <3>4, <3>5
  <2> QED BY <2>3, <2>4
<1> HIDE DEF After
<1>7. ASSUME NEW k \in {[l EXCEPT !.target = After(l)] : l \in link}, NEW n \in Note, k.key \in NamesOf(notes)[n]
      PROVE  k.target = n
  <2>1. PICK l \in link : k = [l EXCEPT !.target = After(l)]
    BY <1>7
  <2>2. k.key = l.key /\ k.target = After(l)
    BY <2>1 DEF Among, LinkRow
  <2> QED BY <1>6, <1>7, <2>2
<1> QED BY <1>1, <1>2, <1>7 DEF Found

(* ---- the links of the texts ---- *)

LEMMA ClaimHas ==
    ASSUME NEW links, links \subseteq LinkRow, NEW n, NEW keys, NEW m, NEW key
    PROVE  Has(Claim(links, n, keys), m, key) <=> Has(links, m, key)
<1> DEFINE G(k) == IF k.target = None /\ k.key \in keys THEN [k EXCEPT !.target = n] ELSE k
<1>1. Claim(links, n, keys) = {G(k) : k \in links}
  BY DEF Claim
<1>2. \A k \in links : G(k).source = k.source /\ G(k).key = k.key
  BY DEF LinkRow
<1> HIDE DEF G
<1> QED BY <1>1, <1>2 DEF Has

LEMMA ReleaseHas ==
    ASSUME NEW links, links \subseteq LinkRow, NEW n, NEW keys, NEW m, NEW key
    PROVE  Has(Release(links, n, keys), m, key) <=> Has(links, m, key)
<1> DEFINE G(k) == IF k.target = n /\ k.key \in keys THEN [k EXCEPT !.target = None] ELSE k
<1>1. Release(links, n, keys) = {G(k) : k \in links}
  BY DEF Release
<1>2. \A k \in links : G(k).source = k.source /\ G(k).key = k.key
  BY DEF LinkRow
<1> HIDE DEF G
<1> QED BY <1>1, <1>2 DEF Has

LEMMA RecomputedHas ==
    ASSUME link \subseteq LinkRow, NEW notes, NEW m, NEW key
    PROVE  Has(RecomputedLinks(link, notes), m, key) <=> Has(link, m, key)
<1> DEFINE moved == {n \in Live(notes) : notes[n].path # note[n].path}
           Left(l) == l.target \in moved /\ l.key = note[l.target].path /\ l.key \notin Keys(notes[l.target])
           Claimants(k) == {n \in moved : k \in Keys(notes[n])}
           Kept(l) == IF Left(l) THEN None ELSE l.target
           After(l) == IF Kept(l) = None /\ Claimants(l.key) # {}
                       THEN CHOOSE n \in Claimants(l.key) : TRUE ELSE Kept(l)
           G(l) == [l EXCEPT !.target = After(l)]
<1>1. RecomputedLinks(link, notes) = {G(l) : l \in link}
  BY DEF RecomputedLinks
<1> HIDE DEF After
<1>2. \A l \in link : G(l).source = l.source /\ G(l).key = l.key
  BY DEF LinkRow
<1> HIDE DEF G
<1> QED BY <1>1, <1>2 DEF Has

LEMMA SyncHas ==
    ASSUME NEW links, NEW ns, NEW n, NEW refs, NEW m, NEW key
    PROVE  Has(SyncNoteLinks(links, ns, n, refs), m, key)
             <=> IF m = n THEN key \in refs ELSE Has(links, m, key)
<1> DEFINE Row(k) == [source |-> n, key |-> k, target |-> Resolved(ns, k)]
<1>1. SyncNoteLinks(links, ns, n, refs) = {l \in links : l.source # n} \cup {Row(k) : k \in refs}
  BY DEF SyncNoteLinks, Drawn
<1>2. \A k : Row(k).source = n /\ Row(k).key = k
  OBVIOUS
<1> HIDE DEF Row
<1> QED BY <1>1, <1>2 DEF Has

LEMMA UnlinkedHas ==
    ASSUME NEW links, links \subseteq LinkRow, NEW lost, NEW m, NEW key
    PROVE  Has(Unlinked(links, lost), m, key) <=> m \notin lost /\ Has(links, m, key)
<1> DEFINE G(l) == IF l.target \in lost THEN [l EXCEPT !.target = None] ELSE l
<1>1. Unlinked(links, lost) = {G(l) : l \in {k \in links : k.source \notin lost}}
  BY DEF Unlinked
<1>2. \A l \in links : G(l).source = l.source /\ G(l).key = l.key
  BY DEF LinkRow
<1> HIDE DEF G
<1> QED BY <1>1, <1>2 DEF Has

LEMMA AliasesHas ==
    ASSUME NEW names, NEW links, Among(names, links), NEW n \in Note, NEW row, NEW had, NEW m, NEW key
    PROVE  Has(SyncNoteAliases(links, n, row, had), m, key) <=> Has(links, m, key)
<1> DEFINE added == AliasKeys(row.aliases \ had)
           removed == AliasKeys(had \ row.aliases) \ Keys(row)
<1>1. links \subseteq LinkRow
  BY DEF Among
<1>2. Claim(links, n, added) \subseteq LinkRow
  BY <1>1 DEF Claim, LinkRow
<1> HIDE DEF added, removed
<1>3. Has(Release(Claim(links, n, added), n, removed), m, key) <=> Has(links, m, key)
  BY <1>1, <1>2, ClaimHas, ReleaseHas
<1> QED BY <1>3 DEF SyncNoteAliases, added, removed

LEMMA RenamedHas ==
    ASSUME NEW links, links \subseteq LinkRow, NEW n \in Note, NEW was, NEW row, NEW m, NEW key
    PROVE  Has(RenamedLinks(links, n, was, row), m, key) <=> Has(links, m, key)
<1> DEFINE gone == Keys(was) \ Keys(row)
<1>1. Release(links, n, gone) \subseteq LinkRow
  BY DEF Release, LinkRow
<1> HIDE DEF gone
<1>2. Has(Claim(Release(links, n, gone), n, Keys(row)), m, key) <=> Has(links, m, key)
  BY <1>1, ClaimHas, ReleaseHas
<1> QED BY <1>2 DEF RenamedLinks, gone

(* ---- resaving every note would draw the same links ---- *)

LEMMA LinksAreDrawn ==
    ASSUME Typed(folder, note), Among(NamesOf(note), link), Found(NamesOf(note), link), Written(note, link)
    PROVE  LinksAsResaved
<1> DEFINE Row(n, k) == [source |-> n, key |-> k, target |-> Resolved(note, k)]
           all == UNION {Drawn(note, n, note[n].refs) : n \in Live(note)}
<1>1. Live(note) \subseteq Note /\ \A n \in Live(note) : note[n].refs \subseteq Seq(Name)
  BY RowsTyped DEF NoteRow
<1>2. ASSUME NEW l \in link PROVE l.target = Resolved(note, l.key)
  <2>1. l.target # None => l.target \in Note /\ l.key \in NamesOf(note)[l.target]
    BY DEF Among, LinkRow
  <2>2. \/ Resolved(note, l.key) = None
        \/ Resolved(note, l.key) \in Note /\ l.key \in NamesOf(note)[Resolved(note, l.key)]
    BY ResolvedBears DEF Typed
  <2>3. l.target # None => Resolved(note, l.key) \in Note /\ l.key \in NamesOf(note)[Resolved(note, l.key)]
    BY <2>1, ResolvedFinds DEF Typed
  <2> QED BY <2>1, <2>2, <2>3 DEF Found
<1>3. ASSUME NEW l \in link
      PROVE  l = Row(l.source, l.key) /\ l.source \in Live(note) /\ l.key \in note[l.source].refs
  <2>1. l \in LinkRow
    BY DEF Among
  <2>2. l = Row(l.source, l.key)
    BY <1>2, <2>1 DEF LinkRow
  <2>3. Has(link, l.source, l.key) /\ l.source \in Note /\ l.key \in Seq(Name)
    BY <2>1 DEF Has, LinkRow
  <2>4. note[l.source] # None /\ l.key \in note[l.source].refs
    BY <2>3 DEF Written
  <2> QED BY <2>2, <2>3, <2>4 DEF Live, Typed
<1>4. ASSUME NEW n \in Live(note), NEW k \in note[n].refs PROVE Row(n, k) \in link
  <2>1. Has(link, n, k)
    BY <1>1 DEF Written, Live
  <2>2. PICK l \in link : l.source = n /\ l.key = k
    BY <2>1 DEF Has
  <2> QED BY <1>3, <2>2
<1>5. \A n \in Live(note) : Drawn(note, n, note[n].refs) = {Row(n, k) : k \in note[n].refs}
  BY DEF Drawn
<1> HIDE DEF Row
<1>6. link \subseteq all
  BY <1>3, <1>5
<1>7. all \subseteq link
  BY <1>4, <1>5
<1> QED BY <1>6, <1>7 DEF LinksAsResaved

LinkInv ==
    /\ IInv
    /\ Distinct(note) /\ Found(NamesOf(note), link) /\ Written(note, link)
    /\ \A s \in Checked : req[s].do = "note" => Distinct([note EXCEPT ![req[s].id] = req[s].row])

(* A step that leaves the rows, and checks no new note.                    *)
LEMMA SameLinks ==
    ASSUME LinkInv, IInv', note' = note, link' = link,
           \A s \in Checked' : req'[s].do = "note" => s \in Checked /\ req'[s] = req[s]
    PROVE  LinkInv'
<1>1. \A s \in Checked' : req'[s].do = "note" => Distinct([note' EXCEPT ![req'[s].id] = req'[s].row])
  BY DEF LinkInv
<1> QED BY <1>1 DEF LinkInv

(* A commit while no other request is checked.                             *)
LEMMA WriteLinks ==
    ASSUME LinkInv, IInv', NEW r \in Request, Checked \subseteq {r},
           NEW drop, NEW edited, NEW folders, NEW notes, NEW links, Write(r, drop, edited, folders, notes, links),
           Distinct(notes), Found(NamesOf(notes), links), Written(notes, links)
    PROVE  LinkInv'
<1>1. note' = notes /\ link' = links /\ req' = [req EXCEPT ![r] = [do |-> "drop", views |-> drop]]
  BY DEF Write
<1>2. req' = [s \in Request |-> IF s = r THEN [do |-> "drop", views |-> drop] ELSE req[s]]
  BY <1>1 DEF LinkInv, IInv, Fresh
<1>3. Checked' = {}
  BY <1>2 DEF Checked
<1> QED BY <1>1, <1>3 DEF LinkInv

LEMMA NamesDistinct ==
    ASSUME LinkInv
    PROVE  /\ Uniq(NamesOf(note)) /\ note \in [Note -> NoteRow \cup {None}]
           /\ link \subseteq LinkRow /\ Among(NamesOf(note), link)
BY UniqNames DEF LinkInv, IInv, Among, Typed

LEMMA CheckLinks ==
    ASSUME LinkInv, IInv', ~Overlap, NEW r \in Request, NEW id, NEW was, NEW row, NEW do \in {"folder", "note"},
           Check(r, do, id, was, row),
           do = "note" => Distinct([note EXCEPT ![id] = row])
    PROVE  LinkInv'
<1> DEFINE q == [do |-> do, id |-> id, was |-> was, row |-> row]
<1>1. Checked = {} /\ req' = [req EXCEPT ![r] = q] /\ note' = note /\ link' = link
  BY DEF Check, Idle, rows
<1>2. q.do = do /\ q.id = id /\ q.row = row
  OBVIOUS
<1> HIDE DEF q
<1>3. req' = [s \in Request |-> IF s = r THEN q ELSE req[s]]
  BY <1>1 DEF LinkInv, IInv, Fresh
<1>4. Checked' \subseteq {r} /\ (r \in Checked' => req'[r] = q)
  BY <1>1, <1>3 DEF Checked
<1>5. \A s \in Checked' : req'[s].do = "note" => Distinct([note' EXCEPT ![req'[s].id] = req'[s].row])
  BY <1>1, <1>2, <1>4
<1> QED BY <1>1, <1>5 DEF LinkInv

LEMMA CommitFolderLinks ==
    ASSUME LinkInv, IInv', NEW r \in Request, CommitFolder(r)
    PROVE  LinkInv'
<1> DEFINE q == req[r]
           made == q.was = None
           put == [folder EXCEPT ![q.id] = IF made THEN q.row ELSE Merged(@, q.was, q.row)]
           folders == IF made THEN put ELSE Recomputed(put, q.was.path, q.row.path)
           notes == IF made THEN note ELSE Recomputed(note, q.was.path, q.row.path)
           links == IF made THEN link ELSE RecomputedLinks(link, notes)
           drop == IF made THEN {"tree"} ELSE View
<1>1. /\ q # None /\ q.do = "folder"
      /\ Write(r, drop, FALSE, folders, notes, links) \/ Fails(r)
  BY DEF CommitFolder
<1>2. r \in Checked /\ Checked \subseteq {r}
  BY <1>1 DEF Checked, LinkInv, IInv, Fresh
<1>3. CASE Fails(r)
  <2>1. note' = note /\ link' = link /\ req' = [req EXCEPT ![r] = None]
    BY <1>3 DEF Fails, rows
  <2>2. req' = [s \in Request |-> IF s = r THEN None ELSE req[s]]
    BY <2>1 DEF LinkInv, IInv, Fresh
  <2>3. Checked' = {}
    BY <1>2, <2>2 DEF Checked
  <2> QED BY <2>1, <2>3, SameLinks
<1>4. CASE Write(r, drop, FALSE, folders, notes, links)
  <2>1. CASE made
    <3>1. notes = note /\ links = link
      BY <2>1
    <3> HIDE DEF folders, notes, links, drop
    <3> QED BY <1>2, <1>4, <3>1, WriteLinks DEF LinkInv
  <2>2. CASE ~made
    <3>1. links = RecomputedLinks(link, notes) /\ notes = Recomputed(note, q.was.path, q.row.path)
      BY <2>2
    <3>2. folder' = folders /\ note' = notes /\ Typed(folders, notes) /\ Follows(folders, notes)
      BY <1>4 DEF Write, IInv
    <3>3. Typed(folder, note) /\ Follows(folder, note)
      BY DEF LinkInv, IInv
    <3>4. notes = [i \in Note |-> IF note[i] # None /\ Under(q.was.path, note[i].path)
                                  THEN [note[i] EXCEPT !.path = Moved(@, q.was.path, q.row.path)] ELSE note[i]]
      BY <3>1, <3>3 DEF Recomputed, Typed
    <3>5. \A n \in Live(note) : /\ n \in Note /\ note[n] \in NoteRow /\ note[n] # None
                                /\ notes[n] \in NoteRow \cup {None}
                                /\ [note[n] EXCEPT !.path = Moved(@, q.was.path, q.row.path)] # None
      <4> SUFFICES ASSUME NEW n \in Live(note)
                   PROVE  /\ n \in Note /\ note[n] \in NoteRow /\ note[n] # None
                          /\ notes[n] \in NoteRow \cup {None}
                          /\ [note[n] EXCEPT !.path = Moved(@, q.was.path, q.row.path)] # None
        OBVIOUS
      <4>1. n \in Note /\ note[n] \in NoteRow /\ note[n] # None
        BY LiveNote DEF LinkInv
      <4>2. FolderPlan(q)
        BY <1>1, <1>2 DEF LinkInv, IInv, Fresh, Plan
      <4>3. q.was.path \in Seq(Name) /\ q.row.path \in Seq(Name)
        BY <2>2, <4>2, <3>3 DEF FolderPlan, Typed, FolderRow
      <4>4. Moved(note[n].path, q.was.path, q.row.path) \in Seq(Name)
        BY <4>1, <4>3, MovedTyped DEF NoteRow
      <4>5. [note[n] EXCEPT !.path = Moved(@, q.was.path, q.row.path)] \in NoteRow
        BY <4>1, <4>4 DEF NoteRow
      <4> HIDE DEF notes
      <4> QED BY <3>2, <4>1, <4>5, NoneIsNoRow DEF Typed
    <3> HIDE DEF folders, notes, links, drop
    <3>6. /\ \A n \in Live(note) : notes[n].name = note[n].name /\ notes[n].aliases = note[n].aliases
          /\ \A n \in Live(note) : notes[n].refs = note[n].refs
      BY <3>4, <3>5 DEF NoteRow
    <3>7. Live(notes) = Live(note)
      BY <3>2, <3>3, <3>4, <3>5 DEF Live, Typed
    <3>8. Found(NamesOf(notes), links) /\ Distinct(notes)
      BY <3>1, <3>2, <3>3, <3>6, <3>7, RecomputedFound DEF LinkInv, IInv
    <3>9. Written(notes, links)
      <4>1. \A n \in Note : (notes[n] # None <=> note[n] # None) /\ (note[n] # None => notes[n].refs = note[n].refs)
        BY <3>2, <3>3, <3>6, <3>7 DEF Live, Typed
      <4>2. \A n, key : Has(links, n, key) <=> Has(link, n, key)
        BY <3>1, NamesDistinct, RecomputedHas
      <4> QED BY <4>1, <4>2 DEF LinkInv, Written
    <3> QED BY <1>2, <1>4, <3>8, <3>9, WriteLinks
  <2> QED BY <2>1, <2>2
<1> QED BY <1>1, <1>3, <1>4

LEMMA CommitNoteLinks ==
    ASSUME LinkInv, IInv', NEW r \in Request, CommitNote(r)
    PROVE  LinkInv'
<1> DEFINE q == req[r]
           made == q.was = None
           n == q.id
           notes == [note EXCEPT ![n] = IF made THEN q.row ELSE Merged(@, q.was, q.row)]
           unaliased == [notes EXCEPT ![n].aliases = {}]
           drawn == SyncNoteLinks(link, unaliased, n, q.row.refs)
           links == IF made THEN Claim(SyncNoteAliases(drawn, n, q.row, {}), n, Keys(q.row))
                    ELSE RenamedLinks(link, n, q.was, q.row)
<1>1. /\ q # None /\ q.do = "note"
      /\ Write(r, View, ~made, folder, notes, links) \/ Fails(r)
  BY DEF CommitNote
<1>2. r \in Checked /\ Checked \subseteq {r}
  BY <1>1 DEF Checked, LinkInv, IInv, Fresh
<1>3. CASE Fails(r)
  <2>1. note' = note /\ link' = link /\ req' = [req EXCEPT ![r] = None]
    BY <1>3 DEF Fails, rows
  <2>2. req' = [s \in Request |-> IF s = r THEN None ELSE req[s]]
    BY <2>1 DEF LinkInv, IInv, Fresh
  <2>3. Checked' = {}
    BY <1>2, <2>2 DEF Checked
  <2> QED BY <2>1, <2>3, SameLinks
<1>4. CASE Write(r, View, ~made, folder, notes, links)
  <2>1. NotePlan(q)
    BY <1>1, <1>2 DEF LinkInv, IInv, Fresh, Plan
  <2>2. n \in Note /\ q.was = note[n] /\ q.row \in NoteRow
    BY <2>1 DEF NotePlan
  <2>3. note \in [Note -> NoteRow \cup {None}] /\ Uniq(NamesOf(note)) /\ link \subseteq LinkRow
    BY NamesDistinct
  <2>4. notes = [note EXCEPT ![n] = q.row]
    <3>1. CASE ~made
      <4>1. q.was \in NoteRow /\ q.row.refs = q.was.refs /\ q.row.aliases = q.was.aliases
        BY <2>1, <2>2, <2>3, <3>1 DEF NotePlan
      <4>2. Merged(q.was, q.was, q.row) = q.row
        BY <2>2, <4>1 DEF Merged, NoteRow
      <4> QED BY <2>2, <2>3, <3>1, <4>2
    <3>2. CASE made
      BY <3>2
    <3> QED BY <3>1, <3>2
  <2>5. notes = [m \in Note |-> IF m = n THEN q.row ELSE note[m]] /\ q.row # None
    BY <2>2, <2>3, <2>4, NoneIsNoRow
  <2>6. Distinct(notes)
    BY <1>1, <1>2, <2>4 DEF LinkInv
  <2>7. note' = notes /\ folder' = folder /\ link' = links
    BY <1>4 DEF Write
  <2>8. Typed(folder, notes) /\ Follows(folder, notes)
    BY <2>7 DEF IInv
  <2>9. Uniq(NamesOf(notes))
    <3> HIDE DEF notes
    <3> QED BY <2>6, <2>8, UniqNames
  <2>10. /\ NamesOf(notes)[n] = Names(q.row)
         /\ \A m \in Note \ {n} : NamesOf(note)[m] = NamesOf(notes)[m]
    BY <2>2, <2>5 DEF NamesOf
  <2>11. CASE made
    <3>1. NamesOf(note)[n] = {}
      BY <2>2, <2>11 DEF NamesOf
    <3>2. unaliased = [m \in Note |-> IF m = n THEN [q.row EXCEPT !.aliases = {}] ELSE note[m]]
      BY <2>2, <2>5
    <3>3. [q.row EXCEPT !.aliases = {}] \in NoteRow /\ Keys([q.row EXCEPT !.aliases = {}]) = Keys(q.row)
      BY <2>2 DEF NoteRow, Keys
    <3>4. unaliased \in [Note -> NoteRow \cup {None}]
      <4> HIDE DEF unaliased
      <4> QED BY <2>3, <3>2, <3>3
    <3>5. /\ NamesOf(unaliased)[n] \subseteq Keys(q.row)
          /\ \A m \in Note \ {n} : NamesOf(unaliased)[m] = NamesOf(note)[m]
      <4>1. AliasKeys([q.row EXCEPT !.aliases = {}].aliases) = {}
        BY <2>2 DEF NoteRow, AliasKeys
      <4>2. unaliased[n] = [q.row EXCEPT !.aliases = {}]
        BY <2>2, <3>2
      <4>3. \A m \in Note \ {n} : unaliased[m] = note[m]
        BY <3>2
      <4> HIDE DEF unaliased
      <4> QED BY <2>2, <3>3, <4>1, <4>2, <4>3 DEF NamesOf, Names
    <3>6. \A m \in Note : NamesOf(unaliased)[m] \subseteq NamesOf(notes)[m]
      <4> HIDE DEF unaliased, notes
      <4> QED BY <2>10, <3>5 DEF Names
    <3>7. \A m \in Note : NamesOf(note)[m] \subseteq NamesOf(unaliased)[m]
      BY <3>1, <3>5
    <3>8. Uniq(NamesOf(unaliased))
      <4> HIDE DEF unaliased, notes
      <4> QED BY <2>9, <3>6 DEF Uniq
    <3>9. Found(NamesOf(note), drawn)
      <4> HIDE DEF unaliased
      <4> QED BY <3>4, <3>7, <3>8, SyncFound DEF LinkInv
    <3>10. Among(NamesOf(notes), drawn)
      <4>1. q.row.refs \in SUBSET Seq(Name)
        BY <2>2 DEF NoteRow
      <4> HIDE DEF unaliased, notes, n, q
      <4>2. Among(NamesOf(notes), link)
        BY <2>10, <3>1, NamesDistinct, AmongMore
      <4> QED BY <2>2, <3>4, <3>6, <4>1, <4>2, SyncAmong
    <3> DEFINE halfway == [m \in Note |-> IF m = n THEN AliasKeys(q.row.aliases) ELSE NamesOf(note)[m]]
               aliased == SyncNoteAliases(drawn, n, q.row, {})
    <3>11. /\ halfway[n] = AliasKeys(q.row.aliases)
           /\ \A m \in Note \ {n} : halfway[m] = NamesOf(note)[m]
      BY <2>2
    <3>12. q.row.aliases \ {} = q.row.aliases /\ AliasKeys(q.row.aliases) \subseteq NamesOf(notes)[n]
      BY <2>10 DEF Names
    <3>13. Found(halfway, aliased)
      <4>1. AliasKeys(q.row.aliases \ {}) \subseteq NamesOf(notes)[n]
        BY <3>12
      <4>2. halfway[n] \subseteq NamesOf(note)[n] \cup AliasKeys(q.row.aliases \ {}) /\ halfway[n] \subseteq Names(q.row)
        BY <3>11, <3>12 DEF Names
      <4>3. \A m \in Note \ {n} : halfway[m] \subseteq NamesOf(note)[m]
        BY <3>11
      <4>4. \A m \in Note : NamesOf(note)[m] \subseteq NamesOf(notes)[m]
        BY <2>10, <3>1
      <4> HIDE DEF halfway, notes, drawn, n, q
      <4> QED BY <2>2, <2>9, <3>9, <3>10, <4>1, <4>2, <4>3, <4>4, AliasesFound
    <3>14. Among(NamesOf(notes), aliased)
      <4>1. NamesOf(notes)[n] \subseteq Keys(q.row) \cup AliasKeys({}) \cup AliasKeys(q.row.aliases)
        BY <2>10 DEF Names
      <4> HIDE DEF drawn, notes, n, q
      <4> QED BY <2>2, <2>10, <3>10, <4>1, AliasesAmong
    <3>15. Found(NamesOf(notes), Claim(aliased, n, Keys(q.row)))
      <4>1. Keys(q.row) \subseteq NamesOf(notes)[n] /\ NamesOf(notes)[n] \subseteq halfway[n] \cup Keys(q.row)
        <5> HIDE DEF halfway, notes, q
        <5> QED BY <2>10, <3>11 DEF Names
      <4>2. \A m \in Note \ {n} : NamesOf(notes)[m] \subseteq halfway[m]
        BY <2>10, <3>11
      <4> HIDE DEF halfway, aliased, notes, n, q
      <4> QED BY <2>2, <2>9, <3>13, <3>14, <4>1, <4>2, ClaimFound
    <3>16. Written(notes, Claim(aliased, n, Keys(q.row)))
      <4>1. \A m, key : Has(Claim(aliased, n, Keys(q.row)), m, key) <=> IF m = n THEN key \in q.row.refs ELSE Has(link, m, key)
        <5> SUFFICES ASSUME NEW m, NEW key
                     PROVE  Has(Claim(aliased, n, Keys(q.row)), m, key) <=> IF m = n THEN key \in q.row.refs ELSE Has(link, m, key)
          OBVIOUS
        <5>1. Has(drawn, m, key) <=> IF m = n THEN key \in q.row.refs ELSE Has(link, m, key)
          BY SyncHas
        <5> HIDE DEF drawn
        <5>2. Has(aliased, m, key) <=> Has(drawn, m, key)
          BY <2>2, <3>10, AliasesHas
        <5>3. aliased \subseteq LinkRow
          BY <3>14 DEF Among
        <5> HIDE DEF aliased
        <5>4. Has(Claim(aliased, n, Keys(q.row)), m, key) <=> Has(aliased, m, key)
          BY <5>3, ClaimHas
        <5> QED BY <5>1, <5>2, <5>4
      <4> HIDE DEF aliased, drawn
      <4> QED BY <2>2, <2>5, <4>1 DEF LinkInv, Written
    <3>17. links = Claim(aliased, n, Keys(q.row))
      BY <2>11
    <3> HIDE DEF links, notes, aliased
    <3> QED BY <1>2, <1>4, <2>6, <3>15, <3>16, <3>17, WriteLinks
  <2>12. CASE ~made
    <3>1. links = RenamedLinks(link, n, q.was, q.row) /\ q.was.aliases = q.row.aliases /\ q.was.refs = q.row.refs
      BY <2>1, <2>12 DEF NotePlan
    <3>2. NamesOf(note)[n] = Names(q.was)
      BY <2>2, <2>12 DEF NamesOf
    <3>3. Keys(q.was) \cap AliasKeys(q.row.aliases) = {}
      <4>1. n \in Live(note) /\ note[n] \in NoteRow
        BY <2>2, <2>3, <2>12 DEF Live
      <4>2. /\ note[n].name \in Name /\ Base(folder, note[n].home) \in Seq(Name)
            /\ note[n].path = Append(Base(folder, note[n].home), note[n].name)
        BY <4>1, BaseTyped DEF LinkInv, IInv, Follows, Sound, NoteRow
      <4>3. note[n].name \notin note[n].aliases
        BY <4>1 DEF LinkInv, Distinct
      <4>4. \A a : <<a>> \in Keys(note[n]) => a = note[n].name
        BY <4>2, TipOfKeys
      <4> QED BY <2>2, <3>1, <4>3, <4>4 DEF AliasKeys
    <3>4. Found(NamesOf(notes), links)
      <4>1. \A m \in Note \ {n} : NamesOf(note)[m] = NamesOf(notes)[m]
        BY <2>10
      <4> HIDE DEF links, notes, n, q
      <4> QED BY <2>2, <2>9, <2>10, <3>1, <3>2, <3>3, <4>1, NamesDistinct, RenamedFound DEF LinkInv
    <3>5. Written(notes, links)
      <4>1. \A m, key : Has(links, m, key) <=> Has(link, m, key)
        <5> HIDE DEF links, n, q
        <5> QED BY <2>2, <2>3, <3>1, RenamedHas
      <4> HIDE DEF links
      <4> QED BY <2>2, <2>5, <2>12, <3>1, <4>1 DEF LinkInv, Written
    <3> HIDE DEF links, notes
    <3> QED BY <1>2, <1>4, <2>6, <3>4, <3>5, WriteLinks
  <2> QED BY <2>11, <2>12
<1> QED BY <1>1, <1>3, <1>4

LEMMA SavedLinks ==
    ASSUME LinkInv, IInv', ~Overlap, NEW r \in Request, NEW n \in Live(note),
           NEW refs \in SUBSET Seq(Name), NEW aliases \in SUBSET Name, NEW drop,
           note[n].name \notin aliases,
           \A m \in Live(note) \ {n} : aliases \cap Named(note[m]) = {},
           NEW edited, Saved(r, n, edited, refs, aliases, drop)
    PROVE  LinkInv'
<1> DEFINE had == note[n].aliases
           row == [note[n] EXCEPT !.refs = refs, !.aliases = aliases]
           notes == [note EXCEPT ![n] = row]
           wide == [note EXCEPT ![n] = [note[n] EXCEPT !.refs = refs, !.aliases = had \cup aliases]]
           drawn == SyncNoteLinks(link, note, n, refs)
           links == SyncNoteAliases(drawn, n, row, had)
<1>1. Checked = {} /\ Write(r, drop, edited, folder, notes, links)
  BY DEF Saved, Idle
<1>2. /\ n \in Note /\ note[n] \in NoteRow /\ note[n] # None
      /\ note \in [Note -> NoteRow \cup {None}] /\ Uniq(NamesOf(note)) /\ Among(NamesOf(note), link)
  BY LiveNote, NamesDistinct DEF LinkInv
<1>3. /\ row \in NoteRow /\ row # None /\ Keys(row) = Keys(note[n])
      /\ row.aliases = aliases /\ row.name = note[n].name /\ row.refs = refs
  BY <1>2, NoneIsNoRow DEF NoteRow, Keys
<1>4. note[n].name \notin had /\ \A m \in Live(note) \ {n} : Named(note[n]) \cap Named(note[m]) = {}
  BY DEF LinkInv, Distinct
<1>5. notes = [m \in Note |-> IF m = n THEN row ELSE note[m]]
  BY <1>2
<1>6. Distinct(notes)
  <2>1. row.name \notin row.aliases
    BY <1>3
  <2>2. \A m \in Live(note) \ {n} : Named(row) \cap Named(note[m]) = {}
    <3> HIDE DEF row
    <3> QED BY <1>3, <1>4 DEF Named
  <2> HIDE DEF row, notes
  <2> QED BY <1>2, <1>5, <2>1, <2>2, DistinctPut DEF LinkInv
<1>7. /\ Distinct(wide) /\ NamesOf(wide)[n] = Keys(row) \cup AliasKeys(had \cup aliases)
      /\ \A m \in Note \ {n} : NamesOf(wide)[m] = NamesOf(note)[m]
  <2> DEFINE both == [note[n] EXCEPT !.refs = refs, !.aliases = had \cup aliases]
  <2>1. /\ both \in NoteRow /\ both # None /\ Keys(both) = Keys(note[n])
        /\ both.aliases = had \cup aliases /\ both.name = note[n].name
    <3>1. had \cup aliases \in SUBSET Name
      BY <1>2 DEF NoteRow
    <3> HIDE DEF had
    <3>2. both \in NoteRow
      BY <1>2, <3>1 DEF NoteRow
    <3>3. both.aliases = had \cup aliases /\ both.name = note[n].name /\ both.path = note[n].path
      BY <1>2 DEF NoteRow
    <3> HIDE DEF both
    <3> QED BY <3>2, <3>3, NoneIsNoRow DEF Keys
  <2>2. wide = [m \in Note |-> IF m = n THEN both ELSE note[m]]
    BY <1>2
  <2>3. Distinct(wide)
    <3>1. both.name \notin both.aliases
      BY <1>4, <2>1
    <3>2. \A m \in Live(note) \ {n} : Named(both) \cap Named(note[m]) = {}
      <4> HIDE DEF both
      <4> QED BY <1>4, <2>1 DEF Named
    <3> HIDE DEF both, wide
    <3> QED BY <1>2, <2>2, <3>1, <3>2, DistinctPut DEF LinkInv
  <2> HIDE DEF both, wide, row
  <2> QED BY <1>2, <1>3, <2>1, <2>2, <2>3 DEF NamesOf, Names
<1>8. Uniq(NamesOf(wide))
  <2>1. had \cup aliases \in SUBSET Name
    BY <1>2 DEF NoteRow
  <2>2. Typed(folder, wide) /\ Follows(folder, wide)
    <3>1. wide = [note EXCEPT ![n] = [note[n] EXCEPT !.refs = refs, !.aliases = had \cup aliases]]
      OBVIOUS
    <3> HIDE DEF wide, had
    <3> QED BY <2>1, <3>1, SavedFollows DEF LinkInv, IInv
  <2> HIDE DEF wide
  <2> QED BY <1>7, <2>2, UniqNames
<1>9. Found(NamesOf(note), drawn)
  BY <1>2, SyncFound DEF LinkInv
<1>10. NamesOf(note)[n] = Keys(row) \cup AliasKeys(had)
  BY <1>2, <1>3 DEF NamesOf, Names
<1>11. Among(NamesOf(wide), drawn)
  <2>1. Among(NamesOf(note), drawn)
    BY <1>2, SyncAmong
  <2>2. \A m \in Note : NamesOf(note)[m] \subseteq NamesOf(wide)[m]
    <3> HIDE DEF wide, row, had
    <3> QED BY <1>7, <1>10 DEF AliasKeys
  <2> HIDE DEF wide, drawn
  <2> QED BY <2>1, <2>2, AmongMore
<1>12. /\ NamesOf(notes)[n] = Names(row)
       /\ \A m \in Note \ {n} : NamesOf(note)[m] = NamesOf(notes)[m]
  <2> HIDE DEF row
  <2> QED BY <1>2, <1>3, <1>5 DEF NamesOf
<1>13. Found(NamesOf(notes), links)
  <2>1. \A m \in Note : NamesOf(note)[m] \subseteq NamesOf(wide)[m]
    <3> HIDE DEF wide, row, had
    <3> QED BY <1>7, <1>10 DEF AliasKeys
  <2>2. AliasKeys(row.aliases \ had) \subseteq NamesOf(wide)[n]
    <3> HIDE DEF wide, row, had
    <3> QED BY <1>3, <1>7 DEF AliasKeys
  <2>3. NamesOf(notes)[n] \subseteq NamesOf(note)[n] \cup AliasKeys(row.aliases \ had)
    <3> HIDE DEF notes, row, had
    <3> QED BY <1>10, <1>12 DEF Names, AliasKeys
  <2>4. /\ NamesOf(notes)[n] \subseteq Names(row)
        /\ \A m \in Note \ {n} : NamesOf(notes)[m] \subseteq NamesOf(note)[m]
    BY <1>12
  <2> HIDE DEF wide, notes, row, had, drawn
  <2> QED BY <1>2, <1>8, <1>9, <1>11, <2>1, <2>2, <2>3, <2>4, AliasesFound DEF links
<1>14. Written(notes, links)
  <2>1. \A m, key : Has(links, m, key) <=> IF m = n THEN key \in refs ELSE Has(link, m, key)
    <3> SUFFICES ASSUME NEW m, NEW key
                 PROVE  Has(links, m, key) <=> IF m = n THEN key \in refs ELSE Has(link, m, key)
      OBVIOUS
    <3>1. Has(drawn, m, key) <=> IF m = n THEN key \in refs ELSE Has(link, m, key)
      BY SyncHas
    <3> HIDE DEF drawn, wide, row, had
    <3>2. Has(links, m, key) <=> Has(drawn, m, key)
      BY <1>2, <1>11, AliasesHas
    <3> QED BY <3>1, <3>2
  <2> HIDE DEF links, row
  <2> QED BY <1>2, <1>3, <1>5, <2>1 DEF LinkInv, Written
<1>15. Checked \subseteq {r}
  BY <1>1
<1> HIDE DEF notes, links
<1> QED BY <1>1, <1>6, <1>13, <1>14, <1>15, WriteLinks

LEMMA DeletedLinks ==
    ASSUME LinkInv, IInv', ~Overlap, NEW r \in Request, NEW gone, NEW lost, Deleted(r, gone, lost)
    PROVE  LinkInv'
<1> DEFINE folders == [f \in Folder |-> IF f \in gone THEN None ELSE folder[f]]
           notes == [n \in Note |-> IF n \in lost THEN None ELSE note[n]]
           links == Unlinked(link, lost)
<1>1. Checked = {} /\ Write(r, View, FALSE, folders, notes, links)
  BY DEF Deleted, Idle
<1>2. note \in [Note -> NoteRow \cup {None}] /\ link \subseteq LinkRow
  BY NamesDistinct
<1>3. \A n \in Live(notes) : n \in Live(note) /\ notes[n] = note[n]
  BY <1>2 DEF Live
<1>4. Distinct(notes)
  BY <1>3 DEF LinkInv, Distinct
<1>5. Found(NamesOf(notes), links)
  BY <1>2, DeletedFound DEF LinkInv
<1>6. Written(notes, links)
  <2>1. \A n, key : Has(links, n, key) <=> n \notin lost /\ Has(link, n, key)
    BY <1>2, UnlinkedHas
  <2> HIDE DEF links
  <2> QED BY <1>2, <2>1 DEF LinkInv, Written
<1>7. Checked \subseteq {r}
  BY <1>1
<1> HIDE DEF folders, notes, links
<1> QED BY <1>1, <1>4, <1>5, <1>6, <1>7, WriteLinks

LEMMA OnFolderLinks ==
    ASSUME LinkInv, IInv', ~Overlap, NEW r \in Request, NEW f \in Live(folder), OnFolder(r, f)
    PROVE  LinkInv'
<1>1. ASSUME NEW name \in Name, RenameFolder(r, f, name) PROVE LinkInv'
  <2>1. PICK row : Check(r, "folder", f, folder[f], row)
    BY <1>1 DEF RenameFolder
  <2> QED BY <2>1, CheckLinks
<1>2. ASSUME NEW home \in Live(folder) \cup {None}, MoveFolder(r, f, home) PROVE LinkInv'
  <2>1. PICK row : Check(r, "folder", f, folder[f], row)
    BY <1>2 DEF MoveFolder
  <2> QED BY <2>1, CheckLinks
<1>3. CASE DeleteFolder(r, f)
  BY <1>3, DeletedLinks DEF DeleteFolder
<1> QED BY <1>1, <1>2, <1>3 DEF OnFolder

LEMMA OnNoteLinks ==
    ASSUME LinkInv, IInv', ~Overlap, ~Namesakes, NEW r \in Request, NEW n \in Live(note), OnNote(r, n)
    PROVE  LinkInv'
<1>1. /\ n \in Note /\ note[n] \in NoteRow /\ note \in [Note -> NoteRow \cup {None}]
      /\ note[n].refs \in SUBSET Seq(Name) /\ note[n].aliases \in SUBSET Name
  BY LiveNote, NamesDistinct DEF LinkInv, NoteRow
<1>2. /\ note[n].name \notin note[n].aliases
      /\ \A m \in Live(note) \ {n} : note[n].aliases \cap Named(note[m]) = {}
  BY DEF LinkInv, Distinct, Named
<1>3. ASSUME NEW name \in Name, NEW home \in Live(folder) \cup {None}, RenameNote(r, n, name, home)
      PROVE  LinkInv'
  <2> DEFINE row == [note[n] EXCEPT !.name = name, !.home = home, !.path = Path(home, name)]
  <2>1. Check(r, "note", n, note[n], row) /\ Unborne({name}, n) /\ name \notin note[n].aliases
    BY <1>3 DEF RenameNote
  <2>2. row.name = name /\ row.aliases = note[n].aliases
    BY <1>1 DEF NoteRow
  <2> HIDE DEF row
  <2>3. \A m \in Live(note) \ {n} : Named(row) \cap Named(note[m]) = {}
    BY <1>2, <2>1, <2>2 DEF Unborne, Named
  <2>4. [note EXCEPT ![n] = row] = [m \in Note |-> IF m = n THEN row ELSE note[m]]
    BY <1>1
  <2>5. Distinct([note EXCEPT ![n] = row])
    <3>1. row.name \notin row.aliases
      BY <2>1, <2>2
    <3> QED BY <1>1, <2>3, <2>4, <3>1, DistinctPut DEF LinkInv
  <2> QED BY <2>1, <2>5, CheckLinks
<1>4. ASSUME NEW text \in Text, NEW restored \in BOOLEAN, UpdateContent(r, n, text, restored)
      PROVE  LinkInv'
  <2>1. text.refs \in SUBSET Seq(Name) /\ text.aliases \in SUBSET Name
    BY TextsAreTexts
  <2>2. PICK edited :
            /\ Saved(r, n, edited, text.refs, text.aliases, IF restored THEN View ELSE {"graph"})
            /\ Unborne(text.aliases, n) /\ note[n].name \notin text.aliases
    BY <1>4 DEF UpdateContent
  <2>3. \A m \in Live(note) \ {n} : text.aliases \cap Named(note[m]) = {}
    BY <2>2 DEF Unborne, Named
  <2> QED BY <2>1, <2>2, <2>3, SavedLinks
<1>5. ASSUME NEW m \in Live(note), UnlinkNotes(r, n, m) PROVE LinkInv'
  <2>1. Saved(r, n, TRUE, note[n].refs \ NamesResolvingTo(m), note[n].aliases, {"graph"})
    BY <1>5 DEF UnlinkNotes
  <2>2. note[n].refs \ NamesResolvingTo(m) \in SUBSET Seq(Name)
    BY <1>1
  <2> QED BY <1>1, <1>2, <2>1, <2>2, SavedLinks
<1>6. ASSUME NEW m \in Live(note), NEW context \in BOOLEAN, LinkNotes(r, n, m, context) PROVE LinkInv'
  <2> DEFINE title == <<note[m].name>>
             form == IF title \in NamesResolvingTo(m) THEN title ELSE note[m].path
  <2>1. Saved(r, n, TRUE, note[n].refs \cup {form}, note[n].aliases, {"graph"})
    BY <1>6 DEF LinkNotes
  <2>2. title \in Seq(Name) /\ note[m].path \in Seq(Name)
    BY LiveNote DEF LinkInv, NoteRow
  <2>3. note[n].refs \cup {form} \in SUBSET Seq(Name)
    BY <1>1, <2>2
  <2> HIDE DEF form
  <2> QED BY <1>1, <1>2, <2>1, <2>3, SavedLinks
<1>7. CASE DeleteNote(r, n)
  BY <1>7, DeletedLinks DEF DeleteNote
<1> QED BY <1>3, <1>4, <1>5, <1>6, <1>7 DEF OnNote

LEMMA CreateNoteLinks ==
    ASSUME LinkInv, IInv', ~Overlap, ~Namesakes, NEW r \in Request, NEW n \in Note, NEW name \in Name,
           NEW home \in Live(folder) \cup {None}, NEW text \in Text, CreateNote(r, n, name, home, text)
    PROVE  LinkInv'
<1> DEFINE row == [home |-> home, name |-> name, path |-> Path(home, name),
                   refs |-> text.refs, aliases |-> text.aliases]
<1>1. /\ Check(r, "note", n, None, row)
      /\ Unborne({name} \cup text.aliases, n) /\ name \notin text.aliases
  BY DEF CreateNote
<1>2. row.name = name /\ row.aliases = text.aliases
  OBVIOUS
<1> HIDE DEF row
<1>3. row.name \notin row.aliases
  BY <1>1, <1>2
<1>4. \A m \in Live(note) \ {n} : Named(row) \cap Named(note[m]) = {}
  BY <1>1, <1>2 DEF Unborne, Named
<1>5. note \in [Note -> NoteRow \cup {None}]
  BY NamesDistinct
<1>6. [note EXCEPT ![n] = row] = [m \in Note |-> IF m = n THEN row ELSE note[m]]
  BY <1>5
<1>7. Distinct([note EXCEPT ![n] = row])
  BY <1>3, <1>4, <1>5, <1>6, DistinctPut DEF LinkInv
<1> QED BY <1>1, <1>7, CheckLinks

LEMMA StillLinks ==
    ASSUME LinkInv, IInv',
           UNCHANGED vars \/ (\E r \in Request : DropViews(r))
             \/ (\E v \in View : StartFill(v) \/ ReadRest(v) \/ StoreFill(v) \/ Expire(v))
    PROVE  LinkInv'
<1>1. CASE UNCHANGED vars
  BY <1>1, SameLinks DEF vars, Checked
<1>2. ASSUME NEW r \in Request, DropViews(r) PROVE LinkInv'
  <2>1. req' = [s \in Request |-> IF s = r THEN None ELSE req[s]]
    BY <1>2 DEF DropViews, LinkInv, IInv, Fresh
  <2>2. note' = note /\ link' = link
    BY <1>2 DEF DropViews, rows
  <2>3. \A s \in Checked' : s \in Checked /\ req'[s] = req[s]
    BY <2>1 DEF Checked
  <2> QED BY <2>2, <2>3, SameLinks
<1>3. ASSUME NEW v \in View, StartFill(v) \/ ReadRest(v) \/ StoreFill(v) \/ Expire(v) PROVE LinkInv'
  <2>1. note' = note /\ link' = link /\ req' = req
    BY <1>3 DEF StartFill, ReadRest, StoreFill, Expire, rows
  <2> QED BY <2>1, SameLinks DEF Checked
<1> QED BY <1>1, <1>2, <1>3

LEMMA AlwaysLinkInv ==
    ASSUME ~Overlap, ~Namesakes
    PROVE  Spec => []LinkInv
<1>1. Init => LinkInv
  <2> SUFFICES ASSUME Init PROVE LinkInv
    OBVIOUS
  <2>1. Live(note) = {} /\ Checked = {} /\ link = {} /\ \A n \in Note : note[n] = None
    BY DEF Init, Live, Checked
  <2> QED BY <2>1, InitIInv DEF LinkInv, Distinct, Found, Written, Has
<1>2. ASSUME LinkInv, [Next]_vars PROVE LinkInv'
  <2>1. IInv'
    BY <1>2, NextIInv DEF LinkInv
  <2>2. ASSUME NEW r \in Request, NEW name \in Name, NEW home \in Live(folder) \cup {None},
               NEW f \in Folder, CreateFolder(r, f, name, home)
        PROVE  LinkInv'
    <3>1. PICK row : Check(r, "folder", f, None, row)
      BY <2>2 DEF CreateFolder
    <3> QED BY <1>2, <2>1, <3>1, CheckLinks
  <2>3. ASSUME NEW r \in Request, NEW name \in Name, NEW home \in Live(folder) \cup {None},
               NEW n \in Note, NEW text \in Text, CreateNote(r, n, name, home, text)
        PROVE  LinkInv'
    BY <1>2, <2>1, <2>3, CreateNoteLinks
  <2>4. ASSUME NEW r \in Request, NEW f \in Live(folder), OnFolder(r, f) PROVE LinkInv'
    BY <1>2, <2>1, <2>4, OnFolderLinks
  <2>5. ASSUME NEW r \in Request, NEW n \in Live(note), OnNote(r, n) PROVE LinkInv'
    BY <1>2, <2>1, <2>5, OnNoteLinks
  <2>6. ASSUME NEW r \in Request, CommitFolder(r) \/ CommitNote(r) PROVE LinkInv'
    BY <1>2, <2>1, <2>6, CommitFolderLinks, CommitNoteLinks
  <2>7. ASSUME UNCHANGED vars \/ (\E r \in Request : DropViews(r))
                 \/ (\E v \in View : StartFill(v) \/ ReadRest(v) \/ StoreFill(v) \/ Expire(v))
        PROVE  LinkInv'
    BY <1>2, <2>1, <2>7, StillLinks
  <2> QED BY <1>2, <2>2, <2>3, <2>4, <2>5, <2>6, <2>7 DEF Next
<1> QED BY <1>1, <1>2, PTL DEF Spec

(* The links that every operation keeps by touching only what it thinks it *)
(* must are those that saving every note again would draw, if requests do  *)
(* not overlap and no two notes share a name (sync_note_links,             *)
(* resolve_links_for_new_note, unresolve_links_for_renamed_note).          *)
THEOREM LinksAsResavedHolds ==
    ASSUME ~Overlap, ~Namesakes
    PROVE  Spec => []LinksAsResaved
<1>1. LinkInv => LinksAsResaved
  BY LinksAreDrawn DEF LinkInv, IInv
<1> QED BY <1>1, AlwaysLinkInv, PTL
=============================================================================
