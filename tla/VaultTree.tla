----------------------------- MODULE VaultTree ------------------------------
(***************************************************************************)
(* The tree of one vault and what is derived from it: folders and notes    *)
(* with their materialized paths (folder_service.py, note_service.py), the *)
(* link rows drawn from the texts (link_service.py), and the two cached    *)
(* views of them (vault_service.get_tree, link_service.get_graph).  A path *)
(* is the sequence of its names, in lower case; what a link was written    *)
(* with is one too.  A text is the links and the aliases in it.            *)
(***************************************************************************)
EXTENDS Naturals, Sequences, SequencesExt

CONSTANTS
    Folder, Note, Request, Name, None,
    Text,       \* what people write: [refs, aliases]
    Namesakes,  \* may two notes share a title or an alias?
    Overlap,    \* may a request be checked while another is yet to commit?
    MaxDepth,   \* MAX_FOLDER_DEPTH: 20 in the code
    MaxSteps    \* bound: requests

\* A folder's row, a note's with what its text says, and a link's.
FolderRow == [home : Folder \cup {None}, name : Name, path : Seq(Name)]
NoteRow == [home : Folder \cup {None}, name : Name, path : Seq(Name),
            refs : SUBSET Seq(Name), aliases : SUBSET Name]
LinkRow == [source : Note, key : Seq(Name), target : Note \cup {None}]

ASSUME NoneIsNoRow == None \notin Folder \cup Note \cup FolderRow \cup NoteRow
ASSUME NoneIsNoRequest == None \notin [do : {"drop"}, views : SUBSET {"tree", "graph"}]
ASSUME TextsAreTexts == Text \subseteq [refs: SUBSET Seq(Name), aliases: SUBSET Name]

VARIABLES
    folder,  \* the rows: [home, name, path], or None
    note,    \* the rows: [home, name, path, refs, aliases], or None
    link,    \* the rows: [source, key, target]
    req,     \* per request: None, what it is about to write, or what it has yet to drop
    cached,  \* per view: "none", or does what is in Redis agree with the rows?
             \* "dated": it does, but for the times at which notes were changed
    fill,    \* the same of the view that a reader has in hand, "half" read at first
    late,    \* the views that were overtaken before they were stored
    steps

rows == <<folder, note, link>>
vars == <<folder, note, link, req, cached, fill, late, steps>>

View == {"tree", "graph"}

(* ------------------------------ the rows ------------------------------- *)

Live(table) == {i \in DOMAIN table : table[i] # None}

(* join_path, on the path of the folder with this id.                      *)
Path(home, name) == Append(IF home = None THEN <<>> ELSE folder[home].path, name)

Taken(table, path, id) == \E i \in Live(table) \ {id} : table[i].path = path

(* The constraints of the schema, checked at the latest by the commit.     *)
Sound(folders, notes) ==
    /\ \A f \in Live(folders) : ~Taken(folders, folders[f].path, f)
    /\ \A n \in Live(notes) : ~Taken(notes, notes[n].path, n)
    /\ \A f \in Live(folders) : folders[f].home \in Live(folders) \cup {None}
    /\ \A n \in Live(notes) : notes[n].home \in Live(folders) \cup {None}

(* The ORM writes the columns that differ from what was loaded.            *)
Merged(now, was, row) ==
    [now EXCEPT !.home = IF row.home = was.home THEN @ ELSE row.home,
                !.name = IF row.name = was.name THEN @ ELSE row.name,
                !.path = IF row.path = was.path THEN @ ELSE row.path]

Under(old, path) == Len(path) > Len(old) /\ SubSeq(path, 1, Len(old)) = old
Moved(path, old, new) == new \o SubSeq(path, Len(old) + 1, Len(path))

(* A folder goes with all that is below it, by the ids of the rows.        *)
Subtree(f) ==
    {g \in Folder : \A S \in SUBSET Folder :
        f \in S /\ (\A h \in Live(folder) : folder[h].home \in S => h \in S) => g \in S}

(* -------------------------------- links -------------------------------- *)

(* The title and the path of a note, as links are written with them.       *)
Keys(row) == {<<row.name>>, row.path}
AliasKeys(names) == {<<a>> : a \in names}

(* Path first, then title ("first (arbitrary but stable) match wins"),     *)
(* then alias.  The code takes the oldest of several aliases.              *)
Resolved(notes, key) ==
    LET ByPath == {n \in Live(notes) : notes[n].path = key}
        ByTitle == {n \in Live(notes) : <<notes[n].name>> = key}
        ByAlias == {n \in Live(notes) : key \in AliasKeys(notes[n].aliases)}
        First(S) == CHOOSE n \in S : TRUE
    IN  IF ByPath # {} THEN First(ByPath)
        ELSE IF ByTitle # {} THEN First(ByTitle)
        ELSE IF ByAlias # {} THEN First(ByAlias) ELSE None

Drawn(notes, n, refs) == {[source |-> n, key |-> k, target |-> Resolved(notes, k)] : k \in refs}

SyncNoteLinks(links, notes, n, refs) == {l \in links : l.source # n} \cup Drawn(notes, n, refs)

Claim(links, n, keys) ==
    {IF l.target = None /\ l.key \in keys THEN [l EXCEPT !.target = n] ELSE l : l \in links}

Release(links, n, keys) ==
    {IF l.target = n /\ l.key \in keys THEN [l EXCEPT !.target = None] ELSE l : l \in links}

SyncNoteAliases(links, n, row, had) ==
    Release(Claim(links, n, AliasKeys(row.aliases \ had)), n, AliasKeys(had \ row.aliases) \ Keys(row))

(* Mutant: a renamed note keeps the links to its old names.                *)
RenamedLinksKept(links, n, was, row) == Claim(links, n, Keys(row))

RenamedLinks(links, n, was, row) ==
    Claim(Release(links, n, Keys(was) \ Keys(row)), n, Keys(row))

(* ------------------------------- requests ------------------------------ *)

(* The requests that have checked and are yet to commit.                   *)
Checked == {s \in Request : req[s] # None /\ req[s].do # "drop"}

Idle(r) ==
    /\ req[r] = None
    /\ Overlap \/ Checked = {}
    /\ steps < MaxSteps /\ steps' = steps + 1

(* The rows are written and committed; the views in `drop` are yet to be   *)
(* deleted from the cache.  The tree says of each note when it was changed *)
(* last, which a note that is edited puts out of date.                     *)
Write(r, drop, edited, folders, notes, links) ==
    LET Seen(v, fs, ns, ls) ==
            IF v = "tree" THEN <<fs, [n \in Note |-> IF ns[n] = None THEN None ELSE <<ns[n].home, ns[n].name, ns[n].path>>]>>
            ELSE <<ls, [n \in Note |-> IF ns[n] = None THEN None ELSE <<ns[n].name, ns[n].path>>]>>
        Overtaken(v) == Seen(v, folders, notes, links) # Seen(v, folder, note, link)
        After(x) == [v \in View |->
                        IF x[v] # "none" /\ Overtaken(v) THEN "wrong"
                        ELSE IF v = "tree" /\ edited /\ x[v] = "right" THEN "dated"
                        ELSE x[v]]
    IN  /\ folder' = folders /\ note' = notes /\ link' = links
        /\ cached' = After(cached) /\ fill' = After(fill)
        /\ req' = [req EXCEPT ![r] = [do |-> "drop", views |-> drop]]
        /\ UNCHANGED late

Check(r, do, id, was, row) ==
    /\ Idle(r)
    /\ req' = [req EXCEPT ![r] = [do |-> do, id |-> id, was |-> was, row |-> row]]
    /\ UNCHANGED <<rows, cached, fill, late>>

(* An id that no row and no request has.                                   *)
New(table, id) == table[id] = None /\ id \notin {req[s].id : s \in Checked}

(* Nobody else bears these names: assumed unless there are namesakes.      *)
Unborne(names, n) ==
    Namesakes \/ \A m \in Live(note) \ {n} : names \cap ({note[m].name} \cup note[m].aliases) = {}

CreateFolder(r, f, name, home) ==
    LET path == Path(home, name)
    IN  /\ New(folder, f) /\ Len(path) <= MaxDepth /\ ~Taken(folder, path, f)
        /\ Check(r, "folder", f, None, [home |-> home, name |-> name, path |-> path])

RenameFolder(r, f, name) ==
    LET row == [folder[f] EXCEPT !.name = name, !.path = Append(Front(folder[f].path), name)]
    IN  /\ row.path # folder[f].path /\ ~Taken(folder, row.path, f)
        /\ Check(r, "folder", f, folder[f], row)

MoveFolder(r, f, home) ==
    LET row == [folder[f] EXCEPT !.home = home, !.path = Path(home, folder[f].name)]
    IN  /\ home # None => home # f /\ ~Under(folder[f].path, folder[home].path)
        /\ Len(row.path) <= MaxDepth /\ row.path # folder[f].path
        /\ ~Taken(folder, row.path, f)
        /\ Check(r, "folder", f, folder[f], row)

CreateNote(r, n, name, home, text) ==
    LET path == Path(home, name)
    IN  /\ New(note, n) /\ Len(path) <= MaxDepth /\ ~Taken(note, path, n)
        /\ Unborne({name} \cup text.aliases, n) /\ (Namesakes \/ name \notin text.aliases)
        /\ Check(r, "note", n, None, [home |-> home, name |-> name, path |-> path,
                                      refs |-> text.refs, aliases |-> text.aliases])

RenameNote(r, n, name, home) ==
    LET row == [note[n] EXCEPT !.name = name, !.home = home, !.path = Path(home, name)]
    IN  /\ row # note[n] /\ Len(row.path) <= MaxDepth /\ ~Taken(note, row.path, n)
        /\ Unborne({name}, n) /\ (Namesakes \/ name \notin note[n].aliases)
        /\ Check(r, "note", n, note[n], row)

(* Mutant: the notes below a folder keep their paths.                      *)
SubtreeLeft(table, old, new) == table

(* _recompute_subtree_paths: every row below the old path, by its path.    *)
Recomputed(table, old, new) ==
    [i \in DOMAIN table |->
        IF table[i] # None /\ Under(old, table[i].path)
        THEN [table[i] EXCEPT !.path = Moved(@, old, new)] ELSE table[i]]

(* The notes that moved let go of links to their old paths and claim those *)
(* to the new ones.  No new path was another note's old one.               *)
RecomputedLinks(links, notes) ==
    LET moved == {n \in Live(notes) : notes[n].path # note[n].path}
        Left(l) == l.target \in moved /\ l.key = note[l.target].path /\ l.key \notin Keys(notes[l.target])
        Claimants(key) == {n \in moved : key \in Keys(notes[n])}
        After(l) == LET target == IF Left(l) THEN None ELSE l.target
                    IN  IF target = None /\ Claimants(l.key) # {} THEN CHOOSE n \in Claimants(l.key) : TRUE ELSE target
    IN  {[l EXCEPT !.target = After(l)] : l \in links}

(* The row is gone, or a constraint is violated: the request fails.        *)
Fails(r) == req' = [req EXCEPT ![r] = None] /\ UNCHANGED <<rows, cached, fill, late>>

CommitFolder(r) ==
    LET q == req[r]
        made == q.was = None
        put == [folder EXCEPT ![q.id] = IF made THEN q.row ELSE Merged(@, q.was, q.row)]
        folders == IF made THEN put ELSE Recomputed(put, q.was.path, q.row.path)
        notes == IF made THEN note ELSE Recomputed(note, q.was.path, q.row.path)
    IN  /\ q # None /\ q.do = "folder"
        /\ IF (made \/ folder[q.id] # None) /\ Sound(folders, notes)
           THEN Write(r, IF made THEN {"tree"} ELSE View, FALSE, folders, notes,
                      IF made THEN link ELSE RecomputedLinks(link, notes))
           ELSE Fails(r)
        /\ UNCHANGED steps

CommitNote(r) ==
    LET q == req[r]
        made == q.was = None
        notes == [note EXCEPT ![q.id] = IF made THEN q.row ELSE Merged(@, q.was, q.row)]
        unaliased == [notes EXCEPT ![q.id].aliases = {}]
        links == IF made
                 THEN Claim(SyncNoteAliases(SyncNoteLinks(link, unaliased, q.id, q.row.refs), q.id, q.row, {}),
                            q.id, Keys(q.row))
                 ELSE RenamedLinks(link, q.id, q.was, q.row)
    IN  /\ q # None /\ q.do = "note"
        /\ IF (made \/ note[q.id] # None) /\ Sound(folder, notes)
           THEN Write(r, View, ~made, folder, notes, links)
           ELSE Fails(r)
        /\ UNCHANGED steps

Saved(r, n, edited, refs, aliases, drop) ==
    LET row == [note[n] EXCEPT !.refs = refs, !.aliases = aliases]
    IN  /\ Idle(r)
        /\ Write(r, drop, edited, folder, [note EXCEPT ![n] = row],
                 SyncNoteAliases(SyncNoteLinks(link, note, n, refs), n, row, note[n].aliases))

Reworded(n, text) == text.refs # note[n].refs \/ text.aliases # note[n].aliases

(* Mutant: a save drops the tree from the cache.                           *)
SavedTreeDropped(r, n, text, restored) ==
    /\ Unborne(text.aliases, n) /\ (Namesakes \/ note[n].name \notin text.aliases)
    /\ \E edited \in {TRUE} \cup {Reworded(n, text)} : Saved(r, n, edited, text.refs, text.aliases, {"tree"})

(* A save, or the restore of a version, which drops both views.  What has  *)
(* the same links and aliases may yet be another text.                     *)
UpdateContent(r, n, text, restored) ==
    /\ Unborne(text.aliases, n) /\ (Namesakes \/ note[n].name \notin text.aliases)
    /\ \E edited \in {TRUE} \cup {Reworded(n, text)} :
          Saved(r, n, edited, text.refs, text.aliases, IF restored THEN View ELSE {"graph"})

(* The forms that "unambiguously mean this note".                          *)
NamesResolvingTo(n) ==
    LET others == Live(note) \ {n}
    IN  {note[n].path}
        \cup {<<t>> : t \in {note[n].name} \ {note[m].name : m \in others}}
        \cup AliasKeys(note[n].aliases \ UNION {note[m].aliases : m \in others})

(* With a context the sentence is appended although the link is there.     *)
LinkNotes(r, src, dst, context) ==
    LET names == NamesResolvingTo(dst)
        title == <<note[dst].name>>
    IN  /\ src # dst /\ (context \/ note[src].refs \cap names = {})
        /\ Saved(r, src, TRUE, note[src].refs \cup {IF title \in names THEN title ELSE note[dst].path},
                 note[src].aliases, {"graph"})

UnlinkNotes(r, src, dst) ==
    /\ note[src].refs \cap NamesResolvingTo(dst) # {}
    /\ Saved(r, src, TRUE, note[src].refs \ NamesResolvingTo(dst), note[src].aliases, {"graph"})

(* The schema's cascades: a note's links go with it, links to it stay as   *)
(* ghosts.                                                                 *)
Unlinked(links, notes) ==
    {IF l.target \in notes THEN [l EXCEPT !.target = None] ELSE l : l \in {k \in links : k.source \notin notes}}

Deleted(r, folders, notes) ==
    /\ Idle(r)
    /\ Write(r, View, FALSE, [f \in Folder |-> IF f \in folders THEN None ELSE folder[f]],
             [n \in Note |-> IF n \in notes THEN None ELSE note[n]],
             Unlinked(link, notes))

DeleteNote(r, n) == Deleted(r, {}, {n})
DeleteFolder(r, f) == Deleted(r, Subtree(f), {n \in Live(note) : note[n].home \in Subtree(f)})

DropViews(r) ==
    /\ req[r] # None /\ req[r].do = "drop"
    /\ cached' = [v \in View |-> IF v \in req[r].views THEN "none" ELSE cached[v]]
    /\ late' = late \ req[r].views
    /\ req' = [req EXCEPT ![r] = None]
    /\ UNCHANGED <<rows, fill, steps>>

(* ------------------------------- readers ------------------------------- *)

(* get_tree, get_graph on a miss: two queries, then the cache is set.      *)
(* Bound: one reader at a time.                                            *)
StartFill(v) ==
    /\ cached[v] = "none" /\ \A u \in View : fill[u] = "none"
    /\ fill' = [fill EXCEPT ![v] = "half"]
    /\ UNCHANGED <<rows, req, cached, late, steps>>

ReadRest(v) ==
    /\ fill[v] = "half"
    /\ fill' = [fill EXCEPT ![v] = "right"]
    /\ UNCHANGED <<rows, req, cached, late, steps>>

StoreFill(v) ==
    /\ fill[v] \in {"right", "dated", "wrong"}
    /\ cached' = [cached EXCEPT ![v] = fill[v]]
    /\ late' = IF fill[v] = "wrong" THEN late \cup {v} ELSE late \ {v}
    /\ fill' = [fill EXCEPT ![v] = "none"]
    /\ UNCHANGED <<rows, req, steps>>

(* CACHE_TREE_TTL, CACHE_GRAPH_TTL.                                        *)
Expire(v) ==
    /\ cached[v] # "none"
    /\ cached' = [cached EXCEPT ![v] = "none"]
    /\ late' = late \ {v}
    /\ UNCHANGED <<rows, req, fill, steps>>

Init ==
    /\ folder = [f \in Folder |-> None] /\ note = [n \in Note |-> None] /\ link = {}
    /\ req = [r \in Request |-> None]
    /\ cached = [v \in View |-> "none"] /\ fill = [v \in View |-> "none"] /\ late = {}
    /\ steps = 0

OnFolder(r, f) ==
    \/ \E name \in Name : RenameFolder(r, f, name)
    \/ \E home \in Live(folder) \cup {None} : MoveFolder(r, f, home)
    \/ DeleteFolder(r, f)

OnNote(r, n) ==
    \/ \E name \in Name, home \in Live(folder) \cup {None} : RenameNote(r, n, name, home)
    \/ \E text \in Text, restored \in BOOLEAN : UpdateContent(r, n, text, restored)
    \/ \E m \in Live(note) : UnlinkNotes(r, n, m) \/ \E context \in BOOLEAN : LinkNotes(r, n, m, context)
    \/ DeleteNote(r, n)

Next ==
    \/ \E r \in Request :
        \/ \E name \in Name, home \in Live(folder) \cup {None} :
            \/ \E f \in Folder : CreateFolder(r, f, name, home)
            \/ \E n \in Note, text \in Text : CreateNote(r, n, name, home, text)
        \/ \E f \in Live(folder) : OnFolder(r, f)
        \/ \E n \in Live(note) : OnNote(r, n)
        \/ CommitFolder(r) \/ CommitNote(r) \/ DropViews(r)
    \/ \E v \in View : StartFill(v) \/ ReadRest(v) \/ StoreFill(v) \/ Expire(v)

Spec == Init /\ [][Next]_vars

(* ------------------------------ properties ----------------------------- *)

(* Folders, notes and links hold what their columns may hold, and a cached *)
(* view is absent, right, dated or wrong (models/vaults, models/links).    *)
TypeOK ==
    /\ folder \in [Folder -> FolderRow \cup {None}]
    /\ note \in [Note -> NoteRow \cup {None}]
    /\ link \subseteq LinkRow
    /\ cached \in [View -> {"none", "right", "dated", "wrong"}]
    /\ fill \in [View -> {"none", "half", "right", "dated", "wrong"}]
    /\ late \subseteq View /\ steps \in Nat

(* Every path is the path of the row's folder and its name, whatever was   *)
(* renamed or moved above it and in which order (a path that disagrees is  *)
(* never put right), so that no folder is ever in itself; paths are unique *)
(* and nothing is in a folder that is gone (_recompute_subtree_paths).     *)
PathsFollow ==
    /\ \A f \in Live(folder) : folder[f].path = Path(folder[f].home, folder[f].name)
    /\ \A n \in Live(note) : note[n].path = Path(note[n].home, note[n].name)
    /\ Sound(folder, note)

(* The rows that creations, renames, moves, saves, new and dropped aliases *)
(* and deletions have left, each touching only what it thinks it must, are *)
(* those that saving every note again would write (sync_note_links).       *)
LinksAsResaved == link = UNION {Drawn(note, n, note[n].refs) : n \in Live(note)}

(* A link is never resolved to a note that does not bear its name, though  *)
(* names be shared.                                                        *)
TargetsBearTheName ==
    \A l \in link : l.target # None =>
        l.key \in Keys(note[l.target]) \cup AliasKeys(note[l.target].aliases)

(* A cached view in which folders, notes, paths or links are not those of  *)
(* the rows is about to be dropped, or was stored by a reader that a       *)
(* commit had overtaken: no operation forgets to drop a view of which it   *)
(* changes more than the times ("call after any structural change").       *)
CachesCurrent ==
    \A v \in View : cached[v] = "wrong" =>
        v \in late \/ \E r \in Request : req[r] # None /\ req[r].do = "drop" /\ v \in req[r].views

(* A cached tree is dropped by whoever edits a note in it, so that the     *)
(* explorer can sort the notes by the time they were changed (sortNotes).  *)
TimesCurrent ==
    [][cached["tree"] = "right" /\ cached'["tree"] = "dated" =>
        \E r \in Request : req'[r] # None /\ req'[r].do = "drop" /\ "tree" \in req'[r].views]_vars

(* A link written with a form that "unambiguously" means a note leads      *)
(* there ("a link/unlink can never silently act on a namesake").           *)
NamesAreTheirs ==
    \A n \in Live(note) : \A l \in link : l.key \in NamesResolvingTo(n) => l.target = n
=============================================================================
