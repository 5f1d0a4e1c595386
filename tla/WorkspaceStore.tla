--------------------------- MODULE WorkspaceStore ---------------------------
(***************************************************************************)
(* The workspace store (web/src/lib/stores/workspace-store.ts): the panes, *)
(* tabs and tab histories of every browser window of one person, and the   *)
(* one localStorage record in which all of the windows keep them, with a   *)
(* layout for each vault.  A tab is known by the id of what it shows and   *)
(* may be pinned; titles, view modes, widths and overlays are left out.    *)
(* Indices are the code's plus one, so 0 stands for its -1.                *)
(***************************************************************************)
EXTENDS Naturals, Sequences, FiniteSets, SequencesExt, Picks

CONSTANTS
    Window, Vault,
    Note,        \* whatever a tab can show
    VaultOf,     \* the vault of each note
    None,
    Legacy,      \* [vault, layout]: what a build before the layouts can have left
    Overtaken,   \* may a window change vault before a request is answered?
    MaxHistory,  \* entries of a pane's history that are kept: 50 in the code
    MaxSteps     \* bound: what the person does

ASSUME VaultsOfNotes == VaultOf \in [Note -> Vault]
ASSUME NoneIsNoNote == None \notin Note
ASSUME WorkspaceBounds == MaxHistory \in Nat \ {0} /\ MaxSteps \in Nat

VARIABLES
    url,     \* the vault each window's address names
    store,   \* each window's [vault, panes, active, collapsed]
    asked,   \* the note whose opening a window's request will bring about
    stored,  \* the record: [vault, layouts, collapsed, legacy]
    steps

vars == <<url, store, asked, stored, steps>>

Tab == [id: Note, pinned: BOOLEAN]
Fresh(n) == [id |-> n, pinned |-> FALSE]

(* -------------------------------- one pane ----------------------------- *)

EmptyPane == [tabs |-> <<>>, shown |-> None, history |-> <<>>, at |-> 0]
NewPane(tab) == [tabs |-> <<tab>>, shown |-> tab.id, history |-> <<tab>>, at |-> 1]

Ids(tabs) == {tabs[i].id : i \in DOMAIN tabs}
Find(tabs, id) == SelectInSeq(tabs, LAMBDA t : t.id = id)
Without(tabs, id) == Picked(tabs, {i \in DOMAIN tabs : tabs[i].id # id})

SortPinned(tabs) ==
    LET pinned == {i \in DOMAIN tabs : tabs[i].pinned}
    IN  Picked(tabs, pinned) \o Picked(tabs, DOMAIN tabs \ pinned)

ShownAt(p, k) ==
    LET entry == p.history[k]
        here == Find(p.tabs, p.shown)
        tabs == IF entry.id \in Ids(p.tabs) THEN p.tabs
                ELSE IF here > 0 /\ ~p.tabs[here].pinned
                THEN SortPinned(ReplaceAt(p.tabs, here, entry))
                ELSE SortPinned(Append(p.tabs, entry))
    IN  [p EXCEPT !.tabs = tabs, !.shown = entry.id, !.at = k]

(* Mutant: history keeps its cursor when tabs close.                       *)
CursorKept(p, closed, shown) ==
    LET history == Picked(p.history, {i \in DOMAIN p.history : p.history[i].id \notin closed})
    IN  [history |-> history, at |-> IF p.at > Len(history) THEN Len(history) ELSE p.at]

(* The history of a pane that showed p, once the tabs `closed` are gone    *)
(* from it and `shown` is on display.                                      *)
SyncedHistory(p, closed, shown) ==
    LET open == {i \in DOMAIN p.history : p.history[i].id \notin closed}
        Repeats(i) == LET before == {j \in open : j < i}
                      IN  before # {} /\ p.history[Max(before)].id = p.history[i].id
        kept == {i \in open : ~Repeats(i)}
        history == Picked(p.history, kept)
        cursor == Cardinality({i \in kept : i <= p.at})
        last == SelectLastInSeq(history, LAMBDA t : t.id = shown)
    IN  IF shown = None THEN [history |-> history, at |-> cursor]
        ELSE IF last > 0 THEN [history |-> history, at |-> last]
        ELSE [history |-> Append(history, p.tabs[Find(p.tabs, shown)]), at |-> Len(history) + 1]

Synced(p, tabs, closed, shown) ==
    LET h == SyncedHistory(p, closed, shown)
    IN  [tabs |-> tabs, shown |-> shown, history |-> h.history, at |-> h.at]

OpenedTabs(p, tab, replace) ==
    LET here == Find(p.tabs, p.shown)
    IN  IF tab.id \in Ids(p.tabs) THEN p.tabs
        ELSE IF replace /\ here > 0 /\ ~p.tabs[here].pinned
        THEN SortPinned(ReplaceAt(p.tabs, here, tab))
        ELSE SortPinned(Append(p.tabs, tab))

(* Mutant: forward entries stay when the pane goes somewhere new.          *)
Untruncated(p, tab, tabs) ==
    [tabs |-> tabs, shown |-> tab.id, history |-> Append(p.history, tab), at |-> p.at + 1]

(* The pane shows `tab`, one of `tabs`, and its history says so.           *)
Recorded(p, tab, tabs) ==
    LET all == Append(SubSeq(p.history, 1, p.at), tab)
        kept == SubSeq(all, IF Len(all) > MaxHistory THEN Len(all) - MaxHistory + 1 ELSE 1, Len(all))
    IN  IF p.at > 0 /\ p.history[p.at].id = tab.id
        THEN [p EXCEPT !.tabs = tabs, !.shown = tab.id]
        ELSE [tabs |-> tabs, shown |-> tab.id, history |-> kept, at |-> Len(kept)]

(* What a pane that loses the tab `id` shows: its right neighbour if it    *)
(* was on display, else its left one.                                      *)
ShownWithout(p, id) ==
    LET k == Find(p.tabs, id)
        rest == Without(p.tabs, id)
    IN  IF p.shown # id THEN p.shown
        ELSE IF k <= Len(rest) THEN rest[k].id
        ELSE IF k > 1 THEN rest[k - 1].id ELSE None

Dropped(p, id) == Synced(p, Without(p.tabs, id), {id}, ShownWithout(p, id))

(* ------------------------------- the record ---------------------------- *)

Layout(s) == [panes |-> s.panes, active |-> s.active]
Blank == [panes |-> <<EmptyPane>>, active |-> 1]

(* A layout read when a page loads: an older build may have left a tab in  *)
(* it twice, and the extra ones are dropped.                               *)
Merge(layout) ==
    LET First(tabs) == LET once == {i \in DOMAIN tabs : \A j \in 1..i - 1 : tabs[j].id # tabs[i].id}
                       IN  Picked(tabs, once)
        Clamped(p) == IF p.at > Len(p.history) THEN Len(p.history) ELSE p.at
    IN  [layout EXCEPT !.panes = [i \in DOMAIN layout.panes |->
            [layout.panes[i] EXCEPT !.tabs = First(layout.panes[i].tabs), !.at = Clamped(layout.panes[i])]]]

PinnedFirst(tabs) == \A i, j \in DOMAIN tabs : i < j /\ tabs[j].pinned => tabs[i].pinned

Pane == [tabs: Seq(Tab), shown: Note \cup {None}, history: Seq(Tab), at: Nat]

OldPane(p, v) ==
    /\ p \in Pane
    /\ \A n \in Ids(p.tabs) \cup Ids(p.history) : VaultOf[n] = v
    /\ PinnedFirst(p.tabs)
    /\ IF p.tabs = <<>> THEN p.shown = None ELSE p.shown \in Ids(p.tabs)
    /\ \A i \in 1..Len(p.history) - 1 : p.history[i].id # p.history[i + 1].id

OldLayout(l, v) ==
    /\ l \in [panes: Seq(Pane), active: Nat]
    /\ Len(l.panes) \in 1..2 /\ l.active \in 1..Len(l.panes)
    /\ Len(l.panes) = 2 => l.panes[2].tabs # <<>>
    /\ \A i \in 1..Len(l.panes) : OldPane(l.panes[i], v)

(* What an older build left is in order but for tabs that it has twice and *)
(* a cursor past the end of its history.                                   *)
ASSUME LegacyIsOld == \A old \in Legacy : old.vault \in Vault /\ OldLayout(old.layout, old.vault)

StoredLayout(v) == IF stored.layouts[v] = None THEN Blank ELSE stored.layouts[v]

(* Panes from before there were layouts are adopted by the vault that was  *)
(* active then, until somebody writes the record.                          *)
GetItem(v) ==
    Merge(IF stored.legacy # None /\ v = stored.vault THEN stored.legacy ELSE StoredLayout(v))

(* Mutant: only the panes in memory are written.                           *)
OthersLost(s) ==
    [vault |-> s.vault, collapsed |-> s.collapsed, legacy |-> None,
     layouts |-> [v \in Vault |-> IF v = s.vault THEN Layout(s) ELSE None]]

(* What one window writes, whatever it changed: its panes under the vault  *)
(* they belong to, the other layouts as it finds them, and all of the rest *)
(* of the record as it has it in memory.                                   *)
SetItem(s) ==
    [vault |-> s.vault, collapsed |-> s.collapsed, legacy |-> None,
     layouts |-> IF s.vault = None THEN stored.layouts
                 ELSE [stored.layouts EXCEPT ![s.vault] = Layout(s)]]

Keep(w, s) == store' = [store EXCEPT ![w] = s] /\ stored' = SetItem(s)

(* ------------------------------ the windows ---------------------------- *)

(* A page of vault v loads or reloads in the window.                       *)
Load(w, v) ==
    /\ steps < MaxSteps /\ steps' = steps + 1
    /\ url' = [url EXCEPT ![w] = v]
    /\ asked' = [asked EXCEPT ![w] = None]
    /\ store' = LET l == GetItem(v)
                IN  [store EXCEPT ![w] = [vault |-> v, panes |-> l.panes, active |-> l.active,
                                          collapsed |-> stored.collapsed]]
    /\ UNCHANGED stored

(* The address changes without a load; the page's effect follows.          *)
MoveTo(w, v) ==
    /\ url[w] # None /\ url[w] # v
    /\ Overtaken \/ asked[w] = None
    /\ steps < MaxSteps /\ steps' = steps + 1
    /\ url' = [url EXCEPT ![w] = v]
    /\ UNCHANGED <<store, asked, stored>>

SetActiveVault(w) ==
    /\ url[w] # store[w].vault
    /\ LET l == StoredLayout(url[w])
       IN  Keep(w, [store[w] EXCEPT !.vault = url[w], !.panes = l.panes, !.active = l.active])
    /\ UNCHANGED <<url, asked, steps>>

(* Any other field of the store is set: a sidebar, a width, an overlay.    *)
Touch(w) ==
    /\ url[w] # None
    /\ Keep(w, store[w])
    /\ UNCHANGED <<url, asked, steps>>

(* The person does something in a window whose workspace is on screen.     *)
Do(w) ==
    /\ url[w] # None /\ url[w] = store[w].vault
    /\ steps < MaxSteps /\ steps' = steps + 1
    /\ UNCHANGED <<url, asked>>

Panes(w) == store[w].panes
Active(w) == store[w].active
KeepPanes(w, panes, active) == Keep(w, [store[w] EXCEPT !.panes = panes, !.active = active])
KeepPane(w, i, p) == KeepPanes(w, [Panes(w) EXCEPT ![i] = p], Active(w))

(* A second pane that runs out of tabs goes.                               *)
Standing(panes) == IF Len(panes) = 2 /\ panes[2].tabs = <<>> THEN <<panes[1]>> ELSE panes

Opened(w, tab, replace) ==
    LET p == Panes(w)[Active(w)]
    IN  KeepPane(w, Active(w), Recorded(p, tab, OpenedTabs(p, tab, replace)))

OpenTab(w, n, replace) == Do(w) /\ Opened(w, Fresh(n), replace)

(* A note is created or looked up first: the store is told when the answer *)
(* arrives, in whichever vault the window is by then.                      *)
Ask(w, n) ==
    /\ url[w] # None /\ url[w] = store[w].vault /\ asked[w] = None
    /\ steps < MaxSteps /\ steps' = steps + 1
    /\ asked' = [asked EXCEPT ![w] = n]
    /\ UNCHANGED <<url, store, stored>>

Answer(w) ==
    /\ asked[w] # None
    /\ asked' = [asked EXCEPT ![w] = None]
    /\ Opened(w, Fresh(asked[w]), FALSE)
    /\ UNCHANGED <<url, steps>>

OpenTabBackground(w, n) ==
    /\ Do(w)
    /\ LET p == Panes(w)[Active(w)]
       IN  KeepPane(w, Active(w), [p EXCEPT !.tabs = OpenedTabs(p, Fresh(n), FALSE),
                                            !.shown = IF p.shown = None THEN n ELSE p.shown])

(* In pane i, or in every pane (0): the note is gone, or is not found.     *)
CloseTab(w, id, i) ==
    LET Stays(p) == id \notin Ids(p.tabs) \/ p.tabs[Find(p.tabs, id)].pinned
        panes == Standing([j \in DOMAIN Panes(w) |->
                     IF i \notin {0, j} \/ Stays(Panes(w)[j]) THEN Panes(w)[j] ELSE Dropped(Panes(w)[j], id)])
    IN  Do(w) /\ KeepPanes(w, panes, IF Active(w) > Len(panes) THEN Len(panes) ELSE Active(w))

CloseOtherTabs(w) ==
    /\ Do(w)
    /\ LET p == Panes(w)[Active(w)]
           rest == Picked(p.tabs, {k \in DOMAIN p.tabs : p.tabs[k].pinned \/ p.tabs[k].id = p.shown})
       IN  KeepPane(w, Active(w), Synced(p, rest, Ids(p.tabs) \ Ids(rest), p.shown))

(* A click on a tab, and what the keys that go to a tab come down to.      *)
SetActiveTab(w, id, i) ==
    /\ Do(w)
    /\ LET p == Panes(w)[i]
       IN  /\ id \in Ids(p.tabs)
           /\ KeepPanes(w, [Panes(w) EXCEPT ![i] = Recorded(p, p.tabs[Find(p.tabs, id)], p.tabs)], i)

GoToRelativeTab(w, dir) ==
    LET p == Panes(w)[Active(w)]
        here == Find(p.tabs, p.shown)
        n == Len(p.tabs)
    IN  n > 0 /\ SetActiveTab(w, p.tabs[(((IF here = 0 THEN 0 ELSE here - 1) + dir + n) % n) + 1].id, Active(w))

SetActivePane(w, i) == Do(w) /\ KeepPanes(w, Panes(w), i)

SplitRight(w) ==
    /\ Do(w) /\ Len(Panes(w)) = 1
    /\ LET p == Panes(w)[1]
       IN  p.shown # None /\ KeepPanes(w, <<p, NewPane(p.tabs[Find(p.tabs, p.shown)])>>, 2)

OpenNoteBeside(w, n, from) ==
    /\ Do(w)
    /\ LET beside == IF from = 1 THEN 2 ELSE 1
           p == Panes(w)[beside]
       IN  IF Len(Panes(w)) = 1 THEN KeepPanes(w, <<Panes(w)[1], NewPane(Fresh(n))>>, 2)
           ELSE KeepPanes(w, [Panes(w) EXCEPT ![beside] = Recorded(p, Fresh(n), OpenedTabs(p, Fresh(n), FALSE))], beside)

ClosePane(w, i) ==
    Do(w) /\ Len(Panes(w)) = 2 /\ KeepPanes(w, <<Panes(w)[3 - i]>>, 1)

TogglePin(w, id, i) ==
    /\ Do(w)
    /\ LET p == Panes(w)[i]
           tabs == [k \in DOMAIN p.tabs |->
                       IF p.tabs[k].id = id THEN [p.tabs[k] EXCEPT !.pinned = ~@] ELSE p.tabs[k]]
       IN  id \in Ids(p.tabs) /\ KeepPane(w, i, [p EXCEPT !.tabs = SortPinned(tabs)])

NavigateBack(w, i) == Do(w) /\ Panes(w)[i].at > 1 /\ KeepPane(w, i, ShownAt(Panes(w)[i], Panes(w)[i].at - 1))
NavigateForward(w, i) ==
    Do(w) /\ Panes(w)[i].at < Len(Panes(w)[i].history) /\ KeepPane(w, i, ShownAt(Panes(w)[i], Panes(w)[i].at + 1))

Placed(tabs, tab, k) ==
    SortPinned(InsertAt(tabs, IF k > Len(tabs) + 1 THEN Len(tabs) + 1 ELSE k, tab))

ReorderTab(w, id, i, k) ==
    /\ Do(w)
    /\ LET p == Panes(w)[i]
       IN  id \in Ids(p.tabs) /\ KeepPane(w, i, [p EXCEPT !.tabs = Placed(Without(p.tabs, id), p.tabs[Find(p.tabs, id)], k)])

(* Mutant: the tab is put into the pane though it may be open there.       *)
MovedTwice(w, id, from, k) ==
    LET src == Panes(w)[from]
        dst == Panes(w)[3 - from]
        tab == src.tabs[Find(src.tabs, id)]
        panes == Standing([i \in 1..2 |-> IF i = from THEN Dropped(src, id) ELSE Recorded(dst, tab, Placed(dst.tabs, tab, k))])
    IN  Do(w) /\ Len(Panes(w)) = 2 /\ id \in Ids(src.tabs) /\ KeepPanes(w, panes, 1)

(* A tab is dropped on the strip or the middle of the other pane, or on an *)
(* edge of either when there are two; focus goes to the first pane that    *)
(* has it.                                                                 *)
MoveTabToPane(w, id, from, k) ==
    /\ Do(w) /\ Len(Panes(w)) = 2
    /\ LET src == Panes(w)[from]
           dst == Panes(w)[3 - from]
           tab == src.tabs[Find(src.tabs, id)]
           moved == Recorded(dst, tab, Placed(Without(dst.tabs, id), tab, k))
           panes == Standing([i \in 1..2 |-> IF i = from THEN Dropped(src, id) ELSE moved])
       IN  id \in Ids(src.tabs) /\ KeepPanes(w, panes, IF id \in Ids(panes[1].tabs) THEN 1 ELSE 2)

(* Dropped on an edge of the only pane: the pane it leaves keeps its       *)
(* history as it is.                                                       *)
SplitWithTab(w, id, before) ==
    /\ Do(w) /\ Len(Panes(w)) = 1
    /\ LET src == Panes(w)[1]
           old == [src EXCEPT !.tabs = Without(src.tabs, id), !.shown = ShownWithout(src, id)]
           new == NewPane(src.tabs[Find(src.tabs, id)])
       IN  /\ id \in Ids(src.tabs) /\ Len(src.tabs) > 1
           /\ IF before THEN KeepPanes(w, <<new, old>>, 1) ELSE KeepPanes(w, <<old, new>>, 2)

(* Folders of the vault are collapsed, or none is any more.                *)
SetExplorerCollapsed(w) ==
    /\ Do(w)
    /\ LET v == {store[w].vault}
           had == store[w].collapsed
       IN  Keep(w, [store[w] EXCEPT !.collapsed = IF v \subseteq had THEN had \ v ELSE had \cup v])

Init ==
    /\ url = [w \in Window |-> None]
    /\ store = [w \in Window |-> [vault |-> None, panes |-> <<EmptyPane>>, active |-> 1, collapsed |-> {}]]
    /\ asked = [w \in Window |-> None]
    /\ \E old \in Legacy \cup {[vault |-> None, layout |-> None]} :
          stored = [vault |-> old.vault, collapsed |-> {}, layouts |-> [v \in Vault |-> None],
                    legacy |-> old.layout]
    /\ steps = 0

InPane(w, i) ==
    \/ SetActivePane(w, i) \/ ClosePane(w, i) \/ NavigateBack(w, i) \/ NavigateForward(w, i)
    \/ \E id \in Ids(Panes(w)[i].tabs) :
        \/ CloseTab(w, id, i) \/ SetActiveTab(w, id, i) \/ TogglePin(w, id, i)
        \/ \E k \in 1..Len(Panes(w)[i].tabs) : ReorderTab(w, id, i, k)
        \/ Len(Panes(w)) = 2 /\ \E k \in 1..Len(Panes(w)[3 - i].tabs) + 1 : MoveTabToPane(w, id, i, k)

InWindow(w) ==
    \/ \E v \in Vault : Load(w, v) \/ MoveTo(w, v)
    \/ SetActiveVault(w) \/ Touch(w) \/ Answer(w)
    \/ CloseOtherTabs(w) \/ SplitRight(w) \/ SetExplorerCollapsed(w)
    \/ GoToRelativeTab(w, 1)
    \/ \E n \in Note :
        /\ VaultOf[n] = store[w].vault
        /\ \/ \E replace \in BOOLEAN : OpenTab(w, n, replace)
           \/ Ask(w, n) \/ OpenTabBackground(w, n) \/ CloseTab(w, n, 0)
           \/ \E before \in BOOLEAN : SplitWithTab(w, n, before)
           \/ \E i \in DOMAIN Panes(w) : OpenNoteBeside(w, n, i)
    \/ \E i \in DOMAIN Panes(w) : InPane(w, i)

Next == \E w \in Window : InWindow(w)

Spec == Init /\ [][Next]_vars

(* ------------------------------ properties ----------------------------- *)

OnCursor(p) == p.shown = None \/ (p.at > 0 /\ p.history[p.at].id = p.shown)

(* No pane of a window ever holds a tab twice (a render crash: merge,      *)
(* moveTabToPane), or a tab of another vault, pinned tabs come first, a    *)
(* pane with tabs shows one of them, the second pane is never empty - and  *)
(* every variable has its type.                                            *)
TypeOK ==
    /\ url \in [Window -> Vault \cup {None}] /\ asked \in [Window -> Note \cup {None}]
    /\ stored.vault \in Vault \cup {None} /\ stored.collapsed \subseteq Vault
    /\ steps \in 0..MaxSteps
    /\ \A w \in Window :
        /\ store[w].vault \in Vault \cup {None} /\ store[w].collapsed \subseteq Vault
        /\ Len(Panes(w)) \in 1..2 /\ Active(w) \in DOMAIN Panes(w)
        /\ Len(Panes(w)) = 2 => Panes(w)[2].tabs # <<>>
        /\ \A i \in DOMAIN Panes(w) :
            LET p == Panes(w)[i] IN
            /\ ToSet(p.tabs) \cup ToSet(p.history) \subseteq Tab
            /\ \A n \in Ids(p.tabs) \cup Ids(p.history) : VaultOf[n] = store[w].vault
            /\ Cardinality(Ids(p.tabs)) = Len(p.tabs) /\ SortPinned(p.tabs) = p.tabs
            /\ IF p.tabs = <<>> THEN p.shown = None ELSE p.shown \in Ids(p.tabs)
            /\ p.at \in 0..Len(p.history)

(* The cursor of a pane's history is kept on the tab that is showing       *)
(* (syncedHistory), by everything but two drags and ⌘Enter: a tab that     *)
(* splits its pane leaves that pane's history alone, and the first tab of  *)
(* an empty pane that is opened in the background is not recorded.  (A     *)
(* layout that is read again comes back as it was left.)                   *)
CursorFollows ==
    [][\A w \in Window :
        LET Strays == \/ \E id \in Note, before \in BOOLEAN : SplitWithTab(w, id, before)
                      \/ Panes(w)[Active(w)].shown = None /\ \E n \in Note : OpenTabBackground(w, n)
            Again == \E v \in Vault : Load(w, v)
        IN  (\A i \in DOMAIN Panes(w) : OnCursor(Panes(w)[i])) /\ store'[w].vault = store[w].vault
                => Strays \/ Again \/ \A i \in DOMAIN store'[w].panes : OnCursor(store'[w].panes[i])]_vars

(* In a pane whose cursor is on the tab that shows, Back shows another     *)
(* one, and Forward then brings back the tab, with no tab lost on the way  *)
(* (historyStep: "an entry whose tab is no longer open is re-opened in     *)
(* place").                                                                *)
BackAndForth ==
    \A w \in Window : \A i \in DOMAIN Panes(w) :
        LET p == Panes(w)[i]
            back == ShownAt(p, p.at - 1)
            forth == ShownAt(back, p.at)
        IN  p.shown # None /\ OnCursor(p) /\ p.at > 1 =>
                back.shown # p.shown /\ forth.shown = p.shown /\ Ids(p.tabs) \subseteq Ids(forth.tabs)

(* Whatever a window writes, and whenever, no vault but its own has its    *)
(* layout changed, and its own becomes what it shows ("every write RE-READS *)
(* the record and replaces only this tab's own vault").                    *)
VaultsApart ==
    [][\A v \in Vault : stored'.layouts[v] # stored.layouts[v] =>
        \E w \in Window : store'[w].vault = v /\ stored'.layouts[v] = Layout(store'[w])]_vars
=============================================================================
