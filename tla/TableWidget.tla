----------------------------- MODULE TableWidget -----------------------------
(***************************************************************************)
(* The editable tables of live preview (web/src/lib/editor/table-model.ts, *)
(* table-commands.ts, table-widget.ts): the tables of one open note in one *)
(* browser, which a person edits while peers change the same document.     *)
(*                                                                         *)
(* The document keeps a cell as trimmed markdown source; the widget of a   *)
(* table keeps, for each cell on screen, the source it last saw            *)
(* (dataset.src), the text shown and whether that text is raw.  A text is  *)
(* a sequence of glyphs.  Padding, alignment and inline markup are left    *)
(* out, and so is where in its cell the caret stands: keys append.         *)
(*                                                                         *)
(* Whoever reads a table takes a row whose every cell looks like a         *)
(* delimiter ("-", ":--") for the line under the header, wherever it       *)
(* stands, and skips it (table-model.ts isDivider): such a row is on no    *)
(* screen, a structural command drops it, and it comes back when its line  *)
(* is changed.  doc holds the rows that are read.                          *)
(***************************************************************************)
EXTENDS Naturals, Sequences, FiniteSets, SequencesExt, Picks

CONSTANTS
    Mark,        \* glyphs that are written as they are typed, each typed once
    Dash, Colon, \* two of them: "-" and ":", which a delimiter is made of
    Pipe,        \* "|", typed or pasted
    EscapedPipe, \* "\|" in the source of a cell
    Space,
    NoCell,
    Heading,     \* "New column", the text a new column is headed with
    Keys,        \* what can be typed here: a subset of Mark \cup {Pipe, Space}
    PeerKeys,    \* the marks that peers type
    Doc0,        \* the tables of the note when it is opened
    Grids,       \* the clipboards that can be pasted
    EndHeard,    \* does the widget hear compositionend of a cell that is gone?
    MaxPeer,     \* bound: changes that come from elsewhere
    MaxCommands, \* bound: structural commands and pastes
    MaxRows, MaxCols, MaxTables  \* bounds: the size of what peers insert

VARIABLES
    doc,        \* the tables of the document; row 1 of each is its header
    dom,        \* what each widget shows; a widget is known by its ordinal
    focus,      \* <<ordinal, row, column>> of the cell with focus, or NoCell
    composing,  \* the widgets that saw compositionstart and no compositionend
    ime,        \* is a composition under way in the focused cell?
    typed, peer, commands

counters == <<peer, commands>>
screen == <<dom, focus, composing, ime>>
vars == <<doc, screen, typed, counters>>

Blank == <<>>
Glyph == Mark \cup {Pipe, EscapedPipe, Space}

(* ------------------------------ table-model ---------------------------- *)

(* Mutant: the pipe is written as it was typed.                            *)
Unescaped(text) == text
Escape(text) == [i \in DOMAIN text |-> IF text[i] = Pipe THEN EscapedPipe ELSE text[i]]
Unescape(src) == [i \in DOMAIN src |-> IF src[i] = EscapedPipe THEN Pipe ELSE src[i]]

Trim(src) ==
    LET inked == {i \in DOMAIN src : src[i] # Space}
    IN  IF inked = {} THEN Blank ELSE SubSeq(src, Min(inked), Max(inked))

(* The cells that source text between two delimiters parses to: one, and   *)
(* one more for each pipe in it that is not escaped.                       *)
SplitCells(src) ==
    LET pipes == Picked([i \in DOMAIN src |-> i], {i \in DOMAIN src : src[i] = Pipe})
        ends  == <<0>> \o pipes \o <<Len(src) + 1>>
    IN  [k \in 1..Len(pipes) + 1 |-> Trim(SubSeq(src, ends[k] + 1, ends[k + 1] - 1))]

(* ":--:", with or without its colons: all that a row has to hold to be    *)
(* taken for the line under the header.                                    *)
LooksDrawn(src) ==
    /\ \E i \in DOMAIN src : src[i] = Dash
    /\ \A i \in DOMAIN src : src[i] = Dash \/ (src[i] = Colon /\ i \in {1, Len(src)})
IsDivider(row) == \A c \in DOMAIN row : LooksDrawn(row[c])

(* The rows that findTable and parseSource find.                           *)
Parsed(rows) == Picked(rows, {r \in DOMAIN rows : ~IsDivider(rows[r])})

Cols(table) == IF table = <<>> THEN 0 ELSE Len(table[1])

(* What a cell, a sheet and a table hold when all their glyphs are in G:   *)
(* trimmed source, rows of as many cells each, and no row that is skipped. *)
(* A table may have lost all of its rows.                                  *)
Text(G) == {src \in Seq(G) : Trim(src) = src}
Sheet(G) ==
    {rows \in Seq(Seq(Text(G))) : \A r \in DOMAIN rows : rows[r] # <<>> /\ Len(rows[r]) = Cols(rows)}
Table(G) == {rows \in Sheet(G) : \A r \in DOMAIN rows : ~IsDivider(rows[r])}

ASSUME TableAssumption ==
    /\ Pipe # EscapedPipe /\ Pipe # Space /\ EscapedPipe # Space /\ {Pipe, EscapedPipe, Space} \cap Mark = {}
    /\ NoCell \notin Seq(Nat)
    /\ Dash \in Mark /\ Colon \in Mark /\ Dash # Colon
    /\ Heading \in Text(Glyph \ {Pipe}) /\ ~LooksDrawn(Heading)
    /\ Keys \subseteq Mark \cup {Pipe, Space} /\ PeerKeys \subseteq Mark
    /\ Doc0 \in Seq(Table(Glyph \ {Pipe})) /\ Grids \subseteq Sheet(Glyph \ {EscapedPipe}) \ {<<>>}
    /\ {MaxPeer, MaxCommands} \subseteq Nat

(* --------------------------------- the DOM ----------------------------- *)

ToRendered(src) == [src |-> src, shown |-> Unescape(src), raw |-> FALSE]
ToRaw(cell) == IF cell.raw THEN cell ELSE [src |-> cell.src, shown |-> Unescape(cell.src), raw |-> TRUE]

SrcAt(table, r, c) == IF c <= Len(table[r]) THEN table[r][c] ELSE Blank
RebuildGrid(table) ==
    [r \in 1..Len(table) |-> [c \in 1..Cols(table) |-> ToRendered(SrcAt(table, r, c))]]

SameShape(grid, table) == Len(grid) = Len(table) /\ Cols(grid) = Cols(table)

(* Mutant: the cell with focus is never written, whoever changed it.       *)
NeverWritten(grid, table, f, isComposing) ==
    IF ~SameShape(grid, table) THEN RebuildGrid(table)
    ELSE [r \in 1..Len(table) |-> [c \in 1..Cols(table) |->
            IF <<r, c>> = f THEN grid[r][c] ELSE ToRendered(SrcAt(table, r, c))]]

(* What reconcile leaves on screen: f is the position of the focused cell  *)
(* in this widget, or NoCell.                                              *)
Reconcile(grid, table, f, isComposing) ==
    LET Echo(cell, next) == next = Escape(cell.shown)
        Focused(cell, next) ==
            IF isComposing THEN cell
            ELSE IF Echo(cell, next) THEN [cell EXCEPT !.src = next]
            ELSE [src |-> next, shown |-> Unescape(next), raw |-> cell.raw]
        Other(cell, next) == IF cell.src # next \/ cell.raw THEN ToRendered(next) ELSE cell
    IN  IF ~SameShape(grid, table) THEN RebuildGrid(table)
        ELSE [r \in 1..Len(table) |-> [c \in 1..Cols(table) |->
                IF <<r, c>> = f THEN Focused(grid[r][c], SrcAt(table, r, c))
                ELSE Other(grid[r][c], SrcAt(table, r, c))]]

FocusIn(i) == IF focus # NoCell /\ focus[1] = i THEN <<focus[2], focus[3]>> ELSE NoCell

(* The widgets after the document became docs: `kept` are the ordinals     *)
(* whose node CodeMirror still has to offer to updateDOM, `changed` the    *)
(* tables whose markdown is another one.                                   *)
Updated(screens, docs, kept, changed) ==
    [i \in 1..Len(docs) |->
        IF i \notin kept THEN RebuildGrid(docs[i])
        ELSE IF i \notin changed THEN screens[i]
        ELSE Reconcile(screens[i], docs[i], FocusIn(i), i \in composing')]

(* Mutant: a rebuilt grid is taken to keep focus.                          *)
AlwaysKept(docs, kept) == focus

(* The cell that keeps focus when the widgets are updated: a rebuilt grid  *)
(* takes it away, and breaks off the composition in it.                    *)
FocusKept(docs, kept) ==
    IF focus # NoCell /\ focus[1] \in kept /\ SameShape(dom[focus[1]], docs[focus[1]])
    THEN focus ELSE NoCell

(* focusout of one cell, focusin of another.                               *)
MoveFocus(screens, from, to) ==
    LET At(grids, at) == grids[at[1]][at[2]][at[3]]
        left == IF from = NoCell THEN screens
                ELSE [screens EXCEPT ![from[1]][from[2]][from[3]] = ToRendered(At(screens, from).src)]
    IN  IF to = NoCell THEN left
        ELSE [left EXCEPT ![to[1]][to[2]][to[3]] = ToRaw(At(left, to))]

(* ------------------------------- in a cell ----------------------------- *)

Cells(grids) ==
    UNION {UNION {{<<i, r, c>> : c \in 1..Cols(grids[i])} : r \in 1..Len(grids[i])} : i \in 1..Len(grids)}

Shown(at) == dom[at[1]][at[2]][at[3]].shown

(* A click, Tab or an arrow key at the edge of the text; NoCell: a click   *)
(* outside every cell.                                                     *)
Focus(to) ==
    /\ to # focus /\ ~ime
    /\ dom' = MoveFocus(dom, focus, to)
    /\ focus' = to
    /\ UNCHANGED <<doc, composing, ime, typed, counters>>

(* The focused cell shows `text`; commit writes it over the source at that *)
(* row and column, if the row has one and says something else.  A row that *)
(* looks like a delimiter then is gone, and focus with it.                 *)
Commit(text) ==
    LET i == focus[1]
        r == focus[2]
        c == focus[3]
        row == doc[i][r]
        written == SubSeq(row, 1, c - 1) \o SplitCells(Escape(text)) \o SubSeq(row, c + 1, Len(row))
        shown == [dom EXCEPT ![i][r][c].shown = text]
    IN  IF i \in composing' \/ c > Len(row) \/ Escape(text) = row[c]
        THEN doc' = doc /\ dom' = shown /\ focus' = focus
        ELSE /\ doc' = [doc EXCEPT ![i] = Parsed([doc[i] EXCEPT ![r] = written])]
             /\ dom' = Updated(shown, doc', DOMAIN doc, {i})
             /\ focus' = FocusKept(doc', DOMAIN doc)

Input(text) ==
    /\ focus # NoCell
    /\ UNCHANGED <<composing, ime, counters>>
    /\ Commit(text)

Type(key) ==
    /\ key \in Keys \ typed
    /\ focus # NoCell /\ Input(Append(Shown(focus), key))
    /\ typed' = typed \cup {key}

(* Outside a composition: one that ends with the very text the document    *)
(* has by then leaves dataset.src behind, as commit has nothing to write.  *)
Erase ==
    /\ focus # NoCell /\ ~ime /\ Shown(focus) # Blank /\ Input(Front(Shown(focus)))
    /\ UNCHANGED typed

CompositionStart ==
    /\ focus # NoCell /\ ~ime
    /\ composing' = composing \cup {focus[1]} /\ ime' = TRUE
    /\ UNCHANGED <<doc, dom, focus, typed, counters>>

CompositionEnd ==
    /\ ime
    /\ composing' = composing \ {focus[1]} /\ ime' = FALSE
    /\ Commit(Shown(focus))
    /\ UNCHANGED <<typed, counters>>

(* ---------------------------- table-commands --------------------------- *)

RowOps == {"insertRowAbove", "insertRowBelow", "moveRowUp", "moveRowDown", "deleteRow"}
ColumnOps == {"insertColumnLeft", "insertColumnRight", "deleteColumn"}
OtherOps == {"sort", "format"}
Ops == RowOps \cup ColumnOps \cup OtherOps

Width(rows) == Max({Len(rows[r]) : r \in DOMAIN rows})

(* render: every row is given as many cells as the longest one.            *)
Render(rows) == [r \in DOMAIN rows |-> [c \in 1..Width(rows) |-> SrcAt(rows, r, c)]]

EmptyRow(cols) == [c \in 1..cols |-> Blank]
Swap(rows, r, q) == [rows EXCEPT ![r] = rows[q], ![q] = rows[r]]
WithColumn(rows, at) ==
    [r \in DOMAIN rows |-> InsertAt(rows[r], IF at > Len(rows[r]) + 1 THEN Len(rows[r]) + 1 ELSE at,
                                    IF r = 1 THEN Heading ELSE Blank)]
WithoutColumn(rows, c) ==
    [r \in DOMAIN rows |-> IF c <= Len(rows[r]) THEN RemoveAt(rows[r], c) ELSE rows[r]]
Least(a, b) == IF a < b THEN a ELSE b

(* What a command makes of a table at row r and column c: the rows, and    *)
(* the cell it asks focus for - or nothing at all.  How a column sorts is  *)
(* left open.                                                              *)
Edit(op, rows, r, c) ==
    LET To(table, row, col) == {[rows |-> table, caret |-> <<row, col>>]}
        n == Len(rows)
        cols == Cols(rows)
    IN  CASE op = "insertRowAbove" -> LET at == IF r = 1 THEN 2 ELSE r IN To(InsertAt(rows, at, EmptyRow(cols)), at, c)
          [] op = "insertRowBelow" -> To(InsertAt(rows, r + 1, EmptyRow(cols)), r + 1, c)
          [] op = "moveRowUp" -> IF r <= 2 THEN {} ELSE To(Swap(rows, r, r - 1), r - 1, c)
          [] op = "moveRowDown" -> IF r = 1 \/ r = n THEN {} ELSE To(Swap(rows, r, r + 1), r + 1, c)
          [] op = "deleteRow" -> IF r = 1 THEN {} ELSE To(RemoveAt(rows, r), Least(r, n - 1), c)
          [] op = "insertColumnLeft" -> To(WithColumn(rows, c), r, c)
          [] op = "insertColumnRight" -> To(WithColumn(rows, c + 1), r, c + 1)
          [] op = "deleteColumn" -> IF cols <= 1 THEN {} ELSE To(WithoutColumn(rows, c), r, Least(c, cols - 1))
          [] op = "format" -> {[rows |-> rows, caret |-> NoCell]}
          [] op = "sort" -> IF n <= 2 THEN {}
                            ELSE {[rows |-> [k \in 1..n |-> IF k = 1 THEN rows[1] ELSE rows[p[k - 1] + 1]], caret |-> NoCell] :
                                      p \in SetToSeqs(1..n - 1)}

(* Mutant: focus stays at its row and column.                              *)
FocusStays(i, rows, caret) ==
    LET docs == [doc EXCEPT ![i] = Parsed(Render(rows))]
    IN  /\ doc' = docs
        /\ dom' = Updated(dom, docs, DOMAIN doc, {i})
        /\ focus' = FocusKept(docs, DOMAIN doc)

(* The table at ordinal i is replaced by `rows`, and focus goes to the     *)
(* cell of it at `caret` once the widgets are up to date, if there is one: *)
(* a row may look like a delimiter by then.                                *)
Rewrite(i, rows, caret) ==
    LET docs == [doc EXCEPT ![i] = Parsed(Render(rows))]
        updated == Updated(dom, docs, DOMAIN doc, {i})
        kept == FocusKept(docs, DOMAIN doc)
        to == IF caret = NoCell \/ caret[1] > Len(docs[i]) \/ caret[2] > Cols(docs[i])
              THEN kept ELSE <<i, caret[1], caret[2]>>
    IN  /\ doc' = docs
        /\ dom' = IF to = kept THEN updated ELSE MoveFocus(updated, kept, to)
        /\ focus' = to

(* The buttons under a table act at the row and column of the focused      *)
(* cell - whichever table that cell is in - or at the table's first cell.  *)
Anchor(i) ==
    IF focus # NoCell /\ focus[2] <= Len(doc[i]) /\ focus[3] <= Len(doc[i][focus[2]])
    THEN <<focus[2], Least(focus[3], Cols(doc[i]))>>
    ELSE <<1, 1>>

(* A table without rows is none to findTable, and nothing happens.         *)
Command(i, op, at) ==
    /\ doc[i] # <<>> /\ ~ime /\ commands < MaxCommands /\ commands' = commands + 1
    /\ UNCHANGED <<composing, ime, typed, peer>>
    /\ \E e \in Edit(op, doc[i], at[1], at[2]) : Rewrite(i, e.rows, e.caret)

RunControl(i, op) ==
    /\ op \in {"insertRowBelow", "insertColumnRight", "deleteRow", "deleteColumn", "moveRowUp", "moveRowDown"}
    /\ Command(i, op, Anchor(i))

(* The context menu: the cell that was clicked has lost focus to the menu. *)
RunMenu(at, op) ==
    /\ focus = NoCell /\ at[3] <= Len(doc[at[1]][at[2]])
    /\ Command(at[1], op, <<at[2], Least(at[3], Cols(doc[at[1]]))>>)

(* A clipboard of several cells, written from the focused cell on.         *)
PasteInto(clip) ==
    /\ focus # NoCell /\ ~ime /\ commands < MaxCommands /\ commands' = commands + 1
    /\ UNCHANGED <<composing, ime, typed, peer>>
    /\ LET i == focus[1]
           r0 == focus[2]
           c0 == focus[3]
           table == doc[i]
           Inside(r, c) == r \in r0..r0 + Len(clip) - 1 /\ c \in c0..c0 + Cols(clip) - 1
           n == Max({Len(table), r0 + Len(clip) - 1})
           cols == Max({Width(table), c0 + Cols(clip) - 1})
           Cell(r, c) == IF Inside(r, c) THEN Trim(Escape(clip[r - r0 + 1][c - c0 + 1]))
                         ELSE IF r <= Len(table) THEN SrcAt(table, r, c) ELSE Blank
       IN  Rewrite(i, [r \in 1..n |-> [c \in 1..cols |-> Cell(r, c)]], <<r0, c0>>)

(* -------------------------- changes from elsewhere --------------------- *)

Arrive(docs, kept, changed) ==
    /\ peer < MaxPeer /\ peer' = peer + 1
    /\ doc' = docs
    /\ focus' = FocusKept(docs, kept)
    /\ composing' = (composing \cap kept) \ {i \in composing : EndHeard /\ focus' = NoCell}
    /\ ime' = (ime /\ focus' # NoCell)
    /\ dom' = Updated(dom, docs, kept, changed)
    /\ UNCHANGED <<typed, commands>>

(* A peer types in a cell, or something typed is undone.                   *)
PeerCell(i, r, c) ==
    \E src \in {Append(doc[i][r][c], key) : key \in PeerKeys \ ToSet(doc[i][r][c])} \cup
               {Trim(Front(s)) : s \in {doc[i][r][c]} \ {Blank}} :
        Arrive([doc EXCEPT ![i] = Parsed([doc[i] EXCEPT ![r][c] = src])], DOMAIN doc, {i})

(* The line of a row that was skipped is changed: it is a row from then on.*)
PeerRow(i, r, key) ==
    /\ Len(doc[i]) < MaxRows /\ key \notin {Dash, Colon}
    /\ LET cols == IF doc[i] = <<>> THEN 1 ELSE Cols(doc[i])
           row == [c \in 1..cols |-> IF c = 1 THEN <<Dash, key>> ELSE <<Dash>>]
       IN  Arrive([doc EXCEPT ![i] = InsertAt(doc[i], r, row)], DOMAIN doc, {i})

PeerCommand(i, op, r, c) ==
    \E e \in Edit(op, doc[i], r, c) :
        /\ Len(e.rows) <= MaxRows /\ Width(e.rows) <= MaxCols
        /\ Arrive([doc EXCEPT ![i] = Parsed(Render(e.rows))], DOMAIN doc, {i})

(* A table appears before the i-th one, or the i-th one goes: the ordinals *)
(* of those behind it change, and CodeMirror offers the nodes it still     *)
(* has to whichever table has the ordinal now.                             *)
PeerTable(docs, i) ==
    \E kept \in SUBSET (i..Least(Len(docs), Len(doc))) :
        Arrive(docs, kept \cup 1..i - 1, i..Len(docs))

PeerInsertsTable(i) ==
    Len(doc) < MaxTables /\ PeerTable(InsertAt(doc, i, <<EmptyRow(1), EmptyRow(1)>>), i)
PeerRemovesTable(i) == Len(doc) > 1 /\ PeerTable(RemoveAt(doc, i), i)

Init ==
    /\ doc = Doc0 /\ dom = [i \in DOMAIN Doc0 |-> RebuildGrid(Doc0[i])]
    /\ focus = NoCell /\ composing = {} /\ ime = FALSE
    /\ typed = {} /\ peer = 0 /\ commands = 0

Next ==
    \/ \E at \in Cells(dom) \cup {NoCell} : Focus(at)
    \/ \E key \in Keys : Type(key)
    \/ Erase \/ CompositionStart \/ CompositionEnd
    \/ \E clip \in Grids : PasteInto(clip)
    \/ \E i \in DOMAIN doc, op \in Ops : RunControl(i, op)
    \/ \E at \in Cells(dom), op \in Ops : RunMenu(at, op)
    \/ \E i \in DOMAIN doc :
        \/ \E r \in DOMAIN doc[i] : \E c \in DOMAIN doc[i][r] :
            PeerCell(i, r, c) \/ \E op \in Ops : PeerCommand(i, op, r, c)
        \/ \E r \in 1..Len(doc[i]) + 1, key \in PeerKeys : PeerRow(i, r, key)
        \/ PeerRemovesTable(i)
    \/ \E i \in 1..Len(doc) + 1 : PeerInsertsTable(i)

Spec == Init /\ [][Next]_vars

(* ------------------------------ properties ----------------------------- *)

(* Every cell of the document holds trimmed source in which no pipe stands *)
(* unescaped - one would be a column that nobody asked for (table-model.ts)*)
(* - and every variable has its type.                                      *)
TypeOK ==
    /\ \A i \in DOMAIN doc : \A r \in DOMAIN doc[i] : \A c \in DOMAIN doc[i][r] :
          LET src == doc[i][r][c]
          IN  /\ DOMAIN src = 1..Len(src) /\ ToSet(src) \subseteq Glyph \ {Pipe} /\ Trim(src) = src
    /\ focus \in Cells(dom) \cup {NoCell}
    /\ composing \subseteq DOMAIN doc /\ ime \in BOOLEAN /\ (ime => focus # NoCell /\ focus[1] \in composing)
    /\ typed \subseteq Keys /\ peer \in 0..MaxPeer /\ commands \in 0..MaxCommands

(* What is on screen is what the document says, in every cell of every     *)
(* table and whoever changed it (reconcile: "Sync, or the DOM drifts from  *)
(* the document permanently"), and only the cell with focus shows its      *)
(* markdown.  A cell in which a composition is under way is left alone.    *)
DomAgrees ==
    /\ Len(dom) = Len(doc)
    /\ \A i \in DOMAIN doc : SameShape(dom[i], doc[i])
    /\ \A at \in Cells(dom) :
          LET cell == dom[at[1]][at[2]][at[3]]
              src == SrcAt(doc[at[1]], at[2], at[3])
          IN  /\ ~(at = focus /\ at[1] \in composing) => cell.src = src /\ cell.shown = Unescape(src)
              /\ cell.raw = (at = focus)

(* The row with focus, and the key after what the document has in the cell.*)
RowWith(key) == [doc[focus[1]][focus[2]] EXCEPT ![focus[3]] = doc[focus[1]][focus[2]][focus[3]] \o Escape(<<key>>)]

(* A key typed into a cell is added to what the document has in that cell  *)
(* at that moment, a peer's text included, and nothing else in the         *)
(* document changes (commit: "a minimal change over its own span") - but   *)
(* that the row is read no more once it looks like a delimiter.            *)
TypingIsMinimal ==
    [][\A key \in Keys \ {Space} :
        Type(key) /\ focus[1] \notin composing =>
            LET table == doc[focus[1]]
                r == focus[2]
            IN  doc' = [doc EXCEPT ![focus[1]] =
                            IF IsDivider(RowWith(key)) THEN RemoveAt(table, r)
                            ELSE [table EXCEPT ![r] = RowWith(key)]]]_vars

(* A row that is moved takes focus with it: the person is in the cell with *)
(* the same text afterwards ("put focus where the person expects it"), and *)
(* after an insertion in the new row or column, at its heading if they     *)
(* were in the header.                                                     *)
FocusFollowsRow ==
    [][\A i \in DOMAIN doc, op \in {"moveRowUp", "moveRowDown", "insertRowBelow", "insertColumnRight"} :
        RunControl(i, op) /\ focus # NoCell /\ focus[1] = i =>
            /\ focus' # NoCell /\ focus'[1] = i
            /\ LET text == doc'[i][focus'[2]][focus'[3]]
               IN  CASE op \in {"moveRowUp", "moveRowDown"} -> text = doc[i][focus[2]][focus[3]]
                     [] op = "insertRowBelow" -> text = Blank
                     [] op = "insertColumnRight" -> text = IF focus'[2] = 1 THEN Heading ELSE Blank]_vars

(* Every key that is typed shows, after the text that was there ("you type *)
(* into the table you can see, and each keystroke becomes a minimal change *)
(* over exactly that cell's span").                                        *)
KeystrokesLand ==
    [][\A key \in Keys :
        Type(key) /\ focus[1] \notin composing =>
            focus' = focus /\ dom'[focus[1]][focus[2]][focus[3]].shown = Append(Shown(focus), key)]_vars
=============================================================================
