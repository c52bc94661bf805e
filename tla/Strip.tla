------------------------------- MODULE Strip -------------------------------
(***************************************************************************)
(* One layout of the scrolling strip (src/layout/domain/scrolling.rs and   *)
(* its width.rs and pass.rs, strip.rs, constraints.rs, column_width.rs,    *)
(* preset_width.rs, edge_drag.rs and tile.rs), as operators from the       *)
(* layout before a call to the layout after it.                            *)
(*                                                                         *)
(* A layout is its columns, each a stack of windows under one width; the   *)
(* selection; the windows at full width; for each window taken out of a    *)
(* stack, by full width or by a fold key, the neighbour it goes back       *)
(* beside; and the scroll: where the strip stands, what the next pass is   *)
(* to do to it, and what is held for the passes after.  never says whether *)
(* center-focused-column is "never" (reveals_only).                        *)
(*                                                                         *)
(* Lengths are whole units, the gap between columns is none, and windows   *)
(* have no limits of their own: what is modelled of a width is what keys,  *)
(* presets and drags give it.  Row heights are left out.                   *)
(***************************************************************************)
EXTENDS Integers, Sequences, SequencesExt

CONSTANTS
    Windows, NoWindow,
    Viewport,              \* the width of the tiling area
    MinWidth, MaxWidth,    \* min-column-width, max-column-width
    DefaultWidth,          \* column_width_ratio
    Presets                \* preset_column_widths

ASSUME StripAssumption ==
    /\ NoWindow \notin Windows
    /\ {MinWidth, MaxWidth, DefaultWidth, Viewport} \subseteq Nat \ {0}
    /\ MinWidth <= DefaultWidth /\ DefaultWidth <= MaxWidth /\ MaxWidth < Viewport
    /\ Presets \in Seq(1..Viewport)

Clamp(x, low, high) == IF x < low THEN low ELSE IF x > high THEN high ELSE x

-----------------------------------------------------------------------------
(* What a layout holds.                                                    *)

(* A width of a column's own, bounded by the settings or only by the       *)
(* viewport, as an offset from the layout's ratio; Unset, the ratio's.     *)
Unset == [kind |-> "unset", offset |-> 0]
Given(kind, offset) == [kind |-> IF kind = "unbounded" THEN kind ELSE "bounded", offset |-> offset]

Lone(w) == [windows |-> <<w>>, width |-> Unset]

NoOrigin == [anchor |-> NoWindow, below |-> FALSE]

(* A column's share of the free space on its left, of how much.            *)
NoShare == <<0, 0>>

(* Where a column is held: centred by its override, else at a value.       *)
Centred   == [centred |-> TRUE,  value |-> NoShare]
Held(v)   == [centred |-> FALSE, value |-> v]
NoView    == [window |-> NoWindow, side |-> "none", view |-> Centred]
NoPlace   == [window |-> NoWindow, place |-> Centred]

Keep == [kind |-> "keep", reveal |-> "none", window |-> NoWindow, pin |-> "none", value |-> NoShare]
Pin(w, pin, value, reveal) ==
    [kind |-> "pin", reveal |-> reveal, window |-> w, pin |-> pin, value |-> value]

Unmeasured == [laid |-> FALSE, selected |-> NoWindow, share |-> NoShare, rel |-> 0, slot |-> 0, delta |-> 0]

NewStrip ==
    [columns |-> <<>>, selected |-> NoWindow, ratio |-> DefaultWidth, offset |-> 0,
     intent |-> Keep, keptView |-> NoView, keptPlace |-> NoPlace, centre |-> NoWindow,
     measured |-> Unmeasured, fullWidth |-> {},
     widthOrigins |-> [w \in Windows |-> NoOrigin], foldOrigins |-> [w \in Windows |-> NoOrigin]]

-----------------------------------------------------------------------------
(* Where a window is.                                                      *)

Holds(column, w) == Contains(column.windows, w)
OnStrip(s, w)    == \E c \in DOMAIN s.columns : Holds(s.columns[c], w)
ColumnOf(s, w)   == CHOOSE c \in DOMAIN s.columns : Holds(s.columns[c], w)
RowOf(s, w)      == LET ws == s.columns[ColumnOf(s, w)].windows IN CHOOSE r \in DOMAIN ws : ws[r] = w
Stack(s, w)      == s.columns[ColumnOf(s, w)].windows
Stacked(s, w)    == Len(Stack(s, w)) > 1
Located(s)       == s.selected # NoWindow /\ OnStrip(s, s.selected)
SelectedOrFirst(s) ==
    IF s.selected # NoWindow \/ s.columns = <<>> THEN s.selected ELSE s.columns[1].windows[1]

Kind(s, column) ==
    IF \E w \in s.fullWidth : Holds(column, w) THEN "full"
    ELSE IF column.width.kind = "unbounded" THEN "unbounded" ELSE "bounded"

(* The width a column asks for, inside its bounds (column_ratio).          *)
Bounded(kind, width) ==
    CASE kind = "full"      -> Viewport
      [] kind = "unbounded" -> Clamp(width, 1, Viewport)
      [] kind = "bounded"   -> Clamp(width, MinWidth, MaxWidth)

Width(s, column) == Bounded(Kind(s, column), Bounded("bounded", s.ratio) + column.width.offset)

(* The width a window has now, 1.0 while maximised (ratio_of).             *)
WidthNow(s, w) ==
    IF w \in s.fullWidth THEN Viewport ELSE s.ratio + s.columns[ColumnOf(s, w)].width.offset

(* Where each column ends, and starts, from the first one's start.         *)
Ends(s) ==
    LET at[c \in 0..Len(s.columns)] == IF c = 0 THEN 0 ELSE at[c - 1] + Width(s, s.columns[c]) IN at
Start(s, c) == Ends(s)[c - 1]

-----------------------------------------------------------------------------
(* Scroll requests, spent by the next pass.                                *)

Unpin(s) ==
    [s EXCEPT !.intent = IF @.kind # "pin" THEN @
                         ELSE IF @.reveal = "none" THEN Keep
                         ELSE [Keep EXCEPT !.kind = "reveal", !.reveal = s.intent.reveal],
              !.keptView = NoView, !.keptPlace = NoPlace, !.measured.share = NoShare]

Reveal(s, way) ==
    [Unpin(s) EXCEPT !.centre = NoWindow, !.intent = [Keep EXCEPT !.kind = "reveal", !.reveal = way]]

Align(s) ==
    LET u == Unpin(s) IN
    IF u.centre # NoWindow /\ u.centre = u.selected THEN [u EXCEPT !.intent = [Keep EXCEPT !.kind = "center"]]
    ELSE IF Located(u) THEN [u EXCEPT !.centre = NoWindow, !.intent = [Keep EXCEPT !.kind = "align"]]
    ELSE [u EXCEPT !.centre = NoWindow, !.offset = 0, !.intent = IF @.kind = "align" THEN @ ELSE Keep]

Show(s, never) == IF never THEN Reveal(s, "either") ELSE Align(s)

Center(s) ==
    LET u == Unpin(s) IN
    IF ~Located(u) THEN u
    ELSE IF u.centre = u.selected
    THEN [u EXCEPT !.centre = NoWindow, !.intent = [Keep EXCEPT !.kind = "align"]]
    ELSE [u EXCEPT !.centre = u.selected, !.intent = [Keep EXCEPT !.kind = "center"]]

(* The selected w's column held for the next pass: centred, or by a pin.   *)
HoldSelected(s, w, pin, at) ==
    IF at.centred
    THEN [Unpin(s) EXCEPT !.centre = w, !.intent = [Keep EXCEPT !.kind = "center"]]
    ELSE [Unpin(s) EXCEPT !.centre = NoWindow, !.intent = Pin(w, pin, at.value, "none")]

KeepPlace(s, w, place) ==
    [HoldSelected(s, w, "place", place) EXCEPT !.keptPlace = [window |-> w, place |-> place]]
ReturnToView(s, w, view) == HoldSelected(s, w, "start", view)

HoldsScrollFor(s, w) ==
    \/ s.centre = w
    \/ s.intent.kind = "pin" /\ s.intent.window = w
    \/ s.keptView.window = w
    \/ s.keptPlace.window = w

(* The place a width change keeps w's column at: the one kept for it, else *)
(* where the last pass showed it.  A set: at most one.                     *)
KeptPlaceOf(s, w) == {p \in {s.keptPlace.place} : s.keptPlace.window = w}
\* A place measured afresh at each press.
PlaceOfMeasured(s, w) ==
    IF s.measured.selected # w THEN {}
    ELSE IF s.centre = w THEN {Centred}
    ELSE {Held(share) : share \in {s.measured.share} \ {NoShare}}
PlaceOf(s, w) ==
    IF s.keptPlace.window = w THEN KeptPlaceOf(s, w)
    ELSE IF s.measured.selected # w THEN {}
    ELSE IF s.centre = w THEN {Centred}
    ELSE {Held(share) : share \in {s.measured.share} \ {NoShare}}

ViewOf(s, w) ==
    IF s.measured.selected # w THEN {} ELSE IF s.centre = w THEN {Centred} ELSE {Held(<<s.measured.rel, 1>>)}

RescrollAfterWidth(s, w, places, never) ==
    IF places = {} THEN Show(s, never) ELSE KeepPlace(s, w, CHOOSE p \in places : TRUE)

-----------------------------------------------------------------------------
(* Windows taken out of columns and put into them.                         *)

TakeOut(s, w) ==
    LET c    == ColumnOf(s, w)
        rest == RemoveAt(Stack(s, w), RowOf(s, w))
    IN  [s EXCEPT !.columns = IF rest = <<>> THEN RemoveAt(@, c) ELSE [@ EXCEPT ![c].windows = rest]]

(* The neighbour a window of a stack goes back beside.                     *)
\* The neighbour taken to be always above.
OriginOfBelow(s, w) ==
    LET r == RowOf(s, w) IN [anchor |-> Stack(s, w)[IF r > 1 THEN r - 1 ELSE r + 1], below |-> TRUE]
OriginOf(s, w) ==
    LET r == RowOf(s, w) IN
    IF r > 1 THEN [anchor |-> Stack(s, w)[r - 1], below |-> TRUE]
    ELSE [anchor |-> Stack(s, w)[r + 1], below |-> FALSE]

(* w out of its stack, into a column of its own at index at.               *)
PullOut(s, w, at) == [TakeOut(s, w) EXCEPT !.columns = InsertAt(@, at, Lone(w))]

SplitOut(s, w, side) ==
    IF Stacked(s, w) THEN PullOut(s, w, ColumnOf(s, w) + (IF side = "left" THEN 0 ELSE 1)) ELSE s

LeaveFullWidthInPlace(s, w) ==
    Unpin([s EXCEPT !.fullWidth = @ \ {w}, !.widthOrigins[w] = NoOrigin])

KeepFullWidthAlone(s, c) ==
    LET maximised == {w \in s.fullWidth : Holds(s.columns[c], w)} IN
    IF Len(s.columns[c].windows) <= 1 \/ maximised = {} THEN s
    ELSE Unpin([s EXCEPT !.fullWidth = @ \ maximised,
                         !.widthOrigins = [w \in Windows |-> IF w \in maximised THEN NoOrigin ELSE @[w]]])

(* w back beside the neighbour it was taken from, if that is still there.  *)
Restore(s, w, origin) ==
    IF ~OnStrip(s, origin.anchor) \/ ~OnStrip(s, w) THEN s
    ELSE LET out == TakeOut(s, w)
             c   == ColumnOf(out, origin.anchor)
             at  == RowOf(out, origin.anchor) + (IF origin.below THEN 1 ELSE 0)
         IN  KeepFullWidthAlone([out EXCEPT !.columns[c].windows = InsertAt(@, at, w)], c)

EnterFullWidth(s, w) ==
    [SplitOut(s, w, "left") EXCEPT
        !.fullWidth = @ \cup {w},
        !.widthOrigins[w] = IF Stacked(s, w) THEN OriginOf(s, w) ELSE @]

LeaveFullWidthRestoring(s, w) ==
    LET left == [s EXCEPT !.fullWidth = @ \ {w}, !.widthOrigins[w] = NoOrigin] IN
    IF s.widthOrigins[w] = NoOrigin THEN left ELSE Restore(left, w, s.widthOrigins[w])

SetColumnWidth(s, w, kind, width) ==
    LET c == ColumnOf(s, w) IN
    [LeaveFullWidthInPlace(s, w) EXCEPT !.columns[c].width = Given(kind, width - s.ratio)]

(* A column of w's own after the selection, selected and shown.            *)
Insert(s, w, never) ==
    LET at == IF Located(s) THEN ColumnOf(s, s.selected) + 1 ELSE IF s.columns = <<>> THEN 1 ELSE 2 IN
    Show([s EXCEPT !.columns = InsertAt(@, at, Lone(w)), !.selected = w], never)

(* w appended to a column other than its own, and selected.                *)
MoveToColumnEnd(s, w, target) ==
    LET out == TakeOut(s, w)
        t   == IF ~Stacked(s, w) /\ ColumnOf(s, w) < target THEN target - 1 ELSE target
    IN  Align([KeepFullWidthAlone([out EXCEPT !.columns[t].windows = Append(@, w)], t)
                  EXCEPT !.selected = w])

(* The window the selection falls to when w, the selection, is gone.       *)
Successor(s, w) ==
    LET c == ColumnOf(s, w)
        r == RowOf(s, w)
        columns == TakeOut(s, w).columns
    IN  IF columns = <<>> THEN NoWindow
        ELSE IF c <= Len(columns) THEN columns[c].windows[Clamp(r, 1, Len(columns[c].windows))]
        ELSE Last(columns[c - 1].windows)

\* Only the window's own origin forgotten, not those beside it.
ForgottenOwn(origins, w) == [origins EXCEPT ![w] = NoOrigin]
Forgotten(origins, w) ==
    [v \in Windows |-> IF v = w \/ origins[v].anchor = w THEN NoOrigin ELSE origins[v]]

AfterRemoval(u) ==
    IF u.columns = <<>> THEN [u EXCEPT !.offset = 0]
    ELSE [u EXCEPT !.intent = IF @.kind = "align" THEN Keep ELSE @]

RemoveWindow(s, w) ==
    IF ~OnStrip(s, w) THEN s
    ELSE AfterRemoval(Unpin([TakeOut(s, w) EXCEPT
            !.fullWidth = @ \ {w},
            !.widthOrigins = Forgotten(@, w), !.foldOrigins = Forgotten(@, w),
            !.selected = IF @ = w THEN Successor(s, w) ELSE @,
            !.centre = IF @ = w THEN NoWindow ELSE @]))

(* One window's identity taken over by another.                            *)
Renamed(origins, from, to) ==
    LET moved == [origins EXCEPT ![to] = IF origins[from] = NoOrigin THEN @ ELSE origins[from], ![from] = NoOrigin]
    IN  [v \in Windows |-> [moved[v] EXCEPT !.anchor = IF @ = from THEN to ELSE @]]

ReplaceWindow(s, from, to) ==
    LET New(w) == IF w = from THEN to ELSE w IN
    [s EXCEPT
        !.columns = [c \in DOMAIN s.columns |-> [s.columns[c] EXCEPT !.windows = ReplaceAll(@, from, to)]],
        !.selected = New(@), !.centre = New(@), !.keptView.window = New(@),
        !.keptPlace.window = New(@), !.intent.window = New(@),
        !.fullWidth = {New(w) : w \in @},
        !.widthOrigins = Renamed(@, from, to), !.foldOrigins = Renamed(@, from, to)]

-----------------------------------------------------------------------------
(* Focus.                                                                  *)

Select(s, w, never) ==
    IF ~OnStrip(s, w) \/ (s.selected = w /\ HoldsScrollFor(s, w)) THEN s
    ELSE Show([s EXCEPT !.selected = w], never)

(* The window of a column on the selection's row, or its last.             *)
Beside(s, c) == s.columns[c].windows[Clamp(RowOf(s, s.selected), 1, Len(s.columns[c].windows))]

(* The columns or rows a press to each side or end goes to: at most one.   *)
ColumnToward(s, step) ==
    LET c == ColumnOf(s, s.selected) IN
    {t \in DOMAIN s.columns : CASE step = "left"  -> t = c - 1
                                [] step = "right" -> t = c + 1
                                [] step = "first" -> t = 1 /\ t # c
                                [] step = "last"  -> t = Len(s.columns) /\ t # c}
RowToward(s, step) ==
    {r \in DOMAIN Stack(s, s.selected) : r = RowOf(s, s.selected) + (IF step = "up" THEN -1 ELSE 1)}

Along(step) == step \in {"left", "right", "first", "last"}

FocusTargets(s, step) ==
    IF ~Located(s) THEN {}
    ELSE IF Along(step) THEN {Beside(s, c) : c \in ColumnToward(s, step)}
    ELSE {Stack(s, s.selected)[r] : r \in RowToward(s, step)}

(* The windows of the columns in turn, each top to bottom, and round again. *)
WindowAfter(s, w) ==
    LET c == ColumnOf(s, w)
        r == RowOf(s, w)
    IN  IF r < Len(Stack(s, w)) THEN Stack(s, w)[r + 1] ELSE s.columns[(c % Len(s.columns)) + 1].windows[1]
WindowBefore(s, w) ==
    LET c == ColumnOf(s, w)
        r == RowOf(s, w)
    IN  IF r > 1 THEN Stack(s, w)[r - 1] ELSE Last(s.columns[IF c > 1 THEN c - 1 ELSE Len(s.columns)].windows)

(* A focus press: the move, its own scroll, and the selection made again   *)
(* by the response it gives, to the window it reached or the one it left.  *)
MoveFocus(s, step, never) ==
    LET targets == FocusTargets(s, step)
        reached == CHOOSE w \in targets : TRUE
        way     == IF step \in {"left", "first"} THEN "fromRight"
                   ELSE IF step \in {"right", "last"} THEN "fromLeft" ELSE "either"
    IN  IF targets = {} THEN LET stays == Align(s) IN Select(stays, SelectedOrFirst(s), never)
        ELSE LET moved == [s EXCEPT !.selected = reached]
             IN  Select(IF never THEN Reveal(moved, way) ELSE Align(moved), reached, never)

-----------------------------------------------------------------------------
(* Moves along the strip, folds, explodes and swaps.                       *)

SwapColumns(s, c, d) == [s EXCEPT !.columns = [@ EXCEPT ![c] = s.columns[d], ![d] = s.columns[c]]]

Moved(s, step) ==
    LET w == s.selected
        c == ColumnOf(s, w)
        end == IF step \in {"left", "first"} THEN 1 ELSE Len(s.columns)
    IN  IF ~Along(step)
        THEN {[s EXCEPT !.columns[c].windows = [@ EXCEPT ![RowOf(s, w)] = Stack(s, w)[r], ![r] = w]] : r \in RowToward(s, step)}
        ELSE IF Stacked(s, w)
        THEN {PullOut(s, w, CASE step = "left" -> c [] step = "right" -> c + 1
                              [] step = "first" -> 1 [] step = "last" -> Len(s.columns) + 1)}
        ELSE IF step \in {"left", "right"} THEN {SwapColumns(s, c, t) : t \in ColumnToward(s, step)}
        ELSE {[s EXCEPT !.columns = InsertAt(RemoveAt(@, c), end, s.columns[c])] : t \in ColumnToward(s, step)}

MoveSelection(s, step, never) ==
    IF ~Located(s) \/ Moved(s, step) = {} THEN s ELSE Show(CHOOSE t \in Moved(s, step) : TRUE, never)

(* The fold key for a side: out of the stack away from the side, or into   *)
(* the neighbour on it, to the row the window was folded out of when that  *)
(* is there.                                                               *)
FoldOut(s, w, side) ==
    [SplitOut(s, w, IF side = "left" THEN "right" ELSE "left") EXCEPT !.foldOrigins[w] = OriginOf(s, w)]

FoldIn(s, w, target) ==
    LET origin == s.foldOrigins[w]
        spent  == [s EXCEPT !.foldOrigins[w] = NoOrigin]
    IN  IF OnStrip(s, origin.anchor) /\ ColumnOf(s, origin.anchor) = target
        THEN Restore(spent, w, origin) ELSE MoveToColumnEnd(spent, w, target)

Kept(s, w, side, views) ==
    IF views = {} THEN s
    ELSE [s EXCEPT !.keptView = [window |-> w, side |-> side, view |-> CHOOSE v \in views : TRUE]]
Selecting(s, w) == [s EXCEPT !.selected = w, !.keptView = NoView]

(* Back to the view kept when the same key took it out, if it still is.    *)
FoldedIn(s, w, side, never) ==
    IF s.keptView.window = w /\ s.keptView.side = side
    THEN ReturnToView(Selecting(s, w), w, s.keptView.view) ELSE Show(Selecting(s, w), never)

ToggleFold(s, side, never) ==
    LET w      == s.selected
        target == ColumnToward(s, side)
    IN  IF ~Located(s) THEN s
        ELSE IF Stacked(s, w)
        THEN Kept(Show(Selecting(FoldOut(s, w, side), w), never), w, side, IF never THEN ViewOf(s, w) ELSE {})
        ELSE IF target = {} THEN s
        ELSE FoldedIn(FoldIn(s, w, CHOOSE t \in target : TRUE), w, side, never)

(* Windows of a stack split out of it, one after the other.                *)
SplitOutEach(s, ws, side) ==
    LET left[n \in 0..Len(ws)] == IF n = 0 THEN s ELSE SplitOut(left[n - 1], ws[n], side) IN left[Len(ws)]

Explode(s, never) ==
    LET w == s.selected
        r == RowOf(s, w)
        above == SplitOutEach(s, SubSeq(Stack(s, w), 1, r - 1), "left")
        both  == SplitOutEach(above, Reverse(SubSeq(Stack(s, w), r + 1, Len(Stack(s, w)))), "right")
    IN  IF ~Located(s) \/ ~Stacked(s, w) THEN s ELSE Show(both, never)

SwapWindows(s, a, b) ==
    LET c == ColumnOf(s, a)
        d == ColumnOf(s, b)
        swapped == [s EXCEPT !.columns[c].windows[RowOf(s, a)] = b, !.columns[d].windows[RowOf(s, b)] = a]
    IN  IF ~OnStrip(s, a) \/ ~OnStrip(s, b) THEN s
        ELSE IF c = d THEN swapped
        ELSE KeepFullWidthAlone(KeepFullWidthAlone(swapped, c), d)

-----------------------------------------------------------------------------
(* Widths.                                                                 *)

(* Full width as a mode, entered and left by one toggle.                   *)
ToggleFullWidth(s, w, never) ==
    LET entering == w \notin s.fullWidth
        places   == IF ~never THEN {} ELSE IF entering THEN PlaceOf(s, w) ELSE KeptPlaceOf(s, w)
        toggled  == IF entering THEN EnterFullWidth(s, w) ELSE LeaveFullWidthRestoring(s, w)
    IN  IF ~OnStrip(s, w) THEN s
        ELSE RescrollAfterWidth([toggled EXCEPT !.selected = w], w, places, never)

GiveWidth(s, w, kind, width, never) ==
    RescrollAfterWidth([SetColumnWidth(s, w, kind, width) EXCEPT !.selected = w], w,
                       IF never THEN PlaceOf(s, w) ELSE {}, never)

(* The preset after the width a window has, the first when none is wider.  *)
NextPreset(width) == LET i == SelectInSeq(Presets, LAMBDA p : p > width) IN Presets[IF i = 0 THEN 1 ELSE i]

CyclePreset(s, never) ==
    LET w == SelectedOrFirst(s)
        next == NextPreset(WidthNow(s, w))
    IN  IF ~OnStrip(s, w) \/ Presets = <<>> THEN s
        ELSE GiveWidth(s, w, IF next = Viewport THEN "unbounded" ELSE "bounded", next, never)

(* The resize keys: a column's width, or with no selection the layout's.   *)
ResizeBy(s, amount, never) ==
    LET w == s.selected
        now == WidthNow(s, w)
    IN  IF ~Located(s) THEN [s EXCEPT !.ratio = Bounded("bounded", @ + amount)]
        ELSE IF (amount > 0 /\ now >= MaxWidth) \/ (amount < 0 /\ now <= MinWidth) THEN s
        ELSE GiveWidth(s, w, "bounded", Bounded("bounded", now + amount), never)

(* The width a window carries to another layout: at most one.              *)
FullWidth == [kind |-> "full", offset |-> 0]
CarriedWidth(s, w) ==
    IF w \in s.fullWidth THEN {FullWidth}
    ELSE IF ~OnStrip(s, w) THEN {} ELSE {s.columns[ColumnOf(s, w)].width} \ {Unset}

SetCarriedWidth(s, w, width) ==
    IF ~OnStrip(s, w) THEN s
    ELSE IF width = FullWidth THEN EnterFullWidth(s, w)
    ELSE [s EXCEPT !.columns[ColumnOf(s, w)].width = width]

-----------------------------------------------------------------------------
(* One layout pass.                                                        *)

SelectedColumn(s) == IF Located(s) THEN ColumnOf(s, s.selected) ELSE 1

Centres(s, never) ==
    \/ s.centre # NoWindow
    \/ ~never /\ (Len(s.columns) <= 1 \/ SelectedColumn(s) \notin {1, Len(s.columns)})

(* The selected column's start on the strip and its width, where it is     *)
(* drawn but for the scroll, how far that is from the middle, and where    *)
(* the strip's last column starts and ends.                                *)
GeometryOf(s, c, width, anchor) ==
    [start |-> IF s.columns = <<>> THEN 0 ELSE Start(s, c), width |-> width,
     anchor |-> anchor, delta |-> anchor - (Viewport - width) \div 2,
     last |-> IF s.columns = <<>> THEN 0 ELSE Start(s, Len(s.columns)), end |-> Start(s, Len(s.columns) + 1)]
Anchored(s, never, c, width) ==
    GeometryOf(s, c, width, IF Centres(s, never) THEN (Viewport - width) \div 2
                            ELSE IF ~never /\ c = Len(s.columns) THEN Viewport - width ELSE 0)
Geometry(s, never) ==
    Anchored(s, never, SelectedColumn(s), IF s.columns = <<>> THEN Bounded("bounded", s.ratio)
                                          ELSE Width(s, s.columns[SelectedColumn(s)]))

PlaceShare(x, free) == IF free < 1 THEN <<1, 2>> ELSE <<Clamp(x, 0, free), free>>
PlaceX(share, free) == (free * share[1]) \div share[2]

PlaceOffset(g, share) ==
    LET atPlace == g.anchor + g.start - PlaceX(share, Viewport - g.width)
        most    == IF g.anchor + g.end > Viewport THEN g.anchor + g.end - Viewport ELSE 0
    IN  IF atPlace < most THEN atPlace ELSE most

Pins(s) == s.intent.kind = "pin" /\ s.selected = s.intent.window /\ Located(s)

(* The offset the pending intent asks for, and the reveal run after it.    *)
Spent(s, g) ==
    CASE s.intent.kind = "center" -> IF Located(s) THEN g.delta + g.start ELSE 0
      [] s.intent.kind = "align"  -> IF Located(s) THEN g.start ELSE 0
      [] s.intent.pin = "rightEdge" /\ Pins(s) -> g.anchor + g.start + g.width - s.intent.value[1]
      [] s.intent.pin = "start" /\ Pins(s) -> g.start - s.intent.value[1]
      [] s.intent.pin = "place" /\ Pins(s) -> PlaceOffset(g, s.intent.value)
      [] OTHER -> s.offset
RevealAfter(s) ==
    IF s.intent.pin = "rightEdge" /\ s.intent.reveal # "none" /\ Pins(s)
    THEN "keepingRightEdge" ELSE s.intent.reveal

\* A reveal of what is off the right only when coming from the left.
RevealOffsetOneWay(g, way, offset) ==
    LET toLeft  == g.anchor + g.start
        toRight == g.anchor + g.start + g.width - Viewport
    IN  IF way # "none" /\ toLeft < offset THEN toLeft
        ELSE IF way = "fromLeft" /\ toRight > offset THEN toRight ELSE offset
RevealOffset(g, way, offset) ==
    LET toLeft   == g.anchor + g.start
        toRight  == g.anchor + g.start + g.width - Viewport
        offLeft  == toLeft < offset
        offRight == toRight > offset
    IN  CASE way \in {"fromRight", "either"} /\ offLeft -> toLeft
          [] way \in {"fromRight", "either"} /\ ~offLeft /\ offRight -> toRight
          [] way = "fromLeft" /\ offRight -> toRight
          [] way = "fromLeft" /\ ~offRight /\ offLeft -> toLeft
          [] way = "keepingRightEdge" /\ offLeft -> toLeft
          [] OTHER -> offset

Between(offset, delta, last) == Clamp(offset, delta, last + delta)
ResolveScroll(s, g, spent) ==
    Between(IF Located(s) THEN RevealOffset(g, RevealAfter(s), spent) ELSE spent,
            IF s.centre # NoWindow THEN g.delta ELSE 0, g.last)

Settled(s, g, offset) ==
    [s EXCEPT !.offset = offset, !.intent = Keep,
              !.measured = [laid |-> TRUE, selected |-> IF Located(s) THEN s.selected ELSE NoWindow,
                            share |-> PlaceShare(g.anchor + g.start - offset, Viewport - g.width),
                            rel |-> g.start - offset, slot |-> g.width, delta |-> g.delta]]

PassIn(s, g)   == Settled(s, g, ResolveScroll(s, g, Spent(s, g)))
Pass(s, never) == PassIn(s, Geometry(s, never))

(* Where the last pass drew the selected column.                           *)
ShownX(s) == s.measured.rel + s.measured.delta + (Viewport - s.measured.slot) \div 2
InView(s) == 0 <= ShownX(s) /\ ShownX(s) + s.measured.slot <= Viewport

(* The scroll taken to the nearest column's start.                         *)
Snap(s) ==
    LET base == IF s.centre # NoWindow THEN s.measured.delta ELSE 0
        Far(c) == LET d == Start(s, c) - (s.offset - base) IN IF d < 0 THEN -d ELSE d
        near == CHOOSE c \in DOMAIN s.columns : \A d \in DOMAIN s.columns : Far(c) < Far(d) \/ (Far(c) = Far(d) /\ c <= d)
    IN  IF ~s.measured.laid \/ s.columns = <<>> THEN s
        ELSE [Unpin(s) EXCEPT !.offset = Between(Start(s, near) + base, base, Start(s, Len(s.columns)))]

-----------------------------------------------------------------------------
(* A window's report of its own frame.  edge is the side a mouse drag      *)
(* moves, "still" for a drag that moves neither, "none" for the app's own  *)
(* resize; from, where the drag found the window; height, whether the      *)
(* height is the one the last pass gave.                                   *)
ResizeWindow(s, w, edge, from, width, height, never) ==
    LET column == s.columns[ColumnOf(s, w)]
        kind   == Kind(s, column)
        full   == kind = "full"
        sided  == edge \in {"left", "right"}
        known  == edge = "none" /\ s.measured.selected = w
        held   == full \/ (kind = "unbounded" /\ Width(s, column) = Viewport)
        keptWidth  == known /\ (width = s.measured.slot \/ held)
        keptHeight == known /\ (Len(column.windows) = 1 \/ height)
        shown  == Show(s, never)
        asked  == IF edge # "none" /\ Centres(shown, never) THEN from.width + 2 * (width - from.width) ELSE width
        given  == IF sided \/ column.width.kind = "unbounded" THEN "unbounded" ELSE "bounded"
        ratio  == Bounded(given, asked)
        across == sided /\ ratio >= Viewport /\ Len(column.windows) = 1
        taken  == IF across /\ full THEN shown
                  ELSE IF across
                  THEN EnterFullWidth([shown EXCEPT !.columns[ColumnOf(s, w)].width =
                                          Given("unbounded", from.width - s.ratio)], w)
                  ELSE IF keptWidth THEN shown ELSE SetColumnWidth(shown, w, given, ratio)
    IN  IF s.selected # w \/ ~OnStrip(s, w) \/ (full /\ ~sided) \/ (keptWidth /\ keptHeight) THEN s
        ELSE IF edge = "left" /\ never
        THEN [taken EXCEPT !.intent = Pin(w, "rightEdge", <<from.x + from.width, 1>>,
                                          IF @.kind = "reveal" THEN @.reveal ELSE "none")]
        ELSE taken
=============================================================================
