----------------------------- MODULE Workspaces -----------------------------
(***************************************************************************)
(* The layout engine over one display's workspaces                         *)
(* (src/workspaces/engine.rs and its commands, moves.rs, navigation.rs,    *)
(* discovery.rs and affinity.rs): a strip for each workspace (Strip), the  *)
(* workspace on screen, which workspace each window is on, the floating    *)
(* layer, the focus, and the width each window last had on the display.    *)
(*                                                                         *)
(* Presses, clicks, drags, the windows' own resizes and zooms, windows     *)
(* opening, closing and changing identity come in any order, with the      *)
(* focus reports they set off before or after the next.  The layout pass   *)
(* each of them asks for runs with it, but while the mouse holds a window, *)
(* when none runs: what is pressed then is laid out when it is let go.     *)
(*                                                                         *)
(* Bounds: one display; window ids are not used again; the window a drag   *)
(* takes hold of is the focused one.  Left out: the window under the       *)
(* pointer, floating windows' frames and maximising them, launch memory    *)
(* and the cross commands.  A listing finds one window at a time, on the   *)
(* workspace on screen.                                                    *)
(***************************************************************************)
EXTENDS Strip

CONSTANTS
    Spaces,                \* the workspaces of the display
    Unopened, Gone,        \* where a window is before and after it is open
    Scenarios,             \* the presses, mouse acts and starting strips taken together
    NoDrag, NoRun          \* nothing dragged; no run of presses

ASSUME WorkspacesAssumption ==
    /\ Spaces # {} /\ Spaces \cap {Unopened, Gone} = {} /\ Unopened # Gone
    /\ \A sc \in Scenarios :
          /\ sc.never \in BOOLEAN /\ sc.budget \in Nat
          /\ sc.columns \in Seq(Seq(Windows) \ {<<>>})
          /\ \A c, d \in DOMAIN sc.columns : \A i \in DOMAIN sc.columns[c], j \in DOMAIN sc.columns[d] :
                sc.columns[c][i] = sc.columns[d][j] => c = d /\ i = j
          /\ \A act \in sc.acts :
                Len(act) = 2 /\ act[1] \in {"grow", "shrink", "appResize", "dragTo"} => act[2] \in Nat

VARIABLES
    scene,                 \* the scenario taken
    budget,                \* its acts still to come
    strips,                \* each workspace's layout
    active,                \* the workspace on screen
    home,                  \* each window's workspace
    floating,              \* the windows of the floating layer
    focused,               \* the engine's focused_window
    lastFocus,             \* the window each workspace was last on
    lastFloat,             \* last_floating_focus
    memory,                \* the width each window last had on the display
    asked,                 \* the window the last response asks focus for
    drag,                  \* the border being dragged, and the frame it found
    run,                   \* presses on one window, and what they began from
    shows                  \* whether the last act owes the selection a view

focusVars  == <<focused, lastFocus, asked>>
windowVars == <<home, floating, lastFloat>>
vars == <<scene, budget, strips, active, home, floating, focused, lastFocus, lastFloat, memory, asked, drag, run, shows>>

-----------------------------------------------------------------------------
strip   == strips[active]
never   == scene.never
Open    == {w \in Windows : home[w] \in Spaces}
On(ws)  == {w \in Windows : home[w] = ws}
Holding == drag # NoDrag
OrNone(S) == IF S = {} THEN {NoWindow} ELSE S

(* memory with a window's width on a strip: forgotten when it has none of  *)
(* its own (remember_column_width).                                        *)
Remembered(s, w) ==
    [memory EXCEPT ![w] = IF CarriedWidth(s, w) = {} THEN Unset ELSE CHOOSE c \in CarriedWidth(s, w) : TRUE]
WithWidth(s, w, width) == IF width = Unset THEN s ELSE SetCarriedWidth(s, w, width)

(* The rows of each column and its width.                                  *)
Rows(s)    == [c \in DOMAIN s.columns |-> s.columns[c].windows]
Columns(s) == [c \in DOMAIN s.columns |-> <<s.columns[c].windows, Width(s, s.columns[c])>>]

(* No desktop shows past the strip's last column, but what a strip shorter *)
(* than the viewport leaves.                                               *)
Filled ==
    LET g == Geometry(strip, never) IN strip.offset <= Clamp(g.anchor + g.end - Viewport, 0, g.end)

(* A press on w in the run of presses it belongs to, or the first of one:  *)
(* a run is of one fold key, or of any of the keys that give a width.      *)
Pressed(w, key) ==
    IF /\ run # NoRun /\ run.window = w /\ run.space = active
       /\ run.keys[1] = key \/ {run.keys[1], key} \cap {"left", "right"} = {}
    THEN [run EXCEPT !.keys = Append(@, key)]
    ELSE [window |-> w, space |-> active, keys |-> <<key>>, rows |-> Rows(strip), columns |-> Columns(strip),
          stacked |-> Stacked(strip, w), full |-> w \in strip.fullWidth,
          shown |-> IF /\ ~Holding /\ Filled /\ shows /\ w = strip.selected /\ InView(strip)
                       /\ key \in {"left", "right"} => Stacked(strip, w)
                    THEN {ShownX(strip)} ELSE {}]

(* A run after the focus went to w, or was pressed for (NoWindow): its     *)
(* rows still come back, its view not.                                     *)
Visited(w) == run' = IF run = NoRun \/ run.window = w THEN run ELSE [run EXCEPT !.shown = {}]

Acts(act) == budget > 0 /\ act \in scene.acts /\ budget' = budget - 1 /\ scene' = scene

(* The strip on screen as it is left, with the pass that follows: always,  *)
(* or unless a window is held (passes_to_run).                             *)
LaysOut(s)      == strips' = [strips EXCEPT ![active] = Pass(s, never)]
LaysOutFreed(s) == IF Holding THEN strips' = [strips EXCEPT ![active] = s] ELSE LaysOut(s)
Owed(s)         == shows' = (shows \/ s # strip)

-----------------------------------------------------------------------------
(* Focus reports.                                                          *)

(* on_window_focused                                                       *)
Focuses(w) ==
    /\ focused' = w
    /\ Visited(w)
    /\ IF w \in floating
       THEN lastFloat' = w /\ UNCHANGED <<strips, lastFocus, shows>>
       ELSE /\ OnStrip(strip, w)
            /\ lastFocus' = [lastFocus EXCEPT ![active] = w]
            /\ LaysOut(Select(strip, w, never)) /\ Owed(Select(strip, w, never))
            /\ UNCHANGED lastFloat

(* The window rini asked the focus for reports it.                         *)
FocusReported ==
    /\ asked # NoWindow
    /\ Focuses(asked)
    /\ UNCHANGED <<scene, budget, active, home, floating, memory, asked, drag>>

Clicked(w) ==
    /\ Acts(<<"click", w>>)
    /\ w \in Open /\ ~Holding
    /\ Focuses(w)
    /\ asked' = w
    /\ UNCHANGED <<active, home, floating, memory, drag>>

-----------------------------------------------------------------------------
(* Focus commands.                                                         *)

(* apply_focus_response                                                    *)
Respond(s, w) ==
    LET t == IF w \in floating THEN s ELSE Select(s, w, never) IN
    /\ Visited(NoWindow)
    /\ LaysOutFreed(t) /\ Owed(t)
    /\ asked' = IF Holding \/ w = NoWindow THEN asked ELSE w
    /\ focused' = IF w = NoWindow THEN focused ELSE w
    /\ lastFocus' = IF w = NoWindow \/ w \in floating THEN lastFocus ELSE [lastFocus EXCEPT ![active] = w]
    /\ lastFloat' = IF w \in floating THEN w ELSE lastFloat

(* A focus press: off a floating window a step goes back to the strip's    *)
(* own selection, any other press along the strip.                         *)
MoveFocusPressed(step) ==
    /\ Acts(<<"focus", step>>)
    /\ LET escapes == focused \in floating /\ step \notin {"first", "last"}
           targets == IF escapes THEN {} ELSE FocusTargets(strip, step)
           moved   == IF escapes THEN strip ELSE MoveFocus(strip, step, never)
       IN  \E w \in IF targets = {} THEN {SelectedOrFirst(strip)} ELSE targets : Respond(moved, w)
    /\ UNCHANGED <<active, home, floating, memory, drag>>

(* The window a cycle goes to: the next of the strip's columns, top to     *)
(* bottom, round its ends; of the floating layer, in no order of its own,  *)
(* any other.                                                              *)
CycleTargets(way) ==
    LET afloat == floating \cap On(active) IN
    IF focused \in afloat /\ afloat # {focused} THEN afloat \ {focused}
    ELSE IF focused \in floating THEN OrNone(afloat)
    ELSE IF OnStrip(strip, focused)
    THEN {IF way = "forward" THEN WindowAfter(strip, focused) ELSE WindowBefore(strip, focused)}
    ELSE {SelectedOrFirst(strip)}

FocusCycled(way) ==
    /\ Acts(<<"cycleFocus", way>>)
    /\ \E w \in CycleTargets(way) : Respond(strip, w)
    /\ UNCHANGED <<active, home, floating, memory, drag>>

ToggleFocusFloating ==
    LET onStrip == IF strip.selected # NoWindow \/ strip.columns = <<>> THEN {strip.selected}
                   ELSE {Last(Last(strip.columns).windows)}
        afloat  == IF lastFloat # NoWindow THEN {lastFloat} ELSE floating \cap On(active)
    IN  /\ Acts(<<"toggleFocusFloating">>)
        /\ \E w \in OrNone(IF focused \in floating THEN onStrip ELSE afloat) : Respond(strip, w)
        /\ UNCHANGED <<active, home, floating, memory, drag>>

-----------------------------------------------------------------------------
(* Commands on the strip.                                                  *)

(* What keeps a view to go back to, or goes back to it, owes no more than  *)
(* that view showed.                                                       *)
OnStripOnly(act, s) ==
    /\ Acts(act)
    /\ LaysOutFreed(s)
    /\ shows' = /\ act # <<"snap">>
                /\ shows \/ (s # strip /\ {s.keptView, strip.keptView} = {NoView})
    /\ UNCHANGED <<active, memory, drag, windowVars, focusVars>>

MoveNodePressed(step) ==
    /\ OnStripOnly(<<"move", step>>, MoveSelection(strip, step, never))
    /\ run' = NoRun
FoldPressed(side) ==
    /\ OnStripOnly(<<"fold", side>>, ToggleFold(strip, side, never))
    /\ run' = IF Located(strip) /\ (Stacked(strip, strip.selected) \/ ColumnToward(strip, side) # {})
              THEN Pressed(strip.selected, side) ELSE run
ExplodePressed ==
    /\ OnStripOnly(<<"explode">>, Explode(strip, never))
    /\ run' = NoRun
CenterPressed ==
    /\ OnStripOnly(<<"center">>, Center(strip))
    /\ run' = NoRun
SnapPressed ==
    /\ OnStripOnly(<<"snap">>, Snap(strip))
    /\ run' = NoRun

(* Width commands, which remember the width they give.                     *)
GivesWidth(key, w, s) ==
    /\ Owed(s)
    /\ memory' = IF w \in Windows THEN Remembered(s, w) ELSE memory
    /\ run' = IF w \in Windows THEN Pressed(w, key) ELSE NoRun
    /\ UNCHANGED <<active, windowVars, focusVars>>

WidthPressed(act, w, s) ==
    /\ Acts(act)
    /\ GivesWidth(act[1], w, s)
    /\ LaysOutFreed(s)
    /\ UNCHANGED drag

FullWidthPressed ==
    /\ focused \notin floating /\ OnStrip(strip, strip.selected)
    /\ WidthPressed(<<"full">>, strip.selected, ToggleFullWidth(strip, strip.selected, never))
CyclePressed ==
    /\ SelectedOrFirst(strip) # NoWindow
    /\ WidthPressed(<<"cycle">>, SelectedOrFirst(strip), CyclePreset(strip, never))
ResizePressed(way, amount) ==
    /\ focused \notin floating
    /\ WidthPressed(<<way, amount>>, strip.selected,
                    ResizeBy(strip, IF way = "grow" THEN amount ELSE -amount, never))

(* A window's title bar double clicked, which lets go of it.               *)
Zoomed(w) ==
    /\ Acts(<<"zoom", w>>)
    /\ OnStrip(strip, w)
    /\ GivesWidth("full", w, ToggleFullWidth(strip, w, never))
    /\ LaysOut(ToggleFullWidth(strip, w, never))
    /\ drag' = IF Holding /\ drag.window = w THEN NoDrag ELSE drag

-----------------------------------------------------------------------------
(* The floating layer and the other workspaces.                            *)

PassedOver(ss, ws) == IF Holding THEN ss ELSE [ss EXCEPT ![ws] = Pass(@, never)]
RemovedEverywhere(w) == [ws \in Spaces |-> RemoveWindow(strips[ws], w)]

ToggleWindowFloating ==
    LET w  == focused
        ss == IF w \in floating THEN [strips EXCEPT ![home[w]] = Insert(@, w, never)] ELSE RemovedEverywhere(w)
    IN  /\ Acts(<<"float">>)
        /\ w # NoWindow
        /\ strips' = PassedOver(ss, active)
        /\ floating' = IF w \in floating THEN floating \ {w} ELSE floating \cup {w}
        /\ lastFloat' = IF w \in floating THEN NoWindow ELSE w
        /\ run' = NoRun /\ shows' = (w \in floating /\ home[w] = active)
        /\ UNCHANGED <<active, home, memory, drag, focusVars>>

(* The windows a workspace may give focus to when it is shown (preferred). *)
Preferred(ws) ==
    IF lastFocus[ws] \in On(ws) THEN {lastFocus[ws]}
    ELSE IF strips[ws].columns # <<>> THEN {SelectedOrFirst(strips[ws])}
    ELSE IF lastFloat \in floating \cap On(ws) THEN {lastFloat} ELSE OrNone(floating \cap On(ws))

(* A workspace shown, and its focus settled (activate_workspace, then      *)
(* commit_workspace_focus): with a window held, only shown.                *)
ShowsWorkspace(ss, last, ws, w) ==
    LET settled == IF w = NoWindow \/ w \in floating THEN ss ELSE [ss EXCEPT ![ws] = Select(@, w, never)] IN
    /\ active' = ws
    /\ IF Holding
       THEN strips' = ss /\ lastFocus' = last /\ UNCHANGED <<focused, asked, lastFloat>>
       ELSE /\ strips' = PassedOver(settled, ws)
            /\ focused' = w /\ asked' = IF w = NoWindow THEN asked ELSE w
            /\ lastFocus' = IF w = NoWindow THEN last ELSE [last EXCEPT ![ws] = w]
            /\ lastFloat' = IF w \in floating THEN w ELSE lastFloat
    /\ shows' = (~Holding /\ settled[ws] # strips[ws] /\ w \notin floating)

SwitchTo(ws) ==
    /\ Acts(<<"switch">>)
    /\ ws # active
    /\ \E w \in Preferred(ws) : ShowsWorkspace(strips, lastFocus, ws, w)
    /\ UNCHANGED <<home, floating, memory, drag, run>>

(* Where focus goes when w went and the view stayed.                       *)
FocusAfterMove(w, from, ws, last) ==
    LET rest == On(active) \ {w} IN
    IF ws = active THEN asked' = (IF Holding THEN asked ELSE w) /\ lastFocus' = last /\ UNCHANGED focused
    ELSE IF from = active /\ rest # {}
    THEN asked' \in (IF Holding THEN {asked} ELSE rest) /\ focused' = NoWindow /\ lastFocus' = [last EXCEPT ![from] = NoWindow]
    ELSE /\ UNCHANGED asked
         /\ focused' = IF from = active THEN NoWindow ELSE focused
         /\ lastFocus' = [last EXCEPT ![from] = IF from = active THEN NoWindow ELSE @, ![ws] = w]

(* The focused window to another workspace, into the same layer there, and *)
(* on its strip at the width it last had on the display.                   *)
MoveWindowToWorkspace(ws, follow) ==
    LET w     == focused
        from  == home[w]
        tiled == w \notin floating
        taken == IF tiled THEN RemovedEverywhere(w) ELSE strips
        last  == [lastFocus EXCEPT ![from] = IF @ = w THEN NoWindow ELSE @]
        ss    == IF tiled THEN [taken EXCEPT ![ws] = WithWidth(Insert(@, w, never), w, memory'[w])] ELSE taken
    IN  /\ Acts(<<IF follow THEN "take" ELSE "send">>)
        /\ w # NoWindow /\ from # ws
        /\ memory' = IF tiled THEN Remembered(strips[from], w) ELSE memory
        /\ home' = [home EXCEPT ![w] = ws]
        /\ IF follow THEN ShowsWorkspace(ss, last, ws, w)
           ELSE /\ strips' = PassedOver(ss, active) /\ FocusAfterMove(w, from, ws, last)
                /\ shows' = (tiled /\ ws = active) /\ UNCHANGED <<active, lastFloat>>
        /\ run' = NoRun
        /\ UNCHANGED <<floating, drag>>

-----------------------------------------------------------------------------
(* Windows opening, closing and changing identity.                         *)

(* w on the strip on screen, at the width it last had.                     *)
Added(w) == WithWidth(Insert(strip, w, never), w, memory[w])

Opened(w) ==
    /\ Acts(<<"open">>)
    /\ home[w] = Unopened
    /\ home' = [home EXCEPT ![w] = active]
    /\ LaysOutFreed(Added(w))
    /\ asked' = w /\ run' = NoRun /\ shows' = TRUE
    /\ UNCHANGED <<active, floating, focused, lastFocus, lastFloat, memory, drag>>

(* A window found by a listing of its application's: it joins the strip,   *)
(* and the selection stays (sync_tiled_windows_for_app).                   *)
Discovered(w) ==
    /\ Acts(<<"discover">>)
    /\ home[w] = Unopened
    /\ home' = [home EXCEPT ![w] = active]
    /\ LaysOutFreed(IF Located(strip) THEN Select(Added(w), strip.selected, never) ELSE Added(w))
    /\ run' = NoRun /\ shows' = TRUE
    /\ UNCHANGED <<active, floating, memory, drag, lastFloat, focusVars>>

Closed(w) ==
    /\ Acts(<<"close">>)
    /\ w \in Open
    /\ home' = [home EXCEPT ![w] = Gone]
    /\ strips' = [[strips EXCEPT ![home[w]] = RemoveWindow(@, w)] EXCEPT ![active] = Pass(@, never)]
    /\ floating' = floating \ {w}
    /\ lastFloat' = IF lastFloat = w THEN NoWindow ELSE lastFloat
    /\ memory' = [memory EXCEPT ![w] = Unset]
    /\ focused' = IF focused = w THEN NoWindow ELSE focused
    /\ asked' = IF asked = w THEN NoWindow ELSE asked
    /\ drag' = IF Holding /\ drag.window = w THEN NoDrag ELSE drag
    /\ run' = NoRun /\ shows' = FALSE
    /\ UNCHANGED <<active, lastFocus>>

(* transfer_persistent_window_identity, to an identity not seen before.    *)
Reidentified(from, to) ==
    LET New(w) == IF w = from THEN to ELSE w IN
    /\ Acts(<<"identity">>)
    /\ from \in Open /\ home[to] = Unopened
    /\ home' = [home EXCEPT ![to] = home[from], ![from] = Gone]
    /\ ~Holding
    /\ strips' = PassedOver([ws \in Spaces |-> ReplaceWindow(RemoveWindow(strips[ws], to), from, to)], active)
    /\ floating' = {New(w) : w \in floating} /\ lastFloat' = New(lastFloat)
    /\ memory' = [memory EXCEPT ![to] = memory[from], ![from] = Unset]
    /\ focused' = New(focused) /\ asked' = New(asked)
    /\ lastFocus' = [ws \in Spaces |-> New(lastFocus[ws])]
    /\ run' = NoRun
    /\ UNCHANGED <<active, drag, shows>>

-----------------------------------------------------------------------------
(* The mouse, and the windows' own resizes.                                *)

Resized(w, edge, from, width, height) ==
    /\ LaysOutFreed(ResizeWindow(strip, w, edge, from, width, height, never))
    /\ run' = NoRun /\ shows' = FALSE
    /\ UNCHANGED <<active, memory, drag, windowVars, focusVars>>

(* The app resizes its own window.                                         *)
AppResized(w, width, height) ==
    /\ Acts(<<"appResize", width>>)
    /\ OnStrip(strip, w) /\ ~Holding
    /\ Resized(w, "none", [x |-> 0, width |-> 0], width, height)

(* The selection taken hold of: by a side, which every report moves, or    *)
(* not by a side.                                                          *)
DragBegins(edge) ==
    /\ Acts(<<"drag", edge>>)
    /\ ~Holding /\ OnStrip(strip, focused) /\ strip.selected = focused
    /\ drag' = [edge |-> edge, window |-> focused, x |-> ShownX(strip), width |-> strip.measured.slot]
    /\ run' = NoRun /\ shows' = FALSE
    /\ UNCHANGED <<strips, active, memory, windowVars, focusVars>>

DragReported(width) ==
    /\ Holding
    /\ Acts(<<"dragTo", width>>)
    /\ Resized(drag.window, drag.edge, [x |-> drag.x, width |-> drag.width], width, TRUE)

(* Let go of: where it is, or over another window, and the two change      *)
(* places (handle_mouse_up).                                               *)
DragEnds(target) ==
    /\ Holding
    /\ drag.edge = "still" \/ target = NoWindow
    /\ target # drag.window
    /\ drag' = NoDrag /\ run' = NoRun /\ shows' = FALSE
    /\ LaysOut(IF target = NoWindow THEN strip ELSE SwapWindows(strip, drag.window, target))
    /\ UNCHANGED <<scene, budget, active, memory, windowVars, focusVars>>

-----------------------------------------------------------------------------
Steps == {"left", "right", "up", "down", "first", "last"}
Named(family) == {act[2] : act \in {a \in scene.acts : Len(a) = 2 /\ a[1] = family}}

Init ==
    \E sc \in Scenarios :
        LET ws    == CHOOSE ws \in Spaces : TRUE
            first == IF sc.columns = <<>> THEN NoWindow ELSE sc.columns[1][1]
            start == [NewStrip EXCEPT
                        !.columns = [c \in DOMAIN sc.columns |-> [windows |-> sc.columns[c], width |-> Unset]],
                        !.selected = first]
        IN  /\ scene = sc /\ budget = sc.budget
            /\ active = ws
            /\ strips = [v \in Spaces |-> IF v = ws THEN Pass(start, sc.never) ELSE NewStrip]
            /\ home = [w \in Windows |-> IF OnStrip(start, w) THEN ws ELSE Unopened]
            /\ floating = {} /\ lastFloat = NoWindow
            /\ focused = first /\ asked = first /\ lastFocus = [v \in Spaces |-> IF v = ws THEN first ELSE NoWindow]
            /\ memory = [w \in Windows |-> Unset]
            /\ drag = NoDrag /\ run = NoRun /\ shows = TRUE

Next ==
    \/ FocusReported
    \/ \E step \in Steps : MoveFocusPressed(step) \/ MoveNodePressed(step)
    \/ \E side \in {"left", "right"} : FoldPressed(side) \/ DragBegins(side)
    \/ DragBegins("still")
    \/ ExplodePressed \/ CenterPressed \/ SnapPressed
    \/ FullWidthPressed \/ CyclePressed
    \/ \E amount \in Named("grow") : ResizePressed("grow", amount)
    \/ \E amount \in Named("shrink") : ResizePressed("shrink", amount)
    \/ \E way \in {"forward", "backward"} : FocusCycled(way)
    \/ ToggleFocusFloating \/ ToggleWindowFloating
    \/ \E ws \in Spaces : SwitchTo(ws) \/ MoveWindowToWorkspace(ws, TRUE) \/ MoveWindowToWorkspace(ws, FALSE)
    \/ \E w \in Windows : Clicked(w) \/ Zoomed(w) \/ Opened(w) \/ Discovered(w) \/ Closed(w)
    \/ \E from, to \in Windows : Reidentified(from, to)
    \/ \E w \in Windows, width \in Named("appResize"), height \in BOOLEAN : AppResized(w, width, height)
    \/ \E width \in Named("dragTo") : DragReported(width)
    \/ \E w \in Windows \cup {NoWindow} : DragEnds(w)

Spec == Init /\ [][Next]_vars

-----------------------------------------------------------------------------
(* Properties.                                                             *)

Tiled(s) == {w \in Windows : OnStrip(s, w)}

EachInOnePlace ==
    \A ws \in Spaces :
        LET columns == strips[ws].columns IN
        /\ Tiled(strips[ws]) = On(ws) \ floating
        /\ \A c \in DOMAIN columns : columns[c].windows \in Seq(Windows) \ {<<>>}
        /\ \A c, d \in DOMAIN columns : \A i \in DOMAIN columns[c].windows, j \in DOMAIN columns[d].windows :
              columns[c].windows[i] = columns[d].windows[j] => c = d /\ i = j
RemembersOwn ==
    \A ws \in Spaces : LET s == strips[ws] IN
        /\ IF s.columns = <<>> THEN s.selected = NoWindow ELSE OnStrip(s, s.selected)
        /\ \A w \in s.fullWidth : OnStrip(s, w) /\ ~Stacked(s, w)
        /\ \A w \in Windows :
              /\ s.widthOrigins[w] # NoOrigin => w \in s.fullWidth
              /\ \A origin \in {s.widthOrigins[w], s.foldOrigins[w]} \ {NoOrigin} :
                    OnStrip(s, w) /\ OnStrip(s, origin.anchor) /\ origin.anchor # w
        /\ {s.centre, s.keptView.window, s.keptPlace.window} \subseteq {NoWindow, s.selected}

(* The tiled windows and the strips agree: every open window is in the     *)
(* floating layer, or in one column of its own workspace's strip and of no *)
(* other, however it was folded, exploded, sent, swapped or renamed; and   *)
(* what a strip remembers (its selection, what is at full width, where     *)
(* each window was taken from, what its view is held for) is of windows it *)
(* still has, in the columns those memories suppose.                       *)
StripsAgree == EachInOnePlace /\ RemembersOwn

(* A key pressed again takes back what it did: a fold key pressed twice    *)
(* leaves every window in the row and column it had, and full width left   *)
(* again leaves the stack it was taken from as it was, whatever focus      *)
(* reports, switches and passes came between.                              *)
PressedTwice ==
    LET s == strips[run.space] IN
    run # NoRun /\ Len(run.keys) % 2 = 0 /\ (\A i \in DOMAIN run.keys : run.keys[i] = run.keys[1]) =>
        /\ run.keys[1] \in {"left", "right"} =>
              Rows(s) = run.rows /\ (run.stacked => Columns(s) = run.columns)
        /\ run.keys[1] = "full" /\ ~run.full => Columns(s) = run.columns

(* Presses that bring the columns back bring the view back: with a         *)
(* selection the presses began at and its columns the width they were, it  *)
(* stands where it stood on screen, and never drifts by the round trip: of *)
(* the keys that give a width, or of a fold key first pressed in a stack.  *)
PlaceKept ==
    run # NoRun /\ run.space = active /\ never /\ ~Holding /\ Columns(strip) = run.columns =>
        \A x \in run.shown : ShownX(strip) = Clamp(x, 0, Viewport - strip.measured.slot)

(* The focus is in view: once a window is selected by a press, a click or  *)
(* a report, or one joins the strip on screen, the selected column is      *)
(* wholly on screen after the pass of the same handler, in the strip's own *)
(* record of it; and another pass would change nothing, so what is drawn   *)
(* is where the strip rests.                                               *)
FocusInView ==
    /\ ~Holding => Pass(strip, never) = strip
    /\ never /\ ~Holding /\ shows /\ strip.columns # <<>> => InView(strip)
=============================================================================
