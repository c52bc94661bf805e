---------------------------- MODULE FocusTracker ----------------------------
(***************************************************************************)
(* MainWindowTracker (src/windows/domain/focus.rs): which window has the   *)
(* focus, folded from three streams of reports that macOS does not order   *)
(* against each other.  The tracker is a value; each report's arm of       *)
(* handle_event is an operator from tracker to tracker.  FocusOrder        *)
(* (focus_order.rs) is the field order.                                    *)
(***************************************************************************)
EXTENDS Naturals, Sequences, FiniteSets

CONSTANTS
    App,        \* applications (pid_t)
    Window,     \* windows (WindowId)
    AppOf,      \* the application a window belongs to
    NoWindow,   \* None
    NoApp       \* None

ASSUME TrackerAssumption ==
    /\ IsFiniteSet(Window) /\ AppOf \in [Window -> App]
    /\ NoWindow \notin Window /\ NoApp \notin App

(* A pid the tracker has no AppState for, and what it keeps of one it has. *)
NotLaunched == [launched |-> FALSE, front |-> FALSE, quiet |-> FALSE, main |-> NoWindow]

AppState(front, main) == [launched |-> TRUE, front |-> front, quiet |-> FALSE, main |-> main]

NoActivation == [app |-> NoApp, remembered |-> NoWindow]

NewTracker ==
    [apps          |-> [a \in App |-> NotLaunched],
     globalFront   |-> NoApp,                         \* global_frontmost
     serverFocus   |-> NoWindow,                      \* window_server_focus
     authoritative |-> FALSE,                         \* window_server_focus_authoritative
     lastFocused   |-> [a \in App |-> NoWindow],      \* last_focused_by_app
     order         |-> <<>>,                          \* focus_order
     pending       |-> NoActivation,                  \* pending_activation
     panel         |-> NoApp]                         \* panel_focused

-----------------------------------------------------------------------------
(* FocusOrder.                                                             *)

Forget(order, gone) ==
    LET upTo[i \in 0..Len(order)] ==
          IF i = 0 THEN <<>>
          ELSE IF order[i] \in gone THEN upTo[i - 1] ELSE Append(upTo[i - 1], order[i])
    IN  upTo[Len(order)]

TouchBehind(order, w) == IF Forget(order, {w}) = order THEN <<w>> \o order ELSE order

Touch(order, w) == <<w>> \o Forget(order, {w})

-----------------------------------------------------------------------------
(* What the tracker answers.                                               *)

MainWindow(t) ==
    LET front == t.globalFront IN
    IF front = NoApp THEN NoWindow
    ELSE IF t.serverFocus # NoWindow /\ AppOf[t.serverFocus] = front THEN t.serverFocus
    ELSE IF t.apps[front].front THEN t.apps[front].main
    ELSE NoWindow

(* peek_activation_target.                                                 *)
Remembered(t, a) == IF t.pending.app = a THEN t.pending.remembered ELSE NoWindow

NeverTaken(t, a) == t

(* What take_activation_target leaves.                                     *)
Taken(t, a) == IF t.pending.app = a THEN [t EXCEPT !.pending = NoActivation] ELSE t

-----------------------------------------------------------------------------
(* handle_event.  An arm that reaches the end of it announces the focus    *)
(* while the window server has not spoken: [tracker, focused].             *)

Silent(t) == [tracker |-> t, focused |-> NoWindow]

Announced(t, a, quiet) ==
    IF ~t.authoritative /\ t.globalFront = a /\ ~quiet /\ MainWindow(t) # NoWindow
    THEN [tracker |-> [t EXCEPT !.order = Touch(@, MainWindow(t))], focused |-> MainWindow(t)]
    ELSE Silent(t)

WindowServerFocused(t, w) ==
    [t EXCEPT !.authoritative = TRUE, !.serverFocus = w,
              !.lastFocused[AppOf[w]] = w, !.order = Touch(@, w)]

WithoutFocus(t, gone) ==
    [t EXCEPT !.serverFocus = IF @ \in gone THEN NoWindow ELSE @,
              !.order = Forget(@, gone)]

ApplicationLaunched(t, a, front, main) ==
    Announced([t EXCEPT !.apps[a] = AppState(front, main)], a, FALSE)

ApplicationThreadTerminated(t, a) ==
    Silent(WithoutFocus([t EXCEPT !.apps[a] = NotLaunched], { w \in Window : AppOf[w] = a }))

WindowDestroyed(t, w) == Silent(WithoutFocus(t, {w}))

(* A quiet activation is rini's own raise, so nothing is to be redirected. *)
ApplicationActivated(t, a, quiet) ==
    LET settled == IF quiet THEN Taken(t, a) ELSE t IN
    IF t.apps[a].launched
    THEN Announced([settled EXCEPT !.apps[a].front = TRUE, !.apps[a].quiet = quiet], a, quiet)
    ELSE Silent(settled)

ApplicationDeactivated(t, a) == Silent([t EXCEPT !.apps[a].front = FALSE])

(* Only an edge snapshots what the application had focused before it.      *)
ApplicationGloballyActivated(t, a) ==
    LET edge == IF t.globalFront = a THEN t.pending
                ELSE [app |-> a, remembered |-> t.lastFocused[a]]
        up   == [t EXCEPT !.pending = edge, !.globalFront = a]
    IN
    IF t.apps[a].launched
    THEN Announced([up EXCEPT !.apps[a].front = TRUE], a, t.apps[a].quiet)
    ELSE Silent(up)

DeactivatedWhoeverLeads(t, a) ==
    Silent([t EXCEPT !.globalFront = NoApp, !.apps[a].front = FALSE])

ApplicationGloballyDeactivated(t, a) ==
    Silent([t EXCEPT !.globalFront = IF @ = a THEN NoApp ELSE @, !.apps[a].front = FALSE])

(* The main window of the application whose panel has the keys takes the   *)
(* focus.                                                                  *)
ApplicationMainWindowChanged(t, a, w, quiet) ==
    LET moved == [t EXCEPT !.apps[a].main = w] IN
    IF ~t.apps[a].launched THEN Silent(t)
    ELSE Announced(IF w # NoWindow /\ t.panel = a THEN WindowServerFocused(moved, w) ELSE moved,
                   a, quiet)

WindowServerFocusChanged(t, w) == Silent(WindowServerFocused([t EXCEPT !.panel = NoApp], w))

(* A panel stands for its application's main window.                       *)
PanelFocused(t, p) ==
    LET main == t.apps[AppOf[p]].main IN
    Silent(WindowServerFocused([t EXCEPT !.panel = AppOf[p]],
                               IF main = NoWindow THEN p ELSE main))

-----------------------------------------------------------------------------
AppStates == [launched : BOOLEAN, front : BOOLEAN, quiet : BOOLEAN, main : Window \cup {NoWindow}]

Tracker ==
    [apps : [App -> AppStates], globalFront : App \cup {NoApp},
     serverFocus : Window \cup {NoWindow}, authoritative : BOOLEAN,
     lastFocused : [App -> Window \cup {NoWindow}], order : Seq(Window),
     pending : [app : App \cup {NoApp}, remembered : Window \cup {NoWindow}],
     panel : App \cup {NoApp}]
=============================================================================
