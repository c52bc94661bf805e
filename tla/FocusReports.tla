---------------------------- MODULE FocusReports ----------------------------
(***************************************************************************)
(* How a focus change reaches rini and what the reactor does of it.  macOS *)
(* reports one change three ways: the window server's key window, read by  *)
(* a resolver thread some time after it is woken (window_notify.rs); the   *)
(* application in front, through the controller; and Accessibility, read   *)
(* by each application's thread (app_actor/activation.rs).  Each source    *)
(* keeps its own order and none is ordered against another.  The reactor   *)
(* folds them into FocusTracker, and follows them: it selects the window,  *)
(* switches to its workspace, or sends the focus back to the window the    *)
(* user was in, each of which may raise a window and so change the focus   *)
(* again.                                                                  *)
(*                                                                         *)
(* One display with its virtual workspaces; a window of a workspace not    *)
(* shown is parked off screen.  A raise is one step (AppRaise has them in  *)
(* detail), the newest standing for those it supersedes.                   *)
(*                                                                         *)
(* Left out: the desktop's taking of the focus.  When the last window of   *)
(* the workspace shown goes (focus_desktop_if_active_workspace_empty) the  *)
(* window server is taken to name no desktop window to make key, and the   *)
(* focus stays where macOS put it.                                         *)
(***************************************************************************)
EXTENDS FocusTracker, Naturals, SequencesExt

CONSTANTS
    Panels,       \* windows rini knows and does not manage
    Workspace,    \* virtual workspaces
    Home,         \* the workspace of each managed window
    Ignored,      \* applications under settings.ignore_app_activation
    FirstShown,   \* the workspace shown at the start
    FirstMain,    \* each application's main window at the start
    FirstFront,   \* the application in front at the start
    MaxEdges,     \* bound: switches of the front application the controller is behind
    SlowReports,  \* bound: TRUE lets a report of the focus outlast RaiseEcho::WINDOW
    Scenarios     \* bound: what the user does, and what macOS and rini are slow at

(* late: applications whose thread has yet to start; lateAnswers: {FALSE}, *)
(* or BOOLEAN, an activation may be heard over a second late; acts: what   *)
(* the user does; lag: reports waiting in the reactor's channel; prompt: a *)
(* report is handled before anything else happens; hurried: FALSE has what *)
(* the user does followed to its end first; then the windows the user may  *)
(* focus, a command may focus and that may close, and the applications     *)
(* that may quit.                                                          *)
Scenario ==
    [late : SUBSET App, lateAnswers : SUBSET BOOLEAN \ {{}}, acts : Nat, lag : Nat \ {0},
     prompt : BOOLEAN, hurried : BOOLEAN, focus : SUBSET Window, command : SUBSET Window,
     close : SUBSET Window, quit : SUBSET App]

Managed == Window \ Panels

ASSUME ReportsAssumption ==
    /\ Panels \subseteq Window /\ Ignored \subseteq App
    /\ Home \in [Managed -> Workspace] /\ FirstShown \in Workspace
    /\ FirstMain \in [App -> Managed] /\ \A a \in App : AppOf[FirstMain[a]] = a
    /\ MaxEdges \in Nat \ {0} /\ SlowReports \in BOOLEAN
    /\ \A how \in Scenarios : how \in Scenario /\ FirstFront \in App \ how.late

VARIABLES
    mac,        \* macOS: the application in front, each one's main and key window
    open,       \* macOS: the windows there are
    edges,      \* front-application edges on their way through the controller
    notices,    \* per application: Accessibility notifications not yet handled
    wake,       \* a wake waits for the focus resolver
    resolved,   \* what the resolver has read and not published
    thread,     \* per application: its thread's State
    asked,      \* per application: the reactor's requests to its thread
    inbox,      \* the reactor's channel
    tracker,    \* Reactor.main_window_tracker
    known,      \* the windows of Reactor.state
    shown,      \* the active workspace
    selected,   \* LayoutEngine.focused_window
    switching,  \* active_workspace_switch is Some
    raise,      \* the focus raise not yet carried out
    echo,       \* Reactor.raise_echo
    user,       \* how much the user has done, and of which scenario
    sentBack,   \* history: the window an activation was redirected to, since the user's last act
    cycled      \* history: the window the user's last act changed to within an application

macVars     == <<mac, open, edges, notices, wake>>
threadVars  == <<thread, asked>>
layoutVars  == <<known, shown, selected, switching, raise, echo>>
historyVars == <<user, sentBack, cycled>>
vars == <<macVars, resolved, threadVars, inbox, tracker, layoutVars, historyVars>>

-----------------------------------------------------------------------------
(* Reports.                                                                *)

AppEvent(kind, a)        == [kind |-> kind, app |-> a, window |-> NoWindow, flag |-> FALSE]
WindowEvent(kind, w)     == [kind |-> kind, app |-> AppOf[w], window |-> w, flag |-> FALSE]
ActivatedEvent(a, quiet) == [kind |-> "activated", app |-> a, window |-> NoWindow, flag |-> quiet]
LaunchedEvent(a, front, main, windows) ==
    [kind |-> "launched", app |-> a, window |-> main, flag |-> front, windows |-> windows]
MainEvent(a, w, quiet) == [kind |-> "main", app |-> a, window |-> w, flag |-> quiet]

(* The channel has no bound in the code.                                   *)
Tell(events) ==
    /\ events = <<>> \/ Len(inbox) < user.how.lag
    /\ inbox' = inbox \o events

(* What is heard is read when it is heard, so a notice as one still        *)
(* waiting adds nothing.                                                   *)
Posted(queue, kind, w) ==
    LET notice == [kind |-> kind, window |-> w]
    IN  IF \E i \in DOMAIN queue : queue[i] = notice THEN queue ELSE Append(queue, notice)

NotRead == [read |-> FALSE, window |-> NoWindow]

NoRaise == [window |-> NoWindow, quiet |-> FALSE]

Quiescent ==
    /\ inbox = <<>> /\ edges = <<>> /\ ~wake /\ resolved = NotRead /\ raise = NoRaise
    /\ \A a \in App : notices[a] = <<>> /\ asked[a] = <<>>

-----------------------------------------------------------------------------
(* macOS.                                                                  *)

KeyWindow == mac.key[mac.front]

WindowsOf(a) == { w \in open : AppOf[w] = a }

(* w takes the keys and its application comes to the front.  The two       *)
(* edges of a switch come from two notification centers, in either order.  *)
BecomesKey(w) ==
    LET a        == AppOf[w]
        main     == IF w \in Panels THEN mac.main ELSE [mac.main EXCEPT ![a] = w]
        switched == mac.front # a
        up       == AppEvent("globallyActivated", a)
        down     == AppEvent("globallyDeactivated", mac.front)
    IN
    /\ switched => Len(edges) < MaxEdges
    /\ mac' = [front |-> a, main |-> main, key |-> [mac.key EXCEPT ![a] = w]]
    /\ wake' = (wake \/ mac' # mac)
    /\ notices' = [b \in App |->
         LET activation == IF switched /\ b \in {a, mac.front}
                           THEN Posted(notices[b], "activation", NoWindow) ELSE notices[b]
         IN  IF b = a /\ main # mac.main THEN Posted(activation, "main", NoWindow) ELSE activation]
    /\ IF switched
       THEN \/ edges' = Append(edges, <<up, down>>)
            \/ edges' = Append(edges, <<down, up>>)
       ELSE UNCHANGED edges
    /\ UNCHANGED open

(* The user takes the focus to w: a click, cmd-tab, the Dock, cmd-`.       *)
UserFocuses(w) ==
    /\ user.acts < user.how.acts /\ w \in open \cap user.how.focus
    /\ user' = [user EXCEPT !.acts = @ + 1] /\ sentBack' = NoWindow
    /\ cycled' = IF Quiescent /\ AppOf[w] = mac.front /\ w \in Managed THEN w ELSE NoWindow
    /\ BecomesKey(w)
    /\ UNCHANGED <<resolved, threadVars, inbox, tracker, layoutVars>>

(* A window closes: its application's main window, or the key one, becomes *)
(* another of its windows while it has one.                                *)
Closes(w) ==
    LET a     == AppOf[w]
        left  == { v \in open \ {w} : AppOf[v] = a }
        Next1(cur, cands) ==
            IF cur # w THEN {cur} ELSE IF cands = {} THEN {NoWindow} ELSE cands
    IN
    /\ user.acts < user.how.acts /\ w \in open \cap user.how.close
    /\ user' = [user EXCEPT !.acts = @ + 1] /\ sentBack' = NoWindow /\ cycled' = NoWindow
    /\ open' = open \ {w}
    /\ \E m \in Next1(mac.main[a], left \cap Managed) :
        \E k \in Next1(mac.key[a], IF m = NoWindow THEN left ELSE {m}) :
          /\ mac' = [mac EXCEPT !.main = [@ EXCEPT ![a] = m], !.key = [@ EXCEPT ![a] = k]]
          /\ LET closed == Posted(notices[a], "closed", w) IN
             notices' = [notices EXCEPT ![a] =
                 IF m \in {mac.main[a], NoWindow} THEN closed ELSE Posted(closed, "main", NoWindow)]
    /\ wake' = TRUE
    /\ UNCHANGED <<edges, resolved, threadVars, inbox, tracker, layoutVars>>

(* An application quits, and another comes to the front if it was there.   *)
Quits(a) ==
    /\ user.acts < user.how.acts /\ a \in user.how.quit /\ thread[a].phase = "runs"
    /\ user' = [user EXCEPT !.acts = @ + 1] /\ sentBack' = NoWindow /\ cycled' = NoWindow
    /\ open' = open \ WindowsOf(a)
    /\ \E b \in IF mac.front = a THEN { c \in App \ {a} : WindowsOf(c) # {} } ELSE {mac.front} :
         LET up   == AppEvent("globallyActivated", b)
             down == AppEvent("globallyDeactivated", a)
             gone == AppEvent("terminated", a)
         IN
         /\ mac' = [front |-> b, main |-> [mac.main EXCEPT ![a] = NoWindow],
                    key |-> [mac.key EXCEPT ![a] = NoWindow]]
         /\ IF b = mac.front
            THEN /\ edges' = Append(edges, <<gone>>)
                 /\ UNCHANGED notices
            ELSE /\ \E switch \in {<<up, down>>, <<down, up>>} :
                      edges' = edges \o <<switch, <<gone>>>>
                 /\ notices' = [notices EXCEPT ![b] = Posted(@, "activation", NoWindow)]
    /\ wake' = TRUE
    /\ UNCHANGED <<resolved, threadVars, inbox, tracker, layoutVars>>

-----------------------------------------------------------------------------
(* The resolver thread, and the controller.                                *)

ResolverKeepsWake ==
    /\ wake /\ resolved = NotRead
    /\ resolved' = [read |-> TRUE, window |-> KeyWindow]
    /\ UNCHANGED <<macVars, threadVars, inbox, tracker, layoutVars, historyVars>>

ResolverReads ==
    /\ wake /\ resolved = NotRead
    /\ wake' = FALSE
    /\ resolved' = [read |-> TRUE, window |-> KeyWindow]
    /\ UNCHANGED <<mac, open, edges, notices, threadVars, inbox, tracker, layoutVars, historyVars>>

(* A wake that came while the window server was read has it read again.    *)
ResolverPublishes ==
    /\ resolved.read
    /\ resolved' = NotRead
    /\ IF wake \/ resolved.window = NoWindow
       THEN UNCHANGED inbox
       ELSE Tell(<<WindowEvent("serverFocus", resolved.window)>>)
    /\ UNCHANGED <<macVars, threadVars, tracker, layoutVars, historyVars>>

(* The edges of one switch are posted together.                            *)
ControllerForwards ==
    /\ edges # <<>>
    /\ edges' = Tail(edges)
    /\ Tell(Head(edges))
    /\ UNCHANGED <<mac, open, notices, wake, resolved, threadVars, tracker, layoutVars, historyVars>>

-----------------------------------------------------------------------------
(* An application's thread.  It hears notifications late and reads what    *)
(* Accessibility says at that moment.  activation is the raise of its own  *)
(* it waits for, pendingQuiet that raise's quiet once its activation was   *)
(* seen: "none", "quiet" or "loud".                                        *)

Loudness(quiet) == IF quiet THEN "quiet" ELSE "loud"

(* on_main_window_changed: what the thread then is, and what it reports.   *)
Heard(a, th, quietFor) ==
    LET w == mac.main[a] IN
    IF w \in {NoWindow, th.main} THEN [thread |-> th, events |-> <<>>]
    ELSE [thread |-> [th EXCEPT !.main = w], events |-> <<MainEvent(a, w, quietFor = w)>>]

Reports(a, h) ==
    /\ thread' = [thread EXCEPT ![a] = h.thread]
    /\ Tell(h.events)

(* An activation heard over a second after what made it quiet is the       *)
(* user's.                                                                 *)
Context(th) == { Loudness(th.activation = "quiet" /\ ~late) : late \in user.how.lateAnswers }

(* on_ax_activation_changed.                                               *)
HearsActivation(a) ==
    LET th    == thread[a]
        front == mac.front = a
    IN
    IF ~front
    THEN Reports(a, [thread |-> [th EXCEPT !.front = FALSE, !.pendingQuiet = "none"],
                     events |-> IF th.front THEN <<AppEvent("deactivated", a)>> ELSE <<>>])
    ELSE IF th.front THEN Reports(a, [thread |-> th, events |-> <<>>])
    ELSE \E quiet \in Context(th) :
           LET taken == [th EXCEPT !.front = TRUE, !.activation = "none", !.pendingQuiet = quiet]
           IN  Reports(a, Heard(a, taken, NoWindow))

(* remove_stale_windows, then the main window.                             *)
HearsMainWindow(a) ==
    LET th   == thread[a]
        gone == th.windows \ open
        heard == Heard(a, [th EXCEPT !.windows = @ \cap open], NoWindow)
    IN
    \E order \in SetToSeqs(gone) :
        Reports(a, [heard EXCEPT !.events =
                      [i \in DOMAIN order |-> WindowEvent("destroyed", order[i])] \o @])

(* on_window_destroyed: nothing is said when no main window is left.       *)
HearsClosed(a, w) ==
    LET heard == Heard(a, [thread[a] EXCEPT !.windows = @ \ {w}], w) IN
    IF w \notin thread[a].windows
    THEN UNCHANGED <<thread, inbox>>
    ELSE Reports(a, [heard EXCEPT !.events = <<WindowEvent("destroyed", w)>> \o @])

ThreadHears(a) ==
    /\ thread[a].phase = "runs" /\ notices[a] # <<>>
    /\ notices' = [notices EXCEPT ![a] = Tail(@)]
    /\ LET n == Head(notices[a]) IN
       \/ n.kind = "activation" /\ HearsActivation(a)
       \/ n.kind = "main" /\ HearsMainWindow(a)
       \/ n.kind = "closed" /\ HearsClosed(a, n.window)
    /\ UNCHANGED <<mac, open, edges, wake, resolved, asked, tracker, layoutVars, historyVars>>

(* on_global_activation: an application whose main window cannot be read   *)
(* says so first.                                                          *)
ResolvesActivation(a) ==
    LET th == thread[a]
        quiets == IF th.activation # "none" THEN Context(th)
                  ELSE { Loudness(th.pendingQuiet = "quiet" /\ ~late) : late \in user.how.lateAnswers }
        up   == [th EXCEPT !.front = TRUE, !.activation = "none",
                           !.pendingQuiet = IF th.activation # "none" THEN @ ELSE "none"]
        heard == IF mac.main[a] = NoWindow /\ th.main # NoWindow
                 THEN [thread |-> [up EXCEPT !.main = NoWindow],
                       events |-> <<MainEvent(a, NoWindow, FALSE)>>]
                 ELSE Heard(a, up, NoWindow)
    IN
    \E quiet \in quiets :
        Reports(a, [heard EXCEPT !.events = @ \o <<ActivatedEvent(a, quiet = "quiet")>>])

ThreadAnswers(a) ==
    /\ thread[a].phase = "runs" /\ asked[a] # <<>>
    /\ asked' = [asked EXCEPT ![a] = Tail(@)]
    /\ \/ Head(asked[a]) = "activation" /\ ResolvesActivation(a)
       \/ Head(asked[a]) = "windows" /\ Reports(a, Heard(a, thread[a], NoWindow))
    /\ UNCHANGED <<macVars, resolved, tracker, layoutVars, historyVars>>

(* Request::Terminate ends the thread; what it had not read is dropped.    *)
ThreadEnds(a) ==
    /\ thread[a].phase = "runs" /\ asked[a] # <<>> /\ Head(asked[a]) = "terminate"
    /\ thread' = [thread EXCEPT ![a].phase = "ended"]
    /\ asked' = [asked EXCEPT ![a] = <<>>]
    /\ notices' = [notices EXCEPT ![a] = <<>>]
    /\ Tell(<<AppEvent("threadTerminated", a)>>)
    /\ UNCHANGED <<mac, open, edges, wake, resolved, tracker, layoutVars, historyVars>>

(* The thread starts: it reads its application as it is.                   *)
ThreadStarts(a) ==
    /\ thread[a].phase = "yet"
    /\ notices' = [notices EXCEPT ![a] = <<>>]
    /\ Reports(a, [thread |-> [thread[a] EXCEPT !.phase = "runs", !.front = (mac.front = a),
                                  !.main = mac.main[a],
                                  !.windows = WindowsOf(a)],
                   events |-> <<LaunchedEvent(a, mac.front = a, mac.main[a], WindowsOf(a))>>])
    /\ UNCHANGED <<mac, open, edges, wake, resolved, asked, tracker, layoutVars, historyVars>>

(* The newest focus raise is carried out.  It is elided for the window     *)
(* already focused, and waits for the activation otherwise (AppRaise).     *)
ThreadRaises ==
    LET w == raise.window
        a == AppOf[w]
        th == thread[a]
        waiting == IF mac.front = a THEN th ELSE [th EXCEPT !.activation = Loudness(raise.quiet)]
    IN
    /\ raise # NoRaise
    /\ raise' = NoRaise
    /\ IF w \notin open \/ (mac.front = a /\ th.main = w)
       THEN UNCHANGED <<macVars, thread, inbox>>
       ELSE /\ BecomesKey(w)
            /\ Reports(a, IF w = th.main THEN [thread |-> waiting, events |-> <<>>]
                          ELSE [thread |-> [waiting EXCEPT !.main = w],
                                events |-> <<MainEvent(a, w, raise.quiet)>>])
    /\ UNCHANGED <<resolved, asked, tracker, known, shown, selected, switching, echo, historyVars>>

-----------------------------------------------------------------------------
(* The reactor.  Every report goes to the tracker first, then to the       *)
(* handler of its event.                                                   *)

NextReport(kind) == inbox # <<>> /\ Head(inbox).kind = kind

Received == inbox' = Tail(inbox)

(* Nobody hears what is asked of a thread that has ended.                  *)
Ask(a, request) ==
    asked' = IF thread[a].phase = "ended" THEN asked ELSE [asked EXCEPT ![a] = Append(@, request)]

IsStandard(w) == w \in known \cap Managed

(* In the active workspace.                                                *)
Visible(w) == IsStandard(w) /\ Home[w] = shown

SwallowsForGood(w) == w \in echo.windows

Swallows(w) == echo.believed /\ w \in echo.windows

(* dispatch_raise, with RaiseEcho::expect.                                 *)
Raises(w, quiet) ==
    /\ raise' = [window |-> w, quiet |-> quiet]
    /\ echo' = [windows  |-> ((IF echo.believed THEN echo.windows ELSE {})
                                \cup ({echo.target} \ {NoWindow})) \ {w},
                target   |-> w,
                believed |-> TRUE]

(* The switch lasts while events still move windows.                       *)
SwitchLasts ==
    switching' = (shown' # shown \/ (switching /\ selected' # selected))

Stays == UNCHANGED <<known, shown, selected, raise, echo>>

SelectsAnything(w) == selected' = w

(* LayoutEvent::WindowFocused: ignored for a window off the active layout. *)
Selects(w) == selected' = IF Visible(w) THEN w ELSE selected

(* A cold-start focus the tracker announced is selected.                   *)
FollowsAnnounced(handled) ==
    /\ tracker' = handled.tracker
    /\ IF handled.focused = NoWindow THEN UNCHANGED selected ELSE Selects(handled.focused)
    /\ UNCHANGED <<known, shown, raise, echo>>

(* maybe_auto_switch_to_window_workspace for w, on a workspace not shown:  *)
(* to the window the application was in there, else to w.                  *)
SwitchesTo(w, remembered) ==
    LET target == IF IsStandard(remembered) /\ Home[remembered] = Home[w] THEN remembered ELSE w IN
    /\ shown' = Home[w] /\ selected' = target
    /\ Raises(target, TRUE)
    /\ UNCHANGED known

OnApplicationLaunched ==
    LET e == Head(inbox)
        handled == ApplicationLaunched(tracker, e.app, e.flag, e.window)
    IN
    /\ NextReport("launched") /\ Received
    /\ tracker' = handled.tracker
    /\ known' = known \cup e.windows
    /\ IF tracker'.globalFront = e.app THEN Ask(e.app, "activation") ELSE UNCHANGED asked
    /\ selected' = IF handled.focused \in Managed /\ Home[handled.focused] = shown
                   THEN handled.focused ELSE selected
    /\ UNCHANGED <<macVars, resolved, thread, shown, raise, echo, historyVars>>

(* The application's own activation, resolved by its thread: its main      *)
(* window's workspace is switched to unless rini asked for it.             *)
OnApplicationActivated ==
    LET e       == Head(inbox)
        handled == ApplicationActivated(tracker, e.app, e.flag)
        main    == MainWindow(handled.tracker)
        follows == ~e.flag /\ ~switching /\ e.app \notin Ignored
                     /\ IsStandard(main) /\ AppOf[main] = e.app
    IN
    /\ NextReport("activated") /\ Received
    /\ IF ~follows THEN FollowsAnnounced(handled)
       ELSE /\ tracker' = Taken(handled.tracker, e.app)
            /\ IF Home[main] # shown
               THEN SwitchesTo(main, Remembered(handled.tracker, e.app))
               ELSE FollowsAnnounced([handled EXCEPT !.tracker = Taken(@, e.app)])
    /\ UNCHANGED <<macVars, resolved, threadVars, historyVars>>

(* A global activation heard again is dropped; the first has the           *)
(* application's thread resolve it.                                        *)
OnGloballyActivated ==
    LET e == Head(inbox)
        handled == ApplicationGloballyActivated(tracker, e.app)
    IN
    /\ NextReport("globallyActivated") /\ Received
    /\ tracker' = handled.tracker
    /\ IF tracker.globalFront # e.app /\ tracker.apps[e.app].launched
       THEN Ask(e.app, "activation") ELSE UNCHANGED asked
    /\ Stays
    /\ UNCHANGED <<macVars, resolved, thread, historyVars>>

(* Reports the tracker takes in.                                           *)
OnTracked ==
    LET e == Head(inbox) IN
    /\ \/ NextReport("globallyDeactivated")
          /\ FollowsAnnounced(ApplicationGloballyDeactivated(tracker, e.app))
       \/ NextReport("deactivated")
          /\ FollowsAnnounced(ApplicationDeactivated(tracker, e.app))
       \/ NextReport("main")
          /\ FollowsAnnounced(ApplicationMainWindowChanged(tracker, e.app, e.window, e.flag))
    /\ Received
    /\ UNCHANGED <<macVars, resolved, threadVars, historyVars>>

OnWindowDestroyed ==
    LET w == Head(inbox).window IN
    /\ NextReport("destroyed") /\ Received
    /\ tracker' = WindowDestroyed(tracker, w).tracker
    /\ known' = known \ {w}
    /\ selected' = IF selected = w THEN NoWindow ELSE selected
    /\ UNCHANGED <<macVars, resolved, threadVars, shown, raise, echo, historyVars>>

(* An application with a thread has it end; one without only goes.         *)
OnApplicationTerminated ==
    LET a == Head(inbox).app IN
    /\ NextReport("terminated") /\ Received
    /\ IF tracker.apps[a].launched
       THEN Ask(a, "terminate") /\ UNCHANGED known
       ELSE known' = { w \in known : AppOf[w] # a } /\ UNCHANGED asked
    /\ UNCHANGED <<macVars, resolved, thread, tracker, shown, selected, raise, echo, historyVars>>

OnApplicationThreadTerminated ==
    LET a == Head(inbox).app IN
    /\ NextReport("threadTerminated") /\ Received
    /\ tracker' = ApplicationThreadTerminated(tracker, a).tracker
    /\ known' = { w \in known : AppOf[w] # a }
    /\ selected' = IF selected # NoWindow /\ AppOf[selected] = a THEN NoWindow ELSE selected
    /\ UNCHANGED <<macVars, resolved, threadVars, shown, raise, echo, historyVars>>

(* The window an activation of w's application should focus instead:       *)
(* activation_focus_target.                                                *)
Redirect(t, w) ==
    LET r == Remembered(t, AppOf[w]) IN
    IF ~Visible(w) /\ Visible(r) /\ r # w THEN r ELSE NoWindow

(* on_window_server_focus_changed.  A known window rini does not manage is *)
(* a panel's (recognise_panel).                                            *)
OnWindowServerFocusChanged ==
    LET w == Head(inbox).window
        a == AppOf[w]
        t == (IF w \in known \cap Panels THEN PanelFocused(tracker, w)
              ELSE WindowServerFocusChanged(tracker, w)).tracker
        target == Redirect(t, w)
    IN
    /\ NextReport("serverFocus") /\ Received
    /\ \/ /\ selected = w \/ (w \in known /\ Swallows(w))
          /\ tracker' = t /\ Stays
          /\ UNCHANGED <<asked, sentBack>>
       \/ /\ selected # w /\ w \notin known
          /\ IF t.apps[a].launched THEN Ask(a, "windows") ELSE UNCHANGED asked
          /\ tracker' = t /\ Stays
          /\ UNCHANGED sentBack
       \/ /\ selected # w /\ w \in known /\ ~Swallows(w) /\ target # NoWindow
          /\ tracker' = Taken(t, a)
          /\ selected' = target /\ Raises(target, FALSE) /\ sentBack' = target
          /\ UNCHANGED <<asked, known, shown>>
       \/ /\ selected # w /\ w \in known /\ ~Swallows(w) /\ target = NoWindow
          /\ tracker' = Taken(t, a)
          /\ IF w \in Managed /\ Home[w] # shown
             THEN SwitchesTo(w, Remembered(t, a))
             ELSE Selects(w) /\ UNCHANGED <<known, shown, raise, echo>>
          /\ UNCHANGED <<asked, sentBack>>
    /\ UNCHANGED <<macVars, resolved, thread, user, cycled>>

(* A command moves the focus along the workspace shown, or switches to     *)
(* another for one of its windows.                                         *)
OnCommand(w) ==
    /\ user.acts < user.how.acts /\ w \in user.how.command /\ IsStandard(w) /\ selected # w
    /\ user' = [user EXCEPT !.acts = @ + 1] /\ sentBack' = NoWindow /\ cycled' = NoWindow
    /\ shown' = Home[w] /\ selected' = w
    /\ SwitchLasts
    /\ Raises(w, Home[w] # shown)
    /\ UNCHANGED <<macVars, resolved, threadVars, inbox, tracker, known>>

(* Another event, which moves no window, ends the switch.                  *)
SwitchEnds ==
    /\ switching /\ switching' = FALSE
    /\ UNCHANGED <<macVars, resolved, threadVars, inbox, tracker, known, shown, selected,
                   raise, echo, historyVars>>

(* The raise manager is idle, and WINDOW has passed: longer than a report  *)
(* takes to come in, unless reports are slow.                              *)
EchoLapses ==
    /\ echo.believed /\ raise = NoRaise
    /\ \/ SlowReports
       \/ ~wake /\ resolved = NotRead /\ \A i \in DOMAIN inbox : inbox[i].kind # "serverFocus"
    /\ echo' = [echo EXCEPT !.believed = FALSE]
    /\ UNCHANGED <<macVars, resolved, threadVars, inbox, tracker, known, shown, selected,
                   switching, raise, historyVars>>

-----------------------------------------------------------------------------
Init ==
    /\ user \in {[acts |-> 0, how |-> how] : how \in Scenarios}
    /\ mac = [front |-> FirstFront, main |-> FirstMain, key |-> FirstMain]
    /\ open = Window /\ edges = <<>>
    /\ notices = [a \in App |-> <<>>] /\ asked = [a \in App |-> <<>>]
    /\ wake = FALSE /\ resolved = NotRead
    /\ thread = [a \in App |->
         [phase |-> IF a \in user.how.late THEN "yet" ELSE "runs", front |-> a = FirstFront,
          main |-> IF a \in user.how.late THEN NoWindow ELSE FirstMain[a],
          windows |-> IF a \in user.how.late THEN {} ELSE { w \in Window : AppOf[w] = a },
          activation |-> "none", pendingQuiet |-> "none"]]
    /\ inbox = <<>>
    /\ tracker = [NewTracker EXCEPT
         !.apps = [a \in App |-> IF a \in user.how.late THEN NotLaunched
                                 ELSE AppState(a = FirstFront, FirstMain[a])],
         !.globalFront = FirstFront, !.order = <<FirstMain[FirstFront]>>]
    /\ known = { w \in Window : AppOf[w] \notin user.how.late }
    /\ shown = FirstShown /\ selected = FirstMain[FirstFront]
    /\ switching = FALSE /\ raise = NoRaise
    /\ echo = [windows |-> {}, target |-> NoWindow, believed |-> FALSE]
    /\ sentBack = NoWindow /\ cycled = NoWindow

UserActs ==
    /\ user.how.hurried \/ (Quiescent /\ ~echo.believed /\ ~switching)
    /\ \/ \E w \in Window : UserFocuses(w) \/ Closes(w) \/ OnCommand(w)
       \/ \E a \in App : Quits(a)

Resolver == ResolverReads \/ ResolverPublishes

ThreadStep(a) == ThreadHears(a) \/ ThreadAnswers(a) \/ ThreadEnds(a) \/ ThreadStarts(a)

Reactor ==
    /\ \/ OnApplicationLaunched \/ OnApplicationActivated \/ OnGloballyActivated
       \/ OnTracked \/ OnWindowDestroyed \/ OnWindowServerFocusChanged
       \/ OnApplicationTerminated \/ OnApplicationThreadTerminated
    /\ SwitchLasts

Next ==
    \/ Reactor
    \/ /\ user.how.prompt => inbox = <<>>
       /\ \/ UserActs
          \/ Resolver \/ ControllerForwards
          \/ \E a \in App : ThreadStep(a)
          \/ ThreadRaises
          \/ SwitchEnds \/ EchoLapses

(* Each thread and channel gets its turn.                                  *)
Fairness ==
    /\ WF_vars(Resolver) /\ WF_vars(ControllerForwards) /\ WF_vars(ThreadRaises)
    /\ \A a \in App : WF_vars(ThreadStep(a))
    /\ WF_vars(Reactor)

Spec == Init /\ [][Next]_vars

FairSpec == Spec /\ Fairness

-----------------------------------------------------------------------------
(* Properties.                                                             *)

Events ==
    [kind : {"globallyActivated", "globallyDeactivated", "deactivated", "serverFocus", "destroyed",
             "activated", "main", "terminated", "threadTerminated"},
     app : App, window : Window \cup {NoWindow}, flag : BOOLEAN]
    \cup [kind : {"launched"}, app : App, window : Window \cup {NoWindow}, flag : BOOLEAN,
          windows : SUBSET Window]

TypeOK ==
    /\ mac \in [front : App, main : [App -> Managed \cup {NoWindow}],
                key : [App -> Window \cup {NoWindow}]]
    /\ open \subseteq Window
    /\ edges \in Seq(Seq(Events)) /\ inbox \in Seq(Events)
    /\ notices \in [App -> Seq([kind : {"activation", "main", "closed"},
                                window : Window \cup {NoWindow}])]
    /\ wake \in BOOLEAN /\ resolved \in [read : BOOLEAN, window : Window \cup {NoWindow}]
    /\ thread \in [App -> [phase : {"yet", "runs", "ended"}, front : BOOLEAN, main : Window \cup {NoWindow},
                           windows : SUBSET Window, activation : {"none", "quiet", "loud"},
                           pendingQuiet : {"none", "quiet", "loud"}]]
    /\ asked \in [App -> Seq({"activation", "windows", "terminate"})]
    /\ tracker \in Tracker /\ known \subseteq Window
    /\ shown \in Workspace /\ selected \in Managed \cup {NoWindow}
    /\ switching \in BOOLEAN
    /\ raise \in [window : Managed \cup {NoWindow}, quiet : BOOLEAN]
    /\ echo \in [windows : SUBSET Managed, target : Managed \cup {NoWindow}, believed : BOOLEAN]
    /\ user.how \in Scenarios /\ user.acts \in 0..user.how.acts
    /\ sentBack \in Managed \cup {NoWindow} /\ cycled \in Managed \cup {NoWindow}

(* The focus order lists a window once, led by the window the window       *)
(* server last named, which is also the one remembered of its application. *)
OrderLed ==
    /\ \A i, j \in DOMAIN tracker.order : tracker.order[i] = tracker.order[j] => i = j
    /\ tracker.serverFocus # NoWindow =>
         /\ tracker.order # <<>> /\ Head(tracker.order) = tracker.serverFocus
         /\ tracker.lastFocused[AppOf[tracker.serverFocus]] = tracker.serverFocus

(* When every report has come in, in whatever order, the tracker names the *)
(* window macOS has in focus.                                              *)
ReportsSettle ==
    Quiescent /\ tracker.authoritative /\ KeyWindow \in Managed => MainWindow(tracker) = KeyWindow

(* ... and the layout has it selected, on the workspace shown, if each act *)
(* was followed to its end: following the focus never leaves it on a       *)
(* parked window.                                                          *)
LayoutSettles ==
    ~user.how.hurried /\ Quiescent /\ tracker.authoritative /\ KeyWindow \in Managed
    => selected = KeyWindow /\ Home[KeyWindow] = shown

(* Following the focus changes it, which is followed in turn: that comes   *)
(* to an end.                                                              *)
FollowingEnds == <>[]Quiescent

-----------------------------------------------------------------------------
(* Claims the code does not keep.                                          *)

(* An activation sent back to the window the user was in switches no       *)
(* workspace (activation_redirect).                                        *)
SentBackStays == [][shown' # shown => sentBack = NoWindow \/ user' # user]_vars

(* Cycling within an application is left alone (take_activation_target).   *)
CyclingStays ==
    ~user.how.hurried /\ Quiescent /\ cycled \in open /\ Home[cycled] # shown => KeyWindow = cycled
=============================================================================
