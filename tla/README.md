# Verification of rini

rini is a scrolling window manager for macOS (`src/`, an application in Rust built of features, and
`crates/`, its libraries). These TLA+ modules model its concurrent core, TLC checks them on small
instances, and TLAPS proves what is said under "Proofs" for every instance. Paths below are the
repository's.

## The system

One process, many threads, all talking by message. Each feature is pure decisions (`domain/`) and
adapters (`platform/`); the reactor (`src/app/reactor`) owns the features' state, reduces every event
and drives the features back. What makes it hard is that nothing it does to a window is synchronous:
macOS answers late, on other threads, in an order of its own, and what it answers looks the same
whether the user or rini caused it.

| part | state | operations | talks to | what is hard | what makes it correct |
|---|---|---|---|---|---|
| raise manager (`windows/domain/raise.rs`) | the sequence running, the requests waiting, sequence numbers | take a request, a completion, a timeout; start, focus, finish; the timer | the reactor (both ways), each application's thread | presses in a burst, hung applications, a timeout that arrives late | one focus alive, the focus last, nothing orphaned, never blocked |
| raise echo (`windows/domain/focus.rs`) | windows whose focus reports are rini's own, until when | expect, idle, swallows | the reactor, on every raise and focus report | reports arrive after the next request is sent | no report of rini's own raise is taken for the user's |
| application threads (`windows/platform/app_actor`) | windows, main window, activation awaited, transactions seen | raise, activation, frames, windows found and gone | macOS, the reactor, one another through `RAISING` | one mutex across all threads, cancellation, activation that never comes | raises in order, the lock always let go, no thread stuck |
| focus tracking (`windows/domain/focus.rs`, `app/reactor/activation.rs`, `observations.rs`) | main window and frontmost of each application, the window server's focus, the focus order, the window an application was left in | every focus event, rekey, the activation redirect | three channels of macOS reports, the raise manager, layout | reports of one change arrive on several channels in any order | the focus followed is macOS's, and memory never names a window gone |
| window records (`windows/domain/catalogue.rs`, `transaction.rs`, `app_threads.rs`, `attention.rs`) | ids, frames written and not yet confirmed, threads per application | admit, rekey, confirm, retire | application threads, reactor | a frame report races a newer write | a stale report never moves a window back |
| displays (`displays/`) | topology, active spaces, authority of each report, settling | snapshot, settle, activate | CGDisplay and SLS notifications, reactor | churn: displays come and go with partial snapshots | a snapshot is acted on once it is settled and newest |
| layout (`layout/`) | strips, columns, viewport | insert, remove, focus, move, resize | workspaces | long edit sequences | a tree consistent with its selection |
| workspaces (`workspaces/`) | which window is on which workspace, active ones, affinity to displays, launch memory | assign, move, switch, display lost and back, save, restore | reactor, layout, displays | moves while displays change; restarts | every window in exactly one place; homes restored |
| input (`input/`) | keys held, bindings, the switch session | each key event, drag | the event tap, reactor, switcher | a tap that misses an up, modifiers released between | no key swallowed down and passed up |
| switcher, overview (`switcher/`, `overview/`) | entries, cursor, reveal | step, pick, cancel | input, reactor, renderer | released before shown | picks what was shown |
| pictures (`pictures/`) | cache, capture schedule, watches, refresh | ask, deliver, settle, hand over | flight engine, switcher, window server | deliveries late and out of order | no stale picture, no starved client |
| transitions (`transitions/`) | a flight's phase, generation, merges, held frames | begin, merge, tick, deliver, lift, settle | reactor, pictures, renderer | presses merged in flight, late pictures | real frames before the lift, each hold released once |
| animation, decorations, bar, chrome | layers, scores, rest windows, models | render, place, restack | renderer, window server | levels and order read late | what is drawn matches the model |
| application (`app/`) | config, controller, IPC, notifications, power, launch agent | reload, query, command | everything | | |
| crates | run loop, channels, timers, IPC, FFI | | | timers re-armed, senders dropped | no wake-up lost |

## Modules

### `RaiseManager`

Models `windows/domain/raise.rs`, the reactor's two ends of it (`dispatch_raise`, and the relay of
completions, timeouts and idle reports) and `RaiseEcho`. One action per message the manager takes
(`ReceiveRequest`, `ReceiveCompleted`, `ReceiveTimeout`), one per turn of its fixed-point loop
(`AskFocus`, `Finish`, `StartNext`, and `Settle`, which leaves the loop and reports idle), and its
timer. `settling` says the manager is inside `handle_message`: nothing else of the manager happens
then, though the reactor and the applications go on. The deque of waiting requests is a set of
requests with the number each arrived under; dropping from its middle is then a set filter and its
front the least number. A cancellation token is a sequence and how many tokens it had before;
cancelling adds it to a set, which is how an application thread sees it. The warp of the mouse, the
quiet flags and positions are left out: nothing here depends on them.

What applications do is left open in this module (`AppCompletes`, `ThreadEnds`): a completion for any
window asked for, at most once, in any order, or never; a thread may end and its channel refuse the
send. That is the contract the manager relies on.

`EchoLapses` stands for the passing of `believed_until`: 400ms after an idle report, or `BUSY_LIMIT`,
5s after the last request. The second is allowed only when the manager has in fact drained: the
code's comment measures the longest drain at 2.3s, and the echo's cover is conditional on that.

### `AppRaise`

Extends `RaiseManager` with the application threads of `windows/platform/app_actor` and the macOS
they act on. Each thread takes the raises asked of it in order and goes from `locking` (blocked on
`RAISING`) to `waiting` (for its application's activation, holding the lock) to `ordering` (raising
its windows one by one). A thread blocked on the mutex handles nothing, as the code blocks its only
thread there; one waiting for activation still hears notifications and can be ended. macOS posts a
make-key and activates later, in order; a thread hears of an activation and of its main window later
still, or polls. `Terminate` drops the raise under way and with it the guard.

The threads implement the contract: `ImplementsManager` is `RaiseManager`'s own specification, checked
as a property of the composition with the identity mapping, so each thread step is either a step the
manager's model allows or changes nothing it sees.

### `FocusTracker`

`MainWindowTracker` (`windows/domain/focus.rs`) with its `FocusOrder`, as operators: one per event the
tracker takes, from a tracker to a tracker and the window it announces, if any. It has no state of its
own. Left out: `rekey` (a window given a new id) and the generation counters that only log.

### `FocusReports`

How a change of focus reaches the tracker and what the reactor does of it. macOS is its key window,
each application's main window and the application in front. A change is reported three ways, each a
queue of its own: the window server's focus, read by a resolver thread (`window_notify.rs`: a wake,
then a read, then published unless woken again); the edges of the application in front, through the
controller, the two of a switch in either order since they come from two notification centers; and
Accessibility, heard late by each application's thread, which reads what is so then
(`app_actor/activation.rs`, with quiet and loud activations). All three end in the reactor's channel.
The reactor's handlers are one action each: the tracker first, then what the event does: select the
window, switch to its workspace, send the focus back to the window the user was in
(`activation_focus_target`), ask the application's thread, or swallow the report as rini's own.

There is one display with its workspaces, of which one is shown. A raise is one step, the newest
standing for those it supersedes: `AppRaise` has them in detail. A switch under way
(`active_workspace_switch`) ends by any event that moves no window. Left out: several displays,
quarantine during display churn, menus, moving windows of the same group together, and the desktop:
when the last window of the workspace shown closes or its application's thread ends, rini makes the
desktop's window key (`focus_desktop_if_active_workspace_empty`), and here the window server is taken
to name no such window, so the focus stays where macOS put it.
`GetVisibleWindows` is modelled by what it leads to here, the thread reading its main window again.

### `SpacesActor`

Between what macOS says of displays, spaces, sleep and the login window and the reactor, which acts on
one snapshot of the displays at a time. The state is `AuthorityState` (`displays/platform/spaces.rs`)
field by field: the lifecycle holds, the churn with its epoch and run, the refresh, the snapshot last
forwarded and the screen cache; the messages the actor has scheduled to itself on the main queue, as a
count of each kind on its way (`refreshes[attempt]`, `checks[epoch, attempt]`, any of them due at any
moment, which is what the delays and a busy main thread allow); the reactor's channel; and the
reactor's own `RefreshQuarantineManager`, which nothing but what the actor sends moves. One action per
notification and per scheduled message: `Holds` and `Resamples` (sleep, wake, the login window in and
out), `DisplayReconfigured`, `ScreenRefreshRequested`, `ActiveSpaceChanged`, `ActiveDisplayChanged`,
`SpaceInventoryChanged` (a space created or destroyed is handled alike, as is the top band with
`ScreenRefreshRequested`), `ProcessScreenRefresh`, `CheckDisplayStabilization`. A handler samples,
decides and forwards in one step, since all of it runs on the main thread.

macOS is the picture it shows and the notifications it owes of it; it may also notify of nothing new.
A picture is a sequence of displays with the space each shows, none at all, `NoSpace` or a space shown
twice included: those are what a change looks like halfway. `NoPicture` is a listing that fails. What is
assumed of macOS: every change of its picture, a failing listing included, is followed by a
notification. Left out: windows and the deltas of them that are dropped during a churn, space remaps,
which display is the active one, the menu bar's space, Mission Control; of the flags of a
reconfiguration, those that begin a churn are kept.

### `FlightContract` and `Flight`

`FlightContract` is what the transition engine promises whoever it shares the screen with, in three
variables: the hold on the pictures service, whether the reactor has been told of a flight, and whether
the overlay is up. It has one action per thing they see happen (`Begins`, `Shows`, `Hides`, `Settles`,
`Releases`).

`Flight` is the flight in detail: the coordinator (`transitions/domain/lifecycle.rs`), the engine that
carries its commands out and owes effects until the screen answers (`transitions/platform/engine.rs`,
`transitions/domain/drawn.rs`), the renderer's channel (`animation/platform/renderer.rs`), the watch of
the pictures service over a flight's ends (`pictures/domain/watch.rs`) and the reactor's end of all
three. An engine event is one step: the commands of a coordinator event are carried out before the next
event is taken, so each handler is a composition of operators on one record of what the engine's
thread writes to. `RequestBegins`, `RequestMerges` and `RequestPushes` are the presses; `TickDue`,
`ClockRuns`, `TickLifts` the flight's deadlines; `LiftHeard`, `QuietDue`, `QuietRanOut` the way down;
`RenderedHeard` and `PicturesLanded` what comes back late. The renderer draws any number of waiting
batches as one, may fail to make an overlay, and answers by count; pictures come late, in any order,
or never.

`ImplementsContract` is `FlightContract!Spec` under the mapping `hold <- pictures.hold`,
`reported <- reactor.reported`, `up <- renderer.up`: every step of the flight is a step of the
contract or changes nothing it names, however late the renderer and the pictures are.

Left out: what focus and a turned face draw, the background and live watches, the last capture, snaps,
holes, what is drawn at rest, the overview's use of the engine and the journal. A picture of frame zero
counts towards showing the overlay; one that comes after it is shown turns the face a tile starts with
(`lifecycle.rs:1092`), and that is left out with the other faces. A window ends on the
display or off it, never cut by its edge. `Landing`, the phase, is one with `Playing`. An overlay of a
bounce is always made in the run, and the failure to make one is heard before the flight is overdue
(`TickLifts`): see "Seen while modelling".

### `WindowStore` and `Windows`

`WindowStore` is the reactor's store of windows (`windows/domain/catalogue.rs`,
`workspaces/domain/assignment.rs`, `window_store.rs`) as operators from the store before a call to the
store after it, one per method: `links` between rini's windows and the window server's, the records of
native fullscreen with their two indexes, and the workspace assignments.

`Windows` puts three actors around it. macOS and its user open, close, move, renew and fullscreen
windows. One application's thread (`windows/platform/app_actor`) takes the reactor's requests
(`Refreshes`, `Writes`) and macOS's notifications (`SeesCreated`, `SeesMoved`, `SeesDestroyed`,
`Sweeps`, `Quits`), and reports. The reactor takes the reports in order (`TakeCreated`, `TakeFrame`,
`TakeFound`, `TakeDestroyed`, `TakeEnded`), the window server's news of fullscreen and the displays'
snapshots, and writes frames (`Commits`, `CommitsBoth`). Taking a listing in is several steps, as the
code's loops are (`Cleans`, `Syncs`, `Inserts`), and nothing else of the reactor comes between them.
`tx` is the transaction store both sides read. While the displays change the reactor is deaf: in a
`churn` to every report, then `blocked` to what would remove a window, or in Mission Control.

Bounds: one application, two windows, all on the space shown; a registration or a listing never fails;
window-server ids are not used again; elements are renewed only while the reactor is deaf; a churn,
Mission Control and fullscreen do not overlap. Left out: topology deltas and reconciliation,
window-server frame updates, minimizing, zoom, the visible and observed marks, recent paths, the
attention mailbox, the threads of applications that come and go, the wrap of a transaction number.

### `Strip` and `Workspaces`

`Strip` is one scrolling layout (`layout/domain/scrolling.rs` and the modules under it) as operators
from the layout before a call to the layout after it, one per method of `LayoutSystem`: columns with
their widths, the selection, the windows at full width, the neighbour each window taken out of a stack
goes back beside, and the scroll, with the places and views held from press to press. `Pass` is the
layout pass, which measures the columns and settles the scroll.

`Workspaces` is the engine over it (`workspaces/engine.rs` with `commands`, `moves`, `navigation`,
`discovery`, `affinity`): a strip for each workspace, the floating layer, the focus, the last focus of
each workspace and the width each window last had on the display. One action per command or event:
focus in a direction or in turn (`FocusCycled`), move, fold, explode, center, snap, full width, cycle,
resize, floating, switch, move to another workspace with or without following, a click, a zoom, a
window opened, found by a listing (`Discovered`, which keeps the selection), closed or given another
id, an application resizing its window, a drag begun, reported and ended, and the late report of the
focus rini asked for. The pass each of them asks for runs in the same handler, as
`arrange_and_follow_up` does, except while the mouse holds a window, when none runs
(`events/outcome.rs`) and what was pressed is laid out once it is let go.

Left out: row heights, gaps, borders, windows' own size limits, configuration reload, several displays
and affinity to them, floating frames, maximising, launch memory, the cross commands, the window under
the pointer, save and restore, the other layouts. A listing finds one window at a time, and it goes to
the workspace on screen; what a listing takes off a strip, and the focus a rule may ask for with it
(`discovery.rs:98`), are left out. The floating layer is cycled in no order of its own.

### The `Proofs` modules

`RaiseManagerProofs`, `AppRaiseProofs`, `FocusReportsProofs`, `SpacesActorProofs`, `FlightProofs`,
`WindowsProofs` and `WorkspacesProofs` each extend the module they are named for and hold its theorems
and lemmas. `FlightLayoutProofs` extends `FlightProofs` with the theorems on where the windows end. See
"Proofs".

### The `MC` modules

Instances for TLC. `MCRaiseManager` and `MCAppRaise`: application A with two windows, B with one, and
the requests the reactor really builds. A press focuses one window with no raise list; a lift raises
the strip and focuses one of its windows (`regroup.rs`); a restack raises without focusing; in
`AppGone`, and in one batch of the restack, the application has no thread in the handles the request
carries. `MCFocusReports`: application A with a window on each of two workspaces and a panel, B with
one window on the first. `MCSpacesActor`: two displays, with two user spaces, a fullscreen one and the
login window's. `MCFlight`: two windows, two places on the display and one off it. `MCWindows`: two
windows, each with the id it gets from its window-server window and one it may be given before.
`MCWorkspaces`: up to four windows on two workspaces.

Where a module takes a constant `Scenarios`, it is the bound of the run: each member says what may
happen in one behaviour (which requests, how many acts, which faults), `Init` picks one, and a
behaviour spends what it allows. One run then covers several small instances that could not be
covered together, and no action knows which scenario it is in but by what is left to spend.

## Runs

| run | instance | shows |
|---|---|---|
| `raise_kinds` | two requests of any of four kinds, one thread may end, fair | every invariant of the manager over each pair of kinds, running, waiting and superseding; and that the manager always drains (`NeverBlocks`) |
| `raise_timeout` | one request | violated: the finding on timeouts |
| `app_raise` | two requests, both applications, fair; with a dialog, a window that closes and an application that quits | the lock, the order of raises, that the threads keep the manager's contract (`ImplementsManager`) and that none is left holding or waiting for the lock (`NoThreadStuck`) |
| `app_last_press` | two presses | violated: the finding on elided raises |
| `focus` | four acts each followed to its end; two acts at any moment, with an application that launches late or quits; fair | the order and memory agree; the tracker, the selection and the workspace shown end up where macOS has the focus; cycling within an application is left alone; following the focus comes to an end |
| `focus_sent_back` | three changes of focus | violated: the finding on activations sent back |
| `spaces` | three acts of macOS, two displays, fair | nothing scheduled is lost or doubled; what is forwarded is coherent, settled and held back; the reactor holds back what the actor does, and is let go with macOS's picture once macOS stays awake (`Converges`) |
| `spaces_locked` | two acts | violated: the finding on displays that settle at the login window |
| `flight` | three passes, each perhaps held behind the last; two requests with overlays that fail, lifts that are measured, pictures that never come; fair | windows end where they were last sent, written only behind the overlay; pictures are drawn for the end they were taken at; holds agree; the contract is implemented; the flight always ends (`Lands`) |
| `windows` | eleven scenarios over two windows: written while the user moves them, closed or renewed while rini is deaf, fullscreen, renamed early or late, reassigned | the store's indexes agree; rini's own moves are told from the user's; once all is heard rini has each window, where it is, and no other |
| `windows_batch` | a window written to on its own, then in a batch | violated: the finding on batch numbers |
| `workspaces` | eight scenarios of four to seven acts over up to four windows | every window in one column of its own workspace; a key pressed again takes back what it did, and the view with it; the focus in view |

**Bounds of the raises.** `MaxRequests` bounds the requests of a behaviour: two meet in every way one
can meet another, and the manager's invariants are proved for any number. Three windows of two
applications give a batch of two windows, a batch beside the focus window's own, which is held back
for last, and a batch for a thread that is gone. Two batches of different applications in flight at
once are in `app_raise`, whose scenarios are a lift and then a press, presses with a lift, and presses
and restacks over the error paths; two lifts in a row are left out. Timers fire as often as the code
lets them. Since requests run out the system really goes quiet in the end, so deadlock is not checked;
`NeverBlocks` and `NoThreadStuck` say that it went quiet because it was done.

**Bounds of the focus.** A scenario bounds what the user does (`acts`), on which windows, the reactor's
channel (`lag`) and which applications start late; `MaxEdges` bounds the switches the controller is
behind; the channels themselves keep everything. Two acts hurried put the reports of one beside those
of the other, four calm ones reach a memory left by acts before the last. `prompt` has the reactor
take a report before anything else happens, which loses no order between the sources, only the
reactor's own lag. "Calm" (`hurried = FALSE`) is that the user acts once every report is in, the echo
has lapsed and no switch is under way. `SlowReports = FALSE` is the one assumption about time: a report
of the window server comes in before the echo's 400ms after the last raise are over
(`RaiseEcho::WINDOW`; the comment there measured 276ms). Without it two workspaces may take turns for
as long as reports stay late, each raise followed as the user's. `LayoutSettles` is claimed calm only:
hurried, the layout may select a window whose raise was elided on what the thread had last heard,
which is the finding `app_last_press` seen from the other end.

**Bounds of the displays.** `MaxActs` bounds what macOS does: three acts are a reconfiguration inside a
churn inside a hold, or two holds that come off in either order with a change between. `MaxEpoch` is
never in the way: each act moves the epoch by two at most, once begun and once over. `MaxLag` bounds
the reactor's channel, on which the actor does not depend; a full one delays the actor, and the
reactor is always free to drain it. The 10 retries of a refresh and the attempts of a settling are
1: the code tells apart whether one is left and nothing else of their number, and the proofs hold for
any. The two samples in a row that settle a churn are the code's. Nothing bounds how late or in what
order scheduled messages come due. Acts run out, so the system does stop; `Converges` says where.

**Bounds of a flight.** Three passes reach a press that finds a pass held behind another, and one that
moves a window back to an end already drawn; two windows let one hold while the other lands. The
renderer's channel, the pictures on their way and the quiets that have not run out are unbounded but
by the requests.

**Bounds of the windows.** One fullscreen pass: the reactor looks for new windows at every change of
active space (`active_spaces.rs`, `check_for_new_windows`), which the model leaves out, so a second
pass would find an id the code has renewed by then. Each scenario takes one of the things macOS does with what it can race:
two writes with a move of the user's; a window closed, or given other handles or another id, while
rini hears nothing; fullscreen entered and left with the id known late. Two windows are what a batch,
and an id taken from another window, need. Each report of a window in its application's channel is
late by any number of steps.

**Bounds of the workspaces.** Lengths are whole: a viewport of 12, columns of 4 to 10, presets 4, 6 and
12, so that two columns fill the viewport exactly, three overflow it, and a preset is one column can
and one it cannot be bounded by. Four windows make a stack beside two columns. A scenario's `budget`
is its acts; seven reach full width in a stack, another workspace and back.

**Fairness.** The reactor and the manager each drain their channel and the run loop fires the
manager's timer, so those actions are weakly fair. An application is under no fairness in
`RaiseManager`: a hung one is the case the timeout is for. In `AppRaise` a thread's own steps are
fair, a step that waits for the mutex only while it stays free, and macOS is not: an application may
never come to the front. In `FocusReports` the resolver, the controller, the reactor, each
application's thread and the raise are weakly fair, each a thread or channel of its own; the user is
not. In `SpacesActor` macOS posts what it owes, the main queue sends what is scheduled on it and the
reactor drains its channel; nothing makes macOS sleep, wake, change or stop changing. In `Flight` the
engine's thread and the renderer's run, each step enabled by a deadline that comes or a message
waiting; the pictures service is under none. It is stated with `Due`, which says what enables those
steps, as `WF_vars` of them. `Windows` and `Workspaces` claim no liveness: their properties are of
moments when nothing is left to be heard, or of every moment.

## Findings

`PROJECT.json` quotes the lines.

* A timeout carries its sequence only. One fired for a sequence's first raises and delivered once they
  are answered and the focus raise is asked for ends the focus raise (`raise_timeout`). Contrast the
  comment in the `RaiseTimeout` arm. What holds is that the manager recovers: the next request runs.
* A press back to the window still focused is elided on what the thread last heard, with the
  superseded press's activation on its way; the superseded window keeps the focus
  (`app_last_press`).
* An activation whose focus was sent back to the window the user was in is followed all the same: the
  application's own answer, still on its way, names the parked main window and switches to its
  workspace (`focus_sent_back`).
* Displays reconfigured while the login window owns them settle, and the snapshot is forwarded: the
  check that ends a churn looks at the churn alone, where every other path looks at the holds too.
  Contrast `displays/docs/topology.md` (`spaces_locked`).
* A batch of writes numbers every window from its first window's last write, so a window written to
  more often is given a number a write of its own already had: that write's late report is taken for
  the batch's answer, and the batch's own for a move of the user's (`windows_batch`). `windows` claims
  `OwnMovesRecognised` of the windows whose writes have numbers of their own.

### Seen while modelling

With no run of their own.

*Raises and focus.* Batches of different applications race for the mutex, so a raise list over two
of them need not be stacked in its order (`raise.rs:273`); a window remembered from an earlier visit
and not used up redirects a later change within the application when that application's activations
are ignored (`observations.rs:432`); and a panel that takes the focus late puts a destroyed window
back in the order (`focus.rs:205`).

*Displays.* A settled churn forwards displays whose space is not yet known, since only coherence is
asked for there (`settling.rs`); a wake in the middle of a churn adds a second chain of checks of
the same epoch, so the two samples that settle it may be taken one right after the other
(`spaces.rs:225`); a listing that fails with no change behind it has the last picture forwarded as a
fresh one (`spaces.rs:330`); a churn that gives up and then runs out of retries leaves the reactor's
churn awaiting until the next notification; and with a third display, keeping a display's space
through a fullscreen can put a space on two displays of a forwarded snapshot (`snapshot.rs:120`; TLC
finds it with pictures `d1 s1, d2 s2` then `d1 fullscreen, d2 s1, d3 s2`), so `ForwardedCoherent` is
claimed of two.

*Flights.* A bounce whose overlay could not be made, reached by a growing pass that is held, drops the
writes owed for that pass: the flight stays a bounce (`lifecycle.rs:1351`), its own writes are dropped
with it (`drawn.rs:67`), and `Abandon`, by whose comment "Whatever never showed still has to be placed"
(`lifecycle.rs:900`), writes nothing for a bounce. The windows stay where they were until the next pass
that moves them, so `LayoutIsReached` supposes it away and `MCFlight` lets no bounce's overlay fail.
Holding a pass does not bump the generation, so a window sent away and back
while held may be drawn with the picture taken before (`DrawnForItsEnd` says since when). A picture
delivered for an older end overwrites the repaint held for a merge; another is on its way by then. A
press with nothing to draw, during a lift not yet drawn, releases the pictures service with the overlay
still up for that batch. Windows of an earlier flight, overdue, may be written with no overlay over
them (`WrittenBehind` excludes them).

*Windows.* A report without a stamp is always taken for the user's, and a window with no server id has
no number to be told by. Once its application has refused a write, the target stays pending and moves
that are not the mouse's are recorded but not acted on. After a write no answer came to, rini's frame
is the target until the next listing. A window known only by a fallback id is never cleaned as stale.
A record of native fullscreen with no space known stays until one is; a snapshot that shows the space a
window came from drops its record even while it is still in fullscreen; and giving a space another id
does not reach the records that name it.

*Workspaces.* Taking a window back into a stack, and swapping two windows, insert a weight of 1.0 among
heights that are pixels (`scrolling.rs:397`). Replacing a window's id leaves the measured selection
under the old one. The reveal a focus press asks for in its own direction is always overwritten by the
one `apply_focus_response` asks for. A focus press that goes nowhere drops a place that was kept. Width
memory is not updated when full width ends by a column being joined or by a drag. A window brought back
from the floating layer is not given its remembered width. Three presses while a window is held, a
cycle and two folds, return to a view measured before the width changed, and the column may be out of
view. `ToggleFocusFloating` may focus a floating window of another workspace. A switch during a drag
settles no focus.

## Proofs

Eight modules hold theorems. Each proves its properties of `Spec` for every value of the constants
that satisfies the assumptions named under "Assumptions": any windows, applications, displays,
workspaces, scenarios and bounds.

### Raises

`RaiseManagerProofs` proves seven invariants. `TypeOK` and `OneFocusAlive` are inductive. The others
rest on four strengthenings, each proved inductive with `TypeOK`:

* `Tokens`: a cancelled token belongs to a sequence already started and is older than the one the
  running sequence holds. It gives `LiveToken`.
* `Reported`: a completion in either channel is for a window answered for.
* `AllKnown`: of each raise asked for, under the running sequence's token every window is pending or
  answered, under an earlier token it is cancelled, and of another sequence it is no longer live. This
  is what the manager's `pending_raises` and tokens mean, and it is preserved because every way a
  sequence ends either has nothing pending or cancels the token; it gives `NoOrphanRaise`, and with
  `pending` empty, `FocusLast`.
* `Numbered`, `IdleReports` and `Coverage`: requests are numbered in the order they travel, an idle
  report that names all of them finds the manager idle, and the windows of every request on its way,
  waiting or running are covered by the echo. They give `EchoIdleSound` and `EchoCovers`.

`AppRaiseProofs` adds the threads. `ManagerImplemented` is the refinement, `AppSpec =>
ImplementsManager`: initial states map to initial states, and each step of a thread, of macOS or of
the user is a step of the manager's model or leaves it unchanged. What a step needs to be the
manager's `AppCompletes` is `Carrying`: a raise under way is one that was asked for and taken, of a
thread that has not ended, and nothing from the window it has come to onwards is answered. That in turn
needs `AsksApart`: the raises of one sequence are of different windows, its focus included. So every
invariant of the manager holds with the threads in place. `LockIsHeld` (`LockHeld`: `RAISING` is held
by exactly who is waiting for its application or ordering its windows) is inductive with the type of
`jobs`; `RaisesOrdered` (`RaisesInOrder`) follows from each thread taking its raises in the order they
were asked.

### Focus

`FocusReportsProofs` proves three invariants of `FocusReports`. Each event's operator of `FocusTracker`
has lemmas of its own, which the steps cite.

* `TypeOK` needs what is on every channel to be a fact of the windows there are (`Fact`, `WireInv`,
  `ThreadInv`): a report of a window is of one open now, or one whose destruction follows it.
* `OrderLed`, that the order names each window once and is led by the window followed: `Sound`, kept by
  every operator, `Forget` included, which takes a window out wherever it stands.
* `ReportsSettle`, that once nothing is left to be heard the tracker holds what macOS has. Nothing left
  to hear is the last moment of a long argument, so the invariant is of all the moments before.
  `FrontInv`: starting from the application the tracker holds in front, the reports in the channel and
  then the edges the controller still has lead, one after the other, to macOS's application in front,
  in whichever order the two edges of a switch arrive. `KeyInv`: the key window is still to be read
  (a wake waits), or is read and not published, or is what the last report of the window server on its
  way says, or is what the tracker holds, and a report of the end of a window that comes after does not
  change it.

### Displays

`SpacesActorProofs` proves seven properties of `SpacesActor`:

* `RefreshOutstanding` is inductive once typed: every handler that schedules does so from a refresh
  not pending, and the one that takes the attempt off either puts the next in its place or says it is
  over.
* `ChurnChecked` and `SettledSince` are inductive together (`ChurnInv`): a check that is not the last
  schedules the next, the last ends the churn, and a reconfiguration starts the samples over and
  schedules a check of its own epoch.
* `HeldBack` is an action property: what a step sends (`SendStep`) is looked at handler by handler,
  and only the end of a churn reaches `Forwards` with a hold on.
* `OwedWhileBlocked` is inductive with the typing of the reactor's machine and of its channel.
* `QuarantineAgrees`, that the reactor holds back what the actor does once it has heard everything.
  `HearsInv` says so of every moment: there is a chain of what the reactor will believe, from what it
  believes now through each message in the channel, and the chain's end agrees with the actor's holds.
  A message sent lengthens the chain, one heard shortens it from the front.
* `TypeOK` needs what the actor keeps to be pictures of displays with spaces (`ScreensInv`), which is
  where the assumption on `Pictures` comes from, and the epoch to have room for the end of a churn
  (`EpochInv`).

`ForwardedCoherent` is not proved because it is not so for every number of displays: see "Seen while
modelling".

### Flights

`FlightProofs` proves `ContractClear` of the contract: the overlay is never up under the settling hold,
when the screen is captured, and the reactor believes a flight on exactly while the service is held.
That is inductive as it stands. The engine keeps the contract (`FlightKeepsContract`, `Spec =>
ImplementsContract`), hence `CapturedBare`, the same of the engine; and `HoldIsFollowed` (`HoldFollows`:
the service is held exactly while a flight is on, on its way down, or held quiet). The invariant (`IInv`) is where the
renderer's lateness is dealt with. Between the coordinator's decision to lift and the overlay coming
down there are batches in line, batches drawn and unanswered, and answers unheard, so `Stages` says for
each state of the coordinator what all of them hold: `Resting`, `Aloft`, and for a flight that is
settling, `Measured` (the lift waits for its overlay to be measured), `Lowered` (what the lift owes
waits for one batch, and from that batch on none shows the overlay) or `Quiet` (the overlay is down
and nothing in line shows it). `RendererOK` has the answers count up; `quiets` is of generations there
have been, so an old quiet never ends a new flight's hold. `LandedOK` types what the pictures service
delivers. An engine event is a composition of some twenty operators on one record; the lemmas say of
each what it changes of the parts `Stages` looks at (`Fit`, `Along`), and the steps compose them.

`FlightLayoutProofs` proves `LayoutIsReached` (`LayoutReached`: once no flight is on and no write waits,
every window is where the reactor last sent it), `FlightTyped` (`TypeOK`) and `CountedTogether`
(`HeldTogether`, the first half of `HeldKept`: the coordinator and the engine count the same passes
held). The second invariant (`LaidInv`, with `LaidOut`) says where the layout is at every moment. A
window's place is in one of three: written already; in the last of the writes owed that moves it
(`Reaches`); or among the frames the flight or a held pass will still write (`Layout`, `FinalFrom`).

* Writes are owed in the order of the batches they wait for (`Queued`), so carrying out those up to a
  batch leaves each window's last one last (`CommittedReaches`).
* Until a flight shows none of its frames is written, and from then on all of them are; it owes writes
  of its own windows alone (`OwnOf`). So an overlay that fails may drop what its flight owed: `Abandon`
  writes those windows again.
* What it must not drop is the write of an earlier flight. The renderer answers by count, and an answer
  for batches it could not draw may come while another flight is on. `Heeds` says that no write of an
  earlier flight waits for a batch later than the one such an answer is for, so hearing it carries them
  out first.
* A merge held, a pass held after another, and their merge at the end leave each window at the last
  pass that moves it (`HeldUp`, `FinalFrom`; `RetargetLaid` by the least counterexample over the passes
  held).

Each operator has a lemma that it keeps `Sound` and `LaidOut`; the steps compose them. The theorem
supposes `[]PushesShow`: no bounce with a pass held over it hears that its overlay could not be made.
Without it the property is false of the code (see "Seen while modelling"), and in the run's instance it
always holds, for there no bounce's overlay fails. `LaidInv` itself, and so `FlightTyped` and
`CountedTogether`, need no such hypothesis.

### Windows

`WindowsProofs` proves `StoreAgrees` of `Windows`, with the index of native fullscreen among the three,
and its types:

* First every operation of `WindowStore` keeps the store typed and its links, records and homes in
  agreement by itself, whatever it is called with: one lemma per operation (`LinkOK`, `TransferOK`,
  `RemapSpaceOK`...). An index agrees with the one it inverts because whatever takes an entry from one
  takes it from the other.
* `WindowsInv` is that of the store together with the types of everything the three actors exchange
  and that the reactor believes a frame of exactly the windows with a state. The second part is needed
  because a report names a window, a server and a frame that an operation is then called with; it is
  preserved because each actor only sends what it has.
* `MacOSKeeps`, `ThreadKeeps` and the lemmas of the reactor's actions prove it inductive, one step per
  action; `StoreAgreesAlways` and `TypesHold` follow from `WindowsInvHolds`.

`RecordsFound` is claimed of the window-server window, not of the record: a record left by an id that
is gone may be of the same window-server window as the new id's, the index names one of the two, and
removing either clears it (`catalogue.rs:121`, `catalogue.rs:146`). That the new id's record is then
still found through the links is what TLC checks.

### Workspaces

`WorkspacesProofs` proves `StripsAgree`: every open window is afloat or in one column of its own
workspace's strip and of no other, and a strip remembers only windows it has. The invariant (`Inv`) is
`WindowsInv`, the homes, the floating layer, the focus, the widths remembered and the drag, with
`StripsInv`: each strip is `Good`, has `Lengths`, and holds exactly the windows whose home it is less
those afloat. A strip is good when it is typed, lists no window twice, has its selection, gives a
window at full width a column to itself, remembers beside others of its own the windows taken out of
stacks, has such memory of full width only for windows at full width, and holds the scroll for its
selection alone. Each of these is needed:

* A window taken back into a stack is put beside the one remembered, so the memory must name a window
  of the strip and not itself, or it would be inserted where there is no column, or lost.
* A column is exploded, or a window widened, out of the stack it is in, so one at full width must be
  in none, or its neighbours would be remembered twice.
* `Lengths` and the intents have a held place be a share with a positive divisor; without it the
  scroll would not be a number, and no pass over it typed.

The argument goes by operation of `Strip`. `Whole` is what lets one be called; `Changes(s, t)` says the
columns of `t` are good with the same windows, for operations that leave the rest as it was; `Keeps`
says the strip as a whole is still good with the same windows, and composes, so a command is the chain
of what it calls. `Inserted`, `Removed` and `Replaced` are those that change which windows there are.
The steps of `Workspaces` then move windows between homes and strips together (`StripsAre`), one lemma
per command or event. `ExplodeFold`, which takes the windows of a column out one after another, is by
induction over how many are out.

It also proves `FocusInView`: with no window held, another pass over the strip would change nothing,
and once a press, a click or a report selected a window, or a window joined the strip on screen, the
selected column is wholly on screen. By itself
that is not inductive. A fold out of a stack keeps the view of the column it leaves, and the fold back
in asks for that view, whatever the column's width is by then; so `ViewInv` has with it that the view
kept would show whole every column a press to that side goes to (`Returns`). The argument:

* A pass spends what was asked of it (`PassIs`, `PassTwice`), and shows the selected column whole when
  it is asked to bring it into view, or for a view in which a column of that width is whole (`Sighted`,
  `PassInView`).
* Every operation of `Strip` leaves the strip as it was, or its selection to be brought into view and
  no view kept (`Fresh`). The folds are the exception. Out of a stack, the view kept is one the
  strip at rest was in, and the column left behind is as wide as it was (`FoldOutSees`); back in, the
  column joined is as wide as the view kept supposes, or the memory is gone (`FoldedInWidth`,
  `FoldInSees`).
* A window that joins a strip, opened, found, taken down from the floating layer or sent there, has its
  own column brought into view and no view kept (`InsertAims`), and the width it last had, given it
  before the pass, changes neither (`WidthAims`).
* The reactor's commands then all end in a pass or leave the strip alone (`LaidView`, `FreedView`); one
  that puts another workspace on screen shows it freshly (`ShownView`); a window renamed leaves the
  strip alike in all a pass measures (`ReplacedRests`). The strip as it starts shows its first column
  from the left edge (`StartedViews`).

### Assumptions and limits

**Assumptions.** All are about the constants, named where they are declared, and TLC evaluates each:
`AppOfAssumption`, `NoWindowAssumption`, `RequestsAssumption`, `MaxRequestsAssumption` and
`MayQuitAssumption` (`RaiseManager`), `NoAppAssumption`, `InFrontAssumption` and `ScenariosAssumption`
(`AppRaise`), `TrackerAssumption` (the windows are finitely many, so the order is), `ReportsAssumption`,
`SpacesAssumption` (a picture is a sequence of displays, each with a space or none),
`FlightAssumption`, `SentinelAssumption`, `FiniteAssumption`, `RecordAssumption`, `IdAssumption`,
`FrameAssumption` and `ScenarioAssumption` (`Windows`), `StripAssumption` (lengths are positive, a
column's bounds are in order and within the viewport) and `WorkspacesAssumption` (a scenario starts
with each window in at most one column, and its amounts are numbers).

**Induction.** The library's induction theorems take an operator, which the provers cannot
instantiate. Where a definition recurs over a number, the proof goes by the least counterexample
instead: `NatLessThanWellFounded` and `WFMin` give that a set of naturals with 0 and every successor is
all of them (`SetInduction`), and the set is then of the numbers up to which the function is as
claimed. So the recursive functions are over numbers (`Sift`, `Ends`, `SplitOutEach`), never over a
sequence or a set.

**Model-checked only.** Liveness (`NeverBlocks`, `NoThreadStuck`, `FollowingEnds`, `Converges`,
`Lands`) and fairness, out of the provers' reach. `ForwardedCoherent`, claimed of two displays. What
`FocusReports` claims of the layout (`LayoutSettles`, `CyclingStays`), which is so of calm moments and
rests on the echo's timing. Of `Flight`, the pictures' half of `HeldKept`, `DrawnForItsEnd` and
`WrittenBehind`, which are of what each window's track holds and of when the overlay covers it. Of `Windows`, `RecordsFound`,
`OwnMovesRecognised`, `CarriedOver` and what is claimed once all is heard: they rest on what every
channel still holds of each window, within the bounds each scenario states. Of `Workspaces`,
`PressedTwice` and `PlaceKept`, which compare the strip with what it was some presses earlier.

## Not modelled

* Input and the switcher: the router over held keys and the session of the switch. The event tap that
  misses a release (`held_keys.rs:83`) is the one hazard listed with no property.
* Batches of different applications racing for the mutex, a deactivation that lags behind the next
  activation of its application, and a listing of windows for pictures that returns after a transition
  took the hold: known, and outside the modules there are.
* The pictures' schedule, cache and refresh at rest; the decorations' rest windows; the run loop's
  timers and wake-ups. They are state machines within TLC's reach and are next in the plan.
* Several displays in `Workspaces`, affinity, launch memory, save and restore.
* Animation's curves, layer geometry and the overview's scenes: floating-point functions of time.
* Configuration, the command line, IPC, bar, chrome and the window rules: parsing, printing, or pure
  views and predicates with no state to go wrong over steps. The bindings only declare.

## Plan

1. Raises: `RaiseManager`, `AppRaise`. Left: liveness stays with TLC.
2. Focus tracking: `FocusTracker`, `FocusReports`. Left: `rekey`, several displays; `CyclingStays` proved.
3. Displays: `SpacesActor`. Left: space remaps, which display is active.
4. The flight: `FlightContract`, `Flight`. Left: the pictures' half of `HeldKept`, `DrawnForItsEnd` and
   `WrittenBehind` proved.
5. Window records: `WindowStore`, `Windows`. Left: the threads of applications that come and go.
6. Workspaces: `Strip`, `Workspaces`. Left: several displays, the width memory of each, `PressedTwice`
   proved, from a fold out of a stack and the fold back in.
7. Input: the router over held keys and the switch session.
8. Pictures' schedule and refresh at rest; decorations at rest; the run loop's timer and channel.
