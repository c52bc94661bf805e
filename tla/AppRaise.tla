------------------------------ MODULE AppRaise ------------------------------
(***************************************************************************)
(* The application threads carrying out the raise manager's raises         *)
(* (src/windows/platform/app_actor/raise.rs), and the part of macOS they   *)
(* act on: which application is in front and each application's main       *)
(* window.                                                                 *)
(*                                                                         *)
(* Each application has one thread, raising one batch at a time.  RAISING  *)
(* is a mutex across all of them, held from before the first window is     *)
(* made key until the last is raised, the wait for the application to come *)
(* to the front included.  The manager takes part only through the tokens  *)
(* it cancels and the completions it is sent.                              *)
(***************************************************************************)
EXTENDS RaiseManager, FiniteSets

CONSTANTS
    NoApp,        \* nobody: the mutex is free, or no ask is being carried out
    InFront,      \* the window focused at the start
    Scenarios     \* bound: which requests are sent, of which windows and applications

ASSUME NoAppAssumption == NoApp \notin App
ASSUME InFrontAssumption == InFront \in Window

(* A scenario: which request is sent when, the windows whose subrole is not the     *)
(* standard one, those the window server will not make key, those that may *)
(* close, and the applications that may quit.                              *)
ASSUME ScenariosAssumption ==
    Scenarios \subseteq [requests : [1..MaxRequests -> SUBSET Requests], dialogs : SUBSET Window, keyless : SUBSET Window,
                         mayClose : SUBSET Window, mayQuit : SUBSET MayQuit]

VARIABLES
    jobs,        \* per application thread: the raise it is carrying out
    raising,     \* holder of RAISING, or NoApp
    taken,       \* asks a thread has taken up
    mainWindow,  \* State.main_window of each thread: what it last heard
    begun,       \* history: the asks that touched a window
    frontmost,   \* macOS: the application in front
    axMain,      \* macOS: each application's main window
    posted,      \* macOS: windows made key, the activation they cause not yet there
    edge,        \* macOS: applications whose activation was not yet reported to their thread
    closed,      \* windows that are gone
    scenario     \* which of the scenarios this is

threadVars == <<jobs, raising, taken, mainWindow, begun>>
macVars    == <<frontmost, axMain, posted, edge, closed>>
appVars    == <<vars, threadVars, macVars, scenario>>

-----------------------------------------------------------------------------
(* A job's phase: locking on RAISING, waiting for activation, ordering the *)
(* rest.  at is the window to raise next; raised when the first was raised *)
(* before the wait.                                                        *)
NoJob == [phase |-> "idle", ask |-> NoApp, at |-> 0, raised |-> FALSE]

Job(phase, m, raised) == [phase |-> phase, ask |-> m, at |-> 1, raised |-> raised]

IsCancelled(m) == <<m.id, m.gen>> \in cancelled

(* The order asks reach a thread in: by sequence, the focus batch last.    *)
Before(m, other) ==
    \/ m.id < other.id
    \/ m.id = other.id /\ m.part # 0 /\ (other.part = 0 \/ m.part < other.part)

Drop(a) == jobs' = [jobs EXCEPT ![a] = NoJob]

ReleaseForgotten(a) == UNCHANGED raising

Release(a) == raising' = IF raising = a THEN NoApp ELSE raising

(* An Accessibility raise.                                                 *)
AxRaise(w) == axMain' = [axMain EXCEPT ![AppOf[w]] = w]

AnswerFirst(m, w) ==
    /\ reactor' = Append(reactor, CompletedMsg(m.windows[1], m.id))
    /\ answered' = answered \cup {<<m.windows[1], m.id>>}

(* A completion reported.                                                  *)
Answer(m, w) ==
    /\ reactor' = Append(reactor, CompletedMsg(w, m.id))
    /\ answered' = answered \cup {<<w, m.id>>}

Unreported == UNCHANGED <<reactor, answered>>

ManagerIdle == UNCHANGED <<inbox, sent, echo, managerVars, ended>>

-----------------------------------------------------------------------------
(* The raise leaves the thread's channel.  Cancelled, or with its first    *)
(* window gone (is_standard_window fails), it ends unreported.             *)
TakeRaise(a) ==
    /\ jobs[a].phase = "idle" /\ a \notin ended
    /\ \E m \in asked \ taken :
        /\ m.app = a
        /\ \A other \in asked \ taken : other.app = a => ~Before(other, m)
        /\ taken' = taken \cup {m}
        /\ jobs' = IF IsCancelled(m) \/ m.windows[1] \in closed THEN jobs
                   ELSE [jobs EXCEPT ![a] = Job("locking", m, FALSE)]
    /\ ManagerIdle /\ Unreported
    /\ UNCHANGED <<raising, mainWindow, begun, macVars>>

GivesUpCareless(m) == m.windows[1] \in closed

(* The check after the lock, and the lookups that fail once it is gone.    *)
GivesUp(m) == IsCancelled(m) \/ m.windows[1] \in closed

(* RAISING.lock() returns, and the raise is given up.                      *)
LockInVain(a) ==
    /\ jobs[a].phase = "locking" /\ raising = NoApp
    /\ GivesUp(jobs[a].ask)
    /\ Drop(a)
    /\ ManagerIdle /\ Unreported
    /\ UNCHANGED <<raising, taken, mainWindow, begun, macVars>>

IsFocused(a, m) ==
    frontmost = a /\ mainWindow[a] = m.windows[1] /\ Len(m.windows) = 1

(* A raise of the one window already focused is reported and not made.     *)
Elide(a) ==
    LET m == jobs[a].ask IN
    /\ jobs[a].phase = "locking" /\ raising = NoApp
    /\ ~GivesUp(m) /\ IsFocused(a, m)
    /\ Answer(m, m.windows[1])
    /\ begun' = begun \cup {m}
    /\ Drop(a)
    /\ ManagerIdle
    /\ UNCHANGED <<raising, taken, mainWindow, macVars>>

Waits(a, w) == frontmost # a /\ w \notin scenario.keyless \cup scenario.dialogs

(* The first window is made key.  Of an application in the background it   *)
(* is raised as well, and the thread waits for the activation.             *)
MakeKey(a) ==
    LET m == jobs[a].ask
        w == m.windows[1]
    IN
    /\ jobs[a].phase = "locking" /\ raising = NoApp
    /\ ~GivesUp(m) /\ ~IsFocused(a, m)
    /\ raising' = a
    /\ begun' = begun \cup {m}
    /\ posted' = IF w \in scenario.keyless THEN posted ELSE Append(posted, w)
    /\ IF Waits(a, w)
       THEN jobs' = [jobs EXCEPT ![a] = Job("waiting", m, TRUE)] /\ AxRaise(w)
       ELSE jobs' = [jobs EXCEPT ![a] = Job("ordering", m, FALSE)] /\ UNCHANGED axMain
    /\ ManagerIdle /\ Unreported
    /\ UNCHANGED <<taken, mainWindow, frontmost, edge, closed>>

Activated(a) == [jobs EXCEPT ![a].phase = "ordering"]

(* The activation is seen by asking, every 10ms.                           *)
SeeFrontmost(a) ==
    /\ jobs[a].phase = "waiting" /\ frontmost = a
    /\ jobs' = Activated(a)
    /\ ManagerIdle /\ Unreported
    /\ UNCHANGED <<raising, taken, mainWindow, begun, macVars>>

(* The activation is reported, the application in front by now or not: it  *)
(* ends the wait and the thread reads the main window again.               *)
HearActivation(a) ==
    /\ a \in edge /\ jobs[a].phase \in {"idle", "waiting"} /\ a \notin ended
    /\ edge' = edge \ {a}
    /\ mainWindow' = [mainWindow EXCEPT ![a] = axMain[a]]
    /\ jobs' = IF jobs[a].phase = "waiting" THEN Activated(a) ELSE jobs
    /\ ManagerIdle /\ Unreported
    /\ UNCHANGED <<raising, taken, begun, frontmost, axMain, posted, closed>>

(* Cancelled while waiting: the raise ends unreported, its make-key stays. *)
CancelWait(a) ==
    /\ jobs[a].phase = "waiting" /\ IsCancelled(jobs[a].ask)
    /\ Drop(a) /\ Release(a)
    /\ ManagerIdle /\ Unreported
    /\ UNCHANGED <<taken, mainWindow, begun, macVars>>

IsLast(j) == j.at = Len(j.ask.windows)

(* raise_in_order, one window.  The token is not looked at again.  A       *)
(* window that is gone ends the batch.                                     *)
RaiseNext(a) ==
    LET j    == jobs[a]
        w    == j.ask.windows[j.at]
        done == j.raised /\ j.at = 1
    IN
    /\ j.phase = "ordering"
    /\ IF w \in closed /\ ~done
       THEN Drop(a) /\ Release(a) /\ Unreported /\ UNCHANGED <<axMain, mainWindow>>
       ELSE /\ Answer(j.ask, w)
            /\ IF done THEN UNCHANGED axMain ELSE AxRaise(w)
            /\ IF IsLast(j)
               THEN Drop(a) /\ Release(a) /\ mainWindow' = [mainWindow EXCEPT ![a] = axMain'[a]]
               ELSE jobs' = [jobs EXCEPT ![a].at = @ + 1] /\ UNCHANGED <<raising, mainWindow>>
    /\ ManagerIdle
    /\ UNCHANGED <<taken, begun, frontmost, posted, edge, closed>>

(* Request::Terminate, taken at an await: the raise under way is dropped   *)
(* and with it the guard.  A thread blocked on RAISING takes nothing.      *)
Terminate(a) ==
    /\ a \in scenario.mayQuit /\ jobs[a].phase \in {"idle", "waiting"}
    /\ ThreadEnds(a)
    /\ Drop(a) /\ Release(a)
    /\ UNCHANGED <<taken, mainWindow, begun, frontmost, axMain, posted, edge, closed>>

-----------------------------------------------------------------------------
(* macOS.                                                                  *)

(* The oldest make-key takes effect.                                       *)
Activate ==
    LET w == Head(posted)
        a == AppOf[w]
    IN
    /\ posted # <<>>
    /\ posted' = Tail(posted)
    /\ IF w \in closed \/ a \in ended
       THEN UNCHANGED <<frontmost, axMain, edge>>
       ELSE /\ frontmost' = a
            /\ edge' = IF frontmost = a THEN edge ELSE edge \cup {a}
            /\ AxRaise(w)
    /\ ManagerIdle /\ Unreported
    /\ UNCHANGED <<threadVars, closed>>

(* A main-window notification reaches the thread.                          *)
HearMainWindow(a) ==
    /\ mainWindow[a] # axMain[a] /\ jobs[a].phase \in {"idle", "waiting"} /\ a \notin ended
    /\ mainWindow' = [mainWindow EXCEPT ![a] = axMain[a]]
    /\ ManagerIdle /\ Unreported
    /\ UNCHANGED <<jobs, raising, taken, begun, macVars>>

Close(w) ==
    /\ w \in scenario.mayClose \ closed
    /\ closed' = closed \cup {w}
    /\ ManagerIdle /\ Unreported
    /\ UNCHANGED <<threadVars, frontmost, axMain, posted, edge>>

-----------------------------------------------------------------------------
AppInit ==
    /\ Init
    /\ jobs = [a \in App |-> NoJob] /\ raising = NoApp
    /\ taken = {} /\ begun = {}
    /\ frontmost = AppOf[InFront]
    /\ axMain \in { f \in [App -> Window] : \A a \in App : AppOf[f[a]] = a }
    /\ axMain[AppOf[InFront]] = InFront
    /\ mainWindow = axMain
    /\ posted = <<>> /\ edge = {}
    /\ closed = {}
    /\ scenario \in Scenarios

ManagerStep ==
    /\ \/ sent < MaxRequests /\ \E r \in scenario.requests[sent + 1] : DispatchRaise(r)
       \/ Relay \/ EchoLapses \/ Receives \/ Loops \/ TimerFires
    /\ UNCHANGED <<threadVars, macVars>>

(* What a thread does without waiting for anyone but RAISING's holder and  *)
(* the manager.                                                            *)
ThreadStep(a) ==
    \/ TakeRaise(a) \/ LockInVain(a) \/ Elide(a) \/ MakeKey(a)
    \/ SeeFrontmost(a) \/ CancelWait(a) \/ RaiseNext(a)

MacStep ==
    \/ Activate
    \/ \E a \in App : HearActivation(a) \/ HearMainWindow(a) \/ Terminate(a)
    \/ \E w \in Window : Close(w)

AppNext ==
    /\ ManagerStep \/ (\E a \in App : ThreadStep(a)) \/ MacStep
    /\ UNCHANGED scenario

AppSpec == AppInit /\ [][AppNext]_appVars

(* No fairness of macOS: an application may never come to the front.       *)
AppFairSpec ==
    /\ AppSpec
    /\ WF_appVars(Relay /\ UNCHANGED <<threadVars, macVars, scenario>>)
    /\ WF_appVars(Receives /\ UNCHANGED <<threadVars, macVars, scenario>>)
    /\ WF_appVars(Loops /\ UNCHANGED <<threadVars, macVars, scenario>>)
    /\ WF_appVars(TimerFires /\ UNCHANGED <<threadVars, macVars, scenario>>)
    /\ \A a \in App : WF_appVars(ThreadStep(a) /\ UNCHANGED scenario)

-----------------------------------------------------------------------------
(* Properties.                                                             *)

(* RAISING is held exactly by the thread in the middle of a raise: every   *)
(* way out of a raise lets go of it.                                       *)
LockHeld ==
    \A a \in App : jobs[a].phase \in {"waiting", "ordering"} <=> raising = a

(* The threads and the manager together are the raise manager's contract:  *)
(* a window is answered for once, and only while it was asked for.         *)
ImplementsManager == Spec

(* Across all applications, raises happen in the order the manager asked:  *)
(* while a thread is in the middle of a raise, none of a later sequence,   *)
(* nor its own sequence's focus batch, has touched a window.  A raise      *)
(* given up for a newer one never comes after it.                          *)
RaisesInOrder ==
    \A a \in App : jobs[a].phase \in {"waiting", "ordering"} =>
        \A m \in begun :
            /\ m.id <= jobs[a].ask.id
            /\ m.id = jobs[a].ask.id /\ m.part = 0 => jobs[a].ask = m

(* No thread stays in a raise for good, though macOS may never bring its   *)
(* application to the front and RAISING keeps every other waiting.         *)
NoThreadStuck == \A a \in App : []<>(jobs[a].phase = "idle")

-----------------------------------------------------------------------------
(* Claims the code does not keep.                                          *)

Quiescent ==
    /\ inbox = <<>> /\ reactor = <<>> /\ ~settling /\ ~IsBusy
    /\ posted = <<>> /\ edge = {} /\ asked = taken
    /\ \A a \in App : jobs[a] = NoJob

(* The last press's window is focused once its raise is reported done      *)
(* (specs/focus.md, "Rapid presses").                                      *)
LastPressFocused ==
    Quiescent /\ echo.target # NoWindow
    /\ (\E m \in asked : m.part = 0 /\ m.id = nextId - 1 /\ <<echo.target, m.id>> \in answered)
    => axMain[frontmost] = echo.target
=============================================================================
