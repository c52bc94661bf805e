---------------------------- MODULE RaiseManager ----------------------------
(***************************************************************************)
(* The raise manager (src/windows/domain/raise.rs), with the reactor it    *)
(* talks through and the reactor's record of the focus reports its raises  *)
(* are about to cause (RaiseEcho, src/windows/domain/focus.rs).            *)
(*                                                                         *)
(* The reactor sends raise requests.  The manager runs one sequence at a   *)
(* time: it asks every application for its batch, waits for a completion   *)
(* per window, and asks for the batch holding the focus window last.  A    *)
(* newer request that focuses takes the place of an older one; a sequence  *)
(* that hangs is timed out, the timeout going out to the reactor and back. *)
(*                                                                         *)
(* What an application does with a raise is left open here: it answers for *)
(* the windows asked for in any order, late, or never.  AppRaise describes *)
(* the application threads and is checked to implement this.               *)
(***************************************************************************)
EXTENDS Naturals, Sequences, Functions

CONSTANTS
    Window,       \* windows rini knows
    App,          \* applications, one thread each
    AppOf,        \* the application owning each window
    NoWindow,     \* no focus window
    Requests,     \* the raise requests the reactor may send
    MaxRequests,  \* bound: how many it sends in a behaviour
    MayQuit       \* bound: applications that may quit

(* One application's windows on one space, in raise order (AppBatch).      *)
Batch == { b \in Seq(Window) :
             b # <<>> /\ IsInjective(b) /\ \A i \in DOMAIN b : AppOf[b[i]] = AppOf[b[1]] }

(* A window is in one batch at most: the raise list names each once.       *)
(* handles: the applications whose thread the reactor knew when it sent.   *)
RaiseRequest ==
    { r \in [batches : Seq(Batch), focus : Window \cup {NoWindow}, handles : SUBSET App] :
        \A i, j \in DOMAIN r.batches :
            i # j => Range(r.batches[i]) \cap Range(r.batches[j]) = {} }

ASSUME AppOfAssumption       == AppOf \in [Window -> App]
ASSUME NoWindowAssumption    == NoWindow \notin Window
ASSUME RequestsAssumption    == Requests \subseteq RaiseRequest
ASSUME MaxRequestsAssumption == MaxRequests \in Nat
ASSUME MayQuitAssumption     == MayQuit \subseteq App

VARIABLES
    inbox,      \* the manager's channel, from the reactor
    reactor,    \* the reactor's channel: what the manager and the applications report
    sent,       \* RaiseEcho.sent: requests the reactor has sent
    echo,       \* the rest of RaiseEcho: the windows believed to be echoes, and until when
    active,     \* the sequence running, or NoSequence
    queued,     \* requests waiting, each with its number of arrival: the deque, oldest least
    nextId,     \* next_sequence_id
    seen,       \* requests_seen
    settling,   \* handle_message is in its fixed-point loop
    wasBusy,    \* was_busy of the run loop
    cancelled,  \* cancelled tokens: a sequence and which of its tokens
    asked,      \* every Request::Raise sent to an application's thread
    answered,   \* the windows applications have answered for, each with its sequence
    ended       \* applications whose thread has ended, closing its channel

managerVars == <<active, queued, nextId, seen, settling, wasBusy, cancelled, asked>>

vars == <<inbox, reactor, sent, echo, managerVars, answered, ended>>

-----------------------------------------------------------------------------
(* Data.                                                                   *)

BatchWindows(r) == UNION { Range(r.batches[i]) : i \in DOMAIN r.batches }

Focuses(r) == r.focus # NoWindow

Windows(r) == BatchWindows(r) \cup ({r.focus} \ {NoWindow})

Supersedes(r, older) == Focuses(r) /\ Windows(older) \subseteq Windows(r)

(* No active sequence.  batch is focus_batch, <<>> once taken; gen counts  *)
(* the sequence's tokens, a new one after each timeout.                    *)
NoSequence == [id |-> 0, focus |-> NoWindow, pending |-> {}, batch |-> <<>>,
               handles |-> {}, gen |-> 0, timedOut |-> FALSE]

Running == active.id # 0

Token(s) == <<s.id, s.gen>>

IsBusy == Running \/ queued # {}

(* The batch with w moved last, the last window taking w's place.          *)
SwapLast(b, w) ==
    LET i == CHOOSE i \in DOMAIN b : b[i] = w
    IN  [b EXCEPT ![i] = b[Len(b)], ![Len(b)] = w]

Holding(r) == { i \in DOMAIN r.batches : r.focus \in Range(r.batches[i]) }

FocusBatch(r) ==
    IF Holding(r) # {} THEN SwapLast(r.batches[CHOOSE i \in Holding(r) : TRUE], r.focus)
    ELSE IF Focuses(r) THEN <<r.focus>> ELSE <<>>

(* The batches asked for first: without the focus window, and of           *)
(* applications whose thread is known and takes the request.               *)
Sendable(r) ==
    { i \in DOMAIN r.batches \ Holding(r) : AppOf[r.batches[i][1]] \in r.handles \ ended }

(* A Request::Raise.  part is its batch's place in the sequence, 0 for the *)
(* focus batch.                                                            *)
Ask(id, gen, part, windows) ==
    [app |-> AppOf[windows[1]], id |-> id, gen |-> gen, part |-> part, windows |-> windows]

RequestMsg(n, r)   == [type |-> "request", n |-> n, req |-> r]
CompletedMsg(w, i) == [type |-> "completed", window |-> w, id |-> i]
TimeoutMsg(i, p)   == [type |-> "timeout", id |-> i, focusAsked |-> p]
IdleMsg(n)         == [type |-> "idle", n |-> n]

-----------------------------------------------------------------------------
(* The reactor.                                                            *)

(* RaiseEcho::expect for the request's windows.  The newest request's      *)
(* focus window is never an echo.                                          *)
Expect(r) ==
    [windows  |-> ((IF echo.believed THEN echo.windows ELSE {})
                     \cup BatchWindows(r) \cup ({echo.target} \ {NoWindow})) \ {r.focus},
     target   |-> r.focus,
     idle     |-> FALSE,
     believed |-> TRUE]

DispatchRaise(r) ==
    /\ sent < MaxRequests
    /\ sent' = sent + 1
    /\ echo' = Expect(r)
    /\ inbox' = Append(inbox, RequestMsg(sent + 1, r))
    /\ UNCHANGED <<reactor, managerVars, answered, ended>>

(* A completion or a timeout is handed on to the manager.                  *)
RelayRaise ==
    /\ reactor # <<>>
    /\ Head(reactor).type \in {"completed", "timeout"}
    /\ reactor' = Tail(reactor)
    /\ inbox' = Append(inbox, Head(reactor))
    /\ UNCHANGED <<sent, echo, managerVars, answered, ended>>

EndsEchoAlways(n) == TRUE

(* RaiseEcho::idle: a report made before the latest request was seen does  *)
(* not end the echo.                                                       *)
EndsEcho(n) == n >= sent

TakeRaisesIdle ==
    /\ reactor # <<>>
    /\ Head(reactor).type = "idle"
    /\ reactor' = Tail(reactor)
    /\ echo' = [echo EXCEPT !.idle = @ \/ EndsEcho(Head(reactor).n)]
    /\ UNCHANGED <<inbox, sent, managerVars, answered, ended>>

(* believed_until passes: WINDOW after the idle report, or BUSY_LIMIT      *)
(* after the last request when none comes.  A drain is taken to be shorter *)
(* than BUSY_LIMIT, as the code's comment measures it.                     *)
EchoLapses ==
    /\ echo.believed
    /\ echo.idle \/ (inbox = <<>> /\ ~settling /\ ~IsBusy)
    /\ echo' = [echo EXCEPT !.believed = FALSE]
    /\ UNCHANGED <<inbox, reactor, sent, managerVars, answered, ended>>

-----------------------------------------------------------------------------
(* The application threads, as the manager may rely on them: an answer is  *)
(* for a window asked for in that sequence, and comes once.                *)

AppCompletes(m, w) ==
    /\ m.app \notin ended
    /\ <<w, m.id>> \notin answered
    /\ answered' = answered \cup {<<w, m.id>>}
    /\ reactor' = Append(reactor, CompletedMsg(w, m.id))
    /\ UNCHANGED <<inbox, sent, echo, managerVars, ended>>

(* The reactor has asked the thread to end, its application gone.          *)
ThreadEnds(a) ==
    /\ a \in MayQuit \ ended
    /\ ended' = ended \cup {a}
    /\ UNCHANGED <<inbox, reactor, sent, echo, managerVars, answered>>

-----------------------------------------------------------------------------
(* The manager: one message, then the fixed-point loop, then the idle      *)
(* check at the top of the run loop.                                       *)

Receive(type) ==
    /\ ~settling
    /\ inbox # <<>>
    /\ Head(inbox).type = type
    /\ inbox' = Tail(inbox)
    /\ settling' = TRUE
    /\ UNCHANGED <<reactor, sent, echo, nextId, wasBusy, asked, answered, ended>>

(* The waiting requests r leaves: one that focuses drops those that focus  *)
(* or that it covers.                                                      *)
Kept(r) == { q \in queued : Focuses(r) => ~Focuses(q.req) /\ ~Supersedes(r, q.req) }

RevokedNone == cancelled

(* raise_token.cancel() of the running sequence.                           *)
Revoked == cancelled \cup {Token(active)}

OvertakenWaiting(r) == Focuses(r) /\ active.batch # <<>>

(* A request that focuses cancels the running sequence that focuses.       *)
Overtaken(r) == Focuses(r) /\ active.focus # NoWindow

ReceiveRequest ==
    LET r     == Head(inbox).req
        entry == [n |-> Head(inbox).n, req |-> r]
    IN
    /\ Receive("request")
    /\ seen' = seen + 1
    /\ queued' = Kept(r) \cup {entry}
    /\ IF Overtaken(r)
       THEN active' = NoSequence /\ cancelled' = Revoked
       ELSE UNCHANGED <<active, cancelled>>

ReceiveCompleted ==
    /\ Receive("completed")
    /\ active' = IF Head(inbox).id = active.id
                 THEN [active EXCEPT !.pending = @ \ {Head(inbox).window}]
                 ELSE active
    /\ UNCHANGED <<queued, seen, cancelled>>

GivenUpTimerSpent(s) == [s EXCEPT !.pending = {}, !.gen = @ + 1]

(* The hung raises given up.  The focus raise that may follow gets a fresh *)
(* token, and the timer starts again.                                      *)
GivenUp(s) == [s EXCEPT !.pending = {}, !.gen = @ + 1, !.timedOut = FALSE]

ReceiveTimeout ==
    /\ Receive("timeout")
    /\ IF Head(inbox).id = active.id
       THEN active' = GivenUp(active) /\ cancelled' = Revoked
       ELSE UNCHANGED <<active, cancelled>>
    /\ UNCHANGED <<queued, seen>>

FocusDueAtOnce == active.batch # <<>>

FocusDue == active.pending = {} /\ active.batch # <<>>

(* process_active_sequence with the focus batch left to ask for.  The      *)
(* sequence ends at once when its application has no thread.               *)
AskFocus ==
    /\ settling /\ Running /\ FocusDue
    /\ IF AppOf[active.batch[1]] \in active.handles \ ended
       THEN /\ active' = [active EXCEPT !.pending = Range(active.batch), !.batch = <<>>]
            /\ asked' = asked \cup {Ask(active.id, active.gen, 0, active.batch)}
       ELSE active' = NoSequence /\ UNCHANGED asked
    /\ UNCHANGED <<inbox, reactor, sent, echo, queued, nextId, seen, settling,
                   wasBusy, cancelled, answered, ended>>

(* process_active_sequence with everything answered for.                   *)
Finish ==
    /\ settling /\ Running /\ active.pending = {} /\ active.batch = <<>>
    /\ active' = NoSequence
    /\ UNCHANGED <<inbox, reactor, sent, echo, queued, nextId, seen, settling,
                   wasBusy, cancelled, asked, answered, ended>>

(* start_new_sequence: nothing stays active when no thread was asked and   *)
(* nothing is to be focused.                                               *)
Started(r) ==
    LET pending == UNION { Range(r.batches[i]) : i \in Sendable(r) } IN
    IF pending # {} \/ FocusBatch(r) # <<>>
    THEN [id |-> nextId, focus |-> r.focus, pending |-> pending, batch |-> FocusBatch(r),
          handles |-> r.handles, gen |-> 0, timedOut |-> FALSE]
    ELSE NoSequence

(* process_queued_responses: the oldest waiting request starts.            *)
StartNext ==
    /\ settling /\ ~Running
    /\ \E q \in queued :
        /\ \A other \in queued : q.n <= other.n
        /\ queued' = queued \ {q}
        /\ active' = Started(q.req)
        /\ asked' = asked \cup { Ask(nextId, 0, i, q.req.batches[i]) : i \in Sendable(q.req) }
    /\ nextId' = nextId + 1
    /\ UNCHANGED <<inbox, reactor, sent, echo, seen, settling, wasBusy, cancelled, answered, ended>>

(* Nothing left to change: back to the run loop, which reports the end of  *)
(* a busy stretch.                                                         *)
Settle ==
    /\ settling
    /\ IF Running THEN active.pending # {} ELSE queued = {}
    /\ settling' = FALSE
    /\ wasBusy' = IsBusy
    /\ reactor' = IF wasBusy /\ ~IsBusy THEN Append(reactor, IdleMsg(seen)) ELSE reactor
    /\ UNCHANGED <<inbox, sent, echo, active, queued, nextId, seen, cancelled, asked, answered, ended>>

(* TIMEOUT_DURATION after the sequence started, or after its last timeout  *)
(* was taken: once until the reactor hands the timeout back.  The message  *)
(* names the sequence only; focusAsked records which raise had hung.       *)
TimerFires ==
    /\ ~settling /\ Running /\ ~active.timedOut
    /\ active' = [active EXCEPT !.timedOut = TRUE]
    /\ reactor' = Append(reactor, TimeoutMsg(active.id, active.batch = <<>>))
    /\ UNCHANGED <<inbox, sent, echo, queued, nextId, seen, settling, wasBusy,
                   cancelled, asked, answered, ended>>

-----------------------------------------------------------------------------
Init ==
    /\ inbox = <<>> /\ reactor = <<>>
    /\ sent = 0
    /\ echo = [windows |-> {}, target |-> NoWindow, idle |-> FALSE, believed |-> FALSE]
    /\ active = NoSequence /\ queued = {}
    /\ nextId = 1 /\ seen = 0
    /\ settling = FALSE /\ wasBusy = FALSE
    /\ cancelled = {} /\ asked = {} /\ answered = {} /\ ended = {}

Relay == RelayRaise \/ TakeRaisesIdle

Receives == ReceiveRequest \/ ReceiveCompleted \/ ReceiveTimeout

Loops == AskFocus \/ Finish \/ StartNext \/ Settle

Apps == \E m \in asked : \E w \in Range(m.windows) : AppCompletes(m, w)

Next ==
    \/ \E r \in Requests : DispatchRaise(r)
    \/ Relay \/ EchoLapses
    \/ Receives \/ Loops \/ TimerFires
    \/ Apps \/ \E a \in App : ThreadEnds(a)

(* The reactor and the manager each drain their channel and the timer      *)
(* fires; an application may never answer.                                 *)
Fairness ==
    /\ WF_vars(Relay) /\ WF_vars(EchoLapses)
    /\ WF_vars(Receives) /\ WF_vars(Loops) /\ WF_vars(TimerFires)

Spec == Init /\ [][Next]_vars

FairSpec == Spec /\ Fairness

-----------------------------------------------------------------------------
(* Properties.                                                             *)

SequenceId == Nat \ {0}

Sequence ==
    [id : SequenceId, focus : Window \cup {NoWindow}, pending : SUBSET Window,
     batch : Batch \cup {<<>>}, handles : SUBSET App, gen : Nat, timedOut : BOOLEAN]

AskRecord ==
    [app : App, id : SequenceId, gen : Nat, part : Nat, windows : Batch]

RequestMsgs == [type : {"request"}, n : Nat, req : Requests]
RaiseMsgs   == [type : {"completed"}, window : Window, id : SequenceId]
                 \cup [type : {"timeout"}, id : SequenceId, focusAsked : BOOLEAN]
IdleMsgs    == [type : {"idle"}, n : Nat]

TypeOK ==
    /\ inbox \in Seq(RequestMsgs \cup RaiseMsgs)
    /\ reactor \in Seq(RaiseMsgs \cup IdleMsgs)
    /\ sent \in 0..MaxRequests /\ seen \in Nat
    /\ echo \in [windows : SUBSET Window, target : Window \cup {NoWindow},
                 idle : BOOLEAN, believed : BOOLEAN]
    /\ active \in Sequence \cup {NoSequence}
    /\ queued \subseteq [n : Nat, req : Requests]
    /\ nextId \in SequenceId
    /\ settling \in BOOLEAN /\ wasBusy \in BOOLEAN
    /\ cancelled \subseteq SequenceId \X Nat
    /\ asked \subseteq AskRecord
    /\ answered \subseteq Window \X SequenceId /\ ended \subseteq App

(* A raise an application may still carry out.                             *)
Live(m) ==
    /\ <<m.id, m.gen>> \notin cancelled
    /\ \E w \in Range(m.windows) : <<w, m.id>> \notin answered

(* The running sequence always holds a live token, so what it asks next is *)
(* not rejected as cancelled by the application, never to be answered      *)
(* (comment in the RaiseTimeout arm of handle_message).                    *)
LiveToken == Running => Token(active) \notin cancelled

(* Of the requests running and waiting, one at most focuses: presses that  *)
(* come while a raise runs never leave an older focus to be given late.    *)
OneFocusAlive ==
    \A q \in queued : Focuses(q.req) =>
        /\ active.focus = NoWindow
        /\ \A other \in queued : Focuses(other.req) => other = q

(* A sequence ends, or moves on to its focus raise after a timeout, only   *)
(* with every raise it asked for answered or cancelled: none is left on an *)
(* application's thread to run, unwatched, beside a later one.             *)
NoOrphanRaise == \A m \in asked : Live(m) => m.id = active.id

(* The focus window is raised last: no other raise of its sequence can     *)
(* still be carried out when its own is asked.                             *)
FocusLast ==
    \A f, m \in asked : f.part = 0 /\ m.part # 0 /\ m.id = f.id => ~Live(m)

(* The echo is taken to end only with the manager idle and nothing on its  *)
(* way there: an idle report made before a newer request is not believed.  *)
EchoIdleSound == echo.idle => ~IsBusy /\ seen = sent

(* While a raise can still be carried out, a focus report for any of its   *)
(* windows is swallowed as an echo, or is for the window wanted.           *)
EchoCovers ==
    \A m \in asked : Live(m) =>
        echo.believed /\ Range(m.windows) \subseteq echo.windows \cup {echo.target}

(* The echo is believed for just as long as it is needed: it ends only     *)
(* with nothing still to be raised, and until then a report of any window  *)
(* the manager's raises may focus is not taken for the user's.             *)
EchoSound == EchoIdleSound /\ EchoCovers

(* However applications behave, the manager gets through its requests: no  *)
(* hung raise blocks the ones after it.                                    *)
NeverBlocks == []<>~IsBusy

(* A timeout that ends a focus raise was fired for it.  The comment in the *)
(* RaiseTimeout arm gives the focus phase its own timeout; the code lets   *)
(* one fired for the raises before it end the focus raise.                 *)
FocusTimeoutIsItsOwn ==
    ~settling /\ inbox # <<>> /\ Head(inbox).type = "timeout" =>
        (Head(inbox).id = active.id /\ active.focus # NoWindow /\ active.batch = <<>>
            => Head(inbox).focusAsked)
=============================================================================
