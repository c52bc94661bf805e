------------------------------- MODULE Windows -------------------------------
(***************************************************************************)
(* The windows of one application as macOS has them, as the application's  *)
(* thread tracks them (src/windows/platform/app_actor) and as the reactor  *)
(* believes them to be (src/app/reactor/events/window.rs,                  *)
(* window_discovery.rs, present.rs), over the reactor's window store.      *)
(*                                                                         *)
(* Three actors.  macOS and its user open, close, move and fullscreen      *)
(* windows and replace the handles rini holds of them.  The thread takes   *)
(* the reactor's requests and macOS's notifications and reports.  The      *)
(* reactor takes the reports, in the order the thread made them, and       *)
(* writes frames, each write under a number the thread stamps its reports  *)
(* with so that rini's own moves are told from the user's.                 *)
(***************************************************************************)
EXTENDS WindowStore, Integers, Sequences

CONSTANTS
    Canonical,  \* [Server -> Window], the id a window has once its server id is readable
    Fallback,   \* [Server -> Window], the id it is given until then
    Frame, NoFrame,
    Landing,    \* [Frame -> SUBSET Frame], where a window written to a frame may end
    Scenarios   \* what macOS, the user and the layout do: the bound of a run

ASSUME IdAssumption ==
    /\ Canonical \in [Server -> Window] /\ Fallback \in [Server -> Window]
    /\ \A s, t \in Server : /\ Canonical[s] # Fallback[t]
                            /\ s # t => Canonical[s] # Canonical[t] /\ Fallback[s] # Fallback[t]
    /\ \A w \in Window : \E s \in Server : w \in {Canonical[s], Fallback[s]}

ASSUME FrameAssumption == NoFrame \notin Frame /\ Landing \in [Frame -> SUBSET Frame \ {{}}]

ASSUME ScenarioAssumption == \A scenario \in Scenarios : scenario.first \subseteq Server

VARIABLES
    store,    \* the reactor's windows
    tx,       \* WindowTxStore, which both sides read: the last write's number and its target
    thread,   \* the application's thread: the element it holds of each window, its server, its last write
    mac,      \* the windows there are, where, and what is still to be told of them
    inbox,    \* requests on their way to the thread
    events,   \* reports on their way to the reactor
    reactor,  \* frames believed, what it is deaf to, and the listing it is taking in
    seen,     \* what the properties remember
    left      \* what the scenario has left to do

vars == <<store, tx, thread, mac, inbox, events, reactor, seen, left>>

ServerOf(w) == CHOOSE s \in Server : w \in {Canonical[s], Fallback[s]}
NoTx == [id |-> 0, target |-> NoFrame]
Unstamped == -1
Spend(kind) == left[kind] > 0 /\ left' = [left EXCEPT ![kind] = @ - 1]

-----------------------------------------------------------------------------
(* macOS and its user.                                                     *)

Live(w) == thread.elem[w] = "live"
Holders(s) == {w \in {Canonical[s], Fallback[s]} : thread.elem[w] # "none"}
(* The windows of AXWindows: those of the space on screen.                 *)
Listed == mac.open \ mac.full

Die(s) == [w \in Window |-> IF w \in Holders(s) THEN "dead" ELSE thread.elem[w]]

Opens(s) ==
    /\ mac.running /\ s \in left.opens
    /\ \E f \in Frame,
          full \in (IF left.fullscreens > 0 /\ reactor.deaf = "no" THEN BOOLEAN ELSE {FALSE}) :
        /\ left' = [left EXCEPT !.opens = @ \ {s}, !.fullscreens = IF full THEN @ - 1 ELSE @]
        /\ mac' = [mac EXCEPT !.open = @ \cup {s}, !.frame[s] = f,
                              !.full = IF full THEN @ \cup {s} ELSE @,
                              !.news[s] = IF full THEN <<"fullscreen">> ELSE <<>>,
                              !.notices = @ \cup {<<"created", s>>}]
    /\ UNCHANGED <<store, tx, thread, inbox, events, reactor, seen>>

(* The window server's id of a window becomes readable.                    *)
Named(s) ==
    /\ s \in mac.open \ mac.readable
    /\ mac' = [mac EXCEPT !.readable = @ \cup {s}]
    /\ UNCHANGED <<store, tx, thread, inbox, events, reactor, seen, left>>

Closes(s) ==
    /\ s \in mac.open /\ Spend("closes")
    /\ thread' = [thread EXCEPT !.elem = Die(s)]
    /\ mac' = [mac EXCEPT !.open = @ \ {s}, !.full = @ \ {s}, !.news[s] = <<>>,
                          !.notices = (@ \ {<<"created", s>>, <<"moved", s>>})
                                          \cup {<<"destroyed", w>> : w \in Holders(s)}]
    /\ UNCHANGED <<store, tx, inbox, events, reactor, seen>>

(* After a wake a window's element is another; the old one's destruction   *)
(* may be told, and of what it was told before nothing more is read.       *)
Renews(s) ==
    /\ s \in mac.open \cap mac.readable /\ reactor.deaf \in {"churn", "blocked"} /\ Spend("renews")
    /\ thread' = [thread EXCEPT !.elem = Die(s)]
    /\ \E told \in BOOLEAN :
           mac' = [mac EXCEPT !.notices = (@ \ {<<"created", s>>, <<"moved", s>>})
                       \cup (IF told THEN {<<"destroyed", w>> : w \in Holders(s)} ELSE {})]
    /\ UNCHANGED <<store, tx, inbox, events, reactor, seen>>

(* Only the window of an element the thread observes is told to have moved.*)
Told(s) == IF \E w \in Holders(s) : Live(w) THEN {<<"moved", s>>} ELSE {}

UserMoves(s) ==
    /\ s \in Listed /\ Spend("moves")
    /\ \E f \in Frame \ {mac.frame[s]} :
           mac' = [mac EXCEPT !.frame[s] = f, !.byUser = @ \cup {s}, !.notices = @ \cup Told(s)]
    /\ UNCHANGED <<store, tx, thread, inbox, events, reactor, seen>>

UserPresses ==
    /\ Spend("clicks")
    /\ mac' = [mac EXCEPT !.mouse = ~@]
    /\ UNCHANGED <<store, tx, thread, inbox, events, reactor, seen>>

EntersFullscreen(s) ==
    /\ s \in Listed /\ reactor.deaf = "no" /\ Spend("fullscreens")
    /\ mac' = [mac EXCEPT !.full = @ \cup {s}, !.news[s] = Append(@, "fullscreen")]
    /\ UNCHANGED <<store, tx, thread, inbox, events, reactor, seen>>

LeavesFullscreen(s) ==
    /\ s \in mac.full /\ reactor.deaf = "no"
    /\ mac' = [mac EXCEPT !.full = @ \ {s}, !.news[s] = Append(@, "user")]
    /\ UNCHANGED <<store, tx, thread, inbox, events, reactor, seen, left>>

-----------------------------------------------------------------------------
(* The application's thread.                                               *)

SysId(s) == IF s \in mac.readable THEN s ELSE NoServer

(* The window an element of s is, as the thread knows it: by its server    *)
(* id if that is readable, else by the element; NoWindow if it is not.     *)
Id(s) == IF s \in mac.readable /\ thread.elem[Canonical[s]] # "none" THEN Canonical[s]
         ELSE IF \E w \in Holders(s) : Live(w) THEN CHOOSE w \in Holders(s) : Live(w)
         ELSE NoWindow

NewId(s) == IF s \in mac.readable THEN Canonical[s] ELSE Fallback[s]

FromStore(s) == IF s # NoServer /\ tx[s].target # NoFrame THEN tx[s].id ELSE Unstamped

(* The number of the write a report about w may answer.                    *)
Stamp(w) == IF FromStore(thread.server[w]) # Unstamped THEN FromStore(thread.server[w])
            ELSE IF thread.seen[w] # 0 THEN thread.seen[w] ELSE Unstamped

(* The windows of S taken on, or bound to the element they have now.       *)
Bind(S) ==
    LET News == {s \in S : Id(s) = NoWindow}
        Of(w) == {s \in S : w = IF s \in News THEN NewId(s) ELSE Id(s)}
    IN  [elem   |-> [w \in Window |-> IF Of(w) # {} THEN "live" ELSE thread.elem[w]],
         server |-> [w \in Window |->
             IF Of(w) # {} /\ ~Live(w) /\ SysId(ServerOf(w)) # NoServer
             THEN SysId(ServerOf(w)) ELSE thread.server[w]],
         seen   |-> [w \in Window |->
             IF Of(w) \cap News = {} THEN thread.seen[w]
             ELSE IF FromStore(SysId(ServerOf(w))) # Unstamped THEN FromStore(SysId(ServerOf(w))) ELSE 0]]

Untrack(w) ==
    thread' = [thread EXCEPT !.elem[w] = "none", !.server[w] = NoServer, !.seen[w] = 0]

Frames(w, f, last, requested, mouse) ==
    [kind |-> "frame", window |-> w, frame |-> f, last |-> last, requested |-> requested,
     mouse |-> mouse, byUser |-> ServerOf(w) \in mac.byUser]

(* A refresh asked for by GetVisibleWindows: every window on the space is  *)
(* taken on or bound again, and all are reported, in any order.            *)
Refreshes ==
    /\ mac.running /\ inbox # <<>> /\ Head(inbox).kind = "refresh"
    /\ inbox' = Tail(inbox)
    /\ thread' = Bind(Listed)
    /\ \E order \in [1..Cardinality(Listed) -> Listed] :
           /\ \A i, j \in DOMAIN order : i # j => order[i] # order[j]
           /\ events' = Append(events, [kind |-> "found", list |->
                  [i \in DOMAIN order |->
                      [window |-> IF Id(order[i]) # NoWindow THEN Id(order[i]) ELSE NewId(order[i]),
                       server |-> SysId(order[i]), frame |-> mac.frame[order[i]]]]])
    /\ seen' = [seen EXCEPT !.unanswered = @ \ Listed]
    /\ UNCHANGED <<store, tx, mac, reactor, left>>

(* A frame written.  A window the thread does not track is skipped, one    *)
(* whose element has died is retired, and an application too busy to       *)
(* answer where the window ended is not asked again; any other failure to  *)
(* answer leaves the rest of its batch unwritten.                          *)
Writes ==
    /\ mac.running /\ inbox # <<>> /\ Head(inbox).kind = "write"
    /\ LET q == Head(inbox)
           s == ServerOf(q.window)
           rest == {ServerOf(inbox[i].window) : i \in 2..(1 + q.more)}
       IN  \/ /\ thread.elem[q.window] = "none"
              /\ inbox' = Tail(inbox)
              /\ UNCHANGED <<thread, mac, events, seen, left>>
           \/ /\ thread.elem[q.window] = "dead"
              /\ Untrack(q.window)
              /\ inbox' = Tail(inbox)
              /\ events' = Append(events, [kind |-> "destroyed", window |-> q.window])
              /\ UNCHANGED <<mac, seen, left>>
           \/ /\ Live(q.window)
              /\ thread' = [thread EXCEPT !.seen[q.window] = q.id]
              /\ \E f \in Landing[q.frame] :
                     /\ mac' = [mac EXCEPT !.frame[s] = f,
                                           !.byUser = IF f = mac.frame[s] THEN @ ELSE @ \ {s},
                                           !.notices = @ \cup IF f = mac.frame[s] THEN {} ELSE Told(s)]
                     /\ \/ /\ events' = Append(events,
                                  [Frames(q.window, f, q.id, TRUE, "unread") EXCEPT
                                      !.byUser = f = mac.frame[s] /\ s \in mac.byUser])
                           /\ seen' = [seen EXCEPT !.unanswered = @ \ {s}]
                           /\ inbox' = Tail(inbox)
                           /\ UNCHANGED left
                        \/ /\ Spend("busy")
                           /\ \/ /\ inbox' = Tail(inbox)
                                 /\ seen' = [seen EXCEPT !.unanswered = @ \cup {s}]
                              \/ /\ inbox' = SubSeq(inbox, 2 + q.more, Len(inbox))
                                 /\ seen' = [seen EXCEPT !.unanswered = @ \cup {s} \cup rest]
                           /\ UNCHANGED events
    /\ UNCHANGED <<store, tx, reactor>>

(* Requests go first, so a notification is heard once there are none.      *)
Hears(notice) == inbox = <<>> /\ notice \in mac.notices /\ mac' = [mac EXCEPT !.notices = @ \ {notice}]

SeesCreated(s) ==
    /\ Hears(<<"created", s>>)
    /\ IF Id(s) = NoWindow
       THEN /\ thread' = Bind({s})
            /\ events' = Append(events, [kind |-> "created", window |-> NewId(s),
                                         server |-> SysId(s), frame |-> mac.frame[s]])
       ELSE UNCHANGED <<thread, events>>
    /\ UNCHANGED <<store, tx, inbox, reactor, seen, left>>

SeesMoved(s) ==
    /\ Hears(<<"moved", s>>)
    /\ \E w \in Holders(s) :
           /\ Live(w)
           /\ events' = Append(events, Frames(w, mac.frame[s], Stamp(w), FALSE,
                                              IF mac.mouse THEN "down" ELSE "up"))
    /\ seen' = [seen EXCEPT !.unanswered = @ \ {s}]
    /\ UNCHANGED <<store, tx, thread, inbox, reactor, left>>

(* A destruction is the window's only if the element is still the one it   *)
(* is bound to.                                                            *)
SeesDestroyed(w) ==
    /\ Hears(<<"destroyed", w>>)
    /\ IF thread.elem[w] = "dead"
       THEN Untrack(w) /\ events' = Append(events, [kind |-> "destroyed", window |-> w])
       ELSE UNCHANGED <<thread, events>>
    /\ UNCHANGED <<store, tx, inbox, reactor, seen, left>>

(* The sweep at a change of main window.                                   *)
Sweeps(w) ==
    /\ inbox = <<>> /\ thread.elem[w] = "dead"
    /\ Untrack(w)
    /\ events' = Append(events, [kind |-> "destroyed", window |-> w])
    /\ UNCHANGED <<store, tx, mac, inbox, reactor, seen, left>>

(* The thread ends: rini has asked it to, or its application has gone.     *)
Quits ==
    /\ Spend("quits")
    /\ thread' = [elem |-> [w \in Window |-> "none"], server |-> [w \in Window |-> NoServer],
                  seen |-> [w \in Window |-> 0]]
    /\ mac' = [mac EXCEPT !.running = FALSE, !.open = {}, !.full = {}, !.notices = {}, !.news = [s \in Server |-> <<>>]]
    /\ events' = Append(events, [kind |-> "ended"])
    /\ inbox' = <<>>
    /\ UNCHANGED <<store, tx, reactor, seen>>

-----------------------------------------------------------------------------
(* The reactor.  One step of it is one event or one command; a listing is  *)
(* taken in window by window with nothing of the reactor's in between.     *)

Free == reactor.gone = {} /\ reactor.todo = <<>> /\ reactor.fresh = <<>>
Has(w) == store.links.state[w] # NoState
(* Every request of the windows, but while that is held back: one is made  *)
(* when it no longer is.                                                   *)
Sent(requests) == IF mac.running THEN inbox \o requests ELSE inbox
Asks == IF reactor.deaf \in {"churn", "blocked"} THEN inbox ELSE Sent(<<[kind |-> "refresh"]>>)

Takes(kind) ==
    /\ Free /\ events # <<>> /\ Head(events).kind = kind
    /\ events' = Tail(events)

(* A window closed, for good as far as rini is told.                       *)
Destroy(w) ==
    IF w \in store.links.known
    THEN LET s == store.links.serverOf[w]
             bare == IF s = NoServer THEN store
                     ELSE [store EXCEPT !.links = RemoveServer(@, s)]
         IN  /\ tx' = [x \in Server |-> IF x = s THEN NoTx ELSE tx[x]]
             /\ store' = LetGo(Remove(bare, w), w)
    ELSE UNCHANGED <<tx, store>>

(* A window's frame is known as long as its state is.                      *)
Believes(frames) == [w \in Window |-> IF store'.links.state[w] = NoState THEN NoFrame ELSE frames[w]]

TakeCreated ==
    /\ Takes("created")
    /\ LET e == Head(events)
           tracked == IF e.server = NoServer THEN store ELSE Track(store, e.server, e.window)
       IN  IF reactor.deaf = "churn" THEN UNCHANGED <<store, tx, reactor>>
           ELSE /\ store' = Insert(tracked, e.window, e.server)
                /\ tx' = [s \in Server |-> IF s = e.server THEN [tx[s] EXCEPT !.target = e.frame] ELSE tx[s]]
                /\ reactor' = [reactor EXCEPT !.frames = Believes([@ EXCEPT ![e.window] = e.frame])]
    /\ UNCHANGED <<thread, mac, inbox, seen, left>>

TakeDestroyed ==
    /\ Takes("destroyed")
    /\ IF reactor.deaf \in {"churn", "blocked"} THEN UNCHANGED <<store, tx, reactor>>
       ELSE /\ Destroy(Head(events).window)
            /\ reactor' = [reactor EXCEPT !.frames = Believes(@)]
    /\ UNCHANGED <<thread, mac, inbox, seen, left>>

TakeEnded ==
    /\ Takes("ended")
    /\ store' = RemoveApp(store)
    /\ tx' = [s \in Server |-> IF \E w \in store.links.listed : store.links.serverOf[w] = s
                               THEN NoTx ELSE tx[s]]
    /\ reactor' = [reactor EXCEPT !.frames = Believes(@)]
    /\ UNCHANGED <<thread, mac, inbox, seen, left>>

(* What a report of a frame is: a late one of an older write, the answer   *)
(* to the newest one, an answer in any case, or a move of the user's.      *)
Sees(e) == store.links.state[e.window]
Awaited(e) == Sees(e) \in Server /\ tx[Sees(e)].target # NoFrame /\ e.last # Unstamped
LateNever(e) == FALSE
Late(e) == Awaited(e) /\ e.last # tx[Sees(e)].id
Pressed(e) == IF e.mouse = "unread" THEN mac.mouse ELSE e.mouse = "down"
Answers(e) == Awaited(e) /\ ~Late(e) /\ ~Pressed(e)
UsersMove(e) ==
    /\ Has(e.window) /\ reactor.deaf \notin {"churn", "mission"}
    /\ ~Late(e) /\ ~Answers(e) /\ ~e.requested
    /\ reactor.frames[e.window] # e.frame

TakeFrameAsAsked ==
    /\ Takes("frame")
    /\ LET e == Head(events)
           s == Sees(e)
       IN  IF ~Has(e.window) \/ reactor.deaf \in {"churn", "mission"} \/ Late(e)
           THEN UNCHANGED <<tx, reactor>>
           ELSE /\ reactor' = IF Answers(e) THEN reactor
                              ELSE [reactor EXCEPT !.frames[e.window] = e.frame]
                /\ tx' = [x \in Server |-> IF x = s THEN [tx[x] EXCEPT !.target = NoFrame] ELSE tx[x]]
    /\ UNCHANGED <<store, thread, mac, inbox, seen, left>>

TakeFrame ==
    /\ Takes("frame")
    /\ LET e == Head(events)
           s == Sees(e)
           recorded == [reactor EXCEPT !.frames[e.window] = e.frame]
           cleared == [x \in Server |-> IF x = s THEN [tx[x] EXCEPT !.target = NoFrame] ELSE tx[x]]
           pressed == Awaited(e) /\ ~Late(e) /\ Pressed(e)
       IN  IF ~Has(e.window) \/ reactor.deaf \in {"churn", "mission"} \/ Late(e)
           THEN UNCHANGED <<tx, reactor, seen>>
           ELSE /\ reactor' = recorded
                /\ tx' = IF IF Answers(e) THEN e.frame = tx[s].target ELSE pressed \/ e.requested
                         THEN cleared ELSE tx
                /\ seen' = IF pressed THEN [seen EXCEPT !.pressed = @ \cup {s}] ELSE seen
    /\ UNCHANGED <<store, thread, mac, inbox, left>>

(* A listing: the windows it leaves out that look gone are destroyed, all  *)
(* of them unless the world is mid-change, or it names none and none is    *)
(* known to be visible; then each window of it is taken in; then those     *)
(* that are new.                                                           *)
TakeFound ==
    /\ Takes("found")
    /\ LET list == Head(events).list
           absent == {w \in Window : /\ store.links.state[w] \in Server \ mac.open
                                     /\ \A i \in DOMAIN list : list[i].window # w}
       IN  IF reactor.deaf \in {"churn", "blocked"} THEN UNCHANGED <<reactor, seen>>
           ELSE \E gone \in {absent, {}} :
                    /\ reactor.deaf = "mission" => gone = {}
                    /\ gone = absent \/ reactor.deaf = "mission" \/ mac.mouse \/ list = <<>>
                    /\ reactor' = [reactor EXCEPT !.gone = gone, !.todo = list]
                    /\ seen' = [seen EXCEPT !.spared = absent \ gone]
    /\ UNCHANGED <<store, tx, thread, mac, inbox, left>>

Cleans(w) ==
    /\ w \in reactor.gone
    /\ Destroy(w)
    /\ reactor' = [reactor EXCEPT !.gone = @ \ {w}, !.frames = Believes(@)]
    /\ UNCHANGED <<thread, mac, inbox, events, seen, left>>

(* s is listed as w's, which had old: what another id had of s is w's now, *)
(* and a fullscreen record of a window seen where it came from is done.    *)
Mapping(w, old, s) ==
    LET freed == IF old \in Server \ {s} /\ store.links.windowOf[old] = w
                 THEN [store EXCEPT !.links = RemoveServer(@, old)] ELSE store
        previous == freed.links.windowOf[s]
        tracked == Track(freed, s, w)
        moved == IF previous \in {NoWindow, w} THEN tracked
                 ELSE Remove(Transfer(tracked, previous, w), previous)
        o == Original(moved.native, w)
        back == /\ o # NoWindow /\ moved.native.record[o] # NoRecord
                /\ s \notin mac.full
                /\ Target(moved.native.record[o]) = mac.space
    IN  IF s = NoServer THEN freed ELSE IF back THEN Restore(moved, w) ELSE moved

Syncs ==
    /\ reactor.gone = {} /\ reactor.todo # <<>>
    /\ LET e == Head(reactor.todo)
           rest == [reactor EXCEPT !.todo = Tail(@)]
       IN  IF Has(e.window)
           THEN /\ store' = [Mapping(e.window, store.links.state[e.window], e.server) EXCEPT
                                 !.links.state[e.window] = e.server]
                /\ reactor' = [rest EXCEPT !.frames = Believes([@ EXCEPT ![e.window] = e.frame])]
           ELSE /\ store' = Mapping(e.window, NoServer, e.server)
                /\ reactor' = [rest EXCEPT !.fresh = Append(@, e), !.frames = Believes(@)]
    /\ UNCHANGED <<tx, thread, mac, inbox, events, seen, left>>

Inserts ==
    /\ reactor.gone = {} /\ reactor.todo = <<>> /\ reactor.fresh # <<>>
    /\ LET e == Head(reactor.fresh)
       IN  /\ store' = Insert(store, e.window, e.server)
           /\ reactor' = [reactor EXCEPT !.fresh = Tail(@),
                                         !.frames = Believes([@ EXCEPT ![e.window] = e.frame])]
    /\ UNCHANGED <<tx, thread, mac, inbox, events, seen, left>>

(* more: how many writes of the same batch follow.                         *)
Write(w, f, id, more) == [kind |-> "write", window |-> w, frame |-> f, id |-> id, more |-> more]

(* A window sent to a frame: the frame is believed and the write numbered  *)
(* before the request goes out.                                            *)
Commits(w, f) ==
    /\ Free /\ Has(w) /\ Spend("commits")
    /\ LET s == store.links.state[w]
           id == IF s = NoServer THEN 0 ELSE tx[s].id + 1
       IN  /\ tx' = [x \in Server |-> IF x = s THEN [id |-> id, target |-> f] ELSE tx[x]]
           /\ inbox' = Sent(<<Write(w, f, id, 0)>>)
           /\ seen' = [seen EXCEPT !.pressed = @ \ {s}]
    /\ reactor' = [reactor EXCEPT !.frames[w] = f]
    /\ UNCHANGED <<store, thread, mac, events>>

(* Two windows sent at once: one number, minted by the first that has a    *)
(* server id.                                                              *)
CommitsBoth(w, v) ==
    /\ Free /\ w # v /\ Has(w) /\ Has(v) /\ Spend("batches")
    /\ \E f, g \in Frame :
           LET s == store.links.state[w]
               t == store.links.state[v]
               id == IF s # NoServer THEN tx[s].id + 1 ELSE IF t # NoServer THEN tx[t].id + 1 ELSE 0
           IN  /\ tx' = [x \in Server |-> IF x = t THEN [id |-> id, target |-> g]
                                          ELSE IF x = s THEN [id |-> id, target |-> f] ELSE tx[x]]
               /\ inbox' = Sent(<<Write(w, f, id, 1), Write(v, g, id, 0)>>)
               /\ reactor' = [reactor EXCEPT !.frames[w] = f, !.frames[v] = g]
               /\ seen' = [seen EXCEPT !.pressed = @ \ {s, t},
                                       !.reused = @ \cup {x \in {s, t} \cap Server : id <= tx[x].id}]
    /\ UNCHANGED <<store, thread, mac, events>>

(* The window server tells a window is on a fullscreen space.              *)
TakeFullscreen(s) ==
    /\ Free /\ mac.news[s] # <<>> /\ Head(mac.news[s]) = "fullscreen"
    /\ mac' = [mac EXCEPT !.news[s] = Tail(@)]
    /\ \E last \in {mac.space, NoSpace} :
           IF store.links.windowOf[s] # NoWindow
           THEN /\ store' = SuspendWindow(store, store.links.windowOf[s], s, last)
                /\ UNCHANGED inbox
           ELSE /\ store' = [store EXCEPT !.native = SuspendServer(@, s, last)]
                /\ inbox' = Asks
    /\ UNCHANGED <<tx, thread, events, reactor, seen, left>>

TakeUserSpaceKnown(s) ==
    /\ Free /\ mac.news[s] # <<>> /\ Head(mac.news[s]) = "user"
    /\ mac' = [mac EXCEPT !.news[s] = Tail(@)]
    /\ UNCHANGED <<store, tx, thread, inbox, events, reactor, seen, left>>

(* The window server tells a window is on a user space.                    *)
TakeUserSpace(s) ==
    /\ Free /\ mac.news[s] # <<>> /\ Head(mac.news[s]) = "user"
    /\ mac' = [mac EXCEPT !.news[s] = Tail(@)]
    /\ LET w == store.links.windowOf[s]
           o == IF store.native.byServer[s] # NoWindow THEN store.native.byServer[s]
                ELSE Original(store.native, w)
       IN  IF w = NoWindow
           THEN /\ UNCHANGED store
                /\ inbox' = IF store.native.pending[s] # NotPending THEN Asks ELSE inbox
           ELSE /\ store' = IF o = NoWindow THEN store ELSE [store EXCEPT !.native = Drop(@, o)]
                /\ inbox' = IF o = NoWindow THEN inbox ELSE Asks
    /\ UNCHANGED <<tx, thread, events, reactor, seen, left>>

(* A snapshot of the displays that shows the user space: every window held *)
(* to have gone to fullscreen from it is held to be back.                  *)
TakeSnapshot ==
    /\ Free
    /\ LET back == {o \in Records(store.native) :
                       LET r == store.native.record[o] IN mac.space \in {r.assigned, r.last}}
       IN  /\ back # {}
           /\ store' = [store EXCEPT !.native = DropAll(@, back)]
           /\ inbox' = Sent([i \in 1..Cardinality(back) |-> [kind |-> "refresh"]])
    /\ UNCHANGED <<tx, thread, mac, events, reactor, seen, left>>

(* The engine gives a window a workspace, lets it go, or a rule is tried.  *)
(* A window in native fullscreen is of no space under any rule.            *)
Assigns(w) ==
    /\ Free /\ Has(w) /\ Original(store.native, w) = NoWindow /\ Spend("assigns")
    /\ \E id \in Workspace : store' = AssignWindow(store, w, [space |-> mac.space, id |-> id])
    /\ UNCHANGED <<tx, thread, mac, inbox, events, reactor, seen>>

LetsGo(w) ==
    /\ Free /\ store.homes.of[w] # NoHome /\ Spend("releases")
    /\ store' = LetGo(store, w)
    /\ UNCHANGED <<tx, thread, mac, inbox, events, reactor, seen>>

Rules(w) ==
    /\ Free /\ Has(w) /\ Spend("rules")
    /\ \E decided \in BOOLEAN : store' = [store EXCEPT !.links = SetRule(@, w, decided)]
    /\ UNCHANGED <<tx, thread, mac, inbox, events, reactor, seen>>

(* A display comes back under another space id.                            *)
Remaps ==
    /\ Free /\ Spend("remaps")
    /\ \E new \in Space \ {mac.space} :
           /\ store' = RemapSpace(store, mac.space, new)
           /\ mac' = [mac EXCEPT !.space = new]
           /\ seen' = [seen EXCEPT !.renamed = TRUE]
    /\ UNCHANGED <<tx, thread, inbox, events, reactor>>

(* The displays are being changed and every report of a window is dropped; *)
(* then only what would remove windows, until a snapshot is taken in.      *)
ChurnBegins ==
    /\ reactor.deaf = "no" /\ \A s \in Server : mac.news[s] = <<>>
    /\ mac.full = {} /\ Spend("deafs")
    /\ \E as \in {"churn", "blocked", "mission"} : reactor' = [reactor EXCEPT !.deaf = as]
    /\ UNCHANGED <<store, tx, thread, mac, inbox, events, seen>>

ChurnEnds ==
    /\ reactor.deaf = "churn"
    /\ reactor' = [reactor EXCEPT !.deaf = "blocked"]
    /\ UNCHANGED <<store, tx, thread, mac, inbox, events, seen, left>>

SettlesUnasked ==
    /\ Free /\ reactor.deaf \in {"blocked", "mission"}
    /\ reactor' = [reactor EXCEPT !.deaf = "no"]
    /\ UNCHANGED <<store, tx, thread, mac, inbox, events, seen, left>>

(* Settled, and Mission Control closed: every window is asked for again.   *)
Settles ==
    /\ Free /\ reactor.deaf \in {"blocked", "mission"}
    /\ reactor' = [reactor EXCEPT !.deaf = "no"]
    /\ inbox' = Sent(<<[kind |-> "refresh"]>>)
    /\ UNCHANGED <<store, tx, thread, mac, events, seen, left>>

-----------------------------------------------------------------------------
(* The application as rini finds it: its windows open, the first listing   *)
(* of them on its way to the reactor.                                      *)
Init ==
    /\ left \in Scenarios
    /\ \E first \in [Server -> Frame] :
           mac = [running |-> TRUE, open |-> left.first, full |-> {},
                  readable |-> Server \ left.unnamed, frame |-> first, byUser |-> Server,
                  notices |-> {}, news |-> [s \in Server |-> <<>>], mouse |-> FALSE,
                  space |-> CHOOSE space \in Space : TRUE]
    /\ store = EmptyStore
    /\ tx = [s \in Server |-> NoTx]
    /\ thread = [elem |-> [w \in Window |-> "none"], server |-> [w \in Window |-> NoServer],
                 seen |-> [w \in Window |-> 0]]
    /\ inbox = <<[kind |-> "refresh"]>>
    /\ events = <<>>
    /\ reactor = [frames |-> [w \in Window |-> NoFrame], deaf |-> "no",
                  gone |-> {}, todo |-> <<>>, fresh |-> <<>>]
    /\ seen = [pressed |-> {}, unanswered |-> {}, reused |-> {}, spared |-> {}, renamed |-> FALSE]

MacOS == \/ UserPresses
         \/ \E s \in Server : \/ Opens(s) \/ Named(s) \/ Closes(s) \/ Renews(s) \/ UserMoves(s)
                              \/ EntersFullscreen(s) \/ LeavesFullscreen(s)

Thread == \/ Refreshes \/ Writes \/ Quits
          \/ \E s \in Server : SeesCreated(s) \/ SeesMoved(s)
          \/ \E w \in Window : SeesDestroyed(w) \/ Sweeps(w)

Reactor == \/ TakeCreated \/ TakeDestroyed \/ TakeEnded \/ TakeFrame \/ TakeFound \/ Syncs \/ Inserts
           \/ TakeSnapshot \/ Remaps \/ ChurnBegins \/ ChurnEnds \/ Settles
           \/ \E s \in Server : TakeFullscreen(s) \/ TakeUserSpace(s)
           \/ \E w \in Window : \/ Cleans(w) \/ Assigns(w) \/ LetsGo(w) \/ Rules(w)
                                \/ \E f \in Frame : Commits(w, f)
                                \/ \E v \in Window : CommitsBoth(w, v)

Next == MacOS \/ Thread \/ Reactor

Spec == Init /\ [][Next]_vars

-----------------------------------------------------------------------------
(* Properties.                                                             *)

(* Every variable holds what the code's types and its message kinds allow: *)
(* the store its indexes, the thread an element only of a window with an   *)
(* id, the reactor a frame exactly of the windows it has a state of.       *)
TypeOK ==
    /\ StoreTypeOK(store)
    /\ tx \in [Server -> [id : Nat, target : Frame \cup {NoFrame}]]
    /\ thread \in [elem : [Window -> {"none", "live", "dead"}],
                   server : [Window -> Server \cup {NoServer}], seen : [Window -> Nat]]
    /\ mac.full \subseteq mac.open
    /\ reactor.deaf \in {"no", "churn", "blocked", "mission"}
    /\ \A w \in Window : reactor.frames[w] = NoFrame <=> store.links.state[w] = NoState

(* The store's three indexes agree in both directions at every step of a   *)
(* listing and between any two events (debug_assert_invariants of          *)
(* catalogue.rs and assignment.rs).                                        *)
StoreAgrees == LinksAgree(store.links) /\ NativeAgrees(store.native) /\ HomesAgree(store.homes)

(* A window in native fullscreen is found by the id it has now and, while  *)
(* that is one rini knows, by its window-server window as well, however    *)
(* often either has changed since: what brings it back looks it up by one  *)
(* of the two (space_snapshot.rs:539).  A record a destroyed id has left   *)
(* behind may be of the same window-server window; its own is found first. *)
RecordsFound ==
    \A o \in Window :
        LET n == store.native
            r == n.record[o]
            p == First(n.byServer[r.server], Original(n, store.links.windowOf[r.server]), NoWindow)
        IN  r # NoRecord =>
              /\ Original(n, r.current) # NoWindow
              /\ r.server # NoServer /\ r.current \in store.links.known
                   => p # NoWindow /\ n.record[p].server = r.server

(* Where rini itself put a window is taken for a move of the user's.  The  *)
(* button may have taken the write's place, and a window with no server id *)
(* has no number to tell its writes by.                                    *)
Mistaken(e) ==
    /\ e.kind = "frame" /\ Free /\ UsersMove(e) /\ ~e.byUser
    /\ Sees(e) # NoServer /\ Sees(e) \notin seen.pressed /\ ~Pressed(e)

(* A report of where rini itself put a window is never taken for a move of *)
(* the user's, however late it is read or heard, while the window's writes *)
(* have numbers of their own (classify_window_frame_change, window.rs:222).*)
OwnMovesRecognised ==
    \A i \in {1} \cap DOMAIN events :
        Mistaken(events[i]) => Sees(events[i]) \in seen.reused

Quiet ==
    /\ mac.running /\ Free /\ inbox = <<>> /\ events = <<>> /\ mac.notices = {}
    /\ reactor.deaf = "no" /\ \A s \in Server : mac.news[s] = <<>>

(* Once everything told has been heard, rini believes every window it      *)
(* tracks to be where it is, whatever was written, refused by the          *)
(* application, moved by the user, or dropped during a churn meanwhile;    *)
(* but for a write whose application did not answer where it ended, and    *)
(* those of its batch left unwritten with it (requests.rs:37).             *)
FramesSettle ==
    Quiet => \A w \in Window, s \in Listed :
        Live(w) /\ ServerOf(w) = s /\ Has(w) /\ s \notin seen.unanswered
            => reactor.frames[w] = mac.frame[s]

(* Once everything told has been heard, rini has every window the thread   *)
(* tracks, and no second window of the same window-server window: what is  *)
(* dropped during a churn is asked for again (quarantine.rs:8).            *)
NothingMissed ==
    Quiet => \A w \in Window, s \in Listed :
        Live(w) /\ ServerOf(w) = s => /\ Has(w)
                                      /\ s \in mac.readable /\ store.links.state[w] = s
                                             => store.links.windowOf[s] = w

(* ... and no window that has closed, though its destruction was dropped,  *)
(* but one whose server id was never known, or that the last listing did   *)
(* not look for, being empty or taken in with the button down              *)
(* (cleanup_stale_windows).                                                *)
GoneForgotten ==
    Quiet => \A w \in Window \ seen.spared :
        store.links.state[w] \in Server => store.links.state[w] \in mac.open

(* Once everything told has been heard, the windows rini has are the ones  *)
(* that are open, whatever was told while it was deaf.                     *)
RecordsSettle == NothingMissed /\ GoneForgotten

(* Once everything told has been heard, no window on a user space is held  *)
(* to be in native fullscreen, unless no space is known that it came from, *)
(* or that space has been given another id since.                          *)
BackFromFullscreen ==
    Quiet => \A s \in Listed :
        LET o == Original(store.native, store.links.windowOf[s])
        IN  store.links.windowOf[s] # NoWindow /\ o # NoWindow /\ store.native.record[o] # NoRecord
                => Target(store.native.record[o]) = NoSpace \/ seen.renamed

(* A window's workspace and what a rule decided of it stay with its        *)
(* window-server window when its id changes                                *)
(* (transfer_persistent_window_metadata, catalogue.rs:560).                *)
CarriedOver ==
    [][\A s \in Server :
           LET w == store.links.windowOf[s]
               v == store'.links.windowOf[s]
           IN  w # NoWindow /\ v # NoWindow /\ v # w =>
                   /\ store.homes.of[w] # NoHome => store'.homes.of[v] = store.homes.of[w]
                   /\ w \in store.links.ruled => v \in store'.links.ruled]_vars

-----------------------------------------------------------------------------
(* A claim the code does not keep.                                         *)

(* A report is told from a move of the user's by the number its write was  *)
(* given, in a batch as well (transaction.rs:1, present.rs:52).            *)
BatchesRecognised == \A i \in {1} \cap DOMAIN events : ~Mistaken(events[i])
=============================================================================
