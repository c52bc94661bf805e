----------------------------- MODULE WindowStore -----------------------------
(***************************************************************************)
(* The reactor's store of the windows of one application                   *)
(* (src/windows/domain/catalogue.rs, src/workspaces/domain/assignment.rs,  *)
(* src/workspaces/domain/window_store.rs), as operators from the store     *)
(* before a call to the store after it.  Three parts, each an index kept   *)
(* in both directions:                                                     *)
(*   links   which rini window is which window-server window;              *)
(*   native  the windows macOS holds in native fullscreen, under the id    *)
(*           each went in with, found again by its present id or server;   *)
(*   homes   which workspace each window is assigned to.                   *)
(*                                                                         *)
(* Absent entries are sentinels.  Of a window-server record only its       *)
(* window and what it waits for are kept: the rest (visible, observed,     *)
(* space, info, recent) decides nothing here, and a record with none of it *)
(* reads as one that is not there.                                         *)
(***************************************************************************)
EXTENDS Naturals, FiniteSets

CONSTANTS
    Window,      \* WindowId
    Server,      \* WindowServerId
    Space,       \* SpaceId, the user spaces
    Workspace,   \* VirtualWorkspaceId
    NoWindow, NoServer, NoSpace, NoRecord, NoHome,
    NoState,     \* a window the catalogue has an entry but no state for
    NotPending   \* a server whose fullscreen window is known, or none

ASSUME SentinelAssumption ==
    /\ NoWindow \notin Window
    /\ NoServer \notin Server
    /\ NoState \notin Server \cup {NoServer}
    /\ NoSpace \notin Space
    /\ NotPending \notin Space \cup {NoSpace}

Home == [space : Space, id : Workspace]

NativeRecord == [current : Window, server : Server \cup {NoServer},
                 assigned : Space \cup {NoSpace}, last : Space \cup {NoSpace}]

(* Windows and servers are finitely many, and a user space is on screen.   *)
ASSUME FiniteAssumption == IsFiniteSet(Window) /\ IsFiniteSet(Server) /\ Space # {}

ASSUME RecordAssumption == NoRecord \notin NativeRecord /\ NoHome \notin Home

EmptyStore ==
    [links  |-> [known    |-> {}, listed |-> {}, ruled |-> {},
                 state    |-> [w \in Window |-> NoState],
                 serverOf |-> [w \in Window |-> NoServer],
                 windowOf |-> [s \in Server |-> NoWindow]],
     native |-> [record   |-> [w \in Window |-> NoRecord],
                 byWindow |-> [w \in Window |-> NoWindow],
                 byServer |-> [s \in Server |-> NoWindow],
                 pending  |-> [s \in Server |-> NotPending]],
     homes  |-> [of |-> [w \in Window |-> NoHome],
                 at |-> [h \in Home |-> {}]]]

-----------------------------------------------------------------------------
(* The links.  known and listed are the keys of windows and the ids of     *)
(* app_windows; state is a window's info.sys_id, serverOf its record's     *)
(* window_server_id, ruled its last_rule_decision.                         *)

Knows(l, w) == [l EXCEPT !.known = @ \cup {w}, !.listed = @ \cup {w}]

(* The entry of w as it was never made.                                    *)
Forget(l, w) ==
    [l EXCEPT !.known = @ \ {w}, !.listed = @ \ {w}, !.ruled = @ \ {w},
              !.state = [@ EXCEPT ![w] = NoState],
              !.serverOf = [@ EXCEPT ![w] = NoServer]]

(* An entry that remembers nothing goes.                                   *)
Prune(l, w) ==
    IF l.state[w] = NoState /\ l.serverOf[w] = NoServer /\ w \notin l.ruled
    THEN Forget(l, w) ELSE l

(* s is w's: the window that had s loses it, and the server w had before.  *)
Link(l, s, w) ==
    [Knows(l, w) EXCEPT
        !.windowOf = [x \in Server |->
            IF x = s THEN w ELSE IF x = l.serverOf[w] THEN NoWindow ELSE l.windowOf[x]],
        !.serverOf = [x \in Window |->
            IF x = w THEN s ELSE IF x = l.windowOf[s] THEN NoServer ELSE l.serverOf[x]]]

RemoveServer(l, s) ==
    [l EXCEPT
        !.windowOf = [@ EXCEPT ![s] = NoWindow],
        !.serverOf = [x \in Window |-> IF x = l.windowOf[s] THEN NoServer ELSE @[x]]]

RemoveLinks(l, w) ==
    [Forget(l, w) EXCEPT
        !.windowOf = [x \in Server |-> IF l.windowOf[x] = w THEN NoWindow ELSE l.windowOf[x]]]

(* What a rule decided moves from one id to the other.                     *)
TransferRule(l, from, to) ==
    Prune([Knows(l, to) EXCEPT
              !.ruled = IF from \in l.ruled THEN (@ \ {from}) \cup {to} ELSE @], from)

SetRule(l, w, value) ==
    [Knows(l, w) EXCEPT !.ruled = IF value THEN @ \cup {w} ELSE @ \ {w}]

ClearRule(l, w) == Prune([l EXCEPT !.ruled = @ \ {w}], w)

-----------------------------------------------------------------------------
(* Native fullscreen.                                                      *)

(* The id under which w's record is kept, or NoWindow.                     *)
Original(n, w) == IF n.record[w] # NoRecord THEN w ELSE n.byWindow[w]

Records(n) == {o \in Window : n.record[o] # NoRecord}

DropAll(n, O) ==
    [n EXCEPT !.record   = [o \in Window |-> IF o \in O THEN NoRecord ELSE @[o]],
              !.byWindow = [w \in Window |->
                  IF \E o \in O : n.record[o].current = w THEN NoWindow ELSE @[w]],
              !.byServer = [s \in Server |->
                  IF \E o \in O : n.record[o].server = s THEN NoWindow ELSE @[s]]]

Drop(n, o) == DropAll(n, {o} \cap Records(n))

UpsertByOriginal(n, o, r) ==
    LET cleared == Drop(n, o)
    IN  [cleared EXCEPT
            !.record = [@ EXCEPT ![o] = r],
            !.byWindow = [@ EXCEPT ![o] = o],
            !.byServer = [s \in Server |-> IF s = r.server THEN o ELSE @[s]]]

Upsert(n, o, r) ==
    LET cleared == Drop(n, o)
    IN  [cleared EXCEPT
            !.record = [@ EXCEPT ![o] = r],
            !.byWindow = [@ EXCEPT ![r.current] = o],
            !.byServer = [s \in Server |-> IF s = r.server THEN o ELSE @[s]]]

(* The record of w rewritten by what is now known of it, if it has one.    *)
Amend(n, w, field, value) ==
    LET o == Original(n, w)
        r == n.record[o]
    IN  IF o \notin Records(n) THEN n
        ELSE Upsert(n, o, CASE field = "server"   -> [r EXCEPT !.server = value]
                            [] field = "current"  -> [r EXCEPT !.current = value]
                            [] field = "assigned" -> [r EXCEPT !.assigned = value, !.last = value])

First(a, b, none) == IF a # none THEN a ELSE b

(* w is in native fullscreen, on s when that is known, from the space it   *)
(* is assigned to or else the one it was last seen on.                     *)
Suspend(n, w, s, assigned, fallback) ==
    LET o == First(Original(n, w), w, NoWindow)
        r == IF n.record[o] # NoRecord THEN n.record[o]
             ELSE [current |-> w, server |-> NoServer, assigned |-> NoSpace, last |-> NoSpace]
    IN  Upsert(n, o,
            [current  |-> w,
             server   |-> First(s, r.server, NoServer),
             assigned |-> First(assigned, r.assigned, NoSpace),
             last     |-> First(assigned, First(fallback, r.last, NoSpace), NoSpace)])

(* A window-server window in fullscreen before it is anybody's.            *)
SuspendServer(n, s, fallback) ==
    LET known == IF n.pending[s] = NotPending THEN NoSpace ELSE n.pending[s]
    IN  [n EXCEPT !.pending = [@ EXCEPT ![s] = First(fallback, known, NoSpace)]]

(* Where a window went to fullscreen from.                                 *)
Target(r) == First(r.assigned, r.last, NoSpace)

-----------------------------------------------------------------------------
(* The assignments.                                                        *)

UnassignListed(a, w) == [a EXCEPT !.of = [@ EXCEPT ![w] = NoHome]]

Unassign(a, w) ==
    IF a.of[w] = NoHome THEN a
    ELSE [a EXCEPT !.of = [@ EXCEPT ![w] = NoHome],
                   !.at = [@ EXCEPT ![a.of[w]] = a.at[a.of[w]] \ {w}]]

Assign(a, w, home) ==
    LET left == Unassign(a, w)
    IN  [left EXCEPT !.of = [@ EXCEPT ![w] = home], !.at = [@ EXCEPT ![home] = left.at[home] \cup {w}]]

TransferHome(a, from, to) ==
    IF a.of[from] = NoHome THEN a ELSE Assign(Unassign(a, from), to, a.of[from])

(* A space macOS gives another id: what was on the old id joins the new.   *)
RemapHomes(a, old, new) ==
    LET Moved(h) == IF h.space = old THEN [h EXCEPT !.space = new] ELSE h
    IN  [of |-> [w \in Window |-> IF a.of[w] = NoHome THEN NoHome ELSE Moved(a.of[w])],
         at |-> [h \in Home |-> IF h.space = old THEN {}
                                ELSE a.at[h] \cup (IF h.space = new
                                                   THEN a.at[[h EXCEPT !.space = old]] ELSE {})]]

-----------------------------------------------------------------------------
(* The store: the operations that must keep the parts in step.             *)

HomeSpace(st, w) == IF st.homes.of[w] = NoHome THEN NoSpace ELSE st.homes.of[w].space

(* A fullscreen window's record keeps the space of its assignment.         *)
SyncAssigned(st, w) ==
    IF st.homes.of[w] = NoHome THEN st
    ELSE [st EXCEPT !.native = Amend(@, w, "assigned", HomeSpace(st, w))]

(* A server's fullscreen record, made before its window was known, becomes *)
(* the window's own; a window already fullscreen has its server noted.     *)
Adopt(n, s, w) ==
    IF n.pending[s] # NotPending
    THEN Suspend([n EXCEPT !.pending = [@ EXCEPT ![s] = NotPending]], w, s, NoSpace, n.pending[s])
    ELSE Amend(n, w, "server", s)

Track(st, s, w) ==
    SyncAssigned([st EXCEPT !.links = Link(@, s, w), !.native = Adopt(@, s, w)], w)

Insert(st, w, s) ==
    LET known == Knows(st.links, w)
        stated == [st EXCEPT !.links = [known EXCEPT !.state = [@ EXCEPT ![w] = s]]]
    IN  IF s = NoServer THEN SyncAssigned(stated, w) ELSE Track(stated, s, w)

Remove(st, w) == [st EXCEPT !.links = RemoveLinks(@, w), !.homes = Unassign(@, w)]

SuspendWindow(st, w, s, fallback) ==
    [st EXCEPT !.links = Knows(@, w), !.native = Suspend(@, w, s, HomeSpace(st, w), fallback)]

Restore(st, w) ==
    LET o == Original(st.native, w)
    IN  IF o = NoWindow THEN st ELSE [st EXCEPT !.native = Drop(@, o)]

AssignWindow(st, w, home) == SyncAssigned([st EXCEPT !.homes = Assign(@, w, home)], w)

(* The engine lets a window go: its assignment, and what a rule decided.   *)
LetGo(st, w) ==
    [st EXCEPT !.links = ClearRule(Prune(@, w), w), !.homes = Unassign(@, w)]

TransferRecord(st, from, to) ==
    [st EXCEPT !.native = Amend(@, from, "current", to)]

(* macOS gives a window another id: all that persists goes with it.        *)
Transfer(st, from, to) ==
    LET moved == [st EXCEPT !.homes = TransferHome(@, from, to),
                            !.links = IF from \in @.known THEN TransferRule(@, from, to) ELSE @,
                            !.native = IF from \in st.links.known /\ Original(@, from) # NoWindow
                                       THEN Amend(@, from, "current",
                                                IF @.record[Original(@, from)].current = from
                                                THEN to ELSE @.record[Original(@, from)].current)
                                       ELSE @]
    IN  IF st.homes.of[from] = NoHome THEN moved ELSE SyncAssigned(moved, to)

(* The application has gone: its windows, its records, its pending ones.   *)
RemoveApp(st) ==
    LET mine == st.links.listed
        n == st.native
    IN  [links  |-> [known    |-> st.links.known \ mine, listed |-> {},
                     ruled    |-> st.links.ruled \ mine,
                     state    |-> [w \in Window |-> IF w \in mine THEN NoState ELSE st.links.state[w]],
                     serverOf |-> [w \in Window |-> IF w \in mine THEN NoServer ELSE st.links.serverOf[w]],
                     windowOf |-> [s \in Server |-> IF st.links.windowOf[s] \in mine
                                                    THEN NoWindow ELSE st.links.windowOf[s]]],
         native |-> [DropAll(n, Records(n)) EXCEPT !.pending = [s \in Server |-> NotPending]],
         homes  |-> [of |-> [w \in Window |-> IF w \in mine THEN NoHome ELSE st.homes.of[w]],
                     at |-> [h \in Home |-> st.homes.at[h] \ mine]]]

RemapSpace(st, old, new) ==
    IF old = new THEN st ELSE [st EXCEPT !.homes = RemapHomes(@, old, new)]

-----------------------------------------------------------------------------
(* What every operation keeps.                                             *)

StoreTypeOK(st) ==
    /\ st = [links |-> st.links, native |-> st.native, homes |-> st.homes]
    /\ st.links \in [known : SUBSET Window, listed : SUBSET Window, ruled : SUBSET Window,
                     state : [Window -> Server \cup {NoServer, NoState}],
                     serverOf : [Window -> Server \cup {NoServer}],
                     windowOf : [Server -> Window \cup {NoWindow}]]
    /\ st.native \in [record : [Window -> NativeRecord \cup {NoRecord}],
                      byWindow : [Window -> Window \cup {NoWindow}],
                      byServer : [Server -> Window \cup {NoWindow}],
                      pending : [Server -> Space \cup {NoSpace, NotPending}]]
    /\ st.homes \in [of : [Window -> Home \cup {NoHome}], at : [Home -> SUBSET Window]]

(* The links agree in both directions, and only a known window has any.    *)
LinksAgree(l) ==
    /\ l.listed = l.known
    /\ \A w \in Window :
           w \notin l.known => l.state[w] = NoState /\ l.serverOf[w] = NoServer /\ w \notin l.ruled
    /\ \A w \in Window, s \in Server : l.serverOf[w] = s <=> l.windowOf[s] = w

(* Of native fullscreen, an index leads to a record that has the key.      *)
NativeAgrees(n) ==
    /\ \A w \in Window :
           n.byWindow[w] # NoWindow => /\ n.record[n.byWindow[w]] # NoRecord
                                       /\ n.record[n.byWindow[w]].current = w
    /\ \A s \in Server :
           n.byServer[s] # NoWindow => /\ n.record[n.byServer[s]] # NoRecord
                                       /\ n.record[n.byServer[s]].server = s

(* A window is indexed under the one workspace it is assigned to.          *)
HomesAgree(a) == \A w \in Window, h \in Home : w \in a.at[h] <=> a.of[w] = h
=============================================================================
