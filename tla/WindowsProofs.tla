---------------------------- MODULE WindowsProofs ----------------------------
(***************************************************************************)
(* The window store's indexes agree, and rini believes a frame of exactly  *)
(* the windows it has a state of, for any windows, spaces and scenarios    *)
(* and any length of behaviour.  Every operation of the store keeps its    *)
(* three parts in step by itself, whatever it is called with, so the       *)
(* invariant is the agreement and the types of what the actors exchange.   *)
(***************************************************************************)
EXTENDS Windows, FiniteSetTheorems, TLAPS

-----------------------------------------------------------------------------
(* The links.                                                              *)

Links == [known : SUBSET Window, listed : SUBSET Window, ruled : SUBSET Window,
          state : [Window -> Server \cup {NoServer, NoState}],
          serverOf : [Window -> Server \cup {NoServer}],
          windowOf : [Server -> Window \cup {NoWindow}]]

LinksOK(l) == l \in Links /\ LinksAgree(l)

(* An entry made where there was none remembers nothing.                   *)
LEMMA KnowsOK ==
    ASSUME NEW l \in Links, LinksAgree(l), NEW w \in Window
    PROVE  /\ LinksOK(Knows(l, w)) /\ Knows(l, w).known = l.known \cup {w}
           /\ Knows(l, w).state = l.state /\ Knows(l, w).ruled = l.ruled
           /\ Knows(l, w).serverOf = l.serverOf /\ Knows(l, w).windowOf = l.windowOf
<1> DEFINE n == Knows(l, w)
<1>1. /\ n \in Links /\ n.known = l.known \cup {w} /\ n.listed = l.listed \cup {w} /\ n.ruled = l.ruled
      /\ n.state = l.state /\ n.serverOf = l.serverOf /\ n.windowOf = l.windowOf
  BY DEF Links, Knows
<1> HIDE DEF n
<1>2. LinksAgree(n)
  BY <1>1 DEF LinksAgree
<1> QED BY <1>1, <1>2 DEF LinksOK, n

(* An entry that has no server can go without the servers being told.      *)
LEMMA ForgetOK ==
    ASSUME NEW l \in Links, LinksAgree(l), NEW w \in Window, l.serverOf[w] = NoServer
    PROVE  /\ LinksOK(Forget(l, w)) /\ Forget(l, w).known = l.known \ {w}
           /\ Forget(l, w).state = [l.state EXCEPT ![w] = NoState]
<1> DEFINE n == Forget(l, w)
<1>1. /\ n \in Links /\ n.known = l.known \ {w} /\ n.listed = l.listed \ {w} /\ n.ruled = l.ruled \ {w}
      /\ n.state = [l.state EXCEPT ![w] = NoState] /\ n.serverOf = [l.serverOf EXCEPT ![w] = NoServer]
      /\ n.windowOf = l.windowOf
  BY DEF Links, Forget
<1> HIDE DEF n
<1>2. LinksAgree(n)
  BY <1>1 DEF LinksAgree, Links
<1> QED BY <1>1, <1>2 DEF LinksOK, n

LEMMA PruneOK ==
    ASSUME NEW l \in Links, LinksAgree(l), NEW w \in Window
    PROVE  /\ LinksOK(Prune(l, w)) /\ Prune(l, w).state = l.state
           /\ l.known \ {w} \subseteq Prune(l, w).known
<1>1. CASE Prune(l, w) = l
  BY <1>1 DEF LinksOK
<1>2. CASE Prune(l, w) # l
  <2>1. l.state[w] = NoState /\ l.serverOf[w] = NoServer /\ Prune(l, w) = Forget(l, w)
    BY <1>2 DEF Prune
  <2>2. [l.state EXCEPT ![w] = NoState] = l.state
    BY <2>1 DEF Links
  <2> QED BY <2>1, <2>2, ForgetOK
<1> QED BY <1>1, <1>2

(* One server, one window: whoever had either has lost it.                 *)
LEMMA LinkOK ==
    ASSUME NEW l \in Links, LinksAgree(l), NEW s \in Server, NEW w \in Window
    PROVE  /\ LinksOK(Link(l, s, w)) /\ Link(l, s, w).known = l.known \cup {w}
           /\ Link(l, s, w).state = l.state
<1> DEFINE k == Knows(l, w)
           n == Link(l, s, w)
           windows == [x \in Server |->
               IF x = s THEN w ELSE IF x = l.serverOf[w] THEN NoWindow ELSE l.windowOf[x]]
           servers == [x \in Window |->
               IF x = w THEN s ELSE IF x = l.windowOf[s] THEN NoServer ELSE l.serverOf[x]]
<1>1. /\ k \in Links /\ LinksAgree(k) /\ k.known = l.known \cup {w} /\ k.state = l.state
      /\ k.serverOf = l.serverOf /\ k.windowOf = l.windowOf
  BY KnowsOK DEF LinksOK
<1> HIDE DEF k
<1>2. n = [k EXCEPT !.windowOf = windows, !.serverOf = servers]
  BY DEF Link, k
<1>3. windows \in [Server -> Window \cup {NoWindow}] /\ servers \in [Window -> Server \cup {NoServer}]
  BY DEF Links
<1>4. /\ \A x \in Server : windows[x] =
             IF x = s THEN w ELSE IF x = l.serverOf[w] THEN NoWindow ELSE l.windowOf[x]
      /\ \A x \in Window : servers[x] =
             IF x = w THEN s ELSE IF x = l.windowOf[s] THEN NoServer ELSE l.serverOf[x]
  OBVIOUS
<1> HIDE DEF windows, servers
<1>5. /\ n \in Links /\ n.known = k.known /\ n.listed = k.listed /\ n.ruled = k.ruled /\ n.state = k.state
      /\ n.windowOf = windows /\ n.serverOf = servers
  BY <1>1, <1>2, <1>3 DEF Links
<1> HIDE DEF n
<1>6. \A x \in Window, y \in Server : n.serverOf[x] = y <=> n.windowOf[y] = x
  BY <1>4, <1>5, SentinelAssumption DEF LinksAgree, Links
<1>7. LinksAgree(n)
  BY <1>1, <1>4, <1>5, <1>6 DEF LinksAgree
<1> QED BY <1>1, <1>5, <1>7 DEF LinksOK, n

LEMMA RemoveServerOK ==
    ASSUME NEW l \in Links, LinksAgree(l), NEW s \in Server
    PROVE  /\ LinksOK(RemoveServer(l, s)) /\ RemoveServer(l, s).known = l.known
           /\ RemoveServer(l, s).state = l.state
<1> DEFINE n == RemoveServer(l, s)
<1>1. /\ n \in Links /\ n.known = l.known /\ n.listed = l.listed /\ n.ruled = l.ruled /\ n.state = l.state
      /\ n.windowOf = [l.windowOf EXCEPT ![s] = NoWindow]
      /\ n.serverOf = [x \in Window |-> IF x = l.windowOf[s] THEN NoServer ELSE l.serverOf[x]]
  BY DEF Links, RemoveServer
<1> HIDE DEF n
<1>2. LinksAgree(n)
  BY <1>1, SentinelAssumption DEF LinksAgree, Links
<1> QED BY <1>1, <1>2 DEF LinksOK, n

LEMMA RemoveLinksOK ==
    ASSUME NEW l \in Links, LinksAgree(l), NEW w \in Window
    PROVE  /\ LinksOK(RemoveLinks(l, w)) /\ RemoveLinks(l, w).known = l.known \ {w}
           /\ RemoveLinks(l, w).state = [l.state EXCEPT ![w] = NoState]
<1> DEFINE n == RemoveLinks(l, w)
           f == Forget(l, w)
<1>1. /\ f \in Links /\ f.known = l.known \ {w} /\ f.listed = l.listed \ {w} /\ f.ruled = l.ruled \ {w}
      /\ f.state = [l.state EXCEPT ![w] = NoState] /\ f.serverOf = [l.serverOf EXCEPT ![w] = NoServer]
  BY DEF Links, Forget
<1> HIDE DEF f
<1>2. n = [f EXCEPT !.windowOf = [x \in Server |-> IF l.windowOf[x] = w THEN NoWindow ELSE l.windowOf[x]]]
  BY DEF RemoveLinks, f
<1>3. /\ n \in Links /\ n.known = f.known /\ n.listed = f.listed /\ n.ruled = f.ruled
      /\ n.state = f.state /\ n.serverOf = f.serverOf
      /\ n.windowOf = [x \in Server |-> IF l.windowOf[x] = w THEN NoWindow ELSE l.windowOf[x]]
  BY <1>1, <1>2 DEF Links
<1> HIDE DEF n
<1>4. LinksAgree(n)
  BY <1>1, <1>3, SentinelAssumption DEF LinksAgree, Links
<1> QED BY <1>1, <1>3, <1>4 DEF LinksOK, n

LEMMA SetRuleOK ==
    ASSUME NEW l \in Links, LinksAgree(l), NEW w \in Window, NEW value \in BOOLEAN
    PROVE  LinksOK(SetRule(l, w, value)) /\ SetRule(l, w, value).state = l.state
<1> DEFINE k == Knows(l, w)
           n == SetRule(l, w, value)
<1>1. k \in Links /\ LinksAgree(k) /\ k.known = l.known \cup {w} /\ k.state = l.state
  BY KnowsOK DEF LinksOK
<1> HIDE DEF k
<1>2. n = [k EXCEPT !.ruled = IF value THEN k.ruled \cup {w} ELSE k.ruled \ {w}]
  BY DEF SetRule, k
<1>3. /\ n \in Links /\ n.known = k.known /\ n.listed = k.listed /\ n.state = k.state
      /\ n.serverOf = k.serverOf /\ n.windowOf = k.windowOf
      /\ n.ruled \subseteq k.ruled \cup {w}
  BY <1>1, <1>2 DEF Links
<1> HIDE DEF n
<1>4. LinksAgree(n)
  BY <1>1, <1>3 DEF LinksAgree
<1> QED BY <1>1, <1>3, <1>4 DEF LinksOK, n

LEMMA ClearRuleOK ==
    ASSUME NEW l \in Links, LinksAgree(l), NEW w \in Window
    PROVE  LinksOK(ClearRule(l, w)) /\ ClearRule(l, w).state = l.state
<1> DEFINE n == [l EXCEPT !.ruled = l.ruled \ {w}]
<1>1. /\ n \in Links /\ n.known = l.known /\ n.listed = l.listed /\ n.state = l.state
      /\ n.serverOf = l.serverOf /\ n.windowOf = l.windowOf /\ n.ruled = l.ruled \ {w}
  BY DEF Links
<1>2. ClearRule(l, w) = Prune(n, w)
  BY DEF ClearRule
<1> HIDE DEF n
<1>3. LinksAgree(n)
  BY <1>1 DEF LinksAgree
<1> QED BY <1>1, <1>2, <1>3, PruneOK

(* A rule's decision goes to another id, which becomes known.              *)
LEMMA TransferRuleOK ==
    ASSUME NEW l \in Links, LinksAgree(l), NEW from \in Window, NEW to \in Window
    PROVE  /\ LinksOK(TransferRule(l, from, to)) /\ TransferRule(l, from, to).state = l.state
           /\ from # to => to \in TransferRule(l, from, to).known
<1> DEFINE k == Knows(l, to)
           n == [k EXCEPT !.ruled = IF from \in l.ruled THEN (k.ruled \ {from}) \cup {to} ELSE k.ruled]
<1>1. k \in Links /\ LinksAgree(k) /\ k.known = l.known \cup {to} /\ k.state = l.state
  BY KnowsOK DEF LinksOK
<1>2. TransferRule(l, from, to) = Prune(n, from)
  BY DEF TransferRule
<1> HIDE DEF k
<1>3. /\ n \in Links /\ n.known = k.known /\ n.listed = k.listed /\ n.state = k.state
      /\ n.serverOf = k.serverOf /\ n.windowOf = k.windowOf
      /\ n.ruled \subseteq k.ruled \cup {to}
  BY <1>1 DEF Links
<1> HIDE DEF n
<1>4. LinksAgree(n)
  BY <1>1, <1>3 DEF LinksAgree
<1> QED BY <1>1, <1>2, <1>3, <1>4, PruneOK

-----------------------------------------------------------------------------
(* Native fullscreen: every index keeps leading to what it is asked for.   *)

Natives == [record : [Window -> NativeRecord \cup {NoRecord}],
            byWindow : [Window -> Window \cup {NoWindow}],
            byServer : [Server -> Window \cup {NoWindow}],
            pending : [Server -> Space \cup {NoSpace, NotPending}]]

Native == { n \in Natives : NativeAgrees(n) }

LEMMA OriginalType ==
    ASSUME NEW n \in Native, NEW w \in Window
    PROVE  Original(n, w) \in Window \cup {NoWindow}
BY DEF Original, Native, Natives

LEMMA DropAllOK ==
    ASSUME NEW n \in Native, NEW O \in SUBSET Window
    PROVE  /\ DropAll(n, O) \in Native
           /\ DropAll(n, O).record = [o \in Window |-> IF o \in O THEN NoRecord ELSE n.record[o]]
<1> DEFINE records == [o \in Window |-> IF o \in O THEN NoRecord ELSE n.record[o]]
           windows == [w \in Window |-> IF \E o \in O : n.record[o].current = w THEN NoWindow ELSE n.byWindow[w]]
           servers == [s \in Server |-> IF \E o \in O : n.record[o].server = s THEN NoWindow ELSE n.byServer[s]]
           d == DropAll(n, O)
<1>1. records \in [Window -> NativeRecord \cup {NoRecord}]
  BY DEF Native, Natives
<1>2. windows \in [Window -> Window \cup {NoWindow}]
  BY DEF Native, Natives
<1>3. servers \in [Server -> Window \cup {NoWindow}]
  BY DEF Native, Natives
<1>4. d = [n EXCEPT !.record = records, !.byWindow = windows, !.byServer = servers]
  BY DEF DropAll
<1>5. /\ \A o \in Window : records[o] = IF o \in O THEN NoRecord ELSE n.record[o]
      /\ \A w \in Window : windows[w] = NoWindow \/ (windows[w] = n.byWindow[w] /\ ~\E o \in O : n.record[o].current = w)
      /\ \A s \in Server : servers[s] = NoWindow \/ (servers[s] = n.byServer[s] /\ ~\E o \in O : n.record[o].server = s)
  OBVIOUS
<1> HIDE DEF records, windows, servers
<1>6. d \in Natives /\ d.record = records /\ d.byWindow = windows /\ d.byServer = servers
  BY <1>1, <1>2, <1>3, <1>4 DEF Native, Natives
<1> HIDE DEF d
<1>7. n \in Natives /\ NativeAgrees(n)
  BY DEF Native
<1>8. NativeAgrees(d)
  <2>1. ASSUME NEW w \in Window, d.byWindow[w] # NoWindow
        PROVE  d.record[d.byWindow[w]] # NoRecord /\ d.record[d.byWindow[w]].current = w
    <3>1. /\ d.byWindow[w] = n.byWindow[w] /\ n.byWindow[w] \in Window /\ n.byWindow[w] \notin O
          /\ n.record[n.byWindow[w]] # NoRecord /\ n.record[n.byWindow[w]].current = w
      BY <1>5, <1>6, <1>7, <2>1 DEF NativeAgrees, Natives
    <3> QED BY <1>5, <1>6, <3>1
  <2>2. ASSUME NEW s \in Server, d.byServer[s] # NoWindow
        PROVE  d.record[d.byServer[s]] # NoRecord /\ d.record[d.byServer[s]].server = s
    <3>1. /\ d.byServer[s] = n.byServer[s] /\ n.byServer[s] \in Window /\ n.byServer[s] \notin O
          /\ n.record[n.byServer[s]] # NoRecord /\ n.record[n.byServer[s]].server = s
      BY <1>5, <1>6, <1>7, <2>2 DEF NativeAgrees, Natives
    <3> QED BY <1>5, <1>6, <3>1
  <2> QED BY <2>1, <2>2 DEF NativeAgrees
<1> QED BY <1>6, <1>8 DEF Native, d, records

LEMMA DropOK ==
    ASSUME NEW n \in Native, NEW o
    PROVE  /\ Drop(n, o) \in Native
           /\ \A x \in Window : Drop(n, o).record[x] = IF x = o THEN NoRecord ELSE n.record[x]
<1> DEFINE O == {o} \cap Records(n)
<1>1. O \in SUBSET Window /\ \A x \in Window : x \in O <=> x = o /\ n.record[x] # NoRecord
  BY DEF Records
<1>2. Drop(n, o) = DropAll(n, O)
  BY DEF Drop
<1> HIDE DEF O
<1>3. DropAll(n, O) \in Native
  BY <1>1, DropAllOK
<1>4. DropAll(n, O).record = [x \in Window |-> IF x \in O THEN NoRecord ELSE n.record[x]]
  BY <1>1, DropAllOK
<1> DEFINE kept == DropAll(n, O).record
<1>5. \A x \in Window : kept[x] = IF x \in O THEN NoRecord ELSE n.record[x]
  BY <1>4
<1> HIDE DEF kept
<1>6. \A x \in Window : kept[x] = IF x = o THEN NoRecord ELSE n.record[x]
  BY <1>1, <1>5
<1> QED BY <1>2, <1>3, <1>6 DEF kept

(* The record's former keys lead nowhere, and its new ones to it.          *)
LEMMA UpsertOK ==
    ASSUME NEW n \in Native, NEW o \in Window, NEW r \in NativeRecord
    PROVE  Upsert(n, o, r) \in Native
<1> DEFINE c == Drop(n, o)
           u == Upsert(n, o, r)
           records == [c.record EXCEPT ![o] = r]
           windows == [c.byWindow EXCEPT ![r.current] = o]
           servers == [s \in Server |-> IF s = r.server THEN o ELSE c.byServer[s]]
<1>1. c \in Native /\ c \in Natives /\ NativeAgrees(c) /\ c.record[o] = NoRecord
  BY DropOK DEF Native
<1>2. u = [c EXCEPT !.record = records, !.byWindow = windows, !.byServer = servers]
  BY DEF Upsert
<1> HIDE DEF c
<1>3. records \in [Window -> NativeRecord \cup {NoRecord}]
  BY <1>1 DEF Natives
<1>4. windows \in [Window -> Window \cup {NoWindow}] /\ servers \in [Server -> Window \cup {NoWindow}]
  BY <1>1 DEF Natives, NativeRecord
<1>5. /\ \A x \in Window : records[x] = IF x = o THEN r ELSE c.record[x]
      /\ \A w \in Window : windows[w] = IF w = r.current THEN o ELSE c.byWindow[w]
      /\ \A s \in Server : servers[s] = IF s = r.server THEN o ELSE c.byServer[s]
  BY <1>1 DEF Natives, NativeRecord
<1> HIDE DEF records, windows, servers
<1>6. u \in Natives /\ u.record = records /\ u.byWindow = windows /\ u.byServer = servers
  BY <1>1, <1>2, <1>3, <1>4 DEF Natives
<1> HIDE DEF u
<1>7. r # NoRecord
  BY RecordAssumption
<1>8. NativeAgrees(u)
  <2>1. ASSUME NEW w \in Window, u.byWindow[w] # NoWindow
        PROVE  u.record[u.byWindow[w]] # NoRecord /\ u.record[u.byWindow[w]].current = w
    <3>1. CASE w = r.current
      BY <1>5, <1>6, <1>7, <3>1
    <3>2. CASE w # r.current
      <4>1. /\ u.byWindow[w] = c.byWindow[w] /\ c.byWindow[w] \in Window
            /\ c.record[c.byWindow[w]] # NoRecord /\ c.record[c.byWindow[w]].current = w
        BY <1>1, <1>5, <1>6, <2>1, <3>2 DEF NativeAgrees, Natives
      <4>2. u.record[c.byWindow[w]] = c.record[c.byWindow[w]]
        BY <1>1, <1>5, <1>6, <4>1
      <4> QED BY <4>1, <4>2
    <3> QED BY <3>1, <3>2
  <2>2. ASSUME NEW s \in Server, u.byServer[s] # NoWindow
        PROVE  u.record[u.byServer[s]] # NoRecord /\ u.record[u.byServer[s]].server = s
    <3>1. CASE s = r.server
      BY <1>5, <1>6, <1>7, <3>1
    <3>2. CASE s # r.server
      <4>1. /\ u.byServer[s] = c.byServer[s] /\ c.byServer[s] \in Window
            /\ c.record[c.byServer[s]] # NoRecord /\ c.record[c.byServer[s]].server = s
        BY <1>1, <1>5, <1>6, <2>2, <3>2 DEF NativeAgrees, Natives
      <4>2. u.record[c.byServer[s]] = c.record[c.byServer[s]]
        BY <1>1, <1>5, <1>6, <4>1
      <4> QED BY <4>1, <4>2
    <3> QED BY <3>1, <3>2
  <2> QED BY <2>1, <2>2 DEF NativeAgrees
<1> QED BY <1>6, <1>8 DEF Native, u

LEMMA AmendOK ==
    ASSUME NEW n \in Native, NEW w, NEW field, NEW value,
           \/ field = "server" /\ value \in Server
           \/ field = "current" /\ value \in Window
           \/ field = "assigned" /\ value \in Space
    PROVE  Amend(n, w, field, value) \in Native
<1> DEFINE o == Original(n, w)
           r == n.record[o]
           amended == CASE field = "server"   -> [r EXCEPT !.server = value]
                        [] field = "current"  -> [r EXCEPT !.current = value]
                        [] field = "assigned" -> [r EXCEPT !.assigned = value, !.last = value]
<1>1. CASE o \notin Records(n)
  BY <1>1 DEF Amend
<1>2. CASE o \in Records(n)
  <2>1. o \in Window /\ r \in NativeRecord
    BY <1>2 DEF Records, Native, Natives
  <2>2. Amend(n, w, field, value) = Upsert(n, o, amended)
    BY <1>2 DEF Amend
  <2> HIDE DEF r, o
  <2>3. amended \in NativeRecord
    <3>1. CASE field = "server"
      BY <2>1, <3>1 DEF NativeRecord
    <3>2. CASE field = "current"
      BY <2>1, <3>2 DEF NativeRecord
    <3>3. CASE field = "assigned"
      BY <2>1, <3>3 DEF NativeRecord
    <3> QED BY <3>1, <3>2, <3>3
  <2> HIDE DEF amended
  <2> QED BY <2>1, <2>2, <2>3, UpsertOK
<1> QED BY <1>1, <1>2

LEMMA SuspendOK ==
    ASSUME NEW n \in Native, NEW w \in Window, NEW s \in Server \cup {NoServer},
           NEW assigned \in Space \cup {NoSpace}, NEW fallback \in Space \cup {NoSpace}
    PROVE  Suspend(n, w, s, assigned, fallback) \in Native
<1> DEFINE o == First(Original(n, w), w, NoWindow)
           r == IF n.record[o] # NoRecord THEN n.record[o]
                ELSE [current |-> w, server |-> NoServer, assigned |-> NoSpace, last |-> NoSpace]
           made == [current  |-> w,
                    server   |-> First(s, r.server, NoServer),
                    assigned |-> First(assigned, r.assigned, NoSpace),
                    last     |-> First(assigned, First(fallback, r.last, NoSpace), NoSpace)]
<1>1. o \in Window
  BY OriginalType DEF First
<1>2. Suspend(n, w, s, assigned, fallback) = Upsert(n, o, made)
  BY DEF Suspend
<1> HIDE DEF o
<1>3. r \in NativeRecord
  BY <1>1 DEF Native, Natives, NativeRecord
<1> HIDE DEF r
<1>4. made \in NativeRecord
  BY <1>3 DEF NativeRecord, First
<1> HIDE DEF made
<1> QED BY <1>1, <1>2, <1>4, UpsertOK

LEMMA PendingOK ==
    ASSUME NEW n \in Native, NEW s \in Server, NEW p \in Space \cup {NoSpace, NotPending}
    PROVE  [n EXCEPT !.pending = [n.pending EXCEPT ![s] = p]] \in Native
<1> DEFINE pending == [n.pending EXCEPT ![s] = p]
           m == [n EXCEPT !.pending = pending]
<1>1. pending \in [Server -> Space \cup {NoSpace, NotPending}]
  BY DEF Native, Natives
<1> HIDE DEF pending
<1>2. m \in Natives /\ m.record = n.record /\ m.byWindow = n.byWindow /\ m.byServer = n.byServer
  BY <1>1 DEF Native, Natives
<1> HIDE DEF m
<1>3. NativeAgrees(m)
  BY <1>2 DEF Native, NativeAgrees
<1> QED BY <1>2, <1>3 DEF Native, m, pending

LEMMA AdoptOK ==
    ASSUME NEW n \in Native, NEW s \in Server, NEW w \in Window
    PROVE  Adopt(n, s, w) \in Native
<1>1. CASE n.pending[s] # NotPending
  <2> DEFINE cleared == [n EXCEPT !.pending = [n.pending EXCEPT ![s] = NotPending]]
  <2>1. cleared \in Native
    BY PendingOK
  <2>2. n.pending[s] \in Space \cup {NoSpace}
    BY <1>1 DEF Native, Natives
  <2>3. Adopt(n, s, w) = Suspend(cleared, w, s, NoSpace, n.pending[s])
    BY <1>1 DEF Adopt
  <2> HIDE DEF cleared
  <2> QED BY <2>1, <2>2, <2>3, SuspendOK
<1>2. CASE n.pending[s] = NotPending
  BY <1>2, AmendOK DEF Adopt
<1> QED BY <1>1, <1>2

LEMMA SuspendServerOK ==
    ASSUME NEW n \in Native, NEW s \in Server, NEW fallback \in Space \cup {NoSpace}
    PROVE  SuspendServer(n, s, fallback) \in Native
<1> DEFINE known == IF n.pending[s] = NotPending THEN NoSpace ELSE n.pending[s]
           p == First(fallback, known, NoSpace)
<1>1. p \in Space \cup {NoSpace, NotPending}
  BY DEF First, Native, Natives
<1>2. SuspendServer(n, s, fallback) = [n EXCEPT !.pending = [n.pending EXCEPT ![s] = p]]
  BY DEF SuspendServer
<1> HIDE DEF p
<1> QED BY <1>1, <1>2, PendingOK

-----------------------------------------------------------------------------
(* The assignments.                                                        *)

Homes == [of : [Window -> Home \cup {NoHome}], at : [Home -> SUBSET Window]]

HomesOK(a) == a \in Homes /\ HomesAgree(a)

LEMMA UnassignOK ==
    ASSUME NEW a \in Homes, HomesAgree(a), NEW w \in Window
    PROVE  HomesOK(Unassign(a, w)) /\ Unassign(a, w).of = [a.of EXCEPT ![w] = NoHome]
<1> DEFINE n == Unassign(a, w)
<1>1. CASE a.of[w] = NoHome
  BY <1>1 DEF Unassign, HomesOK, Homes
<1>2. CASE a.of[w] # NoHome
  <2> DEFINE of == [a.of EXCEPT ![w] = NoHome]
             at == [a.at EXCEPT ![a.of[w]] = a.at[a.of[w]] \ {w}]
  <2>0. n = [a EXCEPT !.of = of, !.at = at] /\ of \in [Window -> Home \cup {NoHome}] /\ at \in [Home -> SUBSET Window]
    BY <1>2 DEF Unassign, Homes
  <2>1. n \in Homes /\ n.of = of /\ n.at = at
    BY <2>0 DEF Homes
  <2> HIDE DEF n
  <2>2. HomesAgree(n)
    BY <1>2, <2>1, RecordAssumption DEF HomesAgree, Homes
  <2> QED BY <2>1, <2>2 DEF HomesOK, n
<1> QED BY <1>1, <1>2

LEMMA AssignOK ==
    ASSUME NEW a \in Homes, HomesAgree(a), NEW w \in Window, NEW home \in Home
    PROVE  HomesOK(Assign(a, w, home))
<1> DEFINE bare == Unassign(a, w)
           of == [bare.of EXCEPT ![w] = home]
           at == [bare.at EXCEPT ![home] = bare.at[home] \cup {w}]
           n == Assign(a, w, home)
<1>0. HomesOK(bare) /\ bare.of = [a.of EXCEPT ![w] = NoHome] /\ a.of \in [Window -> Home \cup {NoHome}]
  BY UnassignOK DEF Homes
<1>1. bare \in Homes /\ HomesAgree(bare) /\ bare.of[w] = NoHome
  BY <1>0 DEF HomesOK
<1>2. n = [bare EXCEPT !.of = of, !.at = at]
  BY DEF Assign
<1> HIDE DEF bare
<1>3. of \in [Window -> Home \cup {NoHome}] /\ at \in [Home -> SUBSET Window]
  BY <1>1 DEF Homes
<1>4. n \in Homes /\ n.of = of /\ n.at = at
  BY <1>1, <1>2, <1>3 DEF Homes
<1> HIDE DEF n
<1>5. HomesAgree(n)
  BY <1>1, <1>4, RecordAssumption DEF HomesAgree, Homes
<1> QED BY <1>4, <1>5 DEF HomesOK, n

LEMMA TransferHomeOK ==
    ASSUME NEW a \in Homes, HomesAgree(a), NEW from \in Window, NEW to \in Window
    PROVE  HomesOK(TransferHome(a, from, to))
<1>1. CASE a.of[from] = NoHome
  BY <1>1 DEF TransferHome, HomesOK
<1>2. CASE a.of[from] # NoHome
  <2>1. a.of[from] \in Home /\ TransferHome(a, from, to) = Assign(Unassign(a, from), to, a.of[from])
    BY <1>2 DEF TransferHome, Homes
  <2>2. Unassign(a, from) \in Homes /\ HomesAgree(Unassign(a, from))
    BY UnassignOK DEF HomesOK
  <2> QED BY <2>1, <2>2, AssignOK
<1> QED BY <1>1, <1>2

LEMMA RemapHomesOK ==
    ASSUME NEW a \in Homes, HomesAgree(a), NEW old \in Space, NEW new \in Space, old # new
    PROVE  HomesOK(RemapHomes(a, old, new))
<1> DEFINE Moved(h) == IF h.space = old THEN [h EXCEPT !.space = new] ELSE h
           Back(h) == [h EXCEPT !.space = old]
           n == RemapHomes(a, old, new)
<1>1. \A h \in Home : Moved(h) \in Home /\ Back(h) \in Home
  BY DEF Home
<1>2. \A h, g \in Home : Moved(g) = h <=> (h.space # old /\ g = h) \/ (h.space = new /\ g = Back(h))
  <2> SUFFICES ASSUME NEW h \in Home, NEW g \in Home
               PROVE  Moved(g) = h <=> (h.space # old /\ g = h) \/ (h.space = new /\ g = Back(h))
    OBVIOUS
  <2>1. h = [space |-> h.space, id |-> h.id] /\ g = [space |-> g.space, id |-> g.id]
    BY DEF Home
  <2>2. Back(h) = [space |-> old, id |-> h.id]
    BY <2>1
  <2>3. CASE g.space = old
    <3>1. Moved(g) = [space |-> new, id |-> g.id]
      BY <2>1, <2>3
    <3> QED BY <2>1, <2>2, <2>3, <3>1
  <2>4. CASE g.space # old
    BY <2>1, <2>2, <2>4
  <2> QED BY <2>3, <2>4
<1>3. n = [of |-> [w \in Window |-> IF a.of[w] = NoHome THEN NoHome ELSE Moved(a.of[w])],
           at |-> [h \in Home |-> IF h.space = old THEN {}
                                  ELSE a.at[h] \cup (IF h.space = new THEN a.at[Back(h)] ELSE {})]]
  BY DEF RemapHomes
<1> HIDE DEF Moved, Back
<1>4. n \in Homes
  BY <1>1, <1>3 DEF Homes
<1>5. ASSUME NEW w \in Window, NEW h \in Home
      PROVE  w \in n.at[h] <=> n.of[w] = h
  <2>1. n.of[w] = IF a.of[w] = NoHome THEN NoHome ELSE Moved(a.of[w])
    BY <1>3
  <2>2. n.at[h] = IF h.space = old THEN {}
                  ELSE a.at[h] \cup (IF h.space = new THEN a.at[Back(h)] ELSE {})
    BY <1>3
  <2> HIDE DEF n
  <2>3. CASE a.of[w] = NoHome
    <3>1. n.of[w] # h /\ \A g \in Home : w \notin a.at[g]
      BY <2>1, <2>3, RecordAssumption DEF HomesAgree
    <3> QED BY <1>1, <2>2, <3>1
  <2>4. CASE a.of[w] # NoHome
    <3>1. a.of[w] \in Home /\ n.of[w] = Moved(a.of[w])
      BY <2>1, <2>4 DEF Homes
    <3>2. w \in a.at[h] <=> a.of[w] = h
      BY DEF HomesAgree
    <3>3. w \in a.at[Back(h)] <=> a.of[w] = Back(h)
      BY <1>1 DEF HomesAgree
    <3>4. w \in n.at[h] <=> (h.space # old /\ a.of[w] = h) \/ (h.space = new /\ a.of[w] = Back(h))
      BY <2>2, <3>2, <3>3
    <3>5. Moved(a.of[w]) = h <=> (h.space # old /\ a.of[w] = h) \/ (h.space = new /\ a.of[w] = Back(h))
      BY <1>2, <3>1
    <3> QED BY <3>1, <3>4, <3>5
  <2> QED BY <2>3, <2>4
<1>6. HomesAgree(n)
  BY <1>5 DEF HomesAgree
<1> QED BY <1>4, <1>6 DEF HomesOK

-----------------------------------------------------------------------------
(* The store.                                                              *)

Stores == [links : Links, native : Native, homes : Homes]

StoreOK(st) == st \in Stores /\ LinksAgree(st.links) /\ HomesAgree(st.homes)

(* A store made of parts that are each in order is in order.               *)
LEMMA StoreMade ==
    ASSUME NEW l, LinksOK(l), NEW n \in Native, NEW a, HomesOK(a)
    PROVE  /\ StoreOK([links |-> l, native |-> n, homes |-> a])
           /\ [links |-> l, native |-> n, homes |-> a].links = l
           /\ [links |-> l, native |-> n, homes |-> a].homes = a
BY DEF LinksOK, HomesOK, StoreOK, Stores

LEMMA StoreWith ==
    ASSUME NEW st, StoreOK(st)
    PROVE  /\ LinksOK(st.links) /\ st.links \in Links /\ LinksAgree(st.links)
           /\ HomesOK(st.homes) /\ st.homes \in Homes /\ HomesAgree(st.homes)
           /\ st.native \in Native
           /\ \A l : LinksOK(l) => /\ StoreOK([st EXCEPT !.links = l])
                                  /\ [st EXCEPT !.links = l].links = l
           /\ \A n \in Native : /\ StoreOK([st EXCEPT !.native = n])
                                /\ [st EXCEPT !.native = n].links = st.links
           /\ \A a : HomesOK(a) => /\ StoreOK([st EXCEPT !.homes = a])
                                  /\ [st EXCEPT !.homes = a].links = st.links
                                  /\ [st EXCEPT !.homes = a].homes = a
<1>1. /\ LinksOK(st.links) /\ HomesOK(st.homes) /\ st.native \in Native /\ st \in Stores
      /\ st.links \in Links /\ LinksAgree(st.links) /\ st.homes \in Homes /\ HomesAgree(st.homes)
  BY DEF StoreOK, Stores, LinksOK, HomesOK
<1>3. ASSUME NEW l, LinksOK(l)
      PROVE  /\ StoreOK([st EXCEPT !.links = l])
             /\ [st EXCEPT !.links = l].links = l
  <2> DEFINE m == [st EXCEPT !.links = l]
  <2>1. m = [links |-> l, native |-> st.native, homes |-> st.homes]
    BY <1>1 DEF Stores
  <2> HIDE DEF m
  <2>2. StoreOK(m) /\ m.links = l
    BY <1>1, <1>3, <2>1, StoreMade
  <2> QED BY <2>2 DEF m
<1>4. ASSUME NEW n, n \in Native
      PROVE  /\ StoreOK([st EXCEPT !.native = n])
             /\ [st EXCEPT !.native = n].links = st.links
  <2> DEFINE m == [st EXCEPT !.native = n]
  <2>1. m = [links |-> st.links, native |-> n, homes |-> st.homes]
    BY <1>1 DEF Stores
  <2> HIDE DEF m
  <2>2. StoreOK(m) /\ m.links = st.links
    BY <1>1, <1>4, <2>1, StoreMade
  <2> QED BY <2>2 DEF m
<1>5. ASSUME NEW a, HomesOK(a)
      PROVE  /\ StoreOK([st EXCEPT !.homes = a])
             /\ [st EXCEPT !.homes = a].links = st.links
             /\ [st EXCEPT !.homes = a].homes = a
  <2> DEFINE m == [st EXCEPT !.homes = a]
  <2>1. m = [links |-> st.links, native |-> st.native, homes |-> a]
    BY <1>1 DEF Stores
  <2> HIDE DEF m
  <2>2. StoreOK(m) /\ m.links = st.links /\ m.homes = a
    BY <1>1, <1>5, <2>1, StoreMade
  <2> QED BY <2>2 DEF m
<1> QED BY <1>1, <1>3, <1>4, <1>5

LEMMA SyncAssignedOK ==
    ASSUME NEW st, StoreOK(st), NEW w \in Window
    PROVE  StoreOK(SyncAssigned(st, w)) /\ SyncAssigned(st, w).links = st.links
<1>1. CASE st.homes.of[w] = NoHome
  BY <1>1 DEF SyncAssigned
<1>2. CASE st.homes.of[w] # NoHome
  <2>1. HomeSpace(st, w) \in Space
    BY <1>2, StoreWith DEF HomeSpace, Homes, Home
  <2>2. Amend(st.native, w, "assigned", HomeSpace(st, w)) \in Native
    BY <2>1, StoreWith, AmendOK
  <2>3. SyncAssigned(st, w) = [st EXCEPT !.native = Amend(st.native, w, "assigned", HomeSpace(st, w))]
    BY <1>2 DEF SyncAssigned
  <2> QED BY <2>2, <2>3, StoreWith
<1> QED BY <1>1, <1>2

LEMMA HomeSpaceType ==
    ASSUME NEW st, StoreOK(st), NEW w \in Window
    PROVE  HomeSpace(st, w) \in Space \cup {NoSpace}
BY StoreWith DEF HomeSpace, Homes, Home

LEMMA TrackOK ==
    ASSUME NEW st, StoreOK(st), NEW s \in Server, NEW w \in Window
    PROVE  /\ StoreOK(Track(st, s, w)) /\ Track(st, s, w).links = Link(st.links, s, w)
<1> DEFINE l == Link(st.links, s, w)
           n == Adopt(st.native, s, w)
           both == [st EXCEPT !.links = l, !.native = n]
<1>1. LinksOK(l) /\ n \in Native
  BY StoreWith, LinkOK, AdoptOK
<1>2. Track(st, s, w) = SyncAssigned(both, w)
  BY DEF Track
<1> HIDE DEF l, n
<1>3. both = [[st EXCEPT !.links = l] EXCEPT !.native = n]
  BY DEF StoreOK, Stores
<1>4. StoreOK(both) /\ both.links = l
  <2> DEFINE linked == [st EXCEPT !.links = l]
  <2>1. StoreOK(linked) /\ linked.links = l
    BY <1>1, StoreWith
  <2> HIDE DEF linked
  <2>2. StoreOK([linked EXCEPT !.native = n]) /\ [linked EXCEPT !.native = n].links = linked.links
    BY <1>1, <2>1, StoreWith
  <2> QED BY <1>3, <2>1, <2>2 DEF linked
<1> HIDE DEF both
<1> QED BY <1>2, <1>4, SyncAssignedOK DEF l

LEMMA InsertOK ==
    ASSUME NEW st, StoreOK(st), NEW w \in Window, NEW s \in Server \cup {NoServer}
    PROVE  /\ StoreOK(Insert(st, w, s))
           /\ Insert(st, w, s).links.state = [st.links.state EXCEPT ![w] = s]
<1> DEFINE k == Knows(st.links, w)
           l == [k EXCEPT !.state = [k.state EXCEPT ![w] = s]]
           stated == [st EXCEPT !.links = l]
<1>1. k \in Links /\ LinksAgree(k) /\ k.known = st.links.known \cup {w} /\ k.state = st.links.state
  BY StoreWith, KnowsOK DEF LinksOK
<1>2. Insert(st, w, s) = IF s = NoServer THEN SyncAssigned(stated, w) ELSE Track(stated, s, w)
  BY DEF Insert
<1> HIDE DEF k
<1>3. /\ l \in Links /\ l.known = k.known /\ l.listed = k.listed /\ l.ruled = k.ruled
      /\ l.state = [k.state EXCEPT ![w] = s] /\ l.serverOf = k.serverOf /\ l.windowOf = k.windowOf
  BY <1>1 DEF Links
<1> HIDE DEF l
<1>4. LinksOK(l)
  BY <1>1, <1>3 DEF LinksOK, LinksAgree, Links
<1>5. StoreOK(stated) /\ stated.links = l
  BY <1>4, StoreWith
<1> HIDE DEF stated
<1>6. CASE s = NoServer
  BY <1>1, <1>2, <1>3, <1>5, <1>6, SyncAssignedOK
<1>7. CASE s # NoServer
  <2>1. s \in Server
    BY <1>7
  <2>2. Insert(st, w, s) = Track(stated, s, w)
    BY <1>2, <1>7
  <2>3. StoreOK(Track(stated, s, w)) /\ Track(stated, s, w).links = Link(l, s, w)
    BY <1>5, <2>1, TrackOK
  <2>4. Link(l, s, w).state = l.state
    BY <1>4, <2>1, LinkOK DEF LinksOK
  <2> QED BY <1>1, <1>3, <2>2, <2>3, <2>4
<1> QED BY <1>6, <1>7

LEMMA RemoveOK ==
    ASSUME NEW st, StoreOK(st), NEW w \in Window
    PROVE  StoreOK(Remove(st, w)) /\ Remove(st, w).links = RemoveLinks(st.links, w)
<1> DEFINE l == RemoveLinks(st.links, w)
           a == Unassign(st.homes, w)
<1>1. LinksOK(l) /\ HomesOK(a) /\ st.native \in Native
  BY StoreWith, RemoveLinksOK, UnassignOK
<1>2. Remove(st, w) = [st EXCEPT !.links = l, !.homes = a]
  BY DEF Remove
<1> HIDE DEF l, a
<1>3. Remove(st, w) = [links |-> l, native |-> st.native, homes |-> a]
  BY <1>2 DEF StoreOK, Stores
<1> QED BY <1>1, <1>3, StoreMade DEF l

LEMMA SuspendWindowOK ==
    ASSUME NEW st, StoreOK(st), NEW w \in Window, NEW s \in Server, NEW last \in Space \cup {NoSpace}
    PROVE  /\ StoreOK(SuspendWindow(st, w, s, last))
           /\ SuspendWindow(st, w, s, last).links.state = st.links.state
<1> DEFINE l == Knows(st.links, w)
           n == Suspend(st.native, w, s, HomeSpace(st, w), last)
<1>1. LinksOK(l) /\ n \in Native /\ HomesOK(st.homes) /\ l.state = st.links.state
  BY StoreWith, KnowsOK, SuspendOK, HomeSpaceType
<1>2. SuspendWindow(st, w, s, last) = [st EXCEPT !.links = l, !.native = n]
  BY DEF SuspendWindow
<1> HIDE DEF l, n
<1>3. SuspendWindow(st, w, s, last) = [links |-> l, native |-> n, homes |-> st.homes]
  BY <1>2 DEF StoreOK, Stores
<1> QED BY <1>1, <1>3, StoreMade

LEMMA RestoreOK ==
    ASSUME NEW st, StoreOK(st), NEW w
    PROVE  StoreOK(Restore(st, w)) /\ Restore(st, w).links = st.links
<1>1. Drop(st.native, Original(st.native, w)) \in Native
  BY StoreWith, DropOK
<1>2. CASE Original(st.native, w) = NoWindow
  BY <1>2 DEF Restore
<1>3. CASE Original(st.native, w) # NoWindow
  <2>1. Restore(st, w) = [st EXCEPT !.native = Drop(st.native, Original(st.native, w))]
    BY <1>3 DEF Restore
  <2> QED BY <1>1, <2>1, StoreWith
<1> QED BY <1>2, <1>3

LEMMA AssignWindowOK ==
    ASSUME NEW st, StoreOK(st), NEW w \in Window, NEW home \in Home
    PROVE  StoreOK(AssignWindow(st, w, home)) /\ AssignWindow(st, w, home).links = st.links
<1> DEFINE a == Assign(st.homes, w, home)
           m == [st EXCEPT !.homes = a]
<1>1. HomesOK(a)
  BY StoreWith, AssignOK
<1>2. AssignWindow(st, w, home) = SyncAssigned(m, w)
  BY DEF AssignWindow
<1> HIDE DEF a
<1>3. StoreOK(m) /\ m.links = st.links
  BY <1>1, StoreWith
<1> HIDE DEF m
<1> QED BY <1>2, <1>3, SyncAssignedOK

LEMMA LetGoOK ==
    ASSUME NEW st, StoreOK(st), NEW w \in Window
    PROVE  StoreOK(LetGo(st, w)) /\ LetGo(st, w).links.state = st.links.state
<1> DEFINE p == Prune(st.links, w)
           l == ClearRule(p, w)
           a == Unassign(st.homes, w)
<1>1. p \in Links /\ LinksAgree(p) /\ p.state = st.links.state
  BY StoreWith, PruneOK DEF LinksOK
<1>2. LetGo(st, w) = [st EXCEPT !.links = l, !.homes = a]
  BY DEF LetGo
<1> HIDE DEF p
<1>3. LinksOK(l) /\ l.state = st.links.state /\ HomesOK(a) /\ st.native \in Native
  BY <1>1, StoreWith, ClearRuleOK, UnassignOK
<1> HIDE DEF l, a
<1>4. LetGo(st, w) = [links |-> l, native |-> st.native, homes |-> a]
  BY <1>2 DEF StoreOK, Stores
<1> QED BY <1>3, <1>4, StoreMade

(* What persists of a window goes to its other id, which is then known.    *)
LEMMA TransferOK ==
    ASSUME NEW st, StoreOK(st), NEW from \in Window, NEW to \in Window, from # to,
           to \in st.links.known
    PROVE  /\ StoreOK(Transfer(st, from, to)) /\ Transfer(st, from, to).links.state = st.links.state
           /\ to \in Transfer(st, from, to).links.known
<1> DEFINE o == Original(st.native, from)
           id == IF st.native.record[o].current = from THEN to ELSE st.native.record[o].current
           l == IF from \in st.links.known THEN TransferRule(st.links, from, to) ELSE st.links
           n == IF from \in st.links.known /\ o # NoWindow
                THEN Amend(st.native, from, "current", id) ELSE st.native
           a == TransferHome(st.homes, from, to)
           m == [links |-> l, native |-> n, homes |-> a]
<1>1. LinksOK(l) /\ l.state = st.links.state /\ to \in l.known
  BY StoreWith, TransferRuleOK
<1>2. n \in Native
  <2>1. CASE o \in Records(st.native)
    <3>1. id \in Window
      BY <2>1, StoreWith DEF Records, Native, Natives, NativeRecord
    <3> HIDE DEF id, o
    <3> QED BY <3>1, StoreWith, AmendOK
  <2>2. CASE o \notin Records(st.native)
    <3>1. Amend(st.native, from, "current", id) = st.native
      BY <2>2 DEF Amend
    <3> QED BY <3>1, StoreWith
  <2> QED BY <2>1, <2>2
<1>3. HomesOK(a)
  BY StoreWith, TransferHomeOK
<1> DEFINE moved == [st EXCEPT !.homes = a, !.links = l, !.native = n]
<1>4. Transfer(st, from, to) = IF st.homes.of[from] = NoHome THEN moved ELSE SyncAssigned(moved, to)
  BY DEF Transfer
<1> HIDE DEF l, n, a
<1>5. ASSUME NEW x, x = moved PROVE x = m
  BY <1>5 DEF StoreOK, Stores
<1> HIDE DEF moved
<1>6. StoreOK(m) /\ m.links = l
  BY <1>1, <1>2, <1>3, StoreMade
<1> HIDE DEF m
<1>7. moved = m
  BY <1>5
<1> QED BY <1>1, <1>4, <1>6, <1>7, SyncAssignedOK

LEMMA RemoveAppOK ==
    ASSUME NEW st, StoreOK(st)
    PROVE  /\ StoreOK(RemoveApp(st))
           /\ \A w \in Window : RemoveApp(st).links.state[w] \in {NoState, st.links.state[w]}
<1> DEFINE mine == st.links.listed
           state == [w \in Window |-> IF w \in mine THEN NoState ELSE st.links.state[w]]
           serverOf == [w \in Window |-> IF w \in mine THEN NoServer ELSE st.links.serverOf[w]]
           windowOf == [s \in Server |-> IF st.links.windowOf[s] \in mine THEN NoWindow ELSE st.links.windowOf[s]]
           l == [known |-> st.links.known \ mine, listed |-> {}, ruled |-> st.links.ruled \ mine,
                 state |-> state, serverOf |-> serverOf, windowOf |-> windowOf]
           d == DropAll(st.native, Records(st.native))
           n == [d EXCEPT !.pending = [s \in Server |-> NotPending]]
           of == [w \in Window |-> IF w \in mine THEN NoHome ELSE st.homes.of[w]]
           at == [h \in Home |-> st.homes.at[h] \ mine]
           a == [of |-> of, at |-> at]
<1>1. st.links \in Links /\ LinksAgree(st.links) /\ st.homes \in Homes /\ HomesAgree(st.homes)
  BY StoreWith
<1>2. l \in Links
  BY <1>1 DEF Links
<1>3. LinksAgree(l)
  BY <1>1, SentinelAssumption DEF LinksAgree, Links
<1>4. n \in Native
  <2>1. d \in Native
    BY StoreWith, DropAllOK DEF Records
  <2> HIDE DEF d
  <2>2. /\ n \in Natives /\ n.record = d.record /\ n.byWindow = d.byWindow /\ n.byServer = d.byServer
    BY <2>1 DEF Native, Natives
  <2>3. NativeAgrees(n)
    BY <2>1, <2>2 DEF Native, NativeAgrees
  <2> QED BY <2>2, <2>3 DEF Native
<1>5. a \in Homes /\ HomesAgree(a)
  BY <1>1, RecordAssumption DEF Homes, HomesAgree
<1>6. RemoveApp(st) = [links |-> l, native |-> n, homes |-> a]
  BY DEF RemoveApp
<1>7. \A w \in Window : l.state[w] \in {NoState, st.links.state[w]}
  OBVIOUS
<1> HIDE DEF l, n, a
<1> QED BY <1>2, <1>3, <1>4, <1>5, <1>6, <1>7, StoreMade DEF LinksOK, HomesOK

LEMMA RemapSpaceOK ==
    ASSUME NEW st, StoreOK(st), NEW old \in Space, NEW new \in Space
    PROVE  StoreOK(RemapSpace(st, old, new)) /\ RemapSpace(st, old, new).links = st.links
<1> DEFINE a == RemapHomes(st.homes, old, new)
<1>1. CASE old = new
  BY <1>1 DEF RemapSpace
<1>2. CASE old # new
  <2>1. HomesOK(a)
    BY <1>2, StoreWith, RemapHomesOK
  <2>2. RemapSpace(st, old, new) = [st EXCEPT !.homes = a]
    BY <1>2 DEF RemapSpace
  <2> HIDE DEF a
  <2> QED BY <2>1, <2>2, StoreWith
<1> QED BY <1>1, <1>2

-----------------------------------------------------------------------------
(* The reactor's two larger operations on the store.                       *)

(* Only a window that is removed loses its state, and no window gains one. *)
Fewer(l, k) == \A w \in Window : k.state[w] \in {NoState, l.state[w]}

(* The window listed stays known, so that its state can be set.            *)
LEMMA MappingOK ==
    ASSUME StoreOK(store), NEW w \in Window, NEW old, NEW s \in Server \cup {NoServer}
    PROVE  /\ StoreOK(Mapping(w, old, s)) /\ Fewer(store.links, Mapping(w, old, s).links)
           /\ Mapping(w, old, s).links.state[w] = store.links.state[w]
           /\ w \in store.links.known => w \in Mapping(w, old, s).links.known
<1> DEFINE freed == IF old \in Server \ {s} /\ store.links.windowOf[old] = w
                    THEN [store EXCEPT !.links = RemoveServer(store.links, old)] ELSE store
           previous == freed.links.windowOf[s]
           tracked == Track(freed, s, w)
           moved == IF previous \in {NoWindow, w} THEN tracked
                    ELSE Remove(Transfer(tracked, previous, w), previous)
<1>1. /\ StoreOK(freed) /\ freed.links.state = store.links.state
      /\ freed.links.known = store.links.known
  BY StoreWith, RemoveServerOK
<1> HIDE DEF freed
<1>2. CASE s = NoServer
  <2>1. Mapping(w, old, s) = freed
    BY <1>2 DEF Mapping, freed
  <2> QED BY <1>1, <2>1 DEF Fewer
<1>3. CASE s # NoServer
  <2>1. /\ StoreOK(tracked) /\ tracked.links.state = store.links.state /\ w \in tracked.links.known
    BY <1>1, <1>3, StoreWith, TrackOK, LinkOK
  <2> HIDE DEF tracked
  <2>2. previous \in Window \cup {NoWindow}
    BY <1>1, <1>3, StoreWith DEF Links
  <2> HIDE DEF previous
  <2>3. /\ StoreOK(moved) /\ Fewer(store.links, moved.links)
        /\ moved.links.state[w] = store.links.state[w] /\ w \in moved.links.known
    <3>1. CASE previous \in {NoWindow, w}
      BY <2>1, <3>1 DEF Fewer
    <3>2. CASE previous \notin {NoWindow, w}
      <4> DEFINE t == Transfer(tracked, previous, w)
      <4>1. previous \in Window /\ previous # w
        BY <2>2, <3>2
      <4>2. StoreOK(t) /\ t.links.state = store.links.state /\ w \in t.links.known
        BY <2>1, <4>1, TransferOK
      <4>3. moved = Remove(t, previous)
        BY <3>2
      <4> HIDE DEF t, moved
      <4>4. t.links \in Links /\ LinksAgree(t.links)
        BY <4>2, StoreWith
      <4>5. StoreOK(moved) /\ moved.links = RemoveLinks(t.links, previous)
        BY <4>1, <4>2, <4>3, RemoveOK
      <4>6. /\ RemoveLinks(t.links, previous).known = t.links.known \ {previous}
            /\ RemoveLinks(t.links, previous).state = [t.links.state EXCEPT ![previous] = NoState]
        BY <4>1, <4>4, RemoveLinksOK
      <4> QED BY <4>1, <4>2, <4>4, <4>5, <4>6 DEF Fewer, Links
    <3> QED BY <3>1, <3>2
  <2>4. Mapping(w, old, s) = moved \/ Mapping(w, old, s) = Restore(moved, w)
    BY <1>3 DEF Mapping, moved, previous, tracked, freed
  <2> HIDE DEF moved
  <2>5. StoreOK(Restore(moved, w)) /\ Restore(moved, w).links = moved.links
    BY <2>3, RestoreOK
  <2>6. CASE Mapping(w, old, s) = moved
    BY <2>3, <2>6
  <2>7. CASE Mapping(w, old, s) = Restore(moved, w)
    BY <2>3, <2>5, <2>7
  <2> QED BY <2>4, <2>6, <2>7
<1> QED BY <1>2, <1>3

(* A window destroyed takes its state, its server and its workspace.       *)
LEMMA DestroyOK ==
    ASSUME StoreOK(store), NEW w \in Window, Destroy(w),
           tx \in [Server -> [id : Nat, target : Frame \cup {NoFrame}]]
    PROVE  /\ StoreOK(store') /\ Fewer(store.links, store.links')
           /\ tx' \in [Server -> [id : Nat, target : Frame \cup {NoFrame}]]
<1>1. CASE w \notin store.links.known
  BY <1>1 DEF Destroy, Fewer
<1>2. CASE w \in store.links.known
  <2> DEFINE s == store.links.serverOf[w]
             bare == IF s = NoServer THEN store
                     ELSE [store EXCEPT !.links = RemoveServer(store.links, s)]
             r == Remove(bare, w)
  <2>1. s \in Server \cup {NoServer}
    BY StoreWith DEF Links
  <2>2. store' = LetGo(r, w) /\ tx' = [x \in Server |-> IF x = s THEN NoTx ELSE tx[x]]
    BY <1>2 DEF Destroy
  <2> HIDE DEF s
  <2>3. StoreOK(bare) /\ bare.links.state = store.links.state
    BY <2>1, StoreWith, RemoveServerOK
  <2> HIDE DEF bare
  <2>4. bare.links \in Links /\ LinksAgree(bare.links)
    BY <2>3, StoreWith
  <2>a. StoreOK(r) /\ r.links = RemoveLinks(bare.links, w)
    BY <2>3, RemoveOK
  <2>b. RemoveLinks(bare.links, w).state = [bare.links.state EXCEPT ![w] = NoState]
    BY <2>4, RemoveLinksOK
  <2>5. StoreOK(r) /\ r.links.state = [store.links.state EXCEPT ![w] = NoState]
    BY <2>3, <2>a, <2>b
  <2> HIDE DEF r
  <2>6. StoreOK(store') /\ store'.links.state = r.links.state
    BY <2>2, <2>5, LetGoOK
  <2>7. Fewer(store.links, store.links')
    BY <2>5, <2>6, StoreWith DEF Fewer, Links
  <2> QED BY <2>2, <2>6, <2>7 DEF NoTx
<1> QED BY <1>1, <1>2

-----------------------------------------------------------------------------
(* What the actors exchange.                                               *)

Item == [window : Window, server : Server \cup {NoServer}, frame : Frame]

Request == [kind : {"refresh"}]
           \cup [kind : {"write"}, window : Window, frame : Frame, id : Nat, more : {0, 1}]

Event == [kind : {"found"}, list : Seq(Item)]
         \cup [kind : {"created"}, window : Window, server : Server \cup {NoServer}, frame : Frame]
         \cup [kind : {"destroyed"}, window : Window]
         \cup [kind : {"ended"}]
         \cup [kind : {"frame"}, window : Window, frame : Frame, last : Int, requested : BOOLEAN,
               mouse : {"unread", "up", "down"}, byUser : BOOLEAN]

Notice == ({"created", "moved"} \X Server) \cup ({"destroyed"} \X Window)

MacOK ==
    /\ mac \in [running : BOOLEAN, open : SUBSET Server, full : SUBSET Server, readable : SUBSET Server,
                frame : [Server -> Frame], byUser : SUBSET Server, notices : SUBSET Notice,
                news : [Server -> Seq({"fullscreen", "user"})], mouse : BOOLEAN, space : Space]
    /\ mac.full \subseteq mac.open

TxOK == tx \in [Server -> [id : Nat, target : Frame \cup {NoFrame}]]

ThreadOK == thread \in [elem : [Window -> {"none", "live", "dead"}],
                        server : [Window -> Server \cup {NoServer}], seen : [Window -> Nat]]

ReactorOK ==
    /\ reactor \in [frames : [Window -> Frame \cup {NoFrame}], deaf : {"no", "churn", "blocked", "mission"},
                    gone : SUBSET Window, todo : Seq(Item), fresh : Seq(Item)]
    /\ \A w \in Window : reactor.frames[w] = NoFrame <=> store.links.state[w] = NoState

WindowsInv ==
    /\ StoreOK(store) /\ TxOK /\ ThreadOK /\ MacOK /\ ReactorOK
    /\ inbox \in Seq(Request) /\ events \in Seq(Event)

LEMMA IdTypes ==
    /\ \A s \in Server : /\ Canonical[s] \in Window /\ Fallback[s] \in Window
                         /\ NewId(s) \in Window /\ SysId(s) \in Server \cup {NoServer}
                         /\ Id(s) \in Window \cup {NoWindow}
    /\ \A w \in Window : ServerOf(w) \in Server
<1>1. \A s \in Server : Canonical[s] \in Window /\ Fallback[s] \in Window
  BY IdAssumption
<1>2. \A s \in Server : NewId(s) \in Window /\ SysId(s) \in Server \cup {NoServer}
  BY <1>1 DEF NewId, SysId
<1>3. ASSUME NEW s \in Server PROVE Id(s) \in Window \cup {NoWindow}
  <2> DEFINE holders == Holders(s)
  <2>1. holders \subseteq Window
    BY <1>1 DEF Holders
  <2> HIDE DEF holders
  <2>2. CASE \E w \in holders : Live(w)
    <3>1. (CHOOSE w \in holders : Live(w)) \in holders
      BY <2>2
    <3> QED BY <1>1, <2>1, <3>1 DEF Id, holders
  <2>3. CASE ~\E w \in holders : Live(w)
    BY <1>1, <2>3 DEF Id, holders
  <2> QED BY <2>2, <2>3
<1>4. ASSUME NEW w \in Window PROVE ServerOf(w) \in Server
  <2>1. \E s \in Server : w \in {Canonical[s], Fallback[s]}
    BY IdAssumption
  <2> QED BY <2>1 DEF ServerOf
<1> QED BY <1>1, <1>2, <1>3, <1>4

(* The elements of a closed window are dead, and types hold.               *)
LEMMA DieType ==
    ASSUME ThreadOK, NEW s \in Server
    PROVE  /\ Die(s) \in [Window -> {"none", "live", "dead"}]
           /\ \A x : x = [thread EXCEPT !.elem = Die(s)] =>
                  x \in [elem : [Window -> {"none", "live", "dead"}],
                         server : [Window -> Server \cup {NoServer}], seen : [Window -> Nat]]
<1>1. Die(s) \in [Window -> {"none", "live", "dead"}]
  BY DEF ThreadOK, Die
<1> QED BY <1>1 DEF ThreadOK

LEMMA DestroyedNotices ==
    ASSUME NEW s \in Server
    PROVE  {<<"destroyed", w>> : w \in Holders(s)} \subseteq Notice
BY IdTypes DEF Holders, Notice

LEMMA ToldNotices ==
    ASSUME NEW s \in Server
    PROVE  Told(s) \subseteq Notice
BY DEF Told, Notice

(* What is told of a window, with one thing more or none.                  *)
LEMMA NewsTypes ==
    ASSUME MacOK, NEW s \in Server
    PROVE  /\ \A q \in Seq({"fullscreen", "user"}) :
                  [mac.news EXCEPT ![s] = q] \in [Server -> Seq({"fullscreen", "user"})]
           /\ mac.news[s] \in Seq({"fullscreen", "user"})
           /\ <<>> \in Seq({"fullscreen", "user"}) /\ <<"fullscreen">> \in Seq({"fullscreen", "user"})
           /\ \A k \in {"fullscreen", "user"} : Append(mac.news[s], k) \in Seq({"fullscreen", "user"})
           /\ mac.news[s] # <<>> => Tail(mac.news[s]) \in Seq({"fullscreen", "user"})
<1>1. mac.news[s] \in Seq({"fullscreen", "user"}) /\ mac.news \in [Server -> Seq({"fullscreen", "user"})]
  BY DEF MacOK
<1> QED BY <1>1

(* macOS touches its windows and the elements the thread holds of them.    *)
LEMMA MacOSKeeps ==
    ASSUME WindowsInv, MacOS
    PROVE  WindowsInv'
<1> USE DEF WindowsInv
<1>1. /\ UNCHANGED <<store, tx, inbox, events, reactor>>
      /\ StoreOK(store') /\ TxOK' /\ ReactorOK' /\ inbox' \in Seq(Request) /\ events' \in Seq(Event)
  <2>1. UNCHANGED <<store, tx, inbox, events, reactor>>
    BY DEF MacOS, UserPresses, Opens, Named, Closes, Renews, UserMoves, EntersFullscreen, LeavesFullscreen
  <2> QED BY <2>1 DEF TxOK, ReactorOK
<1>2. CASE UserPresses
  <2>1. mac' = [mac EXCEPT !.mouse = ~mac.mouse] /\ UNCHANGED thread
    BY <1>2 DEF UserPresses
  <2> QED BY <1>1, <2>1 DEF MacOK, ThreadOK
<1>3. ASSUME NEW s \in Server, Opens(s) PROVE WindowsInv'
  <2>1. UNCHANGED thread
    BY <1>3 DEF Opens
  <2>2. PICK f \in Frame, full \in BOOLEAN :
            mac' = [mac EXCEPT !.open = @ \cup {s}, !.frame[s] = f,
                               !.full = IF full THEN @ \cup {s} ELSE @,
                               !.news[s] = IF full THEN <<"fullscreen">> ELSE <<>>,
                               !.notices = @ \cup {<<"created", s>>}]
    BY <1>3 DEF Opens
  <2> DEFINE news == [mac.news EXCEPT ![s] = IF full THEN <<"fullscreen">> ELSE <<>>]
             frame == [mac.frame EXCEPT ![s] = f]
             fulls == IF full THEN mac.full \cup {s} ELSE mac.full
             notices == mac.notices \cup {<<"created", s>>}
             open == mac.open \cup {s}
  <2>3. mac' = [mac EXCEPT !.open = open, !.frame = frame, !.full = fulls, !.news = news, !.notices = notices]
    BY <2>2
  <2>4. news \in [Server -> Seq({"fullscreen", "user"})]
    BY NewsTypes
  <2>5. notices \in SUBSET Notice /\ open \in SUBSET Server /\ fulls \in SUBSET open
    BY DEF MacOK, Notice
  <2>6. frame \in [Server -> Frame]
    BY DEF MacOK
  <2> HIDE DEF news, frame, fulls, notices, open
  <2>7. MacOK'
    BY <2>3, <2>4, <2>5, <2>6 DEF MacOK
  <2> QED BY <1>1, <2>1, <2>7 DEF ThreadOK
<1>4. ASSUME NEW s \in Server, Named(s) PROVE WindowsInv'
  <2>1. mac' = [mac EXCEPT !.readable = mac.readable \cup {s}] /\ UNCHANGED thread
    BY <1>4 DEF Named
  <2> QED BY <1>1, <2>1 DEF MacOK, ThreadOK
<1>5. ASSUME NEW s \in Server, Closes(s) PROVE WindowsInv'
  <2> DEFINE told == {<<"destroyed", w>> : w \in Holders(s)}
  <2>1. thread' = [thread EXCEPT !.elem = Die(s)]
    BY <1>5 DEF Closes
  <2>2. mac' = [mac EXCEPT !.open = mac.open \ {s}, !.full = mac.full \ {s},
                           !.news = [mac.news EXCEPT ![s] = <<>>],
                           !.notices = (mac.notices \ {<<"created", s>>, <<"moved", s>>}) \cup told]
    BY <1>5 DEF Closes
  <2> DEFINE news == [mac.news EXCEPT ![s] = <<>>]
             open == mac.open \ {s}
             fulls == mac.full \ {s}
             notices == (mac.notices \ {<<"created", s>>, <<"moved", s>>}) \cup told
  <2>3. news \in [Server -> Seq({"fullscreen", "user"})]
    BY NewsTypes
  <2>5. notices \in SUBSET Notice /\ open \in SUBSET Server /\ fulls \in SUBSET open
    BY DestroyedNotices DEF MacOK
  <2> HIDE DEF news, open, fulls, notices
  <2>6. MacOK'
    BY <2>2, <2>3, <2>5 DEF MacOK, news, open, fulls, notices
  <2> QED BY <1>1, <2>1, <2>6, DieType DEF ThreadOK
<1>6. ASSUME NEW s \in Server, Renews(s) PROVE WindowsInv'
  <2> DEFINE told == {<<"destroyed", w>> : w \in Holders(s)}
  <2>1. thread' = [thread EXCEPT !.elem = Die(s)]
    BY <1>6 DEF Renews
  <2>2. PICK heard \in BOOLEAN :
            mac' = [mac EXCEPT !.notices = (mac.notices \ {<<"created", s>>, <<"moved", s>>})
                                               \cup (IF heard THEN told ELSE {})]
    BY <1>6 DEF Renews
  <2>3. told \subseteq Notice
    BY DestroyedNotices
  <2> HIDE DEF told
  <2>4. MacOK'
    BY <2>2, <2>3 DEF MacOK
  <2> QED BY <1>1, <2>1, <2>4, DieType DEF ThreadOK
<1>7. ASSUME NEW s \in Server, UserMoves(s) PROVE WindowsInv'
  <2>1. UNCHANGED thread
    BY <1>7 DEF UserMoves
  <2>2. PICK f \in Frame :
            mac' = [mac EXCEPT !.frame = [mac.frame EXCEPT ![s] = f], !.byUser = mac.byUser \cup {s},
                               !.notices = mac.notices \cup Told(s)]
    BY <1>7 DEF UserMoves
  <2>3. MacOK'
    BY <2>2, ToldNotices DEF MacOK
  <2> QED BY <1>1, <2>1, <2>3 DEF ThreadOK
<1>8. ASSUME NEW s \in Server, EntersFullscreen(s) PROVE WindowsInv'
  <2>1. /\ s \in Listed /\ UNCHANGED thread
        /\ mac' = [mac EXCEPT !.full = mac.full \cup {s},
                              !.news = [mac.news EXCEPT ![s] = Append(mac.news[s], "fullscreen")]]
    BY <1>8 DEF EntersFullscreen
  <2> DEFINE news == [mac.news EXCEPT ![s] = Append(mac.news[s], "fullscreen")]
  <2>2. news \in [Server -> Seq({"fullscreen", "user"})]
    BY NewsTypes
  <2> DEFINE fulls == mac.full \cup {s}
  <2>3. mac' = [mac EXCEPT !.full = fulls, !.news = news]
    BY <2>1
  <2>4. fulls \in SUBSET Server /\ fulls \subseteq mac.open
    BY <2>1 DEF MacOK, Listed
  <2> HIDE DEF news, fulls
  <2>5. MacOK'
    BY <2>2, <2>3, <2>4 DEF MacOK
  <2> QED BY <1>1, <2>1, <2>5 DEF ThreadOK
<1>9. ASSUME NEW s \in Server, LeavesFullscreen(s) PROVE WindowsInv'
  <2>1. /\ UNCHANGED thread
        /\ mac' = [mac EXCEPT !.full = mac.full \ {s},
                              !.news = [mac.news EXCEPT ![s] = Append(mac.news[s], "user")]]
    BY <1>9 DEF LeavesFullscreen
  <2> DEFINE news == [mac.news EXCEPT ![s] = Append(mac.news[s], "user")]
  <2>2. news \in [Server -> Seq({"fullscreen", "user"})]
    BY NewsTypes
  <2> DEFINE fulls == mac.full \ {s}
  <2>3. mac' = [mac EXCEPT !.full = fulls, !.news = news]
    BY <2>1
  <2>4. fulls \in SUBSET Server /\ fulls \subseteq mac.open
    BY <2>1 DEF MacOK, Listed
  <2> HIDE DEF news, fulls
  <2>5. MacOK'
    BY <2>2, <2>3, <2>4 DEF MacOK
  <2> QED BY <1>1, <2>1, <2>5 DEF ThreadOK
<1> QED BY <1>2, <1>3, <1>4, <1>5, <1>6, <1>7, <1>8, <1>9 DEF MacOS

-----------------------------------------------------------------------------
(* The thread's steps: reports of the types the reactor takes.             *)

LEMMA EventTypes ==
    /\ \A list \in Seq(Item) : [kind |-> "found", list |-> list] \in Event
    /\ \A w \in Window, s \in Server \cup {NoServer}, f \in Frame :
           [kind |-> "created", window |-> w, server |-> s, frame |-> f] \in Event
    /\ \A w \in Window : [kind |-> "destroyed", window |-> w] \in Event
    /\ [kind |-> "ended"] \in Event
    /\ \A w \in Window, f \in Frame, last \in Int, r \in BOOLEAN, u \in BOOLEAN, p \in {"unread", "up", "down"} :
           [kind |-> "frame", window |-> w, frame |-> f, last |-> last, requested |-> r,
            mouse |-> p, byUser |-> u] \in Event
BY DEF Event

LEMMA FramesType ==
    ASSUME NEW w \in Window, NEW f \in Frame, NEW last \in Int, NEW r \in BOOLEAN,
           NEW p \in {"unread", "up", "down"}
    PROVE  /\ Frames(w, f, last, r, p) \in Event
           /\ \A u \in BOOLEAN : \A e : e = [Frames(w, f, last, r, p) EXCEPT !.byUser = u] => e \in Event
<1> DEFINE user == ServerOf(w) \in mac.byUser
           e0 == Frames(w, f, last, r, p)
           T == [kind : {"frame"}, window : Window, frame : Frame, last : Int, requested : BOOLEAN,
                 mouse : {"unread", "up", "down"}, byUser : BOOLEAN]
<1>1. user \in BOOLEAN
  OBVIOUS
<1>2. e0 = [kind |-> "frame", window |-> w, frame |-> f, last |-> last, requested |-> r,
            mouse |-> p, byUser |-> user]
  BY DEF Frames
<1> HIDE DEF user, e0
<1>3. e0 \in T
  BY <1>1, <1>2
<1>4. ASSUME NEW u \in BOOLEAN, NEW e, e = [e0 EXCEPT !.byUser = u] PROVE e \in T
  BY <1>3, <1>4
<1> HIDE DEF T
<1>5. T \subseteq Event
  BY DEF T, Event
<1> QED BY <1>3, <1>4, <1>5 DEF e0

LEMMA StampTypes ==
    ASSUME TxOK, ThreadOK
    PROVE  /\ \A s \in Server \cup {NoServer} : FromStore(s) # Unstamped => FromStore(s) \in Nat
           /\ \A w \in Window : Stamp(w) \in Int
<1>1. \A s \in Server \cup {NoServer} : FromStore(s) \in Nat \cup {Unstamped}
  BY DEF FromStore, TxOK
<1>2. \A w \in Window : Stamp(w) \in Int
  BY <1>1 DEF Stamp, ThreadOK, Unstamped
<1> QED BY <1>1, <1>2

LEMMA BindType ==
    ASSUME TxOK, ThreadOK, NEW S
    PROVE  Bind(S) \in [elem : [Window -> {"none", "live", "dead"}],
                       server : [Window -> Server \cup {NoServer}], seen : [Window -> Nat]]
<1>1. \A w \in Window : SysId(ServerOf(w)) \in Server \cup {NoServer}
  BY IdTypes
<1>2. \A w \in Window : FromStore(SysId(ServerOf(w))) # Unstamped => FromStore(SysId(ServerOf(w))) \in Nat
  BY <1>1, StampTypes
<1> DEFINE News == {s \in S : Id(s) = NoWindow}
           Of(w) == {s \in S : w = IF s \in News THEN NewId(s) ELSE Id(s)}
           elem == [w \in Window |-> IF Of(w) # {} THEN "live" ELSE thread.elem[w]]
           server == [w \in Window |-> IF Of(w) # {} /\ ~Live(w) /\ SysId(ServerOf(w)) # NoServer
                                       THEN SysId(ServerOf(w)) ELSE thread.server[w]]
           last == [w \in Window |-> IF Of(w) \cap News = {} THEN thread.seen[w]
                      ELSE IF FromStore(SysId(ServerOf(w))) # Unstamped THEN FromStore(SysId(ServerOf(w))) ELSE 0]
<1>3. Bind(S) = [elem |-> elem, server |-> server, seen |-> last]
  BY DEF Bind
<1> HIDE DEF News, Of
<1>4. elem \in [Window -> {"none", "live", "dead"}] /\ server \in [Window -> Server \cup {NoServer}]
  BY <1>1 DEF ThreadOK
<1>5. last \in [Window -> Nat]
  BY <1>2 DEF ThreadOK
<1> HIDE DEF elem, server, last
<1> QED BY <1>3, <1>4, <1>5

LEMMA UntrackType ==
    ASSUME ThreadOK, NEW w \in Window, Untrack(w)
    PROVE  ThreadOK'
<1> DEFINE elem == [thread.elem EXCEPT ![w] = "none"]
           server == [thread.server EXCEPT ![w] = NoServer]
           last == [thread.seen EXCEPT ![w] = 0]
<1>1. thread' = [thread EXCEPT !.elem = elem, !.server = server, !.seen = last]
  BY DEF Untrack
<1>2. elem \in [Window -> {"none", "live", "dead"}] /\ server \in [Window -> Server \cup {NoServer}] /\ last \in [Window -> Nat]
  BY DEF ThreadOK
<1> HIDE DEF elem, server, last
<1> QED BY <1>1, <1>2 DEF ThreadOK

LEMMA HearsType ==
    ASSUME MacOK, NEW notice, Hears(notice)
    PROVE  MacOK'
<1>1. mac' = [mac EXCEPT !.notices = mac.notices \ {notice}]
  BY DEF Hears
<1> QED BY <1>1 DEF MacOK

LEMMA ThreadKeeps ==
    ASSUME WindowsInv, Thread
    PROVE  WindowsInv'
<1> USE DEF WindowsInv
<1>1. StoreOK(store') /\ TxOK' /\ ReactorOK'
  <2>1. UNCHANGED <<store, tx, reactor>>
    BY DEF Thread, Refreshes, Writes, Quits, SeesCreated, SeesMoved, SeesDestroyed, Sweeps
  <2> QED BY <2>1 DEF TxOK, ReactorOK
<1>2. CASE Refreshes
  <2>1. UNCHANGED mac /\ inbox' = Tail(inbox) /\ inbox # <<>> /\ thread' = Bind(Listed)
    BY <1>2 DEF Refreshes
  <2>2. PICK order \in [1..Cardinality(Listed) -> Listed] :
            events' = Append(events, [kind |-> "found", list |->
                  [i \in DOMAIN order |->
                      [window |-> IF Id(order[i]) # NoWindow THEN Id(order[i]) ELSE NewId(order[i]),
                       server |-> SysId(order[i]), frame |-> mac.frame[order[i]]]]])
    BY <1>2 DEF Refreshes
  <2>3. Listed \subseteq Server /\ Cardinality(Listed) \in Nat
    BY FiniteAssumption, FS_Subset, FS_CardinalityType DEF Listed, MacOK
  <2> DEFINE list == [i \in DOMAIN order |->
                      [window |-> IF Id(order[i]) # NoWindow THEN Id(order[i]) ELSE NewId(order[i]),
                       server |-> SysId(order[i]), frame |-> mac.frame[order[i]]]]
  <2>4. \A s \in Server : [window |-> IF Id(s) # NoWindow THEN Id(s) ELSE NewId(s),
                          server |-> SysId(s), frame |-> mac.frame[s]] \in Item
    BY IdTypes DEF Item, MacOK
  <2>5. list \in [1..Cardinality(Listed) -> Item]
    BY <2>3, <2>4
  <2> HIDE DEF list
  <2>6. list \in Seq(Item)
    BY <2>3, <2>5
  <2>7. events' = Append(events, [kind |-> "found", list |-> list])
    BY <2>2 DEF list
  <2>8. events' \in Seq(Event)
    BY <2>6, <2>7, EventTypes
  <2>9. MacOK' /\ inbox' \in Seq(Request) /\ ThreadOK'
    BY <2>1, BindType DEF MacOK, ThreadOK
  <2> QED BY <1>1, <2>8, <2>9
<1>3. CASE Writes
  <2> DEFINE q == Head(inbox)
             s == ServerOf(q.window)
             rest == {ServerOf(inbox[i].window) : i \in 2..(1 + q.more)}
  <2>1. inbox # <<>> /\ q.kind = "write"
    BY <1>3 DEF Writes
  <2>2. q \in [kind : {"write"}, window : Window, frame : Frame, id : Nat, more : {0, 1}]
    <3>1. q \in Request
      BY <2>1
    <3> HIDE DEF q
    <3> QED BY <2>1, <3>1 DEF Request
  <2>3. Tail(inbox) \in Seq(Request) /\ SubSeq(inbox, 2 + q.more, Len(inbox)) \in Seq(Request)
    <3>1. Len(inbox) \in Nat /\ q.more \in {0, 1}
      BY <2>2
    <3> HIDE DEF q
    <3> QED BY <2>1, <3>1
  <2>4. q.window \in Window /\ q.frame \in Frame /\ q.id \in Nat /\ s \in Server
    BY <2>2, IdTypes
  <2>5. \/ /\ inbox' = Tail(inbox) /\ UNCHANGED <<thread, mac, events>>
        \/ /\ Untrack(q.window) /\ inbox' = Tail(inbox) /\ UNCHANGED mac
           /\ events' = Append(events, [kind |-> "destroyed", window |-> q.window])
        \/ /\ thread' = [thread EXCEPT !.seen[q.window] = q.id]
           /\ \E f \in Landing[q.frame] :
                  /\ mac' = [mac EXCEPT !.frame[s] = f,
                                        !.byUser = IF f = mac.frame[s] THEN @ ELSE @ \ {s},
                                        !.notices = @ \cup IF f = mac.frame[s] THEN {} ELSE Told(s)]
                  /\ \/ /\ events' = Append(events,
                               [Frames(q.window, f, q.id, TRUE, "unread") EXCEPT
                                   !.byUser = f = mac.frame[s] /\ s \in mac.byUser])
                        /\ inbox' = Tail(inbox)
                     \/ /\ UNCHANGED events
                        /\ inbox' \in {Tail(inbox), SubSeq(inbox, 2 + q.more, Len(inbox))}
    BY <1>3 DEF Writes
  <2> HIDE DEF q, s
  <2>6. CASE inbox' = Tail(inbox) /\ UNCHANGED <<thread, mac, events>>
    BY <1>1, <2>3, <2>6 DEF ThreadOK, MacOK
  <2>7. CASE /\ Untrack(q.window) /\ inbox' = Tail(inbox) /\ UNCHANGED mac
             /\ events' = Append(events, [kind |-> "destroyed", window |-> q.window])
    BY <1>1, <2>3, <2>4, <2>7, UntrackType, EventTypes DEF MacOK
  <2>8. ASSUME NEW f \in Landing[q.frame],
               thread' = [thread EXCEPT !.seen[q.window] = q.id],
               mac' = [mac EXCEPT !.frame[s] = f,
                                  !.byUser = IF f = mac.frame[s] THEN @ ELSE @ \ {s},
                                  !.notices = @ \cup IF f = mac.frame[s] THEN {} ELSE Told(s)],
               \/ /\ events' = Append(events,
                         [Frames(q.window, f, q.id, TRUE, "unread") EXCEPT
                             !.byUser = f = mac.frame[s] /\ s \in mac.byUser])
                  /\ inbox' = Tail(inbox)
               \/ /\ UNCHANGED events
                  /\ inbox' \in {Tail(inbox), SubSeq(inbox, 2 + q.more, Len(inbox))}
        PROVE  WindowsInv'
    <3>1. f \in Frame
      BY <2>4, FrameAssumption
    <3>2. ThreadOK'
      BY <2>4, <2>8 DEF ThreadOK
    <3>3. MacOK'
      <4> DEFINE frame == [mac.frame EXCEPT ![s] = f]
                 byUser == IF f = mac.frame[s] THEN mac.byUser ELSE mac.byUser \ {s}
                 notices == mac.notices \cup IF f = mac.frame[s] THEN {} ELSE Told(s)
      <4>1. mac' = [mac EXCEPT !.frame = frame, !.byUser = byUser, !.notices = notices]
        BY <2>8
      <4>2. frame \in [Server -> Frame] /\ byUser \in SUBSET Server /\ notices \in SUBSET Notice
        BY <2>4, <3>1, ToldNotices DEF MacOK
      <4> HIDE DEF frame, byUser, notices
      <4> QED BY <4>1, <4>2 DEF MacOK
    <3>4. inbox' \in Seq(Request)
      BY <2>3, <2>8
    <3>5. events' \in Seq(Event)
      <4> DEFINE u == f = mac.frame[s] /\ s \in mac.byUser
                 e == [Frames(q.window, f, q.id, TRUE, "unread") EXCEPT !.byUser = u]
      <4>1. events' = Append(events, e) \/ UNCHANGED events
        BY <2>8
      <4>2. u \in BOOLEAN
        OBVIOUS
      <4> HIDE DEF u
      <4>3. q.id \in Int /\ TRUE \in BOOLEAN /\ "unread" \in {"unread", "up", "down"}
        BY <2>4
      <4>4. ASSUME NEW x, x = e PROVE x \in Event
        BY <2>4, <3>1, <4>2, <4>3, <4>4, FramesType
      <4> HIDE DEF e
      <4>5. e \in Event
        BY <4>4
      <4> QED BY <4>1, <4>5
    <3> QED BY <1>1, <3>2, <3>3, <3>4, <3>5
  <2> QED BY <2>5, <2>6, <2>7, <2>8
<1>4. CASE Quits
  <2>1. /\ thread' = [elem |-> [w \in Window |-> "none"], server |-> [w \in Window |-> NoServer],
                     seen |-> [w \in Window |-> 0]]
        /\ events' = Append(events, [kind |-> "ended"]) /\ inbox' = <<>>
        /\ mac' = [mac EXCEPT !.running = FALSE, !.open = {}, !.full = {}, !.notices = {},
                              !.news = [s \in Server |-> <<>>]]
    BY <1>4 DEF Quits
  <2> DEFINE news == [s \in Server |-> <<>>]
  <2>a. news \in [Server -> Seq({"fullscreen", "user"})]
    OBVIOUS
  <2>b. mac' = [mac EXCEPT !.running = FALSE, !.open = {}, !.full = {}, !.notices = {}, !.news = news]
    BY <2>1
  <2> HIDE DEF news
  <2>2. MacOK'
    BY <2>a, <2>b DEF MacOK
  <2>3. ThreadOK' /\ events' \in Seq(Event) /\ inbox' \in Seq(Request)
    BY <2>1, EventTypes DEF ThreadOK
  <2> QED BY <1>1, <2>2, <2>3
<1>5. ASSUME NEW s \in Server, SeesCreated(s) PROVE WindowsInv'
  <2>1. MacOK' /\ UNCHANGED inbox
    BY <1>5, HearsType DEF SeesCreated
  <2>2. CASE UNCHANGED <<thread, events>>
    BY <1>1, <2>1, <2>2 DEF ThreadOK
  <2>3. CASE ~UNCHANGED <<thread, events>>
    <3>1. /\ thread' = Bind({s})
          /\ events' = Append(events, [kind |-> "created", window |-> NewId(s),
                                       server |-> SysId(s), frame |-> mac.frame[s]])
      BY <1>5, <2>3 DEF SeesCreated
    <3>2. mac.frame[s] \in Frame
      BY DEF MacOK
    <3> DEFINE id == NewId(s)
               server == SysId(s)
               e == [kind |-> "created", window |-> id, server |-> server, frame |-> mac.frame[s]]
    <3>3. id \in Window /\ server \in Server \cup {NoServer}
      BY IdTypes
    <3> HIDE DEF id, server
    <3>4. e \in Event
      BY <3>2, <3>3, EventTypes
    <3> HIDE DEF e
    <3>5. events' = Append(events, e)
      BY <3>1 DEF e, id, server
    <3>6. events' \in Seq(Event)
      BY <3>4, <3>5
    <3> QED BY <1>1, <2>1, <3>1, <3>6, BindType DEF ThreadOK
  <2> QED BY <2>2, <2>3
<1>6. ASSUME NEW s \in Server, SeesMoved(s) PROVE WindowsInv'
  <2>1. MacOK' /\ UNCHANGED <<inbox, thread>>
    BY <1>6, HearsType DEF SeesMoved
  <2>2. PICK w \in Holders(s) :
            events' = Append(events, Frames(w, mac.frame[s], Stamp(w), FALSE, IF mac.mouse THEN "down" ELSE "up"))
    BY <1>6 DEF SeesMoved
  <2>3. w \in Window /\ mac.frame[s] \in Frame /\ Stamp(w) \in Int
    BY IdTypes, StampTypes DEF Holders, MacOK
  <2> DEFINE mouse == IF mac.mouse THEN "down" ELSE "up"
             e == Frames(w, mac.frame[s], Stamp(w), FALSE, mouse)
  <2>4. mouse \in {"unread", "up", "down"} /\ events' = Append(events, e)
    BY <2>2
  <2> HIDE DEF mouse
  <2>5. e \in Event
    BY <2>3, <2>4, FramesType
  <2> HIDE DEF e
  <2>6. events' \in Seq(Event)
    BY <2>4, <2>5
  <2> QED BY <1>1, <2>1, <2>6 DEF ThreadOK
<1>7. ASSUME NEW w \in Window, SeesDestroyed(w) PROVE WindowsInv'
  <2>1. MacOK' /\ UNCHANGED inbox
    BY <1>7, HearsType DEF SeesDestroyed
  <2>2. CASE UNCHANGED <<thread, events>>
    BY <1>1, <2>1, <2>2 DEF ThreadOK
  <2>3. CASE ~UNCHANGED <<thread, events>>
    <3>1. Untrack(w) /\ events' = Append(events, [kind |-> "destroyed", window |-> w])
      BY <1>7, <2>3 DEF SeesDestroyed
    <3> QED BY <1>1, <2>1, <3>1, UntrackType, EventTypes
  <2> QED BY <2>2, <2>3
<1>8. ASSUME NEW w \in Window, Sweeps(w) PROVE WindowsInv'
  <2>1. Untrack(w) /\ events' = Append(events, [kind |-> "destroyed", window |-> w]) /\ UNCHANGED <<mac, inbox>>
    BY <1>8 DEF Sweeps
  <2> QED BY <1>1, <2>1, UntrackType, EventTypes DEF MacOK
<1> QED BY <1>2, <1>3, <1>4, <1>5, <1>6, <1>7, <1>8 DEF Thread

-----------------------------------------------------------------------------
(* The reactor's steps.                                                    *)

LEMMA TakesTypes ==
    ASSUME WindowsInv, NEW kind, Takes(kind)
    PROVE  /\ events' \in Seq(Event)
           /\ kind = "found" => Head(events).list \in Seq(Item)
           /\ kind = "created" => /\ Head(events).window \in Window
                                 /\ Head(events).server \in Server \cup {NoServer}
                                 /\ Head(events).frame \in Frame
           /\ kind = "destroyed" => Head(events).window \in Window
           /\ kind = "frame" => Head(events).window \in Window /\ Head(events).frame \in Frame
<1> DEFINE e == Head(events)
<1>1. events # <<>> /\ e.kind = kind /\ events' = Tail(events) /\ events \in Seq(Event)
  BY DEF Takes, WindowsInv
<1>2. e \in Event /\ events' \in Seq(Event)
  BY <1>1
<1> HIDE DEF e
<1> QED BY <1>1, <1>2 DEF Event, e

LEMMA SentTypes ==
    ASSUME WindowsInv
    PROVE  /\ \A requests \in Seq(Request) : Sent(requests) \in Seq(Request)
           /\ Asks \in Seq(Request) /\ <<[kind |-> "refresh"]>> \in Seq(Request)
           /\ \A w \in Window, f \in Frame, id \in Nat, more \in {0, 1} : Write(w, f, id, more) \in Request
<1>1. [kind |-> "refresh"] \in Request
  BY DEF Request
<1>2. \A requests \in Seq(Request) : Sent(requests) \in Seq(Request)
  BY DEF Sent, WindowsInv
<1>3. <<[kind |-> "refresh"]>> \in Seq(Request)
  BY <1>1
<1>4. Asks \in Seq(Request)
  BY <1>2, <1>3 DEF Asks, WindowsInv
<1>5. \A w \in Window, f \in Frame, id \in Nat, more \in {0, 1} : Write(w, f, id, more) \in Request
  BY DEF Write, Request
<1> QED BY <1>2, <1>3, <1>4, <1>5

(* A frame is believed of the windows there are, if one was known of each. *)
LEMMA BelievesOK ==
    ASSUME NEW frames \in [Window -> Frame \cup {NoFrame}],
           \A w \in Window : store'.links.state[w] # NoState => frames[w] # NoFrame
    PROVE  /\ Believes(frames) \in [Window -> Frame \cup {NoFrame}]
           /\ \A w \in Window : Believes(frames)[w] = NoFrame <=> store'.links.state[w] = NoState
BY DEF Believes

(* Windows that only lose their states are believed where they were.       *)
LEMMA FewerBelieves ==
    ASSUME ReactorOK, Fewer(store.links, store'.links)
    PROVE  /\ Believes(reactor.frames) \in [Window -> Frame \cup {NoFrame}]
           /\ \A w \in Window : Believes(reactor.frames)[w] = NoFrame <=> store'.links.state[w] = NoState
<1>1. reactor.frames \in [Window -> Frame \cup {NoFrame}]
  BY DEF ReactorOK
<1>2. \A w \in Window : store'.links.state[w] # NoState => reactor.frames[w] # NoFrame
  BY DEF Fewer, ReactorOK
<1> QED BY <1>1, <1>2, BelievesOK

(* ... and a window whose state is set is where it is told to be.          *)
LEMMA SetBelieves ==
    ASSUME ReactorOK, StoreOK(store), NEW w \in Window, NEW f \in Frame,
           \A x \in Window \ {w} : store'.links.state[x] \in {NoState, store.links.state[x]}
    PROVE  LET frames == [reactor.frames EXCEPT ![w] = f]
           IN  /\ Believes(frames) \in [Window -> Frame \cup {NoFrame}]
               /\ \A x \in Window : Believes(frames)[x] = NoFrame <=> store'.links.state[x] = NoState
<1> DEFINE frames == [reactor.frames EXCEPT ![w] = f]
<1>1. frames \in [Window -> Frame \cup {NoFrame}]
  BY DEF ReactorOK
<1>2. \A x \in Window : store'.links.state[x] # NoState => frames[x] # NoFrame
  BY FrameAssumption DEF ReactorOK
<1> HIDE DEF frames
<1> QED BY <1>1, <1>2, BelievesOK DEF frames

LEMMA DroppingKeeps ==
    ASSUME WindowsInv, NEW O \in SUBSET Window
    PROVE  /\ StoreOK([store EXCEPT !.native = DropAll(@, O)])
           /\ [store EXCEPT !.native = DropAll(@, O)].links = store.links
<1>1. DropAll(store.native, O) \in Native
  BY StoreWith, DropAllOK DEF WindowsInv
<1> QED BY <1>1, StoreWith DEF WindowsInv

(* Reports of windows.                                                     *)
LEMMA ReportsKeep ==
    ASSUME WindowsInv, TakeCreated \/ TakeDestroyed \/ TakeEnded \/ TakeFrame
    PROVE  WindowsInv'
<1> USE DEF WindowsInv
<1>1. MacOK' /\ ThreadOK' /\ inbox' \in Seq(Request)
  <2>1. UNCHANGED <<thread, mac, inbox>>
    BY DEF TakeCreated, TakeDestroyed, TakeEnded, TakeFrame
  <2> QED BY <2>1 DEF MacOK, ThreadOK
<1> DEFINE e == Head(events)
<1>2. CASE TakeCreated
  <2>1. /\ events' \in Seq(Event) /\ e.window \in Window /\ e.server \in Server \cup {NoServer}
        /\ e.frame \in Frame
    BY <1>2, TakesTypes DEF TakeCreated
  <2> DEFINE tracked == IF e.server = NoServer THEN store ELSE Track(store, e.server, e.window)
             frames == [reactor.frames EXCEPT ![e.window] = e.frame]
  <2>2. CASE reactor.deaf = "churn"
    <3>1. UNCHANGED <<store, tx, reactor>>
      BY <1>2, <2>2 DEF TakeCreated
    <3> QED BY <1>1, <2>1, <3>1 DEF TxOK, ReactorOK
  <2>3. CASE reactor.deaf # "churn"
    <3>1. /\ store' = Insert(tracked, e.window, e.server)
          /\ tx' = [s \in Server |-> IF s = e.server THEN [tx[s] EXCEPT !.target = e.frame] ELSE tx[s]]
          /\ reactor' = [reactor EXCEPT !.frames = Believes(frames)]
      BY <1>2, <2>3 DEF TakeCreated
    <3> HIDE DEF e
    <3>2. StoreOK(tracked) /\ tracked.links.state = store.links.state
      BY <2>1, StoreWith, TrackOK, LinkOK
    <3> HIDE DEF tracked
    <3>3. StoreOK(store') /\ store'.links.state = [store.links.state EXCEPT ![e.window] = e.server]
      BY <2>1, <3>1, <3>2, InsertOK
    <3>4. \A x \in Window \ {e.window} : store'.links.state[x] \in {NoState, store.links.state[x]}
      BY <3>3, StoreWith DEF Links
    <3>5. /\ Believes(frames) \in [Window -> Frame \cup {NoFrame}]
          /\ \A x \in Window : Believes(frames)[x] = NoFrame <=> store'.links.state[x] = NoState
      BY <2>1, <3>4, SetBelieves
    <3> HIDE DEF frames
    <3>6. ReactorOK'
      BY <3>1, <3>5 DEF ReactorOK
    <3>7. TxOK'
      BY <2>1, <3>1 DEF TxOK
    <3> QED BY <1>1, <2>1, <3>3, <3>6, <3>7
  <2> QED BY <2>2, <2>3
<1>3. CASE TakeDestroyed
  <2>1. events' \in Seq(Event) /\ e.window \in Window
    BY <1>3, TakesTypes DEF TakeDestroyed
  <2>2. CASE UNCHANGED <<store, tx, reactor>>
    BY <1>1, <2>1, <2>2 DEF TxOK, ReactorOK
  <2>3. CASE ~UNCHANGED <<store, tx, reactor>>
    <3>1. Destroy(e.window) /\ reactor' = [reactor EXCEPT !.frames = Believes(reactor.frames)]
      BY <1>3, <2>3 DEF TakeDestroyed
    <3> HIDE DEF e
    <3>2. StoreOK(store') /\ Fewer(store.links, store'.links) /\ TxOK'
      BY <2>1, <3>1, DestroyOK DEF TxOK
    <3>3. ReactorOK'
      BY <3>1, <3>2, FewerBelieves DEF ReactorOK
    <3> QED BY <1>1, <2>1, <3>2, <3>3
  <2> QED BY <2>2, <2>3
<1>4. CASE TakeEnded
  <2>1. /\ events' \in Seq(Event) /\ store' = RemoveApp(store)
        /\ tx' = [s \in Server |-> IF \E w \in store.links.listed : store.links.serverOf[w] = s
                                   THEN NoTx ELSE tx[s]]
        /\ reactor' = [reactor EXCEPT !.frames = Believes(reactor.frames)]
    BY <1>4, TakesTypes DEF TakeEnded
  <2>2. StoreOK(store') /\ Fewer(store.links, store'.links)
    BY <2>1, RemoveAppOK DEF Fewer
  <2>3. ReactorOK'
    BY <2>1, <2>2, FewerBelieves DEF ReactorOK
  <2>4. TxOK'
    BY <2>1 DEF TxOK, NoTx
  <2> QED BY <1>1, <2>1, <2>2, <2>3, <2>4
<1>5. CASE TakeFrame
  <2>1. /\ events' \in Seq(Event) /\ e.window \in Window /\ e.frame \in Frame /\ UNCHANGED store
    BY <1>5, TakesTypes DEF TakeFrame
  <2>2. CASE UNCHANGED <<tx, reactor>>
    BY <1>1, <2>1, <2>2 DEF TxOK, ReactorOK
  <2>3. CASE ~UNCHANGED <<tx, reactor>>
    <3> DEFINE s == Sees(e)
               cleared == [x \in Server |-> IF x = s THEN [tx[x] EXCEPT !.target = NoFrame] ELSE tx[x]]
    <3>1. Has(e.window) /\ reactor' = [reactor EXCEPT !.frames = [reactor.frames EXCEPT ![e.window] = e.frame]]
      BY <1>5, <2>3 DEF TakeFrame
    <3>2. tx' = cleared \/ tx' = tx
      BY <1>5, <2>3 DEF TakeFrame
    <3> HIDE DEF e, s
    <3>3. ReactorOK'
      BY <2>1, <3>1, FrameAssumption DEF ReactorOK, Has
    <3>4. TxOK'
      BY <3>2 DEF TxOK
    <3> QED BY <1>1, <2>1, <3>3, <3>4
  <2> QED BY <2>2, <2>3
<1> QED BY <1>2, <1>3, <1>4, <1>5

(* A window's state set where it is already known.                         *)
LEMMA StateSet ==
    ASSUME NEW l \in Links, LinksAgree(l), NEW w \in Window, w \in l.known, NEW s \in Server \cup {NoServer}
    PROVE  LET k == [l EXCEPT !.state = [l.state EXCEPT ![w] = s]]
           IN  LinksOK(k) /\ k.state = [l.state EXCEPT ![w] = s]
<1> DEFINE state == [l.state EXCEPT ![w] = s]
           k == [l EXCEPT !.state = state]
<1>1. /\ k \in Links /\ k.known = l.known /\ k.listed = l.listed /\ k.ruled = l.ruled
      /\ k.state = state /\ k.serverOf = l.serverOf /\ k.windowOf = l.windowOf
  BY DEF Links
<1> HIDE DEF k
<1>2. LinksOK(k)
  BY <1>1 DEF LinksOK, LinksAgree, Links
<1> QED BY <1>1, <1>2 DEF k

(* A listing taken in.                                                     *)
LEMMA ListingKeeps ==
    ASSUME WindowsInv, TakeFound \/ Syncs \/ Inserts \/ \E w \in Window : Cleans(w)
    PROVE  WindowsInv'
<1> USE DEF WindowsInv
<1>1. MacOK' /\ ThreadOK' /\ inbox' \in Seq(Request)
  <2>1. UNCHANGED <<thread, mac, inbox>>
    BY DEF TakeFound, Syncs, Inserts, Cleans
  <2> QED BY <2>1 DEF MacOK, ThreadOK
<1>2. CASE TakeFound
  <2>1. events' \in Seq(Event) /\ Head(events).list \in Seq(Item)
    BY <1>2, TakesTypes DEF TakeFound
  <2>2. UNCHANGED <<store, tx>>
    BY <1>2 DEF TakeFound
  <2>3. CASE UNCHANGED reactor
    BY <1>1, <2>1, <2>2, <2>3 DEF TxOK, ReactorOK
  <2>4. CASE reactor' # reactor
    <3>1. PICK gone \in SUBSET Window :
              reactor' = [reactor EXCEPT !.gone = gone, !.todo = Head(events).list]
      BY <1>2, <2>4 DEF TakeFound
    <3>2. ReactorOK'
      BY <2>1, <2>2, <3>1 DEF ReactorOK
    <3> QED BY <1>1, <2>1, <2>2, <3>2 DEF TxOK
  <2> QED BY <2>3, <2>4
<1>3. ASSUME NEW w \in Window, Cleans(w) PROVE WindowsInv'
  <2>1. /\ Destroy(w) /\ UNCHANGED events
        /\ reactor' = [reactor EXCEPT !.gone = reactor.gone \ {w}, !.frames = Believes(reactor.frames)]
    BY <1>3 DEF Cleans
  <2>2. StoreOK(store') /\ Fewer(store.links, store'.links) /\ TxOK'
    BY <2>1, DestroyOK DEF TxOK
  <2>3. ReactorOK'
    BY <2>1, <2>2, FewerBelieves DEF ReactorOK
  <2> QED BY <1>1, <2>1, <2>2, <2>3
<1>4. CASE Syncs
  <2> DEFINE e == Head(reactor.todo)
             frames == [reactor.frames EXCEPT ![e.window] = e.frame]
             m == Mapping(e.window, store.links.state[e.window], e.server)
             n == Mapping(e.window, NoServer, e.server)
  <2>1. UNCHANGED <<events, tx>> /\ reactor.todo # <<>> /\ reactor.todo \in Seq(Item) /\ reactor.fresh \in Seq(Item)
    BY <1>4 DEF Syncs, ReactorOK
  <2>2. e \in Item /\ Tail(reactor.todo) \in Seq(Item) /\ Append(reactor.fresh, e) \in Seq(Item)
    BY <2>1
  <2>3. CASE Has(e.window)
    <3>1. /\ store' = [m EXCEPT !.links.state[e.window] = e.server]
          /\ reactor' = [reactor EXCEPT !.todo = Tail(reactor.todo), !.frames = Believes(frames)]
      BY <1>4, <2>3 DEF Syncs
    <3> HIDE DEF e
    <3>2. e.window \in Window /\ e.server \in Server \cup {NoServer} /\ e.frame \in Frame
      BY <2>2 DEF Item
    <3>3. e.window \in store.links.known
      BY <2>3, <3>2, StoreWith DEF Has, LinksAgree
    <3>4. StoreOK(m) /\ e.window \in m.links.known /\ Fewer(store.links, m.links)
      BY <3>2, <3>3, MappingOK
    <3> HIDE DEF m
    <3>a. store' = [m EXCEPT !.links.state[e.window] = e.server]
      BY <3>1
    <3> DEFINE w == e.window
               s == e.server
               l == [m.links EXCEPT !.state = [m.links.state EXCEPT ![w] = s]]
    <3>b. store' = [m EXCEPT !.links = l] /\ w \in Window /\ s \in Server \cup {NoServer} /\ w \in m.links.known
      BY <3>2, <3>4, <3>a
    <3>5. StoreOK(store') /\ store'.links.state = [m.links.state EXCEPT ![w] = s]
      <4> HIDE DEF w, s, WindowsInv
      <4>1. m.links \in Links /\ LinksAgree(m.links)
        BY <3>4, StoreWith
      <4>2. LinksOK(l) /\ l.state = [m.links.state EXCEPT ![w] = s]
        BY <3>b, <4>1, StateSet
      <4> HIDE DEF l
      <4> QED BY <3>4, <3>b, <4>2, StoreWith
    <3>6. \A x \in Window \ {e.window} : store'.links.state[x] \in {NoState, store.links.state[x]}
      <4>1. m.links \in Links
        BY <3>4, StoreWith
      <4> QED BY <3>4, <3>5, <4>1 DEF Fewer, Links
    <3>7. /\ Believes(frames) \in [Window -> Frame \cup {NoFrame}]
          /\ \A x \in Window : Believes(frames)[x] = NoFrame <=> store'.links.state[x] = NoState
      BY <3>2, <3>6, SetBelieves
    <3> HIDE DEF frames
    <3>8. ReactorOK'
      BY <2>2, <3>1, <3>7 DEF ReactorOK
    <3> QED BY <1>1, <2>1, <3>5, <3>8 DEF TxOK
  <2>4. CASE ~Has(e.window)
    <3>1. /\ store' = n
          /\ reactor' = [reactor EXCEPT !.todo = Tail(reactor.todo), !.fresh = Append(reactor.fresh, e),
                                        !.frames = Believes(reactor.frames)]
      BY <1>4, <2>4 DEF Syncs
    <3> HIDE DEF e
    <3>2. e.window \in Window /\ e.server \in Server \cup {NoServer}
      BY <2>2 DEF Item
    <3>3. StoreOK(store') /\ Fewer(store.links, store'.links)
      BY <3>1, <3>2, MappingOK
    <3>4. ReactorOK'
      BY <2>2, <3>1, <3>3, FewerBelieves DEF ReactorOK
    <3> QED BY <1>1, <2>1, <3>3, <3>4 DEF TxOK
  <2> QED BY <2>3, <2>4
<1>5. CASE Inserts
  <2> DEFINE e == Head(reactor.fresh)
             frames == [reactor.frames EXCEPT ![e.window] = e.frame]
  <2>1. /\ UNCHANGED <<events, tx>> /\ reactor.fresh # <<>> /\ reactor.fresh \in Seq(Item)
        /\ store' = Insert(store, e.window, e.server)
        /\ reactor' = [reactor EXCEPT !.fresh = Tail(reactor.fresh), !.frames = Believes(frames)]
    BY <1>5 DEF Inserts, ReactorOK
  <2>2. e \in Item /\ Tail(reactor.fresh) \in Seq(Item)
    BY <2>1
  <2> HIDE DEF e
  <2>3. e.window \in Window /\ e.server \in Server \cup {NoServer} /\ e.frame \in Frame
    BY <2>2 DEF Item
  <2>a. store' = Insert(store, e.window, e.server)
    BY <2>1
  <2>4. StoreOK(store') /\ store'.links.state = [store.links.state EXCEPT ![e.window] = e.server]
    <3> DEFINE w == e.window
               s == e.server
    <3>1. w \in Window /\ s \in Server \cup {NoServer} /\ store' = Insert(store, w, s) /\ StoreOK(store)
      BY <2>3, <2>a
    <3> SUFFICES StoreOK(store') /\ store'.links.state = [store.links.state EXCEPT ![w] = s]
      OBVIOUS
    <3> HIDE DEF w, s, WindowsInv
    <3> QED BY <3>1, InsertOK
  <2>5. \A x \in Window \ {e.window} : store'.links.state[x] \in {NoState, store.links.state[x]}
    BY <2>4, StoreWith DEF Links
  <2>6. /\ Believes(frames) \in [Window -> Frame \cup {NoFrame}]
        /\ \A x \in Window : Believes(frames)[x] = NoFrame <=> store'.links.state[x] = NoState
    BY <2>3, <2>5, SetBelieves
  <2> HIDE DEF frames
  <2>7. ReactorOK'
    BY <2>1, <2>2, <2>6 DEF ReactorOK
  <2> QED BY <1>1, <2>1, <2>4, <2>7 DEF TxOK
<1> QED BY <1>2, <1>3, <1>4, <1>5

(* What the window server tells, and the displays.                         *)
LEMMA SpacesKeep ==
    ASSUME WindowsInv,
           \/ TakeSnapshot \/ Remaps \/ ChurnBegins \/ ChurnEnds \/ Settles
           \/ \E s \in Server : TakeFullscreen(s) \/ TakeUserSpace(s)
    PROVE  WindowsInv'
<1> USE DEF WindowsInv
<1>1. UNCHANGED <<tx, thread, events>> /\ TxOK' /\ ThreadOK' /\ events' \in Seq(Event)
  <2>1. UNCHANGED <<tx, thread, events>>
    BY DEF TakeSnapshot, Remaps, ChurnBegins, ChurnEnds, Settles, TakeFullscreen, TakeUserSpace
  <2> QED BY <2>1 DEF TxOK, ThreadOK
<1>2. CASE TakeSnapshot
  <2> DEFINE back == {o \in Records(store.native) :
                         LET r == store.native.record[o] IN mac.space \in {r.assigned, r.last}}
             asked == [i \in 1..Cardinality(back) |-> [kind |-> "refresh"]]
  <2>1. /\ store' = [store EXCEPT !.native = DropAll(store.native, back)]
        /\ inbox' = Sent(asked) /\ UNCHANGED <<mac, reactor>>
    BY <1>2 DEF TakeSnapshot
  <2>2. back \in SUBSET Window /\ Cardinality(back) \in Nat
    <3>1. back \in SUBSET Window
      BY DEF Records
    <3> HIDE DEF back
    <3> QED BY <3>1, FiniteAssumption, FS_Subset, FS_CardinalityType
  <2> HIDE DEF back
  <2>3. StoreOK(store') /\ store'.links = store.links
    BY <2>1, <2>2, DroppingKeeps
  <2>4. [kind |-> "refresh"] \in Request
    BY DEF Request
  <2>5. asked \in Seq(Request)
    BY <2>2, <2>4
  <2> HIDE DEF asked
  <2>6. inbox' \in Seq(Request)
    BY <2>1, <2>5, SentTypes
  <2> QED BY <1>1, <2>1, <2>3, <2>6 DEF MacOK, ReactorOK
<1>3. CASE Remaps
  <2>1. PICK new \in Space : /\ store' = RemapSpace(store, mac.space, new)
                             /\ mac' = [mac EXCEPT !.space = new] /\ UNCHANGED <<inbox, reactor>>
    BY <1>3 DEF Remaps
  <2>2. mac.space \in Space
    BY DEF MacOK
  <2>3. StoreOK(store') /\ store'.links = store.links
    BY <2>1, <2>2, RemapSpaceOK
  <2>4. MacOK'
    BY <2>1 DEF MacOK
  <2> QED BY <1>1, <2>1, <2>3, <2>4 DEF ReactorOK
<1>4. CASE ChurnBegins \/ ChurnEnds \/ Settles
  <2>1. UNCHANGED <<store, mac>> /\ \E as \in {"no", "churn", "blocked", "mission"} : reactor' = [reactor EXCEPT !.deaf = as]
    BY <1>4 DEF ChurnBegins, ChurnEnds, Settles
  <2>2. inbox' = inbox \/ inbox' = Sent(<<[kind |-> "refresh"]>>)
    BY <1>4 DEF ChurnBegins, ChurnEnds, Settles
  <2>3. inbox' \in Seq(Request)
    BY <2>2, SentTypes
  <2> QED BY <1>1, <2>1, <2>3 DEF MacOK, ReactorOK
<1>5. ASSUME NEW s \in Server, mac' = [mac EXCEPT !.news = [mac.news EXCEPT ![s] = Tail(mac.news[s])]],
             mac.news[s] # <<>>
      PROVE  MacOK'
  <2> DEFINE news == [mac.news EXCEPT ![s] = Tail(mac.news[s])]
  <2>1. news \in [Server -> Seq({"fullscreen", "user"})]
    BY <1>5, NewsTypes
  <2>2. mac' = [mac EXCEPT !.news = news]
    BY <1>5
  <2> HIDE DEF news
  <2> QED BY <2>1, <2>2 DEF MacOK
<1>6. ASSUME NEW s \in Server, TakeFullscreen(s) PROVE WindowsInv'
  <2>1. /\ mac' = [mac EXCEPT !.news = [mac.news EXCEPT ![s] = Tail(mac.news[s])]]
        /\ mac.news[s] # <<>> /\ UNCHANGED reactor
    BY <1>6 DEF TakeFullscreen
  <2>2. PICK last \in {mac.space, NoSpace} :
           IF store.links.windowOf[s] # NoWindow
           THEN /\ store' = SuspendWindow(store, store.links.windowOf[s], s, last)
                /\ UNCHANGED inbox
           ELSE /\ store' = [store EXCEPT !.native = SuspendServer(store.native, s, last)]
                /\ inbox' = Asks
    BY <1>6 DEF TakeFullscreen
  <2>3. last \in Space \cup {NoSpace}
    BY DEF MacOK
  <2>4. StoreOK(store') /\ store'.links.state = store.links.state /\ inbox' \in Seq(Request)
    <3>1. CASE store.links.windowOf[s] # NoWindow
      <4>1. store.links.windowOf[s] \in Window
        BY <3>1, StoreWith DEF Links
      <4>2. store' = SuspendWindow(store, store.links.windowOf[s], s, last) /\ UNCHANGED inbox
        BY <2>2, <3>1
      <4> QED BY <2>3, <4>1, <4>2, SuspendWindowOK
    <3>2. CASE store.links.windowOf[s] = NoWindow
      <4>1. store' = [store EXCEPT !.native = SuspendServer(store.native, s, last)] /\ inbox' = Asks
        BY <2>2, <3>2
      <4>2. SuspendServer(store.native, s, last) \in Native
        BY <2>3, StoreWith, SuspendServerOK
      <4> QED BY <4>1, <4>2, StoreWith, SentTypes
    <3> QED BY <3>1, <3>2
  <2>5. MacOK'
    BY <1>5, <2>1
  <2> QED BY <1>1, <2>1, <2>4, <2>5 DEF ReactorOK
<1>7. ASSUME NEW s \in Server, TakeUserSpace(s) PROVE WindowsInv'
  <2> DEFINE o == IF store.native.byServer[s] # NoWindow THEN store.native.byServer[s]
                  ELSE Original(store.native, store.links.windowOf[s])
  <2>1. /\ mac' = [mac EXCEPT !.news = [mac.news EXCEPT ![s] = Tail(mac.news[s])]]
        /\ mac.news[s] # <<>> /\ UNCHANGED reactor
    BY <1>7 DEF TakeUserSpace
  <2>2. /\ store' = store \/ store' = [store EXCEPT !.native = Drop(store.native, o)]
        /\ inbox' = inbox \/ inbox' = Asks
    BY <1>7 DEF TakeUserSpace
  <2> HIDE DEF o
  <2>3. Drop(store.native, o) \in Native
    BY StoreWith, DropOK
  <2>4. StoreOK(store') /\ store'.links = store.links
    <3> DEFINE n == Drop(store.native, o)
    <3>1. store' = store \/ store' = [store EXCEPT !.native = n]
      BY <2>2
    <3> HIDE DEF n
    <3>2. StoreOK([store EXCEPT !.native = n]) /\ [store EXCEPT !.native = n].links = store.links
      BY <2>3, StoreWith DEF n
    <3> QED BY <3>1, <3>2
  <2>5. inbox' \in Seq(Request)
    BY <2>2, SentTypes
  <2>6. MacOK'
    BY <1>5, <2>1
  <2> QED BY <1>1, <2>1, <2>4, <2>5, <2>6 DEF ReactorOK
<1> QED BY <1>2, <1>3, <1>4, <1>6, <1>7

(* Frames written, and what the engine and the rules decide of windows.    *)
LEMMA CommandsKeep ==
    ASSUME WindowsInv, NEW w \in Window,
           \/ Assigns(w) \/ LetsGo(w) \/ Rules(w)
           \/ \E f \in Frame : Commits(w, f)
           \/ \E v \in Window : CommitsBoth(w, v)
    PROVE  WindowsInv'
<1> USE DEF WindowsInv
<1>1. UNCHANGED <<thread, mac, events>> /\ ThreadOK' /\ MacOK' /\ events' \in Seq(Event)
  <2>1. UNCHANGED <<thread, mac, events>>
    BY DEF Assigns, LetsGo, Rules, Commits, CommitsBoth
  <2> QED BY <2>1 DEF MacOK, ThreadOK
<1>2. ASSUME StoreOK(store'), store'.links.state = store.links.state, UNCHANGED <<tx, inbox, reactor>>
      PROVE  WindowsInv'
  BY <1>1, <1>2 DEF TxOK, ReactorOK
<1>3. CASE Assigns(w)
  <2>1. /\ UNCHANGED <<tx, inbox, reactor>>
        /\ \E id \in Workspace : store' = AssignWindow(store, w, [space |-> mac.space, id |-> id])
    BY <1>3 DEF Assigns
  <2>2. PICK id \in Workspace : store' = AssignWindow(store, w, [space |-> mac.space, id |-> id])
    BY <2>1
  <2>3. [space |-> mac.space, id |-> id] \in Home
    BY DEF Home, MacOK
  <2>4. StoreOK(store') /\ store'.links = store.links
    BY <2>2, <2>3, AssignWindowOK
  <2> QED BY <1>2, <2>1, <2>4
<1>4. CASE LetsGo(w)
  <2>1. UNCHANGED <<tx, inbox, reactor>> /\ store' = LetGo(store, w)
    BY <1>4 DEF LetsGo
  <2> QED BY <1>2, <2>1, LetGoOK
<1>5. CASE Rules(w)
  <2>1. UNCHANGED <<tx, inbox, reactor>>
    BY <1>5 DEF Rules
  <2>2. PICK decided \in BOOLEAN : store' = [store EXCEPT !.links = SetRule(store.links, w, decided)]
    BY <1>5 DEF Rules
  <2> DEFINE l == SetRule(store.links, w, decided)
  <2>3. LinksOK(l) /\ l.state = store.links.state
    BY StoreWith, SetRuleOK
  <2> HIDE DEF l
  <2>4. store' = [store EXCEPT !.links = l]
    BY <2>2 DEF l
  <2>5. StoreOK(store') /\ store'.links = l
    BY <2>3, <2>4, StoreWith
  <2> QED BY <1>2, <2>1, <2>3, <2>5
<1>6. ASSUME NEW f \in Frame, Commits(w, f) PROVE WindowsInv'
  <2> DEFINE s == store.links.state[w]
             id == IF s = NoServer THEN 0 ELSE tx[s].id + 1
  <2>1. Has(w) /\ UNCHANGED store /\ reactor' = [reactor EXCEPT !.frames = [reactor.frames EXCEPT ![w] = f]]
    BY <1>6 DEF Commits
  <2>2. /\ tx' = [x \in Server |-> IF x = s THEN [id |-> id, target |-> f] ELSE tx[x]]
        /\ inbox' = Sent(<<Write(w, f, id, 0)>>)
    BY <1>6 DEF Commits
  <2>3. s \in Server \cup {NoServer}
    BY <2>1, StoreWith DEF Has, Links
  <2>4. id \in Nat
    BY <2>3 DEF TxOK
  <2> HIDE DEF s, id
  <2>5. TxOK'
    BY <2>2, <2>4 DEF TxOK
  <2> DEFINE q == Write(w, f, id, 0)
  <2>6. q \in Request
    BY <2>4, SentTypes
  <2> HIDE DEF q
  <2>7. inbox' \in Seq(Request)
    <3>1. inbox' = Sent(<<q>>)
      BY <2>2 DEF q
    <3>2. <<q>> \in Seq(Request)
      BY <2>6
    <3> QED BY <3>1, <3>2, SentTypes
  <2>8. ReactorOK'
    BY <2>1, FrameAssumption DEF ReactorOK, Has
  <2> QED BY <1>1, <2>1, <2>5, <2>7, <2>8
<1>7. ASSUME NEW v \in Window, CommitsBoth(w, v) PROVE WindowsInv'
  <2> DEFINE s == store.links.state[w]
             t == store.links.state[v]
             id == IF s # NoServer THEN tx[s].id + 1 ELSE IF t # NoServer THEN tx[t].id + 1 ELSE 0
  <2>1. Has(w) /\ Has(v) /\ UNCHANGED store
    BY <1>7 DEF CommitsBoth
  <2>2. PICK f \in Frame, g \in Frame :
            /\ tx' = [x \in Server |-> IF x = t THEN [id |-> id, target |-> g]
                                       ELSE IF x = s THEN [id |-> id, target |-> f] ELSE tx[x]]
            /\ inbox' = Sent(<<Write(w, f, id, 1), Write(v, g, id, 0)>>)
            /\ reactor' = [reactor EXCEPT !.frames[w] = f, !.frames[v] = g]
    BY <1>7 DEF CommitsBoth
  <2>3. s \in Server \cup {NoServer} /\ t \in Server \cup {NoServer}
    BY <2>1, StoreWith DEF Has, Links
  <2>4. id \in Nat
    BY <2>3 DEF TxOK
  <2> HIDE DEF s, t, id
  <2>5. TxOK'
    BY <2>2, <2>4 DEF TxOK
  <2> DEFINE q == Write(w, f, id, 1)
             r == Write(v, g, id, 0)
  <2>6. q \in Request /\ r \in Request
    BY <2>4, SentTypes
  <2> HIDE DEF q, r
  <2>7. inbox' \in Seq(Request)
    <3>1. inbox' = Sent(<<q, r>>)
      BY <2>2 DEF q, r
    <3>2. <<q, r>> \in Seq(Request)
      BY <2>6
    <3> QED BY <3>1, <3>2, SentTypes
  <2> DEFINE frames == [[reactor.frames EXCEPT ![w] = f] EXCEPT ![v] = g]
  <2>8. reactor' = [reactor EXCEPT !.frames = frames]
    BY <2>2 DEF ReactorOK
  <2>9. /\ frames \in [Window -> Frame \cup {NoFrame}]
        /\ \A x \in Window : frames[x] = NoFrame <=> store.links.state[x] = NoState
    BY <2>1, FrameAssumption DEF ReactorOK, Has
  <2> HIDE DEF frames
  <2>10. ReactorOK'
    BY <2>1, <2>8, <2>9 DEF ReactorOK
  <2> QED BY <1>1, <2>1, <2>5, <2>7, <2>10
<1> QED BY <1>3, <1>4, <1>5, <1>6, <1>7

-----------------------------------------------------------------------------
(* The theorems.                                                           *)

LEMMA InitOK == Init => WindowsInv
<1> SUFFICES ASSUME Init PROVE WindowsInv
  OBVIOUS
<1>1. StoreOK(store)
  <2> DEFINE l == EmptyStore.links
             n == EmptyStore.native
             a == EmptyStore.homes
  <2>1. LinksOK(l)
    BY SentinelAssumption DEF EmptyStore, LinksOK, LinksAgree, Links
  <2>2. n \in Native
    BY DEF EmptyStore, Native, Natives, NativeAgrees
  <2>3. HomesOK(a)
    BY RecordAssumption DEF EmptyStore, HomesOK, HomesAgree, Homes
  <2>4. EmptyStore = [links |-> l, native |-> n, homes |-> a]
    BY DEF EmptyStore
  <2>5. store = EmptyStore
    BY DEF Init
  <2> HIDE DEF l, n, a
  <2> QED BY <2>1, <2>2, <2>3, <2>4, <2>5, StoreMade
<1>2. TxOK /\ ThreadOK
  BY DEF Init, TxOK, ThreadOK, NoTx
<1>3. inbox \in Seq(Request) /\ events \in Seq(Event)
  <2>1. [kind |-> "refresh"] \in Request
    BY DEF Request
  <2>2. inbox = <<[kind |-> "refresh"]>> /\ events = <<>>
    BY DEF Init
  <2> QED BY <2>1, <2>2
<1>4. ReactorOK
  BY DEF Init, ReactorOK, EmptyStore
<1>5. MacOK
  <2> DEFINE news == [s \in Server |-> <<>>]
             at == CHOOSE space \in Space : TRUE
  <2>1. at \in Space
    BY FiniteAssumption
  <2>2. news \in [Server -> Seq({"fullscreen", "user"})]
    OBVIOUS
  <2>3. PICK first \in [Server -> Frame] :
           mac = [running |-> TRUE, open |-> left.first, full |-> {},
                  readable |-> Server \ left.unnamed, frame |-> first, byUser |-> Server,
                  notices |-> {}, news |-> news, mouse |-> FALSE, space |-> at]
    BY DEF Init
  <2>4. left.first \in SUBSET Server
    BY ScenarioAssumption DEF Init
  <2> HIDE DEF news, at
  <2> QED BY <2>1, <2>2, <2>3, <2>4 DEF MacOK
<1> QED BY <1>1, <1>2, <1>3, <1>4, <1>5 DEF WindowsInv

LEMMA NextKeeps == WindowsInv /\ [Next]_vars => WindowsInv'
<1> SUFFICES ASSUME WindowsInv, [Next]_vars PROVE WindowsInv'
  OBVIOUS
<1>1. CASE MacOS
  BY <1>1, MacOSKeeps
<1>2. CASE Thread
  BY <1>2, ThreadKeeps
<1>3. CASE Reactor
  <2>1. CASE TakeCreated \/ TakeDestroyed \/ TakeEnded \/ TakeFrame
    BY <2>1, ReportsKeep
  <2>2. CASE TakeFound \/ Syncs \/ Inserts \/ \E w \in Window : Cleans(w)
    BY <2>2, ListingKeeps
  <2>3. CASE \/ TakeSnapshot \/ Remaps \/ ChurnBegins \/ ChurnEnds \/ Settles
             \/ \E s \in Server : TakeFullscreen(s) \/ TakeUserSpace(s)
    BY <2>3, SpacesKeep
  <2>4. ASSUME NEW w \in Window,
               \/ Assigns(w) \/ LetsGo(w) \/ Rules(w)
               \/ \E f \in Frame : Commits(w, f)
               \/ \E v \in Window : CommitsBoth(w, v)
        PROVE  WindowsInv'
    BY <2>4, CommandsKeep
  <2> QED BY <1>3, <2>1, <2>2, <2>3, <2>4 DEF Reactor
<1>4. CASE UNCHANGED vars
  BY <1>4 DEF vars, WindowsInv, TxOK, ThreadOK, MacOK, ReactorOK
<1> QED BY <1>1, <1>2, <1>3, <1>4 DEF Next

(* The types of everything the three actors hold and exchange, with the    *)
(* store's agreement, at every step: the invariant the other two rest on.  *)
THEOREM WindowsInvHolds == Spec => []WindowsInv
BY InitOK, NextKeeps, PTL DEF Spec

(* The catalogue's links agree in both directions, its fullscreen indexes  *)
(* lead to records that have the key, and the assignments agree with the   *)
(* workspaces' members, after every operation of the reactor, whatever     *)
(* windows, servers, spaces and workspaces there are.                      *)
THEOREM StoreAgreesAlways == Spec => []StoreAgrees
<1>1. WindowsInv => StoreAgrees
  BY StoreWith DEF WindowsInv, StoreAgrees, Native
<1> QED BY <1>1, WindowsInvHolds, PTL

(* A frame is believed exactly of the windows that have a state, and every *)
(* variable is of its type.                                                *)
THEOREM TypesHold == Spec => []TypeOK
<1>1. WindowsInv => TypeOK
  <2> SUFFICES ASSUME WindowsInv PROVE TypeOK
    OBVIOUS
  <2>1. StoreTypeOK(store)
    BY DEF WindowsInv, StoreOK, Stores, StoreTypeOK, Links, Native, Natives, Homes
  <2> QED BY <2>1 DEF WindowsInv, TypeOK, TxOK, ThreadOK, MacOK, ReactorOK
<1> QED BY <1>1, WindowsInvHolds, PTL

=============================================================================
