------------------------- MODULE FocusReportsProofs -------------------------
(***************************************************************************)
(* However the three sources' reports of the focus overtake each other,    *)
(* the tracker names the window macOS has in focus once all have come in,  *)
(* for any applications, windows, workspaces and scenarios.                *)
(***************************************************************************)
EXTENDS FocusReports, Integers, TLAPS, WellFoundedInduction, FiniteSetTheorems

-----------------------------------------------------------------------------
(* Recursive functions over 0..n, by induction on a set of numbers.        *)

LEMMA SetInduction ==
    ASSUME NEW T, 0 \in T, \A n \in Nat : n \in T => n + 1 \in T
    PROVE  Nat \subseteq T
<1> DEFINE U == { n \in Nat : n \notin T }
           R == OpToRel(<, Nat)
<1>1. IsWellFoundedOn(R, Nat)
  BY NatLessThanWellFounded
<1> SUFFICES ASSUME U # {} PROVE FALSE
  OBVIOUS
<1>2. \E x \in U : \A y \in U : ~ (<<y, x>> \in R)
  <2> HIDE DEF R
  <2>1. U \subseteq Nat OBVIOUS
  <2> HIDE DEF U
  <2> QED BY <1>1, <2>1, WFMin
<1>3. \A x, y \in Nat : x < y => <<x, y>> \in R
  BY DEF OpToRel
<1> HIDE DEF R
<1> PICK x \in U : \A y \in U : ~ (<<y, x>> \in R)
  BY <1>2
<1>4. x \in Nat /\ x # 0 /\ x \notin T
  OBVIOUS
<1>5. PICK z \in Nat : x = z + 1
  <2>1. x - 1 \in Nat /\ x = (x - 1) + 1
    BY <1>4
  <2> QED BY <2>1
<1>6. z \notin T
  BY <1>4, <1>5
<1>7. z \in U /\ <<z, x>> \in R
  BY <1>3, <1>4, <1>5, <1>6
<1> QED BY <1>7

-----------------------------------------------------------------------------
(* The focus order.                                                        *)

(* Nothing is listed twice.                                                *)
Once(s) == \A i, j \in DOMAIN s : s[i] = s[j] => i = j

Lists(s, w) == \E i \in DOMAIN s : s[i] = w

(* left is order without gone, led by whoever led it if that stays.        *)
Remains(left, order, gone) ==
    /\ left \in Seq(Window) /\ Once(left)
    /\ \A w : Lists(left, w) <=> Lists(order, w) /\ w \notin gone
    /\ order # <<>> /\ Head(order) \notin gone => left # <<>> /\ Head(left) = Head(order)

LEMMA ForgetOK ==
    ASSUME NEW order \in Seq(Window), Once(order), NEW gone
    PROVE  Remains(Forget(order, gone), order, gone)
<1> DEFINE n == Len(order)
           Grown(h, i) == IF order[i] \in gone THEN h[i - 1] ELSE Append(h[i - 1], order[i])
           Upto(f, m) == f = [i \in 0..m |-> IF i = 0 THEN <<>> ELSE Grown(f, i)]
           T == { m \in Nat : \E f : Upto(f, m) }
<1>1. Nat \subseteq T
  <2>1. 0 \in T
    <3>1. Upto([i \in 0..0 |-> <<>>], 0)
      OBVIOUS
    <3> QED BY <3>1
  <2>2. ASSUME NEW m \in Nat, m \in T PROVE m + 1 \in T
    <3>1. PICK f : Upto(f, m)
      BY <2>2
    <3> DEFINE g == [i \in 0..(m + 1) |-> IF i = m + 1 THEN Grown(f, m + 1) ELSE f[i]]
    <3>0. f[0] = <<>> /\ \A i \in 1..m : f[i] = Grown(f, i)
      <4> HIDE DEF Grown
      <4> QED BY <3>1
    <3>2. g[0] = <<>>
      BY <3>0
    <3>3. \A i \in 1..(m + 1) : g[i] = Grown(f, i)
      <4> HIDE DEF Grown
      <4>1. g[m + 1] = Grown(f, m + 1) /\ \A i \in 1..m : g[i] = f[i]
        OBVIOUS
      <4> HIDE DEF g
      <4>2. \A i \in 1..(m + 1) : i = m + 1 \/ i \in 1..m
        OBVIOUS
      <4> QED BY <4>1, <4>2, <3>0
    <3>4. \A i \in 1..(m + 1) : Grown(f, i) = Grown(g, i)
      OBVIOUS
    <3>5. g = [i \in 0..(m + 1) |-> IF i = 0 THEN <<>> ELSE Grown(g, i)]
      <4>1. \A i \in 0..(m + 1) : g[i] = IF i = 0 THEN <<>> ELSE Grown(g, i)
        <5> HIDE DEF g, Grown
        <5> QED BY <3>2, <3>3, <3>4
      <4>2. g = [i \in 0..(m + 1) |-> g[i]]
        OBVIOUS
      <4> HIDE DEF g, Grown
      <4> QED BY <4>1, <4>2
    <3>6. Upto(g, m + 1)
      <4> HIDE DEF g
      <4> QED BY <3>5
    <3> HIDE DEF g, Upto
    <3> QED BY <3>6
  <2> HIDE DEF T
  <2> QED BY <2>1, <2>2, SetInduction
<1>2. n \in Nat
  OBVIOUS
<1> DEFINE u == CHOOSE f : Upto(f, n)
<1>3. Upto(u, n)
  BY <1>1, <1>2
<1>4. Forget(order, gone) = u[n]
  BY DEF Forget
<1>6. u[0] = <<>> /\ \A i \in 1..n : u[i] = Grown(u, i)
  <2> HIDE DEF u, Grown
  <2> QED BY <1>2, <1>3
<1> HIDE DEF u
<1> DEFINE From(h, m) == \A x : Lists(h, x) <=> (\E i \in 1..m : order[i] = x) /\ x \notin gone
           Led(h, m) == m > 0 /\ order[1] \notin gone => h # <<>> /\ h[1] = order[1]
           Good(m) == m <= n => u[m] \in Seq(Window) /\ Once(u[m]) /\ From(u[m], m) /\ Led(u[m], m)
           V == { m \in Nat : Good(m) }
<1>5. Nat \subseteq V
  <2>1. 0 \in V
    <3>1. u[0] = <<>> /\ <<>> \in Seq(Window) /\ 1..0 = {} /\ DOMAIN <<>> = {}
      BY <1>6
    <3>2. From(u[0], 0) /\ Once(u[0])
      <4> HIDE DEF u
      <4> QED BY <3>1 DEF Lists, Once
    <3>3. u[0] \in Seq(Window) /\ Led(u[0], 0)
      BY <3>1
    <3> HIDE DEF u, From, Led
    <3> QED BY <3>2, <3>3
  <2>2. ASSUME NEW m \in Nat, m \in V PROVE m + 1 \in V
    <3> SUFFICES ASSUME m + 1 <= n
                 PROVE  /\ u[m + 1] \in Seq(Window) /\ Once(u[m + 1])
                        /\ From(u[m + 1], m + 1) /\ Led(u[m + 1], m + 1)
      OBVIOUS
    <3>1. u[m] \in Seq(Window) /\ Once(u[m]) /\ From(u[m], m) /\ Led(u[m], m)
      <4>1. Good(m) /\ m <= n
        <5> HIDE DEF Good
        <5> QED BY <2>2
      <4> QED BY <4>1
    <3>2. u[m + 1] = IF order[m + 1] \in gone THEN u[m] ELSE Append(u[m], order[m + 1])
      BY <1>6
    <3>3. order[m + 1] \in Window /\ m + 1 \in 1..n /\ DOMAIN order = 1..n
      OBVIOUS
    <3>4. u[m + 1] \in Seq(Window)
      BY <3>1, <3>2, <3>3
    <3>5. \A i \in 1..(m + 1) : i = m + 1 \/ i \in 1..m
      OBVIOUS
    <3>6. m + 1 \in 1..(m + 1) /\ \A i \in 1..m : i \in 1..(m + 1) /\ i # m + 1 /\ i \in 1..n
      BY <3>3
    <3>7. CASE order[m + 1] \in gone
      <4>1. u[m + 1] = u[m]
        BY <3>2, <3>7
      <4>2. From(u[m], m + 1)
        <5> SUFFICES ASSUME NEW x
                     PROVE  Lists(u[m], x) <=> (\E i \in 1..(m + 1) : order[i] = x) /\ x \notin gone
          OBVIOUS
        <5> QED BY <3>1, <3>5, <3>6, <3>7
      <4>3. Led(u[m], m + 1)
        <5>1. m = 0 \/ m > 0
          OBVIOUS
        <5> QED BY <3>1, <3>7, <5>1
      <4> QED BY <3>1, <4>1, <4>2, <4>3
    <3>8. CASE order[m + 1] \notin gone
      <4> DEFINE h == u[m]
                 w == order[m + 1]
                 k == Append(h, w)
      <4>1. /\ DOMAIN k = 1..(Len(h) + 1) /\ k[Len(h) + 1] = w /\ \A j \in DOMAIN h : k[j] = h[j]
            /\ DOMAIN h = 1..Len(h) /\ Len(h) \in Nat /\ (h = <<>> <=> Len(h) = 0) /\ k # <<>>
        BY <3>1, <3>3
      <4>2. u[m + 1] = k
        BY <3>2, <3>8
      <4>3. ~Lists(h, w)
        <5>1. \A i \in 1..m : order[i] # w
          BY <3>3, <3>6 DEF Once
        <5> QED BY <3>1, <5>1
      <4>a. From(h, m) /\ Led(h, m) /\ Once(h) /\ w \notin gone
        BY <3>1, <3>8
      <4>b. w = order[m + 1]
        OBVIOUS
      <4> HIDE DEF h, w, k
      <4>4. \A x : Lists(k, x) <=> x = w \/ Lists(h, x)
        BY <4>1 DEF Lists
      <4>5. Once(k)
        <5> SUFFICES ASSUME NEW i \in DOMAIN k, NEW j \in DOMAIN k, k[i] = k[j] PROVE i = j
          BY DEF Once
        <5>1. (i = Len(h) + 1 \/ i \in DOMAIN h) /\ (j = Len(h) + 1 \/ j \in DOMAIN h)
          BY <4>1
        <5>2. CASE i \in DOMAIN h /\ j \in DOMAIN h
          BY <4>1, <4>a, <5>2 DEF Once
        <5>3. CASE i = Len(h) + 1 /\ j \in DOMAIN h
          BY <4>1, <4>3, <5>3 DEF Lists
        <5>4. CASE j = Len(h) + 1 /\ i \in DOMAIN h
          BY <4>1, <4>3, <5>4 DEF Lists
        <5> QED BY <5>1, <5>2, <5>3, <5>4
      <4>6. From(k, m + 1)
        <5> SUFFICES ASSUME NEW x PROVE Lists(k, x) <=> (\E i \in 1..(m + 1) : order[i] = x) /\ x \notin gone
          OBVIOUS
        <5>1. (\E i \in 1..(m + 1) : order[i] = x) <=> x = w \/ \E i \in 1..m : order[i] = x
          BY <3>5, <3>6, <4>b
        <5> QED BY <4>4, <4>a, <5>1
      <4>7. Led(k, m + 1)
        <5> SUFFICES ASSUME order[1] \notin gone PROVE k # <<>> /\ k[1] = order[1]
          OBVIOUS
        <5>1. CASE m = 0
          <6>1. ~\E x : Lists(h, x)
            BY <4>a, <5>1
          <6>2. Len(h) = 0
            <7>1. 1 \notin DOMAIN h
              BY <6>1 DEF Lists
            <7> QED BY <4>1, <7>1
          <6> QED BY <4>1, <4>b, <5>1, <6>2
        <5>2. CASE m > 0
          <6>1. h # <<>> /\ h[1] = order[1]
            BY <4>a, <5>2
          <6>2. 1 \in DOMAIN h
            BY <4>1, <6>1
          <6> QED BY <4>1, <6>1, <6>2
        <5> QED BY <5>1, <5>2
      <4> QED BY <3>4, <4>2, <4>5, <4>6, <4>7
    <3> QED BY <3>7, <3>8
  <2> HIDE DEF V
  <2> QED BY <2>1, <2>2, SetInduction
<1>7. Good(n)
  <2> HIDE DEF Good
  <2> QED BY <1>2, <1>5
<1> DEFINE left == Forget(order, gone)
<1>8. left \in Seq(Window) /\ Once(left) /\ From(left, n) /\ Led(left, n)
  <2>1. u[n] \in Seq(Window) /\ Once(u[n]) /\ From(u[n], n) /\ Led(u[n], n)
    <3> HIDE DEF From, Led, u, n
    <3> QED BY <1>7, <1>2
  <2> HIDE DEF From, Led, u, n
  <2> QED BY <2>1, <1>4
<1> HIDE DEF left
<1>9. \A w : Lists(left, w) <=> Lists(order, w) /\ w \notin gone
  BY <1>8 DEF Lists
<1>10. ASSUME order # <<>>, Head(order) \notin gone PROVE left # <<>> /\ Head(left) = Head(order)
  <2>1. n > 0 /\ Head(order) = order[1]
    BY <1>10
  <2>2. left # <<>> /\ left[1] = order[1]
    BY <1>8, <1>10, <2>1
  <2>3. Head(left) = left[1]
    BY <1>8, <2>2
  <2> QED BY <2>1, <2>2, <2>3
<1> QED BY <1>8, <1>9, <1>10 DEF Remains, left

LEMMA TouchOK ==
    ASSUME NEW order \in Seq(Window), Once(order), NEW w \in Window
    PROVE  /\ Touch(order, w) \in Seq(Window) /\ Once(Touch(order, w))
           /\ Touch(order, w) # <<>> /\ Head(Touch(order, w)) = w
<1> DEFINE h == Forget(order, {w})
           k == Touch(order, w)
<1>1. h \in Seq(Window) /\ Once(h) /\ ~Lists(h, w)
  BY ForgetOK DEF Remains
<1>2. k = <<w>> \o h
  BY DEF Touch
<1> HIDE DEF h
<1>3. /\ k \in Seq(Window) /\ k # <<>> /\ Head(k) = w /\ k[1] = w
      /\ DOMAIN k = 1..(Len(h) + 1) /\ DOMAIN h = 1..Len(h) /\ Len(h) \in Nat
      /\ \A i \in 2..(Len(h) + 1) : k[i] = h[i - 1]
  BY <1>1, <1>2
<1> HIDE DEF k
<1>4. Once(k)
  <2> SUFFICES ASSUME NEW i \in DOMAIN k, NEW j \in DOMAIN k, k[i] = k[j] PROVE i = j
    BY DEF Once
  <2>1. \A x \in DOMAIN k : x = 1 \/ (k[x] = h[x - 1] /\ x - 1 \in DOMAIN h)
    BY <1>3
  <2>2. \A x \in DOMAIN k : x # 1 => k[x] # w
    BY <1>1, <2>1 DEF Lists
  <2>3. CASE i # 1 /\ j # 1
    <3>1. h[i - 1] = h[j - 1] /\ i - 1 \in DOMAIN h /\ j - 1 \in DOMAIN h
      BY <2>1, <2>3
    <3>2. i - 1 = j - 1
      BY <1>1, <3>1 DEF Once
    <3> QED BY <1>3, <3>2
  <2> QED BY <1>3, <2>2, <2>3
<1> QED BY <1>3, <1>4 DEF k

-----------------------------------------------------------------------------
(* The tracker.                                                            *)

(* The window the window server last named leads the order and is the one  *)
(* its application is remembered by; only the window server's naming a     *)
(* window, or a panel, makes it authoritative.                             *)
Sound(t) ==
    /\ t \in Tracker /\ Once(t.order)
    /\ t.serverFocus # NoWindow =>
         /\ t.authoritative /\ t.order # <<>> /\ Head(t.order) = t.serverFocus
         /\ t.lastFocused[AppOf[t.serverFocus]] = t.serverFocus
    /\ ~t.authoritative => t.panel = NoApp

(* Nothing has changed of which window the window server is held to have   *)
(* named.                                                                  *)
Unmoved(t, u) ==
    /\ Sound(u) /\ u.serverFocus = t.serverFocus /\ u.authoritative = t.authoritative
    /\ u.panel = t.panel

LEMMA Elsewhere ==
    ASSUME NEW t, Sound(t), NEW u \in Tracker, u.order = t.order, u.lastFocused = t.lastFocused,
           u.serverFocus = t.serverFocus, u.authoritative = t.authoritative, u.panel = t.panel
    PROVE  Unmoved(t, u)
BY DEF Sound, Unmoved

LEMMA MainWindowType ==
    ASSUME NEW t \in Tracker
    PROVE  MainWindow(t) \in Window \cup {NoWindow}
<1>1. t.globalFront = NoApp \/ t.globalFront \in App
  BY DEF Tracker
<1>2. t.serverFocus \in Window \cup {NoWindow}
  BY DEF Tracker
<1>3. t.globalFront \in App => t.apps[t.globalFront].main \in Window \cup {NoWindow}
  BY DEF Tracker, AppStates
<1> QED BY <1>1, <1>2, <1>3 DEF MainWindow

LEMMA AnnouncedOK ==
    ASSUME NEW t, Sound(t), NEW a, NEW quiet
    PROVE  /\ Unmoved(t, Announced(t, a, quiet).tracker)
           /\ Announced(t, a, quiet).tracker.globalFront = t.globalFront
           /\ Announced(t, a, quiet).tracker.apps = t.apps
           /\ Announced(t, a, quiet).focused \in Window \cup {NoWindow}
<1> DEFINE w == MainWindow(t)
           touched == Touch(t.order, w)
           u == [t EXCEPT !.order = touched]
<1>1. w \in Window \cup {NoWindow} /\ t \in Tracker /\ Once(t.order)
  BY MainWindowType DEF Sound
<1>2. CASE ~t.authoritative /\ t.globalFront = a /\ ~quiet /\ w # NoWindow
  <2>1. Announced(t, a, quiet) = [tracker |-> u, focused |-> w]
    BY <1>2 DEF Announced
  <2>2. w \in Window /\ t.order \in Seq(Window)
    BY <1>1, <1>2 DEF Tracker
  <2> HIDE DEF w
  <2>3. touched \in Seq(Window) /\ Once(touched)
    BY <1>1, <2>2, TouchOK
  <2> HIDE DEF touched
  <2>4. /\ u \in Tracker /\ u.order = touched /\ u.serverFocus = t.serverFocus /\ u.panel = t.panel
        /\ u.authoritative = t.authoritative /\ u.globalFront = t.globalFront /\ u.apps = t.apps
    BY <1>1, <2>3 DEF Tracker
  <2> HIDE DEF u
  <2>5. Sound(u)
    BY <1>2, <2>3, <2>4 DEF Sound
  <2> QED BY <2>1, <2>2, <2>4, <2>5 DEF Unmoved
<1>3. CASE ~(~t.authoritative /\ t.globalFront = a /\ ~quiet /\ w # NoWindow)
  <2>1. Announced(t, a, quiet) = [tracker |-> t, focused |-> NoWindow]
    BY <1>3 DEF Announced, Silent
  <2> QED BY <2>1 DEF Unmoved
<1> QED BY <1>2, <1>3

LEMMA WindowServerFocusedOK ==
    ASSUME NEW t \in Tracker, Once(t.order), NEW w \in Window
    PROVE  LET u == WindowServerFocused(t, w)
           IN  /\ Sound(u) /\ u.serverFocus = w /\ u.authoritative
               /\ u.panel = t.panel /\ u.globalFront = t.globalFront /\ u.apps = t.apps
<1> DEFINE touched == Touch(t.order, w)
           last == [t.lastFocused EXCEPT ![AppOf[w]] = w]
           u == WindowServerFocused(t, w)
<1>1. t \in Tracker /\ t.order \in Seq(Window) /\ Once(t.order)
  BY DEF Tracker
<1>2. touched \in Seq(Window) /\ Once(touched) /\ touched # <<>> /\ Head(touched) = w
  BY <1>1, TouchOK
<1>3. last \in [App -> Window \cup {NoWindow}] /\ last[AppOf[w]] = w
  BY <1>1, TrackerAssumption DEF Tracker
<1>4. u = [t EXCEPT !.authoritative = TRUE, !.serverFocus = w, !.lastFocused = last, !.order = touched]
  BY <1>1 DEF WindowServerFocused, Tracker
<1> HIDE DEF touched, last
<1>5. /\ u \in Tracker /\ u.order = touched /\ u.lastFocused = last /\ u.serverFocus = w
      /\ u.authoritative = TRUE /\ u.panel = t.panel /\ u.globalFront = t.globalFront /\ u.apps = t.apps
  BY <1>1, <1>2, <1>3, <1>4 DEF Tracker
<1> HIDE DEF u
<1>6. Sound(u)
  BY <1>2, <1>3, <1>5 DEF Sound
<1> QED BY <1>5, <1>6 DEF u

LEMMA WithoutFocusOK ==
    ASSUME NEW t, Sound(t), NEW gone
    PROVE  LET u == WithoutFocus(t, gone)
           IN  /\ Sound(u) /\ u.serverFocus = IF t.serverFocus \in gone THEN NoWindow ELSE t.serverFocus
               /\ u.authoritative = t.authoritative /\ u.panel = t.panel
               /\ u.globalFront = t.globalFront
<1> DEFINE left == Forget(t.order, gone)
           focus == IF t.serverFocus \in gone THEN NoWindow ELSE t.serverFocus
           u == WithoutFocus(t, gone)
<1>1. t \in Tracker /\ t.order \in Seq(Window) /\ Once(t.order)
  BY DEF Sound, Tracker
<1>2. Remains(left, t.order, gone)
  BY <1>1, ForgetOK
<1>3. focus \in Window \cup {NoWindow}
  BY <1>1 DEF Tracker
<1>4. u = [t EXCEPT !.serverFocus = focus, !.order = left]
  BY DEF WithoutFocus
<1>a. focus = NoWindow \/ (focus = t.serverFocus /\ t.serverFocus \notin gone)
  OBVIOUS
<1> HIDE DEF left, focus
<1>5. /\ u \in Tracker /\ u.order = left /\ u.lastFocused = t.lastFocused /\ u.serverFocus = focus
      /\ u.authoritative = t.authoritative /\ u.panel = t.panel /\ u.globalFront = t.globalFront
  BY <1>1, <1>2, <1>3, <1>4 DEF Tracker, Remains
<1> HIDE DEF u
<1>6. Sound(u)
  BY <1>2, <1>5, <1>a DEF Sound, Remains
<1> QED BY <1>5, <1>6 DEF u, focus

LEMMA TakenOK ==
    ASSUME NEW t, Sound(t), NEW a
    PROVE  Unmoved(t, Taken(t, a)) /\ Taken(t, a).globalFront = t.globalFront
<1>1. t \in Tracker
  BY DEF Sound
<1>2. CASE Taken(t, a) = t
  BY <1>2 DEF Unmoved
<1>3. CASE Taken(t, a) = [t EXCEPT !.pending = NoActivation]
  <2> DEFINE u == [t EXCEPT !.pending = NoActivation]
  <2>1. /\ u \in Tracker /\ u.order = t.order /\ u.lastFocused = t.lastFocused
        /\ u.serverFocus = t.serverFocus /\ u.authoritative = t.authoritative /\ u.panel = t.panel
        /\ u.globalFront = t.globalFront
    BY <1>1 DEF Tracker, NoActivation
  <2> HIDE DEF u
  <2>2. Unmoved(t, u)
    BY <2>1, Elsewhere
  <2> QED BY <1>3, <2>1, <2>2 DEF u
<1> QED BY <1>2, <1>3 DEF Taken

(* The tracker holds k to be the focus, if the window server has spoken.   *)
Names(t, k) == t.authoritative => t.serverFocus = k /\ t.panel = NoApp

LEMMA ReplaceApp ==
    ASSUME NEW t, Sound(t), NEW a \in App, NEW s \in AppStates
    PROVE  LET u == [t EXCEPT !.apps[a] = s]
           IN  Unmoved(t, u) /\ u.globalFront = t.globalFront
<1> DEFINE apps == [t.apps EXCEPT ![a] = s]
           u == [t EXCEPT !.apps[a] = s]
<1>1. t \in Tracker
  BY DEF Sound
<1>2. apps \in [App -> AppStates]
  BY <1>1 DEF Tracker
<1>3. u = [t EXCEPT !.apps = apps]
  BY <1>1 DEF Tracker
<1> HIDE DEF apps
<1>4. /\ u \in Tracker /\ u.order = t.order /\ u.lastFocused = t.lastFocused
      /\ u.serverFocus = t.serverFocus /\ u.authoritative = t.authoritative /\ u.panel = t.panel
      /\ u.globalFront = t.globalFront
  BY <1>1, <1>2, <1>3 DEF Tracker
<1> HIDE DEF u
<1> QED BY <1>4, Elsewhere DEF u

LEMMA AppStateType ==
    ASSUME NEW t \in Tracker, NEW a \in App, NEW b \in BOOLEAN, NEW c \in BOOLEAN,
           NEW m \in Window \cup {NoWindow}
    PROVE  /\ AppState(b, m) \in AppStates /\ NotLaunched \in AppStates
           /\ t.apps[a] \in AppStates
           /\ [t.apps[a] EXCEPT !.front = b] \in AppStates
           /\ [t.apps[a] EXCEPT !.front = b, !.quiet = c] \in AppStates
           /\ [t.apps[a] EXCEPT !.main = m] \in AppStates
<1>1. t.apps[a] \in AppStates
  BY DEF Tracker
<1> QED BY <1>1 DEF AppStates, AppState, NotLaunched

LEMMA UnmovedTwice ==
    ASSUME NEW t, NEW u, NEW v, Unmoved(t, u), Unmoved(u, v)
    PROVE  Unmoved(t, v)
BY DEF Unmoved

LEMMA LaunchedOK ==
    ASSUME NEW t, Sound(t), NEW a \in App, NEW b \in BOOLEAN, NEW m \in Window \cup {NoWindow}
    PROVE  LET h == ApplicationLaunched(t, a, b, m)
           IN  /\ Unmoved(t, h.tracker) /\ h.tracker.globalFront = t.globalFront
               /\ h.focused \in Window \cup {NoWindow}
<1> DEFINE u == [t EXCEPT !.apps[a] = AppState(b, m)]
           h == ApplicationLaunched(t, a, b, m)
<1>1. t \in Tracker
  BY DEF Sound
<1>2. AppState(b, m) \in AppStates
  BY <1>1, AppStateType
<1>3. Unmoved(t, u) /\ u.globalFront = t.globalFront
  BY <1>2, ReplaceApp
<1>a. PICK q \in BOOLEAN : q = FALSE
  OBVIOUS
<1>4. h = Announced(u, a, q)
  BY <1>a DEF ApplicationLaunched
<1> HIDE DEF u, h
<1>5. Sound(u)
  BY <1>3 DEF Unmoved
<1>6. /\ Unmoved(u, h.tracker) /\ h.tracker.globalFront = u.globalFront
      /\ h.focused \in Window \cup {NoWindow}
  BY <1>4, <1>5, AnnouncedOK
<1> QED BY <1>3, <1>6, UnmovedTwice DEF h

LEMMA DeactivatedOK ==
    ASSUME NEW t, Sound(t), NEW a \in App
    PROVE  LET h == ApplicationDeactivated(t, a)
           IN  /\ Unmoved(t, h.tracker) /\ h.tracker.globalFront = t.globalFront
               /\ h.focused = NoWindow
<1> DEFINE s == [t.apps[a] EXCEPT !.front = FALSE]
           u == [t EXCEPT !.apps[a] = s]
<1>1. t \in Tracker
  BY DEF Sound
<1>2. s \in AppStates
  BY <1>1, AppStateType
<1>3. ApplicationDeactivated(t, a) = [tracker |-> u, focused |-> NoWindow]
  BY <1>1 DEF ApplicationDeactivated, Silent, Tracker
<1> HIDE DEF s
<1>4. Unmoved(t, u) /\ u.globalFront = t.globalFront
  BY <1>2, ReplaceApp
<1> HIDE DEF u
<1> QED BY <1>3, <1>4

LEMMA ActivatedOK ==
    ASSUME NEW t, Sound(t), NEW a \in App, NEW quiet \in BOOLEAN
    PROVE  LET h == ApplicationActivated(t, a, quiet)
           IN  /\ Unmoved(t, h.tracker) /\ h.tracker.globalFront = t.globalFront
               /\ h.focused \in Window \cup {NoWindow}
<1> DEFINE v == IF quiet THEN Taken(t, a) ELSE t
           s == [v.apps[a] EXCEPT !.front = TRUE, !.quiet = quiet]
           u == [v EXCEPT !.apps[a] = s]
           h == ApplicationActivated(t, a, quiet)
<1>1. Unmoved(t, v) /\ v.globalFront = t.globalFront
  BY TakenOK DEF Unmoved
<1>2. h = IF t.apps[a].launched
          THEN Announced([v EXCEPT !.apps[a].front = TRUE, !.apps[a].quiet = quiet], a, quiet)
          ELSE [tracker |-> v, focused |-> NoWindow]
  BY DEF ApplicationActivated, Silent
<1> HIDE DEF v
<1>3. Sound(v) /\ v \in Tracker
  BY <1>1 DEF Unmoved, Sound
<1>4. s \in AppStates
  BY <1>3, AppStateType
<1>5. [v EXCEPT !.apps[a].front = TRUE, !.apps[a].quiet = quiet] = u
  BY <1>3 DEF Tracker
<1> HIDE DEF s
<1>6. Unmoved(v, u) /\ u.globalFront = v.globalFront
  BY <1>3, <1>4, ReplaceApp
<1> HIDE DEF u, h
<1>7. Sound(u) /\ Unmoved(t, u)
  BY <1>1, <1>6, UnmovedTwice DEF Unmoved
<1>8. CASE h = Announced(u, a, quiet)
  <2>1. /\ Unmoved(u, h.tracker) /\ h.tracker.globalFront = u.globalFront
        /\ h.focused \in Window \cup {NoWindow}
    BY <1>7, <1>8, AnnouncedOK
  <2> QED BY <1>1, <1>6, <1>7, <2>1, UnmovedTwice DEF h
<1>9. CASE h = [tracker |-> v, focused |-> NoWindow]
  BY <1>1, <1>9 DEF h
<1> QED BY <1>2, <1>5, <1>8, <1>9

LEMMA GloballyActivatedOK ==
    ASSUME NEW t, Sound(t), NEW a \in App
    PROVE  LET h == ApplicationGloballyActivated(t, a)
           IN  Unmoved(t, h.tracker) /\ h.tracker.globalFront = a
<1> DEFINE edge == IF t.globalFront = a THEN t.pending
                   ELSE [app |-> a, remembered |-> t.lastFocused[a]]
           v == [t EXCEPT !.pending = edge, !.globalFront = a]
           s == [v.apps[a] EXCEPT !.front = TRUE]
           u == [v EXCEPT !.apps[a] = s]
           h == ApplicationGloballyActivated(t, a)
           quiet == t.apps[a].quiet
<1>0. t \in Tracker
  BY DEF Sound
<1>1. edge \in [app : App \cup {NoApp}, remembered : Window \cup {NoWindow}]
  BY <1>0 DEF Tracker
<1>2. h = IF t.apps[a].launched THEN Announced([v EXCEPT !.apps[a].front = TRUE], a, quiet)
          ELSE [tracker |-> v, focused |-> NoWindow]
  BY DEF ApplicationGloballyActivated, Silent
<1> HIDE DEF edge, quiet
<1>3. /\ v \in Tracker /\ v.order = t.order /\ v.lastFocused = t.lastFocused
      /\ v.serverFocus = t.serverFocus /\ v.authoritative = t.authoritative /\ v.panel = t.panel
      /\ v.globalFront = a
  BY <1>0, <1>1 DEF Tracker
<1> HIDE DEF v
<1>4. Unmoved(t, v)
  BY <1>3, Elsewhere
<1>5. s \in AppStates
  BY <1>3, AppStateType
<1>6. [v EXCEPT !.apps[a].front = TRUE] = u
  BY <1>3 DEF Tracker
<1> HIDE DEF s
<1>7. Unmoved(v, u) /\ u.globalFront = a
  BY <1>3, <1>4, <1>5, ReplaceApp DEF Unmoved
<1> HIDE DEF u, h
<1>8. Sound(u) /\ Unmoved(t, u)
  BY <1>4, <1>7, UnmovedTwice DEF Unmoved
<1>9. CASE h = Announced(u, a, quiet)
  <2>1. Unmoved(u, h.tracker) /\ h.tracker.globalFront = u.globalFront
    BY <1>8, <1>9, AnnouncedOK
  <2> QED BY <1>7, <1>8, <2>1, UnmovedTwice DEF h
<1>10. CASE h = [tracker |-> v, focused |-> NoWindow]
  BY <1>3, <1>4, <1>10 DEF h
<1> QED BY <1>2, <1>6, <1>9, <1>10

LEMMA GloballyDeactivatedOK ==
    ASSUME NEW t, Sound(t), NEW a \in App
    PROVE  LET h == ApplicationGloballyDeactivated(t, a)
           IN  /\ Unmoved(t, h.tracker) /\ h.focused = NoWindow
               /\ h.tracker.globalFront = IF t.globalFront = a THEN NoApp ELSE t.globalFront
<1> DEFINE front == IF t.globalFront = a THEN NoApp ELSE t.globalFront
           v == [t EXCEPT !.globalFront = front]
           s == [v.apps[a] EXCEPT !.front = FALSE]
           u == [v EXCEPT !.apps[a] = s]
<1>0. t \in Tracker
  BY DEF Sound
<1>1. front \in App \cup {NoApp}
  BY <1>0 DEF Tracker
<1>2. ApplicationGloballyDeactivated(t, a)
        = [tracker |-> [v EXCEPT !.apps[a].front = FALSE], focused |-> NoWindow]
  BY <1>0 DEF ApplicationGloballyDeactivated, Silent, Tracker
<1> HIDE DEF front
<1>3. /\ v \in Tracker /\ v.order = t.order /\ v.lastFocused = t.lastFocused
      /\ v.serverFocus = t.serverFocus /\ v.authoritative = t.authoritative /\ v.panel = t.panel
      /\ v.globalFront = front
  BY <1>0, <1>1 DEF Tracker
<1> HIDE DEF v
<1>4. Unmoved(t, v)
  BY <1>3, Elsewhere
<1>5. s \in AppStates
  BY <1>3, AppStateType
<1>6. [v EXCEPT !.apps[a].front = FALSE] = u
  BY <1>3 DEF Tracker
<1> HIDE DEF s
<1>7. Unmoved(v, u) /\ u.globalFront = front
  BY <1>3, <1>4, <1>5, ReplaceApp DEF Unmoved
<1> HIDE DEF u
<1>8. Unmoved(t, u)
  BY <1>4, <1>7, UnmovedTwice
<1> DEFINE h == ApplicationGloballyDeactivated(t, a)
<1>9. h.tracker = u /\ h.focused = NoWindow
  BY <1>2, <1>6
<1> HIDE DEF h
<1> QED BY <1>7, <1>8, <1>9 DEF front, h

LEMMA MainWindowChangedOK ==
    ASSUME NEW t, Sound(t), NEW a \in App, NEW m \in Window \cup {NoWindow}, NEW quiet
    PROVE  LET h == ApplicationMainWindowChanged(t, a, m, quiet)
           IN  /\ Sound(h.tracker) /\ (Unmoved(t, h.tracker) \/ t.panel = a)
               /\ h.tracker.globalFront = t.globalFront
               /\ h.focused \in Window \cup {NoWindow}
<1> DEFINE s == [t.apps[a] EXCEPT !.main = m]
           v == [t EXCEPT !.apps[a] = s]
           h == ApplicationMainWindowChanged(t, a, m, quiet)
<1>0. t \in Tracker
  BY DEF Sound
<1>1. s \in AppStates
  BY <1>0, AppStateType
<1>2. [t EXCEPT !.apps[a].main = m] = v
  BY <1>0 DEF Tracker
<1>3. \/ h = [tracker |-> t, focused |-> NoWindow]
      \/ h = Announced(v, a, quiet)
      \/ h = Announced(WindowServerFocused(v, m), a, quiet) /\ m # NoWindow /\ t.panel = a
  <2> HIDE DEF v
  <2> QED BY <1>2 DEF ApplicationMainWindowChanged, Silent
<1> HIDE DEF s
<1>4. Unmoved(t, v) /\ v.globalFront = t.globalFront
  BY <1>1, ReplaceApp
<1> HIDE DEF v, h
<1>5. Sound(v)
  BY <1>4 DEF Unmoved
<1>6. CASE h = [tracker |-> t, focused |-> NoWindow]
  BY <1>6 DEF h, Unmoved
<1>7. CASE h = Announced(v, a, quiet)
  <2>1. /\ Unmoved(v, h.tracker) /\ h.tracker.globalFront = v.globalFront
        /\ h.focused \in Window \cup {NoWindow}
    BY <1>5, <1>7, AnnouncedOK
  <2> QED BY <1>4, <2>1, UnmovedTwice DEF h, Unmoved
<1>8. CASE h = Announced(WindowServerFocused(v, m), a, quiet) /\ m # NoWindow /\ t.panel = a
  <2>1. PICK u : u = WindowServerFocused(v, m)
    OBVIOUS
  <2>2. Sound(u) /\ u.globalFront = v.globalFront
    <3>1. v \in Tracker /\ Once(v.order) /\ m \in Window
      BY <1>5, <1>8 DEF Sound
    <3> QED BY <2>1, <3>1, WindowServerFocusedOK
  <2>3. /\ Unmoved(u, h.tracker) /\ h.tracker.globalFront = u.globalFront
        /\ h.focused \in Window \cup {NoWindow}
    BY <1>8, <2>1, <2>2, AnnouncedOK
  <2> QED BY <1>4, <1>8, <2>2, <2>3 DEF h, Unmoved
<1> QED BY <1>3, <1>6, <1>7, <1>8

LEMMA ThreadTerminatedOK ==
    ASSUME NEW t, Sound(t), NEW a \in App
    PROVE  LET u == ApplicationThreadTerminated(t, a).tracker
           IN  /\ Sound(u) /\ u.globalFront = t.globalFront
               /\ u.authoritative = t.authoritative /\ u.panel = t.panel
               /\ u.serverFocus # t.serverFocus => AppOf[t.serverFocus] = a
<1> DEFINE v == [t EXCEPT !.apps[a] = NotLaunched]
           gone == { w \in Window : AppOf[w] = a }
<1>0. t \in Tracker
  BY DEF Sound
<1>1. NotLaunched \in AppStates
  BY AppStateType, <1>0
<1>2. ApplicationThreadTerminated(t, a) = [tracker |-> WithoutFocus(v, gone), focused |-> NoWindow]
  BY DEF ApplicationThreadTerminated, Silent
<1>3. Unmoved(t, v) /\ v.globalFront = t.globalFront
  BY <1>1, ReplaceApp
<1>4. t.serverFocus \in gone => AppOf[t.serverFocus] = a
  OBVIOUS
<1> HIDE DEF v, gone
<1>5. PICK u : u = WithoutFocus(v, gone)
  OBVIOUS
<1>6. /\ Sound(u) /\ u.serverFocus = IF v.serverFocus \in gone THEN NoWindow ELSE v.serverFocus
      /\ u.authoritative = v.authoritative /\ u.panel = v.panel /\ u.globalFront = v.globalFront
  BY <1>3, <1>5, WithoutFocusOK DEF Unmoved
<1> QED BY <1>2, <1>3, <1>4, <1>5, <1>6 DEF Unmoved

LEMMA DestroyedOK ==
    ASSUME NEW t, Sound(t), NEW w
    PROVE  LET u == WindowDestroyed(t, w).tracker
           IN  /\ Sound(u) /\ u.globalFront = t.globalFront
               /\ u.authoritative = t.authoritative /\ u.panel = t.panel
               /\ u.serverFocus # t.serverFocus => t.serverFocus = w
<1>1. WindowDestroyed(t, w) = [tracker |-> WithoutFocus(t, {w}), focused |-> NoWindow]
  BY DEF WindowDestroyed, Silent
<1>2. PICK u : u = WithoutFocus(t, {w})
  OBVIOUS
<1>3. /\ Sound(u) /\ u.serverFocus = IF t.serverFocus \in {w} THEN NoWindow ELSE t.serverFocus
      /\ u.authoritative = t.authoritative /\ u.panel = t.panel /\ u.globalFront = t.globalFront
  BY <1>2, WithoutFocusOK
<1> QED BY <1>1, <1>2, <1>3

LEMMA ServerFocusChangedOK ==
    ASSUME NEW t, Sound(t), NEW w \in Window
    PROVE  LET u == WindowServerFocusChanged(t, w).tracker
           IN  Sound(u) /\ u.globalFront = t.globalFront /\ Names(u, w)
<1> DEFINE v == [t EXCEPT !.panel = NoApp]
<1>1. v \in Tracker /\ Once(v.order) /\ v.panel = NoApp /\ v.globalFront = t.globalFront
  BY DEF Sound, Tracker
<1>2. WindowServerFocusChanged(t, w) = [tracker |-> WindowServerFocused(v, w), focused |-> NoWindow]
  BY DEF WindowServerFocusChanged, Silent
<1> HIDE DEF v
<1>3. PICK u : u = WindowServerFocused(v, w)
  OBVIOUS
<1>4. Sound(u) /\ u.serverFocus = w /\ u.panel = v.panel /\ u.globalFront = v.globalFront
  BY <1>1, <1>3, WindowServerFocusedOK
<1> QED BY <1>1, <1>2, <1>3, <1>4 DEF Names

LEMMA PanelFocusedOK ==
    ASSUME NEW t, Sound(t), NEW p \in Window
    PROVE  LET u == PanelFocused(t, p).tracker
           IN  Sound(u) /\ u.globalFront = t.globalFront
<1> DEFINE v == [t EXCEPT !.panel = AppOf[p]]
           main == t.apps[AppOf[p]].main
           w == IF main = NoWindow THEN p ELSE main
<1>1. t \in Tracker /\ AppOf[p] \in App
  BY TrackerAssumption DEF Sound
<1>2. w \in Window
  <2>1. t.apps[AppOf[p]].main \in Window \cup {NoWindow}
    BY <1>1 DEF Tracker, AppStates
  <2> QED BY <2>1
<1>3. v \in Tracker /\ Once(v.order) /\ v.globalFront = t.globalFront
  BY <1>1 DEF Sound, Tracker
<1>4. PanelFocused(t, p) = [tracker |-> WindowServerFocused(v, w), focused |-> NoWindow]
  BY DEF PanelFocused, Silent
<1> HIDE DEF v, w
<1>5. PICK u : u = WindowServerFocused(v, w)
  OBVIOUS
<1>6. Sound(u) /\ u.globalFront = v.globalFront
  BY <1>2, <1>3, <1>5, WindowServerFocusedOK
<1> QED BY <1>3, <1>4, <1>5, <1>6

-----------------------------------------------------------------------------
(* The application in front, by the reports on their way.                  *)

FrontAfter(x, e) ==
    IF e.kind = "globallyActivated" THEN e.app
    ELSE IF e.kind = "globallyDeactivated" /\ x = e.app THEN NoApp ELSE x

(* Taking in the reports of s brings a tracker that holds x to be in front *)
(* to y.                                                                   *)
Leads(x, s, y) ==
    \E c : c[0] = x /\ c[Len(s)] = y /\ \A i \in 1..Len(s) : c[i] = FrontAfter(c[i - 1], s[i])

(* ... and those of every batch of es.                                     *)
LeadOn(x, es, y) ==
    \E d : d[0] = x /\ d[Len(es)] = y /\ \A i \in 1..Len(es) : Leads(d[i - 1], es[i], d[i])

LEMMA Joined ==
    ASSUME NEW S, NEW s \in Seq(S), NEW r \in Seq(S)
    PROVE  /\ s \o r \in Seq(S) /\ Len(s \o r) = Len(s) + Len(r)
           /\ DOMAIN (s \o r) = 1..(Len(s) + Len(r)) /\ DOMAIN s = 1..Len(s) /\ DOMAIN r = 1..Len(r)
           /\ Len(s) \in Nat /\ Len(r) \in Nat
           /\ \A i \in 1..Len(s) : (s \o r)[i] = s[i]
           /\ \A i \in (Len(s) + 1)..(Len(s) + Len(r)) : (s \o r)[i] = r[i - Len(s)]
OBVIOUS

LEMMA Tailed ==
    ASSUME NEW S, NEW s \in Seq(S), s # <<>>
    PROVE  /\ Tail(s) \in Seq(S) /\ Head(s) \in S /\ Head(s) = s[1]
           /\ Len(s) \in Nat /\ Len(s) > 0 /\ Len(Tail(s)) = Len(s) - 1
           /\ DOMAIN s = 1..Len(s) /\ DOMAIN Tail(s) = 1..(Len(s) - 1)
           /\ \A i \in 1..(Len(s) - 1) : Tail(s)[i] = s[i + 1]
OBVIOUS

LEMMA LeadsJoined ==
    ASSUME NEW S, NEW s \in Seq(S), NEW r \in Seq(S), NEW x, NEW y, NEW z,
           Leads(x, s, y), Leads(y, r, z)
    PROVE  Leads(x, s \o r, z)
<1> DEFINE m == Len(s)
           n == Len(r)
           t == s \o r
<1>1. PICK c : c[0] = x /\ c[m] = y /\ \A i \in 1..m : c[i] = FrontAfter(c[i - 1], s[i])
  BY DEF Leads
<1>2. PICK d : d[0] = y /\ d[n] = z /\ \A i \in 1..n : d[i] = FrontAfter(d[i - 1], r[i])
  BY DEF Leads
<1>3. /\ m \in Nat /\ n \in Nat /\ Len(t) = m + n
      /\ \A i \in 1..m : t[i] = s[i]
      /\ \A i \in (m + 1)..(m + n) : t[i] = r[i - m]
  BY Joined
<1> DEFINE e == [i \in 0..(m + n) |-> IF i <= m THEN c[i] ELSE d[i - m]]
<1> HIDE DEF m, n, t
<1>4. \A i \in 0..m : e[i] = c[i]
  BY <1>3
<1>5. \A i \in m..(m + n) : e[i] = d[i - m]
  <2> SUFFICES ASSUME NEW i \in m..(m + n) PROVE e[i] = d[i - m]
    OBVIOUS
  <2>1. CASE i = m
    BY <1>1, <1>2, <1>3, <2>1
  <2>2. CASE i > m
    BY <1>3, <2>2
  <2> QED BY <1>3, <2>1, <2>2
<1> HIDE DEF e
<1>6. e[0] = x /\ e[m + n] = z
  BY <1>1, <1>2, <1>3, <1>4, <1>5
<1>7. ASSUME NEW i \in 1..(m + n) PROVE e[i] = FrontAfter(e[i - 1], t[i])
  <2>1. CASE i <= m
    <3>1. i \in 1..m /\ i \in 0..m /\ i - 1 \in 0..m
      BY <1>3, <2>1
    <3> QED BY <1>1, <1>3, <1>4, <3>1
  <2>2. CASE i > m
    <3>1. /\ i \in (m + 1)..(m + n) /\ i \in m..(m + n) /\ i - 1 \in m..(m + n)
          /\ i - m \in 1..n /\ (i - 1) - m = (i - m) - 1
      BY <1>3, <2>2
    <3> QED BY <1>2, <1>3, <1>5, <3>1
  <2> QED BY <1>3, <2>1, <2>2
<1> QED BY <1>3, <1>6, <1>7 DEF Leads, t

LEMMA LeadsNowhere ==
    ASSUME NEW x, NEW y
    PROVE  Leads(x, <<>>, y) <=> x = y
<1>1. Len(<<>>) = 0 /\ 1..0 = {}
  OBVIOUS
<1>2. x = y => Leads(x, <<>>, y)
  <2>1. [i \in 0..0 |-> x][0] = x
    OBVIOUS
  <2> QED BY <1>1, <2>1 DEF Leads
<1>3. Leads(x, <<>>, y) => x = y
  BY <1>1 DEF Leads
<1> QED BY <1>2, <1>3

LEMMA LeadsPast ==
    ASSUME NEW S, NEW s \in Seq(S), s # <<>>, NEW x, NEW y, Leads(x, s, y)
    PROVE  Leads(FrontAfter(x, Head(s)), Tail(s), y)
<1> DEFINE m == Len(s)
           t == Tail(s)
<1>1. PICK c : c[0] = x /\ c[m] = y /\ \A i \in 1..m : c[i] = FrontAfter(c[i - 1], s[i])
  BY DEF Leads
<1>2. m \in Nat /\ m > 0 /\ Len(t) = m - 1 /\ Head(s) = s[1] /\ \A i \in 1..(m - 1) : t[i] = s[i + 1]
  BY Tailed
<1> DEFINE d == [i \in 0..(m - 1) |-> c[i + 1]]
<1> HIDE DEF m, t
<1>3. \A i \in 0..(m - 1) : d[i] = c[i + 1]
  OBVIOUS
<1> HIDE DEF d
<1>4. d[0] = FrontAfter(x, Head(s)) /\ d[m - 1] = y
  BY <1>1, <1>2, <1>3
<1>5. ASSUME NEW i \in 1..(m - 1) PROVE d[i] = FrontAfter(d[i - 1], t[i])
  <2>1. i \in 0..(m - 1) /\ i - 1 \in 0..(m - 1) /\ i + 1 \in 1..m /\ (i - 1) + 1 = i /\ (i + 1) - 1 = i
    BY <1>2
  <2> QED BY <1>1, <1>2, <1>3, <2>1
<1> QED BY <1>2, <1>4, <1>5 DEF Leads, t

LEMMA BatchAdded ==
    ASSUME NEW S, NEW es \in Seq(S), NEW s \in S, NEW x, NEW y, NEW z, LeadOn(x, es, y), Leads(y, s, z)
    PROVE  LeadOn(x, Append(es, s), z)
<1> DEFINE m == Len(es)
           fs == Append(es, s)
<1>1. PICK d : d[0] = x /\ d[m] = y /\ \A i \in 1..m : Leads(d[i - 1], es[i], d[i])
  BY DEF LeadOn
<1>2. m \in Nat /\ Len(fs) = m + 1 /\ fs[m + 1] = s /\ \A i \in 1..m : fs[i] = es[i]
  OBVIOUS
<1> DEFINE e == [i \in 0..(m + 1) |-> IF i = m + 1 THEN z ELSE d[i]]
<1> HIDE DEF m, fs
<1>3. e[m + 1] = z /\ \A i \in 0..m : e[i] = d[i]
  BY <1>2
<1> HIDE DEF e
<1>4. e[0] = x
  BY <1>1, <1>2, <1>3
<1>5. ASSUME NEW i \in 1..(m + 1) PROVE Leads(e[i - 1], fs[i], e[i])
  <2>1. CASE i = m + 1
    <3>1. i - 1 = m /\ m \in 0..m
      BY <1>2, <2>1
    <3>2. e[i - 1] = y /\ fs[i] = s /\ e[i] = z
      BY <1>1, <1>2, <1>3, <2>1, <3>1
    <3> QED BY <3>2
  <2>2. CASE i # m + 1
    <3>1. i \in 1..m /\ i \in 0..m /\ i - 1 \in 0..m
      BY <1>2, <2>2
    <3>2. e[i - 1] = d[i - 1] /\ fs[i] = es[i] /\ e[i] = d[i]
      BY <1>2, <1>3, <3>1
    <3> QED BY <1>1, <3>1, <3>2
  <2> QED BY <2>1, <2>2
<1> QED BY <1>2, <1>3, <1>4, <1>5 DEF LeadOn, fs

LEMMA NoBatch ==
    ASSUME NEW x, NEW y
    PROVE  LeadOn(x, <<>>, y) <=> x = y
<1>1. Len(<<>>) = 0 /\ 1..0 = {}
  OBVIOUS
<1>2. x = y => LeadOn(x, <<>>, y)
  <2>1. [i \in 0..0 |-> x][0] = x
    OBVIOUS
  <2> QED BY <1>1, <2>1 DEF LeadOn
<1>3. LeadOn(x, <<>>, y) => x = y
  BY <1>1 DEF LeadOn
<1> QED BY <1>2, <1>3

LEMMA BatchTaken ==
    ASSUME NEW S, NEW es \in Seq(S), es # <<>>, NEW x, NEW y, LeadOn(x, es, y)
    PROVE  \E z : Leads(x, Head(es), z) /\ LeadOn(z, Tail(es), y)
<1> DEFINE m == Len(es)
           t == Tail(es)
<1>1. PICK d : d[0] = x /\ d[m] = y /\ \A i \in 1..m : Leads(d[i - 1], es[i], d[i])
  BY DEF LeadOn
<1>2. m \in Nat /\ m > 0 /\ Len(t) = m - 1 /\ Head(es) = es[1] /\ \A i \in 1..(m - 1) : t[i] = es[i + 1]
  BY Tailed
<1> DEFINE e == [i \in 0..(m - 1) |-> d[i + 1]]
<1> HIDE DEF m, t
<1>3. \A i \in 0..(m - 1) : e[i] = d[i + 1]
  OBVIOUS
<1> HIDE DEF e
<1>4. e[0] = d[1] /\ e[m - 1] = y
  BY <1>1, <1>2, <1>3
<1>5. ASSUME NEW i \in 1..(m - 1) PROVE Leads(e[i - 1], t[i], e[i])
  <2>1. i \in 0..(m - 1) /\ i - 1 \in 0..(m - 1) /\ i + 1 \in 1..m /\ (i - 1) + 1 = i /\ (i + 1) - 1 = i
    BY <1>2
  <2>2. e[i - 1] = d[(i + 1) - 1] /\ e[i] = d[i + 1] /\ t[i] = es[i + 1]
    BY <1>2, <1>3, <2>1
  <2> QED BY <1>1, <2>1, <2>2
<1>6. Leads(x, Head(es), d[1])
  <2>1. 1 \in 1..m /\ 1 - 1 = 0
    BY <1>2
  <2>2. Leads(d[1 - 1], es[1], d[1])
    BY <1>1, <2>1
  <2> QED BY <1>1, <1>2, <2>1, <2>2
<1>7. LeadOn(d[1], t, y)
  BY <1>2, <1>4, <1>5 DEF LeadOn
<1> QED BY <1>6, <1>7 DEF t

(* A switch of the front application, its two reports in either order.     *)
LEMMA SwitchLeads ==
    ASSUME NEW f \in App, NEW a \in App, f # a
    PROVE  LET up   == AppEvent("globallyActivated", a)
               down == AppEvent("globallyDeactivated", f)
           IN  Leads(f, <<up, down>>, a) /\ Leads(f, <<down, up>>, a)
<1> DEFINE up   == AppEvent("globallyActivated", a)
           down == AppEvent("globallyDeactivated", f)
<1>1. \A x : FrontAfter(x, up) = a
  BY DEF FrontAfter, AppEvent
<1>2. \A x : FrontAfter(x, down) = IF x = f THEN NoApp ELSE x
  BY DEF FrontAfter, AppEvent
<1> HIDE DEF up, down
<1>3. \A x, y, e, g : y = FrontAfter(FrontAfter(x, e), g) => Leads(x, <<e, g>>, y)
  <2> SUFFICES ASSUME NEW x, NEW e, NEW g PROVE Leads(x, <<e, g>>, FrontAfter(FrontAfter(x, e), g))
    OBVIOUS
  <2> DEFINE y1 == FrontAfter(x, e)
             y2 == FrontAfter(y1, g)
             c == [i \in 0..2 |-> IF i = 0 THEN x ELSE IF i = 1 THEN y1 ELSE y2]
  <2>1. c[0] = x /\ c[1] = y1 /\ c[2] = y2
    OBVIOUS
  <2>a. y1 = FrontAfter(x, e) /\ y2 = FrontAfter(y1, g)
    OBVIOUS
  <2> HIDE DEF c, y1, y2
  <2>2. \A i \in 1..2 : c[i] = FrontAfter(c[i - 1], <<e, g>>[i])
    <3>1. \A i \in 1..2 : i = 1 \/ i = 2
      OBVIOUS
    <3>2. <<e, g>>[1] = e /\ <<e, g>>[2] = g /\ 1 - 1 = 0 /\ 2 - 1 = 1
      OBVIOUS
    <3> QED BY <2>1, <2>a, <3>1, <3>2
  <2>3. Len(<<e, g>>) = 2
    OBVIOUS
  <2>4. Leads(x, <<e, g>>, y2)
    BY <2>1, <2>2, <2>3 DEF Leads
  <2> QED BY <2>4, <2>a
<1>4. FrontAfter(FrontAfter(f, up), down) = a /\ FrontAfter(FrontAfter(f, down), up) = a
  BY <1>1, <1>2
<1> QED BY <1>3, <1>4 DEF up, down

LEMMA QuietLeads ==
    ASSUME NEW S, NEW s \in Seq(S), NEW x,
           \A i \in DOMAIN s : s[i].kind # "globallyActivated" /\ s[i].kind # "globallyDeactivated"
    PROVE  Leads(x, s, x)
<1> DEFINE c == [i \in 0..Len(s) |-> x]
<1>1. Len(s) \in Nat /\ DOMAIN s = 1..Len(s)
  OBVIOUS
<1>2. \A i \in 0..Len(s) : c[i] = x
  OBVIOUS
<1> HIDE DEF c
<1>3. ASSUME NEW i \in 1..Len(s) PROVE c[i] = FrontAfter(c[i - 1], s[i])
  <2>1. i \in 0..Len(s) /\ i - 1 \in 0..Len(s)
    BY <1>1
  <2> QED BY <1>1, <1>2, <2>1 DEF FrontAfter
<1>4. c[0] = x /\ c[Len(s)] = x
  BY <1>1, <1>2
<1> QED BY <1>3, <1>4 DEF Leads

-----------------------------------------------------------------------------
(* The window server's reports on their way.                               *)

Mute(s) == \A i \in DOMAIN s : s[i].kind # "serverFocus"

(* The last of them names k.                                               *)
Tells(s, k) ==
    \E i \in DOMAIN s :
       /\ s[i].kind = "serverFocus" /\ s[i].window = k
       /\ \A j \in DOMAIN s : j > i => s[j].kind # "serverFocus"

LEMMA MuteJoined ==
    ASSUME NEW S, NEW s \in Seq(S), NEW r \in Seq(S), Mute(r), NEW k
    PROVE  (Mute(s) => Mute(s \o r)) /\ (Tells(s, k) => Tells(s \o r, k))
<1> DEFINE t == s \o r
<1>1. /\ DOMAIN t = 1..(Len(s) + Len(r)) /\ DOMAIN s = 1..Len(s) /\ DOMAIN r = 1..Len(r)
      /\ Len(s) \in Nat /\ Len(r) \in Nat
      /\ \A i \in 1..Len(s) : t[i] = s[i]
      /\ \A i \in (Len(s) + 1)..(Len(s) + Len(r)) : t[i] = r[i - Len(s)]
  BY Joined
<1> HIDE DEF t
<1>2. \A i \in DOMAIN t : i \in DOMAIN s \/ (t[i].kind # "serverFocus" /\ i > Len(s))
  <2> SUFFICES ASSUME NEW i \in DOMAIN t, i \notin DOMAIN s PROVE t[i].kind # "serverFocus" /\ i > Len(s)
    OBVIOUS
  <2>1. i > Len(s) /\ i \in (Len(s) + 1)..(Len(s) + Len(r)) /\ i - Len(s) \in DOMAIN r
    BY <1>1
  <2> QED BY <1>1, <2>1 DEF Mute
<1>3. Mute(s) => Mute(t)
  BY <1>1, <1>2 DEF Mute
<1>4. ASSUME Tells(s, k) PROVE Tells(t, k)
  <2>1. PICK i \in DOMAIN s : /\ s[i].kind = "serverFocus" /\ s[i].window = k
                              /\ \A j \in DOMAIN s : j > i => s[j].kind # "serverFocus"
    BY <1>4 DEF Tells
  <2>2. i \in DOMAIN t /\ t[i] = s[i]
    BY <1>1
  <2>3. ASSUME NEW j \in DOMAIN t, j > i PROVE t[j].kind # "serverFocus"
    BY <1>1, <1>2, <2>1, <2>3
  <2> QED BY <2>1, <2>2, <2>3 DEF Tells
<1> QED BY <1>3, <1>4 DEF t

LEMMA TellsNow ==
    ASSUME NEW S, NEW s \in Seq(S), NEW e \in S, e.kind = "serverFocus"
    PROVE  Tells(s \o <<e>>, e.window)
<1> DEFINE t == s \o <<e>>
           i == Len(s) + 1
<1>1. DOMAIN t = 1..(Len(s) + 1) /\ Len(s) \in Nat /\ t[i] = e
  OBVIOUS
<1> HIDE DEF t
<1>2. i \in DOMAIN t /\ \A j \in DOMAIN t : ~(j > i)
  BY <1>1
<1> HIDE DEF i
<1> QED BY <1>1, <1>2 DEF Tells, t

LEMMA TellsPast ==
    ASSUME NEW S, NEW s \in Seq(S), s # <<>>, NEW k
    PROVE  /\ Tells(s, k) => \/ Tells(Tail(s), k)
                             \/ Head(s).kind = "serverFocus" /\ Head(s).window = k /\ Mute(Tail(s))
           /\ Mute(s) => Mute(Tail(s)) /\ Head(s).kind # "serverFocus"
<1> DEFINE t == Tail(s)
<1>1. /\ Head(s) = s[1] /\ Len(s) \in Nat /\ Len(s) > 0
      /\ DOMAIN s = 1..Len(s) /\ DOMAIN t = 1..(Len(s) - 1)
      /\ \A i \in 1..(Len(s) - 1) : t[i] = s[i + 1]
  BY Tailed
<1> HIDE DEF t
<1>2. \A i \in DOMAIN t : i + 1 \in DOMAIN s /\ t[i] = s[i + 1] /\ i + 1 > 1
  BY <1>1
<1>3. Mute(s) => Mute(t) /\ Head(s).kind # "serverFocus"
  <2>1. 1 \in DOMAIN s
    BY <1>1
  <2> QED BY <1>1, <1>2, <2>1 DEF Mute
<1>4. ASSUME Tells(s, k)
      PROVE  Tells(t, k) \/ (Head(s).kind = "serverFocus" /\ Head(s).window = k /\ Mute(t))
  <2>1. PICK i \in DOMAIN s : /\ s[i].kind = "serverFocus" /\ s[i].window = k
                              /\ \A j \in DOMAIN s : j > i => s[j].kind # "serverFocus"
    BY <1>4 DEF Tells
  <2>2. CASE i = 1
    BY <1>1, <1>2, <2>1, <2>2 DEF Mute
  <2>3. CASE i # 1
    <3>1. i - 1 \in DOMAIN t /\ t[i - 1] = s[i]
      BY <1>1, <2>3
    <3>2. ASSUME NEW j \in DOMAIN t, j > i - 1 PROVE t[j].kind # "serverFocus"
      <4>1. j + 1 \in DOMAIN s /\ j + 1 > i /\ t[j] = s[j + 1]
        BY <1>1, <1>2, <3>2
      <4> QED BY <2>1, <4>1
    <3> QED BY <2>1, <3>1, <3>2 DEF Tells
  <2> QED BY <2>2, <2>3
<1> QED BY <1>3, <1>4 DEF t

-----------------------------------------------------------------------------
(* What the reports, the notices and the requests on their way may be.     *)

Notices == [kind : {"activation", "main", "closed"}, window : Window \cup {NoWindow}]

Requests == {"activation", "windows", "terminate"}

(* a has none of the windows o.                                            *)
Gone(a, o) == \A w \in o : AppOf[w] # a

(* A report, a notice and a request while there are the windows o: what    *)
(* tells of the end of a window or an application never comes before it.   *)
Fact(e, o) ==
    /\ e \in Events
    /\ e.kind = "serverFocus" => e.window \in Window
    /\ e.kind = "destroyed" => e.window \notin o
    /\ e.kind = "terminated" \/ e.kind = "threadTerminated" => Gone(e.app, o)

Facts(s, o) == s \in Seq(Events) /\ \A i \in DOMAIN s : Fact(s[i], o)

Noticed(q, o) ==
    /\ q \in Seq(Notices)
    /\ \A i \in DOMAIN q : q[i].kind = "closed" => q[i].window \in Window \ o

Asked(q, a, o) ==
    /\ q \in Seq(Requests)
    /\ \A i \in DOMAIN q : q[i] = "terminate" => Gone(a, o)

(* What a thread tells: nothing of the window server or the controller.    *)
OfThread(s) ==
    \A i \in DOMAIN s :
      /\ s[i].kind # "serverFocus" /\ s[i].kind # "globallyActivated"
      /\ s[i].kind # "globallyDeactivated"

LEMMA FactsFewer ==
    ASSUME NEW o, NEW p, p \subseteq o, NEW s, Facts(s, o)
    PROVE  Facts(s, p)
BY DEF Facts, Fact, Gone

LEMMA FactsJoined ==
    ASSUME NEW o, NEW s, Facts(s, o), NEW r, Facts(r, o)
    PROVE  Facts(s \o r, o)
<1> DEFINE t == s \o r
<1>1. s \in Seq(Events) /\ r \in Seq(Events)
  BY DEF Facts
<1>2. /\ t \in Seq(Events)
      /\ DOMAIN t = 1..(Len(s) + Len(r)) /\ DOMAIN s = 1..Len(s) /\ DOMAIN r = 1..Len(r)
      /\ Len(s) \in Nat /\ Len(r) \in Nat
      /\ \A i \in 1..Len(s) : t[i] = s[i]
      /\ \A i \in (Len(s) + 1)..(Len(s) + Len(r)) : t[i] = r[i - Len(s)]
  BY <1>1, Joined
<1> HIDE DEF t
<1>3. ASSUME NEW i \in DOMAIN t PROVE Fact(t[i], o)
  <2>1. CASE i \in 1..Len(s)
    BY <1>2, <2>1 DEF Facts
  <2>2. CASE i \notin 1..Len(s)
    <3>1. i \in (Len(s) + 1)..(Len(s) + Len(r)) /\ i - Len(s) \in DOMAIN r
      BY <1>2, <2>2
    <3>2. t[i] = r[i - Len(s)]
      BY <1>2, <3>1
    <3> QED BY <3>1, <3>2 DEF Facts
  <2> QED BY <2>1, <2>2
<1> QED BY <1>2, <1>3 DEF Facts, t

LEMMA FactsPast ==
    ASSUME NEW o, NEW s, Facts(s, o), s # <<>>
    PROVE  Facts(Tail(s), o) /\ Fact(Head(s), o)
<1>1. s \in Seq(Events)
  BY DEF Facts
<1>2. /\ Tail(s) \in Seq(Events) /\ Head(s) = s[1]
      /\ Len(s) \in Nat /\ Len(s) > 0
      /\ DOMAIN s = 1..Len(s) /\ DOMAIN Tail(s) = 1..(Len(s) - 1)
      /\ \A i \in 1..(Len(s) - 1) : Tail(s)[i] = s[i + 1]
  BY <1>1, Tailed
<1>3. 1 \in DOMAIN s /\ \A i \in 1..(Len(s) - 1) : i + 1 \in DOMAIN s
  BY <1>2
<1> QED BY <1>2, <1>3 DEF Facts

LEMMA OneFact ==
    ASSUME NEW o, NEW e, Fact(e, o)
    PROVE  Facts(<<e>>, o)
BY DEF Facts, Fact

LEMMA TwoFacts ==
    ASSUME NEW o, NEW e, Fact(e, o), NEW f, Fact(f, o), e.kind # "serverFocus", f.kind # "serverFocus"
    PROVE  Facts(<<e, f>>, o) /\ Mute(<<e, f>>)
BY DEF Facts, Fact, Mute

(* Reports of a thread put behind s.                                       *)
LEMMA ThreadTells ==
    ASSUME NEW o, NEW s, Facts(s, o), NEW r, Facts(r, o), OfThread(r)
    PROVE  /\ Facts(s \o r, o)
           /\ \A x, y : Leads(x, s, y) => Leads(x, s \o r, y)
           /\ \A k : (Mute(s) => Mute(s \o r)) /\ (Tells(s, k) => Tells(s \o r, k))
<1>1. s \in Seq(Events) /\ r \in Seq(Events)
  BY DEF Facts
<1>2. Mute(r)
  BY DEF Mute, OfThread
<1>3. ASSUME NEW x, NEW y, Leads(x, s, y) PROVE Leads(x, s \o r, y)
  <2>1. Leads(y, r, y)
    BY <1>1, QuietLeads DEF OfThread
  <2> QED BY <1>1, <1>3, <2>1, LeadsJoined
<1>4. Facts(s \o r, o)
  BY FactsJoined
<1>5. ASSUME NEW k PROVE (Mute(s) => Mute(s \o r)) /\ (Tells(s, k) => Tells(s \o r, k))
  BY <1>1, <1>2, MuteJoined
<1> QED BY <1>3, <1>4, <1>5

LEMMA NoticedFewer ==
    ASSUME NEW o, NEW p, p \subseteq o, NEW q, Noticed(q, o)
    PROVE  Noticed(q, p)
BY DEF Noticed

LEMMA PostedOK ==
    ASSUME NEW o, NEW q, Noticed(q, o), NEW kind \in {"activation", "main", "closed"},
           NEW w \in Window \cup {NoWindow}, kind = "closed" => w \in Window \ o
    PROVE  Noticed(Posted(q, kind, w), o)
<1> DEFINE n == [kind |-> kind, window |-> w]
           r == Append(q, n)
<1>1. n \in Notices /\ n.kind = kind /\ n.window = w
  BY DEF Notices
<1>2. q \in Seq(Notices)
  BY DEF Noticed
<1>3. Posted(q, kind, w) = q \/ Posted(q, kind, w) = r
  BY DEF Posted
<1> HIDE DEF n
<1>4. /\ r \in Seq(Notices) /\ DOMAIN r = 1..(Len(q) + 1) /\ DOMAIN q = 1..Len(q) /\ Len(q) \in Nat
      /\ r[Len(q) + 1] = n /\ \A i \in 1..Len(q) : r[i] = q[i]
  BY <1>1, <1>2
<1> HIDE DEF r
<1>5. ASSUME NEW i \in DOMAIN r, r[i].kind = "closed" PROVE r[i].window \in Window \ o
  <2>1. i = Len(q) + 1 \/ i \in 1..Len(q)
    BY <1>4
  <2> QED BY <1>1, <1>4, <1>5, <2>1 DEF Noticed
<1> QED BY <1>3, <1>4, <1>5 DEF Noticed

LEMMA NoticedPast ==
    ASSUME NEW o, NEW q, Noticed(q, o), q # <<>>
    PROVE  /\ Noticed(Tail(q), o) /\ Head(q) \in Notices
           /\ Head(q).kind = "closed" => Head(q).window \in Window \ o
<1>1. q \in Seq(Notices)
  BY DEF Noticed
<1>2. /\ Tail(q) \in Seq(Notices) /\ Head(q) \in Notices /\ Head(q) = q[1]
      /\ Len(q) \in Nat /\ Len(q) > 0
      /\ DOMAIN q = 1..Len(q) /\ DOMAIN Tail(q) = 1..(Len(q) - 1)
      /\ \A i \in 1..(Len(q) - 1) : Tail(q)[i] = q[i + 1]
  BY <1>1, Tailed
<1>3. 1 \in DOMAIN q /\ \A i \in 1..(Len(q) - 1) : i + 1 \in DOMAIN q
  BY <1>2
<1> QED BY <1>2, <1>3 DEF Noticed

LEMMA AskedFewer ==
    ASSUME NEW o, NEW p, p \subseteq o, NEW a, NEW q, Asked(q, a, o)
    PROVE  Asked(q, a, p)
BY DEF Asked, Gone

LEMMA AskedMore ==
    ASSUME NEW o, NEW a, NEW q, Asked(q, a, o), NEW r \in Requests, r = "terminate" => Gone(a, o)
    PROVE  Asked(Append(q, r), a, o)
<1> DEFINE s == Append(q, r)
<1>1. q \in Seq(Requests)
  BY DEF Asked
<1>2. /\ s \in Seq(Requests) /\ DOMAIN s = 1..(Len(q) + 1) /\ DOMAIN q = 1..Len(q) /\ Len(q) \in Nat
      /\ s[Len(q) + 1] = r /\ \A i \in 1..Len(q) : s[i] = q[i]
  BY <1>1
<1> HIDE DEF s
<1>3. ASSUME NEW i \in DOMAIN s, s[i] = "terminate" PROVE Gone(a, o)
  <2>1. i = Len(q) + 1 \/ i \in 1..Len(q)
    BY <1>2
  <2> QED BY <1>2, <1>3, <2>1 DEF Asked
<1> QED BY <1>2, <1>3 DEF Asked, s

LEMMA AskedPast ==
    ASSUME NEW o, NEW a, NEW q, Asked(q, a, o), q # <<>>
    PROVE  Asked(Tail(q), a, o) /\ (Head(q) = "terminate" => Gone(a, o))
<1>1. q \in Seq(Requests)
  BY DEF Asked
<1>2. /\ Tail(q) \in Seq(Requests) /\ Head(q) = q[1]
      /\ Len(q) \in Nat /\ Len(q) > 0
      /\ DOMAIN q = 1..Len(q) /\ DOMAIN Tail(q) = 1..(Len(q) - 1)
      /\ \A i \in 1..(Len(q) - 1) : Tail(q)[i] = q[i + 1]
  BY <1>1, Tailed
<1>3. 1 \in DOMAIN q /\ \A i \in 1..(Len(q) - 1) : i + 1 \in DOMAIN q
  BY <1>2
<1> QED BY <1>2, <1>3 DEF Asked

-----------------------------------------------------------------------------
(* The inductive invariant.                                                *)

Macs ==
    [front : App, main : [App -> Managed \cup {NoWindow}], key : [App -> Window \cup {NoWindow}]]

(* w, if any, is a window of a among o.                                    *)
Owns(a, w, o) == w = NoWindow \/ (w \in o /\ AppOf[w] = a)

(* An application's main window and its key window are its own.            *)
MacInv ==
    /\ mac \in Macs /\ open \subseteq Window
    /\ \A a \in App : Owns(a, mac.main[a], open) /\ Owns(a, mac.key[a], open)

(* Every batch of edges: none is of the window server's.                   *)
Batches(es, o) ==
    es \in Seq(Seq(Events)) /\ \A i \in DOMAIN es : Facts(es[i], o) /\ Mute(es[i])

WireInv ==
    /\ Facts(inbox, open) /\ Batches(edges, open)
    /\ wake \in BOOLEAN /\ resolved \in [read : BOOLEAN, window : Window \cup {NoWindow}]

Threads ==
    [phase : {"yet", "runs", "ended"}, front : BOOLEAN, main : Window \cup {NoWindow},
     windows : SUBSET Window, activation : {"none", "quiet", "loud"},
     pendingQuiet : {"none", "quiet", "loud"}]

AskedInv == asked \in [App -> Seq(Requests)] /\ \A a \in App : Asked(asked[a], a, open)

NoticesInv == notices \in [App -> Seq(Notices)] /\ \A a \in App : Noticed(notices[a], open)

ThreadInv == thread \in [App -> Threads] /\ AskedInv /\ NoticesInv

LayoutInv ==
    /\ known \subseteq Window /\ shown \in Workspace /\ selected \in Managed \cup {NoWindow}
    /\ switching \in BOOLEAN
    /\ raise \in [window : Managed \cup {NoWindow}, quiet : BOOLEAN]
    /\ echo \in [windows : SUBSET Managed, target : Managed \cup {NoWindow}, believed : BOOLEAN]

UserInv ==
    /\ user \in [acts : Nat, how : Scenarios] /\ user.acts <= user.how.acts
    /\ sentBack \in Managed \cup {NoWindow} /\ cycled \in Managed \cup {NoWindow}

(* Taking in every report leaves the tracker with macOS's application in   *)
(* front.                                                                  *)
FrontInv == \E z : Leads(tracker.globalFront, inbox, z) /\ LeadOn(z, edges, mac.front)

(* What has the keys is still to be read, or read and not published, or    *)
(* the last the window server said that is on its way, or, nothing more    *)
(* being on its way, what the tracker holds.                               *)
Keyed(k, w, r, s, t) ==
    k \in Managed =>
      w \/ (r.read /\ r.window = k) \/ (~r.read /\ (Tells(s, k) \/ (Mute(s) /\ Names(t, k))))

KeyInv == Keyed(KeyWindow, wake, resolved, inbox, tracker)

Inv ==
    /\ Sound(tracker) /\ MacInv /\ WireInv /\ ThreadInv /\ LayoutInv /\ UserInv
    /\ FrontInv /\ KeyInv

-----------------------------------------------------------------------------
(* What a thread reports.                                                  *)

Told(s, o) == Facts(s, o) /\ OfThread(s)

LEMMA EventFacts ==
    ASSUME NEW o, NEW a \in App, NEW m \in Window \cup {NoWindow}, NEW b \in BOOLEAN,
           NEW ws \in SUBSET Window
    PROVE  /\ Told(<<MainEvent(a, m, b)>>, o) /\ Told(<<ActivatedEvent(a, b)>>, o)
           /\ Told(<<LaunchedEvent(a, b, m, ws)>>, o)
           /\ Told(<<AppEvent("deactivated", a)>>, o)
           /\ Fact(AppEvent("globallyActivated", a), o) /\ Fact(AppEvent("globallyDeactivated", a), o)
           /\ AppEvent("globallyActivated", a).kind # "serverFocus"
           /\ AppEvent("globallyDeactivated", a).kind # "serverFocus"
           /\ Gone(a, o) => /\ Told(<<AppEvent("threadTerminated", a)>>, o)
                            /\ Told(<<AppEvent("terminated", a)>>, o)
<1>1. \A e : Fact(e, o) /\ e.kind # "serverFocus" /\ e.kind # "globallyActivated"
              /\ e.kind # "globallyDeactivated" => Told(<<e>>, o)
  <2> SUFFICES ASSUME NEW e, Fact(e, o), e.kind # "serverFocus", e.kind # "globallyActivated",
                      e.kind # "globallyDeactivated"
               PROVE  Told(<<e>>, o)
    OBVIOUS
  <2>1. Facts(<<e>>, o)
    BY OneFact
  <2>2. OfThread(<<e>>)
    BY DEF OfThread
  <2> QED BY <2>1, <2>2 DEF Told
<1>2. /\ Fact(MainEvent(a, m, b), o) /\ MainEvent(a, m, b).kind = "main"
      /\ Fact(ActivatedEvent(a, b), o) /\ ActivatedEvent(a, b).kind = "activated"
  BY DEF Fact, Events, MainEvent, ActivatedEvent
<1>3. Fact(LaunchedEvent(a, b, m, ws), o) /\ LaunchedEvent(a, b, m, ws).kind = "launched"
  BY DEF Fact, Events, LaunchedEvent
<1>4. /\ Fact(AppEvent("deactivated", a), o) /\ AppEvent("deactivated", a).kind = "deactivated"
      /\ Fact(AppEvent("globallyActivated", a), o) /\ Fact(AppEvent("globallyDeactivated", a), o)
      /\ AppEvent("globallyActivated", a).kind # "serverFocus"
      /\ AppEvent("globallyDeactivated", a).kind # "serverFocus"
  BY DEF Fact, Events, AppEvent
<1>5. Gone(a, o) =>
        /\ Fact(AppEvent("threadTerminated", a), o)
        /\ AppEvent("threadTerminated", a).kind = "threadTerminated"
        /\ Fact(AppEvent("terminated", a), o) /\ AppEvent("terminated", a).kind = "terminated"
  BY DEF Fact, Events, AppEvent
<1>6. Told(<<MainEvent(a, m, b)>>, o) /\ Told(<<ActivatedEvent(a, b)>>, o)
  BY <1>1, <1>2
<1>7. Told(<<LaunchedEvent(a, b, m, ws)>>, o)
  BY <1>1, <1>3
<1>8. Told(<<AppEvent("deactivated", a)>>, o)
  BY <1>1, <1>4
<1>9. Gone(a, o) => Told(<<AppEvent("threadTerminated", a)>>, o) /\ Told(<<AppEvent("terminated", a)>>, o)
  BY <1>1, <1>5
<1> QED BY <1>4, <1>6, <1>7, <1>8, <1>9

LEMMA WindowFacts ==
    ASSUME NEW o, NEW w \in Window
    PROVE  /\ WindowEvent("serverFocus", w).kind = "serverFocus"
           /\ WindowEvent("serverFocus", w).window = w
           /\ Fact(WindowEvent("serverFocus", w), o)
           /\ WindowEvent("destroyed", w).kind = "destroyed"
           /\ w \notin o => Fact(WindowEvent("destroyed", w), o)
BY TrackerAssumption DEF Fact, Events, WindowEvent

LEMMA ToldNone ==
    ASSUME NEW o
    PROVE  Told(<<>>, o)
BY DEF Told, Facts, OfThread

LEMMA ToldJoined ==
    ASSUME NEW o, NEW s, Told(s, o), NEW r, Told(r, o)
    PROVE  Told(s \o r, o)
<1> DEFINE t == s \o r
<1>1. Facts(t, o) /\ s \in Seq(Events) /\ r \in Seq(Events)
  BY FactsJoined DEF Told, Facts
<1>2. /\ DOMAIN t = 1..(Len(s) + Len(r)) /\ DOMAIN s = 1..Len(s) /\ DOMAIN r = 1..Len(r)
      /\ Len(s) \in Nat /\ Len(r) \in Nat
      /\ \A i \in 1..Len(s) : t[i] = s[i]
      /\ \A i \in (Len(s) + 1)..(Len(s) + Len(r)) : t[i] = r[i - Len(s)]
  BY <1>1, Joined
<1> HIDE DEF t
<1>3. \A i \in DOMAIN t : (\E j \in DOMAIN s : t[i] = s[j]) \/ (\E j \in DOMAIN r : t[i] = r[j])
  <2> SUFFICES ASSUME NEW i \in DOMAIN t, i \notin DOMAIN s PROVE \E j \in DOMAIN r : t[i] = r[j]
    BY <1>2
  <2>1. i \in (Len(s) + 1)..(Len(s) + Len(r)) /\ i - Len(s) \in DOMAIN r
    BY <1>2
  <2> QED BY <1>2, <2>1
<1>4. OfThread(t)
  BY <1>3 DEF Told, OfThread
<1> QED BY <1>1, <1>4 DEF Told, t

LEMMA HeardOK ==
    ASSUME mac \in Macs, NEW o, NEW a \in App, NEW th \in Threads, NEW quietFor
    PROVE  LET h == Heard(a, th, quietFor)
           IN  /\ h = [thread |-> h.thread, events |-> h.events]
               /\ h.thread \in Threads /\ Told(h.events, o)
<1>1. PICK w : w = mac.main[a]
  OBVIOUS
<1>2. w \in Window \cup {NoWindow}
  BY <1>1 DEF Macs, Managed
<1>3. PICK b \in BOOLEAN : b = (quietFor = w)
  OBVIOUS
<1>4. CASE Heard(a, th, quietFor) = [thread |-> th, events |-> <<>>]
  BY <1>4, ToldNone
<1>5. CASE Heard(a, th, quietFor) = [thread |-> [th EXCEPT !.main = w], events |-> <<MainEvent(a, w, b)>>]
  <2>1. [th EXCEPT !.main = w] \in Threads
    BY <1>2 DEF Threads
  <2>2. Told(<<MainEvent(a, w, b)>>, o)
    BY <1>2, EventFacts
  <2> QED BY <1>5, <2>1, <2>2
<1> QED BY <1>1, <1>3, <1>4, <1>5 DEF Heard

LEMMA ContextType ==
    ASSUME UserInv, NEW th
    PROVE  Context(th) \subseteq {"none", "quiet", "loud"}
BY DEF Context, Loudness

-----------------------------------------------------------------------------
(* A thread's steps.                                                       *)

BesidesThreads == <<mac, open, edges, wake, resolved, tracker, layoutVars, historyVars>>

LEMMA ThreadStepKeeps ==
    ASSUME Inv, NEW a \in App, NEW th \in Threads, NEW es, Told(es, open),
           thread' = [thread EXCEPT ![a] = th], inbox' = inbox \o es,
           AskedInv', NoticesInv', UNCHANGED BesidesThreads
    PROVE  Inv'
<1> USE DEF BesidesThreads, layoutVars, historyVars
<1>1. Sound(tracker)' /\ MacInv' /\ LayoutInv' /\ UserInv'
  BY DEF Inv, MacInv, LayoutInv, UserInv
<1>2. ThreadInv'
  BY DEF Inv, ThreadInv
<1>3. PICK o, s, u, t : o = open /\ s = inbox /\ u = inbox' /\ t = tracker
  OBVIOUS
<1>4. u = s \o es /\ Facts(s, o) /\ Facts(es, o) /\ OfThread(es)
  BY <1>3 DEF Inv, WireInv, Told
<1>5. /\ Facts(u, o)
      /\ \A x, y : Leads(x, s, y) => Leads(x, u, y)
      /\ \A k : (Mute(s) => Mute(u)) /\ (Tells(s, k) => Tells(u, k))
  BY <1>4, ThreadTells
<1>6. WireInv'
  BY <1>3, <1>5 DEF Inv, WireInv
<1>7. FrontInv'
  BY <1>3, <1>5 DEF Inv, FrontInv
<1>8. KeyInv'
  BY <1>3, <1>5 DEF Inv, KeyInv, Keyed, KeyWindow
<1> QED BY <1>1, <1>2, <1>6, <1>7, <1>8 DEF Inv

(* a's thread becomes one it may be, and tells what it may tell.           *)
Reported(a) ==
    \E th \in Threads : \E es :
       Told(es, open) /\ thread' = [thread EXCEPT ![a] = th] /\ inbox' = inbox \o es

LEMMA ReportsReported ==
    ASSUME NEW a \in App, NEW th \in Threads, NEW es, Told(es, open),
           Reports(a, [thread |-> th, events |-> es])
    PROVE  Reported(a)
BY DEF Reports, Tell, Reported

LEMMA Retold ==
    ASSUME NEW h, h = [thread |-> h.thread, events |-> h.events], NEW f
    PROVE  [h EXCEPT !.events = f] = [thread |-> h.thread, events |-> f]
<1>1. PICK x, y : x = h.thread /\ y = h.events
  OBVIOUS
<1>2. h = [thread |-> x, events |-> y]
  BY <1>1
<1>3. [[thread |-> x, events |-> y] EXCEPT !.events = f] = [thread |-> x, events |-> f]
  OBVIOUS
<1>4. [h EXCEPT !.events = f] = [[thread |-> x, events |-> y] EXCEPT !.events = f]
  BY <1>2, Zenon
<1> QED BY <1>1, <1>3, <1>4

LEMMA ActivationHeard ==
    ASSUME Inv, NEW a \in App, HearsActivation(a)
    PROVE  Reported(a)
<1>1. PICK th \in Threads : th = thread[a]
  BY DEF Inv, ThreadInv
<1>2. mac \in Macs /\ UserInv
  BY DEF Inv, MacInv
<1>3. PICK o : o = open
  OBVIOUS
<1>4. CASE Reports(a, [thread |-> [th EXCEPT !.front = FALSE, !.pendingQuiet = "none"],
                      events |-> IF th.front THEN <<AppEvent("deactivated", a)>> ELSE <<>>])
  <2>1. [th EXCEPT !.front = FALSE, !.pendingQuiet = "none"] \in Threads
    BY DEF Threads
  <2>2. Told(<<AppEvent("deactivated", a)>>, o) /\ Told(<<>>, o)
    BY EventFacts, ToldNone
  <2>3. PICK es : /\ es = IF th.front THEN <<AppEvent("deactivated", a)>> ELSE <<>>
                  /\ Told(es, o)
    BY <2>2
  <2> QED BY <1>3, <1>4, <2>1, <2>3, ReportsReported
<1>5. CASE Reports(a, [thread |-> th, events |-> <<>>])
  BY <1>3, <1>5, ToldNone, ReportsReported
<1>6. ASSUME NEW quiet \in Context(th),
             Reports(a, Heard(a, [th EXCEPT !.front = TRUE, !.activation = "none",
                                            !.pendingQuiet = quiet], NoWindow))
      PROVE  Reported(a)
  <2>1. quiet \in {"none", "quiet", "loud"}
    BY <1>2, <1>6, ContextType
  <2>2. PICK u \in Threads :
          u = [th EXCEPT !.front = TRUE, !.activation = "none", !.pendingQuiet = quiet]
    BY <2>1 DEF Threads
  <2>3. PICK h : /\ h = Heard(a, u, NoWindow) /\ h = [thread |-> h.thread, events |-> h.events]
                 /\ h.thread \in Threads /\ Told(h.events, o)
    BY <1>2, HeardOK
  <2>4. Reports(a, [thread |-> h.thread, events |-> h.events])
    BY <1>6, <2>2, <2>3
  <2> QED BY <1>3, <2>3, <2>4, ReportsReported
<1> QED BY <1>1, <1>4, <1>5, <1>6 DEF HearsActivation

LEMMA MainWindowHeard ==
    ASSUME Inv, NEW a \in App, HearsMainWindow(a)
    PROVE  Reported(a)
<1>1. PICK th \in Threads : th = thread[a]
  BY DEF Inv, ThreadInv
<1>2. mac \in Macs
  BY DEF Inv, MacInv
<1>3. PICK o : o = open
  OBVIOUS
<1>4. PICK gone : gone = th.windows \ o
  OBVIOUS
<1>5. gone \in SUBSET Window /\ \A w \in gone : w \in Window /\ w \notin o
  BY <1>4 DEF Threads
<1>6. PICK u \in Threads : u = [th EXCEPT !.windows = @ \cap o]
  BY DEF Threads
<1>7. PICK h : /\ h = Heard(a, u, NoWindow) /\ h = [thread |-> h.thread, events |-> h.events]
               /\ h.thread \in Threads /\ Told(h.events, o)
  BY <1>2, HeardOK
<1>8. PICK order \in SetToSeqs(gone) :
        Reports(a, [h EXCEPT !.events =
                      [i \in DOMAIN order |-> WindowEvent("destroyed", order[i])] \o @])
  BY <1>1, <1>3, <1>4, <1>6, <1>7 DEF HearsMainWindow
<1>9. PICK n \in Nat : n = Cardinality(gone)
  BY <1>5, TrackerAssumption, FS_Subset, FS_CardinalityType
<1>10. order \in [1..n -> gone]
  BY <1>9 DEF SetToSeqs
<1>11. PICK es : es = [i \in DOMAIN order |-> WindowEvent("destroyed", order[i])]
  OBVIOUS
<1>12. DOMAIN es = 1..n /\ \A i \in 1..n : es[i] = WindowEvent("destroyed", order[i]) /\ order[i] \in gone
  BY <1>10, <1>11
<1>13. \A i \in 1..n : Fact(es[i], o) /\ es[i].kind = "destroyed"
  BY <1>5, <1>12, WindowFacts
<1>14. Told(es, o)
  <2>1. es \in Seq(Events)
    <3>1. \A i \in 1..n : es[i] \in Events
      BY <1>13 DEF Fact
    <3>2. es = [i \in 1..n |-> es[i]]
      BY <1>10, <1>11
    <3> QED BY <3>1, <3>2
  <2> QED BY <1>12, <1>13, <2>1 DEF Told, Facts, OfThread
<1>15. PICK fs : fs = es \o h.events
  OBVIOUS
<1>16. Told(fs, o)
  BY <1>7, <1>14, <1>15, ToldJoined
<1>17. [h EXCEPT !.events = es \o @] = [thread |-> h.thread, events |-> fs]
  BY <1>7, <1>15, Retold
<1> QED BY <1>3, <1>7, <1>8, <1>11, <1>16, <1>17, ReportsReported

LEMMA ClosedHeard ==
    ASSUME Inv, NEW a \in App, NEW w \in Window, w \notin open, HearsClosed(a, w)
    PROVE  Reported(a)
<1>1. PICK th \in Threads : th = thread[a]
  BY DEF Inv, ThreadInv
<1>2. mac \in Macs
  BY DEF Inv, MacInv
<1>3. PICK o : o = open
  OBVIOUS
<1>4. CASE w \notin th.windows
  <2>1. UNCHANGED <<thread, inbox>>
    BY <1>1, <1>4 DEF HearsClosed
  <2>2. thread' = [thread EXCEPT ![a] = th]
    BY <1>1, <2>1 DEF Inv, ThreadInv
  <2>3. inbox' = inbox \o <<>>
    BY <2>1 DEF Inv, WireInv, Facts
  <2> QED BY <2>2, <2>3, ToldNone DEF Reported
<1>5. CASE w \in th.windows
  <2>1. PICK u \in Threads : u = [th EXCEPT !.windows = @ \ {w}]
    BY DEF Threads
  <2>2. PICK h : /\ h = Heard(a, u, w) /\ h = [thread |-> h.thread, events |-> h.events]
                 /\ h.thread \in Threads /\ Told(h.events, o)
    BY <1>2, HeardOK
  <2>3. Reports(a, [h EXCEPT !.events = <<WindowEvent("destroyed", w)>> \o @])
    BY <1>1, <1>5, <2>1, <2>2 DEF HearsClosed
  <2>4. PICK fs : fs = <<WindowEvent("destroyed", w)>> \o h.events
    OBVIOUS
  <2>5. Told(<<WindowEvent("destroyed", w)>>, o)
    <3>1. PICK e : e = WindowEvent("destroyed", w)
      OBVIOUS
    <3>2. Fact(e, o) /\ e.kind = "destroyed"
      BY <1>3, <3>1, WindowFacts
    <3>3. OfThread(<<e>>)
      BY <3>2 DEF OfThread
    <3> QED BY <3>1, <3>2, <3>3, OneFact DEF Told
  <2>6. Told(fs, o)
    BY <2>2, <2>4, <2>5, ToldJoined
  <2>7. [h EXCEPT !.events = <<WindowEvent("destroyed", w)>> \o @] = [thread |-> h.thread, events |-> fs]
    BY <2>2, <2>4, Retold
  <2> QED BY <1>3, <2>2, <2>3, <2>6, <2>7, ReportsReported
<1> QED BY <1>4, <1>5

LEMMA ActivationResolved ==
    ASSUME Inv, NEW a \in App, ResolvesActivation(a)
    PROVE  Reported(a)
<1>1. PICK th \in Threads : th = thread[a]
  BY DEF Inv, ThreadInv
<1>2. mac \in Macs
  BY DEF Inv, MacInv
<1>3. PICK o : o = open
  OBVIOUS
<1>4. PICK u \in Threads :
        u = [th EXCEPT !.front = TRUE, !.activation = "none",
                       !.pendingQuiet = IF th.activation # "none" THEN @ ELSE "none"]
  BY DEF Threads
<1>5. PICK h : /\ h = IF mac.main[a] = NoWindow /\ th.main # NoWindow
                      THEN [thread |-> [u EXCEPT !.main = NoWindow],
                            events |-> <<MainEvent(a, NoWindow, FALSE)>>]
                      ELSE Heard(a, u, NoWindow)
               /\ h = [thread |-> h.thread, events |-> h.events]
               /\ h.thread \in Threads /\ Told(h.events, o)
  <2>1. [u EXCEPT !.main = NoWindow] \in Threads
    BY DEF Threads
  <2>2. Told(<<MainEvent(a, NoWindow, FALSE)>>, o)
    BY EventFacts
  <2>3. PICK h1 : h1 = [thread |-> [u EXCEPT !.main = NoWindow],
                        events |-> <<MainEvent(a, NoWindow, FALSE)>>]
    OBVIOUS
  <2>4. h1 = [thread |-> h1.thread, events |-> h1.events] /\ h1.thread \in Threads /\ Told(h1.events, o)
    BY <2>1, <2>2, <2>3
  <2>5. PICK h2 : /\ h2 = Heard(a, u, NoWindow) /\ h2 = [thread |-> h2.thread, events |-> h2.events]
                  /\ h2.thread \in Threads /\ Told(h2.events, o)
    BY <1>2, HeardOK
  <2> QED BY <2>3, <2>4, <2>5
<1>6. \E quiet : Reports(a, [h EXCEPT !.events = @ \o <<ActivatedEvent(a, quiet = "quiet")>>])
  <2> HIDE DEF Inv
  <2> QED BY <1>1, <1>4, <1>5 DEF ResolvesActivation
<1>7. PICK quiet : Reports(a, [h EXCEPT !.events = @ \o <<ActivatedEvent(a, quiet = "quiet")>>])
  BY <1>6
<1>8. PICK b \in BOOLEAN : b = (quiet = "quiet")
  OBVIOUS
<1>9. PICK fs : fs = h.events \o <<ActivatedEvent(a, b)>>
  OBVIOUS
<1>10. Told(fs, o)
  <2>1. Told(<<ActivatedEvent(a, b)>>, o)
    BY EventFacts
  <2> QED BY <1>5, <1>9, <2>1, ToldJoined
<1>11. [h EXCEPT !.events = @ \o <<ActivatedEvent(a, b)>>] = [thread |-> h.thread, events |-> fs]
  <2>1. h = [thread |-> h.thread, events |-> h.events]
    BY <1>5
  <2> QED BY <1>9, <2>1, Retold
<1> QED BY <1>3, <1>5, <1>7, <1>8, <1>10, <1>11, ReportsReported

LEMMA ThreadKeeps ==
    ASSUME Inv, NEW a \in App, ThreadStep(a)
    PROVE  Inv'
<1> USE DEF macVars, threadVars, BesidesThreads, layoutVars, historyVars
<1>1. PICK th \in Threads : th = thread[a]
  BY DEF Inv, ThreadInv
<1>2. mac \in Macs /\ NoticesInv /\ AskedInv
  BY DEF Inv, MacInv, ThreadInv
<1>3. ASSUME Reported(a), AskedInv', NoticesInv', UNCHANGED BesidesThreads PROVE Inv'
  BY <1>3, ThreadStepKeeps DEF Reported
<1>4. UNCHANGED <<notices, open>> => NoticesInv'
  BY <1>2 DEF NoticesInv
<1>5. UNCHANGED <<asked, open>> => AskedInv'
  BY <1>2 DEF AskedInv
<1>6. ASSUME NEW q, Noticed(q, open), notices' = [notices EXCEPT ![a] = q], open' = open PROVE NoticesInv'
  <2>1. q \in Seq(Notices)
    BY <1>6 DEF Noticed
  <2> QED BY <1>2, <1>6, <2>1 DEF NoticesInv
<1>7. ASSUME NEW q, Asked(q, a, open), asked' = [asked EXCEPT ![a] = q], open' = open PROVE AskedInv'
  <2>1. q \in Seq(Requests)
    BY <1>7 DEF Asked
  <2> QED BY <1>2, <1>7, <2>1 DEF AskedInv
<1>8. CASE ThreadHears(a)
  <2>1. PICK q : q = notices[a]
    OBVIOUS
  <2>2. q # <<>> /\ Noticed(q, open) /\ notices' = [notices EXCEPT ![a] = Tail(q)]
    BY <1>2, <1>8, <2>1 DEF ThreadHears, NoticesInv
  <2>3. PICK n \in Notices : n = Head(q) /\ (n.kind = "closed" => n.window \in Window \ open)
    BY <2>2, NoticedPast
  <2>4. Noticed(Tail(q), open)
    BY <2>2, NoticedPast
  <2>5. Reported(a)
    <3>1. \/ HearsActivation(a) \/ HearsMainWindow(a)
          \/ n.kind = "closed" /\ HearsClosed(a, n.window)
      BY <1>8, <2>1, <2>3 DEF ThreadHears
    <3> QED BY <2>3, <3>1, ActivationHeard, MainWindowHeard, ClosedHeard
  <2>6. UNCHANGED BesidesThreads /\ UNCHANGED asked /\ open' = open
    BY <1>8 DEF ThreadHears
  <2>7. NoticesInv'
    BY <1>6, <2>2, <2>4, <2>6
  <2> QED BY <1>3, <1>5, <2>5, <2>6, <2>7
<1>9. CASE ThreadAnswers(a)
  <2>1. PICK q : q = asked[a]
    OBVIOUS
  <2>2. q # <<>> /\ Asked(q, a, open) /\ asked' = [asked EXCEPT ![a] = Tail(q)]
    BY <1>2, <1>9, <2>1 DEF ThreadAnswers, AskedInv
  <2>3. Asked(Tail(q), a, open)
    BY <2>2, AskedPast
  <2>4. Reported(a)
    <3>1. CASE ResolvesActivation(a)
      BY <3>1, ActivationResolved
    <3>2. CASE Reports(a, Heard(a, thread[a], NoWindow))
      <4>1. PICK h : /\ h = Heard(a, th, NoWindow) /\ h = [thread |-> h.thread, events |-> h.events]
                     /\ h.thread \in Threads /\ Told(h.events, open)
        BY <1>2, HeardOK
      <4> QED BY <1>1, <3>2, <4>1, ReportsReported
    <3> QED BY <1>9, <3>1, <3>2 DEF ThreadAnswers
  <2>5. UNCHANGED BesidesThreads /\ UNCHANGED notices /\ open' = open
    BY <1>9 DEF ThreadAnswers
  <2>6. AskedInv'
    BY <1>7, <2>2, <2>3, <2>5
  <2> QED BY <1>3, <1>4, <2>4, <2>5, <2>6
<1>10. CASE ThreadEnds(a)
  <2>1. /\ thread' = [thread EXCEPT ![a].phase = "ended"] /\ asked[a] # <<>> /\ Head(asked[a]) = "terminate"
        /\ asked' = [asked EXCEPT ![a] = <<>>] /\ notices' = [notices EXCEPT ![a] = <<>>]
        /\ inbox' = inbox \o <<AppEvent("threadTerminated", a)>>
        /\ UNCHANGED BesidesThreads /\ open' = open
    BY <1>10 DEF ThreadEnds, Tell
  <2>2. Gone(a, open)
    BY <1>2, <2>1, AskedPast DEF AskedInv
  <2>3. Told(<<AppEvent("threadTerminated", a)>>, open)
    BY <2>2, EventFacts
  <2>4. PICK u \in Threads : u = [th EXCEPT !.phase = "ended"]
    BY DEF Threads
  <2>5. thread' = [thread EXCEPT ![a] = u]
    BY <1>1, <2>1, <2>4 DEF Inv, ThreadInv
  <2>6. Reported(a)
    BY <2>1, <2>3, <2>5 DEF Reported
  <2>7. Noticed(<<>>, open) /\ Asked(<<>>, a, open)
    BY DEF Noticed, Asked
  <2>8. NoticesInv' /\ AskedInv'
    BY <1>6, <1>7, <2>1, <2>7
  <2> QED BY <1>3, <2>1, <2>6, <2>8
<1>11. CASE ThreadStarts(a)
  <2>1. PICK m : m = mac.main[a]
    OBVIOUS
  <2>2. m \in Window \cup {NoWindow}
    BY <1>2, <2>1 DEF Macs, Managed
  <2>3. PICK b \in BOOLEAN : b = (mac.front = a)
    OBVIOUS
  <2>4. PICK ws \in SUBSET Window : ws = WindowsOf(a)
    BY DEF Inv, MacInv, WindowsOf
  <2>5. PICK u \in Threads : u = [th EXCEPT !.phase = "runs", !.front = b, !.main = m, !.windows = ws]
    BY <2>2 DEF Threads
  <2>6. Told(<<LaunchedEvent(a, b, m, ws)>>, open)
    BY <2>2, EventFacts
  <2>7. Reports(a, [thread |-> u, events |-> <<LaunchedEvent(a, b, m, ws)>>])
    BY <1>1, <1>11, <2>1, <2>3, <2>4, <2>5 DEF ThreadStarts
  <2>8. Reported(a)
    BY <2>6, <2>7, ReportsReported
  <2>9. UNCHANGED BesidesThreads /\ UNCHANGED asked /\ open' = open /\ notices' = [notices EXCEPT ![a] = <<>>]
    BY <1>11 DEF ThreadStarts
  <2>10. Noticed(<<>>, open)
    BY DEF Noticed
  <2>11. NoticesInv'
    BY <1>6, <2>9, <2>10
  <2> QED BY <1>3, <1>5, <2>8, <2>9, <2>11
<1> QED BY <1>8, <1>9, <1>10, <1>11 DEF ThreadStep

-----------------------------------------------------------------------------
(* macOS's steps.                                                          *)

(* What the focus's moving, a window's closing and an application's        *)
(* quitting have in common.                                                *)
MacMoved ==
    /\ MacInv' /\ NoticesInv' /\ Batches(edges, open)' /\ open' \subseteq open
    /\ \A z : LeadOn(z, edges, mac.front) => LeadOn(z, edges', mac'.front)
    /\ wake' \in BOOLEAN /\ (wake' \/ (wake' = wake /\ KeyWindow' = KeyWindow))

LEMMA MacKeeps ==
    ASSUME Inv, MacMoved, NEW es, Told(es, open'), inbox' = inbox \o es,
           thread' \in [App -> Threads], LayoutInv', UserInv', UNCHANGED <<resolved, asked, tracker>>
    PROVE  Inv'
<1>1. PICK o, p, s, u, t : o = open /\ p = open' /\ s = inbox /\ u = inbox' /\ t = tracker
  OBVIOUS
<1>2. u = s \o es /\ Facts(s, p) /\ Facts(es, p) /\ OfThread(es) /\ p \subseteq o
  <2>1. Facts(s, o) /\ p \subseteq o
    BY <1>1 DEF Inv, WireInv, MacMoved
  <2> QED BY <1>1, <2>1, FactsFewer DEF Told
<1>3. /\ Facts(u, p)
      /\ \A x, y : Leads(x, s, y) => Leads(x, u, y)
      /\ \A k : (Mute(s) => Mute(u)) /\ (Tells(s, k) => Tells(u, k))
  BY <1>2, ThreadTells
<1>4. WireInv'
  BY <1>1, <1>3 DEF Inv, WireInv, MacMoved
<1>5. ThreadInv'
  <2>1. asked \in [App -> Seq(Requests)] /\ \A a \in App : Asked(asked[a], a, o)
    BY <1>1 DEF Inv, ThreadInv, AskedInv
  <2>2. \A a \in App : Asked(asked[a], a, p)
    BY <1>2, <2>1, AskedFewer
  <2>3. AskedInv'
    BY <1>1, <2>1, <2>2 DEF AskedInv
  <2> QED BY <2>3 DEF ThreadInv, MacMoved
<1>6. FrontInv'
  <2>1. PICK z : Leads(t.globalFront, s, z) /\ LeadOn(z, edges, mac.front)
    BY <1>1 DEF Inv, FrontInv
  <2>2. Leads(t.globalFront, u, z) /\ LeadOn(z, edges', mac'.front)
    BY <1>3, <2>1 DEF MacMoved
  <2> QED BY <1>1, <2>2 DEF FrontInv
<1>7. KeyInv'
  <2>1. CASE wake'
    BY <2>1 DEF KeyInv, Keyed
  <2>2. CASE wake' = wake /\ KeyWindow' = KeyWindow
    <3>1. PICK k, w, r : k = KeyWindow /\ w = wake /\ r = resolved
      OBVIOUS
    <3>2. Keyed(k, w, r, s, t)
      BY <1>1, <3>1 DEF Inv, KeyInv
    <3>3. Keyed(k, w, r, u, t)
      BY <1>3, <3>2 DEF Keyed
    <3>4. KeyWindow' = k /\ wake' = w /\ resolved' = r /\ inbox' = u /\ tracker' = t
      BY <1>1, <2>2, <3>1
    <3> QED BY <3>3, <3>4 DEF KeyInv
  <2> QED BY <2>1, <2>2 DEF MacMoved
<1>8. Sound(tracker)'
  BY DEF Inv
<1> QED BY <1>4, <1>5, <1>6, <1>7, <1>8 DEF Inv, MacMoved

LEMMA KeyMoves ==
    ASSUME Inv, NEW w \in open, BecomesKey(w)
    PROVE  MacMoved
<1>1. PICK o, es, f, a, ks, ms :
        /\ o = open /\ es = edges /\ f = mac.front /\ a = AppOf[w]
        /\ ks = [mac.key EXCEPT ![a] = w]
        /\ ms = IF w \in Panels THEN mac.main ELSE [mac.main EXCEPT ![a] = w]
  OBVIOUS
<1>2. /\ mac \in Macs /\ o \subseteq Window /\ open' = o
      /\ \A b \in App : Owns(b, mac.main[b], o) /\ Owns(b, mac.key[b], o)
  BY <1>1 DEF Inv, MacInv, BecomesKey
<1>3. w \in o /\ w \in Window /\ a \in App /\ f \in App /\ w # NoWindow
  BY <1>1, <1>2, TrackerAssumption DEF Macs
<1>4. mac' = [front |-> a, main |-> ms, key |-> ks]
  BY <1>1 DEF BecomesKey
<1>5. MacInv'
  <2>1. ks \in [App -> Window \cup {NoWindow}] /\ \A b \in App : ks[b] = IF b = a THEN w ELSE mac.key[b]
    BY <1>1, <1>2, <1>3 DEF Macs
  <2>2. /\ ms \in [App -> Managed \cup {NoWindow}]
        /\ \A b \in App : ms[b] = mac.main[b] \/ (b = a /\ ms[b] = w)
    <3>1. CASE w \in Panels
      BY <1>1, <1>2, <3>1 DEF Macs
    <3>2. CASE w \notin Panels
      <4>1. w \in Managed /\ mac.main \in [App -> Managed \cup {NoWindow}]
        BY <1>2, <1>3, <3>2 DEF Managed, Macs
      <4>2. ms = [mac.main EXCEPT ![a] = w]
        BY <1>1, <3>2
      <4> QED BY <1>3, <4>1, <4>2
    <3> QED BY <3>1, <3>2
  <2>3. mac' \in Macs
    BY <1>3, <1>4, <2>1, <2>2 DEF Macs
  <2>4. Owns(a, w, o)
    BY <1>1, <1>3 DEF Owns
  <2>5. \A b \in App : Owns(b, ms[b], o) /\ Owns(b, ks[b], o)
    BY <1>2, <2>1, <2>2, <2>4
  <2>6. mac'.main = ms /\ mac'.key = ks
    BY <1>4
  <2> QED BY <1>2, <2>3, <2>5, <2>6 DEF MacInv
<1>6. NoticesInv'
  <2>1. PICK ns : ns = notices
    OBVIOUS
  <2>2. \A b \in App : Noticed(ns[b], o)
    BY <1>1, <2>1 DEF Inv, ThreadInv, NoticesInv
  <2> DEFINE activation(b) == IF f # a /\ b \in {a, f} THEN Posted(ns[b], "activation", NoWindow) ELSE ns[b]
             put(b) == IF b = a /\ ms # mac.main THEN Posted(activation(b), "main", NoWindow)
                       ELSE activation(b)
  <2>3. notices' = [b \in App |-> put(b)]
    BY <1>1, <2>1 DEF BecomesKey
  <2>4. ASSUME NEW b \in App PROVE Noticed(activation(b), o)
    BY <2>2, PostedOK
  <2> HIDE DEF activation
  <2>5. ASSUME NEW b \in App PROVE Noticed(put(b), o)
    BY <2>4, PostedOK
  <2> HIDE DEF put
  <2>6. \A b \in App : put(b) \in Seq(Notices)
    BY <2>5 DEF Noticed
  <2> QED BY <1>2, <2>3, <2>5, <2>6 DEF NoticesInv
<1>7. Batches(edges, open)' /\ \A z : LeadOn(z, edges, mac.front) => LeadOn(z, edges', mac'.front)
  <2>1. Batches(es, o)
    BY <1>1 DEF Inv, WireInv
  <2>2. mac'.front = a /\ edges = es /\ mac.front = f
    BY <1>1, <1>4
  <2>3. CASE f = a
    <3>1. edges' = es
      BY <1>1, <2>3 DEF BecomesKey
    <3> QED BY <1>2, <2>1, <2>2, <2>3, <3>1
  <2>4. CASE f # a
    <3> DEFINE up   == AppEvent("globallyActivated", a)
               down == AppEvent("globallyDeactivated", f)
    <3>1. edges' = Append(es, <<up, down>>) \/ edges' = Append(es, <<down, up>>)
      BY <1>1, <2>4 DEF BecomesKey
    <3>2. /\ Facts(<<up, down>>, o) /\ Mute(<<up, down>>)
          /\ Facts(<<down, up>>, o) /\ Mute(<<down, up>>)
      <4>1. Fact(up, o) /\ Fact(down, o) /\ up.kind # "serverFocus" /\ down.kind # "serverFocus"
        BY <1>3, EventFacts
      <4> QED BY <4>1, TwoFacts
    <3>3. Leads(f, <<up, down>>, a) /\ Leads(f, <<down, up>>, a)
      BY <1>3, <2>4, SwitchLeads
    <3> HIDE DEF up, down
    <3>4. PICK switch : /\ edges' = Append(es, switch) /\ Facts(switch, o) /\ Mute(switch)
                        /\ Leads(f, switch, a)
      BY <3>1, <3>2, <3>3
    <3>5. es \in Seq(Seq(Events)) /\ switch \in Seq(Events)
      BY <2>1, <3>4 DEF Batches, Facts
    <3>6. ASSUME NEW z, LeadOn(z, es, f) PROVE LeadOn(z, Append(es, switch), a)
      BY <3>4, <3>5, <3>6, BatchAdded
    <3>7. Batches(Append(es, switch), o)
      BY <2>1, <3>4, <3>5 DEF Batches
    <3> QED BY <1>2, <2>2, <3>4, <3>6, <3>7
  <2> QED BY <2>3, <2>4
<1>8. wake' \in BOOLEAN /\ (wake' \/ (wake' = wake /\ KeyWindow' = KeyWindow))
  <2>1. wake' = (wake \/ mac' # mac)
    BY DEF BecomesKey
  <2>2. wake \in BOOLEAN
    BY DEF Inv, WireInv
  <2>3. CASE mac' = mac
    <3>1. wake' = wake
      BY <2>1, <2>2, <2>3
    <3> QED BY <2>2, <2>3, <3>1 DEF KeyWindow
  <2>4. CASE mac' # mac
    BY <2>1, <2>4
  <2> QED BY <2>3, <2>4
<1> QED BY <1>1, <1>2, <1>5, <1>6, <1>7, <1>8 DEF MacMoved

LEMMA UserActed ==
    ASSUME UserInv, user.acts < user.how.acts, user' = [user EXCEPT !.acts = @ + 1],
           sentBack' \in Managed \cup {NoWindow}, cycled' \in Managed \cup {NoWindow}
    PROVE  UserInv'
<1>1. PICK u \in [acts : Nat, how : Scenarios] : u = user
  BY DEF UserInv
<1>2. u.acts \in Nat /\ u.how \in Scenarios /\ u.how.acts \in Nat
  BY ReportsAssumption DEF Scenario
<1>3. PICK v : v = [u EXCEPT !.acts = @ + 1]
  OBVIOUS
<1>4. v \in [acts : Nat, how : Scenarios] /\ v.acts = u.acts + 1 /\ v.how = u.how
  BY <1>2, <1>3
<1>5. v.acts <= v.how.acts
  BY <1>1, <1>2, <1>4
<1> QED BY <1>1, <1>3, <1>4, <1>5 DEF UserInv

LEMMA UserFocusesKeeps ==
    ASSUME Inv, NEW w \in Window, UserFocuses(w)
    PROVE  Inv'
<1> USE DEF threadVars, layoutVars
<1>1. MacMoved
  BY KeyMoves DEF UserFocuses
<1>2. NoWindow \in Managed \cup {NoWindow} /\ (w \in Managed => w \in Managed \cup {NoWindow})
  OBVIOUS
<1>3. cycled' \in Managed \cup {NoWindow}
  <2>1. (cycled' = w /\ w \in Managed) \/ cycled' = NoWindow
    BY DEF UserFocuses
  <2> QED BY <2>1
<1>4. UserInv'
  BY <1>3, UserActed DEF UserFocuses, Inv
<1>5. inbox' = inbox \o <<>>
  BY DEF UserFocuses, Inv, WireInv, Facts
<1>6. LayoutInv'
  BY DEF UserFocuses, Inv, LayoutInv
<1>7. thread' \in [App -> Threads] /\ UNCHANGED <<resolved, asked, tracker>>
  BY DEF UserFocuses, Inv, ThreadInv
<1>8. Told(<<>>, open')
  BY ToldNone
<1> QED BY <1>1, <1>4, <1>5, <1>6, <1>7, <1>8, MacKeeps

LEMMA ClosesMoves ==
    ASSUME Inv, NEW w \in Window, Closes(w)
    PROVE  MacMoved
<1>1. PICK o, p, a, left :
        o = open /\ p = o \ {w} /\ a = AppOf[w] /\ left = { v \in o \ {w} : AppOf[v] = a }
  OBVIOUS
<1>2. /\ mac \in Macs /\ o \subseteq Window /\ open' = p /\ p \subseteq o /\ w \notin p
      /\ \A b \in App : Owns(b, mac.main[b], o) /\ Owns(b, mac.key[b], o)
  BY <1>1 DEF Inv, MacInv, Closes
<1>3. a \in App /\ w \in o
  BY <1>1, TrackerAssumption DEF Closes
<1> DEFINE Other(cur, cands) ==
             IF cur # w THEN {cur} ELSE IF cands = {} THEN {NoWindow} ELSE cands
<1>4. PICK m \in Other(mac.main[a], left \cap Managed) :
      \E k \in Other(mac.key[a], IF m = NoWindow THEN left ELSE {m}) :
        /\ mac' = [mac EXCEPT !.main = [@ EXCEPT ![a] = m], !.key = [@ EXCEPT ![a] = k]]
        /\ LET closed == Posted(notices[a], "closed", w) IN
           notices' = [notices EXCEPT ![a] =
               IF m \in {mac.main[a], NoWindow} THEN closed ELSE Posted(closed, "main", NoWindow)]
  BY <1>1 DEF Closes
<1>5. PICK k \in Other(mac.key[a], IF m = NoWindow THEN left ELSE {m}) :
        /\ mac' = [mac EXCEPT !.main = [@ EXCEPT ![a] = m], !.key = [@ EXCEPT ![a] = k]]
        /\ LET closed == Posted(notices[a], "closed", w) IN
           notices' = [notices EXCEPT ![a] =
               IF m \in {mac.main[a], NoWindow} THEN closed ELSE Posted(closed, "main", NoWindow)]
  BY <1>4
<1>6. m \in Managed \cup {NoWindow} /\ Owns(a, m, p)
  <2>1. mac.main[a] \in Managed \cup {NoWindow} /\ Owns(a, mac.main[a], o)
    BY <1>2, <1>3 DEF Macs
  <2>2. m = NoWindow \/ (m = mac.main[a] /\ m # w) \/ (m \in Managed /\ m \in left)
    BY <1>4
  <2> QED BY <1>1, <2>1, <2>2 DEF Owns
<1>7. k \in Window \cup {NoWindow} /\ Owns(a, k, p)
  <2>1. mac.key[a] \in Window \cup {NoWindow} /\ Owns(a, mac.key[a], o)
    BY <1>2, <1>3 DEF Macs
  <2>2. k = NoWindow \/ (k = mac.key[a] /\ k # w) \/ k \in left \/ k = m
    BY <1>5
  <2>3. m \in Window \cup {NoWindow} /\ (k \in left => k \in Window)
    BY <1>1, <1>2, <1>6 DEF Managed
  <2> QED BY <1>1, <1>6, <2>1, <2>2, <2>3 DEF Owns
<1>8. MacInv'
  <2>1. PICK ms, ks : ms = [mac.main EXCEPT ![a] = m] /\ ks = [mac.key EXCEPT ![a] = k]
    OBVIOUS
  <2>2. /\ ms \in [App -> Managed \cup {NoWindow}]
        /\ \A b \in App : (b = a /\ ms[b] = m) \/ (b # a /\ ms[b] = mac.main[b])
    BY <1>2, <1>3, <1>6, <2>1 DEF Macs
  <2>3. /\ ks \in [App -> Window \cup {NoWindow}]
        /\ \A b \in App : (b = a /\ ks[b] = k) \/ (b # a /\ ks[b] = mac.key[b])
    BY <1>2, <1>3, <1>7, <2>1 DEF Macs
  <2>4. mac' \in Macs /\ mac'.main = ms /\ mac'.key = ks
    <3>1. mac' = [mac EXCEPT !.main = ms, !.key = ks]
      BY <1>2, <1>5, <2>1 DEF Macs
    <3> QED BY <1>2, <2>2, <2>3, <3>1 DEF Macs
  <2>5. \A b \in App : b # a => Owns(b, mac.main[b], p) /\ Owns(b, mac.key[b], p)
    BY <1>1, <1>2 DEF Owns
  <2> QED BY <1>2, <1>6, <1>7, <2>2, <2>3, <2>4, <2>5 DEF MacInv
<1>9. NoticesInv'
  <2>1. PICK q, ns : q = notices[a] /\ ns = notices
    OBVIOUS
  <2>2. /\ ns \in [App -> Seq(Notices)] /\ q = ns[a] /\ \A b \in App : Noticed(ns[b], o)
    BY <1>1, <2>1 DEF Inv, ThreadInv, NoticesInv
  <2>3. \A b \in App : Noticed(ns[b], p)
    BY <1>2, <2>2, NoticedFewer
  <2>4. PICK closed : closed = Posted(q, "closed", w)
    OBVIOUS
  <2>5. Noticed(closed, p)
    BY <1>2, <1>3, <2>2, <2>3, <2>4, PostedOK
  <2>6. Noticed(Posted(closed, "main", NoWindow), p)
    BY <2>5, PostedOK
  <2>7. notices' = [ns EXCEPT ![a] = closed] \/ notices' = [ns EXCEPT ![a] = Posted(closed, "main", NoWindow)]
    BY <1>5, <2>1, <2>4
  <2>8. PICK r : notices' = [ns EXCEPT ![a] = r] /\ Noticed(r, p)
    BY <2>5, <2>6, <2>7
  <2>9. r \in Seq(Notices)
    BY <2>8 DEF Noticed
  <2> QED BY <1>2, <1>3, <2>2, <2>3, <2>8, <2>9 DEF NoticesInv
<1>10. Batches(edges, open)' /\ mac'.front = mac.front /\ edges' = edges
  <2>1. Batches(edges, p)
    BY <1>1, <1>2, FactsFewer DEF Inv, WireInv, Batches
  <2>2. edges' = edges
    BY DEF Closes
  <2>3. mac'.front = mac.front
    BY <1>2, <1>5 DEF Macs
  <2> QED BY <1>2, <2>1, <2>2, <2>3
<1>11. wake' = TRUE
  BY DEF Closes
<1> QED BY <1>1, <1>2, <1>8, <1>9, <1>10, <1>11 DEF MacMoved

LEMMA ClosesKeeps ==
    ASSUME Inv, NEW w \in Window, Closes(w)
    PROVE  Inv'
<1> USE DEF threadVars, layoutVars
<1>1. MacMoved
  BY ClosesMoves
<1>2. UserInv'
  BY UserActed DEF Closes, Inv
<1>3. inbox' = inbox \o <<>>
  BY DEF Closes, Inv, WireInv, Facts
<1>4. LayoutInv'
  BY DEF Closes, Inv, LayoutInv
<1>5. thread' \in [App -> Threads] /\ UNCHANGED <<resolved, asked, tracker>>
  BY DEF Closes, Inv, ThreadInv
<1>6. Told(<<>>, open')
  BY ToldNone
<1> QED BY <1>1, <1>2, <1>3, <1>4, <1>5, <1>6, MacKeeps

LEMMA QuitsMoves ==
    ASSUME Inv, NEW a \in App, Quits(a)
    PROVE  MacMoved
<1>1. PICK o, p, f, es, ns :
        o = open /\ p = o \ WindowsOf(a) /\ f = mac.front /\ es = edges /\ ns = notices
  OBVIOUS
<1>2. /\ mac \in Macs /\ o \subseteq Window /\ open' = p /\ p \subseteq o /\ f \in App
      /\ \A b \in App : Owns(b, mac.main[b], o) /\ Owns(b, mac.key[b], o)
  BY <1>1 DEF Inv, MacInv, Quits, Macs
<1>3. Gone(a, p) /\ \A v \in o : AppOf[v] # a => v \in p
  BY <1>1 DEF Gone, WindowsOf
<1> DEFINE gone == AppEvent("terminated", a)
<1>4. PICK b \in App :
        /\ f = a \/ b = f
        /\ mac' = [front |-> b, main |-> [mac.main EXCEPT ![a] = NoWindow],
                   key |-> [mac.key EXCEPT ![a] = NoWindow]]
        /\ IF b = f
           THEN edges' = Append(es, <<gone>>) /\ notices' = ns
           ELSE /\ \/ edges' = es \o <<<<AppEvent("globallyActivated", b),
                                          AppEvent("globallyDeactivated", a)>>, <<gone>>>>
                   \/ edges' = es \o <<<<AppEvent("globallyDeactivated", a),
                                          AppEvent("globallyActivated", b)>>, <<gone>>>>
                /\ notices' = [ns EXCEPT ![b] = Posted(@, "activation", NoWindow)]
  <2>1. PICK b \in IF f = a THEN { c \in App \ {a} : WindowsOf(c) # {} } ELSE {f} :
        /\ mac' = [front |-> b, main |-> [mac.main EXCEPT ![a] = NoWindow],
                   key |-> [mac.key EXCEPT ![a] = NoWindow]]
        /\ IF b = f
           THEN edges' = Append(es, <<gone>>) /\ notices' = ns
           ELSE /\ \E switch \in {<<AppEvent("globallyActivated", b), AppEvent("globallyDeactivated", a)>>,
                                  <<AppEvent("globallyDeactivated", a), AppEvent("globallyActivated", b)>>} :
                      edges' = es \o <<switch, <<gone>>>>
                /\ notices' = [ns EXCEPT ![b] = Posted(@, "activation", NoWindow)]
    BY <1>1 DEF Quits
  <2>2. b \in App /\ (f = a \/ b = f)
    BY <1>2, <2>1
  <2> HIDE DEF gone
  <2> QED BY <2>1, <2>2
<1>5. MacInv'
  <2>1. PICK ms, ks : ms = [mac.main EXCEPT ![a] = NoWindow] /\ ks = [mac.key EXCEPT ![a] = NoWindow]
    OBVIOUS
  <2>2. /\ ms \in [App -> Managed \cup {NoWindow}]
        /\ \A c \in App : (c = a /\ ms[c] = NoWindow) \/ (c # a /\ ms[c] = mac.main[c])
    BY <1>2, <2>1 DEF Macs
  <2>3. /\ ks \in [App -> Window \cup {NoWindow}]
        /\ \A c \in App : (c = a /\ ks[c] = NoWindow) \/ (c # a /\ ks[c] = mac.key[c])
    BY <1>2, <2>1 DEF Macs
  <2>4. mac' = [front |-> b, main |-> ms, key |-> ks]
    BY <1>4, <2>1
  <2>5. mac' \in Macs /\ mac'.main = ms /\ mac'.key = ks
    BY <2>2, <2>3, <2>4 DEF Macs
  <2>6. \A c \in App : c # a => Owns(c, mac.main[c], p) /\ Owns(c, mac.key[c], p)
    BY <1>2, <1>3 DEF Owns
  <2>7. Owns(a, NoWindow, p)
    BY DEF Owns
  <2>8. \A c \in App : Owns(c, ms[c], p) /\ Owns(c, ks[c], p)
    BY <2>2, <2>3, <2>6, <2>7
  <2> QED BY <1>2, <2>5, <2>8 DEF MacInv
<1>6. NoticesInv'
  <2>1. ns \in [App -> Seq(Notices)] /\ \A c \in App : Noticed(ns[c], o)
    BY <1>1 DEF Inv, ThreadInv, NoticesInv
  <2>2. \A c \in App : Noticed(ns[c], p)
    BY <1>2, <2>1, NoticedFewer
  <2>3. CASE notices' = ns
    BY <1>2, <2>1, <2>2, <2>3 DEF NoticesInv
  <2>4. CASE notices' = [ns EXCEPT ![b] = Posted(@, "activation", NoWindow)]
    <3>1. PICK r : r = Posted(ns[b], "activation", NoWindow)
      OBVIOUS
    <3>2. Noticed(r, p)
      BY <2>2, <3>1, PostedOK
    <3>3. notices' = [ns EXCEPT ![b] = r] /\ r \in Seq(Notices)
      BY <2>4, <3>1, <3>2 DEF Noticed
    <3> QED BY <1>2, <2>1, <2>2, <3>2, <3>3 DEF NoticesInv
  <2> QED BY <1>4, <2>3, <2>4
<1>7. Batches(edges, open)' /\ \A z : LeadOn(z, es, f) => LeadOn(z, edges', b)
  <2>1. Batches(es, p) /\ es \in Seq(Seq(Events))
    BY <1>1, <1>2, FactsFewer DEF Inv, WireInv, Batches
  <2>2. /\ Facts(<<gone>>, p) /\ <<gone>> \in Seq(Events) /\ Leads(b, <<gone>>, b) /\ Mute(<<gone>>)
    <3>1. Told(<<gone>>, p)
      BY <1>3, EventFacts
    <3> HIDE DEF gone
    <3>2. Facts(<<gone>>, p) /\ OfThread(<<gone>>) /\ <<gone>> \in Seq(Events)
      BY <3>1 DEF Told, Facts
    <3> QED BY <3>2, QuietLeads DEF OfThread, Mute
  <2>3. PICK g : g = <<gone>>
    OBVIOUS
  <2>4. ASSUME NEW fs, NEW s, Batches(fs, p), Facts(s, p), Mute(s) PROVE Batches(Append(fs, s), p)
    <3>1. fs \in Seq(Seq(Events)) /\ s \in Seq(Events)
      BY <2>4 DEF Batches, Facts
    <3> QED BY <2>4, <3>1 DEF Batches
  <2>5. CASE b = f
    <3>1. edges' = Append(es, g)
      BY <1>4, <2>3, <2>5
    <3>2. Batches(Append(es, g), p)
      BY <2>1, <2>2, <2>3, <2>4
    <3>3. ASSUME NEW z, LeadOn(z, es, f) PROVE LeadOn(z, Append(es, g), b)
      BY <2>1, <2>2, <2>3, <2>5, <3>3, BatchAdded
    <3> QED BY <1>2, <3>1, <3>2, <3>3
  <2>6. CASE b # f
    <3>0. f = a
      BY <1>4, <2>6
    <3> DEFINE up   == AppEvent("globallyActivated", b)
               down == AppEvent("globallyDeactivated", f)
    <3>1. Fact(up, p) /\ Fact(down, p) /\ up.kind # "serverFocus" /\ down.kind # "serverFocus"
      BY <1>2, EventFacts
    <3>2. /\ Facts(<<up, down>>, p) /\ Mute(<<up, down>>)
          /\ Facts(<<down, up>>, p) /\ Mute(<<down, up>>)
      BY <3>1, TwoFacts
    <3>3. Leads(f, <<up, down>>, b) /\ Leads(f, <<down, up>>, b)
      BY <1>2, <2>6, SwitchLeads
    <3>4. edges' = es \o <<<<up, down>>, g>> \/ edges' = es \o <<<<down, up>>, g>>
      BY <1>4, <2>3, <2>6, <3>0
    <3> HIDE DEF up, down
    <3>5. PICK switch : /\ edges' = es \o <<switch, g>> /\ Facts(switch, p) /\ Mute(switch)
                        /\ Leads(f, switch, b)
      BY <3>2, <3>3, <3>4
    <3>6. switch \in Seq(Events) /\ g \in Seq(Events)
      BY <2>2, <2>3, <3>5 DEF Facts
    <3>7. es \o <<switch, g>> = Append(Append(es, switch), g)
      BY <2>1, <3>6
    <3>8. Batches(Append(es, switch), p) /\ Append(es, switch) \in Seq(Seq(Events))
      BY <2>1, <2>4, <3>5, <3>6
    <3>9. Batches(Append(Append(es, switch), g), p)
      BY <2>2, <2>3, <2>4, <3>8
    <3>10. ASSUME NEW z, LeadOn(z, es, f) PROVE LeadOn(z, Append(Append(es, switch), g), b)
      <4>1. LeadOn(z, Append(es, switch), b)
        BY <2>1, <3>5, <3>6, <3>10, BatchAdded
      <4> QED BY <2>2, <2>3, <3>6, <3>8, <4>1, BatchAdded
    <3> QED BY <1>2, <3>5, <3>7, <3>9, <3>10
  <2> QED BY <2>5, <2>6
<1>8. mac'.front = b /\ wake' = TRUE
  BY <1>4 DEF Quits
<1> QED BY <1>1, <1>2, <1>5, <1>6, <1>7, <1>8 DEF MacMoved

LEMMA QuitsKeeps ==
    ASSUME Inv, NEW a \in App, Quits(a)
    PROVE  Inv'
<1> USE DEF threadVars, layoutVars
<1>1. MacMoved
  BY QuitsMoves
<1>2. UserInv'
  BY UserActed DEF Quits, Inv
<1>3. inbox' = inbox \o <<>>
  BY DEF Quits, Inv, WireInv, Facts
<1>4. LayoutInv'
  BY DEF Quits, Inv, LayoutInv
<1>5. thread' \in [App -> Threads] /\ UNCHANGED <<resolved, asked, tracker>>
  BY DEF Quits, Inv, ThreadInv
<1>6. Told(<<>>, open')
  BY ToldNone
<1> QED BY <1>1, <1>2, <1>3, <1>4, <1>5, <1>6, MacKeeps

-----------------------------------------------------------------------------
(* The raise, the resolver, the controller, and what the layout alone does.*)

LEMMA RaisedBy ==
    ASSUME Inv, ThreadRaises
    PROVE  Inv'
<1> USE DEF macVars, historyVars
<1>1. PICK w, a, th : w = raise.window /\ a = AppOf[w] /\ th = thread[a]
  OBVIOUS
<1>2. /\ LayoutInv' /\ UserInv' /\ UNCHANGED <<resolved, asked, tracker>>
  BY DEF Inv, LayoutInv, UserInv, ThreadRaises, NoRaise
<1>3. CASE UNCHANGED <<macVars, thread, inbox>>
  <2>1. MacMoved
    BY <1>3 DEF Inv, MacInv, ThreadInv, NoticesInv, WireInv, MacMoved, KeyWindow
  <2>2. inbox' = inbox \o <<>>
    BY <1>3 DEF Inv, WireInv, Facts
  <2>3. thread' \in [App -> Threads]
    BY <1>3 DEF Inv, ThreadInv
  <2>4. Told(<<>>, open')
    BY ToldNone
  <2> QED BY <1>2, <2>1, <2>2, <2>3, <2>4, MacKeeps
<1>4. CASE ~(w \notin open \/ (mac.front = a /\ th.main = w))
  <2> DEFINE waiting == IF mac.front = a THEN th ELSE [th EXCEPT !.activation = Loudness(raise.quiet)]
  <2>1. /\ w \in open /\ BecomesKey(w)
        /\ Reports(a, IF w = th.main THEN [thread |-> waiting, events |-> <<>>]
                      ELSE [thread |-> [waiting EXCEPT !.main = w],
                            events |-> <<MainEvent(a, w, raise.quiet)>>])
    BY <1>1, <1>4 DEF ThreadRaises
  <2>2. w \in Window /\ a \in App /\ th \in Threads /\ thread \in [App -> Threads] /\ open' = open
    BY <1>1, <2>1, TrackerAssumption DEF Inv, MacInv, ThreadInv, BecomesKey
  <2>3. PICK b \in BOOLEAN : b = raise.quiet
    BY DEF Inv, LayoutInv
  <2>4. waiting \in Threads
    BY <2>2 DEF Threads, Loudness
  <2>5. PICK u \in Threads : u = waiting
    BY <2>4
  <2> HIDE DEF waiting
  <2>6. MacMoved
    BY <2>1, KeyMoves
  <2>7. [u EXCEPT !.main = w] \in Threads
    BY <2>2 DEF Threads
  <2>8. Told(<<MainEvent(a, w, b)>>, open') /\ Told(<<>>, open')
    <3>1. PICK p : p = open'
      OBVIOUS
    <3> QED BY <2>2, <3>1, EventFacts, ToldNone
  <2>9. \/ Reports(a, [thread |-> u, events |-> <<>>])
        \/ Reports(a, [thread |-> [u EXCEPT !.main = w], events |-> <<MainEvent(a, w, b)>>])
    BY <2>1, <2>3, <2>5
  <2>10. PICK v, es : v \in Threads /\ Told(es, open') /\ Reports(a, [thread |-> v, events |-> es])
    BY <2>7, <2>8, <2>9
  <2>11. inbox' = inbox \o es /\ thread' \in [App -> Threads]
    BY <2>2, <2>10 DEF Reports, Tell
  <2> QED BY <1>2, <2>6, <2>10, <2>11, MacKeeps
<1> QED BY <1>1, <1>3, <1>4 DEF ThreadRaises

LEMMA ReadsKeeps ==
    ASSUME Inv, ResolverReads
    PROVE  Inv'
<1> USE DEF threadVars, layoutVars, historyVars
<1>1. /\ wake' = FALSE /\ resolved' = [read |-> TRUE, window |-> KeyWindow]
      /\ UNCHANGED <<mac, open, edges, notices, thread, asked, inbox, tracker>>
      /\ UNCHANGED <<known, shown, selected, switching, raise, echo, user, sentBack, cycled>>
  BY DEF ResolverReads
<1>2. KeyWindow \in Window \cup {NoWindow}
  BY DEF Inv, MacInv, Macs, KeyWindow
<1>3. Sound(tracker)' /\ MacInv' /\ LayoutInv' /\ UserInv' /\ FrontInv' /\ ThreadInv'
  BY <1>1 DEF Inv, MacInv, LayoutInv, UserInv, FrontInv, ThreadInv, AskedInv, NoticesInv
<1>4. WireInv'
  BY <1>1, <1>2 DEF Inv, WireInv
<1>5. KeyInv'
  <2>1. KeyWindow' = KeyWindow /\ resolved'.read = TRUE /\ resolved'.window = KeyWindow
    BY <1>1 DEF KeyWindow
  <2> QED BY <2>1 DEF KeyInv, Keyed
<1> QED BY <1>3, <1>4, <1>5 DEF Inv

LEMMA PublishesKeeps ==
    ASSUME Inv, ResolverPublishes
    PROVE  Inv'
<1> USE DEF macVars, threadVars, layoutVars, historyVars
<1>1. /\ resolved.read /\ resolved' = NotRead
      /\ UNCHANGED <<mac, open, edges, notices, wake, thread, asked, tracker>>
      /\ UNCHANGED <<known, shown, selected, switching, raise, echo, user, sentBack, cycled>>
  BY DEF ResolverPublishes
<1>2. Sound(tracker)' /\ MacInv' /\ LayoutInv' /\ UserInv' /\ ThreadInv'
  BY <1>1 DEF Inv, MacInv, LayoutInv, UserInv, ThreadInv, AskedInv, NoticesInv
<1>3. PICK o, s, r, k, w, t :
        o = open /\ s = inbox /\ r = resolved /\ k = KeyWindow /\ w = wake /\ t = tracker
  OBVIOUS
<1>4. /\ Facts(s, o) /\ r \in [read : BOOLEAN, window : Window \cup {NoWindow}] /\ r.read
      /\ Keyed(k, w, r, s, t)
  BY <1>1, <1>3 DEF Inv, WireInv, KeyInv
<1>5. KeyWindow' = k /\ wake' = w /\ tracker' = t /\ open' = o
  BY <1>1, <1>3 DEF KeyWindow
<1>6. NotRead \in [read : BOOLEAN, window : Window \cup {NoWindow}] /\ NotRead.read = FALSE
  BY DEF NotRead
<1>7. CASE w \/ r.window = NoWindow
  <2>1. inbox' = s
    BY <1>3, <1>7 DEF ResolverPublishes
  <2>2. WireInv' /\ FrontInv'
    BY <1>1, <1>3, <1>6, <2>1 DEF Inv, WireInv, FrontInv
  <2>3. k \in Managed => w
    <3>1. NoWindow \notin Managed
      BY TrackerAssumption DEF Managed
    <3> QED BY <1>4, <1>7, <3>1 DEF Keyed
  <2>4. KeyInv'
    BY <1>5, <2>3 DEF KeyInv, Keyed
  <2> QED BY <1>2, <2>2, <2>4 DEF Inv
<1>8. CASE ~(w \/ r.window = NoWindow)
  <2>1. PICK e : e = WindowEvent("serverFocus", r.window)
    OBVIOUS
  <2>2. /\ Fact(e, o) /\ e.kind = "serverFocus" /\ e.window = r.window
    BY <1>4, <1>8, <2>1, WindowFacts
  <2>3. inbox' = s \o <<e>>
    BY <1>3, <1>8, <2>1 DEF ResolverPublishes, Tell
  <2>4. Facts(<<e>>, o) /\ <<e>> \in Seq(Events) /\ e \in Events /\ s \in Seq(Events)
    BY <1>4, <2>2, OneFact DEF Facts, Fact
  <2>5. Facts(s \o <<e>>, o)
    BY <1>4, <2>4, FactsJoined
  <2>6. \A x, y : Leads(x, s, y) => Leads(x, s \o <<e>>, y)
    <3>1. \A y : Leads(y, <<e>>, y)
      <4>1. \A i \in DOMAIN <<e>> : <<e>>[i].kind = "serverFocus"
        BY <2>2
      <4> QED BY <2>4, <4>1, QuietLeads
    <3> QED BY <2>4, <3>1, LeadsJoined
  <2>7. Tells(s \o <<e>>, e.window)
    BY <2>2, <2>4, TellsNow
  <2>8. WireInv'
    BY <1>1, <1>3, <1>6, <2>3, <2>5 DEF Inv, WireInv
  <2>9. FrontInv'
    <3>1. PICK z : Leads(t.globalFront, s, z) /\ LeadOn(z, edges, mac.front)
      BY <1>3 DEF Inv, FrontInv
    <3>2. Leads(t.globalFront, s \o <<e>>, z)
      BY <2>6, <3>1
    <3> QED BY <1>1, <1>5, <2>3, <3>1, <3>2 DEF FrontInv
  <2>10. KeyInv'
    <3>1. k \in Managed => r.window = k
      BY <1>4, <1>8 DEF Keyed
    <3>2. k \in Managed => Tells(s \o <<e>>, k)
      BY <2>2, <2>7, <3>1
    <3> QED BY <1>1, <1>5, <1>6, <2>3, <3>2 DEF KeyInv, Keyed
  <2> QED BY <1>2, <2>8, <2>9, <2>10 DEF Inv
<1> QED BY <1>7, <1>8

LEMMA ForwardsKeeps ==
    ASSUME Inv, ControllerForwards
    PROVE  Inv'
<1> USE DEF threadVars, layoutVars, historyVars
<1>1. /\ edges # <<>> /\ edges' = Tail(edges) /\ inbox' = inbox \o Head(edges)
      /\ UNCHANGED <<mac, open, notices, wake, resolved, thread, asked, tracker>>
      /\ UNCHANGED <<known, shown, selected, switching, raise, echo, user, sentBack, cycled>>
  BY DEF ControllerForwards, Tell
<1>2. Sound(tracker)' /\ MacInv' /\ LayoutInv' /\ UserInv' /\ ThreadInv'
  BY <1>1 DEF Inv, MacInv, LayoutInv, UserInv, ThreadInv, AskedInv, NoticesInv
<1>3. PICK o, s, es, t, h, f :
        o = open /\ s = inbox /\ es = edges /\ t = tracker /\ h = Head(edges) /\ f = mac.front
  OBVIOUS
<1>4. Facts(s, o) /\ Batches(es, o) /\ es # <<>> /\ es \in Seq(Seq(Events)) /\ h = Head(es)
  BY <1>1, <1>3 DEF Inv, WireInv, Batches
<1>5. /\ Tail(es) \in Seq(Seq(Events)) /\ Head(es) = es[1]
      /\ Len(es) \in Nat /\ Len(es) > 0
      /\ DOMAIN es = 1..Len(es) /\ DOMAIN Tail(es) = 1..(Len(es) - 1)
      /\ \A i \in 1..(Len(es) - 1) : Tail(es)[i] = es[i + 1]
  BY <1>4, Tailed
<1>6. 1 \in DOMAIN es /\ \A i \in 1..(Len(es) - 1) : i + 1 \in DOMAIN es
  BY <1>5
<1>7. Batches(Tail(es), o) /\ Facts(h, o) /\ Mute(h)
  BY <1>4, <1>5, <1>6 DEF Batches
<1>8. h \in Seq(Events) /\ s \in Seq(Events)
  BY <1>4, <1>7 DEF Facts
<1>9. Facts(s \o h, o)
  BY <1>4, <1>7, FactsJoined
<1>10. edges' = Tail(es) /\ inbox' = s \o h
  BY <1>1, <1>3
<1>11. WireInv'
  BY <1>1, <1>3, <1>7, <1>9, <1>10 DEF Inv, WireInv
<1>12. FrontInv'
  <2>1. PICK z : Leads(t.globalFront, s, z) /\ LeadOn(z, es, f)
    BY <1>3 DEF Inv, FrontInv
  <2>2. PICK y : Leads(z, h, y) /\ LeadOn(y, Tail(es), f)
    BY <1>4, <2>1, BatchTaken
  <2>3. Leads(t.globalFront, s \o h, y)
    BY <1>8, <2>1, <2>2, LeadsJoined
  <2> QED BY <1>1, <1>3, <1>10, <2>2, <2>3 DEF FrontInv
<1>13. KeyInv'
  <2>1. PICK k : k = KeyWindow /\ k = KeyWindow'
    BY <1>1 DEF KeyWindow
  <2>2. (Mute(s) => Mute(s \o h)) /\ (Tells(s, k) => Tells(s \o h, k))
    BY <1>7, <1>8, MuteJoined
  <2>3. PICK w, r : w = wake /\ r = resolved
    OBVIOUS
  <2>4. Keyed(k, w, r, s, t)
    BY <1>3, <2>1, <2>3 DEF Inv, KeyInv
  <2>5. Keyed(k, w, r, s \o h, t)
    BY <2>2, <2>4 DEF Keyed
  <2>6. wake' = w /\ resolved' = r /\ tracker' = t
    BY <1>1, <1>3, <2>3
  <2> QED BY <1>10, <2>1, <2>5, <2>6 DEF KeyInv
<1> QED BY <1>2, <1>11, <1>12, <1>13 DEF Inv

(* Steps that leave macOS, its reports and the tracker alone.              *)
LEMMA LayoutStepKeeps ==
    ASSUME Inv, LayoutInv', UserInv', UNCHANGED <<macVars, resolved, threadVars, inbox, tracker>>
    PROVE  Inv'
BY DEF Inv, MacInv, WireInv, ThreadInv, AskedInv, NoticesInv, FrontInv, KeyInv, KeyWindow,
       macVars, threadVars

LEMMA RaisesType ==
    ASSUME LayoutInv, NEW w \in Managed, NEW quiet, Raises(w, quiet), quiet \in BOOLEAN
    PROVE  /\ raise' \in [window : Managed \cup {NoWindow}, quiet : BOOLEAN]
           /\ echo' \in [windows : SUBSET Managed, target : Managed \cup {NoWindow}, believed : BOOLEAN]
<1>1. PICK e \in [windows : SUBSET Managed, target : Managed \cup {NoWindow}, believed : BOOLEAN] :
        e = echo
  BY DEF LayoutInv
<1>2. PICK ws : ws = ((IF e.believed THEN e.windows ELSE {}) \cup ({e.target} \ {NoWindow})) \ {w}
  OBVIOUS
<1>3. ws \in SUBSET Managed
  BY <1>2
<1>4. echo' = [windows |-> ws, target |-> w, believed |-> TRUE]
  BY <1>1, <1>2 DEF Raises
<1> QED BY <1>3, <1>4 DEF Raises

LEMMA CommandKeeps ==
    ASSUME Inv, NEW w \in Window, OnCommand(w)
    PROVE  Inv'
<1>1. w \in Managed /\ LayoutInv /\ UserInv
  BY DEF OnCommand, IsStandard, Inv
<1>2. UserInv'
  BY <1>1, UserActed DEF OnCommand
<1>3. PICK b \in BOOLEAN : b = (Home[w] # shown)
  OBVIOUS
<1>4. Raises(w, b)
  BY <1>3 DEF OnCommand
<1>5. LayoutInv'
  <2>1. Home[w] \in Workspace
    BY <1>1, ReportsAssumption
  <2>2. switching' \in BOOLEAN
    BY DEF OnCommand, SwitchLasts
  <2> QED BY <1>1, <1>4, <2>1, <2>2, RaisesType DEF OnCommand, LayoutInv
<1>6. UNCHANGED <<macVars, resolved, threadVars, inbox, tracker>>
  BY DEF OnCommand
<1> QED BY <1>2, <1>5, <1>6, LayoutStepKeeps

LEMMA SettlesKeeps ==
    ASSUME Inv, SwitchEnds \/ EchoLapses
    PROVE  Inv'
<1>1. LayoutInv' /\ UserInv'
  BY DEF SwitchEnds, EchoLapses, Inv, LayoutInv, UserInv, historyVars
<1>2. UNCHANGED <<macVars, resolved, threadVars, inbox, tracker>>
  BY DEF SwitchEnds, EchoLapses
<1> QED BY <1>1, <1>2, LayoutStepKeeps

-----------------------------------------------------------------------------
(* The reactor's steps.                                                    *)

(* The report is not of the end of k.                                      *)
Spares(e, k) ==
    /\ e.kind = "destroyed" => e.window # k
    /\ e.kind = "threadTerminated" => AppOf[k] # e.app

(* The tracker t having taken in the report e is u.                        *)
Follows(t, u, e) ==
    /\ Sound(u) /\ u.globalFront = FrontAfter(t.globalFront, e)
    /\ \A k \in Managed : e.kind # "serverFocus" /\ Spares(e, k) /\ Names(t, k) => Names(u, k)
    /\ e.kind = "serverFocus" /\ e.window \in Managed => Names(u, e.window)

LEMMA UnmovedFollows ==
    ASSUME NEW t, NEW u, NEW e, Unmoved(t, u), u.globalFront = FrontAfter(t.globalFront, e),
           e.kind # "serverFocus"
    PROVE  Follows(t, u, e)
BY DEF Unmoved, Follows, Names

LEMMA EventType ==
    ASSUME NEW e \in Events
    PROVE  /\ e.app \in App /\ e.window \in Window \cup {NoWindow} /\ e.flag \in BOOLEAN
           /\ e.kind = "launched" => e.windows \subseteq Window
BY DEF Events

LEMMA AskKeeps ==
    ASSUME AskedInv, NEW a \in App, NEW request \in Requests,
           request = "terminate" => Gone(a, open), Ask(a, request), open' = open
    PROVE  AskedInv'
<1>1. CASE asked' = asked
  BY <1>1 DEF AskedInv
<1>2. CASE asked' = [asked EXCEPT ![a] = Append(@, request)]
  <2>1. PICK q : q = Append(asked[a], request)
    OBVIOUS
  <2>2. Asked(q, a, open)
    BY <2>1, AskedMore DEF AskedInv
  <2>3. q \in Seq(Requests) /\ asked' = [asked EXCEPT ![a] = q]
    BY <1>2, <2>1, <2>2 DEF Asked
  <2> QED BY <2>2, <2>3 DEF AskedInv
<1> QED BY <1>1, <1>2 DEF Ask

LEMMA AnnouncedLaid ==
    ASSUME LayoutInv, NEW h, FollowsAnnounced(h), SwitchLasts
    PROVE  LayoutInv' /\ tracker' = h.tracker
<1>1. selected' = selected \/ selected' \in Managed
  BY DEF FollowsAnnounced, Selects, Visible, IsStandard
<1>2. switching' \in BOOLEAN
  BY DEF SwitchLasts
<1> QED BY <1>1, <1>2 DEF FollowsAnnounced, LayoutInv

LEMMA SwitchesLaid ==
    ASSUME LayoutInv, NEW w \in Managed, NEW r, SwitchesTo(w, r), SwitchLasts
    PROVE  LayoutInv'
<1>1. PICK target : target = IF IsStandard(r) /\ Home[r] = Home[w] THEN r ELSE w
  OBVIOUS
<1>2. target \in Managed
  BY <1>1 DEF IsStandard
<1>3. PICK b \in BOOLEAN : b = TRUE
  OBVIOUS
<1>4. Raises(target, b) /\ shown' = Home[w] /\ selected' = target /\ known' = known
  BY <1>1, <1>3 DEF SwitchesTo
<1>5. /\ raise' \in [window : Managed \cup {NoWindow}, quiet : BOOLEAN]
      /\ echo' \in [windows : SUBSET Managed, target : Managed \cup {NoWindow}, believed : BOOLEAN]
  BY <1>2, <1>4, RaisesType
<1>6. switching' \in BOOLEAN
  BY DEF SwitchLasts
<1>7. Home[w] \in Workspace
  BY ReportsAssumption
<1> QED BY <1>2, <1>4, <1>5, <1>6, <1>7 DEF LayoutInv

(* What the handling of every report has in common.                        *)
Handled ==
    /\ inbox # <<>> /\ inbox' = Tail(inbox) /\ Follows(tracker, tracker', Head(inbox))
    /\ AskedInv' /\ LayoutInv' /\ sentBack' \in Managed \cup {NoWindow}
    /\ UNCHANGED <<macVars, resolved, thread, user, cycled>>

LEMMA HandledKeeps ==
    ASSUME Inv, Handled
    PROVE  Inv'
<1> USE DEF macVars
<1>1. /\ inbox # <<>> /\ inbox' = Tail(inbox) /\ AskedInv' /\ LayoutInv' /\ sentBack' \in Managed \cup {NoWindow}
      /\ UNCHANGED <<mac, open, edges, notices, wake, resolved, thread, user, cycled>>
  BY DEF Handled
<1>2. MacInv' /\ UserInv' /\ ThreadInv'
  BY <1>1 DEF Inv, MacInv, UserInv, ThreadInv, NoticesInv
<1>3. PICK o, s, t, u, e : o = open /\ s = inbox /\ t = tracker /\ u = tracker' /\ e = Head(inbox)
  OBVIOUS
<1>4. Facts(s, o) /\ s # <<>> /\ Follows(t, u, e) /\ e = Head(s)
  BY <1>1, <1>3 DEF Inv, WireInv, Handled
<1>5. Facts(Tail(s), o) /\ Fact(e, o) /\ s \in Seq(Events)
  BY <1>4, FactsPast DEF Facts
<1>6. inbox' = Tail(s) /\ open' = o /\ tracker' = u
  BY <1>1, <1>3
<1>7. WireInv'
  BY <1>1, <1>3, <1>5, <1>6 DEF Inv, WireInv
<1>8. Sound(tracker)'
  BY <1>4, <1>6 DEF Follows
<1>9. FrontInv'
  <2>1. PICK z : Leads(t.globalFront, s, z) /\ LeadOn(z, edges, mac.front)
    BY <1>3 DEF Inv, FrontInv
  <2>2. Leads(FrontAfter(t.globalFront, e), Tail(s), z)
    BY <1>4, <1>5, <2>1, LeadsPast
  <2>3. Leads(u.globalFront, Tail(s), z)
    BY <1>4, <2>2 DEF Follows
  <2> QED BY <1>1, <1>6, <2>1, <2>3 DEF FrontInv
<1>10. KeyInv'
  <2>1. PICK k, w, r : k = KeyWindow /\ w = wake /\ r = resolved
    OBVIOUS
  <2>2. Keyed(k, w, r, s, t)
    BY <1>3, <2>1 DEF Inv, KeyInv
  <2>3. k \in Managed => Spares(e, k)
    <3> SUFFICES ASSUME k \in Managed PROVE Spares(e, k)
      OBVIOUS
    <3>1. k \in o
      <4>1. k = mac.key[mac.front] /\ mac.front \in App /\ Owns(mac.front, mac.key[mac.front], o)
        BY <1>3, <2>1 DEF Inv, MacInv, Macs, KeyWindow
      <4>2. k # NoWindow
        BY TrackerAssumption DEF Managed
      <4> QED BY <4>1, <4>2 DEF Owns
    <3> QED BY <1>5, <3>1 DEF Spares, Fact, Gone
  <2>4. /\ Tells(s, k) => Tells(Tail(s), k) \/ (e.kind = "serverFocus" /\ e.window = k /\ Mute(Tail(s)))
        /\ Mute(s) => Mute(Tail(s)) /\ e.kind # "serverFocus"
    BY <1>4, <1>5, TellsPast
  <2>5. Keyed(k, w, r, Tail(s), u)
    BY <1>4, <2>2, <2>3, <2>4 DEF Keyed, Follows
  <2>6. KeyWindow' = k /\ wake' = w /\ resolved' = r
    BY <1>1, <2>1 DEF KeyWindow
  <2> QED BY <1>6, <2>5, <2>6 DEF KeyInv
<1> QED BY <1>1, <1>2, <1>7, <1>8, <1>9, <1>10 DEF Inv

(* The report at the head of the channel, and the tracker before it.       *)
LEMMA AtHead ==
    ASSUME Inv, inbox # <<>>
    PROVE  /\ Head(inbox) \in Events /\ Fact(Head(inbox), open)
           /\ Sound(tracker) /\ AskedInv /\ LayoutInv /\ sentBack \in Managed \cup {NoWindow}
<1>1. Fact(Head(inbox), open)
  BY FactsPast DEF Inv, WireInv
<1> QED BY <1>1 DEF Fact, Inv, ThreadInv, UserInv

LEMMA LaunchedHandled ==
    ASSUME Inv, OnApplicationLaunched, SwitchLasts
    PROVE  Handled
<1> USE DEF macVars, historyVars
<1>1. PICK e, t, h : e = Head(inbox) /\ t = tracker /\ h = ApplicationLaunched(t, e.app, e.flag, e.window)
  OBVIOUS
<1>2. /\ inbox # <<>> /\ inbox' = Tail(inbox) /\ e.kind = "launched" /\ tracker' = h.tracker
      /\ UNCHANGED <<mac, open, edges, notices, wake, resolved, thread, shown, raise, echo, user, sentBack, cycled>>
  BY <1>1 DEF OnApplicationLaunched, NextReport, Received
<1>3. e \in Events /\ Sound(t) /\ AskedInv /\ LayoutInv /\ sentBack \in Managed \cup {NoWindow}
  BY <1>1, <1>2, AtHead
<1>4. /\ e.app \in App /\ e.window \in Window \cup {NoWindow} /\ e.flag \in BOOLEAN
      /\ e.windows \subseteq Window
  BY <1>2, <1>3, EventType
<1>5. Unmoved(t, h.tracker) /\ h.tracker.globalFront = t.globalFront
  BY <1>1, <1>3, <1>4, LaunchedOK
<1>6. Follows(t, h.tracker, e)
  <2>1. FrontAfter(t.globalFront, e) = t.globalFront
    BY <1>2 DEF FrontAfter
  <2> QED BY <1>2, <1>5, <2>1, UnmovedFollows
<1>7. LayoutInv'
  <2>1. known' = known \cup e.windows
    BY <1>1 DEF OnApplicationLaunched
  <2>2. selected' = selected \/ selected' \in Managed
    BY <1>1 DEF OnApplicationLaunched
  <2>3. switching' \in BOOLEAN
    BY DEF SwitchLasts
  <2> QED BY <1>2, <1>3, <1>4, <2>1, <2>2, <2>3 DEF LayoutInv
<1>8. AskedInv'
  <2>1. CASE UNCHANGED asked
    BY <1>2, <1>3, <2>1 DEF AskedInv
  <2>2. CASE Ask(e.app, "activation")
    BY <1>2, <1>3, <1>4, <2>2, AskKeeps DEF Requests
  <2> QED BY <1>1, <2>1, <2>2 DEF OnApplicationLaunched
<1> QED BY <1>1, <1>2, <1>3, <1>6, <1>7, <1>8 DEF Handled

LEMMA ActivatedHandled ==
    ASSUME Inv, OnApplicationActivated, SwitchLasts
    PROVE  Handled
<1> USE DEF macVars, threadVars, historyVars
<1>1. PICK e, t, h : e = Head(inbox) /\ t = tracker /\ h = ApplicationActivated(t, e.app, e.flag)
  OBVIOUS
<1>2. /\ inbox # <<>> /\ inbox' = Tail(inbox) /\ e.kind = "activated"
      /\ UNCHANGED <<mac, open, edges, notices, wake, resolved, thread, asked, user, sentBack, cycled>>
  BY <1>1 DEF OnApplicationActivated, NextReport, Received
<1>3. e \in Events /\ Sound(t) /\ AskedInv /\ LayoutInv /\ sentBack \in Managed \cup {NoWindow}
  BY <1>1, <1>2, AtHead
<1>4. e.app \in App /\ e.flag \in BOOLEAN
  BY <1>3, EventType
<1>5. Unmoved(t, h.tracker) /\ h.tracker.globalFront = t.globalFront
  BY <1>1, <1>3, <1>4, ActivatedOK
<1>6. PICK v, g : v = Taken(h.tracker, e.app) /\ g = [h EXCEPT !.tracker = v]
  OBVIOUS
<1>7. Unmoved(t, v) /\ v.globalFront = t.globalFront
  <2>1. Unmoved(h.tracker, v) /\ v.globalFront = h.tracker.globalFront
    BY <1>5, <1>6, TakenOK DEF Unmoved
  <2> QED BY <1>5, <2>1, UnmovedTwice
<1>8. PICK main : main = MainWindow(h.tracker)
  OBVIOUS
<1>9. \/ FollowsAnnounced(h)
      \/ tracker' = v /\ main \in Managed /\ SwitchesTo(main, Remembered(h.tracker, e.app))
      \/ tracker' = v /\ FollowsAnnounced(g)
  BY <1>1, <1>6, <1>8 DEF OnApplicationActivated, IsStandard
<1>10. LayoutInv' /\ (tracker' = h.tracker \/ tracker' = v)
  BY <1>3, <1>9, AnnouncedLaid, SwitchesLaid
<1>11. Follows(t, tracker', e)
  <2>1. FrontAfter(t.globalFront, e) = t.globalFront
    BY <1>2 DEF FrontAfter
  <2>2. Follows(t, h.tracker, e) /\ Follows(t, v, e)
    BY <1>2, <1>5, <1>7, <2>1, UnmovedFollows
  <2> QED BY <1>10, <2>2
<1>12. AskedInv'
  BY <1>2, <1>3 DEF AskedInv
<1> QED BY <1>1, <1>2, <1>3, <1>10, <1>11, <1>12 DEF Handled

LEMMA GloballyActivatedHandled ==
    ASSUME Inv, OnGloballyActivated, SwitchLasts
    PROVE  Handled
<1> USE DEF macVars, historyVars
<1>1. PICK e, t, h : e = Head(inbox) /\ t = tracker /\ h = ApplicationGloballyActivated(t, e.app)
  OBVIOUS
<1>2. /\ inbox # <<>> /\ inbox' = Tail(inbox) /\ e.kind = "globallyActivated" /\ tracker' = h.tracker
      /\ UNCHANGED <<mac, open, edges, notices, wake, resolved, thread, user, sentBack, cycled>>
      /\ UNCHANGED <<known, shown, selected, raise, echo>>
  BY <1>1 DEF OnGloballyActivated, NextReport, Received, Stays
<1>3. e \in Events /\ Sound(t) /\ AskedInv /\ LayoutInv /\ sentBack \in Managed \cup {NoWindow}
  BY <1>1, <1>2, AtHead
<1>4. e.app \in App
  BY <1>3, EventType
<1>5. Unmoved(t, h.tracker) /\ h.tracker.globalFront = e.app
  BY <1>1, <1>3, <1>4, GloballyActivatedOK
<1>6. Follows(t, h.tracker, e)
  <2>1. FrontAfter(t.globalFront, e) = e.app
    BY <1>2 DEF FrontAfter
  <2> QED BY <1>2, <1>5, <2>1, UnmovedFollows
<1>7. LayoutInv'
  BY <1>2, <1>3 DEF LayoutInv, SwitchLasts
<1>8. AskedInv'
  <2>1. CASE UNCHANGED asked
    BY <1>2, <1>3, <2>1 DEF AskedInv
  <2>2. CASE Ask(e.app, "activation")
    BY <1>2, <1>3, <1>4, <2>2, AskKeeps DEF Requests
  <2> QED BY <1>1, <2>1, <2>2 DEF OnGloballyActivated
<1> QED BY <1>1, <1>2, <1>3, <1>6, <1>7, <1>8 DEF Handled

LEMMA TrackedHandled ==
    ASSUME Inv, OnTracked, SwitchLasts
    PROVE  Handled
<1> USE DEF macVars, threadVars, historyVars
<1>1. PICK e, t : e = Head(inbox) /\ t = tracker
  OBVIOUS
<1>2. /\ inbox # <<>> /\ inbox' = Tail(inbox)
      /\ UNCHANGED <<mac, open, edges, notices, wake, resolved, thread, asked, user, sentBack, cycled>>
  BY <1>1 DEF OnTracked, NextReport, Received
<1>3. e \in Events /\ Sound(t) /\ AskedInv /\ LayoutInv /\ sentBack \in Managed \cup {NoWindow}
  BY <1>1, <1>2, AtHead
<1>4. e.app \in App /\ e.window \in Window \cup {NoWindow} /\ e.flag \in BOOLEAN /\ e.app # NoApp
  BY <1>3, EventType, TrackerAssumption
<1>5. AskedInv'
  BY <1>2, <1>3 DEF AskedInv
<1>6. PICK h : FollowsAnnounced(h) /\ Follows(t, h.tracker, e)
  <2>1. CASE e.kind = "globallyDeactivated" /\ FollowsAnnounced(ApplicationGloballyDeactivated(t, e.app))
    <3>1. PICK h : h = ApplicationGloballyDeactivated(t, e.app)
      OBVIOUS
    <3>2. /\ Unmoved(t, h.tracker)
          /\ h.tracker.globalFront = IF t.globalFront = e.app THEN NoApp ELSE t.globalFront
      BY <1>3, <1>4, <3>1, GloballyDeactivatedOK
    <3>3. FrontAfter(t.globalFront, e) = IF t.globalFront = e.app THEN NoApp ELSE t.globalFront
      BY <2>1 DEF FrontAfter
    <3>4. Follows(t, h.tracker, e)
      BY <2>1, <3>2, <3>3, UnmovedFollows
    <3> QED BY <2>1, <3>1, <3>4
  <2>2. CASE e.kind = "deactivated" /\ FollowsAnnounced(ApplicationDeactivated(t, e.app))
    <3>1. PICK h : h = ApplicationDeactivated(t, e.app)
      OBVIOUS
    <3>2. Unmoved(t, h.tracker) /\ h.tracker.globalFront = t.globalFront
      BY <1>3, <1>4, <3>1, DeactivatedOK
    <3>3. FrontAfter(t.globalFront, e) = t.globalFront
      BY <2>2 DEF FrontAfter
    <3>4. Follows(t, h.tracker, e)
      BY <2>2, <3>2, <3>3, UnmovedFollows
    <3> QED BY <2>2, <3>1, <3>4
  <2>3. CASE e.kind = "main" /\ FollowsAnnounced(ApplicationMainWindowChanged(t, e.app, e.window, e.flag))
    <3>1. PICK h : h = ApplicationMainWindowChanged(t, e.app, e.window, e.flag)
      OBVIOUS
    <3>2. /\ Sound(h.tracker) /\ (Unmoved(t, h.tracker) \/ t.panel = e.app)
          /\ h.tracker.globalFront = t.globalFront
      BY <1>3, <1>4, <3>1, MainWindowChangedOK
    <3>3. FrontAfter(t.globalFront, e) = t.globalFront
      BY <2>3 DEF FrontAfter
    <3>4. CASE Unmoved(t, h.tracker)
      <4>1. Follows(t, h.tracker, e)
        BY <2>3, <3>2, <3>3, <3>4, UnmovedFollows
      <4> QED BY <2>3, <3>1, <4>1
    <3>5. CASE t.panel = e.app
      <4>1. \A k : ~Names(t, k)
        BY <1>3, <1>4, <3>5 DEF Sound, Names
      <4>2. Follows(t, h.tracker, e)
        BY <2>3, <3>2, <3>3, <4>1 DEF Follows
      <4> QED BY <2>3, <3>1, <4>2
    <3> QED BY <3>2, <3>4, <3>5
  <2> QED BY <1>1, <2>1, <2>2, <2>3 DEF OnTracked, NextReport
<1>7. LayoutInv' /\ tracker' = h.tracker
  BY <1>3, <1>6, AnnouncedLaid
<1> QED BY <1>1, <1>2, <1>3, <1>5, <1>6, <1>7 DEF Handled

LEMMA DestroyedHandled ==
    ASSUME Inv, OnWindowDestroyed, SwitchLasts
    PROVE  Handled
<1> USE DEF macVars, threadVars, historyVars
<1>1. PICK e, t, u : e = Head(inbox) /\ t = tracker /\ u = WindowDestroyed(t, e.window).tracker
  OBVIOUS
<1>2. /\ inbox # <<>> /\ inbox' = Tail(inbox) /\ e.kind = "destroyed" /\ tracker' = u
      /\ known' = known \ {e.window} /\ (selected' = selected \/ selected' = NoWindow)
      /\ UNCHANGED <<mac, open, edges, notices, wake, resolved, thread, asked, shown, raise, echo,
                     user, sentBack, cycled>>
  BY <1>1 DEF OnWindowDestroyed, NextReport, Received
<1>3. e \in Events /\ Sound(t) /\ AskedInv /\ LayoutInv /\ sentBack \in Managed \cup {NoWindow}
  BY <1>1, <1>2, AtHead
<1>4. /\ Sound(u) /\ u.globalFront = t.globalFront
      /\ u.authoritative = t.authoritative /\ u.panel = t.panel
      /\ u.serverFocus # t.serverFocus => t.serverFocus = e.window
  BY <1>1, <1>3, DestroyedOK
<1>5. Follows(t, u, e)
  <2>1. FrontAfter(t.globalFront, e) = t.globalFront
    BY <1>2 DEF FrontAfter
  <2>2. ASSUME NEW k, Spares(e, k), Names(t, k) PROVE Names(u, k)
    BY <1>2, <1>4, <2>2 DEF Spares, Names
  <2> QED BY <1>2, <1>4, <2>1, <2>2 DEF Follows
<1>6. LayoutInv'
  BY <1>2, <1>3 DEF LayoutInv, SwitchLasts
<1>7. AskedInv'
  BY <1>2, <1>3 DEF AskedInv
<1> QED BY <1>1, <1>2, <1>3, <1>5, <1>6, <1>7 DEF Handled

LEMMA ThreadTerminatedHandled ==
    ASSUME Inv, OnApplicationThreadTerminated, SwitchLasts
    PROVE  Handled
<1> USE DEF macVars, threadVars, historyVars
<1>1. PICK e, t, u : e = Head(inbox) /\ t = tracker /\ u = ApplicationThreadTerminated(t, e.app).tracker
  OBVIOUS
<1>2. /\ inbox # <<>> /\ inbox' = Tail(inbox) /\ e.kind = "threadTerminated" /\ tracker' = u
      /\ known' = { w \in known : AppOf[w] # e.app } /\ (selected' = selected \/ selected' = NoWindow)
      /\ UNCHANGED <<mac, open, edges, notices, wake, resolved, thread, asked, shown, raise, echo,
                     user, sentBack, cycled>>
  BY <1>1 DEF OnApplicationThreadTerminated, NextReport, Received
<1>3. e \in Events /\ Sound(t) /\ AskedInv /\ LayoutInv /\ sentBack \in Managed \cup {NoWindow}
  BY <1>1, <1>2, AtHead
<1>4. /\ Sound(u) /\ u.globalFront = t.globalFront
      /\ u.authoritative = t.authoritative /\ u.panel = t.panel
      /\ u.serverFocus # t.serverFocus => AppOf[t.serverFocus] = e.app
  BY <1>1, <1>3, EventType, ThreadTerminatedOK
<1>5. Follows(t, u, e)
  <2>1. FrontAfter(t.globalFront, e) = t.globalFront
    BY <1>2 DEF FrontAfter
  <2>2. ASSUME NEW k, Spares(e, k), Names(t, k) PROVE Names(u, k)
    BY <1>2, <1>4, <2>2 DEF Spares, Names
  <2> QED BY <1>2, <1>4, <2>1, <2>2 DEF Follows
<1>6. LayoutInv'
  BY <1>2, <1>3 DEF LayoutInv, SwitchLasts
<1>7. AskedInv'
  BY <1>2, <1>3 DEF AskedInv
<1> QED BY <1>1, <1>2, <1>3, <1>5, <1>6, <1>7 DEF Handled

LEMMA TerminatedHandled ==
    ASSUME Inv, OnApplicationTerminated, SwitchLasts
    PROVE  Handled
<1> USE DEF macVars, historyVars
<1>1. PICK e, t : e = Head(inbox) /\ t = tracker
  OBVIOUS
<1>2. /\ inbox # <<>> /\ inbox' = Tail(inbox) /\ e.kind = "terminated" /\ tracker' = t
      /\ UNCHANGED <<mac, open, edges, notices, wake, resolved, thread, shown, selected, raise, echo,
                     user, sentBack, cycled>>
      /\ \/ Ask(e.app, "terminate") /\ known' = known
         \/ known' = { w \in known : AppOf[w] # e.app } /\ asked' = asked
  BY <1>1 DEF OnApplicationTerminated, NextReport, Received
<1>3. /\ e \in Events /\ Fact(e, open) /\ Sound(t) /\ AskedInv /\ LayoutInv
      /\ sentBack \in Managed \cup {NoWindow}
  BY <1>1, <1>2, AtHead
<1>4. Follows(t, t, e)
  <2>1. FrontAfter(t.globalFront, e) = t.globalFront
    BY <1>2 DEF FrontAfter
  <2> QED BY <1>2, <1>3, <2>1 DEF Follows
<1>5. AskedInv'
  <2>1. CASE asked' = asked
    BY <1>2, <1>3, <2>1 DEF AskedInv
  <2>2. CASE Ask(e.app, "terminate")
    <3>1. e.app \in App /\ Gone(e.app, open)
      BY <1>2, <1>3, EventType DEF Fact
    <3> QED BY <1>2, <1>3, <2>2, <3>1, AskKeeps DEF Requests
  <2> QED BY <1>2, <2>1, <2>2
<1>6. LayoutInv'
  <2>1. known' \subseteq known
    BY <1>2
  <2> QED BY <1>2, <1>3, <2>1 DEF LayoutInv, SwitchLasts
<1> QED BY <1>1, <1>2, <1>3, <1>4, <1>5, <1>6 DEF Handled

LEMMA ServerFocusHandled ==
    ASSUME Inv, OnWindowServerFocusChanged, SwitchLasts
    PROVE  Handled
<1> USE DEF macVars
<1>1. PICK e, x, w, a, t :
        /\ e = Head(inbox) /\ x = tracker /\ w = e.window /\ a = AppOf[w]
        /\ t = (IF w \in known \cap Panels THEN PanelFocused(x, w) ELSE WindowServerFocusChanged(x, w)).tracker
  OBVIOUS
<1>2. /\ inbox # <<>> /\ inbox' = Tail(inbox) /\ e.kind = "serverFocus"
      /\ UNCHANGED <<mac, open, edges, notices, wake, resolved, thread, user, cycled>>
  BY <1>1 DEF OnWindowServerFocusChanged, NextReport, Received
<1>3. /\ e \in Events /\ Fact(e, open) /\ Sound(x) /\ AskedInv /\ LayoutInv
      /\ sentBack \in Managed \cup {NoWindow}
  BY <1>1, <1>2, AtHead
<1>4. w \in Window /\ a \in App
  BY <1>1, <1>2, <1>3, TrackerAssumption DEF Fact
<1>5. Sound(t) /\ t.globalFront = x.globalFront /\ (w \in Managed => Names(t, w))
  <2>1. CASE w \in known \cap Panels
    <3>1. t = PanelFocused(x, w).tracker
      BY <1>1, <2>1
    <3> QED BY <1>3, <1>4, <2>1, <3>1, PanelFocusedOK DEF Managed
  <2>2. CASE w \notin known \cap Panels
    <3>1. t = WindowServerFocusChanged(x, w).tracker
      BY <1>1, <2>2
    <3> QED BY <1>3, <1>4, <3>1, ServerFocusChangedOK
  <2> QED BY <2>1, <2>2
<1>6. PICK v : v = Taken(t, a)
  OBVIOUS
<1>7. Sound(v) /\ v.globalFront = x.globalFront /\ (w \in Managed => Names(v, w))
  <2>1. Unmoved(t, v) /\ v.globalFront = t.globalFront
    BY <1>5, <1>6, TakenOK
  <2> QED BY <1>5, <2>1 DEF Unmoved, Names
<1>8. Follows(x, t, e) /\ Follows(x, v, e)
  <2>1. FrontAfter(x.globalFront, e) = x.globalFront
    BY <1>2 DEF FrontAfter
  <2> QED BY <1>1, <1>2, <1>5, <1>7, <2>1 DEF Follows
<1>9. PICK target : target = Redirect(t, w)
  OBVIOUS
<1>10. target \in Managed \/ target = NoWindow
  BY <1>9 DEF Redirect, Visible, IsStandard
<1>11. switching' \in BOOLEAN
  BY DEF SwitchLasts
<1>12. CASE tracker' = t /\ Stays /\ asked' = asked /\ sentBack' = sentBack
  <2>1. LayoutInv' /\ AskedInv'
    BY <1>2, <1>3, <1>11, <1>12 DEF LayoutInv, AskedInv, Stays
  <2> QED BY <1>1, <1>2, <1>3, <1>8, <1>12, <2>1 DEF Handled
<1>13. CASE /\ tracker' = t /\ Stays /\ sentBack' = sentBack
            /\ (Ask(a, "windows") \/ asked' = asked)
  <2>1. LayoutInv'
    BY <1>3, <1>11, <1>13 DEF LayoutInv, Stays
  <2>2. AskedInv'
    <3>1. CASE asked' = asked
      BY <1>2, <1>3, <3>1 DEF AskedInv
    <3>2. CASE Ask(a, "windows")
      BY <1>2, <1>3, <1>4, <3>2, AskKeeps DEF Requests
    <3> QED BY <1>13, <3>1, <3>2
  <2> QED BY <1>1, <1>2, <1>3, <1>8, <1>13, <2>1, <2>2 DEF Handled
<1>14. CASE /\ target # NoWindow /\ tracker' = v /\ selected' = target /\ Raises(target, FALSE)
            /\ sentBack' = target /\ UNCHANGED <<asked, known, shown>>
  <2>1. PICK b \in BOOLEAN : b = FALSE
    OBVIOUS
  <2>2. target \in Managed /\ Raises(target, b)
    BY <1>10, <1>14, <2>1
  <2>3. /\ raise' \in [window : Managed \cup {NoWindow}, quiet : BOOLEAN]
        /\ echo' \in [windows : SUBSET Managed, target : Managed \cup {NoWindow}, believed : BOOLEAN]
    BY <1>3, <2>2, RaisesType
  <2>4. LayoutInv' /\ AskedInv'
    BY <1>2, <1>3, <1>11, <1>14, <2>2, <2>3 DEF LayoutInv, AskedInv
  <2>5. sentBack' \in Managed \cup {NoWindow}
    BY <1>14, <2>2
  <2> QED BY <1>1, <1>2, <1>8, <1>14, <2>4, <2>5 DEF Handled
<1>15. CASE /\ tracker' = v /\ asked' = asked /\ sentBack' = sentBack
            /\ \/ w \in Managed /\ SwitchesTo(w, Remembered(t, a))
               \/ Selects(w) /\ UNCHANGED <<known, shown, raise, echo>>
  <2>1. LayoutInv'
    <3>1. CASE w \in Managed /\ SwitchesTo(w, Remembered(t, a))
      BY <1>3, <3>1, SwitchesLaid
    <3>2. CASE Selects(w) /\ UNCHANGED <<known, shown, raise, echo>>
      <4>1. selected' = selected \/ selected' \in Managed
        BY <3>2 DEF Selects, Visible, IsStandard
      <4> QED BY <1>3, <1>11, <3>2, <4>1 DEF LayoutInv
    <3> QED BY <1>15, <3>1, <3>2
  <2>2. AskedInv'
    BY <1>2, <1>3, <1>15 DEF AskedInv
  <2> QED BY <1>1, <1>2, <1>3, <1>8, <1>15, <2>1, <2>2 DEF Handled
<1> QED BY <1>1, <1>6, <1>9, <1>12, <1>13, <1>14, <1>15 DEF OnWindowServerFocusChanged

LEMMA ReactorKeeps ==
    ASSUME Inv, Reactor
    PROVE  Inv'
<1>1. Handled
  BY LaunchedHandled, ActivatedHandled, GloballyActivatedHandled, TrackedHandled, DestroyedHandled,
     ThreadTerminatedHandled, TerminatedHandled, ServerFocusHandled DEF Reactor
<1> QED BY <1>1, HandledKeeps

-----------------------------------------------------------------------------
(* The beginning, and every step.                                          *)

LEMMA InitInv == Init => Inv
<1> SUFFICES ASSUME Init PROVE Inv
  OBVIOUS
<1>1. PICK how \in Scenarios : user = [acts |-> 0, how |-> how]
  BY DEF Init
<1>2. /\ how \in Scenario /\ how.acts \in Nat /\ FirstFront \in App /\ FirstFront \notin how.late
      /\ FirstMain \in [App -> Managed] /\ \A a \in App : AppOf[FirstMain[a]] = a
  BY ReportsAssumption DEF Scenario
<1>3. PICK first : first = FirstMain[FirstFront]
  OBVIOUS
<1>4. /\ first \in Managed /\ first \in Window
      /\ \A a \in App : FirstMain[a] \in Window /\ FirstMain[a] \in Managed
  BY <1>2, <1>3 DEF Managed
<1>5. Sound(tracker)
  <2>1. PICK apps : apps = [a \in App |-> IF a \in how.late THEN NotLaunched
                                          ELSE AppState(a = FirstFront, FirstMain[a])]
    OBVIOUS
  <2>2. apps \in [App -> AppStates]
    <3>1. ASSUME NEW a \in App
          PROVE  NotLaunched \in AppStates /\ AppState(a = FirstFront, FirstMain[a]) \in AppStates
      <4>1. PICK b \in BOOLEAN : b = (a = FirstFront)
        OBVIOUS
      <4>2. AppState(b, FirstMain[a]) \in AppStates
        BY <1>4 DEF AppState, AppStates
      <4> QED BY <4>1, <4>2 DEF NotLaunched, AppStates
    <3> QED BY <2>1, <3>1
  <2>3. PICK last : last = [a \in App |-> NoWindow]
    OBVIOUS
  <2>4. last \in [App -> Window \cup {NoWindow}]
    BY <2>3
  <2>5. tracker = [apps |-> apps, globalFront |-> FirstFront, serverFocus |-> NoWindow,
                   authoritative |-> FALSE, lastFocused |-> last, order |-> <<first>>,
                   pending |-> NoActivation, panel |-> NoApp]
    BY <1>1, <1>3, <2>1, <2>3 DEF Init, NewTracker
  <2>6. NoActivation \in [app : App \cup {NoApp}, remembered : Window \cup {NoWindow}]
    BY DEF NoActivation
  <2>7. tracker \in Tracker
    BY <1>2, <1>4, <2>2, <2>4, <2>5, <2>6 DEF Tracker
  <2>8. Once(<<first>>)
    BY DEF Once
  <2>9. /\ tracker.order = <<first>> /\ tracker.serverFocus = NoWindow /\ tracker.authoritative = FALSE
        /\ tracker.panel = NoApp
    BY <2>5
  <2> QED BY <2>7, <2>8, <2>9 DEF Sound
<1>6. mac = [front |-> FirstFront, main |-> FirstMain, key |-> FirstMain] /\ open = Window
  BY DEF Init
<1>7. MacInv
  <2>1. FirstMain \in [App -> Managed \cup {NoWindow}] /\ FirstMain \in [App -> Window \cup {NoWindow}]
    BY <1>2, <1>4
  <2>2. mac \in Macs /\ mac.main = FirstMain /\ mac.key = FirstMain
    BY <1>2, <1>6, <2>1 DEF Macs
  <2>3. \A a \in App : Owns(a, FirstMain[a], open)
    BY <1>2, <1>4, <1>6 DEF Owns
  <2> QED BY <1>6, <2>2, <2>3 DEF MacInv
<1>8. inbox = <<>> /\ edges = <<>> /\ wake = FALSE /\ resolved = NotRead
  BY DEF Init
<1>9. WireInv
  <2>1. Facts(<<>>, open) /\ Batches(<<>>, open)
    BY DEF Facts, Batches
  <2> QED BY <1>8, <2>1 DEF WireInv, NotRead
<1>10. ThreadInv
  <2>1. \A a \in App : Noticed(<<>>, open) /\ Asked(<<>>, a, open)
    BY DEF Noticed, Asked
  <2>2. notices = [a \in App |-> <<>>] /\ asked = [a \in App |-> <<>>]
    BY DEF Init
  <2>3. NoticesInv /\ AskedInv
    BY <2>1, <2>2 DEF NoticesInv, AskedInv
  <2> DEFINE first1(a) ==
        [phase |-> IF a \in how.late THEN "yet" ELSE "runs", front |-> a = FirstFront,
         main |-> IF a \in how.late THEN NoWindow ELSE FirstMain[a],
         windows |-> IF a \in how.late THEN {} ELSE { w \in Window : AppOf[w] = a },
         activation |-> "none", pendingQuiet |-> "none"]
  <2>4. thread = [a \in App |-> first1(a)]
    BY <1>1 DEF Init
  <2>5. ASSUME NEW a \in App PROVE first1(a) \in Threads
    <3>1. PICK b \in BOOLEAN : b = (a = FirstFront)
      OBVIOUS
    <3>2. PICK ph, m, ws : /\ ph = IF a \in how.late THEN "yet" ELSE "runs"
                           /\ m = IF a \in how.late THEN NoWindow ELSE FirstMain[a]
                           /\ ws = IF a \in how.late THEN {} ELSE { w \in Window : AppOf[w] = a }
      OBVIOUS
    <3>3. /\ ph \in {"yet", "runs", "ended"} /\ m \in Window \cup {NoWindow} /\ ws \in SUBSET Window
      BY <1>4, <3>2
    <3>4. [phase |-> ph, front |-> b, main |-> m, windows |-> ws, activation |-> "none",
           pendingQuiet |-> "none"] \in Threads
      BY <3>3 DEF Threads
    <3> QED BY <3>1, <3>2, <3>4
  <2> HIDE DEF first1
  <2>6. thread \in [App -> Threads]
    BY <2>4, <2>5
  <2> QED BY <2>3, <2>6 DEF ThreadInv
<1>11. LayoutInv
  <2>1. /\ known \subseteq Window /\ shown = FirstShown /\ selected = first /\ switching = FALSE
        /\ raise = NoRaise /\ echo = [windows |-> {}, target |-> NoWindow, believed |-> FALSE]
    BY <1>3 DEF Init
  <2> QED BY <1>4, <2>1, ReportsAssumption DEF LayoutInv, NoRaise
<1>12. UserInv
  <2>1. sentBack = NoWindow /\ cycled = NoWindow
    BY DEF Init
  <2> QED BY <1>1, <1>2, <2>1 DEF UserInv
<1>13. FrontInv
  <2>1. tracker.globalFront = FirstFront
    BY DEF Init, NewTracker
  <2>2. Leads(FirstFront, <<>>, FirstFront) /\ LeadOn(FirstFront, <<>>, FirstFront)
    BY LeadsNowhere, NoBatch
  <2>3. mac.front = FirstFront
    BY <1>6
  <2> QED BY <1>8, <2>1, <2>2, <2>3 DEF FrontInv
<1>14. KeyInv
  <2>1. tracker.authoritative = FALSE
    BY DEF Init, NewTracker
  <2>2. Mute(<<>>) /\ resolved.read = FALSE
    BY <1>8 DEF Mute, NotRead
  <2> QED BY <1>8, <2>1, <2>2 DEF KeyInv, Keyed, Names
<1> QED BY <1>5, <1>7, <1>9, <1>10, <1>11, <1>12, <1>13, <1>14 DEF Inv

LEMMA StutterKeeps ==
    ASSUME Inv, UNCHANGED vars
    PROVE  Inv'
<1>1. LayoutInv' /\ UserInv' /\ UNCHANGED <<macVars, resolved, threadVars, inbox, tracker>>
  BY DEF Inv, LayoutInv, UserInv, vars, layoutVars, historyVars
<1> QED BY <1>1, LayoutStepKeeps

LEMMA NextInv == Inv /\ [Next]_vars => Inv'
<1> SUFFICES ASSUME Inv, [Next]_vars PROVE Inv'
  OBVIOUS
<1>1. CASE UNCHANGED vars
  BY <1>1, StutterKeeps
<1>2. CASE Reactor
  BY <1>2, ReactorKeeps
<1>3. CASE UserActs
  <2>1. ASSUME NEW w \in Window, UserFocuses(w) \/ Closes(w) \/ OnCommand(w) PROVE Inv'
    BY <2>1, UserFocusesKeeps, ClosesKeeps, CommandKeeps
  <2>2. ASSUME NEW a \in App, Quits(a) PROVE Inv'
    BY <2>2, QuitsKeeps
  <2> QED BY <1>3, <2>1, <2>2 DEF UserActs
<1>4. CASE Resolver \/ ControllerForwards
  BY <1>4, ReadsKeeps, PublishesKeeps, ForwardsKeeps DEF Resolver
<1>5. ASSUME NEW a \in App, ThreadStep(a) PROVE Inv'
  BY <1>5, ThreadKeeps
<1>6. CASE ThreadRaises \/ SwitchEnds \/ EchoLapses
  BY <1>6, RaisedBy, SettlesKeeps
<1> QED BY <1>1, <1>2, <1>3, <1>4, <1>5, <1>6 DEF Next

LEMMA InvAlways == Spec => []Inv
<1>1. Init => Inv
  BY InitInv
<1>2. Inv /\ [Next]_vars => Inv'
  BY NextInv
<1> QED BY <1>1, <1>2, PTL DEF Spec

(* Every variable of the reports, the threads and the layout stays in its  *)
(* type.                                                                   *)
THEOREM TypesHold == Spec => []TypeOK
<1>1. Inv => TypeOK
  <2> SUFFICES ASSUME Inv PROVE TypeOK
    OBVIOUS
  <2>1. mac \in Macs /\ open \subseteq Window
    BY DEF Inv, MacInv
  <2>2. edges \in Seq(Seq(Events)) /\ inbox \in Seq(Events)
    BY DEF Inv, WireInv, Batches, Facts
  <2>3. wake \in BOOLEAN /\ resolved \in [read : BOOLEAN, window : Window \cup {NoWindow}]
    BY DEF Inv, WireInv
  <2>4. notices \in [App -> Seq(Notices)] /\ asked \in [App -> Seq(Requests)]
        /\ thread \in [App -> Threads]
    BY DEF Inv, ThreadInv, NoticesInv, AskedInv
  <2>5. tracker \in Tracker
    BY DEF Inv, Sound
  <2>6. user.how \in Scenarios /\ user.acts \in 0..user.how.acts
    <3>1. user \in [acts : Nat, how : Scenarios] /\ user.acts <= user.how.acts
      BY DEF Inv, UserInv
    <3>2. user.acts \in Nat /\ user.how \in Scenarios
      BY <3>1
    <3>3. user.how.acts \in Nat
      BY <3>2, ReportsAssumption DEF Scenario
    <3> QED BY <3>1, <3>2, <3>3
  <2>7. sentBack \in Managed \cup {NoWindow} /\ cycled \in Managed \cup {NoWindow}
    BY DEF Inv, UserInv
  <2>8. LayoutInv
    BY DEF Inv
  <2> QED BY <2>1, <2>2, <2>3, <2>4, <2>5, <2>6, <2>7, <2>8
          DEF TypeOK, Macs, Notices, Requests, Threads, LayoutInv
<1> QED BY <1>1, InvAlways, PTL

(* The focus order lists a window once, led by the window the window       *)
(* server last named (focus_order.rs, FocusOrder::touch and forget).       *)
THEOREM OrderIsLed == Spec => []OrderLed
<1>1. Inv => OrderLed
  BY DEF Inv, Sound, Once, OrderLed
<1> QED BY <1>1, InvAlways, PTL

(* In whatever order the window server's, the controller's and the         *)
(* threads' reports come in, once all have the tracker names the window    *)
(* macOS has in focus (focus.rs, handle_event and main_window).            *)
THEOREM ReportsAreSettled == Spec => []ReportsSettle
<1>1. Inv => ReportsSettle
  <2> SUFFICES ASSUME Inv, Quiescent, tracker.authoritative, KeyWindow \in Managed
               PROVE  MainWindow(tracker) = KeyWindow
    BY DEF ReportsSettle
  <2>1. inbox = <<>> /\ edges = <<>> /\ ~wake /\ resolved = NotRead
    BY DEF Quiescent
  <2>2. tracker.globalFront = mac.front
    <3>1. PICK z : Leads(tracker.globalFront, <<>>, z) /\ LeadOn(z, <<>>, mac.front)
      BY <2>1 DEF Inv, FrontInv
    <3> QED BY <3>1, LeadsNowhere, NoBatch
  <2>3. tracker.serverFocus = KeyWindow
    <3>1. ~Tells(<<>>, KeyWindow)
      BY DEF Tells
    <3>2. ~resolved.read
      BY <2>1 DEF NotRead
    <3> QED BY <2>1, <3>1, <3>2 DEF Inv, KeyInv, Keyed, Names
  <2>4. mac.front \in App /\ KeyWindow # NoWindow /\ mac.front # NoApp
    BY TrackerAssumption DEF Inv, MacInv, Macs, Managed
  <2>5. AppOf[KeyWindow] = mac.front
    BY <2>4 DEF Inv, MacInv, Owns, KeyWindow
  <2> QED BY <2>2, <2>3, <2>4, <2>5 DEF MainWindow
<1> QED BY <1>1, InvAlways, PTL
=============================================================================
