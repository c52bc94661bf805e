---------------------------- MODULE FlightProofs ----------------------------
(***************************************************************************)
(* The transition engine keeps its contract with the pictures service and  *)
(* the reactor, for every set of windows, places and scenarios: however    *)
(* late the renderer and the pictures are, whatever merges, is held or is  *)
(* given up, the screen is pictured at rest only with the overlay down.    *)
(* The lemmas on what is owed and on the layout, of which                  *)
(* FlightLayoutProofs makes its invariant, come before the whole.          *)
(***************************************************************************)
EXTENDS Flight, Integers, TLAPS, WellFoundedInduction

-----------------------------------------------------------------------------
(* Recursive functions over 0..n, by induction on a set of numbers.        *)

LEMMA SetInduction ==
    ASSUME NEW T, 0 \in T, \A n \in Nat : n \in T => n + 1 \in T
    PROVE  Nat \subseteq T
<1> DEFINE U == { n \in Nat : n \notin T }
           R == OpToRel(<, Nat)
<1>1. IsWellFoundedOn(R, Nat)
  BY NatLessThanWellFounded
<1> SUFFICES ASSUME U # {} PROVE FALSE
  OBVIOUS
<1>2. \E x \in U : \A y \in U : ~ (<<y, x>> \in R)
  <2> HIDE DEF R
  <2>1. U \subseteq Nat OBVIOUS
  <2> HIDE DEF U
  <2> QED BY <1>1, <2>1, WFMin
<1>3. \A x, y \in Nat : x < y => <<x, y>> \in R
  BY DEF OpToRel
<1> HIDE DEF R
<1> PICK x \in U : \A y \in U : ~ (<<y, x>> \in R)
  BY <1>2
<1>4. x \in Nat /\ x # 0 /\ x \notin T
  OBVIOUS
<1>5. PICK z \in Nat : x = z + 1
  <2>1. x - 1 \in Nat /\ x = (x - 1) + 1
    BY <1>4
  <2> QED BY <2>1
<1>6. z \notin T
  BY <1>4, <1>5
<1>7. z \in U /\ <<z, x>> \in R
  BY <1>3, <1>4, <1>5, <1>6
<1> QED BY <1>7

(* Sift is the last of a sequence each index of owed may lengthen.         *)
GrowsBy(u, owed, kept) ==
    /\ u[0] = <<>>
    /\ \A i \in 1..Len(owed) : /\ i \in kept => u[i] = Append(u[i - 1], owed[i])
                               /\ i \notin kept => u[i] = u[i - 1]
    /\ Sift(owed, kept) = u[Len(owed)]

LEMMA SiftGrows ==
    ASSUME NEW X, NEW owed \in Seq(X), NEW kept
    PROVE  \E u : GrowsBy(u, owed, kept)
<1> DEFINE n == Len(owed)
           Grown(h, i) == IF i \in kept THEN Append(h[i - 1], owed[i]) ELSE h[i - 1]
           Upto(f, m) == f = [i \in 0..m |-> IF i = 0 THEN <<>> ELSE Grown(f, i)]
           T == { m \in Nat : \E f : Upto(f, m) }
<1>1. Nat \subseteq T
  <2>1. 0 \in T
    <3>1. Upto([i \in 0..0 |-> <<>>], 0)
      OBVIOUS
    <3> QED BY <3>1
  <2>2. ASSUME NEW m \in Nat, m \in T PROVE m + 1 \in T
    <3>1. PICK f : Upto(f, m)
      BY <2>2
    <3> DEFINE g == [i \in 0..(m + 1) |-> IF i = m + 1 THEN Grown(f, m + 1) ELSE f[i]]
    <3>0. f[0] = <<>> /\ \A i \in 1..m : f[i] = Grown(f, i)
      <4> HIDE DEF Grown
      <4> QED BY <3>1
    <3>2. g[0] = <<>>
      BY <3>0
    <3>3. \A i \in 1..(m + 1) : g[i] = Grown(f, i)
      <4> HIDE DEF Grown
      <4>1. g[m + 1] = Grown(f, m + 1) /\ \A i \in 1..m : g[i] = f[i]
        OBVIOUS
      <4> HIDE DEF g
      <4>2. \A i \in 1..(m + 1) : i = m + 1 \/ i \in 1..m
        OBVIOUS
      <4> QED BY <4>1, <4>2, <3>0
    <3>4. \A i \in 1..(m + 1) : Grown(f, i) = Grown(g, i)
      OBVIOUS
    <3>5. g = [i \in 0..(m + 1) |-> IF i = 0 THEN <<>> ELSE Grown(g, i)]
      <4>1. \A i \in 0..(m + 1) : g[i] = IF i = 0 THEN <<>> ELSE Grown(g, i)
        <5> HIDE DEF g, Grown
        <5> QED BY <3>2, <3>3, <3>4
      <4>2. g = [i \in 0..(m + 1) |-> g[i]]
        OBVIOUS
      <4> HIDE DEF g, Grown
      <4> QED BY <4>1, <4>2
    <3>6. Upto(g, m + 1)
      <4> HIDE DEF g
      <4> QED BY <3>5
    <3> HIDE DEF g, Upto
    <3> QED BY <3>6
  <2> HIDE DEF T
  <2> QED BY <2>1, <2>2, SetInduction
<1>2. n \in Nat
  OBVIOUS
<1> DEFINE u == CHOOSE f : Upto(f, n)
<1>3. Upto(u, n)
  BY <1>1, <1>2
<1>4. Sift(owed, kept) = u[n]
  BY DEF Sift
<1>6. u[0] = <<>> /\ \A i \in 1..n : u[i] = Grown(u, i)
  <2> HIDE DEF u, Grown
  <2> QED BY <1>2, <1>3
<1> HIDE DEF u
<1>7. GrowsBy(u, owed, kept)
  BY <1>4, <1>6 DEF GrowsBy
<1> QED BY <1>7

(* e tells where each of h was among the first m of owed, in their order.  *)
PickedBy(e, h, owed, kept, m) ==
    /\ e \in [DOMAIN h -> 1..m]
    /\ \A j \in DOMAIN h : e[j] \in kept /\ h[j] = owed[e[j]]
    /\ \A i, j \in DOMAIN h : i < j => e[i] < e[j]
    /\ \A i \in 1..m : i \in kept => \E j \in DOMAIN h : e[j] = i

LEMMA OneMorePicked ==
    ASSUME NEW X, NEW owed \in Seq(X), NEW kept, NEW m \in Nat, m + 1 <= Len(owed), m + 1 \in kept,
           NEW h \in Seq(X), NEW e, PickedBy(e, h, owed, kept, m)
    PROVE  \E d : PickedBy(d, Append(h, owed[m + 1]), owed, kept, m + 1)
<1> PICK l : l = Len(h)
  OBVIOUS
<1> DEFINE k == Append(h, owed[m + 1])
           d == [j \in 1..(l + 1) |-> IF j = l + 1 THEN m + 1 ELSE e[j]]
<1>1. l \in Nat /\ DOMAIN h = 1..l
  OBVIOUS
<1>2. DOMAIN k = 1..(l + 1) /\ k[l + 1] = owed[m + 1] /\ \A j \in DOMAIN h : k[j] = h[j]
  <2>1. owed[m + 1] \in X
    OBVIOUS
  <2> QED BY <1>1, <2>1
<1>3. DOMAIN d = 1..(l + 1) /\ d[l + 1] = m + 1 /\ \A j \in 1..l : d[j] = e[j]
  BY ONLY l \in Nat
<1> HIDE DEF d, k
<1>4. \A j \in 1..(l + 1) : j = l + 1 \/ (j \in 1..l /\ j < l + 1)
  BY <1>1
<1>5. \A j \in 1..l : e[j] \in 1..m /\ e[j] < m + 1 /\ e[j] \in 1..(m + 1)
  <2>1. \A j \in 1..l : e[j] \in 1..m
    BY <1>1 DEF PickedBy
  <2> QED BY <2>1
<1>6. \A j \in DOMAIN k : d[j] \in 1..(m + 1) /\ d[j] \in kept /\ k[j] = owed[d[j]]
  <2>1. m + 1 \in 1..(m + 1)
    OBVIOUS
  <2> QED BY <1>1, <1>2, <1>3, <1>4, <1>5, <2>1 DEF PickedBy
<1>7. ASSUME NEW i \in DOMAIN k, NEW j \in DOMAIN k, i < j PROVE d[i] < d[j]
  <2>1. i \in 1..l
    BY <1>1, <1>2, <1>7
  <2>2. CASE j = l + 1
    BY <1>3, <1>5, <2>1, <2>2
  <2>3. CASE j \in 1..l
    BY <1>1, <1>3, <1>7, <2>1, <2>3 DEF PickedBy
  <2> QED BY <1>2, <1>4, <2>2, <2>3
<1>8. ASSUME NEW i \in 1..(m + 1), i \in kept PROVE \E j \in DOMAIN k : d[j] = i
  <2>1. CASE i = m + 1
    <3>1. l + 1 \in DOMAIN k
      BY <1>1, <1>2
    <3> QED BY <1>3, <2>1, <3>1
  <2>2. CASE i # m + 1
    <3>1. i \in 1..m
      BY <2>2
    <3>2. PICK j \in DOMAIN h : e[j] = i
      BY <1>8, <3>1 DEF PickedBy
    <3>3. j \in DOMAIN k /\ d[j] = e[j]
      BY <1>1, <1>2, <1>3
    <3> QED BY <3>2, <3>3
  <2> QED BY <2>1, <2>2
<1>9. d \in [DOMAIN k -> 1..(m + 1)]
  <2>1. d = [j \in DOMAIN k |-> d[j]]
    BY <1>2 DEF d
  <2> QED BY <1>6, <2>1
<1> QED BY <1>6, <1>7, <1>8, <1>9 DEF PickedBy, k

LEMMA SiftedInOrder ==
    ASSUME NEW X, NEW owed \in Seq(X), NEW kept
    PROVE  /\ Sift(owed, kept) \in Seq(X)
           /\ \E e : PickedBy(e, Sift(owed, kept), owed, kept, Len(owed))
<1> PICK n : n = Len(owed)
  OBVIOUS
<1>1. n \in Nat
  OBVIOUS
<1> PICK u : GrowsBy(u, owed, kept)
  BY SiftGrows
<1>2. /\ u[0] = <<>>
      /\ \A i \in 1..n : /\ i \in kept => u[i] = Append(u[i - 1], owed[i])
                         /\ i \notin kept => u[i] = u[i - 1]
      /\ Sift(owed, kept) = u[n]
  BY DEF GrowsBy
<1> DEFINE Picked(m) == u[m] \in Seq(X) /\ \E e : PickedBy(e, u[m], owed, kept, m)
           V == { m \in Nat : m <= n => Picked(m) }
<1>3. Nat \subseteq V
  <2>1. Picked(0)
    <3>1. u[0] \in Seq(X) /\ DOMAIN u[0] = {} /\ 1..0 = {}
      BY <1>2
    <3>2. PickedBy([j \in {} |-> j], u[0], owed, kept, 0)
      BY <3>1 DEF PickedBy
    <3> QED BY <3>1, <3>2
  <2>2. ASSUME NEW m \in Nat, m + 1 <= n, Picked(m) PROVE Picked(m + 1)
    <3>1. /\ m + 1 \in kept => u[m + 1] = Append(u[m], owed[m + 1])
          /\ m + 1 \notin kept => u[m + 1] = u[m]
      <4>1. m + 1 \in 1..n /\ (m + 1) - 1 = m
        BY <1>1, <2>2
      <4> QED BY <1>2, <4>1
    <3>2. PICK e : PickedBy(e, u[m], owed, kept, m)
      BY <2>2
    <3>3. CASE m + 1 \in kept
      <4>1. owed[m + 1] \in X
        BY <2>2
      <4>2. Append(u[m], owed[m + 1]) \in Seq(X)
        BY <2>2, <4>1
      <4>3. \E d : PickedBy(d, Append(u[m], owed[m + 1]), owed, kept, m + 1)
        BY <2>2, <3>2, <3>3, OneMorePicked
      <4> QED BY <3>1, <3>3, <4>2, <4>3
    <3>4. CASE m + 1 \notin kept
      <4>1. \A i \in 1..(m + 1) : i = m + 1 \/ i \in 1..m
        OBVIOUS
      <4>2. 1..m \subseteq 1..(m + 1)
        OBVIOUS
      <4>3. e \in [DOMAIN u[m] -> 1..(m + 1)]
        BY <3>2, <4>2 DEF PickedBy
      <4>4. PickedBy(e, u[m], owed, kept, m + 1)
        BY <3>2, <3>4, <4>1, <4>3 DEF PickedBy
      <4> QED BY <2>2, <3>1, <3>4, <4>4
    <3> QED BY <3>3, <3>4
  <2>3. ASSUME NEW m \in Nat, m \in V PROVE m + 1 \in V
    <3> HIDE DEF Picked
    <3>1. m + 1 <= n => m <= n
      BY <1>1
    <3>2. m <= n => Picked(m)
      BY <2>3
    <3>3. m + 1 <= n => Picked(m + 1)
      <4> HIDE DEF V
      <4> QED BY <2>2, <3>1, <3>2
    <3> QED BY <3>3
  <2>4. 0 \in V
    <3> HIDE DEF Picked
    <3> QED BY <2>1
  <2> HIDE DEF V
  <2>5. \A m \in Nat : m \in V => m + 1 \in V
    BY <2>3
  <2> QED BY <2>4, <2>5, SetInduction
<1>4. Picked(n)
  <2> HIDE DEF Picked
  <2> QED BY <1>1, <1>3
<1> QED BY <1>2, <1>4

(* What is left of owed is what was at the indexes kept.                   *)
LeftOf(left, owed, kept) ==
    /\ \A j \in DOMAIN left : \E i \in DOMAIN owed : i \in kept /\ owed[i] = left[j]
    /\ \A i \in DOMAIN owed : i \in kept => \E j \in DOMAIN left : left[j] = owed[i]

LEMMA Sifted ==
    ASSUME NEW X, NEW owed \in Seq(X), NEW kept
    PROVE  Sift(owed, kept) \in Seq(X) /\ LeftOf(Sift(owed, kept), owed, kept)
<1> PICK left : left = Sift(owed, kept)
  OBVIOUS
<1>1. left \in Seq(X) /\ \E e : PickedBy(e, left, owed, kept, Len(owed))
  BY SiftedInOrder
<1>2. PICK e : PickedBy(e, left, owed, kept, Len(owed))
  BY <1>1
<1>3. DOMAIN owed = 1..Len(owed)
  OBVIOUS
<1>4. \A j \in DOMAIN left : e[j] \in DOMAIN owed /\ e[j] \in kept /\ owed[e[j]] = left[j]
  BY <1>2, <1>3 DEF PickedBy
<1>5. \A i \in DOMAIN owed : i \in kept => \E j \in DOMAIN left : left[j] = owed[i]
  BY <1>2, <1>3, <1>4 DEF PickedBy
<1> QED BY <1>1, <1>4, <1>5 DEF LeftOf

-----------------------------------------------------------------------------
(* The record an event works on has the fields the engine's parts have.    *)
Shape(s) ==
    /\ DOMAIN s = {"co", "en", "pics", "re", "before", "batch", "extends"}
    /\ DOMAIN s.co = {"state", "generation", "settles", "flight"}
    /\ DOMAIN s.en = {"passes", "final", "shown", "lifted", "lift", "quiet", "owed", "delivered", "worn"}
    /\ DOMAIN s.pics = {"hold", "watch", "zeros"}
    /\ DOMAIN s.re = {"goal", "written", "reported", "requests", "scenario"}

FlightFields ==
    {"generation", "began", "at", "kind", "phase", "clock", "zeroOwed", "asked", "ends", "final",
     "since", "sentBy", "waits", "waiting", "merge"}

Commands == {"stage", "show", "lift"}

Sequence(sq) == sq \in Seq({ sq[i] : i \in DOMAIN sq })

Effect(o, top) ==
    /\ DOMAIN o = {"after", "own", "owed"}
    /\ o.after \in 1..top /\ o.own \in BOOLEAN
    /\ DOMAIN o.owed = {"what", "frames", "generation"}
    /\ o.owed.what \in {"write", "settle", "quiet"}

OwedOK(owed, top) == Sequence(owed) /\ \A i \in DOMAIN owed : Effect(owed[i], top)

(* What a lift owes: the bar's picture and the quiet.                      *)
LiftOwed(owed) == { owed[i] : i \in { j \in DOMAIN owed : owed[j].owed.what # "write" } }

(* The batches handed over once this event is.                             *)
Top(s) == s.before + (IF s.batch = {} THEN 0 ELSE 1)

Fit(s) ==
    /\ Shape(s)
    /\ s.before \in Nat /\ s.batch \subseteq Commands
    /\ s.en.shown \in 0..Top(s) /\ OwedOK(s.en.owed, Top(s)) /\ Sequence(s.en.passes)
    /\ s.co.generation \in Nat
    /\ Flying(s) => DOMAIN s.co.flight = FlightFields /\ s.co.flight.generation = s.co.generation

(* What leaves the flight's stage, and what a lift owes, alone; at most it *)
(* poses the flight.                                                       *)
Along(t, s) ==
    /\ t.co.state = s.co.state /\ t.co.settles = s.co.settles
    /\ t.co.generation >= s.co.generation
    /\ t.pics.hold = s.pics.hold /\ t.re.reported = s.re.reported
    /\ t.en.lift = s.en.lift /\ t.en.quiet = s.en.quiet
    /\ LiftOwed(t.en.owed) = LiftOwed(s.en.owed)
    /\ t.before = s.before
    /\ s.batch \subseteq t.batch /\ t.batch \subseteq s.batch \cup {"stage"}

LEMMA AlongAgain ==
    ASSUME NEW s, NEW t, NEW u, Fit(s), Fit(t), Fit(u), Along(t, s), Along(u, t) PROVE Along(u, s)
<1>1. s.co.generation \in Nat /\ t.co.generation \in Nat /\ u.co.generation \in Nat
  BY DEF Fit
<1> QED BY <1>1 DEF Along

(* One more effect owed.                                                   *)
LEMMA OwedAppend ==
    ASSUME NEW owed, NEW top \in Nat, OwedOK(owed, top), NEW o, Effect(o, top)
    PROVE  /\ OwedOK(Append(owed, o), top)
           /\ o.owed.what = "write" => LiftOwed(Append(owed, o)) = LiftOwed(owed)
<1> DEFINE X == { owed[i] : i \in DOMAIN owed } \cup {o}
           more == Append(owed, o)
<1>1. owed \in Seq(X)
  BY DEF OwedOK, Sequence
<1>2. /\ more \in Seq(X) /\ DOMAIN more = 1..(Len(owed) + 1) /\ DOMAIN owed = 1..Len(owed)
      /\ Len(owed) \in Nat /\ more[Len(owed) + 1] = o /\ \A i \in DOMAIN owed : more[i] = owed[i]
  BY <1>1
<1> HIDE DEF more
<1>3. \A i \in DOMAIN more : i \in DOMAIN owed \/ i = Len(owed) + 1
  BY <1>2
<1>4. DOMAIN owed \subseteq DOMAIN more /\ Len(owed) + 1 \in DOMAIN more
  BY <1>2
<1>5. Sequence(more)
  <2>1. more \in Seq({ more[i] : i \in DOMAIN more })
    <3>1. Len(more) \in Nat /\ more = [i \in 1..Len(more) |-> more[i]]
      BY <1>2
    <3> QED BY <3>1
  <2> QED BY <2>1 DEF Sequence
<1>6. \A i \in DOMAIN more : Effect(more[i], top)
  BY <1>2, <1>3 DEF OwedOK
<1>7. ASSUME o.owed.what = "write" PROVE LiftOwed(more) = LiftOwed(owed)
  BY <1>2, <1>3, <1>4, <1>7 DEF LiftOwed
<1> QED BY <1>5, <1>6, <1>7 DEF OwedOK, more

(* A greater number of batches.                                            *)
LEMMA OwedUpTo ==
    ASSUME NEW owed, NEW m \in Nat, NEW n \in Nat, m <= n, OwedOK(owed, m)
    PROVE  OwedOK(owed, n)
<1>1. 1..m \subseteq 1..n
  OBVIOUS
<1> QED BY <1>1 DEF OwedOK, Effect

LEMMA RenderAlong ==
    ASSUME NEW s, Fit(s), NEW c \in Commands
    PROVE  /\ Fit(Render(s, c))
           /\ c = "stage" => Along(Render(s, c), s)
<1> DEFINE t == Render(s, c)
<1>1. /\ Shape(t) /\ t.batch = s.batch \cup {c}
      /\ t.co = s.co /\ t.en = s.en /\ t.pics = s.pics /\ t.re = s.re /\ t.before = s.before
  BY DEF Render, Fit, Shape
<1> HIDE DEF t
<1>2. Top(s) \in Nat /\ Top(t) \in Nat /\ Top(s) <= Top(t)
  BY <1>1 DEF Top, Fit
<1>3. OwedOK(s.en.owed, Top(t))
  BY <1>2, OwedUpTo DEF Fit
<1>4. s.en.shown \in 0..Top(t)
  BY <1>2 DEF Fit
<1>5. Fit(t)
  BY <1>1, <1>3, <1>4 DEF Fit, Flying
<1>6. c = "stage" => Along(t, s)
  BY <1>1 DEF Along, Fit
<1> QED BY <1>5, <1>6 DEF t

LEMMA WritesAlong ==
    ASSUME NEW s, Fit(s), NEW frames
    PROVE  Fit(Writes(s, frames)) /\ Along(Writes(s, frames), s)
           /\ Writes(s, frames).co = s.co /\ Writes(s, frames).batch = s.batch
<1> DEFINE o == [after |-> s.en.shown, own |-> TRUE, owed |-> Write(frames)]
           more == Append(s.en.owed, o)
           now  == [s EXCEPT !.re.written = ExtendLatest(@, frames)]
           late == [s EXCEPT !.en.owed = more]
<1>1. Writes(s, frames) \in {s, now, late}
      /\ (Writes(s, frames) = late => Writes(s, frames) \in {s, now} \/ s.en.shown # 0)
  BY DEF Writes, Owe, Carry, Write
<1>2. Along(s, s)
  BY DEF Along, Fit
<1>3. Fit(now) /\ Along(now, s) /\ now.co = s.co /\ now.batch = s.batch
  BY DEF Fit, Along, Shape, Top, Flying
<1>4. ASSUME s.en.shown # 0 PROVE Fit(late) /\ Along(late, s) /\ late.co = s.co /\ late.batch = s.batch
  <2>1. Top(s) \in Nat
    BY DEF Top, Fit
  <2>2. Effect(o, Top(s)) /\ o.owed.what = "write"
    BY <1>4, <2>1 DEF Effect, Fit, Write
  <2> HIDE DEF o
  <2>3. OwedOK(more, Top(s)) /\ LiftOwed(more) = LiftOwed(s.en.owed)
    BY <2>1, <2>2, OwedAppend DEF Fit
  <2> HIDE DEF more
  <2> QED BY <2>3 DEF Fit, Along, Shape, Top, Flying
<1> HIDE DEF now, late
<1> QED BY <1>1, <1>2, <1>3, <1>4

LEMMA WatchesAlong ==
    ASSUME NEW s, Fit(s)
    PROVE  Fit(Watches(s)) /\ Along(Watches(s), s) /\ Watches(s).co = s.co /\ Watches(s).batch = s.batch
<1>1. \E watch : Watches(s) \in {s, [s EXCEPT !.pics.watch = watch]}
  BY DEF Watches
<1>2. PICK watch : Watches(s) \in {s, [s EXCEPT !.pics.watch = watch]}
  BY <1>1
<1>3. Along(s, s)
  BY DEF Along, Fit
<1>4. Fit([s EXCEPT !.pics.watch = watch]) /\ Along([s EXCEPT !.pics.watch = watch], s)
      /\ [s EXCEPT !.pics.watch = watch].co = s.co /\ [s EXCEPT !.pics.watch = watch].batch = s.batch
  BY DEF Fit, Along, Shape, Top, Flying
<1> QED BY <1>2, <1>3, <1>4

(* A flight changed in its fields but its generation.                      *)
LEMMA FlightAlong ==
    ASSUME NEW s, Fit(s), NEW f, Flying(s) => DOMAIN f = FlightFields /\ f.generation = s.co.generation
    PROVE  Fit([s EXCEPT !.co.flight = f]) /\ Along([s EXCEPT !.co.flight = f], s)
           /\ [s EXCEPT !.co.flight = f].batch = s.batch
<1> DEFINE t == [s EXCEPT !.co.flight = f]
<1>1. Shape(t) /\ t.en = s.en /\ t.pics = s.pics /\ t.re = s.re /\ t.batch = s.batch /\ t.before = s.before
  BY DEF Fit, Shape
<1>2. t.co.state = s.co.state /\ t.co.generation = s.co.generation /\ t.co.settles = s.co.settles /\ t.co.flight = f
  BY DEF Fit, Shape
<1> HIDE DEF t
<1>3. Fit(t)
  BY <1>1, <1>2 DEF Fit, Flying, Top
<1>4. Along(t, s)
  BY <1>1, <1>2 DEF Along, Fit
<1> QED BY <1>1, <1>3, <1>4 DEF t

LEMMA StartMovingAlong ==
    ASSUME NEW s, Fit(s)
    PROVE  Fit(StartMoving(s)) /\ Along(StartMoving(s), s) /\ StartMoving(s).batch = s.batch
<1> DEFINE f == [s.co.flight EXCEPT !.phase = "playing", !.clock = "running"]
<1>1. StartMoving(s) \in {s, [s EXCEPT !.co.flight = f]}
  BY DEF StartMoving
<1>2. Flying(s) => DOMAIN f = FlightFields /\ f.generation = s.co.generation
  BY DEF Fit, FlightFields
<1> HIDE DEF f
<1>3. Along(s, s)
  BY DEF Along, Fit
<1> QED BY <1>1, <1>2, <1>3, FlightAlong

LEMMA HoldOrMoveAlong ==
    ASSUME NEW s, Fit(s)
    PROVE  Fit(HoldOrMove(s)) /\ Along(HoldOrMove(s), s) /\ HoldOrMove(s).batch = s.batch
<1> DEFINE f == [s.co.flight EXCEPT !.phase = "holding"]
<1>1. HoldOrMove(s) \in {StartMoving(s), [s EXCEPT !.co.flight = f]}
  BY DEF HoldOrMove, Fit, Shape
<1>2. Flying(s) => DOMAIN f = FlightFields /\ f.generation = s.co.generation
  BY DEF Fit, FlightFields
<1> HIDE DEF f
<1> QED BY <1>1, <1>2, FlightAlong, StartMovingAlong

LEMMA ExtendAlong ==
    ASSUME NEW s, Fit(s)
    PROVE  Fit(Extend(s)) /\ Along(Extend(s), s) /\ Extend(s).batch = s.batch
<1> DEFINE f == [s.co.flight EXCEPT !.clock = "running"]
<1>1. Extend(s) \in {s, [s EXCEPT !.co.flight = f]}
  BY DEF Extend, Fit, Shape
<1>2. Flying(s) => DOMAIN f = FlightFields /\ f.generation = s.co.generation
  BY DEF Fit, FlightFields
<1> HIDE DEF f
<1>3. Along(s, s)
  BY DEF Along, Fit
<1> QED BY <1>1, <1>2, <1>3, FlightAlong

(* The overlay's batch is the one the writes wait for.                     *)
LEMMA ShowAlong ==
    ASSUME NEW s, Fit(s)
    PROVE  Fit(Show(s)) /\ Along(Show(s), Render(s, "show"))
<1> DEFINE f == s.co.flight
           rendered == Render(s, "show")
           shown == [rendered EXCEPT !.en.shown = Batch(s)]
           watched == Watches(IF f.kind = "bounce" THEN shown ELSE Writes(shown, f.final))
           g     == [watched.co.flight EXCEPT !.waiting = Holdable(f)]
           held  == [watched EXCEPT !.co.flight = g]
           h     == [held.co.flight EXCEPT !.phase = "coalescing"]
           coalescing == [held EXCEPT !.co.flight = h]
<1>1. Show(s) \in {coalescing, HoldOrMove(held)}
  <2> DEFINE asShown == [watched EXCEPT !.co.flight.waiting = Holdable(f)]
             asCoalescing == [asShown EXCEPT !.co.flight.phase = "coalescing"]
  <2>1. Show(s) \in {asCoalescing, HoldOrMove(asShown)}
    BY DEF Show
  <2>2. asShown = held
    <3> HIDE DEF watched
    <3> QED OBVIOUS
  <2> HIDE DEF asShown, held
  <2>3. asCoalescing = coalescing /\ HoldOrMove(asShown) = HoldOrMove(held)
    BY <2>2
  <2> QED BY <2>1, <2>3
<1>2. Fit(rendered) /\ rendered.before = s.before /\ rendered.batch # {}
  BY RenderAlong DEF Commands, Render, Fit, Shape
<1> HIDE DEF rendered
<1>3. Fit(shown) /\ Along(shown, rendered)
  BY <1>2 DEF Fit, Along, Shape, Top, Flying, Batch
<1> HIDE DEF shown
<1>4. Fit(watched) /\ Along(watched, rendered)
  <2>1. Fit(Writes(shown, f.final)) /\ Along(Writes(shown, f.final), rendered)
    BY <1>2, <1>3, WritesAlong, AlongAgain
  <2> DEFINE written == IF f.kind = "bounce" THEN shown ELSE Writes(shown, f.final)
  <2>2. Fit(written) /\ Along(written, rendered)
    BY <1>3, <2>1
  <2> HIDE DEF written
  <2>3. Fit(Watches(written)) /\ Along(Watches(written), rendered)
    BY <1>2, <2>2, WatchesAlong, AlongAgain
  <2> QED BY <2>3 DEF written
<1> HIDE DEF watched
<1>5. Flying(watched) => DOMAIN g = FlightFields /\ g.generation = watched.co.generation
  BY <1>4 DEF Fit, FlightFields
<1> HIDE DEF g
<1>6. Fit(held) /\ Along(held, rendered)
  BY <1>2, <1>4, <1>5, FlightAlong, AlongAgain
<1> HIDE DEF held
<1>7. Flying(held) => DOMAIN h = FlightFields /\ h.generation = held.co.generation
  BY <1>6 DEF Fit, FlightFields
<1> HIDE DEF h
<1>8. Fit(coalescing) /\ Along(coalescing, rendered)
  BY <1>2, <1>6, <1>7, FlightAlong, AlongAgain
<1> HIDE DEF coalescing
<1>9. Fit(HoldOrMove(held)) /\ Along(HoldOrMove(held), rendered)
  BY <1>2, <1>6, HoldOrMoveAlong, AlongAgain
<1> QED BY <1>1, <1>8, <1>9 DEF rendered

(* What the engine holds owes nothing.                                     *)
LEMMA PassesAlong ==
    ASSUME NEW s, Fit(s), NEW passes, Sequence(passes)
    PROVE  Fit([s EXCEPT !.en.passes = passes]) /\ Along([s EXCEPT !.en.passes = passes], s)
           /\ [s EXCEPT !.en.passes = passes].co = s.co
<1> DEFINE t == [s EXCEPT !.en.passes = passes]
<1>1. /\ DOMAIN t.en = DOMAIN s.en /\ t.en.owed = s.en.owed /\ t.en.shown = s.en.shown
      /\ t.en.lift = s.en.lift /\ t.en.quiet = s.en.quiet /\ t.en.passes = passes
  BY DEF Fit, Shape
<1>2. /\ DOMAIN t = DOMAIN s /\ t.co = s.co /\ t.pics = s.pics /\ t.re = s.re
      /\ t.batch = s.batch /\ t.before = s.before
  BY DEF Fit, Shape
<1> HIDE DEF t
<1>3. Fit(t) /\ Along(t, s)
  BY <1>1, <1>2 DEF Fit, Shape, Top, Flying, Along
<1> QED BY <1>2, <1>3 DEF t

LEMMA DrawsAlong ==
    ASSUME NEW s, Fit(s), NEW pics
    PROVE  Fit(Draws(s, pics)) /\ Along(Draws(s, pics), s)
<1> DEFINE f == s.co.flight
           swapped == { w \in DOMAIN pics :
                          /\ Takes(f, w, pics[w]) /\ ~Keeps(f, w)
                          /\ w \in DOMAIN s.en.delivered
                          /\ s.en.delivered[w].generation = pics[w].generation }
           posed   == IF swapped # {} /\ f.clock = "none" THEN Render(s, "stage") ELSE s
           t == [posed EXCEPT !.en.worn = [w \in Window |-> IF w \in swapped THEN s.en.delivered[w].taken ELSE @[w]],
                     !.en.delivered = Restrict(@, DOMAIN @ \ swapped)]
<1>1. Draws(s, pics) = t
  BY DEF Draws
<1>2. posed \in {s, Render(s, "stage")}
  OBVIOUS
<1> HIDE DEF posed, swapped
<1>3. Along(s, s) /\ "stage" \in Commands
  BY DEF Along, Fit, Commands
<1>4. Fit(posed) /\ Along(posed, s)
  BY <1>2, <1>3, RenderAlong
<1>5. Fit(t) /\ Along(t, posed)
  <2> DEFINE e == t.en
  <2>1. /\ DOMAIN e = DOMAIN posed.en /\ e.owed = posed.en.owed /\ e.shown = posed.en.shown
        /\ e.passes = posed.en.passes
        /\ e.lift = posed.en.lift /\ e.quiet = posed.en.quiet
    BY <1>4 DEF Fit, Shape
  <2>2. /\ DOMAIN t = DOMAIN posed /\ t.co = posed.co /\ t.pics = posed.pics /\ t.re = posed.re
        /\ t.batch = posed.batch /\ t.before = posed.before
    BY <1>4 DEF Fit, Shape
  <2> HIDE DEF t
  <2> QED BY <2>1, <2>2, <1>4 DEF Fit, Shape, Top, Flying, Along
<1> HIDE DEF t
<1>6. Fit(t) /\ Along(t, s)
  BY <1>4, <1>5, AlongAgain
<1> QED BY <1>1, <1>6

LEMMA AsksFrameZeroAlong ==
    ASSUME NEW s, Fit(s)
    PROVE  Fit(AsksFrameZeroAgain(s)) /\ Along(AsksFrameZeroAgain(s), s)
<1> DEFINE unasked == { w \in DOMAIN s.co.flight.ends \ s.co.flight.asked : reactor.written[w] \in Seen }
           t == [s EXCEPT !.co.flight.asked = @ \cup unasked, !.co.flight.zeroOwed = @ + 1,
                          !.pics.zeros = Append(@, s.co.flight.began)]
<1>1. AsksFrameZeroAgain(s) = IF unasked = {} THEN s ELSE t
  BY DEF AsksFrameZeroAgain
<1> HIDE DEF unasked
<1>2. Flying(s) => DOMAIN t.co.flight = FlightFields /\ t.co.flight.generation = s.co.generation
  BY DEF Fit, Shape, FlightFields
<1>4. /\ DOMAIN t = DOMAIN s /\ t.en = s.en /\ t.re = s.re /\ t.batch = s.batch /\ t.before = s.before
  BY DEF Fit, Shape
<1>5. /\ DOMAIN t.co = DOMAIN s.co /\ t.co.state = s.co.state /\ t.co.settles = s.co.settles
      /\ t.co.generation = s.co.generation
  BY DEF Fit, Shape
<1>6. DOMAIN t.pics = DOMAIN s.pics /\ t.pics.hold = s.pics.hold
  BY DEF Fit, Shape
<1> HIDE DEF t
<1>7. Fit(t) /\ Along(t, s)
  BY <1>2, <1>4, <1>5, <1>6 DEF Fit, Shape, Top, Flying, Along
<1>8. Along(s, s)
  BY DEF Along, Fit
<1> QED BY <1>1, <1>7, <1>8

LEMMA MergeAlong ==
    ASSUME NEW s, Fit(s), Flying(s), NEW pass
    PROVE  Fit(Merge(s, pass)) /\ Along(Merge(s, pass), s)
<1> DEFINE f         == s.co.flight
           preparing == f.phase = "preparing"
           flown     == f.clock # "none"
           overtaken == f.merge.passes > 1
           running   == ExtendLatest(s.en.final, pass.final)
           ends      == ExtendLatest(f.ends, pass.ends)
           moved     == flown /\ ends # f.ends
           generation == IF preparing THEN f.generation ELSE s.co.generation + 1
           merged    == [f EXCEPT
               !.generation = generation, !.at = IF preparing THEN @ ELSE pass.at,
               !.kind = pass.kind, !.ends = ends,
               !.final  = IF overtaken THEN @ ELSE running,
               !.since  = EndedSince(f, ends, pass, generation),
               !.sentBy = SentBy(f, ends, pass),
               !.waits  = ExtendLatest(@, pass.waits),
               !.merge  = IF overtaken THEN [f.merge EXCEPT !.passes = @ - 1] ELSE NoMerge,
               !.clock  = IF moved THEN "running" ELSE @]
           holdable  == Holdable(merged)
           joined    == f.waiting \cup (IF flown THEN {} ELSE Grows(pass) \cap holdable)
           g         == IF preparing THEN merged ELSE [merged EXCEPT !.waiting = joined \cap holdable]
           composed  == [s EXCEPT !.en.final = running, !.co.generation = generation, !.co.flight = g]
           written   == Watches(IF overtaken THEN composed ELSE Writes(composed, Changed(f.final, running)))
           freed     == IF f.phase = "holding" /\ joined # {} /\ joined \cap holdable = {}
                        THEN StartMoving(written) ELSE written
           drawn     == IF f.merge.passes = 1 THEN Draws(freed, f.merge.repainted) ELSE freed
<1>1. Merge(s, pass) = IF preparing THEN AsksFrameZeroAgain(composed)
                       ELSE IF flown /\ ~moved THEN Extend(drawn) ELSE drawn
  BY DEF Merge
<1>2. DOMAIN f = FlightFields /\ f.generation = s.co.generation /\ s.co.generation \in Nat
  BY DEF Fit
<1>3. generation \in Nat /\ generation >= s.co.generation
  BY <1>2
<1> HIDE DEF generation
<1>4. DOMAIN merged = FlightFields /\ merged.generation = generation
  BY <1>2 DEF FlightFields
<1> HIDE DEF merged
<1>5. DOMAIN g = FlightFields /\ g.generation = generation
  BY <1>4 DEF FlightFields
<1> HIDE DEF g, running
<1>6. Fit(composed) /\ Along(composed, s)
  <2>1. /\ DOMAIN composed = DOMAIN s /\ composed.pics = s.pics /\ composed.re = s.re
        /\ composed.batch = s.batch /\ composed.before = s.before
    BY DEF Fit, Shape
  <2>2. /\ DOMAIN composed.en = DOMAIN s.en /\ composed.en.owed = s.en.owed /\ composed.en.shown = s.en.shown
        /\ composed.en.passes = s.en.passes
        /\ composed.en.lift = s.en.lift /\ composed.en.quiet = s.en.quiet
    BY DEF Fit, Shape
  <2>3. /\ DOMAIN composed.co = DOMAIN s.co /\ composed.co.generation = generation /\ composed.co.flight = g
        /\ composed.co.state = s.co.state /\ composed.co.settles = s.co.settles
    BY DEF Fit, Shape
  <2> HIDE DEF composed
  <2> QED BY <2>1, <2>2, <2>3, <1>3, <1>5 DEF Fit, Shape, Top, Flying, Along
<1> HIDE DEF composed, overtaken, preparing, flown, moved, joined, holdable
<1>7. Fit(written) /\ Along(written, s)
  <2> DEFINE wrote == Writes(composed, Changed(f.final, running))
             w == IF overtaken THEN composed ELSE wrote
  <2>1. Fit(wrote) /\ Along(wrote, s)
    BY <1>6, WritesAlong, AlongAgain
  <2> HIDE DEF wrote
  <2>2. Fit(w) /\ Along(w, s)
    BY <1>6, <2>1
  <2> HIDE DEF w
  <2>3. Fit(Watches(w)) /\ Along(Watches(w), s)
    BY <2>2, WatchesAlong, AlongAgain
  <2> QED BY <2>3 DEF w, wrote
<1> HIDE DEF written
<1>8. Fit(freed) /\ Along(freed, s)
  <2>1. Fit(StartMoving(written)) /\ Along(StartMoving(written), s)
    BY <1>7, StartMovingAlong, AlongAgain
  <2> QED BY <1>7, <2>1
<1> HIDE DEF freed
<1>9. Fit(drawn) /\ Along(drawn, s)
  <2>1. Fit(Draws(freed, f.merge.repainted)) /\ Along(Draws(freed, f.merge.repainted), s)
    BY <1>8, DrawsAlong, AlongAgain
  <2> QED BY <1>8, <2>1
<1> HIDE DEF drawn
<1>10. Fit(Extend(drawn)) /\ Along(Extend(drawn), s)
  BY <1>9, ExtendAlong, AlongAgain
<1>11. Fit(AsksFrameZeroAgain(composed)) /\ Along(AsksFrameZeroAgain(composed), s)
  BY <1>6, AsksFrameZeroAlong, AlongAgain
<1> QED BY <1>1, <1>9, <1>10, <1>11

(* The flight a merge was held for moves on.                               *)
Resumed(s) ==
    LET f == [s.co.flight EXCEPT !.phase = "playing", !.waiting = {}]
        resumed == IF s.co.flight.phase = "mergeHeld" THEN [s EXCEPT !.co.flight = f] ELSE s
    IN  [resumed EXCEPT !.en.passes = <<>>]

(* Retarget is the last of a sequence, a held pass merged at each step.    *)
MergesBy(merged, s) ==
    /\ merged[0] = Resumed(s)
    /\ \A i \in 1..Len(s.en.passes) : merged[i] = Merge(merged[i - 1], s.en.passes[i])
    /\ Retarget(s) = merged[Len(s.en.passes)]

LEMMA RetargetSteps ==
    ASSUME NEW s, Len(s.en.passes) \in Nat PROVE \E merged : MergesBy(merged, s)
<1> DEFINE passes == s.en.passes
           start == Resumed(s)
           n == Len(passes)
           Step(m, i) == IF i = 0 THEN start ELSE Merge(m[i - 1], passes[i])
           Upto(m, k) == m = [i \in 0..k |-> Step(m, i)]
           T == { k \in Nat : \E m : Upto(m, k) }
           merged == CHOOSE m : Upto(m, n)
<1>1. Retarget(s) = merged[n]
  BY DEF Retarget, Resumed
<1>2. n \in Nat
  OBVIOUS
<1> HIDE DEF start
<1>4. Upto(merged, n)
  <2>1. 0 \in T
    <3>1. Upto([i \in 0..0 |-> start], 0)
      OBVIOUS
    <3> QED BY <3>1
  <2>2. ASSUME NEW k \in Nat, k \in T PROVE k + 1 \in T
    <3>1. PICK m : Upto(m, k)
      BY <2>2
    <3> DEFINE g == [i \in 0..(k + 1) |-> IF i = k + 1 THEN Step(m, k + 1) ELSE m[i]]
    <3>2. \A i \in 0..k : m[i] = Step(m, i)
      <4> HIDE DEF Step
      <4> QED BY <3>1
    <3>3. \A i \in 0..(k + 1) : g[i] = Step(m, i)
      <4> HIDE DEF Step
      <4>1. \A i \in 0..(k + 1) : i = k + 1 \/ i \in 0..k
        OBVIOUS
      <4> QED BY <3>2, <4>1
    <3>4. \A i \in 0..(k + 1) : Step(m, i) = Step(g, i)
      <4>1. \A i \in 0..(k + 1) : i # 0 => i - 1 \in 0..k /\ i - 1 # k + 1
        OBVIOUS
      <4>2. \A i \in 0..k : g[i] = m[i]
        OBVIOUS
      <4> HIDE DEF g
      <4> QED BY <4>1, <4>2
    <3>5. g = [i \in 0..(k + 1) |-> g[i]]
      OBVIOUS
    <3>6. Upto(g, k + 1)
      <4> HIDE DEF g, Step
      <4> QED BY <3>3, <3>4, <3>5
    <3> HIDE DEF g, Upto
    <3> QED BY <3>6
  <2>3. Nat \subseteq T
    <3> HIDE DEF T
    <3> QED BY <2>1, <2>2, SetInduction
  <2> HIDE DEF Upto
  <2> QED BY <1>2, <2>3
<1> HIDE DEF merged
<1> HIDE DEF merged
<1>5. merged[0] = start /\ \A i \in 1..n : merged[i] = Merge(merged[i - 1], passes[i])
  <2>1. \A i \in 0..n : merged[i] = Step(merged, i)
    <3> HIDE DEF Step
    <3> QED BY <1>4
  <2> QED BY <2>1, <1>2
<1>6. MergesBy(merged, s)
  BY ONLY <1>1, <1>5 DEF MergesBy, start
<1> QED BY ONLY <1>6

LEMMA RetargetAlong ==
    ASSUME NEW s, Fit(s), Flying(s)
    PROVE  Fit(Retarget(s)) /\ Along(Retarget(s), s)
<1> DEFINE f == [s.co.flight EXCEPT !.phase = "playing", !.waiting = {}]
           playing == [s EXCEPT !.co.flight = f]
           resumed == IF s.co.flight.phase = "mergeHeld" THEN playing ELSE s
           passes == s.en.passes
           start == [resumed EXCEPT !.en.passes = <<>>]
           n == Len(passes)
<1>2. n \in Nat
  BY DEF Fit, Sequence
<1> PICK merged :
      /\ merged[0] = start
      /\ \A i \in 1..n : merged[i] = Merge(merged[i - 1], passes[i])
      /\ Retarget(s) = merged[n]
  <2> HIDE DEF start, n
  <2>1. PICK merged : MergesBy(merged, s)
    BY <1>2, RetargetSteps DEF n
  <2>2. start = Resumed(s)
    BY DEF start, Resumed
  <2>3. /\ merged[0] = start
        /\ \A i \in 1..n : merged[i] = Merge(merged[i - 1], passes[i])
        /\ Retarget(s) = merged[n]
    BY <2>1, <2>2 DEF MergesBy, n
  <2> QED BY ONLY <2>3
<1>1. Retarget(s) = merged[n]
  OBVIOUS
<1>3. Fit(start) /\ Along(start, s)
  <2>1. Flying(s) => DOMAIN f = FlightFields /\ f.generation = s.co.generation
    BY DEF Fit, FlightFields
  <2> HIDE DEF f
  <2>2. Fit(playing) /\ Along(playing, s)
    BY <2>1, FlightAlong
  <2> HIDE DEF playing
  <2>3. Along(s, s)
    BY DEF Along, Fit
  <2>4. Fit(resumed) /\ Along(resumed, s)
    BY <2>2, <2>3
  <2> HIDE DEF resumed
  <2>5. Sequence(<<>>)
    BY DEF Sequence
  <2>6. Fit(start) /\ Along(start, resumed)
    BY <2>4, <2>5, PassesAlong
  <2> HIDE DEF start
  <2> QED BY <2>4, <2>6, AlongAgain
<1> HIDE DEF start
<1>5. merged[0] = start /\ \A i \in 1..n : merged[i] = Merge(merged[i - 1], passes[i])
  OBVIOUS
<1> DEFINE Good(k) == k <= n => Fit(merged[k]) /\ Along(merged[k], s)
           V == { k \in Nat : Good(k) }
<1>6. Nat \subseteq V
  <2>1. 0 \in V
    BY <1>3, <1>5
  <2>2. ASSUME NEW k \in Nat, k \in V PROVE k + 1 \in V
    <3> SUFFICES ASSUME k + 1 <= n PROVE Fit(merged[k + 1]) /\ Along(merged[k + 1], s)
      OBVIOUS
    <3>1. Fit(merged[k]) /\ Along(merged[k], s)
      BY <2>2, <1>2
    <3>2. merged[k + 1] = Merge(merged[k], passes[k + 1])
      BY <1>5, <1>2
    <3>3. Flying(merged[k])
      BY <3>1 DEF Flying, Along
    <3> QED BY <3>1, <3>2, <3>3, MergeAlong, AlongAgain
  <2> HIDE DEF V
  <2> QED BY <2>1, <2>2, SetInduction
<1> QED BY <1>1, <1>2, <1>6

LEMMA LetGoAlong ==
    ASSUME NEW s, Fit(s), Flying(s), NEW w
    PROVE  Fit(LetGo(s, w)) /\ Along(LetGo(s, w), s)
<1> DEFINE left == s.co.flight.waiting \ {w}
           f == [s.co.flight EXCEPT !.waiting = left]
           out == [s EXCEPT !.co.flight = f]
<1>1. LetGo(s, w) \in {out, StartMoving(out), Retarget(out)}
  <2>1. [s EXCEPT !.co.flight.waiting = left] = out
    OBVIOUS
  <2> HIDE DEF out
  <2> QED BY <2>1 DEF LetGo
<1>2. Flying(s) => DOMAIN f = FlightFields /\ f.generation = s.co.generation
  BY DEF Fit, FlightFields
<1> HIDE DEF f
<1>3. Fit(out) /\ Along(out, s)
  BY <1>2, FlightAlong
<1>4. Flying(out)
  BY <1>3 DEF Along, Flying
<1> HIDE DEF out
<1>5. Fit(StartMoving(out)) /\ Along(StartMoving(out), s)
  BY <1>3, StartMovingAlong, AlongAgain
<1>6. Fit(Retarget(out)) /\ Along(Retarget(out), s)
  BY <1>3, <1>4, RetargetAlong, AlongAgain
<1> QED BY <1>1, <1>3, <1>5, <1>6

LEMMA HoldMergeAlong ==
    ASSUME NEW s, Fit(s), Flying(s), NEW pass
    PROVE  Fit(HoldMerge(s, pass)) /\ Along(HoldMerge(s, pass), s)
<1> DEFINE f     == s.co.flight
           seen  == { w \in Grows(pass) : pass.ends[w] \in Seen }
           held  == IF f.merge # NoMerge THEN f.merge
                    ELSE [passes |-> 0, generation |-> f.generation, at |-> f.at,
                          ends |-> Nothing, repainted |-> Nothing]
           sent  == [w \in DOMAIN held.ends |-> IF w \in DOMAIN pass.final THEN pass.final[w] ELSE held.ends[w]]
           shown == Restrict(sent, { w \in DOMAIN sent : sent[w] \in Seen })
           merge == [held EXCEPT !.passes = @ + 1, !.ends = ExtendLatest(shown, Restrict(pass.ends, seen))]
           g     == [f EXCEPT !.merge = merge, !.waiting = seen, !.phase = "mergeHeld", !.final = ExtendLatest(@, pass.final)]
           waits == [s EXCEPT !.co.flight = g]
           more  == [s.co.flight EXCEPT !.merge = [@ EXCEPT !.passes = @ + 1]]
           counted == IF f.merge = NoMerge THEN s ELSE [s EXCEPT !.co.flight.merge.passes = @ + 1]
<1>1. HoldMerge(s, pass) = IF seen = {} THEN Retarget(counted)
                           ELSE Watches(Writes(waits, Changed(f.final, pass.final)))
  BY DEF HoldMerge
<1>2. DOMAIN g = FlightFields /\ g.generation = s.co.generation
  <2> HIDE DEF merge, seen
  <2> QED BY DEF Fit, FlightFields
<1> HIDE DEF g, seen
<1>3. Fit(waits)  /\ Along(waits, s)
  BY <1>2, FlightAlong
<1> HIDE DEF waits
<1>4. Fit(counted) /\ Along(counted, s)
  <2> DEFINE h == [s.co.flight EXCEPT !.merge.passes = @ + 1]
             c == [s EXCEPT !.co.flight = h]
  <2>1. DOMAIN h = FlightFields /\ h.generation = s.co.generation
    BY DEF Fit, FlightFields
  <2>2. counted \in {s, c}
    OBVIOUS
  <2> HIDE DEF h
  <2>3. Fit(c) /\ Along(c, s)
    BY <2>1, FlightAlong
  <2>4. Along(s, s)
    BY DEF Along, Fit
  <2> HIDE DEF c, counted
  <2> QED BY <2>2, <2>3, <2>4
<1> HIDE DEF counted
<1>5. Flying(counted)
  BY <1>4 DEF Along, Flying
<1>6. Fit(Retarget(counted)) /\ Along(Retarget(counted), s)
  BY <1>4, <1>5, RetargetAlong, AlongAgain
<1> DEFINE wrote == Writes(waits, Changed(f.final, pass.final))
<1>7. Fit(wrote) /\ Along(wrote, s)
  BY <1>3, WritesAlong, AlongAgain
<1> HIDE DEF wrote
<1>8. Fit(Watches(wrote)) /\ Along(Watches(wrote), s)
  BY <1>7, WatchesAlong, AlongAgain
<1> QED BY <1>1, <1>6, <1>8 DEF wrote

(* What is delivered owes nothing.                                         *)
LEMMA DeliveredAlong ==
    ASSUME NEW s, Fit(s), NEW pics
    PROVE  Fit([s EXCEPT !.en.delivered = pics]) /\ Along([s EXCEPT !.en.delivered = pics], s)
           /\ [s EXCEPT !.en.delivered = pics].co = s.co /\ [s EXCEPT !.en.delivered = pics].pics = s.pics
           /\ [s EXCEPT !.en.delivered = pics].re = s.re /\ [s EXCEPT !.en.delivered = pics].batch = s.batch
<1> DEFINE t == [s EXCEPT !.en.delivered = pics]
<1>1. /\ DOMAIN t.en = DOMAIN s.en /\ t.en.owed = s.en.owed /\ t.en.shown = s.en.shown
      /\ t.en.lift = s.en.lift /\ t.en.quiet = s.en.quiet /\ t.en.passes = s.en.passes
  BY DEF Fit, Shape
<1>2. /\ DOMAIN t = DOMAIN s /\ t.co = s.co /\ t.pics = s.pics /\ t.re = s.re
      /\ t.batch = s.batch /\ t.before = s.before
  BY DEF Fit, Shape
<1> HIDE DEF t
<1>3. Fit(t) /\ Along(t, s)
  BY <1>1, <1>2 DEF Fit, Shape, Top, Flying, Along
<1> QED BY <1>2, <1>3 DEF t

LEMMA KeepHeldAlong ==
    ASSUME NEW s, Fit(s)
    PROVE  /\ Fit(KeepHeld(s)) /\ Along(KeepHeld(s), s) /\ KeepHeld(s).co = s.co
           /\ KeepHeld(s).pics = s.pics /\ KeepHeld(s).re = s.re /\ KeepHeld(s).batch = s.batch
<1>1. \E pics : KeepHeld(s) = [s EXCEPT !.en.delivered = pics]
  BY DEF KeepHeld
<1> QED BY <1>1, DeliveredAlong

LEMMA OfferedAlong ==
    ASSUME NEW s, Fit(s), NEW w, NEW pic
    PROVE  Fit(Offered(s, w, pic)) /\ Along(Offered(s, w, pic), s)
<1> DEFINE f == s.co.flight
           only == [v \in {w} |-> pic]
           given == [s EXCEPT !.en.delivered = ExtendLatest(@, only)]
           repainted == [given EXCEPT !.co.flight.merge.repainted = ExtendLatest(@, only)]
           drawn == Draws(given, only)
<1>1. \/ Offered(s, w, pic) = given
      \/ Flying(s) /\ Offered(s, w, pic) \in {LetGo(repainted, w), LetGo(drawn, w), drawn}
  <2> DEFINE repaint == /\ f.merge # NoMerge /\ pic.generation >= f.merge.generation
                        /\ w \in DOMAIN f.merge.ends /\ pic.place = f.merge.ends[w]
  <2>1. Offered(s, w, pic) = IF ~Flying(s) THEN given
                             ELSE IF repaint THEN LetGo(repainted, w)
                             ELSE IF Takes(f, w, pic) /\ f.merge = NoMerge THEN LetGo(drawn, w) ELSE drawn
    BY DEF Offered
  <2> HIDE DEF given, repainted, drawn, repaint
  <2> QED BY <2>1
<1>2. Fit(given) /\ Along(given, s)
  BY DeliveredAlong
<1> HIDE DEF given
<1>3. Fit(repainted) /\ Along(repainted, s)
  <2> DEFINE g == [given.co.flight EXCEPT !.merge.repainted = ExtendLatest(@, only)]
             r == [given EXCEPT !.co.flight = g]
  <2>1. Flying(given) => DOMAIN g = FlightFields /\ g.generation = given.co.generation
    BY <1>2 DEF Fit, FlightFields
  <2>2. repainted = r
    OBVIOUS
  <2> HIDE DEF g, repainted
  <2> QED BY <1>2, <2>1, <2>2, FlightAlong, AlongAgain
<1> HIDE DEF repainted
<1>4. Fit(drawn) /\ Along(drawn, s)
  BY <1>2, DrawsAlong, AlongAgain
<1> HIDE DEF drawn
<1>5. ASSUME Flying(s)
      PROVE  /\ Fit(LetGo(repainted, w)) /\ Along(LetGo(repainted, w), s)
             /\ Fit(LetGo(drawn, w)) /\ Along(LetGo(drawn, w), s)
  <2>1. Flying(repainted) /\ Flying(drawn)
    BY <1>3, <1>4, <1>5 DEF Along, Flying
  <2> QED BY <1>3, <1>4, <2>1, LetGoAlong, AlongAgain
<1> QED BY <1>1, <1>2, <1>4, <1>5

LEMMA NoTilesAlong ==
    ASSUME NEW s, Fit(s)
    PROVE  /\ Fit(NoTiles(s)) /\ Along(NoTiles(s), s)
           /\ NoTiles(s).co = s.co /\ NoTiles(s).batch = s.batch
<1> DEFINE worn == [w \in Window |-> 0]
           t == [s EXCEPT !.en = [@ EXCEPT !.passes = <<>>, !.final = Nothing, !.worn = worn], !.pics.watch = Nothing]
<1>1. NoTiles(s) = t
  BY DEF NoTiles
<1> HIDE DEF worn
<1>2. /\ DOMAIN t = DOMAIN s /\ t.co = s.co /\ t.re = s.re /\ t.batch = s.batch /\ t.before = s.before
  BY DEF Fit, Shape
<1>3. /\ DOMAIN t.en = DOMAIN s.en /\ t.en.owed = s.en.owed /\ t.en.shown = s.en.shown
      /\ t.en.lift = s.en.lift /\ t.en.quiet = s.en.quiet /\ t.en.passes = <<>>
  BY DEF Fit, Shape
<1>4. DOMAIN t.pics = DOMAIN s.pics /\ t.pics.hold = s.pics.hold
  BY DEF Fit, Shape
<1>5. Sequence(<<>>)
  BY DEF Sequence
<1> HIDE DEF t
<1>6. Fit(t) /\ Along(t, s)
  BY <1>2, <1>3, <1>4, <1>5 DEF Fit, Shape, Top, Flying, Along
<1> QED BY <1>1, <1>2, <1>6

-----------------------------------------------------------------------------
(* The effects owed: more of them, some of them, those of a batch drawn.   *)

LEMMA OwedConcat ==
    ASSUME NEW owed, NEW top \in Nat, OwedOK(owed, top), NEW more, OwedOK(more, top)
    PROVE  /\ OwedOK(owed \o more, top)
           /\ LiftOwed(owed \o more) = LiftOwed(owed) \cup LiftOwed(more)
<1> DEFINE X == { owed[i] : i \in DOMAIN owed } \cup { more[i] : i \in DOMAIN more }
           all == owed \o more
           m == Len(owed)
           n == Len(more)
<1>1. owed \in Seq(X) /\ more \in Seq(X)
  BY DEF OwedOK, Sequence
<1> HIDE DEF X
<1>2. /\ m \in Nat /\ n \in Nat /\ DOMAIN owed = 1..m /\ DOMAIN more = 1..n
      /\ all \in Seq(X) /\ DOMAIN all = 1..(m + n) /\ Len(all) = m + n
      /\ \A i \in 1..m : all[i] = owed[i]
      /\ \A i \in 1..n : all[m + i] = more[i]
  BY <1>1
<1> HIDE DEF all, m, n
<1>3. \A i \in 1..(m + n) : i \in 1..m \/ \E j \in 1..n : i = m + j
  <2> TAKE i \in 1..(m + n)
  <2>1. i \in 1..m \/ (i - m \in 1..n /\ i = m + (i - m))
    BY <1>2
  <2> QED BY <2>1
<1>4. (\A i \in 1..m : i \in 1..(m + n)) /\ (\A j \in 1..n : m + j \in 1..(m + n))
  BY <1>2
<1>5. \A x : (\E i \in DOMAIN all : all[i] = x)
              <=> (\E i \in DOMAIN owed : owed[i] = x) \/ (\E i \in DOMAIN more : more[i] = x)
  <2> TAKE x
  <2>1. ASSUME NEW i \in DOMAIN all, all[i] = x
        PROVE  (\E k \in DOMAIN owed : owed[k] = x) \/ (\E k \in DOMAIN more : more[k] = x)
    <3>1. CASE i \in 1..m
      BY <1>2, <2>1, <3>1
    <3>2. CASE \E j \in 1..n : i = m + j
      <4>1. PICK j \in 1..n : i = m + j
        BY <3>2
      <4> QED BY <1>2, <2>1, <4>1
    <3> QED BY <1>2, <1>3, <3>1, <3>2
  <2>2. ASSUME NEW i \in DOMAIN owed, owed[i] = x PROVE \E k \in DOMAIN all : all[k] = x
    BY <1>2, <1>4, <2>2
  <2>3. ASSUME NEW i \in DOMAIN more, more[i] = x PROVE \E k \in DOMAIN all : all[k] = x
    BY <1>2, <1>4, <2>3
  <2> QED BY <2>1, <2>2, <2>3
<1>6. Sequence(all)
  <2>1. Len(all) \in Nat /\ all = [i \in 1..Len(all) |-> all[i]]
    BY <1>2
  <2>2. all \in Seq({ all[i] : i \in DOMAIN all })
    BY <2>1
  <2> QED BY <2>2 DEF Sequence
<1>7. \A i \in DOMAIN all : Effect(all[i], top)
  BY <1>5 DEF OwedOK
<1>8. LiftOwed(all) = LiftOwed(owed) \cup LiftOwed(more)
  <2>1. \A sq, x : x \in LiftOwed(sq) <=> (\E i \in DOMAIN sq : sq[i] = x) /\ x.owed.what # "write"
    BY DEF LiftOwed
  <2> QED BY <1>5, <2>1
<1> QED BY <1>6, <1>7, <1>8 DEF OwedOK, all

LEMMA OwedSifted ==
    ASSUME NEW owed, NEW top \in Nat, OwedOK(owed, top), NEW kept
    PROVE  /\ OwedOK(Sift(owed, kept), top)
           /\ \A j \in DOMAIN Sift(owed, kept) : \E i \in DOMAIN owed : i \in kept /\ owed[i] = Sift(owed, kept)[j]
           /\ \A i \in DOMAIN owed : i \in kept => \E j \in DOMAIN Sift(owed, kept) : Sift(owed, kept)[j] = owed[i]
<1> DEFINE X == { owed[i] : i \in DOMAIN owed }
           left == Sift(owed, kept)
<1>1. owed \in Seq(X)
  BY DEF OwedOK, Sequence
<1> HIDE DEF X
<1>2. /\ left \in Seq(X)
      /\ \A j \in DOMAIN left : \E i \in DOMAIN owed : i \in kept /\ owed[i] = left[j]
      /\ \A i \in DOMAIN owed : i \in kept => \E j \in DOMAIN left : left[j] = owed[i]
  <2>1. left \in Seq(X) /\ LeftOf(left, owed, kept)
    BY <1>1, Sifted
  <2> HIDE DEF left
  <2> QED BY <2>1 DEF LeftOf
<1> HIDE DEF left
<1>3. Sequence(left)
  <2>1. Len(left) \in Nat /\ left = [i \in 1..Len(left) |-> left[i]] /\ DOMAIN left = 1..Len(left)
    BY <1>2
  <2>2. left \in Seq({ left[i] : i \in DOMAIN left })
    BY <2>1
  <2> QED BY <2>2 DEF Sequence
<1>4. \A i \in DOMAIN left : Effect(left[i], top)
  BY <1>2 DEF OwedOK
<1> QED BY <1>2, <1>3, <1>4 DEF OwedOK, left

(* A new flight owes nothing of the last lift.                             *)
LEMMA BegunOwed ==
    ASSUME NEW owed, NEW top \in Nat, OwedOK(owed, top)
    PROVE  OwedOK(Begun(owed), top) /\ LiftOwed(Begun(owed)) = {}
<1> DEFINE writes == Sift(owed, { i \in DOMAIN owed : owed[i].owed.what = "write" })
           begun == [i \in DOMAIN writes |-> [writes[i] EXCEPT !.own = FALSE]]
<1>1. OwedOK(writes, top) /\ \A i \in DOMAIN writes : writes[i].owed.what = "write"
  BY OwedSifted
<1> HIDE DEF writes
<1>2. /\ DOMAIN begun = DOMAIN writes /\ DOMAIN writes = 1..Len(writes) /\ Len(writes) \in Nat
  BY <1>1 DEF OwedOK, Sequence
<1>3. \A i \in DOMAIN begun : Effect(begun[i], top) /\ begun[i].owed.what = "write"
  BY <1>1 DEF OwedOK, Effect
<1>4. Sequence(begun)
  <2>1. begun = [i \in 1..Len(writes) |-> begun[i]]
    BY <1>2
  <2> HIDE DEF begun
  <2>2. begun \in Seq({ begun[i] : i \in DOMAIN begun })
    BY <1>2, <2>1
  <2> QED BY <2>2 DEF Sequence
<1>5. Begun(owed) = begun
  BY DEF Begun, writes
<1> HIDE DEF begun
<1> QED BY <1>3, <1>4, <1>5 DEF OwedOK, LiftOwed

LEMMA OthersOwedOK ==
    ASSUME NEW owed, NEW top \in Nat, OwedOK(owed, top)
    PROVE  OwedOK(OthersOwed(owed), top) /\ LiftOwed(OthersOwed(owed)) \subseteq LiftOwed(owed)
<1> DEFINE kept == { i \in DOMAIN owed : ~owed[i].own }
           left == Sift(owed, kept)
<1>1. OthersOwed(owed) = left
  BY DEF OthersOwed
<1> HIDE DEF kept
<1>2. OwedOK(left, top) /\ \A j \in DOMAIN left : \E i \in DOMAIN owed : owed[i] = left[j]
  BY OwedSifted
<1> HIDE DEF left
<1> QED BY <1>1, <1>2 DEF LiftOwed

(* What waits for later batches, numbered from the n-th.                   *)
LEMMA OwedLater ==
    ASSUME NEW owed, NEW top \in Nat, OwedOK(owed, top), NEW n \in Nat, n <= top
    PROVE  LET waits == Sift(owed, { i \in DOMAIN owed : owed[i].after > n })
               later == [j \in DOMAIN waits |-> [waits[j] EXCEPT !.after = @ - n]]
           IN  /\ OwedOK(later, top - n)
               /\ LiftOwed(later) = { [y EXCEPT !.after = @ - n] : y \in { z \in LiftOwed(owed) : z.after > n } }
<1> DEFINE kept == { i \in DOMAIN owed : owed[i].after > n }
           waits == Sift(owed, kept)
           later == [j \in DOMAIN waits |-> [waits[j] EXCEPT !.after = @ - n]]
<1>1. /\ OwedOK(waits, top)
      /\ \A j \in DOMAIN waits : \E i \in DOMAIN owed : owed[i].after > n /\ owed[i] = waits[j]
      /\ \A i \in DOMAIN owed : owed[i].after > n => \E j \in DOMAIN waits : waits[j] = owed[i]
  <2>1. /\ OwedOK(waits, top)
        /\ \A j \in DOMAIN waits : \E i \in DOMAIN owed : i \in kept /\ owed[i] = waits[j]
        /\ \A i \in DOMAIN owed : i \in kept => \E j \in DOMAIN waits : waits[j] = owed[i]
    <3> HIDE DEF kept
    <3> QED BY OwedSifted
  <2> HIDE DEF waits
  <2> QED BY <2>1
<1> HIDE DEF waits
<1>2. /\ DOMAIN later = DOMAIN waits /\ DOMAIN waits = 1..Len(waits) /\ Len(waits) \in Nat
  BY <1>1 DEF OwedOK, Sequence
<1>3. \A j \in DOMAIN waits : Effect(waits[j], top) /\ waits[j].after > n
  BY <1>1 DEF OwedOK
<1>4. \A j \in DOMAIN later : Effect(later[j], top - n) /\ later[j].owed = waits[j].owed
  BY <1>3 DEF Effect
<1>5. Sequence(later)
  <2>1. later = [i \in 1..Len(waits) |-> later[i]]
    BY <1>2
  <2> HIDE DEF later
  <2>2. later \in Seq({ later[i] : i \in DOMAIN later })
    BY <1>2, <2>1
  <2> QED BY <2>2 DEF Sequence
<1>6. LiftOwed(later) = { [y EXCEPT !.after = @ - n] : y \in { z \in LiftOwed(owed) : z.after > n } }
  <2>1. ASSUME NEW x \in LiftOwed(later)
        PROVE  \E y \in LiftOwed(owed) : y.after > n /\ x = [y EXCEPT !.after = @ - n]
    <3>1. PICK j \in DOMAIN later : x = later[j] /\ later[j].owed.what # "write"
      BY <2>1 DEF LiftOwed
    <3>2. PICK i \in DOMAIN owed : owed[i].after > n /\ owed[i] = waits[j]
      BY <1>1, <1>2, <3>1
    <3>3. owed[i] \in LiftOwed(owed)
      BY <1>2, <1>4, <3>1, <3>2 DEF LiftOwed
    <3>4. x = [owed[i] EXCEPT !.after = @ - n]
      BY <1>2, <3>1, <3>2
    <3> QED BY <3>2, <3>3, <3>4
  <2>2. ASSUME NEW y \in LiftOwed(owed), y.after > n
        PROVE  [y EXCEPT !.after = @ - n] \in LiftOwed(later)
    <3>1. PICK i \in DOMAIN owed : y = owed[i] /\ owed[i].owed.what # "write"
      BY DEF LiftOwed
    <3>2. PICK j \in DOMAIN waits : waits[j] = owed[i]
      BY <1>1, <2>2, <3>1
    <3>3. later[j] = [y EXCEPT !.after = @ - n] /\ later[j].owed.what # "write" /\ j \in DOMAIN later
      BY <1>2, <1>4, <3>1, <3>2
    <3> QED BY <3>3 DEF LiftOwed
  <2> HIDE DEF later
  <2> QED BY <2>1, <2>2
<1> QED BY <1>4, <1>5, <1>6 DEF OwedOK, waits

LEMMA CarryOne ==
    ASSUME NEW t, Shape(t), NEW o, o.what \in {"write", "settle", "quiet"}
    PROVE  /\ Shape(Carry(t, o))
           /\ Carry(t, o).co = t.co /\ Carry(t, o).batch = t.batch /\ Carry(t, o).before = t.before
           /\ Carry(t, o).en.lift = t.en.lift /\ Carry(t, o).en.shown = t.en.shown
           /\ Carry(t, o).en.passes = t.en.passes /\ Carry(t, o).en.owed = t.en.owed
           /\ Carry(t, o).re.reported = t.re.reported
           /\ Carry(t, o).pics.hold = IF o.what = "settle" THEN "settling" ELSE t.pics.hold
           /\ Carry(t, o).en.quiet = IF o.what = "quiet" THEN o.generation ELSE t.en.quiet
<1>1. CASE o.what = "write"
  BY <1>1 DEF Carry, Shape
<1>2. CASE o.what = "settle"
  BY <1>2 DEF Carry, Shape
<1>3. CASE o.what = "quiet"
  BY <1>3 DEF Carry, Shape
<1> QED BY <1>1, <1>2, <1>3

(* Committed, before anything is carried out.                              *)
Renumbered(s, n) ==
    LET waits   == Sift(s.en.owed, { i \in DOMAIN s.en.owed : s.en.owed[i].after > n })
        Less(k) == IF k > n THEN k - n ELSE 0
    IN  [s EXCEPT !.en.owed = [j \in DOMAIN waits |-> [waits[j] EXCEPT !.after = @ - n]],
                  !.en.shown = Less(@), !.en.lifted = Less(@), !.before = @ - n]

(* Committed is the last of a sequence, an effect carried out at each step.*)
CarriesBy(carried, s, n) ==
    /\ carried[0] = Renumbered(s, n)
    /\ \A i \in 1..Len(s.en.owed) :
         /\ s.en.owed[i].after <= n => carried[i] = Carry(carried[i - 1], s.en.owed[i].owed)
         /\ ~(s.en.owed[i].after <= n) => carried[i] = carried[i - 1]
    /\ Committed(s, n) = carried[Len(s.en.owed)]

LEMMA CommittedSteps ==
    ASSUME NEW s, NEW n, Len(s.en.owed) \in Nat PROVE \E carried : CarriesBy(carried, s, n)
<1> DEFINE owed  == s.en.owed
           start == Renumbered(s, n)
           len == Len(owed)
           Step(m, i) == IF i = 0 THEN start
                         ELSE IF owed[i].after <= n THEN Carry(m[i - 1], owed[i].owed) ELSE m[i - 1]
           Upto(m, k) == m = [i \in 0..k |-> Step(m, i)]
           T == { k \in Nat : \E m : Upto(m, k) }
           carried == CHOOSE m : Upto(m, len)
<1>1. Committed(s, n) = carried[len]
  BY DEF Committed, Renumbered
<1>2. len \in Nat
  OBVIOUS
<1> HIDE DEF start
<1>6. Upto(carried, len)
  <2>1. 0 \in T
    <3>1. Upto([i \in 0..0 |-> start], 0)
      OBVIOUS
    <3> QED BY <3>1
  <2>2. ASSUME NEW k \in Nat, k \in T PROVE k + 1 \in T
    <3>1. PICK m : Upto(m, k)
      BY <2>2
    <3> DEFINE h == [i \in 0..(k + 1) |-> IF i = k + 1 THEN Step(m, k + 1) ELSE m[i]]
    <3>2. \A i \in 0..k : m[i] = Step(m, i)
      <4> HIDE DEF Step
      <4> QED BY <3>1
    <3>3. \A i \in 0..(k + 1) : h[i] = Step(m, i)
      <4> HIDE DEF Step
      <4>1. \A i \in 0..(k + 1) : i = k + 1 \/ i \in 0..k
        OBVIOUS
      <4> QED BY <3>2, <4>1
    <3>4. \A i \in 0..(k + 1) : Step(m, i) = Step(h, i)
      <4>1. \A i \in 0..(k + 1) : i # 0 => i - 1 \in 0..k /\ i - 1 # k + 1
        OBVIOUS
      <4>2. \A i \in 0..k : h[i] = m[i]
        OBVIOUS
      <4> HIDE DEF h, owed
      <4> QED BY <4>1, <4>2
    <3>5. h = [i \in 0..(k + 1) |-> h[i]]
      OBVIOUS
    <3>6. Upto(h, k + 1)
      <4> HIDE DEF h, Step
      <4> QED BY <3>3, <3>4, <3>5
    <3> HIDE DEF h, Upto
    <3> QED BY <3>6
  <2>3. Nat \subseteq T
    <3> HIDE DEF T
    <3> QED BY <2>1, <2>2, SetInduction
  <2> HIDE DEF Upto, len
  <2> QED BY <1>2, <2>3
<1> HIDE DEF carried
<1> HIDE DEF carried
<1>7. \A i \in 0..len : carried[i] = Step(carried, i)
  <2> HIDE DEF Step, len
  <2> QED BY <1>6
<1>8. carried[0] = start
  BY <1>2, <1>7
<1>9. \A i \in 1..len : /\ owed[i].after <= n => carried[i] = Carry(carried[i - 1], owed[i].owed)
                        /\ ~(owed[i].after <= n) => carried[i] = carried[i - 1]
  BY <1>2, <1>7
<1>10. CarriesBy(carried, s, n)
  BY ONLY <1>1, <1>8, <1>9 DEF CarriesBy, start
<1> QED BY ONLY <1>10

(* The batches up to the n-th drawn: what waited for them, and a settled   *)
(* or a quiet among that.                                                  *)
LEMMA CommittedCarries ==
    ASSUME NEW s, Fit(s), s.batch = {}, NEW n \in 1..s.before, NEW g,
           \A x \in LiftOwed(s.en.owed) : x.owed.what = "quiet" => x.owed.generation = g
    PROVE  LET t == Committed(s, n)
               Reached(what) == \E x \in LiftOwed(s.en.owed) : x.after <= n /\ x.owed.what = what
           IN  /\ Fit(t) /\ t.before = s.before - n /\ t.batch = {} /\ t.co = s.co
               /\ t.en.lift = s.en.lift /\ t.re.reported = s.re.reported
               /\ t.pics.hold = IF Reached("settle") THEN "settling" ELSE s.pics.hold
               /\ t.en.quiet = IF Reached("quiet") THEN g ELSE s.en.quiet
               /\ LiftOwed(t.en.owed) =
                    { [y EXCEPT !.after = @ - n] : y \in { z \in LiftOwed(s.en.owed) : z.after > n } }
<1> DEFINE owed  == s.en.owed
           waits == Sift(owed, { i \in DOMAIN owed : owed[i].after > n })
           Less(k) == IF k > n THEN k - n ELSE 0
           later == [j \in DOMAIN waits |-> [waits[j] EXCEPT !.after = @ - n]]
           start == Renumbered(s, n)
           len == Len(owed)
<1>0. Len(s.en.owed) \in Nat
  BY DEF Fit, OwedOK, Sequence
<1> PICK carried :
      /\ carried[0] = start
      /\ \A i \in 1..len : /\ owed[i].after <= n => carried[i] = Carry(carried[i - 1], owed[i].owed)
                           /\ ~(owed[i].after <= n) => carried[i] = carried[i - 1]
      /\ Committed(s, n) = carried[len]
  <2> HIDE DEF start, len, owed
  <2>1. PICK carried : CarriesBy(carried, s, n)
    BY <1>0, CommittedSteps
  <2>2. start = Renumbered(s, n) /\ len = Len(s.en.owed) /\ owed = s.en.owed
    BY DEF start, len, owed
  <2>3. /\ carried[0] = start
        /\ \A i \in 1..len : /\ owed[i].after <= n => carried[i] = Carry(carried[i - 1], owed[i].owed)
                             /\ ~(owed[i].after <= n) => carried[i] = carried[i - 1]
        /\ Committed(s, n) = carried[len]
    BY <2>1, <2>2 DEF CarriesBy
  <2> QED BY ONLY <2>3
<1>1. Committed(s, n) = carried[len]
  OBVIOUS
<1>2. len \in Nat /\ DOMAIN owed = 1..len /\ s.before \in Nat /\ n \in Nat /\ n <= s.before /\ OwedOK(owed, s.before)
  BY DEF Fit, OwedOK, Sequence, Top
<1>3. /\ OwedOK(later, s.before - n)
      /\ LiftOwed(later) = { [y EXCEPT !.after = @ - n] : y \in { z \in LiftOwed(owed) : z.after > n } }
  <2> HIDE DEF owed
  <2> QED BY ZenonT(30), <1>2, OwedLater
<1>4. /\ Shape(start) /\ start.co = s.co /\ start.batch = s.batch /\ start.before = s.before - n
      /\ start.en.lift = s.en.lift /\ start.en.passes = s.en.passes /\ start.en.quiet = s.en.quiet
      /\ start.en.owed = later /\ start.pics = s.pics /\ start.re = s.re
  BY DEF Fit, Shape, Renumbered
<1> HIDE DEF later
<1>5. start.en.shown \in 0..(s.before - n)
  <2>1. start.en.shown = Less(s.en.shown)
    BY DEF Fit, Shape, Renumbered
  <2>2. s.en.shown \in 0..s.before
    BY DEF Fit, Top
  <2> HIDE DEF start
  <2> QED BY <1>2, <2>1, <2>2
<1> HIDE DEF start
<1>7. /\ carried[0] = start
      /\ \A i \in 1..len : /\ owed[i].after <= n => carried[i] = Carry(carried[i - 1], owed[i].owed)
                           /\ ~(owed[i].after <= n) => carried[i] = carried[i - 1]
  OBVIOUS
<1> DEFINE Came(k, what) == \E i \in 1..k : owed[i].after <= n /\ owed[i].owed.what = what
           Carried(t, k) ==
             /\ Shape(t) /\ t.co = s.co /\ t.batch = s.batch /\ t.before = s.before - n
             /\ t.en.lift = s.en.lift /\ t.en.shown = start.en.shown
             /\ t.en.passes = s.en.passes /\ t.en.owed = later /\ t.re.reported = s.re.reported
             /\ t.pics.hold = (IF Came(k, "settle") THEN "settling" ELSE s.pics.hold)
             /\ t.en.quiet = (IF Came(k, "quiet") THEN g ELSE s.en.quiet)
           Good(k) == k <= len => Carried(carried[k], k)
           V == { k \in Nat : Good(k) }
<1>8. \A i \in 1..len :
        /\ owed[i].owed.what \in {"write", "settle", "quiet"}
        /\ owed[i].owed.what = "quiet" => owed[i].owed.generation = g
  BY <1>2 DEF OwedOK, Effect, LiftOwed
<1>9. Nat \subseteq V
  <2>1. 0 \in V
    <3>1. carried[0] = start
      BY <1>7
    <3>2. ~Came(0, "settle") /\ ~Came(0, "quiet")
      OBVIOUS
    <3> HIDE DEF Came
    <3> QED BY <1>4, <3>1, <3>2
  <2>2. ASSUME NEW k \in Nat, k \in V PROVE k + 1 \in V
    <3> SUFFICES ASSUME k + 1 <= len PROVE Carried(carried[k + 1], k + 1)
      OBVIOUS
    <3>1. Carried(carried[k], k)
      <4>1. Good(k) /\ k <= len
        <5> HIDE DEF Good, len
        <5> QED BY <2>2, <1>2
      <4> HIDE DEF Carried, len
      <4> QED BY <4>1
    <3>2. /\ owed[k + 1].after <= n => carried[k + 1] = Carry(carried[k], owed[k + 1].owed)
          /\ ~(owed[k + 1].after <= n) => carried[k + 1] = carried[k]
      <4> HIDE DEF owed, len
      <4>1. k + 1 \in 1..len /\ (k + 1) - 1 = k
        BY <1>2
      <4> QED BY <1>7, <4>1
    <3>3. \A what : Came(k + 1, what) <=> Came(k, what) \/ (owed[k + 1].after <= n /\ owed[k + 1].owed.what = what)
      <4>1. \A i : i \in 1..(k + 1) <=> i \in 1..k \/ i = k + 1
        OBVIOUS
      <4> HIDE DEF owed
      <4> QED BY <4>1
    <3>o. PICK o : o = owed[k + 1]
      OBVIOUS
    <3>4. o.owed.what \in {"write", "settle", "quiet"} /\ (o.owed.what = "quiet" => o.owed.generation = g)
      <4> HIDE DEF owed, len
      <4>1. k + 1 \in 1..len
        BY <1>2
      <4>2. /\ owed[k + 1].owed.what \in {"write", "settle", "quiet"}
            /\ owed[k + 1].owed.what = "quiet" => owed[k + 1].owed.generation = g
        BY <1>8, <4>1
      <4> QED BY <4>2, <3>o
    <3> PICK t : t = carried[k]
      OBVIOUS
    <3>5. CASE ~(o.after <= n)
      <4> HIDE DEF Came, owed
      <4> QED BY <3>o, <3>1, <3>2, <3>3, <3>5
    <3>6. CASE o.after <= n
      <4> HIDE DEF Came, owed
      <4>1. carried[k + 1] = Carry(t, o.owed)
        BY <3>o, <3>2, <3>6
      <4>2. Carried(t, k)
        BY <3>1
      <4>3. \A what : Came(k + 1, what) <=> Came(k, what) \/ o.owed.what = what
        BY <3>o, <3>3, <3>6
      <4>4. Carried(Carry(t, o.owed), k + 1)
        <5> DEFINE c == Carry(t, o.owed)
        <5>1. /\ Shape(c) /\ c.co = t.co /\ c.batch = t.batch /\ c.before = t.before
              /\ c.en.lift = t.en.lift /\ c.en.shown = t.en.shown /\ c.en.passes = t.en.passes
              /\ c.en.owed = t.en.owed /\ c.re.reported = t.re.reported
              /\ c.pics.hold = IF o.owed.what = "settle" THEN "settling" ELSE t.pics.hold
              /\ c.en.quiet = IF o.owed.what = "quiet" THEN o.owed.generation ELSE t.en.quiet
          <6> PICK d : d = o.owed
            OBVIOUS
          <6>1. Shape(t) /\ d.what \in {"write", "settle", "quiet"}
            BY <4>2, <3>4
          <6> HIDE DEF c
          <6>2. c = Carry(t, d)
            BY DEF c
          <6> QED BY ONLY d = o.owed, <6>1, <6>2, CarryOne
        <5> HIDE DEF c
        <5>2. c.pics.hold = IF Came(k + 1, "settle") THEN "settling" ELSE s.pics.hold
          BY <5>1, <4>2, <4>3
        <5>3. c.en.quiet = IF Came(k + 1, "quiet") THEN g ELSE s.en.quiet
          BY <5>1, <4>2, <4>3, <3>4
        <5> QED BY <5>1, <5>2, <5>3, <4>2 DEF c
      <4> QED BY <4>1, <4>4
    <3> QED BY <3>5, <3>6
  <2> HIDE DEF V
  <2> QED BY <2>1, <2>2, SetInduction
<1>10. Carried(carried[len], len)
  <2> HIDE DEF Carried
  <2> QED BY <1>2, <1>9
<1> DEFINE Reached(what) == \E x \in LiftOwed(owed) : x.after <= n /\ x.owed.what = what
<1>11. \A what : what # "write" => (Came(len, what) <=> Reached(what))
  <2> HIDE DEF owed
  <2> QED BY <1>2 DEF LiftOwed
<1> PICK t : t = carried[len]
  OBVIOUS
<1>12. Carried(t, len)
  BY <1>10
<1>13. Fit(t)
  <2>1. /\ Shape(t) /\ t.co = s.co /\ t.batch = {} /\ t.before = s.before - n /\ t.en.shown \in 0..(s.before - n)
        /\ t.en.passes = s.en.passes /\ t.en.owed = later
    BY <1>12, <1>5
  <2>2. Top(t) = s.before - n
    BY <2>1, <1>2 DEF Top
  <2> QED BY <2>1, <2>2, <1>2, <1>3 DEF Fit, Flying
<1>14. /\ t.pics.hold = IF Reached("settle") THEN "settling" ELSE s.pics.hold
       /\ t.en.quiet = IF Reached("quiet") THEN g ELSE s.en.quiet
  <2> HIDE DEF Came, Reached
  <2> QED BY <1>11, <1>12
<1> HIDE DEF Reached, Came, owed
<1>15. Committed(s, n) = t
  BY <1>1
<1> QED BY <1>3, <1>12, <1>13, <1>14, <1>15 DEF Reached, owed

-----------------------------------------------------------------------------
(* The flight's ends.                                                      *)

(* What a lift of generation g owes once the n-th batch is drawn.          *)
Owes(n, g) == { [after |-> n, own |-> TRUE, owed |-> QuietOwed(g)], [after |-> n, own |-> TRUE, owed |-> SettleOwed] }

LEMMA HideOwes ==
    ASSUME NEW s, Fit(s), NEW g, NEW owed \in {<<>>, <<QuietOwed(g), SettleOwed>>}
    PROVE  LET t == Hide(s, owed)
           IN  /\ Fit(t) /\ t.co = s.co /\ t.pics = s.pics /\ t.re = s.re /\ t.before = s.before
               /\ t.en.lift = s.en.lift /\ t.en.quiet = s.en.quiet
               /\ t.batch = s.batch \cup {"lift"}
               /\ LiftOwed(t.en.owed) = LiftOwed(s.en.owed) \cup (IF owed = <<>> THEN {} ELSE Owes(Batch(s), g))
<1> DEFINE rendered == Render(s, "lift")
           hidden == [rendered EXCEPT !.en.lifted = Batch(s)]
           more == [i \in DOMAIN owed |-> [after |-> Batch(s), own |-> TRUE, owed |-> owed[i]]]
           all == s.en.owed \o more
           t == [hidden EXCEPT !.en.owed = @ \o more]
<1>1. Hide(s, owed) = t
  BY DEF Hide
<1>2. /\ Fit(rendered) /\ rendered.co = s.co /\ rendered.en = s.en /\ rendered.pics = s.pics /\ rendered.re = s.re
      /\ rendered.before = s.before /\ rendered.batch = s.batch \cup {"lift"}
  BY RenderAlong DEF Render, Fit, Shape, Commands
<1> HIDE DEF rendered
<1>3. /\ Shape(hidden) /\ hidden.co = s.co /\ hidden.pics = s.pics /\ hidden.re = s.re
      /\ hidden.before = s.before /\ hidden.batch = s.batch \cup {"lift"}
      /\ hidden.en.owed = s.en.owed /\ hidden.en.lift = s.en.lift /\ hidden.en.quiet = s.en.quiet
      /\ hidden.en.shown = s.en.shown /\ hidden.en.passes = s.en.passes
  BY <1>2 DEF Fit, Shape
<1> HIDE DEF hidden
<1> HIDE DEF more
<1>4. /\ Shape(t) /\ t.co = s.co /\ t.pics = s.pics /\ t.re = s.re
      /\ t.before = s.before /\ t.batch = s.batch \cup {"lift"}
      /\ t.en.owed = all /\ t.en.lift = s.en.lift /\ t.en.quiet = s.en.quiet
      /\ t.en.shown = s.en.shown /\ t.en.passes = s.en.passes
  BY <1>3 DEF Shape
<1> HIDE DEF t
<1>5. Top(t) = Batch(s) /\ Batch(s) \in Nat \ {0} /\ s.before <= Batch(s) /\ Top(s) \in Nat /\ Top(s) <= Batch(s)
  BY <1>4 DEF Top, Batch, Fit
<1>6. OwedOK(s.en.owed, Batch(s))
  BY <1>5, OwedUpTo DEF Fit
<1>7. OwedOK(more, Batch(s)) /\ LiftOwed(more) = (IF owed = <<>> THEN {} ELSE Owes(Batch(s), g))
  <2>1. CASE owed = <<>>
    <3>1. more = <<>>
      BY <2>1 DEF more
    <3>2. Sequence(<<>>) /\ DOMAIN <<>> = {}
      BY DEF Sequence
    <3> QED BY <2>1, <3>1, <3>2 DEF OwedOK, LiftOwed
  <2>2. CASE owed = <<QuietOwed(g), SettleOwed>>
    <3>1. /\ DOMAIN more = 1..2
          /\ more[1] = [after |-> Batch(s), own |-> TRUE, owed |-> QuietOwed(g)]
          /\ more[2] = [after |-> Batch(s), own |-> TRUE, owed |-> SettleOwed]
      <4>1. DOMAIN owed = 1..2 /\ owed[1] = QuietOwed(g) /\ owed[2] = SettleOwed
        BY <2>2
      <4>2. 1 \in 1..2 /\ 2 \in 1..2
        OBVIOUS
      <4> QED BY <4>1, <4>2 DEF more
    <3>2. Sequence(more)
      <4>1. more = [i \in 1..2 |-> more[i]]
        BY <3>1 DEF more
      <4>2. more \in Seq({ more[i] : i \in DOMAIN more })
        BY <3>1, <4>1
      <4> QED BY <4>2 DEF Sequence
    <3>3. Effect(more[1], Batch(s)) /\ Effect(more[2], Batch(s))
          /\ more[1].owed.what # "write" /\ more[2].owed.what # "write"
      BY <3>1, <1>5 DEF Effect, QuietOwed, SettleOwed
    <3>4. \A i : i \in DOMAIN more <=> i = 1 \/ i = 2
      BY <3>1
    <3>5. OwedOK(more, Batch(s))
      BY <3>2, <3>3, <3>4 DEF OwedOK
    <3>6. LiftOwed(more) = {more[1], more[2]}
      BY <3>3, <3>4 DEF LiftOwed
    <3>7. owed # <<>>
      BY <2>2
    <3> QED BY <3>1, <3>5, <3>6, <3>7 DEF Owes
  <2> QED BY <2>1, <2>2
<1>8. OwedOK(all, Batch(s)) /\ LiftOwed(all) = LiftOwed(s.en.owed) \cup LiftOwed(more)
  BY <1>5, <1>6, <1>7, OwedConcat
<1> HIDE DEF all
<1>9. Fit(t)
  <2>1. s.en.shown \in 0..Batch(s)
    BY <1>5 DEF Fit
  <2> QED BY <1>4, <1>5, <1>8, <2>1 DEF Fit, Commands, Flying
<1> QED BY <1>1, <1>4, <1>7, <1>8, <1>9

LEMMA HideHeldOwes ==
    ASSUME NEW s, Fit(s), NEW g, s.en.lift \in {<<>>, <<QuietOwed(g), SettleOwed>>}
    PROVE  LET t == HideHeld(s)
           IN  /\ Fit(t) /\ t.co = s.co /\ t.pics = s.pics /\ t.re = s.re /\ t.before = s.before
               /\ t.en.lift = <<>> /\ t.en.quiet = s.en.quiet
               /\ t.batch = s.batch \cup (IF s.en.lift = <<>> THEN {} ELSE {"lift"})
               /\ LiftOwed(t.en.owed) = LiftOwed(s.en.owed) \cup (IF s.en.lift = <<>> THEN {} ELSE Owes(Batch(s), g))
<1> DEFINE taken == [s EXCEPT !.en.lift = <<>>]
<1>1. CASE s.en.lift = <<>>
  <2>1. HideHeld(s) = s
    BY <1>1 DEF HideHeld
  <2> QED BY <1>1, <2>1
<1>2. CASE s.en.lift # <<>>
  <2>1. HideHeld(s) = Hide(taken, s.en.lift)
    BY <1>2 DEF HideHeld
  <2>2. /\ Shape(taken) /\ taken.co = s.co /\ taken.pics = s.pics /\ taken.re = s.re
        /\ taken.before = s.before /\ taken.batch = s.batch
        /\ taken.en.owed = s.en.owed /\ taken.en.lift = <<>> /\ taken.en.quiet = s.en.quiet
        /\ taken.en.shown = s.en.shown /\ taken.en.passes = s.en.passes
    BY DEF Fit, Shape
  <2> HIDE DEF taken
  <2>3. Fit(taken) /\ Batch(taken) = Batch(s)
    BY <2>2 DEF Fit, Top, Flying, Batch
  <2>4. s.en.lift = <<QuietOwed(g), SettleOwed>>
    BY <1>2
  <2> QED BY <1>2, <2>1, <2>2, <2>3, <2>4, HideOwes
<1> QED BY <1>1, <1>2

LEMMA HeldOwed ==
    ASSUME NEW s, Fit(s), NEW g, s.en.lift \in {<<>>, <<QuietOwed(g), SettleOwed>>}
    PROVE  s.en.lift # <<>> => LiftOwed(HideHeld(s).en.owed) = LiftOwed(s.en.owed) \cup Owes(Batch(s), g)
<1>1. LiftOwed(HideHeld(s).en.owed) = LiftOwed(s.en.owed) \cup (IF s.en.lift = <<>> THEN {} ELSE Owes(Batch(s), g))
  BY HideHeldOwes
<1> QED BY <1>1

LEMMA HeldHides ==
    ASSUME NEW s, Fit(s), NEW g, s.en.lift \in {<<>>, <<QuietOwed(g), SettleOwed>>}, s.en.lift # <<>>,
           NEW t, t = HideHeld(s)
    PROVE  /\ Fit(t) /\ t.co = s.co /\ t.pics = s.pics /\ t.re = s.re
           /\ t.en.lift = <<>> /\ t.en.quiet = s.en.quiet
           /\ t.batch = s.batch \cup {"lift"}
           /\ LiftOwed(t.en.owed) = LiftOwed(s.en.owed) \cup Owes(Batch(s), g)
<1>1. Fit(t) /\ t.co = s.co /\ t.pics = s.pics /\ t.re = s.re
  BY HideHeldOwes
<1>2. t.en.lift = <<>> /\ t.en.quiet = s.en.quiet
  BY HideHeldOwes
<1>3. t.batch = s.batch \cup {"lift"}
  BY HideHeldOwes
<1>4. LiftOwed(t.en.owed) = LiftOwed(s.en.owed) \cup Owes(Batch(s), g)
  BY HeldOwed
<1> QED BY <1>1, <1>2, <1>3, <1>4

LEMMA ReleaseLets ==
    ASSUME NEW s, Fit(s)
    PROVE  LET t == Release(s)
           IN  /\ Fit(t) /\ t.co.state = "idle" /\ t.co.generation = s.co.generation
               /\ t.pics.hold = "released" /\ t.re.reported = FALSE /\ t.before = s.before
               /\ t.en = s.en /\ t.batch = s.batch
<1> DEFINE t == [s EXCEPT !.pics.hold = "released", !.re.reported = FALSE,
                        !.co = [@ EXCEPT !.state = "idle", !.settles = 0, !.flight = NoFlight]]
<1>1. Release(s) = t
  BY DEF Release
<1>2. /\ DOMAIN t = DOMAIN s /\ t.en = s.en /\ t.batch = s.batch /\ t.before = s.before
  BY DEF Fit, Shape
<1>3. DOMAIN t.co = DOMAIN s.co /\ t.co.state = "idle" /\ t.co.generation = s.co.generation
  BY DEF Fit, Shape
<1>4. DOMAIN t.pics = DOMAIN s.pics /\ t.pics.hold = "released"
  BY DEF Fit, Shape
<1>5. DOMAIN t.re = DOMAIN s.re /\ t.re.reported = FALSE
  BY DEF Fit, Shape
<1> HIDE DEF t
<1>6. Fit(t)
  BY <1>2, <1>3, <1>4, <1>5 DEF Fit, Shape, Top, Flying
<1> QED BY <1>1, <1>2, <1>3, <1>4, <1>5, <1>6

LEMMA AbandonLets ==
    ASSUME NEW s, Fit(s)
    PROVE  LET t == Abandon(s)
           IN  /\ Fit(t) /\ t.co.state = "idle" /\ t.co.generation >= s.co.generation
               /\ t.pics.hold = "released" /\ t.re.reported = FALSE /\ t.before = s.before
               /\ t.en.lift = s.en.lift /\ t.en.quiet = s.en.quiet /\ LiftOwed(t.en.owed) = LiftOwed(s.en.owed)
               /\ "lift" \in t.batch /\ t.batch \subseteq s.batch \cup {"lift", "stage"}
<1> DEFINE hidden == Hide(s, <<>>)
           hid == NoTiles(hidden)
           wrote == Writes(hid, s.co.flight.final)
           u == IF s.co.flight.kind = "bounce" THEN hid ELSE wrote
<1>1. Abandon(s) = Release(u)
  BY DEF Abandon
<1>2. /\ Fit(hidden) /\ hidden.co = s.co /\ hidden.before = s.before
      /\ hidden.en.lift = s.en.lift /\ hidden.en.quiet = s.en.quiet
      /\ hidden.batch = s.batch \cup {"lift"} /\ LiftOwed(hidden.en.owed) = LiftOwed(s.en.owed)
  <2> PICK g : g = 0
    OBVIOUS
  <2> PICK none : none = <<>>
    OBVIOUS
  <2>1. none \in {<<>>, <<QuietOwed(g), SettleOwed>>}
    OBVIOUS
  <2> PICK t : t = Hide(s, none)
    OBVIOUS
  <2>2. /\ Fit(t) /\ t.co = s.co /\ t.before = s.before
        /\ t.en.lift = s.en.lift /\ t.en.quiet = s.en.quiet /\ t.batch = s.batch \cup {"lift"}
        /\ LiftOwed(t.en.owed) = LiftOwed(s.en.owed) \cup (IF none = <<>> THEN {} ELSE Owes(Batch(s), g))
    BY <2>1, HideOwes
  <2>3. LiftOwed(t.en.owed) = LiftOwed(s.en.owed)
    BY <2>2
  <2> QED BY <2>2, <2>3
<1> HIDE DEF hidden
<1>3. Fit(hid) /\ Along(hid, hidden)
  BY <1>2, NoTilesAlong
<1> HIDE DEF hid
<1>4. Fit(wrote) /\ Along(wrote, hidden)
  BY <1>2, <1>3, WritesAlong, AlongAgain
<1> HIDE DEF wrote
<1>5. Fit(u) /\ Along(u, hidden)
  BY <1>3, <1>4
<1> HIDE DEF u
<1>6. LET t == Release(u)
      IN  /\ Fit(t) /\ t.co.state = "idle" /\ t.co.generation = u.co.generation
          /\ t.pics.hold = "released" /\ t.re.reported = FALSE /\ t.before = u.before
          /\ t.en = u.en /\ t.batch = u.batch
  BY <1>5, ReleaseLets
<1> QED BY <1>1, <1>2, <1>5, <1>6 DEF Along

LEMMA LiftLets ==
    ASSUME NEW s, Fit(s), Flying(s), NEW measured
    PROVE  LET t == Lift(s, measured)
               g == s.co.generation
           IN  /\ Fit(t) /\ t.co.state = "settling" /\ t.co.generation = g /\ t.co.settles = g
               /\ t.pics.hold = s.pics.hold /\ t.re.reported = s.re.reported
               /\ t.before = s.before /\ t.en.quiet = s.en.quiet
               /\ measured => /\ t.en.lift = <<QuietOwed(g), SettleOwed>>
                              /\ LiftOwed(t.en.owed) = LiftOwed(s.en.owed)
                              /\ t.batch = s.batch
               /\ ~measured => /\ t.en.lift = s.en.lift
                               /\ LiftOwed(t.en.owed) = LiftOwed(s.en.owed) \cup Owes(Batch(s), g)
                               /\ t.batch = s.batch \cup {"lift"}
<1> DEFINE g == s.co.flight.generation
           owed == <<QuietOwed(g), SettleOwed>>
           hidden == Hide(s, owed)
           kept == [s EXCEPT !.en.lift = owed]
           lifted == IF measured THEN kept ELSE hidden
           bare == NoTiles(lifted)
           c == [bare.co EXCEPT !.state = "settling", !.settles = g, !.flight = NoFlight]
           t == [bare EXCEPT !.co = c]
<1>1. Lift(s, measured) = t
  <2> DEFINE asLift == [bare EXCEPT !.co = [@ EXCEPT !.state = "settling", !.settles = g, !.flight = NoFlight]]
  <2>1. Lift(s, measured) = asLift
    BY DEF Lift
  <2>2. asLift = t
    <3> HIDE DEF bare
    <3> QED OBVIOUS
  <2> QED BY <2>1, <2>2
<1>2. g = s.co.generation
  BY DEF Fit
<1> HIDE DEF g
<1>3. owed # <<>>
  OBVIOUS
<1>4. /\ Fit(hidden) /\ hidden.co = s.co /\ hidden.pics = s.pics /\ hidden.re = s.re /\ hidden.before = s.before
      /\ hidden.en.lift = s.en.lift /\ hidden.en.quiet = s.en.quiet
      /\ hidden.batch = s.batch \cup {"lift"}
      /\ LiftOwed(hidden.en.owed) = LiftOwed(s.en.owed) \cup Owes(Batch(s), g)
  BY <1>3, HideOwes
<1> HIDE DEF hidden, owed
<1>5. /\ Shape(kept) /\ kept.co = s.co /\ kept.pics = s.pics /\ kept.re = s.re /\ kept.before = s.before
      /\ kept.en.lift = owed /\ kept.en.quiet = s.en.quiet /\ kept.batch = s.batch
      /\ kept.en.owed = s.en.owed /\ kept.en.shown = s.en.shown /\ kept.en.passes = s.en.passes
  BY DEF Fit, Shape
<1> HIDE DEF kept
<1>6. Fit(kept)
  BY <1>5 DEF Fit, Top, Flying
<1>7. Fit(lifted)
  BY <1>4, <1>6
<1>8. Fit(bare) /\ Along(bare, lifted) /\ bare.co = s.co /\ bare.batch = lifted.batch
  <2>1. lifted.co = s.co
    BY <1>4, <1>5
  <2> HIDE DEF lifted
  <2> QED BY <1>7, <2>1, NoTilesAlong
<1> HIDE DEF bare
<1>9. DOMAIN c = DOMAIN s.co /\ c.state = "settling" /\ c.settles = g /\ c.generation = s.co.generation
  BY <1>8 DEF Fit, Shape
<1> HIDE DEF c
<1>10. /\ DOMAIN t = DOMAIN bare /\ t.co = c /\ t.en = bare.en /\ t.pics = bare.pics /\ t.re = bare.re
       /\ t.before = bare.before /\ t.batch = bare.batch
  BY <1>8 DEF Fit, Shape
<1> HIDE DEF t
<1>11. Fit(t)
  BY <1>8, <1>9, <1>10 DEF Fit, Shape, Top, Flying
<1>12. CASE measured
  BY <1>1, <1>2, <1>5, <1>8, <1>9, <1>10, <1>11, <1>12 DEF Along, owed
<1>13. CASE ~measured
  BY <1>1, <1>2, <1>4, <1>8, <1>9, <1>10, <1>11, <1>13 DEF Along
<1> QED BY <1>12, <1>13

LEMMA LiftOwes ==
    ASSUME NEW s, Fit(s), Flying(s), NEW measured, NEW g, g = s.co.generation
    PROVE  /\ measured => /\ Lift(s, measured).en.lift = <<QuietOwed(g), SettleOwed>>
                          /\ LiftOwed(Lift(s, measured).en.owed) = LiftOwed(s.en.owed)
                          /\ Lift(s, measured).batch = s.batch
           /\ ~measured => LiftOwed(Lift(s, measured).en.owed) = LiftOwed(s.en.owed) \cup Owes(Batch(s), g)
<1>1. measured => Lift(s, measured).en.lift = <<QuietOwed(g), SettleOwed>>
  BY LiftLets
<1>2. measured => LiftOwed(Lift(s, measured).en.owed) = LiftOwed(s.en.owed) /\ Lift(s, measured).batch = s.batch
  BY LiftLets
<1>3. ~measured => LiftOwed(Lift(s, measured).en.owed) = LiftOwed(s.en.owed) \cup Owes(Batch(s), g)
  BY LiftLets
<1> QED BY <1>1, <1>2, <1>3

LEMMA BeginLets ==
    ASSUME NEW pass, NEW s, Fit(s)
    PROVE  LET t == Begin(s, pass)
           IN  /\ Fit(t) /\ t.co.state = "flying" /\ t.co.generation > s.co.generation
               /\ t.pics.hold = "transition" /\ t.re.reported = TRUE
               /\ t.before = s.before /\ t.batch = s.batch
               /\ t.en.lift = s.en.lift /\ t.en.quiet = 0 /\ LiftOwed(t.en.owed) = {}
<1> DEFINE generation == s.co.generation + 1
           start == { w \in DOMAIN pass.ends : reactor.written[w] \in Seen }
           f == [generation |-> generation, began |-> generation, at |-> pass.at, kind |-> pass.kind,
                 phase |-> "preparing", clock |-> "none", zeroOwed |-> 1, asked |-> start,
                 ends |-> pass.ends, final |-> pass.final,
                 since |-> [w \in DOMAIN pass.ends |-> generation],
                 sentBy |-> [w \in DOMAIN pass.ends |-> pass.at],
                 waits |-> Nothing, waiting |-> {}, merge |-> NoMerge]
           c == [state |-> "flying", generation |-> generation, settles |-> 0, flight |-> f]
           t == [s EXCEPT
                  !.en.quiet = 0, !.en.owed = Begun(@), !.en.final = Nothing,
                  !.pics.hold = "transition", !.pics.zeros = Append(@, generation),
                  !.re.reported = TRUE, !.co = c]
<1>1. Begin(s, pass) = t
  BY DEF Begin
<1>2. DOMAIN f = FlightFields /\ f.generation = generation
  BY DEF FlightFields
<1> HIDE DEF f
<1>3. /\ DOMAIN c = {"state", "generation", "settles", "flight"}
      /\ c.state = "flying" /\ c.generation = generation /\ c.flight = f
  OBVIOUS
<1> HIDE DEF c
<1>4. DOMAIN t = DOMAIN s /\ t.co = c /\ t.batch = s.batch /\ t.before = s.before
  BY DEF Fit, Shape
<1>5. /\ DOMAIN t.en = DOMAIN s.en /\ t.en.owed = Begun(s.en.owed) /\ t.en.shown = s.en.shown
      /\ t.en.lift = s.en.lift /\ t.en.quiet = 0 /\ t.en.passes = s.en.passes
  BY DEF Fit, Shape
<1>6. DOMAIN t.pics = DOMAIN s.pics /\ t.pics.hold = "transition"
  BY DEF Fit, Shape
<1>7. DOMAIN t.re = DOMAIN s.re /\ t.re.reported = TRUE
  BY DEF Fit, Shape
<1> HIDE DEF t
<1>8. Top(s) \in Nat
  BY DEF Top, Fit
<1>9. OwedOK(Begun(s.en.owed), Top(s)) /\ LiftOwed(Begun(s.en.owed)) = {}
  BY <1>8, BegunOwed DEF Fit
<1>10. generation \in Nat /\ generation > s.co.generation
  BY DEF Fit
<1> HIDE DEF generation
<1>11. Fit(t)
  BY <1>2, <1>3, <1>4, <1>5, <1>6, <1>7, <1>9, <1>10 DEF Fit, Shape, Top, Flying
<1> QED BY <1>1, <1>3, <1>4, <1>5, <1>6, <1>7, <1>9, <1>10, <1>11

-----------------------------------------------------------------------------
(* The renderer's line and answers.                                        *)

LEMMA Elements ==
    ASSUME NEW X, NEW sq \in Seq(X)
    PROVE  /\ Len(sq) \in Nat /\ DOMAIN sq = 1..Len(sq)
           /\ \A i \in DOMAIN sq : sq[i] \in X
           /\ sq # <<>> => 1 <= Len(sq) /\ 1 \in DOMAIN sq /\ Len(sq) \in DOMAIN sq
  OBVIOUS

(* What the renderer answers for.                                          *)
Answer == [upTo : Nat \ {0}, drawn : BOOLEAN]

RendererOK ==
    /\ DOMAIN renderer = {"line", "answers", "made", "up"}
    /\ renderer.line \in Seq(SUBSET Commands)
    /\ renderer.answers \in Seq(Answer)
    /\ renderer.made \in BOOLEAN /\ renderer.up \in BOOLEAN
    /\ renderer.up => renderer.made
    /\ \A i, j \in DOMAIN renderer.answers : i < j => renderer.answers[i].upTo < renderer.answers[j].upTo
    /\ \A i \in DOMAIN renderer.line : ~({"show", "lift"} \subseteq renderer.line[i])

(* No batch in line from the n-th on shows the overlay.                    *)
NoShowFrom(n) == \A j \in DOMAIN renderer.line : j >= n => "show" \notin renderer.line[j]

(* The overlay is down, and stays so.                                      *)
Down == renderer.up = FALSE /\ NoShowFrom(1)

(* It will be once the n-th batch from the last heard of is drawn.         *)
DownAfter(n) ==
    /\ n <= Answered => Down
    /\ n > Answered => /\ n - Answered \in DOMAIN renderer.line
                       /\ "lift" \in renderer.line[n - Answered]
                       /\ NoShowFrom(n - Answered)

(* Whatever shows the overlay, something later hides it.                   *)
Covered ==
    \A i \in DOMAIN renderer.line : "show" \in renderer.line[i] =>
        \E j \in DOMAIN renderer.line : j > i /\ "lift" \in renderer.line[j]

LEMMA MaxIs ==
    ASSUME NEW n \in Nat, NEW S, S \subseteq 1..n, S # {}
    PROVE  Max(S) \in S /\ \A j \in S : j <= Max(S)
<1> DEFINE Has(m) == \A R \in SUBSET (1..m) : R # {} => \E x \in R : \A y \in R : x >= y
           T == { m \in Nat : Has(m) }
<1>1. 0 \in T
  <2>1. 1..0 = {}
    OBVIOUS
  <2> QED BY <2>1
<1>2. ASSUME NEW m \in Nat, m \in T PROVE m + 1 \in T
  <2> SUFFICES ASSUME NEW R \in SUBSET (1..(m + 1)), R # {} PROVE \E x \in R : \A y \in R : x >= y
    OBVIOUS
  <2>1. CASE m + 1 \in R
    BY <2>1
  <2>2. CASE m + 1 \notin R
    <3>1. R \in SUBSET (1..m)
      BY <2>2
    <3> QED BY <3>1, <1>2
  <2> QED BY <2>1, <2>2
<1>3. Nat \subseteq T
  <2> HIDE DEF T
  <2> QED BY <1>1, <1>2, SetInduction
<1>4. \E x \in S : \A y \in S : x >= y
  BY <1>3
<1> QED BY <1>4 DEF Max

LEMMA AnswersUpTo ==
    ASSUME RendererOK
    PROVE  /\ Answered \in Nat /\ HandedOver \in Nat /\ HandedOver = Answered + Len(renderer.line)
           /\ Answered <= HandedOver
           /\ \A i \in DOMAIN renderer.answers : renderer.answers[i].upTo <= Answered
<1> DEFINE said == renderer.answers
<1>1. said \in Seq(Answer) /\ \A i, j \in DOMAIN said : i < j => said[i].upTo < said[j].upTo
  BY DEF RendererOK
<1>2. Answered = IF said = <<>> THEN 0 ELSE said[Len(said)].upTo
  BY DEF Answered, Last
<1> HIDE DEF said
<1>3. Answered \in Nat /\ \A i \in DOMAIN said : said[i].upTo <= Answered
  <2>1. CASE said = <<>>
    BY <1>2, <2>1
  <2>2. CASE said # <<>>
    <3>1. Len(said) \in DOMAIN said /\ DOMAIN said = 1..Len(said) /\ Len(said) \in Nat
      BY <1>1, <2>2, Elements
    <3>2. \A i \in DOMAIN said : said[i].upTo \in Nat
      <4>1. \A i \in DOMAIN said : said[i] \in Answer
        BY <1>1, Elements
      <4> QED BY <4>1 DEF Answer
    <3>3. \A i \in DOMAIN said : i < Len(said) \/ i = Len(said)
      BY <3>1
    <3>4. Answered = said[Len(said)].upTo
      BY <1>2, <2>2
    <3>5. \A i \in DOMAIN said : said[i].upTo <= said[Len(said)].upTo
      <4> SUFFICES ASSUME NEW i \in DOMAIN said PROVE said[i].upTo <= said[Len(said)].upTo
        OBVIOUS
      <4>1. i = Len(said) \/ said[i].upTo < said[Len(said)].upTo
        BY <1>1, <3>1, <3>3
      <4> QED BY <4>1, <3>1, <3>2
    <3> QED BY <3>1, <3>2, <3>4, <3>5
  <2> QED BY <2>1, <2>2
<1>4. Len(renderer.line) \in Nat
  BY DEF RendererOK
<1> QED BY <1>3, <1>4 DEF HandedOver, said

LEMMA HeardAnswers ==
    ASSUME NEW said \in Seq(Answer), said # <<>>,
           \A i, j \in DOMAIN said : i < j => said[i].upTo < said[j].upTo
    PROVE  LET n == Head(said).upTo
               h == Heard(said, n)
               last == said[Len(said)].upTo
           IN  /\ n \in Nat \ {0} /\ last \in Nat /\ n <= last
               /\ h \in Seq(Answer)
               /\ \A i, j \in DOMAIN h : i < j => h[i].upTo < h[j].upTo
               /\ (IF h = <<>> THEN 0 ELSE h[Len(h)].upTo) = last - n
<1> DEFINE n == Head(said).upTo
           h == Heard(said, n)
           last == said[Len(said)].upTo
           m == Len(said)
<1>1. /\ m \in Nat /\ m >= 1 /\ DOMAIN said = 1..m /\ 1 \in 1..m /\ m \in 1..m
      /\ \A i \in 1..m : said[i] \in Answer
  <2>1. Len(said) \in Nat /\ DOMAIN said = 1..Len(said) /\ 1 <= Len(said) /\ \A i \in DOMAIN said : said[i] \in Answer
    BY Elements
  <2> QED BY <2>1
<1>2. n = said[1].upTo
  OBVIOUS
<1>3. h = [i \in 1..(m - 1) |-> [said[i + 1] EXCEPT !.upTo = @ - n]]
  <2>1. DOMAIN Tail(said) = 1..(m - 1)
    BY <1>1
  <2> QED BY <2>1 DEF Heard
<1>4. last = said[m].upTo
  OBVIOUS
<1> HIDE DEF n, h, m, last
<1>5. m - 1 \in Nat /\ \A i \in 1..(m - 1) : i + 1 \in 1..m /\ 1 < i + 1
  BY <1>1
<1>6. \A i \in 1..m : said[i].upTo \in Nat \ {0} /\ said[i].upTo \in Nat
  BY <1>1 DEF Answer
<1>7. n \in Nat \ {0} /\ n \in Nat /\ \A i \in 1..m : 1 < i => n < said[i].upTo
  BY <1>1, <1>2, <1>6
<1>8. \A i \in 1..(m - 1) : h[i] \in Answer /\ h[i].upTo = said[i + 1].upTo - n
  <2> TAKE i \in 1..(m - 1)
  <2> PICK x : x = said[i + 1]
    OBVIOUS
  <2>1. x \in Answer /\ x.upTo \in Nat /\ n < x.upTo
    BY <1>1, <1>5, <1>6, <1>7
  <2>2. h[i] = [x EXCEPT !.upTo = @ - n]
    BY <1>3
  <2>3. x.upTo - n \in Nat \ {0}
    <3> PICK y : y = x.upTo
      OBVIOUS
    <3> QED BY <2>1, <1>7
  <2> QED BY <2>1, <2>2, <2>3 DEF Answer
<1>9. h \in Seq(Answer) /\ DOMAIN h = 1..(m - 1) /\ Len(h) = m - 1
  <2>1. h = [i \in 1..(m - 1) |-> h[i]]
    BY <1>3
  <2>2. \A X : \A k \in Nat : \A e :
          e = [i \in 1..k |-> e[i]] /\ (\A i \in 1..k : e[i] \in X) =>
            e \in Seq(X) /\ Len(e) = k /\ DOMAIN e = 1..k
    OBVIOUS
  <2>3. \A i \in 1..(m - 1) : h[i] \in Answer
    BY <1>8
  <2> QED BY <2>1, <2>2, <2>3, <1>5
<1>10. \A i, j \in DOMAIN h : i < j => h[i].upTo < h[j].upTo
  <2> SUFFICES ASSUME NEW i \in 1..(m - 1), NEW j \in 1..(m - 1), i < j PROVE h[i].upTo < h[j].upTo
    BY <1>9
  <2>1. i + 1 \in 1..m /\ j + 1 \in 1..m /\ i + 1 < j + 1
    BY <1>5
  <2>2. said[i + 1].upTo < said[j + 1].upTo
    BY <2>1, <1>1
  <2>3. h[i].upTo = said[i + 1].upTo - n /\ h[j].upTo = said[j + 1].upTo - n
    BY <1>8
  <2>4. said[i + 1].upTo \in Nat /\ said[j + 1].upTo \in Nat
    BY <2>1, <1>6
  <2> HIDE DEF Heard
  <2> QED BY <2>2, <2>3, <2>4, <1>7
<1>11. last \in Nat /\ n <= last
  <2>1. m = 1 \/ 1 < m
    BY <1>1
  <2>2. last \in Nat
    BY <1>1, <1>4, <1>6
  <2>3. last = n \/ n < last
    BY <2>1, <1>1, <1>2, <1>4, <1>7
  <2> QED BY <2>2, <2>3, <1>7
<1>12. (IF h = <<>> THEN 0 ELSE h[Len(h)].upTo) = last - n
  <2>1. CASE m = 1
    <3>1. Len(h) = 0
      BY <1>9, <2>1
    <3>2. h = <<>>
      BY <1>9, <3>1
    <3>3. last = n
      BY <1>2, <1>4, <2>1
    <3> QED BY <3>2, <3>3, <1>11
  <2>2. CASE m # 1
    <3>1. m - 1 \in 1..(m - 1) /\ (m - 1) + 1 = m /\ m - 1 # 0
      BY <1>1, <2>2
    <3>2. h # <<>> /\ h[Len(h)] = h[m - 1]
      BY <1>9, <3>1
    <3>3. h[m - 1].upTo = said[(m - 1) + 1].upTo - n
      BY <3>1, <1>8
    <3> QED BY <3>1, <3>2, <3>3, <1>4
  <2> QED BY <2>1, <2>2
<1> QED BY <1>7, <1>9, <1>10, <1>11, <1>12 DEF n, h, last

(* The engine's event hears of n batches more drawn and hands over batch.  *)
Sent(n, batch) ==
    /\ DOMAIN renderer' = DOMAIN renderer
    /\ renderer'.up = renderer.up /\ renderer'.made = renderer.made
    /\ renderer'.line = IF batch = {} THEN renderer.line ELSE Append(renderer.line, batch)
    /\ \/ n = 0 /\ renderer'.answers = renderer.answers
       \/ /\ renderer.answers # <<>> /\ n = Head(renderer.answers).upTo
          /\ renderer'.answers = Heard(renderer.answers, n)

LEMMA SentCounts ==
    ASSUME RendererOK, NEW n, NEW batch \in SUBSET Commands, ~({"show", "lift"} \subseteq batch), Sent(n, batch)
    PROVE  /\ RendererOK'
           /\ n \in Nat /\ n <= Answered /\ Answered' = Answered - n
           /\ HandedOver' = HandedOver - n + (IF batch = {} THEN 0 ELSE 1)
<1>1. /\ renderer'.answers \in Seq(Answer)
      /\ n \in Nat /\ n <= Answered /\ Answered' = Answered - n
      /\ \A i, j \in DOMAIN renderer'.answers : i < j => renderer'.answers[i].upTo < renderer'.answers[j].upTo
  <2>1. CASE n = 0 /\ renderer'.answers = renderer.answers
    <3>1. Answered' = Answered /\ Answered \in Nat
      BY <2>1, AnswersUpTo DEF Answered
    <3> QED BY <2>1, <3>1 DEF RendererOK
  <2>2. CASE /\ renderer.answers # <<>> /\ n = Head(renderer.answers).upTo
             /\ renderer'.answers = Heard(renderer.answers, n)
    <3> PICK said : said = renderer.answers
      OBVIOUS
    <3> PICK h : h = Heard(said, n)
      OBVIOUS
    <3>1. /\ n \in Nat \ {0} /\ said[Len(said)].upTo \in Nat /\ n <= said[Len(said)].upTo
          /\ h \in Seq(Answer)
          /\ \A i, j \in DOMAIN h : i < j => h[i].upTo < h[j].upTo
          /\ (IF h = <<>> THEN 0 ELSE h[Len(h)].upTo) = said[Len(said)].upTo - n
      BY <2>2, HeardAnswers DEF RendererOK
    <3>2. /\ Answered = said[Len(said)].upTo /\ Answered' = (IF h = <<>> THEN 0 ELSE h[Len(h)].upTo)
          /\ renderer'.answers = h
      BY <2>2 DEF Answered, Last
    <3> QED BY <3>1, <3>2
  <2> QED BY <2>1, <2>2 DEF Sent
<1> DEFINE line == renderer.line
<1>2. line \in Seq(SUBSET Commands) /\ Len(line) \in Nat /\ \A i \in DOMAIN line : ~({"show", "lift"} \subseteq line[i])
  BY DEF RendererOK
<1>3. /\ renderer'.line \in Seq(SUBSET Commands)
      /\ \A i \in DOMAIN renderer'.line : ~({"show", "lift"} \subseteq renderer'.line[i])
      /\ Len(renderer'.line) = Len(line) + (IF batch = {} THEN 0 ELSE 1)
  <2>1. CASE batch = {}
    <3>1. renderer'.line = line
      BY <2>1 DEF Sent
    <3> QED BY <1>2, <2>1, <3>1
  <2>2. CASE batch # {}
    <3> PICK more : more = Append(line, batch)
      OBVIOUS
    <3>1. renderer'.line = more
      BY <2>2 DEF Sent
    <3>2. /\ more \in Seq(SUBSET Commands) /\ Len(more) = Len(line) + 1 /\ more[Len(line) + 1] = batch
          /\ \A i \in DOMAIN line : more[i] = line[i]
          /\ \A i \in DOMAIN more : i \in DOMAIN line \/ i = Len(line) + 1
      BY <1>2
    <3> QED BY <1>2, <2>2, <3>1, <3>2
  <2> QED BY <2>1, <2>2
<1>4. RendererOK'
  BY <1>1, <1>3 DEF RendererOK, Sent
<1>5. HandedOver' = HandedOver - n + (IF batch = {} THEN 0 ELSE 1)
  <2>1. HandedOver' = Answered' + Len(renderer'.line) /\ HandedOver = Answered + Len(line) /\ Answered \in Nat
    BY AnswersUpTo DEF HandedOver
  <2> HIDE DEF line
  <2> QED BY <1>1, <1>2, <1>3, <2>1
<1> QED BY <1>1, <1>4, <1>5

(* What does not show the overlay leaves it hidden that is or will be.     *)
LEMMA SentHides ==
    ASSUME RendererOK, NEW n, NEW batch \in SUBSET Commands, "show" \notin batch, Sent(n, batch)
    PROVE  /\ Down => Down'
           /\ Covered => Covered'
           /\ "lift" \in batch => Covered' /\ DownAfter(HandedOver)'
           /\ \A m \in Nat : DownAfter(m) => IF m <= n THEN Down' ELSE DownAfter(m - n)'
<1>1. /\ n \in Nat /\ n <= Answered /\ Answered' = Answered - n /\ Answered \in Nat
      /\ HandedOver = Answered + Len(renderer.line)
  BY SentCounts, AnswersUpTo
<1> PICK line : line = renderer.line
  OBVIOUS
<1> PICK more : more = renderer'.line
  OBVIOUS
<1>2. /\ Len(line) \in Nat /\ DOMAIN line = 1..Len(line)
      /\ DOMAIN line \subseteq DOMAIN more
      /\ \A i \in DOMAIN line : more[i] = line[i]
      /\ \A i \in DOMAIN more : i \in DOMAIN line \/ (i = Len(line) + 1 /\ more[i] = batch)
      /\ batch # {} => Len(line) + 1 \in DOMAIN more /\ more[Len(line) + 1] = batch
  <2>1. line \in Seq(SUBSET Commands)
    BY DEF RendererOK
  <2>2. CASE batch = {}
    <3>1. more = line
      BY <2>2 DEF Sent
    <3> QED BY <2>1, <2>2, <3>1
  <2>3. CASE batch # {}
    <3>1. more = Append(line, batch)
      BY <2>3 DEF Sent
    <3> QED BY <2>1, <3>1
  <2> QED BY <2>2, <2>3
<1>3. \A m : NoShowFrom(m) => NoShowFrom(m)'
  BY <1>2 DEF NoShowFrom
<1>4. Down => Down'
  BY <1>3 DEF Down, Sent
<1>5. Covered => Covered'
  BY <1>2 DEF Covered
<1>6. ASSUME "lift" \in batch PROVE Covered' /\ DownAfter(HandedOver)'
  <2>1. batch # {}
    BY <1>6
  <2>2. Len(line) + 1 \in DOMAIN more /\ more[Len(line) + 1] = batch
    BY <1>2, <2>1
  <2>3. Covered'
    BY <1>2, <1>6, <2>2 DEF Covered
  <2>4. \A j \in DOMAIN more : j >= Len(line) + 1 => "show" \notin more[j]
    BY <1>2
  <2>5. HandedOver' - Answered' = Len(line) + 1 /\ HandedOver' > Answered'
    BY <1>1, <1>2, <2>1, SentCounts
  <2>6. DownAfter(HandedOver)'
    <3>1. NoShowFrom(HandedOver - Answered)'
      BY <2>4, <2>5 DEF NoShowFrom
    <3>2. ~(HandedOver <= Answered)'
      BY SMTT(30), <2>5, <1>1, SentCounts
    <3> QED BY <1>6, <2>2, <2>5, <3>1, <3>2 DEF DownAfter
  <2> QED BY <2>3, <2>6
<1>7. ASSUME NEW m \in Nat, DownAfter(m) PROVE IF m <= n THEN Down' ELSE DownAfter(m - n)'
  <2>1. CASE m <= Answered
    <3>1. Down'
      BY <1>4, <1>7, <2>1 DEF DownAfter
    <3>2. m - n <= Answered'
      BY <1>1, <2>1
    <3> QED BY <1>1, <3>1, <3>2 DEF DownAfter
  <2>2. CASE m > Answered
    <3>1. m > n /\ (m - n) - Answered' = m - Answered /\ m - n > Answered'
      BY <1>1, <2>2
    <3>2. m - Answered \in DOMAIN line /\ "lift" \in line[m - Answered] /\ NoShowFrom(m - Answered)
      BY <1>7, <2>2 DEF DownAfter
    <3> PICK k : k = m - Answered
      OBVIOUS
    <3>3. k \in DOMAIN more /\ "lift" \in more[k] /\ NoShowFrom(k)'
      BY <1>2, <1>3, <3>2
    <3>4. DownAfter(m - n)'
      <4>1. (m - n) - Answered' = k /\ ~(m - n <= Answered')
        BY <1>1, <3>1
      <4> QED BY <3>3, <4>1 DEF DownAfter
    <3> QED BY <1>1, <3>1, <3>4
  <2> QED BY <1>1, <2>1, <2>2
<1> QED BY <1>4, <1>5, <1>6, <1>7

-----------------------------------------------------------------------------
(* The invariant.                                                          *)

Resting ==
    /\ pictures.hold = "released" /\ reactor.reported = FALSE
    /\ engine.lift = <<>> /\ engine.quiet = 0 /\ LiftOwed(engine.owed) = {}
    /\ Covered

Aloft ==
    /\ pictures.hold = "transition" /\ reactor.reported = TRUE
    /\ engine.lift = <<>> /\ engine.quiet = 0 /\ LiftOwed(engine.owed) = {}
    /\ coordinator.generation \notin quiets

(* A lift's overlay is measured, ...                                       *)
Measured ==
    /\ engine.lift = <<QuietOwed(coordinator.settles), SettleOwed>> /\ LiftOwed(engine.owed) = {}
    /\ pictures.hold = "transition" /\ engine.quiet = 0 /\ coordinator.settles \notin quiets

(* ... then is on its way down, what it owes waiting for its batch, ...    *)
Lowered ==
    /\ engine.lift = <<>> /\ pictures.hold = "transition" /\ engine.quiet = 0
    /\ coordinator.settles \notin quiets
    /\ \E n \in 1..HandedOver : DownAfter(n) /\ LiftOwed(engine.owed) = Owes(n, coordinator.settles)

(* ... then is down, and the quiet runs.                                   *)
Quiet ==
    /\ engine.lift = <<>> /\ LiftOwed(engine.owed) = {}
    /\ pictures.hold = "settling" /\ engine.quiet \in {0, coordinator.settles} /\ Down

Stages ==
    /\ coordinator.state \in {"idle", "flying", "settling"}
    /\ coordinator.state = "idle" => Resting
    /\ coordinator.state = "flying" => Aloft
    /\ coordinator.state = "settling" =>
         /\ reactor.reported = TRUE /\ coordinator.settles = coordinator.generation
         /\ Measured \/ Lowered \/ Quiet

IInv ==
    /\ RendererOK
    /\ Fit(Now) /\ quiets \subseteq 1..coordinator.generation
    /\ Stages

(* What an event leaves, as the variables show it.                         *)
LEMMA Left ==
    ASSUME NEW s, Fit(s), Becomes(s)
    PROVE  /\ coordinator' = s.co /\ pictures'.hold = s.pics.hold /\ reactor' = s.re
           /\ engine'.lift = s.en.lift /\ engine'.quiet = s.en.quiet
           /\ LiftOwed(engine'.owed) = LiftOwed(s.en.owed)
           /\ HandedOver' = Top(s) => Fit(Now)'
<1> PICK kept : kept = KeepHeld(s)
  OBVIOUS
<1>1. /\ Fit(kept) /\ Along(kept, s) /\ kept.co = s.co
      /\ kept.pics = s.pics /\ kept.re = s.re /\ kept.batch = s.batch
  BY KeepHeldAlong
<1>2. coordinator' = kept.co /\ engine' = kept.en /\ pictures' = kept.pics /\ reactor' = kept.re
  BY DEF Becomes
<1>3. ASSUME HandedOver' = Top(s) PROVE Fit(Now)'
  <2> PICK now : now = Now'
    OBVIOUS
  <2>1. /\ DOMAIN now = {"co", "en", "pics", "re", "before", "batch", "extends"}
        /\ now.co = kept.co /\ now.en = kept.en /\ now.pics = kept.pics /\ now.re = kept.re
        /\ now.before = Top(s) /\ now.batch = {}
    BY <1>2, <1>3 DEF Now
  <2>2. Top(kept) = Top(s) /\ Top(s) \in Nat
    BY <1>1 DEF Top, Along, Fit
  <2>3. Fit(now)
    BY <1>1, <2>1, <2>2 DEF Fit, Shape, Top, Flying
  <2>4. Fit(Now)' <=> Fit(now)
    BY DEF Fit, Shape, Top, Flying
  <2> QED BY <2>3, <2>4
<1> QED BY <1>1, <1>2, <1>3 DEF Along

LEMMA SendsBatch ==
    ASSUME RendererOK, NEW s, Fit(s), s.before = HandedOver, ~({"show", "lift"} \subseteq s.batch),
           Becomes(s), Sends(s)
    PROVE  /\ Sent(0, s.batch) /\ RendererOK' /\ Fit(Now)'
           /\ Answered' = Answered /\ HandedOver' = Top(s) /\ renderer'.up = renderer.up
<1>1. renderer' = [renderer EXCEPT !.line = IF s.batch = {} THEN @ ELSE Append(@, s.batch)]
  BY DEF Sends
<1>2. Sent(0, s.batch)
  BY <1>1 DEF Sent, RendererOK
<1>3. s.batch \in SUBSET Commands
  BY DEF Fit
<1>4. RendererOK' /\ Answered' = Answered - 0 /\ HandedOver' = HandedOver - 0 + (IF s.batch = {} THEN 0 ELSE 1)
  BY <1>2, <1>3, SentCounts
<1>5. Answered \in Nat /\ HandedOver \in Nat
  BY AnswersUpTo
<1>6. HandedOver' = Top(s)
  BY <1>4, <1>5 DEF Top
<1>7. Fit(Now)'
  BY <1>6, Left
<1> QED BY <1>1, <1>2, <1>4, <1>5, <1>6, <1>7 DEF RendererOK

(* The contract sees nothing of what happens along a flight.               *)
Unseen == pictures'.hold = pictures.hold /\ reactor'.reported = reactor.reported /\ renderer'.up = renderer.up

LEMMA Reseated ==
    ASSUME NEW X, NEW sq \in Seq(X) PROVE Sequence(sq)
<1>1. Len(sq) \in Nat /\ sq = [i \in 1..Len(sq) |-> sq[i]] /\ DOMAIN sq = 1..Len(sq)
  OBVIOUS
<1>2. sq \in Seq({ sq[i] : i \in DOMAIN sq })
  BY <1>1
<1> QED BY <1>2 DEF Sequence

LEMMA NowFit == Now.co = coordinator /\ Now.en = engine /\ Now.pics = pictures /\ Now.re = reactor
                /\ Now.before = HandedOver /\ Now.batch = {}
  BY DEF Now

(* A step in flight, or into it: the renderer may be asked to show.        *)
LEMMA FliesOn ==
    ASSUME IInv, NEW s, Fit(s), Becomes(s), Sends(s), UNCHANGED quiets,
           s.before = HandedOver, ~({"show", "lift"} \subseteq s.batch),
           s.co.state = "flying", s.co.generation >= coordinator.generation, s.co.generation \notin quiets,
           s.pics.hold = "transition", s.re.reported = TRUE,
           s.en.lift = <<>>, s.en.quiet = 0, LiftOwed(s.en.owed) = {}
    PROVE  IInv' /\ renderer'.up = renderer.up /\ pictures'.hold = "transition" /\ reactor'.reported = TRUE
<1>1. RendererOK' /\ Fit(Now)' /\ renderer'.up = renderer.up
  BY SendsBatch DEF IInv
<1>2. /\ coordinator' = s.co /\ pictures'.hold = s.pics.hold /\ reactor' = s.re
      /\ engine'.lift = s.en.lift /\ engine'.quiet = s.en.quiet
      /\ LiftOwed(engine'.owed) = LiftOwed(s.en.owed)
  BY Left
<1>3. coordinator.generation \in Nat /\ s.co.generation \in Nat
  BY NowFit DEF IInv, Fit
<1>4. quiets' \subseteq 1..coordinator'.generation
  BY <1>2, <1>3 DEF IInv
<1>5. Aloft'
  BY <1>2 DEF Aloft
<1>6. Stages'
  BY <1>2, <1>5 DEF Stages
<1> QED BY <1>1, <1>2, <1>4, <1>6 DEF IInv

(* A flight given up, or one nothing is drawn of: what covered comes down. *)
LEMMA ComesToRest ==
    ASSUME IInv, NEW s, Fit(s), Becomes(s), quiets' \subseteq quiets, RendererOK', Covered',
           HandedOver' = Top(s),
           s.co.state = "idle", s.co.generation >= coordinator.generation,
           s.pics.hold = "released", s.re.reported = FALSE,
           s.en.lift = <<>>, s.en.quiet = 0, LiftOwed(s.en.owed) = {}
    PROVE  IInv' /\ pictures'.hold = "released" /\ reactor'.reported = FALSE
<1>1. /\ coordinator' = s.co /\ pictures'.hold = s.pics.hold /\ reactor' = s.re
      /\ engine'.lift = s.en.lift /\ engine'.quiet = s.en.quiet
      /\ LiftOwed(engine'.owed) = LiftOwed(s.en.owed) /\ Fit(Now)'
  BY Left
<1>2. coordinator.generation \in Nat /\ s.co.generation \in Nat
  BY NowFit DEF IInv, Fit
<1>3. quiets' \subseteq 1..coordinator'.generation
  BY <1>1, <1>2 DEF IInv
<1>4. Resting'
  BY <1>1 DEF Resting
<1>5. Stages'
  BY <1>1, <1>4 DEF Stages
<1> QED BY <1>1, <1>3, <1>5 DEF IInv

LEMMA AlongStep ==
    ASSUME IInv, NEW s, Fit(s), Along(s, Now), Becomes(s), Sends(s), UNCHANGED quiets,
           coordinator.state # "flying" => s.co.generation = coordinator.generation
    PROVE  IInv' /\ Unseen
<1>1. /\ s.co.state = coordinator.state /\ s.co.settles = coordinator.settles
      /\ s.co.generation >= coordinator.generation
      /\ s.pics.hold = pictures.hold /\ s.re.reported = reactor.reported
      /\ s.en.lift = engine.lift /\ s.en.quiet = engine.quiet
      /\ LiftOwed(s.en.owed) = LiftOwed(engine.owed)
      /\ s.before = HandedOver /\ s.batch \subseteq {"stage"}
  BY NowFit DEF Along
<1>2. /\ Sent(0, s.batch) /\ RendererOK' /\ Fit(Now)'
      /\ Answered' = Answered /\ HandedOver' = Top(s) /\ renderer'.up = renderer.up
  BY <1>1, SendsBatch DEF IInv
<1>3. /\ coordinator' = s.co /\ pictures'.hold = pictures.hold /\ reactor' = s.re
      /\ engine'.lift = engine.lift /\ engine'.quiet = engine.quiet
      /\ LiftOwed(engine'.owed) = LiftOwed(engine.owed)
  BY <1>1, Left
<1>4. coordinator.generation \in Nat /\ s.co.generation \in Nat /\ HandedOver \in Nat
      /\ HandedOver' \in Nat /\ HandedOver <= HandedOver'
  BY <1>1, <1>2, NowFit, AnswersUpTo DEF IInv, Fit, Top
<1>5. quiets' \subseteq 1..coordinator'.generation
  BY <1>1, <1>3, <1>4 DEF IInv
<1>6. /\ Down => Down'
      /\ Covered => Covered'
      /\ \A m \in Nat : DownAfter(m) => IF m <= 0 THEN Down' ELSE DownAfter(m - 0)'
  <2>1. s.batch \in SUBSET Commands /\ "show" \notin s.batch
    BY <1>1 DEF Commands
  <2> QED BY <1>2, <2>1, SentHides DEF IInv
<1>7. Stages'
  <2>1. CASE coordinator.state = "idle"
    <3>1. Resting
      BY <2>1 DEF IInv, Stages
    <3>2. Resting'
      BY <3>1, <1>1, <1>3, <1>6 DEF Resting
    <3> QED BY <2>1, <3>2, <1>1, <1>3 DEF Stages
  <2>2. CASE coordinator.state = "flying"
    <3>1. s.co.generation \notin quiets
      <4>1. s.co.generation = coordinator.generation \/ s.co.generation \notin 1..coordinator.generation
        BY <1>1, <1>4
      <4> QED BY <4>1, <2>2 DEF IInv, Stages, Aloft
    <3> QED BY <2>2, <3>1, <1>1, <1>3 DEF IInv, Stages, Aloft
  <2>3. CASE coordinator.state = "settling"
    <3>1. coordinator' = s.co /\ s.co.settles = coordinator.settles /\ s.co.settles = s.co.generation
          /\ s.co.state = "settling" /\ s.re.reported = TRUE
      BY <2>3, <1>1, <1>3 DEF IInv, Stages
    <3>2. CASE Measured
      <4>1. Measured'
        BY <3>1, <3>2, <1>3 DEF Measured
      <4> QED BY <3>1, <4>1, <1>3 DEF Stages
    <3>3. CASE Lowered
      <4> PICK n \in 1..HandedOver : DownAfter(n) /\ LiftOwed(engine.owed) = Owes(n, coordinator.settles)
        BY <3>3 DEF Lowered
      <4>1. n \in 1..HandedOver' /\ n \in Nat /\ ~(n <= 0) /\ n - 0 = n
        BY <1>2, <1>4
      <4>2. DownAfter(n)'
        BY <4>1, <1>6
      <4>3. LiftOwed(engine'.owed) = Owes(n, coordinator'.settles)
        BY <1>3, <3>1
      <4>4. Lowered'
        BY <3>1, <3>3, <4>1, <4>2, <4>3, <1>3 DEF Lowered
      <4> QED BY <3>1, <4>4, <1>3 DEF Stages
    <3>4. CASE Quiet
      <4>1. Quiet'
        BY <3>1, <3>4, <1>3, <1>6 DEF Quiet
      <4> QED BY <3>1, <4>1, <1>3 DEF Stages
    <3> QED BY <2>3, <3>2, <3>3, <3>4 DEF IInv, Stages
  <2> QED BY <2>1, <2>2, <2>3 DEF IInv, Stages
<1> QED BY <1>1, <1>2, <1>3, <1>5, <1>7 DEF IInv, Unseen

-----------------------------------------------------------------------------
(* The steps, one by one.                                                  *)

Kept == IInv' /\ [Contract!Next]_(Contract!vars)

LEMMA UnseenStutters == Unseen => UNCHANGED Contract!vars
  BY DEF Unseen, Contract!vars

LEMMA ExtendsAlong ==
    ASSUME NEW s, Fit(s), NEW extends
    PROVE  LET t == [s EXCEPT !.extends = extends]
           IN  Fit(t) /\ Along(t, s) /\ t.co = s.co /\ t.en = s.en
  BY DEF Fit, Along, Shape, Top, Flying

LEMMA RequestedAlong ==
    ASSUME Fit(Now), NEW r
    PROVE  Fit(Requested(r)) /\ Along(Requested(r), Now) /\ Requested(r).co = coordinator /\ Requested(r).en = engine
<1> PICK n : n = reactor.requests + 1
  OBVIOUS
<1> PICK goal : goal = ExtendLatest(reactor.goal, Pass(r, n).final)
  OBVIOUS
<1> PICK now : now = Now
  OBVIOUS
<1>1. Requested(r) = [now EXCEPT !.re.requests = n, !.re.goal = goal]
  BY DEF Requested, Now
<1>2. Fit(now) /\ now.co = coordinator /\ now.en = engine
  BY NowFit
<1> DEFINE t == [now EXCEPT !.re.requests = n, !.re.goal = goal]
<1>3. /\ DOMAIN t = DOMAIN now /\ t.co = now.co /\ t.en = now.en /\ t.pics = now.pics
      /\ t.before = now.before /\ t.batch = now.batch
      /\ DOMAIN t.re = DOMAIN now.re /\ t.re.reported = now.re.reported
  BY <1>2 DEF Fit, Shape
<1>4. Requested(r) = t
  BY <1>1
<1> HIDE DEF t
<1>5. Fit(t) /\ Along(t, now)
  BY <1>2, <1>3 DEF Fit, Along, Shape, Top, Flying
<1> QED BY <1>2, <1>3, <1>4, <1>5

LEMMA RequestBeginsStep ==
    ASSUME IInv, NEW r, RequestBegins(r) PROVE Kept
<1>a. PICK pass : pass = Pass(r, reactor.requests + 1)
  OBVIOUS
<1> PICK asked : asked = Requested(r)
  OBVIOUS
<1> PICK hid : hid = HideHeld(asked)
  OBVIOUS
<1>b. PICK began : began = Begin(hid, pass)
  OBVIOUS
<1>c. PICK posed : posed = Merge(Render(began, "stage"), pass)
  OBVIOUS
<1>d. PICK s : s = IF r.drawn THEN posed ELSE Abandon(began)
  OBVIOUS
<1>1. coordinator.state # "flying" /\ Becomes(s) /\ Sends(s) /\ UNCHANGED quiets
  BY <1>a, <1>b, <1>c, <1>d DEF RequestBegins
<1>2. /\ Fit(asked) /\ asked.co = coordinator /\ asked.en = engine
      /\ asked.before = HandedOver /\ asked.batch \subseteq {"stage"}
  BY RequestedAlong, NowFit DEF IInv, Along
<1>3. asked.en.lift \in {<<>>, <<QuietOwed(coordinator.settles), SettleOwed>>}
  BY <1>1, <1>2 DEF IInv, Stages, Resting, Measured, Lowered, Quiet
<1>4. /\ Fit(hid) /\ hid.co = coordinator /\ hid.before = HandedOver /\ hid.en.lift = <<>>
      /\ hid.batch \subseteq {"stage", "lift"}
  BY <1>2, <1>3, HideHeldOwes
<1>5. /\ Fit(began) /\ began.co.state = "flying" /\ began.co.generation > coordinator.generation
      /\ began.pics.hold = "transition" /\ began.re.reported = TRUE
      /\ began.before = HandedOver /\ began.batch \subseteq {"stage", "lift"}
      /\ began.en.lift = <<>> /\ began.en.quiet = 0 /\ LiftOwed(began.en.owed) = {}
  <2>1. /\ Fit(began) /\ began.co.state = "flying" /\ began.co.generation > hid.co.generation
        /\ began.pics.hold = "transition" /\ began.re.reported = TRUE
        /\ began.before = hid.before /\ began.batch = hid.batch
        /\ began.en.lift = hid.en.lift /\ began.en.quiet = 0 /\ LiftOwed(began.en.owed) = {}
    <3> DEFINE t == Begin(hid, pass)
    <3>1. /\ Fit(t) /\ t.co.state = "flying" /\ t.co.generation > hid.co.generation
      BY <1>4, BeginLets
    <3>4. /\ t.pics.hold = "transition" /\ t.re.reported = TRUE
          /\ t.en.lift = hid.en.lift /\ t.en.quiet = 0 /\ LiftOwed(t.en.owed) = {}
      BY <1>4, BeginLets
    <3>2. began = t
      BY <1>b
    <3>3. t.before = hid.before /\ t.batch = hid.batch
      BY <1>4 DEF Begin, Fit, Shape
    <3> HIDE DEF t
    <3> QED BY <3>1, <3>2, <3>3, <3>4
  <2> QED BY <1>4, <2>1
<1>6. coordinator.generation \in Nat /\ began.co.generation \in Nat
  BY <1>5, NowFit DEF IInv, Fit
<1>7. CASE r.drawn
  <2> PICK rendered : rendered = Render(began, "stage")
    OBVIOUS
  <2>1. Fit(rendered) /\ Along(rendered, began)
    BY <1>5, RenderAlong DEF Commands
  <2>2. Flying(rendered)
    BY <1>5, <2>1 DEF Along, Flying
  <2>3. Fit(posed) /\ Along(posed, rendered)
    BY <1>c, <2>1, <2>2, MergeAlong
  <2>4. Along(posed, began)
    BY <1>5, <2>1, <2>3, AlongAgain
  <2>5. /\ s = posed /\ Fit(s) /\ s.before = HandedOver /\ s.batch \subseteq {"stage", "lift"}
        /\ s.co.state = "flying" /\ s.co.generation > coordinator.generation /\ s.co.generation \in Nat
        /\ s.pics.hold = "transition" /\ s.re.reported = TRUE
        /\ s.en.lift = <<>> /\ s.en.quiet = 0 /\ LiftOwed(s.en.owed) = {}
    <3>1. s = posed
      BY <1>d, <1>7
    <3>2. posed.co.generation \in Nat
      BY <2>3 DEF Fit
    <3> QED BY <3>1, <3>2, <1>5, <1>6, <2>3, <2>4 DEF Along
  <2>6. s.co.generation >= coordinator.generation /\ s.co.generation \notin quiets
    BY <1>6, <2>5 DEF IInv
  <2>7. IInv' /\ renderer'.up = renderer.up /\ pictures'.hold = "transition" /\ reactor'.reported = TRUE
    BY <1>1, <2>5, <2>6, FliesOn
  <2>8. Contract!Begins
    BY <2>7 DEF Contract!Begins
  <2> QED BY <2>7, <2>8 DEF Kept, Contract!Next
<1>8. CASE ~r.drawn
  <2>1. s = Abandon(began)
    BY <1>d, <1>8
  <2>2. /\ Fit(s) /\ s.co.state = "idle" /\ s.co.generation > coordinator.generation
        /\ s.pics.hold = "released" /\ s.re.reported = FALSE /\ s.before = HandedOver
        /\ s.en.lift = <<>> /\ s.en.quiet = 0 /\ LiftOwed(s.en.owed) = {}
        /\ "lift" \in s.batch /\ s.batch \subseteq {"stage", "lift"}
    <3>1. /\ Fit(s) /\ s.co.state = "idle" /\ s.co.generation >= began.co.generation
          /\ s.pics.hold = "released" /\ s.re.reported = FALSE /\ s.before = began.before
          /\ s.en.lift = began.en.lift /\ s.en.quiet = began.en.quiet
          /\ LiftOwed(s.en.owed) = LiftOwed(began.en.owed)
          /\ "lift" \in s.batch /\ s.batch \subseteq began.batch \cup {"lift", "stage"}
      <4> DEFINE t == Abandon(began)
      <4>1. /\ Fit(t) /\ t.co.state = "idle" /\ t.co.generation >= began.co.generation
            /\ t.pics.hold = "released" /\ t.re.reported = FALSE /\ t.before = began.before
            /\ t.en.lift = began.en.lift /\ t.en.quiet = began.en.quiet
            /\ LiftOwed(t.en.owed) = LiftOwed(began.en.owed)
            /\ "lift" \in t.batch /\ t.batch \subseteq began.batch \cup {"lift", "stage"}
        BY <1>5, AbandonLets, Zenon
      <4> QED BY <4>1, <2>1
    <3>2. s.co.generation \in Nat /\ began.co.generation \in Nat /\ coordinator.generation \in Nat
      BY <3>1, <1>6 DEF Fit
    <3> QED BY <3>1, <3>2, <1>5
  <2>3. /\ Sent(0, s.batch) /\ RendererOK' /\ HandedOver' = Top(s) /\ renderer'.up = renderer.up
    BY <1>1, <2>2, SendsBatch DEF IInv
  <2>4. Covered'
    <3>1. s.batch \in SUBSET Commands /\ "show" \notin s.batch
      BY <2>2 DEF Commands
    <3> QED BY <2>2, <2>3, <3>1, SentHides DEF IInv
  <2>5. s.co.generation \in Nat /\ s.co.generation >= coordinator.generation
    BY <1>6, <2>2 DEF Fit
  <2>6. IInv' /\ pictures'.hold = "released" /\ reactor'.reported = FALSE
    BY <1>1, <2>2, <2>3, <2>4, <2>5, ComesToRest
  <2>7. Contract!Releases
    BY <2>3, <2>6 DEF Contract!Releases
  <2> QED BY <2>6, <2>7 DEF Kept, Contract!Next
<1> QED BY <1>7, <1>8

LEMMA AlongKeeps ==
    ASSUME IInv, NEW s, Fit(s), Along(s, Now), Becomes(s), Sends(s), UNCHANGED quiets,
           coordinator.state # "flying" => s.co.generation = coordinator.generation
    PROVE  Kept
  BY AlongStep, UnseenStutters DEF Kept

LEMMA RequestMergesStep ==
    ASSUME IInv, NEW r, RequestMerges(r) PROVE Kept
<1> PICK pass : pass = Pass(r, reactor.requests + 1)
  OBVIOUS
<1> PICK asked : asked = Requested(r)
  OBVIOUS
<1>1. \E extends \in BOOLEAN :
         LET t == [asked EXCEPT !.extends = extends]
             u == [t EXCEPT !.en.passes = Append(@, pass)]
         IN  \E after \in {HoldMerge(u, pass), Merge(t, pass)} :
               \E posed \in {Render(after, "stage"), after} : Becomes(posed) /\ Sends(posed)
  <2> DEFINE held == coordinator.flight.clock # "none" /\ (Grows(pass) # {} \/ engine.passes # <<>>)
  <2>1. PICK extends \in BOOLEAN :
         LET t == [asked EXCEPT !.extends = extends]
             u == [t EXCEPT !.en.passes = Append(@, pass)]
             after == IF held THEN HoldMerge(u, pass) ELSE Merge(t, pass)
             posed == IF coordinator.flight.clock = "none" THEN Render(after, "stage") ELSE after
         IN  Becomes(posed) /\ Sends(posed)
    BY DEF RequestMerges
  <2> PICK t : t = [asked EXCEPT !.extends = extends]
    OBVIOUS
  <2> PICK u : u = [t EXCEPT !.en.passes = Append(@, pass)]
    OBVIOUS
  <2> DEFINE after == IF held THEN HoldMerge(u, pass) ELSE Merge(t, pass)
             posed == IF coordinator.flight.clock = "none" THEN Render(after, "stage") ELSE after
  <2>2. Becomes(posed) /\ Sends(posed)
    BY <2>1
  <2> HIDE DEF held
  <2>3. after \in {HoldMerge(u, pass), Merge(t, pass)}
    OBVIOUS
  <2> HIDE DEF after
  <2>4. posed \in {Render(after, "stage"), after}
    OBVIOUS
  <2> HIDE DEF posed
  <2> QED BY <2>2, <2>3, <2>4
<1> PICK extends \in BOOLEAN :
         LET t == [asked EXCEPT !.extends = extends]
             u == [t EXCEPT !.en.passes = Append(@, pass)]
         IN  \E after \in {HoldMerge(u, pass), Merge(t, pass)} :
               \E posed \in {Render(after, "stage"), after} : Becomes(posed) /\ Sends(posed)
  BY <1>1
<1> PICK t : t = [asked EXCEPT !.extends = extends]
  OBVIOUS
<1> PICK passes : passes = Append(t.en.passes, pass)
  OBVIOUS
<1> PICK u : u = [t EXCEPT !.en.passes = passes]
  OBVIOUS
<1> PICK after \in {HoldMerge(u, pass), Merge(t, pass)} :
      \E posed \in {Render(after, "stage"), after} : Becomes(posed) /\ Sends(posed)
  OBVIOUS
<1> PICK posed \in {Render(after, "stage"), after} : Becomes(posed) /\ Sends(posed)
  OBVIOUS
<1> PICK now : now = Now
  OBVIOUS
<1>2. Becomes(posed) /\ Sends(posed) /\ UNCHANGED quiets /\ coordinator.state = "flying"
  BY DEF RequestMerges
<1>3. Fit(now) /\ Fit(asked) /\ Along(asked, now) /\ Flying(asked)
  BY <1>2, RequestedAlong DEF IInv, Flying
<1>4. Fit(t) /\ Along(t, asked) /\ Flying(t)
  BY <1>3, ExtendsAlong DEF Flying
<1>5. Sequence(passes)
  <2> PICK old : old = t.en.passes
    OBVIOUS
  <2> PICK X : X = { old[i] : i \in DOMAIN old } \cup {pass}
    OBVIOUS
  <2>1. old \in Seq(X) /\ pass \in X
    BY <1>4 DEF Fit, Sequence
  <2>2. passes \in Seq(X)
    BY <2>1
  <2> QED BY <2>2, Reseated
<1>6. Fit(u) /\ Along(u, t) /\ Flying(u)
  BY <1>4, <1>5, PassesAlong DEF Flying
<1>7. Fit(after) /\ Along(after, t)
  <2>1. CASE after = HoldMerge(u, pass)
    <3>1. Fit(after) /\ Along(after, u)
      BY <2>1, <1>6, HoldMergeAlong
    <3> QED BY <3>1, <1>4, <1>6, AlongAgain
  <2>2. CASE after = Merge(t, pass)
    BY <2>2, <1>4, MergeAlong
  <2> QED BY <2>1, <2>2
<1>8. Fit(posed) /\ Along(posed, t)
  <2>1. CASE posed = Render(after, "stage")
    <3>1. Fit(posed) /\ Along(posed, after)
      BY <2>1, <1>7, RenderAlong DEF Commands
    <3> QED BY <3>1, <1>4, <1>7, AlongAgain
  <2>2. CASE posed = after
    BY <2>2, <1>7
  <2> QED BY <2>1, <2>2
<1>9. Along(posed, Now)
  BY <1>3, <1>4, <1>8, AlongAgain
<1> QED BY <1>2, <1>8, <1>9, AlongKeeps

LEMMA RequestPushesStep ==
    ASSUME IInv, NEW r, RequestPushes(r) PROVE Kept
<1> PICK now : now = Now
  OBVIOUS
<1> PICK asked : asked = Requested(r)
  OBVIOUS
<1> PICK t : t = [asked EXCEPT !.extends = TRUE]
  OBVIOUS
<1> PICK s : s = Extend(t)
  OBVIOUS
<1>1. Becomes(s) /\ Sends(s) /\ UNCHANGED quiets /\ coordinator.state = "flying"
  BY DEF RequestPushes
<1>2. Fit(now) /\ Fit(asked) /\ Along(asked, now) /\ Flying(asked)
  BY <1>1, RequestedAlong DEF IInv, Flying
<1>3. Fit(t) /\ Along(t, asked) /\ Flying(t)
  BY <1>2, ExtendsAlong DEF Flying
<1>4. Fit(s) /\ Along(s, t)
  BY <1>3, ExtendAlong
<1>5. Along(s, Now)
  BY <1>2, <1>3, <1>4, AlongAgain
<1> QED BY <1>1, <1>4, <1>5, AlongKeeps

(* The overlay is shown.                                                   *)
LEMMA ShowStep ==
    ASSUME IInv, NEW now, Fit(now), Along(now, Now), Flying(now),
           Becomes(Show(now)), Sends(Show(now)), UNCHANGED quiets
    PROVE  Kept
<1> PICK s : s = Show(now)
  OBVIOUS
<1> PICK rendered : rendered = Render(now, "show")
  OBVIOUS
<1>1. Fit(s) /\ Along(s, rendered) /\ Becomes(s) /\ Sends(s)
  BY ShowAlong
<1>2. rendered.batch = now.batch \cup {"show"}
  BY DEF Render, Fit, Shape
<1>3. rendered.co = now.co /\ rendered.en = now.en /\ rendered.pics = now.pics /\ rendered.re = now.re
      /\ rendered.before = now.before
  BY DEF Render, Fit, Shape
<1>4. coordinator.state = "flying" /\ Aloft
  <2>1. coordinator.state = "flying"
    BY NowFit DEF Along, Flying
  <2> QED BY <2>1 DEF IInv, Stages
<1>5. /\ now.co.generation \in Nat /\ s.co.generation \in Nat /\ coordinator.generation \in Nat
      /\ s.co.generation >= now.co.generation /\ now.co.generation >= coordinator.generation
  BY <1>1, <1>3, NowFit DEF Along, Fit, IInv
<1>6. s.co.generation >= coordinator.generation /\ s.co.generation \notin quiets
  <2>1. s.co.generation = coordinator.generation \/ s.co.generation \notin 1..coordinator.generation
    BY <1>5
  <2> QED BY <1>4, <1>5, <2>1 DEF IInv, Aloft
<1>7. /\ s.co.state = "flying" /\ s.pics.hold = "transition" /\ s.re.reported = TRUE
      /\ s.en.lift = <<>> /\ s.en.quiet = 0 /\ LiftOwed(s.en.owed) = {}
      /\ s.before = HandedOver /\ s.batch \subseteq {"stage", "show"}
  BY <1>1, <1>2, <1>3, <1>4, NowFit DEF Along, Aloft, Flying
<1>8. IInv' /\ renderer'.up = renderer.up /\ pictures'.hold = "transition" /\ reactor'.reported = TRUE
  BY <1>1, <1>6, <1>7, FliesOn
<1> QED BY <1>4, <1>8, UnseenStutters DEF Kept, Aloft, Unseen

LEMMA ExtendedNow ==
    ASSUME IInv, NEW extends
    PROVE  LET now == [Now EXCEPT !.extends = extends]
           IN  /\ Fit(now) /\ Along(now, Now) /\ now.co = coordinator /\ now.en = engine
<1> PICK now : now = Now
  OBVIOUS
<1>1. Fit(now) /\ now.co = coordinator /\ now.en = engine
  BY NowFit DEF IInv
<1> DEFINE t == [now EXCEPT !.extends = extends]
<1>2. Fit(t) /\ Along(t, now) /\ t.co = now.co /\ t.en = now.en
  BY <1>1, ExtendsAlong
<1>3. [Now EXCEPT !.extends = extends] = t
  OBVIOUS
<1> HIDE DEF t
<1> QED BY <1>1, <1>2, <1>3

LEMMA TickDueStep ==
    ASSUME IInv, TickDue PROVE Kept
<1> PICK extends \in BOOLEAN :
         LET now == [Now EXCEPT !.extends = extends]
             s == CASE Ticks("preparing")  -> Show(now)
                    [] Ticks("coalescing") -> HoldOrMove(now)
                    [] Ticks("holding")    -> StartMoving(now)
                    [] Ticks("mergeHeld")  -> Retarget(now)
         IN
         /\ \E phase \in {"preparing", "coalescing", "holding", "mergeHeld"} : Ticks(phase)
         /\ Becomes(s) /\ Sends(s)
  BY DEF TickDue
<1> PICK now : now = [Now EXCEPT !.extends = extends]
  OBVIOUS
<1>1. \E s \in {Show(now), HoldOrMove(now), StartMoving(now), Retarget(now)} : Becomes(s) /\ Sends(s)
  <2> DEFINE phase == coordinator.flight.phase
  <2>1. phase \in {"preparing", "coalescing", "holding", "mergeHeld"} /\ coordinator.state = "flying"
    BY DEF Ticks
  <2> QED BY <2>1 DEF Ticks
<1>2. coordinator.state = "flying" /\ UNCHANGED quiets
  BY DEF TickDue, Ticks
<1>3. Fit(now) /\ Along(now, Now) /\ Flying(now)
  BY <1>2, ExtendedNow DEF Flying
<1> PICK s \in {Show(now), HoldOrMove(now), StartMoving(now), Retarget(now)} : Becomes(s) /\ Sends(s)
  BY <1>1
<1>4. CASE s = Show(now)
  BY <1>2, <1>3, <1>4, ShowStep
<1>5. CASE s \in {HoldOrMove(now), StartMoving(now), Retarget(now)}
  <2>1. Fit(s) /\ Along(s, now)
    BY <1>3, <1>5, HoldOrMoveAlong, StartMovingAlong, RetargetAlong
  <2> PICK at : at = Now
    OBVIOUS
  <2>2. Fit(at) /\ Along(now, at)
    BY <1>3 DEF IInv
  <2>3. Along(s, at)
    BY <1>3, <2>1, <2>2, AlongAgain
  <2>4. Along(s, Now)
    BY <2>3
  <2> QED BY <1>2, <2>1, <2>4, AlongKeeps
<1> QED BY <1>4, <1>5

(* What only the clock, or the pictures on their way, move.                *)
LEMMA Unmoved ==
    ASSUME IInv, UNCHANGED <<engine, renderer, quiets, reactor>>,
           DOMAIN coordinator' = DOMAIN coordinator, coordinator'.state = coordinator.state,
           coordinator'.generation = coordinator.generation, coordinator'.settles = coordinator.settles,
           coordinator.state = "flying" => DOMAIN coordinator'.flight = DOMAIN coordinator.flight
                                           /\ coordinator'.flight.generation = coordinator.flight.generation,
           DOMAIN pictures' = DOMAIN pictures, pictures'.hold = pictures.hold
    PROVE  Kept
<1>1. HandedOver' = HandedOver /\ Answered' = Answered /\ RendererOK'
  BY DEF HandedOver, Answered, IInv, RendererOK
<1>2. Fit(Now)'
  <2> PICK old : old = Now
    OBVIOUS
  <2> PICK now : now = Now'
    OBVIOUS
  <2>1. /\ DOMAIN now = DOMAIN old /\ now.en = old.en /\ now.re = old.re
        /\ now.before = old.before /\ now.batch = old.batch
        /\ DOMAIN now.co = DOMAIN old.co /\ DOMAIN now.pics = DOMAIN old.pics
        /\ now.co.state = old.co.state /\ now.co.generation = old.co.generation
        /\ Flying(old) => DOMAIN now.co.flight = DOMAIN old.co.flight
                          /\ now.co.flight.generation = old.co.flight.generation
    BY <1>1 DEF Now, Flying
  <2>2. Fit(old)
    BY DEF IInv
  <2>3. Fit(now)
    BY <2>1, <2>2 DEF Fit, Shape, Top, Flying
  <2>4. Fit(Now)' <=> Fit(now)
    BY DEF Fit, Shape, Top, Flying
  <2> QED BY <2>3, <2>4
<1>3. (Down => Down') /\ (Covered => Covered') /\ \A n : DownAfter(n) => DownAfter(n)'
  <2>1. \A n : NoShowFrom(n)' <=> NoShowFrom(n)
    BY DEF NoShowFrom
  <2>2. Down' <=> Down
    BY <2>1 DEF Down
  <2> QED BY <1>1, <2>1, <2>2 DEF Covered, DownAfter
<1>4. Stages'
  <2>1. Resting => Resting'
    BY <1>3 DEF Resting
  <2>2. Aloft => Aloft'
    BY DEF Aloft
  <2>3. Measured => Measured'
    BY DEF Measured
  <2>4. Lowered => Lowered'
    BY <1>1, <1>3 DEF Lowered
  <2>5. Quiet => Quiet'
    BY <1>3 DEF Quiet
  <2> QED BY <2>1, <2>2, <2>3, <2>4, <2>5 DEF IInv, Stages
<1>5. Unseen
  BY DEF Unseen
<1> QED BY <1>1, <1>2, <1>4, <1>5, UnseenStutters DEF IInv, Kept

LEMMA ClockRunsStep ==
    ASSUME IInv, ClockRuns PROVE Kept
<1> PICK f : f = coordinator.flight
  OBVIOUS
<1>1. coordinator.state = "flying" /\ DOMAIN coordinator = {"state", "generation", "settles", "flight"}
      /\ DOMAIN f = FlightFields
  BY NowFit DEF ClockRuns, IInv, Fit, Shape, Flying
<1> PICK clock : clock = IF f.clock = "running" THEN "over" ELSE "overdue"
  OBVIOUS
<1>2. coordinator' = [coordinator EXCEPT !.flight = [f EXCEPT !.clock = clock]]
  BY DEF ClockRuns
<1>3. DOMAIN coordinator' = DOMAIN coordinator /\ coordinator'.state = coordinator.state
      /\ coordinator'.generation = coordinator.generation /\ coordinator'.settles = coordinator.settles
      /\ coordinator'.flight = [f EXCEPT !.clock = clock]
  BY <1>1, <1>2
<1>4. DOMAIN coordinator'.flight = DOMAIN coordinator.flight
      /\ coordinator'.flight.generation = coordinator.flight.generation
  BY <1>1, <1>3 DEF FlightFields
<1> QED BY <1>3, <1>4, Unmoved DEF ClockRuns

LEMMA FrameZeroTakenStep ==
    ASSUME IInv, FrameZeroTaken PROVE Kept
<1>1. DOMAIN pictures = {"hold", "watch", "zeros"}
  BY NowFit DEF IInv, Fit, Shape
<1>2. DOMAIN pictures' = DOMAIN pictures /\ pictures'.hold = pictures.hold
  BY <1>1 DEF FrameZeroTaken
<1> QED BY <1>2, Unmoved DEF FrameZeroTaken

LEMMA PictureStep ==
    ASSUME IInv, NEW w, PictureTaken(w) \/ PictureLost(w) PROVE Kept
<1>1. DOMAIN pictures = {"hold", "watch", "zeros"}
  BY NowFit DEF IInv, Fit, Shape
<1>2. pictures' = [pictures EXCEPT !.watch[w].done = TRUE]
      /\ UNCHANGED <<coordinator, engine, renderer, quiets, reactor>>
  BY DEF PictureTaken, PictureLost
<1>3. DOMAIN pictures' = DOMAIN pictures /\ pictures'.hold = pictures.hold
  BY <1>1, <1>2
<1> QED BY <1>2, <1>3, Unmoved

(* What is delivered to the engine is one of three things.                 *)
Deliveries == {"frameZero", "picture", "lost"}

LandedOK == Sequence(landed) /\ \A i \in DOMAIN landed : landed[i].kind \in Deliveries

LEMMA LandedMore ==
    ASSUME LandedOK, NEW delivery, delivery.kind \in Deliveries, landed' = Append(landed, delivery)
    PROVE  LandedOK'
<1> PICK old : old = landed
  OBVIOUS
<1> PICK more : more = landed'
  OBVIOUS
<1> PICK X : X = { old[i] : i \in DOMAIN old } \cup {delivery}
  OBVIOUS
<1>1. old \in Seq(X) /\ more = Append(old, delivery) /\ delivery \in X
  BY DEF LandedOK, Sequence
<1>2. more \in Seq(X) /\ \A i \in DOMAIN more : (i \in DOMAIN old /\ more[i] = old[i]) \/ more[i] = delivery
  BY <1>1
<1>3. Sequence(more)
  BY <1>2, Reseated
<1>4. \A i \in DOMAIN more : more[i].kind \in Deliveries
  BY <1>2 DEF LandedOK
<1> QED BY <1>3, <1>4 DEF LandedOK, Sequence

LEMMA LandedStep == LandedOK /\ [Next]_vars => LandedOK'
<1> SUFFICES ASSUME LandedOK, [Next]_vars PROVE LandedOK'
  OBVIOUS
<1>1. CASE UNCHANGED landed
  BY <1>1 DEF LandedOK, Sequence
<1>2. CASE FrameZeroTaken
  <2> PICK delivery : delivery = [kind |-> "frameZero", generation |-> Head(pictures.zeros)]
    OBVIOUS
  <2>1. delivery.kind \in Deliveries /\ landed' = Append(landed, delivery)
    BY <1>2 DEF FrameZeroTaken, Deliveries
  <2> QED BY <2>1, LandedMore
<1>3. ASSUME NEW w \in Window, PictureTaken(w) PROVE LandedOK'
  <2> PICK delivery :
        delivery = [kind |-> "picture", window |-> w,
         picture |-> [generation |-> pictures.watch[w].generation, place |-> pictures.watch[w].place,
                      taken |-> reactor.requests]]
    OBVIOUS
  <2>1. delivery.kind \in Deliveries /\ landed' = Append(landed, delivery)
    BY <1>3 DEF PictureTaken, Deliveries
  <2> QED BY <2>1, LandedMore
<1>4. ASSUME NEW w \in Window, PictureLost(w) PROVE LandedOK'
  <2> PICK delivery : delivery = [kind |-> "lost", window |-> w, generation |-> pictures.watch[w].generation]
    OBVIOUS
  <2>1. delivery.kind \in Deliveries /\ landed' = Append(landed, delivery)
    BY <1>4 DEF PictureLost, Deliveries
  <2> QED BY <2>1, LandedMore
<1>5. CASE PicturesLanded
  <2> PICK old : old = landed
    OBVIOUS
  <2> PICK rest : rest = landed'
    OBVIOUS
  <2> PICK X : X = { old[i] : i \in DOMAIN old }
    OBVIOUS
  <2>1. old \in Seq(X) /\ old # <<>> /\ rest = Tail(old)
    BY <1>5 DEF LandedOK, Sequence, PicturesLanded
  <2>2. rest \in Seq(X) /\ \A i \in DOMAIN rest : i + 1 \in DOMAIN old /\ rest[i] = old[i + 1]
    BY <2>1
  <2>3. Sequence(rest)
    BY <2>2, Reseated
  <2>4. \A i \in DOMAIN rest : rest[i].kind \in Deliveries
    BY <2>2 DEF LandedOK
  <2> QED BY <2>3, <2>4 DEF LandedOK, Sequence
<1> QED
  BY <1>1, <1>2, <1>3, <1>4, <1>5
  DEF Next, vars, Engine, RequestBegins, RequestMerges, RequestPushes, TickDue, ClockRuns, TickLifts, LiftHeard,
      QuietDue, RenderedHeard, QuietRanOut, RendererDraws

LEMMA CountedAlong ==
    ASSUME NEW s, Fit(s), Flying(s)
    PROVE  LET t == [s EXCEPT !.co.flight.zeroOwed = @ - 1]
           IN  Fit(t) /\ Along(t, s) /\ Flying(t)
<1> DEFINE f == [s.co.flight EXCEPT !.zeroOwed = @ - 1]
           t == [s EXCEPT !.co.flight = f]
<1>1. [s EXCEPT !.co.flight.zeroOwed = @ - 1] = t
  BY DEF Fit, Shape
<1>2. DOMAIN f = FlightFields /\ f.generation = s.co.generation
  BY DEF Fit, FlightFields
<1> HIDE DEF f
<1>3. /\ DOMAIN t = DOMAIN s /\ t.en = s.en /\ t.pics = s.pics /\ t.re = s.re
      /\ t.before = s.before /\ t.batch = s.batch
      /\ DOMAIN t.co = DOMAIN s.co /\ t.co.state = s.co.state /\ t.co.generation = s.co.generation
      /\ t.co.settles = s.co.settles /\ t.co.flight = f
  BY DEF Fit, Shape
<1> HIDE DEF t
<1>4. Fit(t) /\ Along(t, s) /\ Flying(t)
  BY <1>2, <1>3 DEF Fit, Shape, Top, Flying, Along
<1> QED BY <1>1, <1>4

LEMMA PicturesLandedStep ==
    ASSUME IInv, LandedOK, PicturesLanded PROVE Kept
<1> PICK heard : heard = Head(landed)
  OBVIOUS
<1>1. heard.kind \in Deliveries
  <2> PICK old : old = landed
    OBVIOUS
  <2> PICK X : X = { old[i] : i \in DOMAIN old }
    OBVIOUS
  <2>1. old \in Seq(X) /\ old # <<>> /\ heard = old[1] /\ 1 \in DOMAIN old
    BY DEF LandedOK, Sequence, PicturesLanded
  <2> QED BY <2>1 DEF LandedOK
<1>2. PICK extends \in BOOLEAN :
         LET now == [Now EXCEPT !.extends = extends]
             s == CASE heard.kind = "frameZero" -> FrameZeroHeard(now, heard.generation)
                    [] heard.kind = "picture"   -> Offered(now, heard.window, heard.picture)
                    [] heard.kind = "lost"      -> LostHeard(now, heard)
         IN  Becomes(s) /\ Sends(s)
  BY DEF PicturesLanded
<1> PICK now : now = [Now EXCEPT !.extends = extends]
  OBVIOUS
<1> PICK counted : counted = [now EXCEPT !.co.flight.zeroOwed = @ - 1]
  OBVIOUS
<1> PICK old : old = Now
  OBVIOUS
<1>3. Fit(now) /\ Along(now, Now) /\ now.co = coordinator /\ Fit(old) /\ old = Now
  BY ExtendedNow DEF IInv
<1>4. UNCHANGED quiets
  BY DEF PicturesLanded
<1>5. ASSUME NEW s, Fit(s), Along(s, now), Becomes(s), Sends(s), Flying(now) \/ s.co = now.co PROVE Kept
  <2>1. Along(s, old)
    BY <1>3, <1>5, AlongAgain
  <2>2. coordinator.state # "flying" => s.co.generation = coordinator.generation
    BY <1>3, <1>5 DEF Flying
  <2> QED BY <1>3, <1>4, <1>5, <2>1, <2>2, AlongKeeps
<1>6. Along(now, now)
  BY <1>3 DEF Along, Fit
<1>7. CASE heard.kind = "frameZero"
  <2>1. \E s \in {now, counted, Show(counted)} : Becomes(s) /\ Sends(s) /\ (s # now => Flying(now))
    BY <1>2, <1>7 DEF FrameZeroHeard
  <2> PICK s \in {now, counted, Show(counted)} : Becomes(s) /\ Sends(s) /\ (s # now => Flying(now))
    BY <2>1
  <2>2. CASE s = now
    BY <2>2, <1>3, <1>5, <1>6
  <2>3. CASE s # now
    <3>1. Fit(counted) /\ Along(counted, now) /\ Flying(counted) /\ Flying(now)
      BY <2>3, <1>3, CountedAlong
    <3>2. CASE s = counted
      BY <3>1, <3>2, <1>5
    <3>3. CASE s = Show(counted)
      <4>1. Along(counted, Now)
        BY <3>1, <1>3, AlongAgain
      <4> QED BY <3>1, <3>3, <4>1, <1>4, ShowStep
    <3> QED BY <2>3, <3>2, <3>3
  <2> QED BY <2>2, <2>3
<1>8. CASE heard.kind = "picture"
  <2> PICK s : s = Offered(now, heard.window, heard.picture)
    OBVIOUS
  <2>1. Becomes(s) /\ Sends(s)
    BY <1>2, <1>8
  <2>2. Fit(s) /\ Along(s, now)
    BY <1>3, OfferedAlong
  <2>3. ~Flying(now) => s.co = now.co
    BY <1>3, DeliveredAlong DEF Offered
  <2> QED BY <2>1, <2>2, <2>3, <1>5
<1>9. CASE heard.kind = "lost"
  <2>1. \E s \in {now, LetGo(now, heard.window)} : Becomes(s) /\ Sends(s) /\ (s # now => Flying(now))
    BY <1>2, <1>9 DEF LostHeard
  <2> PICK s \in {now, LetGo(now, heard.window)} : Becomes(s) /\ Sends(s) /\ (s # now => Flying(now))
    BY <2>1
  <2>2. CASE s = now
    BY <2>2, <1>3, <1>5, <1>6
  <2>3. CASE s # now
    <3>1. Fit(s) /\ Along(s, now) /\ Flying(now)
      BY <2>3, <1>3, LetGoAlong
    <3> QED BY <3>1, <1>5
  <2> QED BY <2>2, <2>3
<1> QED BY <1>1, <1>7, <1>8, <1>9 DEF Deliveries

LEMMA QuietDueStep ==
    ASSUME IInv, QuietDue PROVE Kept
<1>1. engine.quiet # 0 /\ quiets' = quiets \cup {engine.quiet}
      /\ UNCHANGED <<coordinator, engine, renderer, pictures, landed, reactor>>
  BY DEF QuietDue
<1>2. coordinator.state = "settling" /\ Quiet /\ engine.quiet = coordinator.generation
      /\ coordinator.settles = coordinator.generation /\ reactor.reported = TRUE
  BY <1>1 DEF IInv, Stages, Resting, Aloft, Measured, Lowered, Quiet
<1>3. RendererOK' /\ HandedOver' = HandedOver
  BY <1>1 DEF IInv, RendererOK, HandedOver, Answered
<1>4. Fit(Now)'
  <2>1. Now' = Now
    BY <1>1, <1>3 DEF Now
  <2> PICK now : now = Now'
    OBVIOUS
  <2>2. Fit(now)
    BY <2>1 DEF IInv
  <2>3. Fit(Now)' <=> Fit(now)
    BY DEF Fit, Shape, Top, Flying
  <2> QED BY <2>2, <2>3
<1>5. quiets' \subseteq 1..coordinator'.generation
  <2>1. coordinator.generation \in Nat
    BY NowFit DEF IInv, Fit
  <2> PICK g : g = coordinator.generation
    OBVIOUS
  <2>2. g \in 1..g /\ quiets \subseteq 1..g /\ quiets' = quiets \cup {g} /\ coordinator' = coordinator
    BY <1>1, <1>2, <2>1 DEF IInv
  <2> QED BY <2>2
<1>6. Quiet'
  BY <1>1, <1>2 DEF Quiet, Down, NoShowFrom
<1>7. Stages'
  BY <1>1, <1>2, <1>6 DEF Stages
<1>8. Unseen
  BY <1>1 DEF Unseen
<1> QED BY <1>3, <1>4, <1>5, <1>7, <1>8, UnseenStutters DEF IInv, Kept

(* The quiet that ran out is the settled flight's, or no longer matters.   *)
LEMMA QuietRanOutStep ==
    ASSUME IInv, NEW g, QuietRanOut(g) PROVE Kept
<1> PICK now : now = Now
  OBVIOUS
<1> PICK disarmed : disarmed = [now EXCEPT !.en.quiet = IF @ = g THEN 0 ELSE @]
  OBVIOUS
<1>a. PICK s : s = IF coordinator.state = "settling" /\ coordinator.settles = g THEN Release(disarmed) ELSE disarmed
  OBVIOUS
<1>1. g \in quiets /\ quiets' = quiets \ {g} /\ Becomes(s) /\ UNCHANGED renderer
  BY <1>a DEF QuietRanOut
<1>2. Fit(now) /\ now.co = coordinator /\ now.en = engine /\ now.pics = pictures /\ now.re = reactor
      /\ now.before = HandedOver /\ now.batch = {}
  BY NowFit DEF IInv
<1>3. /\ DOMAIN disarmed = DOMAIN now /\ disarmed.co = now.co /\ disarmed.pics = now.pics /\ disarmed.re = now.re
      /\ disarmed.before = now.before /\ disarmed.batch = now.batch
      /\ DOMAIN disarmed.en = DOMAIN now.en /\ disarmed.en.owed = now.en.owed /\ disarmed.en.shown = now.en.shown
      /\ disarmed.en.lift = now.en.lift /\ disarmed.en.passes = now.en.passes
      /\ disarmed.en.quiet = IF now.en.quiet = g THEN 0 ELSE now.en.quiet
  BY <1>2 DEF Fit, Shape
<1>4. Fit(disarmed)
  BY <1>2, <1>3 DEF Fit, Shape, Top, Flying
<1>5. coordinator.generation \in Nat /\ 0 \notin quiets /\ g # 0 /\ HandedOver \in Nat
  BY <1>1, <1>2, AnswersUpTo DEF IInv, Fit
<1>6. RendererOK' /\ HandedOver' = HandedOver /\ (Down => Down') /\ (Covered => Covered')
      /\ \A n : DownAfter(n) => DownAfter(n)'
  <2>1. HandedOver' = HandedOver /\ Answered' = Answered /\ RendererOK'
    BY <1>1 DEF HandedOver, Answered, IInv, RendererOK
  <2>2. \A n : NoShowFrom(n)' <=> NoShowFrom(n)
    BY <1>1 DEF NoShowFrom
  <2>3. Down' <=> Down
    BY <1>1, <2>2 DEF Down
  <2> QED BY <1>1, <2>1, <2>2, <2>3 DEF Covered, DownAfter
<1>7. CASE coordinator.state = "settling" /\ coordinator.settles = g
  <2>1. Quiet
    BY <1>1, <1>7 DEF IInv, Stages, Measured, Lowered
  <2>2. s = Release(disarmed)
    BY <1>a, <1>7
  <2>3. /\ Fit(s) /\ s.co.state = "idle" /\ s.co.generation = disarmed.co.generation
        /\ s.pics.hold = "released" /\ s.re.reported = FALSE
        /\ s.en = disarmed.en
    <3> DEFINE t == Release(disarmed)
    <3>1. /\ Fit(t) /\ t.co.state = "idle" /\ t.co.generation = disarmed.co.generation
          /\ t.pics.hold = "released" /\ t.re.reported = FALSE
          /\ t.en = disarmed.en
      BY <1>4, ReleaseLets
    <3>2. s = t
      BY <2>2
    <3> HIDE DEF t
    <3> QED BY <3>1, <3>2
  <2>4. s.before = disarmed.before /\ s.batch = disarmed.batch
    BY <1>4, <2>2 DEF Release, Fit, Shape
  <2>5. HandedOver' = Top(s)
    BY <1>2, <1>3, <1>5, <1>6, <2>4 DEF Top
  <2>6. s.en.lift = <<>> /\ s.en.quiet = 0 /\ LiftOwed(s.en.owed) = {}
    BY <1>2, <1>3, <1>7, <2>1, <2>3 DEF Quiet
  <2>7. Covered'
    <3>1. Covered
      BY <2>1, <1>5, AnswersUpTo DEF Quiet, Down, NoShowFrom, Covered, IInv, RendererOK
    <3> QED BY <3>1, <1>6
  <2>8. s.co.generation \in Nat /\ s.co.generation >= coordinator.generation
    BY <1>2, <1>3, <1>5, <2>3
  <2>9. IInv' /\ pictures'.hold = "released" /\ reactor'.reported = FALSE
    BY <1>1, <1>6, <2>3, <2>5, <2>6, <2>7, <2>8, ComesToRest
  <2>10. Contract!Releases
    BY <1>1, <2>9 DEF Contract!Releases
  <2> QED BY <2>9, <2>10 DEF Kept, Contract!Next
<1>8. CASE ~(coordinator.state = "settling" /\ coordinator.settles = g)
  <2>1. s = disarmed
    BY <1>a, <1>8
  <2>2. HandedOver' = Top(s)
    <3>1. s.before = HandedOver /\ s.batch = {}
      BY <1>2, <1>3, <2>1
    <3>2. Top(s) = HandedOver
      BY <3>1, <1>5 DEF Top
    <3> QED BY <3>2, <1>6
  <2>3. /\ coordinator' = coordinator /\ pictures'.hold = pictures.hold /\ reactor' = reactor
        /\ engine'.lift = engine.lift /\ engine'.quiet = (IF engine.quiet = g THEN 0 ELSE engine.quiet)
        /\ LiftOwed(engine'.owed) = LiftOwed(engine.owed) /\ Fit(Now)'
    <3>1. /\ coordinator' = s.co /\ pictures'.hold = s.pics.hold /\ reactor' = s.re
          /\ engine'.lift = s.en.lift /\ engine'.quiet = s.en.quiet
          /\ LiftOwed(engine'.owed) = LiftOwed(s.en.owed) /\ Fit(Now)'
      BY <1>1, <1>4, <2>1, <2>2, Left
    <3> QED BY <3>1, <2>1, <1>2, <1>3
  <2>4. quiets' \subseteq quiets
    BY <1>1
  <2>5. Resting => Resting'
    BY <1>6, <2>3 DEF Resting
  <2>6. Aloft => Aloft'
    BY <2>3, <2>4 DEF Aloft
  <2>7. Measured => Measured'
    BY <2>3, <2>4 DEF Measured
  <2>8. Lowered => Lowered'
    BY <1>6, <2>3, <2>4 DEF Lowered
  <2>9. Quiet => Quiet'
    BY <1>6, <2>3 DEF Quiet
  <2>10. Stages'
    BY <2>3, <2>5, <2>6, <2>7, <2>8, <2>9 DEF IInv, Stages
  <2>11. IInv'
    BY <1>6, <2>3, <2>4, <2>10 DEF IInv
  <2>12. Unseen
    BY <1>1, <2>3 DEF Unseen
  <2> QED BY <2>11, <2>12, UnseenStutters DEF Kept
<1> QED BY <1>7, <1>8

(* The overlay is on its way down, and the settle and the quiet wait.      *)
LEMMA ComesDown ==
    ASSUME IInv, NEW s, Fit(s), Becomes(s), Sends(s), UNCHANGED quiets,
           s.before = HandedOver, s.batch = {"lift"},
           s.co.state = "settling", s.co.generation = coordinator.generation, s.co.settles = s.co.generation,
           s.co.settles \notin quiets, s.pics.hold = "transition", s.re.reported = TRUE,
           s.en.lift = <<>>, s.en.quiet = 0, LiftOwed(s.en.owed) = Owes(HandedOver + 1, s.co.settles)
    PROVE  IInv' /\ pictures'.hold = "transition" /\ reactor'.reported = TRUE /\ renderer'.up = renderer.up
<1>1. s.batch \in SUBSET Commands /\ ~({"show", "lift"} \subseteq s.batch)
  BY DEF Commands
<1>2. /\ Sent(0, s.batch) /\ RendererOK' /\ Fit(Now)'
      /\ HandedOver' = Top(s) /\ renderer'.up = renderer.up
  BY <1>1, SendsBatch DEF IInv
<1>3. DownAfter(HandedOver)'
  BY <1>1, <1>2, SentHides DEF IInv
<1>4. HandedOver \in Nat /\ HandedOver' = HandedOver + 1
  BY <1>2, AnswersUpTo DEF IInv, Top
<1>5. /\ coordinator' = s.co /\ pictures'.hold = s.pics.hold /\ reactor' = s.re
      /\ engine'.lift = s.en.lift /\ engine'.quiet = s.en.quiet
      /\ LiftOwed(engine'.owed) = LiftOwed(s.en.owed)
  BY Left
<1>6. Lowered'
  <2> PICK n : n = HandedOver'
    OBVIOUS
  <2>1. n \in 1..HandedOver' /\ n = HandedOver + 1
    BY <1>4
  <2>2. DownAfter(n)'
    BY <1>3 DEF DownAfter, NoShowFrom
  <2>3. LiftOwed(engine'.owed) = Owes(n, coordinator'.settles)
    BY <1>5, <2>1
  <2>4. engine'.lift = <<>> /\ engine'.quiet = 0 /\ pictures'.hold = "transition" /\ coordinator'.settles \notin quiets'
    BY <1>5
  <2> QED BY <2>1, <2>2, <2>3, <2>4 DEF Lowered
<1>7. Stages'
  BY <1>5, <1>6 DEF Stages
<1>8. quiets' \subseteq 1..coordinator'.generation
  BY <1>5 DEF IInv
<1> QED BY <1>2, <1>5, <1>7, <1>8 DEF IInv

(* The overlay's measure is taken: it comes down.                          *)
LEMMA LiftHeardStep ==
    ASSUME IInv, LiftHeard PROVE Kept
<1> PICK now : now = Now
  OBVIOUS
<1>a. PICK s : s = HideHeld(now)
  OBVIOUS
<1> PICK g : g = coordinator.settles
  OBVIOUS
<1>1. engine.lift # <<>> /\ Becomes(s) /\ Sends(s) /\ UNCHANGED quiets
  BY <1>a DEF LiftHeard
<1>2. coordinator.state = "settling" /\ Measured /\ reactor.reported = TRUE /\ coordinator.settles = coordinator.generation
  BY <1>1 DEF IInv, Stages, Resting, Aloft, Lowered, Quiet
<1>3. Fit(now) /\ now.co = coordinator /\ now.en = engine /\ now.pics = pictures /\ now.re = reactor
      /\ now.before = HandedOver /\ now.batch = {}
  BY NowFit DEF IInv
<1>4. /\ Fit(s) /\ s.co = now.co /\ s.pics = now.pics /\ s.re = now.re
      /\ s.en.lift = <<>> /\ s.en.quiet = now.en.quiet
      /\ s.batch = now.batch \cup {"lift"}
      /\ LiftOwed(s.en.owed) = LiftOwed(now.en.owed) \cup Owes(Batch(now), g)
  <2>1. now.en.lift # <<>> /\ now.en.lift \in {<<>>, <<QuietOwed(g), SettleOwed>>}
    BY <1>1, <1>2, <1>3 DEF Measured
  <2> QED BY <1>a, <1>3, <2>1, HeldHides
<1>5. s.before = HandedOver
  <2>1. HideHeld(now).before = now.before
    BY <1>3 DEF HideHeld, Hide, Render, Fit, Shape
  <2> QED BY <1>a, <1>3, <2>1
<1>6. s.batch = {"lift"} /\ LiftOwed(s.en.owed) = Owes(HandedOver + 1, s.co.settles)
  BY <1>2, <1>3, <1>4 DEF Measured, Batch
<1>7. /\ s.co = coordinator /\ s.co.settles \notin quiets /\ s.pics.hold = "transition"
      /\ s.re.reported = TRUE /\ s.en.lift = <<>> /\ s.en.quiet = 0
  BY <1>2, <1>3, <1>4 DEF Measured
<1>8. IInv' /\ pictures'.hold = "transition" /\ reactor'.reported = TRUE /\ renderer'.up = renderer.up
  BY <1>1, <1>2, <1>4, <1>5, <1>6, <1>7, ComesDown
<1>9. Unseen
  BY <1>2, <1>8 DEF Unseen, Measured
<1> QED BY <1>8, <1>9, UnseenStutters DEF Kept

(* The flight is over: the overlay comes down, or is measured first.       *)
LEMMA TickLiftsStep ==
    ASSUME IInv, TickLifts PROVE Kept
<1> PICK now : now = Now
  OBVIOUS
<1> PICK g : g = coordinator.generation
  OBVIOUS
<1>a. PICK measured \in reactor.scenario.measured : Becomes(Lift(now, measured)) /\ Sends(Lift(now, measured))
  BY DEF TickLifts
<1> DEFINE t == Lift(now, measured)
<1>1. coordinator.state = "flying" /\ Aloft /\ UNCHANGED quiets
  BY DEF TickLifts, Ticks, IInv, Stages
<1>2. Fit(now) /\ now.co = coordinator /\ now.en = engine /\ now.pics = pictures /\ now.re = reactor
      /\ now.before = HandedOver /\ now.batch = {}
  BY NowFit DEF IInv
<1>3. Flying(now) /\ now.co.generation = g
  BY <1>1, <1>2 DEF Flying
<1>4. Fit(t) /\ t.co.state = "settling" /\ t.co.generation = g /\ t.co.settles = g
  BY <1>2, <1>3, LiftLets
<1>5. t.pics.hold = now.pics.hold /\ t.re.reported = now.re.reported /\ t.en.quiet = now.en.quiet
  BY <1>2, <1>3, LiftLets
<1>6. t.before = now.before
  BY <1>2, <1>3, LiftLets
<1>7. measured => /\ t.en.lift = <<QuietOwed(g), SettleOwed>>
                  /\ LiftOwed(t.en.owed) = LiftOwed(now.en.owed)
                  /\ t.batch = now.batch
  BY <1>2, <1>3, LiftOwes
<1>8. ~measured => t.en.lift = now.en.lift /\ t.batch = now.batch \cup {"lift"}
  BY <1>2, <1>3, LiftLets
<1>c. ~measured => LiftOwed(t.en.owed) = LiftOwed(now.en.owed) \cup Owes(Batch(now), g)
  BY <1>2, <1>3, LiftOwes
<1>b. PICK s : s = t
  OBVIOUS
<1>9. Becomes(s) /\ Sends(s)
  BY <1>a, <1>b
<1> HIDE DEF t
<1>10. /\ Fit(s) /\ s.co.state = "settling" /\ s.co.generation = g /\ s.co.settles = g /\ g \notin quiets
       /\ s.pics.hold = "transition" /\ s.re.reported = TRUE /\ s.en.quiet = 0 /\ s.before = HandedOver
  BY <1>b, <1>1, <1>2, <1>4, <1>5, <1>6 DEF Aloft
<1>11. CASE measured
  <2>1. s.en.lift = <<QuietOwed(g), SettleOwed>> /\ LiftOwed(s.en.owed) = {} /\ s.batch = {}
    BY <1>b, <1>1, <1>2, <1>7, <1>11 DEF Aloft
  <2>2. RendererOK' /\ Fit(Now)' /\ renderer'.up = renderer.up
    BY <1>9, <1>10, <2>1, SendsBatch DEF IInv
  <2>3. /\ coordinator' = s.co /\ pictures'.hold = s.pics.hold /\ reactor' = s.re
        /\ engine'.lift = s.en.lift /\ engine'.quiet = s.en.quiet
        /\ LiftOwed(engine'.owed) = LiftOwed(s.en.owed)
    BY <1>9, <1>10, Left
  <2>4. Measured'
    BY <1>1, <1>10, <2>1, <2>3 DEF Measured
  <2>5. Stages'
    BY <1>10, <2>3, <2>4 DEF Stages
  <2>6. quiets' \subseteq 1..coordinator'.generation
    BY <1>1, <1>10, <2>3 DEF IInv
  <2>7. Unseen
    BY <1>1, <1>10, <2>2, <2>3 DEF Unseen, Aloft
  <2> QED BY <2>2, <2>5, <2>6, <2>7, UnseenStutters DEF IInv, Kept
<1>12. CASE ~measured
  <2>1. s.en.lift = <<>> /\ LiftOwed(s.en.owed) = Owes(HandedOver + 1, s.co.settles) /\ s.batch = {"lift"}
    BY <1>b, <1>1, <1>2, <1>8, <1>10, <1>12, <1>c DEF Aloft, Batch
  <2>2. IInv' /\ pictures'.hold = "transition" /\ reactor'.reported = TRUE /\ renderer'.up = renderer.up
    BY <1>1, <1>9, <1>10, <2>1, ComesDown
  <2>3. Unseen
    BY <1>1, <2>2 DEF Unseen, Aloft
  <2> QED BY <2>2, <2>3, UnseenStutters DEF Kept
<1> QED BY <1>11, <1>12

(* The renderer draws its line as one batch.                               *)
LEMMA RendererDrawsStep ==
    ASSUME IInv, RendererDraws PROVE Kept
<1> DEFINE needs == \E i \in DOMAIN renderer.line : "stage" \in renderer.line[i]
           fails == coordinator.state = "flying" /\ coordinator.flight.kind \in reactor.scenario.fails
<1> PICK line : line = renderer.line
  OBVIOUS
<1> PICK turns : turns = { i \in DOMAIN line : line[i] \cap {"show", "lift"} # {} }
  OBVIOUS
<1> PICK last : last = Max(turns)
  OBVIOUS
<1> PICK top : top = HandedOver
  OBVIOUS
<1>1. \E made \in BOOLEAN, drawn \in BOOLEAN :
        /\ (~made => ~renderer.made) /\ (renderer.made => made)
        /\ renderer' = [line |-> <<>>, made |-> made,
             answers |-> Append(renderer.answers, [upTo |-> top, drawn |-> drawn]),
             up |-> IF ~made \/ turns = {} THEN renderer.up ELSE "show" \in line[last]]
        /\ line # <<>> /\ UNCHANGED <<coordinator, engine, pictures, landed, quiets, reactor>>
  <2>1. PICK made \in IF renderer.made \/ ~needs THEN {renderer.made} ELSE {TRUE, ~fails} :
         renderer' = [line |-> <<>>, made |-> made,
           answers |-> Append(renderer.answers, [upTo |-> HandedOver, drawn |-> made \/ ~needs]),
           up |-> IF ~made \/ turns = {} THEN renderer.up ELSE "show" \in line[Max(turns)]]
    BY DEF RendererDraws
  <2>2. fails \in BOOLEAN /\ needs \in BOOLEAN /\ renderer.made \in BOOLEAN
    BY DEF IInv, RendererOK
  <2> HIDE DEF needs, fails
  <2>3. made \in BOOLEAN /\ (~made => ~renderer.made) /\ (renderer.made => made)
    BY <2>2
  <2>4. (made \/ ~needs) \in BOOLEAN
    OBVIOUS
  <2>5. line # <<>> /\ UNCHANGED <<coordinator, engine, pictures, landed, quiets, reactor>>
    BY DEF RendererDraws
  <2> QED BY <2>1, <2>3, <2>4, <2>5
<1> HIDE DEF needs, fails
<1>b. PICK made \in BOOLEAN, drawn \in BOOLEAN :
        /\ (~made => ~renderer.made) /\ (renderer.made => made)
        /\ renderer' = [line |-> <<>>, made |-> made,
             answers |-> Append(renderer.answers, [upTo |-> top, drawn |-> drawn]),
             up |-> IF ~made \/ turns = {} THEN renderer.up ELSE "show" \in line[last]]
        /\ line # <<>> /\ UNCHANGED <<coordinator, engine, pictures, landed, quiets, reactor>>
  BY <1>1
<1> PICK answer : answer = [upTo |-> top, drawn |-> drawn]
  OBVIOUS
<1> PICK more : more = Append(renderer.answers, answer)
  OBVIOUS
<1>2. /\ DOMAIN renderer' = {"line", "answers", "made", "up"}
      /\ renderer'.line = <<>> /\ renderer'.answers = more /\ renderer'.made = made
      /\ renderer'.up = IF ~made \/ turns = {} THEN renderer.up ELSE "show" \in line[last]
      /\ UNCHANGED <<coordinator, engine, pictures, landed, quiets, reactor>>
  BY <1>b
<1>3. /\ line \in Seq(SUBSET Commands) /\ Len(line) \in Nat /\ 1 <= Len(line) /\ DOMAIN line = 1..Len(line)
      /\ Answered \in Nat /\ top = Answered + Len(line) /\ top \in Nat \ {0} /\ Answered < top
      /\ renderer.answers \in Seq(Answer)
      /\ \A i \in DOMAIN renderer.answers : renderer.answers[i].upTo <= Answered
  <2>1. line \in Seq(SUBSET Commands) /\ line # <<>> /\ renderer.answers \in Seq(Answer)
    BY <1>b DEF IInv, RendererOK
  <2>2. Len(line) \in Nat /\ 1 <= Len(line) /\ DOMAIN line = 1..Len(line)
    BY <2>1, Elements
  <2>3. /\ Answered \in Nat /\ top = Answered + Len(line)
        /\ \A i \in DOMAIN renderer.answers : renderer.answers[i].upTo <= Answered
    BY AnswersUpTo DEF IInv
  <2> QED BY <2>1, <2>2, <2>3
<1>4. answer \in Answer /\ more \in Seq(Answer) /\ Len(more) = Len(renderer.answers) + 1 /\ more # <<>>
      /\ more[Len(more)] = answer
      /\ \A i \in DOMAIN more :
           \/ i \in DOMAIN renderer.answers /\ more[i] = renderer.answers[i]
           \/ i = Len(renderer.answers) + 1 /\ more[i] = answer
  <2>1. answer \in Answer
    BY <1>3, <1>b DEF Answer
  <2> PICK old : old = renderer.answers
    OBVIOUS
  <2>2. old \in Seq(Answer) /\ more = Append(old, answer)
    BY <1>3
  <2> HIDE DEF Answer
  <2> QED BY <2>1, <2>2
<1>5. Answered' = top /\ HandedOver' = top
  <2>1. Answered' = more[Len(more)].upTo
    BY <1>2, <1>4 DEF Answered, Last
  <2>2. Answered' = top
    BY <2>1, <1>4
  <2> QED BY <1>2, <1>3, <2>2 DEF HandedOver
<1>6. \A i, j \in DOMAIN more : i < j => more[i].upTo < more[j].upTo
  <2> PICK old : old = renderer.answers
    OBVIOUS
  <2> PICK k : k = Answered
    OBVIOUS
  <2>1. /\ Len(old) \in Nat /\ DOMAIN old = 1..Len(old) /\ old \in Seq(Answer)
        /\ \A i \in DOMAIN old : old[i].upTo \in Nat /\ old[i].upTo < top
    <3>1. old \in Seq(Answer)
      BY <1>3
    <3>2. Len(old) \in Nat /\ DOMAIN old = 1..Len(old) /\ \A i \in DOMAIN old : old[i] \in Answer
      BY <3>1, Elements
    <3>3. \A i \in DOMAIN old : old[i].upTo \in Nat
      BY <3>2 DEF Answer
    <3>4. k \in Nat /\ k < top /\ top \in Nat /\ \A i \in DOMAIN old : old[i].upTo <= k
      BY <1>3
    <3> QED BY <3>1, <3>2, <3>3, <3>4
  <2>2. \A i, j \in DOMAIN old : i < j => old[i].upTo < old[j].upTo
    BY DEF IInv, RendererOK
  <2>3. \A i \in DOMAIN more : (i \in DOMAIN old /\ more[i] = old[i]) \/ (i = Len(old) + 1 /\ more[i].upTo = top)
    BY <1>4
  <2> SUFFICES ASSUME NEW i \in DOMAIN more, NEW j \in DOMAIN more, i < j PROVE more[i].upTo < more[j].upTo
    OBVIOUS
  <2>4. i \in DOMAIN old
    BY <2>1, <2>3
  <2> QED BY <2>1, <2>2, <2>3, <2>4
<1>7. (turns # {} => last \in DOMAIN line /\ 1 <= last /\ \A j \in turns : j <= last)
      /\ \A j \in DOMAIN line : line[j] \cap {"show", "lift"} # {} => j \in turns
  <2> PICK k : k = Len(line)
    OBVIOUS
  <2>1. k \in Nat /\ turns \subseteq 1..k /\ DOMAIN line = 1..k
    BY <1>3
  <2>2. turns # {} => Max(turns) \in turns /\ \A j \in turns : j <= Max(turns)
    BY <2>1, MaxIs
  <2>3. turns # {} => last \in turns /\ \A j \in turns : j <= last
    BY <2>2
  <2>4. \A i \in 1..k : 1 <= i
    BY <2>1
  <2> QED BY <2>1, <2>3, <2>4
<1>d. /\ renderer.up \in BOOLEAN /\ renderer'.up \in BOOLEAN /\ (renderer'.up => renderer'.made)
      /\ turns = {} => renderer'.up = renderer.up
      /\ turns # {} => (renderer'.up => "show" \in line[last])
  <2>1. renderer.up \in BOOLEAN /\ renderer.made \in BOOLEAN /\ (renderer.up => renderer.made)
    BY DEF IInv, RendererOK
  <2>2. CASE made /\ turns # {}
    <3>2. renderer'.made = TRUE
      BY <1>2, <2>2
    <3>3. CASE "show" \in line[last]
      <4>1. renderer'.up = TRUE
        BY <1>2, <2>2, <3>3
      <4> QED BY <2>1, <2>2, <3>2, <3>3, <4>1
    <3>4. CASE "show" \notin line[last]
      <4>1. renderer'.up = FALSE
        <5>1. ("show" \in line[last]) = FALSE
          BY <3>4
        <5> QED BY <1>2, <2>2, <5>1
      <4> QED BY <2>1, <2>2, <3>2, <3>4, <4>1
    <3> QED BY <3>3, <3>4
  <2>3. CASE made /\ turns = {}
    <3>1. renderer'.up = renderer.up
      BY <1>2, <2>3
    <3>2. renderer'.made = TRUE
      BY <1>2, <2>3
    <3> QED BY <2>1, <2>3, <3>1, <3>2
  <2>4. CASE ~made
    <3>1. renderer'.up = renderer.up
      BY <1>2, <2>4
    <3>2. renderer.up = FALSE
      BY <1>b, <2>1, <2>4
    <3> QED BY <2>1, <3>1, <3>2
  <2> QED BY <2>2, <2>3, <2>4
<1>8. RendererOK'
  <2>1. renderer'.made \in BOOLEAN /\ renderer'.line \in Seq(SUBSET Commands) /\ DOMAIN renderer'.line = {}
    BY <1>2
  <2> QED BY <1>2, <1>4, <1>6, <1>d, <2>1 DEF RendererOK
<1>9. Fit(Now)'
  <2>1. Now' = Now
    BY <1>2, <1>3, <1>5 DEF Now
  <2> PICK now : now = Now'
    OBVIOUS
  <2>2. Fit(now)
    BY <2>1 DEF IInv
  <2>3. Fit(Now)' <=> Fit(now)
    BY DEF Fit, Shape, Top, Flying
  <2> QED BY <2>2, <2>3
<1>10. Covered' /\ \A m : NoShowFrom(m)'
  BY <1>2 DEF Covered, NoShowFrom
<1>11. Down => Down'
  <2> SUFFICES ASSUME Down PROVE renderer'.up = FALSE
    BY <1>10 DEF Down
  <2>1. turns # {} => "show" \notin line[last]
    BY <1>7 DEF Down, NoShowFrom
  <2> QED BY <1>d, <2>1 DEF Down
<1>12. ASSUME NEW n \in 1..HandedOver, DownAfter(n) PROVE DownAfter(n)'
  <2>1. n <= Answered' /\ n \in Nat /\ Answered' \in Nat /\ Answered \in Nat
    BY <1>3, <1>5
  <2>2. CASE n <= Answered
    BY <1>11, <1>12, <2>1, <2>2 DEF DownAfter
  <2>3. CASE ~(n <= Answered)
    <3> PICK k : k = n - Answered
      OBVIOUS
    <3> PICK a : a = Answered
      OBVIOUS
    <3>6. a \in Nat /\ n \in Nat /\ n > Answered
      BY <1>3, <2>3
    <3>1. k \in DOMAIN line /\ "lift" \in line[k] /\ NoShowFrom(k)
      BY <1>12, <3>6 DEF DownAfter
    <3>2. k \in turns /\ k <= last /\ last \in DOMAIN line
      BY <1>7, <3>1
    <3>3. "show" \notin line[last]
      BY <3>1, <3>2 DEF NoShowFrom
    <3>4. renderer'.up = FALSE
      BY <1>d, <3>2, <3>3
    <3>5. Down'
      BY <1>10, <3>4 DEF Down
    <3> QED BY <2>1, <3>5 DEF DownAfter
  <2> QED BY <2>2, <2>3
<1>13. Covered => (renderer'.up => renderer.up)
  <2> SUFFICES ASSUME Covered, renderer'.up, ~renderer.up PROVE FALSE
    OBVIOUS
  <2>1. turns # {} /\ "show" \in line[last]
    BY <1>d
  <2>4. \A i \in DOMAIN line : "show" \in line[i] => \E j \in DOMAIN line : j > i /\ "lift" \in line[j]
    BY DEF Covered
  <2>2. PICK j \in DOMAIN line : j > last /\ "lift" \in line[j]
    BY <1>7, <2>1, <2>4
  <2>5. line[j] \cap {"show", "lift"} # {}
    BY <2>2
  <2>6. j \in turns /\ j <= last /\ last \in DOMAIN line
    BY <1>7, <2>1, <2>5
  <2>3. j <= last /\ j \in Nat /\ last \in Nat
    BY <1>3, <2>6
  <2> QED BY <2>2, <2>3
<1>14. Stages'
  <2>1. Resting => Resting'
    BY <1>2, <1>10 DEF Resting
  <2>2. Aloft => Aloft'
    BY <1>2 DEF Aloft
  <2>3. Measured => Measured'
    BY <1>2 DEF Measured
  <2>4. Lowered => Lowered'
    BY <1>2, <1>5, <1>12 DEF Lowered
  <2>5. Quiet => Quiet'
    BY <1>2, <1>11 DEF Quiet
  <2> QED BY <1>2, <2>1, <2>2, <2>3, <2>4, <2>5 DEF IInv, Stages
<1>15. IInv'
  BY <1>2, <1>8, <1>9, <1>14 DEF IInv
<1>16. renderer'.up /\ ~renderer.up => pictures.hold = "transition"
  <2> SUFFICES ASSUME renderer'.up, ~renderer.up PROVE pictures.hold = "transition"
    OBVIOUS
  <2>1. ~Covered /\ ~Down
    BY <1>11, <1>13 DEF Down
  <2> QED BY <2>1 DEF IInv, Stages, Resting, Aloft, Measured, Lowered, Quiet
<1>17. [Contract!Next]_(Contract!vars)
  <2>1. renderer.up \in BOOLEAN /\ renderer'.up \in BOOLEAN /\ pictures' = pictures /\ reactor' = reactor
    BY <1>2, <1>8 DEF IInv, RendererOK
  <2>2. CASE renderer'.up = renderer.up
    BY <2>1, <2>2 DEF Contract!vars
  <2>3. CASE renderer'.up = TRUE /\ renderer.up = FALSE
    BY <1>16, <2>1, <2>3 DEF Contract!Next, Contract!Shows
  <2>4. CASE renderer'.up = FALSE /\ renderer.up = TRUE
    BY <2>1, <2>4 DEF Contract!Next, Contract!Hides
  <2> QED BY <2>1, <2>2, <2>3, <2>4
<1> QED BY <1>15, <1>17 DEF Kept

LEMMA AfterSet ==
    ASSUME NEW j, NEW k, NEW owed
    PROVE  [[after |-> j, own |-> TRUE, owed |-> owed] EXCEPT !.after = k] = [after |-> k, own |-> TRUE, owed |-> owed]
<1> DEFINE y == [after |-> j, own |-> TRUE, owed |-> owed]
           z == [y EXCEPT !.after = k]
           v == [after |-> k, own |-> TRUE, owed |-> owed]
<1>1. z = [f \in {"after", "own", "owed"} |-> z[f]]
  OBVIOUS
<1>2. z.after = k /\ z.owed = owed
  OBVIOUS
<1>3. z.own = v.own
  OBVIOUS
<1>4. v = [f \in {"after", "own", "owed"} |-> v[f]] /\ v.after = k /\ v.owed = owed
  OBVIOUS
<1> HIDE DEF z, v
<1>5. z = v
  BY <1>1, <1>2, <1>3, <1>4
<1> QED BY <1>5 DEF z, v

(* Nothing a lift owes waits: what is drawn carries writes alone.          *)
LEMMA HeardNoLift ==
    ASSUME NEW s, Fit(s), s.batch = {}, NEW n \in 1..s.before, LiftOwed(s.en.owed) = {}, NEW t, t = Committed(s, n)
    PROVE  /\ Fit(t) /\ t.before = s.before - n /\ t.batch = {} /\ t.co = s.co
           /\ t.en.lift = s.en.lift /\ t.re.reported = s.re.reported
           /\ t.pics.hold = s.pics.hold /\ t.en.quiet = s.en.quiet
           /\ LiftOwed(t.en.owed) = {}
<1> DEFINE u == Committed(s, n)
<1> PICK X : X = LiftOwed(s.en.owed)
  OBVIOUS
<1> PICK g : g = 0
  OBVIOUS
<1>1. \A x \in LiftOwed(s.en.owed) : x.owed.what = "quiet" => x.owed.generation = g
  OBVIOUS
<1>2. Fit(u) /\ u.before = s.before - n /\ u.batch = {} /\ u.co = s.co
  BY <1>1, CommittedCarries
<1>3. u.en.lift = s.en.lift /\ u.re.reported = s.re.reported
  BY <1>1, CommittedCarries
<1>4. u.pics.hold = IF \E x \in LiftOwed(s.en.owed) : x.after <= n /\ x.owed.what = "settle"
                    THEN "settling" ELSE s.pics.hold
  BY <1>1, CommittedCarries
<1>5. u.en.quiet = IF \E x \in LiftOwed(s.en.owed) : x.after <= n /\ x.owed.what = "quiet" THEN g ELSE s.en.quiet
  BY <1>1, CommittedCarries
<1>6. LiftOwed(u.en.owed) = { [y EXCEPT !.after = @ - n] : y \in { z \in LiftOwed(s.en.owed) : z.after > n } }
  BY <1>1, CommittedCarries
<1>7. t = u
  OBVIOUS
<1> HIDE DEF u
<1> QED BY <1>2, <1>3, <1>4, <1>5, <1>6, <1>7

LEMMA HeardLift ==
    ASSUME NEW s, Fit(s), s.batch = {}, NEW n \in 1..s.before, NEW m \in Nat, NEW g, LiftOwed(s.en.owed) = Owes(m, g),
           NEW t, t = Committed(s, n)
    PROVE  /\ Fit(t) /\ t.before = s.before - n /\ t.batch = {} /\ t.co = s.co
           /\ t.en.lift = s.en.lift /\ t.re.reported = s.re.reported
           /\ m <= n => t.pics.hold = "settling" /\ t.en.quiet = g /\ LiftOwed(t.en.owed) = {}
           /\ m > n => /\ t.pics.hold = s.pics.hold /\ t.en.quiet = s.en.quiet
                       /\ LiftOwed(t.en.owed) = Owes(m - n, g)
<1> DEFINE u == Committed(s, n)
<1> PICK X : X = LiftOwed(s.en.owed)
  OBVIOUS
<1>1. \A x \in LiftOwed(s.en.owed) : x.owed.what = "quiet" => x.owed.generation = g
  BY DEF Owes, QuietOwed, SettleOwed
<1>2. Fit(u) /\ u.before = s.before - n /\ u.batch = {} /\ u.co = s.co
  BY SMTT(30), <1>1, CommittedCarries
<1>3. u.en.lift = s.en.lift /\ u.re.reported = s.re.reported
  BY <1>1, CommittedCarries
<1>4. u.pics.hold = IF \E x \in LiftOwed(s.en.owed) : x.after <= n /\ x.owed.what = "settle"
                    THEN "settling" ELSE s.pics.hold
  BY <1>1, CommittedCarries
<1>5. u.en.quiet = IF \E x \in LiftOwed(s.en.owed) : x.after <= n /\ x.owed.what = "quiet" THEN g ELSE s.en.quiet
  BY <1>1, CommittedCarries
<1>6. LiftOwed(u.en.owed) = { [y EXCEPT !.after = @ - n] : y \in { z \in LiftOwed(s.en.owed) : z.after > n } }
  BY <1>1, CommittedCarries
<1>7. t = u
  OBVIOUS
<1> HIDE DEF u
<1>8. n \in Nat
  BY DEF Fit
<1>9. ASSUME m <= n PROVE t.pics.hold = "settling" /\ t.en.quiet = g /\ LiftOwed(t.en.owed) = {}
  <2>1. \E x \in LiftOwed(s.en.owed) : x.after <= n /\ x.owed.what = "settle"
    BY <1>9 DEF Owes, QuietOwed, SettleOwed
  <2>2. \E x \in LiftOwed(s.en.owed) : x.after <= n /\ x.owed.what = "quiet"
    BY <1>9 DEF Owes, QuietOwed, SettleOwed
  <2>3. \A z \in LiftOwed(s.en.owed) : ~(z.after > n)
    BY <1>8, <1>9 DEF Owes
  <2> QED BY <1>4, <1>5, <1>6, <1>7, <2>1, <2>2, <2>3
<1>10. ASSUME m > n PROVE t.pics.hold = s.pics.hold /\ t.en.quiet = s.en.quiet /\ LiftOwed(t.en.owed) = Owes(m - n, g)
  <2>1. \A z \in LiftOwed(s.en.owed) : z.after > n /\ ~(z.after <= n)
    BY <1>8, <1>10 DEF Owes
  <2>2. LiftOwed(u.en.owed) = { [y EXCEPT !.after = @ - n] : y \in Owes(m, g) }
    BY <1>6, <2>1
  <2>3. { [y EXCEPT !.after = @ - n] : y \in Owes(m, g) } = Owes(m - n, g)
    <3> DEFINE a(k, owed) == [after |-> k, own |-> TRUE, owed |-> owed]
               Later(y) == [y EXCEPT !.after = @ - n]
    <3>1. \A owed : Later(a(m, owed)) = a(m - n, owed)
      <4> TAKE owed
      <4>1. a(m, owed).after = m
        OBVIOUS
      <4>2. Later(a(m, owed)) = [a(m, owed) EXCEPT !.after = m - n]
        BY <4>1
      <4> QED BY <4>2, AfterSet
    <3>2. \A k : Owes(k, g) = {a(k, QuietOwed(g)), a(k, SettleOwed)}
      BY DEF Owes
    <3> HIDE DEF a, Later
    <3>3. { Later(y) : y \in Owes(m, g) } = Owes(m - n, g)
      BY <3>1, <3>2
    <3> QED BY <3>3 DEF Later
  <2> QED BY <1>4, <1>5, <1>7, <2>1, <2>2, <2>3
<1> QED BY <1>2, <1>3, <1>7, <1>8, <1>9, <1>10

(* A flight given up waits for no show.                                    *)
LEMMA NotShown ==
    ASSUME NEW c, Fit(c), NEW shown, shown = [c EXCEPT !.en.shown = 0]
    PROVE  Fit(shown)
<1>1. /\ DOMAIN shown = DOMAIN c /\ shown.co = c.co /\ shown.pics = c.pics /\ shown.re = c.re
      /\ shown.before = c.before /\ shown.batch = c.batch
      /\ DOMAIN shown.en = DOMAIN c.en /\ shown.en.owed = c.en.owed /\ shown.en.shown = 0
      /\ shown.en.lift = c.en.lift /\ shown.en.quiet = c.en.quiet /\ shown.en.passes = c.en.passes
  BY DEF Fit, Shape
<1>2. Top(shown) = Top(c) /\ Top(c) \in Nat
  BY <1>1 DEF Fit, Top
<1>3. 0 \in 0..Top(c)
  BY <1>2
<1> QED BY <1>1, <1>2, <1>3 DEF Fit, Shape, Flying

(* What is drawn is heard of: what waited for it is carried out, or the    *)
(* flight given up.                                                        *)
LEMMA RenderedHeardStep ==
    ASSUME IInv, RenderedHeard PROVE Kept
<1> PICK now : now = Now
  OBVIOUS
<1> PICK answer : answer = Head(renderer.answers)
  OBVIOUS
<1> PICK n : n = answer.upTo
  OBVIOUS
<1> DEFINE forgotten == [now EXCEPT !.en.owed = OthersOwed(@)]
           heard == Committed(now, n)
           bare == [Committed(forgotten, n) EXCEPT !.en.shown = 0]
           given == Abandon(bare)
<1>1. /\ Fit(now) /\ now.co = coordinator /\ now.en = engine /\ now.pics = pictures /\ now.re = reactor
      /\ now.before = HandedOver /\ now.batch = {}
  BY NowFit DEF IInv
<1>a. PICK s : s = IF answer.drawn \/ coordinator.state # "flying" THEN heard ELSE given
  OBVIOUS
<1>2. /\ renderer.answers # <<>> /\ Becomes(s) /\ UNCHANGED quiets
      /\ renderer' = [renderer EXCEPT
                      !.answers = Heard(@, n),
                      !.line = IF s.batch = {} THEN @ ELSE Append(@, s.batch)]
  BY <1>a DEF RenderedHeard
<1>3. (s = heard) \/ (s = given /\ coordinator.state = "flying")
  BY <1>a
<1> HIDE DEF forgotten, heard, bare, given
<1>4. n \in Nat \ {0} /\ n \in 1..HandedOver /\ HandedOver \in Nat
  <2> PICK said : said = renderer.answers
    OBVIOUS
  <2>1. said \in Seq(Answer) /\ said # <<>> /\ answer = Head(said)
    BY <1>2 DEF IInv, RendererOK
  <2>2. 1 \in DOMAIN said /\ said[1] \in Answer /\ answer = said[1]
    BY <2>1, Elements
  <2>3. n \in Nat \ {0}
    BY <2>2 DEF Answer
  <2>4. n <= Answered /\ Answered \in Nat /\ Answered <= HandedOver /\ HandedOver \in Nat
    BY <2>2, AnswersUpTo DEF IInv
  <2> QED BY <2>3, <2>4
<1>5. Sent(n, s.batch) /\ renderer'.up = renderer.up
  BY <1>2 DEF Sent, IInv, RendererOK
<1>6. ASSUME Fit(s), s.before = HandedOver - n, ~({"show", "lift"} \subseteq s.batch)
      PROVE  RendererOK' /\ HandedOver' = Top(s)
  <2>1. s.batch \in SUBSET Commands
    BY <1>6 DEF Fit
  <2>2. RendererOK' /\ HandedOver' = HandedOver - n + (IF s.batch = {} THEN 0 ELSE 1)
    BY <1>5, <1>6, <2>1, SentCounts DEF IInv
  <2> QED BY <1>6, <2>2 DEF Top
<1>7. CASE s = heard
  <2>1. \/ LiftOwed(now.en.owed) = {}
        \/ coordinator.state = "settling" /\ Lowered
    BY <1>1 DEF IInv, Stages, Resting, Aloft, Measured, Quiet
  <2>2. CASE LiftOwed(now.en.owed) = {}
    <3>1. n \in 1..now.before /\ s = Committed(now, n)
      BY <1>1, <1>4, <1>7 DEF heard
    <3>2. /\ Fit(s) /\ s.before = now.before - n /\ s.batch = {} /\ s.co = now.co
          /\ s.en.lift = now.en.lift /\ s.re.reported = now.re.reported
          /\ s.pics.hold = now.pics.hold /\ s.en.quiet = now.en.quiet
          /\ LiftOwed(s.en.owed) = {}
      BY <1>1, <2>2, <3>1, HeardNoLift
    <3>3. RendererOK' /\ HandedOver' = Top(s)
      BY <1>1, <1>6, <3>2
    <3>4. /\ coordinator' = coordinator /\ pictures'.hold = pictures.hold /\ reactor' = s.re
          /\ reactor'.reported = reactor.reported /\ engine'.lift = engine.lift /\ engine'.quiet = engine.quiet
          /\ LiftOwed(engine'.owed) = {} /\ Fit(Now)'
      <4>1. /\ coordinator' = s.co /\ pictures'.hold = s.pics.hold /\ reactor' = s.re
            /\ engine'.lift = s.en.lift /\ engine'.quiet = s.en.quiet
            /\ LiftOwed(engine'.owed) = LiftOwed(s.en.owed) /\ Fit(Now)'
        BY <1>2, <3>2, <3>3, Left
      <4> QED BY <4>1, <1>1, <3>2
    <3>5. (Down => Down') /\ (Covered => Covered')
      <4>1. s.batch \in SUBSET Commands /\ "show" \notin s.batch
        BY <3>2
      <4> QED BY <1>5, <4>1, SentHides DEF IInv
    <3>6. Resting => Resting'
      BY <3>4, <3>5 DEF Resting
    <3>7. Aloft => Aloft'
      BY <1>2, <3>4 DEF Aloft
    <3>8. Measured => Measured'
      BY <1>2, <3>4 DEF Measured
    <3>9. Quiet => Quiet'
      BY <3>4, <3>5 DEF Quiet
    <3>10. ~Lowered
      BY <1>1, <2>2 DEF Lowered, Owes
    <3>11. Stages'
      BY <3>4, <3>6, <3>7, <3>8, <3>9, <3>10 DEF IInv, Stages
    <3>12. IInv'
      BY <1>2, <3>3, <3>4, <3>11 DEF IInv
    <3>13. Unseen
      BY <1>5, <3>4 DEF Unseen
    <3> QED BY <3>12, <3>13, UnseenStutters DEF Kept
  <2>3. CASE coordinator.state = "settling" /\ Lowered
    <3> PICK g : g = coordinator.settles
      OBVIOUS
    <3>a. PICK m \in 1..HandedOver : DownAfter(m) /\ LiftOwed(engine.owed) = Owes(m, coordinator.settles)
      BY <2>3 DEF Lowered
    <3>1. m \in Nat /\ LiftOwed(now.en.owed) = Owes(m, g) /\ m > 0
      BY <1>1, <1>4, <3>a
    <3>2. n \in 1..now.before /\ s = Committed(now, n)
      BY <1>1, <1>4, <1>7 DEF heard
    <3>3. /\ Fit(s) /\ s.before = now.before - n /\ s.batch = {} /\ s.co = now.co
          /\ s.en.lift = now.en.lift /\ s.re.reported = now.re.reported
          /\ m <= n => s.pics.hold = "settling" /\ s.en.quiet = g /\ LiftOwed(s.en.owed) = {}
          /\ m > n => /\ s.pics.hold = now.pics.hold /\ s.en.quiet = now.en.quiet
                      /\ LiftOwed(s.en.owed) = Owes(m - n, g)
      BY <1>1, <3>1, <3>2, HeardLift
    <3>4. RendererOK' /\ HandedOver' = Top(s) /\ HandedOver' = HandedOver - n
      <4>1. RendererOK' /\ HandedOver' = Top(s)
        BY <1>1, <1>6, <3>3
      <4>2. Top(s) = HandedOver - n
        BY <1>1, <1>4, <3>3 DEF Top
      <4> QED BY <4>1, <4>2
    <3>5. /\ coordinator' = coordinator /\ pictures'.hold = s.pics.hold /\ reactor' = s.re
          /\ reactor'.reported = reactor.reported /\ engine'.lift = engine.lift /\ engine'.quiet = s.en.quiet
          /\ LiftOwed(engine'.owed) = LiftOwed(s.en.owed) /\ Fit(Now)'
      <4>1. /\ coordinator' = s.co /\ pictures'.hold = s.pics.hold /\ reactor' = s.re
            /\ engine'.lift = s.en.lift /\ engine'.quiet = s.en.quiet
            /\ LiftOwed(engine'.owed) = LiftOwed(s.en.owed) /\ Fit(Now)'
        BY <1>2, <3>3, <3>4, Left
      <4> QED BY <4>1, <1>1, <3>3
    <3>6. IF m <= n THEN Down' ELSE DownAfter(m - n)'
      <4>1. s.batch \in SUBSET Commands /\ "show" \notin s.batch
        BY <3>3
      <4> QED BY <1>5, <3>1, <3>a, <4>1, SentHides DEF IInv
    <3>7. /\ engine.lift = <<>> /\ pictures.hold = "transition" /\ engine.quiet = 0 /\ g \notin quiets
          /\ reactor.reported = TRUE /\ coordinator.settles = coordinator.generation /\ coordinator.state = "settling"
      BY <2>3 DEF IInv, Stages, Lowered
    <3>8. CASE m <= n
      <4>1. pictures'.hold = "settling" /\ engine'.quiet = g /\ LiftOwed(engine'.owed) = {}
        BY <3>3, <3>5, <3>8
      <4>2. Down'
        BY <3>6, <3>8
      <4>3. Quiet'
        BY <3>5, <3>7, <4>1, <4>2 DEF Quiet
      <4>4. Stages'
        BY <3>5, <3>7, <4>3 DEF Stages
      <4>5. IInv'
        BY <1>2, <3>4, <3>5, <4>4 DEF IInv
      <4>6. Contract!Settles
        BY <1>5, <3>5, <3>7, <4>1, <4>2 DEF Down, Contract!Settles
      <4> QED BY <4>5, <4>6 DEF Kept, Contract!Next
    <3>9. CASE m > n
      <4> PICK k : k = m - n
        OBVIOUS
      <4>1. k \in 1..HandedOver' /\ ~(m <= n)
        BY <1>4, <3>1, <3>4, <3>9
      <4>2. DownAfter(k)'
        BY <3>6, <4>1
      <4>3. pictures'.hold = "transition" /\ engine'.quiet = 0 /\ LiftOwed(engine'.owed) = Owes(k, coordinator'.settles)
        BY <1>1, <3>3, <3>5, <3>7, <3>9
      <4>4. Lowered'
        BY <1>2, <3>5, <3>7, <4>1, <4>2, <4>3 DEF Lowered
      <4>5. Stages'
        BY <3>5, <3>7, <4>4 DEF Stages
      <4>6. IInv'
        BY <1>2, <3>4, <3>5, <4>5 DEF IInv
      <4>7. Unseen
        BY <1>5, <3>5, <3>7, <4>3 DEF Unseen
      <4> QED BY <4>6, <4>7, UnseenStutters DEF Kept
    <3> QED BY <1>4, <3>1, <3>8, <3>9
  <2> QED BY <2>1, <2>2, <2>3
<1>8. CASE s = given /\ coordinator.state = "flying"
  <2>1. LiftOwed(now.en.owed) = {} /\ now.en.lift = <<>> /\ now.en.quiet = 0
    BY <1>1, <1>8 DEF IInv, Stages, Aloft
  <2>2. Top(now) \in Nat /\ OwedOK(now.en.owed, Top(now))
    BY <1>1 DEF Fit, Top
  <2>3. OwedOK(OthersOwed(now.en.owed), Top(now)) /\ LiftOwed(OthersOwed(now.en.owed)) = {}
    <3> PICK owed : owed = now.en.owed
      OBVIOUS
    <3> PICK top : top = Top(now)
      OBVIOUS
    <3>1. OwedOK(OthersOwed(owed), top) /\ LiftOwed(OthersOwed(owed)) \subseteq LiftOwed(owed)
      BY <2>2, OthersOwedOK
    <3> QED BY <2>1, <3>1
  <2>4. /\ DOMAIN forgotten = DOMAIN now /\ forgotten.co = now.co /\ forgotten.pics = now.pics
        /\ forgotten.re = now.re /\ forgotten.before = now.before /\ forgotten.batch = now.batch
        /\ DOMAIN forgotten.en = DOMAIN now.en /\ forgotten.en.owed = OthersOwed(now.en.owed)
        /\ forgotten.en.shown = now.en.shown /\ forgotten.en.lift = now.en.lift
        /\ forgotten.en.quiet = now.en.quiet /\ forgotten.en.passes = now.en.passes
    BY <1>1 DEF forgotten, Fit, Shape
  <2>5. Fit(forgotten) /\ n \in 1..forgotten.before /\ LiftOwed(forgotten.en.owed) = {}
    BY <1>1, <1>4, <2>3, <2>4 DEF Fit, Shape, Top, Flying
  <2> PICK c : c = Committed(forgotten, n)
    OBVIOUS
  <2>6. /\ Fit(c) /\ c.before = forgotten.before - n /\ c.batch = {} /\ c.co = forgotten.co
        /\ c.en.lift = forgotten.en.lift /\ c.en.quiet = forgotten.en.quiet
        /\ LiftOwed(c.en.owed) = {}
    <3> PICK told : told = forgotten
      OBVIOUS
    <3>1. Fit(told) /\ told.batch = {} /\ n \in 1..told.before /\ LiftOwed(told.en.owed) = {} /\ c = Committed(told, n)
      BY <1>1, <2>4, <2>5
    <3> QED BY <3>1, HeardNoLift
  <2>7. PICK shown : shown = [c EXCEPT !.en.shown = 0]
    OBVIOUS
  <2>8. /\ shown.co = c.co /\ shown.before = c.before /\ shown.batch = c.batch
        /\ shown.en.owed = c.en.owed /\ shown.en.lift = c.en.lift /\ shown.en.quiet = c.en.quiet
    BY <2>6, <2>7 DEF Fit, Shape
  <2>9. Fit(shown)
    BY <2>6, <2>7, NotShown
  <2>16. given = Abandon(shown)
    BY <2>7 DEF given, bare
  <2>10. /\ Fit(given) /\ given.co.state = "idle" /\ given.co.generation >= shown.co.generation
         /\ given.pics.hold = "released" /\ given.re.reported = FALSE /\ given.before = shown.before
         /\ given.en.lift = shown.en.lift /\ given.en.quiet = shown.en.quiet
         /\ LiftOwed(given.en.owed) = LiftOwed(shown.en.owed)
         /\ "lift" \in given.batch /\ given.batch \subseteq shown.batch \cup {"lift", "stage"}
    BY <2>9, <2>16, AbandonLets, Zenon
  <2>11. /\ Fit(s) /\ s.before = HandedOver - n /\ "lift" \in s.batch /\ "show" \notin s.batch
         /\ s.co.state = "idle" /\ s.co.generation >= coordinator.generation
         /\ s.pics.hold = "released" /\ s.re.reported = FALSE
         /\ s.en.lift = <<>> /\ s.en.quiet = 0 /\ LiftOwed(s.en.owed) = {}
    BY <1>1, <1>8, <2>1, <2>4, <2>6, <2>8, <2>10
  <2>12. RendererOK' /\ HandedOver' = Top(s)
    BY <1>6, <2>11
  <2>13. Covered'
    <3>1. s.batch \in SUBSET Commands
      BY <2>11 DEF Fit
    <3> QED BY <1>5, <2>11, <3>1, SentHides DEF IInv
  <2>14. IInv' /\ pictures'.hold = "released" /\ reactor'.reported = FALSE
    BY <1>2, <2>11, <2>12, <2>13, ComesToRest
  <2>15. Contract!Releases
    BY <1>5, <2>14 DEF Contract!Releases
  <2> QED BY <2>14, <2>15 DEF Kept, Contract!Next
<1> QED BY <1>3, <1>7, <1>8

-----------------------------------------------------------------------------
(* What the writes owed come to.                                           *)

IsWrite(o) == o.owed.what = "write"
Moves(o, w) == IsWrite(o) /\ w \in DOMAIN o.owed.frames

(* w is at p once everything owed is carried out, in order.                *)
Reaches(written, owed, w, p) ==
    \/ /\ written[w] = p
       /\ \A j \in DOMAIN owed : ~Moves(owed[j], w)
    \/ \E i \in DOMAIN owed :
         /\ Moves(owed[i], w) /\ owed[i].owed.frames[w] = p
         /\ \A j \in DOMAIN owed : j > i => ~Moves(owed[j], w)

(* Owed in the order of the batches they wait for, none after the show.    *)
Queued(owed, shown) ==
    /\ \A i \in DOMAIN owed : IsWrite(owed[i]) =>
         owed[i].after <= shown /\ owed[i].owed.frames \in Transfers(Place)
    /\ \A i, j \in DOMAIN owed : IsWrite(owed[i]) /\ IsWrite(owed[j]) /\ i < j => owed[i].after <= owed[j].after

(* The flight running owes writes of these windows alone.                  *)
OwnOf(owed, D) ==
    \A i \in DOMAIN owed : IsWrite(owed[i]) /\ owed[i].own => DOMAIN owed[i].owed.frames \subseteq D

(* The writes of earlier flights, or all, are drawn with the n-th batch.   *)
OthersBy(owed, n) == \A i \in DOMAIN owed : IsWrite(owed[i]) /\ ~owed[i].own => owed[i].after <= n
AllBy(owed, n) == \A i \in DOMAIN owed : IsWrite(owed[i]) => owed[i].after <= n

(* e tells where each of left was among owed, in their order.              *)
Thinned(e, left, owed) ==
    /\ e \in [DOMAIN left -> DOMAIN owed]
    /\ \A j \in DOMAIN left : left[j].owed = owed[e[j]].owed
    /\ \A i, j \in DOMAIN left : i < j => e[i] < e[j]

LEMMA Overlaid ==
    ASSUME NEW S, NEW f, NEW g \in Transfers(S)
    PROVE  /\ DOMAIN ExtendLatest(f, g) = DOMAIN f \cup DOMAIN g
           /\ \A w \in DOMAIN g : ExtendLatest(f, g)[w] = g[w]
           /\ \A w \in DOMAIN f \ DOMAIN g : ExtendLatest(f, g)[w] = f[w]
           /\ f \in Transfers(S) => ExtendLatest(f, g) \in Transfers(S)
           /\ f \in [Window -> S] => ExtendLatest(f, g) \in [Window -> S]
<1>1. ExtendLatest(f, g) = [w \in DOMAIN f \cup DOMAIN g |-> IF w \in DOMAIN g THEN g[w] ELSE f[w]]
  BY DEF ExtendLatest
<1>2. DOMAIN g \subseteq Window /\ \A w \in DOMAIN g : g[w] \in S
  BY DEF Transfers
<1>3. ASSUME f \in Transfers(S) PROVE ExtendLatest(f, g) \in Transfers(S)
  <2>1. DOMAIN f \subseteq Window /\ \A w \in DOMAIN f : f[w] \in S
    BY <1>3 DEF Transfers
  <2>2. ExtendLatest(f, g) \in [(DOMAIN f \cup DOMAIN g) -> S] /\ DOMAIN f \cup DOMAIN g \in SUBSET Window
    BY <1>1, <1>2, <2>1
  <2> QED BY <2>2 DEF Transfers
<1>4. ASSUME f \in [Window -> S] PROVE ExtendLatest(f, g) \in [Window -> S]
  <2>1. DOMAIN f \cup DOMAIN g = Window
    BY <1>2, <1>4
  <2> QED BY <1>1, <1>2, <1>4, <2>1
<1> QED BY <1>1, <1>3, <1>4

LEMMA OverlaidAll ==
    ASSUME NEW S, NEW f \in [Window -> S], NEW g \in Transfers(S)
    PROVE  /\ ExtendLatest(f, g) \in [Window -> S]
           /\ \A w \in Window : ExtendLatest(f, g)[w] = IF w \in DOMAIN g THEN g[w] ELSE f[w]
<1>1. ExtendLatest(f, g) \in [Window -> S]
  BY Overlaid
<1>2. ExtendLatest(f, g) = [w \in DOMAIN f \cup DOMAIN g |-> IF w \in DOMAIN g THEN g[w] ELSE f[w]]
  BY DEF ExtendLatest
<1> QED BY <1>1, <1>2

LEMMA Restricted ==
    ASSUME NEW S, NEW f \in Transfers(S), NEW W, W \subseteq DOMAIN f
    PROVE  Restrict(f, W) \in Transfers(S) /\ DOMAIN Restrict(f, W) = W /\ \A w \in W : Restrict(f, W)[w] = f[w]
<1>1. Restrict(f, W) = [w \in W |-> f[w]]
  BY DEF Restrict
<1>2. DOMAIN f \subseteq Window /\ \A w \in DOMAIN f : f[w] \in S
  BY DEF Transfers
<1>3. Restrict(f, W) \in [W -> S] /\ W \in SUBSET Window
  BY <1>1, <1>2
<1> QED BY <1>1, <1>3 DEF Transfers

(* One more write.                                                         *)
LEMMA WriteAppended ==
    ASSUME NEW owed, Sequence(owed), NEW shown \in Nat, Queued(owed, shown), NEW o, IsWrite(o), o.after = shown,
           o.owed.frames \in Transfers(Place), NEW written, NEW more, more = Append(owed, o)
    PROVE  /\ Queued(more, shown)
           /\ \A w \in DOMAIN o.owed.frames : Reaches(written, more, w, o.owed.frames[w])
           /\ \A w, p : w \notin DOMAIN o.owed.frames /\ Reaches(written, owed, w, p) => Reaches(written, more, w, p)
           /\ \A D : OwnOf(owed, D) /\ DOMAIN o.owed.frames \subseteq D => OwnOf(more, D)
           /\ \A n : o.own /\ OthersBy(owed, n) => OthersBy(more, n)
           /\ \A n : shown <= n /\ AllBy(owed, n) => AllBy(more, n)
<1>1. PICK n : n = Len(owed)
  OBVIOUS
<1>2. /\ n \in Nat /\ DOMAIN owed = 1..n /\ DOMAIN more = 1..(n + 1)
      /\ more[n + 1] = o /\ \A i \in 1..n : more[i] = owed[i]
  BY <1>1 DEF Sequence
<1>3. \A i \in DOMAIN more : (i \in DOMAIN owed /\ i < n + 1 /\ more[i] = owed[i]) \/ (i = n + 1 /\ more[i] = o)
  <2>1. \A i \in 1..(n + 1) : (i \in 1..n /\ i < n + 1) \/ i = n + 1
    BY ONLY <1>2
  <2> QED BY <1>2, <2>1
<1>4. n + 1 \in DOMAIN more /\ (\A i \in DOMAIN owed : i \in DOMAIN more /\ i < n + 1 /\ i \in Nat) /\ ~(n + 1 < n + 1)
  BY <1>2
<1>5. Queued(more, shown)
  <2>1. \A i \in DOMAIN more : IsWrite(more[i]) => more[i].after <= shown /\ more[i].owed.frames \in Transfers(Place)
    BY <1>3 DEF Queued
  <2>2. ASSUME NEW i \in DOMAIN more, NEW j \in DOMAIN more, IsWrite(more[i]), IsWrite(more[j]), i < j
        PROVE  more[i].after <= more[j].after
    <3>1. i \in DOMAIN owed /\ more[i] = owed[i]
      BY <1>2, <1>3, <2>2
    <3>2. CASE j \in DOMAIN owed /\ more[j] = owed[j]
      BY <2>2, <3>1, <3>2 DEF Queued
    <3>3. CASE j = n + 1 /\ more[j] = o
      BY <2>2, <3>1, <3>3 DEF Queued
    <3> QED BY <1>3, <3>2, <3>3
  <2> QED BY <2>1, <2>2 DEF Queued
<1>6. ASSUME NEW w \in DOMAIN o.owed.frames PROVE Reaches(written, more, w, o.owed.frames[w])
  <2>1. Moves(more[n + 1], w) /\ more[n + 1].owed.frames[w] = o.owed.frames[w]
    BY <1>2 DEF Moves
  <2>2. \A j \in DOMAIN more : ~(j > n + 1)
    BY <1>2
  <2> QED BY <1>4, <2>1, <2>2 DEF Reaches
<1>7. ASSUME NEW w, NEW p, w \notin DOMAIN o.owed.frames, Reaches(written, owed, w, p)
      PROVE  Reaches(written, more, w, p)
  <2>1. ~Moves(more[n + 1], w)
    BY <1>2, <1>7 DEF Moves
  <2>2. CASE written[w] = p /\ \A j \in DOMAIN owed : ~Moves(owed[j], w)
    BY <1>3, <2>1, <2>2 DEF Reaches
  <2>3. CASE \E i \in DOMAIN owed : /\ Moves(owed[i], w) /\ owed[i].owed.frames[w] = p
                                   /\ \A j \in DOMAIN owed : j > i => ~Moves(owed[j], w)
    <3> PICK i \in DOMAIN owed : /\ Moves(owed[i], w) /\ owed[i].owed.frames[w] = p
                                 /\ \A j \in DOMAIN owed : j > i => ~Moves(owed[j], w)
      BY <2>3
    <3>1. i \in DOMAIN more /\ Moves(more[i], w) /\ more[i].owed.frames[w] = p
      BY <1>2, <1>4
    <3>2. \A j \in DOMAIN more : j > i => ~Moves(more[j], w)
      BY <1>3, <2>1
    <3> QED BY <3>1, <3>2 DEF Reaches
  <2> QED BY <1>7, <2>2, <2>3 DEF Reaches
<1>8. \A D : OwnOf(owed, D) /\ DOMAIN o.owed.frames \subseteq D => OwnOf(more, D)
  BY <1>3 DEF OwnOf
<1>9. \A m : o.own /\ OthersBy(owed, m) => OthersBy(more, m)
  BY <1>3 DEF OthersBy
<1>10. \A m : shown <= m /\ AllBy(owed, m) => AllBy(more, m)
  BY <1>3 DEF AllBy
<1> QED BY <1>5, <1>6, <1>7, <1>8, <1>9, <1>10

(* Effects besides writes.                                                 *)
LEMMA OthersAppended ==
    ASSUME NEW owed, Sequence(owed), NEW rest, Sequence(rest), \A i \in DOMAIN rest : ~IsWrite(rest[i]),
           NEW more, more = owed \o rest, NEW shown
    PROVE  /\ Queued(owed, shown) => Queued(more, shown)
           /\ \A written, w, p : Reaches(written, owed, w, p) => Reaches(written, more, w, p)
           /\ \A D : OwnOf(owed, D) => OwnOf(more, D)
           /\ \A n : OthersBy(owed, n) => OthersBy(more, n)
           /\ \A n : AllBy(owed, n) => AllBy(more, n)
<1>1. PICK n : n = Len(owed)
  OBVIOUS
<1>2. PICK m : m = Len(rest)
  OBVIOUS
<1>3. /\ n \in Nat /\ m \in Nat /\ DOMAIN owed = 1..n /\ DOMAIN rest = 1..m /\ DOMAIN more = 1..(n + m)
      /\ \A i \in 1..n : more[i] = owed[i]
      /\ \A i \in (n + 1)..(n + m) : more[i] = rest[i - n]
  BY <1>1, <1>2 DEF Sequence
<1>4. \A i \in DOMAIN more : (i \in DOMAIN owed /\ more[i] = owed[i]) \/ ~IsWrite(more[i])
  <2> SUFFICES ASSUME NEW i \in DOMAIN more PROVE (i \in DOMAIN owed /\ more[i] = owed[i]) \/ ~IsWrite(more[i])
    OBVIOUS
  <2>1. \A j \in 1..(n + m) : j \in 1..n \/ (j \in (n + 1)..(n + m) /\ j - n \in 1..m)
    <3>1. n \in Nat /\ m \in Nat
      BY <1>3
    <3> QED BY ONLY <3>1
  <2>2. CASE i \in 1..n
    BY <1>3, <2>2
  <2>3. CASE i \in (n + 1)..(n + m) /\ i - n \in 1..m
    BY <1>3, <2>3
  <2> QED BY <1>3, <2>1, <2>2, <2>3
<1>5. \A i \in DOMAIN owed : i \in DOMAIN more /\ more[i] = owed[i]
  BY <1>3
<1>6. \A w : \A i \in DOMAIN more : Moves(more[i], w) => i \in DOMAIN owed /\ more[i] = owed[i]
  BY <1>4 DEF Moves
<1>7. Queued(owed, shown) => Queued(more, shown)
  BY <1>4 DEF Queued
<1>8. \A written, w, p : Reaches(written, owed, w, p) => Reaches(written, more, w, p)
  BY <1>5, <1>6 DEF Reaches
<1>9. \A D : OwnOf(owed, D) => OwnOf(more, D)
  BY <1>4 DEF OwnOf
<1>10. \A k : OthersBy(owed, k) => OthersBy(more, k)
  BY <1>4 DEF OthersBy
<1>11. \A k : AllBy(owed, k) => AllBy(more, k)
  BY <1>4 DEF AllBy
<1> QED BY <1>7, <1>8, <1>9, <1>10, <1>11

(* Every write of w is left, in its place.                                 *)
LEMMA ThinnedReaches ==
    ASSUME NEW e, NEW left, NEW owed, Thinned(e, left, owed), NEW w, NEW p, NEW written,
           DOMAIN left \subseteq Int, DOMAIN owed \subseteq Int,
           \A k \in DOMAIN owed : Moves(owed[k], w) => \E j \in DOMAIN left : e[j] = k,
           Reaches(written, owed, w, p)
    PROVE  Reaches(written, left, w, p)
<1>1. \A j \in DOMAIN left : e[j] \in DOMAIN owed /\ (Moves(left[j], w) <=> Moves(owed[e[j]], w))
      /\ left[j].owed = owed[e[j]].owed
  BY DEF Thinned, Moves, IsWrite
<1>2. CASE written[w] = p /\ \A j \in DOMAIN owed : ~Moves(owed[j], w)
  BY <1>1, <1>2 DEF Reaches
<1>3. CASE \E i \in DOMAIN owed : /\ Moves(owed[i], w) /\ owed[i].owed.frames[w] = p
                                 /\ \A j \in DOMAIN owed : j > i => ~Moves(owed[j], w)
  <2> PICK i \in DOMAIN owed : /\ Moves(owed[i], w) /\ owed[i].owed.frames[w] = p
                               /\ \A j \in DOMAIN owed : j > i => ~Moves(owed[j], w)
    BY <1>3
  <2> PICK k \in DOMAIN left : e[k] = i
    OBVIOUS
  <2>1. Moves(left[k], w) /\ left[k].owed.frames[w] = p
    BY <1>1
  <2>2. \A j \in DOMAIN left : j > k => e[j] > i
    <3>1. \A j \in DOMAIN left : j > k => k < j
      OBVIOUS
    <3>2. \A j \in DOMAIN left : k < j => i < e[j]
      BY DEF Thinned
    <3>3. \A j \in DOMAIN left : e[j] \in Int
      BY <1>1
    <3> QED BY <3>1, <3>2, <3>3
  <2>3. \A j \in DOMAIN left : j > k => ~Moves(left[j], w)
    BY <1>1, <2>2
  <2> QED BY <2>1, <2>3 DEF Reaches
<1> QED BY <1>2, <1>3 DEF Reaches

(* A batch drawn after a new flight began: the writes stay, as of others.  *)
LEMMA BegunReaches ==
    ASSUME NEW owed, NEW top, OwedOK(owed, top)
    PROVE  /\ \A written, w, p : Reaches(written, owed, w, p) => Reaches(written, Begun(owed), w, p)
           /\ \A n : Queued(owed, n) => Queued(Begun(owed), n)
           /\ \A i \in DOMAIN Begun(owed) : ~Begun(owed)[i].own
           /\ \A n : AllBy(owed, n) => AllBy(Begun(owed), n)
<1> DEFINE kept == { i \in DOMAIN owed : owed[i].owed.what = "write" }
           writes == Sift(owed, kept)
<1> PICK left : left = Begun(owed)
  OBVIOUS
<1>1. owed \in Seq({ owed[i] : i \in DOMAIN owed }) /\ \A i \in DOMAIN owed : Effect(owed[i], top)
  BY DEF OwedOK, Sequence
<1>2. writes \in Seq({ owed[i] : i \in DOMAIN owed }) /\ \E e : PickedBy(e, writes, owed, kept, Len(owed))
  BY <1>1, SiftedInOrder
<1>3. PICK e : PickedBy(e, writes, owed, kept, Len(owed))
  BY <1>2
<1>4. left = [i \in DOMAIN writes |-> [writes[i] EXCEPT !.own = FALSE]]
  BY DEF Begun
<1> HIDE DEF writes
<1>5. DOMAIN owed = 1..Len(owed) /\ Len(owed) \in Nat /\ DOMAIN writes = 1..Len(writes) /\ Len(writes) \in Nat
  BY <1>1, <1>2
<1>6. /\ DOMAIN left = DOMAIN writes /\ DOMAIN left \subseteq Int /\ DOMAIN owed \subseteq Int
      /\ \A j \in DOMAIN left : e[j] \in DOMAIN owed /\ writes[j] = owed[e[j]]
  BY <1>3, <1>4, <1>5 DEF PickedBy
<1>7. \A j \in DOMAIN left : /\ left[j].owed = owed[e[j]].owed /\ left[j].after = owed[e[j]].after
                             /\ left[j].own = FALSE
  <2> SUFFICES ASSUME NEW j \in DOMAIN left
               PROVE  /\ left[j].owed = owed[e[j]].owed /\ left[j].after = owed[e[j]].after /\ left[j].own = FALSE
    OBVIOUS
  <2> PICK o : o = owed[e[j]]
    OBVIOUS
  <2>1. DOMAIN o = {"after", "own", "owed"}
    BY <1>1, <1>6 DEF Effect
  <2>2. writes[j] = o /\ left[j] = [writes[j] EXCEPT !.own = FALSE]
    BY <1>4, <1>6
  <2> QED BY <2>1, <2>2
<1>8. Thinned(e, left, owed)
  <2>1. e \in [DOMAIN left -> DOMAIN owed]
    BY <1>3, <1>5, <1>6 DEF PickedBy
  <2>2. \A i, j \in DOMAIN left : i < j => e[i] < e[j]
    BY <1>3, <1>6 DEF PickedBy
  <2> QED BY <1>7, <2>1, <2>2 DEF Thinned
<1>9. \A w : \A k \in DOMAIN owed : Moves(owed[k], w) => \E j \in DOMAIN left : e[j] = k
  <2>1. \A k \in DOMAIN owed : IsWrite(owed[k]) => k \in kept
    BY DEF IsWrite
  <2> HIDE DEF kept
  <2> QED BY <1>3, <1>5, <1>6, <2>1 DEF PickedBy, Moves
<1>10. \A written, w, p : Reaches(written, owed, w, p) => Reaches(written, left, w, p)
  BY <1>6, <1>8, <1>9, ThinnedReaches
<1>11. \A j \in DOMAIN left : IsWrite(left[j]) <=> IsWrite(owed[e[j]])
  BY <1>7 DEF IsWrite
<1>12. \A n : Queued(owed, n) => Queued(left, n)
  BY <1>6, <1>7, <1>8, <1>11 DEF Queued, Thinned
<1>13. \A n : AllBy(owed, n) => AllBy(left, n)
  BY <1>6, <1>7, <1>11 DEF AllBy
<1> QED BY <1>7, <1>10, <1>12, <1>13

(* The overlay failed: what the flight running owes is dropped with it.    *)
LEMMA OthersReach ==
    ASSUME NEW owed, NEW top, OwedOK(owed, top), NEW D, OwnOf(owed, D)
    PROVE  /\ \A written, w, p : w \notin D /\ Reaches(written, owed, w, p) => Reaches(written, OthersOwed(owed), w, p)
           /\ \A n : Queued(owed, n) => Queued(OthersOwed(owed), n)
           /\ \A n : OthersBy(owed, n) => AllBy(OthersOwed(owed), n)
<1> DEFINE kept == { i \in DOMAIN owed : ~owed[i].own }
<1> PICK left : left = OthersOwed(owed)
  OBVIOUS
<1>1. owed \in Seq({ owed[i] : i \in DOMAIN owed })
  BY DEF OwedOK, Sequence
<1>2. left \in Seq({ owed[i] : i \in DOMAIN owed }) /\ \E e : PickedBy(e, left, owed, kept, Len(owed))
  BY <1>1, SiftedInOrder DEF OthersOwed
<1>3. PICK e : PickedBy(e, left, owed, kept, Len(owed))
  BY <1>2
<1>4. DOMAIN owed = 1..Len(owed) /\ DOMAIN left = 1..Len(left)
  BY <1>1, <1>2
<1>5. \A j \in DOMAIN left : e[j] \in DOMAIN owed /\ left[j] = owed[e[j]] /\ ~left[j].own
  BY <1>3, <1>4 DEF PickedBy
<1>6. Thinned(e, left, owed)
  BY <1>3, <1>4, <1>5 DEF PickedBy, Thinned
<1>7. ASSUME NEW w, w \notin D
      PROVE  \A k \in DOMAIN owed : Moves(owed[k], w) => \E j \in DOMAIN left : e[j] = k
  <2>1. \A k \in DOMAIN owed : Moves(owed[k], w) => k \in kept
    BY <1>7 DEF Moves, OwnOf
  <2> HIDE DEF kept
  <2> QED BY <1>3, <1>4, <2>1 DEF PickedBy
<1>8. \A written, w, p : w \notin D /\ Reaches(written, owed, w, p) => Reaches(written, left, w, p)
  <2>1. DOMAIN left \subseteq Int /\ DOMAIN owed \subseteq Int
    BY <1>4
  <2> QED BY <1>6, <1>7, <2>1, ThinnedReaches
<1>9. \A n : Queued(owed, n) => Queued(left, n)
  BY <1>5, <1>6 DEF Queued, Thinned
<1>10. \A n : OthersBy(owed, n) => AllBy(left, n)
  BY <1>5 DEF AllBy, OthersBy
<1> QED BY <1>8, <1>9, <1>10

(* What is carried out writes, or moves nothing.                           *)
LEMMA CarryWrites ==
    ASSUME NEW t, Shape(t), NEW o, o.what \in {"write", "settle", "quiet"}
    PROVE  /\ Carry(t, o).re.written = IF o.what = "write" THEN ExtendLatest(t.re.written, o.frames) ELSE t.re.written
           /\ Carry(t, o).re.goal = t.re.goal /\ Carry(t, o).re.requests = t.re.requests
           /\ Carry(t, o).re.scenario = t.re.scenario
           /\ Carry(t, o).en.final = t.en.final /\ Carry(t, o).pics.watch = t.pics.watch
<1>1. CASE o.what = "write"
  BY <1>1 DEF Carry, Shape
<1>2. CASE o.what = "settle"
  BY <1>2 DEF Carry, Shape
<1>3. CASE o.what = "quiet"
  BY <1>3 DEF Carry, Shape
<1> QED BY <1>1, <1>2, <1>3

(* What the first k effects due by the n-th batch wrote of w.              *)
Wrote(was, is, owed, n, k, w) ==
    \/ /\ is[w] = was[w]
       /\ \A j \in 1..k : owed[j].after <= n => ~Moves(owed[j], w)
    \/ \E i \in 1..k :
         /\ owed[i].after <= n /\ Moves(owed[i], w) /\ is[w] = owed[i].owed.frames[w]
         /\ \A j \in 1..k : j > i /\ owed[j].after <= n => ~Moves(owed[j], w)

LEMMA WroteOne ==
    ASSUME NEW was, NEW is, NEW owed, NEW n, NEW k \in Nat, NEW w, Wrote(was, is, owed, n, k, w), NEW next,
           owed[k + 1].after <= n /\ Moves(owed[k + 1], w) => next[w] = owed[k + 1].owed.frames[w],
           ~(owed[k + 1].after <= n /\ Moves(owed[k + 1], w)) => next[w] = is[w]
    PROVE  Wrote(was, next, owed, n, k + 1, w)
<1>1. \A j \in 1..(k + 1) : j = k + 1 \/ (j \in 1..k /\ ~(j > k + 1))
  OBVIOUS
<1>2. k + 1 \in 1..(k + 1) /\ ~(k + 1 > k + 1) /\ \A j \in 1..k : j \in 1..(k + 1)
  OBVIOUS
<1>3. CASE owed[k + 1].after <= n /\ Moves(owed[k + 1], w)
  BY <1>1, <1>2, <1>3 DEF Wrote
<1>4. CASE ~(owed[k + 1].after <= n /\ Moves(owed[k + 1], w))
  <2>1. CASE is[w] = was[w] /\ \A j \in 1..k : owed[j].after <= n => ~Moves(owed[j], w)
    BY <1>1, <1>4, <2>1 DEF Wrote
  <2>2. CASE \E i \in 1..k : /\ owed[i].after <= n /\ Moves(owed[i], w) /\ is[w] = owed[i].owed.frames[w]
                            /\ \A j \in 1..k : j > i /\ owed[j].after <= n => ~Moves(owed[j], w)
    <3> PICK i \in 1..k : /\ owed[i].after <= n /\ Moves(owed[i], w) /\ is[w] = owed[i].owed.frames[w]
                          /\ \A j \in 1..k : j > i /\ owed[j].after <= n => ~Moves(owed[j], w)
      BY <2>2
    <3>1. \A j \in 1..(k + 1) : j > i /\ owed[j].after <= n => ~Moves(owed[j], w)
      BY <1>1, <1>4
    <3> QED BY <1>2, <1>4, <3>1 DEF Wrote
  <2> QED BY <2>1, <2>2 DEF Wrote
<1> QED BY <1>3, <1>4

(* The batches up to the n-th drawn: what is left, and what was written.   *)
LEMMA CommittedWrites ==
    ASSUME NEW s, Fit(s), s.batch = {}, NEW n \in 1..s.before, Queued(s.en.owed, s.en.shown),
           s.re.written \in [Window -> Place]
    PROVE  LET t == Committed(s, n) IN
           /\ t.en.passes = s.en.passes /\ t.en.final = s.en.final /\ t.en.owed = Renumbered(s, n).en.owed
           /\ t.en.shown = IF s.en.shown > n THEN s.en.shown - n ELSE 0
           /\ t.pics.watch = s.pics.watch
           /\ t.re.goal = s.re.goal /\ t.re.requests = s.re.requests /\ t.re.scenario = s.re.scenario
           /\ t.re.written \in [Window -> Place]
           /\ \A w \in Window : Wrote(s.re.written, t.re.written, s.en.owed, n, Len(s.en.owed), w)
<1> PICK owed : owed = s.en.owed
  OBVIOUS
<1> PICK len : len = Len(owed)
  OBVIOUS
<1> PICK start : start = Renumbered(s, n)
  OBVIOUS
<1>1. len \in Nat /\ DOMAIN owed = 1..len /\ \A i \in 1..len : Effect(owed[i], Top(s))
  BY DEF Fit, OwedOK, Sequence
<1> PICK carried : CarriesBy(carried, s, n)
  BY <1>1, CommittedSteps
<1>2. /\ carried[0] = start
      /\ \A i \in 1..len : /\ owed[i].after <= n => carried[i] = Carry(carried[i - 1], owed[i].owed)
                           /\ ~(owed[i].after <= n) => carried[i] = carried[i - 1]
      /\ Committed(s, n) = carried[len]
  BY DEF CarriesBy
<1>3. /\ Shape(start) /\ start.re = s.re /\ start.pics = s.pics
      /\ start.en.passes = s.en.passes /\ start.en.final = s.en.final
      /\ start.en.shown = IF s.en.shown > n THEN s.en.shown - n ELSE 0
  BY DEF Fit, Shape, Renumbered
<1> DEFINE Good(t, k) ==
             /\ Shape(t) /\ t.en.passes = s.en.passes /\ t.en.final = s.en.final /\ t.en.shown = start.en.shown
             /\ t.en.owed = start.en.owed /\ t.pics.watch = s.pics.watch
             /\ t.re.goal = s.re.goal /\ t.re.requests = s.re.requests /\ t.re.scenario = s.re.scenario
             /\ t.re.reported = s.re.reported
             /\ t.re.written \in [Window -> Place]
             /\ \A w \in Window : Wrote(s.re.written, t.re.written, owed, n, k, w)
           V == { k \in Nat : k <= len => Good(carried[k], k) }
<1>4. Good(start, 0)
  <2>1. \A w \in Window : Wrote(s.re.written, start.re.written, owed, n, 0, w)
    BY <1>3 DEF Wrote
  <2> QED BY <1>3, <2>1
<1>5. ASSUME NEW k \in Nat, k + 1 <= len, NEW t, t = carried[k], Good(t, k) PROVE Good(carried[k + 1], k + 1)
  <2>1. k + 1 \in 1..len /\ (k + 1) - 1 = k
    BY <1>1, <1>5
  <2> PICK o : o = owed[k + 1]
    OBVIOUS
  <2>2. /\ o.after <= n => carried[k + 1] = Carry(t, o.owed)
        /\ ~(o.after <= n) => carried[k + 1] = t
    BY <1>2, <1>5, <2>1
  <2>3. Effect(o, Top(s)) /\ o.owed.what \in {"write", "settle", "quiet"} /\ (IsWrite(o) => o.owed.frames \in Transfers(Place))
    BY <1>1, <2>1 DEF Effect, Queued
  <2>4. CASE o.after <= n /\ IsWrite(o)
    <3> PICK c : c = Carry(t, o.owed)
      OBVIOUS
    <3>1. /\ Shape(c) /\ c.en.passes = t.en.passes /\ c.en.final = t.en.final /\ c.en.shown = t.en.shown
          /\ c.en.owed = t.en.owed /\ c.pics.watch = t.pics.watch
          /\ c.re.goal = t.re.goal /\ c.re.requests = t.re.requests /\ c.re.scenario = t.re.scenario
          /\ c.re.reported = t.re.reported
          /\ c.re.written = ExtendLatest(t.re.written, o.owed.frames)
      <4>1. Shape(t) /\ o.owed.what = "write"
        BY <1>5, <2>4 DEF IsWrite
      <4>2. /\ Shape(c) /\ c.en.passes = t.en.passes /\ c.en.shown = t.en.shown
            /\ c.en.owed = t.en.owed /\ c.re.reported = t.re.reported
        BY <4>1, CarryOne
      <4>3. /\ c.en.final = t.en.final /\ c.pics.watch = t.pics.watch
            /\ c.re.goal = t.re.goal /\ c.re.requests = t.re.requests /\ c.re.scenario = t.re.scenario
            /\ c.re.written = ExtendLatest(t.re.written, o.owed.frames)
        BY <4>1, CarryWrites
      <4> QED BY <4>2, <4>3
    <3>2. /\ c.re.written \in [Window -> Place]
          /\ \A w \in Window : c.re.written[w] = IF w \in DOMAIN o.owed.frames THEN o.owed.frames[w] ELSE t.re.written[w]
      <4>1. t.re.written \in [Window -> Place] /\ o.owed.frames \in Transfers(Place)
        BY <1>5, <2>3, <2>4
      <4> PICK was : was = t.re.written
        OBVIOUS
      <4> PICK frames : frames = o.owed.frames
        OBVIOUS
      <4>2. was \in [Window -> Place] /\ frames \in Transfers(Place)
        BY <4>1
      <4>3. /\ ExtendLatest(was, frames) \in [Window -> Place]
            /\ \A w \in Window : ExtendLatest(was, frames)[w] = IF w \in DOMAIN frames THEN frames[w] ELSE was[w]
        BY <4>2, OverlaidAll
      <4> QED BY ZenonT(30), <3>1, <4>3
    <3>3. \A w \in Window : Wrote(s.re.written, c.re.written, owed, n, k + 1, w)
      <4> SUFFICES ASSUME NEW w \in Window PROVE Wrote(s.re.written, c.re.written, owed, n, k + 1, w)
        OBVIOUS
      <4>1. Wrote(s.re.written, t.re.written, owed, n, k, w)
        BY <1>5
      <4>2. Moves(o, w) <=> w \in DOMAIN o.owed.frames
        BY <2>4 DEF Moves
      <4>3. owed[k + 1].after <= n /\ Moves(owed[k + 1], w) => c.re.written[w] = owed[k + 1].owed.frames[w]
        BY <3>2, <4>2
      <4>4. ~(owed[k + 1].after <= n /\ Moves(owed[k + 1], w)) => c.re.written[w] = t.re.written[w]
        BY <2>4, <3>2, <4>2
      <4> QED BY <4>1, <4>3, <4>4, WroteOne
    <3>4. carried[k + 1] = c
      BY <2>2, <2>4
    <3> QED BY <1>5, <3>1, <3>2, <3>3, <3>4
  <2>5. CASE ~(o.after <= n /\ IsWrite(o))
    <3> PICK c : c = carried[k + 1]
      OBVIOUS
    <3>1. /\ Shape(c) /\ c.en.passes = t.en.passes /\ c.en.final = t.en.final /\ c.en.shown = t.en.shown
          /\ c.en.owed = t.en.owed /\ c.pics.watch = t.pics.watch
          /\ c.re.goal = t.re.goal /\ c.re.requests = t.re.requests /\ c.re.scenario = t.re.scenario
          /\ c.re.reported = t.re.reported /\ c.re.written = t.re.written
      <4>1. CASE o.after <= n
        <5> PICK d : d = o.owed
          OBVIOUS
        <5>1. Shape(t) /\ d.what \in {"write", "settle", "quiet"} /\ d.what # "write"
          BY <1>5, <2>3, <2>5, <4>1 DEF IsWrite
        <5>2. c = Carry(t, d)
          BY <2>2, <4>1
        <5>3. /\ Shape(c) /\ c.en.passes = t.en.passes /\ c.en.shown = t.en.shown
              /\ c.en.owed = t.en.owed /\ c.re.reported = t.re.reported
          BY ONLY <5>1, <5>2, CarryOne
        <5>4. /\ c.re.written = t.re.written /\ c.re.goal = t.re.goal /\ c.re.requests = t.re.requests
              /\ c.re.scenario = t.re.scenario /\ c.en.final = t.en.final /\ c.pics.watch = t.pics.watch
          BY ONLY <5>1, <5>2, CarryWrites
        <5> QED BY ONLY <5>3, <5>4
      <4>2. CASE ~(o.after <= n)
        <5>1. c = t /\ Shape(t)
          BY <1>5, <2>2, <4>2
        <5> QED BY ONLY <5>1
      <4> QED BY <4>1, <4>2
    <3>2. \A w \in Window : Wrote(s.re.written, c.re.written, owed, n, k + 1, w)
      <4> SUFFICES ASSUME NEW w \in Window PROVE Wrote(s.re.written, c.re.written, owed, n, k + 1, w)
        OBVIOUS
      <4>1. Wrote(s.re.written, t.re.written, owed, n, k, w)
        BY <1>5
      <4>2. ~(o.after <= n /\ Moves(o, w))
        BY <2>5 DEF Moves
      <4> QED BY <3>1, <4>1, <4>2, WroteOne
    <3> QED BY <1>5, <3>1, <3>2
  <2> QED BY <2>4, <2>5
<1>6. Nat \subseteq V
  <2>1. 0 \in V
    <3> HIDE DEF Good
    <3> QED BY <1>2, <1>4
  <2>2. ASSUME NEW k \in Nat, k \in V PROVE k + 1 \in V
    <3> SUFFICES ASSUME k + 1 <= len PROVE Good(carried[k + 1], k + 1)
      OBVIOUS
    <3> HIDE DEF Good
    <3>1. Good(carried[k], k)
      BY <1>1, <2>2
    <3> HIDE DEF V
    <3> QED BY <1>5, <3>1
  <2> HIDE DEF V
  <2> QED BY <2>1, <2>2, SetInduction
<1>7. Good(carried[len], len)
  <2> HIDE DEF Good
  <2> QED BY <1>1, <1>6
<1> PICK t : t = Committed(s, n)
  OBVIOUS
<1>8. Good(t, len)
  <2> HIDE DEF Good
  <2> QED BY <1>2, <1>7
<1> QED BY <1>3, <1>8

(* What is left is what waits for later batches, in its order.             *)
LEMMA CommittedLeaves ==
    ASSUME NEW s, Fit(s), NEW n \in Nat, n <= s.before
    PROVE  \E e : LET later == Renumbered(s, n).en.owed IN
             /\ Thinned(e, later, s.en.owed)
             /\ DOMAIN later \subseteq Int
             /\ \A j \in DOMAIN later : /\ s.en.owed[e[j]].after > n
                                        /\ later[j].after = s.en.owed[e[j]].after - n
                                        /\ later[j].own = s.en.owed[e[j]].own
             /\ \A i \in DOMAIN s.en.owed : s.en.owed[i].after > n => \E j \in DOMAIN later : e[j] = i
<1> PICK owed : owed = s.en.owed
  OBVIOUS
<1> DEFINE kept == { i \in DOMAIN owed : owed[i].after > n }
<1> PICK waits : waits = Sift(owed, kept)
  OBVIOUS
<1> PICK later : later = Renumbered(s, n).en.owed
  OBVIOUS
<1>1. owed \in Seq({ owed[i] : i \in DOMAIN owed }) /\ \A i \in DOMAIN owed : Effect(owed[i], Top(s))
  BY DEF Fit, OwedOK, Sequence
<1>2. waits \in Seq({ owed[i] : i \in DOMAIN owed }) /\ \E e : PickedBy(e, waits, owed, kept, Len(owed))
  BY <1>1, SiftedInOrder
<1>3. PICK e : PickedBy(e, waits, owed, kept, Len(owed))
  BY <1>2
<1>4. later = [j \in DOMAIN waits |-> [waits[j] EXCEPT !.after = @ - n]]
  BY DEF Renumbered, Fit, Shape
<1>5. DOMAIN owed = 1..Len(owed) /\ DOMAIN waits = 1..Len(waits) /\ Len(waits) \in Nat
  BY <1>1, <1>2
<1>6. /\ DOMAIN later = DOMAIN waits /\ DOMAIN later \subseteq Int
      /\ \A j \in DOMAIN later : e[j] \in DOMAIN owed /\ owed[e[j]].after > n /\ waits[j] = owed[e[j]]
  <2>1. DOMAIN later = DOMAIN waits
    BY <1>4
  <2>2. DOMAIN waits \subseteq Int
    BY <1>5
  <2>3. \A j \in DOMAIN waits : e[j] \in 1..Len(owed) /\ e[j] \in kept /\ waits[j] = owed[e[j]]
    BY <1>3 DEF PickedBy
  <2> QED BY <1>5, <2>1, <2>2, <2>3
<1>7. \A j \in DOMAIN later : /\ later[j].owed = owed[e[j]].owed /\ later[j].after = owed[e[j]].after - n
                              /\ later[j].own = owed[e[j]].own
  <2> SUFFICES ASSUME NEW j \in DOMAIN later
               PROVE  /\ later[j].owed = owed[e[j]].owed /\ later[j].after = owed[e[j]].after - n
                      /\ later[j].own = owed[e[j]].own
    OBVIOUS
  <2> PICK o : o = owed[e[j]]
    OBVIOUS
  <2>1. DOMAIN o = {"after", "own", "owed"}
    BY <1>1, <1>6 DEF Effect
  <2>2. waits[j] = o /\ later[j] = [waits[j] EXCEPT !.after = @ - n]
    BY <1>4, <1>6
  <2>3. later[j] = [o EXCEPT !.after = o.after - n]
    BY <2>2
  <2>4. later[j].owed = o.owed /\ later[j].after = o.after - n /\ later[j].own = o.own
    BY <2>1, <2>3
  <2> QED BY <2>4
<1>8. Thinned(e, later, owed)
  <2>1. e \in [DOMAIN later -> DOMAIN owed]
    BY <1>3, <1>5, <1>6 DEF PickedBy
  <2>2. \A i, j \in DOMAIN later : i < j => e[i] < e[j]
    BY <1>3, <1>6 DEF PickedBy
  <2> QED BY <1>7, <2>1, <2>2 DEF Thinned
<1>9. \A i \in DOMAIN owed : owed[i].after > n => \E j \in DOMAIN later : e[j] = i
  <2>1. \A i \in DOMAIN owed : owed[i].after > n => i \in kept
    OBVIOUS
  <2> HIDE DEF kept
  <2> QED BY <1>3, <1>5, <1>6, <2>1 DEF PickedBy
<1> QED BY <1>6, <1>7, <1>8, <1>9

(* What every window comes to is as it was.                                *)
LEMMA CommittedReaches ==
    ASSUME NEW s, Fit(s), s.batch = {}, NEW n \in 1..s.before, NEW t, t = Committed(s, n),
           Queued(s.en.owed, s.en.shown), s.re.written \in [Window -> Place]
    PROVE  /\ \A w \in Window : \A p : Reaches(s.re.written, s.en.owed, w, p) => Reaches(t.re.written, t.en.owed, w, p)
           /\ Queued(t.en.owed, t.en.shown)
           /\ \A D : OwnOf(s.en.owed, D) => OwnOf(t.en.owed, D)
           /\ \A k \in Nat : OthersBy(s.en.owed, k) => OthersBy(t.en.owed, k - n)
           /\ \A k \in Nat : AllBy(s.en.owed, k) => AllBy(t.en.owed, k - n)
           /\ AllBy(s.en.owed, n) => \A i \in DOMAIN t.en.owed : ~IsWrite(t.en.owed[i])
<1> PICK owed : owed = s.en.owed
  OBVIOUS
<1> PICK len : len = Len(owed)
  OBVIOUS
<1> PICK later : later = Renumbered(s, n).en.owed
  OBVIOUS
<1>1. s.before \in Nat /\ n \in Nat /\ n <= s.before
  BY DEF Fit
<1>2. PICK e : /\ Thinned(e, later, owed)
               /\ DOMAIN later \subseteq Int
               /\ \A j \in DOMAIN later : /\ owed[e[j]].after > n
                                          /\ later[j].after = owed[e[j]].after - n
                                          /\ later[j].own = owed[e[j]].own
               /\ \A i \in DOMAIN owed : owed[i].after > n => \E j \in DOMAIN later : e[j] = i
  BY <1>1, CommittedLeaves
<1>3. len \in Nat /\ DOMAIN owed = 1..len /\ \A i \in 1..len : owed[i].after \in Nat /\ (owed[i].after > n <=> ~(owed[i].after <= n))
  <2>1. len \in Nat /\ DOMAIN owed = 1..len /\ \A i \in 1..len : Effect(owed[i], Top(s))
    BY DEF Fit, OwedOK, Sequence
  <2>2. Top(s) \in Nat
    BY DEF Fit, Top
  <2>3. \A i \in 1..len : owed[i].after \in Nat
    BY <2>1, <2>2 DEF Effect
  <2> QED BY <1>1, <2>1, <2>3
<1>4. /\ t.en.owed = later /\ t.en.shown = IF s.en.shown > n THEN s.en.shown - n ELSE 0
      /\ \A w \in Window : Wrote(s.re.written, t.re.written, owed, n, len, w)
  BY CommittedWrites
<1>5. \A j \in DOMAIN later : e[j] \in 1..len /\ later[j].owed = owed[e[j]].owed
  BY <1>2, <1>3 DEF Thinned
<1>6. \A j \in DOMAIN later : IsWrite(later[j]) <=> IsWrite(owed[e[j]])
  BY <1>5 DEF IsWrite
<1>7. \A w : \A j \in DOMAIN later : Moves(later[j], w) <=> Moves(owed[e[j]], w)
  BY <1>5 DEF IsWrite, Moves
<1>8. ASSUME NEW w \in Window, NEW p, Reaches(s.re.written, owed, w, p)
      PROVE  Reaches(t.re.written, later, w, p)
  <2>1. CASE s.re.written[w] = p /\ \A j \in 1..len : ~Moves(owed[j], w)
    <3>1. t.re.written[w] = p
      BY <1>4, <2>1 DEF Wrote
    <3>2. \A j \in DOMAIN later : ~Moves(later[j], w)
      BY <1>5, <1>7, <2>1
    <3> QED BY <3>1, <3>2 DEF Reaches
  <2>2. CASE \E i \in 1..len : /\ Moves(owed[i], w) /\ owed[i].owed.frames[w] = p
                              /\ \A j \in 1..len : j > i => ~Moves(owed[j], w)
    <3> PICK i \in 1..len : /\ Moves(owed[i], w) /\ owed[i].owed.frames[w] = p
                            /\ \A j \in 1..len : j > i => ~Moves(owed[j], w)
      BY <2>2
    <3>1. CASE owed[i].after <= n
      <4>1. ~\A j \in 1..len : owed[j].after <= n => ~Moves(owed[j], w)
        BY <3>1
      <4>2. PICK k \in 1..len : /\ owed[k].after <= n /\ Moves(owed[k], w) /\ t.re.written[w] = owed[k].owed.frames[w]
                                /\ \A j \in 1..len : j > k /\ owed[j].after <= n => ~Moves(owed[j], w)
        BY <1>4, <4>1 DEF Wrote
      <4>3. k = i
        <5>1. ~(i > k) /\ ~(k > i)
          BY <3>1, <4>2
        <5> QED BY <1>3, <5>1
      <4>4. ASSUME NEW j \in DOMAIN later, Moves(later[j], w) PROVE FALSE
        <5>1. e[j] \in 1..len /\ Moves(owed[e[j]], w) /\ owed[e[j]].after > n
          BY <1>2, <1>5, <1>7, <4>4
        <5>2. e[j] # i /\ ~(e[j] > i)
          BY <1>3, <3>1, <5>1
        <5>3. e[j] < i
          BY <1>3, <5>1, <5>2
        <5>4. owed[e[j]].after <= owed[i].after
          BY <1>3, <5>1, <5>3 DEF Queued, Moves
        <5>5. \A x, y \in Nat : x > n /\ x <= y => ~(y <= n)
          BY <1>1
        <5>6. owed[e[j]].after \in Nat /\ owed[i].after \in Nat
          BY <1>3, <5>1
        <5> QED BY <3>1, <5>1, <5>4, <5>5, <5>6
      <4> QED BY <4>2, <4>3, <4>4 DEF Reaches
    <3>2. CASE owed[i].after > n
      <4> PICK k \in DOMAIN later : e[k] = i
        BY <1>2, <1>3, <3>2
      <4>1. Moves(later[k], w) /\ later[k].owed.frames[w] = p
        BY <1>5, <1>7
      <4>2. \A j \in DOMAIN later : j > k => e[j] > i
        <5>1. \A j \in DOMAIN later : j > k => k < j
          BY <1>2
        <5>2. \A j \in DOMAIN later : k < j => i < e[j]
          BY <1>2 DEF Thinned
        <5> QED BY <1>3, <1>5, <5>1, <5>2
      <4>3. \A j \in DOMAIN later : j > k => ~Moves(later[j], w)
        BY <1>5, <1>7, <4>2
      <4> QED BY <4>1, <4>3 DEF Reaches
    <3> QED BY <1>3, <3>1, <3>2
  <2> QED BY <1>3, <1>8, <2>1, <2>2 DEF Reaches
<1>9. Queued(later, t.en.shown)
  <2>1. s.en.shown \in Nat
    BY <1>1 DEF Fit, Top
  <2>2. ASSUME NEW j \in DOMAIN later, IsWrite(later[j])
        PROVE  later[j].after <= t.en.shown /\ later[j].owed.frames \in Transfers(Place)
    <3>1. owed[e[j]].after <= s.en.shown /\ owed[e[j]].owed.frames \in Transfers(Place)
      BY <1>3, <1>5, <1>6, <2>2 DEF Queued
    <3> PICK x : x = owed[e[j]].after
      OBVIOUS
    <3>2. x \in Nat /\ x > n /\ x <= s.en.shown /\ later[j].after = x - n
      BY <1>2, <1>3, <1>5, <3>1
    <3>3. t.en.shown = s.en.shown - n
      <4>1. s.en.shown > n
        BY ONLY <1>1, <2>1, <3>2
      <4> QED BY <1>4, <4>1
    <3>4. later[j].after <= t.en.shown
      BY ONLY <1>1, <2>1, <3>2, <3>3
    <3>5. later[j].owed = owed[e[j]].owed
      BY <1>5
    <3> QED BY ONLY <3>1, <3>4, <3>5
  <2>3. ASSUME NEW i \in DOMAIN later, NEW j \in DOMAIN later, IsWrite(later[i]), IsWrite(later[j]), i < j
        PROVE  later[i].after <= later[j].after
    <3>1. e[i] < e[j]
      BY <1>2, <2>3 DEF Thinned
    <3>2. owed[e[i]].after <= owed[e[j]].after
      BY <1>3, <1>5, <1>6, <2>3, <3>1 DEF Queued
    <3> PICK x : x = owed[e[i]].after
      OBVIOUS
    <3> PICK y : y = owed[e[j]].after
      OBVIOUS
    <3>3. x \in Nat /\ y \in Nat /\ x <= y /\ later[i].after = x - n /\ later[j].after = y - n
      BY <1>2, <1>3, <1>5, <3>2
    <3>4. x - n <= y - n
      BY ONLY <1>1, <3>3
    <3> QED BY <3>3, <3>4
  <2> QED BY <2>2, <2>3 DEF Queued
<1>10. \A D : OwnOf(owed, D) => OwnOf(later, D)
  <2>1. \A j \in DOMAIN later : /\ e[j] \in DOMAIN owed /\ later[j].owed = owed[e[j]].owed
                                /\ later[j].own = owed[e[j]].own
    BY <1>2, <1>3, <1>5
  <2> QED BY <1>6, <2>1 DEF OwnOf
<1>11. ASSUME NEW k \in Nat PROVE (OthersBy(owed, k) => OthersBy(later, k - n)) /\ (AllBy(owed, k) => AllBy(later, k - n))
  <2>1. \A x \in Nat : x <= k => x - n <= k - n
    BY <1>1
  <2>2. \A j \in DOMAIN later : owed[e[j]].after \in Nat
    BY <1>3, <1>5
  <2> QED BY ZenonT(30), <1>2, <1>3, <1>5, <1>6, <2>1, <2>2 DEF OthersBy, AllBy
<1>12. AllBy(owed, n) => \A i \in DOMAIN later : ~IsWrite(later[i])
  BY <1>2, <1>3, <1>5, <1>6 DEF AllBy
<1> QED BY <1>4, <1>8, <1>9, <1>10, <1>11, <1>12

-----------------------------------------------------------------------------
(* The layout, as an event finds it and leaves it.                         *)

Early == {"preparing", "coalescing", "holding"}

FlightOK(f) ==
    /\ DOMAIN f = FlightFields
    /\ f.generation \in Nat /\ f.began \in Nat /\ f.at \in Nat /\ f.kind \in Kind
    /\ f.phase \in Early \cup {"mergeHeld", "playing"}
    /\ f.clock \in {"none", "running", "over", "overdue"} /\ (f.clock = "none" <=> f.phase \in Early)
    /\ f.zeroOwed \in Nat /\ f.asked \subseteq Window
    /\ f.ends \in Transfers(Place) /\ f.final \in Transfers(Place) /\ f.waits \in Transfers(Sort)
    /\ f.waiting \subseteq Window
    /\ DOMAIN f.since = DOMAIN f.ends /\ DOMAIN f.sentBy = DOMAIN f.ends
    /\ \/ f.merge = NoMerge
       \/ DOMAIN f.merge = {"passes", "generation", "at", "ends", "repainted"} /\ f.merge.passes \in Nat \ {0}

PassOK(p) ==
    /\ p.kind \in Kind /\ p.at \in Nat
    /\ p.ends \in Transfers(Place) /\ p.final \in Transfers(Place) /\ p.waits \in Transfers(Sort)
    /\ p.kind = "bounce" => DOMAIN p.final = {}

(* A flight's final frames are the engine's with those of the passes held  *)
(* after the n-th, the latest winning.                                     *)
FinalFrom(final, passes, n, first) ==
    \A w \in Window :
        \/ \E i \in DOMAIN passes :
             /\ i > n /\ w \in DOMAIN passes[i].final /\ w \in DOMAIN final /\ final[w] = passes[i].final[w]
             /\ \A j \in DOMAIN passes : j > i => w \notin DOMAIN passes[j].final
        \/ /\ \A j \in DOMAIN passes : j > n => w \notin DOMAIN passes[j].final
           /\ w \in DOMAIN final <=> w \in DOMAIN first
           /\ w \in DOMAIN final => final[w] = first[w]

Reached(s, w) == Reaches(s.re.written, s.en.owed, w, s.re.goal[w])

Typed(s) ==
    /\ s.re.written \in [Window -> Place] /\ s.re.goal \in [Window -> Place]
    /\ s.en.final \in Transfers(Place)
    /\ Queued(s.en.owed, s.en.shown)
    /\ \A i \in DOMAIN s.en.passes : PassOK(s.en.passes[i]) /\ s.en.passes[i].kind # "bounce"
    /\ Flying(s) => FlightOK(s.co.flight)

WaitsIn(s) ==
    LET f == s.co.flight
    IN  f.kind # "bounce" /\ f.phase \in {"coalescing", "holding", "mergeHeld"} => f.waiting \subseteq DOMAIN s.pics.watch

HeldUp(s) ==
    LET f == s.co.flight IN
    /\ f.phase = "mergeHeld" <=> s.en.passes # <<>>
    /\ f.merge = NoMerge <=> s.en.passes = <<>>
    /\ f.merge.passes = Len(s.en.passes)

(* What a flight places: its frames are where the layout has its windows;  *)
(* until it shows none of them is written, from then on all of them are.   *)
Layout(s) ==
    LET f == s.co.flight IN
    /\ OwnOf(s.en.owed, DOMAIN f.final)
    /\ FinalFrom(f.final, s.en.passes, 0, s.en.final)
    /\ f.kind = "bounce" => DOMAIN s.en.final = {}
    /\ \A w \in DOMAIN f.final : s.re.goal[w] = f.final[w]
    /\ \A w \in Window : f.phase # "preparing" \/ w \notin DOMAIN f.final => Reached(s, w)
    /\ f.phase = "preparing" => \A i \in DOMAIN s.en.owed : ~s.en.owed[i].own

Asking(s) == s.co.flight.phase = "preparing" => s.co.flight.zeroOwed # 0

Sound(s) ==
    /\ Typed(s)
    /\ Flying(s) => WaitsIn(s) /\ HeldUp(s) /\ Asking(s)
    /\ ~Flying(s) => s.pics.watch = Nothing /\ s.en.passes = <<>>

LaidOut(s) ==
    /\ Flying(s) => Layout(s)
    /\ ~Flying(s) => \A w \in Window : Reached(s, w)

(* The request heard last stays.                                           *)
Steady(t, s) == t.re.requests = s.re.requests /\ t.re.scenario = s.re.scenario

(* No earlier flight's write waits for a later batch.                      *)
NoneLater(t, s) == \A n : OthersBy(s.en.owed, n) => OthersBy(t.en.owed, n)

(* What the layout is made of, but for the flight.                         *)
Alike(t, s) ==
    /\ t.re.written = s.re.written /\ t.re.goal = s.re.goal
    /\ t.en.passes = s.en.passes /\ t.en.final = s.en.final /\ t.en.owed = s.en.owed /\ t.en.shown = s.en.shown
    /\ t.co.state = s.co.state /\ Steady(t, s)

SamePlan(g, f) == g.final = f.final /\ g.kind = f.kind /\ g.merge = f.merge

LEMMA WritesLaid ==
    ASSUME NEW s, Fit(s), NEW frames, frames \in Transfers(Place), Queued(s.en.owed, s.en.shown),
           s.re.written \in [Window -> Place], NEW t, t = Writes(s, frames)
    PROVE  /\ t.co = s.co /\ t.pics = s.pics
           /\ t.en.passes = s.en.passes /\ t.en.final = s.en.final /\ t.en.shown = s.en.shown
           /\ t.re.goal = s.re.goal /\ t.re.written \in [Window -> Place]
           /\ Queued(t.en.owed, t.en.shown)
           /\ \A w \in DOMAIN frames : Reaches(t.re.written, t.en.owed, w, frames[w])
           /\ \A w \in Window : \A p : w \notin DOMAIN frames /\ Reaches(s.re.written, s.en.owed, w, p)
                                       => Reaches(t.re.written, t.en.owed, w, p)
           /\ \A D : OwnOf(s.en.owed, D) /\ DOMAIN frames \subseteq D => OwnOf(t.en.owed, D)
           /\ NoneLater(t, s) /\ Steady(t, s)
           /\ \A n : s.en.shown <= n /\ AllBy(s.en.owed, n) => AllBy(t.en.owed, n)
<1> PICK owed : owed = s.en.owed
  OBVIOUS
<1>1. Sequence(owed) /\ (\A i \in DOMAIN owed : Effect(owed[i], Top(s))) /\ s.en.shown \in Nat /\ Top(s) \in Nat
  BY DEF Fit, OwedOK, Top
<1>2. CASE frames = Nothing
  <2>1. t = s
    BY <1>2 DEF Writes
  <2>2. DOMAIN frames = {}
    BY <1>2 DEF Nothing
  <2> QED BY <2>1, <2>2 DEF NoneLater, Steady
<1>3. CASE frames # Nothing /\ s.en.shown = 0
  <2>1. t = [s EXCEPT !.re.written = ExtendLatest(@, frames)]
    BY <1>3 DEF Writes, Owe, Carry, Write
  <2>2. /\ t.co = s.co /\ t.pics = s.pics /\ t.en = s.en /\ t.re.goal = s.re.goal /\ Steady(t, s)
        /\ t.re.written = ExtendLatest(s.re.written, frames)
    BY <2>1 DEF Fit, Shape, Steady
  <2>3. /\ t.re.written \in [Window -> Place]
        /\ \A w \in Window : t.re.written[w] = IF w \in DOMAIN frames THEN frames[w] ELSE s.re.written[w]
    <3> PICK was : was = s.re.written
      OBVIOUS
    <3>1. was \in [Window -> Place]
      OBVIOUS
    <3>2. /\ ExtendLatest(was, frames) \in [Window -> Place]
          /\ \A w \in Window : ExtendLatest(was, frames)[w] = IF w \in DOMAIN frames THEN frames[w] ELSE was[w]
      BY <3>1, OverlaidAll
    <3> QED BY <2>2, <3>2
  <2>4. \A i \in DOMAIN owed : ~IsWrite(owed[i])
    <3>1. \A i \in DOMAIN owed : owed[i].after \in Nat \ {0}
      BY <1>1 DEF Effect
    <3>2. \A i \in DOMAIN owed : IsWrite(owed[i]) => owed[i].after <= 0
      BY <1>3 DEF Queued
    <3> QED BY <3>1, <3>2
  <2>5. DOMAIN frames \subseteq Window
    BY DEF Transfers
  <2>6. \A w \in DOMAIN frames : Reaches(t.re.written, t.en.owed, w, frames[w])
    BY <2>2, <2>3, <2>4, <2>5 DEF Reaches, Moves
  <2>7. \A w \in Window : \A p : w \notin DOMAIN frames /\ Reaches(s.re.written, s.en.owed, w, p)
                                       => Reaches(t.re.written, t.en.owed, w, p)
    BY <2>2, <2>3 DEF Reaches
  <2> QED BY <2>2, <2>3, <2>6, <2>7 DEF NoneLater, Steady
<1>4. CASE frames # Nothing /\ s.en.shown # 0
  <2> PICK o : o = [after |-> s.en.shown, own |-> TRUE, owed |-> Write(frames)]
    OBVIOUS
  <2> PICK more : more = Append(owed, o)
    OBVIOUS
  <2>1. t = [s EXCEPT !.en.owed = more]
    BY <1>4 DEF Writes, Owe
  <2>2. /\ t.co = s.co /\ t.pics = s.pics /\ t.re = s.re /\ t.en.owed = more
        /\ t.en.passes = s.en.passes /\ t.en.final = s.en.final /\ t.en.shown = s.en.shown
    BY <2>1 DEF Fit, Shape
  <2>3. IsWrite(o) /\ o.after = s.en.shown /\ o.owed.frames = frames /\ o.own
    BY DEF IsWrite, Write
  <2> PICK shown : shown = s.en.shown
    OBVIOUS
  <2> PICK written : written = s.re.written
    OBVIOUS
  <2>4. /\ Queued(more, shown)
        /\ \A w \in DOMAIN frames : Reaches(written, more, w, frames[w])
        /\ \A w, p : w \notin DOMAIN frames /\ Reaches(written, owed, w, p) => Reaches(written, more, w, p)
        /\ \A D : OwnOf(owed, D) /\ DOMAIN frames \subseteq D => OwnOf(more, D)
        /\ \A n : OthersBy(owed, n) => OthersBy(more, n)
        /\ \A n : shown <= n /\ AllBy(owed, n) => AllBy(more, n)
    <3>1. shown \in Nat /\ Queued(owed, shown) /\ o.after = shown /\ o.owed.frames \in Transfers(Place)
      BY <1>1, <2>3
    <3> DEFINE moved == o.owed.frames
    <3>2. /\ Queued(more, shown)
          /\ \A w \in DOMAIN moved : Reaches(written, more, w, moved[w])
          /\ \A w, p : w \notin DOMAIN moved /\ Reaches(written, owed, w, p) => Reaches(written, more, w, p)
          /\ \A D : OwnOf(owed, D) /\ DOMAIN moved \subseteq D => OwnOf(more, D)
          /\ \A n : o.own /\ OthersBy(owed, n) => OthersBy(more, n)
          /\ \A n : shown <= n /\ AllBy(owed, n) => AllBy(more, n)
      <4>1. Sequence(owed) /\ IsWrite(o) /\ more = Append(owed, o)
        BY <1>1, <2>3
      <4> HIDE DEF moved
      <4> QED BY ONLY <3>1, <4>1, WriteAppended DEF moved
    <3> QED BY <2>3, <3>2
  <2> QED BY <2>2, <2>4 DEF NoneLater, Steady
<1> QED BY <1>2, <1>3, <1>4

LEMMA WatchesLaid ==
    ASSUME NEW s, Fit(s), NEW t, t = Watches(s)
    PROVE  /\ t.co = s.co /\ t.re = s.re /\ t.en = s.en
           /\ s.co.flight.kind # "bounce" => DOMAIN Awaiting(s.co.flight) \subseteq DOMAIN t.pics.watch
<1> DEFINE f == s.co.flight
           old == s.pics.watch
           Entry(w, set, place) ==
               [set |-> set, place |-> place, generation |-> f.generation,
                done |-> w \in DOMAIN old /\ old[w].set = set /\ old[w].place = place /\ old[w].done]
           awaiting == [w \in DOMAIN Awaiting(f) |-> Entry(w, "awaiting", Awaiting(f)[w])]
           landing  == [w \in DOMAIN Landing(f) |-> Entry(w, "landing", Landing(f)[w])]
           watch == ExtendLatest(landing, awaiting)
<1>1. t = IF f.kind = "bounce" THEN s ELSE [s EXCEPT !.pics.watch = watch]
  BY DEF Watches
<1>2. DOMAIN awaiting = DOMAIN Awaiting(f)
  OBVIOUS
<1> HIDE DEF awaiting, landing
<1>3. DOMAIN Awaiting(f) \subseteq DOMAIN watch
  BY <1>2 DEF ExtendLatest
<1> HIDE DEF watch
<1>4. CASE f.kind = "bounce"
  BY <1>1, <1>4
<1>5. CASE f.kind # "bounce"
  <2>1. t = [s EXCEPT !.pics.watch = watch]
    BY <1>1, <1>5
  <2>2. t.co = s.co /\ t.re = s.re /\ t.en = s.en /\ t.pics.watch = watch
    BY <2>1 DEF Fit, Shape
  <2> QED BY <1>3, <2>2
<1> QED BY <1>4, <1>5

WithFlight(s, f) == [s EXCEPT !.co.flight = f]

LEMMA FlightSet ==
    ASSUME NEW s, Fit(s), NEW f, NEW t, t = WithFlight(s, f)
    PROVE  Alike(t, s) /\ t.pics = s.pics /\ t.co.flight = f /\ (Flying(t) <=> Flying(s)) /\ t.co.generation = s.co.generation
<1>1. t.re = s.re /\ t.en = s.en /\ t.pics = s.pics /\ t.co.flight = f /\ t.co.state = s.co.state
      /\ t.co.generation = s.co.generation
  BY DEF Fit, Shape, WithFlight
<1> QED BY <1>1 DEF Alike, Steady, Flying

(* Another phase, clock or wait.                                           *)
Altered(g, f) ==
    DOMAIN g = FlightFields /\ \A k \in FlightFields \ {"phase", "clock", "waiting"} : g[k] = f[k]

LEMMA AlteredOK ==
    ASSUME NEW f, FlightOK(f), NEW g, Altered(g, f), g.phase \in Early \cup {"mergeHeld", "playing"},
           g.clock \in {"none", "running", "over", "overdue"}, g.clock = "none" <=> g.phase \in Early,
           g.waiting \subseteq Window
    PROVE  FlightOK(g) /\ SamePlan(g, f) /\ g.ends = f.ends /\ g.waits = f.waits /\ g.zeroOwed = f.zeroOwed
<1>1. /\ g.generation = f.generation /\ g.began = f.began /\ g.at = f.at /\ g.kind = f.kind
      /\ g.zeroOwed = f.zeroOwed /\ g.asked = f.asked /\ g.ends = f.ends /\ g.final = f.final
      /\ g.since = f.since /\ g.sentBy = f.sentBy /\ g.waits = f.waits /\ g.merge = f.merge
  BY DEF Altered, FlightFields
<1>2. DOMAIN g = FlightFields
  BY DEF Altered
<1> QED BY <1>1, <1>2 DEF FlightOK, SamePlan

LEMMA StartMovingLaid ==
    ASSUME NEW s, Fit(s), FlightOK(s.co.flight), NEW t, t = StartMoving(s)
    PROVE  LET f == s.co.flight
               g == t.co.flight
           IN  /\ Alike(t, s) /\ t.pics = s.pics /\ FlightOK(g) /\ SamePlan(g, f) /\ g.waiting = f.waiting
               /\ g.phase = IF f.clock = "none" THEN "playing" ELSE f.phase
               /\ g.ends = f.ends /\ g.waits = f.waits
<1> PICK f : f = s.co.flight
  OBVIOUS
<1>1. CASE f.clock # "none"
  <2>1. t = s
    BY <1>1 DEF StartMoving
  <2> QED BY <1>1, <2>1 DEF Alike, Steady, SamePlan
<1>2. CASE f.clock = "none"
  <2> PICK g : g = [f EXCEPT !.phase = "playing", !.clock = "running"]
    OBVIOUS
  <2>1. t = WithFlight(s, g)
    BY <1>2 DEF StartMoving, WithFlight
  <2>0. Altered(g, f) /\ g.phase = "playing" /\ g.clock = "running" /\ g.waiting = f.waiting
    BY DEF FlightOK, FlightFields, Altered
  <2>2. FlightOK(g) /\ SamePlan(g, f) /\ g.ends = f.ends /\ g.waits = f.waits
    <3>0. FlightOK(f)
      OBVIOUS
    <3>1. f.waiting \subseteq Window /\ "playing" \notin Early
      BY <3>0 DEF FlightOK, Early
    <3>2. /\ g.phase \in Early \cup {"mergeHeld", "playing"} /\ g.clock \in {"none", "running", "over", "overdue"}
          /\ (g.clock = "none" <=> g.phase \in Early) /\ g.waiting \subseteq Window /\ Altered(g, f)
      BY <2>0, <3>1
    <3> QED BY ONLY <3>0, <3>2, AlteredOK
  <2>3. Alike(t, s) /\ t.pics = s.pics /\ t.co.flight = g
    BY <2>1, FlightSet
  <2> QED BY <1>2, <2>0, <2>2, <2>3
<1> QED BY <1>1, <1>2

LEMMA HoldOrMoveLaid ==
    ASSUME NEW s, Fit(s), FlightOK(s.co.flight), s.co.flight.clock = "none", NEW t, t = HoldOrMove(s)
    PROVE  LET f == s.co.flight
               g == t.co.flight
           IN  /\ Alike(t, s) /\ t.pics = s.pics /\ FlightOK(g) /\ SamePlan(g, f) /\ g.waiting = f.waiting
               /\ g.phase \in {"holding", "playing"}
<1> PICK f : f = s.co.flight
  OBVIOUS
<1>1. CASE f.waiting = {}
  <2>1. t = StartMoving(s)
    BY <1>1 DEF HoldOrMove
  <2> QED BY <2>1, StartMovingLaid
<1>2. CASE f.waiting # {}
  <2> PICK g : g = [f EXCEPT !.phase = "holding"]
    OBVIOUS
  <2>1. t = WithFlight(s, g)
    BY <1>2 DEF HoldOrMove, Fit, Shape, WithFlight
  <2>0. Altered(g, f) /\ g.phase = "holding" /\ g.clock = "none" /\ g.waiting = f.waiting
    BY DEF FlightOK, FlightFields, Altered
  <2>2. FlightOK(g) /\ SamePlan(g, f)
    <3>0. FlightOK(f)
      OBVIOUS
    <3>1. f.waiting \subseteq Window /\ "holding" \in Early
      BY <3>0 DEF FlightOK, Early
    <3>2. /\ g.phase \in Early \cup {"mergeHeld", "playing"} /\ g.clock \in {"none", "running", "over", "overdue"}
          /\ (g.clock = "none" <=> g.phase \in Early) /\ g.waiting \subseteq Window /\ Altered(g, f)
      BY <2>0, <3>1
    <3> QED BY ONLY <3>0, <3>2, AlteredOK
  <2>3. Alike(t, s) /\ t.pics = s.pics /\ t.co.flight = g
    BY <2>1, FlightSet
  <2> QED BY <2>0, <2>2, <2>3
<1> QED BY <1>1, <1>2

LEMMA ExtendLaid ==
    ASSUME NEW s, Fit(s), FlightOK(s.co.flight), NEW t, t = Extend(s)
    PROVE  LET f == s.co.flight
               g == t.co.flight
           IN  /\ Alike(t, s) /\ t.pics = s.pics /\ FlightOK(g) /\ SamePlan(g, f) /\ g.waiting = f.waiting
               /\ g.phase = f.phase /\ g.zeroOwed = f.zeroOwed
<1> PICK f : f = s.co.flight
  OBVIOUS
<1>1. CASE f.clock \in {"none", "running"} \/ ~s.extends
  <2>1. t = s
    BY <1>1 DEF Extend
  <2> QED BY <2>1 DEF Alike, Steady, SamePlan
<1>2. CASE ~(f.clock \in {"none", "running"} \/ ~s.extends)
  <2> PICK g : g = [f EXCEPT !.clock = "running"]
    OBVIOUS
  <2>1. t = WithFlight(s, g)
    BY <1>2 DEF Extend, Fit, Shape, WithFlight
  <2>2. FlightOK(g) /\ SamePlan(g, f) /\ g.waiting = f.waiting /\ g.phase = f.phase /\ g.zeroOwed = f.zeroOwed
    BY <1>2 DEF FlightOK, FlightFields, SamePlan, Early
  <2>3. Alike(t, s) /\ t.pics = s.pics /\ t.co.flight = g
    BY <2>1, FlightSet
  <2> QED BY <2>2, <2>3
<1> QED BY <1>1, <1>2

LEMMA DrawsLaid ==
    ASSUME NEW s, Fit(s), NEW pics, NEW t, t = Draws(s, pics)
    PROVE  Alike(t, s) /\ t.pics = s.pics /\ t.co = s.co
<1> DEFINE f == s.co.flight
           swapped == { w \in DOMAIN pics :
                          /\ Takes(f, w, pics[w]) /\ ~Keeps(f, w)
                          /\ w \in DOMAIN s.en.delivered
                          /\ s.en.delivered[w].generation = pics[w].generation }
           posed   == IF swapped # {} /\ f.clock = "none" THEN Render(s, "stage") ELSE s
<1>1. t = [posed EXCEPT !.en.worn = [w \in Window |-> IF w \in swapped THEN s.en.delivered[w].taken ELSE @[w]],
                        !.en.delivered = Restrict(@, DOMAIN @ \ swapped)]
  BY DEF Draws
<1>2. posed \in {s, Render(s, "stage")}
  OBVIOUS
<1> HIDE DEF posed, swapped
<1>4. Shape(posed) /\ posed.co = s.co /\ posed.en = s.en /\ posed.pics = s.pics /\ posed.re = s.re
  BY <1>2 DEF Fit, Shape, Render
<1> DEFINE u == [posed EXCEPT !.en.worn = [w \in Window |-> IF w \in swapped THEN s.en.delivered[w].taken ELSE @[w]],
                               !.en.delivered = Restrict(@, DOMAIN @ \ swapped)]
<1>5. /\ u.co = posed.co /\ u.pics = posed.pics /\ u.re = posed.re
      /\ u.en.passes = posed.en.passes /\ u.en.final = posed.en.final
      /\ u.en.owed = posed.en.owed /\ u.en.shown = posed.en.shown
  <2> DEFINE e == u.en
  <2>1. /\ e.passes = posed.en.passes /\ e.final = posed.en.final /\ e.owed = posed.en.owed
        /\ e.shown = posed.en.shown
    BY <1>4 DEF Shape
  <2>2. u.co = posed.co /\ u.pics = posed.pics /\ u.re = posed.re
    BY <1>4 DEF Shape
  <2> HIDE DEF u
  <2> QED BY <2>1, <2>2
<1>6. t = u
  BY <1>1
<1> HIDE DEF u
<1> QED BY <1>4, <1>5, <1>6 DEF Alike, Steady

Same(t, s) == Alike(t, s) /\ t.co.flight = s.co.flight /\ t.pics.watch = s.pics.watch

LEMMA SameSound ==
    ASSUME NEW s, NEW t, Same(t, s)
    PROVE  /\ Sound(s) => Sound(t)
           /\ LaidOut(s) => LaidOut(t)
           /\ NoneLater(t, s) /\ Steady(t, s) /\ (Flying(t) <=> Flying(s))
<1>0. t.co.state = s.co.state /\ t.co.flight = s.co.flight /\ t.pics.watch = s.pics.watch /\ Steady(t, s)
      /\ t.re.written = s.re.written /\ t.re.goal = s.re.goal
      /\ t.en.passes = s.en.passes /\ t.en.final = s.en.final /\ t.en.owed = s.en.owed /\ t.en.shown = s.en.shown
  BY DEF Same, Alike
<1>1. Flying(t) <=> Flying(s)
  BY <1>0 DEF Flying
<1>2. Sound(s) => Sound(t)
  BY <1>0, <1>1 DEF Sound, Typed, WaitsIn, HeldUp, Asking
<1>3. \A w : Reached(s, w) <=> Reached(t, w)
  BY <1>0 DEF Reached
<1>4. LaidOut(s) => LaidOut(t)
  BY <1>0, <1>1, <1>3 DEF LaidOut, Layout
<1> QED BY <1>0, <1>1, <1>2, <1>4 DEF NoneLater

(* An event's operator keeps the layout: nothing it writes is lost.        *)
Goes(t, s) ==
    /\ Sound(t)
    /\ LaidOut(s) => LaidOut(t)
    /\ NoneLater(t, s) /\ Steady(t, s) /\ t.co.state = s.co.state

LEMMA GoesOn ==
    ASSUME NEW s, NEW t, NEW u, Goes(t, s), Goes(u, t) PROVE Goes(u, s)
  BY DEF Goes, NoneLater, Steady

(* The flight alone, in its phase, clock or wait.                          *)
LEMMA AlteredSound ==
    ASSUME NEW s, Typed(s), Flying(s), HeldUp(s), NEW t, Alike(t, s), t.pics = s.pics,
           FlightOK(t.co.flight), SamePlan(t.co.flight, s.co.flight),
           t.co.flight.phase = "mergeHeld" <=> s.co.flight.phase = "mergeHeld",
           WaitsIn(t), Asking(t)
    PROVE  /\ Sound(t) /\ NoneLater(t, s) /\ Steady(t, s) /\ t.co.state = s.co.state
           /\ (t.co.flight.phase = "preparing" <=> s.co.flight.phase = "preparing") /\ LaidOut(s) => LaidOut(t)
<1>0. t.co.state = s.co.state /\ t.pics.watch = s.pics.watch /\ Steady(t, s)
      /\ t.re.written = s.re.written /\ t.re.goal = s.re.goal
      /\ t.en.passes = s.en.passes /\ t.en.final = s.en.final /\ t.en.owed = s.en.owed /\ t.en.shown = s.en.shown
  BY DEF Alike
<1>1. Flying(t) <=> Flying(s)
  BY <1>0 DEF Flying
<1>4. t.co.flight.final = s.co.flight.final /\ t.co.flight.kind = s.co.flight.kind /\ t.co.flight.merge = s.co.flight.merge
  BY DEF SamePlan
<1>2. Sound(t)
  <2>1. Typed(t)
    BY <1>0, <1>1 DEF Typed
  <2>2. HeldUp(t)
    BY <1>0, <1>4 DEF HeldUp
  <2> QED BY <1>1, <2>1, <2>2 DEF Sound
<1>3. \A w : Reached(s, w) <=> Reached(t, w)
  BY <1>0 DEF Reached
<1>5. (t.co.flight.phase = "preparing" <=> s.co.flight.phase = "preparing") /\ LaidOut(s) => LaidOut(t)
  BY <1>0, <1>1, <1>3, <1>4 DEF LaidOut, Layout
<1> QED BY <1>0, <1>2, <1>5 DEF NoneLater

(* A flight no pass is held over, its windows placed.                      *)
LEMMA Placed ==
    ASSUME NEW t, Flying(t), t.re.written \in [Window -> Place], t.re.goal \in [Window -> Place],
           t.en.final \in Transfers(Place), Queued(t.en.owed, t.en.shown), t.en.passes = <<>>,
           FlightOK(t.co.flight), t.co.flight.phase \in {"coalescing", "holding", "playing"},
           t.co.flight.merge = NoMerge,
           t.co.flight.kind = "bounce" \/ t.co.flight.phase = "playing" \/ t.co.flight.waiting \subseteq DOMAIN t.pics.watch
    PROVE  /\ Sound(t)
           /\ /\ OwnOf(t.en.owed, DOMAIN t.co.flight.final)
              /\ DOMAIN t.co.flight.final = DOMAIN t.en.final
              /\ \A w \in DOMAIN t.en.final : t.co.flight.final[w] = t.en.final[w]
              /\ t.co.flight.kind = "bounce" => DOMAIN t.en.final = {}
              /\ \A w \in DOMAIN t.co.flight.final : t.re.goal[w] = t.co.flight.final[w]
              /\ \A w \in Window : Reached(t, w)
              => LaidOut(t)
<1> PICK f : f = t.co.flight
  OBVIOUS
<1>1. DOMAIN t.en.passes = {} /\ Len(t.en.passes) = 0
  OBVIOUS
<1>2. Typed(t)
  BY <1>1 DEF Typed
<1>3. f.merge.passes = 0
  BY DEF NoMerge
<1>4. WaitsIn(t) /\ HeldUp(t) /\ Asking(t)
  BY <1>1, <1>3 DEF WaitsIn, HeldUp, Asking
<1>5. Sound(t)
  BY <1>2, <1>4 DEF Sound
<1>6. ASSUME DOMAIN f.final = DOMAIN t.en.final, \A w \in DOMAIN t.en.final : f.final[w] = t.en.final[w]
      PROVE  FinalFrom(f.final, t.en.passes, 0, t.en.final)
  BY <1>1, <1>6 DEF FinalFrom
<1>7. f.phase # "preparing"
  OBVIOUS
<1> QED BY <1>5, <1>6, <1>7 DEF LaidOut, Layout

-----------------------------------------------------------------------------
(* What a flight shows, and the windows it waits for.                      *)

Shown(s) == [Render(s, "show") EXCEPT !.en.shown = Batch(s)]
WaitingFor(f, W) == [f EXCEPT !.waiting = W]
InPhase(f, p) == [f EXCEPT !.phase = p]

LEMMA ShowIs ==
    ASSUME NEW s, Fit(s), NEW f, f = s.co.flight, NEW t, t = Show(s),
           NEW wrote, f.kind = "bounce" => wrote = Shown(s), f.kind # "bounce" => wrote = Writes(Shown(s), f.final),
           NEW watched, watched = Watches(wrote), watched.co = s.co,
           NEW h, h = WaitingFor(f, Holdable(f)), NEW held, held = WithFlight(watched, h), DOMAIN held.co = DOMAIN s.co,
           DOMAIN held = DOMAIN s, held.co.flight = h
    PROVE  /\ f.kind = "pass" /\ Holdable(f) = {} => t = WithFlight(held, InPhase(h, "coalescing"))
           /\ ~(f.kind = "pass" /\ Holdable(f) = {}) => t = HoldOrMove(held)
<1> DEFINE flight == s.co.flight
           shown == [Render(s, "show") EXCEPT !.en.shown = Batch(s)]
           placed == IF flight.kind = "bounce" THEN shown ELSE Writes(shown, flight.final)
           seen == Watches(placed)
           asSeen == [seen EXCEPT !.co.flight.waiting = Holdable(flight)]
           asShown == [watched EXCEPT !.co.flight.waiting = Holdable(f)]
           asCoalescing == [asShown EXCEPT !.co.flight.phase = "coalescing"]
<1>a. t = IF flight.kind = "pass" /\ Holdable(flight) = {}
          THEN [asSeen EXCEPT !.co.flight.phase = "coalescing"] ELSE HoldOrMove(asSeen)
  BY DEF Show
<1>b. seen = watched
  <2>1. shown = Shown(s)
    BY DEF Shown
  <2> HIDE DEF shown
  <2>2. placed = wrote
    BY <2>1
  <2> QED BY <2>2
<1> HIDE DEF placed, seen
<1>c. asSeen = asShown
  BY <1>b
<1> HIDE DEF asSeen, asShown
<1>1. t = IF f.kind = "pass" /\ Holdable(f) = {} THEN asCoalescing ELSE HoldOrMove(asShown)
  BY <1>a, <1>c
<1>2. asShown = held
  BY DEF WithFlight, WaitingFor, asShown
<1>3. asCoalescing = WithFlight(held, InPhase(h, "coalescing"))
  <2>1. asCoalescing = [held EXCEPT !.co.flight.phase = "coalescing"]
    BY <1>2
  <2> HIDE DEF asCoalescing
  <2> QED BY <2>1 DEF WithFlight, InPhase
<1> HIDE DEF asCoalescing
<1> QED BY ONLY <1>1, <1>2, <1>3

(* What the overlay's batch is handed over with.                           *)
LEMMA ShownLaid ==
    ASSUME NEW s, Fit(s), Typed(s), NEW t, t = Shown(s)
    PROVE  /\ Fit(t) /\ t.co = s.co /\ t.pics = s.pics /\ t.re = s.re
           /\ t.en.passes = s.en.passes /\ t.en.final = s.en.final /\ t.en.owed = s.en.owed
           /\ Queued(t.en.owed, t.en.shown)
<1> PICK rendered : rendered = Render(s, "show")
  OBVIOUS
<1>1. /\ Fit(rendered) /\ rendered.co = s.co /\ rendered.en = s.en /\ rendered.pics = s.pics /\ rendered.re = s.re
      /\ rendered.before = s.before /\ rendered.batch # {}
  BY RenderAlong DEF Commands, Render, Fit, Shape
<1> DEFINE u == [rendered EXCEPT !.en.shown = Batch(s)]
<1>2. /\ DOMAIN u = DOMAIN rendered /\ u.co = rendered.co /\ u.pics = rendered.pics /\ u.re = rendered.re
      /\ u.before = rendered.before /\ u.batch = rendered.batch
      /\ DOMAIN u.en = DOMAIN rendered.en /\ u.en.shown = Batch(s)
      /\ u.en.passes = rendered.en.passes /\ u.en.final = rendered.en.final /\ u.en.owed = rendered.en.owed
  BY <1>1 DEF Fit, Shape
<1>3. t = u
  BY DEF Shown
<1> HIDE DEF u
<1>4. Batch(s) \in Nat /\ s.en.shown \in Nat /\ s.en.shown <= Batch(s) /\ Top(u) = Batch(s)
  BY <1>1, <1>2 DEF Fit, Top, Batch
<1>5. Fit(u)
  BY <1>1, <1>2, <1>4 DEF Fit, Shape, Top, Flying
<1>6. Queued(u.en.owed, u.en.shown)
  <2> PICK owed : owed = s.en.owed
    OBVIOUS
  <2>1. Queued(owed, s.en.shown)
    BY DEF Typed
  <2>2. \A i \in DOMAIN owed : owed[i].after \in Nat
    <3>1. Top(s) \in Nat
      BY DEF Fit, Top
    <3> QED BY <3>1 DEF Fit, OwedOK, Effect
  <2>3. \A i \in DOMAIN owed : IsWrite(owed[i]) => owed[i].after <= Batch(s)
    BY <1>4, <2>1, <2>2 DEF Queued
  <2>4. Queued(owed, Batch(s))
    BY <2>1, <2>3 DEF Queued
  <2> QED BY <1>1, <1>2, <2>4
<1> QED BY <1>1, <1>2, <1>3, <1>5, <1>6

LEMMA HoldableIn ==
    ASSUME NEW f, FlightOK(f)
    PROVE  Holdable(f) \subseteq DOMAIN Awaiting(f) /\ Holdable(f) \subseteq Window
<1>1. DOMAIN f.waits \subseteq Window
  BY DEF FlightOK, Transfers
<1> QED BY <1>1 DEF Holdable

(* The windows are written, watched, and the flight waits or moves.        *)
LEMMA ShowLaid ==
    ASSUME NEW s, Fit(s), Flying(s), Typed(s), HeldUp(s), s.co.flight.phase = "preparing", NEW t, t = Show(s)
    PROVE  Goes(t, s)
<1> PICK f : f = s.co.flight
  OBVIOUS
<1> PICK shown : shown = Shown(s)
  OBVIOUS
<1> PICK wrote : wrote = IF f.kind = "bounce" THEN shown ELSE Writes(shown, f.final)
  OBVIOUS
<1> PICK watched : watched = Watches(wrote)
  OBVIOUS
<1>1. FlightOK(f) /\ f.clock = "none" /\ f.phase = "preparing" /\ f.final \in Transfers(Place)
  BY DEF Typed, FlightOK, Early
<1>2. s.en.passes = <<>> /\ f.merge = NoMerge
  BY DEF HeldUp
<1>3. /\ Fit(shown) /\ shown.co = s.co /\ shown.pics = s.pics /\ shown.re = s.re
      /\ shown.en.passes = s.en.passes /\ shown.en.final = s.en.final /\ shown.en.owed = s.en.owed
      /\ Queued(shown.en.owed, shown.en.shown)
  BY ShownLaid
<1>4. /\ Fit(wrote) /\ wrote.co = s.co /\ wrote.re.goal = s.re.goal /\ Steady(wrote, s)
      /\ wrote.en.passes = s.en.passes /\ wrote.en.final = s.en.final
      /\ wrote.re.written \in [Window -> Place] /\ Queued(wrote.en.owed, wrote.en.shown)
      /\ NoneLater(wrote, s)
      /\ Layout(s) => OwnOf(wrote.en.owed, DOMAIN f.final) /\ \A w \in Window : Reached(wrote, w)
  <2>0. /\ shown.re.written \in [Window -> Place]
        /\ Layout(s) => OwnOf(shown.en.owed, DOMAIN f.final)
        /\ Layout(s) => \A w \in Window : w \notin DOMAIN f.final => Reached(shown, w)
    <3>1. Layout(s) => OwnOf(s.en.owed, DOMAIN f.final)
      BY DEF Layout
    <3> QED BY <1>3, <3>1 DEF Layout, Typed, Reached
  <2>1. CASE f.kind = "bounce"
    <3>1. wrote = shown
      BY <2>1
    <3>2. Layout(s) => DOMAIN f.final = {}
      <4>1. DOMAIN f.final \subseteq Window
        BY <1>1 DEF Transfers
      <4>2. Layout(s) => FinalFrom(f.final, <<>>, 0, s.en.final) /\ DOMAIN s.en.final = {}
        BY <1>2, <2>1 DEF Layout
      <4>3. DOMAIN <<>> = {}
        OBVIOUS
      <4> QED BY <4>1, <4>2, <4>3 DEF FinalFrom
    <3> QED BY <1>3, <2>0, <3>1, <3>2 DEF NoneLater, Steady, Typed
  <2>2. CASE f.kind # "bounce"
    <3>1. wrote = Writes(shown, f.final)
      BY <2>2
    <3>2. Fit(wrote)
      BY <1>3, <3>1, WritesAlong
    <3> PICK final : final = f.final
      OBVIOUS
    <3>3. /\ wrote.co = shown.co /\ wrote.re.goal = shown.re.goal /\ wrote.re.written \in [Window -> Place]
          /\ wrote.en.passes = shown.en.passes /\ wrote.en.final = shown.en.final
          /\ Queued(wrote.en.owed, wrote.en.shown) /\ NoneLater(wrote, shown) /\ Steady(wrote, shown)
          /\ \A w \in DOMAIN final : Reaches(wrote.re.written, wrote.en.owed, w, final[w])
          /\ \A w \in Window : \A p : w \notin DOMAIN final /\ Reaches(shown.re.written, shown.en.owed, w, p)
                                       => Reaches(wrote.re.written, wrote.en.owed, w, p)
          /\ \A D : OwnOf(shown.en.owed, D) /\ DOMAIN final \subseteq D => OwnOf(wrote.en.owed, D)
      <4>1. final \in Transfers(Place) /\ Fit(shown) /\ Queued(shown.en.owed, shown.en.shown)
            /\ shown.re.written \in [Window -> Place] /\ wrote = Writes(shown, final)
        BY <1>1, <1>3, <2>0, <3>1
      <4> QED BY ONLY <4>1, WritesLaid
    <3>4. ASSUME Layout(s) PROVE OwnOf(wrote.en.owed, DOMAIN f.final) /\ \A w \in Window : Reached(wrote, w)
      <4>1. OwnOf(wrote.en.owed, DOMAIN f.final)
        BY <2>0, <3>3, <3>4
      <4>2. \A w \in DOMAIN final : s.re.goal[w] = final[w]
        BY <3>4 DEF Layout
      <4>3. wrote.re.goal = s.re.goal /\ shown.re.goal = s.re.goal
        BY <1>3, <3>3
      <4>4. ASSUME NEW w \in Window PROVE Reached(wrote, w)
        <5>1. CASE w \in DOMAIN final
          <6>1. Reaches(wrote.re.written, wrote.en.owed, w, final[w])
            BY <3>3, <5>1
          <6>2. wrote.re.goal[w] = final[w]
            BY <4>2, <4>3, <5>1
          <6> QED BY <6>1, <6>2 DEF Reached
        <5>2. CASE w \notin DOMAIN final
          <6>1. Reaches(shown.re.written, shown.en.owed, w, shown.re.goal[w])
            BY <2>0, <3>4, <5>2 DEF Reached
          <6>2. Reaches(wrote.re.written, wrote.en.owed, w, shown.re.goal[w])
            BY <3>3, <5>2, <6>1
          <6> QED BY <4>3, <6>2 DEF Reached
        <5> QED BY <5>1, <5>2
      <4> QED BY <4>1, <4>4
    <3>5. NoneLater(wrote, s) /\ Steady(wrote, s)
      BY <1>3, <3>3 DEF NoneLater, Steady
    <3> QED BY <1>3, <3>2, <3>3, <3>4, <3>5
  <2> QED BY <2>1, <2>2
<1>5. /\ Fit(watched) /\ watched.co = s.co /\ watched.re = wrote.re /\ watched.en = wrote.en
      /\ f.kind # "bounce" => DOMAIN Awaiting(f) \subseteq DOMAIN watched.pics.watch
  <2>1. Fit(watched) /\ watched.co = wrote.co /\ watched.re = wrote.re /\ watched.en = wrote.en
        /\ (wrote.co.flight.kind # "bounce" => DOMAIN Awaiting(wrote.co.flight) \subseteq DOMAIN watched.pics.watch)
    BY ZenonT(30), <1>4, WatchesAlong, WatchesLaid
  <2>2. wrote.co = s.co /\ wrote.co.flight = f
    BY <1>4
  <2> QED BY ONLY <2>1, <2>2
<1> PICK h : h = WaitingFor(f, Holdable(f))
  OBVIOUS
<1> PICK held : held = WithFlight(watched, h)
  OBVIOUS
<1>6. Holdable(f) \subseteq DOMAIN Awaiting(f) /\ Holdable(f) \subseteq Window
  BY <1>1, HoldableIn
<1>7. h.phase = "preparing" /\ h.clock = "none" /\ h.waiting = Holdable(f) /\ Altered(h, f)
      /\ h.final = f.final /\ h.kind = f.kind /\ h.merge = f.merge /\ h.generation = f.generation
  <2>1. DOMAIN f = FlightFields
    BY <1>1 DEF FlightOK
  <2> QED BY <1>1, <2>1 DEF FlightFields, Altered, WaitingFor
<1>8. FlightOK(h)
  <2>1. h.phase \in Early \cup {"mergeHeld", "playing"} /\ h.clock \in {"none", "running", "over", "overdue"}
        /\ (h.clock = "none" <=> h.phase \in Early) /\ h.waiting \subseteq Window
    BY <1>6, <1>7 DEF Early
  <2> QED BY ONLY <1>1, <1>7, <2>1, AlteredOK
<1>9. Fit(held) /\ Alike(held, watched) /\ held.pics = watched.pics /\ held.co.flight = h /\ Flying(held)
  <2>1. Flying(watched) => DOMAIN h = FlightFields /\ h.generation = watched.co.generation
    <3>1. DOMAIN h = FlightFields /\ f.generation = s.co.generation
      BY <1>8 DEF FlightOK, Fit
    <3> QED BY <1>5, <1>7, <3>1
  <2>2. Fit(held)
    BY ONLY <1>5, <2>1, FlightAlong, held = WithFlight(watched, h) DEF WithFlight
  <2>3. Flying(watched)
    BY <1>5 DEF Flying
  <2>4. Fit(watched) /\ held = WithFlight(watched, h)
    BY <1>5
  <2> QED BY ONLY <2>2, <2>3, <2>4, FlightSet
<1>10. /\ f.kind = "pass" /\ Holdable(f) = {} => t = WithFlight(held, InPhase(h, "coalescing"))
       /\ ~(f.kind = "pass" /\ Holdable(f) = {}) => t = HoldOrMove(held)
  <2>1. DOMAIN held.co = DOMAIN s.co /\ DOMAIN held = DOMAIN s
    BY <1>9 DEF Fit, Shape
  <2>2. Fit(s) /\ f = s.co.flight /\ t = Show(s) /\ h = WaitingFor(f, Holdable(f)) /\ held = WithFlight(watched, h)
        /\ watched = Watches(wrote) /\ watched.co = s.co /\ held.co.flight = h
    BY <1>5, <1>9
  <2>3. (f.kind = "bounce" => wrote = Shown(s)) /\ (f.kind # "bounce" => wrote = Writes(Shown(s), f.final))
    OBVIOUS
  <2> QED BY ONLY <2>1, <2>2, <2>3, ShowIs
<1>11. /\ Alike(t, held) /\ t.pics = held.pics /\ FlightOK(t.co.flight) /\ SamePlan(t.co.flight, h)
       /\ t.co.flight.waiting = h.waiting /\ t.co.flight.phase \in {"coalescing", "holding", "playing"}
  <2>1. CASE f.kind = "pass" /\ Holdable(f) = {}
    <3> PICK g : g = InPhase(h, "coalescing")
      OBVIOUS
    <3>1. t = WithFlight(held, g)
      BY <1>10, <2>1
    <3>2. Altered(g, h) /\ g.phase = "coalescing" /\ g.clock = "none" /\ g.waiting = h.waiting
      BY <1>7, <1>8 DEF FlightOK, FlightFields, Altered, InPhase
    <3>3. g.phase \in Early \cup {"mergeHeld", "playing"} /\ g.clock \in {"none", "running", "over", "overdue"}
          /\ (g.clock = "none" <=> g.phase \in Early) /\ g.waiting \subseteq Window
      BY <1>6, <1>7, <3>2 DEF Early
    <3>4. FlightOK(g) /\ SamePlan(g, h)
      BY ONLY <1>8, <3>2, <3>3, AlteredOK
    <3>5. Alike(t, held) /\ t.pics = held.pics /\ t.co.flight = g
      <4>1. Fit(held)
        BY <1>9
      <4> QED BY ONLY <4>1, <3>1, FlightSet
    <3> QED BY <3>2, <3>4, <3>5
  <2>2. CASE ~(f.kind = "pass" /\ Holdable(f) = {})
    <3>1. t = HoldOrMove(held)
      BY <1>10, <2>2
    <3>0. Fit(held) /\ FlightOK(held.co.flight) /\ held.co.flight.clock = "none" /\ held.co.flight = h
      BY <1>7, <1>8, <1>9
    <3>2. /\ Alike(t, held) /\ t.pics = held.pics /\ FlightOK(t.co.flight) /\ SamePlan(t.co.flight, held.co.flight)
          /\ t.co.flight.waiting = held.co.flight.waiting /\ t.co.flight.phase \in {"holding", "playing"}
      BY ONLY <3>0, <3>1, HoldOrMoveLaid
    <3> QED BY <3>0, <3>2
  <2> QED BY <2>1, <2>2
<1> PICK g : g = t.co.flight
  OBVIOUS
<1>12. /\ t.re.written = wrote.re.written /\ t.re.goal = s.re.goal /\ t.en.passes = <<>>
       /\ t.en.final = s.en.final /\ t.en.owed = wrote.en.owed /\ t.en.shown = wrote.en.shown
       /\ t.co.state = s.co.state /\ t.pics = watched.pics
       /\ t.re.requests = s.re.requests /\ t.re.scenario = s.re.scenario
  <2>1. /\ t.re.written = held.re.written /\ t.re.goal = held.re.goal /\ t.en.passes = held.en.passes
        /\ t.en.final = held.en.final /\ t.en.owed = held.en.owed /\ t.en.shown = held.en.shown
        /\ t.co.state = held.co.state /\ t.pics = held.pics
        /\ t.re.requests = held.re.requests /\ t.re.scenario = held.re.scenario
    <3>1. Alike(t, held) /\ t.pics = held.pics
      BY <1>11
    <3> QED BY ONLY <3>1 DEF Alike, Steady
  <2>2. /\ held.re.written = watched.re.written /\ held.re.goal = watched.re.goal /\ held.en.passes = watched.en.passes
        /\ held.en.final = watched.en.final /\ held.en.owed = watched.en.owed /\ held.en.shown = watched.en.shown
        /\ held.co.state = watched.co.state /\ held.pics = watched.pics
        /\ held.re.requests = watched.re.requests /\ held.re.scenario = watched.re.scenario
    <3>1. Alike(held, watched) /\ held.pics = watched.pics
      BY <1>9
    <3> QED BY ONLY <3>1 DEF Alike, Steady
  <2>3. watched.co = s.co /\ watched.re = wrote.re /\ watched.en = wrote.en
    BY <1>5
  <2>4. /\ wrote.re.goal = s.re.goal /\ wrote.en.passes = <<>> /\ wrote.en.final = s.en.final
        /\ wrote.re.requests = s.re.requests /\ wrote.re.scenario = s.re.scenario
    BY <1>2, <1>4 DEF Steady
  <2> QED BY ONLY <2>1, <2>2, <2>3, <2>4
<1>13. g.final = f.final /\ g.kind = f.kind /\ g.merge = NoMerge /\ g.waiting = Holdable(f)
  BY <1>2, <1>7, <1>11 DEF SamePlan
<1>14. Flying(t) /\ s.re.goal \in [Window -> Place] /\ s.en.final \in Transfers(Place)
  BY <1>12 DEF Flying, Typed
<1>15. g.kind = "bounce" \/ g.waiting \subseteq DOMAIN t.pics.watch
  BY <1>5, <1>6, <1>12, <1>13
<1>16. /\ Sound(t)
       /\ /\ OwnOf(t.en.owed, DOMAIN g.final)
          /\ DOMAIN g.final = DOMAIN t.en.final
          /\ \A w \in DOMAIN t.en.final : g.final[w] = t.en.final[w]
          /\ g.kind = "bounce" => DOMAIN t.en.final = {}
          /\ \A w \in DOMAIN g.final : t.re.goal[w] = g.final[w]
          /\ \A w \in Window : Reached(t, w)
          => LaidOut(t)
  <2>1. /\ Flying(t) /\ t.re.written \in [Window -> Place] /\ t.re.goal \in [Window -> Place]
        /\ t.en.final \in Transfers(Place) /\ Queued(t.en.owed, t.en.shown) /\ t.en.passes = <<>>
        /\ FlightOK(t.co.flight) /\ t.co.flight.phase \in {"coalescing", "holding", "playing"}
        /\ t.co.flight.merge = NoMerge
        /\ t.co.flight.kind = "bounce" \/ t.co.flight.waiting \subseteq DOMAIN t.pics.watch
    BY <1>4, <1>11, <1>12, <1>13, <1>14, <1>15
  <2> QED BY <2>1, Placed
<1>17. ASSUME LaidOut(s) PROVE LaidOut(t)
  <2>1. Layout(s)
    BY <1>17 DEF LaidOut
  <2>2. OwnOf(t.en.owed, DOMAIN g.final)
    BY <1>4, <1>12, <1>13, <2>1
  <2>3. DOMAIN g.final = DOMAIN t.en.final /\ \A w \in DOMAIN t.en.final : g.final[w] = t.en.final[w]
    <3>1. FinalFrom(f.final, <<>>, 0, s.en.final)
      BY <1>2, <2>1 DEF Layout
    <3>2. DOMAIN f.final \subseteq Window /\ DOMAIN s.en.final \subseteq Window
      BY <1>1, <1>14 DEF Transfers
    <3>3. DOMAIN <<>> = {}
      OBVIOUS
    <3>4. \A w \in Window : (w \in DOMAIN f.final <=> w \in DOMAIN s.en.final) /\ (w \in DOMAIN f.final => f.final[w] = s.en.final[w])
      BY <3>1, <3>3 DEF FinalFrom
    <3> QED BY <1>12, <1>13, <3>2, <3>4
  <2>4. g.kind = "bounce" => DOMAIN t.en.final = {}
    BY <1>12, <1>13, <2>1 DEF Layout
  <2>5. \A w \in DOMAIN g.final : t.re.goal[w] = g.final[w]
    BY <1>12, <1>13, <2>1 DEF Layout
  <2>6. \A w \in Window : Reached(t, w)
    BY <1>4, <1>12, <2>1 DEF Reached
  <2> QED BY <1>16, <2>2, <2>3, <2>4, <2>5, <2>6
<1>18. NoneLater(t, s)
  BY <1>4, <1>12 DEF NoneLater
<1> QED BY <1>12, <1>16, <1>17, <1>18 DEF Goes, Steady

-----------------------------------------------------------------------------
(* The whole.                                                              *)

LEMMA Starts == Init => IInv /\ LandedOK /\ Contract!Init
<1> SUFFICES ASSUME Init PROVE IInv /\ LandedOK /\ Contract!Init
  OBVIOUS
<1> PICK now : now = Now
  OBVIOUS
<1>1. /\ renderer = [line |-> <<>>, answers |-> <<>>, made |-> FALSE, up |-> FALSE]
      /\ landed = <<>> /\ quiets = {}
  BY DEF Init
<1>2. RendererOK
  BY <1>1 DEF RendererOK
<1>3. Answered = 0 /\ HandedOver = 0
  BY <1>1 DEF Answered, HandedOver
<1>4. /\ DOMAIN now = {"co", "en", "pics", "re", "before", "batch", "extends"}
      /\ now.co = coordinator /\ now.en = engine /\ now.pics = pictures /\ now.re = reactor
      /\ now.before = 0 /\ now.batch = {}
  BY <1>3 DEF Now
<1>5. /\ DOMAIN coordinator = {"state", "generation", "settles", "flight"}
      /\ coordinator.state = "idle" /\ coordinator.generation = 0
  BY DEF Init
<1>6. /\ DOMAIN engine = {"passes", "final", "shown", "lifted", "lift", "quiet", "owed", "delivered", "worn"}
      /\ engine.passes = <<>> /\ engine.shown = 0 /\ engine.lift = <<>> /\ engine.quiet = 0 /\ engine.owed = <<>>
  BY DEF Init
<1>7. DOMAIN pictures = {"hold", "watch", "zeros"} /\ pictures.hold = "released"
  BY DEF Init
<1>8. DOMAIN reactor = {"goal", "written", "reported", "requests", "scenario"} /\ reactor.reported = FALSE
  BY DEF Init
<1>9. Sequence(<<>>) /\ OwedOK(<<>>, 0) /\ LiftOwed(<<>>) = {}
  BY DEF OwedOK, Sequence, LiftOwed
<1>10. Fit(now)
  BY <1>4, <1>5, <1>6, <1>7, <1>8, <1>9 DEF Fit, Shape, Top, Flying
<1>11. Covered
  BY <1>1 DEF Covered
<1>12. IInv
  <2>1. Stages
    BY <1>5, <1>6, <1>7, <1>8, <1>9, <1>11 DEF Stages, Resting
  <2> QED BY <1>1, <1>2, <1>10, <2>1 DEF IInv
<1>13. LandedOK
  BY <1>1, <1>9 DEF LandedOK
<1>14. Contract!Init
  BY <1>1, <1>7, <1>8 DEF Contract!Init
<1> QED BY <1>12, <1>13, <1>14

LEMMA Stutters == IInv /\ UNCHANGED vars => Kept
<1> SUFFICES ASSUME IInv, UNCHANGED vars PROVE Kept
  OBVIOUS
<1>1. /\ coordinator' = coordinator /\ engine' = engine /\ renderer' = renderer
      /\ pictures' = pictures /\ quiets' = quiets /\ reactor' = reactor
  BY DEF vars
<1>2. HandedOver' = HandedOver /\ Answered' = Answered
  BY <1>1 DEF HandedOver, Answered
<1>3. RendererOK'
  BY <1>1 DEF IInv, RendererOK
<1>4. Fit(Now)'
  <2> PICK now : now = Now'
    OBVIOUS
  <2>1. now = Now
    BY <1>1, <1>2 DEF Now
  <2>2. Fit(now)
    BY <2>1 DEF IInv
  <2>3. Fit(Now)' <=> Fit(now)
    BY DEF Fit, Shape, Top, Flying
  <2> QED BY <2>2, <2>3
<1>5. /\ \A n : NoShowFrom(n)' <=> NoShowFrom(n)
      /\ Down' <=> Down
      /\ Covered' <=> Covered
  BY <1>1 DEF NoShowFrom, Down, Covered
<1>6. \A n : DownAfter(n) => DownAfter(n)'
  BY <1>1, <1>2, <1>5 DEF DownAfter
<1>7. /\ Resting => Resting'
      /\ Aloft => Aloft'
      /\ Measured => Measured'
      /\ Quiet => Quiet'
  BY <1>1, <1>5 DEF Resting, Aloft, Measured, Quiet
<1>8. Lowered => Lowered'
  BY <1>1, <1>2, <1>6 DEF Lowered
<1>9. Stages'
  BY <1>1, <1>7, <1>8 DEF IInv, Stages
<1>10. Unseen
  BY <1>1 DEF Unseen
<1> QED BY <1>1, <1>3, <1>4, <1>9, <1>10, UnseenStutters DEF IInv, Kept

LEMMA StepKeeps == IInv /\ LandedOK /\ [Next]_vars => Kept
<1> SUFFICES ASSUME IInv, LandedOK, [Next]_vars PROVE Kept
  OBVIOUS
<1>1. ASSUME NEW r \in UNION Range(reactor.scenario.asks), RequestBegins(r) \/ RequestMerges(r) \/ RequestPushes(r)
      PROVE  Kept
  BY <1>1, RequestBeginsStep, RequestMergesStep, RequestPushesStep
<1>2. CASE Engine
  <2>1. ASSUME NEW g \in quiets, QuietRanOut(g) PROVE Kept
    BY <2>1, QuietRanOutStep
  <2> QED
    BY <1>2, <2>1, TickDueStep, ClockRunsStep, TickLiftsStep, LiftHeardStep, QuietDueStep,
       RenderedHeardStep, PicturesLandedStep DEF Engine
<1>3. CASE RendererDraws
  BY <1>3, RendererDrawsStep
<1>4. CASE FrameZeroTaken
  BY <1>4, FrameZeroTakenStep
<1>5. ASSUME NEW w \in Window, PictureTaken(w) \/ PictureLost(w) PROVE Kept
  BY <1>5, PictureStep
<1>6. CASE UNCHANGED vars
  BY <1>6, Stutters
<1> QED BY <1>1, <1>2, <1>3, <1>4, <1>5, <1>6 DEF Next

(* The stage of a flight, what its lift owes and after which batch, and    *)
(* what the renderer still has in line agree at every step: the inductive  *)
(* invariant the theorems below rest on.                                   *)
THEOREM FlightInv == Spec => [](IInv /\ LandedOK)
<1>1. IInv /\ LandedOK /\ [Next]_vars => (IInv /\ LandedOK)'
  BY StepKeeps, LandedStep DEF Kept
<1> QED BY <1>1, Starts, PTL DEF Spec

(* The pictures service is held while a flight is on and let go at rest,   *)
(* and the reactor believes a flight is on until then: a quiet of an       *)
(* earlier flight's that runs out late changes neither.                    *)
THEOREM HoldIsFollowed == Spec => []HoldFollows
<1>1. IInv => HoldFollows
  BY DEF IInv, Stages, Resting, Aloft, Measured, Lowered, Quiet, HoldFollows
<1> QED BY <1>1, FlightInv, PTL

(* Every step of the engine, the renderer and the pictures is one of the   *)
(* contract's, or changes nothing it is about: the overlay shows under the *)
(* transition's hold alone, and that settles only with the overlay down.   *)
THEOREM FlightKeepsContract == Spec => ImplementsContract
<1>1. IInv /\ LandedOK /\ [Next]_vars => [Contract!Next]_(Contract!vars)
  BY StepKeeps DEF Kept
<1>2. Init => Contract!Init
  BY Starts
<1> QED BY <1>1, <1>2, FlightInv, PTL DEF Spec, ImplementsContract, Contract!Spec

(* The contract is enough: Begins lets the screen's captures go before the *)
(* overlay can show, and Settles waits for it to be down.                  *)
THEOREM ContractClear == Contract!Spec => []Contract!Clear
<1>1. Contract!Init => Contract!Clear
  BY DEF Contract!Init, Contract!Clear, Contract!Hold
<1>2. Contract!Clear /\ [Contract!Next]_(Contract!vars) => Contract!Clear'
  <2> SUFFICES ASSUME Contract!Clear, [Contract!Next]_(Contract!vars) PROVE Contract!Clear'
    OBVIOUS
  <2>1. CASE Contract!Begins
    BY <2>1 DEF Contract!Begins, Contract!Clear, Contract!Hold
  <2>2. CASE Contract!Shows
    BY <2>2 DEF Contract!Shows, Contract!Clear, Contract!Hold
  <2>3. CASE Contract!Hides
    BY <2>3 DEF Contract!Hides, Contract!Clear, Contract!Hold
  <2>4. CASE Contract!Settles
    BY <2>4 DEF Contract!Settles, Contract!Clear, Contract!Hold
  <2>5. CASE Contract!Releases
    BY <2>5 DEF Contract!Releases, Contract!Clear, Contract!Hold
  <2>6. CASE UNCHANGED Contract!vars
    BY <2>6 DEF Contract!vars, Contract!Clear, Contract!Hold
  <2>7. QED
    BY <2>1, <2>2, <2>3, <2>4, <2>5, <2>6 DEF Contract!Next
<1>3. QED
  BY <1>1, <1>2, PTL DEF Contract!Spec

(* No picture of the bar is taken with the overlay over it: the hold       *)
(* settles only once the overlay is down, and no flight shows under it.    *)
THEOREM CapturedBare == Spec => []Contract!Clear
BY FlightKeepsContract, ContractClear, PTL DEF ImplementsContract

=============================================================================
