------------------------ MODULE FlightLayoutProofs -------------------------
(***************************************************************************)
(* The windows end where the layout has them, for every set of windows,    *)
(* places and scenarios: whatever a flight merges, holds, gives up or is   *)
(* late with, each window is written where the reactor last sent it, by    *)
(* what is written already, what is owed, or what the flight still places. *)
(*                                                                         *)
(* The argument: every operator an event is composed of keeps a record s   *)
(* of the engine's parts Sound (typed, the passes held counted) and        *)
(* LaidOut (both are FlightProofs'); the events are followed through      *)
(* them, and the renderer's answers, which drop what a failed flight owed, *)
(* find no write of an earlier flight's to drop (Heeds).                   *)
(***************************************************************************)
EXTENDS FlightProofs

-----------------------------------------------------------------------------
(* Merges.                                                                 *)

(* Merge, in the parts it is made of.                                      *)
Runs(s, pass) == ExtendLatest(s.en.final, pass.final)
Overtaken(f) == f.merge.passes > 1
MergedGeneration(s) == IF s.co.flight.phase = "preparing" THEN s.co.flight.generation ELSE s.co.generation + 1

Merged(s, pass) ==
    LET f == s.co.flight
        ends == ExtendLatest(f.ends, pass.ends)
    IN  [f EXCEPT
            !.generation = MergedGeneration(s), !.at = IF f.phase = "preparing" THEN @ ELSE pass.at,
            !.kind = pass.kind, !.ends = ends,
            !.final  = IF Overtaken(f) THEN @ ELSE Runs(s, pass),
            !.since  = EndedSince(f, ends, pass, MergedGeneration(s)),
            !.sentBy = SentBy(f, ends, pass),
            !.waits  = ExtendLatest(@, pass.waits),
            !.merge  = IF Overtaken(f) THEN [f.merge EXCEPT !.passes = @ - 1] ELSE NoMerge,
            !.clock  = IF f.clock # "none" /\ ends # f.ends THEN "running" ELSE @]

Joined(s, pass) ==
    s.co.flight.waiting \cup (IF s.co.flight.clock # "none" THEN {} ELSE Grows(pass) \cap Holdable(Merged(s, pass)))

MergedHolding(s, pass) ==
    IF s.co.flight.phase = "preparing" THEN Merged(s, pass)
    ELSE WaitingFor(Merged(s, pass), Joined(s, pass) \cap Holdable(Merged(s, pass)))

Composed(s, pass) ==
    [s EXCEPT !.en.final = Runs(s, pass), !.co.generation = MergedGeneration(s), !.co.flight = MergedHolding(s, pass)]

MergeWritten(s, pass) ==
    IF Overtaken(s.co.flight) THEN Composed(s, pass)
    ELSE Writes(Composed(s, pass), Changed(s.co.flight.final, Runs(s, pass)))

MergeFreed(s, pass) ==
    LET written == Watches(MergeWritten(s, pass))
        joined == Joined(s, pass)
    IN  IF s.co.flight.phase = "holding" /\ joined # {} /\ joined \cap Holdable(Merged(s, pass)) = {}
        THEN StartMoving(written) ELSE written

MergeDrawn(s, pass) ==
    LET f == s.co.flight
    IN  IF f.merge.passes = 1 THEN Draws(MergeFreed(s, pass), f.merge.repainted) ELSE MergeFreed(s, pass)

LEMMA MergeIs ==
    ASSUME NEW s, NEW pass
    PROVE  /\ s.co.flight.phase = "preparing" => Merge(s, pass) = AsksFrameZeroAgain(Composed(s, pass))
           /\ s.co.flight.phase # "preparing" => Merge(s, pass) \in {MergeDrawn(s, pass), Extend(MergeDrawn(s, pass))}
<1> DEFINE f         == s.co.flight
           preparing == f.phase = "preparing"
           flown     == f.clock # "none"
           overtaken == f.merge.passes > 1
           running   == ExtendLatest(s.en.final, pass.final)
           ends      == ExtendLatest(f.ends, pass.ends)
           moved     == flown /\ ends # f.ends
           generation == IF preparing THEN f.generation ELSE s.co.generation + 1
           merged    == [f EXCEPT
               !.generation = generation, !.at = IF preparing THEN @ ELSE pass.at,
               !.kind = pass.kind, !.ends = ends,
               !.final  = IF overtaken THEN @ ELSE running,
               !.since  = EndedSince(f, ends, pass, generation),
               !.sentBy = SentBy(f, ends, pass),
               !.waits  = ExtendLatest(@, pass.waits),
               !.merge  = IF overtaken THEN [f.merge EXCEPT !.passes = @ - 1] ELSE NoMerge,
               !.clock  = IF moved THEN "running" ELSE @]
           holdable  == Holdable(merged)
           joined    == f.waiting \cup (IF flown THEN {} ELSE Grows(pass) \cap holdable)
           g         == IF preparing THEN merged ELSE [merged EXCEPT !.waiting = joined \cap holdable]
           composed  == [s EXCEPT !.en.final = running, !.co.generation = generation, !.co.flight = g]
           wrote     == IF overtaken THEN composed ELSE Writes(composed, Changed(f.final, running))
           written   == Watches(wrote)
           freed     == IF f.phase = "holding" /\ joined # {} /\ joined \cap holdable = {}
                        THEN StartMoving(written) ELSE written
           drawn     == IF f.merge.passes = 1 THEN Draws(freed, f.merge.repainted) ELSE freed
<1>1. Merge(s, pass) = IF preparing THEN AsksFrameZeroAgain(composed)
                       ELSE IF flown /\ ~moved THEN Extend(drawn) ELSE drawn
  BY DEF Merge
<1>2. running = Runs(s, pass) /\ generation = MergedGeneration(s)
  BY DEF Runs, MergedGeneration
<1>3. merged = Merged(s, pass)
  BY DEF Merged, Runs, MergedGeneration, Overtaken
<1> HIDE DEF merged
<1>4. holdable = Holdable(Merged(s, pass))
  BY <1>3
<1> HIDE DEF holdable
<1>5. joined = Joined(s, pass)
  BY <1>4 DEF Joined
<1> HIDE DEF joined
<1>6. g = MergedHolding(s, pass)
  BY <1>3, <1>4, <1>5 DEF MergedHolding, WaitingFor
<1> HIDE DEF g, running, generation
<1>7. composed = Composed(s, pass)
  BY <1>2, <1>6 DEF Composed
<1> HIDE DEF composed
<1>8. wrote = MergeWritten(s, pass)
  BY <1>2, <1>7 DEF MergeWritten, Overtaken
<1> HIDE DEF wrote
<1>9. freed = MergeFreed(s, pass)
  BY <1>4, <1>5, <1>8 DEF MergeFreed
<1> HIDE DEF freed
<1>10. drawn = MergeDrawn(s, pass)
  BY <1>9 DEF MergeDrawn
<1> HIDE DEF drawn
<1> QED BY <1>1, <1>7, <1>10

(* The flight a pass is merged into.                                       *)
LEMMA MergedIs ==
    ASSUME NEW s, NEW f, f = s.co.flight, FlightOK(f), NEW pass, NEW g, g = Merged(s, pass)
    PROVE  /\ DOMAIN g = FlightFields
           /\ g.generation = MergedGeneration(s) /\ g.began = f.began
           /\ g.at = (IF f.phase = "preparing" THEN f.at ELSE pass.at)
           /\ g.kind = pass.kind /\ g.phase = f.phase
           /\ g.clock = (IF f.clock # "none" /\ ExtendLatest(f.ends, pass.ends) # f.ends THEN "running" ELSE f.clock)
           /\ g.zeroOwed = f.zeroOwed /\ g.asked = f.asked
           /\ g.ends = ExtendLatest(f.ends, pass.ends) /\ g.final = (IF Overtaken(f) THEN f.final ELSE Runs(s, pass))
           /\ g.since = EndedSince(f, g.ends, pass, MergedGeneration(s)) /\ g.sentBy = SentBy(f, g.ends, pass)
           /\ g.waits = ExtendLatest(f.waits, pass.waits) /\ g.waiting = f.waiting
           /\ g.merge = (IF Overtaken(f) THEN [f.merge EXCEPT !.passes = @ - 1] ELSE NoMerge)
<1>1. DOMAIN f = FlightFields
  BY DEF FlightOK
<1> QED BY <1>1 DEF Merged, FlightFields

LEMMA MergedOK ==
    ASSUME NEW s, Fit(s), NEW f, f = s.co.flight, FlightOK(f), f.generation = s.co.generation,
           NEW pass, PassOK(pass), Runs(s, pass) \in Transfers(Place), NEW h, h = MergedHolding(s, pass)
    PROVE  /\ FlightOK(h) /\ h.generation = MergedGeneration(s) /\ h.kind = pass.kind /\ h.phase = f.phase
           /\ h.zeroOwed = f.zeroOwed
           /\ h.final = (IF Overtaken(f) THEN f.final ELSE Runs(s, pass))
           /\ ~Overtaken(f) => h.merge = NoMerge
           /\ Overtaken(f) => h.merge # NoMerge /\ h.merge.passes = f.merge.passes - 1
           /\ f.phase # "preparing" => h.waiting \subseteq Holdable(h)
           /\ f.clock = "none" => h.clock = "none"
<1> PICK g : g = Merged(s, pass)
  OBVIOUS
<1>1. /\ DOMAIN g = FlightFields
      /\ g.generation = MergedGeneration(s) /\ g.began = f.began
      /\ g.at = (IF f.phase = "preparing" THEN f.at ELSE pass.at)
      /\ g.kind = pass.kind /\ g.phase = f.phase
      /\ g.clock = (IF f.clock # "none" /\ ExtendLatest(f.ends, pass.ends) # f.ends THEN "running" ELSE f.clock)
      /\ g.zeroOwed = f.zeroOwed /\ g.asked = f.asked
      /\ g.ends = ExtendLatest(f.ends, pass.ends) /\ g.final = (IF Overtaken(f) THEN f.final ELSE Runs(s, pass))
      /\ g.since = EndedSince(f, g.ends, pass, MergedGeneration(s)) /\ g.sentBy = SentBy(f, g.ends, pass)
      /\ g.waits = ExtendLatest(f.waits, pass.waits) /\ g.waiting = f.waiting
      /\ g.merge = (IF Overtaken(f) THEN [f.merge EXCEPT !.passes = @ - 1] ELSE NoMerge)
  BY MergedIs
<1>2. MergedGeneration(s) \in Nat
  BY DEF MergedGeneration, Fit, FlightOK
<1>3. g.ends \in Transfers(Place) /\ g.waits \in Transfers(Sort) /\ g.final \in Transfers(Place)
  <2>1. f.ends \in Transfers(Place) /\ f.waits \in Transfers(Sort) /\ f.final \in Transfers(Place)
    BY DEF FlightOK
  <2>2. pass.ends \in Transfers(Place) /\ pass.waits \in Transfers(Sort)
    BY DEF PassOK
  <2>3. ExtendLatest(f.ends, pass.ends) \in Transfers(Place)
    BY ONLY <2>1, <2>2, Overlaid
  <2>4. ExtendLatest(f.waits, pass.waits) \in Transfers(Sort)
    BY ONLY <2>1, <2>2, Overlaid
  <2> QED BY <1>1, <2>1, <2>3, <2>4
<1>4. DOMAIN g.since = DOMAIN g.ends /\ DOMAIN g.sentBy = DOMAIN g.ends
  BY <1>1 DEF EndedSince, SentBy
<1>5. /\ g.at \in Nat /\ g.kind \in Kind /\ g.began \in Nat /\ g.zeroOwed \in Nat /\ g.asked \subseteq Window
      /\ g.waiting \subseteq Window /\ g.phase \in Early \cup {"mergeHeld", "playing"}
  BY <1>1 DEF PassOK, FlightOK
<1>6. /\ g.clock \in {"none", "running", "over", "overdue"} /\ (g.clock = "none" <=> g.phase \in Early)
      /\ (f.clock = "none" => g.clock = "none")
  <2>1. f.clock \in {"none", "running", "over", "overdue"} /\ (f.clock = "none" <=> f.phase \in Early)
    BY DEF FlightOK
  <2>2. (g.clock = "running" /\ f.clock # "none") \/ g.clock = f.clock
    BY <1>1
  <2> QED BY <1>1, <2>1, <2>2
<1>7. /\ ~Overtaken(f) => g.merge = NoMerge
      /\ Overtaken(f) => /\ DOMAIN g.merge = {"passes", "generation", "at", "ends", "repainted"}
                         /\ g.merge.passes \in Nat \ {0} /\ g.merge.passes = f.merge.passes - 1
                         /\ g.merge # NoMerge
  <2>1. CASE ~Overtaken(f)
    BY <1>1, <2>1
  <2>2. CASE Overtaken(f)
    <3>1. DOMAIN f.merge = {"passes", "generation", "at", "ends", "repainted"} /\ f.merge.passes \in Nat /\ f.merge.passes > 1
      <4>1. f.merge.passes > 1 /\ NoMerge.passes = 0
        BY <2>2 DEF Overtaken, NoMerge
      <4> QED BY <4>1 DEF FlightOK
    <3>2. g.merge = [f.merge EXCEPT !.passes = @ - 1]
      BY <1>1, <2>2
    <3>3. DOMAIN g.merge = DOMAIN f.merge /\ g.merge.passes = f.merge.passes - 1
      BY <3>1, <3>2
    <3>4. "generation" \notin DOMAIN NoMerge
      BY DEF NoMerge
    <3> QED BY <2>2, <3>1, <3>3, <3>4
  <2> QED BY <2>1, <2>2
<1>8. FlightOK(g)
  BY <1>1, <1>2, <1>3, <1>4, <1>5, <1>6, <1>7 DEF FlightOK
<1>9. CASE f.phase = "preparing"
  <2>1. h = g
    BY <1>9 DEF MergedHolding
  <2> QED BY <1>1, <1>6, <1>7, <1>8, <1>9, <2>1
<1>10. CASE f.phase # "preparing"
  <2> PICK W : W = Joined(s, pass) \cap Holdable(g)
    OBVIOUS
  <2>1. h = WaitingFor(g, W)
    BY <1>10 DEF MergedHolding
  <2>2. W \subseteq Holdable(g) /\ Holdable(g) \subseteq Window
    BY <1>8, HoldableIn
  <2>3. Altered(h, g) /\ h.phase = g.phase /\ h.clock = g.clock /\ h.waiting = W
    BY <1>1, <2>1 DEF Altered, WaitingFor, FlightFields
  <2>4. /\ h.phase \in Early \cup {"mergeHeld", "playing"} /\ h.clock \in {"none", "running", "over", "overdue"}
        /\ (h.clock = "none" <=> h.phase \in Early) /\ h.waiting \subseteq Window
    BY <1>5, <1>6, <2>2, <2>3
  <2>5. FlightOK(h) /\ SamePlan(h, g) /\ h.ends = g.ends /\ h.waits = g.waits /\ h.zeroOwed = g.zeroOwed
    BY ONLY <1>8, <2>3, <2>4, AlteredOK
  <2>6. h.generation = g.generation
    BY <2>3 DEF Altered, FlightFields
  <2>7. h.final = g.final /\ h.kind = g.kind /\ h.merge = g.merge
    BY <2>5 DEF SamePlan
  <2>8. Holdable(h) = Holdable(g)
    BY <2>5, <2>7 DEF Holdable, Awaiting, HeldEnds
  <2> QED BY <1>1, <1>6, <1>7, <2>2, <2>3, <2>5, <2>6, <2>7, <2>8
<1> QED BY <1>9, <1>10

LEMMA AskedAgainLaid ==
    ASSUME NEW s, Fit(s), Flying(s), FlightOK(s.co.flight), s.co.flight.zeroOwed # 0, NEW t, t = AsksFrameZeroAgain(s)
    PROVE  /\ Alike(t, s) /\ t.pics.watch = s.pics.watch
           /\ FlightOK(t.co.flight) /\ SamePlan(t.co.flight, s.co.flight)
           /\ t.co.flight.phase = s.co.flight.phase /\ t.co.flight.waiting = s.co.flight.waiting
           /\ t.co.flight.zeroOwed # 0
<1> PICK f : f = s.co.flight
  OBVIOUS
<1> DEFINE unasked == { w \in DOMAIN f.ends \ f.asked : reactor.written[w] \in Seen }
           g == [f EXCEPT !.asked = @ \cup unasked, !.zeroOwed = @ + 1]
           u == [s EXCEPT !.co.flight = g, !.pics.zeros = Append(@, f.began)]
<1>1. t = IF unasked = {} THEN s
          ELSE [s EXCEPT !.co.flight.asked = @ \cup unasked, !.co.flight.zeroOwed = @ + 1,
                         !.pics.zeros = Append(@, f.began)]
  BY DEF AsksFrameZeroAgain
<1>2. unasked \subseteq Window
  BY DEF FlightOK, Transfers
<1> HIDE DEF unasked
<1>3. t = s \/ t = u
  <2>1. u = [s EXCEPT !.co.flight.asked = @ \cup unasked, !.co.flight.zeroOwed = @ + 1,
                      !.pics.zeros = Append(@, f.began)]
    BY DEF Fit, Shape
  <2> HIDE DEF u
  <2> QED BY <1>1, <2>1
<1>4. FlightOK(f) /\ f.zeroOwed \in Nat /\ f.zeroOwed # 0
  BY DEF FlightOK
<1>5. /\ DOMAIN g = FlightFields /\ g.asked = f.asked \cup unasked /\ g.zeroOwed = f.zeroOwed + 1
      /\ \A k \in FlightFields \ {"asked", "zeroOwed"} : g[k] = f[k]
  BY <1>4 DEF FlightOK, FlightFields
<1> HIDE DEF g
<1>6. FlightOK(g) /\ SamePlan(g, f) /\ g.phase = f.phase /\ g.waiting = f.waiting /\ g.zeroOwed # 0
  <2>1. /\ g.generation = f.generation /\ g.began = f.began /\ g.at = f.at /\ g.kind = f.kind
        /\ g.phase = f.phase /\ g.clock = f.clock /\ g.ends = f.ends /\ g.final = f.final
        /\ g.since = f.since /\ g.sentBy = f.sentBy /\ g.waits = f.waits /\ g.waiting = f.waiting /\ g.merge = f.merge
    BY <1>5 DEF FlightFields
  <2>2. g.zeroOwed \in Nat /\ g.zeroOwed # 0
    BY ONLY <1>4, <1>5
  <2>3. g.asked \subseteq Window
    BY <1>2, <1>4, <1>5 DEF FlightOK
  <2> QED BY <1>4, <1>5, <2>1, <2>2, <2>3 DEF FlightOK, SamePlan
<1>7. u.co.flight = g /\ u.co.state = s.co.state /\ u.en = s.en /\ u.re = s.re /\ u.pics.watch = s.pics.watch
  BY DEF Fit, Shape
<1> HIDE DEF u
<1>8. Alike(u, s)
  BY <1>7 DEF Alike, Steady
<1>9. Alike(s, s) /\ SamePlan(f, f)
  BY DEF Alike, Steady, SamePlan
<1> QED BY <1>3, <1>4, <1>6, <1>7, <1>8, <1>9

LEMMA ComposedIs ==
    ASSUME NEW s, Fit(s), NEW pass, NEW h, h = MergedHolding(s, pass), DOMAIN h = FlightFields,
           h.generation = MergedGeneration(s), h.generation \in Nat, NEW t, t = Composed(s, pass)
    PROVE  /\ Fit(t) /\ t.co.flight = h /\ t.co.state = s.co.state /\ t.co.generation = h.generation
           /\ t.pics = s.pics /\ t.re = s.re /\ t.en.final = Runs(s, pass)
           /\ t.en.passes = s.en.passes /\ t.en.owed = s.en.owed /\ t.en.shown = s.en.shown
<1> PICK running : running = Runs(s, pass)
  OBVIOUS
<1> PICK n : n = MergedGeneration(s)
  OBVIOUS
<1> DEFINE u == [s EXCEPT !.en.final = running, !.co.generation = n, !.co.flight = h]
<1>1. t = u
  BY DEF Composed
<1>2. /\ DOMAIN u = DOMAIN s /\ u.pics = s.pics /\ u.re = s.re
      /\ u.batch = s.batch /\ u.before = s.before
  BY DEF Fit, Shape
<1>3. /\ DOMAIN u.en = DOMAIN s.en /\ u.en.owed = s.en.owed /\ u.en.shown = s.en.shown
      /\ u.en.passes = s.en.passes /\ u.en.final = running
  BY DEF Fit, Shape
<1>4. /\ DOMAIN u.co = DOMAIN s.co /\ u.co.generation = n /\ u.co.flight = h
      /\ u.co.state = s.co.state
  BY DEF Fit, Shape
<1> HIDE DEF u
<1>5. Fit(u)
  BY <1>2, <1>3, <1>4 DEF Fit, Shape, Top, Flying
<1> QED BY <1>1, <1>2, <1>3, <1>4, <1>5

(* What follows a merge's writes changes no more than the phase and clock. *)
LEMMA MergeAfter ==
    ASSUME NEW s, NEW pass, s.co.flight.phase # "preparing", NEW t, t = Merge(s, pass),
           NEW wrote, wrote = MergeWritten(s, pass), Fit(wrote), NEW h, h = wrote.co.flight, FlightOK(h),
           h.phase = s.co.flight.phase
    PROVE  LET g == t.co.flight IN
           /\ Alike(t, wrote) /\ FlightOK(g) /\ SamePlan(g, h) /\ g.waiting = h.waiting /\ g.zeroOwed = h.zeroOwed
           /\ g.phase = h.phase \/ (h.phase = "holding" /\ g.phase = "playing")
           /\ h.kind # "bounce" => DOMAIN Awaiting(h) \subseteq DOMAIN t.pics.watch
<1> PICK watched : watched = Watches(wrote)
  OBVIOUS
<1>1. /\ Fit(watched) /\ watched.co = wrote.co /\ watched.re = wrote.re /\ watched.en = wrote.en
      /\ h.kind # "bounce" => DOMAIN Awaiting(h) \subseteq DOMAIN watched.pics.watch
  BY WatchesAlong, WatchesLaid
<1> PICK moved : moved = StartMoving(watched)
  OBVIOUS
<1> PICK freed : freed = MergeFreed(s, pass)
  OBVIOUS
<1>2. freed = watched \/ (h.phase = "holding" /\ freed = moved)
  BY DEF MergeFreed
<1>3. Alike(watched, wrote) /\ watched.co.flight = h
  BY <1>1 DEF Alike, Steady
<1>4. /\ Fit(freed) /\ Alike(freed, wrote) /\ freed.pics = watched.pics
      /\ FlightOK(freed.co.flight) /\ SamePlan(freed.co.flight, h)
      /\ freed.co.flight.waiting = h.waiting /\ freed.co.flight.zeroOwed = h.zeroOwed
      /\ freed.co.flight.phase = h.phase \/ (h.phase = "holding" /\ freed.co.flight.phase = "playing")
  <2>1. CASE freed = watched
    BY <1>1, <1>3, <2>1 DEF SamePlan
  <2>2. CASE h.phase = "holding" /\ freed = moved
    <3>1. h.clock = "none"
      BY <2>2 DEF FlightOK, Early
    <3>2. Fit(moved)
      BY <1>1, StartMovingAlong
    <3>3. /\ Alike(moved, watched) /\ moved.pics = watched.pics /\ FlightOK(moved.co.flight)
          /\ SamePlan(moved.co.flight, h) /\ moved.co.flight.waiting = h.waiting
          /\ moved.co.flight.phase = "playing"
      <4>1. Fit(watched) /\ FlightOK(watched.co.flight) /\ watched.co.flight = h /\ moved = StartMoving(watched)
        BY <1>1, <1>3
      <4> QED BY ONLY <3>1, <4>1, StartMovingLaid
    <3>4. moved.co.flight.zeroOwed = h.zeroOwed
      <4> DEFINE p == [h EXCEPT !.phase = "playing", !.clock = "running"]
      <4>1. moved = WithFlight(watched, p)
        BY <1>3, <3>1 DEF StartMoving, WithFlight
      <4>2. p.zeroOwed = h.zeroOwed
        BY DEF FlightOK, FlightFields
      <4> HIDE DEF p
      <4>3. moved.co.flight = p
        BY <1>1, <4>1, FlightSet
      <4> QED BY <4>2, <4>3
    <3>5. Alike(moved, wrote)
      BY <1>3, <3>3 DEF Alike, Steady
    <3> QED BY <2>2, <3>2, <3>3, <3>4, <3>5
  <2> QED BY <1>2, <2>1, <2>2
<1> PICK f : f = s.co.flight
  OBVIOUS
<1> PICK drawn : drawn = MergeDrawn(s, pass)
  OBVIOUS
<1>5. drawn = freed \/ drawn = Draws(freed, f.merge.repainted)
  BY DEF MergeDrawn
<1>6. Fit(drawn) /\ Alike(drawn, freed) /\ drawn.pics = freed.pics /\ drawn.co = freed.co
  <2>1. CASE drawn = freed
    BY <1>4, <2>1 DEF Alike, Steady
  <2>2. CASE drawn = Draws(freed, f.merge.repainted)
    <3> PICK pics : pics = f.merge.repainted
      OBVIOUS
    <3>1. drawn = Draws(freed, pics)
      BY <2>2
    <3> QED BY <1>4, <3>1, DrawsAlong, DrawsLaid
  <2> QED BY <1>5, <2>1, <2>2
<1> PICK extended : extended = Extend(drawn)
  OBVIOUS
<1>7. t = drawn \/ t = extended
  BY MergeIs
<1>8. /\ Alike(t, drawn) /\ t.pics = drawn.pics /\ FlightOK(t.co.flight)
      /\ SamePlan(t.co.flight, drawn.co.flight)
      /\ t.co.flight.waiting = drawn.co.flight.waiting /\ t.co.flight.phase = drawn.co.flight.phase
      /\ t.co.flight.zeroOwed = drawn.co.flight.zeroOwed
  <2>0. FlightOK(drawn.co.flight)
    BY <1>4, <1>6
  <2>1. CASE t = drawn
    BY <2>0, <2>1 DEF Alike, Steady, SamePlan
  <2>2. CASE t = extended
    BY <1>6, <2>0, <2>2, ExtendLaid
  <2> QED BY <1>7, <2>1, <2>2
<1>9. Alike(t, wrote)
  BY <1>4, <1>6, <1>8 DEF Alike, Steady
<1>10. SamePlan(t.co.flight, h)
  BY <1>4, <1>6, <1>8 DEF SamePlan
<1> QED BY <1>1, <1>4, <1>6, <1>8, <1>9, <1>10

(* A pass merged before the flight shows: nothing is written yet.          *)
LEMMA MergeEarly ==
    ASSUME NEW s, Fit(s), Flying(s), Typed(s), HeldUp(s), s.co.flight.phase = "preparing", s.co.flight.zeroOwed # 0,
           NEW pass, PassOK(pass), NEW running, running = Runs(s, pass), pass.kind = "bounce" => DOMAIN running = {},
           NEW t, t = Merge(s, pass)
    PROVE  /\ Sound(t) /\ NoneLater(t, s) /\ Steady(t, s) /\ t.co.state = s.co.state
           /\ /\ \A i \in DOMAIN s.en.owed : ~s.en.owed[i].own
              /\ \A w \in DOMAIN running : s.re.goal[w] = running[w]
              /\ \A w \in Window : w \notin DOMAIN running => Reached(s, w)
              => LaidOut(t)
<1> PICK f : f = s.co.flight
  OBVIOUS
<1> PICK h : h = MergedHolding(s, pass)
  OBVIOUS
<1> PICK composed : composed = Composed(s, pass)
  OBVIOUS
<1>1. FlightOK(f) /\ f.generation = s.co.generation /\ f.generation \in Nat
  BY DEF Typed, Fit, FlightOK
<1>2. running \in Transfers(Place)
  <2>1. s.en.final \in Transfers(Place) /\ pass.final \in Transfers(Place)
    BY DEF Typed, PassOK
  <2> QED BY <2>1, Overlaid DEF Runs
<1>3. s.en.passes = <<>> /\ f.merge = NoMerge /\ ~Overtaken(f)
  BY DEF HeldUp, Overtaken, NoMerge
<1>4. /\ FlightOK(h) /\ h.generation = MergedGeneration(s) /\ h.kind = pass.kind /\ h.phase = "preparing"
      /\ h.zeroOwed = f.zeroOwed /\ h.final = running /\ h.merge = NoMerge
  BY <1>1, <1>2, <1>3, MergedOK
<1>5. MergedGeneration(s) \in Nat /\ DOMAIN h = FlightFields
  BY <1>1, <1>4 DEF MergedGeneration, FlightOK
<1>6. /\ Fit(composed) /\ composed.co.flight = h /\ composed.co.state = s.co.state
      /\ composed.pics = s.pics /\ composed.re = s.re /\ composed.en.final = running
      /\ composed.en.passes = s.en.passes /\ composed.en.owed = s.en.owed /\ composed.en.shown = s.en.shown
  <2>1. Fit(s) /\ h = MergedHolding(s, pass) /\ DOMAIN h = FlightFields /\ h.generation = MergedGeneration(s)
        /\ h.generation \in Nat /\ composed = Composed(s, pass)
    BY <1>4, <1>5
  <2> QED BY ONLY <2>1, ComposedIs, running = Runs(s, pass)
<1>7. t = AsksFrameZeroAgain(composed)
  BY MergeIs
<1>8. Flying(composed)
  BY <1>6 DEF Flying
<1>9. /\ Alike(t, composed) /\ FlightOK(t.co.flight) /\ SamePlan(t.co.flight, h)
      /\ t.co.flight.phase = "preparing" /\ t.co.flight.zeroOwed # 0
  <2>1. Fit(composed) /\ Flying(composed) /\ FlightOK(composed.co.flight) /\ composed.co.flight.zeroOwed # 0
        /\ composed.co.flight = h /\ h.phase = "preparing"
    BY <1>4, <1>6, <1>8
  <2> QED BY ONLY <1>7, <2>1, AskedAgainLaid
<1> PICK g : g = t.co.flight
  OBVIOUS
<1>10. /\ t.re.written = s.re.written /\ t.re.goal = s.re.goal /\ t.en.passes = <<>> /\ t.en.final = running
       /\ t.en.owed = s.en.owed /\ t.en.shown = s.en.shown /\ t.co.state = s.co.state
       /\ t.re.requests = s.re.requests /\ t.re.scenario = s.re.scenario
  BY <1>3, <1>6, <1>9 DEF Alike, Steady
<1>11. g.final = running /\ g.kind = pass.kind /\ g.merge = NoMerge
  BY <1>4, <1>9 DEF SamePlan
<1>12. DOMAIN <<>> = {} /\ Len(<<>>) = 0 /\ NoMerge.passes = 0
  BY DEF NoMerge
<1>13. Sound(t)
  <2>1. Typed(t)
    BY <1>2, <1>9, <1>10, <1>12 DEF Typed
  <2>2. WaitsIn(t) /\ HeldUp(t) /\ Asking(t)
    BY <1>9, <1>10, <1>11, <1>12 DEF WaitsIn, HeldUp, Asking
  <2>3. Flying(t)
    BY <1>10 DEF Flying
  <2> QED BY <2>1, <2>2, <2>3 DEF Sound
<1>14. ASSUME \A i \in DOMAIN s.en.owed : ~s.en.owed[i].own, \A w \in DOMAIN running : s.re.goal[w] = running[w],
              \A w \in Window : w \notin DOMAIN running => Reached(s, w)
       PROVE  LaidOut(t)
  <2>1. OwnOf(t.en.owed, DOMAIN g.final)
    BY <1>10, <1>14 DEF OwnOf
  <2>2. FinalFrom(g.final, t.en.passes, 0, t.en.final)
    BY <1>10, <1>11, <1>12 DEF FinalFrom
  <2>3. \A w : Reached(s, w) <=> Reached(t, w)
    BY <1>10 DEF Reached
  <2>4. Layout(t)
    BY <1>9, <1>10, <1>11, <1>14, <2>1, <2>2, <2>3 DEF Layout
  <2>5. Flying(t)
    BY <1>10 DEF Flying
  <2> QED BY <2>4, <2>5 DEF LaidOut
<1> QED BY <1>10, <1>13, <1>14 DEF NoneLater, Steady

(* The pass merged moves what it changes, once the flight has shown.       *)
LEMMA MergeLast ==
    ASSUME NEW s, Fit(s), Flying(s), Typed(s), s.en.passes = <<>>,
           s.co.flight.phase \in {"coalescing", "holding", "playing"}, ~Overtaken(s.co.flight),
           NEW pass, PassOK(pass), pass.kind # "bounce", NEW running, running = Runs(s, pass), NEW t, t = Merge(s, pass)
    PROVE  /\ Sound(t) /\ NoneLater(t, s) /\ Steady(t, s) /\ t.co.state = s.co.state
           /\ /\ OwnOf(s.en.owed, DOMAIN s.co.flight.final) /\ DOMAIN s.co.flight.final \subseteq DOMAIN running
              /\ \A w \in DOMAIN running : s.re.goal[w] = running[w]
              /\ \A w \in Window : w \notin DOMAIN Changed(s.co.flight.final, running) => Reached(s, w)
              => LaidOut(t)
<1> PICK f : f = s.co.flight
  OBVIOUS
<1> PICK h : h = MergedHolding(s, pass)
  OBVIOUS
<1> PICK composed : composed = Composed(s, pass)
  OBVIOUS
<1> PICK frames : frames = Changed(f.final, running)
  OBVIOUS
<1> PICK wrote : wrote = Writes(composed, frames)
  OBVIOUS
<1>1. FlightOK(f) /\ f.generation = s.co.generation /\ f.generation \in Nat /\ ~Overtaken(f) /\ f.phase # "preparing"
  BY DEF Typed, Fit, FlightOK
<1>2. running \in Transfers(Place)
  <2>1. s.en.final \in Transfers(Place) /\ pass.final \in Transfers(Place)
    BY DEF Typed, PassOK
  <2> QED BY <2>1, Overlaid DEF Runs
<1>3. /\ FlightOK(h) /\ h.generation = MergedGeneration(s) /\ h.kind = pass.kind /\ h.phase = f.phase
      /\ h.final = running /\ h.merge = NoMerge /\ h.waiting \subseteq Holdable(h)
  BY <1>1, <1>2, MergedOK
<1>4. MergedGeneration(s) \in Nat /\ DOMAIN h = FlightFields
  BY <1>1, <1>3 DEF MergedGeneration, FlightOK
<1>5. /\ Fit(composed) /\ composed.co.flight = h /\ composed.co.state = s.co.state
      /\ composed.pics = s.pics /\ composed.re = s.re /\ composed.en.final = running
      /\ composed.en.passes = s.en.passes /\ composed.en.owed = s.en.owed /\ composed.en.shown = s.en.shown
  <2>1. Fit(s) /\ h = MergedHolding(s, pass) /\ DOMAIN h = FlightFields /\ h.generation = MergedGeneration(s)
        /\ h.generation \in Nat /\ composed = Composed(s, pass)
    BY <1>3, <1>4
  <2> QED BY ONLY <2>1, ComposedIs, running = Runs(s, pass)
<1>6. frames \in Transfers(Place) /\ DOMAIN frames \subseteq DOMAIN running /\ \A w \in DOMAIN frames : frames[w] = running[w]
  <2> DEFINE W == { w \in DOMAIN running : w \notin DOMAIN f.final \/ f.final[w] # running[w] }
  <2>1. frames = Restrict(running, W) /\ W \subseteq DOMAIN running
    BY DEF Changed
  <2> HIDE DEF W
  <2> QED BY <1>2, <2>1, Restricted
<1>7. /\ wrote.co = composed.co
      /\ wrote.en.passes = composed.en.passes /\ wrote.en.final = composed.en.final
      /\ wrote.re.goal = composed.re.goal /\ wrote.re.written \in [Window -> Place]
      /\ Queued(wrote.en.owed, wrote.en.shown)
      /\ \A w \in DOMAIN frames : Reaches(wrote.re.written, wrote.en.owed, w, frames[w])
      /\ \A w \in Window : \A p : w \notin DOMAIN frames /\ Reaches(composed.re.written, composed.en.owed, w, p)
                                   => Reaches(wrote.re.written, wrote.en.owed, w, p)
      /\ \A D : OwnOf(composed.en.owed, D) /\ DOMAIN frames \subseteq D => OwnOf(wrote.en.owed, D)
      /\ NoneLater(wrote, composed) /\ Steady(wrote, composed)
  <2>1. Fit(composed) /\ frames \in Transfers(Place) /\ Queued(composed.en.owed, composed.en.shown)
        /\ composed.re.written \in [Window -> Place] /\ wrote = Writes(composed, frames)
    BY <1>5, <1>6 DEF Typed
  <2> QED BY ONLY <2>1, WritesLaid
<1>8. Fit(wrote) /\ wrote.co.flight = h
  <2>1. Fit(wrote)
    BY <1>5, WritesAlong
  <2> QED BY <1>5, <1>7, <2>1
<1>9. wrote = MergeWritten(s, pass)
  BY <1>1 DEF MergeWritten
<1> PICK g : g = t.co.flight
  OBVIOUS
<1>10. /\ Alike(t, wrote) /\ FlightOK(g) /\ SamePlan(g, h) /\ g.waiting = h.waiting
       /\ g.phase = h.phase \/ (h.phase = "holding" /\ g.phase = "playing")
       /\ h.kind # "bounce" => DOMAIN Awaiting(h) \subseteq DOMAIN t.pics.watch
  <2>1. s.co.flight.phase # "preparing" /\ h = wrote.co.flight /\ h.phase = s.co.flight.phase
    BY <1>1, <1>3, <1>8
  <2> QED BY ONLY <1>3, <1>8, <1>9, <2>1, MergeAfter, t = Merge(s, pass), g = t.co.flight
<1>11. /\ t.re.written = wrote.re.written /\ t.re.goal = s.re.goal /\ t.en.passes = <<>> /\ t.en.final = running
       /\ t.en.owed = wrote.en.owed /\ t.en.shown = wrote.en.shown /\ t.co.state = s.co.state
       /\ t.re.requests = s.re.requests /\ t.re.scenario = s.re.scenario
  <2>1. /\ t.re.written = wrote.re.written /\ t.re.goal = wrote.re.goal /\ t.co.state = wrote.co.state
        /\ t.re.requests = wrote.re.requests /\ t.re.scenario = wrote.re.scenario
        /\ t.en.passes = wrote.en.passes /\ t.en.owed = wrote.en.owed /\ t.en.shown = wrote.en.shown
        /\ t.en.final = wrote.en.final
    BY <1>10 DEF Alike, Steady
  <2>2. wrote.re.requests = s.re.requests /\ wrote.re.scenario = s.re.scenario
    BY <1>5, <1>7 DEF Steady
  <2>3. /\ wrote.re.goal = composed.re.goal /\ wrote.co = composed.co
        /\ wrote.en.passes = composed.en.passes /\ wrote.en.final = composed.en.final
    BY <1>7
  <2> QED BY ONLY <1>5, <2>1, <2>2, <2>3, s.en.passes = <<>>
<1>12. g.final = running /\ g.kind = pass.kind /\ g.merge = NoMerge
  BY <1>3, <1>10 DEF SamePlan
<1>13. g.waiting \subseteq DOMAIN t.pics.watch
  <2>1. Holdable(h) \subseteq DOMAIN Awaiting(h)
    BY <1>3, HoldableIn
  <2> QED BY <1>3, <1>10, <2>1
<1>14. /\ Sound(t)
       /\ /\ OwnOf(t.en.owed, DOMAIN g.final)
          /\ DOMAIN g.final = DOMAIN t.en.final
          /\ \A w \in DOMAIN t.en.final : g.final[w] = t.en.final[w]
          /\ g.kind = "bounce" => DOMAIN t.en.final = {}
          /\ \A w \in DOMAIN g.final : t.re.goal[w] = g.final[w]
          /\ \A w \in Window : Reached(t, w)
          => LaidOut(t)
  <2>1. Flying(t) /\ s.re.goal \in [Window -> Place]
    BY <1>11 DEF Flying, Typed
  <2>2. g.phase \in {"coalescing", "holding", "playing"}
    BY <1>3, <1>10
  <2>3. /\ Flying(t) /\ t.re.written \in [Window -> Place] /\ t.re.goal \in [Window -> Place]
        /\ t.en.final \in Transfers(Place) /\ Queued(t.en.owed, t.en.shown) /\ t.en.passes = <<>>
        /\ FlightOK(t.co.flight) /\ t.co.flight.phase \in {"coalescing", "holding", "playing"}
        /\ t.co.flight.merge = NoMerge
        /\ t.co.flight.kind = "bounce" \/ t.co.flight.phase = "playing" \/ t.co.flight.waiting \subseteq DOMAIN t.pics.watch
    BY <1>2, <1>7, <1>10, <1>11, <1>12, <1>13, <2>1, <2>2
  <2> QED BY <2>3, Placed
<1>15. ASSUME OwnOf(s.en.owed, DOMAIN f.final), DOMAIN f.final \subseteq DOMAIN running,
              \A w \in DOMAIN running : s.re.goal[w] = running[w],
              \A w \in Window : w \notin DOMAIN frames => Reached(s, w)
       PROVE  LaidOut(t)
  <2>1. OwnOf(t.en.owed, DOMAIN g.final)
    <3>1. OwnOf(composed.en.owed, DOMAIN running)
      BY <1>5, <1>15 DEF OwnOf
    <3> QED BY <1>6, <1>7, <1>11, <1>12, <3>1
  <2>2. ASSUME NEW w \in Window PROVE Reached(t, w)
    <3>1. CASE w \in DOMAIN frames
      <4>1. Reaches(wrote.re.written, wrote.en.owed, w, frames[w])
        BY <1>7, <3>1
      <4>2. t.re.goal[w] = frames[w]
        BY <1>6, <1>11, <1>15, <3>1
      <4> QED BY <1>11, <4>1, <4>2 DEF Reached
    <3>2. CASE w \notin DOMAIN frames
      <4>1. Reaches(composed.re.written, composed.en.owed, w, s.re.goal[w])
        BY <1>5, <1>15, <3>2 DEF Reached
      <4>2. Reaches(wrote.re.written, wrote.en.owed, w, s.re.goal[w])
        BY <1>7, <3>2, <4>1
      <4> QED BY <1>11, <4>2 DEF Reached
    <3> QED BY <3>1, <3>2
  <2>3. /\ DOMAIN g.final = DOMAIN t.en.final
        /\ \A w \in DOMAIN t.en.final : g.final[w] = t.en.final[w]
        /\ g.kind # "bounce"
        /\ \A w \in DOMAIN g.final : t.re.goal[w] = g.final[w]
    BY <1>11, <1>12, <1>15
  <2> QED BY <1>14, <2>1, <2>2, <2>3
<1>16. NoneLater(t, s)
  BY <1>5, <1>7, <1>11 DEF NoneLater
<1> QED BY <1>11, <1>14, <1>15, <1>16 DEF Steady

(* One of the passes held before the last: written as it was held.         *)
LEMMA MergeOvertaken ==
    ASSUME NEW s, Fit(s), Flying(s), FlightOK(s.co.flight), s.en.final \in Transfers(Place),
           s.co.flight.phase = "playing", Overtaken(s.co.flight),
           NEW pass, PassOK(pass), NEW running, running = Runs(s, pass), NEW t, t = Merge(s, pass)
    PROVE  /\ t.re.written = s.re.written /\ t.re.goal = s.re.goal /\ Steady(t, s) /\ t.co.state = s.co.state
           /\ t.en.passes = s.en.passes /\ t.en.owed = s.en.owed /\ t.en.shown = s.en.shown
           /\ t.en.final = running /\ running \in Transfers(Place)
           /\ FlightOK(t.co.flight) /\ t.co.flight.phase = "playing" /\ t.co.flight.final = s.co.flight.final
           /\ t.co.flight.merge # NoMerge /\ t.co.flight.merge.passes = s.co.flight.merge.passes - 1
<1> PICK f : f = s.co.flight
  OBVIOUS
<1> PICK h : h = MergedHolding(s, pass)
  OBVIOUS
<1> PICK composed : composed = Composed(s, pass)
  OBVIOUS
<1>1. FlightOK(f) /\ f.generation = s.co.generation /\ f.generation \in Nat
  BY DEF Fit, FlightOK
<1>2. running \in Transfers(Place)
  <2>1. pass.final \in Transfers(Place)
    BY DEF PassOK
  <2> QED BY <2>1, Overlaid DEF Runs
<1>3. /\ FlightOK(h) /\ h.generation = MergedGeneration(s) /\ h.phase = "playing"
      /\ h.final = f.final /\ h.merge # NoMerge /\ h.merge.passes = f.merge.passes - 1
  BY <1>1, <1>2, MergedOK
<1>4. MergedGeneration(s) \in Nat /\ DOMAIN h = FlightFields
  BY <1>1, <1>3 DEF MergedGeneration, FlightOK
<1>5. /\ Fit(composed) /\ composed.co.flight = h /\ composed.co.state = s.co.state
      /\ composed.pics = s.pics /\ composed.re = s.re /\ composed.en.final = running
      /\ composed.en.passes = s.en.passes /\ composed.en.owed = s.en.owed /\ composed.en.shown = s.en.shown
  <2>1. Fit(s) /\ h = MergedHolding(s, pass) /\ DOMAIN h = FlightFields /\ h.generation = MergedGeneration(s)
        /\ h.generation \in Nat /\ composed = Composed(s, pass)
    BY <1>3, <1>4
  <2> QED BY ONLY <2>1, ComposedIs, running = Runs(s, pass)
<1>6. composed = MergeWritten(s, pass)
  BY DEF MergeWritten
<1>7. Alike(t, composed) /\ FlightOK(t.co.flight) /\ SamePlan(t.co.flight, h) /\ t.co.flight.phase = "playing"
  <2>1. s.co.flight.phase # "preparing" /\ h = composed.co.flight /\ h.phase = s.co.flight.phase /\ h.phase = "playing"
    BY <1>3, <1>5
  <2>2. Fit(composed) /\ FlightOK(h)
    BY <1>3, <1>5
  <2> PICK g : g = t.co.flight
    OBVIOUS
  <2>3. s.co.flight.phase # "preparing" /\ h = composed.co.flight /\ h.phase = s.co.flight.phase
    BY <2>1
  <2>4. /\ Alike(t, composed) /\ FlightOK(g) /\ SamePlan(g, h) /\ g.waiting = h.waiting
        /\ g.phase = h.phase \/ (h.phase = "holding" /\ g.phase = "playing")
        /\ h.kind # "bounce" => DOMAIN Awaiting(h) \subseteq DOMAIN t.pics.watch
    BY ONLY <1>6, <2>2, <2>3, MergeAfter, t = Merge(s, pass), g = t.co.flight
  <2> QED BY <2>1, <2>4
<1>8. /\ t.re.written = composed.re.written /\ t.re.goal = composed.re.goal /\ t.co.state = composed.co.state
      /\ t.re.requests = composed.re.requests /\ t.re.scenario = composed.re.scenario
      /\ t.en.passes = composed.en.passes /\ t.en.owed = composed.en.owed /\ t.en.shown = composed.en.shown
      /\ t.en.final = composed.en.final
  BY <1>7 DEF Alike, Steady
<1>9. t.co.flight.final = h.final /\ t.co.flight.merge = h.merge
  BY <1>7 DEF SamePlan
<1>10. Steady(t, s)
  BY <1>5, <1>8 DEF Steady
<1> QED BY <1>2, <1>3, <1>5, <1>7, <1>8, <1>9, <1>10

(* One held pass more is with the frames begun from.                       *)
LEMMA FinalStep ==
    ASSUME NEW final, NEW passes, NEW n \in Nat, DOMAIN passes = 1..n, NEW k \in Nat, k + 1 \in 1..n, NEW first,
           passes[k + 1].final \in Transfers(Place), FinalFrom(final, passes, k, first),
           NEW more, more = ExtendLatest(first, passes[k + 1].final)
    PROVE  FinalFrom(final, passes, k + 1, more)
<1> PICK g : g = passes[k + 1].final
  OBVIOUS
<1>1. /\ DOMAIN more = DOMAIN first \cup DOMAIN g
      /\ \A w \in DOMAIN g : more[w] = g[w]
      /\ \A w \in DOMAIN first \ DOMAIN g : more[w] = first[w]
  BY DEF ExtendLatest
<1>2. \A j \in DOMAIN passes : (j > k <=> j > k + 1 \/ j = k + 1) /\ (j > k + 1 => j > k)
  <2>1. \A j \in 1..n : (j > k <=> (j > k + 1 \/ j = k + 1)) /\ (j > k + 1 => j > k)
    BY ONLY n \in Nat, k \in Nat
  <2> QED BY <2>1
<1>3. ASSUME NEW w \in Window
      PROVE  \/ \E i \in DOMAIN passes :
                  /\ i > k + 1 /\ w \in DOMAIN passes[i].final /\ w \in DOMAIN final /\ final[w] = passes[i].final[w]
                  /\ \A j \in DOMAIN passes : j > i => w \notin DOMAIN passes[j].final
             \/ /\ \A j \in DOMAIN passes : j > k + 1 => w \notin DOMAIN passes[j].final
                /\ w \in DOMAIN final <=> w \in DOMAIN more
                /\ w \in DOMAIN final => final[w] = more[w]
  <2>1. CASE \E i \in DOMAIN passes :
               /\ i > k /\ w \in DOMAIN passes[i].final /\ w \in DOMAIN final /\ final[w] = passes[i].final[w]
               /\ \A j \in DOMAIN passes : j > i => w \notin DOMAIN passes[j].final
    <3> PICK i \in DOMAIN passes :
               /\ i > k /\ w \in DOMAIN passes[i].final /\ w \in DOMAIN final /\ final[w] = passes[i].final[w]
               /\ \A j \in DOMAIN passes : j > i => w \notin DOMAIN passes[j].final
      BY <2>1
    <3>1. CASE i > k + 1
      BY <3>1
    <3>2. CASE i = k + 1
      <4>1. w \in DOMAIN g /\ final[w] = g[w] /\ \A j \in DOMAIN passes : j > k + 1 => w \notin DOMAIN passes[j].final
        BY <3>2
      <4> QED BY <1>1, <4>1
    <3> QED BY <1>2, <3>1, <3>2
  <2>2. CASE /\ \A j \in DOMAIN passes : j > k => w \notin DOMAIN passes[j].final
             /\ w \in DOMAIN final <=> w \in DOMAIN first
             /\ w \in DOMAIN final => final[w] = first[w]
    <3>1. w \notin DOMAIN g
      BY <1>2, <2>2
    <3> QED BY <1>1, <1>2, <2>2, <3>1
  <2> QED BY <2>1, <2>2 DEF FinalFrom
<1> QED BY <1>3 DEF FinalFrom

LEMMA FinalLast ==
    ASSUME NEW final, final \in Transfers(Place), NEW passes, NEW n \in Nat, DOMAIN passes = 1..n,
           NEW first, first \in Transfers(Place), FinalFrom(final, passes, n, first)
    PROVE  final = first
<1>1. DOMAIN final \subseteq Window /\ DOMAIN first \subseteq Window
      /\ final = [w \in DOMAIN final |-> final[w]] /\ first = [w \in DOMAIN first |-> first[w]]
  BY DEF Transfers
<1>2. \A i \in DOMAIN passes : ~(i > n)
  OBVIOUS
<1>3. \A w \in Window : (w \in DOMAIN final <=> w \in DOMAIN first) /\ (w \in DOMAIN final => final[w] = first[w])
  BY <1>2 DEF FinalFrom
<1>4. DOMAIN final = DOMAIN first /\ \A w \in DOMAIN final : final[w] = first[w]
  BY <1>1, <1>3
<1> QED BY <1>1, <1>4

LEMMA ResumedLaid ==
    ASSUME NEW s, Fit(s), FlightOK(s.co.flight), s.co.flight.phase \in {"playing", "mergeHeld"}, NEW t, t = Resumed(s)
    PROVE  /\ Fit(t) /\ t.re = s.re /\ t.co.state = s.co.state /\ t.en.passes = <<>>
           /\ t.en.final = s.en.final /\ t.en.owed = s.en.owed /\ t.en.shown = s.en.shown
           /\ FlightOK(t.co.flight) /\ SamePlan(t.co.flight, s.co.flight) /\ t.co.flight.phase = "playing"
<1> PICK f : f = s.co.flight
  OBVIOUS
<1> PICK g : g = [f EXCEPT !.phase = "playing", !.waiting = {}]
  OBVIOUS
<1> PICK flown : flown = WithFlight(s, g)
  OBVIOUS
<1> DEFINE resumed == IF f.phase = "mergeHeld" THEN [s EXCEPT !.co.flight = g] ELSE s
<1>1. t = [resumed EXCEPT !.en.passes = <<>>]
  BY DEF Resumed
<1>2. (f.phase = "mergeHeld" /\ resumed = flown) \/ (f.phase = "playing" /\ resumed = s)
  BY DEF WithFlight
<1> HIDE DEF resumed
<1>3. Altered(g, f) /\ g.phase = "playing" /\ g.clock = f.clock /\ g.waiting = {}
  BY DEF FlightOK, FlightFields, Altered
<1>4. f.phase = "mergeHeld" => FlightOK(g) /\ SamePlan(g, f)
  <2> SUFFICES ASSUME f.phase = "mergeHeld" PROVE FlightOK(g) /\ SamePlan(g, f)
    OBVIOUS
  <2>1. g.phase \in Early \cup {"mergeHeld", "playing"} /\ g.clock \in {"none", "running", "over", "overdue"}
        /\ (g.clock = "none" <=> g.phase \in Early) /\ g.waiting \subseteq Window
    BY <1>3 DEF FlightOK, Early
  <2>2. FlightOK(f)
    OBVIOUS
  <2> QED BY ONLY <1>3, <2>1, <2>2, AlteredOK
<1>5. Fit(flown) /\ Alike(flown, s) /\ flown.co.flight = g
  <2>1. Flying(s) => DOMAIN g = FlightFields /\ g.generation = s.co.generation
    BY <1>3 DEF Altered, Fit, FlightFields
  <2>2. Fit(flown)
    BY ONLY <2>1, FlightAlong, Fit(s), flown = WithFlight(s, g) DEF WithFlight
  <2> QED BY <2>2, FlightSet
<1>6. /\ Fit(resumed) /\ resumed.re = s.re /\ resumed.en = s.en /\ resumed.co.state = s.co.state
      /\ FlightOK(resumed.co.flight) /\ SamePlan(resumed.co.flight, f) /\ resumed.co.flight.phase = "playing"
  <2>1. CASE f.phase = "mergeHeld" /\ resumed = flown
    <3>1. flown.re = s.re /\ flown.en = s.en /\ flown.co.state = s.co.state
      BY DEF WithFlight, Fit, Shape
    <3> QED BY <1>3, <1>4, <1>5, <2>1, <3>1
  <2>2. CASE f.phase = "playing" /\ resumed = s
    BY <2>2 DEF SamePlan
  <2> QED BY <1>2, <2>1, <2>2
<1>7. /\ Fit(t) /\ t.re = resumed.re /\ t.co = resumed.co /\ t.en.passes = <<>>
      /\ t.en.final = resumed.en.final /\ t.en.owed = resumed.en.owed /\ t.en.shown = resumed.en.shown
  <2>1. Sequence(<<>>)
    BY DEF Sequence
  <2>2. Fit(t)
    BY <1>1, <1>6, <2>1, PassesAlong
  <2>3. /\ t.re = resumed.re /\ t.co = resumed.co /\ t.en.passes = <<>>
        /\ t.en.final = resumed.en.final /\ t.en.owed = resumed.en.owed /\ t.en.shown = resumed.en.shown
    BY <1>1, <1>6 DEF Fit, Shape
  <2> QED BY <2>2, <2>3
<1> QED BY <1>6, <1>7

(* The passes held over a flight, or one held by none, are with it.        *)
LEMMA RetargetLaid ==
    ASSUME NEW s, Fit(s), Flying(s), s.re.written \in [Window -> Place], s.re.goal \in [Window -> Place],
           s.en.final \in Transfers(Place), Queued(s.en.owed, s.en.shown),
           \A i \in DOMAIN s.en.passes : PassOK(s.en.passes[i]) /\ s.en.passes[i].kind # "bounce",
           NEW f, f = s.co.flight, FlightOK(f), f.phase \in {"playing", "mergeHeld"},
           NEW n, n = Len(s.en.passes), n # 0,
           (f.merge # NoMerge /\ f.merge.passes = n) \/ (f.merge = NoMerge /\ n = 1),
           NEW final, final \in Transfers(Place), NEW t, t = Retarget(s)
    PROVE  /\ Sound(t) /\ NoneLater(t, s) /\ Steady(t, s) /\ t.co.state = s.co.state
           /\ /\ OwnOf(s.en.owed, DOMAIN f.final) /\ DOMAIN f.final \subseteq DOMAIN final
              /\ FinalFrom(final, s.en.passes, 0, s.en.final)
              /\ \A w \in DOMAIN final : s.re.goal[w] = final[w]
              /\ \A w \in Window : w \notin DOMAIN Changed(f.final, final) => Reached(s, w)
              => LaidOut(t)
<1> PICK passes : passes = s.en.passes
  OBVIOUS
<1> PICK start : start = Resumed(s)
  OBVIOUS
<1>1. n \in Nat /\ DOMAIN passes = 1..n /\ n \in DOMAIN passes /\ n - 1 \in Nat /\ (n - 1) + 1 = n
  <2>1. n \in Nat /\ DOMAIN passes = 1..n
    BY DEF Fit, Sequence
  <2> QED BY ONLY <2>1, n # 0
<1> PICK merged : MergesBy(merged, s)
  BY <1>1, RetargetSteps
<1>m. /\ merged[0] = start
      /\ \A i \in 1..n : merged[i] = Merge(merged[i - 1], passes[i])
      /\ t = merged[n]
  BY DEF MergesBy
<1>2. /\ Fit(start) /\ start.re = s.re /\ start.co.state = s.co.state /\ start.en.passes = <<>>
      /\ start.en.final = s.en.final /\ start.en.owed = s.en.owed /\ start.en.shown = s.en.shown
      /\ FlightOK(start.co.flight) /\ SamePlan(start.co.flight, f) /\ start.co.flight.phase = "playing"
  BY ResumedLaid
<1> DEFINE Held(m, k) ==
             /\ Fit(m) /\ m.co.state = s.co.state /\ m.re.written = s.re.written /\ m.re.goal = s.re.goal
             /\ m.re.requests = s.re.requests /\ m.re.scenario = s.re.scenario
             /\ m.en.passes = <<>> /\ m.en.owed = s.en.owed /\ m.en.shown = s.en.shown
             /\ m.en.final \in Transfers(Place)
             /\ FinalFrom(final, passes, 0, s.en.final) => FinalFrom(final, passes, k, m.en.final)
             /\ FlightOK(m.co.flight) /\ m.co.flight.phase = "playing" /\ m.co.flight.final = f.final
             /\ (n = 1 /\ m.co.flight.merge = NoMerge) \/ m.co.flight.merge.passes = n - k
           V == { k \in Nat : k + 1 <= n => Held(merged[k], k) }
<1>3. Held(start, 0)
  <2>1. start.co.flight.merge = f.merge /\ start.co.flight.final = f.final
    BY <1>2 DEF SamePlan
  <2>2. (n = 1 /\ f.merge = NoMerge) \/ f.merge.passes = n - 0
    BY <1>1
  <2>3. FinalFrom(final, passes, 0, s.en.final) => FinalFrom(final, passes, 0, start.en.final)
    BY <1>2
  <2> QED BY <1>2, <2>1, <2>2, <2>3
<1>4. ASSUME NEW k \in Nat, k + 2 <= n, Held(merged[k], k) PROVE Held(merged[k + 1], k + 1)
  <2> PICK m : m = merged[k]
    OBVIOUS
  <2> PICK u : u = merged[k + 1]
    OBVIOUS
  <2> PICK pass : pass = passes[k + 1]
    OBVIOUS
  <2> PICK running : running = Runs(m, pass)
    OBVIOUS
  <2>1. k + 1 \in 1..n /\ (k + 1) - 1 = k /\ n > 1
    BY <1>1, <1>4
  <2>2. u = Merge(m, pass) /\ PassOK(pass)
    BY <1>1, <1>m, <2>1
  <2>3. Held(m, k)
    BY <1>4
  <2>4. Overtaken(m.co.flight) /\ m.co.flight.merge.passes = n - k
    <3>1. m.co.flight.merge.passes = n - k
      <4>1. (n = 1 /\ m.co.flight.merge = NoMerge) \/ m.co.flight.merge.passes = n - k
        BY <2>3
      <4>2. n # 1
        BY <1>1, <2>1
      <4> QED BY ONLY <4>1, <4>2
    <3>2. n - k > 1
      BY <1>1, <1>4
    <3> QED BY <3>1, <3>2 DEF Overtaken
  <2>5. /\ u.re.written = m.re.written /\ u.re.goal = m.re.goal /\ Steady(u, m) /\ u.co.state = m.co.state
        /\ u.en.passes = m.en.passes /\ u.en.owed = m.en.owed /\ u.en.shown = m.en.shown
        /\ u.en.final = running /\ running \in Transfers(Place)
        /\ FlightOK(u.co.flight) /\ u.co.flight.phase = "playing" /\ u.co.flight.final = m.co.flight.final
        /\ u.co.flight.merge.passes = m.co.flight.merge.passes - 1
    <3>1. Fit(m) /\ Flying(m) /\ FlightOK(m.co.flight) /\ m.en.final \in Transfers(Place)
          /\ m.co.flight.phase = "playing" /\ Overtaken(m.co.flight)
      BY <2>3, <2>4 DEF Flying
    <3>2. running = Runs(m, pass)
      OBVIOUS
    <3> HIDE DEF Held, V
    <3> QED BY ONLY <2>2, <3>1, <3>2, MergeOvertaken
  <2>6. Fit(u)
    <3>1. Fit(m) /\ Flying(m)
      BY <2>3 DEF Flying
    <3> HIDE DEF Held, V
    <3> QED BY <2>2, <3>1, MergeAlong
  <2>7. ASSUME FinalFrom(final, passes, 0, s.en.final) PROVE FinalFrom(final, passes, k + 1, u.en.final)
    <3>1. FinalFrom(final, passes, k, m.en.final)
      BY <2>3, <2>7
    <3>2. pass.final \in Transfers(Place)
      BY <2>2 DEF PassOK
    <3>3. u.en.final = ExtendLatest(m.en.final, passes[k + 1].final)
      BY <2>5 DEF Runs
    <3> QED BY <1>1, <2>1, <3>1, <3>2, <3>3, FinalStep
  <2>8. u.co.flight.merge.passes = n - (k + 1)
    BY <1>1, <2>4, <2>5
  <2>9. u.re.requests = m.re.requests /\ u.re.scenario = m.re.scenario
    BY <2>5 DEF Steady
  <2>10. Held(u, k + 1)
    BY <2>3, <2>5, <2>6, <2>7, <2>8, <2>9
  <2> QED BY <2>10
<1>5. Nat \subseteq V
  <2>1. 0 \in V
    BY <1>3, <1>m
  <2>2. ASSUME NEW k \in Nat, k \in V PROVE k + 1 \in V
    <3> HIDE DEF Held
    <3>1. (k + 1) + 1 <= n => k + 1 <= n /\ k + 2 <= n
      BY <1>1
    <3> QED BY <1>4, <2>2, <3>1
  <2> HIDE DEF V
  <2> QED BY <2>1, <2>2, SetInduction
<1> PICK k : k = n - 1
  OBVIOUS
<1> PICK m : m = merged[k]
  OBVIOUS
<1>6. Held(m, k)
  <2> HIDE DEF Held
  <2> QED BY <1>1, <1>5
<1> PICK pass : pass = passes[n]
  OBVIOUS
<1> PICK running : running = Runs(m, pass)
  OBVIOUS
<1>7. t = Merge(m, pass) /\ PassOK(pass) /\ pass.kind # "bounce"
  BY <1>1, <1>m
<1>8. ~Overtaken(m.co.flight)
  <2>1. m.co.flight.merge = NoMerge \/ m.co.flight.merge.passes = n - k
    BY <1>6
  <2>2. n - k = 1 /\ NoMerge.passes = 0
    BY <1>1 DEF NoMerge
  <2> QED BY <2>1, <2>2 DEF Overtaken
<1>9. Typed(m) /\ Flying(m)
  <2>1. DOMAIN <<>> = {}
    OBVIOUS
  <2> QED BY <1>6, <2>1 DEF Typed, Flying
<1>10. /\ Sound(t) /\ NoneLater(t, m) /\ Steady(t, m) /\ t.co.state = m.co.state
       /\ /\ OwnOf(m.en.owed, DOMAIN m.co.flight.final) /\ DOMAIN m.co.flight.final \subseteq DOMAIN running
          /\ \A w \in DOMAIN running : m.re.goal[w] = running[w]
          /\ \A w \in Window : w \notin DOMAIN Changed(m.co.flight.final, running) => Reached(m, w)
          => LaidOut(t)
  <2>1. Fit(m) /\ m.en.passes = <<>> /\ m.co.flight.phase \in {"coalescing", "holding", "playing"}
    BY <1>6
  <2> HIDE DEF Held, V
  <2> QED BY ONLY <1>7, <1>8, <1>9, <2>1, MergeLast, running = Runs(m, pass)
<1>11. ASSUME OwnOf(s.en.owed, DOMAIN f.final), DOMAIN f.final \subseteq DOMAIN final,
              FinalFrom(final, s.en.passes, 0, s.en.final),
              \A w \in DOMAIN final : s.re.goal[w] = final[w],
              \A w \in Window : w \notin DOMAIN Changed(f.final, final) => Reached(s, w)
       PROVE  LaidOut(t)
  <2>1. FinalFrom(final, passes, k, m.en.final)
    BY <1>6, <1>11
  <2>2. running \in Transfers(Place) /\ pass.final \in Transfers(Place)
    <3>1. m.en.final \in Transfers(Place) /\ pass.final \in Transfers(Place)
      BY <1>6, <1>7 DEF PassOK
    <3> QED BY <3>1, Overlaid DEF Runs
  <2>3. k \in Nat /\ k + 1 = n
    BY <1>1
  <2>4. FinalFrom(final, passes, n, running)
    <3>1. running = ExtendLatest(m.en.final, passes[k + 1].final) /\ passes[k + 1].final \in Transfers(Place)
      BY <2>2, <2>3 DEF Runs
    <3>2. k + 1 \in 1..n
      BY <1>1, <2>3
    <3>3. FinalFrom(final, passes, k + 1, running)
      BY <1>1, <2>1, <2>3, <3>1, <3>2, FinalStep
    <3> QED BY <2>3, <3>3
  <2>5. final = running
    BY <1>1, <2>2, <2>4, FinalLast
  <2>6. \A w : Reached(m, w) <=> Reached(s, w)
    BY <1>6 DEF Reached
  <2>7. m.co.flight.final = f.final /\ m.en.owed = s.en.owed /\ m.re.goal = s.re.goal
    BY <1>6
  <2> HIDE DEF Held, V
  <2>8. OwnOf(m.en.owed, DOMAIN m.co.flight.final) /\ DOMAIN m.co.flight.final \subseteq DOMAIN running
    BY <1>11, <2>5, <2>7
  <2>9. \A w \in DOMAIN running : m.re.goal[w] = running[w]
    <3>1. \A w \in DOMAIN final : s.re.goal[w] = final[w]
      BY <1>11
    <3> QED BY ONLY <2>5, <2>7, <3>1
  <2>10. \A w \in Window : w \notin DOMAIN Changed(m.co.flight.final, running) => Reached(m, w)
    BY <1>11, <2>5, <2>6, <2>7
  <2> QED BY ONLY <1>10, <2>8, <2>9, <2>10
<1>12. NoneLater(t, s) /\ Steady(t, s) /\ t.co.state = s.co.state
  BY <1>6, <1>10 DEF NoneLater, Steady
<1> QED BY <1>10, <1>11, <1>12

-----------------------------------------------------------------------------
(* Merges held, and the pictures they wait for.                            *)

LEMMA SameGoes ==
    ASSUME NEW s, Sound(s), NEW t, Same(t, s)
    PROVE  Goes(t, s)
<1>1. t.co.state = s.co.state
  BY DEF Same, Alike
<1> QED BY <1>1, SameSound DEF Goes

(* The flight alone, its plan the same.                                    *)
LEMMA FlightChanged ==
    ASSUME NEW s, Typed(s), Flying(s), HeldUp(s), NEW t, Alike(t, s), NEW f, f = s.co.flight, NEW g, g = t.co.flight,
           t.pics.watch = s.pics.watch, FlightOK(g), g.final = f.final, g.kind = f.kind,
           g.merge = NoMerge <=> f.merge = NoMerge, g.merge.passes = f.merge.passes,
           g.phase = "mergeHeld" <=> f.phase = "mergeHeld"
    PROVE  /\ Typed(t) /\ HeldUp(t) /\ Flying(t) /\ NoneLater(t, s) /\ Steady(t, s) /\ t.co.state = s.co.state
           /\ (g.phase = "preparing" <=> f.phase = "preparing") /\ LaidOut(s) => LaidOut(t)
           /\ WaitsIn(t) /\ Asking(t) => Sound(t)
<1>0. t.co.state = s.co.state /\ Steady(t, s)
      /\ t.re.written = s.re.written /\ t.re.goal = s.re.goal
      /\ t.en.passes = s.en.passes /\ t.en.final = s.en.final /\ t.en.owed = s.en.owed /\ t.en.shown = s.en.shown
  BY DEF Alike
<1>1. Flying(t) <=> Flying(s)
  BY <1>0 DEF Flying
<1>2. Typed(t)
  BY <1>0, <1>1 DEF Typed
<1>3. HeldUp(t)
  BY <1>0 DEF HeldUp
<1>4. \A w : Reached(s, w) <=> Reached(t, w)
  BY <1>0 DEF Reached
<1>5. (g.phase = "preparing" <=> f.phase = "preparing") /\ LaidOut(s) => LaidOut(t)
  BY <1>0, <1>1, <1>4 DEF LaidOut, Layout
<1>6. WaitsIn(t) /\ Asking(t) => Sound(t)
  BY <1>1, <1>2, <1>3 DEF Sound
<1> QED BY <1>0, <1>1, <1>2, <1>3, <1>5, <1>6 DEF NoneLater

LEMMA RetargetHeld ==
    ASSUME NEW s, Fit(s), Flying(s), Sound(s), s.co.flight.phase = "mergeHeld", NEW t, t = Retarget(s)
    PROVE  Goes(t, s)
<1> PICK f : f = s.co.flight
  OBVIOUS
<1> PICK n : n = Len(s.en.passes)
  OBVIOUS
<1> PICK final : final = f.final
  OBVIOUS
<1>1. Typed(s) /\ HeldUp(s)
  BY DEF Sound
<1>2. /\ s.re.written \in [Window -> Place] /\ s.re.goal \in [Window -> Place]
      /\ s.en.final \in Transfers(Place) /\ Queued(s.en.owed, s.en.shown)
      /\ \A i \in DOMAIN s.en.passes : PassOK(s.en.passes[i]) /\ s.en.passes[i].kind # "bounce"
      /\ FlightOK(f) /\ f.phase \in {"playing", "mergeHeld"} /\ final \in Transfers(Place)
  BY <1>1 DEF Typed, FlightOK
<1>3. s.en.passes # <<>> /\ f.merge # NoMerge /\ f.merge.passes = n
  BY <1>1 DEF HeldUp
<1>4. n # 0
  <2>1. s.en.passes \in Seq({ s.en.passes[i] : i \in DOMAIN s.en.passes })
    BY DEF Fit, Sequence
  <2> QED BY <1>3, <2>1
<1>5. /\ Sound(t) /\ NoneLater(t, s) /\ Steady(t, s) /\ t.co.state = s.co.state
      /\ /\ OwnOf(s.en.owed, DOMAIN f.final) /\ DOMAIN f.final \subseteq DOMAIN final
         /\ FinalFrom(final, s.en.passes, 0, s.en.final)
         /\ \A w \in DOMAIN final : s.re.goal[w] = final[w]
         /\ \A w \in Window : w \notin DOMAIN Changed(f.final, final) => Reached(s, w)
         => LaidOut(t)
  <2>1. Fit(s) /\ Flying(s) /\ f = s.co.flight /\ n = Len(s.en.passes) /\ t = Retarget(s)
        /\ ((f.merge # NoMerge /\ f.merge.passes = n) \/ (f.merge = NoMerge /\ n = 1))
    BY <1>3
  <2> QED BY ONLY <1>2, <1>4, <2>1, RetargetLaid
<1>6. ASSUME LaidOut(s) PROVE LaidOut(t)
  <2>1. Layout(s)
    BY <1>6 DEF LaidOut
  <2>2. /\ OwnOf(s.en.owed, DOMAIN f.final) /\ FinalFrom(final, s.en.passes, 0, s.en.final)
        /\ \A w \in DOMAIN final : s.re.goal[w] = final[w]
        /\ \A w \in Window : Reached(s, w)
    BY <2>1 DEF Layout
  <2> QED BY <1>5, <2>2
<1> QED BY <1>5, <1>6 DEF Goes

(* A window waited for is waited for no longer.                            *)
LEMMA LetGoLaid ==
    ASSUME NEW s, Fit(s), Flying(s), Sound(s), NEW w, NEW t, t = LetGo(s, w)
    PROVE  Goes(t, s)
<1> PICK f : f = s.co.flight
  OBVIOUS
<1> PICK left : left = f.waiting \ {w}
  OBVIOUS
<1> PICK g : g = WaitingFor(f, left)
  OBVIOUS
<1> PICK out : out = WithFlight(s, g)
  OBVIOUS
<1>1. /\ left # {} => t = out
      /\ left = {} /\ f.phase = "holding" => t = StartMoving(out)
      /\ left = {} /\ f.phase = "mergeHeld" => t = Retarget(out)
      /\ left = {} /\ f.phase \notin {"holding", "mergeHeld"} => t = out
  <2> DEFINE o == [s EXCEPT !.co.flight.waiting = f.waiting \ {w}]
  <2>1. o = out
    BY DEF WithFlight, WaitingFor
  <2>2. t = IF left # {} THEN o
            ELSE CASE f.phase = "holding"   -> StartMoving(o)
                   [] f.phase = "mergeHeld" -> Retarget(o)
                   [] OTHER -> o
    BY DEF LetGo
  <2> HIDE DEF o
  <2>3. t = IF left # {} THEN out
            ELSE CASE f.phase = "holding"   -> StartMoving(out)
                   [] f.phase = "mergeHeld" -> Retarget(out)
                   [] OTHER -> out
    BY <2>1, <2>2
  <2> QED BY ONLY <2>3
<1>2. Typed(s) /\ HeldUp(s) /\ WaitsIn(s) /\ Asking(s) /\ FlightOK(f)
  BY DEF Sound, Typed
<1>3. Altered(g, f) /\ g.phase = f.phase /\ g.clock = f.clock /\ g.waiting = left
  BY <1>2 DEF WaitingFor, Altered, FlightOK, FlightFields
<1>4. FlightOK(g) /\ SamePlan(g, f) /\ g.zeroOwed = f.zeroOwed
  <2>1. g.phase \in Early \cup {"mergeHeld", "playing"} /\ g.clock \in {"none", "running", "over", "overdue"}
        /\ (g.clock = "none" <=> g.phase \in Early) /\ g.waiting \subseteq Window
    BY <1>2, <1>3 DEF FlightOK
  <2> QED BY ONLY <1>2, <1>3, <2>1, AlteredOK
<1>5. Fit(out) /\ Alike(out, s) /\ out.pics = s.pics /\ out.co.flight = g /\ Flying(out)
  <2>1. Flying(s) => DOMAIN g = FlightFields /\ g.generation = s.co.generation
    BY <1>3 DEF Altered, Fit, FlightFields
  <2>2. Fit(out)
    BY ONLY <2>1, FlightAlong, Fit(s), out = WithFlight(s, g) DEF WithFlight
  <2> QED BY <2>2, FlightSet
<1>6. WaitsIn(out) /\ Asking(out)
  <2>1. g.kind = f.kind /\ left \subseteq f.waiting
    BY <1>4 DEF SamePlan
  <2> QED BY <1>2, <1>3, <1>4, <1>5, <2>1 DEF WaitsIn, Asking
<1>7. Goes(out, s)
  <2>1. /\ Sound(out) /\ NoneLater(out, s) /\ Steady(out, s) /\ out.co.state = s.co.state
        /\ (out.co.flight.phase = "preparing" <=> s.co.flight.phase = "preparing") /\ LaidOut(s) => LaidOut(out)
    <3>1. FlightOK(out.co.flight) /\ SamePlan(out.co.flight, s.co.flight)
          /\ (out.co.flight.phase = "mergeHeld" <=> s.co.flight.phase = "mergeHeld")
      BY <1>3, <1>4, <1>5
    <3> QED BY ONLY <1>2, <1>5, <1>6, <3>1, Flying(s), AlteredSound
  <2>2. out.co.flight.phase = "preparing" <=> s.co.flight.phase = "preparing"
    BY <1>3, <1>5
  <2> QED BY <2>1, <2>2 DEF Goes
<1>8. CASE t = out
  BY <1>7, <1>8
<1>9. CASE left = {} /\ f.phase = "holding"
  <2>1. t = StartMoving(out) /\ FlightOK(out.co.flight) /\ out.co.flight = g
    BY <1>1, <1>4, <1>5, <1>9
  <2>2. g.clock = "none"
    BY <1>2, <1>3, <1>9 DEF FlightOK, Early
  <2>3. /\ Alike(t, out) /\ t.pics = out.pics /\ FlightOK(t.co.flight) /\ SamePlan(t.co.flight, out.co.flight)
        /\ t.co.flight.phase = "playing"
    BY ONLY <1>5, <2>1, <2>2, StartMovingLaid
  <2>4. out.co.flight.phase = "holding"
    BY <1>3, <1>5, <1>9
  <2>5. WaitsIn(t) /\ Asking(t)
    BY <2>3 DEF WaitsIn, Asking
  <2>6. Typed(out) /\ HeldUp(out)
    BY <1>5, <1>7 DEF Goes, Sound
  <2>7. /\ Sound(t) /\ NoneLater(t, out) /\ Steady(t, out) /\ t.co.state = out.co.state
        /\ (t.co.flight.phase = "preparing" <=> out.co.flight.phase = "preparing") /\ LaidOut(out) => LaidOut(t)
    <3>1. t.co.flight.phase = "mergeHeld" <=> out.co.flight.phase = "mergeHeld"
      BY <2>3, <2>4
    <3> QED BY ONLY <1>5, <2>3, <2>5, <2>6, <3>1, AlteredSound
  <2>8. Goes(t, out)
    BY <2>3, <2>4, <2>7 DEF Goes
  <2> QED BY <1>7, <2>8, GoesOn
<1>10. CASE left = {} /\ f.phase = "mergeHeld"
  <2>1. t = Retarget(out) /\ out.co.flight.phase = "mergeHeld"
    BY <1>1, <1>3, <1>5, <1>10
  <2>2. Sound(out)
    BY <1>7 DEF Goes
  <2>3. Goes(t, out)
    BY <1>5, <2>1, <2>2, RetargetHeld
  <2> QED BY <1>7, <2>3, GoesOn
<1> QED BY <1>1, <1>8, <1>9, <1>10

(* One pass more held after the others.                                    *)
LEMMA FinalAppended ==
    ASSUME NEW final, NEW passes, Sequence(passes), NEW first, FinalFrom(final, passes, 0, first),
           NEW pass, pass.final \in Transfers(Place), NEW more, more = Append(passes, pass),
           NEW all, all = ExtendLatest(final, pass.final)
    PROVE  FinalFrom(all, more, 0, first)
<1> PICK n : n = Len(passes)
  OBVIOUS
<1> PICK g : g = pass.final
  OBVIOUS
<1>1. /\ n \in Nat /\ DOMAIN passes = 1..n /\ DOMAIN more = 1..(n + 1)
      /\ more[n + 1] = pass /\ \A i \in 1..n : more[i] = passes[i]
  BY DEF Sequence
<1>2. \A i \in DOMAIN more : (i \in DOMAIN passes /\ more[i] = passes[i] /\ i < n + 1) \/ (i = n + 1 /\ more[i] = pass)
  <2>1. \A i \in 1..(n + 1) : (i \in 1..n /\ i < n + 1) \/ i = n + 1
    BY ONLY <1>1
  <2> QED BY <1>1, <2>1
<1>3. /\ n + 1 \in DOMAIN more /\ n + 1 > 0 /\ (\A j \in DOMAIN more : ~(j > n + 1))
      /\ \A i \in DOMAIN passes : i \in DOMAIN more /\ i > 0 /\ more[i] = passes[i]
  BY <1>1
<1>4. /\ DOMAIN all = DOMAIN final \cup DOMAIN g
      /\ \A w \in DOMAIN g : all[w] = g[w]
      /\ \A w \in DOMAIN final \ DOMAIN g : all[w] = final[w]
  BY DEF ExtendLatest
<1>5. ASSUME NEW w \in Window
      PROVE  \/ \E i \in DOMAIN more :
                  /\ i > 0 /\ w \in DOMAIN more[i].final /\ w \in DOMAIN all /\ all[w] = more[i].final[w]
                  /\ \A j \in DOMAIN more : j > i => w \notin DOMAIN more[j].final
             \/ /\ \A j \in DOMAIN more : j > 0 => w \notin DOMAIN more[j].final
                /\ w \in DOMAIN all <=> w \in DOMAIN first
                /\ w \in DOMAIN all => all[w] = first[w]
  <2>1. CASE w \in DOMAIN g
    BY <1>1, <1>3, <1>4, <2>1
  <2>2. CASE w \notin DOMAIN g
    <3>1. CASE \E i \in DOMAIN passes :
                 /\ i > 0 /\ w \in DOMAIN passes[i].final /\ w \in DOMAIN final /\ final[w] = passes[i].final[w]
                 /\ \A j \in DOMAIN passes : j > i => w \notin DOMAIN passes[j].final
      <4> PICK i \in DOMAIN passes :
                 /\ i > 0 /\ w \in DOMAIN passes[i].final /\ w \in DOMAIN final /\ final[w] = passes[i].final[w]
                 /\ \A j \in DOMAIN passes : j > i => w \notin DOMAIN passes[j].final
        BY <3>1
      <4>1. \A j \in DOMAIN more : j > i => w \notin DOMAIN more[j].final
        BY <1>2, <2>2
      <4>2. w \in DOMAIN all /\ all[w] = final[w]
        BY <1>4, <2>2
      <4> QED BY <1>3, <4>1, <4>2
    <3>2. CASE /\ \A j \in DOMAIN passes : j > 0 => w \notin DOMAIN passes[j].final
               /\ w \in DOMAIN final <=> w \in DOMAIN first
               /\ w \in DOMAIN final => final[w] = first[w]
      <4>1. \A j \in DOMAIN more : w \notin DOMAIN more[j].final
        <5>1. \A j \in DOMAIN passes : j > 0
          BY <1>1
        <5> QED BY <1>2, <2>2, <3>2, <5>1
      <4> QED BY <1>4, <2>2, <3>2, <4>1
    <3> QED BY <3>1, <3>2 DEF FinalFrom
  <2> QED BY <2>1, <2>2
<1> QED BY <1>5 DEF FinalFrom

(* What a request asks for beside what is flown: the layout asked moves.   *)
Adds(s, was, pass) ==
    /\ s.co = was.co /\ s.pics = was.pics /\ s.re.written = was.re.written
    /\ s.re.goal = ExtendLatest(was.re.goal, pass.final)
    /\ s.en.final = was.en.final /\ s.en.owed = was.en.owed /\ s.en.shown = was.en.shown

AsksFor(s, f, pass, final) ==
    /\ DOMAIN f.final \subseteq DOMAIN final /\ DOMAIN pass.final \subseteq DOMAIN final
    /\ \A w \in DOMAIN final : s.re.goal[w] = final[w]
    /\ \A w \in DOMAIN pass.final : s.re.goal[w] = pass.final[w]
    /\ \A w \in Window : w \notin DOMAIN Changed(f.final, final) => Reached(s, w)
    /\ \A w \in Window : w \notin DOMAIN Changed(f.final, pass.final) => Reached(s, w)

(* Where the pass moves a window, it is asked for; elsewhere it is written.*)
LEMMA AddedLaid ==
    ASSUME NEW was, Typed(was), Layout(was), NEW f, f = was.co.flight, FlightOK(f), f.phase # "preparing",
           NEW pass, PassOK(pass), NEW s, Adds(s, was, pass), NEW final, final = ExtendLatest(f.final, pass.final)
    PROVE  AsksFor(s, f, pass, final)
<1> PICK goal : goal = was.re.goal
  OBVIOUS
<1> PICK g : g = pass.final
  OBVIOUS
<1>1. g \in Transfers(Place) /\ f.final \in Transfers(Place) /\ goal \in [Window -> Place] /\ DOMAIN g \subseteq Window
  BY DEF PassOK, FlightOK, Typed, Transfers
<1>2. /\ final \in Transfers(Place)
      /\ DOMAIN final = DOMAIN f.final \cup DOMAIN g /\ (\A w \in DOMAIN g : final[w] = g[w])
      /\ \A w \in DOMAIN f.final \ DOMAIN g : final[w] = f.final[w]
  <2>1. final \in Transfers(Place)
    BY <1>1, Overlaid
  <2> QED BY <2>1 DEF ExtendLatest
<1>3. s.re.goal \in [Window -> Place] /\ \A w \in Window : s.re.goal[w] = IF w \in DOMAIN g THEN g[w] ELSE goal[w]
  <2>1. s.re.goal = ExtendLatest(goal, g)
    BY DEF Adds
  <2>2. /\ ExtendLatest(goal, g) \in [Window -> Place]
        /\ \A w \in Window : ExtendLatest(goal, g)[w] = IF w \in DOMAIN g THEN g[w] ELSE goal[w]
    BY ONLY <1>1, OverlaidAll
  <2> QED BY <2>1, <2>2
<1>4. DOMAIN f.final \subseteq Window
  BY <1>1 DEF Transfers
<1>5. (\A w \in DOMAIN f.final : goal[w] = f.final[w]) /\ (\A w \in Window : Reached(was, w))
  BY DEF Layout
<1>6. \A w \in DOMAIN final : s.re.goal[w] = final[w]
  BY <1>1, <1>2, <1>3, <1>4, <1>5
<1>7. ASSUME NEW w \in Window, w \notin DOMAIN g \/ (w \in DOMAIN f.final /\ f.final[w] = g[w]) PROVE Reached(s, w)
  <2>1. s.re.goal[w] = goal[w]
    BY <1>3, <1>5, <1>7
  <2>2. Reaches(was.re.written, was.en.owed, w, goal[w])
    BY <1>5 DEF Reached
  <2>3. s.re.written = was.re.written /\ s.en.owed = was.en.owed
    BY DEF Adds
  <2> QED BY <2>1, <2>2, <2>3 DEF Reached
<1>8. \A w : w \in DOMAIN g /\ ~(w \in DOMAIN f.final /\ f.final[w] = g[w])
             => w \in DOMAIN Changed(f.final, final) /\ w \in DOMAIN Changed(f.final, g)
  BY <1>2 DEF Changed, Restrict
<1>9. \A w \in DOMAIN pass.final : s.re.goal[w] = pass.final[w]
  BY <1>1, <1>3
<1>10. DOMAIN f.final \subseteq DOMAIN final /\ DOMAIN pass.final \subseteq DOMAIN final
  BY <1>2
<1>11. \A w \in Window : (w \notin DOMAIN Changed(f.final, final) \/ w \notin DOMAIN Changed(f.final, g)) => Reached(s, w)
  BY <1>7, <1>8
<1> QED BY <1>6, <1>9, <1>10, <1>11 DEF AsksFor

(* HoldMerge, in the parts it is made of.                                  *)
SeenGrown(pass) == { w \in Grows(pass) : pass.ends[w] \in Seen }

MergeBefore(f) ==
    IF f.merge # NoMerge THEN f.merge
    ELSE [passes |-> 0, generation |-> f.generation, at |-> f.at, ends |-> Nothing, repainted |-> Nothing]

MergeEnds(f, pass) ==
    LET sent == [w \in DOMAIN MergeBefore(f).ends |->
                   IF w \in DOMAIN pass.final THEN pass.final[w] ELSE MergeBefore(f).ends[w]]
    IN  ExtendLatest(Restrict(sent, { w \in DOMAIN sent : sent[w] \in Seen }), Restrict(pass.ends, SeenGrown(pass)))

MergeWith(f, pass) == [MergeBefore(f) EXCEPT !.passes = @ + 1, !.ends = MergeEnds(f, pass)]

HeldWith(f, pass) ==
    [f EXCEPT !.merge = MergeWith(f, pass), !.waiting = SeenGrown(pass), !.phase = "mergeHeld",
              !.final = ExtendLatest(@, pass.final)]

OneMoreHeld(f) == [f EXCEPT !.merge.passes = @ + 1]

LEMMA HoldMergeIs ==
    ASSUME NEW s, NEW pass, NEW f, f = s.co.flight, NEW t, t = HoldMerge(s, pass)
    PROVE  /\ SeenGrown(pass) # {} =>
                t = Watches(Writes(WithFlight(s, HeldWith(f, pass)), Changed(f.final, pass.final)))
           /\ SeenGrown(pass) = {} /\ f.merge = NoMerge => t = Retarget(s)
           /\ SeenGrown(pass) = {} /\ f.merge # NoMerge => t = Retarget(WithFlight(s, OneMoreHeld(f)))
<1> DEFINE seen  == { w \in Grows(pass) : pass.ends[w] \in Seen }
           held  == IF f.merge # NoMerge THEN f.merge
                    ELSE [passes |-> 0, generation |-> f.generation, at |-> f.at,
                          ends |-> Nothing, repainted |-> Nothing]
           sent  == [w \in DOMAIN held.ends |-> IF w \in DOMAIN pass.final THEN pass.final[w] ELSE held.ends[w]]
           shown == Restrict(sent, { w \in DOMAIN sent : sent[w] \in Seen })
           merge == [held EXCEPT !.passes = @ + 1, !.ends = ExtendLatest(shown, Restrict(pass.ends, seen))]
           g     == [f EXCEPT !.merge = merge, !.waiting = seen, !.phase = "mergeHeld", !.final = ExtendLatest(@, pass.final)]
           waits == [s EXCEPT !.co.flight = g]
           more  == [s EXCEPT !.co.flight.merge.passes = @ + 1]
<1>1. t = IF seen = {} THEN Retarget(IF f.merge = NoMerge THEN s ELSE more)
          ELSE Watches(Writes(waits, Changed(f.final, pass.final)))
  BY DEF HoldMerge
<1>2. more = WithFlight(s, OneMoreHeld(f))
  BY DEF WithFlight, OneMoreHeld
<1>3. seen = SeenGrown(pass)
  BY DEF SeenGrown
<1> HIDE DEF seen, more
<1>4. held = MergeBefore(f)
  BY DEF MergeBefore
<1> HIDE DEF held
<1>5. sent = [w \in DOMAIN MergeBefore(f).ends |->
                IF w \in DOMAIN pass.final THEN pass.final[w] ELSE MergeBefore(f).ends[w]]
  BY <1>4
<1>6. merge = MergeWith(f, pass)
  BY <1>3, <1>4 DEF MergeWith, MergeEnds
<1> HIDE DEF merge
<1>7. g = HeldWith(f, pass)
  BY <1>3, <1>6 DEF HeldWith
<1> HIDE DEF g
<1>8. waits = WithFlight(s, HeldWith(f, pass))
  BY <1>7 DEF WithFlight
<1> HIDE DEF waits
<1>9. /\ seen # {} => t = Watches(Writes(waits, Changed(f.final, pass.final)))
      /\ seen = {} /\ f.merge = NoMerge => t = Retarget(s)
      /\ seen = {} /\ f.merge # NoMerge => t = Retarget(more)
  BY <1>1
<1> QED BY ONLY <1>2, <1>3, <1>8, <1>9

MergeFields == {"passes", "generation", "at", "ends", "repainted"}

LEMMA HeldWithOK ==
    ASSUME NEW f, FlightOK(f), f.clock # "none", f.merge.passes \in Nat, NEW pass, PassOK(pass), NEW g, g = HeldWith(f, pass)
    PROVE  /\ FlightOK(g) /\ g.generation = f.generation /\ g.kind = f.kind /\ g.phase = "mergeHeld"
           /\ g.final = ExtendLatest(f.final, pass.final)
           /\ g.merge # NoMerge /\ g.merge.passes = f.merge.passes + 1
           /\ g.waiting \subseteq DOMAIN Awaiting(g)
<1> PICK m : m = MergeWith(f, pass)
  OBVIOUS
<1> PICK seen : seen = SeenGrown(pass)
  OBVIOUS
<1> PICK final : final = ExtendLatest(f.final, pass.final)
  OBVIOUS
<1>1. DOMAIN MergeBefore(f) = MergeFields /\ MergeBefore(f).passes = f.merge.passes
  BY DEF MergeBefore, NoMerge, MergeFields, FlightOK
<1>2. DOMAIN m = MergeFields /\ m.passes = f.merge.passes + 1 /\ m.ends = MergeEnds(f, pass)
  BY <1>1 DEF MergeWith, MergeFields
<1>3. m # NoMerge
  BY <1>2 DEF MergeFields, NoMerge
<1>4. seen \subseteq Window /\ seen \subseteq DOMAIN m.ends
  <2>1. seen \subseteq Window
    BY DEF SeenGrown, Grows, PassOK, Transfers
  <2>2. seen \subseteq DOMAIN m.ends
    BY <1>2 DEF MergeEnds, ExtendLatest, Restrict
  <2> QED BY <2>1, <2>2
<1>5. g = [f EXCEPT !.merge = m, !.waiting = seen, !.phase = "mergeHeld", !.final = final]
  BY DEF HeldWith
<1>6. /\ DOMAIN g = FlightFields /\ g.merge = m /\ g.waiting = seen /\ g.phase = "mergeHeld" /\ g.final = final
      /\ g.generation = f.generation /\ g.began = f.began /\ g.at = f.at /\ g.kind = f.kind /\ g.clock = f.clock
      /\ g.zeroOwed = f.zeroOwed /\ g.asked = f.asked /\ g.ends = f.ends
      /\ g.since = f.since /\ g.sentBy = f.sentBy /\ g.waits = f.waits
  BY <1>5 DEF FlightOK, FlightFields
<1>7. final \in Transfers(Place)
  <2>1. f.final \in Transfers(Place) /\ pass.final \in Transfers(Place)
    BY DEF FlightOK, PassOK
  <2> QED BY <2>1, Overlaid
<1>8. FlightOK(g)
  <2>1. g.phase \in Early \cup {"mergeHeld", "playing"} /\ (g.clock = "none" <=> g.phase \in Early)
    BY <1>6 DEF Early
  <2>2. DOMAIN m = {"passes", "generation", "at", "ends", "repainted"} /\ m.passes \in Nat \ {0}
    BY <1>2 DEF MergeFields
  <2>3. /\ f.generation \in Nat /\ f.began \in Nat /\ f.at \in Nat /\ f.kind \in Kind
        /\ f.clock \in {"none", "running", "over", "overdue"}
        /\ f.zeroOwed \in Nat /\ f.asked \subseteq Window
        /\ f.ends \in Transfers(Place) /\ f.waits \in Transfers(Sort)
        /\ DOMAIN f.since = DOMAIN f.ends /\ DOMAIN f.sentBy = DOMAIN f.ends
    BY DEF FlightOK
  <2> QED BY <1>4, <1>6, <1>7, <2>1, <2>2, <2>3 DEF FlightOK
<1>9. seen \subseteq DOMAIN Awaiting(g)
  <2>1. HeldEnds(g) = m.ends
    BY <1>3, <1>6 DEF HeldEnds
  <2> QED BY <1>4, <2>1 DEF Awaiting, ExtendLatest
<1> QED BY <1>2, <1>3, <1>6, <1>8, <1>9

LEMMA OneMoreHeldOK ==
    ASSUME NEW f, FlightOK(f), f.merge # NoMerge, NEW g, g = OneMoreHeld(f)
    PROVE  /\ FlightOK(g) /\ g.generation = f.generation /\ g.kind = f.kind /\ g.phase = f.phase /\ g.final = f.final
           /\ g.merge # NoMerge /\ g.merge.passes = f.merge.passes + 1
<1> PICK m : m = [f.merge EXCEPT !.passes = @ + 1]
  OBVIOUS
<1>1. DOMAIN f.merge = MergeFields /\ f.merge.passes \in Nat \ {0}
  BY DEF FlightOK, MergeFields
<1>2. DOMAIN m = MergeFields /\ m.passes = f.merge.passes + 1 /\ m.passes \in Nat \ {0}
  BY <1>1 DEF MergeFields
<1>3. m # NoMerge
  BY <1>2 DEF MergeFields, NoMerge
<1>4. g = [f EXCEPT !.merge = m]
  BY DEF OneMoreHeld
<1>5. /\ DOMAIN g = FlightFields /\ g.merge = m /\ g.waiting = f.waiting /\ g.phase = f.phase /\ g.final = f.final
      /\ g.generation = f.generation /\ g.began = f.began /\ g.at = f.at /\ g.kind = f.kind /\ g.clock = f.clock
      /\ g.zeroOwed = f.zeroOwed /\ g.asked = f.asked /\ g.ends = f.ends
      /\ g.since = f.since /\ g.sentBy = f.sentBy /\ g.waits = f.waits
  BY <1>4 DEF FlightOK, FlightFields
<1>6. FlightOK(g)
  <2>1. DOMAIN m = {"passes", "generation", "at", "ends", "repainted"}
    BY <1>2 DEF MergeFields
  <2> QED BY <1>2, <1>5, <2>1 DEF FlightOK
<1> QED BY <1>2, <1>3, <1>5, <1>6

LEMMA OneAppended ==
    ASSUME NEW passes, Sequence(passes), NEW pass, NEW more, more = Append(passes, pass)
    PROVE  /\ Len(passes) \in Nat /\ Len(more) = Len(passes) + 1 /\ more # <<>>
           /\ \A i \in DOMAIN more : (i \in DOMAIN passes /\ more[i] = passes[i]) \/ more[i] = pass
<1>1. passes \in Seq({ passes[i] : i \in DOMAIN passes })
  BY DEF Sequence
<1>2. /\ Len(passes) \in Nat /\ DOMAIN passes = 1..Len(passes) /\ DOMAIN more = 1..(Len(passes) + 1)
      /\ Len(more) = Len(passes) + 1
      /\ more[Len(passes) + 1] = pass /\ \A i \in 1..Len(passes) : more[i] = passes[i]
  BY <1>1
<1>3. \A i \in 1..(Len(passes) + 1) : i \in 1..Len(passes) \/ i = Len(passes) + 1
  BY ONLY <1>2
<1>4. more # <<>>
  BY <1>2
<1> QED BY <1>2, <1>3, <1>4

(* A pass held: it is merged with the rest at once if nothing it grows is  *)
(* seen, and written and waited for if something is.                       *)
LEMMA HoldMergeLaid ==
    ASSUME NEW was, Fit(was), Sound(was), Flying(was), NEW f, f = was.co.flight, f.clock # "none",
           NEW pass, PassOK(pass), pass.kind # "bounce", NEW s, Fit(s), Adds(s, was, pass),
           s.en.passes = Append(was.en.passes, pass), NEW t, t = HoldMerge(s, pass)
    PROVE  /\ Sound(t) /\ NoneLater(t, was) /\ Steady(t, s) /\ t.co.state = was.co.state
           /\ LaidOut(was) => LaidOut(t)
<1> PICK passes : passes = s.en.passes
  OBVIOUS
<1> PICK n : n = Len(passes)
  OBVIOUS
<1> PICK final : final = ExtendLatest(f.final, pass.final)
  OBVIOUS
<1>1. Typed(was) /\ HeldUp(was) /\ FlightOK(f)
  BY DEF Sound, Typed
<1>2. f.phase \in {"playing", "mergeHeld"} /\ f.phase # "preparing"
  BY <1>1 DEF FlightOK, Early
<1>3. /\ Len(was.en.passes) \in Nat /\ n = Len(was.en.passes) + 1 /\ passes # <<>>
      /\ \A i \in DOMAIN passes : (i \in DOMAIN was.en.passes /\ passes[i] = was.en.passes[i]) \/ passes[i] = pass
  <2>1. Sequence(was.en.passes) /\ passes = Append(was.en.passes, pass)
    BY DEF Fit
  <2> QED BY <2>1, OneAppended
<1>4. f.merge.passes = Len(was.en.passes) /\ (f.merge = NoMerge <=> was.en.passes = <<>>)
  BY <1>1 DEF HeldUp
<1>5. /\ s.co = was.co /\ s.pics = was.pics /\ s.re.written = was.re.written
      /\ s.en.final = was.en.final /\ s.en.owed = was.en.owed /\ s.en.shown = was.en.shown
  BY DEF Adds
<1>6. /\ s.re.written \in [Window -> Place] /\ s.en.final \in Transfers(Place) /\ Queued(s.en.owed, s.en.shown)
      /\ \A i \in DOMAIN passes : PassOK(passes[i]) /\ passes[i].kind # "bounce"
  BY <1>1, <1>3, <1>5 DEF Typed
<1>7. final \in Transfers(Place) /\ s.re.goal \in [Window -> Place]
  <2>1. f.final \in Transfers(Place) /\ pass.final \in Transfers(Place) /\ was.re.goal \in [Window -> Place]
    BY <1>1 DEF FlightOK, PassOK, Typed
  <2>2. ExtendLatest(was.re.goal, pass.final) \in [Window -> Place]
    BY <2>1, OverlaidAll
  <2> QED BY <2>1, <2>2, Overlaid DEF Adds
<1>8. LaidOut(was) =>
           /\ OwnOf(s.en.owed, DOMAIN f.final) /\ AsksFor(s, f, pass, final)
           /\ FinalFrom(final, passes, 0, s.en.final)
           /\ f.kind = "bounce" => DOMAIN s.en.final = {}
  <2> SUFFICES ASSUME LaidOut(was)
               PROVE  /\ OwnOf(s.en.owed, DOMAIN f.final) /\ AsksFor(s, f, pass, final)
                      /\ FinalFrom(final, passes, 0, s.en.final)
                      /\ f.kind = "bounce" => DOMAIN s.en.final = {}
    OBVIOUS
  <2>1. Layout(was)
    BY DEF LaidOut
  <2>2. AsksFor(s, f, pass, final)
    BY <1>1, <1>2, <2>1, AddedLaid
  <2>3. FinalFrom(f.final, was.en.passes, 0, was.en.final) /\ OwnOf(was.en.owed, DOMAIN f.final)
        /\ (f.kind = "bounce" => DOMAIN was.en.final = {})
    BY <2>1 DEF Layout
  <2>4. FinalFrom(final, passes, 0, s.en.final)
    <3>1. Sequence(was.en.passes) /\ pass.final \in Transfers(Place) /\ passes = Append(was.en.passes, pass)
      BY DEF Fit, PassOK
    <3> QED BY <1>5, <2>3, <3>1, FinalAppended
  <2> QED BY <1>5, <2>2, <2>3, <2>4
<1>9. CASE SeenGrown(pass) = {}
  <2> PICK u : (f.merge = NoMerge => u = s) /\ (f.merge # NoMerge => u = WithFlight(s, OneMoreHeld(f)))
    <3>1. CASE f.merge = NoMerge
      BY <3>1
    <3>2. CASE f.merge # NoMerge
      BY <3>2
    <3> QED BY <3>1, <3>2
  <2> PICK h : h = u.co.flight
    OBVIOUS
  <2>1. t = Retarget(u)
    BY <1>5, <1>9, HoldMergeIs
  <2>2. /\ Fit(u) /\ Flying(u) /\ Alike(u, s) /\ FlightOK(h) /\ h.phase = f.phase /\ h.final = f.final
        /\ (h.merge # NoMerge /\ h.merge.passes = n) \/ (h.merge = NoMerge /\ n = 1)
    <3>1. CASE f.merge = NoMerge
      <4>1. u = s /\ h = f /\ n = 1
        BY <1>3, <1>4, <1>5, <3>1
      <4>2. Alike(s, s) /\ Flying(s)
        BY <1>5 DEF Alike, Steady, Flying
      <4> QED BY <1>1, <3>1, <4>1, <4>2
    <3>2. CASE f.merge # NoMerge
      <4> PICK g : g = OneMoreHeld(f)
        OBVIOUS
      <4>1. u = WithFlight(s, g)
        BY <3>2
      <4>2. /\ FlightOK(g) /\ g.generation = f.generation /\ g.phase = f.phase /\ g.final = f.final
            /\ g.merge # NoMerge /\ g.merge.passes = n
        BY SMTT(30), <1>1, <1>3, <1>4, <3>2, OneMoreHeldOK
      <4>3. Flying(s) => DOMAIN g = FlightFields /\ g.generation = s.co.generation
        <5>1. Flying(s) /\ s.co.flight = f
          BY <1>5 DEF Flying
        <5>2. f.generation = s.co.generation
          BY <5>1 DEF Fit
        <5> QED BY <4>2, <5>2 DEF FlightOK
      <4>4. Fit(u)
        BY ONLY <4>1, <4>3, FlightAlong, Fit(s) DEF WithFlight
      <4>5. Alike(u, s) /\ u.co.flight = g /\ Flying(u)
        <5>1. Alike(u, s) /\ u.co.flight = g /\ (Flying(u) <=> Flying(s))
          BY <4>1, FlightSet
        <5> QED BY <1>5, <5>1 DEF Flying
      <4> QED BY <4>2, <4>4, <4>5
    <3> QED BY <3>1, <3>2
  <2>3. /\ u.re.written = s.re.written /\ u.re.goal = s.re.goal /\ u.en.passes = passes /\ u.en.final = s.en.final
        /\ u.en.owed = s.en.owed /\ u.en.shown = s.en.shown /\ u.co.state = s.co.state /\ Steady(u, s)
    BY <2>2 DEF Alike
  <2>4. /\ Sound(t) /\ NoneLater(t, u) /\ Steady(t, u) /\ t.co.state = u.co.state
        /\ /\ OwnOf(u.en.owed, DOMAIN h.final) /\ DOMAIN h.final \subseteq DOMAIN final
           /\ FinalFrom(final, u.en.passes, 0, u.en.final)
           /\ \A w \in DOMAIN final : u.re.goal[w] = final[w]
           /\ \A w \in Window : w \notin DOMAIN Changed(h.final, final) => Reached(u, w)
           => LaidOut(t)
    <3>1. /\ u.re.written \in [Window -> Place] /\ u.re.goal \in [Window -> Place]
          /\ u.en.final \in Transfers(Place) /\ Queued(u.en.owed, u.en.shown)
          /\ \A i \in DOMAIN u.en.passes : PassOK(u.en.passes[i]) /\ u.en.passes[i].kind # "bounce"
      BY <1>6, <1>7, <2>3
    <3>2. n = Len(u.en.passes) /\ n # 0 /\ h.phase \in {"playing", "mergeHeld"} /\ h = u.co.flight
      BY <1>2, <1>3, <2>2, <2>3
    <3> QED BY ONLY <1>7, <2>1, <2>2, <3>1, <3>2, RetargetLaid
  <2>5. ASSUME LaidOut(was) PROVE LaidOut(t)
    <3>1. \A w : Reached(u, w) <=> Reached(s, w)
      BY <2>3 DEF Reached
    <3>2. OwnOf(u.en.owed, DOMAIN h.final) /\ DOMAIN h.final \subseteq DOMAIN final
          /\ FinalFrom(final, u.en.passes, 0, u.en.final)
      BY <1>8, <2>2, <2>3, <2>5 DEF AsksFor
    <3>3. \A w \in DOMAIN final : u.re.goal[w] = final[w]
      BY <1>8, <2>3, <2>5 DEF AsksFor
    <3>4. \A w \in Window : w \notin DOMAIN Changed(h.final, final) => Reached(u, w)
      BY <1>8, <2>2, <2>5, <3>1 DEF AsksFor
    <3> QED BY ONLY <2>4, <3>2, <3>3, <3>4
  <2>6. NoneLater(t, was)
    BY <1>5, <2>3, <2>4 DEF NoneLater
  <2>7. Steady(t, s)
    BY <2>3, <2>4 DEF Steady
  <2> QED BY <1>5, <2>3, <2>4, <2>5, <2>6, <2>7
<1>10. CASE SeenGrown(pass) # {}
  <2> PICK g : g = HeldWith(f, pass)
    OBVIOUS
  <2> PICK u : u = WithFlight(s, g)
    OBVIOUS
  <2> PICK frames : frames = Changed(f.final, pass.final)
    OBVIOUS
  <2> PICK wrote : wrote = Writes(u, frames)
    OBVIOUS
  <2>1. t = Watches(wrote)
    BY <1>5, <1>10, HoldMergeIs
  <2>2. /\ FlightOK(g) /\ g.generation = f.generation /\ g.kind = f.kind /\ g.phase = "mergeHeld"
        /\ g.final = final /\ g.merge # NoMerge /\ g.merge.passes = n
        /\ g.waiting \subseteq DOMAIN Awaiting(g)
    <3>1. f.merge.passes \in Nat /\ f.merge.passes + 1 = n
      BY <1>3, <1>4
    <3>2. FlightOK(f) /\ f.clock # "none" /\ PassOK(pass) /\ g = HeldWith(f, pass)
      BY <1>1
    <3>3. /\ FlightOK(g) /\ g.generation = f.generation /\ g.kind = f.kind /\ g.phase = "mergeHeld"
          /\ g.final = ExtendLatest(f.final, pass.final)
          /\ g.merge # NoMerge /\ g.merge.passes = f.merge.passes + 1
          /\ g.waiting \subseteq DOMAIN Awaiting(g)
      BY ONLY <3>1, <3>2, HeldWithOK
    <3>4. final = ExtendLatest(f.final, pass.final)
      OBVIOUS
    <3> QED BY ONLY <3>1, <3>3, <3>4
  <2>3. Fit(u) /\ Alike(u, s) /\ u.co.flight = g /\ Flying(u)
    <3>1. Flying(s) /\ s.co.flight = f
      BY <1>5 DEF Flying
    <3>2. Flying(s) => DOMAIN g = FlightFields /\ g.generation = s.co.generation
      <4>1. f.generation = s.co.generation
        BY <3>1 DEF Fit
      <4> QED BY <2>2, <4>1 DEF FlightOK
    <3>3. Fit(u)
      BY ONLY <3>2, FlightAlong, Fit(s), u = WithFlight(s, g) DEF WithFlight
    <3> QED BY <3>1, <3>3, FlightSet
  <2>4. /\ u.re.written = s.re.written /\ u.re.goal = s.re.goal /\ u.en.passes = passes /\ u.en.final = s.en.final
        /\ u.en.owed = s.en.owed /\ u.en.shown = s.en.shown /\ u.co.state = s.co.state /\ Steady(u, s)
    BY <2>3 DEF Alike
  <2>5. frames \in Transfers(Place) /\ DOMAIN frames \subseteq DOMAIN pass.final
        /\ \A w \in DOMAIN frames : frames[w] = pass.final[w]
    <3> DEFINE W == { w \in DOMAIN pass.final : w \notin DOMAIN f.final \/ f.final[w] # pass.final[w] }
    <3>1. frames = Restrict(pass.final, W) /\ W \subseteq DOMAIN pass.final
      BY DEF Changed
    <3>2. pass.final \in Transfers(Place)
      BY DEF PassOK
    <3> HIDE DEF W
    <3> QED BY <3>1, <3>2, Restricted
  <2>6. /\ wrote.co = u.co /\ wrote.en.passes = u.en.passes /\ wrote.en.final = u.en.final
        /\ wrote.re.goal = u.re.goal /\ wrote.re.written \in [Window -> Place]
        /\ Queued(wrote.en.owed, wrote.en.shown)
        /\ \A w \in DOMAIN frames : Reaches(wrote.re.written, wrote.en.owed, w, frames[w])
        /\ \A w \in Window : \A p : w \notin DOMAIN frames /\ Reaches(u.re.written, u.en.owed, w, p)
                                     => Reaches(wrote.re.written, wrote.en.owed, w, p)
        /\ \A D : OwnOf(u.en.owed, D) /\ DOMAIN frames \subseteq D => OwnOf(wrote.en.owed, D)
        /\ NoneLater(wrote, u) /\ Steady(wrote, u)
    <3>1. Fit(u) /\ frames \in Transfers(Place) /\ Queued(u.en.owed, u.en.shown)
          /\ u.re.written \in [Window -> Place] /\ wrote = Writes(u, frames)
      BY <1>6, <2>3, <2>4, <2>5
    <3> QED BY ONLY <3>1, WritesLaid
  <2>7. Fit(wrote)
    BY <2>3, WritesAlong
  <2>8. /\ t.co = wrote.co /\ t.re = wrote.re /\ t.en = wrote.en
        /\ g.kind # "bounce" => DOMAIN Awaiting(g) \subseteq DOMAIN t.pics.watch
    <3>1. /\ t.co = wrote.co /\ t.re = wrote.re /\ t.en = wrote.en
          /\ wrote.co.flight.kind # "bounce" => DOMAIN Awaiting(wrote.co.flight) \subseteq DOMAIN t.pics.watch
      BY ONLY <2>1, <2>7, WatchesLaid
    <3>2. wrote.co.flight = g
      BY <2>3, <2>6
    <3> QED BY ONLY <3>1, <3>2
  <2>9. /\ t.co.flight = g /\ t.co.state = was.co.state /\ t.en.passes = passes /\ t.en.final = s.en.final
        /\ t.re.goal = s.re.goal /\ t.re.written = wrote.re.written /\ t.en.owed = wrote.en.owed
        /\ t.en.shown = wrote.en.shown
    BY ZenonT(30), <1>5, <2>3, <2>4, <2>6, <2>8
  <2>10. Flying(t)
    BY <2>9 DEF Flying
  <2>11. Sound(t)
    <3>1. Typed(t)
      <4>1. /\ t.re.written \in [Window -> Place] /\ t.re.goal \in [Window -> Place] /\ t.en.final \in Transfers(Place)
            /\ Queued(t.en.owed, t.en.shown)
        BY <1>6, <1>7, <2>6, <2>9
      <4>2. \A i \in DOMAIN t.en.passes : PassOK(t.en.passes[i]) /\ t.en.passes[i].kind # "bounce"
        BY <1>6, <2>9
      <4> QED BY <2>2, <2>9, <4>1, <4>2 DEF Typed
    <3>2. WaitsIn(t) /\ HeldUp(t) /\ Asking(t)
      BY <1>3, <2>2, <2>8, <2>9 DEF WaitsIn, HeldUp, Asking
    <3> QED BY <2>10, <3>1, <3>2 DEF Sound
  <2>12. ASSUME LaidOut(was) PROVE LaidOut(t)
    <3>1. OwnOf(t.en.owed, DOMAIN g.final)
      <4>1. OwnOf(u.en.owed, DOMAIN final)
        <5>1. OwnOf(u.en.owed, DOMAIN f.final) /\ DOMAIN f.final \subseteq DOMAIN final
          BY <1>8, <2>4, <2>12 DEF AsksFor
        <5> QED BY <5>1 DEF OwnOf
      <4>2. DOMAIN frames \subseteq DOMAIN final
        BY <1>8, <2>5, <2>12 DEF AsksFor
      <4> QED BY <2>2, <2>6, <2>9, <4>1, <4>2
    <3>2. ASSUME NEW w \in Window PROVE Reached(t, w)
      <4>1. CASE w \in DOMAIN frames
        <5>1. Reaches(wrote.re.written, wrote.en.owed, w, frames[w])
          BY <2>6, <4>1
        <5>2. t.re.goal[w] = frames[w]
          <6>1. AsksFor(s, f, pass, final)
            BY <1>8, <2>12
          <6>2. w \in DOMAIN pass.final /\ frames[w] = pass.final[w]
            BY ONLY <2>5, <4>1
          <6>3. s.re.goal[w] = pass.final[w]
            BY ONLY <6>1, <6>2 DEF AsksFor
          <6> QED BY ONLY <2>9, <6>2, <6>3
        <5> QED BY <2>9, <5>1, <5>2 DEF Reached
      <4>2. CASE w \notin DOMAIN frames
        <5>1. Reaches(u.re.written, u.en.owed, w, s.re.goal[w])
          BY <1>8, <2>4, <2>12, <4>2 DEF AsksFor, Reached
        <5>2. Reaches(wrote.re.written, wrote.en.owed, w, s.re.goal[w])
          BY <2>6, <4>2, <5>1
        <5> QED BY <2>9, <5>2 DEF Reached
      <4> QED BY <4>1, <4>2
    <3>3. /\ FinalFrom(g.final, t.en.passes, 0, t.en.final)
          /\ g.kind = "bounce" => DOMAIN t.en.final = {}
          /\ \A w \in DOMAIN g.final : t.re.goal[w] = g.final[w]
      BY <1>8, <2>2, <2>9, <2>12 DEF AsksFor
    <3>4. t.co.flight = g /\ g.phase # "preparing"
      BY <2>2, <2>9
    <3>5. Layout(t)
      BY ONLY <3>1, <3>2, <3>3, <3>4 DEF Layout
    <3> QED BY <2>10, <3>5 DEF LaidOut
  <2>13. NoneLater(t, was)
    BY <1>5, <2>4, <2>6, <2>9 DEF NoneLater
  <2>14. Steady(t, s)
    BY <2>4, <2>6, <2>8 DEF Steady
  <2> QED BY <2>9, <2>11, <2>12, <2>13, <2>14
<1> QED BY <1>9, <1>10

Given(s, pics) == [s EXCEPT !.en.delivered = pics]
Repainted(f, pics) == [f EXCEPT !.merge.repainted = pics]

LEMMA GivenSame ==
    ASSUME NEW s, Fit(s), NEW pics, NEW t, t = Given(s, pics)
    PROVE  Fit(t) /\ Same(t, s) /\ (Flying(t) <=> Flying(s))
<1>1. /\ t.en.passes = s.en.passes /\ t.en.final = s.en.final /\ t.en.owed = s.en.owed /\ t.en.shown = s.en.shown
      /\ t.co = s.co /\ t.re = s.re /\ t.pics = s.pics
  BY DEF Given, Fit, Shape
<1>2. Same(t, s)
  BY <1>1 DEF Same, Alike, Steady
<1> QED BY <1>1, <1>2, DeliveredAlong DEF Given, Flying

(* A repaint taken for a merge held.                                       *)
LEMMA RepaintedLaid ==
    ASSUME NEW s, Fit(s), Sound(s), Flying(s), s.co.flight.merge # NoMerge, NEW pics,
           NEW g, g = Repainted(s.co.flight, pics), NEW t, t = WithFlight(s, g)
    PROVE  Fit(t) /\ Flying(t) /\ Goes(t, s)
<1> PICK f : f = s.co.flight
  OBVIOUS
<1> PICK m : m = f.merge
  OBVIOUS
<1>0. Typed(s) /\ HeldUp(s) /\ WaitsIn(s) /\ Asking(s) /\ FlightOK(f)
  BY DEF Sound, Typed
<1>1. DOMAIN m = MergeFields /\ m.passes \in Nat \ {0}
  BY <1>0 DEF FlightOK, MergeFields
<1> PICK n : n = [m EXCEPT !.repainted = pics]
  OBVIOUS
<1>2. DOMAIN n = MergeFields /\ n.passes = m.passes /\ n # NoMerge
  BY <1>1 DEF MergeFields, NoMerge
<1>3. /\ DOMAIN g = FlightFields /\ g.merge = n
      /\ \A k \in FlightFields \ {"merge"} : g[k] = f[k]
  BY <1>0 DEF Repainted, FlightOK, FlightFields
<1>4. /\ g.generation = f.generation /\ g.began = f.began /\ g.at = f.at /\ g.kind = f.kind
      /\ g.phase = f.phase /\ g.clock = f.clock /\ g.waiting = f.waiting
      /\ g.zeroOwed = f.zeroOwed /\ g.asked = f.asked /\ g.ends = f.ends /\ g.final = f.final
      /\ g.since = f.since /\ g.sentBy = f.sentBy /\ g.waits = f.waits
  BY <1>3 DEF FlightFields
<1>5. FlightOK(g)
  <2>1. DOMAIN g.merge = {"passes", "generation", "at", "ends", "repainted"} /\ g.merge.passes \in Nat \ {0}
    BY <1>1, <1>2, <1>3 DEF MergeFields
  <2>2. DOMAIN g = FlightFields
    BY <1>3
  <2> QED BY ONLY <1>0, <1>4, <2>1, <2>2 DEF FlightOK
<1>6. Fit(t) /\ Alike(t, s) /\ t.pics = s.pics /\ t.co.flight = g
  <2>1. Flying(s) => DOMAIN g = FlightFields /\ g.generation = s.co.generation
    BY <1>3, <1>4 DEF Fit
  <2>2. Fit(t)
    BY ONLY <2>1, FlightAlong, Fit(s), t = WithFlight(s, g) DEF WithFlight
  <2> QED BY <2>2, FlightSet
<1>7. /\ Typed(t) /\ HeldUp(t) /\ Flying(t) /\ NoneLater(t, s) /\ Steady(t, s) /\ t.co.state = s.co.state
      /\ (g.phase = "preparing" <=> f.phase = "preparing") /\ LaidOut(s) => LaidOut(t)
      /\ WaitsIn(t) /\ Asking(t) => Sound(t)
  <2>1. /\ t.pics.watch = s.pics.watch /\ g = t.co.flight /\ g.final = f.final /\ g.kind = f.kind
        /\ (g.merge = NoMerge <=> f.merge = NoMerge) /\ g.merge.passes = f.merge.passes
        /\ (g.phase = "mergeHeld" <=> f.phase = "mergeHeld")
    BY <1>2, <1>3, <1>4, <1>6
  <2>2. Typed(s) /\ Flying(s) /\ HeldUp(s) /\ Alike(t, s) /\ f = s.co.flight /\ FlightOK(g)
    BY <1>0, <1>5, <1>6
  <2> QED BY ONLY <2>1, <2>2, FlightChanged
<1>8. WaitsIn(t) /\ Asking(t)
  BY <1>0, <1>4, <1>6 DEF WaitsIn, Asking
<1> QED BY <1>4, <1>6, <1>7, <1>8 DEF Goes

LEMMA DrawsGoes ==
    ASSUME NEW s, Fit(s), Sound(s), NEW pics, NEW t, t = Draws(s, pics)
    PROVE  Fit(t) /\ Goes(t, s)
<1>1. Alike(t, s) /\ t.pics = s.pics /\ t.co = s.co
  BY DrawsLaid
<1>2. Same(t, s)
  BY <1>1 DEF Same
<1> QED BY <1>2, SameGoes, DrawsAlong

(* A picture offered: it may end the wait it was for.                      *)
LEMMA OfferedLaid ==
    ASSUME NEW s, Fit(s), Sound(s), NEW w, NEW pic, NEW t, t = Offered(s, w, pic)
    PROVE  Goes(t, s)
<1> PICK f : f = s.co.flight
  OBVIOUS
<1> PICK only : only = [v \in {w} |-> pic]
  OBVIOUS
<1> PICK given : given = Given(s, ExtendLatest(s.en.delivered, only))
  OBVIOUS
<1> PICK g : g = Repainted(given.co.flight, ExtendLatest(given.co.flight.merge.repainted, only))
  OBVIOUS
<1> PICK repainted : repainted = WithFlight(given, g)
  OBVIOUS
<1> PICK drawn : drawn = Draws(given, only)
  OBVIOUS
<1>1. \/ t = given
      \/ Flying(s) /\ f.merge # NoMerge /\ t = LetGo(repainted, w)
      \/ Flying(s) /\ t = LetGo(drawn, w)
      \/ Flying(s) /\ t = drawn
  <2> DEFINE repaint == /\ f.merge # NoMerge /\ pic.generation >= f.merge.generation
                        /\ w \in DOMAIN f.merge.ends /\ pic.place = f.merge.ends[w]
             u == [given EXCEPT !.co.flight.merge.repainted = ExtendLatest(@, only)]
  <2> DEFINE gave == [s EXCEPT !.en.delivered = ExtendLatest(@, [v \in {w} |-> pic])]
             again == [gave EXCEPT !.co.flight.merge.repainted = ExtendLatest(@, [v \in {w} |-> pic])]
             drew == Draws(gave, [v \in {w} |-> pic])
  <2>1. given = gave
    BY DEF Given
  <2>5. t = IF ~Flying(s) THEN gave
            ELSE IF repaint THEN LetGo(again, w)
            ELSE IF Takes(f, w, pic) /\ f.merge = NoMerge THEN LetGo(drew, w) ELSE drew
    BY ONLY t = Offered(s, w, pic), f = s.co.flight DEF Offered
  <2> HIDE DEF gave
  <2>6. again = u /\ drew = drawn
    BY <2>1
  <2> HIDE DEF again, drew
  <2>2. t = IF ~Flying(s) THEN given
            ELSE IF repaint THEN LetGo(u, w)
            ELSE IF Takes(f, w, pic) /\ f.merge = NoMerge THEN LetGo(drawn, w) ELSE drawn
    BY <2>1, <2>5, <2>6
  <2>3. u = repainted
    BY DEF WithFlight, Repainted
  <2>4. repaint => f.merge # NoMerge
    OBVIOUS
  <2> HIDE DEF u, repaint
  <2> QED BY <2>2, <2>3, <2>4
<1>2. Fit(given) /\ Same(given, s) /\ (Flying(given) <=> Flying(s))
  BY GivenSame
<1>3. Goes(given, s) /\ Sound(given)
  BY <1>2, SameGoes DEF Goes
<1>4. CASE Flying(s) /\ f.merge # NoMerge /\ t = LetGo(repainted, w)
  <2>1. given.co.flight.merge # NoMerge /\ Flying(given)
    BY <1>2, <1>4 DEF Same
  <2>2. Fit(repainted) /\ Flying(repainted) /\ Goes(repainted, given)
    BY <1>2, <1>3, <2>1, RepaintedLaid
  <2>3. Sound(repainted)
    BY <2>2 DEF Goes
  <2>4. Goes(t, repainted)
    BY <1>4, <2>2, <2>3, LetGoLaid
  <2> QED BY <1>3, <2>2, <2>4, GoesOn
<1>5. Fit(drawn) /\ Goes(drawn, given)
  BY <1>2, <1>3, DrawsGoes
<1>6. CASE Flying(s) /\ t = LetGo(drawn, w)
  <2>1. Flying(drawn) /\ Sound(drawn)
    BY <1>2, <1>5, <1>6 DEF Goes, Flying
  <2>2. Goes(t, drawn)
    BY <1>5, <1>6, <2>1, LetGoLaid
  <2> QED BY <1>3, <1>5, <2>2, GoesOn
<1>7. CASE Flying(s) /\ t = drawn
  BY <1>3, <1>5, <1>7, GoesOn
<1> QED BY <1>1, <1>3, <1>4, <1>6, <1>7

-----------------------------------------------------------------------------
(* What changes no part of the layout.                                     *)

CountedDown(f) == [f EXCEPT !.zeroOwed = @ - 1]

(* A frame-zero ask answered.                                              *)
LEMMA CountedLaid ==
    ASSUME NEW s, Fit(s), Sound(s), Flying(s), s.co.flight.phase = "preparing",
           NEW f, f = s.co.flight, NEW g, g = CountedDown(f), NEW t, t = WithFlight(s, g)
    PROVE  /\ Fit(t) /\ Flying(t) /\ Typed(t) /\ HeldUp(t) /\ t.co.flight = g /\ g.phase = "preparing"
           /\ NoneLater(t, s) /\ Steady(t, s) /\ t.co.state = s.co.state
           /\ LaidOut(s) => LaidOut(t)
           /\ f.zeroOwed > 1 => Sound(t)
<1>0. Typed(s) /\ HeldUp(s) /\ WaitsIn(s) /\ Asking(s) /\ FlightOK(f)
  BY DEF Sound, Typed
<1>1. /\ DOMAIN g = FlightFields /\ g.zeroOwed = f.zeroOwed - 1
      /\ \A k \in FlightFields \ {"zeroOwed"} : g[k] = f[k]
  BY <1>0 DEF CountedDown, FlightOK, FlightFields
<1>2. f.zeroOwed \in Nat /\ f.zeroOwed # 0
  BY <1>0 DEF Asking, FlightOK
<1>3. g.zeroOwed \in Nat /\ (f.zeroOwed > 1 => g.zeroOwed # 0)
  BY ONLY <1>1, <1>2
<1>4. /\ g.generation = f.generation /\ g.began = f.began /\ g.at = f.at /\ g.kind = f.kind
      /\ g.phase = f.phase /\ g.clock = f.clock /\ g.waiting = f.waiting
      /\ g.asked = f.asked /\ g.ends = f.ends /\ g.final = f.final /\ g.merge = f.merge
      /\ g.since = f.since /\ g.sentBy = f.sentBy /\ g.waits = f.waits
  BY <1>1 DEF FlightFields
<1>5. FlightOK(g)
  <2>1. DOMAIN g = FlightFields /\ g.zeroOwed \in Nat
    BY <1>1, <1>3
  <2> QED BY ONLY <1>0, <1>4, <2>1 DEF FlightOK
<1>6. Fit(t) /\ Alike(t, s) /\ t.pics = s.pics /\ t.co.flight = g
  <2>1. Flying(s) => DOMAIN g = FlightFields /\ g.generation = s.co.generation
    BY <1>1, <1>4 DEF Fit
  <2>2. Fit(t)
    BY ONLY <2>1, FlightAlong, Fit(s), t = WithFlight(s, g) DEF WithFlight
  <2> QED BY <2>2, FlightSet
<1>7. /\ Typed(t) /\ HeldUp(t) /\ Flying(t) /\ NoneLater(t, s) /\ Steady(t, s) /\ t.co.state = s.co.state
      /\ (g.phase = "preparing" <=> f.phase = "preparing") /\ LaidOut(s) => LaidOut(t)
      /\ WaitsIn(t) /\ Asking(t) => Sound(t)
  <2>1. /\ t.pics.watch = s.pics.watch /\ g = t.co.flight /\ g.final = f.final /\ g.kind = f.kind
        /\ (g.merge = NoMerge <=> f.merge = NoMerge) /\ g.merge.passes = f.merge.passes
        /\ (g.phase = "mergeHeld" <=> f.phase = "mergeHeld")
    BY <1>4, <1>6
  <2>2. Typed(s) /\ Flying(s) /\ HeldUp(s) /\ Alike(t, s) /\ f = s.co.flight /\ FlightOK(g)
    BY <1>0, <1>5, <1>6
  <2> QED BY ONLY <2>1, <2>2, FlightChanged
<1>8. WaitsIn(t) /\ (f.zeroOwed > 1 => Asking(t))
  BY <1>3, <1>4, <1>6 DEF WaitsIn, Asking
<1> QED BY <1>4, <1>6, <1>7, <1>8

LEMMA FrameZeroLaid ==
    ASSUME NEW s, Fit(s), Sound(s), NEW n, NEW t, t = FrameZeroHeard(s, n)
    PROVE  Goes(t, s)
<1> PICK f : f = s.co.flight
  OBVIOUS
<1> PICK g : g = CountedDown(f)
  OBVIOUS
<1> PICK counted : counted = WithFlight(s, g)
  OBVIOUS
<1>1. \/ t = s
      \/ /\ Flying(s) /\ f.phase = "preparing"
         /\ (f.zeroOwed > 1 /\ t = counted) \/ t = Show(counted)
  <2> DEFINE u == [s EXCEPT !.co.flight.zeroOwed = @ - 1]
  <2>1. u = counted
    BY DEF WithFlight, CountedDown
  <2>2. t = IF ~Flying(s) THEN s
            ELSE IF f.began # n \/ f.phase # "preparing" THEN s
            ELSE IF f.zeroOwed > 1 THEN u ELSE Show(u)
    BY DEF FrameZeroHeard
  <2> HIDE DEF u
  <2> QED BY <2>1, <2>2
<1>2. CASE t = s
  BY <1>2, SameGoes DEF Same, Alike, Steady
<1>3. CASE Flying(s) /\ f.phase = "preparing"
  <2>1. /\ Fit(counted) /\ Flying(counted) /\ Typed(counted) /\ HeldUp(counted)
        /\ counted.co.flight = g /\ g.phase = "preparing"
        /\ NoneLater(counted, s) /\ Steady(counted, s) /\ counted.co.state = s.co.state
        /\ LaidOut(s) => LaidOut(counted)
        /\ f.zeroOwed > 1 => Sound(counted)
    BY <1>3, CountedLaid
  <2>2. CASE f.zeroOwed > 1 /\ t = counted
    BY <2>1, <2>2 DEF Goes
  <2>3. CASE t = Show(counted)
    <3>1. Goes(t, counted)
      BY <2>1, <2>3, ShowLaid
    <3> QED BY <2>1, <3>1 DEF Goes, NoneLater, Steady
  <2>4. CASE t = s
    BY <1>2, <2>4
  <2> QED BY <1>1, <2>2, <2>3, <2>4
<1> QED BY <1>1, <1>2, <1>3

LEMMA LostLaid ==
    ASSUME NEW s, Fit(s), Sound(s), NEW lost, NEW t, t = LostHeard(s, lost)
    PROVE  Goes(t, s)
<1>1. t = s \/ (Flying(s) /\ t = LetGo(s, lost.window))
  BY DEF LostHeard
<1>2. CASE t = s
  BY <1>2, SameGoes DEF Same, Alike, Steady
<1> QED BY <1>1, <1>2, LetGoLaid

(* What is kept of the deliveries, and whether the clock must run on.      *)
LEMMA KeptSame ==
    ASSUME NEW s, Fit(s), NEW t, t = KeepHeld(s)
    PROVE  Same(t, s)
<1>1. \E pics : t = Given(s, pics)
  BY DEF KeepHeld, Given
<1> QED BY <1>1, GivenSame

LEMMA ExtendsSame ==
    ASSUME NEW s, Fit(s), NEW x, NEW t, t = [s EXCEPT !.extends = x]
    PROVE  Fit(t) /\ Same(t, s)
<1>1. t.co = s.co /\ t.en = s.en /\ t.pics = s.pics /\ t.re = s.re
  BY DEF Fit, Shape
<1>2. Fit(t)
  BY ExtendsAlong
<1> QED BY <1>1, <1>2 DEF Same, Alike, Steady

LEMMA RenderSame ==
    ASSUME NEW s, Fit(s), NEW c \in Commands, NEW t, t = Render(s, c)
    PROVE  Fit(t) /\ Same(t, s)
<1>1. t.co = s.co /\ t.en = s.en /\ t.pics = s.pics /\ t.re = s.re
  BY DEF Render, Fit, Shape
<1>2. Fit(t)
  BY RenderAlong
<1> QED BY <1>1, <1>2 DEF Same, Alike, Steady

-----------------------------------------------------------------------------
(* A flight's beginning and ends, and the layout.                          *)

(* Nothing owed to the windows is lost, and no write waits for longer.     *)
StillOwed(t, s) ==
    /\ t.en.shown = s.en.shown
    /\ Queued(s.en.owed, s.en.shown) => Queued(t.en.owed, t.en.shown)
    /\ \A w, p : Reaches(s.re.written, s.en.owed, w, p) => Reaches(t.re.written, t.en.owed, w, p)
    /\ \A n : AllBy(s.en.owed, n) => AllBy(t.en.owed, n)
    /\ NoneLater(t, s)

LEMMA HideLaid ==
    ASSUME NEW s, Fit(s), NEW owed, Sequence(owed), \A i \in DOMAIN owed : owed[i].what # "write",
           NEW t, t = Hide(s, owed)
    PROVE  /\ t.co = s.co /\ t.pics = s.pics /\ t.re = s.re
           /\ t.en.passes = s.en.passes /\ t.en.final = s.en.final
           /\ StillOwed(t, s)
<1> DEFINE hidden == [Render(s, "lift") EXCEPT !.en.lifted = Batch(s)]
           more == [i \in DOMAIN owed |-> [after |-> Batch(s), own |-> TRUE, owed |-> owed[i]]]
<1>1. t = [hidden EXCEPT !.en.owed = @ \o more]
  BY DEF Hide
<1> PICK r : r = Render(s, "lift")
  OBVIOUS
<1>2. Fit(r) /\ r.co = s.co /\ r.en = s.en /\ r.pics = s.pics /\ r.re = s.re
  BY RenderAlong DEF Render, Fit, Shape, Commands
<1>3. /\ Shape(hidden) /\ hidden.co = s.co /\ hidden.pics = s.pics /\ hidden.re = s.re
      /\ hidden.en.owed = s.en.owed /\ hidden.en.shown = s.en.shown /\ hidden.en.passes = s.en.passes
      /\ hidden.en.final = s.en.final
  <2>1. hidden = [r EXCEPT !.en.lifted = Batch(s)]
    OBVIOUS
  <2> HIDE DEF hidden
  <2> QED BY <1>2, <2>1 DEF Fit, Shape
<1> HIDE DEF hidden
<1>4. Sequence(more) /\ \A i \in DOMAIN more : ~IsWrite(more[i])
  <2>1. Len(owed) \in Nat /\ DOMAIN owed = 1..Len(owed)
    BY DEF Sequence
  <2>2. more = [i \in 1..Len(owed) |-> more[i]] /\ DOMAIN more = DOMAIN owed
    BY <2>1
  <2>3. \A i \in DOMAIN more : more[i].owed = owed[i]
    OBVIOUS
  <2> HIDE DEF more
  <2>4. more \in Seq({ more[i] : i \in DOMAIN more })
    BY <2>1, <2>2
  <2> QED BY <2>2, <2>3, <2>4 DEF Sequence, IsWrite
<1> HIDE DEF more
<1> PICK all : all = s.en.owed \o more
  OBVIOUS
<1>5. /\ t.co = s.co /\ t.pics = s.pics /\ t.re = s.re
      /\ t.en.passes = s.en.passes /\ t.en.final = s.en.final /\ t.en.shown = s.en.shown /\ t.en.owed = all
  BY <1>1, <1>3 DEF Shape
<1> PICK was : was = s.en.owed
  OBVIOUS
<1> PICK shown : shown = s.en.shown
  OBVIOUS
<1>6. /\ Queued(was, shown) => Queued(all, shown)
      /\ \A written, w, p : Reaches(written, was, w, p) => Reaches(written, all, w, p)
      /\ \A D : OwnOf(was, D) => OwnOf(all, D)
      /\ \A n : OthersBy(was, n) => OthersBy(all, n)
      /\ \A n : AllBy(was, n) => AllBy(all, n)
  <2>1. Sequence(was) /\ all = was \o more
    BY DEF Fit, OwedOK
  <2> QED BY ONLY <1>4, <2>1, OthersAppended
<1> QED BY <1>5, <1>6 DEF StillOwed, NoneLater

LEMMA LiftsOwed ==
    ASSUME NEW g, NEW owed \in {<<>>, <<QuietOwed(g), SettleOwed>>}
    PROVE  Sequence(owed) /\ \A i \in DOMAIN owed : owed[i].what # "write"
<1>1. CASE owed = <<>>
  BY <1>1 DEF Sequence
<1>2. CASE owed = <<QuietOwed(g), SettleOwed>>
  <2>1. QuietOwed(g).what # "write" /\ SettleOwed.what # "write"
    BY DEF QuietOwed, SettleOwed
  <2>2. \A i \in DOMAIN owed : owed[i].what # "write"
    BY <1>2, <2>1
  <2>3. Len(owed) \in Nat /\ owed = [i \in 1..Len(owed) |-> owed[i]] /\ DOMAIN owed = 1..Len(owed)
    BY <1>2
  <2>4. owed \in Seq({ owed[i] : i \in DOMAIN owed })
    BY ONLY <2>3
  <2> QED BY <2>2, <2>4 DEF Sequence
<1> QED BY <1>1, <1>2

LEMMA HideHeldLaid ==
    ASSUME NEW s, Fit(s), NEW g, s.en.lift \in {<<>>, <<QuietOwed(g), SettleOwed>>}, NEW t, t = HideHeld(s)
    PROVE  /\ Fit(t) /\ t.co = s.co /\ t.pics = s.pics /\ t.re = s.re
           /\ t.en.passes = s.en.passes /\ t.en.final = s.en.final
           /\ StillOwed(t, s)
<1>1. Fit(t)
  BY HideHeldOwes
<1>2. CASE s.en.lift = <<>>
  <2>1. t = s
    BY <1>2 DEF HideHeld
  <2> QED BY <1>1, <2>1 DEF StillOwed, NoneLater
<1>3. CASE s.en.lift # <<>>
  <2> PICK taken : taken = [s EXCEPT !.en.lift = <<>>]
    OBVIOUS
  <2> PICK owed : owed = s.en.lift
    OBVIOUS
  <2>1. t = Hide(taken, owed)
    BY <1>3 DEF HideHeld
  <2>2. /\ Shape(taken) /\ taken.co = s.co /\ taken.pics = s.pics /\ taken.re = s.re
        /\ taken.before = s.before /\ taken.batch = s.batch /\ taken.en.final = s.en.final
        /\ taken.en.owed = s.en.owed /\ taken.en.shown = s.en.shown /\ taken.en.passes = s.en.passes
    BY DEF Fit, Shape
  <2>3. Fit(taken)
    BY <2>2 DEF Fit, Top, Flying
  <2>4. Sequence(owed) /\ \A i \in DOMAIN owed : owed[i].what # "write"
    BY LiftsOwed
  <2>5. /\ t.co = taken.co /\ t.pics = taken.pics /\ t.re = taken.re
        /\ t.en.passes = taken.en.passes /\ t.en.final = taken.en.final
        /\ StillOwed(t, taken)
    BY ONLY <2>1, <2>3, <2>4, HideLaid
  <2>6. StillOwed(t, s)
    BY <2>2, <2>5 DEF StillOwed, NoneLater
  <2> QED BY <1>1, <2>2, <2>5, <2>6
<1> QED BY <1>2, <1>3

LEMMA NoTilesLaid ==
    ASSUME NEW s, Fit(s), NEW t, t = NoTiles(s)
    PROVE  /\ Fit(t) /\ t.co = s.co /\ t.re = s.re
           /\ t.en.passes = <<>> /\ t.en.final = Nothing /\ t.pics.watch = Nothing
           /\ StillOwed(t, s)
<1>1. Fit(t)
  BY NoTilesAlong
<1> PICK worn : worn = [w \in Window |-> 0]
  OBVIOUS
<1>2. t = [s EXCEPT !.en = [@ EXCEPT !.passes = <<>>, !.final = Nothing, !.worn = worn], !.pics.watch = Nothing]
  BY DEF NoTiles
<1> PICK e : e = [s.en EXCEPT !.passes = <<>>, !.final = Nothing, !.worn = worn]
  OBVIOUS
<1>4. t.co = s.co /\ t.re = s.re /\ t.en = e /\ t.pics.watch = Nothing
  BY <1>2 DEF Fit, Shape
<1>5. e.passes = <<>> /\ e.final = Nothing /\ e.owed = s.en.owed /\ e.shown = s.en.shown
  BY DEF Fit, Shape
<1>3. /\ t.co = s.co /\ t.re = s.re
      /\ t.en.passes = <<>> /\ t.en.final = Nothing /\ t.pics.watch = Nothing
      /\ t.en.owed = s.en.owed /\ t.en.shown = s.en.shown
  BY <1>4, <1>5
<1> QED BY <1>1, <1>3 DEF StillOwed, NoneLater

LEMMA ReleaseLaid ==
    ASSUME NEW s, Fit(s), NEW t, t = Release(s)
    PROVE  /\ Fit(t) /\ ~Flying(t) /\ t.en = s.en /\ t.pics.watch = s.pics.watch
           /\ t.re.written = s.re.written /\ t.re.goal = s.re.goal /\ Steady(t, s)
<1>1. Fit(t) /\ t.co.state = "idle" /\ t.en = s.en
  BY ReleaseLets
<1> PICK c : c = [s.co EXCEPT !.state = "idle", !.settles = 0, !.flight = NoFlight]
  OBVIOUS
<1>2. t = [s EXCEPT !.pics.hold = "released", !.re.reported = FALSE, !.co = c]
  BY DEF Release
<1>3. /\ t.pics.watch = s.pics.watch /\ t.re.written = s.re.written /\ t.re.goal = s.re.goal
      /\ t.re.requests = s.re.requests /\ t.re.scenario = s.re.scenario
  BY <1>2 DEF Fit, Shape
<1> QED BY <1>1, <1>3 DEF Flying, Steady

LEMMA NothingIs ==
    ASSUME NEW S PROVE Nothing \in Transfers(S) /\ DOMAIN Nothing = {}
<1>1. Nothing \in [{} -> S] /\ {} \in SUBSET Window
  BY DEF Nothing
<1> QED BY <1>1 DEF Transfers

LEMMA AbandonLaid ==
    ASSUME NEW s, Fit(s), s.re.written \in [Window -> Place], s.re.goal \in [Window -> Place],
           Queued(s.en.owed, s.en.shown), NEW f, f = s.co.flight, f.final \in Transfers(Place),
           NEW t, t = Abandon(s)
    PROVE  /\ Sound(t) /\ ~Flying(t) /\ Steady(t, s) /\ t.en.shown = s.en.shown
           /\ \A n : s.en.shown <= n /\ AllBy(s.en.owed, n) => AllBy(t.en.owed, n)
           /\ /\ f.kind = "bounce" => DOMAIN f.final = {}
              /\ \A w \in DOMAIN f.final : s.re.goal[w] = f.final[w]
              /\ \A w \in Window : w \notin DOMAIN f.final => Reached(s, w)
              => LaidOut(t)
<1> PICK none : none = <<>>
  OBVIOUS
<1> PICK h : h = Hide(s, none)
  OBVIOUS
<1> PICK bare : bare = NoTiles(h)
  OBVIOUS
<1> PICK wrote : wrote = Writes(bare, f.final)
  OBVIOUS
<1> PICK u : u = IF f.kind = "bounce" THEN bare ELSE wrote
  OBVIOUS
<1>1. t = Release(u)
  BY DEF Abandon
<1>2. /\ Fit(h) /\ h.co = s.co /\ h.re = s.re /\ StillOwed(h, s)
  <2> PICK g : g = 0
    OBVIOUS
  <2>1. none \in {<<>>, <<QuietOwed(g), SettleOwed>>}
    OBVIOUS
  <2>2. Fit(h)
    BY <2>1, HideOwes
  <2>3. Sequence(none) /\ \A i \in DOMAIN none : none[i].what # "write"
    BY DEF Sequence
  <2>4. h.co = s.co /\ h.re = s.re /\ StillOwed(h, s)
    BY ONLY <2>3, Fit(s), h = Hide(s, none), HideLaid
  <2> QED BY <2>2, <2>4
<1>3. /\ Fit(bare) /\ bare.co = h.co /\ bare.re = h.re
      /\ bare.en.passes = <<>> /\ bare.en.final = Nothing /\ bare.pics.watch = Nothing
      /\ StillOwed(bare, h)
  BY <1>2, NoTilesLaid
<1>4. /\ bare.re = s.re /\ bare.en.shown = s.en.shown /\ Queued(bare.en.owed, bare.en.shown)
      /\ \A w, p : Reaches(s.re.written, s.en.owed, w, p) => Reaches(bare.re.written, bare.en.owed, w, p)
      /\ \A n : AllBy(s.en.owed, n) => AllBy(bare.en.owed, n)
  BY <1>2, <1>3 DEF StillOwed
<1>5. /\ wrote.co = bare.co /\ wrote.pics = bare.pics
      /\ wrote.en.passes = bare.en.passes /\ wrote.en.final = bare.en.final /\ wrote.en.shown = bare.en.shown
      /\ wrote.re.goal = bare.re.goal /\ wrote.re.written \in [Window -> Place]
      /\ Queued(wrote.en.owed, wrote.en.shown)
      /\ \A w \in DOMAIN f.final : Reaches(wrote.re.written, wrote.en.owed, w, f.final[w])
      /\ \A w \in Window : \A p : w \notin DOMAIN f.final /\ Reaches(bare.re.written, bare.en.owed, w, p)
                                  => Reaches(wrote.re.written, wrote.en.owed, w, p)
      /\ \A D : OwnOf(bare.en.owed, D) /\ DOMAIN f.final \subseteq D => OwnOf(wrote.en.owed, D)
      /\ NoneLater(wrote, bare) /\ Steady(wrote, bare)
      /\ \A n : bare.en.shown <= n /\ AllBy(bare.en.owed, n) => AllBy(wrote.en.owed, n)
  <2> PICK frames : frames = f.final
    OBVIOUS
  <2>1. Fit(bare) /\ frames \in Transfers(Place) /\ Queued(bare.en.owed, bare.en.shown)
        /\ bare.re.written \in [Window -> Place]
    BY <1>3, <1>4
  <2>2. wrote = Writes(bare, frames)
    OBVIOUS
  <2>3. /\ wrote.co = bare.co /\ wrote.pics = bare.pics
        /\ wrote.en.passes = bare.en.passes /\ wrote.en.final = bare.en.final /\ wrote.en.shown = bare.en.shown
        /\ wrote.re.goal = bare.re.goal /\ wrote.re.written \in [Window -> Place]
        /\ Queued(wrote.en.owed, wrote.en.shown)
        /\ \A w \in DOMAIN frames : Reaches(wrote.re.written, wrote.en.owed, w, frames[w])
        /\ \A w \in Window : \A p : w \notin DOMAIN frames /\ Reaches(bare.re.written, bare.en.owed, w, p)
                                    => Reaches(wrote.re.written, wrote.en.owed, w, p)
        /\ \A D : OwnOf(bare.en.owed, D) /\ DOMAIN frames \subseteq D => OwnOf(wrote.en.owed, D)
        /\ NoneLater(wrote, bare) /\ Steady(wrote, bare)
        /\ \A n : bare.en.shown <= n /\ AllBy(bare.en.owed, n) => AllBy(wrote.en.owed, n)
    BY ONLY <2>1, <2>2, WritesLaid
  <2> QED BY <2>3
<1>6. Fit(wrote)
  BY <1>3, WritesAlong
<1>7. /\ Fit(u) /\ u.pics.watch = Nothing /\ u.en.passes = <<>> /\ u.en.final = Nothing
      /\ u.en.shown = s.en.shown /\ u.re.goal = s.re.goal /\ u.re.written \in [Window -> Place]
      /\ Queued(u.en.owed, u.en.shown) /\ Steady(u, s)
      /\ \A n : s.en.shown <= n /\ AllBy(s.en.owed, n) => AllBy(u.en.owed, n)
  <2>1. CASE f.kind = "bounce"
    BY <1>3, <1>4, <2>1 DEF Steady
  <2>2. CASE f.kind # "bounce"
    <3>1. u = wrote
      BY <2>2
    <3> QED BY <1>3, <1>4, <1>5, <1>6, <3>1 DEF Steady
  <2> QED BY <2>1, <2>2
<1>8. /\ Fit(t) /\ ~Flying(t) /\ t.en = u.en /\ t.pics.watch = u.pics.watch
      /\ t.re.written = u.re.written /\ t.re.goal = u.re.goal /\ Steady(t, u)
  <2>1. Fit(u) /\ t = Release(u)
    BY <1>1, <1>7
  <2> QED BY ONLY <2>1, ReleaseLaid
<1>9. Sound(t)
  <2>0. Nothing \in Transfers(Place)
    BY ONLY NothingIs
  <2>1. Nothing \in Transfers(Place) /\ DOMAIN t.en.passes = {}
    BY ONLY <1>7, <1>8, <2>0
  <2> QED BY <1>7, <1>8, <2>1 DEF Sound, Typed
<1>10. ASSUME f.kind = "bounce" => DOMAIN f.final = {}, \A w \in DOMAIN f.final : s.re.goal[w] = f.final[w],
              \A w \in Window : w \notin DOMAIN f.final => Reached(s, w)
       PROVE  LaidOut(t)
  <2>1. DOMAIN f.final \subseteq Window
    BY DEF Transfers
  <2>2. ASSUME NEW w \in Window PROVE Reaches(u.re.written, u.en.owed, w, s.re.goal[w])
    <3>1. CASE w \in DOMAIN f.final
      <4>1. u = wrote
        BY <1>10, <3>1
      <4> QED BY <1>5, <1>10, <3>1, <4>1
    <3>2. CASE w \notin DOMAIN f.final
      <4>1. Reaches(s.re.written, s.en.owed, w, s.re.goal[w])
        BY <1>10, <3>2 DEF Reached
      <4>2. Reaches(bare.re.written, bare.en.owed, w, s.re.goal[w])
        BY <1>4, <4>1
      <4>3. Reaches(wrote.re.written, wrote.en.owed, w, s.re.goal[w])
        BY <1>5, <3>2, <4>2
      <4> QED BY <4>2, <4>3
    <3> QED BY <3>1, <3>2
  <2> QED BY <1>7, <1>8, <2>2 DEF LaidOut, Reached
<1>11. Steady(t, s)
  BY <1>7, <1>8 DEF Steady
<1> QED BY <1>7, <1>8, <1>9, <1>10, <1>11

LEMMA LiftLaid ==
    ASSUME NEW s, Fit(s), Sound(s), Flying(s), s.co.flight.phase # "preparing", NEW measured, NEW t, t = Lift(s, measured)
    PROVE  /\ Sound(t) /\ ~Flying(t) /\ Steady(t, s) /\ StillOwed(t, s)
           /\ LaidOut(s) => LaidOut(t)
<1> PICK g : g = s.co.flight.generation
  OBVIOUS
<1> PICK owed : owed = <<QuietOwed(g), SettleOwed>>
  OBVIOUS
<1> PICK lifted : lifted = IF measured THEN [s EXCEPT !.en.lift = owed] ELSE Hide(s, owed)
  OBVIOUS
<1> PICK bare : bare = NoTiles(lifted)
  OBVIOUS
<1> PICK c : c = [bare.co EXCEPT !.state = "settling", !.settles = g, !.flight = NoFlight]
  OBVIOUS
<1>1. t = [bare EXCEPT !.co = c]
  <2> DEFINE l == IF measured THEN [s EXCEPT !.en.lift = <<QuietOwed(s.co.flight.generation), SettleOwed>>]
                  ELSE Hide(s, <<QuietOwed(s.co.flight.generation), SettleOwed>>)
             b == NoTiles(l)
  <2>1. t = [b EXCEPT !.co = [@ EXCEPT !.state = "settling", !.settles = s.co.flight.generation, !.flight = NoFlight]]
    BY DEF Lift
  <2>2. l = lifted
    OBVIOUS
  <2> HIDE DEF l
  <2>3. b = bare
    BY <2>2
  <2> HIDE DEF b
  <2> QED BY <2>1, <2>3
<1>2. Fit(lifted) /\ lifted.co = s.co /\ lifted.re = s.re /\ StillOwed(lifted, s)
  <2>1. CASE measured
    <3>1. lifted = [s EXCEPT !.en.lift = owed]
      BY <2>1
    <3>2. /\ Shape(lifted) /\ lifted.co = s.co /\ lifted.re = s.re /\ lifted.before = s.before /\ lifted.batch = s.batch
          /\ lifted.en.owed = s.en.owed /\ lifted.en.shown = s.en.shown /\ lifted.en.passes = s.en.passes
      BY <3>1 DEF Fit, Shape
    <3>3. Fit(lifted)
      BY <3>2 DEF Fit, Top, Flying
    <3> QED BY <3>2, <3>3 DEF StillOwed, NoneLater
  <2>2. CASE ~measured
    <3>1. lifted = Hide(s, owed) /\ owed \in {<<>>, <<QuietOwed(g), SettleOwed>>}
      BY <2>2
    <3>2. Fit(lifted)
      BY ONLY <3>1, Fit(s), HideOwes
    <3>3. Sequence(owed) /\ \A i \in DOMAIN owed : owed[i].what # "write"
      BY <3>1, LiftsOwed
    <3>4. lifted.co = s.co /\ lifted.re = s.re /\ StillOwed(lifted, s)
      BY ONLY <3>1, <3>3, Fit(s), HideLaid
    <3> QED BY <3>2, <3>4
  <2> QED BY <2>1, <2>2
<1>3. /\ Fit(bare) /\ bare.co = lifted.co /\ bare.re = lifted.re
      /\ bare.en.passes = <<>> /\ bare.en.final = Nothing /\ bare.pics.watch = Nothing
      /\ StillOwed(bare, lifted)
  BY ZenonT(30), <1>2, NoTilesLaid
<1>4. t.co.state = "settling" /\ t.en = bare.en /\ t.pics = bare.pics /\ t.re = bare.re
  <2>1. Shape(bare)
    BY <1>3 DEF Fit
  <2>2. c.state = "settling"
    <3>1. Shape(bare) /\ DOMAIN bare.co = {"state", "generation", "settles", "flight"}
      BY <2>1 DEF Shape
    <3> QED BY <3>1
  <2> QED BY ONLY <1>1, <2>1, <2>2 DEF Shape
<1>5. StillOwed(t, s)
  BY <1>2, <1>3, <1>4 DEF StillOwed, NoneLater
<1>6. Typed(s) /\ ~Flying(t)
  BY <1>4 DEF Sound, Flying
<1>7. /\ t.re = s.re /\ Queued(t.en.owed, t.en.shown)
      /\ \A w, p : Reaches(s.re.written, s.en.owed, w, p) => Reaches(t.re.written, t.en.owed, w, p)
  BY <1>2, <1>3, <1>4, <1>5, <1>6 DEF StillOwed, Typed
<1>8. Sound(t)
  <2>1. Nothing \in Transfers(Place) /\ DOMAIN t.en.passes = {}
    <3>1. t.en.passes = <<>>
      BY ONLY <1>3, <1>4
    <3>2. DOMAIN <<>> = {}
      OBVIOUS
    <3> QED BY ONLY <3>1, <3>2, NothingIs
  <2> QED BY <1>3, <1>4, <1>6, <1>7, <2>1 DEF Sound, Typed
<1>9. LaidOut(s) => LaidOut(t)
  <2>1. LaidOut(s) => \A w \in Window : Reached(s, w)
    BY DEF LaidOut, Layout
  <2> QED BY <1>6, <1>7, <2>1 DEF LaidOut, Reached
<1> QED BY <1>5, <1>6, <1>7, <1>8, <1>9 DEF Steady

(* s with a flight begun for pass, to be composed.                         *)
Readied(t, s, pass) ==
    LET f == t.co.flight IN
    /\ Fit(t) /\ Flying(t) /\ Typed(t) /\ HeldUp(t)
    /\ f.phase = "preparing" /\ f.zeroOwed = 1 /\ f.kind = pass.kind /\ f.final = pass.final
    /\ t.en.final = Nothing /\ t.en.shown = s.en.shown
    /\ t.re.goal = s.re.goal /\ Steady(t, s)
    /\ \A i \in DOMAIN t.en.owed : ~t.en.owed[i].own
    /\ \A w, p : Reaches(s.re.written, s.en.owed, w, p) => Reaches(t.re.written, t.en.owed, w, p)
    /\ \A n : AllBy(s.en.owed, n) => AllBy(t.en.owed, n)

LEMMA BeginLaid ==
    ASSUME NEW s, Fit(s), s.re.written \in [Window -> Place], s.re.goal \in [Window -> Place],
           Queued(s.en.owed, s.en.shown), s.en.passes = <<>>, NEW pass, PassOK(pass), NEW t, t = Begin(s, pass)
    PROVE  Readied(t, s, pass)
<1> PICK generation : generation = s.co.generation + 1
  OBVIOUS
<1> PICK start : start = { w \in DOMAIN pass.ends : reactor.written[w] \in Seen }
  OBVIOUS
<1> PICK f : f = [generation |-> generation, began |-> generation, at |-> pass.at, kind |-> pass.kind,
                 phase |-> "preparing", clock |-> "none", zeroOwed |-> 1, asked |-> start,
                 ends |-> pass.ends, final |-> pass.final,
                 since |-> [w \in DOMAIN pass.ends |-> generation],
                 sentBy |-> [w \in DOMAIN pass.ends |-> pass.at],
                 waits |-> Nothing, waiting |-> {}, merge |-> NoMerge]
  OBVIOUS
<1> PICK c : c = [state |-> "flying", generation |-> generation, settles |-> 0, flight |-> f]
  OBVIOUS
<1>1. t = [s EXCEPT
                  !.en.quiet = 0, !.en.owed = Begun(@), !.en.final = Nothing,
                  !.pics.hold = "transition", !.pics.zeros = Append(@, generation),
                  !.re.reported = TRUE, !.co = c]
  BY DEF Begin
<1>2. /\ DOMAIN f = FlightFields /\ f.generation = generation /\ f.began = generation /\ f.at = pass.at
      /\ f.kind = pass.kind /\ f.phase = "preparing" /\ f.clock = "none" /\ f.zeroOwed = 1 /\ f.asked = start
      /\ f.ends = pass.ends /\ f.final = pass.final
      /\ DOMAIN f.since = DOMAIN pass.ends /\ DOMAIN f.sentBy = DOMAIN pass.ends
      /\ f.waits = Nothing /\ f.waiting = {} /\ f.merge = NoMerge
  BY DEF FlightFields
<1>3. generation \in Nat /\ start \subseteq Window
  BY DEF Fit, PassOK, Transfers
<1>4. FlightOK(f)
  <2>1. Nothing \in Transfers(Sort)
    BY NothingIs
  <2>2. pass.at \in Nat /\ pass.kind \in Kind /\ pass.ends \in Transfers(Place) /\ pass.final \in Transfers(Place)
    BY DEF PassOK
  <2> QED BY ONLY <1>2, <1>3, <2>1, <2>2 DEF FlightOK, Early
<1>5. c.state = "flying" /\ c.flight = f
  OBVIOUS
<1>6. Fit(t)
  BY BeginLets
<1>7. t.co = c /\ t.re.written = s.re.written /\ t.re.goal = s.re.goal
      /\ t.re.requests = s.re.requests /\ t.re.scenario = s.re.scenario
  BY <1>1 DEF Fit, Shape
<1> PICK e : e = [s.en EXCEPT !.quiet = 0, !.owed = Begun(s.en.owed), !.final = Nothing]
  OBVIOUS
<1>e. t.en = e
  BY <1>1 DEF Fit, Shape
<1>8. t.en.owed = Begun(s.en.owed) /\ t.en.shown = s.en.shown /\ t.en.final = Nothing /\ t.en.passes = s.en.passes
  <2>1. Shape(s)
    BY DEF Fit
  <2>2. e.owed = Begun(s.en.owed) /\ e.shown = s.en.shown /\ e.final = Nothing /\ e.passes = s.en.passes
    BY ONLY <2>1, e = [s.en EXCEPT !.quiet = 0, !.owed = Begun(s.en.owed), !.final = Nothing] DEF Shape
  <2> QED BY ONLY <1>e, <2>2
<1> PICK was : was = s.en.owed
  OBVIOUS
<1>9. /\ \A written, w, p : Reaches(written, was, w, p) => Reaches(written, Begun(was), w, p)
      /\ \A n : Queued(was, n) => Queued(Begun(was), n)
      /\ \A i \in DOMAIN Begun(was) : ~Begun(was)[i].own
      /\ \A n : AllBy(was, n) => AllBy(Begun(was), n)
  <2> PICK top : top = Top(s)
    OBVIOUS
  <2>1. OwedOK(was, top)
    BY DEF Fit
  <2> QED BY ONLY <2>1, BegunReaches
<1>10. Flying(t) /\ t.co.flight = f
  BY <1>5, <1>7 DEF Flying
<1>11. Typed(t)
  <2>1. Nothing \in Transfers(Place) /\ DOMAIN t.en.passes = {}
    BY <1>8, NothingIs
  <2>2. Queued(t.en.owed, t.en.shown)
    BY <1>8, <1>9
  <2> QED BY <1>4, <1>7, <1>8, <1>10, <2>1, <2>2 DEF Typed
<1>12. HeldUp(t)
  <2>1. f.merge.passes = 0 /\ Len(t.en.passes) = 0 /\ t.en.passes = <<>>
    BY <1>2, <1>8 DEF NoMerge
  <2> QED BY <1>2, <1>10, <2>1 DEF HeldUp
<1> QED BY <1>2, <1>6, <1>7, <1>8, <1>9, <1>10, <1>11, <1>12 DEF Steady, Readied

-----------------------------------------------------------------------------
(* What is asked.                                                          *)

LEMMA PassIs ==
    ASSUME NEW r \in Request, NEW n \in Nat, reactor.goal \in [Window -> Place], NEW pass, pass = Pass(r, n)
    PROVE  /\ PassOK(pass) /\ pass.kind = r.kind
           /\ r.kind = "bounce" => pass.final = Nothing
<1>1. r.kind \in Kind /\ r.ends \in Transfers(Place) /\ r.sort \in Transfers(Sort) /\ DOMAIN r.sort = DOMAIN r.ends
  BY DEF Request
<1> PICK final : final = IF r.kind = "bounce" THEN Nothing ELSE Changed(reactor.goal, r.ends)
  OBVIOUS
<1> PICK waits : waits = Restrict(r.sort, { w \in DOMAIN final : r.sort[w] # "lands" })
  OBVIOUS
<1>2. pass = [kind |-> r.kind, ends |-> r.ends, final |-> final, at |-> n, waits |-> waits]
  BY DEF Pass
<1>3. pass.kind = r.kind /\ pass.ends = r.ends /\ pass.final = final /\ pass.at = n /\ pass.waits = waits
  BY <1>2
<1>4. final \in Transfers(Place) /\ DOMAIN final \subseteq DOMAIN r.ends /\ (r.kind = "bounce" => DOMAIN final = {})
  <2>1. CASE r.kind = "bounce"
    <3>1. Nothing \in Transfers(Place) /\ DOMAIN Nothing = {}
      BY ONLY NothingIs
    <3> QED BY <2>1, <3>1
  <2>2. CASE r.kind # "bounce"
    <3> PICK W : W = { w \in DOMAIN r.ends : w \notin DOMAIN reactor.goal \/ reactor.goal[w] # r.ends[w] }
      OBVIOUS
    <3> PICK ends : ends = r.ends
      OBVIOUS
    <3>1. final = Restrict(ends, W) /\ W \subseteq DOMAIN ends /\ ends \in Transfers(Place)
      BY <1>1, <2>2 DEF Changed
    <3>2. Restrict(ends, W) \in Transfers(Place) /\ DOMAIN Restrict(ends, W) = W
      BY ONLY <3>1, Restricted
    <3> QED BY <2>2, <3>1, <3>2
  <2> QED BY <2>1, <2>2
<1>5. waits \in Transfers(Sort)
  <2> PICK sort : sort = r.sort
    OBVIOUS
  <2> PICK W : W = { w \in DOMAIN final : sort[w] # "lands" }
    OBVIOUS
  <2>1. waits = Restrict(sort, W) /\ W \subseteq DOMAIN sort /\ sort \in Transfers(Sort)
    BY <1>1, <1>4
  <2>2. Restrict(sort, W) \in Transfers(Sort)
    BY ONLY <2>1, Restricted
  <2> QED BY <2>1, <2>2
<1> QED BY <1>1, <1>3, <1>4, <1>5 DEF PassOK

LEMMA RequestedLaid ==
    ASSUME Fit(Now), NEW r, NEW n, n = reactor.requests + 1, NEW pass, pass = Pass(r, n),
           NEW was, was = Now, NEW s, s = Requested(r)
    PROVE  /\ Fit(s) /\ Adds(s, was, pass) /\ s.en.passes = was.en.passes /\ s.en = was.en
           /\ s.re.requests = n /\ s.re.scenario = was.re.scenario
<1>1. Fit(s)
  BY RequestedAlong
<1> PICK goal : goal = ExtendLatest(was.re.goal, pass.final)
  OBVIOUS
<1>2. s = [was EXCEPT !.re.requests = n, !.re.goal = goal]
  BY NowFit DEF Requested
<1> PICK e : e = [was.re EXCEPT !.requests = n, !.goal = goal]
  OBVIOUS
<1>3. Shape(was)
  BY DEF Fit
<1>4. s.co = was.co /\ s.pics = was.pics /\ s.en = was.en /\ s.re = e
  BY ONLY <1>2, <1>3, e = [was.re EXCEPT !.requests = n, !.goal = goal] DEF Shape
<1>5. e.written = was.re.written /\ e.goal = goal /\ e.requests = n /\ e.scenario = was.re.scenario
  BY ONLY <1>3, e = [was.re EXCEPT !.requests = n, !.goal = goal] DEF Shape
<1> QED BY <1>1, <1>4, <1>5 DEF Adds

(* What is asked for is typed.                                             *)
LEMMA AddsSound ==
    ASSUME NEW was, Sound(was), NEW pass, PassOK(pass), NEW s, Adds(s, was, pass), s.en.passes = was.en.passes
    PROVE  Sound(s) /\ (Flying(s) <=> Flying(was))
           /\ s.re.goal \in [Window -> Place]
           /\ \A w \in Window : /\ w \in DOMAIN pass.final => s.re.goal[w] = pass.final[w]
                                /\ w \notin DOMAIN pass.final => s.re.goal[w] = was.re.goal[w]
<1>1. /\ s.co = was.co /\ s.pics = was.pics /\ s.re.written = was.re.written
      /\ s.re.goal = ExtendLatest(was.re.goal, pass.final)
      /\ s.en.final = was.en.final /\ s.en.owed = was.en.owed /\ s.en.shown = was.en.shown
      /\ s.en.passes = was.en.passes
  BY DEF Adds
<1>2. Typed(was) /\ pass.final \in Transfers(Place) /\ was.re.goal \in [Window -> Place]
  BY DEF Sound, PassOK, Typed
<1> PICK goal : goal = was.re.goal
  OBVIOUS
<1> PICK g : g = pass.final
  OBVIOUS
<1>3. /\ ExtendLatest(goal, g) \in [Window -> Place]
      /\ \A w \in Window : ExtendLatest(goal, g)[w] = IF w \in DOMAIN g THEN g[w] ELSE goal[w]
  <2>1. goal \in [Window -> Place] /\ g \in Transfers(Place)
    BY <1>2
  <2> QED BY ONLY <2>1, OverlaidAll
<1>4. Flying(s) <=> Flying(was)
  BY <1>1 DEF Flying
<1>5. s.re.goal \in [Window -> Place]
  BY <1>1, <1>3
<1>6. Typed(s)
  BY <1>1, <1>2, <1>4, <1>5 DEF Typed
<1>7. Sound(s)
  BY <1>1, <1>4, <1>6 DEF Sound, WaitsIn, HeldUp, Asking
<1> QED BY <1>1, <1>3, <1>4, <1>5, <1>7

(* A push asks for nothing.                                                *)
LEMMA NothingAdded ==
    ASSUME NEW was, Sound(was), NEW pass, pass.final = Nothing, NEW s, Adds(s, was, pass), s.en.passes = was.en.passes
    PROVE  LaidOut(was) => LaidOut(s)
<1>1. /\ s.co = was.co /\ s.pics = was.pics /\ s.re.written = was.re.written
      /\ s.re.goal = ExtendLatest(was.re.goal, pass.final)
      /\ s.en.final = was.en.final /\ s.en.owed = was.en.owed /\ s.en.shown = was.en.shown
      /\ s.en.passes = was.en.passes
  BY DEF Adds
<1> PICK goal : goal = was.re.goal
  OBVIOUS
<1>2. goal \in [Window -> Place] /\ Nothing \in Transfers(Place) /\ DOMAIN Nothing = {}
  <2>1. Nothing \in Transfers(Place) /\ DOMAIN Nothing = {}
    BY ONLY NothingIs
  <2> QED BY <2>1 DEF Sound, Typed
<1>3. /\ ExtendLatest(goal, Nothing) \in [Window -> Place]
      /\ \A w \in Window : ExtendLatest(goal, Nothing)[w] = IF w \in DOMAIN Nothing THEN Nothing[w] ELSE goal[w]
  BY ONLY <1>2, OverlaidAll
<1>4. s.re.goal = was.re.goal
  <2>1. \A w \in Window : ExtendLatest(goal, Nothing)[w] = goal[w]
    BY <1>2, <1>3
  <2> QED BY <1>1, <1>2, <1>3, <2>1
<1>5. Flying(s) <=> Flying(was)
  BY <1>1 DEF Flying
<1>6. \A w : Reached(s, w) <=> Reached(was, w)
  BY <1>1, <1>4 DEF Reached
<1> QED BY <1>1, <1>4, <1>5, <1>6 DEF LaidOut, Layout

(* A flight begun for what is asked, before it is composed.                *)
SetsOut(began, was, pass) ==
    LET f == began.co.flight IN
    /\ Fit(began) /\ Flying(began) /\ Typed(began) /\ HeldUp(began)
    /\ f.phase = "preparing" /\ f.zeroOwed = 1 /\ f.kind = pass.kind /\ f.final = pass.final
    /\ began.en.final = Nothing /\ began.en.shown = was.en.shown
    /\ \A i \in DOMAIN began.en.owed : ~began.en.owed[i].own
    /\ \A n : AllBy(was.en.owed, n) => AllBy(began.en.owed, n)
    /\ \A w \in DOMAIN pass.final : began.re.goal[w] = pass.final[w]
    /\ LaidOut(was) => \A w \in Window : w \notin DOMAIN pass.final => Reached(began, w)

LEMMA BegunLaid ==
    ASSUME NEW was, Sound(was), ~Flying(was), NEW pass, PassOK(pass),
           NEW asked, Fit(asked), Adds(asked, was, pass), asked.en.passes = was.en.passes,
           NEW g, asked.en.lift \in {<<>>, <<QuietOwed(g), SettleOwed>>},
           NEW hid, hid = HideHeld(asked), NEW began, began = Begin(hid, pass)
    PROVE  SetsOut(began, was, pass) /\ Steady(began, asked)
<1>1. /\ Sound(asked) /\ ~Flying(asked) /\ asked.re.goal \in [Window -> Place]
      /\ \A w \in Window : /\ w \in DOMAIN pass.final => asked.re.goal[w] = pass.final[w]
                           /\ w \notin DOMAIN pass.final => asked.re.goal[w] = was.re.goal[w]
  BY AddsSound
<1>2. /\ Fit(hid) /\ hid.re = asked.re /\ hid.en.passes = asked.en.passes /\ StillOwed(hid, asked)
  BY HideHeldLaid
<1>3. Typed(asked) /\ asked.en.passes = <<>>
  BY <1>1 DEF Sound
<1>4. /\ hid.re.written \in [Window -> Place] /\ hid.re.goal \in [Window -> Place]
      /\ Queued(hid.en.owed, hid.en.shown) /\ hid.en.passes = <<>>
  BY <1>2, <1>3 DEF Typed, StillOwed
<1>5. LET f == began.co.flight IN
      /\ Fit(began) /\ Flying(began) /\ Typed(began) /\ HeldUp(began)
      /\ f.phase = "preparing" /\ f.zeroOwed = 1 /\ f.kind = pass.kind /\ f.final = pass.final
      /\ began.en.final = Nothing /\ began.en.shown = hid.en.shown
      /\ began.re.goal = hid.re.goal /\ Steady(began, hid)
      /\ \A i \in DOMAIN began.en.owed : ~began.en.owed[i].own
      /\ \A w, p : Reaches(hid.re.written, hid.en.owed, w, p) => Reaches(began.re.written, began.en.owed, w, p)
      /\ \A n : AllBy(hid.en.owed, n) => AllBy(began.en.owed, n)
  <2>1. Fit(hid)
    BY <1>2
  <2>2. hid.re.written \in [Window -> Place] /\ hid.re.goal \in [Window -> Place]
    BY <1>4
  <2>3. Queued(hid.en.owed, hid.en.shown) /\ hid.en.passes = <<>>
    BY <1>4
  <2>4. Readied(began, hid, pass)
    BY ONLY <2>1, <2>2, <2>3, PassOK(pass), began = Begin(hid, pass), BeginLaid
  <2> QED BY ONLY <2>4 DEF Readied
<1>6. /\ began.en.shown = was.en.shown
      /\ \A n : AllBy(was.en.owed, n) => AllBy(began.en.owed, n)
  <2>1. asked.en.owed = was.en.owed /\ asked.en.shown = was.en.shown
    BY DEF Adds
  <2> QED BY <1>2, <1>5, <2>1 DEF StillOwed
<1>7. DOMAIN pass.final \subseteq Window
  BY DEF PassOK, Transfers
<1>8. \A w \in DOMAIN pass.final : began.re.goal[w] = pass.final[w]
  BY <1>1, <1>2, <1>5, <1>7
<1>9. ASSUME LaidOut(was), NEW w \in Window, w \notin DOMAIN pass.final PROVE Reached(began, w)
  <2>1. Reaches(was.re.written, was.en.owed, w, was.re.goal[w])
    BY <1>9 DEF LaidOut, Reached
  <2>2. asked.re.written = was.re.written /\ asked.en.owed = was.en.owed /\ asked.re.goal[w] = was.re.goal[w]
    BY <1>1, <1>9 DEF Adds
  <2>3. Reaches(hid.re.written, hid.en.owed, w, was.re.goal[w])
    BY <1>2, <2>1, <2>2 DEF StillOwed
  <2> QED BY <1>2, <1>5, <2>2, <2>3 DEF Reached
<1>10. Steady(began, asked)
  BY <1>2, <1>5 DEF Steady
<1> QED BY <1>5, <1>6, <1>8, <1>9, <1>10 DEF SetsOut

(* Composed: what is begun waits to be shown.                              *)
LEMMA PosedLaid ==
    ASSUME NEW was, NEW pass, PassOK(pass), NEW began, SetsOut(began, was, pass),
           NEW rendered, rendered = Render(began, "stage"), NEW t, t = Merge(rendered, pass)
    PROVE  /\ Sound(t) /\ Flying(t) /\ NoneLater(t, began) /\ Steady(t, began)
           /\ LaidOut(was) => LaidOut(t)
<1>0. LET f == began.co.flight IN
      /\ Fit(began) /\ Flying(began) /\ Typed(began) /\ HeldUp(began)
      /\ f.phase = "preparing" /\ f.zeroOwed = 1 /\ f.kind = pass.kind /\ f.final = pass.final
      /\ began.en.final = Nothing
      /\ \A i \in DOMAIN began.en.owed : ~began.en.owed[i].own
      /\ \A w \in DOMAIN pass.final : began.re.goal[w] = pass.final[w]
      /\ LaidOut(was) => \A w \in Window : w \notin DOMAIN pass.final => Reached(began, w)
  BY DEF SetsOut
<1>1. Fit(rendered) /\ Same(rendered, began)
  BY <1>0, RenderSame DEF Commands
<1>2. /\ rendered.co.flight = began.co.flight /\ rendered.co.state = began.co.state
      /\ rendered.re.written = began.re.written /\ rendered.re.goal = began.re.goal
      /\ rendered.en.passes = began.en.passes /\ rendered.en.final = began.en.final
      /\ rendered.en.owed = began.en.owed /\ rendered.en.shown = began.en.shown /\ Steady(rendered, began)
  BY <1>1 DEF Same, Alike
<1> PICK running : running = Runs(rendered, pass)
  OBVIOUS
<1>3. DOMAIN running = DOMAIN pass.final /\ \A w \in DOMAIN pass.final : running[w] = pass.final[w]
  <2>1. running = ExtendLatest(Nothing, pass.final)
    BY <1>0, <1>2 DEF Runs
  <2>2. DOMAIN Nothing = {}
    BY ONLY NothingIs
  <2> QED BY <2>1, <2>2 DEF ExtendLatest
<1>4. /\ Flying(rendered) /\ Typed(rendered) /\ HeldUp(rendered)
      /\ rendered.co.flight.phase = "preparing" /\ rendered.co.flight.zeroOwed # 0
      /\ pass.kind = "bounce" => DOMAIN running = {}
  <2>1. Flying(rendered)
    BY <1>0, <1>2 DEF Flying
  <2>2. Typed(rendered) /\ HeldUp(rendered)
    BY <1>0, <1>2, <2>1 DEF Typed, HeldUp
  <2>3. pass.kind = "bounce" => DOMAIN running = {}
    BY <1>3 DEF PassOK
  <2> QED BY <1>0, <1>2, <2>1, <2>2, <2>3
<1>5. /\ Sound(t) /\ NoneLater(t, rendered) /\ Steady(t, rendered) /\ t.co.state = rendered.co.state
      /\ /\ \A i \in DOMAIN rendered.en.owed : ~rendered.en.owed[i].own
         /\ \A w \in DOMAIN running : rendered.re.goal[w] = running[w]
         /\ \A w \in Window : w \notin DOMAIN running => Reached(rendered, w)
         => LaidOut(t)
  BY ONLY <1>1, <1>4, PassOK(pass), running = Runs(rendered, pass), t = Merge(rendered, pass), MergeEarly
<1>6. \A w : Reached(rendered, w) <=> Reached(began, w)
  BY <1>2 DEF Reached
<1>7. LaidOut(was) => LaidOut(t)
  BY <1>0, <1>2, <1>3, <1>5, <1>6
<1>8. Flying(t)
  BY <1>0, <1>2, <1>5 DEF Flying
<1> QED BY <1>2, <1>5, <1>7, <1>8 DEF NoneLater, Steady

(* Abandoned, with nothing worth drawing.                                  *)
LEMMA UndrawnLaid ==
    ASSUME NEW was, NEW pass, PassOK(pass), NEW began, SetsOut(began, was, pass), NEW t, t = Abandon(began)
    PROVE  /\ Sound(t) /\ ~Flying(t) /\ Steady(t, began) /\ t.en.shown = was.en.shown
           /\ \A n : was.en.shown <= n /\ AllBy(was.en.owed, n) => AllBy(t.en.owed, n)
           /\ LaidOut(was) => LaidOut(t)
<1> PICK f : f = began.co.flight
  OBVIOUS
<1>0. /\ Fit(began) /\ Typed(began) /\ f.kind = pass.kind /\ f.final = pass.final /\ began.en.shown = was.en.shown
      /\ \A n : AllBy(was.en.owed, n) => AllBy(began.en.owed, n)
      /\ \A w \in DOMAIN pass.final : began.re.goal[w] = pass.final[w]
      /\ LaidOut(was) => \A w \in Window : w \notin DOMAIN pass.final => Reached(began, w)
  BY DEF SetsOut
<1>1. /\ began.re.written \in [Window -> Place] /\ began.re.goal \in [Window -> Place]
      /\ Queued(began.en.owed, began.en.shown) /\ f.final \in Transfers(Place)
  BY <1>0 DEF Typed, PassOK
<1>2. /\ Sound(t) /\ ~Flying(t) /\ Steady(t, began) /\ t.en.shown = began.en.shown
      /\ \A n : began.en.shown <= n /\ AllBy(began.en.owed, n) => AllBy(t.en.owed, n)
      /\ /\ f.kind = "bounce" => DOMAIN f.final = {}
         /\ \A w \in DOMAIN f.final : began.re.goal[w] = f.final[w]
         /\ \A w \in Window : w \notin DOMAIN f.final => Reached(began, w)
         => LaidOut(t)
  <2>1. Fit(began)
    BY <1>0
  <2> QED BY ONLY <1>1, <2>1, f = began.co.flight, t = Abandon(began), AbandonLaid
<1>3. f.kind = "bounce" => DOMAIN f.final = {}
  BY <1>0 DEF PassOK
<1> QED BY <1>0, <1>2, <1>3

-----------------------------------------------------------------------------
(* Requests.                                                               *)

(* A request to a flight keeps the layout.                                 *)
Joins(t, was, asked) ==
    /\ Sound(t) /\ NoneLater(t, was) /\ Steady(t, asked) /\ t.co.state = was.co.state
    /\ LaidOut(was) => LaidOut(t)

(* With none held, the flight's frames are the engine's.                   *)
LEMMA FinalAlone ==
    ASSUME NEW s, Typed(s), Flying(s), s.en.passes = <<>>, Layout(s)
    PROVE  s.co.flight.final = s.en.final
<1>1. s.co.flight.final \in Transfers(Place) /\ s.en.final \in Transfers(Place)
  BY DEF Typed, FlightOK
<1>2. FinalFrom(s.co.flight.final, s.en.passes, 0, s.en.final)
  BY DEF Layout
<1>3. DOMAIN s.en.passes = 1..0 /\ 0 \in Nat
  OBVIOUS
<1> QED BY ONLY <1>1, <1>2, <1>3, FinalLast

LEMMA MergesLaid ==
    ASSUME NEW was, Sound(was), Flying(was), was.en.passes = <<>>, NEW pass, PassOK(pass), pass.kind # "bounce",
           NEW asked, Fit(asked), Adds(asked, was, pass), asked.en.passes = was.en.passes, NEW t, t = Merge(asked, pass)
    PROVE  Joins(t, was, asked)
<1> PICK running : running = Runs(asked, pass)
  OBVIOUS
<1> PICK f : f = was.co.flight
  OBVIOUS
<1>1. /\ asked.co = was.co /\ asked.pics = was.pics /\ asked.re.written = was.re.written
      /\ asked.en.final = was.en.final /\ asked.en.owed = was.en.owed /\ asked.en.shown = was.en.shown
  BY DEF Adds
<1>2. /\ Sound(asked) /\ Flying(asked)
      /\ \A w \in Window : /\ w \in DOMAIN pass.final => asked.re.goal[w] = pass.final[w]
                           /\ w \notin DOMAIN pass.final => asked.re.goal[w] = was.re.goal[w]
  BY AddsSound
<1>3. Typed(was) /\ Typed(asked) /\ HeldUp(was) /\ HeldUp(asked) /\ Asking(was) /\ FlightOK(f)
  BY <1>2 DEF Sound, Typed
<1>4. f.phase # "mergeHeld" /\ f.merge.passes = 0 /\ f.phase \in Early \cup {"playing"}
  <2>1. Len(was.en.passes) = 0
    OBVIOUS
  <2> QED BY <1>3, <2>1 DEF HeldUp, FlightOK
<1>5. DOMAIN pass.final \subseteq Window /\ DOMAIN f.final \subseteq Window
  BY <1>3 DEF PassOK, FlightOK, Transfers
<1>6. /\ DOMAIN running = DOMAIN was.en.final \cup DOMAIN pass.final
      /\ \A w \in DOMAIN running : running[w] = IF w \in DOMAIN pass.final THEN pass.final[w] ELSE was.en.final[w]
  BY <1>1 DEF Runs, ExtendLatest
<1>7. LaidOut(was) => Layout(was) /\ f.final = was.en.final
  BY <1>3, FinalAlone DEF LaidOut
<1>8. CASE f.phase = "preparing"
  <2>1. /\ Sound(t) /\ NoneLater(t, asked) /\ Steady(t, asked) /\ t.co.state = asked.co.state
        /\ /\ \A i \in DOMAIN asked.en.owed : ~asked.en.owed[i].own
           /\ \A w \in DOMAIN running : asked.re.goal[w] = running[w]
           /\ \A w \in Window : w \notin DOMAIN running => Reached(asked, w)
           => LaidOut(t)
    <3>1. asked.co.flight.phase = "preparing" /\ asked.co.flight.zeroOwed # 0
      BY <1>1, <1>3, <1>8 DEF Asking
    <3>2. pass.kind = "bounce" => DOMAIN running = {}
      OBVIOUS
    <3>3. Fit(asked) /\ Flying(asked) /\ Typed(asked) /\ HeldUp(asked)
      BY <1>2, <1>3
    <3> QED BY ONLY <3>1, <3>2, <3>3, PassOK(pass), running = Runs(asked, pass), t = Merge(asked, pass), MergeEarly
  <2>2. ASSUME LaidOut(was) PROVE LaidOut(t)
    <3>1. /\ \A w \in DOMAIN f.final : was.re.goal[w] = f.final[w]
          /\ \A w \in Window : w \notin DOMAIN f.final => Reached(was, w)
          /\ \A i \in DOMAIN was.en.owed : ~was.en.owed[i].own
      BY <1>7, <1>8, <2>2 DEF Layout
    <3>2. \A w \in DOMAIN running : asked.re.goal[w] = running[w]
      BY <1>2, <1>5, <1>6, <1>7, <2>2, <3>1
    <3>3. \A w \in Window : w \notin DOMAIN running => Reached(asked, w)
      BY <1>1, <1>2, <1>6, <1>7, <2>2, <3>1 DEF Reached
    <3> QED BY <1>1, <2>1, <3>1, <3>2, <3>3
  <2> QED BY <1>1, <2>1, <2>2 DEF Joins, NoneLater
<1>9. CASE f.phase # "preparing"
  <2>1. /\ Sound(t) /\ NoneLater(t, asked) /\ Steady(t, asked) /\ t.co.state = asked.co.state
        /\ /\ OwnOf(asked.en.owed, DOMAIN asked.co.flight.final) /\ DOMAIN asked.co.flight.final \subseteq DOMAIN running
           /\ \A w \in DOMAIN running : asked.re.goal[w] = running[w]
           /\ \A w \in Window : w \notin DOMAIN Changed(asked.co.flight.final, running) => Reached(asked, w)
           => LaidOut(t)
    <3>1. asked.co.flight.phase \in {"coalescing", "holding", "playing"}
      BY <1>1, <1>4, <1>9 DEF Early
    <3>2. ~Overtaken(asked.co.flight)
      BY <1>1, <1>4 DEF Overtaken
    <3>3. Fit(asked) /\ Flying(asked) /\ Typed(asked) /\ asked.en.passes = <<>>
      BY <1>2, <1>3
    <3> QED BY ONLY <3>1, <3>2, <3>3, PassOK(pass), pass.kind # "bounce", running = Runs(asked, pass), t = Merge(asked, pass), MergeLast
  <2>2. ASSUME LaidOut(was) PROVE LaidOut(t)
    <3>1. running = ExtendLatest(f.final, pass.final)
      BY <1>1, <1>7, <2>2 DEF Runs
    <3>2. AsksFor(asked, f, pass, running)
      <4>1. Typed(was) /\ Layout(was) /\ f = was.co.flight /\ FlightOK(f) /\ f.phase # "preparing"
        BY <1>3, <1>7, <1>9, <2>2
      <4> QED BY ONLY <3>1, <4>1, PassOK(pass), Adds(asked, was, pass), AddedLaid
    <3>3. OwnOf(was.en.owed, DOMAIN f.final)
      BY <1>7, <2>2 DEF Layout
    <3>4. /\ DOMAIN f.final \subseteq DOMAIN running
          /\ \A w \in DOMAIN running : asked.re.goal[w] = running[w]
          /\ \A w \in Window : w \notin DOMAIN Changed(f.final, running) => Reached(asked, w)
      BY <3>2 DEF AsksFor
    <3> QED BY <1>1, <2>1, <3>3, <3>4
  <2> QED BY <1>1, <2>1, <2>2 DEF Joins, NoneLater
<1> QED BY <1>8, <1>9

(* One held: it waits with the engine.                                     *)
LEMMA HeldLaid ==
    ASSUME NEW was, Fit(was), Sound(was), Flying(was), was.co.flight.clock # "none",
           NEW pass, PassOK(pass), pass.kind # "bounce",
           NEW asked, Fit(asked), Adds(asked, was, pass), asked.en.passes = was.en.passes,
           NEW more, more = [asked EXCEPT !.en.passes = Append(@, pass)], Fit(more), NEW t, t = HoldMerge(more, pass)
    PROVE  Joins(t, was, asked)
<1> PICK passes : passes = Append(asked.en.passes, pass)
  OBVIOUS
<1>1. /\ more.co = asked.co /\ more.pics = asked.pics /\ more.re = asked.re
      /\ more.en.final = asked.en.final /\ more.en.owed = asked.en.owed /\ more.en.shown = asked.en.shown
      /\ more.en.passes = passes
  <2>1. Shape(asked) /\ more = [asked EXCEPT !.en.passes = passes]
    BY DEF Fit
  <2> QED BY ONLY <2>1 DEF Shape
<1>2. Adds(more, was, pass)
  BY <1>1 DEF Adds
<1>3. more.en.passes = Append(was.en.passes, pass)
  BY <1>1
<1> PICK f : f = was.co.flight
  OBVIOUS
<1>4. f.clock # "none"
  OBVIOUS
<1>5. /\ Sound(t) /\ NoneLater(t, was) /\ Steady(t, more) /\ t.co.state = was.co.state
      /\ LaidOut(was) => LaidOut(t)
  BY ONLY <1>2, <1>3, <1>4, Fit(was), Sound(was), Flying(was), f = was.co.flight, PassOK(pass), pass.kind # "bounce",
          Fit(more), t = HoldMerge(more, pass), HoldMergeLaid
<1> QED BY <1>1, <1>5 DEF Joins, Steady

(* A push lengthens what plays.                                            *)
LEMMA PushesLaid ==
    ASSUME NEW was, Sound(was), Flying(was), NEW pass, PassOK(pass), pass.final = Nothing,
           NEW asked, Fit(asked), Adds(asked, was, pass), asked.en.passes = was.en.passes, NEW t, t = Extend(asked)
    PROVE  Joins(t, was, asked)
<1>1. /\ asked.co = was.co /\ asked.pics = was.pics /\ asked.en.owed = was.en.owed
  BY DEF Adds
<1>2. Sound(asked) /\ Flying(asked)
  BY AddsSound
<1>3. LaidOut(was) => LaidOut(asked)
  BY NothingAdded
<1> PICK f : f = asked.co.flight
  OBVIOUS
<1> PICK g : g = t.co.flight
  OBVIOUS
<1>4. Typed(asked) /\ HeldUp(asked) /\ WaitsIn(asked) /\ Asking(asked) /\ FlightOK(f)
  BY <1>2 DEF Sound, Typed
<1>5. /\ Alike(t, asked) /\ t.pics = asked.pics /\ FlightOK(g) /\ SamePlan(g, f) /\ g.waiting = f.waiting
      /\ g.phase = f.phase /\ g.zeroOwed = f.zeroOwed
  <2>1. FlightOK(asked.co.flight)
    BY <1>4
  <2> QED BY <2>1, ExtendLaid
<1>6. WaitsIn(t) /\ Asking(t)
  BY <1>4, <1>5 DEF WaitsIn, Asking, SamePlan
<1>7. /\ Sound(t) /\ NoneLater(t, asked) /\ Steady(t, asked) /\ t.co.state = asked.co.state
      /\ (t.co.flight.phase = "preparing" <=> asked.co.flight.phase = "preparing") /\ LaidOut(asked) => LaidOut(t)
  <2>1. /\ FlightOK(t.co.flight) /\ SamePlan(t.co.flight, asked.co.flight)
        /\ t.co.flight.phase = "mergeHeld" <=> asked.co.flight.phase = "mergeHeld"
    BY <1>5
  <2> QED BY <1>2, <1>4, <1>5, <1>6, <2>1, AlteredSound
<1>8. t.co.flight.phase = "preparing" <=> asked.co.flight.phase = "preparing"
  BY <1>5
<1> QED BY <1>1, <1>3, <1>7, <1>8 DEF Joins, NoneLater

-----------------------------------------------------------------------------
(* What holds besides the layout, and how an event keeps both.             *)

(* An answer for batches not drawn finds no write of an earlier flight     *)
(* that waits for a later one: what a flight that failed is dropped with   *)
(* is its own.                                                             *)
Heeds(s, n) ==
    /\ Flying(s) => OthersBy(s.en.owed, n)
    /\ ~Flying(s) => s.en.shown <= n /\ AllBy(s.en.owed, n)

LaidInv ==
    /\ Sound(Now)
    /\ \A k \in DOMAIN renderer.answers :
         ~renderer.answers[k].drawn => Heeds(Now, renderer.answers[k].upTo)
    /\ reactor.requests \in Nat /\ reactor.scenario \in Scenarios

LaidKept == LaidInv' /\ (LaidOut(Now) => LaidOut(Now)')

LEMMA Becoming ==
    ASSUME NEW s, Fit(s), Becomes(s), NEW now, now = Now' PROVE Same(now, s)
<1> PICK kept : kept = KeepHeld(s)
  OBVIOUS
<1>1. Same(kept, s)
  BY KeptSame
<1>2. coordinator' = kept.co /\ engine' = kept.en /\ pictures' = kept.pics /\ reactor' = kept.re
  BY DEF Becomes
<1>3. now.co = kept.co /\ now.en = kept.en /\ now.pics = kept.pics /\ now.re = kept.re
  BY <1>2 DEF Now
<1> QED BY <1>1, <1>3 DEF Same, Alike, Steady

LEMMA HeedsSame ==
    ASSUME NEW s, NEW t, Same(t, s), NEW n, Heeds(s, n) PROVE Heeds(t, n)
  BY DEF Same, Alike, Heeds, Flying

LEMMA HeedsOn ==
    ASSUME NEW s, NEW t, Flying(s), t.co.state = s.co.state, NoneLater(t, s), NEW n, Heeds(s, n) PROVE Heeds(t, n)
  BY DEF NoneLater, Heeds, Flying

(* Where no answer comes or goes.                                          *)
LEMMA Arrives ==
    ASSUME LaidInv, NEW now, now = Now', Sound(now), LaidOut(Now) => LaidOut(now),
           reactor'.requests \in Nat, reactor'.scenario = reactor.scenario, renderer'.answers = renderer.answers,
           \A k \in DOMAIN renderer.answers : ~renderer.answers[k].drawn => Heeds(now, renderer.answers[k].upTo)
    PROVE  LaidKept
<1>1. \A k \in DOMAIN renderer'.answers : ~renderer'.answers[k].drawn => Heeds(now, renderer'.answers[k].upTo)
  OBVIOUS
<1>2. LaidInv'
  BY <1>1 DEF LaidInv
<1> QED BY <1>2 DEF LaidKept

LEMMA EventHeeded ==
    ASSUME LaidInv, NEW s, Fit(s), Becomes(s), Sound(s), s.re.requests \in Nat, s.re.scenario = reactor.scenario,
           renderer'.answers = renderer.answers, LaidOut(Now) => LaidOut(s),
           \A k \in DOMAIN renderer.answers : ~renderer.answers[k].drawn => Heeds(s, renderer.answers[k].upTo)
    PROVE  LaidKept
<1> PICK now : now = Now'
  OBVIOUS
<1>1. Same(now, s)
  BY Becoming
<1>2. Sound(now) /\ (LaidOut(Now) => LaidOut(now))
  BY <1>1, SameSound
<1>3. reactor' = now.re /\ now.re.requests = s.re.requests /\ now.re.scenario = s.re.scenario
  <2>1. reactor' = now.re
    BY DEF Now
  <2> QED BY <1>1, <2>1 DEF Same, Alike, Steady
<1>4. \A k \in DOMAIN renderer.answers : ~renderer.answers[k].drawn => Heeds(now, renderer.answers[k].upTo)
  BY <1>1, HeedsSame
<1> QED BY <1>2, <1>3, <1>4, Arrives

LEMMA EventKeeps ==
    ASSUME LaidInv, NEW s, Fit(s), Becomes(s), Sound(s), s.re.requests \in Nat, s.re.scenario = reactor.scenario,
           renderer'.answers = renderer.answers,
           \A n : Heeds(Now, n) => Heeds(s, n), LaidOut(Now) => LaidOut(s)
    PROVE  LaidKept
<1>1. \A k \in DOMAIN renderer.answers : ~renderer.answers[k].drawn => Heeds(s, renderer.answers[k].upTo)
  BY DEF LaidInv
<1> QED BY <1>1, EventHeeded

LEMMA SendsAnswers ==
    ASSUME RendererOK, NEW s, Sends(s) PROVE renderer'.answers = renderer.answers
  BY DEF Sends, RendererOK

(* In flight, an event of the coordinator's.                               *)
LEMMA GoesKeeps ==
    ASSUME IInv, LaidInv, NEW s, Fit(s), Becomes(s), Sends(s), Flying(Now), Goes(s, Now)
    PROVE  LaidKept
<1>1. renderer'.answers = renderer.answers
  BY SendsAnswers DEF IInv
<1> PICK now : now = Now
  OBVIOUS
<1>2. Sound(s) /\ (LaidOut(Now) => LaidOut(s)) /\ NoneLater(s, now) /\ Steady(s, now) /\ s.co.state = now.co.state
      /\ Flying(now)
  BY DEF Goes
<1>3. \A n : Heeds(now, n) => Heeds(s, n)
  BY <1>2, HeedsOn
<1>4. s.re.requests \in Nat /\ s.re.scenario = reactor.scenario
  BY <1>2, NowFit DEF Steady, LaidInv
<1> QED BY <1>1, <1>2, <1>3, <1>4, EventKeeps

LEMMA SameKeeps ==
    ASSUME LaidInv, NEW s, Fit(s), Becomes(s), Same(s, Now), renderer'.answers = renderer.answers
    PROVE  LaidKept
<1> PICK now : now = Now
  OBVIOUS
<1>1. Same(s, now) /\ Sound(now)
  BY DEF LaidInv
<1>2. Sound(s) /\ (LaidOut(Now) => LaidOut(s))
  BY <1>1, SameSound
<1>3. \A n : Heeds(now, n) => Heeds(s, n)
  BY <1>1, HeedsSame
<1>4. s.re.requests \in Nat /\ s.re.scenario = reactor.scenario
  BY <1>1, NowFit DEF Same, Alike, Steady, LaidInv
<1> QED BY <1>2, <1>3, <1>4, EventKeeps

LEMMA AskedIs ==
    ASSUME LaidInv, NEW r, Asked(r), NEW n, n = reactor.requests + 1
    PROVE  r \in Request /\ n \in Nat /\ reactor.requests \in Nat
<1> PICK asks : asks = reactor.scenario.asks
  OBVIOUS
<1>1. asks \in Seq(SUBSET Request)
  BY FlightAssumption DEF LaidInv
<1>2. reactor.requests \in Nat /\ n \in Nat /\ reactor.requests < Len(asks) /\ r \in asks[n]
  BY DEF Asked, LaidInv
<1>3. n \in 1..Len(asks)
  BY <1>1, <1>2
<1>4. asks[n] \in SUBSET Request
  BY <1>1, <1>3
<1> QED BY <1>2, <1>4

(* What a request asks, of whatever is on.                                 *)
LEMMA AskedLaid ==
    ASSUME IInv, LaidInv, NEW r, Asked(r), NEW n, n = reactor.requests + 1, NEW pass, pass = Pass(r, n),
           NEW was, was = Now, NEW asked, asked = Requested(r)
    PROVE  /\ PassOK(pass) /\ pass.kind = r.kind /\ (r.kind = "bounce" => pass.final = Nothing)
           /\ Sound(was) /\ Fit(was)
           /\ Fit(asked) /\ Adds(asked, was, pass) /\ asked.en.passes = was.en.passes /\ asked.en = was.en
           /\ asked.re.requests \in Nat /\ asked.re.scenario = reactor.scenario
<1>1. r \in Request /\ n \in Nat
  BY AskedIs
<1>2. Sound(was) /\ Fit(was) /\ Fit(Now) /\ was.re = reactor
  BY NowFit DEF LaidInv, IInv
<1>3. reactor.goal \in [Window -> Place]
  BY <1>2 DEF Sound, Typed
<1>4. PassOK(pass) /\ pass.kind = r.kind /\ (r.kind = "bounce" => pass.final = Nothing)
  BY ONLY <1>1, <1>3, pass = Pass(r, n), PassIs
<1>5. /\ Fit(asked) /\ Adds(asked, was, pass) /\ asked.en.passes = was.en.passes /\ asked.en = was.en
      /\ asked.re.requests = n /\ asked.re.scenario = was.re.scenario
  BY ONLY <1>2, n = reactor.requests + 1, pass = Pass(r, n), was = Now, asked = Requested(r), RequestedLaid
<1> QED BY <1>1, <1>2, <1>4, <1>5

(* What a request at rest leaves.                                          *)
LEMMA BeginsLaid ==
    ASSUME NEW was, Sound(was), ~Flying(was), NEW pass, PassOK(pass), NEW began, SetsOut(began, was, pass),
           NEW drawn, NEW s,
           drawn => s = Merge(Render(began, "stage"), pass), ~drawn => s = Abandon(began)
    PROVE  /\ Fit(s) /\ Sound(s) /\ Steady(s, began) /\ (LaidOut(was) => LaidOut(s))
           /\ \A n : Heeds(was, n) => Heeds(s, n)
<1>1. Fit(began) /\ Flying(began) /\ \A n : AllBy(was.en.owed, n) => AllBy(began.en.owed, n)
  BY DEF SetsOut
<1>2. \A n : Heeds(was, n) => was.en.shown <= n /\ AllBy(was.en.owed, n)
  BY DEF Heeds
<1>3. CASE drawn
  <2> PICK rendered : rendered = Render(began, "stage")
    OBVIOUS
  <2>1. s = Merge(rendered, pass)
    BY <1>3
  <2>2. Fit(s)
    <3>1. Fit(rendered) /\ Same(rendered, began)
      BY <1>1, RenderSame DEF Commands
    <3>2. Flying(rendered)
      BY <1>1, <3>1 DEF Same, Alike, Flying
    <3> QED BY <2>1, <3>1, <3>2, MergeAlong
  <2>3. /\ Sound(s) /\ Flying(s) /\ NoneLater(s, began) /\ Steady(s, began)
        /\ LaidOut(was) => LaidOut(s)
    BY ONLY <2>1, PassOK(pass), SetsOut(began, was, pass), rendered = Render(began, "stage"), PosedLaid
  <2>4. \A n : AllBy(began.en.owed, n) => OthersBy(s.en.owed, n)
    <3>1. \A n : AllBy(began.en.owed, n) => OthersBy(began.en.owed, n)
      BY DEF AllBy, OthersBy
    <3> QED BY <2>3, <3>1 DEF NoneLater
  <2> QED BY <1>1, <1>2, <2>2, <2>3, <2>4 DEF Heeds
<1>4. CASE ~drawn
  <2>1. s = Abandon(began)
    BY <1>4
  <2>2. Fit(s)
    <3> DEFINE t == Abandon(began)
    <3>1. Fit(t)
      BY <1>1, AbandonLets, Zenon
    <3> QED BY <2>1, <3>1
  <2>3. /\ Sound(s) /\ ~Flying(s) /\ Steady(s, began) /\ s.en.shown = was.en.shown
        /\ \A n : was.en.shown <= n /\ AllBy(was.en.owed, n) => AllBy(s.en.owed, n)
        /\ LaidOut(was) => LaidOut(s)
    BY ONLY <2>1, PassOK(pass), SetsOut(began, was, pass), UndrawnLaid
  <2> QED BY <1>2, <2>2, <2>3 DEF Heeds
<1> QED BY <1>3, <1>4

LEMMA RequestBeginsLaid ==
    ASSUME IInv, LaidInv, NEW r, RequestBegins(r) PROVE LaidKept
<1> PICK n : n = reactor.requests + 1
  OBVIOUS
<1> PICK pass : pass = Pass(r, n)
  OBVIOUS
<1> PICK asked : asked = Requested(r)
  OBVIOUS
<1> PICK hid : hid = HideHeld(asked)
  OBVIOUS
<1> PICK began : began = Begin(hid, pass)
  OBVIOUS
<1> PICK posed : posed = Merge(Render(began, "stage"), pass)
  OBVIOUS
<1> PICK s : s = IF r.drawn THEN posed ELSE Abandon(began)
  OBVIOUS
<1> PICK was : was = Now
  OBVIOUS
<1>1. coordinator.state # "flying" /\ Becomes(s) /\ Sends(s) /\ Asked(r)
  BY DEF RequestBegins
<1>2. /\ PassOK(pass) /\ Sound(was) /\ Fit(asked) /\ Adds(asked, was, pass) /\ asked.en.passes = was.en.passes
      /\ asked.en = was.en /\ asked.re.requests \in Nat /\ asked.re.scenario = reactor.scenario
  BY <1>1, AskedLaid
<1>3. ~Flying(was) /\ was.en = engine
  BY <1>1, NowFit DEF Flying
<1> PICK g : g = coordinator.settles
  OBVIOUS
<1>4. asked.en.lift \in {<<>>, <<QuietOwed(g), SettleOwed>>}
  BY <1>1, <1>2, <1>3 DEF IInv, Stages, Resting, Measured, Lowered, Quiet
<1>5. SetsOut(began, was, pass) /\ Steady(began, asked)
  BY ONLY <1>2, <1>3, <1>4, hid = HideHeld(asked), began = Begin(hid, pass), BegunLaid
<1>6. (r.drawn => s = Merge(Render(began, "stage"), pass)) /\ (~r.drawn => s = Abandon(began))
  OBVIOUS
<1>7. /\ Fit(s) /\ Sound(s) /\ Steady(s, began) /\ (LaidOut(was) => LaidOut(s))
      /\ \A m : Heeds(was, m) => Heeds(s, m)
  <2> PICK drawn : drawn = r.drawn
    OBVIOUS
  <2>1. (drawn => s = Merge(Render(began, "stage"), pass)) /\ (~drawn => s = Abandon(began))
    BY <1>6
  <2> QED BY ONLY <1>2, <1>3, <1>5, <2>1, BeginsLaid
<1>8. s.re.requests \in Nat /\ s.re.scenario = reactor.scenario
  BY <1>2, <1>5, <1>7 DEF Steady
<1>9. renderer'.answers = renderer.answers
  BY <1>1, SendsAnswers DEF IInv
<1> QED BY <1>1, <1>7, <1>8, <1>9, EventKeeps

(* A request to a flight, as it leaves the record.                         *)
LEMMA JoinsKeeps ==
    ASSUME IInv, LaidInv, NEW was, was = Now, Flying(was), NEW asked, asked.re.requests \in Nat,
           asked.re.scenario = reactor.scenario, NEW after, Joins(after, was, asked),
           NEW s, Fit(s), Same(s, after), Becomes(s), Sends(s)
    PROVE  LaidKept
<1>1. /\ Sound(after) /\ NoneLater(after, was) /\ Steady(after, asked) /\ after.co.state = was.co.state
      /\ LaidOut(was) => LaidOut(after)
  BY DEF Joins
<1>2. Sound(s) /\ (LaidOut(after) => LaidOut(s)) /\ NoneLater(s, after) /\ Steady(s, after)
  BY <1>1, SameSound
<1>3. s.co.state = was.co.state
  BY <1>1 DEF Same, Alike
<1>4. NoneLater(s, was)
  BY <1>1, <1>2 DEF NoneLater
<1>5. \A n : Heeds(was, n) => Heeds(s, n)
  BY <1>3, <1>4, HeedsOn
<1>6. s.re.requests \in Nat /\ s.re.scenario = reactor.scenario
  BY <1>1, <1>2 DEF Steady
<1>7. renderer'.answers = renderer.answers
  BY SendsAnswers DEF IInv
<1> QED BY <1>1, <1>2, <1>5, <1>6, <1>7, EventKeeps

LEMMA ExtendsIs ==
    ASSUME NEW s, Fit(s), NEW x, NEW t, t = [s EXCEPT !.extends = x]
    PROVE  Fit(t) /\ t.co = s.co /\ t.en = s.en /\ t.pics = s.pics /\ t.re = s.re
<1>1. Fit(t)
  BY ExtendsSame
<1>2. t.co = s.co /\ t.en = s.en /\ t.pics = s.pics /\ t.re = s.re
  BY DEF Fit, Shape
<1> QED BY <1>1, <1>2

LEMMA OneMoreHeldFit ==
    ASSUME NEW t, Fit(t), NEW pass, NEW u, u = [t EXCEPT !.en.passes = Append(@, pass)]
    PROVE  Fit(u)
<1> PICK passes : passes = Append(t.en.passes, pass)
  OBVIOUS
<1>1. Sequence(passes)
  <2> PICK old : old = t.en.passes
    OBVIOUS
  <2> PICK X : X = { old[i] : i \in DOMAIN old } \cup {pass}
    OBVIOUS
  <2>1. old \in Seq(X) /\ pass \in X
    BY DEF Fit, Sequence
  <2>2. passes \in Seq(X)
    BY <2>1
  <2> QED BY <2>2, Reseated
<1>2. u = [t EXCEPT !.en.passes = passes]
  OBVIOUS
<1>3. u.co = t.co /\ u.before = t.before /\ u.batch = t.batch /\ DOMAIN u = DOMAIN t /\ DOMAIN u.en = DOMAIN t.en
      /\ u.pics = t.pics /\ u.re = t.re /\ u.en.owed = t.en.owed /\ u.en.shown = t.en.shown /\ u.en.passes = passes
  BY <1>2 DEF Fit, Shape
<1> QED BY <1>1, <1>3 DEF Fit, Shape, Top, Flying

LEMMA RequestMergesLaid ==
    ASSUME IInv, LaidInv, NEW r, RequestMerges(r) PROVE LaidKept
<1> PICK n : n = reactor.requests + 1
  OBVIOUS
<1> PICK pass : pass = Pass(r, n)
  OBVIOUS
<1> PICK asked : asked = Requested(r)
  OBVIOUS
<1> PICK was : was = Now
  OBVIOUS
<1> DEFINE held == coordinator.flight.clock # "none" /\ (Grows(pass) # {} \/ engine.passes # <<>>)
           still == coordinator.flight.clock = "none"
<1>1. PICK x \in BOOLEAN :
         LET t == [asked EXCEPT !.extends = x]
             u == [t EXCEPT !.en.passes = Append(@, pass)]
             after == IF held THEN HoldMerge(u, pass) ELSE Merge(t, pass)
             posed == IF still THEN Render(after, "stage") ELSE after
         IN  Becomes(posed) /\ Sends(posed)
  BY DEF RequestMerges
<1> PICK t : t = [asked EXCEPT !.extends = x]
  OBVIOUS
<1> PICK u : u = [t EXCEPT !.en.passes = Append(@, pass)]
  OBVIOUS
<1> PICK after : after = IF held THEN HoldMerge(u, pass) ELSE Merge(t, pass)
  OBVIOUS
<1> PICK s : s = IF still THEN Render(after, "stage") ELSE after
  OBVIOUS
<1>2. Becomes(s) /\ Sends(s)
  BY <1>1
<1>3. Asked(r) /\ coordinator.state = "flying" /\ r.kind # "bounce"
  BY DEF RequestMerges
<1>4. /\ held => after = HoldMerge(u, pass)
      /\ ~held => after = Merge(t, pass)
  OBVIOUS
<1>5. /\ still => s = Render(after, "stage")
      /\ ~still => s = after
  OBVIOUS
<1>6. /\ held => coordinator.flight.clock # "none"
      /\ ~held => coordinator.flight.clock = "none" \/ engine.passes = <<>>
  OBVIOUS
<1> HIDE DEF held, still
<1>7. /\ PassOK(pass) /\ pass.kind # "bounce" /\ Sound(was) /\ Fit(was)
      /\ Fit(asked) /\ Adds(asked, was, pass) /\ asked.en.passes = was.en.passes
      /\ asked.re.requests \in Nat /\ asked.re.scenario = reactor.scenario
  BY <1>3, AskedLaid
<1>8. Flying(was) /\ was.co = coordinator /\ was.en = engine
  BY <1>3, NowFit DEF Flying
<1>9. /\ Fit(t) /\ Adds(t, was, pass) /\ t.en.passes = was.en.passes /\ Flying(t)
      /\ t.re.requests \in Nat /\ t.re.scenario = reactor.scenario
  <2>1. Fit(t) /\ t.co = asked.co /\ t.en = asked.en /\ t.pics = asked.pics /\ t.re = asked.re
    BY <1>7, ExtendsIs
  <2> QED BY <1>7, <1>8, <2>1 DEF Adds, Flying
<1>10. Joins(after, was, t) /\ Fit(after)
  <2>1. CASE held
    <3>1. Fit(u)
      BY <1>9, OneMoreHeldFit
    <3>2. after = HoldMerge(u, pass)
      BY <1>4, <2>1
    <3>3. was.co.flight.clock # "none"
      BY <1>6, <1>8, <2>1
    <3>4. Joins(after, was, t)
      BY ONLY <1>7, <1>8, <1>9, <3>1, <3>2, <3>3, u = [t EXCEPT !.en.passes = Append(@, pass)], HeldLaid
    <3>5. Flying(u)
      <4>1. u.co = t.co
        BY <1>9 DEF Fit, Shape
      <4> QED BY <1>9, <4>1 DEF Flying
    <3>6. Fit(after)
      BY <3>1, <3>2, <3>5, HoldMergeAlong
    <3> QED BY <3>4, <3>6
  <2>2. CASE ~held
    <3>1. after = Merge(t, pass)
      BY <1>4, <2>2
    <3>2. was.en.passes = <<>>
      <4>1. HeldUp(was) /\ FlightOK(was.co.flight)
        BY <1>7, <1>8 DEF Sound, Typed
      <4>2. CASE was.co.flight.clock = "none"
        BY <4>1, <4>2 DEF HeldUp, FlightOK, Early
      <4>3. CASE engine.passes = <<>>
        BY <1>8, <4>3
      <4> QED BY <1>6, <1>8, <2>2, <4>2, <4>3
    <3>3. Joins(after, was, t)
      BY ONLY <1>7, <1>8, <1>9, <3>1, <3>2, MergesLaid
    <3>4. Fit(after)
      BY <1>9, <3>1, MergeAlong
    <3> QED BY <3>3, <3>4
  <2> QED BY <2>1, <2>2
<1>11. Fit(s) /\ Same(s, after)
  <2>1. CASE still
    <3>1. s = Render(after, "stage")
      BY <1>5, <2>1
    <3> QED BY <1>10, <3>1, RenderSame DEF Commands
  <2>2. CASE ~still
    <3>1. s = after
      BY <1>5, <2>2
    <3> QED BY <1>10, <3>1 DEF Same, Alike, Steady
  <2> QED BY <2>1, <2>2
<1>12. IInv /\ LaidInv
  OBVIOUS
<1> QED BY ONLY <1>2, <1>8, <1>9, <1>10, <1>11, <1>12, was = Now, JoinsKeeps

LEMMA RequestPushesLaid ==
    ASSUME IInv, LaidInv, NEW r, RequestPushes(r) PROVE LaidKept
<1> PICK n : n = reactor.requests + 1
  OBVIOUS
<1> PICK pass : pass = Pass(r, n)
  OBVIOUS
<1> PICK was : was = Now
  OBVIOUS
<1> PICK asked : asked = Requested(r)
  OBVIOUS
<1> PICK t : t = [asked EXCEPT !.extends = TRUE]
  OBVIOUS
<1> PICK s : s = Extend(t)
  OBVIOUS
<1>1. Becomes(s) /\ Sends(s) /\ coordinator.state = "flying" /\ Asked(r) /\ r.kind = "bounce"
  BY DEF RequestPushes
<1>2. /\ PassOK(pass) /\ pass.final = Nothing /\ Sound(was) /\ Fit(was)
      /\ Fit(asked) /\ Adds(asked, was, pass) /\ asked.en.passes = was.en.passes
      /\ asked.re.requests \in Nat /\ asked.re.scenario = reactor.scenario
  BY <1>1, AskedLaid
<1>3. Flying(was) /\ was.co = coordinator
  BY <1>1, NowFit DEF Flying
<1>4. /\ Fit(t) /\ Adds(t, was, pass) /\ t.en.passes = was.en.passes /\ Flying(t)
      /\ t.re.requests \in Nat /\ t.re.scenario = reactor.scenario
  <2>1. Fit(t) /\ t.co = asked.co /\ t.en = asked.en /\ t.pics = asked.pics /\ t.re = asked.re
    BY <1>2, ExtendsIs
  <2> QED BY <1>2, <1>3, <2>1 DEF Adds, Flying
<1>5. Joins(s, was, t)
  BY ONLY <1>2, <1>3, <1>4, s = Extend(t), PushesLaid
<1>6. Fit(s) /\ Same(s, s)
  <2>1. Fit(s)
    BY <1>4, ExtendAlong
  <2> QED BY <2>1 DEF Same, Alike, Steady
<1> QED BY <1>1, <1>3, <1>4, <1>5, <1>6, JoinsKeeps

-----------------------------------------------------------------------------
(* What the engine's thread and the pictures service do.                   *)

LEMMA GoesFrom ==
    ASSUME NEW r, Sound(r), NEW s, Same(s, r), NEW t, Goes(t, s) PROVE Goes(t, r)
<1>1. Goes(s, r)
  BY SameGoes
<1> QED BY ONLY <1>1, Goes(t, s), GoesOn

(* Now, if it must the flight is lengthened.                               *)
LEMMA ExtendedLaid ==
    ASSUME IInv, LaidInv, NEW x, NEW now, now = [Now EXCEPT !.extends = x]
    PROVE  /\ Fit(now) /\ Same(now, Now) /\ Sound(now) /\ Sound(Now)
           /\ now.co = coordinator /\ now.en = engine /\ now.pics = pictures /\ now.re = reactor
<1> PICK was : was = Now
  OBVIOUS
<1>1. Fit(was) /\ Sound(was) /\ now = [was EXCEPT !.extends = x]
  BY DEF IInv, LaidInv
<1>2. Fit(now) /\ Same(now, was)
  BY <1>1, ExtendsSame
<1>3. Sound(now)
  BY <1>1, <1>2, SameSound
<1>4. now.co = was.co /\ now.en = was.en /\ now.pics = was.pics /\ now.re = was.re
  BY <1>1, ExtendsIs
<1> QED BY <1>1, <1>2, <1>3, <1>4, NowFit

(* The last tick before the motion.                                        *)
LEMMA HoldOrMoveGoes ==
    ASSUME NEW s, Fit(s), Flying(s), Sound(s), s.co.flight.phase \in {"coalescing", "holding"},
           NEW t, t = HoldOrMove(s) \/ t = StartMoving(s)
    PROVE  Fit(t) /\ Goes(t, s)
<1> PICK f : f = s.co.flight
  OBVIOUS
<1> PICK g : g = t.co.flight
  OBVIOUS
<1>1. Typed(s) /\ HeldUp(s) /\ WaitsIn(s) /\ FlightOK(f)
  BY DEF Sound, Typed
<1>2. f.clock = "none" /\ f.phase \in {"coalescing", "holding"}
  BY <1>1 DEF FlightOK, Early
<1>3. /\ Alike(t, s) /\ t.pics = s.pics /\ FlightOK(g) /\ SamePlan(g, f) /\ g.waiting = f.waiting
      /\ g.phase \in {"holding", "playing"}
  <2>1. FlightOK(s.co.flight) /\ s.co.flight.clock = "none"
    BY <1>1, <1>2
  <2>2. CASE t = HoldOrMove(s)
    BY <2>1, <2>2, HoldOrMoveLaid
  <2>3. CASE t = StartMoving(s)
    BY <2>1, <2>3, StartMovingLaid
  <2> QED BY <2>2, <2>3
<1>4. WaitsIn(t) /\ Asking(t)
  BY <1>1, <1>2, <1>3 DEF WaitsIn, Asking, SamePlan
<1>5. /\ t.co.flight.phase = "mergeHeld" <=> s.co.flight.phase = "mergeHeld"
      /\ FlightOK(t.co.flight) /\ SamePlan(t.co.flight, s.co.flight) /\ Alike(t, s) /\ t.pics = s.pics
  BY <1>2, <1>3
<1>6. /\ Sound(t) /\ NoneLater(t, s) /\ Steady(t, s) /\ t.co.state = s.co.state
      /\ (t.co.flight.phase = "preparing" <=> s.co.flight.phase = "preparing") /\ LaidOut(s) => LaidOut(t)
  BY ONLY <1>1, <1>4, <1>5, Flying(s), AlteredSound
<1>7. t.co.flight.phase = "preparing" <=> s.co.flight.phase = "preparing"
  BY <1>2, <1>3
<1>8. Fit(t)
  BY HoldOrMoveAlong, StartMovingAlong
<1> QED BY <1>6, <1>7, <1>8 DEF Goes

LEMMA TickDueLaid ==
    ASSUME IInv, LaidInv, TickDue PROVE LaidKept
<1> PICK x \in BOOLEAN :
         LET now == [Now EXCEPT !.extends = x]
             s == CASE Ticks("preparing")  -> Show(now)
                    [] Ticks("coalescing") -> HoldOrMove(now)
                    [] Ticks("holding")    -> StartMoving(now)
                    [] Ticks("mergeHeld")  -> Retarget(now)
         IN
         /\ \E phase \in {"preparing", "coalescing", "holding", "mergeHeld"} : Ticks(phase)
         /\ Becomes(s) /\ Sends(s)
  BY DEF TickDue
<1> PICK now : now = [Now EXCEPT !.extends = x]
  OBVIOUS
<1> PICK phase : phase = coordinator.flight.phase
  OBVIOUS
<1>1. coordinator.state = "flying" /\ phase \in {"preparing", "coalescing", "holding", "mergeHeld"}
  BY DEF Ticks
<1>2. \E s : /\ Becomes(s) /\ Sends(s)
             /\ \/ phase = "preparing" /\ s = Show(now)
                \/ phase \in {"coalescing", "holding"} /\ (s = HoldOrMove(now) \/ s = StartMoving(now))
                \/ phase = "mergeHeld" /\ s = Retarget(now)
  <2>1. CASE phase = "preparing"
    BY <1>1, <2>1 DEF Ticks
  <2>2. CASE phase = "coalescing"
    BY <1>1, <2>2 DEF Ticks
  <2>3. CASE phase = "holding"
    BY <1>1, <2>3 DEF Ticks
  <2>4. CASE phase = "mergeHeld"
    BY <1>1, <2>4 DEF Ticks
  <2> QED BY <1>1, <2>1, <2>2, <2>3, <2>4
<1> PICK s : /\ Becomes(s) /\ Sends(s)
             /\ \/ phase = "preparing" /\ s = Show(now)
                \/ phase \in {"coalescing", "holding"} /\ (s = HoldOrMove(now) \/ s = StartMoving(now))
                \/ phase = "mergeHeld" /\ s = Retarget(now)
  BY <1>2
<1>3. Fit(now) /\ Same(now, Now) /\ Sound(now) /\ Sound(Now) /\ now.co = coordinator
  BY ExtendedLaid
<1>4. Flying(now) /\ Flying(Now) /\ now.co.flight.phase = phase
  BY <1>1, <1>3, NowFit DEF Flying
<1>5. Fit(s) /\ Goes(s, now)
  <2>1. CASE phase = "preparing" /\ s = Show(now)
    <3>1. Typed(now) /\ HeldUp(now) /\ now.co.flight.phase = "preparing"
      BY <1>3, <1>4, <2>1 DEF Sound
    <3>2. Goes(s, now)
      BY <1>3, <1>4, <2>1, <3>1, ShowLaid
    <3> QED BY <1>3, <2>1, <3>2, ShowAlong
  <2>2. CASE phase \in {"coalescing", "holding"} /\ (s = HoldOrMove(now) \/ s = StartMoving(now))
    BY <1>3, <1>4, <2>2, HoldOrMoveGoes
  <2>3. CASE phase = "mergeHeld" /\ s = Retarget(now)
    <3>1. Goes(s, now)
      BY <1>3, <1>4, <2>3, RetargetHeld
    <3> QED BY <1>3, <1>4, <2>3, <3>1, RetargetAlong
  <2> QED BY <2>1, <2>2, <2>3
<1>6. Goes(s, Now)
  <2> PICK was : was = Now
    OBVIOUS
  <2>1. Goes(s, was)
    BY <1>3, <1>5, GoesFrom
  <2> QED BY <2>1
<1> QED BY <1>4, <1>5, <1>6, GoesKeeps

(* What goes on beside the events.                                         *)
LEMMA GoesArrives ==
    ASSUME LaidInv, NEW now, now = Now', Flying(Now), Goes(now, Now), reactor' = reactor,
           renderer'.answers = renderer.answers
    PROVE  LaidKept
<1> PICK was : was = Now
  OBVIOUS
<1>1. Sound(now) /\ (LaidOut(Now) => LaidOut(now)) /\ NoneLater(now, was) /\ now.co.state = was.co.state /\ Flying(was)
  BY DEF Goes
<1>2. \A k \in DOMAIN renderer.answers : ~renderer.answers[k].drawn => Heeds(now, renderer.answers[k].upTo)
  BY <1>1, HeedsOn DEF LaidInv
<1>3. reactor'.requests \in Nat /\ reactor'.scenario = reactor.scenario
  BY DEF LaidInv
<1> QED BY <1>1, <1>2, <1>3, Arrives

LEMMA ClockRunsLaid ==
    ASSUME IInv, LaidInv, ClockRuns PROVE LaidKept
<1> PICK was : was = Now
  OBVIOUS
<1> PICK now : now = Now'
  OBVIOUS
<1> PICK f : f = was.co.flight
  OBVIOUS
<1> PICK c : c = IF f.clock = "running" THEN "over" ELSE "overdue"
  OBVIOUS
<1> PICK g : g = [f EXCEPT !.clock = c]
  OBVIOUS
<1>1. Fit(was) /\ Sound(was) /\ was.co = coordinator /\ was.en = engine /\ was.pics = pictures /\ was.re = reactor
  BY NowFit DEF IInv, LaidInv
<1>2. Flying(was) /\ f.clock \in {"running", "over"}
  BY <1>1 DEF ClockRuns, Flying
<1>3. Typed(was) /\ HeldUp(was) /\ WaitsIn(was) /\ Asking(was) /\ FlightOK(f)
  BY <1>1, <1>2 DEF Sound, Typed
<1>4. coordinator' = [coordinator EXCEPT !.flight = g]
      /\ UNCHANGED <<engine, renderer, pictures, reactor>>
  BY <1>1 DEF ClockRuns
<1>5. now.co = coordinator' /\ now.en = engine' /\ now.pics = pictures' /\ now.re = reactor'
  BY DEF Now
<1>6. now.co.flight = g /\ now.co.state = was.co.state
  BY <1>1, <1>4, <1>5 DEF Fit, Shape
<1>7. /\ DOMAIN g = FlightFields /\ g.clock = c /\ c \in {"over", "overdue"}
      /\ g.generation = f.generation /\ g.began = f.began /\ g.at = f.at /\ g.kind = f.kind /\ g.phase = f.phase
      /\ g.zeroOwed = f.zeroOwed /\ g.asked = f.asked /\ g.ends = f.ends /\ g.final = f.final
      /\ g.since = f.since /\ g.sentBy = f.sentBy /\ g.waits = f.waits /\ g.waiting = f.waiting /\ g.merge = f.merge
  <2>1. DOMAIN f = FlightFields
    BY <1>3 DEF FlightOK
  <2> QED BY ONLY <2>1, g = [f EXCEPT !.clock = c], c = IF f.clock = "running" THEN "over" ELSE "overdue" DEF FlightFields
<1>8. FlightOK(g)
  BY ONLY <1>2, <1>3, <1>7 DEF FlightOK
<1>9. Alike(now, was) /\ now.pics = was.pics
  BY <1>1, <1>4, <1>5, <1>6 DEF Alike, Steady
<1>10. WaitsIn(now) /\ Asking(now)
  BY <1>3, <1>6, <1>7, <1>9 DEF WaitsIn, Asking
<1>11. /\ now.co.flight.phase = "mergeHeld" <=> was.co.flight.phase = "mergeHeld"
       /\ now.co.flight.phase = "preparing" <=> was.co.flight.phase = "preparing"
       /\ FlightOK(now.co.flight) /\ SamePlan(now.co.flight, was.co.flight)
  BY <1>6, <1>7, <1>8 DEF SamePlan
<1>12. Goes(now, was)
  <2>1. /\ Sound(now) /\ NoneLater(now, was) /\ Steady(now, was) /\ now.co.state = was.co.state
        /\ (now.co.flight.phase = "preparing" <=> was.co.flight.phase = "preparing") /\ LaidOut(was) => LaidOut(now)
    BY ONLY <1>2, <1>3, <1>9, <1>10, <1>11, AlteredSound
  <2> QED BY <1>11, <2>1 DEF Goes
<1> QED BY <1>2, <1>4, <1>12, GoesArrives

LEMMA TickLiftsLaid ==
    ASSUME IInv, LaidInv, TickLifts PROVE LaidKept
<1> PICK was : was = Now
  OBVIOUS
<1> PICK measured \in reactor.scenario.measured : Becomes(Lift(was, measured)) /\ Sends(Lift(was, measured))
  BY DEF TickLifts
<1> PICK s : s = Lift(was, measured)
  OBVIOUS
<1>1. Becomes(s) /\ Sends(s)
  OBVIOUS
<1>2. coordinator.state = "flying" /\ coordinator.flight.phase = "playing"
      /\ \A k \in DOMAIN renderer.answers : renderer.answers[k].drawn
  BY DEF TickLifts, Ticks
<1>3. Fit(was) /\ Sound(was) /\ was.co = coordinator /\ was.re = reactor
  BY NowFit DEF IInv, LaidInv
<1>4. Flying(was) /\ was.co.flight.phase # "preparing"
  BY <1>2, <1>3 DEF Flying
<1>5. /\ Sound(s) /\ ~Flying(s) /\ Steady(s, was) /\ StillOwed(s, was)
      /\ LaidOut(was) => LaidOut(s)
  BY ONLY <1>3, <1>4, s = Lift(was, measured), LiftLaid
<1>6. Fit(s)
  BY <1>3, <1>4, LiftLets
<1>7. s.re.requests \in Nat /\ s.re.scenario = reactor.scenario
  BY <1>3, <1>5 DEF Steady, LaidInv
<1>8. renderer'.answers = renderer.answers
  BY <1>1, SendsAnswers DEF IInv
<1> QED BY <1>1, <1>2, <1>5, <1>6, <1>7, <1>8, EventHeeded

LEMMA LiftHeardLaid ==
    ASSUME IInv, LaidInv, LiftHeard PROVE LaidKept
<1> PICK was : was = Now
  OBVIOUS
<1> PICK s : s = HideHeld(was)
  OBVIOUS
<1> PICK g : g = coordinator.settles
  OBVIOUS
<1>1. engine.lift # <<>> /\ Becomes(s) /\ Sends(s)
  BY DEF LiftHeard
<1>2. Fit(was) /\ Sound(was) /\ was.co = coordinator /\ was.en = engine /\ was.re = reactor
  BY NowFit DEF IInv, LaidInv
<1>3. coordinator.state = "settling" /\ was.en.lift \in {<<>>, <<QuietOwed(g), SettleOwed>>}
  BY <1>1, <1>2 DEF IInv, Stages, Resting, Aloft, Measured, Lowered, Quiet
<1>4. ~Flying(was)
  BY <1>2, <1>3 DEF Flying
<1>5. /\ Fit(s) /\ s.co = was.co /\ s.pics = was.pics /\ s.re = was.re
      /\ s.en.passes = was.en.passes /\ s.en.final = was.en.final
      /\ StillOwed(s, was)
  BY ONLY <1>2, <1>3, s = HideHeld(was), HideHeldLaid
<1>6. ~Flying(s)
  BY <1>4, <1>5 DEF Flying
<1>7. Sound(s)
  BY <1>2, <1>4, <1>5, <1>6 DEF Sound, Typed, StillOwed
<1>8. LaidOut(was) => LaidOut(s)
  BY <1>4, <1>5, <1>6 DEF LaidOut, Reached, StillOwed
<1>9. \A n : Heeds(was, n) => Heeds(s, n)
  BY <1>4, <1>5, <1>6 DEF Heeds, StillOwed
<1>10. s.re.requests \in Nat /\ s.re.scenario = reactor.scenario
  BY <1>2, <1>5 DEF LaidInv
<1>11. renderer'.answers = renderer.answers
  BY <1>1, SendsAnswers DEF IInv
<1> QED BY <1>1, <1>5, <1>7, <1>8, <1>9, <1>10, <1>11, EventKeeps

(* The quiet over, at rest: nothing owed is touched.                       *)
LEMMA QuietRanOutLaid ==
    ASSUME IInv, LaidInv, NEW g, QuietRanOut(g) PROVE LaidKept
<1> PICK was : was = Now
  OBVIOUS
<1> PICK quiet : quiet = IF was.en.quiet = g THEN 0 ELSE was.en.quiet
  OBVIOUS
<1> PICK disarmed : disarmed = [was EXCEPT !.en.quiet = quiet]
  OBVIOUS
<1> PICK settles : settles = (coordinator.state = "settling" /\ coordinator.settles = g)
  OBVIOUS
<1> PICK s : s = IF settles THEN Release(disarmed) ELSE disarmed
  OBVIOUS
<1>1. Becomes(s) /\ renderer' = renderer
  <2>1. disarmed = [Now EXCEPT !.en.quiet = IF @ = g THEN 0 ELSE @]
    OBVIOUS
  <2> QED BY <2>1 DEF QuietRanOut
<1>2. Fit(was) /\ Sound(was) /\ was.co = coordinator /\ was.re = reactor /\ was.before = HandedOver
  BY NowFit DEF IInv, LaidInv
<1>3. /\ DOMAIN disarmed = DOMAIN was /\ disarmed.co = was.co /\ disarmed.pics = was.pics /\ disarmed.re = was.re
      /\ disarmed.before = was.before /\ disarmed.batch = was.batch /\ DOMAIN disarmed.en = DOMAIN was.en
      /\ disarmed.en.owed = was.en.owed /\ disarmed.en.shown = was.en.shown
      /\ disarmed.en.passes = was.en.passes /\ disarmed.en.final = was.en.final
  BY <1>2 DEF Fit, Shape
<1>4. Fit(disarmed)
  BY <1>2, <1>3 DEF Fit, Shape, Top, Flying
<1>5. Same(disarmed, was)
  BY <1>3 DEF Same, Alike, Steady
<1>6. CASE ~settles
  <2>1. s = disarmed
    BY <1>6
  <2>2. renderer'.answers = renderer.answers
    BY <1>1
  <2> QED BY <1>1, <1>4, <1>5, <2>1, <2>2, SameKeeps
<1>7. CASE settles
  <2>1. s = Release(disarmed) /\ coordinator.state = "settling"
    BY <1>7
  <2>a. s = Release(disarmed)
    BY <2>1
  <2>2. ~Flying(was) /\ ~Flying(disarmed)
    BY <1>2, <1>3, <2>1 DEF Flying
  <2>3. /\ Fit(s) /\ ~Flying(s) /\ s.en = disarmed.en /\ s.pics.watch = disarmed.pics.watch
        /\ s.re.written = disarmed.re.written /\ s.re.goal = disarmed.re.goal /\ Steady(s, disarmed)
    BY ONLY <1>4, <2>a, ReleaseLaid
  <2>4. Sound(s)
    <3>1. Typed(was) /\ was.pics.watch = Nothing /\ was.en.passes = <<>>
      BY <1>2, <2>2 DEF Sound
    <3>2. /\ s.re.written = was.re.written /\ s.re.goal = was.re.goal /\ s.en.final = was.en.final
          /\ s.en.owed = was.en.owed /\ s.en.shown = was.en.shown /\ s.en.passes = was.en.passes
          /\ s.pics.watch = was.pics.watch
      BY ONLY <1>3, <2>3
    <3>3. Typed(s)
      BY ONLY <2>3, <3>1, <3>2 DEF Typed
    <3> QED BY ONLY <2>3, <3>1, <3>2, <3>3 DEF Sound
  <2>5. LaidOut(was) => LaidOut(s)
    <3>1. \A w : Reached(s, w) <=> Reached(was, w)
      BY ONLY <1>3, <2>3 DEF Reached
    <3> QED BY ONLY <2>2, <2>3, <3>1 DEF LaidOut
  <2>6. \A n : Heeds(was, n) => Heeds(s, n)
    BY <1>3, <2>2, <2>3 DEF Heeds
  <2>7. s.re.requests \in Nat /\ s.re.scenario = reactor.scenario
    BY <1>2, <1>3, <2>3 DEF LaidInv, Steady
  <2>8. renderer'.answers = renderer.answers
    BY <1>1
  <2> QED BY <1>1, <2>3, <2>4, <2>5, <2>6, <2>7, <2>8, EventKeeps
<1> QED BY <1>6, <1>7

(* What only the pictures service does.                                    *)
LEMMA WatchedOn ==
    ASSUME NEW s, Sound(s), Flying(s), NEW t, Alike(t, s), t.co.flight = s.co.flight,
           DOMAIN t.pics.watch = DOMAIN s.pics.watch
    PROVE  Goes(t, s)
<1>0. t.co.state = s.co.state /\ Steady(t, s)
      /\ t.re.written = s.re.written /\ t.re.goal = s.re.goal
      /\ t.en.passes = s.en.passes /\ t.en.final = s.en.final /\ t.en.owed = s.en.owed /\ t.en.shown = s.en.shown
  BY DEF Alike
<1>1. Flying(t)
  BY <1>0 DEF Flying
<1>2. Sound(t)
  BY <1>0, <1>1 DEF Sound, Typed, WaitsIn, HeldUp, Asking
<1>3. \A w : Reached(s, w) <=> Reached(t, w)
  BY <1>0 DEF Reached
<1>4. LaidOut(s) => LaidOut(t)
  BY <1>0, <1>1, <1>3 DEF LaidOut, Layout
<1> QED BY <1>0, <1>2, <1>4 DEF Goes, NoneLater

LEMMA PictureLaid ==
    ASSUME IInv, LaidInv, NEW w, PictureTaken(w) \/ PictureLost(w) PROVE LaidKept
<1> PICK was : was = Now
  OBVIOUS
<1> PICK now : now = Now'
  OBVIOUS
<1>1. Fit(was) /\ Sound(was) /\ was.co = coordinator /\ was.en = engine /\ was.pics = pictures /\ was.re = reactor
  BY NowFit DEF IInv, LaidInv
<1>2. /\ pictures' = [pictures EXCEPT !.watch[w].done = TRUE] /\ w \in DOMAIN pictures.watch
      /\ UNCHANGED <<coordinator, engine, renderer, reactor>>
  BY DEF PictureTaken, PictureLost, Watched
<1>3. now.co = coordinator' /\ now.en = engine' /\ now.pics = pictures' /\ now.re = reactor'
  BY DEF Now
<1>4. Flying(was)
  <2>1. Nothing \in Transfers(Place) /\ DOMAIN Nothing = {}
    BY ONLY NothingIs
  <2>2. pictures.watch # Nothing
    BY <1>2, <2>1
  <2> QED BY <1>1, <2>2 DEF Sound
<1>5. DOMAIN now.pics.watch = DOMAIN was.pics.watch
  <2>1. "watch" \in DOMAIN pictures
    BY <1>1 DEF Fit, Shape
  <2> QED BY <1>1, <1>2, <1>3, <2>1
<1>6. Alike(now, was) /\ now.co.flight = was.co.flight
  BY <1>1, <1>2, <1>3 DEF Alike, Steady
<1>7. Goes(now, was)
  BY <1>1, <1>4, <1>5, <1>6, WatchedOn
<1> QED BY <1>2, <1>4, <1>7, GoesArrives

LEMMA SameArrives ==
    ASSUME LaidInv, NEW now, now = Now', Same(now, Now), reactor' = reactor, renderer'.answers = renderer.answers
    PROVE  LaidKept
<1> PICK was : was = Now
  OBVIOUS
<1>1. Sound(now) /\ (LaidOut(was) => LaidOut(now))
  BY SameSound DEF LaidInv
<1>2. \A k \in DOMAIN renderer.answers : ~renderer.answers[k].drawn => Heeds(now, renderer.answers[k].upTo)
  BY HeedsSame DEF LaidInv
<1>3. reactor'.requests \in Nat /\ reactor'.scenario = reactor.scenario
  BY DEF LaidInv
<1> QED BY <1>1, <1>2, <1>3, Arrives

LEMMA FrameZeroTakenLaid ==
    ASSUME IInv, LaidInv, FrameZeroTaken PROVE LaidKept
<1> PICK was : was = Now
  OBVIOUS
<1> PICK now : now = Now'
  OBVIOUS
<1>1. Fit(was) /\ was.co = coordinator /\ was.en = engine /\ was.pics = pictures /\ was.re = reactor
  BY NowFit DEF IInv
<1>2. pictures' = [pictures EXCEPT !.zeros = Tail(@)] /\ UNCHANGED <<coordinator, engine, renderer, reactor>>
  BY DEF FrameZeroTaken
<1>3. now.co = coordinator' /\ now.en = engine' /\ now.pics = pictures' /\ now.re = reactor'
  BY DEF Now
<1>4. now.pics.watch = was.pics.watch
  BY <1>1, <1>2, <1>3
<1>5. Same(now, was)
  BY <1>1, <1>2, <1>3, <1>4 DEF Same, Alike, Steady
<1> QED BY <1>2, <1>5, SameArrives

LEMMA StillLaid ==
    ASSUME LaidInv, UNCHANGED <<coordinator, engine, pictures, reactor>>, renderer'.answers = renderer.answers
    PROVE  LaidKept
<1> PICK was : was = Now
  OBVIOUS
<1> PICK now : now = Now'
  OBVIOUS
<1>1. was.co = coordinator /\ was.en = engine /\ was.pics = pictures /\ was.re = reactor
  BY NowFit
<1>2. now.co = coordinator' /\ now.en = engine' /\ now.pics = pictures' /\ now.re = reactor'
  BY DEF Now
<1>3. Same(now, was)
  BY <1>1, <1>2 DEF Same, Alike, Steady
<1> QED BY <1>3, SameArrives

-----------------------------------------------------------------------------
(* The renderer's answers.                                                 *)

(* Drawn: what waited for it is written.                                   *)
LEMMA CommittedIs ==
    ASSUME NEW s, Fit(s), s.batch = {}, NEW n \in 1..s.before, Queued(s.en.owed, s.en.shown),
           s.re.written \in [Window -> Place], NEW t, t = Committed(s, n)
    PROVE  /\ t.en.passes = s.en.passes /\ t.en.final = s.en.final /\ t.pics.watch = s.pics.watch
           /\ t.re.goal = s.re.goal /\ Steady(t, s) /\ t.re.written \in [Window -> Place]
           /\ Queued(t.en.owed, t.en.shown)
           /\ \A k \in Nat : s.en.shown <= k /\ n <= k => t.en.shown <= k - n
           /\ (\A i \in DOMAIN s.en.owed : ~s.en.owed[i].own) => \A i \in DOMAIN t.en.owed : ~t.en.owed[i].own
<1>1. /\ t.en.passes = s.en.passes /\ t.en.final = s.en.final /\ t.en.owed = Renumbered(s, n).en.owed
      /\ t.en.shown = IF s.en.shown > n THEN s.en.shown - n ELSE 0
      /\ t.pics.watch = s.pics.watch
      /\ t.re.goal = s.re.goal /\ t.re.requests = s.re.requests /\ t.re.scenario = s.re.scenario
      /\ t.re.written \in [Window -> Place]
  BY CommittedWrites
<1>2. s.before \in Nat /\ n \in Nat /\ n <= s.before /\ s.en.shown \in Nat
  BY DEF Fit, Top
<1>3. \A k \in Nat : s.en.shown <= k /\ n <= k => t.en.shown <= k - n
  BY <1>1, <1>2
<1>4. Queued(t.en.owed, t.en.shown)
  BY CommittedReaches
<1> PICK owed : owed = s.en.owed
  OBVIOUS
<1> PICK later : later = Renumbered(s, n).en.owed
  OBVIOUS
<1>5. PICK e : /\ Thinned(e, later, owed)
               /\ DOMAIN later \subseteq Int
               /\ \A j \in DOMAIN later : /\ owed[e[j]].after > n
                                          /\ later[j].after = owed[e[j]].after - n
                                          /\ later[j].own = owed[e[j]].own
               /\ \A i \in DOMAIN owed : owed[i].after > n => \E j \in DOMAIN later : e[j] = i
  BY <1>2, CommittedLeaves
<1>6. \A j \in DOMAIN later : e[j] \in DOMAIN owed /\ later[j].own = owed[e[j]].own
  BY <1>5 DEF Thinned
<1>7. (\A i \in DOMAIN owed : ~owed[i].own) => \A i \in DOMAIN later : ~later[i].own
  BY ONLY <1>6
<1> QED BY <1>1, <1>3, <1>4, <1>7 DEF Steady

LEMMA CommittedLaid ==
    ASSUME NEW s, Fit(s), Sound(s), s.batch = {}, NEW n \in 1..s.before, NEW t, t = Committed(s, n), t.co = s.co
    PROVE  /\ Sound(t) /\ Steady(t, s) /\ (LaidOut(s) => LaidOut(t))
           /\ \A k \in Nat : n <= k /\ Heeds(s, k) => Heeds(t, k - n)
<1>1. Typed(s) /\ Queued(s.en.owed, s.en.shown) /\ s.re.written \in [Window -> Place]
  BY DEF Sound, Typed
<1>2. /\ t.en.passes = s.en.passes /\ t.en.final = s.en.final /\ t.pics.watch = s.pics.watch
      /\ t.re.goal = s.re.goal /\ Steady(t, s) /\ t.re.written \in [Window -> Place]
      /\ Queued(t.en.owed, t.en.shown)
      /\ \A k \in Nat : s.en.shown <= k /\ n <= k => t.en.shown <= k - n
      /\ (\A i \in DOMAIN s.en.owed : ~s.en.owed[i].own) => \A i \in DOMAIN t.en.owed : ~t.en.owed[i].own
  BY <1>1, CommittedIs
<1>3. /\ \A w \in Window : \A p : Reaches(s.re.written, s.en.owed, w, p) => Reaches(t.re.written, t.en.owed, w, p)
      /\ \A D : OwnOf(s.en.owed, D) => OwnOf(t.en.owed, D)
      /\ \A k \in Nat : OthersBy(s.en.owed, k) => OthersBy(t.en.owed, k - n)
      /\ \A k \in Nat : AllBy(s.en.owed, k) => AllBy(t.en.owed, k - n)
  BY <1>1, CommittedReaches
<1>4. Flying(t) <=> Flying(s)
  BY DEF Flying
<1>5. Sound(t)
  <2>1. Typed(t)
    BY <1>1, <1>2, <1>4 DEF Typed
  <2> QED BY <1>2, <1>4, <2>1 DEF Sound, WaitsIn, HeldUp, Asking
<1>6. \A w \in Window : Reached(s, w) => Reached(t, w)
  BY <1>2, <1>3 DEF Reached
<1>7. LaidOut(s) => LaidOut(t)
  <2>1. Layout(s) => Layout(t)
    BY <1>2, <1>3, <1>6 DEF Layout
  <2> QED BY <1>4, <1>6, <2>1 DEF LaidOut
<1>8. \A k \in Nat : n <= k /\ Heeds(s, k) => Heeds(t, k - n)
  BY <1>2, <1>3, <1>4 DEF Heeds
<1> QED BY <1>2, <1>5, <1>7, <1>8

(* Not drawn: the flight is given up, and what it owed dropped with it.    *)
LEMMA FailedLaid ==
    ASSUME NEW s, Fit(s), Sound(s), Flying(s), s.batch = {}, NEW n \in 1..s.before, Heeds(s, n),
           NEW u, Fit(u), u.co = s.co, u.re = s.re, u.en.owed = OthersOwed(s.en.owed), u.en.shown = s.en.shown,
           u.batch = {}, u.before = s.before,
           NEW c, c = Committed(u, n), c.co = s.co, NEW bare, Fit(bare), bare.co = c.co, bare.re = c.re,
           bare.en.owed = c.en.owed, bare.en.shown = 0, NEW t, t = Abandon(bare)
    PROVE  /\ Sound(t) /\ ~Flying(t) /\ Steady(t, s) /\ \A k \in Nat : Heeds(t, k)
           /\ (s.co.flight.kind = "bounce" => s.en.passes = <<>>) /\ LaidOut(s) => LaidOut(t)
<1> PICK f : f = s.co.flight
  OBVIOUS
<1>1. Typed(s) /\ Queued(s.en.owed, s.en.shown) /\ s.re.written \in [Window -> Place]
      /\ s.re.goal \in [Window -> Place] /\ FlightOK(f) /\ f.final \in Transfers(Place)
  BY DEF Sound, Typed, FlightOK
<1> PICK owed : owed = s.en.owed
  OBVIOUS
<1>2. \A D : OwnOf(owed, D) =>
        /\ \A written, w, p : w \notin D /\ Reaches(written, owed, w, p) => Reaches(written, OthersOwed(owed), w, p)
        /\ \A k : Queued(owed, k) => Queued(OthersOwed(owed), k)
        /\ \A k : OthersBy(owed, k) => AllBy(OthersOwed(owed), k)
  <2> PICK top : top = Top(s)
    OBVIOUS
  <2>1. OwedOK(owed, top)
    BY DEF Fit
  <2> QED BY ONLY <2>1, OthersReach
<1>3. OwnOf(owed, Window)
  BY <1>1 DEF OwnOf, Queued, Transfers
<1>4. Queued(u.en.owed, u.en.shown) /\ AllBy(u.en.owed, n)
  <2>1. OthersBy(owed, n) /\ Queued(owed, s.en.shown)
    BY <1>1 DEF Heeds
  <2> QED BY <1>2, <1>3, <2>1
<1>5. /\ c.re.goal = u.re.goal /\ Steady(c, u) /\ c.re.written \in [Window -> Place]
  <2>1. u.re.written \in [Window -> Place]
    BY <1>1
  <2> QED BY <1>4, <2>1, CommittedIs
<1>6. /\ \A w \in Window : \A p : Reaches(u.re.written, u.en.owed, w, p) => Reaches(c.re.written, c.en.owed, w, p)
      /\ \A i \in DOMAIN c.en.owed : ~IsWrite(c.en.owed[i])
  <2>1. u.re.written \in [Window -> Place] /\ n \in 1..u.before
    BY <1>1
  <2> QED BY <1>4, <2>1, CommittedReaches
<1>7. /\ bare.re.written \in [Window -> Place] /\ bare.re.goal \in [Window -> Place]
      /\ Queued(bare.en.owed, bare.en.shown) /\ f = bare.co.flight /\ bare.re.goal = s.re.goal /\ Steady(bare, s)
      /\ \A k \in Nat : bare.en.shown <= k /\ AllBy(bare.en.owed, k)
  BY <1>1, <1>5, <1>6 DEF Queued, AllBy, Steady
<1>8. /\ Sound(t) /\ ~Flying(t) /\ Steady(t, bare) /\ t.en.shown = bare.en.shown
      /\ \A k : bare.en.shown <= k /\ AllBy(bare.en.owed, k) => AllBy(t.en.owed, k)
      /\ /\ f.kind = "bounce" => DOMAIN f.final = {}
         /\ \A w \in DOMAIN f.final : bare.re.goal[w] = f.final[w]
         /\ \A w \in Window : w \notin DOMAIN f.final => Reached(bare, w)
         => LaidOut(t)
  <2>1. Fit(bare) /\ bare.re.written \in [Window -> Place] /\ bare.re.goal \in [Window -> Place]
        /\ Queued(bare.en.owed, bare.en.shown) /\ f = bare.co.flight /\ f.final \in Transfers(Place)
    BY <1>1, <1>7
  <2> QED BY ONLY <2>1, t = Abandon(bare), AbandonLaid
<1>9. \A k \in Nat : Heeds(t, k)
  BY <1>7, <1>8 DEF Heeds
<1>10. ASSUME f.kind = "bounce" => s.en.passes = <<>>, LaidOut(s) PROVE LaidOut(t)
  <2>1. Layout(s)
    BY <1>10 DEF LaidOut
  <2>2. OwnOf(owed, DOMAIN f.final) /\ (\A w \in DOMAIN f.final : s.re.goal[w] = f.final[w])
        /\ (\A w \in Window : w \notin DOMAIN f.final => Reached(s, w))
        /\ (f.kind = "bounce" => DOMAIN s.en.final = {})
    BY <2>1 DEF Layout
  <2>3. f.kind = "bounce" => DOMAIN f.final = {}
    BY <1>1, <1>10, <2>1, <2>2, FinalAlone
  <2>4. ASSUME NEW w \in Window, w \notin DOMAIN f.final PROVE Reached(bare, w)
    <3>1. Reaches(s.re.written, owed, w, s.re.goal[w])
      BY <2>2, <2>4 DEF Reached
    <3>2. Reaches(u.re.written, u.en.owed, w, s.re.goal[w])
      BY <1>2, <2>2, <2>4, <3>1
    <3>3. Reaches(c.re.written, c.en.owed, w, s.re.goal[w])
      BY <1>6, <3>2
    <3> QED BY <1>7, <3>3 DEF Reached
  <2> QED BY <1>7, <1>8, <2>2, <2>3, <2>4
<1> QED BY <1>7, <1>8, <1>9, <1>10 DEF Steady

LEMMA HeadKind ==
    ASSUME LandedOK, landed # <<>>, NEW heard, heard = Head(landed) PROVE heard.kind \in Deliveries
<1> PICK old : old = landed
  OBVIOUS
<1> PICK X : X = { old[i] : i \in DOMAIN old }
  OBVIOUS
<1>1. old \in Seq(X) /\ old # <<>> /\ heard = old[1] /\ 1 \in DOMAIN old
  BY DEF LandedOK, Sequence
<1> QED BY <1>1 DEF LandedOK

LEMMA PicturesLandedLaid ==
    ASSUME IInv, LandedOK, LaidInv, PicturesLanded PROVE LaidKept
<1> PICK heard : heard = Head(landed)
  OBVIOUS
<1>1. heard.kind \in Deliveries
  BY HeadKind DEF PicturesLanded
<1>2. PICK x \in BOOLEAN :
         LET now == [Now EXCEPT !.extends = x]
             s == CASE heard.kind = "frameZero" -> FrameZeroHeard(now, heard.generation)
                    [] heard.kind = "picture"   -> Offered(now, heard.window, heard.picture)
                    [] heard.kind = "lost"      -> LostHeard(now, heard)
         IN  Becomes(s) /\ Sends(s)
  BY DEF PicturesLanded
<1> PICK now : now = [Now EXCEPT !.extends = x]
  OBVIOUS
<1>3. \E s : /\ Becomes(s) /\ Sends(s)
             /\ \/ s = FrameZeroHeard(now, heard.generation)
                \/ s = Offered(now, heard.window, heard.picture)
                \/ s = LostHeard(now, heard)
  <2>1. CASE heard.kind = "frameZero"
    BY <1>2, <2>1
  <2>2. CASE heard.kind = "picture"
    BY <1>2, <2>2
  <2>3. CASE heard.kind = "lost"
    BY <1>2, <2>3
  <2> QED BY <1>1, <2>1, <2>2, <2>3 DEF Deliveries
<1> PICK s : /\ Becomes(s) /\ Sends(s)
             /\ \/ s = FrameZeroHeard(now, heard.generation)
                \/ s = Offered(now, heard.window, heard.picture)
                \/ s = LostHeard(now, heard)
  BY <1>3
<1>4. Fit(now) /\ Same(now, Now) /\ Sound(now) /\ Sound(Now) /\ now.co = coordinator
  BY ExtendedLaid
<1>5. Goes(s, now)
  BY <1>4, FrameZeroLaid, OfferedLaid, LostLaid
<1>6. Fit(s) /\ (~Flying(now) => Same(s, now))
  <2>0. Same(now, now)
    BY DEF Same, Alike, Steady
  <2>1. CASE s = FrameZeroHeard(now, heard.generation)
    <3> PICK counted : counted = [now EXCEPT !.co.flight.zeroOwed = @ - 1]
      OBVIOUS
    <3>1. s \in {now, counted, Show(counted)} /\ (s # now => Flying(now))
      BY <2>1 DEF FrameZeroHeard
    <3>2. Flying(now) => Fit(counted)
      BY <1>4, CountedAlong
    <3>3. Fit(counted) => Fit(Show(counted))
      BY ShowAlong
    <3> QED BY <1>4, <2>0, <3>1, <3>2, <3>3
  <2>2. CASE s = Offered(now, heard.window, heard.picture)
    <3>1. Fit(s)
      BY <1>4, <2>2, OfferedAlong
    <3>2. ASSUME ~Flying(now) PROVE Same(s, now)
      <4>1. \E pics : s = Given(now, pics)
        BY <2>2, <3>2 DEF Offered, Given
      <4> QED BY <1>4, <4>1, GivenSame
    <3> QED BY <3>1, <3>2
  <2>3. CASE s = LostHeard(now, heard)
    <3>1. s \in {now, LetGo(now, heard.window)} /\ (s # now => Flying(now))
      BY <2>3 DEF LostHeard
    <3>2. Flying(now) => Fit(LetGo(now, heard.window))
      BY <1>4, LetGoAlong
    <3> QED BY <1>4, <2>0, <3>1, <3>2
  <2> QED BY <2>1, <2>2, <2>3
<1> PICK was : was = Now
  OBVIOUS
<1>7. CASE Flying(now)
  <2>1. Goes(s, was)
    BY <1>4, <1>5, GoesFrom
  <2>2. Flying(Now)
    BY <1>4, <1>7, NowFit DEF Flying
  <2> QED BY <1>6, <2>1, <2>2, GoesKeeps
<1>8. CASE ~Flying(now)
  <2>1. Same(s, now)
    BY <1>6, <1>8
  <2>2. Same(s, was)
    BY <1>4, <2>1 DEF Same, Alike, Steady
  <2>3. renderer'.answers = renderer.answers
    BY SendsAnswers DEF IInv
  <2> QED BY <1>6, <2>2, <2>3, SameKeeps
<1> QED BY <1>7, <1>8

(* A batch drawn, or not: what is owed waits for no later one.             *)
LEMMA RendererDrawsLaid ==
    ASSUME IInv, LaidInv, RendererDraws PROVE LaidKept
<1> PICK was : was = Now
  OBVIOUS
<1> PICK now : now = Now'
  OBVIOUS
<1> PICK said : said = renderer.answers
  OBVIOUS
<1> DEFINE needs == \E i \in DOMAIN renderer.line : "stage" \in renderer.line[i]
           fails == coordinator.state = "flying" /\ coordinator.flight.kind \in reactor.scenario.fails
<1> PICK turns : turns = { i \in DOMAIN renderer.line : renderer.line[i] \cap {"show", "lift"} # {} }
  OBVIOUS
<1> PICK last : last = Max(turns)
  OBVIOUS
<1>a. PICK made \in IF renderer.made \/ ~needs THEN {renderer.made} ELSE {TRUE, ~fails} :
         renderer' = [line |-> <<>>, made |-> made,
           answers |-> Append(renderer.answers, [upTo |-> HandedOver, drawn |-> made \/ ~needs]),
           up |-> IF ~made \/ turns = {} THEN renderer.up ELSE "show" \in renderer.line[last]]
  BY DEF RendererDraws
<1>1. UNCHANGED <<coordinator, engine, pictures, reactor>>
  BY DEF RendererDraws
<1> PICK drawn : drawn = (made \/ ~needs)
  OBVIOUS
<1> PICK more : more = Append(said, [upTo |-> HandedOver, drawn |-> drawn])
  OBVIOUS
<1> PICK seen : seen = IF ~made \/ turns = {} THEN renderer.up ELSE "show" \in renderer.line[last]
  OBVIOUS
<1>b. renderer' = [line |-> <<>>, made |-> made, answers |-> more, up |-> seen]
  BY <1>a
<1> HIDE DEF needs, fails
<1>2. renderer'.answers = Append(said, [upTo |-> HandedOver, drawn |-> drawn])
  BY ONLY <1>b, more = Append(said, [upTo |-> HandedOver, drawn |-> drawn])
<1>3. Fit(was) /\ was.co = coordinator /\ was.en = engine /\ was.pics = pictures /\ was.re = reactor
      /\ was.before = HandedOver /\ was.batch = {} /\ Sound(was)
  BY NowFit DEF IInv, LaidInv
<1>4. now.co = coordinator' /\ now.en = engine' /\ now.pics = pictures' /\ now.re = reactor'
  BY DEF Now
<1>5. Same(now, was)
  BY <1>1, <1>3, <1>4 DEF Same, Alike, Steady
<1>6. Sound(now) /\ (LaidOut(was) => LaidOut(now))
  BY <1>3, <1>5, SameSound
<1>7. Heeds(was, HandedOver)
  <2>1. OwedOK(was.en.owed, HandedOver) /\ was.en.shown \in 0..HandedOver /\ HandedOver \in Nat
    BY <1>3 DEF Fit, Top
  <2>2. \A i \in DOMAIN was.en.owed : was.en.owed[i].after <= HandedOver
    BY <2>1 DEF OwedOK, Effect
  <2> QED BY <2>1, <2>2 DEF Heeds, OthersBy, AllBy
<1>8. \A k \in DOMAIN renderer'.answers : ~renderer'.answers[k].drawn => Heeds(now, renderer'.answers[k].upTo)
  <2> SUFFICES ASSUME NEW k \in DOMAIN renderer'.answers, ~renderer'.answers[k].drawn
               PROVE  Heeds(now, renderer'.answers[k].upTo)
    OBVIOUS
  <2> PICK one : one = [upTo |-> HandedOver, drawn |-> drawn]
    OBVIOUS
  <2>1. said \in Seq(Answer)
    BY DEF IInv, RendererOK
  <2>2. (k \in DOMAIN said /\ renderer'.answers[k] = said[k]) \/ renderer'.answers[k] = one
    <3> PICK longer : longer = Append(said, one)
      OBVIOUS
    <3> PICK X : X = Answer \cup {one}
      OBVIOUS
    <3>1. said \in Seq(X) /\ one \in X
      BY <2>1
    <3>2. \A j \in DOMAIN longer : (j \in DOMAIN said /\ longer[j] = said[j]) \/ longer[j] = one
      BY <3>1
    <3> QED BY <1>2, <3>2
  <2>3. CASE k \in DOMAIN said /\ renderer'.answers[k] = said[k]
    <3>1. Heeds(was, said[k].upTo)
      BY <2>3 DEF LaidInv
    <3> QED BY <1>5, <2>3, <3>1, HeedsSame
  <2>4. CASE renderer'.answers[k] = one
    <3>1. Heeds(now, HandedOver)
      BY <1>5, <1>7, HeedsSame
    <3>2. one.upTo = HandedOver
      OBVIOUS
    <3> QED BY <2>4, <3>1, <3>2
  <2> QED BY <2>2, <2>3, <2>4
<1>9. reactor'.requests \in Nat /\ reactor'.scenario \in Scenarios
  BY <1>1 DEF LaidInv
<1>10. LaidInv'
  BY <1>6, <1>8, <1>9 DEF LaidInv
<1> QED BY <1>6, <1>10 DEF LaidKept

(* The answers after the first, numbered from it.                          *)
LEMMA HeardIs ==
    ASSUME NEW said \in Seq(Answer), said # <<>>, \A i, j \in DOMAIN said : i < j => said[i].upTo < said[j].upTo,
           NEW n, n = Head(said).upTo, NEW i \in DOMAIN Heard(said, n)
    PROVE  /\ i + 1 \in DOMAIN said /\ said[i + 1].upTo \in Nat /\ n \in Nat /\ n <= said[i + 1].upTo
           /\ Heard(said, n)[i].drawn = said[i + 1].drawn /\ Heard(said, n)[i].upTo = said[i + 1].upTo - n
<1> PICK m : m = Len(said)
  OBVIOUS
<1>1. m \in Nat /\ m >= 1 /\ DOMAIN said = 1..m /\ Head(said) = said[1] /\ DOMAIN Tail(said) = 1..(m - 1)
  OBVIOUS
<1>2. DOMAIN Heard(said, n) = 1..(m - 1) /\ Heard(said, n)[i] = [said[i + 1] EXCEPT !.upTo = @ - n]
  BY <1>1 DEF Heard
<1>3. i \in Nat /\ i + 1 \in 1..m /\ 1 \in 1..m /\ 1 < i + 1
  BY <1>1, <1>2
<1>4. said[i + 1] \in Answer /\ said[1] \in Answer
  BY <1>1, <1>3
<1>5. said[i + 1].upTo \in Nat /\ n \in Nat /\ DOMAIN said[i + 1] = {"upTo", "drawn"}
  BY <1>1, <1>4 DEF Answer
<1>6. n < said[i + 1].upTo
  BY <1>1, <1>3
<1>7. n <= said[i + 1].upTo
  BY <1>5, <1>6
<1>8. Heard(said, n)[i].drawn = said[i + 1].drawn /\ Heard(said, n)[i].upTo = said[i + 1].upTo - n
  BY <1>2, <1>5
<1> QED BY <1>1, <1>3, <1>5, <1>7, <1>8

(* No flight for a push whose overlay fails holds a pass: what a push      *)
(* given up leaves to place is only what it had shown.                     *)
PushesShow ==
    coordinator.state = "flying" /\ coordinator.flight.kind = "bounce" /\ engine.passes # <<>> =>
        \A k \in DOMAIN renderer.answers : renderer.answers[k].drawn

(* The events after an answer: the answers to come are heeded.             *)
LEMMA HeardOn ==
    ASSUME RendererOK, NEW answers, answers = renderer.answers, answers # <<>>, NEW n, n = Head(answers).upTo,
           renderer'.answers = Heard(answers, n),
           NEW was, NEW t, \A k \in Nat : n <= k /\ Heeds(was, k) => Heeds(t, k - n),
           \A k \in DOMAIN answers : ~answers[k].drawn => Heeds(was, answers[k].upTo)
    PROVE  \A k \in DOMAIN renderer'.answers : ~renderer'.answers[k].drawn => Heeds(t, renderer'.answers[k].upTo)
<1> SUFFICES ASSUME NEW k \in DOMAIN renderer'.answers, ~renderer'.answers[k].drawn
             PROVE  Heeds(t, renderer'.answers[k].upTo)
  OBVIOUS
<1>1. answers \in Seq(Answer) /\ \A i, j \in DOMAIN answers : i < j => answers[i].upTo < answers[j].upTo
  BY DEF RendererOK
<1>2. k \in DOMAIN Heard(answers, n)
  OBVIOUS
<1>3. /\ k + 1 \in DOMAIN answers /\ answers[k + 1].upTo \in Nat /\ n \in Nat /\ n <= answers[k + 1].upTo
      /\ Heard(answers, n)[k].drawn = answers[k + 1].drawn /\ Heard(answers, n)[k].upTo = answers[k + 1].upTo - n
  BY <1>1, <1>2, HeardIs
<1>4. Heeds(was, answers[k + 1].upTo)
  BY <1>3
<1>5. Heeds(t, answers[k + 1].upTo - n)
  BY <1>3, <1>4
<1> QED BY <1>3, <1>5

LEMMA RenderedHeardLaid ==
    ASSUME IInv, LaidInv, RenderedHeard PROVE LaidInv' /\ (PushesShow /\ LaidOut(Now) => LaidOut(Now)')
<1> PICK was : was = Now
  OBVIOUS
<1> PICK answers : answers = renderer.answers
  OBVIOUS
<1> PICK answer : answer = Head(answers)
  OBVIOUS
<1> PICK n : n = answer.upTo
  OBVIOUS
<1> PICK now : now = Now'
  OBVIOUS
<1> DEFINE forgotten == [was EXCEPT !.en.owed = OthersOwed(@)]
           heard == Committed(was, n)
           bare == [Committed(forgotten, n) EXCEPT !.en.shown = 0]
           given == Abandon(bare)
<1>a. PICK s : s = IF answer.drawn \/ coordinator.state # "flying" THEN heard ELSE given
  OBVIOUS
<1>1. /\ Fit(was) /\ was.co = coordinator /\ was.en = engine /\ was.pics = pictures /\ was.re = reactor
      /\ was.before = HandedOver /\ was.batch = {} /\ Sound(was)
  BY NowFit DEF IInv, LaidInv
<1>2. /\ answers # <<>> /\ Becomes(s)
      /\ renderer' = [renderer EXCEPT
                      !.answers = Heard(@, n),
                      !.line = IF s.batch = {} THEN @ ELSE Append(@, s.batch)]
  BY <1>a DEF RenderedHeard
<1>3. (s = heard) \/ (s = given /\ coordinator.state = "flying" /\ ~answer.drawn)
  BY <1>a
<1> HIDE DEF forgotten, heard, bare, given
<1>4. n \in Nat \ {0} /\ n \in 1..HandedOver /\ HandedOver \in Nat /\ 1 \in DOMAIN answers /\ answer = answers[1]
  <2>1. answers \in Seq(Answer) /\ answers # <<>> /\ answer = Head(answers)
    BY <1>2 DEF IInv, RendererOK
  <2>2. 1 \in DOMAIN answers /\ answers[1] \in Answer /\ answer = answers[1]
    BY <2>1, Elements
  <2>3. n \in Nat \ {0}
    BY <2>2 DEF Answer
  <2>4. n <= Answered /\ Answered \in Nat /\ Answered <= HandedOver /\ HandedOver \in Nat
    BY <2>2, AnswersUpTo DEF IInv
  <2> QED BY <2>2, <2>3, <2>4
<1>5. RendererOK /\ renderer'.answers = Heard(answers, n)
  <2>1. RendererOK /\ DOMAIN renderer = {"line", "answers", "made", "up"}
    BY DEF IInv, RendererOK
  <2> QED BY <1>2, <2>1
<1>6. \A k \in DOMAIN answers : ~answers[k].drawn => Heeds(was, answers[k].upTo)
  BY DEF LaidInv
<1>7. reactor.requests \in Nat /\ reactor.scenario \in Scenarios
  BY DEF LaidInv
<1>8. ASSUME Fit(s), Sound(s), Steady(s, was), PushesShow /\ LaidOut(was) => LaidOut(s),
             \A k \in DOMAIN renderer'.answers : ~renderer'.answers[k].drawn => Heeds(s, renderer'.answers[k].upTo)
      PROVE  LaidInv' /\ (PushesShow /\ LaidOut(Now) => LaidOut(Now)')
  <2>1. Same(now, s)
    BY <1>2, <1>8, Becoming
  <2>2. Sound(now) /\ (LaidOut(s) => LaidOut(now))
    BY <1>8, <2>1, SameSound
  <2>3. reactor' = now.re
    BY DEF Now
  <2>4. reactor'.requests = was.re.requests /\ reactor'.scenario = was.re.scenario
    BY <1>8, <2>1, <2>3 DEF Same, Alike, Steady
  <2>5. reactor'.requests \in Nat /\ reactor'.scenario \in Scenarios
    BY <1>1, <1>7, <2>4
  <2>6. \A k \in DOMAIN renderer'.answers : ~renderer'.answers[k].drawn => Heeds(now, renderer'.answers[k].upTo)
    BY <1>8, <2>1, HeedsSame
  <2>7. LaidInv'
    BY <2>2, <2>5, <2>6 DEF LaidInv
  <2> QED BY <1>8, <2>2, <2>7
<1>9. CASE s = heard
  <2>1. \/ LiftOwed(was.en.owed) = {}
        \/ coordinator.state = "settling" /\ Lowered
    BY <1>1 DEF IInv, Stages, Resting, Aloft, Measured, Quiet
  <2>2. n \in 1..was.before /\ s = Committed(was, n)
    BY <1>1, <1>4, <1>9 DEF heard
  <2>3. Fit(s) /\ s.co = was.co
    <3>1. CASE LiftOwed(was.en.owed) = {}
      BY <1>1, <2>2, <3>1, HeardNoLift
    <3>2. CASE coordinator.state = "settling" /\ Lowered
      <4> PICK g : g = coordinator.settles
        OBVIOUS
      <4>1. PICK m \in 1..HandedOver : DownAfter(m) /\ LiftOwed(engine.owed) = Owes(m, coordinator.settles)
        BY <3>2 DEF Lowered
      <4>2. m \in Nat /\ LiftOwed(was.en.owed) = Owes(m, g)
        BY <1>1, <1>4, <4>1
      <4> QED BY <1>1, <2>2, <4>2, HeardLift
    <3> QED BY <2>1, <3>1, <3>2
  <2>4. /\ Sound(s) /\ Steady(s, was) /\ (LaidOut(was) => LaidOut(s))
        /\ \A k \in Nat : n <= k /\ Heeds(was, k) => Heeds(s, k - n)
    BY <1>1, <2>2, <2>3, CommittedLaid
  <2>5. \A k \in DOMAIN renderer'.answers : ~renderer'.answers[k].drawn => Heeds(s, renderer'.answers[k].upTo)
    BY ZenonT(30), <1>2, <1>5, <1>6, <2>4, HeardOn
  <2> QED BY <1>8, <2>3, <2>4, <2>5
<1>10. CASE s = given /\ coordinator.state = "flying" /\ ~answer.drawn
  <2>1. LiftOwed(was.en.owed) = {}
    BY <1>1, <1>10 DEF IInv, Stages, Aloft
  <2>2. Top(was) \in Nat /\ OwedOK(was.en.owed, Top(was))
    BY <1>1 DEF Fit, Top
  <2>3. OwedOK(OthersOwed(was.en.owed), Top(was)) /\ LiftOwed(OthersOwed(was.en.owed)) = {}
    <3> PICK owed : owed = was.en.owed
      OBVIOUS
    <3> PICK top : top = Top(was)
      OBVIOUS
    <3>1. OwedOK(OthersOwed(owed), top) /\ LiftOwed(OthersOwed(owed)) \subseteq LiftOwed(owed)
      BY <2>2, OthersOwedOK
    <3> QED BY <2>1, <3>1
  <2>4. /\ DOMAIN forgotten = DOMAIN was /\ forgotten.co = was.co /\ forgotten.pics = was.pics
        /\ forgotten.re = was.re /\ forgotten.before = was.before /\ forgotten.batch = was.batch
        /\ DOMAIN forgotten.en = DOMAIN was.en /\ forgotten.en.owed = OthersOwed(was.en.owed)
        /\ forgotten.en.shown = was.en.shown /\ forgotten.en.lift = was.en.lift
        /\ forgotten.en.quiet = was.en.quiet /\ forgotten.en.passes = was.en.passes
    BY <1>1 DEF forgotten, Fit, Shape
  <2>5. Fit(forgotten) /\ n \in 1..forgotten.before /\ LiftOwed(forgotten.en.owed) = {}
    BY <1>1, <1>4, <2>3, <2>4 DEF Fit, Shape, Top, Flying
  <2> PICK told : told = forgotten
    OBVIOUS
  <2> PICK c : c = Committed(told, n)
    OBVIOUS
  <2>6. Fit(c) /\ c.co = told.co
    <3>1. Fit(told) /\ told.batch = {} /\ n \in 1..told.before /\ LiftOwed(told.en.owed) = {}
      BY <1>1, <2>4, <2>5
    <3> QED BY <3>1, HeardNoLift
  <2> PICK shown : shown = [c EXCEPT !.en.shown = 0]
    OBVIOUS
  <2>7. /\ shown.co = c.co /\ shown.re = c.re /\ shown.en.owed = c.en.owed /\ shown.en.shown = 0
    BY <2>6 DEF Fit, Shape
  <2>8. Fit(shown)
    BY <2>6, NotShown
  <2>9. s = Abandon(shown)
    BY <1>10 DEF given, bare
  <2>10. Fit(s)
    <3> PICK t : t = Abandon(shown)
      OBVIOUS
    <3>1. Fit(t)
      BY <2>8, AbandonLets
    <3> QED BY <2>9, <3>1
  <2>11. Flying(was) /\ n \in 1..was.before /\ Heeds(was, n)
    BY <1>1, <1>4, <1>6, <1>10 DEF Flying
  <2>12. /\ Fit(told) /\ told.co = was.co /\ told.re = was.re /\ told.en.owed = OthersOwed(was.en.owed)
         /\ told.en.shown = was.en.shown /\ told.batch = {} /\ told.before = was.before
    BY <1>1, <2>4, <2>5
  <2>13. c.co = was.co
    BY <2>6, <2>12
  <2>14. /\ Sound(s) /\ ~Flying(s) /\ Steady(s, was) /\ \A k \in Nat : Heeds(s, k)
         /\ (was.co.flight.kind = "bounce" => was.en.passes = <<>>) /\ LaidOut(was) => LaidOut(s)
    <3>1. Fit(was) /\ Sound(was) /\ was.batch = {} /\ c = Committed(told, n)
      BY <1>1
    <3> QED BY ONLY <3>1, <2>7, <2>8, <2>9, <2>11, <2>12, <2>13, FailedLaid
  <2>15. PushesShow => (was.co.flight.kind = "bounce" => was.en.passes = <<>>)
    BY <1>1, <1>4, <1>10 DEF PushesShow
  <2>16. PushesShow /\ LaidOut(was) => LaidOut(s)
    BY <2>14, <2>15
  <2>17. \A k \in Nat : n <= k /\ Heeds(was, k) => Heeds(s, k - n)
    BY <1>4, <2>14
  <2>18. \A k \in DOMAIN renderer'.answers : ~renderer'.answers[k].drawn => Heeds(s, renderer'.answers[k].upTo)
    BY ZenonT(30), <1>2, <1>5, <1>6, <2>17, HeardOn
  <2> QED BY <1>8, <2>10, <2>14, <2>16, <2>18
<1> QED BY <1>3, <1>9, <1>10

-----------------------------------------------------------------------------
(* The whole.                                                              *)

LEMMA LaidStarts == Init => LaidInv /\ LaidOut(Now)
<1> SUFFICES ASSUME Init PROVE LaidInv /\ LaidOut(Now)
  OBVIOUS
<1> PICK now : now = Now
  OBVIOUS
<1>1. renderer.answers = <<>> /\ coordinator.state = "idle"
  BY DEF Init
<1>2. engine.passes = <<>> /\ engine.shown = 0 /\ engine.owed = <<>> /\ engine.final = Nothing
  BY DEF Init
<1>3. pictures.watch = Nothing
  BY DEF Init
<1>4. reactor.goal = Home /\ reactor.written = Home /\ reactor.requests = 0 /\ reactor.scenario \in Scenarios
  BY DEF Init
<1>5. now.co = coordinator /\ now.en = engine /\ now.pics = pictures /\ now.re = reactor
  BY DEF Now
<1>6. Home \in [Window -> Place]
  BY FlightAssumption
<1>7. Nothing \in Transfers(Place)
  BY NothingIs
<1>8. ~Flying(now) /\ Queued(now.en.owed, now.en.shown)
  BY <1>1, <1>2, <1>5 DEF Flying, Queued
<1>9. Sound(now)
  <2>1. Typed(now)
    BY <1>2, <1>4, <1>5, <1>6, <1>7, <1>8 DEF Typed
  <2> QED BY <1>2, <1>3, <1>5, <1>8, <2>1 DEF Sound
<1>10. \A w \in Window : Reached(now, w)
  BY <1>2, <1>4, <1>5 DEF Reached, Reaches
<1>11. LaidOut(now)
  BY <1>8, <1>10 DEF LaidOut
<1> QED BY <1>1, <1>4, <1>9, <1>11 DEF LaidInv

LaidStep == LaidInv' /\ (PushesShow /\ LaidOut(Now) => LaidOut(Now)')

LEMMA StepLays == IInv /\ LandedOK /\ LaidInv /\ [Next]_vars => LaidStep
<1> SUFFICES ASSUME IInv, LandedOK, LaidInv, [Next]_vars PROVE LaidStep
  OBVIOUS
<1>0. LaidKept => LaidStep
  BY DEF LaidKept, LaidStep
<1>1. ASSUME NEW r \in UNION Range(reactor.scenario.asks), RequestBegins(r) \/ RequestMerges(r) \/ RequestPushes(r)
      PROVE  LaidKept
  BY <1>1, RequestBeginsLaid, RequestMergesLaid, RequestPushesLaid
<1>2. CASE Engine
  <2>1. ASSUME NEW g \in quiets, QuietRanOut(g) PROVE LaidKept
    BY <2>1, QuietRanOutLaid
  <2>2. CASE QuietDue
    <3>1. UNCHANGED <<coordinator, engine, pictures, reactor>> /\ renderer'.answers = renderer.answers
      BY <2>2 DEF QuietDue
    <3> QED BY <1>0, <3>1, StillLaid
  <2>3. CASE RenderedHeard
    BY <2>3, RenderedHeardLaid DEF LaidStep
  <2>4. CASE TickDue \/ ClockRuns \/ TickLifts \/ LiftHeard \/ PicturesLanded
    BY <1>0, <2>4, TickDueLaid, ClockRunsLaid, TickLiftsLaid, LiftHeardLaid, PicturesLandedLaid
  <2> QED
    BY <1>0, <1>2, <2>1, <2>2, <2>3, <2>4 DEF Engine
<1>3. CASE RendererDraws
  BY <1>0, <1>3, RendererDrawsLaid
<1>4. CASE FrameZeroTaken
  BY <1>0, <1>4, FrameZeroTakenLaid
<1>5. ASSUME NEW w \in Window, PictureTaken(w) \/ PictureLost(w) PROVE LaidKept
  BY <1>5, PictureLaid
<1>6. CASE UNCHANGED vars
  BY <1>0, <1>6, StillLaid DEF vars
<1> QED BY <1>0, <1>1, <1>2, <1>3, <1>4, <1>5, <1>6 DEF Next

(* What holds of what is written, owed and held, whatever the overlay did: *)
(* writes wait in the order of the batches, passes are merged as counted,  *)
(* and no answer to come drops an earlier flight's write.                  *)
THEOREM LaidHolds == Spec => [](IInv /\ LaidInv)
<1>1. Init => LaidInv
  BY LaidStarts
<1>2. IInv /\ LandedOK /\ LaidInv /\ [Next]_vars => LaidInv'
  BY StepLays DEF LaidStep
<1> QED BY <1>1, <1>2, FlightInv, PTL DEF Spec

(* The flight, the pictures watched, what is owed and the quiets counted,  *)
(* and the windows' places are what they are taken for at every step, for  *)
(* any windows, places and scenarios: the motion starts after every phase  *)
(* before it, and a flight waits only for pictures it watches for.         *)
THEOREM FlightTyped == Spec => []TypeOK
<1>1. IInv /\ LaidInv => TypeOK
  <2> SUFFICES ASSUME IInv, LaidInv PROVE TypeOK
    OBVIOUS
  <2> PICK now : now = Now
    OBVIOUS
  <2>1. Fit(now) /\ Sound(now) /\ now.co = coordinator /\ now.en = engine /\ now.pics = pictures
        /\ now.re = reactor /\ now.before = HandedOver /\ now.batch = {}
    BY NowFit DEF IInv, LaidInv
  <2>2. coordinator.state \in {"idle", "flying", "settling"}
    BY DEF IInv, Stages, Resting, Aloft, Measured, Lowered, Quiet
  <2>3. ASSUME coordinator.state = "flying", NEW f, f = coordinator.flight
        PROVE  /\ [k \in DOMAIN f \ {"since", "sentBy", "merge"} |-> f[k]] \in Flights
               /\ DOMAIN f.since = DOMAIN f.ends /\ DOMAIN f.sentBy = DOMAIN f.ends
               /\ f.generation = coordinator.generation
               /\ f.clock = "none" <=> f.phase \in {"preparing", "coalescing", "holding"}
               /\ f.kind # "bounce" /\ f.phase \in {"holding", "mergeHeld"} => f.waiting \subseteq DOMAIN pictures.watch
    <3>1. FlightOK(f) /\ WaitsIn(now) /\ f = now.co.flight
      BY <2>1, <2>3 DEF Sound, Typed, Flying
    <3>2. DOMAIN f \ {"since", "sentBy", "merge"} =
            {"generation", "began", "at", "kind", "phase", "clock", "zeroOwed", "asked", "ends", "final", "waits", "waiting"}
      BY <3>1 DEF FlightOK, FlightFields
    <3> PICK g : g = [k \in DOMAIN f \ {"since", "sentBy", "merge"} |-> f[k]]
      OBVIOUS
    <3>3. g \in Flights
      BY <3>1, <3>2 DEF FlightOK, Flights, Early
    <3>4. f.generation = coordinator.generation
      BY <2>1, <2>3 DEF Fit, Flying
    <3>5. f.kind # "bounce" /\ f.phase \in {"holding", "mergeHeld"} => f.waiting \subseteq DOMAIN pictures.watch
      BY <2>1, <3>1 DEF WaitsIn
    <3> QED BY <3>1, <3>3, <3>4, <3>5 DEF FlightOK, Early
  <2>4. pictures.watch # Nothing => coordinator.state = "flying"
    BY <2>1 DEF Sound, Flying
  <2>5. \A i \in DOMAIN engine.owed : engine.owed[i].after \in 1..HandedOver
    BY <2>1 DEF Fit, Top, OwedOK, Effect
  <2>6. reactor.written \in [Window -> Place] /\ reactor.goal \in [Window -> Place]
    BY <2>1 DEF Sound, Typed
  <2> QED BY <2>2, <2>3, <2>4, <2>5, <2>6 DEF IInv, TypeOK
<1> QED BY <1>1, LaidHolds, PTL

(* The coordinator's count of the passes held and the engine's list of     *)
(* them agree: no pass is merged twice, and none is left behind.           *)
THEOREM CountedTogether == Spec => []HeldTogether
<1>1. IInv /\ LaidInv => HeldTogether
  <2> SUFFICES ASSUME IInv, LaidInv PROVE HeldTogether
    OBVIOUS
  <2> PICK now : now = Now
    OBVIOUS
  <2>1. Sound(now) /\ now.co = coordinator /\ now.en = engine
    BY NowFit DEF IInv, LaidInv
  <2> QED BY <2>1 DEF Sound, HeldUp, Flying, HeldTogether
<1> QED BY <1>1, LaidHolds, PTL

(* The windows are where the reactor last sent them, once no flight is on  *)
(* and no write waits, whatever was merged, held, given up or drawn late,  *)
(* as long as no push whose overlay fails holds a pass: Abandon writes     *)
(* nothing for a push, not even what a pass merged into it leaves to place.*)
THEOREM LayoutIsReached == Spec /\ []PushesShow => []LayoutReached
<1>1. IInv /\ LandedOK /\ LaidInv /\ LaidOut(Now) /\ PushesShow /\ [Next]_vars => LaidOut(Now)'
  BY StepLays DEF LaidStep
<1>2. Init => LaidOut(Now)
  BY LaidStarts
<1>3. LaidInv /\ LaidOut(Now) /\ IInv => LayoutReached
  <2> SUFFICES ASSUME IInv, LaidInv, LaidOut(Now), coordinator.state # "flying",
                      \A i \in DOMAIN engine.owed : engine.owed[i].owed.what # "write"
               PROVE  reactor.written = reactor.goal
    BY DEF LayoutReached
  <2> PICK now : now = Now
    OBVIOUS
  <2>1. /\ Sound(now) /\ LaidOut(now) /\ now.co = coordinator /\ now.en = engine /\ now.re = reactor
    BY NowFit DEF IInv, LaidInv
  <2>2. \A w \in Window : Reached(now, w)
    BY <2>1 DEF LaidOut, Flying
  <2>3. \A w \in Window : reactor.written[w] = reactor.goal[w]
    BY <2>1, <2>2 DEF Reached, Reaches, Moves, IsWrite
  <2>4. reactor.written \in [Window -> Place] /\ reactor.goal \in [Window -> Place]
    BY <2>1 DEF Sound, Typed
  <2> QED BY <2>3, <2>4
<1> QED BY <1>1, <1>2, <1>3, FlightInv, LaidHolds, PTL DEF Spec

=============================================================================
