------------------------------- MODULE Flight -------------------------------
(***************************************************************************)
(* A transition's flight: the overlay goes up over the windows, the real   *)
(* windows are written behind it, the tiles move, and the overlay lifts    *)
(* once they land.  The coordinator (transitions/domain/lifecycle.rs)      *)
(* decides, the engine carries its commands out                            *)
(* (transitions/platform/engine.rs), the renderer draws their batches and  *)
(* answers late (animation/platform/renderer.rs), the pictures service     *)
(* watches the ends and delivers pictures late (pictures/domain/watch.rs), *)
(* and the reactor asks and is told whether a flight is up.                *)
(*                                                                         *)
(* One engine event is one step: the commands of each coordinator event    *)
(* are carried out before the next, so a step is a composition of          *)
(* operators on a record `s` of what the engine's thread writes to.        *)
(*                                                                         *)
(* Left out: what focus and a turned face draw, the background and live    *)
(* watches, the last capture, snaps, holes, what is drawn at rest, the     *)
(* overview and the journal, and a picture of frame zero that comes once   *)
(* the overlay is shown, which turns the face of a tile.  A window ends on *)
(* the display or off it, never cut by its edge.  Batches that neither     *)
(* pose, show nor hide the overlay are left out, and `settled` may be      *)
(* false at any tick.                                                      *)
(***************************************************************************)
EXTENDS Naturals, SequencesExt

CONSTANTS
    Window,       \* the windows
    Place,        \* where a window can be
    Seen,         \* the places on the display
    Home,         \* where each window is at the start
    Scenarios     \* bound: what may be asked first, second..., the kinds whose overlay
                  \* may fail, whether lifts are measured, whose pictures may be lost

Sort == {"lands", "kept", "held"}
Kind == {"pass", "surface", "bounce"}

(* The functions of some windows.                                          *)
Transfers(S) == UNION { [W -> S] : W \in SUBSET Window }

Request == { r \in [kind : Kind, ends : Transfers(Place), sort : Transfers(Sort), drawn : BOOLEAN] :
               DOMAIN r.sort = DOMAIN r.ends }

ASSUME FlightAssumption ==
    /\ Seen \subseteq Place /\ Home \in [Window -> Place]
    /\ Scenarios \subseteq [asks : Seq(SUBSET Request), fails : SUBSET Kind, measured : (SUBSET BOOLEAN) \ {{}},
                       lost : SUBSET Window]

VARIABLES
    coordinator,  \* Coordinator: its state, generation and flight
    engine,       \* FlightEngine: what it holds and owes
    renderer,     \* the batches on their way to it, its answers, and the overlay
    pictures,     \* the pictures service: its hold, its watch and its frame-zero asks
    landed,       \* what it delivers to the engine, in order
    quiets,       \* the quiets in the engine's channel
    reactor       \* what it wants, what it has written, what it was told

vars == <<coordinator, engine, renderer, pictures, landed, quiets, reactor>>

-----------------------------------------------------------------------------
(* A pass, as the engine composes a request: the windows it moves, and how *)
(* it waits for the picture of each (EndPicture).  A still window is drawn *)
(* and not placed.                                                         *)

Nothing == <<>>    \* the function of no window

(* The latest frame of each window wins.                                   *)
ExtendLatest(into, more) ==
    [w \in DOMAIN into \cup DOMAIN more |-> IF w \in DOMAIN more THEN more[w] ELSE into[w]]

Changed(before, after) ==
    Restrict(after, { w \in DOMAIN after : w \notin DOMAIN before \/ before[w] # after[w] })

Pass(r, at) ==
    LET final == IF r.kind = "bounce" THEN Nothing ELSE Changed(reactor.goal, r.ends) IN
    [kind |-> r.kind, ends |-> r.ends, final |-> final, at |-> at,
     waits |-> Restrict(r.sort, { w \in DOMAIN final : r.sort[w] # "lands" })]

Grows(pass) == { w \in DOMAIN pass.waits : pass.waits[w] = "held" }

NoFlight == [phase |-> "none"]
NoMerge  == [passes |-> 0]

-----------------------------------------------------------------------------
(* What one event writes to, and what waits for a batch to be drawn        *)
(* (transitions/domain/drawn.rs).  A batch is numbered from the last heard *)
(* committed: 0 is drawn, `before` were handed over before this event.     *)

(* How many batches the renderer has answered for, heard of or not yet.    *)
Answered == IF renderer.answers = <<>> THEN 0 ELSE Last(renderer.answers).upTo

HandedOver == Answered + Len(renderer.line)

Now == [co |-> coordinator, en |-> engine, pics |-> pictures, re |-> reactor,
        before |-> HandedOver, batch |-> {}, extends |-> FALSE]

Write(frames)   == [what |-> "write", frames |-> frames, generation |-> 0]
SettleOwed      == [what |-> "settle", frames |-> Nothing, generation |-> 0]
QuietOwed(g)    == [what |-> "quiet", frames |-> Nothing, generation |-> g]

Render(s, command) == [s EXCEPT !.batch = @ \cup {command}]

Batch(s) == s.before + 1

Carry(s, owed) ==
    CASE owed.what = "write"  -> [s EXCEPT !.re.written = ExtendLatest(@, owed.frames)]
      [] owed.what = "settle" -> [s EXCEPT !.pics.hold = "settling"]
      [] owed.what = "quiet"  -> [s EXCEPT !.en.quiet = owed.generation]

(* `own`: owed by the flight running.                                      *)
Owe(s, after, owed) ==
    IF after = 0 THEN Carry(s, owed)
    ELSE [s EXCEPT !.en.owed = Append(@, [after |-> after, own |-> TRUE, owed |-> owed])]

Writes(s, frames) == IF frames = Nothing THEN s ELSE Owe(s, s.en.shown, Write(frames))

(* The effects owed at the indexes kept, in the order they were owed.      *)
Sift(owed, kept) ==
    LET upTo[i \in 0..Len(owed)] ==
          IF i = 0 THEN <<>>
          ELSE IF i \in kept THEN Append(upTo[i - 1], owed[i]) ELSE upTo[i - 1]
    IN  upTo[Len(owed)]

(* Mutants: a new flight drops every effect owed, or none.                 *)
BegunDropped(owed) == <<>>
BegunKept(owed) == [i \in DOMAIN owed |-> [owed[i] EXCEPT !.own = FALSE]]

(* Drawn::begun: what a lift owes is dropped, the writes stay.             *)
Begun(owed) ==
    LET writes == Sift(owed, { i \in DOMAIN owed : owed[i].owed.what = "write" })
    IN  [i \in DOMAIN writes |-> [writes[i] EXCEPT !.own = FALSE]]

(* What the flight running owes is dropped with it (Drawn::undrawn).       *)
OthersOwed(owed) == Sift(owed, { i \in DOMAIN owed : ~owed[i].own })

(* The batches up to the n-th are drawn: what they release, in order.      *)
Committed(s, n) ==
    LET owed  == s.en.owed
        waits == Sift(owed, { i \in DOMAIN owed : owed[i].after > n })
        Less(k) == IF k > n THEN k - n ELSE 0
        carried[i \in 0..Len(owed)] ==
          IF i = 0
          THEN [s EXCEPT !.en.owed = [j \in DOMAIN waits |-> [waits[j] EXCEPT !.after = @ - n]],
                         !.en.shown = Less(@), !.en.lifted = Less(@), !.before = @ - n]
          ELSE IF owed[i].after <= n THEN Carry(carried[i - 1], owed[i].owed) ELSE carried[i - 1]
    IN  carried[Len(owed)]

(* Mutant: what a lift owes waits for the show before it.                  *)
HideAtShow(s, owed) ==
    LET hidden == [Render(s, "lift") EXCEPT !.en.lifted = Batch(s)]
    IN  FoldLeft(LAMBDA t, o : Owe(t, t.en.shown, o), hidden, owed)

(* The overlay's own batch is not drawn yet: each effect waits for it.     *)
Hide(s, owed) ==
    LET hidden == [Render(s, "lift") EXCEPT !.en.lifted = Batch(s)]
    IN  [hidden EXCEPT !.en.owed = @ \o [i \in DOMAIN owed |-> [after |-> Batch(s), own |-> TRUE, owed |-> owed[i]]]]

-----------------------------------------------------------------------------
(* The flight (transitions/domain/lifecycle.rs).                           *)

Flying(s) == s.co.state = "flying"

(* Mutant: the picture of a window where its tile ends is always for it.   *)
TakesAny(f, w, pic) == w \in DOMAIN f.ends /\ pic.place = f.ends[w]

(* Pictured where it ends only if taken for the end its tile has now.      *)
Takes(f, w, pic) ==
    w \in DOMAIN f.ends /\ pic.generation >= f.since[w] /\ pic.place = f.ends[w]

Keeps(f, w) == w \in DOMAIN f.waits /\ f.waits[w] = "kept"

(* Flight::end_windows, as EndWatch watches them: to repaint, or to land.  *)
HeldEnds(f) == IF f.merge = NoMerge THEN Nothing ELSE f.merge.ends

(* Mutant: what a held pass grows is not watched.                          *)
AwaitingOwn(f) == Restrict(f.ends, { w \in DOMAIN f.waits : f.ends[w] \in Seen })

Awaiting(f) ==
    ExtendLatest(Restrict(f.ends, { w \in DOMAIN f.waits : f.ends[w] \in Seen }), HeldEnds(f))

Landing(f) ==
    Restrict(f.final, { w \in DOMAIN f.final \cap DOMAIN f.ends :
                          f.final[w] \in Seen /\ w \notin DOMAIN f.waits \cup DOMAIN HeldEnds(f) })

Holdable(f) == { w \in DOMAIN Awaiting(f) : w \in DOMAIN f.waits /\ f.waits[w] = "held" }

(* Command::Watch: a window already pictured where it still ends stays so. *)
Watches(s) ==
    LET f   == s.co.flight
        old == s.pics.watch
        Entry(w, set, place) ==
            [set |-> set, place |-> place, generation |-> f.generation,
             done |-> w \in DOMAIN old /\ old[w].set = set /\ old[w].place = place /\ old[w].done]
        awaiting == [w \in DOMAIN Awaiting(f) |-> Entry(w, "awaiting", Awaiting(f)[w])]
        landing  == [w \in DOMAIN Landing(f) |-> Entry(w, "landing", Landing(f)[w])]
    IN  IF f.kind = "bounce" THEN s ELSE [s EXCEPT !.pics.watch = ExtendLatest(landing, awaiting)]

(* The motion starts, and the clock is set to what the score plays.        *)
StartMoving(s) ==
    IF s.co.flight.clock # "none" THEN s
    ELSE [s EXCEPT !.co.flight = [@ EXCEPT !.phase = "playing", !.clock = "running"]]

HoldOrMove(s) ==
    IF s.co.flight.waiting = {} THEN StartMoving(s) ELSE [s EXCEPT !.co.flight.phase = "holding"]

(* Mutant: the windows are written before the overlay's batch is numbered. *)
ShowWritesFirst(s) ==
    LET f     == s.co.flight
        wrote == IF f.kind = "bounce" THEN s ELSE Writes(s, f.final)
        shown == [Render(wrote, "show") EXCEPT !.en.shown = Batch(s)]
        held  == [Watches(shown) EXCEPT !.co.flight.waiting = Holdable(f)]
    IN  IF f.kind = "pass" /\ Holdable(f) = {}
        THEN [held EXCEPT !.co.flight.phase = "coalescing"] ELSE HoldOrMove(held)

(* The overlay goes up, the real windows are written behind it.            *)
Show(s) ==
    LET f     == s.co.flight
        shown == [Render(s, "show") EXCEPT !.en.shown = Batch(s)]
        watched == Watches(IF f.kind = "bounce" THEN shown ELSE Writes(shown, f.final))
        held  == [watched EXCEPT !.co.flight.waiting = Holdable(f)]
    IN  IF f.kind = "pass" /\ Holdable(f) = {}
        THEN [held EXCEPT !.co.flight.phase = "coalescing"] ELSE HoldOrMove(held)

(* Event::Extend: the clock runs on to cover what is played, if it must.   *)
Extend(s) ==
    IF s.co.flight.clock \in {"none", "running"} \/ ~s.extends THEN s
    ELSE [s EXCEPT !.co.flight.clock = "running"]

(* Command::Swap for each of pics its tile takes; the flight is posed      *)
(* again while it does not move.                                           *)
Draws(s, pics) ==
    LET f == s.co.flight
        swapped == { w \in DOMAIN pics :
                       /\ Takes(f, w, pics[w]) /\ ~Keeps(f, w)
                       /\ w \in DOMAIN s.en.delivered
                       /\ s.en.delivered[w].generation = pics[w].generation }
        posed   == IF swapped # {} /\ f.clock = "none" THEN Render(s, "stage") ELSE s
    IN  [posed EXCEPT !.en.worn = [w \in Window |-> IF w \in swapped THEN s.en.delivered[w].taken ELSE @[w]],
                  !.en.delivered = Restrict(@, DOMAIN @ \ swapped)]

(* Since when each tile ends where it ends: the generation, and the        *)
(* request that sent it there, for a repaint watched under a held merge    *)
(* those the merge was first held under.                                   *)
EndedSince(f, ends, pass, generation) ==
    [w \in DOMAIN ends |->
       IF f.merge.passes = 1 /\ w \in DOMAIN f.merge.ends /\ f.merge.ends[w] = ends[w]
       THEN f.merge.generation
       ELSE IF w \in DOMAIN f.ends /\ f.ends[w] = ends[w] THEN f.since[w] ELSE generation]

SentBy(f, ends, pass) ==
    [w \in DOMAIN ends |->
       IF f.merge.passes = 1 /\ w \in DOMAIN f.merge.ends /\ f.merge.ends[w] = ends[w]
       THEN f.merge.at
       ELSE IF w \in DOMAIN f.ends /\ f.ends[w] = ends[w] THEN f.sentBy[w] ELSE pass.at]

(* Windows on screen where their tiles start, which no ask was for yet.    *)
AsksFrameZeroAgain(s) ==
    LET f == s.co.flight
        unasked == { w \in DOMAIN f.ends \ f.asked : reactor.written[w] \in Seen }
    IN  IF unasked = {} THEN s
        ELSE [s EXCEPT !.co.flight.asked = @ \cup unasked, !.co.flight.zeroOwed = @ + 1,
                       !.pics.zeros = Append(@, f.began)]

(* merge_now and Coordinator::merge.  A pass that moves anything restarts  *)
(* a running clock; every held pass but the last of them was written as it *)
(* was held, and only the last takes the repaints.                         *)
Merge(s, pass) ==
    LET f         == s.co.flight
        preparing == f.phase = "preparing"
        flown     == f.clock # "none"
        overtaken == f.merge.passes > 1
        running   == ExtendLatest(s.en.final, pass.final)
        ends      == ExtendLatest(f.ends, pass.ends)
        moved     == flown /\ ends # f.ends
        generation == IF preparing THEN f.generation ELSE s.co.generation + 1
        merged    == [f EXCEPT
            !.generation = generation, !.at = IF preparing THEN @ ELSE pass.at,
            !.kind = pass.kind, !.ends = ends,
            !.final  = IF overtaken THEN @ ELSE running,
            !.since  = EndedSince(f, ends, pass, generation),
            !.sentBy = SentBy(f, ends, pass),
            !.waits  = ExtendLatest(@, pass.waits),
            !.merge  = IF overtaken THEN [f.merge EXCEPT !.passes = @ - 1] ELSE NoMerge,
            !.clock  = IF moved THEN "running" ELSE @]
        holdable  == Holdable(merged)
        joined    == f.waiting \cup (IF flown THEN {} ELSE Grows(pass) \cap holdable)
        composed  == [s EXCEPT !.en.final = running, !.co.generation = generation,
                        !.co.flight = IF preparing THEN merged
                                      ELSE [merged EXCEPT !.waiting = joined \cap holdable]]
        written   == Watches(IF overtaken THEN composed ELSE Writes(composed, Changed(f.final, running)))
        freed    == IF f.phase = "holding" /\ joined # {} /\ joined \cap holdable = {}
                     THEN StartMoving(written) ELSE written
        drawn     == IF f.merge.passes = 1 THEN Draws(freed, f.merge.repainted) ELSE freed
    IN  IF preparing THEN AsksFrameZeroAgain(composed)
        ELSE IF flown /\ ~moved THEN Extend(drawn) ELSE drawn

(* The passes held merge, oldest first.                                    *)
Retarget(s) ==
    LET resumed == IF s.co.flight.phase = "mergeHeld"
                   THEN [s EXCEPT !.co.flight = [@ EXCEPT !.phase = "playing", !.waiting = {}]] ELSE s
        merged[i \in 0..Len(s.en.passes)] ==
          IF i = 0 THEN [resumed EXCEPT !.en.passes = <<>>] ELSE Merge(merged[i - 1], s.en.passes[i])
    IN  merged[Len(s.en.passes)]

(* hold_no_longer: w's picture is in, or never to come.                    *)
LetGo(s, w) ==
    LET left == s.co.flight.waiting \ {w}
        out  == [s EXCEPT !.co.flight.waiting = left]
    IN  IF left # {} THEN out
        ELSE CASE s.co.flight.phase = "holding"   -> StartMoving(out)
               [] s.co.flight.phase = "mergeHeld" -> Retarget(out)
               [] OTHER -> out

(* hold_merge: a pass that grows a window seen where it ends is held, its  *)
(* windows written at once, until they have repainted there.               *)
HoldMerge(s, pass) ==
    LET f     == s.co.flight
        seen  == { w \in Grows(pass) : pass.ends[w] \in Seen }
        held  == IF f.merge # NoMerge THEN f.merge
                 ELSE [passes |-> 0, generation |-> f.generation, at |-> f.at,
                       ends |-> Nothing, repainted |-> Nothing]
        sent  == [w \in DOMAIN held.ends |-> IF w \in DOMAIN pass.final THEN pass.final[w] ELSE held.ends[w]]
        shown == Restrict(sent, { w \in DOMAIN sent : sent[w] \in Seen })
        merge == [held EXCEPT !.passes = @ + 1, !.ends = ExtendLatest(shown, Restrict(pass.ends, seen))]
        waits == [s EXCEPT !.co.flight = [f EXCEPT !.merge = merge, !.waiting = seen,
                              !.phase = "mergeHeld", !.final = ExtendLatest(@, pass.final)]]
    IN  IF seen = {}
        THEN Retarget(IF f.merge = NoMerge THEN s ELSE [s EXCEPT !.co.flight.merge.passes = @ + 1])
        ELSE Watches(Writes(waits, Changed(f.final, pass.final)))

(* Coordinator::picture, offered by the engine.                            *)
Offered(s, w, pic) ==
    LET f == s.co.flight
        m == f.merge
        only == [v \in {w} |-> pic]
        given == [s EXCEPT !.en.delivered = ExtendLatest(@, only)]
        repaint == /\ m # NoMerge /\ pic.generation >= m.generation
                   /\ w \in DOMAIN m.ends /\ pic.place = m.ends[w]
    IN  IF ~Flying(s) THEN given
        ELSE IF repaint
        THEN LetGo([given EXCEPT !.co.flight.merge.repainted = ExtendLatest(@, only)], w)
        ELSE IF Takes(f, w, pic) /\ m = NoMerge THEN LetGo(Draws(given, only), w)
        ELSE Draws(given, only)

(* Mutant: the deliveries go with the event they came in.                  *)
KeepHeldNone(s) == [s EXCEPT !.en.delivered = Nothing]

(* Only what the coordinator still holds of the deliveries stays.          *)
KeepHeld(s) ==
    LET held == IF Flying(s) /\ s.co.flight.merge # NoMerge THEN s.co.flight.merge.repainted ELSE Nothing
    IN  [s EXCEPT !.en.delivered =
           Restrict(@, { w \in DOMAIN @ : /\ w \in DOMAIN held
                                          /\ held[w].generation = @[w].generation
                                          /\ held[w].place = @[w].place })]

-----------------------------------------------------------------------------
(* The flights' ends.                                                      *)

NoTiles(s) == [s EXCEPT !.en = [@ EXCEPT !.passes = <<>>, !.final = Nothing, !.worn = [w \in Window |-> 0]],
                        !.pics.watch = Nothing]

Release(s) == [s EXCEPT !.pics.hold = "released", !.re.reported = FALSE,
                        !.co = [@ EXCEPT !.state = "idle", !.settles = 0, !.flight = NoFlight]]

(* Windows that never showed are placed at once, and the service let go.   *)
Abandon(s) ==
    LET f    == s.co.flight
        hid  == NoTiles(Hide(s, <<>>))
    IN  Release(IF f.kind = "bounce" THEN hid ELSE Writes(hid, f.final))

(* The overlay comes down, or waits to while it is measured; the bar is    *)
(* pictured and the quiet begins once that is drawn.                       *)
Lift(s, measured) ==
    LET owed   == <<QuietOwed(s.co.flight.generation), SettleOwed>>
        lifted == IF measured THEN [s EXCEPT !.en.lift = owed] ELSE Hide(s, owed)
    IN  [NoTiles(lifted) EXCEPT !.co = [@ EXCEPT !.state = "settling",
                                          !.settles = s.co.flight.generation, !.flight = NoFlight]]

(* Mutant: a lift that was measured owes nothing.                          *)
HideHeldOwing(s) == IF s.en.lift = <<>> THEN s ELSE Hide([s EXCEPT !.en.lift = <<>>], <<>>)

HideHeld(s) == IF s.en.lift = <<>> THEN s ELSE Hide([s EXCEPT !.en.lift = <<>>], s.en.lift)

(* Coordinator::begin: a press inside the quiet is already reported.       *)
Begin(s, pass) ==
    LET generation == s.co.generation + 1
        start      == { w \in DOMAIN pass.ends : reactor.written[w] \in Seen }
    IN  [s EXCEPT
          !.en.quiet = 0, !.en.owed = Begun(@), !.en.final = Nothing,
          !.pics.hold = "transition", !.pics.zeros = Append(@, generation),
          !.re.reported = TRUE,
          !.co = [state |-> "flying", generation |-> generation, settles |-> 0,
                  flight |-> [generation |-> generation, began |-> generation, at |-> pass.at, kind |-> pass.kind,
                    phase |-> "preparing", clock |-> "none", zeroOwed |-> 1, asked |-> start,
                    ends |-> pass.ends, final |-> pass.final,
                    since |-> [w \in DOMAIN pass.ends |-> generation],
                    sentBy |-> [w \in DOMAIN pass.ends |-> pass.at],
                    waits |-> Nothing, waiting |-> {}, merge |-> NoMerge]]]

-----------------------------------------------------------------------------
(* The engine's events.                                                    *)

Becomes(s) ==
    LET kept == KeepHeld(s) IN
    /\ coordinator' = kept.co /\ engine' = kept.en /\ pictures' = kept.pics /\ reactor' = kept.re

Sends(s) == renderer' = [renderer EXCEPT !.line = IF s.batch = {} THEN @ ELSE Append(@, s.batch)]

Requested(r) ==
    LET n == reactor.requests + 1
    IN  [Now EXCEPT !.re.requests = n, !.re.goal = ExtendLatest(@, Pass(r, n).final)]

Asked(r) ==
    LET asks == reactor.scenario.asks
    IN  reactor.requests < Len(asks) /\ r \in asks[reactor.requests + 1]

(* A request reaching no flight begins one before it is composed; one with *)
(* nothing worth drawing is abandoned then.                                *)
RequestBegins(r) ==
    LET pass  == Pass(r, reactor.requests + 1)
        began == Begin(HideHeld(Requested(r)), pass)
        posed == Merge(Render(began, "stage"), pass)
        s     == IF r.drawn THEN posed ELSE Abandon(began)
    IN
    /\ Asked(r) /\ coordinator.state # "flying"
    /\ Becomes(s) /\ Sends(s)
    /\ UNCHANGED <<landed, quiets>>

(* merge_group: once the motion runs, a pass that grows a window is held,  *)
(* and any while one is held.                                              *)
RequestMerges(r) ==
    LET pass  == Pass(r, reactor.requests + 1)
        f     == coordinator.flight
        s(x)  == [Requested(r) EXCEPT !.extends = x]
        held  == f.clock # "none" /\ (Grows(pass) # {} \/ engine.passes # <<>>)
    IN
    /\ Asked(r) /\ coordinator.state = "flying" /\ r.kind # "bounce"
    /\ \E extends \in BOOLEAN :
         LET after == IF held THEN HoldMerge([s(extends) EXCEPT !.en.passes = Append(@, pass)], pass)
                      ELSE Merge(s(extends), pass)
             posed == IF f.clock = "none" THEN Render(after, "stage") ELSE after
         IN  Becomes(posed) /\ Sends(posed)
    /\ UNCHANGED <<landed, quiets>>

(* A push against an end moves no window and lengthens what plays.         *)
RequestPushes(r) ==
    LET s == Extend([Requested(r) EXCEPT !.extends = TRUE]) IN
    /\ Asked(r) /\ coordinator.state = "flying" /\ r.kind = "bounce"
    /\ Becomes(s) /\ Sends(s)
    /\ UNCHANGED <<landed, quiets>>

(* A tick finds what it waits for due.                                     *)
Ticks(phase) == coordinator.state = "flying" /\ coordinator.flight.phase = phase

TickDue ==
    /\ \E extends \in BOOLEAN :
         LET now == [Now EXCEPT !.extends = extends]
             s == CASE Ticks("preparing")  -> Show(now)
                    [] Ticks("coalescing") -> HoldOrMove(now)
                    [] Ticks("holding")    -> StartMoving(now)
                    [] Ticks("mergeHeld")  -> Retarget(now)
         IN
         /\ \E phase \in {"preparing", "coalescing", "holding", "mergeHeld"} : Ticks(phase)
         /\ Becomes(s) /\ Sends(s)
    /\ UNCHANGED <<landed, quiets>>

(* The clock is over, and later overdue.                                   *)
ClockRuns ==
    /\ coordinator.state = "flying" /\ coordinator.flight.clock \in {"running", "over"}
    /\ coordinator' = [coordinator EXCEPT !.flight.clock = IF @ = "running" THEN "over" ELSE "overdue"]
    /\ UNCHANGED <<engine, renderer, pictures, landed, quiets, reactor>>

(* The clock is over: the overlay lifts once the tiles and the windows are *)
(* where they end, or overdue.  Bound: a failure to make the overlay is    *)
(* heard before that.                                                      *)
Landed == \A w \in DOMAIN engine.final : reactor.written[w] = engine.final[w]

TickLifts ==
    /\ Ticks("playing")
    /\ \A i \in DOMAIN renderer.answers : renderer.answers[i].drawn
    /\ \/ coordinator.flight.clock = "over" /\ HandedOver = 0 /\ Landed
       \/ coordinator.flight.clock = "overdue"
    /\ \E measured \in reactor.scenario.measured :
         LET s == Lift(Now, measured) IN Becomes(s) /\ Sends(s)
    /\ UNCHANGED <<landed, quiets>>

(* The overlay's picture is taken, or the patience for it runs out.        *)
LiftHeard ==
    /\ engine.lift # <<>>
    /\ LET s == HideHeld(Now) IN Becomes(s) /\ Sends(s)
    /\ UNCHANGED <<landed, quiets>>

(* A repeating timer; a quiet in the channel outlives it.                  *)
QuietDue ==
    /\ engine.quiet \notin quiets \cup {0}
    /\ quiets' = quiets \cup {engine.quiet}
    /\ UNCHANGED <<coordinator, engine, renderer, pictures, landed, reactor>>

QuietRanOut(g) ==
    LET disarmed == [Now EXCEPT !.en.quiet = IF @ = g THEN 0 ELSE @]
        s == IF coordinator.state = "settling" /\ coordinator.settles = g THEN Release(disarmed) ELSE disarmed
    IN
    /\ g \in quiets /\ quiets' = quiets \ {g}
    /\ Becomes(s)
    /\ UNCHANGED <<renderer, landed>>

-----------------------------------------------------------------------------
(* The renderer: every batch waiting is drawn as one, the last to show or  *)
(* hide the overlay standing; what poses a flight makes the overlay if     *)
(* there is none, and is not drawn if that fails.                          *)

RendererDraws ==
    LET line  == renderer.line
        needs == \E i \in DOMAIN line : "stage" \in line[i]
        turns == { i \in DOMAIN line : line[i] \cap {"show", "lift"} # {} }
        fails == coordinator.state = "flying" /\ coordinator.flight.kind \in reactor.scenario.fails
    IN
    /\ line # <<>>
    /\ \E made \in IF renderer.made \/ ~needs THEN {renderer.made} ELSE {TRUE, ~fails} :
         renderer' = [line |-> <<>>, made |-> made,
           answers |-> Append(renderer.answers, [upTo |-> HandedOver, drawn |-> made \/ ~needs]),
           up |-> IF ~made \/ turns = {} THEN renderer.up ELSE "show" \in line[Max(turns)]]
    /\ UNCHANGED <<coordinator, engine, pictures, landed, quiets, reactor>>

(* The answers to come, numbered from the one heard.                       *)
Heard(answers, n) ==
    [i \in DOMAIN Tail(answers) |-> [answers[i + 1] EXCEPT !.upTo = @ - n]]

(* Event::Committed, Event::Unavailable: the batches the renderer answers  *)
(* for are counted from the ones heard of now on.                          *)
RenderedHeard ==
    LET answer    == Head(renderer.answers)
        forgotten == [Now EXCEPT !.en.owed = OthersOwed(@)]
        s == IF answer.drawn \/ coordinator.state # "flying" THEN Committed(Now, answer.upTo)
             ELSE Abandon([Committed(forgotten, answer.upTo) EXCEPT !.en.shown = 0])
    IN
    /\ renderer.answers # <<>>
    /\ Becomes(s)
    /\ renderer' = [renderer EXCEPT
                      !.answers = Heard(@, answer.upTo),
                      !.line = IF s.batch = {} THEN @ ELSE Append(@, s.batch)]
    /\ UNCHANGED <<landed, quiets>>

-----------------------------------------------------------------------------
(* The pictures service: a frame-zero ask comes first.                     *)

FrameZeroTaken ==
    /\ pictures.zeros # <<>>
    /\ landed' = Append(landed, [kind |-> "frameZero", generation |-> Head(pictures.zeros)])
    /\ pictures' = [pictures EXCEPT !.zeros = Tail(@)]
    /\ UNCHANGED <<coordinator, engine, renderer, quiets, reactor>>

Watched(w) == w \in DOMAIN pictures.watch /\ ~pictures.watch[w].done

(* The window is where it ends, and pictured there.                        *)
PictureTaken(w) ==
    /\ pictures.zeros = <<>> /\ Watched(w) /\ reactor.written[w] = pictures.watch[w].place
    /\ landed' = Append(landed, [kind |-> "picture", window |-> w,
         picture |-> [generation |-> pictures.watch[w].generation, place |-> pictures.watch[w].place,
                      taken |-> reactor.requests]])
    /\ pictures' = [pictures EXCEPT !.watch[w].done = TRUE]
    /\ UNCHANGED <<coordinator, engine, renderer, quiets, reactor>>

(* It is not there by the watch's deadline, or its capture is refused.     *)
PictureLost(w) ==
    /\ w \in reactor.scenario.lost /\ Watched(w)
    /\ landed' = Append(landed, [kind |-> "lost", window |-> w, generation |-> pictures.watch[w].generation])
    /\ pictures' = [pictures EXCEPT !.watch[w].done = TRUE]
    /\ UNCHANGED <<coordinator, engine, renderer, quiets, reactor>>

(* The last one owed shows the overlay; later ones turn a face, no more.   *)
FrameZeroHeard(s, g) ==
    LET f == s.co.flight
        counted == [s EXCEPT !.co.flight.zeroOwed = @ - 1]
    IN  IF ~Flying(s) THEN s
        ELSE IF f.began # g \/ f.phase # "preparing" THEN s
        ELSE IF f.zeroOwed > 1 THEN counted ELSE Show(counted)

LostHeard(s, lost) ==
    IF ~Flying(s) THEN s
    ELSE IF s.co.flight.generation = lost.generation THEN LetGo(s, lost.window) ELSE s

PicturesLanded ==
    /\ landed # <<>> /\ landed' = Tail(landed)
    /\ \E extends \in BOOLEAN :
         LET heard == Head(landed)
             now   == [Now EXCEPT !.extends = extends]
             s == CASE heard.kind = "frameZero" -> FrameZeroHeard(now, heard.generation)
                    [] heard.kind = "picture"   -> Offered(now, heard.window, heard.picture)
                    [] heard.kind = "lost"      -> LostHeard(now, heard)
         IN  Becomes(s) /\ Sends(s)
    /\ UNCHANGED quiets

-----------------------------------------------------------------------------
Init ==
    /\ coordinator = [state |-> "idle", generation |-> 0, settles |-> 0, flight |-> NoFlight]
    /\ engine = [passes |-> <<>>, final |-> Nothing, shown |-> 0, lifted |-> 0, lift |-> <<>>,
                 quiet |-> 0, owed |-> <<>>, delivered |-> Nothing, worn |-> [w \in Window |-> 0]]
    /\ renderer = [line |-> <<>>, answers |-> <<>>, made |-> FALSE, up |-> FALSE]
    /\ pictures = [hold |-> "released", watch |-> Nothing, zeros |-> <<>>]
    /\ landed = <<>> /\ quiets = {}
    /\ \E scenario \in Scenarios :
         reactor = [goal |-> Home, written |-> Home, reported |-> FALSE, requests |-> 0, scenario |-> scenario]

Engine ==
    \/ TickDue \/ ClockRuns \/ TickLifts \/ LiftHeard
    \/ QuietDue \/ RenderedHeard \/ PicturesLanded
    \/ \E g \in quiets : QuietRanOut(g)

Next ==
    \/ \E r \in UNION Range(reactor.scenario.asks) : RequestBegins(r) \/ RequestMerges(r) \/ RequestPushes(r)
    \/ Engine \/ RendererDraws \/ FrameZeroTaken
    \/ \E w \in Window : PictureTaken(w) \/ PictureLost(w)

Spec == Init /\ [][Next]_vars

(* A deadline of the flight's is to come, or something to be heard.        *)
Due ==
    \/ coordinator.state = "flying" \/ engine.lift # <<>> \/ engine.quiet \notin quiets \cup {0} \/ quiets # {}
    \/ renderer.line # <<>> \/ renderer.answers # <<>> \/ landed # <<>>

(* The engine's thread and the renderer's run; pictures may never come.    *)
(* This is WF_vars(Engine \/ RendererDraws), with what enables them stated. *)
Fairness == []<>~Due \/ []<><<Engine \/ RendererDraws>>_vars

FairSpec == Spec /\ Fairness

-----------------------------------------------------------------------------
Flights ==
    [generation : Nat, began : Nat, at : Nat, kind : Kind,
     phase : {"preparing", "coalescing", "holding", "mergeHeld", "playing"},
     clock : {"none", "running", "over", "overdue"}, zeroOwed : Nat, asked : SUBSET Window,
     ends : Transfers(Place), final : Transfers(Place), waits : Transfers(Sort), waiting : SUBSET Window]

(* Beside types: the motion starts after every phase before it, what a     *)
(* hold waits for is watched under the flight running (one given up on is  *)
(* watched for no longer), and every effect owed waits for a batch handed  *)
(* over and not yet answered.                                              *)
TypeOK ==
    /\ coordinator.state \in {"idle", "flying", "settling"}
    /\ coordinator.state = "flying" =>
         LET f == coordinator.flight IN
         /\ [k \in DOMAIN f \ {"since", "sentBy", "merge"} |-> f[k]] \in Flights
         /\ DOMAIN f.since = DOMAIN f.ends /\ DOMAIN f.sentBy = DOMAIN f.ends
         /\ f.generation = coordinator.generation
         /\ f.clock = "none" <=> f.phase \in {"preparing", "coalescing", "holding"}
         /\ f.kind # "bounce" /\ f.phase \in {"holding", "mergeHeld"} => f.waiting \subseteq DOMAIN pictures.watch
    /\ pictures.watch # Nothing => coordinator.state = "flying"
    /\ \A i \in DOMAIN engine.owed : engine.owed[i].after \in 1..HandedOver
    /\ quiets \subseteq 1..coordinator.generation
    /\ reactor.written \in [Window -> Place] /\ reactor.goal \in [Window -> Place]

(* Once no flight is on and no write waits for the screen, every window is *)
(* where the reactor last sent it: what a merge, a held pass, a flight     *)
(* given up or one with nothing to draw wrote adds up, whatever the        *)
(* renderer was late with.                                                 *)
LayoutReached ==
    coordinator.state # "flying" /\ (\A i \in DOMAIN engine.owed : engine.owed[i].owed.what # "write")
        => reactor.written = reactor.goal

(* The pictures service is held for a transition while one flies and let   *)
(* go at rest, and the reactor believes a flight is on until then: a quiet *)
(* that runs out after the next press changes neither.                     *)
HoldFollows ==
    /\ coordinator.state = "flying" => pictures.hold = "transition"
    /\ coordinator.state = "idle" <=> pictures.hold = "released"
    /\ coordinator.state = "idle" <=> ~reactor.reported

(* The coordinator's count of the passes held and the engine's list of     *)
(* them agree: no pass is merged twice, and none is left behind.           *)
HeldTogether ==
    coordinator.state = "flying" =>
        LET f == coordinator.flight IN
        /\ f.phase = "mergeHeld" <=> engine.passes # <<>>
        /\ f.merge.passes = Len(engine.passes)

(* A repaint delivered while a merge is held stays with the engine until   *)
(* the merge draws it (FlightEngine::keep_held), unless a picture of the   *)
(* window at an older end came after it: then another is on its way.       *)
HeldPicturesKept ==
    coordinator.state = "flying" /\ coordinator.flight.merge # NoMerge =>
        \A w \in DOMAIN coordinator.flight.merge.repainted :
            \/ w \in DOMAIN engine.delivered \/ Watched(w)
            \/ \E i \in DOMAIN landed : landed[i].kind # "frameZero" /\ landed[i].window = w

(* What is held for a merge is neither lost nor made twice: the passes,    *)
(* and the pictures that came for them.                                    *)
HeldKept == HeldTogether /\ HeldPicturesKept

(* A picture drawn on a tile was taken no earlier than the request that    *)
(* sent it to the end it flies to (for a repaint watched under a held      *)
(* merge, than the request whose generation watched it): one asked for     *)
(* under an older end is never shown at the new one.                       *)
DrawnForItsEnd ==
    [][\A w \in Window : engine'.worn[w] \notin {0, engine.worn[w]} =>
           engine'.worn[w] >= coordinator'.flight.sentBy[w]]_vars

(* A flight's windows are written only behind the overlay covering them    *)
(* (Owed::Write), but for what an earlier flight, overdue, still owes.     *)
WrittenBehind ==
    [][coordinator'.state = "flying" /\ reactor'.written # reactor.written =>
         renderer.up \/ \E i \in DOMAIN engine.owed : ~engine.owed[i].own]_vars

(* To the pictures service and the reactor the engine is FlightContract.   *)
Contract == INSTANCE FlightContract WITH
    hold <- pictures.hold, reported <- reactor.reported, up <- renderer.up

ImplementsContract == Contract!Spec

(* Once the reactor asks no more, the flight ends, whether or not a single *)
(* picture comes: the overlay is down, the service let go, the reactor     *)
(* told, and every window where it was last sent.                          *)
AtRest ==
    /\ coordinator.state = "idle" /\ pictures.hold = "released" /\ ~reactor.reported
    /\ ~renderer.up /\ reactor.written = reactor.goal

Lands == <>[]AtRest
=============================================================================
