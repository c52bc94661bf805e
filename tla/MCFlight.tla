------------------------------ MODULE MCFlight ------------------------------
EXTENDS Flight, TLC

CONSTANTS a, b, p, q, x

MCWindow == {a, b}
MCPlace  == {p, q, x}
MCHome   == (a :> p) @@ (b :> q)

Req(kind, ends, sort) == [kind |-> kind, ends |-> ends, sort |-> sort, drawn |-> TRUE]

(* Layout passes that grow a, both windows, and a back where it was; a     *)
(* strip movement, a push, and a pass with nothing to draw.                *)
Grow     == Req("pass", (a :> q), (a :> "held"))
GrowBoth == Req("pass", (a :> q) @@ (b :> p), (a :> "held") @@ (b :> "held"))
GrowBack == Req("pass", (a :> p), (a :> "held"))
Strip    == Req("surface", (a :> p) @@ (b :> x), (a :> "lands") @@ (b :> "lands"))
Push     == Req("bounce", (a :> p), (a :> "lands"))
Undrawn  == [Req("pass", (b :> x), (b :> "lands")) EXCEPT !.drawn = FALSE]

(* Three passes, which may each be held behind the one before; and two     *)
(* requests with an overlay that may fail, a lift that may be measured and *)
(* pictures that may never come.                                           *)
MCScenarios ==
    { [asks |-> << {Grow}, {GrowBack}, {GrowBoth} >>, fails |-> {}, measured |-> {FALSE}, lost |-> {}],
      [asks |-> << {Strip, Push, Undrawn}, {Grow, Push} >>,
       fails |-> {"pass", "surface"}, measured |-> {TRUE, FALSE}, lost |-> {a, b}] }
=============================================================================
