---------------------------- MODULE MCWorkspaces ----------------------------
(* A small instance of Workspaces. *)
EXTENDS Workspaces

CONSTANTS wa, wb, wc, wd, one, two

PresetWidths == <<4, 6, 12>>

Focus(steps) == {<<"focus", step>> : step \in steps}
Move(steps)  == {<<"move", step>> : step \in steps}
Cycle(ways)  == {<<"cycleFocus", way>> : way \in ways}
Click(ws)    == {<<"click", w>> : w \in ws}
Folds  == {<<"fold", "left">>, <<"fold", "right">>}
Widths == {<<"full">>, <<"cycle">>, <<"grow", 3>>, <<"shrink", 3>>}

Case(nv, columns, n, acts) == [never |-> nv, columns |-> columns, budget |-> n, acts |-> acts]

(* Widths, folds and focus along a strip longer than the screen; the sight *)
(* kept through clicks, switches and zooms; a strip that centres; every    *)
(* move; the floating layer and the other workspace; windows that come and *)
(* go; the mouse and the windows' own resizes; a window held while keys    *)
(* are pressed and workspaces switched.                                    *)
Taken == {
    Case(TRUE, <<<<wa>>, <<wb, wc>>, <<wd>>>>, 5, Folds \cup Widths \cup Focus({"left", "right", "up"})),
    Case(TRUE, <<<<wa, wb>>, <<wc>>>>, 6, Folds \cup {<<"full">>, <<"switch">>, <<"zoom", wb>>} \cup Click({wa, wb, wc})),
    Case(FALSE, <<<<wa, wb>>, <<wc>>>>, 5,
         Folds \cup Widths \cup Focus({"last"}) \cup Move({"right", "first"}) \cup {<<"explode">>, <<"center">>}),
    Case(TRUE, <<<<wa, wb, wc>>, <<wd>>>>, 5,
         Folds \cup Move({"left", "right", "first", "last", "up", "down"})
         \cup {<<"explode">>, <<"center">>, <<"snap">>, <<"full">>} \cup Focus({"right", "first", "down"})),
    Case(TRUE, <<<<wa, wb>>>>, 7,
         {<<"float">>, <<"toggleFocusFloating">>, <<"switch">>, <<"take">>, <<"send">>, <<"full">>, <<"fold", "left">>}
         \cup Cycle({"forward"})),
    Case(TRUE, <<<<wa, wb>>>>, 5,
         {<<"take">>, <<"open">>, <<"discover">>, <<"close">>, <<"identity">>, <<"full">>, <<"cycle">>, <<"fold", "left">>}),
    Case(TRUE, <<<<wa>>, <<wb, wc>>>>, 4,
         {<<"appResize", 5>>, <<"drag", "left">>, <<"drag", "right">>, <<"drag", "still">>, <<"dragTo", 3>>, <<"dragTo", 8>>,
          <<"dragTo", 12>>, <<"full">>, <<"cycle">>, <<"fold", "right">>} \cup Click({wa, wb})),
    Case(TRUE, <<<<wa, wb>>, <<wc>>>>, 5,
         Folds \cup Cycle({"backward"})
         \cup {<<"drag", "still">>, <<"full">>, <<"cycle">>, <<"switch">>, <<"take">>, <<"discover">>, <<"close">>})
}
=============================================================================
