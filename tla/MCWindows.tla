------------------------------ MODULE MCWindows ------------------------------
(***************************************************************************)
(* Windows with two windows of one application, each with the id it gets   *)
(* from its window-server window and one it may be given before.           *)
(***************************************************************************)
EXTENDS Windows, TLC

CONSTANTS s1, s2, c1, c2, f1, f2

MCCanonical == s1 :> c1 @@ s2 :> c2
MCFallback == s1 :> f1 @@ s2 :> f2
(* A window written to 2 may be refused and stay at, or end at, 1.         *)
MCLanding == 1 :> {1} @@ 2 :> {1, 2}

Nothing ==
    [first |-> Server, opens |-> {}, unnamed |-> {}, closes |-> 0, renews |-> 0, moves |-> 0,
     clicks |-> 0, fullscreens |-> 0, busy |-> 0, quits |-> 0, commits |-> 0, batches |-> 0,
     assigns |-> 0, releases |-> 0, rules |-> 0, remaps |-> 0, deafs |-> 0]

(* One window and then both, written to twice while the user moves one and *)
(* the application may be too busy to answer; the same with the button     *)
(* going down; both at once.                                               *)
Written == [Nothing EXCEPT !.first = {s1}, !.opens = {s2}, !.commits = 2, !.moves = 1, !.busy = 1]
Pressing == [Nothing EXCEPT !.first = {s1}, !.commits = 2, !.moves = 1, !.busy = 1, !.clicks = 2]
Batched == [Nothing EXCEPT !.batches = 1, !.commits = 1, !.clicks = 1, !.busy = 1]
(* Deaf to the windows while they close, or are given other handles, or    *)
(* with those the ids they have once their server id is readable.          *)
Closed == [Nothing EXCEPT !.closes = 2, !.deafs = 1, !.clicks = 1]
Renewed == [Nothing EXCEPT !.first = {s1}, !.renews = 1, !.deafs = 1, !.moves = 1,
                           !.commits = 1, !.closes = 1]
Renamed == [Nothing EXCEPT !.unnamed = {s2}, !.renews = 1, !.deafs = 1, !.assigns = 1, !.rules = 1]
Belated == [Nothing EXCEPT !.first = {}, !.opens = {s2}, !.unnamed = {s2}, !.renews = 1, !.deafs = 1,
                           !.assigns = 1]
(* In and out of native fullscreen: of a window with another id by then,   *)
(* of one that opens there as its application quits, with the space it     *)
(* came from given another id.                                             *)
Fullscreen == [Nothing EXCEPT !.first = {s2}, !.unnamed = {s2}, !.renews = 1, !.deafs = 1,
                              !.fullscreens = 1, !.assigns = 1]
Quitting == [Nothing EXCEPT !.first = {s2}, !.opens = {s1}, !.quits = 1, !.fullscreens = 1, !.assigns = 1]
Remapped == [Nothing EXCEPT !.fullscreens = 1, !.assigns = 1, !.remaps = 1]
(* Workspaces given, taken back and moved.                                 *)
Released == [Nothing EXCEPT !.assigns = 2, !.releases = 1, !.rules = 1, !.remaps = 1]

MCScenarios ==
    {Written, Pressing, Batched, Closed, Renewed, Renamed, Belated, Fullscreen, Quitting, Remapped, Released}

(* A window is written to on its own, then with another.                   *)
MCBatch == {Batched}
=============================================================================
