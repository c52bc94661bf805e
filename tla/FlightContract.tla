--------------------------- MODULE FlightContract ---------------------------
(***************************************************************************)
(* What the transition engine promises whoever it shares the screen with:  *)
(* the pictures service, whose hold it keeps (Hold in                      *)
(* pictures/domain/schedule.rs), and the reactor, told by ReportUp and     *)
(* ReportSettled whether a flight is on.  Captures of the screen are made  *)
(* under the settling hold, which no overlay may be over.                  *)
(***************************************************************************)
EXTENDS TLAPS

VARIABLES
    hold,      \* the pictures service's hold
    reported,  \* the reactor was told of a flight, and of no end to it
    up         \* the overlay covers the windows

vars == <<hold, reported, up>>

Hold == {"released", "transition", "settling"}

Init == hold = "released" /\ reported = FALSE /\ up = FALSE

(* A flight begins, inside the quiet of the last one too.                  *)
Begins == hold' = "transition" /\ reported' = TRUE /\ UNCHANGED up

(* The overlay covers the windows only while the transition holds.         *)
Shows == up = FALSE /\ up' = TRUE /\ hold = "transition" /\ UNCHANGED <<hold, reported>>

Hides == up = TRUE /\ up' = FALSE /\ UNCHANGED <<hold, reported>>

(* The quiet begins once the overlay is down.                              *)
Settles ==
    /\ hold = "transition" /\ ~up
    /\ hold' = "settling" /\ UNCHANGED <<reported, up>>

(* Quiet, or a flight given up.                                            *)
Releases == hold' = "released" /\ reported' = FALSE /\ UNCHANGED up

Next == Begins \/ Shows \/ Hides \/ Settles \/ Releases

Spec == Init /\ [][Next]_vars

-----------------------------------------------------------------------------
(* The bar is pictured with no overlay over it, and the reactor believes a *)
(* flight is on exactly while the service is held.                         *)
Clear ==
    /\ hold \in Hold /\ reported \in BOOLEAN /\ up \in BOOLEAN
    /\ hold = "settling" => ~up
    /\ reported <=> hold # "released"
=============================================================================
