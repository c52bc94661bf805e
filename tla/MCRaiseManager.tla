--------------------------- MODULE MCRaiseManager ---------------------------
(* Two applications, one with two windows, and the kinds of request the    *)
(* reactor sends: a press, a strip lifted with its focus, a restack, and a *)
(* press for an application whose thread has gone.                         *)
EXTENDS RaiseManager, TLC

CONSTANTS a1, a2, b1, A, B

MCWindow == {a1, a2, b1}
MCApp    == {A, B}
MCAppOf  == (a1 :> A) @@ (a2 :> A) @@ (b1 :> B)

Press(w)  == [batches |-> <<>>, focus |-> w, handles |-> MCApp]
Lift      == [batches |-> << <<b1>>, <<a1>> >>, focus |-> a1, handles |-> MCApp]
Restack   == [batches |-> << <<a1, a2>>, <<b1>> >>, focus |-> NoWindow, handles |-> {A}]
AppGone   == [batches |-> << <<b1>> >>, focus |-> b1, handles |-> {A}]

MCRequests == {Press(a2), Lift, Restack, AppGone}
=============================================================================
