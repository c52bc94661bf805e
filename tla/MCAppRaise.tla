----------------------------- MODULE MCAppRaise -----------------------------
(* Two applications and the requests that make their threads meet: presses *)
(* for a window of either, a strip lifted over both with its focus, and a  *)
(* restack of an application's windows.                                    *)
EXTENDS AppRaise, TLC

CONSTANTS a1, a2, b1, A, B

MCWindow == {a1, a2, b1}
MCApp    == {A, B}
MCAppOf  == (a1 :> A) @@ (a2 :> A) @@ (b1 :> B)

Press(w)   == [batches |-> <<>>, focus |-> w, handles |-> MCApp]
Lift       == [batches |-> << <<b1>>, <<a1, a2>> >>, focus |-> a1, handles |-> MCApp]
RestackOne == [batches |-> << <<a1, a2>> >>, focus |-> NoWindow, handles |-> MCApp]

MCRequests == {Press(a1), Press(b1), Lift, RestackOne}

Plain(first, second) ==
    [requests |-> <<first, second>>, dialogs |-> {}, keyless |-> {}, mayClose |-> {}, mayQuit |-> {}]

(* All is well; and with a dialog, a window that closes and an application *)
(* that quits in the middle of a raise.                                    *)
Lifted  == Plain({Lift}, {Press(b1)})
Pressed == Plain({Press(b1)}, {Press(b1), Lift})
Failing == [Plain({Press(b1), RestackOne}, {Press(b1), RestackOne}) EXCEPT
              !.dialogs = {a2}, !.mayClose = {b1}, !.mayQuit = {B}]

MCScenarios == {Lifted, Pressed, Failing}

(* Presses back and forth between two applications.                        *)
MCPresses == {Plain({Press(a1), Press(b1)}, {Press(a1), Press(b1)})}
=============================================================================
