-------------------------- MODULE MCFocusReports --------------------------
(* An application with a window on each of two workspaces and a panel, and *)
(* another with one window.                                                *)
EXTENDS FocusReports, TLC

CONSTANTS a1, a2, ap, b1, A, B

MCApp       == {A, B}
MCWindow    == {a1, a2, ap, b1}
MCAppOf     == (a1 :> A) @@ (a2 :> A) @@ (ap :> A) @@ (b1 :> B)
MCHome      == (a1 :> 1) @@ (a2 :> 2) @@ (b1 :> 1)
MCFirstMain == (A :> a1) @@ (B :> b1)

(* Four acts, each followed to its end.                                    *)
Calm ==
    [late |-> {}, lateAnswers |-> BOOLEAN, acts |-> 4, lag |-> 2, prompt |-> FALSE, hurried |-> FALSE,
     focus |-> {a1, a2, b1, ap}, command |-> {a1, a2, b1}, close |-> {a2, ap}, quit |-> {A, B}]

(* Two acts, the second at any moment of the first's, with an application  *)
(* whose thread is still starting; and one of them that it quits.          *)
Hurried ==
    [late |-> {A}, lateAnswers |-> {FALSE}, acts |-> 2, lag |-> 1, prompt |-> TRUE, hurried |-> TRUE,
     focus |-> {a1, a2}, command |-> {a1, a2, b1}, close |-> {ap}, quit |-> {}]
Quitting == [Hurried EXCEPT !.focus = {a2}, !.command = {}, !.close = {}, !.quit = {A}]

MCScenarios == {Calm, Hurried, Quitting}

(* Three changes of the focus by the user.                                 *)
MCFocused == {[Calm EXCEPT !.lateAnswers = {FALSE}, !.acts = 3, !.focus = {a1, a2, b1},
                           !.command = {}, !.close = {}, !.quit = {}]}
=============================================================================
