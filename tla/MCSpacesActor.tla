---------------------------- MODULE MCSpacesActor ----------------------------
(* Two displays, one of them attached and detached, with a space each, a   *)
(* fullscreen space and the login window's.                                *)
EXTENDS SpacesActor

CONSTANTS d1, d2, s1, s2, f, login

Screen(d, s) == [display |-> d, space |-> s]

MCSpace == {s1, s2, f, login}
MCOne   == <<Screen(d1, s1)>>
MCTwo   == <<Screen(d1, s1), Screen(d2, s2)>>

(* No display, one, two, a space on two displays, a display with its space *)
(* still to come, a fullscreen space, and the login window.                *)
MCPictures ==
    { <<>>, MCOne, MCTwo, <<Screen(d1, s1), Screen(d2, s1)>>, <<Screen(d1, s1), Screen(d2, NoSpace)>>,
      <<Screen(d1, f), Screen(d2, s1)>>, <<Screen(d1, login)>> }
=============================================================================
