-------------------------- MODULE MCEventCallback --------------------------
(* Two calls of set_callback on one event. *)
EXTENDS EventCallback

CONSTANTS c1, c2

TwoCallbacks == {c1, c2}
OneCallback == {c1}
=============================================================================
