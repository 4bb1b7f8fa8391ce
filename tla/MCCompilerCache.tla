-------------------------- MODULE MCCompilerCache --------------------------
(* Two processes that build for one device, or one that builds for two. *)
EXTENDS CompilerCache

CONSTANTS p1, p2, h1, h2

TwoProcs == {p1, p2}
OneProc == {p1}
TwoContents == {h1, h2}
=============================================================================
