----------------------------- MODULE MCScreens -----------------------------
(***************************************************************************)
(* A small instance: windows of three characters in texts of up to eight.  *)
(* A text may be empty, shorter than the window, as long, longer by one,   *)
(* or as long as its buffer takes.                                         *)
(***************************************************************************)
EXTENDS Screens

Text(n) == [k \in 1 .. n |-> k]
Texts(n) == Question("text", Text(n))
Prompt == Question("prompt", <<0>>)

MCScripts ==
  {<<>>, <<Texts(0)>>, <<Texts(2), Texts(3)>>, <<Texts(4), Prompt>>,
   <<Prompt, Texts(8), Texts(5)>>}
=============================================================================
