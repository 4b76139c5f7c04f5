------------------------------- MODULE MC_Cc0 -------------------------------
(***************************************************************************)
(* Cc0 on the pool of programs, with words of two bytes, two choices of    *)
(* arguments, and stacks that hold garbage: zeros would hide a read that   *)
(* is too wide.                                                            *)
(***************************************************************************)
EXTENDS Cc0, Pool

MCInputs == {<<0, 1>>, <<3, -2>>}
MCFills == {90}
=============================================================================
