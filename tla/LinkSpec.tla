------------------------------- MODULE LinkSpec -------------------------------
(***************************************************************************)
(* What ld0 promises: in one step, either the program is rejected, exactly *)
(* when it is not Linkable, or the image holds the names reachable from    *)
(* main, no more and no less.                                              *)
(***************************************************************************)
EXTENDS LinkInput

VARIABLES
  in,       \* the object files
  status,   \* "linking", "linked" or "rejected"
  image     \* the names in the symbol table handed to the code generator

svars == <<in, status, image>>

SInit ==
  /\ in \in Inputs
  /\ status = "linking"
  /\ image = {}

Accept ==
  /\ status = "linking"
  /\ Linkable(in)
  /\ status' = "linked"
  /\ image' = Reachable(in)
  /\ UNCHANGED in

Reject ==
  /\ status = "linking"
  /\ ~ Linkable(in)
  /\ status' = "rejected"
  /\ UNCHANGED <<in, image>>

SNext == Accept \/ Reject

SSafety == SInit /\ [][SNext]_svars

SSpec == SSafety /\ WF_svars(SNext)
=============================================================================
