----------------------------- MODULE MCDialogue -----------------------------
(* The instances of Dialogue are given by numbers alone.                   *)
EXTENDS Dialogue, TLC
=============================================================================
