----------------------------- MODULE MCChannel -----------------------------
(***************************************************************************)
(* Small instances of the channel for TLC.  The filter accepts x and y   *)
(* and refuses f; projecting y fails.                                      *)
(***************************************************************************)
EXTENDS ChannelRefinement

CONSTANTS x, y, f

MCFilter == [e \in Events |-> IF e = f THEN "false" ELSE "true"]

MCSelect == [e \in Events |-> IF e = y THEN "error" ELSE "ok"]
=============================================================================
