----------------------------- MODULE MCPipeline -----------------------------
(***************************************************************************)
(* Events for TLC that both filters accept and both projections turn into  *)
(* something: what is refused on the way is in MCChannel.                  *)
(***************************************************************************)
EXTENDS Pipeline

MCFilter == [e \in Events |-> "true"]

MCSelect == [e \in Events |-> "ok"]
=============================================================================
