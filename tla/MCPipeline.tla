------------------------------ MODULE MCPipeline ------------------------------
(***************************************************************************)
(* Small instances of the pipeline: few requests of each kind, in the      *)
(* combinations that compete for something.                                *)
(***************************************************************************)
EXTENDS Pipeline

Nothing == [r \in Requests |-> 0]

MCWorkloads == {
  [Nothing EXCEPT !["capture"] = 1, !["copy"] = 1, !["upload"] = 1],
  [Nothing EXCEPT !["scroll"] = 1, !["capture"] = 1, !["copy"] = 1],
  [Nothing EXCEPT !["upload"] = 2],
  [Nothing EXCEPT !["accept"] = 2, !["capture"] = 1],
  [Nothing EXCEPT !["pin"] = 2, !["refusal"] = 2],
  [Nothing EXCEPT !["pin"] = 3]}
=============================================================================
