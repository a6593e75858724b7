---------------------------- MODULE MCPipelineChain ----------------------------
(***************************************************************************)
(* An instance of PipelineChain for model checking.  Signals that arrive   *)
(* in any order need only two stages; a stall that spreads backwards needs *)
(* three, a queue that fills between them, and time.                       *)
(***************************************************************************)
EXTENDS PipelineChain

ByDriver(any_order, in_step) == [sync \in BOOLEAN |-> IF sync THEN in_step ELSE any_order]

Lengths == ByDriver(2, 3)
ItemBounds == ByDriver(3, 4)
CycleBounds == ByDriver(6, 12)
===============================================================================
