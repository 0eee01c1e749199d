--------------------------- MODULE MC_FrameCodec ---------------------------
(* Two functions, one whose control stack can be full (max_block 2 with   *)
(* two live blocks) and one with room to spare; three distinct blocks so  *)
(* that order is visible; instruction offsets 0 .. 2.                     *)
EXTENDS FrameCodec

CONSTANTS b1, b2, b3

MCFuncs ==
    {[param |-> 1, local |-> 1, max_stack |-> 2, max_block |-> 2],
     [param |-> 0, local |-> 2, max_stack |-> 1, max_block |-> 3]}
MCBlocks == {b1, b2, b3}

=============================================================================
