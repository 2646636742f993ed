---------------------------- MODULE MCBookRegistry ----------------------------
(* Model-checking instance of BookRegistry: the pair loaded at startup and *)
(* one pair no book exists for yet.                                       *)
EXTENDS BookRegistry, TLC

MCPairs == {"TKA-TKB", "TKC-TKD"}

=============================================================================
