--------------------------- MODULE MCApprovalFlow ---------------------------
(* ApprovalFlow for TLC.                                                   *)
EXTENDS ApprovalFlow, TLC

Symmetry == Permutations(Chats) \cup Permutations(Actions)
=============================================================================
