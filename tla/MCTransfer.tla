----------------------------- MODULE MCTransfer -----------------------------
(* Every file of up to MaxSize bytes, whatever its lines; every declared   *)
(* upload size and every quantum a counter of this width can hold.         *)
EXTENDS Transfer

CONSTANT MaxSize

MCFiles == SUBSET (1 .. MaxSize)
MCPutSizes == 0 .. (Wrap - 1)
MCLeftovers == 0 .. 3
MCQuanta == 0 .. (Wrap - 1)
=============================================================================
