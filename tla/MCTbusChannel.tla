----------------------------- MODULE MCTbusChannel -----------------------------
(***************************************************************************)
(* Small rings for TLC.  MCSize and MCPkgLens are such that messages wrap  *)
(* with and without a counterfeit message, dwTail reaches MCSize, and a    *)
(* message is refused before and after dwTail was moved to 0.              *)
(***************************************************************************)
EXTENDS TbusChannel

MCPkgLens == {2, 3}
MCBigLens == {2, 5}
=============================================================================
