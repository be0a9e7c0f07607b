------------------------------ MODULE MCFlash ------------------------------
(* Two parts, and files that are empty, that end in the middle of a part or   *)
(* that fill it.                                                              *)
EXTENDS Flash

MCParts == <<4, 6>>
MCFiles == {<<>>, <<0>>, <<1, 0, 1, 1>>}
MCCommands == FlashCMD
=============================================================================
