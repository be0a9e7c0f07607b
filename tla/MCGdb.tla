-------------------------------- MODULE MCGdb --------------------------------
(* Two words of program and one address without a device. *)
EXTENDS Gdb, TLC

MCProgram == 0 :> "op" @@ 1 :> "eret" @@ 2 :> "trap"
==============================================================================
