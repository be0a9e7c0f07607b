------------------------------ MODULE MCUlite ------------------------------
(* A fifo of two characters and three arrivals, one of them possibly preset. *)
EXTENDS Ulite
=============================================================================
