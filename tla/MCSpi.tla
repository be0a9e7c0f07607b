-------------------------------- MODULE MCSpi -------------------------------
(* Fifos of two bytes, so that both fill, overrun and turn around. *)
EXTENDS Spi

MCMasks == {{}, {"DRR_NOT_EMPTY", "DRR_FULL"}, {"DRR_OVERRUN"}}
=============================================================================
