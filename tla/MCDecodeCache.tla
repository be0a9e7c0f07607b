--------------------------- MODULE MCDecodeCache ---------------------------
(* Programs of a few words that rewrite themselves. *)
EXTENDS DecodeCache

CONSTANT MaxChain  \* a ds that has strayed makes its chain longer for ever

ChainBound == Len(Chain(dc)) <= MaxChain
=============================================================================
