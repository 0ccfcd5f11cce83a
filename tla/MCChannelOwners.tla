--------------------------- MODULE MCChannelOwners ---------------------------
(* Two sockets and a queue, on fewer descriptors than they would like.     *)
EXTENDS ChannelOwners
=============================================================================
