-------------------------- MODULE MCChannelServing --------------------------
(* Instances of ChannelServing for TLC.  Channels and handlers are          *)
(* interchangeable: no constant or definition orders them.                  *)
EXTENDS ChannelServing, TLC

Interchangeable == Permutations(Channels) \cup Permutations(Handlers)
=============================================================================
