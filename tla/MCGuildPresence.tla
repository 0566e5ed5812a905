-------------------------- MODULE MCGuildPresence --------------------------
EXTENDS GuildPresence, TLC

MCSymmetry == Permutations(Channels) \cup Permutations(Handlers)
=============================================================================
