------------------------- MODULE MCSubscriptionSync -------------------------
EXTENDS SubscriptionSync, TLC

MCHandlerSymmetry == Permutations(Handlers)
MCSymmetry == Permutations(Handlers) \cup Permutations(Subs)
=============================================================================
