------------------------------- MODULE MCAdmin -------------------------------
EXTENDS BroadcasterAdmin, TLC

\* Rows and requests differ by name only.
AdminSymmetry == Permutations(Ids) \cup Permutations(Requests)
=============================================================================
