----------------------- MODULE MC_DesktopPreferences -----------------------
EXTENDS DesktopPreferences, TLC

Symmetric == Permutations(Caller)
=============================================================================
