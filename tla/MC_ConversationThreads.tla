---------------------- MODULE MC_ConversationThreads ----------------------
EXTENDS ConversationThreads, TLC

Symmetric == Permutations(Thread) \cup Permutations(Send)
=============================================================================
