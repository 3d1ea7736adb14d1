--------------------------- MODULE MC_BridgeStore ---------------------------
EXTENDS BridgeStore, TLC

CONSTANTS live, envA, envB

Make(op, env) == [op |-> op, env |-> env]

\* Reads and writes, alone, or with a load or a revert.  The name live stands for
\* whatever environment there is, so a child never refuses these.
ReadsAndWrites  == {Make("query", live), Make("command", live)}
WithTransitions == ReadsAndWrites \cup {Make("load-image", NoEnv), Make("revert-image", NoEnv)}

\* Images are loaded; forms are evaluated and a window rebinds the adapter; or saves
\* fail and the environment is reverted to its image.
Either  == {{"load-image", "direct"}, {"direct", "rebind"}, {"saves", "revert-image"}}
Neither == {{}}

Symmetric == Permutations(ReadChild) \cup Permutations(WriteChild) \cup Permutations(Call)
               \cup Permutations(Env \ {DefaultEnv})
=============================================================================
