--------------------------- MODULE MC_LiveBridge ---------------------------
EXTENDS LiveBridge, TLC

CONSTANTS live, envA

Ask(op, env) == [op |-> op, env |-> env]

\* Both routes, with responses that invalidate the read child and ones that do not.
BothRoutes == {Ask("query", live), Ask("command", live), Ask("preferences-set", NoEnv)}

\* One request of each kind, some of them naming the environment that is not bound at first.
AllKinds == {Ask("query", envA), Ask("command", NoEnv), Ask("preferences-set", envA),
             Ask("load-image", NoEnv), Ask("revert-image", NoEnv)}

Symmetric == Permutations(ReadChild) \cup Permutations(WriteChild) \cup Permutations(Call)
=============================================================================
