----------------------- MODULE MC_EventSubscriptions ------------------------
EXTENDS EventSubscriptions

CONSTANTS conversation, transcript,   \* the effects
          turn, chunk                 \* a turn's end, and a piece of a provider's answer

Asked == [e \in Effect |-> IF e = conversation THEN {{turn}} ELSE {{turn, chunk}}]
=============================================================================
