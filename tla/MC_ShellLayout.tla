--------------------------- MODULE MC_ShellLayout ---------------------------
EXTENDS ShellLayout

CONSTANTS nav, util, insp

Left  == <<nav, util>>
Right == <<insp>>

\* Nothing stored yet; and a layout of which a panel floats.
Stored == {ToPreferences(DefaultLayout), ToPreferences(Undock(DefaultLayout, util))}
=============================================================================
