-------------------------- MODULE MC_ShellSession --------------------------
EXTENDS ShellSession, TLC

=============================================================================
