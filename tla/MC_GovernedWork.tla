-------------------------- MODULE MC_GovernedWork ---------------------------
EXTENDS GovernedWork

CONSTANTS draft, review, placeholder, steer, resume
=============================================================================
