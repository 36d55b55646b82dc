---------------------------- MODULE MCPromptQueue ----------------------------
\* PromptQueue for TLC.
EXTENDS PromptQueue, TLC

MessageSymmetry == Permutations(Messages)
=============================================================================
