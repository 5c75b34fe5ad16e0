---------------------------- MODULE MCMergeCycle ----------------------------
\* MergeCycle with the bounds of MCMergeCycle.cfg.
EXTENDS MergeCycle
=============================================================================
