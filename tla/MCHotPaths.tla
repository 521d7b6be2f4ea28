----------------------------- MODULE MCHotPaths -----------------------------
\* Two annual jobs of different sources.
EXTENDS HotPaths, TLC
=============================================================================
