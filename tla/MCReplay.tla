----------------------------- MODULE MCReplay -----------------------------
EXTENDS Replay
=============================================================================
