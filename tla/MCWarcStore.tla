---------------------------- MODULE MCWarcStore ----------------------------
EXTENDS WarcStore
=============================================================================
