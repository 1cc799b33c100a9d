---------------------------- MODULE MCLogPipeline ----------------------------
\* Small instances of LogPipeline for TLC.
EXTENDS LogPipeline

CONSTANT orders

OneName == {orders}
TwoIds == 1 .. 2
=============================================================================
