------------------------------ MODULE MCXmppBot ------------------------------
\* Small instances of XmppBot for TLC.
EXTENDS XmppBot, TLC

CONSTANTS alarm, report

OneThread == {alarm}
TwoThreads == {alarm, report}

Symmetry == Permutations(TwoThreads)
=============================================================================
