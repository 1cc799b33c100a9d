----------------------------- MODULE MCBatchJob -----------------------------
\* Small instances of BatchJob for TLC.
EXTENDS BatchJob, TLC

CONSTANTS e1, e2, e3, t1, t2, s1, s2, load

ThreeExecutions == {e1, e2, e3}
TwoSteps == {s1, s2}
TwoThreads == {t1, t2}
TwoOfOne == (t1 :> e1) @@ (t2 :> e1)
OneJob == [e \in {e1, e2, e3} |-> load]
One == {1}
=============================================================================
