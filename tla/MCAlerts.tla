------------------------------ MODULE MCAlerts ------------------------------
(* Model-checking instances of Alerts.                                      *)
EXTENDS Alerts, TLC

\* Values at the warning and at the critical threshold; NoData stands for a
\* node that is quiet, below the thresholds or inactive.
MCAqis == {1, 2}

\* Runs and requests are interchangeable.
MCSymmetry == Permutations(Runs) \cup Permutations(Users)
=============================================================================
