--------------------------- MODULE MCTimeManager ---------------------------
(* Small instances of TimeManager for TLC.                                 *)
EXTENDS TimeManager, TLC

CONSTANTS t1, t2, t3

MCTasks == {t1, t2, t3}
MCHandlerless == {t3}

MCXTasks == {t1}
MCFewDelays == {0, 1}

\* t1 and t2 are interchangeable: both have handlers.
MCSymmetry == Permutations({t1, t2})
=============================================================================
