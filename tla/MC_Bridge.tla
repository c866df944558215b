----------------------------- MODULE MC_Bridge -----------------------------
(* Model-checking instances of Bridge.                                    *)
EXTENDS Bridge

CONSTANTS b1, b2, s1, s2, s3, w1, w2

MCBackends == {b1, b2}
MCSlots == {s1, s2, s3}
MCWorkers == {w1, w2}
\* One backend and one worker thread: no two requests ever race.
MCOneBackend == {b1}
MCOneWorker == {w1}
=============================================================================
