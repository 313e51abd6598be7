----------------------------- MODULE MCM2nRuntime -----------------------------
(* Two threads make at most three calls each; two explicit handles are created. *)
EXTENDS M2nRuntime

CONSTANTS t1, t2, c1, c2
MCThreads == {t1, t2}
MCConfigs == {c1, c2}
=============================================================================
