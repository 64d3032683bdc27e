----------------------------- MODULE MCFileLock -----------------------------
(* Instances of FileLock for TLC.                                          *)
EXTENDS FileLock

CONSTANTS p1, p2, p3

ThreeProcs == {p1, p2, p3}
TwoProcs == {p1, p2}
=============================================================================
