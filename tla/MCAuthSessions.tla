--------------------------- MODULE MCAuthSessions ---------------------------
(* Instances of AuthSessions for TLC.                                      *)
EXTENDS AuthSessions, TLC

(* Concurrent calls are interchangeable (safety runs only).                *)
CallSymmetry == Permutations(Calls)
=============================================================================
