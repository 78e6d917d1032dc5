---------------------------- MODULE MCFileStorage ----------------------------
(* Instances of FileStorage for TLC: uploads are interchangeable.          *)
EXTENDS FileStorage, TLC

CONSTANTS u1, u2, u3, k1, k2

TheUploads == {u1, u2, u3}
TheKeys == {k1, k2}
Interchangeable == Permutations(TheUploads)
=============================================================================
