------------------------- MODULE MCAsyncFileReader -------------------------
(* AsyncFileReader on small instances. *)
EXTENDS AsyncFileReader

CONSTANTS r1, r2, fd1, fd2

TwoRequests == {r1, r2}
TwoDescriptors == {fd1, fd2}

(* Empty, one chunk or part of it, and either side of two chunks. *)
BoundarySizes == {0, 1, 2, 3, 4, 5}
=============================================================================
