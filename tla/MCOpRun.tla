------------------------------ MODULE MCOpRun ------------------------------
(***************************************************************************)
(* Instances of OpRun for TLC, with an int64 of 8 bits.                    *)
(***************************************************************************)
EXTENDS OpRun

\* Absent, short, the largest allowed, longer, and large enough to overflow into
\* a negative, a zero and a positive number of nanoseconds.
SomeRequests == {-1, 0, 1, 5, 20, 35, 64, 70, 127}
=============================================================================
