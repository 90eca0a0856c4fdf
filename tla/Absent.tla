------------------------------- MODULE Absent -------------------------------
(* Python's None, the same for all that is composed in one process.        *)
CONSTANT None
=============================================================================
