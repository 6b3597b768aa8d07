------------------------------- MODULE Absent -------------------------------
(* What an optional field or answer is when there is none of it.             *)
CONSTANT None
=============================================================================
