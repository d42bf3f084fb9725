----------------------- MODULE MCRetryableTransaction -----------------------
(* An instance of RetryableTransaction for TLC.                            *)
EXTENDS RetryableTransaction

\* pcrd_type is four bits wide, and its reset value is a type like any other.
MCCreditTypes == 0 .. 15
=============================================================================
