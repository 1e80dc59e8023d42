---------------------------- MODULE MCRunControl ----------------------------
(* An instance of RunControl for TLC. *)
EXTENDS RunControl

CONSTANT
  Later   (* a process that does not open the store first *)

\* Until a process has opened the store, the processes differ in their names only, under
\* the fairness as well: whichever is first may be called the other one.
OtherFirst == owner = Nobody => owner' # Later
=============================================================================
