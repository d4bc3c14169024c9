------------------------------- MODULE MCKernel -------------------------------
(***************************************************************************)
(* Kernel with a key that repeats and ON/OFF, in two rows.                 *)
(***************************************************************************)
EXTENDS Kernel

MCRows == <<<<"left">>, <<"onoff">>>>
=============================================================================
