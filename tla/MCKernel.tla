------------------------------- MODULE MCKernel -------------------------------
(* The boot thread and the timer on a small clock. *)
EXTENDS Kernel
===============================================================================
