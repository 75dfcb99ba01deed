----------------------------- MODULE MCMaxCpuIsa -----------------------------
(* MaxCpuIsa with two threads. *)
EXTENDS MaxCpuIsa

CONSTANTS t1, t2

MCCallers == {t1, t2}
=============================================================================
