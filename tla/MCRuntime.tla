----------------------------- MODULE MCRuntime ------------------------------
(***************************************************************************)
(* Instance of Process, and so of Runtime and Installer, for TLC.          *)
(***************************************************************************)
EXTENDS Process

CONSTANTS c1, c2, h1, i1, i2, schedule, outbox, other
=============================================================================
