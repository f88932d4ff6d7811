------------------------- MODULE MCServiceLifecycle -------------------------
(* Small instances of ServiceLifecycle for TLC.                            *)
EXTENDS ServiceLifecycle, TLC

CONSTANTS fd1, fd2, fd3
=============================================================================
