------------------------------ MODULE MCExitLoop ------------------------------
(* ExitLoop with a restart window of two ticks. *)
EXTENDS ExitLoop

MCRestartTicks == 2
=============================================================================
