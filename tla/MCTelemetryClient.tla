------------------------- MODULE MCTelemetryClient -------------------------
(***************************************************************************)
(* Instance of TelemetryClient for TLC: see client.cfg.                     *)
(***************************************************************************)
EXTENDS TelemetryClient

CONSTANTS s1, s2, s3
=============================================================================
