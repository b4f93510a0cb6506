------------------------ MODULE MCTelemetryDelivery ------------------------
(***************************************************************************)
(* Instance of TelemetryDelivery for TLC: see delivery.cfg.                 *)
(***************************************************************************)
EXTENDS TelemetryDelivery

CONSTANTS udp, heartbeat, tablet, phone
=============================================================================
