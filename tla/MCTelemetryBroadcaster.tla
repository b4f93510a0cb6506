----------------------- MODULE MCTelemetryBroadcaster -----------------------
\* Small instances of TelemetryBroadcaster: callers are interchangeable.
EXTENDS TelemetryBroadcaster, TLC

CallerSymmetry == Permutations(Callers)
=============================================================================
