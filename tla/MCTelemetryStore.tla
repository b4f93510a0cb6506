-------------------------- MODULE MCTelemetryStore --------------------------
\* Small instances of TelemetryStore.
EXTENDS TelemetryStore

\* Unknown and reverse, the lowest of those worth keeping.
SomeGears == {-2, -1}
=============================================================================
