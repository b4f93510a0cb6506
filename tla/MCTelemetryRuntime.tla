------------------------- MODULE MCTelemetryRuntime -------------------------
\* Small instances of TelemetryRuntime.
EXTENDS TelemetryRuntime, TLC

\* One configuration with every task, and one that only an environment gives.
OneSavedConfig == {[port |-> 5300, mock |-> TRUE, live |-> 30],
              [port |-> NoAddress, mock |-> TRUE, live |-> 30]}

CallerSymmetry == Permutations(Callers)
=============================================================================
