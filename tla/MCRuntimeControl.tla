-------------------------- MODULE MCRuntimeControl --------------------------
\* Small instances of RuntimeControl.
EXTENDS RuntimeControl, TLC

\* The second configuration differs in the rate and the timeout alone; the last
\* one has a UDP host that is no address.
SomeConfigs == {[port |-> 5300, mock |-> FALSE, live |-> 30],
                [port |-> 5300, mock |-> FALSE, live |-> 60],
                [port |-> 5301, mock |-> FALSE, live |-> 60],
                [port |-> NoAddress, mock |-> FALSE, live |-> 60]}

CallerSymmetry == Permutations(Callers)
=============================================================================
