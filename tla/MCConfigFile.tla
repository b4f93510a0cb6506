---------------------------- MODULE MCConfigFile ----------------------------
\* Instances of ConfigFile: see config.cfg and config_two_pages.cfg.
EXTENDS ConfigFile, FiniteSets, TLC

CONSTANTS exe, home, page, tablet, lan, nonsense

TheTexts == {AnyAddress, ForzaHorizon6, lan, nonsense, Blank, Yes}

With(changes) == changes @@ DefaultPublicConfig

\* What pages ask for; the last one is refused.
SomeRequests ==
    {With([udp_port |-> 5401, mock_telemetry |-> TRUE]),
     With([udp_port |-> 80, http_host |-> lan]),
     With([http_port |-> 5400])}

Digits(n) == Cardinality({k \in 0 .. 9 : n >= 10 ^ k})

\* The text of a request but for what all of them have in common.
Lengths ==
    [c \in SomeRequests |-> Digits(c.http_port) + Digits(c.udp_port)
                              + (IF c.mock_telemetry THEN 4 ELSE 5)
                              + (IF c.http_host = lan THEN 12 ELSE 7)]

\* The first is valid beside the default UDP port only, the second beside no
\* other settings, the third beside all.
SomeEdits ==
    {[http_port |-> 5401], [connection_timeout_ms |-> 100, broadcast_hz |-> 30],
     [broadcast_hz |-> 30]}

Launch(variables, files) == [process |-> variables, files |-> files]

OutOfRange == [TELEMETRY_BROADCAST_HZ |-> 500, UDP_PORT |-> 5402]
NoFiles == [here |-> <<>>, above |-> <<>>, exe |-> <<>>, built |-> <<>>]

\* Nothing set; the first edit's port, which overrules a file's, a port and a rate
\* out of range, the rate in front of a good one; a port that clashes with the
\* default one, and another config.json; a host that is no address, and a flag
\* that is not understood.  (The files `here` and `exe` are one when the program is
\* started in its own directory, and so are the same.)
SomeEnvironments ==
    {Launch(<<>>, NoFiles),
     Launch([UDP_PORT |-> 5401, HTTP_PORT |-> 70000],
            [here |-> OutOfRange, above |-> [TELEMETRY_BROADCAST_HZ |-> 30],
             exe |-> OutOfRange, built |-> <<>>]),
     Launch([HTTP_PORT |-> 5400, HOST |-> lan],
            [NoFiles EXCEPT !.above = [SIM_TELEMETRY_CONFIG |-> home],
                            !.built = [SIM_TELEMETRY_CONFIG |-> exe]]),
     Launch([HTTP_HOST |-> nonsense, MOCK_TELEMETRY |-> nonsense], NoFiles)}

PageSymmetry == Permutations(Browsers)

\* Pages that save at any time, but for overlapping writes of the file.
SpecWritesAlone == Init /\ [][Next /\ WritesAlone']_vars
=============================================================================
