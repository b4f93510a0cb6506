----------------------------- MODULE AppConfig -----------------------------
(***************************************************************************)
(* config.rs: how a configuration is put together at the start of a         *)
(* process from the built-in defaults, the environment with its .env files  *)
(* and config.json, and what a valid one is.                                *)
(*                                                                          *)
(* The text of a variable, once trimmed and parsed, is a number, or one of  *)
(* Texts (no host or adapter is named by a number); a field of a file is a  *)
(* value of the field's type, or the file does not parse at all.            *)
(***************************************************************************)
EXTENDS Integers

CONSTANTS
    Texts,       \* texts that are no numbers, the default ones among them
    Addresses,   \* those that parse as an IP address
    Adapters,    \* SUPPORTED_GAME_ADAPTERS
    AnyAddress,  \* "0.0.0.0"
    ForzaHorizon6,
    Blank,       \* the empty text
    Yes,         \* "1", "true", "yes" or "on"
    NoFile,      \* there is no config.json
    Unreadable   \* its text is not the JSON of a PartialConfig

ASSUME TextsAssumption ==
    /\ AnyAddress \in Addresses /\ Addresses \subseteq Texts
    /\ ForzaHorizon6 \in Adapters /\ Adapters \subseteq Texts
    /\ Blank \notin Adapters

U16 == 0 .. 65535
Port == U16 \ {0}
Hz == 1 .. 120
Positive == Nat \ {0}

PublicConfig ==
    [game_adapter : Texts, http_host : Texts, http_port : U16, udp_host : Texts,
     udp_port : U16, udp_receive_buffer_bytes : Nat, broadcast_hz : Nat,
     connection_timeout_ms : Nat, mock_telemetry : BOOLEAN,
     debug_packet : BOOLEAN]

\* validate_public_config
Valid(c) ==
    /\ c.game_adapter \in Adapters
    /\ c.http_port # 0
    /\ c.udp_port # 0
    /\ c.udp_receive_buffer_bytes \in 8 * 1024 .. 64 * 1024 * 1024
    /\ c.http_port # c.udp_port
    /\ c.broadcast_hz \in Hz
    /\ c.connection_timeout_ms >= 500
    /\ c.http_host \in Addresses
    /\ c.udp_host \in Addresses

DefaultPublicConfig ==
    [game_adapter |-> ForzaHorizon6, http_host |-> AnyAddress, http_port |-> 3000,
     udp_host |-> AnyAddress, udp_port |-> 5400,
     udp_receive_buffer_bytes |-> 1048576, broadcast_hz |-> 60,
     connection_timeout_ms |-> 2000, mock_telemetry |-> FALSE,
     debug_packet |-> FALSE]

-----------------------------------------------------------------------------
(***************************************************************************)
(* The environment: a function from the names that are set                  *)
(***************************************************************************)

\* The settings of one .env file, which sets no variable that is set already.  (A
\* file is what its lines set, of two for the same variable the first; a file
\* that is not there, or cannot be read, sets nothing.)
LoadEnvFile(env, file) ==
    [v \in DOMAIN env \cup DOMAIN file |->
        IF v \in DOMAIN env THEN env[v] ELSE file[v]]

\* The four places, in the code's order: .env and ../../.env of the working
\* directory, .env beside the program, and .env where the program was built.
LoadEnvFiles(process, files) ==
    LET here   == LoadEnvFile(process, files.here)
        above  == LoadEnvFile(here, files.above)
        beside == LoadEnvFile(above, files.exe)
    IN  LoadEnvFile(beside, files.built)

\* A variable whose text is not accepted counts as unset.
EnvOr(env, v, accepted, default) ==
    IF v \in DOMAIN env /\ env[v] \in accepted THEN env[v] ELSE default

\* parse_bool: a variable that is set to anything else is false.
EnvFlag(env, v, default) == IF v \in DOMAIN env THEN env[v] = Yes ELSE default

ApplyEnvConfig(env, c) ==
    [game_adapter |-> EnvOr(env, "GAME_ADAPTER", Texts \ {Blank}, c.game_adapter),
     http_host |-> EnvOr(env, "HTTP_HOST", Texts,
                         EnvOr(env, "HOST", Texts, c.http_host)),
     http_port |-> EnvOr(env, "HTTP_PORT", Port, c.http_port),
     udp_host |-> EnvOr(env, "UDP_HOST", Texts,
                        EnvOr(env, "HOST", Texts, c.udp_host)),
     udp_port |-> EnvOr(env, "UDP_PORT", Port, c.udp_port),
     udp_receive_buffer_bytes |->
         EnvOr(env, "UDP_RECEIVE_BUFFER_BYTES", Nat, c.udp_receive_buffer_bytes),
     broadcast_hz |->
         EnvOr(env, "TELEMETRY_BROADCAST_HZ", Hz, c.broadcast_hz),
     connection_timeout_ms |->
         EnvOr(env, "CONNECTION_TIMEOUT_MS", Positive, c.connection_timeout_ms),
     mock_telemetry |-> EnvFlag(env, "MOCK_TELEMETRY", c.mock_telemetry),
     debug_packet |-> EnvFlag(env, "DEBUG_PACKET", c.debug_packet)]

EnvConfig(env) == ApplyEnvConfig(env, DefaultPublicConfig)

-----------------------------------------------------------------------------
(***************************************************************************)
(* The file                                                                 *)
(***************************************************************************)

\* config_file_path: SIM_TELEMETRY_CONFIG, else the working directory's file if
\* there is one, else the one beside the program, whether or not it is there.
ConfigFilePath(env, cwd, exeDir, disk) ==
    IF "SIM_TELEMETRY_CONFIG" \in DOMAIN env THEN env["SIM_TELEMETRY_CONFIG"]
    ELSE IF disk[cwd] # NoFile THEN cwd
    ELSE exeDir

\* A field that the file does not give keeps its value.
ApplyPartialConfig(c, partial) ==
    [f \in DOMAIN c |-> IF f \in DOMAIN partial THEN partial[f] ELSE c[f]]

\* What the file's text makes of the environment's configuration.
MergedConfig(env, text) ==
    IF text \in {NoFile, Unreadable} THEN EnvConfig(env)
    ELSE ApplyPartialConfig(EnvConfig(env), text)

\* Mutant: a merged configuration that is invalid is reported and used.
LoadConfigUnchecked(env, text) == MergedConfig(env, text)

\* Mutant: the environment overrides the file.
LoadConfigEnvLast(env, text) ==
    IF text \in {NoFile, Unreadable} THEN EnvConfig(env)
    ELSE ApplyEnvConfig(env, ApplyPartialConfig(DefaultPublicConfig, text))

\* load_config: one invalid field and nothing of the file is used.  What the
\* environment gives is not checked again.
LoadConfig(env, text) ==
    IF Valid(MergedConfig(env, text)) THEN MergedConfig(env, text)
    ELSE EnvConfig(env)
=============================================================================
