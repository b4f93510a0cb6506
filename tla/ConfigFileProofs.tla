-------------------------- MODULE ConfigFileProofs --------------------------
(***************************************************************************)
(* Proofs about ConfigFile: whatever the environments, the files and the    *)
(* moments at which processes end, the configuration in memory is a valid   *)
(* one if the environment's own is; and, unless two saves overlap, the      *)
(* settings a page was told are saved are what every later process runs.    *)
(***************************************************************************)
EXTENDS ConfigFile, TLAPS

-----------------------------------------------------------------------------
(***************************************************************************)
(* Putting a configuration together                                         *)
(***************************************************************************)
Fields == {"game_adapter", "http_host", "http_port", "udp_host", "udp_port",
           "udp_receive_buffer_bytes", "broadcast_hz", "connection_timeout_ms",
           "mock_telemetry", "debug_packet"}

\* A PublicConfig is a function on Fields whose values have the fields' types.
LEMMA PublicConfigFields ==
    ASSUME NEW c \in PublicConfig
    PROVE  /\ DOMAIN c = Fields /\ c = [f \in Fields |-> c[f]]
           /\ c.game_adapter \in Texts /\ c.http_host \in Texts
           /\ c.http_port \in U16 /\ c.udp_host \in Texts /\ c.udp_port \in U16
           /\ c.udp_receive_buffer_bytes \in Nat /\ c.broadcast_hz \in Nat
           /\ c.connection_timeout_ms \in Nat
           /\ c.mock_telemetry \in BOOLEAN /\ c.debug_packet \in BOOLEAN
  BY DEF PublicConfig, Fields

LEMMA PublicConfigIntro ==
    ASSUME NEW c, c = [f \in Fields |-> c[f]],
           c["game_adapter"] \in Texts, c["http_host"] \in Texts,
           c["http_port"] \in U16, c["udp_host"] \in Texts,
           c["udp_port"] \in U16, c["udp_receive_buffer_bytes"] \in Nat,
           c["broadcast_hz"] \in Nat, c["connection_timeout_ms"] \in Nat,
           c["mock_telemetry"] \in BOOLEAN, c["debug_packet"] \in BOOLEAN
    PROVE  c \in PublicConfig
  BY DEF PublicConfig, Fields

\* A field that a file gives has its value.
LEMMA PartialTyped ==
    ASSUME NEW c \in PublicConfig, NEW p, NEW d \in PublicConfig,
           ApplyPartialConfig(d, p) \in PublicConfig
    PROVE  ApplyPartialConfig(c, p) \in PublicConfig
<1> DEFINE Of(x) == ApplyPartialConfig(x, p)
<1>1. ASSUME NEW x \in PublicConfig
      PROVE  /\ Of(x) = [f \in Fields |-> Of(x)[f]]
             /\ \A f \in Fields :
                   Of(x)[f] = IF f \in DOMAIN p THEN p[f] ELSE x[f]
  BY PublicConfigFields DEF ApplyPartialConfig
<1>2. \A f \in Fields : Of(c)[f] \in {Of(d)[f], c[f]}
  BY <1>1
<1>3. Of(c) = [f \in Fields |-> Of(c)[f]]
  BY <1>1
<1> HIDE DEF Of
<1>4. Of(d) \in PublicConfig
  BY DEF Of
<1>5. /\ Of(c)["game_adapter"] \in Texts /\ Of(c)["http_host"] \in Texts
      /\ Of(c)["http_port"] \in U16 /\ Of(c)["udp_host"] \in Texts
      /\ Of(c)["udp_port"] \in U16
  BY <1>2, <1>4, PublicConfigFields DEF Fields
<1>6. /\ Of(c)["udp_receive_buffer_bytes"] \in Nat
      /\ Of(c)["broadcast_hz"] \in Nat
      /\ Of(c)["connection_timeout_ms"] \in Nat
      /\ Of(c)["mock_telemetry"] \in BOOLEAN /\ Of(c)["debug_packet"] \in BOOLEAN
  BY <1>2, <1>4, PublicConfigFields DEF Fields
<1>7. Of(c) \in PublicConfig
  BY <1>3, <1>5, <1>6, PublicConfigIntro
<1>8. QED
  BY <1>7 DEF Of

\* A file that gives every field is all there is to the merged configuration.
LEMMA WholeFileWins ==
    ASSUME NEW c \in PublicConfig, NEW p \in PublicConfig
    PROVE  ApplyPartialConfig(c, p) = p
<1>1. DOMAIN c = Fields /\ DOMAIN p = Fields /\ p = [f \in Fields |-> p[f]]
  BY PublicConfigFields
<1>2. QED
  BY <1>1 DEF ApplyPartialConfig

LEMMA DefaultTyped == DefaultPublicConfig \in PublicConfig
  BY TextsAssumption DEF DefaultPublicConfig, PublicConfig, U16

\* Whatever is set, in whatever form.
LEMMA EnvConfigTyped ==
    ASSUME NEW e PROVE EnvConfig(e) \in PublicConfig
<1> DEFINE D == DefaultPublicConfig
<1>0. D \in PublicConfig
  BY DefaultTyped
<1> HIDE DEF D
<1>1. ASSUME NEW v, NEW T, NEW S, S \subseteq T, NEW x \in T
      PROVE  EnvOr(e, v, S, x) \in T
  BY <1>1 DEF EnvOr
<1>2. ASSUME NEW v, NEW x \in BOOLEAN PROVE EnvFlag(e, v, x) \in BOOLEAN
  BY DEF EnvFlag
<1>3. /\ EnvOr(e, "GAME_ADAPTER", Texts \ {Blank}, D.game_adapter) \in Texts
      /\ EnvOr(e, "HTTP_HOST", Texts, EnvOr(e, "HOST", Texts, D.http_host)) \in Texts
      /\ EnvOr(e, "UDP_HOST", Texts, EnvOr(e, "HOST", Texts, D.udp_host)) \in Texts
  BY <1>0, <1>1, PublicConfigFields
<1>4. /\ Port \subseteq U16
      /\ Hz \subseteq Nat
      /\ Positive \subseteq Nat
  <2>1. Port \subseteq U16
    BY DEF Port
  <2>2. ASSUME NEW n \in Hz PROVE n \in Nat
    BY DEF Hz
  <2>3. QED
    BY <2>1, <2>2 DEF Positive
<1>5. /\ EnvOr(e, "HTTP_PORT", Port, D.http_port) \in U16
      /\ EnvOr(e, "UDP_PORT", Port, D.udp_port) \in U16
      /\ EnvOr(e, "UDP_RECEIVE_BUFFER_BYTES", Nat, D.udp_receive_buffer_bytes)
            \in Nat
      /\ EnvOr(e, "TELEMETRY_BROADCAST_HZ", Hz, D.broadcast_hz) \in Nat
      /\ EnvOr(e, "CONNECTION_TIMEOUT_MS", Positive, D.connection_timeout_ms)
            \in Nat
  BY <1>0, <1>1, <1>4, PublicConfigFields
<1>6. /\ EnvFlag(e, "MOCK_TELEMETRY", D.mock_telemetry) \in BOOLEAN
      /\ EnvFlag(e, "DEBUG_PACKET", D.debug_packet) \in BOOLEAN
  BY <1>0, <1>2, PublicConfigFields
<1>7. ApplyEnvConfig(e, D) \in PublicConfig
  BY <1>3, <1>5, <1>6 DEF ApplyEnvConfig, PublicConfig
<1>8. QED
  BY <1>7 DEF EnvConfig, D

LEMMA LoadConfigTyped ==
    ASSUME NEW e, NEW text \in FileTexts
    PROVE  LoadConfig(e, text) \in PublicConfig
<1>1. CASE text \in {NoFile, Unreadable}
  BY <1>1, EnvConfigTyped DEF LoadConfig, MergedConfig
<1>2. CASE text \in Requests
  BY <1>2, EnvConfigTyped, WholeFileWins, RequestsAssumption
     DEF LoadConfig, MergedConfig
<1>3. CASE text \in HandEdits
  <2>1. ApplyPartialConfig(EnvConfig(e), text) \in PublicConfig
    BY <1>3, EnvConfigTyped, DefaultTyped, PartialTyped, HandEditsAssumption
  <2>2. QED
    BY <2>1, EnvConfigTyped DEF LoadConfig, MergedConfig
<1>4. QED
  BY <1>1, <1>2, <1>3 DEF FileTexts

\* Saved settings are loaded as they are, in every environment.
LEMMA SavedIsLoaded ==
    ASSUME NEW e, NEW c \in Requests, Valid(c)
    PROVE  LoadConfig(e, c) = c
<1>1. c \in PublicConfig /\ c \notin {NoFile, Unreadable}
  BY RequestsAssumption
<1>2. MergedConfig(e, c) = c
  BY <1>1, EnvConfigTyped, WholeFileWins DEF MergedConfig
<1>3. QED
  BY <1>2 DEF LoadConfig

\* The environment's configuration is what an invalid file falls back to.
LEMMA LoadedIsValid ==
    ASSUME NEW e, NEW text, Valid(EnvConfig(e))
    PROVE  Valid(LoadConfig(e, text))
  BY DEF LoadConfig

-----------------------------------------------------------------------------
(***************************************************************************)
(* Layers                                                                   *)
(***************************************************************************)

\* The process and its .env files, in the order in which load_env_files goes
\* through them.
Layers(own, files) == <<own, files.here, files.above, files.exe, files.built>>

\* Layer i is the first to set v.
SetBy(v, own, files, i) ==
    /\ v \in DOMAIN Layers(own, files)[i]
    /\ \A j \in 1 .. i - 1 : v \notin DOMAIN Layers(own, files)[j]

\* One file after the other, each setting what is not set yet, leaves every
\* variable as the first of them had it.
LEMMA FirstSettingWins ==
    ASSUME NEW own, NEW files, NEW v
    PROVE  LET start == LoadEnvFiles(own, files)
           IN  /\ \A i \in 1 .. 5 : SetBy(v, own, files, i) =>
                     v \in DOMAIN start /\ start[v] = Layers(own, files)[i][v]
               /\ (\A i \in 1 .. 5 : v \notin DOMAIN Layers(own, files)[i])
                     => v \notin DOMAIN start
<1> DEFINE here   == LoadEnvFile(own, files.here)
           above  == LoadEnvFile(here, files.above)
           beside == LoadEnvFile(above, files.exe)
           built  == LoadEnvFile(beside, files.built)
           L == Layers(own, files)
<1>1. ASSUME NEW e, NEW f
      PROVE  /\ v \in DOMAIN LoadEnvFile(e, f) <=> v \in DOMAIN e \/ v \in DOMAIN f
             /\ v \in DOMAIN e => LoadEnvFile(e, f)[v] = e[v]
             /\ v \in DOMAIN f \ DOMAIN e => LoadEnvFile(e, f)[v] = f[v]
  BY DEF LoadEnvFile
<1>2. built = LoadEnvFiles(own, files)
  BY DEF LoadEnvFiles
<1>3. /\ L[1] = own /\ L[2] = files.here /\ L[3] = files.above
      /\ L[4] = files.exe /\ L[5] = files.built
  BY DEF Layers
<1> HIDE DEF L
<1>4. /\ v \in DOMAIN here <=> v \in DOMAIN L[1] \/ v \in DOMAIN L[2]
      /\ v \in DOMAIN L[1] => here[v] = L[1][v]
      /\ v \in DOMAIN L[2] \ DOMAIN L[1] => here[v] = L[2][v]
  BY <1>1, <1>3
<1> HIDE DEF here
<1>5. /\ v \in DOMAIN above <=> v \in DOMAIN here \/ v \in DOMAIN L[3]
      /\ v \in DOMAIN here => above[v] = here[v]
      /\ v \in DOMAIN L[3] \ DOMAIN here => above[v] = L[3][v]
  BY <1>1, <1>3
<1> HIDE DEF above
<1>6. /\ v \in DOMAIN beside <=> v \in DOMAIN above \/ v \in DOMAIN L[4]
      /\ v \in DOMAIN above => beside[v] = above[v]
      /\ v \in DOMAIN L[4] \ DOMAIN above => beside[v] = L[4][v]
  BY <1>1, <1>3
<1> HIDE DEF beside
<1>7. /\ v \in DOMAIN built <=> v \in DOMAIN beside \/ v \in DOMAIN L[5]
      /\ v \in DOMAIN beside => built[v] = beside[v]
      /\ v \in DOMAIN L[5] \ DOMAIN beside => built[v] = L[5][v]
  BY <1>1, <1>3
<1> HIDE DEF built
<1>8. ASSUME NEW i \in 1 .. 5, v \in DOMAIN L[i],
             \A j \in 1 .. i - 1 : v \notin DOMAIN L[j]
      PROVE  v \in DOMAIN built /\ built[v] = L[i][v]
  <2>1. i = 1 \/ i = 2 \/ i = 3 \/ i = 4 \/ i = 5
    OBVIOUS
  <2>2. CASE i = 1
    BY <1>4, <1>5, <1>6, <1>7, <1>8, <2>2
  <2>3. CASE i = 2
    <3>1. v \notin DOMAIN L[1]
      BY <1>8, <2>3
    <3>2. QED
      BY <1>4, <1>5, <1>6, <1>7, <1>8, <2>3, <3>1
  <2>4. CASE i = 3
    <3>1. v \notin DOMAIN L[1] /\ v \notin DOMAIN L[2]
      BY <1>8, <2>4
    <3>2. QED
      BY <1>4, <1>5, <1>6, <1>7, <1>8, <2>4, <3>1
  <2>5. CASE i = 4
    <3>1. v \notin DOMAIN L[1] /\ v \notin DOMAIN L[2] /\ v \notin DOMAIN L[3]
      BY <1>8, <2>5
    <3>2. QED
      BY <1>4, <1>5, <1>6, <1>7, <1>8, <2>5, <3>1
  <2>6. CASE i = 5
    <3>1. /\ v \notin DOMAIN L[1] /\ v \notin DOMAIN L[2]
          /\ v \notin DOMAIN L[3] /\ v \notin DOMAIN L[4]
      BY <1>8, <2>6
    <3>2. QED
      BY <1>4, <1>5, <1>6, <1>7, <1>8, <2>6, <3>1
  <2>7. QED
    BY <2>1, <2>2, <2>3, <2>4, <2>5, <2>6
<1>9. ASSUME \A i \in 1 .. 5 : v \notin DOMAIN L[i]
      PROVE  v \notin DOMAIN built
  BY <1>4, <1>5, <1>6, <1>7, <1>9
<1>10. QED
  BY <1>2, <1>8, <1>9 DEF SetBy, L

\* README-WINDOWS.md:64-68: a setting that config.json gives is used, unless the
\* file is invalid with the rest; else the one of the process, else that of the
\* first .env file, in the order the code reads them, that has one; else the
\* default.  A text that is not accepted counts as unset, and keeps what later
\* files say from being used all the same.  (Here the UDP port; the others
\* differ in what is accepted.)
THEOREM FileThenProcessThenEnvFiles ==
    ASSUME NEW own, NEW files, NEW text
    PROVE  LET start == LoadEnvFiles(own, files)
               given == /\ text \notin {NoFile, Unreadable}
                        /\ "udp_port" \in DOMAIN text
                        /\ Valid(MergedConfig(start, text))
               port == LoadConfig(start, text).udp_port
           IN  /\ given => port = text.udp_port
               /\ \A i \in 1 .. 5 :
                     ~given /\ SetBy("UDP_PORT", own, files, i) =>
                        LET set == Layers(own, files)[i]["UDP_PORT"]
                        IN  port = IF set \in Port THEN set ELSE 5400
               /\ ~given /\ (\A i \in 1 .. 5 :
                                 "UDP_PORT" \notin DOMAIN Layers(own, files)[i])
                     => port = 5400
<1> DEFINE start == LoadEnvFiles(own, files)
           L == Layers(own, files)
           given == /\ text \notin {NoFile, Unreadable}
                    /\ "udp_port" \in DOMAIN text
                    /\ Valid(MergedConfig(start, text))
           port == LoadConfig(start, text).udp_port
           else == EnvConfig(start).udp_port
<1>1. /\ \A i \in 1 .. 5 : SetBy("UDP_PORT", own, files, i) =>
            "UDP_PORT" \in DOMAIN start /\ start["UDP_PORT"] = L[i]["UDP_PORT"]
      /\ (\A i \in 1 .. 5 : "UDP_PORT" \notin DOMAIN L[i])
            => "UDP_PORT" \notin DOMAIN start
  BY FirstSettingWins, Zenon
<1>2. else = IF "UDP_PORT" \in DOMAIN start /\ start["UDP_PORT"] \in Port
             THEN start["UDP_PORT"] ELSE 5400
  BY DEF EnvConfig, ApplyEnvConfig, EnvOr, DefaultPublicConfig
<1>3. EnvConfig(start) \in PublicConfig
  BY EnvConfigTyped
<1>4. (given => port = text.udp_port) /\ (~given => port = else)
  <2>1. ASSUME text \notin {NoFile, Unreadable}
        PROVE  MergedConfig(start, text).udp_port =
                  IF "udp_port" \in DOMAIN text THEN text.udp_port ELSE else
    BY <1>3, <2>1, PublicConfigFields DEF MergedConfig, ApplyPartialConfig, Fields
  <2>2. ASSUME text \in {NoFile, Unreadable}
        PROVE  MergedConfig(start, text) = EnvConfig(start)
    BY <2>2 DEF MergedConfig
  <2>3. QED
    BY <2>1, <2>2 DEF LoadConfig
<1> HIDE DEF start, L, given, port, else
<1>5. ASSUME NEW i \in 1 .. 5, ~given, SetBy("UDP_PORT", own, files, i)
      PROVE  port = IF L[i]["UDP_PORT"] \in Port THEN L[i]["UDP_PORT"] ELSE 5400
  BY <1>1, <1>2, <1>4, <1>5
<1>6. ASSUME ~given, \A i \in 1 .. 5 : "UDP_PORT" \notin DOMAIN L[i]
      PROVE  port = 5400
  BY <1>1, <1>2, <1>4, <1>6
<1>7. QED
  BY <1>4, <1>5, <1>6 DEF start, L, given, port

-----------------------------------------------------------------------------
(***************************************************************************)
(* Typing                                                                   *)
(***************************************************************************)
Puts == {IdlePut} \cup [pc : {"open", "write", "replace"}, new : Requests]

\* The part of TypeOK that later proofs need by itself: a handler runs only while
\* the process is up, and only for a valid request.
HandlerInv ==
    \A b \in Browsers : put[b].pc # "idle" => process = "up" /\ Valid(put[b].new)

ConfigInv == TypeOK /\ HandlerInv

LEMMA PutGotoMoves ==
    ASSUME TypeOK, NEW b \in Browsers, put[b].pc # "idle",
           NEW pc \in {"open", "write", "replace"}, PutGoto(b, pc)
    PROVE  /\ put' \in [Browsers -> Puts]
           /\ put[b].new \in Requests
           /\ put'[b].pc = pc /\ put'[b].new = put[b].new
           /\ \A a \in Browsers \ {b} : put'[a] = put[a]
<1>1. put[b] \in [pc : {"open", "write", "replace"}, new : Requests]
  BY DEF TypeOK, IdlePut
<1>2. put' = [put EXCEPT ![b] = [put[b] EXCEPT !.pc = pc]]
  BY DEF PutGoto, TypeOK
<1>3. [put[b] EXCEPT !.pc = pc] \in Puts
  BY <1>1 DEF Puts
<1>4. put \in [Browsers -> Puts]
  BY DEF TypeOK, Puts
<1>5. QED
  BY <1>1, <1>2, <1>3, <1>4

LEMMA PutEnds ==
    ASSUME TypeOK, NEW b \in Browsers, put[b].pc # "idle",
           put' = [put EXCEPT ![b] = IdlePut]
    PROVE  /\ put' \in [Browsers -> Puts]
           /\ put[b].new \in Requests
           /\ put'[b].pc = "idle"
           /\ \A a \in Browsers \ {b} : put'[a] = put[a]
<1>1. put \in [Browsers -> Puts]
  BY DEF TypeOK, Puts
<1>2. put[b] \in [pc : {"open", "write", "replace"}, new : Requests]
  BY DEF TypeOK, IdlePut
<1>3. QED
  BY <1>1, <1>2 DEF Puts, IdlePut

LEMMA PathTyped ==
    ASSUME NEW e \in Environments, NEW d \in Places, NEW files
    PROVE  ConfigFilePath(LoadEnvFiles(e.process, e.files), d, ExeDir, files)
              \in Places
  BY PlacesAssumption DEF ConfigFilePath

LEMMA ConfigInvInit == Init => ConfigInv
<1> SUFFICES ASSUME Init PROVE ConfigInv
  OBVIOUS
<1>1. config \in PublicConfig
  BY DefaultTyped DEF Init
<1>2. put \in [Browsers -> {IdlePut}] /\ \A b \in Browsers : put[b].pc = "idle"
  BY DEF Init, IdlePut
<1>3. disk \in [Places -> FileTexts] /\ promised \in [Places -> Requests \cup {None}]
  BY DEF Init, FileTexts
<1>4. QED
  BY <1>1, <1>2, <1>3, PlacesAssumption DEF Init, ConfigInv, TypeOK, HandlerInv

LEMMA PutStepConfigInv ==
    ASSUME ConfigInv, NEW b \in Browsers, PutStep(b) PROVE ConfigInv'
<1> USE DEF ConfigInv
<1>0. /\ UNCHANGED <<process, cwd, path>>
      /\ put[b].pc # "idle" /\ put[b].new \in Requests
  <2>1. UNCHANGED <<process, cwd, path>> /\ put[b].pc # "idle"
    BY DEF PutStep, PutOpensFile, PutCannotOpen, PutWritesFile, PutCannotWrite,
           PutReplacesConfig, PutDropped, processVars
  <2>2. QED
    BY <2>1 DEF TypeOK, IdlePut
<1>1. CASE PutOpensFile(b)
  <2>1. disk' \in [Places -> FileTexts]
    BY <1>1 DEF PutOpensFile, TypeOK, FileTexts
  <2>2. promised' \in [Places -> Requests \cup {None}]
    BY <1>1 DEF PutOpensFile, TypeOK
  <2>3. QED
    BY <1>0, <1>1, <2>1, <2>2, PutGotoMoves DEF PutOpensFile, TypeOK, HandlerInv, Puts
<1>2. CASE PutCannotOpen(b) \/ PutDropped(b)
  BY <1>0, <1>2, PutEnds DEF PutCannotOpen, PutDropped, TypeOK, HandlerInv, Puts
<1>3. CASE PutWritesFile(b)
  <2>1. disk' \in [Places -> FileTexts]
    BY <1>0, <1>3 DEF PutWritesFile, TypeOK, FileTexts
  <2>2. size' \in Nat
    BY <1>0, <1>3, RequestsAssumption DEF PutWritesFile, Extended, TypeOK
  <2>3. QED
    BY <1>0, <1>3, <2>1, <2>2, PutGotoMoves
       DEF PutWritesFile, TypeOK, HandlerInv, Puts
<1>4. CASE PutCannotWrite(b)
  <2>1. disk' \in [Places -> FileTexts]
    BY <1>0, <1>4 DEF PutCannotWrite, TypeOK, FileTexts
  <2>2. size' \in Nat
    BY <1>0, <1>4, RequestsAssumption DEF PutCannotWrite, Extended, TypeOK
  <2>3. promised' \in [Places -> Requests \cup {None}] /\ torn' \in BOOLEAN
        /\ config' = config
    BY <1>4 DEF PutCannotWrite, TypeOK
  <2>4. put' = [put EXCEPT ![b] = IdlePut]
    BY <1>4 DEF PutCannotWrite
  <2>5. QED
    BY <1>0, <2>1, <2>2, <2>3, <2>4, PutEnds DEF TypeOK, HandlerInv, Puts
<1>5. CASE PutReplacesConfig(b)
  <2>1. promised' \in [Places -> Requests \cup {None}] /\ config' \in PublicConfig
    BY <1>0, <1>5, RequestsAssumption DEF PutReplacesConfig, TypeOK
  <2>2. QED
    BY <1>0, <1>5, <2>1, PutEnds DEF PutReplacesConfig, TypeOK, HandlerInv, Puts
<1>6. QED
  BY <1>1, <1>2, <1>3, <1>4, <1>5 DEF PutStep

LEMMA ConfigInvNext == ConfigInv /\ [Next]_vars => ConfigInv'
<1> SUFFICES ASSUME ConfigInv, [Next]_vars PROVE ConfigInv'
  OBVIOUS
<1> USE DEF ConfigInv
<1>1. CASE UNCHANGED vars
  BY <1>1 DEF vars, TypeOK, HandlerInv
<1>2. ASSUME NEW e \in Environments, NEW d \in Places, Start(e, d)
      PROVE  ConfigInv'
  <2>1. path' \in Places
    BY <1>2, PathTyped DEF Start
  <2>2. config' \in PublicConfig
    BY <1>2, <2>1, LoadConfigTyped DEF Start, TypeOK
  <2>3. QED
    BY <1>2, <2>1, <2>2 DEF Start, TypeOK, HandlerInv
<1>3. CASE Listen
  BY <1>3 DEF Listen, TypeOK, HandlerInv
<1>4. CASE End
  BY <1>4 DEF End, TypeOK, HandlerInv, IdlePut
<1>5. ASSUME NEW d \in Places, NEW text \in HandEdits \cup {NoFile, Unreadable},
             EditByHand(d, text)
      PROVE  ConfigInv'
  <2>1. disk' \in [Places -> FileTexts]
    BY <1>5 DEF EditByHand, TypeOK, FileTexts
  <2>2. promised' \in [Places -> Requests \cup {None}]
    BY <1>5 DEF EditByHand, TypeOK
  <2>3. QED
    BY <1>5, <2>1, <2>2 DEF EditByHand, processVars, TypeOK, HandlerInv
<1>6. ASSUME NEW b \in Browsers, NEW new \in Requests, PutBegins(b, new)
      PROVE  ConfigInv'
  <2>1. put' \in [Browsers -> Puts]
    BY <1>6 DEF PutBegins, TypeOK, Puts
  <2>2. put'[b] = [pc |-> "open", new |-> new]
        /\ \A a \in Browsers \ {b} : put'[a] = put[a]
    BY <1>6 DEF PutBegins, TypeOK
  <2>3. QED
    BY <1>6, <2>1, <2>2 DEF PutBegins, processVars, TypeOK, HandlerInv, Puts
<1>7. QED
  BY <1>1, <1>2, <1>3, <1>4, <1>5, <1>6, PutStepConfigInv DEF Next

LEMMA ConfigInvAlways == Spec => []ConfigInv
  BY ConfigInvInit, ConfigInvNext, PTL DEF Spec

\* Every file holds a text the program or the user wrote, the configuration in
\* memory is well typed, and a handler that is at work has a request.
THEOREM TypeCorrect == Spec => []TypeOK
<1>1. ConfigInv => TypeOK
  BY DEF ConfigInv
<1>2. QED
  BY <1>1, ConfigInvAlways, PTL

-----------------------------------------------------------------------------
(***************************************************************************)
(* Valid configurations                                                     *)
(***************************************************************************)

\* However many pages save, whatever the files hold and wherever a process ended:
\* a server whose environment alone gives a valid configuration never runs an
\* invalid one.
THEOREM ValidConfigRuns == Spec => []RunningConfigIsValid
<1>1. Init => RunningConfigIsValid
  BY DEF Init, RunningConfigIsValid
<1>2. ASSUME ConfigInv, RunningConfigIsValid, [Next]_vars
      PROVE  RunningConfigIsValid'
  <2>1. CASE UNCHANGED vars
    BY <1>2, <2>1 DEF vars, RunningConfigIsValid
  <2>2. ASSUME NEW e \in Environments, NEW d \in Places, Start(e, d)
        PROVE  RunningConfigIsValid'
    <3>1. Valid(EnvConfig(env')) => Valid(config')
      BY <2>2, LoadedIsValid DEF Start
    <3>2. RunningConfigIsValid' = (process' # "down" /\ Valid(EnvConfig(env'))
                                     => Valid(config'))
      BY DEF RunningConfigIsValid, Valid, EnvConfig, ApplyEnvConfig, EnvOr, EnvFlag
    <3>3. QED
      BY <3>1, <3>2
  <2>3. CASE Listen
    BY <1>2, <2>3 DEF Listen, RunningConfigIsValid
  <2>4. CASE End
    BY <2>4 DEF End, RunningConfigIsValid
  <2>5. ASSUME NEW d, NEW text, EditByHand(d, text) PROVE RunningConfigIsValid'
    BY <1>2, <2>5 DEF EditByHand, processVars, RunningConfigIsValid
  <2>6. ASSUME NEW b, NEW new, PutBegins(b, new) PROVE RunningConfigIsValid'
    BY <1>2, <2>6 DEF PutBegins, processVars, RunningConfigIsValid
  <2>7. ASSUME NEW b \in Browsers, PutStep(b) PROVE RunningConfigIsValid'
    <3>1. CASE PutReplacesConfig(b)
      BY <1>2, <3>1 DEF PutReplacesConfig, ConfigInv, HandlerInv, RunningConfigIsValid
    <3>2. CASE ~PutReplacesConfig(b)
      BY <1>2, <2>7, <3>2
         DEF PutStep, PutOpensFile, PutCannotOpen, PutWritesFile, PutCannotWrite,
             PutDropped, processVars, RunningConfigIsValid
    <3>3. QED
      BY <3>1, <3>2
  <2>8. QED
    BY <1>2, <2>1, <2>2, <2>3, <2>4, <2>5, <2>6, <2>7 DEF Next
<1>3. QED
  BY <1>1, <1>2, ConfigInvAlways, PTL DEF Spec

-----------------------------------------------------------------------------
(***************************************************************************)
(* Saves that do not overlap                                                *)
(***************************************************************************)

\* What a page was told is saved is in the file, and running.
PromiseInv ==
    /\ \A d \in Places : promised[d] # None =>
           disk[d] = promised[d] /\ Valid(promised[d])
    /\ process # "down" /\ promised[path] # None => config = promised[path]

\* A handler that has truncated the file has taken the promise back.
TruncatedInv ==
    \A b \in Browsers :
        /\ put[b].pc = "write" => promised[path] = None /\ torn /\ size = 0
        /\ put[b].pc = "replace" => promised[path] = None /\ disk[path] = put[b].new

\* The file is the one a new process would find, and says what memory says once
\* no handler is between the two.
AgreementInv ==
    process # "down" =>
        /\ ConfigFilePath(env, cwd, ExeDir, disk) = path
        /\ ~torn /\ (\A b \in Browsers : ~Writing(b))
              => LoadConfig(env, disk[path]) = config

SavedInv == PromiseInv /\ TruncatedInv /\ AgreementInv

LEMMA SavedInvInit == Init => SavedInv
  BY DEF Init, SavedInv, PromiseInv, TruncatedInv, AgreementInv, IdlePut

\* The invariants of the next state, with the primes at the variables.
LEMMA PromiseNext ==
    PromiseInv' = /\ \A d \in Places : promised'[d] # None =>
                         disk'[d] = promised'[d] /\ Valid(promised'[d])
                  /\ process' # "down" /\ promised'[path'] # None
                         => config' = promised'[path']
  BY DEF PromiseInv, Valid

LEMMA AgreementNext ==
    AgreementInv' =
        (process' # "down" =>
            /\ ConfigFilePath(env', cwd', ExeDir, disk') = path'
            /\ ~torn' /\ (\A b \in Browsers : put'[b].pc \notin {"write", "replace"})
                  => LoadConfig(env', disk'[path']) = config')
  BY DEF AgreementInv, Writing, ConfigFilePath, LoadConfig, MergedConfig, EnvConfig,
         ApplyEnvConfig, ApplyPartialConfig, EnvOr, EnvFlag, Valid

\* A process is given the settings that were promised, in every environment.
LEMMA StartSavedInv ==
    ASSUME ConfigInv, SavedInv, NEW e \in Environments, NEW d \in Places,
           Start(e, d)
    PROVE  SavedInv'
<1>1. path' \in Places /\ path' = ConfigFilePath(env', cwd', ExeDir, disk')
  BY PathTyped DEF Start
<1>2. /\ config' = LoadConfig(env', disk'[path']) /\ disk' = disk
      /\ promised' = promised
      /\ \A b \in Browsers : put'[b].pc = "idle"
  BY DEF Start, ConfigInv, HandlerInv
<1>3. PromiseInv'
  <2>1. ASSUME promised'[path'] # None PROVE config' = promised'[path']
    <3>1. promised[path'] \in Requests
      BY <1>1, <1>2, <2>1 DEF ConfigInv, TypeOK
    <3>2. disk[path'] = promised[path'] /\ Valid(promised[path'])
      BY <1>1, <1>2, <2>1 DEF SavedInv, PromiseInv
    <3>3. QED
      BY <1>2, <3>1, <3>2, SavedIsLoaded
  <2>2. \A x \in Places : promised'[x] # None =>
            disk'[x] = promised'[x] /\ Valid(promised'[x])
    BY <1>2 DEF SavedInv, PromiseInv
  <2>3. QED
    BY <1>2, <2>1, <2>2 DEF PromiseInv, Valid
<1>4. TruncatedInv'
  BY <1>2 DEF TruncatedInv
<1>5. AgreementInv'
  BY <1>1, <1>2, AgreementNext
<1>6. QED
  BY <1>3, <1>4, <1>5 DEF SavedInv

\* While a save is writing no other handler touches the file.
LEMMA PutStepSavedInv ==
    ASSUME WritesAlone, WritesAlone', ConfigInv, SavedInv, NEW b \in Browsers,
           PutStep(b), ~PutCannotOpen(b)
    PROVE  SavedInv'
<1>0. /\ put[b].pc # "idle" /\ process = "up" /\ Valid(put[b].new)
      /\ put[b].new \in Requests /\ path \in Places
      /\ \A a \in Browsers \ {b} :
            put'[a] = put[a] /\ put[a].pc \notin {"write", "replace"}
      /\ UNCHANGED <<process, env, cwd, path>>
  <2>1. /\ put[b].pc # "idle" /\ UNCHANGED <<process, env, cwd, path>>
        /\ \A a \in Browsers \ {b} : put'[a] = put[a]
    BY DEF PutStep, PutOpensFile, PutWritesFile, PutCannotWrite,
           PutReplacesConfig, PutDropped, PutGoto, processVars, ConfigInv, TypeOK
  <2>2. Writing(b) \/ Writing(b)'
    BY PutGotoMoves
       DEF PutStep, PutOpensFile, PutWritesFile, PutCannotWrite,
           PutReplacesConfig, PutDropped, Writing, ConfigInv
  <2>3. \A a \in Browsers \ {b} : ~Writing(a)
    BY <2>1, <2>2 DEF WritesAlone, Writing
  <2>4. QED
    BY <2>1, <2>3 DEF ConfigInv, TypeOK, HandlerInv, IdlePut, Writing
<1>1. put[b].new \notin {None, NoFile, Unreadable} /\ TextLength[put[b].new] \in Nat
      /\ NoFile # Unreadable
  BY <1>0, RequestsAssumption
<1>2. /\ disk \in [Places -> FileTexts] /\ TypeOK
      /\ promised \in [Places -> Requests \cup {None}]
  BY DEF ConfigInv, TypeOK
\* Writing the file in place does not change which one a process finds.
<1>3. ASSUME NEW text, text # NoFile,
             disk' = disk \/ disk' = [disk EXCEPT ![path] = text]
      PROVE  ConfigFilePath(env, cwd, ExeDir, disk') = path
  <2>1. ConfigFilePath(env, cwd, ExeDir, disk) = path
    BY <1>0 DEF SavedInv, AgreementInv
  <2>2. cwd \in Places
    BY DEF ConfigInv, TypeOK
  <2>3. QED
    BY <1>0, <1>2, <1>3, <2>1, <2>2 DEF ConfigFilePath
<1>4. SUFFICES ASSUME TRUE
               PROVE  /\ PromiseInv' /\ TruncatedInv'
                      /\ ConfigFilePath(env, cwd, ExeDir, disk') = path
                      /\ ~torn' /\ put'[b].pc \notin {"write", "replace"}
                            => LoadConfig(env, disk'[path]) = config'
  BY <1>0, AgreementNext DEF SavedInv
<1>5. PromiseInv' = /\ \A d \in Places : promised'[d] # None =>
                           disk'[d] = promised'[d] /\ Valid(promised'[d])
                    /\ process' # "down" /\ promised'[path'] # None
                           => config' = promised'[path']
  BY PromiseNext
<1>6. CASE PutOpensFile(b)
  <2>1. /\ disk' = [disk EXCEPT ![path] = Unreadable]
        /\ promised' = [promised EXCEPT ![path] = None]
        /\ config' = config /\ torn' /\ size' = 0 /\ put'[b].pc = "write"
    BY <1>0, <1>2, <1>6, PutGotoMoves DEF PutOpensFile
  <2>2. PromiseInv'
    BY <1>0, <1>2, <1>5, <2>1 DEF SavedInv, PromiseInv
  <2>3. TruncatedInv'
    BY <1>0, <1>2, <2>1 DEF TruncatedInv
  <2>4. QED
    BY <1>1, <1>3, <2>1, <2>2, <2>3
<1>7. CASE PutDropped(b)
  <2>1. /\ put'[b].pc = "idle" /\ torn' /\ UNCHANGED <<disk, config, promised>>
    BY <1>0, <1>2, <1>7, PutEnds DEF PutDropped
  <2>2. PromiseInv' /\ TruncatedInv'
    BY <1>0, <1>5, <2>1 DEF SavedInv, PromiseInv, TruncatedInv
  <2>3. QED
    BY <1>1, <1>3, <2>1, <2>2
<1>8. CASE PutWritesFile(b)
  <2>1. /\ put[b].pc = "write" /\ put'[b].pc = "replace"
        /\ put'[b].new = put[b].new
        /\ UNCHANGED <<config, promised>>
    BY <1>0, <1>2, <1>8, PutGotoMoves DEF PutWritesFile
  <2>2. promised[path] = None /\ size = 0
    BY <2>1 DEF SavedInv, TruncatedInv
  <2>3. disk' = [disk EXCEPT ![path] = put[b].new]
    <3>1. ~(size > TextLength[put[b].new] + 1)
      BY <1>1, <2>2
    <3>2. QED
      BY <1>8, <3>1 DEF PutWritesFile
  <2>4. PromiseInv'
    BY <1>0, <1>2, <1>5, <2>1, <2>2, <2>3 DEF SavedInv, PromiseInv
  <2>5. TruncatedInv'
    BY <1>0, <1>2, <2>1, <2>2, <2>3 DEF TruncatedInv
  <2>6. QED
    BY <1>1, <1>3, <2>1, <2>3, <2>4, <2>5
<1>9. CASE PutCannotWrite(b)
  <2>1. PICK text \in {Unreadable, put[b].new} :
            disk' = disk \/ disk' = [disk EXCEPT ![path] = text]
    BY <1>9 DEF PutCannotWrite
  <2>2. /\ put[b].pc = "write" /\ put'[b].pc = "idle"
        /\ config' = config /\ promised' = [promised EXCEPT ![path] = None]
    BY <1>0, <1>2, <1>9, PutEnds DEF PutCannotWrite
  <2>3. torn'
    BY <1>9, <2>2 DEF PutCannotWrite, SavedInv, TruncatedInv
  <2>4. PromiseInv'
    BY <1>0, <1>2, <1>5, <2>1, <2>2 DEF SavedInv, PromiseInv
  <2>5. TruncatedInv'
    BY <1>0, <2>2 DEF TruncatedInv
  <2>6. QED
    BY <1>1, <1>3, <2>1, <2>3, <2>4, <2>5
<1>10. CASE PutReplacesConfig(b)
  <2>1. /\ put[b].pc = "replace" /\ put'[b].pc = "idle"
        /\ config' = put[b].new
        /\ promised' = [promised EXCEPT ![path] = put[b].new]
        /\ UNCHANGED <<disk, torn>>
    BY <1>0, <1>2, <1>10, PutEnds DEF PutReplacesConfig
  <2>2. disk[path] = put[b].new
    BY <2>1 DEF SavedInv, TruncatedInv
  <2>3. PromiseInv'
    BY <1>0, <1>2, <1>5, <2>1, <2>2 DEF SavedInv, PromiseInv
  <2>4. TruncatedInv'
    BY <1>0, <2>1 DEF TruncatedInv
  <2>5. LoadConfig(env, disk'[path]) = config'
    BY <1>0, <2>1, <2>2, SavedIsLoaded
  <2>6. QED
    BY <1>1, <1>3, <2>1, <2>3, <2>4, <2>5
<1>11. QED
  BY <1>6, <1>7, <1>8, <1>9, <1>10 DEF PutStep

LEMMA SavedInvNext ==
    WritesAlone /\ WritesAlone' /\ ConfigInv /\ SavedInv /\ [Next]_vars
        => SavedInv'
<1> SUFFICES ASSUME WritesAlone, WritesAlone', ConfigInv, SavedInv, [Next]_vars
             PROVE  SavedInv'
  OBVIOUS
\* Steps that leave the files and the promises alone, and no save past its start.
<1> DEFINE Early(b) == put[b].pc \in {"idle", "open"} \/ process' = "down"
           Kept(b) == put'[b] = put[b] \/
                          (Early(b) /\ put'[b].pc \in {"idle", "open"})
<1>1. ASSUME UNCHANGED <<disk, env, cwd, path, config, size, torn, promised>>,
             process' # "down" => process # "down",
             \A b \in Browsers : Kept(b)
      PROVE  SavedInv'
  <2>1. PromiseInv'
    BY <1>1, PromiseNext DEF SavedInv, PromiseInv
  <2>2. TruncatedInv'
    BY <1>1 DEF SavedInv, TruncatedInv
  <2>3. AgreementInv'
    BY <1>1, AgreementNext DEF SavedInv, AgreementInv, Writing
  <2>4. QED
    BY <2>1, <2>2, <2>3 DEF SavedInv
<1>2. CASE UNCHANGED vars
  <2>1. \A b \in Browsers : Kept(b)
    BY <1>2 DEF vars
  <2>2. UNCHANGED <<disk, process, env, cwd, path, config, size, torn, promised>>
    BY <1>2 DEF vars
  <2>3. QED
    BY <1>1, <2>1, <2>2
<1>3. CASE Listen
  <2>1. \A b \in Browsers : Kept(b)
    BY <1>3 DEF Listen
  <2>2. UNCHANGED <<disk, env, cwd, path, config, size, torn, promised>>
        /\ process # "down"
    BY <1>3 DEF Listen
  <2>3. QED
    BY <1>1, <2>1, <2>2
<1>4. CASE End
  <2>1. \A b \in Browsers : Kept(b)
    BY <1>4 DEF End, IdlePut
  <2>2. UNCHANGED <<disk, env, cwd, path, config, size, torn, promised>>
        /\ process' = "down"
    BY <1>4 DEF End
  <2>3. QED
    BY <1>1, <2>1, <2>2
<1>5. ASSUME NEW b \in Browsers, NEW new \in Requests, PutBegins(b, new)
      PROVE  SavedInv'
  <2>1. \A a \in Browsers : Kept(a)
    BY <1>5 DEF PutBegins, ConfigInv, TypeOK
  <2>2. /\ UNCHANGED <<disk, process, env, cwd, path, config, size, torn, promised>>
    BY <1>5 DEF PutBegins, processVars
  <2>3. QED
    BY <1>1, <2>1, <2>2
<1>6. ASSUME NEW d \in Places, NEW text, EditByHand(d, text)
      PROVE  SavedInv'
  <2>1. /\ disk' = [disk EXCEPT ![d] = text]
        /\ promised' = [promised EXCEPT ![d] = None]
        /\ process' = "down" /\ UNCHANGED <<put, path>>
        /\ \A b \in Browsers : put[b].pc = "idle"
    BY <1>6 DEF EditByHand, processVars, ConfigInv, HandlerInv
  <2>2. PromiseInv'
    BY <2>1, PromiseNext DEF SavedInv, PromiseInv, ConfigInv, TypeOK
  <2>3. TruncatedInv' /\ AgreementInv'
    BY <2>1 DEF TruncatedInv, AgreementInv
  <2>4. QED
    BY <2>2, <2>3 DEF SavedInv
<1>7. ASSUME NEW b \in Browsers, PutCannotOpen(b) PROVE SavedInv'
  <2>1. \A a \in Browsers : Kept(a)
    BY <1>7 DEF PutCannotOpen, ConfigInv, TypeOK, IdlePut
  <2>2. UNCHANGED <<disk, process, env, cwd, path, config, size, torn, promised>>
    BY <1>7 DEF PutCannotOpen, processVars
  <2>3. QED
    BY <1>1, <2>1, <2>2
<1>8. QED
  BY <1>2, <1>3, <1>4, <1>5, <1>6, <1>7, PutStepSavedInv, StartSavedInv DEF Next

LEMMA SavedInvAlways == Spec /\ []WritesAlone => [](ConfigInv /\ SavedInv)
  BY SavedInvInit, SavedInvNext, ConfigInvAlways, PTL DEF Spec

\* Unless two saves overlap: what a page was last told is saved is what every later
\* process runs that uses this file, whatever its environment and wherever the
\* ones before it ended.
THEOREM SettingsSurvive == Spec /\ []WritesAlone => []SavedSettingsSurvive
<1>1. SavedInv => SavedSettingsSurvive
  BY DEF SavedInv, PromiseInv, SavedSettingsSurvive
<1>2. QED
  BY <1>1, SavedInvAlways, PTL

\* Unless two saves overlap, or the last one got stuck, the server would find the
\* same file again and load from it what it runs.
THEOREM RestartIsNeutral == Spec /\ []WritesAlone => []RestartChangesNothing
<1>1. ConfigInv /\ SavedInv => RestartChangesNothing
  BY DEF SavedInv, AgreementInv, RestartChangesNothing, Saving, Writing
<1>2. QED
  BY <1>1, SavedInvAlways, PTL

\* Unless two saves overlap, a file that pages were told holds their settings can
\* be read: the only way to lose it is the one that the run config_two_pages
\* finds.
THEOREM AnsweredIsReadable == Spec /\ []WritesAlone => []AnsweredSaveIsReadable
<1>1. ConfigInv /\ SavedInv => AnsweredSaveIsReadable
  BY RequestsAssumption
     DEF ConfigInv, TypeOK, SavedInv, PromiseInv, AnsweredSaveIsReadable
<1>2. QED
  BY <1>1, SavedInvAlways, PTL
=============================================================================
