----------------------------- MODULE ConfigFile -----------------------------
(***************************************************************************)
(* config.json over the lives of the server: processes that load it as they *)
(* start, pages that save it (PUT /api/config and save_public_config), a    *)
(* user who edits it by hand between two processes, and processes that end  *)
(* at any moment, in the middle of a save too.                              *)
(*                                                                          *)
(* save_public_config is not atomic: fs::write first truncates the file and *)
(* then writes the text, and nothing keeps two handlers from doing so at    *)
(* once.  The handler's last steps, which set the rate and the timeout, are *)
(* in RuntimeControl.                                                       *)
(***************************************************************************)
EXTENDS AppConfig

CONSTANTS
    Browsers,     \* pages that save settings
    Requests,     \* configurations they ask for
    TextLength,   \* length of the JSON text of each
    HandEdits,    \* partial configurations a user may write
    Environments, \* what the processes are started with: variables and .env files
    Places,       \* directories that may hold a config.json
    ExeDir,       \* the program's own
    DiskMayFill,  \* whether a write may fail half-way
    None

\* The file's texts are told apart from the absence of one.
ASSUME RequestsAssumption ==
    /\ Requests \subseteq PublicConfig
    /\ TextLength \in [Requests -> Nat]
    /\ \A c \in Requests \cup HandEdits : c \notin {None, NoFile, Unreadable}
    /\ NoFile # Unreadable

ASSUME HandEditsAssumption ==
    \A p \in HandEdits : ApplyPartialConfig(DefaultPublicConfig, p) \in PublicConfig

ASSUME PlacesAssumption ==
    /\ ExeDir \in Places
    /\ \A e \in Environments :
          LET env == LoadEnvFiles(e.process, e.files)
          IN  "SIM_TELEMETRY_CONFIG" \in DOMAIN env =>
                  env["SIM_TELEMETRY_CONFIG"] \in Places

VARIABLES
    disk,      \* the text of each config.json
    process,   \* "down", "starting" or "up"
    env, cwd,  \* its environment, with .env, and its working directory
    path,      \* config_path
    config,    \* the configuration in memory
    put,       \* progress of each page's PUT
    size,      \* length of the file at path since it was last truncated
    torn,      \* auxiliary: it is not what this process runs, whose last save of
               \* it got stuck
    promised   \* auxiliary: the settings a page was told are saved there

vars == <<disk, process, env, cwd, path, config, put, size, torn, promised>>

processVars == <<process, env, cwd, path>>

IdlePut == [pc |-> "idle", new |-> None]

FileTexts == Requests \cup HandEdits \cup {NoFile, Unreadable}

Init ==
    /\ disk = [d \in Places |-> NoFile]
    /\ process = "down"
    /\ env = <<>>
    /\ cwd = ExeDir
    /\ path = ExeDir
    /\ config = DefaultPublicConfig
    /\ put = [b \in Browsers |-> IdlePut]
    /\ size = 0
    /\ torn = FALSE
    /\ promised = [d \in Places |-> None]

Saving == \E b \in Browsers : put[b].pc # "idle"

-----------------------------------------------------------------------------
(***************************************************************************)
(* Processes                                                                *)
(***************************************************************************)

\* load_config, once load_env_files has completed the environment.
Start(e, d) ==
    /\ process = "down"
    /\ process' = "starting"
    /\ env' = LoadEnvFiles(e.process, e.files)
    /\ cwd' = d
    /\ path' = ConfigFilePath(env', d, ExeDir, disk)
    /\ config' = LoadConfig(env', disk[path'])
    /\ size' = 0
    /\ torn' = FALSE
    /\ UNCHANGED <<disk, put, promised>>

\* run_http_server: http_socket_addr must parse, and its port be free.
Listen ==
    /\ process = "starting"
    /\ config.http_host \in Addresses
    /\ process' = "up"
    /\ UNCHANGED <<disk, env, cwd, path, config, put, size, torn, promised>>

\* A process that cannot listen, is shut down or killed: what a handler had not
\* written yet stays unwritten.
End ==
    /\ process # "down"
    /\ process' = "down"
    /\ put' = [b \in Browsers |-> IdlePut]
    /\ UNCHANGED <<disk, env, cwd, path, config, size, torn, promised>>

\* A hand-made file, one that is no JSON, or none any more.
EditByHand(d, text) ==
    /\ process = "down"
    /\ disk' = [disk EXCEPT ![d] = text]
    /\ promised' = [promised EXCEPT ![d] = None]
    /\ UNCHANGED <<processVars, config, put, size, torn>>

-----------------------------------------------------------------------------
(***************************************************************************)
(* api_put_config                                                           *)
(***************************************************************************)

PutGoto(b, pc) == put' = [put EXCEPT ![b].pc = pc]

\* Mutant: nobody asks whether the request is valid.
PutBeginsUnchecked(b, new) ==
    /\ process = "up"
    /\ put[b].pc = "idle"
    /\ put' = [put EXCEPT ![b] = [pc |-> "open", new |-> new]]
    /\ UNCHANGED <<disk, processVars, config, size, torn, promised>>

\* The request is valid; the configuration in force tells the path.
PutBegins(b, new) ==
    /\ process = "up"
    /\ put[b].pc = "idle"
    /\ Valid(new)
    /\ put' = [put EXCEPT ![b] = [pc |-> "open", new |-> new]]
    /\ UNCHANGED <<disk, processVars, config, size, torn, promised>>

\* fs::write creates the file or truncates it: an empty text is no JSON.
PutOpensFile(b) ==
    /\ put[b].pc = "open"
    /\ PutGoto(b, "write")
    /\ disk' = [disk EXCEPT ![path] = Unreadable]
    /\ size' = 0
    /\ torn' = TRUE
    /\ promised' = [promised EXCEPT ![path] = None]
    /\ UNCHANGED <<processVars, config>>

\* Mutant: the error is only logged.
PutCannotOpenUnnoticed(b) ==
    /\ put[b].pc = "open"
    /\ PutGoto(b, "replace")
    /\ UNCHANGED <<disk, processVars, config, size, torn, promised>>

\* The directory or the file cannot be created: the request ends.
PutCannotOpen(b) ==
    /\ put[b].pc = "open"
    /\ put' = [put EXCEPT ![b] = IdlePut]
    /\ UNCHANGED <<disk, processVars, config, size, torn, promised>>

\* The length of the file once the text is in it.
Extended(new) == IF size > TextLength[new] THEN size ELSE TextLength[new]

\* The text goes over the one another handler may have written since this one
\* truncated the file; what a longer one leaves behind is no JSON, unless it is
\* the line feed alone.
PutWritesFile(b) ==
    LET new == put[b].new
    IN  /\ put[b].pc = "write"
        /\ PutGoto(b, "replace")
        /\ disk' = [disk EXCEPT
                      ![path] = IF size > TextLength[new] + 1 THEN Unreadable
                                ELSE new]
        /\ size' = Extended(new)
        /\ torn' = FALSE
        /\ UNCHANGED <<processVars, config, promised>>

\* The disk is full: nothing is written, or a part of the text, which is no
\* JSON unless only the line feed is missing.  The page is told.
PutCannotWrite(b) ==
    /\ DiskMayFill
    /\ put[b].pc = "write"
    /\ put' = [put EXCEPT ![b] = IdlePut]
    /\ \/ UNCHANGED <<disk, size, torn>>
       \/ /\ \E text \in {Unreadable, put[b].new} :
                 disk' = [disk EXCEPT ![path] = text]
          /\ size' \in {size, Extended(put[b].new)}
          /\ torn' = TRUE
    /\ promised' = [promised EXCEPT ![path] = None]
    /\ UNCHANGED <<processVars, config>>

\* Memory follows the file, and the page is told that its settings are saved.
PutReplacesConfig(b) ==
    /\ put[b].pc = "replace"
    /\ put' = [put EXCEPT ![b] = IdlePut]
    /\ config' = put[b].new
    /\ promised' = [promised EXCEPT ![path] = put[b].new]
    /\ UNCHANGED <<disk, processVars, size, torn>>

\* The handler is dropped while it waits for the lock of the configuration:
\* memory does not follow, and nobody is told.
PutDropped(b) ==
    /\ put[b].pc = "replace"
    /\ put' = [put EXCEPT ![b] = IdlePut]
    /\ torn' = TRUE
    /\ UNCHANGED <<disk, processVars, config, size, promised>>

PutStep(b) == PutOpensFile(b) \/ PutCannotOpen(b) \/ PutWritesFile(b)
                \/ PutCannotWrite(b) \/ PutReplacesConfig(b) \/ PutDropped(b)

Next ==
    \/ \E e \in Environments, d \in Places : Start(e, d)
    \/ Listen
    \/ End
    \/ \E d \in Places, text \in HandEdits \cup {NoFile, Unreadable} :
           EditByHand(d, text)
    \/ \E b \in Browsers : PutStep(b) \/ \E new \in Requests : PutBegins(b, new)

Spec == Init /\ [][Next]_vars

-----------------------------------------------------------------------------
(***************************************************************************)
(* Properties                                                               *)
(***************************************************************************)

\* Type invariant of the files, the process and the handlers.  A handler that is
\* at work belongs to a process that is up, and has a request the server accepts.
TypeOK ==
    /\ disk \in [Places -> FileTexts]
    /\ process \in {"down", "starting", "up"}
    /\ cwd \in Places /\ path \in Places
    /\ config \in PublicConfig
    /\ put \in [Browsers -> {IdlePut} \cup
                  [pc : {"open", "write", "replace"}, new : Requests]]
    /\ \A b \in Browsers :
          put[b].pc # "idle" => process = "up" /\ Valid(put[b].new)
    /\ size \in Nat
    /\ torn \in BOOLEAN
    /\ promised \in [Places -> Requests \cup {None}]

\* At most one handler has truncated the file and not yet replaced the
\* configuration.  So it is when one page saves; and when any number of them
\* do, one at a time.
Writing(b) == put[b].pc \in {"write", "replace"}
WritesAlone == \A a, b \in Browsers : Writing(a) /\ Writing(b) => a = b

\* README-WINDOWS.md:64-68: saved settings are in config.json, which goes before
\* the environment.  Unless two saves overlap, what a page was last told is
\* saved is what every later process runs that uses this file, in whatever
\* environment it is started and wherever its predecessors ended, until a later
\* save begins or a user edits the file.
SavedSettingsSurvive ==
    process # "down" /\ promised[path] # None => config = promised[path]

\* Unless two saves overlap, a process started again as the running one was would
\* run what this one runs: a save that cannot even open the file leaves memory
\* alone too, and one that can replaces both.  (One that fails half-way
\* destroys the file, and one that is dropped last leaves memory behind it,
\* which is why a torn file is excepted.)
RestartChangesNothing ==
    process = "up" /\ ~Saving /\ ~torn =>
        /\ ConfigFilePath(env, cwd, ExeDir, disk) = path
        /\ LoadConfig(env, disk[path]) = config

\* The layers are checked together: neither a partial file that is valid only
\* beside other defaults, nor a torn or senseless one, makes the server run an
\* invalid configuration, unless its environment alone already does.
RunningConfigIsValid ==
    process # "down" /\ Valid(EnvConfig(env)) => Valid(config)

\* README-WINDOWS.md:64: saving creates or updates config.json.  Pages that save
\* at the same moment may be told that both succeeded, and leave a file that no
\* process can read.
AnsweredSaveIsReadable ==
    process = "up" /\ ~Saving /\ ~torn /\ promised[path] # None =>
        disk[path] # Unreadable
=============================================================================
