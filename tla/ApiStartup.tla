----------------------------- MODULE ApiStartup -----------------------------
(***************************************************************************)
(* From the environment to the served ports: internal/config reads and     *)
(* checks the settings, run of cmd/api/main.go opens the database,         *)
(* migrates it and builds the services and handlers, whose constructors    *)
(* check their limits again, and Run binds the two ports.  Docker starts a *)
(* process that ended again (restart: unless-stopped); the operator may    *)
(* change the environment of one that is down.                             *)
(*                                                                         *)
(* Texts are what is left of them without the spaces around them: Load     *)
(* trims, and Validate trims again.                                        *)
(***************************************************************************)
EXTENDS Integers

CONSTANTS
    Environments,   \* [variable -> its value, or Unset]
    Unset,
    Malformed,      \* a value that is no number, or no duration, of its width
    ToLower,        \* [log levels as written -> in lower case]
    Socket,         \* [addresses -> the port they stand for]
    MaxChanges,     \* bound: changes of the environment
    MaxFaults       \* bound: crashes, and files and ports that are not to be had

TextSettings   == {"app_env", "public_addr", "internal_addr", "database_path", "log_level"}
NumberSettings == {"shutdown_timeout", "max_log_message_bytes", "max_ingest_body_bytes",
                   "max_ingest_batch_size", "default_page_size", "max_page_size"}

ASSUME EnvironmentsAssumption ==
    \A env \in Environments :
        /\ DOMAIN env = TextSettings \cup NumberSettings
        /\ \A k \in TextSettings : env[k] = Unset \/ env[k] \in STRING
        /\ \A k \in NumberSettings : env[k] \in Int \cup {Unset, Malformed}
ASSUME ValuesAssumption ==
    Unset \notin Int \cup STRING /\ Malformed \notin Int /\ Unset # Malformed
\* What is in lower case already stays as it is.
ASSUME ToLowerAssumption ==
    /\ "info" \in DOMAIN ToLower
    /\ \A env \in Environments : env["log_level"] \in DOMAIN ToLower \cup {Unset}
    /\ \A level \in DOMAIN ToLower :
          ToLower[level] \in DOMAIN ToLower /\ ToLower[ToLower[level]] = ToLower[level]
ASSUME ChangesAssumption == MaxChanges \in Nat /\ MaxFaults \in Nat

-----------------------------------------------------------------------------
(* config.Load.                                                            *)

\* config.Default; sizes in KiB, durations in seconds.
Default ==
    [ k \in TextSettings \cup NumberSettings |->
        CASE k = "app_env"       -> "development"
          [] k = "public_addr"   -> ":8080"
          [] k = "internal_addr" -> ":8081"
          [] k = "database_path" -> "./data/log-platform.db"
          [] k = "log_level"     -> "info"
          [] k = "shutdown_timeout"      -> 10
          [] k = "max_log_message_bytes" -> 64
          [] k = "max_ingest_body_bytes" -> 16384
          [] k = "max_ingest_batch_size" -> 1000
          [] k = "default_page_size"     -> 20
          [] k = "max_page_size"         -> 100 ]

\* stringFromEnv, durationFromEnv, int64FromEnv, intFromEnv.
FromEnv(env) == [k \in DOMAIN Default |-> IF env[k] = Unset THEN Default[k] ELSE env[k]]

Settings(env) == [FromEnv(env) EXCEPT !["log_level"] = ToLower[@]]

Parses(env) == \A k \in NumberSettings : env[k] # Malformed

Validate(c) ==
    /\ \A k \in TextSettings : c[k] # ""
    /\ c["public_addr"] # c["internal_addr"]
    /\ ToLower[c["log_level"]] \in {"debug", "info", "warn", "error"}
    /\ \A k \in NumberSettings : c[k] > 0
    /\ c["default_page_size"] <= c["max_page_size"]

Loads(env) == Parses(env) /\ Validate(Settings(env))

\* Seeded fault: the default page must be smaller than the largest one.
ConstructorsAcceptSmaller(c) ==
    /\ c["max_log_message_bytes"] > 0
    /\ c["max_ingest_body_bytes"] > 0 /\ c["max_ingest_batch_size"] > 0
    /\ c["default_page_size"] > 0 /\ c["max_page_size"] > 0
    /\ c["default_page_size"] < c["max_page_size"]

\* NewIngestionService, NewIngestionHandler and NewQueryService.
ConstructorsAccept(c) ==
    /\ c["max_log_message_bytes"] > 0
    /\ c["max_ingest_body_bytes"] > 0 /\ c["max_ingest_batch_size"] > 0
    /\ c["default_page_size"] > 0 /\ c["max_page_size"] > 0
    /\ c["default_page_size"] <= c["max_page_size"]

-----------------------------------------------------------------------------
VARIABLES
    pc,           \* "down", "open", "migrate", "build", "listen_public",
                  \* "listen_internal" or "serving"
    env,          \* the environment the process is started with
    cfg,          \* what Load made of it
    database,     \* the process has the database open
    schema,       \* [database files -> what has been created in them]
    bound,        \* the ports the process listens on
    refused,      \* "" or what ended the process last
    changes, faults

startupVars == <<pc, env, cfg, database, schema, bound, refused, changes, faults>>

Files == {Settings(e)["database_path"] : e \in Environments}

\* model.Log: the table and its indexes, the unique one on event_id included.
Whole == {"logs", "uidx_logs_event_id", "idx_logs_container_level_logged_at_id",
          "idx_logs_service_logged_at_id", "idx_logs_logged_at_id"}

StartupInit ==
    /\ pc = "down" /\ env \in Environments /\ cfg = Default
    /\ database = FALSE /\ bound = {} /\ refused = ""
    /\ schema = [f \in Files |-> {}]
    /\ changes = 0 /\ faults = 0

File == cfg["database_path"]

Fault == faults < MaxFaults /\ faults' = faults + 1

\* run returns 1: the deferred call closes the database, and Run its listener.
ExitBecauseOf(reason) ==
    /\ pc' = "down" /\ refused' = reason
    /\ database' = FALSE /\ bound' = {}
    /\ UNCHANGED <<env, cfg, schema, changes>>

Change ==
    /\ pc = "down" /\ changes < MaxChanges
    /\ env' \in Environments /\ changes' = changes + 1
    /\ UNCHANGED <<pc, cfg, database, schema, bound, refused, faults>>

Load ==
    /\ pc = "down" /\ Loads(env)
    /\ pc' = "open" /\ cfg' = Settings(env)
    /\ UNCHANGED <<env, database, schema, bound, refused, changes, faults>>

CannotLoad ==
    /\ pc = "down" /\ ~Loads(env)
    /\ ExitBecauseOf("configuration")
    /\ UNCHANGED faults

OpenSQLite ==
    /\ pc = "open"
    /\ pc' = "migrate" /\ database' = TRUE
    /\ UNCHANGED <<env, cfg, schema, bound, refused, changes, faults>>

\* Seeded fault: a database with one index is taken for migrated.
MigrateNewOnly ==
    /\ pc = "migrate"
    /\ IF "logs" \in schema[File] /\ schema[File] # {"logs"}
       THEN pc' = "build" /\ UNCHANGED schema
       ELSE /\ \E part \in Whole \ schema[File] :
                 /\ schema' = [schema EXCEPT ![File] = @ \cup {part}]
                 /\ part # "logs" => "logs" \in schema[File]
            /\ UNCHANGED pc
    /\ UNCHANGED <<env, cfg, database, bound, refused, changes, faults>>

\* AutoMigrate: the table, then the indexes, one statement each; what is
\* there is left as it is.
Migrate ==
    /\ pc = "migrate"
    /\ IF schema[File] = Whole
       THEN pc' = "build" /\ UNCHANGED schema
       ELSE /\ \E part \in Whole \ schema[File] :
                 /\ part # "logs" => "logs" \in schema[File]
                 /\ schema' = [schema EXCEPT ![File] = @ \cup {part}]
            /\ UNCHANGED pc
    /\ UNCHANGED <<env, cfg, database, bound, refused, changes, faults>>

\* The file cannot be opened, or a statement fails.
DatabaseFails ==
    /\ pc \in {"open", "migrate"} /\ Fault
    /\ ExitBecauseOf("database")

Build ==
    /\ pc = "build"
    /\ IF ConstructorsAccept(cfg)
       THEN pc' = "listen_public" /\ UNCHANGED <<env, cfg, database, schema, bound, refused, changes>>
       ELSE ExitBecauseOf("constructor")
    /\ UNCHANGED faults

Listens(addr) == bound' = bound \cup {Socket[cfg[addr]]}

BindPublic ==
    /\ pc = "listen_public"
    /\ pc' = "listen_internal" /\ Listens("public_addr")
    /\ UNCHANGED <<env, cfg, database, schema, refused, changes, faults>>

BindInternal ==
    /\ pc = "listen_internal"
    /\ IF Socket[cfg["internal_addr"]] \in bound
       THEN ExitBecauseOf("port")
       ELSE /\ pc' = "serving" /\ Listens("internal_addr")
            /\ UNCHANGED <<env, cfg, database, schema, refused, changes>>
    /\ UNCHANGED faults

\* Another process has the port.
PortTaken ==
    /\ pc \in {"listen_public", "listen_internal"} /\ Fault
    /\ ExitBecauseOf("port")

\* A signal before NotifyContext, a kill, or the end of Run (ServerLifecycle).
Ends ==
    /\ pc # "down" /\ Fault
    /\ ExitBecauseOf("ended")

-----------------------------------------------------------------------------
Start == Load \/ OpenSQLite \/ Migrate \/ Build \/ BindPublic \/ BindInternal

StartupNext == Start \/ Change \/ CannotLoad \/ DatabaseFails \/ PortTaken \/ Ends

StartupSpec == StartupInit /\ [][StartupNext]_startupVars

\* The process runs, and Docker starts it whenever it is down.
StartupLiveSpec == StartupSpec /\ WF_startupVars(Start)

-----------------------------------------------------------------------------
Configurations == {Settings(e) : e \in {x \in Environments : Loads(x)}} \cup {Default}

\* Type correctness: the configuration in use is one Load accepts.
StartupTypeOK ==
    /\ pc \in {"down", "open", "migrate", "build", "listen_public", "listen_internal", "serving"}
    /\ env \in Environments /\ cfg \in Configurations
    /\ database \in BOOLEAN
    /\ schema \in [Files -> SUBSET Whole]
    /\ refused \in {"", "configuration", "database", "constructor", "port", "ended"}
    /\ changes \in 0..MaxChanges /\ faults \in 0..MaxFaults

\* What Load accepts no constructor refuses: a wrong limit is reported before
\* the database is opened, never after it was created and migrated.
NoConstructorRefuses == refused # "constructor"

\* Whatever a killed process left of a migration, requests are served on the
\* table with all its indexes, of which the unique one makes ingestion
\* idempotent.
ServesOnWholeSchema == pc = "serving" => database /\ schema[File] = Whole

\* The served configuration keeps the assumptions of the other modules, and
\* the two servers have a port each, also where two different addresses are
\* one port.
ServesWithinLimits ==
    pc = "serving" =>
        /\ cfg["default_page_size"] \in 1..cfg["max_page_size"]
        /\ cfg["max_ingest_batch_size"] > 0 /\ cfg["max_log_message_bytes"] > 0
        /\ Socket[cfg["public_addr"]] # Socket[cfg["internal_addr"]]
        /\ bound = {Socket[cfg["public_addr"]], Socket[cfg["internal_addr"]]}

\* An environment that Load accepts and whose addresses are two ports comes
\* to be served, after crashes at any step, unless it is changed.
AcceptedIsServed ==
    \A e \in Environments :
        (/\ env = e /\ Loads(e)
         /\ Socket[Settings(e)["public_addr"]] # Socket[Settings(e)["internal_addr"]])
            ~> (pc = "serving" \/ env # e)
=============================================================================
