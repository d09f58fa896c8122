------------------------------- MODULE Environment -----------------------------
(***************************************************************************)
(* What libs/env makes of the environment variables.  An environment is a  *)
(* function from the names of the variables that are set to texts; a text  *)
(* is the sequence of its words between commas, and a word may have spaces *)
(* around it.                                                              *)
(*                                                                         *)
(* Only the options that other modules tell apart are here; ports, paths,  *)
(* credentials and times are merely required to be set.                    *)
(***************************************************************************)
EXTENDS Sequences, SequencesExt

Word(w) == [word |-> w, padded |-> FALSE]
Padded(w) == [word |-> w, padded |-> TRUE]
Text(w) == <<Word(w)>>
Empty == Text("")

\* The variables that getOsEnv() reads while the module env is evaluated.
Required ==
    {"JOB_DEFINITIONS", "PROMISE_CONCURRENCY", "PROMISE_RETRY_TIME",
     "APP_NAME", "APP_HOST", "APP_EXTERNAL_PORT", "APP_SCHEMA", "APP_ROUTE_PREFIX",
     "APP_EXTERNAL_ROUTE_PREFIX", "APP_BE_ROUTE_PREFIX", "APP_PORT", "LOG_LEVEL",
     "MONGODB_URI",
     "DB_TYPE", "DB_HOST", "DB_PORT", "DB_USERNAME", "DB_PASSWORD", "DB_DATABASE",
     "DB_SCHEMA", "DB_SYNCHRONIZE", "DB_LOGGING", "DB_LOGGER",
     "SWAGGER_ENABLED", "SWAGGER_ROUTE", "SWAGGER_API_DOCS",
     "MONITOR_ENABLED", "MONITOR_ROUTE", "MONITOR_USERNAME", "MONITOR_PASSWORD",
     "GRAPHQL_EDITOR", "GRAPHQL_PATH", "GRAPHQL_SUBSCRIPTION_PATH",
     "REDIS_NODES", "REDIS_DEFAULT_EXPIRATION_TIME_IN_SECONDS",
     "IMAGE_UPLOADER_MAX_SIZE_IN_BYTES",
     "KEYCLOAK_CLIENT_ID", "KEYCLOAK_CLIENT_SECRET", "KEYCLOAK_SERVER_URL",
     "KEYCLOAK_REALM"}

\* A variable that is missing, rather than empty, ends the process on import.
Starts(raw) == Required \subseteq DOMAIN raw

\* getOsEnvOptional(key) || default
Given(raw, key) == key \in DOMAIN raw /\ raw[key] # Empty
OrElse(raw, key, default) == IF Given(raw, key) THEN raw[key] ELSE default

\* toBool(value || 'false')
IsTrue(raw, key) == OrElse(raw, key, Empty) = Text("true")

\* toArray(value).filter(Boolean): the words are not trimmed.
Listed(raw, key) == ToSet(OrElse(raw, key, <<>>)) \ {Word("")}

\* SERVER_TYPE loses its spaces, unlike the lists.
ServerTypes(raw) ==
    {w.word : w \in ToSet(OrElse(raw, "SERVER_TYPE", Text("producer")))}

\* The types that Kernel's providers ask for.
Allowed(raw) == ServerTypes(raw) \cap {"producer", "worker", "consumer"}

\* KafkaProvider.register goes on.
KafkaUsable(raw) ==
    /\ IsTrue(raw, "KAFKA_ENABLED")
    /\ "consumer" \in ServerTypes(raw)
    /\ Given(raw, "KAFKA_BROKERS")

JobDefinitions(raw) == Listed(raw, "JOB_DEFINITIONS")
EnabledConsumers(raw) == Listed(raw, "KAFKA_ENABLED_CONSUMERS")
ConsumerFromBeginning(raw) == IsTrue(raw, "KAFKA_CONSUMER_FROM_BEGINNING")
================================================================================
