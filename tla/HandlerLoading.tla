----------------------------- MODULE HandlerLoading ----------------------------
(***************************************************************************)
(* How a process gets at the classes that handle its queues and topics:    *)
(* loadModulesFromPatterns imports the files that JOB_HANDLERS or          *)
(* KAFKA_CONSUMERS name, and the decorators of the imported classes enter  *)
(* them in a registry.                                                     *)
(*                                                                         *)
(* A handler is a class in a module of its own, which exists as a file     *)
(* <<"src", h>> (TypeScript) or <<"dist", h>> (compiled).  A pattern is a  *)
(* record of the tree it points to and the handlers it matches there.  A   *)
(* deployment says what the process runs in:                               *)
(*   runtime   "ts-node" (yarn dev) or "node" (node dist/index)            *)
(*   trees     which of src and dist exist in the working directory        *)
(*   nested    the working directory lies below a directory named src      *)
(*   broken    handlers whose module throws when it is imported            *)
(***************************************************************************)

Glob(tree, handlers, d) == IF tree \in d.trees THEN {tree} \X handlers ELSE {}

\* A plausible bug: no second look in dist.
WithoutDist(p, d) == Glob(p.tree, p.handlers, d)

\* resolvePattern looks in dist only if src has nothing; it replaces the first
\* /src/ of the absolute path, which is the wrong one below a directory src.
ResolvePattern(p, d) ==
    LET matches == Glob(p.tree, p.handlers, d)
    IN  IF matches = {} /\ p.tree = "src" /\ ~d.nested
        THEN Glob("dist", p.handlers, d)
        ELSE matches

\* import(file): node alone cannot import TypeScript.
Imports(file, d) ==
    /\ file[1] = "src" => d.runtime = "ts-node"
    /\ file[2] \notin d.broken

Resolved(patterns, d) == UNION {ResolvePattern(p, d) : p \in patterns}

\* loadModulesFromPatterns: a file that fails is logged and skipped, a pattern
\* without matches too.
LoadModulesFromPatterns(patterns, d) ==
    {file \in Resolved(patterns, d) : Imports(file, d)}

\* The registry after the imports: getQueueWorkers() or getKafkaConsumers().
Registered(patterns, d) == {file[2] : file \in LoadModulesFromPatterns(patterns, d)}
================================================================================
