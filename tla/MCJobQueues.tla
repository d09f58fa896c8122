------------------------------ MODULE MCJobQueues ------------------------------
(***************************************************************************)
(* JobQueues with two workers, one job, three attempts and three           *)
(* disturbances, in several ways to deploy the workers.                    *)
(***************************************************************************)
EXTENDS JobQueues

MCQueueOf == [j \in Jobs |-> "q1"]
MCHandlers == {[tree |-> "src", handlers |-> {"q1", "q2"}]}

Deployed(runtime, trees, nested, broken) ==
    [runtime |-> runtime, trees |-> trees, nested |-> nested, broken |-> broken]

\* yarn dev, and node dist/index without src, each with a broken module.
MCDeployments ==
    {Deployed("ts-node", {"src"}, FALSE, {"q2"}),
     Deployed("node", {"dist"}, FALSE, {"q2"})}
MCDefinitionLists == {{}, {"q2"}}

\* The image that the Dockerfile builds holds src beside dist.
MCImage == {Deployed("node", {"src", "dist"}, FALSE, {})}
================================================================================
