----------------------------- MODULE Configuration -----------------------------
(***************************************************************************)
(* What the environment variables of a process become.  A list is the      *)
(* sequence of its comma-separated items, without the blanks around them.  *)
(* A process whose variables are refused does not start.                   *)
(***************************************************************************)
EXTENDS Sequences

\* An item of GBT_SERVICE_REGISTRY: what stands before its first colon and
\* after it.  An item without a colon has no worker.
Items == [name : STRING, colon : BOOLEAN, worker : STRING]

\* Settings._split_csv.
SplitCsv(items) == {items[i] : i \in DOMAIN items} \ {""}

\* ServiceRegistry.from_env_string; a blank variable is no item at all.
ValidRegistry(items) ==
  /\ \A i \in DOMAIN items : items[i].colon /\ items[i].name # "" /\ items[i].worker # ""
  /\ \A i, j \in DOMAIN items : items[i].name = items[j].name => i = j

RegistryOf(items) ==
  [name \in {items[i].name : i \in DOMAIN items} |->
     items[CHOOSE i \in DOMAIN items : items[i].name = name].worker]

\* Settings, and what the factories and main demand of each kind of process.
Required(mode) ==
  {"GBT_RUNTIME_MODE", "GBT_ENV", "SERVICE_SECRET_KEY"} \cup
  CASE mode = "receiver" -> {"GBT_WORKER_JOB_NAME"}
    [] mode = "shared-receiver" -> {"GBT_GCP_PROJECT"}
    [] mode = "worker" -> {"GBT_JOB_PAYLOAD"}
    [] mode = "monolith" -> {}

Starts(mode, given, registry) == Required(mode) \subseteq given /\ ValidRegistry(registry)
=============================================================================
