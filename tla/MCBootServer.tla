---------------------------- MODULE MCBootServer ----------------------------
(***************************************************************************)
(* BootServer for TLC: the sets of configurations the runs use.            *)
(***************************************************************************)
EXTENDS BootServerRefinement

\* Every SSL provider without a worker, and a worker without SSL.
MixedConfigs   == {c \in ConfigSpace : c.ssl = "none" \/ ~c.temporal}
ManagerConfigs == {c \in ConfigSpace : c.ssl = "manager" /\ ~c.temporal}
=============================================================================
