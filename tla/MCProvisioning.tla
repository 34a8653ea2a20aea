--------------------------- MODULE MCProvisioning ---------------------------
(***************************************************************************)
(* Three replicas: of one version, whose unique index the documents may    *)
(* violate; with one of a version that adds an index, changes a            *)
(* definition, renames an index or implements an interface without one; or *)
(* of a version that gives a text and a vector index one name.             *)
(***************************************************************************)
EXTENDS Provisioning, TLC

CONSTANTS r1, r2, r3

Ix(k, n, d) == [kind |-> k, name |-> n, definition |-> d]

Version1 == {Ix("classic", "n1", "d1"), Ix("search", "n1", "d1"), Ix("search", "n2", "d1")}
Added    == Version1 \cup {Ix("classic", "n2", "d2"), Ix("vector", "n3", "d1")}
Changed  == (Version1 \ {Ix("search", "n2", "d1")}) \cup {Ix("search", "n2", "d2")}
Renamed  == (Version1 \ {Ix("classic", "n1", "d1")}) \cup {Ix("classic", "n2", "d1")}
OneName  == {Ix("search", "n1", "d1"), Ix("vector", "n1", "d1")}

\* The versions of r1 and r2, and of r3, and what r3's model implements beyond
\* what it advertises.
Deployment(old, new, empty, violated) ==
  [advertised  |-> [r \in Replicas |-> IF r = r3 THEN new ELSE old],
   implemented |-> [r \in Replicas |->
                      IF r = r3 THEN {x.kind : x \in new} \cup empty ELSE {x.kind : x \in old}],
   violated    |-> violated]

Deployments ==
  {Deployment(Version1, v, {}, {}) : v \in {Version1, Added, Changed, Renamed}}
    \cup {Deployment(Version1, Version1, {"vector"}, {}),
          Deployment(Version1, Added, {}, {"d2"}),
          Deployment(OneName, OneName, {}, {})}

Cloud(provider, notFound, there) == [provider |-> provider, notFound |-> notFound, bucket |-> there]

\* Every deployment with a bucket to be made, by either Cloud; and one version
\* with a GCP whose error text is not recognised, with the bucket and without.
MCConfigs ==
  {c @@ d : c \in {Cloud("azure", FALSE, FALSE), Cloud("gcp", TRUE, FALSE)}, d \in Deployments}
    \cup {Cloud("gcp", FALSE, there) @@ Deployment(Version1, Version1, {}, {}) : there \in BOOLEAN}
=============================================================================
