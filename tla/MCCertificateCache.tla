------------------------- MODULE MCCertificateCache -------------------------
EXTENDS CertificateCache, TLC

CONSTANTS r1, r2, h1, h2, tok

\* One challenge request, to the replica without the application.
MCChallenges == {<<r2, tok>>}

\* Both clouds and both starts, with the replicas on one host or on two.
OneHost  == [r \in Replicas |-> h1]
TwoHosts == (r1 :> h1) @@ (r2 :> h2)
SharedConfigs == {c \in ConfigSpace : c.bucketSet /\ c.host \in {OneHost, TwoHosts}}

\* The same beside an application or a challenge request, both of them with an
\* empty bucket, and no bucket at all.
MCConfigs ==
  {c \in SharedConfigs : c.others # {} /\ (c.others = Others => c.first = 0)} \cup
    [provider : {"gcp"}, host : {OneHost}, bucketSet : {FALSE}, first : {0}, others : {Others}]

\* A certificate in the bucket, and no two replicas on one host.
ApartConfigs == {c \in SharedConfigs : c.first = 1 /\ c.host = TwoHosts}

\* An empty bucket.
EmptyConfigs == {c \in SharedConfigs : c.first = 0}
=============================================================================
