----------------------------- MODULE MCCluster -----------------------------
\* Cluster on a small instance.
EXTENDS Cluster
=============================================================================
