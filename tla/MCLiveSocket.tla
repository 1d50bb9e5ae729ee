---------------------------- MODULE MCLiveSocket ----------------------------
\* LiveSocket on a small instance.
EXTENDS LiveSocket
=============================================================================
