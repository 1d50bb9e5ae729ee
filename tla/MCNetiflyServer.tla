-------------------------- MODULE MCNetiflyServer --------------------------
\* NetiflyServer on a small instance.
EXTENDS NetiflyServer, TLC

ConnSymmetry == Permutations(Conn)
UserSymmetry == Permutations(User)
UserConnSymmetry == ConnSymmetry \cup UserSymmetry
=============================================================================
