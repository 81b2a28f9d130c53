-------------------------- MODULE MCConnectionPool --------------------------
(* Instances of ConnectionPool for TLC: the .cfg files give the sizes; the  *)
(* getters are interchangeable, so safety runs may use their symmetry.      *)
EXTENDS ConnectionPool, TLC

GetterSymmetry == Permutations(Getters)
=============================================================================
