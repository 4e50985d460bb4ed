----------------------------- MODULE MCSubChannel -----------------------------
(* Model-checking instance of SubChannel: two nodes, two update indexes.   *)
EXTENDS SubChannel, TLC

CONSTANTS A, B

MCParties == {A, B}
====
