---------------------------- MODULE MCDlcChannel ----------------------------
(* DlcChannel instantiated for TLC: two nodes A and B, A offering the      *)
(* channel.                                                                 *)
EXTENDS DlcChannel

CONSTANTS A, B

MCParties == {A, B}

\* How many transactions a cheating node may broadcast out of turn
\* (Cheat); a state constraint of the cheater run.
MaxCheats == 1

CheatBound == Cardinality(hist.cheated) <= MaxCheats
====
