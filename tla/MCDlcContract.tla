---------------------------- MODULE MCDlcContract ----------------------------
(* DlcContract instantiated for TLC: nodes A and B, each offering one      *)
(* contract to the other.                                                  *)
EXTENDS DlcContract, TLC

CONSTANTS A, B, C1, C2

MCParties == {A, B}
MCContracts == {C1, C2}
MCOfferParty == (C1 :> A) @@ (C2 :> B)
====
