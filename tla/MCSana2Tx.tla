----------------------------- MODULE MCSana2Tx -----------------------------
(* Instances of Sana2Tx for TLC. *)
EXTENDS Sana2Tx

CONSTANTS s1, rd, ip, adm
=============================================================================
