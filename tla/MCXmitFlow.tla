----------------------------- MODULE MCXmitFlow -----------------------------
(* Instances of XmitFlow for TLC.                                          *)
EXTENDS XmitFlow, TLC

CONSTANTS be, vo, s1, s2

PrioOne == <<be>>
PrioTwo == <<vo, be>>

Symm == Permutations(Frames) \cup Permutations(Bufs)

====
