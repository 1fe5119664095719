----------------------------- MODULE MCApSleep -----------------------------
(* Instances of ApSleep: stations in legacy power save, stations with all  *)
(* categories delivery-enabled, and stations with voice enabled only.      *)
EXTENDS ApSleep

McAcOrder == <<"vo", "be">>
McOneAc == <<"be">>
McLegacy == [s \in Stas |-> {}]
McPure == [s \in Stas |-> {"vo", "be"}]
McMixed == [s \in Stas |-> {"vo"}]
=============================================================================
