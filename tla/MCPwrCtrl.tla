----------------------------- MODULE MCPwrCtrl -----------------------------
(* PwrCtrl with the command thread, BT coexistence and a direct user.      *)
EXTENDS PwrCtrl

CONSTANTS btc, u1
=============================================================================
