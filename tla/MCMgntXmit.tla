----------------------------- MODULE MCMgntXmit -----------------------------
(* Instances of MgntXmit: the command thread sends beacons and frames it   *)
(* wants acknowledged, a user thread the latter, and the receive tasklet   *)
(* answers without waiting.                                                *)
EXTENDS MgntXmit, TLC

CONSTANTS cmd, user, rx

MCKinds == (cmd :> {"wait", "ack"}) @@ (user :> {"ack"}) @@ (rx :> {"plain"})

\* Two contexts that wait.
MCWaiters == (cmd :> {"ack"}) @@ (user :> {"ack"})

\* Only the command thread, which waits for one frame after the other.
MCCmdOnly == cmd :> {"wait", "ack"}

Perms == Permutations(Bufs) \cup Permutations(Calls)
=============================================================================
