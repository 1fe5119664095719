------------------------------- MODULE MCIps -------------------------------
(* Instances of Ips for TLC.                                               *)
EXTENDS Ips, TLC

CONSTANTS w1, w2, w3, scan, ioctl

AllCallers == {w1, w2}
AllKinds == {w1, w2, w3}
NoDirect == {}
OneDirect == {w3}

\* Each caller its own reason.
OwnReasons == (w1 :> scan) @@ (w2 :> ioctl)

\* One caller with a reason, one without, one that does not wake the card.
MixedReasons == (w1 :> scan) @@ (w2 :> None) @@ (w3 :> ioctl)

\* Two callers with the same reason.
SameReason == (w1 :> ioctl) @@ (w2 :> ioctl)

=============================================================================
