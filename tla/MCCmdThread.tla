---------------------------- MODULE MCCmdThread ----------------------------
(* CmdThread on small sets of commands.                                    *)
EXTENDS CmdThread

CONSTANTS c1, c2, c3
=============================================================================
