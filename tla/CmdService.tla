----------------------------- MODULE CmdService -----------------------------
(***************************************************************************)
(* What the command subsystem promises its callers: accepted commands are  *)
(* served one at a time in the order in which they were accepted, each is  *)
(* served once (its handler runs to a result, or it is refused without     *)
(* running), and a synchronous caller is told SUCCESS only for a command   *)
(* whose handler succeeded.  A synchronous caller may give up at any time  *)
(* and is then told FAIL, whatever becomes of its command.                 *)
(***************************************************************************)
EXTENDS Sequences

CONSTANTS Cmds, SyncCmds

VARIABLES
    pending,   \* accepted commands, in the order in which they are served
    outcome,   \* what became of each command
    reply      \* what its caller was told

svars == <<pending, outcome, reply>>

Unserved(c) ==
    /\ outcome[c] = "none"
    /\ \A i \in DOMAIN pending : pending[i] # c

SInit ==
    /\ pending = <<>>
    /\ outcome = [c \in Cmds |-> "none"]
    /\ reply = [c \in Cmds |-> "none"]

Reject(c) ==
    /\ Unserved(c)
    /\ reply[c] = "none"
    /\ outcome' = [outcome EXCEPT ![c] = "refused"]
    /\ reply' = [reply EXCEPT ![c] = "FAIL"]
    /\ UNCHANGED pending

Accept(c) ==
    /\ Unserved(c)
    /\ reply[c] = "none"
    /\ pending' = Append(pending, c)
    /\ UNCHANGED <<outcome, reply>>

Serve(o) ==
    /\ pending # <<>>
    /\ outcome[Head(pending)] = "none"
    /\ outcome' = [outcome EXCEPT ![Head(pending)] = o]
    /\ pending' = Tail(pending)
    /\ UNCHANGED reply

Reply(c, r) ==
    /\ ~Unserved(c)
    /\ reply[c] = "none"
    /\ IF c \in SyncCmds THEN r = "SUCCESS" => outcome[c] = "succeeded"
                         ELSE r = "SUCCESS"
    /\ reply' = [reply EXCEPT ![c] = r]
    /\ UNCHANGED <<pending, outcome>>

SNext ==
    \/ \E c \in Cmds : Reject(c) \/ Accept(c)
    \/ \E o \in {"succeeded", "failed", "refused"} : Serve(o)
    \/ \E c \in Cmds, r \in {"SUCCESS", "FAIL"} : Reply(c, r)

Spec == SInit /\ [][SNext]_svars
=============================================================================
