------------------------------ MODULE AuditLog ------------------------------
(***************************************************************************)
(* What the monitor promises its users, whatever groups it forms on the    *)
(* way: an audit record names commands that are reported here and nowhere  *)
(* else, one of them at least has ended, and the path actions in it are    *)
(* exactly those that were delivered for these commands.                   *)
(*                                                                         *)
(* Module Monitor implements this specification.                           *)
(***************************************************************************)
EXTENDS FiniteSets

CONSTANTS Command, PathAction

VARIABLES
    open,      \* the path actions of each command that is not reported yet
    ended,     \* those of these commands that have ended
    records    \* the records made so far

logVars == <<open, ended, records>>

Restricted(f, S) == [c \in S |-> f[c]]

(* Some records are made of the commands in o, of which e have ended.      *)
Publish(o, e) ==
    LET new == records' \ records
        gone == UNION {r.cmds : r \in new}
    IN  /\ records \subseteq records'
        /\ \A r \in new : /\ r.cmds \subseteq DOMAIN o
                          /\ r.cmds \cap e # {}
                          /\ r.pas = UNION {o[c] : c \in r.cmds}
        /\ \A r1, r2 \in new : r1 # r2 => r1.cmds \cap r2.cmds = {}
        /\ open' = Restricted(o, DOMAIN o \ gone)
        /\ ended' = e \ gone

(* A command begins; it has not been heard of before.                      *)
Announce(c) ==
    /\ c \notin DOMAIN open
    /\ \A r \in records : c \notin r.cmds
    /\ Publish([x \in DOMAIN open \cup {c} |-> IF x = c THEN {} ELSE open[x]], ended)

(* Path actions of a command that goes on.                                 *)
Deliver(c, S) ==
    /\ c \in DOMAIN open
    /\ open' = [open EXCEPT ![c] = @ \cup S]
    /\ UNCHANGED <<ended, records>>

(* A command ends, with its last path actions, and with it those that the  *)
(* same process ran before.                                                *)
Finish(c, S, E) ==
    /\ c \in E
    /\ E \subseteq DOMAIN open
    /\ Publish([open EXCEPT ![c] = @ \cup S], ended \cup E)

LogInit ==
    /\ open = [c \in {} |-> {}]
    /\ ended = {}
    /\ records = {}

LogNext ==
    \E c \in Command :
        \/ Announce(c)
        \/ \E S \in SUBSET PathAction : Deliver(c, S)
        \/ \E S \in SUBSET PathAction, E \in SUBSET DOMAIN open : Finish(c, S, E)

LogSpec == LogInit /\ [][LogNext]_logVars
=============================================================================
