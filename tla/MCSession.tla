----------------------------- MODULE MCSession -----------------------------
(***************************************************************************)
(* Session on small instances.                                             *)
(***************************************************************************)
EXTENDS Session, TLC

CONSTANTS a1, a2

MCAudits == {a1, a2}

(* The usual settings, and one after the other what differs from them.     *)
Usual == [mode |-> "full", strict |-> FALSE, sync |-> FALSE, activation |-> FALSE,
          reuse |-> FALSE, prior |-> TRUE, log |-> FALSE]
MCOptions ==
    {[Usual EXCEPT !.mode = m] : m \in Modes}
    \cup {[Usual EXCEPT !.strict = TRUE], [Usual EXCEPT !.sync = TRUE], [Usual EXCEPT !.log = TRUE]}
    \cup {[Usual EXCEPT !.activation = TRUE, !.reuse = b] : b \in BOOLEAN}
    \cup {[Usual EXCEPT !.activation = TRUE, !.prior = FALSE]}

ActivationOnly == {[Usual EXCEPT !.activation = TRUE]}
=============================================================================
