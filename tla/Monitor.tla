------------------------------- MODULE Monitor -------------------------------
(***************************************************************************)
(* The monitor's table of open audits: mon_record() of src/mon.c and the   *)
(* CommandAction (CA) operations of src/ca.c it is built from.             *)
(*                                                                         *)
(* The monitor is a single thread.  Auditors connect to it, send lines and *)
(* block until it answers (SOA) or closes the connection (everything else),*)
(* so the content of one connection is handled in one step:                *)
(*    SOA(k, ...)      a start-of-audit line for the command k;            *)
(*    Data(k, S, eoa)  the path actions S of k, then, when the process     *)
(*                     exits, its end-of-audit line.                       *)
(*                                                                         *)
(* A command is named by its key (ccode, depth, cmdid).  A path action is  *)
(* an opaque token: which file it is about does not matter here, only in   *)
(* which audit record it is finally reported.                              *)
(***************************************************************************)
EXTENDS Integers, FiniteSets

CONSTANTS
    Code,         \* command codes (ccode: hash of program, line and directory)
    NoCode,       \* the null pccode of a top-level command
    Pid,          \* process ids, the cmdid of the commands they run
    Depths,       \* the depths of the command tree
    NoKey,        \* the null pointer
    PA,           \* path actions
    AggStyle,     \* Aggregation.Style: "+" one record, "-" none, "re" by REs
    BreakRE,      \* the codes whose program or line matches a *.Break.RE ...
    StrongRE,     \* ... a *.Strong.RE ...
    WeakRE        \* ... and a *.Weak.RE property

Key == [code : Code, depth : Depths, cmdid : Pid]

ASSUME ConstantsOK ==
    /\ Depths \subseteq Nat
    /\ NoKey \notin Key
    /\ NoCode \notin Code
    /\ AggStyle \in {"+", "-", "re"}
    /\ BreakRE \subseteq Code /\ StrongRE \subseteq Code /\ WeakRE \subseteq Code

VARIABLES
    audits,       \* AuditHash: the open audits, a function from their keys
    log,          \* the audit records processed so far (uploaded, written)
    seen,         \* the path actions received so far
    lost,         \* the path actions dropped with a "PA skew" warning
    skew          \* the commands whose EOA was dropped with "EOA skew"

vars == <<audits, log, seen, lost, skew>>

(* A CommandAction.  "leads" says that ca_group_hash is not null and       *)
(* "group" is its content; the leader itself is not put in it.             *)
CA == [pccode : Code \cup {NoCode}, leader : Key \cup {NoKey},
       leads : BOOLEAN, group : SUBSET Key,
       strong : BOOLEAN, closed : BOOLEAN, raw : SUBSET PA]

(* What _mon_process_ca() sends to the server and the output file.         *)
Record == [ldr : Key, subs : SUBSET Key, pas : SUBSET PA]

Commands(r) == {r.ldr} \cup r.subs

-----------------------------------------------------------------------------
(* ca.c *)

ca_new(pccode) ==
    [pccode |-> pccode, leader |-> NoKey, leads |-> FALSE, group |-> {},
     strong |-> FALSE, closed |-> FALSE, raw |-> {}]

ca_has_leader(t, k) == t[k].leader # NoKey

ca_start_group(t, k, strength) ==
    [t EXCEPT ![k].leads = TRUE, ![k].group = {},
              ![k].leader = k, ![k].strong = strength]

(* Mutant: the wrong key goes into the group hash.                         *)
AggregateWrongKey(t, l, k) ==
    [t EXCEPT ![l].group = @ \cup {t[k].leader}, ![k].leader = l]

ca_aggregate(t, l, k) ==
    [t EXCEPT ![l].group = @ \cup {k}, ![k].leader = l]

(* Mutant: the path actions of the group are not merged in.                *)
BundleUnmerged(t, k) == [ldr |-> k, subs |-> t[k].group \ {k}, pas |-> t[k].raw]

(* Mutant: the record does not name the commands of the group.             *)
BundleUnnamed(t, k) ==
    [ldr |-> k, subs |-> {}, pas |-> t[k].raw \cup UNION {t[s].raw : s \in t[k].group}]

(* The record ca_publish() makes of k: what its group holds is merged in.  *)
Bundle(t, k) ==
    [ldr |-> k, subs |-> t[k].group \ {k},
     pas |-> t[k].raw \cup UNION {t[s].raw : s \in t[k].group}]

(* Mutant: only the leader is marked as processed.                         *)
BundledLeader(t, k) == {k}

(* The processed audits that _mon_clean_up_ca_table() then deletes.        *)
Bundled(t, k) == {k} \cup t[k].group

(* A table without the processed audits.                                   *)
_mon_clean_up_ca_table(t, processed) ==
    [k \in DOMAIN t \ processed |-> t[k]]

(* ca_disband(): members that are closed become records of their own, the  *)
(* others go on outside of any group.  The leader's strength is kept.      *)
Members(t, l) == {l} \cup t[l].group

(* Mutant: closed members are released like the others.                    *)
NoneDisbanded(t, l) == {}

Disbanded(t, l) == {m \in Members(t, l) : t[m].closed}

AloneRecord(t, k) == [ldr |-> k, subs |-> {}, pas |-> t[k].raw]

(* Mutant: the members keep their leader pointer.                          *)
DisbandLeaderOnly(t, l) ==
    [t EXCEPT ![l].leader = NoKey, ![l].leads = FALSE, ![l].group = {}]

ca_disband(t, l) ==
    [k \in DOMAIN t |->
        IF k = l THEN [t[k] EXCEPT !.leader = NoKey, !.leads = FALSE, !.group = {}]
        ELSE IF k \in t[l].group THEN [t[k] EXCEPT !.leader = NoKey]
        ELSE t[k]]

-----------------------------------------------------------------------------
(* mon_record(), SOA *)

(* Mutant: only the command that was exec'ed over is looked for.           *)
FindExecPred(t, k, pccode, pcmdid) ==
    LET exec == [code |-> pccode, depth |-> k.depth - 1, cmdid |-> k.cmdid]
    IN  IF k.depth # 0 /\ exec \in DOMAIN t THEN exec ELSE NoKey

(* The predecessor: the command k was exec'ed over, else the one that      *)
(* forked the process that runs k, else one of the same depth.             *)
FindPred(t, k, pccode, pcmdid) ==
    LET exec == [code |-> pccode, depth |-> k.depth - 1, cmdid |-> k.cmdid]
        fork == [code |-> pccode, depth |-> k.depth - 1, cmdid |-> pcmdid]
        same == [code |-> pccode, depth |-> k.depth, cmdid |-> pcmdid]
    IN  IF k.depth = 0 THEN NoKey
        ELSE IF exec \in DOMAIN t THEN exec
        ELSE IF fork \in DOMAIN t THEN fork
        ELSE IF same \in DOMAIN t THEN same
        ELSE NoKey

(* How the command takes part in aggregation, given its predecessor.       *)
Grouped(t, pred) == pred # NoKey /\ ca_has_leader(t, pred)

AggLevel(t, k, pred) ==
    IF AggStyle = "+" THEN "STRONG"
    ELSE IF AggStyle = "-" THEN "NONE"
    ELSE IF Grouped(t, pred) /\ k.code \in BreakRE THEN "BREAK"
    ELSE IF Grouped(t, pred) /\ t[t[pred].leader].strong THEN "STRONG"
    ELSE IF k.code \in StrongRE THEN "STRONG"
    ELSE IF k.code \in WeakRE THEN "WEAK"
    ELSE "NEUTRAL"

(* Mutants: strong groups are as easily broken up as weak ones; only a     *)
(* break match breaks a group up.                                          *)
JoinsNeutral(t, k, pred) == Grouped(t, pred) /\ AggLevel(t, k, pred) = "NEUTRAL"

BreaksUpOnMatch(t, k, pred) ==
    Grouped(t, pred) /\ ~JoinsNeutral(t, k, pred) /\ AggLevel(t, k, pred) = "BREAK"

(* Does the SOA of k join its predecessor's group, or break that group up? *)
Joins(t, k, pred) ==
    /\ Grouped(t, pred)
    /\ \/ AggLevel(t, k, pred) # "BREAK" /\ t[t[pred].leader].strong
       \/ AggLevel(t, k, pred) = "NEUTRAL"

BreaksUp(t, k, pred) ==
    /\ Grouped(t, pred)
    /\ ~Joins(t, k, pred)
    /\ AggLevel(t, k, pred) \in {"BREAK", "STRONG", "WEAK"}

Starts(t, k, pred) ==
    /\ ~Joins(t, k, pred)
    /\ AggLevel(t, k, pred) \in {"STRONG", "WEAK"}

(* The table with k inserted and put in its place among the groups.        *)
Placed(t, k, pccode, pred) ==
    LET broken == IF BreaksUp(t, k, pred) THEN ca_disband(t, t[pred].leader) ELSE t
        with == [x \in DOMAIN t \cup {k} |->
                    IF x = k THEN ca_new(pccode) ELSE broken[x]]
    IN  IF Joins(t, k, pred) THEN ca_aggregate(with, t[pred].leader, k)
        ELSE IF Starts(t, k, pred)
             THEN ca_start_group(with, k, AggLevel(t, k, pred) = "STRONG")
             ELSE with

Processed(t, k, pred) ==
    IF BreaksUp(t, k, pred) THEN Disbanded(t, t[pred].leader) ELSE {}

HandleSOA(k, pccode, pcmdid) ==
    LET pred == FindPred(audits, k, pccode, pcmdid)
        done == Processed(audits, k, pred)
    IN  /\ audits' = _mon_clean_up_ca_table(Placed(audits, k, pccode, pred), done)
        /\ log' = log \cup {AloneRecord(audits, m) : m \in done}
        /\ UNCHANGED <<seen, lost, skew>>

-----------------------------------------------------------------------------
(* mon_record(), path actions and EOA *)

Recorded(t, k, S) == [t EXCEPT ![k].raw = @ \cup S]

(* The command that k was exec'ed over: same process, one level up.        *)
Up(t, k) == [code |-> t[k].pccode, depth |-> k.depth - 1, cmdid |-> k.cmdid]

(* Mutant: only the command that sent the EOA is closed.                   *)
NoUpstream(t, k) == {k}

(* The audits an EOA of k closes: "swim upstream" through the commands     *)
(* that were overlaid by exec.  It is the least set holding k and, with    *)
(* every audit in it, the open audit it was exec'ed over.                  *)
Upstream(t, k) ==
    {j \in DOMAIN t : \A S \in SUBSET DOMAIN t :
        (k \in S /\ \A x \in S : Up(t, x) \in DOMAIN t => Up(t, x) \in S) => j \in S}

(* Those of them outside of any group are published at once.               *)
Singles(t, k) == {c \in Upstream(t, k) : ~ca_has_leader(t, c)}

Closed(t, k) ==
    [c \in DOMAIN t |-> IF c \in Upstream(t, k) THEN [t[c] EXCEPT !.closed = TRUE]
                                                ELSE t[c]]

(* The group of k is published when its leader is closed, even with audits *)
(* pending in it ("audit group closed with %d pending audits").            *)
GroupReady(t, k) == ca_has_leader(t, k) /\ Closed(t, k)[t[k].leader].closed

Heads(t, k) == Singles(t, k) \cup (IF GroupReady(t, k) THEN {t[k].leader} ELSE {})

Ended(t, k) == _mon_clean_up_ca_table(Closed(t, k), UNION {Bundled(t, h) : h \in Heads(t, k)})

EndRecords(t, k) == {Bundle(t, h) : h \in Heads(t, k)}

HandleData(k, S, eoa) ==
    /\ seen' = seen \cup S
    /\ IF k \in DOMAIN audits
       THEN LET t == Recorded(audits, k, S)
            IN  /\ audits' = IF eoa THEN Ended(t, k) ELSE t
                /\ log' = IF eoa THEN log \cup EndRecords(t, k) ELSE log
                /\ UNCHANGED <<lost, skew>>
       ELSE /\ lost' = lost \cup S
            /\ skew' = IF eoa THEN skew \cup {k} ELSE skew
            /\ UNCHANGED <<audits, log>>

-----------------------------------------------------------------------------
(* What the monitor relies on.  An SOA names a command that was never      *)
(* announced before ("double delivery" otherwise) and comes before the SOA *)
(* of any command that was exec'ed over it; a path action is sent once.    *)
(* AuditedBuild shows that the auditors keep to this.                      *)
Reported == UNION {Commands(r) : r \in log}

Fresh(k) == /\ k \notin DOMAIN audits
            /\ k \notin Reported
            /\ \A x \in DOMAIN audits : Up(audits, x) # k

SOA(k, pccode, pcmdid) == Fresh(k) /\ HandleSOA(k, pccode, pcmdid)

Data(k, S, eoa) == S \cap seen = {} /\ HandleData(k, S, eoa)

Init ==
    /\ audits = [k \in {} |-> ca_new(NoCode)]
    /\ log = {}
    /\ seen = {}
    /\ lost = {}
    /\ skew = {}

Next ==
    \E k \in Key :
        \/ \E pccode \in Code \cup {NoCode}, pcmdid \in Pid : SOA(k, pccode, pcmdid)
        \/ \E S \in SUBSET PA, eoa \in BOOLEAN : Data(k, S, eoa)

Spec == Init /\ [][Next]_vars

-----------------------------------------------------------------------------
(* Properties *)

(* Every audit in AuditHash and every record made of one has the shape     *)
(* that ca.c gives it.                                                     *)
TypeOK ==
    /\ DOMAIN audits \subseteq Key
    /\ audits \in [DOMAIN audits -> CA]
    /\ log \subseteq Record
    /\ seen \subseteq PA
    /\ lost \subseteq PA
    /\ skew \subseteq Key

(* The leader pointers and the group hashes agree: a leader pointer never  *)
(* dangles into an audit that was published and freed, it leads to an      *)
(* audit that has a group hash and leads itself, that hash holds exactly   *)
(* the other audits that point to it, and without aggregation there is no  *)
(* group.  ca_aggregate(), ca_disband() and the use of "ldr" after the     *)
(* closing loop of mon_record() depend on it.                              *)
LeaderOK(t, k) ==
    LET l == t[k].leader IN
    l # NoKey => /\ AggStyle # "-"
                 /\ l \in DOMAIN t
                 /\ t[l].leads
                 /\ k # l => k \in t[l].group

GroupOK(t, k) ==
    /\ t[k].leads => t[k].leader = k
    /\ ~t[k].leads => t[k].group = {}
    /\ \A m \in t[k].group : m # k /\ m \in DOMAIN t /\ t[m].leader = k

GroupIntegrity ==
    \A k \in DOMAIN audits : LeaderOK(audits, k) /\ GroupOK(audits, k)

(* An audit that is closed but not yet reported waits for the leader of    *)
(* its group, and that leader is still open: no EOA, exec chain or group   *)
(* that is broken up leaves a finished audit behind that nothing will ever *)
(* publish ("%d audits left over").                                        *)
WaitsForLeader(t, k) ==
    t[k].closed => t[k].leader # NoKey /\ ~t[t[k].leader].closed

ClosedWaitsForLeader ==
    \A k \in DOMAIN audits : WaitsForLeader(audits, k)

(* Along the commands one process has exec'ed, an audit outside of any     *)
(* group was exec'ed over audits outside of any group, and one in a group  *)
(* over audits of that group or of none.  It is what makes                 *)
(* ClosedWaitsForLeader inductive: the one group an EOA looks at is the    *)
(* only group that the audits it closes can belong to.                     *)
SharesGroup(t, k) ==
    Up(t, k) \in DOMAIN t => t[Up(t, k)].leader \in {NoKey, t[k].leader}

ExecChainSharesGroup ==
    \A k \in DOMAIN audits : SharesGroup(audits, k)

(* Every command is reported in at most one record, on its own or within a *)
(* group, and an audit that is still open has not been reported.           *)
ReportedOnce ==
    /\ \A r1, r2 \in log : r1 # r2 => Commands(r1) \cap Commands(r2) = {}
    /\ DOMAIN audits \cap Reported = {}

(* Every path action received is in exactly one place: in one open audit,  *)
(* in one record, or dropped with a warning.  Merging, breaking up and     *)
(* publishing groups neither loses nor duplicates any.                     *)
EachPathActionOnce ==
    /\ seen = lost \cup UNION ({audits[k].raw : k \in DOMAIN audits}
                               \cup {r.pas : r \in log})
    /\ \A r \in log : r.pas \cap lost = {}
    /\ \A r1, r2 \in log : r1 # r2 => r1.pas \cap r2.pas = {}
    /\ \A k \in DOMAIN audits :
          /\ audits[k].raw \cap lost = {}
          /\ \A r \in log : audits[k].raw \cap r.pas = {}
          /\ \A j \in DOMAIN audits : j # k => audits[j].raw \cap audits[k].raw = {}

(* "Strong aggregations are never disbanded except in the case of an       *)
(* explicit break match": a strong group keeps its members until it is     *)
(* reported as a whole, or the SOA of a command that matches a break RE    *)
(* is received.                                                            *)
StrongGroupKept(l) ==
    \/ /\ l \in DOMAIN audits'
       /\ audits'[l].leads
       /\ audits[l].group \subseteq audits'[l].group
    \/ \E r \in log' : r.ldr = l /\ r.subs = audits[l].group
    \/ \E k \in DOMAIN audits' \ DOMAIN audits : k.code \in BreakRE

StrongGroupHolds ==
    [][\A l \in DOMAIN audits :
          audits[l].leads /\ audits[l].strong => StrongGroupKept(l)]_vars

(* The monitor keeps the promise of module AuditLog, however groups are    *)
(* formed, joined and broken up.                                           *)
Promise == INSTANCE AuditLog WITH
    Command <- Key,
    PathAction <- PA,
    open <- [k \in DOMAIN audits |-> audits[k].raw],
    ended <- {k \in DOMAIN audits : audits[k].closed},
    records <- {[cmds |-> Commands(r), pas |-> r.pas] : r \in log}

ImplementsAuditLog == Promise!LogSpec
=============================================================================
