---------------------------- MODULE AuditedBuild ----------------------------
(***************************************************************************)
(* A build under audit: the processes of the build, each with the auditor  *)
(* library in it (src/libcommon.c, src/libunix.c), their connections to    *)
(* the monitor, and the monitor's select loop (run_cmd() of src/unix.c)    *)
(* around the table of module Monitor.                                     *)
(*                                                                         *)
(* A process forks, execs, touches files and exits as it likes.  The       *)
(* auditor in it tells the monitor and blocks for the answer:              *)
(*    - after an exec it sends SOA and waits for the ack;                  *)
(*    - before an exec and at exit it sends the path actions collected,    *)
(*      with EOA when the process exits and has sent an SOA, and waits for *)
(*      the monitor to close the connection.                               *)
(* So a process has at most one message on its way.                        *)
(***************************************************************************)
EXTENDS Monitor

CONSTANTS
    Top,            \* the process run_cmd() forks to run the build
    NoPid,          \* parent of the top process
    MaxAccess,      \* bound: path actions of a process
    MaxKills,       \* bound: processes killed by a signal
    ShopResults,    \* what shop() may return
    Server,         \* is there a server (P_SERVER), and so shopping?
    StrictDownload  \* P_STRICT_DOWNLOAD

Action == [by : Pid, n : 1 .. MaxAccess]

ASSUME BuildConstantsOK ==
    /\ Top \in Pid
    /\ NoPid \notin Pid
    /\ PA = Action
    /\ MaxAccess \in Nat /\ MaxKills \in Nat
    /\ ShopResults \subseteq {"RECYCLED", "MUSTRUN", "MUSTRUN_AGG", "OFF",
                              "NOMATCH", "NOMATCH_AGG", "ERR"}

VARIABLES
    st,        \* what each process is doing
    parent,    \* who forked it
    ca,        \* the key of CurrentCA, inherited over fork
    started,   \* its "started" flag: was an SOA sent by this process?
    env,       \* P_DEPTH, P_PCCODE, P_PCMDID, P_AGGREGATED_SUBCMD
    mem,       \* the path actions in CurrentCA
    file,      \* the path actions in the temp file AuditFD
    count,     \* path actions made so far
    conn,      \* connections to the monitor: the messages on their way
    kills,     \* processes killed so far
    orphans,   \* has a process ended before its children?
    stopped    \* has the select loop ended?

procVars == <<st, parent, ca, started, env, mem, file, count, kills, orphans>>
buildVars == <<procVars, conn, stopped, vars>>

Message ==
    [type : {"SOA"}, from : Pid, key : Key, pccode : Code \cup {NoCode},
     pcmdid : Pid \cup {NoPid}, noshop : BOOLEAN, pred : Key \cup {NoKey}]
    \cup
    [type : {"DATA"}, from : Pid, key : Key, pas : SUBSET PA, eoa : BOOLEAN]

(* "spawn": system(), popen() or run_cmd() are about to exec in it;        *)
(* "exec": it is in exec; "soa", "preexec", "exit": it is blocked on the   *)
(* monitor; "run": it runs the program's code.                             *)
Status == {"free", "spawn", "exec", "soa", "run", "preexec", "exit", "gone"}
Blocked == {"soa", "preexec", "exit"}
Alive(p) == st[p] \notin {"free", "gone"}

-----------------------------------------------------------------------------
(* The auditor *)

(* _pa_record(): the path action goes into CurrentCA.                      *)
NewAction(p) == [by |-> p, n |-> count[p] + 1]

_pa_record(p) ==
    /\ st[p] = "run"
    /\ count[p] < MaxAccess
    /\ mem' = [mem EXCEPT ![p] = @ \cup {NewAction(p)}]
    /\ count' = [count EXCEPT ![p] = @ + 1]
    /\ UNCHANGED <<st, parent, ca, started, env, file, kills, orphans, conn, stopped, vars>>

(* _audit_flush(): CurrentCA is written to the temp file.                  *)
_audit_flush(p) ==
    /\ file' = [file EXCEPT ![p] = @ \cup mem[p]]
    /\ mem' = [mem EXCEPT ![p] = {}]

(* _audit_end(): the temp file goes to the monitor, with EOA on exit if    *)
(* this process has sent an SOA, and is truncated.                         *)
EndMessage(p, exiting) ==
    [type |-> "DATA", from |-> p, key |-> ca[p], pas |-> file[p] \cup mem[p],
     eoa |-> exiting /\ started[p]]

_audit_end(p, exiting) ==
    /\ conn' = conn \cup {EndMessage(p, exiting)}
    /\ file' = [file EXCEPT ![p] = {}]
    /\ mem' = [mem EXCEPT ![p] = {}]

(* Mutant: no flush, so the child has a copy of what the parent will send. *)
fork_unflushed(p, q) ==
    /\ st[p] = "run" /\ st[q] = "free"
    /\ mem' = [mem EXCEPT ![q] = mem[p]]
    /\ st' = [st EXCEPT ![q] = "run"]
    /\ parent' = [parent EXCEPT ![q] = p]
    /\ ca' = [ca EXCEPT ![q] = ca[p]]
    /\ started' = [started EXCEPT ![q] = FALSE]
    /\ env' = [env EXCEPT ![q] = env[p]]
    /\ UNCHANGED <<file, count, kills, orphans, conn, stopped, vars>>

(* fork_wrapper(): flush, then the child gets a temp file of its own and   *)
(* a copy of CurrentCA that is not "started".                              *)
fork_wrapper(p, q) ==
    /\ st[p] = "run" /\ st[q] = "free"
    /\ file' = [file EXCEPT ![p] = @ \cup mem[p]]
    /\ mem' = [mem EXCEPT ![p] = {}]
    /\ st' = [st EXCEPT ![q] = "run"]
    /\ parent' = [parent EXCEPT ![q] = p]
    /\ ca' = [ca EXCEPT ![q] = ca[p]]
    /\ started' = [started EXCEPT ![q] = FALSE]
    /\ env' = [env EXCEPT ![q] = env[p]]
    /\ UNCHANGED <<count, kills, orphans, conn, stopped, vars>>

(* system_wrapper(), popen_wrapper(): flush, then libc forks and execs     *)
(* with calls of its own that are not interposed.                          *)
system_wrapper(p, q) ==
    /\ st[p] = "run" /\ st[q] = "free"
    /\ _audit_flush(p)
    /\ st' = [st EXCEPT ![q] = "spawn"]
    /\ parent' = [parent EXCEPT ![q] = p]
    /\ ca' = [ca EXCEPT ![q] = ca[p]]
    /\ env' = [env EXCEPT ![q] = env[p]]
    /\ UNCHANGED <<started, count, kills, orphans, conn, stopped, vars>>

(* _pre_exec(): send what there is, in case exec does not return.          *)
_pre_exec(p) ==
    /\ st[p] = "run"
    /\ _audit_end(p, FALSE)
    /\ st' = [st EXCEPT ![p] = "preexec"]
    /\ UNCHANGED <<parent, ca, started, env, count, kills, orphans, stopped, vars>>

(* A failed exec returns to the caller; the child of a failed system()     *)
(* ends in libc, without a word to the monitor.                            *)
ExecFails(p) ==
    /\ st[p] \in {"exec", "spawn"}
    /\ st' = [st EXCEPT ![p] = IF @ = "exec" THEN "run" ELSE "gone"]
    /\ UNCHANGED <<parent, ca, started, env, mem, file, count, kills, orphans, conn, stopped, vars>>

(* _init_auditlib() and _audit_start(): a new command begins.              *)
_init_auditlib(p, c) ==
    LET key == [code |-> c, depth |-> env[p].depth, cmdid |-> p]
        soa == [type |-> "SOA", from |-> p, key |-> key,
                pccode |-> env[p].pccode, pcmdid |-> env[p].pcmdid,
                noshop |-> env[p].agg, pred |-> ca[p]]
    IN  /\ st[p] \in {"exec", "spawn"}
        /\ env[p].depth \in Depths /\ count[p] < MaxAccess
        /\ st' = [st EXCEPT ![p] = "soa"]
        /\ ca' = [ca EXCEPT ![p] = key]
        /\ started' = [started EXCEPT ![p] = TRUE]
        /\ env' = [env EXCEPT ![p].depth = @ + 1]
        /\ conn' = conn \cup {soa}
        /\ UNCHANGED <<parent, mem, file, count, kills, orphans, stopped, vars>>

LeavesOrphans(p) ==
    orphans' = (orphans \/ \E q \in Pid : parent[q] = p /\ Alive(q))

(* exit() or _exit().                                                      *)
_exit_wrapper(p) ==
    /\ st[p] = "run"
    /\ LeavesOrphans(p)
    /\ _audit_end(p, TRUE)
    /\ st' = [st EXCEPT ![p] = "exit"]
    /\ UNCHANGED <<parent, ca, started, env, count, kills, stopped, vars>>

(* What arrives of a message whose sender is killed while sending it: its  *)
(* first lines, and not the EOA, which is the last one.                    *)
Cut(m) == {m} \cup {[m EXCEPT !.pas = S, !.eoa = FALSE] :
                       S \in IF m.type = "DATA" THEN SUBSET m.pas ELSE {}}

(* A signal ends the process: no finalizer runs, so there is no EOA unless *)
(* it was sent already.                                                    *)
Kill(p) ==
    LET mine == {m \in conn : m.from = p}
    IN  /\ kills < MaxKills
        /\ Alive(p)
        /\ st' = [st EXCEPT ![p] = "gone"]
        /\ mem' = [mem EXCEPT ![p] = {}]
        /\ file' = [file EXCEPT ![p] = {}]
        /\ kills' = kills + 1
        /\ LeavesOrphans(p)
        /\ \E sent \in {{}} \cup {{c} : c \in UNION {Cut(m) : m \in mine}} :
              conn' = (conn \ mine) \cup sent
        /\ UNCHANGED <<parent, ca, started, env, count, stopped, vars>>

-----------------------------------------------------------------------------
(* The monitor's select loop *)

(* The ack for a shopping result (mon_record(), then run_cmd()).           *)
AckOf(shoprc) ==
    CASE shoprc = "RECYCLED" -> "RECYCLED"
      [] shoprc \in {"NOMATCH", "NOMATCH_AGG", "ERR"} /\ StrictDownload -> "FAILURE"
      [] shoprc \in {"MUSTRUN_AGG", "NOMATCH_AGG"} -> "OK_AGG"
      [] OTHER -> "OK"

Acks(m) == IF Server /\ ~m.noshop THEN {AckOf(r) : r \in ShopResults} ELSE {"OK"}

(* The rest of _audit_start() and _init_auditlib(): the auditor goes on    *)
(* with the program, or, when the command was recycled or has failed a     *)
(* requirement, ends it at once.                                           *)
GoOn(p, ack) ==
    /\ ack \in {"OK", "OK_AGG"}
    /\ st' = [st EXCEPT ![p] = "run"]
    /\ env' = [env EXCEPT ![p].pccode = ca[p].code, ![p].pcmdid = p,
                          ![p].agg = @ \/ ack = "OK_AGG"]
    /\ mem' = [mem EXCEPT ![p] = {NewAction(p)}]
    /\ count' = [count EXCEPT ![p] = @ + 1]
    /\ UNCHANGED <<parent, ca, started, file, kills, orphans>>

GoHome(p, ack) ==
    /\ ack \in {"FAILURE", "RECYCLED"}
    /\ st' = [st EXCEPT ![p] = "exit"]
    /\ LeavesOrphans(p)
    /\ UNCHANGED <<parent, ca, started, env, mem, file, count, kills>>

ServeSOA(m) ==
    /\ ~stopped
    /\ m \in conn /\ m.type = "SOA"
    /\ HandleSOA(m.key, m.pccode, m.pcmdid)
    /\ \E ack \in Acks(m) :
          \/ /\ st[m.from] = "soa"
             /\ GoOn(m.from, ack)
             /\ conn' = conn \ {m}
          \/ /\ st[m.from] = "soa"
             /\ GoHome(m.from, ack)
             /\ conn' = (conn \ {m}) \cup {EndMessage(m.from, TRUE)}
          \/ /\ st[m.from] = "gone"
             /\ conn' = conn \ {m}
             /\ UNCHANGED procVars
    /\ UNCHANGED stopped

ServeData(m) ==
    /\ ~stopped
    /\ m \in conn /\ m.type = "DATA"
    /\ HandleData(m.key, m.pas, m.eoa)
    /\ conn' = conn \ {m}
    /\ st' = [st EXCEPT ![m.from] = CASE @ = "preexec" -> "exec" [] OTHER -> "gone"]
    /\ UNCHANGED <<parent, ca, started, env, mem, file, count, kills, orphans, stopped>>

(* Mutant: the loop waits for all the processes of the build.              *)
StopAfterAll ==
    /\ ~stopped
    /\ \A p \in Pid : ~Alive(p)
    /\ stopped' = TRUE
    /\ UNCHANGED <<procVars, conn, vars>>

(* SIGCHLD for the top process ends the loop, at the latest after the      *)
(* connections that were ready in this pass.                               *)
Stop ==
    /\ ~stopped
    /\ st[Top] = "gone"
    /\ stopped' = TRUE
    /\ UNCHANGED <<procVars, conn, vars>>

(* Mutant: any socket error is retried, as EINTR is.                       *)
ResetRetried(m) == stopped /\ m \in conn /\ UNCHANGED buildVars

(* With the monitor gone, whoever talks to it dies of a socket error.      *)
Reset(m) ==
    /\ stopped
    /\ m \in conn
    /\ conn' = conn \ {m}
    /\ st' = [st EXCEPT ![m.from] = "gone"]
    /\ UNCHANGED <<parent, ca, started, env, mem, file, count, kills, orphans, stopped, vars>>

(* The build is over and so is the monitor.                                *)
Over ==
    /\ stopped
    /\ \A p \in Pid : ~Alive(p)
    /\ UNCHANGED buildVars

-----------------------------------------------------------------------------
BuildInit ==
    /\ Init
    /\ st = [p \in Pid |-> IF p = Top THEN "spawn" ELSE "free"]
    /\ parent = [p \in Pid |-> NoPid]
    /\ ca = [p \in Pid |-> NoKey]
    /\ started = [p \in Pid |-> FALSE]
    /\ env = [p \in Pid |-> [depth |-> 0, pccode |-> NoCode, pcmdid |-> NoPid, agg |-> FALSE]]
    /\ mem = [p \in Pid |-> {}]
    /\ file = [p \in Pid |-> {}]
    /\ count = [p \in Pid |-> 0]
    /\ conn = {}
    /\ kills = 0
    /\ orphans = FALSE
    /\ stopped = FALSE

Process(p) ==
    \/ _pa_record(p)
    \/ \E q \in Pid : fork_wrapper(p, q) \/ system_wrapper(p, q)
    \/ _pre_exec(p)
    \/ ExecFails(p)
    \/ \E c \in Code : _init_auditlib(p, c)
    \/ _exit_wrapper(p)
    \/ Kill(p)

Serve(p) == \E m \in conn : m.from = p /\ (ServeSOA(m) \/ ServeData(m) \/ Reset(m))

BuildNext ==
    \/ \E p \in Pid : Process(p) \/ Serve(p)
    \/ Stop
    \/ Over

(* Every pass of the select loop reads every connection that is ready, and *)
(* the SIGCHLD of the top process is not lost.                             *)
Fairness == /\ \A p \in Pid : WF_buildVars(Serve(p))
            /\ WF_buildVars(Stop)

BuildSpec == BuildInit /\ [][BuildNext]_buildVars /\ Fairness

-----------------------------------------------------------------------------
(* Properties *)

(* The state of the processes, of their auditors, of the connections and   *)
(* of the monitor is well formed; no process exceeds its bound.            *)
BuildTypeOK ==
    /\ TypeOK
    /\ st \in [Pid -> Status]
    /\ parent \in [Pid -> Pid \cup {NoPid}]
    /\ ca \in [Pid -> Key \cup {NoKey}]
    /\ started \in [Pid -> BOOLEAN]
    /\ \A p \in Pid : /\ env[p].depth \in Nat
                      /\ env[p].pccode \in Code \cup {NoCode}
                      /\ env[p].pcmdid \in Pid \cup {NoPid}
                      /\ env[p].agg \in BOOLEAN
    /\ mem \in [Pid -> SUBSET PA]
    /\ file \in [Pid -> SUBSET PA]
    /\ count \in [Pid -> 0 .. MaxAccess]
    /\ conn \subseteq Message
    /\ kills \in 0 .. MaxKills
    /\ orphans \in BOOLEAN
    /\ stopped \in BOOLEAN

(* When all processes wait for their children, the build is recorded       *)
(* completely: once the monitor has stopped no audit is left in its table, *)
(* nothing was dropped with a skew warning, and every path action of the   *)
(* build is in a record.                                                   *)
CompleteRecord ==
    stopped /\ ~orphans =>
        /\ DOMAIN audits = {}
        /\ lost = {} /\ skew = {}
        /\ UNION {r.pas : r \in log} = {a \in PA : a.n <= count[a.by]}

(* When all processes wait for their children, the SOA of a command finds  *)
(* as its predecessor the audit of the very command that ran it, whatever  *)
(* forks and execs lie between them; so it lands in the right group.       *)
PredecessorFound ==
    \A m \in conn : m.type = "SOA" /\ ~orphans =>
        FindPred(audits, m.key, m.pccode, m.pcmdid) = m.pred

(* The auditors keep to what the monitor relies on: no command is          *)
(* announced twice or after one exec'ed over it, no path action is         *)
(* delivered twice over forks, execs that fail, and exits.                 *)
MonitorContract == Spec

(* A process blocked on the monitor is always released in the end.         *)
Released == \A p \in Pid : (st[p] \in Blocked) ~> (st[p] \notin Blocked)

(* The end of the top process ends the monitor, and nothing stays blocked. *)
BuildEnds == (st[Top] = "gone") ~> (stopped /\ conn = {})
=============================================================================
