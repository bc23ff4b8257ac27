---------------------------- MODULE BuildProofs ----------------------------
(***************************************************************************)
(* Proofs about module AuditedBuild, for any number of processes, any tree *)
(* of forks and execs and any order in which the monitor serves them.      *)
(***************************************************************************)
EXTENDS AuditedBuild, MonitorLogProofs, WellFoundedInduction

(* The commands the monitor has been told of, and the path actions a       *)
(* process has made.                                                       *)
Known == DOMAIN audits \cup Reported

Made(p) == {a \in PA : a.by = p /\ a.n <= count[p]}

Env == [depth : Nat, pccode : Code \cup {NoCode}, pcmdid : Pid \cup {NoPid}, agg : BOOLEAN]

(* The processes and the connections are well formed.                      *)
ProcTypes ==
    /\ st \in [Pid -> Status]
    /\ parent \in [Pid -> Pid \cup {NoPid}]
    /\ ca \in [Pid -> Key \cup {NoKey}]
    /\ env \in [Pid -> Env]
    /\ mem \in [Pid -> SUBSET PA]
    /\ file \in [Pid -> SUBSET PA]
    /\ count \in [Pid -> 0 .. MaxAccess]
    /\ conn \subseteq Message
    /\ kills \in 0 .. MaxKills

FlagTypes == started \in [Pid -> BOOLEAN] /\ orphans \in BOOLEAN /\ stopped \in BOOLEAN

(* What a process is doing, and what its auditor holds.                    *)
ProcOK ==
    \A p \in Pid :
        /\ st[p] \in {"exec", "soa", "run", "preexec", "exit"} => ca[p] \in Key
        /\ st[p] = "soa" => count[p] < MaxAccess
        /\ st[p] # "run" => mem[p] = {} /\ file[p] = {}
        /\ env[p].pcmdid = NoPid => env[p].pccode = NoCode

(* A process has one message on its way at most, and is blocked on it      *)
(* unless it was killed.                                                   *)
ConnOK ==
    /\ \A m, n \in conn : m.from = n.from => m = n
    /\ \A m \in conn :
          /\ m.type = "SOA" => /\ st[m.from] \in {"soa", "gone"}
                               /\ m.key.cmdid = m.from
                               /\ env[m.from].depth = m.key.depth + 1
                               /\ m.pcmdid = NoPid => m.pccode = NoCode
          /\ m.type = "DATA" => st[m.from] \in {"preexec", "exit", "gone"}

(* The commands of a process get deeper, and the SOA on its way is the     *)
(* deepest.                                                                *)
KeysOK ==
    \A k \in Known :
        /\ k \in Key
        /\ st[k.cmdid] # "free"
        /\ k.depth < env[k.cmdid].depth
        /\ \A m \in conn : m.type = "SOA" /\ m.from = k.cmdid => k.depth < m.key.depth

(* A path action is with the auditor of the process that made it, on its   *)
(* way, or with the monitor.                                               *)
ActsOK ==
    /\ \A a \in seen : a \in Made(a.by)
    /\ \A p \in Pid : /\ mem[p] \subseteq Made(p) \ seen
                      /\ file[p] \subseteq Made(p) \ seen
    /\ \A m \in conn : m.type = "DATA" => m.pas \subseteq Made(m.from) \ seen

BInv == ProcTypes /\ FlagTypes /\ ProcOK /\ ConnOK /\ KeysOK /\ ActsOK

-----------------------------------------------------------------------------

(* What a message holds.                                                   *)
LEMMA MessageFields ==
    ASSUME NEW m \in Message
    PROVE  /\ m.from \in Pid /\ m.key \in Key
           /\ m.type \in {"SOA", "DATA"}
           /\ m.type = "SOA" => /\ m.pccode \in Code \cup {NoCode}
                                /\ m.pcmdid \in Pid \cup {NoPid}
                                /\ m.pred \in Key \cup {NoKey}
           /\ m.type = "DATA" => m.pas \subseteq PA /\ m.eoa \in BOOLEAN
<1>1. CASE m \in [type : {"SOA"}, from : Pid, key : Key, pccode : Code \cup {NoCode},
                  pcmdid : Pid \cup {NoPid}, noshop : BOOLEAN, pred : Key \cup {NoKey}]
  BY <1>1
<1>2. CASE m \in [type : {"DATA"}, from : Pid, key : Key, pas : SUBSET PA, eoa : BOOLEAN]
  BY <1>2
<1> QED BY <1>1, <1>2 DEF Message

(* What the end of a program or an exec sends is a message.                *)
LEMMA EndMessageFields ==
    ASSUME ProcTypes, FlagTypes, NEW p \in Pid, ca[p] \in Key, NEW exiting \in BOOLEAN
    PROVE  /\ EndMessage(p, exiting) \in Message
           /\ EndMessage(p, exiting).type = "DATA"
           /\ EndMessage(p, exiting).from = p
           /\ EndMessage(p, exiting).key = ca[p]
           /\ EndMessage(p, exiting).pas = file[p] \cup mem[p]
           /\ EndMessage(p, exiting).eoa = (exiting /\ started[p])
<1>1. started[p] \in BOOLEAN /\ file[p] \in SUBSET PA /\ mem[p] \in SUBSET PA
  BY DEF ProcTypes, FlagTypes
<1>2. (exiting /\ started[p]) \in BOOLEAN
  BY <1>1
<1> QED BY <1>1, <1>2 DEF EndMessage, Message

(* The build begins as the invariant says.                                 *)
LEMMA BuildBegins == BuildInit => IInv /\ LInv /\ BInv
<1> SUFFICES ASSUME BuildInit PROVE IInv /\ LInv /\ BInv
  OBVIOUS
<1>1. IInv /\ LInv
  BY TableBegins, LogBegins DEF BuildInit
<1>2. Known = {} /\ conn = {} /\ seen = {}
  BY DEF BuildInit, Init, Known, Reported
<1>3. ProcTypes /\ FlagTypes
  <2>1. /\ st \in [Pid -> Status]
        /\ parent \in [Pid -> Pid \cup {NoPid}]
        /\ ca \in [Pid -> Key \cup {NoKey}]
        /\ mem \in [Pid -> SUBSET PA]
        /\ file \in [Pid -> SUBSET PA]
        /\ count \in [Pid -> 0 .. MaxAccess]
        /\ kills \in 0 .. MaxKills
    BY BuildConstantsOK DEF BuildInit, Status
  <2>2. FlagTypes
    BY Zenon DEF BuildInit, FlagTypes
  <2>3. env \in [Pid -> Env]
    BY DEF BuildInit, Env
  <2> QED BY <1>2, <2>1, <2>2, <2>3 DEF ProcTypes, FlagTypes
<1>4. ProcOK
  BY <1>3 DEF BuildInit, ProcOK
<1> QED BY <1>1, <1>2, <1>3, <1>4 DEF BInv, ConnOK, KeysOK, ActsOK, BuildInit


(* A step of a process that does not reach the monitor.                    *)
LEMMA MonitorIdle ==
    ASSUME UNCHANGED vars
    PROVE  Known' = Known /\ seen' = seen /\ audits' = audits /\ lost' = lost /\ skew' = skew
BY DEF vars, Known, Reported

(* Who made a path action, and which of its own it is.                     *)
LEMMA ActionFields ==
    \A a \in PA : a.by \in Pid /\ a.n \in 1 .. MaxAccess
BY BuildConstantsOK DEF Action

(* A process only adds to the path actions it has made.                    *)
LEMMA MadeKept ==
    ASSUME ProcTypes, count' = count
    PROVE  \A q : Made(q)' = Made(q)
BY DEF Made

(* A process that makes a path action adds one to its own.                 *)
LEMMA MadeGrows ==
    ASSUME ProcTypes, NEW p \in Pid, count[p] < MaxAccess,
           count' = [count EXCEPT ![p] = @ + 1]
    PROVE  /\ \A q \in Pid : Made(q) \subseteq Made(q)'
           /\ NewAction(p) \in PA
           /\ Made(p)' = Made(p) \cup {NewAction(p)}
           /\ \A q \in Pid : q # p => Made(q)' = Made(q)
           /\ NewAction(p) \notin Made(p)
<1>1. count[p] \in 0 .. MaxAccess /\ MaxAccess \in Nat
  BY BuildConstantsOK DEF ProcTypes
<1>2. count'[p] = count[p] + 1 /\ \A q \in Pid : q # p => count'[q] = count[q]
  BY DEF ProcTypes
<1>3. NewAction(p) \in PA /\ NewAction(p).by = p /\ NewAction(p).n = count[p] + 1
  BY <1>1, BuildConstantsOK DEF NewAction, Action
<1>4. ASSUME NEW a \in PA, a.by = p, a.n = count[p] + 1
      PROVE  a = NewAction(p)
  BY <1>4, BuildConstantsOK DEF NewAction, Action
<1>5. Made(p)' = Made(p) \cup {NewAction(p)} /\ NewAction(p) \notin Made(p)
  BY <1>1, <1>2, <1>3, <1>4, ActionFields DEF Made
<1>6. \A q \in Pid : q # p => Made(q)' = Made(q)
  BY <1>2 DEF Made
<1> QED BY <1>3, <1>5, <1>6

(* A path action is added to those the process holds.                      *)
LEMMA RecordKeeps ==
    ASSUME BInv, NEW p \in Pid, _pa_record(p)
    PROVE  BInv'
<1>1. Known' = Known /\ seen' = seen
  BY MonitorIdle DEF _pa_record
<1>2. FlagTypes'
  BY Zenon DEF BInv, FlagTypes, _pa_record
<1>3. count[p] \in 0 .. MaxAccess /\ MaxAccess \in Nat
  BY BuildConstantsOK DEF BInv, ProcTypes
<1>4. /\ NewAction(p) \in PA /\ NewAction(p) \in Made(p)' /\ NewAction(p) \notin Made(p)
      /\ \A q \in Pid : Made(q) \subseteq Made(q)'
  BY MadeGrows DEF BInv, _pa_record
<1>5. ProcTypes'
  BY <1>3, <1>4 DEF BInv, ProcTypes, _pa_record
<1>6. ProcOK'
  BY DEF BInv, ProcTypes, ProcOK, _pa_record
<1>7. ConnOK' /\ KeysOK'
  BY <1>1 DEF BInv, ConnOK, KeysOK, _pa_record
<1>8. ActsOK'
  <2>1. \A a \in seen : a.by \in Pid
    BY ActionFields DEF BInv, ActsOK, Made
  <2>2. NewAction(p) \notin seen
    BY <1>4 DEF BInv, ActsOK, NewAction
  <2>3. \A q \in Pid : mem'[q] \subseteq mem[q] \cup (IF q = p THEN {NewAction(p)} ELSE {})
    BY DEF BInv, ProcTypes, _pa_record
  <2>4. \A q \in Pid : mem'[q] \subseteq Made(q)' \ seen'
    BY <1>1, <1>4, <2>2, <2>3 DEF BInv, ActsOK
  <2>5. \A m \in conn : m.from \in Pid
    BY MessageFields DEF BInv, ProcTypes
  <2> QED BY <1>1, <1>4, <2>1, <2>4, <2>5 DEF BInv, ActsOK, _pa_record
<1> QED BY <1>2, <1>5, <1>6, <1>7, <1>8 DEF BInv

(* fork() and system(): what the parent has collected goes to its file,    *)
(* the child begins with nothing.                                          *)
LEMMA ForkKeeps ==
    ASSUME BInv, NEW p \in Pid, NEW q \in Pid, fork_wrapper(p, q) \/ system_wrapper(p, q)
    PROVE  BInv'
<1>1. Known' = Known /\ seen' = seen /\ count' = count /\ conn' = conn
  BY MonitorIdle DEF fork_wrapper, system_wrapper
<1>2. FlagTypes'
  BY Zenon DEF BInv, FlagTypes, fork_wrapper, system_wrapper
<1>3. /\ st[p] = "run" /\ st[q] = "free" /\ p # q
      /\ file' = [file EXCEPT ![p] = @ \cup mem[p]]
      /\ mem' = [mem EXCEPT ![p] = {}]
      /\ \E s \in {"run", "spawn"} : st' = [st EXCEPT ![q] = s]
      /\ parent' = [parent EXCEPT ![q] = p]
      /\ ca' = [ca EXCEPT ![q] = ca[p]]
      /\ env' = [env EXCEPT ![q] = env[p]]
      /\ kills' = kills
  BY DEF fork_wrapper, system_wrapper, _audit_flush
<1>4. ProcTypes'
  BY <1>1, <1>3 DEF BInv, ProcTypes, Status
<1>5. ProcOK'
  BY <1>1, <1>3 DEF BInv, ProcTypes, ProcOK
<1>6. \A m \in conn : m.from # q
  BY <1>3, MessageFields DEF BInv, ProcTypes, ConnOK
<1>7. ConnOK'
  BY <1>1, <1>3, <1>6, MessageFields DEF BInv, ProcTypes, ConnOK
<1>8. \A k \in Known : k.cmdid # q /\ k.cmdid \in Pid
  BY <1>3 DEF BInv, KeysOK, Key
<1>9. KeysOK'
  BY <1>1, <1>3, <1>8 DEF BInv, ProcTypes, KeysOK
<1>10. ActsOK'
  BY <1>1, <1>3, MadeKept DEF BInv, ProcTypes, ActsOK
<1> QED BY <1>2, <1>4, <1>5, <1>7, <1>9, <1>10 DEF BInv

(* exec and exit: all the process holds is on its way, and it waits.       *)
LEMMA EndKeeps ==
    ASSUME BInv, NEW p \in Pid, _pre_exec(p) \/ _exit_wrapper(p)
    PROVE  BInv'
<1>1. Known' = Known /\ seen' = seen /\ count' = count
  BY MonitorIdle DEF _pre_exec, _exit_wrapper
<1>2. FlagTypes'
  BY Zenon DEF BInv, FlagTypes, _pre_exec, _exit_wrapper, LeavesOrphans
<1>3. PICK exiting \in BOOLEAN, s \in {"preexec", "exit"} :
      /\ st[p] = "run"
      /\ conn' = conn \cup {EndMessage(p, exiting)}
      /\ file' = [file EXCEPT ![p] = {}]
      /\ mem' = [mem EXCEPT ![p] = {}]
      /\ st' = [st EXCEPT ![p] = s]
      /\ parent' = parent /\ ca' = ca /\ env' = env /\ kills' = kills
  BY DEF _pre_exec, _exit_wrapper, _audit_end
<1>4. PICK e : /\ e = EndMessage(p, exiting)
               /\ e \in Message /\ e.type = "DATA" /\ e.from = p
               /\ e.pas = file[p] \cup mem[p]
  BY <1>3, EndMessageFields DEF BInv, ProcOK
<1>5. conn' = conn \cup {e}
  BY <1>3, <1>4
<1>6. ProcTypes'
  BY <1>1, <1>3, <1>4, <1>5 DEF BInv, ProcTypes, Status
<1>7. ProcOK'
  BY <1>1, <1>3 DEF BInv, ProcTypes, ProcOK
<1>8. \A m \in conn : m.from # p /\ m.from \in Pid
  BY <1>3, MessageFields DEF BInv, ProcTypes, ConnOK
<1>9. ConnOK'
  BY <1>3, <1>4, <1>5, <1>8 DEF BInv, ProcTypes, ConnOK
<1>10. KeysOK'
  <2>1. \A k \in Known : k.cmdid \in Pid
    BY DEF BInv, KeysOK, Key
  <2> QED BY <1>1, <1>3, <1>4, <1>5, <2>1 DEF BInv, ProcTypes, KeysOK
<1>11. ActsOK'
  BY <1>1, <1>3, <1>4, <1>5, MadeKept DEF BInv, ProcTypes, ActsOK
<1> QED BY <1>2, <1>6, <1>7, <1>9, <1>10, <1>11 DEF BInv

(* A failed exec changes what the process does and nothing else.           *)
LEMMA ExecFailsKeeps ==
    ASSUME BInv, NEW p \in Pid, ExecFails(p)
    PROVE  BInv'
<1>1. Known' = Known /\ seen' = seen /\ count' = count
  BY MonitorIdle DEF ExecFails
<1>2. FlagTypes'
  BY Zenon DEF BInv, FlagTypes, ExecFails
<1>3. PICK s \in {"run", "gone"} :
      /\ st[p] \in {"exec", "spawn"}
      /\ s = "run" => st[p] = "exec"
      /\ st' = [st EXCEPT ![p] = s]
      /\ mem' = mem /\ file' = file /\ conn' = conn
      /\ parent' = parent /\ ca' = ca /\ env' = env /\ kills' = kills
  BY DEF ExecFails
<1>4. ProcTypes'
  BY <1>1, <1>3 DEF BInv, ProcTypes, Status
<1>5. ProcOK'
  BY <1>1, <1>3 DEF BInv, ProcTypes, ProcOK
<1>6. \A m \in conn : m.from # p /\ m.from \in Pid
  BY <1>3, MessageFields DEF BInv, ProcTypes, ConnOK
<1>7. ConnOK'
  BY <1>3, <1>6 DEF BInv, ProcTypes, ConnOK
<1>8. KeysOK'
  BY <1>1, <1>3 DEF BInv, ProcTypes, KeysOK, Key
<1>9. ActsOK'
  BY <1>1, <1>3, MadeKept DEF BInv, ActsOK
<1> QED BY <1>2, <1>4, <1>5, <1>7, <1>8, <1>9 DEF BInv

(* A new command begins: its SOA, deeper than the commands the process has *)
(* announced, is on its way.                                               *)
LEMMA BeginKeeps ==
    ASSUME BInv, NEW p \in Pid, NEW c \in Code, _init_auditlib(p, c)
    PROVE  BInv'
<1> DEFINE key == [code |-> c, depth |-> env[p].depth, cmdid |-> p]
           soa == [type |-> "SOA", from |-> p, key |-> key,
                   pccode |-> env[p].pccode, pcmdid |-> env[p].pcmdid,
                   noshop |-> env[p].agg, pred |-> ca[p]]
<1>1. Known' = Known /\ seen' = seen /\ count' = count
  BY MonitorIdle DEF _init_auditlib
<1>2. FlagTypes'
  BY Zenon DEF BInv, FlagTypes, _init_auditlib
<1>3. /\ st[p] \in {"exec", "spawn"}
      /\ env[p].depth \in Depths /\ count[p] < MaxAccess
      /\ st' = [st EXCEPT ![p] = "soa"]
      /\ ca' = [ca EXCEPT ![p] = key]
      /\ env' = [env EXCEPT ![p].depth = @ + 1]
      /\ conn' = conn \cup {soa}
      /\ parent' = parent /\ mem' = mem /\ file' = file /\ kills' = kills
  BY DEF _init_auditlib
<1>4. env[p] \in Env /\ ca[p] \in Key \cup {NoKey}
  BY DEF BInv, ProcTypes
<1>5. PICK m : m = soa
  OBVIOUS
<1>6. /\ m.type = "SOA" /\ m.from = p /\ m.key = key
      /\ m.pccode = env[p].pccode /\ m.pcmdid = env[p].pcmdid /\ m.pred = ca[p]
  BY <1>5
<1>7. key \in Key /\ key.depth = env[p].depth /\ key.cmdid = p /\ env[p].depth \in Nat
  BY <1>3, <1>4 DEF Key, Env
<1>8. m \in Message
  BY <1>4, <1>5, <1>7 DEF Message, Env
<1>9. /\ \A q \in Pid : q # p => env'[q] = env[q]
      /\ env'[p].depth = env[p].depth + 1
      /\ env'[p].pccode = env[p].pccode
      /\ env'[p].pcmdid = env[p].pcmdid
      /\ env' \in [Pid -> Env]
  BY <1>3, <1>4, <1>7 DEF BInv, ProcTypes, Env
<1>10. conn' = conn \cup {m}
  BY <1>3, <1>5
<1> HIDE DEF key, soa
<1>11. ProcTypes'
  BY <1>1, <1>3, <1>7, <1>8, <1>9, <1>10 DEF BInv, ProcTypes, Status
<1>12. ProcOK'
  BY <1>1, <1>3, <1>7, <1>9 DEF BInv, ProcTypes, ProcOK
<1>13. \A n \in conn : n.from # p /\ n.from \in Pid
  BY <1>3, MessageFields DEF BInv, ProcTypes, ConnOK
<1>14. ConnOK'
  BY <1>3, <1>6, <1>7, <1>9, <1>10, <1>13 DEF BInv, ProcTypes, ProcOK, ConnOK
<1>15. KeysOK'
  <2>1. \A k \in Known : k \in Key /\ k.cmdid \in Pid /\ k.depth \in Nat
    BY ConstantsOK DEF BInv, KeysOK, Key
  <2>2. \A k \in Known : st'[k.cmdid] # "free" /\ k.depth < env'[k.cmdid].depth
    BY <1>3, <1>7, <1>9, <2>1 DEF BInv, ProcTypes, KeysOK
  <2>3. ASSUME NEW k \in Known, NEW n \in conn', n.type = "SOA", n.from = k.cmdid
        PROVE  k.depth < n.key.depth
    <3>1. CASE n \in conn
      BY <2>3, <3>1 DEF BInv, KeysOK
    <3>2. CASE n = m
      BY <1>6, <1>7, <2>3, <3>2 DEF BInv, KeysOK
    <3> QED BY <1>10, <3>1, <3>2
  <2> QED BY <1>1, <2>1, <2>2, <2>3 DEF KeysOK
<1>16. ActsOK'
  BY <1>1, <1>3, <1>6, <1>10, MadeKept DEF BInv, ActsOK
<1> QED BY <1>2, <1>11, <1>12, <1>14, <1>15, <1>16 DEF BInv

(* What is left of a message, if anything is, when its sender is killed.   *)
LEMMA CutFields ==
    ASSUME NEW m \in Message, NEW c \in Cut(m)
    PROVE  /\ c \in Message /\ c.from = m.from /\ c.type = m.type /\ c.key = m.key
           /\ m.type = "SOA" => c = m
           /\ m.type = "DATA" => /\ c.pas \subseteq m.pas
                                 /\ c.eoa => m.eoa
<1>1. CASE c = m
  BY <1>1, MessageFields
<1>2. CASE c # m
  <2>1. m.type = "DATA"
    BY <1>2 DEF Cut
  <2>2. PICK S \in SUBSET m.pas : c = [m EXCEPT !.pas = S, !.eoa = FALSE]
    BY <1>2, <2>1 DEF Cut
  <2>3. m \in [type : {"DATA"}, from : Pid, key : Key, pas : SUBSET PA, eoa : BOOLEAN]
    BY <2>1 DEF Message
  <2>4. /\ c.pas = S /\ c.eoa = FALSE
        /\ c.from = m.from /\ c.type = m.type /\ c.key = m.key
    BY <2>2, <2>3
  <2>5. c \in [type : {"DATA"}, from : Pid, key : Key, pas : SUBSET PA, eoa : BOOLEAN]
    BY <2>2, <2>3
  <2> QED BY <2>1, <2>4, <2>5 DEF Message
<1> QED BY <1>1, <1>2

(* A process is killed: what it holds is lost, what it was sending may be  *)
(* cut short.                                                              *)
LEMMA KillKeeps ==
    ASSUME BInv, NEW p \in Pid, Kill(p)
    PROVE  BInv'
<1>1. Known' = Known /\ seen' = seen /\ count' = count
  BY MonitorIdle DEF Kill
<1>2. FlagTypes'
  BY Zenon DEF BInv, FlagTypes, Kill, LeavesOrphans
<1>3. PICK sent \in {{}} \cup {{c} : c \in UNION {Cut(m) : m \in {n \in conn : n.from = p}}} :
      /\ kills < MaxKills /\ Alive(p)
      /\ st' = [st EXCEPT ![p] = "gone"]
      /\ mem' = [mem EXCEPT ![p] = {}]
      /\ file' = [file EXCEPT ![p] = {}]
      /\ conn' = (conn \ {n \in conn : n.from = p}) \cup sent
      /\ parent' = parent /\ ca' = ca /\ env' = env /\ kills' = kills + 1
  BY DEF Kill
<1>4. ASSUME NEW n \in conn'
      PROVE  \/ n \in conn /\ n.from # p
             \/ n \in sent
  BY <1>3, <1>4
<1>5. ASSUME NEW n \in sent
      PROVE  \E m \in conn :
                /\ m.from = p /\ n.from = p /\ n \in Message
                /\ n.type = m.type /\ n.key = m.key
                /\ m.type = "SOA" => n = m
                /\ m.type = "DATA" => n.pas \subseteq m.pas
  <2>1. PICK m \in conn : m.from = p /\ n \in Cut(m)
    BY <1>3, <1>5
  <2> QED BY <2>1, CutFields DEF BInv, ProcTypes
<1>6. \A n1, n2 \in sent : n1 = n2
  BY <1>3
<1>7. \A n \in conn : n.from \in Pid /\ n \in Message
  BY MessageFields DEF BInv, ProcTypes
<1>8. ProcTypes'
  <2>1. conn' \subseteq Message
    BY <1>4, <1>5, <1>7
  <2> QED BY <1>1, <1>3, <2>1, BuildConstantsOK DEF BInv, ProcTypes, Status
<1>9. ProcOK'
  BY <1>1, <1>3 DEF BInv, ProcTypes, ProcOK
<1>10. \A q \in Pid : st'[q] = st[q] \/ st'[q] = "gone"
  BY <1>3 DEF BInv, ProcTypes
<1>11. ConnOK'
  <2>1. \A m, n \in conn' : m.from = n.from => m = n
    BY <1>4, <1>5, <1>6 DEF BInv, ConnOK
  <2>2. ASSUME NEW n \in conn'
        PROVE  \E m \in conn : /\ n.from = m.from /\ n.type = m.type /\ n.key = m.key
                               /\ m.type = "SOA" => n = m
    BY <1>4, <1>5
  <2>3. ASSUME NEW n \in conn', n.type = "SOA"
        PROVE  /\ n \in conn
               /\ st'[n.from] \in {"soa", "gone"}
               /\ n.key.cmdid = n.from
               /\ env'[n.from].depth = n.key.depth + 1
               /\ n.pcmdid = NoPid => n.pccode = NoCode
    BY <1>3, <1>7, <1>10, <2>2, <2>3 DEF BInv, ConnOK
  <2>4. ASSUME NEW n \in conn', n.type = "DATA"
        PROVE  st'[n.from] \in {"preexec", "exit", "gone"}
    BY <1>7, <1>10, <2>2, <2>4 DEF BInv, ConnOK
  <2> QED BY <2>1, <2>3, <2>4 DEF ConnOK
<1>12. KeysOK'
  <2>1. \A n \in conn' : n.type = "SOA" => n \in conn
    BY <1>4, <1>5
  <2>2. \A k \in Known : k.cmdid \in Pid
    BY DEF BInv, KeysOK, Key
  <2> QED BY <1>1, <1>3, <1>10, <2>1, <2>2 DEF BInv, KeysOK
<1>13. ActsOK'
  <2>1. \A n \in conn' : n.type = "DATA" => n.pas \subseteq Made(n.from) \ seen
    BY <1>4, <1>5 DEF BInv, ActsOK
  <2> QED BY <1>1, <1>3, <2>1, MadeKept DEF BInv, ProcTypes, ActsOK
<1> QED BY <1>2, <1>8, <1>9, <1>11, <1>12, <1>13 DEF BInv

(* The process gets an error from its connection and ends.                 *)
LEMMA ResetKeeps ==
    ASSUME BInv, NEW m, Reset(m)
    PROVE  BInv'
<1>1. Known' = Known /\ seen' = seen /\ count' = count
  BY MonitorIdle DEF Reset
<1>2. FlagTypes'
  BY Zenon DEF BInv, FlagTypes, Reset
<1>3. /\ m \in conn /\ conn' = conn \ {m}
      /\ st' = [st EXCEPT ![m.from] = "gone"]
      /\ parent' = parent /\ ca' = ca /\ env' = env /\ kills' = kills
      /\ mem' = mem /\ file' = file
  BY DEF Reset
<1>4. \A n \in conn : n.from \in Pid
  BY MessageFields DEF BInv, ProcTypes
<1>5. m.type \in {"SOA", "DATA"} /\ st[m.from] # "run"
  BY <1>3, MessageFields DEF BInv, ProcTypes, ConnOK
<1>6. ProcTypes'
  BY <1>1, <1>3, <1>4 DEF BInv, ProcTypes, Status
<1>7. ProcOK'
  BY <1>1, <1>3, <1>4, <1>5 DEF BInv, ProcTypes, ProcOK
<1>8. ConnOK'
  BY <1>3, <1>4 DEF BInv, ProcTypes, ConnOK
<1>9. KeysOK'
  BY <1>1, <1>3, <1>4 DEF BInv, ProcTypes, KeysOK, Key
<1>10. ActsOK'
  BY <1>1, <1>3, MadeKept DEF BInv, ProcTypes, ActsOK
<1> QED BY <1>2, <1>6, <1>7, <1>8, <1>9, <1>10 DEF BInv

-----------------------------------------------------------------------------
(* The monitor serves a connection *)

(* Publishing records keeps what is known.                                 *)
LEMMA KnownKept ==
    ASSUME NEW o, NEW new, NEW n, Publishes(o, new, n)
    PROVE  DOMAIN n \cup Named(new) = DOMAIN o
<1>1. Named(new) \subseteq DOMAIN o
  BY DEF Publishes, Named
<1>2. DOMAIN n = DOMAIN o \ Named(new)
  BY DEF Publishes
<1> QED BY <1>1, <1>2

(* An SOA that a process of the build sends is one the monitor can rely    *)
(* on: its command is new, and nothing was exec'ed over it.                *)
LEMMA ServesSOA ==
    ASSUME BInv, IInv, NEW m, ServeSOA(m)
    PROVE  /\ m \in conn /\ m.type = "SOA" /\ m \in Message
           /\ SOA(m.key, m.pccode, m.pcmdid)
           /\ \E pcmdid \in Pid : SOA(m.key, m.pccode, pcmdid)
           /\ Known' = Known \cup {m.key}
           /\ m.key \notin Known
           /\ seen' = seen /\ lost' = lost /\ skew' = skew
<1>1. m \in conn /\ m.type = "SOA" /\ HandleSOA(m.key, m.pccode, m.pcmdid)
  BY DEF ServeSOA
<1>2. /\ m \in Message /\ m.key \in Key /\ m.from \in Pid /\ m.key.cmdid = m.from
      /\ m.pccode \in Code \cup {NoCode}
      /\ m.pcmdid \in Pid \cup {NoPid}
      /\ m.pcmdid = NoPid => m.pccode = NoCode
  BY <1>1, MessageFields DEF BInv, ProcTypes, ConnOK
<1>3. \A k \in Known : /\ k \in Key /\ k.depth \in Nat /\ m.key.depth \in Nat
                       /\ k.cmdid = m.from => k.depth < m.key.depth
  BY <1>1, <1>2, ConstantsOK DEF BInv, KeysOK, Key
<1>4. m.key \notin Known
  BY <1>2, <1>3
<1>5. ASSUME NEW x \in DOMAIN audits, Up(audits, x) = m.key
      PROVE  FALSE
  <2>1. x.cmdid = m.from /\ m.key.depth = x.depth - 1
    BY <1>2, <1>5 DEF Up
  <2>2. x \in Known
    BY DEF Known
  <2> QED BY <1>3, <2>1, <2>2
<1>6. Fresh(m.key)
  BY <1>4, <1>5 DEF Fresh, Known
<1>7. SOA(m.key, m.pccode, m.pcmdid)
  BY <1>1, <1>6 DEF SOA
<1>8. \E pcmdid \in Pid : SOA(m.key, m.pccode, pcmdid)
  <2>1. CASE m.pcmdid \in Pid
    BY <1>7, <2>1
  <2>2. CASE m.pcmdid = NoPid
    <3>1. \A k \in DOMAIN audits : k.code # NoCode
      BY ConstantsOK DEF IInv, TypeOK, Key
    <3>2. \A pc : FindPred(audits, m.key, NoCode, pc) = NoKey
      BY <3>1 DEF FindPred
    <3>3. FindPred(audits, m.key, m.pccode, m.pcmdid) = FindPred(audits, m.key, m.pccode, Top)
      BY <1>2, <2>2, <3>2
    <3>4. HandleSOA(m.key, m.pccode, Top)
      BY <1>1, <3>3 DEF HandleSOA
    <3> QED BY <1>6, <3>4, BuildConstantsOK DEF SOA
  <2> QED BY <1>2, <2>1, <2>2
<1>9. PICK k, pccode, pcmdid, pred :
         /\ k = m.key /\ pccode = m.pccode /\ pcmdid = m.pcmdid
         /\ pred = FindPred(audits, k, pccode, pcmdid)
  OBVIOUS
<1>10. /\ UNCHANGED <<seen, lost, skew>>
       /\ log' = log \cup AloneRecords(audits, k, pred)
       /\ Publishes(Begun(audits, k), AloneRecords(audits, k, pred), Raw(audits'))
  <2>1. k \in Key /\ pccode \in Code \cup {NoCode} /\ SOA(k, pccode, pcmdid)
    BY <1>2, <1>7, <1>9
  <2> QED BY <1>9, <2>1, SOALog
<1>11. DOMAIN audits' \cup Named(AloneRecords(audits, k, pred)) = DOMAIN audits \cup {k}
  <2>1. DOMAIN Raw(audits') = DOMAIN audits' /\ DOMAIN Begun(audits, k) = DOMAIN audits \cup {k}
    BY DEF Raw, Begun
  <2>2. DOMAIN Raw(audits') \cup Named(AloneRecords(audits, k, pred)) = DOMAIN Begun(audits, k)
    BY <1>10, KnownKept
  <2> QED BY <2>1, <2>2
<1>12. Reported' = Reported \cup Named(AloneRecords(audits, k, pred))
  BY <1>10 DEF Reported, Named
<1>13. Known' = Known \cup {m.key}
  BY <1>9, <1>11, <1>12 DEF Known
<1> QED BY <1>1, <1>2, <1>4, <1>7, <1>8, <1>10, <1>13

(* The path actions that a process of the build sends are new, too.        *)
LEMMA ServesData ==
    ASSUME BInv, IInv, NEW m, ServeData(m)
    PROVE  /\ m \in conn /\ m.type = "DATA" /\ m \in Message
           /\ Data(m.key, m.pas, m.eoa)
           /\ Known' = Known
           /\ seen' = seen \cup m.pas
<1>1. m \in conn /\ m.type = "DATA" /\ HandleData(m.key, m.pas, m.eoa)
  BY DEF ServeData
<1>2. m \in Message /\ m.key \in Key /\ m.pas \in SUBSET PA
  BY <1>1, MessageFields DEF BInv, ProcTypes
<1>3. m.pas \cap seen = {}
  BY <1>1 DEF BInv, ActsOK
<1>4. Data(m.key, m.pas, m.eoa)
  BY <1>1, <1>3 DEF Data
<1>5. seen' = seen \cup m.pas
  BY <1>1 DEF HandleData
<1>6. Known' = Known
  <2>1. CASE m.key \notin DOMAIN audits
    BY <1>1, <2>1 DEF HandleData, Known, Reported
  <2>2. CASE m.key \in DOMAIN audits
    <3>1. PICK k, t : k = m.key /\ t = Recorded(audits, k, m.pas)
      OBVIOUS
    <3>2. /\ audits' = IF m.eoa THEN Ended(t, k) ELSE t
          /\ log' = IF m.eoa THEN log \cup EndRecords(t, k) ELSE log
      BY <1>1, <2>2, <3>1 DEF HandleData
    <3>3. Good(t) /\ DOMAIN t = DOMAIN audits
      BY <1>2, <2>2, <3>1, RecordedGood DEF IInv
    <3>4. CASE ~m.eoa
      BY <3>2, <3>3, <3>4 DEF Known, Reported
    <3>5. CASE m.eoa
      <4>1. Publishes(Raw(t), EndRecords(t, k), Raw(Ended(t, k)))
        BY <2>2, <3>1, <3>3, EndPublishes
      <4>2. DOMAIN Ended(t, k) \cup Named(EndRecords(t, k)) = DOMAIN audits
        <5>1. DOMAIN Raw(Ended(t, k)) = DOMAIN Ended(t, k) /\ DOMAIN Raw(t) = DOMAIN t
          BY DEF Raw
        <5>2. DOMAIN Raw(Ended(t, k)) \cup Named(EndRecords(t, k)) = DOMAIN Raw(t)
          BY <4>1, KnownKept
        <5> QED BY <3>3, <5>1, <5>2
      <4>3. Reported' = Reported \cup Named(EndRecords(t, k))
        BY <3>2, <3>5 DEF Reported, Named
      <4> QED BY <3>2, <3>5, <4>2, <4>3 DEF Known
    <3> QED BY <3>4, <3>5
  <2> QED BY <2>1, <2>2
<1> QED BY <1>1, <1>2, <1>4, <1>5, <1>6

(* The environment of a command that goes on names it as the parent of     *)
(* those it will run.                                                      *)
LEMMA GoOnEnv ==
    ASSUME ProcTypes, NEW p \in Pid, ca[p] \in Key, NEW ack, GoOn(p, ack)
    PROVE  /\ env' \in [Pid -> Env]
           /\ \A q \in Pid : q # p => env'[q] = env[q]
           /\ env'[p].depth = env[p].depth
           /\ env'[p].pcmdid = p
           /\ env'[p].pccode = ca[p].code
<1>1. ca[p].code \in Code /\ env[p] \in Env
  BY DEF ProcTypes, Key
<1>2. (env[p].agg \/ ack = "OK_AGG") \in BOOLEAN
  OBVIOUS
<1>3. PICK e : e = [env[p] EXCEPT !.pccode = ca[p].code, !.pcmdid = p,
                                  !.agg = @ \/ ack = "OK_AGG"]
  OBVIOUS
<1>4. e \in Env /\ e.depth = env[p].depth /\ e.pcmdid = p /\ e.pccode = ca[p].code
  BY <1>1, <1>2, <1>3 DEF Env
<1>5. env' = [env EXCEPT ![p] = e]
  BY <1>3 DEF GoOn, ProcTypes
<1> QED BY <1>4, <1>5 DEF ProcTypes

(* The answer to an SOA: the process goes on, or ends at once, or has been *)
(* killed.                                                                 *)
LEMMA SOAKeeps ==
    ASSUME BInv, IInv, NEW m, ServeSOA(m)
    PROVE  BInv'
<1>1. /\ m \in conn /\ m.type = "SOA" /\ m \in Message
      /\ Known' = Known \cup {m.key} /\ seen' = seen
  BY ServesSOA
<1>2. PICK p : p = m.from
  OBVIOUS
<1>3. /\ p \in Pid /\ m.key \in Key /\ m.key.cmdid = p
      /\ env[p].depth = m.key.depth + 1 /\ m.key.depth \in Nat
  BY <1>1, <1>2, MessageFields, ConstantsOK DEF BInv, ConnOK, Key
<1>4. \A n \in conn : /\ n.from \in Pid /\ n \in Message
                      /\ n # m => n.from # p
  BY <1>1, <1>2, MessageFields DEF BInv, ProcTypes, ConnOK
<1>5. \A k \in Known : k.cmdid \in Pid
  BY DEF BInv, KeysOK, Key
<1>6. PICK ack \in Acks(m) :
          \/ /\ st[p] = "soa"
             /\ GoOn(p, ack)
             /\ conn' = conn \ {m}
          \/ /\ st[p] = "soa"
             /\ GoHome(p, ack)
             /\ conn' = (conn \ {m}) \cup {EndMessage(p, TRUE)}
          \/ /\ st[p] = "gone"
             /\ conn' = conn \ {m}
             /\ UNCHANGED procVars
  BY <1>2 DEF ServeSOA
<1>7. stopped' = stopped
  BY DEF ServeSOA
<1>8. CASE st[p] = "soa" /\ GoOn(p, ack) /\ conn' = conn \ {m}
  <2>1. FlagTypes'
    BY <1>7, <1>8, Zenon DEF BInv, FlagTypes, GoOn
  <2>2. /\ st' = [st EXCEPT ![p] = "run"]
        /\ mem' = [mem EXCEPT ![p] = {NewAction(p)}]
        /\ count' = [count EXCEPT ![p] = @ + 1]
        /\ parent' = parent /\ ca' = ca /\ file' = file /\ kills' = kills
    BY <1>8 DEF GoOn
  <2>3. /\ env' \in [Pid -> Env]
        /\ \A q \in Pid : q # p => env'[q] = env[q]
        /\ env'[p].depth = env[p].depth
        /\ env'[p].pcmdid = p
        /\ env'[p].pccode = ca[p].code
    BY <1>3, <1>8, GoOnEnv DEF BInv, ProcOK
  <2>4. count[p] < MaxAccess /\ file[p] = {} /\ count[p] \in 0 .. MaxAccess /\ MaxAccess \in Nat
    BY <1>3, <1>8, BuildConstantsOK DEF BInv, ProcOK, ProcTypes
  <2>5. /\ NewAction(p) \in PA /\ NewAction(p) \notin Made(p)
        /\ NewAction(p) \in Made(p)'
        /\ \A q \in Pid : Made(q) \subseteq Made(q)'
    BY <1>3, <2>2, <2>4, MadeGrows DEF BInv
  <2>6. ProcTypes'
    <3>1. count' \in [Pid -> 0 .. MaxAccess]
      <4>1. PICK v \in 0 .. MaxAccess : v = count[p] + 1
        BY <2>4
      <4>2. count' = [count EXCEPT ![p] = v] /\ count \in [Pid -> 0 .. MaxAccess]
        BY <2>2, <4>1 DEF BInv, ProcTypes
      <4> QED BY <4>2
    <3>2. mem' \in [Pid -> SUBSET PA] /\ st' \in [Pid -> Status]
      BY <2>2, <2>5 DEF BInv, ProcTypes, Status
    <3> QED BY <1>8, <2>2, <2>3, <3>1, <3>2 DEF BInv, ProcTypes
  <2>7. ProcOK'
    <3>1. ca[p] \in Key /\ NoPid \notin Pid
      BY <1>3, <1>8, BuildConstantsOK DEF BInv, ProcOK
    <3>2. ASSUME NEW q \in Pid, q # p
          PROVE  /\ st'[q] = st[q] /\ ca'[q] = ca[q] /\ mem'[q] = mem[q]
                 /\ file'[q] = file[q] /\ env'[q] = env[q] /\ count'[q] = count[q]
      BY <1>3, <2>2, <2>3, <3>2 DEF BInv, ProcTypes
    <3>3. st'[p] = "run" /\ ca'[p] \in Key /\ env'[p].pcmdid \in Pid
      BY <1>3, <2>2, <2>3, <3>1 DEF BInv, ProcTypes
    <3> QED BY <1>3, <3>1, <3>2, <3>3 DEF BInv, ProcOK
  <2>8. ConnOK'
    BY <1>3, <1>4, <1>8, <2>2, <2>3 DEF BInv, ProcTypes, ConnOK
  <2>9. KeysOK'
    <3>1. \A k \in Known : /\ k \in Key /\ st'[k.cmdid] # "free"
                           /\ k.depth < env'[k.cmdid].depth
      BY <1>3, <1>5, <2>2, <2>3 DEF BInv, ProcTypes, KeysOK
    <3>2. st'[p] = "run" /\ m.key.depth < env'[p].depth
      BY <1>3, <2>2, <2>3 DEF BInv, ProcTypes
    <3>3. \A n \in conn' : n \in conn /\ n.from # p
      BY <1>4, <1>8
    <3> QED BY <1>1, <1>3, <3>1, <3>2, <3>3 DEF BInv, KeysOK
  <2>10. ActsOK'
    <3>1. \A a \in seen : a.by \in Pid
      BY ActionFields DEF BInv, ActsOK, Made
    <3>2. NewAction(p) \notin seen
      BY <2>5 DEF BInv, ActsOK, NewAction
    <3>3. \A q \in Pid : mem'[q] \subseteq mem[q] \/ (q = p /\ mem'[q] = {NewAction(p)})
      BY <1>3, <2>2 DEF BInv, ProcTypes
    <3>4. \A q \in Pid : mem'[q] \subseteq Made(q)' \ seen'
      BY <1>1, <2>5, <3>2, <3>3 DEF BInv, ActsOK
    <3> QED BY <1>1, <1>4, <1>8, <2>2, <2>5, <3>1, <3>4 DEF BInv, ActsOK
  <2> QED BY <2>1, <2>6, <2>7, <2>8, <2>9, <2>10 DEF BInv
<1>9. CASE /\ st[p] = "soa" /\ GoHome(p, ack)
           /\ conn' = (conn \ {m}) \cup {EndMessage(p, TRUE)}
  <2>1. FlagTypes'
    BY <1>7, <1>9, Zenon DEF BInv, FlagTypes, GoHome, LeavesOrphans
  <2>2. /\ st' = [st EXCEPT ![p] = "exit"]
        /\ mem' = mem /\ count' = count /\ env' = env
        /\ parent' = parent /\ ca' = ca /\ file' = file /\ kills' = kills
    BY <1>9 DEF GoHome
  <2>3. ca[p] \in Key /\ mem[p] = {} /\ file[p] = {}
    BY <1>3, <1>9 DEF BInv, ProcOK
  <2>4. PICK e : /\ e = EndMessage(p, TRUE)
                 /\ e \in Message /\ e.type = "DATA" /\ e.from = p
                 /\ e.pas = {}
    <3>1. PICK b \in BOOLEAN : b = TRUE
      OBVIOUS
    <3>2. PICK e : e = EndMessage(p, b)
      OBVIOUS
    <3>3. /\ e \in Message /\ e.type = "DATA" /\ e.from = p
          /\ e.pas = file[p] \cup mem[p]
      BY <1>3, <2>3, <3>2, EndMessageFields DEF BInv
    <3>4. e.pas = {}
      BY <2>3, <3>3
    <3>5. e = EndMessage(p, TRUE)
      BY <3>1, <3>2, Zenon
    <3> QED BY <3>3, <3>4, <3>5
  <2>5. conn' = (conn \ {m}) \cup {e}
    BY <1>9, <2>4
  <2>6. ProcTypes'
    <3>1. conn' \subseteq Message
      BY <1>4, <2>4, <2>5
    <3> QED BY <1>3, <2>2, <3>1 DEF BInv, ProcTypes, Status
  <2>7. ProcOK'
    BY <1>3, <2>2, <2>3 DEF BInv, ProcTypes, ProcOK
  <2>8. ConnOK'
    <3>1. \A n \in conn' : n = e \/ (n \in conn /\ n.from \in Pid /\ n.from # p)
      BY <1>4, <2>5
    <3>2. \A q \in Pid : st'[q] = IF q = p THEN "exit" ELSE st[q]
      BY <1>3, <2>2 DEF BInv, ProcTypes
    <3>3. \A n1, n2 \in conn' : n1.from = n2.from => n1 = n2
      BY <2>4, <3>1 DEF BInv, ConnOK
    <3>4. ASSUME NEW n \in conn', n.type = "SOA"
          PROVE  /\ st'[n.from] \in {"soa", "gone"}
                 /\ n.key.cmdid = n.from
                 /\ env'[n.from].depth = n.key.depth + 1
                 /\ n.pcmdid = NoPid => n.pccode = NoCode
      <4>1. n \in conn /\ st'[n.from] = st[n.from]
        BY <2>4, <3>1, <3>2, <3>4
      <4> QED BY <2>2, <3>4, <4>1 DEF BInv, ConnOK
    <3>5. ASSUME NEW n \in conn', n.type = "DATA"
          PROVE  st'[n.from] \in {"preexec", "exit", "gone"}
      <4>1. CASE n = e
        BY <1>3, <2>4, <3>2, <4>1
      <4>2. CASE n # e
        <5>1. n \in conn /\ st'[n.from] = st[n.from]
          BY <3>1, <3>2, <4>2
        <5> QED BY <3>5, <5>1 DEF BInv, ConnOK
      <4> QED BY <4>1, <4>2
    <3> QED BY <3>3, <3>4, <3>5 DEF ConnOK
  <2>9. KeysOK'
    <3>1. \A k \in Known : k \in Key /\ st'[k.cmdid] # "free" /\ k.depth < env'[k.cmdid].depth
      BY <1>3, <1>5, <2>2 DEF BInv, ProcTypes, KeysOK
    <3>2. st'[p] = "exit" /\ m.key.depth < env'[p].depth
      BY <1>3, <2>2 DEF BInv, ProcTypes
    <3>3. \A n \in conn' : n.type = "SOA" => n \in conn /\ n.from # p
      BY <1>4, <2>4, <2>5
    <3> QED BY <1>1, <1>3, <3>1, <3>2, <3>3 DEF BInv, KeysOK
  <2>10. ActsOK'
    BY <1>1, <2>2, <2>4, <2>5, MadeKept DEF BInv, ActsOK
  <2> QED BY <2>1, <2>6, <2>7, <2>8, <2>9, <2>10 DEF BInv
<1>10. CASE st[p] = "gone" /\ conn' = conn \ {m} /\ UNCHANGED procVars
  <2>1. FlagTypes'
    BY <1>7, <1>10, Zenon DEF BInv, FlagTypes, procVars
  <2>2. /\ st' = st /\ mem' = mem /\ count' = count /\ env' = env
        /\ parent' = parent /\ ca' = ca /\ file' = file /\ kills' = kills
    BY <1>10 DEF procVars
  <2>3. ProcTypes' /\ ProcOK'
    BY <1>10, <2>2 DEF BInv, ProcTypes, ProcOK
  <2>4. ConnOK'
    BY <1>10, <2>2 DEF BInv, ConnOK
  <2>5. KeysOK'
    BY <1>1, <1>3, <1>4, <1>10, <2>2 DEF BInv, KeysOK
  <2>6. ActsOK'
    BY <1>1, <1>10, <2>2, MadeKept DEF BInv, ActsOK
  <2> QED BY <2>1, <2>3, <2>4, <2>5, <2>6 DEF BInv
<1> QED BY <1>6, <1>8, <1>9, <1>10

(* A process that has delivered its path actions execs or is gone.         *)
LEMMA DataKeeps ==
    ASSUME BInv, IInv, NEW m, ServeData(m)
    PROVE  BInv'
<1>1. /\ m \in conn /\ m.type = "DATA" /\ m \in Message
      /\ Known' = Known /\ seen' = seen \cup m.pas
  BY ServesData
<1>2. PICK p : p = m.from
  OBVIOUS
<1>3. p \in Pid /\ st[p] \in {"preexec", "exit", "gone"}
  BY <1>1, <1>2, MessageFields DEF BInv, ConnOK
<1>4. PICK s \in {"exec", "gone"} :
         /\ s = "exec" => st[p] = "preexec"
         /\ st' = [st EXCEPT ![p] = s]
         /\ conn' = conn \ {m}
         /\ parent' = parent /\ ca' = ca /\ env' = env /\ kills' = kills
         /\ mem' = mem /\ file' = file /\ count' = count
  BY <1>2, <1>3 DEF ServeData, BInv, ProcTypes
<1>5. \A n \in conn : /\ n.from \in Pid /\ n \in Message
                      /\ n # m => n.from # p
  BY <1>1, <1>2, MessageFields DEF BInv, ProcTypes, ConnOK
<1>6. FlagTypes'
  BY Zenon DEF BInv, FlagTypes, ServeData
<1>7. ProcTypes'
  BY <1>3, <1>4 DEF BInv, ProcTypes, Status
<1>8. ProcOK'
  BY <1>3, <1>4 DEF BInv, ProcTypes, ProcOK
<1>9. ConnOK'
  BY <1>3, <1>4, <1>5 DEF BInv, ProcTypes, ConnOK
<1>10. KeysOK'
  <2>1. \A k \in Known : k.cmdid \in Pid
    BY DEF BInv, KeysOK, Key
  <2> QED BY <1>1, <1>3, <1>4, <2>1 DEF BInv, ProcTypes, KeysOK
<1>11. ActsOK'
  <2>1. \A q : Made(q)' = Made(q)
    BY <1>4, MadeKept DEF BInv
  <2>2. m.pas \subseteq Made(p) /\ \A a \in m.pas : a.by = p
    BY <1>1, <1>2 DEF BInv, ActsOK, Made
  <2>3. mem[p] = {} /\ file[p] = {}
    BY <1>3 DEF BInv, ProcOK
  <2>4. \A q \in Pid : q # p => Made(q) \cap m.pas = {}
    BY <2>2 DEF Made
  <2>5. \A q \in Pid : mem'[q] \subseteq Made(q)' \ seen' /\ file'[q] \subseteq Made(q)' \ seen'
    BY <1>1, <1>4, <2>1, <2>3, <2>4 DEF BInv, ActsOK
  <2>6. \A n \in conn' : n.type = "DATA" => n.pas \subseteq Made(n.from)' \ seen'
    BY <1>1, <1>4, <1>5, <2>1, <2>4 DEF BInv, ActsOK
  <2>7. \A a \in seen' : a \in Made(a.by)'
    BY <1>1, <2>1, <2>2 DEF BInv, ActsOK
  <2> QED BY <2>5, <2>6, <2>7 DEF ActsOK
<1> QED BY <1>6, <1>7, <1>8, <1>9, <1>10, <1>11 DEF BInv

-----------------------------------------------------------------------------
(* The build as a whole *)

(* Every step of the build is a step of the monitor, or none of its        *)
(* business.                                                               *)
LEMMA BuildStepsAreMonitorSteps ==
    BInv /\ IInv /\ [BuildNext]_buildVars => [Next]_vars
<1> SUFFICES ASSUME BInv, IInv, [BuildNext]_buildVars, vars' # vars PROVE Next
  OBVIOUS
<1>1. PICK p \in Pid : Serve(p)
  BY DEF BuildNext, buildVars, Process, Stop, Over, _pa_record, fork_wrapper, system_wrapper,
         _pre_exec, ExecFails, _init_auditlib, _exit_wrapper, Kill
<1>2. PICK m \in conn : ServeSOA(m) \/ ServeData(m)
  BY <1>1 DEF Serve, Reset
<1>3. CASE ServeSOA(m)
  <2>1. m \in Message /\ m.type = "SOA" /\ \E pcmdid \in Pid : SOA(m.key, m.pccode, pcmdid)
    BY <1>3, ServesSOA
  <2>2. m.key \in Key /\ m.pccode \in Code \cup {NoCode}
    BY <2>1, MessageFields
  <2> QED BY <2>1, <2>2 DEF Next
<1>4. CASE ServeData(m)
  <2>1. m \in Message /\ m.type = "DATA" /\ Data(m.key, m.pas, m.eoa)
    BY <1>4, ServesData
  <2>2. m.key \in Key /\ m.pas \in SUBSET PA /\ m.eoa \in BOOLEAN
    BY <2>1, MessageFields
  <2> QED BY <2>1, <2>2 DEF Next
<1> QED BY <1>2, <1>3, <1>4

(* Every step of the build keeps the invariant.                            *)
LEMMA BuildKept ==
    BInv /\ IInv /\ [BuildNext]_buildVars => BInv'
<1> SUFFICES ASSUME BInv, IInv, [BuildNext]_buildVars PROVE BInv'
  OBVIOUS
<1>1. ASSUME NEW p \in Pid, Process(p) PROVE BInv'
  BY <1>1, RecordKeeps, ForkKeeps, EndKeeps, ExecFailsKeeps, BeginKeeps, KillKeeps DEF Process
<1>2. ASSUME NEW p \in Pid, Serve(p) PROVE BInv'
  BY <1>2, SOAKeeps, DataKeeps, ResetKeeps DEF Serve
<1>3. CASE Stop \/ Over \/ UNCHANGED buildVars
  <2>1. UNCHANGED <<procVars, conn>> /\ UNCHANGED vars
    BY <1>3 DEF Stop, Over, buildVars
  <2>2. Known' = Known /\ seen' = seen
    BY <2>1, MonitorIdle
  <2>3. stopped' \in BOOLEAN
    BY <1>3, Zenon DEF BInv, FlagTypes, Stop, Over, buildVars
  <2>4. FlagTypes'
    BY <2>1, <2>3, Zenon DEF BInv, FlagTypes, procVars
  <2>5. /\ st' = st /\ mem' = mem /\ count' = count /\ env' = env /\ conn' = conn
        /\ parent' = parent /\ ca' = ca /\ file' = file /\ kills' = kills
    BY <2>1 DEF procVars
  <2>6. ProcTypes' /\ ProcOK' /\ ConnOK'
    BY <2>5 DEF BInv, ProcTypes, ProcOK, ConnOK
  <2>7. KeysOK'
    BY <2>2, <2>5 DEF BInv, KeysOK
  <2>8. ActsOK'
    BY <2>2, <2>5, MadeKept DEF BInv, ActsOK
  <2> QED BY <2>4, <2>6, <2>7, <2>8 DEF BInv
<1> QED BY <1>1, <1>2, <1>3 DEF BuildNext

(* The invariant of the build and of the monitor in it.                    *)
THEOREM BuildInvariant == BuildSpec => [](IInv /\ LInv /\ BInv)
<1>1. IInv /\ LInv /\ BInv /\ [BuildNext]_buildVars => IInv' /\ LInv' /\ BInv'
  BY BuildStepsAreMonitorSteps, BuildKept, TableKept, LogKept
<1> QED BY <1>1, BuildBegins, PTL DEF BuildSpec

(* The state of processes, auditors, connections and monitor is well       *)
(* formed, and no process exceeds its bound.                               *)
THEOREM BuildTypes == BuildSpec => []BuildTypeOK
<1>1. IInv /\ BInv => BuildTypeOK
  BY DEF IInv, BInv, ProcTypes, FlagTypes, BuildTypeOK, Env
<1> QED BY <1>1, BuildInvariant, PTL

(* The auditors of a build keep to what the monitor relies on: a command   *)
(* is announced once, before any that is exec'ed over it, and a path       *)
(* action is delivered once.                                               *)
THEOREM ContractKept == BuildSpec => MonitorContract
<1>1. BuildInit => Init
  BY DEF BuildInit
<1> QED BY <1>1, BuildInvariant, BuildStepsAreMonitorSteps, PTL DEF BuildSpec, MonitorContract, Spec

(* So everything that is proved of the monitor holds in a build.           *)
THEOREM BuildGuarantees ==
    BuildSpec => /\ [](GroupIntegrity /\ ClosedWaitsForLeader /\ ExecChainSharesGroup)
                 /\ [](ReportedOnce /\ EachPathActionOnce)
                 /\ StrongGroupHolds
                 /\ ImplementsAuditLog
BY ContractKept, Grouping, NoneLeftBehind, OneGroupPerChain, CommandsReportedOnce, PathActionsKept,
   StrongGroups, ImplementsLog, PTL DEF MonitorContract

-----------------------------------------------------------------------------
(* The tree of processes, and what each command in it descends from *)

(* p is o or descends from it.                                             *)
Family(S) == S \subseteq Pid /\ \A x \in Pid : parent[x] \in S => x \in S

Under(o, p) == \A S \in SUBSET Pid : o \in S /\ Family(S) => p \in S

(* Who descends from whom.                                                 *)
TreeOK ==
    /\ st[Top] # "free" /\ parent[Top] = NoPid
    /\ \A p \in Pid : st[p] = "free" => parent[p] = NoPid
    /\ \A p \in Pid : st[p] # "free" => Under(Top, p)
    /\ \A p \in Pid : st[p] # "free" /\ p # Top => parent[p] \in Pid
    /\ \A p \in Pid : parent[p] \in Pid => st[parent[p]] \notin {"free", "spawn"}

(* A command was run by a process or by one it descends from, and a group  *)
(* was begun by one of those that descend to its members.                  *)
LineOK ==
    /\ \A p \in Pid : /\ ca[p] # NoKey => Under(ca[p].cmdid, p)
                      /\ env[p].pcmdid # NoPid => Under(env[p].pcmdid, p)
    /\ \A m \in conn : m.type = "SOA" =>
          /\ m.pcmdid # NoPid => Under(m.pcmdid, m.from)
          /\ m.pred # NoKey => Under(m.pred.cmdid, m.from)
    /\ \A k \in DOMAIN audits :
          audits[k].leader # NoKey => Under(audits[k].leader.cmdid, k.cmdid)

(* Which commands are a process's own.                                     *)
OwnOK ==
    /\ \A p \in Pid : /\ st[p] \in {"free", "spawn"} => ~started[p]
                      /\ started[p] => ca[p] # NoKey /\ ca[p].cmdid = p
    /\ \A k \in Known : started[k.cmdid]
    /\ \A m \in conn :
          /\ m.type = "SOA" => m.key = ca[m.from] /\ started[m.from]
          /\ m.type = "DATA" => m.key = ca[m.from] 
          /\ m.type = "DATA" /\ m.eoa => started[m.from] /\ st[m.from] # "preexec"

(* The predecessor that the environment names.                             *)
PredOK ==
    /\ \A p \in Pid :
          /\ st[p] \in {"spawn", "exec", "run", "preexec"} =>
             \/ ca[p] = NoKey /\ env[p].pccode = NoCode
             \/ /\ ca[p] \in Known
                /\ env[p].pccode = ca[p].code
                /\ env[p].pcmdid = ca[p].cmdid
                /\ env[p].depth = ca[p].depth + 1
          /\ st[p] = "exit" => ca[p] \in Known
    /\ \A m \in conn : m.type = "SOA" =>
          \/ m.pred = NoKey /\ m.pccode = NoCode
          \/ /\ m.pred \in Known
             /\ m.pccode = m.pred.code
             /\ m.pcmdid = m.pred.cmdid
             /\ m.key.depth = m.pred.depth + 1
             /\ m.pred.cmdid # m.from => \A k \in Known : k.cmdid # m.from

TInv == TreeOK /\ LineOK /\ OwnOK /\ PredOK

(* A process counts as one of its own descendants.                         *)
LEMMA UnderSelf == \A p : Under(p, p)
BY DEF Under

(* Descent is transitive.                                                  *)
LEMMA UnderTrans ==
    ASSUME NEW a, NEW b, NEW c, Under(a, b), Under(b, c)
    PROVE  Under(a, c)
BY DEF Under

(* It stays as it is while nobody forks.                                   *)
LEMMA UnderKept ==
    ASSUME parent' = parent
    PROVE  \A o, p : Under(o, p)' <=> Under(o, p)
BY DEF Under, Family

(* A fork takes no descendant from anyone, and the child descends from all *)
(* those its parent descends from.                                         *)
LEMMA UnderForked ==
    ASSUME ProcTypes, NEW p \in Pid, NEW q \in Pid, parent[q] = NoPid,
           parent' = [parent EXCEPT ![q] = p]
    PROVE  /\ \A o, x : Under(o, x) => Under(o, x)'
           /\ \A o : Under(o, p) => Under(o, q)'
<1>1. parent'[q] = p /\ \A x \in Pid : x # q => parent'[x] = parent[x]
  BY DEF ProcTypes
<1>2. ASSUME NEW S \in SUBSET Pid, Family(S)'
      PROVE  Family(S) /\ (p \in S => q \in S)
  BY <1>1, <1>2, BuildConstantsOK DEF Family
<1>3. ASSUME NEW o, NEW x, Under(o, x)
      PROVE  Under(o, x)'
  BY <1>2, <1>3 DEF Under
<1>4. ASSUME NEW o, Under(o, p)
      PROVE  Under(o, q)'
  BY <1>2, <1>4 DEF Under
<1> QED BY <1>3, <1>4

(* What an SOA of k does to the audits: k is new and is in no group, leads *)
(* one, or is in that of its predecessor; the others keep their leader or  *)
(* lose it; those that are gone were closed.                               *)
Announced(t, k, pccode, pred, u) ==
    /\ DOMAIN u \subseteq DOMAIN t \cup {k}
    /\ k \in DOMAIN u /\ u[k].pccode = pccode /\ ~u[k].closed
    /\ u[k].leader # NoKey => u[k].leader = k \/ (pred # NoKey /\ u[k].leader = t[pred].leader)
    /\ \A x \in DOMAIN u \ {k} : /\ u[x].pccode = t[x].pccode
                                 /\ u[x].leader \in {NoKey, t[x].leader}
                                 /\ u[x].closed = t[x].closed
    /\ \A x \in DOMAIN t \ DOMAIN u : t[x].closed

(* HandleSOA does so, whatever becomes of the groups.                      *)
LEMMA SOAAnnounced ==
    ASSUME NEW t, Good(t), NEW k \in Key, k \notin DOMAIN t,
           NEW pccode \in Code \cup {NoCode}, NEW pred, pred # NoKey => pred \in DOMAIN t
    PROVE  Announced(t, k, pccode, pred, After(t, k, pccode, pred))
<1> DEFINE u == After(t, k, pccode, pred)
           l == t[pred].leader
           done == Processed(t, k, pred)
           c == ca_new(pccode)
           d == Leading(t, k, pccode, pred)
           v == Rest(t, k, pred)
<1>1. AfterOK(t, k, pred, u, done)
  BY AfterFacts
<1>2. done \subseteq DOMAIN t /\ \A x \in done : t[x].closed
  <2>1. BreaksUp(t, k, pred) => /\ l \in DOMAIN t
                                /\ t[l].group \subseteq DOMAIN t
    BY DEF BreaksUp, Grouped, ca_has_leader, Good, LeaderOK, GroupOK
  <2> QED BY <2>1 DEF Processed, Disbanded, Members
<1>3. DOMAIN u \subseteq DOMAIN t \cup {k} /\ k \in DOMAIN u /\ ~u[k].closed
  BY <1>1 DEF AfterOK
<1>4. \A x \in DOMAIN t \ DOMAIN u : t[x].closed
  BY <1>1, <1>2 DEF AfterOK
<1>5. \A x \in DOMAIN u \ {k} : x \in DOMAIN t /\ u[x].closed = t[x].closed
  BY <1>1 DEF AfterOK
<1>6. c.pccode = pccode /\ c.leader = NoKey /\ d.pccode = pccode /\ d.leader = k
  BY DEF ca_new, Leading
<1>7. \A x \in DOMAIN v : /\ x \in DOMAIN t
                          /\ v[x].pccode = t[x].pccode
                          /\ v[x].leader \in {NoKey, t[x].leader}
  BY DEF Rest, _mon_clean_up_ca_table, ca_disband, Good, TableOK, CA
<1>8. ASSUME NEW e, u = With(v, k, e), e.pccode = pccode, e.leader \in {NoKey, k}
      PROVE  /\ u[k].pccode = pccode /\ u[k].leader \in {NoKey, k}
             /\ \A x \in DOMAIN u \ {k} : /\ u[x].pccode = t[x].pccode
                                          /\ u[x].leader \in {NoKey, t[x].leader}
  <2> HIDE DEF v, u
  <2> QED BY <1>7, <1>8 DEF With
<1>9. CASE ~Joins(t, k, pred)
  <2>1. u = With(v, k, c) \/ u = With(v, k, d)
    BY <1>9, PlacedCases
  <2> QED BY <1>3, <1>4, <1>5, <1>6, <1>8, <2>1 DEF Announced
<1>10. CASE Joins(t, k, pred)
  <2>1. u = ca_aggregate(With(t, k, c), l, k)
    BY <1>10, PlacedCases
  <2>2. pred # NoKey /\ l \in DOMAIN t /\ l # k
    BY <1>10 DEF Joins, Grouped, ca_has_leader, Good, LeaderOK
  <2>3. PICK w : w = With(t, k, c)
    OBVIOUS
  <2>4. /\ w[k] = c /\ \A x \in DOMAIN t : w[x] = t[x]
        /\ DOMAIN w = DOMAIN t \cup {k}
    BY <2>3 DEF With
  <2>5. /\ c \in CA
        /\ \A x \in DOMAIN t : t[x] \in CA
    BY ConstantsOK DEF ca_new, CA, Good, TableOK
  <2>6. u = [w EXCEPT ![l].group = @ \cup {k}, ![k].leader = l]
    BY <2>1, <2>3 DEF ca_aggregate
  <2> HIDE DEF u, l, c
  <2>7. /\ DOMAIN u = DOMAIN t \cup {k}
        /\ u[k].pccode = pccode /\ u[k].leader = l
    BY <1>6, <2>2, <2>4, <2>5, <2>6 DEF CA
  <2>8. \A x \in DOMAIN t : u[x].pccode = t[x].pccode /\ u[x].leader = t[x].leader
    BY <2>2, <2>4, <2>5, <2>6 DEF CA
  <2> QED BY <1>3, <1>4, <1>5, <2>2, <2>7, <2>8 DEF Announced, u, l
<1> QED BY <1>9, <1>10

(* The audits an EOA closes are of one process.                            *)
LEMMA UpstreamOwn ==
    ASSUME NEW t, NEW k \in DOMAIN t, NEW j \in Upstream(t, k)
    PROVE  j.cmdid = k.cmdid
<1> DEFINE S == {x \in DOMAIN t : x.cmdid = k.cmdid}
<1>1. S \in SUBSET DOMAIN t /\ k \in S
  OBVIOUS
<1>2. \A x \in S : Up(t, x) \in DOMAIN t => Up(t, x) \in S
  BY DEF Up
<1>3. j \in S
  BY <1>1, <1>2 DEF Upstream
<1> QED BY <1>3

(* What path actions and an EOA of k do to the audits: groups stay as they *)
(* are; only audits of k's process are closed; an audit that is gone is of *)
(* that process, or in a group whose leader is, or was closed before.      *)
Ends(t, k, eoa, u) ==
    /\ DOMAIN u \subseteq DOMAIN t
    /\ \A x \in DOMAIN u : /\ u[x].pccode = t[x].pccode
                           /\ u[x].leader = t[x].leader
                           /\ u[x].closed # t[x].closed => eoa /\ x.cmdid = k.cmdid
    /\ \A x \in DOMAIN t \ DOMAIN u :
          /\ eoa
          /\ \/ x.cmdid = k.cmdid
             \/ /\ t[x].leader \in DOMAIN t
                /\ t[x].leader.cmdid = k.cmdid \/ t[t[x].leader].closed

(* Recording path actions does so, and so does the EOA after them.         *)
LEMMA DataEnds ==
    ASSUME NEW t, Good(t), NEW k \in DOMAIN t, NEW S \in SUBSET PA,
           NEW r, r = Recorded(t, k, S)
    PROVE  Ends(t, k, FALSE, r) /\ Ends(t, k, TRUE, Ended(r, k))
<1>1. Good(r) /\ DOMAIN r = DOMAIN t
  BY RecordedGood
<1>2. \A x \in DOMAIN t : /\ r[x].pccode = t[x].pccode
                          /\ r[x].leader = t[x].leader
                          /\ r[x].closed = t[x].closed
  BY DEF Recorded, Good, TableOK, CA
<1>3. Ends(t, k, FALSE, r)
  BY <1>1, <1>2 DEF Ends
<1>4. \A x \in Upstream(r, k) : x.cmdid = k.cmdid
  BY <1>1, UpstreamOwn
<1>5. /\ DOMAIN Ended(r, k) = DOMAIN r \ Published(r, k)
      /\ \A x \in DOMAIN Ended(r, k) :
            /\ Ended(r, k)[x].pccode = r[x].pccode
            /\ Ended(r, k)[x].leader = r[x].leader
            /\ x \notin Upstream(r, k) => Ended(r, k)[x] = r[x]
  <2>1. k \in DOMAIN r /\ Good(r)
    BY <1>1
  <2> QED BY ONLY <2>1, EndedFacts
<1>6. ASSUME NEW x \in DOMAIN t, x \in Published(r, k)
      PROVE  \/ x.cmdid = k.cmdid
             \/ /\ t[x].leader \in DOMAIN t
                /\ t[x].leader.cmdid = k.cmdid \/ t[t[x].leader].closed
  <2>1. \/ x \in Upstream(r, k)
        \/ GroupReady(r, k) /\ r[x].leader = r[k].leader
    BY <1>1, <1>6, GoneFacts
  <2>2. CASE GroupReady(r, k) /\ r[x].leader = r[k].leader
    <3>1. PICK l : l = r[k].leader
      OBVIOUS
    <3>2. l # NoKey /\ Closed(r, k)[l].closed
      BY <2>2, <3>1 DEF GroupReady, ca_has_leader
    <3>3. l \in DOMAIN r
      BY <1>1, <3>1, <3>2 DEF Good, LeaderOK
    <3>4. l \in Upstream(r, k) \/ r[l].closed
      BY <3>2, <3>3 DEF Closed
    <3> QED BY <1>1, <1>2, <1>4, <2>2, <3>1, <3>3, <3>4
  <2> QED BY <1>4, <2>1, <2>2
<1>7. Ends(t, k, TRUE, Ended(r, k))
  <2>1. PICK u : u = Ended(r, k)
    OBVIOUS
  <2>2. DOMAIN u \subseteq DOMAIN t
    BY <1>1, <1>5, <2>1
  <2>3. \A x \in DOMAIN u : /\ u[x].pccode = t[x].pccode
                            /\ u[x].leader = t[x].leader
    BY <1>2, <1>5, <2>1, <2>2
  <2>4. \A x \in DOMAIN u : u[x].closed # t[x].closed => x.cmdid = k.cmdid
    BY <1>2, <1>4, <1>5, <2>1, <2>2
  <2>5. \A x \in DOMAIN t \ DOMAIN u : x \in Published(r, k)
    BY <1>1, <1>5, <2>1
  <2>6. Ends(t, k, TRUE, u)
    BY <1>6, <2>2, <2>3, <2>4, <2>5 DEF Ends
  <2> QED BY <2>1, <2>6
<1> QED BY <1>3, <1>7

(* Steps that touch neither the processes nor the monitor.                 *)
LEMMA TreeFrame ==
    ASSUME TInv, UNCHANGED <<st, parent, ca, started, env, conn>>, UNCHANGED vars
    PROVE  TInv'
<1>1. Known' = Known /\ audits' = audits
  BY MonitorIdle
<1>2. \A o, p : Under(o, p)' <=> Under(o, p)
  BY UnderKept
<1>3. TreeOK'
  BY <1>2 DEF TInv, TreeOK
<1>4. LineOK'
  BY <1>1, <1>2 DEF TInv, LineOK
<1>5. OwnOK'
  BY <1>1 DEF TInv, OwnOK
<1>6. PredOK'
  BY <1>1 DEF TInv, PredOK
<1> QED BY <1>3, <1>4, <1>5, <1>6 DEF TInv

(* The build begins with one process.                                      *)
LEMMA TreeBegins == BuildInit => TInv
<1> SUFFICES ASSUME BuildInit PROVE TInv
  OBVIOUS
<1>1. Known = {} /\ conn = {} /\ DOMAIN audits = {}
  BY DEF BuildInit, Init, Known, Reported
<1>2. TreeOK
  BY UnderSelf, BuildConstantsOK DEF BuildInit, TreeOK
<1>3. LineOK
  BY <1>1 DEF BuildInit, LineOK
<1>4. OwnOK
  BY <1>1 DEF BuildInit, OwnOK
<1>5. PredOK
  BY <1>1 DEF BuildInit, PredOK
<1> QED BY <1>2, <1>3, <1>4, <1>5 DEF TInv

(* A child inherits the command and the environment of its parent.         *)
LEMMA ForkKeepsTree ==
    ASSUME BInv, TInv, NEW p \in Pid, NEW q \in Pid, fork_wrapper(p, q) \/ system_wrapper(p, q)
    PROVE  TInv'
<1>1. Known' = Known /\ audits' = audits /\ conn' = conn
  BY MonitorIdle DEF fork_wrapper, system_wrapper
<1>2. /\ st[p] = "run" /\ st[q] = "free" /\ p # q
      /\ parent' = [parent EXCEPT ![q] = p]
      /\ ca' = [ca EXCEPT ![q] = ca[p]]
      /\ env' = [env EXCEPT ![q] = env[p]]
  BY DEF fork_wrapper, system_wrapper
<1>3. PICK s \in {"run", "spawn"} : st' = [st EXCEPT ![q] = s]
  BY DEF fork_wrapper, system_wrapper
<1>4. /\ st'[q] = s /\ parent'[q] = p /\ ca'[q] = ca[p] /\ env'[q] = env[p]
      /\ \A x \in Pid : x # q => /\ st'[x] = st[x] /\ parent'[x] = parent[x]
                                 /\ ca'[x] = ca[x] /\ env'[x] = env[x]
  BY <1>2, <1>3 DEF BInv, ProcTypes
<1>5. parent[q] = NoPid /\ \A x \in Pid : parent[x] # q
  BY <1>2 DEF TInv, TreeOK
<1>6. /\ \A o, x : Under(o, x) => Under(o, x)'
      /\ \A o : Under(o, p) => Under(o, q)'
  BY <1>2, <1>5, UnderForked DEF BInv
<1>7. ~started'[q] /\ \A x \in Pid : x # q => started'[x] = started[x]
  BY <1>2, Zenon DEF BInv, FlagTypes, TInv, OwnOK, fork_wrapper, system_wrapper
<1>8. \A m \in conn : m.from # q /\ m.from \in Pid
  BY <1>2, MessageFields DEF BInv, ProcTypes, ConnOK
<1>9. \A k \in Known : k.cmdid # q /\ k.cmdid \in Pid
  BY <1>2 DEF BInv, KeysOK, Key
<1>10. TreeOK'
  BY <1>2, <1>4, <1>5, <1>6, BuildConstantsOK DEF TInv, TreeOK
<1>11. LineOK'
  <2>1. \A x \in Pid : \E y \in Pid :
           /\ ca'[x] = ca[y] /\ env'[x] = env[y]
           /\ \A o : Under(o, y) => Under(o, x)'
    BY <1>4, <1>6
  <2> QED BY <1>1, <1>6, <2>1 DEF TInv, LineOK
<1>12. OwnOK'
  BY <1>1, <1>4, <1>7, <1>8, <1>9 DEF TInv, OwnOK
<1>13. PredOK'
  BY <1>1, <1>2, <1>3, <1>4 DEF TInv, PredOK
<1> QED BY <1>10, <1>11, <1>12, <1>13 DEF TInv

(* The message sent before an exec or at exit is about the command that    *)
(* the process runs, and ends it only if it is the process's own.          *)
LEMMA EndKeepsTree ==
    ASSUME BInv, TInv, NEW p \in Pid, _pre_exec(p) \/ _exit_wrapper(p)
    PROVE  TInv'
<1>1. Known' = Known /\ audits' = audits
  BY MonitorIdle DEF _pre_exec, _exit_wrapper
<1>2. PICK exiting \in BOOLEAN, s \in {"preexec", "exit"} :
      /\ st[p] = "run"
      /\ exiting => s = "exit"
      /\ conn' = conn \cup {EndMessage(p, exiting)}
      /\ st' = [st EXCEPT ![p] = s]
      /\ parent' = parent /\ ca' = ca /\ env' = env /\ started' = started
  BY DEF _pre_exec, _exit_wrapper, _audit_end
<1>3. PICK e : /\ e = EndMessage(p, exiting)
               /\ e.type = "DATA" /\ e.from = p /\ e.key = ca[p]
               /\ e.eoa = (exiting /\ started[p])
  BY <1>2, EndMessageFields DEF BInv, ProcOK
<1>4. conn' = conn \cup {e}
  BY <1>2, <1>3
<1>5. st'[p] = s /\ \A x \in Pid : x # p => st'[x] = st[x]
  BY <1>2 DEF BInv, ProcTypes
<1>6. \A o, x : Under(o, x)' <=> Under(o, x)
  BY <1>2, UnderKept
<1>7. \A m \in conn : m.from # p /\ m.from \in Pid
  BY <1>2, MessageFields DEF BInv, ProcTypes, ConnOK
<1>8. TreeOK'
  BY <1>2, <1>5, <1>6, BuildConstantsOK DEF TInv, TreeOK
<1>9. LineOK'
  BY <1>1, <1>2, <1>3, <1>4, <1>6 DEF TInv, LineOK
<1>10. OwnOK'
  BY <1>1, <1>2, <1>3, <1>4, <1>5, <1>7 DEF TInv, OwnOK
<1>11. ca[p] # NoKey
  BY <1>2, ConstantsOK DEF BInv, ProcOK
<1>12. PredOK'
  BY <1>1, <1>2, <1>3, <1>4, <1>5, <1>11 DEF TInv, PredOK
<1> QED BY <1>8, <1>9, <1>10, <1>12 DEF TInv

(* After a failed exec the command and the environment are as before.      *)
LEMMA ExecFailsKeepsTree ==
    ASSUME BInv, TInv, NEW p \in Pid, ExecFails(p)
    PROVE  TInv'
<1>1. Known' = Known /\ audits' = audits
  BY MonitorIdle DEF ExecFails
<1>2. PICK s \in {"run", "gone"} :
      /\ st[p] \in {"exec", "spawn"}
      /\ s = "run" => st[p] = "exec"
      /\ st' = [st EXCEPT ![p] = s]
      /\ parent' = parent /\ ca' = ca /\ env' = env /\ started' = started /\ conn' = conn
  BY DEF ExecFails
<1>3. st'[p] = s /\ \A x \in Pid : x # p => st'[x] = st[x]
  BY <1>2 DEF BInv, ProcTypes
<1>4. \A o, x : Under(o, x)' <=> Under(o, x)
  BY <1>2, UnderKept
<1>5. \A m \in conn : m.from # p /\ m.from \in Pid
  BY <1>2, MessageFields DEF BInv, ProcTypes, ConnOK
<1>6. TreeOK'
  BY <1>2, <1>3, <1>4, BuildConstantsOK DEF TInv, TreeOK
<1>7. LineOK'
  BY <1>1, <1>2, <1>4 DEF TInv, LineOK
<1>8. OwnOK'
  BY <1>1, <1>2, <1>3, <1>5 DEF TInv, OwnOK
<1>9. PredOK'
  BY <1>1, <1>2, <1>3 DEF TInv, PredOK
<1> QED BY <1>6, <1>7, <1>8, <1>9 DEF TInv

(* A new command is the process's own, and its SOA names the command it    *)
(* ran before as the predecessor.                                          *)
LEMMA BeginKeepsTree ==
    ASSUME BInv, TInv, NEW p \in Pid, NEW c \in Code, _init_auditlib(p, c)
    PROVE  TInv'
<1> DEFINE key == [code |-> c, depth |-> env[p].depth, cmdid |-> p]
           soa == [type |-> "SOA", from |-> p, key |-> key,
                   pccode |-> env[p].pccode, pcmdid |-> env[p].pcmdid,
                   noshop |-> env[p].agg, pred |-> ca[p]]
<1>1. Known' = Known /\ audits' = audits
  BY MonitorIdle DEF _init_auditlib
<1>2. /\ st[p] \in {"exec", "spawn"}
      /\ env[p].depth \in Depths
      /\ st' = [st EXCEPT ![p] = "soa"]
      /\ ca' = [ca EXCEPT ![p] = key]
      /\ env' = [env EXCEPT ![p].depth = @ + 1]
      /\ conn' = conn \cup {soa}
      /\ parent' = parent
  BY DEF _init_auditlib
<1>3. PICK m : m = soa
  OBVIOUS
<1>4. /\ m.type = "SOA" /\ m.from = p /\ m.key = key
      /\ m.pccode = env[p].pccode /\ m.pcmdid = env[p].pcmdid /\ m.pred = ca[p]
  BY <1>3
<1>5. key.depth = env[p].depth /\ key.cmdid = p /\ key \in Key
  BY <1>2 DEF Key
<1>6. conn' = conn \cup {m}
  BY <1>2, <1>3
<1> HIDE DEF key, soa
<1>7. /\ st'[p] = "soa" /\ ca'[p] = key /\ env'[p].pcmdid = env[p].pcmdid
      /\ \A x \in Pid : x # p => st'[x] = st[x] /\ ca'[x] = ca[x] /\ env'[x] = env[x]
  BY <1>2 DEF BInv, ProcTypes, Env
<1>8. started'[p] /\ \A x \in Pid : x # p => started'[x] = started[x]
  BY Zenon DEF BInv, FlagTypes, _init_auditlib
<1>9. \A n \in conn : n.from # p /\ n.from \in Pid
  BY <1>2, MessageFields DEF BInv, ProcTypes, ConnOK
<1>10. \A k \in Known : k.cmdid \in Pid
  BY DEF BInv, KeysOK, Key
<1>11. \A o, x : Under(o, x)' <=> Under(o, x)
  BY <1>2, UnderKept
<1>12. TreeOK'
  BY <1>2, <1>7, <1>11, BuildConstantsOK DEF TInv, TreeOK
<1>13. LineOK'
  <2>1. \A x \in Pid : /\ ca'[x] = ca[x] \/ (x = p /\ ca'[x] = key)
                       /\ env'[x].pcmdid = env[x].pcmdid
    BY <1>7
  <2> QED BY <1>1, <1>4, <1>5, <1>6, <1>11, <2>1, UnderSelf DEF TInv, LineOK
<1>14. OwnOK'
  BY <1>1, <1>4, <1>5, <1>6, <1>7, <1>8, <1>9, <1>10, ConstantsOK DEF TInv, OwnOK
<1>15. PredOK'
  <2>1. ca[p] # NoKey /\ ca[p].cmdid # p => \A k \in Known : k.cmdid # p
    BY DEF TInv, OwnOK
  <2>2. \/ m.pred = NoKey /\ m.pccode = NoCode
        \/ /\ m.pred \in Known
           /\ m.pccode = m.pred.code
           /\ m.pcmdid = m.pred.cmdid
           /\ m.key.depth = m.pred.depth + 1
           /\ m.pred # NoKey
    BY <1>2, <1>4, <1>5, ConstantsOK DEF TInv, PredOK, BInv, KeysOK
  <2> QED BY <1>1, <1>4, <1>6, <1>7, <2>1, <2>2 DEF TInv, PredOK
<1> QED BY <1>12, <1>13, <1>14, <1>15 DEF TInv

(* A message cut short still says who sent it and for which command.       *)
LEMMA KillKeepsTree ==
    ASSUME BInv, TInv, NEW p \in Pid, Kill(p)
    PROVE  TInv'
<1>1. Known' = Known /\ audits' = audits
  BY MonitorIdle DEF Kill
<1>2. PICK sent \in {{}} \cup {{c} : c \in UNION {Cut(m) : m \in {n \in conn : n.from = p}}} :
      /\ Alive(p)
      /\ st' = [st EXCEPT ![p] = "gone"]
      /\ conn' = (conn \ {n \in conn : n.from = p}) \cup sent
      /\ parent' = parent /\ ca' = ca /\ env' = env /\ started' = started
  BY DEF Kill
<1>3. ASSUME NEW n \in sent
      PROVE  \E m \in conn :
                /\ m.from = p /\ n.from = p /\ n.type = m.type /\ n.key = m.key
                /\ m.type \in {"SOA", "DATA"}
                /\ m.type = "SOA" => n = m
                /\ m.type = "DATA" /\ n.eoa => m.eoa
  <2>1. PICK m \in conn : m.from = p /\ n \in Cut(m)
    BY <1>2, <1>3
  <2> QED BY <2>1, CutFields, MessageFields DEF BInv, ProcTypes
<1>4. \A n \in conn' : n \in conn \/ n \in sent
  BY <1>2
<1>5. st'[p] = "gone" /\ \A x \in Pid : x # p => st'[x] = st[x]
  BY <1>2 DEF BInv, ProcTypes
<1>6. \A o, x : Under(o, x)' <=> Under(o, x)
  BY <1>2, UnderKept
<1>7. \A n \in conn' : n.type = "SOA" => n \in conn
  BY <1>3, <1>4
<1>8. \A n \in conn : n.from \in Pid
  BY MessageFields DEF BInv, ProcTypes
<1>9. TreeOK'
  <2>1. st[p] # "free"
    BY <1>2 DEF Alive
  <2> QED BY <1>2, <1>5, <1>6, <2>1, BuildConstantsOK DEF TInv, TreeOK
<1>10. LineOK'
  BY <1>1, <1>2, <1>6, <1>7 DEF TInv, LineOK
<1>11. OwnOK'
  <2>1. ASSUME NEW n \in conn', n.type = "DATA"
        PROVE  n.key = ca[n.from] /\ (n.eoa => started[n.from] /\ st'[n.from] # "preexec")
    <3>1. CASE n \in conn
      BY <1>5, <1>8, <2>1, <3>1 DEF TInv, OwnOK
    <3>2. CASE n \in sent
      BY <1>3, <1>5, <2>1, <3>2 DEF TInv, OwnOK
    <3> QED BY <1>4, <3>1, <3>2
  <2> QED BY <1>1, <1>2, <1>5, <1>7, <2>1 DEF TInv, OwnOK
<1>12. PredOK'
  BY <1>1, <1>2, <1>5, <1>7 DEF TInv, PredOK
<1> QED BY <1>9, <1>10, <1>11, <1>12 DEF TInv

(* A reset connection changes no command.                                  *)
LEMMA ResetKeepsTree ==
    ASSUME BInv, TInv, NEW m, Reset(m)
    PROVE  TInv'
<1>1. Known' = Known /\ audits' = audits
  BY MonitorIdle DEF Reset
<1>2. /\ m \in conn /\ conn' = conn \ {m}
      /\ st' = [st EXCEPT ![m.from] = "gone"]
      /\ parent' = parent /\ ca' = ca /\ env' = env /\ started' = started
  BY DEF Reset
<1>3. /\ m.from \in Pid /\ st[m.from] # "free"
      /\ \A n \in conn : n.from \in Pid
  BY <1>2, MessageFields DEF BInv, ProcTypes, ConnOK
<1>4. \A x \in Pid : IF x = m.from THEN st'[x] = "gone" ELSE st'[x] = st[x]
  BY <1>2 DEF BInv, ProcTypes
<1>5. \A o, x : Under(o, x)' <=> Under(o, x)
  BY <1>2, UnderKept
<1>6. TreeOK'
  BY <1>2, <1>3, <1>4, <1>5, BuildConstantsOK DEF TInv, TreeOK
<1>7. LineOK'
  BY <1>1, <1>2, <1>5 DEF TInv, LineOK
<1>8. OwnOK'
  BY <1>1, <1>2, <1>3, <1>4 DEF TInv, OwnOK
<1>9. PredOK'
  BY <1>1, <1>2, <1>4 DEF TInv, PredOK
<1> QED BY <1>6, <1>7, <1>8, <1>9 DEF TInv

(* An SOA served by the select loop changes the table as an announcement   *)
(* does.                                                                   *)
LEMMA ServedSOA ==
    ASSUME BInv, IInv, NEW m, ServeSOA(m),
           NEW pred, pred = FindPred(audits, m.key, m.pccode, m.pcmdid)
    PROVE  /\ pred # NoKey => pred \in DOMAIN audits /\ pred.cmdid \in {m.from, m.pcmdid}
           /\ Announced(audits, m.key, m.pccode, pred, audits')
<1>1. PICK k, pccode, pcmdid : k = m.key /\ pccode = m.pccode /\ pcmdid = m.pcmdid
  OBVIOUS
<1>2. /\ k \in Key /\ pccode \in Code \cup {NoCode} /\ SOA(k, pccode, pcmdid)
      /\ k.cmdid = m.from
  BY <1>1, ServesSOA, MessageFields DEF BInv, ConnOK
<1>3. pred = FindPred(audits, k, pccode, pcmdid)
  BY <1>1
<1>4. /\ pred # NoKey => pred \in DOMAIN audits
      /\ k \notin DOMAIN audits
      /\ audits' = After(audits, k, pccode, pred)
  BY <1>2, <1>3, SOALog
<1>5. Announced(audits, k, pccode, pred, audits')
  BY <1>2, <1>4, SOAAnnounced DEF IInv
<1>6. pred # NoKey => pred.cmdid \in {k.cmdid, pcmdid}
  BY <1>3 DEF FindPred
<1> QED BY <1>1, <1>2, <1>4, <1>5, <1>6

(* Data and EOA served by the select loop change the table as an ending    *)
(* does.                                                                   *)
LEMMA ServedData ==
    ASSUME BInv, IInv, NEW m, ServeData(m)
    PROVE  /\ m.key \in DOMAIN audits =>
                 /\ Ends(audits, m.key, m.eoa, audits')
                 /\ lost' = lost /\ skew' = skew
           /\ m.key \notin DOMAIN audits => audits' = audits
<1>1. HandleData(m.key, m.pas, m.eoa) /\ m \in Message /\ m.type = "DATA"
  BY ServesData DEF ServeData
<1>2. m.eoa \in BOOLEAN /\ m.pas \in SUBSET PA
  BY <1>1, MessageFields
<1>3. ASSUME m.key \in DOMAIN audits
      PROVE  /\ Ends(audits, m.key, m.eoa, audits')
             /\ lost' = lost /\ skew' = skew
  <2>1. PICK k, r : k = m.key /\ r = Recorded(audits, k, m.pas)
    OBVIOUS
  <2>2. /\ audits' = IF m.eoa THEN Ended(r, k) ELSE r
        /\ lost' = lost /\ skew' = skew
    BY <1>1, <1>3, <2>1 DEF HandleData
  <2>3. Ends(audits, k, FALSE, r) /\ Ends(audits, k, TRUE, Ended(r, k))
    BY <1>2, <1>3, <2>1, DataEnds DEF IInv
  <2>4. CASE m.eoa
    BY <2>1, <2>2, <2>3, <2>4 DEF Ends
  <2>5. CASE ~m.eoa
    BY <2>1, <2>2, <2>3, <2>5 DEF Ends
  <2> QED BY <1>2, <2>2, <2>4, <2>5
<1>4. m.key \notin DOMAIN audits => audits' = audits
  BY <1>1 DEF HandleData
<1> QED BY <1>3, <1>4

(* The command of an SOA becomes known, and its group was begun by its     *)
(* process or by one that process descends from.                           *)
LEMMA SOAKeepsTree ==
    ASSUME BInv, IInv, TInv, NEW m, ServeSOA(m)
    PROVE  TInv'
<1>1. /\ m \in conn /\ m.type = "SOA" /\ m \in Message
      /\ Known' = Known \cup {m.key}
  BY ServesSOA
<1>2. PICK p, pred : p = m.from /\ pred = FindPred(audits, m.key, m.pccode, m.pcmdid)
  OBVIOUS
<1>3. /\ p \in Pid /\ m.key \in Key /\ m.key.cmdid = p /\ st[p] \in {"soa", "gone"}
      /\ env[p].depth = m.key.depth + 1
      /\ m.key = ca[p] /\ started[p]
      /\ m.pcmdid \in Pid \cup {NoPid}
  BY <1>1, <1>2, MessageFields DEF BInv, ConnOK, TInv, OwnOK
<1>4. \A n \in conn : n.from \in Pid /\ (n # m => n.from # p)
  BY <1>1, <1>2, MessageFields DEF BInv, ProcTypes, ConnOK
<1>5. \A k \in Known : k.cmdid \in Pid
  BY DEF BInv, KeysOK, Key
<1>6. PICK ack \in Acks(m) :
          \/ /\ st[p] = "soa"
             /\ GoOn(p, ack)
             /\ conn' = conn \ {m}
          \/ /\ st[p] = "soa"
             /\ GoHome(p, ack)
             /\ conn' = (conn \ {m}) \cup {EndMessage(p, TRUE)}
          \/ /\ st[p] = "gone"
             /\ conn' = conn \ {m}
             /\ UNCHANGED procVars
  BY <1>2 DEF ServeSOA
<1>7. parent' = parent /\ ca' = ca /\ started' = started
  BY <1>6 DEF GoOn, GoHome, procVars
<1>8. \A o, x : Under(o, x)' <=> Under(o, x)
  BY <1>7, UnderKept
<1>9. st'[p] \in {"run", "exit", "gone"} /\ \A x \in Pid : x # p => st'[x] = st[x]
  <2>1. st' = st \/ \E s \in {"run", "exit"} : st' = [st EXCEPT ![p] = s]
    BY <1>6 DEF GoOn, GoHome, procVars
  <2>2. st' = st => st[p] = "gone"
    BY <1>3, <1>6 DEF GoOn, GoHome, BInv, ProcTypes
  <2> QED BY <1>3, <2>1, <2>2 DEF BInv, ProcTypes
<1>10. /\ \A x \in Pid : x # p => env'[x] = env[x]
       /\ \/ env'[p] = env[p] /\ st'[p] # "run"
          \/ env'[p].pcmdid = p /\ env'[p].pccode = ca[p].code /\ env'[p].depth = env[p].depth
  <2>1. CASE GoOn(p, ack)
    BY <1>3, <2>1, GoOnEnv DEF BInv
  <2>2. CASE GoHome(p, ack)
    BY <1>3, <2>2 DEF GoHome, BInv, ProcTypes
  <2>3. CASE st[p] = "gone" /\ UNCHANGED procVars
    BY <2>3 DEF procVars
  <2> QED BY <1>6, <2>1, <2>2, <2>3
<1>11. \A n \in conn' : \/ n \in conn /\ n # m
                        \/ /\ n.type = "DATA" /\ n.from = p /\ n.key = ca[p]
                           /\ st'[p] # "preexec"
  <2>1. CASE conn' = conn \ {m}
    BY <2>1
  <2>2. CASE conn' = (conn \ {m}) \cup {EndMessage(p, TRUE)}
    BY <1>9, <2>2 DEF EndMessage
  <2> QED BY <1>6, <2>1, <2>2
<1>12. TreeOK'
  BY <1>3, <1>7, <1>8, <1>9, BuildConstantsOK DEF TInv, TreeOK
<1>13. LineOK'
  <2>1. Announced(audits, m.key, m.pccode, pred, audits')
    BY <1>2, ServedSOA
  <2>2. ASSUME NEW k \in DOMAIN audits', audits'[k].leader # NoKey
        PROVE  Under(audits'[k].leader.cmdid, k.cmdid)
    <3>1. CASE k # m.key
      BY <2>1, <2>2, <3>1 DEF Announced, TInv, LineOK
    <3>2. CASE k = m.key /\ audits'[k].leader = m.key
      BY <3>2, UnderSelf
    <3>3. CASE k = m.key /\ pred # NoKey /\ audits'[k].leader = audits[pred].leader
      <4>1. pred \in DOMAIN audits /\ pred.cmdid \in {p, m.pcmdid} /\ pred.cmdid \in Pid
        BY <1>2, <3>3, ServedSOA DEF IInv, TypeOK, Key
      <4>2. Under(audits[pred].leader.cmdid, pred.cmdid)
        BY <2>2, <3>3, <4>1 DEF TInv, LineOK
      <4>3. Under(pred.cmdid, p)
        BY <1>1, <1>2, <4>1, UnderSelf, BuildConstantsOK DEF TInv, LineOK
      <4> QED BY <1>3, <3>3, <4>2, <4>3, UnderTrans
    <3> QED BY <2>1, <2>2, <3>1, <3>2, <3>3 DEF Announced
  <2>3. \A x \in Pid : env'[x].pcmdid = env[x].pcmdid \/ (x = p /\ env'[x].pcmdid = p)
    BY <1>9, <1>10
  <2>4. \A n \in conn' : n.type = "SOA" => n \in conn
    BY <1>11
  <2> QED BY <1>7, <1>8, <2>2, <2>3, <2>4, UnderSelf DEF TInv, LineOK
<1>14. OwnOK'
  <2>1. \A n \in conn' : n.type = "DATA" /\ n.eoa => started[n.from] /\ st'[n.from] # "preexec"
    BY <1>3, <1>4, <1>9, <1>11 DEF TInv, OwnOK
  <2>2. \A n \in conn' : /\ n.type = "SOA" => n.key = ca[n.from] /\ started[n.from]
                         /\ n.type = "DATA" => n.key = ca[n.from]
    BY <1>11 DEF TInv, OwnOK
  <2> QED BY <1>1, <1>3, <1>7, <1>9, <2>1, <2>2 DEF TInv, OwnOK
<1>15. PredOK'
  <2>1. st'[p] = "run" => /\ ca[p] \in Known'
                          /\ env'[p].pccode = ca[p].code
                          /\ env'[p].pcmdid = ca[p].cmdid
                          /\ env'[p].depth = ca[p].depth + 1
    BY <1>1, <1>3, <1>10
  <2>2. \A n \in conn' : n.type = "SOA" => n \in conn /\ n.from # p
    BY <1>4, <1>11
  <2> QED BY <1>1, <1>3, <1>7, <1>9, <1>10, <2>1, <2>2 DEF TInv, PredOK
<1> QED BY <1>12, <1>13, <1>14, <1>15 DEF TInv

(* Path actions and an EOA change no command and no group.                 *)
LEMMA DataKeepsTree ==
    ASSUME BInv, IInv, TInv, NEW m, ServeData(m)
    PROVE  TInv'
<1>1. m \in conn /\ m.type = "DATA" /\ m \in Message /\ Known' = Known
  BY ServesData
<1>2. PICK p : p = m.from
  OBVIOUS
<1>3. p \in Pid /\ st[p] \in {"preexec", "exit", "gone"}
  BY <1>1, <1>2, MessageFields DEF BInv, ConnOK
<1>4. PICK s \in {"exec", "gone"} :
         /\ s = "exec" => st[p] = "preexec"
         /\ st' = [st EXCEPT ![p] = s]
         /\ conn' = conn \ {m}
         /\ parent' = parent /\ ca' = ca /\ env' = env /\ started' = started
  BY <1>2, <1>3 DEF ServeData, BInv, ProcTypes
<1>5. st'[p] = s /\ \A x \in Pid : x # p => st'[x] = st[x]
  BY <1>3, <1>4 DEF BInv, ProcTypes
<1>6. \A n \in conn : n.from \in Pid /\ (n # m => n.from # p)
  BY <1>1, <1>2, MessageFields DEF BInv, ProcTypes, ConnOK
<1>7. \A o, x : Under(o, x)' <=> Under(o, x)
  BY <1>4, UnderKept
<1>8. TreeOK'
  BY <1>3, <1>4, <1>5, <1>7, BuildConstantsOK DEF TInv, TreeOK
<1>9. LineOK'
  <2>1. \A k \in DOMAIN audits' : k \in DOMAIN audits /\ audits'[k].leader = audits[k].leader
    BY ServedData DEF Ends
  <2> QED BY <1>4, <1>7, <2>1 DEF TInv, LineOK
<1>10. OwnOK'
  BY <1>1, <1>4, <1>5, <1>6 DEF TInv, OwnOK
<1>11. PredOK'
  BY <1>1, <1>3, <1>4, <1>5 DEF TInv, PredOK
<1> QED BY <1>8, <1>9, <1>10, <1>11 DEF TInv

(* Every step of the build keeps the tree.                                 *)
LEMMA TreeKept ==
    BInv /\ IInv /\ TInv /\ [BuildNext]_buildVars => TInv'
<1> SUFFICES ASSUME BInv, IInv, TInv, [BuildNext]_buildVars PROVE TInv'
  OBVIOUS
<1>1. ASSUME NEW p \in Pid, _pa_record(p) PROVE TInv'
  BY <1>1, TreeFrame DEF _pa_record
<1>2. ASSUME NEW p \in Pid, Process(p) PROVE TInv'
  BY <1>1, <1>2, ForkKeepsTree, EndKeepsTree, ExecFailsKeepsTree, BeginKeepsTree,
     KillKeepsTree DEF Process
<1>3. ASSUME NEW p \in Pid, Serve(p) PROVE TInv'
  BY <1>3, SOAKeepsTree, DataKeepsTree, ResetKeepsTree DEF Serve
<1>4. CASE Stop \/ Over \/ UNCHANGED buildVars
  BY <1>4, TreeFrame DEF Stop, Over, buildVars, procVars
<1> QED BY <1>2, <1>3, <1>4 DEF BuildNext

-----------------------------------------------------------------------------
(* A build whose processes wait for their children *)

(* While every process waits for its children, a process is outlived by    *)
(* its parent, and the monitor by the build ...                            *)
Parents ==
    /\ \A p \in Pid : Alive(p) /\ p # Top => Alive(parent[p]) /\ st[parent[p]] # "exit"
    /\ stopped => ~Alive(Top)

(* ... so a command stays open as long as its process lives.               *)
StillOpen ==
    \A k \in Known : Alive(k.cmdid) => k \in DOMAIN audits /\ ~audits[k].closed

WInv == ~orphans => Parents /\ StillOpen

(* Then whoever descends from a dead process is dead.                      *)
Outlived == \A o, p \in Pid : ~Alive(o) /\ Under(o, p) => ~Alive(p)

(* It follows from the tree of processes, by induction along descent.      *)
LEMMA DeadBelow == TreeOK /\ Parents => Outlived
<1> SUFFICES ASSUME TreeOK, Parents, NEW o \in Pid, NEW p \in Pid, ~Alive(o), Under(o, p)
             PROVE  ~Alive(p)
  BY DEF Outlived
<1> DEFINE S == {x \in Pid : ~Alive(x)}
<1>1. ASSUME NEW x \in Pid, parent[x] \in S PROVE x \in S
  <2>1. x # Top
    BY <1>1, BuildConstantsOK DEF TreeOK
  <2> QED BY <1>1, <2>1 DEF Parents
<1>2. S \in SUBSET Pid /\ o \in S /\ Family(S)
  BY <1>1 DEF Family
<1>3. p \in S
  BY <1>2 DEF Under
<1> QED BY <1>3

(* What a step does to the living: new ones are forked by a process that   *)
(* runs, and one that dies or exits leaves no child.                       *)
Lives ==
    /\ ~orphans
    /\ \A x \in Pid : Alive(x)' =>
          \/ Alive(x) /\ parent'[x] = parent[x]
          \/ st[x] = "free" /\ parent'[x] \in Pid /\ st'[parent'[x]] = "run"
    /\ \A x \in Pid : Alive(x) /\ st[x] # "exit" =>
          \/ Alive(x)' /\ st'[x] # "exit"
          \/ \A q \in Pid : parent[q] = x => ~Alive(q)
    /\ stopped' => stopped \/ st[Top] = "gone"

(* A step of one process is of this kind if it forks nobody and, where it  *)
(* ends the process, leaves no living child.                               *)
LEMMA LivesOn ==
    ASSUME ProcTypes, ~orphans, parent' = parent, stopped' => stopped \/ st[Top] = "gone",
           NEW p \in Pid, NEW s, st' = [st EXCEPT ![p] = s],
           Alive(p) \/ s = "gone",
           \/ s \notin {"exit", "gone", "free"}
           \/ st[p] = "exit" \/ ~Alive(p)
           \/ \A q \in Pid : parent[q] = p => ~Alive(q)
    PROVE  Lives
<1>1. st'[p] = s /\ \A x \in Pid : x # p => st'[x] = st[x]
  BY DEF ProcTypes
<1> QED BY <1>1 DEF Lives, Alive

(* Every step of a build is of this kind.                                  *)
LEMMA StepLives ==
    ASSUME BInv, TInv, WInv, [BuildNext]_buildVars, ~orphans'
    PROVE  Lives
<1>1. ASSUME NEW p \in Pid, LeavesOrphans(p)
      PROVE  ~orphans /\ \A q \in Pid : parent[q] = p => ~Alive(q)
  BY <1>1, Zenon DEF LeavesOrphans
<1>2. ProcTypes
  BY DEF BInv
<1>3. ASSUME NEW p \in Pid, _pa_record(p)
      PROVE  Lives
  BY <1>3 DEF _pa_record, Lives, Alive
<1>4. ASSUME NEW p \in Pid, NEW q \in Pid, fork_wrapper(p, q) \/ system_wrapper(p, q)
      PROVE  Lives
  <2>1. /\ st[p] = "run" /\ st[q] = "free" /\ p # q
        /\ parent' = [parent EXCEPT ![q] = p]
        /\ orphans' = orphans /\ stopped' = stopped
    BY <1>4 DEF fork_wrapper, system_wrapper
  <2>2. PICK s \in {"run", "spawn"} : st' = [st EXCEPT ![q] = s]
    BY <1>4 DEF fork_wrapper, system_wrapper
  <2>3. /\ st'[q] = s /\ parent'[q] = p /\ st'[p] = "run"
        /\ \A x \in Pid : x # q => st'[x] = st[x] /\ parent'[x] = parent[x]
    BY <1>2, <2>1, <2>2 DEF ProcTypes
  <2> QED BY <2>1, <2>3 DEF Lives, Alive
<1>5. ASSUME NEW p \in Pid, _pre_exec(p)
      PROVE  Lives
  <2>1. /\ Alive(p) /\ st' = [st EXCEPT ![p] = "preexec"]
        /\ parent' = parent /\ stopped' = stopped /\ ~orphans
    BY <1>5 DEF _pre_exec, Alive
  <2> QED BY <1>2, <2>1, LivesOn
<1>6. ASSUME NEW p \in Pid, _exit_wrapper(p)
      PROVE  Lives
  <2>1. /\ Alive(p) /\ st' = [st EXCEPT ![p] = "exit"]
        /\ parent' = parent /\ stopped' = stopped
    BY <1>6 DEF _exit_wrapper, Alive
  <2>2. ~orphans /\ \A q \in Pid : parent[q] = p => ~Alive(q)
    BY <1>1, <1>6 DEF _exit_wrapper
  <2> QED BY <1>2, <2>1, <2>2, LivesOn
<1>7. ASSUME NEW p \in Pid, ExecFails(p)
      PROVE  Lives
  <2>1. PICK s \in {"run", "gone"} :
           /\ st[p] \in {"exec", "spawn"} /\ (s = "gone" => st[p] = "spawn")
           /\ st' = [st EXCEPT ![p] = s]
           /\ parent' = parent /\ stopped' = stopped /\ ~orphans
    BY <1>7 DEF ExecFails
  <2>2. s = "gone" => \A q \in Pid : parent[q] # p
    BY <2>1 DEF TInv, TreeOK
  <2>3. Alive(p)
    BY <2>1 DEF Alive
  <2> QED BY <1>2, <2>1, <2>2, <2>3, LivesOn
<1>8. ASSUME NEW p \in Pid, NEW c \in Code, _init_auditlib(p, c)
      PROVE  Lives
  <2>1. /\ Alive(p) /\ st' = [st EXCEPT ![p] = "soa"]
        /\ parent' = parent /\ stopped' = stopped /\ ~orphans
    BY <1>8 DEF _init_auditlib, Alive
  <2> QED BY <1>2, <2>1, LivesOn
<1>9. ASSUME NEW p \in Pid, Kill(p)
      PROVE  Lives
  <2>1. /\ Alive(p) /\ st' = [st EXCEPT ![p] = "gone"]
        /\ parent' = parent /\ stopped' = stopped
    BY <1>9 DEF Kill
  <2>2. ~orphans /\ \A q \in Pid : parent[q] = p => ~Alive(q)
    BY <1>1, <1>9 DEF Kill
  <2> QED BY <1>2, <2>1, <2>2, LivesOn
<1>10. ASSUME NEW m \in conn, ServeSOA(m)
       PROVE  Lives
  <2>1. m.from \in Pid /\ stopped' = stopped
    BY <1>2, <1>10, MessageFields DEF ProcTypes, ServeSOA
  <2>2. PICK ack \in Acks(m) :
          \/ st[m.from] = "soa" /\ GoOn(m.from, ack)
          \/ st[m.from] = "soa" /\ GoHome(m.from, ack)
          \/ st[m.from] = "gone" /\ UNCHANGED procVars
    BY <1>10 DEF ServeSOA
  <2>3. CASE st[m.from] = "soa" /\ GoOn(m.from, ack)
    <3>1. /\ Alive(m.from) /\ st' = [st EXCEPT ![m.from] = "run"]
          /\ parent' = parent /\ ~orphans
      BY <2>3 DEF GoOn, Alive
    <3> QED BY <1>2, <2>1, <3>1, LivesOn
  <2>4. CASE st[m.from] = "soa" /\ GoHome(m.from, ack)
    <3>1. /\ Alive(m.from) /\ st' = [st EXCEPT ![m.from] = "exit"]
          /\ parent' = parent
      BY <2>4 DEF GoHome, Alive
    <3>2. ~orphans /\ \A q \in Pid : parent[q] = m.from => ~Alive(q)
      BY <1>1, <2>1, <2>4 DEF GoHome
    <3> QED BY <1>2, <2>1, <3>1, <3>2, LivesOn
  <2>5. CASE UNCHANGED procVars
    BY <2>1, <2>5 DEF procVars, Lives, Alive
  <2> QED BY <2>2, <2>3, <2>4, <2>5
<1>11. ASSUME NEW m \in conn, ServeData(m)
       PROVE  Lives
  <2>1. m.type = "DATA" /\ m.from \in Pid /\ st[m.from] \in {"preexec", "exit", "gone"}
    BY <1>2, <1>11, MessageFields DEF ProcTypes, BInv, ConnOK, ServeData
  <2>2. PICK s \in {"exec", "gone"} :
           /\ s = "exec" <=> st[m.from] = "preexec"
           /\ st' = [st EXCEPT ![m.from] = s]
           /\ parent' = parent /\ stopped' = stopped /\ ~orphans
    BY <1>2, <1>11, <2>1 DEF ServeData, ProcTypes
  <2>3. s = "exec" => Alive(m.from)
    BY <2>2 DEF Alive
  <2>4. s = "gone" => st[m.from] = "exit" \/ ~Alive(m.from)
    BY <2>1, <2>2 DEF Alive
  <2> QED BY <1>2, <2>1, <2>2, <2>3, <2>4, LivesOn
<1>12. ASSUME NEW m \in conn, Reset(m)
       PROVE  Lives
  <2>1. /\ stopped /\ st' = [st EXCEPT ![m.from] = "gone"]
        /\ parent' = parent /\ stopped' = stopped /\ ~orphans
    BY <1>12 DEF Reset
  <2>2. m.from \in Pid /\ st[m.from] # "free" /\ Top \in Pid
    BY <1>2, MessageFields, BuildConstantsOK DEF ProcTypes, BInv, ConnOK
  <2>3. ~Alive(Top) /\ Outlived
    BY <2>1, DeadBelow DEF WInv, Parents, TInv
  <2>4. ~Alive(m.from)
    BY <2>2, <2>3 DEF Outlived, TInv, TreeOK
  <2> QED BY <1>2, <2>1, <2>2, <2>4, LivesOn
<1>13. CASE Stop \/ Over \/ UNCHANGED buildVars
  BY <1>13 DEF Stop, Over, buildVars, procVars, Lives, Alive
<1> QED BY <1>3, <1>4, <1>5, <1>6, <1>7, <1>8, <1>9, <1>10, <1>11, <1>12, <1>13
        DEF BuildNext, Process, Serve

(* So a process stays outlived by its parent.                              *)
LEMMA ParentsKept ==
    ASSUME BInv, TInv, WInv, Lives
    PROVE  Parents'
<1>1. Parents /\ TreeOK /\ Top \in Pid
  BY BuildConstantsOK DEF Lives, WInv, TInv
<1>2. ASSUME NEW p \in Pid, Alive(p)', p # Top
      PROVE  st'[parent'[p]] \notin {"free", "gone", "exit"}
  <2>1. CASE Alive(p) /\ parent'[p] = parent[p]
    <3>1. parent[p] \in Pid /\ Alive(parent[p]) /\ st[parent[p]] # "exit"
      BY <1>1, <1>2, <2>1 DEF Parents, TreeOK, Alive
    <3>2. PICK q \in Pid : q = parent[p]
      BY <3>1
    <3>3. Alive(q)' /\ st'[q] # "exit"
      BY <2>1, <3>1, <3>2 DEF Lives
    <3> QED BY <2>1, <3>2, <3>3 DEF Alive
  <2>2. CASE parent'[p] \in Pid /\ st'[parent'[p]] = "run"
    BY <2>2
  <2> QED BY <1>2, <2>1, <2>2 DEF Lives
<1>3. ASSUME stopped' PROVE ~Alive(Top)'
  BY <1>1, <1>3 DEF Lives, Parents, TreeOK, Alive
<1> QED BY <1>2, <1>3 DEF Parents, Alive

(* And the commands of the living stay open: the EOA of a process and the  *)
(* end of a group that it began find all those below it dead.              *)
LEMMA OpenKept ==
    ASSUME BInv, IInv, TInv, TInv', WInv, [BuildNext]_buildVars, Lives, Parents'
    PROVE  StillOpen'
<1>1. StillOpen
  BY DEF Lives, WInv
<1>2. ASSUME NEW x \in Known
      PROVE  x.cmdid \in Pid /\ (Alive(x.cmdid)' => Alive(x.cmdid))
  <2>1. x.cmdid \in Pid /\ st[x.cmdid] # "free"
    BY <1>2 DEF BInv, KeysOK, Key
  <2> QED BY <2>1 DEF Lives
<1>3. CASE UNCHANGED vars
  <2>1. Known' = Known /\ audits' = audits
    BY <1>3, MonitorIdle
  <2> QED BY <1>1, <1>2, <2>1 DEF StillOpen
<1>4. ASSUME NEW m \in conn, ServeSOA(m)
      PROVE  StillOpen'
  <2>1. PICK pred : pred = FindPred(audits, m.key, m.pccode, m.pcmdid)
    OBVIOUS
  <2>2. Announced(audits, m.key, m.pccode, pred, audits') /\ Known' = Known \cup {m.key}
    BY <1>4, <2>1, ServedSOA, ServesSOA
  <2>3. ASSUME NEW k \in Known', Alive(k.cmdid)'
        PROVE  k \in DOMAIN audits' /\ ~audits'[k].closed
    <3>1. CASE k = m.key
      BY <2>2, <3>1 DEF Announced
    <3>2. CASE k # m.key
      <4>1. k \in DOMAIN audits /\ ~audits[k].closed
        BY <1>1, <1>2, <2>2, <2>3, <3>2 DEF StillOpen
      <4> QED BY <2>2, <3>2, <4>1 DEF Announced
    <3> QED BY <3>1, <3>2
  <2> QED BY <2>3 DEF StillOpen
<1>5. ASSUME NEW m \in conn, ServeData(m)
      PROVE  StillOpen'
  <2>1. Known' = Known /\ m.type = "DATA" /\ m \in Message
    BY <1>5, ServesData
  <2>2. CASE m.key \notin DOMAIN audits
    <3>1. audits' = audits
      BY <1>5, <2>2, ServedData
    <3> QED BY <1>1, <1>2, <2>1, <3>1 DEF StillOpen
  <2>3. CASE m.key \in DOMAIN audits
    <3>1. Ends(audits, m.key, m.eoa, audits')
      BY <1>5, <2>3, ServedData
    <3>2. ASSUME m.eoa
          PROVE  m.key.cmdid = m.from /\ m.from \in Pid /\ ~Alive(m.from)'
      <4>1. m.from \in Pid /\ m.key = ca[m.from] /\ started[m.from] /\ st[m.from] # "preexec"
        BY <2>1, <3>2, MessageFields DEF TInv, OwnOK
      <4>2. m.key.cmdid = m.from
        BY <4>1 DEF TInv, OwnOK
      <4>3. st'[m.from] = "gone"
        BY <1>5, <4>1 DEF ServeData, BInv, ProcTypes
      <4> QED BY <4>1, <4>2, <4>3 DEF Alive
    <3>3. Outlived'
      BY DeadBelow, PTL DEF TInv
    <3>4. parent' = parent
      BY <1>5 DEF ServeData
    <3>5. ASSUME NEW k \in Known, Alive(k.cmdid)'
          PROVE  k \in DOMAIN audits' /\ ~audits'[k].closed
      <4>1. k \in DOMAIN audits /\ ~audits[k].closed /\ k.cmdid \in Pid
        BY <1>1, <1>2, <3>5 DEF StillOpen
      <4>2. m.eoa => k.cmdid # m.key.cmdid
        BY <3>2, <3>5
      <4>3. ASSUME k \notin DOMAIN audits' PROVE FALSE
        <5>1. PICK l : /\ l = audits[k].leader /\ l \in DOMAIN audits
                       /\ l.cmdid = m.key.cmdid \/ audits[l].closed
          BY <3>1, <4>1, <4>2, <4>3 DEF Ends
        <5>2. l # NoKey /\ l \in Known /\ l.cmdid \in Pid
          BY <1>2, <5>1, ConstantsOK DEF Known, IInv, TypeOK
        <5>3. Under(l.cmdid, k.cmdid)
          BY <4>1, <5>1, <5>2 DEF TInv, LineOK
        <5>4. PICK o \in Pid, q \in Pid : o = l.cmdid /\ q = k.cmdid
          BY <4>1, <5>2
        <5>5. Under(o, q)'
          BY <3>4, <5>3, <5>4, UnderKept
        <5>6. ~Alive(o)'
          <6>1. CASE l.cmdid = m.key.cmdid
            <7>1. m.eoa
              BY <3>1, <4>1, <4>3 DEF Ends
            <7> QED BY <3>2, <5>4, <6>1, <7>1
          <6>2. CASE audits[l].closed
            BY <1>1, <1>2, <5>2, <5>4, <6>2 DEF StillOpen
          <6> QED BY <5>1, <6>1, <6>2
        <5>7. Alive(q)'
          BY <3>5, <5>4
        <5> QED BY <3>3, <5>5, <5>6, <5>7 DEF Outlived
      <4>4. audits'[k].closed = audits[k].closed
        BY <3>1, <4>2, <4>3 DEF Ends
      <4> QED BY <4>1, <4>3, <4>4
    <3> QED BY <2>1, <3>5 DEF StillOpen
  <2> QED BY <2>2, <2>3
<1>6. UNCHANGED vars \/ \E m \in conn : ServeSOA(m) \/ ServeData(m)
  BY DEF BuildNext, buildVars, Process, Serve, Stop, Over, Reset, _pa_record, fork_wrapper,
         system_wrapper, _pre_exec, ExecFails, _init_auditlib, _exit_wrapper, Kill
<1> QED BY <1>3, <1>4, <1>5, <1>6

(* The build begins with one process and no command.                       *)
LEMMA WaitingBegins == BuildInit => WInv
<1> SUFFICES ASSUME BuildInit PROVE WInv
  OBVIOUS
<1>1. Known = {} /\ ~stopped
  BY DEF BuildInit, Init, Known, Reported
<1>2. \A p \in Pid : Alive(p) => p = Top
  BY DEF BuildInit, Alive
<1> QED BY <1>1, <1>2 DEF WInv, Parents, StillOpen

(* Both stay true while every process waits for its children.              *)
LEMMA WaitingKept ==
    BInv /\ IInv /\ TInv /\ WInv /\ [BuildNext]_buildVars => WInv'
<1> SUFFICES ASSUME BInv, IInv, TInv, WInv, [BuildNext]_buildVars, ~orphans'
             PROVE  Parents' /\ StillOpen'
  BY DEF WInv
<1>1. TInv'
  BY TreeKept
<1>2. Lives
  BY StepLives
<1>3. Parents'
  BY <1>2, ParentsKept
<1> QED BY <1>1, <1>2, <1>3, OpenKept

-----------------------------------------------------------------------------
(* ... and none of them is killed *)

(* A command a process runs is the one it is running, or the SOA of the    *)
(* next one is on its way, or the next one is open and leads back to it.   *)
Linked(k) ==
    \/ k = ca[k.cmdid]
    \/ \E m \in conn : m.type = "SOA" /\ m.from = k.cmdid /\ m.pred = k
    \/ \E x \in DOMAIN audits : Up(audits, x) = k

(* Messages come from the living, and those of a process that exits end    *)
(* the audit if there is one.                                              *)
SentByLiving ==
    \A m \in conn :
        /\ Alive(m.from)
        /\ m.type = "DATA" /\ st[m.from] = "exit" => (m.eoa <=> started[m.from])

(* The commands of a dead process are closed, those of a living one can be *)
(* reached from the one it runs.                                           *)
ChainsOK ==
    \A k \in DOMAIN audits : /\ Alive(k.cmdid) => Linked(k)
                             /\ ~Alive(k.cmdid) => audits[k].closed

(* Every path action made is somewhere.                                    *)
NoneMissing ==
    \A p \in Pid : \A a \in Made(p) :
        \/ a \in seen \cup mem[p] \cup file[p]
        \/ \E m \in conn : m.type = "DATA" /\ m.from = p /\ a \in m.pas

Whole == SentByLiving /\ lost = {} /\ skew = {} /\ ChainsOK /\ NoneMissing

CInv == ~orphans /\ kills = 0 => Whole

(* If each audit of a process leads to the last one, the EOA of the last   *)
(* closes them all.                                                        *)
LEMMA UpstreamAll ==
    ASSUME NEW t, DOMAIN t \subseteq Key, NEW k \in DOMAIN t, NEW N \in Nat,
           \A j \in DOMAIN t : j.cmdid = k.cmdid => j.depth <= N,
           \A j \in DOMAIN t : j.cmdid = k.cmdid =>
              j = k \/ \E x \in DOMAIN t : Up(t, x) = j
    PROVE  \A j \in DOMAIN t : j.cmdid = k.cmdid => j \in Upstream(t, k)
<1> SUFFICES ASSUME NEW j \in DOMAIN t, j.cmdid = k.cmdid, NEW S \in SUBSET DOMAIN t,
                    k \in S, \A x \in S : Up(t, x) \in DOMAIN t => Up(t, x) \in S,
                    j \notin S
             PROVE  FALSE
  BY DEF Upstream
<1> DEFINE B == {y \in DOMAIN t : y.cmdid = k.cmdid /\ y \notin S}
           T == {N - y.depth : y \in B}
           R == {ss \in Nat \X Nat : ss[1] < ss[2]}
<1>1. \A y \in DOMAIN t : y.depth \in Nat
  BY ConstantsOK DEF Key
<1>2. T \subseteq Nat /\ T # {}
  BY <1>1
<1>3. IsWellFoundedOn(R, Nat)
  BY NatLessThanWellFounded DEF OpToRel
<1>4. PICK n \in T : \A z \in T : ~(<<z, n>> \in R)
  <2> HIDE DEF T, R
  <2> QED BY <1>2, <1>3, WFMin
<1>5. PICK y \in B : n = N - y.depth
  OBVIOUS
<1>6. PICK x \in DOMAIN t : Up(t, x) = y
  BY <1>5
<1>7. x.cmdid = k.cmdid /\ y.depth = x.depth - 1
  BY <1>5, <1>6 DEF Up
<1>8. x \notin S
  BY <1>5, <1>6
<1>9. N - x.depth \in T /\ N - x.depth < n /\ N - x.depth \in Nat /\ n \in Nat
  BY <1>1, <1>2, <1>5, <1>7, <1>8
<1>10. <<N - x.depth, n>> \in R
  BY <1>9
<1> QED BY <1>4, <1>9, <1>10

(* With nobody killed, the audit a living process sends to is open.        *)
LEMMA SentToOpen ==
    ASSUME BInv, TInv, Parents, StillOpen, SentByLiving,
           NEW m \in conn, m.type = "DATA"
    PROVE  m.key \in DOMAIN audits
<1>1. /\ m.from \in Pid /\ m.key \in Key /\ m.key = ca[m.from] /\ Alive(m.from)
      /\ st[m.from] \in {"preexec", "exit"}
  BY MessageFields DEF BInv, ProcTypes, ConnOK, TInv, OwnOK, SentByLiving, Alive
<1>2. m.key \in Known /\ m.key # NoKey
  BY <1>1, ConstantsOK DEF TInv, PredOK
<1>3. m.key.cmdid \in Pid /\ Under(m.key.cmdid, m.from)
  BY <1>1, <1>2 DEF TInv, LineOK, Key
<1>4. Alive(m.key.cmdid)
  BY <1>1, <1>3, DeadBelow DEF Outlived, TInv
<1> QED BY <1>2, <1>4 DEF StillOpen

(* The predecessor of the SOA of a living process is open and is found.    *)
LEMMA PredIsFound ==
    ASSUME BInv, IInv, TInv, Parents, StillOpen,
           NEW m \in conn, m.type = "SOA", Alive(m.from)
    PROVE  FindPred(audits, m.key, m.pccode, m.pcmdid) = m.pred
<1>1. m.from \in Pid /\ m.key \in Key /\ m.key.cmdid = m.from /\ m.key.depth \in Nat
  BY MessageFields, ConstantsOK DEF BInv, ProcTypes, ConnOK, Key
<1>2. CASE m.pred = NoKey /\ m.pccode = NoCode
  <2>1. \A k \in DOMAIN audits : k.code # NoCode
    BY ConstantsOK DEF IInv, TypeOK, Key
  <2> QED BY <1>2, <2>1 DEF FindPred
<1>3. CASE /\ m.pred \in Known
           /\ m.pccode = m.pred.code
           /\ m.pcmdid = m.pred.cmdid
           /\ m.key.depth = m.pred.depth + 1
           /\ m.pred.cmdid # m.from => \A k \in Known : k.cmdid # m.from
  <2>1. m.pred \in Key /\ m.pred # NoKey /\ m.pred.depth \in Nat /\ m.pred.cmdid \in Pid
    BY <1>3, ConstantsOK DEF BInv, KeysOK, Key
  <2>2. Under(m.pred.cmdid, m.from)
    BY <2>1 DEF TInv, LineOK
  <2>3. Alive(m.pred.cmdid)
    BY <1>1, <2>1, <2>2, DeadBelow DEF Outlived, TInv
  <2>4. m.pred \in DOMAIN audits
    BY <1>3, <2>3 DEF StillOpen
  <2>5. m.pred = [code |-> m.pccode, depth |-> m.key.depth - 1, cmdid |-> m.pcmdid]
    BY <1>3, <2>1 DEF Key
  <2>6. m.key.depth # 0
    BY <1>3, <2>1
  <2>7. CASE m.pcmdid = m.from
    BY <1>1, <2>4, <2>5, <2>6, <2>7 DEF FindPred
  <2>8. CASE m.pcmdid # m.from
    <3>1. [code |-> m.pccode, depth |-> m.key.depth - 1, cmdid |-> m.key.cmdid] \notin DOMAIN audits
      BY <1>1, <1>3, <2>8 DEF Known
    <3> QED BY <2>4, <2>5, <2>6, <3>1 DEF FindPred
  <2> QED BY <2>7, <2>8
<1> QED BY <1>2, <1>3 DEF TInv, PredOK

(* A step that does not reach the monitor keeps the chains of commands, if *)
(* a process that begins a command announces it.                           *)
LEMMA ChainsKept ==
    ASSUME ChainsOK, UNCHANGED vars, conn \subseteq conn',
           \A k \in DOMAIN audits :
              /\ Alive(k.cmdid)' <=> Alive(k.cmdid)
              /\ \/ ca'[k.cmdid] = ca[k.cmdid]
                 \/ \E m \in conn' : m.type = "SOA" /\ m.from = k.cmdid /\ m.pred = ca[k.cmdid]
    PROVE  ChainsOK'
<1>1. audits' = audits
  BY DEF vars
<1>2. ASSUME NEW k \in DOMAIN audits, Linked(k)
      PROVE  Linked(k)'
  BY <1>1, <1>2 DEF Linked
<1> QED BY <1>1, <1>2 DEF ChainsOK

(* The owner of an audit is a process that has sent an SOA.                *)
LEMMA OwnersStarted ==
    ASSUME BInv, TInv, NEW k \in DOMAIN audits
    PROVE  k \in Known /\ k \in Key /\ k.cmdid \in Pid /\ started[k.cmdid]
           /\ st[k.cmdid] \notin {"free", "spawn"}
BY DEF Known, BInv, KeysOK, Key, TInv, OwnOK

(* A path action recorded is in CurrentCA.                                 *)
LEMMA RecordKeepsWhole ==
    ASSUME BInv, TInv, Whole, NEW p \in Pid, _pa_record(p)
    PROVE  Whole'
<1>1. /\ seen' = seen /\ audits' = audits /\ lost' = lost /\ skew' = skew
      /\ UNCHANGED vars
  BY MonitorIdle DEF _pa_record
<1>2. /\ st' = st /\ conn' = conn /\ ca' = ca /\ started' = started /\ file' = file
      /\ mem' = [mem EXCEPT ![p] = @ \cup {NewAction(p)}]
  BY DEF _pa_record
<1>3. SentByLiving'
  BY <1>2 DEF Whole, SentByLiving, Alive
<1>4. ChainsOK'
  BY <1>1, <1>2, ChainsKept DEF Whole, Alive
<1>5. NoneMissing'
  <2>1. /\ Made(p)' = Made(p) \cup {NewAction(p)}
        /\ \A q \in Pid : q # p => Made(q)' = Made(q)
    BY MadeGrows DEF BInv, _pa_record
  <2>2. /\ mem'[p] = mem[p] \cup {NewAction(p)}
        /\ \A q \in Pid : q # p => mem'[q] = mem[q]
    BY <1>2 DEF BInv, ProcTypes
  <2> QED BY <1>1, <1>2, <2>1, <2>2 DEF Whole, NoneMissing
<1> QED BY <1>1, <1>3, <1>4, <1>5 DEF Whole

(* A fork moves the parent's path actions to its temp file and adds a      *)
(* process that has run nothing.                                           *)
LEMMA ForkKeepsWhole ==
    ASSUME BInv, TInv, Whole, NEW p \in Pid, NEW q \in Pid,
           fork_wrapper(p, q) \/ system_wrapper(p, q)
    PROVE  Whole'
<1>1. /\ seen' = seen /\ audits' = audits /\ lost' = lost /\ skew' = skew
      /\ UNCHANGED vars
  BY MonitorIdle DEF fork_wrapper, system_wrapper
<1>2. /\ st[p] = "run" /\ st[q] = "free" /\ p # q
      /\ ca' = [ca EXCEPT ![q] = ca[p]]
      /\ file' = [file EXCEPT ![p] = @ \cup mem[p]]
      /\ mem' = [mem EXCEPT ![p] = {}]
      /\ count' = count /\ conn' = conn
  BY DEF fork_wrapper, system_wrapper, _audit_flush
<1>3. \E s \in {"run", "spawn"} : st' = [st EXCEPT ![q] = s]
  BY DEF fork_wrapper, system_wrapper
<1>4. \A x \in Pid : x # q => ca'[x] = ca[x] /\ st'[x] = st[x]
  BY <1>2, <1>3 DEF BInv, ProcTypes
<1>5. \A x \in Pid : x # q => started'[x] = started[x]
  BY Zenon DEF BInv, FlagTypes, fork_wrapper, system_wrapper
<1>6. \A m \in conn : m.from # q /\ m.from \in Pid
  BY <1>2, MessageFields DEF BInv, ProcTypes, ConnOK
<1>7. SentByLiving'
  BY <1>2, <1>4, <1>5, <1>6 DEF Whole, SentByLiving, Alive
<1>8. \A k \in DOMAIN audits : k.cmdid \in Pid /\ k.cmdid # q
  BY <1>2, OwnersStarted
<1>9. ChainsOK'
  BY <1>1, <1>2, <1>4, <1>8, ChainsKept DEF Whole, Alive
<1>10. NoneMissing'
  <2>1. \A x : Made(x)' = Made(x)
    BY <1>2, MadeKept DEF BInv
  <2>2. \A x \in Pid : mem[x] \cup file[x] = mem'[x] \cup file'[x]
    BY <1>2 DEF BInv, ProcTypes
  <2>3. \A x \in Pid : \A a : a \in mem[x] \cup file[x] => a \in mem'[x] \cup file'[x]
    BY <2>2
  <2> QED BY <1>1, <1>2, <2>1, <2>3 DEF Whole, NoneMissing
<1> QED BY <1>1, <1>7, <1>9, <1>10 DEF Whole

(* A process that sends its path actions before an exec or at exit puts    *)
(* all of them on the way.                                                 *)
LEMMA EndKeepsWhole ==
    ASSUME BInv, TInv, Whole, NEW p \in Pid, _pre_exec(p) \/ _exit_wrapper(p)
    PROVE  Whole'
<1>1. /\ seen' = seen /\ audits' = audits /\ lost' = lost /\ skew' = skew
      /\ UNCHANGED vars
  BY MonitorIdle DEF _pre_exec, _exit_wrapper
<1>2. PICK exiting \in BOOLEAN, s \in {"preexec", "exit"} :
      /\ st[p] = "run"
      /\ exiting <=> s = "exit"
      /\ conn' = conn \cup {EndMessage(p, exiting)}
      /\ st' = [st EXCEPT ![p] = s]
      /\ file' = [file EXCEPT ![p] = {}]
      /\ mem' = [mem EXCEPT ![p] = {}]
      /\ ca' = ca /\ started' = started /\ count' = count
  BY DEF _pre_exec, _exit_wrapper, _audit_end
<1>3. PICK e : /\ e = EndMessage(p, exiting)
               /\ e.type = "DATA" /\ e.from = p /\ e.pas = file[p] \cup mem[p]
               /\ e.eoa = (exiting /\ started[p])
  BY <1>2, EndMessageFields DEF BInv, ProcOK
<1>4. conn' = conn \cup {e}
  BY <1>2, <1>3
<1>5. st'[p] = s /\ \A x \in Pid : x # p => st'[x] = st[x]
  BY <1>2 DEF BInv, ProcTypes
<1>6. \A m \in conn : m.from # p /\ m.from \in Pid
  BY <1>2, MessageFields DEF BInv, ProcTypes, ConnOK
<1>7. SentByLiving'
  BY <1>2, <1>3, <1>4, <1>5, <1>6 DEF Whole, SentByLiving, Alive
<1>8. \A x \in Pid : Alive(x)' <=> Alive(x)
  BY <1>2, <1>5 DEF Alive
<1>9. ChainsOK'
  BY <1>1, <1>2, <1>4, <1>8, ChainsKept, OwnersStarted DEF Whole
<1>10. NoneMissing'
  <2>1. \A x : Made(x)' = Made(x)
    BY <1>2, MadeKept DEF BInv
  <2>2. \A x \in Pid : x # p => mem'[x] = mem[x] /\ file'[x] = file[x]
    BY <1>2 DEF BInv, ProcTypes
  <2> QED BY <1>1, <1>3, <1>4, <2>1, <2>2 DEF Whole, NoneMissing
<1> QED BY <1>1, <1>7, <1>9, <1>10 DEF Whole

(* The child of a system() that could not exec has run no command that it  *)
(* would leave open.                                                       *)
LEMMA ExecFailsKeepsWhole ==
    ASSUME BInv, TInv, Whole, NEW p \in Pid, ExecFails(p)
    PROVE  Whole'
<1>1. /\ seen' = seen /\ audits' = audits /\ lost' = lost /\ skew' = skew
      /\ UNCHANGED vars
  BY MonitorIdle DEF ExecFails
<1>2. PICK s \in {"run", "gone"} :
      /\ st[p] \in {"exec", "spawn"}
      /\ s = "gone" => st[p] = "spawn"
      /\ st' = [st EXCEPT ![p] = s]
      /\ ca' = ca /\ started' = started /\ conn' = conn
      /\ mem' = mem /\ file' = file /\ count' = count
  BY DEF ExecFails
<1>3. st'[p] = s /\ \A x \in Pid : x # p => st'[x] = st[x]
  BY <1>2 DEF BInv, ProcTypes
<1>4. \A m \in conn : m.from # p /\ m.from \in Pid
  BY <1>2, MessageFields DEF BInv, ProcTypes, ConnOK
<1>5. SentByLiving'
  BY <1>2, <1>3, <1>4 DEF Whole, SentByLiving, Alive
<1>6. \A k \in DOMAIN audits : Alive(k.cmdid)' <=> Alive(k.cmdid)
  BY <1>2, <1>3, OwnersStarted DEF Alive
<1>7. ChainsOK'
  BY <1>1, <1>2, <1>6, ChainsKept DEF Whole
<1>8. NoneMissing'
  BY <1>1, <1>2, MadeKept DEF Whole, NoneMissing, BInv
<1> QED BY <1>1, <1>5, <1>7, <1>8 DEF Whole

(* The SOA of a new command links the one it was exec'ed over.             *)
LEMMA BeginKeepsWhole ==
    ASSUME BInv, TInv, Whole, NEW p \in Pid, NEW c \in Code, _init_auditlib(p, c)
    PROVE  Whole'
<1> DEFINE key == [code |-> c, depth |-> env[p].depth, cmdid |-> p]
           soa == [type |-> "SOA", from |-> p, key |-> key,
                   pccode |-> env[p].pccode, pcmdid |-> env[p].pcmdid,
                   noshop |-> env[p].agg, pred |-> ca[p]]
<1>1. /\ seen' = seen /\ audits' = audits /\ lost' = lost /\ skew' = skew
      /\ UNCHANGED vars
  BY MonitorIdle DEF _init_auditlib
<1>2. /\ st[p] \in {"exec", "spawn"}
      /\ st' = [st EXCEPT ![p] = "soa"]
      /\ ca' = [ca EXCEPT ![p] = key]
      /\ conn' = conn \cup {soa}
      /\ mem' = mem /\ file' = file /\ count' = count
  BY DEF _init_auditlib
<1>3. PICK m : m = soa
  OBVIOUS
<1>4. m.type = "SOA" /\ m.from = p /\ m.pred = ca[p]
  BY <1>3
<1>5. conn' = conn \cup {m}
  BY <1>2, <1>3
<1> HIDE DEF key, soa
<1>6. st'[p] = "soa" /\ \A x \in Pid : x # p => st'[x] = st[x] /\ ca'[x] = ca[x]
  BY <1>2 DEF BInv, ProcTypes
<1>7. \A x \in Pid : x # p => started'[x] = started[x]
  BY Zenon DEF BInv, FlagTypes, _init_auditlib
<1>8. \A n \in conn : n.from # p /\ n.from \in Pid
  BY <1>2, MessageFields DEF BInv, ProcTypes, ConnOK
<1>9. SentByLiving'
  BY <1>4, <1>5, <1>6, <1>7, <1>8 DEF Whole, SentByLiving, Alive
<1>10. ChainsOK'
  <2>1. ASSUME NEW k \in DOMAIN audits
        PROVE  /\ Alive(k.cmdid)' <=> Alive(k.cmdid)
               /\ \/ ca'[k.cmdid] = ca[k.cmdid]
                  \/ \E n \in conn' : n.type = "SOA" /\ n.from = k.cmdid /\ n.pred = ca[k.cmdid]
    <3>1. k.cmdid \in Pid
      BY OwnersStarted
    <3> QED BY <1>2, <1>4, <1>5, <1>6, <3>1 DEF Alive
  <2> QED BY <1>1, <1>5, <2>1, ChainsKept DEF Whole
<1>11. NoneMissing'
  BY <1>1, <1>2, <1>5, MadeKept DEF Whole, NoneMissing, BInv
<1> QED BY <1>1, <1>9, <1>10, <1>11 DEF Whole

(* Once the SOA is served, the new audit itself leads back to the one its  *)
(* process was running.                                                    *)
LEMMA SOAKeepsWhole ==
    ASSUME BInv, IInv, TInv, StillOpen, Whole, NEW m, ServeSOA(m)
    PROVE  Whole'
<1>1. /\ m \in conn /\ m.type = "SOA" /\ m \in Message
      /\ seen' = seen /\ lost' = lost /\ skew' = skew
  BY ServesSOA
<1>2. PICK p, pred : p = m.from /\ pred = FindPred(audits, m.key, m.pccode, m.pcmdid)
  OBVIOUS
<1>3. /\ p \in Pid /\ m.key \in Key /\ m.key.cmdid = p /\ m.key = ca[p]
      /\ st[p] = "soa" /\ m.key.depth \in Nat
  BY <1>1, <1>2, MessageFields, ConstantsOK
     DEF BInv, ConnOK, TInv, OwnOK, Whole, SentByLiving, Alive, Key
<1>4. \A n \in conn : n.from \in Pid /\ (n # m => n.from # p)
  BY <1>1, <1>2, MessageFields DEF BInv, ProcTypes, ConnOK
<1>5. PICK ack \in Acks(m) :
          \/ GoOn(p, ack) /\ conn' = conn \ {m}
          \/ GoHome(p, ack) /\ conn' = (conn \ {m}) \cup {EndMessage(p, TRUE)}
  BY <1>2, <1>3 DEF ServeSOA
<1>6. ca' = ca /\ started' = started /\ file' = file
  BY <1>5 DEF GoOn, GoHome
<1>7. /\ \E s \in {"run", "exit"} : st'[p] = s
      /\ \A x \in Pid : x # p => st'[x] = st[x]
  <2>1. \E s \in {"run", "exit"} : st' = [st EXCEPT ![p] = s]
    BY <1>5 DEF GoOn, GoHome
  <2> QED BY <1>3, <2>1 DEF BInv, ProcTypes
<1>8. \A x \in Pid : Alive(x)' <=> Alive(x)
  BY <1>3, <1>7 DEF Alive
<1>9. \A n \in conn' : \/ n \in conn /\ n # m
                       \/ n.type = "DATA" /\ n.from = p /\ n.eoa = started[p]
  <2>1. PICK b \in BOOLEAN : b = TRUE
    OBVIOUS
  <2>2. PICK e : e = EndMessage(p, b)
    OBVIOUS
  <2>3. ProcTypes /\ FlagTypes /\ ca[p] \in Key
    BY <1>3 DEF BInv
  <2>4. e.type = "DATA" /\ e.from = p /\ e.eoa = (b /\ started[p])
    BY <1>3, <2>2, <2>3, EndMessageFields
  <2>5. started[p] \in BOOLEAN
    BY <1>3, <2>3 DEF FlagTypes
  <2>6. e.eoa = started[p]
    BY <2>1, <2>4, <2>5
  <2>7. conn' = conn \ {m} \/ conn' = (conn \ {m}) \cup {e}
    BY <1>5, <2>1, <2>2
  <2> QED BY <2>4, <2>6, <2>7
<1>10. \A n \in conn : n # m => n \in conn'
  BY <1>5
<1>11. SentByLiving'
  <2> SUFFICES ASSUME NEW n \in conn'
               PROVE  /\ Alive(n.from)'
                      /\ n.type = "DATA" /\ st'[n.from] = "exit" => (n.eoa <=> started'[n.from])
    BY DEF SentByLiving
  <2>1. CASE n \in conn /\ n # m
    <3>1. n.from \in Pid /\ n.from # p
      BY <1>4, <2>1
    <3>2. st'[n.from] = st[n.from]
      BY <1>7, <3>1
    <3> QED BY <1>6, <1>8, <2>1, <3>1, <3>2 DEF Whole, SentByLiving
  <2>2. CASE n.type = "DATA" /\ n.from = p /\ n.eoa = started[p]
    <3>1. Alive(p)'
      BY <1>3, <1>8 DEF Alive
    <3> QED BY <1>6, <2>2, <3>1
  <2> QED BY <1>9, <2>1, <2>2
<1>12. ChainsOK'
  <2>1. Announced(audits, m.key, m.pccode, pred, audits')
    BY <1>2, ServedSOA
  <2>2. ASSUME NEW k \in DOMAIN audits', k # m.key
        PROVE  (Alive(k.cmdid)' => Linked(k)') /\ (~Alive(k.cmdid)' => audits'[k].closed)
    <3>1. k \in DOMAIN audits /\ audits'[k].closed = audits[k].closed
      BY <2>1, <2>2 DEF Announced
    <3>2. k \in Key /\ k.cmdid \in Pid
      BY <3>1, OwnersStarted
    <3>3. ASSUME Alive(k.cmdid), k = ca[k.cmdid] PROVE Linked(k)'
      BY <1>6, <3>3 DEF Linked
    <3>4. ASSUME Alive(k.cmdid), NEW n \in conn, n.type = "SOA", n.from = k.cmdid, n.pred = k
          PROVE  Linked(k)'
      <4>1. CASE n # m
        BY <1>10, <3>4, <4>1 DEF Linked
      <4>2. CASE n = m
        <5>1. m.pccode = k.code /\ m.key.depth = k.depth + 1 /\ k.cmdid = p /\ k.depth \in Nat
          BY <1>2, <3>2, <3>4, <4>2, ConstantsOK DEF TInv, PredOK, Key
        <5>2. m.key \in DOMAIN audits' /\ audits'[m.key].pccode = m.pccode
          BY <2>1 DEF Announced
        <5>3. Up(audits', m.key) = k
          BY <1>3, <3>2, <5>1, <5>2 DEF Up, Key
        <5> QED BY <5>2, <5>3 DEF Linked
      <4> QED BY <4>1, <4>2
    <3>5. ASSUME Alive(k.cmdid), NEW x \in DOMAIN audits, Up(audits, x) = k
          PROVE  Linked(k)'
      <4>1. x.cmdid = k.cmdid /\ x \in Known
        BY <3>5 DEF Up, Known
      <4>2. ~audits[x].closed
        BY <3>5, <4>1 DEF StillOpen
      <4>3. x \in DOMAIN audits' /\ x # m.key
        BY <1>1, <2>1, <4>1, <4>2, ServesSOA DEF Announced, Known
      <4>4. Up(audits', x) = Up(audits, x)
        BY <2>1, <4>3 DEF Announced, Up
      <4> QED BY <3>5, <4>3, <4>4 DEF Linked
    <3>6. Alive(k.cmdid) => Linked(k)'
      BY <3>1, <3>3, <3>4, <3>5 DEF Whole, ChainsOK, Linked
    <3> QED BY <1>8, <3>1, <3>2, <3>6 DEF Whole, ChainsOK
  <2>3. Linked(m.key)' /\ Alive(p)'
    BY <1>3, <1>6, <1>8 DEF Linked, Alive
  <2> QED BY <1>3, <2>2, <2>3 DEF ChainsOK
<1>13. NoneMissing'
  <2>1. mem[p] = {}
    BY <1>3 DEF BInv, ProcOK
  <2>2. \A x \in Pid : \A a \in Made(x)' : a \in Made(x) \/ a \in mem'[x]
    <3>1. CASE GoOn(p, ack)
      <4>1. /\ Made(p)' = Made(p) \cup {NewAction(p)}
            /\ \A q \in Pid : q # p => Made(q)' = Made(q)
        BY <1>3, <3>1, MadeGrows DEF BInv, ProcOK, GoOn
      <4>2. mem'[p] = {NewAction(p)}
        BY <1>3, <3>1 DEF GoOn, BInv, ProcTypes
      <4> QED BY <4>1, <4>2
    <3>2. CASE GoHome(p, ack)
      BY <3>2, MadeKept DEF GoHome, BInv
    <3> QED BY <1>5, <3>1, <3>2
  <2>3. \A x \in Pid : mem[x] \subseteq mem'[x]
    <3>1. \A x \in Pid : x # p => mem'[x] = mem[x]
      BY <1>3, <1>5 DEF GoOn, GoHome, BInv, ProcTypes
    <3> QED BY <2>1, <3>1
  <2>4. ASSUME NEW x \in Pid, NEW a \in Made(x)
        PROVE  \/ a \in seen' \cup mem'[x] \cup file'[x]
               \/ \E n \in conn' : n.type = "DATA" /\ n.from = x /\ a \in n.pas
    BY <1>1, <1>6, <1>10, <2>3 DEF Whole, NoneMissing
  <2> QED BY <2>2, <2>4 DEF NoneMissing
<1> QED BY <1>1, <1>11, <1>12, <1>13 DEF Whole

(* An EOA finds its audit open and closes all the audits of its process.   *)
LEMMA DataKeepsWhole ==
    ASSUME BInv, IInv, TInv, Parents, StillOpen, StillOpen', Whole, NEW m, ServeData(m)
    PROVE  Whole'
<1>1. /\ m \in conn /\ m.type = "DATA" /\ m \in Message
      /\ Known' = Known /\ seen' = seen \cup m.pas
  BY ServesData
<1>2. PICK p : p = m.from
  OBVIOUS
<1>3. p \in Pid /\ st[p] \in {"preexec", "exit"} /\ m.key = ca[p]
  BY <1>1, <1>2, MessageFields DEF BInv, ConnOK, Whole, SentByLiving, Alive, TInv, OwnOK
<1>4. PICK s \in {"exec", "gone"} :
         /\ s = "exec" <=> st[p] = "preexec"
         /\ st' = [st EXCEPT ![p] = s]
         /\ conn' = conn \ {m}
         /\ ca' = ca /\ started' = started
         /\ mem' = mem /\ file' = file /\ count' = count
  BY <1>2, <1>3 DEF ServeData, BInv, ProcTypes
<1>5. st'[p] = s /\ \A x \in Pid : x # p => st'[x] = st[x]
  BY <1>3, <1>4 DEF BInv, ProcTypes
<1>6. \A n \in conn : n.from \in Pid /\ (n # m => n.from # p)
  BY <1>1, <1>2, MessageFields DEF BInv, ProcTypes, ConnOK
<1>7. SentByLiving'
  BY <1>4, <1>5, <1>6 DEF Whole, SentByLiving, Alive
<1>8. m.key \in DOMAIN audits
  BY <1>1, SentToOpen DEF Whole
<1>9. Ends(audits, m.key, m.eoa, audits') /\ lost' = lost /\ skew' = skew
  BY <1>8, ServedData
<1>10. \A n \in conn : n.type = "SOA" => n \in conn'
  BY <1>1, <1>4
<1>11. ChainsOK'
  <2>1. ASSUME NEW k \in DOMAIN audits', Alive(k.cmdid)'
        PROVE  Linked(k)'
    <3>1. k \in DOMAIN audits /\ k.cmdid \in Pid
      BY <1>9, OwnersStarted DEF Ends
    <3>2. Alive(k.cmdid)
      BY <1>3, <1>5, <2>1, <3>1 DEF Alive
    <3>3. ASSUME NEW x \in DOMAIN audits, Up(audits, x) = k
          PROVE  x \in DOMAIN audits' /\ Up(audits', x) = k
      <4>1. x \in Known' /\ x.cmdid = k.cmdid
        BY <1>1, <3>3 DEF Known, Up
      <4>2. x \in DOMAIN audits'
        BY <2>1, <4>1 DEF StillOpen
      <4> QED BY <1>9, <3>3, <4>2 DEF Ends, Up
    <3> QED BY <1>4, <1>10, <3>1, <3>2, <3>3 DEF Whole, ChainsOK, Linked
  <2>2. ASSUME NEW k \in DOMAIN audits', ~Alive(k.cmdid)'
        PROVE  audits'[k].closed
    <3>1. /\ k \in DOMAIN audits /\ k.cmdid \in Pid /\ started[k.cmdid]
          /\ audits'[k].closed # audits[k].closed => k.cmdid = m.key.cmdid
      BY <1>9, OwnersStarted DEF Ends
    <3>2. CASE k.cmdid # p
      <4>1. audits[k].closed
        BY <1>5, <2>2, <3>1, <3>2 DEF Alive, Whole, ChainsOK
      <4>2. CASE m.eoa
        <5>1. m.key.cmdid = p
          BY <1>1, <1>2, <1>3, <4>2 DEF TInv, OwnOK
        <5> QED BY <3>1, <3>2, <4>1, <5>1
      <4>3. CASE ~m.eoa
        BY <1>9, <3>1, <4>1, <4>3 DEF Ends
      <4> QED BY <4>2, <4>3
    <3>3. CASE k.cmdid = p
      <4>1. st[p] = "exit" /\ m.eoa /\ started[p]
        BY <1>1, <1>2, <1>3, <1>4, <1>5, <2>2, <3>1, <3>3 DEF Alive, Whole, SentByLiving
      <4>2. Alive(p) /\ m.key.cmdid = p
        BY <1>3, <4>1 DEF Alive, TInv, OwnOK
      <4>3. PICK r, c : c = m.key /\ r = Recorded(audits, c, m.pas)
        OBVIOUS
      <4>4. m.pas \in SUBSET PA /\ Good(audits) /\ c \in DOMAIN audits
        BY <1>1, <1>8, <4>3, MessageFields DEF IInv
      <4>5. Good(r) /\ DOMAIN r = DOMAIN audits
        BY <4>3, <4>4, RecordedGood
      <4>6. Ends(audits, c, FALSE, r)
        BY <4>3, <4>4, DataEnds
      <4>7. \A x \in DOMAIN r : Up(r, x) = Up(audits, x)
        BY <4>5, <4>6 DEF Ends, Up
      <4>8. audits' = Ended(r, c)
        BY <1>1, <1>8, <4>1, <4>3 DEF ServeData, HandleData
      <4>9. ASSUME NEW j \in DOMAIN r, j.cmdid = c.cmdid
            PROVE  j = c \/ \E x \in DOMAIN r : Up(r, x) = j
        <5>1. Linked(j)
          BY <4>2, <4>3, <4>5, <4>9 DEF Whole, ChainsOK
        <5>2. ~\E n \in conn : n.type = "SOA" /\ n.from = j.cmdid
          BY <1>1, <1>6, <4>2, <4>3, <4>9
        <5> QED BY <1>3, <4>2, <4>3, <4>5, <4>7, <4>9, <5>1, <5>2 DEF Linked
      <4>10. PICK N \in Nat : N = env[p].depth
        BY <1>3 DEF BInv, ProcTypes, Env
      <4>11. \A j \in DOMAIN r : j.cmdid = c.cmdid => j.depth <= N
        <5>1. ASSUME NEW j \in DOMAIN r PROVE j \in Known /\ j.depth \in Nat
          <6>1. j \in DOMAIN audits
            BY <4>5
          <6>2. j \in Known /\ j \in Key
            BY <6>1, OwnersStarted
          <6> QED BY <6>2, ConstantsOK DEF Key
        <5> QED BY <4>2, <4>3, <4>10, <5>1 DEF BInv, KeysOK
      <4>12. DOMAIN r \subseteq Key /\ c \in DOMAIN r
        BY <4>4, <4>5 DEF Good, TableOK
      <4>13. k \in Upstream(r, c)
        <5>1. \A j \in DOMAIN r : j.cmdid = c.cmdid => j \in Upstream(r, c)
          <6>1. \A j \in DOMAIN r : j.cmdid = c.cmdid => j = c \/ \E x \in DOMAIN r : Up(r, x) = j
            BY <4>9
          <6> QED BY ONLY <4>11, <4>12, <6>1, N \in Nat, UpstreamAll
        <5> QED BY <3>1, <3>3, <4>2, <4>3, <4>5, <5>1
      <4>14. \A x \in DOMAIN Ended(r, c) : x \in Upstream(r, c) => Ended(r, c)[x].closed = TRUE
        BY <4>5, <4>12, EndedFacts
      <4> QED BY <2>2, <4>8, <4>13, <4>14
    <3> QED BY <3>2, <3>3
  <2> QED BY <2>1, <2>2 DEF ChainsOK
<1>12. NoneMissing'
  <2>1. \A x : Made(x)' = Made(x)
    BY <1>4, MadeKept DEF BInv
  <2> QED BY <1>1, <1>4, <2>1 DEF Whole, NoneMissing
<1> QED BY <1>7, <1>9, <1>11, <1>12 DEF Whole


(* If nobody was killed after a step, nobody was before it.                *)
LEMMA KillsGrow ==
    ASSUME BInv, [BuildNext]_buildVars, kills' = 0
    PROVE  kills = 0 /\ \A p \in Pid : ~Kill(p)
<1>1. kills \in Nat
  BY BuildConstantsOK DEF BInv, ProcTypes
<1>2. ASSUME NEW p \in Pid, Kill(p) PROVE FALSE
  <2>1. kills' = kills + 1
    BY <1>2 DEF Kill
  <2> QED BY <1>1, <2>1
<1>3. ASSUME NEW p \in Pid, Process(p) PROVE kills = 0
  <2>1. CASE _pa_record(p) \/ _pre_exec(p) \/ ExecFails(p) \/ _exit_wrapper(p)
    BY <2>1 DEF _pa_record, _pre_exec, ExecFails, _exit_wrapper
  <2>2. CASE \E q \in Pid : fork_wrapper(p, q) \/ system_wrapper(p, q)
    BY <2>2 DEF fork_wrapper, system_wrapper
  <2>3. CASE \E c \in Code : _init_auditlib(p, c)
    BY <2>3 DEF _init_auditlib
  <2> QED BY <1>2, <1>3, <2>1, <2>2, <2>3 DEF Process
<1>4. ASSUME NEW m, ServeSOA(m) \/ ServeData(m) \/ Reset(m) PROVE kills = 0
  <2>1. CASE ServeSOA(m)
    BY <2>1 DEF ServeSOA, GoOn, GoHome, procVars
  <2>2. CASE ServeData(m) \/ Reset(m)
    BY <2>2 DEF ServeData, Reset
  <2> QED BY <1>4, <2>1, <2>2
<1>5. ASSUME Stop \/ Over \/ UNCHANGED buildVars PROVE kills = 0
  BY <1>5 DEF Stop, Over, buildVars, procVars
<1>6. kills = 0
  BY <1>3, <1>4, <1>5 DEF BuildNext, Serve
<1> QED BY <1>2, <1>6

(* The build begins with nothing missing.                                  *)
LEMMA WholeBegins == BuildInit => CInv
<1> SUFFICES ASSUME BuildInit PROVE Whole
  BY DEF CInv
<1>1. conn = {} /\ DOMAIN audits = {} /\ lost = {} /\ skew = {}
  BY DEF BuildInit, Init
<1>2. \A p \in Pid : Made(p) = {}
  BY BuildConstantsOK DEF BuildInit, Made, Action
<1> QED BY <1>1, <1>2 DEF Whole, SentByLiving, ChainsOK, NoneMissing

(* Once the monitor has stopped, nobody is left who could talk to it.      *)
LEMMA AllDead ==
    ASSUME BInv, TInv, Parents, stopped
    PROVE  \A p \in Pid : ~Alive(p)
<1> SUFFICES ASSUME NEW p \in Pid, Alive(p) PROVE FALSE
  OBVIOUS
<1>1. Top \in Pid /\ ~Alive(Top) /\ Outlived
  BY BuildConstantsOK, DeadBelow DEF Parents, TInv
<1>2. Under(Top, p)
  BY DEF TInv, TreeOK, Alive
<1> QED BY <1>1, <1>2 DEF Outlived

(* While nobody is killed and all wait for their children, every step      *)
(* keeps the build whole.                                                  *)
LEMMA WholeKept ==
    BInv /\ IInv /\ TInv /\ WInv /\ CInv /\ [BuildNext]_buildVars => CInv'
<1> SUFFICES ASSUME BInv, IInv, TInv, WInv, CInv, [BuildNext]_buildVars, ~orphans', kills' = 0
             PROVE  Whole'
  BY DEF CInv
<1>1. ~orphans
  BY StepLives DEF Lives
<1>2. kills = 0 /\ \A p \in Pid : ~Kill(p)
  BY KillsGrow
<1>3. Whole /\ Parents /\ StillOpen
  BY <1>1, <1>2 DEF CInv, WInv
<1>4. WInv'
  BY WaitingKept
<1>5. StillOpen'
  BY <1>4 DEF WInv
<1>6. ASSUME NEW p \in Pid, Process(p) PROVE Whole'
  BY <1>2, <1>3, <1>6, RecordKeepsWhole, ForkKeepsWhole, EndKeepsWhole, ExecFailsKeepsWhole,
     BeginKeepsWhole DEF Process
<1>7. ASSUME NEW m \in conn, Reset(m) PROVE FALSE
  <2>1. stopped /\ m.from \in Pid
    BY <1>7, MessageFields DEF Reset, BInv, ProcTypes
  <2>2. ~Alive(m.from)
    BY <1>3, <2>1, AllDead
  <2> QED BY <1>3, <2>2 DEF Whole, SentByLiving
<1>8. ASSUME NEW p \in Pid, Serve(p) PROVE Whole'
  BY <1>3, <1>5, <1>7, <1>8, SOAKeepsWhole, DataKeepsWhole DEF Serve
<1>9. CASE Stop \/ Over \/ UNCHANGED buildVars
  <2>1. /\ st' = st /\ ca' = ca /\ started' = started /\ mem' = mem /\ file' = file
        /\ count' = count /\ conn' = conn
        /\ audits' = audits /\ seen' = seen /\ lost' = lost /\ skew' = skew
    BY <1>9 DEF Stop, Over, buildVars, procVars, vars
  <2>2. SentByLiving' /\ NoneMissing'
    BY <1>3, <2>1 DEF Whole, SentByLiving, NoneMissing, Alive, Made
  <2>3. ChainsOK'
    BY <1>3, <2>1 DEF Whole, ChainsOK, Linked, Alive
  <2> QED BY <1>3, <2>1, <2>2, <2>3 DEF Whole
<1> QED BY <1>6, <1>8, <1>9 DEF BuildNext

(* All of it is an invariant of the build.                                 *)
THEOREM WaitingInvariant ==
    BuildSpec => [](IInv /\ LInv /\ BInv /\ TInv /\ WInv /\ CInv)
<1>1. BuildInit => TInv /\ WInv /\ CInv
  BY TreeBegins, WaitingBegins, WholeBegins
<1>2. IInv /\ BInv /\ TInv /\ WInv /\ CInv /\ [BuildNext]_buildVars
         => TInv' /\ WInv' /\ CInv'
  BY TreeKept, WaitingKept, WholeKept
<1> QED BY <1>1, <1>2, BuildInvariant, PTL DEF BuildSpec

(* In a build of which no process is killed and all processes wait for     *)
(* their children, the SOA of a command finds as its predecessor the audit *)
(* of the very command that ran it.                                        *)
THEOREM PredecessorIsFound == BuildSpec => [](kills = 0 => PredecessorFound)
<1>1. IInv /\ BInv /\ TInv /\ WInv /\ CInv => (kills = 0 => PredecessorFound)
  <2> SUFFICES ASSUME IInv, BInv, TInv, WInv, CInv, kills = 0,
                      NEW m \in conn, m.type = "SOA", ~orphans
               PROVE  FindPred(audits, m.key, m.pccode, m.pcmdid) = m.pred
    BY DEF PredecessorFound
  <2>1. Parents /\ StillOpen /\ Alive(m.from)
    BY DEF WInv, CInv, Whole, SentByLiving
  <2> QED BY <2>1, PredIsFound
<1> QED BY <1>1, WaitingInvariant, PTL

(* In a build of which no process is killed and all processes wait for     *)
(* their children, the monitor has recorded everything when it stops: no   *)
(* audit is left in its table, none was dropped, and every path action of  *)
(* every process is in a record.                                           *)
THEOREM RecordIsComplete == BuildSpec => [](kills = 0 => CompleteRecord)
<1>1. IInv /\ BInv /\ TInv /\ WInv /\ CInv /\ EachPathActionOnce => (kills = 0 => CompleteRecord)
  <2> SUFFICES ASSUME IInv, BInv, TInv, WInv, CInv, EachPathActionOnce, kills = 0,
                      stopped, ~orphans
               PROVE  /\ DOMAIN audits = {}
                      /\ lost = {} /\ skew = {}
                      /\ UNION {r.pas : r \in log} = {a \in PA : a.n <= count[a.by]}
    BY DEF CompleteRecord
  <2>1. Whole /\ Parents
    BY DEF WInv, CInv
  <2>2. \A p \in Pid : ~Alive(p)
    BY <2>1, AllDead
  <2>3. conn = {}
    <3>1. \A m \in conn : m.from \in Pid
      BY MessageFields DEF BInv, ProcTypes
    <3> QED BY <2>1, <2>2, <3>1 DEF Whole, SentByLiving
  <2>4. \A k \in DOMAIN audits : audits[k].closed
    BY <2>1, <2>2, OwnersStarted DEF Whole, ChainsOK
  <2>5. DOMAIN audits = {}
    BY <2>4 DEF IInv, Good, LeaderOK, WaitsForLeader
  <2>6. lost = {} /\ skew = {}
    BY <2>1 DEF Whole
  <2>7. \A p \in Pid : mem[p] = {} /\ file[p] = {}
    BY <2>2 DEF BInv, ProcOK, Alive
  <2>8. \A p \in Pid : Made(p) \subseteq seen
    BY <2>1, <2>3, <2>7 DEF Whole, NoneMissing
  <2>9. seen = {a \in PA : a.n <= count[a.by]}
    <3>1. \A a \in PA : a.by \in Pid
      BY BuildConstantsOK DEF Action
    <3>2. \A a \in PA : a.n <= count[a.by] => a \in seen
      BY <2>8, <3>1 DEF Made
    <3>3. \A a \in seen : a \in PA /\ a.n <= count[a.by]
      BY DEF BInv, ActsOK, Made
    <3> QED BY <3>2, <3>3
  <2>10. seen = UNION {r.pas : r \in log}
    BY <2>5, <2>6 DEF EachPathActionOnce
  <2> QED BY <2>5, <2>6, <2>9, <2>10
<1> QED BY <1>1, WaitingInvariant, BuildGuarantees, PTL
=============================================================================
