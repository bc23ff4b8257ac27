--------------------------- MODULE AuditorThreads ---------------------------
(***************************************************************************)
(* The auditor library inside one process with several threads             *)
(* (src/libcommon.c, src/libunix.c).  The threads share CurrentCA, where   *)
(* path actions are collected, the temp file AuditFD with its one offset,  *)
(* and the two mutexes: StaticDataAccessMutex around the insertion of a    *)
(* path action and around a flush, ExecFlushMutex around what is done      *)
(* before an exec.  Module AuditedBuild has these operations in one step   *)
(* each; here they are taken apart.                                        *)
(*                                                                         *)
(* A path action is recorded when it is in CurrentCA.  "exposed" collects  *)
(* the ones that were touched while another thread had flushed but not yet *)
(* forked, or was sending the temp file: what is between those two calls   *)
(* has no lock.                                                            *)
(***************************************************************************)
EXTENDS Naturals, Sequences, FiniteSets

CONSTANTS
    Thread,         \* the threads of the process
    Nobody,         \* no thread owns the mutex
    MaxRecords,     \* bound: path actions of a thread
    MaxCalls        \* bound: calls of fork, system, exec and exit

ASSUME ThreadConstantsOK ==
    /\ IsFiniteSet(Thread) /\ Nobody \notin Thread
    /\ MaxRecords \in Nat /\ MaxCalls \in Nat

PA == Thread \X (1 .. MaxRecords)

VARIABLES
    pc,         \* where each thread is
    call,       \* the wrapper it is in
    n,          \* path actions it has recorded
    mutex,      \* StaticDataAccessMutex
    xmutex,     \* ExecFlushMutex
    mem,        \* the path actions in CurrentCA
    file,       \* the path actions in the temp file
    unread,     \* those behind the offset of AuditFD
    delivered,  \* how often the monitor has got each
    child,      \* the children: what CurrentCA held at the fork
    stuck,      \* children with a mutex that nobody will unlock
    exposed,    \* path actions touched in another thread's gap
    calls,      \* calls so far
    over        \* has the process ended, or become another one?

threadVars == <<pc, call, n, mutex, xmutex, mem, file, unread, delivered,
                child, stuck, exposed, calls, over>>

PC == {"run", "record", "insert", "xlock", "flush", "write", "clear", "fork",
       "rewind", "read", "truncate", "exec"}
Calls == {"system", "fork", "exec", "exit"}

(* The gap between the flush of a thread and its fork, or the end of what  *)
(* it has to send.                                                         *)
InGap(t) == pc[t] \in {"fork", "rewind", "read", "truncate", "exec"}
Expose(t, pas) ==
    exposed' = IF \E u \in Thread \ {t} : InGap(u) THEN exposed \cup pas ELSE exposed

Goes(t, to) == pc' = [pc EXCEPT ![t] = to]
Deliver(pas) == delivered' = [a \in PA |-> IF a \in pas THEN delivered[a] + 1 ELSE delivered[a]]

-----------------------------------------------------------------------------
(* _pa_record() *)

Call_record(t) ==
    /\ ~over /\ pc[t] = "run" /\ n[t] < MaxRecords
    /\ Goes(t, "record")
    /\ UNCHANGED <<call, n, mutex, xmutex, mem, file, unread, delivered, child, stuck,
                   exposed, calls, over>>

(* Mutant: the mutex is not taken.                                         *)
RecordUnlocked(t) ==
    /\ ~over /\ pc[t] = "record"
    /\ Goes(t, "insert")
    /\ UNCHANGED <<call, n, mutex, xmutex, mem, file, unread, delivered, child, stuck,
                   exposed, calls, over>>

RecordLock(t) ==
    /\ ~over /\ pc[t] = "record"
    /\ mutex = Nobody
    /\ mutex' = t
    /\ Goes(t, "insert")
    /\ UNCHANGED <<call, n, xmutex, mem, file, unread, delivered, child, stuck,
                   exposed, calls, over>>

ca_record_pa(t) ==
    /\ ~over /\ pc[t] = "insert"
    /\ mem' = mem \cup {<<t, n[t] + 1>>}
    /\ n' = [n EXCEPT ![t] = @ + 1]
    /\ Expose(t, {<<t, n[t] + 1>>})
    /\ mutex' = Nobody
    /\ Goes(t, "run")
    /\ UNCHANGED <<call, xmutex, file, unread, delivered, child, stuck, calls, over>>

-----------------------------------------------------------------------------
(* The wrappers, and _audit_flush() *)

(* The program calls one of the functions that are interposed.  That only  *)
(* one thread calls exit() is a rule for the program.                      *)
Enter(t, c) ==
    /\ ~over /\ pc[t] = "run"
    /\ calls < MaxCalls
    /\ c = "exit" => \A u \in Thread : call[u] # "exit"
    /\ call' = [call EXCEPT ![t] = c]
    /\ Goes(t, IF c = "exec" THEN "xlock" ELSE "flush")
    /\ calls' = calls + 1
    /\ UNCHANGED <<n, mutex, xmutex, mem, file, unread, delivered, child, stuck, exposed, over>>

(* _pre_exec()                                                             *)
ExecLock(t) ==
    /\ ~over /\ pc[t] = "xlock"
    /\ xmutex = Nobody
    /\ xmutex' = t
    /\ Goes(t, "flush")
    /\ UNCHANGED <<call, n, mutex, mem, file, unread, delivered, child, stuck, exposed, calls, over>>

FlushLock(t) ==
    /\ ~over /\ pc[t] = "flush"
    /\ mutex = Nobody
    /\ mutex' = t
    /\ Goes(t, "write")
    /\ UNCHANGED <<call, n, xmutex, mem, file, unread, delivered, child, stuck,
                   exposed, calls, over>>

(* ca_write(): the path actions go to the file, at its offset, wherever    *)
(* another thread that is reading the file has taken it: they may hit what *)
(* that thread has still to read.                                          *)
Reading(t) == \E u \in Thread \ {t} : pc[u] \in {"read", "truncate"}

WriteOut(t) ==
    /\ ~over /\ pc[t] = "write"
    /\ file' = file \cup mem
    /\ \/ /\ ~Reading(t)
          /\ UNCHANGED unread
       \/ /\ Reading(t)
          /\ \E hit \in SUBSET unread : unread' = unread \ hit
    /\ Expose(t, file \cup mem)
    /\ Goes(t, "clear")
    /\ UNCHANGED <<call, n, mutex, xmutex, mem, delivered, child, stuck, calls, over>>

(* ca_write() removes them from CurrentCA; the mutex is let go.            *)
AfterFlush(c) ==
    CASE c = "system" -> "run" [] c = "fork" -> "fork" [] c \in {"exec", "exit"} -> "rewind"

(* Mutant: the mutex is kept when there is nothing to write.               *)
ClearKept(t) ==
    /\ ~over /\ pc[t] = "clear"
    /\ mem' = {}
    /\ mutex' = IF mem = {} THEN mutex ELSE Nobody
    /\ Goes(t, AfterFlush(call[t]))
    /\ UNCHANGED <<call, n, xmutex, file, unread, delivered, child, stuck, exposed, calls, over>>

Clear(t) ==
    /\ ~over /\ pc[t] = "clear"
    /\ mem' = {}
    /\ mutex' = Nobody
    /\ Goes(t, AfterFlush(call[t]))
    /\ UNCHANGED <<call, n, xmutex, file, unread, delivered, child, stuck, exposed, calls, over>>

-----------------------------------------------------------------------------
(* fork_wrapper(), _audit_end() *)

(* The child has this thread only, a copy of CurrentCA and of the mutex,   *)
(* and a temp file of its own.                                             *)
Fork(t) ==
    /\ ~over /\ pc[t] = "fork"
    /\ IF mutex = Nobody
          THEN child' = Append(child, mem) /\ UNCHANGED stuck
          ELSE stuck' = stuck + 1 /\ UNCHANGED child
    /\ Goes(t, "run")
    /\ UNCHANGED <<call, n, mutex, xmutex, mem, file, unread, delivered, exposed, calls, over>>

(* The child ends, or runs another program: it sends what it has.          *)
ChildEnds(k) ==
    /\ child[k] # {}
    /\ Deliver(child[k])
    /\ child' = [child EXCEPT ![k] = {}]
    /\ UNCHANGED <<pc, call, n, mutex, xmutex, mem, file, unread, stuck, exposed, calls, over>>

Rewind(t) ==
    /\ ~over /\ pc[t] = "rewind"
    /\ unread' = file
    /\ Expose(t, file)
    /\ Goes(t, "read")
    /\ UNCHANGED <<call, n, mutex, xmutex, mem, file, delivered, child, stuck, calls, over>>

(* The file is read to its end and sent.  At exit EOA follows, CurrentCA   *)
(* is destroyed and the process ends.                                      *)
ReadAndSend(t) ==
    /\ ~over /\ pc[t] = "read"
    /\ Deliver(unread)
    /\ unread' = {}
    /\ over' = (call[t] = "exit")
    /\ Goes(t, "truncate")
    /\ UNCHANGED <<call, n, mutex, xmutex, mem, file, child, stuck, exposed, calls>>

(* Mutant: the file is rewound but not truncated.                          *)
Untruncated(t) ==
    /\ ~over /\ pc[t] = "truncate"
    /\ unread' = {}
    /\ xmutex' = Nobody
    /\ Goes(t, "exec")
    /\ UNCHANGED <<call, n, mutex, mem, file, delivered, child, stuck, exposed, calls, over>>

(* ftruncate(), and the end of _pre_exec().                                *)
Truncate(t) ==
    /\ ~over /\ pc[t] = "truncate"
    /\ file' = {}
    /\ unread' = {}
    /\ xmutex' = Nobody
    /\ Goes(t, "exec")
    /\ UNCHANGED <<call, n, mutex, mem, delivered, child, stuck, exposed, calls, over>>

(* exec succeeds and all threads are gone, or fails and returns.           *)
Exec(t) ==
    /\ ~over /\ pc[t] = "exec"
    /\ over' \in BOOLEAN
    /\ Goes(t, "run")
    /\ UNCHANGED <<call, n, mutex, xmutex, mem, file, unread, delivered, child, stuck,
                   exposed, calls>>

-----------------------------------------------------------------------------
ThreadInit ==
    /\ pc = [t \in Thread |-> "run"]
    /\ call = [t \in Thread |-> "system"]
    /\ n = [t \in Thread |-> 0]
    /\ mutex = Nobody /\ xmutex = Nobody
    /\ mem = {} /\ file = {} /\ unread = {}
    /\ delivered = [a \in PA |-> 0]
    /\ child = <<>> /\ stuck = 0
    /\ exposed = {}
    /\ calls = 0
    /\ over = FALSE

(* What a thread does once it is in the library.                           *)
Inside(t) ==
    \/ RecordLock(t) \/ ca_record_pa(t)
    \/ ExecLock(t) \/ FlushLock(t) \/ WriteOut(t) \/ Clear(t)
    \/ Fork(t) \/ Rewind(t) \/ ReadAndSend(t) \/ Truncate(t) \/ Exec(t)

ThreadNext ==
    \/ \E t \in Thread : Call_record(t) \/ Inside(t) \/ \E c \in Calls : Enter(t, c)
    \/ \E k \in DOMAIN child : ChildEnds(k)

(* A thread inside the library runs on, and gets a mutex in the end.       *)
ThreadFairness == \A t \in Thread : SF_threadVars(Inside(t))

ThreadSpec == ThreadInit /\ [][ThreadNext]_threadVars /\ ThreadFairness

-----------------------------------------------------------------------------
(* Properties *)

(* The state of the threads is well formed, and the mutexes protect what   *)
(* they are for: only their owner is inside.                               *)
ThreadTypeOK ==
    /\ pc \in [Thread -> PC] /\ call \in [Thread -> Calls]
    /\ n \in [Thread -> 0 .. MaxRecords]
    /\ \A t \in Thread : pc[t] \in {"insert", "write", "clear"} => mutex = t
    /\ \A t \in Thread : call[t] = "exec" /\ pc[t] \in {"flush", "write", "clear", "rewind",
                             "read", "truncate"} => xmutex = t
    /\ mem \subseteq PA /\ unread \subseteq file /\ file \subseteq PA
    /\ delivered \in [PA -> Nat]
    /\ child \in Seq(SUBSET PA) /\ stuck \in 0 .. MaxCalls
    /\ exposed \subseteq PA
    /\ calls \in 0 .. MaxCalls /\ over \in BOOLEAN

Recorded == {a \in PA : a[2] <= n[a[1]]}

(* "we must make sure the current audit state is not lost (exec) or        *)
(* duplicated (fork)": that holds for every path action that was not       *)
(* exposed.  Whatever the threads do, it is delivered at most once, and,   *)
(* while it is not delivered, it is in CurrentCA or in the temp file       *)
(* until the process ends.                                                 *)
NotLostNorDuplicated ==
    \A a \in Recorded \ exposed :
        \/ delivered[a] = 0 /\ ~over /\ a \in mem \cup file
        \/ delivered[a] = 1

(* No wrapper hangs: a thread inside the library comes out of it, unless   *)
(* the process ends.                                                       *)
WrappersReturn == \A t \in Thread : (pc[t] # "run") ~> (pc[t] = "run" \/ over)
=============================================================================
