------------------------------- MODULE Upload -------------------------------
(***************************************************************************)
(* The server's Upload servlet: requests for objects of one PTX, each in a *)
(* thread of its own.  A request locks the PTX (findAndLock() of           *)
(* DataService), counts the object, commits, and then stores the data in   *)
(* the container for contents of that size and data code                   *)
(* (FileDataContainer), unless there is one already.                       *)
(*                                                                         *)
(* The PTX is locked in the database or, for databases that cannot do it,  *)
(* with "synthetic" locks: a map with one ReentrantLock per PTX, from      *)
(* which a lock is removed when nobody waits for it.                       *)
(***************************************************************************)
EXTENDS Naturals, FiniteSets

CONSTANTS
    Request,        \* the requests, and their threads
    Content,        \* the contents, and so the containers
    Locking,        \* the kinds of lock to consider
    MaxBreaks,      \* bound: connections that break
    Size,           \* the number of blocks of a content
    NoLock, Nobody  \* no lock is registered; no thread owns it

ASSUME UploadConstantsOK ==
    /\ Locking \subseteq {"database", "synthetic"}
    /\ Size \in Nat \ {0}
    /\ MaxBreaks \in Nat
    /\ IsFiniteSet(Request) /\ NoLock \notin Request /\ Nobody \notin Request

(* A lock is named after the request that made it.                         *)
Lock == Request

VARIABLES
    locking,   \* needsSyntheticDatabaseLocks()
    what,      \* what each request uploads
    pc,        \* how far it is
    locker,    \* the lock it has got from ptxLocks
    ptxLocks,  \* the lock registered for the PTX
    owner,     \* who holds each lock
    count,     \* uploadedCount of the PTX in the database
    read,      \* the count a request has read
    file,      \* the containers: the blocks written, or Absent
    pos,       \* the blocks a request has written
    breaks     \* connections broken so far

uploadVars == <<locking, what, pc, locker, ptxLocks, owner, count, read, file, pos, breaks>>
dataVars == <<file, pos, breaks>>
lockVars == <<locker, ptxLocks, owner>>

Blocks == 1 .. Size
Absent == {0}

PC == {"absent", "begin", "fetched", "queued", "locked", "inside", "open", "create",
       "writing", "rollback", "done", "skipped", "failed"}
Answered(t) == pc[t] \in {"done", "skipped", "failed"}
Goes(t, to) == pc' = [pc EXCEPT ![t] = to]

-----------------------------------------------------------------------------
(* findAndLock() *)

(* The lock registered for the PTX, or a new one.                          *)
Fetch(t) ==
    /\ pc[t] = "begin" /\ locking = "synthetic"
    /\ locker' = [locker EXCEPT ![t] = IF ptxLocks = NoLock THEN t ELSE ptxLocks]
    /\ ptxLocks' = locker'[t]
    /\ Goes(t, "fetched")
    /\ UNCHANGED <<locking, what, owner, count, read, dataVars>>

(* lock(): at once, or after a wait in the queue of the lock.              *)
Acquire(t) ==
    /\ pc[t] \in {"fetched", "queued"}
    /\ owner[locker[t]] = Nobody
    /\ owner' = [owner EXCEPT ![locker[t]] = t]
    /\ Goes(t, "locked")
    /\ UNCHANGED <<locking, what, locker, ptxLocks, count, read, dataVars>>

Queue(t) ==
    /\ pc[t] = "fetched"
    /\ owner[locker[t]] # Nobody
    /\ Goes(t, "queued")
    /\ UNCHANGED <<locking, what, lockVars, count, read, dataVars>>

(* The lock is registered again, "to make sure the lock is still           *)
(* registered", and the PTX is read.                                       *)
Register(t) ==
    /\ pc[t] = "locked"
    /\ ptxLocks' = locker[t]
    /\ read' = [read EXCEPT ![t] = count]
    /\ Goes(t, "inside")
    /\ UNCHANGED <<locking, what, locker, owner, count, dataVars>>

Inside == {t \in Request : pc[t] = "inside"}

(* Mutant: the PTX is read without a lock.                                 *)
FindUnlocked(t) ==
    /\ pc[t] = "begin" /\ locking = "database"
    /\ read' = [read EXCEPT ![t] = count]
    /\ Goes(t, "inside")
    /\ UNCHANGED <<locking, what, lockVars, count, dataVars>>

(* The database's lock, for as long as the transaction lasts.              *)
FindLocked(t) ==
    /\ pc[t] = "begin" /\ locking = "database"
    /\ Inside = {}
    /\ read' = [read EXCEPT ![t] = count]
    /\ Goes(t, "inside")
    /\ UNCHANGED <<locking, what, lockVars, count, dataVars>>

-----------------------------------------------------------------------------
(* Commit and rollback *)

hasQueuedThreads(l) == \E t \in Request : pc[t] = "queued" /\ locker[t] = l

(* removeLocks(): it takes the lock it finds in the map for its own, and   *)
(* throws if that is none, or another thread's.                            *)
Throws(t) == ptxLocks = NoLock \/ owner[ptxLocks] # t

(* Mutant: the lock stays locked.                                          *)
removeUnlocked(t) ==
    /\ ptxLocks' = NoLock
    /\ UNCHANGED <<locker, owner>>

removeLocks(t) ==
    /\ ptxLocks' = IF ptxLocks = NoLock \/ hasQueuedThreads(ptxLocks) THEN ptxLocks ELSE NoLock
    /\ owner' = IF Throws(t) THEN owner ELSE [owner EXCEPT ![ptxLocks] = Nobody]
    /\ UNCHANGED locker

(* commitTransaction(), with the object counted.  If removeLocks() throws  *)
(* the count is committed all the same, and the servlet rolls back.        *)
Commit(t) ==
    /\ pc[t] = "inside"
    /\ count' = read[t] + 1
    /\ \/ /\ locking = "database"
          /\ Goes(t, "open")
          /\ UNCHANGED lockVars
       \/ /\ locking = "synthetic"
          /\ removeLocks(t)
          /\ Goes(t, IF Throws(t) THEN "rollback" ELSE "open")
    /\ UNCHANGED <<locking, what, read, dataVars>>

(* rollbackTx(), for an exception after the commit: the transaction is     *)
(* over, but the locks are removed a second time.  Other threads may have  *)
(* come in between.                                                        *)
Rollback(t) ==
    /\ pc[t] = "rollback"
    /\ Goes(t, "failed")
    /\ \/ /\ locking = "database"
          /\ UNCHANGED lockVars
       \/ /\ locking = "synthetic"
          /\ removeLocks(t)
    /\ UNCHANGED <<locking, what, count, read, dataVars>>

-----------------------------------------------------------------------------
(* The container *)

(* exists(): a container that is there needs no data.                      *)
Exists(t) ==
    /\ pc[t] = "open"
    /\ Goes(t, IF file[what[t]] = Absent THEN "create" ELSE "skipped")
    /\ UNCHANGED <<locking, what, lockVars, count, read, dataVars>>

(* storeStream(): the file is created, or emptied; then block after block  *)
(* is written, at the position of this stream.                             *)
Create(t) ==
    /\ pc[t] = "create"
    /\ file' = [file EXCEPT ![what[t]] = {}]
    /\ Goes(t, "writing")
    /\ UNCHANGED <<locking, what, lockVars, count, read, pos, breaks>>

(* Mutant: a block too early.                                              *)
WriteFromZero(t) ==
    /\ pc[t] = "writing" /\ pos[t] < Size
    /\ pos' = [pos EXCEPT ![t] = @ + 1]
    /\ file' = [file EXCEPT ![what[t]] = @ \cup {pos[t]}]
    /\ UNCHANGED <<locking, what, pc, lockVars, count, read, breaks>>

Write(t) ==
    /\ pc[t] = "writing" /\ pos[t] < Size
    /\ pos' = [pos EXCEPT ![t] = @ + 1]
    /\ file' = [file EXCEPT ![what[t]] = @ \cup {pos[t] + 1}]
    /\ UNCHANGED <<locking, what, pc, lockVars, count, read, breaks>>

(* Mutant: the stream ends a block early.                                  *)
CloseShort(t) ==
    /\ pc[t] = "writing" /\ pos[t] + 1 >= Size
    /\ Goes(t, "done")
    /\ UNCHANGED <<locking, what, lockVars, count, read, dataVars>>

Close(t) ==
    /\ pc[t] = "writing" /\ pos[t] = Size
    /\ Goes(t, "done")
    /\ UNCHANGED <<locking, what, lockVars, count, read, dataVars>>

(* The client's connection breaks.  What was written stays.                *)
Break(t) ==
    /\ pc[t] = "writing" /\ pos[t] < Size
    /\ breaks < MaxBreaks
    /\ breaks' = breaks + 1
    /\ Goes(t, "rollback")
    /\ UNCHANGED <<locking, what, lockVars, count, read, file, pos>>

-----------------------------------------------------------------------------
(* Any of the requests may be absent: they never come.                     *)
UploadInit ==
    /\ locking \in Locking
    /\ what \in [Request -> Content]
    /\ pc \in [Request -> {"absent", "begin"}]
    /\ locker = [t \in Request |-> NoLock]
    /\ ptxLocks = NoLock
    /\ owner = [l \in Lock |-> Nobody]
    /\ count = 0
    /\ read = [t \in Request |-> 0]
    /\ file = [c \in Content |-> Absent]
    /\ pos = [t \in Request |-> 0]
    /\ breaks = 0

Serve(t) ==
    \/ Fetch(t) \/ Acquire(t) \/ Queue(t) \/ Register(t) \/ FindLocked(t)
    \/ Commit(t) \/ Exists(t) \/ Create(t) \/ Write(t) \/ Close(t) \/ Break(t)
    \/ Rollback(t)

UploadNext == \E t \in Request : Serve(t)

(* Every thread of the container runs.                                     *)
UploadFairness == \A t \in Request : WF_uploadVars(Serve(t))

UploadSpec == UploadInit /\ [][UploadNext]_uploadVars /\ UploadFairness

-----------------------------------------------------------------------------
(* Properties *)

(* The requests, the locks, the database and the containers are well       *)
(* formed; a lock is held only by a request that has fetched it.           *)
UploadTypeOK ==
    /\ locking \in Locking
    /\ what \in [Request -> Content]
    /\ pc \in [Request -> PC]
    /\ locker \in [Request -> Lock \cup {NoLock}]
    /\ ptxLocks \in Lock \cup {NoLock}
    /\ owner \in [Lock -> Request \cup {Nobody}]
    /\ \A l \in Lock : owner[l] # Nobody => locker[owner[l]] = l
    /\ count \in 0 .. Cardinality(Request)
    /\ read \in [Request -> 0 .. Cardinality(Request)]
    /\ file \in [Content -> {Absent} \cup SUBSET Blocks]
    /\ pos \in [Request -> 0 .. Size]
    /\ breaks \in 0 .. MaxBreaks

Committed(t) ==
    pc[t] \in {"open", "create", "writing", "rollback", "done", "skipped", "failed"}

(* The lock is "still registered", so that locking the PTX for an update   *)
(* keeps other updates out: every object that was committed is counted in  *)
(* the PTX, and no update of the count is lost to another thread's.        *)
UploadsCounted == count = Cardinality({t \in Request : Committed(t)})

Came == {t \in Request : pc[t] # "absent"}

(* Every object that was committed is counted in the PTX, whatever the     *)
(* order of the requests and though connections break, if the database     *)
(* locks it or no more than two requests come.                             *)
CountedOfFew == locking = "database" \/ Cardinality(Came) <= 2 => UploadsCounted

Quiet(c) == \A t \in Request : what[t] = c => pc[t] \notin {"create", "writing"}

(* As long as no connection breaks, a content that was answered for is     *)
(* whole when nobody is writing it, though several may have written the    *)
(* same container at once.                                                 *)
WholeIfUnbroken ==
    breaks = 0 =>
        \A t \in Request : pc[t] \in {"done", "skipped"} /\ Quiet(what[t]) =>
            file[what[t]] = Blocks

(* storeStream() "stores all data coming from that stream": once an upload *)
(* was answered without an error and nobody is writing its container, the  *)
(* container is whole.                                                     *)
StoredWhole ==
    \A t \in Request : pc[t] \in {"done", "skipped"} /\ Quiet(what[t]) =>
        file[what[t]] = Blocks

Pending == {t \in Request : pc[t] \in {"fetched", "queued", "locked", "inside"}}

(* The registration of a synthetic lock is lost: requests for the PTX go   *)
(* by different locks, or the one inside has a lock that is not in the     *)
(* map, where removeLocks() will look for it.  The first happens when a    *)
(* third request comes after a lock was dropped between the fetch and the  *)
(* lock() of another (DataService.java:140), the second when a request     *)
(* rolls back after its commit (DataService.java:113).                     *)
RegistrationLost ==
    \/ \E t, u \in Pending : locker[t] # locker[u]
    \/ \E t \in Inside : locker[t] # ptxLocks

(* Every request is answered in the end: no thread waits for ever for a    *)
(* lock that another one has left behind, however many come and whatever   *)
(* breaks, unless the registration of the lock gets lost.  With the        *)
(* database's locks it never does; with synthetic ones it does, and then a *)
(* lock may stay locked for ever.                                          *)
EachAnswered ==
    \A t \in Request : pc[t] = "begin" ~> (Answered(t) \/ RegistrationLost)
=============================================================================
