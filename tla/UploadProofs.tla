---------------------------- MODULE UploadProofs ----------------------------
(***************************************************************************)
(* Proofs about module Upload, for any finite set of requests, any         *)
(* contents and any size of them.                                          *)
(***************************************************************************)
EXTENDS Upload, FiniteSetTheorems, TLAPS

(* The requests whose object is committed.                                 *)
Counted == {t \in Request : Committed(t)}

(* The types, and what keeps the counts within them: a request reads the   *)
(* count before it is committed itself, so that even an update that gets   *)
(* lost takes the count no higher than the number of commits.              *)
CountBound ==
    /\ count <= Cardinality(Counted)
    /\ \A t \in Request : read[t] <= Cardinality(Counted)

Stream(t) ==
    /\ pc[t] \in {"writing", "done", "skipped"} => file[what[t]] # Absent
    /\ pc[t] \in {"absent", "begin", "fetched", "queued", "locked", "inside", "open", "create"}
            => pos[t] = 0
    /\ pc[t] = "done" => pos[t] = Size

(* The types, but for those bounds; a lock stays with its owner, and a     *)
(* container that was there once is never absent again.                    *)
Basics ==
    /\ locking \in Locking
    /\ what \in [Request -> Content]
    /\ pc \in [Request -> PC]
    /\ locker \in [Request -> Lock \cup {NoLock}]
    /\ \A t \in Request : pc[t] \in {"fetched", "queued", "locked"} => locker[t] \in Lock
    /\ ptxLocks \in Lock \cup {NoLock}
    /\ owner \in [Lock -> Request \cup {Nobody}]
    /\ \A l \in Lock : owner[l] # Nobody => locker[owner[l]] = l /\ pc[owner[l]] \notin {"absent", "begin"}
    /\ count \in Nat
    /\ read \in [Request -> Nat]
    /\ file \in [Content -> {Absent} \cup SUBSET Blocks]
    /\ pos \in [Request -> 0 .. Size]
    /\ breaks \in 0 .. MaxBreaks
    /\ \A t \in Request : Stream(t)

(* Every step keeps the types.                                             *)
LEMMA BasicsStep == Basics /\ [UploadNext]_uploadVars => Basics'
<1> SUFFICES ASSUME Basics, [UploadNext]_uploadVars PROVE Basics'
  OBVIOUS
<1> USE DEF Basics, lockVars, dataVars, Lock, PC, Stream
<1>1. ASSUME NEW t \in Request, Fetch(t) PROVE Basics'
  <2>1. pc[t] = "begin" /\ pc' = [pc EXCEPT ![t] = "fetched"]
    BY <1>1 DEF Fetch, Goes
  <2>2. \A l \in Lock : owner[l] # t
    BY <2>1, UploadConstantsOK
  <2>3. locker' = [locker EXCEPT ![t] = IF ptxLocks = NoLock THEN t ELSE ptxLocks]
    BY <1>1 DEF Fetch
  <2>4. locker' \in [Request -> Lock \cup {NoLock}] /\ locker'[t] \in Lock
    BY <2>3
  <2>5. \A x \in Request : x # t => locker'[x] = locker[x] /\ pc'[x] = pc[x]
    BY <2>1, <2>3
  <2>6. ptxLocks' = locker'[t] /\ UNCHANGED <<locking, what, owner, count, read, dataVars>>
    BY <1>1 DEF Fetch
  <2>7. \A l \in Lock : owner'[l] # Nobody => locker'[owner'[l]] = l /\ pc'[owner'[l]] \notin {"absent", "begin"}
    BY <2>2, <2>5, <2>6
  <2>8. \A x \in Request : Stream(x)'
    BY <2>1, <2>5, <2>6
  <2> HIDE DEF Stream
  <2> QED BY <2>1, <2>4, <2>5, <2>6, <2>7, <2>8
<1>2. ASSUME NEW t \in Request, Acquire(t) PROVE Basics'
  BY <1>2, UploadConstantsOK DEF Acquire, Goes
<1>3. ASSUME NEW t \in Request, Queue(t) PROVE Basics'
  BY <1>3, UploadConstantsOK DEF Queue, Goes
<1>4. ASSUME NEW t \in Request, Register(t) PROVE Basics'
  BY <1>4, UploadConstantsOK DEF Register, Goes
<1>5. ASSUME NEW t \in Request, FindLocked(t) PROVE Basics'
  BY <1>5, UploadConstantsOK DEF FindLocked, Goes
<1>6. ASSUME NEW t \in Request, Commit(t) PROVE Basics'
  <2>1. /\ pc' = [pc EXCEPT ![t] = pc'[t]]
        /\ pc'[t] \in {"open", "rollback"}
        /\ owner' \in [Lock -> Request \cup {Nobody}]
        /\ \A l \in Lock : owner'[l] \in {Nobody, owner[l]}
        /\ ptxLocks' \in Lock \cup {NoLock}
        /\ count' = read[t] + 1
        /\ UNCHANGED <<locking, what, locker, read, dataVars>>
    BY <1>6 DEF Commit, Goes, removeLocks, Throws
  <2>2. pc[t] = "inside"
    BY <1>6 DEF Commit
  <2>3. \A x \in Request : Stream(x)'
    BY <2>1, <2>2
  <2> HIDE DEF Stream
  <2> QED BY <2>1, <2>3, UploadConstantsOK
<1>7. ASSUME NEW t \in Request, Exists(t) PROVE Basics'
  BY <1>7, UploadConstantsOK DEF Exists, Goes
<1>8. ASSUME NEW t \in Request, Create(t) PROVE Basics'
  <2>1. /\ pc[t] = "create" /\ pc' = [pc EXCEPT ![t] = "writing"]
        /\ file' = [file EXCEPT ![what[t]] = {}]
        /\ UNCHANGED <<locking, what, lockVars, count, read, pos, breaks>>
    BY <1>8 DEF Create, Goes
  <2>2. file' \in [Content -> {Absent} \cup SUBSET Blocks]
    BY <2>1
  <2>3. file'[what[t]] = {} /\ \A c \in Content : c # what[t] => file'[c] = file[c]
    BY <2>1
  <2>4. {} # Absent
    BY DEF Absent
  <2>5. \A x \in Request : pc'[x] \in {"writing", "done", "skipped"} => file'[what'[x]] # Absent
    BY <2>1, <2>3, <2>4
  <2> QED BY <2>1, <2>2, <2>5, UploadConstantsOK
<1>9. ASSUME NEW t \in Request, Write(t) PROVE Basics'
  <2>1. /\ pc[t] = "writing" /\ pos[t] < Size
        /\ pos' = [pos EXCEPT ![t] = @ + 1]
        /\ file' = [file EXCEPT ![what[t]] = @ \cup {pos[t] + 1}]
        /\ UNCHANGED <<locking, what, pc, lockVars, count, read, breaks>>
    BY <1>9 DEF Write
  <2>2. pos[t] \in 0 .. Size /\ Size \in Nat /\ pos[t] + 1 \in Blocks
    BY <2>1, UploadConstantsOK DEF Blocks
  <2>3. file[what[t]] \in SUBSET Blocks
    BY <2>1
  <2>4. /\ file'[what[t]] \in SUBSET Blocks
        /\ pos[t] + 1 \in file'[what[t]]
        /\ \A c \in Content : c # what[t] => file'[c] = file[c]
    BY <2>1, <2>2, <2>3
  <2>5. file'[what[t]] # Absent
    BY <2>2, <2>4 DEF Absent
  <2>6. file' \in [Content -> {Absent} \cup SUBSET Blocks]
    BY <2>1, <2>4
  <2>7. pos' \in [Request -> 0 .. Size]
    BY <2>1, <2>2
  <2>8. \A x \in Request : x # t => pos'[x] = pos[x]
    BY <2>1
  <2>9. \A x \in Request : pc'[x] \in {"writing", "done", "skipped"} => file'[what'[x]] # Absent
    BY <2>1, <2>4, <2>5
  <2> QED BY <2>1, <2>6, <2>7, <2>8, <2>9, UploadConstantsOK
<1>10. ASSUME NEW t \in Request, Close(t) PROVE Basics'
  BY <1>10, UploadConstantsOK DEF Close, Goes
<1>11. ASSUME NEW t \in Request, Break(t) PROVE Basics'
  BY <1>11, UploadConstantsOK DEF Break, Goes
<1>12. ASSUME NEW t \in Request, Rollback(t) PROVE Basics'
  <2>1. /\ pc' = [pc EXCEPT ![t] = "failed"]
        /\ owner' \in [Lock -> Request \cup {Nobody}]
        /\ \A l \in Lock : owner'[l] \in {Nobody, owner[l]}
        /\ ptxLocks' \in Lock \cup {NoLock}
        /\ UNCHANGED <<locking, what, locker, count, read, dataVars>>
    BY <1>12 DEF Rollback, Goes, removeLocks, Throws
  <2> QED BY <2>1, UploadConstantsOK
<1>13. CASE UNCHANGED uploadVars
  BY <1>13 DEF uploadVars
<1> QED BY <1>1, <1>2, <1>3, <1>4, <1>5, <1>6, <1>7, <1>8, <1>9, <1>10, <1>11, <1>12, <1>13
       DEF UploadNext, Serve

(* Only Commit counts a request; it counts the one that is served.         *)
LEMMA CountedStep ==
    ASSUME Basics, [UploadNext]_uploadVars
    PROVE  /\ \/ Counted' = Counted /\ UNCHANGED count
              \/ \E t \in Request : /\ Commit(t)
                                    /\ t \notin Counted
                                    /\ Counted' = Counted \cup {t}
                                    /\ count' = read[t] + 1
           /\ \A t \in Request : read'[t] = read[t] \/ read'[t] = count
<1> USE DEF Basics, Goes, lockVars, dataVars
<1>1. ASSUME NEW t \in Request, Commit(t)
      PROVE  t \notin Counted /\ Counted' = Counted \cup {t} /\ count' = read[t] + 1 /\ read' = read
  <2>1. /\ pc[t] = "inside"
        /\ pc'[t] \in {"open", "rollback"}
        /\ \A x \in Request : x # t => pc'[x] = pc[x]
        /\ count' = read[t] + 1 /\ read' = read
    BY <1>1 DEF Commit
  <2> QED BY <2>1 DEF Counted, Committed
<1>2. ASSUME NEW t \in Request, Serve(t), ~Commit(t)
      PROVE  /\ Committed(t)' <=> Committed(t)
             /\ \A x \in Request : x # t => pc'[x] = pc[x]
             /\ count' = count
             /\ \A x \in Request : read'[x] = read[x] \/ read'[x] = count
  BY <1>2 DEF Serve, Fetch, Acquire, Queue, Register, FindLocked, Exists, Create, Write, Close,
              Break, Rollback, Committed
<1>3. ASSUME NEW t \in Request, Serve(t), ~Commit(t) PROVE Counted' = Counted
  <2>1. \A x \in Request : x # t => (Committed(x)' <=> Committed(x))
    BY <1>2, <1>3 DEF Committed
  <2> QED BY <1>2, <1>3, <2>1 DEF Counted
<1>4. CASE UNCHANGED uploadVars
  BY <1>4 DEF uploadVars, Counted, Committed
<1> QED BY <1>1, <1>2, <1>3, <1>4 DEF UploadNext

(* Cardinalities of the requests that are counted.                         *)
LEMMA CountedFinite ==
    ASSUME NEW S \in SUBSET Request
    PROVE  /\ Cardinality(S) \in Nat
           /\ Cardinality(S) <= Cardinality(Request)
           /\ Cardinality(Request) \in Nat
           /\ \A t \in Request \ S : Cardinality(S \cup {t}) = Cardinality(S) + 1
<1>1. IsFiniteSet(Request)
  BY UploadConstantsOK
<1>2. IsFiniteSet(S) /\ Cardinality(S) <= Cardinality(Request)
  BY <1>1, FS_Subset
<1> QED BY <1>1, <1>2, FS_CardinalityType, FS_AddElement

(* The count never exceeds the number of uploads committed.                *)
LEMMA BoundStep ==
    Basics /\ CountBound /\ [UploadNext]_uploadVars => CountBound'
<1> SUFFICES ASSUME Basics, CountBound, [UploadNext]_uploadVars PROVE CountBound'
  OBVIOUS
<1> DEFINE n == Cardinality(Counted)
<1>1. n \in Nat /\ \A t \in Request \ Counted : Cardinality(Counted \cup {t}) = n + 1
  <2>1. Counted \in SUBSET Request
    BY DEF Counted
  <2> QED BY <2>1, CountedFinite
<1>2. count \in Nat /\ count <= n /\ \A t \in Request : read[t] \in Nat /\ read[t] <= n
  BY DEF Basics, CountBound
<1>3. CASE Counted' = Counted /\ UNCHANGED count
  BY <1>2, <1>3, CountedStep DEF CountBound
<1>4. ASSUME NEW t \in Request, t \notin Counted, Counted' = Counted \cup {t}, count' = read[t] + 1
      PROVE  CountBound'
  <2>1. Cardinality(Counted') = n + 1
    BY <1>1, <1>4
  <2>2. \A x \in Request : read'[x] \in Nat /\ read'[x] <= n
    BY <1>2, CountedStep
  <2> HIDE DEF n
  <2> QED BY <1>1, <1>2, <1>4, <2>1, <2>2 DEF CountBound
<1> QED BY <1>3, <1>4, CountedStep

-----------------------------------------------------------------------------
(* The lock of the database: one request at a time has read the count,     *)
(* nobody has changed it since, and the map of locks is not used.          *)
DatabaseLock ==
    locking = "database" =>
        /\ ptxLocks = NoLock /\ \A t \in Request : locker[t] = NoLock
        /\ \A t \in Request : pc[t] \notin {"fetched", "queued", "locked"}
        /\ \A t, u \in Inside : t = u
        /\ \A t \in Inside : read[t] = count
        /\ UploadsCounted

(* The lock of the database is kept by each step.                          *)
LEMMA DatabaseStep ==
    Basics /\ DatabaseLock /\ [UploadNext]_uploadVars => DatabaseLock'
<1> SUFFICES ASSUME Basics, DatabaseLock, [UploadNext]_uploadVars, locking' = "database"
             PROVE  DatabaseLock'
  BY DEF DatabaseLock
<1>0. locking = "database"
  BY DEF UploadNext, Serve, Fetch, Acquire, Queue, Register, FindLocked, Commit, Exists,
         Create, Write, Close, Break, Rollback, uploadVars
<1> USE <1>0 DEF Basics, Goes, lockVars, dataVars
<1>0a. ptxLocks' = NoLock /\ \A t \in Request : locker'[t] = NoLock
  BY DEF DatabaseLock, UploadNext, Serve, Fetch, Acquire, Queue, Register, FindLocked, Commit,
         Exists, Create, Write, Close, Break, Rollback, uploadVars
<1>1. /\ \A t \in Request : pc[t] \notin {"fetched", "queued", "locked"}
      /\ \A t, u \in Inside : t = u
      /\ \A t \in Inside : read[t] = count
      /\ count = Cardinality(Counted)
  BY DEF DatabaseLock, UploadsCounted, Counted
<1>2. Cardinality(Counted) \in Nat
      /\ \A t \in Request \ Counted : Cardinality(Counted \cup {t}) = Cardinality(Counted) + 1
  <2>1. Counted \in SUBSET Request
    BY DEF Counted
  <2> QED BY <2>1, CountedFinite
<1>3. ASSUME NEW t \in Request, Commit(t) PROVE DatabaseLock'
  <2>1. /\ pc[t] = "inside" /\ pc' = [pc EXCEPT ![t] = "open"]
        /\ count' = read[t] + 1 /\ read' = read
    BY <1>3 DEF Commit
  <2>2. t \in Inside /\ Inside' = {}
    BY <1>1, <2>1 DEF Inside
  <2>3. t \notin Counted /\ Counted' = Counted \cup {t}
    BY <2>1 DEF Counted, Committed
  <2>4. count' = Cardinality(Counted)'
    BY <1>1, <1>2, <2>1, <2>2, <2>3
  <2>5. \A x \in Request : pc'[x] \notin {"fetched", "queued", "locked"}
    BY <1>1, <2>1
  <2> QED BY <1>0a, <2>2, <2>4, <2>5 DEF DatabaseLock, UploadsCounted, Counted
<1>4. ASSUME NEW t \in Request, FindLocked(t) PROVE DatabaseLock'
  <2>1. /\ pc[t] = "begin" /\ pc' = [pc EXCEPT ![t] = "inside"]
        /\ Inside = {}
        /\ read' = [read EXCEPT ![t] = count] /\ count' = count
    BY <1>4 DEF FindLocked
  <2>2. Inside' = {t}
    BY <2>1 DEF Inside
  <2>3. Counted' = Counted
    BY <2>1 DEF Counted, Committed
  <2>4. \A x \in Request : pc'[x] \notin {"fetched", "queued", "locked"}
    BY <1>1, <2>1
  <2> QED BY <1>0a, <1>1, <2>1, <2>2, <2>3, <2>4 DEF DatabaseLock, UploadsCounted, Counted
<1>5. ASSUME NEW t \in Request, Serve(t), ~Commit(t), ~FindLocked(t) PROVE DatabaseLock'
  <2>1. /\ count' = count /\ read' = read
        /\ pc[t] # "inside" /\ pc'[t] \notin {"inside", "fetched", "queued", "locked"}
        /\ \A x \in Request : x # t => pc'[x] = pc[x]
        /\ Committed(t)' <=> Committed(t)
    BY <1>1, <1>5 DEF Serve, Fetch, Acquire, Queue, Register, Exists, Create, Write, Close,
                      Break, Rollback, Committed
  <2>2. Inside' = Inside
    BY <2>1 DEF Inside
  <2>3. Counted' = Counted
    <3>1. \A x \in Request : x # t => (Committed(x)' <=> Committed(x))
      BY <2>1 DEF Committed
    <3> QED BY <2>1, <3>1 DEF Counted
  <2>4. \A x \in Request : pc'[x] \notin {"fetched", "queued", "locked"}
    BY <1>1, <2>1
  <2> QED BY <1>0a, <1>1, <2>1, <2>2, <2>3, <2>4 DEF DatabaseLock, UploadsCounted, Counted
<1>6. CASE UNCHANGED uploadVars
  BY <1>6 DEF uploadVars, DatabaseLock, UploadsCounted, Inside, Committed
<1> QED BY <1>3, <1>4, <1>5, <1>6 DEF UploadNext

-----------------------------------------------------------------------------
(* The synthetic lock of two requests.                                     *)
AtMostTwo == \A t, u, v \in Came : t = u \/ t = v \/ u = v

PendingPC == {"fetched", "queued", "locked", "inside"}

(* A lock is dropped from the map only when an upload is committed.  Of    *)
(* two requests none is committed while both are pending, so they have     *)
(* fetched the same lock, and only its owner goes on.                      *)
SyntheticLock ==
    /\ \A t \in Request : pc[t] \in PendingPC => locker[t] \in Lock
    /\ \A t \in Request : pc[t] \in {"locked", "inside"} => owner[locker[t]] = t
    /\ Counted = {} => \A t \in Request : pc[t] \notin {"absent", "begin"} => ptxLocks = locker[t]
    /\ \A t \in Inside : read[t] = count
    /\ UploadsCounted

(* Two requests are not both past the lock.                                *)
LEMMA OneOfTwo ==
    ASSUME Basics, AtMostTwo, SyntheticLock,
           NEW t \in Request, pc[t] \in {"locked", "inside"},
           NEW u \in Request, pc[u] \in {"locked", "inside"}
    PROVE  t = u
<1> SUFFICES ASSUME t # u PROVE FALSE
  OBVIOUS
<1>1. Counted = {}
  <2>1. \A v \in Came : v = t \/ v = u
    BY DEF AtMostTwo, Came
  <2> QED BY <2>1 DEF Counted, Committed, Came
<1>2. ptxLocks = locker[t] /\ ptxLocks = locker[u]
  BY <1>1 DEF SyntheticLock
<1>3. owner[locker[t]] = t /\ owner[locker[u]] = u
  BY DEF SyntheticLock
<1> QED BY <1>2, <1>3

(* The synthetic lock is kept by each step.                                *)
LEMMA SyntheticStep ==
    ASSUME Basics, AtMostTwo, SyntheticLock, locking = "synthetic", [UploadNext]_uploadVars
    PROVE  SyntheticLock'
<1> USE DEF Basics, Goes, lockVars, dataVars, Lock, PendingPC
<1>1. /\ \A t \in Request : pc[t] \in PendingPC => locker[t] \in Lock
      /\ \A t \in Request : pc[t] \in {"locked", "inside"} => owner[locker[t]] = t
      /\ Counted = {} => \A t \in Request : pc[t] \notin {"absent", "begin"} => ptxLocks = locker[t]
      /\ \A t \in Inside : read[t] = count
      /\ count = Cardinality(Counted)
  BY DEF SyntheticLock, UploadsCounted, Counted
<1>2. Cardinality(Counted) \in Nat
      /\ \A t \in Request \ Counted : Cardinality(Counted \cup {t}) = Cardinality(Counted) + 1
  <2>1. Counted \in SUBSET Request
    BY DEF Counted
  <2> QED BY <2>1, CountedFinite
<1>3. ASSUME NEW t \in Request, Fetch(t) PROVE SyntheticLock'
  <2>1. /\ pc[t] = "begin" /\ pc' = [pc EXCEPT ![t] = "fetched"]
        /\ locker' = [locker EXCEPT ![t] = IF ptxLocks = NoLock THEN t ELSE ptxLocks]
        /\ ptxLocks' = locker'[t] /\ owner' = owner /\ count' = count /\ read' = read
    BY <1>3 DEF Fetch
  <2>2. locker'[t] \in Lock /\ pc'[t] = "fetched"
        /\ \A x \in Request : x # t => pc'[x] = pc[x] /\ locker'[x] = locker[x]
    BY <2>1
  <2>3. Inside' = Inside /\ Counted' = Counted
    BY <2>1 DEF Inside, Counted, Committed
  <2>4. ASSUME Counted = {}, NEW x \in Request, pc'[x] \notin {"absent", "begin"} PROVE ptxLocks' = locker'[x]
    <3>1. CASE x = t
      BY <3>1, <2>1
    <3>2. CASE x # t
      <4>1. pc[x] \in PendingPC
        BY <2>4, <3>2, <2>2 DEF Counted, Committed, PC
      <4>2. ptxLocks = locker[x] /\ locker[x] \in Lock
        BY <4>1, <2>4, <1>1
      <4> QED BY <4>2, <3>2, <2>1, <2>2, UploadConstantsOK
    <3> QED BY <3>1, <3>2
  <2>5. \A x \in Request : pc'[x] \in PendingPC => locker'[x] \in Lock
    BY <1>1, <2>2
  <2>6. \A x \in Request : pc'[x] \in {"locked", "inside"} => owner'[locker'[x]] = x
    BY <1>1, <2>1, <2>2
  <2> QED BY <1>1, <2>1, <2>3, <2>4, <2>5, <2>6 DEF SyntheticLock, UploadsCounted, Counted
<1>4. ASSUME NEW t \in Request, Acquire(t) PROVE SyntheticLock'
  <2>1. /\ pc[t] \in {"fetched", "queued"} /\ pc' = [pc EXCEPT ![t] = "locked"]
        /\ owner[locker[t]] = Nobody /\ owner' = [owner EXCEPT ![locker[t]] = t]
        /\ UNCHANGED <<locker, ptxLocks, count, read>>
    BY <1>4 DEF Acquire
  <2>2. Inside' = Inside /\ Counted' = Counted
    BY <2>1 DEF Inside, Counted, Committed
  <2>3. locker[t] \in Lock
    BY <2>1
  <2>4. ASSUME NEW x \in Request, pc'[x] \in {"locked", "inside"} PROVE owner'[locker'[x]] = x
    <3>1. CASE x = t
      BY <3>1, <2>1, <2>3
    <3>2. CASE x # t
      <4>1. owner[locker[x]] = x /\ locker[x] \in Lock
        BY <3>2, <2>4, <2>1, <1>1
      <4> QED BY <4>1, <2>1, UploadConstantsOK
    <3> QED BY <3>1, <3>2
  <2>5. \A x \in Request : pc'[x] \in PendingPC => locker'[x] \in Lock
    BY <1>1, <2>1, <2>3
  <2>6. Counted = {} => \A x \in Request : pc'[x] \notin {"absent", "begin"} => ptxLocks' = locker'[x]
    BY <1>1, <2>1
  <2> QED BY <1>1, <2>1, <2>2, <2>4, <2>5, <2>6 DEF SyntheticLock, UploadsCounted, Counted
<1>5. ASSUME NEW t \in Request, Queue(t) PROVE SyntheticLock'
  <2>1. /\ pc[t] = "fetched" /\ pc' = [pc EXCEPT ![t] = "queued"]
        /\ UNCHANGED <<locker, ptxLocks, owner, count, read>>
    BY <1>5 DEF Queue
  <2>2. Inside' = Inside /\ Counted' = Counted
    BY <2>1 DEF Inside, Counted, Committed
  <2>3. \A x \in Request : pc'[x] \in PendingPC => locker'[x] \in Lock
    BY <1>1, <2>1
  <2>4. \A x \in Request : pc'[x] \in {"locked", "inside"} => owner'[locker'[x]] = x
    BY <1>1, <2>1
  <2>5. Counted = {} => \A x \in Request : pc'[x] \notin {"absent", "begin"} => ptxLocks' = locker'[x]
    BY <1>1, <2>1
  <2> QED BY <1>1, <2>1, <2>2, <2>3, <2>4, <2>5 DEF SyntheticLock, UploadsCounted, Counted
<1>6. ASSUME NEW t \in Request, Register(t) PROVE SyntheticLock'
  <2>1. /\ pc[t] = "locked" /\ pc' = [pc EXCEPT ![t] = "inside"]
        /\ ptxLocks' = locker[t] /\ read' = [read EXCEPT ![t] = count]
        /\ UNCHANGED <<locker, owner, count>>
    BY <1>6 DEF Register
  <2>2. Counted' = Counted
    BY <2>1 DEF Counted, Committed
  <2>3. \A x \in Inside' : read'[x] = count'
    BY <1>1, <2>1 DEF Inside
  <2>4. \A x \in Request : pc'[x] \in PendingPC => locker'[x] \in Lock
    BY <1>1, <2>1
  <2>5. \A x \in Request : pc'[x] \in {"locked", "inside"} => owner'[locker'[x]] = x
    BY <1>1, <2>1
  <2>6. Counted = {} => \A x \in Request : pc'[x] \notin {"absent", "begin"} => ptxLocks' = locker'[x]
    BY <1>1, <2>1
  <2> QED BY <1>1, <2>1, <2>2, <2>3, <2>4, <2>5, <2>6 DEF SyntheticLock, UploadsCounted, Counted
<1>7. ASSUME NEW t \in Request, Commit(t) PROVE SyntheticLock'
  <2>1. /\ pc[t] = "inside" /\ pc'[t] \in {"open", "rollback"}
        /\ \A x \in Request : x # t => pc'[x] = pc[x]
        /\ count' = read[t] + 1 /\ read' = read /\ locker' = locker
    BY <1>7 DEF Commit, removeLocks
  <2>2. \A x \in Request : pc'[x] \notin {"locked", "inside"}
    BY <2>1, OneOfTwo
  <2>3. Inside' = {}
    BY <2>2 DEF Inside
  <2>4. t \in Inside /\ t \notin Counted /\ Counted' = Counted \cup {t}
    BY <2>1 DEF Inside, Counted, Committed
  <2>5. count' = Cardinality(Counted)'
    BY <1>1, <1>2, <2>1, <2>4
  <2>6. \A x \in Request : pc'[x] \in PendingPC => locker'[x] \in Lock
    BY <1>1, <2>1
  <2>7. Counted' # {}
    BY <2>4
  <2> QED BY <2>2, <2>3, <2>5, <2>6, <2>7 DEF SyntheticLock, UploadsCounted, Counted
<1>8. ASSUME NEW t \in Request, Exists(t) \/ Create(t) \/ Write(t) \/ Close(t) \/ Break(t)
                                \/ Rollback(t)
      PROVE  SyntheticLock'
  <2>1. /\ pc[t] \in {"open", "create", "writing", "rollback"}
        /\ pc'[t] \in {"create", "skipped", "writing", "rollback", "done", "failed"}
        /\ \A x \in Request : x # t => pc'[x] = pc[x]
        /\ UNCHANGED <<count, read, locker>>
    BY <1>8 DEF Exists, Create, Write, Close, Break, Rollback, removeLocks
  <2>2. Inside' = Inside /\ Counted' = Counted /\ t \in Counted
    BY <2>1 DEF Inside, Counted, Committed
  <2>3. owner' = owner \/ (owner[ptxLocks] = t /\ owner' = [owner EXCEPT ![ptxLocks] = Nobody])
    BY <1>8 DEF Exists, Create, Write, Close, Break, Rollback, removeLocks, Throws
  <2>4. ASSUME NEW x \in Request, pc'[x] \in {"locked", "inside"} PROVE owner'[locker'[x]] = x
    <3>1. x # t /\ owner[locker[x]] = x /\ locker[x] \in Lock
      BY <2>1, <2>4, <1>1
    <3> QED BY <3>1, <2>1, <2>3
  <2>5. \A x \in Request : pc'[x] \in PendingPC => locker'[x] \in Lock
    BY <1>1, <2>1
  <2>6. Counted' # {}
    BY <2>2
  <2> QED BY <1>1, <2>1, <2>2, <2>4, <2>5, <2>6 DEF SyntheticLock, UploadsCounted, Counted
<1>9. CASE UNCHANGED uploadVars
  BY <1>9 DEF uploadVars, SyntheticLock, UploadsCounted, Inside, Counted, Committed
<1>10. ~\E t \in Request : FindLocked(t)
  BY DEF FindLocked
<1> QED BY <1>3, <1>4, <1>5, <1>6, <1>7, <1>8, <1>9, <1>10 DEF UploadNext, Serve

-----------------------------------------------------------------------------
(* A container that is there has a last creator: the request that emptied  *)
(* it last, which is still writing or is done, and everything it has       *)
(* written since is there.                                                 *)
LastCreator(t, c) ==
    /\ what[t] = c
    /\ pc[t] \in {"writing", "done"}
    /\ 1 .. pos[t] \subseteq file[c]

HasCreator ==
    breaks = 0 =>
        \A c \in Content : file[c] # Absent => \E t \in Request : LastCreator(t, c)

(* As long as no connection breaks, each file has a request that has       *)
(* written it, or is writing it, from the start.                           *)
LEMMA CreatorStep ==
    Basics /\ HasCreator /\ [UploadNext]_uploadVars => HasCreator'
<1> SUFFICES ASSUME Basics, HasCreator, [UploadNext]_uploadVars, breaks' = 0,
                    NEW c \in Content, file'[c] # Absent
             PROVE  \E t \in Request : LastCreator(t, c)'
  BY DEF HasCreator, LastCreator, Basics, UploadNext, Serve, Fetch, Acquire, Queue, Register,
         FindLocked, Commit, Exists, Create, Write, Close, Break, Rollback, uploadVars
<1> USE DEF Basics, Goes, dataVars
<1>1. ASSUME NEW t \in Request, Create(t) PROVE \E x \in Request : LastCreator(x, c)'
  <2>1. /\ pc[t] = "create" /\ pc' = [pc EXCEPT ![t] = "writing"]
        /\ file' = [file EXCEPT ![what[t]] = {}]
        /\ what' = what /\ pos' = pos /\ breaks = 0
    BY <1>1 DEF Create
  <2>2. pos[t] = 0
    BY <2>1 DEF Stream
  <2>3. CASE c = what[t]
    <3>1. 1 .. pos'[t] = {}
      BY <2>1, <2>2
    <3>2. LastCreator(t, c)'
      BY <2>1, <2>3, <3>1 DEF LastCreator
    <3> QED BY <3>2
  <2>4. CASE c # what[t]
    <3>1. PICK x \in Request : LastCreator(x, c)
      BY <2>1, <2>4 DEF HasCreator
    <3>2. LastCreator(x, c)'
      BY <2>1, <2>4, <3>1 DEF LastCreator
    <3> QED BY <3>2
  <2> QED BY <2>3, <2>4
<1>2. ASSUME NEW t \in Request, Write(t) PROVE \E x \in Request : LastCreator(x, c)'
  <2>1. /\ pc[t] = "writing" /\ pos[t] < Size
        /\ pos' = [pos EXCEPT ![t] = @ + 1]
        /\ file' = [file EXCEPT ![what[t]] = @ \cup {pos[t] + 1}]
        /\ what' = what /\ pc' = pc /\ breaks = 0
    BY <1>2 DEF Write
  <2>2. file[c] # Absent
    BY <2>1 DEF Stream
  <2>3. PICK x \in Request : LastCreator(x, c)
    BY <2>1, <2>2 DEF HasCreator
  <2>4. CASE x = t
    <3>1. pos[t] \in Nat /\ pos'[t] = pos[t] + 1
      BY <2>1
    <3>2. 1 .. pos'[t] \subseteq (1 .. pos[t]) \cup {pos[t] + 1}
      BY <3>1
    <3>3. file'[c] = file[c] \cup {pos[t] + 1}
      BY <2>1, <2>3, <2>4 DEF LastCreator
    <3> QED BY <2>1, <2>3, <2>4, <3>2, <3>3 DEF LastCreator
  <2>5. CASE x # t
    <3>1. pos'[x] = pos[x] /\ file[c] \subseteq file'[c]
      BY <2>1, <2>5
    <3> QED BY <2>1, <2>3, <3>1 DEF LastCreator
  <2> QED BY <2>4, <2>5
<1>3. ASSUME NEW t \in Request, Serve(t), ~Create(t), ~Write(t)
      PROVE  \E x \in Request : LastCreator(x, c)'
  <2>1. /\ file' = file /\ pos' = pos /\ what' = what /\ breaks = 0
        /\ pc[t] \in {"writing", "done"} => pc'[t] \in {"writing", "done"}
        /\ \A x \in Request : x # t => pc'[x] = pc[x]
    BY <1>3 DEF Serve, Fetch, Acquire, Queue, Register, FindLocked, Commit, Exists, Close, Break, Rollback
  <2>2. PICK x \in Request : LastCreator(x, c)
    BY <2>1 DEF HasCreator
  <2> QED BY <2>1, <2>2 DEF LastCreator
<1>4. CASE UNCHANGED uploadVars
  BY <1>4 DEF uploadVars, LastCreator, HasCreator
<1> QED BY <1>1, <1>2, <1>3, <1>4 DEF UploadNext

-----------------------------------------------------------------------------
(* The theorems *)

UInv == Basics /\ CountBound /\ DatabaseLock /\ HasCreator

(* The conjunction is an inductive invariant.                              *)
LEMMA UploadInductive == UploadSpec => []UInv
<1>1. UploadInit => UInv
  <2> SUFFICES ASSUME UploadInit PROVE UInv
    OBVIOUS
  <2>1. Basics
    BY UploadConstantsOK DEF UploadInit, Basics, Stream, PC, Lock
  <2>2. Counted = {} /\ Cardinality(Counted) = 0
    <3>1. \A t \in Request : pc[t] \in {"absent", "begin"}
      BY DEF UploadInit
    <3> QED BY <3>1, FS_EmptySet DEF Counted, Committed
  <2>3. CountBound
    BY <2>2 DEF UploadInit, CountBound
  <2>4. DatabaseLock
    BY <2>2 DEF UploadInit, DatabaseLock, Inside, UploadsCounted, Counted
  <2>5. HasCreator
    BY DEF UploadInit, HasCreator
  <2> QED BY <2>1, <2>3, <2>4, <2>5 DEF UInv
<1>2. UInv /\ [UploadNext]_uploadVars => UInv'
  BY BasicsStep, BoundStep, DatabaseStep, CreatorStep DEF UInv
<1> QED BY <1>1, <1>2, PTL DEF UploadSpec

(* The requests, locks, counts and containers are well formed, and a lock  *)
(* is held only by a request that has fetched it, with either kind of      *)
(* lock and any number of requests.                                        *)
THEOREM UploadTypes == UploadSpec => []UploadTypeOK
<1>1. ASSUME UInv PROVE UploadTypeOK
  <2>1. Counted \in SUBSET Request
    BY DEF Counted
  <2>2. /\ Cardinality(Counted) \in Nat
        /\ Cardinality(Counted) <= Cardinality(Request)
        /\ Cardinality(Request) \in Nat
    BY <2>1, CountedFinite
  <2>3. count \in Nat /\ count <= Cardinality(Counted)
    BY <1>1 DEF UInv, Basics, CountBound
  <2>4. read \in [Request -> Nat] /\ \A t \in Request : read[t] <= Cardinality(Counted)
    BY <1>1 DEF UInv, Basics, CountBound
  <2>5. count \in 0 .. Cardinality(Request)
    BY <2>2, <2>3
  <2>6. read \in [Request -> 0 .. Cardinality(Request)]
    BY <2>2, <2>4
  <2> QED BY <1>1, <2>5, <2>6 DEF UInv, Basics, UploadTypeOK
<1> QED BY <1>1, UploadInductive, PTL

(* Where the database locks the PTX, no request ever goes by a lock that   *)
(* is not registered, so that what EachAnswered excepts does not happen.   *)
THEOREM DatabaseLocksHold == UploadSpec => [](locking = "database" => ~RegistrationLost)
<1>1. UInv => (locking = "database" => ~RegistrationLost)
  BY DEF UInv, DatabaseLock, RegistrationLost, Pending, Inside
<1> QED BY <1>1, UploadInductive, PTL

(* No more than two requests come: any two of three are the same.          *)
LEMMA TwoCome == Cardinality(Came) <= 2 => AtMostTwo
<1> SUFFICES ASSUME Cardinality(Came) <= 2,
                    NEW t \in Came, NEW u \in Came, NEW v \in Came,
                    t # u, t # v, u # v
             PROVE  FALSE
  BY DEF AtMostTwo
<1>1. Came \in SUBSET Request /\ IsFiniteSet(Came)
  <2>1. Came \in SUBSET Request
    BY DEF Came
  <2> QED BY <2>1, UploadConstantsOK, FS_Subset
<1>2. {t} \in SUBSET Request /\ {t, u} \in SUBSET Request /\ {t, u, v} \in SUBSET Came
  BY <1>1
<1>3. Cardinality({t}) = 1
  BY FS_Singleton
<1>4. Cardinality({t} \cup {u}) = 2
  BY <1>1, <1>2, <1>3, CountedFinite
<1>5. {t} \cup {u} = {t, u} /\ {t, u} \cup {v} = {t, u, v}
  OBVIOUS
<1>6. Cardinality({t, u} \cup {v}) = 3
  BY <1>1, <1>2, <1>4, <1>5, CountedFinite
<1>7. Cardinality({t, u, v}) <= Cardinality(Came) /\ Cardinality(Came) \in Nat
  BY <1>1, <1>2, FS_Subset, FS_CardinalityType
<1> QED BY <1>5, <1>6, <1>7

(* Every object that was committed is counted in the PTX, for any number   *)
(* of requests where the database locks it; and as long as no more than    *)
(* two requests come the synthetic lock does what that of the database     *)
(* does.                                                                   *)
THEOREM FewCounted == UploadSpec => []CountedOfFew
<1> DEFINE Synthetic == locking = "synthetic" /\ AtMostTwo => SyntheticLock
<1>1. UploadInit => Synthetic
  <2> SUFFICES ASSUME UploadInit PROVE SyntheticLock
    OBVIOUS
  <2>1. \A t \in Request : pc[t] \in {"absent", "begin"}
    BY DEF UploadInit
  <2>2. Counted = {} /\ Cardinality(Counted) = 0
    BY <2>1, FS_EmptySet DEF Counted, Committed
  <2> QED BY <2>1, <2>2 DEF UploadInit, SyntheticLock, Inside, UploadsCounted, Counted, PendingPC
<1>2. UInv /\ Synthetic /\ [UploadNext]_uploadVars => Synthetic'
  <2> SUFFICES ASSUME UInv, Synthetic, [UploadNext]_uploadVars PROVE Synthetic'
    OBVIOUS
  <2>1. locking' = locking /\ \A t \in Request : pc'[t] = "absent" <=> pc[t] = "absent"
    BY DEF UInv, Basics, Goes, UploadNext, Serve, Fetch, Acquire, Queue, Register, FindLocked,
           Commit, Exists, Create, Write, Close, Break, Rollback, uploadVars
  <2>2. Came' = Came
    BY <2>1 DEF Came
  <2> QED BY <2>1, <2>2, SyntheticStep DEF UInv, AtMostTwo
<1>3. UInv /\ Synthetic => CountedOfFew
  <2> SUFFICES ASSUME UInv, Synthetic, locking = "database" \/ Cardinality(Came) <= 2
               PROVE  UploadsCounted
    BY DEF CountedOfFew
  <2>1. locking = "database" \/ locking = "synthetic"
    BY UploadConstantsOK DEF UInv, Basics
  <2> QED BY <2>1, TwoCome DEF UInv, DatabaseLock, SyntheticLock
<1> QED BY <1>1, <1>2, <1>3, UploadInductive, PTL DEF UploadSpec

(* While no connection breaks, a content that was answered for is whole    *)
(* when nobody is writing it, however many requests have written it.       *)
THEOREM ContentsWhole == UploadSpec => []WholeIfUnbroken
<1>1. ASSUME UInv PROVE WholeIfUnbroken
  <2> SUFFICES ASSUME breaks = 0, NEW t \in Request, pc[t] \in {"done", "skipped"},
                      Quiet(what[t])
               PROVE  file[what[t]] = Blocks
    BY DEF WholeIfUnbroken
  <2> DEFINE c == what[t]
  <2>1. c \in Content /\ file[c] # Absent /\ file[c] \in {Absent} \cup SUBSET Blocks
    BY <1>1 DEF UInv, Basics, Stream
  <2>2. PICK x \in Request : LastCreator(x, c)
    BY <1>1, <2>1 DEF UInv, HasCreator
  <2>3. pc[x] = "done"
    BY <2>2 DEF LastCreator, Quiet
  <2>4. pos[x] = Size
    BY <1>1, <2>3 DEF UInv, Basics, Stream
  <2>5. Blocks \subseteq file[c]
    BY <2>2, <2>4 DEF LastCreator, Blocks
  <2> QED BY <2>1, <2>5
<1> QED BY <1>1, UploadInductive, PTL
=============================================================================
