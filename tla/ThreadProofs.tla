---------------------------- MODULE ThreadProofs ----------------------------
(***************************************************************************)
(* Proofs about module AuditorThreads, for any finite number of threads,   *)
(* path actions and calls.                                                 *)
(***************************************************************************)
EXTENDS AuditorThreads, SequenceTheorems, FiniteSetTheorems, TLAPS

(* What a thread is in for: only exec and exit send the temp file, and     *)
(* after exit nothing follows; only fork forks.                            *)
PurposeOK(t) ==
    /\ pc[t] \in {"record", "insert"} => n[t] < MaxRecords
    /\ pc[t] \in {"rewind", "read", "truncate"} => call[t] \in {"exec", "exit"}
    /\ pc[t] = "truncate" /\ call[t] = "exit" => over
    /\ pc[t] = "fork" => call[t] = "fork"
    /\ pc[t] = "xlock" => call[t] = "exec"

(* Only its owner is inside what a mutex protects.                         *)
LocksOK(t) ==
    /\ pc[t] \in {"insert", "write", "clear"} => mutex = t
    /\ call[t] = "exec" /\ pc[t] \in {"flush", "write", "clear", "rewind", "read", "truncate"}
          => xmutex = t

ThreadsOK ==
    /\ pc \in [Thread -> PC] /\ call \in [Thread -> Calls]
    /\ n \in [Thread -> 0 .. MaxRecords]
    /\ calls \in 0 .. MaxCalls /\ over \in BOOLEAN /\ stuck \in Nat
    /\ \A t \in Thread : PurposeOK(t) /\ LocksOK(t)

DataOK ==
    /\ mem \subseteq PA /\ unread \subseteq file /\ file \subseteq PA
    /\ delivered \in [PA -> Nat]
    /\ child \in Seq(SUBSET PA)
    /\ exposed \subseteq PA

(* The calls that may still leave a child stuck.                           *)
Forking == {t \in Thread : call[t] = "fork" /\ pc[t] \in {"flush", "write", "clear", "fork"}}
ForksCounted == stuck + Cardinality(Forking) <= calls

-----------------------------------------------------------------------------
(* Types *)

(* The steps of one thread: the others stay where they are.                *)
LEMMA ThreadsKept == ThreadsOK /\ [ThreadNext]_threadVars => ThreadsOK'
<1> SUFFICES ASSUME ThreadsOK, [ThreadNext]_threadVars PROVE ThreadsOK'
  OBVIOUS
<1> USE ThreadConstantsOK DEF PC, Calls
<1>1. CASE UNCHANGED threadVars
  BY <1>1 DEF threadVars, ThreadsOK, PurposeOK, LocksOK
<1>2. ASSUME NEW k \in DOMAIN child, ChildEnds(k) PROVE ThreadsOK'
  BY <1>2 DEF ChildEnds, ThreadsOK, PurposeOK, LocksOK
<1>3. ASSUME NEW t \in Thread, Call_record(t) PROVE ThreadsOK'
  BY <1>3 DEF Call_record, Goes, ThreadsOK, PurposeOK, LocksOK
<1>4. ASSUME NEW t \in Thread, RecordLock(t) PROVE ThreadsOK'
  BY <1>4 DEF RecordLock, Goes, ThreadsOK, PurposeOK, LocksOK
<1>5. ASSUME NEW t \in Thread, ca_record_pa(t) PROVE ThreadsOK'
  BY <1>5 DEF ca_record_pa, Goes, ThreadsOK, PurposeOK, LocksOK
<1>6. ASSUME NEW t \in Thread, NEW c \in Calls, Enter(t, c) PROVE ThreadsOK'
  BY <1>6 DEF Enter, Goes, ThreadsOK, PurposeOK, LocksOK
<1>7. ASSUME NEW t \in Thread, ExecLock(t) PROVE ThreadsOK'
  BY <1>7 DEF ExecLock, Goes, ThreadsOK, PurposeOK, LocksOK
<1>8. ASSUME NEW t \in Thread, FlushLock(t) PROVE ThreadsOK'
  BY <1>8 DEF FlushLock, Goes, ThreadsOK, PurposeOK, LocksOK
<1>9. ASSUME NEW t \in Thread, WriteOut(t) PROVE ThreadsOK'
  BY <1>9 DEF WriteOut, Goes, ThreadsOK, PurposeOK, LocksOK
<1>10. ASSUME NEW t \in Thread, Clear(t) PROVE ThreadsOK'
  BY <1>10 DEF Clear, AfterFlush, Goes, ThreadsOK, PurposeOK, LocksOK
<1>11. ASSUME NEW t \in Thread, Fork(t) PROVE ThreadsOK'
  BY <1>11 DEF Fork, Goes, ThreadsOK, PurposeOK, LocksOK
<1>12. ASSUME NEW t \in Thread, Rewind(t) PROVE ThreadsOK'
  BY <1>12 DEF Rewind, Goes, ThreadsOK, PurposeOK, LocksOK
<1>13. ASSUME NEW t \in Thread, ReadAndSend(t) PROVE ThreadsOK'
  BY <1>13 DEF ReadAndSend, Goes, ThreadsOK, PurposeOK, LocksOK
<1>14. ASSUME NEW t \in Thread, Truncate(t) PROVE ThreadsOK'
  BY <1>14 DEF Truncate, Goes, ThreadsOK, PurposeOK, LocksOK
<1>15. ASSUME NEW t \in Thread, Exec(t) PROVE ThreadsOK'
  BY <1>15 DEF Exec, Goes, ThreadsOK, PurposeOK, LocksOK
<1> QED BY <1>1, <1>2, <1>3, <1>4, <1>5, <1>6, <1>7, <1>8, <1>9, <1>10, <1>11, <1>12, <1>13,
           <1>14, <1>15 DEF ThreadNext, Inside

(* What is delivered counts as delivered once more, the rest as before.    *)
LEMMA DeliverFacts ==
    ASSUME delivered \in [PA -> Nat], NEW pas, Deliver(pas)
    PROVE  /\ delivered' \in [PA -> Nat]
           /\ \A a \in PA : a \in pas => delivered'[a] = delivered[a] + 1
           /\ \A a \in PA : a \notin pas => delivered'[a] = delivered[a]
  BY DEF Deliver

(* Exposed path actions stay so; those a step touches join them if another *)
(* thread is in its gap.                                                   *)
LEMMA ExposeFacts ==
    ASSUME NEW t \in Thread, NEW pas, Expose(t, pas)
    PROVE  /\ exposed \subseteq exposed' /\ exposed' \subseteq exposed \cup pas
           /\ \A u \in Thread : u # t /\ InGap(u) => pas \subseteq exposed'
  BY DEF Expose

(* Every step keeps the types of what is recorded.                         *)
LEMMA DataKept == ThreadsOK /\ DataOK /\ [ThreadNext]_threadVars => DataOK'
<1> SUFFICES ASSUME ThreadsOK, DataOK, [ThreadNext]_threadVars PROVE DataOK'
  OBVIOUS
<1>1. ASSUME UNCHANGED <<mem, unread, file, delivered, child, exposed>> PROVE DataOK'
  BY <1>1 DEF DataOK
<1>2. CASE UNCHANGED threadVars
  BY <1>1, <1>2 DEF threadVars
<1>3. ASSUME NEW k \in DOMAIN child, ChildEnds(k) PROVE DataOK'
  <2>1. delivered' \in [PA -> Nat]
    BY <1>3, DeliverFacts DEF ChildEnds, DataOK
  <2>2. child' \in Seq(SUBSET PA)
    <3>1. child \in Seq(SUBSET PA) /\ k \in 1 .. Len(child) /\ {} \in SUBSET PA
      BY LenProperties DEF DataOK
    <3> QED BY <1>3, <3>1, ExceptSeq DEF ChildEnds
  <2> QED BY <1>3, <2>1, <2>2 DEF ChildEnds, DataOK
<1>4. ASSUME NEW t \in Thread,
             \/ Call_record(t) \/ RecordLock(t) \/ ExecLock(t) \/ FlushLock(t) \/ Exec(t)
             \/ \E c \in Calls : Enter(t, c)
      PROVE  DataOK'
  BY <1>1, <1>4 DEF Call_record, RecordLock, ExecLock, FlushLock, Exec, Enter
<1>5. ASSUME NEW t \in Thread, ca_record_pa(t) PROVE DataOK'
  <2>1. n[t] + 1 \in 1 .. MaxRecords
    BY <1>5, ThreadConstantsOK DEF ca_record_pa, ThreadsOK, PurposeOK
  <2>2. <<t, n[t] + 1>> \in PA
    BY <2>1 DEF PA
  <2>3. exposed' \subseteq exposed \cup {<<t, n[t] + 1>>}
    BY <1>5, ExposeFacts DEF ca_record_pa
  <2> QED BY <1>5, <2>2, <2>3 DEF ca_record_pa, DataOK
<1>6. ASSUME NEW t \in Thread, WriteOut(t) PROVE DataOK'
  <2>1. exposed' \subseteq exposed \cup (file \cup mem)
    BY <1>6, ExposeFacts DEF WriteOut
  <2> QED BY <1>6, <2>1 DEF WriteOut, DataOK
<1>7. ASSUME NEW t \in Thread, Clear(t) \/ Truncate(t) PROVE DataOK'
  BY <1>7 DEF Clear, Truncate, DataOK
<1>8. ASSUME NEW t \in Thread, Fork(t) PROVE DataOK'
  <2>1. child' = child \/ child' = Append(child, mem)
    BY <1>8 DEF Fork
  <2>2. child' \in Seq(SUBSET PA)
    BY <2>1, AppendProperties DEF DataOK
  <2> QED BY <1>8, <2>2 DEF Fork, DataOK
<1>9. ASSUME NEW t \in Thread, Rewind(t) PROVE DataOK'
  <2>1. exposed' \subseteq exposed \cup file
    BY <1>9, ExposeFacts DEF Rewind
  <2> QED BY <1>9, <2>1 DEF Rewind, DataOK
<1>10. ASSUME NEW t \in Thread, ReadAndSend(t) PROVE DataOK'
  <2>1. delivered' \in [PA -> Nat]
    BY <1>10, DeliverFacts DEF ReadAndSend, DataOK
  <2> QED BY <1>10, <2>1 DEF ReadAndSend, DataOK
<1> QED BY <1>2, <1>3, <1>4, <1>5, <1>6, <1>7, <1>8, <1>9, <1>10 DEF ThreadNext, Inside

(* A child gets stuck only in a call of fork, and a call of fork leaves at *)
(* most one.                                                               *)
LEMMA ForksKept == ThreadsOK /\ ForksCounted /\ [ThreadNext]_threadVars => ForksCounted'
<1> SUFFICES ASSUME ThreadsOK, ForksCounted, [ThreadNext]_threadVars PROVE ForksCounted'
  OBVIOUS
<1>1. IsFiniteSet(Forking) /\ Cardinality(Forking) \in Nat /\ stuck \in Nat /\ calls \in Nat
  <2>1. IsFiniteSet(Forking)
    BY ThreadConstantsOK, FS_Subset DEF Forking
  <2> QED BY <2>1, FS_CardinalityType, ThreadConstantsOK DEF ThreadsOK
<1>2. ASSUME Forking' = Forking, stuck' = stuck, calls' = calls PROVE ForksCounted'
  BY <1>2 DEF ForksCounted
<1>3. CASE UNCHANGED threadVars
  BY <1>2, <1>3 DEF threadVars, Forking
<1>4. ASSUME NEW k \in DOMAIN child, ChildEnds(k) PROVE ForksCounted'
  BY <1>2, <1>4 DEF ChildEnds, Forking
<1>5. ASSUME NEW t \in Thread,
             \/ Call_record(t) \/ RecordLock(t) \/ ca_record_pa(t) \/ ExecLock(t) \/ FlushLock(t)
             \/ WriteOut(t) \/ Clear(t) \/ Rewind(t) \/ ReadAndSend(t) \/ Truncate(t) \/ Exec(t)
      PROVE  ForksCounted'
  <2> DEFINE F == {"flush", "write", "clear", "fork"}
  <2>1. call' = call /\ stuck' = stuck /\ calls' = calls
    BY <1>5 DEF Call_record, RecordLock, ca_record_pa, ExecLock, FlushLock, WriteOut, Clear,
                Rewind, ReadAndSend, Truncate, Exec
  <2>2. /\ \A u \in Thread : u # t => pc'[u] = pc[u]
        /\ call[t] = "fork" => (pc[t] \in F <=> pc'[t] \in F)
    <3> USE DEF ThreadsOK, PurposeOK, Goes
    <3>1. CASE Call_record(t) \/ RecordLock(t) \/ ca_record_pa(t)
      BY <3>1 DEF Call_record, RecordLock, ca_record_pa
    <3>2. CASE ExecLock(t) \/ FlushLock(t) \/ WriteOut(t)
      BY <3>2 DEF ExecLock, FlushLock, WriteOut
    <3>3. CASE Clear(t)
      BY <3>3 DEF Clear, AfterFlush, Calls
    <3>4. CASE Rewind(t) \/ ReadAndSend(t) \/ Truncate(t) \/ Exec(t)
      BY <3>4 DEF Rewind, ReadAndSend, Truncate, Exec
    <3> QED BY <1>5, <3>1, <3>2, <3>3, <3>4
  <2>3. Forking' = Forking
    BY <2>1, <2>2 DEF Forking
  <2> QED BY <1>2, <2>1, <2>3
<1>6. ASSUME NEW t \in Thread, NEW c \in Calls, Enter(t, c) PROVE ForksCounted'
  <2>1. t \notin Forking /\ stuck' = stuck /\ calls' = calls + 1
    BY <1>6 DEF Enter, Forking
  <2>2. Forking' \subseteq Forking \cup {t}
    BY <1>6 DEF Enter, Forking, Goes, ThreadsOK
  <2>3. IsFiniteSet(Forking \cup {t}) /\ Cardinality(Forking \cup {t}) = Cardinality(Forking) + 1
    BY <1>1, <2>1, FS_AddElement
  <2>4. IsFiniteSet(Forking') /\ Cardinality(Forking') <= Cardinality(Forking) + 1
    BY <2>2, <2>3, FS_Subset
  <2>5. Cardinality(Forking') \in Nat
    BY <2>4, FS_CardinalityType
  <2> QED BY <1>1, <2>1, <2>4, <2>5 DEF ForksCounted
<1>7. ASSUME NEW t \in Thread, Fork(t) PROVE ForksCounted'
  <2>1. t \in Forking /\ calls' = calls /\ stuck' \in {stuck, stuck + 1}
    BY <1>7 DEF Fork, Forking, ThreadsOK, PurposeOK
  <2>2. Forking' = Forking \ {t}
    BY <1>7 DEF Fork, Forking, Goes, ThreadsOK
  <2>3. Cardinality(Forking') = Cardinality(Forking) - 1
    BY <1>1, <2>1, <2>2, FS_RemoveElement
  <2> QED BY <1>1, <2>1, <2>3 DEF ForksCounted
<1> QED BY <1>3, <1>4, <1>5, <1>6, <1>7 DEF ThreadNext, Inside

-----------------------------------------------------------------------------
(* What is not exposed *)

Sending(t) == pc[t] \in {"read", "truncate"}

(* What a gap meets: CurrentCA was empty when it began, so whatever is in  *)
(* it was recorded in the gap, and so was what a child inherits.  The file *)
(* was truncated before an exec; two threads that send it at once have     *)
(* rewound it in each other's gap.                                         *)
Gaps ==
    /\ \A t \in Thread : InGap(t) => mem \subseteq exposed
    /\ \A k \in DOMAIN child : child[k] \subseteq exposed
    /\ \A t \in Thread : pc[t] = "clear" => mem \subseteq file \cup exposed
    /\ \A t \in Thread : pc[t] = "exec" => file \subseteq exposed
    /\ \A t, u \in Thread : t # u /\ Sending(t) /\ Sending(u) => file \subseteq exposed

(* Where a path action that is not exposed has got to.                     *)
InFile(a) ==
    /\ (\A t \in Thread : pc[t] # "truncate") => delivered[a] = 0
    /\ \A t \in Thread : pc[t] = "read" => a \in unread /\ delivered[a] = 0
    /\ \A t \in Thread : pc[t] = "truncate" => delivered[a] = 1
Progress ==
    /\ mem \cup file \subseteq Recorded
    /\ \A a \in PA \ (Recorded \cup exposed) : delivered[a] = 0
    /\ \A a \in mem \ exposed : delivered[a] = 0
    /\ \A a \in file \ exposed : InFile(a)

Tracked == Gaps /\ Progress /\ NotLostNorDuplicated

(* A step of thread t that is in no gap and touches no path action.        *)
Aside(t) ==
    /\ \A u \in Thread : u # t => pc'[u] = pc[u]
    /\ pc[t] # "truncate" /\ pc'[t] \in {"run", "record", "insert", "xlock", "flush", "write"}
    /\ UNCHANGED <<n, mem, file, unread, delivered, child, exposed, over>>

(* Every step keeps track of what is not exposed.                          *)
LEMMA TrackedKept ==
    ASSUME ThreadsOK, DataOK, Tracked, [ThreadNext]_threadVars
    PROVE  Tracked'
<1> DEFINE Others(t) == \A u \in Thread : u # t => pc'[u] = pc[u]
<1>1. Gaps /\ Progress /\ NotLostNorDuplicated
  BY DEF Tracked
<1>2. CASE UNCHANGED threadVars
  BY <1>1, <1>2 DEF threadVars, Tracked, Gaps, Progress, NotLostNorDuplicated, InGap, Sending,
                    InFile, Recorded
<1>3. ASSUME NEW t \in Thread, Aside(t) PROVE Tracked'
  <2>1. Gaps'
    BY <1>1, <1>3 DEF Aside, Gaps, InGap, Sending
  <2>2. Recorded' = Recorded
    BY <1>3 DEF Aside, Recorded
  <2>3. \A a \in file \ exposed : InFile(a)'
    BY <1>1, <1>3 DEF Aside, Progress, InFile
  <2>4. Progress'
    BY <1>1, <1>3, <2>2, <2>3 DEF Aside, Progress
  <2>5. NotLostNorDuplicated'
    BY <1>1, <1>3, <2>2 DEF Aside, NotLostNorDuplicated
  <2> QED BY <2>1, <2>4, <2>5 DEF Tracked
<1>4. ASSUME NEW t \in Thread,
             \/ Call_record(t) \/ RecordLock(t) \/ ExecLock(t) \/ FlushLock(t)
             \/ \E c \in Calls : Enter(t, c)
      PROVE  Aside(t)
  BY <1>4 DEF Call_record, RecordLock, ExecLock, FlushLock, Enter, Goes, Aside, ThreadsOK
<1>5. ASSUME NEW k \in DOMAIN child, ChildEnds(k) PROVE Tracked'
  <2>1. /\ UNCHANGED <<pc, n, mem, file, unread, exposed, over>>
        /\ child' = [child EXCEPT ![k] = {}] /\ Deliver(child[k]) /\ child[k] \subseteq exposed
    BY <1>1, <1>5 DEF ChildEnds, Gaps
  <2>2. \A a \in PA : a \notin exposed => delivered'[a] = delivered[a]
    BY <2>1, DeliverFacts DEF DataOK
  <2>3. DOMAIN child' = DOMAIN child /\ \A j \in DOMAIN child : child'[j] \subseteq exposed
    BY <1>1, <2>1 DEF Gaps
  <2>4. Gaps'
    BY <1>1, <2>1, <2>3 DEF Gaps, InGap, Sending
  <2>5. Recorded' = Recorded
    BY <2>1 DEF Recorded
  <2>6. Progress'
    BY <1>1, <2>1, <2>2, <2>5 DEF Progress, InFile, DataOK
  <2>7. NotLostNorDuplicated'
    BY <1>1, <2>1, <2>2, <2>5 DEF NotLostNorDuplicated, Recorded
  <2> QED BY <2>4, <2>6, <2>7 DEF Tracked
<1>6. ASSUME NEW t \in Thread, ca_record_pa(t) PROVE Tracked'
  <2>1. PICK a : a = <<t, n[t] + 1>>
    OBVIOUS
  <2>2. /\ ~over /\ pc[t] = "insert" /\ pc' = [pc EXCEPT ![t] = "run"]
        /\ mem' = mem \cup {a} /\ n' = [n EXCEPT ![t] = @ + 1] /\ Expose(t, {a})
        /\ UNCHANGED <<file, unread, delivered, child, over>>
    BY <1>6, <2>1 DEF ca_record_pa, Goes
  <2>3. n[t] \in Nat /\ n[t] + 1 \in 1 .. MaxRecords
    BY <2>2, ThreadConstantsOK DEF ThreadsOK, PurposeOK
  <2>4. a \in PA /\ a \notin Recorded
    BY <2>1, <2>3 DEF PA, Recorded
  <2>5. Recorded' = Recorded \cup {a}
    <3>1. \A x \in PA : x[1] \in Thread /\ x[2] \in Nat /\ x = <<x[1], x[2]>>
      BY ThreadConstantsOK DEF PA
    <3>2. n'[t] = n[t] + 1 /\ \A u \in Thread : u # t => n'[u] = n[u]
      BY <2>2 DEF ThreadsOK
    <3>3. \A x \in PA : x \in Recorded' <=> x \in Recorded \/ x = a
      <4> TAKE x \in PA
      <4>1. CASE x[1] # t
        BY <2>1, <3>1, <3>2, <4>1 DEF Recorded
      <4>2. CASE x[1] = t
        <5>1. x = a <=> x[2] = n[t] + 1
          BY <2>1, <3>1, <4>2
        <5>2. x[2] \in Nat
          BY <3>1
        <5> QED BY <2>3, <3>2, <4>2, <5>1, <5>2 DEF Recorded
      <4> QED BY <4>1, <4>2
    <3> QED BY <2>4, <3>3 DEF Recorded
  <2>6. /\ exposed \subseteq exposed' /\ exposed' \subseteq exposed \cup {a}
        /\ \A u \in Thread : u # t /\ InGap(u) => a \in exposed'
    BY <2>2, ExposeFacts
  <2>7. Others(t) /\ pc'[t] = "run"
    BY <2>2 DEF ThreadsOK
  <2>8. \A u \in Thread : pc[u] = "clear" => FALSE
    BY <2>2, ThreadConstantsOK DEF ThreadsOK, LocksOK
  <2>9. Gaps'
    BY <1>1, <2>2, <2>6, <2>7, <2>8 DEF Gaps, InGap, Sending
  <2>10. \A x \in file \ exposed' : InFile(x)'
    BY <1>1, <2>2, <2>6, <2>7 DEF Progress, InFile
  <2>11. Progress'
    BY <1>1, <2>2, <2>4, <2>5, <2>6, <2>10 DEF Progress
  <2>12. NotLostNorDuplicated'
    BY <1>1, <2>2, <2>4, <2>5, <2>6 DEF NotLostNorDuplicated, Progress
  <2> QED BY <2>9, <2>11, <2>12 DEF Tracked
<1>7. ASSUME NEW t \in Thread, WriteOut(t) PROVE Tracked'
  <2>1. /\ ~over /\ pc[t] = "write" /\ pc' = [pc EXCEPT ![t] = "clear"]
        /\ file' = file \cup mem /\ unread' \subseteq unread
        /\ ~Reading(t) => unread' = unread
        /\ Expose(t, file \cup mem)
        /\ UNCHANGED <<n, mem, delivered, child, over>>
    BY <1>7 DEF WriteOut, Goes
  <2>2. /\ exposed \subseteq exposed'
        /\ \A u \in Thread : u # t /\ InGap(u) => file \cup mem \subseteq exposed'
    BY <2>1, ExposeFacts
  <2>3. Others(t) /\ pc'[t] = "clear"
    BY <2>1 DEF ThreadsOK
  <2>4. Gaps'
    BY <1>1, <2>1, <2>2, <2>3 DEF Gaps, InGap, Sending
  <2>5. Recorded' = Recorded
    BY <2>1 DEF Recorded
  <2>6. ASSUME NEW a \in file', a \notin exposed' PROVE InFile(a)'
    <3>1. \A u \in Thread : ~InGap(u)
      BY <2>1, <2>2, <2>6 DEF InGap
    <3>2. delivered[a] = 0
      BY <1>1, <2>1, <2>2, <2>6, <3>1 DEF Progress, InFile, InGap
    <3> QED BY <2>1, <2>3, <3>1, <3>2 DEF InFile, InGap
  <2>7. Progress'
    BY <1>1, <2>1, <2>2, <2>5, <2>6 DEF Progress
  <2>8. NotLostNorDuplicated'
    BY <1>1, <2>1, <2>2, <2>5 DEF NotLostNorDuplicated
  <2> QED BY <2>4, <2>7, <2>8 DEF Tracked
<1>8. ASSUME NEW t \in Thread, Clear(t) PROVE Tracked'
  <2>1. /\ ~over /\ pc[t] = "clear" /\ mem' = {}
        /\ UNCHANGED <<n, file, unread, delivered, child, exposed, over>>
    BY <1>8 DEF Clear
  <2>2. Others(t) /\ pc'[t] \in {"run", "fork", "rewind"}
    BY <1>8 DEF Clear, Goes, AfterFlush, ThreadsOK, Calls
  <2>3. Gaps'
    BY <1>1, <2>1, <2>2 DEF Gaps, InGap, Sending
  <2>4. Recorded' = Recorded
    BY <2>1 DEF Recorded
  <2>5. \A a \in file \ exposed : InFile(a)'
    BY <1>1, <2>1, <2>2 DEF Progress, InFile
  <2>6. Progress'
    BY <1>1, <2>1, <2>4, <2>5 DEF Progress
  <2>7. mem \subseteq file \cup exposed
    BY <1>1, <2>1 DEF Gaps
  <2>8. NotLostNorDuplicated'
    BY <1>1, <2>1, <2>4, <2>7 DEF NotLostNorDuplicated
  <2> QED BY <2>3, <2>6, <2>8 DEF Tracked
<1>9. ASSUME NEW t \in Thread, Fork(t) PROVE Tracked'
  <2>1. /\ ~over /\ pc[t] = "fork" /\ child' \in {child, Append(child, mem)}
        /\ UNCHANGED <<n, mem, file, unread, delivered, exposed, over>>
    BY <1>9 DEF Fork
  <2>2. Others(t) /\ pc'[t] = "run"
    BY <1>9 DEF Fork, Goes, ThreadsOK
  <2>3. mem \subseteq exposed
    BY <1>1, <2>1 DEF Gaps, InGap
  <2>4. \A k \in DOMAIN child' : child'[k] \subseteq exposed
    <3>1. CASE child' = child
      BY <1>1, <3>1 DEF Gaps
    <3>2. CASE child' = Append(child, mem)
      <4>1. child \in Seq(SUBSET PA) /\ mem \in SUBSET PA
        BY DEF DataOK
      <4>2. /\ DOMAIN child = 1 .. Len(child) /\ Len(child) \in Nat
            /\ DOMAIN child' = 1 .. Len(child) + 1
            /\ \A i \in 1 .. Len(child) : child'[i] = child[i]
            /\ child'[Len(child) + 1] = mem
        BY <3>2, <4>1, AppendProperties, LenProperties
      <4>3. \A k \in DOMAIN child : child[k] \subseteq exposed
        BY <1>1 DEF Gaps
      <4> QED BY <2>3, <4>2, <4>3
    <3> QED BY <2>1, <3>1, <3>2
  <2>5. Gaps'
    BY <1>1, <2>1, <2>2, <2>4 DEF Gaps, InGap, Sending
  <2>6. Recorded' = Recorded
    BY <2>1 DEF Recorded
  <2>7. \A a \in file \ exposed : InFile(a)'
    BY <1>1, <2>1, <2>2 DEF Progress, InFile
  <2>8. Progress'
    BY <1>1, <2>1, <2>6, <2>7 DEF Progress
  <2>9. NotLostNorDuplicated'
    BY <1>1, <2>1, <2>6 DEF NotLostNorDuplicated
  <2> QED BY <2>5, <2>8, <2>9 DEF Tracked
<1>10. ASSUME NEW t \in Thread, Rewind(t) PROVE Tracked'
  <2>1. /\ ~over /\ pc[t] = "rewind" /\ unread' = file /\ Expose(t, file)
        /\ UNCHANGED <<n, mem, file, delivered, child, over>>
    BY <1>10 DEF Rewind
  <2>2. Others(t) /\ pc'[t] = "read"
    BY <1>10 DEF Rewind, Goes, ThreadsOK
  <2>3. /\ exposed \subseteq exposed'
        /\ \A u \in Thread : u # t /\ InGap(u) => file \subseteq exposed'
    BY <2>1, ExposeFacts
  <2>4. Gaps'
    BY <1>1, <2>1, <2>2, <2>3 DEF Gaps, InGap, Sending
  <2>5. Recorded' = Recorded
    BY <2>1 DEF Recorded
  <2>6. ASSUME NEW a \in file, a \notin exposed' PROVE InFile(a)'
    <3>1. \A u \in Thread : u # t => ~InGap(u)
      BY <2>3, <2>6
    <3>2. \A u \in Thread : pc[u] # "truncate"
      BY <2>1, <3>1 DEF InGap
    <3>3. delivered[a] = 0
      BY <1>1, <2>3, <2>6, <3>2 DEF Progress, InFile
    <3> QED BY <2>1, <2>2, <2>6, <3>2, <3>3 DEF InFile
  <2>7. Progress'
    BY <1>1, <2>1, <2>3, <2>5, <2>6 DEF Progress
  <2>8. NotLostNorDuplicated'
    BY <1>1, <2>1, <2>3, <2>5 DEF NotLostNorDuplicated
  <2> QED BY <2>4, <2>7, <2>8 DEF Tracked
<1>11. ASSUME NEW t \in Thread, ReadAndSend(t) PROVE Tracked'
  <2>1. /\ ~over /\ pc[t] = "read" /\ unread' = {} /\ Deliver(unread)
        /\ UNCHANGED <<n, mem, file, child, exposed>>
    BY <1>11 DEF ReadAndSend
  <2>2. Others(t) /\ pc'[t] = "truncate"
    BY <1>11 DEF ReadAndSend, Goes, ThreadsOK
  <2>3. /\ \A a \in PA : a \in unread => delivered'[a] = delivered[a] + 1
        /\ \A a \in PA : a \notin unread => delivered'[a] = delivered[a]
    BY <2>1, DeliverFacts DEF DataOK
  <2>4. mem \subseteq exposed
    BY <1>1, <2>1 DEF Gaps, InGap
  <2>5. \A a \in file \ exposed : a \in unread /\ delivered[a] = 0 /\ delivered'[a] = 1
    BY <1>1, <2>1, <2>3 DEF Progress, InFile, DataOK
  <2>6. \A a \in PA : a \notin file => delivered'[a] = delivered[a]
    BY <2>3 DEF DataOK
  <2>7. Gaps'
    BY <1>1, <2>1, <2>2 DEF Gaps, InGap, Sending
  <2>8. Recorded' = Recorded
    BY <2>1 DEF Recorded
  <2>9. ASSUME NEW a \in file, a \notin exposed PROVE InFile(a)'
    <3>1. \A u \in Thread : u # t => ~Sending(u)
      BY <1>1, <2>1, <2>9 DEF Gaps, Sending
    <3>2. \A u \in Thread : pc'[u] # "read"
      BY <2>2, <3>1 DEF Sending
    <3> QED BY <2>2, <2>5, <2>9, <3>2 DEF InFile
  <2>10. Progress'
    BY <1>1, <2>1, <2>4, <2>6, <2>8, <2>9 DEF Progress
  <2>11. NotLostNorDuplicated'
    <3> SUFFICES ASSUME NEW a \in Recorded, a \notin exposed PROVE delivered'[a] = 1
      BY <2>1, <2>8 DEF NotLostNorDuplicated
    <3>1. a \in PA
      BY DEF Recorded
    <3>2. CASE a \in file
      BY <2>5, <3>2
    <3>3. CASE a \notin file
      BY <1>1, <2>4, <2>6, <3>1, <3>3 DEF NotLostNorDuplicated
    <3> QED BY <3>2, <3>3
  <2> QED BY <2>7, <2>10, <2>11 DEF Tracked
<1>12. ASSUME NEW t \in Thread, Truncate(t) PROVE Tracked'
  <2>1. /\ ~over /\ pc[t] = "truncate" /\ file' = {} /\ unread' = {}
        /\ UNCHANGED <<n, mem, delivered, child, exposed, over>>
    BY <1>12 DEF Truncate
  <2>2. Others(t) /\ pc'[t] = "exec"
    BY <1>12 DEF Truncate, Goes, ThreadsOK
  <2>3. mem \subseteq exposed
    BY <1>1, <2>1 DEF Gaps, InGap
  <2>4. Gaps'
    BY <1>1, <2>1, <2>2, <2>3 DEF Gaps, InGap, Sending
  <2>5. Recorded' = Recorded
    BY <2>1 DEF Recorded
  <2>6. Progress'
    BY <1>1, <2>1, <2>3, <2>5 DEF Progress
  <2>7. \A a \in file \ exposed : delivered[a] = 1
    BY <1>1, <2>1 DEF Progress, InFile
  <2>8. NotLostNorDuplicated'
    BY <1>1, <2>1, <2>3, <2>5, <2>7 DEF NotLostNorDuplicated
  <2> QED BY <2>4, <2>6, <2>8 DEF Tracked
<1>13. ASSUME NEW t \in Thread, Exec(t) PROVE Tracked'
  <2>1. /\ ~over /\ pc[t] = "exec"
        /\ UNCHANGED <<n, mem, file, unread, delivered, child, exposed>>
    BY <1>13 DEF Exec
  <2>2. Others(t) /\ pc'[t] = "run"
    BY <1>13 DEF Exec, Goes, ThreadsOK
  <2>3. mem \subseteq exposed /\ file \subseteq exposed
    BY <1>1, <2>1 DEF Gaps, InGap
  <2>4. Gaps'
    BY <1>1, <2>1, <2>2 DEF Gaps, InGap, Sending
  <2>5. Recorded' = Recorded
    BY <2>1 DEF Recorded
  <2>6. Progress'
    BY <1>1, <2>1, <2>3, <2>5 DEF Progress
  <2>7. NotLostNorDuplicated'
    BY <1>1, <2>1, <2>3, <2>5 DEF NotLostNorDuplicated
  <2> QED BY <2>4, <2>6, <2>7 DEF Tracked
<1> QED BY <1>2, <1>3, <1>4, <1>5, <1>6, <1>7, <1>8, <1>9, <1>10, <1>11, <1>12, <1>13
       DEF ThreadNext, Inside

-----------------------------------------------------------------------------
(* Theorems *)

TInv == ThreadsOK /\ DataOK /\ ForksCounted /\ Tracked

(* TInv holds at the start and is inductive, so it holds for ever.         *)
THEOREM ThreadInvariant == ThreadSpec => []TInv
<1>1. ThreadInit => TInv
  <2> SUFFICES ASSUME ThreadInit PROVE TInv
    OBVIOUS
  <2> USE ThreadConstantsOK DEF ThreadInit
  <2>1. ThreadsOK
    <3>1. over \in BOOLEAN
      BY Zenon
    <3>2. calls \in 0 .. MaxCalls /\ stuck \in Nat /\ n \in [Thread -> 0 .. MaxRecords]
      OBVIOUS
    <3>3. pc \in [Thread -> PC] /\ call \in [Thread -> Calls]
      BY DEF PC, Calls
    <3>4. \A t \in Thread : PurposeOK(t) /\ LocksOK(t)
      BY DEF PurposeOK, LocksOK
    <3> QED BY <3>1, <3>2, <3>3, <3>4 DEF ThreadsOK
  <2>2. DataOK
    BY EmptySeq DEF DataOK
  <2>3. ForksCounted
    <3>1. Forking = {}
      BY DEF Forking
    <3> QED BY <3>1, FS_EmptySet DEF ForksCounted
  <2>4. Recorded = {}
    BY DEF Recorded, PA
  <2>5. Tracked
    BY <2>4 DEF Tracked, Gaps, Progress, NotLostNorDuplicated, InGap, Sending
  <2> QED BY <2>1, <2>2, <2>3, <2>5 DEF TInv
<1>2. TInv /\ [ThreadNext]_threadVars => TInv'
  BY ThreadsKept, DataKept, ForksKept, TrackedKept DEF TInv
<1> QED BY <1>1, <1>2, PTL DEF ThreadSpec

(* The state of the threads is well formed, and the two mutexes exclude,   *)
(* for any number of threads.                                              *)
THEOREM ThreadTypes == ThreadSpec => []ThreadTypeOK
<1>1. TInv => ThreadTypeOK
  <2> SUFFICES ASSUME TInv PROVE ThreadTypeOK
    OBVIOUS
  <2>1. ThreadsOK /\ DataOK /\ ForksCounted
    BY DEF TInv
  <2>2. stuck \in 0 .. MaxCalls
    <3>1. IsFiniteSet(Forking)
      BY ThreadConstantsOK, FS_Subset DEF Forking
    <3>2. Cardinality(Forking) \in Nat
      BY <3>1, FS_CardinalityType
    <3> QED BY <2>1, <3>2, ThreadConstantsOK DEF ForksCounted, ThreadsOK
  <2> QED BY <2>1, <2>2 DEF ThreadTypeOK, ThreadsOK, LocksOK, DataOK
<1> QED BY <1>1, ThreadInvariant, PTL

(* "not lost (exec) or duplicated (fork)": for any number of threads, that *)
(* holds of every path action that was not touched in a gap.               *)
THEOREM StateIsKept == ThreadSpec => []NotLostNorDuplicated
<1>1. TInv => NotLostNorDuplicated
  BY DEF TInv, Tracked
<1> QED BY <1>1, ThreadInvariant, PTL
=============================================================================
