--------------------------- MODULE SessionProofs ---------------------------
(***************************************************************************)
(* Proofs about module Session, for any audits, any number of PTXs and     *)
(* transfers, any faults and any timeout.                                  *)
(***************************************************************************)
EXTENDS Session, SequenceTheorems, FiniteSetTheorems, TLAPS

NoPtx == opt.mode = "noPtx"
Busy == pc \in {"loop", "upload", "pump", "drain"}

(* The monitor and the server count the same PTXs: while it has one to     *)
(* upload for, it is the last one of the database, not decided to be       *)
(* successful, and it is bound to the session until that expires.          *)
Bookkeeping ==
    /\ pc = "init" => nstarted = 0 /\ sess = "none"
    /\ NoPtx => ptx = <<>> /\ sess = "none"
    /\ ~NoPtx /\ pc # "dead" => Len(ptx) = nstarted
    /\ pc = "start" \/ (pc = "drain" /\ again) => nstarted < MaxPtx
    /\ pc \in {"upload", "pump"} => nstarted > 0 /\ ~NoPtx
    /\ Busy /\ nstarted > 0 /\ ~NoPtx => ptx[nstarted] # "ok" /\ (cur = nstarted \/ expired)
    /\ expired => sess = "gone"

InTodo(r) == \E i \in DOMAIN todo : todo[i] = r
Active(h) == h.st \in {"queued", "sent"}
Carried(r) == \E k \in DOMAIN hs : Active(hs[k]) /\ hs[k].req = r

(* What is still to be sent, and what is on its way, belongs to the PTX    *)
(* the monitor is in, has not failed, and is there only once.              *)
Waiting(r) ==
    /\ of[r] = nstarted /\ nstarted > 0
    /\ r \notin failed /\ srv[r] = "no"
OnItsWay(h) ==
    /\ Busy
    /\ of[h.req] = nstarted /\ nstarted > 0
    /\ h.req \notin failed /\ ~InTodo(h.req)
    /\ h.st = "queued" <=> srv[h.req] = "no"
Handed ==
    /\ pc \in {"upload", "pump"} <=> todo # <<>>
    /\ pc = "pump" => hs # <<>> /\ hs[Len(hs)].st = "new"
    /\ \A i, j \in DOMAIN todo : todo[i] = todo[j] => i = j
    /\ \A i \in DOMAIN todo : Waiting(todo[i])
    /\ \A k \in DOMAIN hs : Active(hs[k]) => OnItsWay(hs[k])
    /\ \A i, j \in DOMAIN hs :
          Active(hs[i]) /\ Active(hs[j]) /\ hs[i].req = hs[j].req => i = j

(* Whatever was issued is settled, or the monitor still has it in hand.    *)
Settled(r) == r \in failed \/ srv[r] \in {"stored", "refused"}
Issued ==
    /\ \A r \in Req : of[r] = 0 => srv[r] = "no" /\ r \notin failed
    /\ \A a \in Uploadable : of[<<a, "file">>] # 0 => of[<<a, "audit">>] # 0
    /\ \A r \in Req : of[r] # 0 => of[r] <= Len(ptx)
    /\ \A r \in Req : ~Gone /\ of[r] # 0 => Settled(r) \/ InTodo(r) \/ Carried(r)

(* A request that did not fail meets the PTX it was issued for.            *)
Belongs ==
    \A r \in Req : r \notin failed =>
        /\ srv[r] = "arrived" => cur = of[r] \/ expired
        /\ srv[r] \in {"looked", "stored"} => into[r] = of[r]
        /\ srv[r] = "looked" => ptx[of[r]] # "ok"

(* The server has seen the session since last_heartbeat, and since the     *)
(* last pass of the loop unless no heartbeat was due in it.                *)
Timers ==
    pc \in {"loop", "upload", "pump"} /\ ~NoPtx /\ ~missed =>
        /\ sess = "open" /\ idle <= beat
        /\ idle <= lag \/ beat < heartbeat_interval + lag

SInv ==
    /\ SessionTypeOK
    /\ Bookkeeping /\ Handed /\ Issued /\ Belongs
    /\ CompletePtx /\ NoneRefused
    /\ Timers

-----------------------------------------------------------------------------
(* Lemmas *)

(* A request is an audit or a file, and a record of options has its mode.  *)
LEMMA RequestFacts ==
    ASSUME NEW a \in Audit
    PROVE  /\ <<a, "audit">> \in Req
           /\ a \in Uploadable => <<a, "file">> \in Req
           /\ <<a, "audit">> # <<a, "file">>
  BY DEF Req

(* Changing one element of a sequence.                                     *)
LEMMA OneElement ==
    ASSUME NEW S, NEW s \in Seq(S), NEW k \in DOMAIN s, NEW e \in S,
           NEW t, t = [s EXCEPT ![k] = e]
    PROVE  /\ t \in Seq(S) /\ Len(t) = Len(s) /\ DOMAIN t = DOMAIN s
           /\ t[k] = e /\ \A j \in DOMAIN s : j # k => t[j] = s[j]
  BY ExceptSeq

(* The first of what is to be issued, and the rest of it.                  *)
LEMMA TodoFacts ==
    ASSUME NEW s \in Seq(Req), s # <<>>
    PROVE  /\ Head(s) \in Req /\ Tail(s) \in Seq(Req)
           /\ DOMAIN s = 1 .. Len(s) /\ 1 \in DOMAIN s /\ Head(s) = s[1]
           /\ DOMAIN Tail(s) = 1 .. Len(s) - 1 /\ Len(s) \in Nat \ {0}
           /\ \A i \in DOMAIN Tail(s) : i + 1 \in DOMAIN s /\ Tail(s)[i] = s[i + 1]
  <1>1. Len(s) \in Nat \ {0} /\ DOMAIN s = 1 .. Len(s)
    BY EmptySeq, LenProperties
  <1>2. Tail(s) \in Seq(Req) /\ Len(Tail(s)) = Len(s) - 1
    BY HeadTailProperties
  <1>3. DOMAIN Tail(s) = 1 .. Len(s) - 1
    BY <1>1, <1>2, LenProperties
  <1>4. \A i \in 1 .. Len(s) - 1 : Tail(s)[i] = s[i + 1]
    BY HeadTailProperties
  <1>5. Head(s) = s[1] /\ s[1] \in Req
    BY <1>1, ElementOfSeq
  <1> QED BY <1>1, <1>2, <1>3, <1>4, <1>5

(* A new PTX, or a new handle, at the end.                                 *)
LEMMA AtTheEnd ==
    ASSUME NEW S, NEW s \in Seq(S), NEW e \in S
    PROVE  /\ Append(s, e) \in Seq(S) /\ Len(Append(s, e)) = Len(s) + 1
           /\ DOMAIN s = 1 .. Len(s) /\ DOMAIN Append(s, e) = 1 .. Len(s) + 1
           /\ Len(s) \in Nat
           /\ \A i \in DOMAIN s : Append(s, e)[i] = s[i]
           /\ Append(s, e)[Len(s) + 1] = e
  <1>1. Len(s) \in Nat /\ DOMAIN s = 1 .. Len(s)
    BY LenProperties
  <1>2. Append(s, e) \in Seq(S) /\ Len(Append(s, e)) = Len(s) + 1
    BY AppendProperties
  <1>3. DOMAIN Append(s, e) = 1 .. Len(s) + 1
    BY <1>1, <1>2, LenProperties
  <1>4. /\ \A i \in 1 .. Len(s) : Append(s, e)[i] = s[i]
        /\ Append(s, e)[Len(s) + 1] = e
    BY AppendProperties
  <1> QED BY <1>1, <1>2, <1>3, <1>4

(* When the drain is over, no handle is active.                            *)
LEMMA DrainedFacts ==
    ASSUME hs \in Seq(Handle), Drained
    PROVE  \A k \in DOMAIN hs : ~Active(hs[k])
  <1> DEFINE A == {k \in DOMAIN hs : hs[k].st \in {"queued", "sent"}}
  <1>1. IsFiniteSet(DOMAIN hs)
    <2>1. DOMAIN hs = 1 .. Len(hs) /\ Len(hs) \in Nat
      BY LenProperties
    <2> QED BY <2>1, FS_Interval
  <1>2. IsFiniteSet(A)
    BY <1>1, FS_Subset
  <1>3. Cardinality(A) \in Nat /\ Cardinality(A) < 1
    BY <1>2, FS_CardinalityType DEF Drained, Running
  <1>4. Cardinality(A) = 0
    BY <1>3
  <1>5. A = {}
    BY <1>2, <1>4, FS_EmptySet
  <1> QED BY <1>5 DEF Active

-----------------------------------------------------------------------------
(* What the steps amount to *)

(* The server at most sees the session again.                              *)
Quiet ==
    /\ idle' \in 0 .. Timeout
    /\ UNCHANGED <<sess, cur, ptx, expired>>

(* The monitor ends before its time: it is killed, or finds an error.      *)
Stops ==
    /\ ~Gone /\ Die
    /\ Quiet
    /\ nfaults' \in 0 .. MaxFaults
    /\ UNCHANGED <<opt, again, status, nstarted, of, srv, into, failed, beat, lag, missed>>

(* The next request is taken up: handle k carries it, or it is given up.   *)
TookUp(k) ==
    /\ pc \in {"upload", "pump"} /\ Rest
    /\ hs' \in Seq(Handle) /\ DOMAIN hs' = DOMAIN hs \cup {k}
    /\ k \in DOMAIN hs => ~Active(hs[k])
    /\ \A j \in DOMAIN hs : j # k => hs'[j] = hs[j]
    /\ \/ hs'[k].st = "queued" /\ hs'[k].req = Head(todo) /\ failed' = failed
       \/ hs'[k].st = "leaked" /\ failed' = failed \cup {Head(todo)}
    /\ nfaults' \in 0 .. MaxFaults
    /\ UNCHANGED <<opt, again, status, nstarted, of, serverVars, srv, into, beat, lag, missed>>

(* The next request has to wait for a handle.                              *)
Waits ==
    /\ pc = "upload" /\ pc' = "pump"
    /\ hs' \in Seq(Handle) /\ hs' # <<>> /\ hs'[Len(hs')].st = "new"
    /\ DOMAIN hs' = DOMAIN hs \cup {Len(hs')} /\ Len(hs') \notin DOMAIN hs
    /\ \A j \in DOMAIN hs : hs'[j] = hs[j]
    /\ UNCHANGED <<opt, again, status, nstarted, todo, of, serverVars, srv, into, failed,
                   beat, lag, missed, nfaults>>

(* A transfer goes on: it reaches the server, fails, or is answered.       *)
Moves(k) ==
    LET r == hs[k].req
    IN  /\ Pumping
        /\ k \in DOMAIN hs /\ Active(hs[k]) /\ r \in Req
        /\ hs' \in Seq(Handle) /\ DOMAIN hs' = DOMAIN hs /\ Len(hs') = Len(hs)
        /\ hs'[k].req = r
        /\ \A j \in DOMAIN hs : j # k => hs'[j] = hs[j]
        /\ \/ /\ hs[k].st = "queued" /\ hs'[k].st = "sent"
              /\ srv' = [srv EXCEPT ![r] = "arrived"] /\ failed' = failed
           \/ /\ hs'[k].st = "done" /\ failed' = failed \cup {r}
              /\ \/ UNCHANGED srv
                 \/ srv[r] = "arrived" /\ srv' = [srv EXCEPT ![r] = "no"]
           \/ /\ hs'[k].st = "done" /\ srv[r] \in {"stored", "refused"}
              /\ UNCHANGED <<srv, failed>>
        /\ nfaults' \in 0 .. MaxFaults
        /\ UNCHANGED <<opt, pc, again, status, nstarted, todo, of, serverVars, into,
                       beat, lag, missed>>

(* The PTX is over: END has reached the server or not.                     *)
EndsPtx ==
    /\ pc = "drain" /\ Drained
    /\ \/ pc' = "start" /\ again /\ UNCHANGED <<todo, hs>>
       \/ pc' \in {"over", "dead"} /\ todo' = <<>> /\ hs' = <<>>
    /\ Quiet \/ (HasPtx /\ EndServlet(status))
    /\ nfaults' \in 0 .. MaxFaults
    /\ UNCHANGED <<opt, again, status, nstarted, of, srv, into, failed, beat, lag, missed>>

(* A session is asked for.                                                 *)
Begins ==
    /\ pc = "init"
    /\ \/ NoPtx /\ Goes("loop") /\ Quiet
       \/ ~NoPtx /\ SessionServlet /\ (Goes("loop") \/ Die)
    /\ nfaults' \in 0 .. MaxFaults
    /\ UNCHANGED <<opt, again, status, nstarted, of, srv, into, failed, beat, lag, missed>>

(* A PTX is asked for.                                                     *)
Starts ==
    /\ pc = "start"
    /\ \/ NoPtx /\ Goes("loop") /\ nstarted' = nstarted + 1 /\ Quiet
       \/ /\ ~NoPtx /\ sess = "open" /\ StartServlet
          /\ (Goes("loop") /\ nstarted' = nstarted + 1) \/ (Die /\ nstarted' = nstarted)
    /\ nfaults' \in 0 .. MaxFaults
    /\ UNCHANGED <<opt, again, status, of, srv, into, failed, beat, lag, missed>>

(* The next request is sent at once.                                       *)
SendsNow ==
    LET r == Head(todo)
    IN  /\ pc = "upload"
        /\ Quiet /\ (idle' = idle \/ idle' = 0)
        /\ \/ Rest /\ UNCHANGED hs
           \/ Die
        /\ \/ srv' = [srv EXCEPT ![r] = "stored"] /\ HasPtx /\ into' = [into EXCEPT ![r] = cur]
           \/ srv' = [srv EXCEPT ![r] = "refused"] /\ ~HasPtx /\ UNCHANGED into
           \/ UNCHANGED <<srv, into>> /\ r \in failed'
        /\ failed' \in {failed, failed \cup {r}}
        /\ nfaults' \in 0 .. MaxFaults
        /\ UNCHANGED <<opt, again, status, nstarted, of, beat, lag, missed>>

(* Requests on the default handle.                                         *)
LEMMA SyncKinds ==
    ASSUME SessionTypeOK
    PROVE  /\ mon_begin_session => Begins \/ Stops
           /\ mon_ptx_start => Starts \/ Stops
           /\ mon_ptx_end => EndsPtx
           /\ SyncUpload => SendsNow
<1> USE SessionConstantsOK DEF SessionTypeOK
<1>1. nfaults \in 0 .. MaxFaults /\ MaxFaults \in Nat
  OBVIOUS
<1>2. ASSUME NEW n, Faulty(n), n \in 0 .. 3 PROVE nfaults' \in 0 .. MaxFaults
  BY <1>1, <1>2 DEF Faulty
<1>3. \A o \in Outcome : Cost(o) \in 0 .. 1
  BY DEF Cost
<1>4. idle \in 0 .. Timeout /\ Timeout \in Nat \ {0}
  OBVIOUS
<1>5. UNCHANGED serverVars => Quiet /\ idle' = idle
  BY <1>4 DEF serverVars, Quiet
<1>6. Touch => Quiet /\ (idle' = idle \/ idle' = 0)
  BY <1>4 DEF Touch, Quiet
<1> HIDE DEF SessionTypeOK
<1>7. ASSUME mon_begin_session PROVE Begins \/ Stops
  <2>1. CASE opt.mode = "noPtx"
    BY <1>1, <1>5, <1>7, <2>1 DEF mon_begin_session, Begins, NoPtx
  <2>2. ASSUME opt.mode # "noPtx", NEW outcome \in Outcome,
               Faulty(Cost(outcome)),
               IF Reaches(outcome) THEN SessionServlet ELSE UNCHANGED serverVars,
               IF outcome = "ok" THEN Goes("loop") ELSE Die
        PROVE  Begins \/ Stops
    <3>1. nfaults' \in 0 .. MaxFaults
      BY <1>2, <1>3, <2>2
    <3>2. UNCHANGED <<opt, again, status, nstarted, of, srv, into, failed, beat, lag, missed>>
          /\ pc = "init"
      BY <1>7 DEF mon_begin_session
    <3>3. CASE Reaches(outcome)
      BY <2>2, <3>1, <3>2, <3>3 DEF Begins, NoPtx
    <3>4. CASE ~Reaches(outcome)
      BY <1>5, <2>2, <3>1, <3>2, <3>4 DEF Stops, Gone, Reaches
    <3> QED BY <3>3, <3>4
  <2> QED BY <1>7, <2>1, <2>2 DEF mon_begin_session
<1>8. ASSUME mon_ptx_start PROVE Starts \/ Stops
  <2>1. CASE opt.mode = "noPtx"
    BY <1>1, <1>5, <1>8, <2>1 DEF mon_ptx_start, Starts, NoPtx
  <2>2. ASSUME opt.mode # "noPtx", NEW outcome \in Outcome,
               Faulty(Cost(outcome)),
               IF Reaches(outcome) /\ sess = "open" THEN StartServlet ELSE UNCHANGED serverVars,
               IF (Reaches(outcome) /\ sess = "open") /\ outcome = "ok"
                  THEN Goes("loop") /\ nstarted' = nstarted + 1
                  ELSE Die /\ UNCHANGED nstarted
        PROVE  Starts \/ Stops
    <3>1. nfaults' \in 0 .. MaxFaults
      BY <1>2, <1>3, <2>2
    <3>2. UNCHANGED <<opt, again, status, of, srv, into, failed, beat, lag, missed>>
          /\ pc = "start"
      BY <1>8 DEF mon_ptx_start
    <3>3. CASE Reaches(outcome) /\ sess = "open"
      BY <2>2, <3>1, <3>2, <3>3 DEF Starts, NoPtx
    <3>4. CASE ~(Reaches(outcome) /\ sess = "open")
      BY <1>5, <2>2, <3>1, <3>2, <3>4 DEF Stops, Gone, Reaches
    <3> QED BY <3>3, <3>4
  <2> QED BY <1>8, <2>1, <2>2 DEF mon_ptx_start
<1>9. ASSUME mon_ptx_end PROVE EndsPtx
  <2>1. /\ pc = "drain" /\ Drained
        /\ UNCHANGED <<opt, again, status, nstarted, of, srv, into, failed, beat, lag, missed>>
    BY <1>9 DEF mon_ptx_end
  <2>2. /\ Onward \/ Die
        /\ Quiet \/ (HasPtx /\ EndServlet(status))
        /\ nfaults' \in 0 .. MaxFaults
    <3>1. CASE opt.mode = "noPtx" /\ Onward /\ UNCHANGED <<serverVars, nfaults>>
      BY <1>1, <1>5, <3>1
    <3>2. CASE Die /\ Touch /\ UNCHANGED nfaults
      BY <1>1, <1>6, <3>2
    <3>3. ASSUME NEW log \in Outcome, NEW end \in Outcome, NEW map \in Outcome,
                 Faulty(Cost(log) + Cost(end) + Cost(map)), SendEnd(end),
                 IF NoRoadmap(map) THEN Die ELSE Onward
          PROVE  /\ Onward \/ Die
                 /\ Quiet \/ (HasPtx /\ EndServlet(status))
                 /\ nfaults' \in 0 .. MaxFaults
      <4>1. Cost(log) + Cost(end) + Cost(map) \in 0 .. 3
        BY <1>3
      <4>2. nfaults' \in 0 .. MaxFaults
        BY <1>2, <3>3, <4>1
      <4>3. Quiet \/ (HasPtx /\ EndServlet(status))
        BY <1>5, <1>6, <3>3 DEF SendEnd
      <4> QED BY <3>3, <4>2, <4>3
    <3> QED BY <1>9, <3>1, <3>2, <3>3 DEF mon_ptx_end
  <2>3. \/ pc' = "start" /\ again /\ UNCHANGED <<todo, hs>>
        \/ pc' \in {"over", "dead"} /\ todo' = <<>> /\ hs' = <<>>
    BY <2>2 DEF Onward, Die, Ends, Goes
  <2> QED BY <2>1, <2>2, <2>3 DEF EndsPtx
<1>10. ASSUME SyncUpload PROVE SendsNow
  <2> DEFINE r == Head(todo)
  <2>1. PICK outcome \in Outcome :
              /\ Faulty(Cost(outcome))
              /\ srv' = [srv EXCEPT ![r] = CASE ~Reaches(outcome) -> @
                                             [] Reaches(outcome) /\ HasPtx -> "stored"
                                             [] OTHER -> "refused"]
              /\ into' = [into EXCEPT ![r] = IF Reaches(outcome) /\ HasPtx THEN cur ELSE @]
              /\ IF Reaches(outcome) THEN Touch ELSE UNCHANGED serverVars
              /\ failed' = IF outcome = "ok" THEN failed ELSE failed \cup {r}
              /\ IF srv'[r] = "refused" /\ IsFile(r) /\ outcome = "ok"
                    THEN Die
                    ELSE Rest /\ UNCHANGED hs
    BY <1>10 DEF SyncUpload
  <2>2. nfaults' \in 0 .. MaxFaults
    BY <1>2, <1>3, <2>1
  <2>3. Quiet /\ (idle' = idle \/ idle' = 0)
    BY <1>5, <1>6, <2>1
  <2>4. \/ srv' = [srv EXCEPT ![r] = "stored"] /\ HasPtx /\ into' = [into EXCEPT ![r] = cur]
        \/ srv' = [srv EXCEPT ![r] = "refused"] /\ ~HasPtx /\ UNCHANGED into
        \/ UNCHANGED <<srv, into>> /\ r \in failed'
    <3>1. srv = [srv EXCEPT ![r] = srv[r]] /\ into = [into EXCEPT ![r] = into[r]]
      BY DEF SessionTypeOK
    <3>2. CASE ~Reaches(outcome)
      BY <2>1, <3>1, <3>2 DEF Reaches
    <3>3. CASE Reaches(outcome) /\ HasPtx
      BY <2>1, <3>3
    <3>4. CASE Reaches(outcome) /\ ~HasPtx
      BY <2>1, <3>1, <3>4
    <3> QED BY <3>2, <3>3, <3>4
  <2>5. pc = "upload" /\ UNCHANGED <<opt, again, status, nstarted, of, beat, lag, missed>>
    BY <1>10 DEF SyncUpload
  <2> QED BY <2>1, <2>2, <2>3, <2>4, <2>5 DEF SendsNow
<1> QED BY <1>7, <1>8, <1>9, <1>10

(* The handle a request is placed in.                                      *)
LEMMA PlaceFacts ==
    ASSUME SessionTypeOK, Handed, pc \in {"upload", "pump"},
           NEW handles \in Seq(Handle), NEW k \in DOMAIN handles, Place(handles, k),
           DOMAIN handles = DOMAIN hs \cup {k},
           k \in DOMAIN hs => ~Active(hs[k]),
           \A j \in DOMAIN hs : j # k => handles[j] = hs[j],
           UNCHANGED <<opt, again, status, nstarted, of, serverVars, srv, into, beat, lag, missed>>
    PROVE  TookUp(k)
<1> DEFINE r == Head(todo)
<1>1. r \in Req
  BY TodoFacts DEF SessionTypeOK, Handed
<1>2. handles[k] \in Handle
  BY ElementOfSeq, LenProperties
<1>3. nfaults \in 0 .. MaxFaults /\ MaxFaults \in Nat
  BY SessionConstantsOK DEF SessionTypeOK
<1>4. Rest
  BY DEF Place
<1>5. CASE hs' = [handles EXCEPT ![k] = Filled(handles[k], r)] /\ UNCHANGED <<failed, nfaults>>
  <2> DEFINE h == Filled(handles[k], r)
  <2>1. h.st = "queued" /\ h.req = r
    BY DEF Filled
  <2>2. h.hdr \in BOOLEAN
    BY DEF Filled
  <2>3. h \in Handle
    BY <1>1, <2>2 DEF Filled, Handle
  <2> HIDE DEF h
  <2>4. /\ hs' \in Seq(Handle) /\ DOMAIN hs' = DOMAIN handles
        /\ hs'[k] = h /\ \A j \in DOMAIN handles : j # k => hs'[j] = handles[j]
    BY <1>5, <2>3, OneElement DEF h
  <2> QED BY <1>3, <1>4, <1>5, <2>1, <2>4 DEF TookUp
<1>6. CASE /\ Fault("file") /\ hs' = [handles EXCEPT ![k].st = "leaked"]
           /\ failed' = failed \cup {r}
  <2> DEFINE h == [handles[k] EXCEPT !.st = "leaked"]
  <2>1. h.st = "leaked" /\ h \in Handle
    BY <1>2 DEF Handle
  <2>2. hs' = [handles EXCEPT ![k] = h]
    BY <1>6
  <2> HIDE DEF h
  <2>3. /\ hs' \in Seq(Handle) /\ DOMAIN hs' = DOMAIN handles
        /\ hs'[k] = h /\ \A j \in DOMAIN handles : j # k => hs'[j] = handles[j]
    BY <2>1, <2>2, OneElement
  <2>4. nfaults' \in 0 .. MaxFaults
    BY <1>3, <1>6 DEF Fault, Faulty
  <2> QED BY <1>3, <1>4, <1>6, <2>1, <2>3, <2>4 DEF TookUp
<1> QED BY <1>5, <1>6 DEF Place

(* Requests on the multi handle.                                           *)
LEMMA AsyncKinds ==
    ASSUME SessionTypeOK, Handed
    PROVE  /\ \A k \in DOMAIN hs : ReuseHandle(k) => (k \in Nat /\ TookUp(k)) \/ Stops
           /\ NewHandle => Waits \/ \E k \in Nat : TookUp(k)
           /\ Pumped => \E k \in Nat : TookUp(k)
<1>1. /\ hs \in Seq(Handle) /\ Len(hs) \in Nat /\ DOMAIN hs = 1 .. Len(hs)
      /\ nfaults \in 0 .. MaxFaults /\ idle \in 0 .. Timeout
  BY LenProperties DEF SessionTypeOK
<1>2. ASSUME NEW k \in DOMAIN hs, ReuseHandle(k) PROVE TookUp(k) \/ Stops
  <2>1. /\ pc = "upload" /\ hs[k].st = "done"
        /\ UNCHANGED <<opt, again, status, nstarted, of, serverVars, srv, into, beat, lag, missed>>
    BY <1>2 DEF ReuseHandle
  <2>2. CASE Die /\ UNCHANGED <<failed, nfaults>>
    BY <1>1, <2>1, <2>2 DEF Stops, Quiet, Gone, serverVars
  <2>3. CASE Place(hs, k)
    BY <1>1, <2>1, <2>3, PlaceFacts DEF Active
  <2> QED BY <1>2, <2>2, <2>3 DEF ReuseHandle
<1>3. ASSUME NewHandle PROVE Waits \/ \E k \in Nat : TookUp(k)
  <2> DEFINE new == [st |-> "new", req |-> Head(todo), ok |-> FALSE, hdr |-> FALSE]
             H == Append(hs, new)
  <2>1. /\ pc = "upload"
        /\ IF Len(H) >= TransferMax
              THEN hs' = H /\ pc' = "pump" /\ UNCHANGED <<todo, failed, nfaults>>
              ELSE Place(H, Len(H))
        /\ UNCHANGED <<opt, again, status, nstarted, of, serverVars, srv, into, beat, lag, missed>>
    BY <1>3 DEF NewHandle
  <2>2. Head(todo) \in Req
    BY <2>1, TodoFacts DEF SessionTypeOK, Handed
  <2>3. new \in Handle /\ new.st = "new"
    BY <2>2 DEF Handle
  <2> HIDE DEF new
  <2>4. /\ H \in Seq(Handle) /\ Len(H) = Len(hs) + 1 /\ DOMAIN H = 1 .. Len(hs) + 1
        /\ H[Len(hs) + 1] = new /\ \A i \in DOMAIN hs : H[i] = hs[i]
    BY <1>1, <2>3, AtTheEnd
  <2> HIDE DEF H
  <2>5. DOMAIN H = DOMAIN hs \cup {Len(H)} /\ Len(H) \notin DOMAIN hs /\ Len(H) \in DOMAIN H
    BY <1>1, <2>4
  <2>6. CASE hs' = H /\ pc' = "pump" /\ UNCHANGED <<todo, failed, nfaults>>
    <3>1. hs' # <<>>
      BY <1>1, <2>4, <2>6, EmptySeq
    <3> QED BY <2>1, <2>3, <2>4, <2>5, <2>6, <3>1 DEF Waits
  <2>7. CASE Place(H, Len(H))
    BY <1>1, <2>1, <2>4, <2>5, <2>7, PlaceFacts
  <2> QED BY <2>1, <2>6, <2>7
<1>4. ASSUME Pumped PROVE \E k \in Nat : TookUp(k)
  <2>1. /\ pc = "pump" /\ Place(hs, Len(hs))
        /\ UNCHANGED <<opt, again, status, nstarted, of, serverVars, srv, into, beat, lag, missed>>
    BY <1>4 DEF Pumped
  <2>2. Len(hs) \in DOMAIN hs /\ hs[Len(hs)].st = "new"
    BY <1>1, <2>1, EmptySeq DEF Handed
  <2> QED BY <1>1, <2>1, <2>2, PlaceFacts DEF Active
<1> QED BY <1>1, <1>2, <1>3, <1>4

(* A transfer of the multi handle.                                         *)
LEMMA TransferKinds ==
    ASSUME SessionTypeOK, NEW k \in DOMAIN hs, Transfer(k)
    PROVE  Moves(k) \/ Stops
<1> DEFINE r == hs[k].req
<1>1. /\ hs \in Seq(Handle) /\ hs[k] \in Handle /\ r \in Req
      /\ nfaults \in 0 .. MaxFaults /\ MaxFaults \in Nat /\ idle \in 0 .. Timeout
  <2>1. /\ hs \in Seq(Handle) /\ nfaults \in 0 .. MaxFaults /\ MaxFaults \in Nat
        /\ idle \in 0 .. Timeout
    BY SessionConstantsOK DEF SessionTypeOK
  <2>2. hs[k] \in Handle
    BY <2>1, ElementOfSeq, LenProperties
  <2> QED BY <2>1, <2>2 DEF Handle
<1>2. ASSUME NEW h \in Handle, h.req = r, hs' = [hs EXCEPT ![k] = h]
      PROVE  /\ hs' \in Seq(Handle) /\ DOMAIN hs' = DOMAIN hs /\ Len(hs') = Len(hs)
             /\ hs'[k] = h /\ hs'[k].req = r
             /\ \A j \in DOMAIN hs : j # k => hs'[j] = hs[j]
  <2>1. /\ hs' \in Seq(Handle) /\ DOMAIN hs' = DOMAIN hs /\ Len(hs') = Len(hs)
        /\ hs'[k] = h /\ \A j \in DOMAIN hs : j # k => hs'[j] = hs[j]
    BY <1>1, <1>2, OneElement
  <2> QED BY <1>2, <2>1
<1>3. ASSUME Fault("refuse") \/ Fault("break") PROVE nfaults' \in 0 .. MaxFaults
  BY <1>1, <1>3 DEF Fault, Faulty
<1>4. \A st \in {"sent", "done"} : /\ [hs[k] EXCEPT !.st = st] \in Handle
                                   /\ [hs[k] EXCEPT !.st = st].st = st
                                   /\ [hs[k] EXCEPT !.st = st].req = r
  BY <1>1 DEF Handle
<1>5. CASE Perform(k)
  <2>1. /\ Pumping /\ hs[k].st = "queued"
        /\ UNCHANGED <<opt, pc, again, status, nstarted, todo, of, serverVars, into, beat, lag, missed>>
    BY <1>5 DEF Perform
  <2>2. CASE /\ hs' = [hs EXCEPT ![k].st = "sent"]
             /\ srv' = [srv EXCEPT ![hs[k].req] = "arrived"]
             /\ UNCHANGED <<failed, nfaults>>
    <3>1. hs' = [hs EXCEPT ![k] = [hs[k] EXCEPT !.st = "sent"]]
      BY <2>2
    <3>2. /\ hs' \in Seq(Handle) /\ DOMAIN hs' = DOMAIN hs /\ Len(hs') = Len(hs)
          /\ hs'[k].st = "sent" /\ hs'[k].req = r
          /\ \A j \in DOMAIN hs : j # k => hs'[j] = hs[j]
      BY <1>2, <1>4, <3>1
    <3> QED BY <1>1, <2>1, <2>2, <3>2 DEF Moves, Active
  <2>3. CASE /\ Fault("refuse") /\ hs' = [hs EXCEPT ![k].st = "done"]
             /\ failed' = failed \cup {hs[k].req} /\ UNCHANGED srv
    <3>1. hs' = [hs EXCEPT ![k] = [hs[k] EXCEPT !.st = "done"]]
      BY <2>3
    <3>2. /\ hs' \in Seq(Handle) /\ DOMAIN hs' = DOMAIN hs /\ Len(hs') = Len(hs)
          /\ hs'[k].st = "done" /\ hs'[k].req = r
          /\ \A j \in DOMAIN hs : j # k => hs'[j] = hs[j]
      BY <1>2, <1>4, <3>1
    <3> QED BY <1>1, <1>3, <2>1, <2>3, <3>2 DEF Moves, Active
  <2> QED BY <1>5, <2>2, <2>3 DEF Perform
<1>6. CASE Receive(k)
  <2>1. /\ Pumping /\ hs[k].st = "sent" /\ srv[r] \in {"stored", "refused"}
        /\ UNCHANGED <<opt, again, status, nstarted, of, serverVars, srv, into, failed,
                       beat, lag, missed, nfaults>>
    BY <1>6 DEF Receive
  <2>2. CASE Die
    BY <1>1, <2>1, <2>2 DEF Stops, Quiet, Gone, Pumping, serverVars
  <2>3. CASE hs' = [hs EXCEPT ![k].st = "done", ![k].ok = TRUE] /\ UNCHANGED <<pc, todo>>
    <3> DEFINE h == [hs[k] EXCEPT !.st = "done", !.ok = TRUE]
    <3>1. h \in Handle /\ h.st = "done" /\ h.req = r
      BY <1>1 DEF Handle
    <3>2. hs' = [hs EXCEPT ![k] = h]
      BY <2>3
    <3>3. /\ hs' \in Seq(Handle) /\ DOMAIN hs' = DOMAIN hs /\ Len(hs') = Len(hs)
          /\ hs'[k].st = "done" /\ hs'[k].req = r
          /\ \A j \in DOMAIN hs : j # k => hs'[j] = hs[j]
      BY <1>2, <3>1, <3>2
    <3> QED BY <1>1, <2>1, <2>3, <3>3 DEF Moves, Active
  <2> QED BY <1>6, <2>2, <2>3 DEF Receive
<1>7. CASE Break(k)
  <2>1. /\ Pumping /\ Fault("break") /\ hs[k].st = "sent"
        /\ hs' = [hs EXCEPT ![k] = [hs[k] EXCEPT !.st = "done"]]
        /\ failed' = failed \cup {r}
        /\ \/ UNCHANGED srv
           \/ srv[r] = "arrived" /\ srv' = [srv EXCEPT ![r] = "no"]
        /\ UNCHANGED <<opt, pc, again, status, nstarted, todo, of, serverVars, into, beat, lag, missed>>
    BY <1>7 DEF Break
  <2>2. /\ hs' \in Seq(Handle) /\ DOMAIN hs' = DOMAIN hs /\ Len(hs') = Len(hs)
        /\ hs'[k].st = "done" /\ hs'[k].req = r
        /\ \A j \in DOMAIN hs : j # k => hs'[j] = hs[j]
    BY <1>2, <1>4, <2>1
  <2> QED BY <1>1, <1>3, <2>1, <2>2 DEF Moves, Active
<1> QED BY <1>5, <1>6, <1>7 DEF Transfer

(* The steps of the monitor that change neither the server nor a request.  *)
Steers ==
    /\ pc = "loop"
    /\ \/ /\ nstarted < MaxPtx /\ again' = (nstarted > 0)
          /\ pc' = (IF nstarted > 0 THEN "drain" ELSE "start")
       \/ again' = FALSE /\ pc' = "drain"
       \/ UNCHANGED <<pc, again>>
    /\ status' \in 0 .. 1
    /\ UNCHANGED <<opt, nstarted, todo, hs, of, serverVars, srv, into, failed,
                   beat, lag, missed, nfaults>>

(* A pass of the loop.                                                     *)
Passes ==
    /\ pc = "loop" /\ lag' = 0
    /\ \/ beat < heartbeat_interval /\ beat' = beat /\ idle' = idle /\ missed' = missed
       \/ beat' = 0 /\ Touch /\ missed' = missed
       \/ beat' = 0 /\ idle' = idle /\ missed' = TRUE
    /\ Quiet
    /\ nfaults' \in 0 .. MaxFaults
    /\ UNCHANGED <<opt, clientVars, srv, into, failed>>

Kinds ==
    \/ Begins \/ Starts \/ EndsPtx \/ Steers
    \/ \E a \in Audit : _mon_process_ca(a)
    \/ SendsNow \/ Waits \/ \E k \in Nat : TookUp(k)
    \/ \E k \in DOMAIN hs : Moves(k)
    \/ \E r \in Req : Lookup(r) \/ Commit(r)
    \/ Passes \/ Tick \/ Expire \/ Stops
    \/ UNCHANGED sessionVars

(* Every step is of one of these kinds.                                    *)
LEMMA StepKinds ==
    ASSUME SessionTypeOK, Handed, [SessionNext]_sessionVars
    PROVE  Kinds
<1>1. /\ nfaults \in 0 .. MaxFaults /\ MaxFaults \in Nat /\ idle \in 0 .. Timeout
      /\ Timeout \in Nat \ {0} /\ status \in 0 .. 1
  BY SessionConstantsOK DEF SessionTypeOK
<1>2. CASE mon_begin_session \/ mon_ptx_start \/ mon_ptx_end
  BY <1>2, SyncKinds DEF Kinds
<1>3. CASE UploadStep
  BY <1>3, SyncKinds, AsyncKinds DEF UploadStep, Kinds
<1>4. ASSUME NEW k \in DOMAIN hs, Transfer(k) PROVE Kinds
  BY <1>4, TransferKinds DEF Kinds
<1>5. CASE SOATop
  <2>1. Steers
    BY <1>1, <1>5 DEF SOATop, Steers
  <2> QED BY <2>1 DEF Kinds
<1>6. ASSUME NEW rc \in 0 .. 1, SetExitStatus(rc) \/ ChildDone(rc) PROVE Kinds
  <2>1. Steers
    BY <1>1, <1>6 DEF SetExitStatus, ChildDone, FirstFailure, Steers
  <2> QED BY <2>1 DEF Kinds
<1>7. CASE Pass
  <2>1. Passes
    BY <1>1, <1>7 DEF Pass, Passes, Touch, Quiet, serverVars, Fault, Faulty
  <2> QED BY <2>1 DEF Kinds
<1>8. CASE Crash
  <2>1. Stops
    BY <1>1, <1>8 DEF Crash, Stops, Quiet, serverVars, Fault, Faulty
  <2> QED BY <2>1 DEF Kinds
<1>9. CASE ServerStep \/ Tick \/ Expire \/ Finished \/ UNCHANGED sessionVars
  BY <1>9 DEF ServerStep, Finished, Kinds
<1>10. ASSUME NEW a \in Audit, _mon_process_ca(a) PROVE Kinds
  BY <1>10 DEF Kinds
<1> QED BY <1>2, <1>3, <1>4, <1>5, <1>6, <1>7, <1>8, <1>9, <1>10 DEF SessionNext

-----------------------------------------------------------------------------
(* The types *)

(* setResult() decides a running PTX, and does nothing else.               *)
LEMMA ResultFacts ==
    ASSUME SessionTypeOK, NEW result \in {"ok", "failed"}, NEW new, new = setResult(cur, result)
    PROVE  /\ new \in Seq({"running", "ok", "failed"})
           /\ Len(new) = Len(ptx) /\ DOMAIN new = DOMAIN ptx
           /\ \A i \in DOMAIN ptx : i # cur => new[i] = ptx[i]
           /\ cur # 0 => cur \in DOMAIN ptx /\ new[cur] = result
<1>1. /\ ptx \in Seq({"running", "ok", "failed"}) /\ Len(ptx) \in Nat /\ DOMAIN ptx = 1 .. Len(ptx)
      /\ cur \in {0, Len(ptx)} /\ (cur # 0 => ptx[cur] = "running")
  BY LenProperties DEF SessionTypeOK
<1>2. CASE cur = 0
  BY <1>1, <1>2 DEF setResult
<1>3. CASE cur # 0
  <2>1. cur \in DOMAIN ptx
    <3>1. cur = Len(ptx) /\ Len(ptx) # 0
      BY <1>1, <1>3
    <3>2. Len(ptx) \in 1 .. Len(ptx)
      BY <1>1, <3>1
    <3> QED BY <1>1, <3>1, <3>2
  <2>2. new = [ptx EXCEPT ![cur] = result]
    BY <1>1, <1>3 DEF setResult
  <2> QED BY <1>1, <2>1, <2>2, OneElement
<1> QED BY <1>2, <1>3

(* The server after a step that is not quiet.                              *)
LEMMA ServerTypes ==
    ASSUME SessionTypeOK,
           \/ SessionServlet /\ cur = 0
           \/ StartServlet /\ sess = "open" /\ Len(ptx) < MaxPtx
           \/ EndServlet(status)
           \/ Expire
    PROVE  /\ sess' \in {"none", "open", "gone"}
           /\ ptx' \in Seq({"running", "ok", "failed"}) /\ Len(ptx') <= MaxPtx
           /\ cur' \in {0, Len(ptx')}
           /\ cur' # 0 => sess' = "open" /\ ptx'[cur'] = "running"
           /\ Len(ptx) <= Len(ptx')
           /\ idle' \in 0 .. Timeout /\ expired' \in BOOLEAN
<1>1. /\ ptx \in Seq({"running", "ok", "failed"}) /\ Len(ptx) \in Nat /\ Len(ptx) <= MaxPtx
      /\ sess \in {"none", "open", "gone"} /\ idle \in 0 .. Timeout /\ expired \in BOOLEAN
      /\ MaxPtx \in Nat /\ Timeout \in Nat
  BY LenProperties, SessionConstantsOK DEF SessionTypeOK
<1>2. CASE SessionServlet /\ cur = 0
  BY <1>1, <1>2 DEF SessionServlet
<1>3. CASE StartServlet /\ sess = "open" /\ Len(ptx) < MaxPtx
  <2>1. PICK new : new = valueUnbound
    OBVIOUS
  <2>2. new \in Seq({"running", "ok", "failed"}) /\ Len(new) = Len(ptx)
    BY <2>1, ResultFacts DEF valueUnbound
  <2>3. ptx' = Append(new, "running") /\ cur' = Len(ptx) + 1
    BY <1>3, <2>1 DEF StartServlet
  <2>4. /\ ptx' \in Seq({"running", "ok", "failed"}) /\ Len(ptx') = Len(ptx) + 1
        /\ ptx'[Len(ptx) + 1] = "running"
    BY <2>2, <2>3, AtTheEnd
  <2> QED BY <1>1, <1>3, <2>3, <2>4 DEF StartServlet
<1>4. CASE EndServlet(status)
  <2>1. PICK res \in {"ok", "failed"} : ptx' = setResult(cur, res)
    BY <1>4 DEF EndServlet
  <2>2. ptx' \in Seq({"running", "ok", "failed"}) /\ Len(ptx') = Len(ptx)
    BY <2>1, ResultFacts
  <2> QED BY <1>1, <1>4, <2>2 DEF EndServlet
<1>5. CASE Expire
  <2>1. ptx' = setResult(cur, "failed")
    BY <1>5 DEF Expire, valueUnbound
  <2>2. ptx' \in Seq({"running", "ok", "failed"}) /\ Len(ptx') = Len(ptx)
    BY <2>1, ResultFacts
  <2> QED BY <1>1, <1>5, <2>2 DEF Expire
<1> QED BY <1>2, <1>3, <1>4, <1>5

(* The parts of SessionTypeOK.                                             *)
ServerOK ==
    /\ sess \in {"none", "open", "gone"}
    /\ ptx \in Seq({"running", "ok", "failed"}) /\ Len(ptx) <= MaxPtx
    /\ cur \in {0, Len(ptx)}
    /\ cur # 0 => sess = "open" /\ ptx[cur] = "running"
    /\ expired \in BOOLEAN
ClientOK ==
    /\ opt \in Options /\ pc \in PC /\ again \in BOOLEAN /\ status \in 0 .. 1
    /\ nstarted \in 0 .. MaxPtx /\ todo \in Seq(Req) /\ hs \in Seq(Handle)
RequestsOK ==
    /\ srv \in [Req -> {"no", "arrived", "looked", "stored", "refused"}]
    /\ into \in [Req -> 0 .. Len(ptx)] /\ of \in [Req -> 0 .. MaxPtx]
    /\ failed \subseteq Req
ClocksOK ==
    /\ idle \in 0 .. Timeout /\ beat \in 0 .. Timeout /\ lag \in 0 .. PassMax
    /\ missed \in BOOLEAN /\ nfaults \in 0 .. MaxFaults

(* Every step keeps the types.                                             *)
LEMMA TypesKept ==
    ASSUME SessionTypeOK, Bookkeeping, Handed, Kinds
    PROVE  SessionTypeOK'
<1>1. ServerOK /\ ClientOK /\ RequestsOK /\ ClocksOK
  BY DEF SessionTypeOK, ServerOK, ClientOK, RequestsOK, ClocksOK
<1>2. SUFFICES (ServerOK /\ ClientOK /\ RequestsOK /\ ClocksOK)'
  BY DEF SessionTypeOK, ServerOK, ClientOK, RequestsOK, ClocksOK
<1>3. /\ Len(ptx) \in Nat /\ MaxPtx \in Nat \ {0} /\ Timeout \in Nat \ {0} /\ PassMax \in Nat
      /\ MaxFaults \in Nat /\ cur \in 0 .. Len(ptx)
  BY <1>1, LenProperties, SessionConstantsOK DEF ServerOK
<1>4. <<>> \in Seq(Req) /\ <<>> \in Seq(Handle)
  BY EmptySeq
<1>5. Quiet => ServerOK' /\ idle' \in 0 .. Timeout /\ ptx' = ptx
  BY <1>1 DEF Quiet, ServerOK
<1>6. UNCHANGED serverVars => Quiet
  BY <1>1 DEF Quiet, serverVars, ClocksOK
<1> USE DEF ClientOK, RequestsOK, ClocksOK, PC
<1>7. CASE Begins
  <2>1. ServerOK' /\ idle' \in 0 .. Timeout /\ Len(ptx') = Len(ptx)
    <3>1. CASE Quiet
      BY <1>5, <3>1
    <3>2. CASE SessionServlet
      <4>1. cur = 0
        BY <1>1, <1>7 DEF Begins, Bookkeeping, ServerOK
      <4>2. UNCHANGED ptx
        BY <3>2 DEF SessionServlet
      <4> QED BY <3>2, <4>1, <4>2, ServerTypes DEF ServerOK
    <3> QED BY <1>7, <3>1, <3>2 DEF Begins
  <2>2. pc' \in PC /\ todo' \in Seq(Req) /\ hs' \in Seq(Handle)
    BY <1>1, <1>4, <1>7 DEF Begins, Goes, Die, Ends
  <2> QED BY <1>1, <1>7, <2>1, <2>2 DEF Begins
<1>8. CASE Starts
  <2>1. nstarted < MaxPtx
    BY <1>8 DEF Starts, Bookkeeping
  <2>2. ServerOK' /\ idle' \in 0 .. Timeout /\ Len(ptx) <= Len(ptx') /\ Len(ptx') \in Nat
    <3>1. CASE Quiet
      BY <1>3, <1>5, <3>1
    <3>2. CASE ~NoPtx /\ sess = "open" /\ StartServlet
      <4>1. Len(ptx) < MaxPtx
        BY <1>8, <2>1, <3>2 DEF Starts, Bookkeeping
      <4>2. ServerOK' /\ idle' \in 0 .. Timeout /\ Len(ptx) <= Len(ptx')
        BY <3>2, <4>1, ServerTypes DEF ServerOK
      <4> QED BY <4>2, LenProperties DEF ServerOK
    <3> QED BY <1>8, <3>1, <3>2 DEF Starts
  <2>3. into' \in [Req -> 0 .. Len(ptx')]
    BY <1>1, <1>3, <1>8, <2>2 DEF Starts
  <2>4. pc' \in PC /\ todo' \in Seq(Req) /\ hs' \in Seq(Handle)
    BY <1>1, <1>4, <1>8 DEF Starts, Goes, Die, Ends
  <2>5. nstarted' \in 0 .. MaxPtx
    <3>1. nstarted' \in {nstarted, nstarted + 1}
      BY <1>8 DEF Starts
    <3> QED BY <1>1, <1>3, <2>1, <3>1
  <2> QED BY <1>1, <1>8, <2>2, <2>3, <2>4, <2>5 DEF Starts
<1>9. CASE EndsPtx
  <2>1. ServerOK' /\ idle' \in 0 .. Timeout /\ Len(ptx) <= Len(ptx') /\ Len(ptx') \in Nat
    <3>1. CASE Quiet
      BY <1>3, <1>5, <3>1
    <3>2. CASE EndServlet(status)
      <4>1. ServerOK' /\ idle' \in 0 .. Timeout /\ Len(ptx) <= Len(ptx')
        BY <3>2, ServerTypes DEF ServerOK
      <4> QED BY <4>1, LenProperties DEF ServerOK
    <3> QED BY <1>9, <3>1, <3>2 DEF EndsPtx
  <2>2. into' \in [Req -> 0 .. Len(ptx')]
    BY <1>1, <1>3, <1>9, <2>1 DEF EndsPtx
  <2>3. pc' \in PC /\ todo' \in Seq(Req) /\ hs' \in Seq(Handle)
    BY <1>1, <1>4, <1>9 DEF EndsPtx
  <2> QED BY <1>1, <1>9, <2>1, <2>2, <2>3 DEF EndsPtx
<1>10. CASE Steers
  <2>1. again' \in BOOLEAN
    <3>1. \A b : b = (nstarted > 0) => b \in BOOLEAN
      OBVIOUS
    <3>2. again \in BOOLEAN
      BY <1>1
    <3> HIDE DEF ClientOK
    <3> QED BY <1>10, <3>1, <3>2, Zenon DEF Steers
  <2>2. pc' \in PC
    BY <1>1, <1>10 DEF Steers
  <2> QED BY <1>1, <1>5, <1>6, <1>10, <2>1, <2>2 DEF Steers, serverVars
<1>11. ASSUME NEW a \in Audit, _mon_process_ca(a) PROVE (ServerOK /\ ClientOK /\ RequestsOK /\ ClocksOK)'
  <2>1. Requests(a) \in Seq(Req)
    BY RequestFacts DEF Requests
  <2>2. of' \in [Req -> 0 .. MaxPtx]
    BY <1>1, <1>11 DEF _mon_process_ca
  <2> QED BY <1>1, <1>5, <1>6, <1>11, <2>1, <2>2 DEF _mon_process_ca, serverVars
<1>12. todo # <<>> => Head(todo) \in Req /\ Tail(todo) \in Seq(Req)
  BY <1>1, TodoFacts
<1>13. pc \in {"upload", "pump"} => todo # <<>>
  BY DEF Handed
<1>14. CASE SendsNow
  <2>1. pc' \in PC /\ todo' \in Seq(Req) /\ hs' \in Seq(Handle)
    BY <1>1, <1>4, <1>12, <1>13, <1>14 DEF SendsNow, Rest, Die, Ends
  <2>2. srv' \in [Req -> {"no", "arrived", "looked", "stored", "refused"}]
    BY <1>1, <1>14 DEF SendsNow
  <2>3. into' \in [Req -> 0 .. Len(ptx)]
    BY <1>1, <1>3, <1>14 DEF SendsNow
  <2>4. failed' \subseteq Req
    BY <1>1, <1>12, <1>13, <1>14 DEF SendsNow
  <2> QED BY <1>1, <1>5, <1>14, <2>1, <2>2, <2>3, <2>4 DEF SendsNow
<1>15. CASE Waits
  BY <1>1, <1>5, <1>6, <1>15 DEF Waits, serverVars
<1>16. ASSUME NEW k \in Nat, TookUp(k) PROVE (ServerOK /\ ClientOK /\ RequestsOK /\ ClocksOK)'
  <2>1. pc' \in PC /\ todo' \in Seq(Req) /\ hs' \in Seq(Handle) /\ failed' \subseteq Req
    BY <1>1, <1>12, <1>13, <1>16 DEF TookUp, Rest
  <2> QED BY <1>1, <1>5, <1>6, <1>16, <2>1 DEF TookUp, serverVars
<1>17. ASSUME NEW k \in DOMAIN hs, Moves(k) PROVE (ServerOK /\ ClientOK /\ RequestsOK /\ ClocksOK)'
  <2>1. srv' \in [Req -> {"no", "arrived", "looked", "stored", "refused"}] /\ failed' \subseteq Req
    BY <1>1, <1>17 DEF Moves
  <2> QED BY <1>1, <1>5, <1>6, <1>17, <2>1 DEF Moves, serverVars
<1>18. ASSUME NEW r \in Req, Lookup(r) PROVE (ServerOK /\ ClientOK /\ RequestsOK /\ ClocksOK)'
  <2>1. Quiet
    BY <1>1, <1>3, <1>18 DEF Lookup, Touch, Quiet
  <2>2. srv' \in [Req -> {"no", "arrived", "looked", "stored", "refused"}]
    BY <1>1, <1>18 DEF Lookup
  <2>3. into' \in [Req -> 0 .. Len(ptx)]
    BY <1>1, <1>3, <1>18 DEF Lookup
  <2> QED BY <1>1, <1>5, <1>18, <2>1, <2>2, <2>3 DEF Lookup, clientVars
<1>19. ASSUME NEW r \in Req, Commit(r) PROVE (ServerOK /\ ClientOK /\ RequestsOK /\ ClocksOK)'
  BY <1>1, <1>5, <1>6, <1>19 DEF Commit, clientVars, serverVars
<1>20. CASE Passes
  <2>1. missed' \in BOOLEAN
    BY <1>1, <1>20, Zenon DEF Passes
  <2>2. beat' \in 0 .. Timeout /\ lag' \in 0 .. PassMax
    BY <1>1, <1>3, <1>20 DEF Passes
  <2> QED BY <1>1, <1>5, <1>20, <2>1, <2>2 DEF Passes, clientVars
<1>21. CASE Tick
  <2>1. idle' \in 0 .. Timeout /\ beat' \in 0 .. Timeout /\ lag' \in 0 .. PassMax
    BY <1>1, <1>3, <1>21 DEF Tick, AtMost
  <2>2. ServerOK'
    BY <1>1, <1>21 DEF Tick, ServerOK
  <2> QED BY <1>1, <1>21, <2>1, <2>2 DEF Tick, clientVars
<1>22. CASE Expire
  <2>1. ServerOK' /\ idle' \in 0 .. Timeout /\ Len(ptx) <= Len(ptx')
    BY <1>22, ServerTypes DEF ServerOK
  <2>2. Len(ptx') \in Nat
    BY <2>1, LenProperties DEF ServerOK
  <2>3. into' \in [Req -> 0 .. Len(ptx')]
    BY <1>1, <1>3, <1>22, <2>1, <2>2 DEF Expire
  <2> QED BY <1>1, <1>22, <2>1, <2>3 DEF Expire, clientVars
<1>23. CASE Stops
  BY <1>1, <1>4, <1>5, <1>23 DEF Stops, Die, Ends
<1>24. CASE UNCHANGED sessionVars
  BY <1>1, <1>24 DEF sessionVars, clientVars, serverVars, ServerOK
<1> QED BY <1>7, <1>8, <1>9, <1>10, <1>11, <1>14, <1>15, <1>16, <1>17, <1>18, <1>19, <1>20,
           <1>21, <1>22, <1>23, <1>24 DEF Kinds

-----------------------------------------------------------------------------
(* The heartbeat *)

(* The session is open as long as the build lasts: it cannot expire, for   *)
(* what is left of the timeout after a pass without a heartbeat is more    *)
(* than a pass takes.                                                      *)
LEMMA TimersKept ==
    ASSUME SessionTypeOK, Bookkeeping, Timers, Kinds
    PROVE  Timers'
<1> DEFINE Hold == sess = "open" /\ idle <= beat /\ (idle <= lag \/ beat < heartbeat_interval + lag)
           InLoop == pc \in {"loop", "upload", "pump"} /\ ~NoPtx /\ ~missed
<1>1. /\ idle \in 0 .. Timeout /\ beat \in 0 .. Timeout /\ lag \in 0 .. PassMax
      /\ Timeout \in Nat \ {0} /\ PassMax \in Nat /\ 2 * PassMax <= Timeout
      /\ heartbeat_interval \in Nat /\ 2 * heartbeat_interval = Timeout
  <2>1. /\ Timeout \in Nat \ {0} /\ Timeout % 4 = 0 /\ PassMax \in Nat
    BY SessionConstantsOK
  <2>2. heartbeat_interval \in Nat /\ 2 * heartbeat_interval = Timeout
    BY <2>1 DEF heartbeat_interval
  <2> QED BY <2>1, <2>2, PassIsShort DEF SessionTypeOK
<1> HIDE DEF Hold
<1>2. SUFFICES ASSUME InLoop' PROVE Hold'
  BY DEF Timers, Hold, heartbeat_interval
<1> USE DEF NoPtx
<1>3. CASE Begins \/ Starts
  <2>1. sess' = "open" /\ idle' = 0 /\ beat' = beat /\ lag' = lag
    BY <1>2, <1>3 DEF Begins, Starts, SessionServlet, StartServlet, Goes, Die, Ends
  <2> QED BY <1>1, <2>1 DEF Hold
<1>4. CASE EndsPtx \/ Stops
  BY <1>2, <1>4 DEF EndsPtx, Stops, Die, Ends
<1>5. ASSUME InLoop, sess' = sess, (idle' = idle \/ idle' = 0), beat' = beat, lag' = lag
      PROVE  Hold'
  BY <1>1, <1>5 DEF Timers, Hold
<1>6. CASE Steers \/ Waits \/ UNCHANGED sessionVars
  <2>1. InLoop
    BY <1>2, <1>6 DEF Steers, Waits, sessionVars, clientVars, serverVars
  <2> QED BY <1>5, <1>6, <2>1 DEF Steers, Waits, sessionVars, clientVars, serverVars
<1>7. ASSUME NEW a \in Audit, _mon_process_ca(a) PROVE Hold'
  BY <1>2, <1>5, <1>7 DEF _mon_process_ca, serverVars
<1>8. CASE SendsNow
  BY <1>2, <1>5, <1>8 DEF SendsNow, Quiet
<1>9. ASSUME NEW k \in Nat, TookUp(k) PROVE Hold'
  BY <1>2, <1>5, <1>9 DEF TookUp, serverVars
<1>10. ASSUME NEW k \in DOMAIN hs, Moves(k) PROVE Hold'
  BY <1>2, <1>5, <1>10 DEF Moves, serverVars
<1>11. ASSUME NEW r \in Req, Lookup(r) \/ Commit(r) PROVE Hold'
  BY <1>2, <1>5, <1>11 DEF Lookup, Commit, Touch, clientVars, serverVars
<1>12. CASE Passes
  <2>1. InLoop /\ sess' = sess
    <3>1. ~missed
      BY <1>2, <1>12, Zenon DEF Passes
    <3> QED BY <1>2, <1>12, <3>1 DEF Passes, Quiet, clientVars
  <2>2. sess = "open" /\ idle <= beat
    BY <2>1 DEF Timers
  <2>3. CASE beat < heartbeat_interval /\ beat' = beat /\ idle' = idle
    BY <1>1, <1>12, <2>1, <2>2, <2>3 DEF Passes, Hold
  <2>4. CASE beat' = 0 /\ Touch
    BY <1>1, <1>12, <2>1, <2>2, <2>4 DEF Passes, Hold, Touch
  <2> QED BY <1>2, <1>12, <2>3, <2>4 DEF Passes
<1>13. CASE Tick
  <2>1. InLoop /\ sess' = sess
    BY <1>2, <1>13 DEF Tick, clientVars
  <2>2. lag < PassMax /\ ~Gone
    BY <1>13, <2>1 DEF Tick, Gone
  <2>3. idle' = idle + 1 /\ lag' = lag + 1 /\ beat' = AtMost(beat, Timeout) /\ idle < Timeout
    BY <1>13, <2>2 DEF Tick, AtMost
  <2> QED BY <1>1, <2>1, <2>3 DEF Timers, Hold, AtMost
<1>14. CASE Expire
  <2>1. InLoop /\ idle >= Timeout
    BY <1>2, <1>14 DEF Expire, clientVars
  <2> QED BY <1>1, <2>1 DEF Timers
<1> QED BY <1>3, <1>4, <1>6, <1>7, <1>8, <1>9, <1>10, <1>11, <1>12, <1>13, <1>14 DEF Kinds

-----------------------------------------------------------------------------
(* The PTXs *)

(* Nothing decides the current PTX but END and the end of the session.     *)
LEMMA BookkeepingKept ==
    ASSUME SessionTypeOK, Bookkeeping, Handed, Kinds
    PROVE  Bookkeeping'
<1>1. /\ Len(ptx) \in Nat /\ nstarted \in Nat /\ cur \in {0, Len(ptx)} /\ MaxPtx \in Nat
      /\ DOMAIN ptx = 1 .. Len(ptx) /\ (cur # 0 => ptx[cur] = "running" /\ sess = "open")
      /\ ptx \in Seq({"running", "ok", "failed"})
  BY LenProperties, SessionConstantsOK DEF SessionTypeOK
<1>2. ASSUME UNCHANGED <<opt, pc, again, nstarted, sess, cur, ptx, expired>> PROVE Bookkeeping'
  BY <1>2 DEF Bookkeeping, NoPtx, Busy
<1> USE DEF NoPtx, Busy
<1>3. CASE Begins
  <2>1. nstarted = 0 /\ sess = "none" /\ ~expired /\ pc = "init"
    BY <1>3 DEF Begins, Bookkeeping
  <2>2. pc' \in {"loop", "dead"} /\ UNCHANGED <<opt, nstarted, cur, ptx, expired>>
    BY <1>3 DEF Begins, Goes, Die, Ends, Quiet, SessionServlet
  <2>3. NoPtx => sess' = sess
    BY <1>3 DEF Begins, Quiet
  <2>4. ~NoPtx => Len(ptx) = 0
    BY <2>1 DEF Bookkeeping
  <2>5. NoPtx => ptx = <<>>
    BY DEF Bookkeeping
  <2>6. ~NoPtx' => Len(ptx') = nstarted'
    BY <2>1, <2>2, <2>4
  <2>7. NoPtx' => ptx' = <<>> /\ sess' = "none"
    BY <2>1, <2>2, <2>3, <2>5
  <2>8. ~expired' /\ ~(nstarted' > 0) /\ pc' \in {"loop", "dead"}
    BY <2>1, <2>2
  <2> HIDE DEF NoPtx
  <2> QED BY <2>6, <2>7, <2>8 DEF Bookkeeping
<1>4. CASE Starts
  <2>1. CASE NoPtx
    BY <1>1, <1>4, <2>1 DEF Starts, Bookkeeping, Goes, Quiet
  <2>2. CASE ~NoPtx
    <3>1. Len(ptx) = nstarted /\ ~expired /\ sess = "open"
      BY <1>4, <2>2 DEF Starts, Bookkeeping
    <3>2. PICK new : new = valueUnbound
      OBVIOUS
    <3>3. new \in Seq({"running", "ok", "failed"}) /\ Len(new) = Len(ptx)
      BY <3>2, ResultFacts DEF valueUnbound
    <3>4. /\ ptx' = Append(new, "running") /\ cur' = Len(ptx) + 1
          /\ UNCHANGED <<opt, again, sess, expired>>
      BY <1>4, <2>2, <3>2 DEF Starts, StartServlet
    <3>5. Len(ptx') = Len(ptx) + 1 /\ ptx'[Len(ptx) + 1] = "running"
      BY <3>3, <3>4, AtTheEnd
    <3>6. (pc' = "loop" /\ nstarted' = nstarted + 1) \/ (pc' = "dead" /\ nstarted' = nstarted)
      BY <1>4, <2>2 DEF Starts, Goes, Die, Ends
    <3> QED BY <1>1, <2>2, <3>1, <3>4, <3>5, <3>6 DEF Bookkeeping
  <2> QED BY <2>1, <2>2
<1>5. CASE EndsPtx
  <2>1. CASE Quiet
    BY <1>1, <1>5, <2>1 DEF EndsPtx, Bookkeeping, Quiet
  <2>2. CASE HasPtx /\ EndServlet(status)
    <3>1. PICK res \in {"ok", "failed"} : ptx' = setResult(cur, res)
      BY <2>2 DEF EndServlet
    <3>2. Len(ptx') = Len(ptx)
      BY <3>1, ResultFacts
    <3>3. ~NoPtx /\ ~expired
      BY <2>2 DEF HasPtx, Bookkeeping
    <3> QED BY <1>1, <1>5, <2>2, <3>2, <3>3 DEF EndsPtx, Bookkeeping, EndServlet
  <2> QED BY <1>5, <2>1, <2>2 DEF EndsPtx
<1>6. CASE Steers
  <2>1. /\ pc = "loop" /\ UNCHANGED <<opt, nstarted, sess, cur, ptx, expired>>
        /\ pc' \in {"loop", "drain", "start"}
        /\ pc' = "start" \/ (pc' = "drain" /\ again') => nstarted < MaxPtx
    BY <1>6, Zenon DEF Steers, serverVars
  <2> QED BY <1>1, <2>1 DEF Bookkeeping
<1>7. ASSUME NEW a \in Audit, _mon_process_ca(a) PROVE Bookkeeping'
  BY <1>1, <1>7 DEF _mon_process_ca, serverVars, Bookkeeping
<1>8. CASE SendsNow
  BY <1>1, <1>8 DEF SendsNow, Quiet, Rest, Die, Ends, Bookkeeping
<1>9. CASE Waits
  BY <1>1, <1>9 DEF Waits, serverVars, Bookkeeping
<1>10. ASSUME NEW k \in Nat, TookUp(k) PROVE Bookkeeping'
  BY <1>1, <1>10 DEF TookUp, Rest, serverVars, Bookkeeping
<1>11. ASSUME NEW k \in DOMAIN hs, Moves(k) PROVE Bookkeeping'
  BY <1>2, <1>11 DEF Moves, serverVars
<1>12. ASSUME NEW r \in Req, Lookup(r) \/ Commit(r) PROVE Bookkeeping'
  BY <1>2, <1>12 DEF Lookup, Commit, Touch, clientVars, serverVars
<1>13. CASE Passes \/ Tick \/ UNCHANGED sessionVars
  BY <1>2, <1>13 DEF Passes, Quiet, Tick, sessionVars, clientVars, serverVars
<1>14. CASE Expire
  <2>1. ptx' = setResult(cur, "failed")
    BY <1>14 DEF Expire, valueUnbound
  <2>2. /\ Len(ptx') = Len(ptx) /\ \A i \in DOMAIN ptx : i # cur => ptx'[i] = ptx[i]
        /\ cur # 0 => ptx'[cur] = "failed"
    BY <2>1, ResultFacts
  <2>3. /\ sess = "open" /\ sess' = "gone" /\ cur' = 0 /\ expired' = TRUE
        /\ UNCHANGED <<opt, pc, again, nstarted>>
    BY <1>14 DEF Expire, clientVars
  <2>4. ASSUME Busy, nstarted > 0, ~NoPtx PROVE ptx'[nstarted] # "ok"
    <3>1. Len(ptx) = nstarted /\ ptx[nstarted] # "ok" /\ cur = nstarted
      BY <2>3, <2>4 DEF Bookkeeping
    <3> QED BY <1>1, <2>2, <2>4, <3>1
  <2> QED BY <1>1, <2>2, <2>3, <2>4 DEF Bookkeeping
<1>15. CASE Stops
  BY <1>1, <1>15 DEF Stops, Quiet, Die, Ends, Bookkeeping
<1> QED BY <1>3, <1>4, <1>5, <1>6, <1>7, <1>8, <1>9, <1>10, <1>11, <1>12, <1>13, <1>14, <1>15
        DEF Kinds

-----------------------------------------------------------------------------
(* The requests *)

(* The next request, and what stays in the queue.                          *)
NextRequest(r) ==
    /\ r \in Req /\ Waiting(r) /\ InTodo(r)
    /\ \A i, j \in DOMAIN Tail(todo) : Tail(todo)[i] = Tail(todo)[j] => i = j
    /\ \A i \in DOMAIN Tail(todo) : Tail(todo)[i] # r /\ Waiting(Tail(todo)[i]) /\ InTodo(Tail(todo)[i])
    /\ \A x \in Req : InTodo(x) /\ x # r => \E i \in DOMAIN Tail(todo) : Tail(todo)[i] = x

(* The next request is there once.                                         *)
LEMMA NextRequestFacts ==
    ASSUME SessionTypeOK, Handed, pc \in {"upload", "pump"}
    PROVE  NextRequest(Head(todo))
<1>1. /\ \A i, j \in DOMAIN todo : todo[i] = todo[j] => i = j
      /\ \A i \in DOMAIN todo : Waiting(todo[i])
      /\ todo # <<>> /\ todo \in Seq(Req)
  BY DEF Handed, SessionTypeOK
<1> DEFINE r == Head(todo)
           T == Tail(todo)
<1>2. /\ r \in Req /\ DOMAIN todo = 1 .. Len(todo) /\ 1 \in DOMAIN todo /\ r = todo[1]
      /\ DOMAIN T = 1 .. Len(todo) - 1 /\ Len(todo) \in Nat \ {0}
      /\ \A i \in DOMAIN T : i + 1 \in DOMAIN todo /\ T[i] = todo[i + 1]
  BY <1>1, TodoFacts
<1> HIDE DEF r, T
<1>3. \A i, j \in DOMAIN T : T[i] = T[j] => i = j
  <2> TAKE i, j \in DOMAIN T
  <2> HAVE T[i] = T[j]
  <2>1. i + 1 = j + 1
    BY <1>1, <1>2
  <2> QED BY <1>2, <2>1
<1>4. \A i \in DOMAIN T : T[i] # r
  <2> TAKE i \in DOMAIN T
  <2>1. T[i] = todo[i + 1] /\ i + 1 \in DOMAIN todo /\ i + 1 # 1
    BY <1>2
  <2> QED BY <1>1, <1>2, <2>1
<1>5. \A i \in DOMAIN T : Waiting(T[i]) /\ InTodo(T[i])
  <2> TAKE i \in DOMAIN T
  <2>1. T[i] = todo[i + 1] /\ i + 1 \in DOMAIN todo
    BY <1>2
  <2>2. Waiting(todo[i + 1])
    BY <1>1, <2>1
  <2>3. InTodo(todo[i + 1])
    BY <2>1 DEF InTodo
  <2> QED BY <2>1, <2>2, <2>3
<1>6. ASSUME NEW x \in Req, InTodo(x), x # r PROVE \E i \in DOMAIN T : T[i] = x
  <2>1. PICK j \in DOMAIN todo : todo[j] = x
    BY <1>6 DEF InTodo
  <2>2. j # 1 /\ j - 1 \in DOMAIN T
    BY <1>2, <1>6, <2>1
  <2>3. T[j - 1] = todo[(j - 1) + 1] /\ (j - 1) + 1 = j
    BY <1>2, <2>1, <2>2
  <2> QED BY <2>1, <2>2, <2>3
<1>7. Waiting(r) /\ InTodo(r)
  BY <1>1, <1>2 DEF InTodo
<1> QED BY <1>2, <1>3, <1>4, <1>5, <1>6, <1>7 DEF NextRequest, r, T

(* Handed, in two parts.                                                   *)
TodoOK ==
    /\ pc \in {"upload", "pump"} <=> todo # <<>>
    /\ \A i, j \in DOMAIN todo : todo[i] = todo[j] => i = j
    /\ \A i \in DOMAIN todo : Waiting(todo[i])
HandlesOK ==
    /\ pc = "pump" => hs # <<>> /\ hs[Len(hs)].st = "new"
    /\ \A k \in DOMAIN hs : Active(hs[k]) => OnItsWay(hs[k])
    /\ \A i, j \in DOMAIN hs :
          Active(hs[i]) /\ Active(hs[j]) /\ hs[i].req = hs[j].req => i = j

(* Nothing is on its way when the monitor has nothing to upload for.       *)
LEMMA AtRest ==
    ASSUME \A k \in DOMAIN hs' : ~Active(hs'[k]), todo' = <<>>, pc' \notin {"upload", "pump"}
    PROVE  Handed'
  BY EmptySeq DEF Handed

(* The next request leaves the queue, whatever becomes of it.              *)
LEMMA RestKept ==
    ASSUME SessionTypeOK, Handed, pc \in {"upload", "pump"}, Rest,
           NEW r, r = Head(todo),
           \A x \in Req : x # r => srv'[x] = srv[x] /\ (x \in failed' <=> x \in failed),
           UNCHANGED <<of, nstarted>>
    PROVE  /\ TodoOK' /\ pc' \in {"loop", "upload"}
           /\ ~InTodo(r)'
           /\ \A x \in Req : ~InTodo(x) => ~InTodo(x)'
           /\ \A x \in Req : x # r /\ InTodo(x) => InTodo(x)'
<1>1. NextRequest(r)
  BY NextRequestFacts
<1>2. todo' = Tail(todo) /\ pc' = (IF Tail(todo) = <<>> THEN "loop" ELSE "upload")
  BY DEF Rest
<1>3. \A i \in DOMAIN todo' : todo'[i] \in Req
  <2>1. todo # <<>> /\ todo \in Seq(Req)
    BY DEF Handed, SessionTypeOK
  <2>2. todo' \in Seq(Req)
    BY <1>2, <2>1, TodoFacts
  <2> QED BY <2>2, ElementOfSeq, LenProperties
<1>4. \A i \in DOMAIN todo' : Waiting(todo[i])'
  <2> SUFFICES ASSUME NEW i \in DOMAIN todo' PROVE Waiting(todo[i])'
    OBVIOUS
  <2>1. PICK x \in Req : x = todo'[i]
    BY <1>3
  <2>2. x # r /\ Waiting(x)
    BY <1>1, <1>2, <2>1 DEF NextRequest
  <2> QED BY <2>1, <2>2 DEF Waiting
<1>5. TodoOK'
  BY <1>1, <1>2, <1>4 DEF TodoOK, NextRequest
<1>6. ~InTodo(r)'
  BY <1>1, <1>2 DEF InTodo, NextRequest
<1>7. \A x \in Req : ~InTodo(x) => ~InTodo(x)'
  <2>1. \A i \in DOMAIN todo' : InTodo(todo'[i])
    BY <1>1, <1>2 DEF NextRequest
  <2> QED BY <2>1 DEF InTodo
<1>8. \A x \in Req : x # r /\ InTodo(x) => InTodo(x)'
  <2> SUFFICES ASSUME NEW x \in Req, x # r, InTodo(x) PROVE \E i \in DOMAIN todo' : todo'[i] = x
    BY DEF InTodo
  <2> QED BY <1>1, <1>2 DEF NextRequest
<1> QED BY <1>2, <1>5, <1>6, <1>7, <1>8

(* What is in hand stays consistent.                                       *)
LEMMA HandedKept ==
    ASSUME SessionTypeOK, Bookkeeping, Handed, Issued, Kinds
    PROVE  Handed'
<1>1. /\ hs \in Seq(Handle) /\ todo \in Seq(Req) /\ DOMAIN hs = 1 .. Len(hs) /\ Len(hs) \in Nat
      /\ \A k \in DOMAIN hs : hs[k].req \in Req
  <2>1. hs \in Seq(Handle) /\ todo \in Seq(Req)
    BY DEF SessionTypeOK
  <2>2. \A k \in DOMAIN hs : hs[k] \in Handle
    BY <2>1, ElementOfSeq, LenProperties
  <2> QED BY <2>1, <2>2, LenProperties DEF Handle
<1>2. TodoOK /\ HandlesOK
  BY DEF Handed, TodoOK, HandlesOK
<1>3. ASSUME TodoOK', HandlesOK' PROVE Handed'
  BY <1>3 DEF Handed, TodoOK, HandlesOK
<1>4. ASSUME UNCHANGED <<pc, todo, hs, of, srv, failed, nstarted>> PROVE Handed'
  BY <1>4 DEF Handed, Waiting, OnItsWay, Busy, InTodo, Active
<1>5. ~Busy => \A k \in DOMAIN hs : ~Active(hs[k])
  BY <1>2 DEF HandlesOK, OnItsWay
<1>6. ASSUME todo' = <<>>, hs' = <<>>, pc' \in {"dead", "over"} PROVE Handed'
  <2>1. \A k \in DOMAIN hs' : ~Active(hs'[k])
    BY <1>6, EmptySeq
  <2> QED BY <1>6, <2>1, AtRest
<1>7. ASSUME \A k \in DOMAIN hs : ~Active(hs[k]), UNCHANGED <<todo, hs>>,
             pc \notin {"upload", "pump"}, pc' \notin {"upload", "pump"} PROVE Handed'
  BY <1>2, <1>7, AtRest DEF TodoOK
<1>8. CASE Begins \/ Starts
  <2>1. ~Busy /\ pc \notin {"upload", "pump"}
    BY <1>8 DEF Begins, Starts, Busy
  <2>2. (pc' = "loop" /\ UNCHANGED <<todo, hs>>) \/ (pc' = "dead" /\ todo' = <<>> /\ hs' = <<>>)
    BY <1>8 DEF Begins, Starts, Goes, Die, Ends
  <2> QED BY <1>5, <1>6, <1>7, <2>1, <2>2
<1>9. CASE EndsPtx
  <2>1. \A k \in DOMAIN hs : ~Active(hs[k])
    BY <1>1, <1>9, DrainedFacts DEF EndsPtx
  <2> QED BY <1>6, <1>7, <1>9, <2>1 DEF EndsPtx
<1>10. CASE Steers
  <2>1. pc = "loop" /\ UNCHANGED <<todo, hs, of, srv, failed, nstarted>>
    BY <1>10 DEF Steers
  <2>2. CASE pc' = "start"
    <3>1. ~(nstarted > 0)
      BY <1>10, <2>1, <2>2 DEF Steers
    <3>2. \A k \in DOMAIN hs : ~Active(hs[k])
      BY <1>2, <3>1 DEF HandlesOK, OnItsWay
    <3> QED BY <1>7, <2>1, <2>2, <3>2
  <2>3. CASE pc' \in {"loop", "drain"}
    BY <2>1, <2>3 DEF Handed, Waiting, OnItsWay, Busy, InTodo, Active
  <2>4. pc' \in {"start", "loop", "drain"}
    BY <1>10 DEF Steers
  <2> QED BY <2>2, <2>3, <2>4
<1>11. ASSUME NEW a \in Audit, _mon_process_ca(a) PROVE Handed'
  <2> DEFINE R == Requests(a)
  <2>1. /\ pc = "loop" /\ ~NoPtx /\ nstarted > 0 /\ of[<<a, "audit">>] = 0
        /\ todo' = R /\ pc' = "upload"
        /\ of' = [r \in Req |-> IF \E k \in DOMAIN R : R[k] = r THEN nstarted ELSE of[r]]
        /\ UNCHANGED <<nstarted, hs, srv, failed>>
    BY <1>11 DEF _mon_process_ca, NoPtx
  <2>2. /\ R \in Seq(Req) /\ R # <<>>
        /\ \A i, j \in DOMAIN R : R[i] = R[j] => i = j
        /\ \A i \in DOMAIN R : R[i] \in Req /\ (R[i] = <<a, "audit">> \/ (a \in Uploadable /\ R[i] = <<a, "file">>))
    BY RequestFacts DEF Requests
  <2> HIDE DEF R
  <2>3. \A i \in DOMAIN R : of[R[i]] = 0
    BY <2>1, <2>2 DEF Issued
  <2>4. \A i \in DOMAIN R : srv[R[i]] = "no" /\ R[i] \notin failed /\ of'[R[i]] = nstarted
    BY <2>1, <2>2, <2>3 DEF Issued
  <2>5. TodoOK'
    BY <2>1, <2>2, <2>4 DEF TodoOK, Waiting
  <2>6. \A x \in Req : of[x] = nstarted => ~InTodo(x)' /\ of'[x] = nstarted
    BY <2>1, <2>2, <2>3 DEF InTodo
  <2>7. HandlesOK'
    <3> SUFFICES \A k \in DOMAIN hs : Active(hs[k]) => OnItsWay(hs[k])'
      BY <1>2, <2>1 DEF HandlesOK, Active
    <3> SUFFICES ASSUME NEW k \in DOMAIN hs, Active(hs[k]) PROVE OnItsWay(hs[k])'
      OBVIOUS
    <3>1. PICK h : h = hs[k]
      OBVIOUS
    <3>2. OnItsWay(h) /\ h.req \in Req
      BY <1>1, <1>2, <3>1 DEF HandlesOK
    <3>3. ~InTodo(h.req)' /\ of'[h.req] = nstarted
      BY <2>6, <3>2 DEF OnItsWay
    <3>4. OnItsWay(h)'
      BY <2>1, <3>2, <3>3 DEF OnItsWay, Busy
    <3> QED BY <2>1, <3>1, <3>4
  <2> QED BY <1>3, <2>5, <2>7
<1>12. CASE SendsNow
  <2>1. CASE Die
    BY <1>6, <2>1 DEF Die, Ends
  <2>2. CASE Rest /\ UNCHANGED hs
    <3>1. PICK r : r = Head(todo)
      OBVIOUS
    <3>2. pc = "upload" /\ UNCHANGED <<nstarted, of>>
      BY <1>12 DEF SendsNow
    <3>3. NextRequest(r)
      BY <3>1, <3>2, NextRequestFacts
    <3>4. \A x \in Req : x # r => srv'[x] = srv[x] /\ (x \in failed' <=> x \in failed)
      BY <1>12, <3>1 DEF SendsNow, SessionTypeOK
    <3>5. /\ TodoOK' /\ pc' \in {"loop", "upload"} /\ ~InTodo(r)'
          /\ \A x \in Req : ~InTodo(x) => ~InTodo(x)'
      BY <2>2, <3>1, <3>2, <3>4, RestKept
    <3>6. HandlesOK'
      <4> SUFFICES \A k \in DOMAIN hs : Active(hs[k]) => OnItsWay(hs[k])'
        BY <1>2, <2>2, <3>5 DEF HandlesOK, Active
      <4> SUFFICES ASSUME NEW k \in DOMAIN hs, Active(hs[k]) PROVE OnItsWay(hs[k])'
        OBVIOUS
      <4>1. PICK h : h = hs[k]
        OBVIOUS
      <4>2. OnItsWay(h) /\ h.req \in Req
        BY <1>1, <1>2, <4>1 DEF HandlesOK
      <4>3. h.req # r
        BY <3>3, <4>2 DEF OnItsWay, NextRequest
      <4>4. OnItsWay(h)'
        BY <3>2, <3>4, <3>5, <4>2, <4>3 DEF OnItsWay, Busy
      <4> QED BY <2>2, <4>1, <4>4
    <3> QED BY <1>3, <3>5, <3>6
  <2> QED BY <1>12, <2>1, <2>2 DEF SendsNow
<1>13. CASE Waits
  <2>1. TodoOK'
    BY <1>2, <1>13 DEF Waits, TodoOK, Waiting
  <2>2. /\ UNCHANGED <<todo, of, srv, failed, nstarted>> /\ pc' = "pump"
        /\ hs' # <<>> /\ hs'[Len(hs')].st = "new"
        /\ DOMAIN hs' = DOMAIN hs \cup {Len(hs')}
        /\ \A j \in DOMAIN hs : hs'[j] = hs[j]
    BY <1>13 DEF Waits
  <2>3. \A k \in DOMAIN hs' : Active(hs'[k]) => k \in DOMAIN hs /\ hs'[k] = hs[k]
    BY <2>2 DEF Active
  <2>4. \A k \in DOMAIN hs' : Active(hs'[k]) => OnItsWay(hs[k])'
    <3> SUFFICES ASSUME NEW k \in DOMAIN hs', Active(hs'[k]) PROVE OnItsWay(hs[k])'
      OBVIOUS
    <3>1. PICK h : h = hs[k]
      OBVIOUS
    <3>2. OnItsWay(h)
      BY <1>2, <2>3, <3>1 DEF HandlesOK
    <3>3. OnItsWay(h)'
      BY <2>2, <3>2 DEF OnItsWay, Busy, InTodo
    <3> QED BY <2>3, <3>1, <3>3
  <2>5. HandlesOK'
    <3>1. \A k \in DOMAIN hs' : Active(hs[k])' => Active(hs'[k])
      BY DEF Active
    <3> QED BY <1>2, <2>2, <2>3, <2>4, <3>1 DEF HandlesOK
  <2> QED BY <1>3, <2>1, <2>5
<1>14. ASSUME NEW k \in Nat, TookUp(k) PROVE Handed'
  <2>1. PICK r : r = Head(todo)
    OBVIOUS
  <2>2. /\ pc \in {"upload", "pump"} /\ Rest /\ UNCHANGED <<nstarted, of, srv>>
        /\ DOMAIN hs' = DOMAIN hs \cup {k}
        /\ \A j \in DOMAIN hs : j # k => hs'[j] = hs[j]
        /\ \/ hs'[k].st = "queued" /\ hs'[k].req = r /\ failed' = failed
           \/ hs'[k].st = "leaked" /\ failed' = failed \cup {r}
    BY <1>14, <2>1 DEF TookUp
  <2>3. NextRequest(r)
    BY <2>1, <2>2, NextRequestFacts
  <2>4. \A x \in Req : x # r => srv'[x] = srv[x] /\ (x \in failed' <=> x \in failed)
    BY <2>2
  <2>5. /\ TodoOK' /\ pc' \in {"loop", "upload"} /\ ~InTodo(r)'
        /\ \A x \in Req : ~InTodo(x) => ~InTodo(x)'
    BY <2>1, <2>2, <2>4, RestKept
  <2>6. \A j \in DOMAIN hs : Active(hs[j]) => OnItsWay(hs[j]) /\ hs[j].req # r
    BY <1>2, <2>3 DEF HandlesOK, OnItsWay, NextRequest
  <2>7. ASSUME NEW j \in DOMAIN hs', Active(hs'[j]) PROVE OnItsWay(hs[j])'
    <3>1. PICK h : h = hs'[j]
      OBVIOUS
    <3>2. CASE j = k
      <4>1. h.st = "queued" /\ h.req = r /\ failed' = failed
        BY <2>2, <2>7, <3>1, <3>2 DEF Active
      <4>2. OnItsWay(h)'
        BY <2>2, <2>3, <2>5, <4>1 DEF OnItsWay, Busy, NextRequest, Waiting
      <4> QED BY <3>1, <4>2
    <3>3. CASE j # k
      <4>1. h = hs[j] /\ OnItsWay(h) /\ h.req # r /\ h.req \in Req
        BY <1>1, <2>2, <2>6, <2>7, <3>1, <3>3
      <4>2. OnItsWay(h)'
        BY <2>2, <2>4, <2>5, <4>1 DEF OnItsWay, Busy
      <4> QED BY <3>1, <4>2
    <3> QED BY <3>2, <3>3
  <2>8. \A i, j \in DOMAIN hs' :
            Active(hs'[i]) /\ Active(hs'[j]) /\ hs'[i].req = hs'[j].req => i = j
    <3>1. \A i \in DOMAIN hs' : i # k /\ Active(hs'[i]) => i \in DOMAIN hs /\ hs'[i] = hs[i] /\ hs'[i].req # r
      BY <2>2, <2>6
    <3>2. Active(hs'[k]) => hs'[k].req = r
      BY <2>2 DEF Active
    <3> QED BY <1>2, <3>1, <3>2 DEF HandlesOK
  <2>9. HandlesOK'
    <3>1. \A j \in DOMAIN hs' : Active(hs[j])' => Active(hs'[j])
      BY DEF Active
    <3> QED BY <2>5, <2>7, <2>8, <3>1 DEF HandlesOK
  <2> QED BY <1>3, <2>5, <2>9
<1>15. ASSUME NEW k \in DOMAIN hs, Moves(k) PROVE Handed'
  <2>1. PICK r : r = hs[k].req
    OBVIOUS
  <2>2. /\ UNCHANGED <<pc, nstarted, todo, of>> /\ Active(hs[k]) /\ r \in Req
        /\ DOMAIN hs' = DOMAIN hs /\ Len(hs') = Len(hs) /\ hs' \in Seq(Handle)
        /\ hs'[k].req = r
        /\ \A j \in DOMAIN hs : j # k => hs'[j] = hs[j]
        /\ \/ hs'[k].st = "sent" /\ srv' = [srv EXCEPT ![r] = "arrived"] /\ failed' = failed
           \/ hs'[k].st = "done"
        /\ \A x \in Req : x # r => srv'[x] = srv[x] /\ (x \in failed' <=> x \in failed)
    BY <1>15, <2>1 DEF Moves, SessionTypeOK
  <2>3. OnItsWay(hs[k])
    BY <1>2, <2>2 DEF HandlesOK
  <2>4. ~InTodo(r)
    BY <2>1, <2>3 DEF OnItsWay
  <2>5. TodoOK'
    <3>1. \A i \in DOMAIN todo : todo[i] \in Req /\ todo[i] # r
      BY <1>1, <2>4, ElementOfSeq, LenProperties DEF InTodo
    <3> QED BY <1>2, <2>2, <3>1 DEF TodoOK, Waiting
  <2>6. \A j \in DOMAIN hs : j # k /\ Active(hs[j]) => OnItsWay(hs[j]) /\ hs[j].req # r
    BY <1>2, <2>1, <2>2 DEF HandlesOK
  <2>7. ASSUME NEW j \in DOMAIN hs', Active(hs'[j]) PROVE OnItsWay(hs[j])'
    <3>1. PICK h : h = hs'[j]
      OBVIOUS
    <3>2. CASE j = k
      <4>1. h.st = "sent" /\ h.req = r /\ failed' = failed /\ srv'[r] = "arrived"
        <5>1. hs'[k].st = "sent" /\ srv' = [srv EXCEPT ![r] = "arrived"] /\ failed' = failed
          BY <2>2, <2>7, <3>1, <3>2 DEF Active
        <5> QED BY <2>2, <3>1, <3>2, <5>1 DEF SessionTypeOK
      <4>2. OnItsWay(h)'
        BY <2>1, <2>2, <2>3, <4>1 DEF OnItsWay, Busy, InTodo
      <4> QED BY <3>1, <4>2
    <3>3. CASE j # k
      <4>1. h = hs[j] /\ OnItsWay(h) /\ h.req # r /\ h.req \in Req
        BY <1>1, <2>2, <2>6, <2>7, <3>1, <3>3
      <4>2. OnItsWay(h)'
        BY <2>2, <4>1 DEF OnItsWay, Busy, InTodo
      <4> QED BY <3>1, <4>2
    <3> QED BY <3>2, <3>3
  <2>8. \A i, j \in DOMAIN hs' :
            Active(hs'[i]) /\ Active(hs'[j]) /\ hs'[i].req = hs'[j].req => i = j
    BY <1>2, <2>1, <2>2, <2>6 DEF HandlesOK
  <2>9. pc' = "pump" => hs' # <<>> /\ hs'[Len(hs')].st = "new"
    <3> SUFFICES ASSUME pc = "pump" PROVE hs' # <<>> /\ hs'[Len(hs')].st = "new"
      BY <2>2
    <3>1. hs # <<>> /\ hs[Len(hs)].st = "new"
      BY <1>2 DEF HandlesOK
    <3>2. Len(hs) # 0
      BY <1>1, <3>1, EmptySeq
    <3>3. Len(hs) \in DOMAIN hs /\ Len(hs) # k
      BY <1>1, <2>2, <3>1, <3>2 DEF Active
    <3> QED BY <2>2, <3>1, <3>2, <3>3, EmptySeq
  <2>10. HandlesOK'
    <3>1. \A j \in DOMAIN hs' : Active(hs[j])' => Active(hs'[j])
      BY DEF Active
    <3> QED BY <2>7, <2>8, <2>9, <3>1 DEF HandlesOK
  <2> QED BY <1>3, <2>5, <2>10
<1>16. ASSUME NEW r \in Req, Lookup(r) \/ Commit(r) PROVE Handed'
  <2>1. /\ UNCHANGED <<pc, todo, hs, of, failed, nstarted>>
        /\ \A x \in Req : srv'[x] = "no" <=> srv[x] = "no"
    BY <1>16 DEF Lookup, Commit, clientVars, SessionTypeOK
  <2>2. \A i \in DOMAIN todo : todo[i] \in Req
    BY <1>1, ElementOfSeq, LenProperties
  <2>3. TodoOK'
    BY <1>2, <2>1, <2>2 DEF TodoOK, Waiting
  <2>4. HandlesOK'
    BY <1>1, <1>2, <2>1 DEF HandlesOK, OnItsWay, Busy, InTodo, Active
  <2> QED BY <1>3, <2>3, <2>4
<1>17. CASE Passes \/ Tick \/ Expire \/ UNCHANGED sessionVars
  BY <1>4, <1>17 DEF Passes, Tick, Expire, sessionVars, clientVars
<1>18. CASE Stops
  BY <1>6, <1>18 DEF Stops, Die, Ends
<1> QED BY <1>8, <1>9, <1>10, <1>11, <1>12, <1>13, <1>14, <1>15, <1>16, <1>17, <1>18 DEF Kinds

(* The database forgets no PTX.                                            *)
LEMMA PtxGrows ==
    ASSUME SessionTypeOK, Bookkeeping, Kinds
    PROVE  Len(ptx) \in Nat /\ Len(ptx') \in Nat /\ Len(ptx) <= Len(ptx')
<1>1. ptx \in Seq({"running", "ok", "failed"}) /\ Len(ptx) \in Nat
  BY LenProperties DEF SessionTypeOK
<1>2. CASE UNCHANGED ptx
  BY <1>1, <1>2
<1>3. CASE StartServlet
  <2>1. PICK new : new = valueUnbound
    OBVIOUS
  <2>2. new \in Seq({"running", "ok", "failed"}) /\ Len(new) = Len(ptx)
    BY <2>1, ResultFacts DEF valueUnbound
  <2>3. Len(ptx') = Len(ptx) + 1
    BY <1>3, <2>1, <2>2, AtTheEnd DEF StartServlet
  <2> QED BY <1>1, <2>3
<1>4. CASE EndServlet(status)
  <2>1. PICK res \in {"ok", "failed"} : ptx' = setResult(cur, res)
    BY <1>4 DEF EndServlet
  <2> QED BY <1>1, <2>1, ResultFacts
<1>5. CASE Expire
  BY <1>1, <1>5, ResultFacts DEF Expire, valueUnbound
<1>6. CASE Begins \/ Starts \/ EndsPtx
  BY <1>2, <1>3, <1>4, <1>6 DEF Begins, Starts, EndsPtx, Quiet, SessionServlet
<1>7. CASE Steers \/ SendsNow \/ Waits \/ Passes \/ Tick \/ Stops \/ UNCHANGED sessionVars
  BY <1>2, <1>7 DEF Steers, SendsNow, Waits, Passes, Tick, Stops, Quiet, sessionVars, serverVars
<1>8. ASSUME NEW a \in Audit, _mon_process_ca(a) PROVE UNCHANGED ptx
  BY <1>8 DEF _mon_process_ca, serverVars
<1>9. ASSUME NEW k \in Nat, TookUp(k) PROVE UNCHANGED ptx
  BY <1>9 DEF TookUp, serverVars
<1>10. ASSUME NEW k \in DOMAIN hs, Moves(k) PROVE UNCHANGED ptx
  BY <1>10 DEF Moves, serverVars
<1>11. ASSUME NEW r \in Req, Lookup(r) \/ Commit(r) PROVE UNCHANGED ptx
  BY <1>11 DEF Lookup, Commit, Touch, serverVars
<1> QED BY <1>2, <1>5, <1>6, <1>7, <1>8, <1>9, <1>10, <1>11 DEF Kinds

(* Nothing the monitor has issued gets out of its hands unsettled.         *)
LEMMA IssuedKept ==
    ASSUME SessionTypeOK, Bookkeeping, Handed, Issued, Kinds
    PROVE  Issued'
<1> DEFINE InHand(r) == Settled(r) \/ InTodo(r) \/ Carried(r)
<1>1. /\ of \in [Req -> Nat] /\ nstarted \in Nat
      /\ srv \in [Req -> {"no", "arrived", "looked", "stored", "refused"}]
      /\ Len(ptx) \in Nat /\ Len(ptx') \in Nat /\ Len(ptx) <= Len(ptx')
  BY PtxGrows, SessionConstantsOK DEF SessionTypeOK
<1>2. /\ \A r \in Req : of[r] = 0 => srv[r] = "no" /\ r \notin failed
      /\ \A a \in Uploadable : of[<<a, "file">>] # 0 => of[<<a, "audit">>] # 0
      /\ \A r \in Req : of[r] # 0 => of[r] <= Len(ptx)
      /\ \A r \in Req : ~Gone /\ of[r] # 0 => InHand(r)
  BY DEF Issued
<1>3. ASSUME of' = of,
             \A r \in Req : of[r] = 0 => srv'[r] = "no" /\ r \notin failed',
             \A r \in Req : ~Gone' /\ of[r] # 0 => InHand(r)'
      PROVE  Issued'
  <2>1. \A r \in Req : of[r] # 0 => of[r] <= Len(ptx')
    BY <1>1, <1>2
  <2> QED BY <1>2, <1>3, <2>1 DEF Issued
<1>4. ASSUME of' = of, srv' = srv, failed' = failed,
             Gone' \/ (~Gone /\ UNCHANGED <<todo, hs>>)
      PROVE  Issued'
  <2>1. ASSUME NEW r \in Req, InHand(r), UNCHANGED <<todo, hs>> PROVE InHand(r)'
    BY <1>4, <2>1 DEF Settled, InTodo, Carried, Active
  <2> QED BY <1>2, <1>3, <1>4, <2>1
<1> HIDE DEF InHand
<1>5. CASE Begins \/ Starts \/ EndsPtx \/ Stops
  <2>1. UNCHANGED <<of, srv, failed>>
    BY <1>5 DEF Begins, Starts, EndsPtx, Stops
  <2>2. Gone' \/ (~Gone /\ UNCHANGED <<todo, hs>>)
    BY <1>5 DEF Begins, Starts, EndsPtx, Stops, Goes, Die, Ends, Gone
  <2> QED BY <1>4, <2>1, <2>2
<1>6. CASE Steers
  BY <1>4, <1>6 DEF Steers, Gone
<1>7. CASE Passes
  BY <1>4, <1>7 DEF Passes, Gone, clientVars
<1>8. CASE Tick \/ Expire \/ UNCHANGED sessionVars
  BY <1>4, <1>8 DEF Tick, Expire, Gone, clientVars, sessionVars
<1>9. ASSUME NEW a \in Audit, _mon_process_ca(a) PROVE Issued'
  <2> DEFINE R == Requests(a)
  <2>1. /\ pc = "loop" /\ ~NoPtx /\ nstarted > 0 /\ todo' = R
        /\ of' = [r \in Req |-> IF \E k \in DOMAIN R : R[k] = r THEN nstarted ELSE of[r]]
        /\ UNCHANGED <<hs, srv, failed, ptx>>
    BY <1>9 DEF _mon_process_ca, NoPtx, serverVars
  <2>2. /\ \A i \in DOMAIN R : R[i] = <<a, "audit">> \/ R[i] = <<a, "file">>
        /\ \E i \in DOMAIN R : R[i] = <<a, "audit">>
    BY DEF Requests
  <2> HIDE DEF R
  <2>3. nstarted = Len(ptx)
    BY <2>1 DEF Bookkeeping
  <2>4. \A r \in Req : of'[r] \in {of[r], nstarted} /\ (of[r] # 0 => of'[r] # 0)
    BY <2>1
  <2>5. \A r \in Req : of'[r] # of[r] => InTodo(r)'
    BY <2>1 DEF InTodo
  <2>6. \A r \in Req : of'[r] = 0 => srv'[r] = "no" /\ r \notin failed'
    BY <1>2, <2>1, <2>4
  <2>7. \A r \in Req : of'[r] # 0 => of'[r] <= Len(ptx')
    BY <1>1, <1>2, <2>1, <2>3, <2>4
  <2>8. ASSUME NEW r \in Req, of'[r] # 0 PROVE InHand(r)'
    <3>1. CASE of'[r] # of[r]
      BY <2>5, <3>1 DEF InHand
    <3>2. CASE of'[r] = of[r]
      <4>1. InHand(r)
        BY <1>2, <2>1, <2>8, <3>2 DEF Gone
      <4>2. todo = <<>>
        BY <2>1 DEF Handed
      <4>3. ~InTodo(r)
        BY <4>2 DEF InTodo
      <4>4. Settled(r)' \/ Carried(r)'
        BY <2>1, <4>1, <4>3 DEF InHand, Settled, Carried, Active
      <4> QED BY <4>4 DEF InHand
    <3> QED BY <3>1, <3>2
  <2>9. ASSUME NEW b \in Uploadable, of'[<<b, "file">>] # 0 PROVE of'[<<b, "audit">>] # 0
    <3>1. b \in Audit /\ <<b, "audit">> \in Req /\ <<b, "file">> \in Req
      BY RequestFacts, SessionConstantsOK
    <3>2. CASE of'[<<b, "file">>] = of[<<b, "file">>]
      BY <1>2, <2>4, <2>9, <3>1, <3>2
    <3>3. CASE of'[<<b, "file">>] # of[<<b, "file">>]
      <4>1. b = a
        BY <2>1, <2>2, <3>1, <3>3
      <4> QED BY <2>1, <2>2, <3>1, <4>1
    <3> QED BY <3>2, <3>3
  <2> QED BY <2>6, <2>7, <2>8, <2>9 DEF Issued, InHand
<1>10. CASE SendsNow
  <2>1. PICK r : r = Head(todo)
    OBVIOUS
  <2>2. pc = "upload" /\ UNCHANGED <<of, nstarted>>
    BY <1>10 DEF SendsNow
  <2>3. NextRequest(r)
    BY <2>1, <2>2, NextRequestFacts
  <2>4. \A x \in Req : x # r => srv'[x] = srv[x] /\ (x \in failed' <=> x \in failed)
    BY <1>1, <1>10, <2>1 DEF SendsNow
  <2>5. r \in Req /\ of[r] # 0
    BY <1>1, <2>3 DEF NextRequest, Waiting
  <2>6. Settled(r)'
    BY <1>1, <1>10, <2>1, <2>5 DEF SendsNow, Settled
  <2>7. ASSUME NEW x \in Req, ~Gone', of[x] # 0 PROVE InHand(x)'
    <3>1. CASE x = r
      BY <2>6, <3>1 DEF InHand
    <3>2. CASE x # r
      <4>1. Rest /\ UNCHANGED hs
        BY <1>10, <2>7 DEF SendsNow, Die, Ends, Gone
      <4>2. InTodo(x) => InTodo(x)'
        BY <2>1, <2>2, <2>4, <3>2, <4>1, RestKept
      <4>3. InHand(x)
        BY <1>2, <2>2, <2>7 DEF Gone
      <4>4. (Settled(x) => Settled(x)') /\ (Carried(x) => Carried(x)')
        BY <2>4, <3>2, <4>1 DEF Settled, Carried, Active
      <4> QED BY <4>2, <4>3, <4>4 DEF InHand
    <3> QED BY <3>1, <3>2
  <2> QED BY <1>2, <1>3, <2>2, <2>4, <2>5, <2>7
<1>11. CASE Waits
  <2>1. /\ UNCHANGED <<of, srv, failed, todo>> /\ pc = "upload"
        /\ DOMAIN hs \subseteq DOMAIN hs' /\ \A j \in DOMAIN hs : hs'[j] = hs[j]
    BY <1>11 DEF Waits
  <2>2. ASSUME NEW r \in Req, of[r] # 0 PROVE InHand(r)'
    <3>1. InHand(r)
      BY <1>2, <2>1, <2>2 DEF Gone
    <3> QED BY <2>1, <3>1 DEF InHand, Settled, InTodo, Carried, Active
  <2> QED BY <1>2, <1>3, <2>1, <2>2
<1>12. ASSUME NEW k \in Nat, TookUp(k) PROVE Issued'
  <2>1. PICK r : r = Head(todo)
    OBVIOUS
  <2>2. /\ pc \in {"upload", "pump"} /\ Rest /\ UNCHANGED <<nstarted, of, srv>>
        /\ DOMAIN hs' = DOMAIN hs \cup {k}
        /\ k \in DOMAIN hs => ~Active(hs[k])
        /\ \A j \in DOMAIN hs : j # k => hs'[j] = hs[j]
        /\ \/ hs'[k].st = "queued" /\ hs'[k].req = r /\ failed' = failed
           \/ hs'[k].st = "leaked" /\ failed' = failed \cup {r}
    BY <1>12, <2>1 DEF TookUp
  <2>3. NextRequest(r)
    BY <2>1, <2>2, NextRequestFacts
  <2>4. \A x \in Req : x # r => srv'[x] = srv[x] /\ (x \in failed' <=> x \in failed)
    BY <2>2
  <2>5. r \in Req /\ of[r] # 0
    BY <1>1, <2>3 DEF NextRequest, Waiting
  <2>6. InHand(r)'
    BY <2>2 DEF InHand, Settled, Carried, Active
  <2>7. ASSUME NEW x \in Req, x # r, of[x] # 0 PROVE InHand(x)'
    <3>1. InHand(x)
      BY <1>2, <2>2, <2>7 DEF Gone
    <3>2. InTodo(x) => InTodo(x)'
      BY <2>1, <2>2, <2>4, <2>7, RestKept
    <3>3. Settled(x) => Settled(x)'
      BY <2>4, <2>7 DEF Settled
    <3>4. Carried(x) => Carried(x)'
      BY <2>2 DEF Carried, Active
    <3> QED BY <3>1, <3>2, <3>3, <3>4 DEF InHand
  <2> QED BY <1>2, <1>3, <2>2, <2>4, <2>5, <2>6, <2>7
<1>13. ASSUME NEW k \in DOMAIN hs, Moves(k) PROVE Issued'
  <2>1. PICK r : r = hs[k].req
    OBVIOUS
  <2>2. /\ UNCHANGED <<pc, nstarted, todo, of>> /\ Active(hs[k]) /\ r \in Req
        /\ DOMAIN hs' = DOMAIN hs /\ hs'[k].req = r
        /\ \A j \in DOMAIN hs : j # k => hs'[j] = hs[j]
        /\ \A x \in Req : x # r => srv'[x] = srv[x] /\ (x \in failed' <=> x \in failed)
        /\ \/ hs'[k].st = "sent"
           \/ r \in failed'
           \/ srv'[r] \in {"stored", "refused"}
        /\ Pumping
    BY <1>1, <1>13, <2>1 DEF Moves
  <2>3. of[r] # 0
    BY <1>1, <2>1, <2>2 DEF Handed, OnItsWay
  <2>4. InHand(r)'
    BY <2>2 DEF InHand, Settled, Carried, Active
  <2>5. ASSUME NEW x \in Req, x # r, of[x] # 0 PROVE InHand(x)'
    <3>1. InHand(x)
      BY <1>2, <2>2, <2>5 DEF Gone, Pumping
    <3>2. (InTodo(x) => InTodo(x)') /\ (Settled(x) => Settled(x)')
      BY <2>2, <2>5 DEF InTodo, Settled
    <3>3. Carried(x) => Carried(x)'
      BY <2>1, <2>2, <2>5 DEF Carried, Active
    <3> QED BY <3>1, <3>2, <3>3 DEF InHand
  <2> QED BY <1>2, <1>3, <2>2, <2>3, <2>4, <2>5
<1>14. ASSUME NEW r \in Req, Lookup(r) \/ Commit(r) PROVE Issued'
  <2>1. /\ UNCHANGED <<pc, todo, hs, of, failed>>
        /\ srv[r] \notin {"no", "stored", "refused"}
        /\ \A x \in Req : x # r => srv'[x] = srv[x]
    BY <1>1, <1>14 DEF Lookup, Commit, clientVars
  <2>2. of[r] # 0
    BY <1>2, <2>1
  <2>3. ASSUME NEW x \in Req, ~Gone', of[x] # 0 PROVE InHand(x)'
    <3>1. InHand(x)
      BY <1>2, <2>1, <2>3 DEF Gone
    <3>2. Settled(x) => Settled(x)'
      BY <2>1 DEF Settled
    <3>3. (InTodo(x) => InTodo(x)') /\ (Carried(x) => Carried(x)')
      BY <2>1 DEF InTodo, Carried, Active
    <3> QED BY <3>1, <3>2, <3>3 DEF InHand
  <2> QED BY <1>2, <1>3, <2>1, <2>2, <2>3
<1> QED BY <1>5, <1>6, <1>7, <1>8, <1>9, <1>10, <1>11, <1>12, <1>13, <1>14 DEF Kinds

-----------------------------------------------------------------------------
(* What arrives where *)

Faithful == Belongs /\ CompletePtx /\ NoneRefused

(* Between PTXs everything is settled: nothing is still with the server    *)
(* but what the monitor gave up.                                           *)
LEMMA AllSettled ==
    ASSUME SessionTypeOK, Handed, Issued, pc = "start" \/ (pc = "drain" /\ Drained)
    PROVE  \A r \in Req : r \in failed \/ srv[r] \in {"no", "stored", "refused"}
<1>1. \A r \in Req : ~InTodo(r)
  BY EmptySeq DEF Handed, InTodo
<1>2. \A k \in DOMAIN hs : ~Active(hs[k])
  <2>1. CASE pc = "start"
    BY <2>1 DEF Handed, OnItsWay, Busy
  <2>2. CASE Drained
    BY <2>2, DrainedFacts DEF SessionTypeOK
  <2> QED BY <2>1, <2>2
<1>3. \A r \in Req : ~Carried(r)
  BY <1>2 DEF Carried
<1> QED BY <1>1, <1>3 DEF Issued, Settled, Gone

(* A new PTX, and the end of a session, make no PTX successful.            *)
LEMMA NoneSucceeds ==
    ASSUME SessionTypeOK, StartServlet \/ Expire
    PROVE  /\ \A i \in DOMAIN ptx' : ptx'[i] = "ok" => i \in DOMAIN ptx /\ ptx[i] = "ok"
           /\ \A i \in DOMAIN ptx : ptx'[i] = "ok" => ptx[i] = "ok"
<1>1. ptx \in Seq({"running", "ok", "failed"}) /\ Len(ptx) \in Nat /\ DOMAIN ptx = 1 .. Len(ptx)
  BY LenProperties DEF SessionTypeOK
<1>2. PICK new : new = valueUnbound
  OBVIOUS
<1>3. /\ new \in Seq({"running", "ok", "failed"}) /\ Len(new) = Len(ptx) /\ DOMAIN new = DOMAIN ptx
      /\ \A i \in DOMAIN ptx : new[i] = "ok" => ptx[i] = "ok"
  BY <1>2, ResultFacts DEF valueUnbound
<1>4. CASE StartServlet
  <2>1. ptx' = Append(new, "running")
    BY <1>2, <1>4 DEF StartServlet
  <2>2. /\ DOMAIN ptx' = 1 .. Len(ptx) + 1 /\ ptx'[Len(ptx) + 1] = "running"
        /\ \A i \in DOMAIN ptx : ptx'[i] = new[i]
    BY <1>3, <2>1, AtTheEnd
  <2> QED BY <1>1, <1>3, <2>2
<1>5. CASE Expire
  BY <1>2, <1>3, <1>5 DEF Expire
<1> QED BY <1>4, <1>5

(* Every request that does not fail is stored in the PTX it was issued     *)
(* for, before that PTX counts as successful.                              *)
LEMMA FaithfulKept ==
    ASSUME SessionTypeOK, Bookkeeping, Handed, Issued, Faithful, Kinds
    PROVE  Faithful'
<1>1. /\ of \in [Req -> Nat] /\ nstarted \in Nat /\ into \in [Req -> 0 .. Len(ptx)]
      /\ srv \in [Req -> {"no", "arrived", "looked", "stored", "refused"}]
      /\ ptx \in Seq({"running", "ok", "failed"}) /\ Len(ptx) \in Nat /\ DOMAIN ptx = 1 .. Len(ptx)
      /\ cur \in {0, Len(ptx)} /\ (cur # 0 => sess = "open" /\ ptx[cur] = "running")
  <2>1. ptx \in Seq({"running", "ok", "failed"}) /\ Len(ptx) \in Nat /\ DOMAIN ptx = 1 .. Len(ptx)
    BY LenProperties DEF SessionTypeOK
  <2>2. of \in [Req -> Nat] /\ nstarted \in Nat
    BY SessionConstantsOK DEF SessionTypeOK
  <2>3. into \in [Req -> 0 .. Len(ptx)]
    BY DEF SessionTypeOK
  <2>4. /\ srv \in [Req -> {"no", "arrived", "looked", "stored", "refused"}]
        /\ cur \in {0, Len(ptx)} /\ (cur # 0 => sess = "open" /\ ptx[cur] = "running")
    BY DEF SessionTypeOK
  <2> QED BY <2>1, <2>2, <2>3, <2>4
<1>2. Belongs /\ CompletePtx /\ NoneRefused
  BY DEF Faithful
<1>0. nstarted > 0 => nstarted # 0
  OBVIOUS
<1>3. \A r \in Req : srv[r] # "no" => of[r] # 0 /\ of[r] \in DOMAIN ptx
  <2> TAKE r \in Req
  <2> HAVE srv[r] # "no"
  <2>1. of[r] # 0 /\ of[r] <= Len(ptx)
    BY DEF Issued
  <2>2. of[r] \in Nat /\ Len(ptx) \in Nat
    BY <1>1
  <2>3. of[r] \in 1 .. Len(ptx)
    BY <2>1, <2>2
  <2> QED BY <1>1, <2>1, <2>3
<1>4. HasPtx => ~expired
  BY DEF HasPtx, Bookkeeping
<1>5. ASSUME UNCHANGED <<srv, into, of, failed, cur, ptx, expired>> PROVE Faithful'
  BY <1>2, <1>5 DEF Faithful, Belongs, CompletePtx, NoneRefused
<1>6. CASE Begins \/ Steers \/ Waits \/ Passes \/ Tick \/ Stops \/ UNCHANGED sessionVars
  BY <1>5, <1>6 DEF Begins, SessionServlet, Steers, Waits, Passes, Tick, Stops, Quiet,
                    sessionVars, clientVars, serverVars
<1>7. CASE Starts
  <2>1. UNCHANGED <<srv, into, of, failed>>
    BY <1>7 DEF Starts
  <2>2. CASE Quiet
    BY <1>5, <2>1, <2>2 DEF Quiet
  <2>3. CASE StartServlet
    <3>1. \A i \in DOMAIN ptx' : ptx'[i] = "ok" => i \in DOMAIN ptx /\ ptx[i] = "ok"
      BY <2>3, NoneSucceeds
    <3>2. \A r \in Req : r \in failed \/ srv[r] \in {"no", "stored", "refused"}
      BY <1>7, AllSettled DEF Starts
    <3>3. expired' = expired
      BY <2>3 DEF StartServlet
    <3> QED BY <1>2, <2>1, <3>1, <3>2, <3>3 DEF Faithful, Belongs, CompletePtx, NoneRefused
  <2> QED BY <1>7, <2>2, <2>3 DEF Starts
<1>8. CASE EndsPtx
  <2>1. UNCHANGED <<srv, into, of, failed>>
    BY <1>8 DEF EndsPtx
  <2>2. CASE Quiet
    BY <1>5, <2>1, <2>2 DEF Quiet
  <2>3. CASE HasPtx /\ EndServlet(status)
    <3>1. PICK res \in {"ok", "failed"} : ptx' = setResult(cur, res)
      BY <2>3 DEF EndServlet
    <3>2. DOMAIN ptx' = DOMAIN ptx /\ \A i \in DOMAIN ptx : i # cur => ptx'[i] = ptx[i]
      BY <3>1, ResultFacts
    <3>3. \A r \in Req : r \in failed \/ srv[r] \in {"no", "stored", "refused"}
      BY <1>8, AllSettled DEF EndsPtx
    <3>4. expired' = expired /\ ~expired /\ cur # 0
      BY <1>4, <2>3 DEF EndServlet, HasPtx
    <3>5. ASSUME NEW r \in Req, r \notin failed, of[r] = cur
          PROVE  srv[r] = "stored" /\ into[r] = cur
      <4>1. srv[r] # "no"
        <5>1. ~Gone /\ ~InTodo(r)
          BY <1>8, EmptySeq DEF EndsPtx, Gone, Handed, InTodo
        <5>2. \A k \in DOMAIN hs : ~Active(hs[k])
          BY <1>8, DrainedFacts DEF EndsPtx, SessionTypeOK
        <5>3. ~Carried(r)
          BY <5>2 DEF Carried
        <5>4. of[r] # 0
          BY <3>4, <3>5
        <5>5. Settled(r)
          BY <5>1, <5>3, <5>4 DEF Issued
        <5> QED BY <3>5, <5>5 DEF Settled
      <4>2. srv[r] # "refused"
        BY <1>2, <3>4, <3>5 DEF NoneRefused
      <4>3. srv[r] = "stored"
        BY <3>3, <3>5, <4>1, <4>2
      <4> QED BY <1>2, <3>5, <4>3 DEF Belongs
    <3>6. Belongs'
      BY <1>2, <2>1, <3>3 DEF Belongs
    <3>7. CompletePtx'
      BY <1>2, <2>1, <3>2, <3>5 DEF CompletePtx
    <3>8. NoneRefused'
      BY <1>2, <2>1, <3>4 DEF NoneRefused
    <3> QED BY <3>6, <3>7, <3>8 DEF Faithful
  <2> QED BY <1>8, <2>2, <2>3 DEF EndsPtx
<1>9. CASE Expire
  <2>1. UNCHANGED <<srv, into, of, failed>> /\ expired'
    BY <1>9 DEF Expire, clientVars
  <2>2. /\ \A i \in DOMAIN ptx' : ptx'[i] = "ok" => i \in DOMAIN ptx /\ ptx[i] = "ok"
        /\ \A i \in DOMAIN ptx : ptx'[i] = "ok" => ptx[i] = "ok"
    BY <1>9, NoneSucceeds
  <2>3. Belongs'
    BY <1>2, <1>3, <2>1, <2>2 DEF Belongs
  <2>4. CompletePtx'
    BY <1>2, <2>1, <2>2 DEF CompletePtx
  <2>5. NoneRefused'
    BY <2>1 DEF NoneRefused
  <2> QED BY <2>3, <2>4, <2>5 DEF Faithful
<1>10. ASSUME NEW a \in Audit, _mon_process_ca(a) PROVE Faithful'
  <2> DEFINE R == Requests(a)
  <2>1. /\ pc = "loop" /\ ~NoPtx /\ nstarted > 0 /\ of[<<a, "audit">>] = 0
        /\ of' = [r \in Req |-> IF \E k \in DOMAIN R : R[k] = r THEN nstarted ELSE of[r]]
        /\ UNCHANGED <<srv, into, failed, cur, ptx, expired>>
    BY <1>10 DEF _mon_process_ca, NoPtx, serverVars
  <2>2. \A i \in DOMAIN R : R[i] \in Req /\ (R[i] = <<a, "audit">> \/ (a \in Uploadable /\ R[i] = <<a, "file">>))
    BY RequestFacts DEF Requests
  <2> HIDE DEF R
  <2>3. \A r \in Req : of'[r] # of[r] => of[r] = 0 /\ of'[r] = nstarted
    BY <2>1, <2>2 DEF Issued
  <2>4. ptx[nstarted] # "ok"
    BY <2>1 DEF Bookkeeping, Busy
  <2>5. Belongs'
    BY <1>2, <1>3, <2>1, <2>3 DEF Belongs
  <2>6. CompletePtx'
    BY <1>2, <2>1, <2>3, <2>4 DEF CompletePtx
  <2>7. NoneRefused'
    BY <1>2, <2>1 DEF NoneRefused
  <2> QED BY <2>5, <2>6, <2>7 DEF Faithful
<1>11. CASE SendsNow
  <2>1. PICK r : r = Head(todo)
    OBVIOUS
  <2>2. pc = "upload" /\ UNCHANGED <<of, nstarted, cur, ptx, expired>>
    BY <1>11 DEF SendsNow, Quiet
  <2>3. NextRequest(r)
    BY <2>1, <2>2, NextRequestFacts
  <2>4. r \in Req /\ of[r] = nstarted /\ nstarted > 0 /\ ~NoPtx
    BY <2>2, <2>3 DEF NextRequest, Waiting, Bookkeeping
  <2>5. ptx[nstarted] # "ok" /\ (cur = nstarted \/ expired)
    BY <2>2, <2>4 DEF Bookkeeping, Busy
  <2>6. /\ \A x \in Req : x # r => srv'[x] = srv[x] /\ into'[x] = into[x] /\ (x \in failed' <=> x \in failed)
        /\ \/ srv'[r] = "stored" /\ HasPtx /\ into'[r] = cur
           \/ srv'[r] = "refused" /\ ~HasPtx
           \/ r \in failed'
    BY <1>1, <1>11, <2>1, <2>4 DEF SendsNow
  <2>7. (srv'[r] = "stored" /\ into'[r] = of[r]) \/ r \in failed' \/ (srv'[r] = "refused" /\ expired)
    <3>1. CASE srv'[r] = "stored" /\ HasPtx /\ into'[r] = cur
      BY <1>4, <2>4, <2>5, <3>1
    <3>2. CASE srv'[r] = "refused" /\ ~HasPtx
      <4>1. nstarted # 0
        BY <1>0, <2>4
      <4> QED BY <1>1, <2>5, <3>2, <4>1 DEF HasPtx
    <3> QED BY <2>6, <3>1, <3>2
  <2>8. Belongs'
    BY <1>2, <2>2, <2>6, <2>7 DEF Belongs
  <2>9. CompletePtx'
    BY <1>2, <2>2, <2>4, <2>5, <2>6 DEF CompletePtx
  <2>10. NoneRefused'
    BY <1>2, <2>2, <2>6, <2>7 DEF NoneRefused
  <2> QED BY <2>8, <2>9, <2>10 DEF Faithful
<1>12. ASSUME NEW k \in Nat, TookUp(k) PROVE Faithful'
  <2>1. UNCHANGED <<of, srv, into, cur, ptx, expired>> /\ failed \subseteq failed'
    BY <1>12 DEF TookUp, serverVars
  <2> QED BY <1>2, <2>1 DEF Faithful, Belongs, CompletePtx, NoneRefused
<1>13. ASSUME NEW k \in DOMAIN hs, Moves(k) PROVE Faithful'
  <2>1. PICK r : r = hs[k].req
    OBVIOUS
  <2>2. /\ UNCHANGED <<of, into, cur, ptx, expired>> /\ Active(hs[k]) /\ r \in Req
        /\ failed \subseteq failed'
        /\ \A x \in Req : x # r => srv'[x] = srv[x]
        /\ srv'[r] = srv[r] \/ srv'[r] = "arrived" \/ (srv'[r] = "no" /\ r \in failed')
    BY <1>1, <1>13, <2>1 DEF Moves, serverVars
  <2>3. Busy /\ of[r] = nstarted /\ nstarted > 0
    BY <2>1, <2>2 DEF Handed, OnItsWay
  <2>4. ~NoPtx
    <3>1. nstarted # 0
      BY <1>0, <2>3
    <3>2. Len(ptx) # 0
      <4>1. nstarted <= Len(ptx)
        BY <2>2, <2>3, <3>1 DEF Issued
      <4>2. Len(ptx) \in Nat /\ nstarted \in Nat
        BY <1>1
      <4> QED BY <3>1, <4>1, <4>2
    <3> QED BY <3>2, EmptySeq DEF Bookkeeping
  <2>5. ptx[nstarted] # "ok" /\ (cur = nstarted \/ expired)
    BY <2>3, <2>4 DEF Bookkeeping
  <2>6. Belongs'
    BY <1>2, <2>2, <2>3, <2>5 DEF Belongs
  <2>7. CompletePtx'
    BY <1>2, <2>2, <2>3, <2>5 DEF CompletePtx
  <2>8. NoneRefused'
    BY <1>2, <2>2 DEF NoneRefused
  <2> QED BY <2>6, <2>7, <2>8 DEF Faithful
<1>14. ASSUME NEW r \in Req, Lookup(r) PROVE Faithful'
  <2>1. /\ UNCHANGED <<of, failed, cur, ptx, expired>> /\ srv[r] = "arrived"
        /\ \A x \in Req : x # r => srv'[x] = srv[x] /\ into'[x] = into[x]
        /\ HasPtx => srv'[r] = "looked" /\ into'[r] = cur
        /\ ~HasPtx => srv'[r] = "refused"
    BY <1>1, <1>14 DEF Lookup, Touch, clientVars
  <2>2. r \notin failed => cur = of[r] \/ expired
    BY <1>2, <2>1 DEF Belongs
  <2>3. HasPtx /\ r \notin failed => into'[r] = of[r] /\ ptx[of[r]] # "ok"
    BY <1>1, <1>4, <2>1, <2>2 DEF HasPtx
  <2>4. ~HasPtx /\ r \notin failed => expired
    BY <1>1, <1>3, <2>1, <2>2 DEF HasPtx
  <2>5. Belongs'
    BY <1>2, <2>1, <2>3 DEF Belongs
  <2>6. CompletePtx'
    BY <1>2, <2>1 DEF CompletePtx
  <2>7. NoneRefused'
    BY <1>2, <2>1, <2>4 DEF NoneRefused
  <2> QED BY <2>5, <2>6, <2>7 DEF Faithful
<1>15. ASSUME NEW r \in Req, Commit(r) PROVE Faithful'
  <2>1. /\ UNCHANGED <<of, into, failed, cur, ptx, expired>> /\ srv[r] = "looked" /\ srv'[r] = "stored"
        /\ \A x \in Req : x # r => srv'[x] = srv[x]
    BY <1>1, <1>15 DEF Commit, clientVars, serverVars
  <2> QED BY <1>2, <2>1 DEF Faithful, Belongs, CompletePtx, NoneRefused
<1> QED BY <1>6, <1>7, <1>8, <1>9, <1>10, <1>11, <1>12, <1>13, <1>14, <1>15 DEF Kinds

-----------------------------------------------------------------------------
(* Theorems *)

(* SInv holds at the start.                                                *)
LEMMA SessionStarts == SessionInit => SInv
<1> SUFFICES ASSUME SessionInit PROVE SInv
  OBVIOUS
<1> USE SessionConstantsOK DEF SessionInit
<1>1. <<>> \in Seq(Req) /\ <<>> \in Seq(Handle) /\ <<>> \in Seq({"running", "ok", "failed"}) /\ Len(<<>>) = 0
  BY EmptySeq
<1>2. SessionTypeOK
  <2>1. again \in BOOLEAN /\ expired \in BOOLEAN /\ missed \in BOOLEAN
    BY Zenon
  <2>2. /\ opt \in Options /\ pc \in PC /\ sess \in {"none", "open", "gone"}
        /\ cur = 0 /\ ptx = <<>> /\ failed = {}
    BY DEF PC
  <2>3. /\ status \in 0 .. 1 /\ nstarted \in 0 .. MaxPtx
        /\ idle \in 0 .. Timeout /\ beat \in 0 .. Timeout /\ lag \in 0 .. PassMax
        /\ nfaults \in 0 .. MaxFaults
    OBVIOUS
  <2>4. ptx \in Seq({"running", "ok", "failed"}) /\ Len(ptx) = 0 /\ MaxPtx \in Nat
    BY <1>1, <2>2
  <2>5. todo \in Seq(Req) /\ hs \in Seq(Handle)
    BY <1>1
  <2>6. RequestsOK
    BY <1>1 DEF RequestsOK
  <2> HIDE DEF SessionInit
  <2>7. Len(ptx) <= MaxPtx
    BY <2>4
  <2> QED BY <2>1, <2>2, <2>3, <2>4, <2>5, <2>6, <2>7 DEF SessionTypeOK, RequestsOK
<1>3. Bookkeeping
  BY <1>1 DEF Bookkeeping, Busy, NoPtx
<1>4. Handed
  BY <1>1 DEF Handed
<1>5. Issued
  BY RequestFacts DEF Issued
<1>6. Belongs /\ CompletePtx /\ NoneRefused
  BY DEF Belongs, CompletePtx, NoneRefused
<1>7. Timers
  BY DEF Timers
<1> QED BY <1>2, <1>3, <1>4, <1>5, <1>6, <1>7 DEF SInv

(* SInv is inductive.                                                      *)
LEMMA SessionInductive == SInv /\ [SessionNext]_sessionVars => SInv'
<1> SUFFICES ASSUME SInv, [SessionNext]_sessionVars PROVE SInv'
  OBVIOUS
<1>1. SessionTypeOK /\ Bookkeeping /\ Handed /\ Issued /\ Faithful /\ Timers
  BY DEF SInv, Faithful
<1>2. Kinds
  BY <1>1, StepKinds
<1>3. SessionTypeOK' /\ Bookkeeping' /\ Handed' /\ Issued' /\ Faithful' /\ Timers'
  BY <1>1, <1>2, TypesKept, BookkeepingKept, HandedKept, IssuedKept, FaithfulKept, TimersKept
<1> QED BY <1>3 DEF SInv, Faithful

(* SInv holds for ever.                                                    *)
THEOREM SessionInvariant == SessionSpec => []SInv
  BY SessionStarts, SessionInductive, PTL DEF SessionSpec

(* The session and the PTXs are well formed, for any number of PTXs,       *)
(* audits, handles and faults: the current PTX is the last one and belongs *)
(* to an open session.                                                     *)
THEOREM SessionTypes == SessionSpec => []SessionTypeOK
<1>1. SInv => SessionTypeOK
  BY DEF SInv
<1> QED BY <1>1, SessionInvariant, PTL

(* mon_ptx_end() tells of a success only when the server has everything:   *)
(* a PTX that counts as successful is complete, but for failed transfers.  *)
THEOREM SuccessIsComplete == SessionSpec => []CompletePtx
<1>1. SInv => CompletePtx
  BY DEF SInv
<1> QED BY <1>1, SessionInvariant, PTL

(* No upload is turned away, unless the session has expired.               *)
THEOREM UploadsAccepted == SessionSpec => []NoneRefused
<1>1. SInv => NoneRefused
  BY DEF SInv
<1> QED BY <1>1, SessionInvariant, PTL

(* The heartbeat of run_cmd() keeps the session alive, for any timeout the *)
(* interval divides and any pass of the loop short enough.                 *)
THEOREM HeartbeatSuffices == SessionSpec => []KeptAlive
<1>1. SInv => KeptAlive
  BY DEF SInv, Timers, KeptAlive, NoPtx
<1> QED BY <1>1, SessionInvariant, PTL

(* Nothing that did not fail is added to a successful PTX.                 *)
THEOREM SuccessStays == SessionSpec => SuccessIsFinal
<1> DEFINE Final == \A r \in Req : srv[r] # "stored" /\ srv'[r] = "stored" =>
                        ptx[into'[r]] # "ok" \/ r \in failed
<1>1. ASSUME SInv, [SessionNext]_sessionVars PROVE [Final]_sessionVars
  <2>1. SessionTypeOK /\ Bookkeeping /\ Handed /\ Belongs
    BY <1>1 DEF SInv
  <2>2. Kinds
    BY <1>1, <2>1, StepKinds
  <2>3. /\ srv \in [Req -> {"no", "arrived", "looked", "stored", "refused"}]
        /\ into \in [Req -> 0 .. Len(ptx)]
        /\ cur # 0 => ptx[cur] = "running"
    BY <2>1 DEF SessionTypeOK
  <2>4. CASE \/ Begins \/ Starts \/ EndsPtx \/ Steers \/ Waits \/ Passes \/ Tick \/ Expire
             \/ Stops \/ UNCHANGED sessionVars
    BY <2>4 DEF Begins, Starts, EndsPtx, Steers, Waits, Passes, Tick, Expire, Stops, sessionVars
  <2>5. ASSUME NEW a \in Audit, _mon_process_ca(a) PROVE Final
    BY <2>5 DEF _mon_process_ca
  <2>6. CASE SendsNow
    BY <2>3, <2>6 DEF SendsNow, HasPtx
  <2>7. ASSUME NEW k \in Nat, TookUp(k) PROVE Final
    BY <2>7 DEF TookUp
  <2>8. ASSUME NEW k \in DOMAIN hs, Moves(k) PROVE Final
    BY <2>3, <2>8 DEF Moves
  <2>9. ASSUME NEW r \in Req, Lookup(r) PROVE Final
    BY <2>3, <2>9 DEF Lookup
  <2>10. ASSUME NEW r \in Req, Commit(r) PROVE Final
    <3>1. /\ srv[r] = "looked" /\ into' = into
          /\ \A x \in Req : x # r => srv'[x] = srv[x]
      BY <2>3, <2>10 DEF Commit
    <3> QED BY <2>1, <3>1 DEF Belongs
  <2> QED BY <2>2, <2>4, <2>5, <2>6, <2>7, <2>8, <2>9, <2>10 DEF Kinds
<1> QED BY <1>1, SessionInvariant, PTL DEF SessionSpec, SuccessIsFinal
=============================================================================
