------------------------------ MODULE Session ------------------------------
(***************************************************************************)
(* A project transaction (PTX) and its HTTP session.  The client side is   *)
(* the monitor: mon_begin_session(), mon_ptx_start() and mon_ptx_end() of  *)
(* src/mon.c, the uploads of src/up.c over libcurl's multi handle          *)
(* (src/http.c) and the heartbeat in run_cmd() of src/unix.c.  The server  *)
(* side is the servlets Session, Start, Audit, Upload, Ping and End.       *)
(*                                                                         *)
(* A request on the default handle is synchronous: the monitor waits for   *)
(* its answer, and the request is one step here.  Uploads are transfers of *)
(* the multi handle: they go on whenever the monitor pumps it, and the     *)
(* server serves each in a thread of its own, in two steps: it finds the   *)
(* current PTX of the session, and it commits.                             *)
(***************************************************************************)
EXTENDS Integers, Sequences, FiniteSets

CONSTANTS
    Audit,          \* the command audits the build may publish
    Uploadable,     \* the audits with a file to upload
    Options,        \* the settings of the properties to consider
    Faults,         \* the faults to consider, a subset of AllFaults
    MaxFaults,      \* bound: faults in one run of the monitor
    MaxPtx,         \* bound: PTXs in one run of the monitor
    TransferMax,    \* SIMULTANEOUS_TRANSFER_MAX
    Timeout,        \* P_SESSION_TIMEOUT_SECS, in ticks of the clock
    PassMax         \* the longest pass of the select loop, in ticks

Modes == {"full", "uploadOnly", "auditOnly", "downloadOnly", "noPtx"}

(* refuse: the server is not reached.  break: the connection is lost while *)
(* the server may go on with the request.  ping: a heartbeat is lost.      *)
(* crash: the monitor is killed.  file: an object cannot be opened.        *)
AllFaults == {"refuse", "break", "ping", "crash", "file"}

(* strict: P_STRICT_UPLOAD; sync: P_SYNCHRONOUS_TRANSFERS; activation: is  *)
(* P_ACTIVATION_PROG_RE set; reuse: P_REUSE_ROADMAP; prior: has the        *)
(* project a finished PTX, so that its roadmap is not empty; log: is a     *)
(* logfile uploaded.                                                       *)
OptionRecord ==
    [mode : Modes, strict : BOOLEAN, sync : BOOLEAN, activation : BOOLEAN,
     reuse : BOOLEAN, prior : BOOLEAN, log : BOOLEAN]

ASSUME SessionConstantsOK ==
    /\ Options \subseteq OptionRecord
    /\ Uploadable \subseteq Audit
    /\ Faults \subseteq AllFaults /\ MaxFaults \in Nat
    /\ MaxPtx \in Nat \ {0} /\ TransferMax \in Nat \ {0}
    /\ Timeout \in Nat \ {0} /\ Timeout % 4 = 0
    /\ PassMax \in Nat

(* A pass of the loop lasts at most the select() timeout, Timeout \div 4,  *)
(* and the work done in it, for which less than as much again is left.     *)
ASSUME PassIsShort == 2 * PassMax <= Timeout

Req == (Audit \X {"audit"}) \cup (Uploadable \X {"file"})

VARIABLES
    opt,       \* the properties of this run
    pc,        \* what the monitor is doing
    again,     \* in mon_ptx_end(): does another PTX follow?
    status,    \* ExitStatus
    nstarted,  \* PTXs mon_ptx_start() has started
    todo,      \* requests _mon_process_ca() has yet to issue
    hs,        \* the easy handles made for the multi handle
    sess,      \* the HTTP session: "none", "open" or "gone"
    cur,       \* CURRENT_PTX_ID of the session, 0 if there is none
    ptx,       \* the PTXs of the database: "running", "ok" or "failed"
    srv,       \* what the server has done with each request
    into,      \* the PTX a request was looked up to belong to
    of,        \* the PTX a request was issued for
    failed,    \* requests whose transfer failed, or whose file did
    idle,      \* ticks since the server saw the session
    beat,      \* ticks since last_heartbeat
    lag,       \* ticks since the last pass of the loop began
    expired,   \* did the session ever expire?
    missed,    \* was a heartbeat ever lost?
    nfaults    \* faults so far

clientVars == <<pc, again, status, nstarted, todo, hs, of>>
serverVars == <<sess, cur, ptx, idle, expired>>
sessionVars == <<opt, clientVars, serverVars, srv, into, failed, beat, lag, missed, nfaults>>

Handle == [st : {"new", "leaked", "queued", "sent", "done"}, req : Req,
           ok : BOOLEAN, hdr : BOOLEAN]
PC == {"init", "loop", "upload", "pump", "start", "drain", "over", "dead"}

(* The monitor pumps the multi handle: once per pass of the loop, when     *)
(* there are too many handles, and at the end of a PTX.                    *)
Pumping == pc \in {"loop", "pump", "drain"}

(* What may happen to a synchronous request.                               *)
Outcome == {"ok"} \cup (Faults \cap {"refuse", "break"})
Reaches(outcome) == outcome # "refuse"
Cost(outcome) == IF outcome = "ok" THEN 0 ELSE 1

(* A step with n faults in it.                                             *)
Faulty(n) == nfaults + n <= MaxFaults /\ nfaults' = nfaults + n
Fault(f) == f \in Faults /\ Faulty(1)

Running == Cardinality({h \in DOMAIN hs : hs[h].st \in {"queued", "sent"}})

-----------------------------------------------------------------------------
(* The servlets *)

(* PtxIdHolder.valueUnbound(): a PTX that leaves the session without       *)
(* having been completed is marked as failed; setResult() of Ptx does      *)
(* nothing when there is a result already.                                 *)
setResult(i, result) ==
    IF i # 0 /\ ptx[i] = "running" THEN [ptx EXCEPT ![i] = result] ELSE ptx

(* Mutant: the listener does not look after the PTX.                       *)
UnboundForgotten == ptx

valueUnbound == setResult(cur, "failed")

(* Session: a new session with the timeout the client asked for.           *)
SessionServlet ==
    /\ sess' = "open"
    /\ idle' = 0
    /\ UNCHANGED <<cur, ptx, expired>>

(* Start: a new PTX becomes the session's current one.                     *)
StartServlet ==
    /\ ptx' = Append(valueUnbound, "running")
    /\ cur' = Len(ptx) + 1
    /\ idle' = 0
    /\ UNCHANGED <<sess, expired>>

(* Mutant: the PTX stays bound to the session.                             *)
EndKeepsPtx(rc) ==
    /\ ptx' = setResult(cur, IF rc = 0 THEN "ok" ELSE "failed")
    /\ sess' = "gone"
    /\ UNCHANGED <<cur, idle, expired>>

(* End: the result is set, and the session is invalidated.                 *)
EndServlet(rc) ==
    /\ ptx' = setResult(cur, IF rc = 0 THEN "ok" ELSE "failed")
    /\ cur' = 0
    /\ sess' = "gone"
    /\ UNCHANGED <<idle, expired>>

(* Any other request, Ping and the failing ones included: retrieving the   *)
(* session is what keeps it alive.                                         *)
Touch == /\ idle' = IF sess = "open" THEN 0 ELSE idle
         /\ UNCHANGED <<sess, cur, ptx, expired>>

HasPtx == sess = "open" /\ cur # 0

(* Audit and Upload, first half: the session and its current PTX.  Without *)
(* one the request fails: status 200, with an X-Server-Status header.      *)
Lookup(r) ==
    /\ srv[r] = "arrived"
    /\ srv' = [srv EXCEPT ![r] = IF HasPtx THEN "looked" ELSE "refused"]
    /\ into' = [into EXCEPT ![r] = IF HasPtx THEN cur ELSE 0]
    /\ Touch
    /\ UNCHANGED <<opt, clientVars, failed, beat, lag, missed, nfaults>>

(* Audit and Upload, second half.                                          *)
Commit(r) ==
    /\ srv[r] = "looked"
    /\ srv' = [srv EXCEPT ![r] = "stored"]
    /\ UNCHANGED <<opt, clientVars, serverVars, into, failed, beat, lag, missed, nfaults>>

(* The container invalidates a session that was not used for too long.     *)
Expire ==
    /\ sess = "open" /\ idle >= Timeout
    /\ sess' = "gone"
    /\ ptx' = valueUnbound
    /\ cur' = 0
    /\ expired' = TRUE
    /\ UNCHANGED <<opt, clientVars, idle, srv, into, failed, beat, lag, missed, nfaults>>

-----------------------------------------------------------------------------
(* The monitor: session and PTX *)

(* The process ends, and its handles with it.                              *)
Ends(how) == pc' = how /\ todo' = <<>> /\ hs' = <<>>
Die == Ends("dead")
Goes(to) == pc' = to /\ UNCHANGED <<todo, hs>>

(* main() of aotool.c: the roadmap, unless it is reused or of no use, and  *)
(* then, "to avoid session expiration during roadmap-getting", the         *)
(* session; run_cmd() then enters its loop.  Without a PTX there is no     *)
(* session.                                                                *)
mon_begin_session ==
    /\ pc = "init"
    /\ \/ /\ opt.mode = "noPtx"
          /\ Goes("loop")
          /\ UNCHANGED <<serverVars, nfaults>>
       \/ /\ opt.mode # "noPtx"
          /\ \E outcome \in Outcome :
                /\ Faulty(Cost(outcome))
                /\ IF Reaches(outcome) THEN SessionServlet ELSE UNCHANGED serverVars
                /\ IF outcome = "ok" THEN Goes("loop") ELSE Die
    /\ UNCHANGED <<opt, again, status, nstarted, of, srv, into, failed, beat, lag, missed>>

(* run_cmd(): the SOA of a top command (MON_TOP).  There is one, unless    *)
(* commands activate the auditor by name: then each of them is a top       *)
(* command, and the PTX before it is ended first.                          *)
SOATop ==
    /\ pc = "loop"
    /\ nstarted = 0 \/ opt.activation
    /\ nstarted < MaxPtx
    /\ again' = (nstarted > 0)
    /\ pc' = IF nstarted > 0 THEN "drain" ELSE "start"
    /\ UNCHANGED <<opt, status, nstarted, todo, hs, of, serverVars, srv, into,
                   failed, beat, lag, missed, nfaults>>

(* An answer with X-Server-Status, or none, is fatal here.                 *)
mon_ptx_start ==
    /\ pc = "start"
    /\ \/ /\ opt.mode = "noPtx"
          /\ Goes("loop") /\ nstarted' = nstarted + 1
          /\ UNCHANGED <<serverVars, nfaults>>
       \/ /\ opt.mode # "noPtx"
          /\ \E outcome \in Outcome :
                LET accepted == Reaches(outcome) /\ sess = "open"
                IN  /\ Faulty(Cost(outcome))
                    /\ IF accepted THEN StartServlet ELSE UNCHANGED serverVars
                    /\ IF accepted /\ outcome = "ok"
                          THEN Goes("loop") /\ nstarted' = nstarted + 1
                          ELSE Die /\ UNCHANGED nstarted
    /\ UNCHANGED <<opt, again, status, of, srv, into, failed, beat, lag, missed>>

FirstFailure(rc) == IF status = 0 THEN rc ELSE status

(* mon_record() sets ExitStatus at the EOA of a top command, run_cmd() at  *)
(* a command that Strict.Download refuses.                                 *)
SetExitStatus(rc) ==
    /\ pc = "loop"
    /\ status' = FirstFailure(rc)
    /\ UNCHANGED <<opt, pc, again, nstarted, todo, hs, of, serverVars, srv, into, failed,
                   beat, lag, missed, nfaults>>

(* The top process has ended; run_cmd() leaves the loop for mon_ptx_end(). *)
ChildDone(rc) ==
    /\ pc = "loop"
    /\ status' = FirstFailure(rc)
    /\ again' = FALSE
    /\ pc' = "drain"
    /\ UNCHANGED <<opt, nstarted, todo, hs, of, serverVars, srv, into, failed,
                   beat, lag, missed, nfaults>>

(* Mutants: the loop ends with one transfer still active; nobody waits;    *)
(* handles that are done but not removed count as active.                  *)
DrainedButOne == Running <= 1
NoDrain == TRUE
AllRemoved == \A h \in DOMAIN hs : hs[h].st = "leaked"

(* http_async_transfer(1) of mon_ptx_end().                                *)
Drained == Running < 1

(* P_ROADMAPFILE has a value: mon_init() has taken it away if there is to  *)
(* be no shopping, shop_init() if the roadmap is empty.                    *)
HasRoadmap == opt.mode \notin {"uploadOnly", "auditOnly"} /\ opt.prior

Refresh == opt.activation /\ ~opt.reuse

Onward == IF again THEN Goes("start") ELSE Ends("over")

(* The synchronous upload of the logfile: a server that refuses it ends    *)
(* the monitor, a server that is not reached does not.                     *)
LogRefused(outcome) == opt.log /\ outcome = "ok" /\ ~HasPtx

(* END, whose answer is ignored.                                           *)
SendEnd(outcome) ==
    CASE ~Reaches(outcome) -> UNCHANGED serverVars
      [] Reaches(outcome) /\ HasPtx -> EndServlet(status)
      [] Reaches(outcome) /\ ~HasPtx -> Touch

(* The roadmap for a next cycle: fatal without a file to put it in.        *)
NoRoadmap(outcome) == Refresh /\ (~HasRoadmap \/ outcome # "ok")

(* mon_ptx_end(): drain, logfile, END, roadmap.                            *)
mon_ptx_end ==
    /\ pc = "drain"
    /\ Drained
    /\ \/ /\ opt.mode = "noPtx"
          /\ Onward
          /\ UNCHANGED <<serverVars, nfaults>>
       \/ /\ opt.mode # "noPtx"
          /\ LogRefused("ok")
          /\ Die
          /\ Touch
          /\ UNCHANGED nfaults
       \/ /\ opt.mode # "noPtx"
          /\ \E log, end, map \in Outcome :
                /\ ~opt.log => log = "ok"
                /\ ~Refresh => map = "ok"
                /\ Faulty(Cost(log) + Cost(end) + Cost(map))
                /\ ~LogRefused(log)
                /\ SendEnd(end)
                /\ IF NoRoadmap(map) THEN Die ELSE Onward
    /\ UNCHANGED <<opt, again, status, nstarted, of, srv, into, failed, beat, lag, missed>>

(* Mutant: as often as the session expires.                                *)
IntervalWhole == Timeout

heartbeat_interval == Timeout \div 2

(* A pass of the select loop, and the heartbeat that may be due in it.  A  *)
(* heartbeat that fails is not repeated before the next is due.            *)
Pass ==
    /\ pc = "loop"
    /\ lag' = 0
    /\ \/ /\ beat < heartbeat_interval
          /\ UNCHANGED <<beat, missed, serverVars, nfaults>>
       \/ /\ beat >= heartbeat_interval
          /\ beat' = 0
          /\ Touch
          /\ UNCHANGED <<missed, nfaults>>
       \/ /\ beat >= heartbeat_interval
          /\ beat' = 0
          /\ Fault("ping")
          /\ missed' = TRUE
          /\ UNCHANGED serverVars
    /\ UNCHANGED <<opt, clientVars, srv, into, failed>>

-----------------------------------------------------------------------------
(* The monitor: uploads *)

(* _mon_process_ca() for an audit with or without an uploadable file.      *)
Requests(a) ==
    IF a \in Uploadable /\ opt.mode \notin {"downloadOnly", "auditOnly"}
        THEN <<<<a, "audit">>, <<a, "file">>>> ELSE <<<<a, "audit">>>>

_mon_process_ca(a) ==
    /\ pc = "loop"
    /\ opt.mode # "noPtx" /\ nstarted > 0
    /\ of[<<a, "audit">>] = 0
    /\ todo' = Requests(a)
    /\ of' = [r \in Req |-> IF \E k \in DOMAIN Requests(a) : Requests(a)[k] = r THEN nstarted ELSE of[r]]
    /\ pc' = "upload"
    /\ UNCHANGED <<opt, again, status, nstarted, hs, serverVars, srv, into, failed,
                   beat, lag, missed, nfaults>>

IsFile(r) == r[2] = "file"
Rest == /\ todo' = Tail(todo)
        /\ pc' = IF Tail(todo) = <<>> THEN "loop" ELSE "upload"

(* With P_SYNCHRONOUS_TRANSFERS: the result of http_connect() is ignored,  *)
(* only the header of a refused file is seen.                              *)
SyncUpload ==
    LET r == Head(todo)
    IN  /\ pc = "upload" /\ opt.sync
        /\ \E outcome \in Outcome :
              /\ Faulty(Cost(outcome))
              /\ srv' = [srv EXCEPT ![r] = CASE ~Reaches(outcome) -> @
                                             [] Reaches(outcome) /\ HasPtx -> "stored"
                                             [] OTHER -> "refused"]
              /\ into' = [into EXCEPT ![r] = IF Reaches(outcome) /\ HasPtx THEN cur ELSE @]
              /\ IF Reaches(outcome) THEN Touch ELSE UNCHANGED serverVars
              /\ failed' = IF outcome = "ok" THEN failed ELSE failed \cup {r}
              /\ IF srv'[r] = "refused" /\ IsFile(r) /\ outcome = "ok"
                    THEN Die
                    ELSE Rest /\ UNCHANGED hs
        /\ UNCHANGED <<opt, again, status, nstarted, of, beat, lag, missed>>

(* A file that cannot be opened, or is empty, is given up with the handle  *)
(* in hand; anything else is added to the multi handle.  The handle keeps  *)
(* the header function an earlier file has left in it.                     *)
Filled(h, r) == [st |-> "queued", req |-> r, ok |-> FALSE, hdr |-> h.hdr \/ IsFile(r)]

Place(handles, k) ==
    LET r == Head(todo)
    IN  /\ \/ /\ hs' = [handles EXCEPT ![k] = Filled(@, r)]
              /\ UNCHANGED <<failed, nfaults>>
           \/ /\ IsFile(r) /\ Fault("file")
              /\ hs' = [handles EXCEPT ![k].st = "leaked"]
              /\ failed' = failed \cup {r}
        /\ Rest

(* Mutant: the handle is not removed from the multi handle, so that adding *)
(* it again has no effect.                                                 *)
ReuseUnremoved(k) ==
    /\ pc = "upload" /\ ~opt.sync
    /\ hs[k].st = "done"
    /\ Rest
    /\ UNCHANGED <<opt, again, status, nstarted, hs, of, serverVars, srv, into, failed,
                   beat, lag, missed, nfaults>>

(* http_async_get_free_curl_handle(): a handle that is done.  Only now is  *)
(* its result looked at.                                                   *)
ReuseHandle(k) ==
    /\ pc = "upload" /\ ~opt.sync
    /\ hs[k].st = "done"
    /\ IF opt.strict /\ ~hs[k].ok
          THEN Die /\ UNCHANGED <<failed, nfaults>>
          ELSE Place(hs, k)
    /\ UNCHANGED <<opt, again, status, nstarted, of, serverVars, srv, into, beat, lag, missed>>

(* ... or a new one, before which it pumps if there are too many.          *)
NewHandle ==
    LET new == [st |-> "new", req |-> Head(todo), ok |-> FALSE, hdr |-> FALSE]
        handles == Append(hs, new)
    IN  /\ pc = "upload" /\ ~opt.sync
        /\ \A k \in DOMAIN hs : hs[k].st # "done"
        /\ IF Len(handles) >= TransferMax
              THEN hs' = handles /\ pc' = "pump" /\ UNCHANGED <<todo, failed, nfaults>>
              ELSE Place(handles, Len(handles))
        /\ UNCHANGED <<opt, again, status, nstarted, of, serverVars, srv, into, beat, lag, missed>>

(* http_async_transfer(in_use / 2) returns.                                *)
Pumped ==
    /\ pc = "pump"
    /\ Running = 0 \/ Running < Len(hs) \div 2
    /\ Place(hs, Len(hs))
    /\ UNCHANGED <<opt, again, status, nstarted, of, serverVars, srv, into, beat, lag, missed>>

(* curl_multi_perform(): a transfer reaches the server, or cannot.         *)
Perform(k) ==
    /\ Pumping
    /\ hs[k].st = "queued"
    /\ \/ /\ hs' = [hs EXCEPT ![k].st = "sent"]
          /\ srv' = [srv EXCEPT ![hs[k].req] = "arrived"]
          /\ UNCHANGED <<failed, nfaults>>
       \/ /\ Fault("refuse")
          /\ hs' = [hs EXCEPT ![k].st = "done"]
          /\ failed' = failed \cup {hs[k].req}
          /\ UNCHANGED srv
    /\ UNCHANGED <<opt, pc, again, status, nstarted, todo, of, serverVars, into, beat, lag, missed>>

(* curl_multi_perform(): an answer is read.  http_find_errors() exits at   *)
(* the header of a failure; without it the transfer is a success.          *)
Receive(k) ==
    /\ Pumping
    /\ hs[k].st = "sent"
    /\ srv[hs[k].req] \in {"stored", "refused"}
    /\ IF srv[hs[k].req] = "refused" /\ hs[k].hdr
          THEN Die
          ELSE hs' = [hs EXCEPT ![k].st = "done", ![k].ok = TRUE] /\ UNCHANGED <<pc, todo>>
    /\ UNCHANGED <<opt, again, status, nstarted, of, serverVars, srv, into, failed,
                   beat, lag, missed, nfaults>>

(* curl_multi_perform(): the connection is lost.  The server may have the  *)
(* whole request, and goes on with it.                                     *)
Break(k) ==
    /\ Pumping /\ Fault("break")
    /\ hs[k].st = "sent"
    /\ hs' = [hs EXCEPT ![k].st = "done"]
    /\ failed' = failed \cup {hs[k].req}
    /\ \/ UNCHANGED srv
       \/ /\ srv[hs[k].req] = "arrived"
          /\ srv' = [srv EXCEPT ![hs[k].req] = "no"]
    /\ UNCHANGED <<opt, pc, again, status, nstarted, todo, of, serverVars, into, beat, lag, missed>>

-----------------------------------------------------------------------------
Gone == pc \in {"over", "dead"}

Crash ==
    /\ ~Gone
    /\ Fault("crash")
    /\ Die
    /\ UNCHANGED <<opt, again, status, nstarted, of, serverVars, srv, into, failed,
                   beat, lag, missed>>

(* Time passes.  A pass of the loop has its bound; the drain has none.     *)
AtMost(n, bound) == IF n < bound THEN n + 1 ELSE n

Tick ==
    /\ sess = "open" /\ idle < Timeout
    /\ pc \in {"loop", "upload", "pump", "start"} => lag < PassMax
    /\ idle' = idle + 1
    /\ beat' = IF Gone THEN beat ELSE AtMost(beat, Timeout)
    /\ lag' = IF Gone THEN lag ELSE AtMost(lag, PassMax)
    /\ UNCHANGED <<opt, clientVars, sess, cur, ptx, expired, srv, into, failed, missed, nfaults>>

(* The monitor has ended and its requests are served.                      *)
Finished ==
    /\ Gone /\ sess # "open"
    /\ \A r \in Req : srv[r] \notin {"arrived", "looked"}
    /\ UNCHANGED sessionVars

SessionInit ==
    /\ opt \in Options
    /\ pc = "init" /\ again = FALSE /\ status = 0 /\ nstarted = 0
    /\ todo = <<>> /\ hs = <<>>
    /\ sess = "none" /\ cur = 0 /\ ptx = <<>>
    /\ srv = [r \in Req |-> "no"]
    /\ into = [r \in Req |-> 0]
    /\ of = [r \in Req |-> 0]
    /\ failed = {}
    /\ idle = 0 /\ beat = 0 /\ lag = 0
    /\ expired = FALSE /\ missed = FALSE /\ nfaults = 0

Transfer(k) == Perform(k) \/ Receive(k) \/ Break(k)
UploadStep == SyncUpload \/ NewHandle \/ Pumped \/ \E k \in DOMAIN hs : ReuseHandle(k)
ServerStep == \E r \in Req : Lookup(r) \/ Commit(r)

SessionNext ==
    \/ mon_begin_session \/ SOATop \/ mon_ptx_start \/ mon_ptx_end
    \/ \E rc \in 0 .. 1 : SetExitStatus(rc) \/ ChildDone(rc)
    \/ \E a \in Audit : _mon_process_ca(a)
    \/ UploadStep
    \/ \E k \in DOMAIN hs : Transfer(k)
    \/ ServerStep
    \/ Pass \/ Tick \/ Expire \/ Crash \/ Finished

(* The monitor goes on with what it has begun, libcurl with every          *)
(* transfer, the server with every request; and time passes, so that the   *)
(* container sees to sessions that are out of use.  Nothing is assumed of  *)
(* the build.                                                              *)
SessionFairness ==
    /\ WF_sessionVars(UploadStep \/ mon_ptx_start \/ mon_ptx_end)
    /\ WF_sessionVars(\E k \in DOMAIN hs : Transfer(k))
    /\ WF_sessionVars(ServerStep)
    /\ WF_sessionVars(Gone /\ Tick)
    /\ WF_sessionVars(Expire)

SessionSpec == SessionInit /\ [][SessionNext]_sessionVars /\ SessionFairness

-----------------------------------------------------------------------------
(* Properties *)

(* The session and the PTXs of client and server are well formed: the      *)
(* current PTX is the last one and belongs to an open session.             *)
SessionTypeOK ==
    /\ opt \in Options
    /\ pc \in PC /\ again \in BOOLEAN /\ status \in 0 .. 1
    /\ nstarted \in 0 .. MaxPtx
    /\ todo \in Seq(Req) /\ hs \in Seq(Handle)
    /\ sess \in {"none", "open", "gone"}
    /\ ptx \in Seq({"running", "ok", "failed"}) /\ Len(ptx) <= MaxPtx
    /\ cur \in {0, Len(ptx)}
    /\ cur # 0 => sess = "open" /\ ptx[cur] = "running"
    /\ srv \in [Req -> {"no", "arrived", "looked", "stored", "refused"}]
    /\ into \in [Req -> 0 .. Len(ptx)]
    /\ of \in [Req -> 0 .. MaxPtx]
    /\ failed \subseteq Req
    /\ idle \in 0 .. Timeout /\ beat \in 0 .. Timeout /\ lag \in 0 .. PassMax
    /\ expired \in BOOLEAN /\ missed \in BOOLEAN /\ nfaults \in 0 .. MaxFaults

(* A PTX that counts as successful is complete: everything the monitor has *)
(* issued for it is stored in it, but for transfers that failed.           *)
CompletePtx ==
    \A i \in DOMAIN ptx : ptx[i] = "ok" =>
        \A r \in Req : of[r] = i => r \in failed \/ (srv[r] = "stored" /\ into[r] = i)

(* mon_ptx_end() tells the server of the end only when it has all it will  *)
(* get: no upload is turned away because its PTX or session has gone,      *)
(* unless the session has expired.                                         *)
NoneRefused == \A r \in Req : srv[r] = "refused" => expired \/ r \in failed

(* The heartbeat keeps the session alive for as long as the build lasts,   *)
(* whatever the build does, if no heartbeat is lost.                       *)
KeptAlive == pc = "loop" /\ opt.mode # "noPtx" /\ ~missed => sess = "open"

(* Nothing is added to a PTX once it counts as successful, unless the      *)
(* monitor gave the transfer up as failed: clients have it in a roadmap.   *)
SuccessIsFinal ==
    [][\A r \in Req : srv[r] # "stored" /\ srv'[r] = "stored" =>
           ptx[into'[r]] # "ok" \/ r \in failed]_sessionVars

(* No PTX stays undecided when its monitor has gone, however it has gone.  *)
PtxDecided == Gone ~> \A i \in DOMAIN ptx : ptx[i] # "running"

(* mon_ptx_end() gets through: no transfer keeps the monitor for ever.     *)
DrainEnds == (pc = "drain") ~> (pc # "drain")

(* mon_ptx_end() fetches a new roadmap "if there's a chance of another     *)
(* cycle": when the next top command begins its PTX, the session is there  *)
(* to begin it in, unless it has expired.                                  *)
NextPtxAccepted == pc = "start" /\ nstarted > 0 /\ ~expired => sess = "open"
=============================================================================
