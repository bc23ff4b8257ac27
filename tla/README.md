# A TLA+ model of Audited Objects (ao)

Audited Objects runs a build, records every file that every command of the build
reads or writes, and stores the result as *audit records*. This directory holds
TLA+ modules of its C client (`src/src/`) and of the part of its Java server
(`src/java/src/`) that a build talks to, TLC configurations that check them on small
instances, and TLAPS proofs about the monitor, builds under audit, shopping, sessions,
uploads and the auditor's threads.

## 1. The system

    ao (monitor)                                    audited processes
    run_cmd(): fork/exec of the top process  --->   program + auditor library
    select loop  <--- SOA / path actions / EOA ---  (LD_PRELOAD), one socket
                 ---- ack, close --------------->   per message, blocking
    mon_record(): table of audits, groups
        |  ca_publish(), ca_disband()
        v
    audit records --> output file, makefile, git
        |
        |  up.c over libcurl's multi handle; heartbeat; START, END
        v
    server: HTTP session with a current PTX, database, file containers

| Component | State | Operations | Hard behaviour |
|---|---|---|---|
| Monitor's table of audits (`mon.c`, `ca.c`) | `AuditHash` of CommandActions (CA), each with leader pointer, group hash, flags and path actions | `mon_record` for SOA, PA, EOA; `ca_start_group`, `ca_aggregate`, `ca_disband`, `ca_publish`; cleanup | one EOA for a chain of execs; groups broken up or closed with members pending; pointers into freed audits |
| Auditor (`libcommon.c`, `libunix.c`) | `CurrentCA`, temp file `AuditFD`, environment (`P_DEPTH`, `P_PCCODE`, `P_PCMDID`, `P_AGGREGATED_SUBCMD`) | init, SOA, record, flush, fork, system/popen, exec, exit | state copied by fork; exec that fails after the data was sent; kill; blocking on the monitor |
| Select loop (`unix.c`) | connections, `doneflag` | serve a connection, answer, stop on SIGCHLD, heartbeat | signal against pending connections; everyone waits on one thread |
| Path actions (`pa.c`, `ca.c`, `moment.c`) | raw dict ordered by `pa_cmp`, cooked dict by path | record, merge, coalesce | arrival in any order, hash scan order, time precision |
| Shopping (`shop.c`, `down.c`) | roadmap (cdb), dict of candidate PTXs with the marks of those evaluated, the last path sampled, the targets of the winner | take up an instance of the command line, read a line of prerequisites, compare a state, choose a winner, collect, coalesce and process targets | one dict for all instances; files that change meanwhile; downloads that fail half way; what other builds left at the target paths |
| Transactions and session (`mon.c`, `unix.c`, `http.c`) | session cookie, `Started`, `ExitStatus`, `last_heartbeat`, roadmap file | begin session, start PTX, drain and end PTX, refresh the roadmap, heartbeat | several top-level commands in one session; expiry of the session; END against uploads on their way; a monitor that dies |
| Transfers (`http.c`, `up.c`, `down.c`) | easy handles, multi handle | queue an upload, reuse a handle, pump, drain; download | completion in any order, a limit reached half way, lost connections, results looked at late |
| Server: sessions, PTXs and uploads (servlets `Session`, `Start`, `Audit`, `Upload`, `Ping`, `End`; `SessionHelper`, `DataService`, `FileDataContainer`) | sessions with `CURRENT_PTX_ID`, PTXs with result and counts, locks per PTX, containers | the servlets; expiry; `findAndLock`, `removeLocks`; `storeStream` | one thread per request; requests of a client that has gone; locks removed while others wait; two writers of one container |
| Data codes (`ps.c`, `code.c`) | dcode cache, off by default | stat, get/set cached dcode | stale cache entries |
| Properties, path names, utilities, makefile and git output, command line, Windows port, the server's queries and reports | | | not part of this project (reasons in PROJECT.json) |

What makes the core correct: every command and every path action of the build is
in exactly one record (or is dropped with a warning); groups and the pointers
between audits stay consistent; no finished audit is left behind; no process is
blocked for ever; a record says the last thing done to each path, whatever the
order of delivery; a command is recycled only if the files it would read are as they
were in the run that is reused, and then its targets are put in place, all of them; a
transaction that counts as successful has everything that was uploaded for it, and one
whose client has gone is marked as failed; threads of a program do not lose or double
what it did.

## 2. Modules

* **Monitor** - `mon_record()` and the group operations of `ca.c`. The variable
  `audits` is `AuditHash`, a function from keys (ccode, depth, cmdid) to CAs; `log`
  holds the records given to `_mon_process_ca()`; `seen`, `lost` and `skew` are
  history variables for the path actions received and the ones dropped with a
  "skew" warning. A path action is a token. `HandleSOA` and `HandleData` are the
  handlers; `SOA` and `Data` add the assumption the monitor makes of its clients
  (`Fresh`: no key twice, a command before the one exec'ed over it; no path action
  twice). As an auditor blocks until it is answered and the monitor reads a connection
  to its end before it handles any of it (`_read_available()`), one connection is one
  step. `Upstream` states the "swim upstream" loop as the least set closed under "the
  audit it was exec'ed over".
* **AuditLog** - what the monitor promises: records name commands that are reported
  nowhere else, at least one of which has ended, with exactly the path actions
  delivered for them. No groups, leaders or strengths. `Monitor!ImplementsAuditLog`
  is the refinement (an instance with `open`, `ended` and `records` computed from
  `audits` and `log`).
* **AuditedBuild** - extends Monitor with the processes of a build, the auditor in
  each and the select loop. A process is `run`ning, about to `exec`, `spawn`ed by
  libc, or blocked on the monitor (`soa`, `preexec`, `exit`). `conn` holds the messages on
  their way, at most one per process. `mem` and `file` are `CurrentCA`'s path actions
  and the temp file. The shopping result is any of `ShopResults`. `Kill` ends a process
  at any point, with any first part of what it was sending.
* **MCAuditedBuild** - process sets and symmetry for TLC.
* **PathActions** - `pa_cmp()`, `moment_cmp()`, `ca_record_pa()`, `ca_merge()`,
  `ca_coalesce()` and `ca_publish()` for one group; `dict_insert()` is kazlib's and is
  modelled from its use. A loop is a function of the number of its turns (`Merging`,
  `Cooking`, `Scanning`), so that what it leaves can be proved by induction.
* **Shop** - one call of `shop()`, from the point where the PTXs of the roadmap are in
  the dict. A roadmap is, for each instance of the command line (`cmdix`), what it read
  (`prq`) and wrote (`tgt`) in each PTX; `Lines` groups states by PTX list the way the
  server does. The dict is `ptx_dict`; keys in lower case are `seen`. One action reads a
  line of prerequisites, one compares a state to the file (`ps_stat`, `ps_diff`), one
  chooses the winner, one collects and coalesces its targets, and each target is one
  step: reused, downloaded, made (`mkdir`, `link`, `symlink`), or failed. `disk` holds
  type, time, contents and inode of what stands at each path, so that writing in place
  reaches all hard links. `Change` is any other process of the build, between any two
  steps. `was`, `wanted`, `changes` and `hardlinks` are history variables. `DOsInPlace`
  states what the documentation says.
* **MCShop** - the roadmaps and disks for TLC.
* **Session** - the monitor as a client of the server, and the server's side of it. A
  request on the default handle is one step (the client waits for the answer): the
  session, START, the logfile, END, the roadmap, a heartbeat. `todo` is what
  `_mon_process_ca()` has yet to issue: the audit, then its files (`pc = "upload"`).
  `hs` holds the easy handles: `queued` in the multi handle, `sent`, `done` (in it, with
  a message nobody has read), or `leaked` by a file that could not be opened. Handles move
  only while the monitor pumps (`Pumping`), in the loop, at `SIMULTANEOUS_TRANSFER_MAX`
  (`pc = "pump"`) and in the drain of `mon_ptx_end()`. The server takes each request in
  two steps, `Lookup` of the session's PTX and `Commit`, so that other requests come
  between. `sess`, `cur` and `ptx` are the session, its `CURRENT_PTX_ID` and the results
  of the PTXs; `opt` are the properties that steer the code. Time is counted in ticks:
  `idle` for the server, `beat` for `last_heartbeat`, `lag` for the pass of the loop.
  `of`, `into`, `failed`, `expired` and `missed` are history variables. A client that
  runs in `noPtx` mode (`Download.Only=2`) has no session.
* **MCSession** - the settings of the properties for TLC.
* **Upload** - the threads of the Upload servlet for one PTX. The synthetic locks of
  `DataService` are taken apart at each point where another thread may run: `Fetch`,
  `Acquire` or `Queue`, `Register`, and `removeLocks` at commit and again, in a step of
  its own (`Rollback`), for a request whose commit threw or whose connection broke.
  With `locking = "database"` the lock is the database's. A container is the set of
  blocks written; `Create` empties it. Any of the requests may never come (`absent`).
* **AuditorThreads** - the threads of one audited process: `mem` is `CurrentCA`, `file`
  and `unread` are the temp file and what is behind the offset of `AuditFD`, `mutex` and
  `xmutex` the two mutexes of `libunix.c`. What AuditedBuild does in one step (record,
  flush, fork, pre-exec, exit) is taken apart where another thread may come between.
  `exposed` collects the path actions that were touched in a gap without a lock: between
  the flush and the fork of another thread, or while another thread sends the temp file.
* **MonitorProofs** and **MonitorLogProofs**, **BuildProofs**, **PathProofs**,
  **ShopProofs**, **SessionProofs**, **UploadProofs**, **ThreadProofs** - the proofs about
  Monitor, AuditedBuild, PathActions, Shop, Session, Upload and AuditorThreads (section 4).

Definitions whose comment begins with "Mutant" are deliberately wrong variants of the
definition that follows. They are used by no specification; replacing the
definition by its variant must make a named property fail.

## 3. Runs

| Run | Instance | Checks |
|---|---|---|
| `build` | 3 processes that may outlive their parents, depths 0-1, a plain and a weak code | `BuildTypeOK`, `CompleteRecord`, `PredecessorFound`, `GroupIntegrity`, `ReportedOnce`, `EachPathActionOnce` |
| `hostile` | 2 processes, depths 0-2, weak, strong and break codes, one kill | `ExecChainSharesGroup`, `ClosedWaitsForLeader`, `StrongGroupHolds`, `MonitorContract` (AuditedBuild implements `Monitor!Spec`), `ImplementsAuditLog` |
| `liveness` | 2 processes, one kill, server with recycled, unmatched and aggregated results, strict downloads | `Released`, `BuildEnds` |
| `coalesce` | leader and 2 members, 3 path actions on 2 paths, reads, creates and unlinks at times that round to equal and different values | `PATypeOK`, `LastModificationWins`, `MergeOrderIrrelevant`, `WritesInOrder` |
| `shop` | 2 PTXs, 2 instances of the command line, 6 paths, one change by another process; where targets go there may be a file, a directory, a hard link or a symbolic link to nothing from another build | `ShopTypeOK`, `RecycledWasValid`, `DismissedForCause`, `TargetsInPlace`, `NoHalfTarget` |
| `session` | 2 audits, one with a file, up to 2 PTXs, 2 handles, one fault of any kind, all modes and each option | `SessionTypeOK`, `CompletePtx`, `NoneRefused`, `KeptAlive`, `SuccessIsFinal`, `PtxDecided`, `DrainEnds` |
| `upload` | up to 3 requests for one content of 2 blocks, both kinds of lock, one broken connection | `UploadTypeOK`, `CountedOfFew`, `WholeIfUnbroken`, `EachAnswered` |
| `threads` | 2 threads, 2 path actions each, 3 calls of fork, system, exec or exit | `ThreadTypeOK`, `NotLostNorDuplicated`, `WrappersReturn` |
| `symlink_followed`, `next_ptx`, `ptx_lock`, `half_container` | MCShop, MCSession, Upload | disagreements, see section 6 |

What they show. As long as no process is killed or ends before its children (`orphans`),
nothing is lost at all and every SOA meets its predecessor. Otherwise path actions of a child that
outlives the published audit are dropped with a warning ("PA skew"), and nothing worse
happens: `EachPathActionOnce` counts those in `lost`. `CompleteRecord` is false for
background processes, and this is the documented warning, not an error of the code.

Shopping is sound in the sense that one can ask of it while files change: a winner's
prerequisites have each been in the recorded state at some time since the call, and
every PTX that was dismissed had a prerequisite that was not. When downloads fail the
rest goes on, nothing half written stays behind and the command is not taken as
recycled. `TargetsInPlace` says that a command is taken as recycled only if each target
is in place, of its own type and with its contents. It is not true of every disk, and
what it leaves out is stated in it, one definition for each case:

* `NoneFollowed`: a symbolic link where a file is downloaded is followed (the run
  `symlink_followed`). `NoHalfTarget` leaves this out too.
* `NoneInTheWay`: a file, or a symbolic link to nothing, where a directory belongs stays
  there, and the target counts as done.
* `Separate`: if two paths are hard links of one file when `shop()` is called, a target
  written at one of them changes the other. `NoHalfTarget` leaves this out too.
* `LinksInOrder`: a target that is a hard link to a target which is itself a link, and
  comes after it in the order of paths, is linked to what an earlier build left there.

The disks and roadmaps of the run contain the last three cases, and without any one of
these hypotheses TLC finds the property false on them. Section 6 has the lines.

A record says of each path what was last done to it (`LastModificationWins`), by the
time stamps rounded off. Whether a file that was created and unlinked again is in the
record is left open (`Temporary`): the theory document says it is not, and the code
keeps the unlink (section 6).

A PTX that the server takes for successful has every audit and every file that the
monitor issued for it, except those whose transfer failed (`CompletePtx`): the drain of
`mon_ptx_end()` and the removal of a handle from the multi handle before it is filled
again are both needed. No upload is turned away because END came first (`NoneRefused`),
and a PTX does not change once it counts as successful (`SuccessIsFinal`), except by
a request the client had given up. However the monitor ends, its PTXs get a result
(`PtxDecided`): by END, by the next START in the session, or by its expiry.

With database locks every upload is counted; with synthetic locks it is if no more than
two requests come (`CountedOfFew`). Three can go wrong: that is `ptx_lock`. With
database locks every request is also answered. With synthetic ones a request is answered
unless the registration of the lock gets lost (`RegistrationLost`): with three requests,
one of which rolls back after its commit, a lock can stay locked and a thread wait for it
for ever, and TLC finds that behaviour if `EachAnswered` is stated without the exception
(section 6).
Two writers of one container do no harm, as both write the same bytes at the same place
and the file is only emptied before a writer's first block (`WholeIfUnbroken`); a broken
connection does (`half_container`).

The mutexes of the auditor do what the comment above `_audit_flush()` asks for, but only
for path actions outside the gaps (`exposed`). Inside them the loss and the duplication
that the comment warns of do happen: a path action recorded by another thread between
the flush and the fork is in both processes, and one written to the temp file between
the read of its end and `ftruncate()` is gone.

**Bounds.** `MaxAccess` bounds the path actions of a process, the one for its own
program (`OP_EXEC`) at each exec included, and so its execs; `Depths` bounds the command tree
(an exec that would go deeper is not taken); `MaxKills` the kills; `MaxPAs` the path
actions of a group. Three processes give a parent, a child and a sibling or
grandchild; depths 0 to 2 give an exec chain with a member above and below a group
boundary, which is what break-ups need. Three path actions are enough for a merge of
two members with a third entry between them. `Times` holds two stamps that are
equal after rounding to microseconds, the default precision, and one that is not.
Shop: two PTXs are the least with a line for one and a line for both; two instances the
least with a dict that was used before; the six paths are a source with a dcode, a
header without one, an ignored file, a target file, and links before and after it in
the order of paths. `MaxChanges` bounds the changes by other processes. In the
configurations `Strict.Download` and `Original.Datestamp` are off.
Session: `MaxFaults` bounds the faults of a run, `MaxPtx` the top commands; two handles
are enough for the limit (`TransferMax`) to be met with one transfer active and for a
handle to be used again. `Timeout` is 4 ticks, the least of which a half and a quarter
can be taken. Upload: three requests are one that commits or rolls back, one that holds
the lock and one that waits; two blocks let writers of one container overtake each other;
`MaxBreaks` bounds the broken connections. AuditorThreads: `MaxRecords` and `MaxCalls`
bound what the threads do; two threads suffice, as every lock and every gap is between
two.
Symmetry is over the processes other than the top one and is used in runs without
temporal properties only.

**Fairness.** Weak fairness of `Serve(p)` for each process: the loop is a single
thread that in every pass reads every connection `select()` reports, so a message
that was sent is handled. Weak fairness of `Stop`: SIGCHLD of the top process sets
`doneflag` in the handler. Processes of the build have no fairness: a program may run
for ever. `Stop` may happen as soon as the top process is gone, connections pending or
not; messages left then are answered by a reset (`Reset`).
Session: weak fairness of the monitor's uploads, starts and ends (one thread, which
does not leave them before they are done), of the transfers (libcurl is pumped in a loop
until they end; a peer that neither answers nor breaks is not considered), of the
server's threads, of expiry, and of time once the monitor has gone. Nothing is assumed
of the build. Upload: every thread of the container runs; a thread in the queue of a
`ReentrantLock` gets it when it is free. AuditorThreads: strong fairness for each thread
that is in the library, since it competes for a mutex that others take again and again;
pthread mutexes do not promise it, but no program records without end at every instant.

**Assumptions.** Pids are not reused within a build, as the comment at `ca.c:177`
accepts. An answer for a process that was killed is lost. A killed process leaves whole
lines. In a roadmap all states of a path have a dcode or none has: members of a
project always do, others if `Dcode.All` is set, and it is taken to be set alike in all
PTXs. Files are of one size, the case that `ps_diff()` finds hardest; a symbolic link
does not lead to another one; parent directories exist. A pass of
the select loop is at most half the session timeout (`PassIsShort`: `select()` waits a
quarter at most, the rest is for the work of the pass, shopping and pumping included);
`KeptAlive` depends on it, and on no heartbeat being lost. Ticks of server and client
are alike. A program does not call `exit()` from two threads at once. The server leaves unlinks out of
the roadmap (`RoadMapDB.java:110`), so no target is one. The environment of the top process has depth 0 and no parent code
(`aotool.c:1213-1227`).

## 4. Proofs

Eight modules of proofs, all checked by TLAPS. Each theorem holds for every value of
the constants that satisfies the named assumptions of its module (`ConstantsOK` and the
like), which TLC evaluates in the runs. Each inductive invariant was checked by TLC on the
instance of its run before it was proved.

| Module | Theorem | States |
|---|---|---|
| MonitorProofs | `Inductive` | `IInv` |
| | `TypeCorrect`, `Grouping`, `NoneLeftBehind`, `OneGroupPerChain` | `TypeOK`, `GroupIntegrity`, `ClosedWaitsForLeader`, `ExecChainSharesGroup` |
| MonitorLogProofs | `CommandsReportedOnce`, `PathActionsKept` | `ReportedOnce`, `EachPathActionOnce` |
| | `StrongGroups` | the action property `StrongGroupHolds` |
| | `ImplementsLog` | the refinement `ImplementsAuditLog` |
| BuildProofs | `BuildInvariant`, `WaitingInvariant` | `IInv`, `LInv`, `BInv`; with them `TInv`, `WInv`, `CInv` |
| | `BuildTypes` | `BuildTypeOK` |
| | `ContractKept` | the refinement `MonitorContract` (`BuildSpec => Spec`) |
| | `BuildGuarantees` | the properties of Monitor above, of `BuildSpec` |
| | `PredecessorIsFound`, `RecordIsComplete` | `kills = 0 => PredecessorFound`, `kills = 0 => CompleteRecord` |
| PathProofs | `PathInvariant` | `PAInv` |
| | `PathTypes` | `PATypeOK` |
| | `WritesKeepOrder`, `LastModificationRecorded`, `AnyMergeOrder` | `Roundoff > 1` gives `WritesInOrder`, `LastModificationWins`, `MergeOrderIrrelevant` |
| ShopProofs | `RecyclingSound`, `DismissalSound` | `RecycledWasValid`, `DismissedForCause` |
| | `ShopTypes` | `ShopTypeOK` |
| | `NothingHalfDone`, `RecycledInPlace` | `NoHalfTarget`, `TargetsInPlace` |
| SessionProofs | `SessionInvariant` | `SInv` |
| | `SessionTypes`, `SuccessIsComplete`, `UploadsAccepted`, `HeartbeatSuffices` | `SessionTypeOK`, `CompletePtx`, `NoneRefused`, `KeptAlive` |
| | `SuccessStays` | the action property `SuccessIsFinal` |
| UploadProofs | `UploadTypes`, `ContentsWhole` | `UploadTypeOK`, `WholeIfUnbroken` |
| | `FewCounted` | `CountedOfFew` |
| | `DatabaseLocksHold` | `locking = "database" => ~RegistrationLost` |
| ThreadProofs | `ThreadInvariant` | `TInv` |
| | `ThreadTypes`, `StateIsKept` | `ThreadTypeOK`, `NotLostNorDuplicated` |

**The monitor's groups** (MonitorProofs): any set of codes, pids, depths and path
actions, any regular expressions and each of the three aggregation styles. `IInv` is
`TypeOK` and, for the table `audits`: leader pointers and group hashes agree (`LeaderOK`,
`GroupOK`), a closed audit waits for an open leader (`WaitsForLeader`), and along an exec
chain an audit belongs to the group of the next command of that process or to none
(`SharesGroup`).
The last conjunct is what makes the others inductive. An EOA closes all audits of a
chain but looks at one group only, that of the command which sent it (`ldr`). Were
another group's leader in the chain, it would be closed without its group being
published, and its members would wait for ever. `SharesGroup` excludes that; an SOA
preserves it because an exec predecessor is always found first (`PredFacts`), and its
group is either joined or broken up (`NotJoined`, `PlacedGood`). The lemmas follow the
handlers: `RecordedGood`, `EndedFacts`, `GoneFacts`, `EndedGood` for data and EOA;
`DisbandGood`, `WithGood`, `JoinGood`, `PlacedCases`, `PlacedGood` for an SOA; `SOAStep`
and `DataStep` combine them. `UpNotSelf` needs `Depths \subseteq Nat`, the only use of
arithmetic.

**The monitor's records** (MonitorLogProofs). The SOA that breaks up a group and the EOA
are the two steps that make records, and both are instances of one relation
(`Publishes`): the new records name disjoint sets of commands of the table, each with
exactly the path actions held for them, and what is named leaves the table. From it
follow `OnceKept` and `SpreadKept`, that is `ReportedOnce` and `EachPathActionOnce`, and
it is the step of AuditLog that the refinement needs. That the two handlers are such
steps (`BeginPublishes`, `EndPublishes`) rests on `IInv`: with a leader pointer that
dangled, or a member in two group hashes, a command would be in two records or in none.

The theorems hold of `Monitor!Spec`, whose steps assume `Fresh` clients. That the
auditors are such clients is `ContractKept`, next.

**Builds** (BuildProofs): any number of processes, codes, depths, path actions and kills,
any shopping results. The invariant comes in four layers.

* `BInv` is for every build, with kills, orphans and a monitor that has gone: a process
  has one message on its way at most and is blocked on it unless it was killed
  (`ConnOK`); the depth in its environment exceeds that of all commands it has run, and
  the SOA on its way is the deepest (`KeysOK`); a path action made is with its auditor,
  on its way, or with the monitor, and in no two of these (`ActsOK`). This is what
  `Fresh` needs, so each step of a build is a step of the monitor or leaves it alone
  (`BuildStepsAreMonitorSteps`), and the monitor's theorems carry over.
* `TInv`, for every build too, is about descent. `Under(o, p)` says that p is in
  every set of processes that holds o and is closed under children: descent without
  recursion. A command, its predecessor and the leader of its group were run by a process
  or by one it descends from (`LineOK`); a process that has sent an SOA runs a command of
  its own (`OwnOK`); the environment names the command being run, at one depth less
  (`PredOK`).
* `WInv`, while `orphans` is false: a process is outlived by its parent, and the build by
  the monitor (`Parents`), so by induction along `Under` whoever descends from a dead
  process is dead (`DeadBelow`); hence a command stays open as long as its process lives
  (`StillOpen`), for an audit leaves the table only with its own process's EOA or its
  leader's, and the leader is an ancestor.
* `CInv`, while moreover `kills = 0`: messages come from the living; each open command of
  a living process is the one it runs or leads to it over SOAs and audits (`ChainsOK`),
  so that its EOA swims up to all of them (`UpstreamAll`, by the well-founded order of
  depths); those of the dead are closed; and every path action made is somewhere
  (`NoneMissing`).

`PredecessorFound` follows as the predecessor was run by the process or an ancestor, which
lives, so that its audit is open. `CompleteRecord` follows as all are dead when the monitor
stops, so that all audits left are closed; each of them would wait for an open leader
(`WaitsForLeader`), so there is none. Both need `kills = 0`, which the run `build` has as its
bound: with a kill, TLC finds the SOA of a killed process that is still on its way when its
parent, with no child alive, has ended; and what a killed process held is lost. The
assumptions are `ConstantsOK` and `BuildConstantsOK`; the bounds `MaxAccess` and `MaxKills`
may be any numbers.

**Path actions** (PathProofs): any finite group, any paths and times, any number of path
actions in each dict. `PAInv` is the type invariant, `NoneLost` (before the group is
published the dicts hold exactly what was received, and no two path actions have one
address), `AllSorted` and `LastTold` (`LastModificationWins` without its exception for
temporary files: the code keeps all paths). `AllSorted` is what the properties rest
on. `pa_cmp()` is not itself an order (of two unlinks at one time each is greater), so it is
stated with `InOrder`: modifications before reads, modifications by rounded time with
unlinks last and otherwise by address, reads by path and address. `InOrder` is transitive
(`OrderCarries`); a path action that compares greater belongs behind, and one that does not
belongs before (`GreaterBehind`, `OtherwiseBefore`); so `dict_insert()`, which goes behind
the last key that is less, keeps the order (`PlaceFound`, `InsertSorts`).

What the loops leave is proved by induction over the set of turns after which it holds
(`Turns`, from the well-founded order of the natural numbers): `ca_merge()` and the hash
scan of `ca_publish()` leave all path actions, in order (`MergeAdds`, `MergeSorts`,
`ScanAdds`, `ScanSorts`), and `ca_coalesce()` keeps for each path the first of the
modifications with the latest time, or the first read (`Kept`, `CookKeeps`). Two dicts in
order with the same path actions therefore agree on each path up to the address of an
unlink (`SameKept`), which is `MergeOrderIrrelevant`.

The three theorems about order have the hypothesis `Roundoff > 1`, that is, a
Shop.Time.Precision below 9. With 9, `moment_cmp()` takes each of two moments a nanosecond
apart for the earlier (`NanosecondApart`), and TLC finds modifications out of order.

**Shopping, the decision** (ShopProofs, first half): any number of PTXs, paths and instances, any
roadmaps and disks that satisfy `ShopConstantsOK`, and any number of changes by other
processes. The inductive invariant `ShopInv` adds to the two properties: the sample at
hand was taken of something that stood at the path and with a dcode exactly if the states
to come have one (`SampleOK`), so that comparing to it is comparing to that
(`DiffIsDifference`); the lines and states yet to be compared are of this instance
(`Pending`); each prerequisite of a candidate was found in place or is still to come
(`Evaluated`); and a candidate that is marked was marked for this instance (`MarksOK`),
for had it been marked and not dismissed for an earlier one it would have won then. The
last is why marks that are never taken back do no harm.

**Shopping, the disk** (ShopProofs, second half). `TypeInv` adds to the type the order in which
targets are processed (`Sequence`): paths ascend and occur once. `DiskInv` says that
only links among the targets share files (`Unshared`), that what stands at any path was
there before or is the winner's (`Accounted`), and that the targets processed so far are in
place (`Achieved`). `Unshared` is needed because files are written in place: a target
written at one path must not change another. `Accounted` in turn shows that no symbolic
link stands where a file is opened, as long as none stood there before (`NoneFollowed`),
and nothing but a directory where one is made (`NoneInTheWay`). `DiskInv` is inductive on
disks that are `Separate`. The theorems are of every disk and roadmap that satisfies
`ShopConstantsOK`; the cases in which the code fails are the hypotheses that
`TargetsInPlace` and `NoHalfTarget` have themselves (section 3).

**Sessions** (SessionProofs): any audits, any number of PTXs, transfers and faults, any
timeout divisible by four with `PassIsShort`. `SInv` says that client and server count
the same PTXs and the one in work is bound to the session until that expires
(`Bookkeeping`); that what is queued or on its way belongs to it, has not failed and is
there once (`Handed`); that what was issued is settled or still in hand (`Issued`); that
a request which did not fail meets the PTX it was issued for (`Belongs`); and how the
clocks relate (`Timers`: the server has heard of the client since `last_heartbeat`, and
either since the last pass of the loop or no heartbeat was due). `CompletePtx` needs all
of them: END is sent when nothing is active (`DrainedFacts`), so by `Issued` all is
settled, by `Belongs` in the right PTX. `KeptAlive` follows from `Timers` and
`PassIsShort` by arithmetic: `idle` is less than half the timeout plus a pass.

**Uploads** (UploadProofs): any finite set of requests, contents and sizes. With the
database's lock one request at a time has read the count and nobody has changed it since
(`DatabaseLock`), and no synthetic lock is ever fetched, so that the exception in
`EachAnswered` never arises (`DatabaseLocksHold`). With the lock of the server the count
may be wrong for three requests (`ptx_lock`) and is right for two: a lock leaves the map
only when an upload is committed or rolled back after that, so two requests that are both
pending, and the only ones to come, have fetched the same one (`SyntheticLock`,
`OneOfTwo`). The count stays within its type even so, as a lost update only makes it
smaller (`CountBound`). `WholeIfUnbroken` needs that every container has a request
that created it last and has written all blocks up to its position since (`HasCreator`).

**Threads** (ThreadProofs): any finite number of threads, path actions and calls. The
type of `stuck` needs the forks under way to be counted (`ForksCounted`). `Gaps` says
that whatever stands in `CurrentCA` while a thread is in its gap was recorded in the gap
and is exposed; `Progress` says for each path action that is not exposed where it is: not
yet delivered in memory, in the file and unread, or read and delivered once and about to be
truncated.

**Only model-checked.** All liveness (`Released`, `BuildEnds`, `PtxDecided`, `DrainEnds`,
`EachAnswered`, `WrappersReturn`): TLAPS does not reason about fairness and ENABLED here.

## 5. What is not modelled

Activation of the auditor by program name and RE (its effect, several top commands, is
in Session); malformed lines and roadmaps, and so the bytes of a connection; the
debugging mode and the dry run of shopping; compression of transfers; the dcode cache,
which is off by default; configuration, path names, checksums, output formats: they
keep no state that the properties depend on. The Windows port does the same with other
primitives. Of the server, the database entities an audit becomes, the selection of PTXs
for a roadmap and the reports. PROJECT.json lists each with its reason, and the hazards
in this code that no property covers.

The map covers a small part of the repository by lines. Two thirds of it are vendored
headers, the Windows port, the command line, parsing and formatting, and the server's
reports, which hold no protocol to check.

## 6. Disagreements found

* `man/ao.pod:77` says the objects of the matching run are copied "into place".
  `down_load()` opens the target with `fopen("wb")` (`down.c:130`) and so follows a
  symbolic link that another build has left there: the file it leads to is overwritten,
  the target is not in place, and `SHOP_RECYCLED` is returned (`symlink_followed`).
* `mon.c:933` refreshes the roadmap because there is "a chance of another cycle", and
  `unix.c:597` ends one PTX and starts the next. END makes `End.java:83` invalidate the
  HTTP session, so the next START is answered with "missing session" and the monitor
  exits at the second top command (`next_ptx`).
* `DataService.java:140` and `:148` see that a synthetic lock may be removed while a
  thread is about to take it, and register it again. A third request may have registered
  another lock meanwhile; both threads are then inside, and an update of
  `uploadedCount` is lost (`ptx_lock`).
* `FileDataContainer.java:125` says that `storeStream()` stores all data of the stream.
  It writes at the final name, so that a broken connection leaves part of a container,
  and `Upload.java:99` takes it for the whole for ever (`half_container`).

Others, without a run:

* `moment.c:168` says that `moment_cmp()` returns 1 if the left is greater; for a
  difference of one nanosecond it returns -1 (`moment.c:202` asks for `d > 1`). A
  difference is never 1 as long as the times are rounded off, which they are by default
  (lemma `NanosecondApart`).
* `pa.c:131-134` wants an unlink to precede a create of the same instant; the code
  (`pa.c:136`) puts it behind.
* `java/docs/notes/ao-theory.pod:312` says that files created and then unlinked are
  removed from the audit record; `ca_coalesce()` keeps the unlink (`ca.c:554`).
  `LastModificationWins` allows both (`Temporary`).
* `ca.c:896` says that equal command lines are the same command only if they touch the
  same files. `shop()` takes the first instance of the command line whose inputs are in
  place and compares neither `pccode` nor `pathcode` nor `rwd` (`shop.c:809`, `:991`).
* The property Strict.Upload, "Abort if any audited objects cannot be uploaded", is
  looked at only when a handle is used again (`http.c:567`): the results of the last
  transfers are thrown away in `http_fini()`, and with synchronous transfers the result
  of `http_connect()` is ignored (`up.c:184`).
* `in_use` only grows (`http.c:582`), so SIMULTANEOUS_TRANSFER_MAX is where pumping
  begins and not a maximum.
* `mon_ptx_end()` exits in `prop_assert(P_ROADMAPFILE)` (`mon.c:862`) when commands are
  activated by name and there was no roadmap to shop from; END has been sent by then.
* `ExitStatus` is never reset (`mon.c:635`, `unix.c:598`): after a top command that
  failed, the PTX of every later one would be reported as failed too.
* There is no heartbeat during the drain (`mon.c:898`), however long it takes; the
  session lives on only by the uploads themselves. This is why `NoneRefused` excepts a
  session that has expired.
* `shop.c:337-349` removes a hard link and makes it anew, in the order of paths. A
  target linked to a link that comes later in that order keeps the file an earlier build
  left there, and two target paths that are hard links of one file overwrite each other
  (`down.c:130`); `SHOP_RECYCLED` is returned. `TargetsInPlace` excepts both
  (`LinksInOrder`, `Separate`).
* `shop.c:401` asks `access()` whether there is something where a target directory
  belongs. A regular file stays there; where a symbolic link leads to nothing
  `putil_mkdir_p()` fails, with a message only. `SHOP_RECYCLED` is returned in both cases.
  `TargetsInPlace` excepts them (`NoneInTheWay`).
* A request that has committed and then fails, for example because its connection
  breaks, rolls back, and `removeLocks()` runs a second time (`DataService.java:102`). It
  takes whatever lock is in the map for its own (`:113`) and removes the lock of another
  request that is inside. The commit of that request then throws after the database has
  committed: its upload fails although its connection was fine, and its lock is never
  unlocked. A third request that has fetched this lock waits for it for ever. It takes
  three requests and synthetic locks; `EachAnswered` excepts it (`RegistrationLost`).
* A child forked while another thread holds StaticDataAccessMutex hangs at its first
  path action (`stuck` in AuditorThreads); there is no `pthread_atfork()` handler.
* `Upload.java:47` says that the servlet "does not change any database state"; it counts
  the upload in the PTX (`Upload.java:94`).

Smaller ones: `pa.c:87` says that `pa_cmp()` "puts read ops ahead of write
ops" and it does the opposite, which harms no record because `ca_foreach_cooked_pa()`
makes two passes. That function's "@return -1 on error" is an `abort()` (`ca.c:425`,
`ca.c:437`), which a hard link sorted before its missing source, or a symbolic link
where a dangling one stands, brings about (`target_fatal`). A PTX dismissed for one
instance of a command line stays dismissed for the next ones, so that a match can be
missed (`shop.c:987` looks for it "in a loop"); the command is then run, which is safe.
The dict orders `X10` before `X2`, so the winner follows the server's order
(`shop.c:164`) up to ten PTXs only.

## 7. Plan

Done: Monitor, AuditLog, AuditedBuild, PathActions, Shop, Session, Upload,
AuditorThreads, and the proofs of section 4. All safety invariants and action properties
that the runs check are proved, some under the hypotheses named there. Left to do: shorter
proofs where a layer of BuildProofs repeats the steps of another.
