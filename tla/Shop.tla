-------------------------------- MODULE Shop --------------------------------
(***************************************************************************)
(* Shopping: shop() of src/shop.c, which decides for a command that is     *)
(* about to run whether an earlier run of it, in some transaction (PTX) of *)
(* the roadmap, had the inputs that are now in place, and if so brings its *)
(* targets into place.                                                     *)
(*                                                                         *)
(* One call is modelled, from the point where the PTXs of the roadmap are  *)
(* in the dict.  The other processes of the build go on meanwhile and may  *)
(* change files between any two steps.                                     *)
(***************************************************************************)
EXTENDS Integers, FiniteSets

CONSTANTS
    PTX,         \* transactions, as the numbers the dict orders them by
    Paths,       \* path names, as the numbers util_pathcmp() orders them by
    Times,       \* file times; Now is the time of files written by shopping
    Now,
    Data,        \* contents of files
    Roadmaps,    \* the roadmaps the server may have sent
    Disks,       \* the possible contents of the disk
    Ignored,     \* the paths that Shop.Ignore.Path.RE matches
    Strict,      \* Strict.Download
    OriginalDatestamp,
    MaxChanges   \* bound: files changed by other processes meanwhile

(* The contents of a file that has not arrived as a whole.                 *)
Partial == 0

Nothing == [type |-> "none", time |-> 0, data |-> Partial, ino |-> 0]

(* What stands at a path.  Paths with the same inode are hard links.  The  *)
(* data of a symbolic link is the path it leads to, which is not another   *)
(* symbolic link.                                                          *)
Inodes == 1 .. 2 * Cardinality(Paths)
DiskEntry ==
    {Nothing}
    \cup [type : {"file", "dir"}, time : Times \cup {Now}, data : Data \cup {Partial}, ino : Inodes]
    \cup [type : {"symlink"}, time : Times \cup {Now}, data : Paths, ino : Inodes]

(* A PathState (PS) of the roadmap.  The data of a file that has no dcode  *)
(* is there for the specification only: the code cannot see it.  Sizes are *)
(* left out, the case in which all files are of one size.                  *)
PathState ==
    [path : Paths, type : {"file"}, time : Times, data : Data, dcode : BOOLEAN]
    \cup [path : Paths, type : {"symlink"}, time : Times, data : Paths, dcode : BOOLEAN]
    \cup [path : Paths, type : {"link"}, time : Times, data : Paths, dcode : {FALSE}]
    \cup [path : Paths, type : {"dir"}, time : Times, data : Data, dcode : {FALSE}]

(* A roadmap: for each instance of the command line what it read and wrote *)
(* in each PTX.  Files have dcodes in all PTXs or in none, as long as      *)
(* Dcode.All is set for all of them or for none.                           *)
ASSUME ShopConstantsOK ==
    /\ PTX \subseteq Nat /\ IsFiniteSet(PTX)
    /\ Paths \subseteq Nat \ {0} /\ IsFiniteSet(Paths)
    /\ Times \subseteq Nat \ {0} /\ Now \in Nat \ ({0} \cup Times)
    /\ Data \subseteq Nat \ ({0} \cup Paths)
    /\ Ignored \subseteq Paths
    /\ Strict \in BOOLEAN /\ OriginalDatestamp \in BOOLEAN
    /\ MaxChanges \in Nat
    /\ Disks \subseteq [Paths -> DiskEntry]
    /\ \A r \in Roadmaps : \A i \in DOMAIN r :
        /\ DOMAIN r = 1 .. Cardinality(DOMAIN r)
        /\ r[i].agg \in BOOLEAN /\ r[i].kids \in BOOLEAN
        /\ r[i].prq \in [PTX -> SUBSET PathState]
        /\ r[i].tgt \in [PTX -> SUBSET PathState]
        /\ \A j \in DOMAIN r, x, y \in PTX : \A s \in r[i].prq[x], t \in r[j].prq[y] :
            s.path = t.path => s.dcode = t.dcode

VARIABLES
    roadmap,    \* ShopCDB
    disk,       \* what stands at each path
    pc,         \* where shop() is
    cmdix,      \* the instance of the command line that is looked at
    ptx_dict,   \* the PTXs that are still candidates ...
    seen,       \* ... and those whose key was changed to lower case
    lines,      \* the lines of prerequisites that are not read yet
    states,     \* the path states left of the line just read ...
    ptxes,      \* ... and its PTXs
    CurrentPS,  \* the path whose state was sampled last, and that state
    rc,
    winner,
    targets,    \* the cooked path actions of the CA that are not processed yet
    wanted,     \* history: all of them
    was,        \* history: what stood at each path since shop() was called
    changes,    \* history: how often another process changed a file
    hardlinks   \* history: paths that were hard links when shop() was called

shopVars == <<roadmap, disk, pc, cmdix, ptx_dict, seen, lines, states, ptxes,
              CurrentPS, rc, winner, targets, wanted, was, changes, hardlinks>>

evaluation == <<ptx_dict, seen, lines, states, ptxes, CurrentPS>>

Ended == {"done", "exited", "aborted"}

-----------------------------------------------------------------------------
(* ps.c *)

NoPS == [path |-> 0, type |-> "file", time |-> 0, data |-> 0, dcode |-> FALSE]

(* ps_stat() on a new PS: one that could not be sampled stays as it is.    *)
Sample(path, entry, want_dcode) ==
    IF entry = Nothing
    THEN [path |-> path, type |-> "file", time |-> 0, data |-> 0, dcode |-> FALSE]
    ELSE [path |-> path, type |-> entry.type, time |-> entry.time, data |-> entry.data,
          dcode |-> want_dcode /\ entry.type # "dir"]

ps_stat(path, want_dcode) == Sample(path, disk[path], want_dcode)

ps_diff(s, c) ==
    \/ s.type # c.type
    \/ IF s.dcode /\ c.dcode THEN s.data # c.data ELSE s.time # c.time

-----------------------------------------------------------------------------
(* The roadmap *)

(* The server puts the states that occur in the same PTXs on one line; the *)
(* order of lines, and of states in a line, is that of a hash table.       *)
Lines(used) ==
    LET Of(s) == {x \in PTX : s \in used[x]}
        all == UNION {used[x] : x \in PTX}
    IN  {[states |-> {s \in all : Of(s) = Of(t)}, ptxes |-> Of(t)] : t \in all}

HasTarget(i) == \E x \in PTX : roadmap[i].tgt[x] # {}

-----------------------------------------------------------------------------
(* _shop_for_cmd(), _shop_compare_prereqs(), _shop_cmp_pathstate() *)

(* Take up the next instance of the command line; the PTXs that an earlier *)
(* one has invalidated stay invalidated.                                   *)
shop_for_cmd ==
    LET i == cmdix + 1
        Give(result) == rc' = result /\ UNCHANGED <<pc, lines>>
    IN  /\ pc = "find"
        /\ i \in DOMAIN roadmap
        /\ cmdix' = i
        /\ \/ ~HasTarget(i) /\ Give(IF roadmap[i].agg THEN "MUSTRUN_AGG" ELSE "MUSTRUN")
           \/ HasTarget(i) /\ roadmap[i].kids /\ Give("MUSTRUN")
           \/ HasTarget(i) /\ ~roadmap[i].kids /\ ptx_dict = {} /\ Give("NOMATCH")
           \/ /\ HasTarget(i) /\ ~roadmap[i].kids /\ ptx_dict # {}
              /\ pc' = "prereqs"
              /\ lines' = Lines(roadmap[i].prq)
              /\ UNCHANGED rc
        /\ UNCHANGED <<roadmap, disk, ptx_dict, seen, states, ptxes, CurrentPS,
                       winner, targets, wanted, was, changes, hardlinks>>

(* Read one line; it is skipped unless one of its PTXs is a candidate.     *)
shop_compare_prereqs(line) ==
    /\ pc = "prereqs" /\ ptx_dict # {} /\ states = {}
    /\ line \in lines
    /\ lines' = lines \ {line}
    /\ seen' = seen \cup (line.ptxes \cap ptx_dict)
    /\ IF line.ptxes \cap ptx_dict = {} THEN UNCHANGED <<states, ptxes>>
       ELSE states' = line.states /\ ptxes' = line.ptxes
    /\ UNCHANGED <<roadmap, disk, pc, cmdix, ptx_dict, CurrentPS, rc, winner,
                   targets, wanted, was, changes, hardlinks>>

(* The sample of a path is kept until another path is looked at; that it   *)
(* could not be taken is noticed by the first state compared to it, and by *)
(* the others as a difference.                                             *)
Sampled(s) == IF CurrentPS.path = s.path THEN CurrentPS ELSE ps_stat(s.path, s.dcode)

Mismatch(s) == ps_diff(s, Sampled(s)) \/ (CurrentPS.path # s.path /\ disk[s.path] = Nothing)

(* Mutant: files that are to be ignored are not.                           *)
RemainingUnignored(s) == IF Mismatch(s) THEN ptx_dict \ ptxes ELSE ptx_dict

(* The PTXs that remain after _shop_ptx_invalidate() for those of the line.*)
Remaining(s) ==
    IF Mismatch(s) /\ s.path \notin Ignored THEN ptx_dict \ ptxes ELSE ptx_dict

shop_cmp_pathstate(s) ==
    /\ pc = "prereqs" /\ ptx_dict # {}
    /\ s \in states
    /\ states' = states \ {s}
    /\ CurrentPS' = Sampled(s)
    /\ ptx_dict' = Remaining(s)
    /\ UNCHANGED <<roadmap, disk, pc, cmdix, seen, lines, ptxes, rc, winner,
                   targets, wanted, was, changes, hardlinks>>

(* Mutant: any PTX that was not invalidated may win.                       *)
EligibleUnseen == ptx_dict

First(S) == {x \in S : \A y \in S : x <= y}

(* _shop_ptx_winner() takes the first of these.                            *)
Eligible == ptx_dict \cap seen

(* All lines are read, or no candidate is left.                            *)
shop_ptx_winner ==
    /\ pc = "prereqs"
    /\ ptx_dict = {} \/ (states = {} /\ lines = {})
    /\ CurrentPS' = NoPS /\ states' = {} /\ lines' = {} /\ ptxes' = {}
    /\ IF Eligible # {}
       THEN rc' = "RECYCLED" /\ winner' = First(Eligible) /\ pc' = "collect"
       ELSE /\ rc' = IF roadmap[cmdix].agg THEN "NOMATCH_AGG" ELSE "NOMATCH"
            /\ pc' = "find"
            /\ UNCHANGED winner
    /\ UNCHANGED <<roadmap, disk, cmdix, ptx_dict, seen, targets, wanted, was, changes, hardlinks>>

-----------------------------------------------------------------------------
(* _shop_collect_targets(), _shop_process_targets() *)

(* The target states on the lines that name the winner, and what is left   *)
(* of them when ca_coalesce() keeps the newest of each path.  The dummy    *)
(* reads that were recorded for prerequisites lose against any target and  *)
(* are not uploadable, so nothing is done for them.                        *)
Collected ==
    UNION {line.states : line \in {l \in Lines(roadmap[cmdix].tgt) : winner \subseteq l.ptxes}}

Newest(S) == {s \in S : \A t \in S : t.path = s.path => t.time <= s.time}

(* Mutant: the states collected are processed without coalescing.          *)
collect_uncoalesced ==
    /\ pc = "collect"
    /\ targets' = Collected /\ wanted' = Newest(Collected)
    /\ pc' = "targets"
    /\ UNCHANGED <<roadmap, disk, cmdix, evaluation, rc, winner, was, changes, hardlinks>>

shop_collect_targets ==
    /\ pc = "collect"
    /\ \E S \in SUBSET Newest(Collected) :
        /\ \A s, t \in S : s.path = t.path => s = t
        /\ {s.path : s \in S} = {s.path : s \in Collected}
        /\ targets' = S /\ wanted' = S
    /\ pc' = "targets"
    /\ UNCHANGED <<roadmap, disk, cmdix, evaluation, rc, winner, was, changes, hardlinks>>

FreshInode == CHOOSE n \in Inodes : \A p \in Paths : disk[p].ino # n

(* The path a file is opened at: a symbolic link is followed, unless it    *)
(* leads to a directory; then it is removed and the file takes its place.  *)
Opened(p) ==
    IF disk[p].type = "symlink" /\ disk[disk[p].data].type # "dir"
    THEN disk[p].data ELSE p

(* Files are written in place, so all hard links see the new contents.     *)
Written(p, time, data) ==
    LET f == Opened(p)
        ino == IF disk[f].type = "file" THEN disk[f].ino ELSE FreshInode
        new == [type |-> "file", time |-> time, data |-> data, ino |-> ino]
    IN  [q \in Paths |-> IF q = f \/ disk[q].ino = ino THEN new ELSE disk[q]]

Removed(p) == [disk EXCEPT ![p] = Nothing]

(* An existing file that is as the target should be is reused.             *)
Reusable(s) ==
    /\ s.type \in {"file", "dir"}
    /\ disk[s.path] # Nothing
    /\ ~ps_diff(s, ps_stat(s.path, s.dcode))

reuse(s) ==
    /\ Reusable(s)
    /\ disk' = IF OriginalDatestamp THEN disk
               ELSE [q \in Paths |-> IF disk[q].ino = disk[s.path].ino
                                     THEN [disk[q] EXCEPT !.time = Now] ELSE disk[q]]

(* A download puts the file in place with the time it had or has now.      *)
Downloaded(s) == Written(s.path, IF OriginalDatestamp THEN s.time ELSE Now, s.data)

(* Mutant: a failed download leaves what has arrived of the file.          *)
StubLeft(s) == Written(s.path, Now, Partial)

(* When a transfer fails the stub at the path is removed.                  *)
StubRemoved(s) == [StubLeft(s) EXCEPT ![s.path] = Nothing]

Fetchable(s) == s.type = "file" /\ ~Reusable(s) /\ disk[s.path].type # "dir"

mkdir(s) ==
    /\ s.type = "dir" /\ ~Reusable(s)
    /\ disk' = IF disk[s.path] # Nothing THEN disk
               ELSE [disk EXCEPT ![s.path] = [type |-> "dir", time |-> Now,
                                              data |-> Partial, ino |-> FreshInode]]

(* A link is always made anew; it fails if its source is not there (yet).  *)
CanLink(s) == s.data # s.path /\ disk[s.path].type # "dir" /\ disk[s.data].type \in {"file", "symlink"}

link(s) ==
    /\ s.type = "link" /\ CanLink(s)
    /\ disk' = [disk EXCEPT ![s.path] = disk[s.data]]

(* A symbolic link that points elsewhere is removed only if access() finds *)
(* what it points at, and symlink() fails over one that is left.           *)
Dangling(p) == disk[disk[p].data] = Nothing

CanSymlink(s) ==
    /\ disk[s.path].type # "dir"
    /\ disk[s.path].type = "symlink" /\ disk[s.path].data # s.data => ~Dangling(s.path)

symlink(s) ==
    /\ s.type = "symlink" /\ CanSymlink(s)
    /\ disk' = IF disk[s.path].type = "symlink" /\ disk[s.path].data = s.data THEN disk
               ELSE [disk EXCEPT ![s.path] = [type |-> "symlink", time |-> Now,
                                              data |-> s.data, ino |-> FreshInode]]

(* The next target in the order of paths.                                  *)
NextTarget == CHOOSE s \in targets : \A t \in targets : s.path <= t.path

(* A target is in place; the next one, if any, is taken up.                *)
target_done(s) ==
    /\ pc = "targets" /\ targets # {} /\ s = NextTarget
    /\ reuse(s) \/ (Fetchable(s) /\ disk' = Downloaded(s)) \/ mkdir(s) \/ link(s) \/ symlink(s)
    /\ targets' = targets \ {s}
    /\ UNCHANGED <<roadmap, pc, cmdix, evaluation, rc, winner, wanted, was, changes, hardlinks>>

(* Mutant: the failure is not passed on.                                   *)
download_ignored(s) ==
    /\ pc = "targets" /\ targets # {} /\ s = NextTarget
    /\ Fetchable(s)
    /\ disk' = StubRemoved(s)
    /\ pc' = IF Strict THEN "exited" ELSE pc
    /\ targets' = targets \ {s}
    /\ UNCHANGED <<roadmap, cmdix, evaluation, rc, winner, wanted, was, changes, hardlinks>>

(* A download fails: the rest is still done, and shop() returns SHOP_ERR.  *)
download_failed(s) ==
    /\ pc = "targets" /\ targets # {} /\ s = NextTarget
    /\ Fetchable(s)
    /\ disk' = StubRemoved(s)
    /\ pc' = IF Strict THEN "exited" ELSE pc
    /\ rc' = "ERR"
    /\ targets' = targets \ {s}
    /\ UNCHANGED <<roadmap, cmdix, evaluation, winner, wanted, was, changes, hardlinks>>

(* Other failures end the monitor: a file that cannot be opened by exit(), *)
(* and a link that cannot be made, on which _shop_process_target() returns *)
(* -1, by the abort() in ca_foreach_cooked_pa().                           *)
target_fatal(s) ==
    /\ pc = "targets" /\ targets # {} /\ s = NextTarget
    /\ \/ /\ s.type = "file" /\ ~Reusable(s) /\ disk[s.path].type = "dir"
          /\ pc' = "exited" /\ UNCHANGED disk
       \/ /\ s.type = "link" /\ ~CanLink(s)
          /\ disk' = IF disk[s.path].type = "dir" THEN disk ELSE Removed(s.path)
          /\ pc' = IF Strict THEN "exited" ELSE "aborted"
       \/ /\ s.type = "symlink" /\ ~CanSymlink(s)
          /\ pc' = IF Strict THEN "exited" ELSE "aborted"
          /\ UNCHANGED disk
    /\ UNCHANGED <<roadmap, cmdix, evaluation, rc, winner, targets, wanted, was, changes, hardlinks>>

(* shop() returns.  The CA is marked as recycled exactly if this is what   *)
(* it returns.                                                             *)
shop_return ==
    /\ \/ pc = "find" /\ cmdix + 1 \notin DOMAIN roadmap
       \/ pc = "targets" /\ targets = {}
    /\ pc' = "done"
    /\ UNCHANGED <<roadmap, disk, cmdix, evaluation, rc, winner, targets, wanted, was, changes, hardlinks>>

-----------------------------------------------------------------------------
(* Another process of the build changes, replaces or removes a file.       *)
Change(p) ==
    /\ pc \notin Ended
    /\ changes < MaxChanges
    /\ changes' = changes + 1
    /\ \E e \in {d[p] : d \in Disks} :
        disk' = [disk EXCEPT ![p] = IF e = Nothing THEN e ELSE [e EXCEPT !.ino = FreshInode]]
    /\ was' = [was EXCEPT ![p] = @ \cup {disk'[p]}]
    /\ UNCHANGED <<roadmap, pc, cmdix, evaluation, rc, winner, targets, wanted, hardlinks>>

ShopInit ==
    /\ roadmap \in Roadmaps
    /\ disk \in Disks
    /\ pc = "find" /\ cmdix = 0 /\ rc = "NOMATCH"
    /\ ptx_dict = PTX /\ seen = {}
    /\ lines = {} /\ states = {} /\ ptxes = {} /\ CurrentPS = NoPS
    /\ winner = {} /\ targets = {} /\ wanted = {}
    /\ was = [p \in Paths |-> {disk[p]}]
    /\ changes = 0
    /\ hardlinks = {p \in Paths : disk[p] # Nothing /\ \E q \in Paths \ {p} : disk[q].ino = disk[p].ino}

ShopNext ==
    \/ shop_for_cmd
    \/ \E line \in lines : shop_compare_prereqs(line)
    \/ \E s \in states : shop_cmp_pathstate(s)
    \/ shop_ptx_winner
    \/ shop_collect_targets
    \/ \E s \in targets : target_done(s) \/ download_failed(s) \/ target_fatal(s)
    \/ shop_return
    \/ \E p \in Paths : Change(p)

ShopSpec == ShopInit /\ [][ShopNext]_shopVars

-----------------------------------------------------------------------------
(* Properties *)

(* The shopping state holds PTXs and path states of the roadmap and what   *)
(* is at each path is a file, a symbolic link, a directory or nothing.     *)
ShopTypeOK ==
    /\ disk \in [Paths -> DiskEntry]
    /\ pc \in {"find", "prereqs", "collect", "targets"} \cup Ended
    /\ cmdix \in {0} \cup DOMAIN roadmap
    /\ ptx_dict \subseteq PTX /\ seen \subseteq PTX /\ ptxes \subseteq PTX
    /\ states \subseteq PathState /\ targets \subseteq wanted /\ wanted \subseteq PathState
    /\ CurrentPS.path \in {0} \cup Paths
    /\ rc \in {"ERR", "NOMATCH", "NOMATCH_AGG", "MUSTRUN", "MUSTRUN_AGG", "RECYCLED"}
    /\ winner \subseteq PTX
    /\ changes \in 0 .. MaxChanges

(* Is this what the state of the roadmap says?  By contents where it has a *)
(* dcode, by time where it has none.                                       *)
Same(s, entry) ==
    /\ s.type = entry.type
    /\ IF s.dcode THEN s.data = entry.data ELSE s.time = entry.time

Prereqs(i, x) == {s \in roadmap[i].prq[x] : s.path \notin Ignored}

(* "If there is a match, we know precisely what the output(s) will be": a  *)
(* PTX wins for an instance of the command only if the command was run in  *)
(* it and each file it had read, ignored ones aside, has been in that very *)
(* state since shop() was called.                                          *)
RecycledWasValid ==
    \A x \in winner :
        /\ roadmap[cmdix].prq[x] # {}
        /\ ~roadmap[cmdix].kids
        /\ \A s \in Prereqs(cmdix, x) : \E e \in was[s.path] : Same(s, e)

(* A PTX is dismissed for good reason only: a file that an instance of the *)
(* command had read in that very PTX has been in another state since       *)
(* shop() was called.                                                      *)
DismissedForCause ==
    \A x \in PTX \ ptx_dict : \E i \in 1 .. cmdix : \E s \in Prereqs(i, x) :
        \E e \in was[s.path] : ~Same(s, e)

(* Is the target in place?                                                 *)
InPlace(s) ==
    CASE s.type = "link" -> disk[s.data] # Nothing /\ disk[s.path].ino = disk[s.data].ino
      [] s.type = "symlink" -> disk[s.path].type = "symlink" /\ disk[s.path].data = s.data
      [] s.type = "dir" -> disk[s.path].type = "dir"
      [] OTHER -> disk[s.path].type = "file" /\ (s.dcode => disk[s.path].data = s.data)

(* "AO may choose to simply copy the DOs from the matching previous run    *)
(* into place": when shop() returns SHOP_RECYCLED, and no other process    *)
(* has interfered, all targets of the winner are in place.                 *)
DOsInPlace ==
    pc = "done" /\ rc = "RECYCLED" /\ changes = 0 => \A s \in wanted : InPlace(s)

(* No symbolic link stood where down_load() writes a file.                 *)
NoneFollowed ==
    \A s \in wanted : s.type = "file" => \A e \in was[s.path] : e.type # "symlink"

(* Nothing but a directory stood where a directory belongs: what access()  *)
(* finds there is left, and so is a symbolic link that leads nowhere, and  *)
(* the target counts as in place.                                          *)
NoneInTheWay ==
    \A s \in wanted : s.type = "dir" => \A e \in was[s.path] : e.type \in {"none", "dir"}

(* No two paths were hard links of one file when shop() was called: files  *)
(* are written in place, so a target written at one would change both.     *)
Separate == hardlinks = {}

(* A hard link to a link that is also a target is made after that one, or  *)
(* else it is left with what stood there before.                           *)
LinksInOrder ==
    \A s, t \in wanted :
        s.type = "link" /\ t.path = s.data /\ t.type \in {"link", "symlink"} => t.path < s.path

(* When shop() returns SHOP_RECYCLED, and no other process has interfered, *)
(* every target of the winner is in place and is what it should be, on any *)
(* disk that has no symbolic link where a file is downloaded, nothing but  *)
(* a directory where one is made and no hard links, and for any targets    *)
(* but hard links made before the links they lead to.                      *)
TargetsInPlace == NoneFollowed /\ NoneInTheWay /\ Separate /\ LinksInOrder => DOsInPlace

(* Whatever becomes of the targets, no path is left with part of a file:   *)
(* what stands there was there before, or is the winner's, or is gone.     *)
(* Exempt are hard links that were made before the download of their file  *)
(* failed, files written through a symbolic link, and files that were hard *)
(* links of others already when shop() was called.                         *)
NoHalfTarget ==
    pc \in Ended /\ NoneFollowed /\ Separate =>
        \A p \in Paths :
            \/ disk[p] = Nothing
            \/ \E e \in was[p] : e.type = disk[p].type /\ e.data = disk[p].data
            \/ \E s \in wanted : s.path = p /\ (InPlace(s) \/ s.type = "link")
=============================================================================
