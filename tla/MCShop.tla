------------------------------- MODULE MCShop -------------------------------
(***************************************************************************)
(* Instances of Shop: two transactions and two instances of the command    *)
(* line, a source file with a dcode (path 1), a header without one (path   *)
(* 2), an ignored file that is missing now (path 6) and targets: a file    *)
(* (path 4) and what may stand before and after it in the order of paths   *)
(* (3 and 5).  Paths 2 and 6 are not members of the project.               *)
(***************************************************************************)
EXTENDS Shop

File(p, time, data, dcode) ==
    [path |-> p, type |-> "file", time |-> time, data |-> data, dcode |-> dcode]
Link(p, type, to) ==
    [path |-> p, type |-> type, time |-> 1, data |-> to, dcode |-> FALSE]

source(n) == File(1, n, 10 * n, TRUE)
object(n) == File(4, n, 10 * n, TRUE)
header == File(2, 1, 10, FALSE)
ignored == File(6, 1, 10, FALSE)
directory == [path |-> 5, type |-> "dir", time |-> 1, data |-> 10, dcode |-> FALSE]

(* What the command may have done in one transaction.                      *)
NotRun == [prq |-> {}, objects |-> {}]
Once == [prq |-> {source(1), ignored}, objects |-> {object(1)}]
Twice == [prq |-> {source(2), header}, objects |-> {object(1), object(2)}]
Again == [prq |-> {source(1), header}, objects |-> {object(1)}]

(* The targets of an instance beside the object file.  An instance is a    *)
(* command line with a set of member files, so instances differ in them.   *)
Kinds == {{}, {Link(3, "link", 4)}, {Link(5, "link", 4)}, {Link(5, "symlink", 4)}, {directory}}

(* A second file, and a link that comes before the link it leads to.       *)
MoreKinds == {{File(5, 1, 20, TRUE)}, {Link(3, "link", 5), Link(5, "link", 4)}}

Inst(runs, more, agg, kids) ==
    [prq |-> [x \in PTX |-> runs[x].prq],
     tgt |-> [x \in PTX |-> IF runs[x] = NotRun THEN {} ELSE runs[x].objects \cup more],
     agg |-> agg, kids |-> kids]

WithoutTargets(runs, agg) ==
    [prq |-> [x \in PTX |-> runs[x].prq], tgt |-> [x \in PTX |-> {}], agg |-> agg, kids |-> FALSE]

MCRuns == [PTX -> {NotRun, Once, Twice, Again}]

MCRoadmaps ==
    {<<Inst(f, more, agg, FALSE), Inst(<<NotRun, Again>>, {Link(5, "link", 4)}, FALSE, FALSE)>> :
        f \in MCRuns, more \in Kinds \ {{Link(5, "link", 4)}}, agg \in BOOLEAN}
    \cup {<<Inst(f, more, FALSE, FALSE), Inst(<<Once, Twice>>, {}, FALSE, TRUE)>> :
        f \in MCRuns, more \in Kinds \ {{}}}
    \cup {<<Inst(f, more, FALSE, FALSE)>> : f \in MCRuns, more \in MoreKinds}
    \cup {<<WithoutTargets(f, agg), Inst(<<Again, Once>>, {}, TRUE, FALSE)>> :
        f \in MCRuns, agg \in BOOLEAN}

Entry(p, type, time, data) == [type |-> type, time |-> time, data |-> data, ino |-> p]

(* The sources in one of two versions, or touched, or missing; the targets *)
(* missing, or there from another build.                                   *)
Disk(src, hdr, obj, more) ==
    [p \in Paths |->
        CASE p = 1 -> src [] p = 2 -> hdr [] p = 4 -> obj [] p = 5 -> more [] OTHER -> Nothing]

Sources == {Nothing, Entry(1, "file", 2, 10), Entry(1, "file", 2, 20)}
Headers == {Entry(2, "file", 1, 10), Entry(2, "file", 2, 10)}
OldObject == Entry(4, "file", 1, 20)

(* At path 5, where a directory or a link may belong, there may be a file, *)
(* another hard link of the old object, or a symbolic link that leads to   *)
(* nothing.                                                                *)
MCDisks ==
    {Disk(src, hdr, obj, more) :
        src \in Sources, hdr \in Headers,
        obj \in {Nothing, OldObject, Entry(4, "dir", 1, 10)},
        more \in {Nothing, Entry(5, "symlink", 1, 3), Entry(5, "file", 1, 20)}}
    \cup {Disk(src, hdr, OldObject, OldObject) : src \in Sources, hdr \in Headers}

(* A symbolic link where the target file goes.                             *)
MCDisksLinked ==
    {Disk(src, hdr, Entry(4, "symlink", 1, 1), Nothing) : src \in Sources, hdr \in Headers}
=============================================================================
