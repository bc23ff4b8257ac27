----------------------------- MODULE PathActions -----------------------------
(***************************************************************************)
(* The path actions (PA) of an audit group on their way into its record:   *)
(* the order they are kept in (pa_cmp() of src/pa.c, moment_cmp() of       *)
(* src/moment.c) and how ca_publish() of src/ca.c merges the audits of the *)
(* group and coalesces what they did to each path into one PA.             *)
(*                                                                         *)
(* Audits of the group receive PAs in any order, since each process        *)
(* delivers its own when it execs or exits; the group is then published,   *)
(* merging its members in the arbitrary order of a hash scan.              *)
(***************************************************************************)
EXTENDS Integers, Sequences, FiniteSets, SequencesExt

CONSTANTS
    Leader,     \* the leader of the group ...
    Subs,       \* ... and its members
    Ops,        \* the operations of the group (op_e)
    Paths,      \* path names, as the numbers util_pathcmp() orders them by
    Times,      \* the time stamps of destructive operations, in nanoseconds
    Roundoff,   \* 10^(9 - Shop.Time.Precision): nanoseconds rounded off
    MaxPAs      \* bound: path actions of the group

ASSUME PathConstantsOK ==
    /\ Leader \notin Subs /\ IsFiniteSet(Subs)
    /\ Ops \subseteq {"READ", "EXEC", "APPEND", "CREAT", "LINK", "SYMLINK",
                      "UNLINK", "MKDIR"}
    /\ Paths \subseteq Int
    /\ Times \subseteq Nat \ {0}
    /\ Roundoff \in Nat \ {0}
    /\ MaxPAs \in Nat

pa_is_read(pa) == pa.op \in {"READ", "EXEC"}
pa_is_unlink(pa) == pa.op = "UNLINK"

(* A PA.  Only destructive operations have a time stamp.  "ptr" is the     *)
(* address of the object, any address that is not in use.                  *)
PathAction ==
    {pa \in [path : Paths, op : Ops, time : Times \cup {0}, ptr : 1 .. MaxPAs] :
        pa_is_read(pa) <=> pa.time = 0}

VARIABLES
    raw,        \* ca_raw_pa_dict of each audit, in the order of the dict
    received,   \* the PAs recorded so far
    cooked      \* ca_cooked_pa_dict of the leader: one PA for each path

paVars == <<raw, received, cooked>>

-----------------------------------------------------------------------------
(* moment.c, pa.c *)

Rounded(time) == (time \div Roundoff) * Roundoff

moment_cmp(left, right) ==
    LET d == Rounded(left) - Rounded(right)
    IN  IF d = 0 THEN 0 ELSE IF d > 1 THEN 1 ELSE -1

Sign(n) == IF n = 0 THEN 0 ELSE IF n > 0 THEN 1 ELSE -1

(* Mutant: destructive operations are ordered by path, as reads are.       *)
OrderedByPath(pa1, pa2) ==
    CASE pa_is_read(pa1) /\ ~pa_is_read(pa2) -> 1
      [] ~pa_is_read(pa1) /\ pa_is_read(pa2) -> -1
      [] OTHER -> Sign(pa1.path - pa2.path)

(* pa_cmp() before its last resort of comparing addresses.                 *)
PreferredOrder(pa1, pa2) ==
    CASE pa_is_read(pa1) /\ pa_is_read(pa2) -> Sign(pa1.path - pa2.path)
      [] pa_is_read(pa1) /\ ~pa_is_read(pa2) -> 1
      [] ~pa_is_read(pa1) /\ pa_is_read(pa2) -> -1
      [] OTHER -> LET rc == moment_cmp(pa1.time, pa2.time)
                  IN  IF rc # 0 THEN rc
                      ELSE IF pa_is_unlink(pa1) THEN 1
                      ELSE IF pa_is_unlink(pa2) THEN -1
                      ELSE 0

pa_cmp(pa1, pa2) ==
    LET rc == PreferredOrder(pa1, pa2)
    IN  IF pa1.ptr = pa2.ptr THEN 0
        ELSE IF rc # 0 THEN rc
        ELSE Sign(pa1.ptr - pa2.ptr)

(* Mutant: a plain list instead of a sorted dict.                          *)
list_append(dict, pa) == Append(dict, pa)

(* dict_insert() of kazlib: right behind the last key that the new one is  *)
(* greater than.                                                           *)
Place(dict, pa) ==
    CHOOSE i \in 0 .. Len(dict) :
        /\ i # 0 => pa_cmp(pa, dict[i]) > 0
        /\ \A j \in i + 1 .. Len(dict) : ~(pa_cmp(pa, dict[j]) > 0)

dict_insert(dict, pa) == InsertAt(dict, Place(dict, pa) + 1, pa)

-----------------------------------------------------------------------------
(* ca.c *)

(* ca_merge(): the donor's PAs are recorded in the leader.                 *)
Merging(leader, donor) ==
    LET dict[n \in 0 .. Len(donor)] ==
            IF n = 0 THEN leader ELSE dict_insert(dict[n - 1], donor[n])
    IN  dict

ca_merge(leader, donor) == Merging(leader, donor)[Len(donor)]

(* Mutant: the comparison of time stamps is the wrong way round.           *)
KeepOlder(raw_pa, ckd_pa) ==
    IF ~pa_is_read(raw_pa) /\ ~pa_is_read(ckd_pa)
    THEN moment_cmp(raw_pa.time, ckd_pa.time) > 0
    ELSE pa_is_read(raw_pa)

(* Does the PA already found for the path stay when the next one comes?    *)
KeepCooked(raw_pa, ckd_pa) ==
    IF ~pa_is_read(raw_pa) /\ ~pa_is_read(ckd_pa)
    THEN moment_cmp(raw_pa.time, ckd_pa.time) <= 0
    ELSE pa_is_read(raw_pa)

(* One turn of the loop of ca_coalesce(): a dict by path name.             *)
Cook(dict, pa) ==
    IF pa.path \in DOMAIN dict /\ KeepCooked(pa, dict[pa.path])
    THEN dict
    ELSE [p \in DOMAIN dict \cup {pa.path} |-> IF p = pa.path THEN pa ELSE dict[p]]

NoneCooked == [p \in {} |-> p]

Cooking(dict) ==
    LET ckd[n \in 0 .. Len(dict)] ==
            IF n = 0 THEN NoneCooked ELSE Cook(ckd[n - 1], dict[n])
    IN  ckd

ca_coalesce(dict) == Cooking(dict)[Len(dict)]

(* What the members leave in the leader, merged in this order.             *)
Scanning(order) ==
    LET dict[n \in 0 .. Len(order)] ==
            IF n = 0 THEN raw[Leader] ELSE ca_merge(dict[n - 1], raw[order[n]])
    IN  dict

Merged(order) == Scanning(order)[Len(order)]

ca_record_pa(c, pa) ==
    /\ cooked = NoneCooked
    /\ Len(raw[c]) < MaxPAs
    /\ \A x \in received : x.ptr # pa.ptr
    /\ raw' = [raw EXCEPT ![c] = dict_insert(@, pa)]
    /\ received' = received \cup {pa}
    /\ UNCHANGED cooked

(* Mutant: the dict of the leader is destroyed as well.                    *)
PublishAndDestroy(order) ==
    /\ received # {} /\ cooked = NoneCooked
    /\ cooked' = ca_coalesce(Merged(order))
    /\ raw' = [c \in Subs |-> <<>>]
    /\ UNCHANGED received

ca_publish(order) ==
    /\ received # {} /\ cooked = NoneCooked
    /\ cooked' = ca_coalesce(Merged(order))
    /\ raw' = [c \in Subs \cup {Leader} |-> <<>>]
    /\ UNCHANGED received

PAInit ==
    /\ raw = [c \in Subs \cup {Leader} |-> <<>>]
    /\ received = {}
    /\ cooked = NoneCooked

PANext ==
    \/ \E c \in Subs \cup {Leader}, pa \in PathAction : ca_record_pa(c, pa)
    \/ \E order \in SetToSeqs(Subs) : ca_publish(order)

PASpec == PAInit /\ [][PANext]_paVars

-----------------------------------------------------------------------------
(* Properties *)

(* The raw dicts of the group's audits, and the cooked dict of its leader, *)
(* hold path actions.                                                      *)
PATypeOK ==
    /\ raw \in [Subs \cup {Leader} -> Seq(PathAction)]
    /\ received \subseteq PathAction
    /\ \A p \in DOMAIN cooked : p \in Paths /\ cooked[p] \in PathAction

(* What the record should say of a path: the last thing done to it, by the *)
(* precision time stamps are compared with, when it was modified at all.   *)
On(p) == {pa \in received : pa.path = p}

LastOn(p) ==
    LET modified == {pa \in On(p) : ~pa_is_read(pa)}
    IN  IF modified = {} THEN On(p)
        ELSE {pa \in modified : \A x \in modified : Rounded(x.time) <= Rounded(pa.time)}

(* The group has created the path and removed it again: "Files created     *)
(* and then unlinked are removed from the audit record"                    *)
(* (java/docs/notes/ao-theory.pod:312), and ca_coalesce() keeps the unlink *)
(* all the same.  Nothing is asked about whether the record has the path.  *)
Temporary(p) ==
    /\ \E pa \in On(p) : pa.op = "CREAT"
    /\ \E pa \in LastOn(p) : pa_is_unlink(pa)

(* A published record has one PA for every path that any command of the    *)
(* group has touched, but for temporary files, and for no other path.  It  *)
(* is the last modification of that path, or a read if it was never        *)
(* modified, however the PAs were spread over the commands and in whatever *)
(* order they were delivered and merged.                                   *)
LastModificationWins ==
    cooked # NoneCooked =>
        /\ \A pa \in received : ~Temporary(pa.path) => pa.path \in DOMAIN cooked
        /\ \A p \in DOMAIN cooked : cooked[p] \in LastOn(p)

(* The record does not depend on the order in which a hash scan happens to *)
(* merge the members of the group: what it says was done to each path, and *)
(* when, is the same for every order.                                      *)
Digest(dict) == [p \in DOMAIN dict |-> <<dict[p].op, Rounded(dict[p].time)>>]

MergeOrderIrrelevant ==
    \A o1, o2 \in SetToSeqs(Subs) :
        Digest(ca_coalesce(Merged(o1))) = Digest(ca_coalesce(Merged(o2)))

(* "The only critical ordering is that of timestamps on write ops": in     *)
(* every audit, and whatever order they arrived in, destructive operations *)
(* are kept in the order they occurred.                                    *)
WritesInOrder ==
    \A c \in Subs \cup {Leader} : \A i, j \in DOMAIN raw[c] :
        i < j /\ ~pa_is_read(raw[c][i]) /\ ~pa_is_read(raw[c][j])
            => Rounded(raw[c][i].time) <= Rounded(raw[c][j].time)
=============================================================================
