----------------------------- MODULE ShopProofs -----------------------------
(***************************************************************************)
(* Shopping is sound, for any roadmap, any disk, and whatever other        *)
(* processes do to the files meanwhile: a winner was valid                 *)
(* (RecycledWasValid), and no PTX is dismissed without cause               *)
(* (DismissedForCause).                                                    *)
(*                                                                         *)
(* What shopping does to the disk: the type invariant, that no path is     *)
(* left with part of a file (NoHalfTarget), and that a recycled command    *)
(* has its targets in place (TargetsInPlace).  The latter two are not true *)
(* of every disk and roadmap; what they except (NoneFollowed, Separate,    *)
(* NoneInTheWay, LinksInOrder) is part of the properties.                  *)
(***************************************************************************)
EXTENDS Shop, FiniteSetTheorems, WellFoundedInduction, TLAPS

Used(i) == UNION {roadmap[i].prq[x] : x \in PTX}

Deciding == {"find", "prereqs", "collect"}

(* Where shop() is, and that it leaves the disk alone until a winner has   *)
(* been found.                                                             *)
Control ==
    /\ roadmap \in Roadmaps
    /\ cmdix \in Nat
    /\ 1 .. cmdix \subseteq DOMAIN roadmap
    /\ winner # {} => cmdix \in DOMAIN roadmap
    /\ pc \in Deciding \cup {"targets"} \cup Ended
    /\ pc = "prereqs" => cmdix >= 1 /\ cmdix \in DOMAIN roadmap /\ ~roadmap[cmdix].kids
    /\ pc \in {"find", "prereqs"} => winner = {}
    /\ ptx_dict \subseteq PTX /\ winner \subseteq PTX
    /\ DOMAIN was = Paths
    /\ pc \in Deciding => DOMAIN disk = Paths /\ \A p \in Paths : disk[p] \in was[p]

(* The sample of a path is of something that stood there, and it was taken *)
(* with a dcode exactly if the states compared to it have one.             *)
SampleOK ==
    pc = "prereqs" /\ CurrentPS.path # 0 =>
        /\ CurrentPS.path \in Paths
        /\ \E e \in was[CurrentPS.path], d \in BOOLEAN :
            /\ CurrentPS = Sample(CurrentPS.path, e, d)
            /\ \A s \in Used(cmdix) : s.path = CurrentPS.path => s.dcode = d

(* The lines and states still to be compared are those of the instance.    *)
Pending ==
    IF pc = "prereqs"
    THEN /\ \A l \in lines :
                /\ l.states # {}
                /\ \A s \in l.states, x \in l.ptxes : x \in PTX /\ s \in roadmap[cmdix].prq[x]
         /\ \A s \in states, x \in ptxes : x \in PTX /\ s \in roadmap[cmdix].prq[x]
         /\ \A s \in states : s \in Used(cmdix)
    ELSE lines = {} /\ states = {} /\ CurrentPS.path = 0

(* A prerequisite of a candidate was found in place or is yet to be        *)
(* compared.                                                               *)
Evaluated ==
    pc = "prereqs" =>
        \A x \in ptx_dict : \A s \in Prereqs(cmdix, x) :
            \/ \E e \in was[s.path] : Same(s, e)
            \/ s \in states /\ x \in ptxes
            \/ \E l \in lines : s \in l.states /\ x \in l.ptxes

(* Marks are of the instance being compared: a candidate that was marked   *)
(* for an earlier one would have won then.                                 *)
MarksOK ==
    /\ pc = "find" => ptx_dict \cap seen = {}
    /\ pc = "prereqs" => \A x \in ptx_dict \cap seen : roadmap[cmdix].prq[x] # {}

ShopInv ==
    Control /\ SampleOK /\ Pending /\ Evaluated /\ MarksOK
    /\ RecycledWasValid /\ DismissedForCause

-----------------------------------------------------------------------------
(* A prerequisite of the roadmap is a path state, and dcodes are alike for *)
(* all states of a path.                                                   *)
LEMMA PrereqFacts ==
    ASSUME NEW r \in Roadmaps, NEW i \in DOMAIN r, NEW x \in PTX, NEW s \in r[i].prq[x]
    PROVE  /\ s \in PathState
           /\ \A y \in PTX : \A t \in r[i].prq[y] : s.path = t.path => s.dcode = t.dcode
BY ShopConstantsOK DEF ShopConstantsOK

(* What a path state looks like.                                           *)
LEMMA StateFacts ==
    ASSUME NEW s \in PathState
    PROVE  /\ s.path \in Paths /\ s.path # 0
           /\ s.time # 0
           /\ s.type # "none"
           /\ s.dcode \in BOOLEAN
           /\ s.type = "dir" => ~s.dcode
BY ShopConstantsOK DEF ShopConstantsOK, PathState

(* ps_diff() of a state and a sample of what stands at the path finds      *)
(* exactly the differences that count.                                     *)
LEMMA DiffIsDifference ==
    ASSUME NEW s \in PathState, NEW e, NEW p
    PROVE  ps_diff(s, Sample(p, e, s.dcode)) <=> ~Same(s, e)
<1> DEFINE c == Sample(p, e, s.dcode)
<1>1. CASE e = Nothing
    <2>1. c.type = "file" /\ c.time = 0 /\ c.dcode = FALSE
        BY <1>1 DEF Sample
    <2>2. e.type = "none"
        BY <1>1 DEF Nothing
    <2> QED
        BY <2>1, <2>2, StateFacts DEF ps_diff, Same
<1>2. CASE e # Nothing
    <2>1. c.type = e.type /\ c.time = e.time /\ c.data = e.data
        BY <1>2 DEF Sample
    <2>2. c.dcode = (s.dcode /\ e.type # "dir")
        BY <1>2 DEF Sample
    <2> HIDE DEF c
    <2> QED
        BY <2>1, <2>2, StateFacts DEF ps_diff, Same, c
<1> QED
    BY <1>1, <1>2

(* A line names the PTXs in which its states were read.                    *)
LEMMA LineFacts ==
    ASSUME NEW used
    PROVE  /\ \A l \in Lines(used) :
                /\ l.states # {}
                /\ \A s \in l.states, x \in l.ptxes : x \in PTX /\ s \in used[x]
           /\ \A x \in PTX : \A s \in used[x] :
                \E l \in Lines(used) : s \in l.states /\ x \in l.ptxes
<1> DEFINE Of(s) == {x \in PTX : s \in used[x]}
           all == UNION {used[x] : x \in PTX}
           line(t) == [states |-> {s \in all : Of(s) = Of(t)}, ptxes |-> Of(t)]
<1>1. Lines(used) = {line(t) : t \in all}
    BY DEF Lines
<1>2. ASSUME NEW l \in Lines(used), NEW s \in l.states, NEW x \in l.ptxes
      PROVE  x \in PTX /\ s \in used[x]
    <2>1. PICK t \in all : l = line(t)
        BY <1>1, <1>2
    <2>2. Of(s) = Of(t) /\ x \in Of(t)
        BY <1>2, <2>1
    <2> QED
        BY <2>2
<1>3. ASSUME NEW x \in PTX, NEW s \in used[x]
      PROVE  \E l \in Lines(used) : s \in l.states /\ x \in l.ptxes
    <2>1. s \in all /\ x \in Of(s)
        BY <1>3
    <2>2. line(s) \in Lines(used) /\ s \in line(s).states /\ x \in line(s).ptxes
        BY <1>1, <2>1
    <2> QED
        BY <2>2
<1>4. ASSUME NEW l \in Lines(used) PROVE l.states # {}
    <2>1. PICK t \in all : l = line(t)
        BY <1>1
    <2> QED
        BY <2>1
<1> QED
    BY <1>2, <1>3, <1>4

-----------------------------------------------------------------------------
(* The invariant holds when shop() is called.                              *)
LEMMA ShopInitially == ShopInit => ShopInv
<1> SUFFICES ASSUME ShopInit PROVE ShopInv
    OBVIOUS
<1> USE DEF ShopInit
<1>1. Control
    <2>1. disk \in [Paths -> DiskEntry]
        BY ShopConstantsOK DEF ShopConstantsOK
    <2> QED
        BY <2>1 DEF Control, Deciding
<1>2. SampleOK /\ Pending /\ Evaluated /\ MarksOK
    BY DEF SampleOK, Pending, Evaluated, MarksOK, NoPS
<1>3. RecycledWasValid /\ DismissedForCause
    BY DEF RecycledWasValid, DismissedForCause
<1> QED
    BY <1>1, <1>2, <1>3 DEF ShopInv

(* The prerequisites that do not depend on the state of shopping.          *)
LEMMA UsedFacts ==
    ASSUME Control, cmdix \in DOMAIN roadmap, NEW s \in Used(cmdix)
    PROVE  /\ s \in PathState
           /\ \A t \in Used(cmdix) : s.path = t.path => s.dcode = t.dcode
<1>1. PICK x \in PTX : s \in roadmap[cmdix].prq[x]
    BY DEF Used
<1>2. /\ s \in PathState
      /\ \A y \in PTX : \A t \in roadmap[cmdix].prq[y] : s.path = t.path => s.dcode = t.dcode
    BY <1>1, PrereqFacts DEF Control
<1> QED
    BY <1>2 DEF Used

(* The next instance of the command line is taken up.                      *)
LEMMA ForCmdStep == ShopInv /\ shop_for_cmd => ShopInv'
<1> SUFFICES ASSUME ShopInv, shop_for_cmd PROVE ShopInv'
    OBVIOUS
<1> DEFINE i == cmdix + 1
<1>1. /\ pc = "find" /\ i \in DOMAIN roadmap /\ cmdix' = i
      /\ roadmap' = roadmap /\ disk' = disk /\ ptx_dict' = ptx_dict /\ seen' = seen
      /\ states' = states /\ ptxes' = ptxes /\ CurrentPS' = CurrentPS
      /\ winner' = winner /\ was' = was
      /\ \/ pc' = pc /\ lines' = lines
         \/ ~roadmap[i].kids /\ pc' = "prereqs" /\ lines' = Lines(roadmap[i].prq)
    BY DEF shop_for_cmd
<1>2. /\ lines = {} /\ states = {} /\ CurrentPS.path = 0 /\ winner = {}
      /\ ptx_dict \cap seen = {} /\ cmdix \in Nat /\ i \in Nat
    BY <1>1 DEF ShopInv, Control, Pending, MarksOK
<1>3. Control'
    <2>1. 1 .. cmdix' \subseteq DOMAIN roadmap
        BY <1>1, <1>2 DEF ShopInv, Control
    <2> QED
        BY <1>1, <1>2, <2>1 DEF ShopInv, Control, Deciding
<1>4. SampleOK' /\ MarksOK' /\ RecycledWasValid'
    BY <1>1, <1>2 DEF SampleOK, MarksOK, RecycledWasValid
<1>5. Pending'
    BY <1>1, <1>2, LineFacts DEF Pending
<1>6. Evaluated'
    <2> SUFFICES ASSUME pc' = "prereqs", NEW x \in ptx_dict, NEW s \in roadmap[i].prq[x]
                 PROVE  \E l \in lines' : s \in l.states /\ x \in l.ptxes
        BY <1>1 DEF Evaluated, Prereqs
    <2>1. x \in PTX /\ lines' = Lines(roadmap[i].prq)
        BY <1>1 DEF ShopInv, Control
    <2> QED
        BY <2>1, LineFacts
<1>7. DismissedForCause'
    <2>1. 1 .. cmdix \subseteq 1 .. cmdix'
        BY <1>1, <1>2
    <2> QED
        BY <1>1, <2>1 DEF ShopInv, DismissedForCause, Prereqs
<1> QED
    BY <1>3, <1>4, <1>5, <1>6, <1>7 DEF ShopInv

(* A line of prerequisites is read.                                        *)
LEMMA LineStep ==
    ASSUME ShopInv, NEW line, shop_compare_prereqs(line)
    PROVE  ShopInv'
<1>1. /\ pc = "prereqs" /\ states = {} /\ line \in lines
      /\ roadmap' = roadmap /\ disk' = disk /\ ptx_dict' = ptx_dict /\ pc' = pc
      /\ cmdix' = cmdix /\ CurrentPS' = CurrentPS /\ winner' = winner /\ was' = was
      /\ lines' = lines \ {line}
      /\ seen' = seen \cup (line.ptxes \cap ptx_dict)
      /\ \/ line.ptxes \cap ptx_dict = {} /\ states' = states /\ ptxes' = ptxes
         \/ line.ptxes \cap ptx_dict # {} /\ states' = line.states /\ ptxes' = line.ptxes
    BY DEF shop_compare_prereqs
<1>2. /\ line.states # {}
      /\ \A s \in line.states, x \in line.ptxes : x \in PTX /\ s \in roadmap[cmdix].prq[x]
    BY <1>1 DEF ShopInv, Pending
<1>3. Control' /\ SampleOK' /\ RecycledWasValid' /\ DismissedForCause'
    BY <1>1 DEF ShopInv, Control, SampleOK, RecycledWasValid, DismissedForCause,
                Prereqs, Used
<1>4. Pending'
    BY <1>1, <1>2 DEF ShopInv, Pending, Used
<1>5. Evaluated'
    <2> SUFFICES ASSUME NEW x \in ptx_dict, NEW s \in Prereqs(cmdix, x)
                 PROVE  \/ \E e \in was[s.path] : Same(s, e)
                        \/ s \in states' /\ x \in ptxes'
                        \/ \E l \in lines' : s \in l.states /\ x \in l.ptxes
        BY <1>1 DEF Evaluated, Prereqs
    <2>1. \/ \E e \in was[s.path] : Same(s, e)
          \/ \E l \in lines : s \in l.states /\ x \in l.ptxes
        BY <1>1 DEF ShopInv, Evaluated
    <2> QED
        BY <1>1, <2>1
<1>6. MarksOK'
    <2> SUFFICES ASSUME NEW x \in ptx_dict \cap seen' PROVE roadmap[cmdix].prq[x] # {}
        BY <1>1 DEF MarksOK
    <2>1. CASE x \in seen
        BY <1>1, <2>1 DEF ShopInv, MarksOK
    <2>2. CASE x \in line.ptxes
        BY <1>1, <1>2, <2>2
    <2> QED
        BY <1>1, <2>1, <2>2
<1> QED
    BY <1>3, <1>4, <1>5, <1>6 DEF ShopInv

(* A prerequisite is compared to what stands at its path.                  *)
LEMMA StateStep ==
    ASSUME ShopInv, NEW s, shop_cmp_pathstate(s)
    PROVE  ShopInv'
<1>1. /\ pc = "prereqs" /\ s \in states
      /\ roadmap' = roadmap /\ disk' = disk /\ pc' = pc /\ cmdix' = cmdix
      /\ seen' = seen /\ lines' = lines /\ ptxes' = ptxes /\ winner' = winner /\ was' = was
      /\ states' = states \ {s} /\ CurrentPS' = Sampled(s) /\ ptx_dict' = Remaining(s)
    BY DEF shop_cmp_pathstate
<1>2. /\ cmdix \in DOMAIN roadmap /\ s \in Used(cmdix) /\ Control
      /\ \A x \in ptxes : x \in PTX /\ s \in roadmap[cmdix].prq[x]
    BY <1>1 DEF ShopInv, Control, Pending
<1>3. s \in PathState /\ \A t \in Used(cmdix) : t.path = s.path => t.dcode = s.dcode
    BY <1>2, UsedFacts
<1>4. s.path \in Paths /\ s.path # 0 /\ s.dcode \in BOOLEAN
    BY <1>3, StateFacts
<1>5. PICK e \in was[s.path] :
        Sampled(s) = Sample(s.path, e, s.dcode) /\ (Mismatch(s) <=> ~Same(s, e))
    <2>1. CASE CurrentPS.path = s.path
        <3>1. PICK e \in was[s.path], d \in BOOLEAN :
                /\ CurrentPS = Sample(s.path, e, d)
                /\ \A t \in Used(cmdix) : t.path = s.path => t.dcode = d
            BY <1>1, <1>4, <2>1 DEF ShopInv, SampleOK
        <3>2. Sampled(s) = Sample(s.path, e, s.dcode)
            BY <1>2, <2>1, <3>1 DEF Sampled
        <3>3. Mismatch(s) <=> ~Same(s, e)
            BY <1>3, <2>1, <3>2, DiffIsDifference DEF Mismatch
        <3> QED
            BY <3>2, <3>3
    <2>2. CASE CurrentPS.path # s.path
        <3>1. disk[s.path] \in was[s.path]
            BY <1>1, <1>4 DEF ShopInv, Control, Deciding
        <3>2. Sampled(s) = Sample(s.path, disk[s.path], s.dcode)
            BY <2>2 DEF Sampled, ps_stat
        <3>3. disk[s.path] = Nothing => ~Same(s, disk[s.path])
            BY <1>3, StateFacts DEF Same, Nothing
        <3>4. Mismatch(s) <=> ~Same(s, disk[s.path])
            BY <1>3, <2>2, <3>2, <3>3, DiffIsDifference DEF Mismatch
        <3> QED
            BY <3>1, <3>2, <3>4
    <2> QED
        BY <2>1, <2>2
<1>6. /\ ptx_dict' \subseteq ptx_dict
      /\ \A x \in ptx_dict \ ptx_dict' : ~Same(s, e) /\ s.path \notin Ignored /\ x \in ptxes
      /\ ~Same(s, e) /\ s.path \notin Ignored => ptx_dict' \cap ptxes = {}
    BY <1>1, <1>5 DEF Remaining
<1>7. Control'
    BY <1>1, <1>6 DEF ShopInv, Control
<1>8. SampleOK'
    <2>1. CurrentPS'.path = s.path
        BY <1>1, <1>5 DEF Sample
    <2> QED
        BY <1>1, <1>3, <1>4, <1>5, <2>1 DEF SampleOK, Used
<1>9. Pending'
    BY <1>1 DEF ShopInv, Pending, Used
<1>10. Evaluated'
    <2> SUFFICES ASSUME NEW x \in ptx_dict', NEW t \in Prereqs(cmdix, x)
                 PROVE  \/ \E f \in was[t.path] : Same(t, f)
                        \/ t \in states' /\ x \in ptxes
                        \/ \E l \in lines : t \in l.states /\ x \in l.ptxes
        BY <1>1 DEF Evaluated, Prereqs
    <2>1. \/ \E f \in was[t.path] : Same(t, f)
          \/ t \in states /\ x \in ptxes
          \/ \E l \in lines : t \in l.states /\ x \in l.ptxes
        BY <1>1, <1>6 DEF ShopInv, Evaluated
    <2>2. CASE t = s /\ x \in ptxes
        BY <1>5, <1>6, <2>2 DEF Prereqs
    <2> QED
        BY <1>1, <2>1, <2>2
<1>11. MarksOK' /\ RecycledWasValid'
    BY <1>1, <1>6 DEF ShopInv, MarksOK, RecycledWasValid, Prereqs
<1>12. DismissedForCause'
    <2> SUFFICES ASSUME NEW x \in PTX \ ptx_dict'
                 PROVE  \E i \in 1 .. cmdix : \E t \in Prereqs(i, x) :
                            \E f \in was[t.path] : ~Same(t, f)
        BY <1>1 DEF DismissedForCause, Prereqs
    <2>1. CASE x \notin ptx_dict
        BY <2>1 DEF ShopInv, DismissedForCause
    <2>2. CASE x \in ptx_dict
        <3>1. ~Same(s, e) /\ s \in Prereqs(cmdix, x)
            BY <1>2, <1>6, <2>2 DEF Prereqs
        <3>2. cmdix \in 1 .. cmdix
            BY <1>1, <1>2 DEF Control
        <3> QED
            BY <3>1, <3>2
    <2> QED
        BY <2>1, <2>2
<1> QED
    BY <1>7, <1>8, <1>9, <1>10, <1>11, <1>12 DEF ShopInv

(* The evaluation of an instance ends, with a winner or without.           *)
LEMMA WinnerStep == ShopInv /\ shop_ptx_winner => ShopInv'
<1> SUFFICES ASSUME ShopInv, shop_ptx_winner PROVE ShopInv'
    OBVIOUS
<1>1. /\ pc = "prereqs" /\ (ptx_dict = {} \/ (states = {} /\ lines = {}))
      /\ roadmap' = roadmap /\ disk' = disk /\ cmdix' = cmdix /\ ptx_dict' = ptx_dict
      /\ seen' = seen /\ was' = was
      /\ CurrentPS' = NoPS /\ states' = {} /\ lines' = {}
      /\ \/ pc' = "collect" /\ winner' = First(Eligible)
         \/ pc' = "find" /\ winner' = winner /\ Eligible = {}
    BY DEF shop_ptx_winner
<1>2. Control'
    <2>1. First(Eligible) \subseteq PTX
        BY DEF ShopInv, Control, First, Eligible
    <2> QED
        BY <1>1, <2>1 DEF ShopInv, Control, Deciding
<1>3. SampleOK' /\ Pending' /\ Evaluated'
    BY <1>1 DEF SampleOK, Pending, Evaluated, NoPS
<1>4. MarksOK'
    BY <1>1 DEF MarksOK, Eligible
<1>5. RecycledWasValid'
    <2>1. CASE winner' = winner
        BY <1>1, <2>1 DEF ShopInv, RecycledWasValid, Prereqs
    <2>2. CASE winner' = First(Eligible)
        <3> SUFFICES ASSUME NEW x \in winner'
                     PROVE  /\ roadmap[cmdix].prq[x] # {}
                            /\ ~roadmap[cmdix].kids
                            /\ \A s \in Prereqs(cmdix, x) : \E e \in was[s.path] : Same(s, e)
            BY <1>1 DEF RecycledWasValid, Prereqs
        <3>1. x \in ptx_dict \cap seen
            BY <2>2 DEF First, Eligible
        <3>2. roadmap[cmdix].prq[x] # {} /\ ~roadmap[cmdix].kids
            BY <1>1, <3>1 DEF ShopInv, MarksOK, Control
        <3>3. states = {} /\ lines = {}
            BY <1>1, <3>1
        <3> QED
            BY <1>1, <3>1, <3>2, <3>3 DEF ShopInv, Evaluated
    <2> QED
        BY <1>1, <2>1, <2>2
<1>6. DismissedForCause'
    BY <1>1 DEF ShopInv, DismissedForCause, Prereqs
<1> QED
    BY <1>2, <1>3, <1>4, <1>5, <1>6 DEF ShopInv

(* The steps after the decision, and the return without a winner.          *)
Late ==
    /\ pc' \in {"targets"} \cup Ended
    /\ UNCHANGED <<roadmap, cmdix, evaluation, winner, was>>
    /\ pc # "prereqs"

(* They leave the decision as it is.                                       *)
LEMMA LateStep == ShopInv /\ Late => ShopInv'
<1> SUFFICES ASSUME ShopInv, Late PROVE ShopInv'
    OBVIOUS
<1>1. /\ pc' \in {"targets"} \cup Ended /\ pc # "prereqs"
      /\ roadmap' = roadmap /\ cmdix' = cmdix /\ ptx_dict' = ptx_dict /\ seen' = seen
      /\ lines' = lines /\ states' = states /\ CurrentPS' = CurrentPS
      /\ winner' = winner /\ was' = was
    BY DEF Late, evaluation
<1>2. pc' \notin Deciding
    BY <1>1 DEF Deciding, Ended
<1>3. Control'
    BY <1>1, <1>2 DEF ShopInv, Control, Deciding
<1>4. SampleOK' /\ Pending' /\ Evaluated' /\ MarksOK'
    BY <1>1, <1>2 DEF ShopInv, SampleOK, Pending, Evaluated, MarksOK, Deciding
<1>5. RecycledWasValid' /\ DismissedForCause'
    BY <1>1 DEF ShopInv, RecycledWasValid, DismissedForCause, Prereqs
<1> QED
    BY <1>3, <1>4, <1>5 DEF ShopInv

(* Another process changes a file: what stood there is remembered.         *)
LEMMA ChangeStep ==
    ASSUME ShopInv, NEW p \in Paths, Change(p)
    PROVE  ShopInv'
<1>1. /\ roadmap' = roadmap /\ pc' = pc /\ cmdix' = cmdix /\ ptx_dict' = ptx_dict
      /\ seen' = seen /\ lines' = lines /\ states' = states /\ ptxes' = ptxes
      /\ CurrentPS' = CurrentPS /\ winner' = winner
      /\ was' = [was EXCEPT ![p] = @ \cup {disk'[p]}]
    BY DEF Change, evaluation
<1>2. \E e : disk' = [disk EXCEPT ![p] = e]
    BY DEF Change
<1>3. DOMAIN was' = DOMAIN was /\ \A q \in DOMAIN was : was[q] \subseteq was'[q]
    BY <1>1
<1>4. Control'
    <2>1. ASSUME pc \in Deciding
          PROVE  DOMAIN disk' = Paths /\ \A q \in Paths : disk'[q] \in was'[q]
        <3>1. DOMAIN disk = Paths /\ DOMAIN was = Paths /\ \A q \in Paths : disk[q] \in was[q]
            BY <2>1 DEF ShopInv, Control
        <3>2. DOMAIN disk' = Paths /\ \A q \in Paths \ {p} : disk'[q] = disk[q]
            BY <1>2, <3>1
        <3> QED
            BY <1>1, <1>3, <3>1, <3>2
    <2> QED
        BY <1>1, <1>3, <2>1 DEF ShopInv, Control
<1>5. \A s \in PathState : \A e \in was[s.path] : e \in was'[s.path]
    BY <1>3, StateFacts DEF ShopInv, Control
<1>6. SampleOK'
    BY <1>1, <1>3 DEF ShopInv, Control, SampleOK, Used
<1>7. \A i \in DOMAIN roadmap, x \in PTX : \A s \in Prereqs(i, x) : s \in PathState
    BY PrereqFacts DEF ShopInv, Control, Prereqs
<1>8. Evaluated'
    <2> SUFFICES ASSUME pc = "prereqs", NEW x \in ptx_dict, NEW s \in Prereqs(cmdix, x),
                        \E e \in was[s.path] : Same(s, e)
                 PROVE  \E e \in was'[s.path] : Same(s, e)
        BY <1>1 DEF ShopInv, Evaluated, Prereqs
    <2>1. s \in PathState
        BY <1>7 DEF ShopInv, Control
    <2> QED
        BY <1>5, <2>1
<1>9. RecycledWasValid'
    <2> SUFFICES ASSUME NEW x \in winner, NEW s \in Prereqs(cmdix, x)
                 PROVE  \E e \in was'[s.path] : Same(s, e)
        BY <1>1 DEF ShopInv, RecycledWasValid, Prereqs
    <2>1. s \in PathState
        BY <1>7 DEF ShopInv, Control
    <2>2. \E e \in was[s.path] : Same(s, e)
        BY DEF ShopInv, RecycledWasValid
    <2> QED
        BY <1>5, <2>1, <2>2
<1>10. DismissedForCause'
    <2> SUFFICES ASSUME NEW x \in PTX \ ptx_dict
                 PROVE  \E i \in 1 .. cmdix : \E s \in Prereqs(i, x) :
                            \E e \in was'[s.path] : ~Same(s, e)
        BY <1>1 DEF DismissedForCause, Prereqs
    <2>1. PICK i \in 1 .. cmdix : \E s \in Prereqs(i, x) : \E e \in was[s.path] : ~Same(s, e)
        BY DEF ShopInv, DismissedForCause
    <2>2. PICK s \in Prereqs(i, x) : \E e \in was[s.path] : ~Same(s, e)
        BY <2>1
    <2>3. s \in PathState
        BY <1>7 DEF ShopInv, Control
    <2> QED
        BY <1>5, <2>2, <2>3
<1>11. Pending' /\ MarksOK'
    BY <1>1 DEF ShopInv, Pending, MarksOK, Used
<1> QED
    BY <1>4, <1>6, <1>8, <1>9, <1>10, <1>11 DEF ShopInv

(* The invariant holds throughout.                                         *)
THEOREM ShopInductive == ShopSpec => []ShopInv
<1>1. ShopInv /\ [ShopNext]_shopVars => ShopInv'
    <2> SUFFICES ASSUME ShopInv, [ShopNext]_shopVars PROVE ShopInv'
        OBVIOUS
    <2>1. CASE shop_for_cmd
        BY <2>1, ForCmdStep
    <2>2. CASE \E line \in lines : shop_compare_prereqs(line)
        BY <2>2, LineStep
    <2>3. CASE \E s \in states : shop_cmp_pathstate(s)
        BY <2>3, StateStep
    <2>4. CASE shop_ptx_winner
        BY <2>4, WinnerStep
    <2>5. CASE shop_collect_targets
        <3>1. Late
            BY <2>5 DEF shop_collect_targets, Late
        <3> QED
            BY <3>1, LateStep
    <2>6. CASE \E s \in targets : target_done(s) \/ download_failed(s) \/ target_fatal(s)
        <3>1. PICK s \in targets : target_done(s) \/ download_failed(s) \/ target_fatal(s)
            BY <2>6
        <3>2. Late
            BY <3>1 DEF target_done, download_failed, target_fatal, Late, Ended
        <3> QED
            BY <3>2, LateStep
    <2>7. CASE shop_return
        <3>1. Late
            BY <2>7 DEF shop_return, Late, Ended
        <3> QED
            BY <3>1, LateStep
    <2>8. CASE \E p \in Paths : Change(p)
        BY <2>8, ChangeStep
    <2>9. CASE UNCHANGED shopVars
        BY <2>9 DEF shopVars, ShopInv, Control, SampleOK, Pending, Evaluated, MarksOK,
                    RecycledWasValid, DismissedForCause, Prereqs, Used
    <2> QED
        BY <2>1, <2>2, <2>3, <2>4, <2>5, <2>6, <2>7, <2>8, <2>9 DEF ShopNext
<1> QED
    BY <1>1, ShopInitially, PTL DEF ShopSpec

(* A recycled command was valid: the winner ran this instance, and each of *)
(* its prerequisites has been in place since shop() was called.            *)
THEOREM RecyclingSound == ShopSpec => []RecycledWasValid
<1>1. ShopInv => RecycledWasValid
    BY DEF ShopInv
<1> QED
    BY <1>1, ShopInductive, PTL

(* No PTX is dismissed unless one of its own prerequisites has been in     *)
(* another state.                                                          *)
THEOREM DismissalSound == ShopSpec => []DismissedForCause
<1>1. ShopInv => DismissedForCause
    BY DEF ShopInv
<1> QED
    BY <1>1, ShopInductive, PTL
-----------------------------------------------------------------------------
(* The disk *)

Typed(d) == d \in [Paths -> DiskEntry]

-----------------------------------------------------------------------------
(* Inodes are positive; Nothing is the one entry without an inode and the  *)
(* one of type "none".                                                     *)
LEMMA EntryFacts ==
    ASSUME NEW e \in DiskEntry
    PROVE  /\ e.type \in {"none", "file", "dir", "symlink"}
           /\ e = Nothing <=> e.type = "none"
           /\ e # Nothing => e.ino \in Inodes /\ e.ino # 0
           /\ e = Nothing => e.ino = 0
           /\ e.type = "symlink" => e.data \in Paths
           /\ e.type \in {"file", "dir"} => e.data \in Data \cup {Partial}
           /\ e.time \in Times \cup {Now} \cup {0}
<1>1. 0 \notin Inodes
    <2>1. Cardinality(Paths) \in Nat
        BY ShopConstantsOK, FS_CardinalityType DEF ShopConstantsOK
    <2> QED
        BY <2>1 DEF Inodes
<1>2. CASE e = Nothing
    BY <1>2 DEF Nothing
<1>3. CASE e \in [type : {"file", "dir"}, time : Times \cup {Now}, data : Data \cup {Partial}, ino : Inodes]
    BY <1>1, <1>3 DEF Nothing
<1>4. CASE e \in [type : {"symlink"}, time : Times \cup {Now}, data : Paths, ino : Inodes]
    BY <1>1, <1>4 DEF Nothing
<1> QED
    BY <1>2, <1>3, <1>4 DEF DiskEntry

(* There is always an inode that is not in use.                            *)
LEMMA FreshFacts ==
    ASSUME Typed(disk), NEW p \in Paths
    PROVE  FreshInode \in Inodes /\ \A q \in Paths : disk[q].ino # FreshInode
<1> DEFINE P == Cardinality(Paths)
<1>1. IsFiniteSet(Paths) /\ P \in Nat
    BY ShopConstantsOK, FS_CardinalityType DEF ShopConstantsOK
<1>2. P # 0
    BY <1>1, FS_EmptySet
<1> DEFINE f == [q \in Paths |-> disk[q].ino]
           T == {f[q] : q \in Paths}
<1>3. f \in Surjection(Paths, T)
    BY DEF Surjection
<1>4. IsFiniteSet(T) /\ Cardinality(T) <= P
    BY <1>1, <1>3, FS_Surjection
<1>5. Cardinality(T) \in Nat
    BY <1>4, FS_CardinalityType
<1>6. Cardinality(Inodes) = 2 * P
    <2>1. 2 * P \in Int /\ 1 \in Int /\ ~(1 > 2 * P)
        BY <1>1, <1>2
    <2>2. Cardinality(1 .. 2 * P) = 2 * P - 1 + 1
        BY <2>1, FS_Interval
    <2> QED
        BY <1>1, <2>2 DEF Inodes
<1>7. ~(Inodes \subseteq T)
    <2> SUFFICES ASSUME Inodes \in SUBSET T PROVE FALSE
        OBVIOUS
    <2>1. Cardinality(Inodes) <= Cardinality(T)
        BY <1>4, FS_Subset
    <2> HIDE DEF P, T
    <2> QED
        BY <1>1, <1>2, <1>4, <1>5, <1>6, <2>1
<1>8. \E n \in Inodes : \A q \in Paths : disk[q].ino # n
    BY <1>7
<1> QED
    BY <1>8 DEF FreshInode

(* A nonempty set of path states has one whose path is the first, and that *)
(* is the one taken up.                                                    *)
LEMMA NextFacts ==
    ASSUME targets \subseteq PathState, targets # {}
    PROVE  NextTarget \in targets /\ \A t \in targets : NextTarget.path <= t.path
<1> DEFINE T == {t.path : t \in targets}
<1>1. \A t \in targets : t.path \in Nat
    BY StateFacts, ShopConstantsOK DEF ShopConstantsOK
<1>2. T \subseteq Nat /\ T # {}
    BY <1>1
<1> DEFINE R == {ss \in Nat \X Nat : ss[1] < ss[2]}
<1>3. IsWellFoundedOn(R, Nat)
    BY NatLessThanWellFounded DEF OpToRel
<1>4. PICK x \in T : \A y \in T : ~(<<y, x>> \in R)
    BY <1>2, <1>3, WFMin
<1>5. ASSUME NEW y \in T PROVE x <= y
    <2>1. x \in Nat /\ y \in Nat
        BY <1>2
    <2>2. y < x => <<y, x>> \in R
        BY <2>1
    <2> HIDE DEF T, R
    <2> QED
        BY <1>4, <2>1, <2>2
<1>6. \E s \in targets : \A t \in targets : s.path <= t.path
    BY <1>5
<1> QED
    BY <1>6 DEF NextTarget

(* A file whose time or inode is changed is otherwise what it was.         *)
LEMMA TouchFacts ==
    ASSUME NEW e \in DiskEntry, e # Nothing, NEW i \in Inodes
    PROVE  /\ [e EXCEPT !.time = Now] \in DiskEntry
           /\ [e EXCEPT !.time = Now] # Nothing
           /\ [e EXCEPT !.time = Now].type = e.type
           /\ [e EXCEPT !.time = Now].data = e.data
           /\ [e EXCEPT !.time = Now].ino = e.ino
           /\ [e EXCEPT !.ino = i] \in DiskEntry
           /\ [e EXCEPT !.ino = i] # Nothing
           /\ [e EXCEPT !.ino = i].ino = i
<1>1. CASE e \in [type : {"file", "dir"}, time : Times \cup {Now}, data : Data \cup {Partial}, ino : Inodes]
    BY <1>1 DEF DiskEntry, Nothing
<1>2. CASE e \in [type : {"symlink"}, time : Times \cup {Now}, data : Paths, ino : Inodes]
    BY <1>2 DEF DiskEntry, Nothing
<1> QED
    BY <1>1, <1>2 DEF DiskEntry

(* What a path state of the roadmap holds.                                 *)
LEMMA PathStateFacts ==
    ASSUME NEW s \in PathState
    PROVE  /\ s.path \in Paths /\ s.path \in Nat
           /\ s.type \in {"file", "symlink", "link", "dir"}
           /\ s.time \in Times
           /\ s.type = "file" => s.data \in Data
           /\ s.type \in {"symlink", "link"} => s.data \in Paths
BY ShopConstantsOK DEF ShopConstantsOK, PathState

(* The file at a path is opened, through a symbolic link if there is one.  *)
LEMMA OpenedFacts ==
    ASSUME Typed(disk), NEW p \in Paths
    PROVE  /\ Opened(p) \in Paths
           /\ disk[p].type # "symlink" => Opened(p) = p
<1>1. disk[p] \in DiskEntry
    BY DEF Typed
<1> QED
    BY <1>1, EntryFacts DEF Opened

(* A file that is written: its hard links see the new contents, the inode  *)
(* is kept or, if there was no file, a new one, and nothing else changes.  *)
LEMMA WrittenFacts ==
    ASSUME Typed(disk), NEW p \in Paths,
           NEW time \in Times \cup {Now}, NEW data \in Data \cup {Partial},
           NEW f, f = Opened(p), NEW w, w = Written(p, time, data)
    PROVE  /\ Typed(w)
           /\ w[f].type = "file" /\ w[f].data = data /\ w[f] # Nothing
           /\ disk[f].type = "file" =>
                \A q \in Paths : IF disk[q].ino = disk[f].ino
                                 THEN w[q] = w[f] /\ w[q].ino = disk[q].ino
                                 ELSE w[q] = disk[q]
           /\ disk[f].type # "file" =>
                /\ \A q \in Paths \ {f} : w[q] = disk[q] /\ disk[q].ino # w[f].ino
<1>1. f \in Paths /\ disk[f] \in DiskEntry
    BY OpenedFacts DEF Typed
<1> DEFINE ino == IF disk[f].type = "file" THEN disk[f].ino ELSE FreshInode
           new == [type |-> "file", time |-> time, data |-> data, ino |-> ino]
<1>2. w = [q \in Paths |-> IF q = f \/ disk[q].ino = ino THEN new ELSE disk[q]]
    BY DEF Written
<1>3. FreshInode \in Inodes /\ \A q \in Paths : disk[q].ino # FreshInode
    BY FreshFacts
<1>4. disk[f].type = "file" => disk[f].ino \in Inodes
    BY <1>1, EntryFacts
<1>5. ino \in Inodes
    BY <1>3, <1>4
<1>6. new \in DiskEntry /\ new.type = "file" /\ new.data = data /\ new.ino = ino /\ new # Nothing
    BY <1>5 DEF DiskEntry, Nothing
<1> HIDE DEF new
<1>7. w[f] = new
    BY <1>1, <1>2
<1>8. Typed(w)
    BY <1>2, <1>6 DEF Typed
<1>9. ASSUME disk[f].type = "file", NEW q \in Paths
      PROVE  IF disk[q].ino = disk[f].ino
             THEN w[q] = w[f] /\ w[q].ino = disk[q].ino ELSE w[q] = disk[q]
    BY <1>2, <1>6, <1>7, <1>9
<1>10. ASSUME disk[f].type # "file", NEW q \in Paths \ {f}
       PROVE  w[q] = disk[q] /\ disk[q].ino # w[f].ino
    BY <1>2, <1>3, <1>6, <1>7, <1>10
<1> QED
    BY <1>6, <1>7, <1>8, <1>9, <1>10

-----------------------------------------------------------------------------
(* The order in which targets are processed: paths ascend, each occurs     *)
(* once, there are none before they are collected, and none is left when   *)
(* SHOP_RECYCLED is returned.                                              *)
Sequence ==
    /\ \A s \in wanted \ targets, t \in targets : s.path < t.path
    /\ \A s, t \in wanted : s.path = t.path => s = t
    /\ pc \in {"find", "prereqs"} => rc # "RECYCLED"
    /\ pc \in Deciding => wanted = {} /\ targets = {}
    /\ pc = "collect" => cmdix \in DOMAIN roadmap
    /\ pc = "done" /\ rc = "RECYCLED" => targets = {}

(* The parts of ShopTypeOK beside disk.                                    *)
Found ==
    /\ pc \in {"find", "prereqs", "collect", "targets"} \cup Ended
    /\ cmdix \in {0} \cup DOMAIN roadmap
    /\ ptx_dict \subseteq PTX /\ winner \subseteq PTX
    /\ states \subseteq PathState
    /\ CurrentPS.path \in {0} \cup Paths

FindingOK == Found /\ seen \subseteq PTX /\ ptxes \subseteq PTX

ResultOK ==
    /\ targets \subseteq wanted /\ wanted \subseteq PathState
    /\ rc \in {"ERR", "NOMATCH", "NOMATCH_AGG", "MUSTRUN", "MUSTRUN_AGG", "RECYCLED"}
    /\ changes \in 0 .. MaxChanges

TypeInv == Typed(disk) /\ FindingOK /\ ResultOK /\ Sequence

(* The states that are collected are path states.                          *)
LEMMA CollectedFacts ==
    ASSUME roadmap \in Roadmaps, cmdix \in DOMAIN roadmap
    PROVE  Collected \subseteq PathState
<1> DEFINE used == roadmap[cmdix].tgt
<1>1. \A x \in PTX : used[x] \subseteq PathState
    BY ShopConstantsOK DEF ShopConstantsOK
<1>2. \A l \in Lines(used) : l.states \subseteq UNION {used[x] : x \in PTX}
    BY DEF Lines
<1> HIDE DEF used
<1>3. UNION {used[x] : x \in PTX} \subseteq PathState
    BY <1>1
<1> QED
    BY <1>2, <1>3 DEF Collected, used

(* What of the type follows from the invariant of the evaluation.          *)
LEMMA FindingFacts == ShopInv => Found
<1> SUFFICES ASSUME ShopInv PROVE Found
    OBVIOUS
<1>1. cmdix \in {0} \cup DOMAIN roadmap
    <2>1. cmdix \in Nat /\ 1 .. cmdix \subseteq DOMAIN roadmap
        BY DEF ShopInv, Control
    <2>2. cmdix # 0 => cmdix \in 1 .. cmdix
        BY <2>1
    <2> QED
        BY <2>1, <2>2
<1>2. states \subseteq PathState
    <2>1. CASE pc = "prereqs"
        BY <2>1, UsedFacts DEF ShopInv, Control, Pending
    <2>2. CASE pc # "prereqs"
        BY <2>2 DEF ShopInv, Pending
    <2> QED
        BY <2>1, <2>2
<1>3. CurrentPS.path \in {0} \cup Paths
    BY DEF ShopInv, Pending, SampleOK
<1> QED
    BY <1>1, <1>2, <1>3 DEF ShopInv, Control, Deciding, Found

(* The type invariant holds when shop() is called.                         *)
LEMMA TypeInitially == ShopInit => TypeInv
<1> SUFFICES ASSUME ShopInit PROVE TypeInv
    OBVIOUS
<1> USE DEF ShopInit
<1>1. Typed(disk)
    BY ShopConstantsOK DEF ShopConstantsOK, Typed
<1>2. FindingOK
    BY DEF FindingOK, Found, NoPS
<1>3. ResultOK
    BY ShopConstantsOK DEF ShopConstantsOK, ResultOK
<1>4. Sequence
    BY DEF Sequence
<1> QED
    BY <1>1, <1>2, <1>3, <1>4 DEF TypeInv

(* The steps that decide on a winner keep the type.                        *)
LEMMA DecidingTypes ==
    ASSUME ShopInv, ShopInv', TypeInv,
           \/ shop_for_cmd
           \/ \E line \in lines : shop_compare_prereqs(line)
           \/ \E s \in states : shop_cmp_pathstate(s)
           \/ shop_ptx_winner
    PROVE  TypeInv'
<1>1. /\ UNCHANGED <<roadmap, disk, targets, wanted, changes>>
      /\ pc \in {"find", "prereqs"} /\ pc' \in Deciding
    BY DEF shop_for_cmd, shop_compare_prereqs, shop_cmp_pathstate, shop_ptx_winner, Deciding
<1>2. seen' \subseteq PTX
    BY DEF TypeInv, FindingOK, Found, shop_for_cmd, shop_compare_prereqs, shop_cmp_pathstate, shop_ptx_winner
<1>3. ptxes' \subseteq PTX
    <2>1. ASSUME NEW line \in lines, shop_compare_prereqs(line) PROVE ptxes' \subseteq PTX
        <3>1. line.ptxes \subseteq PTX
            BY <2>1 DEF ShopInv, Pending, shop_compare_prereqs
        <3> QED
            BY <2>1, <3>1 DEF TypeInv, FindingOK, shop_compare_prereqs
    <2> QED
        BY <2>1 DEF TypeInv, FindingOK, shop_for_cmd, shop_cmp_pathstate, shop_ptx_winner
<1>4. FindingOK'
    <2>1. Found'
        BY FindingFacts, PTL
    <2> QED
        BY <1>2, <1>3, <2>1 DEF FindingOK
<1>5. rc' = rc \/ (rc' \in {"MUSTRUN_AGG", "MUSTRUN", "NOMATCH", "NOMATCH_AGG", "RECYCLED"})
    BY DEF shop_for_cmd, shop_compare_prereqs, shop_cmp_pathstate, shop_ptx_winner
<1>6. ResultOK'
    BY <1>1, <1>5 DEF TypeInv, ResultOK
<1>7. pc' \in {"find", "prereqs"} => rc' # "RECYCLED"
    BY <1>1 DEF TypeInv, Sequence, shop_for_cmd, shop_compare_prereqs, shop_cmp_pathstate, shop_ptx_winner
<1>8. pc' = "collect" => cmdix' \in DOMAIN roadmap'
    BY DEF ShopInv, Control, shop_for_cmd, shop_compare_prereqs, shop_cmp_pathstate, shop_ptx_winner
<1>9. wanted = {} /\ targets = {}
    BY <1>1 DEF TypeInv, Sequence, Deciding
<1>10. Sequence'
    BY <1>1, <1>7, <1>8, <1>9 DEF Sequence, Deciding
<1> QED
    BY <1>1, <1>4, <1>6, <1>10 DEF TypeInv, Typed

(* So does the collection of targets.                                      *)
LEMMA CollectTypes ==
    ASSUME ShopInv, ShopInv', TypeInv, shop_collect_targets
    PROVE  TypeInv'
<1>1. PICK S \in SUBSET Newest(Collected) :
        /\ \A s, t \in S : s.path = t.path => s = t
        /\ targets' = S /\ wanted' = S
    BY DEF shop_collect_targets
<1>2. /\ pc = "collect" /\ pc' = "targets"
      /\ UNCHANGED <<roadmap, disk, cmdix, evaluation, rc, winner, was, changes>>
    BY DEF shop_collect_targets
<1>3. S \subseteq PathState
    <2>1. Collected \subseteq PathState
        BY <1>2, CollectedFacts DEF ShopInv, Control, TypeInv, Sequence
    <2> QED
        BY <2>1 DEF Newest
<1>4. Found'
    BY FindingFacts, PTL
<1>5. FindingOK'
    BY <1>2, <1>4 DEF TypeInv, FindingOK, evaluation
<1>6. ResultOK'
    BY <1>1, <1>2, <1>3 DEF TypeInv, ResultOK
<1>7. Sequence'
    BY <1>1, <1>2 DEF Sequence, Deciding
<1> QED
    BY <1>2, <1>5, <1>6, <1>7 DEF TypeInv, Typed

(* What happens to the disk when a target that is there is reused, or is   *)
(* a directory or symbolic link that need not be made: times change only.  *)
Touched ==
    /\ Typed(disk')
    /\ \A q \in Paths : /\ disk'[q].type = disk[q].type
                        /\ disk'[q].data = disk[q].data
                        /\ disk'[q].ino = disk[q].ino

(* What stands at a path is replaced by something new, or removed.         *)
Replaced(p) ==
    /\ Typed(disk')
    /\ \A q \in Paths \ {p} : disk'[q] = disk[q]
    /\ disk'[p] = Nothing \/ \A q \in Paths \ {p} : disk[q].ino # disk'[p].ino

(* An entry that only changes its time, if at all.                         *)
LEMMA UntouchedFacts == Typed(disk) /\ disk' = disk => Touched
BY DEF Touched, Typed

(* A reused target.                                                        *)
LEMMA ReuseEffect ==
    ASSUME Typed(disk), NEW s \in PathState, reuse(s)
    PROVE  Touched
<1>1. CASE OriginalDatestamp
    BY <1>1, UntouchedFacts DEF reuse
<1>2. CASE ~OriginalDatestamp
    <2> DEFINE i == disk[s.path].ino
    <2>1. /\ disk[s.path] # Nothing
          /\ disk' = [q \in Paths |-> IF disk[q].ino = i
                                      THEN [disk[q] EXCEPT !.time = Now] ELSE disk[q]]
        BY <1>2 DEF reuse, Reusable
    <2>2. i \in Inodes /\ i # 0
        BY <2>1, EntryFacts, PathStateFacts DEF Typed
    <2>3. ASSUME NEW q \in Paths
          PROVE  /\ disk'[q] \in DiskEntry
                 /\ disk'[q].type = disk[q].type
                 /\ disk'[q].data = disk[q].data
                 /\ disk'[q].ino = disk[q].ino
        <3>1. disk[q] \in DiskEntry
            BY DEF Typed
        <3>2. CASE disk[q].ino = i
            <4>1. disk[q] # Nothing
                BY <2>2, <3>1, <3>2, EntryFacts
            <4>2. disk'[q] = [disk[q] EXCEPT !.time = Now]
                BY <2>1, <3>2
            <4> QED
                BY <2>2, <3>1, <4>1, <4>2, TouchFacts
        <3>3. CASE disk[q].ino # i
            BY <2>1, <3>1, <3>3
        <3> QED
            BY <3>2, <3>3
    <2>4. Typed(disk')
        BY <2>1, <2>3 DEF Typed
    <2> QED
        BY <2>3, <2>4 DEF Touched
<1> QED
    BY <1>1, <1>2

(* The ways in which a target is put in place.                             *)
Fetched(s) ==
    /\ s.type = "file" /\ disk[s.path].type # "dir"
    /\ \E time \in Times \cup {Now} : disk' = Written(s.path, time, s.data)

Linking(s) ==
    /\ s.type = "link" /\ s.data # s.path
    /\ disk[s.data] # Nothing
    /\ disk' = [disk EXCEPT ![s.path] = disk[s.data]]

Made(s) ==
    /\ s.type = "symlink" \/ (s.type = "dir" /\ disk[s.path] = Nothing)
    /\ Replaced(s.path)
    /\ InPlace(s)'

(* Something else stands where a directory belongs.                        *)
Obstructed(s) == s.type = "dir" /\ disk[s.path].type \notin {"none", "dir"}

Kept(s) == s.type # "link" /\ Touched /\ (InPlace(s)' \/ Obstructed(s))

(* A target that is found as it should be is in place.                     *)
LEMMA ReuseKeeps ==
    ASSUME Typed(disk), NEW s \in PathState, reuse(s)
    PROVE  Kept(s)
<1> DEFINE e == disk[s.path]
<1>1. Touched
    BY ReuseEffect
<1>2. s.type \in {"file", "dir"} /\ e # Nothing /\ ~ps_diff(s, Sample(s.path, e, s.dcode))
    BY DEF reuse, Reusable, ps_stat
<1>3. Same(s, e)
    BY <1>2, DiffIsDifference
<1>4. s.path \in Paths /\ s.type \in {"file", "symlink", "link", "dir"}
    BY PathStateFacts
<1>5. disk'[s.path].type = s.type /\ (s.dcode => disk'[s.path].data = s.data)
    BY <1>1, <1>3, <1>4 DEF Touched, Same
<1>6. disk'[s.path] # Nothing
    BY <1>2, <1>5 DEF Nothing
<1>7. InPlace(s)'
    BY <1>2, <1>5, <1>6 DEF InPlace
<1> QED
    BY <1>1, <1>2, <1>7 DEF Kept

(* Something new at a path.                                                *)
LEMMA ReplaceFacts ==
    ASSUME Typed(disk), NEW p \in Paths, NEW e \in DiskEntry,
           e = Nothing \/ e.ino = FreshInode,
           disk' = [disk EXCEPT ![p] = e]
    PROVE  Replaced(p) /\ disk'[p] = e
<1>1. \A q \in Paths : disk[q].ino # FreshInode
    BY FreshFacts
<1>2. disk'[p] = e /\ \A q \in Paths \ {p} : disk'[q] = disk[q]
    BY DEF Typed
<1>3. Typed(disk')
    BY DEF Typed
<1> QED
    BY <1>1, <1>2, <1>3 DEF Replaced

(* A directory that is there or is made.                                   *)
LEMMA MkdirEffect ==
    ASSUME Typed(disk), NEW s \in PathState, mkdir(s)
    PROVE  Kept(s) \/ Made(s)
<1>1. s.type = "dir" /\ s.path \in Paths
    BY PathStateFacts DEF mkdir
<1>2. CASE disk[s.path] # Nothing
    <2>1. disk' = disk
        BY <1>2 DEF mkdir
    <2>2. disk[s.path] \in DiskEntry /\ disk[s.path].type # "none"
        <3>1. disk[s.path] \in DiskEntry
            BY <1>1 DEF Typed
        <3> QED
            BY <1>2, <3>1, EntryFacts
    <2>3. InPlace(s)' \/ Obstructed(s)
        BY <1>1, <2>1, <2>2 DEF InPlace, Obstructed
    <2> QED
        BY <1>1, <2>1, <2>3, UntouchedFacts DEF Kept
<1>3. CASE disk[s.path] = Nothing
    <2> DEFINE e == [type |-> "dir", time |-> Now, data |-> Partial, ino |-> FreshInode]
    <2>1. disk' = [disk EXCEPT ![s.path] = e]
        BY <1>3 DEF mkdir
    <2>2. e \in DiskEntry /\ e.ino = FreshInode /\ e.type = "dir"
        BY <1>1, FreshFacts DEF DiskEntry, Nothing
    <2> HIDE DEF e
    <2>3. Replaced(s.path) /\ disk'[s.path] = e
        BY <1>1, <2>1, <2>2, ReplaceFacts
    <2>4. InPlace(s)'
        BY <1>1, <2>2, <2>3 DEF InPlace
    <2> QED
        BY <1>1, <1>3, <2>3, <2>4 DEF Made
<1> QED
    BY <1>2, <1>3

(* A symbolic link that is there or is made.                               *)
LEMMA SymlinkEffect ==
    ASSUME Typed(disk), NEW s \in PathState, symlink(s)
    PROVE  Kept(s) \/ Made(s)
<1>1. s.type = "symlink" /\ s.path \in Paths /\ s.data \in Paths
    BY PathStateFacts DEF symlink
<1>2. CASE disk[s.path].type = "symlink" /\ disk[s.path].data = s.data
    <2>1. disk' = disk
        BY <1>2 DEF symlink
    <2>2. InPlace(s)'
        BY <1>1, <1>2, <2>1 DEF InPlace
    <2> QED
        BY <1>1, <2>1, <2>2, UntouchedFacts DEF Kept
<1>3. CASE ~(disk[s.path].type = "symlink" /\ disk[s.path].data = s.data)
    <2> DEFINE e == [type |-> "symlink", time |-> Now, data |-> s.data, ino |-> FreshInode]
    <2>1. disk' = [disk EXCEPT ![s.path] = e]
        BY <1>3 DEF symlink
    <2>2. e \in DiskEntry /\ e.ino = FreshInode /\ e.type = "symlink" /\ e.data = s.data
        BY <1>1, FreshFacts DEF DiskEntry
    <2> HIDE DEF e
    <2>3. Replaced(s.path) /\ disk'[s.path] = e
        BY <1>1, <2>1, <2>2, ReplaceFacts
    <2>4. InPlace(s)'
        BY <1>1, <2>2, <2>3 DEF InPlace
    <2> QED
        BY <1>1, <2>3, <2>4 DEF Made
<1> QED
    BY <1>2, <1>3

(* A target is put in place in one of these ways, and the disk stays one.  *)
LEMMA DoneEffect ==
    ASSUME Typed(disk), NEW s \in PathState, target_done(s)
    PROVE  Typed(disk') /\ (Kept(s) \/ Made(s) \/ Fetched(s) \/ Linking(s))
<1>1. CASE reuse(s)
    BY <1>1, ReuseKeeps DEF Kept, Touched
<1>2. CASE Fetchable(s) /\ disk' = Downloaded(s)
    <2> DEFINE time == IF OriginalDatestamp THEN s.time ELSE Now
    <2>1. /\ s.type = "file" /\ disk[s.path].type # "dir"
          /\ s.path \in Paths /\ s.data \in Data
          /\ time \in Times \cup {Now}
          /\ disk' = Written(s.path, time, s.data)
        BY <1>2, PathStateFacts DEF Fetchable, Downloaded
    <2> HIDE DEF time
    <2>2. Typed(disk')
        BY <2>1, WrittenFacts
    <2> QED
        BY <2>1, <2>2 DEF Fetched
<1>3. CASE mkdir(s)
    BY <1>3, MkdirEffect DEF Kept, Touched, Made, Replaced
<1>4. CASE link(s)
    <2>1. /\ s.type = "link" /\ s.data # s.path /\ s.path \in Paths /\ s.data \in Paths
          /\ disk[s.data].type \in {"file", "symlink"}
          /\ disk' = [disk EXCEPT ![s.path] = disk[s.data]]
        BY <1>4, PathStateFacts DEF link, CanLink
    <2>2. Typed(disk') /\ disk[s.data] # Nothing
        BY <2>1 DEF Typed, Nothing
    <2> QED
        BY <2>1, <2>2 DEF Linking
<1>5. CASE symlink(s)
    BY <1>5, SymlinkEffect DEF Kept, Touched, Made, Replaced
<1> QED
    BY <1>1, <1>2, <1>3, <1>4, <1>5 DEF target_done

(* A failed download leaves nothing at the path of its target.             *)
Failed(s) ==
    /\ s.type = "file"
    /\ disk' = [Written(s.path, Now, Partial) EXCEPT ![s.path] = Nothing]

Dropped(s) == s.type = "link" /\ Replaced(s.path) /\ disk'[s.path] = Nothing

(* A target that could not be put in place.                                *)
LEMMA FailedEffect ==
    ASSUME Typed(disk), NEW s \in PathState, download_failed(s) \/ target_fatal(s)
    PROVE  Typed(disk') /\ (Touched \/ Failed(s) \/ Dropped(s))
<1>1. s.path \in Paths
    BY PathStateFacts
<1>2. Nothing \in DiskEntry
    BY DEF DiskEntry
<1>3. CASE download_failed(s)
    <2>1. Failed(s)
        BY <1>3 DEF download_failed, Fetchable, Failed, StubRemoved, StubLeft
    <2> DEFINE w == Written(s.path, Now, Partial)
    <2>2. Now \in Times \cup {Now} /\ Partial \in Data \cup {Partial}
        OBVIOUS
    <2>3. Typed(w)
        <3>1. PICK time \in Times \cup {Now}, data \in Data \cup {Partial} :
                time = Now /\ data = Partial
            BY <2>2
        <3>2. w = Written(s.path, time, data)
            BY <3>1
        <3> HIDE DEF w
        <3> QED
            BY <1>1, <3>2, WrittenFacts
    <2> HIDE DEF w
    <2>4. Typed([w EXCEPT ![s.path] = Nothing])
        BY <1>2, <2>3 DEF Typed
    <2> QED
        BY <2>1, <2>4 DEF Failed, w
<1>4. CASE target_fatal(s) /\ disk' # disk
    <2>1. s.type = "link" /\ disk' = [disk EXCEPT ![s.path] = Nothing]
        BY <1>4 DEF target_fatal, Removed
    <2>2. Replaced(s.path) /\ disk'[s.path] = Nothing
        BY <1>1, <1>2, <2>1, ReplaceFacts
    <2> QED
        BY <2>1, <2>2 DEF Dropped, Replaced
<1>5. CASE disk' = disk
    BY <1>5, UntouchedFacts DEF Touched
<1> QED
    BY <1>3, <1>4, <1>5

(* Another process puts something new at a path, or removes it.            *)
LEMMA ChangeEffect ==
    ASSUME Typed(disk), NEW p \in Paths, Change(p)
    PROVE  Replaced(p)
<1>1. PICK d \in Disks :
        disk' = [disk EXCEPT ![p] = IF d[p] = Nothing THEN Nothing ELSE [d[p] EXCEPT !.ino = FreshInode]]
    BY DEF Change
<1>2. d[p] \in DiskEntry
    BY ShopConstantsOK DEF ShopConstantsOK
<1> DEFINE e == IF d[p] = Nothing THEN Nothing ELSE [d[p] EXCEPT !.ino = FreshInode]
<1>3. FreshInode \in Inodes
    BY FreshFacts
<1>4. e \in DiskEntry /\ (e = Nothing \/ e.ino = FreshInode)
    BY <1>2, <1>3, TouchFacts
<1>5. disk' = [disk EXCEPT ![p] = e]
    BY <1>1
<1> HIDE DEF e
<1> QED
    BY <1>4, <1>5, ReplaceFacts

(* The steps that process targets keep the type.                           *)
LEMMA TargetTypes ==
    ASSUME ShopInv', TypeInv, NEW s \in targets,
           target_done(s) \/ download_failed(s) \/ target_fatal(s)
    PROVE  TypeInv'
<1>1. s \in PathState
    BY DEF TypeInv, ResultOK
<1>2. Typed(disk')
    BY <1>1, DoneEffect, FailedEffect DEF TypeInv
<1>3. Found'
    BY FindingFacts, PTL
<1>4. /\ pc = "targets" /\ s = NextTarget
      /\ UNCHANGED <<roadmap, cmdix, evaluation, winner, wanted, changes>>
      /\ rc' = rc \/ rc' = "ERR"
      /\ targets' = targets \/ targets' = targets \ {s}
      /\ pc' \in {"targets", "exited", "aborted"}
    BY DEF target_done, download_failed, target_fatal
<1>5. FindingOK'
    BY <1>3, <1>4 DEF TypeInv, FindingOK, evaluation
<1>6. ResultOK'
    BY <1>4 DEF TypeInv, ResultOK
<1>7. \A t \in targets : s.path <= t.path
    BY <1>4, NextFacts DEF TypeInv, ResultOK
<1>8. ASSUME NEW t \in wanted' \ targets', NEW u \in targets' PROVE t.path < u.path
    <2>1. t.path \in Nat /\ u.path \in Nat /\ s.path \in Nat
        BY <1>1, <1>4, PathStateFacts DEF TypeInv, ResultOK
    <2>2. CASE t \in targets
        <3>1. t = s /\ u # s /\ u \in targets /\ u \in wanted /\ s \in wanted
            BY <1>4, <2>2 DEF TypeInv, ResultOK
        <3>2. s.path # u.path
            BY <3>1 DEF TypeInv, Sequence
        <3> QED
            BY <1>7, <2>1, <3>1, <3>2
    <2>3. CASE t \notin targets
        BY <1>4, <2>3 DEF TypeInv, Sequence
    <2> QED
        BY <2>2, <2>3
<1>9. Sequence'
    BY <1>4, <1>8 DEF TypeInv, Sequence, Deciding
<1> QED
    BY <1>2, <1>5, <1>6, <1>9 DEF TypeInv

(* The type invariant is inductive, given that of the evaluation.          *)
LEMMA TypeStep == ShopInv /\ ShopInv' /\ TypeInv /\ [ShopNext]_shopVars => TypeInv'
<1> SUFFICES ASSUME ShopInv, ShopInv', TypeInv, [ShopNext]_shopVars PROVE TypeInv'
    OBVIOUS
<1>1. CASE \/ shop_for_cmd
           \/ \E line \in lines : shop_compare_prereqs(line)
           \/ \E s \in states : shop_cmp_pathstate(s)
           \/ shop_ptx_winner
    BY <1>1, DecidingTypes
<1>2. CASE shop_collect_targets
    BY <1>2, CollectTypes
<1>3. CASE \E s \in targets : target_done(s) \/ download_failed(s) \/ target_fatal(s)
    BY <1>3, TargetTypes
<1>4. CASE shop_return
    <2>1. /\ pc' = "done"
          /\ pc = "find" \/ (pc = "targets" /\ targets = {})
          /\ UNCHANGED <<roadmap, disk, cmdix, evaluation, rc, winner, targets, wanted, changes>>
        BY <1>4 DEF shop_return
    <2>2. Found'
        BY FindingFacts, PTL
    <2>3. FindingOK' /\ ResultOK'
        BY <2>1, <2>2 DEF TypeInv, FindingOK, ResultOK, evaluation
    <2>4. Sequence'
        BY <2>1 DEF TypeInv, Sequence, Deciding
    <2> QED
        BY <2>1, <2>3, <2>4 DEF TypeInv, Typed
<1>5. CASE \E p \in Paths : Change(p)
    <2>1. PICK p \in Paths : Change(p)
        BY <1>5
    <2>2. /\ UNCHANGED <<roadmap, pc, cmdix, evaluation, rc, winner, targets, wanted>>
          /\ changes < MaxChanges /\ changes' = changes + 1
        BY <2>1 DEF Change
    <2>3. Typed(disk')
        BY <2>1, ChangeEffect DEF TypeInv, Replaced
    <2>4. Found'
        BY FindingFacts, PTL
    <2>5. FindingOK' /\ Sequence'
        BY <2>2, <2>4 DEF TypeInv, FindingOK, Sequence, evaluation
    <2>6. ResultOK'
        BY <2>2, ShopConstantsOK DEF TypeInv, ResultOK, ShopConstantsOK
    <2> QED
        BY <2>3, <2>5, <2>6 DEF TypeInv
<1>6. CASE UNCHANGED shopVars
    BY <1>6 DEF shopVars, TypeInv, Typed, FindingOK, Found, ResultOK, Sequence
<1> QED
    BY <1>1, <1>2, <1>3, <1>4, <1>5, <1>6 DEF ShopNext

(* It holds throughout.                                                    *)
THEOREM TypeInductive == ShopSpec => []TypeInv
<1> QED
    BY ShopInductive, TypeInitially, TypeStep, PTL DEF ShopSpec

(* Whatever the roadmap and the disk, and whatever other processes do, the *)
(* state of shopping has its type; in particular a new inode can always be *)
(* found for what is put on the disk.                                      *)
THEOREM ShopTypes == ShopSpec => []ShopTypeOK
<1>1. TypeInv => ShopTypeOK
    BY DEF TypeInv, Typed, FindingOK, Found, ResultOK, ShopTypeOK
<1> QED
    BY <1>1, TypeInductive, PTL

-----------------------------------------------------------------------------
Linked(p) == \E l \in wanted : l.type = "link" /\ l.path = p

(* Only the links among the targets share files.                           *)
Unshared(d) ==
    \A p, q \in Paths :
        p # q /\ d[p] # Nothing /\ d[p].ino = d[q].ino => Linked(p) \/ Linked(q)

(* What stands at a path was there before, or is the winner's.             *)
Explained(p) ==
    \/ disk[p] = Nothing
    \/ \E e \in was[p] : e.type = disk[p].type /\ e.data = disk[p].data
    \/ \E s \in wanted : s.path = p /\ (InPlace(s) \/ s.type = "link")

Accounted == NoneFollowed => \A p \in Paths : Explained(p)

(* The targets processed so far are in place.                              *)
Achieved ==
    (/\ NoneFollowed /\ NoneInTheWay /\ LinksInOrder
     /\ rc = "RECYCLED" /\ changes = 0 /\ pc \in {"targets", "done"})
        => \A s \in wanted \ targets : InPlace(s)

DiskInv == Unshared(disk) /\ Accounted /\ Achieved

-----------------------------------------------------------------------------
SameInodes(d, e) == \A q \in Paths : e[q].ino = d[q].ino

NewAt(d, e, p) ==
    /\ \A q \in Paths \ {p} : e[q] = d[q]
    /\ e[p] = Nothing \/ \A q \in Paths \ {p} : d[q].ino # e[p].ino

(* Two paths come to share a file in no other way than by link().          *)
LEMMA SharingKept ==
    ASSUME NEW d, NEW e, Typed(d), Typed(e), Unshared(d),
           SameInodes(d, e) \/ \E p \in Paths : NewAt(d, e, p)
    PROVE  Unshared(e)
<1> SUFFICES ASSUME NEW p \in Paths, NEW q \in Paths,
                    p # q, e[p] # Nothing, e[p].ino = e[q].ino
             PROVE  Linked(p) \/ Linked(q)
    BY DEF Unshared
<1>1. d[p] \in DiskEntry /\ d[q] \in DiskEntry /\ e[p] \in DiskEntry /\ e[q] \in DiskEntry
    BY DEF Typed
<1>2. e[p].ino # 0 /\ (d[p] = Nothing => d[p].ino = 0) /\ (e[q] = Nothing => e[q].ino = 0)
    BY <1>1, EntryFacts
<1>3. CASE SameInodes(d, e)
    BY <1>2, <1>3 DEF SameInodes, Unshared
<1>4. ASSUME NEW x \in Paths, NewAt(d, e, x) PROVE Linked(p) \/ Linked(q)
    BY <1>2, <1>4 DEF NewAt, Unshared
<1> QED
    BY <1>3, <1>4

(* A file that is written shares its inode with the same paths as before.  *)
LEMMA WrittenShares ==
    ASSUME Typed(disk), NEW p \in Paths,
           NEW time \in Times \cup {Now}, NEW data \in Data \cup {Partial},
           NEW w, w = Written(p, time, data), Unshared(disk)
    PROVE  Typed(w) /\ Unshared(w)
<1>1. PICK f : f = Opened(p)
    OBVIOUS
<1>2. f \in Paths
    BY <1>1, OpenedFacts
<1>3. /\ Typed(w)
      /\ disk[f].type = "file" =>
            \A q \in Paths : IF disk[q].ino = disk[f].ino
                             THEN w[q] = w[f] /\ w[q].ino = disk[q].ino
                             ELSE w[q] = disk[q]
      /\ disk[f].type # "file" =>
            \A q \in Paths \ {f} : w[q] = disk[q] /\ disk[q].ino # w[f].ino
    BY <1>1, WrittenFacts
<1>4. CASE disk[f].type = "file"
    <2>1. SameInodes(disk, w)
        BY <1>3, <1>4 DEF SameInodes
    <2> QED
        BY <1>3, <2>1, SharingKept
<1>5. CASE disk[f].type # "file"
    <2>1. NewAt(disk, w, f)
        BY <1>3, <1>5 DEF NewAt
    <2> QED
        BY <1>2, <1>3, <2>1, SharingKept
<1> QED
    BY <1>4, <1>5

(* Nor does any step that processes a target.                              *)
LEMMA TargetShares ==
    ASSUME TypeInv, Unshared(disk), NEW s \in targets,
           target_done(s) \/ download_failed(s) \/ target_fatal(s)
    PROVE  Unshared(disk')
<1>1. s \in PathState /\ s \in wanted /\ Typed(disk) /\ s.path \in Paths
    BY PathStateFacts DEF TypeInv, ResultOK
<1>2. /\ Typed(disk')
      /\ Touched \/ Replaced(s.path) \/ Fetched(s) \/ Linking(s) \/ Failed(s)
    BY <1>1, DoneEffect, FailedEffect DEF Kept, Made, Dropped
<1>3. CASE Touched
    BY <1>1, <1>2, <1>3, SharingKept DEF Touched, SameInodes
<1>4. CASE Replaced(s.path)
    <2>1. NewAt(disk, disk', s.path)
        BY <1>4 DEF Replaced, NewAt
    <2> QED
        BY <1>1, <1>2, <2>1, SharingKept
<1>5. CASE Fetched(s)
    <2>1. PICK time \in Times \cup {Now} : disk' = Written(s.path, time, s.data)
        BY <1>5 DEF Fetched
    <2>2. s.data \in Data \cup {Partial}
        BY <1>1, <1>5, PathStateFacts DEF Fetched
    <2> QED
        BY <1>1, <2>1, <2>2, WrittenShares
<1>6. CASE Linking(s)
    <2>1. Linked(s.path) /\ \A q \in Paths \ {s.path} : disk'[q] = disk[q]
        BY <1>1, <1>6 DEF Linking, Linked, Typed
    <2> QED
        BY <2>1 DEF Unshared
<1>7. CASE Failed(s)
    <2>1. PICK time \in Times \cup {Now}, data \in Data \cup {Partial} :
            time = Now /\ data = Partial
        OBVIOUS
    <2>2. PICK w : w = Written(s.path, time, data)
        OBVIOUS
    <2>3. Typed(w) /\ Unshared(w)
        BY <1>1, <2>2, WrittenShares
    <2>4. disk' = [w EXCEPT ![s.path] = Nothing]
        BY <1>7, <2>1, <2>2 DEF Failed
    <2>5. NewAt(w, disk', s.path)
        BY <1>1, <2>3, <2>4 DEF NewAt, Typed
    <2> QED
        BY <1>1, <1>2, <2>3, <2>5, SharingKept
<1> QED
    BY <1>2, <1>3, <1>4, <1>5, <1>6, <1>7

-----------------------------------------------------------------------------
(* What explains the file at a path does so as long as its type and its    *)
(* contents stay.                                                          *)
LEMMA ExplainedKept ==
    ASSUME TypeInv, Typed(disk'), NEW p \in Paths, wanted' = wanted,
           was[p] \subseteq was'[p],
           disk'[p].type = disk[p].type, disk'[p].data = disk[p].data,
           Explained(p)
    PROVE  Explained(p)'
<1>1. disk[p] \in DiskEntry /\ disk'[p] \in DiskEntry
    BY DEF TypeInv, Typed
<1>2. disk[p] = Nothing <=> disk'[p] = Nothing
    BY <1>1, EntryFacts
<1>3. CASE disk[p] = Nothing
    BY <1>2, <1>3 DEF Explained
<1>4. CASE \E e \in was[p] : e.type = disk[p].type /\ e.data = disk[p].data
    BY <1>4 DEF Explained
<1>5. CASE \E s \in wanted : s.path = p /\ (InPlace(s) \/ s.type = "link")
    <2>1. PICK s \in wanted : s.path = p /\ (InPlace(s) \/ s.type = "link")
        BY <1>5
    <2>2. s.type # "link" => InPlace(s)'
        BY <1>2, <2>1 DEF InPlace
    <2> QED
        BY <2>1, <2>2 DEF Explained
<1> QED
    BY <1>3, <1>4, <1>5 DEF Explained

(* Where a file is to be fetched there is no symbolic link, and no path    *)
(* but a linked one shares the file that is there.                         *)
LEMMA FileFacts ==
    ASSUME TypeInv, Unshared(disk), Accounted, NoneFollowed,
           NEW s \in wanted, s.type = "file"
    PROVE  /\ disk[s.path].type # "symlink"
           /\ Opened(s.path) = s.path
           /\ ~Linked(s.path)
           /\ \A q \in Paths \ {s.path} :
                disk[s.path].type = "file" /\ disk[q].ino = disk[s.path].ino => Linked(q)
<1>1. s.path \in Paths /\ Typed(disk) /\ \A t \in wanted : t.path = s.path => t = s
    BY PathStateFacts DEF TypeInv, ResultOK, Sequence
<1>2. disk[s.path].type # "symlink"
    <2>1. Explained(s.path)
        BY <1>1 DEF Accounted
    <2>2. InPlace(s) => disk[s.path].type = "file"
        BY DEF InPlace
    <2> QED
        BY <1>1, <2>1, <2>2 DEF Explained, NoneFollowed, Nothing
<1>3. Opened(s.path) = s.path
    BY <1>1, <1>2, OpenedFacts
<1>4. ~Linked(s.path)
    BY <1>1 DEF Linked
<1>5. ASSUME NEW q \in Paths \ {s.path}, disk[s.path].type = "file", disk[q].ino = disk[s.path].ino
      PROVE  Linked(q)
    <2>1. disk[s.path] # Nothing
        BY <1>5 DEF Nothing
    <2> QED
        BY <1>1, <1>4, <1>5, <2>1 DEF Unshared
<1> QED
    BY <1>2, <1>3, <1>4, <1>5

(* Where a directory is to be made there is nothing else.                  *)
LEMMA DirFacts ==
    ASSUME TypeInv, Accounted, NoneFollowed, NoneInTheWay, NEW s \in wanted
    PROVE  ~Obstructed(s)
<1> SUFFICES ASSUME s.type = "dir" PROVE disk[s.path].type \in {"none", "dir"}
    BY DEF Obstructed
<1>1. s.path \in Paths /\ \A t \in wanted : t.path = s.path => t = s
    BY PathStateFacts DEF TypeInv, ResultOK, Sequence
<1>2. Explained(s.path)
    BY <1>1 DEF Accounted
<1>3. InPlace(s) => disk[s.path].type = "dir"
    BY DEF InPlace
<1> QED
    BY <1>1, <1>2, <1>3 DEF Explained, NoneInTheWay, Nothing

(* A file that is written where no symbolic link stood.                    *)
PlainWrite(p, w, data) ==
    /\ Typed(w)
    /\ w[p].type = "file" /\ w[p].data = data
    /\ \A q \in Paths \ {p} : w[q] = disk[q] \/ Linked(q)
    /\ disk[p].type = "file" =>
            \A q \in Paths : /\ w[q].ino = disk[q].ino
                             /\ disk[q] # Nothing => w[q] # Nothing
    /\ disk[p].type # "file" => \A q \in Paths \ {p} : w[q] = disk[q]

(* Of a target that is a file nothing but links sees the write.            *)
LEMMA PlainlyWritten ==
    ASSUME TypeInv, Unshared(disk), Accounted, NoneFollowed,
           NEW s \in wanted, s.type = "file",
           NEW time \in Times \cup {Now}, NEW data \in Data \cup {Partial},
           NEW w, w = Written(s.path, time, data)
    PROVE  PlainWrite(s.path, w, data)
<1>1. s.path \in Paths /\ Typed(disk)
    BY PathStateFacts DEF TypeInv, ResultOK
<1>2. PICK f : f = Opened(s.path)
    OBVIOUS
<1>3. f = s.path
    BY <1>2, FileFacts
<1>4. /\ Typed(w)
      /\ w[f].type = "file" /\ w[f].data = data /\ w[f] # Nothing
      /\ disk[f].type = "file" =>
            \A q \in Paths : IF disk[q].ino = disk[f].ino
                             THEN w[q] = w[f] /\ w[q].ino = disk[q].ino
                             ELSE w[q] = disk[q]
      /\ disk[f].type # "file" =>
            \A q \in Paths \ {f} : w[q] = disk[q] /\ disk[q].ino # w[f].ino
    BY <1>1, <1>2, WrittenFacts
<1>5. \A q \in Paths \ {s.path} : w[q] = disk[q] \/ Linked(q)
    BY <1>3, <1>4, FileFacts
<1>6. ASSUME disk[s.path].type = "file", NEW q \in Paths
      PROVE  w[q].ino = disk[q].ino /\ (disk[q] # Nothing => w[q] # Nothing)
    BY <1>3, <1>4, <1>6
<1> QED
    BY <1>3, <1>4, <1>5, <1>6 DEF PlainWrite

(* After any step that processes a target each path is accounted for.      *)
LEMMA TargetAccounts ==
    ASSUME TypeInv, DiskInv, NEW s \in targets,
           target_done(s) \/ download_failed(s) \/ target_fatal(s),
           DOMAIN was = Paths
    PROVE  Accounted'
<1>1. s \in PathState /\ s \in wanted /\ Typed(disk) /\ s.path \in Paths
    BY PathStateFacts DEF TypeInv, ResultOK
<1>2. wanted' = wanted /\ was' = was
    BY DEF target_done, download_failed, target_fatal
<1> SUFFICES ASSUME NoneFollowed', NEW p \in Paths PROVE Explained(p)'
    BY DEF Accounted
<1>3. NoneFollowed /\ Explained(p) /\ Unshared(disk) /\ Accounted
    BY <1>2 DEF NoneFollowed, DiskInv, Accounted
<1>4. /\ Typed(disk')
      /\ Kept(s) \/ Made(s) \/ Fetched(s) \/ Linking(s) \/ Touched \/ Failed(s) \/ Dropped(s)
    BY <1>1, DoneEffect, FailedEffect
<1>5. disk'[p] = disk[p] => Explained(p)'
    BY <1>2, <1>3, <1>4, ExplainedKept
<1>6. Linked(p) => Explained(p)'
    BY <1>2 DEF Linked, Explained
<1>7. p = s.path /\ InPlace(s)' => Explained(p)'
    BY <1>1, <1>2 DEF Explained
<1>8. CASE Kept(s) \/ Touched
    BY <1>2, <1>3, <1>4, <1>8, ExplainedKept DEF Kept, Touched
<1>9. CASE Made(s) \/ Dropped(s)
    BY <1>5, <1>7, <1>9 DEF Made, Dropped, Replaced, Explained
<1>10. CASE Linking(s)
    <2>1. Linked(s.path) /\ (p # s.path => disk'[p] = disk[p])
        BY <1>1, <1>10 DEF Linking, Linked, Typed
    <2> QED
        BY <1>5, <1>6, <2>1
<1>11. CASE Fetched(s)
    <2>1. PICK time \in Times \cup {Now} : disk' = Written(s.path, time, s.data)
        BY <1>11 DEF Fetched
    <2>2. s.data \in Data \cup {Partial} /\ s.type = "file"
        BY <1>1, <1>11, PathStateFacts DEF Fetched
    <2>3. PlainWrite(s.path, disk', s.data)
        BY <1>1, <1>3, <2>1, <2>2, PlainlyWritten
    <2>4. InPlace(s)'
        BY <2>2, <2>3 DEF InPlace, PlainWrite
    <2> QED
        BY <1>5, <1>6, <1>7, <2>3, <2>4 DEF PlainWrite
<1>12. CASE Failed(s)
    <2>1. PICK time \in Times \cup {Now}, data \in Data \cup {Partial} :
            time = Now /\ data = Partial
        OBVIOUS
    <2>2. PICK w : w = Written(s.path, time, data)
        OBVIOUS
    <2>3. s.type = "file" /\ disk' = [w EXCEPT ![s.path] = Nothing]
        BY <1>12, <2>1, <2>2 DEF Failed
    <2>4. PlainWrite(s.path, w, data)
        BY <1>1, <1>3, <2>2, <2>3, PlainlyWritten
    <2>5. disk'[s.path] = Nothing /\ \A q \in Paths \ {s.path} : disk'[q] = w[q]
        BY <1>1, <2>3, <2>4 DEF Typed, PlainWrite
    <2> QED
        BY <1>5, <1>6, <2>4, <2>5 DEF Explained, PlainWrite
<1> QED
    BY <1>4, <1>8, <1>9, <1>10, <1>11, <1>12

(* A target that was in place stays so while the next one is put in place, *)
(* unless that one is a link on which it depends.                          *)
LEMMA TargetAchieves ==
    ASSUME TypeInv, DiskInv, NEW s \in targets,
           target_done(s) \/ download_failed(s) \/ target_fatal(s)
    PROVE  Achieved'
<1>1. s \in PathState /\ s \in wanted /\ Typed(disk) /\ s.path \in Paths
    BY PathStateFacts DEF TypeInv, ResultOK
<1>2. /\ wanted' = wanted /\ was' = was /\ changes' = changes /\ pc = "targets"
      /\ download_failed(s) => rc' = "ERR"
      /\ target_fatal(s) => pc' \in {"exited", "aborted"}
      /\ target_done(s) => rc' = rc /\ targets' = targets \ {s}
    BY DEF target_done, download_failed, target_fatal
<1> SUFFICES ASSUME NoneFollowed', NoneInTheWay', LinksInOrder', rc' = "RECYCLED", changes' = 0,
                    pc' \in {"targets", "done"},
                    NEW t \in wanted' \ targets'
             PROVE  InPlace(t)'
    BY DEF Achieved
<1>3. target_done(s) /\ rc = "RECYCLED"
    BY <1>2
<1>4. NoneFollowed /\ NoneInTheWay /\ LinksInOrder /\ Unshared(disk) /\ Accounted
    BY <1>2 DEF NoneFollowed, NoneInTheWay, LinksInOrder, DiskInv
<1>5. Typed(disk') /\ (Kept(s) \/ Made(s) \/ Fetched(s) \/ Linking(s))
    BY <1>1, <1>3, DoneEffect
<1>6. CASE t = s
    <2>1. CASE Kept(s) \/ Made(s)
        BY <1>1, <1>4, <1>6, <2>1, DirFacts DEF Kept, Made
    <2>2. CASE Fetched(s)
        <3>1. PICK time \in Times \cup {Now} : disk' = Written(s.path, time, s.data)
            BY <2>2 DEF Fetched
        <3>2. s.data \in Data \cup {Partial} /\ s.type = "file"
            BY <1>1, <2>2, PathStateFacts DEF Fetched
        <3>3. PlainWrite(s.path, disk', s.data)
            BY <1>1, <1>4, <3>1, <3>2, PlainlyWritten
        <3> QED
            BY <1>6, <3>2, <3>3 DEF InPlace, PlainWrite
    <2>3. CASE Linking(s)
        <3>1. /\ s.type = "link" /\ s.data \in Paths /\ s.data # s.path
              /\ disk[s.data] # Nothing /\ disk'[s.data] = disk[s.data]
              /\ disk'[s.path] = disk[s.data]
            BY <1>1, <2>3, PathStateFacts DEF Linking, Typed
        <3> QED
            BY <1>6, <3>1 DEF InPlace
    <2> QED
        BY <1>5, <2>1, <2>2, <2>3
<1>7. CASE t # s
    <2>1. t \in wanted \ targets /\ t \in PathState
        BY <1>2, <1>3, <1>7 DEF TypeInv, ResultOK
    <2>2. /\ InPlace(t)
          /\ t.path < s.path /\ t.path # s.path
          /\ t.path \in Nat /\ s.path \in Nat /\ t.path \in Paths
          /\ t.type = "link" => t.data \in Paths
        <3>1. InPlace(t)
            BY <1>2, <1>3, <1>4, <2>1 DEF DiskInv, Achieved
        <3>2. t.path < s.path
            BY <2>1 DEF TypeInv, Sequence
        <3> QED
            BY <1>1, <2>1, <3>1, <3>2, PathStateFacts
    <2>3. \A u \in wanted : u.path = t.path => u = t
        BY <2>1 DEF TypeInv, Sequence
    <2>4. disk[t.path] \in DiskEntry /\ disk'[t.path] \in DiskEntry
        BY <1>1, <1>5, <2>2 DEF Typed
    <2>5. CASE t.type # "link"
        <3>1. ~Linked(t.path)
            BY <2>3, <2>5 DEF Linked
        <3>2. disk'[t.path].type = disk[t.path].type /\ disk'[t.path].data = disk[t.path].data
            <4>1. CASE Kept(s)
                BY <2>2, <4>1 DEF Kept, Touched
            <4>2. CASE Made(s)
                BY <2>2, <4>2 DEF Made, Replaced
            <4>3. CASE Linking(s)
                BY <1>1, <2>2, <4>3 DEF Linking, Typed
            <4>4. CASE Fetched(s)
                <5>1. PICK time \in Times \cup {Now} : disk' = Written(s.path, time, s.data)
                    BY <4>4 DEF Fetched
                <5>2. s.data \in Data \cup {Partial} /\ s.type = "file"
                    BY <1>1, <4>4, PathStateFacts DEF Fetched
                <5>3. PlainWrite(s.path, disk', s.data)
                    BY <1>1, <1>4, <5>1, <5>2, PlainlyWritten
                <5> QED
                    BY <2>2, <3>1, <5>3 DEF PlainWrite
            <4> QED
                BY <1>5, <4>1, <4>2, <4>3, <4>4
        <3>3. disk[t.path] = Nothing <=> disk'[t.path] = Nothing
            BY <2>4, <3>2, EntryFacts
        <3> QED
            BY <2>2, <2>5, <3>2, <3>3 DEF InPlace
    <2>6. CASE t.type = "link"
        <3>1. disk[t.data] # Nothing /\ disk[t.path].ino = disk[t.data].ino
            BY <2>2, <2>6 DEF InPlace
        <3>2. t.data = s.path => s.type \notin {"link", "symlink"}
            BY <1>1, <1>4, <2>1, <2>2, <2>6 DEF LinksInOrder
        <3>3. disk[t.data] \in DiskEntry /\ disk'[t.data] \in DiskEntry
            BY <1>1, <1>5, <2>2, <2>6 DEF Typed
        <3>4. disk'[t.data] # Nothing /\ disk'[t.path].ino = disk'[t.data].ino
            <4>1. CASE Kept(s)
                BY <2>2, <2>6, <3>1, <3>3, <4>1, EntryFacts DEF Kept, Touched
            <4>2. CASE Made(s)
                BY <2>2, <2>6, <3>1, <3>2, <4>2 DEF Made, Replaced
            <4>3. CASE Linking(s)
                BY <1>1, <2>2, <2>6, <3>1, <3>2, <4>3 DEF Linking, Typed
            <4>4. CASE Fetched(s)
                <5>1. PICK time \in Times \cup {Now} : disk' = Written(s.path, time, s.data)
                    BY <4>4 DEF Fetched
                <5>2. s.data \in Data \cup {Partial} /\ s.type = "file" /\ disk[s.path].type # "dir"
                    BY <1>1, <4>4, PathStateFacts DEF Fetched
                <5>3. PlainWrite(s.path, disk', s.data) /\ disk[s.path].type # "symlink"
                    BY <1>1, <1>4, <5>1, <5>2, PlainlyWritten, FileFacts
                <5>4. CASE disk[s.path].type = "file"
                    BY <2>2, <2>6, <3>1, <5>3, <5>4 DEF PlainWrite
                <5>5. CASE disk[s.path].type # "file"
                    <6>1. disk[s.path] = Nothing
                        <7>1. disk[s.path] \in DiskEntry
                            BY <1>1 DEF Typed
                        <7> QED
                            BY <5>2, <5>3, <5>5, <7>1, EntryFacts
                    <6> QED
                        BY <2>2, <2>6, <3>1, <5>3, <5>5, <6>1 DEF PlainWrite
                <5> QED
                    BY <5>4, <5>5
            <4> QED
                BY <1>5, <4>1, <4>2, <4>3, <4>4
        <3> QED
            BY <2>6, <3>4 DEF InPlace
    <2> QED
        BY <2>5, <2>6
<1> QED
    BY <1>6, <1>7

-----------------------------------------------------------------------------
(* The invariant of the disk holds when shop() is called.                  *)
LEMMA DiskInitially == ShopInit => (Separate => DiskInv)
<1> SUFFICES ASSUME Separate, ShopInit PROVE DiskInv
    OBVIOUS
<1>1. /\ disk \in Disks /\ pc = "find" /\ was = [p \in Paths |-> {disk[p]}]
      /\ \A p \in Paths : disk[p] # Nothing => \A q \in Paths \ {p} : disk[q].ino # disk[p].ino
    BY DEF ShopInit, Separate
<1>2. Unshared(disk)
    BY <1>1 DEF Unshared
<1>3. Accounted
    BY <1>1 DEF Accounted, Explained
<1>4. Achieved
    BY <1>1 DEF Achieved
<1> QED
    BY <1>2, <1>3, <1>4 DEF DiskInv

(* A step that leaves the disk alone, be it that the targets are collected *)
(* or that shop() returns.                                                 *)
LEMMA QuietStep ==
    ASSUME TypeInv, DiskInv, disk' = disk, was' = was, changes' = changes,
           \/ wanted = {} /\ wanted' = targets'
           \/ wanted' = wanted /\ targets' = targets /\ rc' = rc
              /\ (pc' \in {"targets", "done"} /\ rc = "RECYCLED" => pc \in {"targets", "done"})
    PROVE  DiskInv'
<1>1. \A p : Linked(p) => Linked(p)'
    BY DEF Linked
<1>2. Unshared(disk)'
    BY <1>1 DEF DiskInv, Unshared
<1>3. Accounted'
    <2> SUFFICES ASSUME NoneFollowed', NEW p \in Paths PROVE Explained(p)'
        BY DEF Accounted
    <2>1. NoneFollowed
        BY DEF NoneFollowed
    <2>2. Explained(p)
        BY <2>1 DEF DiskInv, Accounted
    <2>3. CASE wanted = {}
        BY <2>2, <2>3 DEF Explained
    <2>4. CASE wanted' = wanted
        BY <2>2, <2>4 DEF Explained, InPlace
    <2> QED
        BY <2>3, <2>4
<1>4. Achieved'
    <2>1. CASE wanted = {} /\ wanted' = targets'
        BY <2>1 DEF Achieved
    <2>2. CASE wanted' = wanted /\ targets' = targets /\ rc' = rc
               /\ (pc' \in {"targets", "done"} /\ rc = "RECYCLED" => pc \in {"targets", "done"})
        BY <2>2 DEF DiskInv, Achieved, NoneFollowed, NoneInTheWay, LinksInOrder, InPlace
    <2> QED
        BY <2>1, <2>2
<1> QED
    BY <1>2, <1>3, <1>4 DEF DiskInv

(* Another process changes a file: what it puts there is remembered.       *)
LEMMA ChangeDisk ==
    ASSUME ShopInv, TypeInv, DiskInv, NEW p \in Paths, Change(p)
    PROVE  DiskInv'
<1>1. /\ wanted' = wanted /\ changes' = changes + 1 /\ changes \in Nat
      /\ was' = [was EXCEPT ![p] = @ \cup {disk'[p]}]
      /\ DOMAIN was = Paths /\ Typed(disk)
    BY ShopConstantsOK DEF Change, TypeInv, ResultOK, ShopInv, Control, ShopConstantsOK
<1>2. Replaced(p)
    BY <1>1, ChangeEffect
<1>3. Unshared(disk)'
    <2>1. NewAt(disk, disk', p) /\ Typed(disk')
        BY <1>2 DEF Replaced, NewAt
    <2>2. Unshared(disk')
        BY <1>1, <2>1, SharingKept DEF DiskInv
    <2> QED
        BY <1>1, <2>2 DEF Unshared, Linked
<1>4. \A q \in Paths : was[q] \subseteq was'[q]
    BY <1>1
<1>5. Accounted'
    <2> SUFFICES ASSUME NoneFollowed', NEW q \in Paths PROVE Explained(q)'
        BY DEF Accounted
    <2>1. NoneFollowed
        <3>1. \A s \in wanted : s.path \in Paths
            BY PathStateFacts DEF TypeInv, ResultOK
        <3> QED
            BY <1>1, <1>4, <3>1 DEF NoneFollowed
    <2>2. CASE q = p
        <3>1. disk'[p] \in was'[p]
            BY <1>1
        <3> QED
            BY <2>2, <3>1 DEF Explained
    <2>3. CASE q # p
        <3>1. disk'[q] = disk[q] /\ Typed(disk')
            BY <1>2, <2>3 DEF Replaced
        <3>2. Explained(q)
            BY <2>1 DEF DiskInv, Accounted
        <3> QED
            BY <1>1, <1>4, <3>1, <3>2, ExplainedKept
    <2> QED
        BY <2>2, <2>3
<1>6. Achieved'
    BY <1>1 DEF Achieved
<1> QED
    BY <1>3, <1>5, <1>6 DEF DiskInv

(* It is kept by each step.                                                *)
LEMMA DiskStep == ShopInv /\ TypeInv /\ DiskInv /\ [ShopNext]_shopVars => DiskInv'
<1> SUFFICES ASSUME ShopInv, TypeInv, DiskInv, [ShopNext]_shopVars PROVE DiskInv'
    OBVIOUS
<1>1. CASE \/ shop_for_cmd
           \/ \E line \in lines : shop_compare_prereqs(line)
           \/ \E s \in states : shop_cmp_pathstate(s)
           \/ shop_ptx_winner
    <2>1. /\ UNCHANGED <<disk, was, changes, wanted, targets>>
          /\ pc \in {"find", "prereqs"}
        BY <1>1 DEF shop_for_cmd, shop_compare_prereqs, shop_cmp_pathstate, shop_ptx_winner
    <2>2. wanted = {} /\ targets = {}
        BY <2>1 DEF TypeInv, Sequence, Deciding
    <2> QED
        BY <2>1, <2>2, QuietStep
<1>2. CASE shop_collect_targets
    <2>1. UNCHANGED <<disk, was, changes>> /\ wanted' = targets' /\ pc = "collect"
        BY <1>2 DEF shop_collect_targets
    <2>2. wanted = {}
        BY <2>1 DEF TypeInv, Sequence, Deciding
    <2> QED
        BY <2>1, <2>2, QuietStep
<1>3. CASE \E s \in targets : target_done(s) \/ download_failed(s) \/ target_fatal(s)
    <2>1. PICK s \in targets : target_done(s) \/ download_failed(s) \/ target_fatal(s)
        BY <1>3
    <2>2. wanted' = wanted
        BY <2>1 DEF target_done, download_failed, target_fatal
    <2>3. Unshared(disk')
        BY <2>1, TargetShares DEF DiskInv
    <2>4. Unshared(disk)'
        BY <2>2, <2>3 DEF Unshared, Linked
    <2>5. Accounted' /\ Achieved'
        BY <2>1, TargetAccounts, TargetAchieves DEF ShopInv, Control
    <2> QED
        BY <2>4, <2>5 DEF DiskInv
<1>4. CASE shop_return
    <2>1. /\ UNCHANGED <<disk, was, changes, wanted, targets, rc>>
          /\ pc = "find" \/ pc = "targets"
        BY <1>4 DEF shop_return
    <2>2. pc = "find" => rc # "RECYCLED"
        BY DEF TypeInv, Sequence
    <2> QED
        BY <2>1, <2>2, QuietStep
<1>5. CASE \E p \in Paths : Change(p)
    BY <1>5, ChangeDisk
<1>6. CASE UNCHANGED shopVars
    BY <1>6, QuietStep DEF shopVars
<1> QED
    BY <1>1, <1>2, <1>3, <1>4, <1>5, <1>6 DEF ShopNext

(* Whether there were hard links is history.                               *)
LEMMA HardlinksKept == [ShopNext]_shopVars => hardlinks' = hardlinks
BY DEF ShopNext, shop_for_cmd, shop_compare_prereqs, shop_cmp_pathstate, shop_ptx_winner,
       shop_collect_targets, target_done, download_failed, target_fatal, shop_return, Change,
       shopVars

(* So it holds throughout if there were none.                              *)
LEMMA DiskInductive == ShopSpec => [](Separate => DiskInv)
<1>1. ShopInv /\ TypeInv /\ (Separate => DiskInv) /\ [ShopNext]_shopVars => (Separate => DiskInv)'
    BY DiskStep, HardlinksKept DEF Separate
<1> QED
    BY <1>1, ShopInductive, TypeInductive, DiskInitially, PTL DEF ShopSpec

(* Whatever fails while targets are brought into place, and whatever other *)
(* processes do meanwhile, no path is left with part of a file, on any     *)
(* disk without hard links and where no symbolic link is followed.         *)
THEOREM NothingHalfDone == ShopSpec => []NoHalfTarget
<1>1. (Separate => DiskInv) => NoHalfTarget
    BY DEF DiskInv, Accounted, Explained, NoHalfTarget
<1> QED
    BY <1>1, DiskInductive, PTL

(* When shop() returns SHOP_RECYCLED every target of the winner is in      *)
(* place: the file, the directory, the symbolic link or the hard link that *)
(* the roadmap has at its path.                                            *)
THEOREM RecycledInPlace == ShopSpec => []TargetsInPlace
<1>1. TypeInv /\ (Separate => DiskInv) => TargetsInPlace
    <2> SUFFICES ASSUME TypeInv, DiskInv, LinksInOrder, NoneFollowed, NoneInTheWay,
                        pc = "done", rc = "RECYCLED", changes = 0,
                        NEW s \in wanted
                 PROVE  InPlace(s)
        BY DEF TargetsInPlace, DOsInPlace
    <2>1. targets = {}
        BY DEF TypeInv, Sequence
    <2> QED
        BY <2>1 DEF DiskInv, Achieved
<1> QED
    BY <1>1, TypeInductive, DiskInductive, PTL
=============================================================================
