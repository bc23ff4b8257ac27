------------------------------ MODULE PathProofs ------------------------------
(***************************************************************************)
(* Proofs about PathActions, for any group of audits and any number of     *)
(* path actions.  The loops of ca_merge(), ca_coalesce() and ca_publish()  *)
(* are recursive functions over the turns of the loop, so what holds after *)
(* a loop is proved by induction over the set of turns it holds after.     *)
(***************************************************************************)
EXTENDS PathActions, FiniteSetTheorems, SequenceTheorems, WellFoundedInduction, TLAPS

-----------------------------------------------------------------------------
(* Induction over the turns of a loop *)

(* A set of natural numbers that is not empty has a least element.         *)
LEMMA LeastOf ==
  ASSUME NEW S \in SUBSET Nat, S # {}
  PROVE  \E n \in S : \A m \in S : n <= m
<1> DEFINE R == {ss \in Nat \X Nat : ss[1] < ss[2]}
<1>1. IsWellFoundedOn(R, Nat)
  BY NatLessThanWellFounded DEF OpToRel
<1>2. PICK n \in S : \A m \in S : ~(<<m, n>> \in R)
  <2> HIDE DEF R
  <2> QED BY <1>1, WFMin
<1>3. \A m \in S : ~(m < n)
  BY <1>2
<1> QED BY <1>3

(* What holds before the first turn, and after a turn if it held before,   *)
(* holds after every turn.                                                 *)
LEMMA Turns ==
  ASSUME NEW N \in Nat, NEW S, 0 \in S, \A n \in 1 .. N : n - 1 \in S => n \in S
  PROVE  0 .. N \subseteq S
<1> SUFFICES ASSUME NEW x \in 0 .. N, x \notin S PROVE FALSE
  OBVIOUS
<1>1. PICK n \in (0 .. N) \ S : \A m \in (0 .. N) \ S : n <= m
  <2> DEFINE T == (0 .. N) \ S
  <2>1. T \in SUBSET Nat /\ T # {}
    OBVIOUS
  <2> HIDE DEF T
  <2>2. \E n \in T : \A m \in T : n <= m
    BY <2>1, LeastOf
  <2> QED BY <2>2 DEF T
<1>2. n # 0 /\ n \in 1 .. N /\ n - 1 \in 0 .. N
  OBVIOUS
<1> QED BY <1>1, <1>2

(* A set of natural numbers with a bound has a greatest element.           *)
LEMMA GreatestOf ==
  ASSUME NEW N \in Nat, NEW S \in SUBSET (0 .. N), S # {}
  PROVE  \E n \in S : \A m \in S : m <= n
<1> DEFINE T == {N - m : m \in S}
<1>1. T \in SUBSET Nat /\ T # {}
  OBVIOUS
<1>2. PICK t \in T : \A u \in T : t <= u
  <2> HIDE DEF T
  <2> QED BY <1>1, LeastOf
<1>3. PICK n \in S : t = N - n
  OBVIOUS
<1>4. ASSUME NEW m \in S PROVE m <= n
  <2>1. t <= N - m
    BY <1>2
  <2> QED BY <2>1, <1>3
<1> QED BY <1>4

(* ca_coalesce(), turn by turn.                                            *)
LEMMA CookingTurns ==
  ASSUME NEW dict, Len(dict) \in Nat
  PROVE  Cooking(dict) = [n \in 0 .. Len(dict) |->
             IF n = 0 THEN NoneCooked ELSE Cook(Cooking(dict)[n - 1], dict[n])]
<1> DEFINE Is(f, k) == f = [n \in 0 .. k |-> IF n = 0 THEN NoneCooked ELSE Cook(f[n - 1], dict[n])]
           S == {k \in Nat : \E f : Is(f, k)}
<1>1. 0 \in S
  <2>1. PICK f : f = [n \in 0 .. 0 |-> NoneCooked]
    OBVIOUS
  <2>2. Is(f, 0)
    BY <2>1
  <2> QED BY <2>2
<1>2. ASSUME NEW k \in 1 .. Len(dict), k - 1 \in S PROVE k \in S
  <2>1. PICK g : Is(g, k - 1)
    BY <1>2
  <2>2. PICK f : f = [n \in 0 .. k |-> IF n = k THEN Cook(g[k - 1], dict[k]) ELSE g[n]]
    OBVIOUS
  <2>3. ASSUME NEW n \in 0 .. k PROVE f[n] = IF n = 0 THEN NoneCooked ELSE Cook(f[n - 1], dict[n])
    <3>1. CASE n = k
      <4>1. f[n - 1] = g[k - 1]
        BY <2>2, <3>1
      <4> QED BY <2>2, <3>1, <4>1
    <3>2. CASE n # k
      <4>1. n \in 0 .. k - 1 /\ f[n] = g[n] /\ (n # 0 => f[n - 1] = g[n - 1])
        BY <2>2, <3>2
      <4>2. g[n] = IF n = 0 THEN NoneCooked ELSE Cook(g[n - 1], dict[n])
        BY <2>1, <4>1
      <4> QED BY <4>1, <4>2
    <3> QED BY <3>1, <3>2
  <2>4. Is(f, k)
    BY <2>2, <2>3
  <2> QED BY <2>4
<1>3. Len(dict) \in S
  <2>1. \A n \in 1 .. Len(dict) : n - 1 \in S => n \in S
    BY <1>2
  <2> HIDE DEF S
  <2>2. 0 .. Len(dict) \subseteq S
    BY <1>1, <2>1, Turns
  <2> QED BY <2>2
<1>4. \E f : Is(f, Len(dict))
  BY <1>3
<1>5. Cooking(dict) = CHOOSE f : Is(f, Len(dict))
  BY DEF Cooking
<1> HIDE DEF Is
<1>6. Is(Cooking(dict), Len(dict))
  BY <1>4, <1>5
<1> QED BY <1>6 DEF Is

(* ca_merge(), turn by turn.                                               *)
LEMMA MergingTurns ==
  ASSUME NEW leader, NEW donor, Len(donor) \in Nat
  PROVE  Merging(leader, donor) = [n \in 0 .. Len(donor) |->
             IF n = 0 THEN leader ELSE dict_insert(Merging(leader, donor)[n - 1], donor[n])]
<1> DEFINE Is(f, k) == f = [n \in 0 .. k |-> IF n = 0 THEN leader ELSE dict_insert(f[n - 1], donor[n])]
           S == {k \in Nat : \E f : Is(f, k)}
<1>1. 0 \in S
  <2>1. PICK f : f = [n \in 0 .. 0 |-> leader]
    OBVIOUS
  <2>2. Is(f, 0)
    BY <2>1
  <2> QED BY <2>2
<1>2. ASSUME NEW k \in 1 .. Len(donor), k - 1 \in S PROVE k \in S
  <2>1. PICK g : Is(g, k - 1)
    BY <1>2
  <2>2. PICK f : f = [n \in 0 .. k |-> IF n = k THEN dict_insert(g[k - 1], donor[k]) ELSE g[n]]
    OBVIOUS
  <2>3. ASSUME NEW n \in 0 .. k PROVE f[n] = IF n = 0 THEN leader ELSE dict_insert(f[n - 1], donor[n])
    <3>1. CASE n = k
      <4>1. f[n - 1] = g[k - 1]
        BY <2>2, <3>1
      <4> QED BY <2>2, <3>1, <4>1
    <3>2. CASE n # k
      <4>1. n \in 0 .. k - 1 /\ f[n] = g[n] /\ (n # 0 => f[n - 1] = g[n - 1])
        BY <2>2, <3>2
      <4>2. g[n] = IF n = 0 THEN leader ELSE dict_insert(g[n - 1], donor[n])
        BY <2>1, <4>1
      <4> QED BY <4>1, <4>2
    <3> QED BY <3>1, <3>2
  <2>4. Is(f, k)
    BY <2>2, <2>3
  <2> QED BY <2>4
<1>3. Len(donor) \in S
  <2>1. \A n \in 1 .. Len(donor) : n - 1 \in S => n \in S
    BY <1>2
  <2> HIDE DEF S
  <2>2. 0 .. Len(donor) \subseteq S
    BY <1>1, <2>1, Turns
  <2> QED BY <2>2
<1>4. \E f : Is(f, Len(donor))
  BY <1>3
<1>5. Merging(leader, donor) = CHOOSE f : Is(f, Len(donor))
  BY DEF Merging
<1> HIDE DEF Is
<1>6. Is(Merging(leader, donor), Len(donor))
  BY <1>4, <1>5
<1> QED BY <1>6 DEF Is

(* The scan of ca_publish() over the members, turn by turn.               *)
LEMMA ScanningTurns ==
  ASSUME NEW order, Len(order) \in Nat
  PROVE  Scanning(order) = [n \in 0 .. Len(order) |->
             IF n = 0 THEN raw[Leader] ELSE ca_merge(Scanning(order)[n - 1], raw[order[n]])]
<1> DEFINE Is(f, k) == f = [n \in 0 .. k |-> IF n = 0 THEN raw[Leader] ELSE ca_merge(f[n - 1], raw[order[n]])]
           S == {k \in Nat : \E f : Is(f, k)}
<1>1. 0 \in S
  <2>1. PICK f : f = [n \in 0 .. 0 |-> raw[Leader]]
    OBVIOUS
  <2>2. Is(f, 0)
    BY <2>1
  <2> QED BY <2>2
<1>2. ASSUME NEW k \in 1 .. Len(order), k - 1 \in S PROVE k \in S
  <2>1. PICK g : Is(g, k - 1)
    BY <1>2
  <2>2. PICK f : f = [n \in 0 .. k |-> IF n = k THEN ca_merge(g[k - 1], raw[order[k]]) ELSE g[n]]
    OBVIOUS
  <2>3. ASSUME NEW n \in 0 .. k PROVE f[n] = IF n = 0 THEN raw[Leader] ELSE ca_merge(f[n - 1], raw[order[n]])
    <3>1. CASE n = k
      <4>1. f[n - 1] = g[k - 1]
        BY <2>2, <3>1
      <4> QED BY <2>2, <3>1, <4>1
    <3>2. CASE n # k
      <4>1. n \in 0 .. k - 1 /\ f[n] = g[n] /\ (n # 0 => f[n - 1] = g[n - 1])
        BY <2>2, <3>2
      <4>2. g[n] = IF n = 0 THEN raw[Leader] ELSE ca_merge(g[n - 1], raw[order[n]])
        BY <2>1, <4>1
      <4> QED BY <4>1, <4>2
    <3> QED BY <3>1, <3>2
  <2>4. Is(f, k)
    BY <2>2, <2>3
  <2> QED BY <2>4
<1>3. Len(order) \in S
  <2>1. \A n \in 1 .. Len(order) : n - 1 \in S => n \in S
    BY <1>2
  <2> HIDE DEF S
  <2>2. 0 .. Len(order) \subseteq S
    BY <1>1, <2>1, Turns
  <2> QED BY <2>2
<1>4. \E f : Is(f, Len(order))
  BY <1>3
<1>5. Scanning(order) = CHOOSE f : Is(f, Len(order))
  BY DEF Scanning
<1> HIDE DEF Is
<1>6. Is(Scanning(order), Len(order))
  BY <1>4, <1>5
<1> QED BY <1>6 DEF Is

-----------------------------------------------------------------------------
(* moment_cmp() and pa_cmp() as an order *)

(* Rounded time stamps are numbers, and never differ by exactly 1 when     *)
(* anything is rounded off.                                                *)
LEMMA RoundedApart ==
  ASSUME NEW a \in Nat, NEW b \in Nat
  PROVE  /\ Rounded(a) \in Int
         /\ Roundoff > 1 => Rounded(a) - Rounded(b) # 1
<1> DEFINE x == a \div Roundoff
           y == b \div Roundoff
<1>1. x \in Int /\ y \in Int
  BY PathConstantsOK
<1>2. Rounded(a) = x * Roundoff /\ Rounded(b) = y * Roundoff
  BY DEF Rounded
<1> HIDE DEF x, y
<1>3. x * Roundoff \in Int /\ y * Roundoff \in Int
  BY <1>1, PathConstantsOK
<1>4. ASSUME Roundoff > 1, x * Roundoff - y * Roundoff = 1 PROVE FALSE
  <2>1. (x - y) * Roundoff = 1
    BY <1>1, <1>4, PathConstantsOK
  <2>2. PICK d \in Int : d = x - y
    BY <1>1
  <2>3. d * Roundoff = 1
    BY <2>1, <2>2
  <2>4. CASE d <= 0
    <3>1. d * Roundoff <= 0
      BY <2>4, <1>4, PathConstantsOK
    <3> QED BY <3>1, <2>3
  <2>5. CASE d >= 1
    <3>1. d * Roundoff >= Roundoff
      BY <2>5, <1>4, PathConstantsOK
    <3> QED BY <3>1, <2>3, <1>4, PathConstantsOK
  <2> QED BY <2>4, <2>5
<1> QED BY <1>2, <1>3, <1>4

(* moment_cmp() compares rounded times, when anything is rounded off.      *)
LEMMA MomentOrder ==
  ASSUME NEW a \in Nat, NEW b \in Nat, Roundoff > 1
  PROVE  /\ moment_cmp(a, b) \in {-1, 0, 1}
         /\ moment_cmp(a, b) = 0 <=> Rounded(a) = Rounded(b)
         /\ moment_cmp(a, b) > 0 <=> Rounded(a) > Rounded(b)
<1>1. Rounded(a) \in Int /\ Rounded(b) \in Int /\ Rounded(a) - Rounded(b) # 1
  BY RoundedApart
<1> QED BY <1>1 DEF moment_cmp

(* Why the theorems ask for Roundoff > 1: at a precision of a nanosecond   *)
(* each of two moments a nanosecond apart compares as the earlier one.     *)
LEMMA NanosecondApart ==
  ASSUME NEW a \in Nat, Roundoff = 1
  PROVE  moment_cmp(a + 1, a) = -1 /\ moment_cmp(a, a + 1) = -1
<1>1. Rounded(a) = a /\ Rounded(a + 1) = a + 1
  BY DEF Rounded
<1> QED BY <1>1 DEF moment_cmp

(* The order the PAs of an audit are kept in: modifications before reads,  *)
(* modifications by time and, of the same time, removals last.             *)
InOrder(x, y) ==
    /\ pa_is_read(x) => /\ pa_is_read(y)
                        /\ \/ x.path < y.path
                           \/ x.path = y.path /\ x.ptr <= y.ptr
    /\ ~pa_is_read(x) /\ ~pa_is_read(y) =>
         \/ Rounded(x.time) < Rounded(y.time)
         \/ /\ Rounded(x.time) = Rounded(y.time)
            /\ pa_is_unlink(y) \/ (~pa_is_unlink(x) /\ x.ptr <= y.ptr)

(* What the fields of a PA hold.                                           *)
LEMMA PAFields ==
  ASSUME NEW x \in PathAction
  PROVE  /\ x.path \in Int /\ x.path \in Paths
         /\ x.ptr \in Int
         /\ x.time \in Nat /\ Rounded(x.time) \in Int
         /\ x.op \in Ops
<1>1. x.path \in Paths /\ x.ptr \in 1 .. MaxPAs /\ x.time \in Times \cup {0} /\ x.op \in Ops
  BY DEF PathAction
<1>2. Times \cup {0} \subseteq Nat /\ 1 .. MaxPAs \subseteq Int /\ Paths \subseteq Int
  BY PathConstantsOK
<1>3. x.path \in Int /\ x.ptr \in Int /\ x.time \in Nat
  BY <1>1, <1>2, Zenon
<1>4. Rounded(x.time) \in Int
  BY <1>3, RoundedApart
<1> QED BY <1>1, <1>3, <1>4

(* A greater PA belongs behind.                                            *)
LEMMA GreaterBehind ==
  ASSUME NEW x \in PathAction, NEW y \in PathAction, Roundoff > 1, pa_cmp(x, y) > 0
  PROVE  InOrder(y, x)
<1>1. PICK rc : rc = moment_cmp(x.time, y.time)
  OBVIOUS
<1>2. /\ rc \in {-1, 0, 1} /\ (rc = 0 <=> Rounded(x.time) = Rounded(y.time))
      /\ (rc > 0 <=> Rounded(x.time) > Rounded(y.time))
  BY <1>1, MomentOrder, PAFields
<1> QED BY <1>1, <1>2, PAFields DEF pa_cmp, PreferredOrder, Sign, InOrder, pa_is_unlink, pa_is_read

(* A PA that is not greater belongs before.                                *)
LEMMA OtherwiseBefore ==
  ASSUME NEW x \in PathAction, NEW y \in PathAction, Roundoff > 1, ~(pa_cmp(x, y) > 0),
         x.ptr = y.ptr => x = y
  PROVE  InOrder(x, y)
<1>1. PICK rc : rc = moment_cmp(x.time, y.time)
  OBVIOUS
<1>2. /\ rc \in {-1, 0, 1} /\ (rc = 0 <=> Rounded(x.time) = Rounded(y.time))
      /\ (rc > 0 <=> Rounded(x.time) > Rounded(y.time))
  BY <1>1, MomentOrder, PAFields
<1> QED BY <1>1, <1>2, PAFields DEF pa_cmp, PreferredOrder, Sign, InOrder, pa_is_unlink, pa_is_read

(* InOrder is transitive.                                                  *)
LEMMA OrderCarries ==
  ASSUME NEW x \in PathAction, NEW y \in PathAction, NEW z \in PathAction,
         InOrder(x, y), InOrder(y, z)
  PROVE  InOrder(x, z)
BY PAFields DEF InOrder

-----------------------------------------------------------------------------
(* dict_insert() and ca_merge() *)

(* The sequence t has e right behind the first k elements of s, and then   *)
(* the others.                                                             *)
Behind(t, s, k, e) ==
    /\ Len(t) = Len(s) + 1
    /\ \A i \in 1 .. Len(s) + 1 :
           t[i] = IF i <= k THEN s[i] ELSE IF i = k + 1 THEN e ELSE s[i - 1]

(* What InsertAt() returns, element by element.                            *)
LEMMA Inserted ==
  ASSUME NEW S, NEW s \in Seq(S), NEW k \in 0 .. Len(s), NEW e \in S
  PROVE  /\ InsertAt(s, k + 1, e) \in Seq(S)
         /\ Behind(InsertAt(s, k + 1, e), s, k, e)
<1>1. PICK a : a = SubSeq(s, 1, k)
  OBVIOUS
<1>2. PICK b : b = SubSeq(s, k + 1, Len(s))
  OBVIOUS
<1>3. a \in Seq(S) /\ Len(a) = k /\ \A i \in 1 .. k : a[i] = s[i]
  BY <1>1
<1>4. b \in Seq(S) /\ Len(b) = Len(s) - k /\ \A i \in 1 .. Len(s) - k : b[i] = s[i + k]
  BY <1>2
<1>5. PICK c : c = a \o <<e>>
  OBVIOUS
<1>6. c \in Seq(S) /\ Len(c) = k + 1 /\ \A i \in 1 .. k + 1 : c[i] = IF i <= k THEN s[i] ELSE e
  BY <1>3, <1>5
<1>7. (k + 1) - 1 = k
  OBVIOUS
<1>8. InsertAt(s, k + 1, e) = (SubSeq(s, 1, (k + 1) - 1) \o <<e>>) \o SubSeq(s, k + 1, Len(s))
  BY Zenon DEF InsertAt
<1>9. InsertAt(s, k + 1, e) = c \o b
  BY <1>1, <1>2, <1>5, <1>7, <1>8, Zenon
<1>10. PICK t : t = c \o b
  OBVIOUS
<1>11. /\ t \in Seq(S) /\ Len(t) = Len(c) + Len(b)
       /\ \A i \in 1 .. Len(c) + Len(b) : t[i] = IF i <= Len(c) THEN c[i] ELSE b[i - Len(c)]
  <2>1. c \in Seq(S) /\ b \in Seq(S)
    BY <1>4, <1>6
  <2>2. /\ c \o b \in Seq(S) /\ Len(c \o b) = Len(c) + Len(b)
        /\ \A i \in 1 .. Len(c) + Len(b) :
               (c \o b)[i] = IF i <= Len(c) THEN c[i] ELSE b[i - Len(c)]
    BY <2>1, ConcatProperties
  <2> QED BY <2>2, <1>10, Zenon
<1>12. Len(t) = Len(s) + 1
  BY <1>4, <1>6, <1>11
<1>13. ASSUME NEW i \in 1 .. Len(s) + 1
       PROVE  t[i] = IF i <= k THEN s[i] ELSE IF i = k + 1 THEN e ELSE s[i - 1]
  <2>1. t[i] = IF i <= k + 1 THEN c[i] ELSE b[i - (k + 1)]
    BY <1>4, <1>6, <1>11
  <2>2. CASE i <= k + 1
    BY <2>1, <2>2, <1>6
  <2>3. CASE i > k + 1
    <3>1. i - (k + 1) \in 1 .. Len(s) - k /\ (i - (k + 1)) + k = i - 1
      BY <2>3
    <3>2. b[i - (k + 1)] = s[i - 1]
      BY <3>1, <1>4
    <3> QED BY <2>1, <2>3, <3>2
  <2> QED BY <2>2, <2>3
<1>14. Behind(t, s, k, e)
  BY <1>12, <1>13 DEF Behind
<1> QED BY <1>9, <1>10, <1>11, <1>14

(* dict_insert() finds a place: it is the last key that the new one is     *)
(* greater than.                                                           *)
LEMMA PlaceFound ==
  ASSUME NEW dict \in Seq(PathAction), NEW pa \in PathAction
  PROVE  /\ Place(dict, pa) \in 0 .. Len(dict)
         /\ Place(dict, pa) # 0 => pa_cmp(pa, dict[Place(dict, pa)]) > 0
         /\ \A j \in Place(dict, pa) + 1 .. Len(dict) : ~(pa_cmp(pa, dict[j]) > 0)
<1> DEFINE S == {i \in 0 .. Len(dict) : i # 0 => pa_cmp(pa, dict[i]) > 0}
<1>1. Len(dict) \in Nat /\ S \in SUBSET (0 .. Len(dict)) /\ 0 \in S
  OBVIOUS
<1>2. PICK n \in S : \A m \in S : m <= n
  <2> HIDE DEF S
  <2> QED BY <1>1, GreatestOf
<1>3. \A j \in n + 1 .. Len(dict) : ~(pa_cmp(pa, dict[j]) > 0)
  BY <1>1, <1>2
<1> QED BY <1>1, <1>2, <1>3 DEF Place

(* dict_insert() adds the PA and nothing else.                             *)
LEMMA InsertAdds ==
  ASSUME NEW dict \in Seq(PathAction), NEW pa \in PathAction
  PROVE  /\ dict_insert(dict, pa) \in Seq(PathAction)
         /\ ToSet(dict_insert(dict, pa)) = ToSet(dict) \cup {pa}
<1>1. PICK k : k = Place(dict, pa)
  OBVIOUS
<1>2. k \in 0 .. Len(dict)
  BY <1>1, PlaceFound
<1>3. PICK t : t = dict_insert(dict, pa)
  OBVIOUS
<1>4. t = InsertAt(dict, k + 1, pa)
  BY <1>1, <1>3 DEF dict_insert
<1>5. /\ t \in Seq(PathAction) /\ Len(t) = Len(dict) + 1
      /\ \A i \in 1 .. Len(dict) + 1 : t[i] =
             IF i <= k THEN dict[i] ELSE IF i = k + 1 THEN pa ELSE dict[i - 1]
  <2>1. t \in Seq(PathAction) /\ Behind(t, dict, k, pa)
    BY <1>2, <1>4, Inserted
  <2> QED BY <2>1 DEF Behind
<1>6. DOMAIN t = 1 .. Len(dict) + 1 /\ DOMAIN dict = 1 .. Len(dict) /\ Len(dict) \in Nat
  BY <1>5
<1>7. ASSUME NEW i \in DOMAIN t PROVE t[i] \in ToSet(dict) \cup {pa}
  <2>1. CASE i = k + 1
    BY <2>1, <1>5, <1>6, <1>2
  <2>2. CASE i <= k
    BY <2>2, <1>5, <1>6, <1>2 DEF ToSet
  <2>3. CASE i > k + 1
    <3>1. i - 1 \in DOMAIN dict /\ t[i] = dict[i - 1]
      BY <2>3, <1>5, <1>6, <1>2
    <3> QED BY <3>1 DEF ToSet
  <2> QED BY <2>1, <2>2, <2>3, <1>6, <1>2
<1>8. ASSUME NEW i \in DOMAIN dict PROVE dict[i] \in ToSet(t)
  <2>1. CASE i <= k
    <3>1. i \in DOMAIN t /\ t[i] = dict[i]
      BY <2>1, <1>5, <1>6, <1>2
    <3> QED BY <3>1 DEF ToSet
  <2>2. CASE i > k
    <3>1. i + 1 \in DOMAIN t /\ t[i + 1] = dict[i]
      BY <2>2, <1>5, <1>6, <1>2
    <3> QED BY <3>1 DEF ToSet
  <2> QED BY <2>1, <2>2, <1>6, <1>2
<1>9. pa \in ToSet(t)
  <2>1. k + 1 \in DOMAIN t /\ t[k + 1] = pa
    BY <1>5, <1>6, <1>2
  <2> QED BY <2>1 DEF ToSet
<1>10. ToSet(t) \subseteq ToSet(dict) \cup {pa}
  BY <1>7 DEF ToSet
<1>11. ToSet(dict) \subseteq ToSet(t)
  BY <1>8 DEF ToSet
<1> QED BY <1>3, <1>5, <1>9, <1>10, <1>11

(* The PAs of an audit are kept in order.                                  *)
Sorted(dict) == \A i, j \in DOMAIN dict : i < j => InOrder(dict[i], dict[j])

(* PAs are told apart by their addresses.                                  *)
Distinct(S) == \A x, y \in S : x.ptr = y.ptr => x = y

(* dict_insert() keeps the order.                                          *)
LEMMA InsertSorts ==
  ASSUME NEW dict \in Seq(PathAction), NEW pa \in PathAction, Roundoff > 1,
         Sorted(dict), Distinct(ToSet(dict) \cup {pa})
  PROVE  Sorted(dict_insert(dict, pa))
<1>1. PICK k : k = Place(dict, pa)
  OBVIOUS
<1>2. /\ k \in 0 .. Len(dict)
      /\ k # 0 => pa_cmp(pa, dict[k]) > 0
      /\ \A j \in k + 1 .. Len(dict) : ~(pa_cmp(pa, dict[j]) > 0)
  BY <1>1, PlaceFound
<1>3. PICK t : t = dict_insert(dict, pa)
  OBVIOUS
<1>4. t = InsertAt(dict, k + 1, pa)
  BY <1>1, <1>3 DEF dict_insert
<1>5. /\ t \in Seq(PathAction) /\ Len(t) = Len(dict) + 1
      /\ \A i \in 1 .. Len(dict) + 1 : t[i] =
             IF i <= k THEN dict[i] ELSE IF i = k + 1 THEN pa ELSE dict[i - 1]
  <2>1. t \in Seq(PathAction) /\ Behind(t, dict, k, pa)
    BY <1>2, <1>4, Inserted
  <2> QED BY <2>1 DEF Behind
<1>6. DOMAIN t = 1 .. Len(dict) + 1 /\ DOMAIN dict = 1 .. Len(dict) /\ Len(dict) \in Nat
  BY <1>5
<1>7. \A i, j \in DOMAIN dict : i < j => InOrder(dict[i], dict[j])
  BY DEF Sorted
<1>8. ASSUME NEW i \in 1 .. k PROVE InOrder(dict[i], pa)
  <2>1. k \in DOMAIN dict /\ i \in DOMAIN dict /\ dict[k] \in PathAction /\ dict[i] \in PathAction
    BY <1>6, <1>2
  <2>2. InOrder(dict[k], pa)
    BY <2>1, <1>2, GreaterBehind
  <2>3. i = k \/ InOrder(dict[i], dict[k])
    BY <1>7, <2>1, <1>6
  <2> QED BY <2>1, <2>2, <2>3, OrderCarries
<1>9. ASSUME NEW j \in k + 1 .. Len(dict) PROVE InOrder(pa, dict[j])
  <2>1. j \in DOMAIN dict /\ dict[j] \in PathAction
    BY <1>6, <1>2
  <2>2. pa.ptr = dict[j].ptr => pa = dict[j]
    BY <2>1 DEF Distinct, ToSet
  <2> QED BY <2>1, <2>2, <1>2, OtherwiseBefore
<1>10. ASSUME NEW i \in DOMAIN t, NEW j \in DOMAIN t, i < j PROVE InOrder(t[i], t[j])
  <2>1. CASE j <= k
    <3>1. t[i] = dict[i] /\ t[j] = dict[j] /\ i \in DOMAIN dict /\ j \in DOMAIN dict
      BY <2>1, <1>10, <1>5, <1>6, <1>2
    <3> QED BY <3>1, <1>10, <1>7
  <2>2. CASE j = k + 1
    <3>1. t[i] = dict[i] /\ t[j] = pa /\ i \in 1 .. k
      BY <2>2, <1>10, <1>5, <1>6, <1>2
    <3> QED BY <3>1, <1>8
  <2>3. CASE j > k + 1
    <3>1. t[j] = dict[j - 1] /\ j - 1 \in k + 1 .. Len(dict) /\ j - 1 \in DOMAIN dict
      BY <2>3, <1>10, <1>5, <1>6, <1>2
    <3>2. CASE i <= k
      <4>1. t[i] = dict[i] /\ i \in DOMAIN dict /\ i < j - 1
        BY <2>3, <3>2, <1>10, <1>5, <1>6, <1>2
      <4> QED BY <4>1, <3>1, <1>7
    <3>3. CASE i = k + 1
      <4>1. t[i] = pa
        BY <3>3, <1>5, <1>6, <1>2
      <4> QED BY <4>1, <3>1, <1>9
    <3>4. CASE i > k + 1
      <4>1. t[i] = dict[i - 1] /\ i - 1 \in DOMAIN dict /\ i - 1 < j - 1
        BY <3>4, <1>10, <1>5, <1>6, <1>2
      <4> QED BY <4>1, <3>1, <1>7
    <3> QED BY <3>2, <3>3, <3>4, <1>6, <1>2
  <2> QED BY <2>1, <2>2, <2>3, <1>6, <1>2
<1> QED BY <1>3, <1>10 DEF Sorted

(* ca_merge() leaves the PAs of both audits in the leader.                 *)
LEMMA MergeAdds ==
  ASSUME NEW leader \in Seq(PathAction), NEW donor \in Seq(PathAction)
  PROVE  /\ ca_merge(leader, donor) \in Seq(PathAction)
         /\ ToSet(ca_merge(leader, donor)) = ToSet(leader) \cup ToSet(donor)
<1>1. PICK N : N = Len(donor)
  OBVIOUS
<1>2. N \in Nat /\ DOMAIN donor = 1 .. N /\ \A i \in 1 .. N : donor[i] \in PathAction
  BY <1>1
<1>3. PICK M : M = Merging(leader, donor)
  OBVIOUS
<1>4. M = [n \in 0 .. N |-> IF n = 0 THEN leader ELSE dict_insert(M[n - 1], donor[n])]
  BY <1>1, <1>2, <1>3, MergingTurns
<1> DEFINE S == {n \in 0 .. N : /\ M[n] \in Seq(PathAction)
                                /\ ToSet(M[n]) = ToSet(leader) \cup {donor[i] : i \in 1 .. n}}
<1>5. 0 \in S
  <2>1. M[0] = leader
    BY <1>4, <1>2
  <2> QED BY <2>1, <1>2
<1>6. ASSUME NEW n \in 1 .. N, n - 1 \in S PROVE n \in S
  <2>1. PICK d : d = M[n - 1]
    OBVIOUS
  <2>2. d \in Seq(PathAction) /\ ToSet(d) = ToSet(leader) \cup {donor[i] : i \in 1 .. n - 1}
    BY <1>6, <2>1
  <2>3. PICK e \in PathAction : e = donor[n]
    BY <1>2
  <2>4. M[n] = dict_insert(d, e)
    BY <1>2, <1>4, <2>1, <2>3
  <2>5. M[n] \in Seq(PathAction) /\ ToSet(M[n]) = ToSet(d) \cup {e}
    BY <2>2, <2>4, InsertAdds
  <2>6. {donor[i] : i \in 1 .. n} = {donor[i] : i \in 1 .. n - 1} \cup {e}
    BY <2>3, <1>2
  <2>7. ToSet(M[n]) = ToSet(leader) \cup {donor[i] : i \in 1 .. n}
    BY <2>2, <2>5, <2>6, Zenon
  <2>8. n \in 0 .. N
    BY <1>2
  <2> QED BY <2>5, <2>7, <2>8, Zenon
<1>7. N \in S
  <2>1. \A n \in 1 .. N : n - 1 \in S => n \in S
    BY <1>6
  <2> HIDE DEF S
  <2>2. 0 .. N \subseteq S
    BY <1>2, <1>5, <2>1, Turns
  <2> QED BY <2>2, <1>2
<1>8. ca_merge(leader, donor) = M[N]
  BY <1>1, <1>3 DEF ca_merge
<1>9. ToSet(donor) = {donor[i] : i \in 1 .. N}
  BY <1>2 DEF ToSet
<1> QED BY <1>7, <1>8, <1>9

(* ca_merge() keeps the order of the leader's PAs.                         *)
LEMMA MergeSorts ==
  ASSUME NEW leader \in Seq(PathAction), NEW donor \in Seq(PathAction), Roundoff > 1,
         Sorted(leader), Distinct(ToSet(leader) \cup ToSet(donor))
  PROVE  Sorted(ca_merge(leader, donor))
<1>1. PICK N : N = Len(donor)
  OBVIOUS
<1>2. N \in Nat /\ DOMAIN donor = 1 .. N /\ \A i \in 1 .. N : donor[i] \in PathAction
  BY <1>1
<1>3. PICK M : M = Merging(leader, donor)
  OBVIOUS
<1>4. M = [n \in 0 .. N |-> IF n = 0 THEN leader ELSE dict_insert(M[n - 1], donor[n])]
  BY <1>1, <1>2, <1>3, MergingTurns
<1> DEFINE All == ToSet(leader) \cup ToSet(donor)
           S == {n \in 0 .. N : /\ M[n] \in Seq(PathAction) /\ Sorted(M[n])
                                /\ ToSet(M[n]) \subseteq All}
<1>5. 0 \in S
  <2>1. M[0] = leader
    BY <1>4, <1>2
  <2> QED BY <2>1, <1>2
<1>6. ASSUME NEW n \in 1 .. N, n - 1 \in S PROVE n \in S
  <2>1. PICK d : d = M[n - 1]
    OBVIOUS
  <2>2. d \in Seq(PathAction) /\ Sorted(d) /\ ToSet(d) \subseteq All
    BY <1>6, <2>1
  <2>3. PICK e \in PathAction : e = donor[n]
    BY <1>2
  <2>4. M[n] = dict_insert(d, e)
    BY <1>2, <1>4, <2>1, <2>3
  <2>5. M[n] \in Seq(PathAction) /\ ToSet(M[n]) = ToSet(d) \cup {e}
    BY <2>2, <2>4, InsertAdds
  <2>6. e \in ToSet(donor)
    BY <2>3, <1>2 DEF ToSet
  <2>7. Distinct(ToSet(d) \cup {e})
    BY <2>2, <2>6 DEF Distinct
  <2>8. Sorted(M[n])
    BY <2>2, <2>4, <2>7, InsertSorts
  <2> QED BY <2>2, <2>5, <2>6, <2>8, <1>2
<1>7. N \in S
  <2>1. \A n \in 1 .. N : n - 1 \in S => n \in S
    BY <1>6
  <2> HIDE DEF S
  <2>2. 0 .. N \subseteq S
    BY <1>2, <1>5, <2>1, Turns
  <2> QED BY <2>2, <1>2
<1>8. ca_merge(leader, donor) = M[N]
  BY <1>1, <1>3 DEF ca_merge
<1> QED BY <1>7, <1>8

-----------------------------------------------------------------------------
(* What ca_publish() merges *)

(* Any order of a hash scan is a sequence of all the members.              *)
LEMMA AllScanned ==
  ASSUME NEW order \in SetToSeqs(Subs)
  PROVE  /\ Len(order) \in Nat
         /\ \A i \in 1 .. Len(order) : order[i] \in Subs
         /\ \A c \in Subs : \E i \in 1 .. Len(order) : order[i] = c
<1>1. PICK N : N = Cardinality(Subs)
  OBVIOUS
<1>2. N \in Nat
  BY <1>1, FS_CardinalityType, PathConstantsOK
<1>3. order \in [1 .. N -> Subs] /\ \A i, j \in 1 .. N : i # j => order[i] # order[j]
  BY <1>1 DEF SetToSeqs
<1>4. Len(order) = N
  BY <1>2, <1>3
<1>5. order \in Injection(1 .. N, Subs)
  BY <1>3 DEF Injection, IsInjective
<1>6. Cardinality(1 .. N) = N
  BY <1>2, FS_Interval
<1>7. order \in Surjection(1 .. N, Subs)
  BY <1>1, <1>5, <1>6, FS_Injection, PathConstantsOK
<1>8. \A c \in Subs : \E i \in 1 .. N : order[i] = c
  BY <1>7 DEF Surjection
<1> QED BY <1>2, <1>3, <1>4, <1>8

(* The PAs of the group that are not published.                            *)
AllRaw == UNION {ToSet(raw[c]) : c \in Subs \cup {Leader}}

(* ca_publish() leaves the PAs of every member in the leader, in whatever  *)
(* order the members are scanned.                                          *)
LEMMA ScanAdds ==
  ASSUME NEW order \in SetToSeqs(Subs), raw \in [Subs \cup {Leader} -> Seq(PathAction)]
  PROVE  /\ Merged(order) \in Seq(PathAction)
         /\ ToSet(Merged(order)) = AllRaw
<1>1. PICK N : N = Len(order)
  OBVIOUS
<1>2. /\ N \in Nat /\ \A i \in 1 .. N : order[i] \in Subs
      /\ \A c \in Subs : \E i \in 1 .. N : order[i] = c
  BY <1>1, AllScanned
<1>3. PICK M : M = Scanning(order)
  OBVIOUS
<1>4. M = [n \in 0 .. N |-> IF n = 0 THEN raw[Leader] ELSE ca_merge(M[n - 1], raw[order[n]])]
  BY <1>1, <1>2, <1>3, ScanningTurns
<1> DEFINE Of(I) == UNION {ToSet(raw[order[i]]) : i \in I}
<1>of. ASSUME NEW I, NEW x PROVE x \in Of(I) <=> \E i \in I : x \in ToSet(raw[order[i]])
  OBVIOUS
<1>none. Of({}) = {}
  OBVIOUS
<1> DEFINE S == {n \in 0 .. N :
                    /\ M[n] \in Seq(PathAction)
                    /\ ToSet(M[n]) = ToSet(raw[Leader]) \cup Of(1 .. n)}
<1>5. 0 \in S
  <2>1. M[0] = raw[Leader]
    BY <1>4, <1>2
  <2> QED BY <2>1, <1>2
<1>6. ASSUME NEW n \in 1 .. N, n - 1 \in S PROVE n \in S
  <2>1. PICK d : d = M[n - 1]
    OBVIOUS
  <2>2. /\ d \in Seq(PathAction)
        /\ ToSet(d) = ToSet(raw[Leader]) \cup Of(1 .. n - 1)
    BY <1>6, <2>1
  <2>3. PICK e \in Seq(PathAction) : e = raw[order[n]]
    BY <1>2
  <2>4. M[n] = ca_merge(d, e)
    BY <1>2, <1>4, <2>1, <2>3
  <2>5. M[n] \in Seq(PathAction) /\ ToSet(M[n]) = ToSet(d) \cup ToSet(e)
    BY <2>2, <2>4, MergeAdds
  <2>6. 1 .. n = (1 .. n - 1) \cup {n}
    OBVIOUS
  <2>7. Of(1 .. n)
          = Of(1 .. n - 1) \cup ToSet(e)
    <3>1. \A x : x \in Of((1 .. n - 1) \cup {n}) <=> x \in Of(1 .. n - 1) \/ x \in ToSet(raw[order[n]])
      <4> HIDE DEF Of
      <4> QED BY <1>of
    <3>2. \A x : x \in Of(1 .. n) <=> x \in Of(1 .. n - 1) \cup ToSet(e)
      <4> HIDE DEF Of
      <4> QED BY <2>3, <2>6, <3>1
    <3> HIDE DEF Of
    <3> QED BY <3>2
  <2>8. ToSet(M[n]) = ToSet(raw[Leader]) \cup Of(1 .. n)
    <3> HIDE DEF Of
    <3> QED BY <2>2, <2>5, <2>7
  <2>9. n \in 0 .. N
    BY <1>2
  <2> QED BY <2>5, <2>8, <2>9, Zenon
<1>7. N \in S
  <2>1. \A n \in 1 .. N : n - 1 \in S => n \in S
    BY <1>6
  <2> HIDE DEF S
  <2>2. 0 .. N \subseteq S
    BY <1>2, <1>5, <2>1, Turns
  <2> QED BY <2>2, <1>2
<1>8. Merged(order) = M[N]
  BY <1>1, <1>3 DEF Merged
<1>9. ToSet(raw[Leader]) \cup Of(1 .. N) = AllRaw
  BY <1>2, Zenon DEF AllRaw
<1> QED BY <1>7, <1>8, <1>9

(* What ca_publish() leaves in the leader is in order.                     *)
LEMMA ScanSorts ==
  ASSUME NEW order \in SetToSeqs(Subs), raw \in [Subs \cup {Leader} -> Seq(PathAction)],
         Roundoff > 1, Sorted(raw[Leader]), Distinct(AllRaw)
  PROVE  Sorted(Merged(order))
<1>1. PICK N : N = Len(order)
  OBVIOUS
<1>2. N \in Nat /\ \A i \in 1 .. N : order[i] \in Subs
  BY <1>1, AllScanned
<1>3. PICK M : M = Scanning(order)
  OBVIOUS
<1>4. M = [n \in 0 .. N |-> IF n = 0 THEN raw[Leader] ELSE ca_merge(M[n - 1], raw[order[n]])]
  BY <1>1, <1>2, <1>3, ScanningTurns
<1>5. \A c \in Subs \cup {Leader} : raw[c] \in Seq(PathAction) /\ ToSet(raw[c]) \subseteq AllRaw
  BY Zenon DEF AllRaw
<1> DEFINE S == {n \in 0 .. N : /\ M[n] \in Seq(PathAction) /\ Sorted(M[n])
                                /\ ToSet(M[n]) \subseteq AllRaw}
<1>6. 0 \in S
  <2>1. M[0] = raw[Leader]
    BY <1>4, <1>2
  <2> QED BY <2>1, <1>2, <1>5
<1>7. ASSUME NEW n \in 1 .. N, n - 1 \in S PROVE n \in S
  <2>1. PICK d : d = M[n - 1]
    OBVIOUS
  <2>2. d \in Seq(PathAction) /\ Sorted(d) /\ ToSet(d) \subseteq AllRaw
    BY <1>7, <2>1
  <2>3. PICK e \in Seq(PathAction) : e = raw[order[n]] /\ ToSet(e) \subseteq AllRaw
    BY <1>2, <1>5
  <2>4. M[n] = ca_merge(d, e)
    BY <1>2, <1>4, <2>1, <2>3
  <2>5. M[n] \in Seq(PathAction) /\ ToSet(M[n]) = ToSet(d) \cup ToSet(e)
    BY <2>2, <2>4, MergeAdds
  <2>6. Distinct(ToSet(d) \cup ToSet(e))
    BY <2>2, <2>3 DEF Distinct
  <2>7. Sorted(M[n])
    BY <2>2, <2>4, <2>6, MergeSorts
  <2> QED BY <2>2, <2>3, <2>5, <2>7, <1>2
<1>8. N \in S
  <2>1. \A n \in 1 .. N : n - 1 \in S => n \in S
    BY <1>7
  <2> HIDE DEF S
  <2>2. 0 .. N \subseteq S
    BY <1>2, <1>6, <2>1, Turns
  <2> QED BY <2>2, <1>2
<1>9. Merged(order) = M[N]
  BY <1>1, <1>3 DEF Merged
<1> QED BY <1>8, <1>9

-----------------------------------------------------------------------------
(* ca_coalesce() *)

(* The dict d is ckd with the PA, unless the one it has for the path stays. *)
CookedWith(d, ckd, pa) ==
    /\ DOMAIN d = DOMAIN ckd \cup {pa.path}
    /\ \A p \in DOMAIN ckd \cup {pa.path} : d[p] =
          IF p # pa.path \/ (p \in DOMAIN ckd /\ KeepCooked(pa, ckd[p])) THEN ckd[p] ELSE pa

(* One turn of ca_coalesce() adds the path of the PA.                      *)
LEMMA CookAdds ==
  ASSUME NEW ckd, NEW pa
  PROVE  CookedWith(Cook(ckd, pa), ckd, pa)
<1>1. CASE pa.path \in DOMAIN ckd /\ KeepCooked(pa, ckd[pa.path])
  BY <1>1 DEF Cook, CookedWith
<1>2. CASE ~(pa.path \in DOMAIN ckd /\ KeepCooked(pa, ckd[pa.path]))
  <2>1. Cook(ckd, pa) = [p \in DOMAIN ckd \cup {pa.path} |-> IF p = pa.path THEN pa ELSE ckd[p]]
    BY <1>2 DEF Cook
  <2> QED BY <1>2, <2>1 DEF CookedWith
<1> QED BY <1>1, <1>2

(* ca_coalesce() leaves a PA for every path of the dict.                   *)
LEMMA CookTypes ==
  ASSUME NEW dict \in Seq(PathAction)
  PROVE  /\ DOMAIN ca_coalesce(dict) = {pa.path : pa \in ToSet(dict)}
         /\ \A p \in DOMAIN ca_coalesce(dict) : ca_coalesce(dict)[p] \in PathAction
<1>1. PICK N : N = Len(dict)
  OBVIOUS
<1>2. N \in Nat /\ DOMAIN dict = 1 .. N /\ \A i \in 1 .. N : dict[i] \in PathAction
  BY <1>1
<1>3. PICK C : C = Cooking(dict)
  OBVIOUS
<1>4. C = [n \in 0 .. N |-> IF n = 0 THEN NoneCooked ELSE Cook(C[n - 1], dict[n])]
  BY <1>1, <1>2, <1>3, CookingTurns
<1> DEFINE S == {n \in 0 .. N : /\ DOMAIN C[n] = {dict[i].path : i \in 1 .. n}
                                /\ \A p \in DOMAIN C[n] : C[n][p] \in PathAction}
<1>5. 0 \in S
  <2>1. C[0] = NoneCooked
    BY <1>4, <1>2
  <2> QED BY <2>1, <1>2 DEF NoneCooked
<1>6. ASSUME NEW n \in 1 .. N, n - 1 \in S PROVE n \in S
  <2>1. PICK c : c = C[n - 1]
    OBVIOUS
  <2>2. DOMAIN c = {dict[i].path : i \in 1 .. n - 1} /\ \A p \in DOMAIN c : c[p] \in PathAction
    BY <1>6, <2>1
  <2>3. PICK e \in PathAction : e = dict[n]
    BY <1>2
  <2>4. C[n] = Cook(c, e)
    BY <1>2, <1>4, <2>1, <2>3
  <2>5. /\ DOMAIN C[n] = DOMAIN c \cup {e.path}
        /\ \A p \in DOMAIN c \cup {e.path} : C[n][p] =
              IF p # e.path \/ (p \in DOMAIN c /\ KeepCooked(e, c[p])) THEN c[p] ELSE e
    <3>1. CookedWith(C[n], c, e)
      BY <2>4, CookAdds
    <3> QED BY <3>1 DEF CookedWith
  <2>6. \A p \in DOMAIN C[n] : C[n][p] \in PathAction
    BY <2>2, <2>5
  <2>7. {dict[i].path : i \in 1 .. n} = {dict[i].path : i \in 1 .. n - 1} \cup {e.path}
    BY <2>3, <1>2
  <2>8. DOMAIN C[n] = {dict[i].path : i \in 1 .. n}
    BY <2>2, <2>5, <2>7, Zenon
  <2>9. n \in 0 .. N
    BY <1>2
  <2> QED BY <2>6, <2>8, <2>9, Zenon
<1>7. N \in S
  <2>1. \A n \in 1 .. N : n - 1 \in S => n \in S
    BY <1>6
  <2> HIDE DEF S
  <2>2. 0 .. N \subseteq S
    BY <1>2, <1>5, <2>1, Turns
  <2> QED BY <2>2, <1>2
<1>8. ca_coalesce(dict) = C[N]
  BY <1>1, <1>3 DEF ca_coalesce
<1>9. {pa.path : pa \in ToSet(dict)} = {dict[i].path : i \in 1 .. N}
  BY <1>2 DEF ToSet
<1> QED BY <1>7, <1>8, <1>9

(* Element i of the first n is the one ca_coalesce() keeps for path p: the *)
(* first of those with the latest time, or the first read.                 *)
Kept(dict, n, p, i) ==
    /\ i \in 1 .. n /\ dict[i].path = p
    /\ pa_is_read(dict[i]) =>
           \A j \in 1 .. n : dict[j].path = p => pa_is_read(dict[j]) /\ i <= j
    /\ ~pa_is_read(dict[i]) =>
           \A j \in 1 .. n : dict[j].path = p /\ ~pa_is_read(dict[j]) =>
               /\ Rounded(dict[j].time) <= Rounded(dict[i].time)
               /\ j < i => Rounded(dict[j].time) < Rounded(dict[i].time)

(* Does ca_coalesce() keep the one it has, that is still the one to keep.  *)
LEMMA StillKept ==
  ASSUME NEW dict \in Seq(PathAction), NEW n \in 1 .. Len(dict), NEW p, NEW i,
         Roundoff > 1, Kept(dict, n - 1, p, i),
         dict[n].path # p \/ KeepCooked(dict[n], dict[i])
  PROVE  Kept(dict, n, p, i)
<1>1. i \in 1 .. n - 1 /\ dict[i] \in PathAction /\ dict[n] \in PathAction
  BY DEF Kept
<1>2. \A j \in 1 .. n : j \in 1 .. n - 1 \/ j = n
  OBVIOUS
<1>3. CASE dict[n].path # p
  BY <1>1, <1>2, <1>3 DEF Kept
<1>4. CASE KeepCooked(dict[n], dict[i])
  <2>1. CASE ~pa_is_read(dict[i]) /\ ~pa_is_read(dict[n])
    <3>1. ~(moment_cmp(dict[n].time, dict[i].time) > 0)
      <4>1. moment_cmp(dict[n].time, dict[i].time) \in {-1, 0, 1}
        BY <1>1, PAFields, MomentOrder
      <4> QED BY <4>1, <2>1, <1>4 DEF KeepCooked
    <3>2. Rounded(dict[n].time) <= Rounded(dict[i].time)
      BY <3>1, <1>1, PAFields, MomentOrder
    <3> QED BY <3>2, <2>1, <1>1, <1>2 DEF Kept
  <2>2. CASE pa_is_read(dict[n])
    BY <2>2, <1>1, <1>2 DEF Kept
  <2> QED BY <2>1, <2>2, <1>4 DEF KeepCooked
<1> QED BY <1>3, <1>4

(* Does it take the next one instead, that is the one to keep.             *)
LEMMA NowKept ==
  ASSUME NEW dict \in Seq(PathAction), NEW n \in 1 .. Len(dict), NEW p, NEW i,
         Roundoff > 1, Kept(dict, n - 1, p, i),
         dict[n].path = p, ~KeepCooked(dict[n], dict[i])
  PROVE  Kept(dict, n, p, n)
<1>1. i \in 1 .. n - 1 /\ dict[i] \in PathAction /\ dict[n] \in PathAction
  BY DEF Kept
<1>2. \A j \in 1 .. n : j \in 1 .. n - 1 \/ j = n
  OBVIOUS
<1>3. \A j \in 1 .. n : dict[j] \in PathAction /\ Rounded(dict[j].time) \in Int
  BY PAFields
<1>4. ~pa_is_read(dict[n])
  BY DEF KeepCooked
<1>5. CASE pa_is_read(dict[i])
  BY <1>1, <1>2, <1>3, <1>4, <1>5 DEF Kept
<1>6. CASE ~pa_is_read(dict[i])
  <2>1. moment_cmp(dict[n].time, dict[i].time) > 0
    <3>1. moment_cmp(dict[n].time, dict[i].time) \in {-1, 0, 1}
      BY <1>1, PAFields, MomentOrder
    <3> QED BY <3>1, <1>4, <1>6 DEF KeepCooked
  <2>2. Rounded(dict[n].time) > Rounded(dict[i].time)
    BY <2>1, <1>1, PAFields, MomentOrder
  <2>3. ASSUME NEW j \in 1 .. n, dict[j].path = p, ~pa_is_read(dict[j])
        PROVE  /\ Rounded(dict[j].time) <= Rounded(dict[n].time)
               /\ j < n => Rounded(dict[j].time) < Rounded(dict[n].time)
    <3>1. CASE j = n
      BY <3>1, <1>3
    <3>2. CASE j \in 1 .. n - 1
      <4>1. Rounded(dict[j].time) <= Rounded(dict[i].time)
        BY <3>2, <2>3, <1>6 DEF Kept
      <4>2. Rounded(dict[j].time) \in Int /\ Rounded(dict[i].time) \in Int /\ Rounded(dict[n].time) \in Int
        BY <1>1, <1>3
      <4> QED BY <4>1, <4>2, <2>2
    <3> QED BY <3>1, <3>2, <1>2
  <2> QED BY <2>3, <1>4 DEF Kept
<1> QED BY <1>5, <1>6

(* For each path ca_coalesce() keeps the first of its last modifications,  *)
(* or its first read.                                                      *)
LEMMA CookKeeps ==
  ASSUME NEW dict \in Seq(PathAction), Roundoff > 1, NEW q \in DOMAIN ca_coalesce(dict)
  PROVE  \E i : Kept(dict, Len(dict), q, i) /\ ca_coalesce(dict)[q] = dict[i]
<1>1. PICK N : N = Len(dict)
  OBVIOUS
<1>2. N \in Nat /\ DOMAIN dict = 1 .. N /\ \A i \in 1 .. N : dict[i] \in PathAction
  BY <1>1
<1>3. PICK C : C = Cooking(dict)
  OBVIOUS
<1>4. C = [n \in 0 .. N |-> IF n = 0 THEN NoneCooked ELSE Cook(C[n - 1], dict[n])]
  BY <1>1, <1>2, <1>3, CookingTurns
<1> DEFINE S == {n \in 0 .. N : /\ \A j \in 1 .. n : dict[j].path \in DOMAIN C[n]
                                /\ \A p \in DOMAIN C[n] : \E i : Kept(dict, n, p, i) /\ C[n][p] = dict[i]}
<1>5. 0 \in S
  <2>1. C[0] = NoneCooked
    BY <1>4, <1>2
  <2>2. DOMAIN C[0] = {}
    BY <2>1 DEF NoneCooked
  <2> QED BY <2>2, <1>2
<1>6. ASSUME NEW n \in 1 .. N, n - 1 \in S PROVE n \in S
  <2>1. PICK c : c = C[n - 1]
    OBVIOUS
  <2>2. /\ \A j \in 1 .. n - 1 : dict[j].path \in DOMAIN c
        /\ \A p \in DOMAIN c : \E i : Kept(dict, n - 1, p, i) /\ c[p] = dict[i]
    BY <1>6, <2>1
  <2>3. PICK e \in PathAction : e = dict[n]
    BY <1>2
  <2>4. C[n] = Cook(c, e)
    BY <1>2, <1>4, <2>1, <2>3
  <2>5. /\ DOMAIN C[n] = DOMAIN c \cup {e.path}
        /\ \A p \in DOMAIN c \cup {e.path} : C[n][p] =
              IF p # e.path \/ (p \in DOMAIN c /\ KeepCooked(e, c[p])) THEN c[p] ELSE e
    <3>1. CookedWith(C[n], c, e)
      BY <2>4, CookAdds
    <3> QED BY <3>1 DEF CookedWith
  <2>6. \A j \in 1 .. n : dict[j].path \in DOMAIN C[n]
    BY <2>2, <2>3, <2>5
  <2>7. ASSUME NEW p \in DOMAIN C[n] PROVE \E i : Kept(dict, n, p, i) /\ C[n][p] = dict[i]
    <3>1. CASE p \in DOMAIN c
      <4>1. PICK i : Kept(dict, n - 1, p, i) /\ c[p] = dict[i]
        BY <2>2, <3>1
      <4>2. CASE p # e.path \/ KeepCooked(e, c[p])
        <5>1. Kept(dict, n, p, i)
          BY <4>1, <4>2, <2>3, <1>1, StillKept
        <5>2. C[n][p] = dict[i]
          BY <4>1, <4>2, <2>5, <3>1
        <5> QED BY <5>1, <5>2
      <4>3. CASE p = e.path /\ ~KeepCooked(e, c[p])
        <5>1. Kept(dict, n, p, n)
          BY <4>1, <4>3, <2>3, <1>1, NowKept
        <5>2. C[n][p] = dict[n]
          BY <4>3, <2>3, <2>5
        <5> QED BY <5>1, <5>2
      <4> QED BY <4>2, <4>3
    <3>2. CASE p \notin DOMAIN c
      <4>1. p = e.path /\ C[n][p] = e
        BY <3>2, <2>5
      <4>2. \A j \in 1 .. n : dict[j].path = p => j = n
        <5>1. \A j \in 1 .. n : j \in 1 .. n - 1 \/ j = n
          OBVIOUS
        <5> QED BY <5>1, <3>2, <2>2
      <4>3. Kept(dict, n, p, n)
        <5>1. Rounded(e.time) \in Int
          BY PAFields
        <5> QED BY <4>1, <4>2, <2>3, <5>1 DEF Kept
      <4> QED BY <4>1, <4>3, <2>3
    <3> QED BY <3>1, <3>2
  <2> QED BY <2>6, <2>7, <1>2
<1>7. N \in S
  <2>1. \A n \in 1 .. N : n - 1 \in S => n \in S
    BY <1>6
  <2> HIDE DEF S
  <2>2. 0 .. N \subseteq S
    BY <1>2, <1>5, <2>1, Turns
  <2> QED BY <2>2, <1>2
<1>8. ca_coalesce(dict) = C[N]
  BY <1>1, <1>3 DEF ca_coalesce
<1> QED BY <1>1, <1>7, <1>8

(* Two dicts with the same PAs in order: ca_coalesce() says the same of    *)
(* each path.                                                              *)
LEMMA SameKept ==
  ASSUME NEW d1 \in Seq(PathAction), NEW d2 \in Seq(PathAction), Roundoff > 1,
         Sorted(d1), Sorted(d2), ToSet(d1) = ToSet(d2), Distinct(ToSet(d1)), NEW p,
         NEW i, Kept(d1, Len(d1), p, i), NEW j, Kept(d2, Len(d2), p, j)
  PROVE  d1[i].op = d2[j].op /\ Rounded(d1[i].time) = Rounded(d2[j].time)
<1>1. /\ DOMAIN d1 = 1 .. Len(d1) /\ i \in DOMAIN d1
      /\ DOMAIN d2 = 1 .. Len(d2) /\ j \in DOMAIN d2
  BY DEF Kept
<1>2. PICK x \in PathAction : x = d1[i]
  BY <1>1
<1>3. PICK y \in PathAction : y = d2[j]
  BY <1>1
<1>4. x \in ToSet(d1) /\ y \in ToSet(d2)
  BY <1>1, <1>2, <1>3 DEF ToSet
<1>5. PICK k \in DOMAIN d2 : x = d2[k]
  BY <1>4 DEF ToSet
<1>6. PICK l \in DOMAIN d1 : y = d1[l]
  BY <1>4 DEF ToSet
<1>7. x.path = p /\ y.path = p
  BY <1>2, <1>3 DEF Kept
<1>8. /\ Rounded(x.time) \in Int /\ Rounded(y.time) \in Int
      /\ x.ptr \in Int /\ y.ptr \in Int /\ x.path \in Int
  BY PAFields
<1>9. (i < l => InOrder(x, y)) /\ (j < k => InOrder(y, x))
  BY <1>1, <1>2, <1>3, <1>5, <1>6 DEF Sorted
<1>10. i \in Int /\ j \in Int /\ k \in Int /\ l \in Int
  BY <1>1, <1>5, <1>6
<1>11. x.ptr = y.ptr => x = y
  BY <1>4 DEF Distinct
<1>12. CASE pa_is_read(x)
  <2>1. pa_is_read(y) /\ i <= l
    BY <1>1, <1>2, <1>6, <1>7, <1>12 DEF Kept
  <2>2. j <= k
    BY <1>1, <1>3, <1>5, <1>7, <2>1 DEF Kept
  <2>3. i = l \/ InOrder(x, y)
    BY <2>1, <1>9, <1>10
  <2>4. j = k \/ InOrder(y, x)
    BY <2>2, <1>9, <1>10
  <2>5. x = y
    <3>1. CASE i = l \/ j = k
      BY <3>1, <1>2, <1>3, <1>5, <1>6
    <3>2. CASE InOrder(x, y) /\ InOrder(y, x)
      <4>1. x.ptr <= y.ptr /\ y.ptr <= x.ptr
        BY <3>2, <1>7, <1>8, <1>12, <2>1 DEF InOrder
      <4> QED BY <4>1, <1>8, <1>11
    <3> QED BY <3>1, <3>2, <2>3, <2>4
  <2> QED BY <2>5, <1>2, <1>3
<1>13. CASE ~pa_is_read(x)
  <2>1. ~pa_is_read(y)
    BY <1>1, <1>3, <1>5, <1>7, <1>13 DEF Kept
  <2>2. Rounded(y.time) <= Rounded(x.time) /\ (l < i => Rounded(y.time) < Rounded(x.time))
    BY <1>1, <1>2, <1>6, <1>7, <1>13, <2>1 DEF Kept
  <2>3. Rounded(x.time) <= Rounded(y.time) /\ (k < j => Rounded(x.time) < Rounded(y.time))
    BY <1>1, <1>3, <1>5, <1>7, <1>13, <2>1 DEF Kept
  <2>4. Rounded(x.time) = Rounded(y.time)
    BY <2>2, <2>3, <1>8
  <2>5. i = l \/ InOrder(x, y)
    BY <2>2, <2>4, <1>8, <1>9, <1>10
  <2>6. j = k \/ InOrder(y, x)
    BY <2>3, <2>4, <1>8, <1>9, <1>10
  <2>7. x.op = y.op
    <3>1. CASE i = l \/ j = k
      BY <3>1, <1>2, <1>3, <1>5, <1>6
    <3>2. CASE InOrder(x, y) /\ InOrder(y, x)
      <4>1. /\ pa_is_unlink(y) \/ (~pa_is_unlink(x) /\ x.ptr <= y.ptr)
            /\ pa_is_unlink(x) \/ (~pa_is_unlink(y) /\ y.ptr <= x.ptr)
        BY <3>2, <1>8, <1>13, <2>1, <2>4 DEF InOrder
      <4>2. CASE pa_is_unlink(x) /\ pa_is_unlink(y)
        BY <4>2 DEF pa_is_unlink
      <4>3. CASE x.ptr <= y.ptr /\ y.ptr <= x.ptr
        BY <4>3, <1>8, <1>11
      <4> QED BY <4>1, <4>2, <4>3
    <3> QED BY <3>1, <3>2, <2>5, <2>6
  <2> QED BY <2>4, <2>7, <1>2, <1>3
<1> QED BY <1>12, <1>13

(* Two dicts with the same PAs in order coalesce to the same record.       *)
LEMMA SameRecord ==
  ASSUME NEW d1 \in Seq(PathAction), NEW d2 \in Seq(PathAction), Roundoff > 1,
         Sorted(d1), Sorted(d2), ToSet(d1) = ToSet(d2), Distinct(ToSet(d1))
  PROVE  Digest(ca_coalesce(d1)) = Digest(ca_coalesce(d2))
<1>1. PICK c1 : c1 = ca_coalesce(d1)
  OBVIOUS
<1>2. PICK c2 : c2 = ca_coalesce(d2)
  OBVIOUS
<1>3. DOMAIN c1 = DOMAIN c2
  BY <1>1, <1>2, CookTypes
<1>4. ASSUME NEW p \in DOMAIN c1
      PROVE  c1[p].op = c2[p].op /\ Rounded(c1[p].time) = Rounded(c2[p].time)
  <2>1. PICK i : Kept(d1, Len(d1), p, i) /\ c1[p] = d1[i]
    BY <1>1, CookKeeps
  <2>2. PICK j : Kept(d2, Len(d2), p, j) /\ c2[p] = d2[j]
    BY <1>2, <1>3, CookKeeps
  <2> QED BY <2>1, <2>2, SameKept
<1>5. Digest(c1) = Digest(c2)
  BY <1>3, <1>4 DEF Digest
<1> QED BY <1>1, <1>2, <1>5

-----------------------------------------------------------------------------
(* The theorems *)

(* Before the group is published every PA received is in the dict of one   *)
(* of its audits, and PAs have addresses of their own.                     *)
NoneLost ==
    /\ AllRaw \subseteq received
    /\ cooked = NoneCooked => received \subseteq AllRaw
    /\ Distinct(received)

(* The dicts of the audits are in order.                                   *)
AllSorted == \A c \in Subs \cup {Leader} : Sorted(raw[c])

(* The record has a PA for every path touched, temporary files included,   *)
(* and it is the last modification.                                        *)
LastTold ==
    cooked # NoneCooked =>
        /\ DOMAIN cooked = {pa.path : pa \in received}
        /\ \A p \in DOMAIN cooked : cooked[p] \in LastOn(p)

PAInv == PATypeOK /\ NoneLost /\ (Roundoff > 1 => AllSorted /\ LastTold)

(* What ca_record_pa() does to the dicts.                                  *)
LEMMA Recorded ==
  ASSUME PATypeOK, NEW c \in Subs \cup {Leader}, NEW pa \in PathAction, ca_record_pa(c, pa)
  PROVE  /\ raw' \in [Subs \cup {Leader} -> Seq(PathAction)]
         /\ \A d \in Subs \cup {Leader} : raw'[d] = IF d = c THEN dict_insert(raw[c], pa) ELSE raw[d]
         /\ AllRaw' = AllRaw \cup {pa}
<1>1. raw \in [Subs \cup {Leader} -> Seq(PathAction)]
  BY DEF PATypeOK
<1>2. PICK t : t = dict_insert(raw[c], pa)
  OBVIOUS
<1>3. t \in Seq(PathAction) /\ ToSet(t) = ToSet(raw[c]) \cup {pa}
  BY <1>1, <1>2, InsertAdds
<1>4. raw' = [raw EXCEPT ![c] = t]
  BY <1>2 DEF ca_record_pa
<1>5. raw' \in [Subs \cup {Leader} -> Seq(PathAction)]
  BY <1>1, <1>3, <1>4
<1>6. \A d \in Subs \cup {Leader} : raw'[d] = IF d = c THEN t ELSE raw[d]
  BY <1>1, <1>4
<1>7. \A x : x \in AllRaw <=> \E d \in Subs \cup {Leader} : x \in ToSet(raw[d])
  BY DEF AllRaw
<1>8. \A x : x \in AllRaw' <=> \E d \in Subs \cup {Leader} : x \in ToSet(raw'[d])
  BY DEF AllRaw, ToSet
<1>9. \A x : x \in AllRaw' <=> x \in AllRaw \cup {pa}
  BY <1>3, <1>6, <1>7, <1>8
<1> QED BY <1>2, <1>5, <1>6, <1>9

(* What ca_publish() does: the cooked dict has a PA for every path of the  *)
(* group's PAs, and the raw dicts are empty.                               *)
LEMMA Published ==
  ASSUME PATypeOK, NEW order \in SetToSeqs(Subs), ca_publish(order)
  PROVE  /\ raw' \in [Subs \cup {Leader} -> Seq(PathAction)]
         /\ \A d \in Subs \cup {Leader} : raw'[d] = <<>>
         /\ AllRaw' = {}
         /\ DOMAIN cooked' = {pa.path : pa \in AllRaw}
         /\ \A p \in DOMAIN cooked' : cooked'[p] \in PathAction
<1>1. raw' = [d \in Subs \cup {Leader} |-> <<>>] /\ cooked' = ca_coalesce(Merged(order))
  BY DEF ca_publish
<1>2. \A d \in Subs \cup {Leader} : raw'[d] = <<>>
  BY <1>1
<1>3. AllRaw' = {}
  BY <1>2 DEF AllRaw, ToSet
<1>4. PICK m : m = Merged(order)
  OBVIOUS
<1>5. m \in Seq(PathAction) /\ ToSet(m) = AllRaw
  BY <1>4, ScanAdds DEF PATypeOK
<1>6. cooked' = ca_coalesce(m)
  BY <1>1, <1>4
<1>7. DOMAIN cooked' = {pa.path : pa \in ToSet(m)}
      /\ \A p \in DOMAIN cooked' : cooked'[p] \in PathAction
  BY <1>5, <1>6, CookTypes
<1> QED BY <1>1, <1>2, <1>3, <1>5, <1>7

(* The type invariant is inductive, whatever the time stamps are rounded   *)
(* to.                                                                     *)
LEMMA PATypesKept == PATypeOK /\ [PANext]_paVars => PATypeOK'
<1> SUFFICES ASSUME PATypeOK, [PANext]_paVars PROVE PATypeOK'
  OBVIOUS
<1>1. ASSUME NEW c \in Subs \cup {Leader}, NEW pa \in PathAction, ca_record_pa(c, pa)
      PROVE  PATypeOK'
  <2>1. raw' \in [Subs \cup {Leader} -> Seq(PathAction)]
    BY <1>1, Recorded
  <2>2. received' \subseteq PathAction /\ cooked' = cooked
    BY <1>1 DEF ca_record_pa, PATypeOK
  <2> QED BY <2>1, <2>2 DEF PATypeOK
<1>2. ASSUME NEW order \in SetToSeqs(Subs), ca_publish(order)
      PROVE  PATypeOK'
  <2>1. /\ raw' \in [Subs \cup {Leader} -> Seq(PathAction)]
        /\ DOMAIN cooked' = {pa.path : pa \in AllRaw}
        /\ \A p \in DOMAIN cooked' : cooked'[p] \in PathAction
    BY <1>2, Published
  <2>2. ASSUME NEW pa \in AllRaw PROVE pa.path \in Paths
    <3>1. PICK d \in Subs \cup {Leader} : pa \in ToSet(raw[d])
      BY DEF AllRaw
    <3>2. pa \in PathAction
      BY <3>1 DEF PATypeOK, ToSet
    <3> QED BY <3>2, PAFields
  <2>3. received' = received
    BY <1>2 DEF ca_publish
  <2> QED BY <2>1, <2>2, <2>3 DEF PATypeOK
<1>3. CASE UNCHANGED paVars
  BY <1>3 DEF paVars, PATypeOK
<1> QED BY <1>1, <1>2, <1>3 DEF PANext

(* No PA is lost before the group is published, and every new one has an   *)
(* address of its own.                                                     *)
LEMMA NoneLostKept == PATypeOK /\ NoneLost /\ [PANext]_paVars => NoneLost'
<1> SUFFICES ASSUME PATypeOK, NoneLost, [PANext]_paVars PROVE NoneLost'
  OBVIOUS
<1>1. ASSUME NEW c \in Subs \cup {Leader}, NEW pa \in PathAction, ca_record_pa(c, pa)
      PROVE  NoneLost'
  <2>1. AllRaw' = AllRaw \cup {pa}
    BY <1>1, Recorded
  <2>2. /\ cooked = NoneCooked /\ cooked' = cooked /\ received' = received \cup {pa}
        /\ \A x \in received : x.ptr # pa.ptr
    BY <1>1 DEF ca_record_pa
  <2>3. Distinct(received')
    BY <2>2 DEF Distinct, NoneLost
  <2> QED BY <2>1, <2>2, <2>3 DEF NoneLost, Distinct
<1>2. ASSUME NEW order \in SetToSeqs(Subs), ca_publish(order)
      PROVE  NoneLost'
  <2>1. AllRaw' = {} /\ DOMAIN cooked' = {pa.path : pa \in AllRaw}
    BY <1>2, Published
  <2>2. received # {} /\ cooked = NoneCooked /\ received' = received
    BY <1>2 DEF ca_publish
  <2>3. cooked' # NoneCooked
    <3>1. DOMAIN cooked' # {}
      BY <2>1, <2>2 DEF NoneLost
    <3> QED BY <3>1 DEF NoneCooked
  <2>4. NoneCooked' = NoneCooked
    BY DEF NoneCooked
  <2> QED BY <2>1, <2>2, <2>3, <2>4 DEF NoneLost, Distinct
<1>3. CASE UNCHANGED paVars
  <2>1. raw' = raw /\ received' = received /\ cooked' = cooked /\ AllRaw' = AllRaw
    BY <1>3 DEF paVars, AllRaw
  <2> QED BY <2>1 DEF NoneLost, Distinct, NoneCooked
<1> QED BY <1>1, <1>2, <1>3 DEF PANext

(* The dicts of the audits stay in order.                                  *)
LEMMA OrderKept ==
  ASSUME Roundoff > 1, PATypeOK, NoneLost, AllSorted, [PANext]_paVars
  PROVE  AllSorted'
<1>1. ASSUME NEW c \in Subs \cup {Leader}, NEW pa \in PathAction, ca_record_pa(c, pa),
             NEW d \in Subs \cup {Leader}
      PROVE  Sorted(raw'[d])
  <2>1. raw'[d] = IF d = c THEN dict_insert(raw[c], pa) ELSE raw[d]
    BY <1>1, Recorded
  <2>2. CASE d = c
    <3>1. raw[c] \in Seq(PathAction) /\ Sorted(raw[c])
      BY DEF PATypeOK, AllSorted
    <3>2. ToSet(raw[c]) \subseteq received
      BY DEF NoneLost, AllRaw
    <3>3. \A x \in received : x.ptr # pa.ptr
      BY <1>1 DEF ca_record_pa
    <3>4. Distinct(ToSet(raw[c]) \cup {pa})
      BY <3>2, <3>3 DEF Distinct, NoneLost
    <3>5. Sorted(dict_insert(raw[c], pa))
      BY <3>1, <3>4, InsertSorts
    <3> QED BY <2>1, <2>2, <3>5
  <2>3. CASE d # c
    BY <2>1, <2>3 DEF AllSorted
  <2> QED BY <2>2, <2>3
<1>2. ASSUME NEW order \in SetToSeqs(Subs), ca_publish(order), NEW d \in Subs \cup {Leader}
      PROVE  Sorted(raw'[d])
  <2>1. raw'[d] = <<>>
    BY <1>2, Published
  <2> QED BY <2>1 DEF Sorted
<1>3. CASE UNCHANGED paVars
  <2>1. raw' = raw
    BY <1>3 DEF paVars
  <2> QED BY <2>1 DEF AllSorted, Sorted, InOrder
<1>4. CASE \E c \in Subs \cup {Leader}, pa \in PathAction : ca_record_pa(c, pa)
  <2>1. \A d \in Subs \cup {Leader} : Sorted(raw'[d])
    BY <1>1, <1>4
  <2> QED BY <2>1 DEF AllSorted, Sorted, InOrder
<1>5. CASE \E order \in SetToSeqs(Subs) : ca_publish(order)
  <2>1. \A d \in Subs \cup {Leader} : Sorted(raw'[d])
    BY <1>2, <1>5
  <2> QED BY <2>1 DEF AllSorted, Sorted, InOrder
<1> QED BY <1>3, <1>4, <1>5 DEF PANext

(* The record that ca_publish() leaves has the last modification of every  *)
(* path, or a read of one that was never modified.                         *)
LEMMA LastPublished ==
  ASSUME Roundoff > 1, PATypeOK, NoneLost, NEW order \in SetToSeqs(Subs), ca_publish(order)
  PROVE  LastTold'
<1>1. cooked = NoneCooked /\ received' = received /\ cooked' = ca_coalesce(Merged(order))
  BY DEF ca_publish
<1>2. AllRaw = received
  BY <1>1 DEF NoneLost
<1>3. PICK m : m = Merged(order)
  OBVIOUS
<1>4. m \in Seq(PathAction) /\ ToSet(m) = received
  BY <1>2, <1>3, ScanAdds DEF PATypeOK
<1>5. PICK c : c = ca_coalesce(m)
  OBVIOUS
<1>6. DOMAIN c = {pa.path : pa \in received}
  BY <1>4, <1>5, CookTypes
<1>7. ASSUME NEW p \in DOMAIN c PROVE c[p] \in LastOn(p)
  <2>1. PICK i : Kept(m, Len(m), p, i) /\ c[p] = m[i]
    BY <1>4, <1>5, CookKeeps
  <2>2. PICK x : x = c[p]
    OBVIOUS
  <2>3. DOMAIN m = 1 .. Len(m) /\ i \in DOMAIN m /\ x = m[i] /\ x.path = p
    BY <1>4, <2>1, <2>2 DEF Kept
  <2>4. x \in On(p)
    BY <1>4, <2>3 DEF On, ToSet
  <2>5. \A y \in On(p) : \E j \in 1 .. Len(m) : y = m[j] /\ m[j].path = p
    BY <1>4, <2>3 DEF On, ToSet
  <2>6. CASE pa_is_read(x)
    <3>1. \A y \in On(p) : pa_is_read(y)
      BY <2>1, <2>3, <2>5, <2>6 DEF Kept
    <3>2. LastOn(p) = On(p)
      BY <3>1 DEF LastOn
    <3> QED BY <2>2, <2>4, <3>2
  <2>7. CASE ~pa_is_read(x)
    <3>1. \A y \in On(p) : ~pa_is_read(y) => Rounded(y.time) <= Rounded(x.time)
      BY <2>1, <2>3, <2>5, <2>7 DEF Kept
    <3> QED BY <2>2, <2>4, <2>7, <3>1 DEF LastOn
  <2> QED BY <2>6, <2>7
<1>8. cooked' = c
  BY <1>1, <1>3, <1>5
<1>9. \A p : LastOn(p)' = LastOn(p)
  BY <1>1 DEF LastOn, On, pa_is_read, Rounded
<1>10. DOMAIN cooked' = {pa.path : pa \in received'} /\ \A p \in DOMAIN cooked' : cooked'[p] \in LastOn(p)
  BY <1>1, <1>6, <1>7, <1>8
<1> QED BY <1>1, <1>10 DEF LastTold, LastOn, On, pa_is_read, Rounded

(* A published record stays as it is.                                      *)
LEMMA LastKept ==
  ASSUME Roundoff > 1, PATypeOK, NoneLost, LastTold, [PANext]_paVars
  PROVE  LastTold'
<1>1. ASSUME NEW c \in Subs \cup {Leader}, NEW pa \in PathAction, ca_record_pa(c, pa)
      PROVE  LastTold'
  BY <1>1 DEF ca_record_pa, LastTold, NoneCooked
<1>2. ASSUME NEW order \in SetToSeqs(Subs), ca_publish(order)
      PROVE  LastTold'
  BY <1>2, LastPublished
<1>3. CASE UNCHANGED paVars
  BY <1>3 DEF paVars, LastTold, LastOn, On, pa_is_read, Rounded, NoneCooked
<1> QED BY <1>1, <1>2, <1>3 DEF PANext

(* The inductive invariant of the path actions of a group.                 *)
THEOREM PathInvariant == PASpec => []PAInv
<1>1. PAInit => PAInv
  <2> SUFFICES ASSUME PAInit PROVE PAInv
    OBVIOUS
  <2>1. \A c \in Subs \cup {Leader} : raw[c] = <<>>
    BY DEF PAInit
  <2>2. PATypeOK
    BY DEF PAInit, PATypeOK, NoneCooked
  <2>3. AllRaw = {}
    BY <2>1 DEF AllRaw, ToSet
  <2>4. NoneLost
    BY <2>3 DEF PAInit, NoneLost, Distinct
  <2>5. AllSorted
    BY <2>1 DEF AllSorted, Sorted
  <2>6. LastTold
    BY DEF PAInit, LastTold
  <2> QED BY <2>2, <2>4, <2>5, <2>6 DEF PAInv
<1>2. PAInv /\ [PANext]_paVars => PAInv'
  <2> SUFFICES ASSUME PAInv, [PANext]_paVars PROVE PAInv'
    OBVIOUS
  <2>1. PATypeOK' /\ NoneLost'
    BY PATypesKept, NoneLostKept DEF PAInv
  <2>2. Roundoff > 1 => AllSorted' /\ LastTold'
    BY OrderKept, LastKept DEF PAInv
  <2> QED BY <2>1, <2>2 DEF PAInv
<1> QED BY <1>1, <1>2, PTL DEF PASpec

(* The raw dicts and the cooked dict hold path actions, whatever time      *)
(* stamps are rounded to.                                                  *)
THEOREM PathTypes == PASpec => []PATypeOK
<1>1. PAInv => PATypeOK
  BY DEF PAInv
<1> QED BY <1>1, PathInvariant, PTL

(* Destructive operations are kept in the order they occurred, for every   *)
(* number of audits and of PAs and every order of delivery, as long as     *)
(* moment_cmp() rounds anything off.                                       *)
THEOREM WritesKeepOrder ==
  ASSUME Roundoff > 1
  PROVE  PASpec => []WritesInOrder
<1>1. PAInv => WritesInOrder
  <2> SUFFICES ASSUME PAInv, NEW c \in Subs \cup {Leader}, NEW i \in DOMAIN raw[c],
                      NEW j \in DOMAIN raw[c], i < j,
                      ~pa_is_read(raw[c][i]), ~pa_is_read(raw[c][j])
               PROVE  Rounded(raw[c][i].time) <= Rounded(raw[c][j].time)
    BY DEF WritesInOrder
  <2>1. raw[c][i] \in PathAction /\ raw[c][j] \in PathAction
    BY DEF PAInv, PATypeOK
  <2>2. InOrder(raw[c][i], raw[c][j])
    BY DEF PAInv, AllSorted, Sorted
  <2> QED BY <2>1, <2>2, PAFields DEF InOrder
<1> QED BY <1>1, PathInvariant, PTL

(* The published record says of every path what was last done to it, for   *)
(* every number of audits and of PAs, and every order in which they are    *)
(* delivered and merged.                                                   *)
THEOREM LastModificationRecorded ==
  ASSUME Roundoff > 1
  PROVE  PASpec => []LastModificationWins
<1>1. PAInv => LastModificationWins
  BY DEF PAInv, LastTold, LastModificationWins
<1> QED BY <1>1, PathInvariant, PTL

(* The order in which a hash scan merges the members of a group does not   *)
(* matter to the record.                                                   *)
THEOREM AnyMergeOrder ==
  ASSUME Roundoff > 1
  PROVE  PASpec => []MergeOrderIrrelevant
<1>1. PAInv => MergeOrderIrrelevant
  <2> SUFFICES ASSUME PAInv, NEW o1 \in SetToSeqs(Subs), NEW o2 \in SetToSeqs(Subs)
               PROVE  Digest(ca_coalesce(Merged(o1))) = Digest(ca_coalesce(Merged(o2)))
    BY DEF MergeOrderIrrelevant
  <2>1. raw \in [Subs \cup {Leader} -> Seq(PathAction)]
    BY DEF PAInv, PATypeOK
  <2>2. Distinct(AllRaw)
    BY DEF PAInv, NoneLost, Distinct
  <2>3. Sorted(raw[Leader])
    BY DEF PAInv, AllSorted
  <2>4. PICK d1 : d1 = Merged(o1)
    OBVIOUS
  <2>5. PICK d2 : d2 = Merged(o2)
    OBVIOUS
  <2>6. d1 \in Seq(PathAction) /\ ToSet(d1) = AllRaw /\ Sorted(d1)
    BY <2>1, <2>2, <2>3, <2>4, ScanAdds, ScanSorts
  <2>7. d2 \in Seq(PathAction) /\ ToSet(d2) = AllRaw /\ Sorted(d2)
    BY <2>1, <2>2, <2>3, <2>5, ScanAdds, ScanSorts
  <2>8. Digest(ca_coalesce(d1)) = Digest(ca_coalesce(d2))
    BY <2>2, <2>6, <2>7, SameRecord
  <2> QED BY <2>4, <2>5, <2>8
<1> QED BY <1>1, PathInvariant, PTL
=============================================================================
