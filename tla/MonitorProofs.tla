--------------------------- MODULE MonitorProofs ---------------------------
(***************************************************************************)
(* Proofs about module Monitor, for any set of commands, any aggregation   *)
(* style and any order in which connections reach the monitor.             *)
(***************************************************************************)
EXTENDS Monitor, TLAPS

(* A table of audits that is well-formed, and what the inductive invariant *)
(* says of it.                                                             *)
TableOK(t) == DOMAIN t \subseteq Key /\ t \in [DOMAIN t -> CA]

Good(t) ==
    /\ TableOK(t)
    /\ \A k \in DOMAIN t : LeaderOK(t, k) /\ GroupOK(t, k)
    /\ \A k \in DOMAIN t : WaitsForLeader(t, k)
    /\ \A k \in DOMAIN t : SharesGroup(t, k)

(* No command is exec'ed over itself.                                      *)
LEMMA UpNotSelf ==
    ASSUME NEW t, NEW k \in Key
    PROVE  Up(t, k) # k
<1>1. k.depth \in Int
  <2>1. Depths \subseteq Int
    BY ConstantsOK
  <2>2. k.depth \in Depths
    BY DEF Key
  <2> QED BY <2>1, <2>2
<1>2. Up(t, k).depth = k.depth - 1
  BY DEF Up
<1> QED BY <1>1, <1>2

(* The audits an EOA closes are open audits, the one it names among them,  *)
(* and each is in the group of that one or in none.                        *)
LEMMA UpstreamFacts ==
    ASSUME NEW t, Good(t), NEW k \in DOMAIN t
    PROVE  /\ k \in Upstream(t, k)
           /\ Upstream(t, k) \subseteq DOMAIN t
           /\ \A j \in Upstream(t, k) : t[j].leader \in {NoKey, t[k].leader}
<1>1. k \in Upstream(t, k) /\ Upstream(t, k) \subseteq DOMAIN t
  BY DEF Upstream
<1>2. ASSUME NEW j \in Upstream(t, k)
      PROVE  t[j].leader \in {NoKey, t[k].leader}
  <2> DEFINE S == {x \in DOMAIN t : t[x].leader \in {NoKey, t[k].leader}}
  <2>1. S \in SUBSET DOMAIN t /\ k \in S
    OBVIOUS
  <2>2. \A x \in S : Up(t, x) \in DOMAIN t => Up(t, x) \in S
    BY DEF Good, SharesGroup
  <2>3. j \in S
    <3> HIDE DEF S
    <3> QED BY <2>1, <2>2, <1>2 DEF Upstream
  <2> QED BY <2>3
<1> QED BY <1>1, <1>2

(* Recording path actions changes no audit in any other way.               *)
LEMMA RecordedGood ==
    ASSUME NEW t, Good(t), NEW k \in DOMAIN t, NEW S \in SUBSET PA
    PROVE  /\ Good(Recorded(t, k, S))
           /\ DOMAIN Recorded(t, k, S) = DOMAIN t
<1> DEFINE u == Recorded(t, k, S)
<1>1. /\ DOMAIN u = DOMAIN t
      /\ TableOK(u)
  BY DEF Recorded, Good, TableOK, CA
<1>2. \A x \in DOMAIN t : /\ u[x].pccode = t[x].pccode
                          /\ u[x].leader = t[x].leader
                          /\ u[x].leads = t[x].leads
                          /\ u[x].group = t[x].group
                          /\ u[x].closed = t[x].closed
  BY DEF Recorded, Good, TableOK, CA
<1> HIDE DEF u
<1>3. \A x \in DOMAIN t : Up(u, x) = Up(t, x)
  BY <1>2 DEF Up
<1>4. \A x \in DOMAIN u : LeaderOK(u, x) /\ GroupOK(u, x)
  BY <1>1, <1>2 DEF Good, LeaderOK, GroupOK
<1>5. \A x \in DOMAIN u : WaitsForLeader(u, x)
  BY <1>1, <1>2 DEF Good, WaitsForLeader, LeaderOK
<1>6. \A x \in DOMAIN u : SharesGroup(u, x)
  BY <1>1, <1>2, <1>3 DEF Good, SharesGroup
<1> QED BY <1>1, <1>4, <1>5, <1>6 DEF Good, u

(* What an EOA of k leaves in the table: the audits that are not published *)
(* now, as they were but for being closed.                                 *)
Published(t, k) == UNION {Bundled(t, h) : h \in Heads(t, k)}

(* After an EOA the table holds the audits that were not published, each   *)
(* in the group it was in.                                                 *)
LEMMA EndedFacts ==
    ASSUME NEW t, Good(t), NEW k \in DOMAIN t
    PROVE  /\ DOMAIN Ended(t, k) = DOMAIN t \ Published(t, k)
           /\ \A x \in DOMAIN Ended(t, k) :
                 /\ Ended(t, k)[x] \in CA
                 /\ Ended(t, k)[x].pccode = t[x].pccode
                 /\ Ended(t, k)[x].leader = t[x].leader
                 /\ Ended(t, k)[x].leads = t[x].leads
                 /\ Ended(t, k)[x].group = t[x].group
                 /\ Ended(t, k)[x].strong = t[x].strong
                 /\ Ended(t, k)[x].raw = t[x].raw
                 /\ x \in Upstream(t, k) => Ended(t, k)[x].closed = TRUE
                 /\ x \notin Upstream(t, k) => Ended(t, k)[x] = t[x]
<1> DEFINE u == Ended(t, k)
<1>1. /\ DOMAIN u = DOMAIN t \ Published(t, k)
      /\ \A x \in DOMAIN u : u[x] = IF x \in Upstream(t, k)
                                    THEN [t[x] EXCEPT !.closed = TRUE] ELSE t[x]
  BY DEF Ended, _mon_clean_up_ca_table, Closed, Published
<1>2. \A x \in DOMAIN t : t[x] \in CA
  BY DEF Good, TableOK
<1> HIDE DEF u
<1>3. ASSUME NEW x \in DOMAIN u
      PROVE  /\ u[x] \in CA
             /\ u[x].pccode = t[x].pccode
             /\ u[x].leader = t[x].leader
             /\ u[x].leads = t[x].leads
             /\ u[x].group = t[x].group
             /\ u[x].strong = t[x].strong
             /\ u[x].raw = t[x].raw
             /\ x \in Upstream(t, k) => u[x].closed = TRUE
             /\ x \notin Upstream(t, k) => u[x] = t[x]
  <2>0. t[x] \in CA
    BY <1>1, <1>2, <1>3
  <2>1. CASE x \in Upstream(t, k)
    <3>1. u[x] = [t[x] EXCEPT !.closed = TRUE]
      BY <1>1, <1>3, <2>1
    <3> QED BY <2>0, <2>1, <3>1 DEF CA
  <2>2. CASE x \notin Upstream(t, k)
    <3>1. u[x] = t[x]
      BY <1>1, <1>3, <2>2
    <3> QED BY <2>0, <2>2, <3>1
  <2> QED BY <2>1, <2>2
<1> QED BY <1>1, <1>3 DEF u

(* The audits an EOA publishes: those it closes outside of any group, and, *)
(* when the leader is closed by now, the group of k as a whole.            *)
LEMMA GoneFacts ==
    ASSUME NEW t, Good(t), NEW k \in DOMAIN t
    PROVE  \A x \in DOMAIN t :
              x \in Published(t, k) <=>
                 \/ x \in Upstream(t, k) /\ t[x].leader = NoKey
                 \/ GroupReady(t, k) /\ t[x].leader = t[k].leader
<1>1. \A h \in Singles(t, k) : h \in DOMAIN t /\ t[h].leader = NoKey
  BY UpstreamFacts DEF Singles, ca_has_leader
<1>2. \A h \in Singles(t, k) : Bundled(t, h) = {h}
  <2>1. SUFFICES ASSUME NEW h \in Singles(t, k) PROVE t[h].group = {}
    BY DEF Bundled
  <2>2. h \in DOMAIN t /\ t[h].leader = NoKey /\ h # NoKey
    BY <1>1, ConstantsOK DEF Good, TableOK
  <2> QED BY <2>2 DEF Good, GroupOK
<1>3. GroupReady(t, k) =>
        /\ t[k].leader \in DOMAIN t
        /\ \A x \in DOMAIN t : x \in Bundled(t, t[k].leader) <=> t[x].leader = t[k].leader
  <2>1. SUFFICES ASSUME GroupReady(t, k)
                 PROVE /\ t[k].leader \in DOMAIN t
                       /\ \A x \in DOMAIN t : x \in Bundled(t, t[k].leader) <=> t[x].leader = t[k].leader
    OBVIOUS
  <2>2. /\ t[k].leader # NoKey
        /\ t[k].leader \in DOMAIN t
        /\ t[t[k].leader].leads
        /\ t[t[k].leader].leader = t[k].leader
    BY <2>1 DEF GroupReady, ca_has_leader, Good, LeaderOK, GroupOK
  <2> QED BY <2>2 DEF Bundled, Good, LeaderOK, GroupOK
<1> QED BY <1>1, <1>2, <1>3, UpstreamFacts DEF Published, Heads, Singles, ca_has_leader

(* An EOA keeps the invariant.                                             *)
LEMMA EndedGood ==
    ASSUME NEW t, Good(t), NEW k \in DOMAIN t
    PROVE  Good(Ended(t, k))
<1> DEFINE u == Ended(t, k)
           L == t[k].leader
           Gone(x) == \/ x \in Upstream(t, k) /\ t[x].leader = NoKey
                      \/ GroupReady(t, k) /\ t[x].leader = L
<1>1. \A x : x \in DOMAIN u <=> x \in DOMAIN t /\ ~Gone(x)
  <2>1. DOMAIN u = DOMAIN t \ Published(t, k)
    BY EndedFacts
  <2>2. \A x \in DOMAIN t : x \in Published(t, k) <=> Gone(x)
    BY GoneFacts
  <2> HIDE DEF u, Gone
  <2> QED BY <2>1, <2>2
<1>2. \A x \in DOMAIN u : /\ u[x] \in CA
                          /\ u[x].pccode = t[x].pccode
                          /\ u[x].leader = t[x].leader
                          /\ u[x].leads = t[x].leads
                          /\ u[x].group = t[x].group
                          /\ u[x].closed <=> (t[x].closed \/ x \in Upstream(t, k))
  <2> HIDE DEF u
  <2>1. ASSUME NEW x \in DOMAIN u
        PROVE  u[x].closed <=> (t[x].closed \/ x \in Upstream(t, k))
    <3>1. /\ x \in Upstream(t, k) => u[x].closed = TRUE
          /\ x \notin Upstream(t, k) => u[x] = t[x]
      BY <2>1, EndedFacts DEF u
    <3> QED BY <3>1
  <2>2. \A x \in DOMAIN u : /\ u[x] \in CA
                            /\ u[x].pccode = t[x].pccode
                            /\ u[x].leader = t[x].leader
                            /\ u[x].leads = t[x].leads
                            /\ u[x].group = t[x].group
    BY EndedFacts DEF u
  <2> QED BY <2>1, <2>2
<1>3. u = [x \in DOMAIN u |-> u[x]]
  BY DEF Ended, _mon_clean_up_ca_table
<1>4. GroupReady(t, k) <=> L # NoKey /\ (t[L].closed \/ L \in Upstream(t, k))
  <2>1. L # NoKey => L \in DOMAIN t /\ t[L] \in CA
    BY DEF Good, LeaderOK, TableOK
  <2> QED BY <2>1 DEF GroupReady, ca_has_leader, Closed, CA
<1>5. \A x \in DOMAIN t : t[x].leader # NoKey =>
         t[x].leader \in DOMAIN t /\ t[t[x].leader].leader = t[x].leader
  BY DEF Good, LeaderOK, GroupOK
<1> HIDE DEF u
<1>6. \A x \in DOMAIN u : u[x].leader # NoKey => u[x].leader \in DOMAIN u
  BY <1>1, <1>2, <1>5
<1>7. TableOK(u)
  BY <1>1, <1>2, <1>3 DEF TableOK, Good
<1>8. \A x \in DOMAIN u : LeaderOK(u, x)
  BY <1>1, <1>2, <1>6 DEF Good, LeaderOK
<1>9. \A x \in DOMAIN u : GroupOK(u, x)
  <2>1. SUFFICES ASSUME NEW x \in DOMAIN u PROVE GroupOK(u, x)
    OBVIOUS
  <2>2. x \in DOMAIN t /\ ~Gone(x) /\ GroupOK(t, x) /\ x # NoKey
    BY <1>1, <2>1, ConstantsOK DEF Good, TableOK
  <2>3. ASSUME NEW m \in u[x].group PROVE m # x /\ m \in DOMAIN u /\ u[m].leader = x
    <3>1. m # x /\ m \in DOMAIN t /\ t[m].leader = x
      BY <1>2, <2>2 DEF GroupOK
    <3>2. t[x].leader = x
      BY <3>1, <1>5, <2>2
    <3>3. ~Gone(m)
      BY <3>1, <3>2, <2>2
    <3> QED BY <1>1, <1>2, <3>1, <3>3
  <2> QED BY <1>2, <2>2, <2>3 DEF GroupOK
<1>10. \A x \in DOMAIN u : WaitsForLeader(u, x)
  <2>1. SUFFICES ASSUME NEW x \in DOMAIN u, u[x].closed
                 PROVE u[x].leader # NoKey /\ ~u[u[x].leader].closed
    BY DEF WaitsForLeader
  <2>2. x \in DOMAIN t /\ ~Gone(x)
    BY <1>1
  <2>3. t[x].leader # NoKey
    BY <1>2, <2>1, <2>2 DEF Good, WaitsForLeader
  <2>4. t[x].leader \in DOMAIN u
    BY <1>2, <1>6, <2>3
  <2>5. CASE x \in Upstream(t, k)
    BY <1>2, <1>4, <2>2, <2>3, <2>4, <2>5, UpstreamFacts
  <2>6. CASE x \notin Upstream(t, k)
    <3>1. ~t[t[x].leader].closed
      BY <1>2, <2>1, <2>2, <2>6 DEF Good, WaitsForLeader
    <3>2. ASSUME t[x].leader \in Upstream(t, k) PROVE FALSE
      BY <3>2, <1>4, <1>5, <2>2, <2>3, UpstreamFacts
    <3> QED BY <3>1, <3>2, <1>2, <2>3, <2>4
  <2> QED BY <2>5, <2>6
<1>11. \A x \in DOMAIN u : SharesGroup(u, x)
  <2>1. \A x \in DOMAIN u : Up(u, x) = Up(t, x)
    BY <1>2 DEF Up
  <2> QED BY <1>1, <1>2, <2>1 DEF Good, SharesGroup
<1> QED BY <1>7, <1>8, <1>9, <1>10, <1>11 DEF Good, u

-----------------------------------------------------------------------------
(* Start of audit *)

With(t, k, c) == [x \in DOMAIN t \cup {k} |-> IF x = k THEN c ELSE t[x]]

(* Breaking up a group keeps the invariant.                                *)
LEMMA DisbandGood ==
    ASSUME NEW t, Good(t), NEW l \in DOMAIN t, t[l].leads
    PROVE  LET u == _mon_clean_up_ca_table(ca_disband(t, l), Disbanded(t, l))
           IN  /\ Good(u)
               /\ DOMAIN u \subseteq DOMAIN t
               /\ \A x \in DOMAIN u : /\ Up(u, x) = Up(t, x)
                                      /\ t[x].leader \in {NoKey, l} => u[x].leader = NoKey
<1> DEFINE u == _mon_clean_up_ca_table(ca_disband(t, l), Disbanded(t, l))
<1>1. /\ DOMAIN u = DOMAIN t \ Disbanded(t, l)
      /\ u = [x \in DOMAIN u |-> u[x]]
      /\ \A x \in DOMAIN u : u[x] = ca_disband(t, l)[x]
  BY DEF _mon_clean_up_ca_table, ca_disband
<1> HIDE DEF u
<1>2. /\ t[l].leader = l
      /\ l \notin t[l].group
      /\ \A x \in DOMAIN t : x \in Members(t, l) <=> t[x].leader = l
  BY ConstantsOK DEF Good, TableOK, LeaderOK, GroupOK, Members
<1>3. \A x \in DOMAIN t : t[x] \in CA /\ x \in Key /\ x # NoKey
  BY ConstantsOK DEF Good, TableOK
<1>4. ASSUME NEW x \in DOMAIN u
      PROVE  /\ x \in DOMAIN t
             /\ u[x] \in CA
             /\ u[x].pccode = t[x].pccode
             /\ u[x].closed = t[x].closed
             /\ t[x].leader = l => u[x].leader = NoKey /\ ~t[x].closed
             /\ t[x].leader # l => u[x].leader = t[x].leader
             /\ x = l => u[x].leads = FALSE /\ u[x].group = {}
             /\ x # l => u[x].leads = t[x].leads /\ u[x].group = t[x].group
  <2>0. x \in DOMAIN t /\ t[x] \in CA
    BY <1>1, <1>3, <1>4
  <2>1. CASE x = l
    <3>1. u[x] = [t[x] EXCEPT !.leader = NoKey, !.leads = FALSE, !.group = {}]
      BY <1>1, <1>4, <2>0, <2>1 DEF ca_disband
    <3>2. ~t[x].closed
      BY <1>1, <1>4, <2>0, <2>1 DEF Disbanded, Members
    <3> QED BY <1>2, <2>0, <2>1, <3>1, <3>2 DEF CA
  <2>2. CASE x # l /\ x \in t[l].group
    <3>1. u[x] = [t[x] EXCEPT !.leader = NoKey]
      BY <1>1, <1>4, <2>0, <2>2 DEF ca_disband
    <3>2. ~t[x].closed /\ t[x].leader = l
      BY <1>1, <1>2, <1>4, <2>0, <2>2 DEF Disbanded, Members
    <3> QED BY <2>0, <2>2, <3>1, <3>2 DEF CA
  <2>3. CASE x # l /\ x \notin t[l].group
    <3>1. u[x] = t[x]
      BY <1>1, <1>4, <2>0, <2>3 DEF ca_disband
    <3>2. t[x].leader # l
      BY <1>2, <2>0, <2>3 DEF Members
    <3> QED BY <2>0, <2>3, <3>1, <3>2
  <2> QED BY <2>1, <2>2, <2>3
<1>5. \A x \in DOMAIN t : t[x].leader # l => x \in DOMAIN u
  BY <1>1, <1>2 DEF Disbanded
<1>6. TableOK(u)
  BY <1>1, <1>3, <1>4 DEF TableOK
<1>7. \A x \in DOMAIN t : t[x].leader # NoKey =>
         t[x].leader \in DOMAIN t /\ t[t[x].leader].leader = t[x].leader
  BY DEF Good, LeaderOK, GroupOK
<1>8. ASSUME NEW x \in DOMAIN u PROVE LeaderOK(u, x)
  <2>1. SUFFICES ASSUME u[x].leader # NoKey
                 PROVE /\ AggStyle # "-"
                       /\ u[x].leader \in DOMAIN u
                       /\ u[u[x].leader].leads
                       /\ x # u[x].leader => x \in u[u[x].leader].group
    BY DEF LeaderOK
  <2>2. x \in DOMAIN t /\ t[x].leader # l /\ u[x].leader = t[x].leader
    BY <1>4, <1>8, <2>1
  <2>3. t[x].leader \in DOMAIN u
    BY <1>5, <1>7, <2>1, <2>2
  <2>4. /\ AggStyle # "-"
        /\ t[t[x].leader].leads
        /\ x # t[x].leader => x \in t[t[x].leader].group
    BY <2>1, <2>2 DEF Good, LeaderOK
  <2>5. /\ u[t[x].leader].leads = t[t[x].leader].leads
        /\ u[t[x].leader].group = t[t[x].leader].group
    BY <1>4, <2>2, <2>3
  <2> QED BY <2>2, <2>3, <2>4, <2>5
<1>9. ASSUME NEW x \in DOMAIN u PROVE GroupOK(u, x)
  <2>1. CASE x = l
    BY <1>4, <1>9, <2>1 DEF GroupOK
  <2>2. CASE x # l
    <3>1. x \in DOMAIN t /\ GroupOK(t, x)
      BY <1>4, <1>9 DEF Good
    <3>2. ASSUME NEW m \in t[x].group PROVE m \in DOMAIN u /\ m # x /\ u[m].leader = x
      BY <1>4, <1>5, <2>2, <3>1, <3>2 DEF GroupOK
    <3> QED BY <1>4, <1>9, <2>2, <3>1, <3>2 DEF GroupOK
  <2> QED BY <2>1, <2>2
<1>10. ASSUME NEW x \in DOMAIN u PROVE WaitsForLeader(u, x)
  <2>1. SUFFICES ASSUME u[x].closed
                 PROVE u[x].leader # NoKey /\ ~u[u[x].leader].closed
    BY DEF WaitsForLeader
  <2>2. /\ x \in DOMAIN t /\ t[x].leader # l /\ u[x].leader = t[x].leader
        /\ t[x].leader # NoKey /\ ~t[t[x].leader].closed
    BY <1>4, <1>10, <2>1 DEF Good, WaitsForLeader
  <2>3. t[x].leader \in DOMAIN u
    BY <1>5, <1>7, <2>2
  <2> QED BY <1>4, <2>2, <2>3
<1>11. \A x \in DOMAIN u : Up(u, x) = Up(t, x)
  BY <1>4 DEF Up
<1>12. ASSUME NEW x \in DOMAIN u PROVE SharesGroup(u, x)
  <2>1. SUFFICES ASSUME Up(t, x) \in DOMAIN u
                 PROVE  u[Up(t, x)].leader \in {NoKey, u[x].leader}
    BY <1>11, <1>12 DEF SharesGroup
  <2>2. x \in DOMAIN t /\ Up(t, x) \in DOMAIN t /\ t[Up(t, x)].leader \in {NoKey, t[x].leader}
    BY <1>4, <1>12, <2>1 DEF Good, SharesGroup
  <2> QED BY <1>4, <1>12, <2>1, <2>2
<1>13. \A x \in DOMAIN u : t[x].leader \in {NoKey, l} => u[x].leader = NoKey
  BY <1>4
<1> QED BY <1>1, <1>6, <1>8, <1>9, <1>10, <1>11, <1>12, <1>13 DEF Good, u

(* A new audit that is alone, or the leader of a group of its own, keeps   *)
(* the invariant when what it was exec'ed over is in no group.             *)
LEMMA WithGood ==
    ASSUME NEW t, Good(t), NEW k \in Key, k \notin DOMAIN t,
           \A x \in DOMAIN t : Up(t, x) # k,
           NEW c \in CA, ~c.closed, c.group = {},
           \/ c.leader = NoKey /\ ~c.leads
           \/ c.leader = k /\ c.leads /\ AggStyle # "-",
           Up(With(t, k, c), k) \in DOMAIN t =>
              t[Up(With(t, k, c), k)].leader = NoKey
    PROVE  Good(With(t, k, c))
<1> DEFINE u == With(t, k, c)
<1>1. /\ DOMAIN u = DOMAIN t \cup {k}
      /\ u = [x \in DOMAIN u |-> u[x]]
      /\ u[k] = c
      /\ \A x \in DOMAIN t : u[x] = t[x]
  BY DEF With
<1>2. k # NoKey
  BY ConstantsOK
<1> HIDE DEF u
<1>3. TableOK(u)
  BY <1>1 DEF Good, TableOK
<1>4. \A x \in DOMAIN u : LeaderOK(u, x)
  BY <1>1, <1>2 DEF Good, LeaderOK
<1>5. \A x \in DOMAIN u : GroupOK(u, x)
  BY <1>1, <1>2 DEF Good, GroupOK
<1>6. \A x \in DOMAIN u : WaitsForLeader(u, x)
  BY <1>1 DEF Good, WaitsForLeader, LeaderOK
<1>7. ASSUME NEW x \in DOMAIN u PROVE SharesGroup(u, x)
  <2>1. CASE x = k
    <3>1. Up(u, k) # k
      BY UpNotSelf
    <3> QED BY <1>1, <2>1, <3>1 DEF SharesGroup, u
  <2>2. CASE x # k
    <3>1. x \in DOMAIN t /\ Up(u, x) = Up(t, x) /\ Up(t, x) # k
      BY <1>1, <1>7, <2>2 DEF Up
    <3> QED BY <1>1, <3>1 DEF Good, SharesGroup
  <2> QED BY <2>1, <2>2
<1> QED BY <1>3, <1>4, <1>5, <1>6, <1>7 DEF Good, u

(* So does a new audit that joins the group of what it was exec'ed over.   *)
LEMMA JoinGood ==
    ASSUME NEW t, Good(t), NEW k \in Key, k \notin DOMAIN t,
           \A x \in DOMAIN t : Up(t, x) # k,
           NEW pccode \in Code \cup {NoCode},
           NEW l \in DOMAIN t, t[l].leads,
           Up(With(t, k, ca_new(pccode)), k) \in DOMAIN t =>
              t[Up(With(t, k, ca_new(pccode)), k)].leader \in {NoKey, l}
    PROVE  Good(ca_aggregate(With(t, k, ca_new(pccode)), l, k))
<1> DEFINE w == With(t, k, ca_new(pccode))
           u == ca_aggregate(w, l, k)
<1>1. /\ DOMAIN w = DOMAIN t \cup {k}
      /\ w[k] = ca_new(pccode)
      /\ \A x \in DOMAIN t : w[x] = t[x]
      /\ l # k
  BY DEF With
<1>2. ca_new(pccode) \in CA /\ \A x \in DOMAIN t : t[x] \in CA
  BY DEF ca_new, CA, Good, TableOK
<1>3. t[l].leader = l /\ l # NoKey /\ k # NoKey /\ AggStyle # "-"
  BY ConstantsOK DEF Good, TableOK, LeaderOK, GroupOK
<1> HIDE DEF w
<1>4. /\ DOMAIN u = DOMAIN t \cup {k}
      /\ u = [x \in DOMAIN u |-> u[x]]
      /\ u[k] = [ca_new(pccode) EXCEPT !.leader = l]
      /\ u[l] = [t[l] EXCEPT !.group = @ \cup {k}]
      /\ \A x \in DOMAIN t : x # l => u[x] = t[x]
  BY <1>1 DEF ca_aggregate
<1> HIDE DEF u
<1>5. /\ u[k] \in CA /\ u[k].leader = l /\ ~u[k].leads /\ u[k].group = {}
      /\ ~u[k].closed /\ u[k].pccode = pccode
  <2>1. l \in Key
    BY DEF Good, TableOK
  <2> DEFINE c == ca_new(pccode)
  <2>2. /\ c \in CA /\ c.leads = FALSE /\ c.group = {} /\ c.closed = FALSE
        /\ c.pccode = pccode
    BY <1>2 DEF ca_new
  <2>3. u[k] = [c EXCEPT !.leader = l]
    BY <1>4
  <2> HIDE DEF c
  <2> QED BY <2>1, <2>2, <2>3 DEF CA
<1>6. /\ u[l] \in CA /\ u[l].leader = t[l].leader /\ u[l].leads = t[l].leads
      /\ u[l].closed = t[l].closed /\ u[l].pccode = t[l].pccode
      /\ u[l].group = t[l].group \cup {k}
  <2>1. t[l] \in CA
    BY <1>2
  <2>2. u[l] = [t[l] EXCEPT !.group = t[l].group \cup {k}]
    BY <1>4
  <2>3. t[l].group \cup {k} \in SUBSET Key
    BY <2>1 DEF CA
  <2> QED BY <2>1, <2>2, <2>3 DEF CA
<1>7. TableOK(u)
  BY <1>2, <1>4, <1>5, <1>6 DEF Good, TableOK
<1>8. ASSUME NEW x \in DOMAIN u PROVE LeaderOK(u, x)
  <2>1. CASE x = k
    BY <1>3, <1>4, <1>5, <1>6, <2>1 DEF LeaderOK
  <2>2. CASE x # k
    <3>1. x \in DOMAIN t /\ LeaderOK(t, x) /\ u[x].leader = t[x].leader
      BY <1>4, <1>6, <1>8, <2>2 DEF Good
    <3>2. \A y \in DOMAIN t : u[y].leads = t[y].leads /\ t[y].group \subseteq u[y].group
      BY <1>4, <1>6
    <3> QED BY <1>4, <3>1, <3>2 DEF LeaderOK
  <2> QED BY <2>1, <2>2
<1>9. ASSUME NEW x \in DOMAIN u PROVE GroupOK(u, x)
  <2>1. CASE x = k
    BY <1>5, <2>1 DEF GroupOK
  <2>2. CASE x = l
    <3>1. u[x].leader = x /\ u[x].leads
      BY <1>3, <1>6, <2>2
    <3>2. ASSUME NEW m \in u[x].group PROVE m # x /\ m \in DOMAIN u /\ u[m].leader = x
      <4>1. CASE m = k
        BY <1>1, <1>4, <1>5, <2>2, <4>1
      <4>2. CASE m # k
        <5>1. m \in t[l].group /\ m # l /\ m \in DOMAIN t /\ t[m].leader = l
          BY <1>6, <2>2, <3>2, <4>2 DEF Good, GroupOK
        <5> QED BY <1>4, <2>2, <5>1
      <4> QED BY <4>1, <4>2
    <3> QED BY <3>1, <3>2 DEF GroupOK
  <2>3. CASE x # k /\ x # l
    <3>1. x \in DOMAIN t /\ u[x] = t[x] /\ GroupOK(t, x)
      BY <1>4, <1>9, <2>3 DEF Good
    <3>2. \A m \in t[x].group : m \in DOMAIN t /\ t[m].leader = x /\ m # l
      BY <1>3, <2>3, <3>1 DEF GroupOK
    <3> QED BY <1>4, <3>1, <3>2 DEF GroupOK
  <2> QED BY <2>1, <2>2, <2>3
<1>10. ASSUME NEW x \in DOMAIN u PROVE WaitsForLeader(u, x)
  <2>1. CASE x = k
    BY <1>5, <2>1 DEF WaitsForLeader
  <2>2. CASE x # k
    <3>1. /\ x \in DOMAIN t /\ u[x].closed = t[x].closed /\ u[x].leader = t[x].leader
          /\ WaitsForLeader(t, x) /\ LeaderOK(t, x)
      BY <1>4, <1>6, <1>10, <2>2 DEF Good
    <3>2. \A y \in DOMAIN t : u[y].closed = t[y].closed
      BY <1>4, <1>6
    <3> QED BY <3>1, <3>2 DEF WaitsForLeader, LeaderOK
  <2> QED BY <2>1, <2>2
<1>11. ASSUME NEW x \in DOMAIN u PROVE SharesGroup(u, x)
  <2>1. \A y \in DOMAIN t : u[y].leader = t[y].leader /\ Up(u, y) = Up(t, y)
    BY <1>4, <1>6 DEF Up
  <2>2. CASE x = k
    <3>1. Up(u, k) = Up(w, k)
      BY <1>1, <1>5 DEF Up, ca_new
    <3>2. Up(u, k) # k
      BY UpNotSelf
    <3>3. Up(u, k) \in DOMAIN u => Up(w, k) \in DOMAIN t
      BY <1>4, <3>1, <3>2
    <3>4. Up(w, k) \in DOMAIN t => u[Up(w, k)].leader \in {NoKey, l}
      BY <2>1 DEF w
    <3> QED BY <1>5, <2>2, <3>1, <3>3, <3>4 DEF SharesGroup
  <2>3. CASE x # k
    <3>1. x \in DOMAIN t /\ Up(u, x) = Up(t, x) /\ Up(t, x) # k
      BY <1>4, <1>11, <2>1, <2>3
    <3> QED BY <1>4, <2>1, <3>1 DEF Good, SharesGroup
  <2> QED BY <2>2, <2>3
<1> QED BY <1>7, <1>8, <1>9, <1>10, <1>11 DEF Good, u, w

(* The predecessor found for an SOA is an open audit, and it is the one    *)
(* the command was exec'ed over if that is open.                           *)
ExecPred(k, pccode) == [code |-> pccode, depth |-> k.depth - 1, cmdid |-> k.cmdid]

(* The predecessor is in the table, and an open audit that was exec'ed     *)
(* over is the one taken.                                                  *)
LEMMA PredFacts ==
    ASSUME NEW t, TableOK(t), NEW k \in Key, NEW pccode, NEW pcmdid
    PROVE  LET pred == FindPred(t, k, pccode, pcmdid)
           IN  /\ pred # NoKey => pred \in DOMAIN t
               /\ ExecPred(k, pccode) \in DOMAIN t => pred = ExecPred(k, pccode)
<1>1. ExecPred(k, pccode) \in DOMAIN t => k.depth # 0
  <2>1. SUFFICES ASSUME ExecPred(k, pccode) \in Key, k.depth = 0 PROVE FALSE
    BY DEF TableOK
  <2>2. ExecPred(k, pccode).depth \in Depths
    BY <2>1 DEF Key
  <2>3. ExecPred(k, pccode).depth = -1
    BY <2>1 DEF ExecPred
  <2>4. Depths \subseteq Nat
    BY ConstantsOK
  <2> QED BY <2>2, <2>3, <2>4
<1>2. FindPred(t, k, pccode, pcmdid) # NoKey => FindPred(t, k, pccode, pcmdid) \in DOMAIN t
  BY DEF FindPred
<1>3. ExecPred(k, pccode) \in DOMAIN t => FindPred(t, k, pccode, pcmdid) = ExecPred(k, pccode)
  BY <1>1 DEF FindPred, ExecPred
<1> QED BY <1>2, <1>3

(* What the table is after an SOA, in each of the cases of mon_record().   *)
After(t, k, pccode, pred) ==
    _mon_clean_up_ca_table(Placed(t, k, pccode, pred), Processed(t, k, pred))

Rest(t, k, pred) ==
    IF BreaksUp(t, k, pred)
    THEN _mon_clean_up_ca_table(ca_disband(t, t[pred].leader), Disbanded(t, t[pred].leader))
    ELSE t

Leading(t, k, pccode, pred) ==
    [ca_new(pccode) EXCEPT !.leads = TRUE, !.group = {}, !.leader = k,
                           !.strong = (AggLevel(t, k, pred) = "STRONG")]

(* A new audit joins the group of its predecessor, or leads a new group,   *)
(* or does neither; the latter two after a group was broken up, if any.    *)
LEMMA PlacedCases ==
    ASSUME NEW t, Good(t), NEW k \in Key, k \notin DOMAIN t,
           NEW pccode \in Code \cup {NoCode}, NEW pred, pred # NoKey => pred \in DOMAIN t
    PROVE  /\ Joins(t, k, pred) =>
                 After(t, k, pccode, pred) =
                    ca_aggregate(With(t, k, ca_new(pccode)), t[pred].leader, k)
           /\ ~Joins(t, k, pred) /\ ~Starts(t, k, pred) =>
                 After(t, k, pccode, pred) = With(Rest(t, k, pred), k, ca_new(pccode))
           /\ Starts(t, k, pred) =>
                 After(t, k, pccode, pred) =
                    With(Rest(t, k, pred), k, Leading(t, k, pccode, pred))
<1> DEFINE done == Processed(t, k, pred)
           p == Placed(t, k, pccode, pred)
           u == _mon_clean_up_ca_table(p, done)
           l == t[pred].leader
           b == IF BreaksUp(t, k, pred) THEN ca_disband(t, l) ELSE t
           v == IF BreaksUp(t, k, pred)
                THEN _mon_clean_up_ca_table(ca_disband(t, l), Disbanded(t, l)) ELSE t
           c == ca_new(pccode)
           s == AggLevel(t, k, pred) = "STRONG"
           d == [c EXCEPT !.leads = TRUE, !.group = {}, !.leader = k, !.strong = s]
           w == With(b, k, c)
<1>1. /\ t = [x \in DOMAIN t |-> t[x]]
      /\ \A x \in DOMAIN t : t[x] \in CA
  BY DEF Good, TableOK
<1>2. DOMAIN b = DOMAIN t /\ b = [x \in DOMAIN b |-> b[x]]
  BY <1>1 DEF ca_disband
<1>3. v = _mon_clean_up_ca_table(b, done)
  BY <1>1 DEF Processed, _mon_clean_up_ca_table
<1>4. k \notin done
  <2>1. Grouped(t, pred) => /\ l \in DOMAIN t
                            /\ Members(t, l) \subseteq DOMAIN t
    BY DEF Grouped, ca_has_leader, Good, LeaderOK, GroupOK, Members
  <2> QED BY <2>1 DEF Processed, Disbanded, BreaksUp
<1>5. w = [x \in DOMAIN t \cup {k} |-> IF x = k THEN c ELSE b[x]]
  BY <1>2 DEF With
<1> HIDE DEF b, c
<1>6. p = IF Joins(t, k, pred) THEN ca_aggregate(w, l, k)
          ELSE IF Starts(t, k, pred) THEN ca_start_group(w, k, s) ELSE w
  BY <1>5 DEF Placed, b, c
<1>7. ASSUME Joins(t, k, pred) PROVE u = ca_aggregate(With(t, k, c), l, k)
  <2>1. ~BreaksUp(t, k, pred)
    BY <1>7 DEF BreaksUp
  <2>2. b = t /\ done = {}
    BY <2>1 DEF b, Processed
  <2>3. p = ca_aggregate(With(t, k, c), l, k)
    BY <1>6, <1>7, <2>2
  <2> QED BY <2>2, <2>3 DEF _mon_clean_up_ca_table, ca_aggregate, With
<1>8. ASSUME ~Joins(t, k, pred), ~Starts(t, k, pred) PROVE u = With(v, k, c)
  <2>1. p = w
    BY <1>6, <1>8
  <2> QED BY <1>2, <1>3, <1>4, <1>5, <2>1 DEF _mon_clean_up_ca_table, With
<1>9. ASSUME Starts(t, k, pred) PROVE u = With(v, k, d)
  <2>1. p = ca_start_group(w, k, s)
    BY <1>6, <1>9 DEF Starts
  <2>2. ca_start_group(w, k, s) = [x \in DOMAIN t \cup {k} |-> IF x = k THEN d ELSE b[x]]
    <3>1. w[k] = c /\ DOMAIN w = DOMAIN t \cup {k} /\ \A x \in DOMAIN t : x # k => w[x] = b[x]
      BY <1>5
    <3> HIDE DEF w
    <3> QED BY <3>1 DEF ca_start_group
  <2> HIDE DEF d
  <2> QED BY <1>2, <1>3, <1>4, <2>1, <2>2 DEF _mon_clean_up_ca_table, With
<1> QED BY <1>7, <1>8, <1>9 DEF c, After, Rest, Leading

(* A command that does not join the group of its predecessor breaks it up, *)
(* unless there is none.                                                   *)
LEMMA NotJoined ==
    ASSUME NEW t, Good(t), NEW k, NEW pred, pred # NoKey => pred \in DOMAIN t,
           Grouped(t, pred), ~Joins(t, k, pred)
    PROVE  BreaksUp(t, k, pred)
<1>1. AggStyle # "-"
  BY DEF Grouped, ca_has_leader, Good, LeaderOK
<1>2. AggLevel(t, k, pred) \in {"BREAK", "STRONG", "WEAK", "NEUTRAL"}
  BY <1>1 DEF AggLevel
<1> QED BY <1>2 DEF Joins, BreaksUp

(* The SOA of a new command keeps the invariant.                           *)
LEMMA PlacedGood ==
    ASSUME NEW t, Good(t), NEW k \in Key, k \notin DOMAIN t,
           \A x \in DOMAIN t : Up(t, x) # k,
           NEW pccode \in Code \cup {NoCode}, NEW pcmdid,
           NEW pred, pred = FindPred(t, k, pccode, pcmdid)
    PROVE  Good(After(t, k, pccode, pred))
<1> DEFINE u == After(t, k, pccode, pred)
           l == t[pred].leader
           v == Rest(t, k, pred)
           c == ca_new(pccode)
           d == Leading(t, k, pccode, pred)
           e == ExecPred(k, pccode)
<1>1. /\ pred # NoKey => pred \in DOMAIN t
      /\ e \in DOMAIN t => pred = e
  <2>1. TableOK(t)
    BY DEF Good
  <2> QED BY <2>1, PredFacts
<1>2. /\ Joins(t, k, pred) => u = ca_aggregate(With(t, k, c), l, k)
      /\ ~Joins(t, k, pred) /\ ~Starts(t, k, pred) => u = With(v, k, c)
      /\ Starts(t, k, pred) => u = With(v, k, d)
  BY <1>1, PlacedCases
<1>3. Grouped(t, pred) => pred \in DOMAIN t /\ l # NoKey /\ l \in DOMAIN t /\ t[l].leads
  BY <1>1 DEF Grouped, ca_has_leader, Good, LeaderOK
<1>4. c \in CA /\ ~c.closed /\ c.group = {} /\ c.leader = NoKey /\ ~c.leads /\ c.pccode = pccode
  BY DEF ca_new, CA
<1>5. d \in CA /\ ~d.closed /\ d.group = {} /\ d.leader = k /\ d.leads /\ d.pccode = pccode
  <2> HIDE DEF c
  <2>1. d.closed = c.closed /\ d.pccode = c.pccode /\ d.group = {} /\ d.leader = k
    BY <1>4 DEF CA, Leading, c
  <2>2. d \in CA
    BY <1>4 DEF CA, Leading, c
  <2>3. d.leads = TRUE
    BY <1>4 DEF CA, Leading, c
  <2> QED BY <1>4, <2>1, <2>2, <2>3
<1>6. e \notin {k}
  <2>1. Up(With(t, k, c), k) = e
    BY <1>4 DEF Up, With, ExecPred
  <2> QED BY <2>1, UpNotSelf
<1>7. /\ Good(v)
      /\ DOMAIN v \subseteq DOMAIN t
      /\ \A x \in DOMAIN v : Up(v, x) = Up(t, x)
      /\ BreaksUp(t, k, pred) =>
            \A x \in DOMAIN v : t[x].leader \in {NoKey, l} => v[x].leader = NoKey
  <2>1. CASE BreaksUp(t, k, pred)
    <3>1. l \in DOMAIN t /\ t[l].leads
      BY <1>3, <2>1 DEF BreaksUp
    <3> QED BY <2>1, <3>1, DisbandGood DEF Rest
  <2>2. CASE ~BreaksUp(t, k, pred)
    BY <2>2 DEF Rest
  <2> QED BY <2>1, <2>2
<1>8. ~Joins(t, k, pred) /\ e \in DOMAIN v => v[e].leader = NoKey
  <2>1. SUFFICES ASSUME ~Joins(t, k, pred), e \in DOMAIN v PROVE v[e].leader = NoKey
    OBVIOUS
  <2>2. e \in DOMAIN t /\ pred = e
    BY <1>1, <1>7, <2>1
  <2>3. CASE Grouped(t, pred)
    <3>1. BreaksUp(t, k, pred)
      BY <1>1, <2>1, <2>3, NotJoined
    <3> HIDE DEF v, e
    <3> QED BY <1>7, <2>1, <2>2, <3>1
  <2>4. CASE ~Grouped(t, pred)
    <3>1. ~BreaksUp(t, k, pred)
      BY <2>4 DEF BreaksUp
    <3>2. e # NoKey
      BY <2>2, ConstantsOK DEF Good, TableOK
    <3>3. t[e].leader = NoKey
      BY <2>2, <2>4, <3>2 DEF Grouped, ca_has_leader
    <3> QED BY <3>1, <3>3 DEF Rest
  <2> QED BY <2>3, <2>4
<1>9. CASE Joins(t, k, pred)
  <2>1. l \in DOMAIN t /\ t[l].leads
    BY <1>3, <1>9 DEF Joins
  <2>2. Up(With(t, k, c), k) = e
    BY <1>4 DEF Up, With, ExecPred
  <2>3. e \in DOMAIN t => t[e].leader = l
    BY <1>1
  <2>4. Good(ca_aggregate(With(t, k, c), l, k))
    BY <2>1, <2>2, <2>3, JoinGood
  <2> QED BY <1>2, <1>9, <2>4
<1>10. ASSUME ~Joins(t, k, pred), NEW a \in CA, ~a.closed, a.group = {}, a.pccode = pccode,
              \/ a.leader = NoKey /\ ~a.leads
              \/ a.leader = k /\ a.leads /\ AggStyle # "-"
       PROVE  Good(With(v, k, a))
  <2>1. k \notin DOMAIN v /\ \A x \in DOMAIN v : Up(v, x) # k
    BY <1>7
  <2>2. Up(With(v, k, a), k) = e
    BY <1>10 DEF Up, With, ExecPred
  <2> HIDE DEF v, e
  <2> QED BY <1>7, <1>8, <1>10, <2>1, <2>2, WithGood
<1>11. CASE ~Joins(t, k, pred) /\ ~Starts(t, k, pred)
  BY <1>2, <1>4, <1>10, <1>11
<1>12. CASE Starts(t, k, pred)
  <2>1. ~Joins(t, k, pred) /\ AggStyle # "-"
    BY <1>12 DEF Starts, AggLevel
  <2>2. Good(With(v, k, d))
    BY <1>5, <1>10, <2>1
  <2> QED BY <1>2, <1>12, <2>2
<1> QED BY <1>9, <1>11, <1>12

-----------------------------------------------------------------------------
(* The theorems *)

IInv == TypeOK /\ Good(audits)

(* Every record the monitor makes is well-formed.                          *)
LEMMA RecordTypes ==
    ASSUME NEW t, Good(t), NEW k \in DOMAIN t
    PROVE  /\ AloneRecord(t, k) \in Record
           /\ Bundle(t, k) \in Record
<1>1. t[k] \in CA /\ k \in Key /\ \A x \in t[k].group : x \in DOMAIN t /\ t[x] \in CA
  BY DEF Good, TableOK, GroupOK
<1>2. t[k].raw \in SUBSET PA /\ t[k].group \in SUBSET Key
  BY <1>1 DEF CA
<1>3. UNION {t[s].raw : s \in t[k].group} \in SUBSET PA
  BY <1>1 DEF CA
<1> QED BY <1>1, <1>2, <1>3 DEF AloneRecord, Bundle, Record

(* The SOA of a command keeps the invariant.                               *)
LEMMA SOAStep ==
    ASSUME IInv, NEW k \in Key, NEW pccode \in Code \cup {NoCode}, NEW pcmdid,
           SOA(k, pccode, pcmdid)
    PROVE  IInv'
<1> DEFINE pred == FindPred(audits, k, pccode, pcmdid)
           done == Processed(audits, k, pred)
<1>1. Good(audits')
  <2>1. /\ k \notin DOMAIN audits
        /\ \A x \in DOMAIN audits : Up(audits, x) # k
        /\ Good(audits)
    BY DEF SOA, Fresh, IInv
  <2>2. audits' = _mon_clean_up_ca_table(Placed(audits, k, pccode, pred), done)
    BY DEF SOA, HandleSOA
  <2> QED BY <2>1, <2>2, PlacedGood DEF After
<1>2. done \subseteq DOMAIN audits
  <2>1. pred # NoKey => pred \in DOMAIN audits
    BY PredFacts DEF IInv, Good
  <2>2. BreaksUp(audits, k, pred) => /\ audits[pred].leader \in DOMAIN audits
                                     /\ Members(audits, audits[pred].leader) \subseteq DOMAIN audits
    BY <2>1 DEF BreaksUp, Grouped, ca_has_leader, IInv, Good, LeaderOK, GroupOK, Members
  <2> QED BY <2>2 DEF Processed, Disbanded
<1>3. log' \subseteq Record
  <2>1. log' = log \cup {AloneRecord(audits, m) : m \in done}
    BY DEF SOA, HandleSOA
  <2>2. \A m \in done : AloneRecord(audits, m) \in Record
    BY <1>2, RecordTypes DEF IInv
  <2> HIDE DEF done
  <2> QED BY <2>1, <2>2 DEF IInv, TypeOK
<1>4. UNCHANGED <<seen, lost, skew>>
  BY DEF SOA, HandleSOA
<1> QED BY <1>1, <1>3, <1>4 DEF IInv, TypeOK, Good, TableOK

(* Path actions and the EOA of a command keep the invariant.               *)
LEMMA DataStep ==
    ASSUME IInv, NEW k \in Key, NEW S \in SUBSET PA, NEW eoa \in BOOLEAN,
           Data(k, S, eoa)
    PROVE  IInv'
<1> DEFINE t == Recorded(audits, k, S)
<1>1. seen' \subseteq PA
  BY DEF IInv, TypeOK, Data, HandleData
<1>2. CASE k \in DOMAIN audits
  <2>1. Good(t) /\ k \in DOMAIN t
    BY <1>2, RecordedGood DEF IInv
  <2>2. /\ audits' = IF eoa THEN Ended(t, k) ELSE t
        /\ log' = IF eoa THEN log \cup EndRecords(t, k) ELSE log
        /\ UNCHANGED <<lost, skew>>
    BY <1>2 DEF Data, HandleData
  <2> HIDE DEF t
  <2>3. Good(audits')
    BY <2>1, <2>2, EndedGood
  <2>4. EndRecords(t, k) \subseteq Record
    <3>1. \A h \in Heads(t, k) : h \in DOMAIN t
      BY <2>1, UpstreamFacts DEF Heads, Singles, GroupReady, ca_has_leader, Good, LeaderOK
    <3> QED BY <2>1, <3>1, RecordTypes DEF EndRecords
  <2>5. log' \subseteq Record
    BY <2>2, <2>4 DEF IInv, TypeOK
  <2> QED BY <1>1, <2>2, <2>3, <2>5 DEF IInv, TypeOK, Good, TableOK
<1>3. CASE k \notin DOMAIN audits
  <2>1. /\ lost' = lost \cup S
        /\ skew' = IF eoa THEN skew \cup {k} ELSE skew
        /\ UNCHANGED <<audits, log>>
    BY <1>3 DEF Data, HandleData
  <2> QED BY <1>1, <2>1 DEF IInv, TypeOK
<1> QED BY <1>2, <1>3

(* The empty table satisfies the invariant.                                *)
LEMMA TableBegins == Init => IInv
<1> SUFFICES ASSUME Init PROVE IInv
  OBVIOUS
<1>1. DOMAIN audits = {} /\ audits \in [{} -> CA]
  BY DEF Init
<1> QED BY <1>1 DEF Init, IInv, TypeOK, Good, TableOK

(* Every step of the monitor keeps it.                                     *)
LEMMA TableKept == IInv /\ [Next]_vars => IInv'
<1> SUFFICES ASSUME IInv, [Next]_vars PROVE IInv'
  OBVIOUS
<1>1. ASSUME NEW k \in Key, NEW pccode \in Code \cup {NoCode}, NEW pcmdid \in Pid,
             SOA(k, pccode, pcmdid)
      PROVE  IInv'
  BY <1>1, SOAStep
<1>2. ASSUME NEW k \in Key, NEW S \in SUBSET PA, NEW eoa \in BOOLEAN, Data(k, S, eoa)
      PROVE  IInv'
  BY <1>2, DataStep
<1>3. CASE UNCHANGED vars
  BY <1>3 DEF vars, IInv, TypeOK, Good, TableOK, LeaderOK, GroupOK, WaitsForLeader,
              SharesGroup, Up
<1> QED BY <1>1, <1>2, <1>3 DEF Next

(* The inductive invariant of the table of audits, for every sequence of   *)
(* connections.                                                            *)
THEOREM Inductive == Spec => []IInv
BY TableBegins, TableKept, PTL DEF Spec

(* The types of the monitor's state.                                       *)
THEOREM TypeCorrect == Spec => []TypeOK
<1>1. IInv => TypeOK
  BY DEF IInv
<1> QED BY <1>1, Inductive, PTL

(* Leader pointers and group hashes always agree, and no leader pointer    *)
(* dangles into an audit that was published and freed.                     *)
THEOREM Grouping == Spec => []GroupIntegrity
<1>1. IInv => GroupIntegrity
  BY DEF IInv, Good, GroupIntegrity
<1> QED BY <1>1, Inductive, PTL

(* An audit that is closed and not reported waits for an open leader.      *)
THEOREM NoneLeftBehind == Spec => []ClosedWaitsForLeader
<1>1. IInv => ClosedWaitsForLeader
  BY DEF IInv, Good, ClosedWaitsForLeader
<1> QED BY <1>1, Inductive, PTL

(* An EOA that closes a chain of exec'ed commands meets one group only.    *)
THEOREM OneGroupPerChain == Spec => []ExecChainSharesGroup
<1>1. IInv => ExecChainSharesGroup
  BY DEF IInv, Good, ExecChainSharesGroup
<1> QED BY <1>1, Inductive, PTL
=============================================================================
