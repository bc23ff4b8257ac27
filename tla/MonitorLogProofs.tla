-------------------------- MODULE MonitorLogProofs --------------------------
(***************************************************************************)
(* What the monitor's records hold, proved for any set of commands, any    *)
(* aggregation style and any order of connections: every command and every *)
(* path action is reported once, and the monitor implements AuditLog.      *)
(*                                                                         *)
(* Both kinds of step that make records, the SOA that breaks up a group    *)
(* and the EOA, are instances of one relation between the path actions     *)
(* held before, the records made and the path actions held after.          *)
(***************************************************************************)
EXTENDS MonitorProofs

(* The path actions that a table of audits holds, by command.              *)
Raw(t) == [k \in DOMAIN t |-> t[k].raw]

Named(L) == UNION {Commands(r) : r \in L}

Publishes(o, new, n) ==
    /\ \A r \in new : /\ Commands(r) \subseteq DOMAIN o
                      /\ r.pas = UNION {o[c] : c \in Commands(r)}
    /\ \A r1, r2 \in new : r1 # r2 => Commands(r1) \cap Commands(r2) = {}
    /\ n = [c \in DOMAIN o \ Named(new) |-> o[c]]

(* ReportedOnce and EachPathActionOnce, of any commands and records.       *)
Once(D, L) ==
    /\ \A r1, r2 \in L : r1 # r2 => Commands(r1) \cap Commands(r2) = {}
    /\ D \cap Named(L) = {}

Spread(o, L, s, d) ==
    /\ s = d \cup UNION ({o[k] : k \in DOMAIN o} \cup {r.pas : r \in L})
    /\ \A r \in L : r.pas \cap d = {}
    /\ \A r1, r2 \in L : r1 # r2 => r1.pas \cap r2.pas = {}
    /\ \A k \in DOMAIN o :
          /\ o[k] \cap d = {}
          /\ \A r \in L : o[k] \cap r.pas = {}
          /\ \A j \in DOMAIN o : j # k => o[j] \cap o[k] = {}

(* Publishing reports no command twice.                                    *)
LEMMA OnceKept ==
    ASSUME NEW o, NEW new, NEW n, NEW L,
           Publishes(o, new, n), Once(DOMAIN o, L)
    PROVE  Once(DOMAIN n, L \cup new)
<1>1. \A r \in new : Commands(r) \subseteq DOMAIN o
  BY DEF Publishes
<1>2. \A r \in L : Commands(r) \cap DOMAIN o = {}
  BY DEF Once, Named
<1>3. ASSUME NEW r1 \in L \cup new, NEW r2 \in L \cup new, r1 # r2
      PROVE  Commands(r1) \cap Commands(r2) = {}
  <2>1. CASE r1 \in L /\ r2 \in L
    BY <1>3, <2>1 DEF Once
  <2>2. CASE r1 \in new /\ r2 \in new
    BY <1>3, <2>2 DEF Publishes
  <2>3. CASE r1 \in L /\ r2 \in new
    BY <1>1, <1>2, <2>3
  <2>4. CASE r1 \in new /\ r2 \in L
    BY <1>1, <1>2, <2>4
  <2> QED BY <1>3, <2>1, <2>2, <2>3, <2>4
<1>4. DOMAIN n = DOMAIN o \ Named(new)
  BY DEF Publishes
<1>5. DOMAIN n \cap Named(L \cup new) = {}
  BY <1>4, <1>2 DEF Named
<1> QED BY <1>3, <1>5 DEF Once

(* Publishing neither loses nor duplicates a path action.                  *)
LEMMA SpreadKept ==
    ASSUME NEW o, NEW new, NEW n, NEW L, NEW s, NEW d,
           Publishes(o, new, n), Spread(o, L, s, d)
    PROVE  Spread(n, L \cup new, s, d)
<1>1. \A r \in new : \A a : a \in r.pas <=> \E c \in Commands(r) : a \in o[c]
  BY DEF Publishes
<1>2. /\ DOMAIN n = DOMAIN o \ Named(new)
      /\ \A c \in DOMAIN n : c \in DOMAIN o /\ n[c] = o[c]
      /\ \A r \in new : Commands(r) \subseteq DOMAIN o
      /\ \A r \in new : Commands(r) \cap DOMAIN n = {}
  BY DEF Publishes, Named
<1>3. \A c \in DOMAIN o : c \in DOMAIN n \/ \E r \in new : c \in Commands(r)
  BY <1>2 DEF Named
<1>4. s = d \cup UNION ({n[k] : k \in DOMAIN n} \cup {r.pas : r \in L \cup new})
  <2>1. ASSUME NEW a
        PROVE (\E k \in DOMAIN o : a \in o[k]) <=>
                 (\E k \in DOMAIN n : a \in n[k]) \/ (\E r \in new : a \in r.pas)
    BY <1>1, <1>2, <1>3
  <2>2. \A a : a \in s <=> a \in d \/ (\E k \in DOMAIN o : a \in o[k]) \/ (\E r \in L : a \in r.pas)
    BY DEF Spread
  <2> QED BY <2>1, <2>2
<1>5. ASSUME NEW r \in L \cup new PROVE r.pas \cap d = {}
  <2>1. CASE r \in L
    BY <2>1 DEF Spread
  <2>2. CASE r \in new
    <3>1. \A c \in Commands(r) : o[c] \cap d = {}
      BY <1>2, <2>2 DEF Spread
    <3> QED BY <1>1, <2>2, <3>1
  <2> QED BY <1>5, <2>1, <2>2
<1>6. ASSUME NEW r1 \in L, NEW r2 \in new PROVE r1.pas \cap r2.pas = {}
  <2>1. \A c \in Commands(r2) : o[c] \cap r1.pas = {}
    BY <1>2 DEF Spread
  <2> QED BY <1>1, <2>1
<1>7. ASSUME NEW r1 \in new, NEW r2 \in new, r1 # r2 PROVE r1.pas \cap r2.pas = {}
  <2>1. Commands(r1) \cap Commands(r2) = {}
    BY <1>7 DEF Publishes
  <2>2. \A c1 \in Commands(r1), c2 \in Commands(r2) : o[c1] \cap o[c2] = {}
    BY <1>2, <2>1 DEF Spread
  <2> QED BY <1>1, <2>2
<1>8. \A r1, r2 \in L \cup new : r1 # r2 => r1.pas \cap r2.pas = {}
  <2>1. \A r1, r2 \in L : r1 # r2 => r1.pas \cap r2.pas = {}
    BY DEF Spread
  <2> QED BY <1>6, <1>7, <2>1
<1>9. ASSUME NEW k \in DOMAIN n
      PROVE  /\ n[k] \cap d = {}
             /\ \A r \in L \cup new : n[k] \cap r.pas = {}
             /\ \A j \in DOMAIN n : j # k => n[j] \cap n[k] = {}
  <2>1. /\ n[k] \cap d = {}
        /\ \A r \in L : n[k] \cap r.pas = {}
        /\ \A j \in DOMAIN n : j # k => n[j] \cap n[k] = {}
    BY <1>2 DEF Spread
  <2>2. ASSUME NEW r \in new PROVE n[k] \cap r.pas = {}
    <3>1. \A c \in Commands(r) : o[c] \cap o[k] = {}
      BY <1>2 DEF Spread
    <3> QED BY <1>1, <1>2, <3>1
  <2> QED BY <2>1, <2>2
<1> QED BY <1>4, <1>5, <1>8, <1>9 DEF Spread
-----------------------------------------------------------------------------
(* End of audit *)

(* The record of a group names the group and holds its path actions.       *)
LEMMA BundleFacts ==
    ASSUME NEW t, Good(t), NEW h \in DOMAIN t
    PROVE  /\ Commands(Bundle(t, h)) = Bundled(t, h)
           /\ Bundled(t, h) \subseteq DOMAIN t
           /\ Bundle(t, h).pas = UNION {Raw(t)[c] : c \in Bundled(t, h)}
<1>1. t[h].group \subseteq DOMAIN t
  BY DEF Good, GroupOK
<1>2. Commands(Bundle(t, h)) = Bundled(t, h)
  BY DEF Commands, Bundle, Bundled
<1>3. \A c \in Bundled(t, h) : Raw(t)[c] = t[c].raw
  BY <1>1 DEF Bundled, Raw
<1>4. Bundle(t, h).pas = UNION {t[c].raw : c \in Bundled(t, h)}
  BY DEF Bundle, Bundled
<1> QED BY <1>1, <1>2, <1>3, <1>4 DEF Bundled

(* The records of one EOA are about different audits.                      *)
LEMMA HeadsFacts ==
    ASSUME NEW t, Good(t), NEW k \in DOMAIN t
    PROVE  /\ Heads(t, k) \subseteq DOMAIN t
           /\ \A g, h \in Heads(t, k) : g # h => Bundled(t, g) \cap Bundled(t, h) = {}
<1>1. \A h \in Singles(t, k) : h \in DOMAIN t /\ t[h].leader = NoKey
  BY UpstreamFacts DEF Singles, ca_has_leader
<1>2. \A h \in Singles(t, k) : Bundled(t, h) = {h}
  <2>1. SUFFICES ASSUME NEW h \in Singles(t, k) PROVE t[h].group = {}
    BY DEF Bundled
  <2>2. h \in DOMAIN t /\ t[h].leader = NoKey /\ h # NoKey
    BY <1>1, ConstantsOK DEF Good, TableOK
  <2> QED BY <2>2 DEF Good, GroupOK
<1>3. ASSUME GroupReady(t, k)
      PROVE  /\ t[k].leader \in DOMAIN t
             /\ \A x \in Bundled(t, t[k].leader) : t[x].leader = t[k].leader
             /\ t[k].leader # NoKey
  BY <1>3 DEF GroupReady, ca_has_leader, Good, LeaderOK, GroupOK, Bundled
<1>4. \A h \in Heads(t, k) : h \in Singles(t, k) \/ (GroupReady(t, k) /\ h = t[k].leader)
  BY DEF Heads
<1> QED BY <1>1, <1>2, <1>3, <1>4

(* An EOA publishes the audits it is done with, and each of its records is *)
(* about one, at least, that has ended.                                    *)
LEMMA EndPublishes ==
    ASSUME NEW t, Good(t), NEW k \in DOMAIN t
    PROVE  /\ Publishes(Raw(t), EndRecords(t, k), Raw(Ended(t, k)))
           /\ Named(EndRecords(t, k)) = Published(t, k)
           /\ \A r \in EndRecords(t, k) :
                 \E c \in Commands(r) : c \in Upstream(t, k) \/ t[c].closed
<1> DEFINE new == EndRecords(t, k)
<1>1. \A r \in new : \E h \in Heads(t, k) : r = Bundle(t, h)
  BY DEF EndRecords
<1>2. \A h \in Heads(t, k) : /\ h \in DOMAIN t
                             /\ Bundle(t, h) \in new
                             /\ Commands(Bundle(t, h)) = Bundled(t, h)
                             /\ Bundled(t, h) \subseteq DOMAIN t
                             /\ Bundle(t, h).pas = UNION {Raw(t)[c] : c \in Bundled(t, h)}
  BY HeadsFacts, BundleFacts DEF EndRecords
<1> HIDE DEF new
<1>3. DOMAIN Raw(t) = DOMAIN t
  BY DEF Raw
<1>4. ASSUME NEW r \in new
      PROVE  /\ Commands(r) \subseteq DOMAIN Raw(t)
             /\ r.pas = UNION {Raw(t)[c] : c \in Commands(r)}
  BY <1>1, <1>2, <1>3
<1>5. ASSUME NEW r1 \in new, NEW r2 \in new, r1 # r2
      PROVE  Commands(r1) \cap Commands(r2) = {}
  BY <1>1, <1>2, <1>5, HeadsFacts
<1>6. Named(new) = Published(t, k)
  <2>1. \A c : c \in Named(new) <=> \E r \in new : c \in Commands(r)
    BY DEF Named
  <2>2. \A c : c \in Published(t, k) <=> \E h \in Heads(t, k) : c \in Bundled(t, h)
    BY DEF Published
  <2>3. \A c : (\E r \in new : c \in Commands(r)) <=> (\E h \in Heads(t, k) : c \in Bundled(t, h))
    BY <1>1, <1>2
  <2>4. \A c : c \in Named(new) <=> c \in Published(t, k)
    BY <2>1, <2>2, <2>3
  <2> HIDE DEF new
  <2> QED BY <2>4
<1>7. Raw(Ended(t, k)) = [c \in DOMAIN Raw(t) \ Named(new) |-> Raw(t)[c]]
  <2> DEFINE u == Ended(t, k)
  <2>1. /\ DOMAIN u = DOMAIN t \ Published(t, k)
        /\ \A x \in DOMAIN u : u[x].raw = t[x].raw
    BY EndedFacts
  <2> HIDE DEF u
  <2>2. Raw(u) = [c \in DOMAIN Raw(t) \ Named(new) |-> Raw(t)[c]]
    BY <1>3, <1>6, <2>1 DEF Raw
  <2> QED BY <2>2 DEF u
<1>8. ASSUME NEW r \in new PROVE \E c \in Commands(r) : c \in Upstream(t, k) \/ t[c].closed
  <2>1. PICK h \in Heads(t, k) : r = Bundle(t, h)
    BY <1>1, <1>8
  <2>2. h \in Commands(r)
    BY <1>2, <2>1 DEF Bundled
  <2>3. CASE h \in Singles(t, k)
    BY <2>2, <2>3 DEF Singles
  <2>4. CASE GroupReady(t, k) /\ h = t[k].leader
    <3>1. Closed(t, k)[h].closed /\ h \in DOMAIN t
      BY <1>2, <2>4 DEF GroupReady
    <3>2. h \notin Upstream(t, k) => Closed(t, k)[h] = t[h]
      BY <3>1 DEF Closed
    <3>3. h \in Upstream(t, k) \/ t[h].closed
      BY <3>1, <3>2
    <3> QED BY <2>2, <3>3
  <2> QED BY <2>3, <2>4 DEF Heads
<1> QED BY <1>4, <1>5, <1>6, <1>7, <1>8 DEF Publishes, new

-----------------------------------------------------------------------------
(* Start of audit *)

(* Breaking up a group takes the closed members out of the table and       *)
(* leaves what the others hold, and every other group, alone.              *)
RestOK(t, k, pred, v, done) ==
    /\ DOMAIN v = DOMAIN t \ done
    /\ done \subseteq DOMAIN t
    /\ \A m \in done : t[m].closed
    /\ \A x \in DOMAIN v :
          /\ v[x].raw = t[x].raw
          /\ v[x].closed = t[x].closed
          /\ ~BreaksUp(t, k, pred) \/ x # t[pred].leader =>
                v[x].leads = t[x].leads /\ v[x].group = t[x].group

(* What is left of the table when a SOA breaks up a group: the closed      *)
(* audits of the group are gone, the others keep what they have recorded.  *)
LEMMA RestFacts ==
    ASSUME NEW t, Good(t), NEW k, NEW pred, pred # NoKey => pred \in DOMAIN t
    PROVE  RestOK(t, k, pred, Rest(t, k, pred), Processed(t, k, pred))
<1> DEFINE l == t[pred].leader
           v == Rest(t, k, pred)
           done == Processed(t, k, pred)
<1>1. CASE ~BreaksUp(t, k, pred)
  BY <1>1 DEF Rest, Processed, RestOK
<1>2. CASE BreaksUp(t, k, pred)
  <2>1. l \in DOMAIN t /\ t[l].group \subseteq DOMAIN t
    BY <1>2 DEF BreaksUp, Grouped, ca_has_leader, Good, LeaderOK, GroupOK
  <2>2. done = Disbanded(t, l) /\ v = _mon_clean_up_ca_table(ca_disband(t, l), done)
    BY <1>2 DEF Rest, Processed
  <2>3. done \subseteq DOMAIN t /\ \A m \in done : t[m].closed
    BY <2>1, <2>2 DEF Disbanded, Members
  <2>4. /\ DOMAIN v = DOMAIN t \ done
        /\ \A x \in DOMAIN v : v[x] = ca_disband(t, l)[x]
    BY <2>2 DEF _mon_clean_up_ca_table, ca_disband
  <2> HIDE DEF v, done
  <2>5. ASSUME NEW x \in DOMAIN v
        PROVE  /\ v[x].raw = t[x].raw
               /\ v[x].closed = t[x].closed
               /\ x # l => v[x].leads = t[x].leads /\ v[x].group = t[x].group
    <3>0. x \in DOMAIN t /\ t[x] \in CA
      BY <2>4, <2>5 DEF Good, TableOK
    <3>1. CASE x = l
      <4>1. v[x] = [t[x] EXCEPT !.leader = NoKey, !.leads = FALSE, !.group = {}]
        BY <2>4, <2>5, <3>0, <3>1 DEF ca_disband
      <4> QED BY <3>0, <3>1, <4>1 DEF CA
    <3>2. CASE x # l /\ x \in t[l].group
      <4>1. v[x] = [t[x] EXCEPT !.leader = NoKey]
        BY <2>4, <2>5, <3>0, <3>2 DEF ca_disband
      <4> QED BY <3>0, <3>2, <4>1 DEF CA
    <3>3. CASE x # l /\ x \notin t[l].group
      <4>1. v[x] = t[x]
        BY <2>4, <2>5, <3>0, <3>3 DEF ca_disband
      <4> QED BY <4>1
    <3> QED BY <3>1, <3>2, <3>3
  <2>6. ASSUME NEW x \in DOMAIN v, ~BreaksUp(t, k, pred) \/ x # l
        PROVE  v[x].leads = t[x].leads /\ v[x].group = t[x].group
    BY <1>2, <2>5, <2>6
  <2>7. RestOK(t, k, pred, v, done)
    BY <2>3, <2>4, <2>5, <2>6 DEF RestOK
  <2> QED BY <2>7 DEF v, done
<1> QED BY <1>1, <1>2

(* An SOA adds the new command, with nothing in it, to what is left.       *)
AfterOK(t, k, pred, u, done) ==
    /\ DOMAIN u = (DOMAIN t \cup {k}) \ done
    /\ k \notin done
    /\ u[k].raw = {} /\ u[k].closed = FALSE
    /\ \A x \in DOMAIN u \ {k} :
          /\ u[x].raw = t[x].raw
          /\ u[x].closed = t[x].closed
          /\ ~BreaksUp(t, k, pred) \/ x # t[pred].leader =>
                u[x].leads = t[x].leads /\ t[x].group \subseteq u[x].group

(* The table after a SOA: the new audit has recorded nothing, the others   *)
(* keep what they have recorded.                                           *)
LEMMA AfterFacts ==
    ASSUME NEW t, Good(t), NEW k \in Key, k \notin DOMAIN t,
           NEW pccode \in Code \cup {NoCode}, NEW pred, pred # NoKey => pred \in DOMAIN t
    PROVE  AfterOK(t, k, pred, After(t, k, pccode, pred), Processed(t, k, pred))
<1> DEFINE u == After(t, k, pccode, pred)
           v == Rest(t, k, pred)
           done == Processed(t, k, pred)
           l == t[pred].leader
           c == ca_new(pccode)
           d == Leading(t, k, pccode, pred)
           Same(x) == ~BreaksUp(t, k, pred) \/ x # l
<1>1. /\ DOMAIN v = DOMAIN t \ done
      /\ k \notin done
      /\ \A x \in DOMAIN v : /\ v[x].raw = t[x].raw
                             /\ v[x].closed = t[x].closed
                             /\ Same(x) => v[x].leads = t[x].leads /\ v[x].group = t[x].group
  <2>1. RestOK(t, k, pred, v, done)
    BY RestFacts
  <2> HIDE DEF v, done
  <2> QED BY <2>1 DEF RestOK
<1>2. /\ Joins(t, k, pred) => u = ca_aggregate(With(t, k, c), l, k)
      /\ ~Joins(t, k, pred) /\ ~Starts(t, k, pred) => u = With(v, k, c)
      /\ Starts(t, k, pred) => u = With(v, k, d)
  BY PlacedCases
<1>3. c \in CA /\ c.raw = {} /\ c.closed = FALSE
  BY DEF ca_new, CA
<1>4. d.raw = {} /\ d.closed = FALSE
  <2>1. d.raw = c.raw /\ d.closed = c.closed
    BY <1>3 DEF Leading, CA
  <2> QED BY <1>3, <2>1
<1> HIDE DEF u, v, c, d, done
<1>0. SUFFICES AfterOK(t, k, pred, u, done)
  BY DEF u, done
<1>5. ASSUME ~Joins(t, k, pred), NEW a, a.raw = {}, a.closed = FALSE, u = With(v, k, a)
      PROVE  /\ DOMAIN u = (DOMAIN t \cup {k}) \ done
             /\ u[k] = a
             /\ \A x \in DOMAIN u \ {k} :
                   /\ u[x].raw = t[x].raw
                   /\ u[x].closed = t[x].closed
                   /\ Same(x) => u[x].leads = t[x].leads /\ t[x].group \subseteq u[x].group
  <2> HIDE DEF Same
  <2>1. /\ DOMAIN u = DOMAIN v \cup {k}
        /\ u[k] = a
        /\ \A x \in DOMAIN v \ {k} : u[x] = v[x]
    BY <1>5 DEF With
  <2> QED BY <1>1, <2>1
<1>6. CASE Joins(t, k, pred)
  <2>1. ~BreaksUp(t, k, pred) /\ done = {}
    BY <1>6 DEF BreaksUp, Processed, done
  <2>2. l \in DOMAIN t /\ l # k
    BY <1>6 DEF Joins, Grouped, ca_has_leader, Good, LeaderOK
  <2> DEFINE w == With(t, k, c)
  <2>3. /\ DOMAIN w = DOMAIN t \cup {k}
        /\ w[k] = c
        /\ \A x \in DOMAIN t : w[x] = t[x]
    BY DEF With
  <2>4. \A x \in DOMAIN w : w[x] \in CA
    BY <1>3, <2>3 DEF Good, TableOK
  <2> HIDE DEF w
  <2>5. u = ca_aggregate(w, l, k)
    BY <1>2, <1>6 DEF w
  <2>6. DOMAIN u = DOMAIN w
    BY <2>5 DEF ca_aggregate
  <2>7. /\ u[k] = [w[k] EXCEPT !.leader = l]
        /\ u[l] = [w[l] EXCEPT !.group = @ \cup {k}]
        /\ \A x \in DOMAIN w \ {k, l} : u[x] = w[x]
    BY <2>2, <2>3, <2>5 DEF ca_aggregate
  <2>8. u[k].raw = w[k].raw /\ u[k].closed = w[k].closed
    BY <2>3, <2>4, <2>7 DEF CA
  <2>9. ASSUME NEW x \in DOMAIN t
        PROVE  /\ u[x].raw = t[x].raw
               /\ u[x].closed = t[x].closed
               /\ u[x].leads = t[x].leads
               /\ t[x].group \subseteq u[x].group
    <3>1. CASE x = l
      BY <2>2, <2>3, <2>4, <2>7, <3>1 DEF CA
    <3>2. CASE x # l
      BY <2>3, <2>7, <3>2
    <3> QED BY <3>1, <3>2
  <2> QED BY <1>1, <1>3, <2>1, <2>3, <2>6, <2>8, <2>9 DEF AfterOK
<1>7. CASE ~Joins(t, k, pred) /\ ~Starts(t, k, pred)
  BY <1>1, <1>2, <1>3, <1>5, <1>7 DEF AfterOK
<1>8. CASE Starts(t, k, pred)
  <2>1. ~Joins(t, k, pred)
    BY <1>8 DEF Starts
  <2> QED BY <1>1, <1>2, <1>4, <1>5, <1>8, <2>1 DEF AfterOK
<1> QED BY <1>6, <1>7, <1>8
(* An SOA publishes the closed audits of the group it breaks up, if any.   *)
Begun(t, k) == [x \in DOMAIN t \cup {k} |-> IF x = k THEN {} ELSE t[x].raw]

AloneRecords(t, k, pred) == {AloneRecord(t, m) : m \in Processed(t, k, pred)}

(* A SOA publishes each closed audit of the group it breaks up by itself,  *)
(* and all the path actions recorded for it.                               *)
LEMMA BeginPublishes ==
    ASSUME NEW t, Good(t), NEW k \in Key, k \notin DOMAIN t,
           NEW pccode \in Code \cup {NoCode}, NEW pred, pred # NoKey => pred \in DOMAIN t
    PROVE  /\ Publishes(Begun(t, k), AloneRecords(t, k, pred), Raw(After(t, k, pccode, pred)))
           /\ Named(AloneRecords(t, k, pred)) = Processed(t, k, pred)
           /\ \A r \in AloneRecords(t, k, pred) : \E c \in Commands(r) : c # k /\ t[c].closed
<1> DEFINE u == After(t, k, pccode, pred)
           done == Processed(t, k, pred)
           new == AloneRecords(t, k, pred)
           o == Begun(t, k)
<1>1. AfterOK(t, k, pred, u, done)
  BY AfterFacts
<1>2. done \subseteq DOMAIN t /\ \A m \in done : t[m].closed
  <2>1. RestOK(t, k, pred, Rest(t, k, pred), done)
    BY RestFacts
  <2> QED BY <2>1 DEF RestOK
<1>3. /\ DOMAIN o = DOMAIN t \cup {k}
      /\ o[k] = {}
      /\ \A x \in DOMAIN t : o[x] = t[x].raw
  BY DEF Begun
<1>4. \A r \in new : \E m \in done : Commands(r) = {m} /\ r.pas = t[m].raw /\ r = AloneRecord(t, m)
  BY DEF AloneRecords, AloneRecord, Commands
<1>5. \A m \in done : AloneRecord(t, m) \in new /\ m \in Commands(AloneRecord(t, m))
  <2>1. \A m \in done : AloneRecord(t, m) \in new
    BY DEF AloneRecords
  <2> QED BY <2>1 DEF AloneRecord, Commands
<1> HIDE DEF u, done, new, o
<1>6. ASSUME NEW r \in new
      PROVE  /\ Commands(r) \subseteq DOMAIN o
             /\ r.pas = UNION {o[c] : c \in Commands(r)}
             /\ \E c \in Commands(r) : c # k /\ t[c].closed
  <2>1. PICK m \in done : Commands(r) = {m} /\ r.pas = t[m].raw
    BY <1>4, <1>6
  <2>2. m \in DOMAIN t /\ m # k /\ t[m].closed /\ o[m] = t[m].raw
    BY <1>2, <1>3, <2>1
  <2>3. UNION {o[c] : c \in {m}} = o[m]
    OBVIOUS
  <2> QED BY <1>3, <2>1, <2>2, <2>3
<1>7. ASSUME NEW r1 \in new, NEW r2 \in new, r1 # r2
      PROVE  Commands(r1) \cap Commands(r2) = {}
  BY <1>4, <1>7
<1>8. Named(new) = done
  <2>1. \A c : c \in Named(new) <=> \E r \in new : c \in Commands(r)
    BY DEF Named
  <2>2. \A c : c \in Named(new) => c \in done
    BY <1>4, <2>1
  <2>3. \A c \in done : c \in Named(new)
    BY <1>5, <2>1
  <2> QED BY <2>2, <2>3
<1>9. Raw(u) = [c \in DOMAIN o \ Named(new) |-> o[c]]
  <2>1. DOMAIN u = DOMAIN o \ Named(new)
    BY <1>1, <1>3, <1>8 DEF AfterOK
  <2>2. \A x \in DOMAIN u : u[x].raw = o[x]
    BY <1>1, <1>3 DEF AfterOK
  <2> QED BY <2>1, <2>2 DEF Raw
<1>10. Publishes(o, new, Raw(u))
  BY <1>6, <1>7, <1>9 DEF Publishes
<1> QED BY <1>6, <1>8, <1>10 DEF u, done, new, o

-----------------------------------------------------------------------------
(* The steps of the monitor *)

(* The path actions of k after S is received for it.                       *)
Received(o, k, S) == [o EXCEPT ![k] = @ \cup S]

(* Path actions received are added to those of their command and change    *)
(* nothing else.                                                           *)
LEMMA RecordedRaw ==
    ASSUME NEW t, Good(t), NEW k \in DOMAIN t, NEW S \in SUBSET PA
    PROVE  /\ Raw(Recorded(t, k, S)) = Received(Raw(t), k, S)
           /\ DOMAIN Raw(Recorded(t, k, S)) = DOMAIN t
           /\ \A x \in DOMAIN t :
                 /\ Recorded(t, k, S)[x].closed = t[x].closed
                 /\ Recorded(t, k, S)[x].leads = t[x].leads
                 /\ Recorded(t, k, S)[x].group = t[x].group
<1> DEFINE u == Recorded(t, k, S)
<1>1. DOMAIN u = DOMAIN t /\ \A x \in DOMAIN t : t[x] \in CA
  BY DEF Recorded, Good, TableOK
<1>2. /\ \A x \in DOMAIN t \ {k} : u[x] = t[x]
      /\ u[k] = [t[k] EXCEPT !.raw = @ \cup S]
  BY DEF Recorded
<1> HIDE DEF u
<1>3. /\ u[k].raw = t[k].raw \cup S
      /\ u[k].closed = t[k].closed
      /\ u[k].leads = t[k].leads
      /\ u[k].group = t[k].group
  BY <1>1, <1>2 DEF CA
<1>4. Raw(u) = Received(Raw(t), k, S)
  BY <1>1, <1>2, <1>3 DEF Raw, Received
<1> QED BY <1>1, <1>2, <1>3, <1>4 DEF u, Raw

(* An SOA, as a step of the log.                                           *)
LEMMA SOALog ==
    ASSUME IInv, NEW k \in Key, NEW pccode \in Code \cup {NoCode}, NEW pcmdid,
           SOA(k, pccode, pcmdid),
           NEW pred, pred = FindPred(audits, k, pccode, pcmdid)
    PROVE  /\ pred # NoKey => pred \in DOMAIN audits
           /\ k \notin DOMAIN audits /\ k \notin Reported
           /\ audits' = After(audits, k, pccode, pred)
           /\ log' = log \cup AloneRecords(audits, k, pred)
           /\ UNCHANGED <<seen, lost, skew>>
           /\ Publishes(Begun(audits, k), AloneRecords(audits, k, pred), Raw(audits'))
<1>1. /\ k \notin DOMAIN audits /\ k \notin Reported
      /\ audits' = After(audits, k, pccode, pred)
      /\ log' = log \cup AloneRecords(audits, k, pred)
      /\ UNCHANGED <<seen, lost, skew>>
  BY DEF SOA, Fresh, HandleSOA, After, AloneRecords
<1>2. pred # NoKey => pred \in DOMAIN audits
  BY PredFacts DEF IInv, Good
<1>3. Good(audits)
  BY DEF IInv
<1>4. Publishes(Begun(audits, k), AloneRecords(audits, k, pred),
                Raw(After(audits, k, pccode, pred)))
  BY <1>1, <1>2, <1>3, BeginPublishes
<1>5. Raw(audits') = Raw(After(audits, k, pccode, pred))
  BY <1>1
<1> QED BY <1>1, <1>2, <1>4, <1>5

(* What makes ReportedOnce and EachPathActionOnce inductive together with  *)
(* the invariant of the table.                                             *)
LInv == Once(DOMAIN audits, log) /\ Spread(Raw(audits), log, seen, lost)

(* The SOA of a command keeps the records apart.                           *)
LEMMA SOAKeepsLog ==
    ASSUME IInv, LInv, NEW k \in Key, NEW pccode \in Code \cup {NoCode}, NEW pcmdid,
           SOA(k, pccode, pcmdid)
    PROVE  LInv'
<1> DEFINE pred == FindPred(audits, k, pccode, pcmdid)
           o == Begun(audits, k)
           new == AloneRecords(audits, k, pred)
<1>1. /\ k \notin DOMAIN audits /\ k \notin Named(log)
      /\ log' = log \cup new
      /\ UNCHANGED <<seen, lost>>
      /\ Publishes(o, new, Raw(audits'))
  BY SOALog DEF Reported, Named
<1>2. /\ DOMAIN o = DOMAIN audits \cup {k}
      /\ o[k] = {}
      /\ \A x \in DOMAIN audits : o[x] = audits[x].raw
  BY <1>1 DEF Begun
<1>3. DOMAIN Raw(audits) = DOMAIN audits /\ \A x \in DOMAIN audits : Raw(audits)[x] = audits[x].raw
  BY DEF Raw
<1> HIDE DEF pred, o, new
<1>4. Once(DOMAIN o, log)
  BY <1>1, <1>2 DEF LInv, Once
<1>5. Spread(o, log, seen, lost)
  <2>1. \A a : (\E x \in DOMAIN o : a \in o[x]) <=> (\E x \in DOMAIN audits : a \in Raw(audits)[x])
    BY <1>2, <1>3
  <2>2. \A a : a \in seen <=> \/ a \in lost
                              \/ \E x \in DOMAIN audits : a \in Raw(audits)[x]
                              \/ \E r \in log : a \in r.pas
    BY <1>3 DEF LInv, Spread
  <2>3. seen = lost \cup UNION ({o[x] : x \in DOMAIN o} \cup {r.pas : r \in log})
    BY <2>1, <2>2
  <2>4. ASSUME NEW x \in DOMAIN o
        PROVE  /\ o[x] \cap lost = {}
               /\ \A r \in log : o[x] \cap r.pas = {}
               /\ \A j \in DOMAIN o : j # x => o[j] \cap o[x] = {}
    BY <1>2, <1>3 DEF LInv, Spread
  <2> QED BY <2>3, <2>4 DEF LInv, Spread
<1>6. Once(DOMAIN Raw(audits'), log \cup new)
  BY <1>1, <1>4, OnceKept
<1>7. Spread(Raw(audits'), log \cup new, seen, lost)
  BY <1>1, <1>5, SpreadKept
<1>8. DOMAIN Raw(audits') = DOMAIN audits'
  BY DEF Raw
<1> QED BY <1>1, <1>6, <1>7, <1>8 DEF LInv

(* So do path actions and an EOA: a path action is received once.          *)
LEMMA DataKeepsLog ==
    ASSUME IInv, LInv, NEW k \in Key, NEW S \in SUBSET PA, NEW eoa \in BOOLEAN,
           Data(k, S, eoa)
    PROVE  LInv'
<1>0. S \cap seen = {} /\ seen' = seen \cup S
  BY DEF Data, HandleData
<1>1. DOMAIN Raw(audits) = DOMAIN audits
  BY DEF Raw
<1>2. \A a : a \in seen <=> \/ a \in lost
                            \/ \E x \in DOMAIN audits : a \in Raw(audits)[x]
                            \/ \E r \in log : a \in r.pas
  BY <1>1 DEF LInv, Spread
<1>3. CASE k \in DOMAIN audits
  <2> DEFINE t == Recorded(audits, k, S)
             o == Raw(t)
  <2>1. Good(t) /\ DOMAIN t = DOMAIN audits
    BY <1>3, RecordedGood DEF IInv
  <2>2. /\ audits' = IF eoa THEN Ended(t, k) ELSE t
        /\ log' = IF eoa THEN log \cup EndRecords(t, k) ELSE log
        /\ lost' = lost
    BY <1>3 DEF Data, HandleData
  <2>3. o = Received(Raw(audits), k, S)
    BY <1>3, RecordedRaw DEF IInv
  <2> HIDE DEF t, o
  <2>4. /\ DOMAIN o = DOMAIN audits
        /\ o[k] = Raw(audits)[k] \cup S
        /\ \A x \in DOMAIN audits \ {k} : o[x] = Raw(audits)[x]
    BY <1>1, <1>3, <2>3 DEF Received
  <2>5. Spread(o, log, seen', lost)
    <3>1. \A a : (\E x \in DOMAIN o : a \in o[x]) <=>
                    (a \in S \/ \E x \in DOMAIN audits : a \in Raw(audits)[x])
      BY <1>3, <2>4
    <3>2. seen' = lost \cup UNION ({o[x] : x \in DOMAIN o} \cup {r.pas : r \in log})
      BY <1>0, <1>2, <3>1
    <3>3. S \cap lost = {} /\ \A r \in log : S \cap r.pas = {}
      BY <1>0, <1>2
    <3>4. \A x \in DOMAIN audits : S \cap Raw(audits)[x] = {}
      BY <1>0, <1>2
    <3>5. ASSUME NEW x \in DOMAIN o
          PROVE  o[x] \cap lost = {} /\ \A r \in log : o[x] \cap r.pas = {}
      BY <1>1, <1>3, <2>4, <3>3 DEF LInv, Spread
    <3>6. ASSUME NEW x \in DOMAIN o, NEW j \in DOMAIN o, j # x
          PROVE  o[j] \cap o[x] = {}
      <4>1. Raw(audits)[j] \cap Raw(audits)[x] = {}
        BY <1>1, <2>4, <3>6 DEF LInv, Spread
      <4> QED BY <2>4, <3>4, <3>6, <4>1
    <3> QED BY <3>2, <3>5, <3>6 DEF LInv, Spread
  <2>6. Once(DOMAIN o, log)
    BY <2>4 DEF LInv
  <2>7. CASE eoa
    <3>1. audits' = Ended(t, k) /\ log' = log \cup EndRecords(t, k)
      BY <2>2, <2>7
    <3>2. Publishes(o, EndRecords(t, k), Raw(audits'))
      BY <1>3, <2>1, <3>1, EndPublishes DEF o
    <3>3. Once(DOMAIN Raw(audits'), log')
      BY <2>6, <3>1, <3>2, OnceKept
    <3>4. Spread(Raw(audits'), log', seen', lost)
      BY <2>5, <3>1, <3>2, SpreadKept
    <3>5. DOMAIN Raw(audits') = DOMAIN audits'
      BY DEF Raw
    <3> QED BY <2>2, <3>3, <3>4, <3>5 DEF LInv
  <2>8. CASE ~eoa
    <3>1. audits' = t /\ log' = log
      BY <2>2, <2>8
    <3>2. Raw(audits') = o /\ DOMAIN audits' = DOMAIN o
      BY <2>1, <2>4, <3>1 DEF o
    <3> QED BY <2>2, <2>5, <2>6, <3>1, <3>2 DEF LInv
  <2> QED BY <2>7, <2>8
<1>4. CASE k \notin DOMAIN audits
  <2>1. lost' = lost \cup S /\ UNCHANGED <<audits, log>>
    BY <1>4 DEF Data, HandleData
  <2>2. Once(DOMAIN audits', log')
    BY <2>1 DEF LInv
  <2>3. seen' = lost' \cup UNION ({Raw(audits)[x] : x \in DOMAIN Raw(audits)} \cup {r.pas : r \in log})
    BY <1>0, <1>1, <1>2, <2>1
  <2>4. \A r \in log : r.pas \cap lost' = {}
    <3>1. \A r \in log : S \cap r.pas = {} /\ r.pas \cap lost = {}
      BY <1>0, <1>2 DEF LInv, Spread
    <3> QED BY <2>1, <3>1
  <2>5. \A x \in DOMAIN Raw(audits) : Raw(audits)[x] \cap lost' = {}
    <3>1. \A x \in DOMAIN Raw(audits) : S \cap Raw(audits)[x] = {} /\ Raw(audits)[x] \cap lost = {}
      BY <1>0, <1>1, <1>2 DEF LInv, Spread
    <3> QED BY <2>1, <3>1
  <2>6. Spread(Raw(audits), log, seen', lost')
    BY <2>3, <2>4, <2>5 DEF LInv, Spread
  <2>7. Raw(audits') = Raw(audits)
    BY <2>1
  <2> QED BY <2>1, <2>2, <2>6, <2>7 DEF LInv
<1> QED BY <1>3, <1>4

(* The empty log satisfies the invariant.                                  *)
LEMMA LogBegins == Init => LInv
<1> SUFFICES ASSUME Init PROVE LInv
  OBVIOUS
<1>1. DOMAIN audits = {} /\ DOMAIN Raw(audits) = {} /\ log = {} /\ seen = {} /\ lost = {}
  BY DEF Init, Raw
<1> QED BY <1>1 DEF LInv, Once, Spread, Named

(* Every step of the monitor keeps it.                                     *)
LEMMA LogKept == IInv /\ LInv /\ [Next]_vars => LInv'
<1> SUFFICES ASSUME IInv, LInv, [Next]_vars PROVE LInv'
  OBVIOUS
<1>1. ASSUME NEW k \in Key, NEW pccode \in Code \cup {NoCode}, NEW pcmdid \in Pid,
             SOA(k, pccode, pcmdid)
      PROVE  LInv'
  BY <1>1, SOAKeepsLog
<1>2. ASSUME NEW k \in Key, NEW S \in SUBSET PA, NEW eoa \in BOOLEAN, Data(k, S, eoa)
      PROVE  LInv'
  BY <1>2, DataKeepsLog
<1>3. CASE UNCHANGED vars
  BY <1>3 DEF vars, LInv, Once, Spread, Named, Raw, Commands
<1> QED BY <1>1, <1>2, <1>3 DEF Next

(* Path actions and commands are accounted for, for every sequence of      *)
(* connections.                                                            *)
LEMMA LogInductive == Spec => []LInv
BY LogBegins, LogKept, Inductive, PTL DEF Spec

(* Every command is reported in at most one audit record, and not while it *)
(* is still open, whatever groups it was in.                               *)
THEOREM CommandsReportedOnce == Spec => []ReportedOnce
<1>1. LInv => ReportedOnce
  BY DEF LInv, Once, Named, ReportedOnce, Reported
<1> QED BY <1>1, LogInductive, PTL

(* Every path action received is in one open audit, in one record, or      *)
(* dropped with a warning: groups neither lose nor duplicate any.          *)
THEOREM PathActionsKept == Spec => []EachPathActionOnce
<1>1. ASSUME LInv PROVE EachPathActionOnce
  <2>1. DOMAIN Raw(audits) = DOMAIN audits /\ \A x \in DOMAIN audits : Raw(audits)[x] = audits[x].raw
    BY DEF Raw
  <2>2. {Raw(audits)[x] : x \in DOMAIN Raw(audits)} = {audits[x].raw : x \in DOMAIN audits}
    BY <2>1
  <2>3. seen = lost \cup UNION ({audits[x].raw : x \in DOMAIN audits} \cup {r.pas : r \in log})
    BY <1>1, <2>2 DEF LInv, Spread
  <2> QED BY <1>1, <2>1, <2>3 DEF LInv, Spread, EachPathActionOnce
<1> QED BY <1>1, LogInductive, PTL
-----------------------------------------------------------------------------
(* Strong groups *)

(* An SOA breaks a strong group up only if its command matches a break RE. *)
LEMMA SOAKeepsStrong ==
    ASSUME IInv, NEW k \in Key, NEW pccode \in Code \cup {NoCode}, NEW pcmdid,
           SOA(k, pccode, pcmdid),
           NEW l \in DOMAIN audits, audits[l].leads, audits[l].strong
    PROVE  StrongGroupKept(l)
<1> DEFINE pred == FindPred(audits, k, pccode, pcmdid)
           u == After(audits, k, pccode, pred)
           done == Processed(audits, k, pred)
<1>1. /\ pred # NoKey => pred \in DOMAIN audits
      /\ k \notin DOMAIN audits
      /\ audits' = u
  BY SOALog
<1>2. AfterOK(audits, k, pred, u, done)
  BY <1>1, AfterFacts DEF IInv
<1>3. audits[l].leader = l
  BY DEF IInv, Good, GroupOK
<1>4. CASE BreaksUp(audits, k, pred) /\ l = audits[pred].leader
  <2>1. ~Joins(audits, k, pred) /\ Grouped(audits, pred)
    BY <1>4 DEF BreaksUp
  <2>2. AggLevel(audits, k, pred) = "BREAK"
    BY <1>4, <2>1 DEF Joins
  <2>3. k.code \in BreakRE
    BY <2>2 DEF AggLevel
  <2>4. k \in DOMAIN audits' \ DOMAIN audits
    BY <1>1, <1>2 DEF AfterOK
  <2> QED BY <2>3, <2>4 DEF StrongGroupKept
<1>5. CASE ~BreaksUp(audits, k, pred) \/ l # audits[pred].leader
  <2>1. l \notin done
    <3>1. SUFFICES ASSUME BreaksUp(audits, k, pred), l \in Members(audits, audits[pred].leader)
                   PROVE  FALSE
      BY DEF Processed, Disbanded
    <3>2. audits[pred].leader \in DOMAIN audits
      BY <1>1, <3>1 DEF BreaksUp, Grouped, ca_has_leader, IInv, Good, LeaderOK
    <3>3. l \in audits[audits[pred].leader].group
      BY <1>5, <3>1 DEF Members
    <3>4. audits[l].leader = audits[pred].leader
      BY <3>2, <3>3 DEF IInv, Good, GroupOK
    <3> QED BY <1>3, <1>5, <3>1, <3>4
  <2> HIDE DEF u, done, pred
  <2>2. l \in DOMAIN u \ {k}
    BY <1>1, <1>2, <2>1 DEF AfterOK
  <2>3. u[l].leads = audits[l].leads /\ audits[l].group \subseteq u[l].group
    BY <1>2, <1>5, <2>2 DEF AfterOK
  <2> QED BY <1>1, <2>2, <2>3 DEF StrongGroupKept
<1> QED BY <1>4, <1>5

(* Path actions and an EOA leave a group whole or report it whole.         *)
LEMMA DataKeepsStrong ==
    ASSUME IInv, NEW k \in Key, NEW S \in SUBSET PA, NEW eoa \in BOOLEAN,
           Data(k, S, eoa),
           NEW l \in DOMAIN audits, audits[l].leads, audits[l].strong
    PROVE  StrongGroupKept(l)
<1>1. CASE k \notin DOMAIN audits
  <2>1. audits' = audits
    BY <1>1 DEF Data, HandleData
  <2> QED BY <2>1 DEF StrongGroupKept
<1>2. CASE k \in DOMAIN audits
  <2> DEFINE t == Recorded(audits, k, S)
  <2>1. Good(t) /\ DOMAIN t = DOMAIN audits
    BY <1>2, RecordedGood DEF IInv
  <2>2. /\ audits' = IF eoa THEN Ended(t, k) ELSE t
        /\ log' = IF eoa THEN log \cup EndRecords(t, k) ELSE log
    BY <1>2 DEF Data, HandleData
  <2>3. t[l].leads = audits[l].leads /\ t[l].group = audits[l].group
    BY <1>2, RecordedRaw DEF IInv
  <2> HIDE DEF t
  <2>4. CASE ~eoa
    <3>1. audits' = t
      BY <2>2, <2>4
    <3> QED BY <2>1, <2>3, <3>1 DEF StrongGroupKept
  <2>5. CASE eoa /\ l \notin Published(t, k)
    <3> DEFINE u == Ended(t, k)
    <3>1. audits' = u
      BY <2>2, <2>5
    <3>2. l \in DOMAIN u
      BY <1>2, <2>1, <2>5, EndedFacts
    <3>3. k \in DOMAIN t
      BY <1>2, <2>1
    <3>4. \A x \in DOMAIN u : u[x].leads = t[x].leads /\ u[x].group = t[x].group
      BY <2>1, <3>3, EndedFacts
    <3> HIDE DEF u
    <3> QED BY <2>3, <3>1, <3>2, <3>4 DEF StrongGroupKept
  <2>6. CASE eoa /\ l \in Published(t, k)
    <3>1. t[l].leader = l /\ l # NoKey /\ l \notin t[l].group
      BY <2>1, <2>3, ConstantsOK DEF Good, GroupOK, TableOK
    <3>2. GroupReady(t, k) /\ t[k].leader = l
      BY <1>2, <2>1, <2>6, <3>1, GoneFacts
    <3>3. Bundle(t, l) \in log'
      BY <2>2, <2>6, <3>2 DEF EndRecords, Heads
    <3>4. Bundle(t, l).ldr = l /\ Bundle(t, l).subs = audits[l].group
      BY <2>3, <3>1 DEF Bundle
    <3> QED BY <3>3, <3>4 DEF StrongGroupKept
  <2> QED BY <2>4, <2>5, <2>6
<1> QED BY <1>1, <1>2

(* A strong group keeps its members until it is reported as a whole or a   *)
(* command that matches a break RE begins.                                 *)
THEOREM StrongGroups == Spec => StrongGroupHolds
<1>1. IInv /\ [Next]_vars =>
        [\A l \in DOMAIN audits : audits[l].leads /\ audits[l].strong => StrongGroupKept(l)]_vars
  <2> SUFFICES ASSUME IInv, Next, NEW l \in DOMAIN audits, audits[l].leads, audits[l].strong
               PROVE  StrongGroupKept(l)
    OBVIOUS
  <2>1. ASSUME NEW k \in Key, NEW pccode \in Code \cup {NoCode}, NEW pcmdid \in Pid,
               SOA(k, pccode, pcmdid)
        PROVE  StrongGroupKept(l)
    BY <2>1, SOAKeepsStrong
  <2>2. ASSUME NEW k \in Key, NEW S \in SUBSET PA, NEW eoa \in BOOLEAN, Data(k, S, eoa)
        PROVE  StrongGroupKept(l)
    BY <2>2, DataKeepsStrong
  <2> QED BY <2>1, <2>2 DEF Next
<1> QED BY <1>1, Inductive, PTL DEF Spec, StrongGroupHolds

-----------------------------------------------------------------------------
(* The monitor implements AuditLog *)

(* The records as AuditLog sees them.                                      *)
Abs(r) == [cmds |-> Commands(r), pas |-> r.pas]

AbsLog(L) == {[cmds |-> Commands(r), pas |-> r.pas] : r \in L}

Ending(t) == {k \in DOMAIN t : t[k].closed}

(* Every record is about a command in e, at least.                         *)
About(new, e) == \A r \in new : \E c \in Commands(r) : c \in e

(* Publish of AuditLog, as a relation between values.                      *)
PublishStep(o, e, recs, open2, ended2, recs2) ==
    LET new == recs2 \ recs
        gone == UNION {a.cmds : a \in new}
    IN  /\ recs \subseteq recs2
        /\ \A a \in new : /\ a.cmds \subseteq DOMAIN o
                          /\ a.cmds \cap e # {}
                          /\ a.pas = UNION {o[c] : c \in a.cmds}
        /\ \A a, b \in new : a # b => a.cmds \cap b.cmds = {}
        /\ open2 = [c \in DOMAIN o \ gone |-> o[c]]
        /\ ended2 = e \ gone

(* A step that publishes records is a Publish step of AuditLog.            *)
LEMMA AbsPublishes ==
    ASSUME NEW o, NEW new, LInv, Publishes(o, new, Raw(audits')), log' = log \cup new,
           DOMAIN o \cap Named(log) = {},
           NEW e, About(new, e),
           Ending(audits') = e \ Named(new)
    PROVE  PublishStep(o, e, AbsLog(log), Raw(audits'), Ending(audits'), AbsLog(log'))
<1> DEFINE old == AbsLog(log)
           cur == AbsLog(log')
           fresh == cur \ old
<1>1. /\ \A r \in log : Abs(r) \in old
      /\ \A r \in log' : Abs(r) \in cur
      /\ \A a \in old : \E r \in log : a = Abs(r)
      /\ \A a \in cur : \E r \in log' : a = Abs(r)
  BY DEF AbsLog, Abs
<1>2. \A r : Abs(r).cmds = Commands(r) /\ Abs(r).pas = r.pas /\ r.ldr \in Commands(r)
  BY DEF Abs, Commands
<1> HIDE DEF old, cur
<1>3. old \subseteq cur
  BY <1>1
<1>4. \A a \in fresh : \E r \in new : a = Abs(r)
  BY <1>1
<1>5. \A r \in new : Abs(r) \in fresh
  <2>1. SUFFICES ASSUME NEW r \in new, NEW q \in log, Abs(r) = Abs(q) PROVE FALSE
    BY <1>1
  <2>2. r.ldr \in Commands(q) /\ r.ldr \in DOMAIN o
    BY <1>2, <2>1 DEF Publishes
  <2> QED BY <2>1, <2>2 DEF Named
<1> HIDE DEF fresh
<1>6. \A r \in new : /\ Commands(r) \subseteq DOMAIN o
                     /\ r.pas = UNION {o[c] : c \in Commands(r)}
  BY DEF Publishes
<1>7. ASSUME NEW a \in fresh
      PROVE  /\ a.cmds \subseteq DOMAIN o
             /\ a.cmds \cap e # {}
             /\ a.pas = UNION {o[c] : c \in a.cmds}
  <2>1. PICK r \in new : a = Abs(r)
    BY <1>4
  <2>2. a.cmds = Commands(r) /\ a.pas = r.pas
    BY <1>2, <2>1
  <2>3. Commands(r) \cap e # {}
    BY <2>1 DEF About
  <2> QED BY <1>6, <2>1, <2>2, <2>3
<1>8. ASSUME NEW a \in fresh, NEW b \in fresh, a # b
      PROVE  a.cmds \cap b.cmds = {}
  <2>1. PICK r \in new : a = Abs(r)
    BY <1>4
  <2>2. PICK q \in new : b = Abs(q)
    BY <1>4
  <2>3. Commands(r) \cap Commands(q) = {}
    BY <1>8, <2>1, <2>2 DEF Publishes
  <2> QED BY <1>2, <2>1, <2>2, <2>3
<1>9. UNION {a.cmds : a \in fresh} = Named(new)
  <2>1. \A c : c \in Named(new) <=> \E r \in new : c \in Commands(r)
    BY DEF Named
  <2>2. \A c : (\E a \in fresh : c \in a.cmds) => c \in Named(new)
    BY <1>2, <1>4, <2>1
  <2>3. \A c \in Named(new) : \E a \in fresh : c \in a.cmds
    BY <1>2, <1>5, <2>1
  <2> QED BY <2>2, <2>3
<1>10. Raw(audits') = [c \in DOMAIN o \ Named(new) |-> o[c]]
  BY DEF Publishes
<1>11. fresh = AbsLog(log') \ AbsLog(log) /\ AbsLog(log) \subseteq AbsLog(log')
  BY <1>3 DEF fresh, old, cur
<1> QED BY <1>7, <1>8, <1>9, <1>10, <1>11 DEF PublishStep

(* An SOA is an Announce step.                                             *)
LEMMA SOAAnnounces ==
    ASSUME IInv, LInv, NEW k \in Key, NEW pccode \in Code \cup {NoCode}, NEW pcmdid,
           SOA(k, pccode, pcmdid)
    PROVE  Promise!Announce(k)
<1> DEFINE pred == FindPred(audits, k, pccode, pcmdid)
           o == Begun(audits, k)
           new == AloneRecords(audits, k, pred)
           done == Processed(audits, k, pred)
           u == After(audits, k, pccode, pred)
<1>1. /\ pred # NoKey => pred \in DOMAIN audits
      /\ k \notin DOMAIN audits /\ k \notin Named(log)
      /\ audits' = u
      /\ log' = log \cup new
      /\ Publishes(o, new, Raw(audits'))
  BY SOALog DEF Reported, Named
<1>2. /\ Named(new) = done
      /\ \A r \in new : \E c \in Commands(r) : c # k /\ audits[c].closed
      /\ AfterOK(audits, k, pred, u, done)
  BY <1>1, BeginPublishes, AfterFacts DEF IInv
<1>3. DOMAIN o = DOMAIN audits \cup {k}
  BY DEF Begun
<1>4. DOMAIN o \cap Named(log) = {}
  BY <1>1, <1>3 DEF LInv, Once
<1> HIDE DEF o, new, done, u, pred
<1>5. About(new, Ending(audits))
  <2>1. \A r \in new : Commands(r) \subseteq DOMAIN audits \cup {k}
    BY <1>1, <1>3 DEF Publishes
  <2> QED BY <1>2, <2>1 DEF Ending, About
<1>6. Ending(audits') = Ending(audits) \ Named(new)
  <2>1. /\ DOMAIN u = (DOMAIN audits \cup {k}) \ done
        /\ ~u[k].closed
        /\ \A x \in DOMAIN u \ {k} : u[x].closed = audits[x].closed
    BY <1>2 DEF AfterOK
  <2>2. \A x : x \in Ending(u) <=> x \in Ending(audits) /\ x \notin done
    BY <1>1, <2>1 DEF Ending
  <2>3. Ending(u) = Ending(audits) \ done
    BY <2>2
  <2> QED BY <1>1, <1>2, <2>3
<1>7. PublishStep(o, Ending(audits), AbsLog(log), Raw(audits'), Ending(audits'), AbsLog(log'))
  BY <1>1, <1>4, <1>5, <1>6, AbsPublishes
<1>8. \A r \in log : k \notin Commands(r)
  BY <1>1 DEF Named
<1>9. o = [x \in DOMAIN Raw(audits) \cup {k} |-> IF x = k THEN {} ELSE Raw(audits)[x]]
  BY DEF o, Begun, Raw
<1>10. DOMAIN Raw(audits) = DOMAIN audits
  BY DEF Raw
<1>11. \A a \in AbsLog(log) : k \notin a.cmds
  BY <1>8 DEF AbsLog
<1> DEFINE O == [x \in DOMAIN Raw(audits) \cup {k} |-> IF x = k THEN {} ELSE Raw(audits)[x]]
<1>12. PublishStep(O, Ending(audits), {[cmds |-> Commands(r), pas |-> r.pas] : r \in log},
                   [x \in DOMAIN audits' |-> audits'[x].raw],
                   {x \in DOMAIN audits' : audits'[x].closed},
                   {[cmds |-> Commands(r), pas |-> r.pas] : r \in log'})
  BY <1>7, <1>9 DEF Raw, Ending, AbsLog
<1>13. Promise!Publish(O, Ending(audits))
  <2> HIDE DEF O
  <2> QED BY <1>12 DEF Promise!Publish, Promise!Restricted, PublishStep
<1> QED BY <1>1, <1>10, <1>11, <1>13 DEF Promise!Announce, Raw, Ending, AbsLog

(* Path actions and an EOA are a Deliver step, a Finish step or, for a     *)
(* command that is not known, nothing.                                     *)
LEMMA DataFinishes ==
    ASSUME IInv, LInv, NEW k \in Key, NEW S \in SUBSET PA, NEW eoa \in BOOLEAN,
           Data(k, S, eoa)
    PROVE  \/ Promise!Deliver(k, S)
           \/ \E E \in SUBSET DOMAIN Raw(audits) : Promise!Finish(k, S, E)
           \/ UNCHANGED Promise!logVars
<1>0. DOMAIN Raw(audits) = DOMAIN audits
  BY DEF Raw
<1>1. CASE k \notin DOMAIN audits
  <2>1. UNCHANGED <<audits, log>>
    BY <1>1 DEF Data, HandleData
  <2> QED BY <2>1 DEF Promise!logVars
<1>2. CASE k \in DOMAIN audits
  <2> DEFINE t == Recorded(audits, k, S)
             o == Raw(t)
             E == Upstream(t, k)
  <2>1. Good(t) /\ DOMAIN t = DOMAIN audits
    BY <1>2, RecordedGood DEF IInv
  <2>2. /\ audits' = IF eoa THEN Ended(t, k) ELSE t
        /\ log' = IF eoa THEN log \cup EndRecords(t, k) ELSE log
    BY <1>2 DEF Data, HandleData
  <2>3. /\ o = [Raw(audits) EXCEPT ![k] = @ \cup S]
        /\ DOMAIN o = DOMAIN audits
        /\ \A x \in DOMAIN audits : t[x].closed = audits[x].closed
    BY <1>2, RecordedRaw DEF IInv, Received
  <2>4. k \in E /\ E \subseteq DOMAIN t
    BY <1>2, <2>1, UpstreamFacts
  <2> HIDE DEF t, o, E
  <2>5. Ending(t) = Ending(audits)
    BY <2>1, <2>3 DEF Ending
  <2>6. CASE ~eoa
    <3>1. audits' = t /\ log' = log
      BY <2>2, <2>6
    <3>2. Raw(audits') = [Raw(audits) EXCEPT ![k] = @ \cup S]
      BY <2>3, <3>1 DEF o
    <3>3. Ending(audits') = Ending(audits)
      BY <2>5, <3>1
    <3>4. Promise!Deliver(k, S)
      BY <1>0, <1>2, <3>1, <3>2, <3>3 DEF Promise!Deliver, Raw, Ending
    <3> QED BY <3>4
  <2>7. CASE eoa
    <3> DEFINE new == EndRecords(t, k)
               u == Ended(t, k)
               e == Ending(audits) \cup E
    <3>1. audits' = u /\ log' = log \cup new
      BY <2>2, <2>7
    <3>2. k \in DOMAIN t
      BY <1>2, <2>1
    <3>3. /\ Publishes(o, new, Raw(audits'))
          /\ Named(new) = Published(t, k)
          /\ \A r \in new : \E c \in Commands(r) : c \in E \/ t[c].closed
      BY <2>1, <3>1, <3>2, EndPublishes DEF o, E
    <3>4. /\ DOMAIN u = DOMAIN t \ Published(t, k)
          /\ \A x \in DOMAIN u : /\ x \in E => u[x].closed = TRUE
                                 /\ x \notin E => u[x] = t[x]
      BY <2>1, <3>2, EndedFacts DEF E
    <3> HIDE DEF u, new
    <3>5. About(new, e)
      <4>1. \A r \in new : Commands(r) \subseteq DOMAIN t
        BY <2>1, <2>3, <3>3 DEF Publishes
      <4> QED BY <2>5, <3>3, <4>1 DEF Ending, About
    <3>6. Ending(audits') = e \ Named(new)
      <4>1. ASSUME NEW x PROVE x \in Ending(u) <=> x \in e /\ x \notin Published(t, k)
        <5>1. CASE x \in DOMAIN u
          BY <2>4, <2>5, <3>4, <5>1 DEF Ending
        <5>2. CASE x \notin DOMAIN u
          BY <2>4, <2>5, <3>4, <5>2 DEF Ending
        <5> QED BY <5>1, <5>2
      <4>2. Ending(u) = e \ Published(t, k)
        <5> HIDE DEF e
        <5> QED BY <4>1
      <4> QED BY <3>1, <3>3, <4>2
    <3>7. DOMAIN o \cap Named(log) = {}
      BY <2>3 DEF LInv, Once
    <3> HIDE DEF e
    <3>8. PublishStep(o, e, AbsLog(log), Raw(audits'), Ending(audits'), AbsLog(log'))
      BY <3>1, <3>3, <3>5, <3>6, <3>7, AbsPublishes
    <3>9. PICK F : F = E
      OBVIOUS
    <3> DEFINE O == [Raw(audits) EXCEPT ![k] = @ \cup S]
    <3>10. PublishStep(O, Ending(audits) \cup F, {[cmds |-> Commands(r), pas |-> r.pas] : r \in log},
                       [x \in DOMAIN audits' |-> audits'[x].raw],
                       {x \in DOMAIN audits' : audits'[x].closed},
                       {[cmds |-> Commands(r), pas |-> r.pas] : r \in log'})
      BY <2>3, <3>8, <3>9 DEF Raw, Ending, AbsLog, e
    <3>11. Promise!Publish(O, Ending(audits) \cup F)
      <4> HIDE DEF O
      <4> QED BY <3>10 DEF Promise!Publish, Promise!Restricted, PublishStep
    <3>12. k \in F /\ F \in SUBSET DOMAIN Raw(audits)
      BY <1>0, <2>1, <2>4, <3>9
    <3>13. Promise!Finish(k, S, F)
      BY <3>11, <3>12 DEF Promise!Finish, Raw, Ending
    <3> QED BY <3>12, <3>13
  <2> QED BY <2>6, <2>7
<1> QED BY <1>1, <1>2

(* The monitor implements AuditLog: however groups are formed, joined and  *)
(* broken up, what it writes is a log of records, each about commands      *)
(* reported there only, with exactly the path actions delivered for them.  *)
THEOREM ImplementsLog == Spec => ImplementsAuditLog
<1>1. Init => Promise!LogInit
  <2> SUFFICES ASSUME Init PROVE Promise!LogInit
    OBVIOUS
  <2>1. DOMAIN audits = {} /\ log = {}
    BY DEF Init
  <2> QED BY <2>1 DEF Promise!LogInit
<1>2. IInv /\ LInv /\ [Next]_vars => [Promise!LogNext]_Promise!logVars
  <2> SUFFICES ASSUME IInv, LInv, [Next]_vars
               PROVE  Promise!LogNext \/ UNCHANGED Promise!logVars
    OBVIOUS
  <2>1. ASSUME NEW k \in Key, NEW pccode \in Code \cup {NoCode}, NEW pcmdid \in Pid,
               SOA(k, pccode, pcmdid)
        PROVE  Promise!LogNext
    <3>1. Promise!Announce(k)
      BY <2>1, SOAAnnounces
    <3> QED BY <3>1 DEF Promise!LogNext
  <2>2. ASSUME NEW k \in Key, NEW S \in SUBSET PA, NEW eoa \in BOOLEAN, Data(k, S, eoa)
        PROVE  Promise!LogNext \/ UNCHANGED Promise!logVars
    <3>1. \/ Promise!Deliver(k, S)
          \/ \E E \in SUBSET DOMAIN Raw(audits) : Promise!Finish(k, S, E)
          \/ UNCHANGED Promise!logVars
      BY <2>2, DataFinishes
    <3> QED BY <3>1 DEF Promise!LogNext, Raw
  <2>3. CASE UNCHANGED vars
    BY <2>3 DEF vars, Promise!logVars
  <2> QED BY <2>1, <2>2, <2>3 DEF Next
<1> QED BY <1>1, <1>2, Inductive, LogInductive, PTL
       DEF Spec, ImplementsAuditLog, Promise!LogSpec
=============================================================================
