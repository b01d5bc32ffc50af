------------------------------ MODULE IgmpProofs ------------------------------
(***************************************************************************)
(* Group membership for any interfaces, groups, memory and response times.   *)
(***************************************************************************)
EXTENDS Igmp, FiniteSetTheorems, TLAPS

Entry == [state : {"NON_MEMBER", "IDLE_MEMBER", "DELAYING_MEMBER"},
          timer : Nat, flag : BOOLEAN, use : 0..MaxUse]

\* A struct igmp_group: it has users, and a report is due exactly for a delaying member.
Sound(e) ==
  /\ e \in Entry
  /\ e # None => e.use > 0
  /\ e.timer > 0 <=> e.state = "DELAYING_MEMBER"

\* If we reported last, last_reporter_flag says so.
Local(n, g) ==
  /\ Sound(group[n][g])
  /\ last[n][g] = "us" => group[n][g] # None /\ group[n][g].flag

Filtered(n) == filter[n] = Listed(group, n) \cup (IF n \in started THEN {AllSystems} ELSE {})

Types ==
  /\ group \in [Ifs -> [Groups -> Entry]]
  /\ filter \in [Ifs -> SUBSET (Groups \cup {AllSystems})]
  /\ last \in [Ifs -> [Groups -> {"nobody", "us", "other"}]]
  /\ started \subseteq Ifs

IInv ==
  /\ Types
  /\ \A n \in Ifs, g \in Groups : Local(n, g)
  /\ \A n \in Ifs : Filtered(n)
  /\ Used(group) <= NumGroups

\* An entry of a group that is not listed.
LEMMA NoneSound ==
  ASSUME Constants PROVE Sound(None) /\ None.timer = 0 /\ ~None.flag
BY DEF Constants, Sound, None, Entry

\* A report, sent or not, changes nothing but the flag.
LEMMA ReportedSound ==
  ASSUME NEW e, Sound(e), e # None, NEW ok \in BOOLEAN
  PROVE  /\ Sound(Reported(e, ok)) /\ Reported(e, ok) # None
         /\ ok => Reported(e, ok).flag
         /\ e.flag => Reported(e, ok).flag
BY Zenon DEF Sound, Reported, Entry, None

\* igmp_start_timer never starts a timer of 0.
LEMMA TimesPositive ==
  ASSUME NEW m \in Nat, NEW t \in Times(m) PROVE t \in Nat \ {0}
BY DEF Times

\* igmp_delaying_member makes a delaying member of a listed group.
LEMMA DelayedSound ==
  ASSUME NEW e, Sound(e), e # None, NEW t \in Nat \ {0}
  PROVE  LET d == [e EXCEPT !.state = "DELAYING_MEMBER", !.timer = t]
         IN  Sound(d) /\ d # None /\ d.flag = e.flag
<1> DEFINE d == [e EXCEPT !.state = "DELAYING_MEMBER", !.timer = t]
<1>1. d \in Entry
  BY Zenon DEF Sound, Entry
<1>2. d.state = "DELAYING_MEMBER" /\ d.timer = t /\ d.use = e.use /\ d.flag = e.flag
  BY Zenon DEF Sound, Entry
<1>3. e.use > 0
  BY Zenon DEF Sound
<1> HIDE DEF d
<1>4. Sound(d) /\ d # None
  BY <1>1, <1>2, <1>3 DEF Sound, Entry, None
<1> QED
  BY Zenon, <1>2, <1>4 DEF d

\* igmp_timeout makes an idle member of a listed group.
LEMMA ReportEndsDelay ==
  ASSUME NEW e, Sound(e), e # None
  PROVE  LET d == [e EXCEPT !.timer = 0, !.state = "IDLE_MEMBER"]
         IN  Sound(d) /\ d # None /\ d.flag = e.flag
<1> DEFINE d == [e EXCEPT !.timer = 0, !.state = "IDLE_MEMBER"]
<1>1. d \in Entry
  BY Zenon DEF Sound, Entry
<1>2. d.state = "IDLE_MEMBER" /\ d.timer = 0 /\ d.use = e.use /\ d.flag = e.flag
  BY Zenon DEF Sound, Entry
<1>3. e.use > 0
  BY Zenon DEF Sound
<1> HIDE DEF d
<1>4. Sound(d) /\ d # None
  BY <1>1, <1>2, <1>3 DEF Sound, Entry, None
<1> QED
  BY Zenon, <1>2, <1>4 DEF d

\* igmp_tmr counts a timer that is not due down to 1 at least.
LEMMA CountDown ==
  ASSUME NEW e, Sound(e), e # None, e.timer > 1
  PROVE  LET d == [e EXCEPT !.timer = @ - 1]
         IN  Sound(d) /\ d # None /\ d.flag = e.flag
BY DEF Sound, Entry, None

\* A join or a leave that is not the last changes nothing but the users.
LEMMA UsersChange ==
  ASSUME Constants, NEW e, Sound(e), e # None, NEW u \in 1..MaxUse
  PROVE  LET d == [e EXCEPT !.use = u]
         IN  Sound(d) /\ d # None /\ d.flag = e.flag
BY DEF Sound, Entry, None, Constants

(***************************************************************************)
(* The blocks of MEMP_IGMP_GROUP in use                                      *)
(***************************************************************************)
\* The blocks in use can be counted.
LEMMA BlocksFinite ==
  ASSUME Constants, Types
  PROVE  /\ IsFiniteSet(started) /\ Cardinality(started) \in Nat
         /\ IsFiniteSet(Members(group)) /\ Cardinality(Members(group)) \in Nat
<1>1. IsFiniteSet(Ifs \X Groups)
  BY Zenon, FS_Product DEF Constants
<1>2. Members(group) \subseteq Ifs \X Groups
  BY Zenon DEF Members
<1> QED
  BY Zenon, <1>1, <1>2, FS_Subset, FS_CardinalityType DEF Constants, Types

\* A step that lists no new group and starts no interface takes no memory.
LEMMA NoMoreUsed ==
  ASSUME Constants, IInv, started' \subseteq started, Members(group') \subseteq Members(group)
  PROVE  (Used(group) <= NumGroups)'
<1>1. Cardinality(started') <= Cardinality(started) /\ Cardinality(started') \in Nat
  BY Zenon, BlocksFinite, FS_Subset, FS_CardinalityType DEF IInv
<1>2. /\ Cardinality(Members(group')) <= Cardinality(Members(group))
      /\ Cardinality(Members(group')) \in Nat
  BY Zenon, BlocksFinite, FS_Subset, FS_CardinalityType DEF IInv
<1>3. Cardinality(started) + Cardinality(Members(group)) <= NumGroups
  BY Zenon DEF IInv, Used
<1>4. Cardinality(started') + Cardinality(Members(group')) <= NumGroups
  BY <1>1, <1>2, <1>3, BlocksFinite DEF Constants, IInv
<1> QED
  BY Zenon, <1>4 DEF Used, Members

\* A set with one more member has one more member at most.
LEMMA AddOne ==
  ASSUME NEW S, IsFiniteSet(S), NEW x
  PROVE  Cardinality(S \cup {x}) \in Nat /\ Cardinality(S \cup {x}) <= Cardinality(S) + 1
<1>1. Cardinality(S \cup {x}) = IF x \in S THEN Cardinality(S) ELSE Cardinality(S) + 1
  BY Zenon, FS_AddElement
<1>2. Cardinality(S) \in Nat
  BY Zenon, FS_CardinalityType
<1> QED
  BY <1>1, <1>2

\* A step that adds one block where there was room keeps the bound.
LEMMA OneMoreUsed ==
  ASSUME Constants, IInv, Used(group) < NumGroups, NEW x,
         \/ started' = started \cup {x} /\ Members(group') = Members(group)
         \/ started' = started /\ Members(group') = Members(group) \cup {x}
  PROVE  (Used(group) <= NumGroups)'
<1>0. /\ IsFiniteSet(started) /\ Cardinality(started) \in Nat
      /\ IsFiniteSet(Members(group)) /\ Cardinality(Members(group)) \in Nat
      /\ NumGroups \in Nat
  BY Zenon, BlocksFinite DEF IInv, Constants
<1>1. Cardinality(started) + Cardinality(Members(group)) < NumGroups
  BY Zenon DEF Used
<1>2. Cardinality(started') + Cardinality(Members(group')) <= NumGroups
  <2>1. CASE started' = started \cup {x} /\ Members(group') = Members(group)
    <3>1. Cardinality(started') \in Nat /\ Cardinality(started') <= Cardinality(started) + 1
      BY Zenon, <1>0, <2>1, AddOne
    <3> QED
      BY <1>0, <1>1, <2>1, <3>1
  <2>2. CASE started' = started /\ Members(group') = Members(group) \cup {x}
    <3>1. /\ Cardinality(Members(group')) \in Nat
          /\ Cardinality(Members(group')) <= Cardinality(Members(group)) + 1
      BY Zenon, <1>0, <2>2, AddOne
    <3> QED
      BY <1>0, <1>1, <2>2, <3>1
  <2> QED
    BY Zenon, <2>1, <2>2
<1> QED
  BY Zenon, <1>2 DEF Used, Members

(***************************************************************************)
(* Steps                                                                    *)
(***************************************************************************)
\* A step that changes entries, each to a sound one that is listed if it was, and
\* neither the interfaces nor their filters.
LEMMA EntriesChange ==
  ASSUME Constants, IInv, UNCHANGED <<started, filter>>,
         group' \in [Ifs -> [Groups -> Entry]],
         last' \in [Ifs -> [Groups -> {"nobody", "us", "other"}]],
         \A n \in Ifs, g \in Groups : /\ Local(n, g)'
                                      /\ group'[n][g] = None <=> group[n][g] = None
  PROVE  IInv'
<1>1. Types'
  BY Zenon DEF IInv, Types
<1>2. \A n \in Ifs : Listed(group', n) = Listed(group, n)
  BY Zenon DEF Listed
<1>3. (\A n \in Ifs : Filtered(n))'
  BY Zenon, <1>2 DEF IInv, Filtered, Listed
<1>4. Members(group') = Members(group)
  BY Zenon DEF Members
<1>5. (Used(group) <= NumGroups)'
  BY Zenon, <1>4, NoMoreUsed
<1> QED
  BY Zenon, <1>1, <1>3, <1>5 DEF IInv

\* A step that changes one entry only, in the way above.
LEMMA EntryChanges ==
  ASSUME Constants, IInv, UNCHANGED <<started, filter>>, NEW n \in Ifs, NEW g \in Groups,
         NEW e, NEW r \in {"nobody", "us", "other"},
         Sound(e), e = None <=> group[n][g] = None,
         r = "us" => e # None /\ e.flag,
         group' = [group EXCEPT ![n][g] = e],
         last' = [last EXCEPT ![n][g] = r]
  PROVE  IInv'
<1>1. group' \in [Ifs -> [Groups -> Entry]]
  BY Zenon DEF IInv, Types, Sound
<1>2. last' \in [Ifs -> [Groups -> {"nobody", "us", "other"}]]
  BY Zenon DEF IInv, Types
<1>3. ASSUME NEW m \in Ifs, NEW h \in Groups
      PROVE  Local(m, h)' /\ (group'[m][h] = None <=> group[m][h] = None)
  <2>1. CASE m = n /\ h = g
    <3>1. group'[m][h] = e /\ last'[m][h] = r
      BY Zenon, <2>1 DEF IInv, Types
    <3> QED
      BY Zenon, <2>1, <3>1 DEF Local
  <2>2. CASE ~(m = n /\ h = g)
    <3>1. group'[m][h] = group[m][h] /\ last'[m][h] = last[m][h]
      BY Zenon, <2>2 DEF IInv, Types
    <3> QED
      BY Zenon, <3>1 DEF IInv, Local
  <2> QED
    BY Zenon, <2>1, <2>2
<1> QED
  BY Zenon, <1>1, <1>2, <1>3, EntriesChange

\* igmp_start takes a block and opens the filter for allsystems.
LEMMA StartKeepsInv ==
  ASSUME Constants, IInv, NEW n \in Ifs, igmp_start(n) PROVE IInv'
<1> USE DEF IInv, igmp_start
<1>1. Types'
  BY Zenon DEF Types
<1>2. (\A m \in Ifs, g \in Groups : Local(m, g))'
  BY Zenon DEF Local
<1>3. (\A m \in Ifs : Filtered(m))'
  BY Zenon DEF Types, Filtered, Listed
<1>4. (Used(group) <= NumGroups)'
  BY Zenon, OneMoreUsed DEF Members
<1> QED
  BY Zenon, <1>1, <1>2, <1>3, <1>4

\* igmp_stop frees every group of the interface and closes the filter for them.
LEMMA StopKeepsInv ==
  ASSUME Constants, IInv, NEW n \in Ifs, igmp_stop(n) PROVE IInv'
<1> USE NoneSound DEF IInv, igmp_stop
<1>1. Types'
  BY Zenon DEF Types, Sound
<1>2. (\A m \in Ifs, g \in Groups : Local(m, g))'
  BY Zenon DEF Types, Local
<1>3. (\A m \in Ifs : Filtered(m))'
  BY Zenon DEF Types, Filtered, Listed
<1>4. Members(group') \subseteq Members(group) /\ started' \subseteq started
  BY Zenon DEF Types, Members
<1>5. (Used(group) <= NumGroups)'
  BY Zenon, <1>4, NoMoreUsed
<1> QED
  BY Zenon, <1>1, <1>2, <1>3, <1>5

\* A group that is listed, and one that is taken from the list: the filter follows.
LEMMA JoinNewKeepsInv ==
  ASSUME Constants, IInv, NEW n \in Ifs, NEW g \in Groups, JoinNew(n, g) PROVE IInv'
<1> PICK ok \in BOOLEAN, t \in Times(JoinTmr) :
      /\ group' = [group EXCEPT ![n][g] =
           Reported([state |-> "DELAYING_MEMBER", timer |-> t, flag |-> FALSE, use |-> 1], ok)]
      /\ last' = Heard(n, g, ok)
  BY Zenon DEF JoinNew
<1> DEFINE new == [state |-> "DELAYING_MEMBER", timer |-> t, flag |-> FALSE, use |-> 1]
           e == Reported(new, ok)
<1>1. Sound(new) /\ new # None
  <2>1. t \in Nat \ {0}
    BY Zenon, TimesPositive DEF Constants
  <2> QED
    BY <2>1 DEF Constants, Sound, Entry, None
<1>2. Sound(e) /\ e # None /\ (ok => e.flag)
  BY Zenon, <1>1, ReportedSound
<1> HIDE DEF new, e
<1>3. group' = [group EXCEPT ![n][g] = e] /\ group[n][g] = None /\ n \in started
  BY Zenon DEF new, e, JoinNew, NewGroup
<1>4. Types'
  BY <1>2, <1>3 DEF IInv, Types, JoinNew, Heard, Sound
<1>5. ASSUME NEW m \in Ifs, NEW h \in Groups PROVE Local(m, h)'
  <2>1. CASE m = n /\ h = g
    <3>1. group'[m][h] = e /\ last[m][h] # "us" /\ last'[m][h] \in {last[m][h], "us"}
          /\ (last'[m][h] = "us" => ok)
      BY <1>3, <2>1 DEF IInv, Types, Local, Heard
    <3> QED
      BY Zenon, <1>2, <3>1 DEF Local
  <2>2. CASE ~(m = n /\ h = g)
    <3>1. group'[m][h] = group[m][h] /\ last'[m][h] = last[m][h]
      BY <1>3, <2>2 DEF IInv, Types, Heard
    <3> QED
      BY Zenon, <3>1 DEF IInv, Local
  <2> QED
    BY Zenon, <2>1, <2>2
<1>6. (\A m \in Ifs : Filtered(m))'
  BY <1>2, <1>3 DEF IInv, Types, Filtered, Listed, JoinNew
<1>7. Members(group') = Members(group) \cup {<<n, g>>}
  BY <1>2, <1>3 DEF IInv, Types, Members
<1>8. (Used(group) <= NumGroups)'
  BY Zenon, <1>7, OneMoreUsed DEF JoinNew, NewGroup
<1> QED
  BY Zenon, <1>4, <1>5, <1>6, <1>8 DEF IInv

\* igmp_leavegroup_netif, for the last user and for another.
LEMMA LeaveKeepsInv ==
  ASSUME Constants, IInv, NEW n \in Ifs, NEW g \in Groups, igmp_leavegroup_netif(n, g) PROVE IInv'
<1> DEFINE e == group[n][g]
<1>0. Sound(e) /\ e # None /\ e.use \in 1..MaxUse
  BY DEF IInv, Local, Sound, Entry, igmp_leavegroup_netif, Constants
<1>1. CASE e.use <= 1
  <2>0. /\ group' = [group EXCEPT ![n][g] = None]
        /\ last' = [last EXCEPT ![n][g] = "nobody"]
        /\ filter' = [filter EXCEPT ![n] = @ \ {g}]
        /\ started' = started
    BY Zenon, <1>1 DEF igmp_leavegroup_netif
  <2>1. Types'
    BY Zenon, <2>0, NoneSound DEF IInv, Types, Sound
  <2>2. ASSUME NEW m \in Ifs, NEW h \in Groups PROVE Local(m, h)'
    <3>1. /\ group'[m][h] = IF m = n /\ h = g THEN None ELSE group[m][h]
          /\ last'[m][h] = IF m = n /\ h = g THEN "nobody" ELSE last[m][h]
      BY Zenon, <2>0 DEF IInv, Types
    <3> QED
      BY Zenon, <3>1, NoneSound DEF IInv, Local
  <2>3. (\A m \in Ifs : Filtered(m))'
    BY Zenon, <2>0 DEF IInv, Types, Filtered, Listed, Constants
  <2>4. Members(group') \subseteq Members(group) /\ started' \subseteq started
    BY Zenon, <2>0 DEF IInv, Types, Members
  <2>5. (Used(group) <= NumGroups)'
    BY Zenon, <2>4, NoMoreUsed
  <2> QED
    BY Zenon, <2>1, <2>2, <2>3, <2>5 DEF IInv
<1>2. CASE ~(e.use <= 1)
  <2> DEFINE d == [e EXCEPT !.use = e.use - 1]
  <2>1. e.use - 1 \in 1..MaxUse
    BY <1>0, <1>2 DEF Constants
  <2>2. Sound(d) /\ d # None /\ d.flag = e.flag
    BY Zenon, <1>0, <2>1, UsersChange
  <2> HIDE DEF d
  <2>3. /\ group' = [group EXCEPT ![n][g] = d]
        /\ last' = [last EXCEPT ![n][g] = last[n][g]]
        /\ UNCHANGED <<started, filter>>
    BY Zenon, <1>2 DEF d, igmp_leavegroup_netif, IInv, Types
  <2>4. last[n][g] \in {"nobody", "us", "other"} /\ (last[n][g] = "us" => e.flag)
    BY Zenon DEF IInv, Types, Local
  <2> QED
    BY Zenon, <1>0, <2>2, <2>3, <2>4, EntryChanges
<1> QED
  BY Zenon, <1>1, <1>2

\* igmp_joingroup_netif of a listed group counts one more user.
LEMMA JoinAgainKeepsInv ==
  ASSUME Constants, IInv, NEW n \in Ifs, NEW g \in Groups, JoinAgain(n, g) PROVE IInv'
<1> DEFINE e == group[n][g]
           d == [e EXCEPT !.use = e.use + 1]
<1>0. Sound(e) /\ e # None /\ e.use + 1 \in 1..MaxUse
  BY DEF IInv, Local, Sound, Entry, JoinAgain, Constants
<1>1. Sound(d) /\ d # None /\ d.flag = e.flag
  BY Zenon, <1>0, UsersChange
<1> HIDE DEF d
<1>2. /\ group' = [group EXCEPT ![n][g] = d]
      /\ last' = [last EXCEPT ![n][g] = last[n][g]]
      /\ UNCHANGED <<started, filter>>
  BY Zenon DEF d, JoinAgain, IInv, Types
<1>3. last[n][g] \in {"nobody", "us", "other"} /\ (last[n][g] = "us" => e.flag)
  BY Zenon DEF IInv, Types, Local
<1> QED
  BY Zenon, <1>0, <1>1, <1>2, <1>3, EntryChanges

\* A step that lists the groups that were listed.
SameLists == \A n \in Ifs, g \in Groups : group'[n][g] = None <=> group[n][g] = None

\* A query, or the link coming up, delays the groups it is about, and lists the same ones.
LEMMA DelayKeepsInv ==
  ASSUME Constants, IInv, NEW n \in Ifs, NEW G \in SUBSET Groups, NEW maxresp \in Nat,
         Delay(n, G, maxresp)
  PROVE  IInv' /\ SameLists
<1> DEFINE Delayed(e, u) == [e EXCEPT !.state = "DELAYING_MEMBER", !.timer = u]
           Delays(g) == g \in G /\ MustDelay(group[n][g], maxresp)
<1>1. PICK t \in [G -> Times(maxresp)] :
        group' = [group EXCEPT ![n] = [g \in Groups |->
          IF g \in G /\ MustDelay(group[n][g], maxresp) THEN Delayed(group[n][g], t[g])
          ELSE group[n][g]]]
  BY Zenon DEF Delay
<1> HIDE DEF Delayed
<1>2. ASSUME NEW g \in Groups, Delays(g)
      PROVE  LET d == Delayed(group[n][g], t[g])
             IN  Sound(d) /\ d # None /\ d.flag = group[n][g].flag /\ group[n][g] # None
  <2>1. Sound(group[n][g]) /\ group[n][g] # None
    BY <1>2 DEF IInv, Local, MustDelay, None
  <2>2. t[g] \in Nat \ {0}
    BY Zenon, <1>2, TimesPositive
  <2> QED
    BY Zenon, <2>1, <2>2, DelayedSound DEF Delayed
<1>3. UNCHANGED <<started, filter, last>>
  BY Zenon DEF Delay
<1>4. ASSUME NEW m \in Ifs, NEW h \in Groups
      PROVE  group'[m][h] = IF m = n /\ Delays(h) THEN Delayed(group[n][h], t[h]) ELSE group[m][h]
  BY Zenon, <1>1 DEF IInv, Types
<1> HIDE DEF Delays
<1>5. ASSUME NEW m \in Ifs, NEW h \in Groups
      PROVE  /\ Local(m, h)' /\ group'[m][h] \in Entry
             /\ group'[m][h] = None <=> group[m][h] = None
  <2>1. CASE m = n /\ Delays(h)
    BY <1>2, <1>3, <1>4, <2>1 DEF IInv, Local, Sound
  <2>2. CASE ~(m = n /\ Delays(h))
    BY <1>3, <1>4, <2>2 DEF IInv, Local, Sound
  <2> QED
    BY Zenon, <2>1, <2>2
<1>6. group' \in [Ifs -> [Groups -> Entry]]
  <2>1. group' = [m \in Ifs |-> [h \in Groups |-> group'[m][h]]]
    BY Zenon, <1>1 DEF IInv, Types
  <2> QED
    BY Zenon, <1>5, <2>1
<1> QED
  BY Zenon, <1>3, <1>5, <1>6, EntriesChange DEF IInv, Types, SameLists

\* The report of another host ends a delay, and lists the same groups.
LEMMA OtherReportsKeepsInv ==
  ASSUME Constants, IInv, NEW n \in Ifs, NEW g \in Groups, OtherReports(n, g)
  PROVE  IInv' /\ SameLists
<1> DEFINE e == group[n][g]
           r == IF e = None THEN last[n][g] ELSE "other"
           d == IF e.state = "DELAYING_MEMBER"
                  THEN [e EXCEPT !.state = "IDLE_MEMBER", !.timer = 0, !.flag = FALSE] ELSE e
<1>1. group' = [group EXCEPT ![n][g] = d] /\ last' = [last EXCEPT ![n][g] = r]
      /\ UNCHANGED <<started, filter>>
  BY Zenon DEF OtherReports, IInv, Types
<1>2. Sound(e)
  BY Zenon DEF IInv, Local
<1>3. Sound(d) /\ (d = None <=> e = None)
  <2>1. CASE e.state = "DELAYING_MEMBER"
    <3>1. e # None /\ e.use > 0
      BY <1>2, <2>1 DEF Sound, None
    <3>2. d \in Entry
      BY Zenon, <1>2, <2>1 DEF Sound, Entry
    <3>3. d.state = "IDLE_MEMBER" /\ d.timer = 0 /\ d.use = e.use
      BY Zenon, <1>2, <2>1 DEF Sound, Entry
    <3> HIDE DEF d
    <3> QED
      BY <3>1, <3>2, <3>3 DEF Sound, Entry, None
  <2>2. CASE e.state # "DELAYING_MEMBER"
    BY Zenon, <1>2, <2>2
  <2> QED
    BY Zenon, <2>1, <2>2
<1>4. r \in {"nobody", "other"}
  BY DEF IInv, Types, Local
<1> HIDE DEF d, r
<1>5. SameLists
  BY Zenon, <1>1, <1>3 DEF IInv, Types, SameLists
<1>6. IInv'
  BY Zenon, <1>1, <1>3, <1>4, EntryChanges
<1> QED
  BY Zenon, <1>5, <1>6

\* igmp_tmr counts down and reports, and lists the same groups.
LEMMA TimerKeepsInv ==
  ASSUME Constants, IInv, igmp_tmr PROVE IInv' /\ SameLists
<1> DEFINE Ended(e) == [e EXCEPT !.timer = 0, !.state = "IDLE_MEMBER"]
           Earlier(e) == [e EXCEPT !.timer = @ - 1]
<1>1. PICK ok \in BOOLEAN :
        /\ group' = [n \in Ifs |-> [g \in Groups |->
             IF Due(n, g) THEN Reported(Ended(group[n][g]), ok)
             ELSE IF Running(n, g) THEN Earlier(group[n][g])
             ELSE group[n][g]]]
        /\ last' = [n \in Ifs |-> [g \in Groups |->
             IF Due(n, g) /\ ok THEN "us" ELSE last[n][g]]]
  BY Zenon DEF igmp_tmr
<1> HIDE DEF Ended, Earlier
<1>2. UNCHANGED <<started, filter>>
  BY Zenon DEF igmp_tmr
<1>3. ASSUME NEW n \in Ifs, NEW g \in Groups
      PROVE  /\ Local(n, g)' /\ group'[n][g] \in Entry
             /\ group'[n][g] = None <=> group[n][g] = None
  <2> DEFINE e == group[n][g]
  <2>0. Sound(e) /\ e.timer \in Nat
    BY Zenon DEF IInv, Local, Sound, Entry
  <2>1. CASE Due(n, g)
    <3>1. e # None
      BY <2>1 DEF Due, None
    <3>2. Sound(Ended(e)) /\ Ended(e) # None /\ Ended(e).flag = e.flag
      BY Zenon, <2>0, <3>1, ReportEndsDelay DEF Ended
    <3>3. group'[n][g] = Reported(Ended(e), ok) /\ last'[n][g] = IF ok THEN "us" ELSE last[n][g]
      BY Zenon, <1>1, <2>1
    <3>4. /\ Sound(Reported(Ended(e), ok)) /\ Reported(Ended(e), ok) # None
          /\ ok => Reported(Ended(e), ok).flag
          /\ Ended(e).flag => Reported(Ended(e), ok).flag
      BY Zenon, <3>2, ReportedSound
    <3>5. last[n][g] = "us" => e.flag
      BY Zenon DEF IInv, Local
    <3> QED
      BY Zenon, <3>1, <3>2, <3>3, <3>4, <3>5 DEF Local, Sound
  <2>2. CASE ~Due(n, g) /\ Running(n, g)
    <3>1. e # None /\ e.timer > 1
      BY <2>0, <2>2 DEF Due, Running, None
    <3>2. Sound(Earlier(e)) /\ Earlier(e) # None /\ Earlier(e).flag = e.flag
      BY Zenon, <2>0, <3>1, CountDown DEF Earlier
    <3>3. group'[n][g] = Earlier(e) /\ last'[n][g] = last[n][g]
      BY Zenon, <1>1, <2>2
    <3> QED
      BY Zenon, <3>1, <3>2, <3>3 DEF IInv, Local, Sound
  <2>3. CASE ~Due(n, g) /\ ~Running(n, g)
    <3>1. group'[n][g] = e /\ last'[n][g] = last[n][g]
      BY Zenon, <1>1, <2>3
    <3> QED
      BY <3>1 DEF IInv, Local, Sound
  <2> QED
    BY Zenon, <2>1, <2>2, <2>3
<1>4. group' \in [Ifs -> [Groups -> Entry]]
  <2>1. group' = [n \in Ifs |-> [g \in Groups |-> group'[n][g]]]
    BY Zenon, <1>1
  <2> QED
    BY Zenon, <1>3, <2>1
<1>5. last' \in [Ifs -> [Groups -> {"nobody", "us", "other"}]]
  BY Zenon, <1>1 DEF IInv, Types
<1> QED
  BY Zenon, <1>2, <1>3, <1>4, <1>5, EntriesChange DEF SameLists

\* No interface is started and no group is listed at first.
LEMMA InitInv ==
  ASSUME Constants, Init PROVE IInv
<1>1. Types
  BY Zenon, NoneSound DEF Init, Types, Sound
<1>2. (\A n \in Ifs, g \in Groups : Local(n, g)) /\ (\A n \in Ifs : Filtered(n))
  BY Zenon, NoneSound DEF Init, Local, Filtered, Listed
<1>3. Members(group) = {} /\ started = {}
  BY Zenon DEF Init, Members
<1>4. Used(group) <= NumGroups
  BY <1>3, FS_EmptySet DEF Used, Constants
<1> QED
  BY Zenon, <1>1, <1>2, <1>4 DEF IInv

\* Every handler keeps the invariant.
LEMMA StepKeepsInv ==
  ASSUME Constants, IInv, [Next]_igmpVars PROVE IInv'
<1>1. ASSUME NEW n \in Ifs, igmp_start(n) PROVE IInv'
  BY Zenon, <1>1, StartKeepsInv
<1>2. ASSUME NEW n \in Ifs, igmp_stop(n) PROVE IInv'
  BY Zenon, <1>2, StopKeepsInv
<1>3. ASSUME NEW n \in Ifs, igmp_report_groups(n) PROVE IInv'
  BY Zenon, <1>3, DelayKeepsInv DEF igmp_report_groups, Constants
<1>4. ASSUME NEW n \in Ifs, NEW g \in Groups, igmp_joingroup_netif(n, g) PROVE IInv'
  BY Zenon, <1>4, JoinNewKeepsInv, JoinAgainKeepsInv DEF igmp_joingroup_netif
<1>5. ASSUME NEW n \in Ifs, NEW g \in Groups, igmp_leavegroup_netif(n, g) PROVE IInv'
  BY Zenon, <1>5, LeaveKeepsInv
<1>6. ASSUME NEW n \in Ifs, NEW m \in MaxResps, GeneralQuery(n, m) PROVE IInv'
  BY Zenon, <1>6, DelayKeepsInv DEF GeneralQuery, Constants
<1>7. ASSUME NEW n \in Ifs, NEW m \in MaxResps, NEW g \in Groups, GroupQuery(n, g, m) PROVE IInv'
  BY Zenon, <1>7, DelayKeepsInv DEF GroupQuery, Constants
<1>8. ASSUME NEW n \in Ifs, NEW g \in Groups, OtherReports(n, g) PROVE IInv'
  BY Zenon, <1>8, OtherReportsKeepsInv
<1>9. CASE igmp_tmr
  BY Zenon, <1>9, TimerKeepsInv
<1>10. CASE UNCHANGED igmpVars
  BY Zenon, <1>10 DEF igmpVars, IInv, Types, Local, Filtered, Listed, Used, Members
<1> QED
  BY Zenon, <1>1, <1>2, <1>3, <1>4, <1>5, <1>6, <1>7, <1>8, <1>9, <1>10 DEF Next, Network

\* The invariant of the group lists, the MAC filters and last_reporter_flag.
THEOREM Inductive == Spec => []IInv
<1>1. Init => IInv
  BY Zenon, InitInv, ConstantsAssumption
<1>2. IInv /\ [Next]_igmpVars => IInv'
  BY Zenon, StepKeepsInv, ConstantsAssumption
<1> QED
  BY <1>1, <1>2, PTL DEF Spec

\* Whatever is joined, left, asked and heard, the MAC filter lets through the groups in
\* use and no others, and a report is due exactly for a delaying member.
THEOREM FilterAndTimersCorrect == Spec => []FilterAndTimers
<1>1. IInv => FilterAndTimers
  BY Zenon DEF IInv, Types, Entry, Local, Sound, Filtered, FilterAndTimers, TypeOK
<1>2. Spec => []IInv
  BY Zenon, Inductive
<1> QED
  BY <1>1, <1>2, PTL

\* What LeaveAnnounced says of a step.
Announced(n, g) ==
  last[n][g] = "us" /\ group'[n][g] = None /\ n \in started' => <<n, g>> \in sent' \/ memerr'

\* A group that is listed afterwards, or whose interface is not started, was not left.
LEMMA OnlyLeaving ==
  ASSUME Constants, IInv, [Next]_igmpVars, NEW n \in Ifs, NEW g \in Groups PROVE Announced(n, g)
<1> SUFFICES ASSUME last[n][g] = "us", group'[n][g] = None, n \in started'
             PROVE  <<n, g>> \in sent' \/ memerr'
  BY Zenon DEF Announced
<1>0. group[n][g] # None /\ group[n][g].flag /\ Sound(group[n][g])
  BY Zenon DEF IInv, Local
<1>1. ASSUME NEW m \in Ifs, igmp_start(m) PROVE FALSE
  BY Zenon, <1>0, <1>1 DEF igmp_start
<1>2. ASSUME NEW m \in Ifs, igmp_stop(m) PROVE FALSE
  BY Zenon, <1>0, <1>2 DEF igmp_stop, IInv, Types
<1>3. ASSUME NEW m \in Ifs, NEW h \in Groups, JoinNew(m, h) PROVE FALSE
  <2>1. ~(m = n /\ h = g)
    BY Zenon, <1>0, <1>3 DEF JoinNew, NewGroup
  <2>2. group'[n][g] = group[n][g]
    BY <1>3, <2>1 DEF JoinNew, IInv, Types
  <2> QED
    BY Zenon, <1>0, <2>2
<1>4. ASSUME NEW m \in Ifs, NEW h \in Groups, JoinAgain(m, h) PROVE FALSE
  <2>1. group'[n][g] = group[n][g] \/ group'[n][g].use = group[n][g].use + 1
    BY <1>0, <1>4 DEF JoinAgain, IInv, Types, Entry
  <2> QED
    BY <1>0, <2>1 DEF Sound, Entry, None
<1>5. ASSUME NEW m \in Ifs, NEW h \in Groups, igmp_leavegroup_netif(m, h)
      PROVE  <<n, g>> \in sent' \/ memerr'
  <2>1. CASE m = n /\ h = g
    <3>1. CASE group[n][g].use <= 1
      BY Zenon, <1>0, <1>5, <2>1, <3>1 DEF igmp_leavegroup_netif
    <3>2. CASE ~(group[n][g].use <= 1)
      <4>1. group'[n][g].use = group[n][g].use - 1
        BY <1>5, <2>1, <3>2 DEF igmp_leavegroup_netif, IInv, Types, Entry
      <4> QED
        BY <1>0, <3>2, <4>1 DEF Sound, Entry, None
    <3> QED
      BY Zenon, <3>1, <3>2
  <2>2. CASE ~(m = n /\ h = g)
    <3>1. group'[n][g] = group[n][g]
      BY <1>5, <2>2 DEF igmp_leavegroup_netif, IInv, Types
    <3> QED
      BY Zenon, <1>0, <3>1
  <2> QED
    BY Zenon, <2>1, <2>2
<1>6. ASSUME NEW m \in Ifs, NEW G \in SUBSET Groups, NEW r \in Nat, Delay(m, G, r) PROVE FALSE
  BY Zenon, <1>0, <1>6, DelayKeepsInv DEF SameLists
<1>7. ASSUME NEW m \in Ifs, NEW h \in Groups, OtherReports(m, h) PROVE FALSE
  BY Zenon, <1>0, <1>7, OtherReportsKeepsInv DEF SameLists
<1>8. CASE igmp_tmr
  BY Zenon, <1>0, <1>8, TimerKeepsInv DEF SameLists
<1>9. CASE UNCHANGED igmpVars
  BY Zenon, <1>0, <1>9 DEF igmpVars
<1> QED
  BY Zenon, <1>1, <1>2, <1>3, <1>4, <1>5, <1>6, <1>7, <1>8, <1>9
     DEF Next, Network, igmp_report_groups, igmp_joingroup_netif, GeneralQuery, GroupQuery, Constants

\* Whoever reported last on a link announces its leaving: last_reporter_flag is set
\* whenever we reported last, and igmp_send fails only for want of memory.
THEOREM LeaveAnnouncedCorrect == Spec => LeaveAnnounced
<1>1. IInv /\ [Next]_igmpVars
        => [\A n \in Ifs, g \in Groups :
              last[n][g] = "us" /\ group'[n][g] = None /\ n \in started'
                => <<n, g>> \in sent' \/ memerr']_igmpVars
  BY Zenon, OnlyLeaving, ConstantsAssumption DEF Announced
<1>2. Spec => []IInv
  BY Zenon, Inductive
<1> QED
  BY <1>1, <1>2, PTL DEF Spec, LeaveAnnounced
===============================================================================
