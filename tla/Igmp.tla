--------------------------------- MODULE Igmp ---------------------------------
(***************************************************************************)
(* Group membership on the interfaces of a host (igmp.c), with the routers    *)
(* that ask for members and the other hosts that answer.  All of it runs      *)
(* under the core lock, so that a handler is one step.                       *)
(***************************************************************************)
EXTENDS Integers, FiniteSets

CONSTANTS Ifs,          \* the interfaces with NETIF_FLAG_IGMP
          Groups,       \* group addresses other than allsystems
          NumGroups,    \* MEMP_NUM_IGMP_GROUP
          JoinTmr,      \* IGMP_JOIN_DELAYING_MEMBER_TMR
          MaxResps,     \* response times in the queries of routers
          MaxUse        \* bound: joins of a group on an interface

AllSystems == "allsystems"

Constants ==
  /\ IsFiniteSet(Ifs) /\ IsFiniteSet(Groups) /\ AllSystems \notin Groups
  /\ NumGroups \in Nat /\ JoinTmr \in Nat /\ MaxResps \subseteq Nat /\ MaxUse \in Nat \ {0}

ASSUME ConstantsAssumption == Constants

VARIABLES group,    \* group[n][g]: the struct igmp_group of g in the list of n, or None
          started,  \* interfaces whose list has the allsystems group
          filter,   \* filter[n]: groups that the MAC filter of n lets through
          last,     \* last[n][g]: who sent the last report for g on the link of n since we joined
          sent,     \* <<n, g>> of the leave message that the last step sent, if any
          memerr    \* the last step found no memory for a message: it was not sent

igmpVars == <<group, started, filter, last, sent, memerr>>

None == [state |-> "NON_MEMBER", timer |-> 0, flag |-> FALSE, use |-> 0]

\* Blocks of MEMP_IGMP_GROUP in use.
Listed(gs, n) == {g \in Groups : gs[n][g] # None}
Members(gs) == {m \in Ifs \X Groups : gs[m[1]][m[2]] # None}
Used(gs) == Cardinality(started) + Cardinality(Members(gs))

Init ==
  /\ group = [n \in Ifs |-> [g \in Groups |-> None]]
  /\ started = {}
  /\ filter = [n \in Ifs |-> {}]
  /\ last = [n \in Ifs |-> [g \in Groups |-> "nobody"]]
  /\ sent = {} /\ memerr = FALSE

NothingSent == sent' = {} /\ memerr' = FALSE

(***************************************************************************)
(* igmp_start, igmp_stop: called by netif_add and netif_remove                *)
(***************************************************************************)
igmp_start(n) ==
  /\ n \notin started /\ Used(group) < NumGroups
  /\ started' = started \cup {n}
  /\ filter' = [filter EXCEPT ![n] = @ \cup {AllSystems}]
  /\ NothingSent
  /\ UNCHANGED <<group, last>>

\* Mutant: only the allsystems group is taken out of the MAC filter.
igmp_stop_KeepsFilter(n) ==
  /\ n \in started
  /\ started' = started \ {n}
  /\ group' = [group EXCEPT ![n] = [g \in Groups |-> None]]
  /\ last' = [last EXCEPT ![n] = [g \in Groups |-> "nobody"]]
  /\ filter' = [filter EXCEPT ![n] = @ \ {AllSystems}]
  /\ NothingSent

igmp_stop(n) ==
  /\ n \in started
  /\ started' = started \ {n}
  /\ group' = [group EXCEPT ![n] = [g \in Groups |-> None]]
  /\ last' = [last EXCEPT ![n] = [g \in Groups |-> "nobody"]]
  /\ filter' = [filter EXCEPT ![n] = @ \ (Listed(group, n) \cup {AllSystems})]
  /\ NothingSent

(***************************************************************************)
(* Joining.  `ok` says whether there is memory for messages.                 *)
(***************************************************************************)
\* igmp_start_timer: a random time below max_time, and 1 at least.
Times(max_time) == IF max_time > 2 THEN 1..(max_time - 1) ELSE {1}

\* igmp_send(IGMP_V2_MEMB_REPORT) sets last_reporter_flag.
Reported(e, ok) == [e EXCEPT !.flag = @ \/ ok]
Heard(n, g, ok) == IF ok THEN [last EXCEPT ![n][g] = "us"] ELSE last

\* igmp_joingroup_netif on a new group, if there is memory for it, and on one that is there.
NewGroup(n, g) == n \in started /\ group[n][g] = None /\ Used(group) < NumGroups

JoinNew(n, g) ==
  /\ NewGroup(n, g)
  /\ \E ok \in BOOLEAN, t \in Times(JoinTmr) :
       /\ group' = [group EXCEPT ![n][g] =
            Reported([state |-> "DELAYING_MEMBER", timer |-> t, flag |-> FALSE, use |-> 1], ok)]
       /\ last' = Heard(n, g, ok)
       /\ memerr' = ~ok
  /\ filter' = [filter EXCEPT ![n] = @ \cup {g}]
  /\ sent' = {}
  /\ UNCHANGED started

JoinAgain(n, g) ==
  /\ group[n][g] # None /\ group[n][g].use < MaxUse
  /\ group' = [group EXCEPT ![n][g].use = @ + 1]
  /\ NothingSent
  /\ UNCHANGED <<started, filter, last>>

igmp_joingroup_netif(n, g) == JoinNew(n, g) \/ JoinAgain(n, g)

(***************************************************************************)
(* igmp_leavegroup_netif: the last user takes the group from the list, and    *)
(* says so if it was the last to report.  The group goes whether there is     *)
(* memory for the message or not.                                           *)
(***************************************************************************)
\* Mutant: a leave is sent only by a member that is still to report.
igmp_leavegroup_netif_Silent(n, g) ==
  /\ group[n][g] # None
  /\ IF group[n][g].use <= 1
       THEN /\ group' = [group EXCEPT ![n][g] = None]
            /\ last' = [last EXCEPT ![n][g] = "nobody"]
            /\ filter' = [filter EXCEPT ![n] = @ \ {g}]
            /\ \E ok \in BOOLEAN :
                 /\ sent' = IF group[n][g].flag /\ group[n][g].timer > 0 /\ ok THEN {<<n, g>>} ELSE {}
                 /\ memerr' = (group[n][g].flag /\ group[n][g].timer > 0 /\ ~ok)
       ELSE /\ group' = [group EXCEPT ![n][g].use = @ - 1]
            /\ NothingSent
            /\ UNCHANGED <<filter, last>>
  /\ UNCHANGED started

igmp_leavegroup_netif(n, g) ==
  /\ group[n][g] # None
  /\ IF group[n][g].use <= 1
       THEN /\ group' = [group EXCEPT ![n][g] = None]
            /\ last' = [last EXCEPT ![n][g] = "nobody"]
            /\ filter' = [filter EXCEPT ![n] = @ \ {g}]
            /\ \E ok \in BOOLEAN :
                 /\ sent' = IF group[n][g].flag /\ ok THEN {<<n, g>>} ELSE {}
                 /\ memerr' = (group[n][g].flag /\ ~ok)
       ELSE /\ group' = [group EXCEPT ![n][g].use = @ - 1]
            /\ NothingSent
            /\ UNCHANGED <<filter, last>>
  /\ UNCHANGED started

(***************************************************************************)
(* igmp_input                                                               *)
(***************************************************************************)
\* Mutant: a query restarts the timer of a report that is already due.
MustDelay_Always(e, maxresp) == e # None

MustDelay(e, maxresp) ==
  \/ e.state = "IDLE_MEMBER"
  \/ e.state = "DELAYING_MEMBER" /\ (e.timer = 0 \/ maxresp < e.timer)

\* igmp_delaying_member of the groups G, each with a time of its own.
Delay(n, G, maxresp) ==
  /\ \E t \in [G -> Times(maxresp)] :
       group' = [group EXCEPT ![n] = [g \in Groups |->
         IF g \in G /\ MustDelay(@[g], maxresp)
           THEN [@[g] EXCEPT !.state = "DELAYING_MEMBER", !.timer = t[g]] ELSE @[g]]]
  /\ NothingSent
  /\ UNCHANGED <<started, filter, last>>

GeneralQuery(n, maxresp) == n \in started /\ Delay(n, Groups, maxresp)
GroupQuery(n, g, maxresp) == group[n][g] # None /\ Delay(n, {g}, maxresp)

\* netif_issue_reports, when the link comes up.
igmp_report_groups(n) == n \in started /\ Delay(n, Groups, JoinTmr)

\* The report of another host ends our delay.
OtherReports(n, g) ==
  /\ last' = [last EXCEPT ![n][g] = IF group[n][g] = None THEN @ ELSE "other"]
  /\ group' = [group EXCEPT ![n][g] =
       IF @.state = "DELAYING_MEMBER"
         THEN [@ EXCEPT !.state = "IDLE_MEMBER", !.timer = 0, !.flag = FALSE] ELSE @]
  /\ NothingSent
  /\ UNCHANGED <<started, filter>>

(***************************************************************************)
(* igmp_tmr, igmp_timeout: the groups whose time is up report.                *)
(***************************************************************************)
Due(n, g) == group[n][g].timer = 1
Running(n, g) == group[n][g].timer > 0

igmp_tmr ==
  /\ \E n \in Ifs, g \in Groups : Running(n, g)
  /\ \E ok \in BOOLEAN :
       /\ group' = [n \in Ifs |-> [g \in Groups |->
            LET e == group[n][g]
            IN  IF Due(n, g) THEN Reported([e EXCEPT !.timer = 0, !.state = "IDLE_MEMBER"], ok)
                ELSE IF Running(n, g) THEN [e EXCEPT !.timer = @ - 1]
                ELSE e]]
       /\ last' = [n \in Ifs |-> [g \in Groups |->
            IF Due(n, g) /\ ok THEN "us" ELSE last[n][g]]]
       /\ memerr' = (~ok /\ \E n \in Ifs, g \in Groups : Due(n, g))
  /\ sent' = {}
  /\ UNCHANGED <<started, filter>>

Network ==
  \/ \E n \in Ifs, m \in MaxResps : GeneralQuery(n, m) \/ \E g \in Groups : GroupQuery(n, g, m)
  \/ \E n \in Ifs, g \in Groups : OtherReports(n, g)
  \/ igmp_tmr

Next ==
  \/ \E n \in Ifs : igmp_start(n) \/ igmp_stop(n) \/ igmp_report_groups(n)
  \/ \E n \in Ifs, g \in Groups : igmp_joingroup_netif(n, g) \/ igmp_leavegroup_netif(n, g)
  \/ Network

Spec == Init /\ [][Next]_igmpVars

\* The timer of igmp_tmr is cyclic (Timeouts): it never stops.
FairSpec == Spec /\ WF_igmpVars(igmp_tmr)
-------------------------------------------------------------------------------
(***************************************************************************)
(* Properties                                                               *)
(***************************************************************************)
TypeOK ==
  /\ group \in [Ifs -> [Groups -> [state : {"NON_MEMBER", "IDLE_MEMBER", "DELAYING_MEMBER"},
                                   timer : Nat, flag : BOOLEAN, use : 0..MaxUse]]]
  /\ Used(group) <= NumGroups

\* The MAC filter lets through the groups in use and no others; a listed group has
\* users; and a report is due exactly for a delaying member, so that no answer to
\* a query is forgotten and none comes from a host that left or never joined.
FilterAndTimers ==
  /\ TypeOK
  /\ \A n \in Ifs :
       /\ filter[n] = Listed(group, n) \cup (IF n \in started THEN {AllSystems} ELSE {})
       /\ \A g \in Groups : /\ group[n][g] # None => group[n][g].use > 0
                            /\ group[n][g].timer > 0 <=> group[n][g].state = "DELAYING_MEMBER"

\* The member that reported last on a link says when it leaves, if there is memory to
\* say it, so that the routers need not time it out, whatever queries and reports
\* came in between.
LeaveAnnounced ==
  [][\A n \in Ifs, g \in Groups :
       last[n][g] = "us" /\ group'[n][g] = None /\ n \in started'
         => <<n, g>> \in sent' \/ memerr']_igmpVars

\* A query is answered: a delaying member stops to be one, whatever queries come
\* meanwhile, because they only ever bring the report forward.
DelayEnds ==
  \A n \in Ifs, g \in Groups :
    group[n][g].state = "DELAYING_MEMBER" ~> group[n][g].state # "DELAYING_MEMBER"
===============================================================================
