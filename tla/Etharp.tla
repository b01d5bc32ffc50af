-------------------------------- MODULE Etharp --------------------------------
(***************************************************************************)
(* The ARP table of an Ethernet interface (etharp.c), with one packet queued *)
(* for each address that is being resolved (ARP_QUEUEING 0).  All of it runs  *)
(* under the core lock, so that a handler is one step; what other hosts say   *)
(* arrives at any time, asked for or not.                                    *)
(***************************************************************************)
EXTENDS Integers, FiniteSets, FiniteSetsExt

CONSTANTS Hosts,             \* unicast addresses of the local network
          NextHop,           \* NextHop[a]: the host that packets to a go to
          EthsOf,            \* EthsOf[h]: the hardware addresses that h has had
          Packets,           \* records with a field `to`, an address
          TableSize, MaxAge, MaxPending,      \* ARP_TABLE_SIZE, ARP_MAXAGE, ARP_MAXPENDING
          RerequestUsed      \* ARP_AGE_REREQUEST_USED_UNICAST; the later ..._BROADCAST
                             \* only changes whom the request is sent to

NULL == [to |-> "NULL"]
Entries == 0..(TableSize - 1)
Stable == {"STABLE", "REREQUESTING_1", "REREQUESTING_2"}

VARIABLES arp_table, \* arp_table[i]: state, ipaddr, ethaddr, ctime and q of entry i
          cached,    \* etharp_cached_entry
          refs,      \* refs[p]: references to p that the table owns
          sent       \* what the last step sent: frames <<packet, hardware address>>
                     \* and hosts that were asked for

vars == <<arp_table, cached, refs, sent>>

Unused == [state |-> "EMPTY", ip |-> "none", eth |-> "none", ctime |-> 0, q |-> NULL]
Quiet == [frames |-> {}, requests |-> {}]

Init ==
  /\ arp_table = [i \in Entries |-> Unused]
  /\ cached = 0
  /\ refs = [p \in Packets |-> 0]
  /\ sent = Quiet

(***************************************************************************)
(* The table.  Operators take and return records [t, r]: table and refs.      *)
(***************************************************************************)
Now == [t |-> arp_table, r |-> refs]
Drop(r, p) == IF p = NULL THEN r ELSE [r EXCEPT ![p] = @ - 1]

etharp_free_entry(s, i) ==
  [t |-> [s.t EXCEPT ![i] = Unused], r |-> Drop(s.r, s.t[i].q)]

\* The first entry for the address, if there is one.
Matching(h) == {i \in Entries : arp_table[i].state # "EMPTY" /\ arp_table[i].ip = h}

Empty == {i \in Entries : arp_table[i].state = "EMPTY"}
Old(S) == Max({i \in S : \A j \in S : arp_table[j].ctime <= arp_table[i].ctime})

\* "choose the least destructive entry to recycle": the first that is empty, or the
\* oldest that is stable, pending with no packet, or pending with one.
Recycled ==
  LET stable == {i \in Entries : arp_table[i].state \in Stable}
      idle == {i \in Entries : arp_table[i].state = "PENDING" /\ arp_table[i].q = NULL}
  IN  IF Empty # {} THEN Min(Empty)
      ELSE IF stable # {} THEN Old(stable)
      ELSE IF idle # {} THEN Old(idle)
      ELSE Old(Entries)

\* etharp_find_entry with ETHARP_FLAG_TRY_HARD: an entry for h, made if need be.
FindIndex(h) == IF Matching(h) # {} THEN Min(Matching(h)) ELSE Recycled
Found(h) ==
  IF Matching(h) # {} THEN Now
  ELSE LET s == etharp_free_entry(Now, Recycled)
       IN  [s EXCEPT !.t[Recycled].ip = h, !.t[Recycled].ctime = 0]

(***************************************************************************)
(* etharp_input, etharp_update_arp_entry: h says that its address is eth, to  *)
(* us or to others.  Only for us a new entry is made.                        *)
(***************************************************************************)
etharp_input(h, eth, for_us) ==
  /\ for_us \/ Matching(h) # {}
  /\ LET i == FindIndex(h)
         s == Found(h)
         p == s.t[i].q
     IN  /\ arp_table' = [s.t EXCEPT ![i] =
              [state |-> "STABLE", ip |-> h, eth |-> eth, ctime |-> 0, q |-> NULL]]
         /\ refs' = Drop(s.r, p)
         /\ sent' = [Quiet EXCEPT !.frames = IF p = NULL THEN {} ELSE {<<p, eth>>}]
  /\ UNCHANGED cached

(***************************************************************************)
(* etharp_output                                                            *)
(***************************************************************************)
\* Mutant: the cached entry is used for whatever address.
StableIndex_AnyCached(h) ==
  IF arp_table[cached].state \in Stable THEN {cached}
  ELSE {i \in Matching(h) : arp_table[i].state \in Stable}

\* The entry that etharp_output uses: the cached one if it is of that address.
StableIndex(h) ==
  IF arp_table[cached].state \in Stable /\ arp_table[cached].ip = h THEN {cached}
  ELSE {i \in Matching(h) : arp_table[i].state \in Stable}

\* etharp_output_to_arp_index: an entry about to expire is asked for again, unless
\* there is no memory for the request (~ok).
OutputStable(p, ok) ==
  /\ StableIndex(NextHop[p.to]) # {}
  /\ LET i == Min(StableIndex(NextHop[p.to]))
         e == arp_table[i]
         ask == e.state = "STABLE" /\ e.ctime >= RerequestUsed /\ ok
     IN  /\ arp_table' = IF ask THEN [arp_table EXCEPT ![i].state = "REREQUESTING_1"]
                                ELSE arp_table
         /\ sent' = [frames |-> {<<p, e.eth>>}, requests |-> IF ask THEN {e.ip} ELSE {}]
         /\ cached' = i
  /\ UNCHANGED refs

\* "always queue one packet per ARP request only, freeing a previously queued packet"
Enqueue(s, i, p) ==
  [t |-> [s.t EXCEPT ![i].q = p], r |-> Drop([s.r EXCEPT ![p] = @ + 1], s.t[i].q)]

\* etharp_query(ipaddr, q), with q = NULL a mere request.  A request goes out for a
\* new entry, and for a query without packet; it fails without memory (~ok), and a
\* packet that must be copied is not queued without memory (~copied).
etharp_query(h, p, ok, copied) ==
  LET i == FindIndex(h)
      s == Found(h)
      new == s.t[i].state = "EMPTY"
      s1 == IF new THEN [s EXCEPT !.t[i].state = "PENDING"] ELSE s
      stable == s1.t[i].state \in Stable
      s2 == IF p = NULL \/ stable \/ ~copied THEN s1 ELSE Enqueue(s1, i, p)
  IN  /\ arp_table' = s2.t
      /\ refs' = s2.r
      /\ cached' = IF p # NULL /\ stable THEN i ELSE cached
      /\ sent' = [frames |-> IF p # NULL /\ stable THEN {<<p, s1.t[i].eth>>} ELSE {},
                  requests |-> IF (new \/ p = NULL) /\ ok THEN {h} ELSE {}]

OutputQuery(p, ok, copied) ==
  /\ StableIndex(NextHop[p.to]) = {}
  /\ etharp_query(NextHop[p.to], p, ok, copied)

etharp_output(p) ==
  /\ refs[p] = 0        \* a packet that is not yet queued
  /\ \E ok \in BOOLEAN : OutputStable(p, ok) \/ \E copied \in BOOLEAN : OutputQuery(p, ok, copied)

(***************************************************************************)
(* etharp_tmr, etharp_cleanup_netif                                         *)
(***************************************************************************)
Expired(e) == e.ctime + 1 >= MaxAge \/ (e.state = "PENDING" /\ e.ctime + 1 >= MaxPending)

\* Mutant: an entry that is pending does not age.
Aged_NotPending(e) ==
  [e EXCEPT !.ctime = IF e.state = "PENDING" THEN @ ELSE @ + 1,
            !.state = CASE @ = "REREQUESTING_1" -> "REREQUESTING_2"
                        [] @ = "REREQUESTING_2" -> "STABLE"
                        [] OTHER -> @]

Aged(e) ==
  [e EXCEPT !.ctime = @ + 1,
            !.state = CASE @ = "REREQUESTING_1" -> "REREQUESTING_2"
                        [] @ = "REREQUESTING_2" -> "STABLE"
                        [] OTHER -> @]

\* A packet is on the queue of one entry at most, so that refs changes for each.
FreeAll(I) ==
  [t |-> [i \in Entries |-> IF i \in I THEN Unused ELSE arp_table[i]],
   r |-> [p \in Packets |-> refs[p] - Cardinality({i \in I : arp_table[i].q = p})]]

etharp_tmr ==
  LET used == Entries \ Empty
      old == {i \in used : Expired(arp_table[i])}
      pending == {i \in used \ old : arp_table[i].state = "PENDING"}
  IN  /\ used # {}
      /\ arp_table' = [i \in Entries |-> IF i \in old THEN FreeAll(old).t[i]
                                         ELSE IF i \in used THEN Aged(arp_table[i])
                                         ELSE arp_table[i]]
      /\ refs' = FreeAll(old).r
      /\ \E asked \in SUBSET pending :
           sent' = [Quiet EXCEPT !.requests = {arp_table[i].ip : i \in asked}]
      /\ UNCHANGED cached

etharp_cleanup_netif ==
  /\ arp_table' = FreeAll(Entries \ Empty).t
  /\ refs' = FreeAll(Entries \ Empty).r
  /\ sent' = Quiet
  /\ UNCHANGED cached

\* etharp_query without a packet only asks for the address.
QueryOnly(h) == \E ok \in BOOLEAN : etharp_query(h, NULL, ok, FALSE)

Next ==
  \/ \E h \in Hosts, for_us \in BOOLEAN : \E eth \in EthsOf[h] : etharp_input(h, eth, for_us)
  \/ \E p \in Packets : etharp_output(p)
  \/ \E h \in Hosts : QueryOnly(h)
  \/ etharp_tmr
  \/ etharp_cleanup_netif

Spec == Init /\ [][Next]_vars

\* The timer of etharp_tmr is cyclic (Timeouts): it never stops.
FairSpec == Spec /\ WF_vars(etharp_tmr)
-------------------------------------------------------------------------------
(***************************************************************************)
(* Properties                                                               *)
(***************************************************************************)
TypeOK ==
  /\ \A i \in Entries : /\ arp_table[i].state \in Stable \cup {"EMPTY", "PENDING"}
                        /\ arp_table[i].ctime \in 0..(MaxAge - 1)
  /\ cached \in Entries
  /\ refs \in [Packets -> Nat]

\* An address has one entry at most; a packet waits on a pending entry of its own
\* next hop ("no queued packets should exist on stable entries", etharp.c:364); and
\* the table owns one reference for each waiting packet and no other, whether the
\* entry is resolved, recycled, expires or its packet is replaced.
QueuedOnce ==
  /\ TypeOK
  /\ \A i, j \in Entries : arp_table[i].state # "EMPTY" /\ arp_table[j].state # "EMPTY"
                              /\ arp_table[i].ip = arp_table[j].ip => i = j
  /\ \A i \in Entries : LET e == arp_table[i]
                        IN  e.q # NULL => e.state = "PENDING" /\ e.ip = NextHop[e.q.to]
  /\ \A p \in Packets : refs[p] = Cardinality({i \in Entries : arp_table[i].q = p})

\* A packet never goes out to an address that its next hop never had: not through
\* the cached index after the entry was given to another host, and not through an
\* entry that was recycled while the packet waited.
RightHost == \A f \in sent.frames : f[2] \in EthsOf[NextHop[f[1].to]]

Pending(h) == \E i \in Entries : arp_table[i].state = "PENDING" /\ arp_table[i].ip = h

\* No address stays pending: it is resolved, or the entry and its packet are given
\* up after ARP_MAXPENDING, even if packets to it go on coming.
PendingEnds == \A h \in Hosts : Pending(h) ~> ~Pending(h)
===============================================================================
