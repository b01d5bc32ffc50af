------------------------------- MODULE IpReass --------------------------------
(***************************************************************************)
(* IPv4 fragmentation and reassembly (ip4_frag.c).  The network delivers the *)
(* fragments of a datagram in any order, any number of times, or never; a    *)
(* datagram may have been fragmented for several MTUs on its way.  Lengths   *)
(* are in bytes.  All of it runs under the core lock, so that a handler is    *)
(* one step.  The fragments are those that ip4_frag makes: without  *)
(* IP options, and of datagrams that fit into 65535 bytes, so that the early    *)
(* returns for others are not taken.                                         *)
(***************************************************************************)
EXTENDS Integers, Sequences, SequencesExt, FiniteSetsExt

CONSTANTS Ids,          \* <source, destination, identification> of datagrams
          Length,       \* length of a datagram, without its header
          Rooms,        \* mtu - IP_HLEN of the links it may cross, less than Length
          MaxPbufs,     \* IP_REASS_MAX_PBUFS
          NumReassdata, \* MEMP_NUM_REASSDATA
          MaxAge        \* IP_REASS_MAXAGE

VARIABLES reassdatagrams,  \* the list of datagrams, newest first
          pbufcount,       \* ip_reass_pbufcount
          out              \* the datagram that the last step returned, or NULL

vars == <<reassdatagrams, pbufcount, out>>

NULL == [id |-> "NULL"]

(***************************************************************************)
(* ip4_frag: the fragments of a datagram, or of a fragment f of one, for a     *)
(* link of which `room` bytes are left beside the header.  Offsets count       *)
(* units of 8 bytes, and the last fragment has more fragments if f has.        *)
(***************************************************************************)
ip4_frag(f, room) ==
  LET nfb == room \div 8
      Start(k) == f.start + k * nfb * 8
  IN  {[id |-> f.id, start |-> Start(k), end |-> Min({Start(k + 1), f.end}),
        mf |-> f.end - Start(k) > room \/ f.mf] : k \in 0..((f.end - f.start - 1) \div (nfb * 8))}

Datagram(id) == [id |-> id, start |-> 0, end |-> Length, mf |-> FALSE]
Sent == UNION {ip4_frag(Datagram(id), room) : id \in Ids, room \in Rooms}
Fragments == Sent \cup UNION {ip4_frag(f, room) : f \in Sent, room \in Rooms}

\* pbuf_clen: a received fragment has one pbuf for each 8 bytes.
Clen(f) == (f.end - f.start + 7) \div 8
ClenAll(p) == FoldLeft(LAMBDA n, f : n + Clen(f), 0, p)

Init == reassdatagrams = <<>> /\ pbufcount = 0 /\ out = NULL

(***************************************************************************)
(* Freeing datagrams.  A state of the list is a record [list, count].         *)
(***************************************************************************)
\* Mutant: the pbufs of a datagram that is given up stay counted.
ip_reass_free_complete_datagram_Uncounted(s, i) ==
  [list |-> RemoveAt(s.list, i), count |-> s.count]

\* ip_reass_free_complete_datagram, ip_reass_dequeue_datagram
ip_reass_free_complete_datagram(s, i) ==
  [list |-> RemoveAt(s.list, i), count |-> s.count - ClenAll(s.list[i].p)]

\* The oldest datagram but for `id`: the last in the list of those that have the
\* least time left.
Others(s, id) == {i \in DOMAIN s.list : s.list[i].id # id}
Oldest(s, id) ==
  Max({i \in Others(s, id) :
         \A j \in Others(s, id) : s.list[i].timer <= s.list[j].timer})

\* do { ... } while ((pbufs_freed < pbufs_needed) && (other_datagrams > 1))
RECURSIVE RemoveOldest(_, _, _)
RemoveOldest(s, id, needed) ==
  IF Others(s, id) = {} THEN s
  ELSE LET s1 == ip_reass_free_complete_datagram(s, Oldest(s, id))
           freed == s.count - s1.count
       IN  IF freed < needed /\ Others(s1, id) # {}
             THEN RemoveOldest(s1, id, needed - freed)
             ELSE s1

(***************************************************************************)
(* ip_reass_chain_frag_into_datagram_and_validate: the sorted list of         *)
(* fragments with f in its place, unless f begins inside or where a fragment  *)
(* begins, or reaches into the next one; and whether it has no hole.          *)
(***************************************************************************)
Place(p, f) == Cardinality({i \in DOMAIN p : p[i].start <= f.start}) + 1

\* Mutant: only fragments that begin inside another one count as overlapping.
Overlaps_NotNext(p, f) ==
  \E i \in DOMAIN p : p[i].start <= f.start /\ (f.start < p[i].end \/ f.start = p[i].start)

Overlaps(p, f) ==
  \/ \E i \in DOMAIN p : p[i].start <= f.start /\ (f.start < p[i].end \/ f.start = p[i].start)
  \/ Place(p, f) \in DOMAIN p /\ f.end > p[Place(p, f)].start

Whole(p) == p[1].start = 0 /\ \A i \in 2..Len(p) : p[i - 1].end = p[i].start

(***************************************************************************)
(* ip4_reass                                                                *)
(***************************************************************************)
Full(s, f) == s.count + Clen(f) > MaxPbufs
Find(s, id) == {i \in DOMAIN s.list : s.list[i].id = id}

NewDatagram(f) ==
  [id |-> f.id, p |-> <<>>, last |-> FALSE, len |-> 0, timer |-> MaxAge, first |-> f.start = 0]

\* ip_reass_enqueue_new_datagram: a list without room for one more loses its
\* oldest datagrams, and gains the new one only if they had enough pbufs.
Enqueue(s, f) ==
  LET s1 == IF Len(s.list) < NumReassdata THEN s ELSE RemoveOldest(s, f.id, Clen(f))
  IN  IF Len(s1.list) < NumReassdata /\ (s1 = s \/ s.count - s1.count >= Clen(f))
        THEN [s1 EXCEPT !.list = <<NewDatagram(f)>> \o @]
        ELSE s1

\* The datagram at i takes the fragment, or stays as it is.  One without fragments
\* takes any, so that none is left without.
Insert(s, i, f) ==
  LET d == s.list[i]
      p == InsertAt(d.p, Place(d.p, f), f)
      d1 == [d EXCEPT !.first = @ \/ f.start = 0]
      d2 == [d1 EXCEPT !.p = p, !.last = @ \/ ~f.mf, !.len = IF f.mf THEN @ ELSE f.end]
      dropped == [s EXCEPT !.list[i] = d1]
      queued == [list |-> [s.list EXCEPT ![i] = d2], count |-> s.count + Clen(f)]
  IN  IF Overlaps(d.p, f) THEN [st |-> dropped, out |-> NULL]
      ELSE IF d2.last /\ Whole(p)
             THEN [st |-> ip_reass_free_complete_datagram(queued, i),
                   out |-> [id |-> d.id, len |-> d2.len, p |-> p, first |-> d2.first]]
             ELSE [st |-> queued, out |-> NULL]

Become(r) ==
  /\ reassdatagrams' = r.st.list
  /\ pbufcount' = r.st.count
  /\ out' = r.out

\* ip4_input passes on what is neither at an offset nor followed by more.
ip4_reass(f) ==
  LET s0 == [list |-> reassdatagrams, count |-> pbufcount]
      s1 == IF Full(s0, f) THEN RemoveOldest(s0, f.id, Clen(f)) ELSE s0
      s2 == IF Find(s1, f.id) = {} THEN Enqueue(s1, f) ELSE s1
  IN  /\ f.start # 0 \/ f.mf
      /\ Become(IF Full(s1, f) THEN [st |-> s1, out |-> NULL]
                ELSE IF Find(s2, f.id) = {} THEN [st |-> s2, out |-> NULL]
                ELSE Insert(s2, CHOOSE i \in Find(s2, f.id) : TRUE, f))

(***************************************************************************)
(* ip_reass_tmr                                                             *)
(***************************************************************************)
ip_reass_tmr ==
  /\ reassdatagrams # <<>>
  /\ LET alive == SelectSeq(reassdatagrams, LAMBDA d : d.timer > 0)
         dead == SelectSeq(reassdatagrams, LAMBDA d : d.timer = 0)
     IN  /\ reassdatagrams' = [i \in DOMAIN alive |-> [alive[i] EXCEPT !.timer = @ - 1]]
         /\ pbufcount' = pbufcount - FoldLeft(LAMBDA n, d : n + ClenAll(d.p), 0, dead)
  /\ out' = NULL

Next == ip_reass_tmr \/ \E f \in Fragments : ip4_reass(f)

Spec == Init /\ [][Next]_vars
-------------------------------------------------------------------------------
(***************************************************************************)
(* Properties                                                               *)
(***************************************************************************)
TypeOK ==
  /\ pbufcount \in 0..MaxPbufs
  /\ Len(reassdatagrams) <= NumReassdata
  /\ \A i \in DOMAIN reassdatagrams : reassdatagrams[i].timer \in 0..MaxAge

\* ip_reass_pbufcount is the number of pbufs in the queues, whatever fragments are
\* dropped, timed out or thrown away for others, and no two entries are of one
\* datagram: otherwise reassembly would block for good ("limit the number of
\* fragments that may be enqueued at any one time").
PbufsCounted ==
  /\ TypeOK
  /\ pbufcount = FoldLeft(LAMBDA n, d : n + ClenAll(d.p), 0, reassdatagrams)
  /\ \A i, j \in DOMAIN reassdatagrams :
       reassdatagrams[i].id = reassdatagrams[j].id => i = j
  /\ \A i \in DOMAIN reassdatagrams : reassdatagrams[i].p # <<>>

\* A datagram that is passed on is whole: its fragments adjoin from 0 to its length,
\* none twice, and its header is the one of the first fragment; and no datagram
\* whose fragments are all there stays in the queue.
DatagramWhole ==
  /\ out # NULL =>
       /\ out.p[1].start = 0 /\ out.first
       /\ \A i \in 2..Len(out.p) : out.p[i].start = out.p[i - 1].end
       /\ Last(out.p).end = out.len /\ out.len = Length
  /\ \A i \in DOMAIN reassdatagrams :
       LET p == reassdatagrams[i].p
       IN  UNION {p[j].start .. (p[j].end - 1) : j \in DOMAIN p} # 0 .. (Length - 1)

\* "the totally last fragment (flag more fragments = 0) was received at least once AND
\* all fragments are received" (ip4_frag.c:619) of a datagram that is passed on.
AllFragmentsReceived == out # NULL => out.len = Length
===============================================================================
