------------------------ MODULE McastMeasurementProofs ------------------------
(***************************************************************************)
(* The multicast measurement for any receivers, rounds and samples: what a    *)
(* signal and the list of times mean as long as nothing is late, although    *)
(* packets are lost and responderCallback runs beside the main thread.       *)
(***************************************************************************)
EXTENDS McastMeasurement, FiniteSetTheorems, TLAPS

(***************************************************************************)
(* Whatever is late                                                         *)
(***************************************************************************)
Inits == {p \in net : p.type \in {"init", "partner"}}

\* A sample is timed only after start_time, so that every time is one of a sample; and
\* no more partners are counted than were asked.
Sane ==
  /\ TypeOK
  /\ IsFiniteSet(net) /\ IsFiniteSet(counted)
  /\ main = "init" => net = {} /\ cb = "idle"
  /\ numberOfPartners + Cardinality(Inits) <= Cardinality(Receivers)
  /\ m_time = NoSample =>
       /\ main \in {"init", "partners", "clear", "reset", "time"}
       /\ cb # "count" /\ \A p \in net : p.type \in {"init", "partner"}
  /\ mp = NoPacket <=> cb # "count"

(***************************************************************************)
(* While nothing is late                                                    *)
(***************************************************************************)
\* No receiver has two packets underway.
Single == \A p, q \in net : p.r = q.r => p = q

Asking ==
  /\ cb = "idle" /\ ~m_sem /\ counted = {} /\ Single
  /\ \A p \in net : p.type \in {"init", "partner"}
  /\ numberOfPartners + Cardinality(net) = Cardinality(Receivers)

OfSample(p) == p.id = i /\ p.sample = <<k, i>>
Counting == IF cb = "count" THEN 1 ELSE 0

\* Each receiver's answer to this sample is underway, with responderCallback, counted or
\* lost; once all are counted, nothing else is on its way.
Waiting ==
  /\ m_time = <<k, i>> /\ currentId = i
  /\ Single
  /\ \A p \in net : p.type \in {"send", "response"} /\ OfSample(p)
  /\ \A p \in counted : OfSample(p)
  /\ \A p \in net, q \in counted : p.r # q.r
  /\ cb = "count" => /\ OfSample(mp)
                     /\ \A p \in net \cup counted : p.r # mp.r
  /\ Cardinality(net) + Cardinality(counted) + Counting <= Cardinality(Receivers)
  /\ numberOfResponses = Cardinality(counted)
  /\ cb = "signal" \/ m_sem => Cardinality(counted) = Cardinality(Receivers)
  /\ m_sem => cb = "idle"

Prompt ==
  /\ main = "init" => ~m_sem /\ counted = {}
  /\ main = "partners" => Asking
  /\ main \notin {"init", "partners"} => numberOfPartners = Cardinality(Receivers)
  /\ main \in {"clear", "reset", "time", "send", "done"} => Quiet /\ ~m_sem
  /\ main \in {"time", "send"} => counted = {} /\ numberOfResponses = 0
  /\ main = "send" => m_time = <<k, i>>
  /\ main = "wait" => Waiting

\* The times of the round so far, with or without that of the current sample.
OfRound == \A n \in DOMAIN m_rtimes : m_rtimes[n] \in {k} \X (0..i)
NotYet == \A n \in DOMAIN m_rtimes : m_rtimes[n] # <<k, i>>

Times ==
  /\ IsInjective(m_rtimes)
  /\ main \in {"init", "partners"} => m_rtimes = <<>>
  /\ main # "clear" => OfRound
  /\ main \in {"reset", "time", "send"} => NotYet
  /\ main = "wait" /\ cb # "signal" /\ ~m_sem => NotYet

OnTime == late = 0 => Prompt /\ Times
MInv == Sane /\ OnTime
-------------------------------------------------------------------------------
(***************************************************************************)
(* Packets                                                                  *)
(***************************************************************************)
PacketSet == [type : {"init", "partner", "send", "response"}, r : Receivers,
              id : 0..(NUM_SAMPLES - 1), sample : Samples \cup {NoSample}]

\* A packet has what it was made of.
LEMMA PacketFacts ==
  ASSUME NEW type, NEW r, NEW sample
  PROVE  /\ Packet(type, r, sample).type = type /\ Packet(type, r, sample).r = r
         /\ Packet(type, r, sample).id = sample[2] /\ Packet(type, r, sample).sample = sample
BY Zenon DEF Packet

\* An answer is of the same receiver and sample as what it answers.
LEMMA AnswerFacts ==
  ASSUME NEW p \in PacketSet, NEW type \in {"partner", "response"}
  PROVE  LET q == [p EXCEPT !.type = type]
         IN  /\ q \in PacketSet /\ q.type = type /\ q.r = p.r /\ q.id = p.id /\ q.sample = p.sample
BY Zenon DEF PacketSet

\* Samples are within their bounds, and NoSample is none.
LEMMA SampleFacts ==
  /\ NoSample \notin Samples /\ NoSample[2] = 0 /\ 0 \in 0..(NUM_SAMPLES - 1)
  /\ \A x \in 1..NUM_ROUNDS, y \in 0..(NUM_SAMPLES - 1) : <<x, y>> \in Samples /\ <<x, y>>[2] = y
BY RoundsAssumption DEF Samples, NoSample

\* As many packets as receivers are sent.
LEMMA MulticastCardinality ==
  ASSUME NEW type, NEW sample
  PROVE  LET S == {Packet(type, r, sample) : r \in Receivers}
         IN  IsFiniteSet(S) /\ Cardinality(S) = Cardinality(Receivers)
<1> DEFINE S == {Packet(type, r, sample) : r \in Receivers}
           f == [r \in Receivers |-> Packet(type, r, sample)]
<1>1. f \in [Receivers -> S] /\ \A r \in Receivers : f[r] = Packet(type, r, sample)
  BY Zenon
<1>2. \A r, s \in Receivers : f[r] = f[s] => r = s
  BY <1>1, PacketFacts
<1>3. f \in Injection(Receivers, S)
  BY Zenon, <1>1, <1>2 DEF Injection, IsInjective
<1>4. f \in Surjection(Receivers, S)
  BY Zenon, <1>1 DEF Surjection
<1>5. ExistsBijection(Receivers, S)
  BY Zenon, <1>3, <1>4 DEF Bijection, ExistsBijection
<1> HIDE DEF S
<1>6. IsFiniteSet(S) /\ Cardinality(S) = Cardinality(Receivers)
  BY Zenon, <1>5, ReceiversAssumption, FS_Bijection
<1> QED
  BY Zenon, <1>6 DEF S

\* A packet that takes the place of another one.
LEMMA ReplaceCardinality ==
  ASSUME NEW X, IsFiniteSet(X), NEW p \in X, NEW q
  PROVE  LET Y == (X \ {p}) \cup {q}
         IN  /\ IsFiniteSet(Y) /\ Cardinality(Y) \in Nat
             /\ Cardinality(Y) <= Cardinality(X)
             /\ q \notin X => Cardinality(Y) = Cardinality(X)
<1>1. /\ IsFiniteSet(X \ {p}) /\ Cardinality(X \ {p}) = Cardinality(X) - 1
  BY Zenon, FS_RemoveElement
<1>2. Cardinality(X) \in Nat /\ Cardinality(X \ {p}) \in Nat
  BY Zenon, <1>1, FS_CardinalityType
<1>3. IsFiniteSet((X \ {p}) \cup {q})
      /\ Cardinality((X \ {p}) \cup {q}) = IF q \in X \ {p} THEN Cardinality(X \ {p}) ELSE Cardinality(X \ {p}) + 1
  BY Zenon, <1>1, FS_AddElement
<1> QED
  BY <1>1, <1>2, <1>3

\* Waits that end late, and losses that count as such.
LEMMA LateFacts ==
  ASSUME late \in Nat, NEW STATE prompt, LateUnless(prompt)
  PROVE  late' \in Nat /\ (late' = 0 => late = 0 /\ prompt)
BY LateAssumption DEF LateUnless
-------------------------------------------------------------------------------
(***************************************************************************)
(* Whatever is late                                                         *)
(***************************************************************************)
\* The next sample is one of the round.
LEMMA NextSampleType ==
  ASSUME TypeOK, NextSample
  PROVE  /\ k' \in 1..NUM_ROUNDS /\ i' \in 0..(NUM_SAMPLES - 1)
         /\ main' \in {"clear", "reset", "done"}
BY RoundsAssumption DEF TypeOK, NextSample

\* The partners asked and the types of what is underway, when only less is underway.
LEMMA InitsFewer ==
  ASSUME IsFiniteSet(net), net' \subseteq net
  PROVE  /\ IsFiniteSet(net') /\ Cardinality(Inits)' <= Cardinality(Inits)
         /\ Cardinality(Inits)' \in Nat /\ Cardinality(Inits) \in Nat
<1>1. Inits \subseteq net /\ Inits' \subseteq Inits
  BY Zenon DEF Inits
<1>2. IsFiniteSet(Inits)
  BY Zenon, <1>1, FS_Subset
<1>3. IsFiniteSet(net')
  BY Zenon, FS_Subset
<1> QED
  BY Zenon, <1>1, <1>2, <1>3, FS_Subset, FS_CardinalityType

\* The steps of run keep the general invariant.
LEMMA MainSane == ASSUME Sane, MainStep PROVE Sane'
<1> USE ReceiversAssumption, SampleFacts
<1>0. /\ TypeOK /\ IsFiniteSet(net) /\ Cardinality(Receivers) \in Nat /\ Cardinality(Inits) \in Nat
  <2>1. IsFiniteSet(net) /\ Inits \subseteq net
    BY Zenon DEF Sane, Inits
  <2> QED
    BY Zenon, <2>1, FS_Subset, FS_CardinalityType DEF Sane
<1>1. CASE sendInitPacket
  <2>1. net = {} /\ net' = {Packet("init", r, NoSample) : r \in Receivers}
    BY Zenon, <1>1 DEF sendInitPacket, Multicast, Sane
  <2>2. \A p \in net' : p \in PacketSet /\ p.type = "init"
    BY <2>1, PacketFacts DEF Packet, PacketSet
  <2>3. Inits' = net'
    BY Zenon, <2>2 DEF Inits
  <2>4. IsFiniteSet(net') /\ Cardinality(net') = Cardinality(Receivers)
    BY <2>1, MulticastCardinality
  <2>5. TypeOK'
    BY <1>0, <1>1, <2>2 DEF sendInitPacket, TypeOK, loopVars, cbVars, PacketSet
  <2>6. numberOfPartners' + Cardinality(Inits)' <= Cardinality(Receivers)
    BY <1>0, <1>1, <2>3, <2>4 DEF sendInitPacket
  <2> QED
    BY Zenon, <1>1, <2>2, <2>4, <2>5, <2>6 DEF sendInitPacket, Sane, loopVars, cbVars
<1>2. CASE InitDone \/ ClearTimes \/ ResetResponses \/ start_time
  <2>1. /\ UNCHANGED <<k, i, numberOfPartners, currentId, m_sem, net, cb, mp>>
        /\ main \in {"partners", "clear", "reset", "time"} /\ main' \in {"clear", "reset", "time", "send"}
        /\ counted' = counted \/ counted' = {}
        /\ m_time' = m_time \/ (m_time' = <<k, i>> /\ main' = "send")
        /\ main' = "send" => m_time' = <<k, i>>
    BY Zenon, <1>2 DEF InitDone, ClearTimes, ResetResponses, start_time, loopVars, countVars, cbVars
  <2>2. m_rtimes' \in Seq(Samples) /\ numberOfResponses' \in 0..255
    <3>1. m_rtimes' \in {m_rtimes, <<>>} /\ numberOfResponses' \in {numberOfResponses, 0}
      BY Zenon, <1>2 DEF InitDone, ClearTimes, ResetResponses, start_time, countVars
    <3>2. <<>> \in Seq(Samples) /\ m_rtimes \in Seq(Samples) /\ numberOfResponses \in 0..255
      BY <1>0 DEF TypeOK
    <3>3. m_rtimes' \in Seq(Samples)
      BY <3>1, <3>2
    <3>4. numberOfResponses' \in 0..255
      BY <3>1, <3>2
    <3> QED
      BY Zenon, <3>3, <3>4
  <2>3. late' \in Nat
    <3>1. late \in Nat /\ (LateUnless(Quiet) \/ UNCHANGED late)
      BY Zenon, <1>0, <1>2 DEF InitDone, ClearTimes, ResetResponses, start_time, loopVars, TypeOK
    <3> QED
      BY Zenon, <3>1, LateFacts
  <2>4. <<k, i>> \in Samples
    BY Zenon, <1>0 DEF TypeOK
  <2>5. TypeOK'
    BY Zenon, <1>0, <2>1, <2>2, <2>3, <2>4 DEF TypeOK
  <2>6. Inits' = Inits
    BY Zenon, <2>1 DEF Inits
  <2>7. IsFiniteSet(counted')
    BY Zenon, <2>1, FS_EmptySet DEF Sane
  <2>8. m_time' = NoSample => m_time = NoSample /\ main' # "send"
    BY Zenon, <2>1, <2>4
  <2> QED
    BY Zenon, <2>1, <2>5, <2>6, <2>7, <2>8 DEF Sane
<1>3. CASE buildAndSendPacket(i)
  <2> DEFINE new == {Packet("send", r, <<k, i>>) : r \in Receivers}
  <2>1. net' = net \cup new /\ <<k, i>> \in Samples
    BY Zenon, <1>0, <1>3 DEF buildAndSendPacket, Multicast, TypeOK
  <2>2. \A p \in new : p \in PacketSet /\ p.type = "send"
    BY <1>0, <2>1, PacketFacts DEF Packet, PacketSet, TypeOK
  <2>3. IsFiniteSet(new)
    BY MulticastCardinality
  <2> HIDE DEF new
  <2>4. IsFiniteSet(net')
    BY Zenon, <1>0, <2>1, <2>3, FS_Union
  <2>5. Inits' = Inits
    BY Zenon, <2>1, <2>2 DEF Inits
  <2>6. main = "send" /\ main' = "wait" /\ currentId' = i
        /\ UNCHANGED <<late, k, i, numberOfPartners, numberOfResponses, counted, m_time, m_rtimes, m_sem, cb, mp>>
    BY Zenon, <1>3 DEF buildAndSendPacket, loopVars, countVars, cbVars
  <2>7. TypeOK'
    BY Zenon, <1>0, <2>1, <2>2, <2>6 DEF TypeOK, PacketSet
  <2>8. m_time' # NoSample
    BY Zenon, <2>6 DEF Sane
  <2> QED
    BY Zenon, <2>4, <2>5, <2>6, <2>7, <2>8 DEF Sane
<1>4. CASE WaitSignalled \/ WaitTimeout
  <2>1. /\ UNCHANGED <<numberOfPartners, numberOfResponses, counted, currentId, m_time, m_rtimes, net, cb, mp>>
        /\ main = "wait" /\ NextSample /\ m_sem' \in {m_sem, FALSE}
    BY Zenon, <1>4 DEF WaitSignalled, WaitTimeout, countVars, cbVars
  <2>2. late' \in Nat
    BY Zenon, <1>0, <1>4, LateFacts DEF WaitSignalled, WaitTimeout, TypeOK
  <2>3. TypeOK'
    BY Zenon, <1>0, <2>1, <2>2, NextSampleType DEF TypeOK
  <2>4. Inits' = Inits
    BY Zenon, <2>1 DEF Inits
  <2>5. m_time' # NoSample /\ main' # "init"
    BY Zenon, <1>0, <2>1, NextSampleType DEF Sane
  <2> QED
    BY Zenon, <2>1, <2>3, <2>4, <2>5 DEF Sane
<1> QED
  BY Zenon, <1>1, <1>2, <1>3, <1>4 DEF MainStep

\* An answer is underway in place of what it answers.
LEMMA AnswerSane == ASSUME Sane, NEW p \in net, sendResponse(p) PROVE Sane'
<1> DEFINE q == [p EXCEPT !.type = ResponseType(p.type)]
<1>1. /\ p.type \in {"init", "send"} /\ net' = (net \ {p}) \cup {q}
      /\ UNCHANGED <<late, k, i, main, numberOfPartners, numberOfResponses, counted, currentId,
                     m_time, m_rtimes, m_sem, cb, mp>>
  BY Zenon DEF sendResponse, loopVars, countVars, cbVars
<1>2. p \in PacketSet /\ TypeOK /\ IsFiniteSet(net)
  BY Zenon DEF Sane, TypeOK, PacketSet
<1>3. q \in PacketSet /\ q.type = ResponseType(p.type)
  BY Zenon, <1>1, <1>2, AnswerFacts DEF ResponseType
<1> HIDE DEF q
<1>4. p.type = "init" <=> q.type = "partner"
  BY Zenon, <1>1, <1>3 DEF ResponseType
<1>5. p.type = "send" <=> q.type = "response"
  BY Zenon, <1>1, <1>3 DEF ResponseType
<1>6. IsFiniteSet(net')
  BY Zenon, <1>1, <1>2, ReplaceCardinality
<1>7. Inits \subseteq net /\ IsFiniteSet(Inits)
  BY Zenon, <1>2, FS_Subset DEF Inits
<1>8. Cardinality(Inits)' <= Cardinality(Inits) /\ Cardinality(Inits)' \in Nat /\ Cardinality(Inits) \in Nat
  <2>1. CASE p.type = "init"
    <3>1. Inits' = (Inits \ {p}) \cup {q} /\ p \in Inits
      BY Zenon, <1>1, <1>4, <2>1 DEF Inits
    <3> QED
      BY Zenon, <1>7, <3>1, ReplaceCardinality, FS_CardinalityType
  <2>2. CASE p.type = "send"
    <3>1. Inits' = Inits
      BY Zenon, <1>1, <1>5, <2>2 DEF Inits
    <3> QED
      BY <1>7, <3>1, FS_CardinalityType
  <2> QED
    BY Zenon, <1>1, <2>1, <2>2
<1>9. TypeOK'
  BY <1>1, <1>2, <1>3 DEF TypeOK, PacketSet
<1>10. numberOfPartners' + Cardinality(Inits)' <= Cardinality(Receivers)
  <2>1. numberOfPartners \in Nat /\ Cardinality(Receivers) \in Nat
    BY <1>2, ReceiversAssumption, FS_CardinalityType DEF TypeOK
  <2> QED
    BY <1>1, <1>8, <2>1 DEF Sane
<1>11. m_time' = NoSample => \A x \in net' : x.type \in {"init", "partner"}
  BY Zenon, <1>1, <1>4 DEF Sane
<1> QED
  BY Zenon, <1>1, <1>6, <1>9, <1>10, <1>11 DEF Sane

\* Packets are taken from the network, by a loss or by responderCallback.
LEMMA TakeSane ==
  ASSUME Sane, NEW p \in net, Lose(p) \/ CallbackPartner(p) \/ CallbackResponse(p) PROVE Sane'
<1>0. /\ TypeOK /\ IsFiniteSet(net) /\ p \in PacketSet
      /\ Cardinality(Receivers) \in 0..255 /\ numberOfPartners \in Nat
  <2>1. Cardinality(Receivers) \in Nat /\ Cardinality(Receivers) < 256
    BY Zenon, ReceiversAssumption, FS_CardinalityType
  <2>2. Cardinality(Receivers) \in 0..255
    BY <2>1
  <2>3. numberOfPartners \in Nat
    BY <2>1 DEF Sane, TypeOK
  <2> QED
    BY Zenon, <2>2, <2>3 DEF Sane, TypeOK, PacketSet
<1>1. net' = net \ {p}
      /\ UNCHANGED <<k, i, main, numberOfResponses, counted, currentId, m_time, m_rtimes, m_sem>>
  BY Zenon DEF Lose, CallbackPartner, CallbackResponse, loopVars, countVars
<1>2. late' \in Nat
  <2>1. late \in Nat /\ (LateUnless(p.type \in {"send", "response"}) \/ UNCHANGED late)
    BY <1>0 DEF Lose, CallbackPartner, CallbackResponse, loopVars, TypeOK
  <2> QED
    BY Zenon, <2>1, LateFacts
<1>3. /\ IsFiniteSet(net') /\ Cardinality(Inits)' <= Cardinality(Inits)
      /\ Cardinality(Inits)' \in Nat /\ Cardinality(Inits) \in Nat
  BY Zenon, <1>0, <1>1, InitsFewer
<1>4. numberOfPartners' \in Nat /\ numberOfPartners' + Cardinality(Inits)' <= Cardinality(Receivers)
  <2>1. numberOfPartners + Cardinality(Inits) <= Cardinality(Receivers)
    BY Zenon DEF Sane
  <2>2. CASE CallbackPartner(p)
    <3>1. p \in Inits /\ Inits' = Inits \ {p} /\ IsFiniteSet(Inits)
      BY Zenon, <1>0, <1>1, <2>2, FS_Subset DEF CallbackPartner, Inits
    <3>2. Cardinality(Inits)' = Cardinality(Inits) - 1
      BY Zenon, <3>1, FS_RemoveElement
    <3>3. numberOfPartners' = (numberOfPartners + 1) % 256 /\ numberOfPartners + 1 <= 255
      BY <1>0, <1>3, <2>1, <2>2, <3>2 DEF CallbackPartner
    <3>4. numberOfPartners' = numberOfPartners + 1
      BY <1>0, <3>3
    <3> QED
      BY <1>0, <1>3, <2>1, <3>2, <3>4
  <2>3. CASE Lose(p) \/ CallbackResponse(p)
    BY <1>0, <1>3, <2>1, <2>3 DEF Lose, CallbackResponse, countVars
  <2> QED
    BY Zenon, <2>2, <2>3
<1>5. \/ cb' = cb /\ mp' = mp
      \/ cb = "idle" /\ cb' = "count" /\ mp' = p /\ p.type = "response"
  BY Zenon DEF Lose, CallbackPartner, CallbackResponse, cbVars
<1>6. p # NoPacket
  BY <1>0 DEF PacketSet, NoPacket
<1>7. TypeOK'
  <2>1. numberOfPartners' \in 0..Cardinality(Receivers)
    BY <1>0, <1>3, <1>4
  <2>2. cb' \in {"idle", "count", "signal"} /\ (mp' = NoPacket \/ mp'.type = "response")
    BY Zenon, <1>0, <1>5 DEF TypeOK
  <2>3. numberOfResponses' \in 0..255 /\ m_sem' \in BOOLEAN
    BY Zenon, <1>0, <1>1 DEF TypeOK
  <2> QED
    BY <1>0, <1>1, <1>2, <2>1, <2>2, <2>3 DEF TypeOK
<1>8. m_time' = NoSample => cb' # "count" /\ \A x \in net' : x.type \in {"init", "partner"}
  BY Zenon, <1>1, <1>5 DEF Sane
<1>9. mp' = NoPacket <=> cb' # "count"
  BY Zenon, <1>5, <1>6 DEF Sane
<1>10. main' = "init" => net' = {} /\ cb' = "idle"
  BY Zenon, <1>1, <1>5 DEF Sane
<1> QED
  BY Zenon, <1>1, <1>3, <1>4, <1>7, <1>8, <1>9, <1>10 DEF Sane

\* responderCallback counts and signals.
LEMMA CountSane == ASSUME Sane, CallbackCount \/ CallbackSignal PROVE Sane'
<1>1. CASE CallbackCount
  <2>1. /\ cb = "count" /\ mp' = NoPacket /\ counted' = counted \cup {mp}
        /\ numberOfResponses' = (numberOfResponses + 1) % 256
        /\ cb' \in {"idle", "signal"}
        /\ m_rtimes' = Append(m_rtimes, m_time) \/ m_rtimes' = m_rtimes
        /\ UNCHANGED <<late, k, i, main, numberOfPartners, currentId, m_time, m_sem, net>>
    BY Zenon, <1>1 DEF CallbackCount, loopVars
  <2>2. TypeOK /\ mp.type = "response" /\ m_time \in Samples
    BY Zenon, <2>1 DEF Sane, TypeOK
  <2>3. m_rtimes' \in Seq(Samples)
    BY <2>1, <2>2 DEF TypeOK
  <2>4. numberOfResponses' \in 0..255
    BY <2>1, <2>2 DEF TypeOK
  <2>5. TypeOK'
    BY Zenon, <2>1, <2>2, <2>3, <2>4 DEF TypeOK
  <2>6. Inits' = Inits /\ IsFiniteSet(counted')
    BY Zenon, <2>1, FS_AddElement DEF Inits, Sane
  <2> QED
    BY Zenon, <2>1, <2>5, <2>6 DEF Sane
<1>2. CASE CallbackSignal
  <2>1. /\ cb = "signal" /\ cb' = "idle" /\ m_sem' = TRUE
        /\ UNCHANGED <<late, k, i, main, numberOfPartners, numberOfResponses, counted, currentId,
                       m_time, m_rtimes, net, mp>>
    BY Zenon, <1>2 DEF CallbackSignal, loopVars, countVars
  <2>2. TypeOK' /\ Inits' = Inits
    BY Zenon, <2>1 DEF Sane, TypeOK, Inits
  <2> QED
    BY Zenon, <2>1, <2>2 DEF Sane
<1> QED
  BY Zenon, <1>1, <1>2
-------------------------------------------------------------------------------
(***************************************************************************)
(* While nothing is late                                                    *)
(***************************************************************************)
\* Sizes are natural numbers.
LEMMA SizeFacts ==
  ASSUME Sane
  PROVE  /\ Cardinality(Receivers) \in 0..255 /\ Cardinality(net) \in Nat /\ Cardinality(counted) \in Nat
         /\ IsFiniteSet(net) /\ IsFiniteSet(counted)
         /\ numberOfPartners \in Nat /\ numberOfResponses \in Nat
<1>1. Cardinality(Receivers) \in Nat /\ Cardinality(Receivers) < 256
  BY Zenon, ReceiversAssumption, FS_CardinalityType
<1>2. Cardinality(Receivers) \in 0..255
  BY <1>1
<1>3. IsFiniteSet(net) /\ IsFiniteSet(counted) /\ TypeOK
  BY Zenon DEF Sane
<1>4. numberOfPartners \in Nat /\ numberOfResponses \in Nat
  BY <1>1, <1>3 DEF TypeOK
<1> QED
  BY Zenon, <1>2, <1>3, <1>4, FS_CardinalityType

\* A wait that ends on time leaves nothing underway and no token.
LEMMA WaitOver ==
  ASSUME Sane, Prompt, late = 0, late' = 0, WaitSignalled \/ WaitTimeout
  PROVE  Quiet /\ m_sem' = FALSE
<1>0. main = "wait" /\ Waiting /\ late \in Nat
  BY Zenon DEF WaitSignalled, WaitTimeout, Prompt, Sane, TypeOK
<1>1. CASE WaitSignalled
  <2>1. m_sem /\ m_sem' = FALSE
    BY Zenon, <1>1 DEF WaitSignalled
  <2>2. cb = "idle" /\ Counting = 0 /\ Cardinality(counted) = Cardinality(Receivers)
    BY Zenon, <1>0, <2>1 DEF Waiting, Counting
  <2>3. Cardinality(net) + Cardinality(counted) + Counting <= Cardinality(Receivers)
    BY Zenon, <1>0 DEF Waiting
  <2>4. Cardinality(net) = 0
    BY <2>2, <2>3, SizeFacts
  <2>5. net = {}
    BY Zenon, <2>4, SizeFacts, FS_EmptySet
  <2> QED
    BY Zenon, <2>1, <2>2, <2>5 DEF Quiet
<1>2. CASE WaitTimeout
  <2>1. LateUnless(Quiet /\ ~m_sem) /\ UNCHANGED m_sem
    BY Zenon, <1>2 DEF WaitTimeout
  <2>2. Quiet /\ ~m_sem
    BY Zenon, <1>0, <2>1, LateFacts
  <2>3. m_sem \in BOOLEAN
    BY Zenon DEF Sane, TypeOK
  <2> QED
    BY Zenon, <2>1, <2>2, <2>3
<1> QED
  BY Zenon, <1>1, <1>2

\* The steps of run while nothing is late.
LEMMA MainPrompt == ASSUME Sane, Sane', Prompt, late = 0, late' = 0, MainStep PROVE Prompt'
<1>0. TypeOK /\ late \in Nat
  BY Zenon DEF Sane, TypeOK
<1>1. CASE sendInitPacket
  <2>1. net = {} /\ cb = "idle" /\ main = "init" /\ main' = "partners"
    BY Zenon, <1>1 DEF sendInitPacket, Sane
  <2>2. net' = {Packet("init", r, NoSample) : r \in Receivers}
    BY Zenon, <1>1, <2>1 DEF sendInitPacket, Multicast
  <2>3. \A p \in net' : p.type = "init" /\ p = Packet("init", p.r, NoSample)
    BY <2>2, PacketFacts
  <2>4. Cardinality(net') = Cardinality(Receivers)
    BY <2>2, MulticastCardinality
  <2>5. /\ UNCHANGED <<cb, m_sem, counted>> /\ numberOfPartners' = 0
    BY Zenon, <1>1 DEF sendInitPacket, cbVars
  <2>6. Single'
    BY Zenon, <2>3 DEF Single
  <2>7. numberOfPartners' + Cardinality(net)' = Cardinality(Receivers)
    BY <2>4, <2>5, SizeFacts
  <2>8. Asking'
    BY Zenon, <2>1, <2>3, <2>5, <2>6, <2>7 DEF Asking, Prompt
  <2> QED
    BY Zenon, <2>1, <2>8 DEF Prompt
<1>2. CASE InitDone
  <2>1. /\ main = "partners" /\ main' = "clear" /\ LateUnless(Quiet)
        /\ UNCHANGED <<numberOfPartners, m_sem, net, cb>>
    BY Zenon, <1>2 DEF InitDone, countVars, cbVars
  <2>2. Quiet
    BY <1>0, <2>1, LateFacts
  <2>3. Cardinality(net) = 0
    BY Zenon, <2>2, FS_EmptySet DEF Quiet
  <2>4. ~m_sem /\ numberOfPartners + Cardinality(net) = Cardinality(Receivers)
    BY Zenon, <2>1 DEF Prompt, Asking
  <2>5. numberOfPartners = Cardinality(Receivers)
    BY <2>3, <2>4, SizeFacts
  <2> QED
    BY Zenon, <2>1, <2>2, <2>4, <2>5 DEF Prompt, Quiet
<1>3. CASE ClearTimes
  <2>1. main = "clear" /\ main' = "reset" /\ UNCHANGED <<numberOfPartners, m_sem, net, cb>>
    BY Zenon, <1>3 DEF ClearTimes, countVars, cbVars
  <2> QED
    BY Zenon, <2>1 DEF Prompt, Quiet
<1>4. CASE ResetResponses
  <2>1. /\ main = "reset" /\ main' = "time" /\ UNCHANGED <<numberOfPartners, m_sem, net, cb>>
        /\ counted' = {} /\ numberOfResponses' = 0
    BY Zenon, <1>4 DEF ResetResponses, cbVars
  <2> QED
    BY Zenon, <2>1 DEF Prompt, Quiet
<1>5. CASE start_time
  <2>1. /\ main = "time" /\ main' = "send" /\ m_time' = <<k, i>>
        /\ UNCHANGED <<k, i, numberOfPartners, numberOfResponses, counted, m_sem, net, cb>>
    BY Zenon, <1>5 DEF start_time, loopVars, countVars, cbVars
  <2> QED
    BY Zenon, <2>1 DEF Prompt, Quiet
<1>6. CASE buildAndSendPacket(i)
  <2>1. /\ main = "send" /\ main' = "wait" /\ currentId' = i
        /\ net' = net \cup {Packet("send", r, <<k, i>>) : r \in Receivers}
        /\ UNCHANGED <<k, i, numberOfPartners, numberOfResponses, counted, m_time, m_sem, cb>>
    BY Zenon, <1>6 DEF buildAndSendPacket, Multicast, loopVars, countVars, cbVars
  <2>2. /\ net = {} /\ cb = "idle" /\ ~m_sem /\ counted = {} /\ numberOfResponses = 0
        /\ m_time = <<k, i>> /\ numberOfPartners = Cardinality(Receivers)
    BY Zenon, <2>1 DEF Prompt, Quiet
  <2>3. net' = {Packet("send", r, <<k, i>>) : r \in Receivers}
    BY Zenon, <2>1, <2>2
  <2>4. \A p \in net' : p.type = "send" /\ p.id = i /\ p.sample = <<k, i>> /\ p = Packet("send", p.r, <<k, i>>)
    BY <2>3, PacketFacts
  <2>5. Cardinality(net') = Cardinality(Receivers)
    BY <2>3, MulticastCardinality
  <2>6. Single'
    BY Zenon, <2>4 DEF Single
  <2>7. Cardinality(counted) = 0 /\ Counting' = 0
    BY Zenon, <2>1, <2>2, FS_EmptySet DEF Counting
  <2>8. /\ Cardinality(net)' + Cardinality(counted)' + Counting' <= Cardinality(Receivers)
        /\ numberOfResponses' = Cardinality(counted)'
    BY <2>1, <2>2, <2>5, <2>7, SizeFacts
  <2>9. Waiting'
    BY Zenon, <2>1, <2>2, <2>4, <2>6, <2>8 DEF Waiting, OfSample
  <2> QED
    BY Zenon, <2>1, <2>2, <2>9 DEF Prompt
<1>7. CASE WaitSignalled \/ WaitTimeout
  <2>1. Quiet /\ m_sem' = FALSE
    BY Zenon, <1>7, WaitOver
  <2>2. /\ main = "wait" /\ NextSample /\ UNCHANGED <<numberOfPartners, net, cb>>
    BY Zenon, <1>7 DEF WaitSignalled, WaitTimeout, countVars, cbVars
  <2>3. main' \in {"clear", "reset", "done"}
    BY Zenon, <1>0, <2>2, NextSampleType
  <2> QED
    BY Zenon, <2>1, <2>2, <2>3 DEF Prompt, Quiet
<1> QED
  BY Zenon, <1>1, <1>2, <1>3, <1>4, <1>5, <1>6, <1>7 DEF MainStep

\* Packets are underway only while they are waited for.
LEMMA Underway ==
  ASSUME Sane, Prompt, net # {} \/ cb # "idle"
  PROVE  (main = "partners" /\ Asking) \/ (main = "wait" /\ Waiting)
<1>1. main \in {"init", "partners", "clear", "reset", "time", "send", "wait", "done"}
  BY Zenon DEF Sane, TypeOK
<1>2. main \notin {"clear", "reset", "time", "send", "done"}
  BY Zenon DEF Prompt, Quiet
<1>3. main # "init"
  BY Zenon DEF Sane
<1> QED
  BY Zenon, <1>1, <1>2, <1>3 DEF Prompt

\* A receiver answers, while nothing is late.
LEMMA AnswerPrompt ==
  ASSUME Sane, Sane', Prompt, NEW p \in net, sendResponse(p) PROVE Prompt'
<1> DEFINE q == [p EXCEPT !.type = ResponseType(p.type)]
<1>1. /\ p.type \in {"init", "send"} /\ net' = (net \ {p}) \cup {q}
      /\ UNCHANGED <<late, k, i, main, numberOfPartners, numberOfResponses, counted, currentId,
                     m_time, m_rtimes, m_sem, cb, mp>>
  BY Zenon DEF sendResponse, loopVars, countVars, cbVars
<1>2. p \in PacketSet
  BY Zenon DEF Sane, TypeOK, PacketSet
<1>3. q.type = ResponseType(p.type) /\ q.r = p.r /\ q.id = p.id /\ q.sample = p.sample
  BY <1>1, <1>2, AnswerFacts DEF ResponseType
<1> HIDE DEF q
<1>4. (main = "partners" /\ Asking) \/ (main = "wait" /\ Waiting)
  BY Zenon, Underway
<1>5. Single
  BY Zenon, <1>4 DEF Asking, Waiting
<1>6. q \notin net
  BY Zenon, <1>1, <1>3, <1>5 DEF Single, ResponseType
<1>7. Single'
  BY <1>1, <1>3, <1>5 DEF Single
<1>8. Cardinality(net') = Cardinality(net)
  BY Zenon, <1>1, <1>6, SizeFacts, ReplaceCardinality
<1>9. CASE main = "partners" /\ Asking
  <2>1. q.type = "partner"
    BY Zenon, <1>1, <1>3, <1>9 DEF Asking, ResponseType
  <2>2. Asking'
    BY Zenon, <1>1, <1>7, <1>8, <1>9, <2>1 DEF Asking
  <2> QED
    BY Zenon, <1>1, <1>9, <2>2 DEF Prompt
<1>10. CASE main = "wait" /\ Waiting
  <2>1. q.type = "response" /\ q.id = i /\ q.sample = <<k, i>>
    BY Zenon, <1>1, <1>3, <1>10 DEF Waiting, OfSample, ResponseType
  <2>2. \A x \in net' : x.type \in {"send", "response"} /\ OfSample(x)
    BY Zenon, <1>1, <1>10, <2>1 DEF Waiting, OfSample
  <2>3. \A x \in net', y \in counted : x.r # y.r
    BY Zenon, <1>1, <1>3, <1>10 DEF Waiting
  <2>4. cb = "count" => \A x \in net' \cup counted : x.r # mp.r
    BY Zenon, <1>1, <1>3, <1>10 DEF Waiting
  <2>5. Waiting'
    BY Zenon, <1>1, <1>7, <1>8, <1>10, <2>2, <2>3, <2>4 DEF Waiting, OfSample, Counting
  <2>6. numberOfPartners = Cardinality(Receivers)
    BY Zenon, <1>10 DEF Prompt
  <2> QED
    BY Zenon, <1>1, <1>10, <2>5, <2>6 DEF Prompt
<1> QED
  BY Zenon, <1>4, <1>9, <1>10

\* A packet that matters is lost on time only after the partners are known.
LEMMA LosePrompt ==
  ASSUME Sane, Sane', Prompt, late = 0, late' = 0, NEW p \in net, Lose(p) PROVE Prompt'
<1>1. /\ net' = net \ {p} /\ LateUnless(p.type \in {"send", "response"})
      /\ UNCHANGED <<k, i, main, numberOfPartners, numberOfResponses, counted, currentId,
                     m_time, m_rtimes, m_sem, cb, mp>>
  BY Zenon DEF Lose, countVars, cbVars
<1>2. p.type \in {"send", "response"}
  <2>1. late \in Nat
    BY Zenon DEF Sane, TypeOK
  <2> QED
    BY <1>1, <2>1, LateAssumption DEF LateUnless
<1>3. main = "wait" /\ Waiting
  BY Zenon, <1>2, Underway DEF Asking
<1>4. Cardinality(net') = Cardinality(net) - 1
  BY Zenon, <1>1, SizeFacts, FS_RemoveElement
<1>5. Cardinality(net') + Cardinality(counted) + Counting <= Cardinality(Receivers)
  <2>1. Counting \in Nat
    BY Zenon DEF Counting
  <2> QED
    BY <1>3, <1>4, <2>1, SizeFacts DEF Waiting
<1>6. Waiting'
  BY <1>1, <1>3, <1>5 DEF Waiting, OfSample, Counting, Single
<1>7. numberOfPartners = Cardinality(Receivers)
  BY Zenon, <1>3 DEF Prompt
<1> QED
  BY Zenon, <1>1, <1>3, <1>6, <1>7 DEF Prompt

\* responderCallback is called, while nothing is late.
LEMMA ReceivePrompt ==
  ASSUME Sane, Sane', Prompt, NEW p \in net, CallbackPartner(p) \/ CallbackResponse(p) PROVE Prompt'
<1>1. /\ cb = "idle" /\ net' = net \ {p}
      /\ UNCHANGED <<late, k, i, main, numberOfResponses, counted, currentId, m_time, m_rtimes, m_sem>>
  BY Zenon DEF CallbackPartner, CallbackResponse, loopVars, countVars
<1>2. Cardinality(net') = Cardinality(net) - 1
  BY Zenon, <1>1, SizeFacts, FS_RemoveElement
<1>3. (main = "partners" /\ Asking) \/ (main = "wait" /\ Waiting)
  BY Zenon, Underway
<1>4. CASE CallbackPartner(p)
  <2>1. /\ p.type = "partner" /\ numberOfPartners' = (numberOfPartners + 1) % 256
        /\ UNCHANGED <<cb, mp>>
    BY Zenon, <1>4 DEF CallbackPartner, cbVars
  <2>2. main = "partners" /\ Asking
    BY Zenon, <1>3, <2>1 DEF Waiting
  <2>3. numberOfPartners + Cardinality(net) = Cardinality(Receivers)
    BY Zenon, <2>2 DEF Asking
  <2>4. Cardinality(net) # 0
    BY Zenon, SizeFacts, FS_EmptySet
  <2>5. numberOfPartners + 1 <= 255
    BY <2>3, <2>4, SizeFacts
  <2>6. numberOfPartners' = numberOfPartners + 1
    BY <2>1, <2>5, SizeFacts
  <2>7. numberOfPartners' + Cardinality(net') = Cardinality(Receivers)
    BY <1>2, <2>3, <2>6, SizeFacts
  <2>8. Asking'
    BY Zenon, <1>1, <2>1, <2>2, <2>7 DEF Asking, Single
  <2> QED
    BY Zenon, <1>1, <2>2, <2>8 DEF Prompt
<1>5. CASE CallbackResponse(p)
  <2>1. p.type = "response" /\ UNCHANGED numberOfPartners
    BY Zenon, <1>5 DEF CallbackResponse, countVars
  <2>2. main = "wait" /\ Waiting
    BY Zenon, <1>3, <2>1 DEF Asking
  <2>3. OfSample(p) /\ currentId = i
    BY Zenon, <2>2 DEF Waiting
  <2>4. cb' = "count" /\ mp' = p
    BY Zenon, <1>5, <2>3 DEF CallbackResponse, OfSample
  <2>5. \A x \in net' \cup counted : x.r # p.r
    BY Zenon, <1>1, <2>2 DEF Waiting, Single
  <2>6. Cardinality(net') + Cardinality(counted) + Counting' <= Cardinality(Receivers)
    <3>1. Counting = 0 /\ Counting' = 1
      BY Zenon, <1>1, <2>4 DEF Counting
    <3>2. Cardinality(net) + Cardinality(counted) + Counting <= Cardinality(Receivers)
      BY Zenon, <2>2 DEF Waiting
    <3> QED
      BY <1>2, <3>1, <3>2, SizeFacts
  <2>7. Cardinality(counted) # Cardinality(Receivers)
    <3>1. Cardinality(net) # 0
      BY Zenon, SizeFacts, FS_EmptySet
    <3>2. Cardinality(net) + Cardinality(counted) + Counting <= Cardinality(Receivers) /\ Counting = 0
      BY Zenon, <1>1, <2>2 DEF Waiting, Counting
    <3> QED
      BY <3>1, <3>2, SizeFacts
  <2>8. ~m_sem
    BY Zenon, <2>2, <2>7 DEF Waiting
  <2>9. Waiting'
    BY Zenon, <1>1, <2>2, <2>3, <2>4, <2>5, <2>6, <2>8 DEF Waiting, OfSample, Single
  <2>10. numberOfPartners = Cardinality(Receivers)
    BY Zenon, <2>2 DEF Prompt
  <2> QED
    BY Zenon, <1>1, <2>1, <2>2, <2>9, <2>10 DEF Prompt
<1> QED
  BY Zenon, <1>4, <1>5

\* A response is counted, while nothing is late: once per receiver, and the last one is the
\* only one that completes the sample.
LEMMA CountPrompt ==
  ASSUME Sane, Sane', Prompt, CallbackCount
  PROVE  /\ Prompt' /\ main = "wait" /\ Waiting /\ ~m_sem
         /\ cb' = "signal" <=> m_rtimes' = Append(m_rtimes, m_time)
         /\ cb' # "signal" => m_rtimes' = m_rtimes
<1>1. /\ cb = "count" /\ mp' = NoPacket /\ counted' = counted \cup {mp}
      /\ numberOfResponses' = (numberOfResponses + 1) % 256
      /\ UNCHANGED <<late, k, i, main, numberOfPartners, currentId, m_time, m_sem, net>>
  BY Zenon DEF CallbackCount, loopVars
<1>2. IF numberOfResponses' = numberOfPartners
        THEN m_rtimes' = Append(m_rtimes, m_time) /\ cb' = "signal"
        ELSE cb' = "idle" /\ m_rtimes' = m_rtimes
  BY Zenon DEF CallbackCount
<1>3. main = "wait" /\ Waiting
  BY Zenon, <1>1, Underway DEF Asking
<1>4. mp \notin counted
  BY Zenon, <1>1, <1>3 DEF Waiting
<1>5. Cardinality(counted') = Cardinality(counted) + 1
  BY Zenon, <1>1, <1>4, SizeFacts, FS_AddElement
<1>6. Cardinality(net) + Cardinality(counted) + 1 <= Cardinality(Receivers)
  BY Zenon, <1>1, <1>3 DEF Waiting, Counting
<1>7. numberOfResponses' = Cardinality(counted')
  <2>1. numberOfResponses = Cardinality(counted) /\ Cardinality(counted) + 1 <= 255
    BY <1>3, <1>6, SizeFacts DEF Waiting
  <2> QED
    BY <1>1, <1>5, <2>1, SizeFacts
<1>8. ~m_sem
  BY <1>3, <1>6, SizeFacts DEF Waiting
<1>9. numberOfPartners = Cardinality(Receivers)
  BY Zenon, <1>3 DEF Prompt
<1>10. cb' = "signal" <=> Cardinality(counted') = Cardinality(Receivers)
  BY Zenon, <1>2, <1>7, <1>9
<1>11. Cardinality(net') + Cardinality(counted') + Counting' <= Cardinality(Receivers)
  <2>1. Counting' = 0
    BY Zenon, <1>2 DEF Counting
  <2> QED
    BY <1>1, <1>5, <1>6, <2>1, SizeFacts
<1>12. /\ \A p \in counted' : OfSample(p)
       /\ \A p \in net, q \in counted' : p.r # q.r
  BY Zenon, <1>1, <1>3 DEF Waiting
<1>13. cb' # "count"
  BY Zenon, <1>2
<1>14. Waiting'
  BY Zenon, <1>1, <1>3, <1>7, <1>8, <1>10, <1>11, <1>12, <1>13 DEF Waiting, OfSample, Single
<1>15. Prompt'
  BY Zenon, <1>1, <1>3, <1>9, <1>14 DEF Prompt
<1>16. m_rtimes' = Append(m_rtimes, m_time) => m_rtimes' # m_rtimes
  <2>1. m_rtimes \in Seq(Samples) /\ m_time \in Samples \cup {NoSample}
    BY Zenon DEF Sane, TypeOK
  <2>2. Len(Append(m_rtimes, m_time)) # Len(m_rtimes)
    BY <2>1
  <2> QED
    BY Zenon, <2>2
<1> QED
  BY Zenon, <1>2, <1>3, <1>8, <1>15, <1>16

\* responderCallback signals, while nothing is late.
LEMMA SignalPrompt ==
  ASSUME Sane, Sane', Prompt, CallbackSignal PROVE Prompt' /\ main = "wait" /\ Waiting
<1>1. /\ cb = "signal" /\ cb' = "idle" /\ m_sem' = TRUE
      /\ UNCHANGED <<late, k, i, main, numberOfPartners, numberOfResponses, counted, currentId,
                     m_time, m_rtimes, net, mp>>
  BY Zenon DEF CallbackSignal, loopVars, countVars
<1>2. main = "wait" /\ Waiting
  BY Zenon, <1>1, Underway DEF Asking
<1>3. Waiting'
  BY Zenon, <1>1, <1>2 DEF Waiting, OfSample, Single, Counting
<1>4. numberOfPartners = Cardinality(Receivers)
  BY Zenon, <1>2 DEF Prompt
<1> QED
  BY Zenon, <1>1, <1>2, <1>3, <1>4 DEF Prompt

\* A time is added once.
LEMMA AddedOnce ==
  ASSUME NEW B, NEW s \in Seq(B), NEW e \in B, IsInjective(s), \A n \in DOMAIN s : s[n] # e
  PROVE  /\ IsInjective(Append(s, e))
         /\ \A n \in DOMAIN Append(s, e) : Append(s, e)[n] = e \/ \E j \in DOMAIN s : Append(s, e)[n] = s[j]
<1>1. Append(s, e) \in Seq(B) /\ Len(Append(s, e)) = Len(s) + 1 /\ Len(s) \in Nat
  OBVIOUS
<1>2. /\ DOMAIN s = 1..Len(s) /\ DOMAIN Append(s, e) = 1..(Len(s) + 1)
      /\ \A n \in 1..Len(s) : Append(s, e)[n] = s[n]
      /\ Append(s, e)[Len(s) + 1] = e
  BY <1>1
<1>3. \A n \in 1..(Len(s) + 1) : n \in 1..Len(s) \/ n = Len(s) + 1
  BY <1>1
<1>4. IsInjective(Append(s, e))
  <2>1. \A a, b \in 1..(Len(s) + 1) : Append(s, e)[a] = Append(s, e)[b] => a = b
    BY Zenon, <1>2, <1>3 DEF IsInjective
  <2> QED
    BY Zenon, <1>2, <2>1 DEF IsInjective
<1>5. \A n \in DOMAIN Append(s, e) : Append(s, e)[n] = e \/ \E j \in DOMAIN s : Append(s, e)[n] = s[j]
  BY Zenon, <1>2, <1>3
<1> QED
  BY Zenon, <1>4, <1>5

\* The times, while nothing is late.
LEMMA TimesKept ==
  ASSUME Sane, Sane', Prompt, Times, late = 0, late' = 0, Next PROVE Times'
<1>0. TypeOK /\ m_rtimes \in Seq(Samples)
  BY Zenon DEF Sane, TypeOK
<1>1. CASE sendInitPacket \/ InitDone
  <2>1. UNCHANGED <<k, i, m_rtimes>> /\ main \in {"init", "partners"} /\ main' \in {"partners", "clear"}
    BY Zenon, <1>1 DEF sendInitPacket, InitDone, loopVars
  <2> QED
    BY Zenon, <2>1 DEF Times, OfRound
<1>2. CASE ClearTimes
  <2>1. m_rtimes' = <<>> /\ main' = "reset"
    BY Zenon, <1>2 DEF ClearTimes
  <2>2. DOMAIN m_rtimes' = {}
    BY <2>1
  <2> QED
    BY Zenon, <2>1, <2>2 DEF Times, OfRound, NotYet, IsInjective
<1>3. CASE ResetResponses \/ start_time \/ buildAndSendPacket(i)
  <2>1. /\ UNCHANGED <<k, i, m_rtimes>>
        /\ main \in {"reset", "time", "send"} /\ main' \in {"time", "send", "wait"}
    BY Zenon, <1>3 DEF ResetResponses, start_time, buildAndSendPacket, loopVars
  <2> QED
    BY Zenon, <2>1 DEF Times, OfRound, NotYet
<1>4. CASE WaitSignalled \/ WaitTimeout
  <2>1. main = "wait" /\ NextSample /\ UNCHANGED m_rtimes
    BY Zenon, <1>4 DEF WaitSignalled, WaitTimeout
  <2>2. OfRound /\ IsInjective(m_rtimes) /\ i \in Nat /\ k \in Nat
    BY <1>0, <2>1, RoundsAssumption DEF Times, TypeOK
  <2>3. CASE i' = i + 1 /\ main' = "reset" /\ UNCHANGED k
    BY <2>1, <2>2, <2>3 DEF Times, OfRound, NotYet
  <2>4. CASE main' = "clear"
    BY Zenon, <2>1, <2>2, <2>4 DEF Times
  <2>5. CASE main' = "done" /\ UNCHANGED <<k, i>>
    BY Zenon, <2>1, <2>2, <2>5 DEF Times, OfRound
  <2> QED
    BY Zenon, <2>1, <2>3, <2>4, <2>5 DEF NextSample
<1>5. ASSUME NEW p \in net, sendResponse(p) \/ Lose(p) PROVE Times'
  <2>1. UNCHANGED <<k, i, main, m_rtimes, m_sem, cb>>
    BY Zenon, <1>5 DEF sendResponse, Lose, loopVars, cbVars
  <2> QED
    BY Zenon, <2>1 DEF Times, OfRound, NotYet
<1>6. ASSUME NEW p \in net, CallbackPartner(p) \/ CallbackResponse(p) PROVE Times'
  <2>1. UNCHANGED <<k, i, main, m_rtimes, m_sem>> /\ cb = "idle"
    BY Zenon, <1>6 DEF CallbackPartner, CallbackResponse, loopVars
  <2> QED
    BY Zenon, <2>1 DEF Times, OfRound, NotYet
<1>7. CASE CallbackCount
  <2>1. /\ cb = "count" /\ UNCHANGED <<k, i, main, m_sem>>
        /\ main = "wait" /\ ~m_sem /\ m_time = <<k, i>>
        /\ cb' = "signal" => m_rtimes' = Append(m_rtimes, <<k, i>>)
        /\ cb' # "signal" => m_rtimes' = m_rtimes
    BY Zenon, <1>7, CountPrompt DEF CallbackCount, loopVars, Waiting
  <2>2. OfRound /\ NotYet /\ IsInjective(m_rtimes) /\ <<k, i>> \in Samples /\ i \in Nat
    BY <1>0, <2>1, SampleFacts DEF Times, TypeOK
  <2>3. CASE cb' = "signal"
    <3>1. /\ IsInjective(m_rtimes')
          /\ \A n \in DOMAIN m_rtimes' : m_rtimes'[n] = <<k, i>> \/ \E j \in DOMAIN m_rtimes : m_rtimes'[n] = m_rtimes[j]
      <4>1. m_rtimes' = Append(m_rtimes, <<k, i>>) /\ \A n \in DOMAIN m_rtimes : m_rtimes[n] # <<k, i>>
        BY Zenon, <2>1, <2>2, <2>3 DEF NotYet
      <4> HIDE DEF NotYet
      <4> QED
        BY <1>0, <2>2, <4>1, AddedOnce
    <3>2. <<k, i>> \in {k} \X (0..i)
      BY <2>2
    <3>3. OfRound'
      BY Zenon, <2>1, <2>2, <3>1, <3>2 DEF OfRound
    <3> QED
      BY Zenon, <2>1, <2>3, <3>1, <3>3 DEF Times
  <2>4. CASE cb' # "signal"
    BY Zenon, <2>1, <2>2, <2>4 DEF Times, OfRound, NotYet
  <2> QED
    BY Zenon, <2>3, <2>4
<1>8. CASE CallbackSignal
  <2>1. UNCHANGED <<k, i, main, m_rtimes>> /\ m_sem' = TRUE /\ main = "wait"
    BY Zenon, <1>8, SignalPrompt DEF CallbackSignal, loopVars
  <2> QED
    BY Zenon, <2>1 DEF Times, OfRound
<1> QED
  BY Zenon, <1>1, <1>2, <1>3, <1>4, <1>5, <1>6, <1>7, <1>8 DEF Next, MainStep, CallbackStep

\* Nothing becomes on time again that was late.
LEMMA LateStays == ASSUME Sane, Next, late' = 0 PROVE late = 0
<1>1. late \in Nat
  BY Zenon DEF Sane, TypeOK
<1>2. late' = late \/ late' = late + 1
  BY Zenon DEF Next, MainStep, CallbackStep, sendInitPacket, InitDone, ClearTimes, ResetResponses, start_time,
         buildAndSendPacket, WaitSignalled, WaitTimeout, sendResponse, Lose, CallbackPartner,
         CallbackResponse, CallbackCount, CallbackSignal, LateUnless, loopVars
<1> QED
  BY <1>1, <1>2

\* The inductive invariant of the measurement.
THEOREM MeasurementInvariant == Spec => []MInv
<1>1. Init => MInv
  <2> SUFFICES ASSUME Init PROVE MInv
    BY Zenon
  <2>1. TypeOK
    <3>1. Cardinality(Receivers) \in Nat
      BY Zenon, ReceiversAssumption, FS_CardinalityType
    <3>2. <<>> \in Seq(Samples)
      OBVIOUS
    <3>3. k \in 1..NUM_ROUNDS /\ i \in 0..(NUM_SAMPLES - 1) /\ currentId \in 0..(NUM_SAMPLES - 1)
      BY RoundsAssumption DEF Init
    <3>4. numberOfPartners \in 0..Cardinality(Receivers) /\ numberOfResponses \in 0..255 /\ late \in Nat
      BY <3>1 DEF Init
    <3>5. net = {} /\ counted = {} /\ mp = NoPacket /\ m_time = NoSample
      BY Zenon DEF Init
    <3> QED
      BY Zenon, <3>2, <3>3, <3>4, <3>5 DEF Init, TypeOK
  <2>2. Sane
    <3>1. Inits = {} /\ Cardinality({}) = 0 /\ IsFiniteSet({})
      BY Zenon, FS_EmptySet DEF Init, Inits
    <3>2. numberOfPartners + Cardinality(Inits) <= Cardinality(Receivers)
      BY <3>1, ReceiversAssumption, FS_CardinalityType DEF Init
    <3> QED
      BY Zenon, <2>1, <3>1, <3>2 DEF Init, Sane
  <2>3. Prompt
    BY Zenon DEF Init, Prompt
  <2>4. Times
    <3>1. DOMAIN m_rtimes = {}
      BY DEF Init
    <3> QED
      BY Zenon, <3>1 DEF Init, Times, OfRound, IsInjective
  <2> QED
    BY Zenon, <2>2, <2>3, <2>4 DEF MInv, OnTime
<1>2. MInv /\ [Next]_vars => MInv'
  <2> SUFFICES ASSUME MInv, [Next]_vars PROVE MInv'
    BY Zenon
  <2>1. CASE UNCHANGED vars
    <3>1. /\ late' = late /\ k' = k /\ i' = i /\ main' = main /\ m_sem' = m_sem /\ cb' = cb /\ mp' = mp
          /\ numberOfPartners' = numberOfPartners /\ numberOfResponses' = numberOfResponses
          /\ currentId' = currentId /\ m_time' = m_time /\ m_rtimes' = m_rtimes
          /\ net' = net /\ counted' = counted
      BY Zenon, <2>1 DEF vars
    <3>2. Sane'
      <4>1. TypeOK'
        BY Zenon, <3>1 DEF MInv, Sane, TypeOK
      <4>2. Inits' = Inits
        BY Zenon, <3>1 DEF Inits
      <4> QED
        BY Zenon, <3>1, <4>1, <4>2 DEF MInv, Sane
    <3>3. ASSUME Prompt PROVE Prompt'
      <4>1. Asking' = Asking /\ Quiet' = Quiet
        BY Zenon, <3>1 DEF Asking, Quiet, Single
      <4>2. Waiting' = Waiting
        BY Zenon, <3>1 DEF Waiting, Single, OfSample, Counting
      <4> QED
        BY Zenon, <3>1, <3>3, <4>1, <4>2 DEF Prompt
    <3>4. ASSUME Times PROVE Times'
      BY Zenon, <3>1, <3>4 DEF Times, OfRound, NotYet
    <3> QED
      BY Zenon, <3>1, <3>2, <3>3, <3>4 DEF MInv, OnTime
  <2>2. CASE Next
    <3>1. Sane /\ Sane'
      BY Zenon, <2>2, MainSane, AnswerSane, TakeSane, CountSane DEF MInv, Next, CallbackStep
    <3>2. ASSUME late' = 0 PROVE Prompt' /\ Times'
      <4>1. late = 0 /\ Prompt /\ Times
        BY Zenon, <2>2, <3>1, <3>2, LateStays DEF MInv, OnTime
      <4>2. Prompt'
        BY Zenon, <2>2, <3>1, <3>2, <4>1, MainPrompt, AnswerPrompt, LosePrompt, ReceivePrompt, CountPrompt, SignalPrompt
           DEF Next, CallbackStep
      <4>3. Times'
        BY Zenon, <2>2, <3>1, <3>2, <4>1, TimesKept
      <4> QED
        BY Zenon, <4>2, <4>3
    <3> QED
      BY Zenon, <3>1, <3>2 DEF MInv, OnTime
  <2> QED
    BY Zenon, <2>1, <2>2
<1> QED
  BY <1>1, <1>2, PTL DEF Spec

\* However many receivers, rounds and samples: while no response is late, responderCallback
\* signals a sample only when every partner has answered that very sample, and counts no
\* receiver twice.
THEOREM SampleCompleteCorrect == Spec => []SampleComplete
<1>1. MInv => SampleComplete
  <2> SUFFICES ASSUME MInv PROVE SampleComplete
    BY Zenon
  <2>1. Sane /\ TypeOK
    BY Zenon DEF MInv, Sane
  <2>2. ASSUME late = 0, cb = "signal"
        PROVE  Cardinality(counted) = numberOfPartners /\ \A p \in counted : p.sample = <<k, i>>
    <3>1. Prompt
      BY Zenon, <2>2 DEF MInv, OnTime
    <3>2. main = "wait" /\ Waiting
      BY Zenon, <2>1, <2>2, <3>1, Underway DEF Asking
    <3>3. numberOfPartners = Cardinality(Receivers)
      BY Zenon, <3>1, <3>2 DEF Prompt
    <3> QED
      BY Zenon, <2>2, <3>2, <3>3 DEF Waiting, OfSample
  <2> QED
    BY Zenon, <2>1, <2>2 DEF SampleComplete
<1>2. Spec => []MInv
  BY Zenon, MeasurementInvariant
<1> QED
  BY <1>1, <1>2, PTL

\* However many receivers, rounds and samples: while no response is late, no token is left
\* over for the next sample, and evaluate gets each time of its own round at most once.
THEOREM RoundTimesCorrect == Spec => []RoundTimes
<1>1. MInv => RoundTimes
  <2> SUFFICES ASSUME MInv, late = 0 PROVE RoundTimes
    BY Zenon DEF RoundTimes
  <2>1. Prompt /\ Times
    BY Zenon DEF MInv, OnTime
  <2> QED
    BY Zenon, <2>1 DEF RoundTimes, Prompt, Times, OfRound
<1>2. Spec => []MInv
  BY Zenon, MeasurementInvariant
<1> QED
  BY <1>1, <1>2, PTL
===============================================================================
