--------------------------- MODULE SioAcksProofs ---------------------------
(***************************************************************************)
(* Theorems about SioAcks, for any number of callers, ids and waiting      *)
(* packets.  SioCallbacksProofs carries them over to the callbacks.        *)
(***************************************************************************)
EXTENDS SioAcks, SequenceTheorems, TLAPS

-----------------------------------------------------------------------------
(* The vector of acks, and the packets *)

LEMMA Ids == Id \subseteq Nat \ {0} /\ \A n \in Nat : n # 0 /\ n <= MaxId <=> n \in Id
BY BoundAssumption DEF Id

\* What Vec::remove leaves.
LEMMA Removed ==
    ASSUME NEW s \in Seq(Id), NEW i \in 1..Len(s),
           NEW t, t = SubSeq(s, 1, i - 1) \o SubSeq(s, i + 1, Len(s))
    PROVE  /\ t \in Seq(Id) /\ Len(t) = Len(s) - 1
           /\ \A k \in 1..(Len(s) - 1) : t[k] = IF k < i THEN s[k] ELSE s[k + 1]
<1> DEFINE a == SubSeq(s, 1, i - 1)
           b == SubSeq(s, i + 1, Len(s))
<1>1. Len(s) \in Nat /\ i \in Nat /\ i >= 1 /\ i <= Len(s)
    OBVIOUS
<1>2. /\ a \in Seq(Id) /\ Len(a) = i - 1
      /\ \A k \in 1..(i - 1) : a[k] = s[k]
    BY <1>1
<1>3. /\ b \in Seq(Id) /\ Len(b) = Len(s) - i
      /\ \A k \in 1..(Len(s) - i) : b[k] = s[k + i]
    BY <1>1
<1> HIDE DEF a, b
<1>4. /\ a \o b \in Seq(Id) /\ Len(a \o b) = Len(s) - 1
      /\ \A k \in 1..(Len(s) - 1) : (a \o b)[k] = IF k <= i - 1 THEN a[k] ELSE b[k - (i - 1)]
  <2>1. /\ a \o b \in Seq(Id) /\ Len(a \o b) = Len(a) + Len(b)
        /\ \A k \in 1..(Len(a) + Len(b)) :
              (a \o b)[k] = IF k <= Len(a) THEN a[k] ELSE b[k - Len(a)]
      BY <1>2, <1>3, ConcatProperties
  <2>2. Len(a) + Len(b) = Len(s) - 1
      BY <1>1, <1>2, <1>3
  <2> QED BY <1>2, <2>1, <2>2
<1>5. t = a \o b
    BY DEF a, b
<1>6. ASSUME NEW k \in 1..(Len(s) - 1), k < i PROVE t[k] = s[k]
  <2>1. k <= i - 1 /\ k \in 1..(i - 1)
      BY <1>1, <1>6
  <2> QED BY <1>2, <1>4, <1>5, <2>1
<1>7. ASSUME NEW k \in 1..(Len(s) - 1), ~(k < i) PROVE t[k] = s[k + 1]
  <2>1. k - (i - 1) \in 1..(Len(s) - i) /\ (k - (i - 1)) + i = k + 1 /\ ~(k <= i - 1)
      BY <1>1, <1>7
  <2>2. t[k] = b[k - (i - 1)]
      BY <1>4, <1>5, <2>1
  <2> QED BY <1>3, <2>1, <2>2
<1> QED BY <1>4, <1>5, <1>6, <1>7

Distinct(s) == \A k, l \in DOMAIN s : s[k] = s[l] => k = l

LEMMA RemovedDistinct ==
    ASSUME NEW s \in Seq(Id), NEW i \in 1..Len(s), Distinct(s),
           NEW t \in Seq(Id), Len(t) = Len(s) - 1,
           \A k \in 1..(Len(s) - 1) : t[k] = IF k < i THEN s[k] ELSE s[k + 1]
    PROVE  Distinct(t) /\ Range(t) \subseteq Range(s) \ {s[i]}
<1>2. Len(s) \in Nat /\ DOMAIN s = 1..Len(s) /\ DOMAIN t = 1..(Len(s) - 1)
    OBVIOUS
<1> DEFINE old(k) == IF k < i THEN k ELSE k + 1
<1>3. \A k \in DOMAIN t : old(k) \in DOMAIN s /\ old(k) # i /\ t[k] = s[old(k)]
    BY <1>2
<1>4. \A k, l \in DOMAIN t : old(k) = old(l) => k = l
    BY <1>2
<1> HIDE DEF old
<1>5. Distinct(t)
    BY <1>3, <1>4 DEF Distinct
<1>6. Range(t) \subseteq Range(s) \ {s[i]}
    BY <1>2, <1>3 DEF Distinct, Range
<1> QED BY <1>5, <1>6

LEMMA Appended ==
    ASSUME NEW s \in Seq(Id), NEW x \in Id
    PROVE  /\ Range(Append(s, x)) = Range(s) \cup {x}
           /\ \A k \in DOMAIN s : k \in DOMAIN Append(s, x) /\ Append(s, x)[k] = s[k]
           /\ Distinct(s) /\ x \notin Range(s) => Distinct(Append(s, x))
<1>1. /\ DOMAIN s = 1..Len(s) /\ DOMAIN Append(s, x) = 1..(Len(s) + 1) /\ Len(s) \in Nat
      /\ Append(s, x)[Len(s) + 1] = x
      /\ \A k \in 1..Len(s) : Append(s, x)[k] = s[k]
    OBVIOUS
<1>2. \A k \in 1..(Len(s) + 1) : k \in 1..Len(s) \/ k = Len(s) + 1
    BY <1>1
<1>3. Range(Append(s, x)) = Range(s) \cup {x}
    BY <1>1, <1>2 DEF Range
<1>4. Distinct(s) /\ x \notin Range(s) => Distinct(Append(s, x))
    BY <1>1, <1>2 DEF Distinct, Range
<1> QED BY <1>1, <1>3, <1>4

\* The packet the poll task takes, and what it leaves.
LEMMA PolledType ==
    ASSUME TypeOK, inbox # <<>>
    PROVE  /\ Head(inbox) \in Acks \cup Others
           /\ Head(inbox) \in Acks => Head(inbox)[2] \in Id
           /\ Tail(inbox) \in Seq(Acks \cup Others) /\ Len(Tail(inbox)) <= MaxInbox
<1>1. Head(inbox) \in Acks \cup Others /\ Tail(inbox) \in Seq(Acks \cup Others)
    BY DEF TypeOK
<1>2. Len(Tail(inbox)) <= MaxInbox
    BY BoundAssumption DEF TypeOK
<1>3. Head(inbox) \in Acks => Head(inbox)[2] \in Id
    BY DEF Acks
<1> QED BY <1>1, <1>2, <1>3

LEMMA InitAckInv == Init => AckInv
<1> SUFFICES ASSUME Init PROVE AckInv
    OBVIOUS
<1> USE BoundAssumption, Ids DEF Init
<1>1. TypeOK
  <2>1. nextId \in 1..(MaxId + 1) /\ own \in [Caller -> 0..MaxId] /\ pid \in 0..MaxId
      OBVIOUS
  <2>2. Len(inbox) <= MaxInbox /\ called \in [Id -> Nat]
      OBVIOUS
  <2>3. acks \in Seq(Id) /\ inbox \in Seq(Acks \cup Others)
      BY EmptySeq
  <2> QED BY <2>1, <2>2, <2>3 DEF TypeOK
<1>2. OwnIds /\ DistinctAcks /\ LockedByCallback /\ RemovesItsAck
    BY DEF OwnIds, DistinctAcks, LockedByCallback, RemovesItsAck, Handling
<1>3. CalledIsHandled /\ CalledOnce
    BY DEF CalledIsHandled, CalledOnce
<1> QED BY <1>1, <1>2, <1>3 DEF AckInv

-----------------------------------------------------------------------------
(* One lemma per part of the invariant, one step per action *)

LEMMA TypeStep == TypeOK /\ OwnIds /\ RemovesItsAck /\ [Next]_vars => TypeOK'
<1> SUFFICES ASSUME TypeOK, OwnIds, RemovesItsAck, [Next]_vars PROVE TypeOK'
    OBVIOUS
<1> USE BoundAssumption, Ids DEF TypeOK, callers, polling
<1>1. ASSUME NEW c \in Caller, Generate(c) PROVE TypeOK'
    BY <1>1 DEF Generate
<1>2. ASSUME NEW c \in Caller, Push(c) PROVE TypeOK'
  <2>1. own[c] \in Id
      BY <1>2 DEF Push, OwnIds
  <2> QED BY <1>2, <2>1 DEF Push
<1>3. ASSUME NEW c \in Caller, Send(c) PROVE TypeOK'
  <2>1. own[c] \in Id
      BY <1>3 DEF Send, OwnIds
  <2>2. asked' \subseteq Id
      BY <1>3, <2>1 DEF Send
  <2> QED BY <1>3, <2>2 DEF Send
<1>4. ASSUME NEW i \in Id, PeerAcks(i) PROVE TypeOK'
  <2>1. <<"Ack", i>> \in Acks \cup Others
      BY DEF Acks
  <2> QED BY <1>4, <2>1 DEF PeerAcks
<1>5. ASSUME NEW p \in Sends \X {0}, PeerSends(p) PROVE TypeOK'
  <2>1. p \in Acks \cup Others
      BY SendsAssumption
  <2> QED BY <1>5, <2>1 DEF PeerSends
<1>6. ASSUME NEW i \in Id, Expire(i) PROVE TypeOK'
    BY <1>6 DEF Expire
<1>7. CASE EngineDown \/ PollFails \/ Disconnect
    BY <1>7 DEF EngineDown, PollFails, Disconnect
<1>8. CASE PollOther
  <2>1. connected' \in BOOLEAN
      BY <1>8 DEF PollOther
  <2> QED BY <1>8, <2>1, PolledType DEF PollOther, Polled
<1>9. CASE PollUnknown
    BY <1>9, PolledType DEF PollUnknown, Polled
<1>10. CASE PollAck
  <2>1. /\ Head(inbox)[2] \in Id
        /\ inbox' \in Seq(Acks \cup Others) /\ Len(inbox') <= MaxInbox
      BY <1>10, PolledType DEF PollAck, Polled
  <2>2. idx' \in 1..Len(acks)
      BY <1>10 DEF PollAck, IndexOf
  <2>6. idx' \in Nat
      BY <2>2
  <2>7. pid' \in 0..MaxId
      BY <1>10, <2>1 DEF PollAck, Id
  <2>3. called' \in [Id -> Nat]
      BY <1>10, <2>1 DEF PollAck
  <2>4. locked' \in BOOLEAN /\ poll' \in {"callback", "remove"}
      BY <1>10 DEF PollAck
  <2>5. UNCHANGED <<connected, engineUp, nextId, acks, expired, caller, own, asked>>
      BY <1>10 DEF PollAck
  <2> QED BY <2>1, <2>3, <2>4, <2>5, <2>6, <2>7
<1>11. CASE RemoveAck
  <2>1. idx \in 1..Len(acks)
      BY <1>11 DEF RemoveAck, RemovesItsAck, IndexOf, Handling
  <2>2. acks' \in Seq(Id)
      BY <1>11, <2>1, Removed DEF RemoveAck
  <2> QED BY <1>11, <2>2 DEF RemoveAck
<1>12. CASE CallbackReturns \/ CallbackNests
    BY <1>12 DEF CallbackReturns, CallbackNests
<1>13. CASE UNCHANGED vars
    BY <1>13 DEF vars
<1> QED BY <1>1, <1>2, <1>3, <1>4, <1>5, <1>6, <1>7, <1>8, <1>9, <1>10, <1>11, <1>12, <1>13
        DEF Next, EmitWithAck, Peer, PollAcks

\* Apart from emit_with_ack and the removal, nothing touches the ids and the vector.
Aside == UNCHANGED <<nextId, acks, caller, own>>

LEMMA AsideStep ==
    ASSUME [Next]_vars
    PROVE  \/ \E c \in Caller : Generate(c) \/ Push(c) \/ Send(c)
           \/ RemoveAck \/ Aside
<1> USE DEF Aside, callers
<1>1. CASE Peer
    BY <1>1 DEF Peer, PeerAcks, Expire, PeerSends, EngineDown
<1>2. CASE PollOther \/ PollUnknown \/ PollAck \/ PollFails
    BY <1>2 DEF PollOther, PollUnknown, PollAck, PollFails
<1>3. CASE CallbackReturns \/ CallbackNests \/ Disconnect
    BY <1>3 DEF CallbackReturns, CallbackNests, Disconnect
<1>4. CASE UNCHANGED vars
    BY <1>4 DEF vars
<1> QED BY <1>1, <1>2, <1>3, <1>4 DEF Next, EmitWithAck, PollAcks

\* The ack that is removed is the one that was found.
LEMMA RemoveAckLeaves ==
    ASSUME TypeOK, DistinctAcks, RemovesItsAck, RemoveAck
    PROVE  /\ Distinct(acks') /\ Range(acks') \subseteq Range(acks) \ {pid}
           /\ acks' \in Seq(Id)
<1>1. acks \in Seq(Id) /\ idx \in 1..Len(acks) /\ acks[idx] = pid
    BY DEF TypeOK, RemovesItsAck, RemoveAck, Handling, IndexOf
<1>2. Distinct(acks)
    BY DEF DistinctAcks, Distinct
<1>3. acks' = SubSeq(acks, 1, idx - 1) \o SubSeq(acks, idx + 1, Len(acks))
    BY DEF RemoveAck
<1>4. /\ acks' \in Seq(Id) /\ Len(acks') = Len(acks) - 1
      /\ \A k \in 1..(Len(acks) - 1) : acks'[k] = IF k < idx THEN acks[k] ELSE acks[k + 1]
    BY <1>1, <1>3, Removed
<1> QED BY <1>1, <1>2, <1>4, RemovedDistinct

LEMMA OwnIdsStep ==
    TypeOK /\ OwnIds /\ DistinctAcks /\ RemovesItsAck /\ [Next]_vars => OwnIds'
<1> SUFFICES ASSUME TypeOK, OwnIds, DistinctAcks, RemovesItsAck, [Next]_vars PROVE OwnIds'
    OBVIOUS
<1>1. ASSUME NEW c \in Caller, Generate(c) PROVE OwnIds'
  <2>1. nextId \notin Range(acks)
      BY DEF TypeOK, DistinctAcks, Range, Id
  <2> QED BY <1>1, <2>1, Ids DEF Generate, OwnIds, TypeOK
<1>2. ASSUME NEW c \in Caller, Push(c) PROVE OwnIds'
  <2>1. own[c] \in Id
      BY <1>2, Ids DEF Push, OwnIds, TypeOK
  <2>2. Range(acks') = Range(acks) \cup {own[c]}
      BY <1>2, <2>1, Appended DEF Push, TypeOK
  <2> QED BY <1>2, <2>1, <2>2, Ids DEF Push, OwnIds, TypeOK
<1>3. ASSUME NEW c \in Caller, Send(c) PROVE OwnIds'
    BY <1>3, BoundAssumption DEF Send, OwnIds, TypeOK
<1>4. CASE RemoveAck
    BY <1>4, RemoveAckLeaves DEF RemoveAck, OwnIds, callers
<1>5. CASE Aside
    BY <1>5 DEF Aside, OwnIds
<1> QED BY <1>1, <1>2, <1>3, <1>4, <1>5, AsideStep

LEMMA DistinctAcksStep ==
    TypeOK /\ OwnIds /\ DistinctAcks /\ RemovesItsAck /\ [Next]_vars => DistinctAcks'
<1> SUFFICES ASSUME TypeOK, OwnIds, DistinctAcks, RemovesItsAck, [Next]_vars
             PROVE  DistinctAcks'
    OBVIOUS
<1>0. Distinct(acks) /\ \A i \in Range(acks) : i < nextId
    BY DEF DistinctAcks, Distinct, Range
<1> SUFFICES Distinct(acks') /\ \A i \in Range(acks') : i < nextId'
    BY DEF DistinctAcks, Distinct, Range
<1>1. ASSUME NEW c \in Caller, Generate(c)
      PROVE  Distinct(acks') /\ \A i \in Range(acks') : i < nextId'
  <2>1. Range(acks) \subseteq Id /\ Id \subseteq Nat
      BY Ids DEF TypeOK, Range
  <2>2. nextId \in Nat /\ nextId' = nextId + 1 /\ acks' = acks
      BY <1>1, BoundAssumption DEF Generate, TypeOK
  <2>3. ASSUME NEW i \in Range(acks) PROVE i < nextId + 1
    <3>1. i < nextId /\ i \in Nat
        BY <1>0, <2>1, <2>3
    <3> QED BY <2>2, <3>1
  <2> QED BY <1>0, <2>2, <2>3
<1>2. ASSUME NEW c \in Caller, Push(c)
      PROVE  Distinct(acks') /\ \A i \in Range(acks') : i < nextId'
  <2>1. own[c] \in Id /\ own[c] \notin Range(acks) /\ own[c] < nextId
      BY <1>2, Ids DEF Push, OwnIds, TypeOK
  <2>2. Distinct(acks') /\ Range(acks') = Range(acks) \cup {own[c]}
      BY <1>0, <1>2, <2>1, Appended DEF Push, TypeOK
  <2> QED BY <1>0, <1>2, <2>1, <2>2 DEF Push
<1>3. ASSUME NEW c \in Caller, Send(c)
      PROVE  Distinct(acks') /\ \A i \in Range(acks') : i < nextId'
    BY <1>0, <1>3 DEF Send
<1>4. CASE RemoveAck
    BY <1>0, <1>4, RemoveAckLeaves DEF RemoveAck
<1>5. CASE Aside
    BY <1>0, <1>5 DEF Aside
<1> QED BY <1>1, <1>2, <1>3, <1>4, <1>5, AsideStep

LEMMA LockedByCallbackStep == TypeOK /\ LockedByCallback /\ [Next]_vars => LockedByCallback'
<1> SUFFICES ASSUME TypeOK, LockedByCallback, [Next]_vars PROVE LockedByCallback'
    OBVIOUS
<1> USE DEF LockedByCallback, callers, polling
<1>1. CASE UNCHANGED <<locked, poll>>
    BY <1>1
<1>2. ASSUME NEW c \in Caller, EmitWithAck(c) PROVE UNCHANGED <<locked, poll>>
    BY <1>2 DEF EmitWithAck, Generate, Push, Send
<1>3. CASE Peer \/ PollOther \/ PollUnknown \/ Disconnect
    BY <1>1, <1>3 DEF Peer, PeerAcks, Expire, PeerSends, EngineDown, PollOther, PollUnknown,
                      Disconnect
<1>4. CASE PollAck
    BY <1>4 DEF PollAck, Polled
<1>5. CASE RemoveAck \/ PollFails
    BY <1>5 DEF RemoveAck, PollFails
<1>6. CASE CallbackReturns \/ CallbackNests
    BY <1>6 DEF CallbackReturns, CallbackNests
<1>7. CASE UNCHANGED vars
    BY <1>7 DEF vars
<1> QED BY <1>1, <1>2, <1>3, <1>4, <1>5, <1>6, <1>7 DEF Next, PollAcks

LEMMA RemovesItsAckStep ==
    TypeOK /\ OwnIds /\ RemovesItsAck /\ [Next]_vars => RemovesItsAck'
<1> SUFFICES ASSUME TypeOK, OwnIds, RemovesItsAck, [Next]_vars PROVE RemovesItsAck'
    OBVIOUS
<1> USE DEF RemovesItsAck, Handling, IndexOf, callers, polling
<1>1. CASE UNCHANGED <<acks, poll, pid, idx>>
    BY <1>1
<1>2. ASSUME NEW c \in Caller, Generate(c) \/ Send(c) PROVE RemovesItsAck'
    BY <1>2 DEF Generate, Send
<1>3. ASSUME NEW c \in Caller, Push(c) PROVE RemovesItsAck'
  <2>1. own[c] \in Id
      BY <1>3, Ids DEF Push, OwnIds, TypeOK
  <2>2. \A k \in 1..Len(acks) : k \in 1..Len(acks') /\ acks'[k] = acks[k]
      BY <1>3, <2>1 DEF Push, TypeOK
  <2> QED BY <1>3, <2>2 DEF Push
<1>4. CASE Peer \/ PollOther \/ PollUnknown \/ Disconnect
    BY <1>1, <1>4 DEF Peer, PeerAcks, Expire, PeerSends, EngineDown, PollOther, PollUnknown,
                      Disconnect
<1>5. CASE PollAck
    BY <1>5 DEF PollAck
<1>6. CASE RemoveAck \/ PollFails
    BY <1>6 DEF RemoveAck, PollFails
<1>7. CASE CallbackReturns \/ CallbackNests
    BY <1>7 DEF CallbackReturns, CallbackNests
<1>8. CASE UNCHANGED vars
    BY <1>8 DEF vars
<1> QED BY <1>1, <1>2, <1>3, <1>4, <1>5, <1>6, <1>7, <1>8 DEF Next, EmitWithAck, PollAcks

LEMMA CalledIsHandledStep ==
    /\ TypeOK /\ OwnIds /\ DistinctAcks /\ RemovesItsAck /\ CalledIsHandled
    /\ [Next]_vars
    => CalledIsHandled'
<1> SUFFICES ASSUME TypeOK, OwnIds, DistinctAcks, RemovesItsAck, CalledIsHandled, [Next]_vars
             PROVE  CalledIsHandled'
    OBVIOUS
<1> USE DEF CalledIsHandled, Handling, callers, polling
<1>1. ASSUME NEW c \in Caller, Generate(c) PROVE CalledIsHandled'
  <2>1. nextId \in Nat /\ nextId' = nextId + 1 /\ Id \subseteq Nat
      BY <1>1, Ids, BoundAssumption DEF Generate, TypeOK
  <2>2. \A d \in Caller : caller'[d] = "push" =>
          (caller[d] = "push" /\ own'[d] = own[d]) \/ own'[d] = nextId
      BY <1>1 DEF Generate, TypeOK
  <2>3. UNCHANGED <<acks, poll, pid, called>>
      BY <1>1 DEF Generate
  <2> QED BY <2>1, <2>2, <2>3
<1>2. ASSUME NEW c \in Caller, Push(c) PROVE CalledIsHandled'
  <2>1. own[c] \in Id
      BY <1>2, Ids DEF Push, OwnIds, TypeOK
  <2>2. Range(acks') = Range(acks) \cup {own[c]}
      BY <1>2, <2>1, Appended DEF Push, TypeOK
  <2>3. \A d \in Caller : caller'[d] = "push" => caller[d] = "push"
      BY <1>2 DEF Push, TypeOK
  <2> QED BY <1>2, <2>2, <2>3 DEF Push
<1>3. ASSUME NEW c \in Caller, Send(c) PROVE CalledIsHandled'
  <2>1. \A d \in Caller : caller'[d] = "push" => caller[d] = "push" /\ own'[d] = own[d]
      BY <1>3 DEF Send, TypeOK
  <2>2. UNCHANGED <<nextId, acks, poll, pid, called>>
      BY <1>3 DEF Send
  <2> QED BY <2>1, <2>2
<1>4. CASE Peer \/ PollOther \/ PollUnknown \/ Disconnect
  <2>1. UNCHANGED <<nextId, caller, own, acks, poll, pid, called>>
      BY <1>4 DEF Peer, PeerAcks, Expire, PeerSends, EngineDown, PollOther, PollUnknown,
                  Disconnect
  <2> QED BY <2>1
<1>5. CASE PollAck
  <2> DEFINE i == Head(inbox)[2]
  <2>1. i \in Id /\ poll = "idle"
      BY <1>5, PolledType DEF PollAck, Polled
  <2>2. UNCHANGED <<nextId, caller, own, acks>> /\ pid' = i /\ poll' \in {"callback", "remove"}
      BY <1>5 DEF PollAck
  <2>3. \A j \in Id : j # i => called'[j] = called[j]
      BY <1>5, <2>1 DEF PollAck, TypeOK
  <2>4. i \in Range(acks)
      BY <1>5 DEF PollAck, IndexOf, Range, TypeOK
  <2>5. i < nextId /\ \A c \in Caller : caller[c] = "push" => own[c] # i
      BY <2>4 DEF DistinctAcks, OwnIds, Range
  <2> HIDE DEF i
  <2> QED BY <2>1, <2>2, <2>3, <2>5
<1>6. CASE RemoveAck
  <2>1. Range(acks') \subseteq Range(acks) \ {pid}
      BY <1>6, RemoveAckLeaves
  <2>2. UNCHANGED <<nextId, caller, own, called>>
      BY <1>6 DEF RemoveAck
  <2> QED BY <2>1, <2>2
<1>7. CASE PollFails \/ CallbackReturns \/ CallbackNests
  <2>1. UNCHANGED <<nextId, caller, own, acks, pid, called>> /\ (Handling => Handling')
      BY <1>7 DEF PollFails, CallbackReturns, CallbackNests
  <2> QED BY <2>1
<1>8. CASE UNCHANGED vars
    BY <1>8 DEF vars
<1> QED BY <1>1, <1>2, <1>3, <1>4, <1>5, <1>6, <1>7, <1>8 DEF Next, EmitWithAck, PollAcks

LEMMA CalledOnceStep ==
    TypeOK /\ CalledIsHandled /\ CalledOnce /\ [Next]_vars => CalledOnce'
<1> SUFFICES ASSUME TypeOK, CalledIsHandled, CalledOnce, [Next]_vars PROVE CalledOnce'
    OBVIOUS
<1>1. CASE PollAck
  <2> DEFINE i == Head(inbox)[2]
  <2>1. i \in Id /\ poll = "idle"
      BY <1>1, PolledType DEF PollAck, Polled
  <2>2. i \in Range(acks)
      BY <1>1 DEF PollAck, IndexOf, Range, TypeOK
  <2>3. called[i] = 0
      BY <2>1, <2>2 DEF CalledIsHandled, Handling, TypeOK
  <2>4. called' = called \/ called' = [called EXCEPT ![i] = @ + 1]
      BY <1>1 DEF PollAck
  <2> HIDE DEF i
  <2> QED BY <2>1, <2>3, <2>4 DEF CalledOnce, TypeOK
<1>2. CASE UNCHANGED called
    BY <1>2 DEF CalledOnce
<1>3. ASSUME NEW c \in Caller, EmitWithAck(c) PROVE UNCHANGED called
    BY <1>3 DEF EmitWithAck, Generate, Push, Send
<1>4. ASSUME Peer \/ PollOther \/ PollUnknown \/ Disconnect PROVE UNCHANGED called
    BY <1>4 DEF Peer, PeerAcks, Expire, PeerSends, EngineDown, PollOther, PollUnknown,
                Disconnect
<1>5. ASSUME PollFails \/ CallbackReturns \/ CallbackNests \/ RemoveAck PROVE UNCHANGED called
    BY <1>5 DEF PollFails, CallbackReturns, CallbackNests, RemoveAck
<1>6. ASSUME UNCHANGED vars PROVE UNCHANGED called
    BY <1>6 DEF vars
<1> QED BY <1>1, <1>2, <1>3, <1>4, <1>5, <1>6 DEF Next, PollAcks

LEMMA AckInvStep == AckInv /\ [Next]_vars => AckInv'
BY TypeStep, OwnIdsStep, DistinctAcksStep, LockedByCallbackStep, RemovesItsAckStep,
   CalledIsHandledStep, CalledOnceStep DEF AckInv

-----------------------------------------------------------------------------
(* The theorem *)

\* The inductive invariant holds whoever calls emit_with_ack, whatever the peer
\* acknowledges.
THEOREM AckInvariance == Spec => []AckInv
BY InitAckInv, AckInvStep, PTL DEF Spec
=============================================================================
