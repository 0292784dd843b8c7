-------------------------- MODULE RedisHoldsProofs --------------------------
(***************************************************************************)
(* What the two Lua scripts and the passing of time preserve, whoever      *)
(* calls them: the type of the keyspace and the agreement of the two keys  *)
(* of a hold, and with them the promises of the port.  SeatHoldStoreProofs *)
(* and BookingProofs cite these lemmas for every action that touches Redis.*)
(***************************************************************************)
EXTENDS RedisHolds, TLAPS

\* A keyspace of sessions of known users, with its index in order.
Sound(S) == KeysOK(S) /\ IndexMatchesSeats

LEMMA EmptyIsSound == ASSUME NEW S, EmptyKeyspace PROVE Sound(S)
BY DEF EmptyKeyspace, Sound, KeysOK, IndexMatchesSeats, HeldBy, Live, NoKey,
       SeatKeys, UserKeys

LEMMA LosingKeepsSound == ASSUME NEW S, LoseKeyspace PROVE Sound(S)'
BY DEF LoseKeyspace, Sound, KeysOK, IndexMatchesSeats, HeldBy, Live, NoKey,
       SeatKeys, UserKeys

\* A key is live when it has time left.
LEMMA LiveHasTime ==
  ASSUME NEW S, NEW k \in SeatEntries(S) \cup IndexEntries \cup {NoKey}
  PROVE  /\ Live(k) <=> k.ttl > 0
         /\ Live(k) => k.ttl \in 1..TTL
         /\ k.ttl \in 0..TTL
BY TTLAssumption DEF SeatEntries, IndexEntries, NoKey, Live

\* Ageing never makes a key, and takes one unit from each it leaves.
LEMMA AgedKey ==
  ASSUME NEW S, NEW k \in SeatEntries(S) \cup {NoKey}
  PROVE  /\ Aged(k) \in SeatEntries(S) \cup {NoKey}
         /\ Live(Aged(k)) <=> k.ttl > 1
         /\ Live(Aged(k)) => Live(k) /\ Aged(k).value = k.value
                                     /\ Aged(k).ttl = k.ttl - 1
BY TTLAssumption DEF SeatEntries, NoKey, Live, Aged

LEMMA AgedIndex ==
  ASSUME NEW k \in IndexEntries \cup {NoKey}
  PROVE  /\ Aged(k) \in IndexEntries \cup {NoKey}
         /\ Live(Aged(k)) <=> k.ttl > 1
         /\ Live(Aged(k)) => Live(k) /\ Aged(k).value = k.value
                                     /\ Aged(k).ttl = k.ttl - 1
BY TTLAssumption DEF IndexEntries, NoKey, Live, Aged

-----------------------------------------------------------------------------
LEMMA ExpiryKeepsSound ==
  ASSUME NEW S, Sound(S), Expiry
  PROVE  Sound(S)'
<1>1. KeysOK(S)'
  BY AgedKey, AgedIndex DEF Sound, KeysOK, Expiry
<1>2. IndexMatchesSeats'
  <2> SUFFICES ASSUME NEW m \in Movies, NEW s \in Seats, NEW u \in Users
               PROVE  /\ HeldBy(m, s, u)' =>
                           userHold'[<<m, u>>] =
                             [value |-> s, ttl |-> seatKey'[<<m, s>>].ttl]
                      /\ Live(userHold'[<<m, u>>])
                           /\ userHold'[<<m, u>>].value = s
                         => HeldBy(m, s, u)'
    BY DEF IndexMatchesSeats
  <2> DEFINE k == seatKey[<<m, s>>]
             i == userHold[<<m, u>>]
  <2>1. /\ <<m, s>> \in SeatKeys /\ <<m, u>> \in UserKeys
        /\ k \in SeatEntries(S) \cup {NoKey}
        /\ i \in IndexEntries \cup {NoKey}
        /\ seatKey'[<<m, s>>] = Aged(k)
        /\ userHold'[<<m, u>>] = Aged(i)
    BY DEF Sound, KeysOK, SeatKeys, UserKeys, Expiry
  <2>2. /\ HeldBy(m, s, u) => i = [value |-> s, ttl |-> k.ttl]
        /\ Live(i) /\ i.value = s => HeldBy(m, s, u)
    BY DEF Sound, IndexMatchesSeats
  <2>3. HeldBy(m, s, u) <=> Live(k) /\ k.value.user = u
    BY DEF HeldBy
  <2>4. HeldBy(m, s, u)' <=> Live(Aged(k)) /\ Aged(k).value.user = u
    BY <2>1 DEF HeldBy
  <2> HIDE DEF k, i
  <2>5. ASSUME Live(Aged(k)), Aged(k).value.user = u
        PROVE  Aged(i) = [value |-> s, ttl |-> Aged(k).ttl]
    <3>1. i = [value |-> s, ttl |-> k.ttl] /\ k.ttl > 1 /\ Aged(k).ttl = k.ttl - 1
      BY <2>1, <2>2, <2>3, <2>5, AgedKey
    <3>2. k.ttl \in Nat
      BY <2>1, LiveHasTime, TTLAssumption
    <3>3. QED
      BY <3>1, <3>2 DEF Aged
  <2>6. ASSUME Live(Aged(i)), Aged(i).value = s
        PROVE  Live(Aged(k)) /\ Aged(k).value.user = u
    <3>1. Live(i) /\ i.value = s /\ i.ttl > 1
      BY <2>1, <2>6, AgedIndex
    <3>2. Live(k) /\ k.value.user = u /\ i.ttl = k.ttl
      BY <3>1, <2>2, <2>3
    <3>3. QED
      BY <3>1, <3>2, <2>1, AgedKey
  <2>7. QED
    BY <2>1, <2>4, <2>5, <2>6
<1>3. QED
  BY <1>1, <1>2 DEF Sound

(***************************************************************************)
(* The user's other seat is the one the index names, so releasing that one *)
(* leaves the new seat as the user's only hold.                            *)
(***************************************************************************)
LEMMA HoldKeepsSound ==
  ASSUME NEW S, \A x \in S : x.user \in Users,
         Sound(S),
         NEW m \in Movies, NEW s \in Seats, NEW session \in S,
         HoldScript(m, s, session)
  PROVE  Sound(S)'
<1> DEFINE u == session.user
           P == PreviousSeatKeys(m, s, u)
<1>1. CASE ~SeatIsFree(m, s)
  BY <1>1 DEF HoldScript, redisVars, Sound, KeysOK, IndexMatchesSeats, HeldBy
<1>2. CASE SeatIsFree(m, s)
  <2>1. /\ seatKey' = [k \in SeatKeys |->
                         IF k = <<m, s>> THEN Written(session)
                         ELSE IF k \in P THEN NoKey ELSE seatKey[k]]
        /\ userHold' = [userHold EXCEPT ![<<m, u>>] = Written(s)]
    BY <1>2 DEF HoldScript
  <2>2. /\ <<m, s>> \in SeatKeys /\ <<m, u>> \in UserKeys /\ u \in Users
        /\ Written(session) \in SeatEntries(S) /\ Written(s) \in IndexEntries
        /\ TTL \in 1..TTL
    BY TTLAssumption DEF Written, SeatEntries, IndexEntries, SeatKeys, UserKeys
  <2>3. KeysOK(S)'
    BY <2>1, <2>2 DEF Sound, KeysOK
  <2>4. IndexMatchesSeats'
    <3> SUFFICES ASSUME NEW n \in Movies, NEW t \in Seats, NEW v \in Users
                 PROVE  /\ HeldBy(n, t, v)' =>
                             userHold'[<<n, v>>] =
                               [value |-> t, ttl |-> seatKey'[<<n, t>>].ttl]
                        /\ Live(userHold'[<<n, v>>])
                             /\ userHold'[<<n, v>>].value = t
                           => HeldBy(n, t, v)'
      BY DEF IndexMatchesSeats
    <3>1. /\ <<n, t>> \in SeatKeys /\ <<n, v>> \in UserKeys
          /\ HeldBy(n, t, v) =>
               userHold[<<n, v>>] = [value |-> t, ttl |-> seatKey[<<n, t>>].ttl]
          /\ Live(userHold[<<n, v>>]) /\ userHold[<<n, v>>].value = t
               => HeldBy(n, t, v)
      BY DEF Sound, IndexMatchesSeats, SeatKeys, UserKeys
    <3>2. userHold \in [UserKeys -> IndexEntries \cup {NoKey}]
      BY DEF Sound, KeysOK
    <3>3. CASE n = m /\ v = u
      <4>1. userHold'[<<n, v>>] = Written(s)
        BY <2>1, <2>2, <3>2, <3>3
      <4>2. CASE t = s
        BY <2>1, <2>2, <3>3, <4>1, <4>2, TTLAssumption
           DEF HeldBy, Live, Written, NoKey
      <4>3. CASE t # s
        <5>1. ~HeldBy(n, t, v)'
          <6>1. CASE HeldBy(m, t, u)
            <7>1. Live(userHold[<<m, u>>]) /\ userHold[<<m, u>>].value = t
              BY <3>1, <3>3, <6>1, <2>2, LiveHasTime
                 DEF Sound, KeysOK, HeldBy, Live, NoKey
            <7>2. <<m, t>> \in P /\ <<m, t>> # <<m, s>>
              BY <4>3, <6>1, <7>1 DEF PreviousSeatKeys
            <7>3. QED
              BY <2>1, <3>1, <3>3, <7>2 DEF HeldBy, Live
          <6>2. CASE ~HeldBy(m, t, u)
            BY <2>1, <3>1, <3>3, <4>3, <6>2 DEF HeldBy, Live
          <6>3. QED
            BY <6>1, <6>2
        <5>2. QED
          BY <4>1, <4>3, <5>1 DEF Written
      <4>4. QED
        BY <4>2, <4>3
    <3>4. CASE ~(n = m /\ v = u)
      <4>1. userHold'[<<n, v>>] = userHold[<<n, v>>]
        BY <2>1, <3>1, <3>2, <3>4
      <4>2. CASE <<n, t>> = <<m, s>>
        <5>1. ~HeldBy(n, t, v)' /\ ~HeldBy(n, t, v)
          BY <1>2, <2>1, <2>2, <3>4, <4>2
             DEF HeldBy, Live, Written, SeatIsFree
        <5>2. QED
          BY <3>1, <4>1, <5>1
      <4>3. CASE <<n, t>> \in P /\ <<n, t>> # <<m, s>>
        <5>1. n = m /\ HeldBy(m, t, u) /\ seatKey'[<<n, t>>] = NoKey
          BY <2>1, <3>1, <4>3 DEF PreviousSeatKeys
        <5>2. ~HeldBy(n, t, v)' /\ ~HeldBy(n, t, v)
          BY <3>4, <5>1 DEF HeldBy, Live
        <5>3. QED
          BY <3>1, <4>1, <5>2
      <4>4. CASE <<n, t>> \notin P /\ <<n, t>> # <<m, s>>
        <5>1. seatKey'[<<n, t>>] = seatKey[<<n, t>>]
          BY <2>1, <3>1, <4>4
        <5>2. QED
          BY <3>1, <4>1, <5>1 DEF HeldBy
      <4>5. QED
        BY <4>2, <4>3, <4>4
    <3>5. QED
      BY <3>3, <3>4
  <2>5. QED
    BY <2>3, <2>4 DEF Sound
<1>3. QED
  BY <1>1, <1>2

(***************************************************************************)
(* CONFIRM_SCRIPT deletes the user's index key unread: by the invariant it *)
(* names the seat just consumed and no other.                              *)
(***************************************************************************)
LEMMA ConfirmKeepsSound ==
  ASSUME NEW S, Sound(S),
         NEW m \in Movies, NEW s \in Seats, NEW u \in Users,
         ConfirmScript(m, s, u)
  PROVE  Sound(S)'
<1>1. CASE ConfirmStatus(m, s, u) # 2
  BY <1>1 DEF ConfirmScript, redisVars, Sound, KeysOK, IndexMatchesSeats, HeldBy
<1>2. CASE ConfirmStatus(m, s, u) = 2
  <2>1. /\ HeldBy(m, s, u)
        /\ seatKey' = [seatKey EXCEPT ![<<m, s>>] = NoKey]
        /\ userHold' = [userHold EXCEPT ![<<m, u>>] = NoKey]
    BY <1>2 DEF ConfirmScript, ConfirmStatus
  <2>2. /\ <<m, s>> \in SeatKeys /\ <<m, u>> \in UserKeys
        /\ seatKey \in [SeatKeys -> SeatEntries(S) \cup {NoKey}]
        /\ userHold \in [UserKeys -> IndexEntries \cup {NoKey}]
    BY DEF Sound, KeysOK, SeatKeys, UserKeys
  <2>3. KeysOK(S)'
    BY <2>1, <2>2 DEF KeysOK
  <2>4. IndexMatchesSeats'
    <3> SUFFICES ASSUME NEW n \in Movies, NEW t \in Seats, NEW v \in Users
                 PROVE  /\ HeldBy(n, t, v)' =>
                             userHold'[<<n, v>>] =
                               [value |-> t, ttl |-> seatKey'[<<n, t>>].ttl]
                        /\ Live(userHold'[<<n, v>>])
                             /\ userHold'[<<n, v>>].value = t
                           => HeldBy(n, t, v)'
      BY DEF IndexMatchesSeats
    <3>1. /\ <<n, t>> \in SeatKeys /\ <<n, v>> \in UserKeys
          /\ HeldBy(n, t, v) =>
               userHold[<<n, v>>] = [value |-> t, ttl |-> seatKey[<<n, t>>].ttl]
          /\ Live(userHold[<<n, v>>]) /\ userHold[<<n, v>>].value = t
               => HeldBy(n, t, v)
          /\ userHold[<<m, u>>] = [value |-> s, ttl |-> seatKey[<<m, s>>].ttl]
      BY <2>1 DEF Sound, IndexMatchesSeats, SeatKeys, UserKeys
    <3>2. CASE n = m /\ v = u
      <4>1. ~Live(userHold'[<<n, v>>])
        BY <2>1, <2>2, <3>2 DEF Live
      <4>2. ~HeldBy(n, t, v)'
        <5>1. CASE t = s
          BY <2>1, <2>2, <3>2, <5>1 DEF HeldBy, Live
        <5>2. CASE t # s
          <6>1. ~HeldBy(n, t, v)
            BY <3>1, <3>2, <5>2
          <6>2. seatKey'[<<n, t>>] = seatKey[<<n, t>>]
            BY <2>1, <2>2, <3>1, <5>2
          <6>3. QED
            BY <6>1, <6>2 DEF HeldBy
        <5>3. QED
          BY <5>1, <5>2
      <4>3. QED
        BY <4>1, <4>2
    <3>3. CASE ~(n = m /\ v = u)
      <4>1. userHold'[<<n, v>>] = userHold[<<n, v>>]
        BY <2>1, <2>2, <3>1, <3>3
      <4>2. CASE <<n, t>> = <<m, s>>
        BY <2>1, <2>2, <3>1, <3>3, <4>1, <4>2 DEF HeldBy, Live
      <4>3. CASE <<n, t>> # <<m, s>>
        BY <2>1, <2>2, <3>1, <4>1, <4>3 DEF HeldBy
      <4>4. QED
        BY <4>2, <4>3
    <3>4. QED
      BY <3>2, <3>3
  <2>5. QED
    BY <2>3, <2>4 DEF Sound
<1>3. QED
  BY <1>1, <1>2

-----------------------------------------------------------------------------
(***************************************************************************)
(* Whatever uses the store makes steps of these kinds, and none of them    *)
(* upsets the index.                                                       *)
(***************************************************************************)
StoreStep(S) ==
  \/ \E m \in Movies, s \in Seats, session \in S : HoldScript(m, s, session)
  \/ \E m \in Movies, s \in Seats, u \in Users : ConfirmScript(m, s, u)
  \/ Expiry
  \/ LoseKeyspace
  \/ UNCHANGED redisVars

LEMMA StepKeepsSound ==
  ASSUME NEW S, \A x \in S : x.user \in Users, Sound(S), StoreStep(S)
  PROVE  Sound(S)'
<1>1. CASE UNCHANGED redisVars
  BY <1>1 DEF redisVars, Sound, KeysOK, IndexMatchesSeats, HeldBy
<1>2. QED
  BY <1>1, HoldKeepsSound, ConfirmKeepsSound, ExpiryKeepsSound,
     LosingKeepsSound DEF StoreStep

\* A user never holds two seats of a movie: the index can name one of them.
LEMMA IndexNamesOneHold ==
  ASSUME IndexMatchesSeats
  PROVE  AtMostOneHoldPerUser
<1> SUFFICES ASSUME NEW m \in Movies, NEW u \in Users,
                    NEW s \in Seats, NEW t \in Seats,
                    HeldBy(m, s, u), HeldBy(m, t, u)
             PROVE  s = t
  BY DEF AtMostOneHoldPerUser
<1>1. /\ userHold[<<m, u>>] = [value |-> s, ttl |-> seatKey[<<m, s>>].ttl]
      /\ userHold[<<m, u>>] = [value |-> t, ttl |-> seatKey[<<m, t>>].ttl]
  BY DEF IndexMatchesSeats
<1>2. QED
  BY <1>1

\* No step hands a held seat over or prolongs a hold.
Kept(k) == Live(seatKey[k]) /\ Live(seatKey'[k]) =>
             /\ seatKey'[k].value.user = seatKey[k].value.user
             /\ seatKey'[k].ttl <= seatKey[k].ttl

LEMMA StepTakesNothingOver ==
  ASSUME NEW S, Sound(S), StoreStep(S)
  PROVE  [\A k \in SeatKeys : Kept(k)]_redisVars
<1> SUFFICES ASSUME NEW k \in SeatKeys PROVE Kept(k)
  BY DEF Kept
<1> USE DEF Kept
<1>1. seatKey[k] \in SeatEntries(S) \cup {NoKey}
  BY DEF Sound, KeysOK
<1>2. seatKey[k].ttl \in Nat
  BY <1>1, LiveHasTime, TTLAssumption
<1>3. CASE seatKey'[k] = seatKey[k]
  BY <1>2, <1>3
<1>4. ASSUME NEW m \in Movies, NEW s \in Seats, NEW session \in S,
             HoldScript(m, s, session)
      PROVE  Kept(k)
  <2>1. CASE SeatIsFree(m, s)
    <3>1. \/ k = <<m, s>> /\ ~Live(seatKey[k])
          \/ ~Live(seatKey'[k])
          \/ seatKey'[k] = seatKey[k]
      BY <1>4, <2>1 DEF HoldScript, SeatIsFree, Live
    <3>2. QED
      BY <3>1, <1>3
  <2>2. CASE ~SeatIsFree(m, s)
    BY <1>3, <1>4, <2>2 DEF HoldScript, redisVars
  <2>3. QED
    BY <2>1, <2>2
<1>5. ASSUME NEW m \in Movies, NEW s \in Seats, NEW u \in Users,
             ConfirmScript(m, s, u)
      PROVE  Kept(k)
  <2>1. ~Live(seatKey'[k]) \/ seatKey'[k] = seatKey[k]
    BY <1>5 DEF ConfirmScript, redisVars, Live, Sound, KeysOK
  <2>2. QED
    BY <2>1, <1>3
<1>6. CASE Expiry
  <2>1. seatKey'[k] = Aged(seatKey[k])
    BY <1>6 DEF Expiry
  <2>2. QED
    BY <2>1, <1>1, <1>2, AgedKey
<1>7. CASE LoseKeyspace
  BY <1>7 DEF LoseKeyspace, Live
<1>8. CASE UNCHANGED redisVars
  BY <1>8, <1>3 DEF redisVars
<1>9. QED
  BY <1>4, <1>5, <1>6, <1>7, <1>8 DEF StoreStep

-----------------------------------------------------------------------------
(***************************************************************************)
(* Refinement.  Each lemma maps one kind of step to the port's.            *)
(***************************************************************************)
LEMMA HoldsOfMember ==
  \A m \in Movies : \A h :
    h \in HoldsOf(m) <=>
      \E s \in Seats : Live(seatKey[<<m, s>>]) /\ h = HoldOf(s, seatKey[<<m, s>>])
BY DEF HoldsOf, SeatIsFree

LEMMA HoldsOfMemberNext ==
  \A m \in Movies : \A h :
    h \in HoldsOf(m)' <=>
      \E s \in Seats : Live(seatKey'[<<m, s>>]) /\ h = HoldOf(s, seatKey'[<<m, s>>])
BY DEF HoldsOf, SeatIsFree

(***************************************************************************)
(* Winning a seat replaces the user's previous hold and nobody else's: the *)
(* seat released is the user's only one.                                   *)
(***************************************************************************)
LEMMA HoldRefines ==
  ASSUME NEW S, Sound(S), NEW m \in Movies, NEW s \in Seats, NEW session \in S,
         NEW u \in Users, u = session.user,
         HoldScript(m, s, session), SeatIsFree(m, s)
  PROVE  Port!Acquire(m, s, u)
<1> DEFINE P == PreviousSeatKeys(m, s, u)
           new == [seat |-> s, user |-> u, left |-> TTL]
<1>1. seatKey' = [k \in SeatKeys |->
                    IF k = <<m, s>> THEN Written(session)
                    ELSE IF k \in P THEN NoKey ELSE seatKey[k]]
  BY DEF HoldScript
<1>2. ASSUME NEW h \in HoldsOf(m) PROVE h.seat # s
  <2>1. PICK t \in Seats :
          Live(seatKey[<<m, t>>]) /\ h = HoldOf(t, seatKey[<<m, t>>])
    BY HoldsOfMember
  <2>2. QED
    BY <2>1 DEF SeatIsFree, HoldOf
<1>3. \A n \in Movies, t \in Seats : <<n, t>> \in SeatKeys
  BY DEF SeatKeys
<1>4. seatKey'[<<m, s>>] = Written(session) /\ Live(seatKey'[<<m, s>>])
  BY <1>1, <1>3, TTLAssumption DEF Written, Live, NoKey
<1>5. ASSUME NEW t \in Seats, t # s
      PROVE  /\ HeldBy(m, t, u) => ~Live(seatKey'[<<m, t>>])
             /\ ~HeldBy(m, t, u) => seatKey'[<<m, t>>] = seatKey[<<m, t>>]
  <2>1. ASSUME HeldBy(m, t, u) PROVE <<m, t>> \in P
    <3>1. userHold[<<m, u>>] = [value |-> t, ttl |-> seatKey[<<m, t>>].ttl]
      BY <2>1 DEF Sound, IndexMatchesSeats
    <3>2. seatKey[<<m, t>>] \in SeatEntries(S) /\ seatKey[<<m, t>>].ttl > 0
      BY <1>3, <2>1, LiveHasTime DEF Sound, KeysOK, HeldBy, Live
    <3>3. Live(userHold[<<m, u>>]) /\ userHold[<<m, u>>].value = t
      BY <3>1, <3>2 DEF Live, NoKey
    <3>4. QED
      BY <1>5, <2>1, <3>3 DEF PreviousSeatKeys
  <2>2. ASSUME ~HeldBy(m, t, u) PROVE <<m, t>> \notin P
    BY <2>2 DEF PreviousSeatKeys
  <2>3. QED
    BY <1>1, <1>3, <1>5, <2>1, <2>2 DEF Live
<1>6. HoldsOf(m)' = {h \in HoldsOf(m) : h.user # u} \cup {new}
  <2>1. ASSUME NEW h, h \in HoldsOf(m)'
        PROVE  h \in {g \in HoldsOf(m) : g.user # u} \cup {new}
    <3>1. PICK t \in Seats :
            Live(seatKey'[<<m, t>>]) /\ h = HoldOf(t, seatKey'[<<m, t>>])
      BY <2>1, HoldsOfMemberNext
    <3>2. CASE t = s
      BY <3>1, <3>2, <1>4 DEF HoldOf, Written
    <3>3. CASE t # s
      <4>1. ~HeldBy(m, t, u) /\ seatKey'[<<m, t>>] = seatKey[<<m, t>>]
        BY <3>1, <3>3, <1>5
      <4>2. h \in HoldsOf(m)
        BY <3>1, <4>1, HoldsOfMember
      <4>3. h.user # u
        BY <3>1, <4>1 DEF HoldOf, HeldBy
      <4>4. QED
        BY <4>2, <4>3
    <3>4. QED
      BY <3>2, <3>3
  <2>2. ASSUME NEW h \in HoldsOf(m), h.user # u
        PROVE  h \in HoldsOf(m)'
    <3>1. PICK t \in Seats :
            Live(seatKey[<<m, t>>]) /\ h = HoldOf(t, seatKey[<<m, t>>])
      BY HoldsOfMember
    <3>2. t # s /\ ~HeldBy(m, t, u)
      BY <3>1, <2>2 DEF SeatIsFree, HeldBy, HoldOf
    <3>3. QED
      BY <3>1, <3>2, <1>5, HoldsOfMemberNext
  <2>3. new \in HoldsOf(m)'
    <3>1. new = HoldOf(s, seatKey'[<<m, s>>])
      BY <1>4 DEF HoldOf, Written
    <3>2. QED
      BY <3>1, <1>4, HoldsOfMemberNext
  <2>4. QED
    BY <2>1, <2>2, <2>3
<1>7. ASSUME NEW n \in Movies, n # m PROVE HoldsOf(n)' = HoldsOf(n)
  <2>1. \A t \in Seats : seatKey'[<<n, t>>] = seatKey[<<n, t>>]
    BY <1>1, <1>3, <1>7 DEF PreviousSeatKeys
  <2>2. QED
    BY <2>1 DEF HoldsOf, SeatIsFree
<1>8. QED
  BY <1>2, <1>6, <1>7 DEF Port!Acquire

\* A hold that is confirmed is consumed, and it alone.
LEMMA ConfirmRefines ==
  ASSUME NEW S, Sound(S), NEW m \in Movies, NEW s \in Seats, NEW u \in Users,
         ConfirmScript(m, s, u), ConfirmStatus(m, s, u) = 2
  PROVE  Port!Consume(m, s, u)
<1>1. HeldBy(m, s, u) /\ seatKey' = [seatKey EXCEPT ![<<m, s>>] = NoKey]
  BY DEF ConfirmScript, ConfirmStatus
<1>2. \E h \in HoldsOf(m) : h.seat = s /\ h.user = u
  <2> DEFINE h == HoldOf(s, seatKey[<<m, s>>])
  <2>1. h \in HoldsOf(m)
    BY <1>1, HoldsOfMember DEF HeldBy
  <2>2. h.seat = s /\ h.user = u
    BY <1>1 DEF HeldBy, HoldOf
  <2>3. QED
    BY <2>1, <2>2
<1>3. \A n \in Movies, t \in Seats :
        seatKey'[<<n, t>>] = IF n = m /\ t = s THEN NoKey ELSE seatKey[<<n, t>>]
  BY <1>1 DEF Sound, KeysOK, SeatKeys
<1>4. HoldsOf(m)' = {h \in HoldsOf(m) : h.seat # s}
  <2>1. ASSUME NEW h, h \in HoldsOf(m)' PROVE h \in HoldsOf(m) /\ h.seat # s
    <3>1. PICK t \in Seats :
            Live(seatKey'[<<m, t>>]) /\ h = HoldOf(t, seatKey'[<<m, t>>])
      BY <2>1, HoldsOfMemberNext
    <3>2. t # s /\ seatKey'[<<m, t>>] = seatKey[<<m, t>>]
      BY <3>1, <1>3 DEF Live
    <3>3. QED
      BY <3>1, <3>2, HoldsOfMember DEF HoldOf
  <2>2. ASSUME NEW h \in HoldsOf(m), h.seat # s PROVE h \in HoldsOf(m)'
    <3>1. PICK t \in Seats :
            Live(seatKey[<<m, t>>]) /\ h = HoldOf(t, seatKey[<<m, t>>])
      BY HoldsOfMember
    <3>2. t # s
      BY <3>1, <2>2 DEF HoldOf
    <3>3. QED
      BY <3>1, <3>2, <1>3, HoldsOfMemberNext
  <2>3. QED
    BY <2>1, <2>2
<1>5. ASSUME NEW n \in Movies, n # m PROVE HoldsOf(n)' = HoldsOf(n)
  BY <1>3, <1>5 DEF HoldsOf, SeatIsFree
<1>6. QED
  BY <1>2, <1>4, <1>5 DEF Port!Consume

\* Every hold loses one unit of time, and the one with none left goes.
LEMMA ExpiryRefines == ASSUME NEW S, Sound(S), Expiry PROVE Port!Lapse
<1> DEFINE Shorter(h) == [seat |-> h.seat, user |-> h.user, left |-> h.left - 1]
<1> SUFFICES ASSUME NEW m \in Movies
             PROVE  HoldsOf(m)' = {Shorter(h) : h \in {g \in HoldsOf(m) : g.left > 1}}
  BY DEF Port!Lapse
<1>1. ASSUME NEW t \in Seats
      PROVE  LET k == seatKey[<<m, t>>] IN
             /\ seatKey'[<<m, t>>] = Aged(k)
             /\ Live(Aged(k)) <=> k.ttl > 1
             /\ k.ttl > 1 => Live(k)
             /\ Live(Aged(k)) => HoldOf(t, Aged(k)) = Shorter(HoldOf(t, k))
  <2> DEFINE k == seatKey[<<m, t>>]
  <2>1. k \in SeatEntries(S) \cup {NoKey} /\ seatKey'[<<m, t>>] = Aged(k)
    BY DEF Sound, KeysOK, Expiry, SeatKeys
  <2> HIDE DEF k
  <2>2. /\ Live(Aged(k)) <=> k.ttl > 1
        /\ Live(Aged(k)) => Live(k) /\ Aged(k).value = k.value
                                    /\ Aged(k).ttl = k.ttl - 1
    BY <2>1, AgedKey
  <2>3. QED
    BY <2>1, <2>2 DEF k, HoldOf
<1>2. ASSUME NEW h, h \in HoldsOf(m)'
      PROVE  \E g \in HoldsOf(m) : g.left > 1 /\ h = Shorter(g)
  <2>1. PICK t \in Seats :
          Live(seatKey'[<<m, t>>]) /\ h = HoldOf(t, seatKey'[<<m, t>>])
    BY <1>2, HoldsOfMemberNext
  <2> DEFINE g == HoldOf(t, seatKey[<<m, t>>])
  <2>2. seatKey[<<m, t>>].ttl > 1 /\ Live(seatKey[<<m, t>>]) /\ h = Shorter(g)
    BY <2>1, <1>1
  <2>3. g \in HoldsOf(m) /\ g.left > 1
    BY <2>2, HoldsOfMember DEF HoldOf
  <2>4. QED
    BY <2>2, <2>3
<1>3. ASSUME NEW g \in HoldsOf(m), g.left > 1
      PROVE  Shorter(g) \in HoldsOf(m)'
  <2>1. PICK t \in Seats :
          Live(seatKey[<<m, t>>]) /\ g = HoldOf(t, seatKey[<<m, t>>])
    BY HoldsOfMember
  <2>2. seatKey[<<m, t>>].ttl > 1
    BY <2>1, <1>3 DEF HoldOf
  <2>3. Live(seatKey'[<<m, t>>]) /\ Shorter(g) = HoldOf(t, seatKey'[<<m, t>>])
    BY <2>1, <2>2, <1>1
  <2>4. QED
    BY <2>3, HoldsOfMemberNext
<1> HIDE DEF Shorter
<1>4. QED
  BY <1>2, <1>3

\* The port, as the store keeps it.
holdsNow == [m \in Movies |-> HoldsOf(m)]

LEMMA EmptyRefines == ASSUME EmptyKeyspace PROVE Port!Init
<1>1. \A m \in Movies : HoldsOf(m) = {}
  BY DEF EmptyKeyspace, HoldsOf, SeatIsFree, Live, SeatKeys
<1>2. QED
  BY <1>1 DEF Port!Init

LEMMA StepRefines ==
  ASSUME NEW S, \A x \in S : x.user \in Users, Sound(S), StoreStep(S)
  PROVE  [Port!Next]_holdsNow
<1>1. ASSUME UNCHANGED seatKey PROVE UNCHANGED holdsNow
  BY <1>1 DEF holdsNow, HoldsOf, SeatIsFree
<1>2. ASSUME NEW m \in Movies, NEW s \in Seats, NEW session \in S,
             HoldScript(m, s, session)
      PROVE  [Port!Next]_holdsNow
  <2>1. CASE SeatIsFree(m, s)
    BY <1>2, <2>1, HoldRefines DEF Port!Next
  <2>2. CASE ~SeatIsFree(m, s)
    <3>1. UNCHANGED seatKey
      BY <1>2, <2>2 DEF HoldScript, redisVars
    <3>2. QED
      BY <3>1, <1>1
  <2>3. QED
    BY <2>1, <2>2
<1>3. ASSUME NEW m \in Movies, NEW s \in Seats, NEW u \in Users,
             ConfirmScript(m, s, u)
      PROVE  [Port!Next]_holdsNow
  <2>1. CASE ConfirmStatus(m, s, u) = 2
    BY <1>3, <2>1, ConfirmRefines DEF Port!Next
  <2>2. CASE ConfirmStatus(m, s, u) # 2
    <3>1. UNCHANGED seatKey
      BY <1>3, <2>2 DEF ConfirmScript, redisVars
    <3>2. QED
      BY <3>1, <1>1
  <2>3. QED
    BY <2>1, <2>2
<1>4. CASE Expiry
  BY <1>4, ExpiryRefines DEF Port!Next
<1>5. CASE LoseKeyspace
  <2>1. \A m \in Movies : HoldsOf(m)' = {}
    BY <1>5 DEF LoseKeyspace, HoldsOf, SeatIsFree, Live, SeatKeys
  <2>2. QED
    BY <2>1 DEF Port!Next, Port!Vanish
<1>6. CASE UNCHANGED redisVars
  BY <1>6, <1>1 DEF redisVars
<1>7. QED
  BY <1>2, <1>3, <1>4, <1>5, <1>6 DEF StoreStep
=============================================================================
