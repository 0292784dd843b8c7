----------------------------- MODULE RedisHolds -----------------------------
(***************************************************************************)
(* The Redis keyspace of the seat-hold store and the two Lua scripts that  *)
(* change it (crates/store-adapter-redis/src/redis_store.rs).  Redis runs  *)
(* a script as one step, so each script is one operator over both kinds of *)
(* key; the modules that EXTEND this one decide who calls them and when.   *)
(*                                                                         *)
(*   seatKey[<<m, s>>]   the key "seat:m:s", whose value is a session      *)
(*   userHold[<<m, u>>]  the key "userhold:m:u", whose value is a seat     *)
(*                                                                         *)
(* A movie is its slug.  A session is a record with at least a user field; *)
(* its other fields are those the extending module needs.  Time passes in  *)
(* whole units through Expiry.                                             *)
(***************************************************************************)
EXTENDS Naturals

CONSTANTS
  Movies,      \* movie slugs
  Seats,       \* seat uuids
  Users,       \* user uuids (the principal's sub)
  TTL          \* hold_ttl_seconds, in units of time

VARIABLES seatKey, userHold

redisVars == <<seatKey, userHold>>

\* RedisSeatHoldStore::new refuses a TTL of zero.
ASSUME TTLAssumption == TTL \in Nat \ {0}

SeatKeys == Movies \X Seats
UserKeys == Movies \X Users

\* A key that does not exist has no time left and no value.
NoKey == [ttl |-> 0]
SeatEntries(Sessions) == [value : Sessions, ttl : 1..TTL]
IndexEntries == [value : Seats, ttl : 1..TTL]

KeysOK(Sessions) ==
  /\ seatKey \in [SeatKeys -> SeatEntries(Sessions) \cup {NoKey}]
  /\ userHold \in [UserKeys -> IndexEntries \cup {NoKey}]

\* SET key value EX ttl.  (Mutant: without EX.)
WrittenForGood(v) == [value |-> v, ttl |-> 0]

Written(v) == [value |-> v, ttl |-> TTL]

Live(k) == k # NoKey

HeldBy(m, s, u) == Live(seatKey[<<m, s>>]) /\ seatKey[<<m, s>>].value.user = u

-----------------------------------------------------------------------------
(***************************************************************************)
(* HOLD_SCRIPT.  SET NX fails on a live key, whoever owns it.  On success  *)
(* the seat the index names for this user is released, unless it is the    *)
(* new seat or its session belongs to someone else by now, and the index   *)
(* is rewritten with the same expiry as the seat key.                      *)
(***************************************************************************)
SeatIsFree(m, s) == ~Live(seatKey[<<m, s>>])

\* Mutant: the previous seat is not released.
PreviousSeatKeysNone(m, s, u) == {}

PreviousSeatKeys(m, s, u) ==
  {<<m, p>> : p \in {q \in Seats \ {s} :
                       /\ Live(userHold[<<m, u>>])
                       /\ userHold[<<m, u>>].value = q
                       /\ HeldBy(m, q, u)}}

\* Mutant: SET without NX.
HoldScriptOverwrites(m, s, session) ==
  /\ seatKey' = [seatKey EXCEPT ![<<m, s>>] = Written(session)]
  /\ userHold' = [userHold EXCEPT ![<<m, session.user>>] = Written(s)]

\* Mutant: the holder's own attempt renews both keys.
HoldScriptRenews(m, s, session) ==
  IF SeatIsFree(m, s) \/ HeldBy(m, s, session.user)
  THEN HoldScriptOverwrites(m, s, session)
  ELSE UNCHANGED redisVars

HoldScript(m, s, session) ==
  LET u == session.user IN
  IF SeatIsFree(m, s)
  THEN /\ seatKey' = [k \in SeatKeys |->
                        IF k = <<m, s>> THEN Written(session)
                        ELSE IF k \in PreviousSeatKeys(m, s, u) THEN NoKey
                        ELSE seatKey[k]]
       /\ userHold' = [userHold EXCEPT ![<<m, u>>] = Written(s)]
  ELSE UNCHANGED redisVars

(***************************************************************************)
(* CONFIRM_SCRIPT.  Status 0 (no session) and 1 (someone else's session)   *)
(* write nothing; status 2 consumes the seat key and, without looking at   *)
(* its value, the user's index key.                                        *)
(***************************************************************************)
\* Mutant: the session's owner is not compared.
ConfirmStatusAnyOwner(m, s, u) == IF SeatIsFree(m, s) THEN 0 ELSE 2

ConfirmStatus(m, s, u) ==
  IF SeatIsFree(m, s) THEN 0
  ELSE IF ~HeldBy(m, s, u) THEN 1 ELSE 2

\* Mutant: the index key is left to expire.
ConfirmScriptKeepsIndex(m, s, u) ==
  /\ UNCHANGED userHold
  /\ seatKey' = IF ConfirmStatus(m, s, u) = 2
                THEN [seatKey EXCEPT ![<<m, s>>] = NoKey] ELSE seatKey

\* Mutant: the seat key is read and left to expire.
ConfirmScriptPeeks(m, s, u) == UNCHANGED redisVars

ConfirmScript(m, s, u) ==
  IF ConfirmStatus(m, s, u) = 2
  THEN /\ seatKey' = [seatKey EXCEPT ![<<m, s>>] = NoKey]
       /\ userHold' = [userHold EXCEPT ![<<m, u>>] = NoKey]
  ELSE UNCHANGED redisVars

-----------------------------------------------------------------------------
(***************************************************************************)
(* What Redis does by itself: keys age and expire, and a restarted server  *)
(* comes back empty (the keys are a cache of live holds, kept nowhere      *)
(* else).                                                                  *)
(***************************************************************************)
Aged(k) == IF k.ttl <= 1 THEN NoKey ELSE [value |-> k.value, ttl |-> k.ttl - 1]

Expiry ==
  /\ seatKey' = [k \in SeatKeys |-> Aged(seatKey[k])]
  /\ userHold' = [k \in UserKeys |-> Aged(userHold[k])]

EmptyKeyspace ==
  /\ seatKey = [k \in SeatKeys |-> NoKey]
  /\ userHold = [k \in UserKeys |-> NoKey]

LoseKeyspace ==
  /\ seatKey' = [k \in SeatKeys |-> NoKey]
  /\ userHold' = [k \in UserKeys |-> NoKey]

-----------------------------------------------------------------------------
(***************************************************************************)
(* The two keys of a hold describe each other: a seat key owned by u and   *)
(* u's index key exist together, name each other and expire together.      *)
(* Every script relies on it: HOLD_SCRIPT finds the hold to replace        *)
(* through the index alone, and CONFIRM_SCRIPT deletes the index without   *)
(* reading it.                                                             *)
(***************************************************************************)
IndexMatchesSeats ==
  \A m \in Movies, s \in Seats, u \in Users :
    /\ HeldBy(m, s, u) =>
         userHold[<<m, u>>] = [value |-> s, ttl |-> seatKey[<<m, s>>].ttl]
    /\ Live(userHold[<<m, u>>]) /\ userHold[<<m, u>>].value = s =>
         HeldBy(m, s, u)

-----------------------------------------------------------------------------
(***************************************************************************)
(* The store implements what the port promises, whatever uses it: the live *)
(* seat keys of a movie are its holds.  That a new hold replaces the       *)
(* user's previous one, and only that one, is where the index has to be    *)
(* right.                                                                  *)
(***************************************************************************)
HoldOf(s, key) == [seat |-> s, user |-> key.value.user, left |-> key.ttl]

HoldsOf(m) ==
  {HoldOf(s, seatKey[<<m, s>>]) : s \in {t \in Seats : ~SeatIsFree(m, t)}}

Port == INSTANCE SeatHoldPort WITH holds <- [m \in Movies |-> HoldsOf(m)]

ImplementsPort == Port!Spec

(***************************************************************************)
(* For a movie and a user there is at most one active held seat            *)
(* (booking.rs:106), whatever the user's calls and their order.            *)
(***************************************************************************)
AtMostOneHoldPerUser ==
  \A m \in Movies, u \in Users, s, t \in Seats :
    HeldBy(m, s, u) /\ HeldBy(m, t, u) => s = t

(***************************************************************************)
(* No step hands a held seat to another user or gives a hold more time: a  *)
(* seat that changes owner was free in between (booking.rs:105), and the   *)
(* holder who asks for the seat again gains nothing.                       *)
(***************************************************************************)
NoTakeover ==
  [][\A k \in SeatKeys :
       Live(seatKey[k]) /\ Live(seatKey'[k]) =>
         /\ seatKey'[k].value.user = seatKey[k].value.user
         /\ seatKey'[k].ttl <= seatKey[k].ttl]_redisVars
=============================================================================
