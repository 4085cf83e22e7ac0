-------------------------- MODULE RateLimiterProofs --------------------------
(***************************************************************************)
(* Proofs about RateLimiter: type correctness with the bound on the table, *)
(* the bound on what a key may spend, that a refusal costs nothing, and    *)
(* that its Retry-After is long enough, for every number of keys and       *)
(* requests and every rate, burst, table size and idle time with           *)
(* Cap <= IdleFor.                                                         *)
(***************************************************************************)
EXTENDS RateLimiter, FiniteSetTheorems, TLAPS

\* The keys on which the holder of the mutex has a reservation, and what they
\* owe for it.
Reserved(k) ==
  /\ mutex # None
  /\ \E i \in 1 .. Len(req[mutex].keys) : i < req[mutex].at /\ req[mutex].keys[i] = k
Owed(k) == IF Reserved(k) THEN Cost ELSE 0

\* Where the requests are.
Places ==
  /\ \A r \in Requests : req[r].pc = "reserving" <=> mutex = r
  /\ \A r \in Requests : req[r].now <= clock
  /\ \A r \in Requests : req[r].pc # "idle" => req[r].keys \in KeyLists
  /\ \A r \in Requests : req[r].at \in 1 .. Len(req[r].keys) + 1
  /\ \A r \in Requests : req[r].pc # "reserving" => req[r].at = 1

\* A bucket is in debt by at most one token, only under a reservation, and
\* then its holder has seen the delay.
Debts ==
  \A k \in held :
    /\ seen[k] <= clock
    /\ credit[k] + Owed(k) >= 0
    /\ Reserved(k) => req[mutex].delay + credit[k] >= 0

\* What a key has spent and could spend is paid for by time and by grants.  An
\* evicted key could spend a whole burst.
Paid ==
  \A k \in Keys :
    IF k \in held
      THEN spent[k] + Owed(k) + credit[k] <= seen[k] + grant[k]
      ELSE spent[k] + Cap + (IF Reserved(k) /\ req[mutex].delay = 0 THEN Cost ELSE 0)
             <= clock + grant[k]

\* Apart from what the reservations owe, no key can spend less than it could
\* when the mutex was taken.
Whole ==
  mutex # None =>
    \A k \in Keys :
      /\ was[k] <= Cap
      /\ k \in held => was[k] <= credit[k] + Owed(k) + (clock - seen[k])

Inv == TypeOK /\ Places /\ Debts /\ Paid /\ Whole

-----------------------------------------------------------------------------
(* The operators. *)

LEMMA IntConstants ==
  /\ Cost \in Nat /\ Cost > 0
  /\ Cap \in Nat /\ Cap > 0
  /\ IdleFor \in Nat
  /\ MaxKeys \in Nat /\ MaxKeys > 0
  /\ Second \in Nat /\ Second > 0
  /\ MaxTime \in Nat
  /\ MaxSent \in Nat
  /\ Cost <= Cap
  /\ Cap <= IdleFor
  /\ None \notin Requests
  BY LimiterAssumption

\* What a bucket holds is a number of at most Cap, and not negative unless its
\* credit is.
LEMMA BalanceFacts ==
  ASSUME TypeOK, NEW k \in Keys, NEW t \in Nat
  PROVE  /\ Balance(k, t) \in Int
         /\ Balance(k, t) <= Cap
         /\ (k \in held => credit[k] >= 0) => Balance(k, t) >= 0
         /\ k \in held => Balance(k, t) <= credit[k] + Larger(0, t - seen[k])
         /\ k \notin held => Balance(k, t) = Cap
  BY IntConstants DEF Balance, TypeOK, Larger, Smaller

LEMMA CountedFacts ==
  ASSUME NEW q \in ReqType, NEW c \in Int
  PROVE  /\ Counted(q, c) \in ReqType
         /\ Counted(q, c).pc = q.pc
         /\ Counted(q, c).keys = q.keys
         /\ Counted(q, c).now = q.now
         /\ Counted(q, c).at = q.at + 1
         /\ Counted(q, c).delay = Larger(q.delay, -c)
  <1>1. Larger(q.delay, -c) \in Nat /\ q.at + 1 \in Nat
    BY DEF Larger, ReqType
  <1>2. Counted(q, c) = [q EXCEPT !.at = q.at + 1, !.delay = Larger(q.delay, -c)]
    BY DEF Counted
  <1> QED
    BY <1>1, <1>2 DEF ReqType

\* A bucket that is brought to the time t, earlier or later than its own: what
\* it then holds is paid for, and by the time cl it will hold what it would
\* have held.
LEMMA AdvanceArith ==
  ASSUME NEW cap \in Nat, NEW cr \in Nat, NEW t \in Nat, NEW sn \in Nat, NEW cl \in Nat,
         NEW sp \in Nat, NEW gr \in Nat, NEW w \in Int, NEW b \in Int,
         sn <= cl, t <= cl, sp + cr <= sn + gr, w <= cap, w <= cr + (cl - sn),
         b = Smaller(cap, cr + Larger(0, t - sn))
  PROVE  /\ b >= 0
         /\ sp + b <= t + (gr + Larger(0, sn - t))
         /\ w <= b + (cl - t)
  BY DEF Smaller, Larger

\* The numbers of the state.
LEMMA Numbers ==
  ASSUME TypeOK
  PROVE  /\ clock \in Nat
         /\ held \subseteq Keys
         /\ \A k \in Keys : seen[k] \in Nat
         /\ \A k \in Keys : credit[k] \in Int
         /\ \A k \in Keys : spent[k] \in Nat
         /\ \A k \in Keys : grant[k] \in Nat
         /\ \A k \in Keys : was[k] \in Int
         /\ \A r \in Requests : req[r].delay \in Nat
  <1>1. clock \in Nat /\ held \subseteq Keys
    BY IntConstants DEF TypeOK
  <1>2. \A k \in Keys : seen[k] \in Nat
    BY IntConstants DEF TypeOK
  <1>3. /\ \A k \in Keys : credit[k] \in Int
        /\ \A k \in Keys : spent[k] \in Nat
        /\ \A k \in Keys : grant[k] \in Nat
        /\ \A k \in Keys : was[k] \in Int
    BY DEF TypeOK
  <1>4. \A r \in Requests : req[r].delay \in Nat
    BY DEF TypeOK, ReqType
  <1> QED
    BY <1>1, <1>2, <1>3, <1>4

LEMMA RetryAfterType ==
  ASSUME NEW d \in Nat
  PROVE  Second * RetryAfter(d) \in Nat
  <1>1. (d + Second - 1) \div Second \in Int
    BY IntConstants
  <1>2. RetryAfter(d) \in Nat
    BY <1>1 DEF RetryAfter, Larger
  <1> QED
    BY <1>2, IntConstants

\* The keys of a request.
LEMMA KeysFacts ==
  ASSUME TypeOK, Places, NEW r \in Requests, mutex = r
  PROVE  /\ req[r].keys \in KeyLists
         /\ req[r].keys \in Seq(Keys)
         /\ Len(req[r].keys) \in Nat \ {0}
         /\ KeysOf(r) \subseteq Keys
         /\ \A i \in 1 .. Len(req[r].keys) : req[r].keys[i] \in Keys
         /\ \A i, j \in 1 .. Len(req[r].keys) : req[r].keys[i] = req[r].keys[j] => i = j
  <1>1. req[r].keys \in KeyLists
    BY DEF Places
  <1>2. req[r].keys \in Seq(Keys) /\ Len(req[r].keys) > 0
    BY <1>1, KeyListsAssumption
  <1>3. \A i \in 1 .. Len(req[r].keys) : req[r].keys[i] \in Keys
    BY <1>2
  <1> QED
    BY <1>1, <1>2, <1>3, KeyListsAssumption DEF KeysOf

\* When every key has been reserved, the reserved keys are the request's.
LEMMA AllReserved ==
  ASSUME TypeOK, Places, NEW r \in Requests, mutex = r, req[r].at > Len(req[r].keys), NEW k
  PROVE  Reserved(k) <=> k \in KeysOf(r)
  <1>1. req[r].at \in Nat /\ Len(req[r].keys) \in Nat
    BY KeysFacts DEF Places
  <1>2. \A i \in 1 .. Len(req[r].keys) : i < req[r].at
    BY <1>1
  <1> QED
    BY <1>2, IntConstants DEF Reserved, KeysOf

\* The key that is reserved next is one that is not reserved yet.
LEMMA NextKey ==
  ASSUME TypeOK, Places, NEW r \in Requests, mutex = r, req[r].at <= Len(req[r].keys)
  PROVE  /\ req[r].at \in 1 .. Len(req[r].keys)
         /\ req[r].keys[req[r].at] \in Keys
         /\ ~Reserved(req[r].keys[req[r].at])
  <1>1. Len(req[r].keys) \in Nat
    BY KeysFacts
  <1>2. req[r].at \in 1 .. Len(req[r].keys) + 1
    BY DEF Places
  <1>3. req[r].at \in 1 .. Len(req[r].keys)
    BY <1>1, <1>2
  <1>4. \A i \in 1 .. Len(req[r].keys) :
          i < req[r].at => req[r].keys[i] # req[r].keys[req[r].at]
    BY <1>1, <1>3, KeysFacts
  <1> QED
    BY <1>3, <1>4, KeysFacts DEF Reserved
-----------------------------------------------------------------------------
(* Types. *)

LEMMA SmallTable ==
  ASSUME TypeOK, NEW k \in Keys, NEW S \in SUBSET Keys,
         \/ S \subseteq held
         \/ k \in held /\ S = held \cup {k}
         \/ ~Full /\ S = held \cup {k}
         \/ k \notin held /\ \E o \in held : S = (held \ {o}) \cup {k}
  PROVE  Cardinality(S) <= MaxKeys
  <1>0. /\ IsFiniteSet(held)
        /\ Cardinality(held) \in Nat
        /\ Cardinality(held) <= MaxKeys
    BY FS_Subset, FS_CardinalityType, LimiterAssumption DEF TypeOK
  <1>1. CASE S \subseteq held
    BY <1>1, <1>0, FS_Subset, FS_CardinalityType, IntConstants
  <1>2. CASE k \in held /\ S = held \cup {k}
    <2>1. S = held
      BY <1>2
    <2> QED
      BY <2>1, <1>0
  <1>3. CASE k \notin held /\ ~Full /\ S = held \cup {k}
    <2>1. Cardinality(S) = Cardinality(held) + 1
      BY <1>3, <1>0, FS_AddElement
    <2> QED
      BY <2>1, <1>3, <1>0, IntConstants DEF Full
  <1>4. CASE k \notin held /\ \E o \in held : S = (held \ {o}) \cup {k}
    <2>1. PICK o \in held : S = (held \ {o}) \cup {k}
      BY <1>4
    <2>2. /\ IsFiniteSet(held \ {o})
          /\ Cardinality(held \ {o}) = Cardinality(held) - 1
      BY <1>0, FS_RemoveElement
    <2>3. Cardinality(S) = Cardinality(held \ {o}) + 1
      BY <2>1, <2>2, <1>4, FS_AddElement
    <2> QED
      BY <2>2, <2>3, <1>0
  <1> QED
    BY <1>1, <1>2, <1>3, <1>4

LEMMA TypeReserve ==
  ASSUME TypeOK, Places, NEW r \in Requests, mutex = r,
         req[r].at <= Len(req[r].keys), NEW gone \in SUBSET held,
         Reserve(r, req[r].keys[req[r].at], gone),
         Cardinality((held \ gone) \cup {req[r].keys[req[r].at]}) <= MaxKeys
  PROVE  TypeOK'
  <1> DEFINE k == req[r].keys[req[r].at]
             t == req[r].now
             c == Balance(k, t) - Cost
  <1>1. k \in Keys /\ t \in Nat /\ t <= clock /\ t <= MaxTime
    <2>1. t \in Nat /\ t <= clock /\ clock \in 0 .. MaxTime
      BY DEF Places, TypeOK, ReqType
    <2> QED
      BY <2>1, NextKey, IntConstants
  <1> HIDE DEF k, t
  <1>2. c \in Int
    BY <1>1, BalanceFacts, IntConstants
  <1>4. Regained(k, t) \in Nat
    BY <1>1, IntConstants DEF Regained, Larger, TypeOK
  <1> HIDE DEF c
  <1>5. /\ held' = (held \ gone) \cup {k}
        /\ seen' = [j \in Keys |-> IF j = k THEN t ELSE IF j \in gone THEN 0 ELSE seen[j]]
        /\ credit' = [j \in Keys |-> IF j = k THEN c ELSE IF j \in gone THEN 0 ELSE credit[j]]
        /\ req' = [req EXCEPT ![r] = Counted(req[r], c)]
        /\ grant' = [j \in Keys |-> grant[j] + (IF j = k THEN Regained(k, t) ELSE 0)
                                            + (IF j \in gone THEN Cap ELSE 0)]
        /\ UNCHANGED <<clock, mutex, sent, spent, was, promise>>
    BY DEF Reserve, k, t, c
  <1>6. held' \subseteq Keys /\ Cardinality(held') <= MaxKeys
    BY <1>5, <1>1 DEF TypeOK, k
  <1>7. seen' \in [Keys -> 0 .. MaxTime] /\ credit' \in [Keys -> Int]
    BY <1>5, <1>1, <1>2, IntConstants DEF TypeOK
  <1>8. req' \in [Requests -> ReqType]
    <2>1. req[r] \in ReqType
      BY DEF TypeOK
    <2>2. Counted(req[r], c) \in ReqType
      BY <2>1, <1>2, CountedFacts
    <2> QED
      BY <1>5, <2>2 DEF TypeOK
  <1>9. grant' \in [Keys -> Nat]
    <2> DEFINE a(j) == IF j = k THEN Regained(k, t) ELSE 0
               b(j) == IF j \in gone THEN Cap ELSE 0
    <2>1. \A j \in Keys : a(j) \in Nat /\ b(j) \in Nat
      BY <1>4, IntConstants
    <2>2. grant' = [j \in Keys |-> grant[j] + a(j) + b(j)]
      BY <1>5
    <2> HIDE DEF a, b
    <2>3. \A j \in Keys : grant[j] \in Nat /\ grant[j] + a(j) + b(j) \in Nat
      BY <2>1 DEF TypeOK
    <2> QED
      BY <2>2, <2>3
  <1> QED
    BY <1>5, <1>6, <1>7, <1>8, <1>9 DEF TypeOK

\* ReserveKey is Reserve with the evicted key, if any.
LEMMA ReserveKeyCases ==
  ASSUME TypeOK, Places, NEW r \in Requests, ReserveKey(r)
  PROVE  \E gone \in SUBSET held :
           /\ Reserve(r, req[r].keys[req[r].at], gone)
           /\ req[r].keys[req[r].at] \notin gone
           /\ Cardinality((held \ gone) \cup {req[r].keys[req[r].at]}) <= MaxKeys
  <1> DEFINE k == req[r].keys[req[r].at]
  <1>1. mutex = r /\ req[r].at <= Len(req[r].keys) /\ k \in Keys
    BY NextKey DEF ReserveKey
  <1>2. CASE k \in held \/ ~Full
    <2>1. Reserve(r, k, {})
      BY <1>2 DEF ReserveKey
    <2>2. Cardinality((held \ {}) \cup {k}) <= MaxKeys
      <3>1. (held \ {}) \cup {k} = held \cup {k} /\ held \cup {k} \in SUBSET Keys
        BY <1>1 DEF TypeOK
      <3> QED
        BY <3>1, <1>1, <1>2, SmallTable
    <2> WITNESS {} \in SUBSET held
    <2> QED
      BY <2>1, <2>2
  <1>3. CASE ~(k \in held \/ ~Full)
    <2>1. PICK o \in Oldest : Reserve(r, k, {o})
      BY <1>3 DEF ReserveKey
    <2>2. o \in held /\ o # k
      BY <1>3 DEF Oldest
    <2>3. Cardinality((held \ {o}) \cup {k}) <= MaxKeys
      <3>1. (held \ {o}) \cup {k} \in SUBSET Keys
        BY <1>1 DEF TypeOK
      <3> QED
        BY <3>1, <1>1, <1>3, <2>2, SmallTable
    <2>4. {o} \in SUBSET held
      BY <2>2
    <2> WITNESS {o} \in SUBSET held
    <2> QED
      BY <2>1, <2>2, <2>3
  <1> QED
    BY <1>2, <1>3

LEMMA TypeStep ==
  ASSUME TypeOK, Places, [Next]_vars
  PROVE  TypeOK'
  <1>1. CASE Tick
    BY <1>1, IntConstants DEF Tick, TypeOK, table, ghosts
  <1>2. ASSUME NEW r \in Requests, NEW ks \in KeyLists, Arrive(r, ks)
        PROVE  TypeOK'
    <2>1. [pc |-> "arrived", keys |-> ks, now |-> clock, at |-> 1, delay |-> 0] \in ReqType
      <3>1. clock \in Nat /\ ks \in KeyLists \cup {<<>>}
        BY IntConstants DEF TypeOK
      <3> QED
        BY <3>1 DEF ReqType
    <2>2. req' \in [Requests -> ReqType] /\ sent' \in 0 .. MaxSent
      BY <1>2, <2>1, IntConstants DEF Arrive, TypeOK
    <2> QED
      BY <1>2, <2>2 DEF Arrive, TypeOK, table, ghosts
  <1>3. ASSUME NEW r \in Requests, Enter(r)
        PROVE  TypeOK'
    <2>1. held' \subseteq held /\ held' \subseteq Keys
      BY <1>3 DEF Enter, TypeOK
    <2>2. Cardinality(held') <= MaxKeys
      <3>1. IsFiniteSet(held) /\ Cardinality(held) \in Nat /\ Cardinality(held) <= MaxKeys
        BY FS_Subset, FS_CardinalityType, LimiterAssumption DEF TypeOK
      <3>2. Cardinality(held') \in Nat /\ Cardinality(held') <= Cardinality(held)
        BY <2>1, <3>1, FS_Subset, FS_CardinalityType
      <3> QED
        BY <3>1, <3>2, IntConstants
    <2>3. req' \in [Requests -> ReqType]
      BY ZenonT(60), <1>3 DEF Enter, TypeOK, ReqType
    <2>4. seen' \in [Keys -> 0 .. MaxTime] /\ credit' \in [Keys -> Int]
      BY <1>3, IntConstants DEF Enter, TypeOK
    <2>5. was' \in [Keys -> Int]
      <3>1. clock \in Nat
        BY IntConstants DEF TypeOK
      <3> QED
        BY <1>3, <3>1, BalanceFacts DEF Enter
    <2> QED
      BY <1>3, <2>1, <2>2, <2>3, <2>4, <2>5 DEF Enter, TypeOK
  <1>4. ASSUME NEW r \in Requests, ReserveKey(r)
        PROVE  TypeOK'
    <2>1. PICK gone \in SUBSET held :
            /\ Reserve(r, req[r].keys[req[r].at], gone)
            /\ Cardinality((held \ gone) \cup {req[r].keys[req[r].at]}) <= MaxKeys
      BY <1>4, ReserveKeyCases
    <2> QED
      BY <1>4, <2>1, TypeReserve DEF ReserveKey
  <1>5. ASSUME NEW r \in Requests, Leave(r)
        PROVE  /\ mutex' \in Requests \cup {None}
               /\ req' \in [Requests -> ReqType]
               /\ was' \in [Keys -> Int]
    <2>1. Idle \in ReqType
      BY DEF Idle, ReqType
    <2> QED
      BY <1>5, <2>1, IntConstants DEF Leave, TypeOK
  <1>6. ASSUME NEW r \in Requests, Admit(r)
        PROVE  TypeOK'
    <2>1. Leave(r)
      BY <1>6 DEF Admit
    <2>2. spent' \in [Keys -> Nat]
      BY <1>6, IntConstants DEF Admit, TypeOK
    <2>3. promise' \in [Requests -> [keys : SUBSET Keys, by : Nat]]
      <3>1. NoPromise \in [keys : SUBSET Keys, by : Nat]
        BY DEF NoPromise
      <3> QED
        BY <3>1, <1>6 DEF Admit, TypeOK
    <2> QED
      BY <1>5, <1>6, <2>1, <2>2, <2>3 DEF Admit, TypeOK, table
  <1>7. ASSUME NEW r \in Requests, Refuse(r)
        PROVE  TypeOK'
    <2>1. Leave(r) /\ mutex = r
      BY <1>7 DEF Refuse, Leave
    <2>2. credit' \in [Keys -> Int]
      BY <1>7, IntConstants DEF Refuse, Restored, TypeOK
    <2>3. promise' \in [Requests -> [keys : SUBSET Keys, by : Nat]]
      <3>1. clock + Second * RetryAfter(req[r].delay) \in Nat
        <4>1. req[r].delay \in Nat /\ clock \in Nat
          BY IntConstants DEF TypeOK, ReqType
        <4>2. Second * RetryAfter(req[r].delay) \in Nat
          BY <4>1, RetryAfterType
        <4> QED
          BY <4>1, <4>2
      <3>2. KeysOf(r) \in SUBSET Keys
        BY <2>1, KeysFacts
      <3> QED
        BY <3>1, <3>2, <1>7 DEF Refuse, TypeOK
    <2> QED
      BY <1>5, <1>7, <2>1, <2>2, <2>3 DEF Refuse, TypeOK
  <1>8. CASE UNCHANGED vars
    BY <1>8 DEF vars, TypeOK, table, ghosts
  <1> QED
    BY <1>1, <1>2, <1>3, <1>4, <1>6, <1>7, <1>8 DEF Next
-----------------------------------------------------------------------------
(* The steps, one lemma for each action that moves money or reservations. *)

\* Steps that keep the mutex and its holder's record keep the reservations.
LEMMA SameReserved ==
  ASSUME mutex' = mutex, mutex # None => req'[mutex] = req[mutex], NEW k
  PROVE  /\ Reserved(k)' <=> Reserved(k)
         /\ Owed(k)' = Owed(k)
  BY DEF Reserved, Owed

LEMMA TickStep ==
  ASSUME Inv, TypeOK', Tick
  PROVE  Inv'
  <1>1. /\ clock \in Nat /\ clock' = clock + 1
        /\ mutex = None /\ mutex' = None
        /\ UNCHANGED <<held, seen, credit, req, sent, spent, grant, was, promise>>
    BY IntConstants DEF Tick, table, ghosts, Inv, TypeOK
  <1>2. \A k : ~Reserved(k) /\ ~Reserved(k)' /\ Owed(k) = 0 /\ Owed(k)' = 0
    BY <1>1 DEF Reserved, Owed
  <1>3. Places'
    <2>1. \A r \in Requests : req[r].now \in Nat
      BY DEF Inv, TypeOK, ReqType
    <2> QED
      BY <1>1, <2>1 DEF Inv, Places
  <1>4. Debts'
    BY <1>1, <1>2, IntConstants DEF Inv, Debts, TypeOK
  <1>5. Paid'
    BY <1>1, <1>2, IntConstants DEF Inv, Paid, TypeOK
  <1>6. Whole'
    BY <1>1 DEF Whole
  <1> QED
    BY <1>3, <1>4, <1>5, <1>6 DEF Inv

LEMMA ArriveStep ==
  ASSUME Inv, TypeOK', NEW r \in Requests, NEW ks \in KeyLists, Arrive(r, ks)
  PROVE  Inv'
  <1>1. /\ req[r].pc = "idle"
        /\ req' = [req EXCEPT ![r] = [pc |-> "arrived", keys |-> ks, now |-> clock,
                                      at |-> 1, delay |-> 0]]
        /\ UNCHANGED <<clock, held, seen, credit, mutex, spent, grant, was, promise>>
    BY DEF Arrive, table, ghosts
  <1>2. mutex # r /\ (mutex # None => req'[mutex] = req[mutex])
    BY <1>1 DEF Inv, Places, TypeOK
  <1>3. \A k : (Reserved(k)' <=> Reserved(k)) /\ Owed(k)' = Owed(k)
    BY <1>1, <1>2, SameReserved
  <1>4. Places'
    <2>1. Len(ks) \in Nat /\ clock \in Nat
      BY KeyListsAssumption, IntConstants DEF Inv, TypeOK
    <2>2. /\ req'[r].pc = "arrived"
          /\ req'[r].keys = ks
          /\ req'[r].now = clock
          /\ req'[r].at = 1
      BY <1>1 DEF Inv, TypeOK
    <2>3. \A q \in Requests \ {r} : req'[q] = req[q]
      BY <1>1 DEF Inv, TypeOK
    <2> QED
      BY <1>1, <1>2, <2>1, <2>2, <2>3 DEF Inv, Places
  <1>5. Debts' /\ Paid' /\ Whole'
    BY <1>1, <1>2, <1>3 DEF Inv, Debts, Paid, Whole
  <1> QED
    BY <1>4, <1>5 DEF Inv

LEMMA EnterStep ==
  ASSUME Inv, TypeOK', NEW r \in Requests, Enter(r)
  PROVE  Inv'
  <1> DEFINE t == req[r].now
  <1>1. /\ mutex = None /\ mutex' = r /\ r # None
        /\ req[r].pc = "arrived"
        /\ held' = {k \in held : ~IdleSince(k, t)}
        /\ \A k \in held' : seen'[k] = seen[k] /\ credit'[k] = credit[k]
        /\ \A k \in Keys : was'[k] = Balance(k, clock)
        /\ UNCHANGED <<clock, spent, grant>>
    BY IntConstants DEF Enter, Inv, TypeOK
  <1>2. t \in Nat /\ t <= clock /\ clock \in Nat
    BY IntConstants DEF Inv, TypeOK, ReqType, Places
  <1>3. /\ req'[r].pc = "reserving"
        /\ req'[r].keys = req[r].keys
        /\ req'[r].now = req[r].now
        /\ req'[r].at = req[r].at
        /\ req'[r].delay = req[r].delay
        /\ \A q \in Requests \ {r} : req'[q] = req[q]
    BY DEF Enter, Inv, TypeOK, ReqType
  <1>4. Places'
    <2>1. \A q \in Requests : req[q].pc # "reserving"
      BY <1>1, IntConstants DEF Inv, Places
    <2>2. \A q \in Requests :
            /\ req'[q].pc = "reserving" <=> mutex' = q
            /\ req'[q].now = req[q].now
            /\ req'[q].keys = req[q].keys
            /\ req'[q].at = req[q].at
            /\ req'[q].pc # "idle" => req[q].pc # "idle"
      BY <1>1, <1>3, <2>1
    <2> QED
      BY <1>1, <2>1, <2>2 DEF Inv, Places
  <1>5. \A k : ~Reserved(k) /\ Owed(k) = 0
    BY <1>1 DEF Reserved, Owed
  <1>6. \A k : ~Reserved(k)' /\ Owed(k)' = 0
    <2>1. req'[mutex'].at = 1
      BY <1>1, <1>3 DEF Inv, Places
    <2>2. \A i \in 1 .. Len(req'[mutex'].keys) : ~(i < 1)
      OBVIOUS
    <2> QED
      BY <2>1, <2>2 DEF Reserved, Owed
  <1>7. Debts'
    BY <1>1, <1>5, <1>6 DEF Inv, Debts
  <1>8. Paid'
    <2>1. ASSUME NEW k \in held, IdleSince(k, t)
          PROVE  spent[k] + Cap <= clock + grant[k]
      <3>1. spent[k] + credit[k] <= seen[k] + grant[k] /\ credit[k] >= 0
        BY <1>5, IntConstants DEF Inv, Paid, Debts, TypeOK
      <3>2. seen[k] < t - IdleFor
        BY <2>1 DEF IdleSince
      <3> QED
        BY <3>1, <3>2, <1>2, IntConstants DEF Inv, TypeOK
    <2> HIDE DEF t
    <2>2. \A k \in Keys \ held : spent[k] + Cap <= clock + grant[k]
      BY SMTT(30), <1>5, IntConstants DEF Inv, Paid, TypeOK
    <2>3. \A k \in held : spent[k] + credit[k] <= seen[k] + grant[k]
      BY <1>5, IntConstants DEF Inv, Paid, TypeOK
    <2>4. ASSUME NEW k \in Keys
          PROVE  IF k \in held'
                   THEN spent'[k] + Owed(k)' + credit'[k] <= seen'[k] + grant'[k]
                   ELSE spent'[k] + Cap + (IF Reserved(k)' /\ req'[mutex'].delay = 0 THEN Cost ELSE 0)
                          <= clock' + grant'[k]
      BY <2>1, <2>2, <2>3, <1>1, <1>2, <1>6, IntConstants DEF Inv, TypeOK
    <2> QED
      BY <2>4 DEF Paid
  <1>9. Whole'
    <2>1. \A k \in Keys : Balance(k, clock) <= Cap
      BY <1>2, BalanceFacts DEF Inv
    <2>2. \A k \in held : Balance(k, clock) <= credit[k] + (clock - seen[k])
      BY <1>2, IntConstants DEF Balance, Larger, Smaller, Inv, Debts, TypeOK
    <2>3. held' \subseteq held /\ held \subseteq Keys
      BY <1>1 DEF Inv, TypeOK
    <2> QED
      BY <2>1, <2>2, <2>3, <1>1, <1>2, <1>6 DEF Whole, Inv, TypeOK
  <1> QED
    BY <1>4, <1>7, <1>8, <1>9 DEF Inv

\* What ReserveKey changes, key by key: it evicts the keys of gone, if any, and
\* leaves the bucket of k with the time t and the credit c.
Reservation(r, gone, k, t, c) ==
  /\ k \notin gone /\ ~Reserved(k) /\ t <= clock
  /\ mutex = r /\ mutex' = r /\ r # None
  /\ req'[r].pc = "reserving" /\ req'[r].keys = req[r].keys /\ req'[r].now = req[r].now
  /\ req'[r].at = req[r].at + 1 /\ req[r].at \in 1 .. Len(req[r].keys)
  /\ req'[r].delay = Larger(req[r].delay, -c)
  /\ \A q \in Requests \ {r} : req'[q] = req[q]
  /\ c = Balance(k, t) - Cost
  /\ held' = (held \ gone) \cup {k}
  /\ seen'[k] = t /\ credit'[k] = c /\ grant'[k] = grant[k] + Regained(k, t)
  /\ \A j \in Keys \ {k} :
       grant'[j] = (IF j \in gone THEN grant[j] + Cap ELSE grant[j])
  /\ \A j \in held \ (gone \cup {k}) : seen'[j] = seen[j] /\ credit'[j] = credit[j]
  /\ \A j : Reserved(j)' <=> Reserved(j) \/ j = k
  /\ UNCHANGED <<clock, spent, was, promise>>

LEMMA ReserveEffect ==
  ASSUME Inv, NEW r \in Requests, ReserveKey(r)
  PROVE  \E gone \in SUBSET held, k \in Keys, t \in Nat, c \in Int :
           Reservation(r, gone, k, t, c)
  <1> DEFINE k == req[r].keys[req[r].at]
             t == req[r].now
             c == Balance(k, t) - Cost
  <1>0. /\ mutex = r /\ req[r].at <= Len(req[r].keys) /\ r # None
        /\ TypeOK /\ Places
    BY IntConstants DEF Inv, ReserveKey
  <1>1. /\ k \in Keys /\ ~Reserved(k)
        /\ req[r].at \in 1 .. Len(req[r].keys)
    BY <1>0, NextKey
  <1>2. t \in Nat /\ t <= clock
    BY <1>0 DEF TypeOK, ReqType, Places
  <1>3. PICK gone \in SUBSET held : Reserve(r, k, gone) /\ k \notin gone
    BY <1>0, ReserveKeyCases
  <1>4. req[r] \in ReqType
    BY <1>0 DEF TypeOK
  <1> HIDE DEF k, t
  <1>5. c \in Int
    BY <1>0, <1>1, <1>2, BalanceFacts, IntConstants
  <1> HIDE DEF c
  <1>6. /\ held' = (held \ gone) \cup {k}
        /\ seen' = [j \in Keys |-> IF j = k THEN t ELSE IF j \in gone THEN 0 ELSE seen[j]]
        /\ credit' = [j \in Keys |-> IF j = k THEN c ELSE IF j \in gone THEN 0 ELSE credit[j]]
        /\ req' = [req EXCEPT ![r] = Counted(req[r], c)]
        /\ grant' = [j \in Keys |-> grant[j] + (IF j = k THEN Regained(k, t) ELSE 0)
                                            + (IF j \in gone THEN Cap ELSE 0)]
        /\ UNCHANGED <<clock, mutex, sent, spent, was, promise>>
    BY <1>3 DEF Reserve, k, t, c
  <1>7. /\ req'[r] = Counted(req[r], c)
        /\ \A q \in Requests \ {r} : req'[q] = req[q]
    BY <1>0, <1>6 DEF TypeOK
  <1>8. /\ req'[r].pc = "reserving" /\ req'[r].keys = req[r].keys /\ req'[r].now = req[r].now
        /\ req'[r].at = req[r].at + 1
        /\ req'[r].delay = Larger(req[r].delay, -c)
    <2>1. req[r].pc = "reserving"
      BY <1>0 DEF Places
    <2> QED
      BY <2>1, <1>4, <1>5, <1>7, CountedFacts
  <1>9. /\ seen'[k] = t /\ credit'[k] = c
        /\ \A j \in held \ (gone \cup {k}) : seen'[j] = seen[j] /\ credit'[j] = credit[j]
    BY <1>0, <1>1, <1>6 DEF TypeOK
  <1>10. /\ grant'[k] = grant[k] + Regained(k, t)
         /\ \A j \in Keys \ {k} :
              grant'[j] = (IF j \in gone THEN grant[j] + Cap ELSE grant[j])
    <2>1. \A j \in Keys : grant[j] \in Nat
      BY <1>0 DEF TypeOK
    <2>2. Regained(k, t) \in Int
      BY <1>0, <1>1, <1>2, IntConstants DEF Regained, Larger, TypeOK
    <2> QED
      BY <2>1, <2>2, <1>1, <1>3, <1>6, IntConstants
  <1>11. \A j : Reserved(j)' <=> Reserved(j) \/ j = k
    <2>1. k = req[r].keys[req[r].at]
      BY DEF k
    <2>2. \A i \in 1 .. Len(req[r].keys) :
            i < req[r].at + 1 <=> i < req[r].at \/ i = req[r].at
      BY <1>1
    <2>3. mutex' = r
      BY <1>0, <1>6
    <2>4. \A j : Reserved(j)' <=> \E i \in 1 .. Len(req[r].keys) :
                                     i < req[r].at + 1 /\ req[r].keys[i] = j
      BY <1>0, <1>8, <2>3 DEF Reserved
    <2>5. \A j : Reserved(j) <=> \E i \in 1 .. Len(req[r].keys) :
                                     i < req[r].at /\ req[r].keys[i] = j
      BY <1>0 DEF Reserved
    <2> QED
      BY <2>1, <2>2, <2>4, <2>5, <1>1
  <1> USE <1>1, <1>2, <1>5
  <1> WITNESS gone \in SUBSET held, k \in Keys, t \in Nat, c \in Int
  <1> QED
    BY <1>0, <1>1, <1>2, <1>3, <1>6, <1>7, <1>8, <1>9, <1>10, <1>11 DEF c, Reservation

LEMMA ReserveStep ==
  ASSUME Inv, TypeOK', NEW r \in Requests, ReserveKey(r)
  PROVE  Inv'
  <1>0. PICK gone \in SUBSET held, k \in Keys, t \in Nat, c \in Int :
          Reservation(r, gone, k, t, c)
    BY ReserveEffect
  <1>1. /\ k \notin gone /\ ~Reserved(k) /\ t <= clock
        /\ mutex = r /\ mutex' = r /\ r # None
        /\ req'[r].pc = "reserving" /\ req'[r].keys = req[r].keys /\ req'[r].now = req[r].now
        /\ req'[r].at = req[r].at + 1 /\ req[r].at \in 1 .. Len(req[r].keys)
        /\ req'[r].delay = Larger(req[r].delay, -c)
        /\ \A q \in Requests \ {r} : req'[q] = req[q]
        /\ c = Balance(k, t) - Cost
        /\ held' = (held \ gone) \cup {k}
        /\ seen'[k] = t /\ credit'[k] = c /\ grant'[k] = grant[k] + Regained(k, t)
        /\ \A j \in Keys \ {k} :
             grant'[j] = (IF j \in gone THEN grant[j] + Cap ELSE grant[j])
        /\ \A j \in held \ (gone \cup {k}) : seen'[j] = seen[j] /\ credit'[j] = credit[j]
        /\ \A j : Reserved(j)' <=> Reserved(j) \/ j = k
        /\ UNCHANGED <<clock, spent, was, promise>>
    BY <1>0 DEF Reservation
  <1>2. /\ clock \in Nat /\ req[r].delay \in Nat /\ req'[r].delay \in Nat
        /\ held \subseteq Keys
        /\ \A j \in Keys : seen[j] \in Nat
        /\ \A j \in Keys : credit[j] \in Int
        /\ \A j \in Keys : spent[j] \in Nat
        /\ \A j \in Keys : grant[j] \in Nat
        /\ \A j \in Keys : was[j] \in Int
    <2>1. req'[r].delay \in Nat
      BY DEF TypeOK, ReqType
    <2> QED
      BY <2>1, Numbers DEF Inv
  <1>3. /\ Owed(k) = 0 /\ Owed(k)' = Cost
        /\ \A j \in Keys \ {k} : Owed(j)' = Owed(j) /\ Owed(j) \in Nat /\ Owed(j) <= Cost
    BY <1>1, IntConstants DEF Owed
  <1>4. /\ k \in held => /\ seen[k] <= clock /\ credit[k] \in Nat
                         /\ spent[k] + credit[k] <= seen[k] + grant[k]
                         /\ was[k] <= credit[k] + (clock - seen[k])
        /\ k \notin held => spent[k] + Cap <= clock + grant[k]
        /\ was[k] <= Cap
    <2>1. mutex = r /\ r # None /\ ~Reserved(k)
      BY <1>1
    <2>2. CASE k \in held
      <3>1. /\ seen[k] <= clock /\ credit[k] + Owed(k) >= 0
            /\ spent[k] + Owed(k) + credit[k] <= seen[k] + grant[k]
            /\ was[k] <= Cap
            /\ was[k] <= credit[k] + Owed(k) + (clock - seen[k])
        BY <2>1, <2>2 DEF Inv, Debts, Paid, Whole
      <3>2. Owed(k) = 0
        BY <1>3
      <3> QED
        BY <3>1, <3>2, <2>2, <1>2
    <2>3. CASE k \notin held
      <3>1. was[k] <= Cap
        BY <2>1 DEF Inv, Whole
      <3>2. spent[k] + Cap + 0 <= clock + grant[k]
        BY <2>1, <2>3 DEF Inv, Paid
      <3> QED
        BY <3>1, <3>2, <2>3, <1>2, IntConstants
    <2> QED
      BY <2>2, <2>3
  <1>5. /\ req[r].delay <= req'[r].delay
        /\ -c <= req'[r].delay
    BY <1>1, <1>2 DEF Larger
  <1>6. /\ c + Cost >= 0
        /\ spent[k] + Cost + c <= t + grant'[k]
        /\ was[k] <= c + Cost + (clock - t)
    <2>1. c + Cost = Balance(k, t)
      BY <1>1, IntConstants, BalanceFacts DEF Inv
    <2>2. CASE k \in held
      <3>1. c + Cost = Smaller(Cap, credit[k] + Larger(0, t - seen[k]))
        BY <2>1, <2>2 DEF Balance
      <3>2. grant'[k] = grant[k] + Larger(0, seen[k] - t)
        BY <1>1, <2>2 DEF Regained
      <3> QED
        <4>1. /\ c + Cost >= 0
              /\ spent[k] + (c + Cost) <= t + (grant[k] + Larger(0, seen[k] - t))
              /\ was[k] <= (c + Cost) + (clock - t)
          <5>1. t <= clock /\ c + Cost \in Int
            BY <1>1, IntConstants
          <5>2. /\ Cap \in Nat /\ credit[k] \in Nat /\ seen[k] \in Nat /\ clock \in Nat
                /\ spent[k] \in Nat /\ grant[k] \in Nat /\ was[k] \in Int
            BY <2>2, <1>2, <1>4, IntConstants
          <5>3. /\ seen[k] <= clock /\ was[k] <= Cap
                /\ spent[k] + credit[k] <= seen[k] + grant[k]
                /\ was[k] <= credit[k] + (clock - seen[k])
            BY <2>2, <1>4
          <5> QED
            BY ONLY ZenonT(60), <3>1, <5>1, <5>2, <5>3, AdvanceArith, t \in Nat
        <4>2. Larger(0, seen[k] - t) \in Nat
          BY <1>2 DEF Larger
        <4> QED
          BY <4>1, <4>2, <3>2, <1>2, IntConstants
    <2>3. CASE k \notin held
      <3>1. c + Cost = Cap
        BY <2>1, <2>3 DEF Balance
      <3>2. grant'[k] = grant[k] + (clock - t)
        BY <1>1, <2>3 DEF Regained
      <3> QED
        <4>1. t <= clock
          BY <1>1
        <4> QED
          BY <4>1, <3>1, <3>2, <2>3, <1>2, <1>4, IntConstants
    <2> QED
      BY <2>2, <2>3
  <1>7. Places'
    <2>1. Len(req[r].keys) \in Nat
      BY <1>1, KeysFacts DEF Inv
    <2>2. req'[r].at \in 1 .. Len(req'[r].keys) + 1
      BY <1>1, <2>1
    <2>3. req'[r].keys \in KeyLists /\ req'[r].now <= clock'
      BY <1>1 DEF Inv, Places
    <2>4. \A q \in Requests \ {r} : mutex # q /\ mutex' # q
      BY <1>1
    <2> QED
      BY <1>1, <2>2, <2>3, <2>4 DEF Inv, Places
  <1>8. Debts'
    <2>1. ASSUME NEW j \in held'
          PROVE  /\ seen'[j] <= clock'
                 /\ credit'[j] + Owed(j)' >= 0
                 /\ Reserved(j)' => req'[r].delay + credit'[j] >= 0
      <3>1. CASE j = k
        BY <3>1, <1>1, <1>2, <1>3, <1>5, <1>6
      <3>2. CASE j # k
        <4>1. j \in held /\ j \in Keys /\ j \notin gone /\ seen'[j] = seen[j] /\ credit'[j] = credit[j]
          BY <3>2, <1>1, <1>2
        <4>2. /\ seen[j] <= clock /\ credit[j] + Owed(j) >= 0
              /\ Reserved(j) => req[r].delay + credit[j] >= 0
          BY <4>1, <1>1 DEF Inv, Debts
        <4>3. seen'[j] <= clock'
          BY <4>1, <4>2, <1>1
        <4>4. credit'[j] + Owed(j)' >= 0
          <5>1. Owed(j)' = Owed(j)
            BY <4>1, <3>2, <1>3
          <5> QED
            BY <5>1, <4>1, <4>2
        <4>5. Reserved(j)' => req'[r].delay + credit'[j] >= 0
          <5>1. Reserved(j)' => Reserved(j)
            BY <3>2, <1>1
          <5>2. /\ req[r].delay \in Nat /\ req'[r].delay \in Nat /\ credit[j] \in Int
                /\ credit'[j] = credit[j] /\ req[r].delay <= req'[r].delay
            BY <4>1, <1>2, <1>5
          <5>3. Reserved(j) => req[r].delay + credit[j] >= 0
            BY <4>2
          <5> QED
            BY ONLY <5>1, <5>2, <5>3
        <4> QED
          BY <4>3, <4>4, <4>5
      <3> QED
        BY <3>1, <3>2
    <2> QED
      BY <2>1, <1>1 DEF Debts
  <1>9. Paid'
    <2>1. ASSUME NEW j \in Keys
          PROVE  IF j \in held'
                   THEN spent'[j] + Owed(j)' + credit'[j] <= seen'[j] + grant'[j]
                   ELSE spent'[j] + Cap + (IF Reserved(j)' /\ req'[r].delay = 0 THEN Cost ELSE 0)
                          <= clock' + grant'[j]
      <3>1. CASE j = k
        BY <3>1, <1>1, <1>3, <1>6
      <3>2. CASE j # k /\ j \in held \ gone
        <4>1. spent[j] + Owed(j) + credit[j] <= seen[j] + grant[j]
          BY <3>2 DEF Inv, Paid
        <4> QED
          BY <4>1, <3>2, <1>1, <1>3
      <3>3. CASE j \in gone
        <4>1. /\ spent[j] + Owed(j) + credit[j] <= seen[j] + grant[j]
              /\ seen[j] <= clock /\ credit[j] + Owed(j) >= 0
              /\ Reserved(j) => req[r].delay + credit[j] >= 0
          BY <3>3, <1>1 DEF Inv, Paid, Debts
        <4>2. /\ j # k /\ j \notin held' /\ grant'[j] = grant[j] + Cap
              /\ spent'[j] = spent[j] /\ clock' = clock
              /\ Reserved(j)' <=> Reserved(j)
          BY <3>3, <1>1
        <4>5. /\ clock \in Nat /\ spent[j] \in Nat /\ grant[j] \in Nat
              /\ credit[j] \in Int /\ seen[j] \in Nat
          BY <1>2
        <4>3. CASE Reserved(j)
          <5>1. Owed(j) = Cost
            BY <4>3 DEF Owed
          <5> QED
            BY <5>1, <4>1, <4>2, <4>3, <4>5, <1>2, <1>5, IntConstants
        <4>4. CASE ~Reserved(j)
          <5>1. Owed(j) = 0
            BY <4>4 DEF Owed
          <5> QED
            BY <5>1, <4>1, <4>2, <4>4, <4>5, IntConstants
        <4> QED
          BY <4>3, <4>4
      <3>4. CASE j # k /\ j \notin held
        <4>1. spent[j] + Cap + (IF Reserved(j) /\ req[r].delay = 0 THEN Cost ELSE 0)
                <= clock + grant[j]
          BY <3>4, <1>1 DEF Inv, Paid
        <4>2. /\ j \notin held' /\ j \notin gone /\ grant'[j] = grant[j]
              /\ spent'[j] = spent[j] /\ clock' = clock
              /\ Reserved(j)' <=> Reserved(j)
          BY <3>4, <1>1
        <4>3. clock \in Nat /\ spent[j] \in Nat /\ grant[j] \in Nat
          BY <1>2
        <4>4. req'[r].delay = 0 => req[r].delay = 0
          BY <1>2, <1>5
        <4> QED
          BY <4>1, <4>2, <4>3, <4>4, IntConstants
      <3> QED
        BY <3>1, <3>2, <3>3, <3>4
    <2> QED
      BY <2>1, <1>1 DEF Paid
  <1>10. Whole'
    <2>1. ASSUME NEW j \in Keys
          PROVE  /\ was'[j] <= Cap
                 /\ j \in held' => was'[j] <= credit'[j] + Owed(j)' + (clock' - seen'[j])
      <3>1. CASE j = k
        BY <3>1, <1>1, <1>3, <1>4, <1>6
      <3>2. CASE j # k
        <4>1. was[j] <= Cap /\ (j \in held => was[j] <= credit[j] + Owed(j) + (clock - seen[j]))
          BY <1>1 DEF Inv, Whole
        <4> QED
          BY <4>1, <3>2, <1>1, <1>3
      <3> QED
        BY <3>1, <3>2
    <2> QED
      BY <2>1 DEF Whole
  <1> QED
    BY <1>7, <1>8, <1>9, <1>10 DEF Inv

\* What the answer of a request leaves behind.
LEMMA LeaveFacts ==
  ASSUME Inv, NEW r \in Requests, Leave(r)
  PROVE  /\ mutex = r /\ mutex' = None /\ r # None
         /\ \A k : Reserved(k) <=> k \in KeysOf(r)
         /\ \A k : ~Reserved(k)' /\ Owed(k)' = 0
         /\ clock' = clock => Places'
         /\ Whole'
  <1>1. mutex = r /\ mutex' = None /\ r # None /\ req' = [req EXCEPT ![r] = Idle]
    BY IntConstants DEF Leave
  <1>2. \A k : Reserved(k) <=> k \in KeysOf(r)
    BY <1>1, AllReserved DEF Leave, Inv
  <1>3. clock' = clock => Places'
    <2>1. req'[r] = Idle /\ \A q \in Requests \ {r} : req'[q] = req[q]
      BY <1>1 DEF Inv, TypeOK
    <2>2. Idle.pc = "idle" /\ Idle.now = 0 /\ Idle.at = 1 /\ Len(Idle.keys) = 0 /\ clock \in Nat
      BY IntConstants DEF Idle, Inv, TypeOK
    <2>3. \A q \in Requests \ {r} : req[q].pc # "reserving"
      BY <1>1 DEF Inv, Places
    <2>4. \A q \in Requests : mutex' # q
      BY <1>1, IntConstants
    <2> QED
      BY <2>1, <2>2, <2>3, <2>4 DEF Inv, Places
  <1> QED
    BY <1>1, <1>2, <1>3 DEF Reserved, Owed, Whole

LEMMA AdmitStep ==
  ASSUME Inv, TypeOK', NEW r \in Requests, Admit(r)
  PROVE  Inv'
  <1>1. /\ Leave(r) /\ req[r].delay = 0
        /\ \A k \in Keys : spent'[k] = spent[k] + (IF k \in KeysOf(r) THEN Cost ELSE 0)
        /\ UNCHANGED <<clock, held, seen, credit, grant>>
    BY DEF Admit, table
  <1>2. /\ mutex = r /\ mutex' = None /\ r # None
        /\ \A k : Reserved(k) <=> k \in KeysOf(r)
        /\ \A k : ~Reserved(k)' /\ Owed(k)' = 0
        /\ Places' /\ Whole'
    BY <1>1, LeaveFacts
  <1>3. \A k \in Keys : /\ seen[k] \in Nat /\ credit[k] \in Int /\ spent[k] \in Nat
                        /\ grant[k] \in Nat /\ clock \in Nat
    BY Numbers DEF Inv
  <1>4. \A k \in Keys : /\ Owed(k) = (IF k \in KeysOf(r) THEN Cost ELSE 0)
                        /\ spent'[k] = spent[k] + Owed(k)
                        /\ Owed(k) \in Nat
    BY <1>1, <1>2, IntConstants DEF Owed
  <1>5. Debts'
    <2>1. ASSUME NEW k \in held
          PROVE  seen[k] <= clock /\ credit[k] >= 0
      <3>1. k \in Keys
        BY Numbers DEF Inv
      <3>2. /\ seen[k] <= clock
            /\ credit[k] + Owed(k) >= 0
            /\ Reserved(k) => req[r].delay + credit[k] >= 0
        BY <1>2 DEF Inv, Debts
      <3>3. ~Reserved(k) => Owed(k) = 0
        BY DEF Owed
      <3> QED
        BY <3>1, <3>2, <3>3, <1>1, <1>3
    <2>2. held' \subseteq Keys
      BY Numbers, <1>1 DEF Inv
    <2> QED
      BY <2>1, <2>2, <1>1, <1>2, <1>3 DEF Debts
  <1>6. Paid'
    <2>1. ASSUME NEW k \in Keys
          PROVE  IF k \in held
                   THEN spent'[k] + 0 + credit[k] <= seen[k] + grant[k]
                   ELSE spent'[k] + Cap + 0 <= clock + grant[k]
      <3>1. IF k \in held
              THEN spent[k] + Owed(k) + credit[k] <= seen[k] + grant[k]
              ELSE spent[k] + Cap + (IF Reserved(k) THEN Cost ELSE 0) <= clock + grant[k]
        BY <1>1, <1>2 DEF Inv, Paid
      <3>2. Owed(k) = IF Reserved(k) THEN Cost ELSE 0
        BY DEF Owed
      <3> QED
        BY <3>1, <3>2, <1>3, <1>4, IntConstants
    <2> QED
      BY <2>1, <1>1, <1>2 DEF Paid
  <1> QED
    BY <1>2, <1>5, <1>6 DEF Inv

LEMMA RefuseStep ==
  ASSUME Inv, TypeOK', NEW r \in Requests, Refuse(r)
  PROVE  Inv'
  <1>1. /\ Leave(r)
        /\ \A k \in Keys : credit'[k] = credit[k] + (IF k \in KeysOf(r) \cap held THEN Cost ELSE 0)
        /\ UNCHANGED <<clock, held, seen, spent, grant>>
    BY DEF Refuse, Restored
  <1>2. /\ mutex = r /\ mutex' = None /\ r # None
        /\ \A k : Reserved(k) <=> k \in KeysOf(r)
        /\ \A k : ~Reserved(k)' /\ Owed(k)' = 0
        /\ Places' /\ Whole'
    BY <1>1, LeaveFacts
  <1>3. \A k \in Keys : /\ seen[k] \in Nat /\ credit[k] \in Int /\ spent[k] \in Nat
                        /\ grant[k] \in Nat /\ clock \in Nat
    BY Numbers DEF Inv
  <1>4. /\ held \subseteq Keys
        /\ \A k \in held : credit'[k] = credit[k] + Owed(k) /\ Owed(k) \in Nat
    BY <1>1, <1>2, Numbers, IntConstants DEF Owed, Inv
  <1>5. Debts'
    BY <1>1, <1>2, <1>3, <1>4 DEF Debts, Inv
  <1>6. Paid'
    <2>1. ASSUME NEW k \in Keys
          PROVE  IF k \in held
                   THEN spent[k] + 0 + credit'[k] <= seen[k] + grant[k]
                   ELSE spent[k] + Cap + 0 <= clock + grant[k]
      <3>1. IF k \in held
              THEN spent[k] + Owed(k) + credit[k] <= seen[k] + grant[k]
              ELSE spent[k] + Cap + (IF Reserved(k) /\ req[r].delay = 0 THEN Cost ELSE 0)
                     <= clock + grant[k]
        BY <1>2 DEF Inv, Paid
      <3> QED
        BY <3>1, <1>3, <1>4, IntConstants
    <2> QED
      BY <2>1, <1>1, <1>2 DEF Paid
  <1> QED
    BY <1>2, <1>5, <1>6 DEF Inv
-----------------------------------------------------------------------------
(* The theorems. *)

LEMMA InvInit == Init => Inv
  <1> SUFFICES ASSUME Init PROVE Inv
    OBVIOUS
  <1>1. TypeOK
    <2>1. Idle \in ReqType
      BY DEF Idle, ReqType
    <2>2. NoPromise \in [keys : SUBSET Keys, by : Nat]
      BY DEF NoPromise
    <2>3. Cardinality({}) = 0
      BY FS_EmptySet
    <2> QED
      BY <2>1, <2>2, <2>3, IntConstants DEF Init, TypeOK
  <1>2. Places
    <2>1. Idle.pc = "idle" /\ Idle.now = 0 /\ Idle.at = 1 /\ Len(Idle.keys) = 0
      BY DEF Idle
    <2> QED
      BY <2>1, IntConstants DEF Init, Places
  <1>3. Debts /\ Paid /\ Whole
    BY IntConstants DEF Init, Debts, Paid, Whole, Reserved, Owed
  <1> QED
    BY <1>1, <1>2, <1>3 DEF Inv

LEMMA InvNext == Inv /\ [Next]_vars => Inv'
  <1> SUFFICES ASSUME Inv, [Next]_vars PROVE Inv'
    OBVIOUS
  <1>1. TypeOK'
    BY TypeStep DEF Inv
  <1>2. CASE Next
    BY <1>1, <1>2, TickStep, ArriveStep, EnterStep, ReserveStep, AdmitStep, RefuseStep DEF Next
  <1>3. CASE UNCHANGED vars
    <2>1. /\ UNCHANGED <<clock, held, seen, credit, mutex, req, spent, grant, was>>
          /\ \A k : (Reserved(k)' <=> Reserved(k)) /\ Owed(k)' = Owed(k)
      BY <1>3 DEF vars, table, ghosts, Reserved, Owed
    <2> QED
      BY <1>1, <2>1 DEF Inv, Places, Debts, Paid, Whole
  <1> QED
    BY <1>2, <1>3

\* Type correctness: whatever requests arrive, the table never holds more than
\* MaxKeys buckets.
THEOREM LimiterTypes == Spec => []TypeOK
  <1>1. Inv => TypeOK
    BY DEF Inv
  <1> QED
    BY <1>1, InvInit, InvNext, PTL DEF Spec

\* What AllowAll admits under a key never exceeds the burst, the time that
\* passed and what evictions from a full table and late requests gave it.
THEOREM AdmissionsBounded == Spec => []AdmissionBound
  <1>1. Inv => AdmissionBound
    <2> SUFFICES ASSUME Inv, NEW k \in Keys PROVE spent[k] <= clock + grant[k]
      BY DEF AdmissionBound
    <2>1. /\ seen[k] \in Nat /\ credit[k] \in Int /\ spent[k] \in Nat
          /\ grant[k] \in Nat /\ clock \in Nat
      BY Numbers DEF Inv
    <2>2. Owed(k) \in Nat
      BY IntConstants DEF Owed
    <2>3. CASE k \in held
      BY <2>1, <2>2, <2>3 DEF Inv, Paid, Debts
    <2>4. CASE k \notin held
      BY <2>1, <2>4, IntConstants DEF Inv, Paid
    <2> QED
      BY <2>3, <2>4
  <1> QED
    BY <1>1, InvInit, InvNext, PTL DEF Spec

\* A refusal costs nobody anything, and an admission costs one token in each
\* key of the request.
THEOREM RefusalsAreFree == Spec => RefusalIsFree
  <1>1. ASSUME Inv, [Next]_vars, NEW r \in Requests, mutex = r, mutex' = None, NEW k \in Keys
        PROVE  Balance(k, clock)' >= was[k] - (IF k \in KeysOf(r) /\ spent' # spent THEN Cost ELSE 0)
    <2>0. r # None
      BY IntConstants
    <2>1. Admit(r) \/ Refuse(r)
      <3>1. ~Tick /\ ~UNCHANGED vars
        BY <1>1, <2>0 DEF Tick, vars
      <3>2. \A q \in Requests : ~Enter(q) /\ \A ks \in KeyLists : ~Arrive(q, ks)
        BY <1>1, <2>0 DEF Arrive, Enter
      <3>3. \A q \in Requests : ~ReserveKey(q)
        BY <1>1, <2>0, ReserveEffect DEF Reservation
      <3>4. \A q \in Requests : Admit(q) \/ Refuse(q) => q = r
        BY <1>1 DEF Admit, Refuse, Leave
      <3> QED
        BY <1>1, <3>1, <3>2, <3>3, <3>4 DEF Next
    <2>2. Leave(r) /\ clock' = clock /\ held' = held /\ seen' = seen
      BY <2>1 DEF Admit, Refuse, table
    <2>3. /\ \A j : Reserved(j) <=> j \in KeysOf(r)
      BY <1>1, <2>2, LeaveFacts
    <2>4. /\ seen[k] \in Nat /\ credit[k] \in Int /\ was[k] \in Int /\ clock \in Nat
      BY <1>1, Numbers DEF Inv
    <2>5. Balance(k, clock)' = IF k \in held THEN Smaller(Cap, credit'[k] + Larger(0, clock - seen[k]))
                                             ELSE Cap
      BY <2>2 DEF Balance
    <2>6. was[k] <= Cap
      BY <1>1, <2>0 DEF Inv, Whole
    <2>7. CASE k \notin held
      BY <2>4, <2>5, <2>6, <2>7, IntConstants
    <2>8. CASE k \in held
      <3>1. /\ was[k] <= credit[k] + Owed(k) + (clock - seen[k])
            /\ seen[k] <= clock
        BY <1>1, <2>0, <2>8 DEF Inv, Whole, Debts
      <3>2. Owed(k) = IF k \in KeysOf(r) THEN Cost ELSE 0
        BY <2>3 DEF Owed
      <3>3. CASE Refuse(r)
        <4>1. credit'[k] = credit[k] + Owed(k)
          BY <3>2, <3>3, <2>8 DEF Refuse, Restored
        <4> QED
          BY <4>1, <3>1, <3>2, <2>4, <2>5, <2>6, <2>8, IntConstants DEF Smaller, Larger
      <3>4. CASE Admit(r)
        <4>1. credit'[k] = credit[k]
          BY <3>4 DEF Admit, table
        <4>2. k \in KeysOf(r) => spent' # spent
          <5>1. k \in KeysOf(r) => spent'[k] = spent[k] + Cost
            BY <3>4 DEF Admit
          <5>2. spent[k] \in Nat
            BY <1>1, Numbers DEF Inv
          <5> QED
            BY <5>1, <5>2, IntConstants
        <4> QED
          BY <4>1, <4>2, <3>1, <3>2, <2>4, <2>5, <2>6, <2>8, IntConstants DEF Smaller, Larger
      <3> QED
        BY <2>1, <3>3, <3>4
    <2> QED
      BY <2>7, <2>8
  <1>2. Inv /\ [Next]_vars =>
          [\A r \in Requests : mutex = r /\ mutex' = None =>
             \A k \in Keys :
               Balance(k, clock)' >= was[k] - (IF k \in KeysOf(r) /\ spent' # spent THEN Cost ELSE 0)]_vars
    BY <1>1
  <1> QED
    BY <1>2, InvInit, InvNext, PTL DEF Spec, RefusalIsFree

-----------------------------------------------------------------------------
(* Retry-After. *)

\* The header is rounded up to whole seconds, so it covers the delay.
LEMMA RetryAfterEnough ==
  ASSUME NEW d \in Nat
  PROVE  /\ Second * RetryAfter(d) \in Nat
         /\ d <= Second * RetryAfter(d)
  <1> DEFINE q == (d + Second - 1) \div Second
  <1>1. q \in Int /\ d <= Second * q
    BY IntConstants
  <1>2. \A a, b \in Int : a <= b => Second * a <= Second * b
    BY IntConstants
  <1> HIDE DEF q
  <1>3. RetryAfter(d) \in Int /\ q <= RetryAfter(d)
    BY <1>1 DEF RetryAfter, Larger, q
  <1>4. Second * q \in Int /\ Second * RetryAfter(d) \in Int
    BY <1>1, <1>3, IntConstants
  <1>5. Second * q <= Second * RetryAfter(d)
    BY <1>1, <1>2, <1>3
  <1> QED
    BY <1>1, <1>4, <1>5, RetryAfterType


\* Once the clock has reached b, key k has a token, apart from what the holder
\* of the mutex has reserved.
Earns(k, b) ==
  k \in held => Cost <= credit[k] + Owed(k) + (Larger(b, clock) - seen[k])
PromisesKept == \A r \in Requests : \A k \in promise[r].keys : Earns(k, promise[r].by)

\* The numbers of one promise.
LEMMA PromiseNumbers ==
  ASSUME TypeOK, NEW r \in Requests
  PROVE  /\ promise[r].keys \subseteq Keys
         /\ promise[r].by \in Nat
  BY DEF TypeOK

\* A key whose bucket is dropped, or keeps its time and its credit apart from
\* reservations, earns its token no later, whenever the clock advances.
LEMMA EarnsOn ==
  ASSUME TypeOK, NEW k \in Keys, NEW b \in Nat, Earns(k, b),
         clock' \in Nat, clock <= clock',
         k \in held' => /\ k \in held /\ seen'[k] = seen[k]
                        /\ credit'[k] + Owed(k)' = credit[k] + Owed(k)
  PROVE  Earns(k, b)'
  <1>1. CASE k \notin held'
    BY <1>1 DEF Earns
  <1>2. CASE k \in held'
    <2>1. /\ Cost <= credit[k] + Owed(k) + (Larger(b, clock) - seen[k])
          /\ seen'[k] = seen[k]
          /\ credit'[k] + Owed(k)' = credit[k] + Owed(k)
      BY <1>2 DEF Earns
    <2>2. seen[k] \in Nat /\ clock \in Nat /\ credit[k] \in Int /\ Cost \in Nat
          /\ Owed(k) \in Nat
      BY Numbers, IntConstants DEF Owed
    <2>3. Larger(b, clock) <= Larger(b, clock')
          /\ Larger(b, clock) \in Int /\ Larger(b, clock') \in Int
      BY <2>2 DEF Larger
    <2>4. Cost <= credit'[k] + Owed(k)' + (Larger(b, clock') - seen'[k])
      BY ONLY <2>1, <2>2, <2>3
    <2> QED
      BY <2>4 DEF Earns
  <1> QED
    BY <1>1, <1>2

\* A bucket that is brought to a time t and pays for a reservation earns its
\* token no later.
LEMMA EarnsReserved ==
  ASSUME Inv, NEW k \in Keys, NEW b \in Nat, Earns(k, b), NEW t \in Nat, t <= clock,
         ~Reserved(k), Reserved(k)', clock' = clock, seen'[k] = t,
         credit'[k] = Balance(k, t) - Cost
  PROVE  Earns(k, b)'
  <1>1. Owed(k) = 0 /\ Owed(k)' = Cost
    BY DEF Owed
  <1>2. seen[k] \in Nat /\ clock \in Nat /\ credit[k] \in Int
    BY Numbers DEF Inv
  <1>3. k \in held => Cost <= credit[k] + (Larger(b, clock) - seen[k])
    BY <1>1, <1>2, IntConstants DEF Earns, Larger
  <1>4. Cost <= Balance(k, t) + (Larger(b, clock) - t)
    BY <1>2, <1>3, IntConstants DEF Balance, Larger, Smaller
  <1>5. Balance(k, t) \in Int
    BY BalanceFacts DEF Inv
  <1>6. Cost <= credit'[k] + Owed(k)' + (Larger(b, clock') - seen'[k])
    BY <1>1, <1>2, <1>4, <1>5, IntConstants DEF Larger
  <1> QED
    BY <1>6 DEF Earns

LEMMA PromisesStep ==
  ASSUME Inv, PromisesKept, [Next]_vars
  PROVE  PromisesKept'
  <1>0. TypeOK /\ clock \in Nat /\ held \subseteq Keys
    BY Numbers DEF Inv
  <1>1. ASSUME \A r \in Requests : \A k \in promise'[r].keys :
                 /\ k \in promise[r].keys
                 /\ promise'[r].by = promise[r].by,
               \A k \in Keys, b \in Nat, r \in Requests :
                 k \in promise'[r].keys /\ Earns(k, b) => Earns(k, b)'
        PROVE  PromisesKept'
    <2> SUFFICES ASSUME NEW r \in Requests, NEW k \in promise'[r].keys
                 PROVE  Earns(k, promise[r].by)'
      BY DEF PromisesKept
    <2>0. PICK b : b = promise[r].by
      OBVIOUS
    <2>1. k \in promise[r].keys /\ promise'[r].by = b
      BY <1>1, <2>0
    <2>2. k \in Keys /\ b \in Nat /\ Earns(k, b)
      BY <1>0, <2>0, <2>1, PromiseNumbers DEF PromisesKept
    <2>3. Earns(k, b)'
      BY <1>1, <2>2
    <2> QED
      BY <2>1, <2>3 DEF Earns
  <1>2. ASSUME clock' \in Nat, clock <= clock', promise' = promise,
               \A k \in Keys : k \in held' =>
                 /\ k \in held /\ seen'[k] = seen[k]
                 /\ credit'[k] + Owed(k)' = credit[k] + Owed(k)
        PROVE  PromisesKept'
    <2>1. \A k \in Keys, b \in Nat : Earns(k, b) => Earns(k, b)'
      BY <1>0, <1>2, EarnsOn
    <2> QED
      BY <1>1, <1>2, <2>1
  <1>3. CASE Tick
    <2>1. /\ clock' = clock + 1 /\ mutex = None /\ mutex' = None
          /\ UNCHANGED <<held, seen, credit, promise>>
      BY <1>3 DEF Tick, table, ghosts
    <2>2. \A k : Owed(k) = 0 /\ Owed(k)' = 0
      BY <2>1 DEF Reserved, Owed
    <2> QED
      BY <1>0, <1>2, <2>1, <2>2
  <1>4. ASSUME NEW r \in Requests, NEW ks \in KeyLists, Arrive(r, ks)
        PROVE  PromisesKept'
    <2>1. /\ req[r].pc = "idle" /\ UNCHANGED <<clock, held, seen, credit, mutex, promise>>
          /\ \A q \in Requests \ {r} : req'[q] = req[q]
      BY <1>0, <1>4 DEF Arrive, table, ghosts, TypeOK
    <2>2. mutex # None => req'[mutex] = req[mutex]
      BY <1>0, <2>1 DEF Inv, Places, TypeOK
    <2>3. \A k : Owed(k)' = Owed(k)
      BY <2>1, <2>2, SameReserved
    <2> QED
      BY <1>0, <1>2, <2>1, <2>3
  <1>5. ASSUME NEW r \in Requests, Enter(r)
        PROVE  PromisesKept'
    <2>1. /\ mutex = None /\ mutex' = r /\ r # None /\ held' \subseteq held
          /\ \A k \in held' : seen'[k] = seen[k] /\ credit'[k] = credit[k]
          /\ UNCHANGED <<clock, promise>>
      BY <1>0, <1>5, IntConstants DEF Enter
    <2>2. req'[r].at = 1
      <3>1. req[r].at = 1
        BY <1>5 DEF Enter, Inv, Places
      <3> QED
        BY <1>0, <1>5, <3>1 DEF Enter, TypeOK, ReqType
    <2>3. \A i \in 1 .. Len(req'[r].keys) : ~(i < 1)
      OBVIOUS
    <2>4. \A k : Owed(k) = 0 /\ Owed(k)' = 0
      BY <2>1, <2>2, <2>3 DEF Reserved, Owed
    <2> QED
      BY <1>0, <1>2, <2>1, <2>4
  <1>6. ASSUME NEW r \in Requests, ReserveKey(r)
        PROVE  PromisesKept'
    <2>0. PICK gone \in SUBSET held, k \in Keys, t \in Nat, c \in Int :
            Reservation(r, gone, k, t, c)
      BY <1>6, ReserveEffect
    <2>1. /\ ~Reserved(k) /\ t <= clock
          /\ held' = (held \ gone) \cup {k}
          /\ seen'[k] = t /\ credit'[k] = c /\ c = Balance(k, t) - Cost
          /\ \A j \in held \ (gone \cup {k}) : seen'[j] = seen[j] /\ credit'[j] = credit[j]
          /\ \A j : Reserved(j)' <=> Reserved(j) \/ j = k
          /\ UNCHANGED <<clock, promise>>
      BY <2>0 DEF Reservation
    <2>2. ASSUME NEW j \in Keys, NEW b \in Nat, Earns(j, b)
          PROVE  Earns(j, b)'
      <3>1. CASE j = k
        BY <2>1, <2>2, <3>1, EarnsReserved
      <3>2. CASE j # k
        <4>1. Owed(j)' = Owed(j)
          BY <2>1, <3>2 DEF Owed
        <4>2. j \in held' => j \in held \ (gone \cup {k})
          BY <2>1, <3>2
        <4> QED
          BY <1>0, <2>1, <2>2, <4>1, <4>2, EarnsOn
      <3> QED
        BY <3>1, <3>2
    <2> QED
      BY <1>1, <2>1, <2>2
  <1>7. ASSUME NEW r \in Requests, Admit(r)
        PROVE  PromisesKept'
    <2>1. /\ Leave(r) /\ UNCHANGED <<clock, held, seen, credit>>
          /\ \A q \in Requests : promise'[q] = IF promise[q].keys \cap KeysOf(r) = {}
                                               THEN promise[q] ELSE NoPromise
      BY <1>7 DEF Admit, table
    <2>2. /\ \A k : Reserved(k) <=> k \in KeysOf(r)
          /\ \A k : Owed(k)' = 0
      BY <2>1, LeaveFacts
    <2>3. \A q \in Requests : \A k \in promise'[q].keys :
            /\ k \in promise[q].keys /\ promise'[q].by = promise[q].by
            /\ k \notin KeysOf(r)
      BY <2>1 DEF NoPromise
    <2>4. ASSUME NEW k \in Keys, NEW b \in Nat, Earns(k, b), k \notin KeysOf(r)
          PROVE  Earns(k, b)'
      <3>1. Owed(k) = 0 /\ Owed(k)' = 0
        BY <2>2, <2>4 DEF Owed
      <3> QED
        BY <1>0, <2>1, <2>4, <3>1, EarnsOn
    <2> QED
      BY <1>1, <2>3, <2>4
  <1>8. ASSUME NEW r \in Requests, Refuse(r)
        PROVE  PromisesKept'
    <2> DEFINE by == clock + Second * RetryAfter(req[r].delay)
    <2>1. /\ Leave(r) /\ UNCHANGED <<clock, held, seen>>
          /\ \A k \in Keys : credit'[k] = credit[k] + (IF k \in KeysOf(r) \cap held THEN Cost ELSE 0)
          /\ promise' = [promise EXCEPT ![r] = [keys |-> KeysOf(r), by |-> by]]
      BY <1>8 DEF Refuse, Restored
    <2>2. /\ mutex = r /\ r # None
          /\ \A k : Reserved(k) <=> k \in KeysOf(r)
          /\ \A k : Owed(k)' = 0
      BY <2>1, LeaveFacts
    <2>3. /\ promise'[r].keys = KeysOf(r) /\ promise'[r].by = by
          /\ \A q \in Requests \ {r} : promise'[q] = promise[q]
      BY <1>0, <2>1 DEF TypeOK
    <2>4. req[r].delay \in Nat /\ by \in Nat /\ clock + req[r].delay <= by
      <3>1. req[r].delay \in Nat
        BY <1>0, Numbers
      <3> QED
        BY <1>0, <3>1, RetryAfterEnough
    <2> HIDE DEF by
    <2>5. \A k \in held : credit'[k] = credit[k] + Owed(k)
      BY <1>0, <2>1, <2>2, Numbers, IntConstants DEF Owed
    <2>6. ASSUME NEW k \in Keys, NEW b \in Nat, Earns(k, b)
          PROVE  Earns(k, b)'
      <3>1. credit[k] \in Int /\ Owed(k) \in Nat
        BY <1>0, Numbers, IntConstants DEF Owed
      <3>2. k \in held' => credit'[k] + Owed(k)' = credit[k] + Owed(k)
        BY <2>1, <2>2, <2>5, <3>1
      <3> QED
        BY <1>0, <2>1, <2>6, <3>2, EarnsOn
    <2>7. ASSUME NEW k \in KeysOf(r), k \in held
          PROVE  Cost <= credit'[k] + Owed(k)' + (Larger(by, clock') - seen'[k])
      <3>1. /\ seen[k] <= clock /\ req[r].delay + credit[k] >= 0
        BY <2>2, <2>7 DEF Inv, Debts
      <3>2. Owed(k) = Cost /\ credit'[k] = credit[k] + Cost /\ Owed(k)' = 0
        BY <2>2, <2>5, <2>7 DEF Owed
      <3>3. seen[k] \in Nat /\ credit[k] \in Int
        BY <1>0, <2>7, Numbers
      <3> QED
        BY <1>0, <2>1, <2>4, <3>1, <3>2, <3>3, IntConstants DEF Larger
    <2>8. ASSUME NEW q \in Requests, NEW k \in promise'[q].keys
          PROVE  Earns(k, promise[q].by)'
      <3>1. CASE q = r
        BY <2>1, <2>3, <2>7, <2>8, <3>1 DEF Earns
      <3>2. CASE q # r
        <4>0. PICK b : b = promise[q].by
          OBVIOUS
        <4>1. k \in promise[q].keys /\ promise'[q].by = b
          BY <2>3, <2>8, <3>2, <4>0
        <4>2. k \in Keys /\ b \in Nat /\ Earns(k, b)
          BY <1>0, <4>0, <4>1, PromiseNumbers DEF PromisesKept
        <4>3. Earns(k, b)'
          BY <2>6, <4>2
        <4> QED
          BY <4>1, <4>3 DEF Earns
      <3> QED
        BY <3>1, <3>2
    <2> QED
      BY <2>8 DEF PromisesKept
  <1>9. CASE UNCHANGED vars
    <2>1. /\ UNCHANGED <<clock, held, seen, credit, promise>>
          /\ \A k : Owed(k)' = Owed(k)
      BY <1>9 DEF vars, table, ghosts, Reserved, Owed
    <2> QED
      BY <1>0, <1>2, <2>1
  <1> QED
    BY <1>3, <1>4, <1>5, <1>6, <1>7, <1>8, <1>9 DEF Next

\* A client that waits for the Retry-After of its 429 finds a token under each
\* of its keys, unless somebody was admitted under one of them meanwhile.
THEOREM RetryAfterIsEnough == Spec => []RetryAfterSuffices
  <1>1. Init => PromisesKept
    BY DEF Init, PromisesKept, NoPromise
  <1>2. Inv /\ PromisesKept => RetryAfterSuffices
    <2> SUFFICES ASSUME Inv, PromisesKept, mutex = None, NEW r \in Requests,
                        NEW k \in promise[r].keys, clock >= promise[r].by
                 PROVE  Balance(k, clock) >= Cost
      BY DEF RetryAfterSuffices
    <2>1. k \in Keys /\ promise[r].by \in Nat /\ Earns(k, promise[r].by)
      BY PromiseNumbers DEF Inv, PromisesKept
    <2>2. clock \in Nat /\ seen[k] \in Nat /\ credit[k] \in Int
      BY <2>1, Numbers DEF Inv
    <2>3. Owed(k) = 0
      BY DEF Owed, Reserved
    <2>4. k \in held => seen[k] <= clock /\ Cost <= credit[k] + (clock - seen[k])
      BY <2>1, <2>2, <2>3, IntConstants DEF Earns, Larger, Inv, Debts
    <2> QED
      BY <2>2, <2>4, IntConstants DEF Balance, Smaller, Larger
  <1> QED
    BY <1>1, <1>2, InvInit, InvNext, PromisesStep, PTL DEF Spec

=============================================================================
