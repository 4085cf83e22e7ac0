---------------------------- MODULE RateLimiter ----------------------------
(***************************************************************************)
(* The rate limiter of internal/ratelimit: one Limiter, the requests that  *)
(* its middleware checks, and the clock they read.  A request is counted   *)
(* under its client's address and, when it carries a session, under its    *)
(* user too; both buckets are reserved and, when one of them has no token, *)
(* both reservations are taken back.                                       *)
(*                                                                         *)
(* A token bucket keeps its tokens as the time it took to earn them: Cost  *)
(* ticks make one token, Cap ticks the whole burst, and a tick earns a     *)
(* tick.  The buckets themselves are golang.org/x/time/rate limiters,      *)
(* modelled from how AllowAll uses them.                                   *)
(*                                                                         *)
(* AllowAll holds the Limiter's mutex from its eviction of idle keys to    *)
(* its answer, but it reads the clock before it takes the mutex: a request *)
(* that waits for the mutex works with an old time.                        *)
(***************************************************************************)
EXTENDS Integers, FiniteSets, Sequences

CONSTANTS Keys,        \* "ip:..." and "user:..." strings
          KeyLists,    \* the lists of keys that requests are counted under
          Requests,    \* requests that may be under way at the same time
          Cost,        \* ticks that earn one token: 60 / tokensPerMin seconds
          Cap,         \* ticks that earn the whole burst
          IdleFor,     \* defaultIdleFor
          MaxKeys,     \* defaultMaxKeys
          Second,      \* ticks in a second
          MaxTime,     \* bound: the clock stops here
          MaxSent,     \* bound: requests that are ever sent
          None

ASSUME LimiterAssumption ==
  /\ {Cost, Cap, IdleFor, MaxKeys, Second} \subseteq Nat \ {0}
  /\ {MaxTime, MaxSent} \subseteq Nat
  /\ Cost <= Cap                       \* New makes a burst of at least one
  /\ Cap <= IdleFor                    \* an idle key has earned its burst again
  /\ IsFiniteSet(Keys)
  /\ None \notin Requests

ASSUME KeyListsAssumption ==
  /\ KeyLists \subseteq Seq(Keys)
  /\ \A ks \in KeyLists : /\ Len(ks) > 0
                          /\ \A i, j \in 1 .. Len(ks) : ks[i] = ks[j] => i = j

VARIABLES clock,       \* the time
          held,        \* the keys that have a bucket
          seen,        \* lastSeen of a held key, also the bucket's own last time
          credit,      \* ticks the bucket of a held key had at that time
          mutex,       \* the request that holds the Limiter's mutex, or None
          req,         \* the requests
          sent,        \* requests sent so far
          spent,       \* ghost: ticks that admitted requests have used, per key
          grant,       \* ghost: ticks a key was given without earning them
          was,         \* ghost: what each key could spend when the mutex was taken
          promise      \* ghost: the last Retry-After answered to each request

table == <<held, seen, credit>>
ghosts == <<spent, grant, was, promise>>
vars == <<clock, table, mutex, req, sent, ghosts>>

Idle == [pc |-> "idle", keys |-> <<>>, now |-> 0, at |-> 1, delay |-> 0]
ReqType == [pc : {"idle", "arrived", "reserving"}, keys : KeyLists \cup {<<>>},
            now : Nat, at : Nat, delay : Nat]

NoPromise == [keys |-> {}, by |-> 0]

KeysOf(r) == {req[r].keys[i] : i \in 1 .. Len(req[r].keys)}
-----------------------------------------------------------------------------
Larger(a, b) == IF a < b THEN b ELSE a
Smaller(a, b) == IF a < b THEN a ELSE b

\* What the bucket of key k holds at time t.  A time before the bucket's own
\* earns nothing; a key without a bucket would get a full one.
Balance(k, t) ==
  IF k \in held THEN Smaller(Cap, credit[k] + Larger(0, t - seen[k])) ELSE Cap

Init ==
  /\ clock = 0
  /\ held = {}
  /\ seen = [k \in Keys |-> 0]
  /\ credit = [k \in Keys |-> 0]
  /\ mutex = None
  /\ req = [r \in Requests |-> Idle]
  /\ sent = 0
  /\ spent = [k \in Keys |-> 0]
  /\ grant = [k \in Keys |-> Cap]
  /\ was = [k \in Keys |-> Cap]
  /\ promise = [r \in Requests |-> NoPromise]

\* Time passes.  Nothing reads the clock while the mutex is held, so the time
\* spent there is counted before or after it.
Tick ==
  /\ clock < MaxTime
  /\ mutex = None
  /\ clock' = clock + 1
  /\ UNCHANGED <<table, mutex, req, sent, ghosts>>

(***************************************************************************)
(* AllowAll.                                                               *)
(***************************************************************************)
\* A request reaches the middleware, which names its keys, and AllowAll reads
\* the clock.
Arrive(r, ks) ==
  /\ req[r].pc = "idle"
  /\ sent < MaxSent
  /\ req' = [req EXCEPT ![r] = [pc |-> "arrived", keys |-> ks, now |-> clock, at |-> 1, delay |-> 0]]
  /\ sent' = sent + 1
  /\ UNCHANGED <<clock, table, mutex, ghosts>>

\* Mutant of IdleSince: keys are dropped before they have earned their burst.
IdleSinceSooner(k, t) == seen[k] < t - (IdleFor - Cost)

IdleSince(k, t) == seen[k] < t - IdleFor

\* The mutex is taken and keys not seen for IdleFor lose their buckets.
Enter(r) ==
  /\ req[r].pc = "arrived"
  /\ mutex = None
  /\ mutex' = r
  /\ req' = [req EXCEPT ![r] = [@ EXCEPT !.pc = "reserving"]]
  /\ held' = {k \in held : ~IdleSince(k, req[r].now)}
  /\ seen' = [k \in Keys |-> IF k \in held' THEN seen[k] ELSE 0]
  /\ credit' = [k \in Keys |-> IF k \in held' THEN credit[k] ELSE 0]
  /\ was' = [k \in Keys |-> Balance(k, clock)]
  /\ UNCHANGED <<clock, sent, spent, grant, promise>>

Full == Cardinality(held) >= MaxKeys

\* A key that was seen least recently; map order decides among equals.
Oldest == {k \in held : \A j \in held : seen[k] <= seen[j]}

\* The time that key k will earn a second time because its bucket is left
\* with the old time t of a request that waited for the mutex.
Regained(k, t) == IF k \in held THEN Larger(0, seen[k] - t) ELSE clock - t

\* A request after one more reservation, which left the bucket with c: maxDelay
\* is the longest of the delays.
Counted(q, c) == [q EXCEPT !.at = @ + 1, !.delay = Larger(@, -c)]

\* One key of the list: it gets a bucket if it has none, in the place of the
\* oldest one when the table is full, and one token of it is reserved.  gone
\* is the set of evicted keys.
Reserve(r, k, gone) ==
  LET t == req[r].now
      c == Balance(k, t) - Cost
  IN  /\ held' = (held \ gone) \cup {k}
      /\ seen' = [j \in Keys |-> IF j = k THEN t ELSE IF j \in gone THEN 0 ELSE seen[j]]
      /\ credit' = [j \in Keys |-> IF j = k THEN c ELSE IF j \in gone THEN 0 ELSE credit[j]]
      /\ req' = [req EXCEPT ![r] = Counted(req[r], c)]
      /\ grant' = [j \in Keys |-> grant[j] + (IF j = k THEN Regained(k, t) ELSE 0)
                                          + (IF j \in gone THEN Cap ELSE 0)]
      /\ UNCHANGED <<clock, mutex, sent, spent, was, promise>>

ReserveKey(r) ==
  /\ mutex = r
  /\ req[r].at <= Len(req[r].keys)
  /\ LET k == req[r].keys[req[r].at]
     IN  IF k \in held \/ ~Full
           THEN Reserve(r, k, {})
           ELSE \E o \in Oldest : Reserve(r, k, {o})

Leave(r) ==
  /\ mutex = r
  /\ req[r].at > Len(req[r].keys)
  /\ mutex' = None
  /\ req' = [req EXCEPT ![r] = Idle]
  /\ was' = [k \in Keys |-> Cap]

\* Every key had its token: the handler behind the middleware runs.
Admit(r) ==
  /\ Leave(r)
  /\ req[r].delay = 0
  /\ spent' = [k \in Keys |-> spent[k] + (IF k \in KeysOf(r) THEN Cost ELSE 0)]
  /\ promise' = [q \in Requests |->
                   IF promise[q].keys \cap KeysOf(r) = {} THEN promise[q] ELSE NoPromise]
  /\ UNCHANGED <<clock, table, sent, grant>>

\* Mutant of Restored: only the key that was asked first gets its token back.
RestoredFirst(r, k) ==
  credit[k] + (IF k = req[r].keys[1] /\ k \in held THEN Cost ELSE 0)

\* A cancelled reservation returns its token; one on a bucket that was
\* evicted in the meantime returns it to nobody.
Restored(r, k) ==
  credit[k] + (IF k \in KeysOf(r) \cap held THEN Cost ELSE 0)

\* Mutant of RetryAfter: the seconds are cut off instead of rounded up.
RetryAfterCutOff(d) == Larger(1, d \div Second)

\* The header's whole seconds.
RetryAfter(d) == Larger(1, (d + Second - 1) \div Second)

\* Some key had no token: every reservation is cancelled and the answer is
\* 429 with the time to wait.
Refuse(r) ==
  /\ Leave(r)
  /\ req[r].delay > 0
  /\ credit' = [k \in Keys |-> Restored(r, k)]
  /\ promise' = [promise EXCEPT ![r] = [keys |-> KeysOf(r),
                                        by |-> clock + Second * RetryAfter(req[r].delay)]]
  /\ UNCHANGED <<clock, held, seen, sent, spent, grant>>
-----------------------------------------------------------------------------
Next ==
  \/ Tick
  \/ \E r \in Requests :
       \/ \E ks \in KeyLists : Arrive(r, ks)
       \/ Enter(r)
       \/ ReserveKey(r)
       \/ Admit(r)
       \/ Refuse(r)

Spec == Init /\ [][Next]_vars
-----------------------------------------------------------------------------
(* The properties. *)

\* Types, and that the table of buckets never outgrows MaxKeys.
TypeOK ==
  /\ clock \in 0 .. MaxTime
  /\ held \subseteq Keys
  /\ Cardinality(held) <= MaxKeys
  /\ seen \in [Keys -> 0 .. MaxTime]
  /\ credit \in [Keys -> Int]
  /\ mutex \in Requests \cup {None}
  /\ req \in [Requests -> ReqType]
  /\ sent \in 0 .. MaxSent
  /\ spent \in [Keys -> Nat]
  /\ grant \in [Keys -> Nat]
  /\ was \in [Keys -> Int]
  /\ promise \in [Requests -> [keys : SUBSET Keys, by : Nat]]

\* The limit that AllowAll enforces over any length of time: what a key spends
\* never exceeds its burst and the time that has passed.  It is given more
\* only when a full table evicted it (a new burst) and when a request that
\* waited for the mutex left its old time in the bucket (the waiting time once
\* more); dropping an idle key gives nothing away.
AdmissionBound == \A k \in Keys : spent[k] <= clock + grant[k]

\* middleware.go's rollback: a refused request leaves every key, its own and
\* those it evicted, able to spend at least what it could before; an admitted
\* one takes one token from each of its keys and nothing from the others.
RefusalIsFree ==
  [][\A r \in Requests : mutex = r /\ mutex' = None =>
       \A k \in Keys :
         Balance(k, clock)' >= was[k] - (IF k \in KeysOf(r) /\ spent' # spent THEN Cost ELSE 0)]_vars

\* The Retry-After of a 429 is long enough: a client that waits for it finds a
\* token in each of its keys unless somebody was admitted under one of them
\* since, whatever other requests were refused meanwhile.
RetryAfterSuffices ==
  mutex = None =>
    \A r \in Requests : \A k \in promise[r].keys :
      clock >= promise[r].by => Balance(k, clock) >= Cost

=============================================================================
