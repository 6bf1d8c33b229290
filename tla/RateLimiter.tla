------------------------------ MODULE RateLimiter ------------------------------
(***************************************************************************)
(* RateLimitMiddleware keeps a token bucket for each client address.  A    *)
(* request reserves a token; if it would have to wait for it, it gives the *)
(* reservation back and is refused with the time to retry after.  A bucket *)
(* that nobody has used for a while is dropped.  Buckets share nothing:    *)
(* this is one client's.                                                   *)
(*                                                                         *)
(* Time is counted in ticks.  The bucket is its limiter's "full": the time *)
(* at which it has all its tokens again.                                   *)
(***************************************************************************)
EXTENDS Naturals

CONSTANTS
    Requests,
    Period,     \* ticks for one token: 1 / RequestsPerSecond
    Burst,
    Second,     \* ticks in a second
    Idle,       \* ticks after which evictLoop drops a bucket
    MaxTime,    \* bound: the time looked at
    MaxSent     \* bound: requests sent in that time

\* Config.Validate: both the rate and the burst are positive.
ASSUME RateAssumption ==
    /\ {Period, Burst, Second, MaxTime} \subseteq Nat \ {0}
    /\ {Idle, MaxSent} \subseteq Nat

VARIABLES
    now,
    bucket,     \* when the bucket is full, and when its last reservation acts
    seen,       \* lastSeen
    act,        \* when the reservation of each request acts
    ratePc,     \* where each request is in the middleware
    sent,       \* requests so far
    credit,     \* history: a bucket that was never dropped and only pays for
                \* what was admitted
    told        \* history: the longest it has been told to wait for since one
                \* was admitted

rateVars == <<now, bucket, seen, act, ratePc, sent, credit, told>>

NewBucket == [full |-> 0, lastEvent |-> 0]

RateTypeOK ==
    /\ now \in 1..MaxTime
    /\ bucket \in [full : Nat, lastEvent : Nat]
    /\ seen \in 0..MaxTime
    /\ act \in [Requests -> Nat]
    /\ ratePc \in [Requests -> {"idle", "reserve", "cancel"}]
    /\ sent \in 0..MaxSent
    /\ credit \in Nat
    /\ told \in Nat

RateInit ==
    /\ now = 1
    /\ bucket = NewBucket
    /\ seen = 0
    /\ act = [r \in Requests |-> 0]
    /\ ratePc = [r \in Requests |-> "idle"]
    /\ sent = 0
    /\ credit = 0
    /\ told = 0

-----------------------------------------------------------------------------
Later(a, b) == IF a > b THEN a ELSE b
GoTo(r, p) == ratePc' = [ratePc EXCEPT ![r] = p]

\* Mutant of Get: only a new bucket has been seen.
GetUnseen(r) ==
    /\ ratePc[r] = "idle"
    /\ sent < MaxSent
    /\ sent' = sent + 1
    /\ GoTo(r, "reserve")
    /\ seen' = IF seen = 0 THEN now ELSE seen
    /\ UNCHANGED <<now, bucket, act, credit, told>>

\* The request gets its client's limiter, in the lock of the map.
Get(r) ==
    /\ ratePc[r] = "idle"
    /\ sent < MaxSent
    /\ sent' = sent + 1
    /\ GoTo(r, "reserve")
    /\ seen' = now
    /\ UNCHANGED <<now, bucket, act, credit, told>>

\* It reads the time and reserves a token.
Reserve(r) ==
    /\ ratePc[r] = "reserve"
    /\ LET full == Later(bucket.full, now) + Period
           at == Later(now, full - Burst * Period)
       IN  /\ bucket' = [full |-> full, lastEvent |-> at]
           /\ act' = [act EXCEPT ![r] = at]
           /\ IF at = now
              THEN /\ GoTo(r, "idle")  \* the request is served
                   /\ credit' = Later(credit, now) + Period
                   /\ told' = 0
              ELSE /\ GoTo(r, "cancel")
                   /\ told' = Later(told, now + ((at - now) \div Second + 1) * Second)
                   /\ UNCHANGED credit
    /\ UNCHANGED <<now, seen, sent>>

\* What a reservation that is given back restores: less if others came after it,
\* and nothing once its time has come.
Restored(r) ==
    LET after == bucket.lastEvent - act[r]
        full == Later(bucket.full, now)
    IN  IF act[r] < now \/ after >= Period THEN bucket
        ELSE [full |-> Later(full - (Period - after), now),
              lastEvent |-> IF after = 0 /\ act[r] - Period >= now THEN act[r] - Period
                            ELSE bucket.lastEvent]

\* The request is refused.
Cancel(r) ==
    /\ ratePc[r] = "cancel"
    /\ bucket' = Restored(r)
    /\ GoTo(r, "idle")
    /\ UNCHANGED <<now, seen, act, sent, credit, told>>

\* The bucket has not been used since the cutoff.  A request that holds it has
\* used it a moment ago.
Evict ==
    /\ seen + Idle < now
    /\ \A r \in Requests : ratePc[r] = "idle"
    /\ bucket' = NewBucket
    /\ seen' = 0
    /\ UNCHANGED <<now, act, ratePc, sent, credit, told>>

\* Requests in the middleware take no time.
Tick ==
    /\ now < MaxTime
    /\ \A r \in Requests : ratePc[r] = "idle"
    /\ now' = now + 1
    /\ UNCHANGED <<bucket, seen, act, ratePc, sent, credit, told>>

RateNext ==
    \/ \E r \in Requests : Get(r) \/ Reserve(r) \/ Cancel(r)
    \/ Evict \/ Tick
    \/ now = MaxTime /\ UNCHANGED rateVars

RateSpec == RateInit /\ [][RateNext]_rateVars

-----------------------------------------------------------------------------
\* In no interval are more requests served than the burst and one for each period,
\* whatever is reserved, given back and dropped in between.
WithinRate == credit <= now + Burst * Period

\* A client that waits for the longest time it has been told, and then sends one
\* request, is admitted, however its earlier requests overlapped.
RetryAdmitted ==
    \A r \in Requests :
        /\ ratePc[r] = "reserve"
        /\ told # 0 /\ now >= told
        /\ \A q \in Requests \ {r} : ratePc[q] = "idle"
        => ratePc'[r] # "cancel"

\* The middleware serves no more than its rate, and keeps its word.
RateHeld == [][RateTypeOK' /\ WithinRate' /\ RetryAdmitted]_rateVars
=============================================================================
