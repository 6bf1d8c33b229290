----------------------------- MODULE QueriesProofs -----------------------------
(*****************************************************************************)
(* cw_logs_query for any timeouts, poll interval and patience of stopQuery.  *)
(* What bounds the time of the call is what it waits for: Bounded says, by   *)
(* where the task is, how late that may be. A pause between two polls may    *)
(* begin just before the deadline, and StopQuery after the pause.            *)
(*                                                                           *)
(* The rate limiter for any rate, burst and number of requests, as long as a *)
(* bucket is not dropped before it would have been full again: it serves no  *)
(* more than its rate, and a client that waits as it is told is served. The  *)
(* argument is about the reservations that are not given back yet. They act  *)
(* later than now, a Period or more apart, and the bucket is full no earlier *)
(* than the burst after each of them (Waiting, Apart); so what is given back *)
(* never counts for a request that was served (Paid), and when all are given *)
(* back the bucket has a token no later than the last of them would have     *)
(* acted (FullInTime).                                                       *)
(*                                                                           *)
(* get_resource and list_resources for any kinds, namespaces and denylist: a *)
(* reference shows what it was listed for (ListedIsKnown), and an answer     *)
(* fits the call it was given to as long as it is there (AnswerFits).        *)
(*                                                                           *)
(* securityhub_get_findings_statistics for any findings, pages, statuses,    *)
(* types and calls: what a call has counted is what comes between the token  *)
(* it was given and the one it has got to, what the caller has added up is   *)
(* what comes before (ChainInv); and a status asked for counts findings of   *)
(* its own only, and all of them unless capped (BucketInv).                  *)
(*                                                                           *)
(* securityhub_get_insight_statistics for every number of processes, calls,  *)
(* queries and attempts: whose results a successful call returns, that the   *)
(* insights of users are left alone, and what calls do to each other. A call *)
(* that has been given its slot knows how often the name changed since       *)
(* (SlotInv), and the calls of one process come one by one.                  *)
(*                                                                           *)
(* pv_usage for any nodes, claims and usages: every node that is left has    *)
(* one result, and the first i results come to the highest usage of each     *)
(* claim on the nodes that answered (Highest), which is shown of all i       *)
(* because there is no first i it fails for.                                 *)
(*                                                                           *)
(* The two ways to a log, for any number of lines and any limit. A line that *)
(* is read and not sent is the one in hand, or no more is sent (HandlerInv). *)
(* A character has at most three bytes, so at most two are dropped before    *)
(* what is left is valid (KeptIs), and lines are counted by where they begin *)
(* (LinesBegin).                                                             *)
(*                                                                           *)
(* The SPIRE client for any domains and number of rotations: a bundle holds  *)
(* what its endpoint has served and was fetched before it is watched         *)
(* (BundleInv).                                                              *)
(*****************************************************************************)
EXTENDS RateLimiter, LogsQuery, ResourceAccess, FindingsStatistics, InsightSlot, PvUsage,
        Logs, SpireClient, Integers, FiniteSetTheorems, SequenceTheorems, WellFoundedInduction,
        TLAPS

-----------------------------------------------------------------------------
(* The query *)

\* Durations.
DurationsAreNat ==
    Timeouts \subseteq Nat /\ PollInterval \in Nat /\ StopWithin \in Nat

Bounded ==
    /\ elapsed <= timeout + PollInterval + StopWithin
    /\ step = "start" => elapsed = 0
    /\ step \in {"loop", "poll", "wait"} => deadline = timeout
    /\ step = "loop" => elapsed <= timeout + PollInterval
    /\ step = "poll" => elapsed <= until /\ until = deadline
    /\ step = "wait" => elapsed <= until /\ until <= timeout + PollInterval
    /\ step = "stop" => elapsed <= until /\ until <= timeout + PollInterval + StopWithin
    /\ step = "stop" => verdict # "none"

QueryInv == QueryTypeOK /\ NotLeftRunning /\ Bounded

-----------------------------------------------------------------------------
\* The steps of the task itself, which take no time.
LEMMA TaskInv == ASSUME QueryInv, DurationsAreNat, Task PROVE QueryInv'
<1> timeout \in Nat /\ elapsed \in Nat /\ deadline \in Nat /\ until \in Nat
  BY DEF QueryInv, QueryTypeOK, DurationsAreNat
<1> USE DEF QueryInv, QueryTypeOK, Ends, NotLeftRunning, Bounded, DurationsAreNat, Still
<1>1. CASE StartQuery
  BY <1>1 DEF StartQuery
<1>2. CASE Loop
  BY <1>2 DEF Loop, Stop, PollEnds
<1>3. CASE PollAnswered
  BY <1>3 DEF PollAnswered
<1>4. CASE PollFails
  BY <1>4 DEF PollFails
<1>5. CASE PollExpires
  BY <1>5 DEF PollExpires, Stop
<1>6. CASE Wait
  BY <1>6 DEF Wait, Stop
<1>7. CASE StopQuery
  BY <1>7 DEF StopQuery, Stopped
<1> QED
  BY <1>1, <1>2, <1>3, <1>4, <1>5, <1>6, <1>7 DEF Task

\* The service, the caller and the time.
LEMMA OthersInv ==
    ASSUME QueryInv, DurationsAreNat, QueryEnds \/ CallerLeaves \/ QueryTick \/ UNCHANGED queryVars
    PROVE  QueryInv'
<1> timeout \in Nat /\ elapsed \in Nat /\ deadline \in Nat /\ until \in Nat
  BY DEF QueryInv, QueryTypeOK, DurationsAreNat
<1> USE DEF QueryInv, QueryTypeOK, Ends, NotLeftRunning, Bounded, DurationsAreNat
<1>1. CASE QueryEnds
  BY <1>1 DEF QueryEnds
<1>2. CASE CallerLeaves
  BY <1>2 DEF CallerLeaves
<1>3. CASE QueryTick
  BY <1>3 DEF QueryTick
<1>4. CASE UNCHANGED queryVars
  BY <1>4 DEF queryVars
<1> QED
  BY <1>1, <1>2, <1>3, <1>4

\* A query the task gives up on is stopped unless StopQuery is lost, and the task
\* answers within its timeout, one pause and one StopQuery, whatever these are.
THEOREM GivesUpCleanly == ASSUME DurationsAreNat PROVE QuerySpec => []QueryGivenUp
<1>1. QueryInit => QueryInv
  <2> SUFFICES ASSUME QueryInit PROVE QueryInv
    OBVIOUS
  <2>1. timeout \in Nat
    BY DEF QueryInit, DurationsAreNat
  <2>2. QueryTypeOK
    <3>1. caller \in BOOLEAN /\ stopLost \in BOOLEAN
      BY Zenon DEF QueryInit
    <3>2. {elapsed, deadline, until} \subseteq Nat
      BY DEF QueryInit
    <3> QED
      BY <3>1, <3>2 DEF QueryInit, QueryTypeOK
  <2>3. Bounded /\ NotLeftRunning
    BY <2>1 DEF QueryInit, Bounded, NotLeftRunning, DurationsAreNat
  <2> QED
    BY <2>2, <2>3 DEF QueryInv
<1>2. QueryInv /\ [QueryNext]_queryVars => QueryInv'
  BY TaskInv, OthersInv DEF QueryNext, Ended
<1>3. QueryInv => QueryGivenUp
  BY DEF QueryInv, Bounded, QueryGivenUp, AnswersInTime
<1> QED
  BY <1>1, <1>2, <1>3, PTL DEF QuerySpec

-----------------------------------------------------------------------------
(* The rate limiter *)

Deep == Burst * Period
Cancelling == {r \in Requests : ratePc[r] = "cancel"}

Waiting ==
    \A r \in Cancelling :
        /\ now < act[r] /\ act[r] <= bucket.lastEvent
        /\ act[r] + Deep <= bucket.full
        /\ credit + Period <= act[r] + Deep
        /\ told # 0

Apart ==
    \A r, q \in Cancelling : r # q => act[r] + Period <= act[q] \/ act[q] + Period <= act[r]

Paid ==
    /\ credit <= bucket.full \/ credit <= now
    /\ credit <= now + Deep
    /\ seen <= now
    /\ seen = 0 => credit <= now
    /\ seen # 0 => credit <= seen + Deep
    /\ \A r \in Requests : ratePc[r] # "idle" => seen = now

\* Somebody who is still to give back has the last reservation, or it has been
\* given back.
FullInTime ==
    told # 0 =>
        /\ Cancelling = {} => bucket.full + Period < told + Deep
        /\ Cancelling # {} =>
              /\ bucket.lastEvent < told
              /\ bucket.full <= bucket.lastEvent + Deep
              /\ \/ \E r \in Cancelling : act[r] = bucket.lastEvent
                 \/ bucket.lastEvent + Period < told

IInv == RateTypeOK /\ Waiting /\ Apart /\ Paid /\ FullInTime

\* A bucket that is dropped would have been full.
IdleEnough == Deep <= Idle

-----------------------------------------------------------------------------
\* The burst takes at least as long to fill as a token.
LEMMA DeepNat == Deep \in Nat /\ Period <= Deep /\ Period \in Nat \ {0}
<1>1. Burst \in Nat \ {0} /\ Period \in Nat \ {0}
  BY RateAssumption
<1> QED
  BY <1>1 DEF Deep

\* A client is told to wait for whole seconds beyond the delay.
LEMMA Rounded ==
    ASSUME NEW d \in Nat
    PROVE  d < (d \div Second + 1) * Second /\ (d \div Second + 1) * Second \in Nat
<1>1. Second \in Nat \ {0}
  BY RateAssumption
<1> QED
  BY <1>1, SMTT(30)

LEMMA InitInv == ASSUME RateInit PROVE IInv
<1>1. Cancelling = {}
  BY DEF RateInit, Cancelling
<1> QED
  BY <1>1, RateAssumption, DeepNat
     DEF RateInit, IInv, RateTypeOK, Waiting, Apart, Paid, FullInTime, NewBucket

LEMMA GetInv == ASSUME IInv, NEW r \in Requests, Get(r) PROVE IInv'
<1>1. Cancelling' = Cancelling
  BY DEF Get, GoTo, Cancelling, IInv, RateTypeOK
<1>2. RateTypeOK'
  BY RateAssumption DEF Get, GoTo, IInv, RateTypeOK
<1>3. now \in Nat /\ credit \in Nat /\ Deep \in Nat /\ now # 0
  BY DeepNat, RateAssumption DEF IInv, RateTypeOK
<1> QED
  BY <1>1, <1>2, <1>3 DEF Get, IInv, Waiting, Apart, Paid, FullInTime

\* As long as a reservation is to be given back, none is made that acts at once.
LEMMA ReserveInv == ASSUME IInv, NEW r \in Requests, Reserve(r) PROVE IInv'
<1> DEFINE full == Later(bucket.full, now) + Period
           acts == Later(now, full - Deep)
<1>1. /\ now \in Nat \ {0} /\ bucket.full \in Nat /\ bucket.lastEvent \in Nat
      /\ credit \in Nat /\ told \in Nat /\ seen \in Nat /\ act \in [Requests -> Nat]
      /\ ratePc \in [Requests -> {"idle", "reserve", "cancel"}]
      /\ MaxTime \in Nat
  BY RateAssumption DEF IInv, RateTypeOK
<1>2. full \in Nat /\ acts \in Nat
  BY <1>1, DeepNat DEF Later
<1>3. /\ ratePc[r] = "reserve"
      /\ bucket' = [full |-> full, lastEvent |-> acts]
      /\ act' = [act EXCEPT ![r] = acts]
      /\ now' = now /\ seen' = seen /\ sent' = sent
  BY DEF Reserve, Deep
<1>4. bucket'.full = full /\ bucket'.lastEvent = acts
  BY <1>3
<1>5. seen = now
  BY <1>3 DEF IInv, Paid
<1>6. CASE acts = now
  <2>1. /\ ratePc' = [ratePc EXCEPT ![r] = "idle"]
        /\ credit' = Later(credit, now) + Period
        /\ told' = 0
    BY <1>6 DEF Reserve, GoTo, Deep
  <2>2. full <= now + Deep
    BY <1>1, <1>2, <1>6, DeepNat DEF Later
  <2>3. Cancelling = {}
    <3> SUFFICES ASSUME NEW q \in Cancelling PROVE FALSE
      OBVIOUS
    <3>1. now < act[q] /\ act[q] + Deep <= bucket.full /\ act[q] \in Nat
      BY <1>1 DEF IInv, Waiting, Cancelling
    <3> QED
      BY <1>1, <1>2, <2>2, <3>1, DeepNat DEF Later
  <2>4. Cancelling' = {}
    BY <1>1, <2>1, <2>3 DEF Cancelling
  <2>5. credit' <= full /\ credit' \in Nat
    BY <1>1, <2>1, DeepNat DEF Later, IInv, Paid
  <2>6. RateTypeOK'
    BY <1>1, <1>2, <1>3, <2>1, <2>5 DEF IInv, RateTypeOK
  <2>7. Paid'
    BY <1>1, <1>2, <1>3, <1>4, <1>5, <2>1, <2>2, <2>5, DeepNat DEF Paid, IInv
  <2> QED
    BY <2>1, <2>4, <2>6, <2>7 DEF IInv, Waiting, Apart, FullInTime
<1>7. CASE acts # now
  <2>1. /\ ratePc' = [ratePc EXCEPT ![r] = "cancel"]
        /\ credit' = credit
        /\ told' = Later(told, now + ((acts - now) \div Second + 1) * Second)
    BY <1>7 DEF Reserve, GoTo, Deep
  <2>2. acts = full - Deep /\ now < acts
    BY <1>1, <1>2, <1>7, DeepNat DEF Later
  <2>3. acts < told' /\ told' \in Nat
    <3>1. acts - now \in Nat
      BY <1>1, <1>2, <2>2
    <3> QED
      BY <1>1, <1>2, <2>1, <3>1, Rounded DEF Later
  <2>4. r \notin Cancelling /\ Cancelling' = Cancelling \cup {r}
    BY <1>1, <1>3, <2>1 DEF Cancelling
  <2>5. act'[r] = acts /\ \A q \in Cancelling : act'[q] = act[q] /\ act[q] \in Nat
    BY <1>1, <1>3, <2>4 DEF Cancelling
  <2>6. \A q \in Cancelling : act[q] + Period <= acts
    BY <1>1, <1>2, <2>2, <2>5, DeepNat DEF IInv, Waiting, Later
  <2>7. credit + Period <= full
    BY <1>1, <1>2, DeepNat DEF IInv, Paid, Later
  <2>8. RateTypeOK'
    BY <1>1, <1>2, <1>3, <2>1, <2>3 DEF IInv, RateTypeOK
  <2>9. Waiting'
    BY <1>1, <1>2, <1>3, <1>4, <2>1, <2>2, <2>3, <2>4, <2>5, <2>6, <2>7, DeepNat
       DEF Waiting, IInv
  <2>10. Apart'
    BY <2>4, <2>5, <2>6 DEF Apart, IInv
  <2>11. Paid'
    BY <1>1, <1>2, <1>3, <1>4, <1>5, <2>1, <2>7, DeepNat DEF Paid, IInv
  <2>12. FullInTime'
    BY <1>2, <1>4, <2>2, <2>3, <2>4, <2>5, DeepNat DEF FullInTime
  <2> QED
    BY <2>8, <2>9, <2>10, <2>11, <2>12 DEF IInv
<1> QED
  BY <1>6, <1>7

\* What is given back was never counted for a request that was served.
LEMMA CancelInv == ASSUME IInv, NEW r \in Requests, Cancel(r) PROVE IInv'
<1> DEFINE after == bucket.lastEvent - act[r]
           full == Later(bucket.full, now)
<1>1. /\ now \in Nat \ {0} /\ bucket \in [full : Nat, lastEvent : Nat]
      /\ bucket.full \in Nat /\ bucket.lastEvent \in Nat
      /\ credit \in Nat /\ told \in Nat /\ seen \in Nat /\ act \in [Requests -> Nat]
      /\ ratePc \in [Requests -> {"idle", "reserve", "cancel"}]
  BY RateAssumption DEF IInv, RateTypeOK
<1>2. /\ ratePc[r] = "cancel" /\ r \in Cancelling
      /\ bucket' = Restored(r)
      /\ ratePc' = [ratePc EXCEPT ![r] = "idle"]
      /\ UNCHANGED <<now, seen, act, sent, credit, told>>
  BY DEF Cancel, GoTo, Cancelling
<1>3. /\ now < act[r] /\ act[r] <= bucket.lastEvent
      /\ act[r] + Deep <= bucket.full
      /\ credit + Period <= act[r] + Deep
      /\ told # 0
  BY <1>2 DEF IInv, Waiting
<1>4. full = bucket.full /\ after \in Nat /\ act[r] \in Nat
  BY <1>1, <1>3, DeepNat DEF Later
<1>5. Cancelling' = Cancelling \ {r}
  BY <1>1, <1>2 DEF Cancelling
<1>6. \A q \in Cancelling' :
          /\ act'[q] = act[q] /\ act[q] \in Nat /\ q \in Cancelling
          /\ act[r] + Period <= act[q] \/ act[q] + Period <= act[r]
          /\ now < act[q] /\ act[q] <= bucket.lastEvent
          /\ act[q] + Deep <= bucket.full
  BY <1>1, <1>2, <1>5 DEF IInv, Apart, Waiting, Cancelling
<1>7. Apart'
  BY <1>2, <1>5 DEF IInv, Apart
<1>8. told # 0 /\ bucket.lastEvent < told /\ bucket.full <= bucket.lastEvent + Deep
      /\ (bucket.lastEvent + Period < told \/ \E q \in Cancelling : act[q] = bucket.lastEvent)
  BY <1>2, <1>3 DEF IInv, FullInTime
<1>9. CASE after >= Period
  <2>1. bucket' = bucket
    BY <1>2, <1>9 DEF Restored
  <2>2. RateTypeOK' /\ Waiting' /\ Paid'
    BY <1>1, <1>2, <1>5, <2>1 DEF IInv, RateTypeOK, Waiting, Paid
  <2>3. FullInTime'
    <3>1. CASE bucket.lastEvent + Period < told
      BY <1>1, <1>2, <1>8, <2>1, <3>1, DeepNat DEF FullInTime
    <3>2. CASE \E q \in Cancelling : act[q] = bucket.lastEvent
      <4>1. PICK q \in Cancelling : act[q] = bucket.lastEvent
        BY <3>2
      <4>2. q # r
        BY <1>1, <1>4, <1>9, <4>1, DeepNat
      <4> QED
        BY <1>2, <1>5, <1>8, <2>1, <4>1, <4>2 DEF FullInTime
    <3> QED
      BY <1>8, <3>1, <3>2
  <2> QED
    BY <1>7, <2>2, <2>3 DEF IInv
<1>10. CASE after < Period
  <2> DEFINE back == full - (Period - after)
             last == IF after = 0 /\ act[r] - Period >= now THEN act[r] - Period
                     ELSE bucket.lastEvent
  <2>1. bucket' = [full |-> Later(back, now), lastEvent |-> last]
    <3>1. ~(act[r] < now \/ after >= Period)
      BY <1>1, <1>3, <1>4, <1>10, DeepNat
    <3> QED
      BY <1>2, <3>1 DEF Restored
  <2>2. bucket'.full = Later(back, now) /\ bucket'.lastEvent = last
    BY <2>1
  <2>3. /\ back = bucket.full + after - Period /\ back \in Int
        /\ Later(back, now) \in Nat /\ last \in Nat
        /\ back <= Later(back, now) /\ now <= Later(back, now)
        /\ Later(back, now) \in {back, now}
    BY <1>1, <1>4, DeepNat DEF Later
  <2>4. credit <= back
    BY <1>1, <1>3, <1>4, <2>3, DeepNat
  <2>5. \A q \in Cancelling' : act[q] + Period <= act[r]
    BY <1>1, <1>4, <1>6, <1>10, DeepNat
  <2>6. RateTypeOK'
    BY <1>1, <1>2, <2>1, <2>3 DEF IInv, RateTypeOK
  <2>7. Paid'
    BY <1>1, <1>2, <2>2, <2>3, <2>4, DeepNat DEF IInv, Paid
  <2>8. \A q \in Cancelling' : act[q] + Deep <= back /\ act[q] <= last
    BY <1>1, <1>3, <1>4, <1>6, <2>3, <2>5, DeepNat
  <2>9. Waiting'
    BY <1>1, <1>2, <1>5, <1>6, <2>2, <2>3, <2>8, DeepNat DEF IInv, Waiting
  <2>10. FullInTime'
    <3>1. CASE Cancelling' = {}
      <4>1. back + Period < told + Deep
        <5>1. CASE after = 0
          BY <1>1, <1>4, <1>8, <2>3, <5>1, DeepNat
        <5>2. CASE after # 0
          <6>1. bucket.lastEvent + Period < told
            BY <1>1, <1>4, <1>5, <1>8, <3>1, <5>2
          <6> QED
            BY <1>1, <1>4, <1>8, <1>10, <2>3, <6>1, DeepNat
        <5> QED
          BY <5>1, <5>2
      <4>2. now + Period < told + Deep
        BY <1>1, <1>3, <1>4, <1>8, DeepNat
      <4> QED
        BY <1>2, <2>2, <2>3, <3>1, <4>1, <4>2 DEF FullInTime
    <3>2. CASE Cancelling' # {}
      <4>1. PICK q \in Cancelling' : TRUE
        BY <3>2
      <4>2. act[q] + Period <= act[r] /\ now < act[q] /\ act[q] \in Nat
        BY <1>6, <2>5, <4>1
      <4>3. CASE after = 0
        <5>1. last = act[r] - Period /\ bucket.lastEvent = act[r]
          BY <1>1, <1>4, <4>2, <4>3, DeepNat
        <5>2. last + Period < told /\ back <= last + Deep
          BY <1>1, <1>4, <1>8, <2>3, <4>3, <5>1, DeepNat
        <5>3. Later(back, now) = back
          BY <1>1, <1>6, <2>3, <2>8, <4>1, <4>2, DeepNat
        <5> QED
          BY <1>1, <1>2, <2>2, <2>3, <3>2, <5>2, <5>3, DeepNat DEF FullInTime
      <4>4. CASE after # 0
        <5>1. last = bucket.lastEvent /\ back <= bucket.full
          BY <1>1, <1>4, <1>10, <2>3, <4>4, DeepNat
        <5>2. bucket.lastEvent + Period < told
          <6> SUFFICES ASSUME NEW p \in Cancelling, act[p] = bucket.lastEvent PROVE FALSE
            BY <1>8
          <6>1. p # r
            BY <1>1, <1>4, <4>4
          <6>2. act[p] + Period <= act[r] /\ act[p] \in Nat
            BY <1>5, <1>6, <2>5, <6>1
          <6> QED
            BY <1>1, <1>3, <1>4, <6>2, DeepNat
        <5>3. Later(back, now) = back
          BY <1>1, <1>6, <2>3, <2>8, <4>1, <4>2, DeepNat
        <5> QED
          BY <1>1, <1>2, <1>8, <2>2, <2>3, <3>2, <5>1, <5>2, <5>3, DeepNat DEF FullInTime
      <4> QED
        BY <4>3, <4>4
    <3> QED
      BY <3>1, <3>2
  <2> QED
    BY <1>7, <2>6, <2>7, <2>9, <2>10 DEF IInv
<1> QED
  BY <1>1, <1>4, <1>9, <1>10, DeepNat

LEMMA EvictInv == ASSUME IInv, IdleEnough, Evict PROVE IInv'
<1>1. /\ Cancelling = {} /\ Cancelling' = {}
      /\ \A r \in Requests : ratePc[r] = "idle"
  BY DEF Evict, Cancelling
<1>2. /\ now \in Nat /\ credit \in Nat /\ told \in Nat /\ seen \in Nat
      /\ bucket.full \in Nat /\ Idle \in Nat
  BY RateAssumption DEF IInv, RateTypeOK
<1>3. /\ bucket' = NewBucket /\ bucket'.full = 0 /\ seen' = 0
      /\ UNCHANGED <<now, act, ratePc, sent, credit, told>>
      /\ seen + Idle < now
  BY DEF Evict, NewBucket
<1>4. credit <= now
  BY <1>2, <1>3, DeepNat DEF IdleEnough, IInv, Paid
<1>5. RateTypeOK'
  BY <1>3, RateAssumption DEF NewBucket, IInv, RateTypeOK
<1>6. Paid'
  BY <1>1, <1>2, <1>3, <1>4, DeepNat DEF Paid
<1>7. FullInTime'
  BY <1>1, <1>2, <1>3, DeepNat DEF FullInTime
<1> QED
  BY <1>1, <1>5, <1>6, <1>7 DEF IInv, Waiting, Apart

LEMMA TickInv == ASSUME IInv, Tick PROVE IInv'
<1>1. /\ Cancelling = {} /\ Cancelling' = {}
      /\ \A r \in Requests : ratePc[r] = "idle"
  BY DEF Tick, Cancelling
<1>2. now \in Nat /\ credit \in Nat /\ seen \in Nat /\ bucket.full \in Nat /\ MaxTime \in Nat
  BY RateAssumption DEF IInv, RateTypeOK
<1>3. RateTypeOK'
  BY RateAssumption DEF Tick, IInv, RateTypeOK
<1>4. Paid'
  BY <1>1, <1>2, DeepNat DEF Tick, IInv, Paid
<1> QED
  BY <1>1, <1>3, <1>4 DEF Tick, IInv, Waiting, Apart, FullInTime

LEMMA NextInv == ASSUME IInv, IdleEnough, [RateNext]_rateVars PROVE IInv'
<1>1. CASE UNCHANGED rateVars
  <2>1. Cancelling' = Cancelling
    BY <1>1 DEF rateVars, Cancelling
  <2> QED
    BY <1>1, <2>1 DEF rateVars, IInv, RateTypeOK, Waiting, Apart, Paid, FullInTime
<1> QED
  BY <1>1, GetInv, ReserveInv, CancelInv, EvictInv, TickInv DEF RateNext

\* When nothing is to be given back, a client that has waited finds a token.
LEMMA RetriesAdmitted == ASSUME IInv, [RateNext]_rateVars PROVE RetryAdmitted
<1> SUFFICES ASSUME NEW r \in Requests, ratePc[r] = "reserve", told # 0, now >= told,
                    \A q \in Requests \ {r} : ratePc[q] = "idle"
             PROVE  ratePc'[r] # "cancel"
  BY DEF RetryAdmitted
<1>1. /\ now \in Nat /\ bucket.full \in Nat /\ told \in Nat
      /\ ratePc \in [Requests -> {"idle", "reserve", "cancel"}]
  BY RateAssumption DEF IInv, RateTypeOK
<1>2. Cancelling = {}
  BY DEF Cancelling
<1>3. bucket.full + Period < told + Deep
  BY <1>2 DEF IInv, FullInTime
<1>4. CASE Reserve(r)
  <2>1. Later(now, (Later(bucket.full, now) + Period) - Burst * Period) = now
    BY <1>1, <1>3, DeepNat DEF Later, Deep
  <2>2. ratePc' = [ratePc EXCEPT ![r] = "idle"]
    BY <1>4, <2>1 DEF Reserve, GoTo
  <2> QED
    BY <1>1, <2>2
<1>5. CASE \E q \in Requests : Get(q) \/ Cancel(q) \/ (Reserve(q) /\ q # r)
  <2>1. \E q \in Requests \ {r} : ratePc[q] = "idle" /\ \E p : GoTo(q, p)
    BY <1>5 DEF Get, Cancel, Reserve
  <2> QED
    BY <1>1, <2>1 DEF GoTo
<1>6. CASE UNCHANGED ratePc
  BY <1>6
<1> QED
  BY <1>4, <1>5, <1>6 DEF RateNext, Evict, Tick, rateVars

\* The middleware serves no more than its rate in any interval, and a client that
\* waits for the longest time it was told is served, for every rate and burst.
THEOREM RateIsHeld == ASSUME IdleEnough PROVE RateSpec => RateHeld
<1>1. RateInit => IInv
  BY InitInv
<1>2. IInv /\ [RateNext]_rateVars => IInv'
  BY NextInv
<1>3. IInv /\ IInv' /\ [RateNext]_rateVars => [RateTypeOK' /\ WithinRate' /\ RetryAdmitted]_rateVars
  BY RetriesAdmitted DEF IInv, Paid, WithinRate, Deep
<1> QED
  BY <1>1, <1>2, <1>3, PTL DEF RateSpec, RateHeld

-----------------------------------------------------------------------------
(* The listed and the got *)

\* What a listed object was listed for: the process knows its kind and may show it,
\* and its reference says where it is.
ListedIsKnown ==
    \A r \in refs :
        /\ r.kind \in mapper /\ r.kind \notin Extra \cup {"Secret"}
        /\ r.kind \in Namespaced => r.ns # Cluster
        /\ r.kind \notin Namespaced => r.ns = Cluster

\* What the answer to a call that was sent to the API server may be.
Answers(c) ==
    \/ cause \in AnyTime /\ answer \in {MapAPIError(cause), mapListError(cause)}
    \/ /\ c.task = "get" /\ Target(c) \notin objects
       /\ answer = MapAPIError("notFound")
    \/ /\ c.task = "get" /\ Target(c) \in objects
       /\ answer = IF c.output = "summary" THEN "FOUND" ELSE "INVALID_REQUEST"
    \/ c.task = "list" /\ c.kind \notin crds
    \/ answer = "FOUND"

\* The answer is that to the call as long as it is there: nothing changes meanwhile.
AnswerFits ==
    \A c \in GetCalls \cup ListCalls : request = c =>
        IF Refusal(c) # "none" THEN answer = Refusal(c) ELSE Answers(c)

AccessInv == AccessTypeOK /\ ListedIsKnown /\ AnswerFits

\* Only the errors that the API server itself blames on the request are.
LEMMA ErrorCodes ==
    /\ \A e \in AnyTime :
         /\ mapListError(e) = MapAPIError(e)
         /\ MapAPIError(e) \in {"FORBIDDEN", "TIMEOUT", "SERVER_ERROR"}
                \cup (IF e \in {"badRequest", "unauthorized"} THEN {"INVALID_REQUEST"} ELSE {})
    /\ MapAPIError("notFound") = "NOT_FOUND" /\ MapAPIError("noMatch") = "API_NOT_FOUND"
    /\ mapListError("notFound") = "INVALID_REQUEST"
<1>1. 504 \notin (400..499 \ {429}) /\ 429 \notin (400..499 \ {429}) /\ 500 \notin (400..499 \ {429})
  OBVIOUS
<1>2. DOMAIN Status = {"notFound", "forbidden", "timeout", "throttled", "internal", "badRequest",
                       "unauthorized"}
  BY DEF Status
<1>3. DOMAIN NamedCode = {"notFound", "forbidden", "timeout", "noMatch"}
  BY DEF NamedCode
<1>4. IsServerFault("throttled") /\ IsServerFault("internal") /\ IsServerFault("transport")
  BY <1>1, <1>2 DEF IsServerFault, Status
<1> QED
  BY <1>3, <1>4 DEF MapAPIError, mapListError, AnyTime, NamedCode

LEMMA AnswersOfServer == ASSUME cause \in AnyTime
                         PROVE  {MapAPIError(cause), mapListError(cause)} \subseteq Blameless
BY ErrorCodes DEF Blameless

LEMMA CallTypes ==
    /\ \A c \in GetCalls : /\ c.task = "get" /\ c.kind \in Kinds /\ c.name \in Names
                           /\ c.ns \in Namespaces \cup {Cluster} /\ c # NoCall
    /\ \A c \in ListCalls : c.task = "list" /\ c.kind \in Kinds /\ c # NoCall
BY DEF GetCalls, ListCalls, Call, NoCall

LEMMA RefusalCodes == \A c : Refusal(c) \in {"none", "BLOCKED", "API_NOT_FOUND", "NAMESPACE_REQUIRED"}
BY ErrorCodes DEF Refusal

LEMMA CodesAre ==
    {"none", "FOUND", "BLOCKED", "NAMESPACE_REQUIRED", "SERVER_ERROR", "INVALID_REQUEST",
     "NOT_FOUND", "FORBIDDEN", "TIMEOUT", "API_NOT_FOUND"} \subseteq Codes
BY DEF Codes, NamedCode

LEMMA ReferenceIsObject == ASSUME NEW o \in Objects PROVE extractRef(o) = o
BY DEF Objects, extractRef

\* The answers of the two tasks.
LEMMA GetAnswers ==
    ASSUME AccessInv, NEW c \in GetCalls, request' = c, Refused(c) \/ GetObject(c),
           UNCHANGED <<crds, objects, mapper, crdEdits>>
    PROVE  AccessInv'
<1>1. UNCHANGED refs
  BY DEF Refused, GetObject
<1>2. answer' \in Codes
  BY RefusalCodes, CodesAre, ErrorCodes DEF Refused, GetObject
<1>4. cause' \in AnyTime \cup {"none", "notFound"}
  BY DEF Refused, GetObject
<1>3. AnswerFits'
  <2>1. CASE Refused(c)
    <3>1. Refusal(c)' = Refusal(c)
      BY DEF Refusal, IsDenied, RESTMapping
    <3> QED
      BY <2>1, <3>1 DEF AnswerFits, Refused
  <2>2. CASE GetObject(c)
    <3>1. Refusal(c)' = "none"
      BY <2>2 DEF GetObject, Refusal, IsDenied, RESTMapping
    <3>2. c.task = "get"
      BY CallTypes
    <3>3. Answers(c)'
      BY <2>2, <3>2 DEF GetObject, Answers, Target
    <3> QED
      BY <3>1, <3>3 DEF AnswerFits
  <2> QED
    BY <2>1, <2>2
<1> QED
  BY <1>1, <1>2, <1>3, <1>4 DEF AccessInv, AccessTypeOK, ListedIsKnown

LEMMA ListAnswers ==
    ASSUME AccessInv, NEW c \in ListCalls, request' = c, Refused(c) \/ ListObjects(c),
           UNCHANGED <<crds, objects, mapper, crdEdits>>
    PROVE  AccessInv'
<1>1. answer' \in Codes
  BY RefusalCodes, CodesAre, ErrorCodes DEF Refused, ListObjects
<1>4. cause' \in AnyTime \cup {"none", "notFound"}
  BY DEF Refused, ListObjects
<1>2. AnswerFits'
  <2>1. CASE Refused(c)
    <3>1. Refusal(c)' = Refusal(c)
      BY DEF Refusal, IsDenied, RESTMapping
    <3> QED
      BY <2>1, <3>1 DEF AnswerFits, Refused
  <2>2. CASE ListObjects(c)
    <3>1. Refusal(c)' = "none"
      BY <2>2 DEF ListObjects, Refusal, IsDenied, RESTMapping
    <3>2. c.task = "list"
      BY CallTypes
    <3>3. Answers(c)'
      BY <2>2, <3>2 DEF ListObjects, Answers
    <3> QED
      BY <3>1, <3>3 DEF AnswerFits
  <2> QED
    BY <2>1, <2>2
<1>3. refs' \subseteq Objects /\ ListedIsKnown'
  <2>1. CASE UNCHANGED refs
    BY <2>1 DEF AccessInv, AccessTypeOK, ListedIsKnown
  <2>2. ASSUME Refusal(c) = "none", NEW p \in Pages(c), refs' = {extractRef(o) : o \in p}
        PROVE  refs' \subseteq Objects /\ ListedIsKnown'
    <3>1. \A o \in p : o \in Objects /\ o.kind = c.kind /\ extractRef(o) = o
      BY ReferenceIsObject DEF Pages, Selected, AccessInv, AccessTypeOK
    <3>2. c.kind \in mapper /\ c.kind \notin Extra \cup {"Secret"}
      BY <2>2, ErrorCodes DEF Refusal, IsDenied, RESTMapping
    <3>3. \A o \in Objects : /\ o.kind \in Namespaced => o.ns # Cluster
                             /\ o.kind \notin Namespaced => o.ns = Cluster
      BY AccessAssumption DEF Objects
    <3> QED
      BY <2>2, <3>1, <3>2, <3>3 DEF ListedIsKnown
  <2> QED
    BY <2>1, <2>2 DEF Refused, ListObjects
<1> QED
  BY <1>1, <1>2, <1>3, <1>4 DEF AccessInv, AccessTypeOK

LEMMA AccessStep == ASSUME AccessInv, [AccessNext]_accessVars PROVE AccessInv'
<1>1. CASE Execute
  <2>1. UNCHANGED <<crds, objects, mapper, crdEdits>>
    BY <1>1 DEF Execute
  <2>2. ASSUME NEW c \in GetCalls, request' = c, Refused(c) \/ GetObject(c) PROVE AccessInv'
    BY <2>1, <2>2, GetAnswers
  <2>3. ASSUME NEW c \in ListCalls, request' = c, Refused(c) \/ ListObjects(c) PROVE AccessInv'
    BY <2>1, <2>3, ListAnswers
  <2> QED
    BY <1>1, <2>2, <2>3 DEF Execute
<1>2. CASE Received
  BY <1>2, CodesAre, CallTypes DEF Received, AccessInv, AccessTypeOK, ListedIsKnown, AnswerFits
<1>3. ASSUME AccessEdit PROVE crdEdits' \in 0..MaxCrdEdits /\ AnswerFits'
  BY <1>3, AccessAssumption, CallTypes DEF AccessEdit, AnswerFits, AccessInv, AccessTypeOK
<1>4. ASSUME NEW k \in Kinds, InstallOrRemove(k) PROVE AccessInv'
  BY <1>3, <1>4 DEF InstallOrRemove, AccessEdit, AccessInv, AccessTypeOK, ListedIsKnown
<1>5. ASSUME NEW o \in Objects, CreateOrDelete(o) PROVE AccessInv'
  BY <1>3, <1>5 DEF CreateOrDelete, AccessEdit, AccessInv, AccessTypeOK, ListedIsKnown
<1>6. CASE NewClient
  BY <1>3, <1>6 DEF NewClient, AccessEdit, AccessInv, AccessTypeOK, ListedIsKnown
<1>7. CASE UNCHANGED accessVars
  BY <1>7 DEF accessVars, AccessInv, AccessTypeOK, ListedIsKnown, AnswerFits, Answers, Refusal,
              IsDenied, RESTMapping, Target
<1> QED
  BY <1>1, <1>2, <1>4, <1>5, <1>6, <1>7 DEF AccessNext

\* What is listed can be got: the call for it is refused for none of the reasons there
\* are, and its target is the object itself.
LEMMA ListedThenFound == ASSUME AccessInv PROVE ListedIsFound
<1> SUFFICES ASSUME NEW r \in refs,
                    request = Call("get", r.kind, TRUE, r.ns, r.name, "summary", 0)
             PROVE  answer \in Blameless \cup (IF r \in objects THEN {} ELSE {"NOT_FOUND"})
  BY DEF ListedIsFound
<1>1. /\ request.task = "get" /\ request.kind = r.kind /\ request.exact /\ request.ns = r.ns
      /\ request.name = r.name /\ request.output = "summary" /\ request # NoCall
  BY DEF Call, NoCall
<1>2. Refusal(request) = "none"
  BY <1>1 DEF AccessInv, ListedIsKnown, Refusal, IsDenied, RESTMapping
<1>3. Target(request) = r
  <2>1. r \in Objects
    BY DEF AccessInv, AccessTypeOK
  <2>2. r.kind \notin Namespaced => r.ns = Cluster
    BY DEF AccessInv, ListedIsKnown
  <2>3. r = [kind |-> r.kind, ns |-> r.ns, name |-> r.name]
    BY <2>1 DEF Objects
  <2> QED
    BY <1>1, <2>2, <2>3 DEF Target
<1>4. Answers(request)
  BY <1>1, <1>2 DEF AccessInv, AccessTypeOK, AnswerFits
<1>5. CASE answer \in {MapAPIError(cause), mapListError(cause)} /\ cause \in AnyTime
  BY <1>5, AnswersOfServer
<1>6. "FOUND" \in Blameless
  BY DEF Blameless
<1>7. \/ answer = "FOUND"
      \/ r \notin objects /\ answer = "NOT_FOUND"
      \/ answer \in {MapAPIError(cause), mapListError(cause)} /\ cause \in AnyTime
  BY <1>1, <1>3, <1>4, ErrorCodes DEF Answers
<1> QED
  BY <1>5, <1>6, <1>7

\* A get of an object that is there names the namespace it needs.
LEMMA NoneBlamed == ASSUME AccessInv PROVE FaultsNotBlamed
<1> SUFFICES ASSUME request # NoCall, request.exact, ~IsDenied(request),
                    request.kind \in mapper \cap crds,
                    request.task = "get" =>
                        request.output = "summary" /\ Target(request) \in objects
             PROVE  answer \in Blameless
  BY DEF FaultsNotBlamed
<1>1. request.task = "get" /\ request.kind \in Namespaced => request.ns # Cluster
  <2>1. request.task = "get" => Target(request) \in Objects
    BY DEF AccessInv, AccessTypeOK
  <2> QED
    BY <2>1, AccessAssumption DEF Target, Objects
<1>2. Refusal(request) = "none"
  BY <1>1 DEF Refusal, RESTMapping
<1>3. request \in GetCalls \cup ListCalls /\ Answers(request)
  BY <1>2 DEF AccessInv, AccessTypeOK, AnswerFits
<1> QED
  BY <1>3, ErrorCodes, AnswersOfServer DEF Answers, Blameless

\* What list_resources has shown can be passed to get_resource, whatever kinds are
\* installed, denied or known, and no error of the API server's own is blamed on the caller.
THEOREM ListedCanBeGot == AccessSpec => []AccessHonest
<1>1. AccessInit => AccessInv
  BY AccessAssumption, CodesAre, CallTypes
  DEF AccessInit, AccessInv, AccessTypeOK, ListedIsKnown, AnswerFits
<1>2. AccessInv /\ [AccessNext]_accessVars => AccessInv'
  BY AccessStep
<1>3. AccessInv => AccessHonest
  BY ListedThenFound, NoneBlamed DEF AccessHonest, AccessInv
<1> QED
  BY <1>1, <1>2, <1>3, PTL DEF AccessSpec

-----------------------------------------------------------------------------
(* The statistics *)

\* The findings that are listed, those before a token, and those of a type.
Here == Findings \ foreign
UpTo(k) == {f \in Here : Rank(f, Here) <= k}
OfType(S, v) == {f \in S : type[f] = v}

\* What a chain has counted is what comes before its tokens: the call what comes
\* since the one it was given, the caller what comes before that.
ChainInv == mode = "type" =>
    /\ given <= token
    /\ \A v \in Types :
        /\ statsPc = "ask" => counted[v] = OfType(UpTo(token) \ UpTo(given), v)
        /\ statsPc \in {"ask", "error"} => total[v] = Cardinality(OfType(UpTo(given), v))
        /\ statsPc = "partial" => total[v] = Cardinality(OfType(UpTo(token), v))
        /\ statsPc = "complete" => total[v] = Cardinality(OfType(Here, v))

\* What the statuses asked for so far have counted.
BucketInv == mode = "status" =>
    /\ statsPc = "ask" => asking <= Len(Statuses)
    /\ statsPc # "partial"
    /\ statsPc = "complete" => asking = Len(Statuses) + 1
    /\ \A f \in Findings \ changed, v \in Buckets :
           f \in counted[v] => v = status[f] /\ f \notin foreign
    /\ \A f \in Here \ changed, i \in 1..Len(Statuses) :
           i < asking /\ Statuses[i] = status[f]
               => f \in counted[status[f]] \/ status[f] \in capped

StatsInv == StatsTypeOK /\ ChainInv /\ BucketInv

LEMMA Listed ==
    /\ IsFiniteSet(Findings) /\ Cardinality(Findings) = NumFindings /\ Findings \subseteq Nat
    /\ \A S \in SUBSET Findings : IsFiniteSet(S) /\ Cardinality(S) \in 0..NumFindings
<1>1. NumFindings \in Nat
  BY StatisticsAssumption
<1>2. IsFiniteSet(Findings) /\ Cardinality(Findings) = NumFindings /\ Findings \subseteq Nat
  BY <1>1, FS_Interval DEF Findings
<1>3. ASSUME NEW S \in SUBSET Findings
      PROVE  IsFiniteSet(S) /\ Cardinality(S) \in 0..NumFindings
  <2>1. IsFiniteSet(S) /\ Cardinality(S) <= NumFindings
    BY <1>2, FS_Subset
  <2>2. Cardinality(S) \in Nat
    BY <2>1, FS_CardinalityType
  <2> QED
    BY <1>1, <2>1, <2>2
<1> QED
  BY <1>2, <1>3

\* A finding has a place in every list it is in.
LEMMA Ranks ==
    ASSUME NEW S \in SUBSET Findings, NEW f \in S
    PROVE  Rank(f, S) \in 1..Cardinality(S) /\ Cardinality(S) \in Nat
<1> DEFINE G == {g \in S : g <= f}
<1>1. G \in SUBSET Findings /\ S \in SUBSET Findings /\ f \in Nat
  BY Listed
<1>2. IsFiniteSet(S) /\ IsFiniteSet(G) /\ Cardinality(G) \in Nat /\ Cardinality(S) \in Nat
  BY <1>1, Listed
<1>3. Cardinality(G) <= Cardinality(S)
  BY <1>2, FS_Subset
<1>4. f \in G
  BY <1>1
<1>5. Cardinality(G) # 0
  BY <1>2, <1>4, FS_EmptySet
<1> HIDE DEF G
<1>6. Cardinality(G) \in 1..Cardinality(S)
  BY <1>2, <1>3, <1>5
<1> QED
  BY <1>2, <1>6 DEF Rank, G

LEMMA HereIs == Scanned = Here /\ Here \in SUBSET Findings
BY DEF Scanned, Here, HasRegion

\* A page is what comes between its token and the next.
LEMMA PageIs ==
    ASSUME StatsTypeOK
    PROVE  /\ Page(Scanned, token) = UpTo(token + PageSize) \ UpTo(token)
           /\ More(Scanned, token) => token + PageSize \in 0..NumFindings
           /\ ~More(Scanned, token) => UpTo(token + PageSize) = Here
<1>1. token \in Nat /\ PageSize \in Nat /\ NumFindings \in Nat
  BY StatisticsAssumption DEF StatsTypeOK
<1>2. Cardinality(Here) \in 0..NumFindings
  BY HereIs, Listed
<1>3. ASSUME NEW f \in Here
      PROVE  Rank(f, Here) \in Nat /\ Rank(f, Here) <= Cardinality(Here)
  BY <1>2, HereIs, Ranks
<1>4. Page(Scanned, token) = UpTo(token + PageSize) \ UpTo(token)
  <2>1. ASSUME NEW f \in Here
        PROVE  Rank(f, Here) \in token + 1..token + PageSize
                   <=> Rank(f, Here) <= token + PageSize /\ ~(Rank(f, Here) <= token)
    <3> DEFINE r == Rank(f, Here)
    <3>1. r \in Nat
      BY <1>3
    <3> HIDE DEF r
    <3>2. r \in token + 1..token + PageSize <=> r <= token + PageSize /\ ~(r <= token)
      BY <1>1, <3>1
    <3> QED
      BY <3>2 DEF r
  <2> QED
    BY <2>1, HereIs DEF Page, UpTo
<1>5. More(Scanned, token) => token + PageSize \in 0..NumFindings
  BY <1>1, <1>2, HereIs DEF More
<1>6. ~More(Scanned, token) => UpTo(token + PageSize) = Here
  <2>1. ASSUME ~More(Scanned, token), NEW f \in Here PROVE Rank(f, Here) <= token + PageSize
    BY <1>1, <1>2, <1>3, <2>1, HereIs DEF More
  <2> QED
    BY <2>1 DEF UpTo
<1> QED
  BY <1>4, <1>5, <1>6

LEMMA UpToGrows ==
    ASSUME NEW j \in Nat, NEW k \in Nat, j <= k
    PROVE  UpTo(j) \subseteq UpTo(k) /\ UpTo(k) \in SUBSET Findings
<1>1. ASSUME NEW f \in Here PROVE Rank(f, Here) \in Nat
  <2>1. Rank(f, Here) \in 1..Cardinality(Here) /\ Cardinality(Here) \in Nat
    BY HereIs, Ranks
  <2> QED
    BY <2>1
<1>2. ASSUME NEW f \in UpTo(j) PROVE f \in UpTo(k)
  <2>1. f \in Here /\ Rank(f, Here) <= j /\ Rank(f, Here) \in Nat
    BY <1>1 DEF UpTo
  <2>2. Rank(f, Here) <= k
    BY <2>1
  <2> QED
    BY <2>1, <2>2 DEF UpTo
<1> QED
  BY <1>2, HereIs DEF UpTo

\* What a call has counted comes on top of what was counted before.
LEMMA Adds ==
    ASSUME NEW S \in SUBSET Findings, NEW T \in SUBSET S, NEW v
    PROVE  Cardinality(OfType(T, v)) + Cardinality(OfType(S \ T, v)) = Cardinality(OfType(S, v))
<1> DEFINE A == OfType(T, v)
           B == OfType(S \ T, v)
<1>1. A \in SUBSET Findings /\ B \in SUBSET Findings /\ A \cap B = {} /\ A \cup B = OfType(S, v)
  BY DEF OfType
<1> HIDE DEF A, B
<1>2. IsFiniteSet(A) /\ IsFiniteSet(B) /\ Cardinality(A) \in Nat /\ Cardinality(B) \in Nat
  BY <1>1, Listed
<1>3. Cardinality(A \cup B) = Cardinality(A) + Cardinality(B) - Cardinality(A \cap B)
  BY <1>2, FS_Union
<1>4. Cardinality(A \cap B) = 0
  BY <1>1, FS_EmptySet
<1>5. Cardinality(A \cup B) = Cardinality(A) + Cardinality(B)
  BY <1>2, <1>3, <1>4
<1> QED
  BY <1>1, <1>5 DEF A, B

-----------------------------------------------------------------------------
LEMMA StatsBegin == StatsInit => StatsInv
<1> SUFFICES ASSUME StatsInit PROVE StatsInv
  OBVIOUS
<1>1. /\ NumFindings \in Nat /\ MaxCalls \in Nat \ {0} /\ Len(Statuses) \in Nat \ {0}
      /\ Statuses[1] \in Buckets
  <2>1. Len(Statuses) \in Nat \ {0}
    BY StatisticsAssumption
  <2>2. 1 \in 1..Len(Statuses)
    BY <2>1
  <2> QED
    BY <2>1, <2>2, StatisticsAssumption DEF Buckets
<1>2. StatsTypeOK
  <2>1. type \in [Findings -> Types] /\ status \in [Findings -> Buckets]
    BY <1>1 DEF StatsInit
  <2>2. asking \in 1..Len(Statuses) + 1 /\ calls \in 1..MaxCalls /\ {token, given} \subseteq 0..NumFindings
    BY <1>1 DEF StatsInit
  <2>3. counted \in [Values -> SUBSET Findings] /\ total \in [Values -> Nat]
    BY DEF StatsInit, Nothing
  <2> QED
    BY <2>1, <2>2, <2>3 DEF StatsInit, StatsTypeOK
<1>3. ChainInv
  <2>1. token = 0 /\ given = 0 /\ statsPc = "ask"
    BY DEF StatsInit
  <2>2. ASSUME NEW v \in Types
        PROVE  counted[v] = {} /\ total[v] = 0 /\ OfType(UpTo(0), v) = {}
    <3>1. ASSUME NEW f \in Here PROVE ~(Rank(f, Here) <= 0)
      <4>1. Rank(f, Here) \in 1..Cardinality(Here) /\ Cardinality(Here) \in Nat
        BY HereIs, Ranks
      <4> QED
        BY <4>1
    <3> QED
      BY <3>1 DEF StatsInit, Nothing, Values, UpTo, OfType
  <2>3. ASSUME NEW v \in Types PROVE OfType(UpTo(0) \ UpTo(0), v) = {}
    BY DEF OfType
  <2> QED
    BY <2>1, <2>2, <2>3, FS_EmptySet DEF ChainInv
<1>4. BucketInv
  <2>1. asking = 1 /\ statsPc = "ask" /\ \A v \in Buckets : counted[v] = {}
    BY DEF StatsInit, Nothing, Values
  <2>2. asking <= Len(Statuses) /\ \A i \in 1..Len(Statuses) : ~(i < asking)
    BY <1>1, <2>1
  <2> QED
    BY <2>1, <2>2 DEF BucketInv
<1> QED
  BY <1>2, <1>3, <1>4 DEF StatsInv

\* The caller adds up counts of findings.
LEMMA Totals ==
    ASSUME StatsTypeOK, NEW counts \in [Values -> SUBSET Findings]
    PROVE  [v \in Values |-> total[v] + Cardinality(counts[v])] \in [Values -> Nat]
<1>1. ASSUME NEW v \in Values PROVE total[v] + Cardinality(counts[v]) \in Nat
  <2>1. counts[v] \in SUBSET Findings /\ total[v] \in Nat
    BY DEF StatsTypeOK
  <2>2. Cardinality(counts[v]) \in Nat
    BY <2>1, Listed, FS_CardinalityType
  <2> QED
    BY <2>1, <2>2
<1> QED
  BY <1>1

LEMMA CountPageKeeps == ASSUME StatsInv, CountPage PROVE StatsInv'
<1> USE DEF StatsInv
<1> DEFINE page == Page(Scanned, token)
           counts == [v \in Values |-> counted[v] \cup {f \in page : v \in Types /\ type[f] = v}]
<1>1. /\ mode = "type" /\ statsPc = "ask" /\ counted' = counts
      /\ UNCHANGED <<foreign, type, mode, status, changed, given, asking, calls, capped>>
      /\ IF More(Scanned, token)
         THEN token' = token + PageSize /\ UNCHANGED <<statsPc, total>>
         ELSE Answer("complete", counts) /\ UNCHANGED token
  BY DEF CountPage, world
<1>2. page \subseteq Here /\ Here \in SUBSET Findings
  BY HereIs DEF Page
<1>3. counts \in [Values -> SUBSET Findings]
  BY <1>2 DEF StatsTypeOK
<1>4. StatsTypeOK'
  <2>1. CASE More(Scanned, token)
    <3>1. token' \in 0..NumFindings
      BY <1>1, <2>1, PageIs
    <3> QED
      BY <1>1, <1>3, <2>1, <3>1 DEF StatsTypeOK
  <2>2. CASE ~More(Scanned, token)
    BY <1>1, <1>3, <2>2, Totals DEF StatsTypeOK, Answer
  <2> QED
    BY <2>1, <2>2
<1>5. token \in Nat /\ given \in Nat /\ token + PageSize \in Nat /\ token <= token + PageSize
      /\ given <= token /\ given <= token + PageSize
  <2>1. token \in Nat /\ given \in Nat /\ PageSize \in Nat /\ given <= token
    BY <1>1, StatisticsAssumption DEF StatsTypeOK, ChainInv
  <2> QED
    BY <2>1
<1>6. ASSUME NEW v \in Types
      PROVE  counts[v] = OfType(UpTo(token + PageSize) \ UpTo(given), v)
  <2>1. page = UpTo(token + PageSize) \ UpTo(token)
    BY PageIs
  <2>2. UpTo(given) \subseteq UpTo(token) /\ UpTo(token) \subseteq UpTo(token + PageSize)
    BY <1>5, UpToGrows
  <2>3. counts[v] = counted[v] \cup OfType(page, v)
    BY DEF Values, OfType
  <2>4. counted[v] = OfType(UpTo(token) \ UpTo(given), v)
    BY <1>1 DEF ChainInv
  <2> HIDE DEF page, counts
  <2> QED
    BY <2>1, <2>2, <2>3, <2>4 DEF OfType
<1> HIDE DEF counts
<1>7. ChainInv'
  <2>2. /\ UpTo(given)' = UpTo(given) /\ Here' = Here
        /\ token' = token + PageSize => UpTo(token)' = UpTo(token + PageSize)
    BY <1>1 DEF UpTo, Here
  <2>3. CASE More(Scanned, token)
    <3>1. ASSUME NEW v \in Types
          PROVE  /\ counted'[v] = OfType(UpTo(token) \ UpTo(given), v)'
                 /\ total'[v] = Cardinality(OfType(UpTo(given), v)')
      <4>1. OfType(UpTo(token) \ UpTo(given), v)' = OfType(UpTo(token + PageSize) \ UpTo(given), v)
        BY <1>1, <2>2, <2>3 DEF OfType
      <4>2. OfType(UpTo(given), v)' = OfType(UpTo(given), v)
        BY <1>1, <2>2 DEF OfType
      <4> QED
        BY <1>1, <1>6, <2>3, <4>1, <4>2 DEF ChainInv
    <3> QED
      BY <1>1, <1>5, <2>3, <3>1 DEF ChainInv
  <2>4. CASE ~More(Scanned, token)
    <3>1. ASSUME NEW v \in Types
          PROVE  total'[v] = Cardinality(OfType(Here, v)')
      <4>1. total'[v] = total[v] + Cardinality(counts[v]) /\ total[v] = Cardinality(OfType(UpTo(given), v))
        BY <1>1, <2>4 DEF Answer, Values, ChainInv
      <4>2. counts[v] = OfType(Here \ UpTo(given), v)
        BY <1>6, <2>4, PageIs
      <4>3. UpTo(given) \in SUBSET Here
        BY DEF UpTo
      <4>4. OfType(Here, v)' = OfType(Here, v)
        BY <1>1, <2>2 DEF OfType
      <4> QED
        BY <1>2, <4>1, <4>2, <4>3, <4>4, Adds
    <3> QED
      BY <1>1, <1>5, <2>4, <3>1 DEF ChainInv, Answer
  <2> QED
    BY <2>3, <2>4
<1>8. BucketInv'
  BY <1>1 DEF BucketInv
<1> QED
  BY <1>4, <1>7, <1>8

LEMMA CountBucketKeeps == ASSUME StatsInv, CountBucket PROVE StatsInv'
<1> USE DEF StatsInv
<1> DEFINE found == {f \in Findings : InBucket(f)}
           w == Statuses[asking]
           counts == [counted EXCEPT ![w] = Page(found, 0)]
<1>1. /\ mode = "status" /\ statsPc = "ask" /\ counted' = counts /\ asking' = asking + 1
      /\ capped' = IF Capped(found) THEN capped \cup {w} ELSE capped
      /\ IF asking = Len(Statuses) THEN Answer("complete", counts) ELSE UNCHANGED <<statsPc, total>>
      /\ UNCHANGED <<foreign, type, mode, status, changed, token, given, calls>>
  BY DEF CountBucket, world
<1>2. /\ Len(Statuses) \in Nat \ {0} /\ asking \in 1..Len(Statuses)
      /\ asking + 1 \in 1..Len(Statuses) + 1
  <2>1. Len(Statuses) \in Nat \ {0} /\ asking \in 1..Len(Statuses) + 1 /\ asking <= Len(Statuses)
    BY <1>1, StatisticsAssumption DEF BucketInv, StatsTypeOK
  <2> QED
    BY <2>1
<1>3. w \in Buckets /\ w \in Values
  BY <1>2 DEF Buckets, Values
<1>4. found \in SUBSET Findings /\ Page(found, 0) \subseteq found
  BY DEF Page
<1>5. counts \in [Values -> SUBSET Findings]
  BY <1>4 DEF StatsTypeOK
<1> HIDE DEF counts
<1>6. StatsTypeOK'
  <2>1. total' \in [Values -> Nat] /\ statsPc' \in {"ask", "complete"}
    BY <1>1, <1>5, Totals DEF Answer, StatsTypeOK
  <2> QED
    BY <1>1, <1>2, <1>3, <1>5, <2>1 DEF StatsTypeOK
<1>7. ChainInv'
  BY <1>1 DEF ChainInv
<1>8. \A v \in Buckets : counts[v] = IF v = w THEN Page(found, 0) ELSE counted[v]
  BY <1>3 DEF counts, StatsTypeOK, Values
<1>9. ASSUME NEW f \in Findings \ changed, NEW v \in Buckets, f \in counts[v]
      PROVE  v = status[f] /\ f \notin foreign
  <2>1. CASE v = w
    BY <1>4, <1>8, <1>9, <2>1 DEF InBucket, HasRegion
  <2>2. CASE v # w
    BY <1>1, <1>8, <1>9, <2>2 DEF BucketInv
  <2> QED
    BY <2>1, <2>2
<1>10. ASSUME NEW f \in Here \ changed, NEW i \in 1..Len(Statuses), i < asking + 1,
              Statuses[i] = status[f]
       PROVE  f \in counts[status[f]] \/ status[f] \in capped'
  <2>1. status[f] \in Buckets /\ f \in Findings
    BY DEF StatsTypeOK, Here
  <2>2. CASE status[f] = w
    <3>1. f \in found
      BY <2>1, <2>2 DEF InBucket, HasRegion, Here
    <3>2. CASE More(found, 0)
      BY <1>1, <2>2, <3>2 DEF Capped
    <3>3. CASE ~More(found, 0)
      <4>1. Rank(f, found) \in 1..Cardinality(found) /\ Cardinality(found) \in Nat
        BY <1>4, <3>1, Ranks
      <4>2. PageSize \in Nat /\ ~(0 + PageSize < Cardinality(found))
        BY <3>3, StatisticsAssumption DEF More
      <4>3. ASSUME NEW r \in 1..Cardinality(found) PROVE r \in 0 + 1..0 + PageSize
        BY <4>1, <4>2
      <4>4. f \in Page(found, 0)
        BY <3>1, <4>1, <4>3 DEF Page
      <4> QED
        BY <1>8, <2>1, <2>2, <4>4
    <3> QED
      BY <3>2, <3>3
  <2>3. CASE status[f] # w
    <3>1. i < asking
      <4>1. i # asking
        BY <1>10, <2>3
      <4>2. i \in Nat /\ asking \in Nat
        BY <1>2
      <4> QED
        BY <1>10, <4>1, <4>2
    <3>2. f \in counted[status[f]] \/ status[f] \in capped
      BY <1>1, <1>10, <3>1 DEF BucketInv
    <3> QED
      BY <1>1, <1>8, <2>1, <2>3, <3>2
  <2> QED
    BY <2>2, <2>3
<1>11. BucketInv'
  <2>1. statsPc' = "ask" => asking' <= Len(Statuses)
    BY <1>1, <1>2 DEF Answer
  <2>2. statsPc' = "complete" => asking' = Len(Statuses) + 1
    BY <1>1 DEF Answer
  <2>3. statsPc' # "partial" /\ Here' = Here
    BY <1>1 DEF Answer, Here
  <2> QED
    BY <1>1, <1>9, <1>10, <2>1, <2>2, <2>3 DEF BucketInv
<1> QED
  BY <1>6, <1>7, <1>11

\* The other actions.
LEMMA OthersKeep ==
    ASSUME StatsInv, Truncate \/ Fail \/ CallAgain \/ ChangeStatus \/ UNCHANGED statsVars
    PROVE  StatsInv'
<1> USE DEF StatsInv
<1>1. CASE Truncate
  <2>1. /\ mode = "type" /\ statsPc = "ask" /\ Answer("partial", counted)
        /\ UNCHANGED <<foreign, type, mode, status, changed, token, given, asking, calls, counted, capped>>
    BY <1>1 DEF Truncate, NextToken, world
  <2>2. StatsTypeOK'
    BY <2>1, Totals DEF StatsTypeOK, Answer
  <2>3. ASSUME NEW v \in Types
        PROVE  total'[v] = Cardinality(OfType(UpTo(token), v)')
    <3>1. token \in Nat /\ given \in Nat /\ given <= token
      BY <2>1 DEF ChainInv, StatsTypeOK
    <3>2. UpTo(given) \subseteq UpTo(token) /\ UpTo(token) \in SUBSET Findings
      BY <3>1, UpToGrows
    <3>3. total'[v] = Cardinality(OfType(UpTo(given), v))
                        + Cardinality(OfType(UpTo(token) \ UpTo(given), v))
      BY <2>1 DEF ChainInv, Answer, Values
    <3>4. OfType(UpTo(token), v)' = OfType(UpTo(token), v)
      BY <2>1 DEF OfType, UpTo, Here
    <3> QED
      BY <3>2, <3>3, <3>4, Adds
  <2>4. ChainInv'
    BY <2>1, <2>3 DEF ChainInv, Answer
  <2>5. BucketInv'
    BY <2>1 DEF BucketInv
  <2> QED
    BY <2>2, <2>4, <2>5
<1>2. CASE Fail \/ UNCHANGED statsVars
  <2>1. /\ statsPc' = statsPc \/ (statsPc = "ask" /\ statsPc' = "error")
        /\ UNCHANGED <<foreign, type, mode, status, changed, token, given, asking, calls, counted,
                       capped, total>>
    BY <1>2 DEF Fail, world, statsVars
  <2>2. StatsTypeOK'
    BY <2>1 DEF StatsTypeOK
  <2>3. Here' = Here
    BY <2>1 DEF Here
  <2>4. ChainInv'
    <3>1. ASSUME NEW v \in Types
          PROVE  /\ OfType(UpTo(token) \ UpTo(given), v)' = OfType(UpTo(token) \ UpTo(given), v)
                 /\ OfType(UpTo(token), v)' = OfType(UpTo(token), v)
                 /\ OfType(UpTo(given), v)' = OfType(UpTo(given), v)
                 /\ OfType(Here, v)' = OfType(Here, v)
      BY <2>1 DEF UpTo, Here, OfType
    <3> QED
      BY <2>1, <3>1 DEF ChainInv
  <2>5. BucketInv'
    BY <2>1, <2>3 DEF BucketInv
  <2> QED
    BY <2>2, <2>4, <2>5
<1>3. CASE CallAgain
  <2>1. /\ statsPc \in {"partial", "error"} /\ statsPc' = "ask" /\ asking' = 1
        /\ calls < MaxCalls /\ calls' = calls + 1
        /\ token' = (IF statsPc = "partial" THEN token ELSE given) /\ given' = token'
        /\ counted' = Nothing /\ capped' = {}
        /\ UNCHANGED <<foreign, type, mode, status, changed, total>>
    BY <1>3 DEF CallAgain, world
  <2>2. Len(Statuses) \in Nat \ {0} /\ MaxCalls \in Nat
    BY StatisticsAssumption
  <2>3. StatsTypeOK'
    <3>1. calls' \in 1..MaxCalls /\ asking' \in 1..Len(Statuses) + 1
      BY <2>1, <2>2 DEF StatsTypeOK
    <3>2. counted' \in [Values -> SUBSET Findings] /\ {token', given'} \subseteq 0..NumFindings
      BY <2>1 DEF StatsTypeOK, Nothing
    <3> QED
      BY <2>1, <3>1, <3>2 DEF StatsTypeOK
  <2>4. ChainInv'
    <3>1. ASSUME mode = "type", NEW v \in Types
          PROVE  /\ counted'[v] = OfType(UpTo(token) \ UpTo(given), v)'
                 /\ total'[v] = Cardinality(OfType(UpTo(given), v)')
      <4>1. OfType(UpTo(token) \ UpTo(given), v)' = {} /\ counted'[v] = {}
        BY <2>1 DEF OfType, Nothing, Values
      <4>2. OfType(UpTo(given), v)' = OfType(UpTo(IF statsPc = "partial" THEN token ELSE given), v)
        BY <2>1 DEF OfType, UpTo, Here
      <4>3. total[v] = Cardinality(OfType(UpTo(IF statsPc = "partial" THEN token ELSE given), v))
        BY <2>1, <3>1 DEF ChainInv
      <4> QED
        BY <2>1, <4>1, <4>2, <4>3
    <3>2. given' <= token'
      BY <2>1 DEF StatsTypeOK
    <3> QED
      BY <2>1, <3>1, <3>2 DEF ChainInv
  <2>5. BucketInv'
    <3>1. asking' <= Len(Statuses) /\ \A i \in 1..Len(Statuses) : ~(i < asking')
      BY <2>1, <2>2
    <3>2. \A v \in Buckets : counted'[v] = {}
      BY <2>1 DEF Nothing, Values
    <3> QED
      BY <2>1, <3>1, <3>2 DEF BucketInv
  <2> QED
    BY <2>3, <2>4, <2>5
<1>4. CASE ChangeStatus
  <2>1. /\ mode = "status"
        /\ UNCHANGED <<foreign, type, mode, token, given, asking, calls, statsPc, counted, capped, total>>
    BY <1>4 DEF ChangeStatus, world
  <2>2. PICK f \in Findings, s \in Buckets :
            status' = [status EXCEPT ![f] = s] /\ changed' = changed \cup {f}
    BY <1>4 DEF ChangeStatus
  <2>3. StatsTypeOK'
    BY <2>1, <2>2 DEF StatsTypeOK
  <2>4. ChainInv'
    BY <2>1 DEF ChainInv
  <2>5. \A g \in Findings \ changed' : g \in Findings \ changed /\ status'[g] = status[g]
    BY <2>2 DEF StatsTypeOK
  <2>6. BucketInv'
    BY <2>1, <2>5 DEF BucketInv, Here
  <2> QED
    BY <2>3, <2>4, <2>6
<1> QED
  BY <1>1, <1>2, <1>3, <1>4

\* securityhub_get_findings_statistics: for any number of findings, any page size,
\* statuses and types, and any number of calls and of changes meanwhile, counts add up
\* over a chain of calls, and the count of a status is that of its findings or capped.
THEOREM CountsAreExact == StatsSpec => []CountsExact
<1>1. StatsInv /\ [StatsNext]_statsVars => StatsInv'
  BY CountBucketKeeps, CountPageKeeps, OthersKeep DEF StatsNext, StatsEnded
<1>2. StatsInv => CountsExact
  <2> SUFFICES ASSUME StatsInv PROVE CountsExact
    OBVIOUS
  <2>1. ChainExact
    <3> SUFFICES ASSUME mode = "type", statsPc \in {"partial", "complete"}, NEW v \in Types
                 PROVE  total[v] = Cardinality({f \in Findings \ foreign : type[f] = v
                          /\ Rank(f, Findings \ foreign)
                               <= IF statsPc = "complete" THEN Cardinality(Findings \ foreign)
                                  ELSE token})
      BY DEF ChainExact
    <3>1. CASE statsPc = "partial"
      <4>1. OfType(UpTo(token), v) = {f \in Findings \ foreign : type[f] = v
                                        /\ Rank(f, Findings \ foreign) <= token}
        BY DEF OfType, UpTo, Here
      <4> QED
        BY <3>1, <4>1 DEF StatsInv, ChainInv
    <3>2. CASE statsPc = "complete"
      <4>1. ASSUME NEW f \in Here PROVE Rank(f, Here) <= Cardinality(Here)
        <5>1. Rank(f, Here) \in 1..Cardinality(Here) /\ Cardinality(Here) \in Nat
          BY HereIs, Ranks
        <5> QED
          BY <5>1
      <4>2. OfType(Here, v) = {f \in Findings \ foreign : type[f] = v
                                 /\ Rank(f, Findings \ foreign) <= Cardinality(Findings \ foreign)}
        BY <4>1 DEF OfType, Here
      <4> QED
        BY <3>2, <4>2 DEF StatsInv, ChainInv
    <3> QED
      BY <3>1, <3>2
  <2>2. BucketsHonest
    <3> SUFFICES ASSUME mode = "status", statsPc = "complete", NEW f \in Findings \ changed
                 PROVE  LET counting == {v \in Buckets : f \in counted[v]}
                        IN  IF f \in foreign THEN counting = {}
                            ELSE \/ counting = {status[f]}
                                 \/ counting = {} /\ status[f] \in capped
      BY DEF BucketsHonest
    <3>1. \A v \in Buckets : f \in counted[v] => v = status[f] /\ f \notin foreign
      BY DEF StatsInv, BucketInv
    <3>2. ASSUME f \notin foreign PROVE f \in counted[status[f]] \/ status[f] \in capped
      <4>1. PICK i \in 1..Len(Statuses) : Statuses[i] = status[f]
        BY DEF StatsInv, StatsTypeOK, Buckets
      <4>2. i < asking
        <5>1. asking = Len(Statuses) + 1 /\ Len(Statuses) \in Nat
          BY StatisticsAssumption DEF StatsInv, BucketInv
        <5> QED
          BY <5>1
      <4> QED
        BY <3>2, <4>1, <4>2 DEF StatsInv, BucketInv, Here
    <3>3. status[f] \in Buckets
      BY DEF StatsInv, StatsTypeOK
    <3> QED
      BY <3>1, <3>2, <3>3
  <2> QED
    BY <2>1, <2>2 DEF StatsInv, CountsExact
<1> QED
  BY <1>1, <1>2, StatsBegin, PTL DEF StatsSpec

-----------------------------------------------------------------------------
(* The insight slot *)

\* A call that has been given its slot knows how often the name changed since:
\* never, and the slot holds its query; once, and it holds something else.
SlotOf(c) ==
    /\ pc[c] \in {"update", "clean", "delete", "read", "verify"} => arn[c] \in Arns
    /\ pc[c] \in {"update", "clean", "delete", "read", "verify"}
         => insight[arn[c]] \in Queries \cup {"gone"}
    /\ pc[c] \in {"create", "update"} => lost[c] = 0
    /\ pc[c] \in {"clean", "delete", "read", "verify"}
         => /\ lost[c] = 0 => insight[arn[c]] = question[c]
            /\ lost[c] = 1 => insight[arn[c]] # question[c]
    /\ pc[c] = "verify" /\ lost[c] = 0 => got[c] = question[c]
    /\ pc[c] = "success" /\ lost[c] < 2 => got[c] = question[c]

\* Leftovers are insights of this task, whatever became of them since.
LeftOf(c) == \A a \in left[c] : insight[a] # "user"

SlotInv == \A c \in Calls : SlotOf(c)
LeftInv == \A c \in Calls : LeftOf(c)

Inv == TypeOK /\ SlotInv /\ LeftInv

\* Renaming a slot, or deleting it, keeps what every other call knows.
LEMMA RenameSlotOf ==
    ASSUME TypeOK, NEW d \in Calls, SlotOf(d),
           NEW a \in Arns, NEW n \in Queries \cup {"gone"}, Rename(a, n),
           UNCHANGED <<pc[d], arn[d], question[d], got[d]>>
    PROVE  SlotOf(d)'
<1> USE InsightAssumption DEF TypeOK, Rename, Affected
<1>1. CASE arn[d] = a /\ pc[d] \in {"clean", "delete", "read", "verify"} /\ insight[a] # n
  <2>1. d \in Affected(a, n)
    BY <1>1
  <2>2. lost'[d] = IF lost[d] < 2 THEN lost[d] + 1 ELSE lost[d]
    BY <2>1
  <2> QED
    BY <1>1, <2>2 DEF SlotOf
<1>2. CASE ~(arn[d] = a /\ pc[d] \in {"clean", "delete", "read", "verify"} /\ insight[a] # n)
  <2>1. lost'[d] = lost[d]
    BY <1>2
  <2> QED
    BY <1>2, <2>1 DEF SlotOf
<1> QED
  BY <1>1, <1>2

\* Leftovers stay insights that are not a user's.
LEMMA RenameLeftOf ==
    ASSUME TypeOK, NEW d \in Calls, LeftOf(d),
           NEW a \in Arns, NEW n \in Queries \cup {"gone"}, Rename(a, n),
           left'[d] \subseteq left[d]
    PROVE  LeftOf(d)'
BY InsightAssumption DEF TypeOK, Rename, LeftOf, Other

LEMMA InvInit == Init => Inv
BY InsightAssumption DEF Init, Inv, TypeOK, Other, Working, SlotEnded, SlotInv,
   SlotOf, LeftInv, LeftOf

\* Every step keeps the types.
LEMMA TypeStep ==
    ASSUME TypeOK, SlotInv, [Next]_vars
    PROVE  TypeOK'
<1> USE InsightAssumption DEF TypeOK, Other, Working, SlotEnded, procVars, callVars
<1>1. ASSUME NEW c \in Calls, Start(c) PROVE TypeOK'
  BY <1>1 DEF Start
<1>2. ASSUME NEW c \in Calls, Lock(c) PROVE TypeOK'
  BY <1>2 DEF Lock
<1>3. ASSUME NEW c \in Calls, FindSlot(c) PROVE TypeOK'
  BY <1>3 DEF FindSlot, Slots, Owned
<1>4. ASSUME NEW c \in Calls, CreateInsight(c) PROVE TypeOK'
  BY <1>4 DEF CreateInsight, Rename, Affected
<1>5. ASSUME NEW c \in Calls, CreateRefused(c) PROVE TypeOK'
  BY <1>5 DEF CreateRefused, Finish
<1>6. ASSUME NEW c \in Calls, UpdateInsight(c) PROVE TypeOK'
  BY <1>6 DEF UpdateInsight, Rename, Affected, RetryOr, Finish
<1>7. ASSUME NEW c \in Calls, CleanupOnce(c) PROVE TypeOK'
  BY <1>7 DEF CleanupOnce
<1>8. ASSUME NEW c \in Calls, DeleteInsight(c) PROVE TypeOK'
  BY <1>8 DEF DeleteInsight, Rename, Affected
<1>9. ASSUME NEW c \in Calls, GetResults(c) PROVE TypeOK'
  <2>1. insight[arn[c]] # "gone" => insight[arn[c]] \in Queries
    BY <1>9 DEF GetResults, SlotInv, SlotOf
  <2> QED
    BY <1>9, <2>1 DEF GetResults, RetryOr, Finish
<1>10. ASSUME NEW c \in Calls, Verify(c) PROVE TypeOK'
  BY <1>10 DEF Verify, RetryOr, Finish
<1>11. ASSUME NEW c \in Calls, AwsError(c) PROVE TypeOK'
  BY <1>11 DEF AwsError, Finish
<1>12. ASSUME NEW c \in Calls, AnswerLost(c) PROVE TypeOK'
  BY <1>12 DEF AnswerLost, Rename, Affected, Finish
<1>13. ASSUME NEW p \in Procs, Restart(p) PROVE TypeOK'
  BY <1>13 DEF Restart
<1>14. CASE UNCHANGED vars
  BY <1>14 DEF vars
<1> QED
  BY <1>1, <1>2, <1>3, <1>4, <1>5, <1>6, <1>7, <1>8, <1>9, <1>10, <1>11,
     <1>12, <1>13, <1>14 DEF Next, Step, Done

\* Every step keeps what the calls know of their slot.
LEMMA SlotStep ==
    ASSUME TypeOK, SlotInv, [Next]_vars
    PROVE  SlotInv'
<1> USE InsightAssumption DEF TypeOK, procVars, callVars
<1> SUFFICES ASSUME NEW d \in Calls PROVE SlotOf(d)'
  BY DEF SlotInv
<1>0. SlotOf(d)
  BY DEF SlotInv
<1>1. ASSUME NEW c \in Calls, Start(c) PROVE SlotOf(d)'
  BY <1>0, <1>1 DEF Start, SlotOf
<1>2. ASSUME NEW c \in Calls, Lock(c) PROVE SlotOf(d)'
  BY <1>0, <1>2 DEF Lock, SlotOf
<1>3. ASSUME NEW c \in Calls, FindSlot(c) PROVE SlotOf(d)'
  BY <1>0, <1>3 DEF FindSlot, SlotOf, Slots, Owned
<1>4. ASSUME NEW c \in Calls, CreateInsight(c) PROVE SlotOf(d)'
  <2>1. CASE d = c
    <3>1. PICK a \in Arns : Rename(a, question[c]) /\ arn' = [arn EXCEPT ![c] = a]
      BY <1>4 DEF CreateInsight
    <3>2. arn'[c] = a /\ insight'[a] = question[c] /\ pc'[c] = "clean" /\ question' = question
      BY <1>4, <3>1 DEF CreateInsight, Rename
    <3>3. lost'[c] = 0
      BY <1>0, <1>4, <2>1, <3>1 DEF CreateInsight, Rename, Affected, SlotOf
    <3> QED
      BY <2>1, <3>2, <3>3 DEF SlotOf
  <2>2. CASE d # c
    BY <1>0, <1>4, <2>2, RenameSlotOf DEF CreateInsight
  <2> QED
    BY <2>1, <2>2
<1>5. ASSUME NEW c \in Calls, CreateRefused(c) PROVE SlotOf(d)'
  BY <1>0, <1>5 DEF CreateRefused, Finish, SlotOf
<1>6. ASSUME NEW c \in Calls, UpdateInsight(c) PROVE SlotOf(d)'
  <2>1. SlotOf(c) /\ pc[c] = "update"
    BY <1>6 DEF UpdateInsight, SlotInv
  <2>2. CASE insight[arn[c]] = "gone"
    BY <1>0, <1>6, <2>1, <2>2 DEF UpdateInsight, RetryOr, Finish, SlotOf
  <2>3. CASE insight[arn[c]] # "gone" /\ d = c
    <3>1. arn[c] \in Arns /\ Rename(arn[c], question[c]) /\ pc'[c] = "clean"
      BY <1>6, <2>1, <2>3 DEF UpdateInsight, SlotOf
    <3>2. insight'[arn[c]] = question[c] /\ lost'[c] = lost[c] /\ arn' = arn /\ question' = question
      BY <1>6, <2>1, <2>3, <3>1 DEF UpdateInsight, Rename, Affected
    <3> QED
      BY <2>3, <3>1, <3>2, <2>1 DEF SlotOf
  <2>4. CASE insight[arn[c]] # "gone" /\ d # c
    <3>1. arn[c] \in Arns /\ Rename(arn[c], question[c])
      BY <1>6, <2>1, <2>4 DEF UpdateInsight, SlotOf
    <3>2. UNCHANGED <<pc[d], arn[d], question[d], got[d]>>
      BY <1>6, <2>1, <2>4 DEF UpdateInsight
    <3> QED
      BY <1>0, <3>1, <3>2, RenameSlotOf
  <2> QED
    BY <2>2, <2>3, <2>4
<1>7. ASSUME NEW c \in Calls, CleanupOnce(c) PROVE SlotOf(d)'
  BY <1>0, <1>7 DEF CleanupOnce, SlotOf
<1>8. ASSUME NEW c \in Calls, DeleteInsight(c) PROVE SlotOf(d)'
  <2>1. PICK a \in left[c] :
          /\ Rename(a, "gone") \/ UNCHANGED <<insight, lost>>
          /\ pc' = [pc EXCEPT ![c] = IF left[c] = {a} THEN "read" ELSE "delete"]
    BY <1>8 DEF DeleteInsight
  <2>2. CASE UNCHANGED <<insight, lost>>
    BY <1>0, <1>8, <2>1, <2>2 DEF DeleteInsight, SlotOf
  <2>3. CASE Rename(a, "gone") /\ d # c
    BY <1>0, <1>8, <2>1, <2>3, RenameSlotOf DEF DeleteInsight
  <2>4. CASE Rename(a, "gone") /\ d = c
    <3>1. pc[c] = "delete" /\ pc'[c] \in {"read", "delete"}
          /\ UNCHANGED <<arn[c], question[c], got[c]>> /\ a \in Arns
      BY <1>8, <2>1 DEF DeleteInsight
    <3>2. CASE arn[c] = a /\ insight[a] # "gone"
      <4>1. lost'[c] = IF lost[c] < 2 THEN lost[c] + 1 ELSE lost[c]
        BY <2>4, <3>1, <3>2 DEF Rename, Affected
      <4> QED
        BY <1>0, <2>4, <3>1, <3>2, <4>1 DEF SlotOf, Rename
    <3>3. CASE ~(arn[c] = a /\ insight[a] # "gone")
      <4>1. lost'[c] = lost[c]
        BY <2>4, <3>1, <3>3 DEF Rename, Affected
      <4> QED
        BY <1>0, <2>4, <3>1, <3>3, <4>1 DEF SlotOf, Rename
    <3> QED
      BY <3>2, <3>3
  <2> QED
    BY <2>1, <2>2, <2>3, <2>4
<1>9. ASSUME NEW c \in Calls, GetResults(c) PROVE SlotOf(d)'
  BY <1>0, <1>9 DEF GetResults, RetryOr, Finish, SlotOf
<1>10. ASSUME NEW c \in Calls, Verify(c) PROVE SlotOf(d)'
  BY <1>0, <1>10 DEF Verify, RetryOr, Finish, SlotOf
<1>11. ASSUME NEW c \in Calls, AwsError(c) PROVE SlotOf(d)'
  BY <1>0, <1>11 DEF AwsError, Finish, SlotOf
<1>12. ASSUME NEW c \in Calls, AnswerLost(c) PROVE SlotOf(d)'
  <2>1. SlotOf(c) /\ pc' = [pc EXCEPT ![c] = "error"] /\ UNCHANGED <<arn, question, got>>
    BY <1>12 DEF AnswerLost, Finish, SlotInv
  <2>2. \E a \in Arns : Rename(a, question[c])
    BY <1>12, <2>1 DEF AnswerLost, SlotOf
  <2>3. CASE d = c
    BY <2>1, <2>3 DEF SlotOf
  <2>4. CASE d # c
    BY <1>0, <2>1, <2>2, <2>4, RenameSlotOf
  <2> QED
    BY <2>3, <2>4
<1>13. ASSUME NEW p \in Procs, Restart(p) PROVE SlotOf(d)'
  BY <1>0, <1>13 DEF Restart, SlotOf
<1>14. CASE UNCHANGED vars
  BY <1>0, <1>14 DEF vars, SlotOf
<1> QED
  BY <1>1, <1>2, <1>3, <1>4, <1>5, <1>6, <1>7, <1>8, <1>9, <1>10, <1>11,
     <1>12, <1>13, <1>14 DEF Next, Step, Done

\* What a step does to the insights of the account: nothing, or one that is
\* not a user's is made, renamed or deleted.
LEMMA InsightStep ==
    ASSUME TypeOK, SlotInv, LeftInv, [Next]_vars
    PROVE  \/ insight' = insight
           \/ \E a \in Arns, n \in Queries \cup {"gone"} :
                insight[a] # "user" /\ Rename(a, n)
<1> USE InsightAssumption DEF TypeOK, procVars, callVars
<1>1. ASSUME NEW c \in Calls, CreateInsight(c)
      PROVE  \E a \in Arns, n \in Queries \cup {"gone"} : insight[a] # "user" /\ Rename(a, n)
  BY <1>1 DEF CreateInsight
<1>2. ASSUME NEW c \in Calls, pc[c] = "update", Rename(arn[c], question[c])
      PROVE  \E a \in Arns, n \in Queries \cup {"gone"} : insight[a] # "user" /\ Rename(a, n)
  <2>1. arn[c] \in Arns /\ insight[arn[c]] # "user"
    BY <1>2 DEF SlotInv, SlotOf, Other
  <2> QED
    BY <1>2, <2>1
<1>3. ASSUME NEW c \in Calls, DeleteInsight(c)
      PROVE  \/ insight' = insight
             \/ \E a \in Arns, n \in Queries \cup {"gone"} : insight[a] # "user" /\ Rename(a, n)
  BY <1>3 DEF DeleteInsight, LeftInv, LeftOf
<1>4. ASSUME NEW c \in Calls, AnswerLost(c)
      PROVE  \E a \in Arns, n \in Queries \cup {"gone"} : insight[a] # "user" /\ Rename(a, n)
  BY <1>2, <1>4 DEF AnswerLost
<1>5. ASSUME NEW c \in Calls, UpdateInsight(c)
      PROVE  \/ insight' = insight
             \/ \E a \in Arns, n \in Queries \cup {"gone"} : insight[a] # "user" /\ Rename(a, n)
  BY <1>2, <1>5 DEF UpdateInsight
<1> QED
  BY <1>1, <1>3, <1>4, <1>5 DEF Next, Step, Done, vars, Start, Lock, FindSlot,
     CreateRefused, CleanupOnce, GetResults, Verify, AwsError, Restart

\* Every step keeps the leftovers to insights that are not a user's.
LEMMA LeftStep ==
    ASSUME TypeOK, SlotInv, LeftInv, [Next]_vars
    PROVE  LeftInv'
<1> USE InsightAssumption DEF TypeOK, procVars, callVars
<1> SUFFICES ASSUME NEW d \in Calls PROVE LeftOf(d)'
  BY DEF LeftInv
<1>1. CASE left'[d] \subseteq left[d]
  <2>1. LeftOf(d)
    BY DEF LeftInv
  <2>2. CASE insight' = insight
    BY <1>1, <2>1, <2>2 DEF LeftOf
  <2>3. CASE \E a \in Arns, n \in Queries \cup {"gone"} : Rename(a, n)
    BY <1>1, <2>1, <2>3, RenameLeftOf
  <2> QED
    BY <2>2, <2>3, InsightStep
<1>2. CASE FindSlot(d)
  BY <1>2 DEF FindSlot, Owned, LeftOf, Other
<1>3. left'[d] \subseteq left[d] \/ FindSlot(d)
  BY DEF Next, Step, Done, vars, Start, Lock, FindSlot, CreateInsight,
     CreateRefused, UpdateInsight, CleanupOnce, DeleteInsight, GetResults,
     Verify, AwsError, AnswerLost, Restart, RetryOr, Finish
<1> QED
  BY <1>1, <1>2, <1>3

LEMMA InvStep == Inv /\ [Next]_vars => Inv'
BY TypeStep, SlotStep, LeftStep DEF Inv

LEMMA Invariance == Spec => []Inv
BY InvInit, InvStep, PTL DEF Spec

\* The variables keep their types: attempts never exceed maxAttempts, and
\* GetInsightResults only ever answers for one of the task's own queries.
THEOREM TypeCorrect == Spec => []TypeOK
BY Invariance, PTL DEF Inv

\* A successful Execute returns the results of its own query unless the slot
\* was renamed twice, away and back, between its useSlot and its name check.
THEOREM ResultsCorrect == Spec => []ResultsAreOurs
<1>1. Inv => ResultsAreOurs
  BY DEF Inv, SlotInv, SlotOf, ResultsAreOurs
<1> QED
  BY <1>1, Invariance, PTL

\* The task never renames or deletes an insight a user made: neither through
\* a stale slot of useSlot nor through the leftovers of cleanupOnce.
THEOREM UsersUntouched == Spec => UserInsightsUntouched
<1> DEFINE UsersKept == \A a \in Arns : insight[a] = "user" => insight'[a] = "user"
<1>1. Inv /\ [Next]_vars => [UsersKept]_vars
  <2> SUFFICES ASSUME Inv, [Next]_vars PROVE UsersKept
    OBVIOUS
  <2> QED
    BY InsightStep DEF Inv, Rename, TypeOK
<1>2. Spec => [][UsersKept]_vars
  BY <1>1, Invariance, PTL DEF Spec
<1> QED
  BY <1>2 DEF UserInsightsUntouched

-----------------------------------------------------------------------------
\* The calls of one process exclude each other; a call never counts on an
\* insight it would delete, nor deletes one that is not there yet.
Exclusion == \A c \in Calls : pc[c] \in Working => holder[ProcOf[c]] = c

OneSlotEach ==
    \A c \in Calls :
        /\ pc[c] \in {"update", "clean", "delete", "read", "verify"} => arn[c] \notin left[c]
        /\ \A a \in left[c] : insight[a] # "free"

CourseInv == Inv /\ Exclusion /\ OneSlotEach

LEMMA CourseInit == Init => CourseInv
BY InvInit, InsightAssumption DEF CourseInv, Init, Exclusion, OneSlotEach, Working

\* The lock is what keeps two calls of a process from working at once.
LEMMA ExclusionStep ==
    ASSUME TypeOK, Exclusion, [Next]_vars
    PROVE  Exclusion'
<1> USE InsightAssumption DEF TypeOK, Exclusion, Working, SlotEnded, procVars, callVars
<1>1. ASSUME NEW c \in Calls, Start(c) PROVE Exclusion'
  BY <1>1 DEF Start
<1>2. ASSUME NEW c \in Calls, Lock(c) PROVE Exclusion'
  <2>1. \A d \in Calls : pc[d] \in Working => ProcOf[d] # ProcOf[c]
    BY <1>2 DEF Lock
  <2> QED
    BY <1>2, <2>1 DEF Lock
<1>3. ASSUME NEW c \in Calls, NEW outcome \in SlotEnded, pc[c] \in Working, Finish(c, outcome)
      PROVE  Exclusion'
  <2>1. \A d \in Calls \ {c} : pc[d] \in Working => ProcOf[d] # ProcOf[c]
    BY <1>3
  <2> QED
    BY <1>3, <2>1 DEF Finish
<1>4. ASSUME NEW c \in Calls, pc[c] \in Working, NEW where \in Working,
             pc' = [pc EXCEPT ![c] = where], holder' = holder
      PROVE  Exclusion'
  BY <1>4
<1>5. ASSUME NEW c \in Calls, NEW outcome \in SlotEnded, pc[c] \in Working, RetryOr(c, outcome)
      PROVE  Exclusion'
  BY <1>3, <1>4, <1>5 DEF RetryOr
<1>6. ASSUME NEW c \in Calls, FindSlot(c) \/ CreateInsight(c) \/ CleanupOnce(c) \/ DeleteInsight(c)
      PROVE  Exclusion'
  BY <1>4, <1>6 DEF FindSlot, CreateInsight, CleanupOnce, DeleteInsight
<1>7. ASSUME NEW c \in Calls, CreateRefused(c) \/ AwsError(c) \/ AnswerLost(c)
      PROVE  Exclusion'
  BY <1>3, <1>7 DEF CreateRefused, AwsError, AnswerLost
<1>8. ASSUME NEW c \in Calls, UpdateInsight(c) \/ GetResults(c) \/ Verify(c)
      PROVE  Exclusion'
  BY <1>3, <1>4, <1>5, <1>8 DEF UpdateInsight, GetResults, Verify
<1>9. ASSUME NEW p \in Procs, Restart(p) PROVE Exclusion'
  BY <1>9 DEF Restart
<1>10. CASE UNCHANGED vars
  BY <1>10 DEF vars
<1> QED
  BY <1>1, <1>2, <1>6, <1>7, <1>8, <1>9, <1>10 DEF Next, Step, Done

\* FindSlot sets the slot apart from the leftovers, CreateInsight takes a free
\* ARN, and nothing becomes free again.
LEMMA ApartStep ==
    ASSUME Inv, OneSlotEach, [Next]_vars
    PROVE  OneSlotEach'
<1> USE InsightAssumption DEF Inv, TypeOK, procVars, callVars
<1>1. \A a \in Arns : insight[a] # "free" => insight'[a] # "free"
  BY InsightStep DEF Rename, Other
<1>2. ASSUME NEW c \in Calls, FindSlot(c) PROVE OneSlotEach'
  BY <1>2 DEF FindSlot, Slots, Owned, OneSlotEach, Other
<1>3. ASSUME NEW c \in Calls, CreateInsight(c) PROVE OneSlotEach'
  BY <1>1, <1>3 DEF CreateInsight, OneSlotEach
<1>4. ASSUME NEW c \in Calls,
             UpdateInsight(c) \/ CleanupOnce(c) \/ DeleteInsight(c) \/ GetResults(c)
      PROVE  OneSlotEach'
  BY <1>1, <1>4 DEF UpdateInsight, CleanupOnce, DeleteInsight, GetResults, OneSlotEach,
     RetryOr, Finish
<1>5. ASSUME NEW c \in Calls,
             \/ Start(c) \/ Lock(c) \/ CreateRefused(c) \/ Verify(c) \/ AwsError(c)
             \/ AnswerLost(c)
      PROVE  OneSlotEach'
  BY <1>1, <1>5 DEF Start, Lock, CreateRefused, Verify, AwsError, AnswerLost, OneSlotEach,
     RetryOr, Finish
<1>6. ASSUME NEW p \in Procs, Restart(p) PROVE OneSlotEach'
  BY <1>1, <1>6 DEF Restart, OneSlotEach
<1>7. CASE UNCHANGED vars
  BY <1>7 DEF vars, OneSlotEach
<1> QED
  BY <1>2, <1>3, <1>4, <1>5, <1>6, <1>7 DEF Next, Step, Done

LEMMA Course == Spec => []CourseInv
<1>1. CourseInv /\ [Next]_vars => CourseInv'
  BY InvStep, ExclusionStep, ApartStep DEF CourseInv, Inv
<1> QED
  BY <1>1, CourseInit, PTL DEF Spec

\* What a call counts on is lost through one AWS call of a call at work, which
\* goes on by it.
LEMMA LosingStep ==
    ASSUME CourseInv, [Next]_vars, NEW c \in Calls, lost'[c] > lost[c]
    PROVE  /\ pc[c] \in Working
           /\ \E d \in Calls : /\ d # c /\ pc[d] \in Working
                               /\ <<pc[d], left[d]>>' # <<pc[d], left[d]>>
<1> USE InsightAssumption DEF CourseInv, Inv, TypeOK, procVars, callVars, Working
<1>1. ASSUME NEW a, NEW n, Rename(a, n)
      PROVE  pc[c] \in {"clean", "delete", "read", "verify"} /\ arn[c] = a
  BY <1>1 DEF Rename, Affected
<1>2. ASSUME NEW d \in Calls, CreateInsight(d) \/ UpdateInsight(d) \/ AnswerLost(d)
      PROVE  pc[c] \in Working /\ d # c /\ pc[d] \in Working /\ pc'[d] # pc[d]
  BY <1>1, <1>2 DEF CreateInsight, UpdateInsight, AnswerLost, Finish
<1>3. ASSUME NEW d \in Calls, DeleteInsight(d)
      PROVE  pc[c] \in Working /\ d # c /\ pc[d] \in Working /\ left'[d] # left[d]
  <2>1. PICK a \in left[d] :
          /\ Rename(a, "gone") \/ lost' = lost
          /\ left' = [left EXCEPT ![d] = @ \ {a}]
    BY <1>3 DEF DeleteInsight
  <2>2. pc[c] \in Working /\ arn[c] = a
    BY <1>1, <2>1
  <2>3. d # c
    BY <1>3, <2>1, <2>2 DEF DeleteInsight, OneSlotEach
  <2> QED
    BY <1>3, <2>1, <2>2, <2>3 DEF DeleteInsight
<1>4. ASSUME NEW d \in Calls, FindSlot(d) PROVE FALSE
  <2>1. lost'[c] = 0 \/ lost'[c] = lost[c]
    BY <1>4 DEF FindSlot
  <2> QED
    BY <2>1
<1>5. lost'[c] # lost[c] /\ lost' # lost
  OBVIOUS
<1>6. ASSUME NEW d \in Calls,
             \/ Start(d) \/ Lock(d) \/ CreateRefused(d) \/ CleanupOnce(d)
             \/ GetResults(d) \/ Verify(d) \/ AwsError(d)
      PROVE  FALSE
  BY <1>5, <1>6 DEF Start, Lock, CreateRefused, CleanupOnce, GetResults, Verify, AwsError
<1>7. \E d \in Calls : \/ CreateInsight(d) \/ UpdateInsight(d) \/ AnswerLost(d)
                       \/ DeleteInsight(d)
  <2>1. ~UNCHANGED vars /\ ~Done /\ \A p \in Procs : ~Restart(p)
    BY <1>5 DEF vars, Done, Restart
  <2> QED
    BY <2>1, <1>4, <1>6 DEF Next, Step
<1> QED
  BY <1>2, <1>3, <1>7

\* The slot a call counts on is only ever taken from it by a call of another
\* process: those of its own wait at the lock, and its own clean-up deletes
\* leftovers only.
THEOREM NoSelfDisturbance == Spec => OwnCallsHarmless
<1> DEFINE Harmless ==
      \A c \in Calls : lost'[c] > lost[c] =>
          \E d \in Calls : /\ ProcOf[d] # ProcOf[c]
                           /\ <<pc[d], left[d]>>' # <<pc[d], left[d]>>
<1>1. CourseInv /\ [Next]_vars => [Harmless]_vars
  <2> SUFFICES ASSUME CourseInv, [Next]_vars, NEW c \in Calls, lost'[c] > lost[c]
               PROVE  \E d \in Calls : /\ ProcOf[d] # ProcOf[c]
                                       /\ <<pc[d], left[d]>>' # <<pc[d], left[d]>>
    OBVIOUS
  <2>1. PICK d \in Calls : /\ d # c /\ pc[d] \in Working
                           /\ <<pc[d], left[d]>>' # <<pc[d], left[d]>>
    BY LosingStep
  <2>2. pc[c] \in Working
    BY LosingStep
  <2> QED
    BY <2>1, <2>2 DEF CourseInv, Exclusion
<1>2. Spec => [][Harmless]_vars
  BY <1>1, Course, PTL DEF Spec
<1> QED
  BY <1>2 DEF OwnCallsHarmless

-----------------------------------------------------------------------------
\* While calls are about to create a slot, there is a process for each slot and
\* for each of them: they found no slot, and no two of them share a process.
Creating == {c \in Calls : pc[c] = "create"}

Room == Creating # {} => Cardinality(Slots) + Cardinality(Creating) <= Cardinality(Procs)

\* Counting needs finitely many of what is counted.
FiniteAccount == IsFiniteSet(Arns) /\ IsFiniteSet(Procs)

\* Calls no two of which share a process are no more than the processes.
LEMMA CallsFitProcs ==
    ASSUME FiniteAccount, NEW C \in SUBSET Calls,
           \A c, d \in C : ProcOf[c] = ProcOf[d] => c = d
    PROVE  IsFiniteSet(C) /\ Cardinality(C) <= Cardinality(Procs)
<1> DEFINE f == [c \in C |-> ProcOf[c]]
<1>1. f \in Injection(C, Procs)
  BY InsightAssumption DEF Injection, IsInjective
<1> HIDE DEF f
<1> QED
  BY <1>1, FS_Injection DEF FiniteAccount

\* One element more or less.
LEMMA Sizes ==
    ASSUME NEW S, IsFiniteSet(S)
    PROVE  /\ Cardinality(S) \in Nat
           /\ \A T \in SUBSET S : Cardinality(T) \in Nat /\ Cardinality(T) <= Cardinality(S)
           /\ \A x : Cardinality(S \cup {x}) \in {Cardinality(S), Cardinality(S) + 1}
           /\ \A x \in S : Cardinality(S \ {x}) = Cardinality(S) - 1
BY FS_Subset, FS_CardinalityType, FS_AddElement, FS_RemoveElement

\* A slot is added by a call that is about to create, which then no longer is;
\* a call only comes to be about to create where there is no slot.
LEMMA SlotsStep ==
    ASSUME Inv, [Next]_vars
    PROVE  \/ Slots' \subseteq Slots /\ Creating' \subseteq Creating
           \/ Slots' = {}
           \/ \E c \in Creating, a \in Arns :
                Creating' = Creating \ {c} /\ Slots' = Slots \cup {a}
<1> USE InsightAssumption DEF Inv, TypeOK, procVars, callVars
<1> DEFINE Fewer == Slots' \subseteq Slots /\ Creating' \subseteq Creating
           OneMore == \E c \in Creating, a \in Arns :
                        Creating' = Creating \ {c} /\ Slots' = Slots \cup {a}
<1>1. ASSUME NEW c \in Calls, NEW where, where # "create", pc[c] = "create",
             pc' = [pc EXCEPT ![c] = where],
             \E a \in Arns : Rename(a, question[c])
      PROVE  OneMore
  BY <1>1 DEF Rename, Slots, Creating
<1>2. ASSUME NEW c \in Calls, NEW where, where # "create", pc[c] = "update",
             pc' = [pc EXCEPT ![c] = where], insight[arn[c]] # "gone",
             Rename(arn[c], question[c])
      PROVE  Fewer
  <2>1. insight[arn[c]] \in Queries /\ arn[c] \in Arns
    BY <1>2 DEF SlotInv, SlotOf
  <2> QED
    BY <1>2, <2>1 DEF Rename, Slots, Creating
<1>3. ASSUME NEW c \in Calls, CreateInsight(c) PROVE OneMore
  BY <1>1, <1>3 DEF CreateInsight
<1>4. ASSUME NEW c \in Calls, AnswerLost(c) PROVE OneMore \/ Fewer
  BY <1>1, <1>2, <1>4 DEF AnswerLost, Finish
<1>5. ASSUME NEW c \in Calls, UpdateInsight(c) PROVE Fewer
  <2>1. CASE insight[arn[c]] # "gone"
    BY <1>2, <1>5, <2>1 DEF UpdateInsight
  <2>2. CASE insight[arn[c]] = "gone"
    BY <1>5, <2>2 DEF UpdateInsight, RetryOr, Finish, Slots, Creating
  <2> QED
    BY <2>1, <2>2
<1>6. ASSUME NEW c \in Calls, DeleteInsight(c) PROVE Fewer
  <2>1. Creating' \subseteq Creating
    <3>1. \A d \in Calls : pc'[d] = "create" => pc[d] = "create"
      BY <1>6 DEF DeleteInsight
    <3> QED
      BY <3>1 DEF Creating
  <2>2. Slots' \subseteq Slots
    BY <1>6 DEF DeleteInsight, Rename, Slots, Other
  <2> QED
    BY <2>1, <2>2
<1>7. ASSUME NEW c \in Calls, FindSlot(c) PROVE Fewer \/ Slots' = {}
  <2>1. Slots' = Slots
    BY <1>7 DEF FindSlot, Slots
  <2>2. CASE Slots # {}
    <3>1. pc'[c] # "create" /\ \A d \in Calls \ {c} : pc'[d] = pc[d]
      BY <1>7, <2>2 DEF FindSlot
    <3> QED
      BY <2>1, <3>1 DEF Creating
  <2> QED
    BY <2>1, <2>2
<1>8. ASSUME NEW c \in Calls,
             \/ Start(c) \/ Lock(c) \/ CreateRefused(c) \/ CleanupOnce(c)
             \/ GetResults(c) \/ Verify(c) \/ AwsError(c)
      PROVE  Fewer
  <2>1. Slots' = Slots
    BY <1>8 DEF Start, Lock, CreateRefused, CleanupOnce, GetResults, Verify, AwsError, Slots
  <2>2. \A d \in Calls : pc'[d] = "create" => pc[d] = "create"
    BY <1>8 DEF Start, Lock, CreateRefused, CleanupOnce, GetResults, Verify, AwsError,
       RetryOr, Finish
  <2> QED
    BY <2>1, <2>2 DEF Creating
<1>9. ASSUME NEW p \in Procs, Restart(p) PROVE Fewer
  BY <1>9 DEF Restart, Slots, Creating
<1>10. CASE UNCHANGED vars
  BY <1>10 DEF vars, Slots, Creating
<1>11. CASE \E c \in Calls : Start(c) \/ Step(c)
  BY <1>3, <1>4, <1>5, <1>6, <1>7, <1>8, <1>11 DEF Step
<1> QED
  BY <1>9, <1>10, <1>11 DEF Next, Done

LEMMA RoomStep ==
    ASSUME FiniteAccount, CourseInv, CourseInv', Room, [Next]_vars
    PROVE  /\ Room'
           /\ Cardinality(Slots') > Cardinality(Slots)
                => Cardinality(Slots') <= Cardinality(Procs)
<1> USE DEF CourseInv, Inv
<1>1. IsFiniteSet(Slots) /\ IsFiniteSet(Slots') /\ IsFiniteSet(Procs)
  BY FS_Subset DEF FiniteAccount, Slots
<1>2. IsFiniteSet(Creating) /\ IsFiniteSet(Creating')
      /\ Cardinality(Creating') <= Cardinality(Procs)
  BY CallsFitProcs DEF Creating, Exclusion, Working
<1>3. /\ Cardinality(Slots) \in Nat /\ Cardinality(Slots') \in Nat
      /\ Cardinality(Creating) \in Nat /\ Cardinality(Creating') \in Nat
      /\ Cardinality(Procs) \in Nat
  BY <1>1, <1>2, Sizes
<1>4. CASE Slots' \subseteq Slots /\ Creating' \subseteq Creating
  <2>1. Creating' # {} => Creating # {}
    BY <1>4
  <2>2. Cardinality(Slots') <= Cardinality(Slots) /\ Cardinality(Creating') <= Cardinality(Creating)
    BY <1>1, <1>2, <1>4, Sizes
  <2> QED
    BY <1>3, <2>1, <2>2 DEF Room
<1>5. CASE Slots' = {}
  <2>1. Cardinality(Slots') = 0
    BY <1>5, FS_EmptySet
  <2> QED
    BY <1>2, <1>3, <2>1 DEF Room
<1>6. ASSUME NEW c \in Creating, NEW a \in Arns,
             Creating' = Creating \ {c}, Slots' = Slots \cup {a}
      PROVE  /\ Room'
             /\ Cardinality(Slots') <= Cardinality(Procs)
  <2>1. Cardinality(Creating') = Cardinality(Creating) - 1
    BY <1>2, <1>6, Sizes
  <2>2. Cardinality(Slots') <= Cardinality(Slots) + 1
    BY <1>1, <1>3, <1>6, Sizes
  <2>3. Cardinality(Slots) + Cardinality(Creating) <= Cardinality(Procs)
    BY <1>6 DEF Room
  <2> QED
    BY <1>3, <2>1, <2>2, <2>3 DEF Room
<1> QED
  BY <1>4, <1>5, <1>6, SlotsStep

\* The processes never add a slot beyond one for each of them, however their
\* calls race to create it.
THEOREM SlotsBounded == ASSUME FiniteAccount PROVE Spec => OneSlotPerProcess
<1> DEFINE FewSlots == Cardinality(Slots') > Cardinality(Slots)
                        => Cardinality(Slots') <= Cardinality(Procs)
<1>1. Init => Room
  BY DEF Init, Room, Creating
<1>2. CourseInv /\ CourseInv' /\ Room /\ [Next]_vars => Room' /\ [FewSlots]_vars
  BY RoomStep
<1>3. Spec => [][FewSlots]_vars
  BY <1>1, <1>2, Course, PTL DEF Spec
<1> QED
  BY <1>3 DEF OneSlotPerProcess
-----------------------------------------------------------------------------
(* Volume usage *)

\* Of natural numbers there is a least.
LEMMA Least == ASSUME NEW T \in SUBSET Nat, T # {} PROVE \E n \in T : \A m \in T : n <= m
<1> DEFINE R == OpToRel(<, Nat)
<1>1. IsWellFoundedOn(R, Nat)
  BY NatLessThanWellFounded
<1>2. \A x, y \in Nat : y < x => <<y, x>> \in R
  BY DEF OpToRel
<1> HIDE DEF R
<1>3. PICK x \in T : \A y \in T : ~(<<y, x>> \in R)
  BY <1>1, WFMin
<1>4. ASSUME NEW y \in T PROVE x <= y
  <2>1. x \in Nat /\ y \in Nat
    OBVIOUS
  <2>2. ~(y < x)
    BY <1>2, <1>3, <2>1
  <2> QED
    BY <2>1, <2>2
<1> QED
  BY <1>4

\* So what is true of 0, and of n + 1 if of n, is true of all.
LEMMA Induction ==
    ASSUME NEW G, 0 \in G, \A n \in Nat : n \in G => n + 1 \in G
    PROVE  Nat \subseteq G
<1>1. SUFFICES ASSUME ~(Nat \subseteq G) PROVE FALSE
  OBVIOUS
<1> DEFINE T == {n \in Nat : n \notin G}
<1>2. T \in SUBSET Nat /\ T # {}
  BY <1>1
<1>3. PICK n \in T : \A m \in T : n <= m
  BY Least, <1>2
<1>4. n - 1 \in Nat /\ n - 1 \notin T
  BY <1>3
<1>5. (n - 1) + 1 \in G
  BY <1>4
<1> QED
  BY <1>5, <1>3

LEMMA UsageIs ==
    \A u : u \in Usage <=> /\ u \in [DOMAIN u -> Percents] /\ DOMAIN u \subseteq Claims
<1>1. ASSUME NEW u \in Usage PROVE u \in [DOMAIN u -> Percents] /\ DOMAIN u \subseteq Claims
  <2>1. PICK s \in SUBSET Claims : u \in [s -> Percents]
    BY DEF Usage
  <2> QED
    BY <2>1
<1>2. ASSUME NEW u, u \in [DOMAIN u -> Percents], DOMAIN u \subseteq Claims PROVE u \in Usage
  BY <1>2 DEF Usage
<1> QED
  BY <1>1, <1>2

\* The usage of k on those of the first i nodes that answered.
By(i, k) == {mounted[results[j][1]][k] :
                 j \in {l \in 1..i : ~results[l][2] /\ k \in DOMAIN mounted[results[l][1]]}}

\* m is what the first i results come to.
Highest(i, m) ==
    /\ m \in Usage
    /\ \A k : k \in DOMAIN m <=> By(i, k) # {}
    /\ \A k \in DOMAIN m : m[k] \in By(i, k) /\ \A q \in By(i, k) : q <= m[k]

\* One more result.
WithNext(i, m) == IF results[i][2] THEN m ELSE Merge(m, mounted[results[i][1]])

LEMMA OneMore ==
    ASSUME mounted \in [Nodes -> Usage], results \in Seq(Nodes \X BOOLEAN),
           NEW i \in 1..Len(results), NEW m, Highest(i - 1, m)
    PROVE  Highest(i, WithNext(i, m))
<1> DEFINE u == mounted[results[i][1]]
<1>1. Len(results) \in Nat /\ results[i] \in Nodes \X BOOLEAN
  OBVIOUS
<1>2. u \in Usage /\ m \in Usage /\ results[i][2] \in BOOLEAN
  BY <1>1 DEF Highest
<1>3. /\ u \in [DOMAIN u -> Percents] /\ DOMAIN u \subseteq Claims
      /\ m \in [DOMAIN m -> Percents] /\ DOMAIN m \subseteq Claims /\ Percents \subseteq Nat
  BY <1>2, UsageIs, VolumeAssumption
<1>4. ASSUME NEW k
      PROVE  By(i, k) = IF ~results[i][2] /\ k \in DOMAIN u THEN By(i - 1, k) \cup {u[k]}
                        ELSE By(i - 1, k)
  <2>1. 1..i = (1..(i - 1)) \cup {i}
    OBVIOUS
  <2>2. {l \in 1..i : ~results[l][2] /\ k \in DOMAIN mounted[results[l][1]]}
          = {l \in 1..(i - 1) : ~results[l][2] /\ k \in DOMAIN mounted[results[l][1]]}
            \cup IF ~results[i][2] /\ k \in DOMAIN u THEN {i} ELSE {}
    BY <2>1
  <2> QED
    BY <2>2 DEF By
<1> HIDE DEF u
<1>5. CASE results[i][2]
  <2>1. \A k : By(i, k) = By(i - 1, k)
    BY <1>4, <1>5
  <2> QED
    BY <1>5, <2>1 DEF Highest, WithNext
<1>6. CASE ~results[i][2]
  <2> DEFINE w == Merge(m, u)
  <2>1. WithNext(i, m) = w
    BY <1>6 DEF WithNext, u
  <2>2. DOMAIN w = DOMAIN m \cup DOMAIN u
    BY DEF Merge
  <2>3. ASSUME NEW k \in DOMAIN w
        PROVE  w[k] = IF k \notin DOMAIN m \/ (k \in DOMAIN u /\ u[k] > m[k]) THEN u[k] ELSE m[k]
    BY <2>2 DEF Merge
  <2> HIDE DEF w
  <2>4. ASSUME NEW k \in DOMAIN w PROVE w[k] \in Percents
    <3>1. CASE k \in DOMAIN m
      BY <1>3, <2>2, <2>3, <3>1
    <3>2. CASE k \notin DOMAIN m
      BY <1>3, <2>2, <2>3, <3>2
    <3> QED
      BY <3>1, <3>2
  <2>5. w \in Usage
    <3>1. w = [k \in DOMAIN w |-> w[k]]
      BY DEF w, Merge
    <3>2. w \in [DOMAIN w -> Percents]
      BY <2>4, <3>1
    <3> QED
      BY <1>3, <2>2, <3>2, UsageIs
  <2>6. ASSUME NEW k PROVE k \in DOMAIN w <=> By(i, k) # {}
    <3>1. k \in DOMAIN m <=> By(i - 1, k) # {}
      BY DEF Highest
    <3> QED
      BY <1>4, <1>6, <2>2, <3>1
  <2>7. ASSUME NEW k \in DOMAIN w PROVE w[k] \in By(i, k) /\ \A q \in By(i, k) : q <= w[k]
    <3>1. k \in DOMAIN m <=> By(i - 1, k) # {}
      BY DEF Highest
    <3>2. k \in DOMAIN m => /\ m[k] \in By(i - 1, k) /\ \A q \in By(i - 1, k) : q <= m[k]
                            /\ m[k] \in Nat /\ \A q \in By(i - 1, k) : q \in Nat
      <4>1. \A q \in By(i - 1, k) : q \in Nat
        <5>1. ASSUME NEW l \in 1..(i - 1), k \in DOMAIN mounted[results[l][1]]
              PROVE  mounted[results[l][1]][k] \in Nat
          <6>1. l \in 1..Len(results)
            BY <1>1
          <6>2. results[l] \in Nodes \X BOOLEAN
            BY <6>1
          <6>3. mounted[results[l][1]] \in Usage
            BY <6>2
          <6> QED
            BY <5>1, <6>3, UsageIs, VolumeAssumption
        <5> QED
          BY <5>1 DEF By
      <4> QED
        BY <1>3, <4>1 DEF Highest
    <3>3. k \in DOMAIN u => u[k] \in Nat
      BY <1>3
    <3>4. CASE k \in DOMAIN u
      <4>1. By(i, k) = By(i - 1, k) \cup {u[k]}
        BY <1>4, <1>6, <3>4
      <4>2. CASE k \in DOMAIN m /\ ~(u[k] > m[k])
        BY <2>3, <3>2, <3>3, <3>4, <4>1, <4>2
      <4>3. CASE k \in DOMAIN m /\ u[k] > m[k]
        BY <2>3, <3>2, <3>3, <3>4, <4>1, <4>3
      <4>4. CASE k \notin DOMAIN m
        BY <2>3, <3>1, <3>3, <3>4, <4>1, <4>4
      <4> QED
        BY <4>2, <4>3, <4>4
    <3>5. CASE k \notin DOMAIN u
      <4>1. By(i, k) = By(i - 1, k) /\ k \in DOMAIN m
        BY <1>4, <2>2, <3>5
      <4> QED
        BY <2>3, <3>2, <3>5, <4>1
    <3> QED
      BY <3>4, <3>5
  <2> QED
    BY <2>1, <2>5, <2>6, <2>7 DEF Highest
<1> QED
  BY <1>2, <1>5, <1>6

LEMMA NoneIsHighest == Highest(0, <<>>)
<1>1. DOMAIN <<>> = {}
  OBVIOUS
<1>2. <<>> \in Usage
  <2>1. <<>> \in [{} -> Percents]
    OBVIOUS
  <2> QED
    BY <2>1 DEF Usage
<1>3. \A k : By(0, k) = {}
  BY DEF By
<1> QED
  BY <1>1, <1>2, <1>3 DEF Highest

\* The recursion of Merging, up to k.
Merges(f, k) ==
    /\ f \in [0..k -> Usage] /\ f[0] = <<>>
    /\ \A i \in 1..k : f[i] = WithNext(i, f[i - 1])

LEMMA MergesExist ==
    ASSUME mounted \in [Nodes -> Usage], results \in Seq(Nodes \X BOOLEAN)
    PROVE  \E f : Merges(f, Len(results)) /\ \A i \in 0..Len(results) : Highest(i, f[i])
<1> DEFINE G == {k \in Nat : k <= Len(results) =>
                     \E f : Merges(f, k) /\ \A i \in 0..k : Highest(i, f[i])}
<1>0. Len(results) \in Nat
  OBVIOUS
<1>1. 0 \in G
  <2> DEFINE f == [i \in 0..0 |-> <<>>]
  <2>1. Highest(0, <<>>) /\ <<>> \in Usage
    BY NoneIsHighest DEF Highest
  <2>2. Merges(f, 0) /\ \A i \in 0..0 : Highest(i, f[i])
    BY <2>1 DEF Merges
  <2> QED
    BY <2>2
<1>2. ASSUME NEW k \in Nat, k \in G PROVE k + 1 \in G
  <2> SUFFICES ASSUME k + 1 <= Len(results)
               PROVE  \E f : Merges(f, k + 1) /\ \A i \in 0..(k + 1) : Highest(i, f[i])
    OBVIOUS
  <2>1. PICK f : Merges(f, k) /\ \A i \in 0..k : Highest(i, f[i])
    BY <1>0, <1>2
  <2> DEFINE g == [i \in 0..(k + 1) |-> IF i = k + 1 THEN WithNext(k + 1, f[k]) ELSE f[i]]
  <2>2. Highest(k, f[k]) /\ (k + 1) - 1 = k /\ k + 1 \in 1..Len(results)
    BY <1>0, <2>1
  <2>3. Highest(k + 1, WithNext(k + 1, f[k]))
    BY <2>2, OneMore
  <2>4. ASSUME NEW i \in 0..(k + 1) PROVE Highest(i, g[i]) /\ g[i] \in Usage
    <3>1. CASE i = k + 1
      BY <2>3, <3>1 DEF Highest
    <3>2. CASE i # k + 1
      <4>1. i \in 0..k /\ g[i] = f[i]
        BY <3>2
      <4> QED
        BY <2>1, <4>1 DEF Highest
    <3> QED
      BY <3>1, <3>2
  <2>5. ASSUME NEW i \in 1..(k + 1) PROVE g[i] = WithNext(i, g[i - 1])
    <3>1. i - 1 \in 0..k /\ g[i - 1] = f[i - 1]
      OBVIOUS
    <3>2. CASE i = k + 1
      BY <3>1, <3>2
    <3>3. CASE i # k + 1
      <4>1. i \in 1..k /\ g[i] = f[i]
        BY <3>3
      <4> QED
        BY <2>1, <3>1, <4>1 DEF Merges
    <3> QED
      BY <3>2, <3>3
  <2>6. g[0] = <<>> /\ g \in [0..(k + 1) -> Usage]
    <3>1. g[0] = f[0]
      OBVIOUS
    <3> QED
      BY <2>1, <2>4, <3>1 DEF Merges
  <2> HIDE DEF g
  <2>7. Merges(g, k + 1)
    BY <2>5, <2>6 DEF Merges
  <2> QED
    BY <2>4, <2>7
<1>3. Len(results) \in G
  <2> HIDE DEF G
  <2> QED
    BY <1>0, <1>1, <1>2, Induction
<1> QED
  BY <1>0, <1>3

\* What is merged in the end is the highest on the nodes that answered.
LEMMA MergedIsHighest ==
    ASSUME mounted \in [Nodes -> Usage], results \in Seq(Nodes \X BOOLEAN)
    PROVE  Highest(Len(results), Merged)
<1> DEFINE P(f) == f = [i \in 0..Len(results) |->
                          IF i = 0 THEN <<>>
                          ELSE IF results[i][2] THEN f[i - 1]
                          ELSE Merge(f[i - 1], mounted[results[i][1]])]
           n == Len(results)
<1>0. n \in Nat
  OBVIOUS
<1>1. PICK f : Merges(f, n) /\ \A i \in 0..n : Highest(i, f[i])
  BY MergesExist
<1>2. P(f)
  <2>1. f = [i \in 0..n |-> f[i]]
    BY <1>1 DEF Merges
  <2>2. ASSUME NEW i \in 0..n
        PROVE  f[i] = IF i = 0 THEN <<>>
                      ELSE IF results[i][2] THEN f[i - 1]
                      ELSE Merge(f[i - 1], mounted[results[i][1]])
    <3>1. CASE i = 0
      BY <1>1, <3>1 DEF Merges
    <3>2. CASE i # 0
      <4>1. i \in 1..n
        BY <1>0, <3>2
      <4> QED
        BY <1>1, <3>2, <4>1 DEF Merges, WithNext
    <3> QED
      BY <3>1, <3>2
  <2> QED
    BY <2>1, <2>2, Zenon
<1>3. P(Merging)
  <2>1. Merging = CHOOSE g : P(g)
    BY DEF Merging
  <2> HIDE DEF P
  <2> QED
    BY <1>2, <2>1
<1>4. /\ Merging[0] = <<>>
      /\ \A i \in 1..n : Merging[i] = WithNext(i, Merging[i - 1])
  <2>1. Merging = [i \in 0..n |->
                      IF i = 0 THEN <<>>
                      ELSE IF results[i][2] THEN Merging[i - 1]
                      ELSE Merge(Merging[i - 1], mounted[results[i][1]])]
    BY <1>3
  <2>2. ASSUME NEW i \in 0..n
        PROVE  Merging[i] = IF i = 0 THEN <<>>
                            ELSE IF results[i][2] THEN Merging[i - 1]
                            ELSE Merge(Merging[i - 1], mounted[results[i][1]])
    BY <2>1, Zenon
  <2>3. 0 \in 0..n /\ \A i \in 1..n : i \in 0..n /\ i # 0
    BY <1>0
  <2> QED
    BY <2>2, <2>3 DEF WithNext
<1> DEFINE G == {k \in Nat : k <= n => Highest(k, Merging[k])}
<1>5. 0 \in G
  BY <1>4, NoneIsHighest
<1>6. ASSUME NEW k \in Nat, k \in G PROVE k + 1 \in G
  <2> SUFFICES ASSUME k + 1 <= n PROVE Highest(k + 1, Merging[k + 1])
    OBVIOUS
  <2>1. k + 1 \in 1..Len(results) /\ (k + 1) - 1 = k /\ Highest(k, Merging[k])
    BY <1>0, <1>6
  <2>2. Merging[k + 1] = WithNext(k + 1, Merging[k])
    BY <1>4, <2>1
  <2> QED
    BY <2>1, <2>2, OneMore
<1>7. n \in G
  <2> HIDE DEF G
  <2> QED
    BY <1>0, <1>5, <1>6, Induction
<1> QED
  BY <1>0, <1>7 DEF Merged

\* Every goroutine that has left has sent its result, and no other.
VolumeInv ==
    /\ VolumeTypeOK
    /\ \A n \in Nodes : at[n] = "left" <=> \E i \in 1..Len(results) : results[i][1] = n
    /\ \A i, j \in 1..Len(results) : results[i][1] = results[j][1] => i = j
    /\ UsageIsHighest

LEMMA ReportStays ==
    ASSUME UsageIsHighest, UNCHANGED <<mounted, threshold, main, report>>
    PROVE  UsageIsHighest'
<1>1. Answering' = Answering
  BY DEF Answering
<1>2. ASSUME NEW k PROVE Seen(k)' = Seen(k)
  BY <1>1 DEF Seen
<1>3. ASSUME NEW k PROVE HighestOf(k)' = HighestOf(k)
  BY <1>2 DEF HighestOf
<1>4. {k \in Claims : Seen(k)' # {}} = {k \in Claims : Seen(k) # {}}
  BY <1>2
<1>5. {k \in DOMAIN report.usage : HighestOf(k)' >= High}
        = {k \in DOMAIN report.usage : HighestOf(k) >= High}
  BY <1>3
<1> QED
  BY <1>3, <1>4, <1>5 DEF UsageIsHighest

LEMMA SendKeeps == ASSUME VolumeInv, NEW n \in Nodes, Send(n) PROVE VolumeInv'
<1>1. /\ results \in Seq(Nodes \X BOOLEAN) /\ Len(results) \in Nat /\ at[n] = "ask"
      /\ at \in [Nodes -> {"start", "ask", "left"}]
  BY DEF VolumeInv, VolumeTypeOK, Send
<1>2. PICK failed \in BOOLEAN : results' = Append(results, <<n, failed>>)
  BY DEF Send
<1>3. /\ results' \in Seq(Nodes \X BOOLEAN) /\ Len(results') = Len(results) + 1
      /\ \A i \in 1..Len(results) : results'[i] = results[i]
      /\ results'[Len(results) + 1][1] = n
  BY <1>1, <1>2
<1>4. \A m \in Nodes : at'[m] = IF m = n THEN "left" ELSE at[m]
  BY <1>1 DEF Send
<1>5. \A i \in 1..Len(results) : results[i][1] # n
  BY <1>1 DEF VolumeInv
<1>6. VolumeTypeOK'
  BY <1>1, <1>3 DEF Send, VolumeInv, VolumeTypeOK
<1>7. ASSUME NEW m \in Nodes
      PROVE  at'[m] = "left" <=> \E i \in 1..Len(results') : results'[i][1] = m
  <2>1. at[m] = "left" <=> \E i \in 1..Len(results) : results[i][1] = m
    BY DEF VolumeInv
  <2>2. CASE m = n
    BY <1>1, <1>3, <1>4, <2>2
  <2>3. CASE m # n
    <3>1. ASSUME NEW i \in 1..Len(results'), results'[i][1] = m
          PROVE  i \in 1..Len(results) /\ results[i][1] = m
      BY <1>1, <1>3, <2>3, <3>1
    <3>2. \A i \in 1..Len(results) : i \in 1..Len(results')
      BY <1>1, <1>3
    <3> QED
      BY <1>3, <1>4, <2>1, <2>3, <3>1, <3>2
  <2> QED
    BY <2>2, <2>3
<1>8. ASSUME NEW i \in 1..Len(results'), NEW j \in 1..Len(results'),
             results'[i][1] = results'[j][1]
      PROVE  i = j
  <2>1. \A l \in 1..Len(results') : l \in 1..Len(results) \/ l = Len(results) + 1
    BY <1>1, <1>3
  <2> QED
    BY <1>3, <1>5, <1>8, <2>1 DEF VolumeInv
<1>9. UsageIsHighest'
  BY ReportStays DEF Send, VolumeInv
<1> QED
  BY <1>6, <1>7, <1>8, <1>9 DEF VolumeInv

\* When all have left, the results are those of all nodes, and those that did not
\* fail are of the nodes that answered.
LEMMA AnswersAre ==
    ASSUME VolumeInv, \A n \in Nodes : at[n] = "left", NEW k,
           NEW failed, failed = {results[i][1] : i \in {j \in 1..Len(results) : results[j][2]}}
    PROVE  By(Len(results), k)
             = {mounted[n][k] : n \in {m \in Nodes \ failed : k \in DOMAIN mounted[m]}}
<1>1. /\ results \in Seq(Nodes \X BOOLEAN) /\ Len(results) \in Nat
      /\ \A i \in 1..Len(results) : results[i][1] \in Nodes /\ results[i][2] \in BOOLEAN
  <2>1. results \in Seq(Nodes \X BOOLEAN)
    BY DEF VolumeInv, VolumeTypeOK
  <2> QED
    BY <2>1
<1>2. \A i \in 1..Len(results) : results[i][1] \in failed <=> results[i][2]
  BY <1>1 DEF VolumeInv
<1>3. ASSUME NEW q \in By(Len(results), k)
      PROVE  q \in {mounted[n][k] : n \in {m \in Nodes \ failed : k \in DOMAIN mounted[m]}}
  <2>1. PICK j \in 1..Len(results) : /\ ~results[j][2] /\ k \in DOMAIN mounted[results[j][1]]
                                     /\ q = mounted[results[j][1]][k]
    BY DEF By
  <2> QED
    BY <1>1, <1>2, <2>1
<1>4. ASSUME NEW n \in Nodes \ failed, k \in DOMAIN mounted[n]
      PROVE  mounted[n][k] \in By(Len(results), k)
  <2>1. PICK j \in 1..Len(results) : results[j][1] = n
    BY DEF VolumeInv
  <2> QED
    BY <1>2, <1>4, <2>1 DEF By
<1> QED
  BY <1>3, <1>4

LEMMA ReportKeeps == ASSUME VolumeInv, Report PROVE VolumeInv'
<1> DEFINE listed == {k \in DOMAIN Merged : threshold = 0 \/ Merged[k] >= threshold}
           failed == {results[i][1] : i \in {j \in 1..Len(results) : results[j][2]}}
<1>1. /\ report' = [usage |-> [k \in listed |-> Merged[k]],
                    withMetrics |-> Cardinality(DOMAIN Merged),
                    high |-> Cardinality({k \in listed : Merged[k] >= High}),
                    errors |-> failed]
      /\ main' = "done" /\ UNCHANGED <<mounted, threshold, at, results>>
      /\ \A n \in Nodes : at[n] = "left"
  BY DEF Report
<1>2. /\ report'.usage = [k \in listed |-> Merged[k]] /\ report'.errors = failed
      /\ report'.withMetrics = Cardinality(DOMAIN Merged)
      /\ report'.high = Cardinality({k \in listed : Merged[k] >= High})
  BY <1>1
<1>3. mounted \in [Nodes -> Usage] /\ results \in Seq(Nodes \X BOOLEAN)
  BY DEF VolumeInv, VolumeTypeOK
<1>4. Highest(Len(results), Merged)
  BY <1>3, MergedIsHighest
<1> HIDE DEF failed
<1>5. ASSUME NEW k PROVE Seen(k)' = By(Len(results), k)
  <2>1. Answering' = Nodes \ failed
    BY <1>2 DEF Answering
  <2>2. Seen(k)' = {mounted[n][k] : n \in {m \in Nodes \ failed : k \in DOMAIN mounted[m]}}
    BY <1>1, <2>1 DEF Seen
  <2> QED
    BY <1>1, <2>2, AnswersAre DEF failed
<1>6. Merged \in [DOMAIN Merged -> Percents] /\ DOMAIN Merged \subseteq Claims
  BY <1>4, UsageIs DEF Highest
<1>7. {k \in Claims : Seen(k)' # {}} = DOMAIN Merged
  BY <1>4, <1>5, <1>6 DEF Highest
<1>8. ASSUME NEW k \in DOMAIN Merged PROVE HighestOf(k)' = Merged[k]
  <2>1. Merged[k] \in By(Len(results), k) /\ \A q \in By(Len(results), k) : q <= Merged[k]
    BY <1>4 DEF Highest
  <2>2. \A q \in By(Len(results), k) : q \in Nat
    <3>1. ASSUME NEW l \in 1..Len(results), k \in DOMAIN mounted[results[l][1]]
          PROVE  mounted[results[l][1]][k] \in Nat
      <4>1. results[l] \in Nodes \X BOOLEAN
        BY <1>3
      <4>2. mounted[results[l][1]] \in Usage
        BY <1>3, <4>1
      <4> QED
        BY <3>1, <4>2, UsageIs, VolumeAssumption
    <3> QED
      BY <3>1 DEF By
  <2>3. HighestOf(k)' = CHOOSE p \in By(Len(results), k) : \A q \in By(Len(results), k) : q <= p
    BY <1>5 DEF HighestOf
  <2>4. ASSUME NEW p \in By(Len(results), k), \A q \in By(Len(results), k) : q <= p
        PROVE  p = Merged[k]
    <3>1. Merged[k] <= p /\ p <= Merged[k] /\ p \in Nat /\ Merged[k] \in Nat
      BY <2>1, <2>2, <2>4
    <3> QED
      BY <3>1
  <2> QED
    BY <2>1, <2>3, <2>4
<1>9. {k \in Claims : Seen(k)' # {} /\ (threshold = 0 \/ HighestOf(k)' >= threshold)} = listed
  BY <1>6, <1>7, <1>8
<1>10. {k \in DOMAIN report'.usage : HighestOf(k)' >= High} = {k \in listed : Merged[k] >= High}
  BY <1>2, <1>8
<1>11. DOMAIN report'.usage = listed /\ \A k \in listed : report'.usage[k] = HighestOf(k)'
  BY <1>2, <1>8
<1>12. report'.usage \in Usage
  <2>1. \A k \in listed : Merged[k] \in Percents
    BY <1>6
  <2>2. report'.usage \in [listed -> Percents] /\ listed \subseteq Claims
    BY <1>2, <1>6, <2>1
  <2> HIDE DEF listed
  <2> QED
    BY <2>2 DEF Usage
<1>13. UsageIsHighest'
  <2>1. {k \in {l \in Claims : Seen(l)' # {}} : threshold' = 0 \/ HighestOf(k)' >= threshold'}
          = listed
    BY <1>1, <1>7, <1>9
  <2> HIDE DEF listed
  <2> QED
    BY <1>2, <1>7, <1>10, <1>11, <2>1 DEF UsageIsHighest
<1> QED
  BY <1>1, <1>12, <1>13 DEF VolumeInv, VolumeTypeOK

LEMMA VolumeStep == ASSUME VolumeInv, [VolumeNext]_volumeVars PROVE VolumeInv'
<1>1. ASSUME NEW n \in Nodes, Acquire(n) PROVE VolumeInv'
  <2>1. UsageIsHighest'
    BY <1>1, ReportStays DEF Acquire, VolumeInv
  <2>2. at \in [Nodes -> {"start", "ask", "left"}]
    BY DEF VolumeInv, VolumeTypeOK
  <2>3. \A m \in Nodes : at'[m] = "left" <=> at[m] = "left"
    BY <1>1, <2>2 DEF Acquire
  <2> QED
    BY <1>1, <2>1, <2>2, <2>3 DEF Acquire, VolumeInv, VolumeTypeOK
<1>2. CASE UNCHANGED volumeVars
  <2>1. UsageIsHighest'
    BY <1>2, ReportStays DEF volumeVars, VolumeInv
  <2> QED
    BY <1>2, <2>1 DEF volumeVars, VolumeInv, VolumeTypeOK
<1> QED
  BY <1>1, <1>2, SendKeeps, ReportKeeps DEF VolumeNext, Elsewhere

LEMMA VolumeBegins == ASSUME VolumeInit PROVE VolumeInv
<1>1. Len(results) = 0 /\ results \in Seq(Nodes \X BOOLEAN)
  BY DEF VolumeInit
<1>2. report.usage \in Usage
  BY NoneIsHighest DEF VolumeInit, NoReport, Highest
<1> QED
  BY <1>1, <1>2 DEF VolumeInit, VolumeInv, VolumeTypeOK, UsageIsHighest

\* pv_usage, for any nodes, claims, usages and number of requests at a time: in
\* whatever order the nodes answer or fail, the report has every claim with its
\* highest usage on those that answered.
THEOREM UsageIsTold == VolumeSpec => []UsageTold
<1>1. VolumeInit => VolumeInv
  BY VolumeBegins
<1>2. VolumeInv /\ [VolumeNext]_volumeVars => VolumeInv'
  BY VolumeStep
<1>3. VolumeInv => UsageTold
  BY DEF VolumeInv, UsageTold
<1> QED
  BY <1>1, <1>2, <1>3, PTL DEF VolumeSpec
-----------------------------------------------------------------------------
(* The followed log *)

\* A line that was read and not sent is the one in hand, or there is no more to come.
HandlerInv ==
    /\ log \in Seq({"short", "long"}) /\ Len(log) <= MaxLines
    /\ streamPc \in {"auth", "get", "stream", "scan", "line"} \cup Over
    /\ read \in 0..Len(log) /\ lines \in Seq(1..MaxLines)
    /\ (\A i \in 1..Len(lines) : lines[i] = i) /\ Len(lines) <= read
    /\ streamPc \in {"auth", "get", "stream"} => read = 0
    /\ streamPc = "scan" /\ ~cancelled => Len(lines) = read
    /\ streamPc = "line" => read > 0 /\ (~cancelled => Len(lines) = read - 1)

Flags ==
    /\ open \in BOOLEAN /\ jwt \in BOOLEAN /\ dev \in BOOLEAN /\ client \in BOOLEAN
    /\ late \in BOOLEAN /\ cancelled \in BOOLEAN
    /\ credentials \in [tls : BOOLEAN, token : {"none", "valid", "invalid"}]

LEMMA FlagsStep == ASSUME Flags, [StreamNext]_streamVars PROVE Flags'
<1> SUFFICES ASSUME StreamNext PROVE Flags'
  BY Zenon DEF Flags, streamVars
<1>1. CASE Handler
  BY <1>1, Zenon
  DEF Handler, Authenticate, GetPod, OpenStream, Scan, WriteLine, LineCancelled, ScanEnds,
      Outside, settings, Flags
<1>2. CASE ContainerWrites \/ ContainerStops \/ ClientLeaves \/ ClientNoticed \/ WriteTimeout
           \/ StreamEnded
  BY <1>2, Zenon
  DEF ContainerWrites, ContainerStops, ClientLeaves, ClientNoticed, WriteTimeout, StreamEnded,
      settings, streamVars, Flags
<1> QED
  BY <1>1, <1>2 DEF StreamNext

LEMMA HandlerStep == ASSUME HandlerInv, [StreamNext]_streamVars PROVE HandlerInv'
<1>1. /\ log \in Seq({"short", "long"}) /\ Len(log) \in Nat /\ Len(log) <= MaxLines
      /\ MaxLines \in Nat /\ read \in 0..Len(log) /\ lines \in Seq(1..MaxLines)
      /\ Len(lines) \in Nat
  BY StreamAssumption DEF HandlerInv
<1>2. CASE Authenticate \/ GetPod \/ OpenStream \/ LineCancelled \/ ScanEnds
  <2>1. UNCHANGED <<log, read, lines, cancelled>>
    BY <1>2 DEF Authenticate, GetPod, OpenStream, LineCancelled, ScanEnds, Outside
  <2>2. \/ streamPc \in {"auth", "get", "stream"}
           /\ streamPc' \in {"get", "stream", "scan"} \cup Over
        \/ streamPc' \in Over
    BY <1>2 DEF Authenticate, GetPod, OpenStream, LineCancelled, ScanEnds, Over, Rejections
  <2>3. streamPc \in {"auth", "get", "stream"} => read = 0 /\ Len(lines) = 0
    BY <1>1 DEF HandlerInv
  <2>4. (\A i \in 1..Len(lines) : lines[i] = i) /\ Len(lines) <= read
    BY DEF HandlerInv
  <2>5. streamPc' \in {"get", "stream", "scan"} \cup Over /\ streamPc' # "line"
    BY <2>2 DEF Over, Rejections
  <2>6. streamPc' \notin Over => read = 0 /\ Len(lines) = 0
    BY <2>2, <2>3
  <2>7. streamPc' \in {"auth", "get", "stream", "scan"} => streamPc' \notin Over
    BY DEF Over, Rejections
  <2> QED
    BY <1>1, <2>1, <2>4, <2>5, <2>6, <2>7 DEF HandlerInv
<1>3. CASE Scan
  <2>1. /\ read' = read + 1 /\ read' \in 0..Len(log) /\ lines' = lines /\ log' = log
        /\ streamPc' \in {"line", "too_long"} /\ cancelled' = cancelled /\ streamPc = "scan"
    BY <1>1, <1>3 DEF Scan, Outside
  <2>2. ~cancelled => Len(lines) = read
    BY <2>1 DEF HandlerInv
  <2>3. (\A i \in 1..Len(lines) : lines[i] = i) /\ Len(lines) <= read'
    BY <1>1, <2>1 DEF HandlerInv
  <2>4. streamPc' = "line" => read' > 0 /\ (~cancelled' => Len(lines') = read' - 1)
    BY <1>1, <2>1, <2>2
  <2> QED
    BY <1>1, <2>1, <2>3, <2>4 DEF HandlerInv, Over
<1>4. CASE WriteLine
  <2>1. /\ read \in 1..Len(log) /\ Len(lines) = read - 1 /\ streamPc' = "scan"
        /\ log' = log /\ read' = read
    BY <1>1, <1>4 DEF WriteLine, HandlerInv, Outside
  <2>2. CASE lines' = Append(lines, read)
    <3>1. lines' \in Seq(1..MaxLines) /\ Len(lines') = read
      BY <1>1, <2>1, <2>2
    <3>2. ASSUME NEW i \in 1..read PROVE lines'[i] = i
      <4>1. CASE i = read
        BY <1>1, <2>1, <2>2, <4>1
      <4>2. CASE i # read
        <5>1. i \in 1..Len(lines) /\ lines'[i] = lines[i]
          BY <1>1, <2>1, <2>2, <4>2
        <5>2. lines[i] = i
          BY <5>1 DEF HandlerInv
        <5> QED
          BY <5>1, <5>2
      <4> QED
        BY <4>1, <4>2
    <3> QED
      BY <1>1, <2>1, <3>1, <3>2 DEF HandlerInv
  <2>3. CASE lines' = lines /\ cancelled'
    BY <1>1, <2>1, <2>3 DEF HandlerInv
  <2> QED
    BY <1>4, <2>2, <2>3 DEF WriteLine
<1>5. CASE ContainerWrites
  <2>1. /\ log' \in Seq({"short", "long"}) /\ Len(log') = Len(log) + 1 /\ Len(log') <= MaxLines
        /\ UNCHANGED <<streamPc, read, lines, cancelled>>
    BY <1>1, <1>5 DEF ContainerWrites
  <2> QED
    BY <1>1, <2>1 DEF HandlerInv
<1>6. CASE ContainerStops \/ ClientLeaves \/ ClientNoticed \/ WriteTimeout \/ UNCHANGED streamVars
  <2>1. UNCHANGED <<log, read, lines, streamPc>> /\ (cancelled' = cancelled \/ cancelled')
    BY <1>6 DEF ContainerStops, ClientLeaves, ClientNoticed, WriteTimeout, streamVars
  <2> QED
    BY <1>1, <2>1 DEF HandlerInv
<1> QED
  BY <1>2, <1>3, <1>4, <1>5, <1>6 DEF StreamNext, Handler, StreamEnded

LEMMA StreamBegins == ASSUME StreamInit PROVE HandlerInv /\ Flags
<1>1. Flags
  BY Zenon DEF StreamInit, Flags
<1>2. log = <<>> /\ lines = <<>> /\ read = 0 /\ streamPc = "auth"
  BY DEF StreamInit
<1>3. (\A i \in 1..Len(lines) : lines[i] = i) /\ Len(log) = 0 /\ Len(lines) = 0
  BY <1>2
<1> QED
  BY <1>1, <1>2, <1>3, StreamAssumption DEF HandlerInv

LEMMA StreamIsWhole == ASSUME HandlerInv, Flags PROVE StreamTypeOK /\ NoGap
<1>1. {open, jwt, dev, client, late, cancelled} \subseteq BOOLEAN
  BY Zenon DEF Flags
<1>2. read \in 0..MaxLines
  BY StreamAssumption DEF HandlerInv
<1>3. lines = [i \in 1..Len(lines) |-> i]
  BY DEF HandlerInv
<1> QED
  BY <1>1, <1>2, <1>3, Zenon DEF HandlerInv, Flags, StreamTypeOK, NoGap
-----------------------------------------------------------------------------
(* The log that is read *)

\* Of numbers with a bound there is a greatest.
LEMMA Greatest ==
    ASSUME NEW n \in Nat, NEW T \in SUBSET (0..n), T # {}
    PROVE  \E m \in T : \A k \in T : k <= m
<1> DEFINE U == {n - k : k \in T}
<1>1. U \in SUBSET Nat /\ U # {}
  <2>1. \A k \in T : n - k \in Nat
    OBVIOUS
  <2> QED
    BY <2>1
<1>2. PICK u \in U : \A v \in U : u <= v
  BY <1>1, Least
<1>3. PICK m \in T : u = n - m
  BY <1>2
<1>4. ASSUME NEW k \in T PROVE k <= m
  <2>1. u <= n - k
    BY <1>2
  <2> QED
    BY <1>3, <2>1
<1> QED
  BY <1>3, <1>4

LEMMA PrefixIs ==
    ASSUME NEW s \in Seq(Bytes), NEW n \in 0..Len(s)
    PROVE  /\ Prefix(s, n) \in Seq(Bytes) /\ Len(Prefix(s, n)) = n
           /\ DOMAIN Prefix(s, n) = 1..n /\ \A i \in 1..n : Prefix(s, n)[i] = s[i]
           /\ \A m \in 0..n : Prefix(Prefix(s, n), m) = Prefix(s, m)
<1>1. /\ Prefix(s, n) \in Seq(Bytes) /\ Len(Prefix(s, n)) = n
      /\ DOMAIN Prefix(s, n) = 1..n /\ \A i \in 1..n : Prefix(s, n)[i] = s[i]
  BY DEF Prefix
<1>2. ASSUME NEW m \in 0..n PROVE Prefix(Prefix(s, n), m) = Prefix(s, m)
  <2>1. /\ Prefix(s, m) \in Seq(Bytes) /\ Len(Prefix(s, m)) = m
        /\ \A i \in 1..m : Prefix(s, m)[i] = s[i]
    BY DEF Prefix
  <2>2. /\ Prefix(Prefix(s, n), m) \in Seq(Bytes) /\ Len(Prefix(Prefix(s, n), m)) = m
        /\ \A i \in 1..m : Prefix(Prefix(s, n), m)[i] = Prefix(s, n)[i]
    BY <1>1 DEF Prefix
  <2> QED
    BY <1>1, <2>1, <2>2, SeqEqual
<1> QED
  BY <1>1, <1>2

\* A log without invalid bytes can be cut before every byte that begins a character.
LEMMA CutIsValid ==
    ASSUME NEW s \in Seq(Bytes), Valid(s), NEW m \in 0..Len(s),
           m < Len(s) => s[m + 1] # "more"
    PROVE  Valid(Prefix(s, m))
<1> DEFINE p == Prefix(s, m)
<1>1. Len(p) = m /\ DOMAIN p = 1..m /\ (\A i \in 1..m : p[i] = s[i]) /\ Len(s) \in Nat
      /\ DOMAIN s = 1..Len(s)
  BY PrefixIs
<1> HIDE DEF p
<1>2. ASSUME NEW i \in DOMAIN p, p[i] = "lead"
      PROVE  i + 2 <= Len(p) /\ p[i + 1] = "more" /\ p[i + 2] = "more"
  <2>1. i + 2 <= Len(s) /\ s[i + 1] = "more" /\ s[i + 2] = "more"
    BY <1>1, <1>2 DEF Valid
  <2>2. i + 2 <= m
    BY <1>1, <2>1
  <2> QED
    BY <1>1, <2>1, <2>2
<1>3. ASSUME NEW i \in DOMAIN p, p[i] = "more" PROVE Lead(p, i - 1) \/ Lead(p, i - 2)
  <2>1. Lead(s, i - 1) \/ Lead(s, i - 2)
    BY <1>1, <1>3 DEF Valid
  <2> QED
    BY <1>1, <2>1 DEF Lead
<1>4. Valid(p)
  BY <1>2, <1>3 DEF Valid
<1> QED
  BY <1>4 DEF p

\* No more than three bytes make a character.
LEMMA CutIsNear ==
    ASSUME NEW s \in Seq(Bytes), Valid(s), NEW n \in Nat, n < Len(s)
    PROVE  \E m \in 0..n : m + 3 > n /\ Valid(Prefix(s, m))
<1>1. Len(s) \in Nat /\ DOMAIN s = 1..Len(s)
  OBVIOUS
<1>2. CASE n = 0 \/ s[n + 1] # "more"
  <2>1. ASSUME n = 0 PROVE s[n + 1] # "more"
    <3>1. 1 \in DOMAIN s /\ 1 - 1 \notin DOMAIN s /\ 1 - 2 \notin DOMAIN s
      BY <1>1, <2>1
    <3>2. s[1] # "more"
      BY <3>1 DEF Valid, Lead
    <3> QED
      BY <2>1, <3>2
  <2> QED
    BY <1>1, <1>2, <2>1, CutIsValid
<1>3. CASE n # 0 /\ s[n + 1] = "more"
  <2>1. Lead(s, n) \/ Lead(s, n - 1)
    BY <1>1, <1>3 DEF Valid
  <2>2. CASE Lead(s, n)
    <3>1. n - 1 \in 0..n /\ s[(n - 1) + 1] # "more"
      BY <1>3, <2>2 DEF Lead
    <3> QED
      BY <1>1, <3>1, CutIsValid
  <2>3. CASE Lead(s, n - 1)
    <3>1. n - 2 \in 0..n /\ s[(n - 2) + 1] # "more"
      BY <1>1, <1>3, <2>3 DEF Lead
    <3> QED
      BY <1>1, <3>1, CutIsValid
  <2> QED
    BY <2>1, <2>2, <2>3
<1> QED
  BY <1>2, <1>3

\* What is kept of s is its first n bytes.
KeptAt(s, n) ==
    /\ Kept(ReadAll(s)) = Prefix(s, n)
    /\ Truncated(ReadAll(s)) \in BOOLEAN
    /\ Valid(s) => /\ n <= MaxLogBytes /\ Valid(Prefix(s, n))
                   /\ Truncated(ReadAll(s)) <=> n < Len(s)
                   /\ Truncated(ReadAll(s)) => n + 3 > MaxLogBytes

LEMMA KeptIs == ASSUME NEW s \in Seq(Bytes) PROVE \E n \in 0..Len(s) : KeptAt(s, n)
<1>0. Truncated(ReadAll(s)) \in BOOLEAN
  BY DEF Truncated
<1>1. MaxLogBytes \in Nat /\ Len(s) \in Nat
  BY ReadAssumption
<1>2. CASE Len(s) <= MaxLogBytes
  <2>1. ReadAll(s) = s /\ ~Truncated(s) /\ Kept(s) = s
    BY <1>1, <1>2 DEF ReadAll, Truncated, Kept
  <2>2. Prefix(s, Len(s)) = s
    BY <1>1 DEF Prefix
  <2>3. Len(s) \in 0..Len(s) /\ Len(s) <= MaxLogBytes /\ ~(Len(s) < Len(s))
    BY <1>1, <1>2
  <2>4. KeptAt(s, Len(s))
    BY <1>0, <2>1, <2>2, <2>3 DEF KeptAt
  <2> QED
    BY <2>3, <2>4
<1>3. CASE Len(s) > MaxLogBytes
  <2> DEFINE r == ReadAll(s)
             Good(n) == /\ Valid(Prefix(r, n))
                        /\ \A m \in (n + 1)..MaxLogBytes : ~Valid(Prefix(r, m))
  <2>1. r = Prefix(s, MaxLogBytes + 1)
    <3>1. CASE Len(s) > MaxLogBytes + 1
      BY <3>1 DEF ReadAll
    <3>2. CASE Len(s) = MaxLogBytes + 1
      <4>1. Prefix(s, Len(s)) = s
        BY <1>1 DEF Prefix
      <4> QED
        BY <1>1, <3>2, <4>1 DEF ReadAll
    <3> QED
      BY <1>1, <1>3, <3>1, <3>2
  <2>2. MaxLogBytes + 1 \in 0..Len(s)
    BY <1>1, <1>3
  <2>3. /\ r \in Seq(Bytes) /\ Len(r) = MaxLogBytes + 1
        /\ \A m \in 0..MaxLogBytes : Prefix(r, m) = Prefix(s, m)
    BY <1>1, <2>1, <2>2, PrefixIs
  <2>4. Truncated(r) /\ Kept(r) = Prefix(r, CHOOSE n \in 0..MaxLogBytes : Good(n))
    BY <1>1, <2>3 DEF Truncated, Kept
  <2> DEFINE T == {m \in 0..MaxLogBytes : Valid(Prefix(r, m))}
  <2> HIDE DEF r
  <2>5. 0 \in T
    <3>1. 0 \in 0..Len(r) /\ 0 \in 0..MaxLogBytes
      BY <1>1, <2>3
    <3>2. DOMAIN Prefix(r, 0) = 1..0
      BY <2>3, <3>1, PrefixIs
    <3>3. Valid(Prefix(r, 0))
      BY <3>2 DEF Valid
    <3> QED
      BY <3>1, <3>3
  <2>6. PICK n \in T : \A k \in T : k <= n
    <3>1. T \in SUBSET (0..MaxLogBytes) /\ T # {}
      BY <2>5
    <3> HIDE DEF T
    <3> QED
      BY <1>1, <3>1, Greatest
  <2>7. Good(n)
    <3>1. ASSUME NEW m \in (n + 1)..MaxLogBytes, Valid(Prefix(r, m)) PROVE FALSE
      <4>1. m \in T /\ ~(m <= n)
        BY <1>1, <3>1, <2>6
      <4> QED
        BY <2>6, <4>1
    <3> QED
      BY <2>6, <3>1
  <2>8. PICK c \in 0..MaxLogBytes : Good(c) /\ Kept(r) = Prefix(r, c)
    <3> HIDE DEF Good
    <3> QED
      BY <2>4, <2>7
  <2>9. Kept(r) = Prefix(s, c) /\ c \in 0..Len(s) /\ c < Len(s)
    BY <1>1, <1>3, <2>3, <2>8
  <2>10. ASSUME Valid(s) PROVE Valid(Prefix(s, c)) /\ c + 3 > MaxLogBytes
    <3>1. PICK m \in 0..MaxLogBytes : m + 3 > MaxLogBytes /\ Valid(Prefix(s, m))
      BY <1>1, <1>3, <2>10, CutIsNear
    <3>2. Valid(Prefix(r, m)) /\ Valid(Prefix(r, c))
      BY <2>3, <2>8, <3>1
    <3>3. ~(m >= c + 1)
      BY <1>1, <2>8, <3>1, <3>2
    <3> QED
      BY <1>1, <2>3, <3>1, <3>2, <3>3
  <2>11. c <= MaxLogBytes
    BY <1>1
  <2>12. KeptAt(s, c)
    BY <1>0, <2>4, <2>9, <2>10, <2>11 DEF KeptAt, r
  <2> QED
    BY <2>9, <2>12
<1> QED
  BY <1>1, <1>2, <1>3

\* A line begins at the first byte and after each newline but the last byte.
LEMMA LinesBegin ==
    ASSUME NEW s \in Seq(Bytes), NEW n \in 0..Len(s)
    PROVE  /\ Lines(Prefix(s, n)) = Cardinality({i \in 1..n : i = 1 \/ s[i - 1] = "newline"})
           /\ Lines(Prefix(s, n)) \in Nat
<1> DEFINE p == Prefix(s, n)
           ends == {i \in 1..n : s[i] = "newline"}
           begins == {i \in 1..n : i = 1 \/ s[i - 1] = "newline"}
           later == {i \in 1..n : i # 1 /\ s[i - 1] = "newline"}
           before == {i \in 1..n : i # n /\ s[i] = "newline"}
<1>0. n \in Nat
  OBVIOUS
<1>1. p \in Seq(Bytes) /\ Len(p) = n /\ DOMAIN p = 1..n /\ \A i \in 1..n : p[i] = s[i]
  BY PrefixIs
<1> HIDE DEF p
<1>2. {i \in DOMAIN p : p[i] = "newline"} = ends
  BY <1>1
<1> SUFFICES Lines(p) = Cardinality(begins) /\ Lines(p) \in Nat
  BY DEF p
<1>3. /\ IsFiniteSet(ends) /\ IsFiniteSet(begins) /\ IsFiniteSet(later) /\ IsFiniteSet(before)
      /\ Cardinality(ends) \in Nat /\ Cardinality(begins) \in Nat
  <2>1. IsFiniteSet(1..n)
    BY <1>0, FS_Interval
  <2> QED
    BY <2>1, FS_Subset, FS_CardinalityType
<1>4. Cardinality(later) = Cardinality(before)
  <2> DEFINE f == [i \in before |-> i + 1]
  <2>1. ExistsBijection(before, later)
    <3>1. f \in [before -> later]
      <4>1. ASSUME NEW i \in before PROVE i + 1 \in later
        BY <1>0
      <4> QED
        BY <4>1
    <3>2. \A i, j \in before : f[i] = f[j] => i = j
      BY <1>0
    <3>3. ASSUME NEW j \in later PROVE \E i \in before : f[i] = j
      <4>1. j - 1 \in before /\ (j - 1) + 1 = j
        BY <1>0
      <4> QED
        BY <4>1
    <3> HIDE DEF f
    <3>4. f \in Injection(before, later)
      BY <3>1, <3>2 DEF Injection, IsInjective
    <3>5. f \in Surjection(before, later)
      BY <3>1, <3>3 DEF Surjection
    <3> QED
      BY <3>4, <3>5 DEF ExistsBijection, Bijection
  <2> HIDE DEF f
  <2> QED
    BY <1>3, <2>1, FS_Bijection
<1>5. CASE n = 0
  <2>1. begins = {} /\ ends = {} /\ p = <<>>
    <3>1. begins = {} /\ ends = {}
      BY <1>5
    <3>2. p = <<>>
      BY <1>1, <1>5, EmptySeq
    <3> QED
      BY <3>1, <3>2
  <2>2. Lines(p) = Cardinality(ends) + 0
    BY <1>2, <2>1 DEF Lines
  <2>3. Cardinality(ends) = 0 /\ Cardinality(begins) = 0
    BY <2>1, FS_EmptySet, Zenon
  <2> QED
    BY <2>2, <2>3
<1>6. CASE n # 0
  <2>1. begins = later \cup {1} /\ 1 \notin later
    BY <1>0, <1>6
  <2>2. Cardinality(begins) = Cardinality(later) + 1
    BY <1>3, <2>1, FS_AddElement
  <2>3. p # <<>> /\ p[Len(p)] = s[n]
    BY <1>0, <1>1, <1>6
  <2>4. CASE s[n] = "newline"
    <3>1. ends = before \cup {n} /\ n \notin before
      BY <1>0, <1>6, <2>4
    <3>2. Cardinality(ends) = Cardinality(before) + 1
      BY <1>3, <3>1, FS_AddElement
    <3>3. Lines(p) = Cardinality(ends) + 0
      BY <1>2, <2>3, <2>4 DEF Lines
    <3> QED
      BY <1>3, <1>4, <2>2, <3>2, <3>3
  <2>5. CASE s[n] # "newline"
    <3>1. ends = before
      BY <1>0, <1>6, <2>5
    <3>2. Lines(p) = Cardinality(ends) + 1
      BY <1>2, <1>3, <2>3, <2>5 DEF Lines
    <3> QED
      BY <1>3, <1>4, <2>2, <3>1, <3>2
  <2> QED
    BY <2>4, <2>5
<1> QED
  BY <1>5, <1>6

LEMMA StringsAreSeqs == \A s : s \in Strings <=> s \in Seq(Bytes) /\ Len(s) <= MaxStream
<1>1. ASSUME NEW s \in Strings PROVE s \in Seq(Bytes) /\ Len(s) <= MaxStream
  <2>1. PICK n \in 0..MaxStream : s \in [1..n -> Bytes]
    BY DEF Strings
  <2> QED
    BY <2>1, ReadAssumption
<1>2. ASSUME NEW s \in Seq(Bytes), Len(s) <= MaxStream PROVE s \in Strings
  <2>1. Len(s) \in 0..MaxStream /\ s \in [1..Len(s) -> Bytes]
    BY <1>2, ReadAssumption
  <2> QED
    BY <2>1 DEF Strings
<1> QED
  BY <1>1, <1>2

\* What is done stays so.
ReadInv == ReadTypeOK /\ CutHonestly

LEMMA ReadBegins == ASSUME ReadInit PROVE ReadInv
<1>1. <<>> \in Strings
  <2>1. <<>> \in [1..0 -> Bytes]
    OBVIOUS
  <2> QED
    BY <2>1, ReadAssumption DEF Strings
<1> QED
  BY <1>1 DEF ReadInit, NoResult, ReadInv, ReadTypeOK, CutHonestly

\* The one step that gives a result.
LEMMA ReadGives ==
    ASSUME ReadInv, ReadLog, readPc' = "done"
    PROVE  ReadInv'
<1>1. bytes \in Seq(Bytes) /\ Len(bytes) <= MaxStream /\ bytes' = bytes
  BY StringsAreSeqs DEF ReadInv, ReadTypeOK, ReadLog
<1> DEFINE s == ReadAll(bytes)
<1>2. result' = [container |-> chosen, truncated |-> Truncated(s),
                 logs |-> Kept(s), lines |-> Lines(Kept(s))]
  BY DEF ReadLog
<1>3. PICK n \in 0..Len(bytes) : KeptAt(bytes, n)
  BY <1>1, KeptIs
<1>4. /\ result'.truncated = Truncated(s) /\ result'.logs = Prefix(bytes, n)
      /\ result'.lines = Lines(Prefix(bytes, n))
  BY <1>2, <1>3 DEF KeptAt
<1> HIDE DEF s
<1>5. Prefix(bytes, n) \in Seq(Bytes) /\ Len(Prefix(bytes, n)) = n
  BY <1>1, PrefixIs
<1>6. /\ Lines(Prefix(bytes, n)) = Cardinality({i \in 1..n : i = 1 \/ bytes[i - 1] = "newline"})
      /\ Lines(Prefix(bytes, n)) \in Nat
  BY <1>1, LinesBegin
<1>7. Prefix(bytes, n) \in Strings
  BY <1>1, <1>5, StringsAreSeqs, ReadAssumption
<1>8. ReadTypeOK'
  BY <1>4, <1>6, <1>7, <1>3 DEF ReadLog, ReadInv, ReadTypeOK, KeptAt, s
<1>9. Len(result'.logs) = n
  BY <1>4, <1>5
<1>10. CutHonestly'
  <2> DEFINE same == Cardinality({i \in 1..n : i = 1 \/ bytes[i - 1] = "newline"})
  <2>1. result'.lines = same
    BY <1>4, <1>6
  <2> HIDE DEF same
  <2>2. Valid(bytes) => /\ n <= MaxLogBytes /\ Valid(Prefix(bytes, n))
                        /\ result'.truncated <=> n < Len(bytes)
                        /\ result'.truncated => n + 3 > MaxLogBytes
    BY <1>3, <1>4 DEF KeptAt, s
  <2>3. Valid(bytes) =>
            LET m == Len(result'.logs) IN
            /\ result'.logs = Prefix(bytes, m) /\ Valid(result'.logs)
            /\ m <= MaxLogBytes
            /\ result'.truncated <=> m < Len(bytes)
            /\ result'.truncated => m + 3 > MaxLogBytes
            /\ result'.lines = Cardinality({i \in 1..m : i = 1 \/ bytes[i - 1] = "newline"})
    BY <1>4, <1>9, <2>1, <2>2 DEF same
  <2> QED
    BY <1>1, <2>3 DEF CutHonestly
<1> QED
  BY <1>8, <1>10 DEF ReadInv

LEMMA ReadStep == ASSUME ReadInv, [ReadNext]_readVars PROVE ReadInv'
<1>1. CASE ReadLog
  <2>1. CASE readPc' = "done"
    BY <1>1, <2>1, ReadGives
  <2>2. CASE readPc' = "error" /\ result' = result
    BY <1>1, <2>2 DEF ReadLog, ReadInv, ReadTypeOK, CutHonestly
  <2> QED
    BY <1>1, <2>1, <2>2 DEF ReadLog
<1>2. CASE ReadPod
  <2>1. containers # <<>> => containers[1] \in Containers
    <3>1. PICK k \in 0..2 : containers \in [1..k -> Containers]
      BY DEF ReadInv, ReadTypeOK, Specs
    <3>2. containers # <<>> => 1 \in 1..k
      BY <3>1
    <3> QED
      BY <3>1, <3>2
  <2> QED
    BY <1>2, <2>1 DEF ReadPod, ReadInv, ReadTypeOK, CutHonestly
<1>3. CASE Recreate \/ OpenLog
  BY <1>3 DEF Recreate, OpenLog, ReadInv, ReadTypeOK, CutHonestly
<1>4. CASE UNCHANGED readVars
  BY <1>4 DEF readVars, ReadInv, ReadTypeOK, CutHonestly
<1> QED
  BY <1>1, <1>2, <1>3, <1>4 DEF ReadNext, ReadEnded

\* The log of a container, for any number of lines and any limit: a client that follows
\* it has a beginning of it without a gap, and what get_logs returns of it is valid,
\* ends with a whole character and is said to be cut if it is.
THEOREM LogsAreWhole == StreamSpec /\ ReadSpec => []LogsWhole
<1>1. StreamInit => HandlerInv /\ Flags
  BY StreamBegins
<1>2. HandlerInv /\ Flags /\ [StreamNext]_streamVars => (HandlerInv /\ Flags)'
  BY HandlerStep, FlagsStep
<1>3. ReadInit => ReadInv
  BY ReadBegins
<1>4. ReadInv /\ [ReadNext]_readVars => ReadInv'
  BY ReadStep
<1>5. HandlerInv /\ Flags /\ ReadInv => LogsWhole
  BY StreamIsWhole DEF ReadInv, LogsWhole
<1> QED
  BY <1>1, <1>2, <1>3, <1>4, <1>5, PTL DEF StreamSpec, ReadSpec
-----------------------------------------------------------------------------
(* The SPIRE client *)

\* A bundle is one that its endpoint has served; who is watched has been fetched, and
\* with federation nothing else comes into a bundle and the source is only set when
\* all endpoints have been.
BundleInv ==
    /\ \A d \in Domains : bundle[d] <= keys[d]
    /\ \A d \in watching : bundle[d] # 0 /\ Federated(cfg)
    /\ spirePc \in {"off", "x509", "jwt"} /\ ~Federated(cfg) => \A d \in Domains : bundle[d] = 0
    /\ spirePc = "up" /\ Federated(cfg) => tokenKeys /\ watching = cfg.endpoints
    /\ Validate(cfg)
    /\ verdicts.accepted => verdicts.domain \in cfg.domains
           /\ (cfg.allowed = {} \/ <<verdicts.domain, verdicts.id>> \in cfg.allowed)

SpireInv == SpireTypeOK /\ BundleInv

LEMMA SpireBegins == ASSUME SpireInit PROVE SpireInv
<1>1. /\ cfg \in Configs /\ Validate(cfg) /\ reachable \subseteq Domains
      /\ keys = [d \in Domains |-> 1] /\ bundle = [d \in Domains |-> 0]
      /\ spirePc = "off" /\ identity = FALSE /\ tokenKeys = FALSE /\ watching = {}
      /\ verdicts = Nobody
  BY Zenon DEF SpireInit
<1>2. 1 \in 1..MaxKeys /\ 0 \in 0..MaxKeys /\ 0 <= 1
  BY SpireAssumption
<1>3. keys \in [Domains -> 1..MaxKeys] /\ bundle \in [Domains -> 0..MaxKeys]
  BY <1>1, <1>2
<1>4. \A d \in Domains : bundle[d] = 0 /\ keys[d] = 1
  BY <1>1
<1>5. verdicts.accepted = FALSE
  BY <1>1 DEF Nobody
<1>6. SpireTypeOK
  BY <1>1, <1>3 DEF SpireTypeOK
<1> QED
  BY <1>1, <1>2, <1>4, <1>5, <1>6 DEF SpireInv, BundleInv

\* A bundle is taken from the endpoint as it is: it is none that was there before.
LEMMA SpireFetches ==
    ASSUME SpireInv, NEW d \in Domains, Fetch(d) \/ WatchUpdate(d)
    PROVE  SpireInv' /\ \A e \in Domains : bundle'[e] >= bundle[e]
<1>1. /\ keys \in [Domains -> 1..MaxKeys] /\ bundle \in [Domains -> 0..MaxKeys] /\ MaxKeys \in Nat
      /\ bundle[d] <= keys[d] /\ watching \subseteq Domains
  BY SpireAssumption DEF SpireInv, SpireTypeOK, BundleInv
<1>2. /\ cfg' = cfg /\ keys' = keys /\ reachable' = reachable /\ identity' = identity
      /\ tokenKeys' = tokenKeys /\ verdicts' = verdicts
  BY DEF Fetch, WatchUpdate, World
<1>3. CASE bundle' = bundle /\ watching' = watching /\ spirePc' = "failed"
  BY <1>1, <1>2, <1>3 DEF SpireInv, SpireTypeOK, BundleInv
<1>4. CASE /\ bundle' = [bundle EXCEPT ![d] = keys[d]] /\ spirePc' = spirePc
           /\ watching' = watching \cup {d} /\ Federated(cfg)
           /\ d \in watching \/ spirePc = "jwt"
  <2>1. /\ \A e \in Domains : bundle'[e] >= bundle[e] /\ bundle'[e] <= keys'[e]
        /\ \A e \in watching' : bundle'[e] # 0
        /\ bundle' \in [Domains -> 0..MaxKeys]
    <3>1. ASSUME NEW e \in Domains
          PROVE  /\ bundle'[e] = IF e = d THEN keys[d] ELSE bundle[e]
                 /\ keys[e] \in 1..MaxKeys /\ bundle[e] \in 0..MaxKeys /\ bundle[e] <= keys[e]
                 /\ e \in watching => bundle[e] # 0
      BY <1>1, <1>4 DEF SpireInv, BundleInv
    <3>2. watching' \subseteq Domains
      BY <1>1, <1>4
    <3> QED
      BY <1>1, <1>2, <1>4, <3>1, <3>2
  <2> QED
    BY <1>1, <1>2, <1>4, <2>1 DEF SpireInv, SpireTypeOK, BundleInv, Federated
<1> QED
  BY <1>3, <1>4 DEF Fetch, WatchUpdate, SpireInv, BundleInv

LEMMA SpireStep ==
    ASSUME SpireInv, [SpireNext]_spireVars
    PROVE  SpireInv' /\ \A d \in Domains : bundle'[d] >= bundle[d]
<1>1. /\ keys \in [Domains -> 1..MaxKeys] /\ bundle \in [Domains -> 0..MaxKeys] /\ MaxKeys \in Nat
      /\ watching \subseteq Domains /\ \A d \in Domains : bundle[d] <= keys[d]
      /\ \A d \in Domains : bundle[d] \in Nat /\ keys[d] \in Nat /\ bundle[d] >= bundle[d]
  BY SpireAssumption DEF SpireInv, SpireTypeOK, BundleInv
<1>2. CASE Begin
  BY <1>1, <1>2 DEF Begin, World, SpireInv, SpireTypeOK, BundleInv
<1>3. CASE StartX509
  BY <1>1, <1>3 DEF StartX509, World, SpireInv, SpireTypeOK, BundleInv
<1>4. CASE StartJwtAgent
  <2>1. ~Federated(cfg) /\ spirePc = "jwt" /\ watching = {}
    BY <1>4, <1>1 DEF StartJwtAgent, Federated, SpireInv, BundleInv
  <2>2. \A d \in Domains : bundle[d] = 0
    BY <2>1 DEF SpireInv, BundleInv
  <2>3. /\ bundle' \in [Domains -> 0..MaxKeys]
        /\ \A d \in Domains : bundle'[d] <= keys[d] /\ bundle'[d] >= bundle[d]
    BY <1>1, <1>4, <2>2 DEF StartJwtAgent
  <2>4. spirePc' \in {"up", "failed"} /\ tokenKeys' \in BOOLEAN
    BY <1>4 DEF StartJwtAgent, SpireInv, SpireTypeOK
  <2> QED
    BY <1>1, <1>4, <2>1, <2>3, <2>4 DEF StartJwtAgent, World, SpireInv, SpireTypeOK, BundleInv
<1>5. CASE Started
  BY <1>1, <1>5 DEF Started, World, SpireInv, SpireTypeOK, BundleInv, Federated
<1>6. CASE Close
  BY <1>1, <1>6 DEF Close, World, SpireInv, SpireTypeOK, BundleInv
<1>7. ASSUME NEW d \in Domains, Fetch(d) \/ WatchUpdate(d)
      PROVE  SpireInv' /\ \A e \in Domains : bundle'[e] >= bundle[e]
  BY <1>7, SpireFetches
<1>8. ASSUME NEW d \in Domains, Rotate(d)
      PROVE  SpireInv' /\ \A e \in Domains : bundle'[e] >= bundle[e]
  <2>1. /\ keys' \in [Domains -> 1..MaxKeys]
        /\ \A e \in Domains : bundle[e] <= keys'[e]
    <3>1. ASSUME NEW e \in Domains
          PROVE  keys'[e] = (IF e = d THEN keys[e] + 1 ELSE keys[e]) /\ keys'[e] \in 1..MaxKeys
      BY <1>1, <1>8 DEF Rotate
    <3> QED
      BY <1>1, <1>8, <3>1 DEF Rotate
  <2> QED
    BY <1>1, <1>8, <2>1 DEF Rotate, SpireInv, SpireTypeOK, BundleInv
<1>9. ASSUME NEW d \in Domains, WatchError(d) \/ GoesDown(d) \/ ComesUp(d)
      PROVE  SpireInv' /\ \A e \in Domains : bundle'[e] >= bundle[e]
  BY <1>1, <1>9
  DEF WatchError, GoesDown, ComesUp, spireVars, SpireInv, SpireTypeOK, BundleInv
<1>10. ASSUME NEW d \in Domains, NEW i \in Ids, Handshake(d, i)
       PROVE  SpireInv' /\ \A e \in Domains : bundle'[e] >= bundle[e]
  <2>1. PeerAccepted(d, i) => d \in cfg.domains /\ cfg.allowed = {}
    BY DEF PeerAccepted, VerifiedChains
  <2>2. verdicts' = [domain |-> d, id |-> i, accepted |-> PeerAccepted(d, i)]
    BY <1>10 DEF Handshake
  <2>3. PeerAccepted(d, i) \in BOOLEAN
    BY DEF PeerAccepted
  <2>4. verdicts' \in [domain : Domains, id : Ids, accepted : BOOLEAN]
    BY <2>2, <2>3, Zenon
  <2>5. verdicts'.accepted => verdicts'.domain \in cfg.domains /\ cfg.allowed = {}
    BY <2>1, <2>2
  <2> QED
    BY <1>1, <1>10, <2>4, <2>5 DEF Handshake, World, SpireInv, SpireTypeOK, BundleInv
<1>11. CASE UNCHANGED spireVars
  BY <1>1, <1>11 DEF spireVars, SpireInv, SpireTypeOK, BundleInv
<1> QED
  BY <1>2, <1>3, <1>4, <1>5, <1>6, <1>7, <1>8, <1>9, <1>10, <1>11 DEF SpireNext

LEMMA SpireKnows == ASSUME SpireInv PROVE StaysHealthy /\ AdmittedAreAllowed
<1>1. StaysHealthy
  <2>1. ASSUME spirePc = "up", Federated(cfg) PROVE Healthy
    <3>1. tokenKeys /\ ~cfg.mtls /\ cfg.domains \subseteq watching
      BY <2>1 DEF SpireInv, BundleInv, Validate
    <3> QED
      BY <3>1 DEF Healthy, SpireInv, BundleInv
  <2> QED
    BY <2>1 DEF StaysHealthy
<1>2. ASSUME NEW d \in Domains, NEW i \in Ids, NEW k \in 1..MaxKeys, TokenAccepted(d, i, k)
      PROVE  /\ d \in cfg.domains /\ k \in 1..keys[d]
             /\ cfg.allowed = {} \/ <<d, i>> \in cfg.allowed
  <2>1. k <= keys[d] /\ keys[d] \in Nat /\ k \in Nat \ {0}
    BY <1>2, SpireAssumption DEF TokenAccepted, SpireInv, SpireTypeOK, BundleInv
  <2> QED
    BY <1>2, <2>1 DEF TokenAccepted, IsTrustDomainAllowed, IsIdAllowed
<1> QED
  BY <1>1, <1>2 DEF AdmittedAreAllowed, SpireInv, BundleInv

\* The SPIRE client, for any trust domains, ids and number of rotations: it admits
\* only whom it is configured to, with keys the domain has used, an outage takes no
\* key away, and once started it stays healthy.
THEOREM PeersAreKnown == SpireSpec => PeersKnown
<1>1. SpireInit => SpireInv
  BY SpireBegins
<1>2. SpireInv /\ [SpireNext]_spireVars => SpireInv'
  BY SpireStep
<1>3. SpireInv => SpireTypeOK /\ StaysHealthy /\ AdmittedAreAllowed
  BY SpireKnows DEF SpireInv
<1>4. SpireInv /\ [SpireNext]_spireVars => [\A d \in Domains : bundle'[d] >= bundle[d]]_spireVars
  BY SpireStep
<1> QED
  BY <1>1, <1>2, <1>3, <1>4, PTL DEF SpireSpec, PeersKnown, OutageKeepsKeys
=============================================================================
