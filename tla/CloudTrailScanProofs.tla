------------------------- MODULE CloudTrailScanProofs -------------------------
(***************************************************************************)
(* What holds of CloudTrailScan for every history, limit and number of     *)
(* calls: types, that continuations scan every event once, that coverage   *)
(* is honest, that logins counts all, and that no call outlives its budget.*)
(* The inductive invariant ties a call's counters to the page it is at.    *)
(***************************************************************************)
EXTENDS CloudTrailScan, TLAPS

\* The page a call is at, and why it stopped, agree.
AtPage(c) ==
    /\ resumeAt[c] <= token[c]
    /\ c \in Logins => resumeAt[c] = 1
    /\ pc[c] \in {"idle", "loop", "wait", "call"} => token[c] <= Last
    /\ pc[c] \in {"next", "done"} => (stop[c] = "exhausted" <=> token[c] > Last)
    /\ pc[c] = "next" => c \in Logins
    /\ pc[c] = "idle" => token[c] = 1 /\ resumeAt[c] = 1 /\ res[c] = Nothing
                         /\ counted[c] = 0

\* The counters of this Run are those of the pages from resumeAt to token.
Counters(c) ==
    pc[c] # "failed" =>
        /\ res[c].scanned = history[c].events[token[c]-1] - history[c].events[resumeAt[c]-1]
        /\ res[c].matched = history[c].matches[token[c]-1] - history[c].matches[resumeAt[c]-1]
        /\ counted[c] = res[c].matched

Covers(c) ==
    pc[c] # "failed" =>
        /\ res[c].scanned = 0 => res[c].to = 0 /\ res[c].from = 0
        /\ res[c].scanned > 0 => /\ res[c].to = history[c].events[resumeAt[c]-1] + 1
                                 /\ res[c].from = history[c].events[token[c]-1]

\* What earlier Runs of a lookup returned is what is before this one, or, at its
\* end, before the token it hands out.
Earlier(c) ==
    c \notin Logins =>
        LET p == IF pc[c] = "done" THEN token[c] ELSE resumeAt[c]
        IN  /\ total[c].scanned = history[c].events[p-1]
            /\ total[c].matched = history[c].matches[p-1]

InTime(c) ==
    /\ pc[c] \in Running => deadline[c] = started[c] + Budget /\ clock <= deadline[c]
    /\ pc[c] = "wait" => slot[c] <= deadline[c]

CallInv(c) == AtPage(c) /\ Counters(c) /\ Covers(c) /\ Earlier(c) /\ InTime(c)

IInv == TypeOK /\ \A c \in Calls : CallInv(c)

-----------------------------------------------------------------------------
LEMMA HistoryFacts ==
    ASSUME NEW h \in Histories
    PROVE  /\ h.events \in [0..Last -> Nat] /\ h.matches \in [0..Last -> Nat]
           /\ h.events[0] = 0 /\ h.matches[0] = 0
           /\ \A p \in 1..Last : /\ h.events[p-1] <= h.events[p]
                                 /\ h.matches[p-1] <= h.matches[p]
           /\ \A p \in 0..Last : h.events[p] \in Nat /\ h.matches[p] \in Nat
BY ScanAssumption DEF ScanAssumption, History

LEMMA InitInv == Init => IInv
<1> SUFFICES ASSUME Init PROVE IInv
    OBVIOUS
<1>1. TypeOK
    BY ScanAssumption DEF Init, TypeOK, ScanAssumption, Nothing, Result, Totals, Reasons
<1>2. ASSUME NEW c \in Calls PROVE CallInv(c)
    <2>1. /\ history[c] \in Histories /\ token[c] = 1 /\ resumeAt[c] = 1 /\ pc[c] = "idle"
          /\ res[c] = Nothing /\ counted[c] = 0
          /\ total[c].scanned = 0 /\ total[c].matched = 0
        BY DEF Init
    <2>2. history[c].events[0] = 0 /\ history[c].matches[0] = 0
        BY <2>1, HistoryFacts
    <2>. QED
        BY <2>1, <2>2, ScanAssumption DEF ScanAssumption, CallInv, AtPage, Counters, Covers,
           Earlier, InTime, Nothing, Running
<1>. QED
    BY <1>1, <1>2 DEF IInv

\* A call that a step leaves alone keeps its part of the invariant.
LEMMA OtherCall ==
    ASSUME NEW d \in Calls, CallInv(d), clock' = clock,
           pc'[d] = pc[d], section'[d] = section[d], history'[d] = history[d],
           deadline'[d] = deadline[d], started'[d] = started[d], slot'[d] = slot[d],
           token'[d] = token[d], resumeAt'[d] = resumeAt[d], res'[d] = res[d],
           stop'[d] = stop[d], counted'[d] = counted[d], total'[d] = total[d]
    PROVE  CallInv(d)'
BY DEF CallInv, AtPage, Counters, Covers, Earlier, InTime

-----------------------------------------------------------------------------
LEMMA StartInv == ASSUME IInv, NEW c \in Calls, Start(c) PROVE IInv'
<1>1. TypeOK'
    BY ScanAssumption DEF ScanAssumption, IInv, TypeOK, Start, limiterVars, request, Running
<1>2. ASSUME NEW d \in Calls PROVE CallInv(d)'
    <2>1. CASE d = c
        <3>1. /\ pc[c] = "idle" /\ pc'[c] = "loop" /\ started'[c] = clock
              /\ deadline'[c] = clock + Budget /\ clock' = clock
              /\ UNCHANGED <<section, history, token, resumeAt, res, stop, counted, total, slot>>
              /\ clock \in Nat /\ Budget \in Nat /\ Last \in Nat \ {0}
            BY ScanAssumption DEF ScanAssumption, IInv, TypeOK, Start, request
        <3>. QED
            BY <2>1, <3>1 DEF IInv, CallInv, AtPage, Counters, Covers, Earlier, InTime, Running
    <2>2. CASE d # c
        BY <2>2, OtherCall DEF IInv, TypeOK, Start, limiterVars, request
    <2>. QED
        BY <2>1, <2>2
<1>. QED
    BY <1>1, <1>2 DEF IInv

\* What BreakOff does to the call that stops.
LEMMA BreakOffInv ==
    ASSUME IInv, NEW c \in Calls, NEW reason \in Reasons \ {"-", "exhausted"},
           pc[c] \in {"loop", "call"}, BreakOff(c, reason),
           clock' = clock, UNCHANGED <<limiterVars, request>>, slot' \in [Calls -> Nat],
           attempts' \in [Calls -> 0..MaxAttempts],
           \A d \in Calls \ {c} : slot'[d] = slot[d]
    PROVE  IInv'
<1>1. TypeOK'
    <2>1. total' \in [Calls -> Totals]
        BY DEF IInv, TypeOK, BreakOff, Totals, Result
    <2>. QED
        BY <2>1 DEF IInv, TypeOK, BreakOff, limiterVars, request, Running
<1>2. ASSUME NEW d \in Calls PROVE CallInv(d)'
    <2>1. CASE d = c
        <3>1. /\ history'[c] = history[c] /\ token'[c] = token[c] /\ resumeAt'[c] = resumeAt[c]
              /\ res'[c] = res[c] /\ counted'[c] = counted[c] /\ stop'[c] = reason
              /\ pc'[c] = IF c \in Logins /\ section[c] = 1 THEN "next" ELSE "done"
              /\ deadline'[c] = deadline[c] /\ started'[c] = started[c]
              /\ total'[c].scanned = total[c].scanned + res[c].scanned
              /\ total'[c].matched = total[c].matched + res[c].matched
            BY DEF IInv, TypeOK, BreakOff, request
        <3>2. CallInv(c) /\ token[c] <= Last /\ token[c] \in 1..Last + 1 /\ resumeAt[c] \in 1..Last
              /\ history[c] \in Histories
            BY DEF IInv, TypeOK, CallInv, AtPage
        <3>3. AtPage(c)' /\ Counters(c)' /\ Covers(c)' /\ InTime(c)'
            BY <3>1, <3>2, ScanAssumption DEF ScanAssumption, CallInv, AtPage, Counters, Covers, InTime, Running
        <3>4. Earlier(c)'
            <4>1. CASE c \in Logins
                BY <4>1 DEF Earlier
            <4>2. CASE c \notin Logins
                <5>1. /\ history[c].events[token[c]-1] \in Nat /\ history[c].events[resumeAt[c]-1] \in Nat
                      /\ history[c].matches[token[c]-1] \in Nat /\ history[c].matches[resumeAt[c]-1] \in Nat
                    <6>1. token[c] - 1 \in 0..Last /\ resumeAt[c] - 1 \in 0..Last
                        BY <3>2, ScanAssumption DEF ScanAssumption
                    <6>. QED
                        BY <3>2, <6>1, HistoryFacts
                <5>2. /\ total[c].scanned = history[c].events[resumeAt[c]-1]
                      /\ total[c].matched = history[c].matches[resumeAt[c]-1]
                    BY <3>2, <4>2 DEF CallInv, Earlier
                <5>3. /\ res[c].scanned = history[c].events[token[c]-1] - history[c].events[resumeAt[c]-1]
                      /\ res[c].matched = history[c].matches[token[c]-1] - history[c].matches[resumeAt[c]-1]
                    BY <3>2 DEF CallInv, Counters
                <5>. QED
                    BY <3>1, <4>2, <5>1, <5>2, <5>3 DEF Earlier
            <4>. QED
                BY <4>1, <4>2
        <3>. QED
            BY <2>1, <3>3, <3>4 DEF CallInv
    <2>2. CASE d # c
        BY <2>2, OtherCall DEF IInv, TypeOK, BreakOff, limiterVars, request
    <2>. QED
        BY <2>1, <2>2
<1>. QED
    BY <1>1, <1>2 DEF IInv

LEMMA FailInv ==
    ASSUME IInv, NEW c \in Calls, pc[c] \in {"wait", "call"}, Fail(c),
           clock' = clock, UNCHANGED <<asks, request, slot>>,
           attempts' \in [Calls -> 0..MaxAttempts],
           free' \in [Keys -> Int], lastEvent' \in [Keys -> Int]
    PROVE  IInv'
<1>1. TypeOK'
    BY DEF IInv, TypeOK, Fail, request, Running
<1>2. ASSUME NEW d \in Calls PROVE CallInv(d)'
    <2>1. CASE d = c
        BY <2>1 DEF IInv, TypeOK, Fail, request, CallInv, AtPage, Counters, Covers, Earlier,
           InTime, Running
    <2>2. CASE d # c
        BY <2>2, OtherCall DEF IInv, TypeOK, Fail, request
    <2>. QED
        BY <2>1, <2>2
<1>. QED
    BY <1>1, <1>2 DEF IInv

LEMMA LoopInv == ASSUME IInv, NEW c \in Calls, Loop(c) PROVE IInv'
<1>0. Max2(clock, free[KeyOf[c]]) \in Nat
    BY ScanAssumption DEF ScanAssumption, IInv, TypeOK, Max2
<1>1. ASSUME NEW reason \in {"max_pages", "time_budget"}, BreakOff(c, reason),
             UNCHANGED <<slot, free, lastEvent>>
      PROVE  IInv'
    <2>1. reason \in Reasons \ {"-", "exhausted"}
        BY DEF Reasons
    <2>2. /\ pc[c] \in {"loop", "call"} /\ clock' = clock /\ UNCHANGED <<limiterVars, request>>
          /\ slot' \in [Calls -> Nat] /\ \A d \in Calls \ {c} : slot'[d] = slot[d]
          /\ attempts' \in [Calls -> 0..MaxAttempts]
        BY <1>1 DEF Loop, IInv, TypeOK, limiterVars
    <2>. QED
        BY <1>1, <2>1, <2>2, BreakOffInv
<1>2. ASSUME Reserve(c), pc' = [pc EXCEPT ![c] = "wait"], deadline[c] - clock >= Guard,
             UNCHANGED <<section, deadline, started, token, resumeAt, res, stop, counted, total>>
      PROVE  IInv'
    <2>1. TypeOK'
        <3>1. slot' \in [Calls -> Nat] /\ lastEvent' \in [Keys -> Int] /\ free' \in [Keys -> Int]
            <4> DEFINE at == Max2(clock, free[KeyOf[c]])
            <4>1. at \in Nat /\ at + Interval \in Int
                BY <1>0, ScanAssumption DEF ScanAssumption
            <4>2. /\ slot' = [slot EXCEPT ![c] = at]
                  /\ lastEvent' = [lastEvent EXCEPT ![KeyOf[c]] = at]
                  /\ free' = [free EXCEPT ![KeyOf[c]] = at + Interval]
                BY <1>2 DEF Reserve
            <4>3. /\ slot \in [Calls -> Nat] /\ lastEvent \in [Keys -> Int]
                  /\ free \in [Keys -> Int] /\ at \in Int
                BY <4>1 DEF IInv, TypeOK
            <4>. HIDE DEF at
            <4>. QED
                BY <4>1, <4>2, <4>3
        <3>. QED
            BY <1>2, <3>1 DEF IInv, TypeOK, Loop, request, Running
    <2>2. ASSUME NEW d \in Calls PROVE CallInv(d)'
        <3>1. CASE d = c
            <4>1. slot'[c] <= deadline[c]
                BY <1>0, <1>2 DEF IInv, TypeOK, Reserve
            <4>. QED
                BY <1>2, <3>1, <4>1 DEF IInv, TypeOK, Loop, request, CallInv, AtPage, Counters,
                   Covers, Earlier, InTime, Running
        <3>2. CASE d # c
            <4>1. slot'[d] = slot[d]
                BY <1>2, <3>2 DEF IInv, TypeOK, Reserve
            <4>. QED
                BY <1>2, <3>2, <4>1, OtherCall DEF IInv, TypeOK, Loop, request
        <3>. QED
            BY <3>1, <3>2
    <2>. QED
        BY <2>1, <2>2 DEF IInv
<1>. QED
    BY <1>1, <1>2 DEF Loop

LEMMA SendInv == ASSUME IInv, NEW c \in Calls, Send(c) PROVE IInv'
<1>1. TypeOK'
    <2>1. attempts' \in [Calls -> 0..MaxAttempts]
        BY ScanAssumption DEF ScanAssumption, IInv, TypeOK, Send
    <2>2. asks' \in [Keys -> Int \X Int]
        <3>1. KeyOf[c] \in Keys /\ asks \in [Keys -> Int \X Int] /\ clock \in Int
            BY ScanAssumption DEF ScanAssumption, IInv, TypeOK
        <3>2. <<asks[KeyOf[c]][2], clock>> \in Int \X Int
            BY <3>1
        <3>3. asks' = [asks EXCEPT ![KeyOf[c]] = <<asks[KeyOf[c]][2], clock>>]
            BY DEF Send
        <3>. QED
            BY <3>1, <3>2, <3>3
    <2>3. clock' = clock /\ pc' = [pc EXCEPT ![c] = "call"]
          /\ UNCHANGED <<free, lastEvent, request, callVars>>
        BY DEF Send
    <2>. QED
        BY <2>1, <2>2, <2>3 DEF IInv, TypeOK, request, callVars, Running
<1>2. ASSUME NEW d \in Calls PROVE CallInv(d)'
    <2>1. CASE d = c
        BY <2>1 DEF IInv, TypeOK, Send, request, callVars, CallInv, AtPage, Counters, Covers,
           Earlier, InTime, Running
    <2>2. CASE d # c
        BY <2>2, OtherCall DEF IInv, TypeOK, Send, request, callVars
    <2>. QED
        BY <2>1, <2>2
<1>. QED
    BY <1>1, <1>2 DEF IInv

LEMMA ResendInv == ASSUME IInv, NEW c \in Calls, Resend(c) PROVE IInv'
<1>1. TypeOK'
    BY ScanAssumption DEF ScanAssumption, IInv, TypeOK, Resend, limiterVars, request, callVars
<1>2. ASSUME NEW d \in Calls PROVE CallInv(d)'
    BY OtherCall DEF IInv, Resend, request, callVars
<1>. QED
    BY <1>1, <1>2 DEF IInv

LEMMA CancelInv == ASSUME IInv, NEW c \in Calls, Cancel(c) PROVE IInv'
<1>1. /\ free' \in [Keys -> Int] /\ lastEvent' \in [Keys -> Int]
      /\ attempts' \in [Calls -> 0..MaxAttempts]
    BY ScanAssumption DEF ScanAssumption, IInv, TypeOK, Cancel
<1>. QED
    BY <1>1, FailInv DEF Cancel

LEMMA CallFailsInv == ASSUME IInv, NEW c \in Calls, CallFails(c) PROVE IInv'
<1>0. /\ pc[c] = "call" /\ UNCHANGED <<clock, limiterVars, request, slot>>
      /\ slot \in [Calls -> Nat] /\ free \in [Keys -> Int] /\ lastEvent \in [Keys -> Int]
      /\ attempts' \in [Calls -> 0..MaxAttempts]
    BY ScanAssumption DEF ScanAssumption, CallFails, IInv, TypeOK
<1>1. ASSUME NEW reason \in {"throttled", "time_budget"}, BreakOff(c, reason) PROVE IInv'
    <2>1. reason \in Reasons \ {"-", "exhausted"}
        BY DEF Reasons
    <2>. QED
        BY <1>0, <1>1, <2>1, BreakOffInv
<1>2. ASSUME Fail(c) PROVE IInv'
    BY <1>0, <1>2, FailInv DEF limiterVars
<1>. QED
    BY <1>1, <1>2 DEF CallFails

\* What one page adds to a call's counters and coverage.
LEMMA PageRead ==
    ASSUME IInv, NEW c \in Calls, pc[c] = "call", ReadPage(c), UNCHANGED <<request, resumeAt>>
    PROVE  /\ res' \in [Calls -> Result] /\ token' \in [Calls -> 1..Last + 1]
           /\ counted' \in [Calls -> Nat]
           /\ token'[c] = token[c] + 1 /\ token[c] <= Last
           /\ \A d \in Calls \ {c} : /\ res'[d] = res[d] /\ token'[d] = token[d]
                                     /\ counted'[d] = counted[d]
           /\ res'[c].scanned = history[c].events[token[c]] - history[c].events[resumeAt[c]-1]
           /\ res'[c].matched = history[c].matches[token[c]] - history[c].matches[resumeAt[c]-1]
           /\ counted'[c] = res'[c].matched
           /\ res'[c].scanned = 0 => res'[c].to = 0 /\ res'[c].from = 0
           /\ res'[c].scanned > 0 => /\ res'[c].to = history[c].events[resumeAt[c]-1] + 1
                                     /\ res'[c].from = history[c].events[token[c]]
<1> DEFINE p == token[c]
           h == history[c]
           q == resumeAt[c] - 1
           n == h.events[p] - h.events[p-1]
           m == h.matches[p] - h.matches[p-1]
           k == Min2(limit[c].matches, res[c].kept + m)
           to == IF res[c].to = 0 /\ n > 0 THEN h.events[p-1] + 1 ELSE res[c].to
           from == IF n > 0 THEN h.events[p] ELSE res[c].from
<1>1. /\ p \in 1..Last /\ h \in Histories /\ resumeAt[c] \in 1..Last /\ resumeAt[c] <= p
      /\ Last \in Nat
      /\ Counters(c) /\ Covers(c)
    BY ScanAssumption DEF ScanAssumption, IInv, TypeOK, CallInv, AtPage
<1>2. p - 1 \in 0..Last /\ p \in 0..Last /\ q \in 0..Last
    BY <1>1
<1>3. /\ h.events[p] \in Nat /\ h.events[p-1] \in Nat /\ h.events[p-1] <= h.events[p]
      /\ h.matches[p] \in Nat /\ h.matches[p-1] \in Nat /\ h.matches[p-1] <= h.matches[p]
      /\ h.events[q] \in Nat /\ h.matches[q] \in Nat
    BY <1>1, <1>2, HistoryFacts
<1>4. n \in Nat /\ m \in Nat
    BY <1>3
<1>5. /\ res[c].pages \in Nat /\ res[c].scanned \in Nat /\ res[c].matched \in Nat
      /\ res[c].kept \in Nat /\ res[c].to \in Nat /\ res[c].from \in Nat
      /\ counted[c] \in Nat /\ limit[c].matches \in Nat
    BY ScanAssumption DEF ScanAssumption, IInv, TypeOK, Result
<1>6. k \in Nat /\ to \in Nat /\ from \in Nat
    <2>1. k \in Nat
        BY <1>4, <1>5 DEF Min2
    <2>2. to \in Nat /\ from \in Nat
        BY <1>3, <1>5
    <2>. QED
        BY <2>1, <2>2
<1>7. /\ res' = [res EXCEPT ![c] = [pages |-> res[c].pages + 1, scanned |-> res[c].scanned + n,
                                   matched |-> res[c].matched + m, kept |-> k,
                                   to |-> to, from |-> from]]
      /\ counted' = [counted EXCEPT ![c] = @ + m]
      /\ token' = [token EXCEPT ![c] = p + 1]
    BY DEF ReadPage
<1>8. /\ res[c].scanned = h.events[p-1] - h.events[q]
      /\ res[c].matched = h.matches[p-1] - h.matches[q]
      /\ counted[c] = res[c].matched
      /\ res[c].scanned = 0 => res[c].to = 0 /\ res[c].from = 0
      /\ res[c].scanned > 0 => res[c].to = h.events[q] + 1 /\ res[c].from = h.events[p-1]
    BY <1>1 DEF Counters, Covers
<1>9. /\ res[c].scanned + n = h.events[p] - h.events[q]
      /\ res[c].matched + m = h.matches[p] - h.matches[q]
      /\ counted[c] + m = res[c].matched + m
      /\ res[c].scanned + n = 0 => to = 0 /\ from = 0
      /\ res[c].scanned + n > 0 => to = h.events[q] + 1 /\ from = h.events[p]
    <2>1. /\ res[c].scanned + n = h.events[p] - h.events[q]
          /\ res[c].matched + m = h.matches[p] - h.matches[q]
          /\ counted[c] + m = res[c].matched + m
        BY <1>3, <1>8
    <2>2. CASE n = 0
        <3>1. to = res[c].to /\ from = res[c].from /\ res[c].scanned + n = res[c].scanned
            BY <1>5, <2>2
        <3>2. h.events[p] = h.events[p-1]
            BY <1>3, <2>2
        <3>. HIDE DEF to, from, n
        <3>. QED
            BY <1>8, <2>1, <3>1, <3>2
    <2>3. CASE n > 0
        <3>1. from = h.events[p] /\ res[c].scanned + n > 0
            BY <1>4, <1>5, <2>3
        <3>2. CASE res[c].scanned = 0
            <4>1. to = h.events[p-1] + 1 /\ h.events[p-1] = h.events[q]
                BY <1>3, <1>8, <2>3, <3>2
            <4>. HIDE DEF to, from, n
            <4>. QED
                BY <2>1, <3>1, <4>1
        <3>3. CASE res[c].scanned > 0
            BY <1>3, <1>8, <2>1, <2>3, <3>1, <3>3
        <3>. QED
            BY <1>5, <3>2, <3>3
    <2>. QED
        BY <1>4, <2>2, <2>3
<1>10. /\ res[c].pages + 1 \in Nat /\ res[c].scanned + n \in Nat /\ res[c].matched + m \in Nat
       /\ counted[c] + m \in Nat /\ p + 1 \in 1..Last + 1
    BY <1>1, <1>4, <1>5
<1>11. /\ res \in [Calls -> Result] /\ token \in [Calls -> 1..Last + 1] /\ counted \in [Calls -> Nat]
       /\ p <= Last
    BY <1>1 DEF IInv, TypeOK
<1>. HIDE DEF p, h, q, n, m, k, to, from
<1>12. /\ res'[c] = [pages |-> res[c].pages + 1, scanned |-> res[c].scanned + n,
                     matched |-> res[c].matched + m, kept |-> k, to |-> to, from |-> from]
       /\ token'[c] = p + 1 /\ counted'[c] = counted[c] + m
       /\ \A d \in Calls \ {c} : /\ res'[d] = res[d] /\ token'[d] = token[d]
                                 /\ counted'[d] = counted[d]
    BY <1>7, <1>11
<1>13. /\ res' \in [Calls -> Result] /\ token' \in [Calls -> 1..Last + 1]
       /\ counted' \in [Calls -> Nat]
    BY <1>6, <1>7, <1>10, <1>11 DEF Result
<1>14. /\ res'[c].scanned = res[c].scanned + n /\ res'[c].matched = res[c].matched + m
       /\ res'[c].to = to /\ res'[c].from = from
    BY <1>12
<1>. QED
    BY <1>9, <1>11, <1>12, <1>13, <1>14 DEF p, h, q

LEMMA AnswerInv == ASSUME IInv, NEW c \in Calls, Answer(c) PROVE IInv'
<1>1. /\ pc[c] = "call" /\ ReadPage(c)
      /\ UNCHANGED <<clock, limiterVars, request, section, deadline, started, slot, resumeAt>>
      /\ attempts' \in [Calls -> 0..MaxAttempts]
    BY ScanAssumption DEF ScanAssumption, Answer, IInv, TypeOK
<1> DEFINE why == StopAfterPage(c)
           end == IF c \in Logins /\ section[c] = 1 THEN "next" ELSE "done"
<1>2. why \in {"-", "exhausted", "max_matches"} /\ (why = "exhausted" <=> token'[c] > Last)
    BY DEF StopAfterPage
<1>3. /\ stop' = [stop EXCEPT ![c] = why]
      /\ pc' = [pc EXCEPT ![c] = IF why = "-" THEN "loop" ELSE end]
      /\ total' = IF why = "-" THEN total ELSE [total EXCEPT ![c] =
             [scanned |-> @.scanned + res'[c].scanned, matched |-> @.matched + res'[c].matched,
              kept |-> @.kept + res'[c].kept, runs |-> @.runs + 1]]
    BY DEF Answer
<1>. HIDE DEF why
<1>4. TypeOK'
    <2>1. stop' \in [Calls -> Reasons]
        BY <1>2, <1>3 DEF IInv, TypeOK, Reasons
    <2>2. pc' \in [Calls -> {"idle", "done", "failed"} \cup Running]
        BY <1>3 DEF IInv, TypeOK, Running
    <2>3. total' \in [Calls -> Totals]
        <3>1. res' \in [Calls -> Result]
            BY <1>1, PageRead
        <3>2. /\ total[c].scanned + res'[c].scanned \in Nat
              /\ total[c].matched + res'[c].matched \in Nat
              /\ total[c].kept + res'[c].kept \in Nat /\ total[c].runs + 1 \in Nat
            BY <3>1 DEF IInv, TypeOK, Result, Totals
        <3>. QED
            BY <1>3, <3>2 DEF IInv, TypeOK, Totals
    <2>4. /\ res' \in [Calls -> Result] /\ token' \in [Calls -> 1..Last + 1]
          /\ counted' \in [Calls -> Nat]
        BY <1>1, PageRead
    <2>. QED
        BY <1>1, <2>1, <2>2, <2>3, <2>4 DEF IInv, TypeOK, limiterVars, request
<1>5. CallInv(c)'
    <2>1. /\ pc'[c] = (IF why = "-" THEN "loop" ELSE end) /\ stop'[c] = why
          /\ history'[c] = history[c] /\ resumeAt'[c] = resumeAt[c] /\ section'[c] = section[c]
          /\ deadline'[c] = deadline[c] /\ started'[c] = started[c] /\ clock' = clock
          /\ token'[c] = token[c] + 1 /\ token[c] \in 1..Last /\ resumeAt[c] \in 1..Last
          /\ token'[c] - 1 = token[c] /\ Last \in Nat /\ history[c] \in Histories
        BY <1>1, <1>3, PageRead, ScanAssumption DEF ScanAssumption, IInv, TypeOK, request
    <2>2. AtPage(c) /\ Earlier(c) /\ InTime(c)
        BY DEF IInv, CallInv
    <2>3. AtPage(c)'
        BY <1>1, <1>2, <2>1, <2>2 DEF AtPage
    <2>4. Counters(c)' /\ Covers(c)'
        BY <1>1, <2>1, PageRead DEF Counters, Covers
    <2>5. Earlier(c)'
        <3>. SUFFICES ASSUME c \notin Logins PROVE Earlier(c)'
            BY DEF Earlier
        <3>1. /\ total[c].scanned = history[c].events[resumeAt[c]-1]
              /\ total[c].matched = history[c].matches[resumeAt[c]-1]
            BY <1>1, <2>2 DEF Earlier
        <3>2. CASE why = "-"
            BY <1>3, <2>1, <3>1, <3>2 DEF Earlier
        <3>3. CASE why # "-"
            <4>1. /\ total'[c].scanned = total[c].scanned + res'[c].scanned
                  /\ total'[c].matched = total[c].matched + res'[c].matched
                BY <1>3, <3>3 DEF IInv, TypeOK
            <4>2. /\ history[c].events[token[c]] \in Nat /\ history[c].events[resumeAt[c]-1] \in Nat
                  /\ history[c].matches[token[c]] \in Nat /\ history[c].matches[resumeAt[c]-1] \in Nat
                <5>1. token[c] \in 0..Last /\ resumeAt[c] - 1 \in 0..Last
                    BY <2>1
                <5>. QED
                    BY <2>1, <5>1, HistoryFacts
            <4>3. /\ total'[c].scanned = history[c].events[token[c]]
                  /\ total'[c].matched = history[c].matches[token[c]]
                BY <1>1, <3>1, <4>1, <4>2, PageRead
            <4>. QED
                BY <2>1, <3>3, <4>3 DEF Earlier
        <3>. QED
            BY <3>2, <3>3
    <2>6. InTime(c)'
        BY <1>1, <2>1, <2>2 DEF InTime, Running
    <2>. QED
        BY <2>3, <2>4, <2>5, <2>6 DEF CallInv
<1>6. ASSUME NEW d \in Calls \ {c} PROVE CallInv(d)'
    <2>1. pc'[d] = pc[d] /\ stop'[d] = stop[d] /\ total'[d] = total[d]
        BY <1>3 DEF IInv, TypeOK
    <2>2. res'[d] = res[d] /\ token'[d] = token[d] /\ counted'[d] = counted[d]
        BY <1>1, PageRead
    <2>. QED
        BY <1>1, <2>1, <2>2, OtherCall DEF IInv, request
<1>. QED
    BY <1>4, <1>5, <1>6 DEF IInv

LEMMA NextSectionInv == ASSUME IInv, NEW c \in Calls, NextSection(c) PROVE IInv'
<1>1. /\ pc[c] = "next" /\ c \in Logins /\ resumeAt[c] = 1
      /\ UNCHANGED <<clock, limiterVars, attempts, limit, deadline, started, slot, resumeAt,
                     total>>
    BY DEF NextSection, IInv, CallInv, AtPage
<1>2. CASE pc' = [pc EXCEPT ![c] = "done"] /\ UNCHANGED <<section, token, res, stop, counted, history>>
    <2>1. TypeOK'
        BY <1>1, <1>2 DEF IInv, TypeOK, limiterVars, Running
    <2>2. ASSUME NEW d \in Calls PROVE CallInv(d)'
        <3>1. CASE d = c
            BY <1>1, <1>2, <3>1 DEF IInv, TypeOK, CallInv, AtPage, Counters, Covers, Earlier,
               InTime, Running
        <3>2. CASE d # c
            BY <1>1, <1>2, <3>2, OtherCall DEF IInv, TypeOK
        <3>. QED
            BY <3>1, <3>2
    <2>. QED
        BY <2>1, <2>2 DEF IInv
<1>3. ASSUME NEW h \in Histories,
             /\ pc' = [pc EXCEPT ![c] = "loop"]
             /\ section' = [section EXCEPT ![c] = 2]
             /\ token' = [token EXCEPT ![c] = 1]
             /\ res' = [res EXCEPT ![c] = Nothing]
             /\ stop' = [stop EXCEPT ![c] = "-"]
             /\ counted' = [counted EXCEPT ![c] = 0]
             /\ history' = [history EXCEPT ![c] = h]
      PROVE  IInv'
    <2>1. TypeOK'
        <3>1. res' \in [Calls -> Result]
            BY <1>3 DEF IInv, TypeOK, Nothing, Result
        <3>2. token' \in [Calls -> 1..Last + 1]
            BY <1>3, ScanAssumption DEF ScanAssumption, IInv, TypeOK
        <3>. QED
            BY <1>1, <1>3, <3>1, <3>2 DEF IInv, TypeOK, limiterVars, Running, Reasons
    <2>2. ASSUME NEW d \in Calls PROVE CallInv(d)'
        <3>1. CASE d = c
            <4>1. /\ pc'[c] = "loop" /\ token'[c] = 1 /\ res'[c] = Nothing /\ stop'[c] = "-"
                  /\ counted'[c] = 0 /\ history'[c] = h /\ resumeAt'[c] = 1
                BY <1>1, <1>3 DEF IInv, TypeOK
            <4>2. InTime(c)'
                BY <1>1, <4>1 DEF IInv, CallInv, InTime, Running
            <4>3. h.events[0] = 0 /\ h.matches[0] = 0
                BY HistoryFacts
            <4>. QED
                BY <1>1, <3>1, <4>1, <4>2, <4>3, ScanAssumption DEF ScanAssumption, CallInv,
                   AtPage, Counters, Covers, Earlier, Nothing
        <3>2. CASE d # c
            BY <1>1, <1>3, <3>2, OtherCall DEF IInv, TypeOK
        <3>. QED
            BY <3>1, <3>2
    <2>. QED
        BY <2>1, <2>2 DEF IInv
<1>. QED
    BY <1>2, <1>3 DEF NextSection

LEMMA ContinueInv == ASSUME IInv, NEW c \in Calls, Continue(c) PROVE IInv'
<1>1. /\ c \notin Logins
      /\ pc' = [pc EXCEPT ![c] = "loop"]
      /\ started' = [started EXCEPT ![c] = clock]
      /\ deadline' = [deadline EXCEPT ![c] = clock + Budget]
      /\ res' = [res EXCEPT ![c] = Nothing]
      /\ stop' = [stop EXCEPT ![c] = "-"]
      /\ counted' = [counted EXCEPT ![c] = 0]
      /\ UNCHANGED <<clock, limiterVars, attempts, request, section, slot>>
    BY DEF Continue
<1>2. AtPage(c) /\ Earlier(c) /\ token[c] \in 1..Last + 1 /\ resumeAt[c] \in 1..Last
      /\ Last \in Nat \ {0} /\ history[c] \in Histories /\ total[c] \in Totals
    BY ScanAssumption DEF ScanAssumption, IInv, TypeOK, CallInv
\* Either way the Run begins at one page, with what is before it returned.
<1>3. /\ token' \in [Calls -> 1..Last + 1] /\ resumeAt' \in [Calls -> 1..Last]
      /\ total' \in [Calls -> Totals]
      /\ token'[c] = resumeAt'[c]
      /\ total'[c].scanned = history[c].events[resumeAt'[c]-1]
      /\ total'[c].matched = history[c].matches[resumeAt'[c]-1]
      /\ \A d \in Calls \ {c} : /\ token'[d] = token[d] /\ resumeAt'[d] = resumeAt[d]
                                /\ total'[d] = total[d]
    <2>1. CASE /\ pc[c] = "done" /\ stop[c] # "exhausted"
               /\ resumeAt' = [resumeAt EXCEPT ![c] = token[c]]
               /\ UNCHANGED <<token, total>>
        <3>1. token[c] \in 1..Last
            BY <1>2, <2>1 DEF AtPage
        <3>. QED
            BY <1>1, <1>2, <2>1, <3>1 DEF IInv, TypeOK, Earlier
    <2>2. CASE /\ pc[c] = "failed"
               /\ token' = [token EXCEPT ![c] = resumeAt[c]]
               /\ total' = [total EXCEPT ![c].runs = @ + 1]
               /\ UNCHANGED resumeAt
        <3>1. token' \in [Calls -> 1..Last + 1]
            BY <1>2, <2>2 DEF IInv, TypeOK
        <3>2. total' \in [Calls -> Totals]
            <4>1. total[c].runs + 1 \in Nat
                BY <1>2 DEF Totals
            <4>2. [total[c] EXCEPT !.runs = total[c].runs + 1] \in Totals
                BY <1>2, <4>1 DEF Totals
            <4>3. total' = [total EXCEPT ![c] = [total[c] EXCEPT !.runs = total[c].runs + 1]]
                BY <2>2
            <4>. QED
                BY <4>2, <4>3 DEF IInv, TypeOK
        <3>. QED
            BY <1>1, <1>2, <2>2, <3>1, <3>2 DEF IInv, TypeOK, Earlier, Totals
    <2>. QED
        BY <2>1, <2>2 DEF Continue
<1>4. TypeOK'
    <2>1. res' \in [Calls -> Result]
        BY <1>1 DEF IInv, TypeOK, Nothing, Result
    <2>2. started' \in [Calls -> Nat] /\ deadline' \in [Calls -> Nat]
        BY <1>1, ScanAssumption DEF ScanAssumption, IInv, TypeOK
    <2>. QED
        BY <1>1, <1>3, <2>1, <2>2 DEF IInv, TypeOK, limiterVars, request, Running, Reasons
<1>5. CallInv(c)'
    <2>1. /\ pc'[c] = "loop" /\ started'[c] = clock /\ deadline'[c] = clock + Budget
          /\ res'[c] = Nothing /\ stop'[c] = "-" /\ counted'[c] = 0
          /\ history'[c] = history[c] /\ clock' = clock /\ resumeAt'[c] \in 1..Last
        BY <1>1, <1>3 DEF IInv, TypeOK, request
    <2>2. /\ history[c].events[resumeAt'[c]-1] \in Nat /\ history[c].matches[resumeAt'[c]-1] \in Nat
        <3>1. resumeAt'[c] - 1 \in 0..Last
            BY <1>2, <2>1
        <3>. QED
            BY <1>2, <3>1, HistoryFacts
    <2>3. AtPage(c)' /\ Counters(c)' /\ Covers(c)' /\ Earlier(c)'
        BY <1>1, <1>2, <1>3, <2>1, <2>2 DEF AtPage, Counters, Covers, Earlier, Nothing
    <2>4. InTime(c)'
        BY <2>1, ScanAssumption DEF ScanAssumption, IInv, TypeOK, InTime, Running
    <2>. QED
        BY <2>3, <2>4 DEF CallInv
<1>6. ASSUME NEW d \in Calls \ {c} PROVE CallInv(d)'
    BY <1>1, <1>3, OtherCall DEF IInv, TypeOK, request
<1>. QED
    BY <1>4, <1>5, <1>6 DEF IInv

LEMMA TickInv == ASSUME IInv, Tick PROVE IInv'
<1>1. TypeOK'
    BY ScanAssumption DEF ScanAssumption, IInv, TypeOK, Tick, limiterVars, request, callVars, Running
<1>2. ASSUME NEW c \in Calls PROVE CallInv(c)'
    <2>1. AtPage(c)' /\ Counters(c)' /\ Covers(c)' /\ Earlier(c)'
        BY DEF IInv, CallInv, AtPage, Counters, Covers, Earlier, Tick, request, callVars
    <2>2. InTime(c)'
        BY DEF IInv, TypeOK, CallInv, AtPage, InTime, Tick, callVars, Running
    <2>. QED
        BY <2>1, <2>2 DEF CallInv
<1>. QED
    BY <1>1, <1>2 DEF IInv

LEMMA Inductive == IInv /\ [Next]_vars => IInv'
<1> SUFFICES ASSUME IInv, [Next]_vars PROVE IInv'
    OBVIOUS
<1>1. ASSUME NEW c \in Calls, Step(c) PROVE IInv'
    BY <1>1, StartInv, LoopInv, SendInv, ResendInv, CancelInv, AnswerInv, CallFailsInv, NextSectionInv,
       ContinueInv DEF Step
<1>2. CASE UNCHANGED vars
    BY <1>2 DEF IInv, TypeOK, CallInv, AtPage, Counters, Covers, Earlier, InTime, vars,
       limiterVars, request, callVars
<1>. QED
    BY <1>1, <1>2, TickInv DEF Next, Done

LEMMA Invariance == Spec => []IInv
BY InitInv, Inductive, PTL DEF Spec

-----------------------------------------------------------------------------
\* The variables keep their types; positions and pages never leave the history.
THEOREM TypeCorrect == Spec => []TypeOK
<1>1. IInv => TypeOK
    BY DEF IInv
<1>. QED
    BY <1>1, Invariance, PTL

\* Over all its continuations a complete lookup scans and matches every event
\* of its window exactly once.
THEOREM ScansOnce == Spec => []ScannedOnce
<1>1. IInv => ScannedOnce
    <2> SUFFICES ASSUME IInv, NEW c \in Calls \ Logins, pc[c] = "done", stop[c] = "exhausted"
                 PROVE  /\ total[c].scanned = history[c].events[Last]
                        /\ total[c].matched = history[c].matches[Last]
        BY DEF ScannedOnce
    <2>1. token[c] = Last + 1
        BY ScanAssumption DEF ScanAssumption, IInv, TypeOK, CallInv, AtPage
    <2>. QED
        BY <2>1, ScanAssumption DEF ScanAssumption, IInv, CallInv, Earlier
<1>. QED
    BY <1>1, Invariance, PTL

\* The coverage that Run reports names exactly the events it scanned.
THEOREM CoverageIsHonest == Spec => []CoverageHonest
<1>1. IInv => CoverageHonest
    <2> SUFFICES ASSUME IInv, NEW c \in Calls, pc[c] \in {"next", "done"}
                 PROVE  /\ res[c].scanned = 0 => res[c].to = 0 /\ res[c].from = 0
                        /\ res[c].scanned > 0 =>
                              /\ res[c].to = history[c].events[resumeAt[c] - 1] + 1
                              /\ res[c].from = res[c].to + res[c].scanned - 1
        BY DEF CoverageHonest
    <2>1. Counters(c) /\ Covers(c)
        BY DEF IInv, CallInv
    <2>2. /\ history[c].events[token[c]-1] \in Nat /\ history[c].events[resumeAt[c]-1] \in Nat
        <3>1. /\ token[c] - 1 \in 0..Last /\ resumeAt[c] - 1 \in 0..Last
              /\ history[c] \in Histories
            BY ScanAssumption DEF ScanAssumption, IInv, TypeOK
        <3>. QED
            BY <3>1, HistoryFacts
    <2>. QED
        BY <2>1, <2>2 DEF Counters, Covers
<1>. QED
    BY <1>1, Invariance, PTL

\* A complete section of logins has counted every match of its window.
THEOREM CountsAll == Spec => []LoginsCountAll
<1>1. IInv => LoginsCountAll
    <2> SUFFICES ASSUME IInv, NEW c \in Logins, pc[c] \in {"next", "done"}, stop[c] = "exhausted"
                 PROVE  counted[c] = history[c].matches[Last]
        BY DEF LoginsCountAll
    <2>1. /\ c \in Calls /\ history[c] \in Histories /\ Last \in Nat \ {0}
          /\ token[c] = Last + 1 /\ resumeAt[c] = 1 /\ Counters(c)
        BY ScanAssumption DEF ScanAssumption, IInv, TypeOK, CallInv, AtPage
    <2>2. history[c].matches[0] = 0 /\ history[c].matches[Last] \in Nat
        BY <2>1, HistoryFacts
    <2>. QED
        BY <2>1, <2>2 DEF Counters
<1>. QED
    BY <1>1, Invariance, PTL

\* No call, with one scan or two, outlives its time budget.
THEOREM EndsWithinBudget == Spec => []WithinBudget
<1>1. IInv => WithinBudget
    BY ScanAssumption DEF ScanAssumption, IInv, TypeOK, CallInv, InTime, WithinBudget, Running
<1>. QED
    BY <1>1, Invariance, PTL

-----------------------------------------------------------------------------
\* One limiter: the tokens reserved by its waiting calls, the next free one and
\* the last page asked for lie an interval apart; what a call gives back was the
\* last token handed out.
Waiting(c, k) == pc[c] = "wait" /\ KeyOf[c] = k

Apart(k) ==
    /\ asks[k][1] + Interval <= asks[k][2]
    /\ asks[k][2] + Interval <= free[k]
    /\ \A c \in Calls : Waiting(c, k) => /\ clock <= slot[c] /\ slot[c] <= lastEvent[k]
                                        /\ slot[c] + Interval <= free[k]
                                        /\ asks[k][2] + Interval <= slot[c]
    /\ \A c, d \in Calls : Waiting(c, k) /\ Waiting(d, k) /\ c # d
          => slot[c] + Interval <= slot[d] \/ slot[d] + Interval <= slot[c]

LEMMA ApartInit == ASSUME Init, NEW k \in Keys PROVE Apart(k)
BY ScanAssumption DEF ScanAssumption, Init, Apart, Waiting

\* What the steps on one limiter need to know of the types.
LimiterTypes ==
    /\ asks \in [Keys -> Int \X Int]
    /\ free \in [Keys -> Int] /\ lastEvent \in [Keys -> Int]
    /\ clock \in Nat /\ Interval \in Nat \ {0} /\ Second \in Nat /\ Second <= 2 * Interval
    /\ slot \in [Calls -> Nat] /\ KeyOf \in [Calls -> Keys]
    /\ pc \in [Calls -> {"idle", "done", "failed"} \cup Running]

\* Steps that leave a limiter alone and end no wait for it.
LEMMA ApartStays ==
    ASSUME NEW k \in Keys, Apart(k), clock' = clock,
           asks'[k] = asks[k], free'[k] = free[k], lastEvent'[k] = lastEvent[k],
           \A c \in Calls : Waiting(c, k)' => Waiting(c, k) /\ slot'[c] = slot[c]
    PROVE  Apart(k)'
BY DEF Apart

\* A reservation comes after all others of its limiter.
LEMMA ApartReserve ==
    ASSUME LimiterTypes, NEW c \in Calls, NEW k \in Keys, k = KeyOf[c], Apart(k),
           Reserve(c), pc[c] = "loop", pc' = [pc EXCEPT ![c] = "wait"],
           clock' = clock, asks' = asks
    PROVE  Apart(k)'
<1> DEFINE at == Max2(clock, free[k])
<1>0. /\ asks[k][1] \in Int /\ asks[k][2] \in Int /\ free[k] \in Int /\ lastEvent[k] \in Int
      /\ clock \in Nat /\ Interval \in Nat \ {0} /\ \A d \in Calls : slot[d] \in Nat
    BY DEF LimiterTypes
<1>1. at \in Int /\ clock <= at /\ free[k] <= at
    BY <1>0 DEF Max2
<1>2. /\ slot'[c] = at /\ free'[k] = at + Interval /\ lastEvent'[k] = at
      /\ \A d \in Calls \ {c} : slot'[d] = slot[d] /\ pc'[d] = pc[d]
      /\ pc'[c] = "wait"
    BY DEF Reserve, LimiterTypes
<1>. HIDE DEF at
<1>3. \A d \in Calls : Waiting(d, k)' =>
         /\ clock <= slot'[d] /\ slot'[d] <= at /\ slot'[d] + Interval <= free'[k]
         /\ asks[k][2] + Interval <= slot'[d]
         /\ d # c => slot'[d] + Interval <= slot'[c]
    BY <1>0, <1>1, <1>2 DEF Apart, Waiting
<1>4. \A d, e \in Calls : Waiting(d, k)' /\ Waiting(e, k)' /\ d # e
         => slot'[d] + Interval <= slot'[e] \/ slot'[e] + Interval <= slot'[d]
    BY <1>0, <1>2, <1>3 DEF Apart, Waiting
<1>. QED
    BY <1>0, <1>1, <1>2, <1>3, <1>4 DEF Apart

\* A page is asked for an interval after the one before, with an interval to
\* the next reservation.
LEMMA ApartSend ==
    ASSUME LimiterTypes, NEW c \in Calls, NEW k \in Keys, k = KeyOf[c], Apart(k), Send(c)
    PROVE  Apart(k)' /\ clock - asks[k][1] >= Second
<1>0. /\ asks[k][1] \in Int /\ asks[k][2] \in Int /\ free[k] \in Int /\ lastEvent[k] \in Int
      /\ clock \in Nat /\ Interval \in Nat \ {0} /\ Second \in Nat /\ Second <= 2 * Interval
      /\ \A d \in Calls : slot[d] \in Nat
    BY DEF LimiterTypes
<1>1. /\ asks'[k] = <<asks[k][2], clock>> /\ UNCHANGED <<clock, free, lastEvent, slot>>
      /\ Waiting(c, k) /\ ~Waiting(c, k)'
      /\ \A d \in Calls \ {c} : Waiting(d, k)' <=> Waiting(d, k)
    BY DEF Send, callVars, Waiting, LimiterTypes
<1>2. clock = slot[c]
    <2>1. clock >= slot[c]
        BY DEF Send
    <2>. QED
        BY <1>0, <1>1, <2>1 DEF Apart
<1>3. \A d \in Calls : Waiting(d, k)' => clock + Interval <= slot[d]
    BY <1>0, <1>1, <1>2 DEF Apart
<1>4. /\ asks[k][2] + Interval <= clock /\ clock + Interval <= free[k]
      /\ asks'[k][1] = asks[k][2] /\ asks'[k][2] = clock
    BY <1>1, <1>2 DEF Apart
<1>5. Apart(k)'
    BY <1>0, <1>1, <1>3, <1>4 DEF Apart
<1>. QED
    BY <1>0, <1>4, <1>5 DEF Apart

\* Only the last reservation is given back.
LEMMA ApartCancel ==
    ASSUME LimiterTypes, NEW c \in Calls, NEW k \in Keys, k = KeyOf[c], Apart(k), Cancel(c)
    PROVE  Apart(k)'
<1>0. /\ asks[k][1] \in Int /\ asks[k][2] \in Int /\ free[k] \in Int /\ lastEvent[k] \in Int
      /\ clock \in Nat /\ Interval \in Nat \ {0} /\ \A d \in Calls : slot[d] \in Nat
    BY DEF LimiterTypes
<1>1. /\ UNCHANGED <<clock, asks, slot>> /\ Waiting(c, k) /\ ~Waiting(c, k)'
      /\ \A d \in Calls \ {c} : Waiting(d, k)' <=> Waiting(d, k)
    BY DEF Cancel, Fail, Waiting, LimiterTypes
<1>2. CASE slot[c] # lastEvent[k]
    BY <1>0, <1>1, <1>2 DEF Cancel, Apart
<1>3. CASE slot[c] = lastEvent[k]
    <2>1. /\ free'[k] = free[k] - Interval
          /\ lastEvent'[k] = IF slot[c] - Interval >= clock THEN slot[c] - Interval
                                                           ELSE lastEvent[k]
        BY <1>3 DEF Cancel, LimiterTypes
    <2>2. \A d \in Calls : Waiting(d, k)' => slot[d] + Interval <= slot[c]
        BY <1>0, <1>1, <1>3 DEF Apart
    <2>3. \A d \in Calls : Waiting(d, k)' =>
              slot[d] <= lastEvent'[k] /\ slot[d] + Interval <= free'[k]
        BY <1>0, <1>1, <1>3, <2>1, <2>2 DEF Apart
    <2>4. asks[k][2] + Interval <= free'[k]
        BY <1>0, <1>1, <2>1 DEF Apart
    <2>. QED
        BY <1>0, <1>1, <2>3, <2>4 DEF Apart
<1>. QED
    BY <1>2, <1>3

\* Limiters of other spellings are not concerned by a step.
LEMMA OtherKey ==
    ASSUME LimiterTypes, NEW c \in Calls, NEW k \in Keys, k # KeyOf[c],
           Reserve(c) \/ UNCHANGED <<slot, free, lastEvent>> \/ Cancel(c)
    PROVE  free'[k] = free[k] /\ lastEvent'[k] = lastEvent[k]
BY DEF LimiterTypes, Reserve, Cancel

LEMMA ApartNext ==
    ASSUME IInv, NEW k \in Keys, Apart(k), [Next]_vars
    PROVE  /\ Apart(k)'
           /\ asks'[k] # asks[k] => clock - asks[k][1] >= Second
<1>0. LimiterTypes
    BY ScanAssumption DEF ScanAssumption, IInv, TypeOK, LimiterTypes
<1>1. ASSUME NEW c \in Calls,
             Start(c) \/ Resend(c) \/ Answer(c) \/ CallFails(c) \/ NextSection(c) \/ Continue(c)
      PROVE  Apart(k)' /\ asks' = asks
    <2>1. UNCHANGED <<clock, limiterVars, slot>>
        BY <1>1 DEF Start, Resend, Answer, CallFails, NextSection, Continue, callVars
    <2>2. \A d \in Calls : Waiting(d, k)' => Waiting(d, k)
        BY <1>0, <1>1 DEF Start, Resend, Answer, CallFails, NextSection, Continue, BreakOff,
           Fail, Waiting, LimiterTypes
    <2>. QED
        BY <2>1, <2>2, ApartStays DEF limiterVars
<1>2. ASSUME NEW c \in Calls, Loop(c) PROVE Apart(k)' /\ asks' = asks
    <2>0. clock' = clock /\ asks' = asks
        BY <1>2 DEF Loop
    <2>1. CASE UNCHANGED <<slot, free, lastEvent>>
               /\ (BreakOff(c, "max_pages") \/ BreakOff(c, "time_budget"))
        <3>1. \A d \in Calls : Waiting(d, k)' => Waiting(d, k)
            BY <1>0, <2>1 DEF BreakOff, Waiting, LimiterTypes
        <3>. QED
            BY <2>0, <2>1, <3>1, ApartStays
    <2>2. CASE Reserve(c) /\ pc[c] = "loop" /\ pc' = [pc EXCEPT ![c] = "wait"]
        <3>1. CASE k = KeyOf[c]
            BY <1>0, <2>0, <2>2, <3>1, ApartReserve
        <3>2. CASE k # KeyOf[c]
            <4>1. \A d \in Calls : Waiting(d, k)' => Waiting(d, k) /\ slot'[d] = slot[d]
                BY <1>0, <2>2, <3>2 DEF Waiting, Reserve, LimiterTypes
            <4>. QED
                BY <1>0, <2>0, <2>2, <3>2, <4>1, OtherKey, ApartStays
        <3>. QED
            BY <2>0, <3>1, <3>2
    <2>. QED
        BY <1>2, <2>1, <2>2 DEF Loop
<1>3. ASSUME NEW c \in Calls, Send(c)
      PROVE  Apart(k)' /\ (asks'[k] # asks[k] => clock - asks[k][1] >= Second)
    <2>1. CASE k = KeyOf[c]
        BY <1>0, <1>3, <2>1, ApartSend
    <2>2. CASE k # KeyOf[c]
        <3>1. asks'[k] = asks[k] /\ UNCHANGED <<clock, free, lastEvent, slot>>
            BY <1>0, <1>3, <2>2 DEF Send, callVars, LimiterTypes
        <3>2. \A d \in Calls : Waiting(d, k)' => Waiting(d, k)
            BY <1>0, <1>3 DEF Send, Waiting, LimiterTypes
        <3>. QED
            BY <3>1, <3>2, ApartStays
    <2>. QED
        BY <2>1, <2>2
<1>4. ASSUME NEW c \in Calls, Cancel(c) PROVE Apart(k)' /\ asks' = asks
    <2>1. CASE k = KeyOf[c]
        BY <1>0, <1>4, <2>1, ApartCancel DEF Cancel
    <2>2. CASE k # KeyOf[c]
        <3>1. UNCHANGED <<clock, asks, slot>>
            BY <1>4 DEF Cancel
        <3>2. \A d \in Calls : Waiting(d, k)' => Waiting(d, k)
            BY <1>0, <1>4 DEF Cancel, Fail, Waiting, LimiterTypes
        <3>. QED
            BY <1>0, <1>4, <2>2, <3>1, <3>2, OtherKey, ApartStays
    <2>. QED
        BY <2>1, <2>2
<1>5. ASSUME Tick PROVE Apart(k)' /\ asks' = asks
    <2>1. /\ clock' = clock + 1 /\ UNCHANGED <<limiterVars, pc, slot>>
          /\ \A c \in Calls : Waiting(c, k) => clock < slot[c]
        BY <1>5 DEF Tick, callVars, Waiting
    <2>. QED
        BY <1>0, <2>1 DEF Apart, Waiting, limiterVars, LimiterTypes
<1>6. CASE UNCHANGED vars
    BY <1>6 DEF Apart, Waiting, vars, limiterVars, callVars
<1>. QED
    BY <1>1, <1>2, <1>3, <1>4, <1>5, <1>6 DEF Next, Step, Done

\* The process asks for no more than two pages a second under one spelling of
\* a region, however many calls wait for its limiter and give up (limiterFor and
\* the Wait of Run).
THEOREM RateKept == Spec => PagesPaced
<1> DEFINE AllApart == \A k \in Keys : Apart(k)
           Paced == \A k \in Keys : asks'[k] # asks[k] => clock - asks[k][1] >= Second
<1>1. Init => AllApart
    BY ApartInit
<1>2. IInv /\ AllApart /\ [Next]_vars => AllApart' /\ Paced
    BY ApartNext
<1>3. IInv /\ AllApart /\ [Next]_vars => AllApart' /\ [Paced]_vars
    BY <1>2
<1>. HIDE DEF AllApart
<1>. QED
    BY <1>1, <1>3, Invariance, PTL DEF Spec, PagesPaced
=============================================================================
