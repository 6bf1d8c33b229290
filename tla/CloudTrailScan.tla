---------------------------- MODULE CloudTrailScan ----------------------------
(***************************************************************************)
(* cloudtrail_lookup_events and cloudtrail_logins: scans of one region's   *)
(* event history through LookupEvents, newest first, page by page, under a *)
(* page limit, a match limit, a time budget and a rate limiter that all    *)
(* calls of the process share.  A lookup that stopped early hands out a    *)
(* token with which its caller goes on; logins does two scans in one call. *)
(*                                                                         *)
(* A history is given by how many events, and how many matching ones, are  *)
(* on its first p pages; an event is its position, 1 the newest.  Time is  *)
(* counted in ticks and stands still while a goroutine has something to do.*)
(***************************************************************************)
EXTENDS Integers

CONSTANTS
    Calls,       \* invocations of the two tasks, a lookup with its continuations
    Logins,      \* those that are cloudtrail_logins
    Keys,        \* regions as requests spell them: each spelling has a limiter
    KeyOf,       \* the spelling a call uses
    Last,        \* pages of every history
    Histories,   \* bound: the histories a run looks at
    PageLimits,  \* bound: max_pages of the requests
    MatchLimits, \* bound: max_matches of the requests
    Budget,      \* TimeBudget
    Guard,       \* the 2 s that must be left before a page is asked for
    Interval,    \* 1/ratePerSecond
    Second,      \* a second
    MaxAttempts, \* RetryMaxAttempts of the SDK's client
    MaxClock,    \* bound: ticks
    MaxRuns      \* bound: runs of a lookup and its continuations

\* Counts of events and of matches on the first p pages, for each p.
History == [events: [0..Last -> Nat], matches: [0..Last -> Nat]]

ASSUME ScanAssumption ==
    /\ Logins \subseteq Calls
    /\ KeyOf \in [Calls -> Keys]
    /\ Last \in Nat \ {0}
    /\ Histories \subseteq History
    /\ \A h \in Histories :
         /\ h.events[0] = 0 /\ h.matches[0] = 0
         /\ \A p \in 1..Last : /\ h.events[p-1] <= h.events[p]
                               /\ h.matches[p-1] <= h.matches[p]
    /\ PageLimits \subseteq Nat \ {0} /\ MatchLimits \subseteq Nat \ {0}
    /\ Guard \in Nat \ {0} /\ Budget \in Nat /\ Guard <= Budget
    /\ Interval \in Nat \ {0} /\ Second \in Nat /\ Second <= 2 * Interval
    /\ MaxAttempts \in Nat \ {0}
    /\ MaxClock \in Nat /\ MaxRuns \in Nat

VARIABLES
    clock,     \* now
    free,      \* a limiter: when its next token is there ...
    lastEvent, \* ... and when its last reservation acts
    asks,      \* ... and when the last two pages were asked for through it
    attempts,  \* requests sent so far for the page a call is asking for
    history,   \* the history each call's filter finds
    limit,     \* a call's max_pages and max_matches, and stop_at_first_match
    pc,        \* where a call is in Run, or outside of it
    section,   \* which of the two scans a logins call is at
    deadline,  \* Run's deadline
    started,   \* when the call began
    slot,      \* when its reservation acts
    token,     \* the page that NextToken stands for
    resumeAt,  \* the token the current Run was given
    res,       \* the Result being built
    stop,      \* its StopReason
    counted,   \* events that OnMatch saw
    total      \* what all finished Runs of a lookup returned

limiterVars == <<free, lastEvent, asks>>
request == <<history, limit>>
callVars == <<section, deadline, started, slot, token, resumeAt, res, stop, counted, total>>
vars == <<clock, limiterVars, attempts, request, pc, callVars>>

Result == [pages: Nat, scanned: Nat, matched: Nat, kept: Nat, to: Nat, from: Nat]
Nothing == [pages |-> 0, scanned |-> 0, matched |-> 0, kept |-> 0, to |-> 0, from |-> 0]
Totals == [scanned: Nat, matched: Nat, kept: Nat, runs: Nat]
Reasons == {"-", "exhausted", "max_matches", "max_pages", "time_budget", "throttled"}
Running == {"loop", "wait", "call", "next"}

TypeOK ==
    /\ clock \in 0..MaxClock
    /\ free \in [Keys -> Int] /\ lastEvent \in [Keys -> Int]
    /\ asks \in [Keys -> Int \X Int]
    /\ attempts \in [Calls -> 0..MaxAttempts]
    /\ history \in [Calls -> Histories]
    /\ limit \in [Calls -> [pages: PageLimits, matches: MatchLimits, first: BOOLEAN]]
    /\ pc \in [Calls -> {"idle", "done", "failed"} \cup Running]
    /\ section \in [Calls -> {1, 2}]
    /\ deadline \in [Calls -> Nat] /\ started \in [Calls -> Nat] /\ slot \in [Calls -> Nat]
    /\ token \in [Calls -> 1..Last + 1] /\ resumeAt \in [Calls -> 1..Last]
    /\ res \in [Calls -> Result]
    /\ stop \in [Calls -> Reasons]
    /\ counted \in [Calls -> Nat]
    /\ total \in [Calls -> Totals]

Init ==
    /\ clock = 0
    /\ free = [k \in Keys |-> 0] /\ lastEvent = [k \in Keys |-> 0]
    /\ asks = [k \in Keys |-> <<-2 * Interval, -Interval>>] \* long ago
    /\ attempts = [c \in Calls |-> 0]
    /\ history \in [Calls -> Histories]
    /\ limit \in [Calls -> [pages: PageLimits, matches: MatchLimits, first: BOOLEAN]]
    /\ \A c \in Calls : limit[c].first => c \in Logins /\ limit[c].matches = 1
    /\ pc = [c \in Calls |-> "idle"]
    /\ section = [c \in Calls |-> 1]
    /\ deadline = [c \in Calls |-> 0] /\ started = [c \in Calls |-> 0]
    /\ slot = [c \in Calls |-> 0]
    /\ token = [c \in Calls |-> 1] /\ resumeAt = [c \in Calls |-> 1]
    /\ res = [c \in Calls |-> Nothing]
    /\ stop = [c \in Calls |-> "-"]
    /\ counted = [c \in Calls |-> 0]
    /\ total = [c \in Calls |-> [scanned |-> 0, matched |-> 0, kept |-> 0, runs |-> 0]]

Min2(a, b) == IF a <= b THEN a ELSE b
Max2(a, b) == IF a >= b THEN a ELSE b

\* ScanAll: a logins call that does not stop at the first match keeps going.
ScanAll(c) == c \in Logins /\ ~limit[c].first

-----------------------------------------------------------------------------
\* The start of a call: Run with a fresh deadline and no token.
Start(c) ==
    /\ pc[c] = "idle"
    /\ pc' = [pc EXCEPT ![c] = "loop"]
    /\ started' = [started EXCEPT ![c] = clock]
    /\ deadline' = [deadline EXCEPT ![c] = clock + Budget]
    /\ UNCHANGED <<clock, limiterVars, attempts, request, section, slot, token, resumeAt, res, stop,
                   counted, total>>

\* Mutant of BreakOff: the token of the page after the one that failed.
BreakOffNext(c, reason) ==
    /\ stop' = [stop EXCEPT ![c] = reason]
    /\ token' = [token EXCEPT ![c] = Min2(@ + 1, Last)]
    /\ pc' = [pc EXCEPT ![c] = IF c \in Logins /\ section[c] = 1 THEN "next" ELSE "done"]
    /\ total' = [total EXCEPT ![c] =
           [scanned |-> @.scanned + res[c].scanned, matched |-> @.matched + res[c].matched,
            kept |-> @.kept + res[c].kept, runs |-> @.runs + 1]]
    /\ UNCHANGED <<section, deadline, started, resumeAt, res, counted>>

\* Run returns what it has; the caller gets the token it is at.
BreakOff(c, reason) ==
    /\ stop' = [stop EXCEPT ![c] = reason]
    /\ pc' = [pc EXCEPT ![c] = IF c \in Logins /\ section[c] = 1 THEN "next" ELSE "done"]
    /\ total' = [total EXCEPT ![c] =
           [scanned |-> @.scanned + res[c].scanned, matched |-> @.matched + res[c].matched,
            kept |-> @.kept + res[c].kept, runs |-> @.runs + 1]]
    /\ UNCHANGED <<section, deadline, started, token, resumeAt, res, counted>>

\* Run returns an error, and so does the task: the caller gets nothing.
Fail(c) ==
    /\ pc' = [pc EXCEPT ![c] = "failed"]
    /\ UNCHANGED <<section, deadline, started, token, resumeAt, res, stop, counted, total>>

\* Mutant of Reserve: the limiter has a burst of two.
ReserveBurst(c) ==
    LET k == KeyOf[c]
        at == Max2(clock, free[k] - Interval)
    IN  /\ at <= deadline[c]
        /\ slot' = [slot EXCEPT ![c] = at]
        /\ lastEvent' = [lastEvent EXCEPT ![k] = at]
        /\ free' = [free EXCEPT ![k] = Max2(clock, @) + Interval]

\* limiter.Wait reserves the next token; if it comes after the deadline it
\* reserves nothing and fails at once.
Reserve(c) ==
    LET k == KeyOf[c]
        at == Max2(clock, free[k])
    IN  /\ at <= deadline[c]
        /\ slot' = [slot EXCEPT ![c] = at]
        /\ lastEvent' = [lastEvent EXCEPT ![k] = at]
        /\ free' = [free EXCEPT ![k] = at + Interval]

\* The top of Run's loop: the page limit, the time budget, limiter.Wait.
Loop(c) ==
    /\ pc[c] = "loop"
    /\ \/ /\ res[c].pages >= limit[c].pages
          /\ BreakOff(c, "max_pages")
          /\ UNCHANGED <<slot, free, lastEvent>>
       \/ /\ res[c].pages < limit[c].pages
          /\ \/ deadline[c] - clock < Guard
             \/ Max2(clock, free[KeyOf[c]]) > deadline[c]
          /\ BreakOff(c, "time_budget")
          /\ UNCHANGED <<slot, free, lastEvent>>
       \/ /\ res[c].pages < limit[c].pages
          /\ deadline[c] - clock >= Guard
          /\ Reserve(c)
          /\ pc' = [pc EXCEPT ![c] = "wait"]
          /\ UNCHANGED <<section, deadline, started, token, resumeAt, res, stop, counted, total>>
    /\ UNCHANGED <<clock, asks, attempts, request>>

\* The reserved token is there: a page is asked for with LookupEvents.
Send(c) ==
    LET k == KeyOf[c]
    IN  /\ pc[c] = "wait" /\ clock >= slot[c]
        /\ pc' = [pc EXCEPT ![c] = "call"]
        /\ asks' = [asks EXCEPT ![k] = <<@[2], clock>>]
        /\ attempts' = [attempts EXCEPT ![c] = 1]
        /\ UNCHANGED <<clock, free, lastEvent, request, callVars>>

\* A request was throttled or failed in a way that may pass: the SDK sends it
\* again, below the limiter.
Resend(c) ==
    /\ pc[c] = "call" /\ attempts[c] < MaxAttempts /\ clock < deadline[c]
    /\ attempts' = [attempts EXCEPT ![c] = @ + 1]
    /\ UNCHANGED <<clock, limiterVars, request, pc, callVars>>

\* The request's context is done while it waits: the reservation is given
\* back, unless a later one counts on it.
Cancel(c) ==
    LET k == KeyOf[c]
    IN  /\ pc[c] = "wait" /\ clock <= slot[c]
        /\ IF slot[c] = lastEvent[k]
           THEN /\ free' = [free EXCEPT ![k] = @ - Interval]
                /\ lastEvent' = [lastEvent EXCEPT ![k] =
                       IF slot[c] - Interval >= clock THEN slot[c] - Interval ELSE @]
           ELSE UNCHANGED <<free, lastEvent>>
        /\ Fail(c)
        /\ UNCHANGED <<clock, asks, attempts, request, slot>>

\* Mutant of ReadPage: each page begins the coverage anew.
ReadPageAnew(c) ==
    LET p == token[c]
        h == history[c]
        n == h.events[p] - h.events[p-1]
        m == h.matches[p] - h.matches[p-1]
    IN  /\ res' = [res EXCEPT ![c] =
              [pages |-> @.pages + 1, scanned |-> @.scanned + n, matched |-> @.matched + m,
               kept |-> Min2(limit[c].matches, @.kept + m),
               to |-> IF n > 0 THEN h.events[p-1] + 1 ELSE @.to,
               from |-> IF n > 0 THEN h.events[p] ELSE @.from]]
        /\ counted' = [counted EXCEPT ![c] = @ + m]
        /\ token' = [token EXCEPT ![c] = p + 1]

\* One page: every event is scanned and extends the coverage, every match is
\* counted and passed to OnMatch, the first max_matches are kept.
ReadPage(c) ==
    LET p == token[c]
        h == history[c]
        n == h.events[p] - h.events[p-1]
        m == h.matches[p] - h.matches[p-1]
    IN  /\ res' = [res EXCEPT ![c] =
              [pages |-> @.pages + 1, scanned |-> @.scanned + n, matched |-> @.matched + m,
               kept |-> Min2(limit[c].matches, @.kept + m),
               to |-> IF @.to = 0 /\ n > 0 THEN h.events[p-1] + 1 ELSE @.to,
               from |-> IF n > 0 THEN h.events[p] ELSE @.from]]
        /\ counted' = [counted EXCEPT ![c] = @ + m]
        /\ token' = [token EXCEPT ![c] = p + 1]

\* Why Run ends after a page, or "-".
StopAfterPage(c) ==
    IF token'[c] > Last THEN "exhausted"
    ELSE IF ~ScanAll(c) /\ res'[c].matched >= limit[c].matches THEN "max_matches"
    ELSE "-"

\* LookupEvents answered with a page.
Answer(c) ==
    /\ pc[c] = "call"
    /\ ReadPage(c)
    /\ stop' = [stop EXCEPT ![c] = StopAfterPage(c)]
    /\ IF StopAfterPage(c) = "-"
       THEN /\ pc' = [pc EXCEPT ![c] = "loop"]
            /\ UNCHANGED total
       ELSE /\ pc' = [pc EXCEPT ![c] = IF c \in Logins /\ section[c] = 1
                                       THEN "next" ELSE "done"]
            /\ total' = [total EXCEPT ![c] =
                   [scanned |-> @.scanned + res'[c].scanned,
                    matched |-> @.matched + res'[c].matched,
                    kept |-> @.kept + res'[c].kept, runs |-> @.runs + 1]]
    /\ attempts' = [attempts EXCEPT ![c] = 0]
    /\ UNCHANGED <<clock, limiterVars, request, section, deadline, started, slot, resumeAt>>

\* LookupEvents failed for good: throttled, out of time, or otherwise (also because the
\* request's context is done).
CallFails(c) ==
    /\ pc[c] = "call"
    /\ \/ BreakOff(c, "throttled")
       \/ clock >= deadline[c] /\ BreakOff(c, "time_budget")
       \/ Fail(c)
    /\ attempts' = [attempts EXCEPT ![c] = 0]
    /\ UNCHANGED <<clock, limiterVars, request, slot>>

\* Mutant of NextSection: the second scan gets a time budget of its own.
NextSectionAfresh(c) ==
    /\ pc[c] = "next"
    /\ pc' = [pc EXCEPT ![c] = "loop"]
    /\ section' = [section EXCEPT ![c] = 2]
    /\ deadline' = [deadline EXCEPT ![c] = clock + Budget]
    /\ token' = [token EXCEPT ![c] = 1]
    /\ res' = [res EXCEPT ![c] = Nothing]
    /\ stop' = [stop EXCEPT ![c] = "-"]
    /\ counted' = [counted EXCEPT ![c] = 0]
    /\ \E h \in Histories : history' = [history EXCEPT ![c] = h]
    /\ UNCHANGED <<clock, limiterVars, attempts, limit, started, slot, resumeAt, total>>

\* The second scan of a logins call: other events, the same deadline.  Without
\* include_sessions the call is done.
NextSection(c) ==
    /\ pc[c] = "next"
    /\ \/ /\ pc' = [pc EXCEPT ![c] = "loop"]
          /\ section' = [section EXCEPT ![c] = 2]
          /\ token' = [token EXCEPT ![c] = 1]
          /\ res' = [res EXCEPT ![c] = Nothing]
          /\ stop' = [stop EXCEPT ![c] = "-"]
          /\ counted' = [counted EXCEPT ![c] = 0]
          /\ \E h \in Histories : history' = [history EXCEPT ![c] = h]
       \/ /\ pc' = [pc EXCEPT ![c] = "done"]
          /\ UNCHANGED <<section, token, res, stop, counted, history>>
    /\ UNCHANGED <<clock, limiterVars, attempts, limit, deadline, started, slot, resumeAt, total>>

\* The caller of a lookup goes on with next_token, or calls again with the
\* token it had if it got an error.
Continue(c) ==
    /\ c \notin Logins
    /\ total[c].runs < MaxRuns
    /\ \/ pc[c] = "done" /\ stop[c] # "exhausted"
          /\ resumeAt' = [resumeAt EXCEPT ![c] = token[c]]
          /\ UNCHANGED <<token, total>>
       \/ pc[c] = "failed"
          /\ token' = [token EXCEPT ![c] = resumeAt[c]]
          /\ total' = [total EXCEPT ![c].runs = @ + 1]
          /\ UNCHANGED resumeAt
    /\ pc' = [pc EXCEPT ![c] = "loop"]
    /\ started' = [started EXCEPT ![c] = clock]
    /\ deadline' = [deadline EXCEPT ![c] = clock + Budget]
    /\ res' = [res EXCEPT ![c] = Nothing]
    /\ stop' = [stop EXCEPT ![c] = "-"]
    /\ counted' = [counted EXCEPT ![c] = 0]
    /\ UNCHANGED <<clock, limiterVars, attempts, request, section, slot>>

Tick ==
    /\ clock < MaxClock
    /\ \A c \in Calls : /\ pc[c] \notin {"loop", "next"}
                        /\ pc[c] = "wait" => clock < slot[c]
                        /\ pc[c] = "call" => clock < deadline[c]
    /\ clock' = clock + 1
    /\ UNCHANGED <<limiterVars, attempts, request, pc, callVars>>

Step(c) ==
    \/ Start(c) \/ Loop(c) \/ Send(c) \/ Resend(c) \/ Cancel(c)
    \/ Answer(c) \/ CallFails(c) \/ NextSection(c) \/ Continue(c)

\* Bound: the clock stops.
Done == clock = MaxClock /\ UNCHANGED vars

Next == Tick \/ (\E c \in Calls : Step(c)) \/ Done

Spec == Init /\ [][Next]_vars

-----------------------------------------------------------------------------
\* A lookup that ends complete has, over all its continuations, scanned and
\* matched every event of the window exactly once, whatever stopped the runs in
\* between and however often they failed.
ScannedOnce ==
    \A c \in Calls \ Logins : pc[c] = "done" /\ stop[c] = "exhausted" =>
        /\ total[c].scanned = history[c].events[Last]
        /\ total[c].matched = history[c].matches[Last]

\* covered_from..covered_to is "the honest answer to how far back did we look":
\* exactly the events scanned lie in it, and with nothing scanned it is empty.
CoverageHonest ==
    \A c \in Calls : pc[c] \in {"next", "done"} =>
        /\ res[c].scanned = 0 => res[c].to = 0 /\ res[c].from = 0
        /\ res[c].scanned > 0 =>
              /\ res[c].to = history[c].events[resumeAt[c] - 1] + 1
              /\ res[c].from = res[c].to + res[c].scanned - 1

\* A complete section of logins has summed up every matching event of its
\* window, though it keeps only some of them.
LoginsCountAll ==
    \A c \in Logins : pc[c] \in {"next", "done"} /\ stop[c] = "exhausted"
        => counted[c] = history[c].matches[Last]

\* A call is over within its time budget, with one scan or two: what it found
\* can still be written within the server's write timeout.
WithinBudget ==
    \A c \in Calls : pc[c] \in Running => clock - started[c] <= Budget

\* The callers that share a limiter ask for no more than two pages within a
\* second, even when some give up waiting.  It is pages that are paced: what the
\* SDK sends again for one of them, up to MaxAttempts requests in all, passes
\* below the limiter, and another spelling of the region has a limiter of its own.
PagesPaced ==
    [][ \A k \in Keys : asks'[k] # asks[k] => clock - asks[k][1] >= Second ]_vars

\* "continue with next_token": with the events of all continuations the caller
\* has every match of the window.
ContinueLosesNothing ==
    \A c \in Calls \ Logins : pc[c] = "done" /\ stop[c] = "exhausted"
        => total[c].kept = history[c].matches[Last]
=============================================================================
