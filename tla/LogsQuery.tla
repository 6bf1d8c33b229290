------------------------------- MODULE LogsQuery -------------------------------
(***************************************************************************)
(* cw_logs_query starts a CloudWatch Logs Insights query, polls for its    *)
(* results against a deadline, and stops the query when it gives up on it. *)
(* The query lives in the service and goes on when nobody waits for it.    *)
(*                                                                         *)
(* Time passes in ticks, and not beyond the moment by which the task must  *)
(* have made its next move.                                                *)
(***************************************************************************)
EXTENDS Naturals

CONSTANTS
    Timeouts,       \* what timeout_ms, its default and its maximum amount to
    PollInterval,   \* pollInterval
    StopWithin      \* how long stopQuery waits for StopQuery

VARIABLES
    query,      \* the query in the service
    timeout,    \* of this call
    elapsed,    \* the clock, from the start of the query
    deadline,   \* the task's
    until,      \* when what the task waits for ends without an answer
    caller,     \* whether the caller is still there
    verdict,    \* what the task will answer when the query has been stopped
    step,       \* where the task is
    stopLost    \* history: StopQuery was sent and did not reach the service

queryVars == <<query, timeout, elapsed, deadline, until, caller, verdict, step, stopLost>>

Ends == {"rows", "ended", "error", "timedout", "cancelled"}

QueryTypeOK ==
    /\ query \in {"none", "running", "complete", "failed", "stopped"}
    /\ timeout \in Timeouts
    /\ {elapsed, deadline, until} \subseteq Nat
    /\ caller \in BOOLEAN
    /\ verdict \in {"none", "timedout", "cancelled"}
    /\ step \in {"start", "loop", "poll", "wait", "stop"} \cup Ends
    /\ stopLost \in BOOLEAN

QueryInit ==
    /\ query = "none"
    /\ timeout \in Timeouts
    /\ elapsed = 0 /\ deadline = 0 /\ until = 0
    /\ caller = TRUE
    /\ verdict = "none"
    /\ step = "start"
    /\ stopLost = FALSE

-----------------------------------------------------------------------------
Still == UNCHANGED <<timeout, elapsed, caller>>

\* The service starts the query, and its answer may be lost; or it refuses.
StartQuery ==
    /\ step = "start"
    /\ \/ /\ query' = "running"
          /\ step' = "loop"
          /\ deadline' = elapsed + timeout
       \/ query' \in {"none", "running"} /\ step' = "error" /\ UNCHANGED deadline
    /\ Still
    /\ UNCHANGED <<until, verdict, stopLost>>

\* stopQuery begins; it has a context of its own.
Stop(v) ==
    /\ step' = "stop"
    /\ verdict' = v
    /\ until' = elapsed + StopWithin

\* A poll gets what remains.
PollEnds == deadline

\* The head of the loop.
Loop ==
    /\ step = "loop"
    /\ \/ elapsed >= deadline /\ Stop("timedout")
       \/ elapsed < deadline /\ step' = "poll" /\ until' = PollEnds /\ UNCHANGED verdict
    /\ Still
    /\ UNCHANGED <<query, deadline, stopLost>>

\* GetQueryResults answers in time.
PollAnswered ==
    /\ step = "poll"
    /\ \/ query = "complete" /\ step' = "rows" /\ UNCHANGED until
       \/ query \in {"failed", "stopped"} /\ step' = "ended" /\ UNCHANGED until
       \/ query = "running" /\ step' = "wait" /\ until' = elapsed + PollInterval
    /\ Still
    /\ UNCHANGED <<query, deadline, verdict, stopLost>>

\* It fails, or the caller has left: the task ends and leaves the query alone.
PollFails ==
    /\ step = "poll"
    /\ step' = "error"
    /\ Still
    /\ UNCHANGED <<query, deadline, until, verdict, stopLost>>

\* Its time is up.
PollExpires ==
    /\ step = "poll"
    /\ elapsed >= until
    /\ Stop("timedout")
    /\ Still
    /\ UNCHANGED <<query, deadline, stopLost>>

\* Between two polls.
Wait ==
    /\ step = "wait"
    /\ \/ ~caller /\ Stop("cancelled")
       \/ elapsed >= until /\ step' = "loop" /\ UNCHANGED <<until, verdict>>
    /\ Still
    /\ UNCHANGED <<query, deadline, stopLost>>

Stopped == IF query = "running" THEN "stopped" ELSE query

\* Mutant of StopQuery: the request's own context is used.
StopQueryWithCtx ==
    /\ step = "stop"
    /\ \/ caller /\ query' = Stopped /\ UNCHANGED stopLost
       \/ ~caller /\ UNCHANGED <<query, stopLost>>
    /\ step' = verdict
    /\ Still
    /\ UNCHANGED <<deadline, until, verdict>>

\* StopQuery reaches the service or does not; its answer is ignored.
StopQuery ==
    /\ step = "stop"
    /\ \/ query' = Stopped /\ UNCHANGED stopLost
       \/ stopLost' = TRUE /\ UNCHANGED query
    /\ step' = verdict
    /\ Still
    /\ UNCHANGED <<deadline, until, verdict>>

-----------------------------------------------------------------------------
\* The query ends by itself.
QueryEnds ==
    /\ query = "running"
    /\ query' \in {"complete", "failed"}
    /\ UNCHANGED <<timeout, elapsed, deadline, until, caller, verdict, step, stopLost>>

CallerLeaves ==
    /\ caller
    /\ step \notin Ends
    /\ caller' = FALSE
    /\ UNCHANGED <<query, timeout, elapsed, deadline, until, verdict, step, stopLost>>

\* Requests take time; the task's own steps do not.
QueryTick ==
    /\ step \in {"poll", "wait", "stop"}
    /\ elapsed < until
    /\ elapsed' = elapsed + 1
    /\ UNCHANGED <<query, timeout, deadline, until, caller, verdict, step, stopLost>>

Task == StartQuery \/ Loop \/ PollAnswered \/ PollFails \/ PollExpires \/ Wait \/ StopQuery
Ended == step \in Ends /\ UNCHANGED queryVars

QueryNext == Task \/ QueryEnds \/ CallerLeaves \/ QueryTick \/ Ended

QuerySpec == QueryInit /\ [][QueryNext]_queryVars

-----------------------------------------------------------------------------
\* A query the task gives up on, because of the time or because the caller left
\* between two polls, is not left running unless StopQuery itself was lost.
NotLeftRunning == step \in {"timedout", "cancelled"} /\ query = "running" => stopLost

\* The task answers within its timeout, one pause between polls, which is not cut
\* to what remains, and one StopQuery.
AnswersInTime == elapsed <= timeout + PollInterval + StopWithin

\* Giving up costs neither the service a query nor the caller more than that.
QueryGivenUp == QueryTypeOK /\ NotLeftRunning /\ AnswersInTime
=============================================================================
