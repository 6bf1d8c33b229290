------------------------------ MODULE InsightSlot ------------------------------
(***************************************************************************)
(* The statistics insight of securityhub_get_insight_statistics: one AWS   *)
(* Security Hub insight per account and region, the "slot", shared by      *)
(* every satellite process without any lock between them.  A call rewrites *)
(* the slot to hold its query, reads the results, and reads the slot's     *)
(* name back to find out whether somebody else rewrote it in between.      *)
(*                                                                         *)
(* One action is one AWS call, or one critical section of the process.     *)
(* An insight is abstracted to what its name says: the query of a slot, an *)
(* insight left by an older version of the task, or a user's own insight.  *)
(***************************************************************************)
EXTENDS Integers, FiniteSets

CONSTANTS
    Procs,        \* satellite processes that share one account and region
    Calls,        \* invocations of the task
    ProcOf,       \* the process that serves a call
    Queries,      \* fingerprints of (group_by, filter), the slot's name
    Arns,         \* ARNs that AWS may hand out; never used twice
    None,         \* no call, no ARN, no results
    Quota,        \* custom insights an account may have in the region
    MaxAttempts,  \* maxAttempts
    DeleteDenied, \* whether DeleteInsight may be denied by policy
    MaxRestarts   \* bound: process restarts

\* What a name says of an insight that is not a slot; "free" is an ARN not
\* handed out yet, "gone" one whose insight was deleted.
Other == {"user", "old", "free", "gone"}

ASSUME InsightAssumption ==
    /\ ProcOf \in [Calls -> Procs]
    /\ Queries \cap Other = {}
    /\ None \notin Queries \cup Other \cup Arns \cup Calls
    /\ MaxAttempts \in Nat \ {0}
    /\ Quota \in Nat
    /\ DeleteDenied \in BOOLEAN
    /\ MaxRestarts \in Nat

VARIABLES
    insight,   \* AWS: what each ARN's insight is
    holder,    \* the call that holds the process's regionLock
    cleaned,   \* the process's cleaned[region]
    restarts,  \* restarts so far
    pc,        \* where a call is in Execute, or how it ended
    question,  \* the query a call asks
    attempt,   \* Execute's attempt
    arn,       \* useSlot's arn
    left,      \* useSlot's leftovers still to be deleted
    got,       \* the query whose results GetInsightResults returned
    lost       \* history: times the slot stopped holding the call's query

procVars == <<holder, cleaned, restarts>>
callVars == <<question, attempt, arn, left, got, lost>>
vars == <<insight, procVars, pc, callVars>>

Working == {"find", "create", "update", "clean", "delete", "read", "verify"}
SlotEnded == {"success", "busy", "quota", "error", "killed"}

Slots == {a \in Arns : insight[a] \in Queries}
\* Mutant of Owned: the prefix test on the name is forgotten.
OwnedByAnyone == {a \in Arns : insight[a] \in Queries \cup {"old", "user"}}
Owned == {a \in Arns : insight[a] \in Queries \cup {"old"}}
Live == {a \in Arns : insight[a] \notin {"free", "gone"}}

TypeOK ==
    /\ insight \in [Arns -> Queries \cup Other]
    /\ holder \in [Procs -> Calls \cup {None}]
    /\ cleaned \in [Procs -> BOOLEAN]
    /\ restarts \in 0..MaxRestarts
    /\ pc \in [Calls -> {"idle", "lock"} \cup Working \cup SlotEnded]
    /\ question \in [Calls -> Queries]
    /\ attempt \in [Calls -> 1..MaxAttempts]
    /\ arn \in [Calls -> Arns \cup {None}]
    /\ left \in [Calls -> SUBSET Arns]
    /\ got \in [Calls -> Queries \cup {None}]
    /\ lost \in [Calls -> 0..2]

\* Any account the processes may be started in: insights of users, of older
\* versions, and slots of processes that ran before.
Init ==
    /\ insight \in [Arns -> Queries \cup {"user", "old", "free"}]
    /\ Cardinality(Live) <= Quota
    /\ holder = [p \in Procs |-> None]
    /\ cleaned = [p \in Procs |-> FALSE]
    /\ restarts = 0
    /\ pc = [c \in Calls |-> "idle"]
    /\ question \in [Calls -> Queries]
    /\ attempt = [c \in Calls |-> 1]
    /\ arn = [c \in Calls |-> None]
    /\ left = [c \in Calls |-> {}]
    /\ got = [c \in Calls |-> None]
    /\ lost = [c \in Calls |-> 0]

-----------------------------------------------------------------------------
\* Leaving Execute: the deferred Unlock, and the outcome.
Finish(c, outcome) ==
    /\ pc' = [pc EXCEPT ![c] = outcome]
    /\ holder' = [holder EXCEPT ![ProcOf[c]] = None]
    /\ UNCHANGED <<cleaned, restarts, question, attempt, arn, left, got>>

\* Mutant of RetryOr: attempts are not counted.
RetryForever(c, outcome) ==
    /\ pc' = [pc EXCEPT ![c] = "find"]
    /\ UNCHANGED <<procVars, question, attempt, arn, left, got>>

\* "continue" while attempts are left, otherwise the given outcome.
RetryOr(c, outcome) ==
    \/ /\ attempt[c] < MaxAttempts
       /\ pc' = [pc EXCEPT ![c] = "find"]
       /\ attempt' = [attempt EXCEPT ![c] = @ + 1]
       /\ UNCHANGED <<procVars, question, arn, left, got>>
    \/ /\ attempt[c] >= MaxAttempts
       /\ Finish(c, outcome)

\* Every call that counts on insight a holding its own query and sees the
\* name change to n loses it once more (counted to 2).
Affected(a, n) ==
    {c \in Calls : /\ pc[c] \in {"clean", "delete", "read", "verify"}
                   /\ arn[c] = a
                   /\ insight[a] # n}

Rename(a, n) ==
    /\ insight' = [insight EXCEPT ![a] = n]
    /\ lost' = [c \in Calls |-> IF c \in Affected(a, n) /\ lost[c] < 2
                                THEN lost[c] + 1 ELSE lost[c]]

-----------------------------------------------------------------------------
\* A request reaches Execute; payload checks and the client factory touch no
\* shared state.
Start(c) ==
    /\ pc[c] = "idle"
    /\ pc' = [pc EXCEPT ![c] = "lock"]
    /\ UNCHANGED <<insight, procVars, callVars>>

\* Mutant of Lock: calls of one process are not serialized.
LockByAnyone(c) ==
    /\ pc[c] = "lock"
    /\ holder' = [holder EXCEPT ![ProcOf[c]] = c]
    /\ pc' = [pc EXCEPT ![c] = "find"]
    /\ UNCHANGED <<insight, cleaned, restarts, callVars>>

\* regionLock(resolvedRegion).Lock()
Lock(c) ==
    /\ pc[c] = "lock"
    /\ holder[ProcOf[c]] = None
    /\ holder' = [holder EXCEPT ![ProcOf[c]] = c]
    /\ pc' = [pc EXCEPT ![c] = "find"]
    /\ UNCHANGED <<insight, cleaned, restarts, callVars>>

\* useSlot lists the account's insights: one of the slots is listed first,
\* the task's other insights are leftovers.  Which call follows depends on
\* the name that was listed.
FindSlot(c) ==
    /\ pc[c] = "find"
    /\ \/ \E a \in Slots :
            /\ arn' = [arn EXCEPT ![c] = a]
            /\ left' = [left EXCEPT ![c] = Owned \ {a}]
            /\ pc' = [pc EXCEPT ![c] = IF insight[a] = question[c]
                                       THEN "clean" ELSE "update"]
       \/ /\ Slots = {}
          /\ arn' = [arn EXCEPT ![c] = None]
          /\ left' = [left EXCEPT ![c] = Owned]
          /\ pc' = [pc EXCEPT ![c] = "create"]
    /\ got' = [got EXCEPT ![c] = None]
    /\ lost' = [lost EXCEPT ![c] = 0]
    /\ UNCHANGED <<insight, procVars, question, attempt>>

\* CreateInsight; at the quota AWS answers LimitExceeded.
CreateInsight(c) ==
    /\ pc[c] = "create"
    /\ Cardinality(Live) < Quota
    /\ \E a \in Arns :
         /\ insight[a] = "free"
         /\ Rename(a, question[c])
         /\ arn' = [arn EXCEPT ![c] = a]
    /\ pc' = [pc EXCEPT ![c] = "clean"]
    /\ UNCHANGED <<procVars, question, attempt, left, got>>

CreateRefused(c) ==
    /\ pc[c] = "create"
    /\ \/ Cardinality(Live) >= Quota
       \/ \A a \in Arns : insight[a] # "free"    \* bound: all ARNs are used
    /\ Finish(c, "quota")
    /\ UNCHANGED <<insight, lost>>

\* UpdateInsight on the listed slot, whatever its name has become.
UpdateInsight(c) ==
    /\ pc[c] = "update"
    /\ \/ /\ insight[arn[c]] # "gone"
          /\ Rename(arn[c], question[c])
          /\ pc' = [pc EXCEPT ![c] = "clean"]
          /\ UNCHANGED <<procVars, question, attempt, arn, left, got>>
       \/ /\ insight[arn[c]] = "gone"
          /\ RetryOr(c, "error")
          /\ UNCHANGED <<insight, lost>>

\* cleanupOnce's critical section.
CleanupOnce(c) ==
    /\ pc[c] = "clean"
    /\ cleaned' = [cleaned EXCEPT ![ProcOf[c]] = TRUE]
    /\ pc' = [pc EXCEPT ![c] = IF cleaned[ProcOf[c]] \/ left[c] = {}
                               THEN "read" ELSE "delete"]
    /\ UNCHANGED <<insight, holder, restarts, callVars>>

\* One DeleteInsight of cleanupOnce's loop; a failure, because it is denied or
\* the insight is gone already, is only logged.
DeleteInsight(c) ==
    /\ pc[c] = "delete"
    /\ \E a \in left[c] :
         /\ \/ Rename(a, "gone")
            \/ /\ DeleteDenied \/ insight[a] = "gone"
               /\ UNCHANGED <<insight, lost>>
         /\ left' = [left EXCEPT ![c] = @ \ {a}]
         /\ pc' = [pc EXCEPT ![c] = IF left[c] = {a} THEN "read" ELSE "delete"]
    /\ UNCHANGED <<procVars, question, attempt, arn, got>>

\* GetInsightResults: the results of whatever query the slot holds now.
GetResults(c) ==
    /\ pc[c] = "read"
    /\ \/ /\ insight[arn[c]] # "gone"
          /\ got' = [got EXCEPT ![c] = insight[arn[c]]]
          /\ pc' = [pc EXCEPT ![c] = "verify"]
          /\ UNCHANGED <<procVars, question, attempt, arn, left>>
       \/ /\ insight[arn[c]] = "gone"
          /\ RetryOr(c, "error")
    /\ UNCHANGED <<insight, lost>>

\* Mutant of Verify: any insight still there will do.
VerifyExists(c) ==
    /\ pc[c] = "verify"
    /\ \/ /\ insight[arn[c]] # "gone"
          /\ Finish(c, "success")
       \/ /\ insight[arn[c]] = "gone"
          /\ RetryOr(c, "busy")
    /\ UNCHANGED <<insight, lost>>

\* insightNameOf, and the comparison with the call's own name.
Verify(c) ==
    /\ pc[c] = "verify"
    /\ \/ /\ insight[arn[c]] = question[c]
          /\ Finish(c, "success")
       \/ /\ insight[arn[c]] # question[c]
          /\ RetryOr(c, "busy")
    /\ UNCHANGED <<insight, lost>>

\* Any AWS call may fail otherwise (throttled, denied, cancelled request).
AwsError(c) ==
    /\ pc[c] \in {"find", "create", "update", "read", "verify"}
    /\ Finish(c, "error")
    /\ UNCHANGED <<insight, lost>>

\* The answer to a CreateInsight or UpdateInsight may be lost after AWS did it.
AnswerLost(c) ==
    /\ \/ /\ pc[c] = "create"
          /\ Cardinality(Live) < Quota
          /\ \E a \in Arns : insight[a] = "free" /\ Rename(a, question[c])
       \/ /\ pc[c] = "update"
          /\ insight[arn[c]] # "gone"
          /\ Rename(arn[c], question[c])
    /\ Finish(c, "error")

\* A process dies with its calls, its lock and its memory of the clean-up.
Restart(p) ==
    /\ restarts < MaxRestarts
    /\ restarts' = restarts + 1
    /\ holder' = [holder EXCEPT ![p] = None]
    /\ cleaned' = [cleaned EXCEPT ![p] = FALSE]
    /\ pc' = [c \in Calls |-> IF ProcOf[c] = p /\ pc[c] \in {"lock"} \cup Working
                              THEN "killed" ELSE pc[c]]
    /\ UNCHANGED <<insight, callVars>>

Step(c) ==
    \/ Lock(c) \/ FindSlot(c) \/ CreateInsight(c) \/ CreateRefused(c)
    \/ UpdateInsight(c) \/ CleanupOnce(c) \/ DeleteInsight(c) \/ GetResults(c)
    \/ Verify(c) \/ AwsError(c) \/ AnswerLost(c)

\* Every call has ended; nothing is left to do.
Done ==
    /\ \A c \in Calls : pc[c] \in SlotEnded
    /\ UNCHANGED vars

Next ==
    \/ \E c \in Calls : Start(c) \/ Step(c)
    \/ \E p \in Procs : Restart(p)
    \/ Done

\* AWS answers, the SDK gives up on what it does not answer, and a goroutine
\* that runs keeps running.  Nothing makes a request arrive or a process die.
Spec == Init /\ [][Next]_vars /\ \A c \in Calls : WF_vars(Step(c))

-----------------------------------------------------------------------------
\* The insights of users are never renamed and never deleted: the list holds
\* every insight of the account, and only the name tells whose it is.
UserInsightsUntouched ==
    [][\A a \in Arns : insight[a] = "user" => insight'[a] = "user"]_vars

\* A successful call returns the results of its own query unless the name of
\* the slot changed twice under it (away, and back again): one rewrite
\* between useSlot and the results is always seen by the name check.
ResultsAreOurs ==
    \A c \in Calls : pc[c] = "success" /\ lost[c] < 2 => got[c] = question[c]

\* The processes take no more of the account's quota than one slot each,
\* whatever they found: a slot is only ever added while there are fewer slots
\* than processes (calls of one process never race to create).
OneSlotPerProcess ==
    [][Cardinality(Slots') > Cardinality(Slots)
         => Cardinality(Slots') <= Cardinality(Procs)]_vars

\* A process does not disturb itself: the slot a call counts on is only ever
\* taken from it by a call of another process, so that one that has the account
\* for itself never has to retry.
OwnCallsHarmless ==
    [][ \A c \in Calls : lost'[c] > lost[c] =>
          \E d \in Calls : /\ ProcOf[d] # ProcOf[c]
                           /\ <<pc[d], left[d]>>' # <<pc[d], left[d]>> ]_vars

\* Every call that reached Execute ends: retries are bounded even when other
\* processes rewrite the slot all the time, and no outcome keeps the lock.
CallsEnd == \A c \in Calls : pc[c] = "lock" ~> pc[c] \in SlotEnded

=============================================================================
