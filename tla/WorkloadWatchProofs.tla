------------------------- MODULE WorkloadWatchProofs -------------------------
(***************************************************************************)
(* What the unconditional writes of the write tasks are still good for,    *)
(* for any number of calls and any changes by others: whatever a check     *)
(* ruled out was not so during all of the call.                            *)
(***************************************************************************)
EXTENDS WorkloadWatch, TLAPS

\* A call that has passed the check on its namespace, and the ones on its object.
PastNamespace == {"object", "check", "write", "dry", "done", "unanswered"}
PastObject == {"check", "write", "dry", "done", "unanswered"}
PastChecks == {"write", "dry", "done", "unanswered"}

\* What the checks that a call has passed have established for good.
Passing(c) ==
    /\ pc[c] \in PastNamespace /\ kind[c] # "nodeclaim"
         => <<"namespace", kind[c]>> \notin alwaysOut[c]
    /\ pc[c] \in PastObject /\ (kind[c] # "nodeclaim" \/ ~force[c])
         => <<"object", kind[c]>> \notin alwaysOut[c]
    /\ pc[c] \in PastObject /\ kind[c] = "scale"
         => \E n \in during[c] : n = 0 \/ want[c] <= n * 3
    /\ pc[c] # "idle" /\ pc[c] \notin {"refused"} /\ kind[c] = "scale" /\ want[c] = 0
         => allowZero[c]
    /\ pc[c] \in PastChecks /\ kind[c] = "restart" /\ ~daemon[c]
         => ~alwaysBlocked[c]

Inv == WatchTypeOK /\ \A c \in Calls : Passing(c)

\* Every call is of one of the four tasks.
LEMMA CallsAreOfTasks ==
    ASSUME TypeOK
    PROVE  kind \in [Calls -> Tasks] /\ Called \subseteq Tasks
BY WritesAssumption DEF TypeOK, Called

\* An annotation that opts out for Out opts out for the code.
LEMMA OutIsOptedOut ==
    ASSUME NEW a \in Annotations, a \in Out(marks)
    PROVE  OptedOut(a[2], marks[a])
BY WritesAssumption DEF Out, OptedOut, Annotations, Tasks

\* A call's record of what is always so only shrinks, its record of what has
\* been so only grows.
LEMMA RecordsMove ==
    ASSUME Watch, NEW c \in Calls
    PROVE  /\ alwaysOut'[c] \subseteq alwaysOut[c]
           /\ during[c] \subseteq during'[c]
           /\ Sees(c) => alwaysOut'[c] \subseteq Out(marks) /\ replicas \in during'[c]
BY DEF Watch

\* A budget that has been free once was not blocked during all of the call.
LEMMA FreeForGood ==
    ASSUME Watch, NEW c \in Calls
    PROVE  /\ ~alwaysBlocked[c] => ~alwaysBlocked'[c]
           /\ Sees(c) /\ budget # "blocked" => ~alwaysBlocked'[c]
<1>1. alwaysBlocked' = [d \in Calls |->
          IF Sees(d) THEN alwaysBlocked[d] /\ budget = "blocked" ELSE alwaysBlocked[d]]
  BY DEF Watch
<1>2. alwaysBlocked'[c] =
          IF Sees(c) THEN alwaysBlocked[c] /\ budget = "blocked" ELSE alwaysBlocked[c]
  BY <1>1, Zenon
<1> QED
  BY <1>2, Zenon

\* Nobody but the call itself moves it, and its payload never changes.
LEMMA OwnStep ==
    ASSUME TypeOK, [Next]_vars, NEW c \in Calls
    PROVE  /\ UNCHANGED payload
           /\ pc'[c] = pc[c] \/ Step(c)
<1> USE DEF payload, local, Return, TypeOK
<1>1. ASSUME NEW d \in Calls, Step(d) PROVE UNCHANGED payload /\ (d # c => pc'[c] = pc[c])
  BY <1>1 DEF Step, Call, GetNamespace, GetObject, ReadToScale, ReadToRestart, ReadPod,
     ReadNodeClaim, Check, CheckHPA, CheckPDB, Write
<1>2. CASE Others
  BY <1>2 DEF Others
<1>3. CASE Tick
  BY <1>3 DEF Tick
<1>4. CASE UNCHANGED vars
  BY <1>4 DEF vars
<1> QED
  BY <1>1, <1>2, <1>3, <1>4 DEF Next, Done

LEMMA InvInit == WatchInit => Inv
<1> SUFFICES ASSUME WatchInit PROVE Inv
  OBVIOUS
<1> USE WritesAssumption DEF WatchInit, Init
<1>1. TypeOK
  <2>1. /\ replicas \in Replicas /\ budget \in Budgets
        /\ marks \in [Annotations -> Marks]
    BY DEF Marks
  <2>2. want \in [Calls -> Wanted]
    OBVIOUS
  <2>3. /\ pc \in [Calls -> {"idle"}]
        /\ read \in [Calls -> Nat] /\ stamp \in [Calls -> 0..MaxSecond]
    OBVIOUS
  <2> QED
    BY <2>1, <2>2, <2>3 DEF TypeOK, Outcomes
<1>2. WatchTypeOK
  BY <1>1 DEF WatchTypeOK
<1>3. ASSUME NEW c \in Calls PROVE Passing(c)
  BY DEF Passing, PastNamespace, PastObject, PastChecks
<1> QED
  BY <1>2, <1>3 DEF Inv

LEMMA TypeStep ==
    ASSUME TypeOK, [Next]_vars
    PROVE  TypeOK'
<1> USE WritesAssumption DEF cluster, payload, local, Outcomes
<1>1. ASSUME NEW c \in Calls, Call(c) PROVE TypeOK'
  BY <1>1 DEF Call, Return, TypeOK
<1>2. ASSUME NEW c \in Calls, GetNamespace(c) PROVE TypeOK'
  BY <1>2 DEF GetNamespace, Return, TypeOK
<1>3. ASSUME NEW c \in Calls, GetObject(c) PROVE TypeOK'
  <2>1. \E outcome \in {"refused", "check", "write", "dry", "error"} : Return(c, outcome)
    BY <1>3, Zenon DEF GetObject, ReadToScale, ReadToRestart, ReadPod, ReadNodeClaim, Passed
  <2>2. UNCHANGED <<cluster, clock, edits, payload>>
    BY <1>3 DEF GetObject
  <2>3. read' \in [Calls -> Nat] /\ stamp' \in [Calls -> 0..MaxSecond]
    BY <1>3 DEF GetObject, ReadToScale, ReadToRestart, ReadPod, ReadNodeClaim, TypeOK
  <2> QED
    BY <2>1, <2>2, <2>3 DEF Return, TypeOK
<1>4. ASSUME NEW c \in Calls, Check(c) PROVE TypeOK'
  <2>1. \E outcome \in {"refused", "write", "dry", "error"} : Return(c, outcome)
    BY <1>4, Zenon DEF Check, CheckHPA, CheckPDB, Passed
  <2>2. UNCHANGED <<cluster, clock, edits, payload, read>>
    BY <1>4 DEF Check
  <2>3. stamp' \in [Calls -> 0..MaxSecond]
    BY <1>4 DEF Check, CheckHPA, CheckPDB, TypeOK
  <2> QED
    BY <2>1, <2>2, <2>3 DEF Return, TypeOK
<1>5. ASSUME NEW c \in Calls, Write(c) PROVE TypeOK'
  <2>1. \E outcome \in {"done", "unanswered", "error"} : Return(c, outcome)
    BY <1>5, Zenon DEF Write
  <2>2. UNCHANGED <<clock, edits, payload, local>>
    BY <1>5 DEF Write
  <2>3. /\ replicas' \in Replicas /\ restartedAt' \in 0..MaxSecond /\ rollouts' \in Nat
        /\ pod' \in {"gone", "there"} /\ claim' \in {"gone", "there"}
        /\ UNCHANGED <<marks, budget>>
    <3>1. want[c] \in Replicas /\ stamp[c] \in 0..MaxSecond
      BY DEF TypeOK
    <3>2. CASE WriteScale(c)
      BY <3>1, <3>2 DEF WriteScale, TypeOK
    <3>3. CASE WriteRestart(c)
      BY <3>1, <3>3 DEF WriteRestart, TypeOK
    <3>4. CASE WriteEvict(c) \/ WriteNodeClaim(c)
      BY <3>4 DEF WriteEvict, WriteNodeClaim, TypeOK
    <3>5. CASE UNCHANGED cluster
      BY <3>5 DEF TypeOK
    <3> QED
      BY <1>5, <3>2, <3>3, <3>4, <3>5 DEF Write
  <2> QED
    BY <2>1, <2>2, <2>3 DEF Return, TypeOK
<1>6. CASE Others
  <2>1. \A a \in {"namespace", "object"} \X Called : a \in Annotations
    BY CallsAreOfTasks DEF Annotations
  <2> QED
    BY <1>6, <2>1 DEF Others, TypeOK
<1>7. CASE Tick
  BY <1>7 DEF Tick, TypeOK
<1>8. CASE UNCHANGED vars
  BY <1>8 DEF vars, TypeOK
<1> QED
  BY <1>1, <1>2, <1>3, <1>4, <1>5, <1>6, <1>7, <1>8 DEF Next, Step, Done

LEMMA WatchTypeStep ==
    ASSUME WatchTypeOK, [Next]_vars, Watch
    PROVE  WatchTypeOK'
<1>1. TypeOK'
  BY TypeStep DEF WatchTypeOK
<1>2. alwaysOut' \in [Calls -> SUBSET Annotations]
  BY DEF WatchTypeOK, Watch
<1>3. alwaysBlocked' \in [Calls -> BOOLEAN]
  BY Zenon DEF WatchTypeOK, Watch
<1>4. during' \in [Calls -> SUBSET Replicas]
  BY DEF WatchTypeOK, Watch, TypeOK
<1>5. rolledBefore' \in [Calls -> Nat]
  BY DEF WatchTypeOK, Watch, TypeOK
<1> QED
  BY <1>1, <1>2, <1>3, <1>4, <1>5 DEF WatchTypeOK

\* What a call's checks have established stays so, and each of its steps
\* establishes what it is the check of.
LEMMA PassingStep ==
    ASSUME Inv, [Next]_vars, Watch, NEW c \in Calls
    PROVE  Passing(c)'
<1> USE DEF PastNamespace, PastObject, PastChecks
<1>0. Passing(c) /\ TypeOK /\ UNCHANGED payload /\ kind \in [Calls -> Tasks]
  BY OwnStep, CallsAreOfTasks DEF Inv, WatchTypeOK
<1>1. /\ alwaysOut'[c] \subseteq alwaysOut[c]
      /\ during[c] \subseteq during'[c]
      /\ Sees(c) => alwaysOut'[c] \subseteq Out(marks) /\ replicas \in during'[c]
      /\ ~alwaysBlocked[c] => ~alwaysBlocked'[c]
  BY RecordsMove, FreeForGood
<1>2. CASE pc'[c] = pc[c]
  BY <1>0, <1>1, <1>2 DEF Passing, payload
<1>3. CASE Call(c)
  BY <1>0, <1>1, <1>3 DEF Passing, payload, Call, Return, TypeOK
<1>4. CASE GetNamespace(c)
  <2>1. CASE pc'[c] = "object"
    <3>1. ~OptedOut(kind[c], marks[<<"namespace", kind[c]>>])
      BY <1>0, <1>4, <2>1 DEF GetNamespace, Return, TypeOK
    <3>2. <<"namespace", kind[c]>> \in Annotations
      BY <1>0 DEF Annotations
    <3>3. <<"namespace", kind[c]>> \notin Out(marks)
      BY <3>1, <3>2, OutIsOptedOut
    <3>4. Sees(c)
      BY <1>4, <2>1 DEF GetNamespace, Sees, Outcomes
    <3>5. pc[c] = "namespace"
      BY <1>4 DEF GetNamespace
    <3> QED
      BY <1>0, <1>1, <2>1, <3>3, <3>4, <3>5 DEF Passing, payload
  <2>2. CASE pc'[c] \in {"refused", "error"}
    BY <1>0, <1>1, <1>4, <2>2 DEF Passing, payload, GetNamespace
  <2> QED
    BY <1>0, <1>4, <2>1, <2>2 DEF GetNamespace, Return, TypeOK
<1>5. CASE GetObject(c)
  <2>1. CASE pc'[c] \in {"check", "write", "dry"}
    <3>1. /\ pc[c] = "object"
          /\ OptedOut(kind[c], marks[<<"object", kind[c]>>]) => kind[c] = "nodeclaim" /\ force[c]
          /\ kind[c] = "scale" => ~TooMuch(c)
      BY <1>0, <1>5, <2>1 DEF GetObject, ReadToScale, ReadToRestart, ReadPod, ReadNodeClaim,
         ObjectOut, Return, TypeOK
    <3>2. <<"object", kind[c]>> \in Annotations
      BY <1>0 DEF Annotations
    <3>3. kind[c] # "nodeclaim" \/ ~force[c] => <<"object", kind[c]>> \notin Out(marks)
      BY <3>1, <3>2, OutIsOptedOut
    <3>4. Sees(c)
      BY <2>1, <3>1 DEF Sees, Outcomes
    <3>5. kind[c] = "scale" => \E n \in during'[c] : n = 0 \/ want[c] <= n * 3
      <4>0. want[c] \in Nat /\ replicas \in Nat
        BY <1>0, WritesAssumption DEF TypeOK
      <4>1. kind[c] = "scale" => replicas = 0 \/ want[c] <= replicas * 3
        BY <3>1, <4>0 DEF TooMuch
      <4> QED
        BY <1>1, <3>4, <4>1 DEF payload
    <3>6. kind[c] = "restart" /\ ~daemon[c] => pc'[c] = "check"
      BY <1>0, <1>5, <2>1 DEF GetObject, ReadToScale, ReadToRestart, ReadPod, ReadNodeClaim,
         Return, TypeOK
    <3> QED
      BY <1>0, <1>1, <2>1, <3>1, <3>3, <3>4, <3>5, <3>6 DEF Passing, payload
  <2>2. CASE pc'[c] \in {"refused", "error"}
    BY <1>0, <1>1, <1>5, <2>2 DEF Passing, payload, GetObject
  <2> QED
    BY <1>0, <1>5, <2>1, <2>2 DEF GetObject, ReadToScale, ReadToRestart, ReadPod,
       ReadNodeClaim, Passed, Return, TypeOK
<1>6. CASE Check(c)
  <2>1. /\ pc[c] = "check"
        /\ pc'[c] \in {"refused", "dry", "write", "error"}
    BY <1>0, <1>6 DEF Check, CheckHPA, CheckPDB, Passed, Return, TypeOK
  <2>2. ASSUME pc'[c] \in {"dry", "write"}, kind[c] = "restart" PROVE ~alwaysBlocked'[c]
    <3>1. budget # "blocked"
      BY <1>0, <1>6, <2>2 DEF Check, CheckHPA, CheckPDB, Return, TypeOK
    <3>2. Sees(c)
      BY <2>1, <2>2 DEF Sees, Outcomes
    <3> QED
      BY <3>1, <3>2, FreeForGood
  <2> QED
    BY <1>0, <1>1, <2>1, <2>2 DEF Passing, payload
<1>7. CASE Write(c)
  <2>1. /\ pc[c] = "write"
        /\ pc'[c] \in {"error", "done", "unanswered"}
    BY <1>0, <1>7 DEF Write, Return, TypeOK
  <2> QED
    BY <1>0, <1>1, <2>1 DEF Passing, payload
<1> QED
  BY <1>2, <1>3, <1>4, <1>5, <1>6, <1>7, OwnStep DEF Step, Inv, WatchTypeOK

LEMMA Invariance == WatchSpec => []Inv
<1>1. Inv /\ [Next /\ Watch]_watchVars => Inv'
  <2> SUFFICES ASSUME Inv, [Next /\ Watch]_watchVars PROVE Inv'
    OBVIOUS
  <2>1. CASE Next /\ Watch
    <3>1. WatchTypeOK'
      BY <2>1, WatchTypeStep DEF Inv
    <3>2. ASSUME NEW c \in Calls PROVE Passing(c)'
      BY <2>1, PassingStep
    <3> QED
      BY <3>1, <3>2 DEF Inv
  <2>2. CASE UNCHANGED watchVars
    BY <2>2 DEF watchVars, vars, history, cluster, payload, local, Inv, WatchTypeOK,
       TypeOK, Passing, PastChecks
  <2> QED
    BY <2>1, <2>2
<1> QED
  BY <1>1, InvInit, PTL DEF WatchSpec

\* The variables, and the history of the calls, keep their types.
THEOREM TypeCorrect == WatchSpec => []WatchTypeOK
BY Invariance, PTL DEF Inv

\* An opt-out that is there before a call is made and stays is never overridden
\* (the annotation checks of the four tasks).
THEOREM OptOutsHonoured == WatchSpec => []OptOutHonoured
<1>1. Inv => OptOutHonoured
  BY DEF Inv, Passing, PastNamespace, PastObject, OptOutHonoured, Written
<1> QED
  BY <1>1, Invariance, PTL

\* The limit of workload_scale holds of some replicas there were during the call.
THEOREM ScalesWithinCall == WatchSpec => []ScaleWithinCall
<1>1. Inv => ScaleWithinCall
  BY DEF Inv, Passing, PastObject, ScaleWithinCall, Written
<1> QED
  BY <1>1, Invariance, PTL

\* A restart that is done found, at some moment of the call, no visible budget
\* blocked (checkPDB), unless it is of a DaemonSet, which has no such check.
THEOREM RestartsHonourBudgets == WatchSpec => []BudgetHonoured
<1>1. Inv => BudgetHonoured
  BY DEF Inv, Passing, PastChecks, BudgetHonoured, Written
<1> QED
  BY <1>1, Invariance, PTL

-----------------------------------------------------------------------------
\* The annotation that is there was written by a call that keeps the second it
\* wrote; so a restart that finds its own second there was not the first.
Rolled ==
    /\ restartedAt # 0 =>
          \E d \in Calls : pc[d] \in Written /\ stamp[d] = restartedAt
    /\ \A c \in Calls :
          /\ rolledBefore[c] <= rollouts
          /\ pc[c] = "write" /\ kind[c] = "restart" => stamp[c] # 0
          /\ pc[c] = "done" /\ kind[c] = "restart" =>
                \/ rollouts > rolledBefore[c]
                \/ \E d \in Calls \ {c} : pc[d] \in Written /\ stamp[d] = stamp[c]

\* A call that has written neither moves nor changes its stamp.
LEMMA WrittenStays ==
    ASSUME TypeOK, [Next]_vars, NEW c \in Calls
    PROVE  /\ pc[c] \in Outcomes => pc'[c] = pc[c] /\ stamp'[c] = stamp[c]
           /\ rollouts' >= rollouts /\ rollouts' \in Nat
<1> USE DEF local, Return, TypeOK
<1>1. ASSUME NEW d \in Calls, Call(d) \/ GetNamespace(d)
      PROVE  UNCHANGED <<stamp, rollouts>>
  BY <1>1 DEF Call, GetNamespace, cluster
<1>2. ASSUME NEW d \in Calls, GetObject(d) \/ Check(d)
      PROVE  UNCHANGED rollouts /\ (d # c => stamp'[c] = stamp[c])
  BY <1>2 DEF GetObject, ReadToScale, ReadToRestart, ReadPod, ReadNodeClaim, Check, CheckHPA,
     CheckPDB, cluster
<1>3. ASSUME NEW d \in Calls, Write(d)
      PROVE  UNCHANGED stamp /\ rollouts' \in {rollouts, rollouts + 1}
  BY <1>3 DEF Write, WriteScale, WriteRestart, WriteEvict, WriteNodeClaim, cluster
<1>4. CASE Others \/ Tick \/ UNCHANGED vars
  BY <1>4 DEF Others, Tick, vars, cluster
<1>5. pc[c] \in Outcomes => ~Step(c)
  BY DEF Step, Call, GetNamespace, GetObject, Check, Write, Outcomes
<1>6. pc'[c] = pc[c] \/ Step(c)
  BY OwnStep
<1>7. rollouts \in Nat
  OBVIOUS
<1> QED
  BY <1>1, <1>2, <1>3, <1>4, <1>5, <1>6, <1>7 DEF Next, Step, Done

\* Only a call's write ends it as done or unanswered.
LEMMA WrittenByWrite ==
    ASSUME TypeOK, [Next]_vars, NEW c \in Calls, pc'[c] \in Written, pc[c] \notin Written
    PROVE  Write(c)
<1> USE DEF Return, TypeOK, Written
<1>1. ~Call(c) /\ ~GetNamespace(c)
  BY DEF Call, GetNamespace
<1>2. ~GetObject(c)
  BY DEF GetObject, ReadToScale, ReadToRestart, ReadPod, ReadNodeClaim, Passed
<1>3. ~Check(c)
  BY DEF Check, CheckHPA, CheckPDB, Passed
<1> QED
  BY <1>1, <1>2, <1>3, OwnStep DEF Step

LEMMA RolledStep ==
    ASSUME WatchTypeOK, Rolled, [Next]_vars, Watch
    PROVE  Rolled'
<1> TypeOK
  BY DEF WatchTypeOK
<1>0. \A d \in Calls : pc[d] \in Written => pc'[d] = pc[d] /\ stamp'[d] = stamp[d]
  BY WrittenStays DEF Written, Outcomes
<1>1. restartedAt' # 0 => \E d \in Calls : pc'[d] \in Written /\ stamp'[d] = restartedAt'
  <2>1. CASE UNCHANGED restartedAt
    BY <1>0, <2>1 DEF Rolled
  <2>2. ASSUME NEW d \in Calls, Write(d), WriteRestart(d), Return(d, "done") \/ Return(d, "unanswered")
        PROVE  pc'[d] \in Written /\ stamp'[d] = restartedAt'
    BY <2>2 DEF Write, WriteRestart, Return, TypeOK, Written, local
  <2>3. ASSUME NEW d \in Calls, Step(d), ~UNCHANGED restartedAt
        PROVE  Write(d) /\ WriteRestart(d) /\ (Return(d, "done") \/ Return(d, "unanswered"))
    BY <2>3 DEF Step, Call, GetNamespace, GetObject, Check, Write, WriteScale, WriteEvict,
       WriteNodeClaim, cluster
  <2>4. CASE Others \/ Tick \/ UNCHANGED vars
    BY <2>1, <2>4 DEF Others, Tick, vars, cluster
  <2> QED
    BY <2>1, <2>2, <2>3, <2>4 DEF Next, Done
<1>2. ASSUME NEW c \in Calls PROVE rolledBefore'[c] <= rollouts'
  <2>1. rolledBefore'[c] \in {rollouts, rolledBefore[c]}
    BY DEF Watch
  <2>2. rollouts' >= rollouts /\ rollouts \in Nat /\ rollouts' \in Nat
    BY WrittenStays DEF TypeOK
  <2>3. rolledBefore[c] \in Nat /\ rolledBefore[c] <= rollouts
    BY DEF WatchTypeOK, Rolled
  <2> QED
    BY <2>1, <2>2, <2>3
<1>3. ASSUME NEW c \in Calls, pc'[c] = "write", kind'[c] = "restart" PROVE stamp'[c] # 0
  <2>1. UNCHANGED payload /\ (pc'[c] = pc[c] \/ Step(c))
    BY OwnStep
  <2>2. CASE Step(c)
    <3>1. kind[c] = "restart"
      BY <1>3, <2>1 DEF payload
    <3>2. GetObject(c) \/ Check(c)
      BY <1>3, <2>2, <3>1 DEF Step, Call, GetNamespace, Write, Return, TypeOK
    <3>3. stamp'[c] = clock
      BY <1>3, <3>1, <3>2 DEF GetObject, ReadToScale, ReadToRestart, ReadPod, ReadNodeClaim,
         Check, CheckHPA, CheckPDB, Return, TypeOK
    <3> QED
      BY <3>3 DEF TypeOK
  <2>3. CASE pc'[c] = pc[c] /\ ~Step(c)
    <3>1. stamp'[c] = stamp[c]
      BY <2>3 DEF Next, Step, Call, GetNamespace, GetObject, ReadToScale, ReadToRestart,
         ReadPod, ReadNodeClaim, Check, CheckHPA, CheckPDB, Write, Others, Tick, Done, vars,
         local, TypeOK
    <3> QED
      BY <1>3, <2>1, <2>3, <3>1 DEF Rolled, payload
  <2> QED
    BY <2>1, <2>2, <2>3
<1>4. ASSUME NEW c \in Calls, pc'[c] = "done", kind'[c] = "restart"
      PROVE  \/ rollouts' > rolledBefore'[c]
             \/ \E d \in Calls \ {c} : pc'[d] \in Written /\ stamp'[d] = stamp'[c]
  <2>0. kind[c] = "restart"
    BY <1>4, OwnStep DEF payload
  <2>1. CASE pc[c] = "done"
    <3>1. rolledBefore'[c] = rolledBefore[c] /\ stamp'[c] = stamp[c]
      BY <2>1, WrittenStays DEF Watch, Outcomes
    <3>2. rollouts' >= rollouts /\ rollouts \in Nat /\ rollouts' \in Nat
      BY WrittenStays DEF TypeOK
    <3>3. rolledBefore[c] \in Nat
      BY DEF WatchTypeOK
    <3>4. CASE rollouts > rolledBefore[c]
      BY <3>1, <3>2, <3>3, <3>4
    <3> QED
      BY <1>0, <2>0, <2>1, <3>1, <3>4 DEF Rolled
  <2>2. CASE pc[c] # "done"
    <3>1. pc[c] # "unanswered"
      BY <1>0, <1>4 DEF Written
    <3>2. Write(c)
      BY <1>4, <2>2, <3>1, WrittenByWrite DEF Written
    <3>3. pc[c] = "write" /\ WriteRestart(c) /\ stamp'[c] = stamp[c]
      BY <1>4, <2>0, <3>2 DEF Write, WriteScale, WriteEvict, WriteNodeClaim, Return, local, TypeOK
    <3>4. rolledBefore'[c] = rolledBefore[c] /\ rolledBefore[c] <= rollouts /\ stamp[c] # 0
      BY <2>0, <3>3 DEF Watch, Rolled
    <3>5. CASE restartedAt = stamp[c]
      BY <1>0, <3>3, <3>4, <3>5 DEF Rolled, Written
    <3>6. CASE restartedAt # stamp[c]
      <4>1. rollouts' = rollouts + 1 /\ rollouts \in Nat /\ rolledBefore[c] \in Nat
        BY <3>3, <3>6 DEF WriteRestart, WatchTypeOK, TypeOK
      <4> QED
        BY <3>4, <4>1
    <3> QED
      BY <3>5, <3>6
  <2> QED
    BY <2>1, <2>2
<1> QED
  BY <1>1, <1>2, <1>3, <1>4 DEF Rolled

\* A restart that reports success has begun a rollout since it was called, unless
\* another call wrote the same second; for any number of calls, however long they
\* take between reading the clock and writing.
THEOREM RestartsRoll == WatchSpec => []RestartRolls
<1>1. WatchInit => Rolled
  BY DEF WatchInit, Init, Rolled
<1>2. WatchTypeOK /\ Rolled /\ [Next /\ Watch]_watchVars => Rolled'
  <2>1. UNCHANGED watchVars /\ Rolled => Rolled'
    BY DEF watchVars, vars, history, cluster, payload, local, Rolled
  <2> QED
    BY <2>1, RolledStep
<1>3. Rolled => RestartRolls
  BY DEF Rolled, RestartRolls
<1> QED
  BY <1>1, <1>2, <1>3, TypeCorrect, PTL DEF WatchSpec
=============================================================================
