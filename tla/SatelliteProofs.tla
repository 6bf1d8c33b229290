---------------------------- MODULE SatelliteProofs ----------------------------
(***************************************************************************)
(* The process and its requests for any finite number of them and any      *)
(* flags.                                                                  *)
(*                                                                         *)
(* What holds of a request that is served follows from where main() is:    *)
(* only a server that listens takes requests, it listens only after the    *)
(* start-up, and what comes after Shutdown has no new ones (Course).  What *)
(* a request has passed is in Passed, and Counted relates the gauge and    *)
(* the counter to the requests.                                            *)
(***************************************************************************)
EXTENDS Satellite, FiniteSetTheorems, TLAPS

Early == {"aws", "k8s", "register", "spire", "launch"}
Ending == {"drain", "drain_metrics", "defers"}

Opened == {r \in Requests : pc[r] \in Open}
Done == {r \in Requests : pc[r] = "done"}

TypesOfMain ==
    /\ cfg \in Configs
    /\ phase \in Phases
    /\ exit \in {None, 0, 1, 2}
    /\ registry \subseteq Groups
    /\ spire \in {"off", "up", "closed"}
    /\ server \in {"nil", "new", "listening", "closed"}
    /\ failed \in BOOLEAN /\ signal \in BOOLEAN /\ expired \in BOOLEAN

TypesOfRequests ==
    /\ pc \in [Requests -> {"idle", "killed", "done"} \cup Open]
    /\ route \in [Requests -> Routes]
    /\ bearer \in [Requests -> {"none", "valid", "invalid"}]
    /\ group \in [Requests -> Groups \cup {None}]
    /\ status \in [Requests -> Statuses \cup {None}]

Course ==
    /\ phase \in Early => server = "nil"
    /\ phase \notin {"aws", "k8s", "register", "exited"} => registry = RegisterTasks(cfg)
    /\ phase \notin {"aws", "k8s", "register", "spire", "exited"} /\ cfg.spire => spire # "off"
    /\ spire = "closed" => phase \in {"defers", "exited"}
    /\ phase \in Ending => server = "closed"
    /\ Opened # {} => phase \in {"select"} \cup Ending
    /\ Opened # {} /\ phase \in {"drain_metrics", "defers"} => expired

Passed ==
    \A r \in Requests :
        /\ pc[r] = "idle" => status[r] = None
        /\ pc[r] \in {"execute", "panic"} => group[r] \in RegisterTasks(cfg)

Counted ==
    /\ inFlight \in Nat /\ recorded \in Nat
    /\ phase # "exited" => inFlight = Cardinality(Opened)
    /\ inFlight <= Cardinality(Requests)
    /\ recorded <= Cardinality(Done)

Inv == /\ TypesOfMain /\ TypesOfRequests /\ Course /\ Passed /\ Counted
       /\ OnlyAuthenticatedExecute /\ ProbesNeverThrottled

FiniteRequests == IsFiniteSet(Requests)

-----------------------------------------------------------------------------
\* One request more or less.
LEMMA Sizes ==
    ASSUME FiniteRequests, NEW S \in SUBSET Requests
    PROVE  /\ IsFiniteSet(S)
           /\ Cardinality(S) \in Nat /\ Cardinality(Requests) \in Nat
           /\ Cardinality(S) <= Cardinality(Requests)
           /\ \A r \in Requests \ S : Cardinality(S \cup {r}) = Cardinality(S) + 1
           /\ \A r \in S : Cardinality(S \ {r}) = Cardinality(S) - 1
  BY FS_Subset, FS_CardinalityType, FS_AddElement, FS_RemoveElement DEF FiniteRequests

\* The groups that are registered are those their flags ask for.
LEMMA Flagged ==
    ASSUME NEW g \in RegisterTasks(cfg)
    PROVE  /\ g \in Features => g \in cfg.flags
           /\ g \in K8sFeatures \cup {"k8s_read"} => ~cfg.awsOnly
<1>1. CASE g \in {"network", "account_info", "running_image_vulnerabilities"}
  BY <1>1 DEF Features, K8sFeatures, AnywhereFeatures
<1>2. CASE g \in K8sGroups(cfg)
  BY <1>2 DEF K8sGroups, Features, K8sFeatures, AnywhereFeatures
<1>3. CASE g \in cfg.flags \cap AnywhereFeatures
  BY <1>3 DEF Features, K8sFeatures, AnywhereFeatures
<1> QED
  BY <1>1, <1>2, <1>3 DEF RegisterTasks, AnywhereGroups

\* What the requests see of main() follows from the invariant.
LEMMA InvImplies ==
    ASSUME FiniteRequests, Inv
    PROVE  RequestsSound /\ GaugeCountsOpen
<1>1. Done \in SUBSET Requests /\ Cardinality(Done) <= Cardinality(Requests)
      /\ Cardinality(Requests) \in Nat /\ Cardinality(Done) \in Nat
  BY Sizes DEF Done
<1>2. inFlight \in 0..Cardinality(Requests) /\ recorded \in 0..Cardinality(Requests)
  BY <1>1 DEF Inv, Counted
<1>3. TypeOK
  BY <1>2 DEF Inv, TypesOfMain, TypesOfRequests, TypeOK
<1>4. ServesWhenReady
  BY DEF Inv, Course, Opened, ServesWhenReady, Ending
<1>5. FlagsGuardTasks
  <2> SUFFICES ASSUME NEW r \in Requests, pc[r] \in {"execute", "panic"}
               PROVE  /\ group[r] \in Features => group[r] \in cfg.flags
                      /\ group[r] \in K8sFeatures \cup {"k8s_read"} => ~cfg.awsOnly
    BY DEF FlagsGuardTasks
  <2>1. group[r] \in RegisterTasks(cfg)
    BY DEF Inv, Passed
  <2> QED
    BY <2>1, Flagged
<1>6. GaugeCountsOpen
  BY DEF Inv, Counted, GaugeCountsOpen, Running, Opened
<1> QED
  BY <1>3, <1>4, <1>5, <1>6 DEF RequestsSound, Inv

LEMMA InitInv == ASSUME FiniteRequests, Init PROVE Inv
<1>1. Opened = {} /\ Done = {}
  BY DEF Init, Opened, Done, Open
<1>2. Cardinality(Opened) = 0 /\ Cardinality(Done) = 0 /\ Cardinality(Requests) \in Nat
  BY <1>1, FS_EmptySet, FS_CardinalityType DEF FiniteRequests
<1>3. Counted
  BY <1>2 DEF Init, Counted
<1>4. TypesOfMain
  <2>1. failed \in BOOLEAN /\ signal \in BOOLEAN /\ expired \in BOOLEAN
    BY Zenon DEF Init
  <2> QED
    BY <2>1 DEF Init, TypesOfMain, Phases
<1>5. TypesOfRequests
  BY DEF Init, TypesOfRequests, Routes
<1>6. Course /\ Passed
  BY <1>1 DEF Init, Course, Passed, Early, Ending
<1> QED
  BY <1>3, <1>4, <1>5, <1>6
     DEF Init, Inv, OnlyAuthenticatedExecute, ProbesNeverThrottled

-----------------------------------------------------------------------------
\* main() and the goroutine that serves, when the process goes on.
LEMMA MainInv ==
    ASSUME Inv, UNCHANGED reqVars, phase' # "exited", phase # "exited",
           Main \/ StartServer \/ Expire \/ Signal
    PROVE  Inv'
<1> USE DEF reqVars
<1>1. UNCHANGED cfg
  BY DEF Main, StartServer, AwsInit, NewK8sClient, Register, StartSpire, Launch, Shutdown, Drain,
         DrainMetrics, CloseSpire, Return, MakeServers, Listen, Expire, Signal
<1>2. Opened' = Opened /\ Done' = Done
  BY DEF Opened, Done
<1>3. TypesOfRequests' /\ Counted' /\ Passed' /\ OnlyAuthenticatedExecute' /\ ProbesNeverThrottled'
  BY <1>1, <1>2 DEF Inv, TypesOfRequests, Counted, Passed, OnlyAuthenticatedExecute,
     ProbesNeverThrottled, HasCert
<1>4. TypesOfMain'
  <2> USE DEF Inv, TypesOfMain, Phases
  <2>1. CASE Register
    BY <1>1, <2>1 DEF Register, RegisterTasks, K8sGroups, AnywhereGroups, Groups, Features, BaseGroups
  <2>2. CASE AwsInit \/ NewK8sClient \/ StartSpire \/ Launch \/ Shutdown \/ Drain
    BY <1>1, <2>2 DEF AwsInit, NewK8sClient, StartSpire, Launch, Shutdown, Drain, Exit
  <2>3. CASE DrainMetrics \/ CloseSpire \/ Return \/ MakeServers \/ Listen \/ Expire \/ Signal
    BY <1>1, <2>3 DEF DrainMetrics, CloseSpire, Return, Exit, MakeServers, Listen, Expire, Signal
  <2> QED
    BY <2>1, <2>2, <2>3 DEF Main, StartServer
<1>5. Course'
  <2> USE <1>1, <1>2 DEF Inv, Course, Early, Ending
  <2>1. CASE AwsInit \/ NewK8sClient
    BY <2>1 DEF AwsInit, NewK8sClient, Exit
  <2>2. CASE Register \/ Launch
    BY <2>2 DEF Register, Launch
  <2>3. CASE StartSpire
    BY <2>3 DEF StartSpire, Exit
  <2>4. CASE MakeServers \/ Listen
    BY <2>4 DEF MakeServers, Listen
  <2>5. CASE Shutdown
    BY <2>5 DEF Shutdown, Exit
  <2>6. CASE Drain
    BY <2>6 DEF Drain, Opened
  <2>7. CASE DrainMetrics \/ CloseSpire
    BY <2>7 DEF DrainMetrics, CloseSpire
  <2>8. CASE Return
    BY <2>8 DEF Return, Exit
  <2>9. CASE Expire \/ Signal
    BY <2>9 DEF Expire, Signal
  <2> QED
    BY <2>1, <2>2, <2>3, <2>4, <2>5, <2>6, <2>7, <2>8, <2>9 DEF Main, StartServer
<1> QED
  BY <1>3, <1>4, <1>5 DEF Inv

\* The process ends: nothing is open any more.
LEMMA ExitInv ==
    ASSUME FiniteRequests, Inv, NEW code \in {0, 1, 2}, Exit(code),
           UNCHANGED <<cfg, registry, spire, failed, signal, expired>>,
           server' \in {server, "closed"}
    PROVE  Inv'
<1> USE DEF Exit
<1>1. \A r \in Requests : /\ pc'[r] = IF pc[r] \in Open THEN "killed" ELSE pc[r]
                          /\ pc'[r] \notin Open
  BY DEF Open
<1>2. Opened' = {} /\ Done' = Done
  BY <1>1 DEF Opened, Done, Open
<1>3. TypesOfRequests'
  BY <1>1 DEF Inv, TypesOfRequests, Open
<1>4. Counted'
  BY <1>2 DEF Inv, Counted
<1>5. TypesOfMain' /\ Course'
  BY <1>2 DEF Inv, TypesOfMain, Course, Phases, Early, Ending
<1>6. Passed' /\ OnlyAuthenticatedExecute' /\ ProbesNeverThrottled'
  BY <1>1 DEF Inv, Passed, OnlyAuthenticatedExecute, ProbesNeverThrottled, Open
<1> QED
  BY <1>3, <1>4, <1>5, <1>6 DEF Inv

LEMMA ProcessInv ==
    ASSUME FiniteRequests, Inv, Main \/ StartServer \/ Expire \/ Signal
    PROVE  Inv'
<1>1. phase # "exited"
  BY DEF Main, StartServer, AwsInit, NewK8sClient, Register, StartSpire, Launch, Shutdown, Drain,
         DrainMetrics, CloseSpire, Return, MakeServers, Listen, Expire, Signal
<1>2. CASE UNCHANGED reqVars /\ phase' # "exited"
  BY <1>1, <1>2, MainInv
<1>3. CASE ~(UNCHANGED reqVars /\ phase' # "exited")
  <2>1. /\ \E code \in {0, 1, 2} : Exit(code)
        /\ UNCHANGED <<cfg, registry, spire, failed, signal, expired>>
        /\ server' \in {server, "closed"}
    <3>1. CASE AwsInit \/ NewK8sClient \/ StartSpire \/ Shutdown \/ Return
      BY <1>3, <3>1 DEF AwsInit, NewK8sClient, StartSpire, Shutdown, Return
    <3>2. CASE Register \/ Launch \/ Drain \/ DrainMetrics \/ CloseSpire \/ StartServer
                 \/ Expire \/ Signal
      BY <1>1, <1>3, <3>2
         DEF Register, Launch, Drain, DrainMetrics, CloseSpire, StartServer, MakeServers, Listen,
             Expire, Signal
    <3> QED
      BY <3>1, <3>2 DEF Main
  <2> QED
    BY <2>1, ExitInv
<1> QED
  BY <1>2, <1>3

-----------------------------------------------------------------------------
\* A request that is answered leaves the chain, and the gauge with it.
LEMMA AnswerInv ==
    ASSUME FiniteRequests, Inv, NEW r \in Requests, pc[r] \in Open, phase # "exited",
           UNCHANGED mainVars, UNCHANGED route, Forget(r),
           NEW code \in Statuses, route[r] = "probe" => code # 429,
           pc' = [pc EXCEPT ![r] = "done"], status' = [status EXCEPT ![r] = code],
           inFlight' = inFlight - 1, recorded' \in {recorded, recorded + 1}
    PROVE  Inv'
<1> USE DEF mainVars
<1>1. pc'[r] = "done" /\ \A q \in Requests : q # r => pc'[q] = pc[q]
  BY DEF Inv, TypesOfRequests
<1>2. Opened' = Opened \ {r} /\ r \in Opened /\ Done' = Done \cup {r} /\ r \notin Done
  BY <1>1 DEF Opened, Done, Open
<1>3. Opened \in SUBSET Requests /\ Done \in SUBSET Requests
  BY DEF Opened, Done
<1>4. /\ Cardinality(Opened') = Cardinality(Opened) - 1
      /\ Cardinality(Done') = Cardinality(Done) + 1
      /\ Cardinality(Opened) \in Nat /\ Cardinality(Done) \in Nat
      /\ Cardinality(Opened') \in Nat /\ Cardinality(Opened') <= Cardinality(Requests)
      /\ Cardinality(Requests) \in Nat
  BY <1>2, <1>3, Sizes
<1>5. Counted'
  BY <1>4 DEF Inv, Counted
<1>6. TypesOfRequests'
  BY DEF Inv, TypesOfRequests, Forget
<1>7. TypesOfMain'
  BY DEF Inv, TypesOfMain
<1>8. Course'
  BY <1>2 DEF Inv, Course
<1>9. Passed' /\ OnlyAuthenticatedExecute' /\ ProbesNeverThrottled'
  BY <1>1 DEF Inv, Passed, OnlyAuthenticatedExecute, ProbesNeverThrottled, TypesOfRequests, Forget,
     HasCert, RegisterTasks, K8sGroups, AnywhereGroups
<1> QED
  BY <1>5, <1>6, <1>7, <1>8, <1>9 DEF Inv

\* A request that gets further has passed what was before it.
LEMMA GotoInv ==
    ASSUME Inv, NEW r \in Requests, pc[r] \in Open, NEW next \in Open, Goto(r, next),
           UNCHANGED mainVars, UNCHANGED bearer,
           NEW g \in Groups \cup {None}, group' = [group EXCEPT ![r] = g],
           next \in {"parse", "lookup", "execute", "panic"} =>
               \/ HasCert
               \/ cfg.spire /\ cfg.jwt /\ bearer[r] = "valid"
               \/ cfg.dev /\ ~(cfg.spire /\ cfg.jwt /\ bearer[r] = "invalid"),
           next \in {"execute", "panic"} => g \in RegisterTasks(cfg)
    PROVE  Inv'
<1> USE DEF mainVars, Goto
<1>1. /\ pc'[r] = next /\ group'[r] = g
      /\ \A q \in Requests : q # r => pc'[q] = pc[q] /\ group'[q] = group[q]
  BY DEF Inv, TypesOfRequests
<1>2. Opened' = Opened /\ Done' = Done
  BY <1>1 DEF Opened, Done, Open
<1>3. TypesOfRequests' /\ TypesOfMain' /\ Course' /\ Counted' /\ ProbesNeverThrottled'
  BY <1>2 DEF Inv, TypesOfRequests, TypesOfMain, Course, Counted, ProbesNeverThrottled
<1>4. Passed'
  BY <1>1 DEF Inv, Passed, Open, RegisterTasks, K8sGroups, AnywhereGroups
<1>5. OnlyAuthenticatedExecute'
  BY <1>1 DEF Inv, OnlyAuthenticatedExecute, HasCert
<1> QED
  BY <1>3, <1>4, <1>5 DEF Inv

LEMMA ArriveInv == ASSUME FiniteRequests, Inv, NEW r \in Requests, Arrive(r) PROVE Inv'
<1> USE DEF Arrive, mainVars
<1>1. pc'[r] = "limit" /\ pc[r] = "idle" /\ \A q \in Requests : q # r => pc'[q] = pc[q]
  BY DEF Inv, TypesOfRequests
<1>2. Opened' = Opened \cup {r} /\ r \notin Opened /\ Done' = Done
  BY <1>1 DEF Opened, Done, Open
<1>3. Opened \in SUBSET Requests /\ Opened' \in SUBSET Requests
  BY DEF Opened
<1>4. /\ Cardinality(Opened') = Cardinality(Opened) + 1
      /\ Cardinality(Opened) \in Nat /\ Cardinality(Opened') <= Cardinality(Requests)
      /\ Cardinality(Requests) \in Nat
  BY <1>2, <1>3, Sizes
<1>5. Counted'
  BY <1>2, <1>4 DEF Inv, Counted, Running
<1>6. TypesOfRequests'
  BY DEF Inv, TypesOfRequests, Open
<1>7. TypesOfMain'
  BY DEF Inv, TypesOfMain
<1>8. phase = "select"
  BY DEF Inv, TypesOfMain, Course, Running, Phases, Early, Ending
<1>9. Course'
  BY <1>8 DEF Inv, Course, Early, Ending
<1>10. Passed'
  BY <1>1 DEF Inv, Passed, RegisterTasks, K8sGroups, AnywhereGroups
<1>11. \A q \in Requests : q # r => route'[q] = route[q] /\ bearer'[q] = bearer[q]
  BY DEF Inv, TypesOfRequests
<1>12. OnlyAuthenticatedExecute'
  BY <1>1, <1>11 DEF Inv, OnlyAuthenticatedExecute, HasCert
<1>13. status[r] = None
  BY <1>1 DEF Inv, Passed
<1>14. \A q \in Requests : route'[q] = "probe" => q = r \/ route[q] = "probe"
  BY <1>11
<1>15. ProbesNeverThrottled'
  BY <1>13, <1>14, SatelliteAssumption DEF Inv, ProbesNeverThrottled
<1> QED
  BY <1>5, <1>6, <1>7, <1>9, <1>10, <1>12, <1>15 DEF Inv

LEMMA RequestInv == ASSUME FiniteRequests, Inv, NEW r \in Requests, Serve(r) PROVE Inv'
<1>0. phase # "exited" /\ UNCHANGED mainVars /\ pc[r] \in Open
  BY DEF Serve, RateLimit, Dispatch, Authenticate, Parse, Lookup, Execute, Recover, Running, Open
<1>1. ASSUME NEW code \in Statuses, Answer(r, code), route[r] = "probe" => code # 429
      PROVE  Inv'
  BY <1>0, <1>1, AnswerInv DEF Answer
<1>2. group[r] \in Groups \cup {None} /\ group = [group EXCEPT ![r] = group[r]]
  BY DEF Inv, TypesOfRequests
<1>3. ASSUME NEW next \in {"route", "auth"}, Goto(r, next), UNCHANGED <<bearer, group>>
      PROVE  Inv'
  BY <1>0, <1>2, <1>3, GotoInv DEF Open
<1>4. CASE RateLimit(r)
  BY <1>1, <1>3, <1>4 DEF RateLimit, Statuses
<1>5. CASE Dispatch(r)
  BY <1>1, <1>3, <1>5 DEF Dispatch, Statuses
<1>6. CASE Authenticate(r)
  <2>1. ASSUME Accepted(r), Goto(r, "parse"), UNCHANGED <<bearer, group>> PROVE Inv'
    <3>1. \/ HasCert
          \/ cfg.spire /\ cfg.jwt /\ bearer[r] = "valid"
          \/ cfg.dev /\ ~(cfg.spire /\ cfg.jwt /\ bearer[r] = "invalid")
      BY <2>1 DEF Accepted
    <3> QED
      BY <1>0, <1>2, <2>1, <3>1, GotoInv DEF Open
  <2> QED
    BY <1>1, <1>6, <2>1 DEF Authenticate, Statuses
<1>7. CASE Parse(r)
  <2>1. pc[r] = "parse"
    BY <1>7 DEF Parse
  <2>2. ASSUME NEW g \in Asked \cup {None}, group' = [group EXCEPT ![r] = g],
               Goto(r, "lookup"), UNCHANGED bearer
        PROVE  Inv'
    <3>1. g \in Groups \cup {None}
      BY SatelliteAssumption
    <3> QED
      BY <1>0, <2>1, <2>2, <3>1, GotoInv DEF Inv, OnlyAuthenticatedExecute, Open
  <2> QED
    BY <1>1, <1>7, <2>2 DEF Parse, Statuses
<1>8. CASE Lookup(r)
  <2>1. pc[r] = "lookup"
    BY <1>8 DEF Lookup
  <2>2. ASSUME group[r] \in registry, Goto(r, "execute"), UNCHANGED <<bearer, group>>
        PROVE  Inv'
    <3>1. registry = RegisterTasks(cfg)
      BY <1>0 DEF Inv, Course, Opened, Ending
    <3> QED
      BY <1>0, <1>2, <2>1, <2>2, <3>1, GotoInv DEF Inv, OnlyAuthenticatedExecute, Open
  <2> QED
    BY <1>1, <1>8, <2>2 DEF Lookup, Statuses
<1>9. CASE Execute(r)
  <2>1. pc[r] = "execute"
    BY <1>9 DEF Execute
  <2>2. ASSUME Goto(r, "panic"), UNCHANGED <<bearer, group>> PROVE Inv'
    BY <1>0, <1>2, <2>1, <2>2, GotoInv DEF Inv, OnlyAuthenticatedExecute, Passed, Open
  <2> QED
    BY <1>1, <1>9, <2>2 DEF Execute, Statuses
<1>10. CASE Recover(r)
  <2>1. PICK code \in Statuses : code = 500
    BY DEF Statuses
  <2>2. code # 429 /\ status' = [status EXCEPT ![r] = code]
    BY <1>10, <2>1 DEF Recover
  <2>3. /\ UNCHANGED mainVars /\ UNCHANGED route /\ Forget(r)
        /\ pc' = [pc EXCEPT ![r] = "done"]
        /\ inFlight' = inFlight - 1 /\ recorded' \in {recorded, recorded + 1}
    BY <1>10 DEF Recover
  <2> QED
    BY <1>0, <2>2, <2>3, AnswerInv
<1> QED
  BY <1>4, <1>5, <1>6, <1>7, <1>8, <1>9, <1>10 DEF Serve

LEMMA NextInv == ASSUME FiniteRequests, Inv, [Next]_vars PROVE Inv'
<1>1. CASE UNCHANGED vars
  <2>1. Opened' = Opened /\ Done' = Done
    BY <1>1 DEF vars, reqVars, Opened, Done
  <2> QED
    BY <1>1, <2>1
       DEF vars, mainVars, reqVars, Inv, TypesOfMain, TypesOfRequests, Course, Passed, Counted,
           OnlyAuthenticatedExecute, ProbesNeverThrottled, HasCert, RegisterTasks, K8sGroups,
           AnywhereGroups
<1> QED
  BY <1>1, ProcessInv, ArriveInv, RequestInv DEF Next

-----------------------------------------------------------------------------
LEMMA Invariance == ASSUME FiniteRequests PROVE Spec => []Inv
<1>1. Init => Inv
  BY InitInv
<1>2. Inv /\ [Next]_vars => Inv'
  BY NextInv
<1> QED
  BY <1>1, <1>2, PTL DEF Spec

\* A request is served only after the start-up, a probe is never throttled, no task
\* runs for a caller who was not authenticated, nor without its flag.
THEOREM RequestsAreSound == ASSUME FiniteRequests PROVE Spec => []RequestsSound
<1>1. Inv => RequestsSound
  BY InvImplies
<1> QED
  BY <1>1, Invariance, PTL

\* The gauge counts the requests in the chain, whichever way they leave it.
THEOREM GaugeIsExact == ASSUME FiniteRequests PROVE Spec => []GaugeCountsOpen
<1>1. Inv => GaugeCountsOpen
  BY InvImplies
<1> QED
  BY <1>1, Invariance, PTL

\* A normal exit cuts off a request only when the grace is over: main() returns from
\* its deferred calls, and by then Shutdown has waited.
THEOREM ExitsGracefully == ASSUME FiniteRequests PROVE Spec => GracefulExit
<1> DEFINE Cut == \A r \in Requests : pc[r] \in Open /\ pc'[r] = "killed" /\ exit' = 0 => expired
<1>1. ASSUME Inv, Next PROVE Cut
  <2> SUFFICES ASSUME NEW r \in Requests, pc[r] \in Open, pc'[r] = "killed", exit' = 0
               PROVE  expired
    OBVIOUS
  <2>1. pc'[r] # pc[r] /\ phase \in {"select"} \cup Ending
    BY <1>1 DEF Open, Inv, Course, Opened
  <2>2. CASE Main
    <3>1. Return
      BY <2>1, <2>2 DEF Main, AwsInit, NewK8sClient, Register, StartSpire, Launch, Shutdown, Drain,
         DrainMetrics, CloseSpire, Exit, reqVars, Ending
    <3> QED
      BY <1>1, <3>1 DEF Return, Inv, Course, Opened
  <2>3. CASE StartServer \/ Expire \/ Signal
    BY <2>1, <2>3 DEF StartServer, MakeServers, Listen, Expire, Signal, reqVars
  <2>4. CASE \E q \in Requests : Arrive(q) \/ Serve(q)
    <3>1. PICK q \in Requests : Arrive(q) \/ Serve(q)
      BY <2>4
    <3>2. \E p \in {"limit", "route", "auth", "parse", "lookup", "execute", "panic", "done"} :
              pc' = [pc EXCEPT ![q] = p]
      BY <3>1 DEF Arrive, Serve, RateLimit, Dispatch, Authenticate, Parse, Lookup, Execute, Recover,
         Answer, Goto
    <3> QED
      BY <1>1, <2>1, <3>2 DEF Inv, TypesOfRequests
  <2>5. CASE ~Running /\ UNCHANGED vars
    BY <2>1, <2>5 DEF vars, reqVars
  <2> QED
    BY <1>1, <2>2, <2>3, <2>4, <2>5 DEF Next
<1>2. Inv /\ [Next]_vars => [Cut]_vars
  BY <1>1
<1> QED
  BY <1>2, Invariance, PTL DEF Spec, GracefulExit
=============================================================================
