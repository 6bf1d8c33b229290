------------------------------- MODULE Satellite -------------------------------
(***************************************************************************)
(* The satellite process from main() to its exit: start-up in main's order,*)
(* the task registry that the feature flags build, the HTTP server's       *)
(* middleware chain and handlers for concurrent requests, and the graceful *)
(* shutdown.  Tasks are abstracted to the group they are registered with;  *)
(* what a task does is the subject of the other modules.  The log stream   *)
(* endpoint is LogStream's.                                                *)
(***************************************************************************)
EXTENDS Integers, FiniteSets

CONSTANTS
    Requests,   \* HTTP requests that may arrive
    Flaggable,  \* bound: the feature flags a run varies; the others are off
    Asked,      \* bound: the groups of the tasks that requests name
    None

\* The groups registerTasks registers behind a flag, by where they can run.
K8sFeatures == {"get_resource", "helm_application_write", "workload_restart",
                "workload_scale", "pod_evict", "pod_resize", "nodeclaim_delete",
                "argocd", "pv_resize"}
AnywhereFeatures == {"http_request", "cloudwatch_rca", "guardduty", "securityhub",
                     "securityhub_write", "cloudtrail", "aws_read"}
Features == K8sFeatures \cup AnywhereFeatures

BaseGroups == {"account_info", "network", "k8s_read", "running_image_vulnerabilities"}
Groups == Features \cup BaseGroups

ASSUME SatelliteAssumption ==
    /\ Flaggable \subseteq Features
    /\ Asked \subseteq Groups
    /\ None \notin Groups \cup Requests
    /\ None \notin 100..599     \* no HTTP status

VARIABLES
    cfg,       \* the configuration that Load returned
    phase,     \* where main() is
    exit,      \* how the process ended
    registry,  \* groups in the task registry
    spire,     \* the SPIRE client: "off", "up", "closed"
    server,    \* the main http.Server, as Start and Shutdown see it
    failed,    \* serverErrors: srv.Start has returned an error
    signal,    \* SIGINT or SIGTERM was sent
    expired,   \* the 30 s shutdown context has expired
    pc,        \* where a request is
    route,     \* a request's path
    bearer,    \* its Authorization header
    group,     \* the group of the task it executes
    status,    \* the HTTP status it was answered with
    inFlight,  \* the HTTPRequestsInFlight gauge
    recorded   \* requests counted by RecordHTTPRequest

mainVars == <<cfg, phase, exit, registry, spire, server, failed, signal, expired>>
reqVars == <<pc, route, bearer, group, status, inFlight, recorded>>
vars == <<mainVars, reqVars>>

Configs == [flags: SUBSET Flaggable, awsOnly: BOOLEAN, creds: BOOLEAN, dev: BOOLEAN,
            spire: BOOLEAN, mtls: BOOLEAN, jwt: BOOLEAN, federation: BOOLEAN]
Phases == {"aws", "k8s", "register", "spire", "launch", "select", "drain",
           "drain_metrics", "defers", "exited"}
Routes == {"task", "tasks", "version", "info", "probe", "other"}
Open == {"limit", "route", "auth", "parse", "lookup", "execute", "panic"}
Statuses == {200, 400, 401, 404, 405, 429, 500, 503}

TypeOK ==
    /\ cfg \in Configs
    /\ phase \in Phases
    /\ exit \in {None, 0, 1, 2}
    /\ registry \subseteq Groups
    /\ spire \in {"off", "up", "closed"}
    /\ server \in {"nil", "new", "listening", "closed"}
    /\ failed \in BOOLEAN /\ signal \in BOOLEAN /\ expired \in BOOLEAN
    /\ pc \in [Requests -> {"idle", "killed", "done"} \cup Open]
    /\ route \in [Requests -> Routes]
    /\ bearer \in [Requests -> {"none", "valid", "invalid"}]
    /\ group \in [Requests -> Groups \cup {None}]
    /\ status \in [Requests -> Statuses \cup {None}]
    /\ inFlight \in 0..Cardinality(Requests)
    /\ recorded \in 0..Cardinality(Requests)

-----------------------------------------------------------------------------
\* Config.Validate of config and spire: some way to authenticate must be
\* configured, and federation has no X.509 identity for mTLS.
Valid(c) ==
    /\ c.spire \/ c.dev
    /\ c.spire /\ c.jwt /\ c.federation => ~c.mtls

\* Registered only with a Kubernetes client, each but the reads behind its flag.
K8sGroups(c) ==
    IF c.awsOnly THEN {} ELSE {"k8s_read"} \cup (c.flags \cap K8sFeatures)

\* Registered with or without a cluster, each behind its flag;
\* running_image_vulnerabilities needs the cluster and Security Hub's flag.
AnywhereGroups(c) ==
    (c.flags \cap AnywhereFeatures)
      \cup (IF "securityhub" \in c.flags /\ ~c.awsOnly
            THEN {"running_image_vulnerabilities"} ELSE {})

\* The registry that registerTasks builds.
RegisterTasks(c) ==
    {"network"}
      \cup (IF c.awsOnly \/ c.creds THEN {"account_info"} ELSE {})
      \cup K8sGroups(c) \cup AnywhereGroups(c)

Init ==
    /\ cfg \in {c \in Configs : Valid(c)}
    /\ phase = "aws"
    /\ exit = None
    /\ registry = {}
    /\ spire = "off"
    /\ server = "nil"
    /\ failed = FALSE /\ signal = FALSE /\ expired = FALSE
    /\ pc = [r \in Requests |-> "idle"]
    /\ route = [r \in Requests |-> "other"]
    /\ bearer = [r \in Requests |-> "none"]
    /\ group = [r \in Requests |-> None]
    /\ status = [r \in Requests |-> None]
    /\ inFlight = 0
    /\ recorded = 0

-----------------------------------------------------------------------------
\* The process ends: its goroutines, and with them the open requests, die.
Exit(code) ==
    /\ phase' = "exited"
    /\ exit' = code
    /\ pc' = [r \in Requests |-> IF pc[r] \in Open THEN "killed" ELSE pc[r]]
    /\ UNCHANGED <<route, bearer, group, status, inFlight, recorded>>

\* awshelper.Init and, unless that put the satellite in AWS-only mode,
\* k8s.NewClient; either failing ends the process.
AwsInit ==
    /\ phase = "aws"
    /\ \/ phase' = "k8s" /\ UNCHANGED <<exit, reqVars>>
       \/ cfg.awsOnly /\ Exit(1)
    /\ UNCHANGED <<cfg, registry, spire, server, failed, signal, expired>>

NewK8sClient ==
    /\ phase = "k8s"
    /\ \/ phase' = "register" /\ UNCHANGED <<exit, reqVars>>
       \/ ~cfg.awsOnly /\ Exit(1)
    /\ UNCHANGED <<cfg, registry, spire, server, failed, signal, expired>>

Register ==
    /\ phase = "register"
    /\ registry' = RegisterTasks(cfg)
    /\ phase' = "spire"
    /\ UNCHANGED <<cfg, exit, spire, server, failed, signal, expired, reqVars>>

StartSpire ==
    /\ phase = "spire"
    /\ \/ /\ phase' = "launch"
          /\ spire' = IF cfg.spire THEN "up" ELSE "off"
          /\ UNCHANGED <<exit, reqVars>>
       \/ cfg.spire /\ Exit(1) /\ UNCHANGED spire
    /\ UNCHANGED <<cfg, registry, server, failed, signal, expired>>

\* "go func() { serverErrors <- srv.Start(ctx) }()" and signal.Notify.
Launch ==
    /\ phase = "launch"
    /\ phase' = "select"
    /\ UNCHANGED <<cfg, exit, registry, spire, server, failed, signal, expired, reqVars>>

\* The goroutine's Start: the two http.Servers are made, then the main one
\* listens (directly or behind the mTLS listener) and serves, unless the port
\* or the listener fails or Shutdown came first.
MakeServers ==
    /\ phase = "select" /\ server = "nil"
    /\ server' = "new"
    /\ UNCHANGED <<cfg, phase, exit, registry, spire, failed, signal, expired, reqVars>>

Listen ==
    /\ phase # "exited" /\ server = "new"
    /\ \/ server' = "listening" /\ UNCHANGED failed
       \/ failed' = TRUE /\ UNCHANGED server
    /\ ~failed
    /\ UNCHANGED <<cfg, phase, exit, registry, spire, signal, expired, reqVars>>

\* SIGINT or SIGTERM; before signal.Notify it would just end the process.
Signal ==
    /\ phase = "select" /\ ~signal
    /\ signal' = TRUE
    /\ UNCHANGED <<cfg, phase, exit, registry, spire, server, failed, expired, reqVars>>

\* main's select, then srv.Shutdown: s.main.Shutdown closes the listener.  A
\* Start that has not made the servers yet leaves a nil *http.Server to call, which
\* panics (exit status 2).
Shutdown ==
    /\ phase = "select" /\ (signal \/ failed)
    /\ \/ /\ server # "nil"
          /\ phase' = "drain"
          /\ server' = "closed"
          /\ UNCHANGED <<exit, reqVars>>
       \/ /\ server = "nil"
          /\ Exit(2)
          /\ UNCHANGED server
    /\ UNCHANGED <<cfg, registry, spire, failed, signal, expired>>

\* Mutant of Drain: Close instead of Shutdown.
DrainNothing ==
    /\ phase = "drain"
    /\ phase' = "drain_metrics"
    /\ UNCHANGED <<cfg, exit, registry, spire, server, failed, signal, expired, reqVars>>

\* Another one: Shutdown with a context that does not expire.
DrainForever ==
    /\ phase = "drain"
    /\ \A r \in Requests : pc[r] \notin Open
    /\ phase' = "drain_metrics"
    /\ UNCHANGED <<cfg, exit, registry, spire, server, failed, signal, expired, reqVars>>

\* s.main.Shutdown returns when every request is answered or the 30 s are over.
Drain ==
    /\ phase = "drain"
    /\ expired \/ \A r \in Requests : pc[r] \notin Open
    /\ phase' = "drain_metrics"
    /\ UNCHANGED <<cfg, exit, registry, spire, server, failed, signal, expired, reqVars>>

\* s.mux.Shutdown, on what is left of the same 30 s.
DrainMetrics ==
    /\ phase = "drain_metrics"
    /\ phase' = "defers"
    /\ UNCHANGED <<cfg, exit, registry, spire, server, failed, signal, expired, reqVars>>

Expire ==
    /\ phase \in {"drain", "drain_metrics"} /\ ~expired
    /\ expired' = TRUE
    /\ UNCHANGED <<cfg, phase, exit, registry, spire, server, failed, signal, reqVars>>

\* main's deferred calls close the SPIRE client; Shutdown always returned nil.
CloseSpire ==
    /\ phase = "defers" /\ spire = "up"
    /\ spire' = "closed"
    /\ UNCHANGED <<cfg, phase, exit, registry, server, failed, signal, expired, reqVars>>

Return ==
    /\ phase = "defers" /\ spire # "up"
    /\ Exit(0)
    /\ UNCHANGED <<cfg, registry, spire, server, failed, signal, expired>>

-----------------------------------------------------------------------------
Running == phase # "exited"

Forget(r) ==
    /\ bearer' = [bearer EXCEPT ![r] = "none"]
    /\ group' = [group EXCEPT ![r] = None]

\* The status is written and the chain unwinds: MetricsMiddleware counts the
\* request and its deferred Dec lowers the gauge.  Nothing is kept of it.
Answer(r, code) ==
    /\ pc' = [pc EXCEPT ![r] = "done"]
    /\ status' = [status EXCEPT ![r] = code]
    /\ inFlight' = inFlight - 1
    /\ recorded' = recorded + 1
    /\ Forget(r)
    /\ UNCHANGED route

Goto(r, next) ==
    /\ pc' = [pc EXCEPT ![r] = next]
    /\ UNCHANGED <<route, status, inFlight, recorded>>

\* A request on an accepted connection enters the middleware chain.
Arrive(r) ==
    /\ Running /\ server = "listening" /\ pc[r] = "idle"
    /\ \E p \in Routes, b \in {"none", "valid", "invalid"} :
         /\ route' = [route EXCEPT ![r] = p]
         /\ bearer' = [bearer EXCEPT ![r] = b]
    /\ pc' = [pc EXCEPT ![r] = "limit"]
    /\ inFlight' = inFlight + 1
    /\ UNCHANGED <<mainVars, group, status, recorded>>

\* RateLimitMiddleware (module RateLimiter): 429, except for the probes.
RateLimit(r) ==
    /\ Running /\ pc[r] = "limit"
    /\ \/ Goto(r, "route") /\ UNCHANGED <<bearer, group>>
       \/ route[r] # "probe" /\ Answer(r, 429)
    /\ UNCHANGED mainVars

\* The mux: HandleInfo and the probes answer without authentication; a task
\* must be a POST with a readable body.
Dispatch(r) ==
    /\ Running /\ pc[r] = "route"
    /\ \/ route[r] \in {"task", "tasks", "version"}
          /\ Goto(r, "auth") /\ UNCHANGED <<bearer, group>>
       \/ route[r] = "task" /\ (Answer(r, 405) \/ Answer(r, 400))
       \/ route[r] = "info" /\ Answer(r, 200)
       \/ route[r] = "other" /\ Answer(r, 404)
       \/ route[r] = "probe" /\ Answer(r, 200)
       \/ route[r] = "probe" /\ spire # "off" /\ Answer(r, 503)
    /\ UNCHANGED mainVars

\* The mTLS listener has verified a client certificate.
HasCert == cfg.spire /\ cfg.mtls

\* Mutant of Accepted: dev mode also forgives a rejected token.
AcceptedInDev(r) ==
    \/ HasCert
    \/ cfg.spire /\ cfg.jwt /\ bearer[r] = "valid" /\ spire = "up"
    \/ cfg.dev

\* authenticate: mTLS first, then a bearer token if JWT is on, then dev mode.
Accepted(r) ==
    \/ HasCert
    \/ /\ ~HasCert /\ cfg.spire /\ cfg.jwt
       /\ bearer[r] = "valid" /\ spire = "up"
    \/ /\ ~HasCert /\ ~(cfg.spire /\ cfg.jwt /\ bearer[r] # "none")
       /\ cfg.dev

\* requireAuth, and what HandleTask, HandleListTasks and HandleVersion do next.
Authenticate(r) ==
    /\ Running /\ pc[r] = "auth"
    /\ \/ Accepted(r) /\ route[r] = "task"
          /\ Goto(r, "parse") /\ UNCHANGED <<bearer, group>>
       \/ Accepted(r) /\ route[r] # "task" /\ Answer(r, 200)
       \/ ~Accepted(r) /\ Answer(r, 401)
    /\ UNCHANGED mainVars

\* ParseRequest; the task type names a group of this program, or none.
Parse(r) ==
    /\ Running /\ pc[r] = "parse"
    /\ \/ Answer(r, 400)
       \/ \E g \in Asked \cup {None} :
            /\ group' = [group EXCEPT ![r] = g]
            /\ Goto(r, "lookup")
            /\ UNCHANGED bearer
    /\ UNCHANGED mainVars

\* registry.Execute: an empty type is an error, an unregistered one is 404.
Lookup(r) ==
    /\ Running /\ pc[r] = "lookup"
    /\ \/ group[r] = None /\ Answer(r, 500)
       \/ group[r] \notin registry /\ Answer(r, 404)
       \/ group[r] \in registry
          /\ Goto(r, "execute") /\ UNCHANGED <<bearer, group>>
    /\ UNCHANGED mainVars

\* The task returns a result (200, successful or not) or an error (500), or
\* it panics.
Execute(r) ==
    /\ Running /\ pc[r] = "execute"
    /\ \/ Answer(r, 200) \/ Answer(r, 500)
       \/ Goto(r, "panic") /\ UNCHANGED <<bearer, group>>
    /\ UNCHANGED mainVars

\* Mutant of Recover: the gauge is lowered after the handler, not deferred.
RecoverLate(r) ==
    /\ Running /\ pc[r] = "panic"
    /\ pc' = [pc EXCEPT ![r] = "done"]
    /\ status' = [status EXCEPT ![r] = 500]
    /\ Forget(r)
    /\ UNCHANGED <<mainVars, route, recorded, inFlight>>

\* The panic runs the deferred Dec, skips RecordHTTPRequest, and ends in
\* RecoveryMiddleware, the outermost of the chain.
Recover(r) ==
    /\ Running /\ pc[r] = "panic"
    /\ pc' = [pc EXCEPT ![r] = "done"]
    /\ status' = [status EXCEPT ![r] = 500]
    /\ inFlight' = inFlight - 1
    /\ Forget(r)
    /\ UNCHANGED <<mainVars, route, recorded>>

-----------------------------------------------------------------------------
Serve(r) ==
    \/ RateLimit(r) \/ Dispatch(r) \/ Authenticate(r) \/ Parse(r) \/ Lookup(r)
    \/ Execute(r) \/ Recover(r)

Main ==
    \/ AwsInit \/ NewK8sClient \/ Register \/ StartSpire \/ Launch
    \/ Shutdown \/ Drain \/ DrainMetrics \/ CloseSpire \/ Return

StartServer == MakeServers \/ Listen

Next ==
    \/ Main \/ StartServer \/ Expire \/ Signal
    \/ \E r \in Requests : Arrive(r) \/ Serve(r)
    \/ ~Running /\ UNCHANGED vars

\* Goroutines keep running and the clock advances; requests and signals need
\* not come, and a task that executes may take for ever.
Spec ==
    /\ Init /\ [][Next]_vars
    /\ WF_vars(Main) /\ WF_vars(StartServer) /\ WF_vars(Expire)

-----------------------------------------------------------------------------
\* A task of an optional group executes only on a satellite whose flag for it
\* is on, and a Kubernetes one only on a satellite with a cluster: the flags
\* at start-up are the only guard of the write tasks.
FlagsGuardTasks ==
    \A r \in Requests : pc[r] \in {"execute", "panic"} =>
        /\ group[r] \in Features => group[r] \in cfg.flags
        /\ group[r] \in K8sFeatures \cup {"k8s_read"} => ~cfg.awsOnly

\* No task runs for a caller who was not authenticated; a bearer token that
\* was rejected is not forgiven by dev mode, only by a client certificate.
OnlyAuthenticatedExecute ==
    \A r \in Requests : pc[r] \in {"parse", "lookup", "execute", "panic"} =>
        \/ HasCert
        \/ cfg.spire /\ cfg.jwt /\ bearer[r] = "valid"
        \/ cfg.dev /\ ~(cfg.spire /\ cfg.jwt /\ bearer[r] = "invalid")

\* Requests are only served by a satellite that completed its start-up: with
\* the tasks its configuration asks for and the SPIRE client it authenticates
\* callers with.
ServesWhenReady ==
    (\E r \in Requests : pc[r] \in Open) =>
        /\ registry = RegisterTasks(cfg)
        /\ cfg.spire => spire # "off"
        /\ spire = "closed" => expired

\* The in-flight gauge counts the requests in the chain, on every way out of it.
GaugeCountsOpen ==
    Running => inFlight = Cardinality({r \in Requests : pc[r] \in Open})

\* A probe is never answered 429, whatever the load: kubelet would kill the pod.
ProbesNeverThrottled ==
    \A r \in Requests : route[r] = "probe" => status[r] # 429

\* What a request has passed when it gets further: a start-up that is complete, a
\* limiter that lets probes through, authentication, and the flag of its task.
RequestsSound ==
    /\ TypeOK
    /\ ServesWhenReady /\ ProbesNeverThrottled /\ OnlyAuthenticatedExecute /\ FlagsGuardTasks

\* A normal exit cuts off a request only when the 30 s of grace are over.
GracefulExit ==
    [][\A r \in Requests : pc[r] \in Open /\ pc'[r] = "killed" /\ exit' = 0
         => expired]_vars

\* A signal that main has subscribed to always ends the process, even when
\* tasks never return.
SignalEnds == signal ~> phase = "exited"

\* A signal is answered with a graceful shutdown: the process does not crash.
SignalNeverCrashes == exit # 2

=============================================================================
