------------------------------ MODULE SpireClient ------------------------------
(***************************************************************************)
(* The SPIRE client: it takes this process's identity and the keys that    *)
(* tokens are checked with from the Workload API, or only the keys from a  *)
(* federation endpoint per trust domain.  The endpoints are fetched once   *)
(* at the start and then watched, each by a goroutine, while they rotate   *)
(* their keys, go down and come back.                                      *)
(*                                                                         *)
(* Keys of a domain are numbered in the order in which they come into use; *)
(* a bundle is the newest key in it.  0 is no bundle.                      *)
(***************************************************************************)
EXTENDS Naturals

CONSTANTS
    Domains,        \* trust domains
    Ids,            \* workloads, one of each name per domain
    MaxKeys         \* bound: keys an endpoint comes to serve

\* There is a first key.
ASSUME SpireAssumption == MaxKeys \in Nat \ {0}

\* JWT.BundleSource is only looked at if tokens are validated.
Configs ==
    [domains : SUBSET Domains, allowed : SUBSET (Domains \X Ids), mtls : BOOLEAN,
     jwt : {"off", "workload_api", "federation"}, endpoints : SUBSET Domains]

VARIABLES
    cfg,        \* the configuration; allowed = {} is an absent list
    keys,       \* the key each domain's endpoint serves
    reachable,  \* the endpoints that answer
    spirePc,         \* "off", "x509", "jwt", "up", "failed", or "closed"
    identity,   \* the X509Source
    tokenKeys,  \* jwtSource is set
    bundle,     \* the bundles it holds
    watching,   \* domains whose watcher runs
    verdicts    \* the last peer: whom it was, and if it was let in

spireVars == <<cfg, keys, reachable, spirePc, identity, tokenKeys, bundle, watching, verdicts>>

Nobody == [domain |-> "none", id |-> "none", accepted |-> FALSE]

SpireTypeOK ==
    /\ cfg \in Configs
    /\ keys \in [Domains -> 1..MaxKeys]
    /\ reachable \subseteq Domains
    /\ spirePc \in {"off", "x509", "jwt", "up", "failed", "closed"}
    /\ {identity, tokenKeys} \subseteq BOOLEAN
    /\ bundle \in [Domains -> 0..MaxKeys]
    /\ watching \subseteq Domains
    /\ verdicts = Nobody \/ verdicts \in [domain : Domains, id : Ids, accepted : BOOLEAN]

Federated(c) == c.jwt = "federation"

\* Config.Validate, of a client that is enabled.
Validate(c) ==
    /\ c.domains # {}
    /\ Federated(c) => ~c.mtls /\ c.endpoints # {} /\ c.domains \subseteq c.endpoints

SpireInit ==
    /\ cfg \in {c \in Configs : Validate(c)}
    /\ keys = [d \in Domains |-> 1]
    /\ reachable \in SUBSET Domains
    /\ spirePc = "off"
    /\ identity = FALSE
    /\ tokenKeys = FALSE
    /\ bundle = [d \in Domains |-> 0]
    /\ watching = {}
    /\ verdicts = Nobody

-----------------------------------------------------------------------------
World == UNCHANGED <<cfg, keys, reachable>>

Begin ==
    /\ spirePc = "off"
    /\ spirePc' = IF cfg.mtls THEN "x509" ELSE "jwt"
    /\ World
    /\ UNCHANGED <<identity, tokenKeys, bundle, watching, verdicts>>

\* NewX509Source waits for an identity.
StartX509 ==
    /\ spirePc = "x509"
    /\ \/ identity' = TRUE /\ spirePc' = "jwt"
       \/ identity' \in BOOLEAN /\ spirePc' = "failed"
    /\ World
    /\ UNCHANGED <<tokenKeys, bundle, watching, verdicts>>

\* NewJWTSource fetches the bundles of this domain and those federated with it;
\* the agent keeps them up to date.
StartJwtAgent ==
    /\ spirePc = "jwt"
    /\ cfg.jwt = "workload_api"
    /\ \/ tokenKeys' = TRUE /\ spirePc' = "up" /\ bundle' \in {[d \in Domains |->
              IF d \in f THEN keys[d] ELSE 0] : f \in SUBSET Domains}
       \/ spirePc' = "failed" /\ UNCHANGED <<tokenKeys, bundle>>
    /\ World
    /\ UNCHANGED <<identity, watching, verdicts>>

\* One endpoint after the other, in any order, is fetched and watched from then
\* on.  One that does not answer ends the start; the watchers there are go on.
Fetch(d) ==
    /\ spirePc = "jwt"
    /\ Federated(cfg)
    /\ d \in cfg.endpoints \ watching
    /\ IF d \in reachable
       THEN /\ bundle' = [bundle EXCEPT ![d] = keys[d]]
            /\ watching' = watching \cup {d}
            /\ UNCHANGED spirePc
       ELSE spirePc' = "failed" /\ UNCHANGED <<bundle, watching>>
    /\ World
    /\ UNCHANGED <<identity, tokenKeys, verdicts>>

\* Mutant of Started: the source is set when the first endpoint has been fetched.
StartedEarly ==
    /\ spirePc = "jwt"
    /\ \/ cfg.jwt = "off" /\ UNCHANGED tokenKeys
       \/ Federated(cfg) /\ watching # {} /\ tokenKeys' = TRUE
    /\ spirePc' = "up"
    /\ World
    /\ UNCHANGED <<identity, bundle, watching, verdicts>>

\* Start returns; with federation the source is set when all have been fetched.
Started ==
    /\ spirePc = "jwt"
    /\ \/ cfg.jwt = "off" /\ UNCHANGED tokenKeys
       \/ Federated(cfg) /\ watching = cfg.endpoints /\ tokenKeys' = TRUE
    /\ spirePc' = "up"
    /\ World
    /\ UNCHANGED <<identity, bundle, watching, verdicts>>

\* OnError: only logged.
WatchError(d) ==
    /\ d \in watching \ reachable
    /\ UNCHANGED spireVars

\* OnUpdate
WatchUpdate(d) ==
    /\ d \in watching \cap reachable
    /\ bundle' = [bundle EXCEPT ![d] = keys[d]]
    /\ World
    /\ UNCHANGED <<spirePc, identity, tokenKeys, watching, verdicts>>

\* Close releases the Workload API's sources; main cancels the context of the
\* watchers right after it.
Close ==
    /\ spirePc = "up"
    /\ spirePc' = "closed"
    /\ watching' = {}
    /\ World
    /\ UNCHANGED <<identity, tokenKeys, bundle, verdicts>>

-----------------------------------------------------------------------------
IsIdAllowed(d, i) == cfg.allowed = {} \/ <<d, i>> \in cfg.allowed
IsTrustDomainAllowed(d) == d \in cfg.domains

\* ValidateJWTToken, for an unexpired token that names an audience of ours and is
\* signed with key k of domain d.
TokenAccepted(d, i, k) ==
    tokenKeys /\ k = bundle[d] /\ IsTrustDomainAllowed(d) /\ IsIdAllowed(d, i)

\* What crypto/tls passes to VerifyPeerCertificate for a server that requests
\* certificates but leaves their verification to the callback, as go-spiffe's
\* MTLSServerConfig does: no chain.
VerifiedChains == {}

\* GetTLSConfig: the trust domains, and the allowed IDs looked for in the chain.
PeerAccepted(d, i) ==
    /\ identity
    /\ d \in cfg.domains
    /\ cfg.allowed # {} => <<d, i>> \in VerifiedChains /\ IsIdAllowed(d, i)

\* A client connects with an identity of its domain.
Handshake(d, i) ==
    /\ spirePc = "up"
    /\ cfg.mtls
    /\ verdicts' = [domain |-> d, id |-> i, accepted |-> PeerAccepted(d, i)]
    /\ World
    /\ UNCHANGED <<spirePc, identity, tokenKeys, bundle, watching>>

\* HealthCheck
Healthy ==
    /\ cfg.mtls => identity
    /\ cfg.jwt # "off" => tokenKeys /\ \A d \in cfg.domains : bundle[d] # 0

-----------------------------------------------------------------------------
Rotate(d) ==
    /\ keys[d] < MaxKeys
    /\ keys' = [keys EXCEPT ![d] = @ + 1]
    /\ UNCHANGED <<cfg, reachable, spirePc, identity, tokenKeys, bundle, watching, verdicts>>

GoesDown(d) ==
    /\ d \in reachable
    /\ reachable' = reachable \ {d}
    /\ UNCHANGED <<cfg, keys, spirePc, identity, tokenKeys, bundle, watching, verdicts>>

ComesUp(d) ==
    /\ d \notin reachable
    /\ reachable' = reachable \cup {d}
    /\ UNCHANGED <<cfg, keys, spirePc, identity, tokenKeys, bundle, watching, verdicts>>

SpireNext ==
    \/ Begin \/ StartX509 \/ StartJwtAgent \/ Started \/ Close
    \/ \E d \in Domains : \/ Fetch(d) \/ WatchUpdate(d) \/ WatchError(d)
                          \/ Rotate(d) \/ GoesDown(d) \/ ComesUp(d)
    \/ \E d \in Domains, i \in Ids : Handshake(d, i)
    \/ spirePc \in {"failed", "closed"} /\ UNCHANGED spireVars

\* A watcher asks again at every refresh: an endpoint that is reachable again and
\* again is fetched in the end.
SpireFairness == \A d \in Domains : SF_spireVars(WatchUpdate(d))
SpireSpec == SpireInit /\ [][SpireNext]_spireVars /\ SpireFairness

-----------------------------------------------------------------------------
\* "a transient endpoint outage must not blank out already-trusted key material":
\* a bundle is never dropped or replaced by an older one.
OutageKeepsKeys == [][\A d \in Domains : bundle'[d] >= bundle[d]]_spireVars

\* A client in federation mode that has started is healthy from then on, whatever
\* happens to the endpoints.
StaysHealthy == spirePc = "up" /\ Federated(cfg) => Healthy

\* A token or a certificate is accepted only for a workload of a configured trust
\* domain that is on the list, if there is one, and a token only if its key is one
\* its domain has used.
AdmittedAreAllowed ==
    /\ \A d \in Domains, i \in Ids, k \in 1..MaxKeys : TokenAccepted(d, i, k) =>
           d \in cfg.domains /\ k \in 1..keys[d] /\ (cfg.allowed = {} \/ <<d, i>> \in cfg.allowed)
    /\ verdicts.accepted => verdicts.domain \in cfg.domains
           /\ (cfg.allowed = {} \/ <<verdicts.domain, verdicts.id>> \in cfg.allowed)

\* The SPIRE client: only peers and tokens of the domains and ids configured are
\* admitted, and of keys it has; an outage of an endpoint takes no key away, and a
\* client that has started stays healthy.
PeersKnown == [](SpireTypeOK /\ StaysHealthy /\ AdmittedAreAllowed) /\ OutageKeepsKeys

\* After a rotation the new key is taken over as long as the endpoint is not down
\* for good.
RotationFollowed ==
    \A d \in Domains :
        []<>(bundle[d] = keys[d] \/ d \notin watching \/ d \notin reachable)
=============================================================================
