------------------------------- MODULE MCQueries -------------------------------
(* Long calls and what surrounds every call: a Logs Insights query, counts of  *)
(* findings, volume usage, a followed log and one read up to a limit, the rate *)
(* limiter and the SPIRE client.  They share nothing: a run is of one of them, *)
(* named by part, and leaves the state of the others alone.                    *)
EXTENDS RateLimiter, LogsQuery, FindingsStatistics, PvUsage, Logs, SpireClient

VARIABLE part

\* Two of the workflow statuses, in the order in which they are asked for.
Workflow == <<"new", "resolved">>

\* The state a part is left in when it is not looked at.
SpireAside ==
    /\ cfg = [domains |-> Domains, allowed |-> {}, mtls |-> FALSE, jwt |-> "off",
              endpoints |-> {}]
    /\ keys = [d \in Domains |-> 1] /\ reachable = {} /\ spirePc = "closed"
    /\ identity = FALSE /\ tokenKeys = FALSE
    /\ bundle = [d \in Domains |-> 1] /\ watching = {} /\ verdicts = Nobody
QueryAside ==
    /\ query = "none" /\ timeout = 1 /\ elapsed = 0 /\ deadline = 0 /\ until = 0
    /\ caller = TRUE /\ verdict = "none" /\ step = "error" /\ stopLost = FALSE
StatsAside ==
    /\ foreign = {} /\ type = [f \in Findings |-> "phishing"]
    /\ status = [f \in Findings |-> "new"] /\ changed = {} /\ mode = "type"
    /\ token = 0 /\ given = 0 /\ asking = 1 /\ calls = 1 /\ statsPc = "error"
    /\ counted = Nothing /\ capped = {} /\ total = [v \in Values |-> 0]
VolumeAside ==
    /\ mounted = [n \in Nodes |-> <<>>] /\ threshold = 0
    /\ at = [n \in Nodes |-> "left"] /\ results = <<>> /\ main = "done"
    /\ report = NoReport
StreamAside ==
    /\ log = <<>> /\ open = FALSE /\ credentials = [tls |-> FALSE, token |-> "none"]
    /\ jwt = FALSE /\ dev = FALSE /\ client = TRUE /\ late = FALSE /\ cancelled = FALSE
    /\ streamPc = "ended" /\ read = 0 /\ lines = <<>>
RateAside ==
    /\ now = MaxTime /\ bucket = NewBucket /\ seen = 0 /\ act = [r \in Requests |-> 0]
    /\ ratePc = [r \in Requests |-> "idle"] /\ sent = 0 /\ credit = 0 /\ told = 0
ReadAside ==
    /\ containers = <<>> /\ chosen = "" /\ bytes = <<>> /\ readPc = "error"
    /\ result = NoResult

QueriesInit ==
    \/ part = "query" /\ QueryInit
         /\ SpireAside /\ StatsAside /\ VolumeAside /\ StreamAside /\ RateAside /\ ReadAside
    \/ part = "statistics" /\ StatsInit
         /\ SpireAside /\ QueryAside /\ VolumeAside /\ StreamAside /\ RateAside /\ ReadAside
    \/ part = "usage" /\ VolumeInit
         /\ SpireAside /\ QueryAside /\ StatsAside /\ StreamAside /\ RateAside /\ ReadAside
    \/ part = "stream" /\ StreamInit
         /\ SpireAside /\ QueryAside /\ StatsAside /\ VolumeAside /\ RateAside /\ ReadAside
    \/ part = "rate" /\ RateInit
         /\ SpireAside /\ QueryAside /\ StatsAside /\ VolumeAside /\ StreamAside /\ ReadAside
    \/ part = "spire" /\ SpireInit
         /\ QueryAside /\ StatsAside /\ VolumeAside /\ StreamAside /\ RateAside /\ ReadAside
    \/ part = "read" /\ ReadInit
         /\ SpireAside /\ QueryAside /\ StatsAside /\ VolumeAside /\ StreamAside /\ RateAside

QueriesNext ==
    /\ UNCHANGED part
    /\ \/ part = "query" /\ QueryNext
            /\ UNCHANGED <<spireVars, statsVars, volumeVars, streamVars, rateVars, readVars>>
       \/ part = "statistics" /\ StatsNext
            /\ UNCHANGED <<spireVars, queryVars, volumeVars, streamVars, rateVars, readVars>>
       \/ part = "usage" /\ VolumeNext
            /\ UNCHANGED <<spireVars, queryVars, statsVars, streamVars, rateVars, readVars>>
       \/ part = "stream" /\ StreamNext
            /\ UNCHANGED <<spireVars, queryVars, statsVars, volumeVars, rateVars, readVars>>
       \/ part = "rate" /\ RateNext
            /\ UNCHANGED <<spireVars, queryVars, statsVars, volumeVars, streamVars, readVars>>
       \/ part = "spire" /\ SpireNext
            /\ UNCHANGED <<queryVars, statsVars, volumeVars, streamVars, rateVars, readVars>>
       \/ part = "read" /\ ReadNext
            /\ UNCHANGED <<spireVars, queryVars, statsVars, volumeVars, streamVars, rateVars>>

\* Each part's own; in a part set aside no fair action can be taken.
QueriesSpec ==
    /\ QueriesInit
    /\ [][QueriesNext]_<<part, spireVars, queryVars, statsVars, volumeVars, streamVars, rateVars,
                       readVars>>
    /\ VolumeFairness /\ StreamFairness /\ SpireFairness

-----------------------------------------------------------------------------
\* Whoever waits is not left waiting: every call of pv_usage gets its report, a stream
\* ends once its client has gone or a line is too late, and a key that an endpoint has
\* come to serve is taken over.
WaitsEnd == UsageEnds /\ StreamsEnd /\ RotationFollowed
=============================================================================
