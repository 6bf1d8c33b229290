------------------------------- MODULE LogStream -------------------------------
(***************************************************************************)
(* GET /logs/stream: one handler follows the log of a container and writes *)
(* every line to its client at once.  It sits in the scanner's read most   *)
(* of the time, where only the end of the log or of the request's context  *)
(* wakes it.  The server cancels that context when it notices that the     *)
(* client has gone or when a write fails, as every write does once the     *)
(* write timeout has passed.                                               *)
(***************************************************************************)
EXTENDS Naturals, Sequences

CONSTANTS MaxLines      \* bound: lines the container writes

ASSUME StreamAssumption == MaxLines \in Nat

VARIABLES
    log,        \* the lines written so far: "short", or "long" (above 1 MiB)
    open,       \* whether the container still runs
    credentials,\* of the request
    jwt, dev,   \* the server validates tokens; it allows unauthenticated requests
    client,     \* whether the client is still there
    late,       \* whether the write timeout has passed
    cancelled,  \* whether the request's context is
    streamPc,
    read,       \* lines the scanner has read
    lines       \* the lines, by number, that went out to the client

streamVars == <<log, open, credentials, jwt, dev, client, late, cancelled, streamPc, read, lines>>
settings == <<jwt, dev, credentials>>

Rejections == {"unauthorized", "no_cluster", "bad_request", "not_found", "failed"}
Over == Rejections \cup {"ended", "too_long"}

StreamTypeOK ==
    /\ log \in Seq({"short", "long"}) /\ Len(log) <= MaxLines
    /\ {open, jwt, dev, client, late, cancelled} \subseteq BOOLEAN
    /\ credentials \in [tls : BOOLEAN, token : {"none", "valid", "invalid"}]
    /\ streamPc \in {"auth", "get", "stream", "scan", "line"} \cup Over
    /\ read \in 0..MaxLines
    /\ lines \in Seq(1..MaxLines)

StreamInit ==
    /\ log = <<>>
    /\ open = TRUE
    /\ credentials \in [tls : BOOLEAN, token : {"none", "valid", "invalid"}]
    /\ jwt \in BOOLEAN /\ dev \in BOOLEAN
    /\ client = TRUE
    /\ late = FALSE
    /\ cancelled = FALSE
    /\ streamPc = "auth"
    /\ read = 0
    /\ lines = <<>>

-----------------------------------------------------------------------------
Outside == UNCHANGED <<log, open, client, late, settings>>

\* A certificate, else a token if tokens are validated, else dev mode; a token
\* that is rejected is not given a second chance.
Admitted ==
    \/ credentials.tls
    \/ jwt /\ credentials.token = "valid"
    \/ dev /\ ~(jwt /\ credentials.token = "invalid")

Authenticate ==
    /\ streamPc = "auth"
    /\ streamPc' \in IF Admitted THEN {"get", "no_cluster", "bad_request"} ELSE {"unauthorized"}
    /\ Outside
    /\ UNCHANGED <<cancelled, read, lines>>

\* The pod is read, for the name of its first container if none was given.
GetPod ==
    /\ streamPc = "get"
    /\ streamPc' \in {"stream", "not_found", "bad_request"}
    /\ Outside
    /\ UNCHANGED <<cancelled, read, lines>>

OpenStream ==
    /\ streamPc = "stream"
    /\ streamPc' \in {"scan", "failed"}
    /\ Outside
    /\ UNCHANGED <<cancelled, read, lines>>

\* The scanner returns a line, or stops at one that does not fit in its buffer.
Scan ==
    /\ streamPc = "scan"
    /\ read < Len(log)
    /\ read' = read + 1
    /\ streamPc' = IF log[read + 1] = "short" THEN "line" ELSE "too_long"
    /\ Outside
    /\ UNCHANGED <<cancelled, lines>>

\* A line is encoded and flushed.  A write that fails cancels the context.
WriteLine ==
    /\ streamPc = "line"
    /\ ~cancelled
    /\ IF client /\ ~late
       THEN lines' = Append(lines, read) /\ UNCHANGED cancelled
       ELSE cancelled' = TRUE /\ UNCHANGED lines
    /\ streamPc' = "scan"
    /\ Outside
    /\ UNCHANGED read

LineCancelled ==
    /\ streamPc = "line"
    /\ cancelled
    /\ streamPc' = "ended"
    /\ Outside
    /\ UNCHANGED <<cancelled, read, lines>>

\* The log was opened with the request's context: its end ends the read.
ReadEnds == cancelled \/ (~open /\ read = Len(log))
ScanEnds ==
    /\ streamPc = "scan"
    /\ ReadEnds
    /\ streamPc' = "ended"
    /\ Outside
    /\ UNCHANGED <<cancelled, read, lines>>

-----------------------------------------------------------------------------
ContainerWrites ==
    /\ open
    /\ Len(log) < MaxLines
    /\ \E line \in {"short", "long"} : log' = Append(log, line)
    /\ UNCHANGED <<open, client, late, settings, cancelled, streamPc, read, lines>>

ContainerStops ==
    /\ open
    /\ open' = FALSE
    /\ UNCHANGED <<log, client, late, settings, cancelled, streamPc, read, lines>>

ClientLeaves ==
    /\ client
    /\ client' = FALSE
    /\ UNCHANGED <<log, open, late, settings, cancelled, streamPc, read, lines>>

ClientNoticed ==
    /\ ~client
    /\ streamPc \notin Over
    /\ ~cancelled
    /\ cancelled' = TRUE
    /\ UNCHANGED <<log, open, client, late, settings, streamPc, read, lines>>

WriteTimeout ==
    /\ ~late
    /\ late' = TRUE
    /\ UNCHANGED <<log, open, client, settings, cancelled, streamPc, read, lines>>

Handler == \/ Authenticate \/ GetPod \/ OpenStream \/ Scan \/ WriteLine \/ LineCancelled
           \/ ScanEnds
StreamEnded == streamPc \in Over /\ UNCHANGED streamVars

StreamNext == \/ Handler \/ ContainerWrites \/ ContainerStops \/ ClientLeaves \/ ClientNoticed
        \/ WriteTimeout \/ StreamEnded

\* The handler goes on when it can, and the server watches the connection of an
\* open request.  Containers may be silent for ever, clients may stay.
StreamFairness == WF_streamVars(Handler) /\ WF_streamVars(ClientNoticed)
StreamSpec == StreamInit /\ [][StreamNext]_streamVars /\ StreamFairness

-----------------------------------------------------------------------------
\* What a client gets is the beginning of the log, without a gap and in order,
\* also when a line is too long, a write fails or the timeout passes.
NoGap == lines = [i \in 1..Len(lines) |-> i] /\ Len(lines) <= read

\* A stream does not outlive its client for good, even if the container never
\* writes another line.
ClientGoneEnds == ~client ~> streamPc \in Over

\* Once the write timeout has passed, the next line ends the stream.
LateLineEnds == late /\ read < Len(log) ~> streamPc \in Over

\* logs/stream: a stream does not outlive its client, or the write timeout and one
\* more line.
StreamsEnd == ClientGoneEnds /\ LateLineEnds
=============================================================================
