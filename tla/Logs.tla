--------------------------------- MODULE Logs ---------------------------------
(* The two ways to a container's log: followed by GET /logs/stream, and read    *)
(* up to a limit by get_logs.                                                   *)
EXTENDS LogStream, LogRead

\* The client gets the beginning of the log without a gap; a log that is cut at the
\* limit ends with a whole character and is said to be cut.
LogsWhole == StreamTypeOK /\ NoGap /\ ReadTypeOK /\ CutHonestly
=============================================================================
