------------------------------- MODULE LogRead -------------------------------
(* get_logs: the end of a container's log, read up to a limit, cut at a whole  *)
(* character if there was more, and counted in lines.  Bytes are abstracted to  *)
(* what UTF-8 and lines tell apart; all characters of more than one byte have   *)
(* three here: a lead byte and two continuation bytes.                          *)
EXTENDS Integers, Sequences, FiniteSets

CONSTANTS
    Containers,     \* names a pod may give its containers
    MaxLogBytes,
    MaxStream       \* bound: bytes of a log

\* maxLogBytes and the length of what is read are sizes.
ASSUME ReadAssumption == MaxLogBytes \in Nat /\ MaxStream \in Nat

VARIABLES
    containers,       \* the names of the pod's containers, in order
    chosen,     \* the container read
    bytes,     \* what the kubelet sends of its log
    readPc,
    result

readVars == <<containers, chosen, bytes, readPc, result>>

Bytes == {"newline", "ascii", "lead", "more"}
Strings == UNION {[1..n -> Bytes] : n \in 0..MaxStream}
Specs == UNION {[1..n -> Containers] : n \in 0..2}
NoResult == [container |-> "", lines |-> 0, truncated |-> FALSE, logs |-> <<>>]

-----------------------------------------------------------------------------
\* utf8.Valid: every lead byte has its two continuation bytes, and those no other.
Lead(s, i) == i \in DOMAIN s /\ s[i] = "lead"
Valid(s) ==
    /\ \A i \in DOMAIN s : s[i] = "lead" =>
           i + 2 <= Len(s) /\ s[i + 1] = "more" /\ s[i + 2] = "more"
    /\ \A i \in DOMAIN s : s[i] = "more" => Lead(s, i - 1) \/ Lead(s, i - 2)

Prefix(s, n) == SubSeq(s, 1, n)

\* Mutant of ReadAll: no more is read than is kept.
ReadAllExact(s) == IF Len(s) > MaxLogBytes THEN Prefix(s, MaxLogBytes) ELSE s

\* io.ReadAll of a LimitReader: one byte more than is kept.
ReadAll(s) == IF Len(s) > MaxLogBytes + 1 THEN Prefix(s, MaxLogBytes + 1) ELSE s

Truncated(s) == Len(s) > MaxLogBytes

\* Bytes are dropped from the end of what is too long until the rest is valid: the
\* longest valid prefix is left, all of it dropped if a byte before is not.
Kept(s) ==
    IF ~Truncated(s) THEN s
    ELSE Prefix(s, CHOOSE n \in 0..MaxLogBytes :
                       /\ Valid(Prefix(s, n))
                       /\ \A m \in (n + 1)..MaxLogBytes : ~Valid(Prefix(s, m)))

\* Newlines, and one for a last line that has none.
Lines(s) == Cardinality({i \in DOMAIN s : s[i] = "newline"})
            + (IF s # <<>> /\ s[Len(s)] # "newline" THEN 1 ELSE 0)

-----------------------------------------------------------------------------
\* The pod is read for the name of its first container, if none is given.
ReadPod ==
    /\ readPc = "start"
    /\ \/ readPc' = "error" /\ UNCHANGED chosen
       \/ \E c \in Containers : chosen' = c /\ readPc' = "open"
       \/ containers = <<>> /\ readPc' = "error" /\ UNCHANGED chosen
       \/ containers # <<>> /\ chosen' = containers[1] /\ readPc' = "open"
    /\ UNCHANGED <<containers, bytes, result>>

\* Between the two requests the pod may be recreated.
Recreate ==
    /\ readPc = "open"
    /\ containers' \in Specs
    /\ UNCHANGED <<chosen, bytes, readPc, result>>

\* A container the pod does not have, one with no previous instance, or any other
\* error ends the call.
OpenLog ==
    /\ readPc = "open"
    /\ \/ readPc' = "error" /\ UNCHANGED bytes
       \/ /\ \E i \in DOMAIN containers : containers[i] = chosen
          /\ bytes' \in Strings /\ readPc' = "read"
    /\ UNCHANGED <<containers, chosen, result>>

ReadLog ==
    /\ readPc = "read"
    /\ \/ readPc' = "error" /\ UNCHANGED result
       \/ /\ LET s == ReadAll(bytes) IN
              result' = [container |-> chosen, truncated |-> Truncated(s),
                         logs |-> Kept(s), lines |-> Lines(Kept(s))]
          /\ readPc' = "done"
    /\ UNCHANGED <<containers, chosen, bytes>>

ReadEnded == readPc \in {"done", "error"} /\ UNCHANGED readVars

ReadInit ==
    /\ containers \in Specs
    /\ chosen = "" /\ bytes = <<>> /\ readPc = "start" /\ result = NoResult

ReadNext == ReadPod \/ Recreate \/ OpenLog \/ ReadLog \/ ReadEnded

ReadSpec == ReadInit /\ [][ReadNext]_readVars

-----------------------------------------------------------------------------
\* The variables have their types.
ReadTypeOK ==
    /\ containers \in Specs
    /\ chosen \in Containers \cup {""} /\ bytes \in Strings
    /\ readPc \in {"start", "open", "read", "done", "error"}
    /\ result.truncated \in BOOLEAN /\ result.lines \in Nat /\ result.logs \in Strings

\* get_logs: what is left of a log without invalid bytes is as much of it as the limit
\* admits in whole characters, it is said to be truncated exactly if it is not all,
\* and no line of it is split but the one the limit falls into.
CutHonestly ==
    readPc = "done" /\ Valid(bytes) =>
        LET n == Len(result.logs) IN
        /\ result.logs = Prefix(bytes, n) /\ Valid(result.logs)
        /\ n <= MaxLogBytes
        /\ result.truncated <=> n < Len(bytes)
        /\ result.truncated => n + 3 > MaxLogBytes
        /\ result.lines = Cardinality({i \in 1..n : i = 1 \/ bytes[i - 1] = "newline"})
=============================================================================
