---------------------------- MODULE RuntimeConfig ----------------------------
(***************************************************************************)
(* PATCH /api/v1/config and the event log it reaches into.  The handler    *)
(* takes the writable keys in a fixed order and assigns each one at once;  *)
(* at the first bad value it answers 400 and leaves the keys before it     *)
(* applied, the trimmed event log included.                                *)
(*                                                                         *)
(* The log is a set of events numbered in the order they were recorded,    *)
(* which is also the order of their timestamps.  A new process starts with *)
(* the default configuration and whatever log its snapshot had.            *)
(***************************************************************************)
EXTENDS Integers, FiniteSets

CONSTANTS
  Bodies,    \* bodies of a PATCH: functions from some keys to numbers, 0 if not a positive integer
  Defaults,  \* defaultConfig()
  Ceiling,   \* BULK_ABSOLUTE_MAX and EVENT_LOG_CAP_MAX; any bound for the other keys
  Types,     \* event types
  MaxEvents  \* bound on the events ever recorded

\* The writable keys, in the order of the handler's loop.
Allowed ==
  <<"rateLimitPerWindow", "rateLimitWindowMs", "bulkMaxItems",
    "eventLogCap", "quote_ttl_ms", "requestTimeoutMs">>

ConfigKeys == {Allowed[i] : i \in 1..6}

Configs == {c \in [ConfigKeys -> Nat] : \A k \in ConfigKeys : 0 < c[k] /\ c[k] <= Ceiling[k]}

ASSUME ConfigAssumption ==
  /\ Ceiling \in [ConfigKeys -> Nat]
  /\ Defaults \in Configs
  /\ \A b \in Bodies, k \in ConfigKeys : k \in DOMAIN b => b[k] \in Nat
  /\ MaxEvents \in Nat

VARIABLES
  config,  \* stores.ts: config
  log,     \* stores.ts: eventLog
  answer   \* what the last step answered, if it was a PATCH of the configuration (history)

Events == [id : 1..MaxEvents, type : Types]

LogTypeOK ==
  /\ config \in Configs
  /\ log \in SUBSET Events
  /\ answer \in {"none", "accepted", "refused"}

-----------------------------------------------------------------------------
(* The event log.                                                          *)

\* The entries of l from e on, newest end first.
From(l, e) == {f \in l : f.id >= e.id}

\* Position of e in l, counted from the newest entry.
Rank(l, e) == Cardinality(From(l, e))

\* trimEventLog: shift until n entries are left.
Newest(l, n) == {e \in l : Rank(l, e) <= n}

\* Mutant: nothing is evicted.
PushOnly(e) == log \cup {e}

\* recordEvent: push, then shift the oldest entry if the cap is exceeded.
PushAndShift(e) ==
  LET grown == log \cup {e}
  IN  IF Cardinality(grown) > config["eventLogCap"]
      THEN {f \in grown : \E g \in grown : g.id < f.id}
      ELSE grown

Fresh(n) == n \in 1..MaxEvents /\ \A e \in log : e.id < n

\* An event of type t is recorded, under the next number.
Record(t) ==
  \E n \in 1..MaxEvents :
    /\ Fresh(n) /\ (n = 1 \/ \E e \in log : e.id = n - 1)
    /\ log' = PushAndShift([id |-> n, type |-> t])

-----------------------------------------------------------------------------
(* The PATCH.                                                              *)

\* Mutant: the ceilings are not checked.
AcceptablePositive(k, v) == v > 0

Acceptable(k, v) == v > 0 /\ v <= Ceiling[k]

Unknown(b) == DOMAIN b \ ConfigKeys # {}

BadAt(b) ==
  {i \in 1..6 : Allowed[i] \in DOMAIN b /\ ~Acceptable(Allowed[i], b[Allowed[i]])}

Refused(b) == Unknown(b) \/ BadAt(b) # {}

\* The keys the handler has assigned when it answers.
Applied(b) ==
  {Allowed[i] : i \in {j \in 1..6 : /\ Allowed[j] \in DOMAIN b
                                    /\ ~Unknown(b)
                                    /\ \A h \in BadAt(b) : j < h}}

\* Mutant: the log is trimmed once the whole body has been accepted.
TrimmedIfAccepted(b) ==
  IF "eventLogCap" \in Applied(b) /\ ~Refused(b) THEN Newest(log, b["eventLogCap"]) ELSE log

Trimmed(b) == IF "eventLogCap" \in Applied(b) THEN Newest(log, b["eventLogCap"]) ELSE log

PatchConfig(b) ==
  /\ config' = [k \in ConfigKeys |-> IF k \in Applied(b) THEN b[k] ELSE config[k]]
  /\ log' = Trimmed(b)
  /\ answer' = IF Refused(b) THEN "refused" ELSE "accepted"

\* Hydration pushes the log of the snapshot as it is.
InitLog ==
  /\ config = Defaults
  /\ \E n \in 0..MaxEvents :
       /\ n <= Ceiling["eventLogCap"]
       /\ \E s \in [1..n -> Types] : log = {[id |-> i, type |-> s[i]] : i \in 1..n}
  /\ answer = "none"
=============================================================================
