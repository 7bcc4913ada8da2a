--------------------------- MODULE ServiceLifecycle ---------------------------
(***************************************************************************)
(* cmd/reputation: the process from its start to its end.  It waits for    *)
(* the database, starts the poller and the listener, and on a signal       *)
(* drains its requests for ten seconds at most, closes the pool and ends.  *)
(* The kubelet starts it again whenever it has ended.  Around it the       *)
(* database comes and goes, and a command of the poller or of a request    *)
(* may never return: none of them has a timeout.                           *)
(***************************************************************************)
EXTENDS Faults

CONSTANTS
  MaxAttempts,   \* how often main tries to open the store
  Req,           \* requests, each sent at most once
  HalfRange,     \* a time.Duration is a number in -HalfRange..HalfRange-1
  Second,        \* one second as a time.Duration
  TenMinutes,    \* the default interval as a time.Duration
  Setting        \* environments of the process

\* LEASE_SYNC_INTERVAL: "seconds" is a plain number, "duration" has a unit, and
\* "other" is unset or does not parse.  env: the variables without a default
\* that are set.
ASSUME LifecycleAssumption ==
  /\ MaxAttempts \in Nat \ {0}
  /\ HalfRange \in Nat /\ Second \in 1..(HalfRange - 1)
  /\ TenMinutes \in 1..(HalfRange - 1)
  /\ Setting \subseteq
       [kind: {"seconds", "duration", "other"}, n: (-HalfRange)..(HalfRange - 1),
        env: SUBSET {"PROVIDER_ADDR", "DATABASE_URL", "POSTGRES_USER",
                     "POSTGRES_DB"}]

VARIABLES
  db,        \* whether the database answers
  setting,   \* the environment of the process, the same at every start
  proc,      \* the process
  conn       \* where each request is

vars == <<db, setting, proc, conn, faults>>

-----------------------------------------------------------------------------
\* The environment: whether main gets past it, and the interval of the poller.

ResolvesDSN(s) ==
  "DATABASE_URL" \in s.env \/ {"POSTGRES_USER", "POSTGRES_DB"} \subseteq s.env

Configured(s) == ResolvesDSN(s) /\ "PROVIDER_ADDR" \in s.env

\* A product of two Durations keeps the low bits.
Wrap(x) == ((x + HalfRange) % (2 * HalfRange)) - HalfRange

EnvDuration(s) ==
  IF s.kind = "seconds" THEN Wrap(s.n * Second)
  ELSE IF s.kind = "duration" THEN s.n ELSE TenMinutes

\* Variant: zero is taken as it is.
Interval_asSet(s) == EnvDuration(s)

Interval(s) == IF EnvDuration(s) = 0 THEN TenMinutes ELSE EnvDuration(s)

\* The intervals that an operator may expect to work: any but a negative one or
\* a number of seconds too large to hold.
UsableInterval(s) ==
  /\ s.kind # "other" => s.n >= 0
  /\ s.kind = "seconds" => s.n * Second < HalfRange

-----------------------------------------------------------------------------
Phase == {"opening", "waiting", "serving", "draining", "closing", "exited"}

Process ==
  [phase: Phase, attempt: 0..(MaxAttempts - 1), cancelled: BOOLEAN,
   timedOut: BOOLEAN, listener: {"unbound", "open", "closed"},
   pool: {"none", "open", "closed"},
   poller: {"off", "starting", "command", "upsert", "select", "returned"},
   exit: {0, 1, 2, 137}]

Ended == {"answered", "refused", "lost"}

TypeOK ==
  /\ db \in {"up", "down"}
  /\ setting \in Setting
  /\ proc \in Process
  /\ conn \in [Req -> {"unsent", "begun", "call", "live"} \cup Ended]
  /\ FaultsTypeOK

\* main exits at once if a variable is missing.
Started ==
  [phase |-> IF Configured(setting) THEN "opening" ELSE "exited",
   exit |-> IF Configured(setting) THEN 0 ELSE 1,
   attempt |-> 0, cancelled |-> FALSE, timedOut |-> FALSE,
   listener |-> "unbound", pool |-> "none", poller |-> "off"]

Init ==
  /\ db \in {"up", "down"}
  /\ setting \in Setting
  /\ proc = Started
  /\ conn = [q \in Req |-> "unsent"]
  /\ FaultsInit

DbChanges ==
  /\ db' = IF db = "up" THEN "down" ELSE "up"
  /\ UNCHANGED <<setting, proc, conn, faults>>

InFlight(q) == conn[q] \in {"begun", "call", "live"}

\* The end of the process, with the requests under way cut off.
Exit(code) ==
  /\ proc' = [proc EXCEPT !.phase = "exited", !.exit = code,
                          !.listener = "closed", !.poller = "off"]
  /\ conn' = [q \in Req |-> IF InFlight(q) THEN "lost" ELSE conn[q]]

-----------------------------------------------------------------------------
\* main, up to the goroutines it starts.

\* pgxpool.New only prepares the pool: the schema is the first statement.
OpenStore ==
  /\ proc.phase = "opening"
  /\ proc' = IF db = "up" /\ ~proc.cancelled
             THEN [proc EXCEPT !.phase = "serving", !.pool = "open",
                               !.poller = "starting"]
             ELSE [proc EXCEPT !.phase = "waiting"]
  /\ UNCHANGED <<db, setting, conn, faults>>

\* Variant: the attempts are counted from zero to the maximum.
WaitForDatabase_oneMore ==
  /\ proc.phase = "waiting"
  /\ IF proc.cancelled \/ proc.attempt = MaxAttempts
     THEN Exit(1)
     ELSE /\ proc' = [proc EXCEPT !.phase = "opening", !.attempt = @ + 1]
          /\ UNCHANGED conn
  /\ UNCHANGED <<db, setting, faults>>

\* Two seconds, also after the last attempt; a signal ends the wait.
WaitForDatabase ==
  /\ proc.phase = "waiting"
  /\ IF proc.cancelled \/ proc.attempt + 1 = MaxAttempts
     THEN Exit(1)
     ELSE /\ proc' = [proc EXCEPT !.phase = "opening", !.attempt = @ + 1]
          /\ UNCHANGED conn
  /\ UNCHANGED <<db, setting, faults>>

Bind ==
  /\ proc.phase = "serving" /\ proc.listener = "unbound"
  /\ proc' = [proc EXCEPT !.listener = "open"]
  /\ UNCHANGED <<db, setting, conn, faults>>

\* Variant: the error is logged and nothing else.
BindFails_logged ==
  /\ proc.phase = "serving" /\ proc.listener = "unbound" /\ Fault
  /\ proc' = [proc EXCEPT !.listener = "closed"]
  /\ UNCHANGED <<db, setting, conn>>

\* The goroutine calls stop, which cancels the context as a signal does.
BindFails ==
  /\ proc.phase = "serving" /\ proc.listener = "unbound" /\ Fault
  /\ proc' = [proc EXCEPT !.listener = "closed", !.cancelled = TRUE]
  /\ UNCHANGED <<db, setting, conn>>

-----------------------------------------------------------------------------
\* The poller: Run, with a Sync as a command and the upserts of its answer.

Poll(next) ==
  /\ proc' = [proc EXCEPT !.poller = next]
  /\ UNCHANGED <<db, setting, conn, faults>>

\* NewTicker panics on an interval that is not positive, and a panic in any
\* goroutine ends the process with code 2.
PollerStarts ==
  /\ proc.poller = "starting"
  /\ IF Interval(setting) > 0
     THEN Poll("command")
     ELSE Exit(2) /\ UNCHANGED <<db, setting, faults>>

\* CommandContext kills a command of a cancelled context.
CommandKilled == proc.poller = "command" /\ proc.cancelled /\ Poll("select")

CommandReturns ==
  proc.poller = "command" /\ \E next \in {"upsert", "select"} : Poll(next)

Upsert ==
  /\ proc.poller = "upsert"
  /\ \E next \in IF db = "up" /\ proc.pool = "open" /\ ~proc.cancelled
                 THEN {"command", "upsert", "select"} ELSE {"select"} : Poll(next)

\* With the context cancelled and a tick waiting, select takes either; the Sync
\* of that tick ends at once, because no command starts.
Select ==
  proc.poller = "select" /\ Poll(IF proc.cancelled THEN "returned" ELSE "command")

-----------------------------------------------------------------------------
\* A request: its database calls, and the command of the live lookup.  Its
\* context is that of the client, which a signal to the process leaves alone.

Move(q, to) ==
  /\ conn' = [conn EXCEPT ![q] = to]
  /\ UNCHANGED <<db, setting, proc, faults>>

Accept(q) == proc.listener = "open" /\ conn[q] = "unsent" /\ Move(q, "begun")

\* A closed pool gives no connection, and the handler answers 500.
Acquire(q) ==
  /\ conn[q] = "begun"
  /\ Move(q, IF proc.pool = "open" THEN "call" ELSE "refused")

\* The call has a result or an error; most handlers end after the first one.
CallReturns(q) ==
  conn[q] = "call" /\ \E to \in {"begun", "live", "answered"} : Move(q, to)

LiveReturns(q) ==
  conn[q] = "live" /\ \E to \in {"begun", "answered"} : Move(q, to)

-----------------------------------------------------------------------------
\* The end.

\* Variant: the pool is closed before the server is shut down.
Shutdown_poolFirst ==
  /\ proc.phase = "serving" /\ proc.cancelled
  /\ proc' = [proc EXCEPT !.phase = "draining", !.listener = "closed",
                          !.pool = "closed"]
  /\ UNCHANGED <<db, setting, conn, faults>>

Shutdown ==
  /\ proc.phase = "serving" /\ proc.cancelled
  /\ proc' = [proc EXCEPT !.phase = "draining", !.listener = "closed"]
  /\ UNCHANGED <<db, setting, conn, faults>>

ShutdownReturns(timedOut) ==
  /\ proc.phase = "draining"
  /\ proc' = [proc EXCEPT !.phase = "closing", !.timedOut = timedOut,
                          !.pool = "closed"]
  /\ UNCHANGED <<db, setting, conn, faults>>

Drained == (\A q \in Req : ~InFlight(q)) /\ ShutdownReturns(FALSE)

\* Variant: without the ten seconds only the requests end the wait.
DrainDeadline_none == (\A q \in Req : ~InFlight(q)) /\ ShutdownReturns(TRUE)

DrainDeadline == (\E q \in Req : InFlight(q)) /\ ShutdownReturns(TRUE)

\* The deferred Close waits for the connections that are in use, and main
\* returns, whatever the poller and the commands of requests are at.
CloseReturns ==
  /\ proc.phase = "closing"
  /\ proc.poller # "upsert" /\ \A q \in Req : conn[q] # "call"
  /\ Exit(0)
  /\ UNCHANGED <<db, setting, faults>>

-----------------------------------------------------------------------------
\* The kubelet: SIGTERM while its probe fails, or for any other reason; an end
\* without notice; and the restart.

\* GET /healthz answers 503, or nothing answers at all.
ProbeFails == db = "down"

Signal ==
  /\ proc.phase # "exited" /\ ~proc.cancelled
  /\ (ProbeFails /\ UNCHANGED faults) \/ Fault
  /\ proc' = [proc EXCEPT !.cancelled = TRUE]
  /\ UNCHANGED <<db, setting, conn>>

Kill ==
  /\ proc.phase # "exited" /\ Fault
  /\ Exit(137)
  /\ UNCHANGED <<db, setting>>

StartAgain ==
  /\ proc.phase = "exited"
  /\ proc' = Started
  /\ UNCHANGED <<db, setting, conn, faults>>

-----------------------------------------------------------------------------
MainStep ==
  \/ OpenStore \/ WaitForDatabase \/ Shutdown \/ Drained \/ DrainDeadline
  \/ CloseReturns

PollerStep ==
  PollerStarts \/ CommandKilled \/ CommandReturns \/ Upsert \/ Select

RequestStep ==
  \E q \in Req : Accept(q) \/ Acquire(q) \/ CallReturns(q) \/ LiveReturns(q)

Next ==
  \/ MainStep \/ Bind \/ BindFails \/ PollerStep \/ RequestStep
  \/ DbChanges \/ Signal \/ Kill \/ StartAgain

\* The process takes its steps, calls of the database return, and an ended
\* process is started again.  Commands need not return, the database need not
\* come back, and clients need not send anything.
Fairness ==
  /\ WF_vars(MainStep) /\ WF_vars(Bind) /\ WF_vars(StartAgain)
  /\ WF_vars(PollerStarts \/ CommandKilled \/ Upsert \/ Select)
  /\ \A q \in Req : WF_vars(Acquire(q) \/ CallReturns(q))

Spec == Init /\ [][Next]_vars

FairSpec == Spec /\ Fairness

-----------------------------------------------------------------------------
\* Properties.

\* A request that was accepted is answered from an open pool: it is refused for
\* a closed one, or cut off, only if the drain ran out of its ten seconds or
\* the process was killed or panicked.  main closes the pool after Shutdown, by
\* the order of its defers (cmd/reputation/main.go:46, 69-73).
GracefulEnd ==
  [][\A q \in Req :
       conn'[q] \in {"refused", "lost"} /\ InFlight(q) =>
         proc'.timedOut \/ proc'.exit \in {2, 137}]_vars

\* The only settings that make NewTicker panic are negative or too large: zero
\* and what does not parse fall back to the default (main.go:125-139,
\* internal/leases/poller.go:39-41).
OnlyBadIntervalsPanic == proc.exit = 2 => ~UsableInterval(setting)

\* A cancelled context ends the process: neither a command that hangs, nor a
\* database that is away, nor the poller keeps it from that (main.go:69-73).
EndsWhenCancelled == proc.cancelled ~> proc.phase = "exited"

\* Once the database stays up the service listens for good, however it was cut
\* off before: the attempts that ran out, a port that could not be opened and
\* a signal all end in a new start (main.go:57-63, 76-94).
EventuallyServes ==
  <>[](db = "up") /\ Configured(setting) /\ UsableInterval(setting)
    => <>[](proc.phase = "serving" /\ proc.listener = "open")

\* internal/leases/poller.go:48: "Run syncs immediately, then on Interval until
\* ctx is cancelled": until then no Sync stays at one command for good.
SyncsOnInterval == []<>(proc.poller # "command" \/ proc.cancelled)
=============================================================================
