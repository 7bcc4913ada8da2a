------------------------ MODULE ServiceLifecycleProofs ------------------------
(***************************************************************************)
(* Theorems about the process, for any number of attempts and of requests  *)
(* and for durations of any width.                                         *)
(***************************************************************************)
EXTENDS ServiceLifecycle, TLAPS

-----------------------------------------------------------------------------
\* The interval.

\* A duration that fits is not changed by the wrap.
LEMMA WrapOfWhatFits ==
  ASSUME NEW x \in Int, 0 <= x, x < HalfRange
  PROVE  Wrap(x) = x
<1>1. HalfRange \in Nat /\ HalfRange > 0
  BY LifecycleAssumption
<1>2. x + HalfRange >= 0 /\ x + HalfRange < 2 * HalfRange
  BY <1>1
<1>3. \A m \in Nat \ {0} : \A y \in 0..(m - 1) : y % m = y
  BY SMTT(30)
<1>4. (x + HalfRange) % (2 * HalfRange) = x + HalfRange
  BY <1>1, <1>2, <1>3
<1> QED
  BY <1>1, <1>4 DEF Wrap

\* A usable setting has a positive interval.
LEMMA UsableIsPositive ==
  ASSUME NEW s \in Setting, UsableInterval(s)
  PROVE  Interval(s) > 0
<1>1. /\ s.kind \in {"seconds", "duration", "other"}
      /\ s.n \in Int /\ TenMinutes \in Nat \ {0}
      /\ HalfRange \in Nat /\ Second \in Nat \ {0}
  BY LifecycleAssumption
<1>2. CASE s.kind = "seconds"
  <2>1. s.n >= 0 /\ s.n * Second < HalfRange
    BY <1>2 DEF UsableInterval
  <2>2. s.n * Second \in Int /\ s.n * Second >= 0
    BY <1>1, <2>1
  <2>3. EnvDuration(s) = s.n * Second
    BY <1>2, <2>1, <2>2, WrapOfWhatFits DEF EnvDuration
  <2> QED
    BY <1>1, <2>2, <2>3 DEF Interval
<1>3. CASE s.kind # "seconds"
  BY <1>1, <1>3 DEF UsableInterval, Interval, EnvDuration
<1> QED
  BY <1>2, <1>3

-----------------------------------------------------------------------------
\* What holds in each phase, by the order of the statements of main and of its
\* defers: a pool is open while requests are served and drained, and requests
\* outlast the drain only if it timed out.

Idle == \A q \in Req : ~InFlight(q)

PhaseInv ==
  /\ proc.phase \in {"opening", "waiting", "exited"} => Idle
  /\ proc.phase \in {"serving", "draining"} => proc.pool = "open"
  /\ proc.phase = "closing" => proc.timedOut \/ Idle
  /\ proc.listener = "open" => proc.phase = "serving"

IInv == TypeOK /\ OnlyBadIntervalsPanic /\ PhaseInv

\* The end of the process.
LEMMA ExitKeeps ==
  ASSUME IInv, NEW code \in {0, 1, 2, 137}, Exit(code),
         UNCHANGED <<db, setting>>, FaultsTypeOK',
         code = 2 => ~UsableInterval(setting)
  PROVE  IInv'
<1>1. /\ proc \in Process /\ conn \in [Req -> {"unsent", "begun", "call", "live"} \cup Ended]
  BY DEF IInv, TypeOK
<1>2. /\ proc' \in Process /\ proc'.phase = "exited" /\ proc'.exit = code
      /\ proc'.listener = "closed"
  BY <1>1 DEF Exit, Process, Phase
<1>3. /\ conn' \in [Req -> {"unsent", "begun", "call", "live"} \cup Ended]
      /\ \A q \in Req : conn'[q] \notin {"begun", "call", "live"}
  BY <1>1 DEF Exit, Ended, InFlight
<1>4. TypeOK'
  BY <1>2, <1>3 DEF IInv, TypeOK
<1>5. PhaseInv'
  BY <1>2, <1>3 DEF PhaseInv, Idle, InFlight
<1>6. OnlyBadIntervalsPanic'
  BY <1>2 DEF OnlyBadIntervalsPanic, UsableInterval
<1> QED
  BY <1>4, <1>5, <1>6 DEF IInv

\* A step of the process that goes on, with the requests as they are.
LEMMA GoingOnKeeps ==
  ASSUME IInv, proc' \in Process, UNCHANGED <<setting, conn>>,
         db' \in {"up", "down"}, FaultsTypeOK', proc'.exit \in {proc.exit, 0, 1},
         PhaseInv'
  PROVE  IInv'
<1>1. TypeOK'
  BY DEF IInv, TypeOK
<1>2. OnlyBadIntervalsPanic'
  BY DEF IInv, OnlyBadIntervalsPanic, UsableInterval
<1> QED
  BY <1>1, <1>2 DEF IInv

\* A failure stays within the budget.
LEMMA FaultsKeepType == FaultsTypeOK /\ (Fault \/ UNCHANGED faults) => FaultsTypeOK'
  BY FaultsAssumption DEF FaultsTypeOK, Fault

\* The attempts to open the store.
LEMMA OpeningKeeps ==
  ASSUME IInv, OpenStore \/ WaitForDatabase
  PROVE  IInv'
<1>0. proc \in Process /\ FaultsTypeOK /\ db \in {"up", "down"} /\ PhaseInv
  BY DEF IInv, TypeOK
<1>1. CASE OpenStore
  <2>1. /\ proc' \in Process /\ proc'.exit = proc.exit
        /\ proc'.listener = proc.listener /\ proc'.phase \in {"serving", "waiting"}
        /\ proc'.phase = "serving" => proc'.pool = "open"
    BY <1>0, <1>1 DEF OpenStore, Process, Phase
  <2>2. PhaseInv'
    BY <1>0, <1>1, <2>1 DEF OpenStore, PhaseInv, Idle, InFlight
  <2> QED
    BY <1>0, <1>1, <2>1, <2>2, GoingOnKeeps DEF OpenStore, FaultsTypeOK
<1>2. CASE WaitForDatabase
  <2>1. CASE proc.cancelled \/ proc.attempt + 1 = MaxAttempts
    <3>1. Exit(1) /\ UNCHANGED <<db, setting, faults>>
      BY <1>2, <2>1 DEF WaitForDatabase
    <3> QED
      BY <1>0, <3>1, ExitKeeps DEF FaultsTypeOK
  <2>2. CASE ~(proc.cancelled \/ proc.attempt + 1 = MaxAttempts)
    <3>1. /\ proc' = [proc EXCEPT !.phase = "opening", !.attempt = @ + 1]
          /\ UNCHANGED <<db, setting, faults, conn>>
      BY <1>2, <2>2 DEF WaitForDatabase
    <3>2. proc.attempt + 1 \in 0..(MaxAttempts - 1)
      BY <1>0, <2>2, LifecycleAssumption DEF Process
    <3>3. /\ proc' \in Process /\ proc'.exit = proc.exit
          /\ proc'.listener = proc.listener /\ proc'.phase = "opening"
      BY <1>0, <3>1, <3>2 DEF Process, Phase
    <3>4. PhaseInv'
      BY <1>0, <1>2, <3>1, <3>3 DEF PhaseInv, Idle, InFlight, WaitForDatabase
    <3> QED
      BY <1>0, <3>1, <3>3, <3>4, GoingOnKeeps DEF FaultsTypeOK
  <2> QED
    BY <2>1, <2>2
<1> QED
  BY <1>1, <1>2

\* The listener and signals.
LEMMA ServingKeeps ==
  ASSUME IInv, Bind \/ BindFails \/ Signal \/ Shutdown
  PROVE  IInv'
<1>0. proc \in Process /\ FaultsTypeOK /\ db \in {"up", "down"} /\ PhaseInv
  BY DEF IInv, TypeOK
<1>1. /\ proc' \in Process /\ proc'.exit = proc.exit /\ proc'.pool = proc.pool
      /\ proc'.timedOut = proc.timedOut
      /\ \/ proc'.phase = proc.phase /\ proc'.listener = proc.listener
         \/ proc'.phase = proc.phase /\ proc.phase = "serving"
         \/ proc.phase = "serving" /\ proc'.phase = "draining" /\ proc'.listener = "closed"
  BY <1>0 DEF Bind, BindFails, Signal, Shutdown, Process, Phase
<1>2. conn' = conn /\ UNCHANGED <<setting, db>> /\ (Fault \/ UNCHANGED faults)
  BY DEF Bind, BindFails, Signal, Shutdown
<1>3. PhaseInv'
  BY <1>0, <1>1, <1>2 DEF PhaseInv, Idle, InFlight
<1> QED
  BY <1>0, <1>1, <1>2, <1>3, FaultsKeepType, GoingOnKeeps

\* The poller: NewTicker panics on what is not positive, and the rest goes on.
LEMMA PollerKeeps ==
  ASSUME IInv, PollerStep
  PROVE  IInv'
<1>0. proc \in Process /\ FaultsTypeOK /\ db \in {"up", "down"} /\ PhaseInv
  BY DEF IInv, TypeOK
<1>1. ASSUME NEW next \in {"command", "upsert", "select", "returned"}, Poll(next)
      PROVE  IInv'
  <2>1. /\ proc' \in Process /\ proc'.exit = proc.exit /\ proc'.pool = proc.pool
        /\ proc'.phase = proc.phase /\ proc'.listener = proc.listener
        /\ proc'.timedOut = proc.timedOut
    BY <1>0, <1>1 DEF Poll, Process
  <2>2. PhaseInv'
    BY <1>0, <1>1, <2>1 DEF Poll, PhaseInv, Idle, InFlight
  <2> QED
    BY <1>0, <1>1, <2>1, <2>2, GoingOnKeeps DEF Poll, FaultsTypeOK
<1>2. CASE PollerStarts
  <2>1. CASE Interval(setting) > 0
    BY <1>1, <1>2, <2>1 DEF PollerStarts
  <2>2. CASE ~(Interval(setting) > 0)
    <3>1. Exit(2) /\ UNCHANGED <<db, setting, faults>>
      BY <1>2, <2>2 DEF PollerStarts
    <3>2. ~UsableInterval(setting)
      BY <2>2, UsableIsPositive DEF IInv, TypeOK
    <3> QED
      BY <1>0, <3>1, <3>2, ExitKeeps DEF FaultsTypeOK
  <2> QED
    BY <2>1, <2>2
<1>3. CASE CommandKilled \/ CommandReturns
  BY <1>1, <1>3 DEF CommandKilled, CommandReturns
<1>4. CASE Upsert
  <2>1. PICK next \in {"command", "upsert", "select"} : Poll(next)
    BY <1>4 DEF Upsert
  <2> QED
    BY <1>1, <2>1
<1>5. CASE Select
  BY <1>1, <1>5 DEF Select
<1> QED
  BY <1>2, <1>3, <1>4, <1>5 DEF PollerStep

\* A request goes on; one is accepted only while the service serves.
LEMMA RequestKeeps ==
  ASSUME IInv, RequestStep
  PROVE  IInv'
<1>1. PICK q \in Req :
        Accept(q) \/ Acquire(q) \/ CallReturns(q) \/ LiveReturns(q)
  BY DEF RequestStep
<1>2. PICK to \in {"begun", "call", "live", "answered", "refused"} :
        /\ Move(q, to)
        /\ InFlight(q) \/ proc.listener = "open"
  BY <1>1 DEF Accept, Acquire, CallReturns, LiveReturns, InFlight
<1>3. /\ conn' \in [Req -> {"unsent", "begun", "call", "live"} \cup Ended]
      /\ \A p \in Req \ {q} : conn'[p] = conn[p]
  BY <1>2 DEF Move, IInv, TypeOK, Ended
<1>4. PhaseInv'
  <2>1. proc' = proc
    BY <1>2 DEF Move
  <2>2. Idle => proc.phase = "serving"
    BY <1>2 DEF Idle, IInv, PhaseInv
  <2> QED
    BY <2>1, <2>2 DEF IInv, PhaseInv
<1> QED
  BY <1>2, <1>3, <1>4
  DEF Move, IInv, TypeOK, OnlyBadIntervalsPanic, FaultsTypeOK, UsableInterval

\* The drain ends, and the pool is closed.
LEMMA DrainKeeps ==
  ASSUME IInv, Drained \/ DrainDeadline
  PROVE  IInv'
<1>0. proc \in Process /\ FaultsTypeOK /\ db \in {"up", "down"} /\ PhaseInv
  BY DEF IInv, TypeOK
<1>1. PICK timedOut \in BOOLEAN : ShutdownReturns(timedOut) /\ (timedOut \/ Idle)
  BY DEF Drained, DrainDeadline, Idle
<1>2. /\ proc' \in Process /\ proc'.exit = proc.exit
      /\ proc'.phase = "closing" /\ proc'.listener = proc.listener
      /\ proc'.timedOut = timedOut
  BY <1>0, <1>1 DEF ShutdownReturns, Process, Phase
<1>3. PhaseInv'
  BY <1>0, <1>1, <1>2 DEF ShutdownReturns, PhaseInv, Idle, InFlight
<1> QED
  BY <1>0, <1>1, <1>2, <1>3, GoingOnKeeps DEF ShutdownReturns, FaultsTypeOK

\* A process as main finds it when it starts.
LEMMA StartedProcess ==
  /\ Started \in Process /\ Started.phase \in {"opening", "exited"}
  /\ Started.exit \in {0, 1} /\ Started.listener = "unbound"
  BY LifecycleAssumption DEF Started, Process, Phase

\* A first start.
LEMMA Initially == Init => IInv
<1> SUFFICES ASSUME Init PROVE IInv
  OBVIOUS
<1>1. proc \in Process /\ proc.phase \in {"opening", "exited"}
      /\ proc.exit \in {0, 1} /\ proc.listener = "unbound"
  BY StartedProcess DEF Init
<1>2. TypeOK
  BY <1>1, FaultsAssumption DEF Init, TypeOK, FaultsInit, FaultsTypeOK
<1>3. PhaseInv
  BY <1>1 DEF Init, PhaseInv, Idle, InFlight
<1> QED
  BY <1>1, <1>2, <1>3 DEF IInv, OnlyBadIntervalsPanic

\* IInv is inductive.
LEMMA StepKeeps == IInv /\ [Next]_vars => IInv'
<1> SUFFICES ASSUME IInv, [Next]_vars PROVE IInv'
  OBVIOUS
<1>0. proc \in Process /\ FaultsTypeOK /\ db \in {"up", "down"} /\ PhaseInv
  BY DEF IInv, TypeOK
<1>1. CASE CloseReturns
  BY <1>0, <1>1, ExitKeeps DEF CloseReturns, FaultsTypeOK
<1>2. CASE Kill
  BY <1>0, <1>2, ExitKeeps, FaultsKeepType DEF Kill
<1>3. CASE StartAgain
  <2>1. PhaseInv'
    BY <1>0, <1>3, StartedProcess DEF StartAgain, PhaseInv, Idle, InFlight
  <2>2. proc' \in Process /\ proc'.exit \in {0, 1}
    BY <1>3, StartedProcess DEF StartAgain
  <2> QED
    BY <1>0, <1>3, <2>1, <2>2, GoingOnKeeps DEF StartAgain, FaultsTypeOK
<1>4. CASE DbChanges \/ UNCHANGED vars
  <2>1. PhaseInv' /\ proc' = proc /\ UNCHANGED <<setting, conn, faults>>
    BY <1>0, <1>4 DEF DbChanges, vars, PhaseInv, Idle, InFlight
  <2> QED
    BY <1>0, <1>4, <2>1, GoingOnKeeps DEF DbChanges, vars, FaultsTypeOK
<1> QED
  BY <1>1, <1>2, <1>3, <1>4, OpeningKeeps, ServingKeeps, PollerKeeps,
     RequestKeeps, DrainKeeps
  DEF Next, MainStep

\* IInv holds throughout.
LEMMA Inductive == Spec => []IInv
  BY Initially, StepKeeps, PTL DEF Spec

-----------------------------------------------------------------------------

\* The process keeps to its types: it never makes more than MaxAttempts attempts
\* (cmd/reputation/main.go:76-94).
THEOREM LifecycleTypeCorrect == Spec => []TypeOK
<1>1. IInv => TypeOK
  BY DEF IInv
<1> QED
  BY <1>1, Inductive, PTL

\* NewTicker panics for negative settings and for those too large only, for
\* durations of any width (cmd/reputation/main.go:125-139,
\* internal/leases/poller.go:39-41, 50).
THEOREM IntervalsPanicOnlyIfBad == Spec => []OnlyBadIntervalsPanic
<1>1. IInv => OnlyBadIntervalsPanic
  BY DEF IInv
<1> QED
  BY <1>1, Inductive, PTL

\* No request that was accepted meets a closed pool or is cut off, unless the
\* drain timed out or the process was killed or panicked, for any number of
\* requests (cmd/reputation/main.go:46, 69-73).
THEOREM EndsAreGraceful == Spec => GracefulEnd
<1> DEFINE Graceful ==
      \A q \in Req :
        conn'[q] \in {"refused", "lost"} /\ InFlight(q) =>
          proc'.timedOut \/ proc'.exit \in {2, 137}
<1>1. IInv /\ [Next]_vars => [Graceful]_vars
  <2> SUFFICES ASSUME IInv, Next, NEW q \in Req,
                      conn'[q] \in {"refused", "lost"}, InFlight(q)
               PROVE  proc'.timedOut \/ proc'.exit \in {2, 137}
    OBVIOUS
  <2>0. proc \in Process /\ PhaseInv
        /\ conn \in [Req -> {"unsent", "begun", "call", "live"} \cup Ended]
    BY DEF IInv, TypeOK
  <2>1. ASSUME NEW code, Exit(code)
        PROVE  proc'.exit = code /\ proc'.timedOut = proc.timedOut
    BY <2>0, <2>1 DEF Exit, Process
  <2>2. ~Idle
    BY DEF Idle
  <2>3. proc.phase \notin {"opening", "waiting", "exited"}
    BY <2>0, <2>2 DEF PhaseInv
  <2>4. proc.phase = "closing" => proc.timedOut
    BY <2>0, <2>2 DEF PhaseInv
  <2>5. conn' # conn
    BY DEF InFlight
  <2>6. CASE CloseReturns
    BY <2>1, <2>4, <2>6 DEF CloseReturns
  <2>7. CASE Kill
    BY <2>1, <2>7 DEF Kill
  <2>8. CASE PollerStarts
    BY <2>1, <2>5, <2>8 DEF PollerStarts, Poll
  <2>9. CASE RequestStep
    <3>1. Acquire(q) /\ proc.pool # "open"
      BY <2>0, <2>9 DEF RequestStep, Accept, Acquire, CallReturns, LiveReturns,
                        Move, InFlight
    <3>2. proc' = proc
      BY <3>1 DEF Acquire, Move
    <3>3. proc.phase = "closing"
      BY <2>0, <2>3, <3>1 DEF PhaseInv, Process, Phase
    <3> QED
      BY <2>4, <3>2, <3>3
  <2> QED
    BY <2>3, <2>5, <2>6, <2>7, <2>8, <2>9
    DEF Next, MainStep, PollerStep, OpenStore, WaitForDatabase, Shutdown, Drained,
        DrainDeadline, ShutdownReturns, Bind, BindFails, CommandKilled,
        CommandReturns, Upsert, Select, Poll, DbChanges, Signal, StartAgain
<1> QED
  BY <1>1, Inductive, PTL DEF Spec, GracefulEnd
=============================================================================
