---------------------------- MODULE ServerProofs ----------------------------
(***************************************************************************)
(* Theorems about Server, for any requests, any environment and any        *)
(* timeouts, the negative ones included.                                   *)
(*                                                                         *)
(* The invariant IInv says what the configuration is once Load has passed  *)
(* it, what a poll still has of its time while it waits, and that only a   *)
(* process that has ended has cut a request short.                         *)
(***************************************************************************)
EXTENDS Server, TLAPS

Up == phase \in {"running", "closing"}

\* What Load lets through.
Loaded ==
    /\ phase = "load" => cfg \in Envs
    /\ Up => /\ \A v \in Numbers : cfg[v] \in Int
             /\ cfg["WRITE"] > cfg["LONGPOLL"]

\* main goes from one phase to the next; requests are under way only while the
\* server is up, and it is the end that cuts them short.
Phases ==
    /\ phase = "ended" <=> exit # "none"
    /\ phase \in {"load", "running"} => signalAt = -1
    /\ phase = "closing" => signalAt >= 0
    /\ \A r \in Reqs : /\ at[r] \in {"body", "wait"} => Up
                       /\ at[r] = "cut" => phase = "ended"

\* The clock has not passed the deadline of a Get that waits, which for
\* GET /result runs from the headers.
InTime ==
    \A r \in Reqs :
        /\ at[r] = "wait" => \/ now <= entered[r]
                             \/ now <= entered[r] + PollTimeout(r)
        /\ Route[r] = "result" => /\ at[r] # "body"
                                  /\ at[r] = "wait" => since[r] = entered[r]

IInv ==
    /\ TypeOK /\ Loaded /\ Phases /\ InTime
    /\ PollsAreWritten /\ CutOnlyAfterGrace /\ SuccessIsComplete

-----------------------------------------------------------------------------
\* Whatever the environment, each setting is a number after Load.
LEMMA EnvNumbers ==
    ASSUME NEW env \in Envs, NEW v \in Numbers
    PROVE  Env(env)[v] \in Int
<1>1. Default[v] \in Int
  BY DEF Default, Numbers
<1> QED
  BY <1>1, ServerAssumption DEF Env

\* The initial states.
LEMMA InitIInv == Init => IInv
<1> SUFFICES ASSUME Init PROVE IInv
  OBVIOUS
<1> USE ServerAssumption DEF Init
<1>1. TypeOK
  BY DEF TypeOK, Active
<1>2. Loaded /\ Phases /\ InTime
  BY DEF Loaded, Phases, InTime, Up
<1>3. PollsAreWritten /\ CutOnlyAfterGrace /\ SuccessIsComplete
  BY DEF PollsAreWritten, CutOnlyAfterGrace, SuccessIsComplete
<1> QED
  BY <1>1, <1>2, <1>3 DEF IInv

\* Load and New: nothing is under way yet.
LEMMA BootStep == IInv /\ Boot => IInv'
<1> SUFFICES ASSUME IInv, Boot PROVE IInv'
  OBVIOUS
<1> USE ServerAssumption DEF IInv, requests
<1>1. CASE Start
  <2>1. phase = "load" /\ phase' = "running" /\ cfg' = Env(cfg) /\ cfg \in Envs
    BY <1>1 DEF Start, Loaded
  <2>2. /\ \A v \in Numbers : cfg'[v] \in Int
        /\ cfg'["WRITE"] > cfg'["LONGPOLL"]
    BY <1>1, <2>1, EnvNumbers DEF Start
  <2>3. UNCHANGED <<now, exit, signalAt, at, since, entered, status>>
    BY <1>1 DEF Start
  <2>4. \A r \in Reqs : at[r] \notin {"body", "wait", "cut"}
    BY <2>1 DEF Phases, Up
  <2>5. TypeOK'
    BY <1>1, <2>1, <2>3, <2>4 DEF Start, TypeOK, Active
  <2>6. Loaded' /\ Phases' /\ InTime'
    BY <2>1, <2>2, <2>3, <2>4 DEF Loaded, Phases, InTime, Up
  <2>7. PollsAreWritten' /\ CutOnlyAfterGrace' /\ SuccessIsComplete'
    BY <2>1, <2>3, <2>4 DEF PollsAreWritten, CutOnlyAfterGrace, SuccessIsComplete, Phases
  <2> QED
    BY <2>5, <2>6, <2>7
<1>2. CASE LoadRejects \/ NewPanics
  <2>1. /\ phase = "load" /\ phase' = "ended" /\ exit' \in {"1", "panic"}
        /\ UNCHANGED <<now, cfg, background, signalAt, at, since, entered, status>>
    BY <1>2 DEF LoadRejects, NewPanics, End
  <2>2. \A r \in Reqs : at[r] \notin {"body", "wait", "cut"}
    BY <2>1 DEF Phases, Up
  <2>3. TypeOK'
    BY <2>1, <2>2 DEF TypeOK, Active
  <2>4. Loaded' /\ Phases' /\ InTime'
    BY <2>1, <2>2 DEF Loaded, Phases, InTime, Up
  <2>5. PollsAreWritten' /\ CutOnlyAfterGrace' /\ SuccessIsComplete'
    BY <2>1, <2>2 DEF PollsAreWritten, CutOnlyAfterGrace, SuccessIsComplete
  <2> QED
    BY <2>3, <2>4, <2>5
<1> QED
  BY <1>1, <1>2 DEF Boot

\* The process ends: it reports success only with nothing under way, and an
\* error after a signal only when the grace period is over.
LEMMA StopStep ==
    ASSUME IInv, Up, NEW code \in {"0", "1", "panic"}, Stop(code),
           background' \subseteq {"store", "lockout", "limiter"},
           code = "0" => Active = {} /\ background' = {},
           code = "1" => phase = "running" \/ now >= signalAt + cfg["SHUTDOWN"]
    PROVE  IInv'
<1> USE ServerAssumption DEF IInv
<1>1. /\ phase' = "ended" /\ exit' = code
      /\ at' = [r \in Reqs |-> IF r \in Active THEN "cut" ELSE at[r]]
      /\ UNCHANGED <<now, cfg, signalAt, since, entered, status>>
  BY DEF Stop, End
<1>2. \A r \in Reqs : /\ at'[r] \notin {"body", "wait"}
                      /\ at'[r] = "cut" <=> r \in Active
                      /\ at'[r] = "late" <=> at[r] = "late"
  BY <1>1 DEF Active, Phases, Up
<1>3. TypeOK'
  BY <1>1, <1>2 DEF TypeOK, Active
<1>4. Loaded' /\ Phases' /\ InTime'
  BY <1>1, <1>2 DEF Loaded, Phases, InTime, Up
<1>5. PollsAreWritten'
  BY <1>1, <1>2 DEF PollsAreWritten
<1>6. CutOnlyAfterGrace'
  BY <1>1, <1>2 DEF CutOnlyAfterGrace, Phases, Up
<1>7. SuccessIsComplete'
  BY <1>1, <1>2 DEF SuccessIsComplete
<1> QED
  BY <1>3, <1>4, <1>5, <1>6, <1>7

\* What may end the process, and the signal.
LEMMA RunStep == IInv /\ (Run \/ Shutdown) => IInv'
<1> SUFFICES ASSUME IInv, Run \/ Shutdown PROVE IInv'
  OBVIOUS
<1>1. background \subseteq {"store", "lockout", "limiter"}
  BY DEF IInv, TypeOK
<1>2. CASE TickerPanics
  BY <1>1, <1>2, StopStep DEF TickerPanics, Up
<1>3. CASE ListenFails
  BY <1>1, <1>3, StopStep DEF ListenFails, Up
<1>4. CASE ShutdownDone
  BY <1>4, StopStep DEF ShutdownDone, Up
<1>5. CASE ShutdownGivesUp
  BY <1>1, <1>5, StopStep DEF ShutdownGivesUp, GraceOver, Up
<1>6. CASE Signal
  <2>1. /\ phase = "running" /\ phase' = "closing" /\ signalAt' = now
        /\ UNCHANGED <<now, exit, cfg, background, at, since, entered, status>>
    BY <1>6 DEF Signal, requests
  <2>2. TypeOK'
    BY <2>1 DEF IInv, TypeOK, Active
  <2>3. Loaded' /\ Phases' /\ InTime'
    BY <2>1, ServerAssumption DEF IInv, TypeOK, Loaded, Phases, InTime, Up, PollTimeout
  <2>4. PollsAreWritten' /\ CutOnlyAfterGrace' /\ SuccessIsComplete'
    BY <2>1 DEF IInv, Phases, PollsAreWritten, CutOnlyAfterGrace, SuccessIsComplete
  <2> QED
    BY <2>2, <2>3, <2>4 DEF IInv
<1> QED
  BY <1>2, <1>3, <1>4, <1>5, <1>6 DEF Run, Shutdown

\* A handler returns: what it answers is on time if it is a poll.
LEMMA AnswerStep ==
    ASSUME IInv, NEW r \in Reqs, at[r] \in {"body", "wait"}, NEW code, Answer(r, code),
           UNCHANGED <<now, phase, exit, cfg, background, signalAt, since, entered>>
    PROVE  IInv'
<1> USE ServerAssumption DEF IInv
<1>1. PICK a \in {"late", "answered"} : at' = [at EXCEPT ![r] = a]
  BY DEF Answer
<1>2. Up /\ exit = "none"
  BY DEF Phases, Up
<1>3. Route[r] = "result" => a = "answered"
  <2> SUFFICES ASSUME Route[r] = "result", cfg["WRITE"] > 0, now >= since[r] + cfg["WRITE"]
               PROVE  FALSE
    BY <1>1 DEF Answer, TypeOK
  <2>1. /\ at[r] = "wait" /\ since[r] = entered[r]
        /\ now <= since[r] \/ now <= since[r] + PollTimeout(r)
    BY DEF InTime
  <2>2. /\ cfg["WRITE"] \in Int /\ cfg["LONGPOLL"] \in Int
        /\ cfg["WRITE"] > cfg["LONGPOLL"]
    BY <1>2 DEF Loaded, Numbers
  <2>3. PollTimeout(r) \in Int /\ PollTimeout(r) <= cfg["LONGPOLL"]
    BY <2>2 DEF PollTimeout
  <2> QED
    BY <2>1, <2>2, <2>3 DEF TypeOK
<1>4. \A q \in Reqs : at'[q] = IF q = r THEN a ELSE at[q]
  BY <1>1 DEF TypeOK
<1>5. TypeOK'
  BY <1>1, <1>4 DEF TypeOK, Active
<1>6. Loaded' /\ Phases' /\ InTime'
  BY <1>1, <1>4 DEF Loaded, Phases, InTime, Up, PollTimeout
<1>7. PollsAreWritten'
  BY <1>3, <1>4 DEF PollsAreWritten
<1>8. CutOnlyAfterGrace' /\ SuccessIsComplete'
  BY <1>1, <1>2, <1>4 DEF CutOnlyAfterGrace, SuccessIsComplete, Phases, Up
<1> QED
  BY <1>5, <1>6, <1>7, <1>8

\* A request arrives or moves on.
LEMMA RequestStep == ASSUME NEW r \in Reqs PROVE IInv /\ (Arrive(r) \/ Handle(r)) => IInv'
<1> SUFFICES ASSUME IInv, Arrive(r) \/ Handle(r) PROVE IInv'
  OBVIOUS
<1> USE ServerAssumption DEF IInv
<1>1. CASE Arrive(r)
  <2>1. PICK a \in {"wait", "body"} :
          /\ at' = [at EXCEPT ![r] = a]
          /\ a = "wait" <=> Route[r] = "result"
    BY <1>1 DEF Arrive
  <2>2. /\ phase = "running"
        /\ since' = [since EXCEPT ![r] = now] /\ entered' = [entered EXCEPT ![r] = now]
        /\ UNCHANGED <<now, phase, exit, cfg, background, signalAt, status>>
    BY <1>1 DEF Arrive
  <2>3. TypeOK'
    BY <2>1, <2>2 DEF TypeOK, Active
  <2>4. Loaded' /\ Phases' /\ InTime'
    BY <2>1, <2>2 DEF TypeOK, Loaded, Phases, InTime, Up, PollTimeout
  <2>5. PollsAreWritten' /\ CutOnlyAfterGrace' /\ SuccessIsComplete'
    BY <2>1, <2>2 DEF TypeOK, Phases, PollsAreWritten, CutOnlyAfterGrace, SuccessIsComplete
  <2> QED
    BY <2>3, <2>4, <2>5
<1>2. CASE BodyRead(r)
  <2>1. /\ at[r] = "body" /\ Route[r] = "sync" /\ at' = [at EXCEPT ![r] = "wait"]
        /\ entered' = [entered EXCEPT ![r] = now]
        /\ UNCHANGED <<now, phase, exit, cfg, background, signalAt, since, status>>
    BY <1>2 DEF BodyRead
  <2>2. TypeOK'
    BY <2>1 DEF TypeOK, Active
  <2>3. Loaded' /\ Phases' /\ InTime'
    BY <2>1 DEF TypeOK, Loaded, Phases, InTime, Up, PollTimeout
  <2>4. PollsAreWritten' /\ CutOnlyAfterGrace' /\ SuccessIsComplete'
    BY <2>1 DEF TypeOK, Phases, Up, PollsAreWritten, CutOnlyAfterGrace, SuccessIsComplete
  <2> QED
    BY <2>2, <2>3, <2>4
<1>3. CASE BodyExpires(r) \/ WaitEnds(r) \/ Serve(r)
  <2>1. at[r] \in {"body", "wait"} /\ \E code : Answer(r, code)
    BY <1>3 DEF BodyExpires, WaitEnds, Serve
  <2>2. UNCHANGED <<now, phase, exit, cfg, background, signalAt, since, entered>>
    BY <1>3 DEF BodyExpires, WaitEnds, Serve
  <2> QED
    BY <2>1, <2>2, AnswerStep
<1> QED
  BY <1>1, <1>2, <1>3 DEF Handle

\* The clock moves on: no Get that waits was due before, so none has passed its
\* deadline now.
LEMMA TickStep == IInv /\ Tick => IInv'
<1> SUFFICES ASSUME IInv, Tick PROVE IInv'
  OBVIOUS
<1> USE ServerAssumption DEF IInv
<1>1. /\ Up /\ ~Due /\ now' = now + 1 /\ now < MaxTime
      /\ UNCHANGED <<phase, exit, cfg, background, signalAt, at, since, entered, status>>
  BY DEF Tick, Up, requests
<1>2. TypeOK'
  BY <1>1 DEF TypeOK, Active
<1>3. Loaded' /\ Phases'
  BY <1>1 DEF Loaded, Phases, Up
<1>4. ASSUME NEW r \in Reqs, at[r] = "wait" PROVE now' <= entered[r] + PollTimeout(r)
  <2>1. ~(now >= entered[r] + PollTimeout(r))
    BY <1>1, <1>4 DEF Due, WaitExpired
  <2>2. PollTimeout(r) \in Int
    BY <1>1 DEF Loaded, Numbers, PollTimeout
  <2> QED
    BY <1>1, <2>1, <2>2 DEF TypeOK
<1>5. InTime'
  BY <1>1, <1>4 DEF InTime, PollTimeout
<1>6. PollsAreWritten' /\ CutOnlyAfterGrace' /\ SuccessIsComplete'
  BY <1>1 DEF Phases, Up, PollsAreWritten, CutOnlyAfterGrace, SuccessIsComplete
<1> QED
  BY <1>2, <1>3, <1>5, <1>6

\* Every step keeps the invariant.
LEMMA IInvStep == IInv /\ [Next]_vars => IInv'
<1> SUFFICES ASSUME IInv, [Next]_vars PROVE IInv'
  OBVIOUS
<1>1. CASE UNCHANGED vars
  BY <1>1 DEF vars, requests, IInv, TypeOK, Active, Loaded, Phases, Up, InTime, PollTimeout,
              PollsAreWritten, CutOnlyAfterGrace, SuccessIsComplete
<1> QED
  BY <1>1, BootStep, RunStep, RequestStep, TickStep DEF Next

-----------------------------------------------------------------------------
\* The inductive invariant holds in every reachable state.
THEOREM ServerInvariant == Spec => []IInv
BY InitIInv, IInvStep, PTL DEF Spec

\* Type correctness.
THEOREM ServerTypeCorrect == Spec => []TypeOK
<1>1. IInv => TypeOK
  BY DEF IInv
<1> QED
  BY <1>1, ServerInvariant, PTL

\* The comparison in Load (config.go:85) is enough: whatever the timeouts, and
\* whatever a client asks for, the answer of GET /result is written in time.
THEOREM PollsWritten == Spec => []PollsAreWritten
<1>1. IInv => PollsAreWritten
  BY DEF IInv
<1> QED
  BY <1>1, ServerInvariant, PTL

\* A request under way at the signal is cut short only when ShutdownTimeout is
\* over, and never with exit code 0 (server.go:147-152).
THEOREM GraceKept == Spec => []CutOnlyAfterGrace
<1>1. IInv => CutOnlyAfterGrace
  BY DEF IInv
<1> QED
  BY <1>1, ServerInvariant, PTL

\* Exit code 0 means that every request was answered and every cleanup goroutine
\* was stopped (server.go:154-159).
THEOREM SuccessComplete == Spec => []SuccessIsComplete
<1>1. IInv => SuccessIsComplete
  BY DEF IInv
<1> QED
  BY <1>1, ServerInvariant, PTL

-----------------------------------------------------------------------------
(* What may panic.                                                          *)

\* The configuration of a server that is up is an environment with its defaults
\* filled in, and a limiter runs only with a rate.
Configured ==
    /\ Up => \A v \in Numbers : Env(cfg)[v] = cfg[v]
    /\ Up /\ "limiter" \in background => cfg["RPS"] > 0

\* Filling in the defaults twice changes nothing more.
LEMMA EnvTwice ==
    ASSUME NEW env \in Envs, NEW v \in Numbers
    PROVE  Env(Env(env))[v] = Env(env)[v]
<1>1. v \in DOMAIN env /\ DOMAIN Env(env) = DOMAIN env
  BY ServerAssumption DEF Env
<1> QED
  BY <1>1 DEF Env

\* Each step keeps Configured and OnlyUsedNumbersPanic.
LEMMA PanicStep ==
    ASSUME IInv, Configured, OnlyUsedNumbersPanic, [Next]_vars
    PROVE  Configured' /\ OnlyUsedNumbersPanic'
<1> DEFINE Bad(n) == \/ n["QUEUE"] < 0
                     \/ n["DURATION"] <= 0
                     \/ n["RPS"] > 0 /\ n["WINDOW"] <= 0
<1>1. CASE Start
  <2>1. /\ cfg' = Env(cfg) /\ cfg \in Envs /\ UNCHANGED exit /\ exit # "panic"
        /\ "limiter" \in background' => cfg'["RPS"] > 0
    BY <1>1 DEF Start, IInv, Loaded, Phases
  <2>2. \A v \in Numbers : Env(cfg')[v] = cfg'[v]
    BY <2>1, EnvTwice
  <2> QED
    BY <2>1, <2>2 DEF Configured, OnlyUsedNumbersPanic
<1>2. CASE LoadRejects \/ NewPanics
  <2>1. /\ phase' = "ended" /\ UNCHANGED <<cfg, background>>
        /\ \/ exit' = "1"
           \/ /\ exit' = "panic"
              /\ Env(cfg')["QUEUE"] < 0
    BY <1>2 DEF LoadRejects, NewPanics, End
  <2> QED
    BY <2>1 DEF Configured, OnlyUsedNumbersPanic, Up
<1>3. CASE TickerPanics
  <2>1. /\ Up /\ phase' = "ended" /\ UNCHANGED <<cfg, background>>
        /\ \/ "lockout" \in background /\ cfg["DURATION"] <= 0
           \/ "limiter" \in background /\ cfg["WINDOW"] <= 0
    BY <1>3 DEF TickerPanics, Stop, End, Up
  <2>2. Bad(Env(cfg))
    BY <2>1 DEF Configured, Numbers
  <2> QED
    BY <2>1, <2>2 DEF Configured, OnlyUsedNumbersPanic, Up
<1>4. CASE ListenFails \/ Shutdown
  <2>1. /\ phase' = "ended" /\ UNCHANGED cfg /\ exit' # "panic"
        /\ background' \subseteq background
    BY <1>4 DEF ListenFails, Shutdown, ShutdownDone, ShutdownGivesUp, Stop, End
  <2> QED
    BY <2>1 DEF Configured, OnlyUsedNumbersPanic, Up
<1>5. CASE Signal
  BY <1>5 DEF Signal, Configured, OnlyUsedNumbersPanic, Up
<1>6. ASSUME UNCHANGED <<phase, exit, cfg, background>>
      PROVE  Configured' /\ OnlyUsedNumbersPanic'
  BY <1>6 DEF Configured, OnlyUsedNumbersPanic, Up
<1>7. ASSUME NEW r \in Reqs, Arrive(r) \/ Handle(r)
      PROVE  UNCHANGED <<phase, exit, cfg, background>>
  BY <1>7 DEF Arrive, Handle, BodyRead, BodyExpires, WaitEnds, Serve
<1>8. CASE Tick \/ UNCHANGED vars
  BY <1>6, <1>8 DEF Tick, vars
<1> QED
  BY <1>1, <1>2, <1>3, <1>4, <1>5, <1>6, <1>7, <1>8 DEF Next, Boot, Run

\* The process panics only by a number that is in use: not by the window of a
\* limiter that is disabled, nor by a batch size (server.go:39, local.go:48).
THEOREM PanicsOnlyByUse == Spec => []OnlyUsedNumbersPanic
<1>1. Init => Configured /\ OnlyUsedNumbersPanic
  BY DEF Init, Configured, OnlyUsedNumbersPanic, Up
<1> QED
  BY <1>1, PanicStep, ServerInvariant, PTL DEF Spec

=============================================================================
