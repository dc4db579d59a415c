------------------------------- MODULE Server -------------------------------
(***************************************************************************)
(* The life of the process: cmd/hub-router/main.go loads the configuration *)
(* (internal/config), builds the server and runs it until a signal         *)
(* (internal/server); between, each HTTP request meets the timeouts of     *)
(* net/http and the checks in front of its handler.                        *)
(*                                                                         *)
(* net/http is external: the write deadline of a request runs from the     *)
(* arrival of its headers, the read deadline covers its body, Shutdown     *)
(* waits for the requests under way.  A timer fires on time: the clock     *)
(* does not pass a deadline before what the deadline ends has ended.       *)
(***************************************************************************)
EXTENDS Integers

CONSTANTS
    Reqs,           \* HTTP requests
    Route,          \* "sync", "result", "pull" or "health", for each request
    AdminKey,       \* the X-Admin-API-Key header of each request
    NoKey,          \* no key: a header or a variable that is not set
    Asked,          \* ?timeout= of each request; 0 when absent or not a duration
    Envs,           \* environments the process may be started in
    Unset,          \* a variable that is not set, or does not parse
    MaxTime         \* bound on the clock

Numbers == {"READ", "WRITE", "LONGPOLL", "SHUTDOWN", "QUEUE", "BATCH",
            "RPS", "DURATION", "WINDOW"}

ASSUME ServerAssumption ==
    /\ Route \in [Reqs -> {"sync", "result", "pull", "health"}]
    /\ Asked \in [Reqs -> Nat]
    /\ \A env \in Envs : /\ DOMAIN env = Numbers \cup {"ADMIN"}
                         /\ \A v \in Numbers : env[v] \in Int \cup {Unset}
    /\ MaxTime \in Nat

VARIABLES
    now,            \* the clock
    phase,          \* where main is
    exit,           \* how the process ended
    cfg,            \* the environment, then the configuration made from it
    background,     \* the goroutines of the store, the lockout and the limiter
    signalAt,       \* when the signal came; -1 before
    at,             \* where each request is
    since,          \* when its headers came
    entered,        \* when its handler began to wait
    status          \* the status of its answer

requests == <<at, since, entered, status>>
vars == <<now, phase, exit, cfg, background, signalAt, requests>>

Active == {r \in Reqs : at[r] \in {"body", "wait"}}

TypeOK ==
    /\ now \in 0..MaxTime
    /\ phase \in {"load", "running", "closing", "ended"}
    /\ exit \in {"none", "0", "1", "panic"}
    /\ background \subseteq {"store", "lockout", "limiter"}
    /\ signalAt \in -1..now
    /\ at \in [Reqs -> {"away", "body", "wait", "answered", "late", "cut"}]
    /\ since \in [Reqs -> 0..now] /\ entered \in [Reqs -> 0..now]
    /\ \A r \in Reqs : since[r] <= entered[r] \/ at[r] # "wait"
    /\ phase = "load" => Active = {} /\ background = {}

Init ==
    /\ now = 0
    /\ phase = "load"
    /\ exit = "none"
    /\ cfg \in Envs
    /\ background = {}
    /\ signalAt = -1
    /\ at = [r \in Reqs |-> "away"]
    /\ since = [r \in Reqs |-> 0]
    /\ entered = [r \in Reqs |-> 0]
    /\ status = [r \in Reqs |-> 0]

-----------------------------------------------------------------------------
(* main, config.Load and server.New.                                        *)

\* What a variable that is not set, or does not parse, stands for, in seconds.
Default == [v \in Numbers |->
    CASE v = "READ" -> 10        [] v = "WRITE" -> 35
      [] v = "LONGPOLL" -> 30    [] v = "SHUTDOWN" -> 15
      [] v = "QUEUE" -> 10000    [] v = "BATCH" -> 100
      [] v = "RPS" -> 50
      [] v = "DURATION" -> 900   [] v = "WINDOW" -> 600]

Env(env) == [v \in DOMAIN env |-> IF env[v] = Unset THEN Default[v] ELSE env[v]]

End(code) == phase' = "ended" /\ exit' = code

LoadRejects ==
    /\ phase = "load"
    /\ Env(cfg)["WRITE"] <= Env(cfg)["LONGPOLL"]
    /\ End("1")
    /\ UNCHANGED <<now, cfg, background, signalAt, requests>>

\* NewKeyedQueue makes a channel of the size it is given.
NewPanics ==
    /\ phase = "load"
    /\ Env(cfg)["WRITE"] > Env(cfg)["LONGPOLL"]
    /\ Env(cfg)["QUEUE"] < 0
    /\ End("panic")
    /\ UNCHANGED <<now, cfg, background, signalAt, requests>>

\* Mutant of Start: Load does not compare the timeouts.
StartUnchecked ==
    /\ phase = "load"
    /\ Env(cfg)["QUEUE"] >= 0
    /\ cfg' = Env(cfg)
    /\ background' = {"store", "lockout"} \cup
                     (IF cfg'["RPS"] > 0 THEN {"limiter"} ELSE {})
    /\ phase' = "running"
    /\ UNCHANGED <<now, exit, signalAt, requests>>

\* Mutant of Start: the limiter is made whatever the rate is.
StartAlwaysLimits ==
    /\ phase = "load"
    /\ Env(cfg)["WRITE"] > Env(cfg)["LONGPOLL"]
    /\ Env(cfg)["QUEUE"] >= 0
    /\ cfg' = Env(cfg)
    /\ background' = {"store", "lockout", "limiter"}
    /\ phase' = "running"
    /\ UNCHANGED <<now, exit, signalAt, requests>>

\* Load, New, and the start of ListenAndServe.
Start ==
    /\ phase = "load"
    /\ Env(cfg)["WRITE"] > Env(cfg)["LONGPOLL"]
    /\ Env(cfg)["QUEUE"] >= 0
    /\ cfg' = Env(cfg)
    /\ background' = {"store", "lockout"} \cup
                     (IF cfg'["RPS"] > 0 THEN {"limiter"} ELSE {})
    /\ phase' = "running"
    /\ UNCHANGED <<now, exit, signalAt, requests>>

Stop(code) ==
    /\ End(code)
    /\ at' = [r \in Reqs |-> IF r \in Active THEN "cut" ELSE at[r]]
    /\ UNCHANGED <<now, cfg, signalAt, since, entered, status>>

\* A cleanup goroutine, whenever it gets to run, panics on a ticker that is not
\* positive and takes the process with it.
TickerPanics ==
    /\ phase \in {"running", "closing"}
    /\ \/ "lockout" \in background /\ cfg["DURATION"] <= 0
       \/ "limiter" \in background /\ cfg["WINDOW"] <= 0
    /\ Stop("panic")
    /\ UNCHANGED background

\* ListenAndServe fails: the address is taken, or the listener breaks.
ListenFails ==
    /\ phase = "running"
    /\ Stop("1")
    /\ UNCHANGED background

-----------------------------------------------------------------------------
(* Requests.                                                                *)

\* AdminAuth: open when no admin key is configured.
AdminAuth(r) == cfg["ADMIN"] = NoKey \/ AdminKey[r] = cfg["ADMIN"]

\* The answer is written unless the write deadline has passed.
Answer(r, code) ==
    /\ at' = [at EXCEPT ![r] = IF cfg["WRITE"] > 0 /\ now >= since[r] + cfg["WRITE"]
                               THEN "late" ELSE "answered"]
    /\ status' = [status EXCEPT ![r] = code]

\* The headers are in.  All but GET /result decode a body or wait for nothing.
Arrive(r) ==
    /\ phase = "running"
    /\ at[r] = "away"
    /\ at' = [at EXCEPT ![r] = IF Route[r] = "result" THEN "wait" ELSE "body"]
    /\ since' = [since EXCEPT ![r] = now]
    /\ entered' = [entered EXCEPT ![r] = now]
    /\ UNCHANGED <<now, phase, exit, cfg, background, signalAt, status>>

ReadExpired(r) == cfg["READ"] > 0 /\ now >= since[r] + cfg["READ"]

\* HandleSync has decoded the body and waits in Get.
BodyRead(r) ==
    /\ at[r] = "body"
    /\ Route[r] = "sync"
    /\ ~ReadExpired(r)
    /\ at' = [at EXCEPT ![r] = "wait"]
    /\ entered' = [entered EXCEPT ![r] = now]
    /\ UNCHANGED <<now, phase, exit, cfg, background, signalAt, since, status>>

BodyExpires(r) ==
    /\ at[r] = "body"
    /\ Route[r] = "sync"
    /\ ReadExpired(r)
    /\ Answer(r, 400)
    /\ UNCHANGED <<now, phase, exit, cfg, background, signalAt, since, entered>>

\* ?timeout= shortens the wait, never extends it.
PollTimeout(r) == IF Asked[r] > 0 /\ Asked[r] < cfg["LONGPOLL"]
                  THEN Asked[r] ELSE cfg["LONGPOLL"]

WaitExpired(r) == at[r] = "wait" /\ now >= entered[r] + PollTimeout(r)

\* The wait ends with a result, or by its deadline.
WaitEnds(r) ==
    /\ at[r] = "wait"
    /\ \/ ~WaitExpired(r) /\ Answer(r, 200)
       \/ WaitExpired(r) /\ Answer(r, IF Route[r] = "sync" THEN 202 ELSE 204)
    /\ UNCHANGED <<now, phase, exit, cfg, background, signalAt, since, entered>>

\* A handler that panics is answered 500, and the server goes on.
Recovery(panics, code) == IF panics THEN 500 ELSE code

\* The handlers that do not wait.  A negative batch panics in HandlePull.
Serve(r) ==
    /\ at[r] = "body"
    /\ \/ Route[r] = "pull" /\ Answer(r, Recovery(cfg["BATCH"] < 0, 200))
       \/ Route[r] = "health" /\ Answer(r, IF AdminAuth(r) THEN 200 ELSE 401)
    /\ UNCHANGED <<now, phase, exit, cfg, background, signalAt, since, entered>>

-----------------------------------------------------------------------------
(* Run after the signal.                                                    *)

Signal ==
    /\ phase = "running"
    /\ phase' = "closing"
    /\ signalAt' = now
    /\ UNCHANGED <<now, exit, cfg, background, requests>>

\* Mutant of ShutdownDone: Close instead of Shutdown.
ShutdownAtOnce ==
    /\ phase = "closing"
    /\ Stop("0")
    /\ background' = {}

\* Shutdown saw the last request end; then the cleanup goroutines are stopped.
ShutdownDone ==
    /\ phase = "closing"
    /\ Active = {}
    /\ Stop("0")
    /\ background' = {}

GraceOver == now >= signalAt + cfg["SHUTDOWN"]

\* Mutant of ShutdownGivesUp: there is no deadline.
NeverGivesUp ==
    /\ phase = "closing"
    /\ Active # {}
    /\ FALSE
    /\ Stop("1")
    /\ UNCHANGED background

\* Shutdown returns the error of its context, Run returns it, main exits with 1.
ShutdownGivesUp ==
    /\ phase = "closing"
    /\ Active # {}
    /\ GraceOver
    /\ Stop("1")
    /\ UNCHANGED background

-----------------------------------------------------------------------------
\* The clock moves on when no timer is due.
Due ==
    \/ phase = "closing" /\ Active # {} /\ GraceOver
    \/ \E r \in Reqs : \/ at[r] = "body" /\ (Route[r] # "sync" \/ ReadExpired(r))
                       \/ WaitExpired(r)

Tick ==
    /\ phase \in {"running", "closing"}
    /\ now < MaxTime
    /\ ~Due
    /\ now' = now + 1
    /\ UNCHANGED <<phase, exit, cfg, background, signalAt, requests>>

Boot == LoadRejects \/ NewPanics \/ Start
Run == TickerPanics \/ ListenFails \/ Signal
Shutdown == ShutdownDone \/ ShutdownGivesUp
Handle(r) == BodyRead(r) \/ BodyExpires(r) \/ WaitEnds(r) \/ Serve(r)

Next ==
    \/ Tick \/ Boot \/ Run \/ Shutdown
    \/ \E r \in Reqs : Arrive(r) \/ Handle(r)

Spec == Init /\ [][Next]_vars

\* Time passes, timers fire, handlers that do not wait return, and Shutdown notices
\* what it waits for.  Nothing makes a body or a result come.
Timers(r) == BodyExpires(r) \/ Serve(r) \/ (WaitExpired(r) /\ WaitEnds(r))
FairSpec == /\ Spec /\ WF_vars(Tick) /\ WF_vars(Shutdown)
            /\ \A r \in Reqs : WF_vars(Timers(r))

-----------------------------------------------------------------------------
\* The comparison in Load is enough for GET /result: a poll that ends by its
\* timeout, or before, is written within the write deadline (config.go:85).
PollsAreWritten ==
    \A r \in Reqs : Route[r] = "result" => at[r] # "late"

\* Every request under way at the signal has the whole grace period to end: the
\* process cuts it short no earlier, and then does not report success
\* (server.go:147-152).
CutOnlyAfterGrace ==
    \A r \in Reqs : at[r] = "cut" /\ signalAt >= 0 /\ exit # "panic" =>
        /\ now >= signalAt + cfg["SHUTDOWN"]
        /\ exit = "1"

\* Success is reported only when all requests were answered and no goroutine of
\* the server is left.
SuccessIsComplete ==
    exit = "0" => background = {} /\ \A r \in Reqs : at[r] \notin {"body", "wait", "cut"}

\* Load checks no number but the timeouts.  A panic ends the process only by a number
\* that is in use: the window of a limiter that HR_RATE_LIMIT_RPS disables
\* (docs/configuration.md:71, server.go:39) does no harm, nor does a batch size, whose
\* panic is that of one request (local.go:48, recovery.go).
OnlyUsedNumbersPanic ==
    LET n == Env(cfg)
    IN  exit = "panic" => \/ n["QUEUE"] < 0 \/ n["DURATION"] <= 0
                          \/ n["RPS"] > 0 /\ n["WINDOW"] <= 0

\* After the signal the process ends, whatever its requests are waiting for, if
\* the grace period lies within the bound on the clock.
SignalEnds ==
    (phase = "closing" /\ signalAt + cfg["SHUTDOWN"] <= MaxTime) ~> (phase = "ended")

=============================================================================
