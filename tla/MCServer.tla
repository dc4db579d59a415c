------------------------------ MODULE MCServer ------------------------------
(* An instance of Server for TLC: one request of each route, in a sane          *)
(* environment and in those at the edges.  The environments set small values,   *)
(* so that the timeouts cross within the bound on the clock.                    *)
EXTENDS Server, TLC
CONSTANTS poll1, sync1, pull1, health1, secret

Routes == poll1 :> "result" @@ sync1 :> "sync" @@ pull1 :> "pull" @@ health1 :> "health"
\* The poll asks for more than it may wait.
AskedTimes == [r \in Reqs |-> IF r = poll1 THEN 9 ELSE 0]
NoKeys == [r \in Reqs |-> NoKey]

EnvOf(read, write, poll, shut, queue, batch, rps, dur, win, admin) ==
    "READ" :> read @@ "WRITE" :> write @@ "LONGPOLL" :> poll @@ "SHUTDOWN" :> shut
    @@ "QUEUE" :> queue @@ "BATCH" :> batch @@ "RPS" :> rps @@ "DURATION" :> dur
    @@ "WINDOW" :> win @@ "ADMIN" :> admin

\* A sane environment, one without limiter and read timeout, one where long polls
\* end before they start, and those at the edges.
EdgeEnvs == {
    EnvOf(1, 4, 3, 2, Unset, Unset, Unset, Unset, Unset, NoKey),
    EnvOf(0, 3, 2, 3, 0, -1, 0, 1, 0, secret),
    EnvOf(1, 0, -1, 0, 1, 1, 1, 1, 2, NoKey),
    EnvOf(1, 3, 3, 2, Unset, 1, 1, 1, 2, NoKey),
    EnvOf(1, 4, 3, 2, -1, 1, 1, 1, 2, NoKey),
    EnvOf(1, 4, 3, 2, 1, 1, 1, 0, 2, NoKey),
    EnvOf(1, 4, 3, 2, 1, 1, 1, 1, 0, NoKey),
    EnvOf(Unset, Unset, Unset, Unset, Unset, Unset, Unset, Unset, Unset, NoKey)}
=============================================================================
