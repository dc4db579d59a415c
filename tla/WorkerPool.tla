----------------------------- MODULE WorkerPool -----------------------------
(***************************************************************************)
(* What the poll loop of a worker promises, in whichever language it is    *)
(* written: a request it takes is lost on the way or processed once, never *)
(* more than Workers are processed at a time, and the loop returns only    *)
(* when nothing it took is unprocessed or unfinished.  Only a worker that  *)
(* quits may let go of what it has.                                        *)
(***************************************************************************)
EXTENDS Naturals, FiniteSets

CONSTANTS
    Reqs,           \* requests
    Workers         \* how many may be processed at a time

VARIABLES
    state,          \* how far each request has come
    open,           \* whether the loop has not returned
    quit            \* whether the worker was told to stop, or has failed

vars == <<state, open, quit>>

In(s) == {r \in Reqs : state[r] = s}
Move(S, s) == state' = [r \in Reqs |-> IF r \in S THEN s ELSE state[r]]

Init ==
    /\ state = [r \in Reqs |-> "waiting"]
    /\ open = TRUE
    /\ quit = FALSE

\* The hub gives out the requests of an answer to a pull.
Take(S) ==
    /\ S \subseteq In("waiting")
    /\ open
    /\ Move(S, "coming")
    /\ UNCHANGED <<open, quit>>

Receive(S) ==
    /\ S \subseteq In("coming")
    /\ Move(S, "taken")
    /\ UNCHANGED <<open, quit>>

\* The answer is lost, and the requests in it; a worker may fail of it.
Lose(S) ==
    /\ S \subseteq In("coming")
    /\ Move(S, "lost")
    /\ quit' \in {quit, TRUE}
    /\ UNCHANGED open

Start(r) ==
    /\ state[r] = "taken"
    /\ Cardinality(In("busy")) < Workers
    /\ state' = [state EXCEPT ![r] = "busy"]
    /\ UNCHANGED <<open, quit>>

Finish(r) ==
    /\ state[r] = "busy"
    /\ state' = [state EXCEPT ![r] = "finished"]
    /\ UNCHANGED <<open, quit>>

\* What the worker had received and had not finished may be given up.
Quit(S) ==
    /\ quit' = TRUE
    /\ S \subseteq In("taken") \cup In("busy")
    /\ Move(S, "lost")
    /\ UNCHANGED open

Close ==
    /\ open
    /\ In("coming") \cup In("taken") \cup In("busy") = {}
    /\ open' = FALSE
    /\ UNCHANGED <<state, quit>>

Next ==
    \/ \E S \in SUBSET Reqs : Take(S) \/ Receive(S) \/ Lose(S) \/ Quit(S)
    \/ \E r \in Reqs : Start(r) \/ Finish(r)
    \/ Close

Spec == Init /\ [][Next]_vars

=============================================================================
