---------------------------- MODULE OnlineClient ----------------------------
(***************************************************************************)
(* The online side of the Go library, pkg/client/online.go (the Go SDK     *)
(* holds a copy of it), on a network that may lose a request or an answer. *)
(* A call submits one request, with Submit, DoSync or Do, and collects its *)
(* result with WaitResult, which the application may call again after an   *)
(* error when it knows the ID.                                             *)
(*                                                                         *)
(* The hub takes only steps that Broker allows, and Broker is what         *)
(* HubRouter implements; added to it is whether a result is still in the   *)
(* store.  A handler runs on after its client is gone.                     *)
(***************************************************************************)
EXTENDS Naturals, FiniteSets

CONSTANTS
    Calls,          \* calls, and the requests they submit
    Methods,        \* the methods an application calls: "Submit", "DoSync", "Do"
    MaxRetries,     \* opts.MaxRetries
    MaxWaits,       \* bound: how often an application calls WaitResult for an ID
    Lossy           \* whether the network may lose a message

ASSUME OnlineClientAssumption ==
    /\ Methods \subseteq {"Submit", "DoSync", "Do"}
    /\ MaxRetries \in Nat
    /\ MaxWaits \in Nat
    /\ Lossy \in BOOLEAN

MaxPolls == MaxWaits * (MaxRetries + 1)
Polls == Calls \X (1..MaxPolls)
PollReq == [g \in Polls |-> g[1]]

VARIABLES
    status, overdue, resolved, told, verdict,   \* of Broker
    kept,           \* requests whose result is in the store
    method,         \* the method that makes each call
    pc,             \* where each call is
    polls,          \* how many GETs each call has sent
    attempt,        \* the loop counter of WaitResult
    waits,          \* how often WaitResult was called
    ret,            \* what the call returned last
    failed,         \* history: calls that lost a message
    swept           \* history: requests whose result expired in the store

Hub == INSTANCE Broker WITH Reqs <- Calls

hub == <<status, overdue, resolved, told, verdict, kept, swept>>
client == <<method, pc, polls, attempt, waits, ret, failed>>
vars == <<hub, client>>

Errors == {"full", "unknown", "exhausted", "network", "status"}

TypeOK ==
    /\ kept \subseteq resolved
    /\ method \in [Calls -> Methods]
    /\ pc \in [Calls -> {"start", "post", "idle", "poll", "get", "done"}]
    /\ polls \in [Calls -> 0..MaxPolls]
    /\ attempt \in [Calls -> 0..(MaxRetries + 1)]
    /\ waits \in [Calls -> 0..MaxWaits]
    /\ ret \in [Calls -> {"none", "result"} \cup Errors]
    /\ failed \subseteq Calls
    /\ swept \subseteq Calls

Init ==
    /\ Hub!Init
    /\ kept = {}
    /\ method \in [Calls -> Methods]
    /\ pc = [c \in Calls |-> "start"]
    /\ polls = [c \in Calls |-> 0]
    /\ attempt = [c \in Calls |-> 0]
    /\ waits = [c \in Calls |-> 0]
    /\ ret = [c \in Calls |-> "none"]
    /\ failed = {}
    /\ swept = {}

-----------------------------------------------------------------------------
(* The hub: the handlers, and the worker behind them.                       *)

Posted(c) == pc[c] # "start"

HubQueues(c) ==
    /\ Posted(c)
    /\ Hub!Enqueue(c) \/ Hub!Refuse(c)
    /\ UNCHANGED <<kept, swept, client>>

HubWorks(c) ==
    /\ Hub!HandOut(c) \/ Hub!Lapse(c)
    /\ UNCHANGED <<kept, swept, client>>

HubExpires(c) ==
    /\ Posted(c)
    /\ Hub!Expire(c)
    /\ UNCHANGED <<kept, swept, client>>

\* A worker pushes, for the first time or again.
HubStores(c) ==
    /\ Posted(c)
    /\ Hub!Resolve(c)
    /\ kept' = kept \cup {c}
    /\ UNCHANGED <<swept, client>>

HubSweeps(c) ==
    /\ c \in kept
    /\ kept' = kept \ {c}
    /\ swept' = swept \cup {c}
    /\ UNCHANGED <<status, overdue, resolved, told, verdict, client>>

\* A Get that finds the result in the store removes it; one that was waiting for
\* it is woken, and leaves it there.
Hand(c) == c \in kept /\ kept' \in {kept, kept \ {c}}

\* The POST is answered, the synchronous one after its Get.
HubTells(c) ==
    /\ Hub!Tell(c)
    /\ CASE told'[c] = "200" -> method[c] # "Submit" /\ Hand(c)
         [] told'[c] = "500" -> method[c] # "Submit" /\ c \notin kept /\ UNCHANGED kept
         [] OTHER            -> UNCHANGED kept
    /\ UNCHANGED <<swept, client>>

\* A GET is answered.
HubReads(c) ==
    /\ \E g \in Polls :
          /\ g[1] = c /\ g[2] <= polls[c]
          /\ Hub!Read(g)
          /\ CASE verdict'[g] = "result"  -> Hand(c)
               [] verdict'[g] = "unknown" -> c \notin kept /\ UNCHANGED kept
               [] OTHER                   -> UNCHANGED kept
    /\ UNCHANGED <<swept, client>>

-----------------------------------------------------------------------------
(* The POST of Submit, DoSync and Do.                                       *)

Goto(c, label) == pc' = [pc EXCEPT ![c] = label]

\* The call returns; the application keeps the ID if it was told it.
Return(c, value) ==
    /\ ret' = [ret EXCEPT ![c] = value]
    /\ Goto(c, IF value # "result" /\ pc[c] \in {"poll", "get"} /\ method[c] # "Do"
               THEN "idle" ELSE "done")

Post(c) ==
    /\ pc[c] = "start"
    /\ Goto(c, "post")
    /\ UNCHANGED <<hub, method, polls, attempt, waits, ret, failed>>

\* Mutant of PostReturns: Do polls for a result it was given.
PostReturnsPolls(c) ==
    /\ pc[c] = "post"
    /\ told[c] # "none"
    /\ IF told[c] \in {"200", "202"} /\ method[c] = "Do" /\ waits[c] < MaxWaits
       THEN Goto(c, "poll") /\ waits' = [waits EXCEPT ![c] = @ + 1] /\ UNCHANGED ret
       ELSE /\ Return(c, CASE told[c] = "503" -> "full" [] told[c] = "500" -> "status"
                           [] OTHER -> "result")
            /\ UNCHANGED waits
    /\ UNCHANGED <<hub, method, polls, attempt, failed>>

\* 202 hands over the ID: Do goes on to WaitResult, the others return.
PostReturns(c) ==
    /\ pc[c] = "post"
    /\ \/ /\ told[c] = "202" /\ method[c] = "Do"
          /\ waits[c] < MaxWaits
          /\ Goto(c, "poll")
          /\ waits' = [waits EXCEPT ![c] = @ + 1]
          /\ UNCHANGED ret
       \/ /\ told[c] = "202" /\ method[c] # "Do"
          /\ Goto(c, "idle")
          /\ UNCHANGED <<waits, ret>>
       \/ /\ told[c] \in {"200", "500", "503"}
          /\ Return(c, CASE told[c] = "200" -> "result" [] told[c] = "503" -> "full"
                         [] OTHER -> "status")
          /\ UNCHANGED waits
    /\ UNCHANGED <<hub, method, polls, attempt, failed>>

\* No answer came, or half of one: the client cannot tell whether the hub has it.
PostFails(c) ==
    /\ Lossy
    /\ pc[c] = "post"
    /\ Return(c, "network")
    /\ failed' = failed \cup {c}
    /\ UNCHANGED <<hub, method, polls, attempt, waits>>

-----------------------------------------------------------------------------
(* WaitResult.                                                              *)

WaitResult(c) ==
    /\ pc[c] = "idle"
    /\ waits[c] < MaxWaits
    /\ waits' = [waits EXCEPT ![c] = @ + 1]
    /\ attempt' = [attempt EXCEPT ![c] = 0]
    /\ Goto(c, "poll")
    /\ UNCHANGED <<hub, method, polls, ret, failed>>

PollSend(c) ==
    /\ pc[c] = "poll"
    /\ attempt[c] <= MaxRetries
    /\ polls[c] < MaxPolls
    /\ polls' = [polls EXCEPT ![c] = @ + 1]
    /\ Goto(c, "get")
    /\ UNCHANGED <<hub, method, attempt, waits, ret, failed>>

PollsExhausted(c) ==
    /\ pc[c] = "poll"
    /\ attempt[c] > MaxRetries
    /\ Return(c, "exhausted")
    /\ UNCHANGED <<hub, method, polls, attempt, waits, failed>>

\* Mutants of PollReturns: 204 is not counted; 404 is taken for "not yet".
PollReturnsUncounted(c) ==
    LET v == verdict[<<c, polls[c]>>] IN
    /\ pc[c] = "get"
    /\ v # "none"
    /\ IF v = "later" THEN Goto(c, "poll") /\ UNCHANGED <<attempt, ret>>
       ELSE Return(c, v) /\ UNCHANGED attempt
    /\ UNCHANGED <<hub, method, polls, waits, failed>>
PollReturnsPatient(c) ==
    LET v == verdict[<<c, polls[c]>>] IN
    /\ pc[c] = "get"
    /\ v # "none"
    /\ IF v # "result" THEN /\ Goto(c, "poll") /\ UNCHANGED ret
                            /\ attempt' = [attempt EXCEPT ![c] = @ + 1]
       ELSE Return(c, v) /\ UNCHANGED attempt
    /\ UNCHANGED <<hub, method, polls, waits, failed>>

\* 200 and 404 end the loop, 204 repeats it.
PollReturns(c) ==
    LET v == verdict[<<c, polls[c]>>] IN
    /\ pc[c] = "get"
    /\ v # "none"
    /\ IF v = "later" THEN /\ Goto(c, "poll") /\ UNCHANGED ret
                           /\ attempt' = [attempt EXCEPT ![c] = @ + 1]
       ELSE Return(c, v) /\ UNCHANGED attempt
    /\ UNCHANGED <<hub, method, polls, waits, failed>>

\* An error of the transport is not retried; the GET may still reach the hub.
PollFails(c) ==
    /\ Lossy
    /\ pc[c] = "get"
    /\ Return(c, "network")
    /\ failed' = failed \cup {c}
    /\ UNCHANGED <<hub, method, polls, attempt, waits>>

-----------------------------------------------------------------------------
HubStep(c) ==
    \/ HubQueues(c) \/ HubWorks(c) \/ HubExpires(c) \/ HubStores(c)
    \/ HubSweeps(c) \/ HubTells(c) \/ HubReads(c)

Do(c) ==
    \/ PostReturns(c) \/ PollSend(c) \/ PollsExhausted(c) \/ PollReturns(c)

Next == \E c \in Calls :
    \/ HubStep(c) \/ Do(c)
    \/ Post(c) \/ PostFails(c) \/ WaitResult(c) \/ PollFails(c)

Spec == Init /\ [][Next]_vars

\* The client goes on when it can, and the hub ends every handler it runs, as
\* its deadlines make it (SubmissionsAnswered of HubRouter).  Nothing makes a
\* worker come, an application call again, or the network fail.
Fairness == \A c \in Calls :
    WF_vars(Do(c)) /\ WF_vars(HubQueues(c)) /\ WF_vars(HubTells(c)) /\ WF_vars(HubReads(c))
FairSpec == Spec /\ Fairness

-----------------------------------------------------------------------------
\* The GETs of a call that were answered so.
Answers(c, v) == {n \in 1..polls[c] : verdict[<<c, n>>] = v}

\* The client is told that its ID is unknown only after the result was lost on
\* its way to it, or the request or its result expired: never because the client
\* itself had the result and polled on, or gave up on an answer (online.go:111-137).
UnknownMeansLost ==
    \A c \in Calls : ret[c] = "unknown" => c \in failed \cup swept \cup overdue

\* A call gives up only when its last MaxRetries GETs were all answered "not yet",
\* as the comment at online.go:92-93 says: never with a lost answer, a result or an
\* unknown ID among them.  (The code sends one GET more than the comment counts.)
ExhaustedMeansNotYet ==
    \A c \in Calls : ret[c] = "exhausted" =>
        \/ pc[c] \in {"poll", "get"}      \* the application is waiting again
        \/ /\ polls[c] >= MaxRetries
           /\ (polls[c] - MaxRetries + 1)..polls[c] \subseteq Answers(c, "later")

\* Every call returns, on a hub whose worker never comes too.
EveryCallReturns ==
    \A c \in Calls : (pc[c] \in {"post", "poll", "get"}) ~> (pc[c] \in {"idle", "done"})

=============================================================================
