---------------------------- MODULE ServerProcess ----------------------------
(***************************************************************************)
(* The life of the process (cmd/server/main.go): run opens the stores one  *)
(* after another, starts a goroutine that waits for a signal, and serves.  *)
(* The signal makes that goroutine call http.Server.Shutdown, which closes *)
(* the listener and waits for the requests that are being served, at most  *)
(* thirty seconds; meanwhile run returns from ListenAndServe and waits for *)
(* the goroutine on an unbuffered channel; its deferred calls then close   *)
(* Redis and MongoDB, and the process exits.                               *)
(*                                                                         *)
(* Requests are served all the while.  Some are health checks, which are   *)
(* module HealthCheck: they ping the stores that the process is closing.   *)
(***************************************************************************)
EXTENDS Naturals, Sequences, FiniteSets

CONSTANTS
    Requests,
    Checks,   \* those to /healthz
    Stores    \* what is pinged: "mongodb" and "redis"

ASSUME ChecksAssumption == Checks \subseteq Requests
ASSUME StoresAssumption == Stores = {"mongodb", "redis"}

VARIABLES
    main,    \* where run is
    waiter,  \* where the goroutine of the signal is
    closing, \* Shutdown has been called
    open,    \* the listener
    request, \* Requests -> what became of it
    store,   \* Stores -> the client of the store
    verdict, \* what run returns, or how else the process ended
    timeout, \* Shutdown gave up waiting
    check, probe, found, results, waiting, report, code  \* of HealthCheck

processVars == <<main, waiter, closing, open, store, verdict, timeout>>
checkVars   == <<check, probe, found, results, waiting, report, code>>
vars == <<processVars, request, checkVars>>

Health == INSTANCE HealthCheck WITH Calls <- Checks, main <- check

Startup == {"config", "mongodb", "redis", "ping", "write", "jwt", "templates"}

TypeOK ==
    /\ main \in Startup \cup {"listen", "serving", "waiting", "deferred", "exited"}
    /\ waiter \in {"none", "starting", "signal", "drain", "error", "nil", "done"}
    /\ closing \in BOOLEAN /\ open \in BOOLEAN /\ timeout \in BOOLEAN
    /\ request \in [Requests -> {"none", "running", "done", "broken", "killed"}]
    /\ store \in [Stores -> {"none", "open", "closed"}]
    /\ verdict \in {"none", "nil", "error", "fatal", "killed"}
    /\ Health!TypeOK

Init ==
    /\ main = "config" /\ waiter = "none"
    /\ closing = FALSE /\ open = FALSE /\ timeout = FALSE
    /\ request = [r \in Requests |-> "none"]
    /\ store = [s \in Stores |-> "none"]
    /\ verdict = "none"
    /\ Health!Init

Alive == main # "exited"

\* The end of the process, whatever it was doing.
End(why) ==
    /\ main' = "exited" /\ verdict' = why
    /\ request' = [r \in Requests |->
                     IF request[r] = "running" THEN "killed" ELSE request[r]]

-----------------------------------------------------------------------------
(***************************************************************************)
(* Startup.                                                                *)
(***************************************************************************)
NextStep == [config |-> "mongodb", mongodb |-> "redis", redis |-> "ping",
             ping |-> "write", write |-> "jwt", jwt |-> "templates",
             templates |-> "listen"]

\* A step of startup succeeds; the last one starts the goroutine of the signal.
\* Connecting to a store ends with a ping of it.
StartupStep ==
    /\ main \in Startup
    /\ main' = NextStep[main]
    /\ store' = IF main \in Stores THEN [store EXCEPT ![main] = "open"] ELSE store
    /\ waiter' = IF main = "templates" THEN "starting" ELSE waiter
    /\ UNCHANGED <<closing, open, request, verdict, timeout, checkVars>>

\* Mutant: an error is returned past the deferred calls.
LeavesAtOnce == "exited"

\* return fmt.Errorf(...): the deferred calls that are there so far run.
Returning == "deferred"

\* A step fails, and run returns its error.
StartupFails ==
    /\ main \in Startup \ {"ping", "write"}
    /\ main' = Returning
    /\ verdict' = "error"
    /\ UNCHANGED <<waiter, closing, open, request, store, timeout, checkVars>>

\* The test of Redis fails: log.Fatal ends the process with no deferred call.
StartupFatal ==
    /\ main \in {"ping", "write"}
    /\ End("fatal")
    /\ UNCHANGED <<waiter, closing, open, store, timeout, checkVars>>

\* signal.Notify; a signal before it ends the process.
Notify ==
    /\ Alive /\ waiter = "starting"
    /\ waiter' = "signal"
    /\ UNCHANGED <<main, closing, open, request, store, verdict, timeout, checkVars>>

EarlySignal ==
    /\ Alive /\ waiter \in {"none", "starting"}
    /\ End("killed")
    /\ UNCHANGED <<waiter, closing, open, store, timeout, checkVars>>

\* ListenAndServe refuses to start after Shutdown.
Listen ==
    /\ main = "listen" /\ ~closing
    /\ main' = "serving" /\ open' = TRUE
    /\ UNCHANGED <<waiter, closing, request, store, verdict, timeout, checkVars>>

\* ListenAndServe fails, at once or while it serves.
ListenFails ==
    /\ main \in {"listen", "serving"} /\ ~closing
    /\ main' = "deferred"
    /\ open' = FALSE
    /\ verdict' = "error"
    /\ UNCHANGED <<waiter, closing, request, store, timeout, checkVars>>

-----------------------------------------------------------------------------
(***************************************************************************)
(* Requests.                                                               *)
(***************************************************************************)
StoresOpen == \A s \in Stores : store[s] = "open"

Accept(r) ==
    /\ main = "serving" /\ open
    /\ request[r] = "none"
    /\ request' = [request EXCEPT ![r] = "running"]
    /\ IF r \in Checks THEN Health!Start(r) ELSE UNCHANGED checkVars
    /\ UNCHANGED processVars

\* A request ends; one that needs a store after it was closed fails.
Finish(r) ==
    /\ Alive
    /\ r \notin Checks /\ request[r] = "running"
    /\ request' = [request EXCEPT ![r] = IF StoresOpen THEN "done" ELSE "broken"]
    /\ UNCHANGED <<processVars, checkVars>>

\* A step of a health check; a closed client answers no ping.
CheckStep(c) ==
    /\ Alive
    /\ \/ \E s \in Stores :
             \/ Health!Ping(c, s) /\ (found'[c][s] = "ok" => store[s] = "open")
             \/ Health!Send(c, s)
             \/ Health!Done(c, s)
       \/ Health!Close(c)
       \/ Health!Receive(c)
    /\ UNCHANGED <<processVars, request>>

AnswerCheck(c) ==
    /\ Alive
    /\ Health!Answer(c)
    /\ request' = [request EXCEPT ![c] = "done"]
    /\ UNCHANGED processVars

-----------------------------------------------------------------------------
(***************************************************************************)
(* Shutdown.                                                               *)
(***************************************************************************)

\* SIGINT or SIGTERM; Shutdown closes the listener.
Signal ==
    /\ Alive /\ waiter = "signal"
    /\ waiter' = "drain"
    /\ closing' = TRUE /\ open' = FALSE
    /\ UNCHANGED <<main, request, store, verdict, timeout, checkVars>>

Quiet == \A r \in Requests : request[r] # "running"

\* Shutdown returns when no request is left.
Drained ==
    /\ Alive /\ waiter = "drain" /\ Quiet
    /\ waiter' = "nil"
    /\ UNCHANGED <<main, closing, open, request, store, verdict, timeout, checkVars>>

\* Or with an error, after thirty seconds.
DrainTimeout ==
    /\ Alive /\ waiter = "drain"
    /\ waiter' = "error"
    /\ timeout' = TRUE
    /\ UNCHANGED <<main, closing, open, request, store, verdict, checkVars>>

\* Mutant: run goes on at once.
AfterServing == "deferred"

\* ListenAndServe returns ErrServerClosed; run waits for the goroutine.
NextOfMain == "waiting"

StopServing ==
    /\ main \in {"listen", "serving"} /\ closing
    /\ main' = NextOfMain
    /\ UNCHANGED <<waiter, closing, open, request, store, verdict, timeout, checkVars>>

\* Mutant: only errors are sent.
SendsErrorsOnly == {"error"}

\* The two sends of the goroutine.
Sends == {"error", "nil"}

\* Mutant: the error of Shutdown is dropped.
Graceful == "nil"

\* What run receives, and returns.
Received == waiter

\* A send on the unbuffered channel, and its receive in run.  After an error
\* the goroutine goes on to send nil, which nobody receives.
Report ==
    /\ main = "waiting" /\ waiter \in Sends
    /\ main' = "deferred"
    /\ verdict' = Received
    /\ waiter' = IF waiter = "error" THEN "nil" ELSE "done"
    /\ UNCHANGED <<closing, open, request, store, timeout, checkVars>>

\* The deferred calls, last one first.
CloseStore(s) ==
    /\ main = "deferred" /\ store[s] = "open"
    /\ s = "mongodb" => store["redis"] # "open"
    /\ store' = [store EXCEPT ![s] = "closed"]
    /\ UNCHANGED <<main, waiter, closing, open, request, verdict, timeout, checkVars>>

Exit ==
    /\ main = "deferred" /\ \A s \in Stores : store[s] # "open"
    /\ End(verdict)
    /\ UNCHANGED <<waiter, closing, open, store, timeout, checkVars>>

Main ==
    \/ StartupStep \/ StartupFails \/ StartupFatal
    \/ Listen \/ StopServing \/ Report
    \/ \E s \in Stores : CloseStore(s)
    \/ Exit

Next ==
    \/ Main
    \/ Notify \/ EarlySignal \/ ListenFails
    \/ \E r \in Requests : Accept(r) \/ Finish(r)
    \/ \E c \in Checks : CheckStep(c) \/ AnswerCheck(c)
    \/ Signal \/ Drained \/ DrainTimeout

\* The goroutines are scheduled fairly, a ping ends by its timeout and
\* Shutdown's context ends.
Spec ==
    /\ Init /\ [][Next]_vars
    /\ WF_vars(Main)
    /\ WF_vars(Drained \/ DrainTimeout)
    /\ \A c \in Checks : WF_vars(CheckStep(c) \/ AnswerCheck(c))

-----------------------------------------------------------------------------
(***************************************************************************)
(* Properties.                                                             *)
(***************************************************************************)

\* The stores are open before the first request and are closed under a
\* request, a health check among them, only when Shutdown gave up on it or the
\* listener failed.  (The order of run, and its wait for the goroutine.  A
\* signal may end the process while it closes the stores after such a failure.)
StoresOutliveRequests ==
    /\ open => StoresOpen
    /\ \A r \in Requests :
          request[r] = "broken" \/ (request[r] = "running" /\ ~StoresOpen)
          => timeout \/ verdict \in {"error", "killed"}

\* However far startup came and wherever shutdown was, a process that ends by
\* the return of run has closed every client it opened.  (A signal before
\* signal.Notify and the two calls of log.Fatal end it without.  A store whose
\* constructor failed counts as not opened.)
ExitReleasesStores ==
    main = "exited" /\ verdict \in {"nil", "error"}
        => \A s \in Stores : store[s] # "open"

\* An exit without an error was asked for by a signal and waited for all
\* requests: nobody's request was cut off.
CleanExitServedAll ==
    main = "exited" /\ verdict = "nil"
        => closing /\ \A r \in Requests : request[r] \in {"none", "done"}

\* A signal ends the process, whatever the requests do, also one that comes
\* before ListenAndServe.
SignalEndsProcess == waiter = "drain" ~> main = "exited"

\* No goroutine of a health check sends on the closed channel.
NoSendAfterClose == Health!NoSendAfterClose

\* A health check says 200 exactly when both stores answered it.
AnswerIsTrue == Health!AnswerIsTrue

\* Every health check is answered, unless the process ends under it.
EveryCheckAnswers ==
    \A c \in Checks : check[c] = "wait" ~> check[c] = "answered" \/ main = "exited"

=============================================================================
