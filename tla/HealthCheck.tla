---------------------------- MODULE HealthCheck ----------------------------
(***************************************************************************)
(* GET /healthz: a request starts one goroutine for each store, each pings *)
(* its store with a timeout and sends what it found to a channel; the      *)
(* request waits for both (sync.WaitGroup), closes the channel and drains  *)
(* it.  Nobody receives while the goroutines send.                         *)
(*                                                                         *)
(* ServerProcess instantiates this module: it says when a check may begin, *)
(* and what a ping may find.                                               *)
(***************************************************************************)
EXTENDS Integers, Sequences, FiniteSets, SequencesExt

CONSTANTS
    Calls,  \* requests to /healthz
    Stores  \* what is pinged: "mongodb" and "redis"

VARIABLES
    main,    \* Calls -> where HealthChecker.Check is
    probe,   \* Calls -> Stores -> where its goroutine is
    found,   \* Calls -> Stores -> what the ping returned
    results, \* Calls -> the channel
    waiting, \* Calls -> the counter of the WaitGroup
    report,  \* Calls -> what was received
    code     \* Calls -> the HTTP status

Result == [store : Stores, status : {"ok", "error"}]

TypeOK ==
    /\ main \in [Calls -> {"idle", "wait", "drain", "answered"}]
    /\ probe \in [Calls -> [Stores -> {"idle", "ping", "send", "done", "gone"}]]
    /\ found \in [Calls -> [Stores -> {"none", "ok", "error"}]]
    /\ \A c \in Calls : results[c] \in Seq(Result)
    /\ waiting \in [Calls -> 0 .. Cardinality(Stores)]
    /\ \A c \in Calls : report[c] \in Seq(Result)
    /\ code \in [Calls -> {0, 200, 503}]

Init ==
    /\ main = [c \in Calls |-> "idle"]
    /\ probe = [c \in Calls |-> [s \in Stores |-> "idle"]]
    /\ found = [c \in Calls |-> [s \in Stores |-> "none"]]
    /\ results = [c \in Calls |-> <<>>]
    /\ waiting = [c \in Calls |-> 0]
    /\ report = [c \in Calls |-> <<>>]
    /\ code = [c \in Calls |-> 0]

\* Mutant: room for one result only.
CapacityOne == 1

\* make(chan map[string]string, 2)
Capacity == 2

\* Mutant: one of the goroutines is not counted.
AddsOne == 1

\* wg.Add(2)
Added == Cardinality(Stores)

\* The goroutines start.
Start(c) ==
    /\ main[c] = "idle"
    /\ main' = [main EXCEPT ![c] = "wait"]
    /\ waiting' = [waiting EXCEPT ![c] = Added]
    /\ probe' = [probe EXCEPT ![c] = [s \in Stores |-> "ping"]]
    /\ UNCHANGED <<found, results, report, code>>

\* The ping answers, fails, or runs into its timeout of two seconds.
Ping(c, s) ==
    /\ probe[c][s] = "ping"
    /\ probe' = [probe EXCEPT ![c][s] = "send"]
    /\ \E status \in {"ok", "error"} :
          found' = [found EXCEPT ![c][s] = status]
    /\ UNCHANGED <<main, results, waiting, report, code>>

\* The send blocks while the channel is full.
Send(c, s) ==
    /\ probe[c][s] = "send"
    /\ Len(results[c]) < Capacity
    /\ results' = [results EXCEPT ![c] =
                     Append(@, [store |-> s, status |-> found[c][s]])]
    /\ probe' = [probe EXCEPT ![c][s] = "done"]
    /\ UNCHANGED <<main, found, waiting, report, code>>

\* The deferred wg.Done.
Done(c, s) ==
    /\ probe[c][s] = "done"
    /\ probe' = [probe EXCEPT ![c][s] = "gone"]
    /\ waiting' = [waiting EXCEPT ![c] = @ - 1]
    /\ UNCHANGED <<main, found, results, report, code>>

\* wg.Wait returns.
AllDone(c) == waiting[c] = 0

\* wg.Wait returns, and the channel is closed.
Close(c) ==
    /\ main[c] = "wait"
    /\ AllDone(c)
    /\ main' = [main EXCEPT ![c] = "drain"]
    /\ UNCHANGED <<probe, found, results, waiting, report, code>>

Receive(c) ==
    /\ main[c] = "drain" /\ results[c] # <<>>
    /\ report' = [report EXCEPT ![c] = Append(@, Head(results[c]))]
    /\ results' = [results EXCEPT ![c] = Tail(@)]
    /\ UNCHANGED <<main, probe, found, waiting, code>>

\* Mutant: one healthy store is enough.
SomeHealthy(rs) == \E i \in DOMAIN rs : rs[i].status = "ok"

Healthy(rs) == \A i \in DOMAIN rs : rs[i].status = "ok"

\* HealthHandler.ServeHTTP: the answer, when the closed channel is empty.
Answer(c) ==
    /\ main[c] = "drain" /\ results[c] = <<>>
    /\ main' = [main EXCEPT ![c] = "answered"]
    /\ code' = [code EXCEPT ![c] = IF Healthy(report[c]) THEN 200 ELSE 503]
    /\ UNCHANGED <<probe, found, results, waiting, report>>

-----------------------------------------------------------------------------
\* No goroutine sends on the closed channel, which would stop the process:
\* when the request closes it, every goroutine is past its send.
NoSendAfterClose ==
    \A c \in Calls, s \in Stores :
        main[c] \in {"drain", "answered"} => probe[c][s] \in {"done", "gone"}

\* The answer is 200 exactly when every store answered its ping, and names
\* each store once, whatever the order in which the goroutines finished.
AnswerIsTrue ==
    \A c \in Calls : main[c] = "answered" =>
        /\ code[c] = 200 <=> \A s \in Stores : found[c][s] = "ok"
        /\ Len(report[c]) = Cardinality(Stores)
        /\ ToSet(report[c]) =
              {[store |-> s, status |-> found[c][s]] : s \in Stores}

=============================================================================
