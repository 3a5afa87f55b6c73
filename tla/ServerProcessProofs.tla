------------------------- MODULE ServerProcessProofs -------------------------
(***************************************************************************)
(* The order of the end of the process, and what its health checks answer, *)
(* for any number of requests and health checks.                           *)
(***************************************************************************)
EXTENDS ServerProcess, SequenceTheorems, FiniteSetTheorems, TLAPS

\* The types of the process; of the health checks only where each is.
ProcessTypes ==
    /\ main \in Startup \cup {"listen", "serving", "waiting", "deferred", "exited"}
    /\ waiter \in {"none", "starting", "signal", "drain", "error", "nil", "done"}
    /\ closing \in BOOLEAN /\ open \in BOOLEAN /\ timeout \in BOOLEAN
    /\ request \in [Requests -> {"none", "running", "done", "broken", "killed"}]
    /\ store \in [Stores -> {"none", "open", "closed"}]
    /\ verdict \in {"none", "nil", "error", "fatal", "killed"}
    /\ check \in [Checks -> {"idle", "wait", "drain", "answered"}]

\* Startup opens the stores one after another; the goroutine starts at its end.
StartupOpens ==
    /\ main \in Startup => waiter = "none"
    /\ main \in {"redis", "ping", "write", "jwt", "templates"} => store["mongodb"] = "open"
    /\ main \in {"ping", "write", "jwt", "templates"} => store["redis"] = "open"

\* The listener is open only while run serves, or served when it was killed;
\* and no longer once Shutdown was called.
ListenerIsServed ==
    /\ open => main \in {"serving", "exited"} /\ StoresOpen /\ ~closing
    /\ main \in {"listen", "serving", "waiting"} => StoresOpen

\* The goroutine has been through Shutdown: no request is left, unless it gave
\* up, and then run gets its error first.
DrainedOrGaveUp ==
    /\ waiter \in {"drain", "error", "nil", "done"} => closing
    /\ waiter = "error" => timeout
    /\ waiter \in {"nil", "done"} => timeout \/ Quiet
    /\ waiter \in {"none", "starting", "signal", "drain", "done"} => ~timeout
    /\ waiter = "nil" /\ timeout => main \in {"deferred", "exited"} /\ verdict # "nil"

\* Where the verdict comes from: it is nil when run received nil.
VerdictIsReceived ==
    /\ main \in {"deferred", "exited"} <=> verdict # "none"
    /\ main = "deferred" => verdict \in {"nil", "error"}
    /\ verdict = "nil" => waiter = "done"
    /\ main = "exited" /\ verdict \in {"nil", "error"} => \A s \in Stores : store[s] # "open"

\* Requests come after startup, are cut off only by the end of the process, and
\* then not by a clean one; a health check that goes on is such a request.
RequestsAreServed ==
    /\ main \in Startup =>
          \A r \in Requests : request[r] = "none"
    /\ main # "exited" => \A r \in Requests : request[r] # "killed"
    /\ main = "exited" => \A r \in Requests : request[r] # "running"
    /\ \A r \in Requests : request[r] = "killed" => verdict # "nil"
    /\ \A c \in Checks :
          check[c] \in {"wait", "drain"} => request[c] \in {"running", "killed"}

IInv ==
    /\ ProcessTypes
    /\ StartupOpens
    /\ ListenerIsServed
    /\ DrainedOrGaveUp
    /\ VerdictIsReceived
    /\ RequestsAreServed
    /\ StoresOutliveRequests

\* Nothing has happened in the initial state.
LEMMA InitInvariant == Init => IInv
<1> SUFFICES ASSUME Init PROVE IInv
  OBVIOUS
<1>1. ProcessTypes
  BY DEF Init, ProcessTypes, Startup, Health!Init
<1>2. StartupOpens /\ DrainedOrGaveUp /\ VerdictIsReceived
  BY DEF Init, StartupOpens, Startup, DrainedOrGaveUp, VerdictIsReceived
<1>3. ListenerIsServed /\ StoresOutliveRequests
  BY DEF Init, ListenerIsServed, StoresOutliveRequests
<1>4. RequestsAreServed
  BY DEF Init, RequestsAreServed, Startup, Health!Init
<1> QED
  BY <1>1, <1>2, <1>3, <1>4 DEF IInv

\* What the end of the process does to requests.
LEMMA EndOfRequests ==
    ASSUME ProcessTypes, NEW why, End(why)
    PROVE  /\ main' = "exited" /\ verdict' = why
           /\ request' \in [Requests -> {"none", "running", "done", "broken", "killed"}]
           /\ \A r \in Requests :
                 \/ request[r] = "running" /\ request'[r] = "killed"
                 \/ request[r] # "running" /\ request'[r] = request[r]
BY DEF ProcessTypes, End

\* A step of startup, or its failure.
LEMMA StartupStepOK ==
    IInv /\ (StartupStep \/ StartupFails \/ StartupFatal) => IInv'
<1> SUFFICES ASSUME IInv, StartupStep \/ StartupFails \/ StartupFatal PROVE IInv'
  OBVIOUS
<1> USE StoresAssumption
        DEF IInv, ProcessTypes, StartupOpens, ListenerIsServed, DrainedOrGaveUp,
            VerdictIsReceived, RequestsAreServed, StoresOutliveRequests, StoresOpen,
            Quiet, Startup
<1>1. CASE StartupStep
  <2>1. \/ main = "config" /\ main' = "mongodb" /\ store' = store
        \/ main = "mongodb" /\ main' = "redis" /\ store' = [store EXCEPT !["mongodb"] = "open"]
        \/ main = "redis" /\ main' = "ping" /\ store' = [store EXCEPT !["redis"] = "open"]
        \/ main = "ping" /\ main' = "write" /\ store' = store
        \/ main = "write" /\ main' = "jwt" /\ store' = store
        \/ main = "jwt" /\ main' = "templates" /\ store' = store
        \/ main = "templates" /\ main' = "listen" /\ store' = store
    <3> HIDE DEF IInv
    <3>1. /\ main \in Startup /\ main' = NextStep[main]
          /\ store' = IF main \in Stores THEN [store EXCEPT ![main] = "open"] ELSE store
      BY <1>1 DEF StartupStep
    <3>2. \/ main = "config" /\ NextStep[main] = "mongodb"
          \/ main = "mongodb" /\ NextStep[main] = "redis"
          \/ main = "redis" /\ NextStep[main] = "ping"
          \/ main = "ping" /\ NextStep[main] = "write"
          \/ main = "write" /\ NextStep[main] = "jwt"
          \/ main = "jwt" /\ NextStep[main] = "templates"
          \/ main = "templates" /\ NextStep[main] = "listen"
      BY <3>1 DEF NextStep
    <3> QED
      BY <3>1, <3>2
  <2>2. /\ waiter' = waiter \/ (main = "templates" /\ waiter' = "starting")
        /\ UNCHANGED <<closing, open, request, verdict, timeout, check>>
    BY <1>1 DEF StartupStep, checkVars
  <2>3. ProcessTypes' /\ StartupOpens'
    BY <2>1, <2>2
  <2>4. ListenerIsServed' /\ StoresOutliveRequests'
    BY <2>1, <2>2
  <2>5. DrainedOrGaveUp'
    BY <2>1, <2>2
  <2>8. VerdictIsReceived'
    BY <2>1, <2>2
  <2>6. RequestsAreServed'
    BY <2>1, <2>2
  <2> QED
    BY <2>3, <2>4, <2>5, <2>6, <2>8
<1>2. CASE StartupFails
  BY <1>2 DEF StartupFails, Returning, checkVars
<1>3. CASE StartupFatal
  BY <1>3 DEF StartupFatal, End, checkVars
<1> QED
  BY <1>1, <1>2, <1>3

\* A step of the goroutine of the signal.
LEMMA WaiterStepOK ==
    IInv /\ (Notify \/ EarlySignal \/ Signal \/ Drained \/ DrainTimeout) => IInv'
<1> SUFFICES ASSUME IInv, Notify \/ EarlySignal \/ Signal \/ Drained \/ DrainTimeout
             PROVE  IInv'
  OBVIOUS
<1> USE StoresAssumption
        DEF IInv, ProcessTypes, StartupOpens, ListenerIsServed, DrainedOrGaveUp,
            VerdictIsReceived, RequestsAreServed, StoresOutliveRequests, StoresOpen,
            Quiet, Startup, Alive
<1>1. CASE Notify
  BY <1>1 DEF Notify, checkVars
<1>2. CASE EarlySignal
  <2>1. /\ main' = "exited" /\ verdict' = "killed"
        /\ request' \in [Requests -> {"none", "running", "done", "broken", "killed"}]
        /\ \A r \in Requests :
              \/ request[r] = "running" /\ request'[r] = "killed"
              \/ request[r] # "running" /\ request'[r] = request[r]
    BY <1>2, EndOfRequests DEF EarlySignal
  <2>2. UNCHANGED <<waiter, closing, open, store, timeout, check>>
    BY <1>2 DEF EarlySignal, checkVars
  <2>3. waiter \in {"none", "starting"} /\ main # "exited"
    BY <1>2 DEF EarlySignal
  <2>4. ProcessTypes' /\ StartupOpens' /\ ListenerIsServed'
    BY <2>1, <2>2
  <2>5. DrainedOrGaveUp'
    BY <2>1, <2>2, <2>3
  <2>8. VerdictIsReceived'
    BY <2>1, <2>2, <2>3
  <2>6. RequestsAreServed'
    BY <2>1, <2>2, <2>3, ChecksAssumption
  <2>7. StoresOutliveRequests'
    BY <2>1, <2>2, <2>3
  <2> QED
    BY <2>4, <2>5, <2>6, <2>7, <2>8
<1>3. CASE Signal
  BY <1>3 DEF Signal, checkVars
<1>4. CASE Drained
  BY <1>4 DEF Drained, checkVars
<1>5. CASE DrainTimeout
  BY <1>5 DEF DrainTimeout, checkVars
<1> QED
  BY <1>1, <1>2, <1>3, <1>4, <1>5

\* A step of run, once the goroutine of the signal was started.
LEMMA RunStepOK ==
    ASSUME IInv, \/ Listen \/ ListenFails \/ StopServing \/ Report
                 \/ \E s \in Stores : CloseStore(s)
                 \/ Exit
    PROVE  IInv'
<1> USE StoresAssumption
        DEF IInv, ProcessTypes, StartupOpens, ListenerIsServed, DrainedOrGaveUp,
            VerdictIsReceived, RequestsAreServed, StoresOutliveRequests, StoresOpen,
            Quiet, Startup
<1>1. CASE Listen
  BY <1>1 DEF Listen, checkVars
<1>2. CASE ListenFails
  BY <1>2 DEF ListenFails, checkVars
<1>3. CASE StopServing
  BY <1>3 DEF StopServing, NextOfMain, checkVars
<1>4. CASE Report
  BY <1>4 DEF Report, Sends, Received, checkVars
<1>5. ASSUME NEW s \in Stores, CloseStore(s) PROVE IInv'
  BY <1>5 DEF CloseStore, checkVars
<1>6. CASE Exit
  <2>1. /\ main' = "exited" /\ verdict' = verdict
        /\ request' \in [Requests -> {"none", "running", "done", "broken", "killed"}]
        /\ \A r \in Requests :
              \/ request[r] = "running" /\ request'[r] = "killed"
              \/ request[r] # "running" /\ request'[r] = request[r]
    BY <1>6, EndOfRequests DEF Exit
  <2>2. UNCHANGED <<waiter, closing, open, store, timeout, check>>
    BY <1>6 DEF Exit, checkVars
  <2>3. main = "deferred" /\ \A s \in Stores : store[s] # "open"
    BY <1>6 DEF Exit
  <2>4. ProcessTypes' /\ StartupOpens' /\ ListenerIsServed'
    BY <2>1, <2>2
  <2>5. DrainedOrGaveUp'
    BY <2>1, <2>2, <2>3
  <2>8. VerdictIsReceived'
    BY <2>1, <2>2, <2>3
  <2>6. RequestsAreServed'
    BY <2>1, <2>2, <2>3, ChecksAssumption
  <2>7. StoresOutliveRequests'
    BY <2>1, <2>2, <2>3
  <2> QED
    BY <2>4, <2>5, <2>6, <2>7, <2>8
<1> QED
  BY <1>1, <1>2, <1>3, <1>4, <1>5, <1>6

\* A request comes or goes.
LEMMA RequestStepOK ==
    ASSUME IInv, \/ \E r \in Requests : Accept(r) \/ Finish(r)
                 \/ \E c \in Checks : CheckStep(c) \/ AnswerCheck(c)
                 \/ UNCHANGED vars
    PROVE  IInv'
<1> USE StoresAssumption
        DEF IInv, ProcessTypes, StartupOpens, ListenerIsServed, DrainedOrGaveUp,
            VerdictIsReceived, RequestsAreServed, StoresOutliveRequests, StoresOpen,
            Quiet, Startup, processVars
<1>1. ASSUME NEW r \in Requests, Accept(r) PROVE IInv'
  <2>1. \A c \in Checks : check'[c] = check[c] \/ (c = r /\ check'[c] = "wait")
    BY <1>1 DEF Accept, checkVars, Health!Start
  <2>2. check' \in [Checks -> {"idle", "wait", "drain", "answered"}]
    BY <1>1 DEF Accept, checkVars, Health!Start
  <2> QED
    BY <1>1, <2>1, <2>2 DEF Accept
<1>2. ASSUME NEW r \in Requests, Finish(r) PROVE IInv'
  BY <1>2 DEF Finish, Alive, checkVars
<1>3. ASSUME NEW c \in Checks, CheckStep(c) PROVE IInv'
  <2>1. check' = check \/ (check[c] = "wait" /\ check' = [check EXCEPT ![c] = "drain"])
    BY <1>3 DEF CheckStep, Health!Ping, Health!Send, Health!Done, Health!Close,
                Health!Receive
  <2> QED
    BY <1>3, <2>1 DEF CheckStep
<1>4. ASSUME NEW c \in Checks, AnswerCheck(c) PROVE IInv'
  <2>1. check[c] = "drain" /\ check' = [check EXCEPT ![c] = "answered"]
    BY <1>4 DEF AnswerCheck, Health!Answer
  <2> QED
    BY <1>4, <2>1, ChecksAssumption DEF AnswerCheck, Alive
<1>5. CASE UNCHANGED vars
  BY <1>5 DEF vars, checkVars
<1> QED
  BY <1>1, <1>2, <1>3, <1>4, <1>5

-----------------------------------------------------------------------------
(***************************************************************************)
(* Theorems.                                                               *)
(***************************************************************************)

\* The inductive invariant holds in every reachable state.
THEOREM InvariantHolds == Spec => []IInv
<1>1. IInv /\ [Next]_vars => IInv'
  BY StartupStepOK, WaiterStepOK, RunStepOK, RequestStepOK DEF Next, Main
<1> QED
  BY <1>1, InitInvariant, PTL DEF Spec

\* The stores are open while requests need them, unless the drain gave up or
\* the listener failed.
THEOREM StoresOutlive == Spec => []StoresOutliveRequests
<1>1. IInv => StoresOutliveRequests
  BY DEF IInv
<1> QED
  BY <1>1, InvariantHolds, PTL

\* A process that ends by the return of run has closed its stores.
THEOREM ExitReleases == Spec => []ExitReleasesStores
<1>1. IInv => ExitReleasesStores
  BY DEF IInv, VerdictIsReceived, ExitReleasesStores
<1> QED
  BY <1>1, InvariantHolds, PTL

\* An exit without an error cut nobody off.
THEOREM CleanExit == Spec => []CleanExitServedAll
<1>1. IInv => CleanExitServedAll
  BY DEF IInv, ProcessTypes, VerdictIsReceived, DrainedOrGaveUp, RequestsAreServed,
         StoresOutliveRequests, CleanExitServedAll, Quiet
<1> QED
  BY <1>1, InvariantHolds, PTL

-----------------------------------------------------------------------------
(***************************************************************************)
(* The health checks.                                                      *)
(***************************************************************************)
Results == [store : Stores, status : {"ok", "error"}]

\* What the goroutine of a store sends, and all that was sent so far.
ResultOf(c, s) == [store |-> s, status |-> found[c][s]]
Told(c) == report[c] \o results[c]
HasSent(c, s) == probe[c][s] \in {"done", "gone"}

HealthTypes ==
    /\ check \in [Checks -> {"idle", "wait", "drain", "answered"}]
    /\ probe \in [Checks -> [Stores -> {"idle", "ping", "send", "done", "gone"}]]
    /\ found \in [Checks -> [Stores -> {"none", "ok", "error"}]]
    /\ results \in [Checks -> Seq(Results)]
    /\ report \in [Checks -> Seq(Results)]
    /\ waiting \in [Checks -> 0 .. 2]
    /\ code \in [Checks -> {0, 200, 503}]

\* The WaitGroup counts the goroutines that are there.
Counts(c, s) == IF probe[c][s] \in {"ping", "send", "done"} THEN 1 ELSE 0
WaitersCounted ==
    \A c \in Checks : waiting[c] = Counts(c, "mongodb") + Counts(c, "redis")

\* The goroutines start with the check, and are gone before it goes on.
ProbesFollow ==
    \A c \in Checks, s \in Stores :
        /\ check[c] = "idle" <=> probe[c][s] = "idle"
        /\ check[c] \in {"drain", "answered"} => probe[c][s] = "gone"
        /\ probe[c][s] \in {"send", "done", "gone"} => found[c][s] # "none"

\* Each goroutine that has sent is told once, in some order.
ToldOnce ==
    \A c \in Checks :
        \/ /\ \A s \in Stores : ~HasSent(c, s)
           /\ Told(c) = <<>>
        \/ \E s \in Stores :
              /\ HasSent(c, s) /\ \A t \in Stores \ {s} : ~HasSent(c, t)
              /\ Told(c) = <<ResultOf(c, s)>>
        \/ \E s, t \in Stores :
              /\ s # t /\ HasSent(c, s) /\ HasSent(c, t)
              /\ Told(c) = <<ResultOf(c, s), ResultOf(c, t)>>

HInv == HealthTypes /\ WaitersCounted /\ ProbesFollow /\ ToldOnce /\ AnswerIsTrue

\* There are two stores, and room for two results.
LEMMA TwoStores == Cardinality(Stores) = 2 /\ Health!Cardinality(Stores) = 2
<1>1. Stores = {"mongodb"} \cup {"redis"}
  BY StoresAssumption
<1>2. IsFiniteSet({"mongodb"}) /\ Cardinality({"mongodb"}) = 1
  BY FS_Singleton
<1>3. Cardinality({"mongodb"} \cup {"redis"}) = 2
  BY <1>2, FS_AddElement
<1>4. Health!Cardinality(Stores) = Cardinality(Stores)
  BY DEF Health!Cardinality, Cardinality
<1> QED
  BY <1>1, <1>3, <1>4

\* A result that is received was told already.
LEMMA ReceiveTells ==
    ASSUME NEW S, NEW a \in Seq(S), NEW b \in Seq(S), b # <<>>
    PROVE  /\ Append(a, Head(b)) \in Seq(S) /\ Tail(b) \in Seq(S)
           /\ Append(a, Head(b)) \o Tail(b) = a \o b
<1>1. Head(b) = b[1] /\ Head(b) \in S /\ Tail(b) \in Seq(S) /\ Len(Tail(b)) = Len(b) - 1
      /\ \A i \in 1 .. Len(Tail(b)) : Tail(b)[i] = b[i + 1]
  BY HeadTailProperties
<1>2. Append(a, Head(b)) \in Seq(S)
  BY <1>1, AppendProperties
<1>3. Append(a, Head(b)) \o Tail(b) \in Seq(S) /\ a \o b \in Seq(S)
  BY <1>1, <1>2, ConcatProperties
<1>4. Len(Append(a, Head(b))) = Len(a) + 1 /\ Append(a, Head(b))[Len(a) + 1] = Head(b)
      /\ \A i \in 1 .. Len(a) : Append(a, Head(b))[i] = a[i]
  BY <1>1, AppendProperties
<1>5. Len(Append(a, Head(b)) \o Tail(b)) = Len(a \o b)
  BY <1>1, <1>2, <1>4, ConcatProperties, LenProperties
<1>6. ASSUME NEW i \in 1 .. Len(a \o b)
      PROVE  (Append(a, Head(b)) \o Tail(b))[i] = (a \o b)[i]
  <2>1. Len(a) \in Nat /\ Len(b) \in Nat /\ Len(a \o b) = Len(a) + Len(b)
    BY ConcatProperties, LenProperties
  <2>2. (a \o b)[i] = IF i <= Len(a) THEN a[i] ELSE b[i - Len(a)]
    BY <2>1, ConcatProperties
  <2>3. (Append(a, Head(b)) \o Tail(b))[i] =
            IF i <= Len(a) + 1 THEN Append(a, Head(b))[i] ELSE Tail(b)[i - (Len(a) + 1)]
    BY <1>1, <1>2, <1>4, <2>1, ConcatProperties
  <2>4. CASE i <= Len(a)
    BY <2>1, <2>2, <2>3, <2>4, <1>4
  <2>5. CASE i = Len(a) + 1
    BY <2>1, <2>2, <2>3, <2>5, <1>4, <1>1
  <2>6. CASE i > Len(a) + 1
    <3>1. i - (Len(a) + 1) \in 1 .. Len(Tail(b)) /\ (i - (Len(a) + 1)) + 1 = i - Len(a)
      BY <1>1, <2>1, <2>6
    <3> QED BY <3>1, <1>1, <2>1, <2>2, <2>3, <2>6
  <2> QED BY <2>1, <2>4, <2>5, <2>6
<1> QED
  BY <1>1, <1>2, <1>3, <1>5, <1>6, SeqEqual

\* A result that is sent is told after the others.
LEMMA SendTells ==
    ASSUME NEW S, NEW a \in Seq(S), NEW b \in Seq(S), NEW e \in S
    PROVE  /\ Append(b, e) \in Seq(S)
           /\ a \o Append(b, e) = Append(a \o b, e)
<1>1. Append(b, e) = b \o <<e>> /\ Append(b, e) \in Seq(S) /\ <<e>> \in Seq(S)
  BY AppendIsConcat, AppendProperties
<1>2. a \o b \in Seq(S)
  BY ConcatProperties
<1>3. Append(a \o b, e) = (a \o b) \o <<e>>
  BY <1>2, AppendIsConcat
<1> QED
  BY <1>1, <1>2, <1>3, ConcatAssociative

\* The second result follows the first.
LEMMA TwoTold == ASSUME NEW x, NEW y PROVE Append(<<x>>, y) = <<x, y>>
<1>1. <<x>> \in Seq({x, y}) /\ Len(<<x>>) = 1 /\ <<x>>[1] = x
  OBVIOUS
<1>2. /\ Append(<<x>>, y) \in Seq({x, y}) /\ Len(Append(<<x>>, y)) = 2
      /\ Append(<<x>>, y)[1] = x /\ Append(<<x>>, y)[2] = y
  BY <1>1, AppendProperties
<1>3. <<x, y>> \in Seq({x, y}) /\ Len(<<x, y>>) = 2
      /\ <<x, y>>[1] = x /\ <<x, y>>[2] = y
  OBVIOUS
<1>4. \A i \in 1 .. 2 : Append(<<x>>, y)[i] = <<x, y>>[i]
  <2>1. \A i \in 1 .. 2 : i = 1 \/ i = 2
    OBVIOUS
  <2> QED
    BY <1>2, <1>3, <2>1
<1> QED
  BY <1>2, <1>3, <1>4, SeqEqual

\* A health check starts.
LEMMA HealthStart ==
    ASSUME HInv, NEW c \in Checks, Health!Start(c)
    PROVE  HInv'
<1> USE StoresAssumption DEF HInv
<1>1. /\ check[c] = "idle"
      /\ check' = [check EXCEPT ![c] = "wait"]
      /\ waiting' = [waiting EXCEPT ![c] = 2]
      /\ probe' = [probe EXCEPT ![c] = [s \in Stores |-> "ping"]]
      /\ UNCHANGED <<found, results, report, code>>
  BY TwoStores DEF Health!Start, Health!Added
<1>2. HealthTypes'
  BY <1>1 DEF HealthTypes
<1>3. WaitersCounted'
  BY <1>1 DEF HealthTypes, WaitersCounted, Counts
<1>4. ProbesFollow'
  BY <1>1 DEF HealthTypes, ProbesFollow
<1>5. ToldOnce'
  <2>1. \A s \in Stores : probe[c][s] = "idle" /\ probe'[c][s] = "ping"
    BY <1>1 DEF HealthTypes, ProbesFollow
  <2>2. Told(c)' = Told(c) /\ Told(c) = <<>>
    BY <1>1, <2>1 DEF Told, ToldOnce, HasSent
  <2>3. \A d \in Checks \ {c} : /\ Told(d)' = Told(d)
                               /\ \A s \in Stores : /\ HasSent(d, s)' = HasSent(d, s)
                                                    /\ ResultOf(d, s)' = ResultOf(d, s)
    BY <1>1 DEF Told, HasSent, ResultOf, HealthTypes
  <2>4. \A s \in Stores : ~HasSent(c, s)'
    BY <2>1 DEF HasSent
  <2> QED
    BY <2>2, <2>3, <2>4 DEF ToldOnce
<1>6. AnswerIsTrue'
  BY <1>1 DEF HealthTypes, AnswerIsTrue, Health!AnswerIsTrue
<1> QED
  BY <1>2, <1>3, <1>4, <1>5, <1>6

\* A ping ends, before its result is sent.
LEMMA HealthPing ==
    ASSUME HInv, NEW c \in Checks, NEW s \in Stores, Health!Ping(c, s)
    PROVE  HInv'
<1> USE StoresAssumption DEF HInv
<1>1. PICK status \in {"ok", "error"} :
         /\ probe[c][s] = "ping"
         /\ probe' = [probe EXCEPT ![c][s] = "send"]
         /\ found' = [found EXCEPT ![c][s] = status]
         /\ UNCHANGED <<check, results, waiting, report, code>>
  BY DEF Health!Ping
<1>2. HealthTypes'
  BY <1>1 DEF HealthTypes
<1>3. WaitersCounted'
  BY <1>1 DEF HealthTypes, WaitersCounted, Counts
<1>4. ProbesFollow'
  BY <1>1 DEF HealthTypes, ProbesFollow
<1>5. ToldOnce'
  <2>1. \A d \in Checks : Told(d)' = Told(d)
    BY <1>1 DEF Told
  <2>2. \A d \in Checks, t \in Stores :
           HasSent(d, t)' = HasSent(d, t) /\ (HasSent(d, t) => ResultOf(d, t)' = ResultOf(d, t))
    BY <1>1 DEF HasSent, ResultOf, HealthTypes
  <2> QED
    BY <2>1, <2>2 DEF ToldOnce
<1>6. AnswerIsTrue'
  <2>1. check[c] # "answered"
    BY <1>1 DEF ProbesFollow
  <2> QED
    BY <1>1, <2>1 DEF HealthTypes, AnswerIsTrue, Health!AnswerIsTrue
<1> QED
  BY <1>2, <1>3, <1>4, <1>5, <1>6

\* A result is sent.
LEMMA HealthSend ==
    ASSUME HInv, NEW c \in Checks, NEW s \in Stores, Health!Send(c, s)
    PROVE  HInv'
<1> USE StoresAssumption DEF HInv
<1>1. /\ probe[c][s] = "send"
      /\ results' = [results EXCEPT ![c] = Append(results[c], ResultOf(c, s))]
      /\ probe' = [probe EXCEPT ![c][s] = "done"]
      /\ UNCHANGED <<check, found, waiting, report, code>>
  BY DEF Health!Send, ResultOf
<1>2. ResultOf(c, s) \in Results
  BY <1>1 DEF HealthTypes, ProbesFollow, ResultOf, Results
<1>3. results[c] \in Seq(Results) /\ report[c] \in Seq(Results)
  BY DEF HealthTypes
<1>4. /\ Append(results[c], ResultOf(c, s)) \in Seq(Results)
      /\ report[c] \o Append(results[c], ResultOf(c, s)) = Append(Told(c), ResultOf(c, s))
  <2>1. \A a, b \in Seq(Results) : \A e \in Results :
           Append(b, e) \in Seq(Results) /\ a \o Append(b, e) = Append(a \o b, e)
    BY SendTells
  <2> QED
    BY <1>2, <1>3, <2>1, Zenon DEF Told
<1>5. HealthTypes'
  BY <1>1, <1>4 DEF HealthTypes
<1>6. WaitersCounted'
  BY <1>1 DEF HealthTypes, WaitersCounted, Counts
<1>7. ProbesFollow'
  BY <1>1 DEF HealthTypes, ProbesFollow
<1>8. ToldOnce'
  <2>1. Told(c)' = Append(Told(c), ResultOf(c, s))
    BY <1>1, <1>3, <1>4 DEF Told, HealthTypes
  <2>2. \A d \in Checks \ {c} : Told(d)' = Told(d)
    BY <1>1 DEF Told, HealthTypes
  <2>3. /\ \A d \in Checks, t \in Stores : ResultOf(d, t)' = ResultOf(d, t)
        /\ \A d \in Checks, t \in Stores :
              HasSent(d, t)' <=> HasSent(d, t) \/ (d = c /\ t = s)
        /\ ~HasSent(c, s)
    BY <1>1 DEF HasSent, ResultOf, HealthTypes
  <2>4. CASE \A t \in Stores : ~HasSent(c, t)
    <3>1. Told(c) = <<>>
      BY <2>4 DEF ToldOnce
    <3>2. Told(c)' = <<ResultOf(c, s)>>
      BY <2>1, <3>1
    <3> QED
      BY <2>2, <2>3, <2>4, <3>2 DEF ToldOnce
  <2>5. ASSUME NEW t \in Stores, HasSent(c, t)
        PROVE  ToldOnce'
    <3>1. s # t /\ \A u \in Stores : u = s \/ u = t
      BY <2>3, <2>5
    <3>2. Told(c) = <<ResultOf(c, t)>>
      BY <2>3, <2>5, <3>1 DEF ToldOnce
    <3>3. Told(c)' = <<ResultOf(c, t), ResultOf(c, s)>>
      <4>1. Append(<<ResultOf(c, t)>>, ResultOf(c, s)) = <<ResultOf(c, t), ResultOf(c, s)>>
        BY TwoTold
      <4> QED
        BY <2>1, <3>2, <4>1, Zenon
    <3> QED
      BY <2>2, <2>3, <2>5, <3>1, <3>3 DEF ToldOnce
  <2> QED
    BY <2>4, <2>5
<1>9. AnswerIsTrue'
  <2>1. check[c] # "answered"
    BY <1>1 DEF ProbesFollow
  <2> QED
    BY <1>1, <2>1 DEF HealthTypes, AnswerIsTrue, Health!AnswerIsTrue
<1> QED
  BY <1>5, <1>6, <1>7, <1>8, <1>9

\* A goroutine is gone.
LEMMA HealthDone ==
    ASSUME HInv, NEW c \in Checks, NEW s \in Stores, Health!Done(c, s)
    PROVE  HInv'
<1> USE StoresAssumption DEF HInv
<1>1. /\ probe[c][s] = "done"
      /\ probe' = [probe EXCEPT ![c][s] = "gone"]
      /\ waiting' = [waiting EXCEPT ![c] = waiting[c] - 1]
      /\ UNCHANGED <<check, found, results, report, code>>
  BY DEF Health!Done
<1>2. waiting[c] \in 1 .. 2
  BY <1>1 DEF HealthTypes, WaitersCounted, Counts
<1>3. HealthTypes'
  BY <1>1, <1>2 DEF HealthTypes
<1>4. WaitersCounted'
  <2>1. \A d \in Checks \ {c} : waiting'[d] = waiting[d] /\ probe'[d] = probe[d]
    BY <1>1 DEF HealthTypes
  <2>2. Counts(c, s) = 1 /\ Counts(c, s)' = 0
        /\ \A t \in Stores \ {s} : Counts(c, t)' = Counts(c, t)
    BY <1>1 DEF HealthTypes, Counts
  <2>3. waiting'[c] = waiting[c] - 1
    BY <1>1 DEF HealthTypes
  <2>4. \A d \in Checks, t \in Stores : Counts(d, t) \in {0, 1}
    BY DEF Counts
  <2>5. waiting'[c] = Counts(c, "mongodb")' + Counts(c, "redis")'
    BY <2>2, <2>3, <2>4 DEF WaitersCounted
  <2> QED
    BY <2>1, <2>5 DEF WaitersCounted, Counts
<1>5. ProbesFollow'
  BY <1>1 DEF HealthTypes, ProbesFollow
<1>6. ToldOnce'
  <2>1. \A d \in Checks : Told(d)' = Told(d)
    BY <1>1 DEF Told
  <2>2. \A d \in Checks, t \in Stores :
           (HasSent(d, t)' <=> HasSent(d, t)) /\ ResultOf(d, t)' = ResultOf(d, t)
    BY <1>1 DEF HasSent, ResultOf, HealthTypes
  <2> QED
    BY <2>1, <2>2 DEF ToldOnce
<1>7. AnswerIsTrue'
  BY <1>1 DEF HealthTypes, AnswerIsTrue, Health!AnswerIsTrue
<1> QED
  BY <1>3, <1>4, <1>5, <1>6, <1>7

\* The channel is closed when the counter is zero: no goroutine is left.
LEMMA HealthClose ==
    ASSUME HInv, NEW c \in Checks, Health!Close(c)
    PROVE  HInv'
<1> USE StoresAssumption DEF HInv
<1>1. /\ check[c] = "wait" /\ waiting[c] = 0
      /\ check' = [check EXCEPT ![c] = "drain"]
      /\ UNCHANGED <<probe, found, results, waiting, report, code>>
  BY DEF Health!Close, Health!AllDone
<1>2. \A s \in Stores : probe[c][s] = "gone"
  <2>1. Counts(c, "mongodb") = 0 /\ Counts(c, "redis") = 0
    BY <1>1 DEF WaitersCounted, Counts
  <2>2. \A s \in Stores : probe[c][s] \notin {"idle", "ping", "send", "done"}
    BY <1>1, <2>1 DEF ProbesFollow, Counts
  <2> QED
    BY <2>2 DEF HealthTypes
<1>3. HealthTypes' /\ WaitersCounted'
  BY <1>1 DEF HealthTypes, WaitersCounted, Counts
<1>4. ProbesFollow'
  BY <1>1, <1>2 DEF HealthTypes, ProbesFollow
<1>5. ToldOnce'
  <2>1. \A d \in Checks : Told(d)' = Told(d)
    BY <1>1 DEF Told
  <2>2. \A d \in Checks, t \in Stores :
           HasSent(d, t)' = HasSent(d, t) /\ ResultOf(d, t)' = ResultOf(d, t)
    BY <1>1 DEF HasSent, ResultOf
  <2> QED
    BY <2>1, <2>2 DEF ToldOnce
<1>6. AnswerIsTrue'
  BY <1>1 DEF HealthTypes, AnswerIsTrue, Health!AnswerIsTrue
<1> QED
  BY <1>3, <1>4, <1>5, <1>6

\* A result is received.
LEMMA HealthReceive ==
    ASSUME HInv, NEW c \in Checks, Health!Receive(c)
    PROVE  HInv'
<1> USE StoresAssumption DEF HInv
<1>1. /\ check[c] = "drain" /\ results[c] # <<>>
      /\ report' = [report EXCEPT ![c] = Append(report[c], Head(results[c]))]
      /\ results' = [results EXCEPT ![c] = Tail(results[c])]
      /\ UNCHANGED <<check, probe, found, waiting, code>>
  BY DEF Health!Receive
<1>2. /\ Append(report[c], Head(results[c])) \in Seq(Results)
      /\ Tail(results[c]) \in Seq(Results)
      /\ Append(report[c], Head(results[c])) \o Tail(results[c]) = Told(c)
  BY <1>1, ReceiveTells DEF HealthTypes, Told
<1>3. HealthTypes'
  BY <1>1, <1>2 DEF HealthTypes
<1>4. WaitersCounted' /\ ProbesFollow'
  BY <1>1 DEF WaitersCounted, Counts, ProbesFollow
<1>5. ToldOnce'
  <2>1. Told(c)' = Told(c)
    <3>1. report'[c] = Append(report[c], Head(results[c])) /\ results'[c] = Tail(results[c])
      BY <1>1 DEF HealthTypes
    <3> QED
      BY <3>1, <1>2 DEF Told
  <2>2. \A d \in Checks \ {c} : Told(d)' = Told(d)
    BY <1>1 DEF Told, HealthTypes
  <2> QED
    BY <1>1, <2>1, <2>2 DEF ToldOnce, HasSent, ResultOf
<1>6. AnswerIsTrue'
  BY <1>1 DEF HealthTypes, AnswerIsTrue, Health!AnswerIsTrue
<1> QED
  BY <1>3, <1>4, <1>5, <1>6

\* The channel is drained, and the check is answered.
LEMMA HealthAnswer ==
    ASSUME HInv, NEW c \in Checks, Health!Answer(c)
    PROVE  HInv'
<1> USE StoresAssumption DEF HInv
<1>1. /\ check[c] = "drain" /\ results[c] = <<>>
      /\ check' = [check EXCEPT ![c] = "answered"]
      /\ code' = [code EXCEPT ![c] = IF Health!Healthy(report[c]) THEN 200 ELSE 503]
      /\ UNCHANGED <<probe, found, results, waiting, report>>
  BY DEF Health!Answer
<1>2. HealthTypes' /\ WaitersCounted' /\ ProbesFollow'
  BY <1>1 DEF HealthTypes, WaitersCounted, Counts, ProbesFollow
<1>3. ToldOnce'
  <2>1. \A d \in Checks : Told(d)' = Told(d)
    BY <1>1 DEF Told
  <2>2. \A d \in Checks, t \in Stores :
           HasSent(d, t)' = HasSent(d, t) /\ ResultOf(d, t)' = ResultOf(d, t)
    BY <1>1 DEF HasSent, ResultOf
  <2> QED
    BY <2>1, <2>2 DEF ToldOnce
<1>4. PICK s, t \in Stores :
         s # t /\ report[c] = <<ResultOf(c, s), ResultOf(c, t)>>
  <2>1. Told(c) = report[c]
    BY <1>1, ConcatEmptySeq DEF Told, HealthTypes
  <2>2. \A u \in Stores : HasSent(c, u)
    BY <1>1 DEF ProbesFollow, HasSent
  <2> QED
    BY <2>1, <2>2 DEF ToldOnce
<1>5. /\ DOMAIN report[c] = 1 .. 2 /\ Len(report[c]) = 2
      /\ report[c][1] = ResultOf(c, s) /\ report[c][2] = ResultOf(c, t)
  BY <1>4
<1>6. \A u \in Stores : u = s \/ u = t
  BY <1>4
<1>7. Health!Healthy(report[c]) <=> \A u \in Stores : found[c][u] = "ok"
  BY <1>5, <1>6 DEF Health!Healthy, ResultOf
<1>8. Health!ToSet(report[c]) = {[store |-> u, status |-> found[c][u]] : u \in Stores}
  BY <1>5, <1>6 DEF Health!ToSet, ResultOf
<1>9. AnswerIsTrue'
  <2>1. code'[c] = 200 <=> \A u \in Stores : found'[c][u] = "ok"
    BY <1>1, <1>7 DEF HealthTypes
  <2>2. Len(report'[c]) = Health!Cardinality(Stores)
    BY <1>1, <1>5, TwoStores
  <2>3. Health!ToSet(report'[c]) = {[store |-> u, status |-> found'[c][u]] : u \in Stores}
    BY <1>1, <1>8
  <2>4. \A d \in Checks \ {c} : check'[d] = check[d] /\ code'[d] = code[d]
    BY <1>1 DEF HealthTypes
  <2> SUFFICES ASSUME NEW d \in Checks, check'[d] = "answered"
               PROVE  /\ code'[d] = 200 <=> \A u \in Stores : found'[d][u] = "ok"
                      /\ Len(report'[d]) = Health!Cardinality(Stores)
                      /\ Health!ToSet(report'[d])
                            = {[store |-> u, status |-> found'[d][u]] : u \in Stores}
    BY DEF AnswerIsTrue, Health!AnswerIsTrue
  <2>5. CASE d = c
    BY <2>1, <2>2, <2>3, <2>5
  <2>6. CASE d # c
    BY <1>1, <2>4, <2>6 DEF AnswerIsTrue, Health!AnswerIsTrue
  <2> QED
    BY <2>5, <2>6
<1> QED
  BY <1>2, <1>3, <1>9

\* Nobody but the steps of a health check touches it.
LEMMA HealthUnchanged == HInv /\ UNCHANGED checkVars => HInv'
BY DEF HInv, checkVars, HealthTypes, WaitersCounted, Counts, ProbesFollow, ToldOnce, Told,
       HasSent, ResultOf, AnswerIsTrue, Health!AnswerIsTrue

\* The invariant of the health checks.
THEOREM HealthInvariant == Spec => []HInv
<1>1. Init => HInv
  <2> SUFFICES ASSUME Init PROVE HInv
    OBVIOUS
  <2>1. HealthTypes
    BY EmptySeq DEF Init, Health!Init, HealthTypes
  <2>2. WaitersCounted /\ ProbesFollow
    BY StoresAssumption DEF Init, Health!Init, WaitersCounted, Counts, ProbesFollow
  <2>3. ToldOnce
    <3>1. \A c \in Checks : Told(c) = <<>>
      BY ConcatEmptySeq, EmptySeq DEF Init, Health!Init, Told
    <3> QED
      BY <3>1 DEF Init, Health!Init, ToldOnce, HasSent
  <2>4. AnswerIsTrue
    BY DEF Init, Health!Init, AnswerIsTrue, Health!AnswerIsTrue
  <2> QED
    BY <2>1, <2>2, <2>3, <2>4 DEF HInv
<1>2. HInv /\ [Next]_vars => HInv'
  <2> SUFFICES ASSUME HInv, [Next]_vars PROVE HInv'
    OBVIOUS
  <2>1. ASSUME NEW c \in Checks, CheckStep(c) PROVE HInv'
    BY <2>1, HealthPing, HealthSend, HealthDone, HealthClose, HealthReceive DEF CheckStep
  <2>2. ASSUME NEW c \in Checks, AnswerCheck(c) PROVE HInv'
    BY <2>2, HealthAnswer DEF AnswerCheck
  <2>3. ASSUME NEW r \in Requests, Accept(r) PROVE HInv'
    BY <2>3, HealthStart, HealthUnchanged DEF Accept
  <2>4. CASE UNCHANGED checkVars
    BY <2>4, HealthUnchanged
  <2>5. Main \/ Notify \/ EarlySignal \/ ListenFails \/ Signal \/ Drained \/ DrainTimeout
        => UNCHANGED checkVars
    BY DEF Main, StartupStep, StartupFails, StartupFatal, Listen, StopServing, Report,
           CloseStore, Exit, Notify, EarlySignal, ListenFails, Signal, Drained, DrainTimeout
  <2>6. \A r \in Requests : Finish(r) => UNCHANGED checkVars
    BY DEF Finish
  <2> QED
    BY <2>1, <2>2, <2>3, <2>4, <2>5, <2>6 DEF Next, vars
<1> QED
  BY <1>1, <1>2, PTL DEF Spec

\* No goroutine of a health check sends on the closed channel.
THEOREM NobodySendsAfterClose == Spec => []NoSendAfterClose
<1>1. HInv => NoSendAfterClose
  BY DEF HInv, ProbesFollow, NoSendAfterClose, Health!NoSendAfterClose
<1> QED
  BY <1>1, HealthInvariant, PTL

\* A health check says 200 exactly when both stores answered it.
THEOREM AnswersAreTrue == Spec => []AnswerIsTrue
<1>1. HInv => AnswerIsTrue
  BY DEF HInv
<1> QED
  BY <1>1, HealthInvariant, PTL

\* Every variable keeps its type.
THEOREM TypeCorrect == Spec => []TypeOK
<1>1. IInv /\ HInv => TypeOK
  <2> SUFFICES ASSUME IInv, HInv PROVE TypeOK
    OBVIOUS
  <2>1. Health!TypeOK
    BY TwoStores DEF HInv, HealthTypes, Health!TypeOK, Health!Result, Results
  <2> QED
    BY <2>1 DEF IInv, ProcessTypes, TypeOK
<1> QED
  BY <1>1, InvariantHolds, HealthInvariant, PTL

-----------------------------------------------------------------------------
(***************************************************************************)
(* Progress.  That a shutdown ends is a liveness property, and TLC's.      *)
(* What it rests on is proved here: until the end there is a fair step to  *)
(* take, and every step of the process is one of at most eight.            *)
(***************************************************************************)

\* The goroutine of the signal leads the shutdown; run waits for it only while
\* it has something to say.
AfterSignal ==
    /\ closing => waiter \in {"drain", "error", "nil", "done"}
    /\ main = "waiting" => closing
    /\ waiter = "done" => main \in {"deferred", "exited"}

\* The conditions of StopServing, DrainTimeout, Report, CloseStore and Exit.
ShutdownGoesOn ==
    \/ main \in {"listen", "serving"} /\ closing
    \/ main = "waiting" /\ waiter = "drain"
    \/ main = "waiting" /\ waiter \in Sends
    \/ /\ main = "deferred"
       /\ \E s \in Stores : store[s] = "open" /\ (s = "mongodb" => store["redis"] # "open")
    \/ main = "deferred" /\ \A s \in Stores : store[s] # "open"

\* How many steps of the process are left at most.
RunLeft ==
    IF main \in {"listen", "serving"} THEN 3
    ELSE IF main = "waiting" THEN 2
    ELSE IF main = "deferred" THEN 1 ELSE 0
WaiterLeft ==
    IF waiter = "drain" THEN 3
    ELSE IF waiter = "error" THEN 2
    ELSE IF waiter = "nil" THEN 1 ELSE 0
IsOpen(s) == IF store[s] = "open" THEN 1 ELSE 0
ShutdownLeft == RunLeft + WaiterLeft + IsOpen("mongodb") + IsOpen("redis")

\* Every step of the process shortens its shutdown; the others, those of the
\* requests, leave it alone.
ShutdownShortens ==
    closing /\ Alive => ShutdownLeft' < ShutdownLeft \/ UNCHANGED processVars

LEMMA AfterSignalHolds == Spec => []AfterSignal
<1>1. Init => AfterSignal
  BY DEF Init, AfterSignal
<1>2. IInv /\ AfterSignal /\ [Next]_vars => AfterSignal'
  <2> SUFFICES ASSUME IInv, AfterSignal, [Next]_vars PROVE AfterSignal'
    OBVIOUS
  <2> USE DEF AfterSignal, IInv, StartupOpens, Startup
  <2>1. CASE StartupStep
    <3>1. main' # "waiting"
      BY <2>1 DEF StartupStep, NextStep
    <3> QED
      BY <2>1, <3>1 DEF StartupStep
  <2>2. CASE StartupFails \/ StartupFatal \/ Listen \/ Exit
    BY <2>2 DEF StartupFails, StartupFatal, Listen, Exit, End, Returning
  <2>3. CASE StopServing
    BY <2>3 DEF StopServing, NextOfMain
  <2>4. CASE Report
    BY <2>4 DEF Report
  <2>5. ASSUME NEW s \in Stores, CloseStore(s) PROVE AfterSignal'
    BY <2>5 DEF CloseStore
  <2>6. CASE Notify \/ EarlySignal \/ ListenFails \/ Signal \/ Drained \/ DrainTimeout
    BY <2>6 DEF Notify, EarlySignal, ListenFails, Signal, Drained, DrainTimeout, End
  <2>7. CASE \E r \in Requests : Accept(r) \/ Finish(r)
    BY <2>7 DEF Accept, Finish, processVars
  <2>8. CASE \E c \in Checks : CheckStep(c) \/ AnswerCheck(c)
    BY <2>8 DEF CheckStep, AnswerCheck, processVars
  <2>9. CASE UNCHANGED vars
    BY <2>9 DEF vars, processVars
  <2> QED
    BY <2>1, <2>2, <2>3, <2>4, <2>5, <2>6, <2>7, <2>8, <2>9 DEF Next, Main
<1> QED
  BY <1>1, <1>2, InvariantHolds, PTL DEF Spec

\* Wherever run and the goroutine of the signal are, after the signal and before
\* the end of the process neither waits for the other in vain.
THEOREM ShutdownNeverStuck ==
    Spec => [](closing /\ Alive => ShutdownGoesOn /\ ShutdownLeft \in 1 .. 8)
<1>1. ASSUME IInv, AfterSignal, closing, Alive
      PROVE  ShutdownGoesOn /\ ShutdownLeft \in 1 .. 8
  <2>1. main \in {"listen", "serving", "waiting", "deferred"}
    BY <1>1 DEF IInv, ProcessTypes, StartupOpens, AfterSignal, Alive
  <2>2. main = "waiting" => waiter \in {"drain"} \cup Sends
    BY <1>1 DEF AfterSignal, Sends
  <2>3. \/ \E s \in Stores : store[s] = "open" /\ (s = "mongodb" => store["redis"] # "open")
        \/ \A s \in Stores : store[s] # "open"
    BY StoresAssumption
  <2>4. ShutdownGoesOn
    BY <1>1, <2>1, <2>2, <2>3 DEF ShutdownGoesOn
  <2>5. RunLeft \in 1 .. 3 /\ WaiterLeft \in 0 .. 3
        /\ IsOpen("mongodb") \in 0 .. 1 /\ IsOpen("redis") \in 0 .. 1
    BY <2>1 DEF RunLeft, WaiterLeft, IsOpen
  <2> QED
    BY <2>4, <2>5 DEF ShutdownLeft
<1>2. IInv /\ AfterSignal =>
          (closing /\ Alive => ShutdownGoesOn /\ ShutdownLeft \in 1 .. 8)
  BY <1>1
<1> QED
  BY <1>2, InvariantHolds, AfterSignalHolds, PTL

\* A shutdown never turns back: at most eight steps of the process after the
\* signal, the last of which ends it.
THEOREM ShutdownIsShort == Spec => [][ShutdownShortens]_vars
<1>1. ASSUME IInv, AfterSignal, Next, closing, Alive
      PROVE  ShutdownLeft' < ShutdownLeft \/ UNCHANGED processVars
  <2> USE <1>1
  <2>1. main \notin Startup /\ waiter \notin {"none", "starting", "signal"}
    BY DEF IInv, StartupOpens, AfterSignal
  <2>2. ASSUME store' = store
        PROVE  IsOpen("mongodb")' = IsOpen("mongodb") /\ IsOpen("redis")' = IsOpen("redis")
    BY <2>2 DEF IsOpen
  <2>3. IsOpen("mongodb") \in 0 .. 1 /\ IsOpen("redis") \in 0 .. 1
    BY DEF IsOpen
  <2>4. CASE StopServing
    <3>1. RunLeft' = 2 /\ RunLeft = 3 /\ WaiterLeft' = WaiterLeft /\ WaiterLeft \in 0 .. 3
          /\ store' = store
      BY <2>4 DEF StopServing, NextOfMain, RunLeft, WaiterLeft
    <3> QED
      BY <3>1, <2>2, <2>3 DEF ShutdownLeft
  <2>5. CASE Drained \/ DrainTimeout
    <3>1. waiter = "drain" /\ waiter' \in {"nil", "error"} /\ main' = main /\ store' = store
      BY <2>5 DEF Drained, DrainTimeout
    <3>2. WaiterLeft = 3 /\ WaiterLeft' \in 1 .. 2
      BY <3>1 DEF WaiterLeft
    <3>3. RunLeft' = RunLeft /\ RunLeft \in 0 .. 3
      BY <3>1 DEF RunLeft
    <3> QED
      BY <3>1, <3>2, <3>3, <2>2, <2>3 DEF ShutdownLeft
  <2>6. CASE Report
    <3>1. RunLeft' = 1 /\ RunLeft = 2 /\ WaiterLeft' < WaiterLeft /\ WaiterLeft \in 1 .. 2
          /\ WaiterLeft' \in 0 .. 1 /\ store' = store
      BY <2>6 DEF Report, Sends, RunLeft, WaiterLeft
    <3> QED
      BY <3>1, <2>2, <2>3 DEF ShutdownLeft
  <2>7. ASSUME NEW s \in Stores, CloseStore(s)
        PROVE  ShutdownLeft' < ShutdownLeft
    <3>1. /\ store[s] = "open" /\ store'[s] = "closed"
          /\ main' = main /\ waiter' = waiter
          /\ \A u \in Stores \ {s} : store'[u] = store[u]
      BY <2>7 DEF CloseStore, IInv, ProcessTypes
    <3>2. RunLeft' = RunLeft /\ RunLeft \in 0 .. 3
          /\ WaiterLeft' = WaiterLeft /\ WaiterLeft \in 0 .. 3
      BY <3>1 DEF RunLeft, WaiterLeft
    <3>3. CASE s = "mongodb"
      <4>1. IsOpen("mongodb")' = 0 /\ IsOpen("mongodb") = 1 /\ IsOpen("redis")' = IsOpen("redis")
        BY <3>1, <3>3, StoresAssumption DEF IsOpen
      <4> QED
        BY <3>2, <4>1, <2>3 DEF ShutdownLeft
    <3>4. CASE s = "redis"
      <4>1. IsOpen("redis")' = 0 /\ IsOpen("redis") = 1 /\ IsOpen("mongodb")' = IsOpen("mongodb")
        BY <3>1, <3>4, StoresAssumption DEF IsOpen
      <4> QED
        BY <3>2, <4>1, <2>3 DEF ShutdownLeft
    <3> QED
      BY <3>3, <3>4, StoresAssumption
  <2>8. CASE Exit
    <3>1. RunLeft' = 0 /\ RunLeft = 1 /\ WaiterLeft' = WaiterLeft /\ WaiterLeft \in 0 .. 3
          /\ store' = store
      BY <2>8 DEF Exit, End, RunLeft, WaiterLeft
    <3> QED
      BY <3>1, <2>2, <2>3 DEF ShutdownLeft
  <2>9. ~(StartupStep \/ StartupFails \/ StartupFatal \/ Listen \/ ListenFails
          \/ Notify \/ EarlySignal \/ Signal)
    BY <2>1, <1>1 DEF StartupStep, StartupFails, StartupFatal, Listen, ListenFails,
                      Notify, EarlySignal, Signal, Startup
  <2>10. ASSUME NEW r \in Requests, Accept(r) \/ Finish(r)
        PROVE  UNCHANGED processVars
    BY <2>10 DEF Accept, Finish
  <2>11. ASSUME NEW c \in Checks, CheckStep(c) \/ AnswerCheck(c)
        PROVE  UNCHANGED processVars
    BY <2>11 DEF CheckStep, AnswerCheck
  <2> QED
    BY <2>4, <2>5, <2>6, <2>7, <2>8, <2>9, <2>10, <2>11 DEF Next, Main
<1>2. IInv /\ AfterSignal /\ [Next]_vars => [ShutdownShortens]_vars
  BY <1>1 DEF ShutdownShortens
<1> QED
  BY <1>2, InvariantHolds, AfterSignalHolds, PTL DEF Spec

\* How many steps of a health check are left at most.
ProbeLeft(c, s) ==
    IF probe[c][s] = "ping" THEN 3
    ELSE IF probe[c][s] = "send" THEN 2
    ELSE IF probe[c][s] = "done" THEN 1 ELSE 0
CheckLeft(c) ==
    IF check[c] = "wait" THEN 4 + ProbeLeft(c, "mongodb") + ProbeLeft(c, "redis")
    ELSE IF check[c] = "drain" THEN 1 + Len(results[c]) ELSE 0

Checking(c) == check[c] \in {"wait", "drain"}

\* The conditions of Ping, Done, Send, Close, and of Receive and Answer.
CheckGoesOn(c) ==
    \/ \E s \in Stores :
          \/ probe[c][s] \in {"ping", "done"}
          \/ probe[c][s] = "send" /\ Len(results[c]) < Health!Capacity
    \/ check[c] = "wait" /\ Health!AllDone(c)
    \/ check[c] = "drain"

CheckOf(c) == <<check[c], probe[c], results[c]>>

\* Every step of a health check shortens it; the others leave it alone.
CheckShortens(c) ==
    Checking(c) => CheckLeft(c)' < CheckLeft(c) \/ UNCHANGED CheckOf(c)

\* What is behind another sequence is no longer than both.
LEMMA SumBounds == \A x, y, n \in Nat : x + y = n => y \in 0 .. n
OBVIOUS

LEMMA BackIsShorter ==
    ASSUME NEW S, NEW a \in Seq(S), NEW b \in Seq(S), NEW n \in Nat, Len(a \o b) = n
    PROVE  Len(b) \in 0 .. n
<1>1. Len(a) \in Nat /\ Len(b) \in Nat /\ Len(a) + Len(b) = n
  BY ConcatProperties, LenProperties
<1> QED
  BY <1>1, SumBounds

\* The channel holds no more than what was sent, and has room for one who has
\* not sent.
LEMMA RoomToSend ==
    ASSUME HInv, NEW c \in Checks
    PROVE  \E held \in 0 .. 2 :
              /\ Len(results[c]) = held
              /\ \A s \in Stores : probe[c][s] = "send" => held < Health!Capacity
<1>1. results[c] \in Seq(Results) /\ report[c] \in Seq(Results)
  BY DEF HInv, HealthTypes
<1>2. ASSUME NEW n \in Nat, Len(Told(c)) = n PROVE Len(results[c]) \in 0 .. n
  BY <1>1, <1>2, BackIsShorter DEF Told
<1>3. CASE (\A s \in Stores : ~HasSent(c, s)) /\ Told(c) = <<>>
  <2>1. Len(Told(c)) = 0
    BY <1>3
  <2> QED
    BY <1>2, <2>1 DEF Health!Capacity
<1>4. CASE \E s \in Stores : HasSent(c, s) /\ Told(c) = <<ResultOf(c, s)>>
  <2>1. Len(Told(c)) = 1
    BY <1>4
  <2>2. PICK held \in 0 .. 1 : Len(results[c]) = held
    BY <1>2, <2>1
  <2> QED
    BY <2>2 DEF Health!Capacity
<1>5. CASE \E s, t \in Stores :
              /\ s # t /\ HasSent(c, s) /\ HasSent(c, t)
              /\ Told(c) = <<ResultOf(c, s), ResultOf(c, t)>>
  <2>1. Len(Told(c)) = 2
    BY <1>5
  <2>2. PICK held \in 0 .. 2 : Len(results[c]) = held
    BY <1>2, <2>1
  <2>3. \A s \in Stores : probe[c][s] # "send"
    BY <1>5, StoresAssumption DEF HasSent
  <2> QED
    BY <2>2, <2>3
<1> QED
  BY <1>3, <1>4, <1>5 DEF HInv, ToldOnce

LEMMA CheckLeftRange ==
    ASSUME HInv, NEW c \in Checks
    PROVE  /\ \A s \in Stores : ProbeLeft(c, s) \in 0 .. 3
           /\ Checking(c) => CheckLeft(c) \in 1 .. 10
<1>1. \A s \in Stores : ProbeLeft(c, s) \in 0 .. 3
  BY DEF ProbeLeft
<1>2. ProbeLeft(c, "mongodb") \in 0 .. 3 /\ ProbeLeft(c, "redis") \in 0 .. 3
  BY <1>1, StoresAssumption
<1>3. CASE check[c] = "wait"
  BY <1>1, <1>2, <1>3 DEF CheckLeft
<1>4. CASE check[c] = "drain"
  <2>1. PICK held \in 0 .. 2 : Len(results[c]) = held
    BY RoomToSend
  <2>2. CheckLeft(c) = 1 + held
    BY <1>4, <2>1 DEF CheckLeft
  <2> QED
    BY <1>1, <2>2
<1> QED
  BY <1>1, <1>3, <1>4 DEF Checking

\* A health check is never stuck: while it waits for its goroutines one of them
\* can go on, for the channel is never full when one wants to send, and when
\* they are all gone the WaitGroup is at zero.
THEOREM CheckNeverStuck ==
    Spec => [](\A c \in Checks : Checking(c) => CheckGoesOn(c) /\ CheckLeft(c) \in 1 .. 10)
<1>1. ASSUME HInv, NEW c \in Checks, Checking(c)
      PROVE  CheckGoesOn(c) /\ CheckLeft(c) \in 1 .. 10
  <2>1. CASE check[c] = "drain"
    BY <2>1, <1>1, CheckLeftRange DEF CheckGoesOn
  <2>2. CASE check[c] = "wait"
    <3>1. \A s \in Stores : probe[c][s] \in {"ping", "send", "done", "gone"}
      BY <2>2, <1>1 DEF HInv, HealthTypes, ProbesFollow
    <3>2. ASSUME NEW s \in Stores, probe[c][s] # "gone"
          PROVE  CheckGoesOn(c)
      <4>1. CASE probe[c][s] = "send"
        <5>1. Len(results[c]) < Health!Capacity
          BY <4>1, <1>1, RoomToSend
        <5> QED
          BY <4>1, <5>1 DEF CheckGoesOn
      <4>2. CASE probe[c][s] \in {"ping", "done"}
        BY <4>2 DEF CheckGoesOn
      <4> QED
        BY <4>1, <4>2, <3>1, <3>2
    <3>3. ASSUME \A s \in Stores : probe[c][s] = "gone"
          PROVE  CheckGoesOn(c)
      <4>1. Counts(c, "mongodb") = 0 /\ Counts(c, "redis") = 0
        BY <3>3, StoresAssumption DEF Counts
      <4>2. waiting[c] = 0
        BY <4>1, <1>1 DEF HInv, WaitersCounted
      <4> QED
        BY <4>2, <2>2 DEF CheckGoesOn, Health!AllDone
    <3> QED
      BY <3>2, <3>3, <1>1, CheckLeftRange
  <2> QED
    BY <2>1, <2>2, <1>1 DEF Checking
<1>2. HInv => \A c \in Checks : Checking(c) => CheckGoesOn(c) /\ CheckLeft(c) \in 1 .. 10
  BY <1>1
<1> QED
  BY <1>2, HealthInvariant, PTL

\* A goroutine's step is a step of its check, which waits.
LEMMA ProbeShortens ==
    ASSUME HInv, NEW c \in Checks, NEW s \in Stores,
           Health!Ping(c, s) \/ Health!Send(c, s) \/ Health!Done(c, s)
    PROVE  /\ CheckLeft(c)' < CheckLeft(c)
           /\ \A d \in Checks \ {c} : UNCHANGED CheckOf(d)
<1> USE DEF HInv, HealthTypes
<1>1. /\ check' = check
      /\ \A d \in Checks \ {c} : probe'[d] = probe[d] /\ results'[d] = results[d]
      /\ \A t \in Stores \ {s} : probe'[c][t] = probe[c][t]
  BY DEF Health!Ping, Health!Send, Health!Done
<1>2. \/ probe[c][s] = "ping" /\ probe'[c][s] = "send"
      \/ probe[c][s] = "send" /\ probe'[c][s] = "done"
      \/ probe[c][s] = "done" /\ probe'[c][s] = "gone"
  BY DEF Health!Ping, Health!Send, Health!Done
<1>3. check[c] = "wait" /\ check'[c] = "wait"
  BY <1>1, <1>2 DEF ProbesFollow
<1>4. /\ CheckLeft(c) = 4 + ProbeLeft(c, "mongodb") + ProbeLeft(c, "redis")
      /\ CheckLeft(c)' = 4 + ProbeLeft(c, "mongodb")' + ProbeLeft(c, "redis")'
  BY <1>3 DEF CheckLeft
<1>5. CheckLeft(c)' < CheckLeft(c)
  <2>1. CASE s = "mongodb"
    <3>1. /\ ProbeLeft(c, "mongodb") \in 1 .. 3
          /\ ProbeLeft(c, "mongodb")' = ProbeLeft(c, "mongodb") - 1
      BY <1>2, <2>1 DEF ProbeLeft
    <3>2. /\ ProbeLeft(c, "redis") \in 0 .. 3
          /\ ProbeLeft(c, "redis")' = ProbeLeft(c, "redis")
      BY <1>1, <2>1, StoresAssumption DEF ProbeLeft
    <3> QED
      BY <1>4, <3>1, <3>2
  <2>2. CASE s = "redis"
    <3>1. /\ ProbeLeft(c, "redis") \in 1 .. 3
          /\ ProbeLeft(c, "redis")' = ProbeLeft(c, "redis") - 1
      BY <1>2, <2>2 DEF ProbeLeft
    <3>2. /\ ProbeLeft(c, "mongodb") \in 0 .. 3
          /\ ProbeLeft(c, "mongodb")' = ProbeLeft(c, "mongodb")
      BY <1>1, <2>2, StoresAssumption DEF ProbeLeft
    <3> QED
      BY <1>4, <3>1, <3>2
  <2> QED
    BY <2>1, <2>2, StoresAssumption
<1> QED
  BY <1>1, <1>5 DEF CheckOf

\* So is a step of the check itself.
LEMMA CallShortens ==
    ASSUME HInv, NEW c \in Checks,
           Health!Close(c) \/ Health!Receive(c) \/ Health!Answer(c)
    PROVE  /\ CheckLeft(c)' < CheckLeft(c)
           /\ \A d \in Checks \ {c} : UNCHANGED CheckOf(d)
<1>1. \A d \in Checks \ {c} :
         check'[d] = check[d] /\ probe'[d] = probe[d] /\ results'[d] = results[d]
  BY DEF HInv, HealthTypes, Health!Close, Health!Receive, Health!Answer
<1>2. PICK held \in 0 .. 2 : Len(results[c]) = held
  BY RoomToSend
<1>3. CASE Health!Close(c)
  <2>1. check[c] = "wait" /\ check'[c] = "drain" /\ Len(results'[c]) = held
    BY <1>2, <1>3 DEF HInv, HealthTypes, Health!Close
  <2>2. CheckLeft(c)' = 1 + held
    BY <2>1 DEF CheckLeft
  <2>3. CheckLeft(c) = 4 + ProbeLeft(c, "mongodb") + ProbeLeft(c, "redis")
    BY <2>1 DEF CheckLeft
  <2>4. ProbeLeft(c, "mongodb") \in 0 .. 3 /\ ProbeLeft(c, "redis") \in 0 .. 3
    BY CheckLeftRange, StoresAssumption
  <2>5. CheckLeft(c)' < CheckLeft(c)
    BY <2>2, <2>3, <2>4
  <2> QED
    BY <1>1, <2>5 DEF CheckOf
<1>4. CASE Health!Receive(c)
  <2>1. check[c] = "drain" /\ check'[c] = "drain" /\ results[c] # <<>>
        /\ results'[c] = Tail(results[c]) /\ results[c] \in Seq(Results)
    BY <1>4 DEF HInv, HealthTypes, Health!Receive
  <2>2. Len(results'[c]) = Len(results[c]) - 1
    BY <2>1, HeadTailProperties
  <2>3. CheckLeft(c) = 1 + held /\ CheckLeft(c)' = 1 + (held - 1)
    BY <2>1, <2>2, <1>2 DEF CheckLeft
  <2>4. CheckLeft(c)' < CheckLeft(c)
    BY <2>3
  <2> QED
    BY <1>1, <2>4 DEF CheckOf
<1>5. CASE Health!Answer(c)
  <2>1. check[c] = "drain" /\ check'[c] = "answered"
    BY <1>5 DEF HInv, HealthTypes, Health!Answer
  <2>2. CheckLeft(c) = 1 + held /\ CheckLeft(c)' = 0
    BY <2>1, <1>2 DEF CheckLeft
  <2>3. CheckLeft(c)' < CheckLeft(c)
    BY <2>2
  <2> QED
    BY <1>1, <2>3 DEF CheckOf
<1> QED
  BY <1>3, <1>4, <1>5

\* A health check never turns back: at most ten steps after it has started its
\* goroutines it is answered.
THEOREM ChecksAreShort == Spec => [][\A c \in Checks : CheckShortens(c)]_vars
<1>1. ASSUME HInv, Next, NEW c \in Checks PROVE CheckShortens(c)
  <2>1. ASSUME NEW d \in Checks, CheckStep(d) \/ AnswerCheck(d)
        PROVE  CheckLeft(d)' < CheckLeft(d) /\ (c # d => UNCHANGED CheckOf(c))
    BY <1>1, <2>1, ProbeShortens, CallShortens DEF CheckStep, AnswerCheck
  <2>2. ASSUME NEW d \in Checks, Health!Start(d)
        PROVE  ~Checking(d) /\ (c # d => UNCHANGED CheckOf(c))
    BY <1>1, <2>2 DEF HInv, HealthTypes, Checking, CheckOf, Health!Start
  <2>3. ASSUME UNCHANGED checkVars
        PROVE  UNCHANGED CheckOf(c)
    BY <2>3 DEF checkVars, CheckOf
  <2>4. ASSUME NEW d \in Checks, CheckStep(d) \/ AnswerCheck(d)
        PROVE  CheckShortens(c)
    <3>1. CheckLeft(d)' < CheckLeft(d) /\ (c # d => UNCHANGED CheckOf(c))
      BY <2>1, <2>4
    <3>2. CASE c = d
      BY <3>1, <3>2 DEF CheckShortens
    <3> QED
      BY <3>1, <3>2 DEF CheckShortens
  <2>5. ASSUME NEW r \in Requests, Accept(r) \/ Finish(r)
        PROVE  CheckShortens(c)
    <3>1. CASE UNCHANGED checkVars
      BY <3>1, <2>3 DEF CheckShortens
    <3>2. CASE r \in Checks /\ Health!Start(r)
      <4>1. ~Checking(r) /\ (c # r => UNCHANGED CheckOf(c))
        BY <2>2, <3>2
      <4> QED
        BY <4>1 DEF CheckShortens
    <3> QED
      BY <2>5, <3>1, <3>2 DEF Accept, Finish
  <2>6. CASE Main \/ Notify \/ EarlySignal \/ ListenFails \/ Signal \/ Drained \/ DrainTimeout
    <3>1. UNCHANGED checkVars
      BY <2>6 DEF Main, StartupStep, StartupFails, StartupFatal, Listen, StopServing, Report,
                  CloseStore, Exit, Notify, EarlySignal, ListenFails, Signal, Drained,
                  DrainTimeout
    <3> QED
      BY <3>1, <2>3 DEF CheckShortens
  <2> QED
    BY <1>1, <2>4, <2>5, <2>6 DEF Next
<1>2. HInv /\ [Next]_vars => [\A c \in Checks : CheckShortens(c)]_vars
  BY <1>1
<1> QED
  BY <1>2, HealthInvariant, PTL DEF Spec

=============================================================================
