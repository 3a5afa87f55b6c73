------------------------ MODULE RequestPipelineProofs ------------------------
(***************************************************************************)
(* What RequestPipeline promises, for any number of requests, addresses,   *)
(* clients and failures: types, whose errors answers tell, whose errors    *)
(* log lines tell, and that the limiters keep the budget of each key.      *)
(***************************************************************************)
EXTENDS RequestPipeline, FiniteSetTheorems, TLAPS

Answer == [status : Nat, tells : Told]

\* An abbreviation that every proof below may expand.
USE DEF CountedIp

\* A step may be of a request that has begun, and begins none.
BeginsNone == \A s \in Requests : pc[s] = "idle" => pc'[s] = "idle"

-----------------------------------------------------------------------------
(***************************************************************************)
(* Types.                                                                  *)
(***************************************************************************)

\* What an answer to r may tell of r.
LEMMA ToldType ==
    ASSUME NEW r \in Requests
    PROVE  None \in Told /\ Mistake(r) \in Told /\ Fault(r) \in Told
BY DEF Told, Mistake, Fault

\* The three are different.
LEMMA ToldApart ==
    ASSUME NEW r \in Requests
    PROVE  Mistake(r) # Fault(r) /\ Mistake(r) # None /\ Fault(r) # None
BY ToldType, NoneAssumption DEF Mistake, Fault

\* Writing an answer keeps the types.
LEMMA WriteType ==
    ASSUME TypeOK, NEW r \in Requests, pc[r] # "idle", NEW status \in Nat,
           NEW tells \in Told, Write(r, status, tells)
    PROVE  /\ pc' \in [Requests -> {"idle"} \cup Running \cup Ended] /\ BeginsNone
           /\ bodies' \in [Requests -> Seq(Answer)]
<1>1. [status |-> status, tells |-> tells] \in Answer
      /\ [status |-> 404, tells |-> None] \in Answer
  BY DEF Answer, Told
<1>2. PICK b \in Seq(Answer) : bodies' = [bodies EXCEPT ![r] = b]
  <2>1. <<[status |-> status, tells |-> tells]>> \in Seq(Answer)
    BY <1>1
  <2>2. <<[status |-> status, tells |-> tells], [status |-> 404, tells |-> None]>>
            \in Seq(Answer)
    BY <1>1
  <2>3. CASE status = 404
    BY <2>2, <2>3 DEF Write
  <2>4. CASE status # 404
    BY <2>1, <2>4 DEF Write
  <2> QED BY <2>3, <2>4
<1>3. bodies \in [Requests -> Seq(Answer)]
  BY DEF TypeOK, Answer
<1>4. bodies' \in [Requests -> Seq(Answer)]
  BY <1>2, <1>3
<1>5. pc' \in [Requests -> {"idle"} \cup Running \cup Ended] /\ BeginsNone
  BY DEF Write, Go, TypeOK, Ended, BeginsNone
<1> QED BY <1>4, <1>5

\* So does going on to a step.
LEMMA GoOnType ==
    ASSUME TypeOK, NEW r \in Requests, pc[r] # "idle", NEW where \in Running \cup Ended, GoOn(r, where)
    PROVE  /\ pc' \in [Requests -> {"idle"} \cup Running \cup Ended] /\ BeginsNone
           /\ bodies' \in [Requests -> Seq(Answer)]
BY DEF TypeOK, GoOn, Go, Answer, BeginsNone

\* And a limiter.
LEMMA LimitType ==
    ASSUME TypeOK, NEW r \in Requests, pc[r] # "idle", NEW key \in Keys, NEW next \in Running,
           Limit(r, key, next)
    PROVE  /\ pc' \in [Requests -> {"idle"} \cup Running \cup Ended] /\ BeginsNone
           /\ bodies' \in [Requests -> Seq(Answer)]
           /\ bucket' \in [Keys -> Nat]
           /\ faults' \in Nat
<1>1. bucket' \in [Keys -> Nat]
  <2>1. bucket \in [Keys -> Nat]
    BY DEF TypeOK
  <2>2. CASE UNCHANGED bucket
    BY <2>1, <2>2
  <2>3. CASE bucket[key] > 0 /\ bucket' = Taken(key)
    <3>1. bucket[key] - 1 \in Nat
      BY <2>1, <2>3
    <3> QED BY <2>1, <2>3, <3>1 DEF Taken
  <2> QED BY <2>2, <2>3 DEF Limit
<1>2. faults' \in Nat
  BY DEF Limit, Succeeds, Fails, TypeOK
<1>3. GoOn(r, next) \/ Write(r, 429, None) \/ Write(r, 500, None)
  BY DEF Limit, WhenItFails
<1> QED BY <1>1, <1>2, <1>3, GoOnType, WriteType, ToldType

\* It is enough to look at what a step changes.
LEMMA ChangesType ==
    ASSUME TypeOK, BeginsNone, UNCHANGED <<now, config, req, before>>,
           pc' \in [Requests -> {"idle"} \cup Running \cup Ended],
           bodies' \in [Requests -> Seq(Answer)],
           bucket' \in [Keys -> Nat], faults' \in Nat, errInternal' \in Words,
           read' \in [Requests -> Requests \cup {None}],
           line' \in [Requests -> Words \cup {None}],
           ran' \subseteq Requests
    PROVE  TypeOK'
BY DEF TypeOK, BeginsNone, Answer

\* The types are an invariant of Next.
LEMMA TypeStep == TypeOK /\ [Next]_vars => TypeOK'
<1> SUFFICES ASSUME TypeOK, [Next]_vars PROVE TypeOK'
  OBVIOUS
<1>0. /\ pc \in [Requests -> {"idle"} \cup Running \cup Ended]
      /\ bodies \in [Requests -> Seq(Answer)] /\ bucket \in [Keys -> Nat]
      /\ faults \in Nat /\ errInternal \in Words
      /\ read \in [Requests -> Requests \cup {None}]
      /\ line \in [Requests -> Words \cup {None}] /\ ran \subseteq Requests
      /\ \A r \in Requests : pc[r] # "idle" => req[r] \in Input
  BY DEF TypeOK, Answer
<1>1. ASSUME NEW r \in Requests, NEW in \in Inputs, Begin(r, in) PROVE TypeOK'
  <2>1. in \in Input
    BY InputAssumption
  <2>2. pc' \in [Requests -> {"idle"} \cup Running \cup Ended]
    BY <1>0, <1>1 DEF Begin, Go, Running
  <2>3. req' \in [Requests -> Input \cup {None}]
    BY <1>1, <2>1 DEF Begin, TypeOK
  <2>4. \A s \in Requests : pc'[s] # "idle" => req'[s] \in Input
    BY <1>1, <2>1 DEF Begin, Go, TypeOK
  <2>5. before' \in [Requests -> SUBSET Requests]
    BY <1>1 DEF Begin, TypeOK
  <2> QED BY <1>1, <2>2, <2>3, <2>4, <2>5 DEF Begin, TypeOK
<1>2. ASSUME NEW r \in Requests, GlobalLimit(r) PROVE TypeOK'
  <2>1. pc[r] # "idle"
    BY <1>2 DEF GlobalLimit
  <2>2. /\ pc' \in [Requests -> {"idle"} \cup Running \cup Ended] /\ BeginsNone
        /\ bodies' \in [Requests -> Seq(Answer)]
        /\ bucket' \in [Keys -> Nat] /\ faults' \in Nat
    <3>1. CASE Limit(r, GlobalKey(r), "csrf")
      <4>1. GlobalKey(r) \in Keys
        BY <1>0, <2>1 DEF GlobalKey, Keys, Input
      <4> QED BY <2>1, <3>1, <4>1, LimitType DEF Running
    <3>2. CASE Succeeds /\ GoOn(r, "csrf") /\ UNCHANGED bucket
      BY <1>0, <2>1, <3>2, GoOnType DEF Running, Succeeds
    <3> QED BY <1>2, <3>1, <3>2 DEF GlobalLimit
  <2> QED BY <1>0, <1>2, <2>2, ChangesType DEF GlobalLimit
<1>3. ASSUME NEW r \in Requests, Protect(r) PROVE TypeOK'
  <2>1. pc[r] # "idle"
    BY <1>3 DEF Protect
  <2>2. Write(r, 403, None) \/ Write(r, 404, None)
        \/ GoOn(r, "client") \/ GoOn(r, "handle")
    BY <1>3 DEF Protect
  <2>3. /\ pc' \in [Requests -> {"idle"} \cup Running \cup Ended] /\ BeginsNone
        /\ bodies' \in [Requests -> Seq(Answer)]
    BY <2>1, <2>2, WriteType, ToldType, GoOnType DEF Running
  <2> QED BY <1>0, <1>3, <2>3, ChangesType DEF Protect
<1>4. ASSUME NEW r \in Requests, ClientLimit(r) PROVE TypeOK'
  <2>1. pc[r] # "idle"
    BY <1>4 DEF ClientLimit
  <2>2. /\ pc' \in [Requests -> {"idle"} \cup Running \cup Ended] /\ BeginsNone
        /\ bodies' \in [Requests -> Seq(Answer)]
        /\ bucket' \in [Keys -> Nat] /\ faults' \in Nat
    <3>1. CASE /\ req[r].client # None
               /\ Limit(r, <<"client", req[r].client>>, "handle")
      <4>1. <<"client", req[r].client>> \in Keys
        BY <1>0, <2>1, <3>1 DEF Keys, Input
      <4> QED BY <2>1, <3>1, <4>1, LimitType DEF Running
    <3>2. CASE Succeeds /\ GoOn(r, "handle") /\ UNCHANGED bucket
      BY <1>0, <2>1, <3>2, GoOnType DEF Running, Succeeds
    <3>3. CASE Succeeds /\ Write(r, 400, Mistake(r)) /\ UNCHANGED bucket
      BY <1>0, <2>1, <3>3, WriteType, ToldType DEF Succeeds
    <3> QED BY <1>4, <3>1, <3>2, <3>3 DEF ClientLimit
  <2> QED BY <1>0, <1>4, <2>2, ChangesType DEF ClientLimit
<1>5. ASSUME NEW r \in Requests, Handle(r) PROVE TypeOK'
  <2>1. pc[r] # "idle"
    BY <1>5 DEF Handle
  <2>2. \/ \E status \in Nat, tells \in Told : Write(r, status, tells)
        \/ GoOn(r, "setType") \/ GoOn(r, "panicked")
    BY <1>5, ToldType DEF Handle
  <2>3. /\ pc' \in [Requests -> {"idle"} \cup Running \cup Ended] /\ BeginsNone
        /\ bodies' \in [Requests -> Seq(Answer)]
    BY <2>1, <2>2, WriteType, GoOnType DEF Running, Ended
  <2> QED BY <1>0, <1>5, <2>3, ChangesType DEF Handle
<1>6. ASSUME NEW r \in Requests, SetType(r) PROVE TypeOK'
  <2>1. errInternal' \in Words
    BY <1>0, <1>6 DEF SetType, Words, Assigned
  <2> QED BY <1>0, <1>6, <2>1, GoOnType, ChangesType DEF SetType, Running
<1>7. ASSUME NEW r \in Requests, SetData(r) PROVE TypeOK'
  <2>1. errInternal' \in Words
    BY <1>0, <1>7 DEF SetData, Words, Assigned
  <2> QED BY <1>0, <1>7, <2>1, GoOnType, ChangesType DEF SetData, Running
<1>8. ASSUME NEW r \in Requests, ReadType(r) PROVE TypeOK'
  <2>1. read' \in [Requests -> Requests \cup {None}]
    BY <1>0, <1>8 DEF ReadType, Words
  <2>2. GoOn(r, "readData") /\ pc[r] # "idle" /\ "readData" \in Running
    BY <1>8 DEF ReadType, Running
  <2>3. UNCHANGED <<now, faults, config, bucket, errInternal, req, line, ran, before>>
    BY <1>8 DEF ReadType
  <2> QED BY <1>0, <2>1, <2>2, <2>3, GoOnType, ChangesType
<1>9. ASSUME NEW r \in Requests, ReadData(r) PROVE TypeOK'
  <2>1. line' \in [Requests -> Words \cup {None}]
    BY <1>0, <1>9 DEF ReadData, Words
  <2>2. Write(r, 500, None) /\ pc[r] # "idle"
    BY <1>9 DEF ReadData, InternalText
  <2>3. UNCHANGED <<now, faults, config, bucket, errInternal, req, read, ran, before>>
    BY <1>9 DEF ReadData
  <2>4. /\ pc' \in [Requests -> {"idle"} \cup Running \cup Ended] /\ BeginsNone
        /\ bodies' \in [Requests -> Seq(Answer)]
    BY <2>2, WriteType, ToldType
  <2> QED BY <1>0, <2>1, <2>3, <2>4, ChangesType
<1>10. ASSUME NEW r \in Requests, Torn(r) PROVE TypeOK'
  <2>0. UNCHANGED <<now, faults, config, bucket, req, read, line, bodies, ran, before>>
    BY <1>10 DEF Torn
  <2>1. pc' \in [Requests -> {"idle"} \cup Running \cup Ended] /\ BeginsNone
    BY <1>0, <1>10 DEF Torn, Go, Ended, Running, BeginsNone
  <2>2. errInternal' \in Words
    BY <1>0, <1>10 DEF Torn, Words, Nothing
  <2> QED BY <1>0, <2>0, <2>1, <2>2, ChangesType
<1>11. ASSUME Tick PROVE TypeOK'
  <2>1. \A key \in Keys : BurstOf(key) \in Nat /\ RateOf(key) \in Nat
    BY LimitAssumption DEF BurstOf, RateOf
  <2>2. bucket' \in [Keys -> Nat]
    BY <1>0, <1>11, <2>1 DEF Tick
  <2>3. now' \in Nat /\ UNCHANGED <<faults, config, errInternal>>
    BY <1>11 DEF Tick, TypeOK
  <2>4. UNCHANGED <<pc, req, read, line, bodies, ran, before>>
    BY <1>11 DEF Tick, requestVars
  <2> QED BY <2>2, <2>3, <2>4 DEF TypeOK
<1>12. CASE UNCHANGED vars
  BY <1>12 DEF vars, requestVars, TypeOK
<1> QED BY <1>1, <1>2, <1>3, <1>4, <1>5, <1>6, <1>7, <1>8, <1>9, <1>10, <1>11, <1>12
        DEF Next, Step

\* The types hold initially.
LEMMA TypeInit == Init => TypeOK
<1> SUFFICES ASSUME Init PROVE TypeOK
  OBVIOUS
<1>1. \A key \in Keys : BurstOf(key) \in Nat
  BY LimitAssumption DEF BurstOf
<1> QED BY <1>1 DEF Init, TypeOK, Words, Nothing

\* Every variable has its type, in every reachable state.
THEOREM TypeCorrect == Spec => []TypeOK
BY TypeInit, TypeStep, PTL DEF Spec

\* A request's step moves it alone, unless the process ends.
LEMMA StepMoves ==
    ASSUME TypeOK, NEW r \in Requests, Step(r)
    PROVE  /\ pc[r] \in Running /\ UNCHANGED before
           /\ \/ \A s \in Requests \ {r} : pc'[s] = pc[s]
              \/ \A s \in Requests :
                    pc'[s] = IF pc[s] \in Running THEN "crashed" ELSE pc[s]
           /\ pc'[r] # "idle"
<1>1. UNCHANGED before /\ pc[r] \in Running
  BY DEF Step, GlobalLimit, Protect, ClientLimit, Handle, SetType, SetData,
         ReadType, ReadData, Torn, Running
<1>2. CASE Torn(r)
  BY <1>1, <1>2 DEF Torn, TypeOK, Go, Running
<1>3. ASSUME NEW key, NEW next \in Running, Limit(r, key, next)
      PROVE  \E where \in Running \cup Ended : Go(r, where)
  BY <1>3 DEF Limit, WhenItFails, GoOn, Write, Ended
<1>4. CASE ~Torn(r)
  <2>1. GlobalLimit(r) => \E where \in Running \cup Ended : Go(r, where)
    BY <1>3 DEF GlobalLimit, GoOn, Running
  <2>2. ClientLimit(r) => \E where \in Running \cup Ended : Go(r, where)
    BY <1>3 DEF ClientLimit, GoOn, Write, Running, Ended
  <2>3. Protect(r) \/ Handle(r) => \E where \in Running \cup Ended : Go(r, where)
    BY DEF Protect, Handle, GoOn, Write, Running, Ended
  <2>4. SetType(r) \/ SetData(r) \/ ReadType(r) \/ ReadData(r)
        => \E where \in Running \cup Ended : Go(r, where)
    BY DEF SetType, SetData, ReadType, ReadData, GoOn, Write, Running, Ended
  <2>5. PICK where \in Running \cup Ended : Go(r, where)
    BY <1>4, <2>1, <2>2, <2>3, <2>4 DEF Step
  <2> QED BY <1>1, <2>5 DEF Go, TypeOK, Running, Ended
<1> QED BY <1>2, <1>4

\* Who has begun stays so, and what it asked for stays.
LEMMA RequestsStay ==
    ASSUME TypeOK, [Next]_vars
    PROVE  \A s \in Requests : pc[s] # "idle" => pc'[s] # "idle" /\ req'[s] = req[s]
<1>1. ASSUME NEW r \in Requests, NEW in \in Inputs, Begin(r, in)
      PROVE  \A s \in Requests : pc[s] # "idle" => pc'[s] # "idle" /\ req'[s] = req[s]
  BY <1>1 DEF Begin, Go, TypeOK
<1>2. ASSUME NEW r \in Requests, Step(r)
      PROVE  \A s \in Requests : pc[s] # "idle" => pc'[s] # "idle" /\ req'[s] = req[s]
  <2>1. UNCHANGED req
    BY <1>2 DEF Step, GlobalLimit, Protect, ClientLimit, Handle, SetType, SetData, ReadType,
                ReadData, Torn
  <2>2. \A s \in Requests : pc[s] # "idle" => pc'[s] # "idle"
    BY <1>2, StepMoves
  <2> QED BY <2>1, <2>2
<1>3. Tick \/ UNCHANGED vars
      => \A s \in Requests : pc[s] # "idle" => pc'[s] # "idle" /\ req'[s] = req[s]
  BY DEF Tick, vars, requestVars
<1> QED BY <1>1, <1>2, <1>3 DEF Next

-----------------------------------------------------------------------------
(***************************************************************************)
(* Answers.  Whose error one may tell depends on the route, which stays    *)
(* once a request has begun; and only such a request is answered.          *)
(***************************************************************************)
AnsweredHaveBegun == \A r \in Requests : bodies[r] # <<>> => pc[r] # "idle"


\* An answer that may be given to r.
Own(r, status, tells) ==
    /\ tells \in {None, Mistake(r), Fault(r)}
    /\ status = 500 => tells = None
    /\ tells = Fault(r) =>
          \/ req[r].route = "probe" /\ status = 503
          \/ req[r].route = "token" /\ status = 400

\* Nothing is written but such answers.
LEMMA BodiesChange ==
    ASSUME TypeOK, [Next]_vars
    PROVE  \/ UNCHANGED bodies
           \/ \E r \in Requests, status \in Nat, tells \in Told :
                 Own(r, status, tells) /\ Write(r, status, tells) /\ pc[r] # "idle"
<1>1. ASSUME NEW r \in Requests, NEW status \in Nat,
             NEW tells \in Told, pc[r] # "idle",
             Own(r, status, tells), Write(r, status, tells)
      PROVE  \E q \in Requests, st \in Nat, t \in Told :
                 Own(q, st, t) /\ Write(q, st, t) /\ pc[q] # "idle"
  BY <1>1
<1>2. ASSUME NEW r \in Requests
      PROVE  /\ \A status \in {200, 400, 403, 404, 429, 500} : Own(r, status, None)
             /\ Own(r, 400, Mistake(r))
             /\ req[r].route = "token" => Own(r, 400, Fault(r))
             /\ req[r].route = "probe" => Own(r, 503, Fault(r))
  BY ToldApart DEF Own
<1>4. ASSUME NEW r \in Requests, NEW key, NEW next, Limit(r, key, next)
      PROVE  \/ UNCHANGED bodies
             \/ Write(r, 429, None) \/ Write(r, 500, None)
  BY <1>4 DEF Limit, WhenItFails, GoOn
<1>5. ASSUME NEW r \in Requests, Step(r)
      PROVE  \/ UNCHANGED bodies
             \/ \E status \in {200, 400, 403, 404, 429, 500} : Write(r, status, None)
             \/ Write(r, 400, Mistake(r))
             \/ req[r].route = "token" /\ Write(r, 400, Fault(r))
             \/ req[r].route = "probe" /\ Write(r, 503, Fault(r))
  <2>1. GlobalLimit(r) \/ ClientLimit(r)
        => \/ UNCHANGED bodies \/ Write(r, 429, None) \/ Write(r, 500, None)
           \/ Write(r, 400, Mistake(r))
    BY <1>4 DEF GlobalLimit, ClientLimit, GoOn
  <2>2. Protect(r) => UNCHANGED bodies \/ Write(r, 403, None) \/ Write(r, 404, None)
    BY DEF Protect, GoOn
  <2>3. Handle(r) => \/ UNCHANGED bodies
                     \/ \E status \in {200, 400, 404} : Write(r, status, None)
                     \/ Write(r, 400, Mistake(r))
                     \/ req[r].route = "token" /\ Write(r, 400, Fault(r))
                     \/ req[r].route = "probe" /\ Write(r, 503, Fault(r))
    BY DEF Handle, GoOn
  <2>4. SetType(r) \/ SetData(r) \/ ReadType(r) \/ Torn(r) => UNCHANGED bodies
    BY DEF SetType, SetData, ReadType, Torn, GoOn
  <2>5. ReadData(r) => Write(r, 500, None)
    BY DEF ReadData, InternalText
  <2> QED BY <1>5, <2>1, <2>2, <2>3, <2>4, <2>5 DEF Step
<1>6. ASSUME NEW r \in Requests, Step(r)
      PROVE  \/ UNCHANGED bodies
             \/ \E q \in Requests, st \in Nat, t \in Told :
                   Own(q, st, t) /\ Write(q, st, t) /\ pc[q] # "idle"
  <2>0. pc[r] # "idle"
    BY <1>6, StepMoves DEF Running
  <2>1. \A status \in {200, 400, 403, 404, 429, 500} : status \in Nat
    OBVIOUS
  <2> QED BY <1>1, <1>2, <1>5, <1>6, <2>0, <2>1, ToldType
<1>7. (\E r \in Requests, in \in Inputs : Begin(r, in)) \/ Tick \/ UNCHANGED vars
      => UNCHANGED bodies
  BY DEF Begin, Tick, vars, requestVars
<1> QED BY <1>6, <1>7 DEF Next

\* Answers stay the requests' own.
LEMMA OwnStep ==
    TypeOK /\ AnswersAreOwn /\ AnsweredHaveBegun /\ [Next]_vars
    => AnswersAreOwn' /\ AnsweredHaveBegun'
<1> SUFFICES ASSUME TypeOK, AnswersAreOwn, AnsweredHaveBegun, [Next]_vars
             PROVE  AnswersAreOwn' /\ AnsweredHaveBegun'
  OBVIOUS
<1>0. /\ \A s \in Requests : pc[s] # "idle" => pc'[s] # "idle" /\ req'[s] = req[s]
      /\ \A s \in Requests : \A i \in 1 .. Len(bodies[s]) :
            Own(s, bodies[s][i].status, bodies[s][i].tells)
  BY RequestsStay DEF AnswersAreOwn, Own
<1>1. CASE UNCHANGED bodies
  <2>1. \A s \in Requests : bodies[s] # <<>> => req'[s] = req[s] /\ pc'[s] # "idle"
    BY <1>0 DEF AnsweredHaveBegun
  <2>2. \A s \in Requests : bodies[s] = <<>> => Len(bodies[s]) = 0
    OBVIOUS
  <2> QED BY <1>1, <2>1, <2>2 DEF AnswersAreOwn, AnsweredHaveBegun, Mistake, Fault
<1>2. ASSUME NEW r \in Requests, NEW status \in Nat,
             NEW tells \in Told, pc[r] # "idle",
             Own(r, status, tells), Write(r, status, tells)
      PROVE  AnswersAreOwn' /\ AnsweredHaveBegun'
  <2>1. \A s \in Requests \ {r} : bodies'[s] = bodies[s]
    BY <1>2 DEF Write, TypeOK
  <2>2. \A i \in 1 .. Len(bodies'[r]) :
           \/ bodies'[r][i] = [status |-> status, tells |-> tells]
           \/ bodies'[r][i] = [status |-> 404, tells |-> None]
    <3>1. CASE status = 404
      <4>1. bodies'[r] = <<[status |-> 404, tells |-> tells],
                           [status |-> 404, tells |-> None]>>
        BY <1>2, <3>1 DEF Write, TypeOK
      <4> QED BY <3>1, <4>1
    <3>2. CASE status # 404
      BY <1>2, <3>2 DEF Write, TypeOK
    <3> QED BY <3>1, <3>2
  <2>3. \A i \in 1 .. Len(bodies'[r]) :
           Own(r, bodies'[r][i].status, bodies'[r][i].tells)
    BY <1>2, <2>2, ToldApart DEF Own
  <2>4. \A s \in Requests : bodies'[s] # <<>> => req'[s] = req[s] /\ pc'[s] # "idle"
    BY <1>0, <1>2, <2>1 DEF AnsweredHaveBegun
  <2>5. \A s \in Requests : bodies'[s] = <<>> => Len(bodies'[s]) = 0
    OBVIOUS
  <2>6. \A s \in Requests \ {r} : \A i \in 1 .. Len(bodies'[s]) :
           Own(s, bodies'[s][i].status, bodies'[s][i].tells)
    BY <1>0, <2>1
  <2>7. \A s \in Requests : \A i \in 1 .. Len(bodies'[s]) :
           /\ Own(s, bodies'[s][i].status, bodies'[s][i].tells)
           /\ req'[s] = req[s]
    BY <2>3, <2>4, <2>5, <2>6
  <2>8. AnswersAreOwn'
    <3>1. \A s : Mistake(s)' = Mistake(s) /\ Fault(s)' = Fault(s)
      BY DEF Mistake, Fault
    <3> QED BY <2>7, <3>1 DEF AnswersAreOwn, Own
  <2>9. AnsweredHaveBegun'
    BY <2>4 DEF AnsweredHaveBegun
  <2> QED BY <2>8, <2>9
<1> QED BY <1>1, <1>2, BodiesChange

\* No answer tells another request's error; what goes through the shared
\* value is told to nobody, and a failure of a store only by /healthz, with a
\* 503, and by the token endpoint, with a 400.
THEOREM AnswersTellOwn == Spec => []AnswersAreOwn
<1>1. Init => AnswersAreOwn /\ AnsweredHaveBegun
  BY DEF Init, AnswersAreOwn, AnsweredHaveBegun
<1> QED BY <1>1, OwnStep, TypeCorrect, PTL DEF Spec

-----------------------------------------------------------------------------
(***************************************************************************)
(* Log lines.  What a request reads in ErrInternal was written by itself   *)
(* or over it, by a request that was running; and one that had ended       *)
(* before this one began never runs again.                                 *)
(***************************************************************************)
Others(r) == Requests \ before[r]

\* What had ended has ended.
BeforeHasEnded == \A r \in Requests : \A s \in before[r] : pc[s] \in Ended

\* A request that has not begun has logged nothing.
SilentAtFirst == \A r \in Requests : pc[r] = "idle" => line[r] = None

\* What a request has yet to read, and what it has read, is of the others.
SharedIsRecent ==
    \A r \in Requests :
        /\ pc[r] \in {"setData", "readType", "readData"} => errInternal.type \in Others(r)
        /\ pc[r] \in {"readType", "readData"} => errInternal.data \in Others(r)
        /\ pc[r] = "readData" => read[r] \in Others(r)

LogInv == TypeOK /\ BeforeHasEnded /\ SilentAtFirst /\ SharedIsRecent
                 /\ LoggedErrorIsConcurrent

\* A step keeps BeforeHasEnded.
LEMMA BeforeStep == TypeOK /\ BeforeHasEnded /\ [Next]_vars => BeforeHasEnded'
<1> SUFFICES ASSUME TypeOK, BeforeHasEnded, [Next]_vars PROVE BeforeHasEnded'
  OBVIOUS
<1>0. \A s \in Requests : before[s] \subseteq Requests
  BY DEF TypeOK
<1>1. ASSUME NEW r \in Requests, NEW in \in Inputs, Begin(r, in) PROVE BeforeHasEnded'
  <2>1. \A s \in Requests : pc[s] \in Ended => pc'[s] \in Ended
    BY <1>1 DEF Begin, Go, TypeOK, Ended
  <2>2. \A s \in Requests : before'[s] \subseteq {t \in Requests : pc[t] \in Ended}
    BY <1>0, <1>1 DEF Begin, TypeOK, BeforeHasEnded
  <2> QED BY <2>1, <2>2 DEF BeforeHasEnded
<1>2. ASSUME NEW r \in Requests, Step(r) PROVE BeforeHasEnded'
  <2>1. \A s \in Requests : pc[s] \in Ended => pc'[s] \in Ended
    BY <1>2, StepMoves DEF Running, Ended
  <2> QED BY <1>0, <1>2, <2>1, StepMoves DEF BeforeHasEnded
<1>3. CASE Tick \/ UNCHANGED vars
  BY <1>3 DEF Tick, vars, requestVars, BeforeHasEnded
<1> QED BY <1>1, <1>2, <1>3 DEF Next

\* A running request is nobody's past.
LEMMA RunningIsRecent ==
    ASSUME BeforeHasEnded, NEW r \in Requests, pc[r] \in Running
    PROVE  \A s \in Requests : r \in Others(s)
BY DEF BeforeHasEnded, Others, Running, Ended

\* A step keeps the shared value recent.
LEMMA SharedStep ==
    TypeOK /\ BeforeHasEnded /\ SharedIsRecent /\ [Next]_vars => SharedIsRecent'
<1> SUFFICES ASSUME TypeOK, BeforeHasEnded, SharedIsRecent, [Next]_vars
             PROVE  SharedIsRecent'
  OBVIOUS
<1>1. ASSUME NEW r \in Requests, NEW in \in Inputs, Begin(r, in) PROVE SharedIsRecent'
  <2>1. /\ pc'[r] \in {"handle", "limit"}
        /\ \A s \in Requests \ {r} : pc'[s] = pc[s] /\ before'[s] = before[s]
        /\ UNCHANGED <<errInternal, read>>
    BY <1>1 DEF Begin, Go, TypeOK
  <2> QED BY <2>1 DEF SharedIsRecent, Others
<1>2. ASSUME NEW r \in Requests,
             GlobalLimit(r) \/ Protect(r) \/ ClientLimit(r) \/ Handle(r)
      PROVE  SharedIsRecent'
  <2>1. UNCHANGED <<errInternal, read, before>>
    BY <1>2 DEF GlobalLimit, Protect, ClientLimit, Handle
  <2>2. pc[r] \in {"limit", "csrf", "client", "handle"}
    BY <1>2 DEF GlobalLimit, Protect, ClientLimit, Handle
  <2>3. ASSUME NEW key, NEW next \in {"csrf", "handle"}, Limit(r, key, next)
        PROVE  \E where \in {"csrf", "handle", "done"} : Go(r, where)
    BY <2>3 DEF Limit, WhenItFails, GoOn, Write
  <2>4. \E where \in {"csrf", "client", "handle", "done", "setType", "panicked"} :
           Go(r, where)
    <3>1. GlobalLimit(r) => \E where \in {"csrf", "handle", "done"} : Go(r, where)
      BY <2>3 DEF GlobalLimit, GoOn
    <3>2. ClientLimit(r) => \E where \in {"csrf", "handle", "done"} : Go(r, where)
      BY <2>3 DEF ClientLimit, GoOn, Write
    <3>3. Protect(r) => \E where \in {"client", "handle", "done"} : Go(r, where)
      BY DEF Protect, GoOn, Write
    <3>4. Handle(r) => \E where \in {"done", "setType", "panicked"} : Go(r, where)
      BY DEF Handle, GoOn, Write
    <3> QED BY <1>2, <3>1, <3>2, <3>3, <3>4
  <2>5. /\ pc'[r] \notin {"setData", "readType", "readData"}
        /\ \A s \in Requests \ {r} : pc'[s] = pc[s]
    BY <2>4 DEF Go, TypeOK
  <2> QED BY <2>1, <2>5 DEF SharedIsRecent, Others
<1>3. ASSUME NEW r \in Requests, SetType(r) PROVE SharedIsRecent'
  <2>1. \A s \in Requests : r \in Others(s)
    BY <1>3, RunningIsRecent DEF SetType, Running
  <2>2. /\ pc'[r] = "setData" /\ \A s \in Requests \ {r} : pc'[s] = pc[s]
        /\ errInternal'.type = r /\ errInternal'.data = errInternal.data
        /\ UNCHANGED <<read, before>>
    BY <1>3 DEF SetType, GoOn, Go, TypeOK, Words, Assigned
  <2> QED BY <2>1, <2>2 DEF SharedIsRecent, Others
<1>4. ASSUME NEW r \in Requests, SetData(r) PROVE SharedIsRecent'
  <2>1. \A s \in Requests : r \in Others(s)
    BY <1>4, RunningIsRecent DEF SetData, Running
  <2>2. /\ pc[r] = "setData" /\ pc'[r] = "readType"
        /\ \A s \in Requests \ {r} : pc'[s] = pc[s]
        /\ errInternal'.data = r /\ errInternal'.type = errInternal.type
        /\ UNCHANGED <<read, before>>
    BY <1>4 DEF SetData, GoOn, Go, TypeOK, Words, Assigned
  <2> QED BY <2>1, <2>2 DEF SharedIsRecent, Others
<1>5. ASSUME NEW r \in Requests, ReadType(r) PROVE SharedIsRecent'
  <2>1. /\ pc[r] = "readType" /\ pc'[r] = "readData"
        /\ \A s \in Requests \ {r} : pc'[s] = pc[s] /\ read'[s] = read[s]
        /\ read'[r] = errInternal.type
        /\ UNCHANGED <<errInternal, before>>
    BY <1>5 DEF ReadType, GoOn, Go, TypeOK
  <2> QED BY <2>1 DEF SharedIsRecent, Others
<1>6. ASSUME NEW r \in Requests, ReadData(r) PROVE SharedIsRecent'
  <2>1. /\ pc'[r] = "done" /\ \A s \in Requests \ {r} : pc'[s] = pc[s]
        /\ UNCHANGED <<errInternal, read, before>>
    BY <1>6 DEF ReadData, Write, Go, TypeOK
  <2> QED BY <2>1 DEF SharedIsRecent, Others
<1>7. ASSUME NEW r \in Requests, Torn(r) PROVE SharedIsRecent'
  <2>1. CASE Go(r, "panicked") /\ UNCHANGED errInternal
    BY <1>7, <2>1 DEF Torn, Go, TypeOK, SharedIsRecent, Others
  <2>2. CASE pc' = [s \in Requests |-> IF pc[s] \in Running THEN "crashed" ELSE pc[s]]
    BY <2>2 DEF SharedIsRecent, Running
  <2> QED BY <1>7, <2>1, <2>2 DEF Torn
<1>8. CASE Tick \/ UNCHANGED vars
  BY <1>8 DEF Tick, vars, requestVars, SharedIsRecent, Others
<1> QED BY <1>1, <1>2, <1>3, <1>4, <1>5, <1>6, <1>7, <1>8 DEF Next, Step

\* A step keeps the lines, which ReadData alone writes.
LEMMA LineStep ==
    /\ TypeOK /\ BeforeHasEnded /\ SilentAtFirst /\ SharedIsRecent
    /\ LoggedErrorIsConcurrent /\ [Next]_vars
    => SilentAtFirst' /\ LoggedErrorIsConcurrent'
<1> SUFFICES ASSUME TypeOK, BeforeHasEnded, SilentAtFirst, SharedIsRecent,
                    LoggedErrorIsConcurrent, [Next]_vars
             PROVE  SilentAtFirst' /\ LoggedErrorIsConcurrent'
  OBVIOUS
<1>1. ASSUME NEW r \in Requests, NEW in \in Inputs, Begin(r, in)
      PROVE  SilentAtFirst' /\ LoggedErrorIsConcurrent'
  <2>1. /\ pc[r] = "idle" /\ UNCHANGED line
        /\ \A s \in Requests \ {r} : pc'[s] = pc[s] /\ before'[s] = before[s]
        /\ pc'[r] # "idle"
    BY <1>1 DEF Begin, Go, TypeOK
  <2> QED BY <2>1 DEF SilentAtFirst, LoggedErrorIsConcurrent
<1>2. ASSUME NEW r \in Requests, ReadData(r)
      PROVE  SilentAtFirst' /\ LoggedErrorIsConcurrent'
  <2>1. /\ pc[r] = "readData" /\ pc'[r] # "idle"
        /\ UNCHANGED before
        /\ line'[r] = [type |-> read[r], data |-> errInternal.data]
        /\ \A s \in Requests \ {r} : pc'[s] = pc[s] /\ line'[s] = line[s]
    BY <1>2 DEF ReadData, Write, Go, TypeOK
  <2>2. read[r] \in Requests \ before[r] /\ errInternal.data \in Requests \ before[r]
    BY <2>1 DEF SharedIsRecent, Others
  <2>3. {line'[r].type, line'[r].data} \subseteq Requests \ before'[r]
    BY <2>1, <2>2
  <2> QED BY <2>1, <2>3 DEF SilentAtFirst, LoggedErrorIsConcurrent
<1>3. ASSUME NEW r \in Requests, Step(r), ~ReadData(r)
      PROVE  SilentAtFirst' /\ LoggedErrorIsConcurrent'
  <2>1. UNCHANGED line
    BY <1>3 DEF Step, GlobalLimit, Protect, ClientLimit, Handle, SetType, SetData,
                ReadType, Torn
  <2>2. \A s \in Requests : pc'[s] = "idle" => pc[s] = "idle"
    BY <1>3, StepMoves
  <2>3. UNCHANGED before
    BY <1>3, StepMoves
  <2> QED BY <2>1, <2>2, <2>3 DEF SilentAtFirst, LoggedErrorIsConcurrent
<1>4. CASE Tick \/ UNCHANGED vars
  BY <1>4 DEF Tick, vars, requestVars, SilentAtFirst, LoggedErrorIsConcurrent
<1> QED BY <1>1, <1>2, <1>3, <1>4 DEF Next

\* A log line may be another request's, but never of one that had ended when
\* the logging request began.
THEOREM LogLinesAreConcurrent == Spec => []LoggedErrorIsConcurrent
<1>1. Init => LogInv
  BY TypeInit DEF Init, LogInv, BeforeHasEnded, SilentAtFirst, SharedIsRecent,
                  LoggedErrorIsConcurrent
<1>2. LogInv /\ [Next]_vars => LogInv'
  BY TypeStep, BeforeStep, SharedStep, LineStep DEF LogInv
<1>3. LogInv => LoggedErrorIsConcurrent
  BY DEF LogInv
<1> QED BY <1>1, <1>2, <1>3, PTL DEF Spec

-----------------------------------------------------------------------------
(***************************************************************************)
(* Limits.  A key's budget counts both ways: who is past the limiter was   *)
(* taken from the burst and from what came back since, and what is missing *)
(* from the burst was taken for somebody who asked.                        *)
(***************************************************************************)

\* The limiter of this key looks at r, in this configuration.
Charged(r, key) ==
    IF key[1] = "global" THEN CountedIp(r) = key[2] /\ req[r].route # "probe"
    ELSE req[r].client = key[2] /\ req[r].route = "token"
Enforced(key) == IF key[1] = "global" THEN config.global ELSE config.perClient

\* Where a request is before the limiter, and between it and the handler's end.
Ahead(key)  == IF key[1] = "global" THEN {"limit"} ELSE {"limit", "csrf", "client"}
Beyond(key) == IF key[1] = "global" THEN {"csrf", "client", "handle"} ELSE {"handle"}

Behind(key) == {r \in Begun : Charged(r, key)}
Asked(key)  == {r \in Behind(key) : pc[r] \notin Ahead(key)}
Passed(key) == {r \in Behind(key) : pc[r] \in Beyond(key) \/ r \in ran}

FinitelyMany == IsFiniteSet(Begun) /\ ran \subseteq Begun

\* What is past the limiter, and what is left, came from the burst or came back.
PassedWithinBudget ==
    \A key \in Keys : Enforced(key) =>
        Cardinality(Passed(key)) + bucket[key] <= BurstOf(key) + RateOf(key) * now

\* What is missing was taken for somebody who asked.
TakenForAsked ==
    \A key \in Keys : Enforced(key) =>
        BurstOf(key) <= bucket[key] + Cardinality(Asked(key))

\* Who was refused is one of too many.
RefusedAreMany ==
    \A r \in Requests : bodies[r] # <<>> /\ bodies[r][1].status = 429 =>
        /\ pc[r] # "idle"
        /\ \E key \in Keys : Charged(r, key) /\ BurstOf(key) < Cardinality(Behind(key))

CountInv == TypeOK /\ FinitelyMany /\ PassedWithinBudget /\ TakenForAsked /\ RefusedAreMany

\* Subsets of who has begun can be counted.
LEMMA Counting ==
    ASSUME NEW T, IsFiniteSet(T), NEW S \in SUBSET T
    PROVE  /\ IsFiniteSet(S) /\ Cardinality(S) \in Nat
           /\ Cardinality(S) <= Cardinality(T)
           /\ \A x \in T \ S : Cardinality(S) < Cardinality(T)
<1>1. IsFiniteSet(S) /\ Cardinality(S) <= Cardinality(T)
      /\ (Cardinality(S) = Cardinality(T) => S = T)
  BY FS_Subset
<1>2. Cardinality(S) \in Nat /\ Cardinality(T) \in Nat
  BY <1>1, FS_CardinalityType
<1> QED BY <1>1, <1>2

\* Budgets are numbers.
LEMMA BudgetTypes ==
    ASSUME TypeOK, NEW key \in Keys
    PROVE  /\ BurstOf(key) \in Nat /\ RateOf(key) \in Nat
           /\ bucket[key] \in Nat /\ now \in Nat
           /\ RateOf(key) * now \in Nat
           /\ RateOf(key) * (now + 1) = RateOf(key) * now + RateOf(key)
<1>1. BurstOf(key) \in Nat /\ RateOf(key) \in Nat /\ bucket[key] \in Nat /\ now \in Nat
  BY LimitAssumption DEF BurstOf, RateOf, TypeOK
<1>2. \A a, b \in Nat : a * b \in Nat /\ a * (b + 1) = a * b + a
  OBVIOUS
<1> QED BY <1>1, <1>2

\* What the move of one request does to the counted sets.
LEMMA MoveCounts ==
    ASSUME TypeOK, NEW r \in Requests, pc[r] # "idle",
           NEW where \in Running \cup Ended, Go(r, where),
           UNCHANGED <<req, config>>, ran' = ran \/ ran' = ran \cup {r},
           NEW key
    PROVE  /\ Begun' = Begun /\ Behind(key)' = Behind(key)
           /\ Enforced(key)' = Enforced(key)
           /\ (where \in Ahead(key) => pc[r] \in Ahead(key))
              => Asked(key) \subseteq Asked(key)'
           /\ (r \in Behind(key) /\ (where \in Beyond(key) \/ ran' # ran)
                  => pc[r] \in Beyond(key))
              => Passed(key)' \subseteq Passed(key)
           /\ Passed(key)' \subseteq Passed(key) \cup {r}
           /\ where \notin Ahead(key) /\ r \in Behind(key) => r \in Asked(key)'
<1>1. /\ \A s \in Requests \ {r} : pc'[s] = pc[s]
      /\ pc'[r] = where /\ where # "idle"
  BY DEF Go, TypeOK, Running, Ended
<1>2. Begun' = Begun /\ \A s : Charged(s, key)' = Charged(s, key)
  BY <1>1 DEF Begun, Charged
<1>3. Behind(key)' = Behind(key) /\ \A s \in Behind(key) : s \in Requests
  BY <1>2 DEF Behind, Begun
<1>4. Ahead(key)' = Ahead(key) /\ Beyond(key)' = Beyond(key)
      /\ Enforced(key)' = Enforced(key)
  BY DEF Ahead, Beyond, Enforced
<1> QED BY <1>1, <1>2, <1>3, <1>4 DEF Asked, Passed

\* A step that leaves the budgets alone.
LEMMA BudgetsKept ==
    ASSUME TypeOK, TypeOK', FinitelyMany, FinitelyMany', PassedWithinBudget, TakenForAsked,
           UNCHANGED <<bucket, now, config>>,
           \A key \in Keys : Enforced(key) =>
               Passed(key)' \subseteq Passed(key) /\ Asked(key) \subseteq Asked(key)'
    PROVE  PassedWithinBudget' /\ TakenForAsked'
<1> SUFFICES ASSUME NEW key \in Keys, Enforced(key)
             PROVE  /\ Cardinality(Passed(key)') + bucket[key]
                          <= BurstOf(key) + RateOf(key) * now
                    /\ BurstOf(key) <= bucket[key] + Cardinality(Asked(key)')
  <2>1. /\ \A key : Enforced(key)' = Enforced(key)
        /\ \A key : BurstOf(key)' = BurstOf(key) /\ RateOf(key)' = RateOf(key)
        /\ bucket' = bucket /\ now' = now
    BY DEF Enforced, BurstOf, RateOf
  <2> QED BY <2>1 DEF PassedWithinBudget, TakenForAsked
<1>1. Passed(key) \subseteq Begun /\ Asked(key)' \subseteq Begun'
  BY DEF Passed, Asked, Behind
<1>2. IsFiniteSet(Passed(key)) /\ Cardinality(Passed(key)) \in Nat
  BY <1>1, Counting DEF FinitelyMany
<1>3. Cardinality(Passed(key)') <= Cardinality(Passed(key)) /\ Cardinality(Passed(key)') \in Nat
  BY <1>2, Counting
<1>4. IsFiniteSet(Asked(key)') /\ Cardinality(Asked(key)') \in Nat
  BY <1>1, Counting DEF FinitelyMany
<1>5. Cardinality(Asked(key)) <= Cardinality(Asked(key)') /\ Cardinality(Asked(key)) \in Nat
  BY <1>4, Counting
<1>6. /\ Cardinality(Passed(key)) + bucket[key] <= BurstOf(key) + RateOf(key) * now
      /\ BurstOf(key) <= bucket[key] + Cardinality(Asked(key))
  BY DEF PassedWithinBudget, TakenForAsked
<1> QED BY <1>2, <1>3, <1>4, <1>5, <1>6, BudgetTypes

\* A step that takes from the budget of one key, for a request that asks.
LEMMA BudgetTaken ==
    ASSUME TypeOK, TypeOK', FinitelyMany, FinitelyMany', PassedWithinBudget, TakenForAsked,
           UNCHANGED <<now, config>>,
           NEW r \in Requests, NEW taken \in Keys,
           bucket[taken] > 0, bucket' = Taken(taken),
           r \notin Asked(taken), r \in Asked(taken)',
           Passed(taken)' \subseteq Passed(taken) \cup {r},
           \A key \in Keys : Enforced(key) =>
               /\ key # taken => Passed(key)' \subseteq Passed(key)
               /\ Asked(key) \subseteq Asked(key)'
    PROVE  PassedWithinBudget' /\ TakenForAsked'
<1> SUFFICES ASSUME NEW key \in Keys, Enforced(key)
             PROVE  /\ Cardinality(Passed(key)') + bucket'[key]
                          <= BurstOf(key) + RateOf(key) * now
                    /\ BurstOf(key) <= bucket'[key] + Cardinality(Asked(key)')
  <2>1. /\ \A key : Enforced(key)' = Enforced(key)
        /\ \A key : BurstOf(key)' = BurstOf(key) /\ RateOf(key)' = RateOf(key)
        /\ now' = now
    BY DEF Enforced, BurstOf, RateOf
  <2> QED BY <2>1 DEF PassedWithinBudget, TakenForAsked
<1>1. Passed(key) \subseteq Begun /\ Asked(key)' \subseteq Begun'
  BY DEF Passed, Asked, Behind
<1>2. IsFiniteSet(Passed(key)) /\ Cardinality(Passed(key)) \in Nat
  BY <1>1, Counting DEF FinitelyMany
<1>3. IsFiniteSet(Asked(key)') /\ Cardinality(Asked(key)') \in Nat
  BY <1>1, Counting DEF FinitelyMany
<1>4. /\ Cardinality(Passed(key)) + bucket[key] <= BurstOf(key) + RateOf(key) * now
      /\ BurstOf(key) <= bucket[key] + Cardinality(Asked(key))
  BY DEF PassedWithinBudget, TakenForAsked
<1>5. CASE key = taken
  <2>1. bucket'[key] = bucket[key] - 1
    BY <1>5 DEF Taken, TypeOK
  <2>2. /\ IsFiniteSet(Passed(key) \cup {r})
        /\ Cardinality(Passed(key) \cup {r}) <= Cardinality(Passed(key)) + 1
        /\ Cardinality(Passed(key) \cup {r}) \in Nat
    <3>1. /\ IsFiniteSet(Passed(key) \cup {r})
          /\ \/ Cardinality(Passed(key) \cup {r}) = Cardinality(Passed(key))
             \/ Cardinality(Passed(key) \cup {r}) = Cardinality(Passed(key)) + 1
      BY <1>2, FS_AddElement
    <3> QED BY <1>2, <3>1
  <2>3. /\ Cardinality(Passed(key)') <= Cardinality(Passed(key) \cup {r})
        /\ Cardinality(Passed(key)') \in Nat
    BY <1>5, <2>2, Counting
  <2>4. /\ Cardinality(Asked(key)) < Cardinality(Asked(key)')
        /\ Cardinality(Asked(key)) \in Nat
    BY <1>5, <1>3, Counting
  <2> QED BY <1>2, <1>3, <1>4, <2>1, <2>2, <2>3, <2>4, BudgetTypes
<1>6. CASE key # taken
  <2>1. bucket'[key] = bucket[key]
    BY <1>6 DEF Taken, TypeOK
  <2>2. Cardinality(Passed(key)') <= Cardinality(Passed(key)) /\ Cardinality(Passed(key)') \in Nat
    BY <1>2, <1>6, Counting
  <2>3. Cardinality(Asked(key)) <= Cardinality(Asked(key)') /\ Cardinality(Asked(key)) \in Nat
    BY <1>3, Counting
  <2> QED BY <1>2, <1>3, <1>4, <2>1, <2>2, <2>3, BudgetTypes
<1> QED BY <1>5, <1>6

\* Each step is one of these: a request moves and the budgets stay, or one is
\* taken, or a request is refused because its budget is used up.
Stays(r) ==
    /\ UNCHANGED bucket
    /\ \A key \in Keys : Enforced(key) =>
          Passed(key)' \subseteq Passed(key) /\ Asked(key) \subseteq Asked(key)'
Takes(r) ==
    \E taken \in Keys :
        /\ bucket[taken] > 0 /\ bucket' = Taken(taken)
        /\ r \notin Asked(taken) /\ r \in Asked(taken)'
        /\ Passed(taken)' \subseteq Passed(taken) \cup {r}
        /\ \A key \in Keys : Enforced(key) =>
              /\ key # taken => Passed(key)' \subseteq Passed(key)
              /\ Asked(key) \subseteq Asked(key)'
Refused(r) ==
    \E key \in Keys :
        /\ Enforced(key) /\ bucket[key] = 0
        /\ r \in Behind(key) /\ r \notin Asked(key)
NotTooMany(r) ==
    UNCHANGED bodies \/ \E status \in Nat \ {429}, tells \in Told :
                            Write(r, status, tells)

\* A limiter that looks at r takes from its budget, or refuses it, or fails.
LEMMA LimiterCounts ==
    ASSUME TypeOK, NEW r \in Requests, NEW key \in Keys, NEW next \in Running,
           Limit(r, key, next), UNCHANGED <<req, config, ran>>,
           Enforced(key), r \in Behind(key), pc[r] \in Ahead(key),
           next \notin Ahead(key), "done" \notin Ahead(key),
           \A other \in Keys : r \in Behind(other) /\ next \in Beyond(other) =>
               other = key \/ pc[r] \in Beyond(other),
           \A other : next \in Ahead(other) => pc[r] \in Ahead(other),
           pc[r] # "idle"
    PROVE  /\ Stays(r) \/ Takes(r)
           /\ \/ NotTooMany(r)
              \/ Refused(r) /\ Write(r, 429, None)
<1>1. r \notin Asked(key)
  BY DEF Asked
<1>2. PICK where \in {next, "done"} :
         Go(r, where) /\ (where = next \/ bucket' = bucket \/ bucket' = Taken(key))
  BY DEF Limit, GoOn, Write, WhenItFails
<1>3. where \in Running \cup Ended /\ where \notin Ahead(key)
  BY <1>2 DEF Ended
<1>4. \A other : /\ where \in Ahead(other) => pc[r] \in Ahead(other)
                 /\ "done" \notin Beyond(other)
  BY <1>2 DEF Ahead, Beyond
<1>5. \A other \in Keys : Asked(other) \subseteq Asked(other)'
  BY <1>2, <1>3, <1>4, MoveCounts
<1>6. \A other \in Keys : other # key => Passed(other)' \subseteq Passed(other)
  <2> SUFFICES ASSUME NEW other \in Keys, other # key
               PROVE  Passed(other)' \subseteq Passed(other)
    OBVIOUS
  <2>1. r \in Behind(other) /\ (where \in Beyond(other) \/ ran' # ran)
        => pc[r] \in Beyond(other)
    BY <1>2, <1>4
  <2> QED BY <1>2, <1>3, <2>1, MoveCounts
<1>7. r \in Asked(key)' /\ Passed(key)' \subseteq Passed(key) \cup {r}
  BY <1>2, <1>3, MoveCounts
<1>8. CASE bucket[key] > 0 /\ bucket' = Taken(key)
  <2>1. Takes(r)
    BY <1>1, <1>5, <1>6, <1>7, <1>8 DEF Takes
  <2>2. NotTooMany(r)
    <3>1. GoOn(r, next) \/ Write(r, 500, None) \/ (bucket[key] = 0 /\ Write(r, 429, None))
      BY DEF Limit, WhenItFails
    <3> QED BY <1>8, <3>1, ToldType DEF NotTooMany, GoOn
  <2> QED BY <2>1, <2>2
<1>9. CASE /\ UNCHANGED bucket
           /\ Write(r, 500, None) \/ (bucket[key] = 0 /\ Write(r, 429, None))
  <2>1. Go(r, "done") /\ "done" \in Ended
    BY <1>9 DEF Write, Ended
  <2>2. "done" \notin Beyond(key) /\ ran' = ran
    BY DEF Beyond
  <2>3. Passed(key)' \subseteq Passed(key)
    BY <2>1, <2>2, MoveCounts
  <2>4. Stays(r)
    BY <1>5, <1>6, <1>9, <2>3 DEF Stays
  <2>5. CASE Write(r, 500, None)
    BY <2>4, <2>5, ToldType DEF NotTooMany
  <2>6. CASE bucket[key] = 0 /\ Write(r, 429, None)
    BY <1>1, <2>4, <2>6 DEF Refused
  <2> QED BY <1>9, <2>4, <2>5, <2>6
<1> QED BY <1>8, <1>9 DEF Limit, GoOn, WhenItFails

\* Probes meet no limiter, and only the token endpoint has the one by client.
OnItsWay ==
    \A r \in Requests :
        /\ pc[r] \in {"limit", "csrf", "client"} => req[r].route # "probe"
        /\ pc[r] = "client" => req[r].route = "token"

LEMMA OnItsWayStep == TypeOK /\ OnItsWay /\ [Next]_vars => OnItsWay'
<1> SUFFICES ASSUME TypeOK, OnItsWay, [Next]_vars PROVE OnItsWay'
  OBVIOUS
<1>1. ASSUME NEW r \in Requests, NEW in \in Inputs, Begin(r, in) PROVE OnItsWay'
  BY <1>1 DEF Begin, Go, TypeOK, OnItsWay
<1>2. ASSUME NEW r \in Requests, Step(r) PROVE OnItsWay'
  <2>1. UNCHANGED req
    BY <1>2 DEF Step, GlobalLimit, Protect, ClientLimit, Handle, SetType, SetData, ReadType,
                ReadData, Torn
  <2>2. /\ pc'[r] = "csrf" => pc[r] = "limit"
        /\ pc'[r] = "client" => pc[r] = "csrf" /\ req[r].route = "token"
        /\ pc'[r] # "limit"
    <3>1. GlobalLimit(r) => pc[r] = "limit" /\ (Go(r, "csrf") \/ Go(r, "done"))
      BY DEF GlobalLimit, Limit, WhenItFails, Write, GoOn
    <3>2. ClientLimit(r) => Go(r, "handle") \/ Go(r, "done")
      BY DEF ClientLimit, Limit, WhenItFails, Write, GoOn
    <3>3. Protect(r) => \/ pc[r] = "csrf" /\ req[r].route = "token" /\ Go(r, "client")
                        \/ Go(r, "handle") \/ Go(r, "done")
      BY DEF Protect, Write, GoOn
    <3>4. Handle(r) => Go(r, "done") \/ Go(r, "setType") \/ Go(r, "panicked")
      BY DEF Handle, Write, GoOn
    <3>5. SetType(r) \/ SetData(r) \/ ReadType(r) \/ ReadData(r)
          => \E where \in {"setData", "readType", "readData", "done"} : Go(r, where)
      BY DEF SetType, SetData, ReadType, ReadData, Write, GoOn
    <3>6. Torn(r) => pc'[r] \in {"panicked", "crashed"}
      BY DEF Torn, Go, TypeOK, Running
    <3> QED BY <1>2, <3>1, <3>2, <3>3, <3>4, <3>5, <3>6 DEF Step, Go, TypeOK
  <2>3. \A s \in Requests \ {r} : pc'[s] = pc[s] \/ pc'[s] = "crashed"
    BY <1>2, StepMoves
  <2> QED BY <2>1, <2>2, <2>3 DEF OnItsWay
<1>3. CASE Tick \/ UNCHANGED vars
  BY <1>3 DEF Tick, vars, requestVars, OnItsWay
<1> QED BY <1>1, <1>2, <1>3 DEF Next

\* What a step of a request does to the budgets, the counts and its answer.
LEMMA StepCounts ==
    ASSUME TypeOK, OnItsWay, NEW r \in Requests, Step(r)
    PROVE  /\ UNCHANGED <<now, config, req>> /\ Begun' = Begun
           /\ pc[r] # "idle"
           /\ ran' = ran \/ ran' = ran \cup {r}
           /\ Stays(r) \/ Takes(r)
           /\ \/ NotTooMany(r)
              \/ Refused(r) /\ Write(r, 429, None)
<1>0. /\ UNCHANGED <<now, config, req>> /\ pc[r] # "idle"
      /\ ran' = ran \/ ran' = ran \cup {r}
      /\ req[r] \in Input
  BY DEF Step, GlobalLimit, Protect, ClientLimit, Handle, SetType, SetData, ReadType,
         ReadData, Torn, TypeOK
<1>1. Begun' = Begun
  BY <1>0, StepMoves DEF Begun, Running
<1>2. ASSUME NEW where \in Running \cup Ended, Go(r, where), UNCHANGED bucket,
             \A key \in Keys : Enforced(key) /\ r \in Behind(key) =>
                 /\ where \in Ahead(key) => pc[r] \in Ahead(key)
                 /\ where \in Beyond(key) \/ ran' # ran => pc[r] \in Beyond(key)
      PROVE  Stays(r)
  <2> SUFFICES ASSUME NEW key \in Keys, Enforced(key)
               PROVE  Passed(key)' \subseteq Passed(key) /\ Asked(key) \subseteq Asked(key)'
    BY <1>2 DEF Stays
  <2>1. CASE r \in Behind(key)
    BY <1>0, <1>2, <2>1, MoveCounts
  <2>2. CASE r \notin Behind(key)
    <3>1. Behind(key)' = Behind(key) /\ \A s \in Behind(key) : s # r /\ pc'[s] = pc[s]
      BY <1>0, <1>2, <2>2, MoveCounts DEF Go, TypeOK, Behind, Begun
    <3>2. \A s \in Behind(key) : s \in ran' => s \in ran
      BY <1>0, <3>1
    <3>3. Ahead(key)' = Ahead(key) /\ Beyond(key)' = Beyond(key)
      BY DEF Ahead, Beyond
    <3> QED BY <3>1, <3>2, <3>3 DEF Passed, Asked
  <2> QED BY <2>1, <2>2
<1>3. \A key \in Keys : r \in Behind(key) => Charged(r, key)
  BY DEF Behind
<1>4. CASE GlobalLimit(r)
  <2>0. pc[r] = "limit" /\ UNCHANGED <<req, config, ran>>
    BY <1>4 DEF GlobalLimit
  <2>1. CASE config.global /\ Limit(r, GlobalKey(r), "csrf")
    <3>1. GlobalKey(r) \in Keys /\ GlobalKey(r)[1] = "global" /\ GlobalKey(r)[2] = CountedIp(r)
      BY <1>0 DEF GlobalKey, Keys, Input
    <3>2. r \in Behind(GlobalKey(r)) /\ Enforced(GlobalKey(r)) /\ pc[r] \in Ahead(GlobalKey(r))
          /\ "csrf" \notin Ahead(GlobalKey(r)) /\ "done" \notin Ahead(GlobalKey(r))
      BY <1>0, <2>0, <2>1, <3>1 DEF OnItsWay, Behind, Begun, Charged, Enforced, Ahead
    <3>3. ASSUME NEW other \in Keys, r \in Behind(other), "csrf" \in Beyond(other)
          PROVE  other = GlobalKey(r)
      <4>1. other[1] = "global" /\ other[2] = CountedIp(r)
        BY <3>3 DEF Beyond, Behind, Charged
      <4> QED BY <3>1, <4>1 DEF Keys, GlobalKey
    <3>4. \A other : "csrf" \in Ahead(other) => pc[r] \in Ahead(other)
      BY <2>0 DEF Ahead
    <3> QED BY <1>0, <1>1, <2>0, <2>1, <3>1, <3>2, <3>3, <3>4, LimiterCounts DEF Running
  <2>2. CASE ~config.global /\ GoOn(r, "csrf") /\ UNCHANGED bucket
    <3>1. \A key \in Keys : Enforced(key) => "csrf" \notin Beyond(key)
      BY <2>2 DEF Enforced, Beyond
    <3>2. \A key \in Keys : "csrf" \in Ahead(key) => pc[r] \in Ahead(key)
      BY <2>0 DEF Ahead
    <3>3. Stays(r)
      BY <1>2, <2>0, <2>2, <3>1, <3>2 DEF GoOn, Running
    <3> QED BY <1>0, <1>1, <2>2, <3>3 DEF NotTooMany, GoOn
  <2> QED BY <1>4, <2>1, <2>2 DEF GlobalLimit
<1>5. CASE ClientLimit(r)
  <2> DEFINE ofClient == <<"client", req[r].client>>
  <2>0. pc[r] = "client" /\ UNCHANGED <<req, config, ran>>
    BY <1>5 DEF ClientLimit
  <2>1. CASE /\ config.perClient /\ req[r].client # None
             /\ Limit(r, ofClient, "handle")
    <3>1. ofClient \in Keys /\ ofClient[1] = "client" /\ ofClient[2] = req[r].client
      BY <1>0, <2>1 DEF Keys, Input
    <3>2. r \in Behind(ofClient) /\ Enforced(ofClient) /\ pc[r] \in Ahead(ofClient)
          /\ "handle" \notin Ahead(ofClient) /\ "done" \notin Ahead(ofClient)
      BY <1>0, <2>0, <2>1, <3>1 DEF OnItsWay, Behind, Begun, Charged, Enforced, Ahead
    <3>3. ASSUME NEW other \in Keys, r \in Behind(other), pc[r] \notin Beyond(other)
          PROVE  other = ofClient
      <4>1. other[1] # "global"
        BY <2>0, <3>3 DEF Beyond
      <4>2. other[1] = "client" /\ other[2] = req[r].client
        BY <3>3, <4>1 DEF Keys, Behind, Charged
      <4> QED BY <3>1, <4>2 DEF Keys
    <3>4. \A other : "handle" \notin Ahead(other)
      BY DEF Ahead
    <3> HIDE DEF ofClient
    <3> QED BY <1>0, <1>1, <2>0, <2>1, <3>1, <3>2, <3>3, <3>4, LimiterCounts DEF Running
  <2>2. CASE /\ ~(config.perClient /\ req[r].client # None)
             /\ GoOn(r, "handle") /\ UNCHANGED bucket
    <3>1. \A key \in Keys : Enforced(key) /\ r \in Behind(key) => pc[r] \in Beyond(key)
      BY <2>0, <2>2, NoneAssumption DEF Enforced, Beyond, Behind, Charged, Keys
    <3>2. \A key : "handle" \notin Ahead(key)
      BY DEF Ahead
    <3>3. Stays(r)
      BY <1>2, <2>2, <3>1, <3>2 DEF GoOn, Running
    <3> QED BY <1>0, <1>1, <2>2, <3>3 DEF NotTooMany, GoOn
  <2>3. CASE Write(r, 400, Mistake(r)) /\ UNCHANGED bucket
    <3>1. \A key : "done" \notin Ahead(key) /\ "done" \notin Beyond(key)
      BY DEF Ahead, Beyond
    <3>2. Go(r, "done") /\ "done" \in Running \cup Ended
      BY <2>3 DEF Write, Ended
    <3>3. Stays(r)
      BY <1>2, <2>0, <2>3, <3>1, <3>2
    <3>4. NotTooMany(r)
      BY <2>3, ToldType DEF NotTooMany
    <3> QED BY <1>0, <1>1, <3>3, <3>4
  <2> QED BY <1>5, <2>1, <2>2, <2>3 DEF ClientLimit
<1>6. CASE Protect(r)
  <2>0. pc[r] = "csrf" /\ UNCHANGED <<bucket, ran>>
    BY <1>6 DEF Protect
  <2>1. PICK where \in {"client", "handle", "done"} :
           Go(r, where) /\ (where = "handle" => req[r].route # "token")
    BY <1>6 DEF Protect, Write, GoOn
  <2>2. \A key \in Keys : Enforced(key) /\ r \in Behind(key) =>
           /\ where \in Ahead(key) => pc[r] \in Ahead(key)
           /\ where \in Beyond(key) \/ ran' # ran => pc[r] \in Beyond(key)
    BY <2>0, <2>1 DEF Ahead, Beyond, Behind, Charged
  <2>3. Stays(r)
    BY <1>2, <2>0, <2>1, <2>2 DEF Running, Ended
  <2>4. NotTooMany(r)
    BY <1>6, ToldType DEF Protect, GoOn, NotTooMany
  <2> QED BY <1>0, <1>1, <2>3, <2>4
<1>7. CASE Handle(r)
  <2>0. pc[r] = "handle" /\ UNCHANGED bucket
    BY <1>7 DEF Handle
  <2>1. PICK where \in {"done", "setType", "panicked"} : Go(r, where)
    BY <1>7 DEF Handle, Write, GoOn
  <2>2. \A key : pc[r] \in Beyond(key) /\ where \notin Ahead(key)
    BY <2>0, <2>1 DEF Ahead, Beyond
  <2>3. Stays(r)
    BY <1>2, <2>0, <2>1, <2>2 DEF Running, Ended
  <2>4. NotTooMany(r)
    BY <1>7, ToldType DEF Handle, GoOn, NotTooMany
  <2> QED BY <1>0, <1>1, <2>3, <2>4
<1>8. CASE SetType(r) \/ SetData(r) \/ ReadType(r) \/ ReadData(r)
  <2>0. UNCHANGED <<bucket, ran>>
    BY <1>8 DEF SetType, SetData, ReadType, ReadData
  <2>1. PICK where \in {"setData", "readType", "readData", "done"} : Go(r, where)
    BY <1>8 DEF SetType, SetData, ReadType, ReadData, Write, GoOn
  <2>2. \A key : where \notin Beyond(key) /\ where \notin Ahead(key)
    BY <2>1 DEF Ahead, Beyond
  <2>3. Stays(r)
    BY <1>2, <2>0, <2>1, <2>2 DEF Running, Ended
  <2>4. NotTooMany(r)
    BY <1>8 DEF SetType, SetData, ReadType, ReadData, InternalText, GoOn, NotTooMany, Told
  <2> QED BY <1>0, <1>1, <2>3, <2>4
<1>9. CASE Torn(r)
  <2>0. UNCHANGED <<bucket, ran, bodies>>
    BY <1>9 DEF Torn
  <2>1. \A s \in Requests : pc'[s] = pc[s] \/ pc'[s] \in {"panicked", "crashed"}
    BY <1>9 DEF Torn, Go, TypeOK
  <2>2. \A key : {"panicked", "crashed"} \cap (Ahead(key) \cup Beyond(key)) = {}
    BY DEF Ahead, Beyond
  <2>3. \A key : Ahead(key)' = Ahead(key) /\ Beyond(key)' = Beyond(key)
    BY DEF Ahead, Beyond
  <2>4. \A key : Behind(key)' = Behind(key) /\ Behind(key) \subseteq Requests
    BY <1>0, <1>1 DEF Behind, Charged, Begun
  <2>5. Stays(r)
    BY <2>0, <2>1, <2>2, <2>3, <2>4 DEF Stays, Asked, Passed
  <2> QED BY <1>0, <1>1, <2>0, <2>5 DEF NotTooMany
<1> QED BY <1>4, <1>5, <1>6, <1>7, <1>8, <1>9 DEF Step

\* Who was refused stays one of too many while more begin.
LEMMA RefusalsStay ==
    ASSUME TypeOK, RefusedAreMany, IsFiniteSet(Begun'),
           \A s \in Begun : s \in Begun' /\ req'[s] = req[s],
           NEW s \in Requests, bodies'[s] = bodies[s],
           bodies'[s] # <<>>, bodies'[s][1].status = 429
    PROVE  /\ pc'[s] # "idle"
           /\ \E key \in Keys : Charged(s, key)' /\ BurstOf(key) < Cardinality(Behind(key)')
<1>1. PICK key \in Keys : Charged(s, key) /\ BurstOf(key) < Cardinality(Behind(key))
  BY DEF RefusedAreMany
<1>2. s \in Begun
  BY DEF RefusedAreMany, Begun
<1>3. Behind(key) \subseteq Behind(key)' /\ Behind(key)' \subseteq Begun' /\ Charged(s, key)'
  BY <1>1, <1>2 DEF Behind, Charged
<1>4. IsFiniteSet(Behind(key)') /\ Cardinality(Behind(key)') \in Nat
  BY <1>3, Counting
<1>5. /\ Cardinality(Behind(key)) <= Cardinality(Behind(key)')
      /\ Cardinality(Behind(key)) \in Nat
  BY <1>3, <1>4, Counting
<1>6. BurstOf(key) < Cardinality(Behind(key)')
  BY <1>1, <1>4, <1>5, BudgetTypes
<1> QED BY <1>1, <1>2, <1>3, <1>6 DEF Begun

\* A new request is counted nowhere yet.
LEMMA BeginCounts ==
    ASSUME CountInv, NEW r \in Requests, NEW in \in Inputs, Begin(r, in)
    PROVE  CountInv'
<1> USE DEF CountInv
<1>0. TypeOK'
  BY TypeStep DEF Next
<1>1. /\ pc[r] = "idle" /\ req'[r] = in /\ in \in Input
      /\ pc'[r] = IF in.route = "probe" THEN "handle" ELSE "limit"
      /\ \A s \in Requests \ {r} : pc'[s] = pc[s] /\ req'[s] = req[s]
      /\ UNCHANGED <<now, config, bucket, bodies, ran>>
  BY InputAssumption DEF Begin, Go, TypeOK
<1>2. Begun' = Begun \cup {r} /\ r \notin Begun
  BY <1>1 DEF Begun
<1>3. FinitelyMany'
  BY <1>1, <1>2, FS_AddElement DEF FinitelyMany
<1>4. \A key \in Keys :
         /\ Passed(key)' \subseteq Passed(key) /\ Asked(key) \subseteq Asked(key)'
  <2> SUFFICES ASSUME NEW key \in Keys
               PROVE  /\ Passed(key)' \subseteq Passed(key)
                      /\ Asked(key) \subseteq Asked(key)'
    OBVIOUS
  <2>1. \A s \in Begun : s # r /\ s \in Requests /\ Charged(s, key)' = Charged(s, key)
    BY <1>1, <1>2 DEF Charged, Begun
  <2>2. Charged(r, key)' => pc'[r] = "limit"
    BY <1>1 DEF Charged
  <2>3. r \notin Passed(key)'
    BY <1>1, <1>2, <2>2 DEF Passed, Behind, Beyond, FinitelyMany
  <2>4. \A s \in Begun : s \in Behind(key)' <=> s \in Behind(key)
    BY <1>2, <2>1 DEF Behind
  <2>5. Behind(key)' \subseteq Begun \cup {r} /\ Behind(key) \subseteq Begun
    BY <1>2 DEF Behind
  <2>6. Ahead(key)' = Ahead(key) /\ Beyond(key)' = Beyond(key)
    BY DEF Ahead, Beyond
  <2> QED BY <1>1, <2>1, <2>3, <2>4, <2>5, <2>6 DEF Passed, Asked
<1>5. PassedWithinBudget' /\ TakenForAsked'
  BY <1>0, <1>1, <1>3, <1>4, BudgetsKept
<1>6. RefusedAreMany'
  <2>1. \A s \in Begun : s \in Begun' /\ req'[s] = req[s]
    BY <1>1, <1>2 DEF Begun
  <2>2. \A key : BurstOf(key)' = BurstOf(key)
    BY DEF BurstOf
  <2> QED BY <1>1, <1>3, <2>1, <2>2, RefusalsStay DEF RefusedAreMany, FinitelyMany
<1> QED BY <1>0, <1>3, <1>5, <1>6

\* A step of a request keeps the books.
LEMMA RequestCounts ==
    ASSUME CountInv, OnItsWay, NEW r \in Requests, Step(r)
    PROVE  CountInv'
<1> USE DEF CountInv
<1>0. TypeOK'
  BY TypeStep DEF Next
<1>1. /\ UNCHANGED <<now, config, req>> /\ Begun' = Begun /\ r \in Begun
      /\ ran' = ran \/ ran' = ran \cup {r}
  BY StepCounts DEF Begun
<1>2. FinitelyMany'
  BY <1>1 DEF FinitelyMany
<1>3. PassedWithinBudget' /\ TakenForAsked'
  <2>1. CASE Stays(r)
    BY <1>0, <1>1, <1>2, <2>1, BudgetsKept DEF Stays
  <2>2. CASE Takes(r)
    BY <1>0, <1>1, <1>2, <2>2, BudgetTaken DEF Takes
  <2> QED BY <2>1, <2>2, StepCounts
<1>4. RefusedAreMany'
  <2>0. \A key : BurstOf(key)' = BurstOf(key) /\ Charged(r, key)' = Charged(r, key)
                 /\ Behind(key)' = Behind(key)
    BY <1>1 DEF BurstOf, Charged, Behind
  <2>1. CASE UNCHANGED bodies
    BY <1>1, <1>2, <2>0, <2>1, RefusalsStay DEF RefusedAreMany, FinitelyMany
  <2>2. ASSUME NEW status \in Nat, NEW tells \in Told,
               Write(r, status, tells), status # 429 \/ Refused(r)
        PROVE  RefusedAreMany'
    <3>1. \A s \in Requests \ {r} : bodies'[s] = bodies[s]
      BY <2>2 DEF Write, TypeOK
    <3>2. \A s \in Requests \ {r} : bodies'[s] # <<>> /\ bodies'[s][1].status = 429 =>
              /\ pc'[s] # "idle"
              /\ \E key \in Keys : Charged(s, key)' /\ BurstOf(key) < Cardinality(Behind(key)')
      <4>1. IsFiniteSet(Begun') /\ \A s \in Begun : s \in Begun' /\ req'[s] = req[s]
        BY <1>1, <1>2 DEF FinitelyMany
      <4>2. TypeOK /\ RefusedAreMany
        OBVIOUS
      <4> HIDE DEF CountInv
      <4> QED BY <3>1, <4>1, <4>2, RefusalsStay
    <3>3. bodies'[r][1].status = status
      BY <2>2 DEF Write, TypeOK
    <3>4. ASSUME Refused(r)
          PROVE  \E key \in Keys : Charged(r, key) /\ BurstOf(key) < Cardinality(Behind(key))
      <4>1. PICK key \in Keys : /\ Enforced(key) /\ bucket[key] = 0
                                /\ r \in Behind(key) /\ r \notin Asked(key)
        BY <3>4 DEF Refused
      <4>2. BurstOf(key) <= bucket[key] + Cardinality(Asked(key))
        BY <4>1 DEF TakenForAsked
      <4>3. IsFiniteSet(Behind(key)) /\ Cardinality(Behind(key)) \in Nat
        BY Counting DEF FinitelyMany, Behind
      <4>4. Asked(key) \subseteq Behind(key)
        BY DEF Asked
      <4>5. Cardinality(Asked(key)) < Cardinality(Behind(key)) /\ Cardinality(Asked(key)) \in Nat
        BY <4>1, <4>3, <4>4, Counting
      <4>6. BurstOf(key) < Cardinality(Behind(key))
        BY <4>1, <4>2, <4>3, <4>5, BudgetTypes
      <4> QED BY <4>1, <4>6 DEF Behind
    <3>5. pc'[r] # "idle"
      BY <1>1 DEF Begun
    <3> QED BY <2>0, <2>2, <3>2, <3>3, <3>4, <3>5 DEF RefusedAreMany
  <2> QED BY <2>1, <2>2, StepCounts, ToldType DEF NotTooMany
<1> QED BY <1>0, <1>2, <1>3, <1>4

\* When the clock ticks, what comes back is within the rate.
LEMMA TickCounts == CountInv /\ Tick => CountInv'
<1> SUFFICES ASSUME CountInv, Tick PROVE CountInv'
  OBVIOUS
<1> USE DEF CountInv
<1>0. TypeOK'
  BY TypeStep DEF Next
<1>1. now' = now + 1 /\ UNCHANGED <<config, pc, req, bodies, ran>>
  BY DEF Tick, requestVars
<1>2. /\ Begun' = Begun
      /\ \A key : /\ Behind(key)' = Behind(key) /\ Enforced(key)' = Enforced(key)
                  /\ Passed(key)' = Passed(key) /\ Asked(key)' = Asked(key)
                  /\ BurstOf(key)' = BurstOf(key) /\ RateOf(key)' = RateOf(key)
                  /\ \A r : Charged(r, key)' = Charged(r, key)
  BY <1>1 DEF Begun, Behind, Passed, Asked, Ahead, Beyond, Enforced, BurstOf, RateOf, Charged
<1>3. FinitelyMany' /\ RefusedAreMany'
  BY <1>1, <1>2 DEF FinitelyMany, RefusedAreMany
<1>4. ASSUME NEW key \in Keys, Enforced(key)
      PROVE  /\ Cardinality(Passed(key)) + bucket'[key]
                    <= BurstOf(key) + RateOf(key) * (now + 1)
             /\ BurstOf(key) <= bucket'[key] + Cardinality(Asked(key))
  <2>1. bucket'[key] = IF bucket[key] + RateOf(key) <= BurstOf(key)
                       THEN bucket[key] + RateOf(key) ELSE BurstOf(key)
    BY DEF Tick
  <2>2. /\ Cardinality(Passed(key)) + bucket[key] <= BurstOf(key) + RateOf(key) * now
        /\ BurstOf(key) <= bucket[key] + Cardinality(Asked(key))
    BY <1>4 DEF PassedWithinBudget, TakenForAsked
  <2>3. Cardinality(Passed(key)) \in Nat /\ Cardinality(Asked(key)) \in Nat
    BY Counting DEF FinitelyMany, Passed, Asked, Behind
  <2>4. PICK n \in Nat : n = RateOf(key) * now /\ RateOf(key) * (now + 1) = n + RateOf(key)
    BY BudgetTypes
  <2> QED BY <2>1, <2>2, <2>3, <2>4, BudgetTypes
<1>5. PassedWithinBudget' /\ TakenForAsked'
  BY <1>1, <1>2, <1>4 DEF PassedWithinBudget, TakenForAsked
<1> QED BY <1>0, <1>3, <1>5

\* The books are kept, and say what the limits promise: for each address and
\* each client_id that requests are counted under.
THEOREM LimitsKept == Spec => []LimitsAreKept
<1>1. Init => CountInv /\ OnItsWay
  <2> SUFFICES ASSUME Init PROVE CountInv /\ OnItsWay
    OBVIOUS
  <2>1. Begun = {} /\ ran = {}
    BY DEF Init, Begun
  <2>2. FinitelyMany /\ OnItsWay /\ RefusedAreMany
    BY <2>1, FS_EmptySet DEF Init, FinitelyMany, OnItsWay, RefusedAreMany
  <2>3. \A key : Passed(key) = {} /\ Asked(key) = {}
    BY <2>1 DEF Passed, Asked, Behind
  <2>4. \A key \in Keys : bucket[key] = BurstOf(key) /\ BurstOf(key) \in Nat
                          /\ RateOf(key) \in Nat
    BY LimitAssumption DEF Init, BurstOf, RateOf
  <2>5. \A key \in Keys : RateOf(key) * now = 0 /\ RateOf(key) * now \in Nat
    BY <2>4 DEF Init
  <2>6. Cardinality({}) = 0
    BY FS_EmptySet
  <2>7. PassedWithinBudget
    <3>1. \A key \in Keys : /\ Cardinality(Passed(key)) = 0
                            /\ 0 + bucket[key] <= BurstOf(key) + RateOf(key) * now
      <4>1. \A m \in Nat : 0 + m <= m + 0
        OBVIOUS
      <4> QED BY <2>3, <2>4, <2>5, <2>6, <4>1
    <3> QED BY <3>1 DEF PassedWithinBudget
  <2>8. TakenForAsked
    BY <2>3, <2>4, <2>6 DEF TakenForAsked
  <2> QED BY <2>2, <2>7, <2>8, TypeInit DEF CountInv
<1>2. CountInv /\ OnItsWay /\ [Next]_vars => (CountInv /\ OnItsWay)'
  <2> SUFFICES ASSUME CountInv, OnItsWay, [Next]_vars PROVE CountInv'
    BY OnItsWayStep DEF CountInv
  <2>1. CASE UNCHANGED vars
    <3>1. UNCHANGED <<now, faults, config, bucket, errInternal, pc, req, read, line, bodies, ran,
                      before>>
      BY <2>1 DEF vars, requestVars
    <3>2. TypeOK'
      BY TypeStep DEF CountInv
    <3>3. /\ Begun' = Begun
          /\ \A key : /\ Behind(key)' = Behind(key) /\ Enforced(key)' = Enforced(key)
                      /\ Passed(key)' = Passed(key) /\ Asked(key)' = Asked(key)
                      /\ BurstOf(key)' = BurstOf(key) /\ RateOf(key)' = RateOf(key)
                      /\ \A r : Charged(r, key)' = Charged(r, key)
      BY <3>1 DEF Begun, Behind, Passed, Asked, Ahead, Beyond, Enforced, BurstOf, RateOf, Charged
    <3> QED BY <3>1, <3>2, <3>3 DEF CountInv, FinitelyMany, PassedWithinBudget, TakenForAsked,
                                    RefusedAreMany
  <2> QED BY <2>1, BeginCounts, RequestCounts, TickCounts DEF Next
<1>3. CountInv => LimitsAreKept
  <2> SUFFICES ASSUME CountInv PROVE LimitsAreKept
    OBVIOUS
  <2> USE DEF CountInv
  <2>1. ASSUME NEW key \in Keys, Enforced(key), NEW S \in SUBSET Passed(key)
        PROVE  Cardinality(S) <= BurstOf(key) + RateOf(key) * now
    <3>1. Passed(key) \subseteq Begun
      BY DEF Passed, Behind
    <3>2. IsFiniteSet(Passed(key)) /\ Cardinality(Passed(key)) \in Nat
      BY <3>1, Counting DEF FinitelyMany
    <3>3. Cardinality(S) <= Cardinality(Passed(key)) /\ Cardinality(S) \in Nat
      BY <2>1, <3>2, Counting
    <3>4. Cardinality(Passed(key)) + bucket[key] <= BurstOf(key) + RateOf(key) * now
      BY <2>1 DEF PassedWithinBudget
    <3> QED BY <3>2, <3>3, <3>4, BudgetTypes
  <2>2. ASSUME config.global, NEW ip \in Ips
        PROVE  Cardinality(OfIp(ip, ran)) <= GlobalBurst + GlobalRate * now
    <3> DEFINE key == <<"global", ip>>
    <3>1. key \in Keys /\ Enforced(key) /\ key[1] = "global" /\ key[2] = ip
          /\ BurstOf(key) = GlobalBurst /\ RateOf(key) = GlobalRate
      BY <2>2 DEF Keys, Enforced, BurstOf, RateOf
    <3>2. OfIp(ip, ran) \subseteq Passed(key)
      BY <3>1 DEF OfIp, Passed, Behind, Charged, FinitelyMany
    <3> HIDE DEF key
    <3> QED BY <2>1, <3>1, <3>2
  <2>3. ASSUME config.perClient, NEW client \in Clients
        PROVE  Cardinality(OfClient(client, ran)) <= TokenBurst + TokenRate * now
    <3> DEFINE key == <<"client", client>>
    <3>1. key \in Keys /\ Enforced(key) /\ key[1] = "client" /\ key[2] = client
          /\ BurstOf(key) = TokenBurst /\ RateOf(key) = TokenRate
      BY <2>3 DEF Keys, Enforced, BurstOf, RateOf
    <3>2. OfClient(client, ran) \subseteq Passed(key)
      BY <3>1 DEF OfClient, Passed, Behind, Charged, FinitelyMany
    <3> HIDE DEF key
    <3> QED BY <2>1, <3>1, <3>2
  <2>4. ASSUME NEW r \in Requests, bodies[r] # <<>>, bodies[r][1].status = 429
        PROVE  \/ Cardinality(OfIp(CountedIp(r), Begun)) > GlobalBurst
               \/ /\ req[r].client # None
                  /\ Cardinality(OfClient(req[r].client, Begun)) > TokenBurst
    <3>1. PICK key \in Keys : Charged(r, key) /\ BurstOf(key) < Cardinality(Behind(key))
      BY <2>4 DEF RefusedAreMany
    <3>2. Behind(key) \subseteq Begun /\ Cardinality(Behind(key)) \in Nat
      BY Counting DEF Behind, FinitelyMany
    <3>3. CASE key[1] = "global"
      <4>1. Behind(key) = OfIp(CountedIp(r), Begun)
        BY <3>1, <3>3 DEF Behind, OfIp, Charged
      <4>2. BurstOf(key) = GlobalBurst /\ GlobalBurst \in Nat
        BY <3>3, LimitAssumption DEF BurstOf
      <4> QED BY <3>1, <3>2, <4>1, <4>2
    <3>4. CASE key[1] # "global"
      <4>1. Behind(key) = OfClient(req[r].client, Begun) /\ req[r].client = key[2]
        BY <3>1, <3>4 DEF Behind, OfClient, Charged
      <4>2. BurstOf(key) = TokenBurst /\ TokenBurst \in Nat
        BY <3>4, LimitAssumption DEF BurstOf
      <4>3. key[2] \in Clients
        BY <3>4 DEF Keys
      <4> QED BY <3>1, <3>2, <4>1, <4>2, <4>3, NoneAssumption
    <3> QED BY <3>3, <3>4
  <2> QED BY <2>2, <2>3, <2>4 DEF LimitsAreKept
<1> QED BY <1>1, <1>2, <1>3, PTL DEF Spec

=============================================================================
