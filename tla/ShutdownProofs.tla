---------------------------- MODULE ShutdownProofs ----------------------------
(***************************************************************************)
(* Proofs about Shutdown, for every number of requests and of detached     *)
(* functions.  Drained is the inductive invariant: once http.Server        *)
(* .Shutdown has returned in time no HTTP request is running, and once     *)
(* Wait has read zero no work of an HTTP request is left.                  *)
(***************************************************************************)
EXTENDS Shutdown, FiniteSetTheorems, TLAPS

Past(ps) == phase \in ps /\ ~timedOut /\ ~killed

Drained ==
    /\ killed => phase = "exited"
    /\ \A w \in Work : work[w] = "none" <=> spawner[w] = "nobody"
    /\ \A r \in Requests : request[r] = "lost" => phase = "exited"
    /\ \A w \in Work : work[w] = "lost" => phase = "exited"
    /\ Past({"metrics", "waiting", "returned", "exited"}) =>
          \A r \in HttpRequests : request[r] \notin {"running", "lost"}
    /\ Past({"returned", "exited"}) =>
          \A w \in Work : spawner[w] \in HttpRequests => work[w] = "done"

IInv == TypeOK /\ CounterIsExact /\ Drained

CountedWork == {w \in Work : work[w] \in Counted}

(* Cardinality of the counted functions when one is added. *)
LEMMA AddOne ==
    ASSUME NEW S, IsFiniteSet(S), NEW x, x \notin S
    PROVE  Cardinality(S \cup {x}) = Cardinality(S) + 1
  BY FS_AddElement

(* Cardinality of the counted functions when one is removed. *)
LEMMA RemoveOne ==
    ASSUME NEW S, IsFiniteSet(S), NEW x \in S
    PROVE  Cardinality(S \ {x}) = Cardinality(S) - 1
  BY FS_RemoveElement

(* The counted functions are finitely many.                                *)
LEMMA CountedIsFinite == IsFiniteSet(CountedWork)
  BY ShutdownAssumption, FS_Subset DEF CountedWork

(* The initial state satisfies the invariant. *)
LEMMA InitIInv == Init => IInv
  <1> SUFFICES ASSUME Init PROVE IInv
    OBVIOUS
  <1>1. TypeOK
    <2>1. timedOut \in BOOLEAN /\ killed \in BOOLEAN
      BY Zenon DEF Init
    <2>2. counter \in Int
      BY DEF Init
    <2>3. work \in [Work -> Counted \cup {"none", "done", "lost"}]
      BY DEF Init
    <2> QED
      BY <2>1, <2>2, <2>3, Zenon DEF Init, TypeOK, Phases
  <1>2. CountedWork = {}
    BY DEF Init, CountedWork, Counted, Unfinished, Ended
  <1>3. CounterIsExact
    BY <1>2, FS_EmptySet DEF CounterIsExact, CountedWork, Init
  <1>4. Drained
    BY DEF Init, Drained, Past
  <1> QED
    BY <1>1, <1>3, <1>4 DEF IInv

(* Every step keeps the types. *)
LEMMA NextTypeOK == TypeOK /\ [Next]_vars => TypeOK'
  <1> SUFFICES ASSUME TypeOK, [Next]_vars PROVE TypeOK'
    OBVIOUS
  <1> USE DEF TypeOK, Phases, Counted, Unfinished, Ended
  <1>1. ASSUME NEW r \in Requests, Accept(r) \/ Respond(r) PROVE TypeOK'
    BY <1>1 DEF Accept, Respond
  <1>2. ASSUME NEW r \in Requests, NEW w \in Work, Go(r, w) PROVE TypeOK'
    BY <1>2 DEF Go
  <1>3. ASSUME NEW w \in Work, Begin(w) \/ End(w) \/ CountDown(w) PROVE TypeOK'
    BY <1>3 DEF Begin, End, CountDown
  <1>4. CASE Interrupt
    BY <1>4 DEF Interrupt, Step
  <1>5. CASE Run
    BY <1>5, Zenon DEF Run, CloseHTTP, HTTPDrained, DrainTimeout, MetricsDrained,
                Wait, Exit, EndProcess, Step
  <1>6. CASE Kill
    BY <1>6 DEF Kill, EndProcess
  <1>7. CASE GracefulStop \/ GrpcDrained
    BY <1>7 DEF GracefulStop, GrpcDrained
  <1>8. CASE UNCHANGED vars
    BY <1>8 DEF vars
  <1> QED
    BY <1>1, <1>2, <1>3, <1>4, <1>5, <1>6, <1>7, <1>8 DEF Next

(* Every step keeps the counter equal to the number of counted functions. *)
LEMMA NextCounter == IInv /\ [Next]_vars => CounterIsExact'
  <1> SUFFICES ASSUME IInv, [Next]_vars PROVE CounterIsExact'
    OBVIOUS
  <1> USE DEF IInv, TypeOK
  <1>1. ASSUME UNCHANGED <<work, counter>>, Alive' => Alive
        PROVE  CounterIsExact'
    BY <1>1 DEF CounterIsExact
  <1>2. ASSUME NEW r \in Requests, NEW w \in Work, Go(r, w)
        PROVE  CounterIsExact'
    <2>1. CountedWork' = CountedWork \cup {w} /\ w \notin CountedWork
      BY <1>2 DEF Go, CountedWork, Counted, Unfinished, Ended
    <2>2. Cardinality(CountedWork') = Cardinality(CountedWork) + 1
      BY <2>1, AddOne, CountedIsFinite
    <2> QED
      BY <1>2, <2>2 DEF Go, CounterIsExact, CountedWork
  <1>3. ASSUME NEW w \in Work, Begin(w) \/ End(w) PROVE CounterIsExact'
    <2>1. CountedWork' = CountedWork
      BY <1>3 DEF Begin, End, CountedWork, Counted, Unfinished, Ended
    <2> QED
      BY <1>3, <2>1 DEF Begin, End, CounterIsExact, CountedWork, Alive
  <1>4. ASSUME NEW w \in Work, CountDown(w) PROVE CounterIsExact'
    <2>1. CountedWork' = CountedWork \ {w} /\ w \in CountedWork
      BY <1>4 DEF CountDown, CountedWork, Counted, Unfinished, Ended
    <2>2. Cardinality(CountedWork') = Cardinality(CountedWork) - 1
      BY <2>1, RemoveOne, CountedIsFinite
    <2> QED
      BY <1>4, <2>2 DEF CountDown, CounterIsExact, CountedWork
  <1>5. CASE Exit \/ Kill
    BY <1>5 DEF Exit, Kill, EndProcess, CounterIsExact, Alive
  <1> QED
    BY <1>1, <1>2, <1>3, <1>4, <1>5
    DEF Next, Run, Accept, Respond, Interrupt, CloseHTTP, HTTPDrained,
        DrainTimeout, MetricsDrained, Wait, Step, GracefulStop, GrpcDrained,
        vars, Alive

(* A count of zero means that nothing is counted. *)
LEMMA ZeroCount ==
    ASSUME IInv, Alive, counter <= 0
    PROVE  \A w \in Work : work[w] \notin Counted
  <1>1. Cardinality(CountedWork) = counter
    BY DEF IInv, CounterIsExact, CountedWork
  <1>2. CountedWork = {}
    BY <1>1, CountedIsFinite, FS_EmptySet, FS_CardinalityType DEF IInv, TypeOK
  <1> QED
    BY <1>2 DEF CountedWork

(* Every step keeps Drained. *)
LEMMA NextDrained == IInv /\ [Next]_vars => Drained'
  <1> SUFFICES ASSUME IInv, [Next]_vars PROVE Drained'
    OBVIOUS
  <1> USE DEF IInv, TypeOK, Drained, Past, Requests
  <1>1. ASSUME NEW r \in Requests, Accept(r) \/ Respond(r) PROVE Drained'
    BY <1>1 DEF Accept, Respond, Alive
  <1>2. ASSUME NEW r \in Requests, NEW w \in Work, Go(r, w) PROVE Drained'
    BY <1>2, ShutdownAssumption DEF Go, Alive
  <1>3. ASSUME NEW w \in Work, Begin(w) \/ End(w) \/ CountDown(w)
        PROVE  Drained'
    BY <1>3 DEF Begin, End, CountDown, Alive, Ended
  <1>4. CASE Interrupt \/ CloseHTTP \/ DrainTimeout \/ MetricsDrained
    BY <1>4 DEF Interrupt, CloseHTTP, DrainTimeout, MetricsDrained, Step
  <1>5. CASE HTTPDrained
    BY <1>5 DEF HTTPDrained, Step, Running
  <1>6. CASE Wait
    <2>1. \A w \in Work : work[w] \notin Counted
      BY <1>6, ZeroCount DEF Wait, Step, Alive
    <2>2. \A w \in Work : spawner[w] \in HttpRequests => work[w] = "done"
      BY <1>6, <2>1, ShutdownAssumption DEF Wait, Step
    <2> QED
      BY <1>6, <2>2 DEF Wait, Step
  <1>7. CASE Exit
    BY <1>7 DEF Exit, EndProcess, Unfinished
  <1>8. CASE Kill
    BY <1>8 DEF Kill, EndProcess, Unfinished
  <1>9. CASE GracefulStop \/ GrpcDrained
    BY <1>9 DEF GracefulStop, GrpcDrained
  <1>10. CASE UNCHANGED vars
    BY <1>10 DEF vars
  <1> QED
    BY <1>1, <1>2, <1>3, <1>4, <1>5, <1>6, <1>7, <1>8, <1>9, <1>10, Zenon
    DEF Next, Run

(* asyncutil's counter is exact in every reachable state. *)
THEOREM CounterIsAlwaysExact == Spec => []CounterIsExact
  <1>1. IInv /\ [Next]_vars => IInv'
    BY NextTypeOK, NextCounter, NextDrained DEF IInv
  <1>2. IInv => CounterIsExact
    BY DEF IInv
  <1> QED
    BY InitIInv, <1>1, <1>2, PTL DEF Spec

(* A graceful exit cuts off no HTTP request and none of its work. *)
THEOREM HttpWorkIsAlwaysDrained == Spec => []HttpWorkIsDrained
  <1>1. IInv /\ [Next]_vars => IInv'
    BY NextTypeOK, NextCounter, NextDrained DEF IInv
  <1>2. IInv => HttpWorkIsDrained
    BY DEF IInv, Drained, Past, HttpWorkIsDrained
  <1> QED
    BY InitIInv, <1>1, <1>2, PTL DEF Spec

-----------------------------------------------------------------------------
(* The poll of asyncutil.Wait can end exactly when no detached function is *)
(* between its Go and its deferred decrement.                              *)
WaitIsExact ==
    Alive => (counter <= 0 <=> \A w \in Work : work[w] \notin Counted)

(* Wait neither returns while a detached function is owed its decrement    *)
(* nor goes on polling once none is: what termination after an interrupt   *)
(* needs of the counter, for every number of requests and functions.       *)
THEOREM WaitIsAlwaysExact == Spec => []WaitIsExact
  <1>1. IInv /\ [Next]_vars => IInv'
    BY NextTypeOK, NextCounter, NextDrained DEF IInv
  <1>2. IInv => WaitIsExact
    <2> SUFFICES ASSUME IInv, Alive
                 PROVE  counter <= 0 <=> \A w \in Work : work[w] \notin Counted
      BY DEF WaitIsExact
    <2>1. counter = Cardinality(CountedWork) /\ Cardinality(CountedWork) \in Nat
      BY CountedIsFinite, FS_CardinalityType DEF IInv, CounterIsExact, CountedWork
    <2>2. counter <= 0 <=> CountedWork = {}
      BY <2>1, CountedIsFinite, FS_EmptySet
    <2>3. CountedWork = {} <=> \A w \in Work : work[w] \notin Counted
      BY Zenon DEF CountedWork
    <2> QED
      BY <2>2, <2>3
  <1> QED
    BY InitIInv, <1>1, <1>2, PTL DEF Spec

=============================================================================
