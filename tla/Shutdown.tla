------------------------------- MODULE Shutdown -------------------------------
(***************************************************************************)
(* Graceful shutdown of the server process: server.Run                     *)
(* (server/server.go), the gRPC listener's Run (grpcsrv/server.go), the    *)
(* signal handling of cmd/root.go and the detached work of asyncutil.      *)
(*                                                                         *)
(* A request is one call of an HTTP or gRPC handler.  Work is one function *)
(* passed to asyncutil.Go: an email, a webhook, an audit record, a sweep   *)
(* of sessions.  http.Server.Shutdown and grpc.Server.GracefulStop are     *)
(* library code, modelled from what Run relies on: both close their        *)
(* listener at once and return when no request is running; the former also *)
(* returns when its context of 30 seconds ends.                            *)
(***************************************************************************)
EXTENDS Integers, FiniteSets

CONSTANTS
    HttpRequests,  \* requests that arrive at the HTTP listener
    RpcRequests,   \* requests that arrive at the gRPC listener
    Work           \* functions passed to asyncutil.Go

ASSUME ShutdownAssumption ==
    /\ HttpRequests \cap RpcRequests = {}
    /\ IsFiniteSet(Work)
    /\ "nobody" \notin HttpRequests \cup RpcRequests

VARIABLES
    phase,     \* where the main goroutine stands
    grpc,      \* the gRPC listener
    request,   \* the state of each request
    work,      \* the state of each detached function
    spawner,   \* the request that started a detached function
    counter,   \* asyncutil's counter
    timedOut,  \* httpSrv.Shutdown returned because its context ended
    killed     \* a second interrupt ended the process

vars == <<phase, grpc, request, work, spawner, counter, timedOut, killed>>

Requests == HttpRequests \cup RpcRequests

Phases == {"serving", "signalled", "draining", "metrics", "waiting",
           "returned", "exited"}

(* A detached function is "starting" between counter.Add(1) and the first  *)
(* instruction of its goroutine, and "returned" or "panicked" between the  *)
(* end of fn and the deferred counter.Add(-1).                             *)
Unfinished == {"starting", "running"}
Ended      == {"returned", "panicked"}
Counted    == Unfinished \cup Ended

TypeOK ==
    /\ phase \in Phases
    /\ grpc \in {"serving", "stopping", "stopped"}
    /\ request \in [Requests -> {"none", "running", "done", "lost"}]
    /\ work \in [Work -> Counted \cup {"none", "done", "lost"}]
    /\ spawner \in [Work -> Requests \cup {"nobody"}]
    /\ counter \in Int
    /\ timedOut \in BOOLEAN
    /\ killed \in BOOLEAN

Init ==
    /\ phase = "serving"
    /\ grpc = "serving"
    /\ request = [r \in Requests |-> "none"]
    /\ work = [w \in Work |-> "none"]
    /\ spawner = [w \in Work |-> "nobody"]
    /\ counter = 0
    /\ timedOut = FALSE
    /\ killed = FALSE

Alive == phase # "exited"

Running(rs) == {r \in rs : request[r] = "running"}

-----------------------------------------------------------------------------
(* Requests.  A listener accepts until its Shutdown or GracefulStop starts. *)

Accept(r) ==
    /\ request[r] = "none"
    /\ IF r \in HttpRequests THEN phase \in {"serving", "signalled"}
                             ELSE Alive /\ grpc = "serving"
    /\ request' = [request EXCEPT ![r] = "running"]
    /\ UNCHANGED <<phase, grpc, work, spawner, counter, timedOut, killed>>

Respond(r) ==
    /\ Alive
    /\ request[r] = "running"
    /\ request' = [request EXCEPT ![r] = "done"]
    /\ UNCHANGED <<phase, grpc, work, spawner, counter, timedOut, killed>>

-----------------------------------------------------------------------------
(* asyncutil.Go: the handler counts the work before its goroutine exists.  *)

(* Mutation of Go: the count is left to the new goroutine. *)
GoUncounted(r, w) ==
    /\ Alive
    /\ request[r] = "running"
    /\ work[w] = "none"
    /\ work' = [work EXCEPT ![w] = "starting"]
    /\ spawner' = [spawner EXCEPT ![w] = r]
    /\ UNCHANGED <<phase, grpc, request, counter, timedOut, killed>>

Go(r, w) ==
    /\ Alive
    /\ request[r] = "running"
    /\ work[w] = "none"
    /\ work' = [work EXCEPT ![w] = "starting"]
    /\ spawner' = [spawner EXCEPT ![w] = r]
    /\ counter' = counter + 1
    /\ UNCHANGED <<phase, grpc, request, timedOut, killed>>

Begin(w) ==
    /\ Alive
    /\ work[w] = "starting"
    /\ work' = [work EXCEPT ![w] = "running"]
    /\ UNCHANGED <<phase, grpc, request, spawner, counter, timedOut, killed>>

(* fn returns or panics; the deferred recover catches the panic. *)
End(w) ==
    /\ Alive
    /\ work[w] = "running"
    /\ \E outcome \in Ended : work' = [work EXCEPT ![w] = outcome]
    /\ UNCHANGED <<phase, grpc, request, spawner, counter, timedOut, killed>>

(* Mutation of CountDown: it is not deferred, so a panic skips it. *)
CountDownUndeferred(w) ==
    /\ Alive
    /\ work[w] = "returned"
    /\ work' = [work EXCEPT ![w] = "done"]
    /\ counter' = counter - 1
    /\ UNCHANGED <<phase, grpc, request, spawner, timedOut, killed>>

(* defer counter.Add(-1) runs on both ways out. *)
CountDown(w) ==
    /\ Alive
    /\ work[w] \in Ended
    /\ work' = [work EXCEPT ![w] = "done"]
    /\ counter' = counter - 1
    /\ UNCHANGED <<phase, grpc, request, spawner, timedOut, killed>>

-----------------------------------------------------------------------------
(* The main goroutine. *)

Step(from, to) ==
    /\ phase = from
    /\ phase' = to
    /\ UNCHANGED <<grpc, request, work, spawner, counter, killed>>

(* os.Interrupt: root.go cancels the context of both listeners. *)
Interrupt == Step("serving", "signalled") /\ UNCHANGED timedOut

(* httpSrv.Shutdown closes the HTTP listener. *)
CloseHTTP == Step("signalled", "draining") /\ UNCHANGED timedOut

(* Mutation of HTTPDrained: it does not wait for running requests. *)
HTTPClosed ==
    /\ Step("draining", "metrics")
    /\ UNCHANGED timedOut

HTTPDrained ==
    /\ Running(HttpRequests) = {}
    /\ Step("draining", "metrics")
    /\ UNCHANGED timedOut

(* The 30 second context ends first: Shutdown returns its error. *)
DrainTimeout ==
    /\ Running(HttpRequests) # {}
    /\ Step("draining", "metrics")
    /\ timedOut' = TRUE

(* metricsSrv.Shutdown returns, at the latest when the same context ends. *)
MetricsDrained == Step("metrics", "waiting") /\ UNCHANGED timedOut

(* asyncutil.Wait polls until it reads a count that is not positive. *)
Wait ==
    /\ counter <= 0
    /\ Step("waiting", "returned")
    /\ UNCHANGED timedOut

(* What is still running when the process ends never finishes. *)
EndProcess ==
    /\ phase' = "exited"
    /\ request' = [r \in Requests |->
                     IF request[r] = "running" THEN "lost" ELSE request[r]]
    /\ work' = [w \in Work |->
                  IF work[w] \in Unfinished THEN "lost" ELSE work[w]]
    /\ UNCHANGED <<grpc, spawner, counter, timedOut>>

(* Run has returned: root.go closes the storage provider and main returns. *)
Exit ==
    /\ phase = "returned"
    /\ EndProcess
    /\ UNCHANGED killed

(* After stop() the next interrupt has its default effect. *)
Kill ==
    /\ phase \notin {"serving", "exited"}
    /\ EndProcess
    /\ killed' = TRUE

-----------------------------------------------------------------------------
(* The goroutine of the gRPC listener; nothing waits for it. *)

GracefulStop ==
    /\ phase \notin {"serving", "exited"}
    /\ grpc = "serving"
    /\ grpc' = "stopping"
    /\ UNCHANGED <<phase, request, work, spawner, counter, timedOut, killed>>

GrpcDrained ==
    /\ Alive
    /\ grpc = "stopping"
    /\ Running(RpcRequests) = {}
    /\ grpc' = "stopped"
    /\ UNCHANGED <<phase, request, work, spawner, counter, timedOut, killed>>

-----------------------------------------------------------------------------

Run == CloseHTTP \/ HTTPDrained \/ DrainTimeout \/ MetricsDrained \/ Wait \/ Exit

Next ==
    \/ \E r \in Requests : Accept(r) \/ Respond(r)
    \/ \E r \in Requests, w \in Work : Go(r, w)
    \/ \E w \in Work : Begin(w) \/ End(w) \/ CountDown(w)
    \/ Interrupt
    \/ Run
    \/ Kill
    \/ GracefulStop
    \/ GrpcDrained

(* The Go scheduler runs every goroutine that is ready.  Nothing bounds a  *)
(* handler or a detached function, so Respond and End have no fairness.    *)
Fairness ==
    /\ WF_vars(Run)
    /\ \A w \in Work : WF_vars(Begin(w)) /\ WF_vars(CountDown(w))

Spec == Init /\ [][Next]_vars /\ Fairness

-----------------------------------------------------------------------------
(* The counter is exactly the number of detached functions that have been  *)
(* passed to asyncutil.Go and have not run their deferred decrement, so    *)
(* Wait reads zero only when none is left (asyncutil.go: Go).              *)
CounterIsExact ==
    Alive => counter = Cardinality({w \in Work : work[w] \in Counted})

(* server.Run drains: when the process ends, neither an HTTP request nor   *)
(* work an HTTP request started is cut off, unless the 30 seconds ran out  *)
(* or a second interrupt killed the process.                               *)
HttpWorkIsDrained ==
    (phase = "exited" /\ ~timedOut /\ ~killed) =>
        /\ \A r \in HttpRequests : request[r] # "lost"
        /\ \A w \in Work : spawner[w] \in HttpRequests => work[w] = "done"

(* An interrupt ends the process unless some detached function never       *)
(* returns: draining is bounded, and neither a panic nor a gRPC call that  *)
(* hangs keeps Wait polling.                                               *)
InterruptTerminates ==
    \/ \E w \in Work : <>[](work[w] = "running")
    \/ (phase = "signalled") ~> (phase = "exited")
=============================================================================
