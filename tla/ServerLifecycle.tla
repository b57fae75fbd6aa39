--------------------------- MODULE ServerLifecycle ---------------------------
(***************************************************************************)
(* internal/server/servers.go under cmd/api/main.go: two HTTP servers, the *)
(* goroutine that serves each, the readiness flag, the signal, and the     *)
(* shutdown with its two further goroutines and its deadline.              *)
(*                                                                         *)
(* Of net/http the model has what servers.go relies on: Serve registers    *)
(* its listener unless Shutdown came first; Shutdown closes the registered *)
(* listener, waits until Serve has returned and no handler is left, or     *)
(* until its context is done; Close does not wait.                         *)
(***************************************************************************)
EXTENDS Naturals, Sequences

CONSTANTS
    Requests,      \* the requests made over time, to either server
    MaxFailures,   \* bound: ports that cannot be bound, servers that fail
    MaxStops       \* bound: shutdowns and crashes

ASSUME BoundsAssumption == MaxFailures \in Nat /\ MaxStops \in Nat

Servers == {"public", "internal"}

VARIABLES
    run,           \* where main and Run stand
    accepting,     \* Readiness.acceptingTraffic
    signalled,     \* the context of signal.NotifyContext is done
    listener,      \* [Servers -> "closed" or "bound"]
    serve,         \* [Servers -> where its serving goroutine stands]
    errCh,         \* what the serving goroutines have sent and Run has not read
    runErr,        \* the error Run has read from errCh
    inShutdown,    \* [Servers -> whether Shutdown has been called]
    drained,       \* [Servers -> what Shutdown has returned]
    work,          \* [Servers -> requests its handlers are busy with]
    used,          \* requests made so far
    failures, stops

vars == <<run, accepting, signalled, listener, serve, errCh, runErr, inShutdown,
          drained, work, used, failures, stops>>

bounds == <<failures, stops>>
flow   == <<run, accepting, signalled, runErr>>

All(value) == [s \in Servers |-> value]

Init ==
    /\ run = "down" /\ accepting = FALSE /\ signalled = FALSE
    /\ listener = All("closed") /\ serve = All("none")
    /\ errCh = << >> /\ runErr = "nil"
    /\ inShutdown = All(FALSE) /\ drained = All("no") /\ work = All({})
    /\ used = {} /\ failures = 0 /\ stops = 0

MayStop == stops < MaxStops

Fail == failures < MaxFailures /\ failures' = failures + 1

-----------------------------------------------------------------------------
(* Run, up to the select.                                                  *)

\* A port that is taken ends the process; the public listener is closed.
CannotListen ==
    /\ run \in {"down", "public_bound"}
    /\ Fail
    /\ run' = "down" /\ listener' = All("closed") /\ signalled' = FALSE
    /\ UNCHANGED <<accepting, serve, errCh, runErr, inShutdown, drained, work, used, stops>>

ListenPublic ==
    /\ run = "down"
    /\ run' = "public_bound" /\ listener' = [listener EXCEPT !["public"] = "bound"]
    /\ UNCHANGED <<accepting, signalled, serve, errCh, runErr, inShutdown, drained, work, used, bounds>>

\* Seeded fault: the flag is set before the second port is bound.
ListenInternalAfterReady ==
    /\ run = "public_bound"
    /\ IF accepting
       THEN /\ run' = "both_bound"
            /\ listener' = [listener EXCEPT !["internal"] = "bound"]
            /\ serve' = All("starting") /\ UNCHANGED accepting
       ELSE accepting' = TRUE /\ UNCHANGED <<run, listener, serve>>
    /\ UNCHANGED <<signalled, errCh, runErr, inShutdown, drained, work, used, bounds>>

\* The second port is bound too, and both goroutines are started.
ListenInternal ==
    /\ run = "public_bound"
    /\ run' = "both_bound"
    /\ listener' = [listener EXCEPT !["internal"] = "bound"]
    /\ serve' = All("starting")
    /\ UNCHANGED <<accepting, signalled, errCh, runErr, inShutdown, drained, work, used, bounds>>

SetReady ==
    /\ run = "both_bound"
    /\ run' = "select" /\ accepting' = TRUE
    /\ UNCHANGED <<signalled, listener, serve, errCh, runErr, inShutdown, drained, work, used, bounds>>

\* SIGINT or SIGTERM, at any time after main has asked for it.
Signal ==
    /\ run # "down" /\ ~signalled /\ MayStop
    /\ signalled' = TRUE
    /\ UNCHANGED <<run, accepting, listener, serve, errCh, runErr, inShutdown, drained, work, used, bounds>>

\* With both cases ready, select takes either: a server's error may stay unread.
Select ==
    /\ run = "select"
    /\ run' = "stopping"
    /\ \/ signalled /\ UNCHANGED <<errCh, runErr>>
       \/ errCh # << >> /\ runErr' = Head(errCh) /\ errCh' = Tail(errCh)
    /\ UNCHANGED <<accepting, signalled, listener, serve, inShutdown, drained, work, used, bounds>>

-----------------------------------------------------------------------------
(* The serving goroutines.                                                 *)

\* Serve finds Shutdown already called, or registers its listener.
ServeStarts(s) ==
    /\ serve[s] = "starting"
    /\ IF inShutdown[s]
       THEN /\ listener' = [listener EXCEPT ![s] = "closed"]
            /\ serve' = [serve EXCEPT ![s] = "ended"]
            /\ errCh' = Append(errCh, "nil")
       ELSE serve' = [serve EXCEPT ![s] = "serving"] /\ UNCHANGED <<listener, errCh>>
    /\ UNCHANGED <<flow, inShutdown, drained, work, used, bounds>>

\* Seeded fault: serve sends nil whatever Serve has returned.
ServeFailsSilently(s) ==
    /\ serve[s] = "serving" /\ ~inShutdown[s] /\ MayStop
    /\ Fail
    /\ listener' = [listener EXCEPT ![s] = "closed"]
    /\ serve' = [serve EXCEPT ![s] = "ended"]
    /\ errCh' = Append(errCh, "nil")
    /\ UNCHANGED <<flow, inShutdown, drained, work, used, stops>>

\* Accept fails for good: Serve returns and closes its listener.
ServeFails(s) ==
    /\ serve[s] = "serving" /\ ~inShutdown[s] /\ MayStop
    /\ Fail
    /\ listener' = [listener EXCEPT ![s] = "closed"]
    /\ serve' = [serve EXCEPT ![s] = "ended"]
    /\ errCh' = Append(errCh, "failed")
    /\ UNCHANGED <<flow, inShutdown, drained, work, used, stops>>

\* Shutdown has closed the listener: ErrServerClosed, sent as nil.
ServeReturns(s) ==
    /\ serve[s] = "serving" /\ inShutdown[s]
    /\ serve' = [serve EXCEPT ![s] = "ended"]
    /\ errCh' = Append(errCh, "nil")
    /\ UNCHANGED <<flow, listener, inShutdown, drained, work, used, bounds>>

\* A connection is accepted, perhaps just before the listener closes.
Accept(s) ==
    /\ serve[s] = "serving"
    /\ \E r \in Requests \ used :
        /\ work' = [work EXCEPT ![s] = @ \cup {r}]
        /\ used' = used \cup {r}
    /\ UNCHANGED <<flow, listener, serve, errCh, inShutdown, drained, bounds>>

Answer(s) ==
    /\ \E r \in work[s] : work' = [work EXCEPT ![s] = @ \ {r}]
    /\ UNCHANGED <<flow, listener, serve, errCh, inShutdown, drained, used, bounds>>

-----------------------------------------------------------------------------
(* Run, after the select.                                                  *)

CloseGate ==
    /\ run = "stopping"
    /\ run' = "shutdown" /\ accepting' = FALSE /\ stops' = stops + 1
    /\ UNCHANGED <<signalled, listener, serve, errCh, runErr, inShutdown, drained, work, used, failures>>

\* One goroutine for each server calls Shutdown ...
ShutdownCalled(s) ==
    /\ run = "shutdown" /\ ~inShutdown[s]
    /\ inShutdown' = [inShutdown EXCEPT ![s] = TRUE]
    /\ listener' = [listener EXCEPT ![s] = IF serve[s] = "serving" THEN "closed" ELSE @]
    /\ UNCHANGED <<flow, serve, errCh, drained, work, used, bounds>>

\* Seeded fault: Shutdown waits without a deadline.
ShutdownWaits(s) ==
    /\ run = "shutdown" /\ inShutdown[s] /\ drained[s] = "no"
    /\ serve[s] # "serving" /\ work[s] = {}
    /\ drained' = [drained EXCEPT ![s] = "nil"]
    /\ UNCHANGED <<flow, listener, serve, errCh, inShutdown, work, used, bounds>>

\* ... and reports that everyone has left, or that SHUTDOWN_TIMEOUT is over.
ShutdownReturns(s) ==
    /\ run = "shutdown" /\ inShutdown[s] /\ drained[s] = "no"
    /\ serve[s] # "serving"
    /\ \/ work[s] = {} /\ drained' = [drained EXCEPT ![s] = "nil"]
       \/ drained' = [drained EXCEPT ![s] = "timeout"]
    /\ UNCHANGED <<flow, listener, serve, errCh, inShutdown, work, used, bounds>>

\* Seeded fault: shutdown reads one of the two results.
JoinFirst ==
    /\ run = "shutdown"
    /\ \/ \E s \in Servers : drained[s] = "nil" /\ run' = "drained"
       \/ \E s \in Servers : drained[s] = "timeout" /\ run' = "closing"
    /\ UNCHANGED <<accepting, signalled, listener, serve, errCh, runErr, inShutdown, drained, work, used, bounds>>

\* shutdown has both results.
Join ==
    /\ run = "shutdown"
    /\ \A s \in Servers : drained[s] # "no"
    /\ run' = IF drained = All("nil") THEN "drained" ELSE "closing"
    /\ UNCHANGED <<accepting, signalled, listener, serve, errCh, runErr, inShutdown, drained, work, used, bounds>>

\* Close breaks the connections and leaves the handlers running.
Close ==
    /\ run = "closing"
    /\ run' = "forced"
    /\ UNCHANGED <<accepting, signalled, listener, serve, errCh, runErr, inShutdown, drained, work, used, bounds>>

\* Seeded fault: Run leaves the listeners to Shutdown.
ReturnWithoutClose ==
    /\ run \in {"drained", "forced"}
    /\ run' = "returned"
    /\ UNCHANGED <<accepting, signalled, listener, serve, errCh, runErr, inShutdown, drained, work, used, bounds>>

\* The deferred calls close both listeners whatever the servers have done.
Return ==
    /\ run \in {"drained", "forced"}
    /\ run' = "returned"
    /\ listener' = All("closed")
    /\ UNCHANGED <<accepting, signalled, serve, errCh, runErr, inShutdown, drained, work, used, bounds>>

\* The process is gone, with its goroutines; the next one starts afresh.
Gone ==
    /\ run' = "down" /\ accepting' = FALSE /\ signalled' = FALSE
    /\ listener' = All("closed") /\ serve' = All("none")
    /\ errCh' = << >> /\ runErr' = "nil"
    /\ inShutdown' = All(FALSE) /\ drained' = All("no") /\ work' = All({})
    /\ UNCHANGED <<used, failures>>

\* main closes the database and exits, with whatever still runs.
Exit == run = "returned" /\ Gone /\ UNCHANGED stops

Crash == run # "down" /\ MayStop /\ Gone /\ stops' = stops + 1

-----------------------------------------------------------------------------
RunStep ==
    \/ ListenPublic \/ ListenInternal \/ SetReady \/ Select \/ CloseGate
    \/ Join \/ Close \/ Return \/ Exit

ServerStep(s) ==
    ServeStarts(s) \/ ServeReturns(s) \/ ShutdownCalled(s) \/ ShutdownReturns(s)

Next ==
    \/ RunStep \/ CannotListen \/ Signal \/ Crash
    \/ \E s \in Servers : ServerStep(s) \/ ServeFails(s) \/ Accept(s) \/ Answer(s)

Spec == Init /\ [][Next]_vars

\* Goroutines of the servers and of Run are scheduled; handlers need not end.
FairSpec == Spec /\ WF_vars(RunStep) /\ \A s \in Servers : WF_vars(ServerStep(s))
-----------------------------------------------------------------------------
\* Neither goroutine ever blocks on errCh, which has room for two values.
TypeOK ==
    /\ run \in {"down", "public_bound", "both_bound", "select", "stopping", "shutdown",
               "drained", "closing", "forced", "returned"}
    /\ accepting \in BOOLEAN /\ signalled \in BOOLEAN
    /\ listener \in [Servers -> {"closed", "bound"}]
    /\ serve \in [Servers -> {"none", "starting", "serving", "ended"}]
    /\ errCh \in Seq({"nil", "failed"}) /\ Len(errCh) <= 2
    /\ runErr \in {"nil", "failed"}
    /\ inShutdown \in [Servers -> BOOLEAN]
    /\ drained \in [Servers -> {"no", "nil", "timeout"}]
    /\ work \in [Servers -> SUBSET used] /\ used \subseteq Requests
    /\ failures \in 0..MaxFailures /\ stops \in 0..MaxStops

TimedOut == \E s \in Servers : drained[s] = "timeout"

ExitCode == IF runErr = "nil" /\ ~TimedOut THEN 0 ELSE 1

(* The flag is set only while both ports are bound, a server that has died *)
(* since being the one exception, and then Run has its error to read (Run  *)
(* sets ready after both listeners, servers.go:114).                       *)
ReadyMeansBound ==
    accepting =>
        \A s \in Servers :
            \/ listener[s] = "bound"
            \/ serve[s] = "ended" /\ (errCh # << >> \/ runErr # "nil")

(* Exit code 0 tells the truth: the process was asked to stop, and every   *)
(* request either server had accepted, the last one before its listener    *)
(* closed included, was answered before the database is closed (Run,       *)
(* serve, shutdown, and the deferred Close of main).                       *)
CleanExit ==
    run = "returned" /\ ExitCode = 0 =>
        /\ signalled
        /\ \A s \in Servers : work[s] = {}

(* When Run returns, neither port is bound, even if shutdown came before a *)
(* serving goroutine had got as far as Serve (the deferred Close calls).   *)
NoPortLeft == run = "returned" => listener = All("closed")

(* Once asked to stop, or once a server has died, the process does stop,   *)
(* with handlers that never return as well (SHUTDOWN_TIMEOUT).             *)
StopsInTheEnd == (signalled \/ errCh # << >>) ~> (run = "down")

-----------------------------------------------------------------------------
(* The phases IngestionApi counts on.                                      *)

Phase ==
    CASE run \in {"down", "public_bound"} -> "down"
      [] run = "both_bound" -> "listening"
      [] run \in {"select", "stopping"} -> "serving"
      [] run = "shutdown" /\ (\E s \in Servers : ~inShutdown[s] \/ serve[s] = "serving") -> "unready"
      [] run = "forced" \/ (run = "returned" /\ TimedOut) -> "forced"
      [] OTHER -> "draining"

Phases == INSTANCE ProcessPhases WITH
    Clients <- Requests,
    phase   <- Phase,
    working <- UNION {work[s] : s \in Servers}

(* Two servers with their goroutines, their results and their deadline     *)
(* amount to one gate and one drain: the gate opens after both ports and   *)
(* closes before either, and only force or a kill cuts a request off.      *)
ImplementsPhases == Phases!PhaseSpec

=============================================================================
