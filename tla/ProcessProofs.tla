--------------------------- MODULE ProcessProofs ---------------------------
(***************************************************************************)
(* What the process of the API guarantees while it serves and while it     *)
(* starts.  ServerLifecycle comes first, for any requests to either server *)
(* and any bounds on failures and stops.  The argument: the place of Run   *)
(* says what its goroutines may have done.  Until the gate is closed       *)
(* nobody has been told to shut down, so what a serving goroutine has sent *)
(* is an error, and Run leaves the select with it or with a signal; once   *)
(* Shutdown has returned nil for a server, that server accepts no more and *)
(* has nobody left.  The start (ApiStartup) follows: each place of run of  *)
(* main.go comes after a step that cannot be skipped.                      *)
(***************************************************************************)
EXTENDS ServerLifecycle, ApiStartup, SequenceTheorems, TLAPS

-----------------------------------------------------------------------------
(* The inductive invariant.                                                *)

Starting == {"down", "public_bound"}
Open     == {"both_bound", "select", "stopping"}
Closed   == {"shutdown", "drained", "closing", "forced", "returned"}

\* Before the second port is bound there is nothing to stop.
NothingYet ==
    /\ run \in Starting =>
        /\ serve = All("none") /\ errCh = << >> /\ runErr = "nil" /\ work = All({})
    /\ run = "down" => ~signalled

\* The flag is set between the second port and the shutdown.
GateIsOpen == accepting <=> run \in {"select", "stopping"}

\* Nobody is told to shut down before the gate is closed.
ToldAfterClosing == \A s \in Servers : inShutdown[s] => run \in Closed

\* What the result of Shutdown says of its server.
DrainIsOver ==
    \A s \in Servers : drained[s] # "no" =>
        /\ inShutdown[s] /\ serve[s] # "serving"
        /\ drained[s] = "nil" => work[s] = {}

\* Run goes on with the results of both.
ResultsAreIn ==
    /\ run \in Closed \ {"shutdown"} => \A s \in Servers : drained[s] # "no"
    /\ run = "drained" => ~TimedOut
    /\ run \in {"closing", "forced"} => TimedOut

\* Between the two ports the first one is bound.
PublicBound == run = "public_bound" => listener["public"] = "bound"

\* A port is bound until its server has failed, which errCh tells.
BoundOrFailed ==
    run \in Open =>
        /\ \A i \in DOMAIN errCh : errCh[i] = "failed"
        /\ \A s \in Servers :
            /\ listener[s] = "bound" \/ serve[s] = "ended"
            /\ serve[s] = "ended" => errCh # << >> \/ runErr = "failed"

\* Run leaves the select for a reason.
AskedOrFailed ==
    /\ run \in {"both_bound", "select"} => runErr = "nil"
    /\ run \in Closed \cup {"stopping"} => signalled \/ runErr = "failed"

Ended(s) == IF serve[s] = "ended" THEN 1 ELSE 0

\* Each serving goroutine sends once.
OneResultEach == Len(errCh) <= Ended("public") + Ended("internal")

\* Within the bound there is a stop left for who has been asked to stop.
StopIsLeft ==
    \/ run \in Starting \cup Open /\ signalled
    \/ run \in Open /\ errCh # << >>
    \/ run = "stopping"
    => stops < MaxStops

\* A request is with one server.
WorkIsApart == work["public"] \cap work["internal"] = {}

IInv ==
    /\ TypeOK /\ NothingYet /\ GateIsOpen /\ ToldAfterClosing /\ DrainIsOver
    /\ ResultsAreIn /\ PublicBound /\ BoundOrFailed /\ AskedOrFailed /\ OneResultEach
    /\ StopIsLeft /\ WorkIsApart /\ NoPortLeft

-----------------------------------------------------------------------------
(* Facts about constant functions and errCh.                               *)

Results == {"nil", "failed"}

LEMMA EmptyIsFine == << >> \in Seq(Results) /\ Len(<< >>) = 0
BY DEF Results

LEMMA SentIsAppended ==
    ASSUME NEW q \in Seq(Results), NEW x \in Results
    PROVE  /\ Append(q, x) \in Seq(Results) /\ Len(Append(q, x)) = Len(q) + 1
           /\ Append(q, x) # << >>
           /\ (\A i \in DOMAIN q : q[i] = "failed") /\ x = "failed"
                => \A i \in DOMAIN Append(q, x) : Append(q, x)[i] = "failed"
<1>1. /\ Append(q, x) \in Seq(Results) /\ Len(Append(q, x)) = Len(q) + 1
      /\ Append(q, x) # << >>
  BY AppendProperties
<1>2. ASSUME \A i \in DOMAIN q : q[i] = "failed", x = "failed",
             NEW i \in DOMAIN Append(q, x)
      PROVE  Append(q, x)[i] = "failed"
  BY <1>2
<1>3. QED BY <1>1, <1>2

LEMMA ReadIsHead ==
    ASSUME NEW q \in Seq(Results), q # << >>
    PROVE  /\ Tail(q) \in Seq(Results) /\ Len(Tail(q)) < Len(q) /\ Head(q) \in Results
           /\ (\A i \in DOMAIN q : q[i] = "failed")
                => Head(q) = "failed" /\ \A i \in DOMAIN Tail(q) : Tail(q)[i] = "failed"
<1>1. Tail(q) \in Seq(Results) /\ Len(Tail(q)) < Len(q) /\ Head(q) \in Results
  OBVIOUS
<1>2. ASSUME \A i \in DOMAIN q : q[i] = "failed"
      PROVE  Head(q) = "failed" /\ \A i \in DOMAIN Tail(q) : Tail(q)[i] = "failed"
  BY <1>2
<1>3. QED BY <1>1, <1>2

-----------------------------------------------------------------------------
LEMMA FreshIsTyped ==
    ASSUME NEW U
    PROVE  /\ All("closed") \in [Servers -> {"closed", "bound"}]
           /\ All("none") \in [Servers -> {"none", "starting", "serving", "ended"}]
           /\ All("starting") \in [Servers -> {"none", "starting", "serving", "ended"}]
           /\ All("no") \in [Servers -> {"no", "nil", "timeout"}]
           /\ All({}) \in [Servers -> SUBSET U]
           /\ << >> \in Seq(Results) /\ Len(<< >>) <= 2
<1>1. All("closed") \in [Servers -> {"closed", "bound"}]
  BY DEF All
<1>2. \A place \in {"none", "starting"} :
        All(place) \in [Servers -> {"none", "starting", "serving", "ended"}]
  BY DEF All
<1>3. All("no") \in [Servers -> {"no", "nil", "timeout"}]
  BY DEF All
<1>4. All({}) \in [Servers -> SUBSET U]
  BY DEF All
<1>5. QED
  BY <1>1, <1>2, <1>3, <1>4, EmptyIsFine

LEMMA NobodyIsTold == All(FALSE) \in [Servers -> BOOLEAN]
BY Zenon DEF All

LEMMA InitIInv == Init => IInv
<1> SUFFICES ASSUME Init PROVE IInv
  OBVIOUS
<1>1. TypeOK
  <2>1. inShutdown \in [Servers -> BOOLEAN]
    BY NobodyIsTold DEF Init
  <2>2. accepting \in BOOLEAN /\ signalled \in BOOLEAN
    BY DEF Init
  <2>3. work \in [Servers -> SUBSET used] /\ used \subseteq Requests
    BY FreshIsTyped DEF Init
  <2>4. /\ listener \in [Servers -> {"closed", "bound"}]
        /\ serve \in [Servers -> {"none", "starting", "serving", "ended"}]
        /\ drained \in [Servers -> {"no", "nil", "timeout"}]
    BY FreshIsTyped DEF Init
  <2>5. errCh \in Seq({"nil", "failed"}) /\ Len(errCh) <= 2
    BY FreshIsTyped DEF Init, Results
  <2>6. failures \in 0..MaxFailures /\ stops \in 0..MaxStops
    BY BoundsAssumption DEF Init
  <2>7. run = "down" /\ runErr = "nil"
    BY DEF Init
  <2>8. QED
    BY Zenon, <2>1, <2>2, <2>3, <2>4, <2>5, <2>6, <2>7 DEF TypeOK
<1>2. NothingYet /\ GateIsOpen /\ ToldAfterClosing /\ DrainIsOver /\ AskedOrFailed
  BY DEF Init, NothingYet, GateIsOpen, ToldAfterClosing, DrainIsOver, AskedOrFailed,
         All, Servers, Starting, Open, Closed
<1>3. ResultsAreIn /\ PublicBound /\ BoundOrFailed /\ StopIsLeft /\ WorkIsApart /\ NoPortLeft
  BY DEF Init, ResultsAreIn, PublicBound, BoundOrFailed, StopIsLeft, WorkIsApart, NoPortLeft,
         All, Servers, Starting, Open, Closed
<1>4. OneResultEach
  BY EmptyIsFine DEF Init, OneResultEach, Ended, All, Servers
<1>5. QED
  BY <1>1, <1>2, <1>3, <1>4 DEF IInv

LEMMA TypeStep == IInv /\ [Next]_vars => TypeOK'
<1> SUFFICES ASSUME IInv, [Next]_vars PROVE TypeOK'
  OBVIOUS
<1> USE BoundsAssumption DEF IInv, TypeOK, bounds, flow
<1>1. CASE ListenPublic \/ ListenInternal \/ SetReady \/ Join \/ Close \/ Return
  BY <1>1, FreshIsTyped DEF ListenPublic, ListenInternal, SetReady, Join, Close, Return, Servers
<1>2. CASE Select
  BY <1>2 DEF Select
<1>3. CASE CloseGate
  <2>1. stops' \in 0..MaxStops
    BY <1>3 DEF CloseGate, StopIsLeft
  <2>2. accepting' \in BOOLEAN
    BY <1>3 DEF CloseGate
  <2>3. QED BY <1>3, <2>1, <2>2 DEF CloseGate
<1>4. CASE Exit \/ Crash
  <2>1. stops' \in 0..MaxStops
    BY <1>4 DEF Exit, Crash, MayStop
  <2>2. Gone
    BY <1>4 DEF Exit, Crash
  <2>3. inShutdown' \in [Servers -> BOOLEAN] /\ accepting' \in BOOLEAN /\ signalled' \in BOOLEAN
    BY <2>2, NobodyIsTold DEF Gone
  <2>4. QED BY <2>1, <2>2, <2>3, FreshIsTyped DEF Gone, Results
<1>5. CASE CannotListen
  <2>1. signalled' \in BOOLEAN
    BY <1>5 DEF CannotListen
  <2>2. listener' \in [Servers -> {"closed", "bound"}]
    BY <1>5, FreshIsTyped DEF CannotListen
  <2>3. QED BY <1>5, <2>1, <2>2 DEF CannotListen, Fail
<1>11. CASE Signal
  BY <1>11 DEF Signal
<1>6. ASSUME NEW s \in Servers, ServeStarts(s)
      PROVE  TypeOK'
  BY <1>6 DEF ServeStarts, OneResultEach, Ended, Servers
<1>7. ASSUME NEW s \in Servers, ServeFails(s) \/ ServeReturns(s)
      PROVE  TypeOK'
  BY <1>7 DEF ServeFails, ServeReturns, OneResultEach, Ended, Fail, Servers
<1>8. ASSUME NEW s \in Servers, ShutdownCalled(s)
      PROVE  TypeOK'
  <2>1. inShutdown' \in [Servers -> BOOLEAN]
    BY <1>8 DEF ShutdownCalled
  <2>2. listener' \in [Servers -> {"closed", "bound"}]
    BY <1>8 DEF ShutdownCalled
  <2>3. QED BY <1>8, <2>1, <2>2 DEF ShutdownCalled
<1>13. ASSUME NEW s \in Servers, ShutdownReturns(s)
      PROVE  TypeOK'
  BY <1>13 DEF ShutdownReturns
<1>9. ASSUME NEW s \in Servers, Accept(s) \/ Answer(s)
      PROVE  TypeOK'
  BY <1>9 DEF Accept, Answer
<1>10. CASE UNCHANGED vars
  BY <1>10 DEF vars
<1>12. QED
  BY <1>1, <1>2, <1>3, <1>4, <1>5, <1>6, <1>7, <1>8, <1>9, <1>10, <1>11, <1>13
     DEF Next, RunStep, ServerStep

-----------------------------------------------------------------------------
LEMMA PlacesStep == IInv /\ [Next]_vars =>
                        NothingYet' /\ GateIsOpen' /\ ToldAfterClosing' /\ NoPortLeft'
<1> SUFFICES ASSUME IInv, [Next]_vars
             PROVE  NothingYet' /\ GateIsOpen' /\ ToldAfterClosing' /\ NoPortLeft'
  OBVIOUS
<1> USE DEF IInv, TypeOK, NothingYet, GateIsOpen, ToldAfterClosing, NoPortLeft,
            Starting, Closed, bounds, flow
<1>1. CASE ListenPublic \/ ListenInternal \/ SetReady \/ CannotListen
  BY <1>1 DEF ListenPublic, ListenInternal, SetReady, CannotListen
<1>2. CASE Select \/ CloseGate \/ Join \/ Close \/ Return
  BY <1>2 DEF Select, CloseGate, Join, Close, Return
<1>3. CASE Exit \/ Crash
  <2>1. Gone
    BY <1>3 DEF Exit, Crash
  <2>2. \A s \in Servers : ~inShutdown'[s]
    BY <2>1 DEF Gone, All
  <2>3. QED BY <2>1, <2>2 DEF Gone
<1>4. CASE Signal
  BY <1>4 DEF Signal
<1>5. ASSUME NEW s \in Servers, ServerStep(s)
      PROVE  NothingYet' /\ GateIsOpen' /\ ToldAfterClosing' /\ NoPortLeft'
  <2>1. CASE ServeStarts(s)
    BY <1>5, <2>1 DEF ServeStarts, All
  <2>2. CASE ServeReturns(s)
    BY <1>5, <2>2 DEF ServeReturns, All
  <2>3. CASE ShutdownCalled(s)
    BY <1>5, <2>3 DEF ShutdownCalled
  <2>4. CASE ShutdownReturns(s)
    BY <1>5, <2>4 DEF ShutdownReturns
  <2>5. QED BY <1>5, <2>1, <2>2, <2>3, <2>4 DEF ServerStep
<1>6. ASSUME NEW s \in Servers, ServeFails(s) \/ Accept(s) \/ Answer(s)
      PROVE  NothingYet' /\ GateIsOpen' /\ ToldAfterClosing' /\ NoPortLeft'
  BY <1>6 DEF ServeFails, Accept, Answer, All
<1>7. CASE UNCHANGED vars
  BY <1>7 DEF vars
<1>8. QED
  BY <1>1, <1>2, <1>3, <1>4, <1>5, <1>6, <1>7 DEF Next, RunStep

LEMMA DrainStep == IInv /\ [Next]_vars => DrainIsOver' /\ ResultsAreIn' /\ WorkIsApart'
<1> SUFFICES ASSUME IInv, [Next]_vars
             PROVE  DrainIsOver' /\ ResultsAreIn' /\ WorkIsApart'
  OBVIOUS
<1> USE DEF IInv, TypeOK, DrainIsOver, ResultsAreIn, WorkIsApart, TimedOut, Closed, bounds, flow
<1>1. CASE ListenPublic \/ ListenInternal \/ SetReady \/ CannotListen
  BY <1>1 DEF ListenPublic, ListenInternal, SetReady, CannotListen, NothingYet,
              ToldAfterClosing, Starting, All
<1>2. CASE Select \/ CloseGate \/ Close \/ Return
  BY <1>2 DEF Select, CloseGate, Close, Return
<1>3. CASE Join
  BY <1>3 DEF Join, All
<1>4. CASE Exit \/ Crash
  <2>1. Gone
    BY <1>4 DEF Exit, Crash
  <2>2. QED BY <2>1 DEF Gone, All, Servers
<1>5. CASE Signal
  BY <1>5 DEF Signal
<1>6. ASSUME NEW s \in Servers, ServerStep(s) \/ ServeFails(s)
      PROVE  DrainIsOver' /\ ResultsAreIn' /\ WorkIsApart'
  <2>1. CASE ServeStarts(s)
    BY <1>6, <2>1 DEF ServeStarts
  <2>2. CASE ServeReturns(s)
    BY <1>6, <2>2 DEF ServeReturns
  <2>3. CASE ServeFails(s)
    BY <1>6, <2>3 DEF ServeFails
  <2>4. CASE ShutdownCalled(s)
    BY <1>6, <2>4 DEF ShutdownCalled
  <2>5. CASE ShutdownReturns(s)
    BY <1>6, <2>5 DEF ShutdownReturns
  <2>6. QED BY <1>6, <2>1, <2>2, <2>3, <2>4, <2>5 DEF ServerStep
<1>7. ASSUME NEW s \in Servers, Accept(s)
      PROVE  DrainIsOver' /\ ResultsAreIn' /\ WorkIsApart'
  BY <1>7 DEF Accept, Servers
<1>8. ASSUME NEW s \in Servers, Answer(s)
      PROVE  DrainIsOver' /\ ResultsAreIn' /\ WorkIsApart'
  BY <1>8 DEF Answer, Servers
<1>9. CASE UNCHANGED vars
  BY <1>9 DEF vars
<1>10. QED
  BY <1>1, <1>2, <1>3, <1>4, <1>5, <1>6, <1>7, <1>8, <1>9 DEF Next, RunStep

-----------------------------------------------------------------------------
LEMMA ResultsStep == IInv /\ [Next]_vars => PublicBound' /\ BoundOrFailed' /\ OneResultEach'
<1> SUFFICES ASSUME IInv, [Next]_vars PROVE PublicBound' /\ BoundOrFailed' /\ OneResultEach'
  OBVIOUS
<1> USE DEF IInv, TypeOK, PublicBound, BoundOrFailed, OneResultEach, Ended, Servers, Open, bounds, flow
<1>1. CASE ListenPublic \/ CannotListen
  BY <1>1 DEF ListenPublic, CannotListen, All, NothingYet, Starting
<1>2. CASE ListenInternal
  <2>1. errCh' = << >> /\ run' = "both_bound" /\ \A s \in Servers : serve'[s] = "starting"
    BY <1>2 DEF ListenInternal, All, NothingYet, Starting
  <2>2. listener'["internal"] = "bound" \/ serve'["internal"] = "ended"
    BY <1>2 DEF ListenInternal
  <2>3. QED BY <1>2, <2>1 DEF ListenInternal
<1>3. CASE SetReady \/ Signal
  BY <1>3 DEF SetReady, Signal
<1>4. CASE Select
  <2>1. CASE UNCHANGED <<errCh, runErr>>
    BY <1>4, <2>1 DEF Select
  <2>2. CASE errCh # << >> /\ runErr' = Head(errCh) /\ errCh' = Tail(errCh)
    BY <1>4, <2>2, ReadIsHead DEF Select, Results
  <2>3. QED BY <1>4, <2>1, <2>2 DEF Select
<1>5. CASE CloseGate \/ Join \/ Close \/ Return
  BY <1>5 DEF CloseGate, Join, Close, Return
<1>6. CASE Exit \/ Crash
  BY <1>6, EmptyIsFine DEF Exit, Crash, Gone, All
<1>7. ASSUME NEW s \in Servers, ServeStarts(s) \/ ServeReturns(s)
      PROVE  PublicBound' /\ BoundOrFailed' /\ OneResultEach'
  BY <1>7, SentIsAppended DEF ServeStarts, ServeReturns, Results, ToldAfterClosing, Closed
<1>8. ASSUME NEW s \in Servers, ServeFails(s)
      PROVE  PublicBound' /\ BoundOrFailed' /\ OneResultEach'
  <2>1. /\ errCh' = Append(errCh, "failed") /\ serve' = [serve EXCEPT ![s] = "ended"]
        /\ listener' = [listener EXCEPT ![s] = "closed"] /\ serve[s] = "serving"
        /\ run' = run /\ runErr' = runErr
    BY <1>8 DEF ServeFails
  <2>2. /\ Len(errCh') = Len(errCh) + 1 /\ errCh' # << >>
        /\ (\A i \in DOMAIN errCh : errCh[i] = "failed")
             => \A i \in DOMAIN errCh' : errCh'[i] = "failed"
    BY <2>1, SentIsAppended DEF Results
  <2>3. PublicBound'
    BY <2>1, <2>2 DEF NothingYet, Starting, All
  <2>4. BoundOrFailed'
    BY <2>1, <2>2
  <2>5. OneResultEach'
    BY <2>1, <2>2
  <2>6. QED BY <2>3, <2>4, <2>5
<1>9. ASSUME NEW s \in Servers, ShutdownCalled(s) \/ ShutdownReturns(s)
      PROVE  PublicBound' /\ BoundOrFailed' /\ OneResultEach'
  BY <1>9 DEF ShutdownCalled, ShutdownReturns
<1>10. ASSUME NEW s \in Servers, Accept(s) \/ Answer(s)
       PROVE  PublicBound' /\ BoundOrFailed' /\ OneResultEach'
  BY <1>10 DEF Accept, Answer
<1>11. CASE UNCHANGED vars
  BY <1>11 DEF vars
<1>12. QED
  BY <1>1, <1>2, <1>3, <1>4, <1>5, <1>6, <1>7, <1>8, <1>9, <1>10, <1>11
     DEF Next, RunStep, ServerStep

LEMMA ReasonsStep == IInv /\ [Next]_vars => AskedOrFailed' /\ StopIsLeft'
<1> SUFFICES ASSUME IInv, [Next]_vars PROVE AskedOrFailed' /\ StopIsLeft'
  OBVIOUS
<1> USE DEF IInv, TypeOK, AskedOrFailed, StopIsLeft, Starting, Open, Closed, MayStop,
            bounds, flow
<1>1. CASE ListenPublic \/ ListenInternal \/ CannotListen
  BY <1>1 DEF ListenPublic, ListenInternal, CannotListen, NothingYet
<1>2. CASE SetReady \/ Signal
  BY <1>2 DEF SetReady, Signal
<1>3. CASE Select
  <2>1. CASE signalled /\ UNCHANGED <<errCh, runErr>>
    BY <1>3, <2>1 DEF Select
  <2>2. CASE errCh # << >> /\ runErr' = Head(errCh) /\ errCh' = Tail(errCh)
    BY <1>3, <2>2, ReadIsHead DEF Select, Results, BoundOrFailed
  <2>3. QED BY <1>3, <2>1, <2>2 DEF Select
<1>4. CASE CloseGate \/ Join \/ Close \/ Return
  BY <1>4 DEF CloseGate, Join, Close, Return
<1>5. CASE Exit \/ Crash
  BY <1>5 DEF Exit, Crash, Gone
<1>6. ASSUME NEW s \in Servers, ServeStarts(s) \/ ServeReturns(s)
      PROVE  AskedOrFailed' /\ StopIsLeft'
  BY <1>6 DEF ServeStarts, ServeReturns, ToldAfterClosing
<1>7. ASSUME NEW s \in Servers, ServeFails(s)
      PROVE  AskedOrFailed' /\ StopIsLeft'
  BY <1>7 DEF ServeFails
<1>8. ASSUME NEW s \in Servers,
             ShutdownCalled(s) \/ ShutdownReturns(s) \/ Accept(s) \/ Answer(s)
      PROVE  AskedOrFailed' /\ StopIsLeft'
  BY <1>8 DEF ShutdownCalled, ShutdownReturns, Accept, Answer
<1>9. CASE UNCHANGED vars
  BY <1>9 DEF vars
<1>10. QED
  BY <1>1, <1>2, <1>3, <1>4, <1>5, <1>6, <1>7, <1>8, <1>9 DEF Next, RunStep, ServerStep

LEMMA Inductive == Spec => []IInv
<1>1. IInv /\ [Next]_vars => IInv'
  BY TypeStep, PlacesStep, DrainStep, ResultsStep, ReasonsStep DEF IInv
<1>2. QED
  BY InitIInv, <1>1, PTL DEF Spec

-----------------------------------------------------------------------------
(* What the runs check.                                                    *)

\* Type correctness; the channel of two results never has three (Run's errCh).
THEOREM TypeCorrect == Spec => []TypeOK
<1>1. IInv => TypeOK
  BY DEF IInv
<1>2. QED BY <1>1, Inductive, PTL

\* The flag is set only while both ports are bound, or one server has died
\* and Run has its error to read (Run sets ready after both listeners).
THEOREM ReadyIsBound == Spec => []ReadyMeansBound
<1>1. IInv => ReadyMeansBound
  BY DEF IInv, ReadyMeansBound, GateIsOpen, BoundOrFailed, Open
<1>2. QED BY <1>1, Inductive, PTL

\* Exit code 0 means asked to stop and nobody left unanswered (shutdown).
THEOREM ZeroIsClean == Spec => []CleanExit
<1>1. IInv => CleanExit
  BY DEF IInv, TypeOK, CleanExit, ExitCode, TimedOut, AskedOrFailed, ResultsAreIn,
         DrainIsOver, Closed
<1>2. QED BY <1>1, Inductive, PTL

\* Run returns with both ports free (its deferred Close calls).
THEOREM PortsAreFreed == Spec => []NoPortLeft
<1>1. IInv => NoPortLeft
  BY DEF IInv
<1>2. QED BY <1>1, Inductive, PTL

-----------------------------------------------------------------------------
(* Two servers go through the phases of one process.                       *)

Busy == UNION {work[s] : s \in Servers}

LEMMA BusyIsBoth == Busy = work["public"] \cup work["internal"]
BY DEF Busy, Servers

LEMMA PhasesInitialised == Init => Phases!PhaseInit
BY DEF Init, Phases!PhaseInit, Phase, All, Servers

LEMMA RunStepsArePhases ==
    ASSUME IInv, RunStep \/ CannotListen \/ Crash
    PROVE  [Phases!PhaseNext]_(Phases!phaseVars)
<1> USE DEF Phases!PhaseNext, Phases!Advance, Phase, Phases!phaseVars, IInv
<1>1. CASE ListenPublic \/ CannotListen \/ Select
  BY <1>1 DEF ListenPublic, CannotListen, Select, NothingYet, GateIsOpen, bounds
<1>2. CASE ListenInternal
  BY <1>2 DEF ListenInternal, Phases!Bind, bounds
<1>3. CASE SetReady
  BY <1>3 DEF SetReady, Phases!OpenGate, bounds
<1>4. CASE CloseGate
  <2>1. \E s \in Servers : ~inShutdown[s]
    BY <1>4 DEF CloseGate, ToldAfterClosing, Closed, Servers
  <2>2. Phase = "serving" /\ Phase' = "unready"
    BY <1>4, <2>1 DEF CloseGate
  <2>3. QED BY <1>4, <2>2 DEF CloseGate, Phases!ShutGate
<1>5. CASE Join
  BY <1>5 DEF Join, DrainIsOver, bounds
<1>6. CASE Close
  BY <1>6 DEF Close, Phases!Force, bounds
<1>7. CASE Return
  BY <1>7 DEF Return, ResultsAreIn, TimedOut, bounds
<1>8. CASE Exit
  <2>1. Busy' = {} /\ Phase' = "down" /\ accepting' = FALSE /\ stops' = stops
    BY <1>8, BusyIsBoth DEF Exit, Gone, All, Busy, Servers
  <2>2. CASE TimedOut
    BY <1>8, <2>1, <2>2 DEF Exit, Phases!Exit, Busy
  <2>3. CASE ~TimedOut
    <3>1. Busy = {}
      BY <1>8, <2>3, BusyIsBoth
         DEF Exit, TimedOut, ResultsAreIn, DrainIsOver, Closed, TypeOK, Servers
    <3>2. Phase = "draining" /\ accepting = FALSE
      BY <1>8, <2>3 DEF Exit, GateIsOpen, TypeOK
    <3>3. QED BY <2>1, <3>1, <3>2 DEF Phases!Stop, Busy
  <2>4. QED BY <2>2, <2>3
<1>9. CASE Crash
  <2>1. Busy' = {} /\ Phase' = "down" /\ accepting' = FALSE /\ stops' = stops + 1
    BY <1>9 DEF Crash, Gone, All, Busy, Servers
  <2>2. QED BY <2>1 DEF Phases!Kill, Busy
<1>10. QED
  BY <1>1, <1>2, <1>3, <1>4, <1>5, <1>6, <1>7, <1>8, <1>9 DEF RunStep

LEMMA ServerStepsArePhases ==
    ASSUME IInv, NEW s \in Servers, ServerStep(s) \/ ServeFails(s)
    PROVE  [Phases!PhaseNext]_(Phases!phaseVars)
<1> DEFINE Receiving == \E t \in Servers : ~inShutdown[t] \/ serve[t] = "serving"
<1>1. UNCHANGED <<run, accepting, work, stops>>
  BY DEF ServerStep, ServeStarts, ServeReturns, ServeFails, ShutdownCalled, ShutdownReturns,
         flow, bounds
<1>2. run = "returned" => TimedOut' = TimedOut
  BY DEF ServerStep, ServeStarts, ServeReturns, ServeFails, ShutdownCalled, ShutdownReturns, TimedOut
<1>3. run = "shutdown" /\ ~Receiving => ~Receiving'
  BY DEF ServerStep, ServeStarts, ServeReturns, ServeFails, ShutdownCalled, ShutdownReturns,
         IInv, TypeOK
<1>4. Phase' = Phase \/ (Phase = "unready" /\ Phase' = "draining")
  BY <1>1, <1>2, <1>3 DEF Phase
<1>5. QED
  BY <1>1, <1>4 DEF Phases!PhaseNext, Phases!ShutDoors, Phases!Advance, Phases!phaseVars

LEMMA RequestsArePhases ==
    ASSUME IInv, NEW s \in Servers, Accept(s) \/ Answer(s)
    PROVE  [Phases!PhaseNext]_(Phases!phaseVars)
<1>1. /\ Phase' = Phase /\ UNCHANGED <<accepting, stops>>
  BY DEF Accept, Answer, Phase, flow, bounds, TimedOut
<1>2. ASSUME Accept(s)
      PROVE  \E r \in Requests : Phases!Arrive(r)
  <2>1. PICK r \in Requests \ used : work' = [work EXCEPT ![s] = @ \cup {r}]
    BY <1>2 DEF Accept
  <2>2. r \notin Busy /\ Busy' = Busy \cup {r}
    BY <2>1, BusyIsBoth DEF IInv, TypeOK, Busy, Servers
  <2>3. Phase \in {"listening", "serving", "unready"}
    <3>1. serve[s] = "serving"
      BY <1>2 DEF Accept
    <3>2. run \in {"both_bound", "select", "stopping", "shutdown"}
      BY <3>1 DEF IInv, TypeOK, NothingYet, Starting, ResultsAreIn, DrainIsOver, Closed, All
    <3>3. QED BY <3>1, <3>2 DEF Phase
  <2>4. QED BY <1>1, <2>2, <2>3 DEF Phases!Arrive, Busy
<1>3. ASSUME Answer(s)
      PROVE  \E r \in Requests : Phases!Leave(r)
  <2>1. PICK r \in work[s] : work' = [work EXCEPT ![s] = @ \ {r}]
    BY <1>3 DEF Answer
  <2>2. r \in Requests /\ r \in Busy /\ Busy' = Busy \ {r}
    BY <2>1 DEF IInv, TypeOK, WorkIsApart, Busy, Servers
  <2>3. QED BY <1>1, <2>2 DEF Phases!Leave, Busy
<1>4. QED BY <1>2, <1>3 DEF Phases!PhaseNext

LEMMA StepIsPhase == IInv /\ [Next]_vars => [Phases!PhaseNext]_(Phases!phaseVars)
<1> SUFFICES ASSUME IInv, [Next]_vars
             PROVE  [Phases!PhaseNext]_(Phases!phaseVars)
  OBVIOUS
<1>1. ASSUME Signal \/ UNCHANGED vars
      PROVE  UNCHANGED Phases!phaseVars
  BY <1>1 DEF Signal, vars, bounds, Phases!phaseVars, Phase, TimedOut
<1>2. QED
  BY <1>1, RunStepsArePhases, ServerStepsArePhases, RequestsArePhases DEF Next

\* Two servers with their goroutines and their deadline amount to one gate
\* and one drain (Servers.Run against the phases of the process).
THEOREM PhasesKept == Spec => ImplementsPhases
<1>1. QED
  BY PhasesInitialised, StepIsPhase, Inductive, PTL
  DEF Spec, ImplementsPhases, Phases!PhaseSpec

-----------------------------------------------------------------------------
(* The inductive invariant of ApiStartup.                                  *)

\* A process that has got past Load has a configuration Load accepts.
Loaded ==
    pc # "down" =>
        /\ Validate(cfg) /\ File \in Files
        /\ \A k \in NumberSettings : cfg[k] \in Int

Migrated ==
    /\ pc \notin {"down", "open"} => database
    /\ pc \in {"build", "listen_public", "listen_internal", "serving"} => schema[File] = Whole

PortsBound ==
    /\ pc \notin {"listen_internal", "serving"} => bound = {}
    /\ pc = "listen_internal" => bound = {Socket[cfg["public_addr"]]}
    /\ pc = "serving" =>
         /\ Socket[cfg["public_addr"]] # Socket[cfg["internal_addr"]]
         /\ bound = {Socket[cfg["public_addr"]], Socket[cfg["internal_addr"]]}

StartIInv == StartupTypeOK /\ Loaded /\ Migrated /\ PortsBound /\ NoConstructorRefuses

-----------------------------------------------------------------------------
LEMMA DefaultNumbers == \A k \in NumberSettings : Default[k] \in Int
BY DEF Default, NumberSettings, TextSettings

\* What Load makes of an environment it accepts.
LEMMA LoadsAreSound ==
    ASSUME NEW e \in Environments, Loads(e)
    PROVE  /\ Validate(Settings(e)) /\ Settings(e)["database_path"] \in Files
           /\ Settings(e) \in Configurations
           /\ \A k \in NumberSettings : Settings(e)[k] \in Int
<1>1. \A k \in NumberSettings : Settings(e)[k] \in Int
  <2> TAKE k \in NumberSettings
  <2>1. e[k] \in Int \cup {Unset} /\ k \in DOMAIN Default
    BY EnvironmentsAssumption DEF Loads, Parses, Default
  <2>2. k # "log_level"
    BY DEF NumberSettings
  <2>3. Settings(e)[k] = FromEnv(e)[k]
    BY <2>1, <2>2 DEF Settings, FromEnv
  <2> QED BY <2>1, <2>3, DefaultNumbers DEF FromEnv
<1> QED BY <1>1 DEF Loads, Files, Configurations

\* The constructors check nothing that Validate has not checked.
LEMMA ConstructorsAgree ==
    ASSUME NEW c, Validate(c) PROVE ConstructorsAccept(c)
BY DEF Validate, ConstructorsAccept, NumberSettings

\* A process that ends leaves nothing but the schema.
LEMMA EndKeeps ==
    ASSUME StartIInv, NEW reason \in {"configuration", "database", "port", "ended"},
           ExitBecauseOf(reason), faults' \in 0..MaxFaults
    PROVE  StartIInv'
BY DEF ExitBecauseOf, StartIInv, StartupTypeOK, Loaded, Migrated, PortsBound, NoConstructorRefuses

LEMMA StartInitInv ==
    StartupInit => StartIInv
<1> SUFFICES ASSUME StartupInit PROVE StartIInv
  OBVIOUS
<1>1. changes \in 0..MaxChanges /\ faults \in 0..MaxFaults
  <2>1. changes = 0 /\ faults = 0
    BY DEF StartupInit
  <2> QED BY <2>1, ChangesAssumption
<1>2. /\ pc = "down" /\ env \in Environments /\ cfg = Default
      /\ database = FALSE /\ bound = {} /\ refused = ""
      /\ schema = [f \in Files |-> {}]
  BY DEF StartupInit
<1>3. schema \in [Files -> SUBSET Whole]
  BY <1>2
<1>4. cfg \in Configurations
  BY <1>2 DEF Configurations
<1>5. StartupTypeOK
  BY <1>1, <1>2, <1>3, <1>4 DEF StartupTypeOK
<1>6. Loaded /\ Migrated /\ PortsBound /\ NoConstructorRefuses
  BY <1>2 DEF Loaded, Migrated, PortsBound, NoConstructorRefuses
<1> QED BY <1>5, <1>6 DEF StartIInv

LEMMA StartStepInv ==
    StartIInv /\ [StartupNext]_startupVars => StartIInv'
<1> SUFFICES ASSUME StartIInv, [StartupNext]_startupVars PROVE StartIInv'
  OBVIOUS
<1> USE DEF StartIInv
<1>0. faults \in 0..MaxFaults /\ (Fault => faults' \in 0..MaxFaults)
  <2>1. faults \in 0..MaxFaults
    BY DEF StartupTypeOK
  <2> QED BY <2>1, ChangesAssumption DEF Fault
<1>1. CASE Change
  <2>1. /\ pc = "down" /\ changes < MaxChanges /\ env' \in Environments /\ changes' = changes + 1
        /\ UNCHANGED <<pc, cfg, database, schema, bound, refused, faults>>
    BY <1>1 DEF Change
  <2>2. changes' \in 0..MaxChanges
    <3>1. changes \in 0..MaxChanges
      BY DEF StartupTypeOK
    <3> QED BY <2>1, <3>1, ChangesAssumption
  <2>3. StartupTypeOK'
    BY <2>1, <2>2 DEF StartupTypeOK
  <2> QED BY <2>1, <2>3 DEF Loaded, Migrated, PortsBound, NoConstructorRefuses
<1>2. CASE Load
  <2>1. /\ pc = "down" /\ pc' = "open" /\ cfg' = Settings(env)
        /\ UNCHANGED <<env, database, schema, bound, refused, changes, faults>>
    BY <1>2 DEF Load
  <2>2. /\ Validate(cfg') /\ cfg'["database_path"] \in Files /\ cfg' \in Configurations
        /\ \A k \in NumberSettings : cfg'[k] \in Int
    <3>1. env \in Environments /\ Loads(env)
      BY <1>2 DEF Load, StartupTypeOK
    <3> QED BY <2>1, <3>1, LoadsAreSound
  <2>3. StartupTypeOK'
    BY <2>1, <2>2 DEF StartupTypeOK
  <2>4. Loaded'
    BY <2>2 DEF Loaded, File
  <2> QED BY <2>1, <2>3, <2>4 DEF Migrated, PortsBound, NoConstructorRefuses
<1>3. CASE CannotLoad
  BY <1>0, <1>3, EndKeeps DEF CannotLoad
<1>4. CASE OpenSQLite
  <2>1. /\ pc = "open" /\ pc' = "migrate" /\ database' = TRUE
        /\ UNCHANGED <<env, cfg, schema, bound, refused, changes, faults>>
    BY <1>4 DEF OpenSQLite
  <2>2. StartupTypeOK'
    BY <2>1 DEF StartupTypeOK
  <2>3. Loaded'
    BY <2>1 DEF Loaded, File
  <2> QED BY <2>1, <2>2, <2>3 DEF Migrated, PortsBound, NoConstructorRefuses
<1>5. CASE Migrate
  <2>1. pc = "migrate" /\ UNCHANGED <<env, cfg, database, bound, refused, changes, faults>>
    BY <1>5 DEF Migrate
  <2>2. CASE schema[File] = Whole
    <3>1. pc' = "build" /\ UNCHANGED schema
      BY <1>5, <2>2 DEF Migrate
    <3>2. StartupTypeOK'
      BY <2>1, <3>1 DEF StartupTypeOK
    <3>3. Loaded'
      BY <2>1, <3>1 DEF Loaded, File
    <3>4. Migrated'
      BY <2>1, <2>2, <3>1 DEF Migrated, File
    <3> QED BY <2>1, <3>1, <3>2, <3>3, <3>4 DEF PortsBound, NoConstructorRefuses
  <2>3. CASE schema[File] # Whole
    <3>1. PICK part \in Whole : schema' = [schema EXCEPT ![File] = @ \cup {part}]
      BY <1>5, <2>3 DEF Migrate
    <3>2. UNCHANGED pc
      BY <1>5, <2>3 DEF Migrate
    <3>3. schema' \in [Files -> SUBSET Whole]
      BY <3>1 DEF StartupTypeOK
    <3>4. StartupTypeOK'
      BY <2>1, <3>2, <3>3 DEF StartupTypeOK
    <3>5. Loaded'
      BY <2>1, <3>2 DEF Loaded, File
    <3> QED BY <2>1, <3>2, <3>4, <3>5 DEF Migrated, PortsBound, NoConstructorRefuses
  <2> QED BY <2>2, <2>3
<1>6. CASE DatabaseFails
  BY <1>0, <1>6, EndKeeps DEF DatabaseFails
<1>7. CASE Build
  <2>1. ConstructorsAccept(cfg)
    BY <1>7, ConstructorsAgree DEF Build, Loaded
  <2>2. /\ pc = "build" /\ pc' = "listen_public"
        /\ UNCHANGED <<env, cfg, database, schema, bound, refused, changes, faults>>
    BY <1>7, <2>1 DEF Build
  <2>3. StartupTypeOK'
    BY <2>2 DEF StartupTypeOK
  <2>4. Loaded' /\ Migrated'
    BY <2>2 DEF Loaded, Migrated, File
  <2> QED BY <2>2, <2>3, <2>4 DEF PortsBound, NoConstructorRefuses
<1>8. CASE BindPublic
  <2>1. /\ pc = "listen_public" /\ pc' = "listen_internal"
        /\ bound' = bound \cup {Socket[cfg["public_addr"]]}
        /\ UNCHANGED <<env, cfg, database, schema, refused, changes, faults>>
    BY <1>8 DEF BindPublic, Listens
  <2>2. StartupTypeOK'
    BY <2>1 DEF StartupTypeOK
  <2>3. Loaded' /\ Migrated'
    BY <2>1 DEF Loaded, Migrated, File
  <2> QED BY <2>1, <2>2, <2>3 DEF PortsBound, NoConstructorRefuses
<1>9. CASE BindInternal
  <2>1. CASE Socket[cfg["internal_addr"]] \in bound
    BY <1>0, <1>9, <2>1, EndKeeps DEF BindInternal
  <2>2. CASE Socket[cfg["internal_addr"]] \notin bound
    <3>1. /\ pc = "listen_internal" /\ pc' = "serving"
          /\ bound' = bound \cup {Socket[cfg["internal_addr"]]}
          /\ UNCHANGED <<env, cfg, database, schema, refused, changes, faults>>
      BY <1>9, <2>2 DEF BindInternal, Listens
    <3>2. StartupTypeOK'
      BY <3>1 DEF StartupTypeOK
    <3>3. Loaded' /\ Migrated'
      BY <3>1 DEF Loaded, Migrated, File
    <3> QED BY <2>2, <3>1, <3>2, <3>3 DEF PortsBound, NoConstructorRefuses
  <2> QED BY <2>1, <2>2
<1>10. CASE PortTaken
  BY <1>0, <1>10, EndKeeps DEF PortTaken
<1>11. CASE Ends
  BY <1>0, <1>11, EndKeeps DEF Ends
<1>12. CASE UNCHANGED startupVars
  BY <1>12 DEF startupVars, StartupTypeOK, Loaded, Migrated, PortsBound, NoConstructorRefuses, File
<1> QED BY <1>1, <1>2, <1>3, <1>4, <1>5, <1>6, <1>7, <1>8, <1>9, <1>10, <1>11, <1>12
        DEF StartupNext, Start

\* The invariant holds throughout (run of main.go and what it calls).
LEMMA StartInvariance ==
    StartupSpec => []StartIInv
BY StartInitInv, StartStepInv, PTL DEF StartupSpec

-----------------------------------------------------------------------------
(* Type correctness of the start (run of main.go): the configuration in    *)
(* use is the defaults or one that Load accepts.                           *)
THEOREM StartIsTypeCorrect ==
    StartupSpec => []StartupTypeOK
<1>1. StartIInv => StartupTypeOK
  BY DEF StartIInv
<1> QED BY <1>1, StartInvariance, PTL

(* Whatever the environment, no constructor of a service or handler ever   *)
(* refuses a limit that Load let through (config.go, Validate).            *)
THEOREM LoadCoversConstructors ==
    StartupSpec => []NoConstructorRefuses
<1>1. StartIInv => NoConstructorRefuses
  BY DEF StartIInv
<1> QED BY <1>1, StartInvariance, PTL

(* Requests are served only on the table with all its indexes, at          *)
(* whatever statement an earlier process was killed (migration.go).        *)
THEOREM MigratedBeforeServing ==
    StartupSpec => []ServesOnWholeSchema
<1>1. StartIInv => ServesOnWholeSchema
  BY DEF StartIInv, Migrated, ServesOnWholeSchema
<1> QED BY <1>1, StartInvariance, PTL

(* The limits that are served keep the assumptions the modules of the      *)
(* handlers make of them, and each server has a port of its own.           *)
THEOREM LimitsAreKept ==
    StartupSpec => []ServesWithinLimits
<1>1. StartIInv => ServesWithinLimits
  <2> SUFFICES ASSUME Loaded, PortsBound, pc = "serving" PROVE ServesWithinLimits
    BY DEF StartIInv, ServesWithinLimits
  <2>1. \A k \in NumberSettings : cfg[k] \in Int /\ cfg[k] > 0
    BY DEF Loaded, Validate
  <2>2. cfg["default_page_size"] <= cfg["max_page_size"]
    BY DEF Loaded, Validate
  <2>3. cfg["default_page_size"] \in 1..cfg["max_page_size"]
    BY <2>1, <2>2 DEF NumberSettings
  <2>4. cfg["max_ingest_batch_size"] > 0 /\ cfg["max_log_message_bytes"] > 0
    BY <2>1 DEF NumberSettings
  <2> QED BY <2>3, <2>4 DEF PortsBound, ServesWithinLimits
<1> QED BY <1>1, StartInvariance, PTL

=============================================================================
