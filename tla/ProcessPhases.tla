---------------------------- MODULE ProcessPhases ----------------------------
(***************************************************************************)
(* The life of the API process as the requests it serves see it, without   *)
(* listeners, goroutines, channels and timers.  It is common ground        *)
(* between two descriptions: ServerLifecycle, which has those, and         *)
(* IngestionApi, which has the handlers.  The gate is open in the serving  *)
(* phase only, the doors close after the gate, and a process that stops    *)
(* without force leaves nobody unanswered.                                 *)
(***************************************************************************)
EXTENDS Naturals

CONSTANT Clients      \* the requests made over time

VARIABLES
    phase,
    accepting,        \* the gate
    working,          \* the requests inside
    stops             \* how often the process was made to stop or was killed

phaseVars == <<phase, accepting, working, stops>>

PhaseInit == phase = "down" /\ accepting = FALSE /\ working = {} /\ stops = 0

Advance(from, to) == phase = from /\ phase' = to

Bind      == Advance("down", "listening") /\ UNCHANGED <<accepting, working, stops>>
OpenGate  == Advance("listening", "serving") /\ accepting' = TRUE /\ UNCHANGED <<working, stops>>
ShutGate  == Advance("serving", "unready") /\ accepting' = FALSE /\ stops' = stops + 1 /\ UNCHANGED working
ShutDoors == Advance("unready", "draining") /\ UNCHANGED <<accepting, working, stops>>
Force     == Advance("draining", "forced") /\ UNCHANGED <<accepting, working, stops>>

\* Stopping in order takes everyone to have left; being forced does not, and
\* neither does being killed, which is a stop of its own and may come while
\* the process is still starting.
Stop == Advance("draining", "down") /\ working = {} /\ UNCHANGED <<accepting, working, stops>>
Exit == Advance("forced", "down") /\ accepting' = FALSE /\ working' = {} /\ UNCHANGED stops
Kill == /\ phase' = "down" /\ accepting' = FALSE
        /\ working' = {} /\ stops' = stops + 1

Arrive(r) ==
    /\ phase \in {"listening", "serving", "unready"}
    /\ r \notin working /\ working' = working \cup {r}
    /\ UNCHANGED <<phase, accepting, stops>>

Leave(r) == r \in working /\ working' = working \ {r} /\ UNCHANGED <<phase, accepting, stops>>

PhaseNext ==
    \/ Bind \/ OpenGate \/ ShutGate \/ ShutDoors \/ Force \/ Stop \/ Exit \/ Kill
    \/ \E r \in Clients : Arrive(r) \/ Leave(r)

PhaseSpec == PhaseInit /\ [][PhaseNext]_phaseVars

=============================================================================
