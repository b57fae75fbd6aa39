---------------------------- MODULE LogProducer ----------------------------
(***************************************************************************)
(* cmd/log-producer: the loop that writes numbered events to stdout, to    *)
(* stderr and to the end of a file, under Docker's restart policy, and     *)
(* what the collection keeps of the lines: an event per source_event_id,   *)
(* the first one that comes.                                               *)
(*                                                                         *)
(* A start without PRODUCER_RUN_ID draws a new UUID: its run ID is the     *)
(* number of the start.  A start with it uses GivenID, as any other start  *)
(* with it does.                                                           *)
(***************************************************************************)
EXTENDS Naturals, SequencesExt

CONSTANTS
    Cycles,             \* PRODUCER_CYCLES; 0 runs until it is stopped
    StderrEvery,        \* stderrEveryCycles
    MaxRestarts,        \* the N of restart: on-failure:N
    MaxSequence,        \* bound: cycles of a run when Cycles = 0
    MaxStarts,          \* bound: starts by the operator
    MaxFaults           \* bound: failed writes, failed syncs and kills

ASSUME CyclesAssumption == Cycles \in Nat /\ MaxSequence \in Nat \ {0}
ASSUME StderrAssumption == StderrEvery \in Nat \ {0}
ASSUME BoundsAssumption == MaxRestarts \in Nat /\ MaxStarts \in Nat /\ MaxFaults \in Nat

VARIABLES
    pc,           \* "stdout", "stderr", "file", "wait" or "sync" in the loop;
                  \* "down", "done" (exit 0) or "failed" (any other exit)
    sequence,     \* of the cycle
    runID,        \* cfg.RunID
    cancelled,    \* ctx of signal.NotifyContext
    starts,       \* by the operator
    boots,        \* processes started, Docker's restarts included
    restarts,     \* by Docker since the operator's start
    out,          \* [stream -> lines that end with a newline]
    torn,         \* the file does not end with a newline
    faults,
    read,         \* [stream -> lines collected]
    stored        \* [source_event_id -> the process that wrote the event]

loop == <<pc, sequence, runID, cancelled>>
docker == <<starts, boots, restarts>>
collection == <<read, stored>>
vars == <<loop, docker, out, torn, faults, collection>>

Streams == {"stdout", "stderr", "file"}
GivenID == 0
Running == pc \in {"stdout", "stderr", "file", "wait", "sync"}

Init ==
    /\ pc = "down" /\ sequence = 0 /\ runID = GivenID /\ cancelled = FALSE
    /\ starts = 0 /\ boots = 0 /\ restarts = 0 /\ faults = 0
    /\ out = [s \in Streams |-> << >>] /\ torn = FALSE
    /\ read = [s \in Streams |-> 0] /\ stored = << >>

Fault == faults < MaxFaults /\ faults' = faults + 1

-----------------------------------------------------------------------------
(* Starting and ending.                                                    *)

\* Seeded fault: the UUID is made once for the container, not by the process.
LaunchOncePerContainer(given) ==
    /\ boots' = boots + 1
    /\ runID' = IF given THEN GivenID ELSE IF restarts' > 0 THEN runID ELSE boots + 1
    /\ pc' = "stdout" /\ sequence' = 1 /\ cancelled' = FALSE
    /\ UNCHANGED <<out, torn, faults, collection>>

\* loadConfig, then runProducer up to the loop: the file is opened for
\* appending, whatever its last byte is.  One that cannot be opened ends the
\* run as a first write that fails does.
Launch(given) ==
    /\ boots' = boots + 1
    /\ runID' = IF given THEN GivenID ELSE boots + 1
    /\ pc' = "stdout" /\ sequence' = 1 /\ cancelled' = FALSE
    /\ UNCHANGED <<out, torn, faults, collection>>

Up(given) ==
    /\ ~Running /\ starts < MaxStarts
    /\ pc = "failed" => restarts = MaxRestarts
    /\ starts' = starts + 1 /\ restarts' = 0
    /\ Launch(given)

\* Seeded fault: the policy is "always".
RestartAlways ==
    /\ pc \in {"failed", "done"}
    /\ restarts' = restarts + 1
    /\ Launch(runID = GivenID)
    /\ UNCHANGED starts

\* on-failure: the container has the environment it was made with.
Restart ==
    /\ pc = "failed" /\ restarts < MaxRestarts
    /\ restarts' = restarts + 1
    /\ Launch(runID = GivenID)
    /\ UNCHANGED starts

\* SIGINT or SIGTERM.
Cancel ==
    /\ Running /\ ~cancelled
    /\ cancelled' = TRUE
    /\ UNCHANGED <<pc, sequence, runID, docker, out, torn, faults, collection>>

Kill ==
    /\ Running /\ Fault
    /\ pc' = "failed"
    /\ UNCHANGED <<sequence, runID, cancelled, docker, out, torn, collection>>

-----------------------------------------------------------------------------
(* The loop.                                                               *)

ID(stream, n) == [run |-> runID, stream |-> stream, sequence |-> n]

\* newLogEvent: the line of an event, written by this process.
Event(stream, n) == [form |-> "event", id |-> ID(stream, n), boot |-> boots]

\* stderr has a sequence of its own.
Line(stream) ==
    Event(stream, IF stream = "stderr" THEN sequence \div StderrEvery ELSE sequence)

Emit(stream, line) == out' = [out EXCEPT ![stream] = Append(@, line)]

\* The first select of a cycle: a cancelled run ends before it writes.
BeginCycle ==
    /\ pc = "stdout" /\ cancelled
    /\ pc' = "sync"
    /\ UNCHANGED <<sequence, runID, cancelled, docker, out, torn, faults, collection>>

WriteStdout ==
    /\ pc = "stdout" /\ ~cancelled
    /\ Emit("stdout", Line("stdout"))
    /\ pc' = IF sequence % StderrEvery = 0 THEN "stderr" ELSE "file"
    /\ UNCHANGED <<sequence, runID, cancelled, docker, torn, faults, collection>>

WriteStderr ==
    /\ pc = "stderr"
    /\ Emit("stderr", Line("stderr"))
    /\ pc' = "file"
    /\ UNCHANGED <<sequence, runID, cancelled, docker, torn, faults, collection>>

\* A line that begins where a torn one stopped is one line with it.
WriteFile ==
    /\ pc = "file"
    /\ Emit("file", [Line("file") EXCEPT !.form = IF torn THEN "glued" ELSE @])
    /\ torn' = FALSE
    /\ pc' = IF Cycles > 0 /\ sequence >= Cycles THEN "sync" ELSE "wait"
    /\ UNCHANGED <<sequence, runID, cancelled, docker, faults, collection>>

\* Seeded fault: the run goes on after a write that failed.
WriteFailsAndGoesOn(part) ==
    /\ pc \in Streams /\ ~(pc = "stdout" /\ cancelled) /\ Fault
    /\ part => pc = "file"
    /\ torn' = (torn \/ part)
    /\ IF pc = "file"
       THEN pc' = "wait" /\ UNCHANGED out
       ELSE pc' = "failed" /\ Emit("stderr", [Line(pc) EXCEPT !.form = "text"])
    /\ UNCHANGED <<sequence, runID, cancelled, docker, collection>>

\* encodeEvent fails: the run ends, and main reports it on stderr.  part: the
\* file took the beginning of the line before the disk was full.
WriteFails(part) ==
    /\ pc \in Streams /\ ~(pc = "stdout" /\ cancelled) /\ Fault
    /\ part => pc = "file"
    /\ torn' = (torn \/ part)
    /\ Emit("stderr", [Line(pc) EXCEPT !.form = "text"])
    /\ pc' = "failed"
    /\ UNCHANGED <<sequence, runID, cancelled, docker, collection>>

\* The second select.  Either case may be taken when both are ready.
Wake ==
    /\ pc = "wait" /\ (Cycles = 0 => sequence < MaxSequence)
    /\ pc' = "stdout" /\ sequence' = sequence + 1
    /\ UNCHANGED <<runID, cancelled, docker, out, torn, faults, collection>>

WakeCancelled ==
    /\ pc = "wait" /\ cancelled
    /\ pc' = "sync"
    /\ UNCHANGED <<sequence, runID, cancelled, docker, out, torn, faults, collection>>

Sync ==
    /\ pc = "sync" /\ pc' = "done"
    /\ UNCHANGED <<sequence, runID, cancelled, docker, out, torn, faults, collection>>

SyncFails ==
    /\ pc = "sync" /\ Fault
    /\ Emit("stderr", [Line("file") EXCEPT !.form = "text"])
    /\ pc' = "failed"
    /\ UNCHANGED <<sequence, runID, cancelled, docker, torn, collection>>

-----------------------------------------------------------------------------
(* The collection, which LogstashDelivery and IngestionApi model: a line   *)
(* that is no event is dropped, and so is one whose ID is known.  The      *)
(* streams have IDs of their own: the order between them decides nothing,  *)
(* and one action reads what they all hold.                                *)

Unread(s) == SubSeq(out[s], read[s] + 1, Len(out[s]))
NewIDs == {l.id : l \in {k \in UNION {ToSet(Unread(s)) : s \in Streams} : k.form = "event"}}
BootsOf(id) == [i \in {j \in DOMAIN Unread(id.stream) :
                          /\ Unread(id.stream)[j].form = "event"
                          /\ Unread(id.stream)[j].id = id} |-> Unread(id.stream)[i].boot]

ReadAll ==
    /\ \E s \in Streams : read[s] < Len(out[s])
    /\ read' = [s \in Streams |-> Len(out[s])]
    /\ UNCHANGED <<loop, docker, out, torn, faults>>

Collect ==
    /\ ReadAll
    /\ stored' = [id \in DOMAIN stored \cup NewIDs |->
                    IF id \in DOMAIN stored THEN stored[id]
                    ELSE BootsOf(id)[Min(DOMAIN BootsOf(id))]]

-----------------------------------------------------------------------------
Cycle ==
    \/ BeginCycle \/ WriteStdout \/ WriteStderr \/ WriteFile
    \/ Wake \/ WakeCancelled \/ Sync

Next ==
    \/ \E given \in BOOLEAN : Up(given)
    \/ Restart
    \/ Cancel
    \/ Kill
    \/ Cycle
    \/ \E part \in BOOLEAN : WriteFails(part)
    \/ SyncFails
    \/ Collect

Spec == Init /\ [][Next]_vars

\* The process runs, Docker restarts it and Filebeat reads.
LiveSpec ==
    /\ Spec
    /\ WF_vars(Cycle) /\ WF_vars(Restart)
    /\ WF_vars(Collect)

-----------------------------------------------------------------------------
IDs == [run : 0..boots, stream : Streams, sequence : Nat]
LinesOf(s) == ToSet(out[s])
EventsOf(s) == {l \in LinesOf(s) : l.form = "event"}
Collected(s) == {out[s][i] : i \in 1..read[s]}

\* Type correctness.
TypeOK ==
    /\ pc \in {"stdout", "stderr", "file", "wait", "sync", "down", "done", "failed"}
    /\ sequence \in Nat /\ runID \in 0..boots /\ cancelled \in BOOLEAN
    /\ starts \in Nat /\ boots \in Nat /\ restarts \in 0..MaxRestarts
    /\ torn \in BOOLEAN /\ faults \in 0..MaxFaults
    /\ out \in [Streams -> Seq([form : {"event", "glued", "text"}, id : IDs, boot : 1..boots])]
    /\ read \in [Streams -> Nat] /\ \A s \in Streams : read[s] <= Len(out[s])
    /\ DOMAIN stored \subseteq IDs /\ \A id \in DOMAIN stored : stored[id] \in 1..boots

\* An event the collection has read and not kept was written by a start that
\* was given PRODUCER_RUN_ID, under an ID an earlier process with that run ID
\* had already used: a start without it never loses an event to the sequence
\* that begins at 1 again.
OnlyGivenIDsAreDropped ==
    \A s \in Streams : \A l \in Collected(s) :
        (l.form = "event" /\ stored[l.id] # l.boot) =>
            /\ l.id.run = GivenID
            /\ \E k \in EventsOf(s) : k.id = l.id /\ k.boot = stored[l.id] /\ k.boot < l.boot

\* What a run that ended after all its cycles has written under its run ID,
\* with the processes before it that used the same ID: every event of every
\* stream and no other one.  A write the disk cut short spoils, besides its
\* own event, at most the first file event of the next process, which is
\* glued to it.  These are the counts the acceptance runs expect.
CompletedRunIsComplete ==
    (pc = "done" /\ Cycles > 0 /\ ~cancelled) =>
        \A s \in Streams :
            LET wanted == 1..(IF s = "stderr" THEN Cycles \div StderrEvery ELSE Cycles)
                written == {l.id.sequence : l \in {k \in EventsOf(s) : k.id.run = runID}}
                glued   == {l.id.sequence : l \in {k \in LinesOf(s) : k.form = "glued"}}
            IN  written \subseteq wanted /\ wanted \ written \subseteq glued \cap {1}

\* FR-018: a run with a number of cycles comes to rest, completed, stopped
\* or given up by Docker, and by then the collection has every event it
\* wrote, under a run ID of its own as the event of the process that wrote it.
EverythingArrives ==
    <>[](/\ ~Running
         /\ \A s \in Streams : \A l \in EventsOf(s) :
                /\ l.id \in DOMAIN stored
                /\ l.id.run # GivenID => stored[l.id] = l.boot)

=============================================================================
