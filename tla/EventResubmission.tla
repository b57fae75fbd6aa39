------------------------- MODULE EventResubmission -------------------------
(***************************************************************************)
(* The same source event reaches the API more than once, and not always in *)
(* the same dress: Filebeat and Logstash deliver at least once, a          *)
(* collector may be reconfigured between two deliveries, and a producer    *)
(* may write a field with other blanks, another letter case or another     *)
(* zone.  A behaviour starts from one delivery (`first') and edits it into *)
(* another one (`again'), one field at a time.  PrepareLog has to tell the *)
(* re-delivery from the new event.                                         *)
(***************************************************************************)
EXTENDS EventPreparation

CONSTANTS
    Deliveries,    \* the events a behaviour may start from
    Spellings,     \* [field -> set of texts] the values an edit may write
    Offsets,       \* log_offset values an edit may write
    Times,         \* logged_at values an edit may write
    Messages,      \* message values an edit may write
    RawEvents,     \* raw_event values an edit may write
    MaxEdits       \* bound: edits between the two deliveries

\* An empty word has no letter case.
Texts == {t \in [word : STRING, padded : BOOLEAN, upper : BOOLEAN] : t.word = "" => ~t.upper}

TextFields == {"source_event_id", "agent_id", "container_name", "container_id", "service",
               "level", "source", "log_path"}
Fields     == TextFields \cup {"message", "log_offset", "logged_at", "raw_event"}

\* What a client can submit.
Lines     == [text : STRING, bytes : Nat]
Moments   == [form : {"instant", "malformed"}, instant : Int, zone : Int]
RawValues == [form : {"absent", "null", "broken"}]
                 \cup [form : {"json"}, value : STRING, spaced : BOOLEAN]

Submissions ==
    [ source_event_id : Texts, agent_id : Texts, container_name : Texts, container_id : Texts,
      service : Texts, level : Texts, source : Texts, log_path : Texts, message : Lines,
      log_offset : Int \cup {Nil}, logged_at : Moments, raw_event : RawValues ]

ASSUME NilIsNoValue == Nil \notin Fields \cup Int \cup Texts
ASSUME DeliveriesAssumption == Deliveries \subseteq Submissions
ASSUME EditsAssumption ==
    /\ Spellings \in [TextFields -> SUBSET Texts]
    /\ Offsets \subseteq Int \cup {Nil} /\ Times \subseteq Moments
    /\ Messages \subseteq Lines /\ RawEvents \subseteq RawValues

VARIABLES first, again, edits

resubmissionVars == <<first, again, edits>>

ResubmissionInit ==
    /\ first \in Deliveries
    /\ again = first
    /\ edits = 0

Edit(field, value) ==
    /\ edits < MaxEdits
    /\ again[field] # value
    /\ again' = [again EXCEPT ![field] = value]
    /\ edits' = edits + 1
    /\ UNCHANGED first

EditText    == \E field \in DOMAIN Spellings : \E t \in Spellings[field] : Edit(field, t)
EditOffset  == \E n \in Offsets   : Edit("log_offset", n)
EditTime    == \E t \in Times     : Edit("logged_at", t)
EditMessage == \E m \in Messages  : Edit("message", m)
EditRaw     == \E r \in RawEvents : Edit("raw_event", r)

ResubmissionNext == EditText \/ EditOffset \/ EditTime \/ EditMessage \/ EditRaw

ResubmissionSpec == ResubmissionInit /\ [][ResubmissionNext]_resubmissionVars

-----------------------------------------------------------------------------
(* The reference: ADR-002's identity table, on the fields as submitted and *)
(* without going through the normalized event.                             *)

SameWord(s, t) == s.word = t.word /\ (s.word # "" => s.upper = t.upper)

SameSource(a, b) ==
    /\ SameWord(a.service, b.service)
    /\ SameWord(a.source_event_id, b.source_event_id)

SamePosition(a, b) ==
    /\ SameWord(a.agent_id, b.agent_id)
    /\ SameWord(a.container_id, b.container_id)
    /\ a.source.word = b.source.word
    /\ SameWord(a.log_path, b.log_path)
    /\ a.log_offset = b.log_offset
    /\ a.logged_at.instant = b.logged_at.instant
    /\ a.message = b.message

SameEvent(a, b) ==
    LET aHasID == a.source_event_id.word # ""
        bHasID == b.source_event_id.word # ""
    IN  /\ aHasID = bHasID
        /\ IF aHasID THEN SameSource(a, b) ELSE SamePosition(a, b)

BothStored == PrepareLog(first).kind = "stored" /\ PrepareLog(again).kind = "stored"

(* Two accepted deliveries get the same event_id exactly when they are the *)
(* same event of ADR-002: no two different events collapse into one row,   *)
(* and no respelled re-delivery gets a second one (event_id.go with        *)
(* normalize.go).                                                          *)
IdentityIsExact ==
    BothStored =>
        (PrepareLog(first).event_id = PrepareLog(again).event_id) = SameEvent(first, again)

(* An event refused for a field is refused in every spelling of it: a      *)
(* permanent rejection does not depend on blanks, case or zone, so a retry *)
(* that only respells is not accepted later (normalize.go's order of trim  *)
(* and test).                                                              *)
SpellingOnly(a, b) ==
    /\ \A field \in DOMAIN Spellings :
           IF field \in {"source", "level"} THEN a[field].word = b[field].word
                                            ELSE SameWord(a[field], b[field])
    /\ a.log_offset = b.log_offset /\ a.message = b.message
    /\ a.logged_at.form = b.logged_at.form
    /\ a.logged_at.instant = b.logged_at.instant
    /\ a.raw_event.form = b.raw_event.form
    /\ a.raw_event.form = "json" => a.raw_event.value = b.raw_event.value

SpellingNeverMatters == SpellingOnly(first, again) => PrepareLog(first) = PrepareLog(again)

=============================================================================
