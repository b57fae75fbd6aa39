-------------------------- MODULE EventPreparation --------------------------
(***************************************************************************)
(* internal/ingestion: how one external event becomes a storable log.      *)
(*                                                                         *)
(*   NormalizeEvent   validates the fields in a fixed order, trims and     *)
(*                    folds spellings, and moves the time to UTC;          *)
(*   ComputeEventID   derives the idempotency key from the result;         *)
(*   PrepareLog       runs the two and yields the row to store.            *)
(*                                                                         *)
(* Data is kept as far as the checks tell it apart.  A text is a word with *)
(* a spelling (surrounding blanks, letter case); a message is a word with  *)
(* its size in bytes and is never trimmed; a timestamp is an instant with  *)
(* the zone it is written in; raw JSON is a value with its white space.    *)
(* SHA-256 is taken to be injective: an event ID is its fingerprint input. *)
(***************************************************************************)
EXTENDS Integers, Sequences, FiniteSets

CONSTANTS
    Nil,              \* a nil pointer
    MaxMessageBytes   \* MAX_LOG_MESSAGE_BYTES

ASSUME MaxMessageBytesAssumption == MaxMessageBytes \in Nat \ {0}

-----------------------------------------------------------------------------
(* Texts.                                                                  *)

Text(word, padded, upper) == [word |-> word, padded |-> padded, upper |-> upper]
Plain(word) == Text(word, FALSE, FALSE)

TrimSpace(text) == [text EXCEPT !.padded = FALSE]
ToLower(text)   == [text EXCEPT !.upper = FALSE]
ToUpper(text)   == [text EXCEPT !.upper = TRUE]

IsEmpty(text) == text.word = "" /\ ~text.padded
IsBlank(text) == IsEmpty(TrimSpace(text))

\* optionalString: a blank text is a nil pointer, any other is trimmed.
optionalString(text) == IF IsBlank(text) THEN Nil ELSE TrimSpace(text)

KnownLevels == {Text(name, FALSE, TRUE) : name \in {"debug", "info", "warn", "error"}}

\* normalizeLevel: an unknown level is folded, never refused.
normalizeLevel(text) ==
    LET level == ToUpper(TrimSpace(text))
    IN  IF level \in KnownLevels THEN level ELSE Text("unknown", FALSE, TRUE)

\* normalizeRawEvent: absent and null are nil, JSON loses its white space.
normalizeRawEvent(raw) == IF raw.form = "json" THEN raw.value ELSE Nil

-----------------------------------------------------------------------------
(* NormalizeEvent.                                                         *)

ContainerSources == {Plain("stdout"), Plain("stderr")}
Sources == ContainerSources \cup {Plain("file")}

\* Seeded fault: the letter case of source is kept.
sourceAsWritten(input) == TrimSpace(input.source)

normalizedSource(input) == ToLower(TrimSpace(input.source))

\* The instant time.Time calls zero, 0001-01-01T00:00:00Z.
ZeroInstant == 0

\* The checks of NormalizeEvent in the order the code makes them: the first
\* that holds names the field of the ValidationError.
Checks(input) ==
    LET noSourceID == IsBlank(input.source_event_id)
        source     == normalizedSource(input)
    IN << [fails |-> IsBlank(input.container_name),            field |-> "container_name"],
          [fails |-> IsBlank(input.service),                   field |-> "service"],
          [fails |-> input.message.bytes = 0,                  field |-> "message"],
          [fails |-> input.message.bytes > MaxMessageBytes,    field |-> "message"],
          [fails |-> source \notin Sources,                    field |-> "source"],
          [fails |-> input.logged_at.form # "instant",         field |-> "logged_at"],
          [fails |-> input.log_offset # Nil /\ input.log_offset < 0,
                                                               field |-> "log_offset"],
          [fails |-> noSourceID /\ IsBlank(input.agent_id),    field |-> "agent_id"],
          [fails |-> noSourceID /\ IsBlank(input.log_path),    field |-> "log_path"],
          [fails |-> noSourceID /\ input.log_offset = Nil,     field |-> "log_offset"],
          [fails |-> /\ noSourceID
                     /\ source \in ContainerSources
                     /\ IsBlank(input.container_id),           field |-> "container_id"],
          [fails |-> input.raw_event.form = "broken",          field |-> "raw_event"] >>

\* The field of the ValidationError, Nil when there is none.
InvalidField(input) ==
    LET checks == Checks(input)
        failed == {i \in DOMAIN checks : checks[i].fails}
    IN  IF failed = {} THEN Nil
        ELSE checks[CHOOSE i \in failed : \A j \in failed : i <= j].field

NormalizedEvent(input) ==
    [ source_event_id |-> optionalString(input.source_event_id),
      agent_id        |-> TrimSpace(input.agent_id),
      container_name  |-> TrimSpace(input.container_name),
      container_id    |-> optionalString(input.container_id),
      service         |-> TrimSpace(input.service),
      level           |-> normalizeLevel(input.level),
      message         |-> input.message,
      source          |-> normalizedSource(input),
      log_path        |-> optionalString(input.log_path),
      log_offset      |-> input.log_offset,
      logged_at       |-> input.logged_at.instant,
      raw_event       |-> normalizeRawEvent(input.raw_event) ]

-----------------------------------------------------------------------------
(* ComputeEventID.                                                         *)

\* fingerprintInput fails with a plain error, not a ValidationError.  Behind
\* NormalizeEvent the only check of it still open is the one on LoggedAt;
\* the others are repeated here because the code repeats them.
fingerprintFails(event) ==
    IF event.source_event_id # Nil
    THEN IsEmpty(event.service) \/ IsEmpty(event.source_event_id)
    ELSE \/ IsEmpty(event.agent_id)
         \/ event.log_path = Nil
         \/ event.log_offset = Nil
         \/ event.log_offset < 0
         \/ event.source \notin Sources
         \/ event.source \in ContainerSources /\ event.container_id = Nil
         \/ event.logged_at = ZeroInstant
         \/ event.message.bytes = 0

\* Seeded fault: two lines of one file at the same instant share an ID.
fingerprintWithoutOffset(event) ==
    IF event.source_event_id # Nil
    THEN <<"v1", event.service, event.source_event_id>>
    ELSE <<"v1", event.agent_id, event.source, event.log_path, event.logged_at, event.message>>

\* fingerprintInput, and with an injective digest the event ID itself.
fingerprint(event) ==
    IF event.source_event_id # Nil
    THEN <<"v1", event.service, event.source_event_id>>
    ELSE <<"v1", event.agent_id,
                 IF event.container_id = Nil THEN Plain("") ELSE event.container_id,
                 event.source, event.log_path, event.log_offset,
                 event.logged_at, event.message>>

-----------------------------------------------------------------------------
(* PrepareLog: "stored" with the row's key and content, "rejected" with a  *)
(* ValidationError, or "error" with any other error.                       *)

PrepareLog(input) ==
    IF InvalidField(input) # Nil
    THEN [kind |-> "rejected", field |-> InvalidField(input)]
    ELSE LET event == NormalizedEvent(input)
         IN  IF fingerprintFails(event)
             THEN [kind |-> "error"]
             ELSE [kind |-> "stored", event_id |-> fingerprint(event), log |-> event]

=============================================================================
