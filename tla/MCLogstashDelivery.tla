------------------------- MODULE MCLogstashDelivery -------------------------
(***************************************************************************)
(* Small instance of LogstashDelivery: a file with two good lines, one the *)
(* API rejects, one that is no JSON and one with a field of another type;  *)
(* and a file with a line that is too large for a body.                    *)
(***************************************************************************)
EXTENDS LogstashDelivery

Base ==
    [ source_event_id |-> Plain("e1"), agent_id |-> Plain("fb"),
      container_name |-> Plain("web"), container_id |-> Plain("k1"),
      service |-> Plain("shop"), level |-> Plain("info"),
      message |-> [text |-> "m1", bytes |-> 1], source |-> Plain("stdout"),
      log_path |-> Plain("/a"), log_offset |-> 0,
      logged_at |-> [form |-> "instant", instant |-> 1, zone |-> 0],
      raw_event |-> [form |-> "absent"] ]

MCEvents == {"a", "b", "big", "bad", "broken"}

MCInput ==
    [ e \in MCEvents |->
        CASE e = "a"      -> Base
          [] e = "b"      -> [Base EXCEPT !.source_event_id = Plain(""), !.log_offset = 7]
          [] e = "big"    -> [Base EXCEPT !.source_event_id = Plain("e2")]
          [] e = "bad"    -> [Base EXCEPT !.message = [text |-> "", bytes |-> 0]]
          [] e = "broken" -> [Base EXCEPT !.source_event_id = Plain(""), !.logged_at.instant = ZeroInstant] ]

MCLines == MCEvents \cup {"text", "typed"}
MCShape == [l \in MCLines |-> CASE l = "text" -> "invalid_json" [] l = "typed" -> "bad_type" [] OTHER -> "event"]

\* The raw_event of big alone fills more than a body.
MCSize  == [l \in MCLines |-> IF l = "big" THEN 3 ELSE 1]

MCLogFiles == { <<"a", "typed", "bad", "text", "b">>, <<"a", "big", "bad">> }

\* A line without source_event_id whose logged_at is Go's zero time.
MCZeroTimeFiles == { <<"broken", "a">> }

=============================================================================
