--------------------------- MODULE MCIngestionApi ---------------------------
(***************************************************************************)
(* Small instance of IngestionApi.  Events a and b are different, aAgain   *)
(* is a re-delivery of a with other blanks and another level, and bad and  *)
(* broken are refused and failed by PrepareLog.                            *)
(***************************************************************************)
EXTENDS IngestionApi

CONSTANTS r1, r2

MCRequests == {r1, r2}

Base ==
    [ source_event_id |-> Plain("e1"), agent_id |-> Plain("fb"),
      container_name |-> Plain("web"), container_id |-> Plain("k1"),
      service |-> Plain("shop"), level |-> Plain("info"),
      message |-> [text |-> "m1", bytes |-> 1], source |-> Plain("stdout"),
      log_path |-> Plain("/a"), log_offset |-> 0,
      logged_at |-> [form |-> "instant", instant |-> 1, zone |-> 0],
      raw_event |-> [form |-> "absent"] ]

MCEvents == {"a", "aAgain", "b", "bad", "broken"}

MCInput ==
    [ e \in MCEvents |->
        CASE e = "a"      -> Base
          [] e = "aAgain" -> [Base EXCEPT !.service = Text("shop", TRUE, FALSE), !.level = Plain("error")]
          [] e = "b"      -> [Base EXCEPT !.source_event_id = Plain(""), !.log_offset = 7]
          [] e = "bad"    -> [Base EXCEPT !.message = [text |-> "", bytes |-> 0]]
          [] e = "broken" -> [Base EXCEPT !.source_event_id = Plain(""), !.logged_at.instant = ZeroInstant] ]

One(e)     == [endpoint |-> "one", form |-> "json", events |-> <<e>>]
Bulk(list) == [endpoint |-> "bulk", form |-> "json", events |-> list]

MCCalls ==
    { One("a"), One("bad"),
      Bulk(<<"a", "b">>), Bulk(<<"aAgain", "a">>), Bulk(<<"bad", "b">>), Bulk(<<"bad">>),
      Bulk(<<"broken", "a">>), Bulk(<< >>), Bulk(<<"a", "b", "a">>),
      [endpoint |-> "one", form |-> "oversized", events |-> << >>] }

=============================================================================
