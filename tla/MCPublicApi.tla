---------------------------- MODULE MCPublicApi ----------------------------
(***************************************************************************)
(* Small instance of PublicApi: three events that differ in service, level *)
(* and time; far, which is in the year 10000 in UTC, and past, which was   *)
(* submitted as one of the year 0000 and is before it in UTC.              *)
(***************************************************************************)
EXTENDS PublicApi

CONSTANT u

At(instant, zone) == [form |-> "instant", instant |-> instant, zone |-> zone]

Base ==
    [ source_event_id |-> Plain("e1"), agent_id |-> Plain("fb"),
      container_name |-> Plain("web"), container_id |-> Plain("k1"),
      service |-> Plain("shop"), level |-> Plain("info"),
      message |-> [text |-> "m1", bytes |-> 1], source |-> Plain("stdout"),
      log_path |-> Plain("/a"), log_offset |-> 0, logged_at |-> At(1, 0),
      raw_event |-> [form |-> "absent"] ]

MCEvents == {"a", "b", "c", "far", "past"}

MCInput ==
    [ e \in MCEvents |->
        CASE e = "a" -> Base
          [] e = "b" -> [Base EXCEPT !.source_event_id = Plain("e2"), !.level = Plain("fatal")]
          [] e = "c" -> [Base EXCEPT !.source_event_id = Plain("e3"), !.logged_at = At(2, 8),
                                     !.service = Text("cart", TRUE, TRUE)]
          [] e = "far" -> [Base EXCEPT !.source_event_id = Plain("e4"), !.level = Plain("fatal"),
                                       !.logged_at = At(10, -1)]
          [] e = "past" -> [Base EXCEPT !.source_event_id = Plain("e5"), !.logged_at = At(-3, 8)] ]

MCFirstInstant == -2

Everything == [ form |-> "query", page |-> Nil, page_size |-> Nil, walks |-> FALSE,
         container |-> Plain(""), service |-> Plain(""), level |-> Plain(""),
         start |-> Nil, end |-> Nil ]

Ask(route, q)  == [route |-> route, q |-> q, id |-> 0, given |-> Nil]
Detail(id)     == [route |-> "detail", q |-> Everything, id |-> id, given |-> "trace"]

Fatal == [Everything EXCEPT !.level = Plain("fatal")]
Early == [Everything EXCEPT !.end = At(1, 0), !.page_size = 1, !.page = 1]
Never == [Everything EXCEPT !.start = At(2, 0), !.end = At(1, 0)]

MCCalls ==
    { Ask("healthz", Everything), Ask("readyz", Everything),
      Ask("logs", Everything), Ask("logs", Early),
      Ask("levels", Fatal), Ask("services", Never), Detail(3) }

MCInitialEvents == <<"a", "b">>

=============================================================================
