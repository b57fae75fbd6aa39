----------------------------- MODULE MCLogQuery -----------------------------
(***************************************************************************)
(* Small instance of LogQuery: four events, two of them at the same time,  *)
(* one after the year 1000 and one with a level the platform does not      *)
(* know; a query that ends after the year 9999; and ints of four bits.     *)
(***************************************************************************)
EXTENDS LogQuery

CONSTANTS u, v

MCReaders == {u, v}

Symmetry == Permutations(MCReaders)

At(instant, zone) == [form |-> "instant", instant |-> instant, zone |-> zone]

Base ==
    [ source_event_id |-> Plain("e1"), agent_id |-> Plain("fb"),
      container_name |-> Plain("web"), container_id |-> Plain("k1"),
      service |-> Plain("shop"), level |-> Plain("info"),
      message |-> [text |-> "m1", bytes |-> 1], source |-> Plain("stdout"),
      log_path |-> Plain("/a"), log_offset |-> 0, logged_at |-> At(1, 0),
      raw_event |-> [form |-> "absent"] ]

MCEvents == {"a", "b", "c", "d", "aAgain"}

MCInput ==
    [ e \in MCEvents |->
        CASE e \in {"a", "aAgain"} -> Base
          [] e = "b" -> [Base EXCEPT !.source_event_id = Plain("e2"), !.level = Plain("fatal")]
          [] e = "c" -> [Base EXCEPT !.source_event_id = Plain("e3"), !.logged_at = At(2, 8)]
          [] e = "d" -> [Base EXCEPT !.source_event_id = Plain("e4"), !.logged_at = At(0, 0),
                                     !.service = Text("cart", TRUE, TRUE), !.level = Plain("")] ]

Everything == [ form |-> "query", page |-> Nil, page_size |-> Nil, walks |-> TRUE,
         container |-> Plain(""), service |-> Plain(""), level |-> Plain(""),
         start |-> Nil, end |-> Nil ]

Jump(q, n) == [q EXCEPT !.page = n, !.walks = FALSE]

MCQueries ==
    { Everything, [Everything EXCEPT !.page_size = 1], [Everything EXCEPT !.level = Plain("fatal")],
      [Everything EXCEPT !.service = Text("shop", TRUE, FALSE), !.page_size = 1],
      [Everything EXCEPT !.start = At(1, 0)], [Everything EXCEPT !.end = At(10, -1)],
      [Everything EXCEPT !.start = At(2, 0), !.end = At(1, 0)],
      [Everything EXCEPT !.page_size = 4], [Everything EXCEPT !.page_size = 0], [Everything EXCEPT !.form = "malformed"],
      Jump(Everything, 5), Jump(Everything, 0), Jump([Everything EXCEPT !.page_size = 3], 7), Jump([Everything EXCEPT !.page_size = 3], 3), Jump(Everything, 6) }

MCFirstInstant == -2

MCInitialEvents == <<"a", "b">>

=============================================================================
