------------------------ MODULE MCEventResubmission ------------------------
(***************************************************************************)
(* Small instance of EventResubmission: one event with a source_event_id,  *)
(* one container line and one file line without, and up to MaxEdits edits. *)
(***************************************************************************)
EXTENDS EventResubmission

At(instant, zone) == [form |-> "instant", instant |-> instant, zone |-> zone]

WithSourceID ==
    [ source_event_id |-> Plain("e1"), agent_id |-> Plain("fb"),
      container_name |-> Plain("web"), container_id |-> Plain("k1"),
      service |-> Plain("shop"), level |-> Plain("info"),
      message |-> [text |-> "m1", bytes |-> 1], source |-> Plain("stdout"),
      log_path |-> Plain("/a"), log_offset |-> 0, logged_at |-> At(1, 0),
      raw_event |-> [form |-> "absent"] ]

ContainerLine == [WithSourceID EXCEPT !.source_event_id = Plain("")]
FileLine      == [ContainerLine EXCEPT !.source = Plain("file"), !.container_id = Plain("")]

MCDeliveries == {WithSourceID, ContainerLine, FileLine}

MCSpellings ==
    [ source_event_id |-> {Plain("e1"), Text("e1", TRUE, FALSE), Text("e1", FALSE, TRUE), Text("", TRUE, FALSE)},
      agent_id        |-> {Plain("fb"), Text("fb", TRUE, FALSE), Plain("")},
      container_name  |-> {Plain("web"), Text("", TRUE, FALSE)},
      container_id    |-> {Plain("k1"), Text("k1", TRUE, FALSE), Text("", TRUE, FALSE), Plain("k2")},
      service         |-> {Plain("shop"), Text("shop", TRUE, FALSE), Plain("cart"), Plain("")},
      level           |-> {Plain("info"), Text("info", TRUE, TRUE), Plain("fatal")},
      source          |-> {Plain("stdout"), Text("stdout", TRUE, TRUE), Plain("file"), Plain("syslog")},
      log_path        |-> {Plain("/a"), Text("/a", TRUE, FALSE), Plain("")} ]

MCOffsets   == {Nil, -1, 0, 1}
MCTimes     == {At(1, 0), At(1, 8), At(2, 0), [form |-> "malformed", instant |-> 0, zone |-> 0]}
MCMessages  == {[text |-> "m1", bytes |-> 1], [text |-> "", bytes |-> 0],
                [text |-> "m2", bytes |-> 2], [text |-> "m3", bytes |-> 3]}
MCRawEvents == {[form |-> "absent"], [form |-> "null"],
                [form |-> "json", value |-> "{}", spaced |-> TRUE],
                [form |-> "json", value |-> "{}", spaced |-> FALSE]}

=============================================================================
