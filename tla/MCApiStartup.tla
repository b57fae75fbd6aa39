--------------------------- MODULE MCApiStartup ---------------------------
(***************************************************************************)
(* Small instance of ApiStartup: the defaults, and environments that       *)
(* differ from them in one or two settings.                                *)
(***************************************************************************)
EXTENDS ApiStartup

Plain == [k \in TextSettings \cup NumberSettings |-> Unset]

MCEnvironments ==
    { Plain,
      [Plain EXCEPT !["internal_addr"] = "0.0.0.0:8080"],
      [Plain EXCEPT !["internal_addr"] = ":8080"],
      [Plain EXCEPT !["public_addr"] = ":8081", !["internal_addr"] = ":8080"],
      [Plain EXCEPT !["database_path"] = "/app/data/log-platform.db"],
      [Plain EXCEPT !["database_path"] = ""],
      [Plain EXCEPT !["log_level"] = "WARN"],
      [Plain EXCEPT !["log_level"] = "Verbose"],
      [Plain EXCEPT !["shutdown_timeout"] = Malformed],
      [Plain EXCEPT !["max_ingest_body_bytes"] = 0],
      [Plain EXCEPT !["default_page_size"] = 100],
      [Plain EXCEPT !["default_page_size"] = 101],
      [Plain EXCEPT !["max_page_size"] = 19],
      [Plain EXCEPT !["max_page_size"] = -1, !["default_page_size"] = -1] }

MCToLower ==
    [ level \in {"info", "warn", "WARN", "verbose", "Verbose"} |->
        CASE level = "WARN" -> "warn" [] level = "Verbose" -> "verbose" [] OTHER -> level ]

MCSocket == [a \in {":8080", "0.0.0.0:8080", ":8081"} |-> IF a = ":8081" THEN 8081 ELSE 8080]
=============================================================================
