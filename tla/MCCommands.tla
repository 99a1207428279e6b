----------------------------- MODULE MCCommands -----------------------------
(* The commands given: each type of application_function, alone and for all *)
(* applications, and the options that change what it does.                  *)
EXTENDS Commands

Plain(type) ==
  [type |-> type, all |-> FALSE, force |-> FALSE, allow_disable |-> type = "STOP",
   ignore_disabled |-> FALSE, wait_for_child |-> TRUE]

MCRequests ==
  {Plain(t) : t \in {"ADD", "START", "STOP", "REMOVE", "STATUS"}}
    \cup {[Plain("RESTART") EXCEPT !.force = TRUE],
          [Plain("START") EXCEPT !.all = TRUE, !.allow_disable = TRUE],
          [Plain("STOP") EXCEPT !.all = TRUE, !.allow_disable = FALSE],
          [Plain("START") EXCEPT !.all = TRUE, !.allow_disable = TRUE,
                                   !.ignore_disabled = TRUE, !.wait_for_child = FALSE]}
=============================================================================
