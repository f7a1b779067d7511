------------------------------ MODULE Optional ------------------------------
(***************************************************************************)
(* std::optional: a value or nothing.                                      *)
(***************************************************************************)

nullopt == [has_value |-> FALSE]
Some(v) == [has_value |-> TRUE, value |-> v]

=============================================================================
