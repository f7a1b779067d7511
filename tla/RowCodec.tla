------------------------------ MODULE RowCodec ------------------------------
(***************************************************************************)
(* RowCodec: a row is stored as its values with a separator between them.  *)
(***************************************************************************)
EXTENDS Integers, Sequences, Functions, Optional

CONSTANT FIELD_SEPARATOR \* the character \x1F

serialize(values) ==
    LET upTo[n \in 0..Len(values)] ==
          IF n = 0 THEN <<>>
          ELSE IF n = 1 THEN values[1]
          ELSE upTo[n - 1] \o <<FIELD_SEPARATOR>> \o values[n]
    IN  IF \E i \in DOMAIN values : FIELD_SEPARATOR \in Range(values[i])
        THEN nullopt
        ELSE Some(upTo[Len(values)])

\* The loop of deserialize: a separator begins a new value.
Fields(tuple) ==
    LET upTo[n \in 0..Len(tuple)] ==
          IF n = 0 THEN << <<>> >>
          ELSE LET fields == upTo[n - 1] IN
                 IF tuple[n] = FIELD_SEPARATOR
                 THEN Append(fields, <<>>)
                 ELSE [fields EXCEPT ![Len(fields)] = Append(@, tuple[n])]
    IN  upTo[Len(tuple)]

deserialize(tuple, expected_columns) ==
    LET values == IF expected_columns = 0 /\ tuple = <<>> THEN <<>> ELSE Fields(tuple)
    IN  IF Len(values) = expected_columns THEN Some(values) ELSE nullopt

=============================================================================
