---------------------------- MODULE MCRespStream ----------------------------
(***************************************************************************)
(* RespStream with one key, a line end, and a value that begins like an    *)
(* array: every kind of answer, a name that only strip makes known, and    *)
(* one that no reply can name.                                             *)
(***************************************************************************)
EXTENDS RespStream

MCBytes ==
    Digits \cup {"*", "$", "+", "-", ":", "cr", "lf", "ff"}
           \cup {"PONG", "OK", "ERR", "arity", "protocol"}
           \cup {"P", "S", "G", "D", "E", "X"}

Key == <<"cr", "lf">>

MCBefore == Key :> <<>>

MCCommands ==
    { << <<"cr", "P">> >>,
      << SET, Key, <<"*", "1", "cr", "lf">> >>,
      << GET, Key >>,
      << DEL, Key >>,
      << EXISTS, <<>>, <<>> >>,
      << <<"X", "cr", "lf", "P">> >> }

=============================================================================
