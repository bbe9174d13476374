---------------------------- MODULE MCCommandBus ----------------------------
(* An instance of CommandBus: a command and a retry of it under the same key. *)
EXTENDS CommandBus, TLC

CONSTANTS first, retry, key

MCCommands == {first, retry}
MCKeys     == {key}
MCKeyOf    == (first :> key) @@ (retry :> key)

=============================================================================
