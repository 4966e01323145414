-------------------------- MODULE MCMessageExchange --------------------------
(***************************************************************************)
(* The exchange with what a server sends a newly started client: the types *)
(* it accepts, something to do, and a change of its mind.                  *)
(***************************************************************************)
EXTENDS MessageExchange

CONSTANTS resync, inventory

Accept(types) == [type |-> "accepted-types", types |-> types, op |-> NoOperation]

Operation(type, op) == [type |-> type, types |-> {}, op |-> op]

\* an operation for a plugin, a request to resynchronise, and accepted types
\* that shrink after messages of a type have been sent
Messages == <<Accept({resync, inventory}), Operation("activity", 1),
              Operation("resynchronize", 2), Accept({resync})>>
=============================================================================
