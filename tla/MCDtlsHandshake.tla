-------------------------- MODULE MCDtlsHandshake --------------------------
(***************************************************************************)
(* DtlsHandshake with three shapes of handshake: abbreviated with a cookie *)
(* exchange, full with a new ticket, and full with a limited number of     *)
(* retransmissions.  A ClientHello takes two fragments, so that half of    *)
(* one may be all that a server gets, a ServerHelloDone is an empty        *)
(* message and every other one takes one.                                  *)
(***************************************************************************)
EXTENDS DtlsHandshake
CONSTANTS Limit

MCPolicies ==
  { [resume |-> TRUE,  cookie |-> TRUE,  ticket |-> FALSE, limit |-> NoLimit],
    [resume |-> FALSE, cookie |-> FALSE, ticket |-> TRUE,  limit |-> NoLimit],
    [resume |-> FALSE, cookie |-> FALSE, ticket |-> FALSE, limit |-> Limit] }

MCMsgLength ==
  [t \in {"ClientHello", "HelloVerifyRequest", "ServerHello", "ServerKeyExchange", "ServerHelloDone",
          "ClientKeyExchange", "NewSessionTicket", "Finished"} |->
     CASE t = "ServerHelloDone" -> 0 [] t = "ClientHello" -> 2 [] OTHER -> 1]
=============================================================================
