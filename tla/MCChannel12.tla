---------------------------- MODULE MCChannel12 ----------------------------
(***************************************************************************)
(* Channel12 with four policies for the run that passes: renegotiation     *)
(* welcome at both ends; restart allowed and the client's renegotiation    *)
(* refused with a warning; all renegotiation refused with a warning, which *)
(* is the library's default; all renegotiation refused by closing.  Left   *)
(* out is a client that refuses with a warning while its server welcomes   *)
(* renegotiation: OneHandshake does not hold there, see the README.        *)
(***************************************************************************)
EXTENDS Channel12
CONSTANTS Limit

Welcome == [restart |-> FALSE, client_reneg |-> TRUE, server_reneg |-> TRUE, abort |-> FALSE, limit |-> Limit]

MCPolicies ==
  { Welcome,
    [Welcome EXCEPT !.restart = TRUE, !.client_reneg = FALSE],
    [Welcome EXCEPT !.client_reneg = FALSE, !.server_reneg = FALSE],
    [Welcome EXCEPT !.client_reneg = FALSE, !.server_reneg = FALSE, !.abort = TRUE] }

MCWelcome == {Welcome}

MCMsgLength ==
  [t \in {"ClientHello", "HelloVerifyRequest", "ServerHello", "ClientKeyExchange", "Finished", "HelloRequest"} |->
     IF t = "HelloRequest" THEN 0 ELSE 1]
=============================================================================
