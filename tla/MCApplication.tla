---------------------------- MODULE MCApplication ----------------------------
(* A channel and the MCP plugin.                                           *)
EXTENDS Application, TLC

MCOrder  == <<"telegram", "mcp">>
MCOffers == "telegram" :> {"subscription", "service"} @@ "mcp" :> {"entry"}
=============================================================================
