--------------------------- MODULE MCAgentSession ---------------------------
(***************************************************************************)
(* Both servers have a tool of the same name, and the model makes one up.  *)
(* Two markets; appsync lists one of them by default and reads both.       *)
(***************************************************************************)
EXTENDS AgentSession, TLC

CONSTANTS list, get, portfolio_, search, m1, m2

MCServerOf == [n \in Tools |-> IF n = search THEN "playwright" ELSE "huggyarena"]
MCToolOf == (list :> "list_markets" @@ get :> "get_market"
             @@ portfolio_ :> "portfolio" @@ search :> "list_markets")
MCBatch == ("mock" :> 2 @@ "subgraph" :> 2 @@ "appsync" :> 2)
=============================================================================
