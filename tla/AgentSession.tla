---------------------------- MODULE AgentSession ----------------------------
(***************************************************************************)
(* The command `arena-agent chat` (cli/index.ts) around the runner: it     *)
(* attaches MCP servers (mcp-client.ts), lets the runner chat, and closes  *)
(* them.  The server "huggyarena" (mcp-server/) answers its tools from a   *)
(* data source (data/) that may fail; "playwright" is external.            *)
(*                                                                         *)
(* A market is its place in the database; of a tool's answer the markets   *)
(* it holds are kept.  A program may also run the runner without the       *)
(* command, as agent-runner.test.ts does, and chat more than once.         *)
(***************************************************************************)
EXTENDS AgentRunner, FiniteSets, FiniteSetsExt

CONSTANTS
  ServerOf, ToolOf,       \* of each name in Tools its server and the tool's own name
  Markets,                \* the markets there may be
  Batch,                  \* of each source, the markets one query reads: all, 500, 100
  DefaultLimit, GetLimit, \* 50, and 500 for appsync's getMarket
  MaxDeaths               \* bound on the servers that die

\* What appsync's getMarket asks for is not cut off by its own limit.
ASSUME SessionAssumption ==
  /\ Batch \in [{"mock", "subgraph", "appsync"} -> Nat]
  /\ DefaultLimit \in Nat /\ GetLimit \in Nat /\ MaxDeaths \in Nat
  /\ Batch["appsync"] <= GetLimit
  /\ IsFiniteSet(Markets) /\ Markets # {} /\ "none" \notin Markets

VARIABLES
  stage,    \* "huggyarena", "playwright": attaching it; "chat", "finally", "exited"; "library"
  failed,   \* an exception leaves the action of the command
  servers,  \* "none", "connected", "attached", "closed" or "gone"
  source,   \* the source of the server, "unknown" if the environment names none
  stored,   \* the markets of the source, in the order it lists them
  said,     \* what the tools of this turn answered
  listed,   \* the markets the model has been told of
  deaths

sessionVars == <<stage, failed, servers, source, stored, said, listed, deaths>>
allVars == <<vars, sessionVars>>

Ids == {"huggyarena", "playwright"}
Attached == {s \in Ids : servers[s] = "attached"}

SessionInit ==
  /\ Init /\ stage \in {"huggyarena", "library"}
  /\ failed = FALSE /\ said = <<>> /\ listed = {} /\ deaths = 0
  /\ source \in DOMAIN Batch \cup {"unknown"}
  /\ stage = "library" => source = "mock"
  /\ stored = IF source = "mock" THEN SetToSeq(Markets) ELSE <<CHOOSE m \in Markets : TRUE>>
  /\ servers = [s \in Ids |-> IF stage = "library" /\ s = "huggyarena" THEN "attached" ELSE "none"]

------------------------------------------------------------------------------
(* data/: a query that fails, for whatever reason, reads nothing.           *)

First(s, n) == SubSeq(s, 1, Min({n, Len(s)}))

Read(ok) == IF source = "mock" \/ ok THEN First(stored, Batch[source]) ELSE <<>>

\* Filtered before it is cut to the limit: a match is kept if fewer than that many
\* come before it.
ListMarkets(matching, limit, ok) ==
  LET read == Read(ok)
      Before(i) == {k \in 1 .. i - 1 : read[k] \in matching}
  IN  {read[j] : j \in {i \in DOMAIN read : read[i] \in matching /\ Cardinality(Before(i)) < limit}}

\* Mutant: appsync looks among as many markets as it lists.
GetAmongListed(id, ok) ==
  IF source = "appsync" THEN {id} \cap ListMarkets(Markets, DefaultLimit, ok)
  ELSE IF source = "mock" \/ ok THEN {id} \cap ToSet(stored) ELSE {}

\* appsync has no query for one market.
GetMarket(id, ok) ==
  IF source = "appsync" THEN {id} \cap ListMarkets(Markets, GetLimit, ok)
  ELSE IF source = "mock" \/ ok THEN {id} \cap ToSet(stored) ELSE {}

------------------------------------------------------------------------------
(* mcp-server/: the tools.  A missing id is an exception, turned into an    *)
(* error result; a failed query is not.  Of the answers of price_history,   *)
(* portfolio and describe_source nothing is kept.                           *)

NoId == "none"
Success(tool, id, ok, ms) == [status |-> "success", tool |-> tool, id |-> id, ok |-> ok, markets |-> ms]
Error(tool) == [status |-> "error", tool |-> tool, id |-> NoId, ok |-> FALSE, markets |-> {}]

Handler(tool, input, ok) ==
  CASE tool = "list_markets" ->
         Success(tool, NoId, TRUE, ListMarkets(input.matching, input.limit, ok))
    [] tool = "get_market" /\ input.id # NoId ->
         Success(tool, input.id, ok, GetMarket(input.id, ok))
    [] tool = "describe_source" \/ (tool \in {"price_history", "portfolio"} /\ input.id # NoId) ->
         Success(tool, NoId, TRUE, {})
    [] OTHER -> Error(tool)

Inputs == [id : Markets \cup {NoId}, matching : {Markets} \cup {{m} : m \in Markets},
           limit : {DefaultLimit, Cardinality(Markets)}]

Served(tool) == {Handler(tool, input, ok) : input \in Inputs, ok \in BOOLEAN}

\* callTool; a server that is gone is an exception, which executeTool catches.
Answers(name) ==
  LET tool == ToolOf[name]
  IN  IF servers[ServerOf[name]] # "attached" THEN {Error(tool)}
      ELSE IF ServerOf[name] = "huggyarena" THEN Served(tool)
      ELSE {Error(tool), Success(tool, NoId, TRUE, {})}

------------------------------------------------------------------------------
(* The runner, with the tools of the attached servers.                      *)

\* A test attaches a server with one tool.
Offered ==
  {name \in Tools : ServerOf[name] \in Attached
                     /\ (stage = "library" => ToolOf[name] = "list_markets")}

\* The command calls chat once.
StartChat ==
  /\ stage = "library" \/ (stage = "chat" /\ chats = 0)
  /\ Chat /\ UNCHANGED sessionVars

\* A tool of a server that is not attached is a name like any other.
ModelReplies(reply) ==
  /\ ToSet(reply.uses) \subseteq Offered \cup {OtherTool}
  /\ Reply(reply)
  /\ said' = [i \in DOMAIN results' |-> Error("none")]
  /\ UNCHANGED <<stage, failed, servers, source, stored, listed, deaths>>

ModelFails == Throw /\ UNCHANGED sessionVars

ToolAnswers(i) ==
  /\ mode = "tools" /\ i \in DOMAIN results
  /\ Last(history).uses[i] \in Tools
  /\ \E answer \in Answers(Last(history).uses[i]) :
       /\ ToolReturns(i, answer.status)
       /\ said' = [said EXCEPT ![i] = answer]
  /\ UNCHANGED <<stage, failed, servers, source, stored, listed, deaths>>

GatherResults ==
  /\ Gather
  /\ listed' = listed \cup UNION {said[i].markets : i \in DOMAIN said}
  /\ said' = <<>>
  /\ UNCHANGED <<stage, failed, servers, source, stored, deaths>>

------------------------------------------------------------------------------
(* The command.                                                             *)

Go(next) == stage' = next

\* --with-playwright.
AfterSelf == \E next \in {"playwright", "chat"} : Go(next)

\* A failure to attach ends the command, of playwright it does not.
AttachFails(s) ==
  IF s = "huggyarena" THEN Go("finally") /\ failed' = TRUE ELSE Go("chat") /\ UNCHANGED failed

\* The server resolves its source first: an unknown one, or appsync without its
\* keys, ends it.
Connect(s) ==
  /\ stage = s /\ servers[s] = "none"
  /\ \/ /\ s = "huggyarena" => source # "unknown"
        /\ servers' = [servers EXCEPT ![s] = "connected"] /\ UNCHANGED <<stage, failed>>
     \/ servers' = [servers EXCEPT ![s] = "gone"] /\ AttachFails(s)
  /\ UNCHANGED <<vars, source, stored, said, listed, deaths>>

\* When the list fails nobody closes the client.
ListTools(s) ==
  /\ stage = s /\ servers[s] # "none"
  /\ \/ /\ servers[s] = "connected" /\ servers' = [servers EXCEPT ![s] = "attached"]
        /\ IF s = "huggyarena" THEN AfterSelf ELSE Go("chat")
        /\ UNCHANGED failed
     \/ AttachFails(s) /\ UNCHANGED servers
  /\ UNCHANGED <<vars, source, stored, said, listed, deaths>>

ChatIsOver ==
  /\ stage = "chat" /\ mode = "idle" /\ chats = 1
  /\ Go("finally") /\ failed' = (ended = "throw")
  /\ UNCHANGED <<vars, servers, source, stored, said, listed, deaths>>

\* Mutant: only the server of this package is closed.
SelfOnly == Attached \cap {"huggyarena"}

\* The servers that were attached: mcps.
ToClose == Attached

Close ==
  /\ stage = "finally"
  /\ \E s \in ToClose : servers' = [servers EXCEPT ![s] = "closed"]
  /\ UNCHANGED <<vars, stage, failed, source, stored, said, listed, deaths>>

\* process.exit(1) after an exception; else the process ends when no child is left.
Exit ==
  /\ stage = "finally" /\ ToClose = {}
  /\ failed \/ \A s \in Ids : servers[s] \in {"none", "closed", "gone"}
  /\ Go("exited")
  /\ UNCHANGED <<vars, failed, servers, source, stored, said, listed, deaths>>

------------------------------------------------------------------------------
(* The environment.                                                         *)

ServerDies(s) ==
  /\ deaths < MaxDeaths /\ deaths' = deaths + 1 /\ stage # "exited"
  /\ servers[s] \in {"connected", "attached"} /\ servers' = [servers EXCEPT ![s] = "gone"]
  /\ UNCHANGED <<vars, stage, failed, source, stored, said, listed>>

\* Bound: markets are added while tools run.
AddMarket(m) ==
  /\ source # "mock" /\ m \notin ToSet(stored) /\ mode = "tools"
  /\ \E i \in 1 .. Len(stored) + 1 : stored' = InsertAt(stored, i, m)
  /\ UNCHANGED <<vars, stage, failed, servers, source, said, listed, deaths>>

\* Every request gets an answer or an error.
Progress ==
  \/ StartChat \/ ModelFails \/ GatherResults
  \/ \E reply \in Replies : ModelReplies(reply)
  \/ \E i \in 1 .. MaxUses : ToolAnswers(i)
  \/ \E s \in Ids : Connect(s) \/ ListTools(s)
  \/ ChatIsOver \/ Close \/ Exit

SessionNext ==
  Progress \/ (\E s \in Ids : ServerDies(s)) \/ \E m \in Markets : AddMarket(m)

SessionSpec == SessionInit /\ [][SessionNext]_allVars /\ WF_allVars(Progress)

------------------------------------------------------------------------------
(* Properties.                                                              *)

\* Whichever source is behind the tools, a market that list_markets told the model
\* of is one get_market finds, unless the query fails or there are more markets
\* than the source reads at once.
ListedMarketsAreFound ==
  \A i \in DOMAIN said :
    /\ said[i].tool = "get_market" /\ said[i].ok /\ said[i].id \in listed
    /\ Len(stored) <= Batch[source]
    => said[i].id \in said[i].markets

\* The command ends, whichever server does not start or dies, whatever tools fail
\* and however the chat ends: with text, at the cap, or with an exception.  It hangs
\* only on a playwright server that started but did not list its tools: nobody
\* closes that one.
CommandExits ==
  stage = "huggyarena" ~>
    \/ stage = "exited"
    \/ stage = "finally" /\ servers["playwright"] = "connected"
=============================================================================
