----------------------------- MODULE AgentRunner -----------------------------
(***************************************************************************)
(* The agent loop: AgentRunner.chat and executeTool of                     *)
(* apps/agent/src/runner/agent.ts with the Converse client it calls.       *)
(*                                                                         *)
(* The runner keeps the conversation and replays it to a stateless model.  *)
(* Tools asked for in one message run in parallel and may end in any       *)
(* order, fail, or not exist.  Bedrock (external) refuses a conversation   *)
(* whose roles do not alternate or whose tool uses are not all answered by *)
(* the next message.  A tool use is its place in its message.              *)
(***************************************************************************)
EXTENDS Naturals, Sequences, SequencesExt

CONSTANTS
  Tools,       \* names resolveTools offers to the model
  OtherTool,   \* a name the model made up
  MaxTurns,    \* maxTurns: 12 by default
  MaxUses,     \* bound on the tool uses of one message
  Together,    \* bound: the tools it may ask for more than one of
  MaxChats     \* bound on the calls of chat on one runner

ASSUME AgentAssumption ==
  OtherTool \notin Tools /\ Together \subseteq Tools /\ MaxTurns \in Nat \ {0} /\ MaxUses \in Nat /\ MaxChats \in Nat

VARIABLES
  history,
  mode,       \* "idle", "asking" the model, "tools" running
  turn, results,
  chats, ended  \* calls of chat so far, and how the last one ended

vars == <<history, mode, turn, results, chats, ended>>

Prompt            == [role |-> "user", answers |-> <<>>]
Assistant(s, us)  == [role |-> "assistant", stop |-> s, uses |-> us]
ToolResults(as)   == [role |-> "user", answers |-> as]

Init ==
  /\ history = <<>> /\ mode = "idle" /\ turn = 0 /\ results = <<>>
  /\ chats = 0 /\ ended = "none"

Return(how) == mode' = "idle" /\ ended' = how

Chat ==
  /\ mode = "idle" /\ chats < MaxChats
  /\ chats' = chats + 1 /\ turn' = 1 /\ mode' = "asking"
  /\ history' = Append(history, Prompt)
  /\ UNCHANGED <<results, ended>>

------------------------------------------------------------------------------
(* Bedrock.                                                                 *)

Answered(uses, message) ==
  message.role = "user" /\ message.answers # <<>> /\ Len(message.answers) = Len(uses)
    /\ \A i \in DOMAIN uses : message.answers[i].use = i

\* What Converse accepts.
WellFormed(h) ==
  /\ h # <<>> /\ Last(h).role = "user"
  /\ \A i \in DOMAIN h : h[i].role = (IF i % 2 = 1 THEN "user" ELSE "assistant")
  /\ \A i \in DOMAIN h :
       h[i].role = "assistant" /\ h[i].uses # <<>> => Answered(h[i].uses, h[i + 1])

\* An answer cut off by the token limit may hold tool uses.
Replies ==
  { [stop |-> "tool_use", uses |-> us] : us \in SeqOf(Together \cup {OtherTool}, MaxUses) \cup SeqOf(Tools, 1) }
  \cup { [stop |-> "max_tokens", uses |-> us] : us \in SeqOf(Tools, 1) }
  \cup { [stop |-> "end_turn", uses |-> <<>>] }

------------------------------------------------------------------------------
(* chat.                                                                    *)

Finished(reply) == reply.stop # "tool_use" \/ reply.uses = <<>>

\* A name that is not in the list is answered at once.
Started(name) == IF name \in Tools THEN "running" ELSE "error"

Reply(reply) ==
  /\ mode = "asking" /\ WellFormed(history)
  /\ history' = Append(history, Assistant(reply.stop, reply.uses))
  /\ IF Finished(reply)
       THEN /\ Return(IF reply.uses = <<>> THEN "stop" ELSE "cut")
            /\ UNCHANGED results
       ELSE /\ mode' = "tools" /\ results' = [i \in DOMAIN reply.uses |-> Started(reply.uses[i])]
            /\ UNCHANGED ended
  /\ UNCHANGED <<turn, chats>>

\* The request is refused or fails; chat does not catch it.
Throw ==
  /\ mode = "asking" /\ Return("throw")
  /\ UNCHANGED <<history, turn, results, chats>>

\* executeTool turns an exception of the tool into an error result.
ToolReturns(i, how) ==
  /\ mode = "tools" /\ i \in DOMAIN results /\ results[i] = "running"
  /\ results' = [results EXCEPT ![i] = how]
  /\ UNCHANGED <<history, mode, turn, chats, ended>>

\* Mutant: only the tools that succeeded answer.
Successes ==
  LET all == [i \in DOMAIN results |-> [use |-> i, status |-> results[i]]]
  IN  SelectSeq(all, LAMBDA a : a.status = "success")

\* Promise.all keeps the order of the uses.
AllResults == [i \in DOMAIN results |-> [use |-> i, status |-> results[i]]]

TurnsLeft == turn < MaxTurns

\* Mutant: a tool that fails never resolves.
AllSucceeded == \A i \in DOMAIN results : results[i] = "success"

AllDone == \A i \in DOMAIN results : results[i] # "running"

Gather ==
  /\ mode = "tools" /\ AllDone
  /\ history' = Append(history, ToolResults(AllResults))
  /\ results' = <<>>
  /\ IF TurnsLeft THEN mode' = "asking" /\ turn' = turn + 1 /\ UNCHANGED ended
                        ELSE Return("cap") /\ UNCHANGED turn
  /\ UNCHANGED chats

------------------------------------------------------------------------------
(* Properties.                                                              *)

\* Until a chat is stopped by the cap, cut off or fails, every request is one the
\* model accepts: whatever order tools end in and whichever of them fail or do not
\* exist, each use is answered, in order, by the message that follows.
RequestsAreWellFormed ==
  mode = "asking" /\ ended \in {"none", "stop"} => WellFormed(history)
=============================================================================
