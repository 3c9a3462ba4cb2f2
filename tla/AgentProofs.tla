----------------------------- MODULE AgentProofs -----------------------------
(***************************************************************************)
(* What the model and Bedrock may rely on, for any tools, markets, limits  *)
(* and numbers of chats, whatever servers die: requests that Converse      *)
(* accepts, and a get_market that finds what list_markets told of.         *)
(***************************************************************************)
EXTENDS AgentSession, SequenceTheorems, FiniteSetTheorems, TLAPS

Names   == Tools \cup {OtherTool}
Outcome == {"running", "success", "error"}

Message ==
  [role : {"user"}, answers : Seq([use : Nat, status : Outcome])]
    \cup [role : {"assistant"}, stop : {"tool_use", "max_tokens", "end_turn"}, uses : Seq(Names)]

\* Roles alternate and every use that has a message after it is answered there.
Proper(h) ==
  /\ \A i \in 1 .. Len(h) : h[i].role = (IF i % 2 = 1 THEN "user" ELSE "assistant")
  /\ \A i \in 1 .. Len(h) - 1 :
       h[i].role = "assistant" /\ h[i].uses # <<>> => Answered(h[i].uses, h[i + 1])

\* A conversation that rests: nothing is left to answer.
Settled(h) == Proper(h) /\ (h # <<>> => Last(h).role = "assistant" /\ Last(h).uses = <<>>)

\* One that waits for the tools of its last message.
Waiting(h, rs) ==
  /\ Proper(h) /\ h # <<>>
  /\ Last(h).role = "assistant" /\ Last(h).uses # <<>> /\ Len(rs) = Len(Last(h).uses)

RunnerInv ==
  /\ history \in Seq(Message) /\ results \in Seq(Outcome)
  /\ mode \in {"idle", "asking", "tools"}
  /\ mode = "tools" => Waiting(history, results)
  /\ ended \in {"none", "stop"} =>
       /\ mode = "idle" => Settled(history)
       /\ mode = "asking" => WellFormed(history)

------------------------------------------------------------------------------
(* Conversations.                                                           *)

LEMMA LastTypes ==
  ASSUME NEW h \in Seq(Message), h # <<>>
  PROVE  Len(h) \in Nat \ {0} /\ Last(h) = h[Len(h)] /\ Last(h) \in Message
<1>1. Len(h) \in Nat \ {0}
  BY EmptySeq, LenProperties
<1> QED
  BY <1>1, ElementOfSeq DEF Last

\* A conversation is well formed when it is proper and the user spoke last.
LEMMA WellFormedProper ==
  ASSUME NEW h \in Seq(Message)
  PROVE  WellFormed(h) <=> Proper(h) /\ h # <<>> /\ Last(h).role = "user"
<1>1. CASE h = <<>>
  BY <1>1 DEF WellFormed
<1>2. CASE h # <<>>
  <2>1. /\ Len(h) \in Nat \ {0} /\ DOMAIN h = 1 .. Len(h) /\ Last(h) = h[Len(h)]
    BY <1>2, LastTypes, LenProperties
  <2>2. ASSUME Last(h).role = "user", NEW i \in 1 .. Len(h), h[i].role = "assistant"
        PROVE  i \in 1 .. Len(h) - 1
    BY <2>1, <2>2
  <2> QED
    BY <1>2, <2>1, <2>2 DEF WellFormed, Proper
<1> QED
  BY <1>1, <1>2

\* A message in turn, which answers the one before it, keeps a conversation proper.
LEMMA ProperAppend ==
  ASSUME NEW h \in Seq(Message), Proper(h), NEW m \in Message,
         m.role = (IF Len(h) % 2 = 0 THEN "user" ELSE "assistant"),
         h # <<>> /\ Last(h).role = "assistant" /\ Last(h).uses # <<>> =>
           Answered(Last(h).uses, m)
  PROVE  /\ Append(h, m) \in Seq(Message) /\ Append(h, m) # <<>>
         /\ Proper(Append(h, m)) /\ Last(Append(h, m)) = m
<1>1. PICK n \in Nat : n = Len(h)
  BY LenProperties
<1> DEFINE g == Append(h, m)
<1>2. /\ g \in Seq(Message) /\ g # <<>> /\ Len(g) = n + 1
      /\ \A i \in 1 .. n : g[i] = h[i]
      /\ g[n + 1] = m
  BY <1>1, AppendProperties
<1>3. Last(g) = m
  BY <1>2 DEF Last
<1> HIDE DEF g
<1>4. ASSUME NEW i \in 1 .. n + 1
      PROVE  g[i].role = (IF i % 2 = 1 THEN "user" ELSE "assistant")
  <2>1. CASE i \in 1 .. n
    BY <1>1, <1>2, <2>1 DEF Proper
  <2>2. CASE i = n + 1
    <3>1. (n + 1) % 2 = 1 <=> n % 2 = 0
      BY <1>1
    <3> QED
      BY <1>1, <1>2, <2>2, <3>1
  <2> QED
    BY <2>1, <2>2
<1>5. ASSUME NEW i \in 1 .. n, g[i].role = "assistant", g[i].uses # <<>>
      PROVE  Answered(g[i].uses, g[i + 1])
  <2>1. CASE i \in 1 .. n - 1
    BY <1>1, <1>2, <1>5, <2>1 DEF Proper
  <2>2. CASE i = n
    <3>1. h # <<>> /\ Last(h) = h[n]
      BY <1>1, <2>2, EmptySeq DEF Last
    <3> QED
      BY <1>1, <1>2, <1>5, <2>2, <3>1
  <2> QED
    BY <2>1, <2>2
<1>6. Proper(g)
  BY <1>2, <1>4, <1>5 DEF Proper
<1> QED
  BY <1>2, <1>3, <1>6 DEF g

\* Whose turn it is, by the length of the conversation.
LEMMA TurnByLength ==
  ASSUME NEW h \in Seq(Message), Proper(h), h # <<>>
  PROVE  Len(h) % 2 = 0 <=> Last(h).role = "assistant"
<1>1. Len(h) \in Nat \ {0} /\ Last(h) = h[Len(h)]
  BY LastTypes
<1>2. Len(h) % 2 \in {0, 1}
  BY <1>1
<1> QED
  BY <1>1, <1>2 DEF Proper

------------------------------------------------------------------------------
(* The runner.                                                              *)

LEMMA RunnerInit == Init => RunnerInv
BY EmptySeq DEF Init, RunnerInv, Settled, Proper, Message

LEMMA ChatStep == ASSUME RunnerInv, Chat PROVE RunnerInv'
<1>1. Prompt \in Message /\ Prompt.role = "user"
  BY EmptySeq DEF Prompt, Message
<1>2. history' \in Seq(Message) /\ mode' = "asking" /\ UNCHANGED <<results, ended>>
  BY <1>1, AppendProperties DEF Chat, RunnerInv
<1>3. ASSUME ended \in {"none", "stop"} PROVE WellFormed(history')
  <2>1. Settled(history) /\ history \in Seq(Message)
    BY <1>3 DEF RunnerInv, Chat
  <2>2. Len(history) % 2 = 0
    <3>1. CASE history = <<>>
      BY <3>1, EmptySeq
    <3>2. CASE history # <<>>
      BY <2>1, <3>2, TurnByLength DEF Settled
    <3> QED
      BY <3>1, <3>2
  <2> QED
    BY <1>1, <1>2, <2>1, <2>2, ProperAppend, WellFormedProper DEF Settled, Chat
<1> QED
  BY <1>2, <1>3 DEF RunnerInv

LEMMA ReplyTypes ==
  ASSUME NEW reply \in Replies
  PROVE  /\ reply.uses \in Seq(Names)
         /\ reply.stop \in {"tool_use", "max_tokens", "end_turn"}
<1>1. \A S, n : n \in Nat => SeqOf(S, n) \subseteq Seq(S)
  BY SeqDef DEF SeqOf
<1>2. SeqOf(Together \cup {OtherTool}, MaxUses) \subseteq Seq(Names)
  BY <1>1, AgentAssumption, SeqMonotonic DEF Names
<1>3. SeqOf(Tools, 1) \subseteq Seq(Names)
  BY <1>1, SeqMonotonic DEF Names
<1>4. <<>> \in Seq(Names)
  BY EmptySeq
<1>5. PICK us \in Seq(Names), s \in {"tool_use", "max_tokens", "end_turn"} :
        reply = [stop |-> s, uses |-> us]
  BY <1>2, <1>3, <1>4 DEF Replies
<1> QED
  BY <1>5

LEMMA ReplyStep == ASSUME RunnerInv, NEW reply \in Replies, Reply(reply) PROVE RunnerInv'
<1> DEFINE m == Assistant(reply.stop, reply.uses)
<1>1. m \in Message /\ m.role = "assistant" /\ m.uses = reply.uses /\ reply.uses \in Seq(Names)
  BY ReplyTypes DEF Assistant, Message
<1>2. history \in Seq(Message) /\ Proper(history) /\ history # <<>> /\ Last(history).role = "user"
  BY WellFormedProper DEF RunnerInv, Reply
<1>3. /\ history' \in Seq(Message) /\ Proper(history') /\ history' # <<>> /\ Last(history') = m
  <2>1. Len(history) % 2 # 0
    BY <1>2, TurnByLength
  <2> QED
    BY <1>1, <1>2, <2>1, ProperAppend DEF Reply
<1> HIDE DEF m
<1>4. CASE Finished(reply)
  <2>1. mode' = "idle" /\ UNCHANGED results /\ (ended' \in {"none", "stop"} => reply.uses = <<>>)
    BY <1>4 DEF Reply, Return
  <2> QED
    BY <1>1, <1>3, <2>1 DEF RunnerInv, Settled
<1>5. CASE ~Finished(reply)
  <2>1. /\ mode' = "tools" /\ reply.uses # <<>>
        /\ results' = [i \in DOMAIN reply.uses |-> Started(reply.uses[i])]
    BY <1>5 DEF Reply, Finished
  <2>2. results' \in Seq(Outcome) /\ Len(results') = Len(reply.uses)
    <3>1. DOMAIN reply.uses = 1 .. Len(reply.uses) /\ Len(reply.uses) \in Nat
      BY <1>1, LenProperties
    <3>2. \A i \in 1 .. Len(reply.uses) : Started(reply.uses[i]) \in Outcome
      BY DEF Started, Outcome
    <3> QED
      BY <2>1, <3>1, <3>2, IsASeq
  <2> QED
    BY <1>1, <1>3, <2>1, <2>2 DEF RunnerInv, Waiting
<1> QED
  BY <1>4, <1>5

LEMMA ToolStep ==
  ASSUME RunnerInv, NEW i, NEW how \in Outcome, ToolReturns(i, how)
  PROVE  RunnerInv'
<1>1. results \in Seq(Outcome) /\ i \in 1 .. Len(results)
  BY LenProperties DEF RunnerInv, ToolReturns
<1>2. results' \in Seq(Outcome) /\ Len(results') = Len(results)
  BY <1>1, ExceptSeq DEF ToolReturns
<1> QED
  BY <1>2 DEF RunnerInv, ToolReturns, Waiting

LEMMA GatherStep == ASSUME RunnerInv, Gather PROVE RunnerInv'
<1> DEFINE m == ToolResults(AllResults)
<1>1. /\ history \in Seq(Message) /\ results \in Seq(Outcome) /\ Waiting(history, results)
  BY DEF RunnerInv, Gather
<1>2. PICK n \in Nat : n = Len(results) /\ DOMAIN results = 1 .. n
  BY <1>1, LenProperties
<1>3. n # 0 /\ Last(history).uses \in Seq(Names) /\ Len(Last(history).uses) = n
        /\ DOMAIN Last(history).uses = 1 .. n
  <2>1. Last(history) \in Message
    BY <1>1, LastTypes DEF Waiting
  <2>2. Last(history).uses \in Seq(Names)
    BY <1>1, <2>1 DEF Waiting, Message
  <2> QED
    BY <1>1, <1>2, <2>2, EmptySeq, LenProperties DEF Waiting
<1>4. /\ AllResults \in Seq([use : Nat, status : Outcome]) /\ Len(AllResults) = n
      /\ \A i \in 1 .. n : AllResults[i].use = i
  <2>1. \A i \in 1 .. n : [use |-> i, status |-> results[i]] \in [use : Nat, status : Outcome]
    BY <1>1, <1>2, ElementOfSeq
  <2>2. AllResults = [i \in 1 .. n |-> [use |-> i, status |-> results[i]]]
    BY <1>2 DEF AllResults
  <2> QED
    BY <2>1, <2>2, IsASeq
<1>5. m \in Message /\ m.role = "user" /\ m.answers = AllResults
  BY <1>4 DEF ToolResults, Message
<1>6. Answered(Last(history).uses, m)
  BY <1>3, <1>4, <1>5, EmptySeq DEF Answered
<1>7. /\ history' \in Seq(Message) /\ WellFormed(history')
  <2>1. Len(history) % 2 = 0
    BY <1>1, TurnByLength DEF Waiting
  <2>2. history' \in Seq(Message) /\ history' # <<>> /\ Proper(history') /\ Last(history') = m
    BY <1>1, <1>5, <1>6, <2>1, ProperAppend DEF Gather, Waiting
  <2> QED
    BY <1>5, <2>2, WellFormedProper
<1>8. results' \in Seq(Outcome) /\ (mode' = "asking" \/ (mode' = "idle" /\ ended' = "cap"))
  <2>1. results' = <<>> /\ (mode' = "asking" \/ (mode' = "idle" /\ ended' = "cap"))
    BY DEF Gather, Return
  <2> QED
    BY <2>1, EmptySeq
<1> QED
  BY <1>7, <1>8 DEF RunnerInv

------------------------------------------------------------------------------
(* The data source.                                                         *)

SourceTypes ==
  /\ servers \in [Ids -> {"none", "connected", "attached", "closed", "gone"}]
  /\ source \in DOMAIN Batch \cup {"unknown"}
  /\ servers["huggyarena"] \in {"connected", "attached"} => source # "unknown"
  /\ stored \in Seq(Markets)
  /\ listed \subseteq ToSet(stored)

\* What get_market answers for a market the model was told of.
Finds(answer) ==
  answer.tool = "get_market" /\ answer.ok /\ answer.id \in listed /\ Len(stored) <= Batch[source]
    => answer.id \in answer.markets

\* The answers of a turn hold stored markets, and come from a source there is.
AnswersHold ==
  /\ said = [i \in DOMAIN said |-> said[i]]
  /\ \A i \in DOMAIN said :
       /\ said[i].markets \subseteq ToSet(stored)
       /\ said[i].tool = "get_market" /\ said[i].ok /\ said[i].id \in Markets => source # "unknown"
       /\ Finds(said[i])

SessionInv == RunnerInv /\ SourceTypes /\ AnswersHold

\* The first n elements of a sequence, or all of it.
LEMMA FirstElements ==
  ASSUME NEW S, NEW s \in Seq(S), NEW n \in Nat
  PROVE  /\ First(s, n) \in Seq(S) /\ ToSet(First(s, n)) \subseteq ToSet(s)
         /\ Len(First(s, n)) <= n
         /\ Len(s) <= n => First(s, n) = s
<1>1. PICK len \in Nat : len = Len(s) /\ DOMAIN s = 1 .. len
  BY LenProperties
<1>2. PICK k \in Nat : k \in {n, len} /\ k <= n /\ k <= len
  <2>1. CASE n <= len
    BY <1>1, <2>1
  <2>2. CASE ~(n <= len)
    BY <1>1, <2>2
  <2> QED
    BY <2>1, <2>2
<1>3. Min({n, len}) = k
  <2>1. \E x \in {n, len} : \A y \in {n, len} : x <= y
    BY <1>2
  <2>2. /\ Min({n, len}) \in {n, len}
        /\ \A y \in {n, len} : Min({n, len}) <= y
    BY <2>1 DEF Min
  <2>3. \A x \in {n, len} : x <= k => x = k
    BY <1>1, <1>2
  <2> QED
    BY <1>2, <2>2, <2>3
<1>4. First(s, n) = SubSeq(s, 1, k)
  BY <1>1, <1>3 DEF First
<1>5. 1 \in Int /\ k \in Int /\ \A i \in 1 .. k : i \in 1 .. len /\ s[i] \in S
  <2>1. \A i \in 1 .. k : i \in 1 .. len
    BY <1>1, <1>2
  <2> QED
    BY <1>1, <1>2, <2>1, ElementOfSeq
<1>6. /\ SubSeq(s, 1, k) \in Seq(S) /\ Len(SubSeq(s, 1, k)) = k
      /\ \A i \in 1 .. k : SubSeq(s, 1, k)[i] = s[i]
  <2>1. /\ SubSeq(s, 1, k) \in Seq(S) /\ Len(SubSeq(s, 1, k)) = IF 1 <= k THEN k - 1 + 1 ELSE 0
        /\ \A i \in 1 .. k - 1 + 1 : SubSeq(s, 1, k)[i] = s[1 + i - 1]
    BY <1>5, SubSeqProperties
  <2>2. k - 1 + 1 = k /\ (IF 1 <= k THEN k - 1 + 1 ELSE 0) = k /\ \A i \in 1 .. k : 1 + i - 1 = i
    BY <1>2
  <2> QED
    BY <2>1, <2>2
<1>7. DOMAIN SubSeq(s, 1, k) = 1 .. k
  BY <1>6, LenProperties
<1>8. ToSet(SubSeq(s, 1, k)) \subseteq ToSet(s)
  BY <1>1, <1>5, <1>6, <1>7 DEF ToSet
<1>9. len <= n => SubSeq(s, 1, k) = s
  <2>1. len <= n => k = len
    BY <1>1, <1>2
  <2> QED
    BY <1>1, <2>1, SubSeqFull
<1> QED
  BY <1>1, <1>2, <1>4, <1>6, <1>8, <1>9

LEMMA ReadsStored ==
  ASSUME stored \in Seq(Markets), source \in DOMAIN Batch, NEW ok \in BOOLEAN
  PROVE  /\ Read(ok) \in Seq(Markets) /\ ToSet(Read(ok)) \subseteq ToSet(stored)
         /\ Len(Read(ok)) <= Batch[source]
         /\ ok /\ Len(stored) <= Batch[source] => Read(ok) = stored
<1>1. Batch[source] \in Nat
  BY SessionAssumption
<1>2. <<>> \in Seq(Markets) /\ ToSet(<<>>) = {} /\ Len(<<>>) = 0
  BY EmptySeq DEF ToSet
<1> QED
  BY <1>1, <1>2, FirstElements DEF Read

\* A market that is read is listed if all that match fit the limit.
LEMMA ListedAreStored ==
  ASSUME stored \in Seq(Markets), source \in DOMAIN Batch, NEW ok \in BOOLEAN, NEW matching,
         NEW limit \in Nat
  PROVE  /\ ListMarkets(matching, limit, ok) \subseteq ToSet(stored)
         /\ Markets \subseteq matching /\ Batch[source] <= limit =>
              ListMarkets(matching, limit, ok) = ToSet(Read(ok))
<1> DEFINE read == Read(ok)
           Before(i) == {k \in 1 .. i - 1 : read[k] \in matching}
           kept == {i \in DOMAIN read : read[i] \in matching /\ Cardinality(Before(i)) < limit}
<1>1. /\ read \in Seq(Markets) /\ ToSet(read) \subseteq ToSet(stored)
      /\ Len(read) <= Batch[source]
  BY ReadsStored
<1>2. ListMarkets(matching, limit, ok) = {read[j] : j \in kept}
  BY DEF ListMarkets
<1>3. {read[j] : j \in kept} \subseteq ToSet(read)
  BY DEF ToSet
<1>4. ASSUME Markets \subseteq matching, Batch[source] <= limit PROVE kept = DOMAIN read
  <2>1. Len(read) \in Nat /\ DOMAIN read = 1 .. Len(read) /\ Batch[source] \in Nat
    BY <1>1, LenProperties, SessionAssumption
  <2>2. SUFFICES ASSUME NEW i \in 1 .. Len(read)
                 PROVE  read[i] \in matching /\ Cardinality(Before(i)) < limit
    BY <2>1
  <2>3. read[i] \in matching
    BY <1>1, <1>4, <2>2, ElementOfSeq
  <2>4. IsFiniteSet(1 .. i - 1) /\ Cardinality(1 .. i - 1) = i - 1
    <3>1. i - 1 \in Nat /\ 1 \in Int /\ i - 1 \in Int
      BY <2>1
    <3>2. IsFiniteSet(1 .. i - 1) /\ Cardinality(1 .. i - 1) = IF 1 > i - 1 THEN 0 ELSE i - 1 - 1 + 1
      BY <3>1, FS_Interval
    <3> QED
      BY <3>1, <3>2
  <2>5. Before(i) \in SUBSET (1 .. i - 1)
    OBVIOUS
  <2>6. Cardinality(Before(i)) <= i - 1 /\ Cardinality(Before(i)) \in Nat
    BY <2>4, <2>5, FS_Subset, FS_CardinalityType
  <2> HIDE DEF Before
  <2> QED
    BY <1>1, <1>4, <2>1, <2>3, <2>6
<1> HIDE DEF read, kept
<1>5. {read[j] : j \in DOMAIN read} = ToSet(read)
  BY DEF ToSet
<1> QED
  BY <1>1, <1>2, <1>3, <1>4, <1>5 DEF read

\* Every source finds a market it stores, if it reads all of them.
LEMMA GetFinds ==
  ASSUME stored \in Seq(Markets), source \in DOMAIN Batch, NEW ok \in BOOLEAN, NEW id
  PROVE  /\ GetMarket(id, ok) \subseteq ToSet(stored)
         /\ ok /\ id \in ToSet(stored) /\ Len(stored) <= Batch[source] => id \in GetMarket(id, ok)
<1>1. GetLimit \in Nat /\ Batch["appsync"] <= GetLimit
  BY SessionAssumption
<1>2. CASE source = "appsync"
  <2>1. /\ ListMarkets(Markets, GetLimit, ok) \subseteq ToSet(stored)
        /\ ListMarkets(Markets, GetLimit, ok) = ToSet(Read(ok))
    BY <1>1, <1>2, ListedAreStored
  <2>2. ok /\ Len(stored) <= Batch[source] => Read(ok) = stored
    BY ReadsStored
  <2> QED
    BY <1>2, <2>1, <2>2 DEF GetMarket
<1>3. CASE source # "appsync"
  BY <1>3 DEF GetMarket
<1> QED
  BY <1>2, <1>3

LEMMA StoresKept ==
  ASSUME stored \in Seq(Markets), NEW m \in Markets, NEW i \in 1 .. Len(stored) + 1,
         stored' = InsertAt(stored, i, m)
  PROVE  /\ stored' \in Seq(Markets) /\ ToSet(stored) \subseteq ToSet(stored')
         /\ Len(stored') = Len(stored) + 1
<1>1. PICK n \in Nat : n = Len(stored) /\ DOMAIN stored = 1 .. n
  BY LenProperties
<1> DEFINE a == SubSeq(stored, 1, i - 1)
           b == <<m>>
           c == SubSeq(stored, i, n)
<1>2. \A j \in 1 .. n : stored[j] \in Markets
  BY <1>1, ElementOfSeq
<1>3. /\ a \in Seq(Markets) /\ Len(a) = i - 1
      /\ \A j \in 1 .. i - 1 : a[j] = stored[j]
  BY <1>1, <1>2, SubSeqProperties
<1>4. /\ c \in Seq(Markets) /\ Len(c) = n - i + 1
      /\ \A j \in 1 .. n - i + 1 : c[j] = stored[i + j - 1]
  BY <1>1, <1>2, SubSeqProperties
<1>5. b \in Seq(Markets) /\ Len(b) = 1
  OBVIOUS
<1> DEFINE ab == a \o b
<1> HIDE DEF a, b, c
<1>6. /\ ab \in Seq(Markets) /\ Len(ab) = i
      /\ \A j \in 1 .. i - 1 : ab[j] = stored[j]
  <2>1. /\ ab \in Seq(Markets) /\ Len(ab) = Len(a) + Len(b)
        /\ \A j \in 1 .. Len(a) + Len(b) :
             ab[j] = IF j <= Len(a) THEN a[j] ELSE b[j - Len(a)]
    BY <1>3, <1>5, ConcatProperties
  <2> HIDE DEF ab
  <2> QED
    BY <1>1, <1>3, <1>5, <2>1
<1> DEFINE t == ab \o c
<1> HIDE DEF ab
<1>7. /\ t \in Seq(Markets) /\ Len(t) = n + 1
      /\ \A j \in 1 .. n + 1 : t[j] = IF j <= i THEN ab[j] ELSE c[j - i]
  <2>1. /\ t \in Seq(Markets) /\ Len(t) = Len(ab) + Len(c)
        /\ \A j \in 1 .. Len(ab) + Len(c) :
             t[j] = IF j <= Len(ab) THEN ab[j] ELSE c[j - Len(ab)]
    BY <1>4, <1>6, ConcatProperties
  <2> HIDE DEF t
  <2> QED
    BY <1>1, <1>4, <1>6, <2>1
<1>8. stored' = t
  BY <1>1 DEF InsertAt, ab, a, b, c
<1> HIDE DEF t
<1>9. ASSUME NEW j \in 1 .. n PROVE stored[j] \in ToSet(t)
  <2>1. DOMAIN t = 1 .. n + 1
    BY <1>1, <1>7, LenProperties
  <2>2. CASE j < i
    <3>1. j \in 1 .. n + 1 /\ j \in 1 .. i - 1 /\ j <= i
      BY <1>1, <2>2
    <3>2. t[j] = stored[j]
      BY <1>6, <1>7, <3>1
    <3> QED
      BY <2>1, <3>1, <3>2 DEF ToSet
  <2>3. CASE j >= i
    <3>1. /\ j + 1 \in 1 .. n + 1 /\ ~(j + 1 <= i)
          /\ j + 1 - i \in 1 .. n - i + 1 /\ i + (j + 1 - i) - 1 = j
      BY <1>1, <2>3
    <3>2. t[j + 1] = c[j + 1 - i] /\ c[j + 1 - i] = stored[i + (j + 1 - i) - 1]
      BY <1>4, <1>7, <3>1
    <3>3. t[j + 1] = stored[j]
      BY <3>1, <3>2
    <3> QED
      BY <2>1, <3>1, <3>3 DEF ToSet
  <2> QED
    BY <1>1, <2>2, <2>3
<1> QED
  BY <1>1, <1>7, <1>8, <1>9 DEF ToSet

------------------------------------------------------------------------------
(* The steps of a session.                                                  *)

LEMMA SessionInitInv == SessionInit => SessionInv
<1> SUFFICES ASSUME SessionInit PROVE SessionInv
  OBVIOUS
<1>1. RunnerInv
  BY RunnerInit DEF SessionInit
<1>2. stored \in Seq(Markets)
  <2>1. SetToSeq(Markets) \in Seq(Markets)
    <3>1. Cardinality(Markets) \in Nat /\ ExistsBijection(1 .. Cardinality(Markets), Markets)
      BY FS_CardinalityType, SessionAssumption
    <3>2. \E f \in [1 .. Cardinality(Markets) -> Markets] : IsInjective(f)
      BY <3>1 DEF ExistsBijection, Bijection, Injection, IsInjective
    <3>3. SetToSeq(Markets) \in [1 .. Cardinality(Markets) -> Markets]
      BY <3>2 DEF SetToSeq
    <3> QED
      BY <3>1, <3>3, SeqDef
  <2>2. <<CHOOSE m \in Markets : TRUE>> \in Seq(Markets)
    BY SessionAssumption
  <2> QED
    BY <2>1, <2>2 DEF SessionInit
<1>3. SourceTypes
  BY <1>2, SessionAssumption DEF SessionInit, SourceTypes, Ids
<1>4. AnswersHold
  BY DEF SessionInit, AnswersHold
<1> QED
  BY <1>1, <1>3, <1>4 DEF SessionInv

LEMMA RunnerUntouched == RunnerInv /\ UNCHANGED vars => RunnerInv'
BY DEF RunnerInv, vars, Waiting, Settled, Proper, WellFormed

LEMMA AnswersUntouched ==
  ASSUME AnswersHold, UNCHANGED <<said, source, stored, listed>>
  PROVE  AnswersHold'
BY DEF AnswersHold, Finds

\* Steps of the command and of the servers.
LEMMA CommandStep ==
  ASSUME SessionInv, UNCHANGED <<vars, source, stored, said, listed>>,
         \/ \E s \in Ids : Connect(s) \/ ListTools(s) \/ ServerDies(s)
         \/ ChatIsOver \/ Close \/ Exit
  PROVE  SessionInv'
<1>1. /\ servers' \in [Ids -> {"none", "connected", "attached", "closed", "gone"}]
      /\ servers'["huggyarena"] \in {"connected", "attached"} =>
           servers["huggyarena"] \in {"connected", "attached"} \/ source # "unknown"
  BY DEF Connect, ListTools, ServerDies, ChatIsOver, Close, Exit, SessionInv, SourceTypes, Ids,
     ToClose, Attached
<1> QED
  BY <1>1, RunnerUntouched, AnswersUntouched DEF SessionInv, SourceTypes

LEMMA AddStep ==
  ASSUME SessionInv, NEW m \in Markets, AddMarket(m)
  PROVE  SessionInv'
<1>1. PICK i \in 1 .. Len(stored) + 1 : stored' = InsertAt(stored, i, m)
  BY DEF AddMarket
<1>2. /\ stored' \in Seq(Markets) /\ ToSet(stored) \subseteq ToSet(stored')
      /\ Len(stored') = Len(stored) + 1 /\ Len(stored) \in Nat
  BY <1>1, StoresKept, LenProperties DEF SessionInv, SourceTypes
<1>3. UNCHANGED <<vars, servers, source, said, listed>>
  BY DEF AddMarket
<1>4. SourceTypes'
  BY <1>2, <1>3 DEF SessionInv, SourceTypes
<1>5. listed \subseteq Markets
  BY <1>2, ElementOfSeq, LenProperties DEF SessionInv, SourceTypes, ToSet
<1>6. ASSUME NEW j \in DOMAIN said PROVE Finds(said[j])'
  <2>1. SUFFICES ASSUME said[j].tool = "get_market", said[j].ok, said[j].id \in listed,
                        Len(stored) + 1 <= Batch[source]
                 PROVE  said[j].id \in said[j].markets
    BY <1>2, <1>3 DEF Finds
  <2>2. Batch[source] \in Nat
    BY <1>5, <2>1, SessionAssumption DEF SessionInv, SourceTypes, AnswersHold
  <2> QED
    BY <1>2, <2>1, <2>2 DEF SessionInv, AnswersHold, Finds
<1>7. AnswersHold'
  BY <1>2, <1>3, <1>6 DEF SessionInv, AnswersHold
<1> QED
  BY <1>3, <1>4, <1>7, RunnerUntouched DEF SessionInv

\* What a tool may answer.
LEMMA AnswerTypes ==
  ASSUME SessionInv, NEW name \in Tools, NEW answer \in Answers(name)
  PROVE  /\ answer.status \in Outcome /\ answer.markets \subseteq ToSet(stored)
         /\ answer.tool = "get_market" /\ answer.ok /\ answer.id \in Markets => source # "unknown"
         /\ Finds(answer)
<1>1. listed \subseteq Markets
  BY ElementOfSeq, LenProperties DEF SessionInv, SourceTypes, ToSet
<1>2. ASSUME NEW tool, answer = Error(tool) \/ answer = Success(tool, NoId, TRUE, {})
      PROVE  /\ answer.status \in Outcome /\ answer.markets = {}
             /\ ~answer.ok \/ answer.id \notin Markets
  BY <1>2, SessionAssumption DEF Error, Success, NoId, Outcome
<1>3. CASE \E tool : answer = Error(tool) \/ answer = Success(tool, NoId, TRUE, {})
  BY <1>1, <1>2, <1>3 DEF Finds
<1>4. CASE ~\E tool : answer = Error(tool) \/ answer = Success(tool, NoId, TRUE, {})
  <2> DEFINE tool == ToolOf[name]
  <2>1. /\ servers[ServerOf[name]] = "attached" /\ ServerOf[name] = "huggyarena"
        /\ \E input \in Inputs, ok \in BOOLEAN : answer = Handler(tool, input, ok)
    <3>1. answer # Error(tool) /\ answer # Success(tool, NoId, TRUE, {})
      BY <1>4
    <3>2. /\ servers[ServerOf[name]] = "attached" /\ ServerOf[name] = "huggyarena"
          /\ answer \in Served(tool)
      BY <3>1 DEF Answers
    <3>3. answer \in {Handler(tool, input, ok) : input \in Inputs, ok \in BOOLEAN}
      BY <3>2 DEF Served
    <3> HIDE DEF tool
    <3> QED
      BY <3>2, <3>3, SMT
  <2> HIDE DEF tool
  <2>2. source \in DOMAIN Batch /\ stored \in Seq(Markets) /\ listed \subseteq ToSet(stored)
    BY <2>1 DEF SessionInv, SourceTypes
  <2>3. PICK input \in Inputs, ok \in BOOLEAN : answer = Handler(tool, input, ok)
    BY <2>1
  <2>4. CASE answer = Success(tool, NoId, TRUE, ListMarkets(input.matching, input.limit, ok))
    <3>1. input.limit \in Nat
      BY SessionAssumption, FS_CardinalityType DEF Inputs
    <3>2. ListMarkets(input.matching, input.limit, ok) \subseteq ToSet(stored)
      BY <2>2, <3>1, ListedAreStored
    <3>3. NoId \notin Markets
      BY SessionAssumption DEF NoId
    <3> QED
      BY <1>1, <2>4, <3>2, <3>3 DEF Success, Outcome, Finds
  <2>5. CASE answer = Success(tool, input.id, ok, GetMarket(input.id, ok))
    <3>1. /\ GetMarket(input.id, ok) \subseteq ToSet(stored)
          /\ ok /\ input.id \in ToSet(stored) /\ Len(stored) <= Batch[source] =>
               input.id \in GetMarket(input.id, ok)
      BY <2>2, GetFinds
    <3>2. /\ answer.status \in Outcome /\ answer.ok = ok /\ answer.id = input.id
          /\ answer.markets = GetMarket(input.id, ok)
      BY <2>5 DEF Success, Outcome
    <3> QED
      BY <2>2, <3>1, <3>2, SessionAssumption DEF Finds
  <2> QED
    BY <1>4, <2>3, <2>4, <2>5 DEF Handler
<1> QED
  BY <1>3, <1>4

LEMMA ToolAnswersStep ==
  ASSUME SessionInv, NEW i \in 1 .. MaxUses, ToolAnswers(i)
  PROVE  SessionInv'
<1>1. PICK answer \in Answers(Last(history).uses[i]) :
        /\ ToolReturns(i, answer.status)
        /\ said' = [said EXCEPT ![i] = answer]
  BY DEF ToolAnswers
<1>2. Last(history).uses[i] \in Tools /\ UNCHANGED <<servers, source, stored, listed>>
  BY DEF ToolAnswers
<1>3. /\ answer.status \in Outcome /\ answer.markets \subseteq ToSet(stored)
      /\ answer.tool = "get_market" /\ answer.ok /\ answer.id \in Markets => source # "unknown"
      /\ Finds(answer)
  BY <1>2, AnswerTypes
<1>4. RunnerInv'
  BY <1>1, <1>3, ToolStep DEF SessionInv
<1>5. SourceTypes'
  BY <1>2 DEF SessionInv, SourceTypes
<1>6. AnswersHold'
  <2>1. DOMAIN said' = DOMAIN said /\ \A j \in DOMAIN said : said'[j] \in {said[j], answer}
    BY <1>1 DEF SessionInv, AnswersHold
  <2>2. said' = [j \in DOMAIN said' |-> said'[j]]
    BY <1>1 DEF SessionInv, AnswersHold
  <2>3. ASSUME NEW j \in DOMAIN said
        PROVE  /\ said'[j].markets \subseteq ToSet(stored)
               /\ said'[j].tool = "get_market" /\ said'[j].ok /\ said'[j].id \in Markets =>
                    source # "unknown"
               /\ Finds(said'[j])
    BY <1>3, <2>1 DEF SessionInv, AnswersHold
  <2> QED
    BY <1>2, <2>1, <2>2, <2>3 DEF AnswersHold, Finds
<1> QED
  BY <1>4, <1>5, <1>6 DEF SessionInv

\* The model asks for tools that have not answered yet, or for none.
LEMMA ModelRepliesStep ==
  ASSUME SessionInv, NEW reply \in Replies, ModelReplies(reply)
  PROVE  SessionInv'
<1>1. Reply(reply) /\ UNCHANGED <<servers, source, stored, listed>>
  BY DEF ModelReplies
<1>2. RunnerInv' /\ SourceTypes'
  BY <1>1, ReplyStep DEF SessionInv, SourceTypes
<1>3. AnswersHold'
  <2>1. said' = [i \in DOMAIN results' |-> Error("none")]
    BY DEF ModelReplies
  <2>2. Error("none").tool = "none" /\ Error("none").markets = {}
    BY DEF Error
  <2> QED
    BY <2>1, <2>2 DEF AnswersHold, Finds
<1> QED
  BY <1>2, <1>3 DEF SessionInv

\* What the model was told of is stored: nothing takes a market out of a source.
LEMMA GatherResultsStep == ASSUME SessionInv, GatherResults PROVE SessionInv'
<1>1. /\ Gather /\ UNCHANGED <<servers, source, stored>>
      /\ listed' = listed \cup UNION {said[i].markets : i \in DOMAIN said} /\ said' = <<>>
  BY DEF GatherResults
<1>2. RunnerInv'
  BY <1>1, GatherStep DEF SessionInv
<1>3. SourceTypes'
  BY <1>1 DEF SessionInv, SourceTypes, AnswersHold
<1>4. AnswersHold'
  BY <1>1 DEF AnswersHold
<1> QED
  BY <1>2, <1>3, <1>4 DEF SessionInv

LEMMA SessionStep == SessionInv /\ [SessionNext]_allVars => SessionInv'
<1> SUFFICES ASSUME SessionInv, [SessionNext]_allVars PROVE SessionInv'
  OBVIOUS
<1>1. CASE StartChat
  BY <1>1, ChatStep, AnswersUntouched DEF StartChat, sessionVars, SessionInv, SourceTypes
<1>2. CASE ModelFails
  <2>1. RunnerInv'
    BY <1>2 DEF ModelFails, Throw, Return, SessionInv, RunnerInv
  <2> QED
    BY <1>2, <2>1, AnswersUntouched DEF ModelFails, sessionVars, SessionInv, SourceTypes
<1>3. CASE GatherResults
  BY <1>3, GatherResultsStep
<1>4. ASSUME NEW reply \in Replies, ModelReplies(reply) PROVE SessionInv'
  BY <1>4, ModelRepliesStep
<1>5. ASSUME NEW i \in 1 .. MaxUses, ToolAnswers(i) PROVE SessionInv'
  BY <1>5, ToolAnswersStep
<1>6. ASSUME NEW s \in Ids, Connect(s) \/ ListTools(s) \/ ServerDies(s) PROVE SessionInv'
  <2>1. UNCHANGED <<vars, source, stored, said, listed>>
    BY <1>6 DEF Connect, ListTools, ServerDies
  <2> QED
    BY <1>6, <2>1, CommandStep
<1>7. CASE ChatIsOver \/ Close \/ Exit
  <2>1. UNCHANGED <<vars, source, stored, said, listed>>
    BY <1>7 DEF ChatIsOver, Close, Exit
  <2> QED
    BY <1>7, <2>1, CommandStep
<1>8. ASSUME NEW m \in Markets, AddMarket(m) PROVE SessionInv'
  BY <1>8, AddStep
<1>9. CASE UNCHANGED allVars
  BY <1>9, RunnerUntouched, AnswersUntouched DEF allVars, sessionVars, SessionInv, SourceTypes
<1> QED
  BY <1>1, <1>2, <1>3, <1>4, <1>5, <1>6, <1>7, <1>8, <1>9 DEF SessionNext, Progress

------------------------------------------------------------------------------
(* The theorems.                                                            *)

\* The conversation rests, waits for its tools or is ready for the model, and what
\* tools answer comes from the source, in every state of a session.
THEOREM SessionCorrect == SessionSpec => []SessionInv
BY SessionInitInv, SessionStep, PTL DEF SessionSpec

\* AgentRunner.chat: until a chat was cut off, capped or failed, Converse accepts
\* every request, for any number of tools, uses, turns and chats.
THEOREM RequestsAreAccepted == SessionSpec => []RequestsAreWellFormed
<1>1. SessionInv => RequestsAreWellFormed
  BY DEF SessionInv, RunnerInv, RequestsAreWellFormed
<1> QED
  BY <1>1, SessionCorrect, PTL

\* data/ and mcp-server/: get_market finds a market list_markets told of, whichever
\* source answers and whatever markets are added, as long as one query reads them all.
THEOREM ListedAreFound == SessionSpec => []ListedMarketsAreFound
<1>1. SessionInv => ListedMarketsAreFound
  BY DEF SessionInv, AnswersHold, Finds, ListedMarketsAreFound
<1> QED
  BY <1>1, SessionCorrect, PTL
=============================================================================
