---------------------------- MODULE ReportsProofs ----------------------------
(***************************************************************************)
(* What a client of the reports may rely on, for any bets, limits, windows *)
(* and delays, whatever is placed, collected, fails or restarts meanwhile. *)
(***************************************************************************)
EXTENDS AnalyticsReports, TotalsProofs, SequenceTheorems

\* The bets of a view that come before b in the feed.
Later(V, b) == {c \in V : placedAt[c] > placedAt[b]}

Alone(b) == \A c \in Placed \ {b} : placedAt[c] # placedAt[b]

\* The bets the client must see: there when it began, alone in their instant and
\* in the window of the last page.
Due(b) ==
  /\ b \in Placed /\ placedAt[b] < reader.began /\ Alone(b)
  /\ reader.since <= placedAt[b]

\* What is due was seen, or all pages that were read lie before it in the feed.
NotPassed(V) ==
  \A b \in Bets : Due(b) =>
    b \in reader.seen \/ Cardinality(Later(V, b)) >= reader.offset

ReportTypes ==
  /\ now \in Nat \ {0} /\ placedAt \in [Bets -> 0 .. now]
  /\ DOMAIN reader = {"offset", "seen", "began", "since", "done"}
  /\ reader.offset \in Nat /\ reader.began \in 0 .. now
  /\ reader.since \in Int /\ reader.done \in BOOLEAN
  /\ request.kind \in {"none", "purchases", "whales"}
  /\ request.kind = "none" => request = NoRequest
  /\ request.kind # "none" => DOMAIN request = {"kind", "askedAt", "since", "views", "stages"}

\* The pages that were read start no later than the next one.
PagesFollow ==
  /\ reader.began = 0 => reader.offset = 0
  /\ reader.offset > 0 => reader.since <= now - Window

\* A page that is being made: it was asked for by a client that goes on, and is cut
\* from all bets that were there.
PageHolds ==
  request.kind = "purchases" =>
    /\ ~reader.done /\ request.askedAt \in Nat /\ request.askedAt <= now
    /\ reader.began # 0 /\ reader.began <= request.askedAt
    /\ request.since = request.askedAt - Window
    /\ reader.offset > 0 => reader.since <= request.since
    /\ \/ request.stages = <<"page">> /\ request.views = <<>>
       \/ /\ request.stages = <<>> /\ request.views.page \subseteq Placed
          /\ \A b \in Placed : placedAt[b] < reader.began => b \in request.views.page
          /\ NotPassed(request.views.page)

ReportsInv ==
  ReportTypes /\ PagesFollow /\ PageHolds /\ NotPassed(Placed) /\ PagesMissNothing

------------------------------------------------------------------------------
(* Pages of a ranked list.                                                  *)

LEMMA SmallerOf ==
  ASSUME NEW x \in Int, NEW y \in Int
  PROVE  Min({x, y}) = (IF x <= y THEN x ELSE y)
<1>1. \E z \in {x, y} : \A w \in {x, y} : z <= w
  OBVIOUS
<1> QED
  BY <1>1 DEF Min

\* The numbers up to n are n.
LEMMA FirstNumbers ==
  \A n \in Nat : IsFiniteSet(1 .. n) /\ Cardinality(1 .. n) = n
BY FS_Interval

\* A list of all members of a set names each once.
LEMMA ListOfSet ==
  ASSUME NEW S, IsFiniteSet(S), NEW s \in SetToSeqs(S)
  PROVE  /\ Cardinality(S) \in Nat /\ Len(s) = Cardinality(S) /\ s \in [1 .. Len(s) -> S]
         /\ \A i, j \in 1 .. Len(s) : i # j => s[i] # s[j]
         /\ \A x \in S : \E i \in 1 .. Len(s) : s[i] = x
<1>1. /\ Cardinality(S) \in Nat /\ s \in [1 .. Cardinality(S) -> S]
      /\ \A i, j \in 1 .. Cardinality(S) : i # j => s[i] # s[j]
  BY FS_CardinalityType DEF SetToSeqs
<1>2. Len(s) = Cardinality(S)
  BY <1>1, LenProperties
<1>3. s \in Injection(1 .. Cardinality(S), S)
  BY <1>1 DEF Injection, IsInjective
<1>4. IsFiniteSet(1 .. Cardinality(S)) /\ Cardinality(1 .. Cardinality(S)) = Cardinality(S)
  BY <1>1, FS_Interval
<1>5. s \in Surjection(1 .. Cardinality(S), S)
  BY <1>3, <1>4, FS_Injection
<1> QED
  BY <1>1, <1>2, <1>5 DEF Surjection

\* A page of a list of n rows: full, or up to the end.
IsPageOf(page, s, n, offset, limit) ==
  /\ Len(page) \in Nat /\ Len(page) <= limit
  /\ Len(page) < limit => n <= offset + Len(page)
  /\ \A k \in 1 .. Len(page) : offset + k \in 1 .. n /\ page[k] = s[offset + k]

LEMMA SliceOf ==
  ASSUME NEW S, NEW n \in Nat, NEW s \in [1 .. n -> S], NEW offset \in Nat, NEW limit \in Nat
  PROVE  /\ Slice(s, offset, limit) \in Seq(S)
         /\ IsPageOf(Slice(s, offset, limit), s, n, offset, limit)
<1> DEFINE last == IF offset + limit <= n THEN offset + limit ELSE n
<1>1. Len(s) = n
  BY LenProperties
<1>2. last \in Nat /\ last <= n /\ last <= offset + limit /\ (last < offset + limit => last = n)
  OBVIOUS
<1>3. Slice(s, offset, limit) = SubSeq(s, offset + 1, last)
  <2>1. offset + limit \in Int /\ n \in Int
    OBVIOUS
  <2>2. Min({offset + limit, n}) = last
    BY <2>1, SmallerOf
  <2> HIDE DEF last
  <2> QED
    BY <1>1, <2>2 DEF Slice
<1> HIDE DEF last
<1>4. offset + 1 \in Int /\ last \in Int /\ \A i \in offset + 1 .. last : s[i] \in S
  BY <1>2
<1>5. /\ SubSeq(s, offset + 1, last) \in Seq(S)
      /\ Len(SubSeq(s, offset + 1, last)) =
           IF offset + 1 <= last THEN last - (offset + 1) + 1 ELSE 0
      /\ \A k \in 1 .. last - (offset + 1) + 1 :
           SubSeq(s, offset + 1, last)[k] = s[offset + 1 + k - 1]
  BY <1>4, SubSeqProperties
<1> QED
  BY <1>2, <1>3, <1>5 DEF IsPageOf

\* A list that is cut keeps its first row.
LEMMA HeadOfSlice ==
  ASSUME NEW S, NEW n \in Nat \ {0}, NEW s \in [1 .. n -> S], NEW limit \in Nat \ {0}
  PROVE  /\ Slice(s, 0, limit) \in Seq(S) /\ Slice(s, 0, limit)[1] = s[1]
         /\ Len(Slice(s, 0, limit)) \in Nat \ {0}
<1>1. 0 \in Nat /\ limit \in Nat /\ n \in Nat
  OBVIOUS
<1>2. Slice(s, 0, limit) \in Seq(S) /\ IsPageOf(Slice(s, 0, limit), s, n, 0, limit)
  BY <1>1, SliceOf
<1> QED
  BY <1>1, <1>2 DEF IsPageOf

\* The best of what is ranked comes first.
LEMMA BestIsFirst ==
  ASSUME NEW S, IsFiniteSet(S), NEW x \in S, NEW key \in [S -> Nat],
         NEW s \in SetToSeqs(S), \A i, j \in DOMAIN s : i < j => key[s[i]] >= key[s[j]]
  PROVE  /\ Len(s) \in Nat \ {0} /\ s \in [1 .. Len(s) -> S]
         /\ s[1] \in S /\ key[x] <= key[s[1]]
<1>1. /\ Len(s) \in Nat /\ s \in [1 .. Len(s) -> S] /\ DOMAIN s = 1 .. Len(s)
      /\ \E i \in 1 .. Len(s) : s[i] = x
  BY ListOfSet
<1>2. PICK i \in 1 .. Len(s) : s[i] = x
  BY <1>1
<1>3. 1 \in 1 .. Len(s) /\ s[1] \in S /\ Len(s) # 0
  BY <1>1, <1>2
<1> QED
  BY <1>1, <1>2, <1>3

\* A finite set has finitely many values.
LEMMA ValuesOf ==
  ASSUME NEW S, IsFiniteSet(S), NEW f, DOMAIN f = S, f = [x \in S |-> f[x]]
  PROVE  IsFiniteSet({f[x] : x \in S}) /\ Cardinality({f[x] : x \in S}) <= Cardinality(S)
<1>1. f \in Surjection(S, {f[x] : x \in S})
  BY DEF Surjection
<1> QED
  BY <1>1, FS_Surjection

\* A page of the feed: a bet that is alone in its instant is on it, or the page is
\* full and lies before the bet.
LEMMA PageOfFeed ==
  ASSUME placedAt \in [Bets -> Nat], NEW V \in SUBSET Bets, IsFiniteSet(V), NEW since \in Int,
         NEW offset \in Nat, NEW limit \in Nat,
         NEW page \in GetPurchaseSignals(V, since, limit, offset),
         NEW b \in V, since <= placedAt[b], \A c \in V \ {b} : placedAt[c] # placedAt[b],
         Cardinality(Later(V, b)) >= offset
  PROVE  \/ b \in ToSet(page)
         \/ Len(page) = limit /\ Cardinality(Later(V, b)) >= offset + limit
<1> DEFINE R == Since(V, since)
           first == Later(V, b)
<1>1. R \subseteq V /\ IsFiniteSet(R) /\ b \in R /\ first \subseteq R
  <2>1. R \subseteq V /\ b \in R /\ first \subseteq R
    BY DEF Since, Later
  <2> QED
    BY <2>1, FS_Subset
<1>2. PICK s \in SetToSeqs(R) :
        /\ page = Slice(s, offset, limit)
        /\ \A i, j \in DOMAIN s : i < j => placedAt[s[i]] >= placedAt[s[j]]
  BY DEF GetPurchaseSignals, Newest, Ranked
<1>3. /\ Len(s) \in Nat /\ s \in [1 .. Len(s) -> R] /\ DOMAIN s = 1 .. Len(s)
      /\ \A i, j \in 1 .. Len(s) : i # j => s[i] # s[j]
      /\ \A x \in R : \E i \in 1 .. Len(s) : s[i] = x
  BY <1>1, ListOfSet
<1>4. PICK p \in 1 .. Len(s) : s[p] = b
  BY <1>1, <1>3
<1>5. Cardinality(first) = p - 1
  <2> DEFINE f == [i \in 1 .. p - 1 |-> s[i]]
  <2>1. \A i \in 1 .. p - 1 : i \in 1 .. Len(s) /\ s[i] \in V /\ s[i] # b /\ placedAt[s[i]] >= placedAt[b]
    BY <1>1, <1>2, <1>3, <1>4
  <2>2. \A i \in 1 .. p - 1 : s[i] \in first
    BY <1>1, <2>1 DEF Later
  <2>3. \A c \in first : \E i \in 1 .. p - 1 : s[i] = c
    <3> TAKE c \in first
    <3>1. PICK i \in 1 .. Len(s) : s[i] = c
      BY <1>1, <1>3
    <3>2. placedAt[c] \in Nat /\ placedAt[b] \in Nat /\ placedAt[c] > placedAt[b]
      BY <1>1 DEF Later
    <3>3. i # p /\ ~(p < i)
      BY <1>2, <1>3, <1>4, <3>1, <3>2
    <3> QED
      BY <3>1, <3>3
  <2>4. f \in Bijection(1 .. p - 1, first)
    <3> HIDE DEF first
    <3> QED
      BY <1>3, <2>1, <2>2, <2>3 DEF Bijection, Injection, Surjection, IsInjective
  <2>5. IsFiniteSet(1 .. p - 1) /\ Cardinality(1 .. p - 1) = p - 1
    <3>1. \A n \in Nat : IsFiniteSet(1 .. n) /\ Cardinality(1 .. n) = n
      BY FirstNumbers
    <3>2. p - 1 \in Nat
      BY <1>3
    <3> QED
      BY <3>1, <3>2
  <2> HIDE DEF first, f
  <2> QED
    BY <2>4, <2>5, FS_Bijection DEF ExistsBijection
<1>6. /\ page \in Seq(R) /\ Len(page) \in Nat /\ Len(page) <= limit
      /\ Len(page) < limit => Len(s) <= offset + Len(page)
      /\ \A k \in 1 .. Len(page) : page[k] = s[offset + k]
  <2> HIDE DEF R
  <2>1. page \in Seq(R) /\ IsPageOf(page, s, Len(s), offset, limit)
    BY <1>2, <1>3, SliceOf
  <2> QED
    BY <2>1 DEF IsPageOf
<1>7. p \in Nat /\ p <= Len(s) /\ offset < p
  BY <1>3, <1>5
<1>8. CASE p <= offset + Len(page)
  <2>1. p - offset \in 1 .. Len(page) /\ offset + (p - offset) = p
    BY <1>6, <1>7, <1>8
  <2>2. p - offset \in DOMAIN page
    <3>1. DOMAIN page = 1 .. Len(page)
      BY <1>6
    <3> QED
      BY <2>1, <3>1
  <2>3. page[p - offset] = b
    <3>1. page[p - offset] = s[offset + (p - offset)]
      BY <1>6, <2>1
    <3> QED
      BY <1>4, <2>1, <3>1
  <2> QED
    BY <2>2, <2>3 DEF ToSet
<1>9. CASE p > offset + Len(page)
  <2>1. Len(page) = limit
    BY <1>3, <1>6, <1>7, <1>9
  <2> QED
    BY <1>5, <1>6, <1>7, <1>9, <2>1
<1> QED
  BY <1>6, <1>7, <1>8, <1>9

\* More bets in view, more before each of them.
LEMMA MoreLater ==
  ASSUME IsFiniteSet(Bets), NEW V \in SUBSET Bets, NEW W \in SUBSET Bets, V \subseteq W, NEW b
  PROVE  /\ Cardinality(Later(V, b)) \in Nat /\ Cardinality(Later(W, b)) \in Nat
         /\ Cardinality(Later(V, b)) <= Cardinality(Later(W, b))
<1>1. Later(V, b) \subseteq Later(W, b) /\ Later(W, b) \subseteq Bets
  BY DEF Later
<1> QED
  BY <1>1, FS_Subset, FS_CardinalityType

------------------------------------------------------------------------------
(* Steps.                                                                   *)

LEMMA FirstState ==
  ASSUME Init
  PROVE  ReportsInv
<1>1. ReportTypes
  BY DEF Init, ReportTypes, NoRequest
<1>2. Placed = {} /\ reader.began = 0 /\ reader.offset = 0 /\ ~reader.done
  BY DEF Init, Placed
<1>3. PagesFollow /\ PagesMissNothing
  BY <1>2 DEF PagesFollow, PagesMissNothing
<1>4. PageHolds
  BY DEF Init, PageHolds, NoRequest
<1>5. NotPassed(Placed)
  BY <1>2 DEF NotPassed, Due
<1> QED
  BY <1>1, <1>3, <1>4, <1>5 DEF ReportsInv

\* What the client was told is judged by its pages and the bets alone.
LEMMA SameBets ==
  ASSUME placedAt' = placedAt, reader' = reader
  PROVE  /\ Placed' = Placed
         /\ \A V : NotPassed(V) => NotPassed(V)'
         /\ PagesMissNothing => PagesMissNothing'
<1>1. Placed' = Placed
  BY DEF Placed
<1>2. \A V, b : Later(V, b)' = Later(V, b)
  BY DEF Later
<1>3. \A b : Due(b)' => Due(b)
  BY <1>1 DEF Due, Alone
<1>4. \A V : NotPassed(V) => NotPassed(V)'
  BY <1>2, <1>3 DEF NotPassed
<1>5. PagesMissNothing => PagesMissNothing'
  BY <1>1 DEF PagesMissNothing
<1> QED
  BY <1>1, <1>4, <1>5

\* Time, the collector and restarts.
LEMMA QuietStep ==
  ASSUME ReportsInv, placedAt' = placedAt, reader' = reader, now' \in Nat, now <= now',
         request' = request \/ request' = NoRequest
  PROVE  ReportsInv'
<1> USE DEF ReportsInv
<1>1. ReportTypes'
  <2>1. (placedAt \in [Bets -> 0 .. now'])
    BY DEF ReportTypes
  <2>2. request'.kind \in {"none", "purchases", "whales"}
    BY DEF ReportTypes, NoRequest
  <2> QED
    BY <2>1, <2>2 DEF ReportTypes, NoRequest
<1>2. PagesFollow'
  BY ReportsAssumption DEF PagesFollow, ReportTypes
<1>3. PageHolds'
  <2>1. CASE request' = NoRequest
    BY <2>1 DEF PageHolds, NoRequest
  <2>2. CASE request' = request
    BY <2>2, SameBets DEF PageHolds, ReportTypes
  <2> QED
    BY <2>1, <2>2
<1>4. NotPassed(Placed)' /\ PagesMissNothing'
  BY SameBets
<1> QED
  BY <1>1, <1>2, <1>3, <1>4

LEMMA TickStep ==
  ASSUME ReportsInv, Tick
  PROVE  ReportsInv'
<1>1. now' \in Nat /\ now <= now'
  BY DEF ReportsInv, ReportTypes, Tick
<1> QED
  BY <1>1, QuietStep DEF Tick

LEMMA CycleStep ==
  ASSUME ReportsInv, NEW t \in DOMAIN collecting,
         StoreSnapshot(t) \/ CollectionFails(t) \/ \E f \in Figures : CollectFigure(t, f)
  PROVE  ReportsInv'
<1>1. now \in Nat /\ now <= now
  BY DEF ReportsInv, ReportTypes
<1> QED
  BY <1>1, QuietStep DEF StoreSnapshot, CollectionFails, CollectFigure

LEMMA RestartStep ==
  ASSUME ReportsInv, Restart
  PROVE  ReportsInv'
<1>1. now \in Nat /\ now <= now
  BY DEF ReportsInv, ReportTypes
<1> QED
  BY <1>1, QuietStep DEF Restart

\* A new bet is later than all that the client must see.
LEMMA PlaceBetStep ==
  ASSUME ReportsInv, NEW n \in Bets, PlaceBet(n)
  PROVE  ReportsInv'
<1> USE DEF ReportsInv
<1>1. /\ ReportTypes'
      /\ reader' = reader /\ request' = request /\ now' = now
  BY DEF PlaceBet, ReportTypes
<1>2. Placed' = Placed \cup {n} /\ n \notin Placed /\ Placed \in SUBSET Bets
  BY DEF PlaceBet, Placed, ReportTypes
<1>3. placedAt'[n] = now /\ \A c \in Bets \ {n} : placedAt'[c] = placedAt[c]
  BY DEF PlaceBet, ReportTypes
<1>4. \A b \in Placed' : placedAt'[b] < reader.began => b \in Placed /\ placedAt'[b] = placedAt[b]
  BY <1>2, <1>3 DEF ReportTypes
<1>5. \A b \in Bets : Due(b)' => Due(b)
  <2> SUFFICES ASSUME NEW b \in Bets, Due(b)'
               PROVE  Due(b)
    OBVIOUS
  <2>1. b \in Placed /\ placedAt'[b] = placedAt[b]
    BY <1>1, <1>4 DEF Due
  <2>2. Alone(b)
    BY <1>2, <1>3, <2>1 DEF Due, Alone
  <2> QED
    BY <1>1, <2>1, <2>2 DEF Due
<1>6. ASSUME NEW V \in SUBSET Placed, NotPassed(V)
      PROVE  NotPassed(V)'
  <2>1. \A b \in Placed : Later(V, b)' = Later(V, b)
    BY <1>2, <1>3 DEF Later
  <2> QED
    BY <1>1, <1>5, <1>6, <2>1 DEF NotPassed, Due
<1>7. NotPassed(Placed)'
  <2> SUFFICES ASSUME NEW b \in Bets, Due(b)', b \notin reader.seen
               PROVE  Cardinality(Later(Placed, b)') >= reader.offset
    BY <1>1 DEF NotPassed
  <2>1. Due(b) /\ Cardinality(Later(Placed, b)) >= reader.offset
    BY <1>5 DEF NotPassed
  <2>2. b \in Placed /\ b # n
    BY <1>2, <2>1 DEF Due
  <2>3. Later(Placed, b) \subseteq Later(Placed, b)' /\ Later(Placed, b)' \subseteq Bets
    BY <1>2, <1>3, <2>2 DEF Later, Placed
  <2>4. /\ Cardinality(Later(Placed, b)) \in Nat /\ Cardinality(Later(Placed, b)') \in Nat
        /\ Cardinality(Later(Placed, b)) <= Cardinality(Later(Placed, b)')
    BY <2>3, ReportsAssumption, FS_Subset, FS_CardinalityType
  <2> QED
    BY <2>1, <2>4 DEF ReportTypes
<1>8. PagesMissNothing'
  <2> SUFFICES ASSUME reader.done, NEW b \in Placed', reader.since <= placedAt'[b],
                      placedAt'[b] < reader.began, Alone(b)'
               PROVE  b \in reader.seen
    BY <1>1 DEF PagesMissNothing, Alone
  <2>1. b \in Bets /\ Due(b)'
    BY <1>1, <1>2 DEF Due
  <2> QED
    BY <1>5, <2>1 DEF PagesMissNothing, Due, Alone
<1>9. PageHolds'
  <2> SUFFICES ASSUME request.kind = "purchases"
               PROVE  PageHolds'
    BY <1>1 DEF PageHolds
  <2>1. CASE request.stages = <<"page">> /\ request.views = <<>>
    BY <1>1, <2>1 DEF PageHolds
  <2>2. CASE /\ request.stages = <<>> /\ request.views.page \subseteq Placed
             /\ \A b \in Placed : placedAt[b] < reader.began => b \in request.views.page
             /\ NotPassed(request.views.page)
    <3>1. NotPassed(request.views.page)'
      BY <1>1, <1>6, <2>2
    <3>2. \A b \in Placed' : placedAt'[b] < reader.began => b \in request.views.page
      BY <1>4, <2>2
    <3> QED
      BY <1>1, <1>2, <2>2, <3>1, <3>2 DEF PageHolds
  <2> QED
    BY <2>1, <2>2 DEF PageHolds
<1> QED
  BY <1>1, <1>7, <1>8, <1>9 DEF PagesFollow

\* A client that begins has read no page.
LEMMA AskStep ==
  ASSUME ReportsInv, NEW kind \in {"purchases", "whales"}, Ask(kind)
  PROVE  ReportsInv'
<1> USE DEF ReportsInv
<1>1. /\ now' = now /\ placedAt' = placedAt /\ Placed' = Placed
      /\ request' = [kind |-> kind, askedAt |-> now, since |-> now - Window,
                     views |-> <<>>, stages |-> Stages(kind)]
      /\ kind = "purchases" => ~reader.done
  BY DEF Ask, Placed
<1>2. \/ reader' = reader /\ (kind = "purchases" => reader.began # 0)
      \/ kind = "purchases" /\ reader.began = 0 /\ reader' = [reader EXCEPT !.began = now]
  BY DEF Ask
<1>3. ReportTypes'
  BY <1>1, <1>2 DEF ReportTypes
<1>4. /\ reader'.offset = reader.offset /\ reader'.since = reader.since
      /\ reader'.seen = reader.seen /\ reader'.done = reader.done
      /\ kind = "purchases" => reader'.began # 0 /\ reader'.began <= now
      /\ reader'.began = 0 => reader.began = 0
      /\ kind = "purchases" /\ reader.began = 0 => reader.offset = 0 /\ ~reader'.done
  BY <1>1, <1>2 DEF ReportTypes, PagesFollow
<1>5. PagesFollow'
  BY <1>1, <1>2, <1>4 DEF PagesFollow, ReportTypes
<1>6. PageHolds'
  BY <1>1, <1>4 DEF PageHolds, PagesFollow, Stages, ReportTypes
<1>7. NotPassed(Placed)' /\ PagesMissNothing'
  <2>1. CASE reader' = reader
    BY <1>1, <2>1, SameBets
  <2>2. CASE reader'.offset = 0 /\ ~reader'.done
    <3>1. \A b \in Bets : Cardinality(Later(Placed, b)') \in Nat
      <4> TAKE b \in Bets
      <4>1. Later(Placed, b)' \subseteq Bets
        BY <1>1 DEF Later, Placed
      <4> QED
        BY <4>1, ReportsAssumption, FS_Subset, FS_CardinalityType
    <3> QED
      BY <2>2, <3>1 DEF NotPassed, PagesMissNothing
  <2> QED
    BY <1>2, <1>4, <2>1, <2>2 DEF PagesFollow
<1> QED
  BY <1>3, <1>5, <1>6, <1>7

\* The view of a page is all bets that are there.
LEMMA QueryStep ==
  ASSUME ReportsInv, Query
  PROVE  ReportsInv'
<1> USE DEF ReportsInv
<1>1. /\ placedAt' = placedAt /\ reader' = reader /\ now' = now
      /\ request.kind # "none"
      /\ DOMAIN request = {"kind", "askedAt", "since", "views", "stages"}
      /\ DOMAIN request' = DOMAIN request
      /\ request'.kind = request.kind /\ request'.askedAt = request.askedAt
      /\ request'.since = request.since
  BY DEF Query, ReportTypes
<1>2. ReportTypes' /\ PagesFollow'
  BY <1>1 DEF ReportTypes, PagesFollow
<1>3. Placed' = Placed /\ NotPassed(Placed)' /\ PagesMissNothing'
  BY <1>1, SameBets
<1>4. PageHolds'
  <2> SUFFICES ASSUME request.kind = "purchases"
               PROVE  PageHolds'
    BY <1>1 DEF PageHolds
  <2>1. request.stages = <<"page">> /\ request.views = <<>>
    BY DEF PageHolds, Query
  <2>2. Head(request.stages) = "page" /\ Tail(request.stages) = <<>>
    BY <2>1
  <2>3. request'.stages = <<>> /\ request'.views = With(request.views, "page", Placed)
    BY <1>1, <2>2 DEF Query
  <2>4. request'.views.page = Placed
    BY <2>1, <2>3 DEF With
  <2>5. NotPassed(request.views.page)'
    BY <1>3, <2>4
  <2> QED
    BY <1>1, <1>3, <2>3, <2>4, <2>5 DEF PageHolds, Placed
<1> QED
  BY <1>2, <1>3, <1>4

\* The page that comes back holds what is due, or is full and lies before it.
LEMMA ReturnStep ==
  ASSUME ReportsInv, Return
  PROVE  ReportsInv'
<1> USE DEF ReportsInv
<1>1. placedAt' = placedAt /\ now' = now /\ request' = NoRequest /\ Placed' = Placed
  BY DEF Return, Placed
<1>2. CASE reader' = reader
  BY <1>1, <1>2, QuietStep DEF ReportTypes
<1>3. CASE request.kind = "purchases"
  <2> DEFINE V == request.views.page
  <2>1. PICK page \in GetPurchaseSignals(V, request.since, Limit, reader.offset) : ReadPage(page)
    BY <1>3 DEF Return
  <2>2. /\ V \subseteq Placed /\ NotPassed(V)
        /\ \A b \in Placed : placedAt[b] < reader.began => b \in V
        /\ request.since \in Int /\ request.since <= now - Window /\ reader.began # 0
        /\ reader.offset > 0 => reader.since <= request.since
    <3>1. /\ request.stages = <<>> /\ request.stages # <<"page">>
          /\ request.since = request.askedAt - Window /\ request.askedAt \in Nat
          /\ request.askedAt <= now
      BY <1>3 DEF Return, Answered, PageHolds
    <3>2. request.since \in Int /\ request.since <= now - Window
      <4>1. now \in Int /\ Window \in Int
        BY ReportsAssumption DEF ReportTypes
      <4> HIDE DEF ReportsInv
      <4> QED
        BY <3>1, <4>1
    <3> QED
      BY <1>3, <3>1, <3>2 DEF PageHolds
  <2>3. /\ DOMAIN reader' = DOMAIN reader /\ reader'.offset = reader.offset + Limit
        /\ reader'.seen = reader.seen \cup ToSet(page) /\ reader'.began = reader.began
        /\ reader'.since = request.since /\ reader'.done = (Len(page) < Limit)
    BY <2>1 DEF ReadPage, ReportTypes
  <2>4. ReportTypes'
    <3>1. request'.kind = "none" /\ request' = NoRequest
      BY <1>1 DEF NoRequest
    <3>2. reader.offset + Limit \in Nat /\ (Len(page) < Limit) \in BOOLEAN
      BY ReportsAssumption DEF ReportTypes
    <3> HIDE DEF V
    <3> QED
      BY <1>1, <2>2, <2>3, <3>1, <3>2 DEF ReportTypes
  <2>5. PagesFollow' /\ PageHolds'
    BY <1>1, <2>2, <2>3, ReportsAssumption DEF PagesFollow, PageHolds, NoRequest
  <2>6. ASSUME NEW b \in Bets, Due(b)', b \notin reader'.seen
        PROVE  Len(page) = Limit /\ Cardinality(Later(Placed, b)') >= reader'.offset
    <3>1. /\ b \in V /\ request.since <= placedAt[b] /\ placedAt[b] < reader.began
          /\ \A c \in V \ {b} : placedAt[c] # placedAt[b]
          /\ Placed \subseteq Bets /\ V \in SUBSET Bets /\ IsFiniteSet(V)
      <4>1. b \in Placed /\ request.since <= placedAt[b] /\ placedAt[b] < reader.began /\ Alone(b)
        BY <1>1, <2>3, <2>6 DEF Due, Alone
      <4>2. Placed \subseteq Bets
        BY DEF Placed
      <4> HIDE DEF V
      <4> QED
        BY <2>2, <4>1, <4>2, ReportsAssumption, FS_Subset DEF Alone
    <3>2. Cardinality(Later(V, b)) >= reader.offset
      <4>1. CASE reader.offset = 0
        BY <3>1, <4>1, ReportsAssumption, MoreLater
      <4>2. CASE reader.offset > 0
        <5>1. Due(b)
          BY <1>1, <2>2, <2>3, <2>6, <3>1, <4>2 DEF Due, Alone, ReportTypes
        <5> QED
          BY <2>2, <2>3, <2>6, <5>1 DEF NotPassed
      <4> QED
        BY <4>1, <4>2 DEF ReportTypes
    <3>3. \/ b \in ToSet(page)
          \/ Len(page) = Limit /\ Cardinality(Later(V, b)) >= reader.offset + Limit
      <4>1. placedAt \in [Bets -> Nat] /\ reader.offset \in Nat
        BY DEF ReportTypes
      <4> HIDE DEF V
      <4> QED
        BY <2>1, <2>2, <3>1, <3>2, <4>1, ReportsAssumption, PageOfFeed
    <3>4. /\ Cardinality(Later(V, b)) \in Nat /\ Cardinality(Later(Placed, b)) \in Nat
          /\ Cardinality(Later(V, b)) <= Cardinality(Later(Placed, b))
      BY <2>2, <3>1, ReportsAssumption, MoreLater
    <3>5. Later(Placed, b)' = Later(Placed, b)
      BY <1>1 DEF Later
    <3>6. reader.offset \in Nat /\ Limit \in Nat
      BY ReportsAssumption DEF ReportTypes
    <3> HIDE DEF V
    <3> QED
      BY <2>3, <2>6, <3>3, <3>4, <3>5, <3>6
  <2>7. NotPassed(Placed)'
    BY <2>6 DEF NotPassed
  <2>8. PagesMissNothing'
    <3> SUFFICES ASSUME Len(page) < Limit, NEW b \in Placed', reader'.since <= placedAt'[b],
                        placedAt'[b] < reader'.began, Alone(b)'
                 PROVE  b \in reader'.seen
      BY <2>3 DEF PagesMissNothing, Alone
    <3>1. b \in Bets /\ Due(b)'
      BY DEF Due, Placed
    <3> QED
      BY <2>6, <3>1, ReportsAssumption
  <2> QED
    BY <2>4, <2>5, <2>7, <2>8
<1> QED
  BY <1>2, <1>3 DEF Return

LEMMA ReportsStep ==
  ASSUME ReportsInv, [Next]_vars
  PROVE  ReportsInv'
<1>1. CASE UNCHANGED vars
  <2>1. now \in Nat /\ now <= now
    BY DEF ReportsInv, ReportTypes
  <2> QED
    BY <1>1, <2>1, QuietStep DEF vars
<1>2. ASSUME NEW m \in DOMAIN CreatorOf, WritePool(m)
      PROVE  ReportsInv'
  <2>1. now \in Nat /\ now <= now
    BY DEF ReportsInv, ReportTypes
  <2> QED
    BY <1>2, <2>1, QuietStep DEF WritePool
<1>3. CASE Next
  BY <1>2, <1>3, TickStep, PlaceBetStep, CycleStep, AskStep, QueryStep, ReturnStep, RestartStep
     DEF Next
<1> QED
  BY <1>1, <1>3

\* A client that turns pages until one comes back short has seen every bet that was
\* there when it began, for feeds and pages of any size, whatever is placed while it
\* reads and however often the process restarts.
THEOREM NoBetIsMissed == Spec => []PagesMissNothing
<1>1. Init => ReportsInv
  BY FirstState
<1>2. ReportsInv /\ [Next]_vars => ReportsInv'
  BY ReportsStep
<1>3. ReportsInv => PagesMissNothing
  BY DEF ReportsInv
<1> QED
  BY <1>1, <1>2, <1>3, PTL DEF Spec

------------------------------------------------------------------------------
(* Volumes.                                                                 *)

LEMMA VolumeGrows ==
  ASSUME NEW cs \in SUBSET Bets, NEW bs \in SUBSET cs
  PROVE  /\ IsFiniteSet(cs) /\ IsFiniteSet(bs)
         /\ Cardinality(bs) \in Nat /\ Cardinality(cs) \in Nat /\ Cardinality(bs) <= Cardinality(cs)
         /\ Volume(bs) \in Nat /\ Volume(cs) \in Nat /\ Volume(bs) <= Volume(cs)
<1> DEFINE f == [b \in bs |-> AmountOf[b]]
           g == [b \in cs |-> AmountOf[b]]
<1>1. IsFiniteSet(cs) /\ IsFiniteSet(bs) /\ f \in [bs -> Nat] /\ g \in [cs -> Nat]
  BY ReportsAssumption, FS_Subset
<1>2. IsFiniteSet(Units(f)) /\ IsFiniteSet(Units(g)) /\ Total(f) \in Nat /\ Total(g) \in Nat
  BY <1>1, TotalType
<1>3. Units(f) \subseteq Units(g)
  BY DEF Units
<1>4. Cardinality(Units(f)) <= Cardinality(Units(g))
  BY <1>2, <1>3, FS_Subset
<1> QED
  BY <1>1, <1>2, <1>4, FS_Subset, FS_CardinalityType DEF Volume, Total

LEMMA LargestIs ==
  ASSUME NEW bs \in SUBSET Bets, bs # {}
  PROVE  /\ \E b \in bs : Largest(bs) = AmountOf[b]
         /\ Largest(bs) \in Nat
         /\ \A b \in bs : AmountOf[b] <= Largest(bs)
<1> DEFINE S == {AmountOf[b] : b \in bs}
           f == [b \in bs |-> AmountOf[b]]
<1>1. S \in SUBSET Nat /\ S # {}
  BY ReportsAssumption
<1>2. IsFiniteSet(bs) /\ f \in [bs -> Nat] /\ Total(f) \in Nat
  <2>1. IsFiniteSet(bs) /\ f \in [bs -> Nat]
    BY ReportsAssumption, FS_Subset
  <2> QED
    BY <2>1, TotalType
<1>3. \A x \in S : x <= Total(f)
  <2>1. \A b \in bs : f[b] <= Total(f)
    <3> HIDE DEF f
    <3> QED
      BY <1>2, EntryBelowTotal
  <2> QED
    BY <2>1
<1>4. \E x \in S : \A y \in S : y <= x
  <2> HIDE DEF S, f
  <2> QED
    BY <1>1, <1>2, <1>3, LargestExists
<1>5. Largest(bs) \in S /\ \A y \in S : y <= Largest(bs)
  <2> HIDE DEF S
  <2>1. \E x \in S : \A y \in S : x >= y
    BY <1>1, <1>4
  <2>2. Max(S) \in S /\ \A y \in S : Max(S) >= y
    BY <2>1 DEF Max
  <2>3. Largest(bs) = Max(S)
    BY DEF Largest, S
  <2> QED
    BY <1>1, <2>2, <2>3
<1> QED
  BY <1>1, <1>5

LEMMA LargestGrows ==
  ASSUME NEW cs \in SUBSET Bets, NEW bs \in SUBSET cs, bs # {}
  PROVE  Largest(bs) \in Nat /\ Largest(cs) \in Nat /\ Largest(bs) <= Largest(cs)
<1>1. bs \in SUBSET Bets /\ cs # {}
  OBVIOUS
<1> QED
  BY <1>1, LargestIs

------------------------------------------------------------------------------
(* The dashboard's snapshot.                                                *)

Before(t) == {b \in Placed : placedAt[b] < t}

\* A view that was taken at time t or later.
SeenSince(V, t) == Before(t) \subseteq V /\ V \subseteq Placed

\* Cycles that were to run after the snapshot of one that began at base, and are gone.
Lost(base) ==
  {m \in base + CollectDelay + 1 .. now : m % CollectEvery = 0 /\ m \notin DOMAIN collecting}

\* A cycle sees what is older than itself.
CyclesSee ==
  \A t \in DOMAIN collecting :
    /\ t \in 1 .. now /\ now <= t + CollectDelay
    /\ \A f \in DOMAIN collecting[t] : SeenSince(collecting[t][f], t)

\* So does the snapshot, and only failures have kept later ones away.
SnapshotSees ==
  latestSnapshot # NoSnapshot =>
    /\ DOMAIN latestSnapshot = Figures
    /\ \E base \in 1 .. now :
         /\ \A f \in Figures : SeenSince(latestSnapshot[f], base)
         /\ Cardinality(Lost(base)) <= faults

CollectorInv ==
  /\ now \in Nat \ {0} /\ placedAt \in [Bets -> 0 .. now] /\ faults \in Nat
  /\ CyclesSee /\ SnapshotSees

LEMMA LostIsFinite ==
  ASSUME now \in Nat, NEW base \in Nat
  PROVE  IsFiniteSet(Lost(base)) /\ Cardinality(Lost(base)) \in Nat
<1>1. base + CollectDelay + 1 \in Int /\ now \in Int
  BY ReportsAssumption
<1>2. IsFiniteSet(base + CollectDelay + 1 .. now)
  BY <1>1, FS_Interval
<1>3. Lost(base) \subseteq base + CollectDelay + 1 .. now
  BY DEF Lost
<1> QED
  BY <1>2, <1>3, FS_Subset, FS_CardinalityType

\* Nothing but the clock, the bets and the collector matters.
LEMMA CollectorIdle ==
  ASSUME CollectorInv, UNCHANGED <<now, placedAt, latestSnapshot, collecting, faults>>
  PROVE  CollectorInv'
<1>1. Placed' = Placed
  BY DEF Placed
<1>2. \A V, t : SeenSince(V, t)' <=> SeenSince(V, t)
  BY <1>1 DEF SeenSince, Before
<1>3. \A base : Lost(base)' = Lost(base)
  BY DEF Lost
<1> QED
  BY <1>2, <1>3 DEF CollectorInv, CyclesSee, SnapshotSees

LEMMA CollectorInit ==
  ASSUME Init
  PROVE  CollectorInv
<1>1. DOMAIN collecting = {}
  BY DEF Init
<1> QED
  BY <1>1 DEF Init, CollectorInv, CyclesSee, SnapshotSees

\* The cron starts a cycle at each of its times.
LEMMA CollectorTick ==
  ASSUME CollectorInv, Tick
  PROVE  CollectorInv'
<1> USE DEF CollectorInv
<1>1. /\ now' = now + 1 /\ placedAt' = placedAt /\ latestSnapshot' = latestSnapshot
      /\ faults' = faults /\ Placed' = Placed
      /\ \A t \in DOMAIN collecting : now < t + CollectDelay
      /\ collecting' = IF now' % CollectEvery = 0 THEN With(collecting, now', <<>>) ELSE collecting
  BY DEF Tick, Placed
<1>2. \A V, t : SeenSince(V, t)' <=> SeenSince(V, t)
  BY <1>1 DEF SeenSince, Before
<1>3. /\ DOMAIN collecting' = DOMAIN collecting \cup
           (IF now' % CollectEvery = 0 THEN {now'} ELSE {})
      /\ \A t \in DOMAIN collecting : t # now' => collecting'[t] = collecting[t]
      /\ now' % CollectEvery = 0 => collecting'[now'] = <<>>
  BY <1>1 DEF With
<1>4. CyclesSee'
  <2> SUFFICES ASSUME NEW t \in DOMAIN collecting'
               PROVE  /\ t \in 1 .. now' /\ now' <= t + CollectDelay
                      /\ \A f \in DOMAIN collecting'[t] : SeenSince(collecting'[t][f], t)
    BY <1>2 DEF CyclesSee
  <2>1. CASE t = now'
    <3>1. collecting'[t] = <<>>
      BY <1>1, <1>3, <2>1 DEF CyclesSee
    <3> QED
      BY <1>1, <2>1, <3>1, ReportsAssumption
  <2>2. CASE t # now'
    <3>1. t \in DOMAIN collecting /\ collecting'[t] = collecting[t]
      BY <1>3, <2>2
    <3> QED
      BY <1>1, <1>2, <3>1, ReportsAssumption DEF CyclesSee
  <2> QED
    BY <2>1, <2>2
<1>5. \A base \in 1 .. now : Lost(base)' \subseteq Lost(base)
  <2>1. CollectDelay \in Nat /\ now \in Nat
    BY ReportsAssumption
  <2> QED
    BY <1>1, <1>3, <2>1 DEF Lost
<1>6. SnapshotSees'
  <2> SUFFICES ASSUME latestSnapshot # NoSnapshot
               PROVE  SnapshotSees'
    BY <1>1 DEF SnapshotSees
  <2>1. PICK base \in 1 .. now :
          /\ \A f \in Figures : SeenSince(latestSnapshot[f], base)
          /\ Cardinality(Lost(base)) <= faults
    BY DEF SnapshotSees
  <2>2. /\ IsFiniteSet(Lost(base)) /\ Cardinality(Lost(base)) \in Nat
        /\ Cardinality(Lost(base)') \in Nat
        /\ Cardinality(Lost(base)') <= Cardinality(Lost(base))
    BY <1>5, LostIsFinite, FS_Subset, FS_CardinalityType
  <2>3. base \in 1 .. now' /\ Cardinality(Lost(base)') <= faults'
    BY <1>1, <2>1, <2>2
  <2> QED
    BY <1>1, <1>2, <2>1, <2>3 DEF SnapshotSees
<1> QED
  BY <1>1, <1>4, <1>6

LEMMA CollectorBet ==
  ASSUME CollectorInv, NEW n \in Bets, PlaceBet(n)
  PROVE  CollectorInv'
<1> USE DEF CollectorInv
<1>1. /\ UNCHANGED <<now, latestSnapshot, collecting, faults>>
      /\ placedAt' \in [Bets -> 0 .. now'] /\ n \notin Placed /\ Placed' = Placed \cup {n}
      /\ placedAt'[n] = now /\ \A c \in Bets \ {n} : placedAt'[c] = placedAt[c]
  BY DEF PlaceBet, Placed
<1>2. ASSUME NEW V, NEW t \in 1 .. now, SeenSince(V, t)
      PROVE  SeenSince(V, t)'
  <2>1. Before(t)' \subseteq Before(t)
    BY <1>1 DEF Before, Placed
  <2> QED
    BY <1>1, <1>2, <2>1 DEF SeenSince
<1>3. \A base : Lost(base)' = Lost(base)
  BY <1>1 DEF Lost
<1>4. CyclesSee' /\ SnapshotSees'
  BY <1>1, <1>2, <1>3 DEF CyclesSee, SnapshotSees
<1> QED
  BY <1>1, <1>4

\* A query of a cycle sees all bets.
LEMMA CollectorQuery ==
  ASSUME CollectorInv, NEW t \in DOMAIN collecting, NEW f \in Figures, CollectFigure(t, f)
  PROVE  CollectorInv'
<1> USE DEF CollectorInv
<1>1. /\ UNCHANGED <<now, placedAt, latestSnapshot, faults>> /\ Placed' = Placed
      /\ collecting' = [collecting EXCEPT ![t] = With(@, f, Placed)]
  BY DEF CollectFigure, Placed
<1>2. \A V, u : SeenSince(V, u)' <=> SeenSince(V, u)
  BY <1>1 DEF SeenSince, Before
<1>3. /\ DOMAIN collecting' = DOMAIN collecting
      /\ \A u \in DOMAIN collecting : u # t => collecting'[u] = collecting[u]
      /\ DOMAIN collecting'[t] = DOMAIN collecting[t] \cup {f}
      /\ collecting'[t][f] = Placed
      /\ \A g \in DOMAIN collecting[t] : g # f => collecting'[t][g] = collecting[t][g]
  BY <1>1 DEF With
<1>4. SeenSince(Placed, t)
  BY DEF SeenSince, Before
<1>5. CyclesSee'
  <2> SUFFICES ASSUME NEW u \in DOMAIN collecting, NEW g \in DOMAIN collecting'[u]
               PROVE  SeenSince(collecting'[u][g], u)
    BY <1>1, <1>2, <1>3 DEF CyclesSee
  <2> QED
    BY <1>3, <1>4 DEF CyclesSee
<1>6. \A base : Lost(base)' = Lost(base)
  BY <1>1, <1>3 DEF Lost
<1> QED
  BY <1>1, <1>2, <1>5, <1>6 DEF SnapshotSees

\* No cycle was to begin since the one that ends might have been the last.
LEMMA CollectorStore ==
  ASSUME CollectorInv, NEW t \in DOMAIN collecting, StoreSnapshot(t)
  PROVE  CollectorInv'
<1> USE DEF CollectorInv
<1>1. /\ UNCHANGED <<now, placedAt, faults>> /\ Placed' = Placed
      /\ DOMAIN collecting[t] = Figures /\ latestSnapshot' = collecting[t]
      /\ collecting' = [s \in DOMAIN collecting \ {t} |-> collecting[s]]
  BY DEF StoreSnapshot, NewSnapshot, Without, Placed
<1>2. \A V, u : SeenSince(V, u)' <=> SeenSince(V, u)
  BY <1>1 DEF SeenSince, Before
<1>3. CyclesSee'
  BY <1>1, <1>2 DEF CyclesSee
<1>4. t \in 1 .. now /\ now <= t + CollectDelay
  BY DEF CyclesSee
<1>5. Lost(t)' = {}
  BY <1>1, <1>4, ReportsAssumption DEF Lost
<1>6. SnapshotSees'
  <2>1. Cardinality(Lost(t)') <= faults'
    BY <1>1, <1>5, FS_EmptySet
  <2>2. \A f \in Figures : SeenSince(latestSnapshot'[f], t)
    BY <1>1 DEF CyclesSee
  <2> QED
    BY <1>1, <1>2, <1>4, <2>1, <2>2 DEF SnapshotSees
<1> QED
  BY <1>1, <1>3, <1>6

\* A failure loses one cycle.
LEMMA CollectorFailure ==
  ASSUME CollectorInv, NEW t \in DOMAIN collecting, CollectionFails(t)
  PROVE  CollectorInv'
<1> USE DEF CollectorInv
<1>1. /\ UNCHANGED <<now, placedAt, latestSnapshot>> /\ Placed' = Placed
      /\ faults' = faults + 1
      /\ collecting' = [s \in DOMAIN collecting \ {t} |-> collecting[s]]
  BY DEF CollectionFails, Without, Placed
<1>2. \A V, u : SeenSince(V, u)' <=> SeenSince(V, u)
  BY <1>1 DEF SeenSince, Before
<1>3. CyclesSee'
  BY <1>1, <1>2 DEF CyclesSee
<1>4. \A base : Lost(base)' \subseteq Lost(base) \cup {t}
  BY <1>1 DEF Lost
<1>5. SnapshotSees'
  <2> SUFFICES ASSUME latestSnapshot # NoSnapshot
               PROVE  SnapshotSees'
    BY <1>1 DEF SnapshotSees
  <2>1. PICK base \in 1 .. now :
          /\ \A f \in Figures : SeenSince(latestSnapshot[f], base)
          /\ Cardinality(Lost(base)) <= faults
    BY DEF SnapshotSees
  <2>2. IsFiniteSet(Lost(base)) /\ Cardinality(Lost(base)) \in Nat
    BY LostIsFinite
  <2>3. /\ IsFiniteSet(Lost(base) \cup {t})
        /\ \/ Cardinality(Lost(base) \cup {t}) = Cardinality(Lost(base))
           \/ Cardinality(Lost(base) \cup {t}) = Cardinality(Lost(base)) + 1
    BY <2>2, FS_AddElement
  <2>4. /\ Cardinality(Lost(base)') \in Nat
        /\ Cardinality(Lost(base)') <= Cardinality(Lost(base) \cup {t})
    BY <1>4, <2>3, FS_Subset, FS_CardinalityType
  <2>5. Cardinality(Lost(base)') <= faults'
    BY <1>1, <2>1, <2>2, <2>3, <2>4
  <2> QED
    BY <1>1, <1>2, <2>1, <2>5 DEF SnapshotSees
<1> QED
  BY <1>1, <1>3, <1>5

LEMMA CollectorRestart ==
  ASSUME CollectorInv, Restart
  PROVE  CollectorInv'
<1>1. DOMAIN collecting' = {} /\ latestSnapshot' = NoSnapshot
  BY DEF Restart
<1> QED
  BY <1>1 DEF Restart, CollectorInv, CyclesSee, SnapshotSees

LEMMA CollectorStep ==
  ASSUME CollectorInv, [Next]_vars
  PROVE  CollectorInv'
<1>1. CASE UNCHANGED vars
  BY <1>1, CollectorIdle DEF vars
<1>2. CASE Tick
  BY <1>2, CollectorTick
<1>3. CASE \E b \in Bets : PlaceBet(b)
  BY <1>3, CollectorBet
<1>4. ASSUME NEW t \in DOMAIN collecting,
             StoreSnapshot(t) \/ CollectionFails(t) \/ \E f \in Figures : CollectFigure(t, f)
      PROVE  CollectorInv'
  BY <1>4, CollectorStore, CollectorFailure, CollectorQuery
<1>5. CASE \E kind \in {"purchases", "whales"} : Ask(kind)
  BY <1>5, CollectorIdle DEF Ask
<1>6. CASE Query \/ Return
  BY <1>6, CollectorIdle DEF Query, Return
<1>7. CASE Restart
  BY <1>7, CollectorRestart
<1>8. CASE \E m \in DOMAIN CreatorOf : WritePool(m)
  BY <1>8, CollectorIdle DEF WritePool
<1> QED
  BY <1>1, <1>2, <1>3, <1>4, <1>5, <1>6, <1>7, <1>8 DEF Next

LEMMA MultipleRemainder ==
  ASSUME NEW n \in Nat, NEW d \in Nat \ {0}
  PROVE  (n * d) % d = 0 /\ n * d \in Nat
BY Z3

\* Had the snapshot been older, more cycles would have been lost than there were
\* failures.
LEMMA SnapshotAge ==
  ASSUME CollectorInv, NEW base \in 1 .. now, Cardinality(Lost(base)) <= faults
  PROVE  now <= base + MaxAge
<1> USE DEF CollectorInv
<1> SUFFICES ASSUME now > base + MaxAge
             PROVE  FALSE
  BY ReportsAssumption DEF MaxAge
<1> DEFINE CE == CollectEvery
           CD == CollectDelay
           q == (base + CD) \div CE
           n == faults + 1
           f == [i \in 1 .. n |-> (q + i) * CE]
<1>1. CE \in Nat \ {0} /\ CD \in Nat /\ base \in Nat /\ n \in Nat /\ now \in Nat /\ faults \in Nat
  BY ReportsAssumption
<1>2. q \in Nat /\ q * CE <= base + CD /\ base + CD < q * CE + CE /\ q * CE \in Nat
  BY <1>1, FloorBounds, ProductNat
<1>3. n * CE \in Nat /\ now > base + CD + CD + n * CE
  <2>1. n * CE \in Nat
    BY <1>1, ProductNat
  <2>2. MaxAge = CD + CD + n * CE
    BY <1>1 DEF MaxAge
  <2> QED
    BY <1>1, <2>1, <2>2
<1> HIDE DEF q, CE, CD, n
<1>4. ASSUME NEW i \in 1 .. n
      PROVE  /\ (q + i) * CE \in base + CD + 1 .. now /\ now > (q + i) * CE + CD
             /\ ((q + i) * CE) % CE = 0
  <2>1. q + i \in Nat /\ i \in Nat /\ i >= 1 /\ i <= n
    BY <1>1, <1>2
  <2>2. (q + i) * CE = q * CE + i * CE
    BY <1>1, <1>2, <2>1, Z3
  <2>3. i * CE \in Nat /\ CE <= i * CE /\ i * CE <= n * CE
    BY <1>1, <2>1, Z3
  <2>4. ((q + i) * CE) % CE = 0
    BY <1>1, <2>1, MultipleRemainder
  <2> QED
    BY <1>1, <1>2, <1>3, <2>2, <2>3, <2>4
<1>5. \A i, j \in 1 .. n : (q + i) * CE = (q + j) * CE => i = j
  <2> SUFFICES ASSUME NEW i \in 1 .. n, NEW j \in 1 .. n, (q + i) * CE = (q + j) * CE
               PROVE  i = j
    OBVIOUS
  <2>1. i \in Nat /\ j \in Nat
    BY <1>1
  <2> QED
    BY <1>1, <1>2, <2>1, Z3
<1>6. \A i \in 1 .. n : f[i] \in Lost(base)
  <2>1. \A t \in DOMAIN collecting : t \in 1 .. now /\ now <= t + CD
    BY DEF CyclesSee, CD
  <2>2. \A i \in 1 .. n : (q + i) * CE \notin DOMAIN collecting
    BY <1>1, <1>4, <2>1
  <2> QED
    BY <1>4, <2>2 DEF Lost, CE, CD
<1>7. f \in Injection(1 .. n, Lost(base))
  BY <1>5, <1>6 DEF Injection, IsInjective
<1>8. IsFiniteSet(Lost(base)) /\ Cardinality(Lost(base)) \in Nat
  BY <1>1, LostIsFinite
<1>9. IsFiniteSet(1 .. n) /\ Cardinality(1 .. n) = n
  BY <1>1, FirstNumbers
<1>10. n <= Cardinality(Lost(base))
  <2> HIDE DEF f
  <2> QED
    BY <1>7, <1>8, <1>9, FS_Injection
<1> QED
  BY <1>1, <1>8, <1>10 DEF n

\* Who has the most in the snapshot has no less than any whale of old.
LEMMA TopWhaleIs ==
  ASSUME NEW V \in SUBSET Placed, NEW old \in SUBSET V, NEW whales \in WhaleAggregate(V, 50),
         NEW u \in UsersOf(old), Largest(BetsBy(old, u)) >= MinBetAmount
  PROVE  /\ Slice(whales, 0, 1) # <<>>
         /\ Volume(BetsBy(Placed, Slice(whales, 0, 1)[1])) >= Volume(BetsBy(old, u))
<1> DEFINE W == {v \in UsersOf(V) : Largest(BetsBy(V, v)) >= MinBetAmount}
           Wagered(v) == Volume(BetsBy(V, v))
<1>1. Placed \in SUBSET Bets /\ V \in SUBSET Bets /\ old \in SUBSET Bets
  BY DEF Placed
<1>2. \A v : /\ BetsBy(old, v) \in SUBSET BetsBy(V, v) /\ BetsBy(V, v) \in SUBSET BetsBy(Placed, v)
             /\ BetsBy(V, v) \in SUBSET Bets /\ BetsBy(Placed, v) \in SUBSET Bets
  BY <1>1 DEF BetsBy
<1>3. u \in W
  <2>1. BetsBy(old, u) # {} /\ u \in UsersOf(V)
    BY DEF BetsBy, UsersOf
  <2>2. /\ Largest(BetsBy(old, u)) \in Nat /\ Largest(BetsBy(V, u)) \in Nat
        /\ Largest(BetsBy(old, u)) <= Largest(BetsBy(V, u))
    BY <1>2, <2>1, LargestGrows
  <2> QED
    BY <2>1, <2>2, ReportsAssumption
<1>4. IsFiniteSet(W)
  <2>1. IsFiniteSet(V)
    BY <1>1, ReportsAssumption, FS_Subset
  <2> DEFINE f == [b \in V |-> UserOf[b]]
  <2>2. IsFiniteSet({f[b] : b \in V})
    <3>1. DOMAIN f = V /\ f = [b \in V |-> f[b]]
      OBVIOUS
    <3> HIDE DEF f
    <3> QED
      BY <2>1, <3>1, ValuesOf
  <2>3. W \subseteq {f[b] : b \in V}
    BY DEF UsersOf
  <2> QED
    BY <2>2, <2>3, FS_Subset
<1>5. PICK s \in SetToSeqs(W) :
        /\ whales = Slice(s, 0, 50)
        /\ \A i, j \in DOMAIN s : i < j => Wagered(s[i]) >= Wagered(s[j])
  BY DEF WhaleAggregate, Ranked
<1>6. \A v \in W : Wagered(v) \in Nat
  BY <1>2, VolumeGrows
<1>7. /\ Len(s) \in Nat \ {0} /\ s \in [1 .. Len(s) -> W]
      /\ s[1] \in W /\ Wagered(u) <= Wagered(s[1])
  <2> DEFINE key == [v \in W |-> Wagered(v)]
  <2> HIDE DEF W, Wagered
  <2>1. s \in [1 .. Cardinality(W) -> W] /\ \A i \in DOMAIN s : s[i] \in W
    BY <1>5 DEF SetToSeqs
  <2>2. key \in [W -> Nat] /\ \A i, j \in DOMAIN s : i < j => key[s[i]] >= key[s[j]]
    BY <1>5, <1>6, <2>1
  <2>3. /\ Len(s) \in Nat \ {0} /\ s \in [1 .. Len(s) -> W]
        /\ s[1] \in W /\ key[u] <= key[s[1]]
    <3> HIDE DEF key
    <3> QED
      BY <1>3, <1>4, <1>5, <2>2, BestIsFirst
  <2> QED
    BY <1>3, <2>3
<1>8. Slice(whales, 0, 1) # <<>> /\ Slice(whales, 0, 1)[1] = s[1]
  <2> HIDE DEF W
  <2>0. 1 \in Nat \ {0} /\ 50 \in Nat \ {0}
    OBVIOUS
  <2>1. /\ whales \in Seq(W) /\ Len(whales) \in Nat \ {0} /\ whales[1] = s[1]
    BY <1>5, <1>7, <2>0, HeadOfSlice, Zenon
  <2>2. whales \in [1 .. Len(whales) -> W]
    BY <2>1
  <2>3. /\ Slice(whales, 0, 1)[1] = whales[1] /\ Len(Slice(whales, 0, 1)) \in Nat \ {0}
    BY <2>0, <2>1, <2>2, HeadOfSlice, Zenon
  <2> QED
    BY <2>1, <2>3
<1>9. /\ Volume(BetsBy(old, u)) \in Nat /\ Wagered(u) \in Nat /\ Wagered(s[1]) \in Nat
      /\ Volume(BetsBy(Placed, s[1])) \in Nat
      /\ Volume(BetsBy(old, u)) <= Wagered(u)
      /\ Wagered(s[1]) <= Volume(BetsBy(Placed, s[1]))
  BY <1>2, VolumeGrows
<1> QED
  BY <1>7, <1>8, <1>9

\* A rounded figure is within half a millionth of what it stands for.
LEMMA FixedIsNear ==
  ASSUME NEW x \in Int, NEW n \in Fixed(x)
  PROVE  n \in Int /\ 10000 * n <= x + 5000 /\ x <= 10000 * n + 5000
<1>1. x \div 10000 \in Int
  BY Z3
<1> QED
  BY <1>1 DEF Fixed

LEMMA FeeIsNear ==
  ASSUME NEW bps \in Int, NEW volume \in Nat, NEW fee \in Fee(bps, volume)
  PROVE  fee \in Int /\ 10000 * fee <= volume * bps + 5000 /\ volume * bps <= 10000 * fee + 5000
<1>1. volume * bps \in Int
  BY Z3
<1>2. fee \in Fixed(volume * bps)
  BY DEF Fee
<1> QED
  BY <1>1, <1>2, FixedIsNear

\* The fee of more bets is no less but for its rounding.
LEMMA FeeGrows ==
  ASSUME NEW few \in Nat, NEW many \in Nat, few <= many,
         NEW fee \in Fee(FeeBps.protocol, many)
  PROVE  10000 * fee + 5000 >= FeeBps.protocol * few
<1>1. FeeBps.protocol \in Nat
  BY ReportsAssumption
<1>2. many * FeeBps.protocol <= 10000 * fee + 5000 /\ fee \in Int
  BY <1>1, FeeIsNear
<1>3. \A v, w, d \in Nat : v <= w => w * d >= d * v /\ w * d \in Nat /\ d * v \in Nat
  BY Z3
<1> QED
  BY <1>1, <1>2, <1>3

\* What the dashboard says of a snapshot that sees the old bets.
LEMMA SnapshotShows ==
  ASSUME NEW old \in SUBSET Placed, latestSnapshot # NoSnapshot,
         \A f \in Figures : old \subseteq latestSnapshot[f] /\ latestSnapshot[f] \subseteq Placed,
         NEW dashboard \in GetDashboard(latestSnapshot, Placed, Placed)
  PROVE  /\ dashboard.totalVolume \in Volume(old) .. Volume(Placed)
         /\ dashboard.totalBets \in Cardinality(old) .. Cardinality(Placed)
         /\ 10000 * dashboard.estimatedRevenue + 5000 >= FeeBps.protocol * Volume(old)
         /\ \A u \in UsersOf(old) : Largest(BetsBy(old, u)) >= MinBetAmount =>
              /\ dashboard.topWhale # <<>>
              /\ Volume(BetsBy(Placed, dashboard.topWhale[1])) >= Volume(BetsBy(old, u))
<1>1. /\ Placed \in SUBSET Bets
      /\ latestSnapshot.allTime \in SUBSET Placed /\ old \in SUBSET latestSnapshot.allTime
      /\ latestSnapshot.whales \in SUBSET Placed /\ old \in SUBSET latestSnapshot.whales
  BY DEF Placed, Figures
<1>2. PICK fee \in Fee(FeeBps.protocol, Volume(latestSnapshot.allTime)),
           whales \in WhaleAggregate(latestSnapshot.whales, 50) :
        dashboard = [totalVolume |-> Volume(latestSnapshot.allTime),
                     totalBets |-> Cardinality(latestSnapshot.allTime),
                     estimatedRevenue |-> fee,
                     topWhale |-> Slice(whales, 0, 1)]
  BY DEF GetDashboard, NoSnapshot
<1>3. /\ Volume(old) \in Nat /\ Volume(latestSnapshot.allTime) \in Nat /\ Volume(Placed) \in Nat
      /\ Volume(old) <= Volume(latestSnapshot.allTime)
      /\ Volume(latestSnapshot.allTime) <= Volume(Placed)
      /\ Cardinality(old) \in Nat /\ Cardinality(latestSnapshot.allTime) \in Nat
      /\ Cardinality(Placed) \in Nat
      /\ Cardinality(old) <= Cardinality(latestSnapshot.allTime)
      /\ Cardinality(latestSnapshot.allTime) <= Cardinality(Placed)
  BY <1>1, VolumeGrows
<1>4. 10000 * fee + 5000 >= FeeBps.protocol * Volume(old)
  BY <1>3, FeeGrows
<1>5. \A u \in UsersOf(old) : Largest(BetsBy(old, u)) >= MinBetAmount =>
        /\ Slice(whales, 0, 1) # <<>>
        /\ Volume(BetsBy(Placed, Slice(whales, 0, 1)[1])) >= Volume(BetsBy(old, u))
  BY <1>1, TopWhaleIs
<1> QED
  BY <1>2, <1>3, <1>4, <1>5

LEMMA SnapshotIsRecent ==
  ASSUME CollectorInv
  PROVE  DashboardIsRecent
<1> USE DEF CollectorInv
<1> DEFINE old == {b \in Placed : placedAt[b] < now - MaxAge}
<1>1. Placed \in SUBSET Bets /\ old \in SUBSET Placed /\ \A b \in Placed : placedAt[b] \in Nat
  BY DEF Placed
<1>2. CASE latestSnapshot = NoSnapshot
  <2>1. /\ Volume(old) \in Nat /\ Volume(Placed) \in Nat /\ Volume(old) <= Volume(Placed)
        /\ Cardinality(old) \in Nat /\ Cardinality(Placed) \in Nat
        /\ Cardinality(old) <= Cardinality(Placed)
    BY <1>1, VolumeGrows
  <2> HIDE DEF old
  <2>2. \A fee \in Fee(FeeBps.protocol, Volume(Placed)) :
          10000 * fee + 5000 >= FeeBps.protocol * Volume(old)
    BY <2>1, FeeGrows
  <2>3. \A dashboard \in GetDashboard(latestSnapshot, Placed, Placed) :
          /\ dashboard.totalVolume = Volume(Placed) /\ dashboard.totalBets = Cardinality(Placed)
          /\ dashboard.estimatedRevenue \in Fee(FeeBps.protocol, Volume(Placed))
    BY <1>2 DEF GetDashboard, NoSnapshot
  <2>4. DashboardShows(old)
    BY <1>2, <2>1, <2>2, <2>3 DEF DashboardShows
  <2> QED
    BY <2>4 DEF DashboardIsRecent, old
<1>3. CASE latestSnapshot # NoSnapshot
  <2>1. PICK base \in 1 .. now :
          /\ \A f \in Figures : SeenSince(latestSnapshot[f], base)
          /\ Cardinality(Lost(base)) <= faults
    BY <1>3 DEF SnapshotSees
  <2>2. now <= base + MaxAge /\ MaxAge \in Int
    <3>1. (1 + faults) * CollectEvery \in Nat
      BY ReportsAssumption, ProductNat
    <3> QED
      BY <2>1, <3>1, SnapshotAge, ReportsAssumption DEF MaxAge
  <2>3. old \subseteq Before(base)
    BY <1>1, <2>2 DEF Before
  <2>4. \A f \in Figures : old \subseteq latestSnapshot[f] /\ latestSnapshot[f] \subseteq Placed
    BY <2>1, <2>3 DEF SeenSince
  <2> HIDE DEF old
  <2>5. DashboardShows(old)
    BY <1>1, <1>3, <2>4, SnapshotShows DEF DashboardShows
  <2> QED
    BY <2>5 DEF DashboardIsRecent, old
<1> QED
  BY <1>2, <1>3

\* The dashboard lags behind the bets by no more than MaxAge, for cycles of any length
\* and delay that overlap, end out of order, fail or are lost with the process: a
\* snapshot that was older would mean more lost cycles than there were failures.
THEOREM DashboardLagIsBounded == Spec => []DashboardIsRecent
<1>1. Init => CollectorInv
  BY CollectorInit
<1>2. CollectorInv /\ [Next]_vars => CollectorInv'
  BY CollectorStep
<1>3. CollectorInv => DashboardIsRecent
  BY SnapshotIsRecent
<1> QED
  BY <1>1, <1>2, <1>3, PTL DEF Spec

------------------------------------------------------------------------------
(* The rows of whales.                                                      *)

Preceding(own, j) == {k \in own : k < j}

\* The first N of a set of positions: all of it, or N.
LEMMA FirstPositions ==
  ASSUME NEW n \in Nat, NEW own, own \subseteq 1 .. n, NEW N \in Nat,
         NEW first, first \subseteq own,
         \A j \in own : j \in first <=> Cardinality(Preceding(own, j)) < N
  PROVE  /\ IsFiniteSet(first) /\ Cardinality(first) \in Nat /\ Cardinality(first) <= N
         /\ first # own => Cardinality(first) = N
         /\ \A i \in own \ first, j \in first : j < i
<1>0. \A k \in own : k \in Nat /\ k <= n
  OBVIOUS
<1>1. IsFiniteSet(own) /\ \A S \in SUBSET own : IsFiniteSet(S) /\ Cardinality(S) \in Nat
  <2>1. IsFiniteSet(1 .. n)
    BY FirstNumbers
  <2> QED
    BY <2>1, FS_Subset, FS_CardinalityType
<1>2. \A i, j \in own : i <= j => Cardinality(Preceding(own, i)) <= Cardinality(Preceding(own, j))
  <2> SUFFICES ASSUME NEW i \in own, NEW j \in own, i <= j
               PROVE  Cardinality(Preceding(own, i)) <= Cardinality(Preceding(own, j))
    OBVIOUS
  <2>1. Preceding(own, i) \subseteq Preceding(own, j) /\ Preceding(own, j) \in SUBSET own
    <3>1. \A k \in own : k < i => k < j
      BY <1>0
    <3> QED
      BY <3>1, Zenon DEF Preceding
  <2> HIDE DEF Preceding
  <2> QED
    BY <1>1, <2>1, FS_Subset
<1>3. \A j \in own : Cardinality(Preceding(own, j)) \in Nat /\ (j \in first <=> Cardinality(Preceding(own, j)) < N)
  <2>1. \A j \in own : Preceding(own, j) \in SUBSET own
    BY DEF Preceding
  <2> QED
    BY <1>1, <2>1
<1> HIDE DEF Preceding
<1>4. \A i \in own \ first, j \in first : j < i
  BY <1>0, <1>2, <1>3
<1>5. first \in SUBSET own /\ IsFiniteSet(first) /\ Cardinality(first) \in Nat
  BY <1>1
<1>6. Cardinality(first) <= N
  <2>1. CASE first = {}
    <3>1. Cardinality(first) = 0
      BY <2>1, FS_EmptySet
    <3> QED
      BY <3>1
  <2>2. CASE first # {}
    <3>1. PICK t \in first : \A j \in first : j <= t
      <4>1. first \in SUBSET Nat /\ \A j \in first : j <= n
        BY <1>0
      <4> QED
        BY <2>2, <4>1, LargestExists
    <3>2. first \subseteq Preceding(own, t) \cup {t} /\ t \in own
      BY <1>0, <3>1 DEF Preceding
    <3>3. /\ IsFiniteSet(Preceding(own, t)) /\ Cardinality(Preceding(own, t)) \in Nat
          /\ Cardinality(Preceding(own, t)) < N
      BY <1>1, <1>3, <3>1, <3>2 DEF Preceding
    <3>4. /\ IsFiniteSet(Preceding(own, t) \cup {t})
          /\ Cardinality(Preceding(own, t) \cup {t}) \in Nat
          /\ Cardinality(Preceding(own, t) \cup {t}) <= Cardinality(Preceding(own, t)) + 1
      <4>1. /\ IsFiniteSet(Preceding(own, t) \cup {t})
            /\ \/ Cardinality(Preceding(own, t) \cup {t}) = Cardinality(Preceding(own, t))
               \/ Cardinality(Preceding(own, t) \cup {t}) = Cardinality(Preceding(own, t)) + 1
        BY <3>3, FS_AddElement
      <4> QED
        BY <3>3, <4>1
    <3>5. Cardinality(first) <= Cardinality(Preceding(own, t) \cup {t})
      BY <3>2, <3>4, FS_Subset
    <3> QED
      BY <1>5, <3>3, <3>4, <3>5
  <2> QED
    BY <2>1, <2>2
<1>7. ASSUME first # own
      PROVE  Cardinality(first) >= N
  <2> DEFINE rest == own \ first
  <2>1. rest \in SUBSET Nat /\ rest # {}
    BY <1>0, <1>7
  <2>2. PICK m \in rest : \A i \in rest : m <= i
    <3> HIDE DEF rest
    <3> QED
      BY <2>1, SmallestExists
  <2>3. Preceding(own, m) \subseteq first
    <3>1. \A k \in own : k < m => k \notin rest
      BY <1>0, <2>2
    <3> QED
      BY <3>1, Zenon DEF Preceding
  <2>4. Cardinality(Preceding(own, m)) >= N /\ Cardinality(Preceding(own, m)) \in Nat
    BY <1>3, <2>2
  <2>5. Cardinality(Preceding(own, m)) <= Cardinality(first)
    BY <1>5, <2>3, FS_Subset
  <2> QED
    BY <1>5, <2>4, <2>5
<1> QED
  BY <1>4, <1>5, <1>6, <1>7

\* A cut list of the newest bets of R: the first bets of a user in it are the user's
\* newest, and fewer only if the list ends before.
LEMMA FirstOfNewest ==
  ASSUME placedAt \in [Bets -> Nat], NEW R \in SUBSET Bets, NEW limit \in Nat, NEW u,
         NEW recent \in {Slice(s, 0, limit) : s \in Newest(R)}, PerWhale \in Nat
  PROVE  /\ FirstOf(recent, u) \subseteq BetsBy(R, u)
         /\ \A b \in BetsBy(R, u) \ FirstOf(recent, u), c \in FirstOf(recent, u) :
              placedAt[b] <= placedAt[c]
         /\ \A b \in BetsBy(R, u) \ FirstOf(recent, u) :
              \/ Cardinality(FirstOf(recent, u)) = PerWhale
              \/ Cardinality({c \in R : placedAt[c] >= placedAt[b]}) > limit
<1>1. IsFiniteSet(R)
  BY ReportsAssumption, FS_Subset
<1>2. PICK s \in SetToSeqs(R) :
        /\ recent = Slice(s, 0, limit)
        /\ \A i, j \in DOMAIN s : i < j => placedAt[s[i]] >= placedAt[s[j]]
  BY DEF Newest, Ranked
<1>3. /\ Len(s) \in Nat /\ s \in [1 .. Len(s) -> R] /\ DOMAIN s = 1 .. Len(s)
      /\ \A i, j \in 1 .. Len(s) : i # j => s[i] # s[j]
      /\ \A x \in R : \E i \in 1 .. Len(s) : s[i] = x
  BY <1>1, ListOfSet
<1> DEFINE n == Len(recent)
           own == {i \in DOMAIN recent : UserOf[recent[i]] = u}
           first == {j \in own : Cardinality({k \in own : k < j}) < PerWhale}
<1>4. /\ n \in Nat /\ n <= limit /\ DOMAIN recent = 1 .. n
      /\ n < limit => Len(s) <= n
      /\ n <= Len(s) /\ \A k \in 1 .. n : recent[k] = s[k]
  <2>1. 0 \in Nat
    OBVIOUS
  <2>2. recent \in Seq(R) /\ IsPageOf(recent, s, Len(s), 0, limit)
    BY <1>2, <1>3, <2>1, SliceOf
  <2>3. n \in Nat /\ DOMAIN recent = 1 .. n
    BY <2>2
  <2>4. /\ n <= limit
        /\ n < limit => Len(s) <= 0 + n
        /\ \A k \in 1 .. n : 0 + k \in 1 .. Len(s) /\ recent[k] = s[0 + k]
    BY <2>2 DEF IsPageOf
  <2> HIDE DEF n
  <2>5. \A k \in 1 .. n : k \in 1 .. Len(s) /\ recent[k] = s[k]
    <3> TAKE k \in 1 .. n
    <3>1. 0 + k = k
      BY <2>3
    <3> QED
      BY <2>4, <3>1
  <2>6. n <= Len(s)
    <3>1. n = 0 \/ n \in 1 .. n
      BY <2>3
    <3> QED
      BY <1>3, <2>3, <2>5, <3>1
  <2>7. n < limit => Len(s) <= n
    BY <1>3, <2>3, <2>4
  <2> QED
    BY <2>3, <2>4, <2>5, <2>6, <2>7
<1>5. own \subseteq 1 .. n /\ FirstOf(recent, u) = {recent[i] : i \in first}
  BY <1>4 DEF FirstOf
<1>6. /\ IsFiniteSet(first) /\ Cardinality(first) \in Nat /\ Cardinality(first) <= PerWhale
      /\ first # own => Cardinality(first) = PerWhale
      /\ \A i \in own \ first, j \in first : j < i
  <2>1. /\ first \subseteq own
        /\ \A j \in own : j \in first <=> Cardinality(Preceding(own, j)) < PerWhale
    BY DEF Preceding
  <2>2. n \in Nat /\ own \subseteq 1 .. n
    BY <1>4, <1>5
  <2> HIDE DEF n, own, first
  <2> QED
    BY <2>1, <2>2, FirstPositions, Zenon
<1>7. first \in SUBSET own /\ \A i \in first : recent[i] = s[i] /\ s[i] \in BetsBy(R, u)
  BY <1>3, <1>4 DEF BetsBy
<1> HIDE DEF first
<1>8. FirstOf(recent, u) \subseteq BetsBy(R, u)
  BY <1>5, <1>7
<1>9. Cardinality(FirstOf(recent, u)) = Cardinality(first)
  <2> DEFINE f == [i \in first |-> recent[i]]
  <2>1. f \in Bijection(first, FirstOf(recent, u))
    <3>1. f \in [first -> FirstOf(recent, u)]
      BY <1>5
    <3>2. \A i, j \in first : f[i] = f[j] => i = j
      BY <1>3, <1>4, <1>7
    <3>3. \A b \in FirstOf(recent, u) : \E i \in first : f[i] = b
      BY <1>5
    <3> HIDE DEF f
    <3> QED
      BY <3>1, <3>2, <3>3 DEF Bijection, Injection, Surjection, IsInjective
  <2> HIDE DEF f
  <2> QED
    BY <1>6, <2>1, FS_Bijection DEF ExistsBijection
<1>10. ASSUME NEW b \in BetsBy(R, u) \ FirstOf(recent, u)
       PROVE  \E p \in 1 .. Len(s) : s[p] = b /\ (p > n \/ p \in own \ first)
  <2>1. PICK p \in 1 .. Len(s) : s[p] = b
    BY <1>3 DEF BetsBy
  <2>2. UserOf[b] = u
    BY DEF BetsBy
  <2> QED
    BY <1>4, <1>5, <2>1, <2>2
<1>11. ASSUME NEW b \in BetsBy(R, u) \ FirstOf(recent, u), NEW c \in FirstOf(recent, u)
       PROVE  placedAt[b] <= placedAt[c]
  <2>1. PICK p \in 1 .. Len(s) : s[p] = b /\ (p > n \/ p \in own \ first)
    BY <1>10
  <2>2. PICK j \in first : c = recent[j]
    BY <1>5
  <2>3. j \in 1 .. n /\ j < p /\ s[j] = c
    BY <1>4, <1>5, <1>6, <1>7, <2>1, <2>2
  <2>4. j \in 1 .. Len(s)
    BY <1>3, <1>4, <2>3
  <2>5. placedAt[c] >= placedAt[b] /\ placedAt[c] \in Nat /\ placedAt[b] \in Nat
    BY <1>2, <1>3, <2>1, <2>3, <2>4
  <2> QED
    BY <2>5
<1>12. ASSUME NEW b \in BetsBy(R, u) \ FirstOf(recent, u),
              Cardinality(FirstOf(recent, u)) # PerWhale
       PROVE  Cardinality({c \in R : placedAt[c] >= placedAt[b]}) > limit
  <2> DEFINE newer == {c \in R : placedAt[c] >= placedAt[b]}
             f == [i \in 1 .. limit + 1 |-> s[i]]
  <2>1. PICK p \in 1 .. Len(s) : s[p] = b /\ p > n
    BY <1>6, <1>9, <1>10, <1>12
  <2>2. limit + 1 <= p /\ limit + 1 \in Nat
    BY <1>3, <1>4, <2>1
  <2>3. \A i \in 1 .. limit + 1 : i \in 1 .. Len(s) /\ s[i] \in newer
    <3> TAKE i \in 1 .. limit + 1
    <3>1. i \in 1 .. Len(s) /\ i <= p
      BY <1>3, <2>1, <2>2
    <3>2. s[i] \in R /\ b \in R /\ placedAt[s[i]] \in Nat /\ placedAt[b] \in Nat
      BY <1>3, <2>1, <3>1
    <3>3. placedAt[s[i]] >= placedAt[b]
      BY <1>2, <1>3, <2>1, <3>1, <3>2
    <3> QED
      BY <3>1, <3>2, <3>3
  <2>4. f \in Injection(1 .. limit + 1, newer)
    BY <1>3, <2>3 DEF Injection, IsInjective
  <2>5. IsFiniteSet(newer) /\ Cardinality(newer) \in Nat
    <3>1. newer \subseteq R
      OBVIOUS
    <3> QED
      BY <1>1, <3>1, FS_Subset, FS_CardinalityType
  <2>6. Cardinality(1 .. limit + 1) = limit + 1
    BY <2>2, FirstNumbers
  <2> HIDE DEF newer, f
  <2>7. limit + 1 <= Cardinality(newer)
    BY <2>4, <2>5, <2>6, FS_Injection
  <2> QED
    BY <2>5, <2>7 DEF newer
<1> QED
  BY <1>8, <1>11, <1>12

\* No market has more of a user's bets than a favourite, so that the bets fill no more
\* than all markets times the favourite's.
LEMMA FavouritesFill ==
  ASSUME NEW own \in SUBSET Bets, NEW most \in Nat,
         \A m \in MarketsOf(own) : Cardinality(BetsIn(own, m)) <= most
  PROVE  /\ most * Cardinality(MarketsOf(own)) \in Nat
         /\ Cardinality(own) <= most * Cardinality(MarketsOf(own))
<1> DEFINE M == MarketsOf(own)
           place == [m \in M |-> CHOOSE h : h \in Injection(BetsIn(own, m), 1 .. most)]
           f == [b \in own |-> <<MarketOf[b], place[MarketOf[b]][b]>>]
<1>1. IsFiniteSet(own) /\ Cardinality(own) \in Nat
  BY ReportsAssumption, FS_Subset, FS_CardinalityType
<1>2. IsFiniteSet(M) /\ Cardinality(M) \in Nat
  <2> DEFINE g == [b \in own |-> MarketOf[b]]
  <2>1. IsFiniteSet({g[b] : b \in own})
    BY <1>1, ValuesOf
  <2>2. M = {g[b] : b \in own}
    BY DEF MarketsOf
  <2> QED
    BY <2>1, <2>2, FS_CardinalityType
<1>3. ASSUME NEW m \in M
      PROVE  place[m] \in Injection(BetsIn(own, m), 1 .. most)
  <2> DEFINE n == Cardinality(BetsIn(own, m))
  <2>1. IsFiniteSet(BetsIn(own, m)) /\ n \in Nat /\ n <= most
    <3>1. BetsIn(own, m) \subseteq own
      BY DEF BetsIn
    <3> QED
      BY <1>1, <3>1, FS_Subset, FS_CardinalityType
  <2>2. IsFiniteSet(1 .. n) /\ Cardinality(1 .. n) = n
    BY <2>1, FirstNumbers
  <2>3. PICK h \in Bijection(BetsIn(own, m), 1 .. n) : TRUE
    BY <2>1, <2>2, FS_SameCardinalityBij DEF ExistsBijection
  <2>4. 1 .. n \subseteq 1 .. most
    BY <2>1
  <2> HIDE DEF n
  <2>5. h \in Injection(BetsIn(own, m), 1 .. most)
    BY <2>3, <2>4 DEF Bijection, Injection, IsInjective
  <2> QED
    BY <2>5
<1>4. \A b \in own : MarketOf[b] \in M /\ b \in BetsIn(own, MarketOf[b])
  BY DEF MarketsOf, BetsIn
<1> HIDE DEF place, M
<1>5. f \in Injection(own, M \X (1 .. most))
  <2>1. f \in [own -> M \X (1 .. most)]
    BY <1>3, <1>4 DEF Injection
  <2>2. \A b, c \in own : f[b] = f[c] => b = c
    <3> SUFFICES ASSUME NEW b \in own, NEW c \in own, f[b] = f[c]
                 PROVE  b = c
      OBVIOUS
    <3>1. MarketOf[b] = MarketOf[c] /\ place[MarketOf[b]][b] = place[MarketOf[b]][c]
      OBVIOUS
    <3>2. place[MarketOf[b]] \in Injection(BetsIn(own, MarketOf[b]), 1 .. most)
      BY <1>3, <1>4
    <3>3. b \in BetsIn(own, MarketOf[b]) /\ c \in BetsIn(own, MarketOf[b])
      BY <1>4, <3>1
    <3> QED
      BY <3>1, <3>2, <3>3 DEF Injection, IsInjective
  <2> QED
    BY <2>1, <2>2 DEF Injection, IsInjective
<1>6. /\ IsFiniteSet(1 .. most) /\ Cardinality(1 .. most) = most
      /\ IsFiniteSet(M \X (1 .. most))
      /\ Cardinality(M \X (1 .. most)) = Cardinality(M) * most
  <2>1. IsFiniteSet(1 .. most) /\ Cardinality(1 .. most) = most
    BY FirstNumbers
  <2> QED
    BY <1>2, <2>1, FS_Product
<1>7. Cardinality(own) <= Cardinality(M) * most
  <2> HIDE DEF f
  <2> QED
    BY <1>5, <1>6, FS_Injection
<1>8. Cardinality(M) * most = most * Cardinality(M) /\ most * Cardinality(M) \in Nat
  BY <1>2, ProductNat, Z3
<1> QED
  BY <1>7, <1>8 DEF M

\* The views of a report on whales, one later than the other.
WhaleViews ==
  request.kind = "whales" =>
    LET views == request.views
    IN  \/ request.stages = <<"whales", "recent", "favorites">> /\ views = <<>>
        \/ /\ request.stages = <<"recent", "favorites">> /\ DOMAIN views = {"whales"}
           /\ views.whales \subseteq Placed
        \/ /\ request.stages = <<"favorites">> /\ DOMAIN views = {"whales", "recent"}
           /\ views.whales \subseteq views.recent /\ views.recent \subseteq Placed
        \/ request.stages = <<>> /\ DOMAIN views = {"whales"}
        \/ /\ request.stages = <<>> /\ DOMAIN views = {"whales", "recent", "favorites"}
           /\ views.whales \subseteq views.recent /\ views.recent \subseteq views.favorites
           /\ views.favorites \subseteq Placed

WhaleInv == ReportTypes /\ WhaleViews

LEMMA WhalesIdle ==
  ASSUME WhaleInv, request' = request, Placed \subseteq Placed'
  PROVE  WhaleViews'
<1> QED
  BY DEF WhaleInv, WhaleViews

LEMMA WhalesQuery ==
  ASSUME WhaleInv, Query
  PROVE  WhaleViews'
<1> USE DEF WhaleInv
<1>1. Placed' = Placed
  BY DEF Query, Placed
<1> DEFINE q == Head(request.stages)
<1>2. /\ request.stages # <<>> /\ request.kind # "none"
      /\ request'.kind = request.kind /\ request'.views = With(request.views, q, Placed)
      /\ \/ request'.stages = Tail(request.stages)
         \/ q = "whales" /\ request'.stages = <<>>
  BY DEF Query, ReportTypes, NoRequest
<1>3. /\ DOMAIN With(request.views, q, Placed) = DOMAIN request.views \cup {q}
      /\ With(request.views, q, Placed)[q] = Placed
      /\ \A v \in DOMAIN request.views : v # q =>
           With(request.views, q, Placed)[v] = request.views[v]
  BY DEF With
<1> SUFFICES ASSUME request.kind = "whales"
             PROVE  WhaleViews'
  BY <1>2 DEF WhaleViews
<1>4. CASE request.stages = <<"whales", "recent", "favorites">> /\ request.views = <<>>
  <2>1. q = "whales" /\ Tail(request.stages) = <<"recent", "favorites">>
    BY <1>4
  <2>2. DOMAIN request'.views = {"whales"} /\ request'.views.whales = Placed
    BY <1>2, <1>3, <1>4, <2>1
  <2> QED
    BY <1>1, <1>2, <2>1, <2>2 DEF WhaleViews
<1>5. CASE /\ request.stages = <<"recent", "favorites">> /\ DOMAIN request.views = {"whales"}
           /\ request.views.whales \subseteq Placed
  <2>1. q = "recent" /\ Tail(request.stages) = <<"favorites">>
    BY <1>5
  <2>2. /\ DOMAIN request'.views = {"whales", "recent"}
        /\ request'.views.recent = Placed /\ request'.views.whales = request.views.whales
    BY <1>2, <1>3, <1>5, <2>1
  <2> QED
    BY <1>1, <1>2, <1>5, <2>1, <2>2 DEF WhaleViews
<1>6. CASE /\ request.stages = <<"favorites">> /\ DOMAIN request.views = {"whales", "recent"}
           /\ request.views.whales \subseteq request.views.recent
           /\ request.views.recent \subseteq Placed
  <2>1. q = "favorites" /\ Tail(request.stages) = <<>>
    BY <1>6
  <2>2. /\ DOMAIN request'.views = {"whales", "recent", "favorites"}
        /\ request'.views.favorites = Placed /\ request'.views.whales = request.views.whales
        /\ request'.views.recent = request.views.recent
    BY <1>2, <1>3, <1>6, <2>1
  <2> QED
    BY <1>1, <1>2, <1>6, <2>1, <2>2 DEF WhaleViews
<1> QED
  BY <1>2, <1>4, <1>5, <1>6 DEF WhaleViews

LEMMA WhalesStep ==
  ASSUME WhaleInv, [Next]_vars
  PROVE  WhaleViews'
<1>1. CASE UNCHANGED vars
  BY <1>1, WhalesIdle DEF vars, Placed
<1>2. CASE Tick
  BY <1>2, WhalesIdle DEF Tick, Placed
<1>3. ASSUME NEW b \in Bets, PlaceBet(b)
      PROVE  WhaleViews'
  <2>1. Placed \subseteq Placed'
    BY <1>3 DEF WhaleInv, ReportTypes, PlaceBet, Placed
  <2> QED
    BY <1>3, <2>1, WhalesIdle DEF PlaceBet
<1>4. ASSUME NEW t \in DOMAIN collecting,
             StoreSnapshot(t) \/ CollectionFails(t) \/ \E f \in Figures : CollectFigure(t, f)
      PROVE  WhaleViews'
  BY <1>4, WhalesIdle DEF StoreSnapshot, CollectionFails, CollectFigure, Placed
<1>5. ASSUME NEW kind \in {"purchases", "whales"}, Ask(kind)
      PROVE  WhaleViews'
  BY <1>5 DEF Ask, WhaleViews, Stages
<1>6. CASE Query
  BY <1>6, WhalesQuery
<1>7. CASE Return \/ Restart
  BY <1>7 DEF Return, Restart, WhaleViews, NoRequest
<1>8. CASE \E m \in DOMAIN CreatorOf : WritePool(m)
  BY <1>8, WhalesIdle DEF WritePool, Placed
<1> QED
  BY <1>1, <1>2, <1>3, <1>4, <1>5, <1>6, <1>7, <1>8 DEF Next

\* What one row shows.
RowHolds(views, whales, recent, u) ==
  LET row   == WhaleActivity(views, recent, u)
      late  == views.favorites \ views.whales
      own   == BetsBy(views.recent, u)
      shown == row.recentBets
  IN  /\ \A b \in own \ shown, c \in shown : placedAt[b] <= placedAt[c]
      /\ \A b \in own \ shown :
           \/ Cardinality(shown) = PerWhale
           \/ Cardinality({c \in views.recent :
                 UserOf[c] \in ToSet(whales) /\ placedAt[c] >= placedAt[b]})
                > WhaleLimit * PerWhale
      /\ \A b \in shown : AmountOf[b] <= row.largestBet \/ b \in late
      /\ Cardinality(shown) <= row.betCount + Cardinality(late)
      /\ late = {} => \A m \in row.favoriteMarkets :
           Cardinality(BetsIn(own, m)) * Cardinality(MarketsOf(own)) >= row.betCount

LEMMA WhaleRow ==
  ASSUME placedAt \in [Bets -> Nat], NEW views, views.favorites \subseteq Bets,
         views.recent \subseteq views.favorites, views.whales \subseteq views.recent,
         NEW whales \in WhaleAggregate(views.whales, WhaleLimit),
         NEW recent \in RecentBets(views.recent, whales), NEW u \in ToSet(whales)
  PROVE  RowHolds(views, whales, recent, u)
<1> DEFINE favorites == views.favorites
           taken == views.recent
           first == views.whales
           row   == WhaleActivity(views, recent, u)
<1>0. favorites \in SUBSET Bets /\ taken \in SUBSET favorites /\ first \in SUBSET taken
  OBVIOUS
<1> HIDE DEF favorites, taken, first
<1> DEFINE late  == favorites \ first
           own   == BetsBy(taken, u)
           early == BetsBy(first, u)
           shown == FirstOf(recent, u)
           R     == {b \in taken : UserOf[b] \in ToSet(whales)}
<1>1. /\ row.recentBets = shown /\ row.largestBet = Largest(early)
      /\ row.betCount = Cardinality(early) /\ row.favoriteMarkets = FavoriteMarkets(favorites, u)
  BY DEF WhaleActivity, favorites, first
<1>2. /\ early \in SUBSET Bets /\ own \in SUBSET Bets /\ own \subseteq early \cup late
      /\ R \in SUBSET Bets /\ late \in SUBSET Bets /\ BetsBy(R, u) = own
  BY <1>0 DEF BetsBy
<1>3. /\ shown \subseteq own
      /\ \A b \in own \ shown, c \in shown : placedAt[b] <= placedAt[c]
      /\ \A b \in own \ shown :
           \/ Cardinality(shown) = PerWhale
           \/ Cardinality({c \in R : placedAt[c] >= placedAt[b]}) > WhaleLimit * PerWhale
  <2>1. recent \in {Slice(s, 0, WhaleLimit * PerWhale) : s \in Newest(R)}
    BY DEF RecentBets, taken
  <2>2. WhaleLimit * PerWhale \in Nat /\ PerWhale \in Nat
    BY ReportsAssumption, ProductNat
  <2> HIDE DEF R
  <2> QED
    BY <1>2, <2>1, <2>2, FirstOfNewest
<1>4. \A b : {c \in R : placedAt[c] >= placedAt[b]} =
             {c \in taken : UserOf[c] \in ToSet(whales) /\ placedAt[c] >= placedAt[b]}
  OBVIOUS
<1>5. \A b \in shown : AmountOf[b] <= Largest(early) \/ b \in late
  <2> SUFFICES ASSUME NEW b \in shown, b \notin late
               PROVE  AmountOf[b] <= Largest(early)
    OBVIOUS
  <2>1. b \in early
    BY <1>2, <1>3
  <2> HIDE DEF early
  <2> QED
    BY <1>2, <2>1, LargestIs
<1>6. Cardinality(shown) <= Cardinality(early) + Cardinality(late)
  <2> HIDE DEF early, late, shown
  <2>1. IsFiniteSet(early) /\ IsFiniteSet(late)
    BY <1>2, ReportsAssumption, FS_Subset
  <2>2. /\ IsFiniteSet(early \cup late) /\ Cardinality(early) \in Nat /\ Cardinality(late) \in Nat
        /\ Cardinality(early \cap late) \in Nat
        /\ Cardinality(early \cup late) =
             Cardinality(early) + Cardinality(late) - Cardinality(early \cap late)
    BY <2>1, FS_Union, FS_Intersection, FS_CardinalityType
  <2>3. Cardinality(shown) <= Cardinality(early \cup late) /\ Cardinality(shown) \in Nat
    <3>1. shown \subseteq early \cup late
      BY <1>2, <1>3
    <3> QED
      BY <2>2, <3>1, FS_Subset, FS_CardinalityType
  <2> QED
    BY <2>2, <2>3
<1>7. ASSUME late = {}, NEW m \in FavoriteMarkets(favorites, u)
      PROVE  Cardinality(BetsIn(own, m)) * Cardinality(MarketsOf(own)) >= Cardinality(early)
  <2>1. favorites = taken /\ first = taken /\ early = own
    BY <1>0, <1>7
  <2>2. \A k \in MarketsOf(favorites) :
          Cardinality(BetsIn(own, k)) <= Cardinality(BetsIn(own, m))
    BY <2>1 DEF FavoriteMarkets
  <2>3. \A k \in MarketsOf(own) : k \in MarketsOf(favorites)
    BY <2>1 DEF MarketsOf, BetsBy
  <2>4. IsFiniteSet(own) /\ IsFiniteSet(BetsIn(own, m)) /\ Cardinality(BetsIn(own, m)) \in Nat
        /\ Cardinality(own) \in Nat
    <3>1. BetsIn(own, m) \subseteq own
      BY DEF BetsIn
    <3> HIDE DEF own
    <3> QED
      BY <1>2, <3>1, ReportsAssumption, FS_Subset, FS_CardinalityType
  <2> HIDE DEF own
  <2>5. /\ Cardinality(BetsIn(own, m)) * Cardinality(MarketsOf(own)) \in Nat
        /\ Cardinality(own) <= Cardinality(BetsIn(own, m)) * Cardinality(MarketsOf(own))
    BY <1>2, <2>2, <2>3, <2>4, FavouritesFill
  <2> QED
    BY <2>1, <2>4, <2>5
<1>8. \A b \in own \ shown :
        \/ Cardinality(shown) = PerWhale
        \/ Cardinality({c \in taken : UserOf[c] \in ToSet(whales) /\ placedAt[c] >= placedAt[b]})
             > WhaleLimit * PerWhale
  BY <1>3, <1>4
<1> QED
  <2> HIDE DEF shown, early, row, R
  <2> QED
    BY <1>1, <1>3, <1>5, <1>6, <1>7, <1>8 DEF RowHolds, favorites, taken, first, row

\* "5 recent bets per whale max" (customers.service.ts), for any number of whales,
\* bets and rows: the bets shown of a whale are its newest, fewer only if the query was
\* full, and only what was placed since the first query contradicts its totals.
THEOREM WhaleRowsAreTrue == Spec => []WhaleRowsHold
<1>1. Init => WhaleViews
  BY DEF Init, WhaleViews, NoRequest
<1>2. WhaleInv /\ [Next]_vars => WhaleViews'
  BY WhalesStep
<1>3. Spec => []ReportTypes
  <2>1. ReportsInv => ReportTypes
    BY DEF ReportsInv
  <2> QED
    BY <2>1, FirstState, ReportsStep, PTL DEF Spec
<1>4. WhaleInv => WhaleRowsHold
  <2> SUFFICES ASSUME WhaleInv, Answered, request.kind = "whales",
                      "recent" \in DOMAIN request.views
               PROVE  WhaleRowsHold
    BY DEF WhaleRowsHold
  <2>1. /\ request.views.whales \subseteq request.views.recent
        /\ request.views.recent \subseteq request.views.favorites
        /\ request.views.favorites \subseteq Placed
    BY DEF Answered, WhaleInv, WhaleViews
  <2>2. Placed \subseteq Bets /\ placedAt \in [Bets -> Nat]
    BY DEF Placed, WhaleInv, ReportTypes
  <2>3. \A whales \in WhaleAggregate(request.views.whales, WhaleLimit) :
        \A recent \in RecentBets(request.views.recent, whales), u \in ToSet(whales) :
          RowHolds(request.views, whales, recent, u)
    BY <2>1, <2>2, WhaleRow
  <2> QED
    BY <2>3, Zenon DEF WhaleRowsHold, RowHolds
<1> QED
  BY <1>1, <1>2, <1>3, <1>4, PTL DEF Spec, WhaleInv

------------------------------------------------------------------------------
(* Agreement of the services.                                               *)

\* A list that is cut after some rows: how many are left, and which.
LEMMA CutOf ==
  ASSUME NEW S, IsFiniteSet(S), NEW limit \in Nat, NEW s \in SetToSeqs(S), NEW page,
         page = Slice(s, 0, limit)
  PROVE  /\ ToSet(page) \subseteq S
         /\ Cardinality(ToSet(page)) = Min({limit, Cardinality(S)})
         /\ limit >= Cardinality(S) => ToSet(page) = S
         /\ \A x \in ToSet(page), y \in S \ ToSet(page) :
              \E i, j \in DOMAIN s : i < j /\ s[i] = x /\ s[j] = y
<1>1. /\ Cardinality(S) \in Nat /\ Len(s) = Cardinality(S)
      /\ s \in [1 .. Len(s) -> S] /\ DOMAIN s = 1 .. Len(s)
      /\ \A i, j \in 1 .. Len(s) : i # j => s[i] # s[j]
      /\ \A x \in S : \E i \in 1 .. Len(s) : s[i] = x
  BY ListOfSet
<1> DEFINE n == Len(page)
<1>2. /\ n \in Nat /\ n <= limit /\ DOMAIN page = 1 .. n
      /\ n < limit => Len(s) <= n
      /\ \A k \in 1 .. n : k \in 1 .. Len(s) /\ page[k] = s[k]
  <2>1. 0 \in Nat /\ Len(s) \in Nat
    BY <1>1
  <2>2. page \in Seq(S) /\ IsPageOf(page, s, Len(s), 0, limit)
    BY <1>1, <2>1, SliceOf
  <2>3. n \in Nat /\ DOMAIN page = 1 .. n
    BY <2>2
  <2> QED
    BY <1>1, <2>2, <2>3 DEF IsPageOf
<1>3. n <= Len(s) /\ n = (IF limit <= Len(s) THEN limit ELSE Len(s))
  <2>1. n <= Len(s)
    BY <1>1, <1>2
  <2> QED
    BY <1>1, <1>2, <2>1
<1> HIDE DEF n
<1>4. ToSet(page) = {s[k] : k \in 1 .. n}
  BY <1>2 DEF ToSet
<1>5. ToSet(page) \subseteq S
  BY <1>1, <1>2, <1>4
<1>6. Cardinality(ToSet(page)) = n
  <2> DEFINE f == [k \in 1 .. n |-> s[k]]
  <2>1. f \in Bijection(1 .. n, ToSet(page))
    <3>1. \A k, l \in 1 .. n : f[k] = f[l] => k = l
      BY <1>1, <1>2
    <3>2. f \in [1 .. n -> ToSet(page)] /\ \A x \in ToSet(page) : \E k \in 1 .. n : f[k] = x
      BY <1>4
    <3> HIDE DEF f
    <3> QED
      BY <3>1, <3>2 DEF Bijection, Injection, Surjection, IsInjective
  <2>2. IsFiniteSet(1 .. n) /\ Cardinality(1 .. n) = n
    BY <1>2, FirstNumbers
  <2> HIDE DEF f
  <2> QED
    BY <2>1, <2>2, FS_Bijection DEF ExistsBijection
<1>7. Min({limit, Cardinality(S)}) = n
  <2>1. limit \in Int /\ Cardinality(S) \in Int
    BY <1>1
  <2> QED
    BY <1>1, <1>3, <2>1, SmallerOf
<1>8. ASSUME limit >= Cardinality(S)
      PROVE  ToSet(page) = S
  <2>1. n = Len(s)
    BY <1>1, <1>3, <1>8
  <2> QED
    BY <1>1, <1>4, <1>5, <2>1
<1>9. ASSUME NEW x \in ToSet(page), NEW y \in S \ ToSet(page)
      PROVE  \E i, j \in DOMAIN s : i < j /\ s[i] = x /\ s[j] = y
  <2>1. PICK i \in 1 .. n : s[i] = x
    BY <1>4
  <2>2. PICK j \in 1 .. Len(s) : s[j] = y
    BY <1>1
  <2>3. ~(j <= n)
    BY <1>2, <1>4, <2>2
  <2>4. i \in 1 .. Len(s) /\ i < j
    BY <1>1, <1>2, <2>1, <2>2, <2>3
  <2> QED
    BY <1>1, <2>1, <2>2, <2>4
<1> QED
  BY <1>5, <1>6, <1>7, <1>8, <1>9

\* Rows that each name their key: their values add up to those of what they are of.
LEMMA PartsAddUp ==
  ASSUME NEW S, IsFiniteSet(S), NEW f \in [S -> Nat],
         NEW D, IsFiniteSet(D), NEW key \in [S -> D],
         NEW rows, NEW row \in Bijection(D, rows), NEW val \in [rows -> Nat],
         \A d \in D : val[row[d]] = Total([x \in {y \in S : key[y] = d} |-> f[x]])
  PROVE  Total(val) = Total(f)
<1> DEFINE to == [x \in S |-> row[key[x]]]
<1>1. IsFiniteSet(rows)
  BY FS_Bijection DEF ExistsBijection
<1>2. /\ to \in [S -> rows] /\ \A r \in rows : \E d \in D : row[d] = r
      /\ \A d, e \in D : row[d] = row[e] => d = e
  BY DEF Bijection, Injection, Surjection, IsInjective
<1>3. \A r \in rows : val[r] = Total([x \in {y \in S : to[y] = r} |-> f[x]])
  <2> TAKE r \in rows
  <2>1. PICK d \in D : r = row[d]
    BY <1>2
  <2>2. {y \in S : to[y] = r} = {y \in S : key[y] = d}
    BY <1>2, <2>1
  <2> QED
    BY <2>1, <2>2
<1> HIDE DEF to
<1> QED
  BY <1>1, <1>2, <1>3, TotalOfParts

LEMMA RowsAddUp ==
  ASSUME NEW bs \in SUBSET Bets, NEW D, IsFiniteSet(D), NEW key \in [bs -> D],
         NEW rows, NEW row \in Bijection(D, rows), NEW val \in [rows -> Nat],
         \A d \in D : val[row[d]] = Volume({b \in bs : key[b] = d})
  PROVE  Total(val) = Volume(bs)
<1> DEFINE f == [b \in bs |-> AmountOf[b]]
<1>1. IsFiniteSet(bs) /\ f \in [bs -> Nat]
  BY ReportsAssumption, FS_Subset
<1>2. \A d \in D : val[row[d]] = Total([x \in {y \in bs : key[y] = d} |-> f[x]])
  <2> TAKE d \in D
  <2> DEFINE part == {b \in bs : key[b] = d}
  <2>1. [x \in part |-> f[x]] = [b \in part |-> AmountOf[b]]
    OBVIOUS
  <2> QED
    BY <2>1 DEF Volume
<1>3. Total(val) = Total(f)
  <2> HIDE DEF f
  <2> QED
    BY <1>1, <1>2, PartsAddUp
<1> QED
  BY <1>3 DEF Volume

LEMMA CountsAddUp ==
  ASSUME NEW bs \in SUBSET Bets, NEW D, IsFiniteSet(D), NEW key \in [bs -> D],
         NEW rows, NEW row \in Bijection(D, rows), NEW val \in [rows -> Nat],
         \A d \in D : val[row[d]] = Cardinality({b \in bs : key[b] = d})
  PROVE  Total(val) = Cardinality(bs)
<1> DEFINE f == [b \in bs |-> 1]
<1>1. IsFiniteSet(bs) /\ f \in [bs -> Nat]
  BY ReportsAssumption, FS_Subset
<1>2. \A d \in D : val[row[d]] = Total([x \in {y \in bs : key[y] = d} |-> f[x]])
  <2> TAKE d \in D
  <2> DEFINE part == {b \in bs : key[b] = d}
  <2>1. [x \in part |-> f[x]] = [b \in part |-> 1] /\ part \subseteq bs
    OBVIOUS
  <2>2. IsFiniteSet(part)
    BY <1>1, <2>1, FS_Subset
  <2> HIDE DEF part
  <2>3. Total([b \in part |-> 1]) = Cardinality(part)
    BY <2>2, TotalOfOnes
  <2> QED
    BY <2>1, <2>3 DEF part
<1>3. Total(val) = Total(f)
  <2> HIDE DEF f
  <2> QED
    BY <1>1, <1>2, PartsAddUp
<1> QED
  BY <1>1, <1>3, TotalOfOnes

LEMMA SingleTotal ==
  ASSUME NEW x, NEW n \in Nat
  PROVE  Total([y \in {x} |-> n]) = n
<1> DEFINE f == [y \in {x} |-> n]
           none == [y \in {} |-> 0]
<1>1. /\ none \in [{} -> Nat] /\ \A y \in {} : none[y] = 0
      /\ f \in [{} \cup {x} -> Nat] /\ f[x] = n /\ IsFiniteSet({}) /\ x \notin {}
  BY FS_EmptySet
<1>2. \A y \in {} : none[y] = f[y]
  OBVIOUS
<1> HIDE DEF f, none
<1>3. Total(none) = 0
  BY <1>1, TotalZero
<1>4. Total(f) = Total(none) + f[x]
  BY <1>1, <1>2, TotalExtend
<1> QED
  BY <1>1, <1>3, <1>4 DEF f

LEMMA VolumeIsNat ==
  \A bs \in SUBSET Bets : Volume(bs) \in Nat
BY VolumeGrows

\* The markets with a known creator.
Owned == {m \in DOMAIN CreatorOf : CreatorOf[m] \in DOMAIN FeeShareBps}

LEMMA MarketsAddUp ==
  ASSUME totalPool \in [DOMAIN CreatorOf -> Nat], NEW bs \in SUBSET Bets,
         NEW rows \in GetMarketSignals(bs, Cardinality(DOMAIN CreatorOf), 0)
  PROVE  /\ SumOf({s \in ToSet(rows) : CreatorOf[s.marketId] \in DOMAIN FeeShareBps},
                   LAMBDA s : s.totalPool) = Total([m \in Owned |-> totalPool[m]])
         /\ SumOf(ToSet(rows), LAMBDA s : s.betCount) = Cardinality(bs)
<1> DEFINE D == DOMAIN CreatorOf
           row == [m \in D |-> [marketId |-> m, totalPool |-> totalPool[m],
                                betCount |-> Cardinality(BetsIn(bs, m)),
                                uniqueBettors |-> Cardinality(UsersOf(BetsIn(bs, m)))]]
           all == {row[m] : m \in D}
           known == {r \in all : CreatorOf[r.marketId] \in DOMAIN FeeShareBps}
           key == [b \in bs |-> MarketOf[b]]
           pools == [r \in known |-> r.totalPool]
           counts == [r \in all |-> r.betCount]
<1>1. IsFiniteSet(D) /\ key \in [bs -> D] /\ IsFiniteSet(bs)
  BY ReportsAssumption, FS_Subset
<1>2. IsFiniteSet(all) /\ Cardinality(all) <= Cardinality(D) /\ Cardinality(D) \in Nat
  <2>1. DOMAIN row = D /\ row = [m \in D |-> row[m]]
    OBVIOUS
  <2> HIDE DEF row, D
  <2> QED
    BY <1>1, <2>1, ValuesOf, FS_CardinalityType
<1>3. ToSet(rows) = all
  <2>1. PICK s \in SetToSeqs(all) : rows = Slice(s, 0, Cardinality(D))
    <3>1. all = {[marketId |-> m, totalPool |-> totalPool[m],
                  betCount |-> Cardinality(BetsIn(bs, m)),
                  uniqueBettors |-> Cardinality(UsersOf(BetsIn(bs, m)))] : m \in D}
      OBVIOUS
    <3> HIDE DEF all
    <3> QED
      BY <3>1 DEF GetMarketSignals, Ranked
  <2> HIDE DEF all, D
  <2> QED
    BY <1>2, <2>1, CutOf, FS_CardinalityType
<1>4. \A m \in D : /\ row[m].marketId = m /\ row[m].totalPool = totalPool[m]
                   /\ row[m].betCount = Cardinality({b \in bs : key[b] = m})
                   /\ row[m].betCount \in Nat
  <2> TAKE m \in D
  <2>1. BetsIn(bs, m) = {b \in bs : key[b] = m} /\ BetsIn(bs, m) \subseteq bs
    BY DEF BetsIn
  <2>2. Cardinality(BetsIn(bs, m)) \in Nat
    BY <1>1, <2>1, FS_Subset, FS_CardinalityType
  <2> QED
    BY <2>1, <2>2
<1>5. \A m, k \in D : row[m] = row[k] => m = k
  <2> HIDE DEF row
  <2> QED
    BY <1>4
<1>6. Total(counts) = Cardinality(bs)
  <2>1. row \in Bijection(D, all)
    <3>1. row \in [D -> all] /\ \A r \in all : \E m \in D : row[m] = r
      OBVIOUS
    <3> HIDE DEF row, all, D
    <3> QED
      BY <1>5, <3>1 DEF Bijection, Injection, Surjection, IsInjective
  <2>2. counts \in [all -> Nat] /\ \A m \in D : counts[row[m]] = row[m].betCount
    <3> HIDE DEF row
    <3> QED
      BY <1>4
  <2>3. \A m \in D : counts[row[m]] = Cardinality({b \in bs : key[b] = m})
    <3> HIDE DEF row, counts, key
    <3> QED
      BY <1>4, <2>2
  <2> DEFINE f == [b \in bs |-> 1]
  <2>4. \A m \in D : Cardinality({b \in bs : key[b] = m})
                     = Total([x \in {y \in bs : key[y] = m} |-> f[x]])
    <3> TAKE m \in D
    <3> DEFINE part == {b \in bs : key[b] = m}
    <3>1. [x \in part |-> f[x]] = [b \in part |-> 1] /\ part \subseteq bs
      OBVIOUS
    <3>2. IsFiniteSet(part)
      BY <1>1, <3>1, FS_Subset
    <3> HIDE DEF part
    <3>3. Total([b \in part |-> 1]) = Cardinality(part)
      BY <3>2, TotalOfOnes
    <3> QED
      BY <3>1, <3>3 DEF part
  <2>5. Total(f) = Cardinality(bs) /\ f \in [bs -> Nat]
    BY <1>1, TotalOfOnes
  <2> HIDE DEF row, key, counts, all, D, f
  <2>6. \A m \in D : counts[row[m]] = Total([x \in {y \in bs : key[y] = m} |-> f[x]])
    BY <2>3, <2>4
  <2>7. Total(counts) = Total(f)
    BY <1>1, <2>1, <2>2, <2>5, <2>6, PartsAddUp
  <2> QED
    BY <2>5, <2>7
<1>7. Total(pools) = Total([m \in Owned |-> totalPool[m]])
  <2> DEFINE f == [m \in Owned |-> totalPool[m]]
             same == [m \in Owned |-> m]
             shown == [m \in Owned |-> row[m]]
  <2>1. /\ Owned \subseteq D /\ f \in [Owned -> Nat] /\ same \in [Owned -> Owned]
        /\ \A m \in Owned : f[m] = totalPool[m] /\ f[m] \in Nat
    BY DEF Owned
  <2>2. IsFiniteSet(Owned)
    BY <1>1, <2>1, FS_Subset
  <2>3. shown \in Bijection(Owned, known)
    <3>1. \A m \in Owned : row[m] \in known
      <4>1. \A m \in D : row[m] \in all
        OBVIOUS
      <4> HIDE DEF row, all
      <4> QED
        BY <1>4, <4>1 DEF Owned
    <3>2. \A r \in known : \E m \in Owned : row[m] = r
      <4>1. \A r \in all : \E m \in D : row[m] = r
        OBVIOUS
      <4> HIDE DEF row, all
      <4> QED
        BY <1>4, <4>1 DEF Owned
    <3> HIDE DEF row, known, D
    <3>3. shown \in [Owned -> known] /\ \A r \in known : \E m \in Owned : shown[m] = r
      BY <3>1, <3>2
    <3>4. \A m, k \in Owned : shown[m] = shown[k] => m = k
      BY <1>5, <2>1
    <3> HIDE DEF shown
    <3> QED
      BY <3>3, <3>4 DEF Bijection, Injection, Surjection, IsInjective
  <2>4. pools \in [known -> Nat] /\ \A m \in Owned : pools[shown[m]] = totalPool[m]
    <3>1. \A r \in known : \E m \in D : row[m] = r
      OBVIOUS
    <3>2. shown \in [Owned -> known]
      BY <2>3 DEF Bijection, Injection, Surjection
    <3>3. \A m \in Owned : shown[m] = row[m]
      OBVIOUS
    <3> HIDE DEF row, known, shown
    <3>4. \A r \in known : r.totalPool \in Nat
      <4>1. \A m \in D : totalPool[m] \in Nat
        OBVIOUS
      <4>2. \A m \in D : row[m].totalPool = totalPool[m]
        BY <1>4
      <4> HIDE DEF D, key, counts, pools, f, same
      <4> QED
        BY <3>1, <4>1, <4>2
    <3>5. \A m \in Owned : shown[m] \in known /\ shown[m].totalPool = totalPool[m]
      BY <1>4, <2>1, <3>2, <3>3
    <3> QED
      BY <3>4, <3>5
  <2>5. \A m \in Owned : pools[shown[m]] = Total([x \in {y \in Owned : same[y] = m} |-> f[x]])
    <3> TAKE m \in Owned
    <3>1. {y \in Owned : same[y] = m} = {m}
      OBVIOUS
    <3>2. [x \in {m} |-> f[x]] = [x \in {m} |-> f[m]]
      OBVIOUS
    <3>3. Total([x \in {m} |-> f[m]]) = f[m]
      BY <2>1, SingleTotal
    <3> HIDE DEF f, same, pools, shown
    <3> QED
      BY <2>1, <2>4, <3>1, <3>2, <3>3
  <2> HIDE DEF f, same, shown, pools, known
  <2>6. Total(pools) = Total(f)
    BY <2>1, <2>2, <2>3, <2>4, <2>5, PartsAddUp
  <2> QED
    BY <2>6 DEF f
<1> QED
  BY <1>3, <1>6, <1>7 DEF SumOf

LEMMA CreatorsAddUp ==
  ASSUME totalPool \in [DOMAIN CreatorOf -> Nat],
         NEW rows \in GetCreatorRevenue(Cardinality(DOMAIN FeeShareBps))
  PROVE  SumOf(ToSet(rows), LAMBDA c : c.totalVolume) = Total([m \in Owned |-> totalPool[m]])
<1> DEFINE D == DOMAIN FeeShareBps
           by(c) == Total([m \in {k \in DOMAIN CreatorOf : CreatorOf[k] = c} |-> totalPool[m]])
           row == [c \in D |-> [creatorId |-> c, totalVolume |-> by(c),
                                estimatedCreatorFees |-> Fee(FeeShareBps[c], by(c))]]
           all == {row[c] : c \in D}
           key == [m \in Owned |-> CreatorOf[m]]
           f == [m \in Owned |-> totalPool[m]]
           val == [r \in all |-> r.totalVolume]
<1>1. /\ IsFiniteSet(D) /\ key \in [Owned -> D] /\ Owned \subseteq DOMAIN CreatorOf
      /\ f \in [Owned -> Nat] /\ \A m \in Owned : f[m] = totalPool[m] /\ key[m] = CreatorOf[m]
  BY ReportsAssumption DEF Owned
<1>2. IsFiniteSet(Owned)
  BY <1>1, ReportsAssumption, FS_Subset
<1>3. IsFiniteSet(all) /\ Cardinality(all) <= Cardinality(D) /\ Cardinality(D) \in Nat
  <2>1. DOMAIN row = D /\ row = [c \in D |-> row[c]]
    OBVIOUS
  <2> HIDE DEF row, D
  <2> QED
    BY <1>1, <2>1, ValuesOf, FS_CardinalityType
<1>4. ToSet(rows) = all
  <2>1. PICK s \in SetToSeqs(all) : rows = Slice(s, 0, Cardinality(D))
    <3>1. all = {[creatorId |-> c, totalVolume |-> by(c),
                  estimatedCreatorFees |-> Fee(FeeShareBps[c], by(c))] : c \in D}
      OBVIOUS
    <3> HIDE DEF all
    <3> QED
      BY <3>1 DEF GetCreatorRevenue, Ranked
  <2> HIDE DEF all, D
  <2> QED
    BY <1>3, <2>1, CutOf, FS_CardinalityType
<1>5. \A c \in D :
        /\ row[c].creatorId = c /\ row[c].totalVolume \in Nat
        /\ row[c].totalVolume = Total([m \in {k \in Owned : key[k] = c} |-> f[m]])
  <2> TAKE c \in D
  <2> DEFINE own == {k \in DOMAIN CreatorOf : CreatorOf[k] = c}
             g == [m \in own |-> totalPool[m]]
  <2>1. own = {k \in Owned : key[k] = c} /\ own \subseteq Owned
    BY DEF Owned
  <2>2. g = [m \in own |-> f[m]] /\ g \in [own -> Nat]
    BY <2>1
  <2>3. IsFiniteSet(own)
    BY <1>2, <2>1, FS_Subset
  <2>4. row[c].creatorId = c /\ row[c].totalVolume = Total(g)
    OBVIOUS
  <2> HIDE DEF own, g, row, key, f
  <2>5. Total(g) \in Nat
    BY <2>2, <2>3, TotalType
  <2> QED
    BY <2>1, <2>2, <2>4, <2>5
<1>6. \A c, d \in D : row[c] = row[d] => c = d
  <2> HIDE DEF row
  <2> QED
    BY <1>5
<1>7. val \in [all -> Nat] /\ \A c \in D : val[row[c]] = row[c].totalVolume
  <2> HIDE DEF row
  <2> QED
    BY <1>5
<1>8. Total(val) = Total(f)
  <2>1. row \in Bijection(D, all)
    <3>1. row \in [D -> all] /\ \A r \in all : \E m \in D : row[m] = r
      OBVIOUS
    <3> HIDE DEF row, all, D
    <3> QED
      BY <1>6, <3>1 DEF Bijection, Injection, Surjection, IsInjective
  <2> HIDE DEF row, key, val, all, D, f
  <2>2. \A c \in D : val[row[c]] = Total([x \in {y \in Owned : key[y] = c} |-> f[x]])
    BY <1>5, <1>7
  <2> QED
    BY <1>1, <1>2, <1>7, <2>1, <2>2, PartsAddUp
<1> QED
  BY <1>4, <1>8 DEF SumOf

LEMMA DaysAddUp ==
  ASSUME NEW bs \in SUBSET Bets, NEW since
  PROVE  /\ SumOf(GetVolumeTrend(bs, since), LAMBDA d : d.volume) = Volume(Since(bs, since))
         /\ SumOf(GetVolumeTrend(bs, since), LAMBDA d : d.betCount) = Cardinality(Since(bs, since))
<1> DEFINE own == Since(bs, since)
           key == [b \in own |-> DayOf(b)]
           D == {key[b] : b \in own}
           day(d) == {b \in own : DayOf(b) = d}
           row == [d \in D |-> [period |-> d, volume |-> Volume(day(d)),
                                betCount |-> Cardinality(day(d)),
                                uniqueUsers |-> Cardinality(UsersOf(day(d)))]]
           all == {row[d] : d \in D}
           val == [r \in all |-> r.volume]
           counts == [r \in all |-> r.betCount]
<1>1. own \in SUBSET Bets /\ IsFiniteSet(own)
  <2>1. own \in SUBSET Bets
    BY DEF Since
  <2> QED
    BY <2>1, ReportsAssumption, FS_Subset
<1>2. IsFiniteSet(D) /\ key \in [own -> D]
  <2>1. DOMAIN key = own /\ key = [b \in own |-> key[b]] /\ key \in [own -> D]
    OBVIOUS
  <2>2. IsFiniteSet(D)
    <3> HIDE DEF key, own
    <3> QED
      BY <1>1, <2>1, ValuesOf
  <2> QED
    BY <2>1, <2>2
<1>3. GetVolumeTrend(bs, since) = all
  BY DEF GetVolumeTrend
<1>4. \A d \in D : row[d].period = d /\ row[d].volume = Volume({b \in own : key[b] = d})
  <2> TAKE d \in D
  <2>1. day(d) = {b \in own : key[b] = d}
    OBVIOUS
  <2> HIDE DEF D, key, day
  <2> QED
    BY <2>1
<1>5. \A c, d \in D : row[c] = row[d] => c = d
  <2> HIDE DEF row
  <2> QED
    BY <1>4
<1>6. val \in [all -> Nat] /\ \A d \in D : val[row[d]] = Volume({b \in own : key[b] = d})
  <2>1. \A d \in D : row[d].volume \in Nat
    <3>1. \A d \in D : {b \in own : key[b] = d} \in SUBSET Bets
      BY <1>1
    <3> HIDE DEF row, key, own, D
    <3> QED
      BY <1>4, <3>1, VolumeIsNat
  <2> HIDE DEF row, key, D
  <2> QED
    BY <1>4, <2>1
<1>7. counts \in [all -> Nat] /\ \A d \in D : counts[row[d]] = Cardinality({b \in own : key[b] = d})
  <2>1. \A d \in D : row[d].betCount = Cardinality({b \in own : key[b] = d})
    <3> TAKE d \in D
    <3>1. day(d) = {b \in own : key[b] = d}
      OBVIOUS
    <3> HIDE DEF D, key, day
    <3> QED
      BY <3>1
  <2>2. \A d \in D : row[d].betCount \in Nat
    <3>1. \A d \in D : {b \in own : key[b] = d} \subseteq own
      OBVIOUS
    <3> HIDE DEF row, key, own, D
    <3> QED
      BY <1>1, <2>1, <3>1, FS_Subset, FS_CardinalityType
  <2> HIDE DEF row, key, D
  <2> QED
    BY <2>1, <2>2
<1>8. Total(val) = Volume(own) /\ Total(counts) = Cardinality(own)
  <2>1. row \in Bijection(D, all)
    <3>1. row \in [D -> all] /\ \A r \in all : \E d \in D : row[d] = r
      OBVIOUS
    <3> HIDE DEF row, all, D
    <3> QED
      BY <1>5, <3>1 DEF Bijection, Injection, Surjection, IsInjective
  <2> HIDE DEF row, key, val, counts, all, D, own
  <2> QED
    BY <1>1, <1>2, <1>6, <1>7, <2>1, RowsAddUp, CountsAddUp
<1> QED
  BY <1>3, <1>8 DEF SumOf

LEMMA SegmentsAreFinite ==
  IsFiniteSet(Segments)
<1>1. IsFiniteSet({"whale"}) /\ IsFiniteSet({"power"}) /\ IsFiniteSet({"regular"})
      /\ IsFiniteSet({"casual"})
  BY FS_Singleton
<1>2. IsFiniteSet({"whale"} \cup {"power"}) /\ IsFiniteSet({"regular"} \cup {"casual"})
  BY <1>1, FS_Union
<1>3. IsFiniteSet(({"whale"} \cup {"power"}) \cup ({"regular"} \cup {"casual"}))
  BY <1>2, FS_Union
<1>4. Segments = ({"whale"} \cup {"power"}) \cup ({"regular"} \cup {"casual"})
  BY DEF Segments
<1> QED
  BY <1>3, <1>4

\* The segments of a summary, whatever profiles it is of.
LEMMA SegmentsAddUp ==
  ASSUME NEW profiles, IsFiniteSet(ToSet(profiles)),
         \A p \in ToSet(profiles) : p.segment \in Segments /\ p.totalWagered \in Nat
  PROVE  /\ SumOf(Segments, LAMBDA s : GetSegmentSummary(profiles)[s].totalVolume)
              = Total([p \in ToSet(profiles) |-> p.totalWagered])
         /\ SumOf(Segments, LAMBDA s : GetSegmentSummary(profiles)[s].count)
              = Cardinality(ToSet(profiles))
<1> DEFINE page == ToSet(profiles)
           segment == [p \in page |-> p.segment]
           of(seg) == {p \in page : p.segment = seg}
           one == [p \in page |-> 1]
           wagered == [p \in page |-> p.totalWagered]
           volumes == [seg \in Segments |-> GetSegmentSummary(profiles)[seg].totalVolume]
           counts == [seg \in Segments |-> GetSegmentSummary(profiles)[seg].count]
<1>1. /\ segment \in [page -> Segments] /\ wagered \in [page -> Nat] /\ one \in [page -> Nat]
      /\ IsFiniteSet(page) /\ IsFiniteSet(Segments)
  BY SegmentsAreFinite
<1>2. \A seg \in Segments : {p \in page : segment[p] = seg} = of(seg)
  OBVIOUS
<1>3. \A seg \in Segments :
        /\ volumes[seg] = Total([p \in of(seg) |-> p.totalWagered])
        /\ counts[seg] = Cardinality(of(seg))
  BY DEF GetSegmentSummary
<1>4. ASSUME NEW seg \in Segments
      PROVE  /\ IsFiniteSet(of(seg)) /\ Cardinality(of(seg)) \in Nat
             /\ [p \in of(seg) |-> p.totalWagered] = [p \in of(seg) |-> wagered[p]]
             /\ [p \in of(seg) |-> p.totalWagered] \in [of(seg) -> Nat]
             /\ [p \in of(seg) |-> 1] = [p \in of(seg) |-> one[p]]
  <2>1. /\ [p \in of(seg) |-> p.totalWagered] = [p \in of(seg) |-> wagered[p]]
        /\ [p \in of(seg) |-> p.totalWagered] \in [of(seg) -> Nat]
        /\ [p \in of(seg) |-> 1] = [p \in of(seg) |-> one[p]]
    OBVIOUS
  <2>2. of(seg) \subseteq page
    OBVIOUS
  <2> HIDE DEF of, page
  <2> QED
    BY <1>1, <2>1, <2>2, FS_Subset, FS_CardinalityType
<1> HIDE DEF of
<1>5. ASSUME NEW seg \in Segments
      PROVE  /\ volumes[seg] \in Nat /\ counts[seg] \in Nat
             /\ volumes[seg] = Total([p \in of(seg) |-> wagered[p]])
             /\ counts[seg] = Total([p \in of(seg) |-> one[p]])
  <2>1. Total([p \in of(seg) |-> p.totalWagered]) \in Nat
    BY <1>4, TotalType
  <2>2. Total([p \in of(seg) |-> 1]) = Cardinality(of(seg))
    BY <1>4, TotalOfOnes
  <2> HIDE DEF volumes, counts, wagered, one
  <2> QED
    BY <1>3, <1>4, <2>1, <2>2
<1>6. volumes \in [Segments -> Nat] /\ counts \in [Segments -> Nat]
  <2>1. DOMAIN volumes = Segments /\ volumes = [seg \in Segments |-> volumes[seg]]
        /\ counts = [seg \in Segments |-> counts[seg]]
    OBVIOUS
  <2> HIDE DEF volumes, counts
  <2> QED
    BY <1>5, <2>1
<1>7. Total(volumes) = Total(wagered) /\ Total(counts) = Total(one)
  <2> HIDE DEF page, segment, volumes, counts, wagered, one
  <2>1. \A seg \in Segments :
          volumes[seg] = Total([p \in {q \in page : segment[q] = seg} |-> wagered[p]])
    BY <1>2, <1>5
  <2>2. \A seg \in Segments :
          counts[seg] = Total([p \in {q \in page : segment[q] = seg} |-> one[p]])
    BY <1>2, <1>5
  <2>3. /\ IsFiniteSet(page) /\ IsFiniteSet(Segments) /\ segment \in [page -> Segments]
        /\ wagered \in [page -> Nat] /\ volumes \in [Segments -> Nat]
    BY <1>1, <1>6
  <2>4. one \in [page -> Nat] /\ counts \in [Segments -> Nat]
    BY <1>1, <1>6
  <2>5. Total(volumes) = Total(wagered)
    BY <2>1, <2>3, TotalOfParts
  <2>6. Total(counts) = Total(one)
    BY <2>2, <2>3, <2>4, TotalOfParts
  <2> QED
    BY <2>5, <2>6
<1>8. Total(one) = Cardinality(page)
  BY <1>1, TotalOfOnes
<1> QED
  BY <1>7, <1>8 DEF SumOf

\* The summary counts the bettors with the most, once each, with all of their bets.
LEMMA SummaryAddsUp ==
  ASSUME NEW bs \in SUBSET Bets, NEW profiles \in GetCustomerProfiles(bs, SummaryLimit, 0, 0)
  PROVE  LET taken   == {p.userId : p \in ToSet(profiles)}
             summary == GetSegmentSummary(profiles)
         IN  /\ SumOf(Segments, LAMBDA s : summary[s].totalVolume)
                  = Volume({b \in bs : UserOf[b] \in taken})
             /\ SumOf(Segments, LAMBDA s : summary[s].count)
                  = Min({SummaryLimit, Cardinality(UsersOf(bs))})
             /\ \A u \in taken, v \in UsersOf(bs) \ taken :
                  Volume(BetsBy(bs, v)) <= Volume(BetsBy(bs, u))
<1> DEFINE D == UsersOf(bs)
           row == [u \in D |-> Profile(bs, u)]
           all == {row[u] : u \in D}
           page == ToSet(profiles)
           taken == {p.userId : p \in page}
           own == {b \in bs : UserOf[b] \in taken}
           key == [b \in own |-> UserOf[b]]
           val == [p \in page |-> p.totalWagered]
           shown == [u \in taken |-> row[u]]
<1>1. IsFiniteSet(D)
  <2> DEFINE f == [b \in bs |-> UserOf[b]]
  <2>1. IsFiniteSet(bs)
    BY ReportsAssumption, FS_Subset
  <2>2. IsFiniteSet({f[b] : b \in bs})
    BY <2>1, ValuesOf
  <2> QED
    BY <2>2 DEF UsersOf
<1>2. \A u \in D : /\ row[u].userId = u /\ row[u].segment \in Segments
                   /\ row[u].totalWagered = Volume(BetsBy(bs, u))
                   /\ row[u].totalWagered \in Nat
  <2> TAKE u \in D
  <2>1. BetsBy(bs, u) \in SUBSET Bets
    BY DEF BetsBy
  <2>2. Volume(BetsBy(bs, u)) \in Nat
    BY <2>1, VolumeIsNat
  <2>3. ClassifySegment(Volume(BetsBy(bs, u))) \in Segments
    BY DEF ClassifySegment, Segments
  <2>4. row[u] = Profile(bs, u)
    OBVIOUS
  <2> HIDE DEF row
  <2> QED
    BY <2>2, <2>3, <2>4 DEF Profile
<1>3. PICK s \in SetToSeqs(all) :
        /\ profiles = Slice(s, 0, SummaryLimit)
        /\ \A i, j \in DOMAIN s : i < j => s[i].totalWagered >= s[j].totalWagered
  <2>1. all = {p \in {Profile(bs, u) : u \in UsersOf(bs)} : p.totalWagered >= 0}
    <3>1. \A p \in all : p.totalWagered \in Nat
      <4> HIDE DEF row
      <4> QED
        BY <1>2
    <3>2. all = {Profile(bs, u) : u \in UsersOf(bs)}
      OBVIOUS
    <3> HIDE DEF all
    <3> QED
      BY <3>1, <3>2
  <2> HIDE DEF all
  <2> QED
    BY <2>1 DEF GetCustomerProfiles, Ranked
<1>4. row \in Bijection(D, all)
  <2>1. row \in [D -> all] /\ \A r \in all : \E u \in D : row[u] = r
    OBVIOUS
  <2> HIDE DEF row, all, D
  <2> QED
    BY <1>2, <2>1 DEF Bijection, Injection, Surjection, IsInjective
<1>5. IsFiniteSet(all) /\ Cardinality(all) = Cardinality(D)
  <2> HIDE DEF row, all, D
  <2> QED
    BY <1>1, <1>4, FS_Bijection DEF ExistsBijection
<1>6. /\ page \subseteq all
      /\ Cardinality(page) = Min({SummaryLimit, Cardinality(D)})
      /\ \A x \in page, y \in all \ page :
           \E i, j \in DOMAIN s : i < j /\ s[i] = x /\ s[j] = y
  <2>1. SummaryLimit \in Nat
    BY ReportsAssumption
  <2> HIDE DEF all, D
  <2>2. /\ ToSet(profiles) \subseteq all
        /\ Cardinality(ToSet(profiles)) = Min({SummaryLimit, Cardinality(all)})
        /\ SummaryLimit >= Cardinality(all) => ToSet(profiles) = all
        /\ \A x \in ToSet(profiles), y \in all \ ToSet(profiles) :
             \E i, j \in DOMAIN s : i < j /\ s[i] = x /\ s[j] = y
    <3>1. profiles = Slice(s, 0, SummaryLimit) /\ s \in SetToSeqs(all)
      BY <1>3
    <3> QED
      BY <1>5, <2>1, <3>1, CutOf
  <2> QED
    BY <1>5, <2>2
<1>7. taken \subseteq D /\ \A u \in D : u \in taken <=> row[u] \in page
  <2>1. \A p \in page : \E u \in D : p = row[u] /\ p.userId = u
    <3>1. \A p \in page : \E u \in D : p = row[u]
      BY <1>6
    <3> HIDE DEF row, page, D
    <3> QED
      BY <1>2, <3>1
  <2> HIDE DEF row, page, D
  <2> QED
    BY <1>2, <2>1
<1>8. /\ SumOf(Segments, LAMBDA g : GetSegmentSummary(profiles)[g].totalVolume) = Total(val)
      /\ SumOf(Segments, LAMBDA g : GetSegmentSummary(profiles)[g].count) = Cardinality(page)
  <2>1. IsFiniteSet(page)
    BY <1>5, <1>6, FS_Subset
  <2>2. \A p \in page : p.segment \in Segments /\ p.totalWagered \in Nat
    <3>1. \A p \in page : \E u \in D : p = row[u]
      BY <1>6
    <3> HIDE DEF row, page, D
    <3> QED
      BY <1>2, <3>1
  <2> QED
    BY <2>1, <2>2, SegmentsAddUp
<1>9. Total(val) = Volume(own)
  <2>1. own \in SUBSET Bets /\ key \in [own -> taken] /\ IsFiniteSet(taken)
    <3>1. own \in SUBSET Bets /\ key \in [own -> taken]
      OBVIOUS
    <3> HIDE DEF taken, D
    <3> QED
      BY <1>1, <1>7, <3>1, FS_Subset
  <2>2. shown \in Bijection(taken, page)
    <3>1. /\ shown \in [taken -> page]
          /\ \A p \in page : \E u \in taken : shown[u] = p
      <4>1. \A p \in page : \E u \in D : p = row[u]
        BY <1>6
      <4> HIDE DEF row, page, D, taken
      <4> QED
        BY <1>7, <4>1
    <3>2. \A u, v \in taken : shown[u] = shown[v] => u = v
      <4> HIDE DEF row, page, D, taken
      <4> QED
        BY <1>2, <1>7
    <3> HIDE DEF shown, taken, page
    <3> QED
      BY <3>1, <3>2 DEF Bijection, Injection, Surjection, IsInjective
  <2>3. \A u \in taken : val[shown[u]] = Volume({b \in own : key[b] = u}) /\ val[shown[u]] \in Nat
    <3> TAKE u \in taken
    <3>1. {b \in own : key[b] = u} = BetsBy(bs, u)
      BY DEF BetsBy
    <3>2. u \in D /\ row[u] \in page /\ shown[u] = row[u]
      BY <1>7
    <3>3. val[shown[u]] = row[u].totalWagered
      BY <3>2
    <3> HIDE DEF row, val, shown, key, own, page, D
    <3> QED
      BY <1>2, <3>1, <3>2, <3>3
  <2>4. val \in [page -> Nat]
    <3>1. \A p \in page : \E u \in D : p = row[u]
      BY <1>6
    <3> HIDE DEF row, page, D
    <3> QED
      BY <1>2, <3>1
  <2> HIDE DEF own, key, taken, shown, page, val
  <2> QED
    BY <2>1, <2>2, <2>3, <2>4, RowsAddUp
<1>10. ASSUME NEW u \in taken, NEW v \in D \ taken
       PROVE  Volume(BetsBy(bs, v)) <= Volume(BetsBy(bs, u))
  <2>1. u \in D /\ row[u] \in page /\ row[v] \in all \ page
    BY <1>7
  <2>2. PICK i, j \in DOMAIN s : i < j /\ s[i] = row[u] /\ s[j] = row[v]
    BY <1>6, <2>1
  <2>3. row[u].totalWagered >= row[v].totalWagered
    BY <1>3, <2>2
  <2> HIDE DEF row, D
  <2> QED
    BY <1>2, <2>1, <2>3
<1> QED
  <2> HIDE DEF row, all, val, shown
  <2> QED
    BY <1>6, <1>8, <1>9, <1>10

\* Four figures and their total, each rounded on its own.
LEMMA FeesAddUp ==
  ASSUME NEW volume \in Nat,
         NEW p \in Fee(FeeBps.protocol, volume), NEW c \in Fee(FeeBps.creator, volume),
         NEW r \in Fee(FeeBps.referral, volume), NEW d \in Fee(FeeBps.disputeReserve, volume),
         NEW t \in Fee(FeeBps.total, volume)
  PROVE  Near(p + c + r + d, t, 2)
<1>1. /\ FeeBps.protocol \in Nat /\ FeeBps.creator \in Nat /\ FeeBps.referral \in Nat
      /\ FeeBps.disputeReserve \in Nat /\ FeeBps.total \in Nat
      /\ FeeBps.total = FeeBps.protocol + FeeBps.creator + FeeBps.referral + FeeBps.disputeReserve
  BY ReportsAssumption
<1>2. \A a, b, e, g, h \in Nat : h = a + b + e + g =>
        /\ volume * a + volume * b + volume * e + volume * g = volume * h
        /\ volume * a \in Int /\ volume * b \in Int /\ volume * e \in Int /\ volume * g \in Int
        /\ volume * h \in Int
  BY Z3
<1> DEFINE P == volume * FeeBps.protocol
           C == volume * FeeBps.creator
           Q == volume * FeeBps.referral
           E == volume * FeeBps.disputeReserve
           T == volume * FeeBps.total
<1>3. P + C + Q + E = T /\ P \in Int /\ C \in Int /\ Q \in Int /\ E \in Int /\ T \in Int
  BY <1>1, <1>2
<1>4. /\ p \in Int /\ 10000 * p <= P + 5000 /\ P <= 10000 * p + 5000
      /\ c \in Int /\ 10000 * c <= C + 5000 /\ C <= 10000 * c + 5000
      /\ r \in Int /\ 10000 * r <= Q + 5000 /\ Q <= 10000 * r + 5000
      /\ d \in Int /\ 10000 * d <= E + 5000 /\ E <= 10000 * d + 5000
      /\ t \in Int /\ 10000 * t <= T + 5000 /\ T <= 10000 * t + 5000
  BY <1>1, FeeIsNear
<1> HIDE DEF P, C, Q, E, T
<1> QED
  BY <1>3, <1>4 DEF Near

\* The total and what is left of the volume, each rounded on its own.
LEMMA NetAddsUp ==
  ASSUME NEW volume \in Nat, NEW t \in Fee(FeeBps.total, volume),
         NEW n \in Fee(10000 - FeeBps.total, volume)
  PROVE  Near(t + n, volume, 1)
<1> DEFINE b == FeeBps.total
           c == 10000 - FeeBps.total
           T == volume * b
           N == volume * c
<1>1. b \in Nat /\ c \in Int /\ b + c = 10000 /\ t \in Fee(b, volume) /\ n \in Fee(c, volume)
  BY ReportsAssumption
<1> HIDE DEF b, c
<1>2. /\ t \in Int /\ 10000 * t <= T + 5000 /\ T <= 10000 * t + 5000
      /\ n \in Int /\ 10000 * n <= N + 5000 /\ N <= 10000 * n + 5000
  BY <1>1, FeeIsNear
<1>3. T + N = 10000 * volume /\ T \in Int /\ N \in Int
  BY <1>1, Z3
<1> HIDE DEF T, N
<1> QED
  BY <1>2, <1>3 DEF Near

LEMMA DaysOfWindowAgree ==
  DaysAgree
<1> DEFINE since == now - Window
           own == Since(Placed, since)
           days == GetVolumeTrend(Placed, since)
<1>1. Placed \in SUBSET Bets /\ own \in SUBSET Bets
  BY DEF Placed, Since
<1>2. /\ Volume(own) \in Nat
      /\ SumOf(days, LAMBDA d : d.volume) = Volume(own)
      /\ SumOf(days, LAMBDA d : d.betCount) = Cardinality(own)
  BY <1>1, VolumeIsNat, DaysAddUp
<1>3. SUFFICES ASSUME NEW sums \in RevenueBreakdown(Placed, since),
                      NEW short \in RevenueSnapshot(Placed, Placed, since)
               PROVE  /\ SumOf(days, LAMBDA d : d.volume) = sums.totalVolume
                      /\ SumOf(days, LAMBDA d : d.betCount) = short.betCount
                      /\ Near(sums.protocolFees + sums.creatorFees + sums.referralFees
                                + sums.disputeReserve, sums.totalFees, 2)
                      /\ Near(sums.totalFees + sums.netDistributablePool, sums.totalVolume, 1)
                      /\ Near(short.totalProtocolFees + short.totalCreatorFees
                                + short.totalDisputeReserve + sums.referralFees,
                              sums.totalFees, 2)
  BY DEF DaysAgree
<1>4. /\ sums.totalVolume = Volume(own)
      /\ sums.protocolFees \in Fee(FeeBps.protocol, Volume(own))
      /\ sums.creatorFees \in Fee(FeeBps.creator, Volume(own))
      /\ sums.referralFees \in Fee(FeeBps.referral, Volume(own))
      /\ sums.disputeReserve \in Fee(FeeBps.disputeReserve, Volume(own))
      /\ sums.totalFees \in Fee(FeeBps.total, Volume(own))
      /\ sums.netDistributablePool \in Fee(10000 - FeeBps.total, Volume(own))
  BY DEF RevenueBreakdown
<1>5. /\ short.betCount = Cardinality(own)
      /\ short.totalProtocolFees \in Fee(FeeBps.protocol, Volume(own))
      /\ short.totalCreatorFees \in Fee(FeeBps.creator, Volume(own))
      /\ short.totalDisputeReserve \in Fee(FeeBps.disputeReserve, Volume(own))
  BY DEF RevenueSnapshot
<1> HIDE DEF since, own, days
<1>6. Near(sums.protocolFees + sums.creatorFees + sums.referralFees + sums.disputeReserve,
           sums.totalFees, 2)
  BY <1>2, <1>4, FeesAddUp
<1>7. Near(sums.totalFees + sums.netDistributablePool, sums.totalVolume, 1)
  BY <1>2, <1>4, NetAddsUp
<1>8. Near(short.totalProtocolFees + short.totalCreatorFees + short.totalDisputeReserve
            + sums.referralFees, sums.totalFees, 2)
  <2>1. Near(short.totalProtocolFees + short.totalCreatorFees + sums.referralFees
              + short.totalDisputeReserve, sums.totalFees, 2)
    BY <1>2, <1>4, <1>5, FeesAddUp
  <2>2. /\ short.totalProtocolFees \in Int /\ short.totalCreatorFees \in Int
        /\ short.totalDisputeReserve \in Int /\ sums.referralFees \in Int
        /\ sums.totalFees \in Int
    BY <1>2, <1>4, <1>5, FeeIsNear, ReportsAssumption
  <2> QED
    BY <2>1, <2>2 DEF Near
<1> QED
  BY <1>2, <1>4, <1>5, <1>6, <1>7, <1>8

\* The column holds what the indexer wrote.
PoolsHold == totalPool \in [DOMAIN CreatorOf -> Nat]

LEMMA PoolsStep ==
  ASSUME PoolsHold, [Next]_vars
  PROVE  PoolsHold'
<1>1. CASE totalPool' = totalPool
  BY <1>1 DEF PoolsHold
<1>2. ASSUME NEW m \in DOMAIN CreatorOf, WritePool(m)
      PROVE  PoolsHold'
  BY <1>2, ReportsAssumption DEF PoolsHold, WritePool
<1>3. CASE UNCHANGED vars
  BY <1>1, <1>3 DEF vars
<1>4. CASE Tick \/ Query \/ Return \/ Restart
  BY <1>1, <1>4 DEF Tick, Query, Return, Restart
<1>5. CASE \/ \E b \in Bets : PlaceBet(b)
           \/ \E kind \in {"purchases", "whales"} : Ask(kind)
  BY <1>1, <1>5 DEF PlaceBet, Ask
<1>6. CASE \E t \in DOMAIN collecting :
             StoreSnapshot(t) \/ CollectionFails(t) \/ \E f \in Figures : CollectFigure(t, f)
  BY <1>1, <1>6 DEF StoreSnapshot, CollectionFails, CollectFigure
<1> QED
  BY <1>2, <1>3, <1>4, <1>5, <1>6 DEF Next

LEMMA ServicesAgree ==
  ASSUME PoolsHold
  PROVE  Agreement
<1>1. Placed \in SUBSET Bets
  BY DEF Placed
<1>2. SummariesAgree
  BY <1>1, SummaryAddsUp DEF SummariesAgree
<1>3. PoolsAgree
  BY <1>1, MarketsAddUp, CreatorsAddUp DEF PoolsAgree, PoolsHold
<1> QED
  BY <1>2, <1>3, DaysOfWindowAgree DEF Agreement

\* The services count the same rows each in its own way and agree, for any bets,
\* pools, users, markets, creators, windows and limits: what is added up by segment,
\* market, creator or day first comes to the whole of its own table, and figures
\* that are rounded each on its own stray from their total by two millionths at most.
THEOREM FiguresAddUp == Spec => ReportsAgree
<1>1. Init => PoolsHold
  BY DEF Init, PoolsHold
<1>2. PoolsHold /\ [Next]_vars => PoolsHold'
  BY PoolsStep
<1>3. PoolsHold' => Agreement'
  BY ServicesAgree, PTL
<1>4. PoolsHold /\ [Next]_vars =>
        (/\ placedAt' # placedAt \/ totalPool' # totalPool
         /\ request = NoRequest /\ collecting = <<>>
         => Agreement')
  BY <1>2, <1>3
<1> QED
  BY <1>1, <1>2, <1>4, PTL DEF Spec, ReportsAgree
=============================================================================
