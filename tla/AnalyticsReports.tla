--------------------------- MODULE AnalyticsReports ---------------------------
(***************************************************************************)
(* Reports of the analytics agent: signals.service.ts, customers.service.ts*)
(* and revenue.service.ts with the snapshot of collector.service.ts.       *)
(*                                                                         *)
(* A report asks Postgres several times, and bets that somebody else       *)
(* writes are placed between: an answer is a function of the bets that     *)
(* were there when each query was taken, its view.  Rows of equal rank     *)
(* come in any order.  The pool of a market is a column that the indexer   *)
(* writes on its own: it follows no bet of this table.  Amounts are        *)
(* millionths; sums of floats are taken to be exact, products are rounded. *)
(***************************************************************************)
EXTENDS Integers, FiniteSets, Sequences, SequencesExt, FiniteSetsExt, Totals, TLC

CONSTANTS
  Bets, AmountOf, UserOf, MarketOf,  \* the bets there may be
  Pools,                     \* what the indexer may write into Market.totalPool
  CreatorOf, FeeShareBps,    \* of each market its creator, if any, of each creator the share
  Thresholds,                \* SEGMENT_THRESHOLDS: whale, power, regular
  FeeBps,                    \* FEE_BPS: protocol, creator, referral, disputeReserve, total
  SummaryLimit,              \* profiles the summary takes: 10000
  PerWhale,                  \* recent bets of a whale: 5
  MinBetAmount, WhaleLimit,  \* a whale's bet and the whales asked for: 1000, 20
  Limit,                     \* rows of a page
  Window, Day,               \* of the purchases read, of the trend
  CollectEvery,              \* the cron: 5 minutes
  CollectDelay, QueryDelay,  \* assumed: collections and reports take no longer
  MaxFaults, MaxTime         \* bounds on failed collections and restarts, and the clock

ASSUME ReportsAssumption ==
  /\ IsFiniteSet(Bets) /\ AmountOf \in [Bets -> Nat]
  /\ IsFiniteSet(DOMAIN CreatorOf) /\ MarketOf \in [Bets -> DOMAIN CreatorOf]
  /\ Pools \subseteq Nat
  /\ IsFiniteSet(DOMAIN FeeShareBps)
  /\ FeeBps \in [{"protocol", "creator", "referral", "disputeReserve", "total"} -> Nat]
  /\ FeeBps.total = FeeBps.protocol + FeeBps.creator + FeeBps.referral + FeeBps.disputeReserve
  /\ SummaryLimit \in Nat /\ PerWhale \in Nat /\ MinBetAmount \in Nat /\ WhaleLimit \in Nat
  /\ Limit \in Nat /\ Window \in Nat /\ CollectEvery \in Nat \ {0} /\ CollectDelay \in Nat

VARIABLES
  now, placedAt,    \* 0: not placed
  totalPool,        \* the column of each market
  latestSnapshot,   \* the views of its figures
  collecting,       \* the collections that run, by the time the cron started them
  request,          \* the report that is being made
  reader,           \* a client that reads the pages of purchases
  faults

vars == <<now, placedAt, totalPool, latestSnapshot, collecting, request, reader, faults>>

NoSnapshot == <<>>
NoRequest  == [kind |-> "none"]

Init ==
  /\ now = 1 /\ placedAt = [b \in Bets |-> 0] /\ totalPool = [m \in DOMAIN CreatorOf |-> 0]
  /\ latestSnapshot = NoSnapshot /\ collecting = <<>> /\ request = NoRequest
  /\ reader = [offset |-> 0, seen |-> {}, began |-> 0, since |-> 0, done |-> FALSE]
  /\ faults = 0

------------------------------------------------------------------------------
(* The rows of a view.                                                      *)

Placed        == {b \in Bets : placedAt[b] # 0}
Since(bs, t)  == {b \in bs : placedAt[b] >= t}
Volume(bs)    == Total([b \in bs |-> AmountOf[b]])
UsersOf(bs)   == {UserOf[b] : b \in bs}
MarketsOf(bs) == {MarketOf[b] : b \in bs}
BetsBy(bs, u) == {b \in bs : UserOf[b] = u}
BetsIn(bs, m) == {b \in bs : MarketOf[b] = m}
Largest(bs)   == Max({AmountOf[b] : b \in bs})

\* What ORDER BY key DESC may answer.
Ranked(S, Key(_)) ==
  {s \in SetToSeqs(S) : \A i, j \in DOMAIN s : i < j => Key(s[i]) >= Key(s[j])}

Slice(s, offset, limit) == SubSeq(s, offset + 1, Min({offset + limit, Len(s)}))

Newest(bs) == Ranked(bs, LAMBDA b : placedAt[b])

------------------------------------------------------------------------------
(* customers.service.ts.                                                    *)

ClassifySegment(wagered) ==
  CASE wagered >= Thresholds.whale   -> "whale"
    [] wagered >= Thresholds.power   -> "power"
    [] wagered >= Thresholds.regular -> "regular"
    [] OTHER                         -> "casual"

Segments == {"whale", "power", "regular", "casual"}

Profile(bs, u) ==
  LET own == BetsBy(bs, u)
  IN  [userId |-> u, totalWagered |-> Volume(own), totalBets |-> Cardinality(own),
       uniqueMarkets |-> Cardinality(MarketsOf(own)), segment |-> ClassifySegment(Volume(own))]

\* Filtered and ranked before it is cut; the sort may meet equals in any order.
GetCustomerProfiles(bs, limit, offset, minWagered) ==
  LET all == {p \in {Profile(bs, u) : u \in UsersOf(bs)} : p.totalWagered >= minWagered}
  IN  {Slice(s, offset, limit) : s \in Ranked(all, LAMBDA p : p.totalWagered)}

GetSegmentSummary(profiles) ==
  [seg \in Segments |->
    LET of == {p \in ToSet(profiles) : p.segment = seg}
    IN  [count |-> Cardinality(of),
         totalVolume |-> Total([p \in of |-> p.totalWagered])]]

\* HAVING MAX(amount) >= min ORDER BY SUM(amount) DESC LIMIT limit.
WhaleAggregate(bs, limit) ==
  LET whales == {u \in UsersOf(bs) : Largest(BetsBy(bs, u)) >= MinBetAmount}
  IN  {Slice(s, 0, limit) : s \in Ranked(whales, LAMBDA u : Volume(BetsBy(bs, u)))}

\* Mutant: the bets come in no order.
UnorderedBets(bs, whales) ==
  {Slice(s, 0, WhaleLimit * PerWhale) : s \in SetToSeqs({b \in bs : UserOf[b] \in ToSet(whales)})}

\* The newest bets of all whales together, as many as five each would be.
RecentBets(bs, whales) ==
  {Slice(s, 0, WhaleLimit * PerWhale) : s \in Newest({b \in bs : UserOf[b] \in ToSet(whales)})}

FavoriteMarkets(bs, u) ==
  LET Count(m) == Cardinality(BetsIn(BetsBy(bs, u), m))
  IN  {m \in MarketsOf(BetsBy(bs, u)) : \A n \in MarketsOf(bs) : Count(n) <= Count(m)}

\* The first bets of a user, as many as are shown of a whale.
FirstOf(recent, u) ==
  LET own == {i \in DOMAIN recent : UserOf[recent[i]] = u}
  IN  {recent[i] : i \in {j \in own : Cardinality({k \in own : k < j}) < PerWhale}}

\* One row of the answer; the totals are of the first view, the rest of later ones.
WhaleActivity(views, recent, u) ==
  [userId |-> u,
   totalWagered |-> Volume(BetsBy(views.whales, u)), largestBet |-> Largest(BetsBy(views.whales, u)),
   betCount |-> Cardinality(BetsBy(views.whales, u)),
   favoriteMarkets |-> FavoriteMarkets(views.favorites, u),
   recentBets |-> FirstOf(recent, u)]

------------------------------------------------------------------------------
(* signals.service.ts and revenue.service.ts.                               *)

\* Mutant: the feed starts with the oldest bet.
OldestFirst(bs, since, limit, offset) ==
  {Slice(s, offset, limit) : s \in Ranked(Since(bs, since), LAMBDA b : -placedAt[b])}

GetPurchaseSignals(bs, since, limit, offset) ==
  {Slice(s, offset, limit) : s \in Newest(Since(bs, since))}

\* Left out: the window of the markets' own creation, and their status.
GetMarketSignals(bs, limit, offset) ==
  LET Signal(m) == [marketId |-> m, totalPool |-> totalPool[m],
                    betCount |-> Cardinality(BetsIn(bs, m)),
                    uniqueBettors |-> Cardinality(UsersOf(BetsIn(bs, m)))]
  IN  {Slice(s, offset, limit) :
         s \in Ranked({Signal(m) : m \in DOMAIN CreatorOf}, LAMBDA g : g.totalPool)}

DayOf(b) == placedAt[b] \div Day

\* Mutant: a bet starts its day's bucket anew.
FreshBuckets(bs, since) ==
  LET rows == Since(bs, since)
      Latest(d) == {b \in rows : DayOf(b) = d
                            /\ \A c \in rows : DayOf(c) = d => placedAt[c] <= placedAt[b]}
  IN  {[period |-> d, volume |-> Volume(Latest(d)), betCount |-> Cardinality(Latest(d)),
        uniqueUsers |-> Cardinality(UsersOf(Latest(d)))] : d \in {DayOf(b) : b \in rows}}

GetVolumeTrend(bs, since) ==
  LET rows == Since(bs, since)
      Bucket(d) == {b \in rows : DayOf(b) = d}
  IN  {[period |-> d, volume |-> Volume(Bucket(d)), betCount |-> Cardinality(Bucket(d)),
        uniqueUsers |-> Cardinality(UsersOf(Bucket(d)))] : d \in {DayOf(b) : b \in rows}}

\* toFixed(6) of a float: the nearest millionth, at a tie either neighbour.
Fixed(tenThousandths) ==
  LET floor == tenThousandths \div 10000
  IN  {n \in {floor, floor + 1} :
         /\ 10000 * n <= tenThousandths + 5000
         /\ tenThousandths <= 10000 * n + 5000}

\* What a fee may read: each figure is rounded on its own.
Fee(bps, volume) == Fixed(volume * bps)

\* The totals are the snapshot's, or asked for; a whale is only known from a snapshot.
\* Left out: the users, the markets and the trend.
GetDashboard(snapshot, volumeView, countView) ==
  LET known  == snapshot # <<>>
      volume == Volume(IF known THEN snapshot.allTime ELSE volumeView)
  IN  {[totalVolume |-> volume,
        totalBets |-> Cardinality(IF known THEN snapshot.allTime ELSE countView),
        estimatedRevenue |-> fee, topWhale |-> Slice(whales, 0, 1)] :
         fee \in Fee(FeeBps.protocol, volume),
         whales \in IF known THEN WhaleAggregate(snapshot.whales, 50) ELSE {<<>>}}

RevenueSnapshot(volumeView, countView, since) ==
  LET volume == Volume(Since(volumeView, since))
  IN  {[totalProtocolFees |-> p, totalCreatorFees |-> c, totalDisputeReserve |-> d,
        totalPoolVolume |-> volume, betCount |-> Cardinality(Since(countView, since))] :
         p \in Fee(FeeBps.protocol, volume), c \in Fee(FeeBps.creator, volume),
         d \in Fee(FeeBps.disputeReserve, volume)}

RevenueBreakdown(bs, since) ==
  LET volume == Volume(Since(bs, since))
  IN  {[totalVolume |-> volume, protocolFees |-> p, creatorFees |-> c, referralFees |-> r,
        disputeReserve |-> d, totalFees |-> t, netDistributablePool |-> n] :
         p \in Fee(FeeBps.protocol, volume), c \in Fee(FeeBps.creator, volume),
         r \in Fee(FeeBps.referral, volume), d \in Fee(FeeBps.disputeReserve, volume),
         t \in Fee(FeeBps.total, volume), n \in Fee(10000 - FeeBps.total, volume)}

\* The column of each creator's markets, and what the fee of it may read.
GetCreatorRevenue(limit) ==
  LET Own(c) == {m \in DOMAIN CreatorOf : CreatorOf[m] = c}
      Row(c) == LET volume == Total([m \in Own(c) |-> totalPool[m]])
                IN  [creatorId |-> c, totalVolume |-> volume,
                     estimatedCreatorFees |-> Fee(FeeShareBps[c], volume)]
  IN  {Slice(s, 0, limit) :
         s \in Ranked({Row(c) : c \in DOMAIN FeeShareBps}, LAMBDA r : r.totalVolume)}

------------------------------------------------------------------------------
(* The table of bets, the clock and the collector.                          *)

With(f, x, v) == [y \in DOMAIN f \cup {x} |-> IF y = x THEN v ELSE f[y]]

PlaceBet(b) ==
  /\ placedAt[b] = 0 /\ placedAt' = [placedAt EXCEPT ![b] = now]
  /\ UNCHANGED <<now, totalPool, latestSnapshot, collecting, request, reader, faults>>

\* The indexer writes the column at its own pace, from the chain.
WritePool(m) ==
  /\ \E pool \in Pools : totalPool' = [totalPool EXCEPT ![m] = pool]
  /\ UNCHANGED <<now, placedAt, latestSnapshot, collecting, request, reader, faults>>

\* The cron starts a collection whether or not the one before has ended.
Tick ==
  /\ now < MaxTime /\ now' = now + 1
  /\ \A t \in DOMAIN collecting : now < t + CollectDelay
  /\ request # NoRequest => now < request.askedAt + QueryDelay
  /\ collecting' = IF now' % CollectEvery = 0 THEN With(collecting, now', <<>>) ELSE collecting
  /\ UNCHANGED <<placedAt, totalPool, latestSnapshot, request, reader, faults>>

\* The aggregates the dashboard reads.
Figures == {"allTime", "whales"}

CollectFigure(t, figure) ==
  /\ t \in DOMAIN collecting /\ figure \in Figures \ DOMAIN collecting[t]
  /\ collecting' = [collecting EXCEPT ![t] = With(@, figure, Placed)]
  /\ UNCHANGED <<now, placedAt, totalPool, latestSnapshot, request, reader, faults>>

Without(t) == [s \in DOMAIN collecting \ {t} |-> collecting[s]]

\* Mutant: the snapshot is collected once.
KeptSnapshot(t) == IF latestSnapshot = NoSnapshot THEN collecting[t] ELSE latestSnapshot

\* collectAll stores whatever ends last, older than the snapshot or not.
NewSnapshot(t) == collecting[t]

StoreSnapshot(t) ==
  /\ t \in DOMAIN collecting /\ DOMAIN collecting[t] = Figures
  /\ latestSnapshot' = NewSnapshot(t) /\ collecting' = Without(t)
  /\ UNCHANGED <<now, placedAt, totalPool, request, reader, faults>>

\* A failed cycle is logged and the snapshot stays.
CollectionFails(t) ==
  /\ t \in DOMAIN collecting /\ collecting' = Without(t)
  /\ faults < MaxFaults /\ faults' = faults + 1
  /\ UNCHANGED <<now, placedAt, totalPool, latestSnapshot, request, reader>>

Restart ==
  /\ faults < MaxFaults /\ faults' = faults + 1
  /\ latestSnapshot' = NoSnapshot /\ collecting' = <<>> /\ request' = NoRequest
  /\ UNCHANGED <<now, placedAt, totalPool, reader>>

------------------------------------------------------------------------------
(* Requests.                                                                *)

\* The queries of a report, one after the other.  Left out: the count beside a page.
Stages(kind) ==
  IF kind = "purchases" THEN <<"page">> ELSE <<"whales", "recent", "favorites">>

Ask(kind) ==
  /\ request = NoRequest
  /\ request' = [kind |-> kind, askedAt |-> now, since |-> now - Window,
                 views |-> <<>>, stages |-> Stages(kind)]
  /\ reader' = IF kind = "purchases" /\ reader.began = 0
                 THEN [reader EXCEPT !.began = now] ELSE reader
  /\ kind = "purchases" => ~reader.done
  /\ UNCHANGED <<now, placedAt, totalPool, latestSnapshot, collecting, faults>>

\* The moment the database takes a query.  No whale: the rest is not asked.
Query ==
  /\ request # NoRequest /\ request.stages # <<>>
  /\ LET q == Head(request.stages)
     IN  request' = [request EXCEPT
           !.views = With(@, q, Placed),
           !.stages = IF q = "whales" /\ <<>> \in WhaleAggregate(Placed, WhaleLimit) THEN <<>>
                      ELSE Tail(@)]
  /\ UNCHANGED <<now, placedAt, totalPool, latestSnapshot, collecting, reader, faults>>

Answered == request # NoRequest /\ request.stages = <<>>

\* A client asks for the next page until one comes back short.
ReadPage(page) ==
  reader' = [reader EXCEPT !.offset = @ + Limit, !.seen = @ \cup ToSet(page),
                           !.since = request.since, !.done = Len(page) < Limit]

Return ==
  /\ Answered /\ request' = NoRequest
  /\ IF request.kind = "purchases"
       THEN \E page \in GetPurchaseSignals(request.views.page, request.since, Limit, reader.offset) :
              ReadPage(page)
       ELSE UNCHANGED reader
  /\ UNCHANGED <<now, placedAt, totalPool, latestSnapshot, collecting, faults>>

Next ==
  \/ Tick \/ \E b \in Bets : PlaceBet(b)
  \/ \E m \in DOMAIN CreatorOf : WritePool(m)
  \/ \E t \in DOMAIN collecting :
       StoreSnapshot(t) \/ CollectionFails(t) \/ \E f \in Figures : CollectFigure(t, f)
  \/ \E kind \in {"purchases", "whales"} : Ask(kind)
  \/ Query \/ Return \/ Restart

Spec == Init /\ [][Next]_vars

------------------------------------------------------------------------------
(* Properties.                                                              *)

SumOf(S, Value(_)) == Total([x \in S |-> Value(x)])

\* Bets added up by segment first.
SummariesAgree ==
  \A profiles \in GetCustomerProfiles(Placed, SummaryLimit, 0, 0) :
    LET taken   == {p.userId : p \in ToSet(profiles)}
        summary == GetSegmentSummary(profiles)
    IN  /\ SumOf(Segments, LAMBDA s : summary[s].totalVolume)
             = Volume({b \in Placed : UserOf[b] \in taken})
        /\ SumOf(Segments, LAMBDA s : summary[s].count)
             = Min({SummaryLimit, Cardinality(UsersOf(Placed))})
        /\ \A u \in taken, v \in UsersOf(Placed) \ taken :
             Volume(BetsBy(Placed, v)) <= Volume(BetsBy(Placed, u))

\* The pools of the signals and the volumes of the creators are one column.
PoolsAgree ==
  \A signals \in GetMarketSignals(Placed, Cardinality(DOMAIN CreatorOf), 0),
     creators \in GetCreatorRevenue(Cardinality(DOMAIN FeeShareBps)) :
    /\ SumOf(ToSet(creators), LAMBDA c : c.totalVolume)
         = SumOf({s \in ToSet(signals) : CreatorOf[s.marketId] \in DOMAIN FeeShareBps},
                 LAMBDA s : s.totalPool)
    /\ SumOf(ToSet(signals), LAMBDA s : s.betCount) = Cardinality(Placed)

Near(a, b, distance) == a - b \in -distance .. distance

DaysAgree ==
  LET since == now - Window
      days  == GetVolumeTrend(Placed, since)
  IN  \A sums \in RevenueBreakdown(Placed, since),
         short \in RevenueSnapshot(Placed, Placed, since) :
        /\ SumOf(days, LAMBDA d : d.volume) = sums.totalVolume
        /\ SumOf(days, LAMBDA d : d.betCount) = short.betCount
        /\ Near(sums.protocolFees + sums.creatorFees + sums.referralFees + sums.disputeReserve,
                sums.totalFees, 2)
        /\ Near(sums.totalFees + sums.netDistributablePool, sums.totalVolume, 1)
        /\ Near(short.totalProtocolFees + short.totalCreatorFees + short.totalDisputeReserve
                  + sums.referralFees, sums.totalFees, 2)

Agreement == SummariesAgree /\ PoolsAgree /\ DaysAgree

\* The services count the same rows each in its own way.  After a write that meets
\* neither a report nor a cycle they agree: segments add up to the volume of their
\* bets, the days of a trend to the breakdown of its window, the bets of the markets
\* to all bets, and the pools of the markets to the volumes of their creators.  The
\* fees, each rounded on its own, are within two millionths of the total, and total
\* and net within one of the volume.  A summary of more bettors than it takes leaves
\* out the smallest.  Nothing is said of a pool and its market's bets: the pool is
\* the indexer's column, and the two may differ by any amount.
ReportsAgree ==
  [][/\ placedAt' # placedAt \/ totalPool' # totalPool
     /\ request = NoRequest /\ collecting = <<>>
     => Agreement']_vars

\* A client that turns pages until one comes back short has seen every bet that was
\* there when it began and is still in the window, whatever is placed meanwhile.  A
\* bet that shares its instant with another may fall between two pages: no second
\* column orders the feed.
PagesMissNothing ==
  reader.done =>
    \A b \in Placed :
      /\ reader.since <= placedAt[b] /\ placedAt[b] < reader.began
      /\ \A c \in Placed \ {b} : placedAt[c] # placedAt[b]
      => b \in reader.seen

\* "5 recent bets per whale max" (customers.service.ts): the bets shown of a whale
\* are the newest, and fewer only if the whales together filled the query; what
\* contradicts the totals of the first query was placed after it.
WhaleRowsHold ==
  Answered /\ request.kind = "whales" /\ "recent" \in DOMAIN request.views =>
    LET views == request.views
        late  == views.favorites \ views.whales
    IN  \A whales \in WhaleAggregate(views.whales, WhaleLimit) :
        \A recent \in RecentBets(views.recent, whales), u \in ToSet(whales) :
          LET row   == WhaleActivity(views, recent, u)
              shown == row.recentBets
              own   == BetsBy(views.recent, u)
          IN  /\ \A b \in own \ shown, c \in shown : placedAt[b] <= placedAt[c]
              /\ \A b \in own \ shown :
                   \/ Cardinality(shown) = PerWhale
                   \/ Cardinality({c \in views.recent :
                         UserOf[c] \in ToSet(whales) /\ placedAt[c] >= placedAt[b]})
                        > WhaleLimit * PerWhale
              /\ \A b \in shown : AmountOf[b] <= row.largestBet \/ b \in late
              /\ Cardinality(shown) <= row.betCount + Cardinality(late)
              /\ late = {} => \A m \in row.favoriteMarkets :
                   Cardinality(BetsIn(own, m)) * Cardinality(MarketsOf(own)) >= row.betCount

\* Two cycles may overlap and the older end last, a cycle may fail.
MaxAge == 2 * CollectDelay + (1 + faults) * CollectEvery

\* What the dashboard must know of bets that are old.
DashboardShows(old) ==
  \A dashboard \in GetDashboard(latestSnapshot, Placed, Placed) :
    /\ dashboard.totalVolume \in Volume(old) .. Volume(Placed)
    /\ dashboard.totalBets \in Cardinality(old) .. Cardinality(Placed)
    /\ 10000 * dashboard.estimatedRevenue + 5000 >= FeeBps.protocol * Volume(old)
    /\ \A u \in UsersOf(old) :
         latestSnapshot # NoSnapshot /\ Largest(BetsBy(old, u)) >= MinBetAmount =>
           /\ dashboard.topWhale # <<>>
           /\ Volume(BetsBy(Placed, dashboard.topWhale[1])) >= Volume(BetsBy(old, u))

\* The dashboard lags behind the bets by a bounded time: its totals count every bet
\* that is older than MaxAge and none that is not there, though cycles overlap, end
\* out of order, fail, or are lost with the process.
DashboardIsRecent == DashboardShows({b \in Placed : placedAt[b] < now - MaxAge})
=============================================================================
