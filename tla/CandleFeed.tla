----------------------------- MODULE CandleFeed -----------------------------
(***************************************************************************)
(* The candles of one market from the engine's aggregators to the app's     *)
(* chart: the bus mailbox that may drop them, the session that coalesces    *)
(* them, the connection that may be lost, REST pages and cached pages of    *)
(* history that race the socket, the merge in the app, and a reset of the   *)
(* engine (market/candle.go, engine.go and bus.go, delivery/coalesce.go and *)
(* session.go, candle_merger.dart, interval_request_guard.dart,             *)
(* caching_market_history_repository.dart, market_bloc.dart).               *)
(*                                                                          *)
(* A candle is its interval, its bucket and the number of the last trade in *)
(* it (SourceSequence): trades are numbered in order, across a reset too,   *)
(* so that fixes its OHLCV, whose arithmetic is in MarketEngine.  A time    *)
(* unit is one short bucket, two of them a long one.  Other frames share    *)
(* the outbound queue, so a candle frame may find it full at any time.      *)
(***************************************************************************)
EXTENDS Integers, Sequences, FiniteSets

CONSTANTS
    Cap,         \* capacity of the session's mailbox
    OutCap,      \* frames on their way to the app
    MaxTrades,   \* bound: trades the engine applies
    MaxAsks,     \* bound: history loads the app starts
    MaxWork      \* bound: trades and loads together

ASSUME FeedAssumption ==
    /\ Cap \in Nat \ {0} /\ OutCap \in Nat \ {0}
    /\ MaxTrades \in Nat \ {0} /\ MaxAsks \in Nat \ {0}
    /\ MaxWork \in Nat

Intervals == {"m", "h"}
BucketStart(iv, t) == IF iv = "m" THEN t ELSE t \div 2

Candles == [iv : Intervals, start : Nat, seq : Nat, closed : BOOLEAN]
Candle(iv, start, seq, closed) ==
    [iv |-> iv, start |-> start, seq |-> seq, closed |-> closed]
None == Candle("m", 0, 0, FALSE)
Same(c, d) == c.iv = d.iv /\ c.start = d.start
Sealed(c) == [c EXCEPT !.closed = TRUE]

Elems(s) == {s[i] : i \in 1..Len(s)}
Last(s) == s[Len(s)]

\* The i-th smallest of a set of numbers.
Nth(S, i) == CHOOSE t \in S : Cardinality({u \in S : u < t}) = i - 1

VARIABLES
    now,        \* timestamp of the last trade
    n,          \* number of the last trade
    active,     \* per interval: the aggregator's active candle, or the last it had
    ended,      \* per interval: every bucket that ended, with its last value
    history,    \* per interval: the aggregator's closed candles
    fresh,      \* the aggregators were reset and have seen no trade since
    pubs,       \* events of the last trade the engine still has to publish
    mailbox,    \* the session's subscription
    interval,   \* the session's interval
    pending,    \* per interval: the candle the coalescer holds
    online,     \* the app has a connection, and the session with it
    outbound,   \* candle frames between the session and the app
    selected,   \* the interval on the user's screen
    chart,      \* MarketState.candles
    asks,       \* history loads under way: [id, iv, sub, page, net]
    guard,      \* IntervalRequestGuard: [id, iv]
    asked,      \* its counter
    cache,      \* per interval: the page the app keeps on the device
    spec,       \* the subscription the app repeats when it connects
    told,       \* subscribe messages on their way to the session
    missed,     \* buckets whose close did not reach the chart in its turn, or
                \* that the chart closed and dropped for another interval
    behind,     \* intervals whose newest change is not on its way to the chart
    skipped     \* a refresh superseded the load that would have resubscribed, or
                \* the session dropped the subscribe

marketVars == <<now, n, active, ended>>
engineVars == <<marketVars, history, fresh>>
sessionVars == <<interval, pending, online>>
appVars == <<selected, chart, asks, guard, asked, cache, spec, skipped>>
vars == <<engineVars, pubs, mailbox, sessionVars, outbound, appVars, told, missed, behind>>

\* The warmed-up engine has one trade.  The app starts on 1m, not yet connected
\* and with nothing loaded; an earlier start left pages on the device.  A load may
\* pass them over, so that a device without a page has no behaviour of its own.
Init ==
    /\ now = 0 /\ n = 1
    /\ active = [iv \in Intervals |-> Candle(iv, 0, 1, FALSE)]
    /\ ended = [iv \in Intervals |-> <<>>]
    /\ history = [iv \in Intervals |-> <<>>] /\ fresh = FALSE
    /\ pubs = <<>> /\ mailbox = <<>> /\ interval = "m" /\ online = FALSE
    /\ pending = [iv \in Intervals |-> None] /\ outbound = <<>>
    /\ selected = "m" /\ chart = <<>> /\ spec = "m"
    /\ cache = [iv \in Intervals |-> <<active[iv]>>]
    /\ asks = {} /\ guard = [id |-> 0, iv |-> "none"] /\ asked = 0 /\ told = <<>>
    /\ missed = {} /\ behind = Intervals /\ skipped = FALSE

(* ---------------------------- engine and bus ------------------------------ *)

\* CandleAggregator.Apply on the next trade: a bucket ends, and an aggregator that
\* was not reset closes it.
Ends(iv, t) == BucketStart(iv, t) > active[iv].start
Rolls(iv, t) == ~fresh /\ Ends(iv, t)
Applied(iv, t) == Candle(iv, BucketStart(iv, t), n + 1, FALSE)
Closed(iv) == Sealed(active[iv])

\* Mutant: the changes are published before the closes.
PublishedChangedFirst(t) ==
    <<Applied("m", t), Applied("h", t)>>
       \o (IF Rolls("m", t) THEN <<Closed("m")>> ELSE <<>>)
       \o (IF Rolls("h", t) THEN <<Closed("h")>> ELSE <<>>)

\* applyTrade publishes every close before any change.
Published(t) ==
    (IF Rolls("m", t) THEN <<Closed("m")>> ELSE <<>>)
       \o (IF Rolls("h", t) THEN <<Closed("h")>> ELSE <<>>)
       \o <<Applied("m", t), Applied("h", t)>>

ApplyTrade ==
    /\ pubs = <<>> /\ n < MaxTrades /\ n + asked < MaxWork
    /\ \E t \in {now, now + 1} :
          /\ now' = t
          /\ active' = [iv \in Intervals |-> Applied(iv, t)]
          /\ ended' = [iv \in Intervals |-> IF Ends(iv, t)
                         THEN Append(ended[iv], Closed(iv)) ELSE ended[iv]]
          /\ history' = [iv \in Intervals |-> IF Rolls(iv, t)
                           THEN Append(history[iv], Closed(iv)) ELSE history[iv]]
          /\ pubs' = Published(t)
          /\ missed' = missed \cup {<<iv, active[iv].start>> :
                           iv \in {iv \in Intervals : fresh /\ Ends(iv, t)}}
    /\ n' = n + 1 /\ fresh' = FALSE
    /\ UNCHANGED <<mailbox, sessionVars, outbound, appVars, told, behind>>

\* Engine.Reset: the aggregators are empty, whatever is still to be published.
Reset ==
    /\ history' = [iv \in Intervals |-> <<>>] /\ fresh' = TRUE
    /\ UNCHANGED <<marketVars, pubs, mailbox, sessionVars, outbound, appVars, told,
                   missed, behind>>

\* Mutant: Publish does not look at the mailbox's capacity.
PublishUnbounded ==
    /\ pubs # <<>>
    /\ mailbox' = Append(mailbox, Head(pubs))
    /\ pubs' = Tail(pubs)
    /\ UNCHANGED <<engineVars, sessionVars, outbound, appVars, told, missed, behind>>

\* Bus.Publish with room in the mailbox.
Publish ==
    /\ pubs # <<>> /\ online /\ Len(mailbox) < Cap
    /\ mailbox' = Append(mailbox, Head(pubs))
    /\ pubs' = Tail(pubs)
    /\ behind' = IF Head(pubs).closed THEN behind ELSE behind \ {Head(pubs).iv}
    /\ UNCHANGED <<engineVars, sessionVars, outbound, appVars, told, missed>>

\* A full mailbox loses a change at once and a close after 50 ms; nobody looks at
\* the names Publish returns.  Without a connection there is no mailbox.
PublishLost ==
    /\ pubs # <<>> /\ (online => Len(mailbox) = Cap)
    /\ pubs' = Tail(pubs)
    /\ IF Head(pubs).closed
       THEN /\ missed' = missed \cup {<<Head(pubs).iv, Head(pubs).start>>}
            /\ UNCHANGED behind
       ELSE /\ behind' = behind \cup {Head(pubs).iv}
            /\ UNCHANGED missed
    /\ UNCHANGED <<engineVars, mailbox, sessionVars, outbound, appVars, told>>

(* -------------------------------- session --------------------------------- *)

\* Coalescer.OnCandle.
OnCandle(c) ==
    IF pending[c.iv] # None /\ Same(pending[c.iv], c) /\ pending[c.iv].seq >= c.seq
    THEN pending
    ELSE [pending EXCEPT ![c.iv] = c]

\* handleEvent for a change of any interval.
HandleChanged ==
    /\ mailbox # <<>> /\ ~Head(mailbox).closed
    /\ mailbox' = Tail(mailbox)
    /\ LET c == Head(mailbox)
       IN  IF c.iv = interval
           THEN pending' = OnCandle(c) /\ UNCHANGED behind
           ELSE behind' = behind \cup {c.iv} /\ UNCHANGED pending
    /\ UNCHANGED <<engineVars, pubs, interval, online, outbound, appVars, told, missed>>

\* handleEvent for a close of the session's interval: never coalesced.
SendCandleClosed ==
    /\ mailbox # <<>> /\ Head(mailbox).closed /\ Head(mailbox).iv = interval
    /\ Len(outbound) < OutCap
    /\ mailbox' = Tail(mailbox)
    /\ outbound' = Append(outbound, Head(mailbox))
    /\ UNCHANGED <<engineVars, pubs, sessionVars, appVars, told, missed, behind>>

\* Coalescer.Reset: what it held is lost.
EmptyCoalescer ==
    /\ pending' = [iv \in Intervals |-> None]
    /\ behind' = behind \cup {iv \in Intervals : pending[iv] # None}

\* A close of another interval, the injected fault, or a queue that stays full:
\* requestResync then sends a book snapshot and empties the coalescer.
LoseCandleClosed ==
    /\ mailbox # <<>> /\ Head(mailbox).closed
    /\ mailbox' = Tail(mailbox)
    /\ missed' = missed \cup {<<Head(mailbox).iv, Head(mailbox).start>>}
    /\ \/ UNCHANGED <<pending, behind>>
       \/ Head(mailbox).iv = interval /\ EmptyCoalescer
    /\ UNCHANGED <<engineVars, pubs, interval, online, outbound, appVars, told>>

\* requestResync on the way of the book: a full queue, a lost range or a frame the
\* app asks for again.
BookResync ==
    /\ \E iv \in Intervals : pending[iv] # None
    /\ EmptyCoalescer
    /\ UNCHANGED <<engineVars, pubs, mailbox, interval, online, outbound, appVars, told,
                   missed>>

\* Mutant: a full queue loses the candle that was taken from the coalescer.
FlushLoses ==
    /\ pending[interval] # None
    /\ pending' = [pending EXCEPT ![interval] = None]
    /\ outbound' \in {outbound, Append(outbound, pending[interval])}
    /\ Len(outbound') <= OutCap
    /\ UNCHANGED <<engineVars, pubs, mailbox, interval, online, appVars, told, missed,
                   behind>>

\* flushCandles: the candle of the session's interval leaves, or goes back into
\* the coalescer when the queue is full.
FlushCandles ==
    /\ pending[interval] # None
    /\ \/ /\ Len(outbound) < OutCap
          /\ outbound' = Append(outbound, pending[interval])
          /\ pending' = [pending EXCEPT ![interval] = None]
       \/ UNCHANGED <<outbound, pending>>
    /\ UNCHANGED <<engineVars, pubs, mailbox, interval, online, appVars, told, missed,
                   behind>>

\* handleSubscribe: the new interval, and the engine's active candle around the
\* mailbox and the coalescer, if the queue has room for it.  The coalescer keeps
\* what it held.
Subscribe ==
    /\ told # <<>>
    /\ told' = Tail(told)
    /\ interval' = Head(told)
    /\ missed' = missed \cup {<<c.iv, c.start>> :
                     c \in {c \in Elems(mailbox) \cup Elems(pubs) :
                              c.closed /\ c.iv = Head(told)}}
    /\ \/ /\ ~fresh /\ Len(outbound) < OutCap
          /\ outbound' = Append(outbound, active[Head(told)])
          /\ behind' = behind \ {Head(told)}
       \/ UNCHANGED <<outbound, behind>>
    /\ UNCHANGED <<engineVars, pubs, mailbox, pending, online, appVars>>

\* Is a load under way that will tell the session the selected interval?
WillSubscribe == \E a \in asks : a.sub /\ a.id = guard.id

\* A subscribe that finds the session's command queue full is dropped.
DropSubscribe ==
    /\ told # <<>>
    /\ told' = Tail(told)
    /\ skipped' = (skipped \/ (Len(told) = 1 /\ ~WillSubscribe))
    /\ UNCHANGED <<engineVars, pubs, mailbox, sessionVars, outbound, selected, chart, asks,
                   guard, asked, cache, spec, missed, behind>>

(* ------------------------------ connection -------------------------------- *)

\* The connection is lost, and with it the session and all that was on its way.
Disconnect ==
    /\ online /\ online' = FALSE
    /\ mailbox' = <<>> /\ outbound' = <<>> /\ told' = <<>>
    /\ pending' = [iv \in Intervals |-> None]
    /\ LET lost == Elems(mailbox) \cup Elems(outbound)
       IN  /\ missed' = missed \cup {<<c.iv, c.start>> : c \in {c \in lost : c.closed}}
           /\ behind' = behind \cup {c.iv : c \in {c \in lost : ~c.closed}}
                               \cup {iv \in Intervals : pending[iv] # None}
    /\ UNCHANGED <<engineVars, pubs, interval, appVars>>

\* A new session, on 1m, and the subscribe that the app repeats to it.
Connect ==
    /\ ~online /\ online' = TRUE
    /\ interval' = "m" /\ told' = <<spec>>
    /\ UNCHANGED <<engineVars, pubs, mailbox, pending, outbound, appVars, missed, behind>>

(* ---------------------------------- app ----------------------------------- *)

\* _seriesForInterval: what is left of the chart once foreign candles are dropped.
SeriesFor(iv) ==
    LET kept == {i \in 1..Len(chart) : chart[i].iv = iv}
    IN  [i \in 1..Cardinality(kept) |-> chart[Nth(kept, i)]]

\* What the chart forgets when it is cut down to iv, and what it ignores.
Forget(iv, ignored) ==
    /\ missed' = missed \cup ignored \cup {<<c.iv, c.start>> :
                     c \in {c \in Elems(chart) : c.closed /\ c.iv # iv}}
    /\ behind' = behind \cup (Intervals \ {iv})

\* Mutant: a bucket the chart does not have is appended, wherever it belongs.
MergeOverwrites(series, c) ==
    IF \E i \in 1..Len(series) : Same(series[i], c)
    THEN [i \in 1..Len(series) |-> IF Same(series[i], c) THEN c ELSE series[i]]
    ELSE Append(series, c)

\* CandleMerger._insertSorted: in front of the first candle that is later.
InsertSorted(series, c) ==
    LET later == {i \in 1..Len(series) : series[i].start > c.start}
        index == IF later = {} THEN Len(series) + 1 ELSE Nth(later, 1)
    IN  [i \in 1..Len(series) + 1 |->
            IF i = index THEN c ELSE series[IF i < index THEN i ELSE i - 1]]

\* May c take the place of the candle d of its bucket?
Replaces(c, d) == ~d.closed /\ (c.closed \/ c.seq > d.seq)

\* A candle from before the series is ignored.
TooOld(series, c) == series # <<>> /\ c.start < series[1].start

\* CandleMerger.merge.
Merge(series, c) ==
    CASE series = <<>> -> <<c>>
      [] series # <<>> /\ c.start > Last(series).start ->
            Append([series EXCEPT ![Len(series)] = Sealed(@)], c)
      [] TooOld(series, c) -> series
      [] OTHER ->
            IF \E i \in 1..Len(series) : Same(series[i], c)
            THEN [i \in 1..Len(series) |-> IF Same(series[i], c) /\ Replaces(c, series[i])
                                           THEN c ELSE series[i]]
            ELSE InsertSorted(series, c)

\* Mutant: the page wins over what the socket has brought.
MergeHistoryPageWins(series, page) ==
    SelectSeq(series, LAMBDA d : \A c \in Elems(page) : d.start < c.start)
        \o page \o SelectSeq(series, LAMBDA d : \A c \in Elems(page) : d.start > c.start)

\* CandleMerger.mergeHistory: one candle per bucket, sorted.
MergeHistory(series, page) ==
    LET starts == {c.start : c \in Elems(series) \cup Elems(page)}
        Of(s, t) == {c \in Elems(s) : c.start = t}
        Pick(t) == IF Of(series, t) = {} THEN CHOOSE c \in Of(page, t) : TRUE
                   ELSE LET d == CHOOSE d \in Of(series, t) : TRUE
                        IN  IF \E c \in Of(page, t) : Replaces(c, d)
                            THEN CHOOSE c \in Of(page, t) : TRUE ELSE d
    IN  [i \in 1..Cardinality(starts) |-> Pick(Nth(starts, i))]

\* _mergeCandle on the next frame; a frame of another interval is dropped.
Receive ==
    /\ outbound # <<>>
    /\ outbound' = Tail(outbound)
    /\ LET c == Head(outbound)
       IN  IF c.iv = selected
           THEN /\ chart' = Merge(SeriesFor(c.iv), c)
                /\ Forget(c.iv, IF c.closed /\ TooOld(SeriesFor(c.iv), c)
                                THEN {<<c.iv, c.start>>} ELSE {})
           ELSE /\ missed' = IF c.closed THEN missed \cup {<<c.iv, c.start>>} ELSE missed
                /\ behind' = behind \cup {c.iv}
                /\ UNCHANGED chart
    /\ UNCHANGED <<engineVars, pubs, mailbox, sessionVars, selected, asks, guard,
                   asked, cache, spec, skipped, told>>

\* IntervalRequestGuard.begin and the load it is for.
Begin(iv, sub) ==
    /\ asked < MaxAsks /\ n + asked < MaxWork
    /\ asked' = asked + 1
    /\ guard' = [id |-> asked + 1, iv |-> iv]
    /\ asks' = asks \cup {[id |-> asked + 1, iv |-> iv, sub |-> sub, page |-> <<>>,
                           net |-> FALSE]}
    /\ UNCHANGED <<engineVars, pubs, mailbox, sessionVars, outbound, chart, cache, spec,
                   told, missed, behind>>

\* _onIntervalSelected, and _onStarted for the interval already shown.
SelectInterval ==
    /\ \E iv \in Intervals : Begin(iv, TRUE) /\ selected' = iv
    /\ skipped' = FALSE

\* _onRefreshRequested, which does not resubscribe.
Refresh ==
    /\ Begin(selected, FALSE)
    /\ skipped' = (skipped \/ WillSubscribe)
    /\ UNCHANGED selected

\* The load a gets its page.
Load(a, page, net) ==
    /\ a.page = <<>> /\ page # <<>>
    /\ asks' = (asks \ {a}) \cup {[a EXCEPT !.page = page, !.net = net]}
    /\ UNCHANGED <<engineVars, pubs, mailbox, sessionVars, outbound, selected, chart,
                   guard, asked, cache, spec, skipped, told, missed, behind>>

\* The history endpoint reads HistoryWithActive; a reset engine has nothing yet.
Serve ==
    /\ ~fresh
    /\ \E a \in asks : Load(a, Append(history[a.iv], active[a.iv]), TRUE)

\* The page on the device answers: it is not yet stale, or the request failed or
\* found no candle.
ServeCached == \E a \in asks : Load(a, cache[a.iv], FALSE)

\* Mutant: no answer is ever too late.
AcceptsAll(a) == a.id # 0

\* IntervalRequestGuard.accept.
Accepts(a) == a.id # 0 /\ a.id = guard.id /\ a.iv = guard.iv

\* The load ends, with its page or with a failure.  A page of the server goes to
\* the device; a load that was superseded is dropped, together with its subscribe.
Answer ==
    /\ \E a \in asks :
          /\ asks' = asks \ {a}
          /\ \/ /\ a.page # <<>>
                /\ cache' = IF a.net THEN [cache EXCEPT ![a.iv] = a.page] ELSE cache
                /\ IF Accepts(a)
                   THEN /\ chart' = MergeHistory(SeriesFor(a.iv), a.page)
                        /\ Forget(a.iv, {})
                   ELSE UNCHANGED <<chart, missed, behind>>
             \/ UNCHANGED <<cache, chart, missed, behind>>
          /\ guard' = IF Accepts(a) THEN [id |-> 0, iv |-> "none"] ELSE guard
          /\ IF Accepts(a) /\ a.sub
             THEN /\ spec' = a.iv
                  /\ told' = IF online THEN Append(told, a.iv) ELSE <<>>
             ELSE UNCHANGED <<spec, told>>
    /\ UNCHANGED <<engineVars, pubs, mailbox, sessionVars, outbound, selected, asked,
                   skipped>>

Next ==
    \/ ApplyTrade \/ Reset \/ Publish \/ PublishLost
    \/ HandleChanged \/ SendCandleClosed \/ LoseCandleClosed \/ BookResync
    \/ FlushCandles \/ Subscribe \/ DropSubscribe \/ Disconnect \/ Connect
    \/ Receive \/ SelectInterval \/ Refresh \/ Serve \/ ServeCached \/ Answer

Spec == Init /\ [][Next]_vars

(* ------------------------------- properties -------------------------------- *)

\* Every variable keeps its type, and both queues their bounds.
TypeOK ==
    /\ now \in Nat /\ n \in 1..MaxTrades
    /\ active \in [Intervals -> Candles] /\ ended \in [Intervals -> Seq(Candles)]
    /\ history \in [Intervals -> Seq(Candles)] /\ fresh \in BOOLEAN
    /\ pubs \in Seq(Candles) /\ mailbox \in Seq(Candles) /\ Len(mailbox) <= Cap
    /\ interval \in Intervals /\ online \in BOOLEAN /\ pending \in [Intervals -> Candles]
    /\ outbound \in Seq(Candles) /\ Len(outbound) <= OutCap
    /\ selected \in Intervals /\ chart \in Seq(Candles)
    /\ asks \subseteq [id : 1..MaxAsks, iv : Intervals, sub : BOOLEAN,
                        page : Seq(Candles), net : BOOLEAN]
    /\ guard \in [id : 0..MaxAsks, iv : Intervals \cup {"none"}] /\ asked \in 0..MaxAsks
    /\ cache \in [Intervals -> Seq(Candles)] /\ spec \in Intervals
    /\ told \in Seq(Intervals) /\ missed \subseteq Intervals \X Nat
    /\ behind \subseteq Intervals /\ skipped \in BOOLEAN

\* The chart has one interval and one candle per bucket, in order of time, however
\* live frames, stale updates and history pages of two intervals interleave.
ChartOrdered ==
    \A i, j \in 1..Len(chart) :
        i < j => chart[i].iv = chart[j].iv /\ chart[i].start < chart[j].start

\* A bucket the chart shows as closed has ended in the engine, and has the value it
\* ended with there unless its close missed the chart: timed out in the bus, refused
\* by the session, filtered by an interval, published or under way while there was
\* no connection, overtaken by the active candle a subscribe sends, older than what
\* the chart starts with (a page of an engine that was reset in between), or never
\* published because a reset cut the bucket.
WrongCloseExplained ==
    \A c \in Elems(chart) : c.closed =>
        \E d \in Elems(ended[c.iv]) :
            Same(c, d) /\ (c = d \/ <<c.iv, c.start>> \in missed)

\* A bucket on the chart never goes back to an older value and a closed one never
\* changes, although a pending update may leave after the close of its bucket.
NoRewrite ==
    [][\A c \in Elems(chart), d \in Elems(chart') :
          Same(c, d) => d.seq >= c.seq /\ (c.closed => c = d)]_vars

Quiet ==
    /\ pubs = <<>> /\ mailbox = <<>> /\ outbound = <<>> /\ told = <<>> /\ asks = {}
    /\ pending[interval] = None

\* When nothing is under way and the session is on the interval shown, the chart
\* ends with the engine's active candle (after a reset: the last it had), unless the
\* newest change was lost: by a full mailbox, a resynchronisation, an interval
\* filter or with the connection.
QuietIsCurrent ==
    Quiet /\ interval = selected /\ selected \notin behind =>
        chart # <<>> /\ Last(chart) = active[selected]

\* Once the loads and subscribes are through, the session is on the interval the
\* user selected, after a reconnect too, unless the session dropped the subscribe or
\* a refresh superseded the selection's load: the guard then drops the load together
\* with its subscribe.
SessionFollows ==
    asks = {} /\ told = <<>> /\ online /\ ~skipped => interval = selected

\* The chart is one ordered series, and a wrong closed candle has a cause among the
\* ways a close can be missed.
ChartSound == TypeOK /\ ChartOrdered /\ WrongCloseExplained

\* At rest the chart shows the active candle of the interval the user selected.
AtRestCurrent == QuietIsCurrent /\ SessionFollows
=============================================================================
