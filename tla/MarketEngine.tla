---------------------------- MODULE MarketEngine ----------------------------
(***************************************************************************)
(* One market's engine (market/engine.go) with what it aggregates from the  *)
(* trades (candle.go, summary.go, trades.go), the debug controls that run   *)
(* beside it and the provider that paces it (synthetic/provider.go).        *)
(*                                                                          *)
(* The engine's goroutine is the only one that applies trades, but it looks *)
(* at the state before it applies an event, and Pause, Resume and Reset run *)
(* on the goroutines of HTTP handlers, each in several locked steps.        *)
(*                                                                          *)
(* A trade is [id, time, price]: any time and price may arrive, because the *)
(* replay and fault injecting providers reorder trades.  The book that a    *)
(* trade moves is in BookLevels; here it accepts or refuses the trade.      *)
(***************************************************************************)
EXTENDS Summary24h, FiniteSets

CONSTANTS
    Times,       \* minutes trades may carry
    Prices,      \* prices trades may carry
    Spans,       \* interval lengths in minutes
    Depth,       \* closed candles an aggregator keeps
    TapeCap,     \* Config.RecentTradesCap
    Warmup,      \* Config.WarmupEvents
    Buffer,      \* StreamBuffer of the provider
    Callers,     \* HTTP handlers that may run a control at the same time
    MaxTrades,   \* bound: trades the provider emits
    MaxControls  \* bound: controls called

ASSUME EngineAssumption ==
    /\ Times \subseteq Nat /\ Prices \subseteq Nat \ {0} /\ Spans \subseteq Nat \ {0}
    /\ Depth \in Nat \ {0} /\ TapeCap \in Nat \ {0} /\ Buffer \in Nat \ {0}
    /\ Warmup \in Nat \ {0} /\ MaxTrades \in Nat /\ MaxControls \in Nat
    /\ "run" \notin Callers

VARIABLES
    agg,        \* per span: the candle aggregator
    summary,    \* the 24 h summary
    tape,       \* the ring of recent trades
    log,        \* trades applied since the last reset
    tooOld,     \* one of them was older than the summary's window
    epoch,      \* reset generation
    state,      \* lifecycle state
    engine,     \* where Run stands
    warm,       \* events the warmup still takes
    provider,   \* [pc, paused, closed, left]
    stream,     \* events in the provider's channel
    ctl,        \* per caller: the state it still has to set, "publish" or "idle"
    pub,        \* per publisher of a status: <<>>, <<"read">> or the status read
    shown,      \* the last status published
    calls,      \* controls called
    after,      \* events the loop applied in the PAUSED state
    overlap     \* two controls, or a control and Run's own status, overlapped

dataVars == <<agg, summary, tape, log, tooOld>>
runVars == <<engine, warm>>
feedVars == <<provider, stream>>
ctlVars == <<ctl, calls>>
vars == <<dataVars, epoch, state, runVars, feedVars, ctlVars, pub, shown, after, overlap>>

Run == "run"
States == {"STARTING", "WARMING", "LIVE", "PAUSED", "DEGRADED", "STOPPED"}

\* A trade is told apart by the epoch and its place in it.
NoId == <<0, 0>>

(* ---------------------------- candle aggregator --------------------------- *)

BucketStart(span, time) == time \div span

NewCandle(span, t) ==
    [start |-> BucketStart(span, t.time), open |-> t.price, high |-> t.price,
     low |-> t.price, close |-> t.price, trades |-> 1, seq |-> t.id]

NoCandle == [start |-> 0, open |-> 0, high |-> 0, low |-> 0, close |-> 0,
             trades |-> 0, seq |-> NoId]

\* Mutant: the low stays at the first price.
FoldTradeHighOnly(c, t) ==
    [c EXCEPT !.high = IF t.price > @ THEN t.price ELSE @,
              !.close = t.price, !.trades = @ + 1, !.seq = t.id]

\* domain.Candle.Apply.
FoldTrade(c, t) ==
    [c EXCEPT !.high = IF t.price > @ THEN t.price ELSE @,
              !.low = IF t.price < @ THEN t.price ELSE @,
              !.close = t.price, !.trades = @ + 1, !.seq = t.id]

NewAggregator ==
    [active |-> NoCandle, closed |-> [i \in 0..Depth - 1 |-> NoCandle],
     head |-> 0, closedN |-> 0]

\* Mutant: the number of closed candles is not capped.
PushClosedUncapped(a) ==
    [a EXCEPT !.closed[a.head] = a.active, !.head = (@ + 1) % Depth, !.closedN = @ + 1]

PushClosed(a) ==
    [a EXCEPT !.closed[a.head] = a.active, !.head = (@ + 1) % Depth,
              !.closedN = IF @ < Depth THEN @ + 1 ELSE @]

\* CandleAggregator.Apply; a trade of a closed bucket is only counted.
ApplyCandle(a, span, t) ==
    LET bucket == BucketStart(span, t.time)
    IN  CASE a.active = NoCandle -> [a EXCEPT !.active = NewCandle(span, t)]
          [] a.active # NoCandle /\ bucket = a.active.start ->
                [a EXCEPT !.active = FoldTrade(@, t)]
          [] a.active # NoCandle /\ bucket > a.active.start ->
                [PushClosed(a) EXCEPT !.active = NewCandle(span, t)]
          [] OTHER -> a

Idx(a, i) == ((IF a.closedN = Depth THEN a.head ELSE 0) + i) % Depth

\* HistoryWithActive(limit), for a limit that is not zero.
HistoryWithActive(a, limit) ==
    LET active == IF a.active = NoCandle THEN <<>> ELSE <<a.active>>
        room == IF limit - Len(active) > a.closedN THEN a.closedN ELSE limit - Len(active)
    IN  [i \in 1..room |-> a.closed[Idx(a, a.closedN - room + i - 1)]] \o active

(* ------------------------------- trade tape ------------------------------- *)

NewTradeRing == [buf |-> [i \in 0..TapeCap - 1 |-> NoId], head |-> 0, count |-> 0]

PushTrade(r, t) ==
    [buf |-> [r.buf EXCEPT ![r.head] = t.id], head |-> (r.head + 1) % TapeCap,
     count |-> IF r.count < TapeCap THEN r.count + 1 ELSE r.count]

\* Recent(limit), newest first.
Recent(r, limit) ==
    [i \in 1..(IF limit > r.count THEN r.count ELSE limit) |->
        r.buf[(r.head - 1 - (i - 1) + 2 * TapeCap) % TapeCap]]

(* -------------------------------- lifecycle ------------------------------- *)

Init ==
    /\ agg = [s \in Spans |-> NewAggregator] /\ summary = EmptySummary
    /\ tape = NewTradeRing /\ log = <<>> /\ tooOld = FALSE
    /\ epoch = 0 /\ state = "STARTING" /\ engine = "start" /\ warm = Warmup
    /\ provider = [pc |-> "wait", paused |-> FALSE, closed |-> FALSE, left |-> MaxTrades]
    /\ stream = 0 /\ ctl = [c \in Callers |-> "idle"] /\ calls = 0
    /\ pub = [a \in Callers \cup {Run} |-> <<>>]
    /\ shown = <<"STARTING", 0>> /\ after = 0 /\ overlap = FALSE

CallersIdle == \A c \in Callers : ctl[c] = "idle"
Looping == engine \in {"loop", "event", "tick"}

\* setState, with its effect on what the PAUSED state has seen.
SetState(s) ==
    /\ state' = s
    /\ after' = IF s = "PAUSED" THEN after ELSE 0

\* applyTrade: the book may refuse the trade, and then nothing else sees it.
ApplyTrade ==
    \/ UNCHANGED dataVars
    \/ \E time \in Times, price \in Prices :
          LET t == [id |-> <<epoch, Len(log) + 1>>, time |-> time, price |-> price]
          IN  /\ agg' = [s \in Spans |-> ApplyCandle(agg[s], s, t)]
              /\ summary' = ApplySummary(summary, t)
              /\ tape' = PushTrade(tape, t)
              /\ log' = Append(log, t)
              /\ tooOld' = (tooOld \/ \E i \in 1..Len(log) : time <= log[i].time - Window)

StartWarmup ==
    /\ engine = "start"
    /\ engine' = "warmup"
    /\ SetState("WARMING")
    /\ UNCHANGED <<dataVars, epoch, warm, feedVars, ctlVars, pub, shown, overlap>>

\* The warmup applies what comes, whatever the state is.
WarmupEvent ==
    /\ engine = "warmup" /\ warm > 0 /\ stream > 0
    /\ ApplyTrade
    /\ warm' = warm - 1 /\ stream' = stream - 1
    /\ UNCHANGED <<epoch, state, engine, provider, ctlVars, pub, shown, after, overlap>>

\* The warmup is over: LIVE is set without a look at the state before it.
GoLive ==
    /\ engine = "warmup" /\ warm = 0
    /\ engine' = "loop"
    /\ SetState("LIVE")
    /\ pub' = [pub EXCEPT ![Run] = <<"read">>]
    /\ overlap' = (overlap \/ ~CallersIdle \/ provider.paused)
    /\ UNCHANGED <<dataVars, epoch, warm, feedVars, ctlVars, shown>>

LoopReady == engine = "loop" /\ pub[Run] = <<>>

\* Mutant: the loop takes the event without a look at the state.
TakeEventUnchecked ==
    /\ LoopReady /\ stream > 0
    /\ stream' = stream - 1
    /\ engine' = "event"
    /\ UNCHANGED <<dataVars, epoch, state, warm, provider, ctlVars, pub, shown, after,
                   overlap>>

\* An event of the stream; in the PAUSED state it is thrown away.
TakeEvent ==
    /\ LoopReady /\ stream > 0
    /\ stream' = stream - 1
    /\ engine' = IF state = "PAUSED" THEN "loop" ELSE "event"
    /\ UNCHANGED <<dataVars, epoch, state, warm, provider, ctlVars, pub, shown, after,
                   overlap>>

\* The refresh ticker.
TakeTick ==
    /\ LoopReady /\ state # "PAUSED"
    /\ engine' = "tick"
    /\ UNCHANGED <<dataVars, epoch, state, warm, feedVars, ctlVars, pub, shown, after,
                   overlap>>

\* applyEvent or refreshBook; only the book changes in a refresh.
ApplyEvent ==
    /\ \/ engine = "event" /\ ApplyTrade
       \/ engine = "tick" /\ UNCHANGED dataVars
    /\ engine' = "loop"
    /\ after' = IF state = "PAUSED" THEN after + 1 ELSE after
    /\ UNCHANGED <<epoch, state, warm, feedVars, ctlVars, pub, shown, overlap>>

\* The context ends, or the stream is closed and empty; Run publishes and returns.
Stop ==
    /\ LoopReady
    /\ \/ SetState("STOPPED")
       \/ stream = 0 /\ provider.closed /\ SetState("DEGRADED")
    /\ engine' = "ended"
    /\ pub' = [pub EXCEPT ![Run] = <<"read">>]
    /\ overlap' = (overlap \/ ~CallersIdle)
    /\ UNCHANGED <<dataVars, epoch, warm, feedVars, ctlVars, shown>>

(* --------------------------------- provider ------------------------------- *)

\* waitForTurn looks at the pause before it generates.
Generate ==
    /\ provider.pc = "wait" /\ ~provider.paused /\ ~provider.closed /\ provider.left > 0
    /\ engine # "start"
    /\ provider' = [provider EXCEPT !.pc = "send", !.left = @ - 1]
    /\ UNCHANGED <<dataVars, epoch, state, runVars, stream, ctlVars, pub, shown, after,
                   overlap>>

Emit ==
    /\ provider.pc = "send" /\ stream < Buffer
    /\ provider' = [provider EXCEPT !.pc = "wait"]
    /\ stream' = stream + 1
    /\ UNCHANGED <<dataVars, epoch, state, runVars, ctlVars, pub, shown, after, overlap>>

\* A recording ends, or the context.
CloseStream ==
    /\ provider.pc = "wait" /\ provider.left = 0 /\ ~provider.closed
    /\ provider' = [provider EXCEPT !.closed = TRUE]
    /\ UNCHANGED <<dataVars, epoch, state, runVars, stream, ctlVars, pub, shown, after,
                   overlap>>

(* --------------------------------- controls ------------------------------- *)

\* A control overlaps when another one, or Run, is between its two statuses.
Call(c) ==
    /\ ctl[c] = "idle" /\ calls < MaxControls
    /\ calls' = calls + 1
    /\ overlap' = (overlap \/ ~CallersIdle \/ ~Looping \/ pub[Run] # <<>>)
    /\ UNCHANGED <<runVars, stream, shown>>

\* Mutant: the provider is not told to go on.
ResumeStateOnly(c) ==
    /\ Call(c)
    /\ ctl' = [ctl EXCEPT ![c] = "LIVE"]
    /\ UNCHANGED <<dataVars, epoch, state, provider, pub, after>>

Pause(c) ==
    /\ Call(c)
    /\ provider' = [provider EXCEPT !.paused = TRUE]
    /\ ctl' = [ctl EXCEPT ![c] = "PAUSED"]
    /\ UNCHANGED <<dataVars, epoch, state, pub, after>>

Resume(c) ==
    /\ Call(c)
    /\ provider' = [provider EXCEPT !.paused = FALSE]
    /\ ctl' = [ctl EXCEPT ![c] = "LIVE"]
    /\ UNCHANGED <<dataVars, epoch, state, pub, after>>

\* Mutant: the tape is forgotten when the market is reset.
ResetKeepsTape(c) ==
    /\ Call(c)
    /\ epoch' = epoch + 1
    /\ agg' = [s \in Spans |-> NewAggregator] /\ summary' = EmptySummary
    /\ log' = <<>> /\ tooOld' = FALSE
    /\ ctl' = [ctl EXCEPT ![c] = "publish"]
    /\ pub' = [pub EXCEPT ![c] = <<"read">>]
    /\ UNCHANGED <<tape, state, provider, after>>

\* Reset: one locked step.  Install takes the ladder that New installed before.
Reset(c) ==
    /\ Call(c)
    /\ epoch' = epoch + 1
    /\ agg' = [s \in Spans |-> NewAggregator] /\ summary' = EmptySummary
    /\ tape' = NewTradeRing /\ log' = <<>> /\ tooOld' = FALSE
    /\ ctl' = [ctl EXCEPT ![c] = "publish"]
    /\ pub' = [pub EXCEPT ![c] = <<"read">>]
    /\ UNCHANGED <<state, provider, after>>

\* Pause and Resume set the state in a second step, whatever it is by then.
ControlState(c) ==
    /\ ctl[c] \in {"PAUSED", "LIVE"}
    /\ SetState(ctl[c])
    /\ ctl' = [ctl EXCEPT ![c] = "publish"]
    /\ pub' = [pub EXCEPT ![c] = <<"read">>]
    /\ UNCHANGED <<dataVars, epoch, runVars, feedVars, calls, shown, overlap>>

\* publishStatus reads state and epoch ...
ReadStatus(a) ==
    /\ pub[a] = <<"read">>
    /\ pub' = [pub EXCEPT ![a] = <<state, epoch>>]
    /\ UNCHANGED <<dataVars, epoch, state, runVars, feedVars, ctlVars, shown, after,
                   overlap>>

\* ... and publishes them.
SendStatus(a) ==
    /\ Len(pub[a]) = 2
    /\ shown' = pub[a]
    /\ pub' = [pub EXCEPT ![a] = <<>>]
    /\ ctl' = IF a = Run THEN ctl ELSE [ctl EXCEPT ![a] = "idle"]
    /\ UNCHANGED <<dataVars, epoch, state, runVars, feedVars, calls, after, overlap>>

Next ==
    \/ StartWarmup \/ WarmupEvent \/ GoLive \/ TakeEvent \/ TakeTick \/ ApplyEvent \/ Stop
    \/ Generate \/ Emit \/ CloseStream
    \/ \E c \in Callers : Pause(c) \/ Resume(c) \/ Reset(c) \/ ControlState(c)
    \/ \E a \in Callers \cup {Run} : ReadStatus(a) \/ SendStatus(a)

Spec == Init /\ [][Next]_vars

(* ------------------------------- properties -------------------------------- *)

\* Every variable keeps its type.
TypeOK ==
    /\ DOMAIN agg = Spans
    /\ \A s \in Spans : agg[s].head \in 0..Depth - 1 /\ agg[s].closedN \in 0..Depth
    /\ summary.count \in 0..Window /\ summary.volume \in Nat /\ summary.trades \in Nat
    /\ tape.head \in 0..TapeCap - 1 /\ tape.count \in 0..TapeCap
    /\ epoch \in 0..MaxControls /\ state \in States
    /\ engine \in {"start", "warmup", "loop", "event", "tick", "ended"} /\ warm \in 0..Warmup
    /\ provider \in [pc : {"wait", "send"}, paused : BOOLEAN, closed : BOOLEAN,
                     left : 0..MaxTrades]
    /\ stream \in 0..Buffer /\ calls \in 0..MaxControls
    /\ ctl \in [Callers -> {"idle", "PAUSED", "LIVE", "publish"}]
    /\ after \in Nat /\ overlap \in BOOLEAN /\ tooOld \in BOOLEAN

\* Reference definitions over a log of trades l: what the trades at places I make.
HighOf(l, I) == CHOOSE p \in {l[i].price : i \in I} : \A i \in I : l[i].price <= p
LowOf(l, I) == CHOOSE p \in {l[i].price : i \in I} : \A i \in I : l[i].price >= p
FirstOf(I) == CHOOSE i \in I : \A j \in I : i <= j
LastOf(I) == CHOOSE i \in I : \A j \in I : i >= j
SumOf(l, I) ==
    LET sum[n \in 0..Len(l)] ==
            IF n = 0 THEN 0 ELSE sum[n - 1] + (IF n \in I THEN l[n].price ELSE 0)
    IN  sum[Len(l)]

\* The trades of one bucket that came before any trade of a later bucket.
InBucket(l, s, b) ==
    {i \in 1..Len(l) :
        /\ BucketStart(s, l[i].time) = b
        /\ \A j \in 1..i : BucketStart(s, l[j].time) <= b}

\* The buckets that have such trades.
Starts(l, s) == {BucketStart(s, l[i].time) : i \in
                    {i \in 1..Len(l) : i \in InBucket(l, s, BucketStart(s, l[i].time))}}

CandleOf(l, s, b) ==
    LET I == InBucket(l, s, b)
    IN  [start |-> b, open |-> l[FirstOf(I)].price, high |-> HighOf(l, I),
         low |-> LowOf(l, I), close |-> l[LastOf(I)].price, trades |-> Cardinality(I),
         seq |-> l[LastOf(I)].id]

\* The history the engine serves, for every interval and every limit, is the newest
\* buckets in order of time, each with the OHLC of exactly its trades; trades that
\* came after their bucket had closed change nothing, and nothing outlives a reset.
CandlesExact ==
    \A s \in Spans, limit \in 1..Depth + 1 :
        LET starts == Starts(log, s)
            served == HistoryWithActive(agg[s], limit)
        IN  /\ Len(served) = IF Cardinality(starts) < limit THEN Cardinality(starts) ELSE limit
            /\ \A i \in 1..Len(served) :
                  LET later == {b \in starts : b > served[i].start}
                  IN  /\ served[i].start \in starts
                      /\ Cardinality(later) = Len(served) - i
                      /\ served[i] = CandleOf(log, s, served[i].start)

\* The cached 24 h figures equal the ones computed from the trades in the window,
\* in whatever order trades of the window arrive and buckets expire, as long as no
\* trade is older than the window: such a trade evicts a bucket of the window.
SummaryExact ==
    LET newest == CHOOSE t \in {log[i].time : i \in 1..Len(log)} :
                     \A i \in 1..Len(log) : log[i].time <= t
        I == {i \in 1..Len(log) : log[i].time > newest - Window}
        oldest == CHOOSE t \in {log[i].time : i \in I} : \A i \in I : log[i].time >= t
    IN  log # <<>> /\ ~tooOld =>
          /\ summary.volume = SumOf(log, I) /\ summary.trades = Cardinality(I)
          /\ summary.high = HighOf(log, I) /\ summary.low = LowOf(log, I)
          /\ summary.open = log[FirstOf({i \in I : log[i].time = oldest})].price
          /\ summary.last = log[Len(log)].price

\* The tape shows the newest trades since the last reset, newest first.
TapeExact ==
    \A limit \in 1..TapeCap :
        LET seen == Recent(tape, limit)
        IN  /\ Len(seen) = IF Len(log) < limit THEN Len(log) ELSE limit
            /\ \A i \in 1..Len(seen) : seen[i] = log[Len(log) - i + 1].id

\* After a pause at most one event is applied: the one the loop had checked before.
PauseFreezes == after <= 1

\* While controls do not overlap each other or Run's own changes, the last status
\* published is the state and epoch of the engine, and the provider is paused
\* exactly in the PAUSED state.
QuietAgrees ==
    CallersIdle /\ pub[Run] = <<>> /\ Looping /\ ~overlap =>
        shown = <<state, epoch>> /\ (state = "PAUSED") = provider.paused

\* Everything the engine serves besides the book, candles, 24 h figures and tape, is
\* what a recomputation from the trades since the last reset gives.
ReadModelsExact == TypeOK /\ CandlesExact /\ SummaryExact /\ TapeExact

\* The controls keep their word: a pause stops the market within one event, and
\* state, provider and the last status agree when no two controls overlapped.
ControlsAgree == PauseFreezes /\ QuietAgrees
=============================================================================
