------------------------------- MODULE Market -------------------------------
(***************************************************************************)
(* The CSV of one symbol and timeframe that every backtest shares          *)
(* (backend/src/data/market_cache.py), extended by concurrent requests, and *)
(* the live provider (live_provider.py), both asking an exchange whose     *)
(* newest bar is still forming.                                            *)
(*                                                                         *)
(* A bar is named by the time it opens; at time now, the bar now is        *)
(* forming and those before it are closed.  Bars that were read map the    *)
(* bar to whether it was closed when the exchange gave it.                 *)
(***************************************************************************)
EXTENDS Integers

CONSTANTS Clients,       \* API requests and workers that need the CSV
          Listed,        \* the first bar the exchange has
          Page,          \* rows of one answer
          Limit,         \* bars a live cycle asks for
          MaxNow,        \* bound: bars of a run
          MaxRequests    \* bound: requests of a run

ASSUME MarketAssumption ==
  /\ Listed \in Nat \ {0} /\ Page \in Nat \ {0} /\ Limit \in Nat
  /\ MaxNow \in Nat /\ MaxRequests \in Nat

VARIABLES now,
          file, tmp,     \* the CSV and the ".tmp" every writer uses
          req,           \* the download_csv or get_latest of each client
          made,          \* requests so far
          rough          \* what has happened: "overlap", "force", "island", "dropped"

vars == <<now, file, tmp, req, made, rough>>

Nothing == <<>>     \* no bars, and no file
First(b) == CHOOSE t \in DOMAIN b : \A u \in DOMAIN b : t <= u
Newest(b) == CHOOSE t \in DOMAIN b : \A u \in DOMAIN b : t >= u
Within(b, from, to) == [t \in {u \in DOMAIN b : from <= u /\ u <= to} |-> b[t]]
Larger(a, b) == IF a > b THEN a ELSE b

Idle == [pc |-> "idle", start |-> 1, end |-> 0, force |-> FALSE, known |-> Nothing,
         todo |-> {}, since |-> 0, upto |-> 0, rows |-> Nothing, got |-> Nothing,
         base |-> Nothing, loaded |-> Nothing]

-----------------------------------------------------------------------------
(* The exchange. *)

\* fetch_ohlcv(since, limit): the oldest bars from since on.
RowsFrom(since) ==
  LET first == Larger(since, Listed)
  IN  [t \in {u \in first..(first + Page - 1) : u <= now} |-> t < now]

\* Variant of the next definition: as many bars as are asked for.
RowsLatestExact(limit) == [t \in Larger(Listed, now - limit + 1)..now |-> t < now]

\* fetch_ohlcv(limit = limit + 1), the forming bar included.
RowsLatest(limit) == [t \in Larger(Listed, now - limit)..now |-> t < now]

-----------------------------------------------------------------------------
(* market_cache.py *)

\* _merge_ohlcv: the new bars win.
Merge(existing, new) ==
  [t \in DOMAIN existing \cup DOMAIN new |->
     IF t \in DOMAIN new THEN new[t] ELSE existing[t]]

\* Coverage is the first and the last line.
Covers(b, start, end) == b # Nothing /\ First(b) <= start /\ Newest(b) >= end

\* Variant of the next definition: the newest bar is there already.
GapsBeyond(b, start, end) ==
  {r \in {<<start, First(b)>>} : start < First(b)}
    \cup {r \in {<<Newest(b) + 1, end>>} : end > Newest(b)}

\* Variant of the next definition: only older bars are fetched.
GapsBefore(b, start, end) == {r \in {<<start, First(b)>>} : start < First(b)}

\* The ranges to fetch before the first bar and after the last one, those two included.
Gaps(b, start, end) ==
  {r \in {<<start, First(b)>>} : start < First(b)}
    \cup {r \in {<<Newest(b), end>>} : end > Newest(b)}

\* The range that is fetched first: the older one.
Take(q) ==
  IF q.todo = {} THEN [q EXCEPT !.pc = IF q.got = Nothing THEN "answered" ELSE "write"]
  ELSE LET r == CHOOSE x \in q.todo : \A y \in q.todo : x[1] <= y[1]
       IN  [q EXCEPT !.pc = "fetch", !.todo = @ \ {r}, !.since = r[1], !.upto = r[2],
                     !.rows = Nothing]

Busy(c) == req[c].pc \notin {"idle", "done"}

\* A request reads the coverage and decides; it suspends only later.
Request(c) ==
  /\ ~Busy(c) /\ made < MaxRequests /\ made' = made + 1
  /\ \E start \in 1..now, force \in BOOLEAN : \E end \in start..now :
       LET q == [Idle EXCEPT !.start = start, !.end = end, !.force = force,
                             !.known = file]
       IN  /\ req' = [req EXCEPT ![c] =
                 IF ~force /\ Covers(file, start, end) THEN [q EXCEPT !.pc = "answered"]
                 ELSE IF force \/ file = Nothing
                      THEN Take([q EXCEPT !.todo = {<<start, end>>}])
                 ELSE [q EXCEPT !.pc = "read"]]
           /\ rough' = rough
                \cup (IF \E d \in Clients : Busy(d) THEN {"overlap"} ELSE {})
                \cup (IF force THEN {"force"} ELSE {})
                \cup (IF force /\ file # Nothing
                          /\ (end + 1 < First(file) \/ start > Newest(file) + 1)
                      THEN {"island"} ELSE {})
  /\ UNCHANGED <<now, file, tmp>>

\* The file is read after the coverage; a forced request reads it after the fetch.
ReadExisting(c) ==
  /\ req[c].pc = "read"
  /\ LET q == [req[c] EXCEPT !.base = file]
     IN  req' = [req EXCEPT ![c] =
           IF q.force THEN [q EXCEPT !.pc = "write"]
           ELSE Take([q EXCEPT !.todo = Gaps(q.known, q.start, q.end)])]
  /\ UNCHANGED <<now, file, tmp, made, rough>>

\* What has been fetched of a range, cut to it; without a bar in it a gap is
\* skipped and a first download fails.
EndOfRange(q) ==
  LET bars == Within(q.rows, q.since, q.upto)
      next == [q EXCEPT !.got = Merge(@, bars), !.rows = Nothing]
  IN  IF q.force \/ q.known = Nothing
      THEN IF bars = Nothing THEN Idle
           ELSE [next EXCEPT !.pc = IF q.known = Nothing THEN "write" ELSE "read"]
      ELSE Take(next)

\* One page; the next one starts after its newest bar.
FetchPage(c) ==
  /\ req[c].pc = "fetch"
  /\ LET q    == req[c]
         page == RowsFrom(IF q.rows = Nothing THEN q.since ELSE Newest(q.rows) + 1)
         more == [q EXCEPT !.rows = Merge(@, page)]
     IN  req' = [req EXCEPT ![c] =
           IF page = Nothing \/ Newest(page) >= q.upto THEN EndOfRange(more) ELSE more]
  /\ UNCHANGED <<now, file, tmp, made, rough>>

\* Three attempts have failed.
FetchFails(c) ==
  /\ req[c].pc = "fetch"
  /\ req' = [req EXCEPT ![c] = Idle]
  /\ UNCHANGED <<now, file, tmp, made, rough>>

\* _write_ohlcv_atomic: the whole file beside the old one.
WriteTmp(c) ==
  /\ req[c].pc = "write"
  /\ tmp' = Merge(req[c].base, req[c].got)
  /\ req' = [req EXCEPT ![c].pc = "replace"]
  /\ UNCHANGED <<now, file, made, rough>>

\* Another writer may have moved the file away: the request fails.
Replace(c) ==
  /\ req[c].pc = "replace"
  /\ tmp' = Nothing
  /\ IF tmp = Nothing THEN req' = [req EXCEPT ![c] = Idle] /\ UNCHANGED <<file, rough>>
     ELSE /\ file' = tmp /\ req' = [req EXCEPT ![c].pc = "answered"]
          /\ rough' = rough \cup (IF DOMAIN file \subseteq DOMAIN tmp THEN {} ELSE {"dropped"})
  /\ UNCHANGED <<now, made>>

\* CsvDataProvider loads the file, and the harness takes the bars of its range.
Load(c) ==
  /\ req[c].pc = "answered"
  /\ req' = [req EXCEPT ![c] =
       [Idle EXCEPT !.start = req[c].start, !.end = req[c].end,
                    !.loaded = Within(file, req[c].start, req[c].end)]]
  /\ UNCHANGED <<now, file, tmp, made, rough>>

-----------------------------------------------------------------------------
(* live_provider.py: get_latest of a cycle, up to the time of the cycle. *)

Ask(c) ==
  /\ ~Busy(c) /\ made < MaxRequests /\ made' = made + 1
  /\ req' = [req EXCEPT ![c] = [pc |-> "asked", end |-> now, bars |-> Nothing, checked |-> 0]]
  /\ UNCHANGED <<now, file, tmp, rough>>

Reply(c) ==
  /\ req[c].pc = "asked"
  /\ req' = [req EXCEPT ![c].pc = "replied", ![c].bars = RowsLatest(Limit)]
  /\ UNCHANGED <<now, file, tmp, made, rough>>

\* _drop_forming_candle looks at the clock once the answer is there.
Check(c) ==
  /\ req[c].pc = "replied"
  /\ LET rows  == req[c].bars
         done  == IF Newest(rows) + 1 > now THEN Within(rows, 1, Newest(rows) - 1) ELSE rows
         known == Within(done, 1, req[c].end)
     IN  req' = [req EXCEPT ![c] =
           [@ EXCEPT !.pc = "done", !.checked = now,
                     !.bars = IF known = Nothing THEN known
                              ELSE Within(known, Newest(known) - Limit + 1, Newest(known))]]
  /\ UNCHANGED <<now, file, tmp, made, rough>>

\* A bar closes and the next one opens.
Tick ==
  /\ now < MaxNow /\ now' = now + 1
  /\ UNCHANGED <<file, tmp, req, made, rough>>

-----------------------------------------------------------------------------
Init ==
  /\ now = Listed /\ file = Nothing /\ tmp = Nothing /\ made = 0 /\ rough = {}
  /\ req = [c \in Clients |-> Idle]

Next ==
  \/ \E c \in Clients :
       \/ Request(c) \/ ReadExisting(c) \/ FetchPage(c) \/ FetchFails(c)
       \/ WriteTmp(c) \/ Replace(c) \/ Load(c)
       \/ Ask(c) \/ Reply(c) \/ Check(c)
  \/ Tick

Spec == Init /\ [][Next]_vars

-----------------------------------------------------------------------------
Loaded(c) == req[c].pc = "idle" /\ req[c].end # 0

\* Every bar of the CSV but the newest is as it closed: what was fetched while
\* it was forming is fetched again before a bar follows it.  (market_cache.py:350
\* starts at the last bar, 166 keeps the later one.)  It holds of overlapping requests
\* too, until one replaces bars it has not seen; and a forced one takes its own
\* range anew and leaves the bar before it.
OnlyTheNewestIsUnfinished ==
  rough \cap {"force", "dropped"} = {} /\ file # Nothing =>
    \A t \in DOMAIN file : t # Newest(file) => file[t]

\* "Ensure continuous cache covers [start, end]" (market_cache.py:287): while
\* requests do not overlap, and no forced one has left an island, a backtest
\* has every bar of its range the exchange has.
BacktestHasItsBars ==
  \A c \in Clients :
    Loaded(c) /\ rough \cap {"overlap", "island"} = {} =>
      DOMAIN req[c].loaded = Larger(req[c].start, Listed)..req[c].end

\* A live cycle whose answer comes before the next bar opens decides on the
\* newest closed bars, Limit of them once there are as many.
LiveSeesTheNewestClosed ==
  \A c \in Clients :
    req[c].pc = "done" /\ req[c].checked = req[c].end =>
      /\ DOMAIN req[c].bars = Larger(Listed, req[c].end - Limit)..(req[c].end - 1)
      /\ \A t \in DOMAIN req[c].bars : req[c].bars[t]

\* "Backtest (CsvDataProvider) only ever sees fully-closed historical bars"
\* (live_provider.py:171).  The code does not keep this: a download up to now has
\* the bar that is forming, and serves it later.
BacktestSeesClosedBars ==
  \A c \in Clients : Loaded(c) => \A t \in DOMAIN req[c].loaded : req[c].loaded[t]
=============================================================================
