------------------------------ MODULE LogFeed ------------------------------
(***************************************************************************)
(* The Logs page's feed: the rows of lib/live/feed-store.ts, the controller *)
(* of logs/feed.ts over them, the page that drives it                       *)
(* (logs/components/logs-page.tsx), and the engine it reads: a bounded ring *)
(* of lines, a page request and the `logs.entries` topic, which delivers    *)
(* what the ring holds after a cursor, or the whole ring without one.       *)
(* A line is known by its engine run and number; its word is what a filter  *)
(* matches, and two lines of one word are "the same line printed again".    *)
(***************************************************************************)
EXTENDS Integers, Sequences, SequencesExt, FiniteSets, TLC

CONSTANTS Words,       \* what lines say
          Views,       \* the filters: sets of words
          PageMax,     \* lines a page holds (500)
          FeedMax,     \* items the feed keeps (20,000)
          ResumeMax,   \* lines a resume replays (1,000)
          Keeps,       \* lines the engine's ring keeps (20,000)
          MaxLines,    \* bound: lines printed
          MaxMoves     \* bound: pauses, hidings, restarts and views opened

None == -1
Foreign == 0  \* a line of another run
VARIABLES
  run,      \* the engine's run
  log,      \* per run, the words printed
  rows,     \* the feed store's rows, oldest first
  f,        \* the controller's own fields
  page,     \* the request for the view's first page
  older,    \* the request for older lines
  sub,      \* the topic's subscription, and the line it has got to
  hidden,   \* the tab is hidden
  asked,    \* the line the page asks to open around, and the mark of the last visit
  moves,    \* bound: the pauses, hidings, restarts and views opened
  mixed     \* the known ways to lose the order that happened (see InOrder)

vars == <<run, log, rows, f, page, older, sub, hidden, asked, moves, mixed>>

Newest == Len(log[run])
Kept == {s \in 1..Newest : s > Newest - Keeps}
Matching(view) == {s \in Kept : log[run][s] \in view}
Ascending(S) == SetToSortSeq(S, <)
Lasts(S, n) == {s \in S : Cardinality({t \in S : t > s}) < n}
Firsts(S, n) == {s \in S : Cardinality({t \in S : t < s}) < n}

----------------------------------------------------------------------------
(* Rows: a line and its repeats, an edge, or a marker. *)

lineItem(r, s) == [kind |-> "line", run |-> r, first |-> s, last |-> s, n |-> 1]
edgeItem(edge) == [kind |-> edge, run |-> 0, first |-> 0, last |-> 0, n |-> 0]
Marker(kind, n) == [kind |-> kind, run |-> 0, first |-> n, last |-> 0, n |-> 0]
itemKey(r) == <<r.kind, r.run, r.first>>
IsLine(r) == r.kind = "line"
IsItem(r) == r.kind \in {"line", "start", "cap", "cleared"}

sameLine(row, r, s) == IsLine(row) /\ log[row.run][row.last] = log[r][s]
\* A run's lines, consecutive repeats as one row, after the row they follow.
groupLines(previous, r, lines) ==
  FoldLeft(LAMBDA acc, s :
             IF acc # <<>> /\ sameLine(Last(acc), r, s)
               THEN Front(acc) \o <<[Last(acc) EXCEPT !.last = s, !.n = @ + 1]>>
               ELSE Append(acc, lineItem(r, s)),
           previous, Ascending(lines))

\* A key already kept is the same row again: updated where it is.
Put(rs, r) ==
  LET at == {i \in DOMAIN rs : itemKey(rs[i]) = itemKey(r)}
  IN  IF at = {} THEN Append(rs, r) ELSE [rs EXCEPT ![CHOOSE i \in at : TRUE] = r]
Items(rs) == Cardinality({i \in DOMAIN rs : IsItem(rs[i])})
\* Rows leave from the front while there are more items than the feed keeps.
Trim(rs) ==
  LET Fits(i) == Items(SubSeq(rs, i, Len(rs))) <= FeedMax
      from    == CHOOSE i \in 1..Len(rs) + 1 : Fits(i) /\ \A j \in 1..i - 1 : ~Fits(j)
  IN  SubSeq(rs, from, Len(rs))
\* Mutant: a page of older lines goes to the end.
Prepend_(rs, new) ==
  rs \o SelectSeq(new, LAMBDA r : ~\E i \in DOMAIN rs : itemKey(rs[i]) = itemKey(r))
Prepend(rs, new) ==
  SelectSeq(new, LAMBDA r : ~\E i \in DOMAIN rs : itemKey(rs[i]) = itemKey(r)) \o rs
\* A pause freezes the rows: only a marker or a page is added, nothing leaves.
Settled(rs, paused) == IF paused THEN rs ELSE Trim(rs)

\* The lines a cleared view still shows.
keptOf(S, cleared) == {s \in S : s > cleared}

----------------------------------------------------------------------------
Idle == [at |-> "none"]
Off == [on |-> FALSE, at |-> None]
Fresh(view) == [phase |-> "loading", mode |-> "tail", view |-> view, cursor |-> None,
                paused |-> FALSE, count |-> 0, pauseCursor |-> None, cleared |-> None,
                hasMore |-> FALSE, dropped |-> FALSE, released |-> FALSE, markers |-> 0]

\* A view is opened: whatever the last one was reading is not shown any more.
Open(view, around, cleared, since, missed, paused) ==
  /\ f' = [f EXCEPT !.phase = "loading", !.mode = IF around # None THEN "around" ELSE "tail",
                    !.view = view, !.cursor = None, !.count = 0, !.pauseCursor = None,
                    !.cleared = cleared, !.hasMore = FALSE, !.dropped = FALSE, !.paused = paused]
  /\ rows' = <<>> /\ sub' = Off /\ older' = Idle
  /\ page' = [at |-> "sent", around |-> around, since |-> since, missed |-> missed]

Init ==
  /\ run = 1 /\ log = [r \in 1..2 |-> <<>>]
  /\ \E view \in Views, paused \in BOOLEAN :
       f = [Fresh(view) EXCEPT !.paused = paused]
  /\ rows = <<>> /\ older = Idle /\ sub = Off /\ hidden = FALSE
  /\ moves = 1 /\ mixed = {}
  /\ asked \in [around : {None}, since : {None, 1}]
  /\ page = [at |-> "sent", around |-> None, since |-> asked.since, missed |-> 0]

\* A line is logged; the ring forgets its oldest past what it keeps.
Log(w) ==
  /\ Len(log[1]) + Len(log[2]) < MaxLines
  /\ log' = [log EXCEPT ![run] = Append(@, w)]
  /\ UNCHANGED <<run, rows, f, page, older, sub, hidden, asked, moves, mixed>>

\* The engine answers a page request: the newest matching lines (before a
\* line), or those around one, and the newest line it has.
Slice(S, before) ==
  LET found == {s \in S : before = None \/ s < before}
  IN  [lines |-> Lasts(found, PageMax), more |-> Cardinality(found) > PageMax]
AroundSlice(S, s) ==
  LET upTo == {t \in S : t <= s}
  IN  [lines |-> Lasts(upTo, 2) \cup Firsts(S \ upTo, 1), more |-> Cardinality(upTo) > 2]
AnswerPage ==
  /\ page.at = "sent" /\ page.around # Foreign
  /\ page' = [page EXCEPT !.at = "answered"] @@
               [tail |-> Newest] @@
               (IF page.around = None THEN Slice(Matching(f.view), None)
                                      ELSE AroundSlice(Matching(f.view), page.around))
  /\ UNCHANGED <<run, log, rows, f, older, sub, hidden, asked, moves, mixed>>

\* Mutant: the subscription is taken after the newest line there is.
follow_(g) ==
  /\ sub' = IF hidden THEN Off ELSE [on |-> TRUE, at |-> Newest]
  /\ f' = [g EXCEPT !.released = hidden]
\* The subscription is taken after the newest line the view has, unless the
\* tab is hidden.
follow(g) ==
  /\ sub' = IF hidden THEN Off ELSE [on |-> TRUE, at |-> g.cursor]
  /\ f' = [g EXCEPT !.released = hidden]

\* The first page is shown. A pause freezes what arrives, not a page.
showTail ==
  LET kept    == keptOf(page.lines, f.cleared)
      crossed == kept # page.lines
      before  == {s \in kept : page.since # None /\ s <= page.since}
      missed  == IF page.missed > 0 /\ page.more THEN <<Marker("paused", 0)>> ELSE <<>>
      since   == IF page.since # None THEN <<Marker("since", 0)>> ELSE <<>>
      shown   == Trim(missed \o groupLines(<<>>, run, before) \o since
                             \o groupLines(<<>>, run, kept \ before))
      edge    == IF f.cleared # None /\ (crossed \/ ~page.more) THEN <<edgeItem("cleared")>>
                 ELSE IF ~page.more /\ kept # {} THEN <<edgeItem("start")>> ELSE <<>>
  IN  /\ page.at = "answered" /\ page.around = None
      /\ rows' = edge \o shown
      /\ follow([f EXCEPT !.phase = "ready", !.cursor = page.tail,
                          !.hasMore = page.more /\ ~(f.cleared # None /\ crossed)])
      /\ page' = Idle
      /\ UNCHANGED <<run, log, older, hidden, asked, moves, mixed>>

\* The lines around one are shown, and the page pauses there; nothing follows.
showAround ==
  /\ page.at = "answered" /\ page.around # None
  /\ rows' = (IF page.more THEN <<>> ELSE <<edgeItem("start")>>)
               \o Trim(groupLines(<<>>, run, page.lines))
  /\ LET found == \E i \in DOMAIN rows' : IsLine(rows'[i])
                     /\ page.around \in {rows'[i].first, rows'[i].last} IN
       f' = [f EXCEPT !.phase = "ready", !.hasMore = page.more, !.paused = @ \/ found]
  /\ page' = Idle
  /\ UNCHANGED <<run, log, older, sub, hidden, asked, moves, mixed>>

\* A page that cannot be read: the newest lines instead of those around one,
\* else the failure.
PageFails ==
  /\ page.at = "sent"
  /\ IF page.around # None
       THEN /\ Open(f.view, None, f.cleared, page.since, 0, f.paused)
            /\ mixed' = {}
       ELSE /\ f' = [f EXCEPT !.phase = "failed"] /\ page' = Idle
            /\ UNCHANGED <<rows, sub, older, mixed>>
  /\ UNCHANGED <<run, log, hidden, asked, moves>>

\* The topic's next lines, up to k: a row for those that left the ring
\* first, then what the view shows of the rest.
ingest(k) ==
  LET gap   == sub.at # None /\ sub.at < Newest /\ sub.at + 1 \notin Kept
      sent  == {s \in Matching(f.view) : (gap \/ s > sub.at) /\ s <= k}
      lines == keptOf(sent, f.cleared)
      base  == IF gap THEN Settled(Put(rows, Marker("gap", f.markers + 1)), f.paused) ELSE rows
      tied  == base # <<>> /\ IsItem(Last(base))
      whole == FoldLeft(Put, IF tied THEN Front(base) ELSE base,
                        groupLines(IF tied THEN <<Last(base)>> ELSE <<>>, run, lines))
      shows == ~f.paused /\ lines # {}
  IN  /\ sub.on /\ k \in Kept /\ k > sub.at
      /\ rows' = IF shows THEN Trim(whole) ELSE base
      /\ sub' = [sub EXCEPT !.at = k]
      /\ f' = [f EXCEPT !.markers = IF gap THEN @ + 1 ELSE @,
                        !.cursor = IF sent = {} THEN @ ELSE CHOOSE s \in sent : \A t \in sent : t <= s,
                        !.count = IF f.paused THEN @ + Cardinality(lines) ELSE @,
                        !.hasMore = @ \/ (shows /\ (f.dropped \/ Trim(whole) # whole)),
                        !.dropped = @ /\ ~shows]
      /\ UNCHANGED <<run, log, page, older, hidden, asked, moves, mixed>>

Move == moves < MaxMoves /\ moves' = moves + 1
\* The list stops following: the store freezes, the controller notes where.
Pause ==
  /\ ~f.paused /\ Move
  /\ f' = [f EXCEPT !.paused = TRUE, !.count = 0, !.pauseCursor = f.cursor]
  /\ UNCHANGED <<run, log, rows, page, older, sub, hidden, asked, mixed>>

\* It follows again: what arrived is replayed from where the pause began, or,
\* too much of it, the newest page is opened under a marker.
Resume ==
  LET g == [f EXCEPT !.paused = FALSE, !.count = 0, !.dropped = @ \/ Trim(rows) # rows]
  IN  /\ f.paused /\ f.mode = "tail"
      /\ \/ /\ f.count = 0 \/ f.phase # "ready"
            /\ f' = g /\ rows' = Trim(rows)
            /\ UNCHANGED <<page, older, sub, mixed>>
         \/ /\ f.phase = "ready" /\ f.count \in 1..ResumeMax
            /\ rows' = Trim(rows) /\ follow([g EXCEPT !.cursor = f.pauseCursor])
            /\ mixed' = IF f.pauseCursor = None /\ \E i \in DOMAIN rows : rows[i].run = run
                        THEN mixed \cup {"replay"} ELSE mixed
            /\ UNCHANGED <<page, older>>
         \/ /\ f.phase = "ready" /\ f.count > ResumeMax
            /\ Open(f.view, None, f.cleared, None, f.count, FALSE) /\ mixed' = {}
      /\ UNCHANGED <<run, log, hidden, asked, moves>>

----------------------------------------------------------------------------
\* Older lines are asked for at the top, up to what the feed holds.
loadOlder ==
  LET lines == {i \in DOMAIN rows : IsLine(rows[i])}
      top   == rows[CHOOSE i \in lines : \A j \in lines : i <= j]
  IN  /\ f.hasMore /\ older.at = "none" /\ f.phase = "ready"
      /\ IF Len(rows) >= FeedMax \/ lines = {}
           THEN /\ rows' = IF Len(rows) >= FeedMax THEN Prepend(rows, <<edgeItem("cap")>>) ELSE rows
                /\ f' = [f EXCEPT !.hasMore = FALSE] /\ UNCHANGED older
           ELSE /\ older' = [at |-> "sent", run |-> top.run, before |-> top.first]
                /\ UNCHANGED <<rows, f>>
      /\ UNCHANGED <<run, log, page, sub, hidden, asked, moves, mixed>>
AnswerOlder ==
  /\ older.at = "sent" /\ older.run = run
  /\ older' = [older EXCEPT !.at = "answered"] @@ Slice(Matching(f.view), older.before)
  /\ UNCHANGED <<run, log, rows, f, page, sub, hidden, asked, moves, mixed>>
\* They are put at the front, with the edge the reader reaches there.
showOlder ==
  LET kept    == keptOf(older.lines, f.cleared)
      edge    == IF f.cleared # None /\ kept # older.lines THEN <<edgeItem("cleared")>>
                 ELSE IF ~older.more THEN <<edgeItem("start")>> ELSE <<>>
      lines   == {i \in DOMAIN rows : IsLine(rows[i])}
  IN  /\ older.at = "answered"
      /\ rows' = Prepend(Prepend(rows, groupLines(<<>>, older.run, kept)), edge)
      /\ f' = [f EXCEPT !.hasMore = edge = <<>>]
      /\ older' = Idle
      /\ mixed' = IF \E i \in lines : rows[i].run = older.run /\ rows[i].first = older.before
                  THEN mixed ELSE mixed \cup {"older"}
      /\ UNCHANGED <<run, log, page, sub, hidden, asked, moves>>
\* A cursor of an earlier run, or an engine that went away.
OlderFails ==
  /\ older.at = "sent"
  /\ older' = Idle /\ f' = [f EXCEPT !.hasMore = FALSE]
  /\ UNCHANGED <<run, log, rows, page, sub, hidden, asked, moves, mixed>>

----------------------------------------------------------------------------
\* The engine restarts: the new run is followed from its first line.
restarted(keep) ==
  /\ run = 1 /\ run' = 2 /\ Move
  /\ IF f.mode = "around" \/ f.phase # "ready" \/ f.cleared # None
       THEN Open(f.view, None, None, None, 0, f.paused) /\ mixed' = {}
       ELSE /\ f' = [f EXCEPT !.cursor = None, !.pauseCursor = None, !.count = 0,
                              !.hasMore = FALSE, !.markers = IF keep THEN @ + 1 ELSE @,
                              !.dropped = keep /\ @]
            /\ rows' = IF keep THEN Settled(Put(rows, Marker("restart", f.markers + 1)), f.paused)
                       ELSE <<>>
            /\ sub' = [sub EXCEPT !.at = None]
            /\ mixed' = IF keep THEN mixed ELSE {}
            /\ UNCHANGED <<page, older>>
  /\ asked' = [what \in DOMAIN asked |-> IF asked[what] = None THEN None ELSE Foreign]
  /\ UNCHANGED <<log, hidden>>

\* The tab is hidden and gives its subscription back; shown, it takes it again.
Hide ==
  /\ ~hidden /\ hidden' = TRUE /\ Move
  /\ sub' = Off /\ f' = [f EXCEPT !.released = @ \/ sub.on]
  /\ UNCHANGED <<run, log, rows, page, older, asked, mixed>>
\* Mutant: it is taken after the newest line there is.
Show_ ==
  /\ hidden /\ hidden' = FALSE
  /\ IF f.released /\ f.mode = "tail" /\ f.phase = "ready"
       THEN sub' = [on |-> TRUE, at |-> Newest] /\ f' = [f EXCEPT !.released = FALSE]
       ELSE UNCHANGED <<sub, f>>
  /\ UNCHANGED <<run, log, rows, page, older, asked, moves, mixed>>
Show ==
  /\ hidden /\ hidden' = FALSE
  /\ IF f.released /\ f.mode = "tail" /\ f.phase = "ready"
       THEN sub' = [on |-> TRUE, at |-> f.cursor] /\ f' = [f EXCEPT !.released = FALSE]
       ELSE UNCHANGED <<sub, f>>
  /\ UNCHANGED <<run, log, rows, page, older, asked, moves, mixed>>

\* The page asks for another view: its filter, where it was cleared, or a
\* line its address names that the feed does not hold.
Reopen(view, around, cleared, paused) ==
  /\ Move
  /\ asked' = [asked EXCEPT !.around = around]
  /\ Open(view, around, cleared, asked.since, 0, paused) /\ mixed' = {}
  /\ UNCHANGED <<run, log, hidden>>
setFilter(view) == view # f.view /\ Reopen(view, asked.around, f.cleared, f.paused)
\* The view is cleared up to the newest line it has heard of.
clearView ==
  /\ f.mode = "tail" /\ f.phase = "ready" /\ f.cursor # None /\ f.cursor # f.cleared
  /\ Reopen(f.view, asked.around, f.cursor, f.paused)
showCleared == f.cleared # None /\ Reopen(f.view, asked.around, None, f.paused)
openEntry(s) ==
  /\ asked.around # s /\ ~\E i \in DOMAIN rows : itemKey(rows[i]) = <<"line", run, s>>
  /\ Reopen(f.view, s, f.cleared, f.paused)
backToLatest == f.mode = "around" /\ Reopen(f.view, None, f.cleared, FALSE)

Next ==
  \/ \E w \in Words : Log(w)
  \/ \E keep \in BOOLEAN : restarted(keep)
  \/ AnswerPage \/ showTail \/ showAround \/ PageFails
  \/ \E k \in 1..MaxLines : ingest(k)
  \/ Pause \/ Resume
  \/ loadOlder \/ AnswerOlder \/ showOlder \/ OlderFails
  \/ Hide \/ Show
  \/ \E view \in Views : setFilter(view)
  \/ clearView \/ showCleared \/ backToLatest
  \/ \E s \in 1..Newest : openEntry(s)

----------------------------------------------------------------------------
\* The lines a view shows of a run, whatever the ring has forgotten.
Shown(r) == {s \in 1..Len(log[r]) : log[r][s] \in f.view /\ (f.mode = "tail" /\ r = run => s > f.cleared)}
Lines == {i \in DOMAIN rows : IsLine(rows[i])}

\* The rows go up, run by run.
Ordered ==
  \A i, j \in Lines : i < j =>
    \/ rows[i].run < rows[j].run
    \/ (rows[i].run = rows[j].run /\ rows[i].last < rows[j].first)

\* Every line is on screen once and in the order it was logged (feed.ts: "no
\* gap, no duplicate").  Not after the two ways `mixed` records: a resume
\* that knows no line to replay from, because the view was opened while
\* paused, and older lines that arrive when the row they were asked before
\* has left the front.
InOrder == mixed = {} => Ordered

\* Between two rows next to each other no line of the view is left out
\* without a row that says so.
NoSilentHole ==
  mixed = {} =>
    \A i \in Lines :
      /\ rows[i].n = Cardinality({s \in Shown(rows[i].run) : rows[i].first <= s /\ s <= rows[i].last})
      /\ i + 1 \in Lines /\ rows[i].run = rows[i + 1].run =>
           ~\E s \in Shown(rows[i].run) : rows[i].last < s /\ s < rows[i + 1].first

\* A feed that follows and has been sent everything shows the newest line
\* the engine keeps of its view.
FollowsTheNewest ==
  mixed = {} /\ sub.on /\ sub.at = Newest /\ ~f.paused /\ f.phase = "ready" =>
    \A s \in keptOf(Matching(f.view), f.cleared) :
      \E i \in Lines : rows[i].run = run /\ s <= rows[i].last
============================================================================
