----------------------------- MODULE CursorRows -----------------------------
(***************************************************************************)
(* The rows of every long list of the console (users, messages, backlogs,  *)
(* tasks, objects): a sliding window of cursor pages over a list that      *)
(* changes in the engine, with the rows a live event names read again and  *)
(* patched in place (console/src/components/console/use-cursor-rows.ts).   *)
(*                                                                         *)
(* A row is its key (a number: its place in the list's order) and its      *)
(* version.  A cursor is the key it stands at.  Every request is sent,     *)
(* read by the engine and delivered in three steps, so that what the       *)
(* engine read may be old when it lands.  React Query is external: a page  *)
(* fetch remembers the pages held when it started and lands over whatever  *)
(* is held by then.  Abstracted: filters and order (the list is the one    *)
(* they select), flashes, totals, the chunks of one batch.                 *)
(***************************************************************************)
EXTENDS Integers, Sequences, FiniteSets, SequencesExt

CONSTANTS Keys,           \* keys of rows: 1 .. n
          InitialRows,    \* the keys the list starts with
          PageSize, MaxPages,
          ResetKeys,      \* keys in one batch past which the window starts again
          MaxVersion,     \* bound: versions of a row
          MaxChanges,     \* bound: changes of the list in the engine
          MaxLoads        \* bound: pages loaded by scrolling

ASSUME RowsAssumption ==
  /\ Keys \subseteq Nat \ {0} /\ IsFiniteSet(Keys) /\ InitialRows \subseteq Keys
  /\ {PageSize, MaxPages, ResetKeys, MaxVersion, MaxChanges, MaxLoads} \subseteq Nat \ {0}

Null == 0                 \* a missing cursor
Rest == [is |-> "rest"]   \* nothing on its way

VARIABLES rows,           \* the engine's list: [Keys -> 0 .. MaxVersion], 0: no such row
          changes, loads,
          named,          \* keys that changed and whose event has not arrived
          pages,          \* the query's pages; <<>> when it holds no data
          fetch,          \* the query's own fetch
          pending,        \* keys waiting for the next batch
          timer,          \* the batch timer is armed
          batch,          \* the batch read that is out
          again,          \* single pages that are read again
          offset,         \* what followOffset last made of the window
          seen,           \* the window it was made of: parameters and lengths
          lost,           \* keys whose read was given up after they stopped waiting
          marred          \* what has happened to the window since it was read whole:
                          \* "hurried" a row changed while an earlier change was being read,
                          \* "emptied" a loaded page lost all its rows, "drifted" a page's
                          \* parameter or cursor no longer stood at its first or last row
                          \* when it was used, "crossed" a page was fetched while a batch or
                          \* a single page was out

vars == <<rows, changes, loads, named, pages, fetch, pending, timer, batch, again, offset, seen, lost, marred>>

----------------------------------------------------------------------------
(* The engine's pages.                                                     *)

\* The n-th of a set of numbers, and a sequence without some of its positions.
Nth(S, n) == CHOOSE k \in S : Cardinality({j \in S : j <= k}) = n
Kept(s, I) == [i \in 1 .. Cardinality(I) |-> s[Nth(I, i)]]

Row(k) == [key |-> k, version |-> rows[k]]
Listed(S) == [i \in 1 .. Cardinality(S) |-> Row(Nth(S, i))]
Present == {k \in Keys : rows[k] > 0}

FirstN(S, n) == {k \in S : Cardinality({j \in S : j <= k}) <= n}
LastN(S, n) == {k \in S : Cardinality({j \in S : j >= k}) <= n}

\* A page: its rows, where it was asked to start, and the cursors around it.
Page(param, S) ==
  [param |-> param, items |-> Listed(S),
   prev |-> IF \E j \in Present : \A k \in S : j < k
              THEN IF S = {} THEN Null ELSE CHOOSE k \in S : \A j \in S : k <= j
              ELSE Null,
   next |-> IF S # {} /\ \E j \in Present : \A k \in S : j > k
              THEN CHOOSE k \in S : \A j \in S : j <= k ELSE Null]

First == [is |-> "first", at |-> Null]
After(c) == [is |-> "cursor", at |-> c]
Before(c) == [is |-> "before", at |-> c]

\* What the engine answers to a page request of n rows.
PageAt(param, n) ==
  Page(param, CASE param.is = "first" -> FirstN(Present, n)
                [] param.is = "cursor" -> FirstN({k \in Present : k > param.at}, n)
                [] param.is = "before" -> LastN({k \in Present : k < param.at}, n))

\* Where a page starts: the cursor before its first row, or the list's start.
Start(p) == p.prev

\* The loaded page a key falls in, or 0: outside the window.
PlaceOf(k, ps) ==
  IF k < Start(ps[1]) \/ (ps[Len(ps)].next # Null /\ k > ps[Len(ps)].next)
    THEN 0
    ELSE CHOOSE i \in 1 .. Len(ps) :
           Start(ps[i]) <= k /\ \A j \in i + 1 .. Len(ps) : k < Start(ps[j])

----------------------------------------------------------------------------
(* The pure parts of use-cursor-rows.ts.                                   *)

KeysOf(items) == {items[i].key : i \in DOMAIN items}
Held(ps) == UNION {KeysOf(ps[i].items) : i \in DOMAIN ps}
Params(ps) == [i \in DOMAIN ps |-> ps[i].param]

\* Mutant: pages dropped from the front are not counted.
followOffset_(ps) ==
  IF ps[1].prev = Null \/ ps[1].param = First \/ seen.params = <<>> THEN 0 ELSE offset

\* followOffset: the rows above the window, from how its first page moved.
Sum(lengths, n) == IF n = 0 THEN 0 ELSE IF n = 1 THEN lengths[1] ELSE lengths[1] + lengths[2]
followOffset(ps) ==
  LET params == Params(ps) IN
  CASE ps[1].prev = Null \/ ps[1].param = First -> 0
    [] ps[1].prev # Null /\ ps[1].param # First /\ seen.params = <<>> -> 0
    [] OTHER ->
         IF seen.params[1] = params[1] THEN offset
         ELSE IF \E d \in 2 .. Len(seen.params) : seen.params[d] = params[1]
           THEN LET d == CHOOSE d \in 2 .. Len(seen.params) : seen.params[d] = params[1]
                IN offset + Sum(seen.lengths, d - 1)
         ELSE IF \E a \in 2 .. Len(params) : params[a] = seen.params[1]
           THEN LET a == CHOOSE a \in 2 .. Len(params) : params[a] = seen.params[1]
                    o == offset - Sum([i \in DOMAIN ps |-> Len(ps[i].items)], a - 1)
                IN IF o < 0 THEN 0 ELSE o
         ELSE 0

\* patchRows: a row that is loaded is replaced, or leaves when it is gone.
patchRows(ps, items) ==
  LET Patched(r) ==
        IF r.key \in DOMAIN items THEN [r EXCEPT !.version = items[r.key].version] ELSE r
      Patch(s) ==
        Kept([j \in DOMAIN s |-> Patched(s[j])], {j \in DOMAIN s : Patched(s[j]).version > 0})
  IN  [i \in DOMAIN ps |-> [ps[i] EXCEPT !.items = Patch(@)]]

\* The pages a new row falls in, and how many rows each gains.
arriving(ps, items, i) == Cardinality({k \in DOMAIN items : k \notin Held(ps) /\ items[k].version > 0 /\ items[k].page = i})

----------------------------------------------------------------------------
NoWindow == [params |-> <<>>, lengths |-> <<>>]

\* A fetch of the query: the pages it started from, those read so far, and
\* how many remain.
Fetch(is, old, left) == [is |-> is, old |-> old, got |-> <<>>, left |-> left]
FirstRead == Fetch("all", <<>>, 1)

\* The window the table draws follows the data.
Draw(ps) ==
  /\ pages' = ps
  /\ offset' = IF ps = <<>> THEN 0 ELSE followOffset(ps)
  /\ seen' = IF ps = <<>> THEN NoWindow
             ELSE [params |-> Params(ps), lengths |-> [i \in DOMAIN ps |-> Len(ps[i].items)]]

\* A page with no rows left in a window that has others, or had.
Emptied(ps) == \E i \in DOMAIN ps : ps[i].items = <<>> /\ (Len(ps) > 1 \/ ps[i].param # First)
\* A last page whose cursor stands before its last row.
Drifted(ps) == Last(ps).items # <<>> /\ Last(ps).next \in 1 .. Last(Last(ps).items).key - 1
Mar(what, if) == IF if THEN {what} ELSE {}

Init ==
  /\ rows = [k \in Keys |-> IF k \in InitialRows THEN 1 ELSE 0]
  /\ changes = 0 /\ loads = 0 /\ named = {}
  /\ pages = <<>> /\ fetch = FirstRead
  /\ pending = {} /\ timer = FALSE /\ batch = Rest /\ again = {}
  /\ offset = 0 /\ seen = NoWindow /\ lost = {} /\ marred = {}

\* The engine: a row is created, changed or deleted, and an event will say so.
Change(k) ==
  /\ changes < MaxChanges /\ changes' = changes + 1
  /\ \/ rows[k] < MaxVersion /\ rows' = [rows EXCEPT ![k] = @ + 1]
     \/ rows[k] > 0 /\ rows' = [rows EXCEPT ![k] = 0]
  /\ named' = named \cup {k}
  /\ marred' = marred \cup Mar("hurried", named # {} \/ pending # {} \/ batch # Rest \/ again # {})
  /\ UNCHANGED <<loads, pages, fetch, pending, timer, batch, again, offset, seen, lost>>

\* reset(): nothing waits, nothing is out, and page one is read again.
reset ==
  /\ pending' = {} /\ timer' = FALSE /\ batch' = Rest /\ again' = {}
  /\ fetch' = FirstRead /\ Draw(<<>>) /\ lost' = {} /\ marred' = {}

\* A reset or an end of the topic, or an engine restart.
LiveReset ==
  /\ changes < MaxChanges /\ changes' = changes + 1
  /\ named' = {} /\ reset
  /\ UNCHANGED <<rows, loads>>

\* An event arrives: its keys wait for the batch.
applyKeys ==
  /\ named # {} /\ named' = {}
  /\ \/ /\ Cardinality(pending \cup named) > ResetKeys /\ reset
     \/ /\ Cardinality(pending \cup named) <= ResetKeys
        /\ pending' = pending \cup named /\ timer' = TRUE
        /\ UNCHANGED <<pages, fetch, batch, again, offset, seen, lost, marred>>
  /\ UNCHANGED <<rows, changes, loads>>

\* What is given up when the read that is out is aborted.
Aborted == (IF batch = Rest THEN {} ELSE batch.keys) \cup UNION {a.keys : a \in again}

\* The timer fires with nothing loaded, or nothing waiting.
FlushNothing ==
  /\ timer /\ (pages = <<>> \/ pending = {})
  /\ pending' = {} /\ timer' = FALSE
  /\ lost' = IF fetch # Rest /\ fetch.got # <<>> THEN lost \cup pending ELSE lost
  /\ UNCHANGED <<rows, changes, loads, named, pages, fetch, batch, again, offset, seen, marred>>

\* Mutant: the batch does not wait for the fetch.
Flush_ ==
  /\ timer /\ pages # <<>> /\ pending # {}
  /\ pending' = {} /\ timer' = FALSE
  /\ batch' = [is |-> "batch", keys |-> pending, loaded |-> pages, items |-> <<>>]
  /\ again' = {} /\ lost' = lost \cup (Aborted \ pending)
  /\ UNCHANGED <<rows, changes, loads, named, pages, fetch, offset, seen, marred>>

\* The timer fires: one batch for all that waits, unless a page is being
\* fetched (the timer is armed again).  The read that was out is aborted.
Flush ==
  /\ timer /\ pages # <<>> /\ pending # {} /\ fetch = Rest
  /\ pending' = {} /\ timer' = FALSE
  /\ batch' = [is |-> "batch", keys |-> pending, loaded |-> pages, items |-> <<>>]
  /\ again' = {} /\ lost' = lost \cup (Aborted \ pending)
  /\ UNCHANGED <<rows, changes, loads, named, pages, fetch, offset, seen, marred>>

BatchRead ==
  /\ batch # Rest /\ batch.items = <<>>
  /\ batch' = [batch EXCEPT !.items =
                 [k \in batch.keys |-> [version |-> rows[k], page |-> PlaceOf(k, batch.loaded)]]]
  /\ UNCHANGED <<rows, changes, loads, named, pages, fetch, pending, timer, again, offset, seen, lost, marred>>

\* Places mean something only against the pages they were asked about.
Placed ==
  [k \in batch.keys |->
     [batch.items[k] EXCEPT !.page = IF Params(pages) = Params(batch.loaded) THEN @ ELSE 0]]

\* A page that gains rows is read again: with a page loaded after it, for its
\* rows, the new ones and the next page's first.
PageAgain(i, ps, items) ==
  [index |-> i, before |-> ps,
   limit |-> IF i < Len(ps) THEN Len(ps[i].items) + arriving(pages, items, i) + 1 ELSE PageSize,
   head |-> <<>>, tail |-> <<>>,
   keys |-> {k \in DOMAIN items : k \notin Held(pages) /\ items[k].page = i}]

\* The batch lands on what is held by then.
BatchLands ==
  /\ batch # Rest /\ batch.items # <<>> /\ batch' = Rest
  /\ LET ps == patchRows(pages, Placed) IN
     /\ Draw(ps)
     /\ again' = {PageAgain(i, ps, Placed) : i \in {j \in DOMAIN pages : arriving(pages, Placed, j) > 0}}
     /\ marred' = marred \cup Mar("emptied", Emptied(ps))
  /\ UNCHANGED <<rows, changes, loads, named, fetch, pending, timer, lost>>

\* The batch could not be read: the window is read again whole, from its first
\* page's parameter (a page "before" a row may have no rows left, which ends
\* the read with nothing).
BatchFails ==
  /\ batch # Rest /\ batch' = Rest
  /\ fetch' = Fetch("all", pages, Len(pages))
  /\ lost' = IF pages[1].param.is = "before" THEN Keys ELSE {}
  /\ marred' = marred \cap {"emptied"}
  /\ UNCHANGED <<rows, changes, loads, named, pages, pending, timer, again, offset, seen>>

\* The page is read from its own start ...
HeadRead(a) ==
  /\ a \in again /\ a.head = <<>>
  /\ LET head == PageAt(a.before[a.index].param, a.limit) IN
     /\ again' = (again \ {a}) \cup {[a EXCEPT !.head = <<head>>]}
     /\ marred' = marred \cup Mar("drifted", a.index > 1 /\ \E k \in KeysOf(head.items) : k < Start(a.before[a.index]))
  /\ UNCHANGED <<rows, changes, loads, named, pages, fetch, pending, timer, batch, offset, seen, lost>>

\* ... up to the next loaded page's first row, when that page has one.
Following(a) == a.index < Len(a.before) /\ a.before[a.index + 1].items # <<>>
Into(a) == SelectInSeq(a.head[1].items, LAMBDA r : r.key = a.before[a.index + 1].items[1].key)

\* The read stopped short of it: the rows just above that page are read too.
Short(a) == Following(a) /\ Into(a) = 0 /\ a.head[1].next # Null /\ a.before[a.index + 1].prev # Null
TailRead(a) ==
  /\ a \in again /\ a.head # <<>> /\ a.tail = <<>> /\ Short(a)
  /\ again' = (again \ {a})
       \cup {[a EXCEPT !.tail = <<PageAt(Before(a.before[a.index + 1].prev), PageSize)>>]}
  /\ UNCHANGED <<rows, changes, loads, named, pages, fetch, pending, timer, batch, offset, seen, lost, marred>>

\* The two reads do not meet.
Apart(a) ==
  /\ a.tail # <<>> /\ a.tail[1].prev # Null /\ a.head[1].items # <<>>
  /\ Last(a.head[1].items).key \notin KeysOf(a.tail[1].items)

\* Mutant: the page is not cut where the next one starts.
Joined_(a) ==
  [a.head[1] EXCEPT !.next = IF Following(a) THEN a.before[a.index].next ELSE @]

\* The page that takes its place, ending where the next loaded one starts.
Joined(a) ==
  LET head == a.head[1] IN
  CASE ~Following(a) -> head
    [] Following(a) /\ Into(a) # 0 ->
         [head EXCEPT !.items = SubSeq(@, 1, Into(a) - 1), !.next = a.before[a.index].next]
    [] Following(a) /\ Into(a) = 0 /\ a.tail = <<>> -> [head EXCEPT !.next = a.before[a.index].next]
    [] OTHER ->
         LET tail == a.tail[1].items
             more == {i \in DOMAIN tail : tail[i].key \notin KeysOf(head.items)}
         IN  [head EXCEPT !.items = @ \o Kept(tail, more), !.next = a.before[a.index].next]

\* The page goes where it was, if that is still the same page.
PageLands(a) ==
  /\ a \in again /\ a.head # <<>> /\ (Short(a) => a.tail # <<>>)
  /\ \/ /\ Apart(a) /\ reset
        /\ UNCHANGED <<rows, changes, loads, named>>
     \/ /\ ~Apart(a) /\ again' = again \ {a}
        /\ IF a.index \in DOMAIN pages /\ pages[a.index].param = a.before[a.index].param
             THEN Draw([pages EXCEPT ![a.index] = Joined(a)])
             ELSE UNCHANGED <<pages, offset, seen>>
        /\ UNCHANGED <<rows, changes, loads, named, fetch, pending, timer, batch, lost, marred>>

\* A page that could not be read again is left as it is.
PageFails(a) ==
  /\ a \in again /\ again' = again \ {a} /\ lost' = lost \cup a.keys
  /\ UNCHANGED <<rows, changes, loads, named, pages, fetch, pending, timer, batch, offset, seen, marred>>

\* Scrolling: the next or the previous page.  A whole read that was out is
\* cancelled (React Query).
Scroll(is) ==
  /\ pages # <<>> /\ loads < MaxLoads /\ loads' = loads + 1
  /\ (fetch # Rest => fetch.is = "all")
  /\ fetch' = Fetch(is, pages, 1)
  /\ lost' = IF fetch = Rest THEN lost ELSE Keys
  /\ marred' = marred \cup Mar("crossed", batch # Rest \/ again # {})
  /\ UNCHANGED <<rows, changes, named, pages, pending, timer, batch, again, offset, seen>>

loadMore == pages # <<>> /\ Last(pages).next # Null /\ Scroll("next")
loadPrevious == pages # <<>> /\ pages[1].prev # Null /\ Scroll("prev")

\* The parameter of the fetch's next read.
NextParam ==
  CASE fetch.is = "next" -> After(Last(fetch.old).next)
    [] fetch.is = "prev" -> Before(fetch.old[1].prev)
    [] fetch.is = "all" /\ fetch.got # <<>> -> After(Last(fetch.got).next)
    [] OTHER -> IF fetch.old = <<>> THEN First ELSE fetch.old[1].param

FetchReads ==
  /\ fetch # Rest /\ fetch.left > 0
  /\ LET page == PageAt(NextParam, PageSize) IN
     fetch' = [fetch EXCEPT !.got = Append(@, page),
                            !.left = IF page.next = Null THEN 0 ELSE @ - 1]
  /\ UNCHANGED <<rows, changes, loads, named, pages, pending, timer, batch, again, offset, seen, lost, marred>>

\* The pages land over what is held; one too many drops at the other end.
Window(f) ==
  CASE f.is = "all" -> f.got
    [] f.is = "next" -> LET ps == f.old \o f.got IN IF Len(ps) > MaxPages THEN Tail(ps) ELSE ps
    [] f.is = "prev" -> LET ps == f.got \o f.old IN IF Len(ps) > MaxPages THEN Front(ps) ELSE ps

FetchLands ==
  /\ fetch # Rest /\ fetch.left = 0
  /\ fetch' = Rest /\ Draw(Window(fetch))
  /\ marred' = marred \cup Mar("emptied", Emptied(Window(fetch))) \cup Mar("drifted", Drifted(Window(fetch)))
  /\ UNCHANGED <<rows, changes, loads, named, pending, timer, batch, again, lost>>

\* A fetch fails: what was held stays.
FetchFails ==
  /\ fetch # Rest /\ pages # <<>> /\ fetch' = Rest
  /\ lost' = IF fetch.is = "all" THEN Keys ELSE lost
  /\ UNCHANGED <<rows, changes, loads, named, pages, pending, timer, batch, again, offset, seen, marred>>

Next ==
  \/ \E k \in Keys : Change(k)
  \/ LiveReset \/ applyKeys \/ FlushNothing \/ Flush
  \/ BatchRead \/ BatchLands \/ BatchFails
  \/ \E a \in again : HeadRead(a) \/ TailRead(a) \/ PageLands(a) \/ PageFails(a)
  \/ loadMore \/ loadPrevious \/ FetchReads \/ FetchLands \/ FetchFails

Spec == Init /\ [][Next]_vars

----------------------------------------------------------------------------
Shown == FlattenSeq([i \in DOMAIN pages |-> pages[i].items])

Quiet == pages # <<>> /\ fetch = Rest /\ batch = Rest /\ again = {} /\ pending = {} /\ named = {}

\* The rows of the list from the window's first page to its last.
Covered ==
  {k \in Present : /\ k >= pages[1].prev
                   /\ Last(pages).next = Null \/ k <= Last(pages).next}

\* Once everything a change named has been read again, no row of the table is
\* out of date or deleted, unless a read was given up (a batch aborted by the
\* next one) or a page was fetched while a batch was out.
ShownIsCurrent ==
  Quiet /\ "crossed" \notin marred /\ lost = {} =>
    \A i \in DOMAIN pages : \A j \in DOMAIN pages[i].items :
      pages[i].items[j].version = rows[pages[i].items[j].key]

\* Changes that come one at a time and leave no loaded page empty leave the
\* table showing the list, from where the window starts to where it ends, every
\* row once and in order, as long as pages are read from where they start; and
\* while the list does not change the window is numbered from where it is
\* (followOffset).
WindowIsTheList ==
  /\ Quiet /\ marred = {} /\ lost = {} => Shown = Listed(Covered)
  /\ changes = 0 /\ pages # <<>> /\ Shown # <<>> =>
        offset = Cardinality({k \in Present : k < Shown[1].key})

=============================================================================
