-------------------------- MODULE CursorRowsProofs --------------------------
(***************************************************************************)
(* No row of a long list is out of date once every change was read again,  *)
(* for any keys, page size and window, and whatever batches, page fetches, *)
(* scrolling, failures and resets interleave.                              *)
(***************************************************************************)
EXTENDS CursorRows, FiniteSetTheorems, WellFoundedInduction, TLAPS

Item == [key : Keys, version : Nat]
Cursors == Keys \cup {Null}
Param == [is : {"first", "cursor", "before"}, at : Cursors]
Pages == [param : Param, items : Seq(Item), prev : Cursors, next : Cursors]

\* A read of the query, of one batch and of one page.
IsFetch(f) ==
  /\ f \in [is : {"all", "next", "prev"}, old : Seq(Pages), got : Seq(Pages), left : Nat]
  /\ f.is # "all" => f.old # <<>>
  /\ f.left = 0 => f.got # <<>>
IsBatch(b) ==
  /\ b = [is |-> "batch", keys |-> b.keys, loaded |-> b.loaded, items |-> b.items]
  /\ b.keys \in SUBSET Keys
  /\ b.items # <<>> =>
       /\ DOMAIN b.items = b.keys
       /\ \A k \in b.keys : /\ b.items[k] = [version |-> b.items[k].version, page |-> b.items[k].page]
                            /\ b.items[k].version \in Nat
IsAgain(a) ==
  /\ a = [index |-> a.index, before |-> a.before, limit |-> a.limit, head |-> a.head,
          tail |-> a.tail, keys |-> a.keys]
  /\ a.before \in Seq(Pages) /\ a.index \in 1 .. Len(a.before)
  /\ a.head \in Seq(Pages) /\ a.tail \in Seq(Pages) /\ a.keys \in SUBSET Keys
  /\ Len(a.head) <= 1 /\ Len(a.tail) <= 1 /\ (a.tail # <<>> => a.head # <<>>)

TypeOK ==
  /\ rows \in [Keys -> Nat]
  /\ named \in SUBSET Keys /\ pending \in SUBSET Keys /\ lost \in SUBSET Keys
  /\ pages \in Seq(Pages)
  /\ fetch = Rest \/ IsFetch(fetch)
  /\ batch = Rest \/ IsBatch(batch)
  /\ \A a \in again : IsAgain(a)

\* Of some rows, and of the pages ps, only those of keys in D may differ from what
\* rs holds.
CurrentRows(items, rs, D) ==
  \A j \in 1 .. Len(items) : items[j].key \notin D => items[j].version = rs[items[j].key]
Current(ps, rs, D) == \A i \in 1 .. Len(ps) : CurrentRows(ps[i].items, rs, D)

\* Keys that will be read again, or were given up; keys of the batch that is out;
\* the window is being read whole.
Due == named \cup pending \cup lost
Asked == IF batch = Rest THEN {} ELSE batch.keys
Whole == fetch # Rest /\ fetch.is = "all"

\* Only one kind of read is out, but for a page fetched by scrolling.
OneRead ==
  /\ batch = Rest \/ again = {}
  /\ Whole => batch = Rest /\ again = {}
  /\ pages = <<>> => Whole

\* What has been read is as the engine holds it, or will be read again.
FetchDue == fetch # Rest => Current(fetch.got, rows, Due)
BatchDue ==
  batch # Rest /\ batch.items # <<>> => \A k \in batch.keys \ Due : batch.items[k].version = rows[k]
AgainDue == \A a \in again : Current(a.head, rows, Due) /\ Current(a.tail, rows, Due)

\* Likewise what is loaded, unless it is about to be replaced whole, and what a
\* page fetched by scrolling will be put beside.
PagesDue ==
  "crossed" \notin marred =>
    /\ ~Whole => Current(pages, rows, Due \cup Asked)
    /\ fetch # Rest /\ ~Whole => /\ batch = Rest /\ again = {}
                                 /\ Current(fetch.old, rows, Due)

RowsInv == TypeOK /\ OneRead /\ FetchDue /\ BatchDue /\ AgainDue /\ PagesDue

(***************************************************************************)
(* Numbers in order.                                                       *)
(***************************************************************************)

\* Every rank of a finite set of numbers is taken by one of them.
LEMMA Ranks ==
  ASSUME NEW S \in SUBSET Nat, IsFiniteSet(S), NEW n \in 1 .. Cardinality(S)
  PROVE  \E k \in S : Cardinality({j \in S : j <= k}) = n
<1> DEFINE Taken(T, m) == \E k \in T : Cardinality({j \in T : j <= k}) = m
           Bad(c) == \E T \in SUBSET Nat : /\ IsFiniteSet(T) /\ Cardinality(T) = c
                                           /\ \E m \in 1 .. c : ~Taken(T, m)
           B == {c \in Nat : Bad(c)}
<1>1. SUFFICES ASSUME B # {} PROVE FALSE
  <2>1. Cardinality(S) \in Nat
    BY ZenonT(60), FS_CardinalityType
  <2> QED BY SMTT(60), <2>1
<1>2. PICK c \in B : \A d \in B : ~(d < c)
  <2>1. B \in SUBSET Nat
    OBVIOUS
  <2>2. PICK c \in B : \A d \in B : ~(<<d, c>> \in OpToRel(<, Nat))
    BY ZenonT(60), <1>1, <2>1, NatLessThanWellFounded, WFMin
  <2> QED BY ZenonT(60), <2>2 DEF OpToRel
<1>3. PICK T \in SUBSET Nat : IsFiniteSet(T) /\ Cardinality(T) = c /\ \E m \in 1 .. c : ~Taken(T, m)
  BY ZenonT(60), <1>2
<1>4. PICK m \in 1 .. c : ~Taken(T, m)
  BY ZenonT(60), <1>3
<1>5. T # {}
  BY SMTT(60), <1>3, <1>4, FS_EmptySet
<1>6. PICK x \in T : \A y \in T : ~(y < x)
  <2>1. PICK x \in T : \A y \in T : ~(<<y, x>> \in OpToRel(<, Nat))
    BY ZenonT(60), <1>5, NatLessThanWellFounded, WFMin
  <2> QED BY ZenonT(60), <2>1 DEF OpToRel
<1> DEFINE R == T \ {x}
<1>7. IsFiniteSet(R) /\ Cardinality(R) = c - 1 /\ R \in SUBSET Nat
  BY ZenonT(60), <1>3, FS_RemoveElement
<1>8. \A k \in R : /\ IsFiniteSet({j \in R : j <= k}) /\ Cardinality({j \in R : j <= k}) \in Nat
                   /\ Cardinality({j \in T : j <= k}) = Cardinality({j \in R : j <= k}) + 1
  <2> SUFFICES ASSUME NEW k \in R
               PROVE  /\ IsFiniteSet({j \in R : j <= k}) /\ Cardinality({j \in R : j <= k}) \in Nat
                      /\ Cardinality({j \in T : j <= k}) = Cardinality({j \in R : j <= k}) + 1
    OBVIOUS
  <2>1. IsFiniteSet({j \in R : j <= k})
    BY ZenonT(60), <1>7, FS_Subset
  <2>2. x \notin {j \in R : j <= k}
    OBVIOUS
  <2>3. {j \in T : j <= k} = {j \in R : j <= k} \cup {x}
    BY SMTT(60), <1>6
  <2>4. Cardinality({j \in R : j <= k} \cup {x}) = Cardinality({j \in R : j <= k}) + 1
    BY ZenonT(60), <2>1, <2>2, FS_AddElement
  <2>5. Cardinality({j \in R : j <= k}) \in Nat
    BY ZenonT(60), <2>1, FS_CardinalityType
  <2> QED BY ZenonT(60), <2>1, <2>3, <2>4, <2>5
<1>9. CASE m = 1
  <2>1. \A j \in T : j <= x => j = x
    BY SMTT(60), <1>6
  <2>3. x <= x
    BY SMTT(60), <1>6
  <2>4. {j \in T : j <= x} = {x}
    BY ZenonT(60), <1>6, <2>1, <2>3
  <2>2. Cardinality({x}) = 1
    BY ZenonT(60), FS_Singleton
  <2> QED BY ZenonT(60), <1>4, <1>9, <2>2, <2>4
<1>10. CASE m # 1
  <2>1. c - 1 \in Nat /\ m - 1 \in 1 .. c - 1 /\ c - 1 < c
    BY SMTT(60), <1>2, <1>4, <1>10
  <2>2. c - 1 \notin B
    BY ZenonT(60), <1>2, <2>1
  <2>3. Taken(R, m - 1)
    BY ZenonT(60), <1>7, <2>1, <2>2
  <2>4. PICK k \in R : Cardinality({j \in R : j <= k}) = m - 1
    BY ZenonT(60), <2>3
  <2>5. Cardinality({j \in T : j <= k}) = m
    <3>1. Cardinality({j \in T : j <= k}) = Cardinality({j \in R : j <= k}) + 1
      BY ZenonT(60), <1>8
    <3>2. m \in Nat /\ Cardinality({j \in T : j <= k}) = (m - 1) + 1
      BY SMTT(60), <1>4, <2>1, <2>4, <3>1
    <3> HIDE DEF B
    <3> QED BY SMTT(60), <3>2
  <2> QED BY ZenonT(60), <1>4, <2>4, <2>5
<1> QED BY ZenonT(60), <1>9, <1>10

\* A finite set of numbers has a least and a greatest one.
LEMMA Extremes ==
  ASSUME NEW S \in SUBSET Nat, IsFiniteSet(S), S # {}
  PROVE  /\ \E k \in S : \A j \in S : k <= j
         /\ \E k \in S : \A j \in S : j <= k
<1>1. Cardinality(S) \in Nat /\ Cardinality(S) # 0
  BY ZenonT(60), FS_CardinalityType, FS_EmptySet
<1>2. 1 \in 1 .. Cardinality(S) /\ Cardinality(S) \in 1 .. Cardinality(S)
  BY SMTT(60), <1>1
<1>3. PICK k \in S : Cardinality({j \in S : j <= k}) = 1
  BY ZenonT(60), <1>2, Ranks
<1>4. PICK m \in S : Cardinality({j \in S : j <= m}) = Cardinality(S)
  BY ZenonT(60), <1>2, Ranks
<1>5. \A j \in S : k <= j
  <2> SUFFICES ASSUME NEW j \in S, ~(k <= j) PROVE FALSE
    OBVIOUS
  <2> DEFINE A == {l \in S : l <= k}
  <2>1. j \in A /\ k \in A /\ j # k
    BY SMTT(60)
  <2>2. IsFiniteSet(A)
    BY ZenonT(60), FS_Subset
  <2>3. PICK x : A = {x}
    BY ZenonT(60), <1>3, <2>2, FS_Singleton
  <2> HIDE DEF A
  <2> QED BY ZenonT(60), <2>1, <2>3
<1>6. \A j \in S : j <= m
  <2> DEFINE A == {l \in S : l <= m}
  <2>1. A \subseteq S /\ Cardinality(A) = Cardinality(S)
    BY ZenonT(60), <1>4
  <2>2. A = S
    BY ZenonT(60), <2>1, FS_Subset
  <2> QED BY ZenonT(60), <2>2
<1> QED BY ZenonT(60), <1>5, <1>6

\* Nth is a member.
LEMMA NthMember ==
  ASSUME NEW S \in SUBSET Nat, IsFiniteSet(S), NEW n \in 1 .. Cardinality(S)
  PROVE  Nth(S, n) \in S /\ Cardinality({j \in S : j <= Nth(S, n)}) = n
BY ZenonT(60), Ranks DEF Nth

\* Dropping positions of a sequence leaves a sequence of some of its elements.
LEMMA KeptSeq ==
  ASSUME NEW T, NEW s \in Seq(T), NEW I \in SUBSET (1 .. Len(s))
  PROVE  /\ Kept(s, I) \in Seq(T) /\ Len(Kept(s, I)) = Cardinality(I)
         /\ \A i \in 1 .. Len(Kept(s, I)) : \E j \in I : Kept(s, I)[i] = s[j]
<1>1. IsFiniteSet(1 .. Len(s))
  BY SMTT(60), FS_Interval
<1>2. IsFiniteSet(I) /\ I \in SUBSET Nat /\ Cardinality(I) \in Nat
  <2>1. IsFiniteSet(I)
    BY ZenonT(60), <1>1, FS_Subset
  <2>2. Cardinality(I) \in Nat
    BY ZenonT(60), <2>1, FS_CardinalityType
  <2> QED BY SMTT(60), <2>1, <2>2
<1>3. \A i \in 1 .. Cardinality(I) : Nth(I, i) \in I
  BY ZenonT(60), <1>2, NthMember
<1>4. Kept(s, I) = [i \in 1 .. Cardinality(I) |-> s[Nth(I, i)]]
  BY ZenonT(60) DEF Kept
<1>5. \A i \in 1 .. Cardinality(I) : Kept(s, I)[i] = s[Nth(I, i)] /\ s[Nth(I, i)] \in T
  <2>1. \A j \in I : s[j] \in T
    BY SMTT(60)
  <2> QED BY ZenonT(60), <1>3, <1>4, <2>1
<1>6. Kept(s, I) \in Seq(T) /\ Len(Kept(s, I)) = Cardinality(I)
  BY SMTT(60), <1>2, <1>4, <1>5
<1> QED BY ZenonT(60), <1>3, <1>5, <1>6

(***************************************************************************)
(* Pages.                                                                  *)
(***************************************************************************)

\* A page the engine answers with has rows of the list as they are.
LEMMA PageRead ==
  ASSUME rows \in [Keys -> Nat], NEW param \in Param, NEW S \in SUBSET Present
  PROVE  /\ Page(param, S) \in Pages
         /\ \A i \in 1 .. Len(Page(param, S).items) :
              Page(param, S).items[i].version = rows[Page(param, S).items[i].key]
<1>1. S \in SUBSET Keys /\ S \in SUBSET Nat /\ IsFiniteSet(S)
  <2>1. S \in SUBSET Keys
    BY ZenonT(60) DEF Present
  <2> QED BY ZenonT(60), <2>1, RowsAssumption, FS_Subset
<1>2. Cardinality(S) \in Nat
  BY ZenonT(60), <1>1, FS_CardinalityType
<1>3. \A i \in 1 .. Cardinality(S) : Nth(S, i) \in S /\ Cardinality({j \in S : j <= Nth(S, i)}) = i
  BY ZenonT(60), <1>1, NthMember
<1>4. \A i \in 1 .. Cardinality(S) : Row(Nth(S, i)) \in Item
  BY ZenonT(60), <1>1, <1>3 DEF Row, Item
<1>5. /\ Listed(S) \in Seq(Item) /\ Len(Listed(S)) = Cardinality(S)
      /\ \A i \in 1 .. Cardinality(S) : Listed(S)[i] = Row(Nth(S, i))
  BY SMTT(60), <1>2, <1>4 DEF Listed
<1>6. \A i \in 1 .. Len(Listed(S)) : Listed(S)[i].version = rows[Listed(S)[i].key]
  BY SMTT(60), <1>5 DEF Row
<1>7. S # {} => /\ \E k \in S : \A j \in S : k <= j
                /\ \E k \in S : \A j \in S : j <= k
  BY ZenonT(60), <1>1, Extremes
<1>8. Page(param, S).prev \in Cursors /\ Page(param, S).next \in Cursors
  BY ZenonT(60), <1>1, <1>7 DEF Page, Cursors
<1>9. Page(param, S).items = Listed(S) /\ Page(param, S).param = param
  BY ZenonT(60) DEF Page
<1>10. Page(param, S) \in Pages
  BY ZenonT(60), <1>5, <1>8, <1>9 DEF Page, Pages
<1> QED BY ZenonT(60), <1>6, <1>9, <1>10

\* So does every page request, whatever it asks for.
LEMMA PageAtRead ==
  ASSUME rows \in [Keys -> Nat], NEW param \in Param, NEW n, NEW D
  PROVE  /\ PageAt(param, n) \in Pages /\ PageAt(param, n).param = param
         /\ Current(<<PageAt(param, n)>>, rows, D)
<1>1. /\ FirstN(Present, n) \in SUBSET Present
      /\ FirstN({k \in Present : k > param.at}, n) \in SUBSET Present
      /\ LastN({k \in Present : k < param.at}, n) \in SUBSET Present
  BY ZenonT(60) DEF FirstN, LastN
<1>2. PICK S \in SUBSET Present : PageAt(param, n) = Page(param, S)
  BY ZenonT(60), <1>1 DEF PageAt, Param
<1> HIDE DEF Present
<1>3. Page(param, S).param = param
  BY ZenonT(60) DEF Page
<1> QED BY SMTT(60), <1>2, <1>3, PageRead DEF Current, CurrentRows

\* Current is about each row: what is known of fewer keys, of parts and of pages
\* put together.
LEMMA CurrentMore ==
  ASSUME NEW ps, NEW rs, NEW D, Current(ps, rs, D), NEW E, D \subseteq E
  PROVE  Current(ps, rs, E)
BY ZenonT(60) DEF Current, CurrentRows

LEMMA CurrentNone ==
  ASSUME NEW rs, NEW D
  PROVE  Current(<<>>, rs, D)
BY SMTT(60) DEF Current

LEMMA CurrentOne ==
  ASSUME NEW p, NEW rs, NEW D
  PROVE  Current(<<p>>, rs, D) <=> CurrentRows(p.items, rs, D)
<1>1. Len(<<p>>) = 1 /\ 1 .. 1 = {1} /\ <<p>>[1] = p
  BY SMTT(60)
<1> QED BY ZenonT(60), <1>1 DEF Current

LEMMA CurrentJoin ==
  ASSUME NEW ps \in Seq(Pages), NEW qs \in Seq(Pages), NEW rs, NEW D,
         Current(ps, rs, D), Current(qs, rs, D)
  PROVE  Current(ps \o qs, rs, D) /\ ps \o qs \in Seq(Pages)
<1>1. /\ Len(ps \o qs) = Len(ps) + Len(qs) /\ Len(ps) \in Nat /\ Len(qs) \in Nat
      /\ \A i \in 1 .. Len(ps \o qs) : (ps \o qs)[i] = IF i <= Len(ps) THEN ps[i] ELSE qs[i - Len(ps)]
  BY SMTT(60)
<1>2. ASSUME NEW i \in 1 .. Len(ps \o qs)
      PROVE  CurrentRows((ps \o qs)[i].items, rs, D)
  <2>1. CASE i <= Len(ps)
    BY SMTT(60), <1>1, <2>1 DEF Current
  <2>2. CASE ~(i <= Len(ps))
    <3>1. i - Len(ps) \in 1 .. Len(qs) /\ (ps \o qs)[i] = qs[i - Len(ps)]
      BY SMTT(60), <1>1, <2>2
    <3> QED BY ZenonT(60), <3>1 DEF Current
  <2> QED BY ZenonT(60), <2>1, <2>2
<1>3. Current(ps \o qs, rs, D)
  BY ZenonT(60), <1>2 DEF Current
<1> QED BY SMTT(60), <1>3

LEMMA CurrentPart ==
  ASSUME NEW ps \in Seq(Pages), ps # <<>>, NEW rs, NEW D, Current(ps, rs, D)
  PROVE  /\ Tail(ps) \in Seq(Pages) /\ Front(ps) \in Seq(Pages)
         /\ Current(Tail(ps), rs, D) /\ Current(Front(ps), rs, D)
<1>1. /\ Tail(ps) \in Seq(Pages) /\ Front(ps) \in Seq(Pages)
      /\ \A i \in 1 .. Len(Tail(ps)) : i + 1 \in 1 .. Len(ps) /\ Tail(ps)[i] = ps[i + 1]
      /\ \A i \in 1 .. Len(Front(ps)) : i \in 1 .. Len(ps) /\ Front(ps)[i] = ps[i]
  BY SMTT(60) DEF Front
<1> HIDE DEF Front
<1>2. Current(Tail(ps), rs, D)
  BY ZenonT(60), <1>1 DEF Current
<1>3. Current(Front(ps), rs, D)
  BY ZenonT(60), <1>1 DEF Current
<1> QED BY ZenonT(60), <1>1, <1>2, <1>3

LEMMA ExceptPages ==
  ASSUME NEW ps \in Seq(Pages), NEW n \in 1 .. Len(ps), NEW p \in Pages
  PROVE  [ps EXCEPT ![n] = p] \in Seq(Pages) /\ Len([ps EXCEPT ![n] = p]) = Len(ps)
BY SMTT(60)

LEMMA CurrentExcept ==
  ASSUME NEW ps \in Seq(Pages), NEW n \in 1 .. Len(ps), NEW p \in Pages, NEW rs, NEW D,
         Current(ps, rs, D), CurrentRows(p.items, rs, D)
  PROVE  /\ [ps EXCEPT ![n] = p] \in Seq(Pages) /\ Len([ps EXCEPT ![n] = p]) = Len(ps)
         /\ Current([ps EXCEPT ![n] = p], rs, D)
<1> DEFINE qs == [ps EXCEPT ![n] = p]
<1>1. /\ qs \in Seq(Pages) /\ Len(qs) = Len(ps)
      /\ \A i \in 1 .. Len(ps) : qs[i] = IF i = n THEN p ELSE ps[i]
  BY SMTT(60)
<1> HIDE DEF qs
<1>2. Current(qs, rs, D)
  BY ZenonT(60), <1>1 DEF Current
<1> QED BY ZenonT(60), <1>1, <1>2 DEF qs

\* The rows of a page are rows of the list.
LEMMA PageItems ==
  ASSUME NEW p \in Pages
  PROVE  /\ p.items \in Seq(Item) /\ p.param \in Param /\ p.prev \in Cursors /\ p.next \in Cursors
         /\ \A j \in 1 .. Len(p.items) : /\ p.items[j] \in Item /\ p.items[j].key \in Keys
                                         /\ p.items[j].version \in Nat
<1>1. p.items \in Seq(Item) /\ p.param \in Param /\ p.prev \in Cursors /\ p.next \in Cursors
  BY ZenonT(60) DEF Pages
<1>2. \A j \in 1 .. Len(p.items) : p.items[j] \in Item
  BY SMTT(60), <1>1
<1> QED BY ZenonT(60), <1>1, <1>2 DEF Item

\* A row of the list changes.
LEMMA CurrentChange ==
  ASSUME NEW ps \in Seq(Pages), NEW rs, NEW rt, NEW k, \A l \in Keys \ {k} : rt[l] = rs[l],
         NEW D, Current(ps, rs, D), NEW E, D \cup {k} \subseteq E
  PROVE  Current(ps, rt, E)
<1> SUFFICES ASSUME NEW i \in 1 .. Len(ps), NEW j \in 1 .. Len(ps[i].items), ps[i].items[j].key \notin E
             PROVE  ps[i].items[j].version = rt[ps[i].items[j].key]
  BY ZenonT(60) DEF Current, CurrentRows
<1>1. ps[i] \in Pages
  BY SMTT(60)
<1>2. ps[i].items[j].key \in Keys
  BY ZenonT(60), <1>1, PageItems
<1>3. ps[i].items[j].version = rs[ps[i].items[j].key]
  BY ZenonT(60) DEF Current, CurrentRows
<1> QED BY ZenonT(60), <1>2, <1>3

\* Rows whose version is above zero, of rows as they are now.
LEMMA PatchedCurrent ==
  ASSUME NEW ps \in Seq(Pages), NEW items, NEW rs, NEW D,
         \A k \in DOMAIN items : items[k].version \in Nat,
         Current(ps, rs, D \cup DOMAIN items),
         \A k \in DOMAIN items \ D : items[k].version = rs[k]
  PROVE  /\ patchRows(ps, items) \in Seq(Pages) /\ Len(patchRows(ps, items)) = Len(ps)
         /\ Current(patchRows(ps, items), rs, D)
<1> DEFINE Patched(r) == IF r.key \in DOMAIN items THEN [r EXCEPT !.version = items[r.key].version] ELSE r
           Patch(s) == Kept([j \in DOMAIN s |-> Patched(s[j])],
                            {j \in DOMAIN s : Patched(s[j]).version > 0})
           qs == patchRows(ps, items)
<1>1. ASSUME NEW s \in Seq(Item), CurrentRows(s, rs, D \cup DOMAIN items)
      PROVE  Patch(s) \in Seq(Item) /\ CurrentRows(Patch(s), rs, D)
  <2> DEFINE u == [j \in DOMAIN s |-> Patched(s[j])]
             I == {j \in DOMAIN s : Patched(s[j]).version > 0}
  <2>1. DOMAIN s = 1 .. Len(s) /\ Len(s) \in Nat
    BY SMTT(60)
  <2>2. ASSUME NEW j \in 1 .. Len(s)
        PROVE  /\ Patched(s[j]) \in Item
               /\ Patched(s[j]).key \notin D => Patched(s[j]).version = rs[Patched(s[j]).key]
    <3>1. s[j] \in Item
      BY SMTT(60)
    <3>2. CASE s[j].key \in DOMAIN items
      <4>1. Patched(s[j]) \in Item /\ Patched(s[j]).key = s[j].key
            /\ Patched(s[j]).version = items[s[j].key].version
        BY ZenonT(60), <3>1, <3>2 DEF Item
      <4> QED BY ZenonT(60), <3>2, <4>1
    <3>3. CASE s[j].key \notin DOMAIN items
      <4>1. Patched(s[j]) = s[j]
        BY ZenonT(60), <3>3
      <4> HIDE DEF Patched
      <4>2. s[j].key \notin D => s[j].version = rs[s[j].key]
        BY ZenonT(60), <1>1, <3>3 DEF CurrentRows
      <4> QED BY ZenonT(60), <3>1, <4>1, <4>2
    <3> QED BY ZenonT(60), <3>2, <3>3
  <2>3. /\ u \in Seq(Item) /\ Len(u) = Len(s) /\ \A j \in 1 .. Len(s) : u[j] = Patched(s[j])
        /\ I \in SUBSET (1 .. Len(u))
    <3>1. u = [j \in 1 .. Len(s) |-> Patched(s[j])]
      BY ZenonT(60), <2>1
    <3> HIDE DEF Patched
    <3> QED BY SMTT(60), <2>1, <2>2, <3>1
  <2>4. Patch(s) = Kept(u, I)
    OBVIOUS
  <2> HIDE DEF u, I, Patch, Patched
  <2>5. /\ Kept(u, I) \in Seq(Item)
        /\ \A i \in 1 .. Len(Kept(u, I)) : \E j \in I : Kept(u, I)[i] = u[j]
    <3>1. u \in Seq(Item) /\ I \in SUBSET (1 .. Len(u))
      BY ZenonT(60), <2>3
    <3>2. /\ Kept(u, I) \in Seq(Item) /\ Len(Kept(u, I)) = Cardinality(I)
          /\ \A i \in 1 .. Len(Kept(u, I)) : \E j \in I : Kept(u, I)[i] = u[j]
      BY ONLY SMTT(60), <3>1, KeptSeq
    <3> QED BY ZenonT(60), <3>2
  <2>6. ASSUME NEW i \in 1 .. Len(Kept(u, I)), Kept(u, I)[i].key \notin D
        PROVE  Kept(u, I)[i].version = rs[Kept(u, I)[i].key]
    <3>1. PICK j \in I : Kept(u, I)[i] = u[j]
      BY ZenonT(60), <2>5
    <3>2. j \in 1 .. Len(s) /\ u[j] = Patched(s[j])
      BY ZenonT(60), <2>3
    <3> QED BY ZenonT(60), <2>2, <2>6, <3>1, <3>2
  <2> QED BY ZenonT(60), <2>4, <2>5, <2>6 DEF CurrentRows
<1>2. qs = [i \in DOMAIN ps |-> [ps[i] EXCEPT !.items = Patch(ps[i].items)]]
  BY ZenonT(60) DEF patchRows
<1> HIDE DEF Patch, qs
<1>3. ASSUME NEW i \in 1 .. Len(ps)
      PROVE  qs[i] \in Pages /\ CurrentRows(qs[i].items, rs, D)
  <2>1. ps[i] \in Pages /\ DOMAIN ps = 1 .. Len(ps)
    BY SMTT(60)
  <2>2. ps[i].items \in Seq(Item) /\ CurrentRows(ps[i].items, rs, D \cup DOMAIN items)
    BY ZenonT(60), <2>1, PageItems DEF Current
  <2>3. Patch(ps[i].items) \in Seq(Item) /\ CurrentRows(Patch(ps[i].items), rs, D)
    BY ZenonT(60), <1>1, <2>2
  <2>4. qs[i] = [ps[i] EXCEPT !.items = Patch(ps[i].items)]
    BY ZenonT(60), <1>2, <2>1
  <2>5. qs[i] \in Pages /\ qs[i].items = Patch(ps[i].items)
    BY ZenonT(60), <2>1, <2>3, <2>4 DEF Pages
  <2> QED BY ZenonT(60), <2>3, <2>5
<1>4. qs \in Seq(Pages) /\ Len(qs) = Len(ps)
  <2>1. DOMAIN ps = 1 .. Len(ps) /\ Len(ps) \in Nat
    BY SMTT(60)
  <2>2. qs = [i \in 1 .. Len(ps) |-> qs[i]]
    BY ZenonT(60), <1>2, <2>1
  <2> QED BY SMTT(60), <1>3, <2>1, <2>2
<1>5. Current(qs, rs, D)
  BY ZenonT(60), <1>3, <1>4 DEF Current
<1> QED BY ZenonT(60), <1>4, <1>5 DEF qs


\* The page that takes the place of one read again has the rows of what was read.
LEMMA JoinedCurrent ==
  ASSUME NEW a, IsAgain(a), a.head # <<>>, NEW rs, NEW D, Current(a.head, rs, D), Current(a.tail, rs, D)
  PROVE  Joined(a) \in Pages /\ CurrentRows(Joined(a).items, rs, D)
<1> DEFINE head == a.head[1]
           cut == Into(a)
           tail == a.tail[1].items
           more == {i \in DOMAIN tail : tail[i].key \notin KeysOf(head.items)}
           next == a.before[a.index].next
<1>1. head \in Pages /\ CurrentRows(head.items, rs, D)
  <2>1. Len(a.head) \in Nat /\ a.head \in Seq(Pages) /\ Len(a.head) # 0
    BY SMTT(60) DEF IsAgain
  <2> QED BY SMTT(60), <2>1 DEF Current
<1>2. head.items \in Seq(Item)
  BY ZenonT(60), <1>1, PageItems
<1>3. next \in Cursors
  <2>1. a.before[a.index] \in Pages
    BY SMTT(60) DEF IsAgain
  <2> QED BY ZenonT(60), <2>1, PageItems
<1>4. cut \in 0 .. Len(head.items)
  <2> DEFINE I == {i \in 1 .. Len(head.items) : head.items[i].key = a.before[a.index + 1].items[1].key}
  <2>1. cut = IF I # {} THEN Min(I) ELSE 0
    BY ZenonT(60) DEF Into, SelectInSeq
  <2>2. I \in SUBSET Nat /\ IsFiniteSet(I) /\ I \in SUBSET (1 .. Len(head.items)) /\ Len(head.items) \in Nat
    <3>1. I \in SUBSET (1 .. Len(head.items)) /\ Len(head.items) \in Nat
      BY SMTT(60), <1>2
    <3> HIDE DEF I, head
    <3>2. IsFiniteSet(1 .. Len(head.items)) /\ 1 .. Len(head.items) \in SUBSET Nat
      BY SMTT(60), <3>1, FS_Interval
    <3>3. IsFiniteSet(I)
      BY ZenonT(60), <3>1, <3>2, FS_Subset
    <3> QED BY ZenonT(60), <3>1, <3>2, <3>3
  <2> HIDE DEF I, cut, head
  <2>3. I # {} => Min(I) \in I
    BY ZenonT(60), <2>2, Extremes DEF Min
  <2>4. I # {} => cut \in 1 .. Len(head.items)
    BY ZenonT(60), <2>1, <2>2, <2>3
  <2>5. I = {} => cut = 0
    BY ZenonT(60), <2>1
  <2> QED BY SMTT(60), <2>2, <2>4, <2>5
<1>5. a.tail # <<>> => a.tail[1] \in Pages /\ CurrentRows(tail, rs, D)
  <2>1. a.tail \in Seq(Pages)
    BY ZenonT(60) DEF IsAgain
  <2>2. a.tail # <<>> => 1 \in 1 .. Len(a.tail)
    BY SMTT(60), <2>1
  <2> QED BY SMTT(60), <2>1, <2>2 DEF Current
<1>6. ASSUME NEW s \in Seq(Item), CurrentRows(s, rs, D)
      PROVE  /\ [head EXCEPT !.items = s, !.next = next] \in Pages
             /\ CurrentRows([head EXCEPT !.items = s, !.next = next].items, rs, D)
  <2>1. [head EXCEPT !.items = s, !.next = next] \in Pages
    BY ZenonT(60), <1>1, <1>3 DEF Pages
  <2>2. [head EXCEPT !.items = s, !.next = next].items = s
    BY ZenonT(60), <1>1 DEF Pages
  <2> QED BY ZenonT(60), <1>6, <2>1, <2>2
<1>7. CASE ~Following(a)
  BY ZenonT(60), <1>1, <1>7 DEF Joined
<1>8. CASE Following(a) /\ cut # 0
  <2>1. Joined(a) = [head EXCEPT !.items = SubSeq(head.items, 1, cut - 1), !.next = next]
    BY ZenonT(60), <1>8 DEF Joined
  <2>2. /\ SubSeq(head.items, 1, cut - 1) \in Seq(Item)
        /\ CurrentRows(SubSeq(head.items, 1, cut - 1), rs, D)
    <3> HIDE DEF head, cut
    <3>1. cut - 1 \in 0 .. Len(head.items) /\ Len(head.items) \in Nat
      BY SMTT(60), <1>2, <1>4, <1>8
    <3>2. /\ SubSeq(head.items, 1, cut - 1) \in Seq(Item) /\ Len(SubSeq(head.items, 1, cut - 1)) = cut - 1
          /\ \A i \in 1 .. cut - 1 : SubSeq(head.items, 1, cut - 1)[i] = head.items[i]
      BY SMTT(60), <1>2, <3>1
    <3> QED BY SMTT(60), <1>1, <3>1, <3>2 DEF CurrentRows
  <2> HIDE DEF head, cut, next
  <2> QED BY ZenonT(60), <1>6, <2>1, <2>2
<1>9. CASE Following(a) /\ cut = 0 /\ a.tail = <<>>
  <2>1. Joined(a) = [head EXCEPT !.next = next]
    BY ZenonT(60), <1>9 DEF Joined
  <2>2. [head EXCEPT !.next = next] \in Pages /\ [head EXCEPT !.next = next].items = head.items
    BY ZenonT(60), <1>1, <1>3 DEF Pages
  <2> QED BY ZenonT(60), <1>1, <2>1, <2>2
<1>10. CASE Following(a) /\ cut = 0 /\ a.tail # <<>>
  <2>1. Joined(a) = [head EXCEPT !.items = head.items \o Kept(tail, more), !.next = next]
    BY ZenonT(60), <1>10 DEF Joined
  <2>2. tail \in Seq(Item) /\ more \in SUBSET (1 .. Len(tail))
    BY SMTT(60), <1>5, <1>10, PageItems
  <2> HIDE DEF head, tail, more, next
  <2>3. /\ Kept(tail, more) \in Seq(Item)
        /\ \A i \in 1 .. Len(Kept(tail, more)) : \E j \in more : Kept(tail, more)[i] = tail[j]
    BY ONLY SMTT(60), <2>2, KeptSeq
  <2>4. CurrentRows(Kept(tail, more), rs, D)
    <3> SUFFICES ASSUME NEW i \in 1 .. Len(Kept(tail, more)), Kept(tail, more)[i].key \notin D
                 PROVE  Kept(tail, more)[i].version = rs[Kept(tail, more)[i].key]
      BY ZenonT(60) DEF CurrentRows
    <3>1. PICK j \in 1 .. Len(tail) : Kept(tail, more)[i] = tail[j]
      BY ZenonT(60), <2>2, <2>3
    <3> QED BY ZenonT(60), <1>5, <1>10, <3>1 DEF CurrentRows
  <2>5. /\ head.items \o Kept(tail, more) \in Seq(Item)
        /\ CurrentRows(head.items \o Kept(tail, more), rs, D)
    <3> DEFINE k == Kept(tail, more)
               s == head.items
    <3>1. s \in Seq(Item) /\ k \in Seq(Item) /\ CurrentRows(s, rs, D) /\ CurrentRows(k, rs, D)
      BY ZenonT(60), <1>1, <1>2, <2>3, <2>4
    <3> HIDE DEF k, s
    <3>2. /\ s \o k \in Seq(Item) /\ Len(s \o k) = Len(s) + Len(k) /\ Len(s) \in Nat /\ Len(k) \in Nat
          /\ \A i \in 1 .. Len(s \o k) : (s \o k)[i] = IF i <= Len(s) THEN s[i] ELSE k[i - Len(s)]
      BY SMTT(60), <3>1
    <3>3. ASSUME NEW i \in 1 .. Len(s \o k), (s \o k)[i].key \notin D
          PROVE  (s \o k)[i].version = rs[(s \o k)[i].key]
      <4>1. CASE i <= Len(s)
        BY SMTT(60), <3>1, <3>2, <3>3, <4>1 DEF CurrentRows
      <4>2. CASE ~(i <= Len(s))
        <5>1. i - Len(s) \in 1 .. Len(k) /\ (s \o k)[i] = k[i - Len(s)]
          BY SMTT(60), <3>2, <4>2
        <5> QED BY ZenonT(60), <3>1, <3>3, <5>1 DEF CurrentRows
      <4> QED BY ZenonT(60), <4>1, <4>2
    <3>4. CurrentRows(s \o k, rs, D)
      BY ZenonT(60), <3>3 DEF CurrentRows
    <3> QED BY ZenonT(60), <3>2, <3>4 DEF k, s
  <2> QED BY ZenonT(60), <1>6, <2>1, <2>5
<1> QED BY ZenonT(60), <1>7, <1>8, <1>9, <1>10

(***************************************************************************)
(* The steps.                                                              *)
(***************************************************************************)

\* A fetch that has just been sent has read nothing, and is not "at rest".
LEMMA FetchSent ==
  ASSUME NEW is \in {"all", "next", "prev"}, NEW old \in Seq(Pages), is # "all" => old # <<>>,
         NEW left \in Nat \ {0}
  PROVE  /\ IsFetch(Fetch(is, old, left)) /\ Fetch(is, old, left) # Rest
         /\ Fetch(is, old, left).is = is /\ Fetch(is, old, left).old = old
         /\ Fetch(is, old, left).got = <<>>
<1> DEFINE f == Fetch(is, old, left)
<1>1. /\ f = [is |-> is, old |-> old, got |-> <<>>, left |-> left]
      /\ f.is = is /\ f.old = old /\ f.got = <<>> /\ f.left = left
  BY ZenonT(60) DEF Fetch
<1>2. <<>> \in Seq(Pages)
  BY SMTT(60)
<1>3. Rest.is = "rest" /\ is # "rest"
  BY ZenonT(60) DEF Rest
<1> QED BY ZenonT(60), <1>1, <1>2, <1>3 DEF IsFetch

\* Starting again from page one leaves nothing to account for.
LEMMA ResetInv ==
  ASSUME rows' \in [Keys -> Nat], named' \in SUBSET Keys, reset
  PROVE  RowsInv'
<1>1. /\ pending' = {} /\ batch' = Rest /\ again' = {} /\ lost' = {} /\ marred' = {}
      /\ pages' = <<>> /\ fetch' = Fetch("all", <<>>, 1)
  BY ZenonT(60) DEF reset, Draw, FirstRead
<1>2. IsFetch(fetch') /\ fetch' # Rest /\ fetch'.is = "all" /\ fetch'.got = <<>>
  <2> DEFINE none == <<>>
  <2>1. none \in Seq(Pages)
    BY SMTT(60)
  <2> HIDE DEF none
  <2>2. /\ IsFetch(Fetch("all", none, 1)) /\ Fetch("all", none, 1) # Rest
        /\ Fetch("all", none, 1).is = "all" /\ Fetch("all", none, 1).got = <<>>
    BY SMTT(60), <2>1, FetchSent
  <2> QED BY ZenonT(60), <1>1, <2>2 DEF none
<1>3. TypeOK'
  BY SMTT(60), <1>1, <1>2 DEF TypeOK
<1>4. OneRead' /\ Whole'
  BY ZenonT(60), <1>1, <1>2 DEF OneRead, Whole
<1>5. FetchDue' /\ BatchDue' /\ AgainDue'
  BY ZenonT(60), <1>1, <1>2, CurrentNone DEF FetchDue, BatchDue, AgainDue
<1>6. PagesDue'
  BY ZenonT(60), <1>4 DEF PagesDue
<1> QED BY ZenonT(60), <1>3, <1>4, <1>5, <1>6 DEF RowsInv

LEMMA InitInv == Init => RowsInv
<1> SUFFICES ASSUME Init PROVE RowsInv
  OBVIOUS
<1>1. /\ rows \in [Keys -> Nat] /\ named = {} /\ pending = {} /\ lost = {} /\ marred = {}
      /\ batch = Rest /\ again = {} /\ pages = <<>> /\ fetch = Fetch("all", <<>>, 1)
  BY ZenonT(60) DEF Init, FirstRead
<1>2. IsFetch(fetch) /\ fetch # Rest /\ fetch.is = "all" /\ fetch.got = <<>>
  <2> DEFINE none == <<>>
  <2>1. none \in Seq(Pages)
    BY SMTT(60)
  <2> HIDE DEF none
  <2>2. /\ IsFetch(Fetch("all", none, 1)) /\ Fetch("all", none, 1) # Rest
        /\ Fetch("all", none, 1).is = "all" /\ Fetch("all", none, 1).got = <<>>
    BY SMTT(60), <2>1, FetchSent
  <2> QED BY ZenonT(60), <1>1, <2>2 DEF none
<1>3. TypeOK
  BY SMTT(60), <1>1, <1>2 DEF TypeOK
<1>4. OneRead /\ Whole
  BY ZenonT(60), <1>1, <1>2 DEF OneRead, Whole
<1>5. FetchDue /\ BatchDue /\ AgainDue
  BY ZenonT(60), <1>1, <1>2, CurrentNone DEF FetchDue, BatchDue, AgainDue
<1>6. PagesDue
  BY ZenonT(60), <1>4 DEF PagesDue
<1> QED BY ZenonT(60), <1>3, <1>4, <1>5, <1>6 DEF RowsInv

\* A change of the list is due from then on.
LEMMA ChangeInv ==
  ASSUME RowsInv, NEW k \in Keys, Change(k)
  PROVE  RowsInv'
<1>1. /\ UNCHANGED <<pages, fetch, pending, batch, again, lost>>
      /\ named' = named \cup {k} /\ marred \subseteq marred'
  BY ZenonT(60) DEF Change
<1>2. rows' \in [Keys -> Nat] /\ \A l \in Keys \ {k} : rows'[l] = rows[l]
  <2>1. rows \in [Keys -> Nat] /\ MaxVersion \in Nat
    BY ZenonT(60), RowsAssumption DEF RowsInv, TypeOK
  <2> QED BY SMTT(60), <2>1 DEF Change
<1>3. TypeOK'
  BY ZenonT(60), <1>1, <1>2 DEF RowsInv, TypeOK
<1>4. Due' = Due \cup {k} /\ Asked' = Asked /\ Whole' = Whole
  BY ZenonT(60), <1>1 DEF Due, Asked, Whole
<1>5. \A ps \in Seq(Pages) : \A D : Current(ps, rows, D) => Current(ps, rows', D \cup {k})
  BY ZenonT(60), <1>2, CurrentChange
<1>6. FetchDue'
  <2>1. fetch # Rest => fetch.got \in Seq(Pages) /\ Current(fetch.got, rows, Due)
    BY ZenonT(60) DEF RowsInv, TypeOK, IsFetch, FetchDue
  <2> QED BY ZenonT(60), <1>1, <1>4, <1>5, <2>1 DEF FetchDue
<1>7. BatchDue'
  <2>1. batch # Rest => batch.keys \in SUBSET Keys
    BY ZenonT(60) DEF RowsInv, TypeOK, IsBatch
  <2> QED BY ZenonT(60), <1>1, <1>2, <1>4, <2>1 DEF RowsInv, BatchDue
<1>8. AgainDue'
  <2>1. \A a \in again : /\ a.head \in Seq(Pages) /\ a.tail \in Seq(Pages)
                         /\ Current(a.head, rows, Due) /\ Current(a.tail, rows, Due)
    BY ZenonT(60) DEF RowsInv, TypeOK, IsAgain, AgainDue
  <2> QED BY ZenonT(60), <1>1, <1>4, <1>5, <2>1 DEF AgainDue
<1>9. PagesDue'
  <2> SUFFICES ASSUME "crossed" \notin marred
               PROVE  /\ ~Whole => Current(pages, rows', (Due \cup {k}) \cup Asked)
                      /\ fetch # Rest /\ ~Whole => /\ batch = Rest /\ again = {}
                                                   /\ Current(fetch.old, rows', Due \cup {k})
    BY ZenonT(60), <1>1, <1>4 DEF PagesDue
  <2>1. /\ ~Whole => Current(pages, rows, Due \cup Asked)
        /\ fetch # Rest /\ ~Whole => /\ batch = Rest /\ again = {}
                                     /\ Current(fetch.old, rows, Due)
    BY ZenonT(60) DEF RowsInv, PagesDue
  <2>2. pages \in Seq(Pages) /\ (fetch # Rest => fetch.old \in Seq(Pages))
    BY ZenonT(60) DEF RowsInv, TypeOK, IsFetch
  <2>3. (Due \cup Asked) \cup {k} = (Due \cup {k}) \cup Asked
    OBVIOUS
  <2> QED BY ZenonT(60), <1>5, <2>1, <2>2, <2>3
<1>10. OneRead'
  BY ZenonT(60), <1>1, <1>4 DEF RowsInv, OneRead
<1> QED BY ZenonT(60), <1>3, <1>6, <1>7, <1>8, <1>9, <1>10 DEF RowsInv

\* What was read stays accounted for while the list stands and no key stops
\* being due.
LEMMA KeptDue ==
  ASSUME RowsInv, UNCHANGED rows, Due \subseteq Due'
  PROVE  /\ UNCHANGED fetch => FetchDue'
         /\ UNCHANGED batch => BatchDue'
         /\ again' \subseteq again => AgainDue'
<1>1. UNCHANGED fetch => FetchDue'
  BY ZenonT(60), CurrentMore DEF RowsInv, FetchDue
<1>2. UNCHANGED batch => BatchDue'
  BY ZenonT(60) DEF RowsInv, BatchDue
<1>3. again' \subseteq again => AgainDue'
  BY ZenonT(60), CurrentMore DEF RowsInv, AgainDue
<1> QED BY ZenonT(60), <1>1, <1>2, <1>3

\* Any pages are current but for the keys there are.
LEMMA CurrentAll ==
  ASSUME NEW ps \in Seq(Pages), NEW rs, NEW D, Keys \subseteq D
  PROVE  Current(ps, rs, D)
<1> SUFFICES ASSUME NEW i \in 1 .. Len(ps), NEW j \in 1 .. Len(ps[i].items)
             PROVE  ps[i].items[j].key \in D
  BY ZenonT(60) DEF Current, CurrentRows
<1>1. ps[i] \in Pages
  BY SMTT(60)
<1> QED BY ZenonT(60), <1>1, PageItems

\* What the invariant says of the reads that are out.
LEMMA ReadsOut ==
  ASSUME RowsInv
  PROVE  /\ batch # Rest => IsBatch(batch) /\ again = {} /\ ~Whole /\ pages # <<>>
         /\ \A a \in again : IsAgain(a) /\ batch = Rest /\ ~Whole /\ pages # <<>>
         /\ fetch # Rest => IsFetch(fetch)
         /\ "crossed" \notin marred /\ (batch # Rest \/ again # {}) => fetch = Rest
         /\ Due \in SUBSET Keys /\ Asked \in SUBSET Keys
<1>1. TypeOK /\ OneRead /\ PagesDue
  BY ZenonT(60) DEF RowsInv
<1>2. /\ batch # Rest => IsBatch(batch) /\ again = {} /\ ~Whole /\ pages # <<>>
      /\ \A a \in again : IsAgain(a) /\ batch = Rest /\ ~Whole /\ pages # <<>>
      /\ fetch # Rest => IsFetch(fetch)
  BY ZenonT(60), <1>1 DEF TypeOK, OneRead
<1>3. "crossed" \notin marred /\ (batch # Rest \/ again # {}) => fetch = Rest
  BY ZenonT(60), <1>1, <1>2 DEF PagesDue
<1>4. Due \in SUBSET Keys /\ Asked \in SUBSET Keys
  BY ZenonT(60), <1>1 DEF TypeOK, Due, Asked, IsBatch
<1> QED BY ZenonT(60), <1>2, <1>3, <1>4

LEMMA LiveResetInv == RowsInv /\ LiveReset => RowsInv'
BY ZenonT(60), ResetInv DEF LiveReset, RowsInv, TypeOK

\* Keys whose event arrives are due as keys that wait.
LEMMA applyKeysInv == RowsInv /\ applyKeys => RowsInv'
<1> SUFFICES ASSUME RowsInv, applyKeys PROVE RowsInv'
  OBVIOUS
<1>1. CASE reset
  <2>1. rows' \in [Keys -> Nat] /\ named' \in SUBSET Keys
    BY ZenonT(60) DEF applyKeys, RowsInv, TypeOK
  <2> QED BY ZenonT(60), <1>1, <2>1, ResetInv
<1>2. CASE /\ pending' = pending \cup named
           /\ UNCHANGED <<pages, fetch, batch, again, offset, seen, lost, marred>>
  <2>1. UNCHANGED <<rows, pages, fetch, batch, again, lost, marred>> /\ named' = {}
    BY ZenonT(60), <1>2 DEF applyKeys
  <2>2. Due' = Due /\ Asked' = Asked /\ Whole' = Whole
    BY ZenonT(60), <1>2, <2>1 DEF Due, Asked, Whole
  <2>3. TypeOK' /\ OneRead'
    BY ZenonT(60), <1>2, <2>1, <2>2 DEF RowsInv, TypeOK, OneRead
  <2>4. FetchDue' /\ BatchDue' /\ AgainDue'
    BY ZenonT(60), <2>1, <2>2, KeptDue
  <2>5. PagesDue'
    BY ZenonT(60), <2>1, <2>2 DEF RowsInv, PagesDue
  <2> QED BY ZenonT(60), <2>3, <2>4, <2>5 DEF RowsInv
<1> QED BY ZenonT(60), <1>1, <1>2 DEF applyKeys

\* With nothing loaded nothing can be out of date.
LEMMA FlushNothingInv == RowsInv /\ FlushNothing => RowsInv'
<1> SUFFICES ASSUME RowsInv, FlushNothing PROVE RowsInv'
  OBVIOUS
<1>1. UNCHANGED <<rows, named, pages, fetch, batch, again, marred>> /\ pending' = {}
  BY ZenonT(60) DEF FlushNothing
<1>2. Asked' = Asked /\ Whole' = Whole
  BY ZenonT(60), <1>1 DEF Asked, Whole
<1>3. TypeOK' /\ OneRead'
  BY ZenonT(60), <1>1, <1>2 DEF FlushNothing, RowsInv, TypeOK, OneRead
<1>4. CASE Due' = Due
  <2>1. FetchDue' /\ BatchDue' /\ AgainDue'
    BY ZenonT(60), <1>1, <1>4, KeptDue
  <2>2. PagesDue'
    BY SMTT(60), <1>1, <1>2, <1>4 DEF RowsInv, PagesDue
  <2> QED BY ZenonT(60), <1>3, <2>1, <2>2 DEF RowsInv
<1>5. CASE pages = <<>> /\ fetch.got = <<>>
  <2>1. Whole /\ batch = Rest /\ again = {}
    BY ZenonT(60), <1>5 DEF RowsInv, OneRead
  <2>2. FetchDue' /\ BatchDue' /\ AgainDue'
    BY ZenonT(60), <1>1, <1>5, <2>1, CurrentNone DEF FetchDue, BatchDue, AgainDue
  <2>3. PagesDue'
    BY ZenonT(60), <1>2, <2>1 DEF PagesDue
  <2> QED BY ZenonT(60), <1>3, <2>2, <2>3 DEF RowsInv
<1>6. Due' = Due \/ (pages = <<>> /\ fetch.got = <<>>)
  <2>1. pages = <<>> => fetch # Rest
    BY ZenonT(60) DEF RowsInv, OneRead, Whole
  <2> QED BY ZenonT(60), <1>1, <2>1 DEF FlushNothing, Due
<1> QED BY ZenonT(60), <1>4, <1>5, <1>6

\* The keys that waited are asked for, and those of a read that is aborted are lost.
LEMMA FlushInv == RowsInv /\ Flush => RowsInv'
<1> SUFFICES ASSUME RowsInv, Flush PROVE RowsInv'
  OBVIOUS
<1>1. /\ UNCHANGED <<rows, named, pages, fetch, marred>> /\ pages # <<>> /\ fetch = Rest
      /\ pending' = {} /\ again' = {} /\ lost' = lost \cup (Aborted \ pending)
      /\ batch' = [is |-> "batch", keys |-> pending, loaded |-> pages, items |-> <<>>]
  BY ZenonT(60) DEF Flush
<1>2. batch' # Rest /\ batch'.keys = pending /\ batch'.items = <<>>
  <2>1. batch'.is = "batch" /\ Rest.is = "rest" /\ batch'.keys = pending /\ batch'.items = <<>>
    BY ZenonT(60), <1>1 DEF Rest
  <2> QED BY ZenonT(60), <2>1
<1>3. Aborted \in SUBSET Keys /\ pending \in SUBSET Keys /\ Asked \subseteq Aborted
  BY SMTT(60) DEF Aborted, Asked, RowsInv, TypeOK, IsBatch, IsAgain
<1>4. ~Whole' /\ Asked' = pending /\ Due' = named \cup lost \cup (Aborted \ pending)
  BY ZenonT(60), <1>1, <1>2 DEF Whole, Asked, Due
<1>5. TypeOK'
  <2>1. IsBatch(batch')
    BY ZenonT(60), <1>1, <1>2, <1>3 DEF IsBatch
  <2> QED BY ZenonT(60), <1>1, <1>3, <2>1 DEF RowsInv, TypeOK
<1>6. OneRead' /\ FetchDue' /\ BatchDue' /\ AgainDue'
  BY ZenonT(60), <1>1, <1>2, <1>4 DEF OneRead, FetchDue, BatchDue, AgainDue
<1>7. PagesDue'
  <2> SUFFICES ASSUME "crossed" \notin marred PROVE Current(pages, rows, Due' \cup Asked')
    BY ZenonT(60), <1>1 DEF PagesDue
  <2>1. Current(pages, rows, Due \cup Asked)
    BY ZenonT(60), <1>1 DEF RowsInv, PagesDue, Whole
  <2>2. Due \cup Asked \subseteq Due' \cup Asked'
    BY ZenonT(60), <1>3, <1>4 DEF Due
  <2> QED BY ZenonT(60), <2>1, <2>2, CurrentMore
<1> QED BY ZenonT(60), <1>5, <1>6, <1>7 DEF RowsInv

\* The batch is read: its rows are as the list holds them.
LEMMA BatchReadInv == RowsInv /\ BatchRead => RowsInv'
<1> SUFFICES ASSUME RowsInv, BatchRead PROVE RowsInv'
  OBVIOUS
<1> DEFINE read == [k \in batch.keys |-> [version |-> rows[k], page |-> PlaceOf(k, batch.loaded)]]
<1>1. /\ UNCHANGED <<rows, named, pages, fetch, pending, again, lost, marred>>
      /\ batch # Rest /\ batch' = [batch EXCEPT !.items = read]
  BY ZenonT(60) DEF BatchRead
<1>2. IsBatch(batch) /\ rows \in [Keys -> Nat]
  BY ZenonT(60), <1>1 DEF RowsInv, TypeOK
<1>3. /\ DOMAIN read = batch.keys
      /\ \A k \in batch.keys : /\ read[k] = [version |-> read[k].version, page |-> read[k].page]
                               /\ read[k].version = rows[k] /\ read[k].version \in Nat
  BY ZenonT(60), <1>2 DEF IsBatch
<1> HIDE DEF read
<1>4. /\ batch' = [is |-> "batch", keys |-> batch.keys, loaded |-> batch.loaded, items |-> read]
      /\ batch'.keys = batch.keys /\ batch'.items = read /\ batch'.is = "batch"
  BY SMTT(60), <1>1, <1>2 DEF IsBatch
<1>5. batch' # Rest
  BY ZenonT(60), <1>4 DEF Rest
<1>6. Due' = Due /\ Asked' = Asked /\ Whole' = Whole
  BY ZenonT(60), <1>1, <1>4, <1>5 DEF Due, Asked, Whole
<1>7. IsBatch(batch')
  BY ZenonT(60), <1>2, <1>3, <1>4 DEF IsBatch
<1>8. TypeOK' /\ OneRead'
  BY ZenonT(60), <1>1, <1>6, <1>7 DEF RowsInv, TypeOK, OneRead
<1>9. FetchDue' /\ AgainDue'
  BY ZenonT(60), <1>1, <1>6, KeptDue
<1>10. BatchDue'
  BY ZenonT(60), <1>1, <1>3, <1>4 DEF BatchDue
<1>11. PagesDue'
  BY ZenonT(60), <1>1, <1>6 DEF RowsInv, PagesDue
<1> QED BY ZenonT(60), <1>8, <1>9, <1>10, <1>11 DEF RowsInv

\* The rows of a batch, placed or not, are those that were read.
LEMMA PlacedRows ==
  ASSUME batch # Rest, IsBatch(batch), batch.items # <<>>
  PROVE  /\ DOMAIN Placed = batch.keys
         /\ \A k \in batch.keys : Placed[k].version = batch.items[k].version /\ Placed[k].version \in Nat
<1>1. DOMAIN Placed = batch.keys
  BY ZenonT(60) DEF Placed
<1>2. ASSUME NEW k \in batch.keys
      PROVE  Placed[k].version = batch.items[k].version /\ Placed[k].version \in Nat
  <2>1. /\ batch.items[k] = [version |-> batch.items[k].version, page |-> batch.items[k].page]
        /\ batch.items[k].version \in Nat
    BY ZenonT(60) DEF IsBatch
  <2>2. Placed[k] = [batch.items[k] EXCEPT !.page = IF Params(pages) = Params(batch.loaded)
                                                      THEN batch.items[k].page ELSE 0]
    BY ZenonT(60) DEF Placed
  <2> QED BY ZenonT(60), <2>1, <2>2
<1> QED BY ZenonT(60), <1>1, <1>2

\* The batch lands: its rows are patched, and the pages that gain rows have not
\* been read yet.
LEMMA BatchLandsInv == RowsInv /\ BatchLands => RowsInv'
<1> SUFFICES ASSUME RowsInv, BatchLands PROVE RowsInv'
  OBVIOUS
<1> DEFINE ps == patchRows(pages, Placed)
<1>1. /\ UNCHANGED <<rows, named, fetch, pending, lost>> /\ batch # Rest /\ batch.items # <<>>
      /\ batch' = Rest /\ pages' = ps /\ marred \subseteq marred'
      /\ again' = {PageAgain(i, ps, Placed) : i \in {j \in DOMAIN pages : arriving(pages, Placed, j) > 0}}
  BY ZenonT(60) DEF BatchLands, Draw
<1>2. IsBatch(batch) /\ ~Whole /\ pages # <<>> /\ pages \in Seq(Pages)
  BY ZenonT(60), <1>1, ReadsOut DEF RowsInv, TypeOK
<1>3. /\ DOMAIN Placed = batch.keys
      /\ \A k \in batch.keys : Placed[k].version = batch.items[k].version /\ Placed[k].version \in Nat
  BY ZenonT(60), <1>1, <1>2, PlacedRows
<1>4. Due' = Due /\ Asked' = {} /\ Whole' = Whole
  BY ZenonT(60), <1>1 DEF Due, Asked, Whole
<1>5. ps \in Seq(Pages) /\ Len(ps) = Len(pages)
  <2>1. batch.keys \in SUBSET Keys
    BY ZenonT(60), <1>2 DEF IsBatch
  <2>2. Current(pages, rows, Keys \cup DOMAIN Placed)
    BY ZenonT(60), <1>2, CurrentAll
  <2> QED BY ZenonT(60), <1>2, <1>3, <2>1, <2>2, PatchedCurrent
<1>6. "crossed" \notin marred => Current(ps, rows, Due)
  <2> SUFFICES ASSUME "crossed" \notin marred PROVE Current(ps, rows, Due)
    OBVIOUS
  <2>1. Current(pages, rows, Due \cup DOMAIN Placed)
    BY ZenonT(60), <1>1, <1>2, <1>3 DEF RowsInv, PagesDue, Asked
  <2>2. \A k \in DOMAIN Placed \ Due : Placed[k].version = rows[k]
    BY ZenonT(60), <1>1, <1>3 DEF RowsInv, BatchDue
  <2> QED BY ZenonT(60), <1>2, <1>3, <2>1, <2>2, PatchedCurrent
<1> HIDE DEF ps
<1>7. ASSUME NEW a \in again'
      PROVE  IsAgain(a) /\ a.head = <<>> /\ a.tail = <<>>
  <2>1. PICK i \in DOMAIN pages : a = PageAgain(i, ps, Placed)
    BY ZenonT(60), <1>1
  <2>2. i \in 1 .. Len(ps)
    BY SMTT(60), <1>2, <1>5
  <2> DEFINE limit == IF i < Len(ps) THEN Len(ps[i].items) + arriving(pages, Placed, i) + 1 ELSE PageSize
             ks == {k \in DOMAIN Placed : k \notin Held(pages) /\ Placed[k].page = i}
  <2>3. a = [index |-> i, before |-> ps, limit |-> limit, head |-> <<>>, tail |-> <<>>, keys |-> ks]
    BY ZenonT(60), <2>1 DEF PageAgain
  <2>4. ks \in SUBSET Keys
    BY ZenonT(60), <1>2, <1>3 DEF IsBatch
  <2> HIDE DEF limit, ks
  <2>5. <<>> \in Seq(Pages) /\ Len(<<>>) <= 1
    BY SMTT(60)
  <2> QED BY ZenonT(60), <1>5, <2>2, <2>3, <2>4, <2>5 DEF IsAgain
<1>8. TypeOK'
  BY ZenonT(60), <1>1, <1>5, <1>7 DEF RowsInv, TypeOK
<1>9. OneRead'
  <2>1. ps # <<>>
    BY SMTT(60), <1>2, <1>5
  <2> QED BY ZenonT(60), <1>1, <1>2, <1>4, <2>1 DEF OneRead
<1>10. FetchDue' /\ BatchDue'
  BY ZenonT(60), <1>1, <1>4, KeptDue DEF BatchDue
<1>11. AgainDue'
  BY ZenonT(60), <1>7, CurrentNone DEF AgainDue
<1>12. PagesDue'
  <2> SUFFICES ASSUME "crossed" \notin marred PROVE Current(ps, rows, Due) /\ fetch = Rest
    BY ZenonT(60), <1>1, <1>4 DEF PagesDue
  <2> QED BY ZenonT(60), <1>1, <1>6, ReadsOut
<1> QED BY ZenonT(60), <1>8, <1>9, <1>10, <1>11, <1>12 DEF RowsInv

\* A batch that could not be read has the window read again whole.
LEMMA BatchFailsInv == RowsInv /\ BatchFails => RowsInv'
<1> SUFFICES ASSUME RowsInv, BatchFails PROVE RowsInv'
  OBVIOUS
<1>1. /\ UNCHANGED <<rows, named, pages, pending, again>> /\ batch # Rest /\ batch' = Rest
      /\ fetch' = Fetch("all", pages, Len(pages)) /\ lost' \in {Keys, {}}
  BY ZenonT(60) DEF BatchFails
<1>2. again = {} /\ pages # <<>> /\ pages \in Seq(Pages)
  BY ZenonT(60), <1>1, ReadsOut DEF RowsInv, TypeOK
<1>3. IsFetch(fetch') /\ fetch' # Rest /\ fetch'.is = "all" /\ fetch'.got = <<>>
  <2>1. Len(pages) \in Nat \ {0}
    BY SMTT(60), <1>2
  <2> QED BY SMTT(60), <1>1, <1>2, <2>1, FetchSent
<1>4. TypeOK' /\ OneRead' /\ Whole'
  BY ZenonT(60), <1>1, <1>2, <1>3 DEF RowsInv, TypeOK, OneRead, Whole
<1>5. FetchDue' /\ BatchDue' /\ AgainDue' /\ PagesDue'
  BY ZenonT(60), <1>1, <1>2, <1>3, <1>4, CurrentNone DEF FetchDue, BatchDue, AgainDue, PagesDue
<1> QED BY ZenonT(60), <1>4, <1>5 DEF RowsInv

\* Reading a single page again moves nothing else: its two reads, and giving it up.
LEMMA AgainStep ==
  ASSUME RowsInv, again # {}, UNCHANGED <<rows, named, pages, fetch, pending, batch>>,
         marred \subseteq marred', lost' \in SUBSET Keys, lost \subseteq lost',
         \A a \in again' : IsAgain(a) /\ Current(a.head, rows, Due) /\ Current(a.tail, rows, Due)
  PROVE  RowsInv'
<1>1. PICK a \in again : TRUE
  OBVIOUS
<1>2. batch = Rest /\ ~Whole /\ pages # <<>>
  BY ZenonT(60), <1>1, ReadsOut
<1>3. Due \subseteq Due' /\ Asked' = Asked /\ Whole' = Whole
  BY ZenonT(60) DEF Due, Asked, Whole
<1>4. TypeOK' /\ OneRead'
  BY ZenonT(60), <1>2, <1>3 DEF RowsInv, TypeOK, OneRead
<1>5. FetchDue' /\ BatchDue'
  BY ZenonT(60), <1>3, KeptDue
<1>6. AgainDue'
  BY ZenonT(60), <1>3, CurrentMore DEF AgainDue
<1>7. PagesDue'
  <2> SUFFICES ASSUME "crossed" \notin marred PROVE Current(pages, rows, Due' \cup Asked) /\ fetch = Rest
    BY ZenonT(60), <1>3 DEF PagesDue
  <2>1. fetch = Rest
    BY ZenonT(60), ReadsOut
  <2>2. Current(pages, rows, Due \cup Asked)
    BY ZenonT(60), <1>2 DEF RowsInv, PagesDue
  <2> QED BY ZenonT(60), <1>3, <2>1, <2>2, CurrentMore
<1> QED BY ZenonT(60), <1>4, <1>5, <1>6, <1>7 DEF RowsInv

LEMMA HeadReadInv ==
  ASSUME RowsInv, NEW a \in again, HeadRead(a)
  PROVE  RowsInv'
<1> DEFINE head == PageAt(a.before[a.index].param, a.limit)
           b == [a EXCEPT !.head = <<head>>]
<1>1. /\ UNCHANGED <<rows, named, pages, fetch, pending, batch, lost>> /\ marred \subseteq marred'
      /\ a.head = <<>> /\ again' = (again \ {a}) \cup {b}
  BY ZenonT(60) DEF HeadRead
<1>2. IsAgain(a) /\ rows \in [Keys -> Nat] /\ lost \in SUBSET Keys
  BY ZenonT(60) DEF RowsInv, TypeOK
<1>3. a.before[a.index].param \in Param
  <2>1. a.before[a.index] \in Pages
    BY SMTT(60), <1>2 DEF IsAgain
  <2> QED BY ZenonT(60), <2>1, PageItems
<1>4. head \in Pages /\ Current(<<head>>, rows, Due)
  BY ZenonT(60), <1>2, <1>3, PageAtRead
<1> HIDE DEF head
<1>5. IsAgain(b) /\ b.head = <<head>> /\ b.tail = a.tail
  <2>1. /\ b = [index |-> a.index, before |-> a.before, limit |-> a.limit, head |-> <<head>>,
                tail |-> a.tail, keys |-> a.keys]
    BY SMTT(60), <1>2 DEF IsAgain
  <2>2. <<head>> \in Seq(Pages) /\ Len(<<head>>) <= 1 /\ <<head>> # <<>>
    BY SMTT(60), <1>4
  <2> QED BY ZenonT(60), <1>2, <2>1, <2>2 DEF IsAgain
<1> HIDE DEF b
<1>6. \A c \in again' : IsAgain(c) /\ Current(c.head, rows, Due) /\ Current(c.tail, rows, Due)
  BY ZenonT(60), <1>1, <1>4, <1>5 DEF RowsInv, TypeOK, AgainDue
<1> QED BY SMTT(60), <1>1, <1>2, <1>6, AgainStep

LEMMA TailReadInv ==
  ASSUME RowsInv, NEW a \in again, TailRead(a)
  PROVE  RowsInv'
<1> DEFINE param == Before(a.before[a.index + 1].prev)
           tail == PageAt(param, PageSize)
           b == [a EXCEPT !.tail = <<tail>>]
<1>1. /\ UNCHANGED <<rows, named, pages, fetch, pending, batch, lost, marred>>
      /\ a.head # <<>> /\ Short(a) /\ again' = (again \ {a}) \cup {b}
  BY ZenonT(60) DEF TailRead
<1>2. IsAgain(a) /\ rows \in [Keys -> Nat] /\ lost \in SUBSET Keys
  BY ZenonT(60) DEF RowsInv, TypeOK
<1>3. param \in Param
  <2>1. a.before[a.index + 1] \in Pages
    BY SMTT(60), <1>1, <1>2 DEF IsAgain, Short, Following
  <2>2. a.before[a.index + 1].prev \in Cursors
    BY ZenonT(60), <2>1, PageItems
  <2> QED BY ZenonT(60), <2>2 DEF Before, Param
<1> HIDE DEF param
<1>4. tail \in Pages /\ Current(<<tail>>, rows, Due)
  BY ZenonT(60), <1>2, <1>3, PageAtRead
<1> HIDE DEF tail
<1>5. IsAgain(b) /\ b.tail = <<tail>> /\ b.head = a.head
  <2>1. /\ b = [index |-> a.index, before |-> a.before, limit |-> a.limit, head |-> a.head,
                tail |-> <<tail>>, keys |-> a.keys]
    BY SMTT(60), <1>2 DEF IsAgain
  <2>2. <<tail>> \in Seq(Pages) /\ Len(<<tail>>) <= 1
    BY SMTT(60), <1>4
  <2> QED BY ZenonT(60), <1>1, <1>2, <2>1, <2>2 DEF IsAgain
<1> HIDE DEF b
<1>6. \A c \in again' : IsAgain(c) /\ Current(c.head, rows, Due) /\ Current(c.tail, rows, Due)
  BY ZenonT(60), <1>1, <1>4, <1>5 DEF RowsInv, TypeOK, AgainDue
<1> QED BY ZenonT(60), <1>1, <1>2, <1>6, AgainStep

LEMMA PageFailsInv ==
  ASSUME RowsInv, NEW a \in again, PageFails(a)
  PROVE  RowsInv'
<1>1. /\ UNCHANGED <<rows, named, pages, fetch, pending, batch, marred>>
      /\ again' = again \ {a} /\ lost' = lost \cup a.keys
  BY ZenonT(60) DEF PageFails
<1>2. lost' \in SUBSET Keys /\ lost \subseteq lost'
  BY ZenonT(60), <1>1 DEF RowsInv, TypeOK, IsAgain
<1>3. \A c \in again' : IsAgain(c) /\ Current(c.head, rows, Due) /\ Current(c.tail, rows, Due)
  BY ZenonT(60), <1>1 DEF RowsInv, TypeOK, AgainDue
<1> QED BY ZenonT(60), <1>1, <1>2, <1>3, AgainStep

\* A page that was read again takes its place, or the window starts again.
LEMMA PageLandsInv ==
  ASSUME RowsInv, NEW a \in again, PageLands(a)
  PROVE  RowsInv'
<1>1. CASE reset /\ UNCHANGED <<rows, named>>
  BY ZenonT(60), <1>1, ResetInv DEF RowsInv, TypeOK
<1>2. CASE /\ again' = again \ {a} /\ UNCHANGED <<rows, named, fetch, pending, batch, lost, marred>>
           /\ a.head # <<>>
           /\ IF a.index \in DOMAIN pages /\ pages[a.index].param = a.before[a.index].param
                THEN Draw([pages EXCEPT ![a.index] = Joined(a)])
                ELSE UNCHANGED <<pages, offset, seen>>
  <2>1. IsAgain(a) /\ batch = Rest /\ ~Whole /\ pages # <<>> /\ pages \in Seq(Pages)
    BY ZenonT(60), ReadsOut DEF RowsInv, TypeOK
  <2>2. Due' = Due /\ Asked = {} /\ Asked' = {} /\ Whole' = Whole
    BY ZenonT(60), <1>2, <2>1 DEF Due, Asked, Whole
  <2>3. Joined(a) \in Pages /\ CurrentRows(Joined(a).items, rows, Due)
    BY ZenonT(60), <1>2, <2>1, JoinedCurrent DEF RowsInv, AgainDue
  <2>4. \/ pages' = pages
        \/ a.index \in 1 .. Len(pages) /\ pages' = [pages EXCEPT ![a.index] = Joined(a)]
    BY SMTT(60), <1>2, <2>1 DEF Draw
  <2>5. pages' \in Seq(Pages) /\ pages' # <<>>
    <3>1. CASE pages' = pages
      BY ZenonT(60), <2>1, <3>1
    <3>2. CASE a.index \in 1 .. Len(pages) /\ pages' = [pages EXCEPT ![a.index] = Joined(a)]
      <4>1. pages' \in Seq(Pages) /\ Len(pages') = Len(pages)
        BY ZenonT(60), <2>1, <2>3, <3>2, ExceptPages
      <4> QED BY SMTT(60), <2>1, <4>1
    <3> QED BY ZenonT(60), <2>4, <3>1, <3>2
  <2>6. "crossed" \notin marred => fetch = Rest /\ Current(pages', rows, Due)
    <3> SUFFICES ASSUME "crossed" \notin marred PROVE fetch = Rest /\ Current(pages', rows, Due)
      OBVIOUS
    <3>1. fetch = Rest
      BY ZenonT(60), ReadsOut
    <3>2. Current(pages, rows, Due)
      BY ZenonT(60), <2>1, <2>2 DEF RowsInv, PagesDue
    <3> QED BY SMTT(60), <2>1, <2>3, <2>4, <3>1, <3>2, CurrentExcept
  <2>7. TypeOK' /\ OneRead'
    BY ZenonT(60), <1>2, <2>1, <2>2, <2>5 DEF RowsInv, TypeOK, OneRead
  <2>8. FetchDue' /\ BatchDue' /\ AgainDue'
    BY ZenonT(60), <1>2, <2>2, KeptDue
  <2>9. PagesDue'
    BY ZenonT(60), <1>2, <2>2, <2>6 DEF PagesDue
  <2> QED BY ZenonT(60), <2>7, <2>8, <2>9 DEF RowsInv
<1> QED BY ZenonT(60), <1>1, <1>2 DEF PageLands

\* A page is asked for by scrolling: what it will be put beside is current, or the
\* window is marked.
LEMMA ScrollInv ==
  ASSUME RowsInv, NEW is \in {"next", "prev"}, Scroll(is)
  PROVE  RowsInv'
<1>1. /\ UNCHANGED <<rows, named, pages, pending, batch, again>> /\ pages # <<>>
      /\ fetch # Rest => fetch.is = "all"
      /\ fetch' = Fetch(is, pages, 1) /\ lost' = IF fetch = Rest THEN lost ELSE Keys
      /\ marred' = marred \cup Mar("crossed", batch # Rest \/ again # {})
  BY ZenonT(60) DEF Scroll
<1>2. pages \in Seq(Pages) /\ lost \in SUBSET Keys
  BY ZenonT(60) DEF RowsInv, TypeOK
<1>3. IsFetch(fetch') /\ fetch' # Rest /\ fetch'.is = is /\ fetch'.old = pages /\ fetch'.got = <<>>
  BY SMTT(60), <1>1, <1>2, FetchSent
<1>4. ~Whole' /\ Asked' = Asked /\ Due \subseteq Due'
  BY ZenonT(60), <1>1, <1>2, <1>3 DEF Whole, Asked, Due
<1>5. TypeOK' /\ OneRead'
  BY ZenonT(60), <1>1, <1>2, <1>3, <1>4 DEF RowsInv, TypeOK, OneRead
<1>6. FetchDue'
  BY ZenonT(60), <1>3, CurrentNone DEF FetchDue
<1>7. BatchDue' /\ AgainDue'
  BY ZenonT(60), <1>1, <1>4, KeptDue
<1>8. PagesDue'
  <2> SUFFICES ASSUME "crossed" \notin marred'
               PROVE  batch = Rest /\ again = {} /\ Current(pages, rows, Due')
    <3>1. Due' \subseteq Due' \cup Asked'
      OBVIOUS
    <3> QED BY ZenonT(60), <1>1, <1>3, <3>1, CurrentMore DEF PagesDue
  <2>1. batch = Rest /\ again = {} /\ "crossed" \notin marred
    BY ZenonT(60), <1>1 DEF Mar
  <2>2. CASE fetch = Rest
    <3>1. Current(pages, rows, Due \cup Asked)
      BY ZenonT(60), <2>1, <2>2 DEF RowsInv, PagesDue, Whole
    <3>2. Due \cup Asked \subseteq Due'
      BY ZenonT(60), <1>4, <2>1 DEF Asked
    <3> QED BY SMTT(60), <2>1, <3>1, <3>2, CurrentMore
  <2>3. CASE fetch # Rest
    <3>1. Keys \subseteq Due'
      BY ZenonT(60), <1>1, <2>3 DEF Due
    <3> QED BY ZenonT(60), <1>2, <2>1, <3>1, CurrentAll
  <2> QED BY ZenonT(60), <2>2, <2>3
<1> QED BY ZenonT(60), <1>5, <1>6, <1>7, <1>8 DEF RowsInv

\* The parameter of a fetch's next read.
LEMMA NextParamType ==
  ASSUME IsFetch(fetch)
  PROVE  NextParam \in Param
<1>1. ASSUME NEW ps \in Seq(Pages), ps # <<>>
      PROVE  Last(ps) \in Pages /\ ps[1] \in Pages
  BY SMTT(60), <1>1 DEF Last
<1>2. \A c \in Cursors : After(c) \in Param /\ Before(c) \in Param
  BY ZenonT(60) DEF After, Before, Param
<1>3. First \in Param
  BY ZenonT(60) DEF First, Param, Cursors
<1>4. /\ fetch.is \in {"all", "next", "prev"} /\ fetch.old \in Seq(Pages) /\ fetch.got \in Seq(Pages)
      /\ fetch.is # "all" => fetch.old # <<>>
  BY ZenonT(60) DEF IsFetch
<1>5. /\ fetch.old # <<>> => /\ Last(fetch.old).next \in Cursors /\ fetch.old[1].prev \in Cursors
                             /\ fetch.old[1].param \in Param
      /\ fetch.got # <<>> => Last(fetch.got).next \in Cursors
  BY ZenonT(60), <1>1, <1>4, PageItems
<1> HIDE DEF Param, Cursors
<1> QED BY ZenonT(60), <1>2, <1>3, <1>4, <1>5 DEF NextParam

\* A page of a fetch is read.
LEMMA FetchReadsInv == RowsInv /\ FetchReads => RowsInv'
<1> SUFFICES ASSUME RowsInv, FetchReads PROVE RowsInv'
  OBVIOUS
<1> DEFINE page == PageAt(NextParam, PageSize)
           left == IF page.next = Null THEN 0 ELSE fetch.left - 1
           got == Append(fetch.got, page)
<1>1. /\ UNCHANGED <<rows, named, pages, pending, batch, again, lost, marred>>
      /\ fetch # Rest /\ fetch.left > 0
      /\ fetch' = [fetch EXCEPT !.got = Append(@, page), !.left = IF page.next = Null THEN 0 ELSE @ - 1]
  BY ZenonT(60) DEF FetchReads
<1>2. IsFetch(fetch) /\ rows \in [Keys -> Nat]
  BY ZenonT(60), <1>1 DEF RowsInv, TypeOK
<1>3. page \in Pages /\ Current(<<page>>, rows, Due)
  BY ZenonT(60), <1>2, NextParamType, PageAtRead
<1> HIDE DEF page
<1>4. /\ fetch \in [is : {"all", "next", "prev"}, old : Seq(Pages), got : Seq(Pages), left : Nat]
      /\ fetch.is # "all" => fetch.old # <<>>
  BY ZenonT(60), <1>2 DEF IsFetch
<1>5. got \in Seq(Pages) /\ got # <<>> /\ Current(got, rows, Due)
  <2>1. fetch.got \in Seq(Pages) /\ <<page>> \in Seq(Pages) /\ Current(fetch.got, rows, Due)
    BY SMTT(60), <1>1, <1>3, <1>4 DEF RowsInv, FetchDue
  <2>2. got = fetch.got \o <<page>> /\ got \in Seq(Pages) /\ got # <<>>
    BY SMTT(60), <1>3, <2>1
  <2> HIDE DEF got
  <2> QED BY ZenonT(60), <1>3, <2>1, <2>2, CurrentJoin
<1>6. left \in Nat
  BY SMTT(60), <1>1, <1>4
<1>7. fetch' = [fetch EXCEPT !.got = got, !.left = left]
  BY ZenonT(60), <1>1
<1> HIDE DEF got, left
<1>8. /\ fetch' \in [is : {"all", "next", "prev"}, old : Seq(Pages), got : Seq(Pages), left : Nat]
      /\ fetch'.is = fetch.is /\ fetch'.old = fetch.old /\ fetch'.got = got
  BY ZenonT(60), <1>4, <1>5, <1>6, <1>7
<1>9. IsFetch(fetch')
  BY ZenonT(60), <1>4, <1>5, <1>8 DEF IsFetch
<1>10. fetch' # Rest
  <2>1. fetch'.is \in {"all", "next", "prev"} /\ Rest.is = "rest"
    BY ZenonT(60), <1>8 DEF Rest
  <2> QED BY ZenonT(60), <2>1
<1>11. Due' = Due /\ Asked' = Asked /\ Whole' = Whole
  BY ZenonT(60), <1>1, <1>8, <1>10 DEF Due, Asked, Whole
<1>12. TypeOK' /\ OneRead'
  BY ZenonT(60), <1>1, <1>9, <1>11 DEF RowsInv, TypeOK, OneRead
<1>13. FetchDue'
  BY ZenonT(60), <1>1, <1>5, <1>8, <1>11 DEF FetchDue
<1>14. BatchDue' /\ AgainDue'
  BY ZenonT(60), <1>1, <1>11, KeptDue
<1>15. PagesDue'
  BY ZenonT(60), <1>1, <1>8, <1>10, <1>11 DEF RowsInv, PagesDue
<1> QED BY ZenonT(60), <1>12, <1>13, <1>14, <1>15 DEF RowsInv

\* The window a fetch leaves has the pages it read, and for a page fetched by
\* scrolling those it was put beside.
LEMMA WindowCurrent ==
  ASSUME NEW f, IsFetch(f), f.left = 0, NEW rs, NEW D, Current(f.got, rs, D),
         f.is # "all" => Current(f.old, rs, D)
  PROVE  Window(f) \in Seq(Pages) /\ Window(f) # <<>> /\ Current(Window(f), rs, D)
<1>1. /\ f.is \in {"all", "next", "prev"} /\ f.old \in Seq(Pages) /\ f.got \in Seq(Pages)
      /\ f.is # "all" => f.old # <<>>
      /\ f.got # <<>>
  BY ZenonT(60) DEF IsFetch
<1>2. MaxPages \in Nat \ {0}
  BY ZenonT(60), RowsAssumption
<1>3. ASSUME NEW ps \in Seq(Pages), ps # <<>>, Current(ps, rs, D)
      PROVE  /\ Tail(ps) \in Seq(Pages) /\ Front(ps) \in Seq(Pages)
             /\ Current(Tail(ps), rs, D) /\ Current(Front(ps), rs, D)
             /\ Len(ps) > MaxPages => Tail(ps) # <<>> /\ Front(ps) # <<>>
  <2>1. /\ Tail(ps) \in Seq(Pages) /\ Front(ps) \in Seq(Pages)
        /\ Current(Tail(ps), rs, D) /\ Current(Front(ps), rs, D)
    BY ZenonT(60), <1>3, CurrentPart
  <2>2. Len(Tail(ps)) = Len(ps) - 1 /\ Len(Front(ps)) = Len(ps) - 1 /\ Len(ps) \in Nat
    <3>1. Len(ps) \in Nat /\ Len(ps) - 1 \in 0 .. Len(ps)
      BY SMTT(60), <1>3
    <3>2. Len(Tail(ps)) = Len(ps) - 1
      BY SMTT(60), <1>3
    <3>3. Len(SubSeq(ps, 1, Len(ps) - 1)) = Len(ps) - 1
      <4>1. \A n \in 0 .. Len(ps) : Len(SubSeq(ps, 1, n)) = n
        BY SMTT(60), <1>3
      <4> QED BY ZenonT(60), <3>1, <4>1
    <3> QED BY ZenonT(60), <3>1, <3>2, <3>3 DEF Front
  <2>3. Len(ps) > MaxPages => Len(ps) - 1 > 0
    BY SMTT(60), <1>2, <2>2
  <2> HIDE DEF Front
  <2>4. Len(ps) > MaxPages => Tail(ps) # <<>> /\ Front(ps) # <<>>
    <3>1. Len(<<>>) = 0
      OBVIOUS
    <3>2. Len(ps) > MaxPages => Len(Tail(ps)) # 0 /\ Len(Front(ps)) # 0
      BY SMTT(60), <2>2, <2>3
    <3> QED BY ZenonT(60), <3>1, <3>2
  <2> QED BY ZenonT(60), <2>1, <2>4
<1>4. CASE f.is = "all"
  BY ZenonT(60), <1>1, <1>4 DEF Window
<1>5. CASE f.is = "next"
  <2> DEFINE ps == f.old \o f.got
  <2>1. ps \in Seq(Pages) /\ Current(ps, rs, D)
    BY ZenonT(60), <1>1, <1>5, CurrentJoin
  <2>2. ps # <<>>
    BY SMTT(60), <1>1
  <2>3. Window(f) = IF Len(ps) > MaxPages THEN Tail(ps) ELSE ps
    BY ZenonT(60), <1>5 DEF Window
  <2> HIDE DEF ps
  <2> QED BY ZenonT(60), <1>3, <2>1, <2>2, <2>3
<1>6. CASE f.is = "prev"
  <2> DEFINE ps == f.got \o f.old
  <2>1. ps \in Seq(Pages) /\ Current(ps, rs, D)
    BY ZenonT(60), <1>1, <1>6, CurrentJoin
  <2>2. ps # <<>>
    BY SMTT(60), <1>1
  <2>3. Window(f) = IF Len(ps) > MaxPages THEN Front(ps) ELSE ps
    BY SMTT(60), <1>6 DEF Window
  <2> HIDE DEF ps
  <2> QED BY SMTT(60), <1>3, <2>1, <2>2, <2>3
<1> QED BY ZenonT(60), <1>1, <1>4, <1>5, <1>6

\* The pages of a fetch land.
LEMMA FetchLandsInv == RowsInv /\ FetchLands => RowsInv'
<1> SUFFICES ASSUME RowsInv, FetchLands PROVE RowsInv'
  OBVIOUS
<1>1. /\ UNCHANGED <<rows, named, pending, batch, again, lost>> /\ fetch # Rest /\ fetch.left = 0
      /\ fetch' = Rest /\ pages' = Window(fetch) /\ marred \subseteq marred'
  BY ZenonT(60) DEF FetchLands, Draw
<1>2. IsFetch(fetch) /\ Current(fetch.got, rows, Due) /\ Due \in SUBSET Keys
  BY ZenonT(60), <1>1, ReadsOut DEF RowsInv, FetchDue
<1>3. Window(fetch) \in Seq(Pages) /\ Window(fetch) # <<>>
  <2>1. fetch.got \in Seq(Pages) /\ fetch.old \in Seq(Pages)
    BY ZenonT(60), <1>2 DEF IsFetch
  <2>2. Current(fetch.got, rows, Keys) /\ Current(fetch.old, rows, Keys)
    BY ZenonT(60), <2>1, CurrentAll
  <2> QED BY ZenonT(60), <1>1, <1>2, <2>2, WindowCurrent
<1>4. "crossed" \notin marred => Current(Window(fetch), rows, Due)
  <2>1. "crossed" \notin marred => (fetch.is # "all" => Current(fetch.old, rows, Due))
    BY ZenonT(60), <1>1 DEF RowsInv, PagesDue, Whole
  <2> QED BY ZenonT(60), <1>1, <1>2, <2>1, WindowCurrent
<1>5. Due' = Due /\ Asked' = Asked /\ ~Whole'
  BY ZenonT(60), <1>1 DEF Due, Asked, Whole
<1>6. TypeOK' /\ OneRead'
  BY ZenonT(60), <1>1, <1>3, <1>5 DEF RowsInv, TypeOK, OneRead
<1>7. FetchDue' /\ BatchDue' /\ AgainDue'
  BY ZenonT(60), <1>1, <1>5, KeptDue DEF FetchDue
<1>8. PagesDue'
  <2>1. Due \subseteq Due \cup Asked
    OBVIOUS
  <2> QED BY ZenonT(60), <1>1, <1>4, <1>5, <2>1, CurrentMore DEF PagesDue
<1> QED BY ZenonT(60), <1>6, <1>7, <1>8 DEF RowsInv

\* A fetch fails: after a whole read that was due, every key counts as lost.
LEMMA FetchFailsInv == RowsInv /\ FetchFails => RowsInv'
<1> SUFFICES ASSUME RowsInv, FetchFails PROVE RowsInv'
  OBVIOUS
<1>1. /\ UNCHANGED <<rows, named, pages, pending, batch, again, marred>> /\ fetch # Rest /\ pages # <<>>
      /\ fetch' = Rest /\ lost' = IF fetch.is = "all" THEN Keys ELSE lost
  BY ZenonT(60) DEF FetchFails
<1>2. pages \in Seq(Pages) /\ lost \in SUBSET Keys
  BY ZenonT(60) DEF RowsInv, TypeOK
<1>3. ~Whole' /\ Asked' = Asked /\ Due \subseteq Due'
  BY ZenonT(60), <1>1, <1>2 DEF Whole, Asked, Due
<1>4. TypeOK' /\ OneRead'
  BY ZenonT(60), <1>1, <1>2, <1>3 DEF RowsInv, TypeOK, OneRead
<1>5. FetchDue' /\ BatchDue' /\ AgainDue'
  BY ZenonT(60), <1>1, <1>3, KeptDue DEF FetchDue
<1>6. PagesDue'
  <2> SUFFICES ASSUME "crossed" \notin marred PROVE Current(pages, rows, Due' \cup Asked)
    BY ZenonT(60), <1>1, <1>3 DEF PagesDue
  <2>1. CASE Whole
    <3>1. Keys \subseteq Due' \cup Asked
      BY ZenonT(60), <1>1, <2>1 DEF Whole, Due
    <3> QED BY ZenonT(60), <1>2, <3>1, CurrentAll
  <2>2. CASE ~Whole
    <3>1. Current(pages, rows, Due \cup Asked)
      BY ZenonT(60), <2>2 DEF RowsInv, PagesDue
    <3> QED BY ZenonT(60), <1>3, <3>1, CurrentMore
  <2> QED BY ZenonT(60), <2>1, <2>2
<1> QED BY ZenonT(60), <1>4, <1>5, <1>6 DEF RowsInv

LEMMA RowsNext == RowsInv /\ [Next]_vars => RowsInv'
<1> SUFFICES ASSUME RowsInv, [Next]_vars PROVE RowsInv'
  OBVIOUS
<1>1. CASE \E k \in Keys : Change(k)
  BY ZenonT(60), <1>1, ChangeInv
<1>2. CASE LiveReset \/ applyKeys \/ FlushNothing \/ Flush
  BY SMTT(60), <1>2, LiveResetInv, applyKeysInv, FlushNothingInv, FlushInv
<1>3. CASE BatchRead \/ BatchLands \/ BatchFails
  BY ZenonT(60), <1>3, BatchReadInv, BatchLandsInv, BatchFailsInv
<1>4. CASE \E a \in again : HeadRead(a) \/ TailRead(a) \/ PageLands(a) \/ PageFails(a)
  BY ZenonT(60), <1>4, HeadReadInv, TailReadInv, PageLandsInv, PageFailsInv
<1>5. CASE loadMore \/ loadPrevious
  BY SMTT(60), <1>5, ScrollInv DEF loadMore, loadPrevious
<1>6. CASE FetchReads \/ FetchLands \/ FetchFails
  BY ZenonT(60), <1>6, FetchReadsInv, FetchLandsInv, FetchFailsInv
<1>7. CASE UNCHANGED vars
  <2>1. UNCHANGED <<rows, named, pages, fetch, pending, batch, again, lost, marred>>
    BY ZenonT(60), <1>7 DEF vars
  <2>2. Due' = Due /\ Asked' = Asked /\ Whole' = Whole
    BY ZenonT(60), <2>1 DEF Due, Asked, Whole
  <2> QED BY ZenonT(60), <2>1, <2>2 DEF RowsInv, TypeOK, OneRead, FetchDue, BatchDue, AgainDue, PagesDue
<1> QED BY SMTT(60), <1>1, <1>2, <1>3, <1>4, <1>5, <1>6, <1>7 DEF Next

\* Every row that was read, is loaded or is about to land is as the engine holds
\* it, or its key is named, waits, is being asked for or was given up, or the
\* window is being read whole; however the batches, single pages, scrolling,
\* failures and resets of use-cursor-rows.ts interleave.
THEOREM RowsInvariant == Spec => []RowsInv
<1>1. Init => RowsInv
  BY ZenonT(60), InitInv
<1>2. RowsInv /\ [Next]_vars => RowsInv'
  BY ZenonT(60), RowsNext
<1> QED BY <1>1, <1>2, PTL DEF Spec

\* Once everything a change named has been read again, no row of the table is out
\* of date or deleted, unless a read was given up or a page was fetched while a
\* batch was out.
THEOREM ShownIsCurrentAlways == Spec => []ShownIsCurrent
<1>1. RowsInv => ShownIsCurrent
  <2> SUFFICES ASSUME RowsInv, Quiet, "crossed" \notin marred, lost = {},
                      NEW i \in DOMAIN pages, NEW j \in DOMAIN pages[i].items
               PROVE  pages[i].items[j].version = rows[pages[i].items[j].key]
    BY ZenonT(60) DEF ShownIsCurrent
  <2>1. Due = {} /\ Asked = {} /\ ~Whole
    BY ZenonT(60) DEF Quiet, Due, Asked, Whole
  <2>2. Current(pages, rows, {})
    BY ZenonT(60), <2>1 DEF RowsInv, PagesDue
  <2>3. pages \in Seq(Pages)
    BY ZenonT(60) DEF RowsInv, TypeOK
  <2>4. i \in 1 .. Len(pages) /\ pages[i] \in Pages
    BY SMTT(60), <2>3
  <2>5. pages[i].items \in Seq(Item)
    BY ZenonT(60), <2>4, PageItems
  <2>6. j \in 1 .. Len(pages[i].items)
    BY SMTT(60), <2>5
  <2> QED BY ZenonT(60), <2>2, <2>4, <2>6 DEF Current, CurrentRows
<1> QED BY <1>1, RowsInvariant, PTL
=============================================================================
