---------------------------- MODULE ListenProofs ----------------------------
(***************************************************************************)
(* The views of a target and of a stream of targets.  A target refreshed    *)
(* from the keys that changed is the target evaluated afresh, for any keys, *)
(* documents, order values and windows.  On a Listen stream that is the     *)
(* target at the snapshot, and its batch leads from the old view to the new *)
(* one, although the task reads the store several times and commits come in *)
(* between.                                                                 *)
(***************************************************************************)
EXTENDS ListenInvariants, FiniteSetTheorems, TLAPS

(***************************************************************************)
(* Windows: the first n members of a finite set of keys under the query       *)
(* order, o giving the order value of each.                                   *)
(***************************************************************************)

Precedes(o, l, k) == Before(l, o[l], k, o[k])

Earlier(S, o, k) == {l \in S : Precedes(o, l, k)}
Rank(S, o, k) == Cardinality(Earlier(S, o, k))
Window(S, o, n) == {k \in S : Rank(S, o, k) < n}

\* Whatever precedes a member is a member.
Segment(Q, S, o) == Q \subseteq S /\ \A q \in Q : Earlier(S, o, q) \subseteq Q

Keyed(S, o) == S \subseteq Nat /\ IsFiniteSet(S) /\ \A k \in S : o[k] \in Nat

\* A non-empty set of naturals has a least element.
LEMMA LeastElement ==
    ASSUME NEW T, T \subseteq Nat, T # {}
    PROVE  \E x \in T : \A y \in T : x <= y
<1> DEFINE R == OpToRel(<, Nat)
<1>1. IsWellFoundedOn(R, Nat)
  BY ZenonT(60), NatLessThanWellFounded
<1>2. \E x \in T : \A y \in T : ~ (<<y, x>> \in R)
  <2> HIDE DEF R
  <2> QED BY ZenonT(60), <1>1, WFMin
<1>3. \A x, y \in Nat : x < y => <<x, y>> \in R
  BY ZenonT(60) DEF OpToRel
<1> HIDE DEF R
<1>4. PICK x \in T : \A y \in T : ~ (<<y, x>> \in R)
  BY ZenonT(60), <1>2
<1>5. \A y \in T : ~ (y < x)
  BY ZenonT(60), <1>3, <1>4
<1> QED BY SMTT(60), <1>5

\* compare is a strict total order: order values first, ties by key.
LEMMA TotalOrder ==
    ASSUME NEW S, NEW o, Keyed(S, o)
    PROVE  /\ \A k \in S : ~Precedes(o, k, k)
           /\ \A k, l \in S : k = l \/ Precedes(o, k, l) \/ Precedes(o, l, k)
           /\ \A k, l \in S : ~(Precedes(o, k, l) /\ Precedes(o, l, k))
           /\ \A k, l, m \in S : Precedes(o, k, l) /\ Precedes(o, l, m) => Precedes(o, k, m)
BY SMTT(60) DEF Keyed, Precedes, Before

\* What precedes a key is finite, and less precedes an earlier one.
LEMMA Ranks ==
    ASSUME NEW S, NEW o, Keyed(S, o)
    PROVE  /\ \A k \in S : IsFiniteSet(Earlier(S, o, k)) /\ Rank(S, o, k) \in Nat
           /\ \A k, l \in S : Precedes(o, k, l) => Rank(S, o, k) < Rank(S, o, l)
<1>1. \A k \in S : IsFiniteSet(Earlier(S, o, k)) /\ Rank(S, o, k) \in Nat
  <2> TAKE k \in S
  <2>1. Earlier(S, o, k) \in SUBSET S
    BY ZenonT(60) DEF Earlier
  <2> QED BY ZenonT(60), <2>1, FS_Subset, FS_CardinalityType DEF Keyed, Rank
<1>2. ASSUME NEW k \in S, NEW l \in S, Precedes(o, k, l)
      PROVE  Rank(S, o, k) < Rank(S, o, l)
  <2>1. Earlier(S, o, k) \cup {k} \in SUBSET Earlier(S, o, l)
    BY ZenonT(60), <1>2, TotalOrder DEF Earlier
  <2>2. k \notin Earlier(S, o, k)
    BY ZenonT(60), TotalOrder DEF Earlier
  <2>3. Cardinality(Earlier(S, o, k) \cup {k}) = Rank(S, o, k) + 1
    BY ZenonT(60), <1>1, <2>2, FS_AddElement DEF Rank
  <2>4. Cardinality(Earlier(S, o, k) \cup {k}) <= Rank(S, o, l)
    BY ZenonT(60), <1>1, <2>1, FS_Subset DEF Rank
  <2> QED BY SMTT(60), <1>1, <2>3, <2>4
<1> QED BY ZenonT(60), <1>1, <1>2

\* A window that is not empty has a last entry.
LEMMA LastExists ==
    ASSUME NEW S, NEW o, Keyed(S, o), S # {}
    PROVE  \E k \in S : \A l \in S \ {k} : Precedes(o, l, k)
<1>1. /\ Cardinality(S) \in Nat
      /\ \A k \in S : Rank(S, o, k) \in Nat /\ Rank(S, o, k) <= Cardinality(S)
  <2>1. \A k \in S : Earlier(S, o, k) \in SUBSET S
    BY ZenonT(60) DEF Earlier
  <2> QED BY ZenonT(60), <2>1, Ranks, FS_Subset, FS_CardinalityType DEF Keyed, Rank
<1> DEFINE T == {n \in Nat : \E k \in S : n = Cardinality(S) - Rank(S, o, k)}
<1>2. T # {}
  <2>1. PICK k \in S : TRUE
    OBVIOUS
  <2>2. Cardinality(S) - Rank(S, o, k) \in T
    BY SMTT(60), <1>1
  <2> QED BY ZenonT(60), <2>2
<1>3. PICK n \in T : \A m \in T : n <= m
  <2> HIDE DEF T
  <2>1. T \subseteq Nat
    BY ZenonT(60) DEF T
  <2> QED BY ZenonT(60), <1>2, <2>1, LeastElement
<1>4. PICK k \in S : n = Cardinality(S) - Rank(S, o, k)
  OBVIOUS
<1>5. \A l \in S : Rank(S, o, l) <= Rank(S, o, k)
  <2> TAKE l \in S
  <2>1. Cardinality(S) - Rank(S, o, l) \in T
    BY SMTT(60), <1>1
  <2> QED BY SMTT(60), <1>1, <1>3, <1>4, <2>1
<1>6. \A l \in S : ~Precedes(o, k, l)
  BY SMTT(60), <1>1, <1>5, Ranks
<1> QED BY ZenonT(60), <1>6, TotalOrder

\* The limit window is a segment; it has n members unless it is everything found.
LEMMA WindowSize ==
    ASSUME NEW S, NEW o, Keyed(S, o), NEW n \in Nat
    PROVE  LET R == Window(S, o, n)
           IN  /\ Segment(R, S, o) /\ IsFiniteSet(R) /\ Cardinality(R) \in Nat
               /\ Cardinality(R) <= n
               /\ R # S => Cardinality(R) = n
<1> DEFINE R == Window(S, o, n)
<1>1. R \in SUBSET S /\ IsFiniteSet(R) /\ Cardinality(R) \in Nat
  BY ZenonT(60), FS_Subset, FS_CardinalityType DEF Window, Keyed
<1>2. \A k \in R, l \in S : Precedes(o, l, k) => l \in R
  BY SMTT(60), Ranks DEF Window
<1>3. Segment(R, S, o)
  BY ZenonT(60), <1>1, <1>2 DEF Segment, Earlier
<1>4. Cardinality(R) <= n
  <2>1. CASE R = {}
    BY SMTT(60), <2>1, FS_EmptySet
  <2>2. CASE R # {}
    <3>1. Keyed(R, o)
      BY ZenonT(60), <1>1 DEF Keyed
    <3>2. PICK k \in R : \A l \in R \ {k} : Precedes(o, l, k)
      BY ZenonT(60), <2>2, <3>1, LastExists
    <3>3. R \ {k} \in SUBSET Earlier(S, o, k)
      BY ZenonT(60), <1>1, <3>2 DEF Earlier
    <3>4. Cardinality(R \ {k}) <= Rank(S, o, k)
      BY ZenonT(60), <1>1, <3>3, Ranks, FS_Subset DEF Rank
    <3>5. Cardinality(R \ {k}) = Cardinality(R) - 1
      BY ZenonT(60), <1>1, FS_RemoveElement
    <3>6. Rank(S, o, k) < n /\ Rank(S, o, k) \in Nat
      BY ZenonT(60), <1>1, Ranks DEF Window
    <3> QED BY SMTT(60), <1>1, <3>4, <3>5, <3>6
  <2> QED BY ZenonT(60), <2>1, <2>2
<1>5. ASSUME R # S
      PROVE  Cardinality(R) >= n
  <2> DEFINE T == {m \in Nat : \E k \in S \ R : m = Rank(S, o, k)}
  <2>1. T \subseteq Nat /\ T # {}
    <3>1. PICK k \in S : k \notin R
      BY ZenonT(60), <1>1, <1>5
    <3>2. Rank(S, o, k) \in T
      BY ZenonT(60), <3>1, Ranks
    <3> QED BY ZenonT(60), <3>2
  <2>2. PICK m \in T : \A j \in T : m <= j
    <3> HIDE DEF T
    <3> QED BY ZenonT(60), <2>1, LeastElement
  <2>3. PICK k \in S \ R : m = Rank(S, o, k)
    OBVIOUS
  <2>4. m \in Nat /\ m >= n
    BY SMTT(60), <2>3, Ranks DEF Window
  <2>5. Earlier(S, o, k) \in SUBSET R
    <3> SUFFICES ASSUME NEW l \in S, Precedes(o, l, k), l \notin R
                 PROVE  FALSE
      BY ZenonT(60) DEF Earlier
    <3>1. Rank(S, o, l) \in T
      BY ZenonT(60), Ranks
    <3>2. Rank(S, o, l) < Rank(S, o, k) /\ Rank(S, o, l) \in Nat
      BY ZenonT(60), Ranks
    <3> QED BY SMTT(60), <2>2, <2>3, <2>4, <3>1, <3>2
  <2>6. Rank(S, o, k) <= Cardinality(R)
    BY ZenonT(60), <1>1, <2>5, FS_Subset DEF Rank
  <2> QED BY SMTT(60), <1>1, <2>3, <2>4, <2>6
<1> QED BY SMTT(60), <1>1, <1>3, <1>4, <1>5

\* No other set is a segment of that size: what apply_touched must keep of a
\* window to have the window.
LEMMA WindowUnique ==
    ASSUME NEW S, NEW o, Keyed(S, o), NEW n \in Nat, NEW Q, Segment(Q, S, o),
           Cardinality(Q) = n \/ (Q = S /\ Cardinality(Q) <= n)
    PROVE  Q = Window(S, o, n)
<1>1. Q \in SUBSET S /\ IsFiniteSet(Q) /\ Cardinality(Q) \in Nat
  BY ZenonT(60), FS_Subset, FS_CardinalityType DEF Segment, Keyed
<1>2. ASSUME NEW q \in Q
      PROVE  Rank(S, o, q) < n
  <2>1. Earlier(S, o, q) \in SUBSET (Q \ {q})
    BY SMTT(60), <1>1, TotalOrder DEF Segment, Earlier
  <2>2. IsFiniteSet(Q \ {q}) /\ Cardinality(Q \ {q}) = Cardinality(Q) - 1
    BY ZenonT(60), <1>1, FS_RemoveElement
  <2>3. Rank(S, o, q) <= Cardinality(Q \ {q})
    BY ZenonT(60), <2>1, <2>2, FS_Subset DEF Rank
  <2> QED BY SMTT(60), <1>1, <2>2, <2>3, Ranks
<1>3. ASSUME NEW x \in S \ Q
      PROVE  Rank(S, o, x) >= n
  <2>1. Q \in SUBSET Earlier(S, o, x)
    BY ZenonT(60), <1>1, TotalOrder DEF Segment, Earlier
  <2>2. Cardinality(Q) <= Rank(S, o, x)
    BY ZenonT(60), <2>1, Ranks, FS_Subset DEF Rank
  <2> QED BY ZenonT(60), <2>2
<1>4. \A x \in S \ Q : Rank(S, o, x) \in Nat
  BY ZenonT(60), Ranks
<1> QED BY SMTT(60), <1>1, <1>2, <1>3, <1>4 DEF Window

\* last_in_window is the entry that all others of the window precede.
LEMMA LastInWindow ==
    ASSUME NEW R, NEW o \in [R -> Nat], R \subseteq Nat, IsFiniteSet(R), R # {}
    PROVE  LET last == last_in_window(o)
           IN  last \in R /\ \A l \in R \ {last} : Precedes(o, l, last)
<1>1. \E k \in DOMAIN o : \A l \in DOMAIN o \ {k} : Before(l, o[l], k, o[k])
  BY ZenonT(60), LastExists DEF Keyed, Precedes
<1> QED BY ZenonT(60), <1>1 DEF last_in_window, Precedes

(***************************************************************************)
(* One key changes: S and o become S2 and o2, which differ from them at k     *)
(* only.                                                                      *)
(***************************************************************************)

ChangesAt(k, S, o, S2, o2) ==
    /\ Keyed(S, o) /\ Keyed(S2, o2)
    /\ S2 \ {k} = S \ {k}
    /\ \A l \in S \ {k} : o2[l] = o[l]

\* A window with room holds everything found, before and after.
LEMMA WindowWithRoom ==
    ASSUME NEW k, NEW S, NEW o, NEW S2, NEW o2, ChangesAt(k, S, o, S2, o2), NEW n \in Nat,
           Cardinality(Window(S, o, n)) < n
    PROVE  Window(S, o, n) = S /\ Window(S2, o2, n) = S2
<1>1. Window(S, o, n) = S /\ Cardinality(S) \in Nat /\ Cardinality(S) < n
  BY SMTT(60), WindowSize DEF ChangesAt
<1>2. S2 \in SUBSET (S \cup {k}) /\ IsFiniteSet(S) /\ IsFiniteSet(S2)
  BY ZenonT(60) DEF ChangesAt, Keyed
<1>3. Cardinality(S2) <= n
  <2>1. IsFiniteSet(S \cup {k}) /\ Cardinality(S \cup {k}) <= n
    <3>1. /\ IsFiniteSet(S \cup {k})
          /\ Cardinality(S \cup {k}) = IF k \in S THEN Cardinality(S) ELSE Cardinality(S) + 1
      BY ZenonT(60), <1>2, FS_AddElement
    <3> QED BY SMTT(60), <1>1, <3>1
  <2>2. Cardinality(S2) <= Cardinality(S \cup {k})
    BY ZenonT(60), <1>2, <2>1, FS_Subset
  <2> QED BY SMTT(60), <1>2, <2>1, <2>2, FS_CardinalityType
<1>4. Segment(S2, S2, o2)
  BY ZenonT(60) DEF Segment, Earlier
<1> QED BY ZenonT(60), <1>1, <1>3, <1>4, WindowUnique DEF ChangesAt

\* A key outside the window that is gone, or that the last entry precedes, leaves
\* a full window as it is.
LEMMA WindowUndisturbed ==
    ASSUME NEW k, NEW S, NEW o, NEW S2, NEW o2, ChangesAt(k, S, o, S2, o2), NEW n \in Nat,
           k \notin Window(S, o, n), Cardinality(Window(S, o, n)) = n,
           k \in S2 => \A l \in Window(S, o, n) : Precedes(o2, l, k)
    PROVE  Window(S2, o2, n) = Window(S, o, n)
<1> DEFINE R == Window(S, o, n)
<1>1. R \subseteq S /\ Segment(R, S, o) /\ k \notin R
  BY ZenonT(60), WindowSize DEF ChangesAt, Window
<1>2. \A q \in R, x \in S \ {k} : Precedes(o2, x, q) <=> Precedes(o, x, q)
  BY ZenonT(60), <1>1 DEF ChangesAt, Precedes
<1>3. Segment(R, S2, o2)
  <2> SUFFICES ASSUME NEW q \in R, NEW x \in S2, Precedes(o2, x, q)
               PROVE  x \in R
    BY ZenonT(60), <1>1 DEF Segment, Earlier, ChangesAt
  <2>1. q \in S2
    BY ZenonT(60), <1>1 DEF ChangesAt
  <2>2. x # k
    BY SMTT(60), <2>1, TotalOrder DEF ChangesAt
  <2> QED BY ZenonT(60), <1>1, <1>2, <2>2 DEF Segment, Earlier, ChangesAt
<1> HIDE DEF R
<1>4. R = Window(S2, o2, n)
  BY ZenonT(60), <1>3, WindowUnique DEF ChangesAt, R
<1> QED BY ZenonT(60), <1>4 DEF R

\* A key that precedes the last entry of a full window takes its place.
LEMMA WindowEvicts ==
    ASSUME NEW k, NEW S, NEW o, NEW S2, NEW o2, ChangesAt(k, S, o, S2, o2), NEW n \in Nat,
           k \notin Window(S, o, n), Cardinality(Window(S, o, n)) = n, k \in S2,
           NEW last \in Window(S, o, n),
           \A l \in Window(S, o, n) \ {last} : Precedes(o, l, last),
           Precedes(o2, k, last)
    PROVE  Window(S2, o2, n) = (Window(S, o, n) \cup {k}) \ {last}
<1> DEFINE R == Window(S, o, n)
           Q == (R \cup {k}) \ {last}
<1>1. R \subseteq S /\ Segment(R, S, o) /\ k \notin R /\ IsFiniteSet(R) /\ last \in R
  BY SMTT(60), WindowSize DEF ChangesAt, Window
<1>2. \A q, x \in S \ {k} : Precedes(o2, x, q) <=> Precedes(o, x, q)
  BY ZenonT(60) DEF ChangesAt, Precedes
<1>3. Cardinality(Q) = n
  <2>1. IsFiniteSet(R \cup {k}) /\ Cardinality(R \cup {k}) = n + 1
    BY SMTT(60), <1>1, FS_AddElement
  <2>2. last \in R \cup {k}
    BY ZenonT(60), <1>1
  <2>3. Cardinality(Q) = Cardinality(R \cup {k}) - 1
    BY ZenonT(60), <2>1, <2>2, FS_RemoveElement
  <2> QED BY SMTT(60), <2>1, <2>3
<1>4. Segment(Q, S2, o2)
  <2>1. Q \subseteq S2
    BY ZenonT(60), <1>1 DEF ChangesAt
  <2> SUFFICES ASSUME NEW q \in Q, NEW x \in S2, Precedes(o2, x, q)
               PROVE  x \in Q
    BY ZenonT(60), <2>1 DEF Segment, Earlier
  <2>2. last \in S2 /\ last \in S \ {k}
    BY ZenonT(60), <1>1 DEF ChangesAt
  <2>3. Precedes(o2, q, last)
    <3>1. CASE q = k
      BY ZenonT(60), <3>1
    <3>2. CASE q # k
      BY ZenonT(60), <1>1, <1>2, <2>2, <3>2
    <3> QED BY ZenonT(60), <3>1, <3>2
  <2>4. Precedes(o2, x, last)
    BY SMTT(60), <2>1, <2>2, <2>3, TotalOrder DEF ChangesAt
  <2>5. x # last
    BY SMTT(60), <2>2, <2>4, TotalOrder DEF ChangesAt
  <2>6. CASE x = k
    BY ZenonT(60), <2>5, <2>6
  <2>7. CASE x # k
    <3>1. x \in S \ {k}
      BY ZenonT(60), <2>7 DEF ChangesAt
    <3>2. Precedes(o, x, last)
      BY ZenonT(60), <1>2, <2>2, <2>4, <3>1
    <3>3. x \in R
      BY ZenonT(60), <1>1, <3>1, <3>2 DEF Segment, Earlier
    <3> QED BY ZenonT(60), <2>5, <3>3
  <2> QED BY ZenonT(60), <2>6, <2>7
<1> HIDE DEF Q
<1>5. Q = Window(S2, o2, n)
  BY ZenonT(60), <1>3, <1>4, WindowUnique DEF ChangesAt
<1> QED BY ZenonT(60), <1>5 DEF Q

(***************************************************************************)
(* The results of a query that is refreshed from changed keys.               *)
(***************************************************************************)

Followed(spec) == spec \in TargetSpec /\ spec.kind = "Query" /\ Incremental(spec)

Found(spec, docs) == {k \in spec.keys : Matches(spec, docs[k])}
OrderOf(docs) == [k \in Keys |-> IF docs[k] = Absent THEN 0 ELSE docs[k].order]

\* What is found is finite, of keys and documents.
LEMMA FoundFacts ==
    ASSUME NEW spec \in TargetSpec, NEW docs \in Documents
    PROVE  /\ Keyed(Found(spec, docs), OrderOf(docs))
           /\ \A k \in Found(spec, docs) :
                k \in Keys /\ docs[k] \in Document /\ OrderOf(docs)[k] = docs[k].order
<1>1. spec.keys \in SUBSET Keys /\ Found(spec, docs) \in SUBSET Keys
  BY ZenonT(60) DEF TargetSpec, Found
<1>2. \A k \in Found(spec, docs) :
        k \in Keys /\ docs[k] \in Document /\ OrderOf(docs)[k] = docs[k].order
  BY ZenonT(60), <1>1 DEF Found, Matches, OrderOf, Documents
<1>3. IsFiniteSet(Found(spec, docs)) /\ Found(spec, docs) \subseteq Nat
  BY ZenonT(60), <1>1, KeysAssumption, FS_Subset
<1>4. \A k \in Found(spec, docs) : OrderOf(docs)[k] \in Nat
  BY ZenonT(60), <1>2, OrdersAssumption DEF Document
<1> QED BY ZenonT(60), <1>2, <1>3, <1>4 DEF Keyed

\* Without an offset the results are what is found, or the window of the limit.
LEMMA ResultsWindow ==
    ASSUME NEW spec, Followed(spec), NEW docs \in Documents
    PROVE  /\ spec.limit = "None" \/ spec.limit = "First"
           /\ spec.size \in Nat
           /\ spec.limit = "None" => Results(spec, docs) = Found(spec, docs)
           /\ spec.limit = "First" =>
                Results(spec, docs) = Window(Found(spec, docs), OrderOf(docs), spec.size)
<1> DEFINE S == Found(spec, docs)
           o == OrderOf(docs)
           rank(k) == Cardinality({l \in S : Before(l, docs[l].order, k, docs[k].order)})
<1>1. /\ spec \in TargetSpec /\ spec.offset = 0 /\ spec.kind = "Query"
      /\ spec.limit = "None" \/ spec.limit = "First"
      /\ spec.size \in Nat
  BY ZenonT(60) DEF Followed, Incremental, TargetSpec
<1>2. /\ Keyed(S, o)
      /\ \A k \in S : k \in Keys /\ o[k] = docs[k].order
  BY ZenonT(60), <1>1, FoundFacts
<1>3. \A k \in S : rank(k) = Rank(S, o, k) /\ rank(k) \in Nat
  <2> TAKE k \in S
  <2>1. {l \in S : Before(l, docs[l].order, k, docs[k].order)} = Earlier(S, o, k)
    BY ZenonT(60), <1>2 DEF Earlier, Precedes
  <2> QED BY ZenonT(60), <1>2, <2>1, Ranks DEF Rank
<1>4. Results(spec, docs) =
        {k \in S : /\ rank(k) >= 0
                   /\ spec.limit = "First" => rank(k) < 0 + spec.size
                   /\ spec.limit = "Last" => rank(k) + spec.size >= Cardinality(S)}
  BY ZenonT(60), <1>1 DEF Results, Found
<1> HIDE DEF rank, S, o
<1>5. spec.limit = "None" => Results(spec, docs) = S
  BY SMTT(60), <1>3, <1>4
<1>6. spec.limit = "First" => Results(spec, docs) = Window(S, o, spec.size)
  BY SMTT(60), <1>1, <1>3, <1>4 DEF Window
<1> QED BY ZenonT(60), <1>1, <1>5, <1>6 DEF S, o

\* Two contents of the scope that differ at k only.
DifferAt(k, spec, old, new) ==
    /\ old \in Documents /\ new \in Documents /\ k \in spec.keys
    /\ \A l \in spec.keys \ {k} : new[l] = old[l]

\* What is found before and after differs at that key only.
LEMMA FoundChanges ==
    ASSUME NEW spec \in TargetSpec, NEW k, NEW old, NEW new, DifferAt(k, spec, old, new)
    PROVE  /\ ChangesAt(k, Found(spec, old), OrderOf(old), Found(spec, new), OrderOf(new))
           /\ k \in Found(spec, new) <=> Matches(spec, new[k])
<1>1. Keyed(Found(spec, old), OrderOf(old)) /\ Keyed(Found(spec, new), OrderOf(new))
  BY ZenonT(60), FoundFacts DEF DifferAt
<1>2. Found(spec, new) \ {k} = Found(spec, old) \ {k}
  BY SMTT(60) DEF DifferAt, Found
<1>3. \A l \in Found(spec, old) \ {k} : OrderOf(new)[l] = OrderOf(old)[l]
  <2> TAKE l \in Found(spec, old) \ {k}
  <2>1. l \in Keys /\ new[l] = old[l]
    BY ZenonT(60), FoundFacts DEF DifferAt, Found
  <2> QED BY ZenonT(60), <2>1 DEF OrderOf
<1> QED BY ZenonT(60), <1>1, <1>2, <1>3 DEF ChangesAt, DifferAt, Found

\* The window TouchQuery takes for full.
Full(spec, R) == spec.limit = "First" /\ Cardinality(R) >= spec.size

\* Where there is room the results are all that is found, before and after.
LEMMA ResultsWithRoom ==
    ASSUME NEW spec, Followed(spec), NEW k, NEW old, NEW new, DifferAt(k, spec, old, new),
           ~Full(spec, Results(spec, old))
    PROVE  Results(spec, old) = Found(spec, old) /\ Results(spec, new) = Found(spec, new)
<1>1. spec \in TargetSpec /\ old \in Documents /\ new \in Documents
  BY ZenonT(60) DEF Followed, DifferAt
<1>2. CASE spec.limit = "None"
  BY ZenonT(60), <1>1, <1>2, ResultsWindow
<1>3. CASE spec.limit = "First"
  <2>1. /\ spec.size \in Nat
        /\ Results(spec, old) = Window(Found(spec, old), OrderOf(old), spec.size)
        /\ Results(spec, new) = Window(Found(spec, new), OrderOf(new), spec.size)
    BY ZenonT(60), <1>1, <1>3, ResultsWindow
  <2>2. ChangesAt(k, Found(spec, old), OrderOf(old), Found(spec, new), OrderOf(new))
    BY ZenonT(60), <1>1, FoundChanges
  <2>3. Cardinality(Results(spec, old)) \in Nat
    BY SMTT(60), <2>1, <2>2, WindowSize DEF ChangesAt
  <2>4. Cardinality(Results(spec, old)) < spec.size
    BY SMTT(60), <1>3, <2>1, <2>3 DEF Full
  <2> QED BY SMTT(60), <2>1, <2>2, <2>4, WindowWithRoom
<1> QED BY ZenonT(60), <1>1, <1>2, <1>3, ResultsWindow

\* A full window is the window of the limit, of that size.
LEMMA FullWindow ==
    ASSUME NEW spec, Followed(spec), NEW k, NEW old, NEW new, DifferAt(k, spec, old, new),
           Full(spec, Results(spec, old))
    PROVE  /\ spec \in TargetSpec /\ spec.size \in Nat
           /\ Results(spec, old) = Window(Found(spec, old), OrderOf(old), spec.size)
           /\ Results(spec, new) = Window(Found(spec, new), OrderOf(new), spec.size)
           /\ Cardinality(Results(spec, old)) = spec.size
           /\ IsFiniteSet(Results(spec, old))
<1>1. spec \in TargetSpec /\ old \in Documents /\ new \in Documents /\ spec.limit = "First"
  BY ZenonT(60) DEF Followed, DifferAt, Full
<1>2. /\ spec.size \in Nat
      /\ Results(spec, old) = Window(Found(spec, old), OrderOf(old), spec.size)
      /\ Results(spec, new) = Window(Found(spec, new), OrderOf(new), spec.size)
  BY ZenonT(60), <1>1, ResultsWindow
<1>3. Keyed(Found(spec, old), OrderOf(old))
  BY ZenonT(60), <1>1, FoundFacts
<1>4. /\ Cardinality(Results(spec, old)) \in Nat /\ Cardinality(Results(spec, old)) <= spec.size
      /\ IsFiniteSet(Results(spec, old))
  BY SMTT(60), <1>2, <1>3, WindowSize
<1> QED BY SMTT(60), <1>1, <1>2, <1>4 DEF Full

\* The results are found documents, and their sort keys those the view caches.
LEMMA ResultsFound ==
    ASSUME NEW spec, Followed(spec), NEW docs \in Documents
    PROVE  /\ Results(spec, docs) \subseteq Found(spec, docs)
           /\ IsFiniteSet(Results(spec, docs))
           /\ Results(spec, docs) \subseteq Nat
           /\ \A k \in Results(spec, docs) :
                /\ k \in spec.keys /\ k \in Keys /\ docs[k] \in Document
                /\ docs[k].order \in Nat /\ OrderOf(docs)[k] = docs[k].order
<1>1. spec \in TargetSpec
  BY ZenonT(60) DEF Followed
<1>2. Results(spec, docs) \in SUBSET Found(spec, docs)
  BY ZenonT(60), ResultsWindow DEF Window
<1>3. /\ Keyed(Found(spec, docs), OrderOf(docs))
      /\ \A k \in Found(spec, docs) :
           k \in Keys /\ docs[k] \in Document /\ OrderOf(docs)[k] = docs[k].order
  BY ZenonT(60), <1>1, FoundFacts
<1>4. IsFiniteSet(Results(spec, docs)) /\ Results(spec, docs) \subseteq Nat
  BY ZenonT(60), <1>2, <1>3, FS_Subset DEF Keyed
<1> QED BY ZenonT(60), <1>2, <1>3, <1>4 DEF Keyed, Found

\* Enters, in a full window: the document takes the place of the last entry when
\* it precedes it, and stays out when it does not.
LEMMA FullEnters ==
    ASSUME NEW spec, Followed(spec), NEW k, NEW old, NEW new, DifferAt(k, spec, old, new),
           Full(spec, Results(spec, old)), k \notin Results(spec, old), Matches(spec, new[k]),
           Results(spec, old) # {}
    PROVE  LET R == Results(spec, old)
               last == last_in_window([l \in R |-> old[l].order])
           IN  /\ last \in R
               /\ Results(spec, new) =
                    IF Before(k, new[k].order, last, old[last].order) THEN (R \cup {k}) \ {last} ELSE R
<1> DEFINE R == Results(spec, old)
           c == [l \in R |-> old[l].order]
           last == last_in_window(c)
           S == Found(spec, old)
           o == OrderOf(old)
           S2 == Found(spec, new)
           o2 == OrderOf(new)
           n == spec.size
<1>1. /\ spec \in TargetSpec /\ n \in Nat /\ R = Window(S, o, n) /\ Results(spec, new) = Window(S2, o2, n)
      /\ Cardinality(R) = n /\ IsFiniteSet(R) /\ R # {} /\ k \notin R
  BY ZenonT(60), FullWindow
<1>2. ChangesAt(k, S, o, S2, o2) /\ k \in S2
  BY ZenonT(60), <1>1, FoundChanges
<1>3. R \subseteq S /\ R \subseteq Nat /\ \A l \in R : old[l].order \in Nat /\ o[l] = old[l].order
  BY SMTT(60), ResultsFound DEF DifferAt
<1>4. c \in [R -> Nat] /\ \A l \in R : c[l] = o[l]
  BY ZenonT(60), <1>3
<1>5. last \in R /\ \A l \in R \ {last} : Precedes(o, l, last)
  <2> HIDE DEF R, c
  <2>1. last \in R /\ \A l \in R \ {last} : Precedes(c, l, last)
    BY SMTT(60), <1>1, <1>3, <1>4, LastInWindow
  <2> QED BY ZenonT(60), <1>4, <2>1 DEF Precedes
<1>6. o2[k] = new[k].order /\ o2[last] = old[last].order /\ last \in S2 /\ last # k
  <2>1. o2[k] = new[k].order
    BY ZenonT(60), <1>1, <1>2, FoundFacts DEF DifferAt
  <2> QED BY ZenonT(60), <1>1, <1>2, <1>3, <1>5, <2>1 DEF ChangesAt
<1> HIDE DEF R, c, last, S, o, S2, o2, n
<1>7. CASE Before(k, new[k].order, last, old[last].order)
  <2>1. Precedes(o2, k, last)
    BY ZenonT(60), <1>6, <1>7 DEF Precedes
  <2> QED BY SMTT(60), <1>1, <1>2, <1>5, <1>7, <2>1, WindowEvicts DEF R, c, last
<1>8. CASE ~Before(k, new[k].order, last, old[last].order)
  <2>1. Precedes(o2, last, k)
    BY ZenonT(60), <1>2, <1>6, <1>8, TotalOrder DEF Precedes, ChangesAt
  <2>2. \A l \in R : Precedes(o2, l, k)
    <3> TAKE l \in R
    <3>1. CASE l = last
      BY ZenonT(60), <2>1, <3>1
    <3>2. CASE l # last
      <4>1. l \in S2 /\ Precedes(o2, l, last)
        BY ZenonT(60), <1>1, <1>2, <1>3, <1>5, <1>6, <3>2 DEF ChangesAt, Precedes
      <4> QED BY ZenonT(60), <1>2, <1>6, <2>1, <4>1, TotalOrder DEF ChangesAt
    <3> QED BY ZenonT(60), <3>1, <3>2
  <2>3. Results(spec, new) = R
    BY SMTT(60), <1>1, <1>2, <2>2, WindowUndisturbed
  <2> QED BY ZenonT(60), <1>5, <1>8, <2>3 DEF R, c, last
<1> QED BY ZenonT(60), <1>7, <1>8 DEF R, c, last

\* A document outside a full window that no longer matches is of no account.
LEMMA FullMisses ==
    ASSUME NEW spec, Followed(spec), NEW k, NEW old, NEW new, DifferAt(k, spec, old, new),
           Full(spec, Results(spec, old)), k \notin Results(spec, old), ~Matches(spec, new[k])
    PROVE  Results(spec, new) = Results(spec, old)
<1>1. spec \in TargetSpec
  BY ZenonT(60), FullWindow
<1>2. /\ ChangesAt(k, Found(spec, old), OrderOf(old), Found(spec, new), OrderOf(new))
      /\ k \notin Found(spec, new)
  BY ZenonT(60), <1>1, FoundChanges
<1> QED BY SMTT(60), <1>2, FullWindow, WindowUndisturbed

\* Stays, in a full window: a rewrite that keeps the sort key moves nothing.
LEMMA FullStays ==
    ASSUME NEW spec, Followed(spec), NEW k, NEW old, NEW new, DifferAt(k, spec, old, new),
           Full(spec, Results(spec, old)), k \in Results(spec, old), Matches(spec, new[k]),
           new[k].order = old[k].order
    PROVE  Results(spec, new) = Results(spec, old)
<1> DEFINE S == Found(spec, old)
           o == OrderOf(old)
           o2 == OrderOf(new)
<1>1. /\ spec \in TargetSpec /\ spec.size \in Nat
      /\ Results(spec, old) = Window(S, o, spec.size)
      /\ Results(spec, new) = Window(Found(spec, new), o2, spec.size)
  BY ZenonT(60), FullWindow
<1>2. ChangesAt(k, S, o, Found(spec, new), o2) /\ k \in Found(spec, new) /\ k \in S
  BY ZenonT(60), <1>1, FoundChanges, ResultsFound DEF DifferAt
<1>3. Found(spec, new) = S
  BY SMTT(60), <1>2 DEF ChangesAt
<1>4. o2[k] = o[k]
  BY ZenonT(60), <1>1, <1>2, FoundFacts DEF DifferAt
<1>5. \A l \in S : o2[l] = o[l]
  BY ZenonT(60), <1>2, <1>4 DEF ChangesAt
<1> HIDE DEF S, o, o2
<1>6. \A l \in S : Earlier(S, o2, l) = Earlier(S, o, l)
  BY ZenonT(60), <1>5 DEF Earlier, Precedes
<1> QED BY ZenonT(60), <1>1, <1>3, <1>6 DEF Window, Rank

(***************************************************************************)
(* One touched key.                                                         *)
(***************************************************************************)

SortKeys(R, docs) == [k \in R |-> docs[k].order]

\* The work of apply_touched when its view is exact at docs.
ExactWork(spec, docs, changes) ==
    [documents |-> Shown(Results(spec, docs), docs),
     order_keys |-> SortKeys(Results(spec, docs), docs),
     changes |-> changes, incremental |-> TRUE]

\* The changes of one key take a client from one view to the next, and say what
\* is stored.
Says(added, docs, from, to) ==
    /\ \/ added = <<>> /\ to = from
       \/ \E x \in Change : added = <<x>> /\ to = Heeded(from, x)
       \/ \E x, y \in Change : added = <<x, y>> /\ to = Heeded(Heeded(from, x), y)
    /\ \A i \in 1..Len(added) :
         /\ added[i].kind = "Delete" => docs[added[i].key] = Absent
         /\ added[i].kind = "Upsert" => added[i].document = docs[added[i].key]

\* The single changes that a view emits.
LEMMA ChangeFacts ==
    ASSUME NEW k \in Keys, NEW docs \in Documents
    PROVE  /\ Gone(k, docs) \in Change /\ Gone(k, docs).key = k
           /\ Gone(k, docs).kind # "Upsert"
           /\ Gone(k, docs).kind = "Delete" => docs[k] = Absent
           /\ docs[k] # Absent => Upsert(k, docs[k]) \in Change
           /\ Upsert(k, docs[k]).key = k /\ Upsert(k, docs[k]).kind = "Upsert"
           /\ Upsert(k, docs[k]).document = docs[k]
BY ZenonT(60) DEF Gone, Upsert, Change, Documents

\* A change at the end of the list.
LEMMA Appended ==
    ASSUME NEW changes \in Seq(Change), NEW x \in Change
    PROVE  Append(changes, x) = changes \o <<x>> /\ Append(changes, x) \in Seq(Change)
BY SMTT(60)

\* One change, or none.
LEMMA SaysNothing ==
    ASSUME NEW docs, NEW d
    PROVE  Says(<<>>, docs, d, d)
BY SMTT(60) DEF Says

\* A document is put in the view.
LEMMA SaysUpsert ==
    ASSUME NEW k \in Keys, NEW docs \in Documents, docs[k] # Absent, NEW d
    PROVE  Says(<<Upsert(k, docs[k])>>, docs, d, With(d, k, docs[k]))
<1> DEFINE x == Upsert(k, docs[k])
<1>1. x \in Change /\ x.key = k /\ x.kind = "Upsert" /\ x.document = docs[k]
  BY SMTT(60), ChangeFacts
<1> HIDE DEF x
<1>2. With(d, k, docs[k]) = Heeded(d, x)
  BY ZenonT(60), <1>1 DEF Heeded
<1> QED BY SMTT(60), <1>1, <1>2 DEF Says, x

\* A document leaves the view.
LEMMA SaysGone ==
    ASSUME NEW k \in Keys, NEW docs \in Documents, NEW d
    PROVE  Says(<<Gone(k, docs)>>, docs, d, Without(d, k))
<1> DEFINE x == Gone(k, docs)
<1>1. x \in Change /\ x.key = k /\ x.kind # "Upsert" /\ (x.kind = "Delete" => docs[k] = Absent)
  BY SMTT(60), ChangeFacts
<1> HIDE DEF x
<1>2. Without(d, k) = Heeded(d, x)
  BY ZenonT(60), <1>1 DEF Heeded
<1> QED BY SMTT(60), <1>1, <1>2 DEF Says, x

\* A document takes the place of the last entry.
LEMMA SaysEvicted ==
    ASSUME NEW k \in Keys, NEW last \in Keys, NEW docs \in Documents, docs[k] # Absent, NEW d
    PROVE  Says(<<[key |-> last, kind |-> "Remove", document |-> Absent], Upsert(k, docs[k])>>,
                docs, d, With(Without(d, last), k, docs[k]))
<1> DEFINE x == [key |-> last, kind |-> "Remove", document |-> Absent]
           y == Upsert(k, docs[k])
<1>1. x \in Change /\ x.key = last /\ x.kind = "Remove"
  BY ZenonT(60) DEF Change
<1>2. y \in Change /\ y.key = k /\ y.kind = "Upsert" /\ y.document = docs[k]
  BY SMTT(60), ChangeFacts
<1> HIDE DEF x, y
<1>3. With(Without(d, last), k, docs[k]) = Heeded(Heeded(d, x), y)
  BY ZenonT(60), <1>1, <1>2 DEF Heeded
<1>4. \A i \in 1..Len(<<x, y>>) : <<x, y>>[i] = x \/ <<x, y>>[i] = y
  BY SMTT(60)
<1> QED BY ZenonT(60), <1>1, <1>2, <1>3, <1>4 DEF Says, x, y

\* What a touched key leads to: a full evaluation, or the exact view at the new
\* content with changes that lead there.
Led(v, spec, old, new, docs, changes) ==
    \/ v.incremental = FALSE
    \/ \E added \in Seq(Change) :
         /\ v = ExactWork(spec, new, changes \o added)
         /\ Says(added, docs, Shown(Results(spec, old), old), Shown(Results(spec, new), new))

\* Enters: a document that was not visible and matches now.
LEMMA EntersExact ==
    ASSUME NEW spec, Followed(spec), NEW k, NEW old, NEW new, DifferAt(k, spec, old, new),
           NEW docs \in Documents, docs[k] = new[k], NEW changes \in Seq(Change),
           k \notin Results(spec, old), Matches(spec, docs[k])
    PROVE  Led(Enters(ExactWork(spec, old, changes), k, docs, Full(spec, Results(spec, old))),
               spec, old, new, docs, changes)
<1> DEFINE R == Results(spec, old)
           d == Shown(R, old)
           c == SortKeys(R, old)
           w == ExactWork(spec, old, changes)
           x == Upsert(k, docs[k])
<1>1. k \in Keys /\ docs[k] # Absent /\ x \in Change /\ old \in Documents /\ new \in Documents
      /\ k \in spec.keys /\ \A l \in spec.keys \ {k} : new[l] = old[l]
  BY ZenonT(60), ChangeFacts DEF DifferAt, Followed, TargetSpec, Matches
<1>2. /\ w.documents = d /\ w.order_keys = c /\ w.changes = changes
      /\ DOMAIN d = R /\ DOMAIN c = R
  BY ZenonT(60) DEF ExactWork, Shown, SortKeys
<1>3. \A l \in R : l \in spec.keys /\ l # k
  BY ZenonT(60), <1>1, ResultsFound
<1>4. With(d, k, docs[k]) = Shown(R \cup {k}, new)
  BY ZenonT(60), <1>1, <1>3 DEF With, Shown
<1>5. With(c, k, docs[k].order) = SortKeys(R \cup {k}, new)
  BY ZenonT(60), <1>1, <1>3 DEF With, SortKeys
<1>6. CASE ~Full(spec, R)
  <2>1. Results(spec, new) = R \cup {k}
    <3>1. spec \in TargetSpec
      BY ZenonT(60) DEF Followed
    <3>2. ChangesAt(k, Found(spec, old), OrderOf(old), Found(spec, new), OrderOf(new)) /\ k \in Found(spec, new)
      BY ZenonT(60), <3>1, FoundChanges
    <3> QED BY SMTT(60), <1>6, <3>2, ResultsWithRoom DEF ChangesAt
  <2>2. Enters(w, k, docs, Full(spec, R)) = ExactWork(spec, new, changes \o <<x>>)
    BY ZenonT(60), <1>1, <1>2, <1>4, <1>5, <1>6, <2>1, Appended DEF Enters, ExactWork
  <2>3. Says(<<x>>, docs, d, Shown(Results(spec, new), new))
    BY SMTT(60), <1>1, <1>4, <2>1, SaysUpsert
  <2>4. <<x>> \in Seq(Change)
    BY SMTT(60), <1>1
  <2> QED BY ZenonT(60), <2>2, <2>3, <2>4 DEF Led
<1>7. CASE Full(spec, R) /\ R = {}
  BY ZenonT(60), <1>2, <1>7 DEF Enters, Led, ExactWork
<1>8. CASE Full(spec, R) /\ R # {}
  <2> DEFINE last == last_in_window(c)
             y == [key |-> last, kind |-> "Remove", document |-> Absent]
  <2>1. /\ last \in R
        /\ Results(spec, new) =
             IF Before(k, new[k].order, last, old[last].order) THEN (R \cup {k}) \ {last} ELSE R
    BY ZenonT(60), <1>8, FullEnters DEF SortKeys
  <2>2. c[last] = old[last].order
    BY ZenonT(60), <2>1 DEF SortKeys
  <2>3. CASE ~Before(k, docs[k].order, last, c[last])
    <3>1. Results(spec, new) = R
      BY ZenonT(60), <2>1, <2>2, <2>3
    <3>2. Enters(w, k, docs, Full(spec, R)) = w
      BY ZenonT(60), <1>2, <1>8, <2>3 DEF Enters
    <3>3. Shown(R, new) = d /\ SortKeys(R, new) = c
      BY ZenonT(60), <1>1, <1>3 DEF Shown, SortKeys
    <3>4. w = ExactWork(spec, new, changes \o <<>>) /\ <<>> \in Seq(Change)
      BY SMTT(60), <3>1, <3>3 DEF ExactWork
    <3>5. Says(<<>>, docs, d, Shown(Results(spec, new), new))
      BY ZenonT(60), <3>1, <3>3, SaysNothing
    <3> QED BY ZenonT(60), <3>2, <3>4, <3>5 DEF Led
  <2>4. CASE Before(k, docs[k].order, last, c[last])
    <3>1. Results(spec, new) = (R \cup {k}) \ {last}
      BY ZenonT(60), <2>1, <2>2, <2>4
    <3>2. last \in Keys /\ y \in Change /\ last # k
      BY ZenonT(60), <1>1, <1>3, <2>1, ResultsFound DEF Change
    <3>3. Without(With(d, k, docs[k]), last) = Shown(Results(spec, new), new)
      BY ZenonT(60), <1>4, <3>1 DEF Without, Shown
    <3>4. Without(With(c, k, docs[k].order), last) = SortKeys(Results(spec, new), new)
      BY ZenonT(60), <1>5, <3>1 DEF Without, SortKeys
    <3>5. With(Without(d, last), k, docs[k]) = Without(With(d, k, docs[k]), last)
      BY ZenonT(60), <3>2 DEF With, Without
    <3>6. Enters(w, k, docs, Full(spec, R)) = ExactWork(spec, new, changes \o <<y, x>>)
      BY ZenonT(60), <1>2, <1>8, <2>4, <3>3, <3>4 DEF Enters, ExactWork
    <3>7. Says(<<y, x>>, docs, d, Shown(Results(spec, new), new))
      BY ZenonT(60), <1>1, <3>2, <3>3, <3>5, SaysEvicted
    <3>8. <<y, x>> \in Seq(Change)
      BY SMTT(60), <1>1, <3>2
    <3> QED BY ZenonT(60), <3>6, <3>7, <3>8 DEF Led
  <2> QED BY ZenonT(60), <2>3, <2>4
<1> QED BY ZenonT(60), <1>6, <1>7, <1>8

\* Stays: a visible document that still matches.
LEMMA StaysExact ==
    ASSUME NEW spec, Followed(spec), NEW k, NEW old, NEW new, DifferAt(k, spec, old, new),
           NEW docs \in Documents, docs[k] = new[k], NEW changes \in Seq(Change),
           k \in Results(spec, old), Matches(spec, docs[k])
    PROVE  Led(Stays(ExactWork(spec, old, changes), k, docs, Full(spec, Results(spec, old))),
               spec, old, new, docs, changes)
<1> DEFINE R == Results(spec, old)
           d == Shown(R, old)
           c == SortKeys(R, old)
           w == ExactWork(spec, old, changes)
           x == Upsert(k, docs[k])
<1>1. k \in Keys /\ docs[k] # Absent /\ x \in Change /\ old \in Documents /\ new \in Documents
      /\ k \in spec.keys /\ \A l \in spec.keys \ {k} : new[l] = old[l]
  BY ZenonT(60), ChangeFacts DEF DifferAt, Followed, TargetSpec, Matches
<1>2. /\ w.documents = d /\ w.order_keys = c /\ w.changes = changes
      /\ DOMAIN d = R /\ DOMAIN c = R /\ d[k] = old[k] /\ c[k] = old[k].order
  BY ZenonT(60) DEF ExactWork, Shown, SortKeys
<1>3. R \subseteq spec.keys
  BY ZenonT(60), <1>1, ResultsFound
<1>4. With(d, k, docs[k]) = Shown(R, new) /\ With(c, k, docs[k].order) = SortKeys(R, new)
  BY ZenonT(60), <1>1, <1>3 DEF With, Shown, SortKeys
<1>5. CASE Full(spec, R) /\ c[k] # docs[k].order
  BY ZenonT(60), <1>2, <1>5 DEF Stays, Led, ExactWork
<1>6. CASE ~(Full(spec, R) /\ c[k] # docs[k].order)
  <2>1. Results(spec, new) = R
    <3>1. CASE Full(spec, R)
      BY SMTT(60), <1>2, <1>6, <3>1, FullStays
    <3>2. CASE ~Full(spec, R)
      <4>1. spec \in TargetSpec
        BY ZenonT(60) DEF Followed
      <4>2. /\ ChangesAt(k, Found(spec, old), OrderOf(old), Found(spec, new), OrderOf(new))
            /\ k \in Found(spec, new)
        BY ZenonT(60), <4>1, FoundChanges
      <4>3. R = Found(spec, old) /\ Results(spec, new) = Found(spec, new) /\ k \in R
        BY ZenonT(60), <3>2, ResultsWithRoom
      <4>4. Found(spec, new) \ {k} = Found(spec, old) \ {k}
        BY ZenonT(60), <4>2 DEF ChangesAt
      <4>5. \A l : l \in Found(spec, new) <=> l \in Found(spec, old)
        BY ZenonT(60), <4>2, <4>3, <4>4
      <4>6. Found(spec, new) = Found(spec, old)
        BY ZenonT(60), <4>5
      <4> QED BY ZenonT(60), <4>3, <4>6
    <3> QED BY ZenonT(60), <3>1, <3>2
  <2>2. CASE d[k] = docs[k]
    <3>1. changes \o <<>> = changes /\ <<>> \in Seq(Change)
      BY SMTT(60)
    <3>2. Stays(w, k, docs, Full(spec, R)) = ExactWork(spec, new, changes)
      BY ZenonT(60), <1>2, <1>4, <1>6, <2>1, <2>2 DEF Stays, ExactWork
    <3>3. Shown(Results(spec, new), new) = d
      BY ZenonT(60), <1>1, <1>2, <1>3, <2>1, <2>2 DEF Shown
    <3>4. Says(<<>>, docs, d, Shown(Results(spec, new), new))
      BY ZenonT(60), <3>3, SaysNothing
    <3> QED BY ZenonT(60), <3>1, <3>2, <3>4 DEF Led
  <2>3. CASE d[k] # docs[k]
    <3>1. Stays(w, k, docs, Full(spec, R)) = ExactWork(spec, new, changes \o <<x>>)
      BY ZenonT(60), <1>1, <1>2, <1>4, <1>6, <2>1, <2>3, Appended DEF Stays, ExactWork
    <3>2. Says(<<x>>, docs, d, Shown(Results(spec, new), new)) /\ <<x>> \in Seq(Change)
      BY SMTT(60), <1>1, <1>4, <2>1, SaysUpsert
    <3> QED BY ZenonT(60), <3>1, <3>2 DEF Led
  <2> QED BY ZenonT(60), <2>2, <2>3
<1> QED BY ZenonT(60), <1>5, <1>6

\* Leaves: a visible document that no longer matches.
LEMMA LeavesExact ==
    ASSUME NEW spec, Followed(spec), NEW k, NEW old, NEW new, DifferAt(k, spec, old, new),
           NEW docs \in Documents, docs[k] = new[k], NEW changes \in Seq(Change),
           k \in Results(spec, old), ~Matches(spec, docs[k])
    PROVE  Led(Leaves(ExactWork(spec, old, changes), k, docs, Full(spec, Results(spec, old))),
               spec, old, new, docs, changes)
<1> DEFINE R == Results(spec, old)
           d == Shown(R, old)
           c == SortKeys(R, old)
           w == ExactWork(spec, old, changes)
           x == Gone(k, docs)
<1>1. k \in Keys /\ x \in Change /\ old \in Documents /\ new \in Documents
      /\ k \in spec.keys /\ \A l \in spec.keys \ {k} : new[l] = old[l]
  BY ZenonT(60), ChangeFacts DEF DifferAt, Followed, TargetSpec
<1>2. /\ w.documents = d /\ w.order_keys = c /\ w.changes = changes
      /\ DOMAIN d = R /\ DOMAIN c = R
  BY ZenonT(60) DEF ExactWork, Shown, SortKeys
<1>3. R \subseteq spec.keys
  BY ZenonT(60), <1>1, ResultsFound
<1>4. CASE Full(spec, R)
  BY ZenonT(60), <1>2, <1>4 DEF Leaves, Led, ExactWork
<1>5. CASE ~Full(spec, R)
  <2>1. Results(spec, new) = R \ {k}
    <3>1. spec \in TargetSpec
      BY ZenonT(60) DEF Followed
    <3>2. /\ ChangesAt(k, Found(spec, old), OrderOf(old), Found(spec, new), OrderOf(new))
          /\ k \notin Found(spec, new)
      BY ZenonT(60), <3>1, FoundChanges
    <3> QED BY SMTT(60), <1>5, <3>2, ResultsWithRoom DEF ChangesAt
  <2>2. Without(d, k) = Shown(R \ {k}, new) /\ Without(c, k) = SortKeys(R \ {k}, new)
    BY ZenonT(60), <1>1, <1>3 DEF Without, Shown, SortKeys
  <2>3. Leaves(w, k, docs, Full(spec, R)) = ExactWork(spec, new, changes \o <<x>>)
    BY ZenonT(60), <1>1, <1>2, <1>5, <2>1, <2>2, Appended DEF Leaves, ExactWork
  <2>4. Says(<<x>>, docs, d, Shown(Results(spec, new), new)) /\ <<x>> \in Seq(Change)
    BY SMTT(60), <1>1, <2>1, <2>2, SaysGone
  <2> QED BY ZenonT(60), <2>3, <2>4 DEF Led
<1> QED BY ZenonT(60), <1>4, <1>5

\* TouchQuery: every touched key of a query.
LEMMA TouchQueryExact ==
    ASSUME NEW spec, Followed(spec), NEW k, NEW old, NEW new, DifferAt(k, spec, old, new),
           NEW docs \in Documents, docs[k] = new[k], NEW changes \in Seq(Change)
    PROVE  Led(TouchQuery(spec, ExactWork(spec, old, changes), k, docs), spec, old, new, docs, changes)
<1> DEFINE R == Results(spec, old)
           w == ExactWork(spec, old, changes)
<1>1. DOMAIN w.documents = R
  BY ZenonT(60) DEF ExactWork, Shown
<1>2. CASE k \notin R /\ Matches(spec, docs[k])
  <2>1. TouchQuery(spec, w, k, docs) = Enters(w, k, docs, Full(spec, R))
    BY ZenonT(60), <1>1, <1>2 DEF TouchQuery, Full
  <2> QED BY ZenonT(60), <1>2, <2>1, EntersExact
<1>3. CASE k \in R /\ Matches(spec, docs[k])
  <2>1. TouchQuery(spec, w, k, docs) = Stays(w, k, docs, Full(spec, R))
    BY ZenonT(60), <1>1, <1>3 DEF TouchQuery, Full
  <2> QED BY ZenonT(60), <1>3, <2>1, StaysExact
<1>4. CASE k \in R /\ ~Matches(spec, docs[k])
  <2>1. TouchQuery(spec, w, k, docs) = Leaves(w, k, docs, Full(spec, R))
    BY ZenonT(60), <1>1, <1>4 DEF TouchQuery, Full
  <2> QED BY ZenonT(60), <1>4, <2>1, LeavesExact
<1>5. CASE k \notin R /\ ~Matches(spec, docs[k])
  <2>1. TouchQuery(spec, w, k, docs) = w
    BY ZenonT(60), <1>1, <1>5 DEF TouchQuery
  <2>2. Results(spec, new) = R
    <3>1. CASE Full(spec, R)
      BY ZenonT(60), <1>5, <3>1, FullMisses
    <3>2. CASE ~Full(spec, R)
      <4>1. spec \in TargetSpec
        BY ZenonT(60) DEF Followed
      <4>2. /\ ChangesAt(k, Found(spec, old), OrderOf(old), Found(spec, new), OrderOf(new))
            /\ k \notin Found(spec, new)
        BY ZenonT(60), <1>5, <4>1, FoundChanges
      <4>3. R = Found(spec, old) /\ Results(spec, new) = Found(spec, new) /\ k \notin R
        BY ZenonT(60), <1>5, <3>2, ResultsWithRoom
      <4>4. Found(spec, new) \ {k} = Found(spec, old) \ {k}
        BY ZenonT(60), <4>2 DEF ChangesAt
      <4>5. \A l : l \in Found(spec, new) <=> l \in Found(spec, old)
        BY ZenonT(60), <4>2, <4>3, <4>4
      <4>6. Found(spec, new) = Found(spec, old)
        BY ZenonT(60), <4>5
      <4> QED BY ZenonT(60), <4>3, <4>6
    <3> QED BY ZenonT(60), <3>1, <3>2
  <2>3. \A l \in R : new[l] = old[l]
    BY ZenonT(60), <1>5, ResultsFound DEF DifferAt
  <2>4. Shown(R, new) = Shown(R, old) /\ SortKeys(R, new) = SortKeys(R, old)
    BY ZenonT(60), <2>3 DEF Shown, SortKeys
  <2>5. w = ExactWork(spec, new, changes \o <<>>) /\ <<>> \in Seq(Change)
    BY SMTT(60), <2>2, <2>4 DEF ExactWork
  <2> QED BY ZenonT(60), <2>1, <2>2, <2>4, <2>5, SaysNothing DEF Led
<1> QED BY ZenonT(60), <1>2, <1>3, <1>4, <1>5

(***************************************************************************)
(* All touched keys, in key order.                                          *)
(***************************************************************************)

Touch(target, docs, k, work) ==
    IF ~work.incremental THEN work
    ELSE IF target.spec.kind = "Documents" THEN TouchDocument(work, k, docs)
    ELSE TouchQuery(target.spec, work, k, docs)

Start(target) ==
    [documents |-> target.documents, order_keys |-> target.order_keys,
     changes |-> <<>>, incremental |-> Incremental(target.spec)]

\* The loop of apply_touched as a function of the keys it has touched.
Loop(f, target, docs, touched) ==
    f = [s \in SUBSET touched |->
           IF s = {} THEN Start(target) ELSE Touch(target, docs, Max(s), f[s \ {Max(s)}])]

\* apply_touched is the end of that loop.
LEMMA ApplyTouched ==
    ASSUME NEW target, NEW docs, NEW touched
    PROVE  apply_touched(target, docs, touched) = (CHOOSE f : Loop(f, target, docs, touched))[touched]
BY ZenonT(60) DEF apply_touched, MapThenFoldSet, Loop, Start, Touch

\* Induction in the form the provers can use.
LEMMA SetInduction ==
    ASSUME NEW T, T \subseteq Nat, 0 \in T, \A n \in T : n + 1 \in T
    PROVE  T = Nat
<1> SUFFICES ASSUME Nat \ T # {} PROVE FALSE
  BY ZenonT(60)
<1>1. PICK m \in Nat \ T : \A y \in Nat \ T : m <= y
  BY ZenonT(60), LeastElement
<1>2. m # 0
  OBVIOUS
<1>3. m - 1 \in Nat /\ m - 1 \in T
  BY SMTT(60), <1>1, <1>2
<1> QED BY SMTT(60), <1>3

\* The last key to be touched, and the keys before it.
LEMMA LastKey ==
    ASSUME NEW s, s \subseteq Nat, IsFiniteSet(s), s # {}
    PROVE  /\ Max(s) \in s /\ \A l \in s : l <= Max(s)
           /\ IsFiniteSet(s \ {Max(s)}) /\ Cardinality(s) \in Nat
           /\ Cardinality(s \ {Max(s)}) \in Nat
           /\ Cardinality(s \ {Max(s)}) + 1 = Cardinality(s)
<1> DEFINE o == [k \in s |-> 0]
<1>1. Keyed(s, o)
  BY ZenonT(60) DEF Keyed
<1>2. PICK k \in s : \A l \in s \ {k} : Precedes(o, l, k)
  <2> HIDE DEF o
  <2> QED BY ZenonT(60), <1>1, LastExists
<1>3. \A l \in s : k >= l
  BY SMTT(60), <1>2 DEF Precedes, Before
<1>4. Max(s) \in s /\ \A l \in s : Max(s) >= l
  BY ZenonT(60), <1>3 DEF Max
<1>5. /\ IsFiniteSet(s \ {Max(s)}) /\ Cardinality(s) \in Nat /\ Cardinality(s \ {Max(s)}) \in Nat
      /\ Cardinality(s \ {Max(s)}) = Cardinality(s) - 1
  BY ZenonT(60), <1>4, FS_RemoveElement, FS_CardinalityType
<1>6. \A l \in s : l <= Max(s)
  BY ZenonT(60), <1>4
<1> QED BY SMTT(60), <1>4, <1>5, <1>6

\* Induction over a set of keys in their order.
LEMMA KeyInduction ==
    ASSUME NEW touched, touched \subseteq Nat, IsFiniteSet(touched), NEW P, {} \in P,
           \A s \in SUBSET touched : s # {} /\ s \ {Max(s)} \in P => s \in P
    PROVE  touched \in P
<1> DEFINE T == {n \in Nat : \A s \in SUBSET touched : Cardinality(s) = n => s \in P}
<1>1. \A s \in SUBSET touched : s \subseteq Nat /\ IsFiniteSet(s) /\ Cardinality(s) \in Nat
  BY ZenonT(60), FS_Subset, FS_CardinalityType
<1>2. 0 \in T
  BY ZenonT(60), <1>1, FS_EmptySet
<1>3. ASSUME NEW n \in T
      PROVE  n + 1 \in T
  <2>1. n \in Nat /\ n + 1 \in Nat
    BY SMTT(60)
  <2> SUFFICES ASSUME NEW s \in SUBSET touched, Cardinality(s) = n + 1
               PROVE  s \in P
    BY ZenonT(60), <2>1, ZenonT(60)
  <2>2. CASE s # {}
    <3>1. /\ Cardinality(s \ {Max(s)}) \in Nat
          /\ Cardinality(s \ {Max(s)}) + 1 = Cardinality(s)
      BY ZenonT(60), <1>1, <2>2, LastKey
    <3>2. Cardinality(s \ {Max(s)}) = n
      BY SMTT(60), <2>1, <3>1
    <3>3. s \ {Max(s)} \in SUBSET touched
      BY ZenonT(60)
    <3> QED BY ZenonT(60), <2>2, <3>2, <3>3
  <2> QED BY ZenonT(60), <2>2
<1>4. T = Nat
  <2> HIDE DEF T
  <2>1. T \subseteq Nat
    BY ZenonT(60) DEF T
  <2> QED BY ZenonT(60), <1>2, <1>3, <2>1, SetInduction
<1> QED BY ZenonT(60), <1>1, <1>4

\* There is such a loop: its value on n + 1 keys follows from those on n.
LEMMA LoopExists ==
    ASSUME NEW target, NEW docs, NEW touched, touched \subseteq Nat, IsFiniteSet(touched)
    PROVE  \E f : Loop(f, target, docs, touched)
<1> DEFINE Value(f, s) ==
             IF s = {} THEN Start(target) ELSE Touch(target, docs, Max(s), f[s \ {Max(s)}])
           T == {n \in Nat : \E f : \A s \in SUBSET touched : Cardinality(s) <= n => f[s] = Value(f, s)}
<1>1. \A s \in SUBSET touched : s \subseteq Nat /\ IsFiniteSet(s) /\ Cardinality(s) \in Nat
  BY ZenonT(60), FS_Subset, FS_CardinalityType
<1>2. \A s \in SUBSET touched :
        s # {} => /\ s \ {Max(s)} \in SUBSET touched
                  /\ Cardinality(s \ {Max(s)}) \in Nat
                  /\ Cardinality(s \ {Max(s)}) + 1 = Cardinality(s)
  BY ZenonT(60), <1>1, LastKey
<1>3. 0 \in T
  <2> DEFINE f == [s \in SUBSET touched |-> Start(target)]
  <2>1. \A s \in SUBSET touched : Cardinality(s) <= 0 => s = {}
    BY SMTT(60), <1>1, FS_EmptySet
  <2>2. \A s \in SUBSET touched : Cardinality(s) <= 0 => f[s] = Value(f, s)
    BY ZenonT(60), <2>1
  <2> QED BY ZenonT(60), <2>2
<1>4. ASSUME NEW n \in T
      PROVE  n + 1 \in T
  <2>1. PICK f : \A s \in SUBSET touched : Cardinality(s) <= n => f[s] = Value(f, s)
    BY ZenonT(60), <1>4
  <2> DEFINE g == [s \in SUBSET touched |-> Value(f, s)]
  <2>2. ASSUME NEW s \in SUBSET touched, Cardinality(s) <= n + 1
        PROVE  g[s] = Value(g, s)
    <3>1. CASE s = {}
      BY ZenonT(60), <3>1
    <3>2. CASE s # {}
      <4> DEFINE t == s \ {Max(s)}
      <4>1. t \in SUBSET touched /\ Cardinality(t) <= n
        BY SMTT(60), <1>1, <1>2, <2>2, <3>2
      <4>2. g[t] = f[t]
        <5> HIDE DEF t, Value
        <5> QED BY ZenonT(60), <2>1, <4>1
      <4>3. g[s] = Touch(target, docs, Max(s), f[t])
        BY ZenonT(60), <3>2
      <4> QED BY ZenonT(60), <3>2, <4>2, <4>3
    <3> QED BY ZenonT(60), <3>1, <3>2
  <2>3. n + 1 \in Nat
    BY SMTT(60)
  <2> HIDE DEF Value, g
  <2> QED BY ZenonT(60), <2>2, <2>3
<1>5. T = Nat
  <2> HIDE DEF T
  <2>1. T \subseteq Nat
    BY ZenonT(60) DEF T
  <2> QED BY ZenonT(60), <1>3, <1>4, <2>1, SetInduction
<1>6. Cardinality(touched) \in T
  BY ZenonT(60), <1>1, <1>5
<1>7. PICK f : \A s \in SUBSET touched : Cardinality(s) <= Cardinality(touched) => f[s] = Value(f, s)
  BY ZenonT(60), <1>6
<1>8. \A s \in SUBSET touched : f[s] = Value(f, s)
  <2> HIDE DEF Value
  <2> QED BY ZenonT(60), <1>7, FS_Subset
<1> DEFINE g == [s \in SUBSET touched |-> f[s]]
<1>9. \A s \in SUBSET touched : g[s] = Value(g, s)
  <2> SUFFICES ASSUME NEW s \in SUBSET touched PROVE g[s] = Value(g, s)
    BY ZenonT(60)
  <2>1. CASE s = {}
    BY ZenonT(60), <1>8, <2>1
  <2>2. CASE s # {}
    <3>1. g[s \ {Max(s)}] = f[s \ {Max(s)}]
      BY ZenonT(60), <1>2, <2>2
    <3> QED BY ZenonT(60), <1>8, <2>2, <3>1
  <2> QED BY ZenonT(60), <2>1, <2>2
<1>10. g = [s \in SUBSET touched |-> Value(g, s)]
  <2> HIDE DEF Value
  <2> QED BY ZenonT(60), <1>9
<1> QED BY ZenonT(60), <1>10 DEF Loop

\* The same work for any kind of target that is refreshed from changed keys.
Exact(spec, docs, changes) ==
    [documents |-> evaluate(spec, docs).documents, order_keys |-> evaluate(spec, docs).order_keys,
     changes |-> changes, incremental |-> TRUE]

\* A view has the documents of the results and, for a query, their sort keys.
LEMMA Evaluated ==
    ASSUME NEW spec, NEW docs
    PROVE  /\ evaluate(spec, docs).documents = Shown(Results(spec, docs), docs)
           /\ evaluate(spec, docs).order_keys =
                SortKeys(IF spec.kind = "Query" /\ Incremental(spec) THEN Results(spec, docs) ELSE {}, docs)
BY ZenonT(60) DEF evaluate, Shown, SortKeys

\* A documents target shows its keys' documents and caches no sort key.
LEMMA DocumentsExact ==
    ASSUME NEW spec \in TargetSpec, spec.kind = "Documents", NEW docs, NEW changes
    PROVE  /\ Results(spec, docs) = {k \in spec.keys : docs[k] # Absent}
           /\ Exact(spec, docs, changes) =
                [documents |-> Shown(Results(spec, docs), docs), order_keys |-> SortKeys({}, docs),
                 changes |-> changes, incremental |-> TRUE]
           /\ SortKeys({}, docs) = [k \in {} |-> 0]
<1>1. spec.kind # "Query"
  OBVIOUS
<1>2. Results(spec, docs) = {k \in spec.keys : docs[k] # Absent}
  BY ZenonT(60) DEF Results, Matches
<1>3. SortKeys({}, docs) = [k \in {} |-> 0]
  BY ZenonT(60) DEF SortKeys
<1> QED BY ZenonT(60), <1>1, <1>2, <1>3, Evaluated DEF Exact

\* One touched key of any target.
LedTo(v, spec, old, new, docs, changes) ==
    \/ v.incremental = FALSE
    \/ \E added \in Seq(Change) :
         /\ v = Exact(spec, new, changes \o added)
         /\ Says(added, docs, evaluate(spec, old).documents, evaluate(spec, new).documents)

\* TouchDocument: a document that is stored is shown as it is, another is not.
LEMMA TouchDocumentExact ==
    ASSUME NEW spec \in TargetSpec, spec.kind = "Documents", NEW k, NEW old, NEW new,
           DifferAt(k, spec, old, new), NEW docs \in Documents, docs[k] = new[k],
           NEW changes \in Seq(Change)
    PROVE  LedTo(TouchDocument(Exact(spec, old, changes), k, docs), spec, old, new, docs, changes)
<1> DEFINE R == Results(spec, old)
           R2 == Results(spec, new)
           d == Shown(R, old)
           d2 == Shown(R2, new)
           w == Exact(spec, old, changes)
           x == Upsert(k, docs[k])
           y == Gone(k, docs)
<1>1. /\ k \in Keys /\ k \in spec.keys /\ \A l \in spec.keys \ {k} : new[l] = old[l]
      /\ docs[k] # Absent => x \in Change
      /\ y \in Change
  BY ZenonT(60), ChangeFacts DEF DifferAt, TargetSpec
<1>2. /\ R = {l \in spec.keys : old[l] # Absent} /\ R2 = {l \in spec.keys : new[l] # Absent}
      /\ \A c : Exact(spec, old, c) =
           [documents |-> d, order_keys |-> [l \in {} |-> 0], changes |-> c, incremental |-> TRUE]
      /\ \A c : Exact(spec, new, c) =
           [documents |-> d2, order_keys |-> [l \in {} |-> 0], changes |-> c, incremental |-> TRUE]
  BY ZenonT(60), DocumentsExact
<1>3. evaluate(spec, old).documents = d /\ evaluate(spec, new).documents = d2
  BY ZenonT(60), Evaluated
<1>4. DOMAIN d = R /\ \A l \in R : d[l] = old[l]
  BY ZenonT(60) DEF Shown
<1> HIDE DEF x, y
<1>5. changes \o <<>> = changes /\ <<>> \in Seq(Change)
  BY SMTT(60)
<1>6. w = [documents |-> d, order_keys |-> [l \in {} |-> 0], changes |-> changes, incremental |-> TRUE]
  BY ZenonT(60), <1>2
<1>7. CASE docs[k] # Absent /\ k \in R /\ d[k] = docs[k]
  <2>1. d2 = d
    BY ZenonT(60), <1>1, <1>2, <1>4, <1>7 DEF Shown
  <2>2. TouchDocument(w, k, docs) = w
    BY SMTT(60), <1>4, <1>6, <1>7 DEF TouchDocument
  <2>3. w = Exact(spec, new, changes)
    BY ZenonT(60), <1>2, <2>1
  <2> QED BY ZenonT(60), <1>3, <1>5, <2>1, <2>2, <2>3, SaysNothing DEF LedTo
<1>8. CASE docs[k] # Absent /\ ~(k \in R /\ d[k] = docs[k])
  <2>1. d2 = With(d, k, docs[k])
    BY ZenonT(60), <1>1, <1>2, <1>8 DEF Shown, With
  <2>2. TouchDocument(w, k, docs) = [w EXCEPT !.documents = With(@, k, docs[k]), !.changes = Append(@, x)]
    BY SMTT(60), <1>4, <1>6, <1>8 DEF TouchDocument, x
  <2>3. TouchDocument(w, k, docs) = Exact(spec, new, changes \o <<x>>)
    <3> HIDE DEF d, d2, w
    <3>1. Append(changes, x) = changes \o <<x>>
      BY ZenonT(60), <1>1, <1>8, Appended
    <3>2. TouchDocument(w, k, docs) =
            [documents |-> d2, order_keys |-> [l \in {} |-> 0],
             changes |-> changes \o <<x>>, incremental |-> TRUE]
      BY ZenonT(60), <1>6, <2>1, <2>2, <3>1
    <3> QED BY ZenonT(60), <1>2, <3>2
  <2>4. Says(<<x>>, docs, d, d2) /\ <<x>> \in Seq(Change)
    BY SMTT(60), <1>1, <1>8, <2>1, SaysUpsert DEF x
  <2> QED BY ZenonT(60), <1>3, <2>3, <2>4 DEF LedTo
<1>9. CASE docs[k] = Absent /\ k \in R
  <2>1. d2 = Without(d, k)
    BY ZenonT(60), <1>1, <1>2, <1>9 DEF Shown, Without
  <2>2. TouchDocument(w, k, docs) = [w EXCEPT !.documents = Without(@, k), !.changes = Append(@, y)]
    BY SMTT(60), <1>4, <1>6, <1>9 DEF TouchDocument, y
  <2>3. TouchDocument(w, k, docs) = Exact(spec, new, changes \o <<y>>)
    <3> HIDE DEF d, d2, w
    <3>1. Append(changes, y) = changes \o <<y>>
      BY ZenonT(60), <1>1, Appended
    <3>2. TouchDocument(w, k, docs) =
            [documents |-> d2, order_keys |-> [l \in {} |-> 0],
             changes |-> changes \o <<y>>, incremental |-> TRUE]
      BY ZenonT(60), <1>6, <2>1, <2>2, <3>1
    <3> QED BY ZenonT(60), <1>2, <3>2
  <2>4. Says(<<y>>, docs, d, d2) /\ <<y>> \in Seq(Change)
    BY SMTT(60), <1>1, <2>1, SaysGone DEF y
  <2> QED BY ZenonT(60), <1>3, <2>3, <2>4 DEF LedTo
<1>10. CASE docs[k] = Absent /\ k \notin R
  <2>1. d2 = d
    BY ZenonT(60), <1>1, <1>2, <1>4, <1>10 DEF Shown
  <2>2. TouchDocument(w, k, docs) = w
    BY SMTT(60), <1>4, <1>6, <1>10 DEF TouchDocument
  <2>3. w = Exact(spec, new, changes)
    BY ZenonT(60), <1>2, <2>1
  <2> QED BY ZenonT(60), <1>3, <1>5, <2>1, <2>2, <2>3, SaysNothing DEF LedTo
<1> QED BY ZenonT(60), <1>7, <1>8, <1>9, <1>10

\* Touch: one key of a target that is refreshed from changed keys.
LEMMA TouchExact ==
    ASSUME NEW target, target.spec \in TargetSpec, Incremental(target.spec), NEW k, NEW old, NEW new,
           DifferAt(k, target.spec, old, new), NEW docs \in Documents, docs[k] = new[k],
           NEW changes \in Seq(Change)
    PROVE  LedTo(Touch(target, docs, k, Exact(target.spec, old, changes)),
                 target.spec, old, new, docs, changes)
<1> DEFINE spec == target.spec
           w == Exact(spec, old, changes)
<1>1. w.incremental = TRUE
  BY ZenonT(60) DEF Exact
<1>2. CASE spec.kind = "Documents"
  <2>1. Touch(target, docs, k, w) = TouchDocument(w, k, docs)
    BY ZenonT(60), <1>1, <1>2 DEF Touch
  <2> QED BY ZenonT(60), <1>2, <2>1, TouchDocumentExact
<1>3. CASE spec.kind # "Documents"
  <2>1. Followed(spec) /\ spec.kind = "Query"
    BY ZenonT(60), <1>3 DEF Followed, TargetSpec
  <2>2. \A docs1, c : Exact(spec, docs1, c) = ExactWork(spec, docs1, c)
    BY ZenonT(60), <2>1, Evaluated DEF Exact, ExactWork, Followed
  <2>3. Touch(target, docs, k, w) = TouchQuery(spec, w, k, docs)
    BY ZenonT(60), <1>1, <1>3 DEF Touch
  <2>4. Led(TouchQuery(spec, w, k, docs), spec, old, new, docs, changes)
    BY ZenonT(60), <2>1, <2>2, TouchQueryExact
  <2> QED BY SMTT(60), <2>2, <2>3, <2>4, Evaluated DEF Led, LedTo
<1> QED BY ZenonT(60), <1>2, <1>3

\* A view depends on the documents in its scope only.
LEMMA EvaluateAgrees ==
    ASSUME NEW spec, NEW a, NEW b, \A k \in spec.keys : a[k] = b[k]
    PROVE  evaluate(spec, a) = evaluate(spec, b) /\ Results(spec, a) = Results(spec, b)
<1> DEFINE found(x) == {k \in spec.keys : Matches(spec, x[k])}
           before(x, k) == {l \in found(x) : Before(l, x[l].order, k, x[k].order)}
           kept(x, k) ==
               /\ Cardinality(before(x, k)) >= spec.offset
               /\ spec.limit = "First" => Cardinality(before(x, k)) < spec.offset + spec.size
               /\ spec.limit = "Last" => Cardinality(before(x, k)) + spec.size >= Cardinality(found(x))
<1>1. found(a) = found(b)
  OBVIOUS
<1>2. \A k \in found(a) : before(a, k) = before(b, k)
  OBVIOUS
<1>3. \A x : Results(spec, x) =
        IF spec.kind = "Documents" THEN found(x) ELSE {k \in found(x) : kept(x, k)}
  BY ZenonT(60) DEF Results
<1>4. Results(spec, a) \subseteq found(a)
  BY ZenonT(60), <1>3
<1>5. Results(spec, a) = Results(spec, b)
  <2> HIDE DEF found, before
  <2>1. \A k \in found(a) : kept(a, k) <=> kept(b, k)
    BY ZenonT(60), <1>1, <1>2
  <2> QED BY ZenonT(60), <1>1, <1>3, <2>1
<1>6. \A k \in Results(spec, a) : a[k] = b[k]
  BY ZenonT(60), <1>4
<1>7. evaluate(spec, a) = evaluate(spec, b)
  BY ZenonT(60), <1>5, <1>6 DEF evaluate
<1> QED BY ZenonT(60), <1>5, <1>7

\* No change leads nowhere.
LEMMA LeadsNowhere ==
    ASSUME NEW d, NEW docs
    PROVE  Leads(<<>>, d, d) /\ Reports(<<>>, docs) /\ <<>> \in Seq(Change)
<1>1. Leads(<<>>, d, d)
  <2> DEFINE h == [i \in {0} |-> d]
  <2>1. h[0] = d /\ Len(<<>>) = 0 /\ 1..0 = {}
    BY SMTT(60)
  <2> QED BY ZenonT(60), <2>1 DEF Leads
<1>2. Reports(<<>>, docs) /\ <<>> \in Seq(Change)
  BY SMTT(60) DEF Reports
<1> QED BY ZenonT(60), <1>1, <1>2

\* One more change.
LEMMA LeadsOn ==
    ASSUME NEW changes \in Seq(Change), NEW from, NEW to, Leads(changes, from, to), NEW x \in Change
    PROVE  Leads(changes \o <<x>>, from, Heeded(to, x))
<1>1. PICK h : /\ h[0] = from /\ h[Len(changes)] = to
               /\ \A i \in 1..Len(changes) : h[i] = Heeded(h[i - 1], changes[i])
  BY ZenonT(60) DEF Leads
<1> DEFINE n == Len(changes)
           all == changes \o <<x>>
           g == [i \in 0..n + 1 |-> IF i = n + 1 THEN Heeded(to, x) ELSE h[i]]
<1>2. /\ n \in Nat /\ Len(all) = n + 1 /\ all[n + 1] = x
      /\ \A i \in 1..n : all[i] = changes[i]
  BY SMTT(60)
<1>3. g[0] = from /\ g[n] = to /\ g[n + 1] = Heeded(to, x)
  BY SMTT(60), <1>1, <1>2
<1> HIDE DEF all
<1>4. \A i \in 1..n + 1 : g[i] = Heeded(g[i - 1], all[i])
  <2> SUFFICES ASSUME NEW i \in 1..n + 1 PROVE g[i] = Heeded(g[i - 1], all[i])
    BY ZenonT(60)
  <2>1. CASE i = n + 1
    BY SMTT(60), <1>2, <1>3, <2>1
  <2>2. CASE i # n + 1
    <3>1. i \in 1..n /\ i - 1 \in 0..n /\ i \in 0..n
      BY SMTT(60), <1>2, <2>2
    <3>2. g[i] = h[i] /\ g[i - 1] = h[i - 1]
      BY SMTT(60), <1>2, <3>1
    <3> QED BY ZenonT(60), <1>1, <1>2, <3>1, <3>2
  <2> QED BY ZenonT(60), <2>1, <2>2
<1> HIDE DEF g
<1> QED BY ZenonT(60), <1>2, <1>3, <1>4 DEF Leads, all

\* What one key adds to the changes.
LEMMA SaysMore ==
    ASSUME NEW changes \in Seq(Change), NEW docs, NEW from, NEW mid, NEW to, NEW added \in Seq(Change),
           Leads(changes, from, mid), Reports(changes, docs), Says(added, docs, mid, to)
    PROVE  /\ changes \o added \in Seq(Change)
           /\ Leads(changes \o added, from, to) /\ Reports(changes \o added, docs)
<1>1. changes \o added \in Seq(Change)
  BY SMTT(60)
<1>2. Reports(changes \o added, docs)
  <2> DEFINE all == changes \o added
  <2>1. /\ Len(changes) \in Nat /\ Len(added) \in Nat /\ Len(all) = Len(changes) + Len(added)
        /\ \A i \in 1..Len(all) :
             all[i] = IF i <= Len(changes) THEN changes[i] ELSE added[i - Len(changes)]
    BY SMTT(60)
  <2>2. \A i \in 1..Len(added) :
          /\ added[i].kind = "Delete" => docs[added[i].key] = Absent
          /\ added[i].kind = "Upsert" => added[i].document = docs[added[i].key]
    BY ZenonT(60) DEF Says
  <2> HIDE DEF all
  <2>3. \A i \in 1..Len(all) : \/ i \in 1..Len(changes) /\ all[i] = changes[i]
                               \/ i - Len(changes) \in 1..Len(added) /\ all[i] = added[i - Len(changes)]
    BY SMTT(60), <2>1
  <2> QED BY SMTT(60), <2>2, <2>3 DEF Reports, all
<1>3. Leads(changes \o added, from, to)
  <2>1. CASE added = <<>> /\ to = mid
    <3>1. changes \o <<>> = changes
      BY SMTT(60)
    <3> QED BY ZenonT(60), <2>1, <3>1
  <2>2. CASE \E x \in Change : added = <<x>> /\ to = Heeded(mid, x)
    BY ZenonT(60), <2>2, LeadsOn
  <2>3. CASE \E x, y \in Change : added = <<x, y>> /\ to = Heeded(Heeded(mid, x), y)
    <3>1. PICK x, y \in Change : added = <<x, y>> /\ to = Heeded(Heeded(mid, x), y)
      BY ZenonT(60), <2>3
    <3>2. Leads(changes \o <<x>>, from, Heeded(mid, x)) /\ changes \o <<x>> \in Seq(Change)
      BY SMTT(60), LeadsOn
    <3>3. Leads((changes \o <<x>>) \o <<y>>, from, to)
      BY ZenonT(60), <3>1, <3>2, LeadsOn
    <3>4. (changes \o <<x>>) \o <<y>> = changes \o <<x, y>>
      <4> DEFINE l == (changes \o <<x>>) \o <<y>>
                 r == changes \o <<x, y>>
                 n == Len(changes)
      <4>1. l \in Seq(Change) /\ r \in Seq(Change) /\ n \in Nat /\ Len(l) = n + 2 /\ Len(r) = n + 2
        BY SMTT(60)
      <4>2. \A i \in 1..n + 2 : l[i] = r[i]
        BY SMTT(60)
      <4> HIDE DEF l, r
      <4>3. l = r
        BY SMTT(60), <4>1, <4>2
      <4> QED BY ZenonT(60), <4>3 DEF l, r
    <3> QED BY ZenonT(60), <3>1, <3>3, <3>4
  <2> QED BY ZenonT(60), <2>1, <2>2, <2>3 DEF Says
<1> QED BY ZenonT(60), <1>1, <1>2, <1>3

\* The content with the documents of some keys taken from a later one.
Mixed(old, docs, s) == [k \in Keys |-> IF k \in s THEN docs[k] ELSE old[k]]

\* A target whose view is exact at some content.
Views(target, docs) ==
    /\ target.spec \in TargetSpec
    /\ target.documents = evaluate(target.spec, docs).documents
    /\ target.order_keys = evaluate(target.spec, docs).order_keys

\* The work after some of the touched keys.
Following(v, spec, old, docs, s) ==
    \/ v.incremental = FALSE
    \/ \E changes \in Seq(Change) :
         /\ v = Exact(spec, Mixed(old, docs, s), changes)
         /\ Leads(changes, evaluate(spec, old).documents, evaluate(spec, Mixed(old, docs, s)).documents)
         /\ Reports(changes, docs)

\* The loop of apply_touched keeps its work exact, key by key.
LEMMA LoopFollows ==
    ASSUME NEW target, NEW old \in Documents, NEW docs \in Documents, Views(target, old),
           Incremental(target.spec), NEW touched \in SUBSET target.spec.keys,
           NEW f, Loop(f, target, docs, touched)
    PROVE  Following(f[touched], target.spec, old, docs, touched)
<1> DEFINE spec == target.spec
           P == {s \in SUBSET touched : Following(f[s], spec, old, docs, s)}
<1>1. /\ spec \in TargetSpec /\ spec.keys \in SUBSET Keys /\ touched \in SUBSET Keys
      /\ \A s \in SUBSET touched : s \subseteq Nat /\ IsFiniteSet(s)
  <2>1. spec \in TargetSpec /\ spec.keys \in SUBSET Keys /\ touched \in SUBSET Keys
    BY ZenonT(60) DEF Views, TargetSpec
  <2> QED BY ZenonT(60), <2>1, KeysAssumption, FS_Subset
<1>2. \A s \in SUBSET touched :
        f[s] = IF s = {} THEN Start(target) ELSE Touch(target, docs, Max(s), f[s \ {Max(s)}])
  BY ZenonT(60) DEF Loop
<1>3. {} \in P
  <2> SUFFICES Following(f[{}], spec, old, docs, {})
    OBVIOUS
  <2>1. f[{}] = Start(target)
    BY ZenonT(60), <1>2
  <2>2. \A k \in spec.keys : Mixed(old, docs, {})[k] = old[k]
    BY ZenonT(60), <1>1 DEF Mixed
  <2>3. evaluate(spec, Mixed(old, docs, {})) = evaluate(spec, old)
    BY ZenonT(60), <2>2, EvaluateAgrees
  <2>4. Start(target) = Exact(spec, Mixed(old, docs, {}), <<>>)
    BY ZenonT(60), <2>3 DEF Start, Exact, Views
  <2> QED BY ZenonT(60), <2>1, <2>3, <2>4, LeadsNowhere DEF Following
<1>4. ASSUME NEW s \in SUBSET touched, s # {}, s \ {Max(s)} \in P
      PROVE  s \in P
  <2> SUFFICES Following(f[s], spec, old, docs, s)
    OBVIOUS
  <2> DEFINE k == Max(s)
             t == s \ {k}
             v == f[t]
  <2>1. k \in s /\ t \in SUBSET touched
    BY ZenonT(60), <1>1, <1>4, LastKey
  <2>3. Following(v, spec, old, docs, t)
    BY ZenonT(60), <1>4
  <2>4. f[s] = Touch(target, docs, k, v)
    BY ZenonT(60), <1>2, <1>4
  <2>5. DifferAt(k, spec, Mixed(old, docs, t), Mixed(old, docs, s)) /\ Mixed(old, docs, s)[k] = docs[k]
    BY ZenonT(60), <1>1, <2>1 DEF DifferAt, Mixed, Documents
  <2> HIDE DEF k, t, v
  <2>6. CASE v.incremental = FALSE
    <3>1. f[s] = v
      BY ZenonT(60), <2>4, <2>6 DEF Touch
    <3> QED BY ZenonT(60), <2>6, <3>1 DEF Following
  <2>7. CASE v.incremental # FALSE
    <3>1. PICK changes \in Seq(Change) :
            /\ v = Exact(spec, Mixed(old, docs, t), changes)
            /\ Leads(changes, evaluate(spec, old).documents, evaluate(spec, Mixed(old, docs, t)).documents)
            /\ Reports(changes, docs)
      BY ZenonT(60), <2>3, <2>7 DEF Following
    <3>2. LedTo(f[s], spec, Mixed(old, docs, t), Mixed(old, docs, s), docs, changes)
      BY ZenonT(60), <1>1, <2>4, <2>5, <3>1, TouchExact
    <3>3. CASE f[s].incremental = FALSE
      BY ZenonT(60), <3>3 DEF Following
    <3>4. CASE f[s].incremental # FALSE
      <4>1. PICK added \in Seq(Change) :
              /\ f[s] = Exact(spec, Mixed(old, docs, s), changes \o added)
              /\ Says(added, docs, evaluate(spec, Mixed(old, docs, t)).documents,
                      evaluate(spec, Mixed(old, docs, s)).documents)
        BY ZenonT(60), <3>2, <3>4 DEF LedTo
      <4>2. /\ changes \o added \in Seq(Change)
            /\ Leads(changes \o added, evaluate(spec, old).documents,
                     evaluate(spec, Mixed(old, docs, s)).documents)
            /\ Reports(changes \o added, docs)
        BY ZenonT(60), <3>1, <4>1, SaysMore
      <4> QED BY ZenonT(60), <4>1, <4>2 DEF Following
    <3> QED BY ZenonT(60), <3>3, <3>4
  <2> QED BY ZenonT(60), <2>6, <2>7
<1>5. touched \in P
  <2> HIDE DEF P
  <2> QED BY ZenonT(60), <1>1, <1>3, <1>4, KeyInduction
<1> QED BY ZenonT(60), <1>5

\* apply_touched: when every key it is not given is unchanged in the target's
\* scope, it gives up or ends with the view of a full evaluation, and its changes
\* take a client there.
LEMMA ApplyTouchedExact ==
    ASSUME NEW target, NEW old \in Documents, NEW docs \in Documents, Views(target, old),
           NEW touched \in SUBSET target.spec.keys,
           \A k \in target.spec.keys \ touched : docs[k] = old[k],
           apply_touched(target, docs, touched).incremental # FALSE
    PROVE  \E changes \in Seq(Change) :
             /\ apply_touched(target, docs, touched) = Exact(target.spec, docs, changes)
             /\ Leads(changes, target.documents, evaluate(target.spec, docs).documents)
             /\ Reports(changes, docs)
<1> DEFINE spec == target.spec
           work == apply_touched(target, docs, touched)
<1>1. spec \in TargetSpec /\ spec.keys \in SUBSET Keys /\ touched \subseteq Nat /\ IsFiniteSet(touched)
  <2>1. spec \in TargetSpec /\ spec.keys \in SUBSET Keys
    BY ZenonT(60) DEF Views, TargetSpec
  <2> QED BY ZenonT(60), <2>1, KeysAssumption, FS_Subset
<1>2. PICK f : Loop(f, target, docs, touched) /\ work = f[touched]
  <2>1. \E f : Loop(f, target, docs, touched)
    BY ZenonT(60), <1>1, LoopExists
  <2>2. Loop(CHOOSE f : Loop(f, target, docs, touched), target, docs, touched)
    BY ZenonT(60), <2>1
  <2> QED BY ZenonT(60), <2>2, ApplyTouched
<1>3. CASE ~Incremental(spec)
  <2> DEFINE P == {s \in SUBSET touched : f[s].incremental = FALSE}
  <2>1. \A s \in SUBSET touched :
          f[s] = IF s = {} THEN Start(target) ELSE Touch(target, docs, Max(s), f[s \ {Max(s)}])
    BY ZenonT(60), <1>2 DEF Loop
  <2>2. {} \in P
    <3>1. Start(target).incremental = FALSE
      BY ZenonT(60), <1>3 DEF Start, Incremental
    <3> QED BY ZenonT(60), <2>1, <3>1
  <2>3. ASSUME NEW s \in SUBSET touched, s # {}, s \ {Max(s)} \in P
        PROVE  s \in P
    BY ZenonT(60), <2>1, <2>3 DEF Touch
  <2>4. touched \in P
    <3> HIDE DEF P
    <3> QED BY ZenonT(60), <1>1, <2>2, <2>3, KeyInduction
  <2> QED BY ZenonT(60), <1>2, <2>4
<1>4. CASE Incremental(spec)
  <2>1. Following(work, spec, old, docs, touched)
    BY ZenonT(60), <1>2, <1>4, LoopFollows
  <2>2. \A k \in spec.keys : Mixed(old, docs, touched)[k] = docs[k]
    BY ZenonT(60), <1>1 DEF Mixed
  <2>3. evaluate(spec, Mixed(old, docs, touched)) = evaluate(spec, docs)
    BY ZenonT(60), <2>2, EvaluateAgrees
  <2>4. PICK changes \in Seq(Change) :
            /\ work = Exact(spec, Mixed(old, docs, touched), changes)
            /\ Leads(changes, evaluate(spec, old).documents,
                     evaluate(spec, Mixed(old, docs, touched)).documents)
            /\ Reports(changes, docs)
    BY ZenonT(60), <2>1 DEF Following
  <2>5. work = Exact(spec, docs, changes)
    BY ZenonT(60), <2>3, <2>4 DEF Exact
  <2> QED BY ZenonT(60), <2>3, <2>4, <2>5 DEF Views
<1> QED BY ZenonT(60), <1>3, <1>4

(***************************************************************************)
(* Refreshing.                                                              *)
(***************************************************************************)

\* A loop over a set of keys in their order, given by the function of its step.
Folded(f, S, start, touched, step) ==
    /\ f \in [SUBSET touched -> S]
    /\ \A s \in SUBSET touched :
         f[s] = IF s = {} THEN start ELSE step[<<Max(s), f[s \ {Max(s)}]>>]

\* There is such a loop.
LEMMA FoldExists ==
    ASSUME NEW S, NEW start \in S, NEW touched, touched \subseteq Nat, IsFiniteSet(touched),
           NEW step \in [touched \X S -> S]
    PROVE  \E f : Folded(f, S, start, touched, step)
<1> DEFINE Value(f, s) == IF s = {} THEN start ELSE step[<<Max(s), f[s \ {Max(s)}]>>]
           Upto(t, f) == f \in [SUBSET touched -> S] /\ \A s \in SUBSET t : f[s] = Value(f, s)
           P == {t \in SUBSET touched : \E f : Upto(t, f)}
<1>1. \A s \in SUBSET touched : s # {} => Max(s) \in s /\ \A l \in s : l <= Max(s)
  <2>1. \A s \in SUBSET touched : s \subseteq Nat /\ IsFiniteSet(s)
    BY ZenonT(60), FS_Subset
  <2> QED BY ZenonT(60), <2>1, LastKey
<1>2. {} \in P
  <2> DEFINE f == [s \in SUBSET touched |-> start]
  <2>1. Upto({}, f)
    OBVIOUS
  <2> QED BY ZenonT(60), <2>1
<1>3. ASSUME NEW t \in SUBSET touched, t # {}, t \ {Max(t)} \in P
      PROVE  t \in P
  <2> DEFINE k == Max(t)
             r == t \ {k}
  <2>1. PICK f : Upto(r, f)
    BY ZenonT(60), <1>3
  <2> DEFINE g == [s \in SUBSET touched |-> IF k \in s /\ s \subseteq t THEN step[<<k, f[s \ {k}]>>] ELSE f[s]]
  <2>2. k \in t /\ k \in touched /\ \A l \in t : l <= k
    BY ZenonT(60), <1>1, <1>3
  <2>3. g \in [SUBSET touched -> S]
    BY ZenonT(60), <2>1, <2>2
  <2>4. ASSUME NEW s \in SUBSET t
        PROVE  g[s] = Value(g, s)
    <3>1. CASE k \in s
      <4>1. Max(s) = k
        <5>1. Max(s) \in s /\ \A l \in s : l <= Max(s)
          BY ZenonT(60), <1>1, <3>1
        <5>2. Max(s) \in Nat /\ k \in Nat /\ Max(s) <= k /\ k <= Max(s)
          BY ZenonT(60), <2>2, <3>1, <5>1
        <5> QED BY SMTT(60), <5>2
      <4>2. g[s] = step[<<k, f[s \ {k}]>>] /\ g[s \ {k}] = f[s \ {k}]
        BY ZenonT(60), <2>2, <3>1
      <4> HIDE DEF g, k
      <4> QED BY ZenonT(60), <3>1, <4>1, <4>2
    <3>2. CASE k \notin s
      <4>1. s \in SUBSET r /\ g[s] = f[s] /\ s \in SUBSET touched
        BY ZenonT(60), <3>2
      <4>2. f[s] = Value(f, s)
        BY ZenonT(60), <2>1, <4>1
      <4>3. s # {} => g[s \ {Max(s)}] = f[s \ {Max(s)}]
        BY ZenonT(60), <3>2
      <4> HIDE DEF g, k
      <4> QED BY ZenonT(60), <4>1, <4>2, <4>3
    <3> QED BY ZenonT(60), <3>1, <3>2
  <2> HIDE DEF g, Value
  <2>5. Upto(t, g)
    BY ZenonT(60), <2>3, <2>4
  <2> QED BY ZenonT(60), <2>5
<1>4. touched \in P
  <2> HIDE DEF P
  <2> QED BY ZenonT(60), <1>2, <1>3, KeyInduction
<1>5. PICK f : Upto(touched, f)
  BY ZenonT(60), <1>4
<1> QED BY ZenonT(60), <1>5 DEF Folded

\* One key of Difference, and its loop as a function of the keys it has passed.
Transition(before, after, docs, k, changes) ==
    IF k \notin DOMAIN after THEN Append(changes, Gone(k, docs))
    ELSE IF k \in DOMAIN before /\ before[k] = after[k] THEN changes
    ELSE Append(changes, Upsert(k, after[k]))

Passes(f, before, after, docs) ==
    f = [s \in SUBSET (DOMAIN before \cup DOMAIN after) |->
           IF s = {} THEN <<>> ELSE Transition(before, after, docs, Max(s), f[s \ {Max(s)}])]

\* Difference is the end of that loop.
LEMMA DifferenceLoop ==
    ASSUME NEW before, NEW after, NEW docs
    PROVE  Difference(before, after, docs) =
             (CHOOSE f : Passes(f, before, after, docs))[DOMAIN before \cup DOMAIN after]
BY ZenonT(60) DEF Difference, MapThenFoldSet, Passes, Transition

\* A client's documents after some of the keys.
Passed(before, R, docs, s) ==
    [k \in (DOMAIN before \ s) \cup (R \cap s) |-> IF k \in s THEN docs[k] ELSE before[k]]

\* One key takes a client on.
LEMMA TransitionExact ==
    ASSUME NEW docs \in Documents, NEW R \in SUBSET Keys, \A l \in R : docs[l] # Absent,
           NEW before, DOMAIN before \subseteq Keys, NEW s, NEW k \in Keys, k \notin s,
           k \in DOMAIN before \cup R, NEW changes \in Seq(Change)
    PROVE  \E added \in Seq(Change) :
             /\ Transition(before, Shown(R, docs), docs, k, changes) = changes \o added
             /\ Says(added, docs, Passed(before, R, docs, s), Passed(before, R, docs, s \cup {k}))
<1> DEFINE from == Passed(before, R, docs, s)
           to == Passed(before, R, docs, s \cup {k})
           after == Shown(R, docs)
<1>1. /\ DOMAIN after = R /\ \A l \in R : after[l] = docs[l]
      /\ Gone(k, docs) \in Change
  BY ZenonT(60), ChangeFacts DEF Shown
<1>2. CASE k \notin R
  <2>1. to = Without(from, k)
    BY ZenonT(60), <1>2 DEF Passed, Without
  <2>2. Transition(before, after, docs, k, changes) = changes \o <<Gone(k, docs)>>
    BY ZenonT(60), <1>1, <1>2, Appended DEF Transition
  <2>3. Says(<<Gone(k, docs)>>, docs, from, to) /\ <<Gone(k, docs)>> \in Seq(Change)
    <3> HIDE DEF from, to
    <3> QED BY SMTT(60), <1>1, <2>1, SaysGone
  <2> QED BY ZenonT(60), <2>2, <2>3
<1>3. CASE k \in R /\ k \in DOMAIN before /\ before[k] = docs[k]
  <2>1. to = from
    BY ZenonT(60), <1>3 DEF Passed
  <2>2. Transition(before, after, docs, k, changes) = changes
    BY ZenonT(60), <1>1, <1>3 DEF Transition
  <2>3. changes = changes \o <<>> /\ <<>> \in Seq(Change)
    BY SMTT(60)
  <2>4. Says(<<>>, docs, from, to)
    BY ZenonT(60), <2>1, SaysNothing
  <2> QED BY ZenonT(60), <2>2, <2>3, <2>4
<1>4. CASE k \in R /\ ~(k \in DOMAIN before /\ before[k] = docs[k])
  <2> DEFINE x == Upsert(k, docs[k])
  <2>1. x \in Change
    BY ZenonT(60), <1>4, ChangeFacts
  <2>2. to = With(from, k, docs[k])
    BY ZenonT(60), <1>4 DEF Passed, With
  <2>3. Transition(before, after, docs, k, changes) = changes \o <<x>>
    <3>1. Transition(before, after, docs, k, changes) = Append(changes, x)
      BY ZenonT(60), <1>1, <1>4 DEF Transition
    <3> HIDE DEF x
    <3> QED BY ZenonT(60), <2>1, <3>1, Appended
  <2>4. Says(<<x>>, docs, from, to) /\ <<x>> \in Seq(Change)
    <3> HIDE DEF from, to
    <3> QED BY SMTT(60), <1>4, <2>1, <2>2, SaysUpsert
  <2> QED BY ZenonT(60), <2>3, <2>4
<1> QED BY ZenonT(60), <1>2, <1>3, <1>4

\* Difference: its changes take a client from one view to the other.
LEMMA DifferenceExact ==
    ASSUME NEW docs \in Documents, NEW R \in SUBSET Keys, \A l \in R : docs[l] # Absent,
           NEW before, before = [k \in DOMAIN before |-> before[k]], DOMAIN before \subseteq Keys
    PROVE  LET changes == Difference(before, Shown(R, docs), docs)
           IN  /\ changes \in Seq(Change)
               /\ Leads(changes, before, Shown(R, docs))
               /\ Reports(changes, docs)
<1> DEFINE after == Shown(R, docs)
           U == DOMAIN before \cup DOMAIN after
<1>1. /\ DOMAIN after = R /\ U \subseteq Nat /\ IsFiniteSet(U) /\ U \subseteq Keys
      /\ \A s \in SUBSET U : s # {} => Max(s) \in s
  <2>1. DOMAIN after = R /\ U \subseteq Keys
    BY ZenonT(60) DEF Shown
  <2>2. U \subseteq Nat /\ IsFiniteSet(U)
    BY ZenonT(60), <2>1, KeysAssumption, FS_Subset
  <2>3. \A s \in SUBSET U : s \subseteq Nat /\ IsFiniteSet(s)
    BY ZenonT(60), <2>2, FS_Subset
  <2> QED BY ZenonT(60), <2>1, <2>2, <2>3, LastKey
<1>2. \A k \in U, changes \in Seq(Change) : Transition(before, after, docs, k, changes) \in Seq(Change)
  <2>1. \A k \in U : Gone(k, docs) \in Change /\ (k \in R => Upsert(k, after[k]) \in Change)
    BY SMTT(60), <1>1, ChangeFacts DEF Shown
  <2> HIDE DEF after
  <2> QED BY SMTT(60), <1>1, <2>1 DEF Transition
<1>3. \E f : Passes(f, before, after, docs)
  <2> DEFINE step == [p \in U \X Seq(Change) |-> Transition(before, after, docs, p[1], p[2])]
  <2>1. step \in [U \X Seq(Change) -> Seq(Change)]
    BY ZenonT(60), <1>2
  <2>2. PICK f : Folded(f, Seq(Change), <<>>, U, step)
    <3> HIDE DEF step, U
    <3>1. <<>> \in Seq(Change)
      BY SMTT(60)
    <3> QED BY ZenonT(60), <1>1, <2>1, <3>1, FoldExists
  <2>3. \A s \in SUBSET U : s # {} => f[s] = Transition(before, after, docs, Max(s), f[s \ {Max(s)}])
    BY ZenonT(60), <1>1, <2>2 DEF Folded
  <2>4. f = [s \in SUBSET U |->
               IF s = {} THEN <<>> ELSE Transition(before, after, docs, Max(s), f[s \ {Max(s)}])]
    BY ZenonT(60), <2>2, <2>3 DEF Folded
  <2> QED BY ZenonT(60), <2>4 DEF Passes
<1>4. PICK f : Passes(f, before, after, docs) /\ Difference(before, after, docs) = f[U]
  BY ZenonT(60), <1>3, DifferenceLoop
<1> DEFINE mid(s) == Passed(before, R, docs, s)
           P == {s \in SUBSET U : /\ f[s] \in Seq(Change) /\ Leads(f[s], before, mid(s))
                                  /\ Reports(f[s], docs)}
<1>5. \A s \in SUBSET U :
        f[s] = IF s = {} THEN <<>> ELSE Transition(before, after, docs, Max(s), f[s \ {Max(s)}])
  BY ZenonT(60), <1>4 DEF Passes
<1>6. {} \in P
  <2>1. f[{}] = <<>>
    BY ZenonT(60), <1>5
  <2>2. mid({}) = before
    BY ZenonT(60) DEF Passed
  <2> QED BY ZenonT(60), <2>1, <2>2, LeadsNowhere
<1>7. ASSUME NEW s \in SUBSET U, s # {}, s \ {Max(s)} \in P
      PROVE  s \in P
  <2> DEFINE k == Max(s)
             t == s \ {k}
  <2>1. k \in s /\ k \in Keys /\ k \notin t /\ k \in DOMAIN before \cup R /\ s = t \cup {k}
    BY SMTT(60), <1>1, <1>7
  <2>2. f[t] \in Seq(Change) /\ Leads(f[t], before, mid(t)) /\ Reports(f[t], docs)
    BY ZenonT(60), <1>7
  <2>3. f[s] = Transition(before, after, docs, k, f[t])
    BY ZenonT(60), <1>5, <1>7
  <2> HIDE DEF t, k
  <2>4. PICK added \in Seq(Change) : /\ Transition(before, after, docs, k, f[t]) = f[t] \o added
                                     /\ Says(added, docs, mid(t), mid(t \cup {k}))
    BY ZenonT(60), <2>1, <2>2, TransitionExact
  <2>5. f[s] = f[t] \o added /\ Says(added, docs, mid(t), mid(s))
    BY ZenonT(60), <2>1, <2>3, <2>4
  <2>6. /\ f[t] \o added \in Seq(Change) /\ Leads(f[t] \o added, before, mid(s))
        /\ Reports(f[t] \o added, docs)
    <3> HIDE DEF mid
    <3> QED BY ZenonT(60), <2>2, <2>5, SaysMore
  <2> QED BY ZenonT(60), <2>5, <2>6
<1>8. U \in P
  <2> HIDE DEF P, U
  <2> QED BY ZenonT(60), <1>1, <1>6, <1>7, KeyInduction
<1>9. mid(U) = after
  BY SMTT(60), <1>1 DEF Passed, Shown
<1> QED BY ZenonT(60), <1>4, <1>8, <1>9

\* A view shows keys of the store that are there.
LEMMA ViewFacts ==
    ASSUME NEW spec \in TargetSpec, NEW docs \in Documents
    PROVE  /\ Results(spec, docs) \in SUBSET Keys
           /\ \A k \in Results(spec, docs) : docs[k] # Absent
           /\ evaluate(spec, docs).documents = Shown(Results(spec, docs), docs)
           /\ DOMAIN evaluate(spec, docs).documents \subseteq Keys
           /\ LET d == evaluate(spec, docs).documents IN d = [k \in DOMAIN d |-> d[k]]
<1> DEFINE R == Results(spec, docs)
           d == evaluate(spec, docs).documents
<1>1. R \in SUBSET Keys /\ \A k \in R : docs[k] # Absent
  BY ZenonT(60) DEF Results, Matches, TargetSpec
<1>2. d = Shown(R, docs)
  BY ZenonT(60), Evaluated
<1> HIDE DEF R, d
<1>3. DOMAIN d = R /\ d = [k \in DOMAIN d |-> d[k]]
  BY ZenonT(60), <1>2 DEF Shown
<1> QED BY ZenonT(60), <1>1, <1>2, <1>3 DEF R, d

\* initialize shows the snapshot.
LEMMA InitializeExact ==
    ASSUME NEW spec \in TargetSpec, NEW snapshot, snapshot.documents \in Documents
    PROVE  Refreshes(initialize(spec, snapshot), spec, <<>>, snapshot)
<1> DEFINE docs == snapshot.documents
           R == Results(spec, docs)
           none == <<>>
           c == Difference(none, Shown(R, docs), docs)
<1>1. /\ R \in SUBSET Keys /\ \A k \in R : docs[k] # Absent
      /\ evaluate(spec, docs).documents = Shown(R, docs)
  BY ZenonT(60), ViewFacts
<1>2. none = [k \in DOMAIN none |-> none[k]] /\ DOMAIN none \subseteq Keys
  BY SMTT(60)
<1>3. /\ initialize(spec, snapshot).target = Target(spec, docs, snapshot.revision)
      /\ initialize(spec, snapshot).changes = c
  BY ZenonT(60), <1>1 DEF initialize, Target
<1>4. c \in Seq(Change) /\ Leads(c, none, Shown(R, docs)) /\ Reports(c, docs)
  <2> HIDE DEF docs, R, none
  <2>1. docs \in Documents
    BY ZenonT(60) DEF docs
  <2> QED BY ZenonT(60), <1>1, <1>2, <2>1, DifferenceExact
<1> QED BY ZenonT(60), <1>1, <1>3, <1>4 DEF Refreshes

\* refresh shows the snapshot.
LEMMA RefreshExact ==
    ASSUME NEW spec \in TargetSpec, NEW old \in Documents, NEW r,
           NEW snapshot, snapshot.documents \in Documents
    PROVE  Refreshes(refresh(Target(spec, old, r), snapshot), spec,
                     evaluate(spec, old).documents, snapshot)
<1> DEFINE docs == snapshot.documents
           R == Results(spec, docs)
           before == evaluate(spec, old).documents
           c == Difference(before, Shown(R, docs), docs)
<1>1. /\ R \in SUBSET Keys /\ \A k \in R : docs[k] # Absent
      /\ evaluate(spec, docs).documents = Shown(R, docs)
  BY ZenonT(60), ViewFacts
<1>2. before = [k \in DOMAIN before |-> before[k]] /\ DOMAIN before \subseteq Keys
  BY ZenonT(60), ViewFacts
<1>3. /\ refresh(Target(spec, old, r), snapshot).target = Target(spec, docs, snapshot.revision)
      /\ refresh(Target(spec, old, r), snapshot).changes = c
  BY ZenonT(60), <1>1 DEF refresh, Target
<1>4. c \in Seq(Change) /\ Leads(c, before, Shown(R, docs)) /\ Reports(c, docs)
  <2> HIDE DEF docs, R, before
  <2>1. docs \in Documents
    BY ZenonT(60) DEF docs
  <2> QED BY ZenonT(60), <1>1, <1>2, <2>1, DifferenceExact
<1> QED BY ZenonT(60), <1>1, <1>3, <1>4 DEF Refreshes

\* refresh_with_changes, by whichever of its ways: the target it returns is a full
\* evaluation at the snapshot, and its batch leads a client from the old view to the
\* new one and reports what is stored, when a history that is all retained names
\* every key of the target that changed.
THEOREM RefreshWithChangesExact ==
    ASSUME NEW spec \in TargetSpec, NEW old \in Documents, NEW r \in Nat,
           NEW snapshot, snapshot.documents \in Documents, snapshot.revision \in Nat, NEW history,
           history.retained /\ r <= snapshot.revision =>
               \A k \in spec.keys \ Touched(Target(spec, old, r), snapshot, history) :
                   snapshot.documents[k] = old[k]
    PROVE  Refreshes(refresh_with_changes(Target(spec, old, r), snapshot, history), spec,
                     evaluate(spec, old).documents, snapshot)
<1> DEFINE target == Target(spec, old, r)
           docs == snapshot.documents
           touched == Touched(target, snapshot, history)
           work == apply_touched(target, docs, touched)
           result == refresh_with_changes(target, snapshot, history)
<1>1. /\ target.spec = spec /\ target.revision = r
      /\ target.documents = evaluate(spec, old).documents
      /\ target.order_keys = evaluate(spec, old).order_keys
  BY ZenonT(60) DEF Target
<1>2. Views(target, old) /\ touched \in SUBSET spec.keys
  BY ZenonT(60), <1>1 DEF Views, Touched
<1>3. CASE snapshot.revision < r \/ ~history.retained
  <2>1. result = refresh(target, snapshot)
    BY ZenonT(60), <1>1, <1>3 DEF refresh_with_changes
  <2> QED BY ZenonT(60), <2>1, RefreshExact
<1>4. CASE ~(snapshot.revision < r \/ ~history.retained)
  <2>1. \A k \in spec.keys \ touched : docs[k] = old[k]
    BY SMTT(60), <1>4
  <2>2. CASE touched = {}
    <3>1. result = [target |-> [target EXCEPT !.revision = snapshot.revision], changes |-> <<>>]
      <4> HIDE DEF target
      <4> QED BY ZenonT(60), <1>1, <1>4, <2>2 DEF refresh_with_changes
    <3>2. evaluate(spec, docs) = evaluate(spec, old)
      BY ZenonT(60), <2>1, <2>2, EvaluateAgrees
    <3>3. [target EXCEPT !.revision = snapshot.revision] = Target(spec, docs, snapshot.revision)
      BY SMTT(60), <3>2 DEF Target
    <3>4. result.target = Target(spec, docs, snapshot.revision) /\ result.changes = <<>>
      <4> HIDE DEF target, result
      <4> QED BY ZenonT(60), <3>1, <3>3
    <3> QED BY ZenonT(60), <3>2, <3>4, LeadsNowhere DEF Refreshes
  <2>3. CASE touched # {} /\ work.incremental = FALSE
    <3>1. result = refresh(target, snapshot)
      <4> HIDE DEF target
      <4> QED BY ZenonT(60), <1>1, <1>4, <2>3 DEF refresh_with_changes
    <3> QED BY ZenonT(60), <3>1, RefreshExact
  <2>4. CASE touched # {} /\ work.incremental # FALSE
    <3>1. PICK changes \in Seq(Change) :
            /\ work = Exact(spec, docs, changes)
            /\ Leads(changes, target.documents, evaluate(spec, docs).documents)
            /\ Reports(changes, docs)
      <4> HIDE DEF target, touched
      <4> QED BY ZenonT(60), <1>1, <1>2, <2>1, <2>4, ApplyTouchedExact
    <3>2. /\ work.incremental = TRUE /\ work.changes = changes
          /\ work.documents = evaluate(spec, docs).documents
          /\ work.order_keys = evaluate(spec, docs).order_keys
      <4> HIDE DEF work
      <4> QED BY ZenonT(60), <3>1 DEF Exact
    <3>3. result = [target |-> [target EXCEPT !.documents = work.documents,
                                              !.order_keys = work.order_keys,
                                              !.revision = snapshot.revision],
                    changes |-> work.changes]
      <4> HIDE DEF target
      <4> QED BY ZenonT(60), <1>1, <1>4, <2>4, <3>2 DEF refresh_with_changes
    <3> HIDE DEF work, result, touched
    <3>4. /\ result.target = Target(spec, docs, snapshot.revision)
          /\ result.changes = changes
      BY ZenonT(60), <3>2, <3>3 DEF Target
    <3>5. Leads(changes, evaluate(spec, old).documents, evaluate(spec, docs).documents)
      <4> HIDE DEF target
      <4> QED BY ZenonT(60), <1>1, <3>1
    <3> HIDE DEF target, docs
    <3> QED BY ZenonT(60), <3>1, <3>4, <3>5 DEF Refreshes, docs, target, result
  <2> QED BY ZenonT(60), <2>2, <2>3, <2>4
<1> QED BY ZenonT(60), <1>3, <1>4

(***************************************************************************)
(* The steps of the stream.                                                 *)
(***************************************************************************)

\* The smallest of some revisions.
LEMMA MinFacts ==
    ASSUME NEW S, S \subseteq Nat, S # {}
    PROVE  Min(S) \in S /\ \A x \in S : Min(S) <= x
<1>1. PICK m \in S : \A y \in S : m <= y
  BY ZenonT(60), LeastElement
<1>2. \E low \in S : \A y \in S : low <= y
  BY ZenonT(60), <1>1
<1> QED BY ZenonT(60), <1>2, ZenonT(60) DEF Min

\* A key that no revision after one changes has the document it had.
LEMMA Unchanged ==
    ASSUME NEW c \in Seq(Documents), NEW r \in Nat, NEW s \in Nat, r <= s, s < Len(c), NEW k \in Keys,
           \A i \in r + 1..s : c[i + 1][k] = c[i][k]
    PROVE  c[s + 1][k] = c[r + 1][k]
<1> DEFINE T == {n \in Nat : r + n <= s => c[r + n + 1][k] = c[r + 1][k]}
<1>1. 0 \in T
  BY SMTT(60)
<1>2. ASSUME NEW n \in T
      PROVE  n + 1 \in T
  <2>1. n \in Nat /\ n + 1 \in Nat
    BY SMTT(60)
  <2>2. ASSUME r + (n + 1) <= s
        PROVE  c[r + (n + 1) + 1][k] = c[r + 1][k]
    <3>1. r + (n + 1) \in r + 1..s /\ r + n <= s /\ r + n + 1 = r + (n + 1)
      BY SMTT(60), <2>1, <2>2
    <3>2. c[r + n + 1][k] = c[r + 1][k]
      BY ZenonT(60), <3>1
    <3> QED BY ZenonT(60), <3>1, <3>2
  <2> QED BY ZenonT(60), <2>1, <2>2
<1>3. T = Nat
  <2> HIDE DEF T
  <2>1. T \subseteq Nat
    BY ZenonT(60) DEF T
  <2> QED BY ZenonT(60), <1>1, <1>2, <2>1, SetInduction
<1>4. s - r \in Nat /\ r + (s - r) = s
  BY SMTT(60)
<1>5. s - r \in T
  BY ZenonT(60), <1>3, <1>4
<1> QED BY SMTT(60), <1>4, <1>5

\* Refreshed: a target that is behind is refreshed to the snapshot.
LEMMA FollowsHistory ==
    ASSUME NEW c \in Seq(Documents), NEW spec \in TargetSpec, NEW target, Shows(target, spec, c),
           NEW s \in 0..Len(c) - 1, target.revision <= s, NEW history,
           Names(history, target.revision, s, c)
    PROVE  Refreshes(refresh_with_changes(target, [documents |-> c[s + 1], revision |-> s], history),
                     spec, target.documents, [documents |-> c[s + 1], revision |-> s])
<1> DEFINE r == target.revision
           old == c[r + 1]
           snapshot == [documents |-> c[s + 1], revision |-> s]
           touched == Touched(target, snapshot, history)
<1>1. /\ r \in Nat /\ s \in Nat /\ s < Len(c) /\ r + 1 \in 1..Len(c) /\ s + 1 \in 1..Len(c)
      /\ target = Target(spec, old, r)
  BY SMTT(60) DEF Shows
<1>2. old \in Documents /\ c[s + 1] \in Documents
  BY SMTT(60), <1>1
<1>3. /\ target.spec = spec /\ target.documents = evaluate(spec, old).documents
      /\ snapshot.documents = c[s + 1] /\ snapshot.revision = s
  <2> HIDE DEF old, r
  <2> QED BY ZenonT(60), <1>1 DEF Target
<1>4. ASSUME history.retained, NEW k \in spec.keys \ touched
      PROVE  c[s + 1][k] = old[k]
  <2>1. k \in Keys
    BY ZenonT(60) DEF TargetSpec
  <2>2. ASSUME NEW i \in r + 1..s, c[i + 1][k] # c[i][k]
        PROVE  FALSE
    <3> DEFINE x == [key |-> k, revision |-> i]
    <3>1. x \in history.changes
      BY ZenonT(60), <1>4, <2>1, <2>2 DEF Names
    <3>2. x.key = k /\ x.revision = i /\ i > r /\ i <= s
      BY SMTT(60), <1>1
    <3>3. k \in touched
      <4> HIDE DEF x, r
      <4> QED BY ZenonT(60), <1>3, <1>4, <3>1, <3>2 DEF Touched, r
    <3> QED BY ZenonT(60), <1>4, <3>3
  <2> QED BY ZenonT(60), <1>1, <2>1, <2>2, Unchanged
<1> HIDE DEF r, old, snapshot, touched
<1>5. Touched(Target(spec, old, r), snapshot, history) = touched
  BY ZenonT(60), <1>1 DEF touched
<1>6. Refreshes(refresh_with_changes(Target(spec, old, r), snapshot, history), spec,
                evaluate(spec, old).documents, snapshot)
  BY ZenonT(60), <1>1, <1>2, <1>3, <1>4, <1>5, RefreshWithChangesExact
<1> QED BY ZenonT(60), <1>1, <1>3, <1>6 DEF snapshot

\* The first content has no document.
LEMMA ListenInit == Init => ListenInv
<1> SUFFICES ASSUME Init PROVE ListenInv
  OBVIOUS
<1>1. StoreInv
  BY SMTT(60) DEF Init, StoreInv, Documents
<1>2. RequestsInv
  <2>1. requests \in Seq({})
    BY SMTT(60) DEF Init
  <2> QED BY SMTT(60), <2>1 DEF RequestsInv
<1>3. TargetsInv
  BY SMTT(60) DEF Init, TargetsInv
<1>4. JobInv
  BY ZenonT(60) DEF Init, JobInv, Idle
<1> QED BY ZenonT(60), <1>1, <1>2, <1>3, <1>4 DEF ListenInv

\* A commit leaves the earlier contents, so what is shown or held stays exact.
LEMMA CommitStep == ListenInv /\ Commit => ListenInv'
<1> SUFFICES ASSUME ListenInv, Commit PROVE ListenInv'
  OBVIOUS
<1>1. PICK k \in Keys,
           d \in {[match |-> shape.match, order |-> shape.order, update_time |-> revision + 1] :
                    shape \in Shapes} \cup {Absent} :
        contents' = Append(contents, [contents[revision + 1] EXCEPT ![k] = d])
  BY ZenonT(60) DEF Commit
<1>2. contents \in Seq(Documents) /\ Len(contents) \in Nat /\ Len(contents) >= 1 /\ revision \in Nat
  BY SMTT(60) DEF ListenInv, StoreInv, revision
<1>3. d \in Document \cup {Absent}
  BY SMTT(60), <1>2, ShapesAssumption DEF Document
<1>4. /\ contents' \in Seq(Documents) /\ Len(contents') = Len(contents) + 1
      /\ \A i \in 1..Len(contents) : contents'[i] = contents[i]
  <2> DEFINE new == [contents[revision + 1] EXCEPT ![k] = d]
  <2>1. new \in Documents
    BY SMTT(60), <1>2, <1>3 DEF Documents, revision
  <2> HIDE DEF new
  <2> QED BY SMTT(60), <1>1, <1>2, <2>1 DEF new
<1>5. UNCHANGED <<requests, targets, job>>
  BY ZenonT(60) DEF Commit
<1>6. StoreInv'
  BY SMTT(60), <1>2, <1>4 DEF StoreInv
<1>7. RequestsInv'
  BY ZenonT(60), <1>5 DEF ListenInv, RequestsInv
<1>8. PICK c : c = contents'
  OBVIOUS
<1>9. TargetsInv'
  <2> SUFFICES ASSUME NEW t \in DOMAIN targets
               PROVE  t \in Targets /\ Shows(targets[t], SpecOf[t], c)
    BY ZenonT(60), <1>5, <1>8 DEF TargetsInv
  <2>1. t \in Targets /\ Shows(targets[t], SpecOf[t], contents)
    BY ZenonT(60) DEF ListenInv, TargetsInv
  <2>2. /\ targets[t].revision \in 0..Len(c) - 1
        /\ c[targets[t].revision + 1] = contents[targets[t].revision + 1]
    BY SMTT(60), <1>2, <1>4, <1>8, <2>1 DEF Shows
  <2> QED BY ZenonT(60), <2>1, <2>2 DEF Shows
<1>10. JobInv'
  <2>1. job.stage # "Idle" =>
           /\ job.snapshot \in 0..revision
           /\ job.request # Absent => job.request.target \in Targets
    BY ZenonT(60) DEF ListenInv, JobInv
  <2>2. job.stage # "Idle" => job.snapshot \in 0..revision' /\ c[job.snapshot + 1] = contents[job.snapshot + 1]
    BY SMTT(60), <1>2, <1>4, <1>8, <2>1 DEF revision
  <2>3. ASSUME job.stage = "Evaluate", NEW t \in Lagging(job.snapshot)
        PROVE  Names(job.history, targets[t].revision, job.snapshot, c)
    <3>1. Names(job.history, targets[t].revision, job.snapshot, contents)
      BY ZenonT(60), <2>3 DEF ListenInv, JobInv
    <3>2. targets[t].revision \in Nat /\ job.snapshot \in 0..revision
      <4>1. job.snapshot \in 0..revision
        BY ZenonT(60), <2>1, <2>3
      <4>2. t \in DOMAIN targets
        BY ZenonT(60) DEF Lagging
      <4>3. targets[t].revision \in 0..Len(contents) - 1
        BY ZenonT(60), <4>2 DEF ListenInv, TargetsInv, Shows
      <4> QED BY SMTT(60), <4>1, <4>3
    <3>3. \A i \in targets[t].revision + 1..job.snapshot : c[i + 1] = contents[i + 1] /\ c[i] = contents[i]
      BY SMTT(60), <1>2, <1>4, <1>8, <3>2 DEF revision
    <3> QED BY SMTT(60), <3>1, <3>3 DEF Names
  <2>4. Lagging(job.snapshot)' = Lagging(job.snapshot)
    BY ZenonT(60), <1>5 DEF Lagging
  <2> QED BY ZenonT(60), <1>5, <1>8, <2>1, <2>2, <2>3, <2>4 DEF ListenInv, JobInv
<1> QED BY ZenonT(60), <1>6, <1>7, <1>9, <1>10 DEF ListenInv

\* A request is taken.
LEMMA RequestTaken ==
    ASSUME RequestsInv, requests # <<>>, requests' = Tail(requests)
    PROVE  RequestsInv' /\ Head(requests).target \in Targets
<1>1. PICK S : requests \in Seq(S) /\ \A q \in S : q.target \in Targets
  BY ZenonT(60) DEF RequestsInv
<1>2. Tail(requests) \in Seq(S) /\ Head(requests) \in S
  BY SMTT(60), <1>1
<1> QED BY ZenonT(60), <1>1, <1>2 DEF RequestsInv

\* One more request is on its way.
LEMMA RequestMade ==
    ASSUME RequestsInv, NEW q, q.target \in Targets, requests' = Append(requests, q)
    PROVE  RequestsInv'
<1>1. PICK S : requests \in Seq(S) /\ \A x \in S : x.target \in Targets
  BY ZenonT(60) DEF RequestsInv
<1>2. Append(requests, q) \in Seq(S \cup {q})
  BY SMTT(60), <1>1
<1> QED BY ZenonT(60), <1>1, <1>2 DEF RequestsInv

\* Steps that leave the store, the targets and the job alone.
LEMMA ViewsKept ==
    ASSUME ListenInv, UNCHANGED <<contents, targets, job>>, RequestsInv'
    PROVE  ListenInv'
BY ZenonT(60) DEF ListenInv, StoreInv, TargetsInv, JobInv, Lagging, revision

\* The steps of the client, and of the connection.
LEMMA ClientSteps ==
    ASSUME ListenInv,
           \/ Receive \/ Disconnect
           \/ \E t \in Targets : StartListening(t) \/ Reconnect(t) \/ StopListening(t)
    PROVE  ListenInv'
<1>1. CASE Receive
  <2>1. RequestsInv'
    BY ZenonT(60), <1>1 DEF Receive, ListenInv, RequestsInv
  <2> QED BY ZenonT(60), <1>1, <2>1, ViewsKept DEF Receive, store
<1>2. CASE Disconnect
  <2>1. requests' = <<>> /\ targets' = <<>> /\ job' = Idle /\ contents' = contents
    BY ZenonT(60), <1>2 DEF Disconnect, store
  <2>2. RequestsInv'
    <3>1. requests' \in Seq({})
      BY SMTT(60), <2>1
    <3> QED BY SMTT(60), <3>1 DEF RequestsInv
  <2> QED BY SMTT(60), <2>1, <2>2 DEF ListenInv, StoreInv, TargetsInv, JobInv, Idle
<1>3. ASSUME NEW t \in Targets, StartListening(t) \/ Reconnect(t) \/ StopListening(t)
      PROVE  ListenInv'
  <2>1. \E q : q.target \in Targets /\ requests' = Append(requests, q)
    <3>1. CASE \E once \in BOOLEAN : Ask(t, once)
      <4>1. PICK once \in BOOLEAN : requests' = Append(requests, AddTarget(t, once))
        BY ZenonT(60), <3>1 DEF Ask
      <4>2. AddTarget(t, once).target = t
        BY ZenonT(60) DEF AddTarget
      <4> QED BY ZenonT(60), <4>1, <4>2
    <3>2. CASE Reconnect(t)
      <4>1. requests' = Append(requests, AddTarget(t, client[t].once))
        BY ZenonT(60), <3>2 DEF Reconnect, Ask
      <4>2. AddTarget(t, client[t].once).target = t
        BY ZenonT(60) DEF AddTarget
      <4> QED BY ZenonT(60), <4>1, <4>2
    <3>3. CASE StopListening(t)
      BY ZenonT(60), <3>3 DEF StopListening
    <3> QED BY ZenonT(60), <1>3, <3>1, <3>2, <3>3 DEF StartListening
  <2>2. RequestsInv'
    BY ZenonT(60), <2>1, RequestMade DEF ListenInv
  <2>3. UNCHANGED <<contents, targets, job>>
    BY ZenonT(60), <1>3 DEF StartListening, Reconnect, StopListening, Ask, store
  <2> QED BY ZenonT(60), <2>2, <2>3, ViewsKept
<1> QED BY ZenonT(60), <1>1, <1>2, <1>3

\* add_target captures the snapshot, or answers with an error.
LEMMA StartAddStep == ListenInv /\ StartAdd => ListenInv'
<1> SUFFICES ASSUME ListenInv, StartAdd PROVE ListenInv'
  OBVIOUS
<1>1. /\ requests # <<>> /\ requests' = Tail(requests) /\ UNCHANGED <<contents, targets>>
      /\ \/ UNCHANGED job
         \/ job' = [stage |-> "Initialize", request |-> Head(requests), snapshot |-> revision]
  BY ZenonT(60) DEF StartAdd, NextRequest, store
<1>2. RequestsInv' /\ Head(requests).target \in Targets
  BY ZenonT(60), <1>1, RequestTaken DEF ListenInv
<1>3. CASE UNCHANGED job
  BY ZenonT(60), <1>1, <1>2, <1>3, ViewsKept
<1>4. CASE job' = [stage |-> "Initialize", request |-> Head(requests), snapshot |-> revision]
  <2>1. /\ job'.stage = "Initialize" /\ job'.snapshot = revision
        /\ job'.request.target \in Targets
    BY ZenonT(60), <1>2, <1>4
  <2>2. revision' = revision /\ revision \in 0..revision
    BY SMTT(60), <1>1 DEF ListenInv, StoreInv, revision
  <2>3. JobInv'
    BY ZenonT(60), <2>1, <2>2 DEF JobInv
  <2> QED BY ZenonT(60), <1>1, <1>2, <2>3 DEF ListenInv, StoreInv, TargetsInv
<1> QED BY ZenonT(60), <1>1, <1>3, <1>4

\* A removed target is gone, and nothing is in progress.
LEMMA HandleRemoveStep == ListenInv /\ HandleRemove => ListenInv'
<1> SUFFICES ASSUME ListenInv, HandleRemove PROVE ListenInv'
  OBVIOUS
<1>1. /\ requests # <<>> /\ requests' = Tail(requests) /\ UNCHANGED <<contents, job>>
      /\ targets' = Without(targets, Head(requests).target) /\ job = Idle
  BY ZenonT(60) DEF HandleRemove, NextRequest, store
<1>2. RequestsInv'
  BY ZenonT(60), <1>1, RequestTaken DEF ListenInv
<1>3. \A t \in DOMAIN targets' : t \in DOMAIN targets /\ targets'[t] = targets[t]
  BY ZenonT(60), <1>1 DEF Without
<1>4. TargetsInv'
  BY ZenonT(60), <1>1, <1>3 DEF ListenInv, TargetsInv
<1>5. JobInv'
  BY ZenonT(60), <1>1 DEF JobInv, Idle
<1> QED BY ZenonT(60), <1>1, <1>2, <1>4, <1>5 DEF ListenInv, StoreInv

\* initialize_target: afresh, resumed or reset, the new target shows the snapshot.
LEMMA InitialShows ==
    ASSUME StoreInv, NEW request, request.target \in Targets, NEW s \in 0..revision
    PROVE  initialize_target(request, s).watch = Target(SpecOf[request.target], contents[s + 1], s)
<1> DEFINE spec == SpecOf[request.target]
           initial == initialize(spec, At(s))
           afresh == [watch |-> initial.target, changes |-> initial.changes,
                      mode |-> "Normal", filter |-> FALSE]
<1>1. spec \in TargetSpec
  BY ZenonT(60), SpecOfAssumption
<1>2. At(s).documents = contents[s + 1] /\ At(s).revision = s
  BY ZenonT(60) DEF At
<1>3. initial.target = Target(spec, contents[s + 1], s)
  BY ZenonT(60), <1>2 DEF initialize, Target
<1>4. resumed_target(spec, request, s).watch = Target(spec, contents[s + 1], s)
  <2> DEFINE baseline == initialize(spec, At(request.token))
  <2>1. baseline.target = Target(spec, At(request.token).documents, At(request.token).revision)
    BY ZenonT(60) DEF initialize, Target
  <2>2. refresh(baseline.target, At(s)).target = Target(spec, contents[s + 1], s)
    <3>1. PICK d, r : baseline.target = Target(spec, d, r)
      BY ZenonT(60), <2>1
    <3>2. refresh(Target(spec, d, r), At(s)).target = Target(spec, At(s).documents, At(s).revision)
      BY ZenonT(60) DEF refresh, Target
    <3> HIDE DEF baseline, spec
    <3> QED BY ZenonT(60), <1>2, <3>1, <3>2
  <2> QED BY ZenonT(60), <2>2 DEF resumed_target
<1>5. \/ initialize_target(request, s) = afresh
      \/ initialize_target(request, s) = resumed_target(spec, request, s)
      \/ initialize_target(request, s) = [afresh EXCEPT !.mode = "Reset"]
  BY ZenonT(60) DEF initialize_target
<1>6. afresh.watch = initial.target /\ [afresh EXCEPT !.mode = "Reset"].watch = initial.target
  <2> HIDE DEF initial
  <2> QED OBVIOUS
<1> HIDE DEF initial, afresh
<1> QED BY ZenonT(60), <1>3, <1>4, <1>5, <1>6

\* The read pool initializes the target.
LEMMA InitializeStep == ListenInv /\ Initialize => ListenInv'
<1> SUFFICES ASSUME ListenInv, Initialize PROVE ListenInv'
  OBVIOUS
<1>1. /\ job.stage = "Initialize" /\ UNCHANGED <<contents, requests, targets>>
      /\ job' = [stage |-> "History", request |-> job.request, snapshot |-> job.snapshot,
                 initial |-> initialize_target(job.request, job.snapshot)]
  BY ZenonT(60) DEF Initialize, store
<1>2. job.snapshot \in 0..revision /\ (job.request # Absent => job.request.target \in Targets)
  BY ZenonT(60), <1>1 DEF ListenInv, JobInv
<1>3. /\ job'.stage = "History" /\ job'.request = job.request /\ job'.snapshot = job.snapshot
      /\ job'.initial = initialize_target(job.request, job.snapshot) /\ revision' = revision
  BY ZenonT(60), <1>1 DEF revision
<1>4. job.request # Absent =>
        job'.initial.watch =
            Target(SpecOf[job.request.target], contents[job.snapshot + 1], job.snapshot)
  BY ZenonT(60), <1>2, <1>3, InitialShows DEF ListenInv
<1>5. JobInv'
  BY ZenonT(60), <1>1, <1>2, <1>3, <1>4 DEF JobInv
<1> QED BY ZenonT(60), <1>1, <1>5 DEF ListenInv, StoreInv, RequestsInv, TargetsInv

\* refresh_targets captures the snapshot.
LEMMA WakeStep == ListenInv /\ Wake => ListenInv'
<1> SUFFICES ASSUME ListenInv, Wake PROVE ListenInv'
  OBVIOUS
<1>1. /\ job' = [stage |-> "History", request |-> Absent, snapshot |-> revision]
      /\ UNCHANGED <<contents, requests, targets>>
  BY ZenonT(60) DEF Wake, store
<1>2. job'.stage = "History" /\ job'.request = Absent /\ job'.snapshot \in 0..revision /\ revision' = revision
  BY SMTT(60), <1>1 DEF ListenInv, StoreInv, revision
<1>3. JobInv'
  BY ZenonT(60), <1>2 DEF JobInv
<1> QED BY ZenonT(60), <1>1, <1>3 DEF ListenInv, StoreInv, RequestsInv, TargetsInv

\* History: the changes since the oldest view name every later change.
LEMMA HistoryNames ==
    ASSUME StoreInv, TargetsInv, NEW s \in 0..revision, NEW t \in DOMAIN targets
    PROVE  Names(History, targets[t].revision, s, contents)
<1> DEFINE S == {targets[u].revision : u \in DOMAIN targets}
           low == Min(S)
<1>1. S \subseteq Nat /\ targets[t].revision \in S
  BY SMTT(60) DEF TargetsInv, Shows
<1>2. low \in Nat /\ low <= targets[t].revision /\ targets[t].revision \in Nat
  BY ZenonT(60), <1>1, MinFacts
<1> HIDE DEF low
<1>3. History = changes_since(low)
  BY ZenonT(60) DEF History, low
<1>4. ASSUME NEW r \in targets[t].revision + 1..s, NEW k \in Keys, contents[r + 1][k] # contents[r][k]
      PROVE  [key |-> k, revision |-> r] \in changes_since(low).changes
  <2>1. r \in low + 1..revision
    BY SMTT(60), <1>2 DEF StoreInv, revision
  <2>2. k \in ChangedBy(r)
    BY ZenonT(60), <1>4 DEF ChangedBy
  <2> QED BY SMTT(60), <2>1, <2>2 DEF changes_since
<1> QED BY ZenonT(60), <1>3, <1>4 DEF Names

\* The task reads the history, when a target is behind.
LEMMA ReadHistoryStep == ListenInv /\ ReadHistory => ListenInv'
<1> SUFFICES ASSUME ListenInv, ReadHistory PROVE ListenInv'
  OBVIOUS
<1>1. /\ job.stage = "History" /\ UNCHANGED <<contents, requests, targets>>
      /\ job' = [stage |-> "Evaluate", request |-> job.request, snapshot |-> job.snapshot,
                 initial |-> IF job.request = Absent THEN Absent ELSE job.initial,
                 history |-> IF Lagging(job.snapshot) = {} THEN Absent ELSE History]
  BY ZenonT(60) DEF ReadHistory, store
<1>2. /\ job.snapshot \in 0..revision
      /\ job.request # Absent =>
           /\ job.request.target \in Targets
           /\ job.initial.watch =
                Target(SpecOf[job.request.target], contents[job.snapshot + 1], job.snapshot)
  BY ZenonT(60), <1>1 DEF ListenInv, JobInv
<1>3. /\ job'.stage = "Evaluate" /\ job'.request = job.request /\ job'.snapshot = job.snapshot
      /\ job.request # Absent => job'.initial = job.initial
      /\ Lagging(job.snapshot) # {} => job'.history = History
      /\ revision' = revision
  BY ZenonT(60), <1>1 DEF revision
<1>4. Lagging(job.snapshot)' = Lagging(job.snapshot)
  BY ZenonT(60), <1>1, <1>3 DEF Lagging
<1>5. ASSUME NEW t \in Lagging(job.snapshot)
      PROVE  Names(job'.history, targets[t].revision, job.snapshot, contents)
  <2>1. t \in DOMAIN targets
    BY ZenonT(60) DEF Lagging
  <2> QED BY ZenonT(60), <1>2, <1>3, <2>1, HistoryNames DEF ListenInv
<1>6. JobInv'
  BY ZenonT(60), <1>1, <1>2, <1>3, <1>4, <1>5 DEF JobInv
<1> QED BY ZenonT(60), <1>1, <1>6 DEF ListenInv, StoreInv, RequestsInv, TargetsInv

\* Refreshed: after an evaluation every target shows a content of the store.
LEMMA RefreshedShows ==
    ASSUME ListenInv, job.stage = "Evaluate", NEW t \in DOMAIN targets
    PROVE  /\ Shows(Refreshed(t).target, SpecOf[t], contents)
           /\ targets[t].revision < job.snapshot =>
                Refreshes(Refreshed(t), SpecOf[t], targets[t].documents, At(job.snapshot))
<1>1. /\ t \in Targets /\ SpecOf[t] \in TargetSpec /\ Shows(targets[t], SpecOf[t], contents)
      /\ contents \in Seq(Documents) /\ job.snapshot \in 0..Len(contents) - 1
      /\ targets[t].revision \in Nat /\ job.snapshot \in Nat
  <2>1. t \in Targets /\ Shows(targets[t], SpecOf[t], contents) /\ contents \in Seq(Documents)
    BY ZenonT(60) DEF ListenInv, TargetsInv, StoreInv
  <2>2. job.snapshot \in 0..Len(contents) - 1
    BY ZenonT(60) DEF ListenInv, JobInv, revision
  <2> QED BY SMTT(60), <2>1, <2>2, SpecOfAssumption DEF Shows
<1>2. CASE targets[t].revision >= job.snapshot
  <2>1. Refreshed(t).target = targets[t]
    BY ZenonT(60), <1>2 DEF Refreshed
  <2> QED BY SMTT(60), <1>1, <1>2, <2>1
<1>3. CASE ~(targets[t].revision >= job.snapshot)
  <2> DEFINE s == job.snapshot
             result == refresh_with_changes(targets[t], At(s), job.history)
  <2>1. Refreshed(t) = result
    BY ZenonT(60), <1>3 DEF Refreshed
  <2>2. targets[t].revision < s /\ targets[t].revision <= s /\ t \in Lagging(s)
    BY SMTT(60), <1>1, <1>3 DEF Lagging
  <2>3. Names(job.history, targets[t].revision, s, contents)
    BY ZenonT(60), <2>2 DEF ListenInv, JobInv
  <2>4. At(s) = [documents |-> contents[s + 1], revision |-> s]
    BY ZenonT(60) DEF At
  <2>5. Refreshes(result, SpecOf[t], targets[t].documents, At(s))
    <3> HIDE DEF s
    <3> QED BY ZenonT(60), <1>1, <2>2, <2>3, <2>4, FollowsHistory DEF s
  <2>6. result.target = Target(SpecOf[t], contents[s + 1], s)
    <3> HIDE DEF s, result
    <3> QED BY SMTT(60), <2>4, <2>5 DEF Refreshes
  <2>7. result.target.revision = s
    <3> HIDE DEF s, result
    <3> QED BY SMTT(60), <2>6 DEF Target
  <2> HIDE DEF result
  <2> QED BY ZenonT(60), <1>1, <2>1, <2>5, <2>6, <2>7 DEF Shows
<1> QED BY ZenonT(60), <1>2, <1>3

\* The end of a refresh.
LEMMA EvaluateStep == ListenInv /\ Evaluate => ListenInv'
<1> SUFFICES ASSUME ListenInv, Evaluate PROVE ListenInv'
  OBVIOUS
<1>1. PICK denied \in SUBSET Lagging(job.snapshot) :
        LET kept == [t \in DOMAIN targets \ denied |-> Refreshed(t).target]
        IN  \/ targets' = kept
            \/ /\ job.request # Absent
               /\ targets' = With(kept, job.request.target, job.initial.watch)
  BY ZenonT(60) DEF Evaluate
<1> DEFINE kept == [t \in DOMAIN targets \ denied |-> Refreshed(t).target]
<1>2. job.stage = "Evaluate" /\ job' = Idle /\ UNCHANGED <<contents, requests>>
  BY ZenonT(60) DEF Evaluate, store
<1>3. \A t \in DOMAIN kept : t \in Targets /\ Shows(kept[t], SpecOf[t], contents)
  BY ZenonT(60), <1>2, RefreshedShows DEF ListenInv, TargetsInv
<1>4. TargetsInv'
  <2>1. CASE targets' = kept
    <3> HIDE DEF kept
    <3> QED BY ZenonT(60), <1>2, <1>3, <2>1 DEF TargetsInv
  <2>2. CASE job.request # Absent /\ targets' = With(kept, job.request.target, job.initial.watch)
    <3> DEFINE u == job.request.target
    <3>1. /\ u \in Targets /\ job.snapshot \in 0..Len(contents) - 1
          /\ job.initial.watch = Target(SpecOf[u], contents[job.snapshot + 1], job.snapshot)
      BY ZenonT(60), <1>2, <2>2 DEF ListenInv, JobInv, revision
    <3>2. job.initial.watch.revision = job.snapshot
      BY SMTT(60), <3>1 DEF Target
    <3>3. Shows(job.initial.watch, SpecOf[u], contents)
      BY ZenonT(60), <3>1, <3>2 DEF Shows
    <3> HIDE DEF kept, u
    <3>4. /\ DOMAIN targets' = DOMAIN kept \cup {u}
          /\ \A t \in DOMAIN targets' : targets'[t] = IF t = u THEN job.initial.watch ELSE kept[t]
      BY ZenonT(60), <2>2 DEF With, u
    <3>5. \A t \in DOMAIN targets' : t \in Targets /\ Shows(targets'[t], SpecOf[t], contents)
      BY ZenonT(60), <1>3, <3>1, <3>3, <3>4
    <3> QED BY ZenonT(60), <1>2, <3>5 DEF TargetsInv
  <2> QED BY ZenonT(60), <1>1, <2>1, <2>2
<1>5. JobInv'
  BY ZenonT(60), <1>2 DEF JobInv, Idle
<1> QED BY ZenonT(60), <1>2, <1>4, <1>5 DEF ListenInv, StoreInv, RequestsInv

\* Every step keeps the invariant.
LEMMA ListenNext == ListenInv /\ [Next]_vars => ListenInv'
<1> SUFFICES ASSUME ListenInv, [Next]_vars PROVE ListenInv'
  OBVIOUS
<1>1. CASE UNCHANGED vars
  <2>1. UNCHANGED <<contents, requests, targets, job>>
    BY ZenonT(60), <1>1 DEF vars
  <2>2. RequestsInv'
    BY ZenonT(60), <2>1 DEF ListenInv, RequestsInv
  <2> QED BY ZenonT(60), <2>1, <2>2, ViewsKept
<1>2. CASE Next
  BY ZenonT(60), <1>2, CommitStep, StartAddStep, HandleRemoveStep, WakeStep, InitializeStep, ReadHistoryStep,
     EvaluateStep, ClientSteps DEF Next
<1> QED BY ZenonT(60), <1>1, <1>2

\* The inductive invariant of the stream's targets holds, for any number of
\* targets, keys and commits, and whatever the client and the connection do.
THEOREM ListenInvariant == Spec => []ListenInv
<1>1. Init => ListenInv
  BY ZenonT(60), ListenInit
<1>2. ListenInv /\ [Next]_vars => ListenInv'
  BY ZenonT(60), ListenNext
<1> QED BY <1>1, <1>2, PTL DEF Spec

\* Every active target shows exactly the evaluation of its specification at the
\* revision it claims: refresh_with_changes may follow a view key by key, from a
\* history that was read after the snapshot and reaches past it, and fall back to
\* a full evaluation, and nobody can tell.
THEOREM ViewsExactAlways == Spec => []ViewsExact
<1>1. ListenInv => ViewsExact
  <2> SUFFICES ASSUME ListenInv, NEW t \in DOMAIN targets
               PROVE  targets[t].documents =
                        evaluate(SpecOf[t], At(targets[t].revision).documents).documents
    BY ZenonT(60) DEF ViewsExact
  <2> DEFINE r == targets[t].revision
  <2>1. targets[t] = Target(SpecOf[t], contents[r + 1], r)
    BY ZenonT(60) DEF ListenInv, TargetsInv, Shows
  <2>2. At(r).documents = contents[r + 1]
    BY ZenonT(60) DEF At
  <2> HIDE DEF r
  <2>3. targets[t].documents = evaluate(SpecOf[t], contents[r + 1]).documents
    BY SMTT(60), <2>1 DEF Target
  <2> QED BY ZenonT(60), <2>2, <2>3 DEF r
<1> QED BY <1>1, ListenInvariant, PTL
=============================================================================
