------------------------- MODULE ListenConversation -------------------------
(***************************************************************************)
(* What a stream and its client say to each other: what each kind of        *)
(* response and request does to a conversation, for any values, and the     *)
(* steps that do not depend on what a refresh computes.                     *)
(***************************************************************************)
EXTENDS ListenInvariants, FiniteSetTheorems, TLAPS

(***************************************************************************)
(* What a client makes of the responses.                                    *)
(***************************************************************************)

\* A response that is not for a target, and a checkpoint it is not listening for,
\* leave it alone.
LEMMA Ignored ==
    ASSUME NEW x, NEW t, NEW m,
           \/ m.kind # "NoChange" /\ ~Concerns(m, t)
           \/ m.kind = "NoChange" /\ x.state # "on"
           \/ m.kind # "Removed" /\ x.state = "removing"
           \/ x.state \in {"off", "lost"}
    PROVE  Understood(x, t, m) = x
BY ZenonT(60) DEF Understood, Concerns

\* A checkpoint: what is pending is held from now on.
LEMMA UnderstoodNoChange ==
    ASSUME NEW x, x = Client(x.state, x.once, x.held, x.pending, x.token), NEW t, NEW m,
           m.kind = "NoChange", x.state = "on"
    PROVE  Understood(x, t, m) =
             Client(IF x.once THEN "off" ELSE "on", x.once, x.pending, x.pending, m.token)
<1>1. Understood(x, t, m) = [x EXCEPT !.held = x.pending, !.token = m.token,
                                      !.state = IF x.once THEN "off" ELSE "on"]
  BY ZenonT(60) DEF Understood
<1>2. PICK a, b, d, e, f : x = Client(a, b, d, e, f)
  OBVIOUS
<1> QED BY ZenonT(60), <1>1, <1>2 DEF Client

\* The target is added, reset, and told of its documents.
LEMMA UnderstoodUpdate ==
    ASSUME NEW x, x = Client(x.state, x.once, x.held, x.pending, x.token), NEW t, NEW m, m.target = t
    PROVE  /\ m.kind = "Add" /\ x.state = "asked" =>
                Understood(x, t, m) = Client("on", x.once, x.held, x.pending, x.token)
           /\ m.kind = "Reset" /\ x.state = "on" =>
                Understood(x, t, m) = Client("on", x.once, x.held, <<>>, x.token)
           /\ m.kind = "Document" /\ x.state = "on" =>
                Understood(x, t, m) = Client("on", x.once, x.held, Heeded(x.pending, m.change), x.token)
<1>1. PICK a, b, d, e, f : x = Client(a, b, d, e, f)
  OBVIOUS
<1>2. ASSUME m.kind = "Add", x.state = "asked"
      PROVE  Understood(x, t, m) = Client("on", x.once, x.held, x.pending, x.token)
  <2>1. Understood(x, t, m) = [x EXCEPT !.state = "on"]
    BY ZenonT(60), <1>2 DEF Understood
  <2> QED BY ZenonT(60), <1>1, <2>1 DEF Client
<1>3. ASSUME m.kind = "Reset", x.state = "on"
      PROVE  Understood(x, t, m) = Client("on", x.once, x.held, <<>>, x.token)
  <2>1. Understood(x, t, m) = [x EXCEPT !.pending = <<>>]
    BY ZenonT(60), <1>3 DEF Understood
  <2> QED BY ZenonT(60), <1>1, <1>3, <2>1 DEF Client
<1>4. ASSUME m.kind = "Document", x.state = "on"
      PROVE  Understood(x, t, m) = Client("on", x.once, x.held, Heeded(x.pending, m.change), x.token)
  <2>1. Understood(x, t, m) = [x EXCEPT !.pending = Heeded(x.pending, m.change)]
    BY ZenonT(60), <1>4 DEF Understood, Heeded
  <2> QED BY ZenonT(60), <1>1, <1>4, <2>1 DEF Client
<1> QED BY ZenonT(60), <1>2, <1>3, <1>4

\* The target ends.
LEMMA UnderstoodEnd ==
    ASSUME NEW x, x = Client(x.state, x.once, x.held, x.pending, x.token), NEW t, NEW m, m.target = t
    PROVE  /\ m.kind = "Removed" /\ x.state = "removing" =>
                Understood(x, t, m) = Client("off", x.once, x.held, x.pending, x.token)
           /\ m.kind = "Rejected" /\ x.state \in {"asked", "on"} =>
                Understood(x, t, m) = Client("off", x.once, <<>>, <<>>, Absent)
<1>1. PICK a, b, d, e, f : x = Client(a, b, d, e, f)
  OBVIOUS
<1>2. ASSUME m.kind = "Removed", x.state = "removing"
      PROVE  Understood(x, t, m) = Client("off", x.once, x.held, x.pending, x.token)
  <2>1. Understood(x, t, m) = [x EXCEPT !.state = "off"]
    BY ZenonT(60), <1>2 DEF Understood
  <2> QED BY ZenonT(60), <1>1, <2>1 DEF Client
<1>3. ASSUME m.kind = "Rejected", x.state \in {"asked", "on"}
      PROVE  Understood(x, t, m) = Client("off", x.once, <<>>, <<>>, Absent)
  <2>1. Understood(x, t, m) =
          [x EXCEPT !.state = "off", !.held = <<>>, !.pending = <<>>, !.token = Absent]
    BY ZenonT(60), <1>3 DEF Understood
  <2> QED BY ZenonT(60), <1>1, <2>1 DEF Client
<1> QED BY ZenonT(60), <1>2, <1>3

(***************************************************************************)
(* Conversations.                                                           *)
(***************************************************************************)

\* A set of naturals that has zero and with every member the next is all of them:
\* the lengths of conversations.
LEMMA Lengths ==
    ASSUME NEW T, T \subseteq Nat, 0 \in T, \A n \in T : n + 1 \in T
    PROVE  T = Nat
<1> DEFINE R == OpToRel(<, Nat)
<1> SUFFICES ASSUME Nat \ T # {} PROVE FALSE
  BY ZenonT(60)
<1>1. IsWellFoundedOn(R, Nat)
  BY ZenonT(60), NatLessThanWellFounded
<1>2. \A x, y \in Nat : x < y => <<x, y>> \in R
  BY ZenonT(60) DEF OpToRel
<1> HIDE DEF R
<1>3. PICK m \in Nat \ T : \A y \in Nat \ T : ~ (<<y, m>> \in R)
  BY ZenonT(60), <1>1, WFMin
<1>4. m # 0 /\ \A y \in Nat \ T : ~ (y < m)
  BY ZenonT(60), <1>2, <1>3
<1>5. m - 1 \in Nat /\ m - 1 < m
  BY SMTT(60), <1>4
<1>6. m - 1 \in T
  BY ZenonT(60), <1>4, <1>5
<1> QED BY SMTT(60), <1>3, <1>6

\* No response.
LEMMA TalkNothing ==
    ASSUME NEW t, NEW x, NEW c, Certified(x, t, c)
    PROVE  Talk(<<>>, t, x, x, c)
<1> DEFINE h == [i \in {0} |-> x]
<1>1. h[0] = x /\ Len(<<>>) = 0 /\ 1..0 = {} /\ \A i \in 0..0 : i = 0
  BY SMTT(60)
<1> QED BY ZenonT(60), <1>1 DEF Talk

\* One response.
LEMMA TalkOne ==
    ASSUME NEW t, NEW x, NEW c, Certified(x, t, c), NEW m, Fits(x, t, m),
           Certified(Understood(x, t, m), t, c)
    PROVE  Talk(<<m>>, t, x, Understood(x, t, m), c)
<1> DEFINE h == [i \in {0, 1} |-> IF i = 0 THEN x ELSE Understood(x, t, m)]
<1>1. h[0] = x /\ h[1] = Understood(x, t, m)
  BY SMTT(60)
<1>2. Len(<<m>>) = 1 /\ <<m>>[1] = m
  OBVIOUS
<1>3. \A i \in 0..1 : i = 0 \/ i = 1
  BY SMTT(60)
<1>4. \A i \in 1..1 : i = 1 /\ i - 1 = 0
  BY SMTT(60)
<1> HIDE DEF h
<1> QED BY ZenonT(60), <1>1, <1>2, <1>3, <1>4 DEF Talk

\* One conversation after another.
LEMMA TalkJoin ==
    ASSUME NEW S, NEW a \in Seq(S), NEW b \in Seq(S), NEW t, NEW x, NEW y, NEW z, NEW c,
           Talk(a, t, x, y, c), Talk(b, t, y, z, c)
    PROVE  Talk(a \o b, t, x, z, c)
<1>1. PICK f : /\ f[0] = x /\ f[Len(a)] = y
               /\ \A i \in 0..Len(a) : Certified(f[i], t, c)
               /\ \A i \in 1..Len(a) : f[i] = Understood(f[i - 1], t, a[i]) /\ Fits(f[i - 1], t, a[i])
  BY ZenonT(60) DEF Talk
<1>2. PICK g : /\ g[0] = y /\ g[Len(b)] = z
               /\ \A i \in 0..Len(b) : Certified(g[i], t, c)
               /\ \A i \in 1..Len(b) : g[i] = Understood(g[i - 1], t, b[i]) /\ Fits(g[i - 1], t, b[i])
  BY ZenonT(60) DEF Talk
<1> DEFINE n == Len(a)
           all == a \o b
           h == [i \in 0..n + Len(b) |-> IF i <= n THEN f[i] ELSE g[i - n]]
<1>3. /\ n \in Nat /\ Len(b) \in Nat /\ Len(all) = n + Len(b)
      /\ \A i \in 1..n : all[i] = a[i]
      /\ \A i \in n + 1..n + Len(b) : all[i] = b[i - n]
  BY SMTT(60)
<1> HIDE DEF all
<1>4. \A i \in 0..n + Len(b) : h[i] = IF i <= n THEN f[i] ELSE g[i - n]
  OBVIOUS
<1>5. \A i \in n..n + Len(b) : h[i] = g[i - n]
  BY SMTT(60), <1>1, <1>2, <1>3, <1>4
<1> HIDE DEF h
<1>6. h[0] = x /\ h[n + Len(b)] = z
  BY SMTT(60), <1>1, <1>2, <1>3, <1>4, <1>5
<1>7. ASSUME NEW i \in 0..n + Len(b)
      PROVE  Certified(h[i], t, c)
  <2>1. CASE i <= n
    <3>1. i \in 0..n /\ h[i] = f[i]
      BY SMTT(60), <1>3, <1>4, <2>1
    <3> QED BY ZenonT(60), <1>1, <3>1
  <2>2. CASE ~(i <= n)
    <3>1. i - n \in 0..Len(b) /\ h[i] = g[i - n]
      BY SMTT(60), <1>3, <1>4, <2>2
    <3> QED BY ZenonT(60), <1>2, <3>1
  <2> QED BY ZenonT(60), <2>1, <2>2
<1>8. ASSUME NEW i \in 1..n + Len(b)
      PROVE  h[i] = Understood(h[i - 1], t, all[i]) /\ Fits(h[i - 1], t, all[i])
  <2>1. CASE i <= n
    <3>1. i \in 1..n /\ h[i] = f[i] /\ h[i - 1] = f[i - 1] /\ all[i] = a[i]
      BY SMTT(60), <1>3, <1>4, <2>1
    <3> QED BY ZenonT(60), <1>1, <3>1
  <2>2. CASE ~(i <= n)
    <3>1. i - n \in 1..Len(b) /\ i - 1 \in n..n + Len(b) /\ i \in n + 1..n + Len(b) /\ i \in n..n + Len(b)
      BY SMTT(60), <1>3, <2>2
    <3>2. h[i] = g[i - n] /\ h[i - 1] = g[(i - 1) - n] /\ all[i] = b[i - n]
      BY ZenonT(60), <1>3, <1>5, <3>1
    <3>3. (i - 1) - n = (i - n) - 1
      BY SMTT(60), <1>3
    <3> QED BY ZenonT(60), <1>2, <3>1, <3>2, <3>3
  <2> QED BY ZenonT(60), <2>1, <2>2
<1> QED BY ZenonT(60), <1>3, <1>6, <1>7, <1>8 DEF Talk, all

\* Both ends of a conversation.
LEMMA TalkEnds ==
    ASSUME NEW S, NEW ms \in Seq(S), NEW t, NEW x, NEW e, NEW c, Talk(ms, t, x, e, c)
    PROVE  Certified(x, t, c) /\ Certified(e, t, c)
<1>1. 0 \in 0..Len(ms) /\ Len(ms) \in 0..Len(ms)
  BY SMTT(60)
<1> QED BY ZenonT(60), <1>1 DEF Talk

\* The client reads the first response.
LEMMA TalkOn ==
    ASSUME NEW S, NEW ms \in Seq(S), ms # <<>>, NEW t, NEW x, NEW e, NEW c, Talk(ms, t, x, e, c)
    PROVE  /\ Talk(Tail(ms), t, Understood(x, t, Head(ms)), e, c)
           /\ Fits(x, t, Head(ms)) /\ Certified(Understood(x, t, Head(ms)), t, c)
<1>1. PICK f : /\ f[0] = x /\ f[Len(ms)] = e
               /\ \A i \in 0..Len(ms) : Certified(f[i], t, c)
               /\ \A i \in 1..Len(ms) : f[i] = Understood(f[i - 1], t, ms[i]) /\ Fits(f[i - 1], t, ms[i])
  BY ZenonT(60) DEF Talk
<1> DEFINE n == Len(ms)
           rest == Tail(ms)
           h == [i \in 0..n - 1 |-> f[i + 1]]
<1>2. /\ n \in Nat /\ n >= 1 /\ Head(ms) = ms[1] /\ Len(rest) = n - 1
      /\ \A i \in 1..n - 1 : rest[i] = ms[i + 1]
  BY SMTT(60)
<1>3. f[1] = Understood(x, t, Head(ms)) /\ Fits(x, t, Head(ms)) /\ Certified(f[1], t, c)
  <2>1. 1 \in 1..n /\ 1 \in 0..n /\ 1 - 1 = 0
    BY SMTT(60), <1>2
  <2> QED BY ZenonT(60), <1>1, <1>2, <2>1
<1>4. \A i \in 0..n - 1 : h[i] = f[i + 1]
  OBVIOUS
<1> HIDE DEF rest, h
<1>5. h[0] = f[1] /\ h[n - 1] = e
  BY SMTT(60), <1>1, <1>2, <1>4
<1>6. \A i \in 0..n - 1 : Certified(h[i], t, c)
  <2> SUFFICES ASSUME NEW i \in 0..n - 1 PROVE Certified(f[i + 1], t, c)
    BY ZenonT(60), <1>4
  <2>1. i + 1 \in 0..n
    BY SMTT(60), <1>2
  <2> QED BY ZenonT(60), <1>1, <2>1
<1>7. ASSUME NEW i \in 1..n - 1
      PROVE  h[i] = Understood(h[i - 1], t, rest[i]) /\ Fits(h[i - 1], t, rest[i])
  <2>1. i + 1 \in 1..n /\ i \in 0..n - 1 /\ i - 1 \in 0..n - 1 /\ (i + 1) - 1 = i /\ (i - 1) + 1 = i
    BY SMTT(60), <1>2
  <2>2. h[i] = f[i + 1] /\ h[i - 1] = f[i] /\ rest[i] = ms[i + 1]
    BY ZenonT(60), <1>2, <1>4, <2>1
  <2> QED BY ZenonT(60), <1>1, <2>1, <2>2
<1>8. Talk(rest, t, f[1], e, c)
  BY ZenonT(60), <1>2, <1>5, <1>6, <1>7 DEF Talk
<1> QED BY ZenonT(60), <1>3, <1>8 DEF rest

\* Responses that a client target ignores.
LEMMA TalkQuiet ==
    ASSUME NEW S, NEW ms \in Seq(S), NEW t, NEW x, NEW c, Certified(x, t, c),
           \A i \in 1..Len(ms) : Understood(x, t, ms[i]) = x /\ Fits(x, t, ms[i])
    PROVE  Talk(ms, t, x, x, c)
<1> DEFINE h == [i \in 0..Len(ms) |-> x]
<1>1. \A i \in 0..Len(ms) : h[i] = x
  OBVIOUS
<1>2. \A i \in 1..Len(ms) : i \in 0..Len(ms) /\ i - 1 \in 0..Len(ms)
  BY SMTT(60)
<1>3. 0 \in 0..Len(ms) /\ Len(ms) \in 0..Len(ms)
  BY SMTT(60)
<1> HIDE DEF h
<1>4. h[0] = x /\ h[Len(ms)] = x
  BY ZenonT(60), <1>1, <1>3
<1>5. \A i \in 1..Len(ms) : h[i] = Understood(h[i - 1], t, ms[i]) /\ Fits(h[i - 1], t, ms[i])
  BY ZenonT(60), <1>1, <1>2
<1> QED BY ZenonT(60), <1>1, <1>4, <1>5 DEF Talk

\* A client target that is off is told nothing.
LEMMA TalkOff ==
    ASSUME NEW S, NEW ms \in Seq(S), NEW t, NEW x, NEW e, NEW c, Talk(ms, t, x, e, c),
           x.state \in {"off", "lost"}
    PROVE  e = x /\ \A i \in 1..Len(ms) : ~Concerns(ms[i], t)
<1>1. PICK h : /\ h[0] = x /\ h[Len(ms)] = e
               /\ \A i \in 1..Len(ms) : h[i] = Understood(h[i - 1], t, ms[i]) /\ Fits(h[i - 1], t, ms[i])
  BY ZenonT(60) DEF Talk
<1> DEFINE n == Len(ms)
           T == {i \in Nat : i <= n => h[i] = x}
<1>2. n \in Nat
  BY SMTT(60)
<1>3. 0 \in T
  BY ZenonT(60), <1>1
<1>4. ASSUME NEW i \in T
      PROVE  i + 1 \in T
  <2>1. i \in Nat /\ i + 1 \in Nat
    BY SMTT(60)
  <2>2. ASSUME i + 1 <= n
        PROVE  h[i + 1] = x
    <3>1. i + 1 \in 1..n /\ (i + 1) - 1 = i /\ i <= n
      BY SMTT(60), <1>2, <2>1, <2>2
    <3>2. h[i] = x /\ h[i + 1] = Understood(h[i], t, ms[i + 1])
      BY ZenonT(60), <1>1, <3>1
    <3> QED BY ZenonT(60), <3>2, Ignored
  <2> QED BY ZenonT(60), <2>1, <2>2
<1>5. T = Nat
  <2> HIDE DEF T
  <2>1. T \subseteq Nat
    BY ZenonT(60) DEF T
  <2> QED BY ZenonT(60), <1>3, <1>4, <2>1, Lengths
<1>6. \A i \in 0..n : h[i] = x
  BY SMTT(60), <1>2, <1>5
<1>7. \A i \in 1..n : i - 1 \in 0..n
  BY SMTT(60), <1>2
<1>8. \A i \in 1..n : Fits(x, t, ms[i])
  BY ZenonT(60), <1>1, <1>6, <1>7
<1>9. e = x
  BY SMTT(60), <1>1, <1>2, <1>6
<1> QED BY ZenonT(60), <1>8, <1>9 DEF Fits

\* No response asks a client to remove a target.
LEMMA NotRemoving ==
    ASSUME NEW x, NEW t, NEW c, Certified(x, t, c), x.state # "removing", NEW m
    PROVE  Understood(x, t, m).state # "removing"
<1>1. x = Client(x.state, x.once, x.held, x.pending, x.token)
  BY ZenonT(60) DEF Certified
<1>2. CASE m.kind = "NoChange" /\ x.state = "on"
  <2>1. Understood(x, t, m) =
          Client(IF x.once THEN "off" ELSE "on", x.once, x.pending, x.pending, m.token)
    BY ZenonT(60), <1>1, <1>2, UnderstoodNoChange
  <2> QED BY SMTT(60), <2>1 DEF Client
<1>3. CASE Concerns(m, t)
  <2>1. \/ Understood(x, t, m) = x
        \/ Understood(x, t, m) = Client("on", x.once, x.held, x.pending, x.token)
        \/ Understood(x, t, m) = Client("on", x.once, x.held, <<>>, x.token)
        \/ Understood(x, t, m) = Client("on", x.once, x.held, Heeded(x.pending, m.change), x.token)
        \/ Understood(x, t, m) = Client("off", x.once, <<>>, <<>>, Absent)
    <3>1. CASE m.kind = "Add" /\ x.state = "asked"
      BY SMTT(60), <1>1, <1>3, <3>1, UnderstoodUpdate DEF Concerns
    <3>2. CASE m.kind = "Reset" /\ x.state = "on"
      BY SMTT(60), <1>1, <1>3, <3>2, UnderstoodUpdate DEF Concerns
    <3>3. CASE m.kind = "Document" /\ x.state = "on"
      BY SMTT(60), <1>1, <1>3, <3>3, UnderstoodUpdate DEF Concerns
    <3>4. CASE m.kind = "Rejected" /\ x.state \in {"asked", "on"}
      BY ZenonT(60), <1>1, <1>3, <3>4, UnderstoodEnd DEF Concerns
    <3>5. CASE /\ ~(m.kind = "Add" /\ x.state = "asked") /\ ~(m.kind = "Reset" /\ x.state = "on")
               /\ ~(m.kind = "Document" /\ x.state = "on")
               /\ ~(m.kind = "Rejected" /\ x.state \in {"asked", "on"})
      BY ZenonT(60), <1>3, <3>5 DEF Concerns, Understood
    <3> QED BY ZenonT(60), <3>1, <3>2, <3>3, <3>4, <3>5
  <2> QED BY SMTT(60), <2>1 DEF Client
<1>4. CASE ~(m.kind = "NoChange" /\ x.state = "on") /\ ~Concerns(m, t)
  BY ZenonT(60), <1>4, Ignored
<1> QED BY ZenonT(60), <1>2, <1>3, <1>4

\* A target that is not being removed is not told that it is.
LEMMA TalkNotRemoving ==
    ASSUME NEW S, NEW ms \in Seq(S), NEW t, NEW x, NEW e, NEW c, Talk(ms, t, x, e, c),
           x.state # "removing"
    PROVE  /\ e.state # "removing"
           /\ \A i \in 1..Len(ms) : ~(Concerns(ms[i], t) /\ ms[i].kind = "Removed")
<1>1. PICK h : /\ h[0] = x /\ h[Len(ms)] = e
               /\ \A i \in 0..Len(ms) : Certified(h[i], t, c)
               /\ \A i \in 1..Len(ms) : h[i] = Understood(h[i - 1], t, ms[i]) /\ Fits(h[i - 1], t, ms[i])
  BY ZenonT(60) DEF Talk
<1> DEFINE n == Len(ms)
           T == {i \in Nat : i <= n => h[i].state # "removing"}
<1>2. n \in Nat
  BY SMTT(60)
<1>3. 0 \in T
  BY ZenonT(60), <1>1
<1>4. ASSUME NEW i \in T
      PROVE  i + 1 \in T
  <2>1. i \in Nat /\ i + 1 \in Nat
    BY SMTT(60)
  <2>2. ASSUME i + 1 <= n
        PROVE  h[i + 1].state # "removing"
    <3>1. i + 1 \in 1..n /\ (i + 1) - 1 = i /\ i <= n /\ i \in 0..n
      BY SMTT(60), <1>2, <2>1, <2>2
    <3>2. /\ h[i].state # "removing" /\ Certified(h[i], t, c)
          /\ h[i + 1] = Understood(h[i], t, ms[i + 1])
      BY ZenonT(60), <1>1, <3>1
    <3> QED BY ZenonT(60), <3>2, NotRemoving
  <2> QED BY ZenonT(60), <2>1, <2>2
<1>5. T = Nat
  <2> HIDE DEF T
  <2>1. T \subseteq Nat
    BY ZenonT(60) DEF T
  <2> QED BY ZenonT(60), <1>3, <1>4, <2>1, Lengths
<1>6. \A i \in 0..n : h[i].state # "removing"
  BY SMTT(60), <1>2, <1>5
<1>7. \A i \in 1..n : i - 1 \in 0..n
  BY SMTT(60), <1>2
<1>8. ASSUME NEW i \in 1..n
      PROVE  ~(Concerns(ms[i], t) /\ ms[i].kind = "Removed")
  BY ZenonT(60), <1>1, <1>6, <1>7 DEF Fits
<1>9. e.state # "removing"
  BY SMTT(60), <1>1, <1>2, <1>6
<1> QED BY ZenonT(60), <1>8, <1>9

\* Contents that go on leave what was shown at a revision.
Grows(c, d) == /\ c \in Seq(Documents) /\ d \in Seq(Documents) /\ Len(c) <= Len(d)
               /\ \A i \in 1..Len(c) : d[i] = c[i]

\* What a token certifies, it certifies for good.
LEMMA ViewGrows ==
    ASSUME NEW c, NEW d, Grows(c, d), NEW r \in 0..Len(c) - 1, NEW t
    PROVE  r \in 0..Len(d) - 1 /\ View(t, r, d) = View(t, r, c)
<1>1. Len(c) \in Nat /\ Len(d) \in Nat /\ r + 1 \in 1..Len(c)
  BY SMTT(60) DEF Grows
<1> QED BY SMTT(60), <1>1 DEF Grows, View

\* So does a conversation.
LEMMA TalkGrows ==
    ASSUME NEW c, NEW d, Grows(c, d), NEW ms, NEW t, NEW x, NEW e, Talk(ms, t, x, e, c)
    PROVE  Talk(ms, t, x, e, d)
<1>1. ASSUME NEW y, Certified(y, t, c)
      PROVE  Certified(y, t, d)
  BY SMTT(60), <1>1, ViewGrows DEF Certified
<1>2. PICK h : /\ h[0] = x /\ h[Len(ms)] = e
               /\ \A i \in 0..Len(ms) : Certified(h[i], t, c)
               /\ \A i \in 1..Len(ms) : h[i] = Understood(h[i - 1], t, ms[i]) /\ Fits(h[i - 1], t, ms[i])
  BY ZenonT(60) DEF Talk
<1>3. \A i \in 0..Len(ms) : Certified(h[i], t, d)
  BY ZenonT(60), <1>1, <1>2
<1> QED BY ZenonT(60), <1>2, <1>3 DEF Talk

\* The responses that a refresh sends for a target.
LEMMA DocumentFacts ==
    ASSUME NEW u \in Targets, NEW changes \in Seq(Change)
    PROVE  LET ms == DocumentChanges(u, changes)
           IN  /\ ms \in Seq(Message) /\ Len(ms) = Len(changes)
               /\ \A i \in 1..Len(ms) :
                    ms[i].kind = "Document" /\ ms[i].target = u /\ ms[i].change = changes[i]
<1> DEFINE m(i) == [kind |-> "Document", target |-> u, change |-> changes[i]]
           ms == [i \in 1..Len(changes) |-> m(i)]
<1>1. \A i \in 1..Len(changes) :
        m(i) \in Message /\ m(i).kind = "Document" /\ m(i).target = u /\ m(i).change = changes[i]
  BY SMTT(60) DEF Message
<1> HIDE DEF m
<1>2. ms \in Seq(Message) /\ Len(ms) = Len(changes) /\ \A i \in 1..Len(changes) : ms[i] = m(i)
  BY SMTT(60), <1>1
<1>3. ms = DocumentChanges(u, changes)
  BY ZenonT(60) DEF DocumentChanges, m
<1> HIDE DEF ms
<1> QED BY ZenonT(60), <1>1, <1>2, <1>3

\* The documents of a refresh, read by a target that listens.
LEMMA TalkDocuments ==
    ASSUME NEW t \in Targets, NEW x, NEW c, Certified(x, t, c), x.state = "on",
           NEW changes \in Seq(Change), NEW to, Leads(changes, x.pending, to)
    PROVE  Talk(DocumentChanges(t, changes), t, x, Client("on", x.once, x.held, to, x.token), c)
<1>1. PICK g : /\ g[0] = x.pending /\ g[Len(changes)] = to
               /\ \A i \in 1..Len(changes) : g[i] = Heeded(g[i - 1], changes[i])
  BY ZenonT(60) DEF Leads
<1> DEFINE n == Len(changes)
           ms == DocumentChanges(t, changes)
           y(i) == Client("on", x.once, x.held, g[i], x.token)
           h == [i \in 0..n |-> y(i)]
<1>2. /\ n \in Nat /\ Len(ms) = n
      /\ \A i \in 1..n : ms[i].kind = "Document" /\ ms[i].target = t /\ ms[i].change = changes[i]
  BY SMTT(60), DocumentFacts
<1>3. ASSUME NEW i \in 0..n
      PROVE  /\ Certified(y(i), t, c) /\ y(i).state = "on" /\ y(i).pending = g[i]
             /\ y(i).once = x.once /\ y(i).held = x.held /\ y(i).token = x.token
  BY ZenonT(60) DEF Certified, Client
<1>4. y(0) = x
  BY ZenonT(60), <1>1 DEF Certified, Client
<1> HIDE DEF ms
<1>5. ASSUME NEW i \in 1..n
      PROVE  y(i) = Understood(y(i - 1), t, ms[i]) /\ Fits(y(i - 1), t, ms[i])
  <2>1. i - 1 \in 0..n
    BY SMTT(60), <1>2
  <2>2. /\ Certified(y(i - 1), t, c) /\ y(i - 1).state = "on" /\ y(i - 1).pending = g[i - 1]
        /\ y(i - 1).once = x.once /\ y(i - 1).held = x.held /\ y(i - 1).token = x.token
    BY ZenonT(60), <1>3, <2>1
  <2>3. g[i] = Heeded(g[i - 1], ms[i].change)
    BY ZenonT(60), <1>1, <1>2
  <2>4. PICK z : z = y(i - 1)
    OBVIOUS
  <2>5. z = Client(z.state, z.once, z.held, z.pending, z.token)
    BY ZenonT(60), <2>2, <2>4 DEF Certified
  <2> HIDE DEF y
  <2>6. Understood(z, t, ms[i]) = Client("on", z.once, z.held, Heeded(z.pending, ms[i].change), z.token)
    BY SMTT(60), <1>2, <2>2, <2>4, <2>5, UnderstoodUpdate
  <2>7. Understood(z, t, ms[i]) = y(i)
    BY ZenonT(60), <2>2, <2>3, <2>4, <2>6 DEF y
  <2>8. Fits(z, t, ms[i])
    BY ZenonT(60), <1>2, <2>2, <2>4 DEF Fits
  <2> QED BY ZenonT(60), <2>4, <2>7, <2>8
<1> HIDE DEF y
<1>6. \A i \in 0..n : h[i] = y(i)
  OBVIOUS
<1>7. \A i \in 1..n : i \in 0..n /\ i - 1 \in 0..n
  BY SMTT(60), <1>2
<1>8. 0 \in 0..n /\ n \in 0..n
  BY SMTT(60), <1>2
<1> HIDE DEF h
<1>9. h[0] = x /\ h[n] = Client("on", x.once, x.held, to, x.token)
  BY ZenonT(60), <1>1, <1>4, <1>6, <1>8 DEF y
<1>10. \A i \in 1..n : h[i] = Understood(h[i - 1], t, ms[i]) /\ Fits(h[i - 1], t, ms[i])
  BY ZenonT(60), <1>5, <1>6, <1>7
<1>11. \A i \in 0..n : Certified(h[i], t, c)
  BY ZenonT(60), <1>3, <1>6
<1> QED BY ZenonT(60), <1>2, <1>9, <1>10, <1>11 DEF Talk, ms

\* A checkpoint, for a target whose documents it closes.
Checked(x, s) ==
    IF x.state = "on" THEN Client(IF x.once THEN "off" ELSE "on", x.once, x.pending, x.pending, s) ELSE x

\* The stream-wide checkpoint certifies the snapshot to every target that listens.
LEMMA TalkCheckpoint ==
    ASSUME NEW t, NEW x, NEW c, Certified(x, t, c), NEW s \in 0..Len(c) - 1, Len(c) \in Nat,
           x.state = "on" => x.pending = View(t, s, c) /\ (x.token # Absent => x.token <= s)
    PROVE  /\ Talk(<<TargetChange("NoChange", Absent, s)>>, t, x, Checked(x, s), c)
           /\ TargetChange("NoChange", Absent, s) \in Message
<1> DEFINE m == TargetChange("NoChange", Absent, s)
<1>1. m.kind = "NoChange" /\ m.token = s /\ m \in Message /\ s # Absent
  BY SMTT(60), SentinelAssumption DEF TargetChange, Message
<1> HIDE DEF m
<1>2. Fits(x, t, m)
  BY ZenonT(60), <1>1 DEF Fits, Concerns
<1>3. Understood(x, t, m) = Checked(x, s)
  <2>1. CASE x.state = "on"
    BY SMTT(60), <1>1, <2>1, UnderstoodNoChange DEF Certified, Checked
  <2>2. CASE x.state # "on"
    BY ZenonT(60), <1>1, <2>2, Ignored DEF Checked
  <2> QED BY ZenonT(60), <2>1, <2>2
<1>4. Certified(Checked(x, s), t, c)
  <2>1. CASE x.state = "on"
    <3>1. PICK y : y = Client(IF x.once THEN "off" ELSE "on", x.once, x.pending, x.pending, s)
      OBVIOUS
    <3>2. /\ y = Client(y.state, y.once, y.held, y.pending, y.token) /\ y.once = x.once
          /\ y.state \in {"off", "on"} /\ y.held = x.pending /\ y.token = s
      BY ZenonT(60), <3>1 DEF Client
    <3>3. Certified(y, t, c)
      BY ZenonT(60), <1>1, <2>1, <3>2 DEF Certified
    <3> QED BY ZenonT(60), <2>1, <3>1, <3>3 DEF Checked
  <2>2. CASE x.state # "on"
    BY ZenonT(60), <2>2 DEF Checked
  <2> QED BY ZenonT(60), <2>1, <2>2
<1> QED BY ZenonT(60), <1>1, <1>2, <1>3, <1>4, TalkOne DEF m

\* Two responses are one and another.
LEMMA TwoMore ==
    ASSUME NEW S, NEW a \in Seq(S), NEW x \in S, NEW y \in S
    PROVE  a \o <<x, y>> = (a \o <<x>>) \o <<y>>
<1> DEFINE l == (a \o <<x>>) \o <<y>>
           r == a \o <<x, y>>
           n == Len(a)
<1>1. l \in Seq(S) /\ r \in Seq(S) /\ n \in Nat /\ Len(l) = n + 2 /\ Len(r) = n + 2
  BY SMTT(60)
<1>2. \A i \in 1..n + 2 : l[i] = r[i]
  BY SMTT(60)
<1> HIDE DEF l, r
<1>3. l = r
  BY SMTT(60), <1>1, <1>2
<1> QED BY ZenonT(60), <1>3 DEF l, r

\* send_initial_target up to its checkpoint.
Opening(u, s, initial) ==
    ((<<TargetChange("Add", u, Absent)>>
      \o (IF initial.mode = "Reset" THEN <<TargetChange("Reset", u, s)>> ELSE <<>>))
      \o DocumentChanges(u, initial.changes))
      \o <<TargetChange("Current", u, s)>>

\* It is that and the checkpoint, when no filter is sent.
LEMMA InitialSent ==
    ASSUME NEW request, request.target \in Targets, NEW initial, NEW s \in Nat,
           initial.watch.revision = s, initial.filter = FALSE, initial.changes \in Seq(Change)
    PROVE  LET ms == Opening(request.target, s, initial)
           IN  /\ send_initial_target(request, initial) = ms \o <<TargetChange("NoChange", Absent, s)>>
               /\ ms \in Seq(Message)
               /\ \A i \in 1..Len(ms) :
                    ms[i].target = request.target /\ ms[i].kind \notin {"NoChange", "Removed"}
<1> DEFINE u == request.target
           add == TargetChange("Add", u, Absent)
           reset == TargetChange("Reset", u, s)
           current == TargetChange("Current", u, s)
           last == TargetChange("NoChange", Absent, s)
           docs == DocumentChanges(u, initial.changes)
           resets == IF initial.mode = "Reset" THEN <<reset>> ELSE <<>>
           Mine(m) == m.target = u /\ m.kind \notin {"NoChange", "Removed"}
           first == (<<add>> \o resets) \o docs
<1>1. /\ add \in Message /\ reset \in Message /\ current \in Message /\ last \in Message
      /\ Mine(add) /\ Mine(reset) /\ Mine(current)
  BY ZenonT(60) DEF TargetChange, Message
<1>2. docs \in Seq(Message) /\ \A i \in 1..Len(docs) : Mine(docs[i])
  BY SMTT(60), DocumentFacts
<1> HIDE DEF add, reset, current, last, docs, Mine
<1>3. resets \in Seq(Message) /\ \A i \in 1..Len(resets) : Mine(resets[i])
  <2>1. CASE initial.mode = "Reset"
    BY SMTT(60), <1>1, <2>1
  <2>2. CASE initial.mode # "Reset"
    BY SMTT(60), <2>2
  <2> QED BY ZenonT(60), <2>1, <2>2
<1> HIDE DEF resets
<1>4. first \in Seq(Message) /\ \A i \in 1..Len(first) : Mine(first[i])
  <2> DEFINE both == <<add>> \o resets
  <2>1. both \in Seq(Message) /\ \A i \in 1..Len(both) : both[i] = IF i = 1 THEN add ELSE resets[i - 1]
    BY SMTT(60), <1>1, <1>3
  <2>2. \A i \in 1..Len(both) : Mine(both[i])
    <3>1. Len(both) = 1 + Len(resets) /\ Len(resets) \in Nat
      BY SMTT(60), <1>1, <1>3
    <3> HIDE DEF both
    <3>2. \A i \in 1..Len(both) : i = 1 \/ i - 1 \in 1..Len(resets)
      BY SMTT(60), <3>1
    <3> QED BY ZenonT(60), <1>1, <1>3, <2>1, <3>2
  <2> HIDE DEF both
  <2>3. /\ both \o docs \in Seq(Message) /\ Len(both) \in Nat /\ Len(docs) \in Nat
        /\ \A i \in 1..Len(both \o docs) : \/ i \in 1..Len(both) /\ (both \o docs)[i] = both[i]
                                           \/ /\ i - Len(both) \in 1..Len(docs)
                                              /\ (both \o docs)[i] = docs[i - Len(both)]
    BY SMTT(60), <1>2, <2>1
  <2> QED BY ZenonT(60), <1>2, <2>2, <2>3 DEF both
<1> HIDE DEF first
<1>5. /\ first \o <<current>> \in Seq(Message)
      /\ \A i \in 1..Len(first \o <<current>>) : Mine((first \o <<current>>)[i])
  <2>1. /\ first \o <<current>> \in Seq(Message) /\ Len(first) \in Nat
        /\ \A i \in 1..Len(first \o <<current>>) : \/ i \in 1..Len(first) /\ (first \o <<current>>)[i] = first[i]
                                                   \/ (first \o <<current>>)[i] = current
    BY SMTT(60), <1>1, <1>4
  <2> QED BY ZenonT(60), <1>1, <1>4, <2>1
<1>6. Opening(u, s, initial) = first \o <<current>>
  BY ZenonT(60) DEF Opening, first, add, resets, reset, docs, current
<1>7. send_initial_target(request, initial) = (first \o <<>>) \o <<current, last>>
  BY ZenonT(60) DEF send_initial_target, first, add, resets, reset, docs, current, last
<1>8. first \o <<>> = first
  BY SMTT(60), <1>4
<1>9. send_initial_target(request, initial) = (first \o <<current>>) \o <<last>>
  <2>1. send_initial_target(request, initial) = first \o <<current, last>>
    BY ZenonT(60), <1>7, <1>8
  <2>2. first \o <<current, last>> = (first \o <<current>>) \o <<last>>
    BY SMTT(60), <1>1, <1>4, TwoMore
  <2> QED BY ZenonT(60), <2>1, <2>2
<1> QED BY ZenonT(60), <1>5, <1>6, <1>9 DEF Mine, last

\* The opening, read by another target or by one that is being removed.
LEMMA TalkOpeningQuiet ==
    ASSUME NEW S, NEW ms \in Seq(S), NEW u, NEW t, NEW x, NEW c, Certified(x, t, c),
           t # u \/ x.state = "removing",
           \A i \in 1..Len(ms) : ms[i].target = u /\ ms[i].kind \notin {"NoChange", "Removed"}
    PROVE  Talk(ms, t, x, x, c)
<1>1. ASSUME NEW i \in 1..Len(ms)
      PROVE  Understood(x, t, ms[i]) = x /\ Fits(x, t, ms[i])
  <2>1. ms[i].target = u /\ ms[i].kind # "NoChange" /\ ms[i].kind # "Removed"
    OBVIOUS
  <2>2. CASE t # u
    <3>1. ~Concerns(ms[i], t)
      BY ZenonT(60), <2>1, <2>2 DEF Concerns
    <3> QED BY ZenonT(60), <2>1, <3>1, Ignored DEF Fits
  <2>3. CASE x.state = "removing"
    BY ZenonT(60), <2>1, <2>3, Ignored DEF Fits
  <2> QED BY ZenonT(60), <2>2, <2>3
<1> QED BY ZenonT(60), <1>1, TalkQuiet

\* The opening, read by the target that asked: it ends with the snapshot's
\* documents, whether it started from nothing, from what its token certifies, or
\* from a reset.
LEMMA TalkOpening ==
    ASSUME NEW t \in Targets, NEW x, NEW c, Certified(x, t, c), x.state = "asked", x.pending = x.held,
           NEW s \in Nat, NEW initial, initial.changes \in Seq(Change), NEW to,
           Leads(initial.changes,
                 IF initial.mode = "Reset" \/ x.token = Absent THEN <<>> ELSE View(t, x.token, c), to)
    PROVE  Talk(Opening(t, s, initial), t, x, Client("on", x.once, x.held, to, x.token), c)
<1> DEFINE add == TargetChange("Add", t, Absent)
           reset == TargetChange("Reset", t, s)
           current == TargetChange("Current", t, s)
           docs == DocumentChanges(t, initial.changes)
           resets == IF initial.mode = "Reset" THEN <<reset>> ELSE <<>>
           from == IF initial.mode = "Reset" \/ x.token = Absent THEN <<>> ELSE View(t, x.token, c)
           On(pending) == Client("on", x.once, x.held, pending, x.token)
<1>1. /\ add \in Message /\ reset \in Message /\ current \in Message /\ docs \in Seq(Message)
      /\ add.kind = "Add" /\ add.target = t /\ reset.kind = "Reset" /\ reset.target = t
      /\ current.kind = "Current"
  <2>1. docs \in Seq(Message)
    BY ZenonT(60), DocumentFacts
  <2> QED BY ZenonT(60), <2>1 DEF TargetChange, Message
<1>2. ASSUME NEW p
      PROVE  /\ Certified(On(p), t, c) /\ On(p).state = "on" /\ On(p).once = x.once
             /\ On(p).held = x.held /\ On(p).pending = p /\ On(p).token = x.token
  BY ZenonT(60) DEF Certified, Client
<1>3. Talk(<<add>>, t, x, On(x.pending), c)
  <2>1. Understood(x, t, add) = On(x.pending)
    <3> HIDE DEF add
    <3> QED BY SMTT(60), <1>1, UnderstoodUpdate DEF Certified
  <2>2. Fits(x, t, add)
    <3> HIDE DEF add
    <3> QED BY ZenonT(60), <1>1 DEF Fits, Concerns
  <2> HIDE DEF add, On
  <2>3. Certified(On(x.pending), t, c)
    BY ZenonT(60), <1>2
  <2> QED BY ZenonT(60), <2>1, <2>2, <2>3, TalkOne
<1> HIDE DEF add, reset, current, docs, On
<1>4. Talk(resets, t, On(x.pending), On(from), c)
  <2>1. PICK y : y = On(x.pending)
    OBVIOUS
  <2>2. /\ Certified(y, t, c) /\ y.state = "on" /\ y.once = x.once /\ y.held = x.held
        /\ y.token = x.token /\ y.pending = x.pending
    BY ZenonT(60), <1>2, <2>1
  <2>3. CASE initial.mode = "Reset"
    <3>1. Understood(y, t, reset) = On(from)
      BY SMTT(60), <1>1, <2>2, <2>3, UnderstoodUpdate DEF Certified, On
    <3>2. Fits(y, t, reset)
      BY ZenonT(60), <1>1, <2>2 DEF Fits, Concerns
    <3>3. Talk(<<reset>>, t, y, On(from), c)
      BY SMTT(60), <1>2, <2>2, <3>1, <3>2, TalkOne
    <3> QED BY ZenonT(60), <2>1, <2>3, <3>3
  <2>4. CASE initial.mode # "Reset"
    <3>1. from = x.pending
      BY ZenonT(60), <2>4 DEF Certified
    <3>2. resets = <<>> /\ On(from) = y
      BY ZenonT(60), <2>1, <2>4, <3>1
    <3> HIDE DEF from, resets
    <3> QED BY ZenonT(60), <2>1, <2>2, <3>2, TalkNothing
  <2> QED BY ZenonT(60), <2>3, <2>4
<1>5. Talk(docs, t, On(from), On(to), c)
  <2>1. PICK y : y = On(from)
    OBVIOUS
  <2>2. /\ Certified(y, t, c) /\ y.state = "on" /\ y.once = x.once /\ y.held = x.held
        /\ y.token = x.token /\ y.pending = from
    BY ZenonT(60), <1>2, <2>1
  <2>3. Talk(docs, t, y, Client("on", y.once, y.held, to, y.token), c)
    <3> HIDE DEF from
    <3>1. Leads(initial.changes, y.pending, to)
      BY ZenonT(60), <2>2 DEF from
    <3> QED BY ZenonT(60), <2>2, <3>1, TalkDocuments DEF docs
  <2> QED BY ZenonT(60), <2>1, <2>2, <2>3 DEF On
<1>6. Talk(<<current>>, t, On(to), On(to), c)
  <2>1. PICK y : y = On(to)
    OBVIOUS
  <2>2. Certified(y, t, c)
    BY ZenonT(60), <1>2, <2>1
  <2>3. Understood(y, t, current) = y /\ Fits(y, t, current)
    BY SMTT(60), <1>1, Ignored DEF Fits, Concerns
  <2> QED BY ZenonT(60), <2>1, <2>2, <2>3, TalkOne
<1>7. <<add>> \in Seq(Message) /\ resets \in Seq(Message) /\ <<current>> \in Seq(Message)
  <2>1. <<reset>> \in Seq(Message) /\ <<>> \in Seq(Message)
    BY SMTT(60), <1>1
  <2> QED BY SMTT(60), <1>1, <2>1
<1> HIDE DEF resets, from
<1>8. <<add>> \o resets \in Seq(Message) /\ (<<add>> \o resets) \o docs \in Seq(Message)
  BY SMTT(60), <1>1, <1>7
<1>9. Talk((<<add>> \o resets) \o docs, t, x, On(to), c)
  <2>1. Talk(<<add>> \o resets, t, x, On(from), c)
    BY ZenonT(60), <1>3, <1>4, <1>7, TalkJoin
  <2> QED BY ZenonT(60), <1>1, <1>5, <1>8, <2>1, TalkJoin
<1>10. Talk(((<<add>> \o resets) \o docs) \o <<current>>, t, x, On(to), c)
  BY ZenonT(60), <1>6, <1>7, <1>8, <1>9, TalkJoin
<1> QED BY ZenonT(60), <1>10 DEF Opening, add, resets, reset, docs, current, On

(***************************************************************************)
(* Requests.                                                                *)
(***************************************************************************)

\* One more request.
LEMMA OneMore ==
    ASSUME NEW S, NEW q \in Seq(S), NEW r \in S
    PROVE  Append(q, r) \in Seq(S) /\ Elements(Append(q, r)) = Elements(q) \cup {r}
<1> DEFINE p == Append(q, r)
           n == Len(q)
<1>1. p \in Seq(S) /\ n \in Nat /\ Len(p) = n + 1 /\ p[n + 1] = r /\ \A i \in 1..n : p[i] = q[i]
  BY SMTT(60)
<1> HIDE DEF p
<1>2. \A i \in 1..n + 1 : i \in 1..n \/ i = n + 1
  BY SMTT(60), <1>1
<1>3. \A i \in 1..n : i \in 1..n + 1
  BY SMTT(60), <1>1
<1>4. n + 1 \in 1..n + 1
  BY SMTT(60), <1>1
<1>5. Elements(p) = Elements(q) \cup {r}
  BY ZenonT(60), <1>1, <1>2, <1>3, <1>4 DEF Elements
<1> QED BY ZenonT(60), <1>1, <1>5 DEF p

\* A request follows those for its target that it may follow.
LEMMA OrderedMore ==
    ASSUME NEW S, NEW q \in Seq(S), Ordered(q), NEW r \in S,
           \A p \in Elements(q) : p.target = r.target => p.kind = "AddTarget" /\ r.kind = "RemoveTarget"
    PROVE  Ordered(Append(q, r))
<1> DEFINE p == Append(q, r)
           n == Len(q)
<1>1. n \in Nat /\ Len(p) = n + 1 /\ p[n + 1] = r /\ \A i \in 1..n : p[i] = q[i] /\ p[i] \in Elements(q)
  BY SMTT(60) DEF Elements
<1> HIDE DEF p
<1> SUFFICES ASSUME NEW i \in 1..n + 1, NEW j \in 1..n + 1, i < j, p[i].target = p[j].target
             PROVE  p[i].kind = "AddTarget" /\ p[j].kind = "RemoveTarget"
  BY ZenonT(60), <1>1 DEF Ordered, p
<1>2. i \in 1..n
  BY SMTT(60), <1>1
<1>3. CASE j = n + 1
  BY ZenonT(60), <1>1, <1>2, <1>3
<1>4. CASE j # n + 1
  <2>1. j \in 1..n
    BY SMTT(60), <1>1, <1>4
  <2> QED BY SMTT(60), <1>1, <1>2, <2>1 DEF Ordered
<1> QED BY ZenonT(60), <1>3, <1>4

\* The first request is taken: another one for its target is its removal.
LEMMA OneLess ==
    ASSUME NEW S, NEW q \in Seq(S), q # <<>>, Ordered(q)
    PROVE  /\ Tail(q) \in Seq(S) /\ Head(q) \in S /\ Head(q) \in Elements(q)
           /\ Elements(q) = Elements(Tail(q)) \cup {Head(q)} /\ Ordered(Tail(q))
           /\ \A r \in Elements(Tail(q)) :
                r.target = Head(q).target => Head(q).kind = "AddTarget" /\ r.kind = "RemoveTarget"
<1> DEFINE p == Tail(q)
           n == Len(q)
<1>1. /\ p \in Seq(S) /\ n \in Nat /\ n >= 1 /\ Len(p) = n - 1 /\ Head(q) = q[1] /\ Head(q) \in S
      /\ \A i \in 1..n - 1 : p[i] = q[i + 1]
  BY SMTT(60)
<1> HIDE DEF p
<1>2. \A i \in 1..n - 1 : i + 1 \in 1..n /\ 1 < i + 1 /\ p[i] = q[i + 1]
  BY SMTT(60), <1>1
<1>3. \A i \in 1..n : i = 1 \/ (i - 1 \in 1..n - 1 /\ q[i] = p[i - 1])
  BY SMTT(60), <1>1
<1>4. 1 \in 1..n
  BY SMTT(60), <1>1
<1>5. Elements(q) = Elements(p) \cup {Head(q)}
  <2>1. ASSUME NEW r \in Elements(q)
        PROVE  r \in Elements(p) \cup {Head(q)}
    <3>1. PICK i \in 1..n : r = q[i]
      BY ZenonT(60) DEF Elements
    <3>2. i = 1 \/ (i - 1 \in 1..n - 1 /\ r = p[i - 1])
      BY ZenonT(60), <1>3, <3>1
    <3> QED BY ZenonT(60), <1>1, <3>1, <3>2 DEF Elements
  <2>2. ASSUME NEW r \in Elements(p)
        PROVE  r \in Elements(q)
    <3>1. PICK i \in 1..n - 1 : r = p[i]
      BY ZenonT(60), <1>1 DEF Elements
    <3> QED BY ZenonT(60), <1>2, <3>1 DEF Elements
  <2>3. Head(q) \in Elements(q)
    BY ZenonT(60), <1>1, <1>4 DEF Elements
  <2> QED BY ZenonT(60), <2>1, <2>2, <2>3
<1>6. Ordered(p)
  <2> SUFFICES ASSUME NEW i \in 1..n - 1, NEW j \in 1..n - 1, i < j, p[i].target = p[j].target
               PROVE  p[i].kind = "AddTarget" /\ p[j].kind = "RemoveTarget"
    BY ZenonT(60), <1>1 DEF Ordered
  <2>1. i + 1 < j + 1
    BY SMTT(60), <1>1
  <2> QED BY SMTT(60), <1>2, <2>1 DEF Ordered
<1>7. ASSUME NEW r \in Elements(p), r.target = Head(q).target
      PROVE  Head(q).kind = "AddTarget" /\ r.kind = "RemoveTarget"
  <2>1. PICK i \in 1..n - 1 : r = p[i]
    BY ZenonT(60), <1>1 DEF Elements
  <2> QED BY SMTT(60), <1>1, <1>2, <1>4, <1>7, <2>1 DEF Ordered
<1> QED BY ZenonT(60), <1>1, <1>5, <1>6, <1>7 DEF p

(***************************************************************************)
(* What the stream and its client agree on.                                 *)
(***************************************************************************)

\* The four states of a request and a target, one at a time: a request is taken in
\* hand.
LEMMA AgreesTaken ==
    ASSUME NEW V, NEW q, NEW T, NEW t, NEW e, q # Absent, q.kind = "AddTarget",
           \A r \in V : r.target = q.target => r.kind = "RemoveTarget",
           Agrees(V \cup {q}, Absent, T, t, e)
    PROVE  Agrees(V, q, T, t, e)
<1> DEFINE W == V \cup {q}
<1>1. ~Adds(Absent, t) /\ (Leaving(W, t) <=> Leaving(V, t))
  BY ZenonT(60) DEF Adds, Leaving
<1>2. CASE q.target = t
  <2>1. Adds(q, t) /\ Asking(W, t) /\ ~Asking(V, t) /\ Asks(q, t)
    BY ZenonT(60), <1>2 DEF Adds, Asking, Asks
  <2> HIDE DEF W
  <2>2. e.state = "asked" => q.token = e.token /\ q.once = e.once
    BY ZenonT(60), <2>1 DEF Agrees, W
  <2>3. \A r \in V : ~Asks(r, t)
    BY ZenonT(60), <2>1 DEF Asking
  <2> QED BY ZenonT(60), <1>1, <2>1, <2>2, <2>3 DEF Agrees, W
<1>3. CASE q.target # t
  <2>1. ~Adds(q, t) /\ (Asking(W, t) <=> Asking(V, t)) /\ V \subseteq W
    BY ZenonT(60), <1>3 DEF Adds, Asking, Asks
  <2> HIDE DEF W
  <2> QED BY ZenonT(60), <1>1, <2>1 DEF Agrees, W
<1> QED BY ZenonT(60), <1>2, <1>3

\* A client target that is told of an error.
Ended(e, t, u) ==
    IF t = u /\ e.state \in {"asked", "on"} THEN Client("off", e.once, <<>>, <<>>, Absent) ELSE e

\* A request is answered with an error.
LEMMA AgreesRejected ==
    ASSUME NEW V, NEW q, NEW T, NEW t, NEW e, q.kind = "AddTarget",
           \A r \in V : r.target = q.target => r.kind = "RemoveTarget",
           Agrees(V \cup {q}, Absent, T, t, e)
    PROVE  Agrees(V, Absent, T, t, Ended(e, t, q.target))
<1> DEFINE W == V \cup {q}
           z == Client("off", e.once, <<>>, <<>>, Absent)
<1>1. ~Adds(Absent, t) /\ (Leaving(W, t) <=> Leaving(V, t)) /\ z.state = "off"
  BY ZenonT(60) DEF Adds, Leaving, Client
<1> HIDE DEF z
<1>2. CASE q.target = t
  <2>1. Asking(W, t) /\ ~Asking(V, t)
    BY ZenonT(60), <1>2 DEF Asking, Asks
  <2> HIDE DEF W
  <2>2. t \notin DOMAIN T /\ e.state \in {"asked", "removing"} /\ (e.state = "removing" <=> Leaving(V, t))
    BY ZenonT(60), <1>1, <2>1 DEF Agrees, W
  <2>3. CASE e.state = "asked"
    <3>1. Ended(e, t, q.target) = z
      BY ZenonT(60), <1>2, <2>3 DEF Ended, z
    <3> QED BY ZenonT(60), <1>1, <2>1, <2>2, <2>3, <3>1 DEF Agrees
  <2>4. CASE e.state = "removing"
    <3>1. Ended(e, t, q.target) = e
      BY ZenonT(60), <2>4 DEF Ended
    <3> QED BY ZenonT(60), <1>1, <2>1, <2>2, <2>4, <3>1 DEF Agrees
  <2> QED BY ZenonT(60), <2>2, <2>3, <2>4
<1>3. CASE q.target # t
  <2>1. (Asking(W, t) <=> Asking(V, t)) /\ V \subseteq W /\ Ended(e, t, q.target) = e
    BY ZenonT(60), <1>3 DEF Asking, Asks, Ended
  <2> HIDE DEF W
  <2> QED BY ZenonT(60), <1>1, <2>1 DEF Agrees, W
<1> QED BY ZenonT(60), <1>2, <1>3

\* A client target that is told of its removal.
Removed(e, t, u) ==
    IF t = u THEN Client("off", e.once, e.held, e.pending, e.token) ELSE e

\* A target is removed.
LEMMA AgreesRemoved ==
    ASSUME NEW V, NEW q, NEW T, NEW t, NEW e, q.kind = "RemoveTarget",
           \A r \in V : r.target # q.target,
           Agrees(V \cup {q}, Absent, T, t, e)
    PROVE  /\ t = q.target => e.state = "removing"
           /\ Agrees(V, Absent, Without(T, q.target), t, Removed(e, t, q.target))
<1> DEFINE W == V \cup {q}
           z == Client("off", e.once, e.held, e.pending, e.token)
           U == Without(T, q.target)
<1>1. /\ ~Adds(Absent, t) /\ z.state = "off"
      /\ DOMAIN U = DOMAIN T \ {q.target} /\ \A u \in DOMAIN U : U[u] = T[u]
  BY ZenonT(60) DEF Adds, Client, Without
<1> HIDE DEF z, U
<1>2. CASE q.target = t
  <2>1. Leaving(W, t) /\ ~Leaving(V, t) /\ ~Asking(V, t)
    BY ZenonT(60), <1>2 DEF Leaving, Asking, Asks
  <2> HIDE DEF W
  <2>2. e.state = "removing"
    BY ZenonT(60), <2>1 DEF Agrees, W
  <2>3. Removed(e, t, q.target) = z
    BY ZenonT(60), <1>2 DEF Removed, z
  <2> QED BY ZenonT(60), <1>1, <1>2, <2>1, <2>2, <2>3 DEF Agrees, U
<1>3. CASE q.target # t
  <2>1. /\ Asking(W, t) <=> Asking(V, t)
        /\ Leaving(W, t) <=> Leaving(V, t)
        /\ V \subseteq W /\ Removed(e, t, q.target) = e
        /\ t \in DOMAIN T <=> t \in DOMAIN U
        /\ t \in DOMAIN U => U[t] = T[t]
    BY ZenonT(60), <1>1, <1>3 DEF Asking, Asks, Leaving, Removed
  <2> HIDE DEF W
  <2> QED BY ZenonT(60), <1>1, <1>3, <2>1 DEF Agrees, W, U
<1> QED BY ZenonT(60), <1>2, <1>3

\* The client asks for a target.
LEMMA AgreesAsked ==
    ASSUME NEW V, NEW h, NEW T, NEW t, NEW x, x.state \in {"off", "lost"}, Agrees(V, h, T, t, x)
    PROVE  /\ \A r \in V : r.target = t => r.kind \notin {"AddTarget", "RemoveTarget"}
           /\ \A q, y : /\ q.kind = "AddTarget" /\ q.target = t
                        /\ y.state = "asked" /\ y.pending = y.held /\ y.token = q.token /\ y.once = q.once
                        => Agrees(V \cup {q}, h, T, t, y)
<1>1. ~Asking(V, t) /\ ~Adds(h, t) /\ t \notin DOMAIN T /\ ~Leaving(V, t)
  BY ZenonT(60) DEF Agrees
<1>2. \A r \in V : r.target = t => r.kind \notin {"AddTarget", "RemoveTarget"}
  BY ZenonT(60), <1>1 DEF Asking, Asks, Leaving
<1>3. ASSUME NEW q, NEW y, q.kind = "AddTarget", q.target = t,
             y.state = "asked", y.pending = y.held, y.token = q.token, y.once = q.once
      PROVE  Agrees(V \cup {q}, h, T, t, y)
  <2> DEFINE W == V \cup {q}
  <2>1. Asking(W, t) /\ ~Leaving(W, t) /\ \A r \in W : Asks(r, t) => r = q
    BY ZenonT(60), <1>1, <1>3 DEF Asking, Asks, Leaving
  <2> HIDE DEF W
  <2>2. Agrees(W, h, T, t, y)
    BY ZenonT(60), <1>1, <1>3, <2>1 DEF Agrees
  <2> QED BY ZenonT(60), <2>2 DEF W
<1> QED BY ZenonT(60), <1>2, <1>3

\* The client gives a target up.
LEMMA AgreesGivenUp ==
    ASSUME NEW V, NEW h, NEW T, NEW q, q.kind = "RemoveTarget",
           NEW e, e.state # "removing", Agrees(V, h, T, q.target, e), NEW y, y.state = "removing"
    PROVE  /\ \A r \in V : r.target = q.target => r.kind # "RemoveTarget"
           /\ Agrees(V \cup {q}, h, T, q.target, y)
<1> DEFINE t == q.target
           W == V \cup {q}
<1>1. ~Leaving(V, t) /\ ~(Asking(V, t) /\ Adds(h, t)) /\ (Asking(V, t) \/ Adds(h, t) => t \notin DOMAIN T)
  BY ZenonT(60) DEF Agrees
<1>2. Leaving(W, t) /\ (Asking(W, t) <=> Asking(V, t))
  BY ZenonT(60) DEF Leaving, Asking, Asks
<1>3. \A r \in V : r.target = t => r.kind # "RemoveTarget"
  BY ZenonT(60), <1>1 DEF Leaving
<1> HIDE DEF t, W
<1>4. Agrees(W, h, T, t, y)
  BY ZenonT(60), <1>1, <1>2 DEF Agrees
<1> QED BY ZenonT(60), <1>3, <1>4 DEF W, t

\* A request for another target.
LEMMA AgreesOther ==
    ASSUME NEW V, NEW h, NEW T, NEW q, NEW t, q.target # t, NEW e, Agrees(V, h, T, t, e)
    PROVE  Agrees(V \cup {q}, h, T, t, e)
<1> DEFINE W == V \cup {q}
<1>1. /\ Asking(W, t) <=> Asking(V, t)
      /\ Leaving(W, t) <=> Leaving(V, t)
      /\ \A r \in W : Asks(r, t) => r \in V
  BY ZenonT(60) DEF Asking, Asks, Leaving
<1> HIDE DEF W
<1>2. Agrees(W, h, T, t, e)
  BY ZenonT(60), <1>1 DEF Agrees
<1> QED BY ZenonT(60), <1>2 DEF W

\* A target that listens is refreshed to the snapshot, or ended; what is not in
\* hand and not listening stays as it is.
LEMMA AgreesRefreshed ==
    ASSUME NEW W, NEW h, NEW T, NEW t, NEW e, Agrees(W, h, T, t, e), ~Adds(h, t),
           NEW U, t \in DOMAIN U => t \in DOMAIN T,
           NEW f, e.state # "on" => f = e,
           e.state = "on" => \/ f.state = "off" /\ t \notin DOMAIN U
                             \/ /\ f.state = "on" /\ f.once = e.once /\ t \in DOMAIN U
                                /\ f.pending = U[t].documents
                                /\ f.token # Absent => f.token <= U[t].revision
    PROVE  Agrees(W, Absent, U, t, f)
<1>1. ~Adds(Absent, t)
  BY ZenonT(60) DEF Adds
<1>2. CASE e.state # "on"
  BY ZenonT(60), <1>1, <1>2 DEF Agrees
<1>3. CASE e.state = "on"
  <2>1. ~Asking(W, t) /\ ~Leaving(W, t) /\ ~e.once
    BY ZenonT(60), <1>3 DEF Agrees
  <2> QED BY ZenonT(60), <1>1, <1>3, <2>1 DEF Agrees
<1> QED BY ZenonT(60), <1>2, <1>3

\* The target in hand is answered.
LEMMA AgreesAnswered ==
    ASSUME NEW W, NEW h, NEW T, NEW t, NEW e, Agrees(W, h, T, t, e), Adds(h, t), NEW U,
           NEW f, e.state = "removing" => f = e,
           e.state = "asked" => \/ f.state = "off" /\ t \notin DOMAIN U
                                \/ /\ f.state = "on" /\ ~f.once /\ t \in DOMAIN U
                                   /\ f.pending = U[t].documents
                                   /\ f.token # Absent => f.token <= U[t].revision
    PROVE  Agrees(W, Absent, U, t, f)
<1>1. ~Adds(Absent, t) /\ ~Asking(W, t) /\ e.state \in {"asked", "removing"}
  BY ZenonT(60) DEF Agrees, Adds
<1>2. CASE e.state = "removing"
  BY ZenonT(60), <1>1, <1>2 DEF Agrees
<1>3. CASE e.state = "asked"
  <2>1. ~Leaving(W, t)
    BY ZenonT(60), <1>3 DEF Agrees
  <2> QED BY ZenonT(60), <1>1, <1>3, <2>1 DEF Agrees
<1> QED BY ZenonT(60), <1>1, <1>2, <1>3

(***************************************************************************)
(* The steps that send no view.                                             *)
(***************************************************************************)

\* At the start nothing is said.
LEMMA ClientInit == Init => RestInv
<1> SUFFICES ASSUME Init PROVE RestInv
  OBVIOUS
<1>1. requests = <<>> /\ channel = <<>> /\ targets = <<>> /\ job.stage = "Idle"
  BY ZenonT(60) DEF Init, Idle
<1>2. Waiting = {} /\ InHand = Absent
  BY SMTT(60), <1>1 DEF Waiting, Elements, InHand
<1>3. QueueInv
  <2>1. <<>> \in Seq(Request) /\ Ordered(<<>>)
    BY SMTT(60) DEF Ordered
  <2> QED BY ZenonT(60), <1>1, <1>2, <2>1 DEF QueueInv, Waiting
<1>4. ASSUME NEW t \in Targets
      PROVE  Talk(channel, t, client[t], client[t], contents) /\ Agrees(Waiting, InHand, targets, t, client[t])
  <2>1. PICK x : x = client[t]
    OBVIOUS
  <2>2. x = Client("off", FALSE, <<>>, <<>>, Absent)
    BY ZenonT(60), <2>1 DEF Init, Client
  <2>3. Certified(x, t, contents) /\ x.state = "off"
    BY ZenonT(60), <2>2 DEF Certified, Client
  <2>4. Talk(<<>>, t, x, x, contents)
    BY ZenonT(60), <2>3, TalkNothing
  <2>5. Agrees({}, Absent, <<>>, t, x)
    BY SMTT(60), <2>3 DEF Agrees, Asking, Leaving, Adds
  <2> QED BY ZenonT(60), <1>1, <1>2, <2>1, <2>4, <2>5
<1>5. ConversationInv
  <2>1. channel \in Seq(Message) /\ client = [t \in Targets |-> client[t]]
    BY SMTT(60), <1>1 DEF Init
  <2> QED BY ZenonT(60), <1>4, <2>1 DEF ConversationInv
<1> QED BY ZenonT(60), <1>1, <1>3, <1>5 DEF RestInv, TaskInv

\* What a resumed target expects stays so while commits go on.
LEMMA ExpectsGrows ==
    ASSUME NEW c, NEW d, Grows(c, d), NEW q, Expects(q, c)
    PROVE  Expects(q, d)
BY SMTT(60), ViewGrows DEF Expects

\* What is prepared for a new target, likewise.
LEMMA PreparedGrows ==
    ASSUME NEW c, NEW d, Grows(c, d), NEW initial, NEW q, Expects(q, c), NEW s \in 0..Len(c) - 1,
           Prepared(initial, q, s, c)
    PROVE  Prepared(initial, q, s, d)
<1>1. View(q.target, s, d) = View(q.target, s, c)
  BY SMTT(60), ViewGrows
<1>2. q.token # Absent => View(q.target, q.token, d) = View(q.target, q.token, c)
  BY SMTT(60), ViewGrows DEF Expects
<1> QED BY ZenonT(60), <1>1, <1>2 DEF Prepared

\* A commit adds a content.
LEMMA CommitGrows ==
    ASSUME ListenInv, ListenInv', Commit
    PROVE  Grows(contents, contents')
<1>1. PICK n : contents' = Append(contents, n)
  BY ZenonT(60) DEF Commit
<1>2. contents \in Seq(Documents) /\ contents' \in Seq(Documents)
  BY ZenonT(60) DEF ListenInv, StoreInv
<1>3. /\ Len(contents) \in Nat /\ Len(contents') = Len(contents) + 1
      /\ \A i \in 1..Len(contents) : contents'[i] = contents[i]
  BY SMTT(60), <1>1, <1>2
<1> QED BY SMTT(60), <1>2, <1>3 DEF Grows

\* A commit changes nothing that was certified, expected or prepared.
LEMMA CommitRest == ClientInv /\ ListenInv' /\ Commit => RestInv'
<1> SUFFICES ASSUME ClientInv, ListenInv', Commit PROVE RestInv'
  OBVIOUS
<1>1. PICK d : d = contents'
  OBVIOUS
<1>2. Grows(contents, d) /\ UNCHANGED <<requests, channel, targets, job, client>>
  BY ZenonT(60), <1>1, CommitGrows DEF ClientInv, Commit
<1>3. QueueInv'
  <2>1. \A r \in Elements(requests) : r.kind = "AddTarget" => Expects(r, d)
    BY ZenonT(60), <1>2, ExpectsGrows DEF ClientInv, QueueInv
  <2> QED BY ZenonT(60), <1>1, <1>2, <2>1 DEF ClientInv, QueueInv
<1>4. TaskInv'
  <2>1. ASSUME job.stage # "Idle", job.request # Absent
        PROVE  /\ Expects(job.request, d)
               /\ job.stage # "Initialize" => Prepared(job.initial, job.request, job.snapshot, d)
    <3>1. /\ Expects(job.request, contents)
          /\ job.stage # "Initialize" => Prepared(job.initial, job.request, job.snapshot, contents)
      BY ZenonT(60), <2>1 DEF ClientInv, TaskInv
    <3>2. job.snapshot \in 0..Len(contents) - 1
      BY ZenonT(60), <2>1 DEF ClientInv, ListenInv, JobInv, revision
    <3> QED BY ZenonT(60), <1>2, <3>1, <3>2, ExpectsGrows, PreparedGrows
  <2> QED BY ZenonT(60), <1>1, <1>2, <2>1 DEF ClientInv, TaskInv
<1>5. ConversationInv'
  <2>1. ASSUME NEW t \in Targets
        PROVE  \E e : Talk(channel, t, client[t], e, d) /\ Agrees(Waiting, InHand, targets, t, e)
    <3>1. PICK e : Talk(channel, t, client[t], e, contents) /\ Agrees(Waiting, InHand, targets, t, e)
      BY ZenonT(60) DEF ClientInv, ConversationInv
    <3>2. Talk(channel, t, client[t], e, d)
      BY ZenonT(60), <1>2, <3>1, TalkGrows
    <3> QED BY ZenonT(60), <3>1, <3>2
  <2>2. Waiting' = Waiting /\ InHand' = InHand
    BY ZenonT(60), <1>2 DEF Waiting, InHand
  <2> QED BY ZenonT(60), <1>1, <1>2, <2>1, <2>2 DEF ClientInv, ConversationInv
<1> QED BY ZenonT(60), <1>3, <1>4, <1>5 DEF RestInv

\* The task begins or goes on, and the client hears nothing.
LEMMA ConversationKept ==
    ASSUME ConversationInv, UNCHANGED <<contents, channel, client, targets>>,
           \A t \in Targets : \A e : Agrees(Waiting, InHand, targets, t, e) =>
                                     Agrees(Waiting, InHand, targets, t, e)'
    PROVE  ConversationInv'
<1>1. ASSUME NEW t \in Targets
      PROVE  \E e : Talk(channel, t, client[t], e, contents)' /\ Agrees(Waiting, InHand, targets, t, e)'
  <2>1. PICK e : Talk(channel, t, client[t], e, contents) /\ Agrees(Waiting, InHand, targets, t, e)
    BY ZenonT(60) DEF ConversationInv
  <2> QED BY ZenonT(60), <2>1
<1> QED BY ZenonT(60), <1>1 DEF ConversationInv

\* The head of the queue.
LEMMA RequestFacts ==
    ASSUME QueueInv, requests # <<>>, requests' = Tail(requests), UNCHANGED contents
    PROVE  /\ QueueInv' /\ Head(requests) \in Request
           /\ Waiting = Waiting' \cup {Head(requests)}
           /\ Head(requests).kind = "AddTarget" =>
                Head(requests) \in AddRequest /\ Expects(Head(requests), contents)
           /\ \A r \in Waiting' : r.target = Head(requests).target =>
                Head(requests).kind = "AddTarget" /\ r.kind = "RemoveTarget"
<1> DEFINE q == Head(requests)
           rest == Tail(requests)
<1>1. requests \in Seq(Request) /\ Ordered(requests)
  BY ZenonT(60) DEF QueueInv
<1>2. /\ rest \in Seq(Request) /\ q \in Request /\ q \in Elements(requests)
      /\ Elements(requests) = Elements(rest) \cup {q} /\ Ordered(rest)
      /\ \A r \in Elements(rest) : r.target = q.target => q.kind = "AddTarget" /\ r.kind = "RemoveTarget"
  BY ZenonT(60), <1>1, OneLess
<1> HIDE DEF q, rest
<1>3. requests' = rest /\ contents' = contents
  BY ZenonT(60) DEF rest
<1>4. \A r \in Elements(requests) : r.kind = "AddTarget" => Expects(r, contents)
  BY ZenonT(60) DEF QueueInv
<1>5. QueueInv'
  BY ZenonT(60), <1>2, <1>3, <1>4 DEF QueueInv
<1>6. Waiting' = Elements(rest)
  BY ZenonT(60), <1>3 DEF Waiting
<1>7. q.kind = "AddTarget" => q \in AddRequest
  BY ZenonT(60), <1>2 DEF Request
<1> QED BY ZenonT(60), <1>2, <1>4, <1>5, <1>6, <1>7 DEF q, Waiting

\* One more response.
LEMMA TalkMore ==
    ASSUME NEW ms \in Seq(Message), NEW m \in Message, NEW t, NEW x, NEW e, NEW f, NEW c,
           Talk(ms, t, x, e, c), Talk(<<m>>, t, e, f, c)
    PROVE  Append(ms, m) \in Seq(Message) /\ Talk(Append(ms, m), t, x, f, c)
<1>1. <<m>> \in Seq(Message) /\ Append(ms, m) = ms \o <<m>> /\ Append(ms, m) \in Seq(Message)
  BY SMTT(60)
<1>2. Talk(ms \o <<m>>, t, x, f, c)
  BY ZenonT(60), <1>1, TalkJoin
<1> QED BY ZenonT(60), <1>1, <1>2

\* An error ends the target that asked or listens.
LEMMA TalkRejected ==
    ASSUME NEW u \in Targets, NEW t \in Targets, NEW e, NEW c, Certified(e, t, c),
           t = u => e.state \in {"asked", "on", "removing"}
    PROVE  /\ TargetChange("Rejected", u, Absent) \in Message
           /\ Talk(<<TargetChange("Rejected", u, Absent)>>, t, e, Ended(e, t, u), c)
<1> DEFINE m == TargetChange("Rejected", u, Absent)
<1>1. m \in Message /\ m.kind = "Rejected" /\ m.target = u
  BY ZenonT(60) DEF TargetChange, Message
<1> HIDE DEF m
<1>2. Fits(e, t, m)
  BY ZenonT(60), <1>1 DEF Fits, Concerns
<1>3. Understood(e, t, m) = Ended(e, t, u) /\ Certified(Ended(e, t, u), t, c)
  <2>1. CASE t = u /\ e.state \in {"asked", "on"}
    <3>1. PICK y : y = Client("off", e.once, <<>>, <<>>, Absent)
      OBVIOUS
    <3>2. Certified(y, t, c)
      BY ZenonT(60), <3>1 DEF Certified, Client
    <3>3. Understood(e, t, m) = y
      BY ZenonT(60), <1>1, <2>1, <3>1, UnderstoodEnd DEF Certified
    <3> QED BY ZenonT(60), <2>1, <3>1, <3>2, <3>3 DEF Ended
  <2>2. CASE ~(t = u /\ e.state \in {"asked", "on"})
    <3>1. Understood(e, t, m) = e
      BY SMTT(60), <1>1, <2>2, Ignored DEF Concerns
    <3> QED BY ZenonT(60), <2>2, <3>1 DEF Ended
  <2> QED BY ZenonT(60), <2>1, <2>2
<1> QED BY ZenonT(60), <1>1, <1>2, <1>3, TalkOne DEF m

\* A removal ends the target that waits for it.
LEMMA TalkRemoved ==
    ASSUME NEW u \in Targets, NEW t \in Targets, NEW e, NEW c, Certified(e, t, c),
           t = u => e.state = "removing"
    PROVE  /\ TargetChange("Removed", u, Absent) \in Message
           /\ Talk(<<TargetChange("Removed", u, Absent)>>, t, e, Removed(e, t, u), c)
<1> DEFINE m == TargetChange("Removed", u, Absent)
<1>1. m \in Message /\ m.kind = "Removed" /\ m.target = u
  BY ZenonT(60) DEF TargetChange, Message
<1> HIDE DEF m
<1>2. Fits(e, t, m)
  BY ZenonT(60), <1>1 DEF Fits, Concerns
<1>3. Understood(e, t, m) = Removed(e, t, u) /\ Certified(Removed(e, t, u), t, c)
  <2>1. CASE t = u
    <3>1. PICK y : y = Client("off", e.once, e.held, e.pending, e.token)
      OBVIOUS
    <3>2. Certified(y, t, c)
      BY ZenonT(60), <3>1 DEF Certified, Client
    <3>3. Understood(e, t, m) = y
      BY ZenonT(60), <1>1, <2>1, <3>1, UnderstoodEnd DEF Certified
    <3> QED BY ZenonT(60), <2>1, <3>1, <3>2, <3>3 DEF Removed
  <2>2. CASE t # u
    <3>1. Understood(e, t, m) = e
      BY SMTT(60), <1>1, <2>2, Ignored DEF Concerns
    <3> QED BY ZenonT(60), <2>2, <3>1 DEF Removed
  <2> QED BY ZenonT(60), <2>1, <2>2
<1> QED BY ZenonT(60), <1>1, <1>2, <1>3, TalkOne DEF m

\* add_target takes a request in hand, or answers it with an error.
LEMMA StartAddRest == ClientInv /\ StartAdd => RestInv'
<1> SUFFICES ASSUME ClientInv, StartAdd PROVE RestInv'
  OBVIOUS
<1> DEFINE q == Head(requests)
<1>1. /\ requests # <<>> /\ requests' = Tail(requests) /\ q.kind = "AddTarget" /\ job = Idle
      /\ UNCHANGED <<contents, targets, client>>
  BY ZenonT(60) DEF StartAdd, NextRequest, store
<1>2. \/ channel' = Append(channel, TargetChange("Rejected", q.target, Absent)) /\ UNCHANGED job
      \/ /\ job' = [stage |-> "Initialize", request |-> q, snapshot |-> revision]
         /\ UNCHANGED channel
  BY ZenonT(60) DEF StartAdd
<1>3. /\ QueueInv' /\ Waiting = Waiting' \cup {q} /\ q \in AddRequest /\ Expects(q, contents)
      /\ \A r \in Waiting' : r.target = q.target => r.kind = "RemoveTarget"
  BY ZenonT(60), <1>1, RequestFacts DEF ClientInv
<1>4. q # Absent /\ q.target \in Targets /\ q.token \in Nat \cup {Absent}
  BY ZenonT(60), <1>3, SentinelAssumption DEF AddRequest
<1> HIDE DEF q
<1>5. InHand = Absent
  BY ZenonT(60), <1>1 DEF InHand, Idle
<1>6. CASE channel' = Append(channel, TargetChange("Rejected", q.target, Absent)) /\ UNCHANGED job
  <2>1. InHand' = Absent /\ TaskInv'
    BY ZenonT(60), <1>1, <1>6 DEF InHand, Idle, TaskInv
  <2> DEFINE m == TargetChange("Rejected", q.target, Absent)
  <2>2. ASSUME NEW t \in Targets
        PROVE  /\ channel' \in Seq(Message)
               /\ \E f : Talk(channel', t, client[t], f, contents) /\ Agrees(Waiting', Absent, targets, t, f)
    <3>1. PICK e : Talk(channel, t, client[t], e, contents) /\ Agrees(Waiting, Absent, targets, t, e)
      BY ZenonT(60), <1>5 DEF ClientInv, ConversationInv
    <3>2. channel \in Seq(Message)
      BY ZenonT(60) DEF ClientInv, ConversationInv
    <3>3. Certified(e, t, contents)
      BY ZenonT(60), <3>1, <3>2, TalkEnds
    <3>4. t = q.target => e.state \in {"asked", "on", "removing"}
      <4>1. Asks(q, q.target)
        BY ZenonT(60), <1>1 DEF Asks, q
      <4>2. t = q.target => Asking(Waiting, t)
        BY ZenonT(60), <1>3, <4>1 DEF Asking
      <4> QED BY ZenonT(60), <3>1, <4>2 DEF Agrees
    <3>5. m \in Message /\ Talk(<<m>>, t, e, Ended(e, t, q.target), contents)
      BY ZenonT(60), <1>4, <3>3, <3>4, TalkRejected
    <3> HIDE DEF m
    <3>6. /\ Append(channel, m) \in Seq(Message)
          /\ Talk(Append(channel, m), t, client[t], Ended(e, t, q.target), contents)
      BY ZenonT(60), <3>1, <3>2, <3>5, TalkMore
    <3>7. Agrees(Waiting', Absent, targets, t, Ended(e, t, q.target))
      <4>1. PICK V : V = Waiting'
        OBVIOUS
      <4>2. Agrees(V \cup {q}, Absent, targets, t, e) /\ q.kind = "AddTarget"
            /\ \A r \in V : r.target = q.target => r.kind = "RemoveTarget"
        BY ZenonT(60), <1>1, <1>3, <3>1, <4>1 DEF q
      <4> QED BY ZenonT(60), <4>1, <4>2, AgreesRejected
    <3> QED BY ZenonT(60), <1>6, <3>6, <3>7 DEF m
  <2>3. channel' \in Seq(Message)
    BY ZenonT(60), <1>4, <2>2
  <2>4. ConversationInv'
    BY ZenonT(60), <1>1, <2>1, <2>2, <2>3 DEF ClientInv, ConversationInv
  <2> QED BY ZenonT(60), <1>3, <2>1, <2>4 DEF RestInv
<1>7. CASE /\ job' = [stage |-> "Initialize", request |-> q, snapshot |-> revision]
           /\ UNCHANGED channel
  <2>1. job'.stage = "Initialize" /\ job'.request = q /\ job'.snapshot = revision /\ InHand' = q
    BY ZenonT(60), <1>7 DEF InHand
  <2>2. TaskInv'
    <3>1. \A t \in DOMAIN targets : targets[t].revision <= revision
      BY SMTT(60) DEF ClientInv, ListenInv, StoreInv, TargetsInv, Shows, revision
    <3>2. q.token # Absent => q.token <= revision
      BY SMTT(60), <1>3 DEF Expects, ClientInv, ListenInv, StoreInv, revision
    <3> QED BY ZenonT(60), <1>1, <1>3, <2>1, <3>1, <3>2 DEF TaskInv
  <2>3. ASSUME NEW t \in Targets, NEW e, Agrees(Waiting, InHand, targets, t, e)
        PROVE  Agrees(Waiting, InHand, targets, t, e)'
    <3>1. PICK V : V = Waiting'
      OBVIOUS
    <3>2. Agrees(V \cup {q}, Absent, targets, t, e) /\ q.kind = "AddTarget"
          /\ \A r \in V : r.target = q.target => r.kind = "RemoveTarget"
      BY ZenonT(60), <1>1, <1>3, <1>5, <2>3, <3>1 DEF q
    <3>3. Agrees(V, q, targets, t, e)
      BY ZenonT(60), <1>4, <3>2, AgreesTaken
    <3> QED BY ZenonT(60), <1>1, <2>1, <3>1, <3>3
  <2>4. ConversationInv'
    BY ZenonT(60), <1>1, <1>7, <2>3, ConversationKept DEF ClientInv
  <2> QED BY ZenonT(60), <1>3, <2>2, <2>4 DEF RestInv
<1> QED BY ZenonT(60), <1>2, <1>6, <1>7

\* A removal is handled.
LEMMA HandleRemoveRest == ClientInv /\ HandleRemove => RestInv'
<1> SUFFICES ASSUME ClientInv, HandleRemove PROVE RestInv'
  OBVIOUS
<1> DEFINE q == Head(requests)
           m == TargetChange("Removed", q.target, Absent)
<1>1. /\ requests # <<>> /\ requests' = Tail(requests) /\ q.kind = "RemoveTarget" /\ job = Idle
      /\ targets' = Without(targets, q.target) /\ channel' = Append(channel, m)
      /\ UNCHANGED <<contents, job, client>>
  BY ZenonT(60) DEF HandleRemove, NextRequest, store
<1>2. /\ QueueInv' /\ Waiting = Waiting' \cup {q} /\ q \in Request
      /\ \A r \in Waiting' : r.target # q.target
  BY ZenonT(60), <1>1, RequestFacts DEF ClientInv
<1>3. q.target \in Targets
  BY ZenonT(60), <1>2 DEF Request, AddRequest
<1> HIDE DEF q
<1>4. InHand = Absent /\ InHand' = Absent /\ TaskInv'
  BY ZenonT(60), <1>1 DEF InHand, Idle, TaskInv
<1>5. ASSUME NEW t \in Targets
      PROVE  /\ channel' \in Seq(Message)
             /\ \E f : Talk(channel', t, client[t], f, contents) /\ Agrees(Waiting', Absent, targets', t, f)
  <2>1. PICK e : Talk(channel, t, client[t], e, contents) /\ Agrees(Waiting, Absent, targets, t, e)
    BY ZenonT(60), <1>4 DEF ClientInv, ConversationInv
  <2>2. channel \in Seq(Message)
    BY ZenonT(60) DEF ClientInv, ConversationInv
  <2>3. Certified(e, t, contents)
    BY ZenonT(60), <2>1, <2>2, TalkEnds
  <2>4. PICK V : V = Waiting'
    OBVIOUS
  <2>5. Agrees(V \cup {q}, Absent, targets, t, e) /\ q.kind = "RemoveTarget" /\ \A r \in V : r.target # q.target
    BY ZenonT(60), <1>1, <1>2, <2>1, <2>4
  <2>6. /\ t = q.target => e.state = "removing"
        /\ Agrees(V, Absent, Without(targets, q.target), t, Removed(e, t, q.target))
    BY ZenonT(60), <2>5, AgreesRemoved
  <2>7. m \in Message /\ Talk(<<m>>, t, e, Removed(e, t, q.target), contents)
    BY ZenonT(60), <1>3, <2>3, <2>6, TalkRemoved
  <2> HIDE DEF m
  <2>8. /\ Append(channel, m) \in Seq(Message)
        /\ Talk(Append(channel, m), t, client[t], Removed(e, t, q.target), contents)
    BY ZenonT(60), <2>1, <2>2, <2>7, TalkMore
  <2> QED BY ZenonT(60), <1>1, <2>4, <2>6, <2>8
<1>6. channel' \in Seq(Message)
  BY ZenonT(60), <1>3, <1>5
<1>7. ConversationInv'
  BY ZenonT(60), <1>1, <1>4, <1>5, <1>6 DEF ClientInv, ConversationInv
<1> QED BY ZenonT(60), <1>2, <1>4, <1>7 DEF RestInv

\* The client reads a response.
LEMMA ReceiveRest == ClientInv /\ Receive => RestInv'
<1> SUFFICES ASSUME ClientInv, Receive PROVE RestInv'
  OBVIOUS
<1>1. /\ channel # <<>> /\ channel' = Tail(channel) /\ UNCHANGED <<contents, requests, targets, job>>
      /\ client' = [t \in Targets |-> Understood(client[t], t, Head(channel))]
  BY ZenonT(60) DEF Receive, store
<1>2. QueueInv' /\ TaskInv'
  BY ZenonT(60), <1>1 DEF ClientInv, QueueInv, TaskInv
<1>3. Waiting' = Waiting /\ InHand' = InHand
  BY ZenonT(60), <1>1 DEF Waiting, InHand
<1>4. channel \in Seq(Message) /\ channel' \in Seq(Message)
  <2>1. channel \in Seq(Message)
    BY ZenonT(60) DEF ClientInv, ConversationInv
  <2> QED BY SMTT(60), <1>1, <2>1
<1>5. ASSUME NEW t \in Targets
      PROVE  \E e : Talk(channel', t, client'[t], e, contents) /\ Agrees(Waiting, InHand, targets, t, e)
  <2>1. PICK e : Talk(channel, t, client[t], e, contents) /\ Agrees(Waiting, InHand, targets, t, e)
    BY ZenonT(60) DEF ClientInv, ConversationInv
  <2>2. Talk(Tail(channel), t, Understood(client[t], t, Head(channel)), e, contents)
    BY ZenonT(60), <1>1, <1>4, <2>1, TalkOn
  <2>3. client'[t] = Understood(client[t], t, Head(channel))
    BY ZenonT(60), <1>1
  <2> QED BY ZenonT(60), <1>1, <2>1, <2>2, <2>3
<1>6. client' = [t \in Targets |-> client'[t]]
  BY ZenonT(60), <1>1
<1>7. ConversationInv'
  BY ZenonT(60), <1>1, <1>3, <1>4, <1>5, <1>6 DEF ConversationInv
<1> QED BY ZenonT(60), <1>2, <1>7 DEF RestInv

\* The stream ends: the client keeps what its token certifies.
LEMMA DisconnectRest == ClientInv /\ Disconnect => RestInv'
<1> SUFFICES ASSUME ClientInv, Disconnect PROVE RestInv'
  OBVIOUS
<1> DEFINE back(x) == [x EXCEPT !.pending = x.held,
                                !.state = CASE @ \in {"asked", "on", "lost"} -> "lost"
                                            [] OTHER -> "off"]
<1>1. /\ requests' = <<>> /\ channel' = <<>> /\ targets' = <<>> /\ job' = Idle /\ contents' = contents
      /\ client' = [t \in Targets |-> back(client[t])]
  BY ZenonT(60) DEF Disconnect, store
<1> HIDE DEF back
<1>2. Waiting' = {} /\ InHand' = Absent /\ TaskInv'
  <2>1. Waiting' = {}
    BY SMTT(60), <1>1 DEF Waiting, Elements
  <2>2. job'.stage = "Idle"
    BY ZenonT(60), <1>1 DEF Idle
  <2> QED BY ZenonT(60), <2>1, <2>2 DEF InHand, TaskInv
<1>3. QueueInv'
  <2>1. <<>> \in Seq(Request) /\ Ordered(<<>>) /\ Elements(<<>>) = {}
    BY SMTT(60) DEF Ordered, Elements
  <2> QED BY ZenonT(60), <1>1, <2>1 DEF QueueInv
<1>4. ASSUME NEW t \in Targets
      PROVE  Talk(<<>>, t, client'[t], client'[t], contents) /\ Agrees({}, Absent, <<>>, t, client'[t])
  <2>1. PICK x : x = client[t]
    OBVIOUS
  <2>2. Certified(x, t, contents)
    <3>1. channel \in Seq(Message) /\ \E e : Talk(channel, t, x, e, contents)
      BY ZenonT(60), <2>1 DEF ClientInv, ConversationInv
    <3> QED BY ZenonT(60), <3>1, TalkEnds
  <2>3. PICK y : y = client'[t]
    OBVIOUS
  <2>4. y = back(x)
    BY ZenonT(60), <1>1, <2>1, <2>3
  <2>5. \/ y = Client("lost", x.once, x.held, x.held, x.token)
        \/ y = Client("off", x.once, x.held, x.held, x.token)
    <3>1. PICK a, b, h, p, k : x = Client(a, b, h, p, k)
      BY ZenonT(60), <2>2 DEF Certified
    <3> QED BY ZenonT(60), <2>4, <3>1 DEF Client, back
  <2>6. Certified(y, t, contents) /\ y.state \in {"off", "lost"}
    BY SMTT(60), <2>2, <2>5 DEF Certified, Client
  <2>7. Talk(<<>>, t, y, y, contents)
    BY SMTT(60), <2>6, TalkNothing
  <2>8. Agrees({}, Absent, <<>>, t, y)
    BY SMTT(60), <2>6 DEF Agrees, Asking, Leaving, Adds
  <2> QED BY ZenonT(60), <2>3, <2>7, <2>8
<1>5. channel' \in Seq(Message) /\ client' = [t \in Targets |-> client'[t]]
  BY SMTT(60), <1>1
<1>6. ConversationInv'
  BY ZenonT(60), <1>1, <1>2, <1>4, <1>5 DEF ConversationInv
<1> QED BY ZenonT(60), <1>2, <1>3, <1>6 DEF RestInv

\* A view shows keys of the store.
LEMMA ViewKeys ==
    ASSUME NEW spec \in TargetSpec, NEW docs
    PROVE  DOMAIN evaluate(spec, docs).documents \subseteq Keys
<1>1. Results(spec, docs) \subseteq Keys
  BY ZenonT(60) DEF Results, Matches, TargetSpec
<1> QED BY ZenonT(60), <1>1 DEF evaluate

\* What a client holds can be counted.
LEMMA Countable ==
    ASSUME NEW c \in Seq(Documents), NEW t \in Targets, NEW x, Certified(x, t, c)
    PROVE  /\ Cardinality(DOMAIN x.held) \in Nat
           /\ x.token # Absent => /\ x.token \in 0..Len(c) - 1
                                  /\ Cardinality(DOMAIN x.held) = Cardinality(DOMAIN View(t, x.token, c))
<1>1. CASE x.token = Absent
  <2>1. x.held = <<>> /\ DOMAIN <<>> = {}
    BY SMTT(60), <1>1 DEF Certified
  <2> QED BY SMTT(60), <1>1, <2>1, FS_EmptySet
<1>2. CASE x.token # Absent
  <2>1. x.token \in 0..Len(c) - 1 /\ x.held = View(t, x.token, c)
    BY ZenonT(60), <1>2 DEF Certified
  <2>2. c[x.token + 1] \in Documents
    BY SMTT(60), <2>1
  <2>3. DOMAIN x.held \subseteq Keys
    BY ZenonT(60), <2>1, <2>2, SpecOfAssumption, ViewKeys DEF View
  <2>4. Cardinality(DOMAIN x.held) \in Nat
    BY ZenonT(60), <2>3, KeysAssumption, FS_Subset, FS_CardinalityType
  <2> QED BY ZenonT(60), <2>1, <2>4
<1> QED BY ZenonT(60), <1>1, <1>2

\* The client asks for a target, for the first time or again.
LEMMA AskRest ==
    ASSUME ClientInv, NEW t \in Targets, client[t].state \in {"off", "lost"}, NEW once \in BOOLEAN,
           Ask(t, once)
    PROVE  RestInv'
<1> DEFINE q == AddTarget(t, once)
           c == contents
<1>1. /\ requests' = Append(requests, q) /\ UNCHANGED <<contents, channel, targets, job>>
      /\ client' = [client EXCEPT ![t].state = "asked", ![t].once = once, ![t].pending = client[t].held]
  BY ZenonT(60) DEF Ask, store
<1>2. PICK x : x = client[t]
  OBVIOUS
<1>3. PICK e : Talk(channel, t, x, e, c) /\ Agrees(Waiting, InHand, targets, t, e)
  BY ZenonT(60), <1>2 DEF ClientInv, ConversationInv
<1>4. channel \in Seq(Message) /\ c \in Seq(Documents) /\ requests \in Seq(Request)
  BY ZenonT(60) DEF ClientInv, ConversationInv, ListenInv, StoreInv, QueueInv
<1>5. Certified(x, t, c) /\ x.state \in {"off", "lost"} /\ e = x /\ \A i \in 1..Len(channel) : ~Concerns(channel[i], t)
  BY ZenonT(60), <1>2, <1>3, <1>4, TalkEnds, TalkOff
<1>6. /\ q.kind = "AddTarget" /\ q.target = t /\ q.once = once /\ q.token = x.token
      /\ q.expected = Cardinality(DOMAIN x.held) /\ q \in AddRequest /\ q \in Request /\ Expects(q, c)
  <2>1. /\ q = [kind |-> "AddTarget", target |-> t, once |-> once, token |-> x.token,
                expected |-> Cardinality(DOMAIN x.held)]
    BY ZenonT(60), <1>2 DEF AddTarget
  <2>2. /\ Cardinality(DOMAIN x.held) \in Nat
        /\ x.token # Absent => /\ x.token \in 0..Len(c) - 1
                               /\ Cardinality(DOMAIN x.held) = Cardinality(DOMAIN View(t, x.token, c))
    BY ZenonT(60), <1>4, <1>5, Countable
  <2>3. x.token \in Nat \cup {Absent}
    BY SMTT(60), <2>2
  <2> HIDE DEF q
  <2>4. /\ q.kind = "AddTarget" /\ q.target = t /\ q.once = once /\ q.token = x.token
        /\ q.expected = Cardinality(DOMAIN x.held) /\ q \in AddRequest
    BY ZenonT(60), <2>1, <2>2, <2>3 DEF AddRequest
  <2>5. Expects(q, c)
    BY ZenonT(60), <2>2, <2>4 DEF Expects
  <2> QED BY ZenonT(60), <2>4, <2>5 DEF Request
<1> HIDE DEF q
<1>7. PICK y : y = Client("asked", once, x.held, x.held, x.token)
  OBVIOUS
<1>8. client'[t] = y /\ (\A u \in Targets \ {t} : client'[u] = client[u]) /\ client' = [u \in Targets |-> client'[u]]
  <2>1. client = [u \in Targets |-> client[u]]
    BY ZenonT(60) DEF ClientInv, ConversationInv
  <2>2. client'[t] = [[[x EXCEPT !.state = "asked"] EXCEPT !.once = once] EXCEPT !.pending = x.held]
    BY ZenonT(60), <1>1, <1>2, <2>1
  <2>3. PICK a, b, h, p, k : x = Client(a, b, h, p, k)
    BY SMTT(60), <1>5 DEF Certified
  <2>4. client'[t] = y
    BY ZenonT(60), <1>7, <2>2, <2>3 DEF Client
  <2>5. (\A u \in Targets \ {t} : client'[u] = client[u]) /\ client' = [u \in Targets |-> client'[u]]
    BY ZenonT(60), <1>1, <2>1
  <2> QED BY ZenonT(60), <2>4, <2>5
<1>9. /\ \A r \in Waiting : r.target = q.target => r.kind \notin {"AddTarget", "RemoveTarget"}
      /\ Agrees(Waiting \cup {q}, InHand, targets, t, y)
  <2>1. /\ \A r \in Waiting : r.target = t => r.kind \notin {"AddTarget", "RemoveTarget"}
        /\ \A p, z : /\ p.kind = "AddTarget" /\ p.target = t
                     /\ z.state = "asked" /\ z.pending = z.held /\ z.token = p.token /\ z.once = p.once
                     => Agrees(Waiting \cup {p}, InHand, targets, t, z)
    BY SMTT(60), <1>3, <1>5, AgreesAsked
  <2>2. y.state = "asked" /\ y.pending = y.held /\ y.token = q.token /\ y.once = q.once
    BY ZenonT(60), <1>6, <1>7 DEF Client
  <2> QED BY ZenonT(60), <1>6, <2>1, <2>2
<1>10. Waiting' = Waiting \cup {q} /\ InHand' = InHand /\ requests' \in Seq(Request)
  BY SMTT(60), <1>1, <1>4, <1>6, OneMore DEF Waiting, InHand
<1>11. QueueInv'
  <2>1. \A r \in Waiting : r.kind \in {"AddTarget", "RemoveTarget"}
    <3>1. \A r \in Request : r.kind \in {"AddTarget", "RemoveTarget"}
      BY ZenonT(60) DEF Request, AddRequest
    <3> QED BY SMTT(60), <1>4, <3>1 DEF Waiting, Elements
  <2>2. Ordered(Append(requests, q))
    BY ZenonT(60), <1>4, <1>6, <1>9, <2>1, OrderedMore DEF ClientInv, QueueInv, Waiting
  <2>3. \A r \in Waiting \cup {q} : r.kind = "AddTarget" => Expects(r, c)
    BY ZenonT(60), <1>6 DEF ClientInv, QueueInv, Waiting
  <2> QED BY ZenonT(60), <1>1, <1>10, <2>2, <2>3 DEF QueueInv, Waiting
<1>12. Talk(channel, t, y, y, c)
  <2>1. Certified(y, t, c) /\ y.state = "asked"
    BY ZenonT(60), <1>5, <1>7 DEF Certified, Client
  <2>2. ASSUME NEW i \in 1..Len(channel)
        PROVE  Understood(y, t, channel[i]) = y /\ Fits(y, t, channel[i])
    BY SMTT(60), <1>5, <2>1, Ignored DEF Fits
  <2> QED BY ZenonT(60), <1>4, <2>1, <2>2, TalkQuiet
<1>13. ASSUME NEW u \in Targets
       PROVE  \E f : Talk(channel, u, client'[u], f, c) /\ Agrees(Waiting', InHand, targets, u, f)
  <2>1. CASE u = t
    BY ZenonT(60), <1>8, <1>9, <1>10, <1>12, <2>1
  <2>2. CASE u # t
    <3>1. PICK f : Talk(channel, u, client[u], f, c) /\ Agrees(Waiting, InHand, targets, u, f)
      BY ZenonT(60) DEF ClientInv, ConversationInv
    <3>2. Agrees(Waiting \cup {q}, InHand, targets, u, f)
      BY ZenonT(60), <1>6, <2>2, <3>1, AgreesOther
    <3> QED BY ZenonT(60), <1>8, <1>10, <2>2, <3>1, <3>2
  <2> QED BY ZenonT(60), <2>1, <2>2
<1>14. ConversationInv'
  BY ZenonT(60), <1>1, <1>4, <1>8, <1>10, <1>13 DEF ConversationInv
<1>15. TaskInv'
  BY ZenonT(60), <1>1 DEF ClientInv, TaskInv
<1> QED BY ZenonT(60), <1>11, <1>14, <1>15 DEF RestInv

\* The client gives a target up.
LEMMA StopRest ==
    ASSUME ClientInv, NEW t \in Targets, StopListening(t)
    PROVE  RestInv'
<1> DEFINE q == [kind |-> "RemoveTarget", target |-> t]
           c == contents
<1>1. /\ requests' = Append(requests, q) /\ UNCHANGED <<contents, channel, targets, job>>
      /\ client' = [client EXCEPT ![t].state = "removing"] /\ client[t].state \in {"asked", "on"}
  BY ZenonT(60) DEF StopListening, store
<1>2. PICK x : x = client[t]
  OBVIOUS
<1>3. PICK e : Talk(channel, t, x, e, c) /\ Agrees(Waiting, InHand, targets, t, e)
  BY ZenonT(60), <1>2 DEF ClientInv, ConversationInv
<1>4. channel \in Seq(Message) /\ c \in Seq(Documents) /\ requests \in Seq(Request)
  BY ZenonT(60) DEF ClientInv, ConversationInv, ListenInv, StoreInv, QueueInv
<1>5. /\ Certified(x, t, c) /\ x.state # "removing" /\ e.state # "removing"
      /\ \A i \in 1..Len(channel) : ~(Concerns(channel[i], t) /\ channel[i].kind = "Removed")
  <2>1. x.state # "removing"
    BY ZenonT(60), <1>1, <1>2
  <2> QED BY ZenonT(60), <1>3, <1>4, <2>1, TalkEnds, TalkNotRemoving
<1>6. q.kind = "RemoveTarget" /\ q.target = t /\ q \in Request
  BY ZenonT(60) DEF Request
<1> HIDE DEF q
<1>7. PICK y : y = Client("removing", x.once, x.held, x.pending, x.token)
  OBVIOUS
<1>8. client'[t] = y /\ (\A u \in Targets \ {t} : client'[u] = client[u]) /\ client' = [u \in Targets |-> client'[u]]
  <2>1. client = [u \in Targets |-> client[u]]
    BY ZenonT(60) DEF ClientInv, ConversationInv
  <2>2. client'[t] = [x EXCEPT !.state = "removing"]
    BY ZenonT(60), <1>1, <1>2, <2>1
  <2>3. PICK a, b, h, p, k : x = Client(a, b, h, p, k)
    BY ZenonT(60), <1>5 DEF Certified
  <2>4. client'[t] = y
    BY ZenonT(60), <1>7, <2>2, <2>3 DEF Client
  <2>5. (\A u \in Targets \ {t} : client'[u] = client[u]) /\ client' = [u \in Targets |-> client'[u]]
    BY ZenonT(60), <1>1, <2>1
  <2> QED BY ZenonT(60), <2>4, <2>5
<1>9. Certified(y, t, c) /\ y.state = "removing"
  BY ZenonT(60), <1>5, <1>7 DEF Certified, Client
<1>10. /\ \A r \in Waiting : r.target = q.target => r.kind # "RemoveTarget"
       /\ Agrees(Waiting \cup {q}, InHand, targets, t, y)
  <2>1. Agrees(Waiting, InHand, targets, q.target, e)
    BY ZenonT(60), <1>3, <1>6
  <2>2. /\ \A r \in Waiting : r.target = q.target => r.kind # "RemoveTarget"
        /\ Agrees(Waiting \cup {q}, InHand, targets, q.target, y)
    BY ZenonT(60), <1>5, <1>6, <1>9, <2>1, AgreesGivenUp
  <2> QED BY ZenonT(60), <1>6, <2>2
<1>11. Waiting' = Waiting \cup {q} /\ InHand' = InHand /\ requests' \in Seq(Request)
  BY SMTT(60), <1>1, <1>4, <1>6, OneMore DEF Waiting, InHand
<1>12. QueueInv'
  <2>1. \A r \in Waiting : r.kind \in {"AddTarget", "RemoveTarget"}
    <3>1. \A r \in Request : r.kind \in {"AddTarget", "RemoveTarget"}
      BY ZenonT(60) DEF Request, AddRequest
    <3> QED BY SMTT(60), <1>4, <3>1 DEF Waiting, Elements
  <2>2. Ordered(Append(requests, q))
    BY ZenonT(60), <1>4, <1>6, <1>10, <2>1, OrderedMore DEF ClientInv, QueueInv, Waiting
  <2>3. \A r \in Waiting \cup {q} : r.kind = "AddTarget" => Expects(r, c)
    BY ZenonT(60), <1>6 DEF ClientInv, QueueInv, Waiting
  <2> QED BY ZenonT(60), <1>1, <1>11, <2>2, <2>3 DEF QueueInv, Waiting
<1>13. Talk(channel, t, y, y, c)
  <2>1. ASSUME NEW i \in 1..Len(channel)
        PROVE  Understood(y, t, channel[i]) = y /\ Fits(y, t, channel[i])
    <3>1. CASE Concerns(channel[i], t)
      BY ZenonT(60), <1>5, <1>9, <3>1, Ignored DEF Fits
    <3>2. CASE ~Concerns(channel[i], t)
      BY ZenonT(60), <1>9, <3>2, Ignored DEF Fits
    <3> QED BY ZenonT(60), <3>1, <3>2
  <2> QED BY ZenonT(60), <1>4, <1>9, <2>1, TalkQuiet
<1>14. ASSUME NEW u \in Targets
       PROVE  \E f : Talk(channel, u, client'[u], f, c) /\ Agrees(Waiting', InHand, targets, u, f)
  <2>1. CASE u = t
    BY ZenonT(60), <1>8, <1>10, <1>11, <1>13, <2>1
  <2>2. CASE u # t
    <3>1. PICK f : Talk(channel, u, client[u], f, c) /\ Agrees(Waiting, InHand, targets, u, f)
      BY ZenonT(60) DEF ClientInv, ConversationInv
    <3>2. Agrees(Waiting \cup {q}, InHand, targets, u, f)
      BY ZenonT(60), <1>6, <2>2, <3>1, AgreesOther
    <3> QED BY ZenonT(60), <1>8, <1>11, <2>2, <3>1, <3>2
  <2> QED BY ZenonT(60), <2>1, <2>2
<1>15. ConversationInv'
  BY ZenonT(60), <1>1, <1>4, <1>8, <1>11, <1>14 DEF ConversationInv
<1>16. TaskInv'
  BY ZenonT(60), <1>1 DEF ClientInv, TaskInv
<1> QED BY ZenonT(60), <1>12, <1>15, <1>16 DEF RestInv

(***************************************************************************)
(* The answer to a request.                                                 *)
(***************************************************************************)

\* What the stream knows when a refresh ends.
LEMMA EvaluateFacts ==
    ASSUME ClientInv, job.stage = "Evaluate"
    PROVE  /\ job.snapshot \in 0..Len(contents) - 1 /\ Len(contents) \in Nat /\ job.snapshot \in Nat
           /\ channel \in Seq(Message) /\ ListenInv /\ TaskInv /\ InHand = job.request
           /\ \A t \in DOMAIN targets : targets[t].revision \in Nat /\ targets[t].revision <= job.snapshot
<1>1. ListenInv /\ TaskInv /\ channel \in Seq(Message) /\ contents \in Seq(Documents)
  BY ZenonT(60) DEF ClientInv, ConversationInv, ListenInv, StoreInv
<1>2. job.snapshot \in 0..Len(contents) - 1 /\ Len(contents) \in Nat
  BY SMTT(60), <1>1 DEF ListenInv, JobInv, revision
<1>3. InHand = job.request
  BY ZenonT(60) DEF InHand
<1>4. ASSUME NEW t \in DOMAIN targets
      PROVE  targets[t].revision \in Nat /\ targets[t].revision <= job.snapshot
  <2>1. targets[t].revision \in Nat
    BY SMTT(60), <1>1, <1>2 DEF ListenInv, TargetsInv, Shows
  <2>2. targets[t].revision <= job.snapshot
    BY ZenonT(60), <1>1 DEF TaskInv
  <2> QED BY ZenonT(60), <2>1, <2>2
<1> QED BY SMTT(60), <1>1, <1>2, <1>3, <1>4

\* What the stream has prepared for the target in hand.
LEMMA InHandFacts ==
    ASSUME ClientInv, job.stage = "Evaluate", job.request # Absent
    PROVE  LET u == job.request.target
               s == job.snapshot
               ms == Opening(u, s, job.initial)
           IN  /\ u \in Targets /\ u \notin DOMAIN targets /\ Adds(InHand, u) /\ InHand = job.request
               /\ job.request.token # Absent => job.request.token <= s
               /\ Prepared(job.initial, job.request, s, contents)
               /\ job.initial.watch.documents = View(u, s, contents) /\ job.initial.watch.revision = s
               /\ send_initial_target(job.request, job.initial) = ms \o <<TargetChange("NoChange", Absent, s)>>
               /\ ms \in Seq(Message) /\ TargetChange("NoChange", Absent, s) \in Message
               /\ \A i \in 1..Len(ms) : ms[i].target = u /\ ms[i].kind \notin {"NoChange", "Removed"}
<1> DEFINE u == job.request.target
           s == job.snapshot
<1>1. /\ job.request \in AddRequest /\ (job.request.token # Absent => job.request.token <= s)
      /\ Prepared(job.initial, job.request, s, contents)
  BY ZenonT(60) DEF ClientInv, TaskInv
<1>2. u \in Targets /\ s \in Nat /\ InHand = job.request
  BY ZenonT(60), <1>1, EvaluateFacts DEF AddRequest
<1>3. Adds(InHand, u)
  BY ZenonT(60), <1>2 DEF Adds
<1>4. u \notin DOMAIN targets
  <2>1. PICK e : Agrees(Waiting, InHand, targets, u, e)
    BY ZenonT(60), <1>2 DEF ClientInv, ConversationInv
  <2> QED BY ZenonT(60), <1>3, <2>1 DEF Agrees
<1>5. job.initial.watch = Target(SpecOf[u], contents[s + 1], s)
  BY ZenonT(60) DEF ClientInv, ListenInv, JobInv
<1>6. job.initial.watch.documents = View(u, s, contents) /\ job.initial.watch.revision = s
  <2> HIDE DEF u, s
  <2> QED BY SMTT(60), <1>5 DEF Target, View
<1>7. job.initial.filter = FALSE /\ job.initial.changes \in Seq(Change)
  BY ZenonT(60), <1>1 DEF Prepared
<1>8. TargetChange("NoChange", Absent, s) \in Message
  BY ZenonT(60), <1>2 DEF TargetChange, Message
<1>9. LET ms == Opening(u, s, job.initial)
      IN  /\ send_initial_target(job.request, job.initial) = ms \o <<TargetChange("NoChange", Absent, s)>>
          /\ ms \in Seq(Message)
          /\ \A i \in 1..Len(ms) : ms[i].target = u /\ ms[i].kind \notin {"NoChange", "Removed"}
  BY ZenonT(60), <1>2, <1>6, <1>7, InitialSent
<1> QED BY ZenonT(60), <1>1, <1>2, <1>3, <1>4, <1>6, <1>8, <1>9

\* A target's token is not ahead of the revision it was sent with.
LEMMA NotAhead == \A n \in Nat : n <= n
BY SMTT(60)

\* The target in hand is answered with the snapshot.
LEMMA InHandAnswered ==
    ASSUME ClientInv, job.stage = "Evaluate", job.request # Absent, NEW U,
           job.request.once => job.request.target \notin DOMAIN U,
           ~job.request.once => /\ job.request.target \in DOMAIN U
                                /\ U[job.request.target] = job.initial.watch,
           NEW e, Certified(e, job.request.target, contents),
           Agrees(Waiting, InHand, targets, job.request.target, e)
    PROVE  \E f : /\ Talk(send_initial_target(job.request, job.initial), job.request.target, e, f, contents)
                  /\ Agrees(Waiting, Absent, U, job.request.target, f)
<1> DEFINE u == job.request.target
           s == job.snapshot
           ms == Opening(u, s, job.initial)
           last == TargetChange("NoChange", Absent, s)
<1>1. /\ u \in Targets /\ Adds(InHand, u) /\ InHand = job.request
      /\ job.request.token # Absent => job.request.token <= s
      /\ Prepared(job.initial, job.request, s, contents)
      /\ job.initial.watch.documents = View(u, s, contents) /\ job.initial.watch.revision = s
      /\ send_initial_target(job.request, job.initial) = ms \o <<last>>
      /\ ms \in Seq(Message) /\ last \in Message
      /\ \A i \in 1..Len(ms) : ms[i].target = u /\ ms[i].kind \notin {"NoChange", "Removed"}
  BY ZenonT(60), InHandFacts
<1>2. s \in 0..Len(contents) - 1 /\ Len(contents) \in Nat /\ s \in Nat /\ <<last>> \in Seq(Message)
  <2>1. s \in 0..Len(contents) - 1 /\ Len(contents) \in Nat /\ s \in Nat
    BY ZenonT(60), EvaluateFacts
  <2> HIDE DEF s, last
  <2>2. last \in Message
    BY ZenonT(60), <1>1
  <2>3. <<last>> \in Seq(Message)
    BY SMTT(60), <2>2
  <2> QED BY ZenonT(60), <2>1, <2>3
<1>3. e.state \in {"asked", "removing"}
  BY ZenonT(60), <1>1 DEF Agrees
<1>4. CASE e.state = "removing"
  <2> HIDE DEF u, s, ms, last
  <2>1. Talk(ms, u, e, e, contents)
    BY ZenonT(60), <1>1, <1>4, TalkOpeningQuiet DEF u
  <2>2. Talk(<<last>>, u, e, e, contents)
    <3>1. Checked(e, s) = e
      BY ZenonT(60), <1>4 DEF Checked
    <3>2. Talk(<<last>>, u, e, Checked(e, s), contents)
      BY ZenonT(60), <1>2, <1>4, TalkCheckpoint DEF u, last
    <3> QED BY ZenonT(60), <3>1, <3>2
  <2>3. Talk(ms \o <<last>>, u, e, e, contents)
    BY ZenonT(60), <1>1, <1>2, <2>1, <2>2, TalkJoin
  <2>4. Agrees(Waiting, Absent, U, u, e)
    BY ZenonT(60), <1>1, <1>4, AgreesAnswered DEF u
  <2> QED BY ZenonT(60), <1>1, <2>3, <2>4 DEF u
<1>5. CASE e.state = "asked"
  <2> DEFINE to == View(u, s, contents)
             y == Client("on", e.once, e.held, to, e.token)
             f == Checked(y, s)
  <2>1. e.pending = e.held /\ job.request.token = e.token /\ job.request.once = e.once
    BY ZenonT(60), <1>1, <1>5 DEF Agrees
  <2>2. /\ job.initial.changes \in Seq(Change)
        /\ Leads(job.initial.changes,
                 IF job.initial.mode = "Reset" \/ e.token = Absent THEN <<>> ELSE View(u, e.token, contents), to)
    BY ZenonT(60), <1>1, <2>1 DEF Prepared
  <2>3. y.state = "on" /\ y.once = e.once /\ y.held = e.held /\ y.pending = to /\ y.token = e.token
    BY ZenonT(60) DEF Client
  <2> HIDE DEF u, s, to
  <2>4. Talk(ms, u, e, y, contents)
    BY ZenonT(60), <1>1, <1>2, <1>5, <2>1, <2>2, TalkOpening DEF u
  <2> HIDE DEF ms, y
  <2>5. Certified(y, u, contents)
    BY ZenonT(60), <1>1, <2>4, TalkEnds
  <2>6. Talk(<<last>>, u, y, f, contents)
    <3>1. y.state = "on" => y.pending = View(u, s, contents) /\ (y.token # Absent => y.token <= s)
      BY ZenonT(60), <1>1, <2>1, <2>3 DEF to
    <3> QED BY ZenonT(60), <1>2, <2>5, <3>1, TalkCheckpoint
  <2>7. Talk(ms \o <<last>>, u, e, f, contents)
    <3> HIDE DEF last, f
    <3> QED BY ZenonT(60), <1>1, <1>2, <2>4, <2>6, TalkJoin
  <2>8. /\ f.state = (IF e.once THEN "off" ELSE "on") /\ f.once = e.once /\ f.pending = to /\ f.token = s
    BY ZenonT(60), <2>3 DEF Checked, Client
  <2> HIDE DEF f
  <2>9. \/ f.state = "off" /\ u \notin DOMAIN U
        \/ /\ f.state = "on" /\ ~f.once /\ u \in DOMAIN U /\ f.pending = U[u].documents
           /\ f.token # Absent => f.token <= U[u].revision
    <3>1. e.once \in BOOLEAN
      BY ZenonT(60) DEF Certified
    <3>2. CASE e.once
      BY ZenonT(60), <2>1, <2>8, <3>2 DEF u
    <3>3. CASE ~e.once
      <4>1. u \in DOMAIN U /\ U[u] = job.initial.watch
        BY ZenonT(60), <2>1, <3>3 DEF u
      <4>2. U[u].documents = to /\ U[u].revision = s
        BY ZenonT(60), <1>1, <4>1 DEF to
      <4>3. s <= s
        BY ZenonT(60), <1>2, NotAhead
      <4> QED BY ZenonT(60), <2>8, <3>3, <4>1, <4>2, <4>3
    <3> QED BY ZenonT(60), <3>1, <3>2, <3>3
  <2>10. Agrees(Waiting, Absent, U, u, f)
    BY ZenonT(60), <1>1, <1>5, <2>9, AgreesAnswered DEF u
  <2> QED BY ZenonT(60), <1>1, <2>7, <2>10 DEF u
<1> QED BY ZenonT(60), <1>3, <1>4, <1>5
=============================================================================
