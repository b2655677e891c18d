---------------------------- MODULE OutputProofs ----------------------------
(***************************************************************************)
(* Proofs about output.  First the sink of a foreground execution, for any *)
(* budget, caps and messages, markers printed by the code among them; then *)
(* the output of a background job, for any number of callers and of reads, *)
(* any output and any window.                                              *)
(***************************************************************************)
EXTENDS BoundedSink, JobPoll, SequenceTheorems, WellFoundedInduction, TLAPS

LEMMA HalfFacts == Half \in Nat /\ Half >= 1 /\ Budget = 2 * Half /\ Budget \in Nat
BY SinkAssumption DEF Half

LEMMA CapFacts ==
    /\ MaxOutputs \in Nat /\ MaxOutputs >= 4
    /\ MaxOutputs \div 2 \in Nat /\ MaxOutputs \div 2 >= 2 /\ MaxOutputs \div 2 + 2 <= MaxOutputs
BY SinkAssumption

-----------------------------------------------------------------------------
(* Stretches of sequences.                                                 *)

\* The c elements of u behind the first a are those of s behind the first b.
Agree(u, a, s, b, c) == \A i \in 1..c : u[a + i] = s[b + i]

LEMMA AgreeTrans ==
    ASSUME NEW u, NEW v, NEW s, NEW a \in Nat, NEW b \in Nat, NEW d \in Nat, NEW c \in Nat,
           Agree(u, a, v, b, c), Agree(v, b, s, d, c)
    PROVE  Agree(u, a, s, d, c)
BY DEF Agree

LEMMA AgreeSym ==
    ASSUME NEW u, NEW s, NEW a \in Nat, NEW b \in Nat, NEW c \in Nat, Agree(u, a, s, b, c)
    PROVE  Agree(s, b, u, a, c)
BY DEF Agree

LEMMA AgreeHead ==
    ASSUME NEW u, NEW s, NEW a \in Nat, NEW b \in Nat, NEW c \in Nat, Agree(u, a, s, b, c),
           NEW n \in Nat, n <= c
    PROVE  Agree(u, a, s, b, n)
BY DEF Agree

LEMMA AgreePart ==
    ASSUME NEW u, NEW s, NEW a \in Nat, NEW b \in Nat, NEW c \in Nat, Agree(u, a, s, b, c),
           NEW x \in Nat, NEW n \in Nat, x + n <= c
    PROVE  Agree(u, a + x, s, b + x, n)
<1> SUFFICES ASSUME NEW i \in 1..n PROVE u[a + x + i] = s[b + x + i]
    BY DEF Agree
<1>1. PICK j \in Nat : j = x + i
    OBVIOUS
<1>2. j \in 1..c /\ a + x + i = a + j /\ b + x + i = b + j
    BY <1>1
<1>3. u[a + j] = s[b + j]
    BY <1>2 DEF Agree
<1> QED
    BY <1>2, <1>3, Zenon

LEMMA AgreeJoin ==
    ASSUME NEW u, NEW s, NEW a \in Nat, NEW b \in Nat, NEW c \in Nat, NEW n \in Nat,
           Agree(u, a, s, b, c), Agree(u, a + c, s, b + c, n)
    PROVE  Agree(u, a, s, b, c + n)
<1> SUFFICES ASSUME NEW i \in 1..(c + n) PROVE u[a + i] = s[b + i]
    BY DEF Agree
<1>1. CASE i <= c
    BY <1>1 DEF Agree
<1>2. CASE ~ (i <= c)
    <2>1. PICK j \in Nat : j = i - c
        BY <1>2
    <2>2. j \in 1..n /\ a + i = a + c + j /\ b + i = b + c + j
        BY <1>2, <2>1
    <2>3. u[a + c + j] = s[b + c + j]
        BY <2>2 DEF Agree
    <2> QED
        BY <2>2, <2>3, Zenon
<1> QED
    BY <1>1, <1>2

LEMMA AgreeEqual ==
    ASSUME NEW S, NEW u \in Seq(S), NEW v \in Seq(S), NEW n \in Nat, Len(u) = n, Len(v) = n,
           Agree(u, 0, v, 0, n)
    PROVE  u = v
<1>1. \A i \in 1..n : u[i] = v[i]
    BY DEF Agree
<1> QED
    BY <1>1, SeqEqual

(* Concatenation and slices, by length and stretches.  The provers are     *)
(* given these facts and never the definitions.                            *)

Cat(u, s, t, S) == s \in Seq(S) /\ t \in Seq(S) /\ u = s \o t

\* c elements behind the first d.
Cut(u, s, d, c, S) ==
    s \in Seq(S) /\ d \in Nat /\ c \in Nat /\ d + c <= Len(s) /\ u = SubSeq(s, d + 1, d + c)

LEMMA CatFacts ==
    ASSUME NEW S, NEW s, NEW t, NEW u, Cat(u, s, t, S)
    PROVE  /\ u \in Seq(S) /\ s \in Seq(S) /\ t \in Seq(S)
           /\ Len(u) = Len(s) + Len(t)
           /\ Len(u) \in Nat /\ Len(s) \in Nat /\ Len(t) \in Nat
           /\ Agree(u, 0, s, 0, Len(s))
           /\ Agree(u, Len(s), t, 0, Len(t))
<1>1. /\ u \in Seq(S) /\ s \in Seq(S) /\ t \in Seq(S)
      /\ Len(u) = Len(s) + Len(t)
      /\ Len(u) \in Nat /\ Len(s) \in Nat /\ Len(t) \in Nat
      /\ \A i \in 1..Len(s) : u[i] = s[i]
      /\ \A i \in 1..Len(t) : u[Len(s) + i] = t[i]
    BY DEF Cat
<1>2. Agree(u, 0, s, 0, Len(s))
    BY <1>1 DEF Agree
<1>3. Agree(u, Len(s), t, 0, Len(t))
    BY <1>1 DEF Agree
<1> QED
    BY <1>1, <1>2, <1>3, Zenon

LEMMA CutFacts ==
    ASSUME NEW S, NEW s, NEW u, NEW d \in Nat, NEW c \in Nat, Cut(u, s, d, c, S)
    PROVE  /\ u \in Seq(S) /\ s \in Seq(S)
           /\ Len(u) = c
           /\ Agree(u, 0, s, d, c)
<1>1. u \in Seq(S) /\ s \in Seq(S) /\ Len(u) = c /\ \A i \in 1..c : u[i] = s[d + i]
    BY SMTT(60) DEF Cut
<1>2. Agree(u, 0, s, d, c)
    BY <1>1 DEF Agree
<1> QED
    BY <1>1, <1>2, Zenon

LEMMA FirstFacts ==
    ASSUME NEW S, NEW s \in Seq(S), NEW n \in Nat, n <= Len(s)
    PROVE  /\ First(n, s) \in Seq(S)
           /\ Len(First(n, s)) = n
           /\ Agree(First(n, s), 0, s, 0, n)
<1>1. PICK u : u = First(n, s)
    OBVIOUS
<1>2. Cut(u, s, 0, n, S)
    BY <1>1 DEF Cut, First
<1>3. u \in Seq(S) /\ Len(u) = n /\ Agree(u, 0, s, 0, n)
    BY <1>2, CutFacts
<1> QED
    BY <1>1, <1>3, Zenon

\* Last(n, s) is what follows the first d elements, l of them.
LastAt(n, s, d, l, S) ==
    /\ d + l = Len(s) /\ l <= n /\ (l < n => d = 0)
    /\ Last(n, s) \in Seq(S) /\ Len(Last(n, s)) = l
    /\ Agree(Last(n, s), 0, s, d, l)

LEMMA LastFacts ==
    ASSUME NEW S, NEW s \in Seq(S), NEW n \in Nat
    PROVE  \E d, l \in Nat : LastAt(n, s, d, l, S)
<1>0. Len(s) \in Nat
    OBVIOUS
<1>1. CASE Len(s) <= n
    <2>1. PICK l \in Nat : l = Len(s)
        BY <1>0
    <2>2. 0 + l = Len(s) /\ l <= n
        BY <1>1, <2>1
    <2>3. Last(n, s) = s
        BY <1>1 DEF Last
    <2>4. Agree(s, 0, s, 0, l)
        BY DEF Agree
    <2>5. LastAt(n, s, 0, l, S)
        BY <2>1, <2>2, <2>3, <2>4, Zenon DEF LastAt
    <2> QED
        BY <2>5
<1>2. CASE Len(s) > n
    <2>1. PICK u : u = Last(n, s)
        OBVIOUS
    <2>2. PICK d \in Nat : d = Len(s) - n
        BY <1>0, <1>2
    <2>3. d + 1 = Len(s) - n + 1 /\ d + n = Len(s) /\ d + n <= Len(s) /\ ~ (Len(s) <= n)
        BY <1>0, <1>2, <2>2
    <2>4. u = SubSeq(s, d + 1, d + n)
        BY <2>1, <2>3, Zenon DEF Last
    <2>5. Cut(u, s, d, n, S)
        BY <2>3, <2>4, Zenon DEF Cut
    <2>6. u \in Seq(S) /\ Len(u) = n /\ Agree(u, 0, s, d, n)
        BY <2>5, CutFacts
    <2>7. n <= n /\ ~ (n < n)
        OBVIOUS
    <2>8. LastAt(n, s, d, n, S)
        BY <2>1, <2>3, <2>6, <2>7, Zenon DEF LastAt
    <2> QED
        BY <2>8
<1> QED
    BY <1>0, <1>1, <1>2

One(e) == <<e>>

\* A head, an element and a tail.
LEMMA PartsFacts ==
    ASSUME NEW S, NEW e, NEW h, NEW g, NEW l, NEW u, Cat(g, h, One(e), S), Cat(u, g, l, S)
    PROVE  /\ u \in Seq(S)
           /\ Len(u) = Len(h) + 1 + Len(l)
           /\ Agree(u, 0, h, 0, Len(h))
           /\ u[Len(h) + 1] = e
           /\ Agree(u, Len(h) + 1, l, 0, Len(l))
<1>0. Len(One(e)) = 1 /\ One(e)[1] = e
    BY DEF One
<1>1. /\ g \in Seq(S) /\ h \in Seq(S)
      /\ Len(g) = Len(h) + Len(One(e)) /\ Len(g) \in Nat /\ Len(h) \in Nat
      /\ Agree(g, 0, h, 0, Len(h))
      /\ Agree(g, Len(h), One(e), 0, Len(One(e)))
    BY CatFacts
<1>2. Len(g) = Len(h) + 1
    BY <1>0, <1>1, Zenon
<1>3. g[Len(h) + 1] = e
    <2>1. Agree(g, Len(h), One(e), 0, 1)
        BY <1>0, <1>1, Zenon
    <2>2. g[Len(h) + 1] = One(e)[0 + 1]
        BY <2>1 DEF Agree
    <2> QED
        BY <1>0, <2>2
<1>4. /\ u \in Seq(S) /\ l \in Seq(S)
      /\ Len(u) = Len(g) + Len(l) /\ Len(l) \in Nat
      /\ Agree(u, 0, g, 0, Len(g))
      /\ Agree(u, Len(g), l, 0, Len(l))
    BY CatFacts
<1>5. Agree(u, 0, h, 0, Len(h))
    <2>1. Len(h) \in Nat /\ Len(g) \in Nat /\ Len(h) <= Len(g)
        BY <1>1, <1>2
    <2>2. Agree(u, 0, g, 0, Len(h))
        BY <1>4, <2>1, AgreeHead
    <2> QED
        BY <1>1, <2>1, <2>2, AgreeTrans
<1>6. u[Len(h) + 1] = e
    <2>1. PICK i \in Nat : i = Len(h) + 1
        BY <1>1
    <2>a. i \in 1..i
        <3>1. Len(h) \in Nat
            BY <1>1, Zenon
        <3> QED
            BY <2>1, <3>1
    <2>b. Len(g) = i
        BY <1>2, <2>1, Zenon
    <2>2. i \in 1..i /\ Len(g) = i
        BY <2>a, <2>b, Zenon
    <2>3. Agree(u, 0, g, 0, i)
        BY <1>4, <2>2, Zenon
    <2>4. u[i] = g[i]
        BY <2>2, <2>3 DEF Agree
    <2> QED
        BY <1>3, <2>1, <2>4, Zenon
<1>7. Agree(u, Len(h) + 1, l, 0, Len(l))
    BY <1>2, <1>4, Zenon
<1>8. Len(u) = Len(h) + 1 + Len(l)
    BY <1>2, <1>4, Zenon
<1> QED
    BY <1>4, <1>5, <1>6, <1>7, <1>8, Zenon

\* A set of numbers has a smallest one: an induction starts from it.
LEMMA SmallestElement ==
    ASSUME NEW T, T \subseteq Nat, T # {}
    PROVE  \E x \in T : \A y \in T : ~ (y < x)
<1>1. PICK x \in T : \A y \in T : ~ (<<y, x>> \in OpToRel(<, Nat))
    BY NatLessThanWellFounded, WFMin, Zenon
<1> QED
    BY <1>1 DEF OpToRel

\* The first marker of a text that has one.
LEMMA MarkFacts ==
    ASSUME NEW t \in Seq(Nat), Marked(t)
    PROVE  /\ MarkIn(t) \in 1..Len(t)
           /\ t[MarkIn(t)] = Elided
           /\ \A j \in 1..(MarkIn(t) - 1) : t[j] # Elided
<1> DEFINE T == {i \in DOMAIN t : t[i] = Elided}
<1>1. DOMAIN t = 1..Len(t) /\ Len(t) \in Nat
    OBVIOUS
<1>2. T \subseteq Nat /\ T # {}
    BY <1>1 DEF Marked
<1>3. PICK x \in T : \A y \in T : ~ (y < x)
    <2> HIDE DEF T
    <2> QED
        BY <1>2, SmallestElement
<1>4. \A j \in 1..(x - 1) : t[j] # Elided
    BY <1>1, <1>3
<1>5. \E i \in DOMAIN t : t[i] = Elided /\ \A j \in 1..(i - 1) : t[j] # Elided
    BY <1>3, <1>4
<1> HIDE DEF T
<1> QED
    BY <1>1, <1>5 DEF MarkIn

\* A text over the budget: half a budget of head, the marker, as much tail.
FoldAt(u, t, d) ==
    /\ d + Half = Len(t) /\ Len(u) = Budget + 1
    /\ Agree(u, 0, t, 0, Half)
    /\ u[Half + 1] = Elided
    /\ Agree(u, Half + 1, t, d, Half)

LEMMA BoundedFacts ==
    ASSUME NEW t \in Seq(Nat)
    PROVE  /\ Bounded(t) \in Seq(Nat)
           /\ Len(t) <= Budget => Bounded(t) = t
           /\ Len(t) > Budget => \E d \in Nat : FoldAt(Bounded(t), t, d)
<1>0. Len(t) \in Nat
    OBVIOUS
<1>1. CASE Len(t) <= Budget
    BY <1>0, <1>1, HalfFacts DEF Bounded
<1>2. CASE Len(t) > Budget
    <2>0. Half <= Len(t) /\ Half \in Nat /\ Half < Len(t) /\ ~ (Len(t) <= Budget)
        BY <1>0, <1>2, HalfFacts
    <2>1. PICK h : h = First(Half, t)
        OBVIOUS
    <2>2. PICK l : l = Last(Half, t)
        OBVIOUS
    <2>3. PICK g : g = h \o One(Elided)
        OBVIOUS
    <2>4. PICK u : u = g \o l
        OBVIOUS
    <2>5. u = Bounded(t)
        BY <2>0, <2>1, <2>2, <2>3, <2>4 DEF Bounded, One
    <2>6. h \in Seq(Nat) /\ Len(h) = Half /\ Agree(h, 0, t, 0, Half)
        BY <2>0, <2>1, FirstFacts
    <2>7. PICK d \in Nat, b \in Nat : LastAt(Half, t, d, b, Nat)
        BY <2>0, LastFacts
    <2>8. /\ d + b = Len(t) /\ b <= Half /\ (b < Half => d = 0)
          /\ l \in Seq(Nat) /\ Len(l) = b /\ Agree(l, 0, t, d, b)
        BY <2>2, <2>7, Zenon DEF LastAt
    <2>9. b = Half
        <3>1. d + b = Len(t) /\ b <= Half /\ (b < Half => d = 0)
            BY <2>8, Zenon
        <3> QED
            BY <1>0, <2>0, <3>1
    <2>10. One(Elided) \in Seq(Nat)
        BY DEF One, Elided
    <2>11. Cat(g, h, One(Elided), Nat)
        BY <2>3, <2>6, <2>10, Zenon DEF Cat
    <2>12. g \in Seq(Nat)
        BY <2>11, CatFacts
    <2>13. Cat(u, g, l, Nat)
        BY <2>4, <2>8, <2>12, Zenon DEF Cat
    <2>14. /\ u \in Seq(Nat)
           /\ Len(u) = Half + 1 + Half
           /\ Agree(u, 0, h, 0, Half)
           /\ u[Half + 1] = Elided
           /\ Agree(u, Half + 1, l, 0, Half)
        <3>1. /\ u \in Seq(Nat)
              /\ Len(u) = Len(h) + 1 + Len(l)
              /\ Agree(u, 0, h, 0, Len(h))
              /\ u[Len(h) + 1] = Elided
              /\ Agree(u, Len(h) + 1, l, 0, Len(l))
            BY <2>11, <2>13, PartsFacts
        <3> QED
            BY <3>1, <2>6, <2>8, <2>9, Zenon
    <2>15. Agree(u, 0, t, 0, Half)
        BY <2>0, <2>6, <2>14, AgreeTrans
    <2>16. Agree(u, Half + 1, t, d, Half)
        BY <2>0, <2>8, <2>9, <2>14, AgreeTrans
    <2>17. Half + 1 + Half = Budget + 1
        BY HalfFacts
    <2>18. FoldAt(u, t, d)
        BY <2>8, <2>9, <2>14, <2>15, <2>16, <2>17, Zenon DEF FoldAt
    <2> QED
        BY <1>0, <1>2, <2>0, <2>5, <2>14, <2>18, HalfFacts
<1> QED
    BY <1>0, <1>1, <1>2, HalfFacts

-----------------------------------------------------------------------------
\* What follows the first k elements.
Rest(v, s, k, m, S) == s \in Seq(S) /\ k + m = Len(s) /\ v = SubSeq(s, k + 1, Len(s))

LEMMA RestFacts ==
    ASSUME NEW S, NEW s, NEW k \in Nat, NEW m \in Nat, NEW v, Rest(v, s, k, m, S)
    PROVE  v \in Seq(S) /\ Len(v) = m /\ Agree(v, 0, s, k, m)
<1>1. v = SubSeq(s, k + 1, k + m)
    BY Zenon DEF Rest
<1>2. k + m <= Len(s)
    BY DEF Rest
<1>3. Cut(v, s, k, m, S)
    BY <1>1, <1>2, Zenon DEF Cut, Rest
<1> QED
    BY <1>3, CutFacts

\* The part of a concatenation behind a place in its first half.
LEMMA BehindFacts ==
    ASSUME NEW t \in Seq(Nat), NEW new \in Seq(Nat), NEW k \in Nat, k <= Len(t)
    PROVE  SubSeq(t, k + 1, Len(t)) \o new = SubSeq(t \o new, k + 1, Len(t \o new))
<1>0. Len(t) \in Nat /\ Len(new) \in Nat
    OBVIOUS
<1>1. PICK left : left = SubSeq(t, k + 1, Len(t))
    OBVIOUS
<1>2. PICK rest : rest = left \o new
    OBVIOUS
<1>3. PICK w : w = t \o new
    OBVIOUS
<1>4. PICK v : v = SubSeq(w, k + 1, Len(w))
    OBVIOUS
<1>5. PICK c \in Nat : k + c = Len(t)
    <2>1. Len(t) - k \in Nat /\ k + (Len(t) - k) = Len(t)
        BY <1>0
    <2> QED
        BY <2>1, Zenon
<1>8. left \in Seq(Nat) /\ Len(left) = c /\ Agree(left, 0, t, k, c)
    <2>1. Rest(left, t, k, c, Nat)
        BY <1>1, <1>5, Zenon DEF Rest
    <2> QED
        BY <2>1, RestFacts
<1>9. Cat(rest, left, new, Nat)
    BY <1>2, <1>8, Zenon DEF Cat
<1>10. /\ rest \in Seq(Nat) /\ Len(rest) = Len(left) + Len(new)
       /\ Agree(rest, 0, left, 0, Len(left)) /\ Agree(rest, Len(left), new, 0, Len(new))
    BY <1>9, CatFacts
<1>11. Cat(w, t, new, Nat)
    BY <1>3, Zenon DEF Cat
<1>12. /\ w \in Seq(Nat) /\ Len(w) = Len(t) + Len(new)
       /\ Agree(w, 0, t, 0, Len(t)) /\ Agree(w, Len(t), new, 0, Len(new))
    BY <1>11, CatFacts
<1>13. PICK m \in Nat : m = c + Len(new)
    BY <1>0
<1>b. Len(t) + Len(new) = k + m
    <2>1. k + c + Len(new) = k + (c + Len(new))
        BY <1>0
    <2> QED
        BY <1>5, <1>13, <2>1, Zenon
<1>14. Len(w) = k + m /\ Len(rest) = m
    BY <1>8, <1>10, <1>12, <1>13, <1>b, Zenon
<1>16. v \in Seq(Nat) /\ Len(v) = m /\ Agree(v, 0, w, k, m)
    <2>1. Rest(v, w, k, m, Nat)
        BY <1>4, <1>12, <1>14, Zenon DEF Rest
    <2> QED
        BY <2>1, RestFacts
<1>17. Agree(rest, 0, w, k, c)
    <2>1. Agree(rest, 0, left, 0, c)
        BY <1>8, <1>10, Zenon
    <2>2. Agree(rest, 0, t, k, c)
        BY <1>8, <2>1, AgreeTrans
    <2>3. Agree(t, k, w, k, c)
        <3>1. Agree(t, 0, w, 0, Len(t))
            BY <1>0, <1>12, AgreeSym
        <3>0. k + c <= Len(t)
            BY <1>5
        <3>2. Agree(t, 0 + k, w, 0 + k, c)
            BY <1>0, <3>1, <3>0, AgreePart
        <3> QED
            BY <3>2
    <2> QED
        BY <2>2, <2>3, AgreeTrans
<1>18. Agree(rest, c, w, k + c, Len(new))
    <2>1. Agree(rest, c, new, 0, Len(new)) /\ Agree(w, k + c, new, 0, Len(new))
        BY <1>5, <1>8, <1>10, <1>12, Zenon
    <2>2. Agree(new, 0, w, k + c, Len(new))
        BY <1>0, <2>1, AgreeSym
    <2> QED
        BY <1>0, <2>1, <2>2, AgreeTrans
<1>19. Agree(rest, 0, w, k, m)
    <2>1. Agree(rest, 0 + c, w, k + c, Len(new))
        BY <1>18
    <2>2. Agree(rest, 0, w, k, c + Len(new))
        BY <1>0, <1>17, <2>1, AgreeJoin
    <2> QED
        BY <1>13, <2>2, Zenon
<1>20. rest = v
    <2>1. Agree(w, k, v, 0, m)
        BY <1>16, AgreeSym
    <2>2. Agree(rest, 0, v, 0, m)
        BY <1>19, <2>1, AgreeTrans
    <2> QED
        BY <1>10, <1>14, <1>16, <2>2, AgreeEqual
<1> QED
    BY <1>1, <1>2, <1>3, <1>4, <1>20

\* What a message merged into a text with a marker leaves: the text up to its
\* first marker, k characters, and the last b of what comes behind that.
SlidAt(u, t, w, k, d, b) ==
    /\ b <= Half /\ d + b = Len(w) /\ d >= k /\ (d > k => b = Half)
    /\ u \in Seq(Nat) /\ Len(u) = k + b
    /\ Agree(u, 0, t, 0, k)
    /\ Agree(u, k, w, d, b)

LEMMA SlidFacts ==
    ASSUME NEW t \in Seq(Nat), NEW new \in Seq(Nat), Marked(t), NEW w, w = t \o new
    PROVE  \E d, b \in Nat : SlidAt(Merged(t, new), t, w, MarkIn(t), d, b)
<1>0. Len(t) \in Nat /\ Len(new) \in Nat /\ Half \in Nat
    BY HalfFacts
<1>1. PICK k \in Nat : k = MarkIn(t) /\ k <= Len(t)
    BY <1>0, MarkFacts
<1>2. Cat(w, t, new, Nat)
    BY Zenon DEF Cat
<1>3. w \in Seq(Nat) /\ Len(w) = Len(t) + Len(new) /\ Len(w) \in Nat
    BY <1>2, CatFacts
<1>4. PICK rest : rest = SubSeq(w, k + 1, Len(w))
    OBVIOUS
<1>5. rest = SubSeq(t, k + 1, Len(t)) \o new
    BY <1>1, <1>4, BehindFacts
<1>6. PICK l : l = Last(Half, rest)
    OBVIOUS
<1>7. PICK h : h = First(k, t)
    OBVIOUS
<1>8. PICK u : u = h \o l
    OBVIOUS
<1>9. u = Merged(t, new)
    BY <1>1, <1>5, <1>6, <1>7, <1>8, Zenon DEF Merged
<1>10. PICK m \in Nat : k + m = Len(w)
    <2>1. Len(w) - k \in Nat /\ k + (Len(w) - k) = Len(w)
        BY <1>0, <1>1, <1>3
    <2> QED
        BY <2>1, Zenon
<1>14. rest \in Seq(Nat) /\ Len(rest) = m /\ Agree(rest, 0, w, k, m)
    <2>1. Rest(rest, w, k, m, Nat)
        BY <1>3, <1>4, <1>10, Zenon DEF Rest
    <2> QED
        BY <2>1, RestFacts
<1>15. PICK e \in Nat, b \in Nat : LastAt(Half, rest, e, b, Nat)
    BY <1>0, <1>14, LastFacts
<1>16. /\ e + b = m /\ b <= Half /\ (b < Half => e = 0)
       /\ l \in Seq(Nat) /\ Len(l) = b /\ Agree(l, 0, rest, e, b)
    BY <1>6, <1>14, <1>15, Zenon DEF LastAt
<1>17. PICK d \in Nat : d = k + e
    OBVIOUS
<1>18. d + b = Len(w) /\ d >= k /\ (d > k => b = Half)
    <2>1. e + b = m /\ b <= Half /\ (b < Half => e = 0)
        BY <1>16, Zenon
    <2> QED
        BY <1>0, <1>10, <1>17, <2>1
<1>19. Agree(l, 0, w, d, b)
    <2>1. e + b <= m
        BY <1>16
    <2>2. Agree(rest, 0 + e, w, k + e, b)
        BY <1>14, <2>1, AgreePart
    <2>3. Agree(rest, e, w, d, b)
        BY <1>17, <2>2
    <2> QED
        BY <1>16, <2>3, AgreeTrans
<1>20. h \in Seq(Nat) /\ Len(h) = k /\ Agree(h, 0, t, 0, k)
    BY <1>1, <1>7, FirstFacts
<1>21. Cat(u, h, l, Nat)
    BY <1>8, <1>16, <1>20, Zenon DEF Cat
<1>22. /\ u \in Seq(Nat) /\ Len(u) = Len(h) + Len(l)
       /\ Agree(u, 0, h, 0, Len(h)) /\ Agree(u, Len(h), l, 0, Len(l))
    BY <1>21, CatFacts
<1>23. Len(u) = k + b /\ Agree(u, 0, h, 0, k) /\ Agree(u, k, l, 0, b)
    BY <1>16, <1>20, <1>22, Zenon
<1>24. Agree(u, 0, t, 0, k)
    BY <1>20, <1>23, AgreeTrans
<1>25. Agree(u, k, w, d, b)
    BY <1>19, <1>23, AgreeTrans
<1>26. SlidAt(u, t, w, k, d, b)
    BY <1>16, <1>18, <1>22, <1>23, <1>24, <1>25, Zenon DEF SlidAt
<1> QED
    BY <1>1, <1>9, <1>26, Zenon

-----------------------------------------------------------------------------
\* A text the sink may hold: when the first marker is missing or beyond the
\* budget, later messages could grow it further.
Tame(t) ==
    /\ t \in Seq(Nat) /\ Len(t) <= Budget + Half
    /\ IF Marked(t) THEN MarkIn(t) <= Budget ELSE Len(t) <= Budget

\* A marker at a place is not before the first one.
LEMMA FirstMark ==
    ASSUME NEW t \in Seq(Nat), NEW k \in Nat, k >= 1, k <= Len(t), t[k] = Elided
    PROVE  /\ Marked(t) /\ MarkIn(t) \in Nat /\ MarkIn(t) >= 1 /\ MarkIn(t) <= k
           /\ t[MarkIn(t)] = Elided
<1>1. k \in 1..Len(t) /\ Len(t) \in Nat /\ DOMAIN t = 1..Len(t)
    OBVIOUS
<1>2. Marked(t)
    BY <1>1 DEF Marked
<1>3. MarkIn(t) \in 1..Len(t) /\ t[MarkIn(t)] = Elided /\ \A j \in 1..(MarkIn(t) - 1) : t[j] # Elided
    BY <1>2, MarkFacts
<1>4. MarkIn(t) <= k
    BY <1>1, <1>3
<1> QED
    BY <1>1, <1>2, <1>3, <1>4

LEMMA BoundedIsTame ==
    ASSUME NEW t \in Seq(Nat)
    PROVE  Tame(Bounded(t))
<1>1. PICK u : u = Bounded(t)
    OBVIOUS
<1>2. u \in Seq(Nat) /\ Len(u) \in Nat /\ Len(t) \in Nat /\ DOMAIN u = 1..Len(u)
    BY <1>1, BoundedFacts
<1>3. CASE Len(t) <= Budget
    <2>1. Len(u) <= Budget
        BY <1>1, <1>3, BoundedFacts
    <2>2. Marked(u) => MarkIn(u) \in 1..Len(u)
        BY <1>2, MarkFacts
    <2> QED
        BY <1>1, <1>2, <2>1, <2>2, HalfFacts DEF Tame
<1>4. CASE ~ (Len(t) <= Budget)
    <2>0. Len(t) > Budget
        BY <1>2, <1>4, HalfFacts
    <2>1. PICK d \in Nat : FoldAt(u, t, d)
        BY <1>1, <2>0, BoundedFacts
    <2>2. Len(u) = Budget + 1 /\ u[Half + 1] = Elided
        BY <2>1, Zenon DEF FoldAt
    <2>3. Half + 1 \in Nat /\ Half + 1 >= 1 /\ Half + 1 <= Budget + 1 /\ Half + 1 <= Budget
        BY HalfFacts
    <2>4. Marked(u) /\ MarkIn(u) \in Nat /\ MarkIn(u) <= Half + 1
        BY <1>2, <2>2, <2>3, FirstMark
    <2>5. Len(u) <= Budget + Half /\ MarkIn(u) <= Budget
        BY <2>2, <2>3, <2>4, HalfFacts
    <2> QED
        BY <1>1, <1>2, <2>4, <2>5, Zenon DEF Tame
<1> QED
    BY <1>3, <1>4

LEMMA MergedIsTame ==
    ASSUME NEW t, Tame(t), NEW new \in Seq(Nat)
    PROVE  Tame(Merged(t, new))
<1>0. t \in Seq(Nat) /\ Len(t) \in Nat /\ Len(new) \in Nat
    BY DEF Tame
<1>1. CASE Marked(t)
    <2>1. PICK k \in Nat : k = MarkIn(t) /\ k >= 1 /\ k <= Len(t) /\ t[k] = Elided
        BY <1>0, <1>1, MarkFacts, SMTT(60)
    <2>2. k <= Budget
        BY <1>1, <2>1, Zenon DEF Tame
    <2>3. PICK u : u = Merged(t, new)
        OBVIOUS
    <2>4. PICK d \in Nat, b \in Nat : SlidAt(u, t, t \o new, MarkIn(t), d, b)
        BY <1>0, <1>1, <2>3, SlidFacts
    <2>5. b <= Half /\ u \in Seq(Nat) /\ Len(u) = k + b /\ Agree(u, 0, t, 0, k)
        BY <2>1, <2>4, Zenon DEF SlidAt
    <2>6. u[k] = Elided
        <3>1. k \in 1..k /\ 0 + k = k
            BY <2>1
        <3>2. u[0 + k] = t[0 + k]
            BY <2>5, <3>1, Zenon DEF Agree
        <3> QED
            BY <2>1, <3>1, <3>2, Zenon
    <2>7. k <= Len(u) /\ Len(u) <= Budget + Half
        BY <2>2, <2>5, HalfFacts
    <2>8. Marked(u) /\ MarkIn(u) \in Nat /\ MarkIn(u) <= k
        BY <2>1, <2>5, <2>6, <2>7, FirstMark
    <2>9. MarkIn(u) <= Budget
        BY <2>2, <2>8, HalfFacts
    <2> QED
        BY <2>3, <2>5, <2>7, <2>8, <2>9, Zenon DEF Tame
<1>2. CASE ~ Marked(t)
    <2>1. t \o new \in Seq(Nat)
        BY <1>0
    <2> QED
        BY <1>2, <2>1, BoundedIsTame DEF Merged
<1> QED
    BY <1>1, <1>2

\* Merging a message into a bounded text is bounding the merged text, as long
\* as the text does not hold the marker itself.
LEMMA MergeIsFold ==
    ASSUME NEW w \in Seq(Nat), NEW new \in Seq(Nat), ~ Marked(w \o new)
    PROVE  Merged(Bounded(w), new) = Bounded(w \o new)
<1>0. Len(w) \in Nat /\ Len(new) \in Nat
    OBVIOUS
<1>1. PICK v : v = w \o new
    OBVIOUS
<1>2. Cat(v, w, new, Nat)
    BY <1>1, Zenon DEF Cat
<1>3. /\ v \in Seq(Nat) /\ Len(v) = Len(w) + Len(new) /\ Len(v) \in Nat
      /\ Agree(v, 0, w, 0, Len(w)) /\ Agree(v, Len(w), new, 0, Len(new))
    BY <1>2, CatFacts
<1>4. \A i \in Nat : i >= 1 /\ i <= Len(w) => w[i] # Elided
    <2> SUFFICES ASSUME NEW i \in Nat, i >= 1, i <= Len(w) PROVE w[i] # Elided
        OBVIOUS
    <2>1. i \in 1..Len(w) /\ 0 + i = i
        BY <1>0
    <2>2. v[0 + i] = w[0 + i]
        BY <1>3, <2>1, Zenon DEF Agree
    <2>3. i \in DOMAIN v
        BY <1>0, <1>3
    <2>4. v[i] # Elided
        BY <1>1, <2>3, Zenon DEF Marked
    <2> QED
        BY <2>1, <2>2, <2>4, Zenon
<1>5. CASE Len(w) <= Budget
    <2>1. Bounded(w) = w
        BY <1>5, BoundedFacts
    <2>2. ~ Marked(w)
        <3> SUFFICES ASSUME NEW i \in 1..Len(w) PROVE w[i] # Elided
            BY DEF Marked
        <3>1. i \in Nat /\ i >= 1 /\ i <= Len(w)
            BY <1>0
        <3> QED
            BY <1>4, <3>1, Zenon
    <2> QED
        BY <2>1, <2>2, Zenon DEF Merged
<1>6. CASE ~ (Len(w) <= Budget)
    <2>0. Len(w) > Budget /\ Len(v) > Budget /\ Half \in Nat /\ Budget \in Nat
        BY <1>0, <1>3, <1>6, HalfFacts
    <2>1. PICK t : t = Bounded(w)
        OBVIOUS
    <2>2. t \in Seq(Nat) /\ \E d \in Nat : FoldAt(t, w, d)
        BY <2>0, <2>1, BoundedFacts
    <2>3. PICK dw \in Nat : FoldAt(t, w, dw)
        BY <2>2
    <2>4. /\ dw + Half = Len(w) /\ Len(t) = Budget + 1
          /\ Agree(t, 0, w, 0, Half) /\ t[Half + 1] = Elided /\ Agree(t, Half + 1, w, dw, Half)
        BY <2>3, Zenon DEF FoldAt
    <2>5. MarkIn(t) = Half + 1 /\ Marked(t)
        <3>1. Half + 1 \in Nat /\ Half + 1 >= 1 /\ Half + 1 <= Budget + 1
            BY HalfFacts
        <3>2. Marked(t) /\ MarkIn(t) \in Nat /\ MarkIn(t) >= 1 /\ MarkIn(t) <= Half + 1 /\ t[MarkIn(t)] = Elided
            BY <2>2, <2>4, <3>1, FirstMark
        <3>3. ASSUME MarkIn(t) <= Half PROVE FALSE
            <4>1. PICK k \in Nat : k = MarkIn(t)
                BY <3>2
            <4>2. k \in 1..Half /\ 0 + k = k /\ k >= 1 /\ k <= Len(w)
                <5>1. Half <= Len(w)
                    BY <2>0, HalfFacts
                <5> QED
                    BY <2>0, <3>2, <3>3, <4>1, <5>1, <1>0
            <4>3. t[0 + k] = w[0 + k]
                BY <2>4, <4>2, Zenon DEF Agree
            <4> QED
                BY <1>4, <3>2, <4>1, <4>2, <4>3, Zenon
        <3>4. PICK k \in Nat : k = MarkIn(t) /\ k <= Half + 1 /\ ~ (k <= Half)
            BY <3>2, <3>3, Zenon
        <3>5. k = Half + 1
            BY <2>0, <3>4
        <3> QED
            BY <3>2, <3>4, <3>5, Zenon
    <2>6. PICK x : x = t \o new
        OBVIOUS
    <2>7. Cat(x, t, new, Nat)
        BY <2>2, <2>6, Zenon DEF Cat
    <2>8. /\ x \in Seq(Nat) /\ Len(x) = Len(t) + Len(new)
          /\ Agree(x, 0, t, 0, Len(t)) /\ Agree(x, Len(t), new, 0, Len(new))
        BY <2>7, CatFacts
    <2>9. PICK m : m = Merged(t, new)
        OBVIOUS
    <2>10. \E d, b \in Nat : SlidAt(m, t, x, MarkIn(t), d, b)
        BY <2>2, <2>5, <2>6, <2>9, SlidFacts
    <2>11. PICK d \in Nat, b \in Nat : SlidAt(m, t, x, Half + 1, d, b)
        BY <2>5, <2>10, Zenon
    <2>12. /\ b <= Half /\ d + b = Len(x) /\ d >= Half + 1 /\ (d > Half + 1 => b = Half)
           /\ m \in Seq(Nat) /\ Len(m) = Half + 1 + b
           /\ Agree(m, 0, t, 0, Half + 1) /\ Agree(m, Half + 1, x, d, b)
        BY <2>11, Zenon DEF SlidAt
    <2>13. PICK n \in Nat : n = Len(new)
        BY <1>0
    <2>14. b = Half /\ d = Half + 1 + n
        <3>1. d + b = Budget + 1 + n
            BY <2>4, <2>8, <2>12, <2>13, Zenon
        <3>2. b <= Half /\ d >= Half + 1 /\ (d > Half + 1 => b = Half)
            BY <2>12, Zenon
        <3>3. b = Half
            BY <3>1, <3>2, HalfFacts
        <3> QED
            BY <3>1, <3>3, HalfFacts
    <2>15. PICK y : y = Bounded(v)
        OBVIOUS
    <2>16. y \in Seq(Nat) /\ \E e \in Nat : FoldAt(y, v, e)
        BY <1>3, <2>0, <2>15, BoundedFacts
    <2>17. PICK e \in Nat : FoldAt(y, v, e)
        BY <2>16
    <2>18. /\ e + Half = Len(v) /\ Len(y) = Budget + 1
           /\ Agree(y, 0, v, 0, Half) /\ y[Half + 1] = Elided /\ Agree(y, Half + 1, v, e, Half)
        BY <2>17, Zenon DEF FoldAt
    <2>19. e = dw + n
        <3>1. e + Half = dw + Half + n
            BY <1>3, <2>4, <2>13, <2>18, Zenon
        <3> QED
            BY <3>1, HalfFacts
    <2>20. Half <= Len(w) /\ Half <= Budget + 1 /\ Half + 1 + Half = Budget + 1
        BY <1>0, <2>0, HalfFacts
    \* The heads are that of w.
    <2>21. Agree(m, 0, y, 0, Half)
        <3>1. Agree(m, 0, t, 0, Half)
            BY <2>0, <2>12, AgreeHead
        <3>2. Agree(m, 0, w, 0, Half)
            BY <2>0, <2>4, <3>1, AgreeTrans
        <3>3. Agree(v, 0, w, 0, Half)
            BY <1>0, <1>3, <2>0, <2>20, AgreeHead
        <3>4. Agree(y, 0, w, 0, Half)
            BY <2>0, <2>18, <3>3, AgreeTrans
        <3>5. Agree(w, 0, y, 0, Half)
            BY <2>0, <3>4, AgreeSym
        <3> QED
            BY <2>0, <3>2, <3>5, AgreeTrans
    <2>22. m[Half + 1] = Elided
        <3>1. Half + 1 \in 1..(Half + 1) /\ 0 + (Half + 1) = Half + 1
            BY <2>0
        <3>2. m[0 + (Half + 1)] = t[0 + (Half + 1)]
            BY <2>12, <3>1, Zenon DEF Agree
        <3> QED
            BY <2>4, <3>1, <3>2, Zenon
    \* Behind the markers the old tail and the message agree with all of it.
    <2>23. Agree(x, Half + 1, v, dw, Half)
        <3>1. Agree(x, 0, t, 0, Budget + 1)
            BY <2>4, <2>8, Zenon
        <3>0. Half + 1 \in Nat /\ Budget + 1 \in Nat /\ Half \in Nat /\ (Half + 1) + Half <= Budget + 1
            BY <2>0, <2>20
        <3>2. Agree(x, 0 + (Half + 1), t, 0 + (Half + 1), Half)
            BY <3>0, <3>1, AgreePart
        <3>3. Agree(x, Half + 1, t, Half + 1, Half)
            BY <2>0, <3>2
        <3>4. Agree(x, Half + 1, w, dw, Half)
            BY <2>0, <2>4, <3>3, AgreeTrans
        <3>5. dw + Half <= Len(w)
            BY <2>0, <2>4
        <3>6. Agree(v, 0 + dw, w, 0 + dw, Half)
            BY <1>0, <1>3, <2>0, <3>5, AgreePart
        <3>7. Agree(v, dw, w, dw, Half)
            BY <3>6
        <3>8. Agree(w, dw, v, dw, Half)
            BY <2>0, <3>7, AgreeSym
        <3> QED
            BY <2>0, <3>4, <3>8, AgreeTrans
    <2>24. Agree(x, Budget + 1, v, Len(w), n)
        <3>1. Agree(x, Budget + 1, new, 0, n) /\ Agree(v, Len(w), new, 0, n)
            BY <1>3, <2>4, <2>8, <2>13, Zenon
        <3>2. Agree(new, 0, v, Len(w), n)
            BY <1>0, <3>1, AgreeSym
        <3> QED
            BY <1>0, <2>0, <3>1, <3>2, AgreeTrans
    <2>25. Agree(x, Half + 1 + n, v, dw + n, Half)
        <3>1. Agree(x, Half + 1 + Half, v, dw + Half, n)
            BY <2>4, <2>20, <2>24, Zenon
        <3>0. Half + 1 \in Nat /\ Half + n \in Nat
            BY <2>0
        <3>2. Agree(x, Half + 1, v, dw, Half + n)
            BY <2>0, <2>23, <3>0, <3>1, AgreeJoin
        <3>3. n + Half <= Half + n
            BY <2>0
        <3> QED
            BY <2>0, <3>0, <3>2, <3>3, AgreePart
    <2>26. Agree(m, Half + 1, y, Half + 1, Half)
        <3>1. Agree(m, Half + 1, x, Half + 1 + n, Half)
            BY <2>12, <2>14, Zenon
        <3>2. Agree(m, Half + 1, v, dw + n, Half)
            BY <2>0, <2>25, <3>1, AgreeTrans
        <3>3. Agree(y, Half + 1, v, dw + n, Half)
            BY <2>18, <2>19, Zenon
        <3>4. Agree(v, dw + n, y, Half + 1, Half)
            BY <2>0, <3>3, AgreeSym
        <3> QED
            BY <2>0, <3>2, <3>4, AgreeTrans
    <2>27. Agree(m, 0, y, 0, Half + 1)
        <3>1. Agree(m, 0 + Half, y, 0 + Half, 1)
            <4>1. 0 + Half + 1 = Half + 1 /\ \A i \in 1..1 : i = 1
                BY <2>0
            <4> QED
                BY <2>18, <2>22, <4>1, Zenon DEF Agree
        <3> QED
            BY <2>0, <2>21, <3>1, AgreeJoin
    <2>28. Agree(m, 0, y, 0, Budget + 1)
        <3>0. Half + 1 \in Nat /\ 0 + (Half + 1) = Half + 1
            BY <2>0
        <3>1. Agree(m, 0 + (Half + 1), y, 0 + (Half + 1), Half)
            BY <2>26, <3>0, Zenon
        <3>2. Agree(m, 0, y, 0, Half + 1 + Half)
            BY <2>0, <2>27, <3>0, <3>1, AgreeJoin
        <3> QED
            BY <2>20, <3>2, Zenon
    <2>29. m = y
        <3>1. Len(m) = Budget + 1
            BY <2>12, <2>14, <2>20, Zenon
        <3> QED
            BY <2>0, <2>12, <2>16, <2>18, <2>28, <3>1, AgreeEqual, SMTT(60)
    <2> QED
        BY <1>1, <2>1, <2>9, <2>15, <2>29, Zenon
<1> QED
    BY <1>5, <1>6

-----------------------------------------------------------------------------
(* The list of entries.                                                    *)

\* The c elements of u behind the first a are the folded ones of w behind b.
Folds(u, a, w, b, c) == \A i \in 1..c : u[a + i] = Folded(w[b + i])

LEMMA FoldsLeft ==
    ASSUME NEW u, NEW s, NEW w, NEW a \in Nat, NEW b \in Nat, NEW d \in Nat, NEW c \in Nat,
           Agree(u, a, s, b, c), Folds(s, b, w, d, c)
    PROVE  Folds(u, a, w, d, c)
BY DEF Agree, Folds

LEMMA FoldsRight ==
    ASSUME NEW u, NEW x, NEW w, NEW a \in Nat, NEW b \in Nat, NEW d \in Nat, NEW c \in Nat,
           Folds(u, a, w, b, c), Agree(x, d, w, b, c)
    PROVE  Folds(u, a, x, d, c)
BY DEF Agree, Folds

LEMMA FoldsHead ==
    ASSUME NEW u, NEW w, NEW a \in Nat, NEW b \in Nat, NEW c \in Nat, NEW n \in Nat,
           Folds(u, a, w, b, c), n <= c
    PROVE  Folds(u, a, w, b, n)
BY DEF Folds

LEMMA FoldsTail ==
    ASSUME NEW u, NEW w, NEW a \in Nat, NEW b \in Nat, NEW c \in Nat, NEW x \in Nat, NEW n \in Nat,
           Folds(u, a, w, b, c), x + n <= c
    PROVE  Folds(u, a + x, w, b + x, n)
<1> SUFFICES ASSUME NEW i \in 1..n PROVE u[a + x + i] = Folded(w[b + x + i])
    BY DEF Folds
<1>1. PICK j \in Nat : j = x + i
    OBVIOUS
<1>2. j \in 1..c /\ a + x + i = a + j /\ b + x + i = b + j
    BY <1>1
<1>3. u[a + j] = Folded(w[b + j])
    BY <1>2 DEF Folds
<1> QED
    BY <1>2, <1>3, Zenon

LEMMA FoldsOne ==
    ASSUME NEW u, NEW w, NEW a \in Nat, NEW b \in Nat, NEW c \in Nat,
           Folds(u, a, w, b, c), u[a + (c + 1)] = Folded(w[b + (c + 1)])
    PROVE  Folds(u, a, w, b, c + 1)
<1> SUFFICES ASSUME NEW i \in 1..(c + 1) PROVE u[a + i] = Folded(w[b + i])
    BY DEF Folds
<1>1. CASE i = c + 1
    BY <1>1, Zenon
<1>2. CASE i # c + 1
    <2>1. i \in 1..c
        BY <1>2
    <2> QED
        BY <2>1, Zenon DEF Folds
<1> QED
    BY <1>1, <1>2

Add(u, s, y, S) == s \in Seq(S) /\ y \in S /\ u = Append(s, y)

LEMMA AddFacts ==
    ASSUME NEW S, NEW s, NEW y, NEW u, NEW n \in Nat, Add(u, s, y, S), Len(s) = n
    PROVE  u \in Seq(S) /\ Len(u) = n + 1 /\ Agree(u, 0, s, 0, n) /\ u[n + 1] = y
<1>1. u \in Seq(S) /\ Len(u) = n + 1 /\ (\A i \in 1..n : u[i] = s[i]) /\ u[n + 1] = y
    BY DEF Add
<1>2. Agree(u, 0, s, 0, n)
    BY <1>1 DEF Agree
<1> QED
    BY <1>1, <1>2, Zenon

\* The last element replaced.
Put(u, s, y, S) == s \in Seq(S) /\ y \in S /\ u = [s EXCEPT ![Len(s)] = y]

LEMMA PutFacts ==
    ASSUME NEW S, NEW s, NEW y, NEW u, NEW n \in Nat, Put(u, s, y, S), Len(s) = n + 1
    PROVE  u \in Seq(S) /\ Len(u) = n + 1 /\ Agree(u, 0, s, 0, n) /\ u[n + 1] = y
<1>1. u \in Seq(S) /\ Len(u) = n + 1 /\ (\A i \in 1..n : u[i] = s[i]) /\ u[n + 1] = y
    BY DEF Put
<1>2. Agree(u, 0, s, 0, n)
    BY <1>1 DEF Agree
<1> QED
    BY <1>1, <1>2, Zenon

Mid == MaxOutputs \div 2

LEMMA MidFacts ==
    /\ Mid \in Nat /\ HeadKept \in Nat /\ TailKept \in Nat /\ MaxOutputs \in Nat
    /\ HeadKept + 1 = Mid /\ HeadKept >= 1
    /\ Mid + TailKept = MaxOutputs /\ TailKept >= 2
BY CapFacts DEF Mid, HeadKept, TailKept

LEMMA FoldedType ==
    ASSUME NEW e \in Entries
    PROVE  Folded(e) \in Entries
BY BoundedFacts DEF Folded, Entries, Text

LEMMA ElidedType == ElidedEntry \in Entries
BY DEF ElidedEntry, Entries, Text, Elided

\* What WithRoom leaves of a full list.
Room(u, s, m) ==
    /\ u \in Seq(Entries) /\ Len(u) = Mid + m
    /\ Agree(u, 0, s, 0, HeadKept)
    /\ u[HeadKept + 1] = ElidedEntry
    /\ Agree(u, Mid, s, Mid + 1, m)

LEMMA RoomFacts ==
    ASSUME NEW s \in Seq(Entries), Len(s) = MaxOutputs, NEW m \in Nat, Mid + (m + 1) = MaxOutputs
    PROVE  Room(WithRoom(s), s, m)
<1>0. /\ Mid \in Nat /\ HeadKept \in Nat /\ HeadKept + 1 = Mid /\ Mid <= Len(s) /\ HeadKept <= Len(s)
      /\ HeadKept <= Mid /\ Mid >= 1
      /\ Len(s) \in Nat /\ ~ (Len(s) < MaxOutputs)
    BY MidFacts
<1>1. PICK l : l = SubSeq(s, (Mid + 1) + 1, Len(s))
    OBVIOUS
<1>2. Rest(l, s, Mid + 1, m, Entries)
    <2>1. (Mid + 1) + m = Len(s)
        BY <1>0
    <2> QED
        BY <1>1, <2>1, Zenon DEF Rest
<1>3. l \in Seq(Entries) /\ Len(l) = m /\ Agree(l, 0, s, Mid + 1, m)
    <2>1. Mid + 1 \in Nat
        BY <1>0
    <2> QED
        BY <1>2, <2>1, RestFacts
<1>4. PICK u : u = WithRoom(s)
    OBVIOUS
<1>5. /\ s[Mid] = ElidedEntry => u = First(Mid, s) \o l
      /\ s[Mid] # ElidedEntry => u = First(HeadKept, s) \o One(ElidedEntry) \o l
    <2>1. (Mid + 1) + 1 = Mid + 2 /\ Mid = Len(s) \div 2 /\ HeadKept = Len(s) \div 2 - 1
        BY <1>0 DEF Mid, HeadKept
    <2> QED
        BY <1>0, <1>1, <1>4, <2>1, Zenon DEF WithRoom, One
<1>6. CASE s[Mid] = ElidedEntry
    <2>1. PICK h : h = First(Mid, s)
        OBVIOUS
    <2>2. h \in Seq(Entries) /\ Len(h) = Mid /\ Agree(h, 0, s, 0, Mid)
        BY <1>0, <2>1, FirstFacts
    <2>3. Cat(u, h, l, Entries)
        BY <1>3, <1>5, <1>6, <2>1, <2>2, Zenon DEF Cat
    <2>4. u \in Seq(Entries) /\ Len(u) = Len(h) + Len(l) /\ Agree(u, 0, h, 0, Len(h)) /\ Agree(u, Len(h), l, 0, Len(l))
        BY <2>3, CatFacts
    <2>5. Len(u) = Mid + m /\ Agree(u, 0, h, 0, Mid) /\ Agree(u, Mid, l, 0, m)
        BY <1>3, <2>2, <2>4, Zenon
    <2>6. Agree(u, 0, s, 0, Mid)
        BY <1>0, <2>2, <2>5, AgreeTrans
    <2>7. Agree(u, 0, s, 0, HeadKept)
        BY <1>0, <2>6, AgreeHead
    <2>8. u[HeadKept + 1] = ElidedEntry
        <3>1. Mid \in 1..Mid /\ 0 + Mid = Mid
            BY <1>0
        <3>2. u[0 + Mid] = s[0 + Mid]
            BY <2>6, <3>1, Zenon DEF Agree
        <3> QED
            BY <1>0, <1>6, <3>1, <3>2, Zenon
    <2>9. Agree(u, Mid, s, Mid + 1, m)
        <3>1. Mid + 1 \in Nat
            BY <1>0
        <3> QED
            BY <1>0, <1>3, <2>5, <3>1, AgreeTrans
    <2> QED
        BY <1>4, <2>4, <2>5, <2>7, <2>8, <2>9, Zenon DEF Room
<1>7. CASE s[Mid] # ElidedEntry
    <2>1. PICK h : h = First(HeadKept, s)
        OBVIOUS
    <2>2. h \in Seq(Entries) /\ Len(h) = HeadKept /\ Agree(h, 0, s, 0, HeadKept)
        BY <1>0, <2>1, FirstFacts
    <2>3. PICK g : g = h \o One(ElidedEntry)
        OBVIOUS
    <2>4. One(ElidedEntry) \in Seq(Entries)
        BY ElidedType DEF One
    <2>5. Cat(g, h, One(ElidedEntry), Entries)
        BY <2>2, <2>3, <2>4, Zenon DEF Cat
    <2>6. g \in Seq(Entries)
        BY <2>5, CatFacts
    <2>7. Cat(u, g, l, Entries)
        BY <1>3, <1>5, <1>7, <2>1, <2>3, <2>6, Zenon DEF Cat
    <2>8. /\ u \in Seq(Entries) /\ Len(u) = Len(h) + 1 + Len(l)
          /\ Agree(u, 0, h, 0, Len(h)) /\ u[Len(h) + 1] = ElidedEntry /\ Agree(u, Len(h) + 1, l, 0, Len(l))
        BY <2>5, <2>7, PartsFacts
    <2>9. /\ Len(u) = Mid + m /\ Agree(u, 0, h, 0, HeadKept) /\ u[HeadKept + 1] = ElidedEntry
          /\ Agree(u, Mid, l, 0, m)
        BY <1>0, <1>3, <2>2, <2>8, Zenon
    <2>10. Agree(u, 0, s, 0, HeadKept)
        BY <1>0, <2>2, <2>9, AgreeTrans
    <2>11. Agree(u, Mid, s, Mid + 1, m)
        <3>1. Mid + 1 \in Nat
            BY <1>0
        <3> QED
            BY <1>0, <1>3, <2>9, <3>1, AgreeTrans
    <2> QED
        BY <1>4, <2>8, <2>9, <2>10, <2>11, Zenon DEF Room
<1> QED
    BY <1>6, <1>7

\* The sink of a list within the cap, and of a longer one: d entries are gone.
Short(u, w) == Len(u) = Len(w) /\ Folds(u, 0, w, 0, Len(w))
Ends(u, w, d) ==
    /\ d + MaxOutputs = Len(w) /\ Len(u) = MaxOutputs
    /\ Folds(u, 0, w, 0, HeadKept)
    /\ Folds(u, Mid, w, Mid + d, TailKept)
Long(u, w, d) == Ends(u, w, d) /\ u[HeadKept + 1] = ElidedEntry

LEMMA ShortIs ==
    ASSUME NEW u \in Seq(Entries), NEW w \in Seq(Entries), Len(w) <= MaxOutputs
    PROVE  u = FoldedAtOnce(w) <=> Short(u, w)
<1>1. Len(w) \in Nat /\ DOMAIN w = 1..Len(w) /\ DOMAIN u = 1..Len(u) /\ u = [i \in 1..Len(u) |-> u[i]]
    OBVIOUS
<1>2. FoldedAtOnce(w) = [i \in 1..Len(w) |-> Folded(w[i])]
    <2>1. FoldedAtOnce(w) = [i \in DOMAIN w |-> Folded(w[i])]
        BY DEF FoldedAtOnce
    <2> QED
        BY <1>1, <2>1, Zenon
<1>3. Folds(u, 0, w, 0, Len(w)) <=> \A i \in 1..Len(w) : u[i] = Folded(w[i])
    <2>1. \A i \in 1..Len(w) : 0 + i = i
        BY <1>1
    <2> QED
        BY <2>1, Zenon DEF Folds
<1>4. ASSUME u = FoldedAtOnce(w) PROVE Short(u, w)
    <2>1. u = [i \in 1..Len(w) |-> Folded(w[i])]
        BY <1>2, <1>4, Zenon
    <2>a. DOMAIN u = 1..Len(w)
        BY <2>1, Zenon
    <2>2. \A i \in 1..Len(w) : u[i] = Folded(w[i])
        BY <2>1, Zenon
    <2>3. Len(u) = Len(w)
        <3>1. PICK n \in Nat : n = Len(w)
            BY <1>1
        <3>2. DOMAIN u = 1..n
            BY <2>a, <3>1, Zenon
        <3>3. Len(u) = n
            BY <3>2
        <3> QED
            BY <3>1, <3>3, Zenon
    <2> QED
        BY <1>3, <2>2, <2>3, Zenon DEF Short
<1>5. ASSUME Short(u, w) PROVE u = FoldedAtOnce(w)
    <2>1. Len(u) = Len(w) /\ \A i \in 1..Len(w) : u[i] = Folded(w[i])
        BY <1>3, <1>5, Zenon DEF Short
    <2>2. u = [i \in 1..Len(w) |-> u[i]]
        BY <1>1, <2>1, Zenon
    <2> QED
        BY <1>2, <2>1, <2>2, Zenon
<1> QED
    BY <1>4, <1>5

LEMMA LongIs ==
    ASSUME NEW u \in Seq(Entries), NEW w \in Seq(Entries), NEW d \in Nat, d >= 1, d + MaxOutputs = Len(w)
    PROVE  u = FoldedAtOnce(w) <=> Long(u, w, d)
<1>0. /\ MaxOutputs \in Nat /\ HeadKept \in Nat /\ Mid \in Nat /\ TailKept \in Nat
      /\ HeadKept + 1 = Mid /\ Mid + TailKept = MaxOutputs /\ TailKept >= 2
    BY MidFacts
<1>1. ~ (Len(w) <= MaxOutputs)
    BY <1>0
<1>2. \A i \in Nat : i + Len(w) - MaxOutputs = d + i
    BY <1>0
<1>3. FoldedAtOnce(w) = [i \in 1..MaxOutputs |-> IF i <= HeadKept THEN Folded(w[i])
                                                 ELSE IF i = HeadKept + 1 THEN ElidedEntry
                                                 ELSE Folded(w[i + Len(w) - MaxOutputs])]
    BY <1>1, Zenon DEF FoldedAtOnce
<1>4. DOMAIN u = 1..Len(u) /\ Len(u) \in Nat /\ u = [i \in 1..Len(u) |-> u[i]]
    OBVIOUS
<1>5. Folds(u, 0, w, 0, HeadKept) <=> \A i \in 1..MaxOutputs : i <= HeadKept => u[i] = Folded(w[i])
    BY <1>0 DEF Folds
<1>6. Folds(u, Mid, w, Mid + d, TailKept) <=> \A i \in 1..MaxOutputs : i > Mid => u[i] = Folded(w[d + i])
    <2>1. ASSUME Folds(u, Mid, w, Mid + d, TailKept), NEW i \in 1..MaxOutputs, i > Mid
          PROVE  u[i] = Folded(w[d + i])
        <3>1. PICK j \in Nat : j = i - Mid
            BY <1>0, <2>1
        <3>2. j \in 1..TailKept /\ Mid + j = i /\ Mid + d + j = d + i
            BY <1>0, <2>1, <3>1
        <3>3. u[Mid + j] = Folded(w[Mid + d + j])
            BY <2>1, <3>2, Zenon DEF Folds
        <3> QED
            BY <3>2, <3>3, Zenon
    <2>2. ASSUME \A i \in 1..MaxOutputs : i > Mid => u[i] = Folded(w[d + i]), NEW j \in 1..TailKept
          PROVE  u[Mid + j] = Folded(w[Mid + d + j])
        <3>1. PICK i \in Nat : i = Mid + j
            BY <1>0
        <3>2. i \in 1..MaxOutputs /\ i > Mid /\ Mid + d + j = d + i
            BY <1>0, <3>1
        <3> QED
            BY <2>2, <3>1, <3>2, Zenon
    <2> QED
        BY <2>1, <2>2, Zenon DEF Folds
<1>7. ASSUME u = FoldedAtOnce(w) PROVE Long(u, w, d)
    <2>1. u = [i \in 1..MaxOutputs |-> IF i <= HeadKept THEN Folded(w[i])
                                       ELSE IF i = HeadKept + 1 THEN ElidedEntry
                                       ELSE Folded(w[i + Len(w) - MaxOutputs])]
        BY <1>3, <1>7, Zenon
    <2>2. DOMAIN u = 1..MaxOutputs
        BY <2>1, Zenon
    <2>3. Len(u) = MaxOutputs
        BY <1>0, <1>4, <2>2
    <2>4. \A i \in 1..MaxOutputs : i <= HeadKept => u[i] = Folded(w[i])
        BY <2>1, Zenon
    <2>5. \A i \in 1..MaxOutputs : i > Mid => u[i] = Folded(w[d + i])
        <3> SUFFICES ASSUME NEW i \in 1..MaxOutputs, i > Mid PROVE u[i] = Folded(w[d + i])
            OBVIOUS
        <3>1. ~ (i <= HeadKept) /\ i # HeadKept + 1 /\ i \in Nat
            BY <1>0
        <3> QED
            BY <1>2, <2>1, <3>1, Zenon
    <2>6. u[HeadKept + 1] = ElidedEntry
        <3>1. HeadKept + 1 \in 1..MaxOutputs /\ ~ (HeadKept + 1 <= HeadKept)
            BY <1>0
        <3> QED
            BY <2>1, <3>1, Zenon
    <2> QED
        BY <1>5, <1>6, <2>3, <2>4, <2>5, <2>6, Zenon DEF Long, Ends
<1>8. ASSUME Long(u, w, d) PROVE u = FoldedAtOnce(w)
    <2>1. /\ Len(u) = MaxOutputs /\ u[HeadKept + 1] = ElidedEntry
          /\ \A i \in 1..MaxOutputs : i <= HeadKept => u[i] = Folded(w[i])
          /\ \A i \in 1..MaxOutputs : i > Mid => u[i] = Folded(w[d + i])
        BY <1>5, <1>6, <1>8, Zenon DEF Long, Ends
    <2>2. ASSUME NEW i \in 1..MaxOutputs
          PROVE  u[i] = IF i <= HeadKept THEN Folded(w[i])
                        ELSE IF i = HeadKept + 1 THEN ElidedEntry
                        ELSE Folded(w[i + Len(w) - MaxOutputs])
        <3>1. i \in Nat /\ (~ (i <= HeadKept) /\ i # HeadKept + 1 => i > Mid)
            BY <1>0
        <3> QED
            BY <1>2, <2>1, <3>1, Zenon
    <2>3. u = [i \in 1..MaxOutputs |-> u[i]]
        BY <1>4, <2>1, Zenon
    <2> QED
        BY <1>3, <2>2, <2>3, Zenon
<1> QED
    BY <1>7, <1>8

-----------------------------------------------------------------------------
\* A new entry at the end of a full list.
LEMMA LongAfter ==
    ASSUME NEW s \in Seq(Entries), NEW w \in Seq(Entries), NEW e \in Entries,
           NEW d \in Nat, Ends(s, w, d)
    PROVE  Append(WithRoom(s), Folded(e)) = FoldedAtOnce(Append(w, e))
<1>0. /\ MaxOutputs \in Nat /\ HeadKept \in Nat /\ Mid \in Nat /\ TailKept \in Nat
      /\ HeadKept + 1 = Mid /\ Mid + TailKept = MaxOutputs /\ TailKept >= 2
    BY MidFacts
<1>1. PICK m \in Nat : m + 1 = TailKept
    <2>1. TailKept - 1 \in Nat /\ (TailKept - 1) + 1 = TailKept
        BY <1>0
    <2> QED
        BY <2>1, Zenon
<1>2. /\ d + MaxOutputs = Len(w) /\ Len(s) = MaxOutputs
      /\ Folds(s, 0, w, 0, HeadKept) /\ Folds(s, Mid, w, Mid + d, TailKept)
    BY Zenon DEF Ends
<1>3. PICK r : r = WithRoom(s)
    OBVIOUS
<1>4. Room(r, s, m)
    <2>1. Mid + (m + 1) = MaxOutputs
        BY <1>0, <1>1, Zenon
    <2> QED
        BY <1>2, <1>3, <2>1, RoomFacts
<1>5. /\ r \in Seq(Entries) /\ Len(r) = Mid + m
      /\ Agree(r, 0, s, 0, HeadKept) /\ r[HeadKept + 1] = ElidedEntry /\ Agree(r, Mid, s, Mid + 1, m)
    BY <1>4, Zenon DEF Room
<1>6. PICK u : u = Append(r, Folded(e))
    OBVIOUS
<1>7. PICK x : x = Append(w, e)
    OBVIOUS
<1>8. PICK n \in Nat : n = Mid + m
    BY <1>0
<1>9. u \in Seq(Entries) /\ Len(u) = n + 1 /\ Agree(u, 0, r, 0, n) /\ u[n + 1] = Folded(e)
    <2>1. Add(u, r, Folded(e), Entries)
        BY <1>5, <1>6, FoldedType, Zenon DEF Add
    <2>2. Len(r) = n
        BY <1>5, <1>8, Zenon
    <2> QED
        BY <2>1, <2>2, AddFacts, ZenonT(60)
<1>10. PICK k \in Nat : k = Len(w)
    OBVIOUS
<1>11. x \in Seq(Entries) /\ Len(x) = k + 1 /\ Agree(x, 0, w, 0, k) /\ x[k + 1] = e
    <2>1. Add(x, w, e, Entries)
        BY <1>7, Zenon DEF Add
    <2>2. Len(w) = k
        BY <1>10, Zenon
    <2> QED
        BY <2>1, <2>2, AddFacts, ZenonT(60)
<1>12. /\ HeadKept <= n /\ HeadKept <= k /\ n + 1 = MaxOutputs /\ Mid + m <= n
       /\ d + MaxOutputs = k /\ (d + 1) + MaxOutputs = k + 1
       /\ Mid + (m + 1) = n + 1 /\ (Mid + (d + 1)) + (m + 1) = k + 1
       /\ 1 + m <= TailKept /\ (Mid + (d + 1)) + m <= k /\ d + 1 >= 1 /\ Mid + d + 1 = Mid + (d + 1)
    <2>1. d + MaxOutputs = k
        BY <1>2, <1>10, Zenon
    <2> QED
        BY <1>0, <1>1, <1>8, <2>1
<1>13. Folds(u, 0, x, 0, HeadKept)
    <2>1. Agree(u, 0, r, 0, HeadKept)
        BY <1>0, <1>9, <1>12, AgreeHead
    <2>2. Agree(u, 0, s, 0, HeadKept)
        BY <1>0, <1>5, <2>1, AgreeTrans
    <2>3. Folds(u, 0, w, 0, HeadKept)
        BY <1>0, <1>2, <2>2, FoldsLeft
    <2>4. Agree(x, 0, w, 0, HeadKept)
        BY <1>0, <1>11, <1>12, AgreeHead
    <2> QED
        BY <1>0, <2>3, <2>4, FoldsRight
<1>14. u[HeadKept + 1] = ElidedEntry
    <2>1. HeadKept + 1 \in 1..n /\ 0 + (HeadKept + 1) = HeadKept + 1
        BY <1>0, <1>8
    <2>2. u[0 + (HeadKept + 1)] = r[0 + (HeadKept + 1)]
        BY <1>9, <2>1, Zenon DEF Agree
    <2> QED
        BY <1>5, <2>1, <2>2, Zenon
<1>15. Folds(u, Mid, x, Mid + (d + 1), m)
    <2>0. Mid + d \in Nat /\ Mid + 1 \in Nat /\ Mid + (d + 1) \in Nat /\ 1 \in Nat /\ 0 + Mid = Mid
          /\ 0 + (Mid + (d + 1)) = Mid + (d + 1)
        BY <1>0
    <2>1. Folds(s, Mid + 1, w, Mid + d + 1, m)
        BY <1>0, <1>2, <1>12, <2>0, FoldsTail
    <2>2. Folds(s, Mid + 1, w, Mid + (d + 1), m)
        BY <1>12, <2>1, Zenon
    <2>3. Agree(u, 0 + Mid, r, 0 + Mid, m)
        BY <1>0, <1>9, <1>12, AgreePart
    <2>4. Agree(u, Mid, r, Mid, m)
        BY <2>0, <2>3, Zenon
    <2>5. Agree(u, Mid, s, Mid + 1, m)
        BY <1>0, <1>5, <2>0, <2>4, AgreeTrans
    <2>6. Folds(u, Mid, w, Mid + (d + 1), m)
        BY <1>0, <2>0, <2>2, <2>5, FoldsLeft
    <2>7. Agree(x, 0 + (Mid + (d + 1)), w, 0 + (Mid + (d + 1)), m)
        BY <1>11, <1>12, <2>0, AgreePart
    <2>8. Agree(x, Mid + (d + 1), w, Mid + (d + 1), m)
        BY <2>0, <2>7, Zenon
    <2> QED
        BY <1>0, <2>0, <2>6, <2>8, FoldsRight
<1>16. Folds(u, Mid, x, Mid + (d + 1), TailKept)
    <2>1. u[Mid + (m + 1)] = Folded(x[(Mid + (d + 1)) + (m + 1)])
        BY <1>9, <1>11, <1>12, Zenon
    <2>2. Mid + (d + 1) \in Nat
        BY <1>0
    <2>3. Folds(u, Mid, x, Mid + (d + 1), m + 1)
        BY <1>0, <1>15, <2>1, <2>2, FoldsOne
    <2> QED
        BY <1>1, <2>3, Zenon
<1>17. Long(u, x, d + 1)
    <2>1. (d + 1) + MaxOutputs = Len(x) /\ Len(u) = MaxOutputs
        BY <1>9, <1>11, <1>12, Zenon
    <2> QED
        BY <1>13, <1>14, <1>16, <2>1, Zenon DEF Long, Ends
<1>18. u = FoldedAtOnce(x)
    <2>1. d + 1 \in Nat /\ d + 1 >= 1
        OBVIOUS
    <2>2. (d + 1) + MaxOutputs = Len(x)
        BY <1>17, Zenon DEF Long, Ends
    <2> QED
        BY <1>9, <1>11, <1>17, <2>1, <2>2, LongIs
<1> QED
    BY <1>3, <1>6, <1>7, <1>18, Zenon

LEMMA FoldAppend ==
    ASSUME NEW s \in Seq(Entries), NEW w \in Seq(Entries), NEW e \in Entries, s = FoldedAtOnce(w)
    PROVE  Append(WithRoom(s), Folded(e)) = FoldedAtOnce(Append(w, e))
<1>0. /\ MaxOutputs \in Nat /\ HeadKept \in Nat /\ Mid \in Nat /\ TailKept \in Nat /\ Len(w) \in Nat
      /\ HeadKept + 1 = Mid /\ Mid + TailKept = MaxOutputs /\ TailKept >= 2
    BY MidFacts
<1>1. CASE Len(w) < MaxOutputs
    <2>1. Len(w) <= MaxOutputs
        BY <1>0, <1>1
    <2>2. Short(s, w)
        BY <2>1, ShortIs
    <2>3. PICK k \in Nat : k = Len(w)
        BY <1>0
    <2>4. Len(s) = k /\ Len(w) = k /\ Folds(s, 0, w, 0, k)
        BY <2>2, <2>3, Zenon DEF Short
    <2>5. WithRoom(s) = s
        BY <1>1, <2>3, <2>4, Zenon DEF WithRoom
    <2>6. PICK u : u = Append(s, Folded(e))
        OBVIOUS
    <2>7. PICK x : x = Append(w, e)
        OBVIOUS
    <2>8. u \in Seq(Entries) /\ Len(u) = k + 1 /\ Agree(u, 0, s, 0, k) /\ u[k + 1] = Folded(e)
        <3>1. Add(u, s, Folded(e), Entries)
            BY <2>6, FoldedType, Zenon DEF Add
        <3> QED
            BY <2>4, <3>1, AddFacts, SMTT(60)
    <2>9. x \in Seq(Entries) /\ Len(x) = k + 1 /\ Agree(x, 0, w, 0, k) /\ x[k + 1] = e
        <3>1. Add(x, w, e, Entries)
            BY <2>7, Zenon DEF Add
        <3> QED
            BY <2>4, <3>1, AddFacts, SMTT(60)
    <2>10. Folds(u, 0, w, 0, k)
        BY <2>4, <2>8, FoldsLeft
    <2>11. Folds(u, 0, x, 0, k)
        BY <2>9, <2>10, FoldsRight
    <2>12. Folds(u, 0, x, 0, k + 1)
        <3>1. 0 + (k + 1) = k + 1
            OBVIOUS
        <3>2. u[0 + (k + 1)] = Folded(x[0 + (k + 1)])
            BY <2>8, <2>9, <3>1, Zenon
        <3> QED
            BY <2>11, <3>2, FoldsOne
    <2>13. Short(u, x)
        BY <2>8, <2>9, <2>12, Zenon DEF Short
    <2>14. Len(x) <= MaxOutputs
        <3>1. k + 1 <= MaxOutputs
            BY <1>0, <1>1, <2>3
        <3> QED
            BY <2>9, <3>1, Zenon
    <2>15. u = FoldedAtOnce(x)
        BY <2>8, <2>9, <2>13, <2>14, ShortIs
    <2> QED
        BY <2>5, <2>6, <2>7, <2>15, Zenon
<1>2. CASE Len(w) = MaxOutputs
    <2>1. Len(w) <= MaxOutputs
        BY <1>0, <1>2
    <2>2. Short(s, w)
        BY <2>1, ShortIs
    <2>3. Len(s) = MaxOutputs /\ Folds(s, 0, w, 0, MaxOutputs)
        BY <1>2, <2>2, Zenon DEF Short
    <2>4. HeadKept <= MaxOutputs /\ Mid + TailKept <= MaxOutputs /\ 0 + MaxOutputs = MaxOutputs
          /\ 0 + Mid = Mid /\ Mid + 0 = Mid
        BY <1>0
    <2>5. Folds(s, 0, w, 0, HeadKept)
        BY <1>0, <2>3, <2>4, FoldsHead
    <2>6. Folds(s, 0 + Mid, w, 0 + Mid, TailKept)
        BY <1>0, <2>3, <2>4, FoldsTail
    <2>7. Ends(s, w, 0)
        BY <1>2, <2>3, <2>4, <2>5, <2>6, Zenon DEF Ends
    <2> QED
        BY <2>7, LongAfter
<1>3. CASE Len(w) > MaxOutputs
    <2>1. PICK d \in Nat : d >= 1 /\ d + MaxOutputs = Len(w)
        <3>1. Len(w) - MaxOutputs \in Nat /\ Len(w) - MaxOutputs >= 1 /\ (Len(w) - MaxOutputs) + MaxOutputs = Len(w)
            BY <1>0, <1>3
        <3> QED
            BY <3>1, Zenon
    <2>2. Ends(s, w, d)
        BY <2>1, LongIs DEF Long
    <2> QED
        BY <2>2, LongAfter
<1> QED
    BY <1>0, <1>1, <1>2, <1>3

\* The last entry of the sink and of the list extended.
LEMMA FoldLast ==
    ASSUME NEW s \in Seq(Entries), NEW w \in Seq(Entries), s = FoldedAtOnce(w),
           NEW e \in Entries, w # <<>>
    PROVE  [s EXCEPT ![Len(s)] = Folded(e)] = FoldedAtOnce([w EXCEPT ![Len(w)] = e])
<1>0. /\ MaxOutputs \in Nat /\ HeadKept \in Nat /\ Mid \in Nat /\ TailKept \in Nat /\ Len(w) \in Nat
      /\ HeadKept + 1 = Mid /\ Mid + TailKept = MaxOutputs /\ TailKept >= 2 /\ HeadKept >= 1
    BY MidFacts
<1>1. PICK k \in Nat : Len(w) = k + 1
    <2>1. Len(w) - 1 \in Nat /\ Len(w) = (Len(w) - 1) + 1
        BY <1>0
    <2> QED
        BY <2>1, Zenon
<1>2. PICK u : u = [s EXCEPT ![Len(s)] = Folded(e)]
    OBVIOUS
<1>3. PICK x : x = [w EXCEPT ![Len(w)] = e]
    OBVIOUS
<1>4. Put(u, s, Folded(e), Entries)
    BY <1>2, FoldedType, Zenon DEF Put
<1>5. x \in Seq(Entries) /\ Len(x) = k + 1 /\ Agree(x, 0, w, 0, k) /\ x[k + 1] = e
    <2>1. Put(x, w, e, Entries)
        BY <1>3, Zenon DEF Put
    <2> QED
        BY <1>1, <2>1, PutFacts, SMTT(60)
<1>6. CASE Len(w) <= MaxOutputs
    <2>1. Short(s, w)
        BY <1>6, ShortIs
    <2>2. Len(s) = k + 1 /\ Folds(s, 0, w, 0, k + 1)
        BY <1>1, <2>1, Zenon DEF Short
    <2>3. u \in Seq(Entries) /\ Len(u) = k + 1 /\ Agree(u, 0, s, 0, k) /\ u[k + 1] = Folded(e)
        BY <1>4, <2>2, PutFacts, SMTT(60)
    <2>4. Folds(s, 0, w, 0, k)
        <3>1. k + 1 \in Nat /\ k <= k + 1
            OBVIOUS
        <3> QED
            BY <2>2, <3>1, FoldsHead
    <2>5. Folds(u, 0, w, 0, k)
        BY <2>3, <2>4, FoldsLeft
    <2>6. Folds(u, 0, x, 0, k)
        BY <1>5, <2>5, FoldsRight
    <2>7. Folds(u, 0, x, 0, k + 1)
        <3>1. 0 + (k + 1) = k + 1
            OBVIOUS
        <3>2. u[0 + (k + 1)] = Folded(x[0 + (k + 1)])
            BY <1>5, <2>3, <3>1, Zenon
        <3> QED
            BY <2>6, <3>2, FoldsOne
    <2>8. Short(u, x) /\ Len(x) <= MaxOutputs
        BY <1>1, <1>5, <1>6, <2>3, <2>7, Zenon DEF Short
    <2>9. u = FoldedAtOnce(x)
        BY <1>5, <2>3, <2>8, ShortIs
    <2> QED
        BY <1>2, <1>3, <2>9, Zenon
<1>7. CASE ~ (Len(w) <= MaxOutputs)
    <2>1. PICK d \in Nat : d >= 1 /\ d + MaxOutputs = Len(w)
        <3>1. Len(w) - MaxOutputs \in Nat /\ Len(w) - MaxOutputs >= 1 /\ (Len(w) - MaxOutputs) + MaxOutputs = Len(w)
            BY <1>0, <1>7
        <3> QED
            BY <3>1, Zenon
    <2>2. PICK m \in Nat : m + 1 = TailKept
        <3>1. TailKept - 1 \in Nat /\ (TailKept - 1) + 1 = TailKept
            BY <1>0
        <3> QED
            BY <3>1, Zenon
    <2>3. Long(s, w, d)
        BY <2>1, LongIs
    <2>4. /\ Len(s) = MaxOutputs /\ Folds(s, 0, w, 0, HeadKept) /\ s[HeadKept + 1] = ElidedEntry
          /\ Folds(s, Mid, w, Mid + d, TailKept)
        BY <2>3, Zenon DEF Long, Ends
    <2>5. PICK n \in Nat : n = Mid + m
        BY <1>0
    <2>6. /\ n + 1 = MaxOutputs /\ Mid + (m + 1) = n + 1 /\ (Mid + d) + (m + 1) = k + 1 /\ HeadKept <= n /\ HeadKept <= k
          /\ Mid + m <= n /\ (Mid + d) + m <= k /\ m <= TailKept /\ HeadKept + 1 <= n /\ d + MaxOutputs = k + 1
        <3>1. d + MaxOutputs = k + 1
            BY <1>1, <2>1, Zenon
        <3> QED
            BY <1>0, <2>1, <2>2, <2>5, <3>1
    <2>7. u \in Seq(Entries) /\ Len(u) = n + 1 /\ Agree(u, 0, s, 0, n) /\ u[n + 1] = Folded(e)
        <3>1. Len(s) = n + 1
            BY <2>4, <2>6, Zenon
        <3> QED
            BY <1>4, <3>1, PutFacts, SMTT(60)
    <2>8. Folds(u, 0, x, 0, HeadKept)
        <3>1. Agree(u, 0, s, 0, HeadKept)
            BY <1>0, <2>6, <2>7, AgreeHead
        <3>2. Folds(u, 0, w, 0, HeadKept)
            BY <1>0, <2>4, <3>1, FoldsLeft
        <3>3. Agree(x, 0, w, 0, HeadKept)
            BY <1>0, <1>5, <2>6, AgreeHead
        <3> QED
            BY <1>0, <3>2, <3>3, FoldsRight
    <2>9. u[HeadKept + 1] = ElidedEntry
        <3>1. HeadKept + 1 \in 1..n /\ 0 + (HeadKept + 1) = HeadKept + 1
            BY <1>0, <2>6
        <3>2. u[0 + (HeadKept + 1)] = s[0 + (HeadKept + 1)]
            BY <2>7, <3>1, Zenon DEF Agree
        <3> QED
            BY <2>4, <3>1, <3>2, Zenon
    <2>10. Folds(u, Mid, x, Mid + d, m)
        <3>0. Mid + d \in Nat /\ 0 + Mid = Mid /\ 0 + (Mid + d) = Mid + d
            BY <1>0
        <3>1. Folds(s, Mid, w, Mid + d, m)
            BY <1>0, <2>4, <2>6, <3>0, FoldsHead
        <3>2. Agree(u, 0 + Mid, s, 0 + Mid, m)
            BY <1>0, <2>6, <2>7, AgreePart
        <3>3. Agree(u, Mid, s, Mid, m)
            BY <3>0, <3>2, Zenon
        <3>4. Folds(u, Mid, w, Mid + d, m)
            BY <1>0, <3>0, <3>1, <3>3, FoldsLeft
        <3>5. Agree(x, 0 + (Mid + d), w, 0 + (Mid + d), m)
            BY <1>5, <2>6, <3>0, AgreePart
        <3>6. Agree(x, Mid + d, w, Mid + d, m)
            BY <3>0, <3>5, Zenon
        <3> QED
            BY <1>0, <3>0, <3>4, <3>6, FoldsRight
    <2>11. Folds(u, Mid, x, Mid + d, TailKept)
        <3>1. u[Mid + (m + 1)] = Folded(x[(Mid + d) + (m + 1)])
            BY <1>5, <2>6, <2>7, Zenon
        <3>2. Mid + d \in Nat
            BY <1>0
        <3>3. Folds(u, Mid, x, Mid + d, m + 1)
            BY <1>0, <2>10, <3>1, <3>2, FoldsOne
        <3> QED
            BY <2>2, <3>3, Zenon
    <2>12. Long(u, x, d)
        <3>1. d + MaxOutputs = Len(x) /\ Len(u) = MaxOutputs
            BY <1>5, <2>6, <2>7, Zenon
        <3> QED
            BY <2>8, <2>9, <2>11, <3>1, Zenon DEF Long, Ends
    <2>13. u = FoldedAtOnce(x)
        <3>1. d + MaxOutputs = Len(x)
            BY <2>12, Zenon DEF Long, Ends
        <3> QED
            BY <1>5, <2>1, <2>7, <2>12, <3>1, LongIs
    <2> QED
        BY <1>2, <1>3, <2>13, Zenon
<1> QED
    BY <1>6, <1>7

-----------------------------------------------------------------------------
\* What an entry of the folded list is.
LEMMA FoldedElement ==
    ASSUME NEW s \in Seq(Entries), NEW w \in Seq(Entries), s = FoldedAtOnce(w), NEW i \in 1..Len(s)
    PROVE  s[i] = ElidedEntry \/ \E j \in 1..Len(w) : s[i] = Folded(w[j])
<1>0. /\ MaxOutputs \in Nat /\ HeadKept \in Nat /\ Mid \in Nat /\ TailKept \in Nat /\ Len(w) \in Nat
      /\ Len(s) \in Nat /\ i \in Nat /\ i >= 1 /\ i <= Len(s)
      /\ HeadKept + 1 = Mid /\ Mid + TailKept = MaxOutputs /\ TailKept >= 2
    BY MidFacts
<1>1. CASE Len(w) <= MaxOutputs
    <2>1. Short(s, w)
        BY <1>1, ShortIs
    <2>2. Len(s) = Len(w) /\ Folds(s, 0, w, 0, Len(w))
        BY <2>1, Zenon DEF Short
    <2>3. i \in 1..Len(w) /\ 0 + i = i
        BY <1>0, <2>2
    <2>4. s[0 + i] = Folded(w[0 + i])
        BY <2>2, <2>3, Zenon DEF Folds
    <2> QED
        BY <2>3, <2>4, Zenon
<1>2. CASE ~ (Len(w) <= MaxOutputs)
    <2>1. PICK d \in Nat : d >= 1 /\ d + MaxOutputs = Len(w)
        <3>1. Len(w) - MaxOutputs \in Nat /\ Len(w) - MaxOutputs >= 1 /\ (Len(w) - MaxOutputs) + MaxOutputs = Len(w)
            BY <1>0, <1>2
        <3> QED
            BY <3>1, Zenon
    <2>2. Long(s, w, d)
        BY <2>1, LongIs
    <2>3. /\ Len(s) = MaxOutputs /\ Folds(s, 0, w, 0, HeadKept) /\ s[HeadKept + 1] = ElidedEntry
          /\ Folds(s, Mid, w, Mid + d, TailKept)
        BY <2>2, Zenon DEF Long, Ends
    <2>4. CASE i <= HeadKept
        <3>1. i \in 1..HeadKept /\ 0 + i = i /\ i \in 1..Len(w)
            BY <1>0, <2>1, <2>4
        <3>2. s[0 + i] = Folded(w[0 + i])
            BY <2>3, <3>1, Zenon DEF Folds
        <3> QED
            BY <3>1, <3>2, Zenon
    <2>5. CASE i = HeadKept + 1
        BY <2>3, <2>5, Zenon
    <2>6. CASE i > Mid
        <3>1. i <= MaxOutputs
            BY <1>0, <2>3
        <3>2. PICK j \in Nat : Mid + j = i
            <4>1. i - Mid \in Nat /\ Mid + (i - Mid) = i
                BY <1>0, <2>6
            <4> QED
                BY <4>1, Zenon
        <3>3. j \in 1..TailKept /\ Mid + d + j \in 1..Len(w)
            BY <1>0, <2>1, <2>6, <3>1, <3>2
        <3>4. s[Mid + j] = Folded(w[Mid + d + j])
            BY <2>3, <3>3, Zenon DEF Folds
        <3> QED
            BY <3>2, <3>3, <3>4, Zenon
    <2> QED
        BY <1>0, <2>4, <2>5, <2>6
<1> QED
    BY <1>1, <1>2

LEMMA FoldedLast ==
    ASSUME NEW s \in Seq(Entries), NEW w \in Seq(Entries), s = FoldedAtOnce(w), w # <<>>
    PROVE  s[Len(s)] = Folded(w[Len(w)])
<1>0. /\ MaxOutputs \in Nat /\ Mid \in Nat /\ TailKept \in Nat /\ Len(w) \in Nat /\ Len(w) >= 1
      /\ Mid + TailKept = MaxOutputs /\ TailKept >= 2
    BY MidFacts
<1>1. CASE Len(w) <= MaxOutputs
    <2>1. Short(s, w)
        BY <1>1, ShortIs
    <2>2. Len(s) = Len(w) /\ Folds(s, 0, w, 0, Len(w))
        BY <2>1, Zenon DEF Short
    <2>3. Len(w) \in 1..Len(w) /\ 0 + Len(w) = Len(w)
        BY <1>0
    <2>4. s[0 + Len(w)] = Folded(w[0 + Len(w)])
        BY <2>2, <2>3, Zenon DEF Folds
    <2> QED
        BY <2>2, <2>3, <2>4, Zenon
<1>2. CASE ~ (Len(w) <= MaxOutputs)
    <2>1. PICK d \in Nat : d >= 1 /\ d + MaxOutputs = Len(w)
        <3>1. Len(w) - MaxOutputs \in Nat /\ Len(w) - MaxOutputs >= 1 /\ (Len(w) - MaxOutputs) + MaxOutputs = Len(w)
            BY <1>0, <1>2
        <3> QED
            BY <3>1, Zenon
    <2>2. Long(s, w, d)
        BY <2>1, LongIs
    <2>3. Len(s) = MaxOutputs /\ Folds(s, Mid, w, Mid + d, TailKept)
        BY <2>2, Zenon DEF Long, Ends
    <2>4. TailKept \in 1..TailKept
        BY <1>0
    <2>5. s[Mid + TailKept] = Folded(w[Mid + d + TailKept])
        BY <2>3, <2>4, Zenon DEF Folds
    <2>6. Mid + d + TailKept = d + MaxOutputs
        BY <1>0
    <2> QED
        BY <1>0, <2>1, <2>3, <2>5, <2>6, Zenon
<1> QED
    BY <1>1, <1>2

\* The inductive invariant.  A text of the sink is tame so that its later
\* messages cannot outgrow the bound; the last entries are of one kind, so
\* that the same messages are merged on both sides.
SinkInv ==
    /\ TypeOK
    /\ Len(sink) <= MaxOutputs
    /\ \A i \in 1..Len(sink) : Tame(sink[i].text)
    /\ \A i \in 1..Len(whole) : whole[i].kind \notin Streams => Len(whole[i].text) = 1
    /\ sink # <<>> => whole # <<>> /\ sink[Len(sink)].kind = whole[Len(whole)].kind
    /\ StreamingIsFolding

LEMMA MarkIsTame == Tame(<<Elided>>)
<1>1. PICK t : t = <<Elided>>
    OBVIOUS
<1>2. t \in Seq(Nat) /\ Len(t) = 1 /\ t[1] = Elided
    BY <1>1 DEF Elided
<1>3. Marked(t) /\ MarkIn(t) \in Nat /\ MarkIn(t) <= 1
    BY <1>2, FirstMark, SMTT(60)
<1>4. Len(t) <= Budget + Half /\ MarkIn(t) <= Budget
    BY <1>2, <1>3, HalfFacts
<1> QED
    BY <1>1, <1>2, <1>3, <1>4, Zenon DEF Tame

LEMMA InitInv == Init => SinkInv
<1> SUFFICES ASSUME Init PROVE SinkInv
    OBVIOUS
<1>1. sink = <<>> /\ whole = <<>> /\ printed = 0
    BY DEF Init
<1>2. TypeOK
    BY <1>1 DEF TypeOK
<1>3. Len(sink) = 0 /\ Len(whole) = 0
    BY <1>1
<1>4. Short(sink, whole)
    <2>1. Folds(sink, 0, whole, 0, 0)
        BY DEF Folds
    <2> QED
        BY <1>3, <2>1, Zenon DEF Short
<1>5. sink = FoldedAtOnce(whole)
    <2>1. Len(whole) <= MaxOutputs
        BY <1>3, CapFacts
    <2>2. sink \in Seq(Entries) /\ whole \in Seq(Entries)
        BY <1>2 DEF TypeOK
    <2> QED
        BY <1>4, <2>1, <2>2, ShortIs
<1> QED
    BY <1>1, <1>2, <1>3, <1>5, CapFacts DEF SinkInv, StreamingIsFolding

\* A new entry, in either of the two actions.
LEMMA NewEntry ==
    ASSUME SinkInv, NEW e \in Entries, Tame(Folded(e).text),
           e.kind \notin Streams => Len(e.text) = 1,
           sink' = Append(WithRoom(sink), Folded(e)), whole' = Append(whole, e), printed' \in Nat
    PROVE  SinkInv'
<1>0. /\ sink \in Seq(Entries) /\ whole \in Seq(Entries)
      /\ Len(sink) \in Nat /\ Len(sink) <= MaxOutputs /\ Len(whole) \in Nat /\ MaxOutputs \in Nat
    BY CapFacts DEF SinkInv, TypeOK
<1>1. PICK r : r = WithRoom(sink)
    OBVIOUS
<1>2. PICK k \in Nat : k = Len(r) /\ r \in Seq(Entries) /\ k + 1 <= MaxOutputs
                       /\ \A i \in 1..k : Tame(r[i].text)
    <2>1. CASE Len(sink) < MaxOutputs
        <3>1. r = sink
            BY <1>1, <2>1, Zenon DEF WithRoom
        <3>2. Len(sink) + 1 <= MaxOutputs
            BY <1>0, <2>1
        <3>3. \A i \in 1..Len(sink) : Tame(sink[i].text)
            BY DEF SinkInv
        <3> QED
            BY <1>0, <3>1, <3>2, <3>3, Zenon
    <2>2. CASE ~ (Len(sink) < MaxOutputs)
        <3>1. Len(sink) = MaxOutputs
            BY <1>0, <2>2
        <3>2. /\ Mid \in Nat /\ HeadKept \in Nat /\ TailKept \in Nat /\ HeadKept + 1 = Mid
              /\ Mid + TailKept = MaxOutputs /\ TailKept >= 2
            BY MidFacts
        <3>3. PICK m \in Nat : Mid + (m + 1) = MaxOutputs
            <4>1. TailKept - 1 \in Nat /\ Mid + ((TailKept - 1) + 1) = MaxOutputs
                BY <3>2
            <4> QED
                BY <4>1, Zenon
        <3>4. Room(r, sink, m)
            BY <1>0, <1>1, <3>1, <3>3, RoomFacts
        <3>5. /\ r \in Seq(Entries) /\ Len(r) = Mid + m
              /\ Agree(r, 0, sink, 0, HeadKept) /\ r[HeadKept + 1] = ElidedEntry
              /\ Agree(r, Mid, sink, Mid + 1, m)
            BY <3>4, Zenon DEF Room
        <3>6. PICK n \in Nat : n = Mid + m /\ n + 1 = MaxOutputs
            BY <3>2, <3>3
        <3>7. \A i \in 1..Len(sink) : Tame(sink[i].text)
            BY DEF SinkInv
        <3>8. ASSUME NEW i \in 1..n PROVE Tame(r[i].text)
            <4>1. CASE i <= HeadKept
                <5>1. i \in 1..HeadKept /\ 0 + i = i /\ i \in 1..Len(sink)
                    BY <3>1, <3>2, <3>6, <4>1
                <5>2. r[0 + i] = sink[0 + i]
                    BY <3>5, <5>1, Zenon DEF Agree
                <5> QED
                    BY <3>7, <5>1, <5>2, Zenon
            <4>2. CASE i = HeadKept + 1
                <5>1. r[i] = ElidedEntry
                    BY <3>5, <4>2, Zenon
                <5>2. ElidedEntry.text = <<Elided>>
                    BY DEF ElidedEntry
                <5> QED
                    BY <5>1, <5>2, MarkIsTame, Zenon
            <4>3. CASE i > Mid
                <5>1. PICK j \in Nat : Mid + j = i
                    <6>1. i - Mid \in Nat /\ Mid + (i - Mid) = i
                        BY <3>2, <4>3
                    <6> QED
                        BY <6>1, Zenon
                <5>2. j \in 1..m /\ Mid + 1 + j \in 1..Len(sink)
                    BY <3>1, <3>2, <3>6, <4>3, <5>1
                <5>3. r[Mid + j] = sink[Mid + 1 + j]
                    BY <3>5, <5>2, Zenon DEF Agree
                <5> QED
                    BY <3>7, <5>1, <5>2, <5>3, Zenon
            <4> QED
                BY <3>2, <4>1, <4>2, <4>3
        <3>9. n + 1 <= MaxOutputs
            BY <1>0, <3>6
        <3> QED
            BY <3>5, <3>6, <3>8, <3>9, Zenon
    <2> QED
        BY <2>1, <2>2
<1>3. /\ sink' \in Seq(Entries) /\ Len(sink') = k + 1 /\ Agree(sink', 0, r, 0, k) /\ sink'[k + 1] = Folded(e)
    <2>1. PICK u : u = sink'
        OBVIOUS
    <2>2. Add(u, r, Folded(e), Entries)
        BY <1>1, <1>2, <2>1, FoldedType, Zenon DEF Add
    <2>3. Len(r) = k
        BY <1>2, Zenon
    <2>4. u \in Seq(Entries) /\ Len(u) = k + 1 /\ Agree(u, 0, r, 0, k) /\ u[k + 1] = Folded(e)
        BY <2>2, <2>3, AddFacts, SMTT(60)
    <2> QED
        BY <2>1, <2>4, Zenon
<1>4. PICK n \in Nat : n = Len(whole)
    BY <1>0
<1>5. /\ whole' \in Seq(Entries) /\ Len(whole') = n + 1 /\ Agree(whole', 0, whole, 0, n) /\ whole'[n + 1] = e
    <2>1. PICK u, w : u = whole' /\ w = whole
        OBVIOUS
    <2>2. Add(u, w, e, Entries)
        BY <1>0, <2>1, Zenon DEF Add
    <2>3. Len(w) = n
        BY <1>4, <2>1, Zenon
    <2>4. u \in Seq(Entries) /\ Len(u) = n + 1 /\ Agree(u, 0, w, 0, n) /\ u[n + 1] = e
        BY <2>2, <2>3, AddFacts, SMTT(60)
    <2> QED
        BY <2>1, <2>4, Zenon
<1>6. TypeOK'
    BY <1>3, <1>5, Zenon DEF TypeOK
<1>7. Len(sink') <= MaxOutputs
    BY <1>2, <1>3, Zenon
<1>8. ASSUME NEW i \in 1..Len(sink') PROVE Tame(sink'[i].text)
    <2>0. i \in 1..(k + 1)
        BY <1>3, Zenon
    <2>1. CASE i = k + 1
        BY <1>3, <2>1, Zenon
    <2>2. CASE i # k + 1
        <3>1. i \in 1..k /\ 0 + i = i
            BY <2>0, <2>2
        <3>2. sink'[0 + i] = r[0 + i]
            BY <1>3, <3>1, Zenon DEF Agree
        <3> QED
            BY <1>2, <3>1, <3>2, Zenon
    <2> QED
        BY <2>1, <2>2
<1>9. \A i \in 1..n : whole'[i] = whole[i]
    <2> SUFFICES ASSUME NEW i \in 1..n PROVE whole'[i] = whole[i]
        OBVIOUS
    <2>1. 0 + i = i
        OBVIOUS
    <2>2. whole'[0 + i] = whole[0 + i]
        BY <1>5, Zenon DEF Agree
    <2> QED
        BY <2>1, <2>2, Zenon
<1>10. ASSUME NEW i \in 1..Len(whole'), whole'[i].kind \notin Streams PROVE Len(whole'[i].text) = 1
    <2>0. i \in 1..(n + 1)
        BY <1>5, Zenon
    <2>1. CASE i = n + 1
        BY <1>5, <1>10, <2>1, Zenon
    <2>2. CASE i # n + 1
        <3>1. i \in 1..n
            BY <2>0, <2>2
        <3>2. \A j \in 1..Len(whole) : whole[j].kind \notin Streams => Len(whole[j].text) = 1
            BY DEF SinkInv
        <3> QED
            BY <1>4, <1>9, <1>10, <3>1, <3>2, Zenon
    <2> QED
        BY <2>1, <2>2
<1>11. whole' # <<>> /\ sink'[Len(sink')].kind = whole'[Len(whole')].kind
    <2>1. Folded(e).kind = e.kind
        BY DEF Folded, Entries
    <2>2. whole' # <<>>
        BY <1>5
    <2> QED
        BY <1>3, <1>5, <2>1, <2>2, Zenon
<1>12. StreamingIsFolding'
    <2> SUFFICES ASSUME Unmarked' PROVE sink' = FoldedAtOnce(whole')
        BY DEF StreamingIsFolding, FoldedAtOnce, Folded, HeadKept, TailKept
    <2>1. Unmarked
        <3> SUFFICES ASSUME NEW i \in DOMAIN whole, whole[i].kind \in Streams PROVE ~ Marked(whole[i].text)
            BY DEF Unmarked
        <3>1. i \in 1..n /\ i \in 1..(n + 1)
            BY <1>0, <1>4
        <3>2. i \in DOMAIN whole'
            BY <1>5, <3>1
        <3>3. whole'[i].kind \in Streams => ~ Marked(whole'[i].text)
            BY <3>2, Zenon DEF Unmarked, Marked
        <3> QED
            BY <1>9, <3>1, <3>3, Zenon
    <2>2. sink = FoldedAtOnce(whole)
        BY <2>1, Zenon DEF SinkInv, StreamingIsFolding
    <2> QED
        BY <1>0, <2>2, FoldAppend
<1> QED
    BY <1>6, <1>7, <1>8, <1>10, <1>11, <1>12, Zenon DEF SinkInv

\* PutFacts, with each side as one fact.
Replaces(u, s, n, y) == Put(u, s, y, Entries) /\ Len(s) = n + 1
Replaced(u, s, n, y) ==
    u \in Seq(Entries) /\ Len(u) = n + 1 /\ Agree(u, 0, s, 0, n) /\ u[n + 1] = y

LEMMA ReplacedFacts ==
    ASSUME NEW s, NEW y, NEW u, NEW n \in Nat, Replaces(u, s, n, y)
    PROVE  Replaced(u, s, n, y)
<1>1. Put(u, s, y, Entries) /\ Len(s) = n + 1
    BY Zenon DEF Replaces
<1>2. u \in Seq(Entries) /\ Len(u) = n + 1 /\ Agree(u, 0, s, 0, n) /\ u[n + 1] = y
    BY <1>1, PutFacts, SMTT(60)
<1> QED
    BY <1>2, Zenon DEF Replaced

LEMMA MarkedCat ==
    ASSUME NEW t \in Seq(Nat), NEW new \in Seq(Nat), Marked(t)
    PROVE  Marked(t \o new)
<1>1. PICK i \in 1..Len(t) : t[i] = Elided
    BY DEF Marked
<1>2. PICK v : v = t \o new
    OBVIOUS
<1>3. v \in Seq(Nat) /\ i \in DOMAIN v /\ v[i] = t[i]
    BY <1>2
<1> QED
    BY <1>1, <1>2, <1>3, Zenon DEF Marked

LEMMA FoldedMore ==
    ASSUME NEW e \in Entries, e.kind \in Streams, NEW new \in Seq(Nat), ~ Marked(e.text \o new)
    PROVE  [Folded(e) EXCEPT !.text = Merged(Folded(e).text, new)]
               = Folded([e EXCEPT !.text = e.text \o new])
<1>1. e.text \in Seq(Nat) /\ e = [kind |-> e.kind, text |-> e.text]
    BY DEF Entries, Text
<1>2. PICK k, t : e = [kind |-> k, text |-> t] /\ k = e.kind /\ t = e.text
    BY <1>1
<1>3. Folded(e) = [kind |-> k, text |-> Bounded(t)]
    BY <1>2 DEF Folded
<1>4. [Folded(e) EXCEPT !.text = Merged(Folded(e).text, new)] = [kind |-> k, text |-> Merged(Bounded(t), new)]
    BY <1>3
<1>5. PICK f : f = [e EXCEPT !.text = e.text \o new]
    OBVIOUS
<1>6. PICK v : v = t \o new
    OBVIOUS
<1>7. f = [kind |-> k, text |-> v]
    BY <1>2, <1>5, <1>6
<1>8. Folded(f) = [kind |-> k, text |-> Bounded(v)]
    <2>1. f.kind \in Streams
        BY <1>2, <1>7
    <2> QED
        BY <1>7, <2>1 DEF Folded
<1>9. Merged(Bounded(t), new) = Bounded(v)
    BY <1>1, <1>2, <1>6, MergeIsFold
<1> QED
    BY <1>4, <1>5, <1>8, <1>9, Zenon

\* A message merged into the last entry.
LEMMA LongerEntry ==
    ASSUME SinkInv, NEW name \in Streams, NEW new \in Seq(Nat), Continues(sink, name),
           sink' = [sink EXCEPT ![Len(sink)].text = Merged(@, new)],
           whole' = [whole EXCEPT ![Len(whole)].text = @ \o new], printed' \in Nat
    PROVE  SinkInv'
<1>0. /\ sink \in Seq(Entries) /\ whole \in Seq(Entries)
      /\ sink # <<>> /\ sink[Len(sink)].kind = name /\ whole # <<>> /\ whole[Len(whole)].kind = name
    BY Zenon DEF SinkInv, TypeOK, Continues
<1>1. PICK k \in Nat : Len(sink) = k + 1
    <2>1. Len(sink) - 1 \in Nat /\ Len(sink) = (Len(sink) - 1) + 1
        BY <1>0
    <2> QED
        BY <2>1, Zenon
<1>2. PICK n \in Nat : Len(whole) = n + 1
    <2>1. Len(whole) - 1 \in Nat /\ Len(whole) = (Len(whole) - 1) + 1
        BY <1>0
    <2> QED
        BY <2>1, Zenon
<1>3. PICK old \in Entries : old = sink[k + 1]
    BY <1>0, <1>1
<1>4. PICK last \in Entries : last = whole[n + 1]
    BY <1>0, <1>2
<1>5. old.kind = name /\ last.kind = name
    BY <1>0, <1>1, <1>2, <1>3, <1>4, Zenon
<1>6. old.text \in Seq(Nat) /\ last.text \in Seq(Nat)
    BY DEF Entries, Text
<1>7. Tame(old.text)
    <2>1. k + 1 \in 1..(k + 1)
        OBVIOUS
    <2>2. \A i \in 1..Len(sink) : Tame(sink[i].text)
        BY DEF SinkInv
    <2> QED
        BY <1>1, <1>3, <2>1, <2>2, Zenon
<1>8. Tame(Merged(old.text, new))
    BY <1>7, MergedIsTame
<1>9. Merged(old.text, new) \in Seq(Nat) /\ last.text \o new \in Seq(Nat)
    <2>1. last.text \o new \in Seq(Nat)
        BY <1>6
    <2> QED
        BY <1>8, <2>1, Zenon DEF Tame
<1>10. PICK longer : longer = [old EXCEPT !.text = Merged(old.text, new)]
    OBVIOUS
<1>11. PICK more : more = [last EXCEPT !.text = last.text \o new]
    OBVIOUS
<1>12. /\ longer \in Entries /\ longer.kind = name /\ longer.text = Merged(old.text, new)
       /\ more \in Entries /\ more.kind = name /\ more.text = last.text \o new
    BY <1>5, <1>9, <1>10, <1>11 DEF Entries, Text
<1>13. /\ sink' = [sink EXCEPT ![Len(sink)] = longer]
       /\ whole' = [whole EXCEPT ![Len(whole)] = more]
    BY <1>1, <1>2, <1>3, <1>4, <1>10, <1>11, Zenon
<1>14. /\ sink' \in Seq(Entries) /\ Len(sink') = k + 1 /\ Agree(sink', 0, sink, 0, k)
       /\ sink'[k + 1] = longer
    <2>1. PICK u, w : u = sink' /\ w = sink
        OBVIOUS
    <2>2. Replaces(u, w, k, longer)
        BY <1>0, <1>1, <1>12, <1>13, <2>1, Zenon DEF Put, Replaces
    <2>3. u \in Seq(Entries) /\ Len(u) = k + 1 /\ Agree(u, 0, w, 0, k) /\ u[k + 1] = longer
        <3>1. Replaced(u, w, k, longer)
            BY <2>2, ReplacedFacts
        <3> QED
            BY <3>1, Zenon DEF Replaced
    <2> QED
        BY <2>1, <2>3, Zenon
<1>15. /\ whole' \in Seq(Entries) /\ Len(whole') = n + 1 /\ Agree(whole', 0, whole, 0, n)
       /\ whole'[n + 1] = more
    <2>1. PICK u, w : u = whole' /\ w = whole
        OBVIOUS
    <2>2. Replaces(u, w, n, more)
        BY <1>0, <1>2, <1>12, <1>13, <2>1, Zenon DEF Put, Replaces
    <2>3. u \in Seq(Entries) /\ Len(u) = n + 1 /\ Agree(u, 0, w, 0, n) /\ u[n + 1] = more
        <3>1. Replaced(u, w, n, more)
            BY <2>2, ReplacedFacts
        <3> QED
            BY <3>1, Zenon DEF Replaced
    <2> QED
        BY <2>1, <2>3, Zenon
<1>16. TypeOK'
    BY <1>14, <1>15, Zenon DEF TypeOK
<1>17. Len(sink') <= MaxOutputs
    <2>1. Len(sink) <= MaxOutputs
        BY DEF SinkInv
    <2> QED
        BY <1>1, <1>14, <2>1, Zenon
<1>18. ASSUME NEW i \in 1..Len(sink') PROVE Tame(sink'[i].text)
    <2>0. i \in 1..(k + 1)
        BY <1>14, Zenon
    <2>1. CASE i = k + 1
        BY <1>8, <1>12, <1>14, <2>1, Zenon
    <2>2. CASE i # k + 1
        <3>1. i \in 1..k /\ 0 + i = i
            BY <2>0, <2>2
        <3>2. sink'[0 + i] = sink[0 + i]
            BY <1>14, <3>1, Zenon DEF Agree
        <3>3. \A j \in 1..Len(sink) : Tame(sink[j].text)
            BY DEF SinkInv
        <3> QED
            BY <1>1, <2>0, <3>1, <3>2, <3>3, Zenon
    <2> QED
        BY <2>1, <2>2
<1>19. \A i \in 1..n : whole'[i] = whole[i]
    <2> SUFFICES ASSUME NEW i \in 1..n PROVE whole'[i] = whole[i]
        OBVIOUS
    <2>1. 0 + i = i
        OBVIOUS
    <2>2. whole'[0 + i] = whole[0 + i]
        BY <1>15, Zenon DEF Agree
    <2> QED
        BY <2>1, <2>2, Zenon
<1>20. ASSUME NEW i \in 1..Len(whole'), whole'[i].kind \notin Streams PROVE Len(whole'[i].text) = 1
    <2>0. i \in 1..(n + 1)
        BY <1>15, Zenon
    <2>1. CASE i = n + 1
        BY <1>12, <1>15, <1>20, <2>1, Zenon
    <2>2. CASE i # n + 1
        <3>1. i \in 1..n
            BY <2>0, <2>2
        <3>2. \A j \in 1..Len(whole) : whole[j].kind \notin Streams => Len(whole[j].text) = 1
            BY DEF SinkInv
        <3> QED
            BY <1>2, <1>19, <1>20, <2>0, <3>1, <3>2, Zenon
    <2> QED
        BY <2>1, <2>2
<1>21. whole' # <<>> /\ sink'[Len(sink')].kind = whole'[Len(whole')].kind
    <2>1. whole' # <<>>
        BY <1>15
    <2> QED
        BY <1>12, <1>14, <1>15, <2>1, Zenon
<1>22. StreamingIsFolding'
    <2> SUFFICES ASSUME Unmarked' PROVE sink' = FoldedAtOnce(whole')
        BY DEF StreamingIsFolding, FoldedAtOnce, Folded, HeadKept, TailKept
    <2>1. ~ Marked(last.text \o new)
        <3>1. n + 1 \in DOMAIN whole'
            BY <1>15
        <3>2. whole'[n + 1].kind \in Streams => ~ Marked(whole'[n + 1].text)
            BY <3>1, Zenon DEF Unmarked, Marked
        <3> QED
            BY <1>12, <1>15, <3>2, Zenon
    <2>2. ~ Marked(last.text)
        BY <1>6, <2>1, MarkedCat
    <2>3. Unmarked
        <3> SUFFICES ASSUME NEW i \in DOMAIN whole, whole[i].kind \in Streams PROVE ~ Marked(whole[i].text)
            BY DEF Unmarked
        <3>0. i \in 1..(n + 1)
            BY <1>0, <1>2
        <3>1. CASE i = n + 1
            BY <1>4, <2>2, <3>1, Zenon
        <3>2. CASE i # n + 1
            <4>1. i \in 1..n
                BY <3>0, <3>2
            <4>2. i \in DOMAIN whole'
                BY <1>15, <4>1
            <4>3. whole'[i].kind \in Streams => ~ Marked(whole'[i].text)
                BY <4>2, Zenon DEF Unmarked, Marked
            <4> QED
                BY <1>19, <4>1, <4>3, Zenon
        <3> QED
            BY <3>1, <3>2
    <2>4. sink = FoldedAtOnce(whole)
        BY <2>3, Zenon DEF SinkInv, StreamingIsFolding
    <2>5. old = Folded(last)
        BY <1>0, <1>1, <1>2, <1>3, <1>4, <2>4, FoldedLast
    <2>6. longer = Folded(more)
        <3>1. last.kind \in Streams
            BY <1>5, Zenon
        <3>2. [Folded(last) EXCEPT !.text = Merged(Folded(last).text, new)]
                  = Folded([last EXCEPT !.text = last.text \o new])
            BY <2>1, <3>1, FoldedMore
        <3> QED
            BY <1>10, <1>11, <2>5, <3>2, Zenon
    <2>7. [sink EXCEPT ![Len(sink)] = Folded(more)] = FoldedAtOnce([whole EXCEPT ![Len(whole)] = more])
        <3>1. PICK s \in Seq(Entries), w \in Seq(Entries), e \in Entries : s = sink /\ w = whole /\ e = more
            BY <1>0, <1>12, Zenon
        <3>2. s = FoldedAtOnce(w) /\ w # <<>>
            BY <1>0, <2>4, <3>1, Zenon
        <3>3. [s EXCEPT ![Len(s)] = Folded(e)] = FoldedAtOnce([w EXCEPT ![Len(w)] = e])
            BY <3>2, FoldLast, ZenonT(60)
        <3> QED
            BY <3>1, <3>3, Zenon
    <2> QED
        BY <1>13, <2>6, <2>7, Zenon
<1> QED
    BY <1>16, <1>17, <1>18, <1>20, <1>21, <1>22, Zenon DEF SinkInv

\* What a message may hold, and what the other outputs are.
LEMMA ChunkType ==
    ASSUME printed \in Nat, NEW new \in Chunks
    PROVE  new \in Seq(Nat)
<1>1. PICK n \in 0..MaxChunk, at \in SUBSET Spots :
          new = [i \in 1..n |-> IF i \in at THEN Elided ELSE printed + i]
    BY DEF Chunks
<1>2. n \in Nat /\ \A i \in 1..n : (IF i \in at THEN Elided ELSE printed + i) \in Nat
    BY SinkAssumption DEF Elided
<1> QED
    BY <1>1, <1>2

LEMMA ShownType ==
    ASSUME printed \in Nat, NEW e \in Shown
    PROVE  e \in Entries /\ e.kind \notin Streams /\ Len(e.text) = 1 /\ Folded(e) = e
<1>0. {"display", "elided", "oversized"} \cap Streams = {}
    BY SinkAssumption
<1>1. ASSUME NEW kind \in {"display", "elided", "oversized"}, NEW n \in Nat, e = [kind |-> kind, text |-> <<n>>]
      PROVE  e \in Entries /\ e.kind \notin Streams /\ Len(e.text) = 1
    <2>1. PICK t : t = <<n>>
        OBVIOUS
    <2>2. t \in Seq(Nat) /\ Len(t) = 1
        BY <2>1
    <2>3. e.kind = kind /\ e.text = t /\ e = [kind |-> kind, text |-> t] /\ kind \notin Streams
        BY <1>0, <1>1, <2>1
    <2> QED
        BY <2>2, <2>3 DEF Entries, Text
<1>2. \/ e = [kind |-> "display", text |-> <<printed + 1>>]
      \/ e = [kind |-> "elided", text |-> <<Elided>>]
      \/ e = [kind |-> "oversized", text |-> <<Elided>>]
    BY Zenon DEF Shown, ElidedEntry, OversizedEntry
<1>3. printed + 1 \in Nat /\ Elided \in Nat
    BY DEF Elided
<1>4. e \in Entries /\ e.kind \notin Streams /\ Len(e.text) = 1
    BY <1>1, <1>2, <1>3, Zenon
<1> QED
    BY <1>4, Zenon DEF Folded

LEMMA NextInv == SinkInv /\ [Next]_vars => SinkInv'
<1> SUFFICES ASSUME SinkInv, [Next]_vars PROVE SinkInv'
    OBVIOUS
<1>0. printed \in Nat
    BY DEF SinkInv, TypeOK
<1>1. ASSUME NEW name \in Streams, NEW new \in Chunks, Prints(name, new) PROVE SinkInv'
    <2>1. new \in Seq(Nat) /\ Len(new) \in Nat
        BY <1>0, ChunkType
    <2>2. printed' \in Nat
        BY <1>0, <1>1, <2>1 DEF Prints
    <2>3. CASE Continues(sink, name)
        <3>1. /\ sink' = [sink EXCEPT ![Len(sink)].text = Merged(@, new)]
              /\ whole' = [whole EXCEPT ![Len(whole)].text = @ \o new]
            BY <1>1, <2>3 DEF Prints
        <3> QED
            BY <2>1, <2>2, <2>3, <3>1, LongerEntry
    <2>4. CASE ~ Continues(sink, name)
        <3>1. PICK e : e = [kind |-> name, text |-> new]
            OBVIOUS
        <3>2. e \in Entries /\ e.kind \in Streams /\ e.text = new
            BY <2>1, <3>1 DEF Entries, Text
        <3>3. Folded(e) = [kind |-> name, text |-> Bounded(new)]
            BY <3>1, <3>2 DEF Folded
        <3>4. Tame(Folded(e).text)
            BY <2>1, <3>3, BoundedIsTame
        <3>5. sink' = Append(WithRoom(sink), Folded(e)) /\ whole' = Append(whole, e)
            BY <1>1, <2>4, <3>1, <3>3, Zenon DEF Prints
        <3> QED
            BY <2>2, <3>2, <3>4, <3>5, NewEntry
    <2> QED
        BY <2>3, <2>4
<1>2. ASSUME NEW e \in Shown, Displays(e) PROVE SinkInv'
    <2>1. e \in Entries /\ e.kind \notin Streams /\ Len(e.text) = 1 /\ Folded(e) = e
        BY <1>0, ShownType
    <2>3. Tame(e.text)
        <3>1. e.text \in Seq(Nat) /\ Len(e.text) <= Budget
            BY <2>1, HalfFacts DEF Entries, Text
        <3>2. Bounded(e.text) = e.text
            BY <3>1, BoundedFacts
        <3>3. Tame(Bounded(e.text))
            BY <3>1, BoundedIsTame
        <3> QED
            BY <3>2, <3>3, Zenon
    <2>4. sink' = Append(WithRoom(sink), Folded(e)) /\ whole' = Append(whole, e)
        BY <1>2, <2>1, Zenon DEF Displays
    <2>5. printed' \in Nat
        BY <1>0, <1>2 DEF Displays
    <2>6. Tame(Folded(e).text)
        BY <2>1, <2>3, Zenon
    <2> QED
        BY <2>1, <2>4, <2>5, <2>6, NewEntry
<1>3. CASE UNCHANGED vars
    BY <1>3 DEF SinkInv, vars, TypeOK, StreamingIsFolding, Unmarked
<1> QED
    BY <1>1, <1>2, <1>3 DEF Next

LEMMA SinkInvariant == Spec => []SinkInv
BY InitInv, NextInv, PTL DEF Spec

\* What streaming buffers is what bounding everything at the end would leave,
\* unless the code printed the marker.
THEOREM StreamingIsBounding == Spec => []StreamingIsFolding
<1>1. SinkInv => StreamingIsFolding
    BY DEF SinkInv
<1> QED
    BY <1>1, SinkInvariant, PTL

\* The buffer of a running execution stays within its bounds.
THEOREM SinkIsBounded == Spec => []Bounds
<1>1. SinkInv => Bounds
    <2> SUFFICES ASSUME SinkInv PROVE Bounds
        OBVIOUS
    <2>0. sink \in Seq(Entries) /\ whole \in Seq(Entries) /\ DOMAIN sink = 1..Len(sink)
        BY DEF SinkInv, TypeOK
    <2>1. \A i \in 1..Len(sink) : Len(sink[i].text) <= Budget + Half
        <3>1. \A i \in 1..Len(sink) : Tame(sink[i].text)
            BY DEF SinkInv
        <3> QED
            BY <3>1, Zenon DEF Tame
    <2>2. ASSUME Unmarked, NEW i \in 1..Len(sink) PROVE Len(sink[i].text) <= Budget + 1
        <3>1. sink = FoldedAtOnce(whole)
            BY <2>2, Zenon DEF SinkInv, StreamingIsFolding
        <3>2. sink[i] = ElidedEntry \/ \E j \in 1..Len(whole) : sink[i] = Folded(whole[j])
            BY <2>0, <3>1, FoldedElement
        <3>3. CASE sink[i] = ElidedEntry
            BY <3>3, HalfFacts DEF ElidedEntry
        <3>4. ASSUME NEW j \in 1..Len(whole), sink[i] = Folded(whole[j])
              PROVE  Len(sink[i].text) <= Budget + 1
            <4>1. PICK e \in Entries : e = whole[j]
                BY <2>0
            <4>2. e.text \in Seq(Nat)
                BY DEF Entries, Text
            <4>3. CASE e.kind \in Streams
                <5>1. Folded(e).text = Bounded(e.text)
                    BY <4>3 DEF Folded, Entries
                <5>2. Len(Bounded(e.text)) <= Budget + 1
                    <6>1. CASE Len(e.text) <= Budget
                        BY <4>2, <6>1, BoundedFacts, HalfFacts
                    <6>2. CASE Len(e.text) > Budget
                        <7>1. PICK d \in Nat : FoldAt(Bounded(e.text), e.text, d)
                            BY <4>2, <6>2, BoundedFacts
                        <7>2. Len(Bounded(e.text)) = Budget + 1
                            BY <7>1, Zenon DEF FoldAt
                        <7> QED
                            BY <7>2, HalfFacts
                    <6> QED
                        BY <4>2, <6>1, <6>2, HalfFacts
                <5> QED
                    BY <3>4, <4>1, <5>1, <5>2, Zenon
            <4>4. CASE e.kind \notin Streams
                <5>1. Folded(e) = e
                    BY <4>4, Zenon DEF Folded
                <5>2. Len(e.text) = 1
                    BY <4>1, <4>4, Zenon DEF SinkInv
                <5>3. 1 <= Budget + 1
                    BY HalfFacts
                <5> QED
                    BY <3>4, <4>1, <5>1, <5>2, <5>3, Zenon
            <4> QED
                BY <4>3, <4>4
        <3> QED
            BY <3>2, <3>3, <3>4
    <2>3. Len(sink) <= MaxOutputs
        BY DEF SinkInv
    <2> QED
        BY <2>0, <2>1, <2>2, <2>3, Zenon DEF Bounds
<1> QED
    BY <1>1, SinkInvariant, PTL

-----------------------------------------------------------------------------
(* The end of what was printed.                                            *)

\* The last k characters of u are those of v.
SameEnd(u, v, k) ==
    \E a, b \in Nat : a + k = Len(u) /\ b + k = Len(v) /\ Agree(u, a, v, b, k)

LEMMA SameEndTrans ==
    ASSUME NEW u, NEW v \in Seq(Nat), NEW w, NEW k \in Nat, SameEnd(u, v, k), SameEnd(v, w, k)
    PROVE  SameEnd(u, w, k)
<1>1. PICK a \in Nat, b \in Nat : a + k = Len(u) /\ b + k = Len(v) /\ Agree(u, a, v, b, k)
    BY DEF SameEnd
<1>2. PICK c \in Nat, d \in Nat : c + k = Len(v) /\ d + k = Len(w) /\ Agree(v, c, w, d, k)
    BY DEF SameEnd
<1>3. b = c
    <2>1. b + k = c + k
        BY <1>1, <1>2, Zenon
    <2> QED
        BY <2>1
<1>4. Agree(u, a, w, d, k)
    BY <1>1, <1>2, <1>3, AgreeTrans
<1> QED
    BY <1>1, <1>2, <1>4, Zenon DEF SameEnd

LEMMA SameEndShort ==
    ASSUME NEW u, NEW v, NEW k \in Nat, NEW j \in Nat, SameEnd(u, v, k), j <= k
    PROVE  SameEnd(u, v, j)
<1>1. PICK a \in Nat, b \in Nat : a + k = Len(u) /\ b + k = Len(v) /\ Agree(u, a, v, b, k)
    BY DEF SameEnd
<1>2. PICK x \in Nat : x + j = k /\ x + j <= k
    <2>1. k - j \in Nat /\ (k - j) + j = k /\ k <= k
        OBVIOUS
    <2> QED
        BY <2>1, Zenon
<1>3. Agree(u, a + x, v, b + x, j)
    BY <1>1, <1>2, AgreePart
<1>4. a + x \in Nat /\ b + x \in Nat /\ (a + x) + j = a + k /\ (b + x) + j = b + k
    BY <1>2
<1>5. (a + x) + j = Len(u) /\ (b + x) + j = Len(v)
    BY <1>1, <1>4, Zenon
<1> QED
    BY <1>3, <1>4, <1>5, Zenon DEF SameEnd

LEMMA SameEndLong ==
    ASSUME NEW u \in Seq(Nat), NEW v \in Seq(Nat), NEW k \in Nat, SameEnd(u, v, k)
    PROVE  k <= Len(u) /\ k <= Len(v)
BY DEF SameEnd

LEMMA SameEndSelf ==
    ASSUME NEW u \in Seq(Nat), NEW k \in Nat, k <= Len(u)
    PROVE  SameEnd(u, u, k)
<1>1. PICK a \in Nat : a + k = Len(u)
    <2>1. Len(u) - k \in Nat /\ (Len(u) - k) + k = Len(u)
        OBVIOUS
    <2> QED
        BY <2>1, Zenon
<1>2. Agree(u, a, u, a, k)
    BY DEF Agree
<1> QED
    BY <1>1, <1>2, Zenon DEF SameEnd

\* Both made longer by the same characters.
LEMMA SameEndCat ==
    ASSUME NEW u \in Seq(Nat), NEW v \in Seq(Nat), NEW new \in Seq(Nat), NEW k \in Nat, SameEnd(u, v, k)
    PROVE  SameEnd(u \o new, v \o new, k + Len(new))
<1>0. PICK n \in Nat : n = Len(new)
    OBVIOUS
<1>1. PICK x, y : x = u \o new /\ y = v \o new
    OBVIOUS
<1>2. PICK a \in Nat, b \in Nat : a + k = Len(u) /\ b + k = Len(v) /\ Agree(u, a, v, b, k)
    BY DEF SameEnd
<1>3. Cat(x, u, new, Nat) /\ Cat(y, v, new, Nat)
    BY <1>1, Zenon DEF Cat
<1>4. /\ Len(x) = Len(u) + Len(new) /\ Len(u) \in Nat
      /\ Agree(x, 0, u, 0, Len(u)) /\ Agree(x, Len(u), new, 0, Len(new))
    BY <1>3, CatFacts
<1>5. /\ Len(y) = Len(v) + Len(new) /\ Len(v) \in Nat
      /\ Agree(y, 0, v, 0, Len(v)) /\ Agree(y, Len(v), new, 0, Len(new))
    BY <1>3, CatFacts
<1>6. Agree(x, a, v, b, k)
    <2>1. a + k <= Len(u) /\ 0 \in Nat
        BY <1>2, <1>4
    <2>2. Agree(x, 0 + a, u, 0 + a, k)
        BY <1>4, <2>1, AgreePart
    <2>3. 0 + a = a
        OBVIOUS
    <2>4. Agree(x, a, u, a, k)
        BY <2>2, <2>3, Zenon
    <2> QED
        BY <1>2, <2>4, AgreeTrans
<1>7. Agree(v, b, y, b, k)
    <2>1. b + k <= Len(v) /\ 0 \in Nat
        BY <1>2, <1>5
    <2>2. Agree(y, 0 + b, v, 0 + b, k)
        BY <1>5, <2>1, AgreePart
    <2>3. 0 + b = b
        OBVIOUS
    <2>4. Agree(y, b, v, b, k)
        BY <2>2, <2>3, Zenon
    <2> QED
        BY <2>4, AgreeSym
<1>8. Agree(x, a, y, b, k)
    BY <1>6, <1>7, AgreeTrans
<1>9. Agree(x, a + k, y, b + k, n)
    <2>1. Agree(x, a + k, new, 0, n) /\ Agree(y, b + k, new, 0, n)
        BY <1>0, <1>2, <1>4, <1>5, Zenon
    <2>2. a + k \in Nat /\ b + k \in Nat /\ 0 \in Nat
        OBVIOUS
    <2>3. Agree(new, 0, y, b + k, n)
        BY <2>1, <2>2, AgreeSym
    <2> QED
        BY <2>1, <2>2, <2>3, AgreeTrans
<1>10. Agree(x, a, y, b, k + n)
    BY <1>8, <1>9, AgreeJoin
<1>11. a + (k + n) = Len(x) /\ b + (k + n) = Len(y)
    <2>1. a + (k + n) = (a + k) + n /\ b + (k + n) = (b + k) + n
        OBVIOUS
    <2> QED
        BY <1>0, <1>2, <1>4, <1>5, <2>1, Zenon
<1> QED
    BY <1>0, <1>1, <1>10, <1>11, Zenon DEF SameEnd

LEMMA CatEnd ==
    ASSUME NEW s \in Seq(Nat), NEW t \in Seq(Nat)
    PROVE  SameEnd(s \o t, t, Len(t))
<1>1. PICK u : u = s \o t
    OBVIOUS
<1>2. Cat(u, s, t, Nat)
    BY <1>1, Zenon DEF Cat
<1>3. Len(u) = Len(s) + Len(t) /\ Len(s) \in Nat /\ Len(t) \in Nat /\ Agree(u, Len(s), t, 0, Len(t))
    BY <1>2, CatFacts
<1>4. Len(s) + Len(t) = Len(u) /\ 0 + Len(t) = Len(t) /\ 0 \in Nat
    BY <1>3
<1> QED
    BY <1>1, <1>3, <1>4, Zenon DEF SameEnd

LEMMA LastEnd ==
    ASSUME NEW s \in Seq(Nat), NEW n \in Nat, NEW k \in Nat, k <= n, k <= Len(s)
    PROVE  Last(n, s) \in Seq(Nat) /\ SameEnd(Last(n, s), s, k)
<1>1. PICK u : u = Last(n, s)
    OBVIOUS
<1>2. PICK d \in Nat, l \in Nat : LastAt(n, s, d, l, Nat)
    BY LastFacts
<1>3. /\ d + l = Len(s) /\ l <= n /\ (l < n => d = 0)
      /\ u \in Seq(Nat) /\ Len(u) = l /\ Agree(u, 0, s, d, l)
    BY <1>1, <1>2, Zenon DEF LastAt
<1>4. k <= l /\ 0 + l = l /\ 0 \in Nat
    <2>1. d + l = Len(s) /\ l <= n /\ (l < n => d = 0)
        BY <1>3, Zenon
    <2> QED
        BY <2>1
<1>5. SameEnd(u, s, l)
    BY <1>3, <1>4, Zenon DEF SameEnd
<1>6. SameEnd(u, s, k)
    BY <1>4, <1>5, SameEndShort
<1> QED
    BY <1>1, <1>3, <1>6, Zenon

LEMMA LastSame ==
    ASSUME NEW u \in Seq(Nat), NEW v \in Seq(Nat), NEW n \in Nat, SameEnd(u, v, n)
    PROVE  Last(n, u) = Last(n, v)
<1>1. PICK a \in Nat, b \in Nat : a + n = Len(u) /\ b + n = Len(v) /\ Agree(u, a, v, b, n)
    BY DEF SameEnd
<1>2. PICK x, y : x = Last(n, u) /\ y = Last(n, v)
    OBVIOUS
<1>3. PICK d \in Nat, l \in Nat : LastAt(n, u, d, l, Nat)
    BY LastFacts
<1>4. /\ d + l = Len(u) /\ l <= n /\ (l < n => d = 0)
      /\ x \in Seq(Nat) /\ Len(x) = l /\ Agree(x, 0, u, d, l)
    BY <1>2, <1>3, Zenon DEF LastAt
<1>5. PICK e \in Nat, m \in Nat : LastAt(n, v, e, m, Nat)
    BY LastFacts
<1>6. /\ e + m = Len(v) /\ m <= n /\ (m < n => e = 0)
      /\ y \in Seq(Nat) /\ Len(y) = m /\ Agree(y, 0, v, e, m)
    BY <1>2, <1>5, Zenon DEF LastAt
<1>7. d = a /\ l = n
    <2>1. d + l = a + n /\ l <= n /\ (l < n => d = 0)
        BY <1>1, <1>4, Zenon
    <2> QED
        BY <2>1
<1>8. e = b /\ m = n
    <2>1. e + m = b + n /\ m <= n /\ (m < n => e = 0)
        BY <1>1, <1>6, Zenon
    <2> QED
        BY <2>1
<1>9. Agree(x, 0, u, a, n) /\ Agree(y, 0, v, b, n) /\ Len(x) = n /\ Len(y) = n /\ 0 \in Nat
    BY <1>4, <1>6, <1>7, <1>8, Zenon
<1>10. Agree(x, 0, v, b, n)
    BY <1>1, <1>9, AgreeTrans
<1>11. Agree(v, b, y, 0, n)
    BY <1>9, AgreeSym
<1>12. Agree(x, 0, y, 0, n)
    BY <1>9, <1>10, <1>11, AgreeTrans
<1> QED
    BY <1>2, <1>4, <1>6, <1>9, <1>12, AgreeEqual

LEMMA BoundedEnd ==
    ASSUME NEW t \in Seq(Nat), NEW k \in Nat, k <= Half, k <= Len(t)
    PROVE  SameEnd(Bounded(t), t, k)
<1>0. Len(t) \in Nat /\ Half \in Nat /\ Half + 1 \in Nat /\ Budget \in Nat
    BY HalfFacts
<1>1. CASE Len(t) <= Budget
    <2>1. Bounded(t) = t
        BY <1>1, BoundedFacts
    <2>2. SameEnd(t, t, k)
        BY SameEndSelf
    <2> QED
        BY <2>1, <2>2, Zenon
<1>2. CASE ~ (Len(t) <= Budget)
    <2>1. PICK d \in Nat : FoldAt(Bounded(t), t, d)
        <3>1. Len(t) > Budget
            BY <1>0, <1>2
        <3> QED
            BY <3>1, BoundedFacts
    <2>2. /\ d + Half = Len(t) /\ Len(Bounded(t)) = Budget + 1
          /\ Agree(Bounded(t), Half + 1, t, d, Half)
        BY <2>1, Zenon DEF FoldAt
    <2>3. (Half + 1) + Half = Budget + 1
        BY HalfFacts
    <2>4. SameEnd(Bounded(t), t, Half)
        BY <1>0, <2>2, <2>3, Zenon DEF SameEnd
    <2> QED
        BY <1>0, <2>4, SameEndShort
<1> QED
    BY <1>1, <1>2

\* A message merged into a text: its end is that of both together.
LEMMA MergedEnd ==
    ASSUME NEW t \in Seq(Nat), NEW new \in Seq(Nat), NEW k \in Nat, k <= Half, k <= Len(t \o new)
    PROVE  SameEnd(Merged(t, new), t \o new, k)
<1>0. PICK w \in Seq(Nat) : w = t \o new
    <2>1. t \o new \in Seq(Nat)
        OBVIOUS
    <2> QED
        BY <2>1, Zenon
<1>1. CASE ~ Marked(t)
    <2>1. Merged(t, new) = Bounded(w)
        BY <1>0, <1>1, Zenon DEF Merged
    <2>2. SameEnd(Bounded(w), w, k)
        BY <1>0, BoundedEnd
    <2> QED
        BY <1>0, <2>1, <2>2, Zenon
<1>2. CASE Marked(t)
    <2>1. PICK m \in Nat : m = MarkIn(t) /\ m <= Len(t)
        BY <1>2, MarkFacts
    <2>2. PICK u : u = Merged(t, new)
        OBVIOUS
    <2>3. \E d, b \in Nat : SlidAt(u, t, w, MarkIn(t), d, b)
        BY <1>0, <1>2, <2>2, SlidFacts
    <2>4. PICK d \in Nat, b \in Nat : SlidAt(u, t, w, m, d, b)
        BY <2>1, <2>3, Zenon
    <2>5. /\ b <= Half /\ d + b = Len(w) /\ d >= m /\ (d > m => b = Half)
          /\ u \in Seq(Nat) /\ Len(u) = m + b
          /\ Agree(u, 0, t, 0, m) /\ Agree(u, m, w, d, b)
        BY <2>4, Zenon DEF SlidAt
    <2>6. CASE b = Half
        <3>1. SameEnd(u, w, b)
            BY <2>5, Zenon DEF SameEnd
        <3> QED
            BY <1>0, <2>2, <2>6, <3>1, SameEndShort
    <2>7. CASE b # Half
        \* Nothing was cut.
        <3>1. d = m
            <4>1. d >= m /\ ~ (d > m)
                BY <2>5, <2>7, Zenon
            <4> QED
                BY <4>1
        <3>2. Agree(t, 0, w, 0, m)
            <4>1. Cat(w, t, new, Nat)
                BY <1>0, Zenon DEF Cat
            <4>2. Agree(w, 0, t, 0, Len(t)) /\ Len(t) \in Nat /\ 0 \in Nat
                BY <4>1, CatFacts
            <4>3. Agree(w, 0, t, 0, m)
                BY <2>1, <4>2, AgreeHead
            <4> QED
                BY <4>2, <4>3, AgreeSym
        <3>3. Agree(u, 0, w, 0, m + b)
            <4>1. Agree(u, 0, w, 0, m)
                BY <2>5, <3>2, AgreeTrans
            <4>2. 0 + m = m /\ 0 \in Nat
                OBVIOUS
            <4>3. Agree(u, 0 + m, w, 0 + m, b)
                BY <2>5, <3>1, <4>2, Zenon
            <4> QED
                BY <4>1, <4>2, <4>3, AgreeJoin
        <3>4. 0 + (m + b) = m + b /\ m + b \in Nat /\ 0 \in Nat
            OBVIOUS
        <3>5. SameEnd(u, w, m + b)
            BY <2>5, <3>1, <3>3, <3>4, Zenon DEF SameEnd
        <3>6. k <= m + b
            BY <1>0, <2>5, <3>1, Zenon
        <3> QED
            BY <1>0, <2>2, <3>4, <3>5, <3>6, SameEndShort
    <2> QED
        BY <2>6, <2>7
<1> QED
    BY <1>1, <1>2

\* t ends as w does, for half a budget or all of w.
EndsAlike(t, w) == \A k \in Nat : k <= Half /\ k <= Len(w) => SameEnd(t, w, k)

LEMMA MergedEndsAlike ==
    ASSUME NEW t \in Seq(Nat), NEW w \in Seq(Nat), NEW new \in Seq(Nat), EndsAlike(t, w)
    PROVE  EndsAlike(Merged(t, new), w \o new)
<1> SUFFICES ASSUME NEW k \in Nat, k <= Half, k <= Len(w \o new)
             PROVE  SameEnd(Merged(t, new), w \o new, k)
    BY DEF EndsAlike
<1>0. PICK n \in Nat : n = Len(new) /\ Len(w \o new) = Len(w) + n
    OBVIOUS
<1>1. PICK j \in Nat : j <= Half /\ j <= Len(w) /\ k <= j + n
    <2>1. Half \in Nat /\ Len(w) \in Nat /\ k <= Len(w) + n
        BY <1>0, HalfFacts
    <2>2. CASE k <= n
        BY <2>1, <2>2
    <2>3. CASE ~ (k <= n)
        <3>1. k - n \in Nat /\ k - n <= Half /\ k - n <= Len(w) /\ k <= (k - n) + n
            BY <2>1, <2>3
        <3> QED
            BY <3>1, Zenon
    <2> QED
        BY <2>2, <2>3
<1>2. SameEnd(t, w, j)
    BY <1>1 DEF EndsAlike
<1>3. SameEnd(t \o new, w \o new, j + n)
    BY <1>0, <1>2, SameEndCat
<1>4. j + n \in Nat /\ t \o new \in Seq(Nat) /\ w \o new \in Seq(Nat)
    OBVIOUS
<1>5. SameEnd(t \o new, w \o new, k)
    BY <1>1, <1>3, <1>4, SameEndShort
<1>6. k <= Len(t \o new)
    BY <1>4, <1>5, SameEndLong
<1>7. SameEnd(Merged(t, new), t \o new, k)
    BY <1>6, MergedEnd
<1> QED
    BY <1>4, <1>5, <1>7, SameEndTrans

-----------------------------------------------------------------------------
(* Where a text was cut.                                                   *)

\* t is w, or is w up to its first marker.
CutAlike(t, w) ==
    t # w => Marked(t) /\ \E k \in Nat : k + 1 = MarkIn(t) /\ k <= Len(w) /\ Agree(t, 0, w, 0, k)

LEMMA MarkedCut ==
    ASSUME NEW u \in Seq(Nat), NEW w \in Seq(Nat), NEW m \in Nat, m + 1 <= Len(u), u[m + 1] = Elided,
           m <= Len(w), Agree(u, 0, w, 0, m)
    PROVE  CutAlike(u, w)
<1>1. m + 1 \in Nat /\ m + 1 >= 1 /\ Len(w) \in Nat
    OBVIOUS
<1>2. Marked(u) /\ MarkIn(u) \in Nat /\ MarkIn(u) >= 1 /\ MarkIn(u) <= m + 1
    BY <1>1, FirstMark
<1>3. PICK k \in Nat : k + 1 = MarkIn(u)
    <2>1. MarkIn(u) - 1 \in Nat /\ (MarkIn(u) - 1) + 1 = MarkIn(u)
        BY <1>2
    <2> QED
        BY <2>1, Zenon
<1>4. k <= m /\ k <= Len(w) /\ 0 \in Nat
    <2>1. k + 1 <= m + 1
        BY <1>2, <1>3, Zenon
    <2> QED
        BY <1>1, <2>1
<1>5. Agree(u, 0, w, 0, k)
    BY <1>4, AgreeHead
<1> QED
    BY <1>2, <1>3, <1>4, <1>5, Zenon DEF CutAlike

LEMMA BoundedCut ==
    ASSUME NEW t \in Seq(Nat)
    PROVE  CutAlike(Bounded(t), t)
<1>0. Len(t) \in Nat /\ Half \in Nat /\ Budget \in Nat
    BY HalfFacts
<1>1. CASE Len(t) <= Budget
    <2>1. Bounded(t) = t
        BY <1>1, BoundedFacts
    <2> QED
        BY <2>1, Zenon DEF CutAlike
<1>2. CASE ~ (Len(t) <= Budget)
    <2>1. PICK d \in Nat : FoldAt(Bounded(t), t, d)
        <3>1. Len(t) > Budget
            BY <1>0, <1>2
        <3> QED
            BY <3>1, BoundedFacts
    <2>2. /\ Len(Bounded(t)) = Budget + 1 /\ Agree(Bounded(t), 0, t, 0, Half)
          /\ Bounded(t)[Half + 1] = Elided
        BY <2>1, Zenon DEF FoldAt
    <2>3. Half <= Len(t) /\ Half + 1 <= Budget + 1
        BY <1>0, <1>2, HalfFacts
    <2>4. PICK u \in Seq(Nat) : u = Bounded(t)
        BY BoundedFacts
    <2>5. Half + 1 <= Len(u) /\ u[Half + 1] = Elided /\ Agree(u, 0, t, 0, Half)
        BY <2>2, <2>3, <2>4, Zenon
    <2>6. CutAlike(u, t)
        BY <1>0, <2>3, <2>5, MarkedCut
    <2> QED
        BY <2>4, <2>6, Zenon
<1> QED
    BY <1>1, <1>2

LEMMA MergedCut ==
    ASSUME NEW t \in Seq(Nat), NEW w \in Seq(Nat), NEW new \in Seq(Nat), CutAlike(t, w)
    PROVE  CutAlike(Merged(t, new), w \o new)
<1>0. PICK y \in Seq(Nat) : y = w \o new
    <2>1. w \o new \in Seq(Nat)
        OBVIOUS
    <2> QED
        BY <2>1, Zenon
<1>a. Cat(y, w, new, Nat)
    BY <1>0, Zenon DEF Cat
<1>b. /\ Len(y) = Len(w) + Len(new) /\ Len(w) \in Nat /\ Len(new) \in Nat
      /\ Agree(y, 0, w, 0, Len(w))
    BY <1>a, CatFacts
<1>c. Agree(w, 0, y, 0, Len(w)) /\ 0 \in Nat /\ Len(w) <= Len(y)
    BY <1>b, AgreeSym
<1>1. CASE ~ Marked(t)
    <2>1. t = w
        BY <1>1, Zenon DEF CutAlike
    <2>2. Merged(t, new) = Bounded(y)
        BY <1>0, <1>1, <2>1, Zenon DEF Merged
    <2>3. CutAlike(Bounded(y), y)
        BY BoundedCut
    <2> QED
        BY <1>0, <2>2, <2>3, Zenon
<1>2. CASE Marked(t)
    <2>1. MarkIn(t) \in Nat /\ MarkIn(t) >= 1 /\ MarkIn(t) <= Len(t) /\ t[MarkIn(t)] = Elided
        <3>1. MarkIn(t) \in 1..Len(t) /\ t[MarkIn(t)] = Elided
            BY <1>2, MarkFacts
        <3> QED
            BY <3>1
    <2>2. PICK k \in Nat : k + 1 = MarkIn(t)
        <3>1. MarkIn(t) - 1 \in Nat /\ (MarkIn(t) - 1) + 1 = MarkIn(t)
            BY <2>1
        <3> QED
            BY <3>1, Zenon
    <2>3. k <= Len(w) /\ Agree(t, 0, w, 0, k)
        <3>1. CASE t = w
            <4>1. k + 1 <= Len(w)
                BY <2>1, <2>2, <3>1, Zenon
            <4>2. k <= Len(w)
                BY <1>b, <4>1
            <4>3. Agree(w, 0, w, 0, k)
                BY DEF Agree
            <4> QED
                BY <3>1, <4>2, <4>3, Zenon
        <3>2. CASE t # w
            <4>1. PICK j \in Nat : j + 1 = MarkIn(t) /\ j <= Len(w) /\ Agree(t, 0, w, 0, j)
                BY <3>2, Zenon DEF CutAlike
            <4>2. j = k
                <5>1. j + 1 = k + 1
                    BY <2>2, <4>1, Zenon
                <5> QED
                    BY <5>1
            <4> QED
                BY <4>1, <4>2, Zenon
        <3> QED
            BY <3>1, <3>2
    <2>4. PICK u : u = Merged(t, new)
        OBVIOUS
    <2>5. \E d, b \in Nat : SlidAt(u, t, t \o new, MarkIn(t), d, b)
        BY <1>2, <2>4, SlidFacts
    <2>6. PICK d \in Nat, b \in Nat : SlidAt(u, t, t \o new, k + 1, d, b)
        BY <2>2, <2>5, Zenon
    <2>7. u \in Seq(Nat) /\ Len(u) = (k + 1) + b /\ Agree(u, 0, t, 0, k + 1)
        BY <2>6, Zenon DEF SlidAt
    <2>8. k + 1 \in Nat /\ k <= k + 1 /\ k + 1 \in 1..(k + 1) /\ 0 + (k + 1) = k + 1 /\ k + 1 <= (k + 1) + b
        OBVIOUS
    <2>9. u[k + 1] = Elided
        <3>1. u[0 + (k + 1)] = t[0 + (k + 1)]
            BY <2>7, <2>8, Zenon DEF Agree
        <3> QED
            BY <2>1, <2>2, <2>8, <3>1, Zenon
    <2>10. Agree(u, 0, y, 0, k)
        <3>1. Agree(u, 0, t, 0, k)
            BY <1>c, <2>7, <2>8, AgreeHead
        <3>2. Agree(u, 0, w, 0, k)
            BY <1>c, <2>3, <3>1, AgreeTrans
        <3>3. Agree(w, 0, y, 0, k)
            BY <1>b, <1>c, <2>3, AgreeHead
        <3> QED
            BY <1>c, <3>2, <3>3, AgreeTrans
    <2>11. k <= Len(y) /\ k + 1 <= Len(u)
        <3>1. k <= Len(y)
            BY <1>b, <1>c, <2>3
        <3> QED
            BY <2>7, <2>8, <3>1, Zenon
    <2>12. CutAlike(u, y)
        BY <2>7, <2>9, <2>10, <2>11, MarkedCut
    <2> QED
        BY <1>0, <2>4, <2>12, Zenon
<1> QED
    BY <1>1, <1>2

-----------------------------------------------------------------------------
(* The lasts of the two lists, and the marker among the entries.           *)

Alike(t, w) == EndsAlike(t, w) /\ CutAlike(t, w)

LEMMA FoldedAlike ==
    ASSUME NEW e \in Entries
    PROVE  Alike(Folded(e).text, e.text)
<1>1. PICK t \in Seq(Nat) : t = e.text
    BY DEF Entries, Text
<1>2. CASE e.kind \in Streams
    <2>1. Folded(e).text = Bounded(t)
        BY <1>1, <1>2 DEF Folded, Entries
    <2>2. EndsAlike(Bounded(t), t)
        BY BoundedEnd DEF EndsAlike
    <2>3. CutAlike(Bounded(t), t)
        BY BoundedCut
    <2> QED
        BY <1>1, <2>1, <2>2, <2>3, Zenon DEF Alike
<1>3. CASE e.kind \notin Streams
    <2>1. Folded(e).text = t
        BY <1>1, <1>3, Zenon DEF Folded
    <2>2. EndsAlike(t, t)
        BY SameEndSelf DEF EndsAlike
    <2>3. CutAlike(t, t)
        BY Zenon DEF CutAlike
    <2> QED
        BY <1>1, <2>1, <2>2, <2>3, Zenon DEF Alike
<1> QED
    BY <1>2, <1>3

\* A list that was cut is full and holds the marker; the last entries have
\* the same end, and the same head up to the marker.
LastsInv ==
    /\ Len(sink) < Len(whole) => Len(sink) = MaxOutputs /\ sink[Mid] = ElidedEntry
    /\ whole # <<>> => sink # <<>> /\ Alike(sink[Len(sink)].text, whole[Len(whole)].text)

\* A place for one more entry.
LEMMA RoomLeft ==
    ASSUME NEW s \in Seq(Entries), Len(s) <= MaxOutputs
    PROVE  /\ WithRoom(s) \in Seq(Entries)
           /\ Len(s) < MaxOutputs => WithRoom(s) = s
           /\ Len(s) = MaxOutputs => /\ Len(WithRoom(s)) + 1 = MaxOutputs
                                     /\ Mid <= Len(WithRoom(s)) /\ WithRoom(s)[Mid] = ElidedEntry
<1>0. /\ Mid \in Nat /\ HeadKept \in Nat /\ TailKept \in Nat /\ MaxOutputs \in Nat /\ HeadKept + 1 = Mid
      /\ Mid + TailKept = MaxOutputs /\ TailKept >= 2 /\ Len(s) \in Nat
    BY MidFacts
<1>1. CASE Len(s) < MaxOutputs
    <2>1. WithRoom(s) = s
        BY <1>1, Zenon DEF WithRoom
    <2>2. Len(s) # MaxOutputs
        BY <1>0, <1>1
    <2> QED
        BY <2>1, <2>2, Zenon
<1>2. CASE ~ (Len(s) < MaxOutputs)
    <2>1. Len(s) = MaxOutputs
        BY <1>0, <1>2
    <2>2. PICK m \in Nat : Mid + (m + 1) = MaxOutputs
        <3>1. TailKept - 1 \in Nat /\ Mid + ((TailKept - 1) + 1) = MaxOutputs
            BY <1>0
        <3> QED
            BY <3>1, Zenon
    <2>3. Room(WithRoom(s), s, m)
        BY <2>1, <2>2, RoomFacts
    <2>4. WithRoom(s) \in Seq(Entries) /\ Len(WithRoom(s)) = Mid + m /\ WithRoom(s)[Mid] = ElidedEntry
        BY <1>0, <2>3, Zenon DEF Room
    <2>5. (Mid + m) + 1 = MaxOutputs /\ Mid <= Mid + m
        BY <1>0, <2>2
    <2> QED
        BY <1>2, <2>4, <2>5, Zenon
<1> QED
    BY <1>1, <1>2

LEMMA NewLast ==
    ASSUME SinkInv, LastsInv, NEW e \in Entries,
           sink' = Append(WithRoom(sink), Folded(e)), whole' = Append(whole, e)
    PROVE  LastsInv'
<1>0. /\ sink \in Seq(Entries) /\ whole \in Seq(Entries)
      /\ Len(sink) \in Nat /\ Len(sink) <= MaxOutputs /\ Len(whole) \in Nat
      /\ Mid \in Nat /\ Mid >= 1 /\ MaxOutputs \in Nat
    BY MidFacts DEF SinkInv, TypeOK
<1>1. PICK r \in Seq(Entries) : r = WithRoom(sink)
    BY <1>0, RoomLeft
<1>2. /\ Len(sink) < MaxOutputs => r = sink
      /\ Len(sink) = MaxOutputs => Len(r) + 1 = MaxOutputs /\ Mid <= Len(r) /\ r[Mid] = ElidedEntry
    BY <1>0, <1>1, RoomLeft
<1>3. PICK k \in Nat : k = Len(r)
    BY <1>0
<1>b. PICK n \in Nat : n = Len(whole)
    BY <1>0
<1>4. /\ sink' \in Seq(Entries) /\ Len(sink') = k + 1 /\ Agree(sink', 0, r, 0, k) /\ sink'[k + 1] = Folded(e)
    <2>1. PICK u : u = sink'
        OBVIOUS
    <2>2. Add(u, r, Folded(e), Entries)
        BY <1>1, <2>1, FoldedType, Zenon DEF Add
    <2>a. Len(r) = k
        BY <1>3, Zenon
    <2>3. u \in Seq(Entries) /\ Len(u) = k + 1 /\ Agree(u, 0, r, 0, k) /\ u[k + 1] = Folded(e)
        BY <2>a, <2>2, AddFacts, ZenonT(60)
    <2> QED
        BY <2>1, <2>3, Zenon
<1>5. whole' \in Seq(Entries) /\ Len(whole') = n + 1 /\ whole'[n + 1] = e
    <2>1. PICK u, w : u = whole' /\ w = whole
        OBVIOUS
    <2>2. Add(u, w, e, Entries)
        BY <1>0, <2>1, Zenon DEF Add
    <2>3. Len(w) = n /\ n \in Nat
        BY <1>b, <2>1, Zenon
    <2>4. u \in Seq(Entries) /\ Len(u) = n + 1 /\ Agree(u, 0, w, 0, n) /\ u[n + 1] = e
        BY <2>2, <2>3, AddFacts, ZenonT(60)
    <2> QED
        BY <2>1, <2>4, Zenon
<1>6. ASSUME Len(sink') < Len(whole') PROVE Len(sink') = MaxOutputs /\ sink'[Mid] = ElidedEntry
    <2>1. CASE Len(sink) < MaxOutputs
        <3>1. k = Len(sink)
            BY <1>2, <1>3, <2>1, Zenon
        <3>2. k + 1 < n + 1
            BY <1>4, <1>5, <1>6, Zenon
        <3>3. k < n
            BY <3>2
        <3>4. k = MaxOutputs
            BY <1>3, <1>b, <3>1, <3>3, Zenon DEF LastsInv
        <3> QED
            BY <1>0, <2>1, <3>1, <3>4
    <2>2. CASE ~ (Len(sink) < MaxOutputs)
        <3>1. Len(sink) = MaxOutputs
            BY <1>0, <2>2
        <3>2. k + 1 = MaxOutputs /\ Mid <= k /\ r[Mid] = ElidedEntry
            BY <1>2, <1>3, <3>1, Zenon
        <3>3. Mid \in 1..k /\ 0 + Mid = Mid
            BY <1>0, <3>2
        <3>4. sink'[0 + Mid] = r[0 + Mid]
            BY <1>4, <3>3, Zenon DEF Agree
        <3> QED
            BY <1>4, <3>2, <3>3, <3>4, Zenon
    <2> QED
        BY <2>1, <2>2
<1>7. sink' # <<>>
    BY <1>4
<1>8. Alike(sink'[Len(sink')].text, whole'[Len(whole')].text)
    <2>1. Alike(Folded(e).text, e.text)
        BY FoldedAlike
    <2> QED
        BY <1>4, <1>5, <2>1, Zenon
<1> QED
    BY <1>6, <1>7, <1>8, Zenon DEF LastsInv, Alike, EndsAlike, CutAlike, Mid

LEMMA LongerLast ==
    ASSUME SinkInv, LastsInv, NEW name \in Streams, NEW new \in Seq(Nat), Continues(sink, name),
           sink' = [sink EXCEPT ![Len(sink)].text = Merged(@, new)],
           whole' = [whole EXCEPT ![Len(whole)].text = @ \o new]
    PROVE  LastsInv'
<1>0. /\ sink \in Seq(Entries) /\ whole \in Seq(Entries)
      /\ sink # <<>> /\ whole # <<>>
    BY Zenon DEF SinkInv, TypeOK, Continues
<1>1. PICK k \in Nat : Len(sink) = k + 1
    <2>1. Len(sink) - 1 \in Nat /\ Len(sink) = (Len(sink) - 1) + 1
        BY <1>0
    <2> QED
        BY <2>1, Zenon
<1>2. PICK n \in Nat : Len(whole) = n + 1
    <2>1. Len(whole) - 1 \in Nat /\ Len(whole) = (Len(whole) - 1) + 1
        BY <1>0
    <2> QED
        BY <2>1, Zenon
<1>3. PICK old \in Entries : old = sink[k + 1]
    BY <1>0, <1>1
<1>4. PICK last \in Entries : last = whole[n + 1]
    BY <1>0, <1>2
<1>5. PICK t \in Seq(Nat), w \in Seq(Nat) : t = old.text /\ w = last.text
    BY DEF Entries, Text
<1>6. Merged(t, new) \in Seq(Nat) /\ w \o new \in Seq(Nat)
    <2>1. k + 1 \in 1..(k + 1)
        OBVIOUS
    <2>2. \A i \in 1..Len(sink) : Tame(sink[i].text)
        BY DEF SinkInv
    <2>3. Tame(t)
        BY <1>1, <1>3, <1>5, <2>1, <2>2, Zenon
    <2>4. Tame(Merged(t, new))
        BY <2>3, MergedIsTame
    <2>5. w \o new \in Seq(Nat)
        OBVIOUS
    <2> QED
        BY <2>4, <2>5, Zenon DEF Tame
<1>7. PICK longer : longer = [old EXCEPT !.text = Merged(t, new)]
    OBVIOUS
<1>8. PICK more : more = [last EXCEPT !.text = w \o new]
    OBVIOUS
<1>9. /\ longer \in Entries /\ longer.text = Merged(t, new)
      /\ more \in Entries /\ more.text = w \o new
    BY <1>6, <1>7, <1>8 DEF Entries, Text
<1>10. /\ sink' = [sink EXCEPT ![Len(sink)] = longer]
       /\ whole' = [whole EXCEPT ![Len(whole)] = more]
    BY <1>1, <1>2, <1>3, <1>4, <1>5, <1>7, <1>8, Zenon
<1>11. Replaced(sink', sink, k, longer)
    <2>1. PICK u, s : u = sink' /\ s = sink
        OBVIOUS
    <2>2. Replaces(u, s, k, longer)
        BY <1>0, <1>1, <1>9, <1>10, <2>1, Zenon DEF Put, Replaces
    <2>3. Replaced(u, s, k, longer)
        BY <2>2, ReplacedFacts
    <2> QED
        BY <2>1, <2>3, Zenon
<1>12. Replaced(whole', whole, n, more)
    <2>1. PICK u, s : u = whole' /\ s = whole
        OBVIOUS
    <2>2. Replaces(u, s, n, more)
        BY <1>0, <1>2, <1>9, <1>10, <2>1, Zenon DEF Put, Replaces
    <2>3. Replaced(u, s, n, more)
        BY <2>2, ReplacedFacts
    <2> QED
        BY <2>1, <2>3, Zenon
<1>13. /\ sink' \in Seq(Entries) /\ Len(sink') = k + 1 /\ Agree(sink', 0, sink, 0, k) /\ sink'[k + 1] = longer
       /\ whole' \in Seq(Entries) /\ Len(whole') = n + 1 /\ whole'[n + 1] = more
    BY <1>11, <1>12, Zenon DEF Replaced
<1>14. ASSUME Len(sink') < Len(whole') PROVE Len(sink') = MaxOutputs /\ sink'[Mid] = ElidedEntry
    <2>1. Len(sink) = MaxOutputs /\ sink[Mid] = ElidedEntry
        BY <1>1, <1>2, <1>13, <1>14, Zenon DEF LastsInv
    <2>2. Mid \in 1..k /\ 0 + Mid = Mid
        <3>1. k + 1 = MaxOutputs
            BY <1>1, <2>1, Zenon
        <3> QED
            BY <3>1, MidFacts
    <2>3. sink'[0 + Mid] = sink[0 + Mid]
        BY <1>13, <2>2, Zenon DEF Agree
    <2> QED
        BY <1>1, <1>13, <2>1, <2>2, <2>3, Zenon
<1>15. sink' # <<>>
    BY <1>13
<1>16. Alike(sink'[Len(sink')].text, whole'[Len(whole')].text)
    <2>1. Alike(t, w)
        BY <1>0, <1>1, <1>2, <1>3, <1>4, <1>5, Zenon DEF LastsInv
    <2>2. EndsAlike(Merged(t, new), w \o new)
        BY <2>1, MergedEndsAlike DEF Alike
    <2>3. CutAlike(Merged(t, new), w \o new)
        BY <2>1, MergedCut DEF Alike
    <2>4. Alike(Merged(t, new), w \o new)
        BY <2>2, <2>3, Zenon DEF Alike
    <2> QED
        BY <1>9, <1>13, <2>4, Zenon
<1> QED
    BY <1>14, <1>15, <1>16, Zenon DEF LastsInv, Alike, EndsAlike, CutAlike, Mid

LEMMA InitLasts == Init => LastsInv
BY DEF Init, LastsInv

LEMMA NextLasts == SinkInv /\ LastsInv /\ [Next]_vars => LastsInv'
<1> SUFFICES ASSUME SinkInv, LastsInv, [Next]_vars PROVE LastsInv'
    OBVIOUS
<1>0. printed \in Nat
    BY DEF SinkInv, TypeOK
<1>1. ASSUME NEW name \in Streams, NEW new \in Chunks, Prints(name, new) PROVE LastsInv'
    <2>1. new \in Seq(Nat)
        BY <1>0, ChunkType
    <2>2. CASE Continues(sink, name)
        <3>1. /\ sink' = [sink EXCEPT ![Len(sink)].text = Merged(@, new)]
              /\ whole' = [whole EXCEPT ![Len(whole)].text = @ \o new]
            BY <1>1, <2>2 DEF Prints
        <3> QED
            BY <2>1, <2>2, <3>1, LongerLast
    <2>3. CASE ~ Continues(sink, name)
        <3>1. PICK e : e = [kind |-> name, text |-> new]
            OBVIOUS
        <3>2. e \in Entries /\ e.kind \in Streams /\ e.text = new
            BY <2>1, <3>1 DEF Entries, Text
        <3>3. Folded(e) = [kind |-> name, text |-> Bounded(new)]
            BY <3>1, <3>2 DEF Folded
        <3>4. sink' = Append(WithRoom(sink), Folded(e)) /\ whole' = Append(whole, e)
            BY <1>1, <2>3, <3>1, <3>3, Zenon DEF Prints
        <3> QED
            BY <3>2, <3>4, NewLast
    <2> QED
        BY <2>2, <2>3
<1>2. ASSUME NEW e \in Shown, Displays(e) PROVE LastsInv'
    <2>1. e \in Entries /\ Folded(e) = e
        BY <1>0, ShownType
    <2>2. sink' = Append(WithRoom(sink), Folded(e)) /\ whole' = Append(whole, e)
        BY <1>2, <2>1, Zenon DEF Displays
    <2> QED
        BY <2>1, <2>2, NewLast
<1>3. CASE UNCHANGED vars
    BY <1>3 DEF LastsInv, Alike, vars
<1> QED
    BY <1>1, <1>2, <1>3 DEF Next

LEMMA LastsInvariant == Spec => []LastsInv
BY InitLasts, NextLasts, SinkInvariant, PTL DEF Spec

-----------------------------------------------------------------------------
\* f joins the texts of the first n entries of s.
Joins(f, s, n) == f = [i \in 0..n |-> IF i = 0 THEN <<>> ELSE f[i - 1] \o s[i].text]

LEMMA JoinsExists ==
    ASSUME NEW s, NEW n \in Nat
    PROVE  \E f : Joins(f, s, n)
<1> DEFINE T == {m \in Nat : ~ \E f : Joins(f, s, m)}
<1> SUFFICES ASSUME T # {} PROVE FALSE
    OBVIOUS
<1>1. PICK m \in T : \A y \in T : ~ (y < m)
    <2>1. T \subseteq Nat
        OBVIOUS
    <2> HIDE DEF T
    <2> QED
        BY <2>1, SmallestElement
<1>2. m \in Nat /\ ~ \E f : Joins(f, s, m)
    OBVIOUS
<1>3. CASE m = 0
    <2>1. PICK f : f = [i \in 0..m |-> <<>>]
        OBVIOUS
    <2>2. Joins(f, s, m)
        BY <1>3, <2>1 DEF Joins
    <2> QED
        BY <1>2, <2>2
<1>4. CASE m # 0
    <2>1. PICK l \in Nat : m = l + 1
        <3>1. m - 1 \in Nat /\ m = (m - 1) + 1
            BY <1>2, <1>4
        <3> QED
            BY <3>1, Zenon
    <2>2. l < m
        BY <2>1
    <2>3. PICK f : Joins(f, s, l)
        BY <1>1, <2>2
    <2>4. PICK g : g = [i \in 0..m |-> IF i = m THEN f[l] \o s[m].text ELSE f[i]]
        OBVIOUS
    <2>5. ASSUME NEW i \in 0..m PROVE g[i] = IF i = 0 THEN <<>> ELSE g[i - 1] \o s[i].text
        <3>1. CASE i = m
            <4>1. i - 1 = l /\ l \in 0..m /\ l # m /\ i # 0
                BY <1>4, <2>1, <3>1
            <4>2. g[l] = f[l] /\ g[i] = f[l] \o s[m].text
                BY <2>4, <3>1, <4>1
            <4> QED
                BY <3>1, <4>1, <4>2, Zenon
        <3>2. CASE i # m
            <4>1. i \in 0..l
                BY <2>1, <3>2
            <4>2. f[i] = IF i = 0 THEN <<>> ELSE f[i - 1] \o s[i].text
                BY <2>3, <4>1 DEF Joins
            <4>3. g[i] = f[i]
                BY <2>4, <3>2
            <4>4. i # 0 => i - 1 \in 0..m /\ i - 1 # m
                BY <1>2, <2>1, <4>1
            <4>5. i # 0 => g[i - 1] = f[i - 1]
                BY <2>4, <4>4
            <4> QED
                BY <4>2, <4>3, <4>5
        <3> QED
            BY <3>1, <3>2
    <2>6. Joins(g, s, m)
        <3>1. g = [i \in 0..m |-> g[i]]
            BY <2>4
        <3> QED
            BY <2>5, <3>1 DEF Joins
    <2> QED
        BY <1>2, <2>6
<1> QED
    BY <1>3, <1>4

LEMMA JoinsType ==
    ASSUME NEW S, NEW s, NEW n \in Nat, \A i \in 1..n : s[i].text \in Seq(S),
           NEW f, Joins(f, s, n), NEW k \in Nat, k <= n
    PROVE  f[k] \in Seq(S)
<1> DEFINE T == {m \in Nat : m <= n /\ f[m] \notin Seq(S)}
<1> SUFFICES ASSUME T # {} PROVE FALSE
    OBVIOUS
<1>1. PICK m \in T : \A y \in T : ~ (y < m)
    <2>1. T \subseteq Nat
        OBVIOUS
    <2> HIDE DEF T
    <2> QED
        BY <2>1, SmallestElement
<1>2. m \in Nat /\ m <= n /\ f[m] \notin Seq(S) /\ m \in 0..n
    OBVIOUS
<1>3. f[m] = IF m = 0 THEN <<>> ELSE f[m - 1] \o s[m].text
    BY <1>2 DEF Joins
<1>4. CASE m = 0
    BY <1>2, <1>3, <1>4
<1>5. CASE m # 0
    <2>1. m - 1 \in Nat /\ m - 1 < m /\ m - 1 <= n /\ m \in 1..n
        BY <1>2, <1>5
    <2>2. f[m - 1] \in Seq(S)
        BY <1>1, <2>1
    <2>3. s[m].text \in Seq(S)
        BY <2>1
    <2>4. f[m - 1] \o s[m].text \in Seq(S)
        BY <2>2, <2>3
    <2> QED
        BY <1>2, <1>3, <1>5, <2>4, Zenon
<1> QED
    BY <1>4, <1>5

\* The joined text ends with the last entry's.
LEMMA JoinedEnd ==
    ASSUME NEW s \in Seq(Entries), s # <<>>, NEW t, t = s[Len(s)].text
    PROVE  Joined(s) \in Seq(Nat) /\ t \in Seq(Nat) /\ SameEnd(Joined(s), t, Len(t))
<1>0. Len(s) \in Nat /\ Len(s) # 0 /\ Len(s) \in 1..Len(s) /\ Len(s) \in 0..Len(s)
    OBVIOUS
<1>1. t \in Seq(Nat)
    <2>1. s[Len(s)] \in Entries
        BY <1>0
    <2> QED
        BY <2>1 DEF Entries, Text
<1>2. PICK f : Joins(f, s, Len(s)) /\ Joined(s) = f[Len(s)]
    <2>1. PICK f : f = CHOOSE g : Joins(g, s, Len(s))
        OBVIOUS
    <2>2. Joins(f, s, Len(s))
        BY <1>0, <2>1, JoinsExists, Zenon
    <2>3. Joined(s) = f[Len(s)]
        BY <2>1 DEF Joined, Joins
    <2> QED
        BY <2>2, <2>3
<1>3. f[Len(s)] = f[Len(s) - 1] \o t
    BY <1>0, <1>2 DEF Joins
<1>4. Len(s) - 1 \in Nat /\ Len(s) - 1 <= Len(s) /\ Len(s) <= Len(s)
    BY <1>0
<1>5. f[Len(s) - 1] \in Seq(Nat) /\ f[Len(s)] \in Seq(Nat)
    <2>1. ASSUME NEW i \in 1..Len(s) PROVE s[i].text \in Seq(Nat)
        <3>1. s[i] \in Entries
            OBVIOUS
        <3> QED
            BY <3>1 DEF Entries, Text
    <2> QED
        BY <1>0, <1>2, <1>4, <2>1, JoinsType
<1>6. SameEnd(f[Len(s) - 1] \o t, t, Len(t))
    BY <1>1, <1>5, CatEnd
<1> QED
    BY <1>1, <1>2, <1>3, <1>5, <1>6, Zenon

LEMMA CappedEnd ==
    ASSUME NEW t \in Seq(Nat), NEW k \in Nat, k <= MaxChars \div 2, k <= Len(t)
    PROVE  Capped(t) \in Seq(Nat) /\ SameEnd(Capped(t), t, k)
<1>0. PICK h \in Nat : h = MaxChars \div 2 /\ h <= MaxChars /\ MaxChars \in Nat /\ Len(t) \in Nat
    BY SinkAssumption
<1>1. CASE Len(t) <= MaxChars
    <2>1. Capped(t) = t
        BY <1>1, Zenon DEF Capped
    <2>2. SameEnd(t, t, k)
        BY SameEndSelf
    <2> QED
        BY <2>1, <2>2, Zenon
<1>2. CASE ~ (Len(t) <= MaxChars)
    <2>1. PICK p : p = First(h, t)
        OBVIOUS
    <2>2. p \in Seq(Nat)
        <3>1. h <= Len(t)
            BY <1>0, <1>2
        <3> QED
            BY <2>1, <3>1, FirstFacts
    <2>3. PICK g : g = p \o <<Elided>>
        OBVIOUS
    <2>4. g \in Seq(Nat)
        BY <2>2, <2>3 DEF Elided
    <2>5. PICK l : l = Last(h, t)
        OBVIOUS
    <2>6. l \in Seq(Nat) /\ SameEnd(l, t, k)
        BY <1>0, <2>5, LastEnd
    <2>7. PICK u : u = g \o l
        OBVIOUS
    <2>8. Capped(t) = u
        <3>1. Capped(t) = p \o <<Elided>> \o l
            BY <1>0, <1>2, <2>1, <2>5, Zenon DEF Capped
        <3> QED
            BY <2>3, <2>7, <3>1, Zenon
    <2>9. u \in Seq(Nat) /\ SameEnd(u, l, Len(l))
        <3>1. g \o l \in Seq(Nat)
            BY <2>4, <2>6
        <3>2. SameEnd(g \o l, l, Len(l))
            BY <2>4, <2>6, CatEnd
        <3> QED
            BY <2>7, <3>1, <3>2, Zenon
    <2>10. SameEnd(u, l, k)
        <3>1. k <= Len(l) /\ Len(l) \in Nat
            BY <2>6, SameEndLong
        <3> QED
            BY <2>9, <3>1, SameEndShort
    <2>11. SameEnd(u, t, k)
        BY <2>6, <2>10, SameEndTrans
    <2> QED
        BY <2>8, <2>9, <2>11, Zenon
<1> QED
    BY <1>1, <1>2

LEMMA SmallestFacts ==
    ASSUME NEW T, T \subseteq Nat, T # {}, NEW n, n = CHOOSE m \in T : \A k \in T : m <= k
    PROVE  n \in T /\ \A k \in T : n <= k
<1>1. \E m \in T : \A k \in T : m <= k
    <2>1. PICK m \in T : \A k \in T : ~ (k < m)
        BY SmallestElement
    <2> QED
        BY <2>1
<1> QED
    BY <1>1, Zenon

-----------------------------------------------------------------------------
\* No output is left out silently.
THEOREM LossIsShown == Spec => []LossIsMarked
<1>1. SinkInv /\ LastsInv => LossIsMarked
    <2> SUFFICES ASSUME SinkInv, LastsInv PROVE LossIsMarked
        OBVIOUS
    <2>0. sink \in Seq(Entries) /\ whole \in Seq(Entries)
        BY DEF SinkInv, TypeOK
    <2>1. ASSUME Len(sink) < Len(whole) PROVE ElidedEntry \in {sink[i] : i \in DOMAIN sink}
        <3>1. Len(sink) = MaxOutputs /\ sink[Mid] = ElidedEntry
            BY <2>1, Zenon DEF LastsInv
        <3>2. Mid \in DOMAIN sink
            BY <2>0, <3>1, MidFacts
        <3> QED
            BY <3>1, <3>2, Zenon
    <2>2. ASSUME whole # <<>>, NEW t, NEW w, t = sink[Len(sink)].text, w = whole[Len(whole)].text, t # w
          PROVE  Marked(t) /\ First(MarkIn(t) - 1, t) = First(MarkIn(t) - 1, w)
        <3>1. sink # <<>> /\ CutAlike(t, w)
            BY <2>2, Zenon DEF LastsInv, Alike
        <3>2. t \in Seq(Nat) /\ w \in Seq(Nat)
            <4>1. sink[Len(sink)] \in Entries /\ whole[Len(whole)] \in Entries
                BY <2>0, <2>2, <3>1
            <4>2. \A e \in Entries : e.text \in Seq(Nat)
                BY DEF Entries, Text
            <4> QED
                BY <2>2, <4>1, <4>2, Zenon
        <3>3. PICK k \in Nat : k + 1 = MarkIn(t) /\ k <= Len(w) /\ Agree(t, 0, w, 0, k)
            BY <2>2, <3>1, Zenon DEF CutAlike
        <3>4. Marked(t)
            BY <2>2, <3>1, Zenon DEF CutAlike
        <3>5. MarkIn(t) - 1 = k /\ k <= Len(t) /\ 0 \in Nat
            BY <3>2, <3>3, <3>4, MarkFacts
        <3>6. PICK u, v : u = First(k, t) /\ v = First(k, w)
            OBVIOUS
        <3>7. u \in Seq(Nat) /\ Len(u) = k /\ Agree(u, 0, t, 0, k)
            BY <3>2, <3>5, <3>6, FirstFacts
        <3>8. v \in Seq(Nat) /\ Len(v) = k /\ Agree(v, 0, w, 0, k)
            BY <3>2, <3>3, <3>6, FirstFacts
        <3>9. Agree(u, 0, v, 0, k)
            <4>1. Agree(u, 0, w, 0, k)
                BY <3>3, <3>5, <3>7, AgreeTrans
            <4>2. Agree(w, 0, v, 0, k)
                BY <3>5, <3>8, AgreeSym
            <4> QED
                BY <3>5, <4>1, <4>2, AgreeTrans
        <3>10. u = v
            BY <3>7, <3>8, <3>9, AgreeEqual
        <3> QED
            BY <3>4, <3>5, <3>6, <3>10, Zenon
    <2> QED
        BY <2>1, <2>2, Zenon DEF LossIsMarked
<1> QED
    BY <1>1, SinkInvariant, LastsInvariant, PTL

\* The reply of a running execution ends with what was printed last.
THEOREM TheEndIsShown == Spec => []EndIsShown
<1>1. SinkInv /\ LastsInv => EndIsShown
    <2> SUFFICES ASSUME SinkInv, LastsInv, whole # <<>>,
                        NEW last, last = whole[Len(whole)].text,
                        NEW n, n = CHOOSE m \in {Half, MaxChars \div 2, Partial, Len(last)} :
                                       \A k \in {Half, MaxChars \div 2, Partial, Len(last)} : m <= k
                 PROVE  Last(n, Reply) = Last(n, last)
        BY Zenon DEF EndIsShown
    <2>0. sink \in Seq(Entries) /\ whole \in Seq(Entries) /\ sink # <<>>
        BY DEF SinkInv, TypeOK, LastsInv
    <2>1. last \in Seq(Nat)
        <3>1. whole[Len(whole)] \in Entries
            BY <2>0
        <3> QED
            BY <3>1 DEF Entries, Text
    <2>2. n \in Nat /\ n <= Half /\ n <= MaxChars \div 2 /\ n <= Partial /\ n <= Len(last)
        <3>1. PICK T : T = {Half, MaxChars \div 2, Partial, Len(last)}
            OBVIOUS
        <3>2. Half \in Nat /\ MaxChars \div 2 \in Nat /\ Partial \in Nat /\ Len(last) \in Nat
            BY <2>1, HalfFacts, SinkAssumption
        <3>3. T \subseteq Nat /\ T # {}
            BY <3>1, <3>2, Zenon
        <3>4. n = CHOOSE m \in T : \A k \in T : m <= k
            BY <3>1, Zenon
        <3>5. n \in T /\ \A k \in T : n <= k
            BY <3>3, <3>4, SmallestFacts
        <3> QED
            BY <3>1, <3>3, <3>5, Zenon
    <2>3. PICK t : t = sink[Len(sink)].text
        OBVIOUS
    <2>4. t \in Seq(Nat) /\ Joined(sink) \in Seq(Nat) /\ SameEnd(Joined(sink), t, Len(t))
        BY <2>0, <2>3, JoinedEnd
    <2>5. SameEnd(t, last, n)
        <3>1. EndsAlike(t, last)
            BY <2>3, Zenon DEF LastsInv, Alike
        <3> QED
            BY <2>2, <3>1, Zenon DEF EndsAlike
    <2>6. SameEnd(Joined(sink), last, n)
        <3>1. n <= Len(t) /\ Len(t) \in Nat
            BY <2>1, <2>2, <2>4, <2>5, SameEndLong
        <3>2. SameEnd(Joined(sink), t, n)
            BY <2>2, <2>4, <3>1, SameEndShort
        <3> QED
            BY <2>2, <2>4, <2>5, <3>2, SameEndTrans
    <2>7. PICK c : c = Capped(Joined(sink))
        OBVIOUS
    <2>8. c \in Seq(Nat) /\ SameEnd(c, Joined(sink), n)
        <3>1. n <= Len(Joined(sink))
            BY <2>1, <2>2, <2>4, <2>6, SameEndLong
        <3> QED
            BY <2>2, <2>4, <2>7, <3>1, CappedEnd
    <2>9. SameEnd(c, last, n)
        BY <2>2, <2>4, <2>6, <2>8, SameEndTrans
    <2>10. Reply \in Seq(Nat) /\ SameEnd(Reply, c, n)
        <3>1. n <= Len(c)
            BY <2>1, <2>2, <2>8, <2>9, SameEndLong
        <3>2. Partial \in Nat /\ Reply = Last(Partial, c)
            BY <2>7, SinkAssumption DEF Reply
        <3>3. Last(Partial, c) \in Seq(Nat) /\ SameEnd(Last(Partial, c), c, n)
            BY <2>2, <2>8, <3>1, <3>2, LastEnd
        <3> QED
            BY <3>2, <3>3, Zenon
    <2>11. SameEnd(Reply, last, n)
        BY <2>2, <2>8, <2>9, <2>10, SameEndTrans
    <2> QED
        BY <2>1, <2>2, <2>10, <2>11, LastSame
<1> QED
    BY <1>1, SinkInvariant, LastsInvariant, PTL

-----------------------------------------------------------------------------
(***************************************************************************)
(* Background jobs: what get_job reads of the output in pieces.            *)
(***************************************************************************)
Kinds == {"none", "lock", "kernel", "size", "window", "done"}
Statuses == {"absent", "running", "empty", "done", "error"}
Procs == {"none", "script", "exited", "recording", "over", "killed"}
Answers == {"none", "kernel_busy", "session_lost", "unknown", "running_in_background", "done", "error"}
Bytes == {"c", "h", "t"}
Glyphs == {"c", "w", "?"}
Runners == {Human, Launcher, Fore} \cup Reads

JobRecord == [proc : Procs, status : Statuses, written : 0..Len(Output)]
ReadRecord == [by : Clients \cup {Nobody}, at : Kinds, tail : BOOLEAN, off : Nat,
               st : Statuses, tot : Nat, start : Nat, nx : Nat]
ClientRecord == [pc : {"idle", "check", "oob", "read", "sleep"}, tail : BOOLEAN, expired : BOOLEAN,
                 last : Answers, more : BOOLEAN, from : Nat, held : Nat, text : Seq(Glyphs), cut : BOOLEAN]

JobTypes ==
    /\ cli \in BOOLEAN /\ alive \in BOOLEAN
    /\ inflight \in {Nobody, Launcher, Fore} /\ lock \in {Nobody, Launcher, Fore} \cup Reads
    /\ job \in JobRecord
    /\ launch \in {"idle", "lock", "kernel", "spawned", "given", "refused", "unheard"}
    /\ read \in [Reads -> ReadRecord]
    /\ client \in [Clients -> ClientRecord]

\* The launch is in the kernel's queue at most once.
Single(q) == q \in Seq(Runners) /\ \A i, j \in 1..Len(q) : q[i] = Launcher /\ q[j] = Launcher => i = j
Queued(q) == \E i \in 1..Len(q) : q[i] = Launcher

KernelInv ==
    /\ Single(queue) /\ (alive \/ queue = <<>>)
    /\ Queued(queue) => launch \in {"kernel", "unheard"} /\ job.proc = "none"
    /\ launch \in {"idle", "lock", "kernel", "refused"} => job.proc = "none"
    /\ launch \in {"spawned", "given"} => job.proc # "none"

Ended(st) == st \in {"done", "error"}
Past == {"over", "killed"}

\* The job's files are where they were.
Kept == ~ cli \/ alive

FilesInv ==
    /\ Ended(job.status) => job.proc = "over"
    /\ job.proc \notin {"none", "killed"} => Kept

\* What a read has seen is still so: the end of a job, which nothing follows,
\* and a size, which the file does not fall below.
ReadInv(x) ==
    /\ x.at = "none" => x.by = Nobody
    /\ x.at \in {"size", "window", "done"} /\ Ended(x.st) => job.proc \in Past
    /\ x.at \in {"window", "done"} =>
         /\ x.start <= x.tot
         /\ Kept => x.tot <= job.written
         /\ Ended(x.st) /\ job.proc = "over" => x.tot = job.written
    /\ x.at = "done" =>
         /\ x.start <= x.nx /\ x.nx <= Len(Output)
         /\ Kept => x.nx <= job.written

\* A read belongs to a caller that waits for it, and starts where that
\* caller's text ends.
AskedInv(x, c) ==
    x.by = c =>
      /\ client[c].pc = "read"
      /\ ~ x.tail => x.off = client[c].held /\ (x.at \in {"window", "done"} => x.start = client[c].held)

CallerInv(y) ==
    /\ y.from <= y.held /\ y.held <= Len(Output)
    /\ Kept => y.held <= job.written
    /\ Ended(y.last) => job.proc \in Past
    /\ Ended(y.last) /\ ~ y.more /\ job.proc = "over" => y.held = job.written
    /\ ~ y.cut => y.text = Decoded(SubSeq(Output, y.from + 1, y.held))

ReadsInv == \A r \in Reads : ReadInv(read[r])
OneRead == \A r, q \in Reads : read[r].by = read[q].by /\ read[r].by # Nobody => r = q
AllAsked == \A r \in Reads, c \in Clients : AskedInv(read[r], c)
CallersInv == \A c \in Clients : CallerInv(client[c])

JobInv == JobTypes /\ KernelInv /\ FilesInv /\ ReadsInv /\ OneRead /\ AllAsked /\ CallersInv

-----------------------------------------------------------------------------
(* The kernel's queue.                                                     *)

LEMMA SingleAppend ==
    ASSUME NEW q, Single(q), NEW x \in Runners, x # Launcher \/ ~ Queued(q)
    PROVE  Single(Append(q, x)) /\ (Queued(Append(q, x)) => Queued(q) \/ x = Launcher)
<1>1. PICK p : p = Append(q, x)
    OBVIOUS
<1>2. q \in Seq(Runners)
    BY DEF Single
<1>3. /\ p \in Seq(Runners) /\ Len(p) = Len(q) + 1 /\ Len(q) \in Nat
      /\ \A i \in 1..Len(q) : p[i] = q[i]
      /\ p[Len(q) + 1] = x
    BY <1>1, <1>2
<1>4. \A i \in 1..Len(p) : i = Len(q) + 1 \/ i \in 1..Len(q)
    BY <1>3
<1>5. Queued(p) => Queued(q) \/ x = Launcher
    BY <1>3, <1>4 DEF Queued
<1>6. \A i, j \in 1..Len(p) : p[i] = Launcher /\ p[j] = Launcher => i = j
    BY <1>3, <1>4 DEF Single, Queued
<1> QED
    BY <1>1, <1>3, <1>5, <1>6 DEF Single

LEMMA SingleTail ==
    ASSUME NEW q, Single(q), q # <<>>
    PROVE  /\ Single(Tail(q)) /\ (Queued(Tail(q)) => Queued(q))
           /\ Head(q) = Launcher => ~ Queued(Tail(q))
<1>1. PICK p : p = Tail(q)
    OBVIOUS
<1>2. q \in Seq(Runners)
    BY DEF Single
<1>3. /\ p \in Seq(Runners) /\ Len(q) = Len(p) + 1 /\ Len(p) \in Nat
      /\ \A i \in 1..Len(p) : p[i] = q[i + 1]
      /\ Head(q) = q[1]
    BY <1>1, <1>2
<1>4. \A i \in 1..Len(p) : i + 1 \in 1..Len(q) /\ i + 1 # 1 /\ 1 \in 1..Len(q)
    BY <1>3
<1>5. (Queued(p) => Queued(q)) /\ (Head(q) = Launcher => ~ Queued(p))
    BY <1>3, <1>4 DEF Queued, Single
<1>6. \A i, j \in 1..Len(p) : p[i] = Launcher /\ p[j] = Launcher => i = j
    BY <1>3, <1>4 DEF Single
<1> QED
    BY <1>1, <1>3, <1>5, <1>6 DEF Single

LEMMA SingleRemove ==
    ASSUME NEW q, Single(q), NEW n \in 1..Len(q)
    PROVE  Single(Ext!RemoveAt(q, n)) /\ (Queued(Ext!RemoveAt(q, n)) => Queued(q))
<1>0. q \in Seq(Runners) /\ Len(q) \in Nat /\ n \in Nat
    BY DEF Single
<1>1. PICK h, t : h = SubSeq(q, 1, n - 1) /\ t = SubSeq(q, n + 1, Len(q))
    OBVIOUS
<1>2. h \in Seq(Runners) /\ Len(h) = n - 1 /\ \A i \in 1..(n - 1) : h[i] = q[i]
    BY <1>0, <1>1
<1>3. t \in Seq(Runners) /\ Len(t) = Len(q) - n /\ \A i \in 1..(Len(q) - n) : t[i] = q[n + i]
    BY <1>0, <1>1
<1>4. PICK p : p = h \o t
    OBVIOUS
<1>5. /\ p \in Seq(Runners) /\ Len(p) = Len(q) - 1
      /\ \A i \in 1..Len(p) : p[i] = IF i <= Len(h) THEN h[i] ELSE t[i - Len(h)]
    BY <1>0, <1>2, <1>3, <1>4
<1>6. p = Ext!RemoveAt(q, n)
    BY <1>1, <1>4 DEF Ext!RemoveAt
<1>7. ASSUME NEW i \in 1..Len(p)
      PROVE  \E k \in 1..Len(q) : p[i] = q[k] /\ ((i < n /\ k = i) \/ (i >= n /\ k = i + 1))
    <2>1. CASE i < n
        <3>1. i \in 1..(n - 1) /\ i <= Len(h) /\ i \in 1..Len(q)
            BY <1>0, <1>2, <1>5, <2>1
        <3>2. p[i] = h[i] /\ h[i] = q[i]
            BY <1>2, <1>5, <3>1
        <3>3. p[i] = q[i] /\ i \in 1..Len(q)
            BY <3>1, <3>2
        <3> QED
            BY <2>1, <3>3, Zenon
    <2>2. CASE i >= n
        <3>1. /\ i - (n - 1) \in 1..(Len(q) - n) /\ ~ (i <= n - 1) /\ n + (i - (n - 1)) = i + 1
              /\ i + 1 \in 1..Len(q)
            BY <1>0, <1>5, <2>2
        <3>2. p[i] = t[i - (n - 1)]
            BY <1>2, <1>5, <3>1
        <3>3. t[i - (n - 1)] = q[n + (i - (n - 1))]
            BY <1>3, <3>1
        <3> QED
            BY <2>2, <3>1, <3>2, <3>3
    <2> QED
        BY <1>0, <1>5, <2>1, <2>2
<1>8. Queued(p) => Queued(q)
    BY <1>7 DEF Queued
<1>9. ASSUME NEW i \in 1..Len(p), NEW j \in 1..Len(p), p[i] = Launcher, p[j] = Launcher
      PROVE  i = j
    <2>1. \A k, l \in 1..Len(q) : q[k] = Launcher /\ q[l] = Launcher => k = l
        BY DEF Single
    <2>2. PICK k \in 1..Len(q) : p[i] = q[k] /\ ((i < n /\ k = i) \/ (i >= n /\ k = i + 1))
        BY <1>7
    <2>3. PICK l \in 1..Len(q) : p[j] = q[l] /\ ((j < n /\ l = j) \/ (j >= n /\ l = j + 1))
        BY <1>7
    <2>4. k = l
        BY <1>9, <2>1, <2>2, <2>3
    <2> QED
        BY <1>0, <1>5, <2>2, <2>3, <2>4
<1> QED
    BY <1>5, <1>6, <1>8, <1>9 DEF Single

-----------------------------------------------------------------------------
(* Steps that no read and no caller takes.                                 *)

\* Nothing that a read or a caller has seen of the files is undone.
LEMMA FilesMove ==
    ASSUME JobInv, job' \in JobRecord, read' = read, client' = client,
           Kept' => Kept /\ job.written <= job'.written,
           job.proc \in Past => /\ job'.proc \in Past
                                /\ job'.proc = "over" => job.proc = "over" /\ job'.written = job.written
    PROVE  ReadsInv' /\ OneRead' /\ AllAsked' /\ CallersInv'
<1>1. job.written \in Nat /\ job'.written \in Nat
    BY DEF JobInv, JobTypes, JobRecord
<1>2. ASSUME NEW r \in Reads
      PROVE  ReadInv(read[r])'
    <2>1. read[r] \in ReadRecord /\ ReadInv(read[r])
        BY DEF JobInv, JobTypes, ReadsInv
    <2>2. read[r].tot \in Nat /\ read[r].nx \in Nat
        BY <2>1 DEF ReadRecord
    <2> QED
        BY <1>1, <2>1, <2>2 DEF ReadInv, Past
<1>3. ASSUME NEW c \in Clients
      PROVE  CallerInv(client[c])'
    <2>1. client[c] \in ClientRecord /\ CallerInv(client[c])
        BY DEF JobInv, JobTypes, CallersInv
    <2>2. client[c].held \in Nat
        BY <2>1 DEF ClientRecord
    <2> QED
        BY <1>1, <2>1, <2>2 DEF CallerInv, Past
<1>4. OneRead' /\ AllAsked'
    BY DEF JobInv, OneRead, AllAsked, AskedInv
<1> QED
    BY <1>2, <1>3, <1>4 DEF ReadsInv, CallersInv

\* Only the kernel's queue, its lock and the guard's claim change.
LEMMA KernelMoves ==
    ASSUME JobInv, UNCHANGED <<cli, alive, job, read, client>>,
           inflight' \in {Nobody, Launcher, Fore}, lock' \in {Nobody, Launcher, Fore} \cup Reads,
           launch' \in {"idle", "lock", "kernel", "spawned", "given", "refused", "unheard"}, KernelInv'
    PROVE  JobInv'
<1>1. job \in JobRecord /\ job.written <= job.written
    BY DEF JobInv, JobTypes, JobRecord
<1>2. JobTypes' /\ FilesInv' /\ (Kept' <=> Kept)
    BY DEF JobInv, JobTypes, FilesInv, Kept
<1>3. ReadsInv' /\ OneRead' /\ AllAsked' /\ CallersInv'
    BY <1>1, <1>2, FilesMove
<1> QED
    BY <1>2, <1>3 DEF JobInv

\* Only the wrapper moves.
LEMMA WrapperMoves ==
    ASSUME JobInv, UNCHANGED <<cli, alive, inflight, lock, queue, launch, read, client>>, job' \in JobRecord,
           job.proc \in {"script", "exited", "recording"}, job'.proc # "none",
           job.written <= job'.written, Ended(job'.status) => job'.proc = "over"
    PROVE  JobInv'
<1>1. JobTypes' /\ (Kept' <=> Kept)
    BY DEF JobInv, JobTypes, Kept
<1>2. KernelInv'
    BY DEF JobInv, KernelInv, Single, Queued
<1>3. FilesInv'
    BY <1>1 DEF JobInv, FilesInv
<1>4. ReadsInv' /\ OneRead' /\ AllAsked' /\ CallersInv'
    BY <1>1, FilesMove DEF Past
<1> QED
    BY <1>1, <1>2, <1>3, <1>4 DEF JobInv

LEMMA EnvironmentSteps ==
    ASSUME JobInv, Environment
    PROVE  JobInv'
<1>0. /\ JobTypes /\ KernelInv /\ FilesInv /\ job \in JobRecord /\ queue \in Seq(Runners)
      /\ Human \in Runners /\ Fore \in Runners /\ Human # Launcher /\ Fore # Launcher
      /\ (Heads(Human) \/ Heads(Fore)) => queue # <<>> /\ Single(queue)
    BY JobAssumption DEF JobInv, JobTypes, KernelInv, Single, Runners, Heads
<1>a. PICK top : top = Len(Output)
    OBVIOUS
<1>b. top \in Nat /\ 0 \in 0..top
    BY <1>a, JobAssumption
<1>c. \A j : j \in JobRecord <=> j \in [proc : Procs, status : Statuses, written : 0..top]
    BY <1>a, Zenon DEF JobRecord
<1>d. /\ job.proc \in Procs /\ job.status \in Statuses /\ job.written \in 0..top
      /\ job = [proc |-> job.proc, status |-> job.status, written |-> job.written]
    BY <1>0, <1>c
<1>1. CASE HumanRuns
    <2>1. queue' = Append(queue, Human) /\ UNCHANGED <<cli, alive, inflight, lock, job, launch, read, client>> /\ alive
        BY <1>1 DEF HumanRuns
    <2>2. Single(queue') /\ (Queued(queue') => Queued(queue))
        BY <1>0, <2>1, SingleAppend DEF KernelInv
    <2>3. KernelInv'
        BY <1>0, <2>1, <2>2 DEF KernelInv, Single, Queued
    <2> QED
        BY <1>0, <2>1, <2>3, KernelMoves DEF JobTypes
<1>2. CASE HumanEnds
    <2>1. queue' = Tail(queue) /\ UNCHANGED <<cli, alive, inflight, lock, job, launch, read, client>> /\ queue # <<>>
        BY <1>2 DEF HumanEnds, Heads
    <2>2. Single(queue') /\ (Queued(queue') => Queued(queue))
        BY <1>0, <2>1, SingleTail DEF KernelInv
    <2>3. KernelInv'
        BY <1>0, <2>1, <2>2 DEF KernelInv, Single, Queued
    <2> QED
        BY <1>0, <2>1, <2>3, KernelMoves DEF JobTypes
<1>3. CASE ForeClaims
    <2>1. inflight' = Fore /\ UNCHANGED <<cli, alive, lock, queue, job, launch, read, client>>
        BY <1>3 DEF ForeClaims
    <2>2. KernelInv'
        BY <1>0, <2>1 DEF KernelInv, Single, Queued
    <2> QED
        BY <1>0, <2>1, <2>2, KernelMoves DEF JobTypes
<1>4. CASE ForeLocks
    <2>1. /\ queue' = Append(queue, Fore) /\ lock' = Fore
          /\ UNCHANGED <<cli, alive, inflight, job, launch, read, client>> /\ alive
        BY <1>4 DEF ForeLocks
    <2>2. Single(queue') /\ (Queued(queue') => Queued(queue))
        BY <1>0, <2>1, SingleAppend DEF KernelInv
    <2>3. KernelInv'
        BY <1>0, <2>1, <2>2 DEF KernelInv, Single, Queued
    <2> QED
        BY <1>0, <2>1, <2>3, KernelMoves DEF JobTypes
<1>5. CASE ForeEnds
    <2>1. /\ inflight' = Nobody /\ lock' \in {Nobody, lock} /\ UNCHANGED <<cli, alive, job, launch, read, client>>
          /\ (queue # <<>> /\ queue' = Tail(queue)) \/ queue' = queue
        BY <1>5 DEF ForeEnds, Heads
    <2>2. Single(queue') /\ (Queued(queue') => Queued(queue)) /\ (queue = <<>> => queue' = <<>>)
        BY <1>0, <2>1, SingleTail DEF KernelInv
    <2>3. KernelInv'
        BY <1>0, <2>1, <2>2 DEF KernelInv, Single, Queued
    <2> QED
        BY <1>0, <2>1, <2>3, KernelMoves DEF JobTypes
<1>6. CASE KernelDies
    <2>1. /\ alive /\ alive' = FALSE /\ queue' = <<>> /\ UNCHANGED <<cli, inflight, lock, launch, read, client>>
          /\ job' = IF ~ cli THEN job
                    ELSE [job EXCEPT !.proc = IF @ = "none" THEN @ ELSE "killed", !.status = "absent", !.written = 0]
        BY <1>6 DEF KernelDies
    <2>2. /\ job' \in JobRecord /\ (job'.proc = "none" <=> job.proc = "none")
          /\ cli => job'.proc \in {"none", "killed"} /\ job'.status = "absent"
          /\ ~ cli => job' = job
        <3>1. CASE cli
            <4>1. job' = [proc |-> IF job.proc = "none" THEN "none" ELSE "killed",
                          status |-> "absent", written |-> 0]
                BY <1>d, <2>1, <3>1
            <4> QED
                BY <1>b, <1>c, <3>1, <4>1 DEF Procs, Statuses
        <3>2. CASE ~ cli
            BY <1>0, <2>1, <3>2
        <3> QED
            BY <3>1, <3>2
    <2>3. JobTypes' /\ (Kept' <=> ~ cli) /\ Kept
        BY <1>0, <2>1, <2>2 DEF JobTypes, Kept
    <2>4. KernelInv'
        BY <1>0, <2>1, <2>2 DEF KernelInv, Single, Queued
    <2>5. FilesInv'
        BY <1>0, <2>2, <2>3 DEF FilesInv, Ended, JobTypes
    <2>6. job.written \in Nat
        BY <1>0 DEF JobRecord
    <2>7. ReadsInv' /\ OneRead' /\ AllAsked' /\ CallersInv'
        <3>1. Kept' => Kept /\ job.written <= job'.written
            BY <2>2, <2>3, <2>6
        <3>2. job.proc \in Past => /\ job'.proc \in Past
                                   /\ job'.proc = "over" => job.proc = "over" /\ job'.written = job.written
            BY <1>0, <2>1, <2>2 DEF Past, JobTypes
        <3> QED
            BY <2>1, <2>2, <3>1, <3>2, FilesMove
    <2> QED
        BY <2>3, <2>4, <2>5, <2>7 DEF JobInv
<1>7. CASE ScriptPrints \/ ScriptEnds \/ Truncates \/ Records \/ WrapperKilled
    <2>1. UNCHANGED <<cli, alive, inflight, lock, queue, launch, read, client>>
        BY <1>7 DEF ScriptPrints, ScriptEnds, Truncates, Records, WrapperKilled, JobStep, kernelVars
    <2>2. /\ job.proc \in {"script", "exited", "recording"} /\ job'.proc # "none"
          /\ job'.proc \in Procs /\ job'.status \in Statuses
          /\ job' = [proc |-> job'.proc, status |-> job'.status, written |-> job'.written]
          /\ job'.written = job.written \/ (job.written < top /\ job'.written = job.written + 1)
        <3>1. CASE ScriptPrints
            BY <1>a, <1>d, <3>1 DEF ScriptPrints, JobStep, Procs, Statuses
        <3>2. CASE ScriptEnds
            BY <1>d, <3>2 DEF ScriptEnds, JobStep, Procs, Statuses
        <3>3. CASE Truncates
            BY <1>d, <3>3 DEF Truncates, JobStep, Procs, Statuses
        <3>4. CASE Records
            BY <1>d, <3>4 DEF Records, JobStep, Procs, Statuses
        <3>5. CASE WrapperKilled
            BY <1>d, <3>5 DEF WrapperKilled, JobStep, Procs, Statuses
        <3> QED
            BY <1>7, <3>1, <3>2, <3>3, <3>4, <3>5
    <2>3. job' \in JobRecord /\ job.written <= job'.written
        BY <1>b, <1>c, <1>d, <2>2
    <2>4. Ended(job'.status) => job'.proc = "over"
        BY <1>0, <1>7 DEF ScriptPrints, ScriptEnds, Truncates, Records, WrapperKilled, JobStep, JobRecord, Ended, FilesInv
    <2> QED
        BY <2>1, <2>2, <2>3, <2>4, WrapperMoves
<1> QED
    BY <1>1, <1>2, <1>3, <1>4, <1>5, <1>6, <1>7 DEF Environment

LEMMA LaunchSteps ==
    ASSUME JobInv, Launch
    PROVE  JobInv'
<1>0. /\ JobTypes /\ KernelInv /\ FilesInv /\ job \in JobRecord /\ queue \in Seq(Runners) /\ Single(queue)
      /\ Launcher \in Runners
    BY DEF JobInv, JobTypes, KernelInv, Single, Runners
<1>a. ASSUME Heads(Launcher)
      PROVE  queue # <<>> /\ Head(queue) = Launcher /\ Queued(queue) /\ alive /\ job.proc = "none"
    <2>1. queue # <<>> /\ Head(queue) = Launcher
        BY <1>a DEF Heads
    <2>2. 1 \in 1..Len(queue) /\ queue[1] = Launcher
        BY <1>0, <2>1
    <2>3. Queued(queue)
        BY <2>2 DEF Queued
    <2> QED
        BY <1>0, <2>1, <2>3 DEF KernelInv
<1>b. ~ Queued(<<>>)
    BY DEF Queued
<1>c. /\ job.proc \in Procs /\ job.status \in Statuses /\ job.written \in 0..Len(Output)
      /\ job = [proc |-> job.proc, status |-> job.status, written |-> job.written]
    BY <1>0 DEF JobRecord
<1>1. CASE LaunchCall
    <2>1. /\ launch = "idle" /\ launch' = "lock" /\ inflight' = Launcher
          /\ UNCHANGED <<cli, alive, lock, queue, job, read, client>>
        BY <1>1 DEF LaunchCall
    <2>2. KernelInv'
        BY <1>0, <2>1 DEF KernelInv, Single, Queued
    <2> QED
        BY <1>0, <2>1, <2>2, KernelMoves DEF JobTypes
<1>2. CASE LaunchLocks
    <2>1. /\ launch = "lock" /\ launch' = "kernel" /\ lock' = Launcher /\ queue' = Append(queue, Launcher) /\ alive
          /\ UNCHANGED <<cli, alive, inflight, job, read, client>>
        BY <1>2 DEF LaunchLocks
    <2>2. ~ Queued(queue) /\ job.proc = "none"
        BY <1>0, <2>1 DEF KernelInv
    <2>3. Single(queue')
        BY <1>0, <2>1, <2>2, SingleAppend
    <2>4. KernelInv'
        BY <1>0, <2>1, <2>2, <2>3 DEF KernelInv
    <2> QED
        BY <1>0, <2>1, <2>4, KernelMoves DEF JobTypes
<1>3. CASE WritesRunning
    <2>1. /\ Heads(Launcher) /\ job' = [job EXCEPT !.status = "running"]
          /\ UNCHANGED <<cli, alive, inflight, lock, queue, launch, read, client>>
        BY <1>3 DEF WritesRunning, kernelVars
    <2>2. /\ job' \in JobRecord /\ job'.proc = job.proc /\ job.proc = "none" /\ job'.status = "running"
          /\ job'.written = job.written /\ job.written <= job'.written
        BY <1>a, <1>c, <2>1 DEF JobRecord, Statuses
    <2>3. JobTypes' /\ KernelInv' /\ FilesInv' /\ (Kept' <=> Kept)
        BY <1>0, <2>1, <2>2 DEF JobTypes, KernelInv, Single, Queued, FilesInv, Ended, Kept
    <2>4. ReadsInv' /\ OneRead' /\ AllAsked' /\ CallersInv'
        BY <2>1, <2>2, <2>3, FilesMove DEF Past
    <2> QED
        BY <2>3, <2>4 DEF JobInv
<1>4. CASE Spawns
    <2>1. /\ Heads(Launcher) /\ job' = [job EXCEPT !.proc = "script"] /\ queue' = Tail(queue) /\ job.status = "running"
          /\ launch' = IF launch = "kernel" THEN "spawned" ELSE launch
          /\ UNCHANGED <<cli, alive, inflight, lock, read, client>>
        BY <1>4 DEF Spawns
    <2>2. /\ job' \in JobRecord /\ job'.proc = "script" /\ job.proc = "none" /\ job'.status = "running"
          /\ job'.written = job.written /\ job.written <= job'.written /\ alive
        BY <1>a, <1>c, <2>1 DEF JobRecord, Procs
    <2>3. launch \in {"kernel", "unheard"} /\ launch' \in {"spawned", "unheard"}
        BY <1>0, <1>a, <2>1 DEF KernelInv
    <2>4. Single(queue') /\ ~ Queued(queue')
        BY <1>0, <1>a, <2>1, SingleTail
    <2>5. JobTypes' /\ KernelInv' /\ FilesInv' /\ (Kept' <=> Kept)
        BY <1>0, <2>1, <2>2, <2>3, <2>4 DEF JobTypes, KernelInv, FilesInv, Ended, Kept
    <2>6. ReadsInv' /\ OneRead' /\ AllAsked' /\ CallersInv'
        BY <2>1, <2>2, <2>5, FilesMove DEF Past
    <2> QED
        BY <2>5, <2>6 DEF JobInv
<1>5. CASE LaunchReplies
    <2>1. /\ launch = "spawned" /\ launch' = "given" /\ inflight' = Nobody /\ lock' \in {Nobody, lock}
          /\ UNCHANGED <<cli, alive, queue, job, read, client>>
        BY <1>5 DEF LaunchReplies, EndLaunch
    <2>2. KernelInv'
        BY <1>0, <2>1 DEF KernelInv, Single, Queued
    <2> QED
        BY <1>0, <2>1, <2>2, KernelMoves DEF JobTypes
<1>6. CASE LaunchFails
    <2>1. /\ launch \in {"lock", "kernel"} /\ launch' = "refused" /\ inflight' = Nobody /\ lock' \in {Nobody, lock}
          /\ UNCHANGED <<cli, alive, job, read, client>>
          /\ \/ queue' = queue /\ (launch = "lock" \/ ~ alive)
             \/ Heads(Launcher) /\ queue' = Tail(queue)
        BY <1>6 DEF LaunchFails, LaunchStops, EndLaunch
    <2>2. Single(queue') /\ ~ Queued(queue') /\ (alive \/ queue' = <<>>)
        BY <1>0, <1>a, <1>b, <2>1, SingleTail DEF KernelInv
    <2>3. KernelInv'
        BY <1>0, <2>1, <2>2 DEF KernelInv
    <2> QED
        BY <1>0, <2>1, <2>3, KernelMoves DEF JobTypes
<1>7. CASE LaunchUnheard
    <2>1. /\ launch \in {"spawned", "kernel"} /\ launch' = "unheard" /\ inflight' = Nobody /\ lock' \in {Nobody, lock}
          /\ UNCHANGED <<cli, alive, queue, job, read, client>>
        BY <1>7 DEF LaunchUnheard, EndLaunch
    <2>2. KernelInv'
        BY <1>0, <2>1 DEF KernelInv, Single, Queued
    <2> QED
        BY <1>0, <2>1, <2>2, KernelMoves DEF JobTypes
<1> QED
    BY <1>1, <1>2, <1>3, <1>4, <1>5, <1>6, <1>7 DEF Launch

-----------------------------------------------------------------------------
(* Steps of a read and of a caller: the files stay as they are.            *)

LEMMA QueueMoves ==
    ASSUME JobInv, UNCHANGED <<alive, job, launch>>, Single(queue'), Queued(queue') => Queued(queue),
           alive \/ queue' = <<>>
    PROVE  KernelInv'
BY DEF JobInv, KernelInv

LEMMA ReadMoves ==
    ASSUME JobInv, UNCHANGED <<cli, alive, inflight, job, launch, client>>,
           lock' \in {Nobody, Launcher, Fore} \cup Reads, KernelInv',
           NEW r \in Reads, NEW x \in ReadRecord, read' = [read EXCEPT ![r] = x],
           ReadInv(x), x.by \in {Nobody, read[r].by}, \A c \in Clients : AskedInv(x, c)
    PROVE  JobInv'
<1>1. /\ JobTypes /\ FilesInv /\ ReadsInv /\ OneRead /\ AllAsked /\ CallersInv /\ read \in [Reads -> ReadRecord]
      /\ (Kept' <=> Kept)
    BY DEF JobInv, JobTypes, Kept
<1>2. read' \in [Reads -> ReadRecord] /\ \A q \in Reads : read'[q] = IF q = r THEN x ELSE read[q]
    BY <1>1
<1>3. JobTypes' /\ FilesInv' /\ CallersInv'
    BY <1>1, <1>2 DEF JobTypes, FilesInv, CallersInv, CallerInv
<1>4. ASSUME NEW q \in Reads
      PROVE  ReadInv(read[q])'
    BY <1>1, <1>2 DEF ReadsInv, ReadInv
<1>5. OneRead'
    BY <1>1, <1>2 DEF OneRead
<1>6. ASSUME NEW q \in Reads, NEW c \in Clients
      PROVE  AskedInv(read[q], c)'
    BY <1>1, <1>2 DEF AllAsked, AskedInv
<1> QED
    BY <1>3, <1>4, <1>5, <1>6 DEF JobInv, ReadsInv, AllAsked

LEMMA CallerMoves ==
    ASSUME JobInv, UNCHANGED <<cli, alive, inflight, lock, queue, job, launch, read>>,
           NEW c \in Clients, NEW y \in ClientRecord, client' = [client EXCEPT ![c] = y],
           CallerInv(y), client[c].pc = "read" => y.pc = "read" /\ y.held = client[c].held
    PROVE  JobInv'
<1>1. /\ JobTypes /\ KernelInv /\ FilesInv /\ ReadsInv /\ OneRead /\ AllAsked /\ CallersInv
      /\ client \in [Clients -> ClientRecord] /\ (Kept' <=> Kept)
    BY DEF JobInv, JobTypes, Kept
<1>2. client' \in [Clients -> ClientRecord] /\ \A d \in Clients : client'[d] = IF d = c THEN y ELSE client[d]
    BY <1>1
<1>3. JobTypes' /\ FilesInv' /\ KernelInv'
    BY <1>1, <1>2 DEF JobTypes, FilesInv, KernelInv, Single, Queued
<1>4. ReadsInv' /\ OneRead'
    BY <1>1 DEF ReadsInv, ReadInv, OneRead
<1>5. ASSUME NEW d \in Clients
      PROVE  CallerInv(client[d])'
    BY <1>1, <1>2 DEF CallersInv, CallerInv
<1>6. ASSUME NEW q \in Reads, NEW d \in Clients
      PROVE  AskedInv(read[q], d)'
    BY <1>1, <1>2 DEF AllAsked, AskedInv
<1> QED
    BY <1>3, <1>4, <1>5, <1>6 DEF JobInv, CallersInv, AllAsked

\* A read and the one caller that it belongs to, before or after, move together.
LEMMA BothMove ==
    ASSUME JobInv, UNCHANGED <<cli, alive, inflight, job, launch>>,
           lock' \in {Nobody, Launcher, Fore} \cup Reads, KernelInv',
           NEW r \in Reads, NEW x \in ReadRecord, read' = [read EXCEPT ![r] = x], ReadInv(x),
           NEW c \in Clients, NEW y \in ClientRecord, client' = [client EXCEPT ![c] = y], CallerInv(y),
           read[r].by \in {Nobody, c}, x.by \in {Nobody, c}, read[r].by = c \/ client[c].pc # "read",
           x.by = c => /\ y.pc = "read"
                       /\ ~ x.tail => x.off = y.held
                       /\ x.at \notin {"window", "done"}
    PROVE  JobInv'
<1>1. /\ JobTypes /\ FilesInv /\ ReadsInv /\ OneRead /\ AllAsked /\ CallersInv /\ (Kept' <=> Kept)
      /\ read \in [Reads -> ReadRecord] /\ client \in [Clients -> ClientRecord]
    BY DEF JobInv, JobTypes, Kept
<1>2. /\ read' \in [Reads -> ReadRecord] /\ \A q \in Reads : read'[q] = IF q = r THEN x ELSE read[q]
      /\ client' \in [Clients -> ClientRecord] /\ \A d \in Clients : client'[d] = IF d = c THEN y ELSE client[d]
    BY <1>1
<1>3. JobTypes' /\ FilesInv'
    BY <1>1, <1>2 DEF JobTypes, FilesInv
<1>4. ASSUME NEW q \in Reads
      PROVE  ReadInv(read[q])'
    BY <1>1, <1>2 DEF ReadsInv, ReadInv
<1>5. ASSUME NEW d \in Clients
      PROVE  CallerInv(client[d])'
    BY <1>1, <1>2 DEF CallersInv, CallerInv
<1>6. ASSUME NEW q \in Reads, q # r
      PROVE  read[q].by # c
    <2>1. AskedInv(read[q], c)
        BY <1>1 DEF AllAsked
    <2>2. c # Nobody
        BY JobAssumption
    <2> QED
        BY <1>1, <1>6, <2>1, <2>2 DEF OneRead, AskedInv
<1>7. OneRead'
    BY <1>1, <1>2, <1>6 DEF OneRead
<1>8. ASSUME NEW q \in Reads, NEW d \in Clients
      PROVE  AskedInv(read[q], d)'
    <2>1. AskedInv(read[q], d) /\ d # Nobody
        BY <1>1, JobAssumption DEF AllAsked
    <2>2. CASE q = r
        BY <1>2, <2>1, <2>2 DEF AskedInv
    <2>3. CASE q # r
        BY <1>2, <1>6, <2>1, <2>3 DEF AskedInv
    <2> QED
        BY <2>2, <2>3
<1> QED
    BY <1>3, <1>4, <1>5, <1>7, <1>8 DEF JobInv, ReadsInv, CallersInv, AllAsked

LEMMA FreshRead ==
    ASSUME NEW a \in Kinds
    PROVE  [by |-> Nobody, at |-> a, tail |-> TRUE, off |-> 0, st |-> "absent", tot |-> 0, start |-> 0, nx |-> 0]
             \in ReadRecord
<1>1. "absent" \in Statuses
    BY DEF Statuses
<1>2. ASSUME NEW b \in BOOLEAN
      PROVE  [by |-> Nobody, at |-> a, tail |-> b, off |-> 0, st |-> "absent", tot |-> 0, start |-> 0, nx |-> 0]
               \in ReadRecord
    BY <1>1 DEF ReadRecord
<1> QED
    BY <1>2

\* A coroutine that nobody waits for knows nothing of the job.
LEMMA ForgottenRead ==
    ASSUME JobInv, NEW a \in Kinds \ {"done"}, NEW x, x = [NoRead EXCEPT !.at = a]
    PROVE  x \in ReadRecord /\ ReadInv(x) /\ x.by = Nobody
<1>1. x = [by |-> Nobody, at |-> a, tail |-> TRUE, off |-> 0, st |-> "absent", tot |-> 0, start |-> 0, nx |-> 0]
    BY DEF NoRead
<1>2. job.written \in Nat
    BY DEF JobInv, JobTypes, JobRecord
<1>3. x \in ReadRecord
    BY <1>1, FreshRead
<1>4. x.by = Nobody /\ x.at # "done" /\ x.st = "absent" /\ x.tot = 0 /\ x.start = 0
    BY <1>1
<1>5. ReadInv(x)
    BY <1>2, <1>4 DEF ReadInv, Ended
<1> QED
    BY <1>3, <1>4, <1>5

\* An answer without a window changes nothing that its caller holds.
LEMMA PlainAnswer ==
    ASSUME JobInv, NEW c \in Clients, NEW answer \in Answers \ {"done", "error"}, NEW y,
           y = [client[c] EXCEPT !.pc = "idle", !.tail = TRUE, !.expired = FALSE, !.last = answer]
    PROVE  /\ y \in ClientRecord /\ CallerInv(y)
           /\ Answered(c, answer) => client' = [client EXCEPT ![c] = y]
<1>1. client \in [Clients -> ClientRecord] /\ client[c] \in ClientRecord /\ CallerInv(client[c])
    BY DEF JobInv, JobTypes, CallersInv
<1>2. y \in ClientRecord
    BY <1>1 DEF ClientRecord, Answers
<1>3. /\ y.last = answer /\ ~ Ended(answer)
      /\ y.from = client[c].from /\ y.held = client[c].held /\ y.text = client[c].text /\ y.cut = client[c].cut
    BY <1>1 DEF ClientRecord, Ended
<1>4. CallerInv(y)
    BY <1>1, <1>3 DEF CallerInv
<1>5. Answered(c, answer) => client' = [client EXCEPT ![c] = y]
    BY <1>1 DEF Answered
<1> QED
    BY <1>2, <1>4, <1>5

LEMMA ReadEnds ==
    ASSUME JobInv, NEW r \in Reads, NEW answer \in Answers \ {"done", "error"},
           EndRead(r, answer), KernelInv'
    PROVE  JobInv'
<1>1. /\ read' = [read EXCEPT ![r] = NoRead] /\ UNCHANGED <<cli, alive, inflight, job, launch>>
      /\ lock' \in {Nobody, lock}
      /\ IF read[r].by = Nobody THEN UNCHANGED client ELSE Answered(read[r].by, answer)
    BY DEF EndRead
<1>2. lock' \in {Nobody, Launcher, Fore} \cup Reads /\ read[r] \in ReadRecord
    BY <1>1 DEF JobInv, JobTypes
<1>3. PICK x : x = [NoRead EXCEPT !.at = "none"]
    OBVIOUS
<1>4. x \in ReadRecord /\ ReadInv(x) /\ x.by = Nobody
    BY <1>3, ForgottenRead DEF Kinds
<1>5. x = NoRead
    BY <1>3 DEF NoRead
<1>6. CASE read[r].by = Nobody
    <2>1. \A c \in Clients : AskedInv(x, c)
        BY <1>4, JobAssumption DEF AskedInv
    <2> QED
        BY <1>1, <1>2, <1>4, <1>5, <1>6, <2>1, ReadMoves
<1>7. CASE read[r].by # Nobody
    <2>1. PICK c \in Clients : c = read[r].by
        BY <1>2, <1>7 DEF ReadRecord
    <2>2. PICK y : y = [client[c] EXCEPT !.pc = "idle", !.tail = TRUE, !.expired = FALSE, !.last = answer]
        OBVIOUS
    <2>3. y \in ClientRecord /\ CallerInv(y) /\ client' = [client EXCEPT ![c] = y]
        BY <1>1, <1>7, <2>1, <2>2, PlainAnswer
    <2>4. c # Nobody
        BY JobAssumption
    <2> QED
        BY <1>1, <1>2, <1>4, <1>5, <2>1, <2>3, <2>4, BothMove
<1> QED
    BY <1>6, <1>7

\* What runs at the head of the kernel's queue runs on a kernel that exists.
LEMMA ReadHeads ==
    ASSUME JobInv, NEW r \in Reads, Heads(r)
    PROVE  /\ queue # <<>> /\ alive /\ Kept
           /\ Single(Tail(queue)) /\ (Queued(Tail(queue)) => Queued(queue))
BY SingleTail DEF JobInv, KernelInv, Heads, Kept

LEMMA ReadSteps ==
    ASSUME JobInv, NEW r \in Reads,
           \/ TakeLock(r) \/ LockExpires(r) \/ ReadLost(r) \/ ReadBroken(r)
           \/ ReadStatus(r) \/ ReadSize(r) \/ ReadWindow(r)
    PROVE  JobInv'
<1>0. /\ JobTypes /\ KernelInv /\ FilesInv /\ Single(queue) /\ (alive \/ queue = <<>>) /\ job.written \in Nat
      /\ job.written <= Len(Output) /\ Len(Output) \in Nat /\ r \in Runners /\ r # Launcher
      /\ read[r] \in ReadRecord /\ ReadInv(read[r]) /\ \A c \in Clients : AskedInv(read[r], c)
      /\ read \in [Reads -> ReadRecord]
    BY JobAssumption DEF JobInv, JobTypes, JobRecord, KernelInv, Runners, ReadsInv, AllAsked
<1>a. /\ read[r] = [by |-> read[r].by, at |-> read[r].at, tail |-> read[r].tail, off |-> read[r].off,
                    st |-> read[r].st, tot |-> read[r].tot, start |-> read[r].start, nx |-> read[r].nx]
      /\ read[r].by \in Clients \cup {Nobody} /\ read[r].tail \in BOOLEAN /\ read[r].off \in Nat
      /\ read[r].st \in Statuses /\ read[r].tot \in Nat /\ read[r].start \in Nat /\ read[r].nx \in Nat
    BY <1>0 DEF ReadRecord
<1>1. CASE TakeLock(r)
    <2>1. PICK x : x = [read[r] EXCEPT !.at = "kernel"]
        OBVIOUS
    <2>2. /\ read' = [read EXCEPT ![r] = x] /\ lock' = r /\ queue' = Append(queue, r) /\ alive
          /\ UNCHANGED <<cli, alive, inflight, job, launch, client>>
        BY <1>0, <1>1, <2>1 DEF TakeLock
    <2>3. x \in ReadRecord /\ x.by = read[r].by /\ x.at = "kernel" /\ x.tail = read[r].tail /\ x.off = read[r].off
        BY <1>a, <2>1 DEF ReadRecord, Kinds
    <2>4. ReadInv(x) /\ \A c \in Clients : AskedInv(x, c)
        BY <1>0, <2>3 DEF ReadInv, AskedInv
    <2>5. KernelInv'
        BY <1>0, <2>2, SingleAppend, QueueMoves
    <2> QED
        BY <1>0, <2>2, <2>3, <2>4, <2>5, ReadMoves
<1>2. CASE LockExpires(r) \/ ReadLost(r)
    <2>1. queue' = queue /\ UNCHANGED <<alive, job, launch>>
        BY <1>2 DEF LockExpires, ReadLost, LossAnswers, EndRead
    <2>2. KernelInv'
        BY <1>0, <2>1, QueueMoves
    <2>3. \E answer \in Answers \ {"done", "error"} : EndRead(r, answer)
        BY <1>2 DEF LockExpires, ReadLost, LossAnswers, Answers
    <2> QED
        BY <2>2, <2>3, ReadEnds
<1>3. CASE ReadBroken(r)
    <2>1. PICK i \in DOMAIN queue : queue' = Ext!RemoveAt(queue, i)
        BY <1>3 DEF ReadBroken
    <2>2. i \in 1..Len(queue) /\ EndRead(r, "unknown") /\ alive /\ UNCHANGED <<alive, job, launch>>
        BY <1>0, <1>3 DEF ReadBroken, EndRead, Single
    <2>3. KernelInv'
        BY <1>0, <2>1, <2>2, SingleRemove, QueueMoves
    <2>4. "unknown" \in Answers \ {"done", "error"}
        BY DEF Answers
    <2> QED
        BY <2>2, <2>3, <2>4, ReadEnds
<1>4. CASE ReadStatus(r)
    <2>1. PICK x : x = [read[r] EXCEPT !.at = "size", !.st = job.status]
        OBVIOUS
    <2>2. read' = [read EXCEPT ![r] = x] /\ UNCHANGED <<cli, alive, inflight, lock, queue, job, launch, client>>
        BY <1>0, <1>4, <2>1 DEF ReadStatus, kernelVars
    <2>3. /\ x \in ReadRecord /\ x.by = read[r].by /\ x.at = "size" /\ x.tail = read[r].tail /\ x.off = read[r].off
          /\ x.st = job.status
        BY <1>0, <1>a, <2>1 DEF ReadRecord, Kinds, JobTypes, JobRecord
    <2>4. ReadInv(x) /\ \A c \in Clients : AskedInv(x, c)
        BY <1>0, <2>3 DEF ReadInv, AskedInv, FilesInv, Past
    <2>5. KernelInv'
        BY <1>0, <2>2, QueueMoves
    <2> QED
        BY <1>0, <2>2, <2>3, <2>4, <2>5, ReadMoves DEF JobTypes
<1>5. CASE ReadSize(r)
    <2>1. PICK first : first = IF read[r].tail THEN job.written - Least(Window, job.written)
                                               ELSE Least(read[r].off, job.written)
        OBVIOUS
    <2>2. first \in Nat /\ first <= job.written /\ (~ read[r].tail /\ read[r].off <= job.written => first = read[r].off)
        BY <1>0, <1>a, <2>1, JobAssumption DEF Least
    <2>3. PICK x : x = [read[r] EXCEPT !.at = "window", !.tot = job.written, !.start = first]
        OBVIOUS
    <2>4. /\ read' = [read EXCEPT ![r] = x] /\ UNCHANGED <<cli, alive, inflight, lock, queue, job, launch, client>>
          /\ Heads(r) /\ read[r].at = "size"
        BY <1>0, <1>5, <2>1, <2>3 DEF ReadSize, kernelVars
    <2>5. /\ x \in ReadRecord /\ x.by = read[r].by /\ x.at = "window" /\ x.tail = read[r].tail /\ x.off = read[r].off
          /\ x.st = read[r].st /\ x.tot = job.written /\ x.start = first
        BY <1>0, <1>a, <2>2, <2>3 DEF ReadRecord, Kinds
    <2>6. ReadInv(x)
        BY <1>0, <2>2, <2>4, <2>5 DEF ReadInv
    <2>7. ASSUME NEW c \in Clients
          PROVE  AskedInv(x, c)
        <3>1. Kept
            BY <2>4, ReadHeads
        <3>2. client[c].held <= job.written
            BY <3>1 DEF JobInv, CallersInv, CallerInv
        <3>3. AskedInv(read[r], c)
            BY <1>0
        <3> QED
            BY <2>2, <2>5, <3>2, <3>3 DEF AskedInv
    <2>8. KernelInv'
        BY <1>0, <2>4, QueueMoves
    <2> QED
        BY <1>0, <2>4, <2>5, <2>6, <2>7, <2>8, ReadMoves DEF JobTypes
<1>6. CASE ReadWindow(r)
    <2>1. PICK next : next = IF read[r].start < read[r].tot THEN Least(read[r].start + Window, job.written)
                                                            ELSE read[r].start
        OBVIOUS
    <2>2. Heads(r) /\ read[r].at = "window" /\ Kept
        BY <1>6, ReadHeads DEF ReadWindow, WindowRead
    <2>3. read[r].start <= read[r].tot /\ read[r].tot <= job.written
        BY <1>0, <2>2 DEF ReadInv
    <2>4. next \in Nat /\ read[r].start <= next /\ next <= job.written
        BY <1>0, <1>a, <2>1, <2>3, JobAssumption DEF Least
    <2>5. PICK x : x = [read[r] EXCEPT !.at = "done", !.st = read[r].st, !.nx = next]
        OBVIOUS
    <2>6. /\ read' = [read EXCEPT ![r] = x] /\ queue' = Tail(queue)
          /\ UNCHANGED <<cli, alive, inflight, lock, job, launch, client>>
        BY <1>0, <1>6, <2>1, <2>5 DEF ReadWindow, WindowRead
    <2>7. /\ x \in ReadRecord /\ x.by = read[r].by /\ x.at = "done" /\ x.tail = read[r].tail /\ x.off = read[r].off
          /\ x.st = read[r].st /\ x.tot = read[r].tot /\ x.start = read[r].start /\ x.nx = next
        BY <1>0, <1>a, <2>4, <2>5 DEF ReadRecord, Kinds
    <2>8. ReadInv(x) /\ \A c \in Clients : AskedInv(x, c)
        BY <1>0, <2>2, <2>4, <2>7 DEF ReadInv, AskedInv
    <2>9. KernelInv'
        BY <1>0, <2>2, <2>6, ReadHeads, QueueMoves
    <2> QED
        BY <1>0, <2>6, <2>7, <2>8, <2>9, ReadMoves DEF JobTypes
<1> QED
    BY <1>1, <1>2, <1>3, <1>4, <1>5, <1>6

LEMMA ClientSteps ==
    ASSUME JobInv, NEW c \in Clients, OfClient(c)
    PROVE  JobInv'
<1>0. /\ JobTypes /\ KernelInv /\ Single(queue) /\ (alive \/ queue = <<>>) /\ c # Nobody
      /\ client[c] \in ClientRecord /\ CallerInv(client[c]) /\ \A r \in Reads : AskedInv(read[r], c)
      /\ client \in [Clients -> ClientRecord] /\ read \in [Reads -> ReadRecord] /\ ReadsInv
      /\ lock \in {Nobody, Launcher, Fore} \cup Reads
    BY JobAssumption DEF JobInv, JobTypes, KernelInv, CallersInv, AllAsked
<1>a. ASSUME NEW answer \in Answers \ {"done", "error"}, Answered(c, answer), client[c].pc # "read",
             UNCHANGED <<cli, alive, inflight, lock, queue, job, launch, read>>
      PROVE  JobInv'
    <2>1. PICK y : y = [client[c] EXCEPT !.pc = "idle", !.tail = TRUE, !.expired = FALSE, !.last = answer]
        OBVIOUS
    <2>2. y \in ClientRecord /\ CallerInv(y) /\ client' = [client EXCEPT ![c] = y]
        BY <1>a, <2>1, PlainAnswer
    <2> QED
        BY <1>a, <2>2, CallerMoves
<1>b. ASSUME NEW y, y \in ClientRecord, y.last \in {client[c].last, "none"}, y.more \in {client[c].more, FALSE},
             y.last = client[c].last => y.more = client[c].more,
             y.from = client[c].from, y.held = client[c].held, y.text = client[c].text, y.cut = client[c].cut
      PROVE  CallerInv(y)
    BY <1>0, <1>b DEF CallerInv, Ended
<1>c. ASSUME StartRead(c), client[c].pc # "read", UNCHANGED <<cli, alive, inflight, lock, queue, job, launch>>
      PROVE  JobInv'
    <2>1. PICK r \in Reads :
             /\ read[r].at = "none"
             /\ read' = [read EXCEPT ![r] = [NoRead EXCEPT !.by = c, !.at = "lock", !.tail = client[c].tail,
                                                           !.off = client[c].held]]
             /\ client' = [client EXCEPT ![c].pc = "read"]
        BY <1>c DEF StartRead
    <2>2. PICK x : x = [NoRead EXCEPT !.by = c, !.at = "lock", !.tail = client[c].tail, !.off = client[c].held]
        OBVIOUS
    <2>3. PICK y : y = [client[c] EXCEPT !.pc = "read"]
        OBVIOUS
    <2>4. x = [by |-> c, at |-> "lock", tail |-> client[c].tail, off |-> client[c].held,
               st |-> "absent", tot |-> 0, start |-> 0, nx |-> 0]
        BY <2>2 DEF NoRead
    <2>5. client[c].tail \in BOOLEAN /\ client[c].held \in Nat
        BY <1>0 DEF ClientRecord
    <2>6. x \in ReadRecord
        BY <2>4, <2>5 DEF ReadRecord, Kinds, Statuses
    <2>7. x.by = c /\ x.at = "lock" /\ x.off = client[c].held
        BY <2>4
    <2>8. ReadInv(x)
        BY <2>7 DEF ReadInv
    <2>9. y \in ClientRecord /\ y.pc = "read" /\ y.held = client[c].held /\ y.last = client[c].last
            /\ y.more = client[c].more /\ y.from = client[c].from /\ y.text = client[c].text /\ y.cut = client[c].cut
        BY <1>0, <2>3 DEF ClientRecord
    <2>10. CallerInv(y)
        BY <1>b, <2>9
    <2>11. read' = [read EXCEPT ![r] = x] /\ client' = [client EXCEPT ![c] = y]
        BY <1>0, <2>1, <2>2, <2>3
    <2>12. read[r].by = Nobody
        BY <1>0, <2>1 DEF ReadsInv, ReadInv
    <2>13. KernelInv'
        BY <1>0, <1>c, QueueMoves
    <2> QED
        BY <1>0, <1>c, <2>6, <2>7, <2>8, <2>9, <2>10, <2>11, <2>12, <2>13, BothMove
<1>1. CASE Call(c)
    <2>1. PICK tail, expired \in BOOLEAN :
             client' = [client EXCEPT ![c].pc = "check", ![c].tail = tail, ![c].expired = expired,
                                      ![c].last = "none", ![c].more = FALSE]
        BY <1>1 DEF Call
    <2>2. PICK y : y = [client[c] EXCEPT !.pc = "check", !.tail = tail, !.expired = expired, !.last = "none",
                                         !.more = FALSE]
        OBVIOUS
    <2>3. /\ y \in ClientRecord /\ y.last = "none" /\ y.more = FALSE /\ y.held = client[c].held
          /\ y.from = client[c].from /\ y.text = client[c].text /\ y.cut = client[c].cut
        BY <1>0, <2>1, <2>2 DEF ClientRecord, Answers
    <2>4. CallerInv(y)
        BY <1>0, <2>3 DEF CallerInv, Ended
    <2>5. client' = [client EXCEPT ![c] = y] /\ client[c].pc # "read"
          /\ UNCHANGED <<cli, alive, inflight, lock, queue, job, launch, read>>
        BY <1>0, <1>1, <2>1, <2>2 DEF Call, kernelVars
    <2> QED
        BY <2>3, <2>4, <2>5, CallerMoves
<1>2. CASE Check(c) \/ Oob(c)
    <2>1. client[c].pc # "read" /\ UNCHANGED <<cli, alive, inflight, lock, queue, job, launch>>
        BY <1>2 DEF Check, Oob, kernelVars
    <2>2. CASE Answered(c, "kernel_busy") /\ read' = read
        BY <1>a, <2>1, <2>2 DEF Answers
    <2>3. CASE StartRead(c)
        BY <1>c, <2>1, <2>3
    <2>4. CASE client' = [client EXCEPT ![c].pc = "oob"] /\ read' = read
        <3>1. PICK y : y = [client[c] EXCEPT !.pc = "oob"]
            OBVIOUS
        <3>2. /\ y \in ClientRecord /\ y.last = client[c].last /\ y.more = client[c].more /\ y.held = client[c].held
              /\ y.from = client[c].from /\ y.text = client[c].text /\ y.cut = client[c].cut
            BY <1>0, <3>1 DEF ClientRecord
        <3>3. CallerInv(y)
            BY <1>b, <3>2
        <3>4. client' = [client EXCEPT ![c] = y]
            BY <1>0, <2>4, <3>1
        <3> QED
            BY <2>1, <2>4, <3>2, <3>3, <3>4, CallerMoves
    <2> QED
        BY <1>2, <2>2, <2>3, <2>4 DEF Check, Oob
<1>3. CASE Wake(c)
    <2>1. PICK y : y = [client[c] EXCEPT !.pc = "check"]
        OBVIOUS
    <2>2. /\ y \in ClientRecord /\ y.last = client[c].last /\ y.more = client[c].more /\ y.held = client[c].held
          /\ y.from = client[c].from /\ y.text = client[c].text /\ y.cut = client[c].cut
        BY <1>0, <2>1 DEF ClientRecord
    <2>3. CallerInv(y)
        BY <1>b, <2>2
    <2>4. client' = [client EXCEPT ![c] = y] /\ client[c].pc # "read"
          /\ UNCHANGED <<cli, alive, inflight, lock, queue, job, launch, read>>
        BY <1>0, <1>3, <2>1 DEF Wake, kernelVars
    <2> QED
        BY <2>2, <2>3, <2>4, CallerMoves
<1>4. CASE DeadlinePasses(c)
    <2>1. PICK y : y = [client[c] EXCEPT !.expired = TRUE]
        OBVIOUS
    <2>2. /\ y \in ClientRecord /\ y.last = client[c].last /\ y.more = client[c].more /\ y.held = client[c].held
          /\ y.from = client[c].from /\ y.text = client[c].text /\ y.cut = client[c].cut /\ y.pc = client[c].pc
        BY <1>0, <2>1 DEF ClientRecord
    <2>3. CallerInv(y)
        BY <1>b, <2>2
    <2>4. client' = [client EXCEPT ![c] = y]
          /\ UNCHANGED <<cli, alive, inflight, lock, queue, job, launch, read>>
        BY <1>0, <1>4, <2>1 DEF DeadlinePasses, kernelVars
    <2> QED
        BY <2>2, <2>3, <2>4, CallerMoves
<1>5. CASE Abandon(c)
    <2>1. PICK r \in Reads : /\ read[r].by = c /\ read[r].at # "done"
                             /\ read' = [read EXCEPT ![r] = [NoRead EXCEPT !.at = read[r].at]]
        BY <1>5 DEF Abandon
    <2>2. Answered(c, "kernel_busy") /\ UNCHANGED <<cli, alive, inflight, lock, queue, job, launch>>
        BY <1>5 DEF Abandon, kernelVars
    <2>3. PICK x : x = [NoRead EXCEPT !.at = read[r].at]
        OBVIOUS
    <2>4. read[r].at \in Kinds \ {"done"}
        BY <1>0, <2>1 DEF ReadRecord
    <2>5. x \in ReadRecord /\ ReadInv(x) /\ x.by = Nobody
        BY <2>3, <2>4, ForgottenRead
    <2>6. PICK y : y = [client[c] EXCEPT !.pc = "idle", !.tail = TRUE, !.expired = FALSE, !.last = "kernel_busy"]
        OBVIOUS
    <2>7. y \in ClientRecord /\ CallerInv(y) /\ client' = [client EXCEPT ![c] = y]
        BY <2>2, <2>6, PlainAnswer DEF Answers
    <2>8. KernelInv'
        BY <1>0, <2>2, QueueMoves
    <2> QED
        BY <1>0, <2>1, <2>2, <2>3, <2>5, <2>7, <2>8, BothMove
<1> QED
    BY <1>1, <1>2, <1>3, <1>4, <1>5 DEF OfClient

-----------------------------------------------------------------------------
(* Decoding in pieces.                                                     *)

\* What the i-th byte of b adds to its text.
Piece(b, i) ==
    CASE b[i] = "c" -> <<"c">>
      [] b[i] = "h" -> IF i < Len(b) /\ b[i + 1] = "t" THEN <<"w">> ELSE <<"?">>
      [] b[i] = "t" -> IF i > 1 /\ b[i - 1] = "h" THEN <<>> ELSE <<"?">>
Pieces(b) == [i \in 1..Len(b) |-> [text |-> Piece(b, i)]]

\* A character lies across the end of a and the beginning of b.
Cleft(a, b) == a # <<>> /\ b # <<>> /\ a[Len(a)] = "h" /\ b[1] = "t"

LEMMA PieceTypes ==
    ASSUME NEW b \in Seq(Bytes), NEW i \in 1..Len(b)
    PROVE  b[i] \in Bytes /\ Piece(b, i) \in Seq(Glyphs)
<1>1. b[i] \in Bytes
    OBVIOUS
<1>2. <<"c">> \in Seq(Glyphs) /\ <<"w">> \in Seq(Glyphs) /\ <<"?">> \in Seq(Glyphs) /\ <<>> \in Seq(Glyphs)
    BY DEF Glyphs
<1>3. Piece(b, i) \in {<<"c">>, <<"w">>, <<"?">>, <<>>}
    BY <1>1 DEF Piece, Bytes
<1> QED
    BY <1>1, <1>2, <1>3, Zenon

LEMMA DecodedFacts ==
    ASSUME NEW b \in Seq(Bytes)
    PROVE  \E f : /\ f = [i \in 0..Len(b) |-> IF i = 0 THEN <<>> ELSE f[i - 1] \o Piece(b, i)]
                  /\ \A i \in 0..Len(b) : f[i] \in Seq(Glyphs)
                  /\ Decoded(b) = f[Len(b)]
<1>0. Len(b) \in Nat
    OBVIOUS
<1>1. ASSUME NEW f, Joins(f, Pieces(b), Len(b))
      PROVE  f = [i \in 0..Len(b) |-> IF i = 0 THEN <<>> ELSE f[i - 1] \o Piece(b, i)]
    <2>1. ASSUME NEW i \in 0..Len(b), i # 0 PROVE Pieces(b)[i].text = Piece(b, i)
        <3>1. i \in 1..Len(b)
            BY <1>0, <2>1
        <3> QED
            BY <3>1 DEF Pieces
    <2>2. ASSUME NEW i \in 0..Len(b)
          PROVE  f[i] = IF i = 0 THEN <<>> ELSE f[i - 1] \o Piece(b, i)
        <3>1. f[i] = IF i = 0 THEN <<>> ELSE f[i - 1] \o Pieces(b)[i].text
            BY <1>1 DEF Joins
        <3> QED
            BY <2>1, <3>1
    <2>3. f = [i \in 0..Len(b) |-> f[i]]
        BY <1>1 DEF Joins
    <2> QED
        BY <2>2, <2>3
<1>2. PICK f : Joins(f, Pieces(b), Len(b))
    BY <1>0, JoinsExists
<1>3. PICK g : g = CHOOSE h : h = [i \in 0..Len(b) |-> IF i = 0 THEN <<>> ELSE h[i - 1] \o Piece(b, i)]
    OBVIOUS
<1>4. g = [i \in 0..Len(b) |-> IF i = 0 THEN <<>> ELSE g[i - 1] \o Piece(b, i)]
    BY <1>1, <1>2, <1>3, Zenon
<1>5. Decoded(b) = g[Len(b)]
    BY <1>3 DEF Decoded, Piece
<1>6. ASSUME NEW i \in 1..Len(b) PROVE Pieces(b)[i].text = Piece(b, i) /\ Pieces(b)[i].text \in Seq(Glyphs)
    <2>1. Pieces(b)[i].text = Piece(b, i)
        BY DEF Pieces
    <2> QED
        BY <2>1, PieceTypes
<1>7. Joins(g, Pieces(b), Len(b))
    <2>1. ASSUME NEW i \in 0..Len(b)
          PROVE  g[i] = IF i = 0 THEN <<>> ELSE g[i - 1] \o Pieces(b)[i].text
        <3>1. i # 0 => i \in 1..Len(b)
            BY <1>0
        <3>2. g[i] = IF i = 0 THEN <<>> ELSE g[i - 1] \o Piece(b, i)
            BY <1>4
        <3> QED
            BY <1>6, <3>1, <3>2
    <2>2. g = [i \in 0..Len(b) |-> g[i]]
        BY <1>4
    <2> QED
        BY <2>1, <2>2 DEF Joins
<1>8. ASSUME NEW i \in 0..Len(b) PROVE g[i] \in Seq(Glyphs)
    <2>1. i \in Nat /\ i <= Len(b)
        BY <1>0
    <2> QED
        BY <1>0, <1>6, <1>7, <2>1, JoinsType
<1> QED
    BY <1>4, <1>5, <1>8

LEMMA GlyphsCat ==
    ASSUME NEW p \in Seq(Glyphs), NEW q \in Seq(Glyphs), NEW r \in Seq(Glyphs)
    PROVE  (p \o q) \o r = p \o (q \o r)
BY ConcatAssociative

\* Two pieces put together are the text of both, unless a character lies across.
LEMMA DecodedCat ==
    ASSUME NEW a \in Seq(Bytes), NEW b \in Seq(Bytes), ~ Cleft(a, b)
    PROVE  /\ Decoded(a) \in Seq(Glyphs) /\ Decoded(b) \in Seq(Glyphs)
           /\ Decoded(a \o b) = Decoded(a) \o Decoded(b)
<1>0. PICK m \in Nat, n \in Nat : m = Len(a) /\ n = Len(b)
    OBVIOUS
<1>1. PICK w : w = a \o b
    OBVIOUS
<1>2. /\ w \in Seq(Bytes) /\ Len(w) = m + n
      /\ \A i \in 1..m : w[i] = a[i]
      /\ \A i \in 1..n : w[m + i] = b[i]
    BY <1>0, <1>1
<1>3. PICK f : /\ f = [i \in 0..m |-> IF i = 0 THEN <<>> ELSE f[i - 1] \o Piece(a, i)]
               /\ \A i \in 0..m : f[i] \in Seq(Glyphs)
               /\ Decoded(a) = f[m]
    BY <1>0, DecodedFacts
<1>4. PICK g : /\ g = [i \in 0..n |-> IF i = 0 THEN <<>> ELSE g[i - 1] \o Piece(b, i)]
               /\ \A i \in 0..n : g[i] \in Seq(Glyphs)
               /\ Decoded(b) = g[n]
    BY <1>0, DecodedFacts
<1>5. PICK h : /\ h = [i \in 0..(m + n) |-> IF i = 0 THEN <<>> ELSE h[i - 1] \o Piece(w, i)]
               /\ Decoded(w) = h[m + n]
    BY <1>2, DecodedFacts
<1>6. ASSUME NEW i \in 1..m PROVE Piece(w, i) = Piece(a, i)
    <2>1. a[i] \in Bytes /\ w[i] = a[i] /\ (i > 1 => w[i - 1] = a[i - 1])
        <3>1. i > 1 => i - 1 \in 1..m
            OBVIOUS
        <3> QED
            BY <1>0, <1>2, <3>1
    <2>2. i < m => w[i + 1] = a[i + 1] /\ i < m + n
        <3>1. i < m => i + 1 \in 1..m /\ i < m + n
            BY <1>0
        <3> QED
            BY <1>2, <3>1
    <2>3. CASE i < m
        BY <1>0, <1>2, <2>1, <2>2, <2>3 DEF Piece, Bytes
    <2>4. CASE i = m
        <3>1. i < m + n /\ w[i + 1] = "t" => a[m] # "h"
            <4>1. i < m + n => 1 \in 1..n /\ w[m + 1] = b[1]
                BY <1>2, <2>4
            <4> QED
                BY <1>0, <2>4, <4>1 DEF Cleft
        <3> QED
            BY <1>0, <1>2, <2>1, <2>4, <3>1 DEF Piece, Bytes
    <2> QED
        BY <2>3, <2>4
<1>7. ASSUME NEW i \in 1..n PROVE Piece(w, m + i) = Piece(b, i)
    <2>1. b[i] \in Bytes /\ w[m + i] = b[i] /\ (m + i < m + n <=> i < n)
        BY <1>0, <1>2
    <2>2. i < n => w[(m + i) + 1] = b[i + 1]
        <3>1. i < n => i + 1 \in 1..n /\ m + (i + 1) = (m + i) + 1
            BY <1>0
        <3> QED
            BY <1>2, <3>1
    <2>3. CASE i > 1
        <3>1. w[(m + i) - 1] = b[i - 1] /\ m + i > 1
            <4>1. i - 1 \in 1..n /\ m + (i - 1) = (m + i) - 1 /\ m + i > 1
                BY <1>0, <2>3
            <4> QED
                BY <1>2, <4>1
        <3> QED
            BY <1>0, <1>2, <2>1, <2>2, <2>3, <3>1 DEF Piece, Bytes
    <2>4. CASE i = 1
        <3>1. m + i > 1 /\ w[(m + i) - 1] = "h" => b[i] # "t"
            <4>1. m + i > 1 => m \in 1..m /\ (m + i) - 1 = m
                BY <2>4
            <4> QED
                BY <1>0, <1>2, <2>4, <4>1 DEF Cleft
        <3> QED
            BY <1>0, <1>2, <2>1, <2>2, <2>4, <3>1 DEF Piece, Bytes
    <2> QED
        BY <1>0, <2>3, <2>4
<1>8. ASSUME NEW k \in 0..m PROVE h[k] = f[k]
    <2> DEFINE T == {i \in Nat : i <= m /\ h[i] # f[i]}
    <2> SUFFICES ASSUME T # {} PROVE FALSE
        BY <1>8
    <2>1. PICK i \in T : \A j \in T : ~ (j < i)
        <3>1. T \subseteq Nat
            OBVIOUS
        <3> HIDE DEF T
        <3> QED
            BY <3>1, SmallestElement
    <2>2. i \in 0..m /\ i \in 0..(m + n) /\ h[i] # f[i]
        BY <1>0
    <2>3. CASE i = 0
        BY <1>3, <1>5, <2>2, <2>3
    <2>4. CASE i # 0
        <3>1. i \in 1..m /\ i - 1 \in Nat /\ i - 1 <= m /\ i - 1 < i
            BY <1>0, <2>2, <2>4
        <3>2. h[i - 1] = f[i - 1]
            BY <2>1, <3>1
        <3>3. h[i] = h[i - 1] \o Piece(w, i) /\ f[i] = f[i - 1] \o Piece(a, i)
            BY <1>3, <1>5, <2>2, <2>4
        <3> QED
            BY <1>6, <2>2, <3>1, <3>2, <3>3, Zenon
    <2> QED
        BY <2>3, <2>4
<1>9. PICK e : e = [i \in 0..n |-> f[m] \o g[i]]
    OBVIOUS
<1>10. ASSUME NEW k \in 0..n PROVE h[m + k] = e[k]
    <2> DEFINE T == {i \in Nat : i <= n /\ h[m + i] # e[i]}
    <2> SUFFICES ASSUME T # {} PROVE FALSE
        OBVIOUS
    <2>0. f[m] \in Seq(Glyphs)
        BY <1>3
    <2>1. e[0] = f[m] \o g[0]
        <3>1. 0 \in 0..n
            BY <1>0
        <3> QED
            BY <1>9, <3>1
    <2>2. PICK i \in T : \A j \in T : ~ (j < i)
        <3>1. T \subseteq Nat
            OBVIOUS
        <3> HIDE DEF T
        <3> QED
            BY <3>1, SmallestElement
    <2>3. i \in 0..n /\ m + i \in 0..(m + n) /\ h[m + i] # e[i]
        BY <1>0
    <2>4. CASE i = 0
        <3>1. g[0] = <<>> /\ h[m + i] = f[m]
            BY <1>4, <1>8, <2>4
        <3>2. f[m] \o <<>> = f[m]
            BY <2>0
        <3> QED
            BY <2>1, <2>3, <2>4, <3>1, <3>2, Zenon
    <2>5. CASE i # 0
        <3>1. /\ i \in 1..n /\ i - 1 \in Nat /\ i - 1 <= n /\ i - 1 < i /\ i - 1 \in 0..n
              /\ m + (i - 1) = (m + i) - 1 /\ m + i # 0
            BY <1>0, <2>3, <2>5
        <3>2. h[m + (i - 1)] = e[i - 1]
            BY <2>2, <3>1
        <3>3. e[i - 1] = f[m] \o g[i - 1] /\ e[i] = f[m] \o g[i]
            BY <1>9, <3>1
        <3>4. g[i] = g[i - 1] \o Piece(b, i)
            BY <1>4, <2>3, <2>5
        <3>5. h[m + i] = h[(m + i) - 1] \o Piece(w, m + i)
            BY <1>5, <2>3, <3>1
        <3>6. h[m + i] = (f[m] \o g[i - 1]) \o Piece(b, i)
            BY <1>7, <3>1, <3>2, <3>3, <3>5, Zenon
        <3>7. g[i - 1] \in Seq(Glyphs) /\ Piece(b, i) \in Seq(Glyphs)
            BY <1>0, <1>4, <3>1, PieceTypes
        <3>8. h[m + i] = f[m] \o (g[i - 1] \o Piece(b, i))
            <4>1. (f[m] \o g[i - 1]) \o Piece(b, i) = f[m] \o (g[i - 1] \o Piece(b, i))
                BY <2>0, <3>7, GlyphsCat
            <4> QED
                BY <3>6, <4>1, Zenon
        <3> QED
            BY <2>3, <3>3, <3>4, <3>8, Zenon
    <2> QED
        BY <2>4, <2>5
<1>11. Decoded(w) = f[m] \o g[n]
    <2>1. n \in 0..n /\ m \in 0..m
        BY <1>0
    <2>2. h[m + n] = e[n]
        BY <1>10, <2>1
    <2>3. e[n] = f[m] \o g[n]
        BY <1>9, <2>1
    <2> QED
        BY <1>5, <2>2, <2>3, Zenon
<1>12. f[m] \in Seq(Glyphs) /\ g[n] \in Seq(Glyphs)
    <2>1. m \in 0..m /\ n \in 0..n
        OBVIOUS
    <2>2. f[m] \in Seq(Glyphs)
        BY <1>3, <2>1, Zenon
    <2>3. g[n] \in Seq(Glyphs)
        BY <1>4, <2>1, Zenon
    <2> QED
        BY <2>2, <2>3
<1>13. Decoded(w) = Decoded(a) \o Decoded(b)
    <2>1. Decoded(a) = f[m]
        BY <1>3
    <2>2. Decoded(b) = g[n]
        BY <1>4
    <2> QED
        BY <1>11, <2>1, <2>2, Zenon
<1>14. Decoded(a) \in Seq(Glyphs) /\ Decoded(b) \in Seq(Glyphs)
    BY <1>3, <1>4, <1>12
<1> QED
    BY <1>1, <1>13, <1>14, Zenon

LEMMA DecodedTypes ==
    ASSUME NEW b \in Seq(Bytes)
    PROVE  Decoded(b) \in Seq(Glyphs)
<1>1. ~ Cleft(b, <<>>) /\ <<>> \in Seq(Bytes)
    BY DEF Cleft
<1> QED
    BY <1>1, DecodedCat, Zenon

\* The window from i to j goes on where the text from h to i ended.
LEMMA NextWindow ==
    ASSUME NEW h \in Nat, NEW i \in Nat, NEW j \in Nat, h <= i, i <= j, j <= Len(Output),
           ~ CutsCharacter(i)
    PROVE  Decoded(SubSeq(Output, h + 1, j))
             = Decoded(SubSeq(Output, h + 1, i)) \o Decoded(SubSeq(Output, i + 1, j))
<1>0. Output \in Seq(Bytes) /\ Len(Output) \in Nat
    BY JobAssumption DEF Bytes
<1>1. PICK a, b : a = SubSeq(Output, h + 1, i) /\ b = SubSeq(Output, i + 1, j)
    OBVIOUS
<1>2. /\ a \in Seq(Bytes) /\ Len(a) = i - h
      /\ \A k \in 1..(i - h) : a[k] = Output[h + k]
    BY <1>0, <1>1
<1>3. /\ b \in Seq(Bytes) /\ Len(b) = j - i
      /\ \A k \in 1..(j - i) : b[k] = Output[i + k]
    BY <1>0, <1>1
<1>4. ~ Cleft(a, b)
    <2> SUFFICES ASSUME a # <<>>, b # <<>>, a[Len(a)] = "h", b[1] = "t"
                 PROVE  FALSE
        BY DEF Cleft
    <2>1. h < i /\ i < j
        <3>1. Len(a) # 0 /\ Len(b) # 0
            BY <1>2, <1>3
        <3> QED
            BY <1>2, <1>3, <3>1
    <2>2. Output[i] = "h"
        <3>1. i - h \in 1..(i - h) /\ h + (i - h) = i
            BY <2>1
        <3> QED
            BY <1>2, <3>1
    <2>3. Output[i + 1] = "t"
        <3>1. 1 \in 1..(j - i)
            BY <2>1
        <3> QED
            BY <1>3, <3>1
    <2>4. 0 < i /\ i < Len(Output)
        BY <1>0, <2>1
    <2> QED
        BY <2>2, <2>3, <2>4 DEF CutsCharacter
<1>5. a \o b = SubSeq(Output, h + 1, j)
    <2>1. h + 1 \in 1..(Len(Output) + 1) /\ i \in ((h + 1) - 1)..Len(Output) /\ j \in i..Len(Output)
        BY <1>0
    <2>2. SubSeq(Output, h + 1, i) \o SubSeq(Output, i + 1, j) = SubSeq(Output, h + 1, j)
        BY <1>0, <2>1, ConcatAdjacentSubSeq
    <2> QED
        BY <1>1, <2>2, Zenon
<1>6. Decoded(a \o b) = Decoded(a) \o Decoded(b)
    BY <1>2, <1>3, <1>4, DecodedCat
<1> QED
    BY <1>1, <1>5, <1>6, Zenon

LEMMA FreshClient ==
    ASSUME NEW answer \in Answers, NEW more \in BOOLEAN, NEW from \in Nat, NEW held \in Nat,
           NEW text \in Seq(Glyphs), NEW cut \in BOOLEAN
    PROVE  [pc |-> "idle", tail |-> TRUE, expired |-> FALSE, last |-> answer, more |-> more,
            from |-> from, held |-> held, text |-> text, cut |-> cut] \in ClientRecord
<1>1. ASSUME NEW t \in BOOLEAN, NEW e \in BOOLEAN
      PROVE  [pc |-> "idle", tail |-> t, expired |-> e, last |-> answer, more |-> more,
              from |-> from, held |-> held, text |-> text, cut |-> cut] \in ClientRecord
    BY DEF ClientRecord
<1> QED
    BY <1>1

LEMMA DeliverSteps ==
    ASSUME JobInv, NEW r \in Reads, Deliver(r)
    PROVE  JobInv'
<1>0. /\ JobTypes /\ KernelInv /\ FilesInv /\ Single(queue) /\ (alive \/ queue = <<>>) /\ job.written \in Nat
      /\ Len(Output) \in Nat /\ read \in [Reads -> ReadRecord] /\ client \in [Clients -> ClientRecord]
      /\ read[r] \in ReadRecord /\ ReadInv(read[r]) /\ lock \in {Nobody, Launcher, Fore} \cup Reads
      /\ \A c \in Clients : AskedInv(read[r], c) /\ CallerInv(client[c]) /\ c # Nobody
    BY JobAssumption DEF JobInv, JobTypes, JobRecord, KernelInv, ReadsInv, AllAsked, CallersInv
<1>1. /\ read[r].at = "done" /\ read' = [read EXCEPT ![r] = NoRead] /\ lock' = Nobody
      /\ UNCHANGED <<cli, alive, inflight, queue, job, launch>>
    BY DEF Deliver
<1>2. PICK x : x = [NoRead EXCEPT !.at = "none"]
    OBVIOUS
<1>3. x \in ReadRecord /\ ReadInv(x) /\ x.by = Nobody
    BY <1>2, ForgottenRead DEF Kinds
<1>4. x = NoRead
    BY <1>2 DEF NoRead
<1>5. KernelInv'
    BY <1>0, <1>1, QueueMoves
<1>6. CASE read[r].by = Nobody
    <2>1. client' = client
        BY <1>6 DEF Deliver
    <2>2. \A c \in Clients : AskedInv(x, c)
        BY <1>0, <1>3 DEF AskedInv
    <2> QED
        BY <1>1, <1>3, <1>4, <1>5, <1>6, <2>1, <2>2, ReadMoves
<1>7. CASE read[r].by # Nobody
    <2>1. PICK c \in Clients : c = read[r].by
        BY <1>0, <1>7 DEF ReadRecord
    <2>2. PICK old : old = client[c]
        OBVIOUS
    <2>3. old \in ClientRecord /\ CallerInv(old) /\ AskedInv(read[r], c) /\ c # Nobody
        BY <1>0, <2>1, <2>2
    <2>4. PICK answer : answer = Normalised(read[r].st)
        OBVIOUS
    <2>5. answer \in Answers /\ (Ended(answer) => Ended(read[r].st))
        BY <1>0, <2>4 DEF Normalised, Answers, Ended, ReadRecord, Statuses
    <2>6. PICK piece : piece = Decoded(SubSeq(Output, read[r].start + 1, read[r].nx))
        OBVIOUS
    <2>7. CASE answer = "running_in_background" /\ ~ client[c].expired
        <3>1. PICK y : y = [client[c] EXCEPT !.pc = "sleep"]
            OBVIOUS
        <3>2. client' = [client EXCEPT ![c] = y]
            BY <1>0, <1>7, <2>1, <2>4, <2>7, <3>1 DEF Deliver
        <3>3. /\ y \in ClientRecord /\ y.last = old.last /\ y.more = old.more /\ y.from = old.from
              /\ y.held = old.held /\ y.text = old.text /\ y.cut = old.cut
            BY <1>0, <2>2, <3>1 DEF ClientRecord
        <3>4. CallerInv(y)
            BY <2>3, <3>3 DEF CallerInv
        <3> QED
            BY <1>0, <1>1, <1>3, <1>4, <1>5, <2>1, <2>3, <3>2, <3>3, <3>4, BothMove
    <2>8. CASE ~ (answer = "running_in_background" /\ ~ client[c].expired)
        <3>1. PICK start, next, tot, tail : start = read[r].start /\ next = read[r].nx
                                              /\ tot = read[r].tot /\ tail = read[r].tail
            OBVIOUS
        <3>2. /\ start \in Nat /\ next \in Nat /\ tot \in Nat /\ tail \in BOOLEAN
              /\ start <= next /\ next <= Len(Output)
              /\ ~ tail => start = old.held
            BY <1>0, <1>1, <2>1, <2>2, <2>3, <3>1 DEF ReadRecord, ReadInv, AskedInv
        <3>3. PICK y : y = [pc |-> "idle", tail |-> TRUE, expired |-> FALSE, last |-> answer,
                            more |-> next < tot, from |-> IF tail THEN start ELSE old.from, held |-> next,
                            text |-> IF tail THEN piece ELSE old.text \o piece,
                            cut |-> (~ tail /\ old.cut) \/ \E e \in {start, next} : CutsCharacter(e)]
            OBVIOUS
        <3>4. client' = [client EXCEPT ![c] = y]
            BY <1>0, <1>7, <2>1, <2>2, <2>4, <2>6, <2>8, <3>1, <3>3 DEF Deliver, NextOffset
        <3>5. /\ y.last = answer /\ (y.more <=> next < tot) /\ y.held = next /\ y.pc = "idle"
              /\ tail => y.from = start /\ y.text = piece
              /\ ~ tail => y.from = old.from /\ y.text = old.text \o piece
              /\ ~ y.cut => ~ CutsCharacter(start) /\ (tail \/ ~ old.cut)
            BY <3>3
        <3>6. piece \in Seq(Glyphs)
            <4>1. SubSeq(Output, start + 1, next) \in Seq(Bytes)
                BY <1>0, <3>2, JobAssumption DEF Bytes
            <4> QED
                BY <2>6, <3>1, <4>1, DecodedTypes
        <3>7. y \in ClientRecord
            <4>1. PICK from, text : /\ from = IF tail THEN start ELSE old.from
                                    /\ text = IF tail THEN piece ELSE old.text \o piece
                OBVIOUS
            <4>2. PICK more, cut :
                     /\ more = (next < tot)
                     /\ cut = ((~ tail /\ old.cut) \/ \E e \in {start, next} : CutsCharacter(e))
                OBVIOUS
            <4>3. from \in Nat
                BY <2>3, <3>2, <4>1 DEF ClientRecord
            <4>4. text \in Seq(Glyphs)
                <5>1. old.text \in Seq(Glyphs)
                    BY <2>3 DEF ClientRecord
                <5>2. old.text \o piece \in Seq(Glyphs)
                    BY <3>6, <5>1
                <5> QED
                    BY <3>6, <4>1, <5>2, Zenon
            <4>5. more \in BOOLEAN
                BY <4>2
            <4>6. cut \in BOOLEAN
                BY <4>2, Zenon
            <4>7. y = [pc |-> "idle", tail |-> TRUE, expired |-> FALSE, last |-> answer, more |-> more,
                       from |-> from, held |-> next, text |-> text, cut |-> cut]
                BY <3>3, <4>1, <4>2
            <4> QED
                BY <2>5, <3>2, <4>3, <4>4, <4>5, <4>6, <4>7, FreshClient
        <3>8. CallerInv(y)
            <4>1. y.from <= y.held /\ y.held <= Len(Output)
                BY <1>0, <2>3, <3>2, <3>5 DEF CallerInv, ClientRecord
            <4>2. Kept => y.held <= job.written
                BY <1>0, <1>1, <3>1, <3>5 DEF ReadInv
            <4>3. Ended(y.last) => job.proc \in Past
                BY <1>0, <1>1, <2>5, <3>5 DEF ReadInv
            <4>4. Ended(y.last) /\ ~ y.more /\ job.proc = "over" => y.held = job.written
                <5>1. ASSUME Ended(y.last), ~ y.more, job.proc = "over"
                      PROVE  y.held = job.written
                    <6>1. tot = job.written
                        BY <1>0, <1>1, <2>5, <3>1, <3>5, <5>1 DEF ReadInv
                    <6>2. y.held <= job.written
                        BY <1>0, <4>2, <5>1 DEF FilesInv
                    <6>3. ~ (next < tot) /\ y.held = next
                        BY <3>5, <5>1
                    <6> QED
                        BY <3>2, <6>1, <6>2, <6>3
                <5> QED
                    BY <5>1
            <4>5. ASSUME ~ y.cut
                  PROVE  y.text = Decoded(SubSeq(Output, y.from + 1, y.held))
                <5>1. piece = Decoded(SubSeq(Output, start + 1, next)) /\ ~ CutsCharacter(start)
                    BY <2>6, <3>1, <3>5, <4>5
                <5>2. CASE tail
                    BY <3>5, <5>1, <5>2
                <5>3. CASE ~ tail
                    <6>1. old.text = Decoded(SubSeq(Output, old.from + 1, start)) /\ old.from <= start
                        BY <2>3, <3>2, <3>5, <4>5, <5>3 DEF CallerInv
                    <6>2. old.from \in Nat
                        BY <2>3 DEF ClientRecord
                    <6>3. Decoded(SubSeq(Output, old.from + 1, next))
                            = Decoded(SubSeq(Output, old.from + 1, start)) \o Decoded(SubSeq(Output, start + 1, next))
                        BY <3>2, <5>1, <6>1, <6>2, NextWindow
                    <6>4. Decoded(SubSeq(Output, old.from + 1, next)) = old.text \o piece
                        BY <5>1, <6>1, <6>3, Zenon
                    <6> QED
                        BY <3>5, <5>3, <6>4
                <5> QED
                    BY <5>2, <5>3
            <4> QED
                BY <4>1, <4>2, <4>3, <4>4, <4>5 DEF CallerInv
        <3> QED
            BY <1>0, <1>1, <1>3, <1>4, <1>5, <2>1, <2>3, <3>4, <3>7, <3>8, BothMove
    <2> QED
        BY <2>7, <2>8
<1> QED
    BY <1>6, <1>7

-----------------------------------------------------------------------------
LEMMA JobInvStarts ==
    ASSUME JobInit
    PROVE  JobInv
<1>0. Len(Output) \in Nat /\ 0 \in 0..Len(Output)
    BY JobAssumption
<1>1. /\ cli \in BOOLEAN /\ alive = TRUE /\ inflight = Nobody /\ lock = Nobody /\ queue = <<>> /\ launch = "idle"
      /\ job = [proc |-> "none", status |-> "absent", written |-> 0] /\ read = [r \in Reads |-> NoRead]
    BY DEF JobInit
<1>2. job \in JobRecord
    BY <1>0, <1>1 DEF JobRecord, Procs, Statuses
<1>3. job.proc = "none" /\ job.status = "absent" /\ job.written = 0
    BY <1>1
<1>4. PICK x : x = NoRead
    OBVIOUS
<1>5. x = [by |-> Nobody, at |-> "none", tail |-> TRUE, off |-> 0, st |-> "absent", tot |-> 0, start |-> 0, nx |-> 0]
    BY <1>4 DEF NoRead
<1>6. x \in ReadRecord
    <2>1. "none" \in Kinds
        BY DEF Kinds
    <2> QED
        BY <1>5, <2>1, FreshRead
<1>7. x.by = Nobody /\ x.at = "none"
    BY <1>5
<1>8. read \in [Reads -> ReadRecord] /\ \A r \in Reads : read[r] = x
    BY <1>1, <1>4, <1>6
<1>9. PICK y : y = [pc |-> "idle", tail |-> TRUE, expired |-> FALSE, last |-> "none", more |-> FALSE,
                    from |-> 0, held |-> 0, text |-> <<>>, cut |-> FALSE]
    OBVIOUS
<1>10. y \in ClientRecord
    <2>1. "none" \in Answers /\ <<>> \in Seq(Glyphs) /\ FALSE \in BOOLEAN /\ 0 \in Nat
        BY DEF Answers
    <2> QED
        BY <1>9, <2>1, FreshClient
<1>11. y.from = 0 /\ y.held = 0 /\ y.last = "none" /\ y.text = <<>>
    BY <1>9
<1>12. client \in [Clients -> ClientRecord] /\ \A c \in Clients : client[c] = y
    BY <1>9, <1>10 DEF JobInit
<1>13. JobTypes
    BY <1>1, <1>2, <1>8, <1>12 DEF JobTypes
<1>14. KernelInv /\ FilesInv
    BY <1>1, <1>3 DEF KernelInv, FilesInv, Single, Queued, Ended
<1>15. ReadsInv /\ OneRead /\ AllAsked
    BY <1>7, <1>8, JobAssumption DEF ReadsInv, ReadInv, OneRead, AllAsked, AskedInv
<1>16. CallerInv(y)
    <2>1. SubSeq(Output, 0 + 1, 0) = <<>> /\ <<>> \in Seq(Bytes)
        BY JobAssumption
    <2>2. Decoded(<<>>) = <<>>
        <3>1. PICK f : /\ f = [i \in 0..Len(<<>>) |-> IF i = 0 THEN <<>> ELSE f[i - 1] \o Piece(<<>>, i)]
                       /\ Decoded(<<>>) = f[Len(<<>>)]
            BY <2>1, DecodedFacts
        <3>2. Len(<<>>) = 0 /\ 0 \in 0..Len(<<>>)
            OBVIOUS
        <3>3. f[0] = <<>>
            BY <3>1, <3>2
        <3> QED
            BY <3>1, <3>2, <3>3
    <2>3. y.text = Decoded(SubSeq(Output, y.from + 1, y.held))
        BY <1>11, <2>1, <2>2
    <2> QED
        BY <1>0, <1>3, <1>11, <2>3 DEF CallerInv, Ended
<1> QED
    BY <1>12, <1>13, <1>14, <1>15, <1>16 DEF JobInv, CallersInv

LEMMA JobInvStays ==
    ASSUME JobInv, [JobNext]_jobVars
    PROVE  JobInv'
<1>1. CASE UNCHANGED jobVars
    <2>1. UNCHANGED <<cli, alive, inflight, lock, queue, job, launch, read, client>>
        BY <1>1 DEF jobVars
    <2>2. JobTypes' /\ KernelInv' /\ FilesInv'
        BY <2>1 DEF JobInv, JobTypes, KernelInv, Single, Queued, FilesInv, Kept
    <2>3. ReadsInv' /\ OneRead' /\ AllAsked' /\ CallersInv'
        BY <2>1 DEF JobInv, ReadsInv, ReadInv, OneRead, AllAsked, AskedInv, CallersInv, CallerInv, Kept
    <2> QED
        BY <2>2, <2>3 DEF JobInv
<1>2. ASSUME NEW r \in Reads, OfRead(r)
      PROVE  JobInv'
    BY <1>2, ReadSteps, DeliverSteps DEF OfRead
<1> QED
    BY <1>1, <1>2, EnvironmentSteps, LaunchSteps, ClientSteps DEF JobNext

LEMMA JobInvariant == JobSpec => []JobInv
<1>1. JobInit => JobInv
    BY JobInvStarts
<1>2. JobInv /\ [JobNext]_jobVars => JobInv'
    BY JobInvStays
<1> QED
    BY <1>1, <1>2, PTL DEF JobSpec

\* A job id is handed out only for a wrapper that was started, and a launch
\* that was heard to fail started none; every variable stays in its range.
THEOREM LaunchesAreTrue == JobSpec => []LaunchAnswersAreTrue
<1>1. JobInv => LaunchAnswersAreTrue
    <2> SUFFICES ASSUME JobInv
                 PROVE  LaunchAnswersAreTrue
        OBVIOUS
    <2>1. JobTypes /\ KernelInv
        BY DEF JobInv
    <2>2. queue \in Seq(Runners)
        BY <2>1 DEF KernelInv, Single
    <2>3. \A i \in DOMAIN queue : queue[i] \in {Human, Launcher, Fore} \cup Reads
        BY <2>2 DEF Runners
    <2>4. ASSUME NEW r \in Reads
          PROVE  /\ read[r].at \in {"none", "lock", "kernel", "size", "window", "done"}
                 /\ read[r].by \in Clients \cup {Nobody}
                 /\ read[r].start <= read[r].nx \/ read[r].at # "done"
        <3>1. read[r] \in ReadRecord /\ ReadInv(read[r])
            BY DEF JobInv, JobTypes, ReadsInv
        <3> QED
            BY <3>1 DEF ReadRecord, ReadInv, Kinds
    <2>5. ASSUME NEW c \in Clients
          PROVE  /\ client[c].pc \in {"idle", "check", "oob", "read", "sleep"}
                 /\ client[c].from <= client[c].held /\ client[c].held <= Len(Output)
        <3>1. client[c] \in ClientRecord /\ CallerInv(client[c])
            BY DEF JobInv, JobTypes, CallersInv
        <3> QED
            BY <3>1 DEF ClientRecord, CallerInv
    <2>6. job \in [proc : {"none", "script", "exited", "recording", "over", "killed"},
                   status : {"absent", "running", "empty", "done", "error"}, written : 0..Len(Output)]
        BY <2>1, Zenon DEF JobTypes, JobRecord, Procs, Statuses
    <2>7. JobTypeOK
        BY <2>1, <2>3, <2>4, <2>5, <2>6 DEF JobTypeOK, JobTypes
    <2> QED
        BY <2>1, <2>7 DEF LaunchAnswersAreTrue, KernelInv
<1> QED
    BY <1>1, JobInvariant, PTL

\* A caller that is told that the job ended, and that nothing follows its
\* window, holds all that the job printed.
THEOREM EndIsWhole == JobSpec => []EndCoversOutput
<1>1. JobInv => EndCoversOutput
    BY DEF JobInv, CallersInv, CallerInv, Ended, EndCoversOutput
<1> QED
    BY <1>1, JobInvariant, PTL

\* The pieces that a caller put together are the output between its first
\* offset and its last, when no window began or ended inside a character.
THEOREM StreamIsWhole == JobSpec => []StreamLosesNothing
<1>1. JobInv => StreamLosesNothing
    BY DEF JobInv, CallersInv, CallerInv, StreamLosesNothing
<1> QED
    BY <1>1, JobInvariant, PTL

-----------------------------------------------------------------------------
(* Output without wide characters.                                         *)

Narrow == \A i \in DOMAIN Output : Output[i] # "h"
Uncut == \A c \in Clients : client[c].cut = FALSE

\* A step that leaves the caller c its record, but for what is not its text.
LEMMA UncutAnswer ==
    ASSUME JobInv, Uncut, NEW c \in Clients, NEW y, y.cut = client[c].cut, client' = [client EXCEPT ![c] = y]
    PROVE  Uncut'
<1>1. client \in [Clients -> ClientRecord]
    BY DEF JobInv, JobTypes
<1>2. \A d \in Clients : client'[d] = IF d = c THEN y ELSE client[d]
    BY <1>1
<1> QED
    BY <1>2 DEF Uncut

LEMMA UncutReply ==
    ASSUME JobInv, Uncut, NEW c \in Clients, NEW answer, Answered(c, answer)
    PROVE  Uncut'
<1>1. client \in [Clients -> ClientRecord] /\ client[c] \in ClientRecord
    BY DEF JobInv, JobTypes
<1>2. PICK y : y = [client[c] EXCEPT !.pc = "idle", !.tail = TRUE, !.expired = FALSE, !.last = answer]
    OBVIOUS
<1>3. y.cut = client[c].cut
    BY <1>1, <1>2 DEF ClientRecord
<1>4. client' = [client EXCEPT ![c] = y]
    BY <1>1, <1>2 DEF Answered
<1> QED
    BY <1>3, <1>4, UncutAnswer

LEMMA UncutDeliver ==
    ASSUME Narrow, JobInv, Uncut, NEW r \in Reads, Deliver(r)
    PROVE  Uncut'
<1>0. /\ client \in [Clients -> ClientRecord] /\ read[r] \in ReadRecord /\ Len(Output) \in Nat
      /\ DOMAIN Output = 1..Len(Output)
    BY JobAssumption DEF JobInv, JobTypes
<1>1. CASE read[r].by = Nobody
    <2>1. client' = client
        BY <1>1 DEF Deliver
    <2> QED
        BY <2>1 DEF Uncut
<1>2. CASE read[r].by # Nobody
    <2>1. PICK c \in Clients : c = read[r].by
        BY <1>0, <1>2 DEF ReadRecord
    <2>2. PICK again : again = (Normalised(read[r].st) = "running_in_background" /\ ~ client[c].expired)
        OBVIOUS
    <2>3. CASE again
        <3>1. PICK y : y = [client[c] EXCEPT !.pc = "sleep"]
            OBVIOUS
        <3>2. client[c] \in ClientRecord
            BY <1>0
        <3>3. y.cut = client[c].cut
            BY <3>1, <3>2 DEF ClientRecord
        <3>4. client' = [client EXCEPT ![c] = y]
            BY <1>0, <1>2, <2>1, <2>2, <2>3, <3>1 DEF Deliver
        <3> QED
            BY <3>3, <3>4, UncutAnswer
    <2>4. CASE ~ again
        <3>1. PICK y : y = [pc |-> "idle", tail |-> TRUE, expired |-> FALSE, last |-> Normalised(read[r].st),
                            more |-> read[r].nx < read[r].tot,
                            from |-> IF read[r].tail THEN read[r].start ELSE client[c].from,
                            held |-> read[r].nx,
                            text |-> IF read[r].tail THEN Decoded(SubSeq(Output, read[r].start + 1, read[r].nx))
                                     ELSE client[c].text \o Decoded(SubSeq(Output, read[r].start + 1, read[r].nx)),
                            cut |-> (~ read[r].tail /\ client[c].cut)
                                      \/ \E e \in {read[r].start, read[r].nx} : CutsCharacter(e)]
            OBVIOUS
        <3>2. client' = [client EXCEPT ![c] = y]
            BY <1>0, <1>2, <2>1, <2>2, <2>4, <3>1 DEF Deliver, NextOffset
        <3>3. ASSUME NEW e \in Nat PROVE ~ CutsCharacter(e)
            <4>1. 0 < e /\ e < Len(Output) => e \in DOMAIN Output
                BY <1>0
            <4> QED
                BY <4>1 DEF CutsCharacter, Narrow
        <3>4. read[r].start \in Nat /\ read[r].nx \in Nat
            BY <1>0 DEF ReadRecord
        <3>5. client[c].cut = FALSE
            BY DEF Uncut
        <3>6. y.cut = FALSE
            BY <3>1, <3>3, <3>4, <3>5
        <3> QED
            BY <3>2, <3>5, <3>6, UncutAnswer
    <2> QED
        BY <2>3, <2>4
<1> QED
    BY <1>1, <1>2

LEMMA UncutClient ==
    ASSUME JobInv, Uncut, NEW c \in Clients, OfClient(c)
    PROVE  Uncut'
<1>0. client \in [Clients -> ClientRecord] /\ client[c] \in ClientRecord
    BY DEF JobInv, JobTypes
<1>1. CASE client' = [client EXCEPT ![c].pc = "read"]
    <2>1. PICK y : y = [client[c] EXCEPT !.pc = "read"]
        OBVIOUS
    <2>2. y.cut = client[c].cut /\ client' = [client EXCEPT ![c] = y]
        BY <1>0, <1>1, <2>1 DEF ClientRecord
    <2> QED
        BY <2>2, UncutAnswer
<1>2. CASE client' = [client EXCEPT ![c].pc = "oob"] \/ client' = [client EXCEPT ![c].pc = "check"]
    <2>1. PICK at, y : at \in {"oob", "check"} /\ y = [client[c] EXCEPT !.pc = at]
                       /\ client' = [client EXCEPT ![c].pc = at]
        BY <1>2
    <2>2. y.cut = client[c].cut /\ client' = [client EXCEPT ![c] = y]
        BY <1>0, <2>1 DEF ClientRecord
    <2> QED
        BY <2>2, UncutAnswer
<1>3. CASE DeadlinePasses(c)
    <2>1. PICK y : y = [client[c] EXCEPT !.expired = TRUE]
        OBVIOUS
    <2>2. y.cut = client[c].cut /\ client' = [client EXCEPT ![c] = y]
        BY <1>0, <1>3, <2>1 DEF DeadlinePasses, ClientRecord
    <2> QED
        BY <2>2, UncutAnswer
<1>4. CASE Call(c)
    <2>1. PICK tail, expired \in BOOLEAN :
             client' = [client EXCEPT ![c].pc = "check", ![c].tail = tail, ![c].expired = expired,
                                      ![c].last = "none", ![c].more = FALSE]
        BY <1>4 DEF Call
    <2>2. PICK y : y = [client[c] EXCEPT !.pc = "check", !.tail = tail, !.expired = expired, !.last = "none",
                                         !.more = FALSE]
        OBVIOUS
    <2>3. y.cut = client[c].cut /\ client' = [client EXCEPT ![c] = y]
        BY <1>0, <2>1, <2>2 DEF ClientRecord
    <2> QED
        BY <2>3, UncutAnswer
<1>5. CASE Answered(c, "kernel_busy")
    BY <1>5, UncutReply
<1> QED
    BY <1>1, <1>2, <1>3, <1>4, <1>5 DEF OfClient, Check, Oob, StartRead, Wake, Abandon

LEMMA UncutRead ==
    ASSUME Narrow, JobInv, Uncut, NEW r \in Reads, OfRead(r)
    PROVE  Uncut'
<1>1. CASE Deliver(r)
    BY <1>1, UncutDeliver
<1>2. CASE client' = client
    BY <1>2 DEF Uncut
<1>3. ASSUME NEW answer, EndRead(r, answer) PROVE Uncut'
    <2>1. read[r].by \in Clients \cup {Nobody}
        BY DEF JobInv, JobTypes, ReadRecord
    <2>2. read[r].by # Nobody => Answered(read[r].by, answer)
        BY <1>3 DEF EndRead
    <2>3. read[r].by = Nobody => client' = client
        BY <1>3 DEF EndRead
    <2> QED
        BY <1>2, <2>1, <2>2, <2>3, UncutReply
<1> QED
    BY <1>1, <1>2, <1>3 DEF OfRead, TakeLock, LockExpires, ReadLost, ReadBroken, ReadStatus, ReadSize, ReadWindow, WindowRead

\* When the job prints no wide character, the streamed text is the output,
\* wherever the windows end: what StreamLosesNothing excepts is cut characters.
THEOREM NarrowStreamIsOutput == Narrow => (JobSpec => []StreamedTextIsOutput)
<1> SUFFICES ASSUME Narrow
             PROVE  JobSpec => []StreamedTextIsOutput
    OBVIOUS
<1>1. JobInit => Uncut
    BY DEF JobInit, Uncut
<1>2. JobInv /\ Uncut /\ [JobNext]_jobVars => Uncut'
    <2> SUFFICES ASSUME JobInv, Uncut, [JobNext]_jobVars
                 PROVE  Uncut'
        OBVIOUS
    <2>1. CASE UNCHANGED client
        BY <2>1 DEF Uncut
    <2>2. CASE Environment \/ Launch
        <3>1. client' = client
            BY <2>2, Zenon DEF Environment, Launch, HumanRuns, HumanEnds, ForeClaims, ForeLocks, ForeEnds, KernelDies,
                 ScriptPrints, ScriptEnds, Truncates, Records, WrapperKilled, JobStep,
                 LaunchCall, LaunchLocks, WritesRunning, Spawns, LaunchReplies, LaunchFails, LaunchUnheard, EndLaunch
        <3> QED
            BY <2>1, <3>1
    <2>3. ASSUME NEW r \in Reads, OfRead(r) PROVE Uncut'
        BY <2>3, UncutRead
    <2>4. ASSUME NEW c \in Clients, OfClient(c) PROVE Uncut'
        BY <2>4, UncutClient
    <2> QED
        BY <2>1, <2>2, <2>3, <2>4 DEF JobNext, jobVars
<1>3. JobInv /\ Uncut => StreamedTextIsOutput
    BY DEF JobInv, CallersInv, CallerInv, Uncut, StreamedTextIsOutput
<1> QED
    BY <1>1, <1>2, <1>3, JobInvariant, PTL DEF JobSpec

==============================================================================
