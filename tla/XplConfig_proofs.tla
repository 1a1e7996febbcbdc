-------------------------- MODULE XplConfig_proofs --------------------------
(***************************************************************************)
(* Proofs about the configuration of a service: what its file and its      *)
(* answers give back, for every definition of configurables, every text,   *)
(* every response and every moment at which the program may end.           *)
(***************************************************************************)
EXTENDS XplConfig, FiniteSetTheorems, WellFoundedInduction, TLAPS

\* Filters as parseFilter leaves them.
DotFree == {t \in Seq(Token) : \A k \in 1..Len(t) : t[k] # "."}
Canonical ==
  {f \in [type : {<<x>> : x \in FilterTypes \cup {"*"}},
          vendor : DotFree, device : DotFree, instance : DotFree, class : DotFree,
          schema : Seq(Token)] :
     /\ Kept(f.vendor) = f.vendor /\ Kept(f.device) = f.device
     /\ Kept(f.instance) = f.instance /\ Kept(f.class) = f.class
     /\ Kept(f.schema) = f.schema}

\* The items of a service are among those the program defines, each listed once
\* and with no more values than it can hold.
Item ==
  {item \in [name : Name, type : ItemTypes, max : Nat, values : Seq(Text)] :
     /\ item.type = Definition[item.name].type /\ item.max = Definition[item.name].max
     /\ Len(item.values) <= item.max}
Distinct(items) == \A i, j \in 1..Len(items) : items[i].name = items[j].name => i = j
Configs ==
  {s \in [enabled : BOOLEAN, configured : BOOLEAN, id : Id \cup {FreshId},
          interval : Minutes \cup {DEFAULT_MINUTES}, groups : Seq(Group \ {Blank}),
          filters : Seq(Canonical), items : Seq(Item)] :
     Distinct(s.items)}

Complete(s) == ItemNames(s) = Name

Types ==
  /\ service = NoService \/ service \in Configs
  /\ file = NoFile \/ file \in Seq(Element)
  /\ toWrite \in Seq(Element)
  /\ torn \in BOOLEAN

\* What is in the file and what is still to be written are together what the
\* service saves; a save that was completed left the lines of what was saved.
Saves ==
  /\ toWrite # <<>> =>
       /\ service # NoService /\ service.configured
       /\ file # NoFile /\ file \o toWrite = Lines(service)
  /\ saved # Nothing =>
       /\ saved \in Configs /\ saved.configured /\ ~saved.enabled
       /\ toWrite = <<>> /\ file # NoFile /\ file = Lines(saved)

Answers == told # Nothing => told \in Configs /\ answer = CurrentConfig(told)

\* Unless a save was torn, a file holds the lines of a complete service.
Restores ==
  ~torn =>
    /\ (service # NoService /\ (service.enabled \/ service.configured) => Complete(service))
    /\ (toWrite = <<>> /\ file # NoFile =>
         \E s \in Configs : s.configured /\ Complete(s) /\ file = Lines(s))

FInv == Types /\ Saves /\ Answers /\ Restores
-----------------------------------------------------------------------------
LEMMA LeastNatural ==
  ASSUME NEW T \in SUBSET Nat, T # {}
  PROVE  \E x \in T : \A y \in T : x <= y
<1>1. \E x \in T : \A y \in T : <<y, x>> \notin OpToRel(<, Nat)
  BY NatLessThanWellFounded, WFMin
<1>2. ASSUME NEW x \in T, NEW y \in T, <<y, x>> \notin OpToRel(<, Nat)
      PROVE  x <= y
  BY <1>2 DEF OpToRel
<1> QED BY <1>1, <1>2

\* What holds at the start, and one step further wherever it holds, holds all
\* the way.
LEMMA Stepwise ==
  ASSUME NEW n \in Nat, NEW S, 0 \in S,
         \A k \in 0..n - 1 : k \in S => k + 1 \in S
  PROVE  \A k \in 0..n : k \in S
<1> DEFINE T == {k \in 0..n : k \notin S}
<1> SUFFICES ASSUME T # {} PROVE FALSE
  OBVIOUS
<1>1. PICK k \in T : \A y \in T : k <= y
  BY LeastNatural, T \in SUBSET Nat
<1>2. k # 0 /\ k - 1 \in 0..n - 1 /\ k - 1 \notin T
  BY <1>1
<1>3. k - 1 \in S /\ (k - 1) + 1 = k
  BY <1>2, <1>1
<1> QED BY <1>1, <1>2, <1>3
-----------------------------------------------------------------------------
(* Filters. *)

LEMMA NextDotIs ==
  ASSUME NEW t \in Seq(Token), NEW i \in Nat, NEW j \in 1..Len(t) + 1, i < j,
         j = Len(t) + 1 \/ t[j] = ".",
         \A k \in 1..Len(t) : i < k /\ k < j => t[k] # "."
  PROVE  NextDot(t, i) = j
<1> DEFINE D == {k \in DOMAIN t : k > i /\ t[k] = "."} \cup {Len(t) + 1}
<1>1. j \in D /\ \A k \in D : j <= k
  OBVIOUS
<1>2. \A m \in D : (\A k \in D : m <= k) => m = j
  BY <1>1
<1>3. Min(D) = j
  BY <1>1, <1>2 DEF Min
<1> QED BY <1>3 DEF NextDot

LEMMA NextDotExists ==
  ASSUME NEW t \in Seq(Token), NEW i \in Nat
  PROVE  /\ NextDot(t, i) \in 1..Len(t) + 1
         /\ NextDot(t, i) # Len(t) + 1 => NextDot(t, i) > i /\ t[NextDot(t, i)] = "."
         /\ \A k \in 1..Len(t) : i < k /\ k < NextDot(t, i) => t[k] # "."
<1> DEFINE D == {k \in DOMAIN t : k > i /\ t[k] = "."} \cup {Len(t) + 1}
<1>1. D \in SUBSET Nat /\ D # {}
  OBVIOUS
<1>2. PICK m \in D : \A k \in D : m <= k
  BY <1>1, LeastNatural
<1>3. Min(D) \in D /\ \A k \in D : Min(D) <= k
  BY <1>2 DEF Min
<1>4. NextDot(t, i) = Min(D)
  BY DEF NextDot
<1> HIDE DEF D
<1>5. NextDot(t, i) \in D /\ \A k \in D : NextDot(t, i) <= k
  BY <1>3, <1>4
<1> QED BY <1>5 DEF D

LEMMA BetweenDots ==
  ASSUME NEW t \in Seq(Token), NEW i \in Nat, NEW j \in 1..Len(t) + 1,
         \A k \in 1..Len(t) : i < k /\ k < j => t[k] # "."
  PROVE  Between(t, i, j) \in DotFree
<1>1. Between(t, i, j) \in Seq(Token)
  BY DEF Between
<1>2. \A k \in 1..Len(Between(t, i, j)) : Between(t, i, j)[k] = t[i + k] /\ i + k < j
                                            /\ i + k \in 1..Len(t)
  BY DEF Between
<1> QED BY <1>1, <1>2 DEF DotFree

LEMMA KeptOnce ==
  ASSUME NEW t \in Seq(Token)
  PROVE  /\ Kept(t) \in Seq(Token) /\ Kept(Kept(t)) = Kept(t)
         /\ t \in DotFree => Kept(t) \in DotFree
<1>1. Anything \in DotFree /\ Head(Anything) = "*" /\ Anything # <<>>
  BY ConfigAssumption DEF DotFree, Anything
<1> QED BY <1>1 DEF Kept, DotFree

\* parseFilter leaves filters whose fields hold no dot, the last one excepted.
LEMMA ParsedIsCanonical ==
  ASSUME NEW t \in Seq(Token), IsFilter(t)
  PROVE  parseFilter(t) \in Canonical
<1> DEFINE d1 == NextDot(t, 0)   d2 == NextDot(t, d1)  d3 == NextDot(t, d2)
           d4 == NextDot(t, d3)  d5 == NextDot(t, d4)
<1>1. d1 \in Nat /\ d2 \in Nat /\ d3 \in Nat /\ d4 \in Nat /\ d5 \in Nat
  <2> USE NextDotExists
  <2>1. d1 \in Nat
    OBVIOUS
  <2>2. d2 \in Nat
    BY <2>1
  <2>3. d3 \in Nat
    BY <2>2
  <2>4. d4 \in Nat
    BY <2>3
  <2> QED BY <2>1, <2>2, <2>3, <2>4
<1>2. /\ Between(t, d1, d2) \in DotFree /\ Between(t, d2, d3) \in DotFree
      /\ Between(t, d3, d4) \in DotFree /\ Between(t, d4, d5) \in DotFree
  BY <1>1, NextDotExists, BetweenDots
<1>3. Between(t, d5, Len(t) + 1) \in Seq(Token)
  BY <1>1 DEF Between
<1>4. t[1] \in FilterTypes \cup {"*"}
  BY DEF IsFilter
<1>5. parseFilter(t) =
        [type |-> <<t[1]>>, vendor |-> Kept(Between(t, d1, d2)),
         device |-> Kept(Between(t, d2, d3)), instance |-> Kept(Between(t, d3, d4)),
         class |-> Kept(Between(t, d4, d5)), schema |-> Kept(Between(t, d5, Len(t) + 1))]
  BY DEF parseFilter, Dots
<1> HIDE DEF d1, d2, d3, d4, d5
<1>6. DotFree \subseteq Seq(Token)
  BY DEF DotFree
<1>7. ASSUME NEW f \in DotFree
      PROVE  Kept(f) \in DotFree /\ Kept(Kept(f)) = Kept(f)
  BY <1>6, KeptOnce
<1>8. Kept(Between(t, d5, Len(t) + 1)) \in Seq(Token)
      /\ Kept(Kept(Between(t, d5, Len(t) + 1))) = Kept(Between(t, d5, Len(t) + 1))
  BY <1>3, KeptOnce
<1> QED BY <1>2, <1>4, <1>5, <1>7, <1>8 DEF Canonical

LEMMA SameSequence ==
  ASSUME NEW S, NEW a \in Seq(S), NEW b \in Seq(S), Len(a) = Len(b),
         \A k \in 1..Len(a) : a[k] = b[k]
  PROVE  a = b
<1>1. a = [k \in 1..Len(a) |-> a[k]] /\ b = [k \in 1..Len(b) |-> b[k]]
  OBVIOUS
<1> QED BY <1>1

Dot == <<".">>
LEMMA DotType == Dot \in Seq(Token)
BY ConfigAssumption DEF Dot

\* A field of a text stands between the dot before it and the next one.
LEMMA Cut ==
  ASSUME NEW p \in Seq(Token), NEW q \in DotFree, NEW r \in Seq(Token)
  PROVE  /\ NextDot((p \o q) \o (Dot \o r), Len(p)) = Len(p) + Len(q) + 1
         /\ Len(p) + Len(q) + 1 \in 1..Len((p \o q) \o (Dot \o r))
         /\ Between((p \o q) \o (Dot \o r), Len(p), Len(p) + Len(q) + 1) = q
<1> DEFINE t == (p \o q) \o (Dot \o r)
<1>1. q \in Seq(Token) /\ Dot \in Seq(Token) /\ Dot \o r \in Seq(Token) /\ Len(Dot) = 1
      /\ Dot[1] = "."
  BY DotType DEF DotFree, Dot
<1>2. p \o q \in Seq(Token) /\ t \in Seq(Token) /\ Len(t) = Len(p) + Len(q) + 1 + Len(r)
  <2>1. p \o q \in Seq(Token) /\ Len(p \o q) = Len(p) + Len(q)
    BY <1>1
  <2>2. Len(Dot \o r) = 1 + Len(r)
    <3>1. Len(Dot \o r) = Len(Dot) + Len(r)
      BY DotType
    <3> QED BY <1>1, <3>1
  <2>3. t \in Seq(Token) /\ Len(t) = Len(p \o q) + Len(Dot \o r)
    BY <1>1, <2>1
  <2>4. Len(p) \in Nat /\ Len(q) \in Nat /\ Len(r) \in Nat
    BY <1>1
  <2> HIDE DEF t
  <2> QED BY <2>1, <2>2, <2>3, <2>4
<1>3. t[Len(p) + Len(q) + 1] = "."
  BY <1>1, <1>2
<1>4. ASSUME NEW k \in 1..Len(q)
      PROVE  t[Len(p) + k] = q[k]
  BY <1>1, <1>2
<1> HIDE DEF t
<1>5. \A k \in 1..Len(t) : Len(p) < k /\ k < Len(p) + Len(q) + 1 => t[k] # "."
  <2> SUFFICES ASSUME NEW k \in 1..Len(t), Len(p) < k, k < Len(p) + Len(q) + 1
               PROVE  t[k] # "."
    OBVIOUS
  <2>1. k - Len(p) \in 1..Len(q) /\ Len(p) + (k - Len(p)) = k
    BY <1>1
  <2>2. t[k] = q[k - Len(p)]
    BY <2>1, <1>4
  <2> QED BY <2>1, <2>2 DEF DotFree
<1>6. NextDot(t, Len(p)) = Len(p) + Len(q) + 1
  <2>1. Len(p) \in Nat /\ Len(p) + Len(q) + 1 \in 1..Len(t) + 1 /\ Len(p) < Len(p) + Len(q) + 1
    BY <1>1, <1>2
  <2> QED BY <1>2, <1>3, <1>5, <2>1, NextDotIs
<1>7. SubSeq(t, Len(p) + 1, Len(p) + Len(q)) = q
  <2> DEFINE u == SubSeq(t, Len(p) + 1, Len(p) + Len(q))
  <2>1. u \in Seq(Token) /\ Len(u) = Len(q)
    BY <1>1, <1>2
  <2>2. \A k \in 1..Len(q) : u[k] = q[k]
    BY <1>1, <1>2, <1>4
  <2> HIDE DEF u
  <2>3. u = q
    BY <1>1, <2>1, <2>2, SameSequence
  <2> QED BY <2>3 DEF u
<1>8. (Len(p) + Len(q) + 1) - 1 = Len(p) + Len(q)
  BY <1>1
<1>9. Between(t, Len(p), Len(p) + Len(q) + 1) = q
  BY <1>7, <1>8 DEF Between
<1>10. Len(p) + Len(q) + 1 \in 1..Len(t)
  BY <1>1, <1>2
<1> QED BY <1>6, <1>9, <1>10 DEF t

LEMMA Associate ==
  ASSUME NEW a \in Seq(Token), NEW b \in Seq(Token), NEW c \in Seq(Token)
  PROVE  (a \o b) \o c = a \o (b \o c)
OBVIOUS

LEMMA Shift ==
  ASSUME NEW p \in Seq(Token), NEW q \in Seq(Token), NEW r \in Seq(Token)
  PROVE  /\ ((p \o q) \o Dot) \o r = (p \o q) \o (Dot \o r)
         /\ ((p \o q) \o Dot) \o r = p \o ((q \o Dot) \o r)
<1> USE DotType
<1>1. p \o q \in Seq(Token) /\ q \o Dot \in Seq(Token)
  OBVIOUS
<1>2. ((p \o q) \o Dot) \o r = (p \o q) \o (Dot \o r)
  BY <1>1, Associate
<1>3. (p \o (q \o Dot)) \o r = p \o ((q \o Dot) \o r)
  <2>1. \A u \in Seq(Token) : (p \o u) \o r = p \o (u \o r)
    BY Associate
  <2> QED BY <1>1, <2>1, Zenon
<1>4. (p \o q) \o Dot = p \o (q \o Dot)
  BY Associate
<1> QED BY <1>2, <1>3, <1>4

\* The text of a filter is read as that filter.
LEMMA FormatThenParse ==
  ASSUME NEW f \in Canonical
  PROVE  /\ formatFilter(f) \in Seq(Token)
         /\ IsFilter(formatFilter(f)) /\ parseFilter(formatFilter(f)) = f
<1> DEFINE t == formatFilter(f)
           p2 == f.type \o Dot                   p3 == (p2 \o f.vendor) \o Dot
           p4 == (p3 \o f.device) \o Dot         p5 == (p4 \o f.instance) \o Dot
           p6 == (p5 \o f.class) \o Dot
           r5 == f.schema                        r4 == (f.class \o Dot) \o r5
           r3 == (f.instance \o Dot) \o r4       r2 == (f.device \o Dot) \o r3
           r1 == (f.vendor \o Dot) \o r2
<1>1. PICK x \in FilterTypes \cup {"*"} : f.type = <<x>>
  BY DEF Canonical
<1>2. Dot \in Seq(Token) /\ x # "." /\ f.type \in DotFree
  BY <1>1, ConfigAssumption, DotType DEF FilterTypes, DotFree
<1>3. /\ f.vendor \in DotFree /\ f.device \in DotFree /\ f.instance \in DotFree
      /\ f.class \in DotFree /\ f.schema \in Seq(Token)
  BY DEF Canonical
<1>4. DotFree \subseteq Seq(Token)
  BY DEF DotFree
<1>26. /\ f.type \in Seq(Token) /\ f.vendor \in Seq(Token) /\ f.device \in Seq(Token)
       /\ f.instance \in Seq(Token) /\ f.class \in Seq(Token)
  BY <1>2, <1>3, <1>4
<1>5. /\ p2 \in Seq(Token) /\ p3 \in Seq(Token) /\ p4 \in Seq(Token)
      /\ p5 \in Seq(Token) /\ p6 \in Seq(Token)
  BY <1>2, <1>3, <1>4
<1>6. /\ r5 \in Seq(Token) /\ r4 \in Seq(Token) /\ r3 \in Seq(Token)
      /\ r2 \in Seq(Token) /\ r1 \in Seq(Token)
  BY <1>2, <1>3, <1>4
<1> HIDE DEF p2, p3, p4, p5, p6, r1, r2, r3, r4, r5
<1>8. t = p6 \o r5
  BY DEF formatFilter, Dot, p2, p3, p4, p5, p6, r5
<1>9. p6 \o r5 = p5 \o r4 /\ p6 \o r5 = (p5 \o f.class) \o (Dot \o r5)
  <2>1. p5 \in Seq(Token) /\ f.class \in Seq(Token) /\ r5 \in Seq(Token)
    BY <1>5, <1>6, <1>26
  <2> QED BY <1>2, <2>1, Shift DEF p6, r4
<1>10. p5 \o r4 = p4 \o r3 /\ p5 \o r4 = (p4 \o f.instance) \o (Dot \o r4)
  <2>1. p4 \in Seq(Token) /\ f.instance \in Seq(Token) /\ r4 \in Seq(Token)
    BY <1>5, <1>6, <1>26
  <2> QED BY <1>2, <2>1, Shift DEF p5, r3
<1>11. p4 \o r3 = p3 \o r2 /\ p4 \o r3 = (p3 \o f.device) \o (Dot \o r3)
  <2>1. p3 \in Seq(Token) /\ f.device \in Seq(Token) /\ r3 \in Seq(Token)
    BY <1>5, <1>6, <1>26
  <2> QED BY <1>2, <2>1, Shift DEF p4, r2
<1>12. p3 \o r2 = p2 \o r1 /\ p3 \o r2 = (p2 \o f.vendor) \o (Dot \o r2)
  <2>1. p2 \in Seq(Token) /\ f.vendor \in Seq(Token) /\ r2 \in Seq(Token)
    BY <1>5, <1>6, <1>26
  <2> QED BY <1>2, <2>1, Shift DEF p3, r1
<1>13. p2 \o r1 = (<<>> \o f.type) \o (Dot \o r1)
  <2>1. <<>> \o f.type = f.type
    BY <1>26
  <2>2. (f.type \o Dot) \o r1 = f.type \o (Dot \o r1)
    <3>1. \A c \in Seq(Token) : (f.type \o Dot) \o c = f.type \o (Dot \o c)
      BY <1>2, <1>26, Associate
    <3> QED BY <1>6, <3>1, Zenon
  <2> QED BY <2>1, <2>2 DEF p2
<1> DEFINE d1 == Len(p2)  d2 == Len(p3)  d3 == Len(p4)  d4 == Len(p5)  d5 == Len(p6)
<1>14. /\ d1 = Len(<<>>) + Len(f.type) + 1 /\ d2 = d1 + Len(f.vendor) + 1
       /\ d3 = d2 + Len(f.device) + 1 /\ d4 = d3 + Len(f.instance) + 1
       /\ d5 = d4 + Len(f.class) + 1
  BY <1>2, <1>3, <1>4, <1>5 DEF p2, p3, p4, p5, p6, Dot
<1>25. t \in Seq(Token)
  BY <1>5, <1>6, <1>8
<1> HIDE DEF t
<1>15. NextDot(t, 0) = d1
  <2>1. <<>> \in Seq(Token) /\ Len(<<>>) = 0
    OBVIOUS
  <2>2. t = (<<>> \o f.type) \o (Dot \o r1)
    BY <1>8, <1>9, <1>10, <1>11, <1>12, <1>13
  <2>3. NextDot(t, Len(<<>>)) = Len(<<>>) + Len(f.type) + 1
    BY <1>2, <1>6, <2>1, <2>2, Cut
  <2> QED BY <1>14, <2>1, <2>3
<1>16. NextDot(t, d1) = d2 /\ Between(t, d1, d2) = f.vendor
  <2>1. t = (p2 \o f.vendor) \o (Dot \o r2)
    BY <1>8, <1>9, <1>10, <1>11, <1>12
  <2>2. /\ NextDot(t, Len(p2)) = Len(p2) + Len(f.vendor) + 1
        /\ Between(t, Len(p2), Len(p2) + Len(f.vendor) + 1) = f.vendor
    BY <1>3, <1>5, <1>6, <2>1, Cut
  <2> QED BY <1>14, <2>2
<1>17. NextDot(t, d2) = d3 /\ Between(t, d2, d3) = f.device
  <2>1. t = (p3 \o f.device) \o (Dot \o r3)
    BY <1>8, <1>9, <1>10, <1>11
  <2>2. /\ NextDot(t, Len(p3)) = Len(p3) + Len(f.device) + 1
        /\ Between(t, Len(p3), Len(p3) + Len(f.device) + 1) = f.device
    BY <1>3, <1>5, <1>6, <2>1, Cut
  <2> QED BY <1>14, <2>2
<1>18. NextDot(t, d3) = d4 /\ Between(t, d3, d4) = f.instance
  <2>1. t = (p4 \o f.instance) \o (Dot \o r4)
    BY <1>8, <1>9, <1>10
  <2>2. /\ NextDot(t, Len(p4)) = Len(p4) + Len(f.instance) + 1
        /\ Between(t, Len(p4), Len(p4) + Len(f.instance) + 1) = f.instance
    BY <1>3, <1>5, <1>6, <2>1, Cut
  <2> QED BY <1>14, <2>2
<1>19. NextDot(t, d4) = d5 /\ Between(t, d4, d5) = f.class /\ d5 \in 1..Len(t)
  <2>1. t = (p5 \o f.class) \o (Dot \o r5)
    BY <1>8, <1>9
  <2>2. /\ NextDot(t, Len(p5)) = Len(p5) + Len(f.class) + 1
        /\ Between(t, Len(p5), Len(p5) + Len(f.class) + 1) = f.class
        /\ Len(p5) + Len(f.class) + 1 \in 1..Len(t)
    BY <1>3, <1>5, <1>6, <2>1, Cut
  <2> QED BY <1>14, <2>2
<1>20. Between(t, d5, Len(t) + 1) = f.schema
  <2>1. t = p6 \o f.schema /\ f.schema \in Seq(Token) /\ p6 \in Seq(Token)
    BY <1>3, <1>5, <1>8 DEF r5
  <2>2. (Len(t) + 1) - 1 = Len(p6) + Len(f.schema)
    BY <2>1
  <2>3. SubSeq(p6 \o f.schema, Len(p6) + 1, Len(p6) + Len(f.schema)) = f.schema
    BY <2>1
  <2> QED BY <2>1, <2>2, <2>3 DEF Between
<1>21. t[1] = x
  <2>1. t = (<<x>> \o Dot) \o r1 /\ <<x>> \o Dot \in Seq(Token) /\ r1 \in Seq(Token)
    BY <1>1, <1>5, <1>6, <1>8, <1>9, <1>10, <1>11, <1>12 DEF p2
  <2>2. (<<x>> \o Dot)[1] = x /\ Len(<<x>> \o Dot) = 2
    BY DEF Dot
  <2> QED BY <2>1, <2>2
<1> HIDE DEF d1, d2, d3, d4, d5
<1>22. Dots(t) = <<d1, d2, d3, d4, d5>>
  BY <1>15, <1>16, <1>17, <1>18, <1>19 DEF Dots
<1>23. IsFilter(t)
  <2>1. Dots(t)[5] = d5 /\ DOMAIN t = 1..Len(t)
    BY <1>22, <1>25
  <2> QED BY <1>19, <1>21, <2>1 DEF IsFilter
<1>24. parseFilter(t) = f
  <2>1. /\ Dots(t)[1] = d1 /\ Dots(t)[2] = d2 /\ Dots(t)[3] = d3
        /\ Dots(t)[4] = d4 /\ Dots(t)[5] = d5
    BY <1>22
  <2>2. parseFilter(t) =
          [type |-> <<x>>, vendor |-> Kept(f.vendor), device |-> Kept(f.device),
           instance |-> Kept(f.instance), class |-> Kept(f.class), schema |-> Kept(f.schema)]
    BY <1>16, <1>17, <1>18, <1>19, <1>20, <1>21, <2>1 DEF parseFilter
  <2> QED BY <1>1, <2>2 DEF Canonical
<1> QED BY <1>23, <1>24, <1>25 DEF t
-----------------------------------------------------------------------------
(* Elements taken one after the other. *)

Walks(s, elements, allow, n, w) ==
  w = [i \in 0..n |-> IF i = 0 THEN s ELSE Take(w[i - 1], elements[i], allow)]

LEMMA WalkExists ==
  ASSUME NEW s, NEW elements, NEW allow
  PROVE  \A n \in Nat : \E w : Walks(s, elements, allow, n, w)
<1> DEFINE T == {n \in Nat : ~ \E w : Walks(s, elements, allow, n, w)}
<1> SUFFICES ASSUME T # {} PROVE FALSE
  OBVIOUS
<1>1. PICK n \in T : \A k \in T : n <= k
  BY LeastNatural, T \in SUBSET Nat
<1>2. n # 0
  <2>1. Walks(s, elements, allow, 0, [i \in 0..0 |-> s])
    BY DEF Walks
  <2> QED BY <2>1
<1>3. PICK w : Walks(s, elements, allow, n - 1, w)
  <2>1. n - 1 \in Nat /\ n - 1 \notin T
    BY <1>1, <1>2
  <2> QED BY <2>1
<1> DEFINE v == [i \in 0..n |-> IF i < n THEN w[i] ELSE Take(w[n - 1], elements[n], allow)]
<1>4. Walks(s, elements, allow, n, v)
  <2> DEFINE e(i) == IF i = 0 THEN s ELSE Take(v[i - 1], elements[i], allow)
  <2>1. ASSUME NEW i \in 0..n
        PROVE  v[i] = e(i)
    <3>1. CASE i < n
      <4>1. i \in 0..n - 1 /\ (i # 0 => i - 1 \in 0..n /\ i - 1 < n)
        BY <3>1
      <4>2. v[i] = w[i] /\ (i # 0 => v[i - 1] = w[i - 1])
        BY <3>1, <4>1
      <4> HIDE DEF v
      <4> QED BY <1>3, <4>1, <4>2 DEF Walks
    <3>2. CASE ~(i < n)
      <4>1. i = n /\ n - 1 \in 0..n /\ n - 1 < n
        BY <3>2, <1>2
      <4>2. v[n - 1] = w[n - 1]
        BY <4>1
      <4> QED BY <1>2, <4>1, <4>2
    <3> QED BY <3>1, <3>2
  <2>2. v = [i \in 0..n |-> v[i]]
    OBVIOUS
  <2> HIDE DEF v
  <2> QED BY <2>1, <2>2 DEF Walks
<1> QED BY <1>1, <1>4

\* The configurations that taking elements goes through.
LEMMA TakenWalk ==
  ASSUME NEW s, NEW elements \in Seq(Element), NEW allow
  PROVE  \E w : /\ w[0] = s /\ w[Len(elements)] = Taken(s, elements, allow)
                /\ \A k \in 1..Len(elements) : w[k] = Take(w[k - 1], elements[k], allow)
<1> DEFINE n == Len(elements)
           w == CHOOSE w : Walks(s, elements, allow, n, w)
<1>1. n \in Nat
  OBVIOUS
<1>2. Walks(s, elements, allow, n, w)
  BY <1>1, WalkExists
<1>3. Taken(s, elements, allow) = w[n]
  BY DEF Taken, Walks
<1> HIDE DEF w
<1>4. w[0] = s
  BY <1>1, <1>2 DEF Walks
<1>5. ASSUME NEW k \in 1..n
      PROVE  w[k] = Take(w[k - 1], elements[k], allow)
  <2>1. k \in 0..n /\ k # 0
    BY <1>1
  <2> QED BY <1>2, <2>1 DEF Walks
<1>6. w[0] = s /\ w[Len(elements)] = Taken(s, elements, allow)
      /\ \A k \in 1..Len(elements) : w[k] = Take(w[k - 1], elements[k], allow)
  BY <1>3, <1>4, <1>5
<1> QED BY <1>6

Steps(s, elements, allow, w) ==
  /\ w[0] = s /\ w[Len(elements)] = Taken(s, elements, allow)
  /\ \A k \in 1..Len(elements) : w[k] = Take(w[k - 1], elements[k], allow)

LEMMA TakenSteps ==
  ASSUME NEW s, NEW elements \in Seq(Element), NEW allow
  PROVE  \E w : Steps(s, elements, allow, w)
BY TakenWalk DEF Steps

LEMMA TakenNothing ==
  ASSUME NEW s, NEW allow
  PROVE  Taken(s, <<>>, allow) = s
<1>1. ASSUME NEW e \in Seq(Element), Len(e) = 0
      PROVE  Taken(s, e, allow) = s
  <2>1. PICK w : w[0] = s /\ w[Len(e)] = Taken(s, e, allow)
    BY TakenWalk
  <2> QED BY <1>1, <2>1
<1>2. <<>> \in Seq(Element) /\ Len(<<>>) = 0
  OBVIOUS
<1> QED BY <1>1, <1>2

\* Taking one sequence after another is taking both.
LEMMA TakenConcat ==
  ASSUME NEW s, NEW e1 \in Seq(Element), NEW e2 \in Seq(Element), NEW allow
  PROVE  Taken(s, e1 \o e2, allow) = Taken(Taken(s, e1, allow), e2, allow)
<1> DEFINE both == e1 \o e2  n1 == Len(e1)  n2 == Len(e2)
<1>1. /\ both \in Seq(Element) /\ Len(both) = n1 + n2 /\ n1 \in Nat /\ n2 \in Nat
      /\ \A k \in 1..n1 : both[k] = e1[k]
      /\ \A k \in 1..n2 : both[n1 + k] = e2[k]
  OBVIOUS
<1> HIDE DEF both
<1>2. PICK w : /\ w[0] = s /\ w[Len(both)] = Taken(s, both, allow)
               /\ \A k \in 1..Len(both) : w[k] = Take(w[k - 1], both[k], allow)
  <2>1. both \in Seq(Element)
    BY <1>1
  <2> QED BY <2>1, TakenWalk
<1>3. PICK w1 : /\ w1[0] = s /\ w1[n1] = Taken(s, e1, allow)
                /\ \A k \in 1..n1 : w1[k] = Take(w1[k - 1], e1[k], allow)
  BY TakenWalk
<1>4. PICK w2 : /\ w2[0] = w1[n1] /\ w2[n2] = Taken(w1[n1], e2, allow)
                /\ \A k \in 1..n2 : w2[k] = Take(w2[k - 1], e2[k], allow)
  BY TakenWalk
<1>5. \A k \in 0..n1 : w[k] = w1[k]
  <2> DEFINE S == {k \in 0..n1 : w[k] = w1[k]}
  <2>1. 0 \in S
    BY <1>1, <1>2, <1>3
  <2>2. ASSUME NEW k \in 0..n1 - 1, k \in S
        PROVE  k + 1 \in S
    <3>1. k + 1 \in 1..n1 /\ k + 1 \in 1..Len(both) /\ (k + 1) - 1 = k
      BY <1>1
    <3> QED BY <1>1, <1>2, <1>3, <2>2, <3>1
  <2>3. \A k \in 0..n1 : k \in S
    <3> HIDE DEF S
    <3> QED BY <1>1, <2>1, <2>2, Stepwise
  <2> QED BY <2>3
<1>6. \A k \in 0..n2 : w[n1 + k] = w2[k]
  <2> DEFINE S == {k \in 0..n2 : w[n1 + k] = w2[k]}
  <2>1. 0 \in S
    BY <1>1, <1>4, <1>5
  <2>2. ASSUME NEW k \in 0..n2 - 1, k \in S
        PROVE  k + 1 \in S
    <3>1. /\ k + 1 \in 1..n2 /\ n1 + (k + 1) \in 1..Len(both)
          /\ (n1 + (k + 1)) - 1 = n1 + k /\ (k + 1) - 1 = k
      <4> HIDE DEF n1, n2
      <4> QED BY <1>1
    <3>2. w[n1 + (k + 1)] = Take(w[n1 + k], both[n1 + (k + 1)], allow)
      BY <1>2, <3>1
    <3> QED BY <1>1, <1>4, <2>2, <3>1, <3>2
  <2>3. \A k \in 0..n2 : k \in S
    <3> HIDE DEF S
    <3> QED BY <1>1, <2>1, <2>2, Stepwise
  <2> QED BY <2>3
<1>7. w[Len(both)] = w2[n2]
  BY <1>1, <1>6
<1> QED BY <1>2, <1>3, <1>4, <1>7 DEF both
-----------------------------------------------------------------------------
(* What a call or an element makes of a configuration is a configuration. *)

\* No item has a name that begins a built-in item's: parseConfigDefinition
\* takes a definition such as config=new for newconf and drops it, so that
\* what the file says of the item means nothing at the next start.
NoBuiltins == BuiltinPrefix = {}

LEMMA ConfigFields ==
  ASSUME NEW s \in Configs
  PROVE  /\ s.enabled \in BOOLEAN /\ s.configured \in BOOLEAN /\ s.id \in Id \cup {FreshId}
         /\ s.interval \in Minutes \cup {DEFAULT_MINUTES} /\ s.groups \in Seq(Group \ {Blank})
         /\ s.filters \in Seq(Canonical) /\ s.items \in Seq(Item) /\ Distinct(s.items)
         /\ s = [enabled |-> s.enabled, configured |-> s.configured, id |-> s.id,
                 interval |-> s.interval, groups |-> s.groups, filters |-> s.filters,
                 items |-> s.items]
BY DEF Configs

LEMMA ItemFields ==
  ASSUME NEW item \in Item
  PROVE  /\ item.name \in Name /\ item.type = Definition[item.name].type
         /\ item.max = Definition[item.name].max
         /\ item.max \in Nat \ {0} /\ item.values \in Seq(Text) /\ Len(item.values) <= item.max
         /\ item = [name |-> item.name, type |-> item.type, max |-> item.max,
                    values |-> item.values]
BY ConfigAssumption DEF Item

LEMMA NewValues ==
  ASSUME NEW item \in Item, NEW v \in Seq(Text), Len(v) <= item.max
  PROVE  /\ [item EXCEPT !.values = v] \in Item
         /\ [item EXCEPT !.values = v].name = item.name
         /\ [item EXCEPT !.values = v].values = v
BY DEF Item

LEMMA NewItems ==
  ASSUME NEW s \in Configs, NEW items \in Seq(Item), Distinct(items)
  PROVE  /\ [s EXCEPT !.items = items] \in Configs
         /\ [s EXCEPT !.items = items].items = items
         /\ [s EXCEPT !.items = items].enabled = s.enabled
         /\ [s EXCEPT !.items = items].configured = s.configured
BY DEF Configs

LEMMA NewGroups ==
  ASSUME NEW s \in Configs, NEW groups \in Seq(Group \ {Blank})
  PROVE  /\ [s EXCEPT !.groups = groups] \in Configs
         /\ [s EXCEPT !.groups = groups].items = s.items
         /\ [s EXCEPT !.groups = groups].enabled = s.enabled
         /\ [s EXCEPT !.groups = groups].configured = s.configured
<1> DEFINE G == Seq(Group \ {Blank})
<1> HIDE DEF G
<1>1. groups \in G
  BY DEF G
<1> QED BY <1>1 DEF Configs, G

LEMMA NowConfigured ==
  ASSUME NEW s \in Configs
  PROVE  /\ [s EXCEPT !.configured = TRUE] \in Configs
         /\ [s EXCEPT !.configured = TRUE].items = s.items
         /\ [s EXCEPT !.configured = TRUE].enabled = s.enabled
         /\ [s EXCEPT !.configured = TRUE].configured
BY DEF Configs

LEMMA SameNames ==
  ASSUME NEW s \in Configs, NEW items \in Seq(Item), Len(items) = Len(s.items),
         \A i \in 1..Len(items) : items[i].name = s.items[i].name
  PROVE  /\ Distinct(items)
         /\ {items[i].name : i \in DOMAIN items} = ItemNames(s)
<1>1. s.items \in Seq(Item) /\ Distinct(s.items)
  BY ConfigFields
<1>2. DOMAIN items = 1..Len(items) /\ DOMAIN s.items = 1..Len(items)
  BY <1>1
<1> QED BY <1>1, <1>2 DEF Distinct, ItemNames

\* Changing the values of items leaves a configuration with the same items.
LEMMA MappedItems ==
  ASSUME NEW s \in Configs, NEW items, items = [i \in DOMAIN s.items |-> items[i]],
         \A i \in DOMAIN s.items : items[i] \in Item /\ items[i].name = s.items[i].name
  PROVE  LET r == [s EXCEPT !.items = items]
         IN  /\ r \in Configs /\ ItemNames(r) = ItemNames(s)
             /\ r.enabled = s.enabled /\ r.configured = s.configured
<1>1. s.items \in Seq(Item) /\ DOMAIN s.items = 1..Len(s.items) /\ Len(s.items) \in Nat
  BY ConfigFields
<1>2. items \in Seq(Item) /\ Len(items) = Len(s.items)
  <2>1. items \in [1..Len(s.items) -> Item]
    BY <1>1
  <2> QED BY <1>1, <2>1
<1>3. \A i \in 1..Len(items) : items[i].name = s.items[i].name
  BY <1>1, <1>2
<1>4. Distinct(items) /\ {items[i].name : i \in DOMAIN items} = ItemNames(s)
  BY <1>2, <1>3, SameNames
<1>5. /\ [s EXCEPT !.items = items] \in Configs /\ [s EXCEPT !.items = items].items = items
      /\ [s EXCEPT !.items = items].enabled = s.enabled
      /\ [s EXCEPT !.items = items].configured = s.configured
  BY <1>2, <1>4, NewItems
<1>6. ItemNames([s EXCEPT !.items = items]) = ItemNames(s)
  BY <1>4, <1>5 DEF ItemNames
<1> QED BY <1>5, <1>6

LEMMA AddedKeeps ==
  ASSUME NEW s \in Configs, NEW n \in Name, NEW d,
         d.type = Definition[n].type, d.max = Definition[n].max
  PROVE  /\ Added(s, n, d) \in Configs
         /\ ItemNames(Added(s, n, d)) = ItemNames(s) \cup {n}
         /\ Added(s, n, d).enabled = s.enabled
         /\ Added(s, n, d).configured = s.configured
<1>1. CASE n \in ItemNames(s)
  BY <1>1 DEF Added
<1>2. CASE n \notin ItemNames(s)
  <2> DEFINE item == [name |-> n, type |-> d.type, max |-> d.max, values |-> <<>>]
             items == Append(s.items, item)
  <2>1. Added(s, n, d) = [s EXCEPT !.items = items]
    BY <1>2 DEF Added
  <2>2. item \in Item /\ item.name = n
    <3>1. Definition[n].type \in ItemTypes /\ Definition[n].max \in Nat
      BY ConfigAssumption
    <3>2. <<>> \in Seq(Text) /\ Len(<<>>) = 0
      OBVIOUS
    <3> QED BY <3>1, <3>2 DEF Item
  <2> HIDE DEF item
  <2>3. s.items \in Seq(Item) /\ Distinct(s.items)
    BY ConfigFields
  <2>4. /\ items \in Seq(Item) /\ Len(items) = Len(s.items) + 1 /\ Len(s.items) \in Nat
        /\ \A i \in 1..Len(s.items) : items[i] = s.items[i]
        /\ items[Len(s.items) + 1] = item
        /\ DOMAIN items = 1..Len(s.items) + 1 /\ DOMAIN s.items = 1..Len(s.items)
    BY <2>2, <2>3
  <2> HIDE DEF items
  <2>5. \A i \in 1..Len(s.items) : s.items[i].name # n
    BY <1>2, <2>4 DEF ItemNames
  <2>6. Distinct(items)
    <3> SUFFICES ASSUME NEW i \in 1..Len(items), NEW j \in 1..Len(items),
                        items[i].name = items[j].name
                 PROVE  i = j
      BY DEF Distinct
    <3>1. /\ i \in 1..Len(s.items) \/ i = Len(s.items) + 1
          /\ j \in 1..Len(s.items) \/ j = Len(s.items) + 1
      BY <2>4
    <3>2. CASE i \in 1..Len(s.items) /\ j \in 1..Len(s.items)
      BY <2>3, <2>4, <3>2 DEF Distinct
    <3>3. CASE i = Len(s.items) + 1 \/ j = Len(s.items) + 1
      BY <2>2, <2>4, <2>5, <3>1, <3>3
    <3> QED BY <3>1, <3>2, <3>3
  <2>7. /\ [s EXCEPT !.items = items] \in Configs /\ [s EXCEPT !.items = items].items = items
        /\ [s EXCEPT !.items = items].enabled = s.enabled
        /\ [s EXCEPT !.items = items].configured = s.configured
    BY <2>4, <2>6, NewItems
  <2>8. {items[i].name : i \in DOMAIN items} = ItemNames(s) \cup {n}
    BY <2>2, <2>4 DEF ItemNames
  <2> QED BY <2>1, <2>7, <2>8 DEF ItemNames
<1> QED BY <1>1, <1>2

LEMMA WithValueKeeps ==
  ASSUME NEW s \in Configs, NEW n, NEW v \in Text
  PROVE  /\ WithValue(s, n, v) \in Configs
         /\ ItemNames(WithValue(s, n, v)) = ItemNames(s)
         /\ WithValue(s, n, v).enabled = s.enabled
         /\ WithValue(s, n, v).configured = s.configured
<1> DEFINE f == [i \in DOMAIN s.items |->
                   IF s.items[i].name = n /\ Len(s.items[i].values) < s.items[i].max
                     THEN [s.items[i] EXCEPT !.values = Append(s.items[i].values, v)]
                     ELSE s.items[i]]
<1>1. ASSUME NEW i \in DOMAIN s.items
      PROVE  f[i] \in Item /\ f[i].name = s.items[i].name
  <2>1. s.items[i] \in Item
    BY ConfigFields
  <2>2. CASE s.items[i].name = n /\ Len(s.items[i].values) < s.items[i].max
    <3> DEFINE u == Append(s.items[i].values, v)
    <3>1. u \in Seq(Text) /\ Len(u) <= s.items[i].max
      BY <2>1, <2>2, ItemFields
    <3>2. f[i] = [s.items[i] EXCEPT !.values = u]
      BY <2>2
    <3> QED BY <2>1, <3>1, <3>2, NewValues
  <2>3. CASE ~(s.items[i].name = n /\ Len(s.items[i].values) < s.items[i].max)
    BY <2>1, <2>3
  <2> QED BY <2>2, <2>3
<1>2. WithValue(s, n, v) = [s EXCEPT !.items = f]
  BY DEF WithValue
<1>3. f = [i \in DOMAIN s.items |-> f[i]]
  OBVIOUS
<1> HIDE DEF f
<1> QED BY <1>1, <1>2, <1>3, MappedItems

LEMMA ClearedKeeps ==
  ASSUME NEW s \in Configs, NEW names
  PROVE  /\ ClearedOf(s, names) \in Configs
         /\ ItemNames(ClearedOf(s, names)) = ItemNames(s)
         /\ ClearedOf(s, names).enabled = s.enabled
         /\ ClearedOf(s, names).configured = s.configured
<1> DEFINE f == [i \in DOMAIN s.items |->
                   IF s.items[i].name \in names THEN [s.items[i] EXCEPT !.values = <<>>]
                   ELSE s.items[i]]
<1>1. ASSUME NEW i \in DOMAIN s.items
      PROVE  f[i] \in Item /\ f[i].name = s.items[i].name
  <2>1. s.items[i] \in Item
    BY ConfigFields
  <2>2. <<>> \in Seq(Text) /\ Len(<<>>) <= s.items[i].max
    BY <2>1, ItemFields
  <2>3. [s.items[i] EXCEPT !.values = <<>>] \in Item
        /\ [s.items[i] EXCEPT !.values = <<>>].name = s.items[i].name
    BY <2>1, <2>2, NewValues
  <2> QED BY <2>1, <2>3
<1>2. ClearedOf(s, names) = [s EXCEPT !.items = f]
  BY DEF ClearedOf
<1>3. f = [i \in DOMAIN s.items |-> f[i]]
  OBVIOUS
<1> HIDE DEF f
<1> QED BY <1>1, <1>2, <1>3, MappedItems

LEMMA WithValueAtKeeps ==
  ASSUME NEW s \in Configs, NEW n, NEW index, NEW v \in Text
  PROVE  /\ WithValueAt(s, n, index, v) \in Configs
         /\ ItemNames(WithValueAt(s, n, index, v)) = ItemNames(s)
         /\ WithValueAt(s, n, index, v).enabled = s.enabled
         /\ WithValueAt(s, n, index, v).configured = s.configured
<1> DEFINE Has == \E i \in DOMAIN s.items :
                     s.items[i].name = n /\ index \in DOMAIN s.items[i].values
           f == [i \in DOMAIN s.items |->
                   IF s.items[i].name = n THEN [s.items[i] EXCEPT !.values[index] = v]
                   ELSE s.items[i]]
<1>1. CASE ~Has
  BY <1>1, WithValueKeeps DEF WithValueAt
<1>2. CASE Has
  <2>1. ASSUME NEW i \in DOMAIN s.items
        PROVE  f[i] \in Item /\ f[i].name = s.items[i].name
    <3>1. s.items[i] \in Item
      BY ConfigFields
    <3> DEFINE u == [s.items[i].values EXCEPT ![index] = v]
    <3>2. u \in Seq(Text) /\ Len(u) <= s.items[i].max
      <4>1. s.items[i].values \in Seq(Text) /\ Len(s.items[i].values) <= s.items[i].max
        BY <3>1, ItemFields
      <4>2. s.items[i].values \in [1..Len(s.items[i].values) -> Text]
        BY <4>1
      <4>4. u \in [1..Len(s.items[i].values) -> Text]
        BY <4>2
      <4>3. u \in Seq(Text) /\ Len(u) = Len(s.items[i].values)
        BY <4>1, <4>4
      <4> QED BY <4>1, <4>3
    <3>3. [s.items[i] EXCEPT !.values = u] \in Item
          /\ [s.items[i] EXCEPT !.values = u].name = s.items[i].name
      BY <3>1, <3>2, NewValues
    <3> QED BY <3>1, <3>3
  <2>2. WithValueAt(s, n, index, v) = [s EXCEPT !.items = f]
    BY <1>2 DEF WithValueAt
  <2>3. f = [i \in DOMAIN s.items |-> f[i]]
    OBVIOUS
  <2> HIDE DEF f
  <2> QED BY <2>1, <2>2, <2>3, MappedItems
<1> QED BY <1>1, <1>2

Builtin == {"define", "newconf", "interval", "group", "filter"}

LEMMA ElementKinds ==
  ASSUME NoBuiltins, NEW e \in Element
  PROVE  /\ e[1] = "define" => \E n \in Name : e[2] = Def(n)
         /\ e[1] = "newconf" => e[2] \in Id \cup {FreshId}
         /\ e[1] = "interval" => e[2] \in Minutes \cup {DEFAULT_MINUTES}
         /\ e[1] = "group" => e[2] \in Group \cup {Blank}
         /\ e[1] = "filter" => e[2] \in Seq(Token)
         /\ e[1] \notin Builtin => e[1] \in Name /\ e[2] \in Text
<1>1. Name \cap Builtin = {}
  BY ConfigAssumption DEF NoBuiltins, Builtin
<1>2. CASE e \in {"define"} \X {Def(n) : n \in Name}
  BY <1>2 DEF Builtin
<1>3. CASE e \in {"newconf"} \X (Id \cup {FreshId})
  BY <1>3 DEF Builtin
<1>4. CASE e \in {"interval"} \X (Minutes \cup {DEFAULT_MINUTES})
  BY <1>4 DEF Builtin
<1>5. CASE e \in {"group"} \X (Group \cup {Blank})
  BY <1>5 DEF Builtin
<1>6. CASE e \in {"filter"} \X Seq(Token)
  BY <1>6 DEF Builtin
<1>7. CASE e \in Name \X Text
  <2>1. e[1] \in Name /\ e[2] \in Text
    BY <1>7
  <2> QED BY <1>1, <2>1 DEF Builtin
<1> QED BY <1>2, <1>3, <1>4, <1>5, <1>6, <1>7 DEF Element, Def

\* What one element makes of a configuration.
Keeps(s, r) ==
  /\ r \in Configs /\ ItemNames(s) \subseteq ItemNames(r)
  /\ r.enabled = s.enabled /\ r.configured = s.configured

LEMMA TakeKeeps ==
  ASSUME NoBuiltins, NEW s \in Configs, NEW e \in Element, NEW allow \in BOOLEAN
  PROVE  Keeps(s, Take(s, e, allow))
<1> USE DEF Keeps
<1>1. CASE e[1] = "define"
  <2>1. PICK n \in Name : e[2] = Def(n)
    BY <1>1, ElementKinds
  <2>2. e[2].name = n /\ e[2].type = Definition[n].type /\ e[2].max = Definition[n].max
    BY <2>1 DEF Def
  <2>3. Take(s, e, allow) = IF allow THEN Added(s, n, e[2]) ELSE s
    BY <1>1, <2>2 DEF Take, Defined, NoBuiltins
  <2> QED BY <2>2, <2>3, AddedKeeps
<1>2. CASE e[1] = "newconf"
  <2>1. Take(s, e, allow) = [s EXCEPT !.id = e[2]] /\ e[2] \in Id \cup {FreshId}
    BY <1>2, ElementKinds DEF Take
  <2> QED BY <2>1 DEF Configs, ItemNames
<1>3. CASE e[1] = "interval"
  <2>1. Take(s, e, allow) = [s EXCEPT !.interval = e[2]]
        /\ e[2] \in Minutes \cup {DEFAULT_MINUTES}
    BY <1>3, ElementKinds DEF Take
  <2> QED BY <2>1 DEF Configs, ItemNames
<1>4. CASE e[1] = "group"
  <2>1. CASE e[2] = Blank
    BY <1>4, <2>1 DEF Take
  <2>2. CASE e[2] # Blank
    <3> DEFINE groups == Append(s.groups, e[2])
    <3>1. Take(s, e, allow) = [s EXCEPT !.groups = groups] /\ e[2] \in Group \ {Blank}
      BY <1>4, <2>2, ElementKinds DEF Take
    <3>2. groups \in Seq(Group \ {Blank})
      BY <3>1, ConfigFields
    <3> HIDE DEF groups
    <3>3. /\ [s EXCEPT !.groups = groups] \in Configs
          /\ [s EXCEPT !.groups = groups].items = s.items
          /\ [s EXCEPT !.groups = groups].enabled = s.enabled
          /\ [s EXCEPT !.groups = groups].configured = s.configured
      BY <3>2, NewGroups
    <3> QED BY <3>1, <3>3 DEF ItemNames
  <2> QED BY <2>1, <2>2
<1>5. CASE e[1] = "filter"
  <2>1. CASE ~IsFilter(e[2])
    BY <1>5, <2>1 DEF Take
  <2>2. CASE IsFilter(e[2])
    <3> DEFINE filters == Append(s.filters, parseFilter(e[2]))
    <3>1. Take(s, e, allow) = [s EXCEPT !.filters = filters] /\ e[2] \in Seq(Token)
      BY <1>5, <2>2, ElementKinds DEF Take
    <3>2. parseFilter(e[2]) \in Canonical
      BY <2>2, <3>1, ParsedIsCanonical
    <3>3. filters \in Seq(Canonical)
      BY <3>2, ConfigFields
    <3> HIDE DEF filters
    <3> QED BY <3>1, <3>3 DEF Configs, ItemNames
  <2> QED BY <2>1, <2>2
<1>6. CASE e[1] \notin Builtin
  <2>1. Take(s, e, allow) = WithValue(s, e[1], e[2]) /\ e[2] \in Text
    BY <1>6, ElementKinds DEF Take, Builtin
  <2> QED BY <2>1, WithValueKeeps
<1> QED BY <1>1, <1>2, <1>3, <1>4, <1>5, <1>6 DEF Builtin

LEMMA TakenKeeps ==
  ASSUME NoBuiltins, NEW s \in Configs, NEW elements \in Seq(Element), NEW allow \in BOOLEAN
  PROVE  Keeps(s, Taken(s, elements, allow))
<1> DEFINE n == Len(elements)
<1>1. PICK w : /\ w[0] = s /\ w[n] = Taken(s, elements, allow)
               /\ \A k \in 1..n : w[k] = Take(w[k - 1], elements[k], allow)
  BY TakenWalk
<1> DEFINE S == {k \in 0..n : Keeps(s, w[k])}
<1>2. n \in Nat
  OBVIOUS
<1>3. 0 \in S
  BY <1>1, <1>2 DEF Keeps
<1>4. ASSUME NEW k \in 0..n - 1, k \in S
      PROVE  k + 1 \in S
  <2>1. k + 1 \in 1..n /\ (k + 1) - 1 = k /\ elements[k + 1] \in Element
    BY <1>2
  <2>2. Keeps(w[k], w[k + 1])
    <3>1. w[k] \in Configs
      BY <1>4 DEF Keeps
    <3> QED BY <1>1, <2>1, <3>1, TakeKeeps
  <2> QED BY <1>2, <1>4, <2>1, <2>2 DEF Keeps
<1>5. \A k \in 0..n : k \in S
  <2> HIDE DEF S
  <2> QED BY <1>2, <1>3, <1>4, Stepwise
<1>6. n \in S
  BY <1>2, <1>5
<1> QED BY <1>1, <1>6

LEMMA InstalledKeeps ==
  ASSUME NoBuiltins, NEW s \in Configs, NEW elements \in Seq(Element), NEW allow \in BOOLEAN
  PROVE  LET r == Installed(s, elements, allow)
         IN  /\ r \in Configs /\ ItemNames(s) \subseteq ItemNames(r)
             /\ r.enabled = s.enabled /\ r.configured
<1> DEFINE c == Emptied(Cleared(s), elements)
           t == Taken(c, elements, allow)
<1>1. /\ Cleared(s) \in Configs /\ ItemNames(Cleared(s)) = ItemNames(s)
      /\ Cleared(s).enabled = s.enabled
  BY ClearedKeeps DEF Cleared
<1>2. c \in Configs /\ ItemNames(c) = ItemNames(s) /\ c.enabled = s.enabled
  <2>1. <<>> \in Seq(Group \ {Blank}) /\ <<>> \in Seq(Canonical)
    OBVIOUS
  <2> QED BY <1>1, <2>1 DEF Emptied, Configs, ItemNames
<1> HIDE DEF c
<1>3. Keeps(c, t)
  BY <1>2, TakenKeeps
<1>4. Installed(s, elements, allow) = [t EXCEPT !.configured = TRUE]
  BY DEF Installed, c
<1> HIDE DEF t
<1>5. t \in Configs /\ ItemNames(s) \subseteq ItemNames(t) /\ t.enabled = s.enabled
  BY <1>2, <1>3 DEF Keeps
<1>6. ItemNames([t EXCEPT !.configured = TRUE]) = ItemNames(t)
  BY <1>5, NowConfigured DEF ItemNames
<1> QED BY <1>4, <1>5, <1>6, NowConfigured
-----------------------------------------------------------------------------
(* What is written of a configuration, part by part, and read again. *)

LEMMA NextPart ==
  ASSUME NEW S, NEW q \in Seq(S), NEW k \in 0..Len(q) - 1
  PROVE  /\ SubSeq(q, 1, k + 1) = Append(SubSeq(q, 1, k), q[k + 1])
         /\ SubSeq(q, 1, k) \in Seq(S) /\ Len(SubSeq(q, 1, k)) = k
         /\ \A i \in 1..k : SubSeq(q, 1, k)[i] = q[i]
         /\ q[k + 1] \in S
<1>1. Len(q) \in Nat /\ k \in Nat /\ k + 1 \in 1..Len(q) /\ k + 1 \in Nat
  OBVIOUS
<1> DEFINE a == SubSeq(q, 1, k + 1)
           b == SubSeq(q, 1, k)
<1>2. /\ a \in Seq(S) /\ Len(a) = k + 1
      /\ \A i \in 1..k + 1 : a[i] = q[i]
  BY <1>1
<1>3. /\ b \in Seq(S) /\ Len(b) = k
      /\ \A i \in 1..k : b[i] = q[i]
  BY <1>1
<1>4. q[k + 1] \in S
  BY <1>1
<1> HIDE DEF a, b
<1>5. Append(b, q[k + 1]) \in Seq(S) /\ Len(Append(b, q[k + 1])) = k + 1
  BY <1>3, <1>4
<1>6. \A i \in 1..k + 1 : Append(b, q[k + 1])[i] = q[i]
  BY <1>1, <1>3, <1>4
<1>7. a = Append(b, q[k + 1])
  BY <1>2, <1>5, <1>6, SameSequence
<1> QED BY <1>3, <1>4, <1>7 DEF a, b

LEMMA AllParts ==
  ASSUME NEW S, NEW q \in Seq(S)
  PROVE  SubSeq(q, 1, 0) = <<>> /\ SubSeq(q, 1, Len(q)) = q
<1>1. SubSeq(q, 1, Len(q)) \in Seq(S) /\ Len(SubSeq(q, 1, Len(q))) = Len(q)
  OBVIOUS
<1>2. \A i \in 1..Len(q) : SubSeq(q, 1, Len(q))[i] = q[i]
  OBVIOUS
<1>3. SubSeq(q, 1, Len(q)) = q
  BY <1>1, <1>2, SameSequence
<1>4. SubSeq(q, 1, 0) = <<>>
  OBVIOUS
<1> QED BY <1>3, <1>4

Bare(items) == [i \in DOMAIN items |-> [items[i] EXCEPT !.values = <<>>]]

LEMMA BareItems ==
  ASSUME NEW items \in Seq(Item)
  PROVE  /\ Bare(items) \in Seq(Item) /\ Len(Bare(items)) = Len(items)
         /\ \A i \in 1..Len(items) :
              Bare(items)[i] = [name |-> items[i].name, type |-> items[i].type,
                                max |-> items[i].max, values |-> <<>>]
<1>1. ASSUME NEW i \in 1..Len(items)
      PROVE  /\ [items[i] EXCEPT !.values = <<>>] \in Item
             /\ [items[i] EXCEPT !.values = <<>>] =
                  [name |-> items[i].name, type |-> items[i].type,
                   max |-> items[i].max, values |-> <<>>]
  <2>1. items[i] \in Item
    OBVIOUS
  <2>2. <<>> \in Seq(Text) /\ Len(<<>>) <= items[i].max
    BY <2>1, ItemFields
  <2>3. [items[i] EXCEPT !.values = <<>>] \in Item
    BY <2>1, <2>2, NewValues
  <2> QED BY <2>1, <2>3, ItemFields
<1>2. DOMAIN items = 1..Len(items)
  OBVIOUS
<1>3. Bare(items) \in [1..Len(items) -> Item]
  BY <1>1, <1>2 DEF Bare
<1>4. Bare(items) \in Seq(Item) /\ Len(Bare(items)) = Len(items)
  BY <1>3
<1> QED BY <1>1, <1>2, <1>4 DEF Bare

\* The definitions make the items, without their values.
LEMMA DefinitionsTaken ==
  ASSUME NoBuiltins, NEW r \in Configs, r.items = <<>>, NEW items \in Seq(Item), Distinct(items),
         NEW allow \in BOOLEAN
  PROVE  /\ Definitions(items) \in Seq(Element)
         /\ allow => Taken(r, Definitions(items), allow) = [r EXCEPT !.items = Bare(items)]
<1> DEFINE n == Len(items)  L == Definitions(items)  B == Bare(items)
<1>1. n \in Nat /\ DOMAIN items = 1..n /\ \A k \in 1..n : items[k] \in Item
  OBVIOUS
<1>2. ASSUME NEW k \in 1..n
      PROVE  /\ <<"define", DefinitionOf(items[k])>> \in Element
             /\ DefinitionOf(items[k]) =
                  [name |-> items[k].name, type |-> items[k].type, max |-> items[k].max]
  <2>1. items[k] \in Item
    BY <1>1
  <2>2. DefinitionOf(items[k]) = Def(items[k].name) /\ items[k].name \in Name
    BY <2>1, ItemFields DEF DefinitionOf, Def
  <2> QED BY <2>2 DEF Element, DefinitionOf
<1>3. L \in [1..n -> Element]
  BY <1>1, <1>2 DEF Definitions
<1>4. L \in Seq(Element) /\ Len(L) = n /\ \A k \in 1..n : L[k] = <<"define", DefinitionOf(items[k])>>
  BY <1>1, <1>3 DEF Definitions
<1>5. /\ B \in Seq(Item) /\ Len(B) = n
      /\ \A k \in 1..n : B[k] = [name |-> items[k].name, type |-> items[k].type,
                                 max |-> items[k].max, values |-> <<>>]
  BY BareItems
<1> HIDE DEF B, L
<1>13. ASSUME NEW k \in 1..n
       PROVE  B[k].name = items[k].name
  <2>1. B[k] = [name |-> items[k].name, type |-> items[k].type,
                max |-> items[k].max, values |-> <<>>]
    BY <1>5
  <2> QED BY <2>1
<1>6. PICK w : /\ w[0] = r /\ w[n] = Taken(r, L, allow)
               /\ \A k \in 1..n : w[k] = Take(w[k - 1], L[k], allow)
  <2>1. L \in Seq(Element)
    BY <1>4
  <2>2. PICK w : Steps(r, L, allow, w)
    BY <2>1, TakenSteps
  <2> QED BY <1>4, <2>2 DEF Steps
<1> SUFFICES ASSUME allow
             PROVE  Taken(r, L, allow) = [r EXCEPT !.items = B]
  BY <1>4 DEF B, L
<1> DEFINE S == {k \in 0..n : w[k] = [r EXCEPT !.items = SubSeq(B, 1, k)]}
<1>7. 0 \in S
  <2>1. SubSeq(B, 1, 0) = <<>>
    BY <1>5, AllParts
  <2>2. r = [r EXCEPT !.items = <<>>]
    BY ConfigFields
  <2> QED BY <1>1, <1>6, <2>1, <2>2
<1>8. ASSUME NEW k \in 0..n - 1, k \in S
      PROVE  k + 1 \in S
  <2> DEFINE it == items[k + 1]
             b == SubSeq(B, 1, k)
             new == [name |-> it.name, type |-> it.type, max |-> it.max, values |-> <<>>]
  <2>1. k + 1 \in 1..n /\ (k + 1) - 1 = k /\ k \in Nat
    BY <1>1
  <2>2. /\ SubSeq(B, 1, k + 1) = Append(b, B[k + 1])
        /\ b \in Seq(Item) /\ Len(b) = k /\ \A i \in 1..k : b[i] = B[i]
    BY <1>5, NextPart
  <2> HIDE DEF b
  <2>3. /\ L[k + 1] = <<"define", DefinitionOf(it)>> /\ B[k + 1] = new
        /\ DefinitionOf(it) = [name |-> it.name, type |-> it.type, max |-> it.max]
    BY <1>2, <1>4, <1>5, <2>1
  <2>4. w[k] = [r EXCEPT !.items = b]
    BY <1>8 DEF b
  <2>5. w[k].items = b
    BY <2>4, ConfigFields
  <2>6. it.name \notin ItemNames(w[k])
    <3>1. ASSUME NEW i \in 1..k
          PROVE  b[i].name # it.name
      <4>1. i \in 1..n /\ i # k + 1
        BY <2>1
      <4>2. b[i] = B[i]
        BY <2>2
      <4>3. B[i].name = items[i].name
        BY <1>13, <4>1
      <4> QED BY <2>1, <4>1, <4>2, <4>3 DEF Distinct
    <3>2. DOMAIN b = 1..k
      BY <2>2
    <3> QED BY <2>5, <3>1, <3>2 DEF ItemNames
  <2>7. Take(w[k], L[k + 1], allow) = Added(w[k], it.name, DefinitionOf(it))
    BY <2>3 DEF Take, Defined, NoBuiltins
  <2>8. Added(w[k], it.name, DefinitionOf(it)) = [w[k] EXCEPT !.items = Append(b, new)]
    BY <2>3, <2>5, <2>6 DEF Added
  <2>9. [w[k] EXCEPT !.items = Append(b, new)] = [r EXCEPT !.items = Append(b, new)]
    BY <2>4
  <2>10. w[k + 1] = [r EXCEPT !.items = SubSeq(B, 1, k + 1)]
    <3>1. w[k + 1] = Take(w[k], L[k + 1], allow)
      BY <1>6, <2>1
    <3>2. SubSeq(B, 1, k + 1) = Append(b, new)
      BY <2>2, <2>3
    <3> QED BY <2>7, <2>8, <2>9, <3>1, <3>2
  <2> QED BY <1>1, <2>1, <2>10
<1>9. \A k \in 0..n : k \in S
  <2> HIDE DEF S
  <2> QED BY <1>1, <1>7, <1>8, Stepwise
<1>10. w[n] = [r EXCEPT !.items = SubSeq(B, 1, n)]
  <2>1. n \in S
    <3> HIDE DEF S
    <3> QED BY <1>1, <1>9
  <2> QED BY <2>1
<1>11. SubSeq(B, 1, n) = B
  BY <1>5, AllParts
<1> QED BY <1>6, <1>10, <1>11

LEMMA SettingsTaken ==
  ASSUME NoBuiltins, NEW r \in Configs, NEW s \in Configs, NEW allow \in BOOLEAN
  PROVE  /\ Settings(s) \in Seq(Element)
         /\ Taken(r, Settings(s), allow) = [r EXCEPT !.id = s.id, !.interval = s.interval]
<1> DEFINE L == Settings(s)
<1>1. <<"newconf", s.id>> \in Element /\ <<"interval", s.interval>> \in Element
  BY ConfigFields DEF Element
<1>2. /\ L \in Seq(Element) /\ Len(L) = 2
      /\ L[1] = <<"newconf", s.id>> /\ L[2] = <<"interval", s.interval>>
  BY <1>1 DEF Settings
<1> HIDE DEF L
<1>3. PICK w : /\ w[0] = r /\ w[Len(L)] = Taken(r, L, allow)
               /\ \A k \in 1..Len(L) : w[k] = Take(w[k - 1], L[k], allow)
  <2>1. L \in Seq(Element)
    BY <1>2
  <2> QED BY <2>1, TakenWalk
<1>4. w[1] = Take(r, L[1], allow) /\ w[2] = Take(w[1], L[2], allow)
  BY <1>2, <1>3
<1>5. w[1] = [r EXCEPT !.id = s.id]
  BY <1>2, <1>4 DEF Take
<1>6. w[2] = [w[1] EXCEPT !.interval = s.interval]
  BY <1>2, <1>4 DEF Take
<1>7. w[2] = [r EXCEPT !.id = s.id, !.interval = s.interval]
  BY <1>5, <1>6, ConfigFields
<1> QED BY <1>2, <1>3, <1>7 DEF L
\* The sequences that flattening goes through.
Flattens(q, n, f) == f = [i \in 1..n |-> IF i = 1 THEN q[i] ELSE f[i - 1] \o q[i]]

LEMMA FlattensExists ==
  ASSUME NEW q
  PROVE  \A n \in Nat : \E f : Flattens(q, n, f)
<1> DEFINE T == {n \in Nat : ~ \E f : Flattens(q, n, f)}
<1> SUFFICES ASSUME T # {} PROVE FALSE
  OBVIOUS
<1>1. PICK n \in T : \A k \in T : n <= k
  BY LeastNatural, T \in SUBSET Nat
<1>2. n # 0
  <2>1. Flattens(q, 0, [i \in 1..0 |-> q])
    BY DEF Flattens
  <2> QED BY <2>1
<1>3. PICK f : Flattens(q, n - 1, f)
  <2>1. n - 1 \in Nat /\ n - 1 \notin T
    BY <1>1, <1>2
  <2> QED BY <2>1
<1> DEFINE g == [i \in 1..n |-> IF i < n THEN f[i] ELSE IF n = 1 THEN q[1] ELSE f[n - 1] \o q[n]]
<1>4. Flattens(q, n, g)
  <2> DEFINE e(i) == IF i = 1 THEN q[i] ELSE g[i - 1] \o q[i]
  <2>1. ASSUME NEW i \in 1..n
        PROVE  g[i] = e(i)
    <3>1. CASE i < n
      <4>1. i \in 1..n - 1 /\ (i # 1 => i - 1 \in 1..n /\ i - 1 < n)
        BY <3>1
      <4>2. g[i] = f[i] /\ (i # 1 => g[i - 1] = f[i - 1])
        BY <3>1, <4>1
      <4> HIDE DEF g
      <4> QED BY <1>3, <4>1, <4>2 DEF Flattens
    <3>2. CASE ~(i < n)
      <4>1. i = n /\ (n # 1 => n - 1 \in 1..n /\ n - 1 < n)
        BY <3>2, <1>2
      <4>2. n # 1 => g[n - 1] = f[n - 1]
        BY <4>1
      <4> QED BY <1>2, <4>1, <4>2
    <3> QED BY <3>1, <3>2
  <2>2. g = [i \in 1..n |-> g[i]]
    OBVIOUS
  <2> HIDE DEF g
  <2> QED BY <2>1, <2>2 DEF Flattens
<1> QED BY <1>1, <1>4

LEMMA Flattened ==
  ASSUME NEW q, Len(q) \in Nat \ {0}
  PROVE  \E f : /\ f[1] = q[1] /\ f[Len(q)] = FlattenSeq(q)
                /\ \A i \in 2..Len(q) : f[i] = f[i - 1] \o q[i]
<1> DEFINE n == Len(q)  f == CHOOSE f : Flattens(q, n, f)
<1>1. Flattens(q, n, f)
  BY FlattensExists
<1>2. FlattenSeq(q) = f[n]
  BY DEF FlattenSeq, Flattens
<1> HIDE DEF f
<1>3. f[1] = q[1]
  BY <1>1 DEF Flattens
<1>4. ASSUME NEW i \in 2..n
      PROVE  f[i] = f[i - 1] \o q[i]
  <2>1. i \in 1..n /\ i # 1
    OBVIOUS
  <2> QED BY <1>1, <2>1 DEF Flattens
<1> QED BY <1>2, <1>3, <1>4

\* Configurations that each come of the one before are those taking goes through.
LEMMA TakenAlong ==
  ASSUME NEW elements \in Seq(Element), NEW allow, NEW c,
         \A k \in 1..Len(elements) : c[k] = Take(c[k - 1], elements[k], allow)
  PROVE  Taken(c[0], elements, allow) = c[Len(elements)]
<1> DEFINE n == Len(elements)
<1>1. PICK w : Steps(c[0], elements, allow, w)
  BY TakenSteps
<1> DEFINE S == {k \in 0..n : w[k] = c[k]}
<1>2. n \in Nat /\ 0 \in S
  BY <1>1 DEF Steps
<1>3. ASSUME NEW k \in 0..n - 1, k \in S
      PROVE  k + 1 \in S
  <2>1. k + 1 \in 1..n /\ (k + 1) - 1 = k
    BY <1>2
  <2>2. w[k + 1] = Take(w[k], elements[k + 1], allow)
    BY <1>1, <2>1 DEF Steps
  <2>3. c[k + 1] = Take(c[k], elements[k + 1], allow)
    BY <2>1
  <2> QED BY <1>2, <1>3, <2>1, <2>2, <2>3
<1>4. \A k \in 0..n : k \in S
  <2> HIDE DEF S
  <2> QED BY <1>2, <1>3, Stepwise
<1>5. w[n] = c[n]
  BY <1>2, <1>4
<1> QED BY <1>1, <1>5 DEF Steps

\* The texts of filters make those filters again, and a placeholder makes none.
LEMMA FiltersTaken ==
  ASSUME NoBuiltins, NEW r \in Configs, r.filters = <<>>, NEW s \in Configs, NEW allow \in BOOLEAN
  PROVE  /\ Listed("filter", FilterTexts(s)) \in Seq(Element)
         /\ Listed("filter", FilterTexts(s)) # <<>>
         /\ Listed("filter", FilterTexts(s))[1][1] = "filter"
         /\ Taken(r, Listed("filter", FilterTexts(s)), allow) = [r EXCEPT !.filters = s.filters]
<1> DEFINE filters == s.filters  texts == FilterTexts(s)  L == Listed("filter", texts)
           n == Len(filters)
<1>1. filters \in Seq(Canonical) /\ n \in Nat /\ DOMAIN filters = 1..n
      /\ \A k \in 1..n : filters[k] \in Canonical
  BY ConfigFields
<1>2. r = [r EXCEPT !.filters = <<>>]
  BY ConfigFields
<1>3. texts \in Seq(Seq(Token)) /\ Len(texts) = n /\ DOMAIN texts = 1..n
      /\ \A k \in 1..n : texts[k] = formatFilter(filters[k])
  <2>1. texts \in [1..n -> Seq(Token)]
    BY <1>1, FormatThenParse DEF FilterTexts
  <2> QED BY <1>1, <2>1 DEF FilterTexts
<1> HIDE DEF texts
<1>4. \A t \in Seq(Token) : <<"filter", t>> \in Element
  BY DEF Element
<1>5. CASE n = 0
  <2>1. texts = <<>> /\ filters = <<>>
    BY <1>1, <1>3, <1>5
  <2>2. L = << <<"filter", Blank>> >>
    BY <2>1 DEF Listed
  <2>3. Blank \in Seq(Token) /\ DOMAIN Blank = {}
    BY DEF Blank
  <2>4. L \in Seq(Element) /\ L # <<>> /\ L[1] = <<"filter", Blank>> /\ Len(L) = 1
    <3>1. <<"filter", Blank>> \in Element
      BY <2>3, <1>4
    <3> HIDE DEF L
    <3> QED BY <2>2, <3>1
  <2>5. Take(r, L[1], allow) = r
    BY <2>3, <2>4 DEF Take, IsFilter
  <2> DEFINE c == [k \in 0..1 |-> r]
  <2>6. \A k \in 1..Len(L) : c[k] = Take(c[k - 1], L[k], allow)
    BY <2>4, <2>5
  <2>7. c[0] = r /\ c[Len(L)] = r
    BY <2>4
  <2> HIDE DEF L, c
  <2>8. Taken(c[0], L, allow) = c[Len(L)]
    BY <2>4, <2>6, TakenAlong
  <2> QED BY <1>2, <2>1, <2>4, <2>7, <2>8 DEF L, texts
<1>6. CASE n # 0
  <2>1. L = [k \in 1..n |-> <<"filter", texts[k]>>]
    BY <1>3, <1>6 DEF Listed
  <2>2. L \in [1..n -> Element]
    BY <1>3, <1>4, <2>1
  <2>3. L \in Seq(Element) /\ L # <<>> /\ Len(L) = n /\ 1 \in 1..n
        /\ \A k \in 1..n : L[k] = <<"filter", texts[k]>>
    <3>1. \A k \in 1..n : L[k] = <<"filter", texts[k]>>
      BY <2>1
    <3> HIDE DEF L
    <3>2. L \in Seq(Element) /\ Len(L) = n /\ 1 \in 1..n
      BY <1>1, <1>6, <2>2
    <3> QED BY <1>6, <3>1, <3>2
  <2> HIDE DEF L
  <2> DEFINE c == [k \in 0..n |-> [r EXCEPT !.filters = SubSeq(filters, 1, k)]]
  <2>4. ASSUME NEW k \in 1..n
        PROVE  c[k] = Take(c[k - 1], L[k], allow)
    <3> DEFINE u == SubSeq(filters, 1, k - 1)
    <3>1. k - 1 \in 0..n - 1 /\ (k - 1) + 1 = k /\ k - 1 \in 0..n /\ k \in 0..n
      BY <1>1
    <3>2. SubSeq(filters, 1, k) = Append(u, filters[k])
      <4>1. SubSeq(filters, 1, (k - 1) + 1) = Append(SubSeq(filters, 1, k - 1), filters[(k - 1) + 1])
        BY <1>1, <3>1, NextPart
      <4> QED BY <3>1, <4>1
    <3>3. c[k - 1] = [r EXCEPT !.filters = u] /\ c[k] = [r EXCEPT !.filters = Append(u, filters[k])]
      BY <3>1, <3>2
    <3> HIDE DEF u, c
    <3>4. L[k] = <<"filter", formatFilter(filters[k])>>
      BY <1>3, <2>3
    <3>5. IsFilter(formatFilter(filters[k])) /\ parseFilter(formatFilter(filters[k])) = filters[k]
      BY <1>1, FormatThenParse
    <3>6. Take(c[k - 1], L[k], allow) =
            [c[k - 1] EXCEPT !.filters = Append(c[k - 1].filters, filters[k])]
      BY <3>4, <3>5 DEF Take
    <3>7. c[k - 1].filters = u
      BY <3>3, ConfigFields
    <3> QED BY <3>3, <3>6, <3>7
  <2>5. c[0] = r /\ c[n] = [r EXCEPT !.filters = filters]
    <3>1. SubSeq(filters, 1, 0) = <<>> /\ SubSeq(filters, 1, n) = filters
      BY <1>1, AllParts
    <3>2. 0 \in 0..n /\ n \in 0..n
      BY <1>1
    <3>3. c[0] = [r EXCEPT !.filters = SubSeq(filters, 1, 0)]
          /\ c[n] = [r EXCEPT !.filters = SubSeq(filters, 1, n)]
      BY <3>2
    <3> HIDE DEF c
    <3> QED BY <1>2, <3>1, <3>3
  <2> HIDE DEF c
  <2>6. Taken(c[0], L, allow) = c[Len(L)]
    <3>1. \A k \in 1..Len(L) : c[k] = Take(c[k - 1], L[k], allow)
      BY <2>3, <2>4
    <3> QED BY <2>3, <3>1, TakenAlong
  <2> QED BY <2>3, <2>5, <2>6 DEF L, texts
<1> QED BY <1>5, <1>6

\* So do the groups.
LEMMA GroupsTaken ==
  ASSUME NoBuiltins, NEW r \in Configs, r.groups = <<>>, NEW s \in Configs, NEW allow \in BOOLEAN
  PROVE  /\ Listed("group", s.groups) \in Seq(Element)
         /\ Listed("group", s.groups) # <<>>
         /\ Listed("group", s.groups)[1][1] = "group"
         /\ Taken(r, Listed("group", s.groups), allow) = [r EXCEPT !.groups = s.groups]
<1> DEFINE groups == s.groups  L == Listed("group", groups)  n == Len(groups)
<1>1. groups \in Seq(Group \ {Blank}) /\ n \in Nat /\ DOMAIN groups = 1..n
      /\ \A k \in 1..n : groups[k] \in Group \ {Blank}
  BY ConfigFields
<1>2. r = [r EXCEPT !.groups = <<>>]
  BY ConfigFields
<1>4. \A t \in Group \cup {Blank} : <<"group", t>> \in Element
  BY DEF Element
<1>5. CASE n = 0
  <2>1. groups = <<>>
    BY <1>1, <1>5
  <2>2. L = << <<"group", Blank>> >>
    BY <2>1 DEF Listed
  <2>4. L \in Seq(Element) /\ L # <<>> /\ L[1] = <<"group", Blank>> /\ Len(L) = 1
    <3>1. <<"group", Blank>> \in Element
      BY <1>4
    <3> HIDE DEF L
    <3> QED BY <2>2, <3>1
  <2>5. Take(r, L[1], allow) = r
    BY <2>4 DEF Take
  <2> DEFINE c == [k \in 0..1 |-> r]
  <2>6. \A k \in 1..Len(L) : c[k] = Take(c[k - 1], L[k], allow)
    BY <2>4, <2>5
  <2>7. c[0] = r /\ c[Len(L)] = r
    BY <2>4
  <2> HIDE DEF L, c
  <2>8. Taken(c[0], L, allow) = c[Len(L)]
    BY <2>4, <2>6, TakenAlong
  <2> QED BY <1>2, <2>1, <2>4, <2>7, <2>8 DEF L
<1>6. CASE n # 0
  <2>1. L = [k \in 1..n |-> <<"group", groups[k]>>]
    BY <1>1, <1>6 DEF Listed
  <2>2. L \in [1..n -> Element]
    BY <1>1, <1>4, <2>1
  <2>3. L \in Seq(Element) /\ L # <<>> /\ Len(L) = n /\ 1 \in 1..n
        /\ \A k \in 1..n : L[k] = <<"group", groups[k]>>
    <3>1. \A k \in 1..n : L[k] = <<"group", groups[k]>>
      BY <2>1
    <3> HIDE DEF L
    <3>2. L \in Seq(Element) /\ Len(L) = n /\ 1 \in 1..n
      BY <1>1, <1>6, <2>2
    <3> QED BY <1>6, <3>1, <3>2
  <2> HIDE DEF L
  <2> DEFINE c == [k \in 0..n |-> [r EXCEPT !.groups = SubSeq(groups, 1, k)]]
  <2>4. ASSUME NEW k \in 1..n
        PROVE  c[k] = Take(c[k - 1], L[k], allow)
    <3> DEFINE u == SubSeq(groups, 1, k - 1)
    <3>1. k - 1 \in 0..n - 1 /\ (k - 1) + 1 = k /\ k - 1 \in 0..n /\ k \in 0..n
      BY <1>1
    <3>2. SubSeq(groups, 1, k) = Append(u, groups[k])
      <4>1. SubSeq(groups, 1, (k - 1) + 1) = Append(SubSeq(groups, 1, k - 1), groups[(k - 1) + 1])
        BY <1>1, <3>1, NextPart
      <4> QED BY <3>1, <4>1
    <3>3. c[k - 1] = [r EXCEPT !.groups = u] /\ c[k] = [r EXCEPT !.groups = Append(u, groups[k])]
      BY <3>1, <3>2
    <3> HIDE DEF u, c
    <3>4. L[k] = <<"group", groups[k]>> /\ groups[k] # Blank
      BY <1>1, <2>3
    <3>6. Take(c[k - 1], L[k], allow) =
            [c[k - 1] EXCEPT !.groups = Append(c[k - 1].groups, groups[k])]
      BY <3>4 DEF Take
    <3>7. c[k - 1].groups = u
      BY <3>3, ConfigFields
    <3> QED BY <3>3, <3>6, <3>7
  <2>5. c[0] = r /\ c[n] = [r EXCEPT !.groups = groups]
    <3>1. SubSeq(groups, 1, 0) = <<>> /\ SubSeq(groups, 1, n) = groups
      BY <1>1, AllParts
    <3>2. 0 \in 0..n /\ n \in 0..n
      BY <1>1
    <3>3. c[0] = [r EXCEPT !.groups = SubSeq(groups, 1, 0)]
          /\ c[n] = [r EXCEPT !.groups = SubSeq(groups, 1, n)]
      BY <3>2
    <3> HIDE DEF c
    <3> QED BY <1>2, <3>1, <3>3
  <2> HIDE DEF c
  <2>6. Taken(c[0], L, allow) = c[Len(L)]
    <3>1. \A k \in 1..Len(L) : c[k] = Take(c[k - 1], L[k], allow)
      BY <2>3, <2>4
    <3> QED BY <2>3, <3>1, TakenAlong
  <2> QED BY <2>3, <2>5, <2>6 DEF L
<1> QED BY <1>5, <1>6

\* The configuration r, except that the item of that name holds these texts.
Holding(r, name, texts) ==
  [r EXCEPT !.items = [j \in DOMAIN r.items |->
     IF r.items[j].name = name THEN [r.items[j] EXCEPT !.values = texts] ELSE r.items[j]]]
Holds(r, name, texts) ==
  \A j \in DOMAIN r.items : r.items[j].name = name => Len(texts) <= r.items[j].max
DiffersIn(r, name, texts, t) ==
  /\ t \in Configs /\ Len(t.items) = Len(r.items) /\ DOMAIN t.items = DOMAIN r.items
  /\ \A j \in DOMAIN r.items :
       t.items[j] = IF r.items[j].name = name THEN [r.items[j] EXCEPT !.values = texts]
                    ELSE r.items[j]
  /\ \A j \in DOMAIN r.items :
       /\ t.items[j].name = r.items[j].name /\ t.items[j].max = r.items[j].max
       /\ r.items[j].name = name => t.items[j].values = texts
       /\ r.items[j].name # name => t.items[j] = r.items[j]

LEMMA HoldingKeeps ==
  ASSUME NEW r \in Configs, NEW name, NEW texts \in Seq(Text), Holds(r, name, texts)
  PROVE  DiffersIn(r, name, texts, Holding(r, name, texts))
<1> DEFINE f == [j \in DOMAIN r.items |->
                   IF r.items[j].name = name THEN [r.items[j] EXCEPT !.values = texts]
                   ELSE r.items[j]]
           t == Holding(r, name, texts)
<1>1. ASSUME NEW j \in DOMAIN r.items
      PROVE  /\ r.items[j] \in Item /\ f[j] \in Item
             /\ f[j].name = r.items[j].name /\ f[j].max = r.items[j].max
             /\ r.items[j].name = name => f[j].values = texts
             /\ r.items[j].name # name => f[j] = r.items[j]
  <2>1. r.items[j] \in Item
    BY ConfigFields
  <2>2. CASE r.items[j].name = name
    <3>1. Len(texts) <= r.items[j].max
      BY <2>2 DEF Holds
    <3>2. [r.items[j] EXCEPT !.values = texts] \in Item
          /\ [r.items[j] EXCEPT !.values = texts].name = r.items[j].name
          /\ [r.items[j] EXCEPT !.values = texts].values = texts
      BY <2>1, <3>1, NewValues
    <3>3. [r.items[j] EXCEPT !.values = texts].max = r.items[j].max
      OBVIOUS
    <3> QED BY <2>1, <2>2, <3>2, <3>3
  <2>3. CASE r.items[j].name # name
    BY <2>1, <2>3
  <2> QED BY <2>2, <2>3
<1>2. t = [r EXCEPT !.items = f]
  BY DEF Holding
<1>3. f = [j \in DOMAIN r.items |-> f[j]]
  OBVIOUS
<1>4. t.items = f
  BY <1>2, ConfigFields
<1>5. r.items \in Seq(Item) /\ DOMAIN r.items = 1..Len(r.items) /\ Len(r.items) \in Nat
  BY ConfigFields
<1>6. Len(f) = Len(r.items) /\ DOMAIN f = DOMAIN r.items
  <2>1. f \in [1..Len(r.items) -> Item]
    BY <1>1, <1>5
  <2> QED BY <1>5, <2>1
<1>8. \A j \in DOMAIN r.items :
        f[j] = IF r.items[j].name = name THEN [r.items[j] EXCEPT !.values = texts]
               ELSE r.items[j]
  OBVIOUS
<1> HIDE DEF f, t
<1>7. t \in Configs
  BY <1>1, <1>2, <1>3, MappedItems
<1> QED BY <1>1, <1>4, <1>6, <1>7, <1>8 DEF t, DiffersIn

LEMMA NoBuiltin ==
  ASSUME NoBuiltins, NEW n \in Name
  PROVE  n \notin Builtin
BY ConfigAssumption DEF NoBuiltins, Builtin

\* The texts of one item, which held none, are what it holds.
LEMMA PartTaken ==
  ASSUME NoBuiltins, NEW r \in Configs, NEW name \in Name, NEW texts \in Seq(Text),
         Holds(r, name, texts), NEW allow \in BOOLEAN,
         \A j \in DOMAIN r.items : r.items[j].name = name => r.items[j].values = <<>>
  PROVE  /\ ListedBare(name, texts) \in Seq(Element)
         /\ Taken(r, ListedBare(name, texts), allow) = Holding(r, name, texts)
<1> DEFINE L == ListedBare(name, texts)  n == Len(texts)
<1>1. n \in Nat /\ DOMAIN texts = 1..n /\ \A k \in 1..n : texts[k] \in Text
  OBVIOUS
<1>2. \A t \in Text : <<name, t>> \in Element
  BY DEF Element
<1>3. L = [k \in 1..n |-> <<name, texts[k]>>]
  BY <1>1 DEF ListedBare
<1>4. L \in Seq(Element) /\ Len(L) = n /\ \A k \in 1..n : L[k] = <<name, texts[k]>>
  <2>1. \A k \in 1..n : L[k] = <<name, texts[k]>>
    BY <1>3
  <2>2. L \in [1..n -> Element]
    BY <1>1, <1>2, <1>3
  <2> HIDE DEF L
  <2>3. L \in Seq(Element) /\ Len(L) = n
    BY <1>1, <2>2
  <2> QED BY <2>1, <2>3
<1> HIDE DEF L
<1> DEFINE c == [k \in 0..n |-> Holding(r, name, SubSeq(texts, 1, k))]
<1>5. ASSUME NEW k \in 0..n
      PROVE  /\ SubSeq(texts, 1, k) \in Seq(Text) /\ Len(SubSeq(texts, 1, k)) = k
             /\ Holds(r, name, SubSeq(texts, 1, k))
  <2>1. SubSeq(texts, 1, k) \in Seq(Text) /\ Len(SubSeq(texts, 1, k)) = k
    BY <1>1
  <2>2. ASSUME NEW j \in DOMAIN r.items, r.items[j].name = name
        PROVE  Len(SubSeq(texts, 1, k)) <= r.items[j].max
    <3>1. n <= r.items[j].max
      BY <2>2 DEF Holds
    <3>2. r.items[j] \in Item
      BY ConfigFields
    <3>3. r.items[j].max \in Nat
      BY <3>2, ItemFields
    <3> QED BY <1>1, <2>1, <3>1, <3>3
  <2> QED BY <2>1, <2>2 DEF Holds
<1>6. ASSUME NEW k \in 1..n
      PROVE  c[k] = Take(c[k - 1], L[k], allow)
  <2> DEFINE u == SubSeq(texts, 1, k - 1)  x == Holding(r, name, u)  v == texts[k]
             y == Holding(r, name, Append(u, v))
  <2>1. k - 1 \in 0..n - 1 /\ (k - 1) + 1 = k /\ k - 1 \in 0..n /\ k \in 0..n
    BY <1>1
  <2>2. SubSeq(texts, 1, k) = Append(u, v)
    <3>1. SubSeq(texts, 1, (k - 1) + 1) = Append(SubSeq(texts, 1, k - 1), texts[(k - 1) + 1])
      BY <1>1, <2>1, NextPart
    <3> QED BY <2>1, <3>1
  <2>3. c[k - 1] = x /\ c[k] = y
    BY <2>1, <2>2
  <2> HIDE DEF c
  <2>4. Take(x, L[k], allow) = WithValue(x, name, v)
    BY <1>4, NoBuiltin DEF Take, Builtin
  <2>5. u \in Seq(Text) /\ Len(u) = k - 1 /\ Holds(r, name, u)
    BY <1>5, <2>1
  <2>6. Append(u, v) \in Seq(Text) /\ Holds(r, name, Append(u, v))
    <3>1. Append(u, v) = SubSeq(texts, 1, k)
      BY <2>2
    <3> HIDE DEF u, v
    <3> QED BY <1>5, <2>1, <3>1
  <2> HIDE DEF u, v
  <2>7. /\ x \in Configs /\ DOMAIN x.items = DOMAIN r.items
        /\ \A j \in DOMAIN r.items :
             /\ x.items[j].name = r.items[j].name /\ x.items[j].max = r.items[j].max
             /\ r.items[j].name = name => x.items[j].values = u
             /\ r.items[j].name # name => x.items[j] = r.items[j]
        /\ \A j \in DOMAIN r.items :
              x.items[j] = IF r.items[j].name = name THEN [r.items[j] EXCEPT !.values = u]
                           ELSE r.items[j]
    <3>1. DiffersIn(r, name, u, x)
      BY <2>5, HoldingKeeps
    <3> HIDE DEF x
    <3> QED BY <3>1 DEF DiffersIn
  <2> DEFINE g == [j \in DOMAIN r.items |->
                     IF r.items[j].name = name THEN [r.items[j] EXCEPT !.values = Append(u, v)]
                     ELSE r.items[j]]
             f == [j \in DOMAIN x.items |->
                     LET item == x.items[j] IN
                     IF item.name = name /\ Len(item.values) < item.max
                       THEN [item EXCEPT !.values = Append(@, v)] ELSE item]
  <2>8. ASSUME NEW j \in DOMAIN r.items
        PROVE  f[j] = g[j]
    <3>1. CASE r.items[j].name = name
      <4>1. n <= r.items[j].max /\ r.items[j] \in Item
        BY <3>1, ConfigFields DEF Holds
      <4>2. Len(u) < r.items[j].max
        <5>1. r.items[j].max \in Nat
          BY <4>1, ItemFields
        <5> QED BY <1>1, <2>1, <2>5, <4>1, <5>1
      <4>3. /\ x.items[j] = [r.items[j] EXCEPT !.values = u] /\ x.items[j].values = u
            /\ x.items[j].name = name /\ x.items[j].max = r.items[j].max
        BY <2>7, <3>1
      <4>4. f[j] = [x.items[j] EXCEPT !.values = Append(u, v)]
        BY <2>7, <4>2, <4>3
      <4> QED BY <3>1, <4>3, <4>4
    <3>2. CASE r.items[j].name # name
      BY <2>7, <3>2
    <3> QED BY <3>1, <3>2
  <2>9. f = g
    BY <2>7, <2>8
  <2>10. WithValue(x, name, v) = [x EXCEPT !.items = f]
    BY DEF WithValue
  <2>11. y = [r EXCEPT !.items = g]
    BY DEF Holding
  <2>12. \A h : [x EXCEPT !.items = h] = [r EXCEPT !.items = h]
    BY DEF Holding
  <2> HIDE DEF f, g, x, y
  <2> QED BY <2>3, <2>4, <2>9, <2>10, <2>11, <2>12
<1>7. c[0] = r
  <2>1. SubSeq(texts, 1, 0) = <<>> /\ 0 \in 0..n
    BY <1>1, AllParts
  <2>2. c[0] = Holding(r, name, <<>>)
    BY <2>1
  <2>3. ASSUME NEW j \in DOMAIN r.items
        PROVE  r.items[j] = IF r.items[j].name = name THEN [r.items[j] EXCEPT !.values = <<>>]
                            ELSE r.items[j]
    <3>1. r.items[j] \in Item
      BY ConfigFields
    <3>2. r.items[j] = [name |-> r.items[j].name, type |-> r.items[j].type,
                        max |-> r.items[j].max, values |-> r.items[j].values]
      BY <3>1, ItemFields
    <3>3. CASE r.items[j].name = name
      <4>1. r.items[j].values = <<>>
        BY <3>3
      <4> QED BY <3>2, <3>3, <4>1
    <3> QED BY <3>3
  <2>4. r.items = [j \in DOMAIN r.items |-> r.items[j]]
    BY ConfigFields
  <2>5. r.items = [j \in DOMAIN r.items |->
                     IF r.items[j].name = name THEN [r.items[j] EXCEPT !.values = <<>>]
                     ELSE r.items[j]]
    BY <2>3, <2>4
  <2>6. Holding(r, name, <<>>) = [r EXCEPT !.items = r.items]
    BY <2>5 DEF Holding
  <2>7. [r EXCEPT !.items = r.items] = r
    BY ConfigFields
  <2> QED BY <2>2, <2>6, <2>7
<1>8. c[n] = Holding(r, name, texts)
  <2>1. SubSeq(texts, 1, n) = texts /\ n \in 0..n
    BY <1>1, AllParts
  <2> QED BY <2>1
<1> HIDE DEF c
<1>9. Taken(c[0], L, allow) = c[Len(L)]
  <2>1. \A k \in 1..Len(L) : c[k] = Take(c[k - 1], L[k], allow)
    BY <1>4, <1>6
  <2> QED BY <1>4, <2>1, TakenAlong
<1> QED BY <1>4, <1>7, <1>8, <1>9 DEF L

LEMMA FlattenedParts ==
  ASSUME NEW S, NEW q \in Seq(Seq(S))
  PROVE  \E f : /\ f[0] = <<>> /\ f[Len(q)] = FlattenSeq(q)
                /\ \A i \in 1..Len(q) : f[i] = f[i - 1] \o q[i]
<1> DEFINE n == Len(q)
<1>1. n \in Nat /\ \A i \in 1..n : q[i] \in Seq(S)
  OBVIOUS
<1>2. CASE n = 0
  <2>1. q = <<>> /\ FlattenSeq(q) = q
    BY <1>2 DEF FlattenSeq
  <2> DEFINE f == [i \in 0..0 |-> <<>>]
  <2>2. f[0] = <<>> /\ f[n] = FlattenSeq(q) /\ \A i \in 1..n : f[i] = f[i - 1] \o q[i]
    BY <1>2, <2>1
  <2> QED BY <2>2
<1>3. CASE n # 0
  <2>1. PICK g : /\ g[1] = q[1] /\ g[n] = FlattenSeq(q)
                 /\ \A i \in 2..n : g[i] = g[i - 1] \o q[i]
    BY <1>1, <1>3, Flattened
  <2> DEFINE f == [i \in 0..n |-> IF i = 0 THEN <<>> ELSE g[i]]
  <2>2. f[0] = <<>> /\ f[n] = FlattenSeq(q)
    BY <1>1, <1>3, <2>1
  <2>3. ASSUME NEW i \in 1..n
        PROVE  f[i] = f[i - 1] \o q[i]
    <3>1. CASE i = 1
      <4>1. f[i] = q[1] /\ f[i - 1] = <<>> /\ q[1] \in Seq(S)
        BY <1>1, <2>1, <3>1
      <4> HIDE DEF f
      <4> QED BY <3>1, <4>1
    <3>2. CASE i # 1
      <4>1. i \in 2..n /\ i - 1 \in 0..n /\ i - 1 # 0 /\ i \in 0..n /\ i # 0
        BY <1>1, <3>2
      <4>2. f[i] = g[i] /\ f[i - 1] = g[i - 1]
        BY <4>1
      <4> HIDE DEF f
      <4> QED BY <2>1, <4>1, <4>2
    <3> QED BY <3>1, <3>2
  <2> HIDE DEF f
  <2> QED BY <2>2, <2>3
<1> QED BY <1>2, <1>3

\* The configuration t is r, except that the items that the first m of these
\* items name hold the texts given for them, and the others nothing.
Gives(r, items, texts, m, t) ==
  /\ t \in Configs /\ t = [r EXCEPT !.items = t.items] /\ DOMAIN t.items = DOMAIN r.items
  /\ \A j \in DOMAIN r.items :
       /\ t.items[j].name = r.items[j].name
       /\ \A i \in 1..m : items[i].name = r.items[j].name => t.items[j].values = texts[i]
       /\ (\A i \in 1..m : items[i].name # r.items[j].name) => t.items[j].values = <<>>
Fits(items, texts) ==
  /\ items \in Seq(Item) /\ Distinct(items)
  /\ \A i \in 1..Len(items) : texts[i] \in Seq(Text) /\ Len(texts[i]) <= items[i].max

LEMMA GivesMore ==
  ASSUME NoBuiltins, NEW r \in Configs, NEW items, NEW texts, Fits(items, texts),
         NEW m \in 0..Len(items) - 1, NEW x, Gives(r, items, texts, m, x), NEW allow \in BOOLEAN
  PROVE  LET part == ListedBare(items[m + 1].name, texts[m + 1]) IN
         part \in Seq(Element) /\ Gives(r, items, texts, m + 1, Taken(x, part, allow))
<1> DEFINE name == items[m + 1].name  text == texts[m + 1]  part == ListedBare(name, text)
           t == Holding(x, name, text)
<1>1. /\ items \in Seq(Item) /\ Len(items) \in Nat /\ m \in Nat /\ m + 1 \in 1..Len(items)
      /\ items[m + 1] \in Item /\ text \in Seq(Text) /\ Len(text) <= items[m + 1].max
  BY DEF Fits
<1>2. name \in Name /\ items[m + 1].max = Definition[name].max
  BY <1>1, ItemFields
<1>3. /\ x \in Configs /\ x = [r EXCEPT !.items = x.items] /\ DOMAIN x.items = DOMAIN r.items
      /\ \A j \in DOMAIN r.items : x.items[j].name = r.items[j].name
  BY DEF Gives
<1>4. Holds(x, name, text)
  <2>1. ASSUME NEW j \in DOMAIN x.items, x.items[j].name = name
        PROVE  Len(text) <= x.items[j].max
    <3>1. x.items[j] \in Item
      BY <1>3, ConfigFields
    <3>2. x.items[j].max = Definition[name].max
      BY <2>1, <3>1, ItemFields
    <3> QED BY <1>1, <1>2, <3>2
  <2> QED BY <2>1 DEF Holds
<1>5. ASSUME NEW j \in DOMAIN x.items, x.items[j].name = name
      PROVE  x.items[j].values = <<>>
  <2>1. ASSUME NEW i \in 1..m
        PROVE  items[i].name # name
    <3>1. i \in 1..Len(items) /\ i # m + 1
      BY <1>1
    <3> QED BY <1>1, <3>1 DEF Fits, Distinct
  <2>2. j \in DOMAIN r.items /\ r.items[j].name = name
    BY <1>3, <1>5
  <2> HIDE DEF name
  <2> QED BY <2>1, <2>2 DEF Gives
<1> HIDE DEF name, text, part, t
<1>6. ListedBare(name, text) \in Seq(Element)
      /\ Taken(x, ListedBare(name, text), allow) = Holding(x, name, text)
  BY <1>1, <1>2, <1>3, <1>4, <1>5, PartTaken
<1>7. DiffersIn(x, name, text, t)
  BY <1>1, <1>3, <1>4, HoldingKeeps DEF t
<1>8. t = [x EXCEPT !.items = t.items]
  BY <1>3, ConfigFields DEF t, Holding
<1>9. Gives(r, items, texts, m + 1, t)
  <2>1. t \in Configs /\ DOMAIN t.items = DOMAIN r.items
    BY <1>3, <1>7 DEF DiffersIn
  <2>2. t = [r EXCEPT !.items = t.items]
    <3>1. \A h : [x EXCEPT !.items = h] = [r EXCEPT !.items = h]
      BY <1>3
    <3> QED BY <1>8, <3>1
  <2>3. ASSUME NEW j \in DOMAIN r.items
        PROVE  /\ t.items[j].name = r.items[j].name
               /\ \A i \in 1..m + 1 : items[i].name = r.items[j].name => t.items[j].values = texts[i]
               /\ (\A i \in 1..m + 1 : items[i].name # r.items[j].name) => t.items[j].values = <<>>
    <3>1. /\ j \in DOMAIN x.items /\ x.items[j].name = r.items[j].name
          /\ \A i \in 1..m : items[i].name = r.items[j].name => x.items[j].values = texts[i]
          /\ (\A i \in 1..m : items[i].name # r.items[j].name) => x.items[j].values = <<>>
      BY <1>3 DEF Gives
    <3>2. /\ t.items[j].name = x.items[j].name
          /\ x.items[j].name = name => t.items[j].values = text
          /\ x.items[j].name # name => t.items[j] = x.items[j]
      BY <1>7, <3>1 DEF DiffersIn
    <3>3. \A i \in 1..m + 1 : i \in 1..m \/ i = m + 1
      BY <1>1
    <3>4. \A i \in 1..m : i \in 1..m + 1 /\ items[i].name # name
      <4>1. ASSUME NEW i \in 1..m
            PROVE  i \in 1..m + 1 /\ items[i].name # items[m + 1].name
        <5>1. i \in 1..Len(items) /\ i # m + 1 /\ i \in 1..m + 1
          BY <1>1
        <5> QED BY <1>1, <5>1 DEF Fits, Distinct
      <4> QED BY <4>1 DEF name
    <3>5. CASE r.items[j].name = name
      <4>1. t.items[j].values = texts[m + 1] /\ items[m + 1].name = r.items[j].name
        BY <3>1, <3>2, <3>5 DEF name, text
      <4>2. m + 1 \in 1..m + 1
        BY <1>1
      <4> QED BY <3>1, <3>2, <3>3, <3>4, <3>5, <4>1, <4>2
    <3>6. CASE r.items[j].name # name
      <4>1. t.items[j] = x.items[j] /\ items[m + 1].name # r.items[j].name
        BY <3>1, <3>2, <3>6 DEF name
      <4> QED BY <3>1, <3>2, <3>3, <3>4, <4>1
    <3> QED BY <3>5, <3>6
  <2> QED BY <2>1, <2>2, <2>3 DEF Gives
<1> QED BY <1>6, <1>9 DEF t, part, name, text

\* The texts of the items, one item after the other, are what the items hold.
LEMMA ValuesTaken ==
  ASSUME NoBuiltins, NEW r \in Configs, NEW items, NEW texts, Fits(items, texts),
         \A j \in DOMAIN r.items : r.items[j].values = <<>>,
         NEW q, q = [i \in DOMAIN items |-> ListedBare(items[i].name, texts[i])],
         NEW allow \in BOOLEAN
  PROVE  /\ FlattenSeq(q) \in Seq(Element)
         /\ Gives(r, items, texts, Len(items), Taken(r, FlattenSeq(q), allow))
<1> DEFINE n == Len(items)
<1>1. /\ n \in Nat /\ DOMAIN items = 1..n
      /\ \A i \in 1..n : items[i] \in Item /\ items[i].name \in Name /\ texts[i] \in Seq(Text)
  <2>1. items \in Seq(Item)
    BY DEF Fits
  <2>2. \A i \in 1..n : items[i] \in Item
    BY <2>1
  <2> QED BY <2>1, <2>2, ItemFields DEF Fits
<1>2. ASSUME NEW i \in 1..n
      PROVE  q[i] \in Seq(Element)
  <2> DEFINE name == items[i].name  text == texts[i]
  <2>1. text \in Seq(Text) /\ name \in Name /\ q[i] = ListedBare(name, text)
    BY <1>1
  <2> HIDE DEF name, text
  <2>2. \A k \in 1..Len(text) : text[k] \in Text
    BY <2>1
  <2>3. \A t \in Text : <<name, t>> \in Element
    BY <2>1 DEF Element
  <2>4. q[i] \in [1..Len(text) -> Element] /\ Len(text) \in Nat
    BY <2>1, <2>2, <2>3 DEF ListedBare
  <2> QED BY <2>4
<1>3. q \in Seq(Seq(Element)) /\ Len(q) = n
  <2>1. q \in [1..n -> Seq(Element)]
    BY <1>1, <1>2
  <2> QED BY <1>1, <2>1
<1>4. PICK f : /\ f[0] = <<>> /\ f[n] = FlattenSeq(q)
               /\ \A i \in 1..n : f[i] = f[i - 1] \o q[i]
  BY <1>3, FlattenedParts
<1> DEFINE S == {m \in 0..n : /\ f[m] \in Seq(Element)
                              /\ Gives(r, items, texts, m, Taken(r, f[m], allow))}
<1>5. 0 \in S
  <2>1. <<>> \in Seq(Element) /\ Taken(r, <<>>, allow) = r
    BY TakenNothing
  <2>2. Gives(r, items, texts, 0, r)
    <3>1. r = [r EXCEPT !.items = r.items]
      BY ConfigFields
    <3> QED BY <3>1 DEF Gives
  <2>3. f[0] \in Seq(Element) /\ Taken(r, f[0], allow) = r
    BY <1>4, <2>1
  <2>4. Gives(r, items, texts, 0, Taken(r, f[0], allow)) /\ 0 \in 0..n
    BY <1>1, <2>2, <2>3
  <2> QED BY <2>3, <2>4
<1>6. ASSUME NEW m \in 0..n - 1, m \in S
      PROVE  m + 1 \in S
  <2> DEFINE part == ListedBare(items[m + 1].name, texts[m + 1])
             x == Taken(r, f[m], allow)
  <2>1. m + 1 \in 1..n /\ (m + 1) - 1 = m /\ m + 1 \in 0..n
    BY <1>1
  <2>2. f[m] \in Seq(Element) /\ Gives(r, items, texts, m, x)
    BY <1>6
  <2>3. part \in Seq(Element) /\ Gives(r, items, texts, m + 1, Taken(x, part, allow))
    <3> HIDE DEF x
    <3> QED BY <2>2, GivesMore, Zenon
  <2>4. f[m + 1] = f[m] \o part
    BY <1>1, <1>4, <2>1
  <2> HIDE DEF part
  <2>5. f[m] \o part \in Seq(Element)
    BY <2>2, <2>3
  <2>6. Taken(r, f[m] \o part, allow) = Taken(x, part, allow)
    BY <2>2, <2>3, TakenConcat
  <2> QED BY <2>1, <2>3, <2>4, <2>5, <2>6
<1>7. \A m \in 0..n : m \in S
  <2> HIDE DEF S
  <2> QED BY <1>1, <1>5, <1>6, Stepwise
<1>8. n \in S
  <2> HIDE DEF S
  <2> QED BY <1>1, <1>7
<1> QED BY <1>4, <1>8

-----------------------------------------------------------------------------
(* What a file and what an answer give back. *)


LEMMA ConfigIsService ==
  ASSUME NEW s \in Configs
  PROVE  s # NoService
<1> DEFINE A == Id \cup {FreshId}  B == Minutes \cup {DEFAULT_MINUTES}  Flag == BOOLEAN
<1>1. DotFree \subseteq Seq(Token) /\ \A x \in FilterTypes \cup {"*"} : <<x>> \in Seq(Token)
  BY ConfigAssumption DEF DotFree
<1>2. Canonical \subseteq [type : Seq(Token), vendor : Seq(Token), device : Seq(Token),
                           instance : Seq(Token), class : Seq(Token), schema : Seq(Token)]
  BY <1>1 DEF Canonical
<1>3. s.filters \in Seq([type : Seq(Token), vendor : Seq(Token), device : Seq(Token),
                         instance : Seq(Token), class : Seq(Token), schema : Seq(Token)])
  <2> DEFINE R == [type : Seq(Token), vendor : Seq(Token), device : Seq(Token),
                   instance : Seq(Token), class : Seq(Token), schema : Seq(Token)]
             q == s.filters
  <2>1. q \in Seq(Canonical) /\ Canonical \subseteq R
    BY <1>2, ConfigFields
  <2> HIDE DEF R, q
  <2>2. q \in Seq(R)
    BY <2>1
  <2> QED BY <2>2 DEF R, q
<1>4. s.items \in Seq([name : Name, type : ItemTypes, max : Nat, values : Seq(Text)])
  <2> DEFINE R == [name : Name, type : ItemTypes, max : Nat, values : Seq(Text)]
             q == s.items
  <2>1. q \in Seq(Item)
    BY ConfigFields
  <2>2. Item \subseteq R
    BY DEF Item
  <2> HIDE DEF R, q
  <2>3. q \in Seq(R)
    BY <2>1, <2>2
  <2> QED BY <2>3 DEF R, q
<1>5. s.groups \in Seq(Group)
  BY ConfigFields
<1>6. /\ s = [enabled |-> s.enabled, configured |-> s.configured, id |-> s.id,
              interval |-> s.interval, groups |-> s.groups, filters |-> s.filters,
              items |-> s.items]
      /\ s.enabled \in Flag /\ s.configured \in Flag /\ s.id \in A /\ s.interval \in B
  BY ConfigFields
<1>7. s \in [enabled : Flag, configured : Flag, id : A, interval : B, groups : Seq(Group),
             filters : Seq([type : Seq(Token), vendor : Seq(Token), device : Seq(Token),
                            instance : Seq(Token), class : Seq(Token), schema : Seq(Token)]),
             items : Seq([name : Name, type : ItemTypes, max : Nat, values : Seq(Text)])]
  <2> DEFINE P == Seq(Group)
             Q == Seq([type : Seq(Token), vendor : Seq(Token), device : Seq(Token),
                       instance : Seq(Token), class : Seq(Token), schema : Seq(Token)])
             R == Seq([name : Name, type : ItemTypes, max : Nat, values : Seq(Text)])
  <2>1. s.groups \in P /\ s.filters \in Q /\ s.items \in R
    BY <1>3, <1>4, <1>5
  <2> HIDE DEF A, B, Flag, P, Q, R
  <2>2. s \in [enabled : Flag, configured : Flag, id : A, interval : B, groups : P,
               filters : Q, items : R]
    BY <1>6, <2>1
  <2> QED BY <2>2 DEF P, Q, R
<1> QED BY <1>7, AbsenceAssumption DEF Service

LEMMA FreshIsConfig ==
  /\ Fresh \in Configs /\ ~Fresh.configured /\ ~Fresh.enabled
  /\ Fresh.items = <<>> /\ Fresh.groups = <<>> /\ Fresh.filters = <<>>
<1>1. /\ <<>> \in Seq(Item) /\ <<>> \in Seq(Canonical) /\ <<>> \in Seq(Group \ {Blank})
      /\ Distinct(<<>>)
  BY DEF Distinct
<1> QED BY <1>1 DEF Fresh, Configs

LEMMA SameItem ==
  ASSUME NEW a \in Item, NEW b \in Item, a.name = b.name, a.values = b.values
  PROVE  a = b
BY ItemFields

LEMMA SwitchedOff ==
  ASSUME NEW s \in Configs
  PROVE  Configuration(s) =
           [enabled |-> FALSE, configured |-> s.configured, id |-> s.id,
            interval |-> s.interval, groups |-> s.groups, filters |-> s.filters,
            items |-> s.items]
<1> DEFINE A == Id \cup {FreshId}  B == Minutes \cup {DEFAULT_MINUTES}
           C == Seq(Group \ {Blank})  E == Seq(Canonical)  H == Seq(Item)
           Flag == BOOLEAN  off == FALSE
<1>1. s \in [enabled : Flag, configured : Flag, id : A, interval : B,
             groups : C, filters : E, items : H]
  BY DEF Configs
<1> HIDE DEF A, B, C, E, H, Flag, off
<1>2. [s EXCEPT !.enabled = off] =
        [enabled |-> off, configured |-> s.configured, id |-> s.id,
         interval |-> s.interval, groups |-> s.groups, filters |-> s.filters,
         items |-> s.items]
  BY <1>1
<1> QED BY <1>2 DEF Configuration, off

\* The lines of a service make its configuration out of nothing.
LEMMA LinesTaken ==
  ASSUME NoBuiltins, NEW s \in Configs, NEW allow \in BOOLEAN
  PROVE  /\ Lines(s) \in Seq(Element) /\ Lines(s) # <<>>
         /\ allow => Taken(Fresh, Lines(s), allow) =
              [enabled |-> FALSE, configured |-> FALSE, id |-> s.id, interval |-> s.interval,
               groups |-> s.groups, filters |-> s.filters, items |-> s.items]
<1> DEFINE D == Definitions(s.items)  T == Settings(s)  F == Listed("filter", FilterTexts(s))
           G == Listed("group", s.groups)  V == Values(s)  n == Len(s.items)
<1>1. /\ s.items \in Seq(Item) /\ Distinct(s.items) /\ n \in Nat /\ DOMAIN s.items = 1..n
      /\ \A i \in 1..n : s.items[i] \in Item
  BY ConfigFields
<1> DEFINE texts == [i \in 1..n |-> s.items[i].values]
           q == [i \in DOMAIN s.items |-> ListedBare(s.items[i].name, texts[i])]
<1>2. Fits(s.items, texts)
  <2>1. ASSUME NEW i \in 1..n
        PROVE  texts[i] \in Seq(Text) /\ Len(texts[i]) <= s.items[i].max
    BY <1>1, ItemFields
  <2> HIDE DEF texts
  <2> QED BY <1>1, <2>1 DEF Fits
<1>3. V = FlattenSeq(q)
  BY <1>1 DEF Values, ListedBare
<1>4. /\ D \in Seq(Element) /\ T \in Seq(Element) /\ F \in Seq(Element)
      /\ G \in Seq(Element) /\ V \in Seq(Element)
  <2>1. Fresh \in Configs /\ Fresh.items = <<>> /\ Fresh.filters = <<>> /\ Fresh.groups = <<>>
        /\ \A j \in DOMAIN Fresh.items : Fresh.items[j].values = <<>>
    BY FreshIsConfig
  <2>2. D \in Seq(Element)
    BY <1>1, <2>1, DefinitionsTaken
  <2>3. T \in Seq(Element)
    BY <2>1, SettingsTaken
  <2>4. F \in Seq(Element)
    BY <2>1, FiltersTaken
  <2>5. G \in Seq(Element)
    BY <2>1, GroupsTaken
  <2>6. FlattenSeq(q) \in Seq(Element)
    <3> HIDE DEF texts
    <3> QED BY <1>2, <2>1, ValuesTaken
  <2> HIDE DEF q
  <2> QED BY <1>3, <2>2, <2>3, <2>4, <2>5, <2>6
<1>5. Lines(s) = (((D \o T) \o F) \o G) \o V
  BY DEF Lines
<1> HIDE DEF D, T, F, G, V
<1>6. D \o T \in Seq(Element) /\ (D \o T) \o F \in Seq(Element)
      /\ ((D \o T) \o F) \o G \in Seq(Element)
  BY <1>4
<1>7. Lines(s) \in Seq(Element) /\ Lines(s) # <<>>
  <2>1. Lines(s) \in Seq(Element)
    BY <1>4, <1>5, <1>6
  <2>2. T # <<>>
    BY DEF T, Settings
  <2>3. Len(T) # 0 /\ Len(T) \in Nat
    BY <1>4, <2>2
  <2>4. Len(D \o T) # 0 /\ Len(D \o T) \in Nat
    BY <1>4, <2>3
  <2>5. Len((D \o T) \o F) # 0 /\ Len((D \o T) \o F) \in Nat
    BY <1>4, <1>6, <2>4
  <2>6. Len(((D \o T) \o F) \o G) # 0 /\ Len(((D \o T) \o F) \o G) \in Nat
    BY <1>4, <1>6, <2>5
  <2>7. Len(Lines(s)) # 0
    BY <1>4, <1>5, <1>6, <2>6
  <2> QED BY <2>1, <2>7
<1> DEFINE t1 == Taken(Fresh, D, allow)  t2 == Taken(t1, T, allow)  t3 == Taken(t2, F, allow)
           t4 == Taken(t3, G, allow)  t5 == Taken(t4, V, allow)
<1>8. Taken(Fresh, Lines(s), allow) = t5
  <2> DEFINE p2 == D \o T  p3 == p2 \o F  p4 == p3 \o G
  <2>1. Taken(Fresh, p2, allow) = t2
    BY <1>4, TakenConcat
  <2>5. p2 \in Seq(Element) /\ p3 \in Seq(Element) /\ p4 \in Seq(Element)
        /\ Lines(s) = p4 \o V
    BY <1>5, <1>6
  <2> HIDE DEF p2
  <2>2. Taken(Fresh, p3, allow) = t3
    <3>1. Taken(Fresh, p2 \o F, allow) = Taken(Taken(Fresh, p2, allow), F, allow)
      BY <1>4, <2>5, TakenConcat
    <3> QED BY <2>1, <3>1
  <2> HIDE DEF p3
  <2>3. Taken(Fresh, p4, allow) = t4
    <3>1. Taken(Fresh, p3 \o G, allow) = Taken(Taken(Fresh, p3, allow), G, allow)
      BY <1>4, <2>5, TakenConcat
    <3> QED BY <2>2, <3>1
  <2> HIDE DEF p4
  <2>4. Taken(Fresh, p4 \o V, allow) = Taken(Taken(Fresh, p4, allow), V, allow)
    BY <1>4, <2>5, TakenConcat
  <2> QED BY <2>3, <2>4, <2>5
<1>9. /\ t1 \in Configs /\ t2 \in Configs /\ t3 \in Configs /\ t4 \in Configs
  <2>1. t1 \in Configs
    BY <1>4, FreshIsConfig, TakenKeeps DEF Keeps
  <2> HIDE DEF t1
  <2>2. t2 \in Configs
    BY <1>4, <2>1, TakenKeeps DEF Keeps
  <2> HIDE DEF t2
  <2>3. t3 \in Configs
    BY <1>4, <2>2, TakenKeeps DEF Keeps
  <2> HIDE DEF t3
  <2>4. t4 \in Configs
    BY <1>4, <2>3, TakenKeeps DEF Keeps
  <2> QED BY <2>1, <2>2, <2>3, <2>4
<1>10. allow => t1 = [Fresh EXCEPT !.items = Bare(s.items)]
  BY <1>1, FreshIsConfig, DefinitionsTaken DEF D
<1> HIDE DEF t1
<1>11. t2 = [t1 EXCEPT !.id = s.id, !.interval = s.interval]
  BY <1>9, SettingsTaken DEF T
<1> HIDE DEF t2
<1> SUFFICES ASSUME allow
             PROVE  t5 = [enabled |-> FALSE, configured |-> FALSE, id |-> s.id,
                          interval |-> s.interval, groups |-> s.groups,
                          filters |-> s.filters, items |-> s.items]
  BY <1>7, <1>8
<1>12. t2 = [enabled |-> FALSE, configured |-> FALSE, id |-> s.id, interval |-> s.interval,
             groups |-> <<>>, filters |-> <<>>, items |-> Bare(s.items)]
  BY <1>10, <1>11 DEF Fresh
<1>13. t3 = [t2 EXCEPT !.filters = s.filters]
  BY <1>9, <1>12, FiltersTaken DEF F
<1> HIDE DEF t3
<1>14. t4 = [t3 EXCEPT !.groups = s.groups]
  <2>1. t3.groups = <<>>
    BY <1>12, <1>13
  <2> QED BY <1>9, <2>1, GroupsTaken DEF G
<1> HIDE DEF t4
<1>15. t4 = [enabled |-> FALSE, configured |-> FALSE, id |-> s.id, interval |-> s.interval,
             groups |-> s.groups, filters |-> s.filters, items |-> Bare(s.items)]
  BY <1>12, <1>13, <1>14
<1>16. /\ t4.items = Bare(s.items) /\ DOMAIN t4.items = 1..n
       /\ \A j \in 1..n : t4.items[j].name = s.items[j].name /\ t4.items[j].values = <<>>
  <2>1. Bare(s.items) \in Seq(Item) /\ Len(Bare(s.items)) = n
        /\ \A j \in 1..n : Bare(s.items)[j] =
                             [name |-> s.items[j].name, type |-> s.items[j].type,
                              max |-> s.items[j].max, values |-> <<>>]
    BY <1>1, BareItems
  <2>2. DOMAIN Bare(s.items) = 1..n
    BY <1>1, <2>1
  <2>3. ASSUME NEW j \in 1..n
        PROVE  Bare(s.items)[j].name = s.items[j].name /\ Bare(s.items)[j].values = <<>>
    <3>1. Bare(s.items)[j] = [name |-> s.items[j].name, type |-> s.items[j].type,
                              max |-> s.items[j].max, values |-> <<>>]
      BY <2>1
    <3> QED BY <3>1
  <2> QED BY <1>15, <2>2, <2>3
<1>17. Gives(t4, s.items, texts, n, t5)
  <2>1. Gives(t4, s.items, texts, n, Taken(t4, FlattenSeq(q), allow))
    <3> HIDE DEF texts
    <3> QED BY <1>2, <1>9, <1>16, ValuesTaken
  <2> HIDE DEF q, texts
  <2> QED BY <1>3, <2>1
<1> HIDE DEF t5
<1>18. t5.items = s.items
  <2>1. t5.items \in Seq(Item) /\ DOMAIN t5.items = 1..n
    BY <1>16, <1>17, ConfigFields DEF Gives
  <2>2. ASSUME NEW j \in 1..n
        PROVE  t5.items[j] = s.items[j]
    <3>1. t5.items[j].name = s.items[j].name /\ t5.items[j].values = texts[j]
      <4> HIDE DEF texts
      <4> QED BY <1>16, <1>17 DEF Gives
    <3>2. t5.items[j].values = s.items[j].values
      BY <3>1
    <3>3. t5.items[j] \in Item /\ s.items[j] \in Item
      BY <1>1, <2>1
    <3> QED BY <3>1, <3>2, <3>3, SameItem
  <2>3. Len(t5.items) = n
    BY <1>1, <2>1
  <2> QED BY <1>1, <2>1, <2>2, <2>3, SameSequence
<1>19. t5 = [t4 EXCEPT !.items = s.items]
  BY <1>17, <1>18 DEF Gives
<1> QED BY <1>15, <1>19

\* Loading what was saved gives the configuration that was saved.
LEMMA LinesLoaded ==
  ASSUME NoBuiltins, NEW s \in Configs, s.configured
  PROVE  Loaded(Lines(s)) = Configuration(s)
<1> DEFINE L == Lines(s)
           t == [enabled |-> FALSE, configured |-> FALSE, id |-> s.id, interval |-> s.interval,
                 groups |-> s.groups, filters |-> s.filters, items |-> s.items]
           u == [enabled |-> FALSE, configured |-> TRUE, id |-> s.id, interval |-> s.interval,
                 groups |-> s.groups, filters |-> s.filters, items |-> s.items]
<1>1. L \in Seq(Element) /\ L # <<>> /\ L # NoFile
  BY LinesTaken, AbsenceAssumption
<1>2. Taken(Fresh, L, TRUE) = t
  <2>1. \A allow \in BOOLEAN : allow => Taken(Fresh, L, allow) = t
    BY LinesTaken
  <2> HIDE DEF L, t
  <2> QED BY <2>1, Zenon
<1>3. Emptied(Cleared(Fresh), L) = Fresh
  <2> DEFINE names == ItemNames(Fresh)
             f == [i \in DOMAIN Fresh.items |->
                     IF Fresh.items[i].name \in names
                       THEN [Fresh.items[i] EXCEPT !.values = <<>>] ELSE Fresh.items[i]]
  <2>1. Cleared(Fresh) = [Fresh EXCEPT !.items = f]
    BY DEF Cleared, ClearedOf
  <2>2. f = <<>>
    <3>1. DOMAIN Fresh.items = {}
      BY FreshIsConfig
    <3>2. f \in [1..0 -> {}]
      BY <3>1
    <3>3. f \in Seq({}) /\ Len(f) = 0
      BY <3>2
    <3> QED BY <3>3
  <2> HIDE DEF f
  <2>3. [Fresh EXCEPT !.items = <<>>] = Fresh
    BY FreshIsConfig, ConfigFields
  <2>4. Cleared(Fresh) = Fresh
    BY <2>1, <2>2, <2>3
  <2>5. Emptied(Fresh, L) = [[Fresh EXCEPT !.groups = Fresh.groups] EXCEPT !.filters = Fresh.filters]
    BY FreshIsConfig DEF Emptied
  <2>6. [Fresh EXCEPT !.groups = Fresh.groups] = Fresh /\ [Fresh EXCEPT !.filters = Fresh.filters] = Fresh
    BY FreshIsConfig, ConfigFields
  <2> QED BY <2>4, <2>5, <2>6
<1>4. Loaded(L) = Installed(Fresh, L, TRUE)
  BY <1>1 DEF Loaded
<1> HIDE DEF L
<1>5. Installed(Fresh, L, TRUE) = [t EXCEPT !.configured = TRUE]
  BY <1>2, <1>3 DEF Installed
<1>6. [t EXCEPT !.configured = TRUE] = u
  <2> DEFINE on == TRUE  off == FALSE
             x == [enabled |-> off, configured |-> off, id |-> s.id, interval |-> s.interval,
                   groups |-> s.groups, filters |-> s.filters, items |-> s.items]
             y == [enabled |-> off, configured |-> on, id |-> s.id, interval |-> s.interval,
                   groups |-> s.groups, filters |-> s.filters, items |-> s.items]
  <2> HIDE DEF on, off
  <2>1. [x EXCEPT !.configured = on] = y
    OBVIOUS
  <2> QED BY <2>1 DEF on, off
<1>7. Configuration(s) = u
  BY SwitchedOff
<1> QED BY <1>4, <1>5, <1>6, <1>7 DEF L

LEMMA LoadedIsConfig ==
  ASSUME NoBuiltins, NEW f \in Seq(Element) \cup {NoFile}
  PROVE  Loaded(f) \in Configs /\ ~Loaded(f).enabled
<1>1. CASE f = NoFile \/ f = <<>>
  BY <1>1, FreshIsConfig DEF Loaded
<1>2. CASE ~(f = NoFile \/ f = <<>>)
  <2>1. Loaded(f) = Installed(Fresh, f, TRUE) /\ f \in Seq(Element)
    BY <1>2 DEF Loaded
  <2> QED BY <2>1, FreshIsConfig, InstalledKeeps
<1> QED BY <1>1, <1>2

LEMMA NamesOfBoth ==
  ASSUME NEW a \in Seq(Element), NEW b \in Seq(Element)
  PROVE  Names(a) \subseteq Names(a \o b) /\ Names(b) \subseteq Names(a \o b)
<1>1. /\ a \o b \in Seq(Element) /\ Len(a \o b) = Len(a) + Len(b)
      /\ Len(a) \in Nat /\ Len(b) \in Nat /\ DOMAIN (a \o b) = 1..Len(a) + Len(b)
      /\ DOMAIN a = 1..Len(a) /\ DOMAIN b = 1..Len(b)
  OBVIOUS
<1>2. ASSUME NEW i \in 1..Len(a)
      PROVE  i \in DOMAIN (a \o b) /\ (a \o b)[i] = a[i]
  BY <1>1
<1>3. ASSUME NEW i \in 1..Len(b)
      PROVE  Len(a) + i \in DOMAIN (a \o b) /\ (a \o b)[Len(a) + i] = b[i]
  BY <1>1
<1> DEFINE c == a \o b
<1>4. \A i \in 1..Len(a) : \E j \in DOMAIN c : c[j] = a[i]
  BY <1>2
<1>5. \A i \in 1..Len(b) : \E j \in DOMAIN c : c[j] = b[i]
  BY <1>3
<1> HIDE DEF c
<1>6. Names(a) \subseteq Names(c) /\ Names(b) \subseteq Names(c)
  BY <1>1, <1>4, <1>5 DEF Names
<1> QED BY <1>6 DEF c

\* A configuration emptied by elements that name groups and filters has none,
\* and its items hold nothing.
LEMMA EmptiedKeeps ==
  ASSUME NEW s \in Configs, NEW elements
  PROVE  LET c == Emptied(Cleared(s), elements) IN
         /\ c \in Configs /\ DOMAIN c.items = DOMAIN s.items
         /\ "group" \in Names(elements) => c.groups = <<>>
         /\ "filter" \in Names(elements) => c.filters = <<>>
         /\ \A j \in DOMAIN c.items :
              c.items[j].values = <<>> /\ c.items[j].name = s.items[j].name
<1> DEFINE c == Emptied(Cleared(s), elements)
           f == [i \in DOMAIN s.items |->
                   IF s.items[i].name \in ItemNames(s)
                     THEN [s.items[i] EXCEPT !.values = <<>>] ELSE s.items[i]]
<1>1. Cleared(s) \in Configs
  BY ClearedKeeps DEF Cleared
<1>2. Cleared(s) = [s EXCEPT !.items = f]
  BY DEF Cleared, ClearedOf
<1>3. Cleared(s).items = f
  BY <1>2, ConfigFields
<1>4. ASSUME NEW j \in DOMAIN f
      PROVE  f[j].values = <<>> /\ f[j].name = s.items[j].name
  <2>1. s.items[j] \in Item /\ s.items[j].name \in ItemNames(s)
    BY ConfigFields DEF ItemNames
  <2>2. f[j] = [s.items[j] EXCEPT !.values = <<>>]
    BY <2>1
  <2>3. <<>> \in Seq(Text) /\ Len(<<>>) <= s.items[j].max
    BY <2>1, ItemFields
  <2> QED BY <2>1, <2>2, <2>3, NewValues
<1>8. DOMAIN f = DOMAIN s.items
  OBVIOUS
<1> HIDE DEF f
<1>5. <<>> \in Seq(Group \ {Blank}) /\ <<>> \in Seq(Canonical)
  OBVIOUS
<1>6. c \in Configs /\ c.items = Cleared(s).items
  BY <1>1, <1>5 DEF Emptied, Configs
<1>7. /\ "group" \in Names(elements) => c.groups = <<>>
      /\ "filter" \in Names(elements) => c.filters = <<>>
  BY <1>1, ConfigFields DEF Emptied
<1> HIDE DEF c
<1> QED BY <1>3, <1>4, <1>6, <1>7, <1>8 DEF c

\* What an answer tells of a configuration is what sending it back restores.
LEMMA AnswerTaken ==
  ASSUME NoBuiltins, NEW s \in Configs, NEW t \in Configs, NEW allow \in BOOLEAN
  PROVE  /\ CurrentConfig(t) \in Seq(Element)
         /\ LET new == Installed(s, CurrentConfig(t), allow) IN
            /\ new.id = t.id /\ new.interval = t.interval
            /\ new.groups = t.groups /\ new.filters = t.filters
            /\ \A i \in DOMAIN new.items, k \in DOMAIN t.items :
                 new.items[i].name = t.items[k].name =>
                   Filled(new.items[i].values) = Filled(t.items[k].values)
<1> DEFINE T == Settings(t)  F == Listed("filter", FilterTexts(t))
           G == Listed("group", t.groups)  n == Len(t.items)
           V == FlattenSeq([i \in DOMAIN t.items |-> Listed(t.items[i].name, t.items[i].values)])
           texts == [i \in 1..n |-> IF t.items[i].values = <<>> THEN <<Blank>>
                                    ELSE t.items[i].values]
           q == [i \in DOMAIN t.items |-> ListedBare(t.items[i].name, texts[i])]
           C == CurrentConfig(t)
<1>1. /\ t.items \in Seq(Item) /\ Distinct(t.items) /\ n \in Nat /\ DOMAIN t.items = 1..n
      /\ \A i \in 1..n : t.items[i] \in Item
  BY ConfigFields
<1>2. ASSUME NEW i \in 1..n
      PROVE  /\ texts[i] \in Seq(Text) /\ Len(texts[i]) <= t.items[i].max
             /\ Listed(t.items[i].name, t.items[i].values) = ListedBare(t.items[i].name, texts[i])
             /\ Filled(texts[i]) = Filled(t.items[i].values)
  <2>1. /\ t.items[i].values \in Seq(Text) /\ Len(t.items[i].values) <= t.items[i].max
        /\ t.items[i].max \in Nat \ {0}
    BY <1>1, ItemFields
  <2>2. CASE t.items[i].values = <<>>
    <3>1. texts[i] = <<Blank>>
      BY <2>2
    <3> HIDE DEF texts
    <3>2. <<Blank>> \in Seq(Text) /\ Len(<<Blank>>) = 1
      BY DEF Text
    <3>3. ListedBare(t.items[i].name, <<Blank>>) = << <<t.items[i].name, Blank>> >>
      BY DEF ListedBare
    <3>4. Filled(<<Blank>>) = <<>> /\ Filled(<<>>) = <<>>
      BY DEF Filled
    <3> QED BY <2>1, <2>2, <3>1, <3>2, <3>3, <3>4 DEF Listed
  <2>3. CASE t.items[i].values # <<>>
    <3>1. texts[i] = t.items[i].values
      BY <2>3
    <3> HIDE DEF texts
    <3> QED BY <2>1, <2>3, <3>1 DEF Listed, ListedBare
  <2> QED BY <2>2, <2>3
<1>3. Fits(t.items, texts)
  <2> HIDE DEF texts
  <2> QED BY <1>1, <1>2 DEF Fits
<1>4. V = FlattenSeq(q)
  <2>1. [i \in DOMAIN t.items |-> Listed(t.items[i].name, t.items[i].values)] = q
    <3> HIDE DEF texts
    <3> QED BY <1>1, <1>2
  <2> QED BY <2>1
<1>5. /\ T \in Seq(Element) /\ F \in Seq(Element) /\ G \in Seq(Element) /\ V \in Seq(Element)
      /\ "group" \in Names(G) /\ "filter" \in Names(F)
  <2>1. Fresh \in Configs /\ Fresh.filters = <<>> /\ Fresh.groups = <<>>
        /\ \A j \in DOMAIN Fresh.items : Fresh.items[j].values = <<>>
    BY FreshIsConfig
  <2>2. T \in Seq(Element)
    BY <2>1, SettingsTaken
  <2>3. F \in Seq(Element) /\ F # <<>> /\ F[1][1] = "filter"
    BY <2>1, FiltersTaken
  <2>4. G \in Seq(Element) /\ G # <<>> /\ G[1][1] = "group"
    BY <2>1, GroupsTaken
  <2>5. FlattenSeq(q) \in Seq(Element)
    <3> HIDE DEF texts
    <3> QED BY <1>3, <2>1, ValuesTaken
  <2> HIDE DEF q, F, G
  <2>6. 1 \in DOMAIN F /\ 1 \in DOMAIN G
    BY <2>3, <2>4
  <2> QED BY <1>4, <2>2, <2>3, <2>4, <2>5, <2>6 DEF Names
<1>6. C = ((T \o G) \o F) \o V
  BY DEF CurrentConfig
<1> HIDE DEF T, F, G, V, C
<1> DEFINE p2 == T \o G  p3 == p2 \o F
<1>7. /\ p2 \in Seq(Element) /\ p3 \in Seq(Element) /\ C \in Seq(Element)
      /\ C = p3 \o V
  BY <1>5, <1>6
<1>8. "group" \in Names(C) /\ "filter" \in Names(C)
  <2>1. Names(G) \subseteq Names(p2)
    BY <1>5, NamesOfBoth
  <2> HIDE DEF p2
  <2>2. Names(p2) \subseteq Names(p3) /\ Names(F) \subseteq Names(p3)
    BY <1>5, <1>7, NamesOfBoth
  <2> HIDE DEF p3
  <2>3. Names(p3) \subseteq Names(C)
    BY <1>5, <1>7, NamesOfBoth
  <2> QED BY <1>5, <2>1, <2>2, <2>3
<1> DEFINE c == Emptied(Cleared(s), C)
<1>9. /\ c \in Configs /\ c.groups = <<>> /\ c.filters = <<>>
      /\ \A j \in DOMAIN c.items : c.items[j].values = <<>>
  BY <1>8, EmptiedKeeps
<1> HIDE DEF c
<1> DEFINE t1 == Taken(c, T, allow)  t2 == Taken(t1, G, allow)  t3 == Taken(t2, F, allow)
           t4 == Taken(t3, V, allow)
<1>10. Taken(c, C, allow) = t4
  <2>1. Taken(c, p2, allow) = t2
    BY <1>5, TakenConcat
  <2> HIDE DEF p2
  <2>2. Taken(c, p3, allow) = t3
    <3>1. Taken(c, p2 \o F, allow) = Taken(Taken(c, p2, allow), F, allow)
      BY <1>5, <1>7, TakenConcat
    <3> QED BY <2>1, <3>1
  <2> HIDE DEF p3
  <2>3. Taken(c, p3 \o V, allow) = Taken(Taken(c, p3, allow), V, allow)
    BY <1>5, <1>7, TakenConcat
  <2> QED BY <1>7, <2>2, <2>3
<1>11. t1 \in Configs /\ t2 \in Configs /\ t3 \in Configs
  <2>1. t1 \in Configs
    BY <1>5, <1>9, TakenKeeps DEF Keeps
  <2> HIDE DEF t1
  <2>2. t2 \in Configs
    BY <1>5, <2>1, TakenKeeps DEF Keeps
  <2> HIDE DEF t2
  <2>3. t3 \in Configs
    BY <1>5, <2>2, TakenKeeps DEF Keeps
  <2> QED BY <2>1, <2>2, <2>3
<1>12. t1 = [c EXCEPT !.id = t.id, !.interval = t.interval]
  BY <1>9, SettingsTaken DEF T
<1> HIDE DEF t1
<1>13. /\ t1.id = t.id /\ t1.interval = t.interval /\ t1.groups = <<>> /\ t1.filters = <<>>
       /\ t1.items = c.items
  BY <1>9, <1>12, ConfigFields
<1>14. t2 = [t1 EXCEPT !.groups = t.groups]
  BY <1>11, <1>13, GroupsTaken DEF G
<1> HIDE DEF t2
<1>15. /\ t2.id = t.id /\ t2.interval = t.interval /\ t2.groups = t.groups /\ t2.filters = <<>>
       /\ t2.items = c.items
  BY <1>11, <1>13, <1>14, ConfigFields
<1>16. t3 = [t2 EXCEPT !.filters = t.filters]
  BY <1>11, <1>15, FiltersTaken DEF F
<1> HIDE DEF t3
<1>17. /\ t3.id = t.id /\ t3.interval = t.interval /\ t3.groups = t.groups
       /\ t3.filters = t.filters /\ t3.items = c.items
  BY <1>11, <1>15, <1>16, ConfigFields
<1>18. Gives(t3, t.items, texts, n, t4)
  <2>1. \A j \in DOMAIN t3.items : t3.items[j].values = <<>>
    BY <1>9, <1>17
  <2>2. Gives(t3, t.items, texts, n, Taken(t3, FlattenSeq(q), allow))
    <3> HIDE DEF texts
    <3> QED BY <1>3, <1>11, <2>1, ValuesTaken
  <2> HIDE DEF q, texts
  <2> QED BY <1>4, <2>2
<1> HIDE DEF t4
<1>19. t4 = [t3 EXCEPT !.items = t4.items] /\ t4 \in Configs /\ DOMAIN t4.items = DOMAIN t3.items
  BY <1>18 DEF Gives
<1>20. /\ t4.id = t.id /\ t4.interval = t.interval /\ t4.groups = t.groups
       /\ t4.filters = t.filters
  BY <1>11, <1>17, <1>19, ConfigFields
<1>21. ASSUME NEW i \in DOMAIN t4.items, NEW k \in DOMAIN t.items,
              t4.items[i].name = t.items[k].name
       PROVE  Filled(t4.items[i].values) = Filled(t.items[k].values)
  <2>1. k \in 1..n /\ i \in DOMAIN t3.items
    BY <1>1, <1>19
  <2>2. t4.items[i].values = texts[k]
    <3> HIDE DEF texts
    <3> QED BY <1>18, <1>21, <2>1 DEF Gives
  <2> HIDE DEF texts
  <2> QED BY <1>2, <2>1, <2>2
<1> DEFINE new == [t4 EXCEPT !.configured = TRUE]
<1>22. Installed(s, C, allow) = new
  BY <1>10 DEF Installed, c
<1>23. /\ new.id = t4.id /\ new.interval = t4.interval /\ new.groups = t4.groups
       /\ new.filters = t4.filters /\ new.items = t4.items
  BY <1>19, ConfigFields
<1> HIDE DEF new
<1> QED BY <1>7, <1>20, <1>21, <1>22, <1>23 DEF C

-----------------------------------------------------------------------------
(* The invariant. *)

LEMMA RemovedKeeps ==
  ASSUME NEW s \in Configs, NEW n \in ItemNames(s)
  PROVE  /\ Removed(s, n) \in Configs
         /\ Removed(s, n).enabled = s.enabled /\ Removed(s, n).configured = s.configured
<1> DEFINE items == s.items  l == Len(items)
           i == CHOOSE i \in DOMAIN items : items[i].name = n
           rest == RemoveAt(items, i)
<1>1. items \in Seq(Item) /\ Distinct(items) /\ l \in Nat /\ DOMAIN items = 1..l
  BY ConfigFields
<1>2. i \in 1..l
  BY <1>1 DEF ItemNames
<1>3. Removed(s, n) = [s EXCEPT !.items = rest]
  BY DEF Removed
<1> HIDE DEF i
<1>4. /\ rest \in Seq(Item) /\ Len(rest) = l - 1
      /\ \A k \in 1..l - 1 : rest[k] = items[IF k < i THEN k ELSE k + 1]
  <2> DEFINE a == SubSeq(items, 1, i - 1)  b == SubSeq(items, i + 1, l)
  <2>1. a \in Seq(Item) /\ Len(a) = i - 1 /\ \A k \in 1..i - 1 : a[k] = items[k]
    BY <1>1, <1>2
  <2>2. b \in Seq(Item) /\ Len(b) = l - i /\ \A k \in 1..l - i : b[k] = items[i + k]
    BY <1>1, <1>2
  <2>3. rest = a \o b
    BY DEF RemoveAt
  <2> HIDE DEF a, b
  <2>4. rest \in Seq(Item) /\ Len(rest) = l - 1
    <3>1. a \o b \in Seq(Item) /\ Len(a \o b) = (i - 1) + (l - i)
      <4>1. a \in Seq(Item) /\ b \in Seq(Item)
        BY <2>1, <2>2
      <4>2. a \o b \in Seq(Item)
        BY <4>1
      <4>3. Len(a \o b) = Len(a) + Len(b)
        BY <4>1
      <4> QED BY <2>1, <2>2, <4>2, <4>3
    <3>2. (i - 1) + (l - i) = l - 1
      BY <1>1, <1>2
    <3> HIDE DEF rest
    <3> QED BY <2>3, <3>1, <3>2
  <2>5. ASSUME NEW k \in 1..l - 1
        PROVE  (a \o b)[k] = items[IF k < i THEN k ELSE k + 1]
    <3>1. CASE k < i
      <4>1. k \in 1..i - 1
        BY <1>1, <1>2, <3>1
      <4>2. (a \o b)[k] = a[k]
        BY <2>1, <2>2, <4>1
      <4> QED BY <2>1, <3>1, <4>1, <4>2
    <3>2. CASE ~(k < i)
      <4>1. k - (i - 1) \in 1..l - i /\ i + (k - (i - 1)) = k + 1 /\ k > i - 1
        BY <1>1, <1>2, <3>2
      <4>2. k \in 1..Len(a) + Len(b) /\ ~(k <= Len(a))
        BY <1>1, <1>2, <2>1, <2>2, <4>1
      <4>3. (a \o b)[k] = b[k - Len(a)]
        BY <2>1, <2>2, <4>2
      <4>4. b[k - (i - 1)] = items[i + (k - (i - 1))]
        BY <2>2, <4>1
      <4> QED BY <2>1, <3>2, <4>1, <4>3, <4>4
    <3> QED BY <3>1, <3>2
  <2> QED BY <2>3, <2>4, <2>5
<1> HIDE DEF rest
<1>5. Distinct(rest)
  <2> SUFFICES ASSUME NEW j \in 1..Len(rest), NEW k \in 1..Len(rest),
                      rest[j].name = rest[k].name
               PROVE  j = k
    BY DEF Distinct
  <2> DEFINE place(p) == IF p < i THEN p ELSE p + 1
  <2>1. j \in 1..l - 1 /\ k \in 1..l - 1
    BY <1>4
  <2>2. place(j) \in 1..l /\ place(k) \in 1..l /\ (place(j) = place(k) => j = k)
    BY <1>1, <1>2, <2>1
  <2>3. rest[j] = items[place(j)] /\ rest[k] = items[place(k)]
    BY <1>4, <2>1
  <2> HIDE DEF place
  <2> QED BY <1>1, <2>2, <2>3 DEF Distinct
<1> QED BY <1>3, <1>4, <1>5, NewItems

LEMMA ConfigurationKeeps ==
  ASSUME NEW s \in Configs
  PROVE  /\ Configuration(s) \in Configs /\ ~Configuration(s).enabled
         /\ Configuration(s).configured = s.configured
         /\ Lines(Configuration(s)) = Lines(s)
         /\ ~s.enabled => Configuration(s) = s
<1> DEFINE c == Configuration(s)
<1>1. /\ c.items = s.items /\ c.groups = s.groups /\ c.filters = s.filters
      /\ c.id = s.id /\ c.interval = s.interval /\ c.configured = s.configured /\ ~c.enabled
  BY SwitchedOff
<1>2. c \in Configs
  BY DEF Configuration, Configs
<1> HIDE DEF c
<1>3. Lines(c) = Lines(s)
  BY <1>1 DEF Lines, Settings, FilterTexts, Values
<1>4. ~s.enabled => c = s
  <2> DEFINE off == FALSE
  <2>1. s = [enabled |-> s.enabled, configured |-> s.configured, id |-> s.id,
             interval |-> s.interval, groups |-> s.groups, filters |-> s.filters,
             items |-> s.items]
    BY ConfigFields
  <2>2. c = [enabled |-> off, configured |-> s.configured, id |-> s.id,
             interval |-> s.interval, groups |-> s.groups, filters |-> s.filters,
             items |-> s.items]
    BY SwitchedOff DEF c
  <2>3. ~s.enabled => s.enabled = off
    BY ConfigFields
  <2> HIDE DEF off
  <2> QED BY <2>1, <2>2, <2>3
<1> QED BY <1>1, <1>2, <1>3, <1>4 DEF c

\* What a configuration program sends are elements.
LEMMA BodyElements ==
  ASSUME NoBuiltins, Answers, NEW body \in Bodies
  PROVE  body \in Seq(Element)
<1>1. CASE body \in Composed
  <2>1. PICK id \in Id, m \in Minutes, lists \in Lists, values \in Assignments :
          body = << <<"newconf", id>>, <<"interval", m>> >> \o lists \o values
    <3> DEFINE f(id, m, lists, values) ==
                 << <<"newconf", id>>, <<"interval", m>> >> \o lists \o values
    <3>1. Composed = {f(id, m, lists, values) :
                        id \in Id, m \in Minutes, lists \in Lists, values \in Assignments}
      BY DEF Composed
    <3> HIDE DEF f
    <3>2. \E id \in Id, m \in Minutes, lists \in Lists, values \in Assignments :
            body = f(id, m, lists, values)
      BY <1>1, <3>1
    <3> QED BY <3>2 DEF f
  <2> DEFINE head == << <<"newconf", id>>, <<"interval", m>> >>
  <2>2. head \in Seq(Element)
    <3>1. <<"newconf", id>> \in Element /\ <<"interval", m>> \in Element
      BY DEF Element
    <3> QED BY <3>1
  <2>3. lists \in Seq(Element)
    <3>1. ({"group"} \X Group) \cup ({"filter"} \X Seq(Token)) \subseteq Element
      BY DEF Element
    <3>2. lists \in Seq(({"group"} \X Group) \cup ({"filter"} \X Seq(Token)))
      BY ConfigAssumption
    <3> QED BY <3>1, <3>2
  <2>4. values \in Seq(Element)
    <3>1. Name \X Value \subseteq Element
      BY DEF Element, Text
    <3>2. PICK k \in 0..MaxBody : values \in [1..k -> Name \X Value]
      BY DEF Assignments, BoundedSeq, SeqOf
    <3>3. k \in Nat
      BY ConfigAssumption
    <3>4. values \in Seq(Name \X Value)
      BY <3>2, <3>3
    <3> QED BY <3>1, <3>4
  <2> HIDE DEF head
  <2>5. head \o lists \in Seq(Element)
    BY <2>2, <2>3
  <2>6. (head \o lists) \o values \in Seq(Element)
    BY <2>4, <2>5
  <2> QED BY <2>1, <2>6 DEF head
<1>2. CASE body \notin Composed
  <2>1. told # Nothing /\ body = answer
    BY <1>2 DEF Bodies
  <2>2. told \in Configs /\ answer = CurrentConfig(told)
    BY <2>1 DEF Answers
  <2>3. \A allow \in BOOLEAN : CurrentConfig(told) \in Seq(Element)
    BY <2>2, AnswerTaken
  <2> QED BY <2>1, <2>2, <2>3
<1> QED BY <1>1, <1>2

LEMMA FInvInit ==
  Init => FInv
<1> SUFFICES ASSUME Init PROVE FInv
  OBVIOUS
<1>1. <<>> \in Seq(Element)
  OBVIOUS
<1>2. Types
  BY <1>1 DEF Init, Types
<1>3. Saves /\ Answers /\ Restores
  BY DEF Init, Saves, Answers, Restores
<1> QED BY <1>2, <1>3 DEF FInv

\* The actions of the program before the service is enabled.
LEMMA PreparingKeeps ==
  ASSUME FInv, Prepares, service' \in Configs, service'.enabled = service.enabled,
         service'.configured = service.configured, UNCHANGED <<answer, told, disk>>
  PROVE  FInv'
<1>1. toWrite = <<>> /\ ~service.enabled /\ ~service.configured
  BY DEF Prepares, Running
<1>2. UNCHANGED <<answer, told, file, toWrite, saved, torn>>
  BY DEF disk
<1>3. Types'
  BY <1>2 DEF FInv, Types
<1>4. Saves'
  BY <1>1, <1>2 DEF FInv, Saves
<1>5. Answers'
  BY <1>2 DEF FInv, Answers
<1>6. Restores'
  BY <1>1, <1>2 DEF FInv, Restores
<1> QED BY <1>3, <1>4, <1>5, <1>6 DEF FInv

LEMMA CreateKeeps ==
  ASSUME NoBuiltins, FInv, createService
  PROVE  FInv'
<1>1. /\ service = NoService /\ service' = Loaded(file)
      /\ UNCHANGED <<answer, told, file, toWrite, saved, torn>>
  BY DEF createService, disk
<1>2. toWrite = <<>>
  BY <1>1 DEF FInv, Saves
<1>3. service' \in Configs /\ ~service'.enabled
  BY <1>1, LoadedIsConfig DEF FInv, Types
<1>4. Types'
  BY <1>1, <1>3 DEF FInv, Types
<1>5. Saves'
  BY <1>1, <1>2 DEF FInv, Saves
<1>6. Answers'
  BY <1>1 DEF FInv, Answers
<1>7. Restores'
  <2>1. ASSUME ~torn, service'.configured
        PROVE  Complete(service')
    <3>1. CASE file = NoFile
      BY <1>1, <2>1, <3>1, FreshIsConfig DEF Loaded
    <3>2. CASE file # NoFile
      <4>1. PICK s \in Configs : s.configured /\ Complete(s) /\ file = Lines(s)
        BY <1>2, <2>1, <3>2 DEF FInv, Restores
      <4>2. service' = Configuration(s)
        BY <1>1, <4>1, LinesLoaded
      <4>3. service'.items = s.items
        BY <4>2, SwitchedOff
      <4> QED BY <4>1, <4>3 DEF Complete, ItemNames
    <3> QED BY <3>1, <3>2
  <2> QED BY <1>1, <1>3, <2>1 DEF FInv, Restores
<1> QED BY <1>4, <1>5, <1>6, <1>7 DEF FInv

LEMMA EnableKeeps ==
  ASSUME FInv, setServiceEnabled
  PROVE  FInv'
<1>1. /\ service # NoService /\ toWrite = <<>> /\ service \in Configs
      /\ service.configured \/ ItemNames(service) = Name
      /\ service' = [service EXCEPT !.enabled = TRUE]
      /\ UNCHANGED <<answer, told, file, toWrite, saved, torn>>
  BY DEF setServiceEnabled, Running, disk, FInv, Types
<1>2. service' \in Configs /\ service'.configured = service.configured
      /\ service'.items = service.items
  BY <1>1 DEF Configs
<1>3. Types'
  BY <1>1, <1>2 DEF FInv, Types
<1>4. Saves'
  BY <1>1 DEF FInv, Saves
<1>5. Answers'
  BY <1>1 DEF FInv, Answers
<1>6. Restores'
  <2>1. ~torn => Complete(service)
    BY <1>1 DEF FInv, Restores, Complete
  <2>2. ~torn => Complete(service')
    BY <1>2, <2>1 DEF Complete, ItemNames
  <2> QED BY <1>1, <2>2 DEF FInv, Restores
<1> QED BY <1>3, <1>4, <1>5, <1>6 DEF FInv

LEMMA RequestsKeep ==
  ASSUME FInv, configListRequest \/ configCurrentRequest
  PROVE  FInv'
<1>1. service # NoService /\ service \in Configs
      /\ UNCHANGED <<service, file, toWrite, saved, torn>>
  BY DEF configListRequest, configCurrentRequest, Running, disk, FInv, Types
<1>2. Types' /\ Restores'
  BY <1>1 DEF FInv, Types, Restores
<1>3. Saves'
  BY <1>1 DEF FInv, Saves
<1>4. Answers'
  <2>1. CASE configListRequest
    BY <2>1 DEF configListRequest, Answers
  <2>2. CASE configCurrentRequest
    <3>1. answer' = CurrentConfig(service) /\ told' = Configuration(service)
      BY <2>2 DEF configCurrentRequest
    <3>2. Configuration(service) \in Configs
      BY <1>1, ConfigurationKeeps
    <3>3. CurrentConfig(Configuration(service)) = CurrentConfig(service)
      <4> DEFINE c == Configuration(service)
      <4>1. /\ c.id = service.id /\ c.interval = service.interval /\ c.groups = service.groups
            /\ c.filters = service.filters /\ c.items = service.items
        BY <1>1, SwitchedOff
      <4> HIDE DEF c
      <4>2. CurrentConfig(c) = CurrentConfig(service)
        BY <4>1 DEF CurrentConfig, Settings, FilterTexts
      <4> QED BY <4>2 DEF c
    <3> QED BY <3>1, <3>2, <3>3 DEF Answers
  <2> QED BY <2>1, <2>2
<1> QED BY <1>2, <1>3, <1>4 DEF FInv

LEMMA ResponseKeeps ==
  ASSUME NoBuiltins, FInv, NEW body \in Bodies, configResponse(body)
  PROVE  FInv'
<1>1. /\ service # NoService /\ toWrite = <<>> /\ service.enabled /\ service \in Configs
      /\ service' = Installed(service, body, FALSE)
      /\ UNCHANGED <<answer, told, torn>>
  BY DEF configResponse, Running, FInv, Types
<1>2. body \in Seq(Element)
  BY BodyElements DEF FInv
<1>3. /\ service' \in Configs /\ ItemNames(service) \subseteq ItemNames(service')
      /\ service'.enabled = service.enabled /\ service'.configured
  BY <1>1, <1>2, InstalledKeeps
<1>4. Lines(service') \in Seq(Element) /\ Lines(service') # <<>>
  <2>1. \A s \in Configs, allow \in BOOLEAN : Lines(s) \in Seq(Element) /\ Lines(s) # <<>>
    BY LinesTaken
  <2> QED BY <1>3, <2>1
<1>5. ~torn => Complete(service')
  <2>1. ~torn => Complete(service)
    BY <1>1 DEF FInv, Restores
  <2>2. ItemNames(service') \subseteq Name
    <3>1. \A i \in DOMAIN service'.items : service'.items[i] \in Item
      BY <1>3, ConfigFields
    <3> QED BY <3>1, ItemFields DEF ItemNames
  <2> QED BY <1>3, <2>1, <2>2 DEF Complete
<1>6. Answers'
  BY <1>1 DEF FInv, Answers
<1>7. CASE file' = <<>> /\ toWrite' = Lines(service') /\ saved' = Nothing
  <2>1. <<>> \in Seq(Element) /\ <<>> # NoFile
    <3>1. <<>> \in Seq(Element)
      OBVIOUS
    <3> QED BY <3>1, AbsenceAssumption
  <2>2. Types'
    BY <1>1, <1>3, <1>4, <1>7, <2>1 DEF FInv, Types
  <2>3. Saves'
    <3>1. <<>> \o Lines(service') = Lines(service')
      BY <1>4
    <3>2. service' # NoService
      BY <1>3, ConfigIsService
    <3> QED BY <1>3, <1>7, <2>1, <3>1, <3>2 DEF Saves
  <2>4. Restores'
    BY <1>1, <1>4, <1>5, <1>7 DEF FInv, Restores
  <2> QED BY <1>6, <2>2, <2>3, <2>4 DEF FInv
<1>8. CASE file = NoFile /\ UNCHANGED <<file, toWrite, saved>>
  <2>1. Types'
    BY <1>1, <1>3, <1>8 DEF FInv, Types
  <2>2. Saves'
    BY <1>1, <1>8 DEF FInv, Saves
  <2>3. Restores'
    BY <1>1, <1>5, <1>8 DEF FInv, Restores
  <2> QED BY <1>6, <2>1, <2>2, <2>3 DEF FInv
<1> QED BY <1>7, <1>8 DEF configResponse

LEMMA CutInTwo ==
  ASSUME NEW S, NEW q \in Seq(S), NEW n \in 1..Len(q)
  PROVE  /\ SubSeq(q, 1, n) \in Seq(S) /\ SubSeq(q, n + 1, Len(q)) \in Seq(S)
         /\ SubSeq(q, 1, n) \o SubSeq(q, n + 1, Len(q)) = q
<1> DEFINE a == SubSeq(q, 1, n)  b == SubSeq(q, n + 1, Len(q))
<1>1. Len(q) \in Nat /\ n \in Nat /\ 1 <= n /\ n <= Len(q)
  OBVIOUS
<1>2. a \in Seq(S) /\ Len(a) = n /\ \A k \in 1..n : a[k] = q[k]
  BY <1>1
<1>3. b \in Seq(S) /\ Len(b) = Len(q) - n /\ \A k \in 1..Len(q) - n : b[k] = q[n + k]
  BY <1>1
<1> HIDE DEF a, b
<1>4. a \o b \in Seq(S) /\ Len(a \o b) = Len(q)
  <2>1. a \in Seq(S) /\ b \in Seq(S)
    BY <1>2, <1>3
  <2>2. a \o b \in Seq(S)
    BY <2>1
  <2>3. Len(a \o b) = Len(a) + Len(b)
    BY <2>1
  <2> QED BY <1>1, <1>2, <1>3, <2>2, <2>3
<1>5. ASSUME NEW k \in 1..Len(q)
      PROVE  (a \o b)[k] = q[k]
  <2>1. CASE k <= n
    <3>1. (a \o b)[k] = a[k]
      BY <1>1, <1>2, <1>3, <2>1
    <3> QED BY <1>1, <1>2, <2>1, <3>1
  <2>2. CASE ~(k <= n)
    <3>1. k - n \in 1..Len(q) - n /\ n + (k - n) = k
      BY <1>1, <2>2
    <3>2. (a \o b)[k] = b[k - n]
      BY <1>1, <1>2, <1>3, <2>2, <3>1
    <3> QED BY <1>3, <3>1, <3>2
  <2> QED BY <2>1, <2>2
<1>6. a \o b = q
  BY <1>4, <1>5, SameSequence
<1> QED BY <1>2, <1>3, <1>6 DEF a, b

LEMMA ElementsAssociate ==
  ASSUME NEW a \in Seq(Element), NEW b \in Seq(Element), NEW c \in Seq(Element)
  PROVE  (a \o b) \o c = a \o (b \o c)
OBVIOUS

LEMMA WriteKeeps ==
  ASSUME NoBuiltins, FInv, WriteBlock
  PROVE  FInv'
<1> DEFINE n == IF Len(toWrite) < Block THEN Len(toWrite) ELSE Block
           a == SubSeq(toWrite, 1, n)  b == SubSeq(toWrite, n + 1, Len(toWrite))
<1>1. /\ toWrite # <<>> /\ toWrite \in Seq(Element) /\ service # NoService
      /\ service.configured /\ service \in Configs
      /\ file # NoFile /\ file \in Seq(Element) /\ file \o toWrite = Lines(service)
      /\ torn \in BOOLEAN
  <2>1. toWrite # <<>> /\ Types /\ Saves
    BY DEF WriteBlock, FInv
  <2> QED BY <2>1 DEF Types, Saves
<1>2. /\ file' = file \o a /\ toWrite' = b
      /\ saved' = IF toWrite' = <<>> THEN Configuration(service) ELSE Nothing
      /\ UNCHANGED <<service, answer, told, torn>>
  BY DEF WriteBlock
<1>3. n \in 1..Len(toWrite)
  <2>1. Len(toWrite) \in Nat /\ Len(toWrite) # 0
    BY <1>1
  <2>2. Block \in Nat \ {0}
    BY ConfigAssumption
  <2> QED BY <2>1, <2>2
<1> HIDE DEF n
<1>4. a \in Seq(Element) /\ b \in Seq(Element) /\ a \o b = toWrite
  BY <1>1, <1>3, CutInTwo
<1> HIDE DEF a, b
<1>5. file' \in Seq(Element) /\ toWrite' \in Seq(Element) /\ file' # NoFile
  <2>1. file \o a \in Seq(Element)
    BY <1>1, <1>4
  <2> QED BY <1>2, <1>4, <2>1, AbsenceAssumption
<1>6. file' \o toWrite' = Lines(service)
  <2>1. (file \o a) \o b = file \o (a \o b)
    <3>1. file \in Seq(Element) /\ a \in Seq(Element) /\ b \in Seq(Element)
      BY <1>1, <1>4
    <3> QED BY <3>1, ElementsAssociate, Zenon
  <2> QED BY <1>1, <1>2, <1>4, <2>1
<1>7. Types'
  BY <1>1, <1>2, <1>5 DEF FInv, Types
<1>8. Answers'
  BY <1>2 DEF FInv, Answers
<1>9. ~torn => Complete(service)
  BY <1>1 DEF FInv, Restores
<1>10. CASE toWrite' # <<>>
  <2>1. saved' = Nothing
    BY <1>2, <1>10
  <2>2. Saves'
    BY <1>1, <1>2, <1>5, <1>6, <1>10, <2>1 DEF Saves
  <2>3. Restores'
    BY <1>2, <1>9, <1>10 DEF Restores
  <2> QED BY <1>7, <1>8, <2>2, <2>3 DEF FInv
<1>11. CASE toWrite' = <<>>
  <2>1. file' = Lines(service)
    <3>1. file' \o <<>> = file'
      BY <1>5
    <3> QED BY <1>6, <1>11, <3>1
  <2>2. /\ saved' = Configuration(service) /\ saved' \in Configs /\ saved'.configured
        /\ ~saved'.enabled /\ Lines(saved') = Lines(service)
    BY <1>1, <1>2, <1>11, ConfigurationKeeps
  <2>3. Saves'
    BY <1>5, <1>11, <2>1, <2>2 DEF Saves
  <2>4. Restores'
    BY <1>1, <1>2, <1>9, <2>1 DEF Restores
  <2> QED BY <1>7, <1>8, <2>3, <2>4 DEF FInv
<1> QED BY <1>10, <1>11

LEMMA EndKeeps ==
  ASSUME FInv, Ends
  PROVE  FInv'
<1>1. /\ service' = NoService /\ toWrite' = <<>> /\ torn' = (torn \/ toWrite # <<>>)
      /\ UNCHANGED <<answer, told, file, saved>>
  BY DEF Ends
<1>2. Types'
  <2>1. <<>> \in Seq(Element)
    OBVIOUS
  <2> QED BY <1>1, <2>1 DEF FInv, Types
<1>3. Saves'
  BY <1>1 DEF FInv, Saves
<1>4. Answers'
  BY <1>1 DEF FInv, Answers
<1>5. Restores'
  <2>1. ASSUME ~torn'
        PROVE  ~torn /\ toWrite = <<>>
    BY <1>1, <2>1
  <2> QED BY <1>1, <2>1 DEF FInv, Restores
<1> QED BY <1>2, <1>3, <1>4, <1>5 DEF FInv

LEMMA FInvStep ==
  ASSUME NoBuiltins, FInv, [Next]_vars
  PROVE  FInv'
<1>1. service # NoService => service \in Configs
  BY DEF FInv, Types
<1>2. Prepares => service \in Configs
  BY <1>1 DEF Prepares, Running
<1>3. CASE createService
  BY <1>3, CreateKeeps
<1>4. CASE setServiceEnabled
  BY <1>4, EnableKeeps
<1>5. CASE WriteBlock
  BY <1>5, WriteKeeps
<1>6. CASE Ends
  BY <1>6, EndKeeps
<1>7. ASSUME NEW n \in Name, addServiceConfigurable(n)
      PROVE  FInv'
  <2>1. Prepares /\ service' = Added(service, n, Definition[n])
        /\ UNCHANGED <<answer, told, disk>>
    BY <1>7 DEF addServiceConfigurable
  <2>2. /\ service' \in Configs /\ service'.enabled = service.enabled
        /\ service'.configured = service.configured
    BY <1>2, <2>1, AddedKeeps
  <2> QED BY <2>1, <2>2, PreparingKeeps
<1>8. ASSUME NEW n \in Name, removeServiceConfigurable(n)
      PROVE  FInv'
  <2>1. Prepares /\ service' = Removed(service, n) /\ n \in ItemNames(service)
        /\ UNCHANGED <<answer, told, disk>>
    BY <1>8 DEF removeServiceConfigurable
  <2>2. /\ service' \in Configs /\ service'.enabled = service.enabled
        /\ service'.configured = service.configured
    BY <1>2, <2>1, RemovedKeeps
  <2> QED BY <2>1, <2>2, PreparingKeeps
<1>9. CASE removeAllServiceConfigurables
  <2>1. Prepares /\ service' = [service EXCEPT !.items = <<>>]
        /\ UNCHANGED <<answer, told, disk>>
    BY <1>9 DEF removeAllServiceConfigurables
  <2>2. <<>> \in Seq(Item) /\ Distinct(<<>>)
    BY DEF Distinct
  <2>3. /\ service' \in Configs /\ service'.enabled = service.enabled
        /\ service'.configured = service.configured
    BY <1>2, <2>1, <2>2, NewItems
  <2> QED BY <2>1, <2>3, PreparingKeeps
<1>10. ASSUME NEW names \in SUBSET Name, clearServiceConfigValues(names)
       PROVE  FInv'
  <2>1. Prepares /\ service' = ClearedOf(service, names)
        /\ UNCHANGED <<answer, told, disk>>
    BY <1>10 DEF clearServiceConfigValues
  <2>2. /\ service' \in Configs /\ service'.enabled = service.enabled
        /\ service'.configured = service.configured
    BY <1>2, <2>1, ClearedKeeps
  <2> QED BY <2>1, <2>2, PreparingKeeps
<1>11. ASSUME NEW n \in Name, NEW v \in Value, addServiceConfigValue(n, v)
       PROVE  FInv'
  <2>1. Prepares /\ service' = WithValue(service, n, v) /\ v \in Text
        /\ UNCHANGED <<answer, told, disk>>
    BY <1>11 DEF addServiceConfigValue, Text
  <2>2. /\ service' \in Configs /\ service'.enabled = service.enabled
        /\ service'.configured = service.configured
    BY <1>2, <2>1, WithValueKeeps
  <2> QED BY <2>1, <2>2, PreparingKeeps
<1>12. ASSUME NEW n \in Name, NEW v \in Value, setServiceConfigValueAt(n, 1, v)
       PROVE  FInv'
  <2>1. Prepares /\ service' = WithValueAt(service, n, 1, v) /\ v \in Text
        /\ UNCHANGED <<answer, told, disk>>
    BY <1>12 DEF setServiceConfigValueAt, Text
  <2>2. /\ service' \in Configs /\ service'.enabled = service.enabled
        /\ service'.configured = service.configured
    BY <1>2, <2>1, WithValueAtKeeps
  <2> QED BY <2>1, <2>2, PreparingKeeps
<1>13. CASE configListRequest \/ configCurrentRequest
  BY <1>13, RequestsKeep
<1>14. ASSUME NEW body \in Bodies, configResponse(body)
       PROVE  FInv'
  BY <1>14, ResponseKeeps
<1>15. CASE UNCHANGED vars
  <2>1. UNCHANGED <<service, answer, told, file, toWrite, saved, torn>>
    BY <1>15 DEF vars, disk
  <2> QED BY <2>1 DEF FInv, Types, Saves, Answers, Restores
<1> QED BY <1>3, <1>4, <1>5, <1>6, <1>7, <1>8, <1>9, <1>10, <1>11, <1>12, <1>13, <1>14, <1>15
        DEF Next

-----------------------------------------------------------------------------
(* What a response makes of the values. *)

LEMMA MinOfTwo ==
  ASSUME NEW a \in Nat, NEW b \in Nat
  PROVE  Min({a, b}) = IF a <= b THEN a ELSE b
<1> DEFINE m == IF a <= b THEN a ELSE b
<1>1. m \in {a, b} /\ \A y \in {a, b} : m <= y
  OBVIOUS
<1>2. \A x \in {a, b} : (\A y \in {a, b} : x <= y) => x = m
  OBVIOUS
<1> HIDE DEF m
<1>3. Min({a, b}) = m
  BY <1>1, <1>2 DEF Min
<1> QED BY <1>3 DEF m

LEMMA Ranks ==
  ASSUME NEW k \in Nat, NEW G \in SUBSET (1..k)
  PROVE  /\ Cardinality(G) \in Nat /\ Cardinality(G \cup {k + 1}) = Cardinality(G) + 1
         /\ \A p \in G : /\ Rank(p, G) \in 1..Cardinality(G)
                         /\ Rank(p, G \cup {k + 1}) = Rank(p, G)
         /\ Rank(k + 1, G \cup {k + 1}) = Cardinality(G) + 1
<1>1. IsFiniteSet(G) /\ Cardinality(G) \in Nat
  <2>1. IsFiniteSet(1..k)
    BY FS_Interval
  <2>2. IsFiniteSet(G)
    BY <2>1, FS_Subset
  <2> QED BY <2>2, FS_CardinalityType
<1>2. Cardinality(G \cup {k + 1}) = Cardinality(G) + 1
  <2>1. k + 1 \notin G
    OBVIOUS
  <2> QED BY <1>1, <2>1, FS_AddElement
<1>3. ASSUME NEW p \in G
      PROVE  Rank(p, G) \in 1..Cardinality(G) /\ Rank(p, G \cup {k + 1}) = Rank(p, G)
  <2> DEFINE A == {q \in G : q <= p}
  <2>1. A \subseteq G /\ p \in A /\ {q \in G \cup {k + 1} : q <= p} = A
    OBVIOUS
  <2> HIDE DEF A
  <2>2. IsFiniteSet(A) /\ Cardinality(A) \in Nat /\ Cardinality(A) <= Cardinality(G)
    BY <1>1, <2>1, FS_Subset, FS_CardinalityType
  <2>3. Cardinality(A) # 0
    BY <2>1, <2>2, FS_EmptySet
  <2>4. Rank(p, G) = Cardinality(A) /\ Rank(p, G \cup {k + 1}) = Cardinality(A)
    BY <2>1 DEF Rank, A
  <2> QED BY <1>1, <2>2, <2>3, <2>4
<1>4. Rank(k + 1, G \cup {k + 1}) = Cardinality(G) + 1
  <2>1. {q \in G \cup {k + 1} : q <= k + 1} = G \cup {k + 1}
    <3>1. \A q \in G \cup {k + 1} : q <= k + 1
      OBVIOUS
    <3> QED BY <3>1
  <2> QED BY <1>2, <2>1 DEF Rank
<1> QED BY <1>1, <1>2, <1>3, <1>4

\* What the values of an item are after these places of the body were taken.
Received(values, body, G, max) ==
  /\ Len(values) = Min({Cardinality(G), max})
  /\ \A p \in G : Rank(p, G) <= max => values[Rank(p, G)] = body[p][2]

\* One more place for the item: its value comes last, or is discarded.
LEMMA OneMorePlace ==
  ASSUME NEW k \in Nat, NEW G \in SUBSET (1..k), NEW max \in Nat, NEW values \in Seq(Text),
         NEW body, Received(values, body, G, max), body[k + 1][2] \in Text
  PROVE  Received(IF Len(values) < max THEN Append(values, body[k + 1][2]) ELSE values,
                  body, G \cup {k + 1}, max)
<1> DEFINE H == G \cup {k + 1}  v == body[k + 1][2]  c == Cardinality(G)
<1>1. /\ c \in Nat /\ Cardinality(H) = c + 1 /\ Rank(k + 1, H) = c + 1
      /\ \A p \in G : Rank(p, G) \in 1..c /\ Rank(p, H) = Rank(p, G)
  BY Ranks
<1>2. Len(values) = (IF c <= max THEN c ELSE max)
  BY <1>1, MinOfTwo DEF Received
<1>3. Min({Cardinality(H), max}) = (IF c + 1 <= max THEN c + 1 ELSE max)
  <2>1. c + 1 \in Nat
    BY <1>1
  <2>2. Min({c + 1, max}) = (IF c + 1 <= max THEN c + 1 ELSE max)
    BY <2>1, MinOfTwo
  <2> QED BY <1>1, <2>2
<1>4. \A p \in G : Rank(p, G) <= max => values[Rank(p, G)] = body[p][2]
  BY DEF Received
<1>5. \A p \in H : p \in G \/ p = k + 1
  OBVIOUS
<1> HIDE DEF H, c, v
<1>6. CASE Len(values) < max
  <2> DEFINE u == Append(values, v)
  <2>1. /\ Len(values) = c /\ c + 1 <= max /\ Len(u) = c + 1 /\ u[c + 1] = v
        /\ \A i \in 1..c : u[i] = values[i]
    BY <1>1, <1>2, <1>6
  <2> HIDE DEF u
  <2>2. ASSUME NEW p \in H, Rank(p, H) <= max
        PROVE  u[Rank(p, H)] = body[p][2]
    <3>1. CASE p = k + 1
      BY <1>1, <2>1, <3>1 DEF v
    <3>2. CASE p \in G
      <4>1. Rank(p, H) = Rank(p, G) /\ Rank(p, G) \in 1..c
        BY <1>1, <3>2
      <4> QED BY <1>4, <2>1, <2>2, <3>2, <4>1
    <3> QED BY <1>5, <3>1, <3>2
  <2>3. Received(u, body, H, max)
    BY <1>3, <2>1, <2>2 DEF Received
  <2> QED BY <1>6, <2>3 DEF u, v, H
<1>7. CASE ~(Len(values) < max)
  <2>1. Len(values) = max /\ max <= c
    BY <1>1, <1>2, <1>7
  <2>2. ASSUME NEW p \in H, Rank(p, H) <= max
        PROVE  values[Rank(p, H)] = body[p][2]
    <3>1. CASE p = k + 1
      BY <1>1, <2>1, <2>2, <3>1
    <3>2. CASE p \in G
      <4>1. Rank(p, H) = Rank(p, G)
        BY <1>1, <3>2
      <4> QED BY <1>4, <2>2, <3>2, <4>1
    <3> QED BY <1>5, <3>1, <3>2
  <2>3. Len(values) = Min({Cardinality(H), max})
    BY <1>1, <1>3, <2>1
  <2>4. Received(values, body, H, max)
    BY <2>2, <2>3 DEF Received
  <2> QED BY <1>7, <2>4 DEF H, v
<1> QED BY <1>6, <1>7

\* Places of the first k elements that are of this item.
Places(body, k, name) == {p \in 1..k : body[p][1] = name}
ReceivedSoFar(s, body, k, x) ==
  /\ x \in Configs /\ DOMAIN x.items = DOMAIN s.items
  /\ \A j \in DOMAIN s.items :
       /\ x.items[j].name = s.items[j].name
       /\ Received(x.items[j].values, body, Places(body, k, s.items[j].name), s.items[j].max)

LEMMA ReceivedOne ==
  ASSUME NoBuiltins, NEW s \in Configs, NEW body \in Seq(Name \X Value), NEW k \in 0..Len(body) - 1,
         NEW x, ReceivedSoFar(s, body, k, x), NEW allow \in BOOLEAN
  PROVE  ReceivedSoFar(s, body, k + 1, Take(x, body[k + 1], allow))
<1> DEFINE nm == body[k + 1][1]  v == body[k + 1][2]  y == WithValue(x, nm, v)
<1>1. /\ k \in Nat /\ k + 1 \in 1..Len(body) /\ Len(body) \in Nat
      /\ body[k + 1] \in Name \X Value /\ body[k + 1] = <<nm, v>> /\ nm \in Name /\ v \in Text
  <2>1. body[k + 1] \in Name \X Value
    OBVIOUS
  <2> QED BY <2>1 DEF Text
<1>2. Take(x, body[k + 1], allow) = y
  BY <1>1, NoBuiltin DEF Take, Builtin
<1>3. x \in Configs /\ DOMAIN x.items = DOMAIN s.items
      /\ \A j \in DOMAIN s.items : x.items[j].name = s.items[j].name
  BY DEF ReceivedSoFar
<1> DEFINE f == [i \in DOMAIN x.items |->
                   LET item == x.items[i] IN
                   IF item.name = nm /\ Len(item.values) < item.max
                     THEN [item EXCEPT !.values = Append(@, v)] ELSE item]
<1>4. y \in Configs
  BY <1>1, <1>3, WithValueKeeps
<1>5. y.items = f
  BY <1>3, ConfigFields DEF WithValue
<1> HIDE DEF y
<1>6. DOMAIN y.items = DOMAIN s.items
  BY <1>3, <1>5
<1>7. ASSUME NEW j \in DOMAIN s.items
      PROVE  /\ y.items[j].name = s.items[j].name
             /\ Received(y.items[j].values, body, Places(body, k + 1, s.items[j].name),
                         s.items[j].max)
  <2> DEFINE G == Places(body, k, s.items[j].name)  max == s.items[j].max  old == x.items[j]
  <2>1. /\ old \in Item /\ s.items[j] \in Item /\ old.name = s.items[j].name
        /\ Received(old.values, body, G, max)
    BY <1>3, ConfigFields DEF ReceivedSoFar
  <2>2. old.values \in Seq(Text) /\ old.max = max /\ max \in Nat
    BY <2>1, ItemFields
  <2>3. f[j] = IF old.name = nm /\ Len(old.values) < old.max
                 THEN [old EXCEPT !.values = Append(old.values, v)] ELSE old
    BY <1>3
  <2>4. G \in SUBSET (1..k)
    BY DEF Places
  <2> HIDE DEF old, f
  <2>5. CASE s.items[j].name = nm
    <3>1. Places(body, k + 1, s.items[j].name) = G \cup {k + 1}
      BY <1>1, <2>5 DEF Places
    <3>2. /\ f[j].name = old.name
          /\ f[j].values = IF Len(old.values) < max THEN Append(old.values, v) ELSE old.values
      <4>1. CASE Len(old.values) < max
        <5>1. f[j] = [old EXCEPT !.values = Append(old.values, v)]
          BY <2>1, <2>2, <2>3, <2>5, <4>1
        <5>2. /\ [old EXCEPT !.values = Append(old.values, v)].name = old.name
              /\ [old EXCEPT !.values = Append(old.values, v)].values = Append(old.values, v)
          BY <2>1, ItemFields
        <5> QED BY <4>1, <5>1, <5>2
      <4>2. CASE ~(Len(old.values) < max)
        BY <2>2, <2>3, <4>2
      <4> QED BY <4>1, <4>2
    <3> HIDE DEF G, max
    <3>3. Received(IF Len(old.values) < max THEN Append(old.values, body[k + 1][2])
                   ELSE old.values, body, G \cup {k + 1}, max)
      BY <1>1, <2>1, <2>2, <2>4, OneMorePlace
    <3> QED BY <1>5, <2>1, <3>1, <3>2, <3>3 DEF max
  <2>6. CASE s.items[j].name # nm
    <3>1. Places(body, k + 1, s.items[j].name) = G
      BY <1>1, <2>6 DEF Places
    <3>2. f[j] = old
      BY <2>1, <2>3, <2>6
    <3> QED BY <1>5, <2>1, <3>1, <3>2
  <2> QED BY <2>5, <2>6
<1>8. ReceivedSoFar(s, body, k + 1, y)
  BY <1>4, <1>6, <1>7 DEF ReceivedSoFar
<1> QED BY <1>2, <1>8

LEMMA ResponseTaken ==
  ASSUME NoBuiltins, NEW s \in Configs, NEW body \in Seq(Name \X Value), NEW allow \in BOOLEAN
  PROVE  \A i \in DOMAIN s.items :
           AreThoseOf(Installed(s, body, allow).items[i].values, body, s.items[i])
<1> DEFINE n == Len(body)  c == Emptied(Cleared(s), body)
<1>1. n \in Nat /\ DOMAIN body = 1..n
  OBVIOUS
<1>2. body \in Seq(Element)
  <2>1. Name \X Value \subseteq Element
    BY DEF Element, Text
  <2> QED BY <2>1
<1>3. ReceivedSoFar(s, body, 0, c)
  <2>1. /\ c \in Configs /\ DOMAIN c.items = DOMAIN s.items
        /\ \A j \in DOMAIN c.items : c.items[j].values = <<>> /\ c.items[j].name = s.items[j].name
    BY EmptiedKeeps
  <2> HIDE DEF c
  <2>2. ASSUME NEW j \in DOMAIN s.items
        PROVE  Received(c.items[j].values, body, Places(body, 0, s.items[j].name), s.items[j].max)
    <3>1. Places(body, 0, s.items[j].name) = {}
      BY DEF Places
    <3>2. s.items[j].max \in Nat
      <4>1. s.items[j] \in Item
        BY ConfigFields
      <4> QED BY <4>1, ItemFields
    <3>3. Min({Cardinality({}), s.items[j].max}) = 0
      <4> DEFINE max == s.items[j].max
      <4>1. Min({0, max}) = IF 0 <= max THEN 0 ELSE max
        BY <3>2, MinOfTwo
      <4>2. Cardinality({}) = 0
        BY FS_EmptySet
      <4>3. 0 <= max
        BY <3>2
      <4> HIDE DEF max
      <4>4. Min({Cardinality({}), max}) = 0
        BY <4>1, <4>2, <4>3
      <4> QED BY <4>4 DEF max
    <3>4. c.items[j].values = <<>> /\ Len(<<>>) = 0
      BY <2>1
    <3> QED BY <3>1, <3>3, <3>4 DEF Received
  <2> QED BY <2>1, <2>2 DEF ReceivedSoFar
<1> HIDE DEF c
<1>4. PICK w : Steps(c, body, allow, w)
  BY <1>2, TakenSteps
<1> DEFINE S == {k \in 0..n : ReceivedSoFar(s, body, k, w[k])}
<1>5. 0 \in S
  BY <1>1, <1>3, <1>4 DEF Steps
<1>6. ASSUME NEW k \in 0..n - 1, k \in S
      PROVE  k + 1 \in S
  <2>1. k + 1 \in 1..n /\ k + 1 \in 0..n /\ (k + 1) - 1 = k
    BY <1>1
  <2>2. w[k + 1] = Take(w[k], body[k + 1], allow)
    BY <1>4, <2>1 DEF Steps
  <2>3. ReceivedSoFar(s, body, k, w[k])
    BY <1>6
  <2>4. ReceivedSoFar(s, body, k + 1, Take(w[k], body[k + 1], allow))
    BY <2>3, ReceivedOne
  <2> QED BY <2>1, <2>2, <2>4
<1>7. \A k \in 0..n : k \in S
  <2> HIDE DEF S
  <2> QED BY <1>1, <1>5, <1>6, Stepwise
<1>8. ReceivedSoFar(s, body, n, Taken(c, body, allow))
  <2>1. n \in S
    <3> HIDE DEF S
    <3> QED BY <1>1, <1>7
  <2>2. ReceivedSoFar(s, body, n, w[n])
    BY <2>1
  <2> QED BY <1>4, <2>2 DEF Steps
<1> DEFINE t == Taken(c, body, allow)
<1> HIDE DEF t
<1>9. Installed(s, body, allow).items = t.items
  <2>1. Installed(s, body, allow) = [t EXCEPT !.configured = TRUE]
    BY DEF Installed, c, t
  <2>2. t \in Configs
    BY <1>8 DEF ReceivedSoFar, t
  <2> QED BY <2>1, <2>2, NowConfigured
<1>10. ASSUME NEW i \in DOMAIN s.items
       PROVE  AreThoseOf(t.items[i].values, body, s.items[i])
  <2>1. Received(t.items[i].values, body, Places(body, n, s.items[i].name), s.items[i].max)
    BY <1>8 DEF ReceivedSoFar, t
  <2>2. Places(body, n, s.items[i].name) = Given(body, s.items[i].name)
    BY <1>1 DEF Places, Given
  <2> QED BY <2>1, <2>2 DEF Received, AreThoseOf
<1> QED BY <1>9, <1>10
-----------------------------------------------------------------------------
(* The theorems. *)

LEMMA FInvAlways ==
  ASSUME NoBuiltins
  PROVE  Spec => []FInv
<1>1. FInv /\ [Next]_vars => FInv'
  BY FInvStep
<1> QED BY <1>1, FInvInit, PTL DEF Spec

\* The configuration of the last save that was completed is what loading the
\* file makes, whatever items, texts, filters and groups it has, and however
\* the program ended since (xPL_saveServiceConfig, xPL_loadServiceConfig).
THEOREM SavedIsLoaded ==
  ASSUME NoBuiltins
  PROVE  Spec => []RoundTrip
<1>1. FInv => RoundTrip
  <2> SUFFICES ASSUME FInv, saved # Nothing
               PROVE  Loaded(file) = saved
    BY DEF RoundTrip
  <2>1. saved \in Configs /\ saved.configured /\ ~saved.enabled /\ file = Lines(saved)
    BY DEF FInv, Saves
  <2>2. Loaded(file) = Configuration(saved)
    BY <2>1, LinesLoaded
  <2> QED BY <2>1, <2>2, ConfigurationKeeps
<1> QED BY <1>1, FInvAlways, PTL

\* Unless it was killed inside a save, a service that is enabled has every
\* configurable of its program, with the type and the size the program gave it
\* (xPL_setServiceEnabled after xPL_createConfigurableService).
THEOREM EnabledHasItsItems ==
  ASSUME NoBuiltins
  PROVE  Spec => []HasItsItems
<1>1. FInv => HasItsItems
  <2> SUFFICES ASSUME FInv, service # NoService, service.enabled, ~torn, NEW n \in Name
               PROVE  \E i \in DOMAIN service.items : DefinitionOf(service.items[i]) = Def(n)
    BY DEF HasItsItems
  <2>1. service \in Configs /\ n \in ItemNames(service)
    BY DEF FInv, Types, Restores, Complete
  <2>2. PICK i \in DOMAIN service.items : service.items[i].name = n
    BY <2>1 DEF ItemNames
  <2>3. service.items[i] \in Item
    BY <2>1, ConfigFields
  <2>4. DefinitionOf(service.items[i]) = Def(n)
    BY <2>2, <2>3, ItemFields DEF DefinitionOf, Def
  <2> QED BY <2>4
<1> QED BY <1>1, FInvAlways, PTL

\* A response gives each item the values it names, in their order and as many
\* as the item can hold, and nothing else (installNewConfig).
THEOREM ResponseReplacesValues ==
  ASSUME NoBuiltins
  PROVE  Spec => []ResponseReplaces
<1>1. FInv => ResponseReplaces
  <2> SUFFICES ASSUME FInv, Running, service.enabled, NEW body \in Assignments
               PROVE  \A i \in DOMAIN service.items :
                        AreThoseOf(Installed(service, body, FALSE).items[i].values, body,
                                   service.items[i])
    BY DEF ResponseReplaces
  <2>1. service \in Configs
    BY DEF FInv, Types, Running
  <2>2. body \in Seq(Name \X Value)
    <3>1. PICK k \in 0..MaxBody : body \in [1..k -> Name \X Value]
      BY DEF Assignments, BoundedSeq, SeqOf
    <3>2. k \in Nat
      BY ConfigAssumption
    <3> QED BY <3>1, <3>2
  <2> QED BY <2>1, <2>2, ResponseTaken
<1> QED BY <1>1, FInvAlways, PTL

\* Sending back a config.current answer restores what it described, whatever
\* came in between (sendServiceCurrentConfig, installNewConfig).
THEOREM AnswerIsRestored ==
  ASSUME NoBuiltins
  PROVE  Spec => []AnswerRestores
<1>1. FInv => AnswerRestores
  <2> SUFFICES ASSUME FInv, Running, told # Nothing
               PROVE  LET new == Installed(service, answer, FALSE) IN
                      /\ new.id = told.id /\ new.interval = told.interval
                      /\ new.groups = told.groups /\ new.filters = told.filters
                      /\ \A i \in DOMAIN new.items, k \in DOMAIN told.items :
                           new.items[i].name = told.items[k].name =>
                             Filled(new.items[i].values) = Filled(told.items[k].values)
    BY DEF AnswerRestores
  <2>1. service \in Configs /\ told \in Configs /\ answer = CurrentConfig(told)
    BY DEF FInv, Types, Answers, Running
  <2> QED BY <2>1, AnswerTaken
<1> QED BY <1>1, FInvAlways, PTL
=============================================================================
