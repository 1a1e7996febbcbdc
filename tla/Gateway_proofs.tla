--------------------------- MODULE Gateway_proofs ---------------------------
(***************************************************************************)
(* Proofs about the gateway, for any sizes of its buffers and any number   *)
(* of frames and upsets.                                                   *)
(***************************************************************************)
EXTENDS Gateway, SequenceTheorems, WellFoundedInduction, TLAPS

Token == HostTokens(MaxFrames)

\* Values come in the order of the frames: the fields of a sequence of tokens
\* ascend.
FieldsAscend(s) ==
  \A i, j \in 1..Len(s) :
    i < j /\ IsField(s[i]) /\ IsField(s[j]) => ValueOf(s[i]) < ValueOf(s[j])
Fields(s) == {ValueOf(s[i]) : i \in {j \in 1..Len(s) : IsField(s[j])}}

\* What is printed of a frame is followed by the end of a line, and the fields
\* between a header and the end of its line are of the header's frame.
OfFrame(t) == t[1] \in FrameTokens
LinesClosed(s) ==
  \A i \in 1..Len(s) : OfFrame(s[i]) => \E j \in 1..Len(s) : i < j /\ s[j] = EOL
SameLine(s, i, j) == i < j /\ \A n \in 1..Len(s) : i <= n /\ n < j => s[n] # EOL
LinesOfOneFrame(s) ==
  \A i, j \in 1..Len(s) :
    /\ i > 1 /\ s[i - 1][1] = "rx" /\ s[i][1] = "hdr"
    /\ SameLine(s, i, j) /\ IsField(s[j])
    => s[j][2] = s[i][2]
Whole(s) == FieldsAscend(s) /\ LinesClosed(s) /\ LinesOfOneFrame(s)

\* Printed without a header or a field.
Harmless(s) ==
  /\ s \in Seq(Token) /\ LinesClosed(s)
  /\ \A i \in 1..Len(s) : s[i][1] \notin {"hdr", "fa", "fb"}
-----------------------------------------------------------------------------
LEMMA LeastNatural ==
  ASSUME NEW T \in SUBSET Nat, T # {}
  PROVE  \E x \in T : \A y \in T : x <= y
<1>1. \E x \in T : \A y \in T : <<y, x>> \notin OpToRel(<, Nat)
  BY NatLessThanWellFounded, WFMin
<1>2. ASSUME NEW x \in T, NEW y \in T, <<y, x>> \notin OpToRel(<, Nat)
      PROVE  x <= y
  BY <1>2 DEF OpToRel
<1> QED BY <1>1, <1>2

LEMMA TokenType ==
  ASSUME NEW t \in Token
  PROVE  /\ t[1] \in {"eol", "msg", "echo", "ok1", "ok2"} \cup FrameTokens
         /\ t[2] \in 0..MaxFrames
         /\ IsField(t) => ValueOf(t) \in Int
         /\ t # EOL <=> t[1] # "eol"
<1>1. CASE t \in {Tok(k) : k \in {"eol", "msg", "echo", "ok1", "ok2"}}
  BY <1>1, DongleBounds DEF Tok, EOL, IsField, ValueOf
<1>2. CASE t \in FrameTokens \X (0..MaxFrames)
  BY <1>2, DongleBounds DEF FrameTokens, Tok, EOL, IsField, ValueOf
<1> QED BY <1>1, <1>2 DEF Token, HostTokens

\* insertPacket's walk over a message: the function it is the last value of.
Walks(m, n, walk) ==
  walk = [pos \in 0..n |->
            IF pos = 0 THEN <<>>
            ELSE IF IsField(m[pos]) THEN Append(walk[pos - 1], ValueOf(m[pos]))
            ELSE walk[pos - 1]]

LEMMA WalkExists ==
  ASSUME NEW m
  PROVE  \A n \in Nat : \E walk : Walks(m, n, walk)
<1> DEFINE T == {n \in Nat : ~ \E walk : Walks(m, n, walk)}
<1> SUFFICES ASSUME T # {} PROVE FALSE
  OBVIOUS
<1>1. PICK n \in T : \A k \in T : n <= k
  BY LeastNatural, T \in SUBSET Nat
<1>2. n # 0
  <2>1. Walks(m, 0, [pos \in 0..0 |-> <<>>])
    BY DEF Walks
  <2> QED BY <2>1
<1>3. PICK w : Walks(m, n - 1, w)
  <2>1. n - 1 \in Nat /\ n - 1 \notin T
    BY <1>1, <1>2
  <2> QED BY <2>1
<1> DEFINE v == [pos \in 0..n |->
                   IF pos < n THEN w[pos]
                   ELSE IF IsField(m[n]) THEN Append(w[n - 1], ValueOf(m[n]))
                   ELSE w[n - 1]]
<1>4. Walks(m, n, v)
  <2> DEFINE e(pos) == IF pos = 0 THEN <<>>
                       ELSE IF IsField(m[pos]) THEN Append(v[pos - 1], ValueOf(m[pos]))
                       ELSE v[pos - 1]
  <2>1. ASSUME NEW pos \in 0..n
        PROVE  v[pos] = e(pos)
    <3>1. CASE pos < n
      <4>1. pos \in 0..n - 1 /\ (pos # 0 => pos - 1 \in 0..n /\ pos - 1 < n)
        BY <3>1
      <4>2. v[pos] = w[pos] /\ (pos # 0 => v[pos - 1] = w[pos - 1])
        BY <3>1, <4>1
      <4> HIDE DEF v
      <4> QED BY <1>3, <4>1, <4>2 DEF Walks
    <3>2. CASE ~(pos < n)
      <4>1. pos = n /\ n - 1 \in 0..n /\ n - 1 < n
        BY <3>2, <1>2
      <4>2. v[n - 1] = w[n - 1]
        BY <4>1
      <4> QED BY <1>2, <4>1, <4>2
    <3> QED BY <3>1, <3>2
  <2>2. v = [pos \in 0..n |-> v[pos]]
    OBVIOUS
  <2> HIDE DEF v
  <2> QED BY <2>1, <2>2 DEF Walks
<1> QED BY <1>1, <1>4

\* insertPacket finds the values of the fields of a message, in their order.
LEMMA ValuesOfMessage ==
  ASSUME NEW m \in Seq(Token), FieldsAscend(m)
  PROVE  /\ ValuesIn(m) \in Seq(Int)
         /\ \A i \in 1..Len(ValuesIn(m)) : ValuesIn(m)[i] \in Fields(m)
         /\ \A i, j \in 1..Len(ValuesIn(m)) : i < j => ValuesIn(m)[i] < ValuesIn(m)[j]
<1> DEFINE walk == CHOOSE w : Walks(m, Len(m), w)
<1>1. ValuesIn(m) = walk[Len(m)]
  BY DEF ValuesIn, Walks
<1>2. Walks(m, Len(m), walk)
  <2>1. Len(m) \in Nat
    OBVIOUS
  <2>2. \E w : Walks(m, Len(m), w)
    BY <2>1, WalkExists
  <2> QED BY <2>2
<1> HIDE DEF walk
<1> DEFINE Sound(n) ==
      /\ walk[n] \in Seq(Int)
      /\ \A i \in 1..Len(walk[n]) :
            \E j \in 1..n : IsField(m[j]) /\ walk[n][i] = ValueOf(m[j])
      /\ \A i, j \in 1..Len(walk[n]) : i < j => walk[n][i] < walk[n][j]
<1>3. Sound(0)
  <2>1. walk[0] = <<>>
    BY <1>2 DEF Walks
  <2>2. <<>> \in Seq(Int) /\ Len(<<>>) = 0 /\ 1..0 = {}
    OBVIOUS
  <2> QED BY <2>1, <2>2
<1>4. ASSUME NEW n \in 1..Len(m), Sound(n - 1)
      PROVE  Sound(n)
  <2>1. walk[n] = IF IsField(m[n]) THEN Append(walk[n - 1], ValueOf(m[n])) ELSE walk[n - 1]
    <3>1. n \in 0..Len(m) /\ n # 0
      OBVIOUS
    <3> QED BY <1>2, <3>1 DEF Walks
  <2>2. CASE ~IsField(m[n])
    <3>1. walk[n] = walk[n - 1] /\ 1..n - 1 \subseteq 1..n
      BY <2>1, <2>2
    <3> QED BY <1>4, <3>1
  <2>3. CASE IsField(m[n])
    <3> DEFINE w == walk[n - 1]  v == ValueOf(m[n])
    <3>1. w \in Seq(Int) /\ v \in Int /\ walk[n] = Append(w, v)
      <4>1. m[n] \in Token
        OBVIOUS
      <4> QED BY <1>4, <2>1, <2>3, <4>1, TokenType
    <3>2. \A i \in 1..Len(w) : w[i] < v
      <4> SUFFICES ASSUME NEW i \in 1..Len(w) PROVE w[i] < v
        OBVIOUS
      <4>1. PICK j \in 1..n - 1 : IsField(m[j]) /\ w[i] = ValueOf(m[j])
        BY <1>4
      <4>2. j \in 1..Len(m) /\ j < n
        OBVIOUS
      <4> QED BY <2>3, <4>1, <4>2 DEF FieldsAscend
    <3>3. \A i \in 1..Len(w) :
            \E j \in 1..n : IsField(m[j]) /\ w[i] = ValueOf(m[j])
      <4> SUFFICES ASSUME NEW i \in 1..Len(w)
                   PROVE  \E j \in 1..n : IsField(m[j]) /\ w[i] = ValueOf(m[j])
        OBVIOUS
      <4>1. PICK j \in 1..n - 1 : IsField(m[j]) /\ w[i] = ValueOf(m[j])
        BY <1>4
      <4> QED BY <4>1
    <3>4. \A i, j \in 1..Len(w) : i < j => w[i] < w[j]
      BY <1>4
    <3> HIDE DEF w, v
    <3>5. /\ Append(w, v) \in Seq(Int) /\ Len(Append(w, v)) = Len(w) + 1
          /\ \A i \in 1..Len(w) : Append(w, v)[i] = w[i]
          /\ Append(w, v)[Len(w) + 1] = v
      BY <3>1
    <3>6. \A i, j \in 1..Len(walk[n]) : i < j => walk[n][i] < walk[n][j]
      BY <3>1, <3>2, <3>4, <3>5
    <3>7. ASSUME NEW i \in 1..Len(walk[n])
          PROVE  \E j \in 1..n : IsField(m[j]) /\ walk[n][i] = ValueOf(m[j])
      <4>1. CASE i \in 1..Len(w)
        BY <3>1, <3>3, <3>5, <4>1
      <4>2. CASE i = Len(w) + 1
        BY <2>3, <3>1, <3>5, <4>2 DEF v
      <4> QED BY <3>1, <3>5, <4>1, <4>2
    <3> QED BY <3>1, <3>5, <3>6, <3>7
  <2> QED BY <2>2, <2>3
<1>5. \A n \in 0..Len(m) : Sound(n)
  <2> DEFINE T == {n \in 0..Len(m) : ~Sound(n)}
  <2> HIDE DEF Sound
  <2> SUFFICES ASSUME T # {} PROVE FALSE
    OBVIOUS
  <2>1. PICK n \in T : \A k \in T : n <= k
    BY LeastNatural, T \in SUBSET Nat
  <2>2. n # 0
    BY <1>3
  <2>3. n \in 1..Len(m) /\ n - 1 \in 0..Len(m) /\ n - 1 \notin T
    BY <2>1, <2>2
  <2> QED BY <1>4, <2>3
<1>6. Sound(Len(m))
  BY <1>5
<1> QED BY <1>1, <1>6 DEF Fields

-----------------------------------------------------------------------------
\* A sequence whose tokens of frames are, in order, tokens of another one, and
\* whose lines lie within lines of it.
LEMMA Embedding ==
  ASSUME NEW s \in Seq(Token), NEW t \in Seq(Token), NEW f,
         FieldsAscend(s), LinesOfOneFrame(s),
         \A i \in 1..Len(t) : OfFrame(t[i]) => f[i] \in 1..Len(s) /\ s[f[i]] = t[i],
         \A i, j \in 1..Len(t) :
           OfFrame(t[i]) /\ OfFrame(t[j]) /\ i < j => f[i] < f[j],
         \A i, j \in 1..Len(t) :
           OfFrame(t[i]) /\ OfFrame(t[j]) /\ SameLine(t, i, j) => SameLine(s, f[i], f[j]),
         \A i \in 2..Len(t) :
           t[i - 1][1] = "rx" /\ t[i][1] = "hdr" => f[i] = f[i - 1] + 1
  PROVE  FieldsAscend(t) /\ LinesOfOneFrame(t) /\ Fields(t) \subseteq Fields(s)
<1>1. \A u : IsField(u) => OfFrame(u)
  BY DEF IsField, OfFrame, FrameTokens
<1>2. FieldsAscend(t)
  BY <1>1 DEF FieldsAscend
<1>3. Fields(t) \subseteq Fields(s)
  BY <1>1 DEF Fields
<1>4. LinesOfOneFrame(t)
  <2> SUFFICES ASSUME NEW i \in 1..Len(t), NEW j \in 1..Len(t),
                      i > 1, t[i - 1][1] = "rx", t[i][1] = "hdr",
                      SameLine(t, i, j), IsField(t[j])
               PROVE  t[j][2] = t[i][2]
    BY DEF LinesOfOneFrame
  <2>1. i \in 2..Len(t) /\ i - 1 \in 1..Len(t)
    OBVIOUS
  <2>2. OfFrame(t[i - 1]) /\ OfFrame(t[i]) /\ OfFrame(t[j])
    BY <1>1 DEF OfFrame, FrameTokens
  <2>3. /\ f[i - 1] \in 1..Len(s) /\ s[f[i - 1]] = t[i - 1]
        /\ f[i] \in 1..Len(s) /\ s[f[i]] = t[i]
        /\ f[j] \in 1..Len(s) /\ s[f[j]] = t[j]
    BY <2>1, <2>2
  <2>4. f[i] = f[i - 1] + 1 /\ SameLine(s, f[i], f[j])
    BY <2>1, <2>2
  <2>5. f[i] > 1 /\ f[i] - 1 = f[i - 1]
    BY <2>3, <2>4
  <2> DEFINE p == f[i]  q == f[j]
  <2>6. /\ p \in 1..Len(s) /\ q \in 1..Len(s)
        /\ p > 1 /\ s[p - 1][1] = "rx" /\ s[p][1] = "hdr"
        /\ SameLine(s, p, q) /\ IsField(s[q])
    BY <2>3, <2>4, <2>5
  <2>7. s[q][2] = t[j][2] /\ s[p][2] = t[i][2]
    BY <2>3
  <2> HIDE DEF p, q
  <2>8. s[q][2] = s[p][2]
    BY <2>6 DEF LinesOfOneFrame
  <2> QED BY <2>7, <2>8
<1> QED BY <1>2, <1>3, <1>4

\* What is left when the first n tokens are gone.
LEMMA Suffix ==
  ASSUME NEW s \in Seq(Token), NEW t \in Seq(Token), Whole(s),
         NEW n \in 0..Len(s), Len(t) = Len(s) - n,
         \A i \in 1..Len(t) : t[i] = s[n + i]
  PROVE  Whole(t) /\ Fields(t) \subseteq Fields(s)
<1> DEFINE f == [i \in 1..Len(t) |-> n + i]
<1>1. \A i \in 1..Len(t) : f[i] \in 1..Len(s) /\ s[f[i]] = t[i]
  OBVIOUS
<1>2. \A i, j \in 1..Len(t) : i < j => f[i] < f[j]
  OBVIOUS
<1>3. \A i \in 2..Len(t) : f[i] = f[i - 1] + 1
  OBVIOUS
<1>4. ASSUME NEW i \in 1..Len(t), NEW j \in 1..Len(t), SameLine(t, i, j)
      PROVE  SameLine(s, f[i], f[j])
  <2> SUFFICES ASSUME NEW k \in 1..Len(s), f[i] <= k, k < f[j]
               PROVE  s[k] # EOL
    BY <1>2, <1>4 DEF SameLine
  <2>1. k - n \in 1..Len(t) /\ i <= k - n /\ k - n < j /\ t[k - n] = s[k]
    OBVIOUS
  <2> QED BY <1>4, <2>1 DEF SameLine
<1>5. LinesClosed(t)
  <2> SUFFICES ASSUME NEW i \in 1..Len(t), OfFrame(t[i])
               PROVE  \E j \in 1..Len(t) : i < j /\ t[j] = EOL
    BY DEF LinesClosed
  <2>1. PICK k \in 1..Len(s) : n + i < k /\ s[k] = EOL
    BY <1>1 DEF Whole, LinesClosed
  <2>2. k - n \in 1..Len(t) /\ i < k - n /\ t[k - n] = EOL
    BY <2>1
  <2> QED BY <2>2
<1> HIDE DEF f
<1>6. FieldsAscend(t) /\ LinesOfOneFrame(t) /\ Fields(t) \subseteq Fields(s)
  BY <1>1, <1>2, <1>3, <1>4, Embedding DEF Whole
<1> QED BY <1>5, <1>6 DEF Whole

LEMMA Joined ==
  ASSUME NEW a \in Seq(Token), NEW b \in Seq(Token)
  PROVE  /\ a \o b \in Seq(Token) /\ Len(a \o b) = Len(a) + Len(b)
         /\ \A i \in 1..Len(a) : (a \o b)[i] = a[i]
         /\ \A i \in Len(a) + 1..Len(a) + Len(b) : (a \o b)[i] = b[i - Len(a)]
         /\ \A i \in 1..Len(a) + Len(b) : i <= Len(a) \/ i - Len(a) \in 1..Len(b)
  OBVIOUS

\* A line of its own printed after the tokens a, with or without what was to
\* follow them.
LEMMA OwnLine ==
  ASSUME NEW a \in Seq(Token), NEW b \in Seq(Token), Whole(a \o b),
         NEW c \in {b, <<>>}
  PROVE  /\ Whole((a \o Reply("msg")) \o c)
         /\ Fields((a \o Reply("msg")) \o c) \subseteq Fields(a \o b)
<1> DEFINE s == a \o b  t == (a \o Reply("msg")) \o c
           f == [i \in 1..Len(t) |-> IF i <= Len(a) THEN i ELSE i - 2]
<1>1. /\ s \in Seq(Token) /\ Len(s) = Len(a) + Len(b)
      /\ \A i \in 1..Len(a) : s[i] = a[i]
      /\ \A i \in Len(a) + 1..Len(s) : s[i] = b[i - Len(a)]
  BY Joined
<1>2. /\ Reply("msg") \in Seq(Token) /\ Len(Reply("msg")) = 2
      /\ Reply("msg")[2] = EOL
      /\ \A i \in 1..2 : ~OfFrame(Reply("msg")[i])
  BY DEF Reply, Token, HostTokens, FrameTokens, EOL, Tok, OfFrame
<1>3. c \in Seq(Token) /\ (c = b \/ Len(c) = 0)
  <2>1. <<>> \in Seq(Token) /\ Len(<<>>) = 0
    OBVIOUS
  <2> QED BY <2>1
<1>4. /\ t \in Seq(Token) /\ Len(t) = Len(a) + 2 + Len(c)
      /\ \A i \in 1..Len(a) : t[i] = a[i]
      /\ t[Len(a) + 1] = Reply("msg")[1] /\ t[Len(a) + 2] = Reply("msg")[2]
      /\ \A i \in Len(a) + 3..Len(t) : t[i] = c[i - Len(a) - 2]
  <2> DEFINE r == Reply("msg")
  <2>0. r \in Seq(Token) /\ Len(r) = 2
    BY <1>2
  <2> HIDE DEF r
  <2>1. /\ a \o r \in Seq(Token) /\ Len(a \o r) = Len(a) + 2
        /\ \A i \in 1..Len(a) : (a \o r)[i] = a[i]
        /\ \A i \in Len(a) + 1..Len(a) + 2 : (a \o r)[i] = r[i - Len(a)]
    <3>1. /\ a \o r \in Seq(Token) /\ Len(a \o r) = Len(a) + Len(r)
          /\ \A i \in 1..Len(a) : (a \o r)[i] = a[i]
          /\ \A i \in Len(a) + 1..Len(a) + Len(r) : (a \o r)[i] = r[i - Len(a)]
      BY <2>0, Joined
    <3> QED BY <2>0, <3>1
  <2> DEFINE u == a \o r
  <2> HIDE DEF u
  <2>2. t = u \o c /\ u \in Seq(Token) /\ Len(u) = Len(a) + 2
    BY <2>1 DEF r, u
  <2>3. /\ t \in Seq(Token) /\ Len(t) = Len(a) + 2 + Len(c)
        /\ \A i \in 1..Len(a) + 2 : t[i] = u[i]
        /\ \A i \in Len(a) + 3..Len(t) : t[i] = c[i - (Len(a) + 2)]
    <3>1. /\ u \o c \in Seq(Token) /\ Len(u \o c) = Len(u) + Len(c)
          /\ \A i \in 1..Len(u) : (u \o c)[i] = u[i]
          /\ \A i \in Len(u) + 1..Len(u) + Len(c) : (u \o c)[i] = c[i - Len(u)]
      BY <1>3, <2>2, Joined
    <3> HIDE DEF t
    <3> QED BY <2>2, <3>1
  <2>4. /\ \A i \in 1..Len(a) : u[i] = a[i]
        /\ u[Len(a) + 1] = r[1] /\ u[Len(a) + 2] = r[2]
    BY <2>1 DEF u
  <2>5. \A i \in Len(a) + 3..Len(t) : i - (Len(a) + 2) = i - Len(a) - 2
    BY <2>3
  <2> QED BY <2>3, <2>4, <2>5 DEF r
<1> HIDE DEF s, t
<1>5. ASSUME NEW i \in 1..Len(t), OfFrame(t[i])
      PROVE  f[i] \in 1..Len(s) /\ s[f[i]] = t[i] /\ i # Len(a) + 1 /\ i # Len(a) + 2
  <2>1. CASE i <= Len(a)
    BY <1>1, <1>4, <2>1
  <2>2. CASE i = Len(a) + 1 \/ i = Len(a) + 2
    BY <1>2, <1>4, <1>5, <2>2
  <2>3. CASE i > Len(a) + 2
    <3>1. i - Len(a) - 2 \in 1..Len(c)
      BY <1>4, <2>3
    <3>2. c = b /\ t[i] = b[i - Len(a) - 2] /\ i - 2 - Len(a) = i - Len(a) - 2
      BY <1>3, <1>4, <2>3, <3>1
    <3>3. i - 2 \in Len(a) + 1..Len(s) /\ f[i] = i - 2
      BY <1>1, <1>4, <2>3, <3>1, <3>2
    <3>4. s[i - 2] = b[i - 2 - Len(a)] /\ i - 2 \in 1..Len(s)
      BY <1>1, <3>3
    <3> QED BY <2>3, <3>2, <3>3, <3>4
  <2> QED BY <1>4, <2>1, <2>2, <2>3
<1>6. ASSUME NEW i \in 1..Len(t), NEW j \in 1..Len(t), OfFrame(t[i]), OfFrame(t[j])
      PROVE  /\ i < j => f[i] < f[j]
             /\ i = j - 1 => f[j] = f[i] + 1
  BY <1>4, <1>5, <1>6
<1>7. ASSUME NEW i \in 1..Len(t), NEW j \in 1..Len(t), OfFrame(t[i]), OfFrame(t[j]),
             SameLine(t, i, j)
      PROVE  SameLine(s, f[i], f[j])
  <2>1. i < j /\ i # Len(a) + 1 /\ i # Len(a) + 2 /\ j # Len(a) + 1 /\ j # Len(a) + 2
    BY <1>5, <1>7 DEF SameLine
  <2>2. ~(i <= Len(a) /\ j > Len(a) + 2)
    <3>1. t[Len(a) + 2] = EOL /\ Len(a) + 2 \in 1..Len(t)
      BY <1>2, <1>4
    <3> QED BY <1>7, <3>1 DEF SameLine
  <2>3. CASE j <= Len(a)
    <3>1. f[i] = i /\ f[j] = j
      BY <2>1, <2>3
    <3>2. \A k \in 1..Len(a) : s[k] = t[k] /\ k \in 1..Len(t)
      BY <1>1, <1>4
    <3>3. \A k \in 1..Len(s) : i <= k /\ k < j => k \in 1..Len(a)
      BY <2>3
    <3> HIDE DEF f
    <3> QED BY <1>7, <2>1, <3>1, <3>2, <3>3 DEF SameLine
  <2>4. CASE i > Len(a) + 2
    <3> SUFFICES ASSUME NEW k \in 1..Len(s), i - 2 <= k, k < j - 2
                 PROVE  s[k] # EOL
      BY <1>4, <2>1, <2>4 DEF SameLine
    <3>1. k - Len(a) \in 1..Len(c) /\ k + 2 \in Len(a) + 3..Len(t)
      BY <1>4, <2>4
    <3>2. t[k + 2] = s[k] /\ k + 2 \in 1..Len(t)
      <4>1. c = b /\ k \in Len(a) + 1..Len(s) /\ k + 2 - Len(a) - 2 = k - Len(a)
        BY <1>3, <2>4, <3>1
      <4>2. t[k + 2] = c[k - Len(a)] /\ s[k] = b[k - Len(a)]
        BY <1>1, <1>4, <3>1, <4>1
      <4> QED BY <1>4, <3>1, <4>1, <4>2
    <3> QED BY <1>7, <3>2 DEF SameLine
  <2> QED BY <2>1, <2>2, <2>3, <2>4
<1>8. LinesClosed(t)
  <2> SUFFICES ASSUME NEW i \in 1..Len(t), OfFrame(t[i])
               PROVE  \E j \in 1..Len(t) : i < j /\ t[j] = EOL
    BY DEF LinesClosed
  <2>1. CASE i <= Len(a)
    BY <1>2, <1>4, <2>1
  <2>2. CASE i > Len(a)
    <3>0. i > Len(a) + 2 /\ f[i] = i - 2
      BY <1>5, <2>2
    <3>1. i - 2 > Len(a) /\ i - 2 \in 1..Len(s) /\ s[i - 2] = t[i]
      BY <1>5, <3>0
    <3>2. PICK k \in 1..Len(s) : i - 2 < k /\ s[k] = EOL
      BY <3>1 DEF Whole, LinesClosed, s
    <3>3. k - Len(a) \in 1..Len(b) /\ k \in Len(a) + 1..Len(s)
      BY <1>1, <3>1, <3>2
    <3>4. c = b
      BY <1>3, <1>4, <3>1
    <3>5. k + 2 \in 1..Len(t) /\ t[k + 2] = EOL
      <4>1. k + 2 \in Len(a) + 3..Len(t) /\ k + 2 - Len(a) - 2 = k - Len(a)
        BY <1>1, <1>4, <3>3, <3>4
      <4>2. t[k + 2] = c[k - Len(a)] /\ s[k] = b[k - Len(a)] /\ k + 2 \in 1..Len(t)
        BY <1>1, <1>4, <3>3, <4>1
      <4> QED BY <3>2, <3>4, <4>2
    <3> QED BY <3>2, <3>5
  <2> QED BY <1>4, <2>1, <2>2
<1> HIDE DEF f
<1>9. \A i \in 2..Len(t) :
        t[i - 1][1] = "rx" /\ t[i][1] = "hdr" => f[i] = f[i - 1] + 1
  BY <1>6 DEF OfFrame, FrameTokens
<1>10. FieldsAscend(t) /\ LinesOfOneFrame(t) /\ Fields(t) \subseteq Fields(s)
  <2>1. FieldsAscend(s) /\ LinesOfOneFrame(s)
    BY DEF Whole, s
  <2>2. \A i \in 1..Len(t) : OfFrame(t[i]) => f[i] \in 1..Len(s) /\ s[f[i]] = t[i]
    BY <1>5
  <2>3. \A i, j \in 1..Len(t) :
          OfFrame(t[i]) /\ OfFrame(t[j]) /\ i < j => f[i] < f[j]
    BY <1>6
  <2>4. \A i, j \in 1..Len(t) :
          OfFrame(t[i]) /\ OfFrame(t[j]) /\ SameLine(t, i, j) => SameLine(s, f[i], f[j])
    BY <1>7
  <2> QED BY <1>1, <1>4, <1>9, <2>1, <2>2, <2>3, <2>4, Embedding
<1> QED BY <1>8, <1>10 DEF Whole, s, t

\* What is printed after whole lines, with later values and not in the middle
\* of a line.
LEMMA Appending ==
  ASSUME NEW s \in Seq(Token), NEW d \in Seq(Token), Whole(s), Whole(d),
         \A v \in Fields(s), u \in Fields(d) : v < u,
         Len(d) > 0 => d[1][1] # "hdr"
  PROVE  Whole(s \o d) /\ Fields(s \o d) \subseteq Fields(s) \cup Fields(d)
<1> DEFINE t == s \o d  n == Len(s)
<1>1. /\ t \in Seq(Token) /\ Len(t) = n + Len(d) /\ n \in Nat /\ Len(d) \in Nat
      /\ \A i \in 1..n : t[i] = s[i]
      /\ \A i \in n + 1..n + Len(d) : t[i] = d[i - n]
  BY Joined
<1> HIDE DEF t, n
<1>2. ASSUME NEW i \in 1..Len(t)
      PROVE  \/ i \in 1..n /\ i \in 1..Len(s) /\ t[i] = s[i]
             \/ i > n /\ i - n \in 1..Len(d) /\ t[i] = d[i - n]
  BY <1>1 DEF n
<1>3. FieldsAscend(t)
  <2> SUFFICES ASSUME NEW i \in 1..Len(t), NEW j \in 1..Len(t),
                      i < j, IsField(t[i]), IsField(t[j])
               PROVE  ValueOf(t[i]) < ValueOf(t[j])
    BY DEF FieldsAscend
  <2>1. CASE j \in 1..n
    <3>1. i \in 1..Len(s) /\ t[i] = s[i] /\ j \in 1..Len(s) /\ t[j] = s[j]
      BY <1>1, <1>2, <2>1
    <3> QED BY <3>1 DEF Whole, FieldsAscend
  <2>2. CASE i > n
    <3>1. i - n \in 1..Len(d) /\ t[i] = d[i - n]
      BY <1>1, <1>2, <2>2
    <3>2. j - n \in 1..Len(d) /\ t[j] = d[j - n]
      BY <1>1, <1>2, <2>2
    <3>3. i - n < j - n
      BY <1>1
    <3> QED BY <3>1, <3>2, <3>3 DEF Whole, FieldsAscend
  <2>3. CASE i \in 1..n /\ j > n
    <3>1. i \in 1..Len(s) /\ t[i] = s[i] /\ j - n \in 1..Len(d) /\ t[j] = d[j - n]
      BY <1>1, <1>2, <2>3
    <3>2. ValueOf(t[i]) \in Fields(s) /\ ValueOf(t[j]) \in Fields(d)
      BY <3>1 DEF Fields
    <3> QED BY <3>2
  <2> QED BY <1>1, <2>1, <2>2, <2>3
<1>4. LinesClosed(t)
  <2> SUFFICES ASSUME NEW i \in 1..Len(t), OfFrame(t[i])
               PROVE  \E j \in 1..Len(t) : i < j /\ t[j] = EOL
    BY DEF LinesClosed
  <2>1. CASE i \in 1..n
    <3>1. PICK j \in 1..Len(s) : i < j /\ s[j] = EOL
      BY <1>1, <2>1 DEF Whole, LinesClosed, n
    <3> QED BY <1>1, <3>1 DEF n
  <2>2. CASE i > n
    <3>1. i - n \in 1..Len(d) /\ OfFrame(d[i - n])
      BY <1>1, <1>2, <2>2
    <3>2. PICK j \in 1..Len(d) : i - n < j /\ d[j] = EOL
      BY <3>1 DEF Whole, LinesClosed
    <3>3. n + j \in n + 1..n + Len(d) /\ n + j - n = j /\ i < n + j
      BY <1>1, <3>2
    <3>4. t[n + j] = d[j]
      BY <1>1, <3>3
    <3>5. n + j \in 1..Len(t)
      BY <1>1, <3>3
    <3> QED BY <3>2, <3>3, <3>4, <3>5
  <2> QED BY <1>1, <2>1, <2>2
<1>5. LinesOfOneFrame(t)
  <2> SUFFICES ASSUME NEW i \in 1..Len(t), NEW j \in 1..Len(t),
                      i > 1, t[i - 1][1] = "rx", t[i][1] = "hdr",
                      SameLine(t, i, j), IsField(t[j])
               PROVE  t[j][2] = t[i][2]
    BY DEF LinesOfOneFrame
  <2>0. i < j /\ \A k \in 1..Len(t) : i <= k /\ k < j => t[k] # EOL
    BY DEF SameLine
  <2>1. CASE j \in 1..n
    <3>1. /\ i \in 1..Len(s) /\ t[i] = s[i] /\ j \in 1..Len(s) /\ t[j] = s[j]
          /\ i - 1 \in 1..Len(s) /\ t[i - 1] = s[i - 1]
      BY <1>1, <2>0, <2>1 DEF n
    <3>2. SameLine(s, i, j)
      <4> SUFFICES ASSUME NEW k \in 1..Len(s), i <= k, k < j
                   PROVE  s[k] # EOL
        BY <2>0 DEF SameLine
      <4> QED BY <1>1, <2>0 DEF n
    <3> QED BY <3>1, <3>2 DEF Whole, LinesOfOneFrame
  <2>2. CASE i \in 1..n /\ j > n
    <3>1. i \in 1..Len(s) /\ OfFrame(s[i])
      BY <1>1, <2>2 DEF n, OfFrame, FrameTokens
    <3>2. PICK k \in 1..Len(s) : i < k /\ s[k] = EOL
      BY <3>1 DEF Whole, LinesClosed
    <3>3. k \in 1..Len(t) /\ k < j /\ t[k] = EOL
      BY <1>1, <2>2, <3>2 DEF n
    <3> QED BY <2>0, <3>2, <3>3
  <2>3. CASE i > n
    <3> DEFINE p == i - n  q == j - n
    <3>1. /\ p \in 1..Len(d) /\ t[i] = d[p] /\ q \in 1..Len(d) /\ t[j] = d[q]
          /\ p < q /\ i = n + p /\ j = n + q
      BY <1>1, <1>2, <2>0, <2>3
    <3> HIDE DEF p, q
    <3>2. p > 1
      BY <3>1
    <3>3. p - 1 \in 1..Len(d) /\ t[i - 1] = d[p - 1]
      <4>1. i - 1 \in n + 1..n + Len(d) /\ i - 1 - n = p - 1
        BY <1>1, <3>1, <3>2
      <4>2. t[i - 1] = d[p - 1]
        BY <1>1, <4>1
      <4> QED BY <3>1, <3>2, <4>2
    <3>4. SameLine(d, p, q)
      <4> SUFFICES ASSUME NEW k \in 1..Len(d), p <= k, k < q
                   PROVE  d[k] # EOL
        BY <3>1 DEF SameLine
      <4>1. n + k \in n + 1..n + Len(d) /\ n + k - n = k /\ i <= n + k /\ n + k < j
        BY <1>1, <3>1
      <4>2. n + k \in 1..Len(t) /\ t[n + k] = d[k]
        BY <1>1, <4>1
      <4> QED BY <2>0, <4>1, <4>2
    <3>5. d[q][2] = d[p][2]
      BY <3>1, <3>2, <3>3, <3>4 DEF Whole, LinesOfOneFrame
    <3> QED BY <3>1, <3>5
  <2> QED BY <1>1, <2>1, <2>2, <2>3
<1>6. Fields(t) \subseteq Fields(s) \cup Fields(d)
  BY <1>2 DEF Fields
<1> QED BY <1>3, <1>4, <1>5, <1>6 DEF Whole, t

LEMMA HarmlessIsWhole ==
  ASSUME NEW s, Harmless(s)
  PROVE  s \in Seq(Token) /\ Whole(s) /\ Fields(s) = {} /\ (Len(s) > 0 => s[1][1] # "hdr")
<1>1. s \in Seq(Token) /\ Len(s) \in Nat /\ LinesClosed(s)
  BY DEF Harmless
<1>2. \A i \in 1..Len(s) : ~IsField(s[i]) /\ s[i][1] # "hdr"
  BY DEF Harmless, IsField
<1>3. Fields(s) = {} /\ FieldsAscend(s) /\ LinesOfOneFrame(s)
  BY <1>2 DEF Fields, FieldsAscend, LinesOfOneFrame
<1> QED BY <1>1, <1>2, <1>3 DEF Whole

LEMMA HarmlessAfterHarmless ==
  ASSUME NEW s, NEW d, Harmless(s), Harmless(d)
  PROVE  Harmless(s \o d)
<1>1. /\ s \in Seq(Token) /\ Whole(s) /\ Fields(s) = {}
      /\ d \in Seq(Token) /\ Whole(d) /\ Fields(d) = {}
      /\ Len(d) > 0 => d[1][1] # "hdr"
  BY HarmlessIsWhole
<1>2. LinesClosed(s \o d)
  BY <1>1, Appending DEF Whole
<1>3. /\ s \o d \in Seq(Token) /\ Len(s \o d) = Len(s) + Len(d)
      /\ \A i \in 1..Len(s) : (s \o d)[i] = s[i]
      /\ \A i \in Len(s) + 1..Len(s) + Len(d) : (s \o d)[i] = d[i - Len(s)]
      /\ \A i \in 1..Len(s) + Len(d) : i <= Len(s) \/ i - Len(s) \in 1..Len(d)
  BY <1>1, Joined
<1>4. ASSUME NEW i \in 1..Len(s \o d)
      PROVE  (s \o d)[i][1] \notin {"hdr", "fa", "fb"}
  <2>1. CASE i <= Len(s)
    BY <1>3, <2>1 DEF Harmless
  <2>2. CASE i > Len(s)
    <3>1. i - Len(s) \in 1..Len(d) /\ (s \o d)[i] = d[i - Len(s)]
      BY <1>1, <1>3, <2>2
    <3> QED BY <3>1 DEF Harmless
  <2> QED BY <1>1, <2>1, <2>2
<1> QED BY <1>2, <1>3, <1>4 DEF Harmless

\* The strings that the dongle prints, other than frames.
LEMMA SimpleTokens ==
  ASSUME NEW k \in {"eol", "msg", "echo", "ok1", "ok2"}
  PROVE  Tok(k) \in Token /\ ~OfFrame(Tok(k)) /\ Tok(k)[1] \notin {"hdr", "fa", "fb"}
BY DEF Tok, Token, HostTokens, FrameTokens, OfFrame

LEMMA Prints ==
  /\ Harmless(<<>>) /\ Harmless(<<EOL>>) /\ Harmless(<<Tok("echo")>>)
  /\ Harmless(<<Tok("msg")>>) /\ Harmless(Reply("msg"))
  /\ Harmless(<<Tok("ok1"), Tok("ok2"), EOL>>)
<1>1. ASSUME NEW s \in Seq(Token),
             \A i \in 1..Len(s) :
               \E k \in {"eol", "msg", "echo", "ok1", "ok2"} : s[i] = Tok(k)
      PROVE  Harmless(s)
  <2>1. \A i \in 1..Len(s) : ~OfFrame(s[i]) /\ s[i][1] \notin {"hdr", "fa", "fb"}
    BY <1>1, SimpleTokens
  <2> QED BY <2>1 DEF Harmless, LinesClosed
<1>2. \A k \in {"eol", "msg", "echo", "ok1", "ok2"} : Tok(k) \in Token
  BY SimpleTokens
<1>3. Harmless(<<>>)
  <2>1. <<>> \in Seq(Token) /\ Len(<<>>) = 0 /\ 1..0 = {}
    OBVIOUS
  <2> QED BY <1>1, <2>1
<1>4. ASSUME NEW k \in {"eol", "msg", "echo", "ok1", "ok2"} PROVE Harmless(<<Tok(k)>>)
  <2>1. <<Tok(k)>> \in Seq(Token) /\ \A i \in 1..Len(<<Tok(k)>>) : <<Tok(k)>>[i] = Tok(k)
    BY <1>2
  <2> QED BY <1>1, <2>1
<1>5. Harmless(Reply("msg"))
  <2> DEFINE s == Reply("msg")
  <2>1. s \in Seq(Token) /\ Len(s) = 2 /\ s[1] = Tok("msg") /\ s[2] = Tok("eol")
    BY <1>2 DEF Reply, EOL
  <2>2. \A i \in 1..2 : i = 1 \/ i = 2
    OBVIOUS
  <2> HIDE DEF s
  <2>3. Harmless(s)
    BY <1>1, <2>1, <2>2
  <2> QED BY <2>3 DEF s
<1>6. Harmless(<<Tok("ok1"), Tok("ok2"), EOL>>)
  <2> DEFINE s == <<Tok("ok1"), Tok("ok2"), EOL>>
  <2>1. /\ s \in Seq(Token) /\ Len(s) = 3
        /\ s[1] = Tok("ok1") /\ s[2] = Tok("ok2") /\ s[3] = Tok("eol")
    BY <1>2 DEF EOL
  <2>2. \A i \in 1..3 : i = 1 \/ i = 2 \/ i = 3
    OBVIOUS
  <2> HIDE DEF s
  <2>3. Harmless(s)
    BY <1>1, <2>1, <2>2
  <2> QED BY <2>3 DEF s
<1> QED BY <1>3, <1>4, <1>5, <1>6 DEF EOL

LEMMA HexDump ==
  ASSUME NEW p, p.hdr \in 0..MaxFrames
  PROVE  Harmless(dump_hex(p))
<1> DEFINE d == dump_hex(p)
<1>1. /\ d \in Seq(Token) /\ Len(d) = 5 /\ d[1] = <<"rx", p.hdr>> /\ d[2] = Tok("msg")
      /\ d[3] = EOL /\ d[4] = Tok("msg") /\ d[5] = EOL
  BY SimpleTokens DEF dump_hex, Token, HostTokens, FrameTokens, EOL, Tok
<1> HIDE DEF d
<1>2. \A i \in 1..5 : i = 1 \/ i = 2 \/ i = 3 \/ i = 4 \/ i = 5
  OBVIOUS
<1>3. \A i \in 1..5 : d[i][1] \notin {"hdr", "fa", "fb"}
  BY <1>1, <1>2 DEF EOL, Tok
<1>4. LinesClosed(d)
  BY <1>1, <1>2, SimpleTokens DEF LinesClosed, EOL
<1> QED BY <1>1, <1>3, <1>4 DEF Harmless, d

LEMMA HumanDump ==
  ASSUME NEW p, p.hdr \in 0..MaxFrames, p.data \in {0, p.hdr}
  PROVE  /\ dump_human(p) \in Seq(Token) /\ Whole(dump_human(p))
         /\ Fields(dump_human(p)) \subseteq
              IF p.data = 0 THEN {} ELSE {2 * p.data - 1, 2 * p.data}
         /\ dump_human(p)[1][1] # "hdr"
<1> DEFINE d == dump_human(p)
<1>0. p.data \in Int /\ \A i \in 1..6 : i = 1 \/ i = 2 \/ i = 3 \/ i = 4 \/ i = 5 \/ i = 6
  BY DongleBounds
<1>1. CASE p.data = 0
  <2>1. /\ d \in Seq(Token) /\ Len(d) = 3 /\ d[1] = <<"rx", p.hdr>>
        /\ d[2] = <<"hdr", p.hdr>> /\ d[3] = EOL
    BY <1>1 DEF dump_human, Token, HostTokens, FrameTokens, EOL, Tok
  <2> HIDE DEF d
  <2>2. \A i \in 1..3 : i = 1 \/ i = 2 \/ i = 3
    OBVIOUS
  <2>3. \A i \in 1..3 : ~IsField(d[i])
    BY <2>1, <2>2 DEF IsField, EOL, Tok
  <2>4. LinesClosed(d)
    BY <2>1, <2>2 DEF LinesClosed, EOL, Tok, OfFrame, FrameTokens
  <2>5. FieldsAscend(d) /\ LinesOfOneFrame(d) /\ Fields(d) = {}
    BY <2>1, <2>3 DEF FieldsAscend, LinesOfOneFrame, Fields
  <2> QED BY <2>1, <2>4, <2>5 DEF Whole, d
<1>2. CASE p.data # 0
  <2>1. /\ d \in Seq(Token) /\ Len(d) = 6 /\ d[1] = <<"rx", p.hdr>>
        /\ d[2] = <<"hdr", p.hdr>> /\ d[3] = <<"fa", p.data>>
        /\ d[4] = <<"fo", p.data>> /\ d[5] = <<"fb", p.data>> /\ d[6] = EOL
    BY <1>2 DEF dump_human, Token, HostTokens, FrameTokens, EOL, Tok
  <2> HIDE DEF d
  <2>2. /\ \A i \in 1..6 : IsField(d[i]) => i = 3 \/ i = 5
        /\ ValueOf(d[3]) = 2 * p.data - 1 /\ ValueOf(d[5]) = 2 * p.data
    BY <1>0, <2>1 DEF IsField, EOL, Tok, ValueOf
  <2>3. LinesClosed(d)
    <3>1. \A i \in 1..6 : OfFrame(d[i]) => i < 6
      BY <1>0, <2>1 DEF EOL, Tok, OfFrame, FrameTokens
    <3> QED BY <2>1, <3>1 DEF LinesClosed
  <2>4. FieldsAscend(d)
    <3> SUFFICES ASSUME NEW i \in 1..6, NEW j \in 1..6,
                        i < j, IsField(d[i]), IsField(d[j])
                 PROVE  ValueOf(d[i]) < ValueOf(d[j])
      BY <2>1 DEF FieldsAscend
    <3>1. i = 3 /\ j = 5
      BY <2>2
    <3> QED BY <1>0, <2>2, <3>1
  <2>5. Fields(d) \subseteq {2 * p.data - 1, 2 * p.data}
    BY <2>1, <2>2 DEF Fields
  <2>6. LinesOfOneFrame(d)
    BY <1>2, <2>1, <2>2, <1>0 DEF LinesOfOneFrame
  <2> QED BY <1>2, <2>1, <2>3, <2>4, <2>5, <2>6 DEF Whole, d
<1> QED BY <1>1, <1>2
-----------------------------------------------------------------------------
\* What the dongle has printed and oflbridge has not read.
Wire == toHost \o out

\* The last frame that main() has taken from the radio, or that a reset lost.
Printed == heard - Len(rxq)

Signal == [src : 0..MaxFrames, msg : Seq(Token)]

\* The values follow each other from the database to the serial line: those
\* posted, those of each signal, those with fields on the wire, and none
\* beyond top.
Ordered(wire, sigs, post, top) ==
  /\ \A u \in wire : u <= top
  /\ \A i \in 1..Len(sigs) :
       /\ FieldsAscend(sigs[i].msg)
       /\ \A v \in Fields(sigs[i].msg) : v <= top /\ \A u \in wire : v < u
  /\ \A i, j \in 1..Len(sigs) :
       i < j => \A v \in Fields(sigs[i].msg), u \in Fields(sigs[j].msg) : v < u
  /\ \A p \in 1..Len(post) :
       /\ post[p] <= top
       /\ \A u \in wire : post[p] < u
       /\ \A i \in 1..Len(sigs) : \A v \in Fields(sigs[i].msg) : post[p] < v
  /\ \A p, q \in 1..Len(post) : p < q => post[p] < post[q]

Types == TypeOK /\ signals \in Seq(Signal)

Flow ==
  /\ posted \in Seq(Int)
  /\ Len(rxq) <= heard /\ \A i \in 1..Len(rxq) : rxq[i].id = Printed + i
  /\ ~opened => toHost = <<>>
  /\ Whole(Wire)
  /\ Ordered(Fields(Wire), signals, posted, 2 * Printed)
  /\ RightSource

IInv == Types /\ Flow
-----------------------------------------------------------------------------
LEMMA LineEndIsFirst ==
  ASSUME toHost \in Seq(Token)
  PROVE  /\ LineEnd \in 0..Len(toHost)
         /\ LineEnd > 0 => toHost[LineEnd] = EOL
         /\ \A i \in 1..Len(toHost) : i < LineEnd => toHost[i] # EOL
<1> DEFINE I == {i \in 1..Len(toHost) : toHost[i] = EOL}
<1>1. LineEnd = IF I # {} THEN Min(I) ELSE 0
  BY DEF LineEnd, SelectInSeq
<1>2. CASE I = {}
  BY <1>1, <1>2
<1>3. CASE I # {}
  <2>1. \E x \in I : \A y \in I : x <= y
    BY <1>3, LeastNatural, I \in SUBSET Nat
  <2>2. Min(I) \in I /\ \A y \in I : Min(I) <= y
    BY <2>1 DEF Min
  <2>3. LineEnd \in I /\ \A y \in I : LineEnd <= y
    BY <1>1, <1>3, <2>2
  <2>4. LineEnd \in 1..Len(toHost) /\ toHost[LineEnd] = EOL
    BY <2>3
  <2>5. \A i \in 1..Len(toHost) : i < LineEnd => toHost[i] # EOL
    BY <2>3, <2>4
  <2> QED BY <2>4, <2>5
<1> QED BY <1>2, <1>3

\* What a command makes the dongle do.
LEMMA CommandEffect ==
  ASSUME DongleTypeOK, NEW c, NEW free \in Int
  PROVE  LET e == process_cmd(c, free)
         IN  /\ e.mode \in {"off", "hex", "human"} /\ e.chan \in 0..1
             /\ e.sent = 0 \/ (e.sent = 1 /\ free > 0)
             /\ Harmless(e.print)
<1> DEFINE Fine(e) == /\ e.mode \in {"off", "hex", "human"} /\ e.chan \in 0..1
                      /\ e.sent = 0 \/ (e.sent = 1 /\ free > 0)
                      /\ Harmless(e.print)
<1>1. ASSUME NEW m \in {"off", "hex", "human"}, NEW ch \in 0..1, NEW n, NEW print,
             n = 0 \/ (n = 1 /\ free > 0), Harmless(print)
      PROVE  Fine(Effect(m, ch, n, print))
  BY <1>1 DEF Effect
<1>2. monitor_mode \in {"off", "hex", "human"} /\ cur_chan \in 0..1
  BY DEF DongleTypeOK
<1>3. Harmless(Reply("msg") \o dump_hex([hdr |-> 0, data |-> 0]))
  <2>1. [hdr |-> 0, data |-> 0].hdr \in 0..MaxFrames
    BY DongleBounds
  <2> QED BY <2>1, HexDump, Prints, HarmlessAfterHarmless
<1>4. \/ process_cmd(c, free) = Effect("off", cur_chan, 0, Reply("msg"))
      \/ process_cmd(c, free) = Effect(monitor_mode, cur_chan, 0, Reply("msg"))
      \/ process_cmd(c, free) = Effect("hex", cur_chan, 0, Reply("msg"))
      \/ process_cmd(c, free) = Effect("human", cur_chan, 0, <<Tok("ok1"), Tok("ok2"), EOL>>)
      \/ process_cmd(c, free) = Effect(monitor_mode, 1, 0, <<Tok("msg")>>)
      \/ /\ free > 0
         /\ process_cmd(c, free) = Effect(monitor_mode, cur_chan, 1,
                                     Reply("msg") \o dump_hex([hdr |-> 0, data |-> 0]))
  BY DEF process_cmd, NoEffect
<1> HIDE DEF Fine
<1>5. Fine(process_cmd(c, free))
  BY <1>1, <1>2, <1>3, <1>4, Prints
<1> QED BY <1>5 DEF Fine

LEMMA CharacterEffect ==
  ASSUME DongleTypeOK, NEW c \in TypedTokens, NEW free \in Int
  PROVE  LET s == SerialStep(c, free)
         IN  /\ s.cmd \in Seq(TypedTokens \ {"nl"}) /\ Len(s.cmd) <= CmdMax
             /\ s.effect.mode \in {"off", "hex", "human"} /\ s.effect.chan \in 0..1
             /\ s.effect.sent = 0 \/ (s.effect.sent = 1 /\ free > 0)
             /\ Harmless(s.effect.print)
<1>0. /\ cmd \in Seq(TypedTokens \ {"nl"}) /\ Len(cmd) <= CmdMax
      /\ monitor_mode \in {"off", "hex", "human"} /\ cur_chan \in 0..1
      /\ <<>> \in Seq(TypedTokens \ {"nl"}) /\ Len(<<>>) = 0 /\ CmdMax \in Nat
  BY DongleBounds DEF DongleTypeOK
<1>1. CASE Len(cmd) = CmdMax
  BY <1>0, <1>1, Prints DEF SerialStep, NoEffect, Effect
<1>2. CASE Len(cmd) # CmdMax /\ c = "nl"
  <2> DEFINE e == process_cmd(cmd, free)  f == [e EXCEPT !.print = <<EOL>> \o @]
  <2>1. SerialStep(c, free) = [cmd |-> <<>>, effect |-> f]
    BY <1>2 DEF SerialStep
  <2>2. /\ e.mode \in {"off", "hex", "human"} /\ e.chan \in 0..1
        /\ e.sent = 0 \/ (e.sent = 1 /\ free > 0)
        /\ Harmless(e.print)
    BY CommandEffect
  <2>3. Harmless(<<EOL>> \o e.print)
    BY <2>2, Prints, HarmlessAfterHarmless
  <2>4. /\ f.mode = e.mode /\ f.chan = e.chan /\ f.sent = e.sent
        /\ f.print = <<EOL>> \o e.print
    BY DEF process_cmd, NoEffect, Effect
  <2> HIDE DEF e, f
  <2>5. SerialStep(c, free).cmd = <<>> /\ SerialStep(c, free).effect = f
    BY <2>1
  <2>6. f.mode \in {"off", "hex", "human"} /\ f.chan \in 0..1 /\ Harmless(f.print)
    BY <2>2, <2>3, <2>4
  <2>7. f.sent = 0 \/ (f.sent = 1 /\ free > 0)
    BY <2>2, <2>4
  <2>8. Len(<<>>) <= CmdMax
    BY <1>0
  <2> QED BY <1>0, <2>5, <2>6, <2>7, <2>8
<1>3. CASE Len(cmd) # CmdMax /\ c # "nl"
  <2>1. c \in TypedTokens \ {"nl"} /\ Len(cmd) + 1 <= CmdMax
    BY <1>0, <1>3
  <2>2. Append(cmd, c) \in Seq(TypedTokens \ {"nl"}) /\ Len(Append(cmd, c)) = Len(cmd) + 1
    BY <1>0, <2>1
  <2> QED BY <1>0, <1>3, <2>1, <2>2, Prints DEF SerialStep, NoEffect, Effect
<1> QED BY <1>1, <1>2, <1>3

\* One iteration of main().
LEMMA IterateEffect ==
  ASSUME Types, Iterate
  PROVE  /\ out = <<>>
         /\ pk' = IF rxq # <<>> THEN packet2paquet(Head(rxq), pk) ELSE pk
         /\ rxq' = IF rxq # <<>> THEN Tail(rxq) ELSE rxq
         /\ \E print : /\ Harmless(print)
                       /\ out' = (IF rxq # <<>> THEN Dump(pk') ELSE <<>>) \o print
         /\ toDongle' \in Seq(TypedTokens)
         /\ cmd' \in Seq(TypedTokens \ {"nl"}) /\ Len(cmd') <= CmdMax
         /\ monitor_mode' \in {"off", "hex", "human"} /\ cur_chan' \in 0..1
         /\ tx' \in 0..NumPackets /\ Len(rxq') + tx' <= NumPackets
<1> DEFINE got  == rxq # <<>>
           free == FreePackets + IF got THEN 1 ELSE 0
           step == IF toDongle = <<>>
                     THEN [cmd |-> cmd, effect |-> NoEffect(<<>>)]
                     ELSE SerialStep(Head(toDongle), free)
<1>0. /\ DongleTypeOK /\ toDongle \in Seq(TypedTokens)
      /\ rxq \in Seq(Frames) /\ tx \in 0..NumPackets /\ Len(rxq) + tx <= NumPackets
      /\ NumPackets \in Nat
  BY DongleBounds DEF Types, TypeOK, DongleTypeOK
<1>1. free \in Int /\ free = NumPackets - tx - IF got THEN Len(rxq) - 1 ELSE Len(rxq)
  BY <1>0 DEF FreePackets
<1>2. /\ step.cmd \in Seq(TypedTokens \ {"nl"}) /\ Len(step.cmd) <= CmdMax
      /\ step.effect.mode \in {"off", "hex", "human"} /\ step.effect.chan \in 0..1
      /\ step.effect.sent = 0 \/ (step.effect.sent = 1 /\ free > 0)
      /\ Harmless(step.effect.print)
  <2>1. CASE toDongle = <<>>
    BY <1>0, <2>1, Prints DEF NoEffect, Effect, DongleTypeOK
  <2>2. CASE toDongle # <<>>
    <3>1. Head(toDongle) \in TypedTokens
      BY <1>0, <2>2
    <3> HIDE DEF free
    <3>2. step = SerialStep(Head(toDongle), free)
      BY <2>2
    <3> QED BY <1>0, <1>1, <3>1, <3>2, CharacterEffect
  <2> QED BY <2>1, <2>2
<1>3. /\ out = <<>>
      /\ pk' = IF got THEN packet2paquet(Head(rxq), pk) ELSE pk
      /\ rxq' = IF got THEN Tail(rxq) ELSE rxq
      /\ toDongle' = IF toDongle = <<>> THEN <<>> ELSE Tail(toDongle)
      /\ cmd' = step.cmd /\ monitor_mode' = step.effect.mode
      /\ cur_chan' = step.effect.chan /\ tx' = tx + step.effect.sent
      /\ out' = (IF got THEN Dump(pk') ELSE <<>>) \o step.effect.print
  BY DEF Iterate
<1>4. toDongle' \in Seq(TypedTokens)
  BY <1>0, <1>3
<1>5. Len(rxq') = IF got THEN Len(rxq) - 1 ELSE Len(rxq)
  BY <1>0, <1>3
<1>6. Len(rxq') \in Nat /\ tx \in Nat /\ free = NumPackets - tx - Len(rxq')
  <2> HIDE DEF free
  <2>1. Len(rxq') \in Nat
    BY <1>0, <1>5
  <2> QED BY <1>0, <1>1, <1>5, <2>1
<1> HIDE DEF free, step
<1>7. tx' \in 0..NumPackets /\ Len(rxq') + tx' <= NumPackets
  <2>1. CASE step.effect.sent = 0
    BY <1>0, <1>3, <1>5, <1>6, <2>1
  <2>2. CASE step.effect.sent = 1 /\ free > 0
    <3>1. tx' = tx + 1
      BY <1>3, <2>2
    <3>2. Len(rxq') + tx + 1 <= NumPackets
      BY <1>0, <1>6, <2>2
    <3> QED BY <1>0, <1>6, <3>1, <3>2
  <2> QED BY <1>2, <2>1, <2>2
<1>8. \E print : /\ Harmless(print)
                 /\ out' = (IF rxq # <<>> THEN Dump(pk') ELSE <<>>) \o print
  BY <1>2, <1>3
<1> QED BY <1>2, <1>3, <1>4, <1>7, <1>8
-----------------------------------------------------------------------------
LEMMA UpsetType ==
  ASSUME Types, NEW k \in Upsets, Upset(k)
  PROVE  upsets' \in [Upsets -> 0..MaxUpsets]
<1>1. upsets \in [Upsets -> 0..MaxUpsets]
  BY DEF Types, TypeOK
<1>2. \A j \in Upsets : upsets[j] \in Nat
  BY <1>1, LinkBounds
<1>3. upsets[k] <= AllUpsets /\ AllUpsets \in Nat
  BY <1>2 DEF Upsets, AllUpsets
<1>4. upsets[k] + 1 \in 0..MaxUpsets
  BY <1>2, <1>3, LinkBounds DEF Upset
<1> QED BY <1>1, <1>4 DEF Upset

LEMMA SourceType ==
  ASSUME NEW s \in Seq(Signal)
  PROVE  \A i \in DOMAIN s : s[i].src \in Nat
<1>1. \A i \in DOMAIN s : s[i] \in Signal
  OBVIOUS
<1>2. \A x \in Signal : x.src \in Nat
  BY DongleBounds DEF Signal
<1> QED BY <1>1, <1>2

LEMMA DongleTypes ==
  ASSUME Types, DongleNext, UNCHANGED bridge
  PROVE  Types'
<1>0. /\ MaxFrames \in Nat /\ NumPackets \in Nat /\ LinkMax \in Nat
      /\ signals' \in Seq(Signal) /\ BridgeTypeOK'
  BY DongleBounds, LinkBounds DEF Types, TypeOK, BridgeTypeOK, bridge
<1>1. CASE Iterate
  <2>1. pk' \in [hdr : 0..MaxFrames, data : 0..MaxFrames] /\ rxq' \in Seq(Frames)
    <3>1. CASE rxq = <<>>
      BY <1>1, <3>1, IterateEffect DEF Types, TypeOK, DongleTypeOK
    <3>2. CASE rxq # <<>>
      <4>1. Head(rxq) \in Frames /\ Tail(rxq) \in Seq(Frames)
        BY <3>2 DEF Types, TypeOK, DongleTypeOK
      <4>2. Head(rxq).id \in 0..MaxFrames
        BY <1>0, <4>1 DEF Frames
      <4>3. packet2paquet(Head(rxq), pk) \in [hdr : 0..MaxFrames, data : 0..MaxFrames]
        BY <1>0, <4>2 DEF packet2paquet, Types, TypeOK, DongleTypeOK
      <4> QED BY <1>1, <3>2, <4>1, <4>3, IterateEffect
    <3> QED BY <3>1, <3>2
  <2>2. out' \in Seq(Token)
    <3>1. PICK print : /\ Harmless(print)
                       /\ out' = (IF rxq # <<>> THEN Dump(pk') ELSE <<>>) \o print
      BY <1>1, IterateEffect
    <3>2. monitor_mode \in {"off", "hex", "human"} /\ <<>> \in Seq(Token)
      BY DEF Types, TypeOK, DongleTypeOK
    <3>3. \A p \in [hdr : 0..MaxFrames, data : 0..MaxFrames] : dump_human(p) \in Seq(Token)
      <4> SUFFICES ASSUME NEW p \in [hdr : 0..MaxFrames, data : 0..MaxFrames]
                   PROVE  dump_human(p) \in Seq(Token)
        OBVIOUS
      <4>1. /\ <<"rx", p.hdr>> \in Token /\ <<"hdr", p.hdr>> \in Token
            /\ <<"fa", p.data>> \in Token /\ <<"fo", p.data>> \in Token
            /\ <<"fb", p.data>> \in Token /\ EOL \in Token
        BY DEF Token, HostTokens, FrameTokens, EOL, Tok
      <4> QED BY <4>1 DEF dump_human
    <3>4. \A p \in [hdr : 0..MaxFrames, data : 0..MaxFrames] : dump_hex(p) \in Seq(Token)
      BY HexDump DEF Harmless
    <3>5. Dump(pk') \in Seq(Token)
      BY <2>1, <3>2, <3>3, <3>4 DEF Dump
    <3>6. print \in Seq(Token)
      BY <3>1 DEF Harmless
    <3> QED BY <3>1, <3>2, <3>5, <3>6
  <2>3. UNCHANGED <<heard, toHost, opened, upsets>>
    BY <1>1 DEF Iterate
  <2>4. DongleTypeOK'
    BY <1>1, <2>1, <2>2, <2>3, IterateEffect DEF Types, TypeOK, DongleTypeOK, Token
  <2>5. toDongle' \in Seq(TypedTokens)
    BY <1>1, IterateEffect
  <2> QED BY <1>0, <2>3, <2>4, <2>5 DEF Types, TypeOK, bridge
<1>2. CASE UartSend
  <2>1. out \in Seq(Token) /\ out # <<>> /\ toHost \in Seq(Token)
    BY <1>2 DEF UartSend, Types, TypeOK, DongleTypeOK, Token
  <2>2. Head(out) \in Token /\ Tail(out) \in Seq(Token)
    BY <2>1
  <2>3. /\ toHost \o <<Head(out)>> \in Seq(Token)
        /\ Len(toHost \o <<Head(out)>>) = Len(toHost) + 1
    BY <2>1, <2>2
  <2>4. toHost' \in Seq(Token) /\ Len(toHost') <= LinkMax
    BY <1>0, <1>2, <2>1, <2>3 DEF UartSend, Sent, Types, TypeOK
  <2>5. DongleTypeOK'
    BY <1>2, <2>2 DEF UartSend, Types, TypeOK, DongleTypeOK, Token
  <2> QED BY <1>0, <1>2, <2>4, <2>5 DEF UartSend, Types, TypeOK, bridge, Token
<1>3. CASE KeyInterrupt
  <2>1. toHost \in Seq(Token) /\ Reply("msg") \in Seq(Token) /\ Len(Reply("msg")) = 2
    BY SimpleTokens DEF Types, TypeOK, Token, Reply, EOL
  <2>2. /\ toHost \o Reply("msg") \in Seq(Token)
        /\ Len(toHost \o Reply("msg")) = Len(toHost) + 2
    <3> DEFINE r == Reply("msg")
    <3> HIDE DEF r
    <3>1. toHost \o r \in Seq(Token) /\ Len(toHost \o r) = Len(toHost) + Len(r)
      BY <2>1, Joined DEF r
    <3> QED BY <2>1, <3>1 DEF r
  <2>3. toHost' \in Seq(Token) /\ Len(toHost') <= LinkMax
    BY <1>0, <1>3, <2>1, <2>2 DEF KeyInterrupt, Sent, Types, TypeOK
  <2>4. upsets' \in [Upsets -> 0..MaxUpsets]
    BY <1>3, UpsetType DEF KeyInterrupt, Upsets
  <2>5. DongleTypeOK' /\ UNCHANGED <<toDongle, opened>>
    BY <1>3 DEF KeyInterrupt, Types, TypeOK, DongleTypeOK, dongle
  <2> QED BY <1>0, <2>3, <2>4, <2>5 DEF Types, TypeOK, bridge, Token
<1>4. CASE MacaRx
  <2>0. /\ heard \in 0..MaxFrames /\ heard < MaxFrames /\ heard' = heard + 1
        /\ rxq \in Seq(Frames) /\ tx \in 0..NumPackets
        /\ NumPackets - Len(rxq) - tx > 0
    BY <1>4 DEF MacaRx, FreePackets, Types, TypeOK, DongleTypeOK
  <2>1. PICK k \in {"sensor", "short"} : rxq' = Append(rxq, [id |-> heard + 1, kind |-> k])
    BY <1>4 DEF MacaRx
  <2>2. [id |-> heard + 1, kind |-> k] \in Frames /\ heard' \in 0..MaxFrames
    BY <1>0, <2>0 DEF Frames
  <2>3. rxq' \in Seq(Frames) /\ Len(rxq') = Len(rxq) + 1
    BY <2>0, <2>1, <2>2
  <2>4. Len(rxq') + tx <= NumPackets
    BY <1>0, <2>0, <2>3
  <2>5. DongleTypeOK'
    BY <1>4, <2>2, <2>3, <2>4 DEF MacaRx, Types, TypeOK, DongleTypeOK
  <2> QED BY <1>0, <1>4, <2>5 DEF MacaRx, Types, TypeOK, bridge, link
<1>5. CASE MacaTxDone
  <2>1. tx' \in 0..NumPackets /\ Len(rxq) + tx' <= NumPackets
    <3>1. Len(rxq) \in Nat /\ tx \in 0..NumPackets /\ Len(rxq) + tx <= NumPackets
      BY DEF Types, TypeOK, DongleTypeOK
    <3> QED BY <1>0, <1>5, <3>1 DEF MacaTxDone
  <2>2. DongleTypeOK'
    BY <1>5, <2>1 DEF MacaTxDone, Types, TypeOK, DongleTypeOK
  <2> QED BY <1>0, <1>5, <2>2 DEF MacaTxDone, Types, TypeOK, bridge, link
<1>6. CASE DongleReset
  <2>1. upsets' \in [Upsets -> 0..MaxUpsets]
    BY <1>6, UpsetType DEF DongleReset, Upsets
  <2>2. Reply("msg") \in Seq(Token)
    BY SimpleTokens DEF Reply, EOL
  <2>3. /\ <<>> \in Seq(Frames) /\ <<>> \in Seq(TypedTokens \ {"nl"})
        /\ <<>> \in Seq(TypedTokens) /\ Len(<<>>) = 0
    OBVIOUS
  <2>4. DongleTypeOK'
    BY <1>0, <1>6, <2>2, <2>3, DongleBounds DEF DongleReset, Types, TypeOK, DongleTypeOK, Token
  <2> QED BY <1>0, <1>6, <2>1, <2>3, <2>4 DEF DongleReset, Types, TypeOK, bridge
<1> QED BY <1>1, <1>2, <1>3, <1>4, <1>5, <1>6 DEF DongleNext

\* The line that oflbridge reads, and what it leaves.
LEMMA LineType ==
  ASSUME Types, LineEnd > 0
  PROVE  /\ Line \in Seq(Token) /\ Len(Line) = LineEnd
         /\ \A i \in 1..LineEnd : Line[i] = toHost[i]
         /\ AfterLine \in Seq(Token) /\ Len(AfterLine) = Len(toHost) - LineEnd
         /\ \A i \in 1..Len(AfterLine) : AfterLine[i] = toHost[LineEnd + i]
<1>1. toHost \in Seq(Token) /\ LineEnd \in 1..Len(toHost)
  BY LineEndIsFirst DEF Types, TypeOK, Token
<1> QED BY <1>1 DEF Line, AfterLine

\* Packet::initialize: the fields of the message are those that follow the
\* header.
LEMMA MessageOfLine ==
  ASSUME Types, LineEnd > 0
  PROVE  /\ initialize(Line) \in Signal
         /\ \A j \in 1..Len(initialize(Line).msg) :
              /\ LineEnd > 2 /\ j + 2 \in 1..LineEnd - 1
              /\ initialize(Line).msg[j] = toHost[j + 2]
              /\ toHost[2][1] = "hdr" /\ initialize(Line).src = toHost[2][2]
<1>1. /\ Line \in Seq(Token) /\ Len(Line) = LineEnd /\ LineEnd \in Nat
      /\ \A i \in 1..LineEnd : Line[i] = toHost[i]
  BY LineType, LineEndIsFirst DEF Types, TypeOK, Token
<1>2. CASE Len(Line) > 1 /\ Line[2][1] = "hdr"
  <2> DEFINE m == SubSeq(Line, 3, LineEnd - 1)
  <2>1. initialize(Line) = [src |-> Line[2][2], msg |-> m]
    BY <1>1, <1>2 DEF initialize
  <2>2. Line[2] \in Token /\ Line[2] = toHost[2]
    BY <1>1, <1>2
  <2>3. /\ m \in Seq(Token) /\ Len(m) = IF LineEnd > 2 THEN LineEnd - 3 ELSE 0
        /\ \A j \in 1..Len(m) : m[j] = Line[j + 2]
    BY <1>1, <1>2
  <2> HIDE DEF m
  <2>4. \A j \in 1..Len(m) : LineEnd > 2 /\ j + 2 \in 1..LineEnd - 1 /\ m[j] = toHost[j + 2]
    BY <1>1, <2>3
  <2>5. Line[2][2] \in 0..MaxFrames
    BY <2>2, TokenType
  <2> QED BY <1>2, <2>1, <2>2, <2>3, <2>4, <2>5 DEF Signal
<1>3. CASE ~(Len(Line) > 1 /\ Line[2][1] = "hdr")
  <2>1. initialize(Line) = [src |-> 0, msg |-> <<>>]
    BY <1>3 DEF initialize
  <2>2. <<>> \in Seq(Token) /\ 0 \in 0..MaxFrames /\ Len(<<>>) = 0 /\ 1..0 = {}
    BY DongleBounds
  <2> QED BY <2>1, <2>2 DEF Signal
<1> QED BY <1>2, <1>3

\* A read that gives up takes the first tokens of what has arrived.
LEMMA TooLong ==
  ASSUME TypeOK, LineTooLong
  PROVE  \E n \in 1..Len(toHost) : toHost' = SubSeq(toHost, n + 1, Len(toHost))
<1>1. toHost \in Seq(Token) /\ Len(toHost) \in Nat /\ LineEnd \in 0..Len(toHost)
  BY LineEndIsFirst DEF TypeOK, Token
<1> DEFINE arrived == IF LineEnd = 0 THEN Len(toHost) ELSE LineEnd - 1
<1>2. arrived \in 0..Len(toHost)
  BY <1>1
<1>3. PICK n \in 1..arrived : toHost' = SubSeq(toHost, n + 1, Len(toHost))
  BY DEF LineTooLong
<1>4. n \in 1..Len(toHost)
  BY <1>1, <1>2
<1> QED BY <1>3, <1>4

LEMMA BridgeTypes ==
  ASSUME Types, BridgeNext, UNCHANGED dongle
  PROVE  Types'
<1>0. /\ toHost \in Seq(Token) /\ Len(toHost) <= LinkMax /\ LinkMax \in Nat
      /\ signals \in Seq(Signal) /\ toDongle \in Seq(TypedTokens)
      /\ state \in 0..3 /\ connected \in BOOLEAN /\ opened = (state # 0)
      /\ upsets \in [Upsets -> 0..MaxUpsets] /\ DongleTypeOK'
      /\ <<>> \in Seq(Token) /\ Len(<<>>) = 0
  BY LinkBounds DEF Types, TypeOK, BridgeTypeOK, DongleTypeOK, dongle, Token
<1>1. ASSUME signals' \in Seq(Signal), toHost' \in Seq(Token), Len(toHost') <= LinkMax,
             toDongle' \in Seq(TypedTokens), state' \in 0..3, connected' \in BOOLEAN,
             opened' = (state' # 0), upsets' \in [Upsets -> 0..MaxUpsets]
      PROVE  Types'
  <2>1. \A i \in DOMAIN signals' : signals'[i].src \in Nat
    BY <1>1, SourceType
  <2> QED BY <1>0, <1>1, <2>1 DEF Types, TypeOK, BridgeTypeOK, Token
<1>2. CASE Open
  <2>1. opened' = (state' # 0)
    <3>1. opened' = TRUE /\ state' = 1
      BY <1>2 DEF Open
    <3>2. (state' # 0) = TRUE
      BY <3>1
    <3> QED BY <3>1, <3>2, Zenon
  <2> QED BY <1>0, <1>1, <1>2, <2>1 DEF Open
<1>3. CASE WriteCommand
  <2>1. toDongle \o <<"dh1", "dh2", "nl">> \in Seq(TypedTokens)
    BY <1>0 DEF TypedTokens
  <2> QED BY <1>0, <1>1, <1>3, <2>1 DEF WriteCommand
<1>4. CASE WriteFails
  <2>1. opened' = (state' # 0)
    <3>1. opened' = FALSE /\ state' = 0
      BY <1>4 DEF WriteFails
    <3>2. (state' # 0) = FALSE
      BY <3>1
    <3> QED BY <3>1, <3>2, Zenon
  <2> QED BY <1>0, <1>1, <1>4, <2>1 DEF WriteFails
<1>5. ASSUME LineEnd > 0
      PROVE  AfterLine \in Seq(Token) /\ Len(AfterLine) <= LinkMax
  <2>1. LineEnd \in Nat /\ Len(toHost) \in Nat
    BY <1>0, LineEndIsFirst
  <2> QED BY <1>0, <1>5, <2>1, LineType
<1>6. CASE AwaitOK
  <2>1. AfterLine \in Seq(Token) /\ Len(AfterLine) <= LinkMax
    BY <1>5, <1>6 DEF AwaitOK
  <2> QED BY <1>0, <1>1, <1>6, <2>1 DEF AwaitOK
<1>7. CASE Listen
  <2>1. /\ AfterLine \in Seq(Token) /\ Len(AfterLine) <= LinkMax
        /\ initialize(Line) \in Signal
    BY <1>5, <1>7, MessageOfLine DEF Listen
  <2>2. signals' \in Seq(Signal)
    BY <1>0, <1>7, <2>1 DEF Listen
  <2> QED BY <1>0, <1>1, <1>7, <2>1, <2>2 DEF Listen
<1>8. CASE ReadTimesOut
  <2>1. upsets' \in [Upsets -> 0..MaxUpsets]
    BY <1>8, UpsetType DEF ReadTimesOut, Upsets
  <2> QED BY <1>0, <1>1, <1>8, <2>1 DEF ReadTimesOut, bridge
<1>13. CASE LineTooLong
  <2>1. PICK n \in 1..Len(toHost) : toHost' = SubSeq(toHost, n + 1, Len(toHost))
    BY <1>13, TooLong DEF Types
  <2>2. Len(toHost) \in Nat
    BY <1>0
  <2>3. toHost' \in Seq(Token) /\ Len(toHost') = Len(toHost) - n
    BY <1>0, <2>1, <2>2
  <2> QED BY <1>0, <1>1, <1>13, <2>2, <2>3 DEF LineTooLong, bridge
<1>9. CASE Connect
  BY <1>0, <1>1, <1>9 DEF Connect, link
<1>10. CASE insertPacket
  <2>1. signals' \in Seq(Signal)
    BY <1>0, <1>10 DEF insertPacket
  <2> QED BY <1>0, <1>1, <1>10, <2>1 DEF insertPacket, link
<1>11. CASE Restart
  <2>1. upsets' \in [Upsets -> 0..MaxUpsets]
    BY <1>11, UpsetType DEF Restart, Upsets
  <2>2. <<>> \in Seq(Signal)
    OBVIOUS
  <2>3. opened' = (state' # 0)
    <3>1. opened' = FALSE /\ state' = 0
      BY <1>11 DEF Restart
    <3>2. (state' # 0) = FALSE
      BY <3>1
    <3> QED BY <3>1, <3>2, Zenon
  <2>4. connected' \in BOOLEAN
    BY <1>11 DEF Restart
  <2> QED BY <1>0, <1>1, <1>11, <2>1, <2>2, <2>3, <2>4 DEF Restart
<1>12. CASE Type
  <2>1. upsets' \in [Upsets -> 0..MaxUpsets]
    BY <1>12, UpsetType DEF Type, Upsets
  <2>2. PICK t \in TypedTokens : toDongle' \in {Append(toDongle, t), toDongle \o <<t, "nl">>}
    BY <1>12 DEF Type
  <2>3. toDongle' \in Seq(TypedTokens)
    <3>1. <<t, "nl">> \in Seq(TypedTokens)
      BY DEF TypedTokens
    <3>2. /\ Append(toDongle, t) \in Seq(TypedTokens)
          /\ toDongle \o <<t, "nl">> \in Seq(TypedTokens)
      BY <1>0, <3>1
    <3> QED BY <2>2, <3>2
  <2> QED BY <1>0, <1>1, <1>12, <2>1, <2>3 DEF Type, bridge
<1> QED BY <1>2, <1>3, <1>4, <1>6, <1>7, <1>8, <1>9, <1>10, <1>11, <1>12, <1>13
        DEF BridgeNext
-----------------------------------------------------------------------------
LEMMA FieldsType ==
  ASSUME NEW s \in Seq(Token)
  PROVE  Fields(s) \subseteq Int
<1>1. \A i \in 1..Len(s) : IsField(s[i]) => ValueOf(s[i]) \in Int
  BY TokenType
<1> QED BY <1>1 DEF Fields

LEMMA SignalFields ==
  ASSUME NEW sigs \in Seq(Signal)
  PROVE  \A i \in 1..Len(sigs) :
           /\ sigs[i] \in Signal /\ sigs[i].msg \in Seq(Token)
           /\ Fields(sigs[i].msg) \subseteq Int
<1>1. \A i \in 1..Len(sigs) : sigs[i] \in Signal
  OBVIOUS
<1>2. \A x \in Signal : x.msg \in Seq(Token)
  BY DEF Signal
<1> QED BY <1>1, <1>2, FieldsType

LEMMA WireType ==
  ASSUME Types
  PROVE  /\ toHost \in Seq(Token) /\ out \in Seq(Token) /\ Wire \in Seq(Token)
         /\ Fields(Wire) \subseteq Int
         /\ Len(rxq) \in Nat /\ heard \in Nat /\ Printed \in Int
<1>1. /\ toHost \in Seq(Token) /\ out \in Seq(Token) /\ rxq \in Seq(Frames)
      /\ heard \in Nat
  BY DongleBounds DEF Types, TypeOK, DongleTypeOK, Token
<1>2. Wire \in Seq(Token)
  BY <1>1 DEF Wire
<1>3. Len(rxq) \in Nat /\ Printed \in Int
  BY <1>1 DEF Printed
<1> QED BY <1>1, <1>2, <1>3, FieldsType

LEMMA NextWireType ==
  ASSUME Types'
  PROVE  /\ toHost' \in Seq(Token) /\ out' \in Seq(Token) /\ Wire' \in Seq(Token)
         /\ Fields(Wire') \subseteq Int
         /\ Len(rxq') \in Nat /\ heard' \in Nat /\ Printed' \in Int
<1>1. /\ toHost' \in Seq(Token) /\ out' \in Seq(Token) /\ rxq' \in Seq(Frames)
      /\ heard' \in Nat
  BY DongleBounds DEF Types, TypeOK, DongleTypeOK, Token
<1>2. Wire' \in Seq(Token)
  BY <1>1 DEF Wire
<1>3. Len(rxq') \in Nat /\ Printed' \in Int
  BY <1>1 DEF Printed
<1> QED BY <1>1, <1>2, <1>3, FieldsType

\* Values may leave the wire, and new ones come onto it above the old top.
LEMMA OrderKept ==
  ASSUME NEW wire \in SUBSET Int, NEW sigs \in Seq(Signal), NEW post \in Seq(Int),
         NEW top \in Int, NEW more \in SUBSET Int, NEW limit \in Int,
         Ordered(wire, sigs, post, top), top <= limit,
         \A u \in more : u \in wire \/ (top < u /\ u <= limit)
  PROVE  Ordered(more, sigs, post, limit)
<1>1. \A i \in 1..Len(sigs) : Fields(sigs[i].msg) \subseteq Int
  BY SignalFields
<1>2. \A p \in 1..Len(post) : post[p] \in Int
  OBVIOUS
<1>3. \A u \in more : u <= limit
  BY DEF Ordered
<1>4. ASSUME NEW i \in 1..Len(sigs), NEW v \in Fields(sigs[i].msg)
      PROVE  v <= limit /\ \A u \in more : v < u
  <2>1. v \in Int /\ v <= top /\ \A u \in wire : v < u
    BY <1>1 DEF Ordered
  <2> QED BY <2>1
<1>5. ASSUME NEW p \in 1..Len(post)
      PROVE  post[p] <= limit /\ \A u \in more : post[p] < u
  <2>1. post[p] \in Int /\ post[p] <= top /\ \A u \in wire : post[p] < u
    BY <1>2 DEF Ordered
  <2> QED BY <2>1
<1> QED BY <1>3, <1>4, <1>5 DEF Ordered

LEMMA Doubling ==
  \A a, b \in Int : a <= b => 2 * a \in Int /\ 2 * b \in Int /\ 2 * a <= 2 * b
OBVIOUS

LEMMA NextValues ==
  ASSUME NEW a \in Int, NEW b, b = a + 1
  PROVE  /\ 2 * a \in Int /\ 2 * b \in Int /\ 2 * a <= 2 * b
         /\ 2 * b - 1 = 2 * a + 1 /\ 2 * b = 2 * a + 2
         /\ \A v \in Int, u \in {2 * a + 1, 2 * a + 2} : v <= 2 * a => v < u
         /\ \A u \in {2 * a + 1, 2 * a + 2} : 2 * a < u /\ u <= 2 * b
OBVIOUS

\* A step that neither signals nor posts, and prints nothing new.
LEMMA FlowKept ==
  ASSUME IInv, Types', UNCHANGED <<signals, posted>>,
         Len(rxq') <= heard', \A i \in 1..Len(rxq') : rxq'[i].id = Printed' + i,
         ~opened' => toHost' = <<>>,
         Printed <= Printed', Whole(Wire'), Fields(Wire') \subseteq Fields(Wire)
  PROVE  Flow'
<1>1. /\ Fields(Wire) \in SUBSET Int /\ Fields(Wire') \in SUBSET Int
      /\ Printed \in Int /\ Printed' \in Int
      /\ signals \in Seq(Signal) /\ posted \in Seq(Int)
  BY WireType, NextWireType DEF IInv, Types, Flow
<1>2. 2 * Printed \in Int /\ 2 * Printed' \in Int /\ 2 * Printed <= 2 * Printed'
  BY <1>1, Doubling, Zenon
<1>0. Ordered(Fields(Wire), signals, posted, 2 * Printed)
  BY DEF IInv, Flow
<1>3. Ordered(Fields(Wire'), signals, posted, 2 * Printed')
  BY <1>0, <1>1, <1>2, OrderKept
<1>4. RightSource'
  BY DEF IInv, Flow, RightSource
<1> QED BY <1>1, <1>3, <1>4 DEF Flow

\* The first n tokens of what oflbridge has not read are gone.
LEMMA WireSuffix ==
  ASSUME IInv, Types', NEW n \in 0..Len(toHost), out' = out,
         Len(toHost') = Len(toHost) - n,
         \A i \in 1..Len(toHost') : toHost'[i] = toHost[n + i]
  PROVE  /\ Whole(Wire') /\ Fields(Wire') \subseteq Fields(Wire)
         /\ Len(Wire') = Len(Wire) - n
         /\ \A i \in 1..Len(Wire') : Wire'[i] = Wire[n + i]
<1>1. /\ toHost \in Seq(Token) /\ toHost' \in Seq(Token) /\ out \in Seq(Token)
      /\ Wire \in Seq(Token) /\ Wire' \in Seq(Token)
      /\ Len(toHost) \in Nat /\ Len(out) \in Nat
  BY WireType, NextWireType DEF IInv
<1>2. /\ Len(Wire) = Len(toHost) + Len(out)
      /\ \A i \in 1..Len(toHost) : Wire[i] = toHost[i]
      /\ \A i \in Len(toHost) + 1..Len(toHost) + Len(out) : Wire[i] = out[i - Len(toHost)]
  BY <1>1, Joined DEF Wire
<1>3. /\ Len(Wire') = Len(toHost') + Len(out)
      /\ \A i \in 1..Len(toHost') : Wire'[i] = toHost'[i]
      /\ \A i \in Len(toHost') + 1..Len(toHost') + Len(out) :
           Wire'[i] = out[i - Len(toHost')]
  <2>1. Wire' = toHost' \o out
    BY DEF Wire
  <2> DEFINE h == toHost'
  <2>2. h \in Seq(Token) /\ out \in Seq(Token) /\ Wire' = h \o out
    BY <1>1, <2>1
  <2> HIDE DEF h
  <2>3. /\ Len(h \o out) = Len(h) + Len(out)
        /\ \A i \in 1..Len(h) : (h \o out)[i] = h[i]
        /\ \A i \in Len(h) + 1..Len(h) + Len(out) : (h \o out)[i] = out[i - Len(h)]
    BY <2>2, Joined
  <2> QED BY <2>2, <2>3 DEF h
<1>4. \A i \in 1..Len(Wire') : Wire'[i] = Wire[n + i]
  <2> SUFFICES ASSUME NEW i \in 1..Len(Wire') PROVE Wire'[i] = Wire[n + i]
    OBVIOUS
  <2>1. CASE i <= Len(toHost')
    <3>1. n + i \in 1..Len(toHost) /\ i \in 1..Len(toHost')
      BY <1>1, <2>1
    <3> QED BY <1>2, <1>3, <3>1
  <2>2. CASE i > Len(toHost')
    <3>1. /\ i \in Len(toHost') + 1..Len(toHost') + Len(out)
          /\ n + i \in Len(toHost) + 1..Len(toHost) + Len(out)
          /\ n + i - Len(toHost) = i - Len(toHost')
      BY <1>1, <1>3, <2>2
    <3>2. Wire'[i] = out[i - Len(toHost')] /\ Wire[n + i] = out[n + i - Len(toHost)]
      BY <1>2, <1>3, <3>1
    <3> QED BY <3>1, <3>2
  <2> QED BY <1>1, <2>1, <2>2
<1>5. n \in 0..Len(Wire) /\ Len(Wire') = Len(Wire) - n
  BY <1>1, <1>2, <1>3
<1> QED BY <1>1, <1>4, <1>5, Suffix DEF IInv, Flow

\* The port is closed, or a read gives up: all of it is gone.
LEMMA WireCleared ==
  ASSUME IInv, Types', out' = out, toHost' = <<>>
  PROVE  Whole(Wire') /\ Fields(Wire') \subseteq Fields(Wire)
<1>1. Len(toHost) \in Nat /\ Len(toHost) \in 0..Len(toHost)
  BY WireType DEF IInv
<1>2. Len(toHost') = Len(toHost) - Len(toHost) /\ 1..Len(toHost') = {}
  BY <1>1
<1>3. \A i \in 1..Len(toHost') : toHost'[i] = toHost[Len(toHost) + i]
  BY <1>2
<1> QED BY <1>1, <1>2, <1>3, WireSuffix

LEMMA UartSendFlow ==
  ASSUME IInv, Types', UartSend, UNCHANGED bridge
  PROVE  Flow'
<1>1. /\ out # <<>> /\ out' = Tail(out) /\ toHost' = Sent(<<Head(out)>>)
      /\ UNCHANGED <<heard, rxq, opened, signals, posted>>
  BY DEF UartSend, bridge
<1>2. /\ toHost \in Seq(Token) /\ out \in Seq(Token) /\ Wire \in Seq(Token)
      /\ Wire' \in Seq(Token) /\ Printed \in Int
  BY WireType, NextWireType DEF IInv
<1>3. Whole(Wire') /\ Fields(Wire') \subseteq Fields(Wire)
  <2>1. CASE opened
    <3>1. Wire' = Wire
      <4> DEFINE h == <<Head(out)>>  t == Tail(out)
      <4>1. h \in Seq(Token) /\ t \in Seq(Token) /\ out = h \o t
        BY <1>1, <1>2
      <4> HIDE DEF h, t
      <4>2. (toHost \o h) \o t = toHost \o (h \o t)
        BY <1>2, <4>1, ConcatAssociative
      <4>3. Wire' = (toHost \o h) \o t
        BY <1>1, <2>1 DEF Wire, Sent, h, t
      <4> QED BY <4>1, <4>2, <4>3 DEF Wire
    <3> QED BY <3>1 DEF IInv, Flow
  <2>2. CASE ~opened
    <3>1. toHost = <<>> /\ toHost' = <<>>
      BY <1>1, <2>2 DEF IInv, Flow, Sent
    <3>2. Wire = out /\ Wire' = Tail(out)
      <4>1. Tail(out) \in Seq(Token)
        BY <1>1, <1>2
      <4>2. Wire = <<>> \o out /\ Wire' = <<>> \o Tail(out)
        BY <1>1, <3>1 DEF Wire
      <4> QED BY <1>2, <4>1, <4>2, ConcatEmptySeq
    <3>3. /\ Len(Wire') = Len(Wire) - 1 /\ 1 \in 0..Len(Wire)
          /\ \A i \in 1..Len(Wire') : Wire'[i] = Wire[1 + i]
      BY <1>1, <1>2, <3>2
    <3> QED BY <1>2, <3>3, Suffix DEF IInv, Flow
  <2> QED BY <2>1, <2>2
<1>4. ~opened' => toHost' = <<>>
  BY <1>1 DEF Sent, IInv, Flow
<1>5. Printed' = Printed /\ Len(rxq') = Len(rxq) /\ Printed <= Printed'
  BY <1>1, <1>2 DEF Printed
<1>6. Len(rxq') <= heard' /\ \A i \in 1..Len(rxq') : rxq'[i].id = Printed' + i
  BY <1>1, <1>5 DEF IInv, Flow
<1> QED BY <1>1, <1>3, <1>4, <1>5, <1>6, FlowKept

LEMMA KeyInterruptFlow ==
  ASSUME IInv, Types', KeyInterrupt, UNCHANGED bridge
  PROVE  Flow'
<1>1. /\ toHost' = Sent(Reply("msg"))
      /\ UNCHANGED <<heard, rxq, out, opened, signals, posted>>
  BY DEF KeyInterrupt, bridge, dongle
<1>2. toHost \in Seq(Token) /\ out \in Seq(Token) /\ Printed \in Int
  BY WireType DEF IInv
<1>3. Whole(Wire') /\ Fields(Wire') \subseteq Fields(Wire)
  <2>1. CASE opened
    <3>1. Wire' = (toHost \o Reply("msg")) \o out
      BY <1>1, <2>1 DEF Wire, Sent
    <3>2. Whole(toHost \o out) /\ out \in {out, <<>>}
      BY DEF IInv, Flow, Wire
    <3> QED BY <1>2, <3>1, <3>2, OwnLine DEF Wire
  <2>2. CASE ~opened
    <3>1. Wire' = Wire
      BY <1>1, <2>2 DEF Wire, Sent
    <3> QED BY <3>1 DEF IInv, Flow
  <2> QED BY <2>1, <2>2
<1>4. ~opened' => toHost' = <<>>
  BY <1>1 DEF Sent, IInv, Flow
<1>5. Printed' = Printed /\ Len(rxq') = Len(rxq) /\ Printed <= Printed'
  BY <1>1, <1>2 DEF Printed
<1>6. Len(rxq') <= heard' /\ \A i \in 1..Len(rxq') : rxq'[i].id = Printed' + i
  BY <1>1, <1>5 DEF IInv, Flow
<1> QED BY <1>1, <1>3, <1>4, <1>5, <1>6, FlowKept

LEMMA MacaRxFlow ==
  ASSUME IInv, Types', MacaRx, UNCHANGED bridge
  PROVE  Flow'
<1>1. PICK k \in {"sensor", "short"} : rxq' = Append(rxq, [id |-> heard + 1, kind |-> k])
  BY DEF MacaRx
<1>2. heard' = heard + 1 /\ UNCHANGED <<toHost, out, opened, signals, posted>>
  BY DEF MacaRx, link, bridge
<1>3. /\ rxq \in Seq(Frames) /\ Len(rxq) \in Nat /\ heard \in Nat
      /\ Len(rxq) <= heard /\ \A i \in 1..Len(rxq) : rxq[i].id = Printed + i
  BY WireType DEF IInv, Flow, Types, TypeOK, DongleTypeOK
<1> DEFINE f == [id |-> heard + 1, kind |-> k]
<1>4. f.id = heard + 1
  OBVIOUS
<1> HIDE DEF f
<1>5. /\ Len(rxq') = Len(rxq) + 1 /\ rxq'[Len(rxq) + 1] = f
      /\ \A i \in 1..Len(rxq) : rxq'[i] = rxq[i]
  BY <1>1, <1>3 DEF f
<1>6. Printed' = Printed /\ Printed \in Int /\ Printed + (Len(rxq) + 1) = heard + 1
  BY <1>2, <1>3, <1>5 DEF Printed
<1>7. \A i \in 1..Len(rxq') : rxq'[i].id = Printed' + i
  BY <1>3, <1>4, <1>5, <1>6
<1>8. Wire' = Wire
  BY <1>2 DEF Wire
<1>9. Whole(Wire') /\ Fields(Wire') \subseteq Fields(Wire) /\ (~opened' => toHost' = <<>>)
  BY <1>2, <1>8 DEF IInv, Flow
<1>10. Len(rxq') <= heard' /\ Printed <= Printed'
  BY <1>2, <1>3, <1>5, <1>6
<1> QED BY <1>2, <1>7, <1>9, <1>10, FlowKept

\* A step that changes neither the frames, the wire nor what follows it.
LEMMA QuietFlow ==
  ASSUME IInv, Types', UNCHANGED <<heard, rxq, toHost, out, signals, posted>>,
         opened' = opened \/ opened'
  PROVE  Flow'
<1>1. Wire' = Wire /\ Printed' = Printed
  BY DEF Wire, Printed
<1>2. Printed <= Printed'
  BY <1>1, WireType DEF IInv
<1> QED BY <1>1, <1>2, FlowKept DEF IInv, Flow

LEMMA DongleResetFlow ==
  ASSUME IInv, Types', DongleReset, UNCHANGED bridge
  PROVE  Flow'
<1>1. /\ out' = Reply("msg") /\ rxq' = <<>>
      /\ UNCHANGED <<heard, toHost, opened, signals, posted>>
  BY DEF DongleReset, bridge
<1>2. /\ toHost \in Seq(Token) /\ out \in Seq(Token) /\ Printed \in Int
      /\ Len(rxq) \in Nat /\ heard \in Nat
  BY WireType DEF IInv
<1>3. Whole(Wire') /\ Fields(Wire') \subseteq Fields(Wire)
  <2>1. Reply("msg") \in Seq(Token) /\ Whole(toHost \o out) /\ <<>> \in {out, <<>>}
    BY Prints DEF Harmless, IInv, Flow, Wire
  <2>2. /\ Whole((toHost \o Reply("msg")) \o <<>>)
        /\ Fields((toHost \o Reply("msg")) \o <<>>) \subseteq Fields(toHost \o out)
    BY <1>2, <2>1, OwnLine
  <2>3. Wire' = toHost \o Reply("msg") /\ toHost \o Reply("msg") \in Seq(Token)
    BY <1>1, <1>2, <2>1, Joined DEF Wire
  <2>4. (toHost \o Reply("msg")) \o <<>> = toHost \o Reply("msg")
    BY <2>3, ConcatEmptySeq
  <2> QED BY <2>2, <2>3, <2>4 DEF Wire
<1>4. Len(rxq') = 0 /\ 1..0 = {} /\ Printed' = heard /\ Printed <= Printed'
  <2>1. Len(rxq') = 0 /\ 1..0 = {} /\ heard' = heard
    BY <1>1
  <2> QED BY <1>2, <2>1 DEF Printed
<1>5. Len(rxq') <= heard' /\ \A i \in 1..Len(rxq') : rxq'[i].id = Printed' + i
  BY <1>1, <1>2, <1>4
<1>6. ~opened' => toHost' = <<>>
  BY <1>1 DEF IInv, Flow
<1> QED BY <1>1, <1>3, <1>4, <1>5, <1>6, FlowKept

\* One iteration of main() prints the frame it has taken from the radio, if
\* any: its values are above all those printed before.
LEMMA IterateFlow ==
  ASSUME IInv, Types', Iterate, UNCHANGED bridge
  PROVE  Flow'
<1>1. PICK print : /\ Harmless(print)
                   /\ out' = (IF rxq # <<>> THEN Dump(pk') ELSE <<>>) \o print
  BY IterateEffect DEF IInv
<1>2. /\ out = <<>> /\ UNCHANGED <<heard, toHost, opened, signals, posted>>
      /\ pk' = IF rxq # <<>> THEN packet2paquet(Head(rxq), pk) ELSE pk
      /\ rxq' = IF rxq # <<>> THEN Tail(rxq) ELSE rxq
  BY IterateEffect DEF IInv, Iterate, bridge
<1>3. /\ toHost \in Seq(Token) /\ Printed \in Int /\ Printed' \in Int
      /\ Len(rxq) \in Nat /\ heard \in Nat /\ Wire \in Seq(Token)
      /\ Fields(Wire) \subseteq Int /\ Fields(Wire') \subseteq Int
      /\ rxq \in Seq(Frames) /\ signals \in Seq(Signal) /\ posted \in Seq(Int)
  BY WireType, NextWireType DEF IInv, Types, TypeOK, DongleTypeOK, Flow
<1>4. /\ Len(rxq) <= heard /\ \A i \in 1..Len(rxq) : rxq[i].id = Printed + i
      /\ Whole(Wire) /\ Ordered(Fields(Wire), signals, posted, 2 * Printed)
      /\ ~opened => toHost = <<>>
  BY DEF IInv, Flow
<1>5. Wire = toHost
  <2>1. Wire = toHost \o <<>>
    BY <1>2 DEF Wire
  <2> QED BY <1>3, <2>1, ConcatEmptySeq
<1>6. ASSUME NEW d \in Seq(Token), Whole(d), Len(d) > 0 => d[1][1] # "hdr",
             \A v \in Fields(Wire), u \in Fields(d) : v < u, out' = d \o print
      PROVE  Whole(Wire') /\ Fields(Wire') \subseteq Fields(Wire) \cup Fields(d)
  <2>1. /\ Whole(toHost \o d) /\ toHost \o d \in Seq(Token)
        /\ Fields(toHost \o d) \subseteq Fields(Wire) \cup Fields(d)
    BY <1>3, <1>4, <1>5, <1>6, Appending, Joined
  <2>2. /\ print \in Seq(Token) /\ Whole(print) /\ Fields(print) = {}
        /\ Len(print) > 0 => print[1][1] # "hdr"
    BY <1>1, HarmlessIsWhole
  <2>3. /\ Whole((toHost \o d) \o print)
        /\ Fields((toHost \o d) \o print) \subseteq Fields(toHost \o d) \cup Fields(print)
    BY <2>1, <2>2, Appending
  <2>4. Wire' = toHost \o (d \o print)
    BY <1>2, <1>6 DEF Wire
  <2>5. toHost \in Seq(Token) /\ d \in Seq(Token) /\ print \in Seq(Token)
    BY <1>3, <1>6, <2>2
  <2>6. (toHost \o d) \o print = toHost \o (d \o print)
    BY <2>5, ConcatAssociative
  <2> QED BY <2>1, <2>2, <2>3, <2>4, <2>6
<1>7. ~opened' => toHost' = <<>>
  BY <1>2, <1>4
<1>8. RightSource'
  BY <1>2 DEF IInv, Flow, RightSource
<1>9. CASE rxq = <<>>
  <2>1. Harmless(<<>>) /\ out' = <<>> \o print
    BY <1>1, <1>9, Prints
  <2>2. /\ <<>> \in Seq(Token) /\ Whole(<<>>) /\ Fields(<<>>) = {}
        /\ Len(<<>>) > 0 => <<>>[1][1] # "hdr"
    BY <2>1, HarmlessIsWhole
  <2>3. Whole(Wire') /\ Fields(Wire') \subseteq Fields(Wire)
    BY <1>6, <2>1, <2>2
  <2>4. rxq' = rxq /\ Printed' = Printed /\ Printed <= Printed'
    BY <1>2, <1>3, <1>9 DEF Printed
  <2>5. Len(rxq') <= heard' /\ \A i \in 1..Len(rxq') : rxq'[i].id = Printed' + i
    BY <1>2, <1>4, <2>4
  <2> QED BY <1>2, <1>7, <2>3, <2>4, <2>5, FlowKept
<1>10. CASE rxq # <<>>
  <2> DEFINE f == Head(rxq)
  <2>1. /\ rxq' = Tail(rxq) /\ f \in Frames /\ f.id = Printed + 1
        /\ Len(rxq') = Len(rxq) - 1 /\ Len(rxq) > 0
        /\ \A i \in 1..Len(rxq') : rxq'[i] = rxq[i + 1]
    <3>1. Len(rxq) > 0 /\ f = rxq[1] /\ rxq' = Tail(rxq)
      BY <1>2, <1>3, <1>10
    <3>2. f \in Frames
      BY <1>3, <3>1
    <3>3. f.id = Printed + 1
      BY <1>4, <3>1
    <3> QED BY <1>3, <3>1, <3>2, <3>3
  <2> HIDE DEF f
  <2>2. Printed' = Printed + 1 /\ Len(rxq') <= heard'
    <3>1. heard' = heard /\ Len(rxq') = Len(rxq) - 1 /\ Len(rxq) \in Nat /\ heard \in Nat
      BY <1>2, <1>3, <2>1
    <3>2. Len(rxq) <= heard
      BY <1>4
    <3> QED BY <3>1, <3>2 DEF Printed
  <2>3. \A i \in 1..Len(rxq') : rxq'[i].id = Printed' + i
    <3> SUFFICES ASSUME NEW i \in 1..Len(rxq') PROVE rxq'[i].id = Printed' + i
      OBVIOUS
    <3>1. i + 1 \in 1..Len(rxq) /\ rxq'[i] = rxq[i + 1]
      BY <1>3, <2>1
    <3>2. rxq[i + 1].id = Printed + (i + 1)
      BY <1>4, <3>1
    <3> QED BY <1>3, <2>2, <3>1, <3>2
  <2>4. /\ pk' \in [hdr : 0..MaxFrames, data : 0..MaxFrames]
        /\ pk'.data \in {0, pk'.hdr}
        /\ pk'.data # 0 => pk'.data = Printed + 1
    <3>1. pk' = packet2paquet(f, pk) /\ pk \in [hdr : 0..MaxFrames, data : 0..MaxFrames]
      BY <1>2, <1>10 DEF f, IInv, Types, TypeOK, DongleTypeOK
    <3>2. pk' \in [hdr : 0..MaxFrames, data : 0..MaxFrames]
      BY DEF Types, TypeOK, DongleTypeOK
    <3> QED BY <2>1, <3>1, <3>2 DEF packet2paquet
  <2> DEFINE d == Dump(pk')  new == {2 * Printed + 1, 2 * Printed + 2}
  <2>5. /\ d \in Seq(Token) /\ Whole(d) /\ (Len(d) > 0 => d[1][1] # "hdr")
        /\ Fields(d) \subseteq new
    <3>1. pk'.hdr \in 0..MaxFrames
      BY <2>4
    <3>2. CASE monitor_mode = "human"
      <4> DEFINE p == pk'
      <4>1. d = dump_human(p)
        BY <3>2 DEF Dump
      <4>2. /\ p.hdr \in 0..MaxFrames /\ p.data \in {0, p.hdr}
            /\ p.data # 0 => p.data = Printed + 1
        BY <2>4
      <4> HIDE DEF p, d
      <4>3. /\ d \in Seq(Token) /\ Whole(d) /\ d[1][1] # "hdr"
            /\ Fields(d) \subseteq IF p.data = 0 THEN {} ELSE {2 * p.data - 1, 2 * p.data}
        BY <4>1, <4>2, HumanDump
      <4>4. ASSUME p.data # 0
            PROVE  {2 * p.data - 1, 2 * p.data} = new
        <5>1. Printed \in Int /\ p.data = Printed + 1
          BY <1>3, <4>2, <4>4
        <5>2. 2 * p.data - 1 = 2 * Printed + 1 /\ 2 * p.data = 2 * Printed + 2
          BY <5>1, NextValues
        <5> QED BY <5>2
      <4> QED BY <4>3, <4>4
    <3>3. CASE monitor_mode = "hex"
      <4>1. d = dump_hex(pk')
        BY <3>3 DEF Dump
      <4>2. Harmless(d)
        BY <3>1, <4>1, HexDump
      <4> QED BY <4>2, HarmlessIsWhole
    <3>4. CASE monitor_mode = "off"
      <4>1. d = <<>>
        BY <3>4 DEF Dump
      <4>2. Harmless(d)
        BY <4>1, Prints
      <4> QED BY <4>2, HarmlessIsWhole
    <3> QED BY <3>2, <3>3, <3>4 DEF IInv, Types, TypeOK, DongleTypeOK
  <2>6. \A v \in Fields(Wire), u \in Fields(d) : v < u
    <3>1. \A v \in Fields(Wire) : v \in Int /\ v <= 2 * Printed
      BY <1>3, <1>4 DEF Ordered
    <3>2. Printed \in Int /\ Fields(d) \subseteq new
      BY <1>3, <2>5
    <3> HIDE DEF d
    <3>3. \A v \in Int, u \in new : v <= 2 * Printed => v < u
      BY <3>2, NextValues
    <3> QED BY <3>1, <3>2, <3>3
  <2>7. out' = d \o print
    BY <1>1, <1>10
  <2> HIDE DEF d
  <2>8. Whole(Wire') /\ Fields(Wire') \subseteq Fields(Wire) \cup Fields(d)
    BY <1>6, <2>5, <2>6, <2>7
  <2>9. Ordered(Fields(Wire'), signals, posted, 2 * Printed')
    <3> DEFINE top == 2 * Printed  limit == 2 * Printed'  more == Fields(Wire')
    <3>0. Printed \in Int /\ Printed' = Printed + 1
      BY <1>3, <2>2
    <3>1. top \in Int /\ limit \in Int /\ top <= limit
      BY <3>0, NextValues
    <3>2. \A u \in more : u \in Fields(Wire) \/ (top < u /\ u <= limit)
      <4>1. \A u \in new : top < u /\ u <= limit
        BY <3>0, NextValues
      <4> HIDE DEF new
      <4> QED BY <2>5, <2>8, <4>1
    <3>3. /\ Fields(Wire) \in SUBSET Int /\ more \in SUBSET Int
          /\ Ordered(Fields(Wire), signals, posted, top)
      BY <1>3, <1>4
    <3> HIDE DEF top, limit, more
    <3>4. Ordered(more, signals, posted, limit)
      BY <1>3, <3>1, <3>2, <3>3, OrderKept
    <3> QED BY <3>4 DEF limit, more
  <2> QED BY <1>2, <1>3, <1>7, <1>8, <2>2, <2>3, <2>8, <2>9 DEF Flow
<1> QED BY <1>9, <1>10
-----------------------------------------------------------------------------
LEMMA PartOfWire ==
  ASSUME Types, LineEnd > 0
  PROVE  /\ Fields(Wire) \subseteq Int /\ Wire \in Seq(Token)
         /\ LineEnd \in 1..Len(toHost) /\ Len(toHost) \in Nat
         /\ Len(toHost) <= Len(Wire)
         /\ \A i \in 1..Len(toHost) : Wire[i] = toHost[i]
<1>1. /\ toHost \in Seq(Token) /\ out \in Seq(Token) /\ Wire \in Seq(Token)
      /\ Fields(Wire) \subseteq Int /\ Len(out) \in Nat
  BY WireType
<1>2. Len(Wire) = Len(toHost) + Len(out) /\ \A i \in 1..Len(toHost) : Wire[i] = toHost[i]
  BY <1>1, Joined DEF Wire
<1> QED BY <1>1, <1>2, LineEndIsFirst

\* Of a line that was read, the wire has lost the tokens.
LEMMA LineGone ==
  ASSUME IInv, Types', LineEnd > 0, out' = out, toHost' = AfterLine
  PROVE  Whole(Wire') /\ Fields(Wire') \subseteq Fields(Wire)
<1>1. LineEnd \in 0..Len(toHost)
  BY PartOfWire DEF IInv
<1>2. /\ Len(toHost') = Len(toHost) - LineEnd
      /\ \A i \in 1..Len(toHost') : toHost'[i] = toHost[LineEnd + i]
  BY LineType DEF IInv
<1> QED BY <1>1, <1>2, WireSuffix

\* What a line held comes before everything that was behind it.
LEMMA LineBeforeRest ==
  ASSUME IInv, Types', LineEnd > 0, out' = out, toHost' = AfterLine
  PROVE  \A i \in 1..LineEnd : IsField(toHost[i]) =>
           /\ ValueOf(toHost[i]) \in Fields(Wire)
           /\ \A u \in Fields(Wire') : ValueOf(toHost[i]) < u
<1>0. /\ Wire \in Seq(Token) /\ Wire' \in Seq(Token)
      /\ LineEnd \in 1..Len(toHost) /\ Len(toHost) \in Nat /\ Len(toHost) <= Len(Wire)
      /\ \A i \in 1..Len(toHost) : Wire[i] = toHost[i]
  BY PartOfWire, NextWireType DEF IInv
<1>1. /\ Len(Wire') = Len(Wire) - LineEnd
      /\ \A j \in 1..Len(Wire') : Wire'[j] = Wire[LineEnd + j]
  <2>1. LineEnd \in 0..Len(toHost)
    BY <1>0
  <2>2. /\ Len(toHost') = Len(toHost) - LineEnd
        /\ \A i \in 1..Len(toHost') : toHost'[i] = toHost[LineEnd + i]
    BY LineType DEF IInv
  <2> QED BY <2>1, <2>2, WireSuffix
<1> SUFFICES ASSUME NEW i \in 1..LineEnd, IsField(toHost[i])
             PROVE  /\ ValueOf(toHost[i]) \in Fields(Wire)
                    /\ \A u \in Fields(Wire') : ValueOf(toHost[i]) < u
  OBVIOUS
<1>2. i \in 1..Len(Wire) /\ Wire[i] = toHost[i] /\ IsField(Wire[i])
  BY <1>0
<1>3. ValueOf(toHost[i]) \in Fields(Wire)
  BY <1>2 DEF Fields
<1>4. ASSUME NEW u \in Fields(Wire')
      PROVE  ValueOf(toHost[i]) < u
  <2>1. PICK j \in 1..Len(Wire') : IsField(Wire'[j]) /\ u = ValueOf(Wire'[j])
    BY DEF Fields
  <2>2. LineEnd + j \in 1..Len(Wire) /\ i < LineEnd + j /\ Wire'[j] = Wire[LineEnd + j]
    BY <1>0, <1>1
  <2>3. ValueOf(Wire[i]) < ValueOf(Wire[LineEnd + j])
    BY <1>2, <2>1, <2>2 DEF IInv, Flow, Whole, FieldsAscend
  <2> QED BY <1>2, <2>1, <2>2, <2>3
<1> QED BY <1>3, <1>4

\* A line read while listening becomes the last signal: its fields are of the
\* frame of its header, and come between the signals and the rest of the wire.
LEMMA ListenFlow ==
  ASSUME IInv, Types', Listen, UNCHANGED dongle
  PROVE  Flow'
<1>0. /\ LineEnd > 0 /\ toHost' = AfterLine
      /\ UNCHANGED <<out, heard, rxq, opened, posted, state>>
      /\ signals' = IF StartsRX(Line) /\ connected
                      THEN Append(signals, initialize(Line)) ELSE signals
  BY DEF Listen, dongle
<1>1. Whole(Wire') /\ Fields(Wire') \subseteq Fields(Wire)
  BY <1>0, LineGone
<1>2. Printed' = Printed /\ Printed \in Int /\ Printed <= Printed'
  BY <1>0, WireType DEF Printed, IInv
<1>3. Len(rxq') <= heard' /\ \A i \in 1..Len(rxq') : rxq'[i].id = Printed' + i
  BY <1>0, <1>2 DEF IInv, Flow
<1>4. ~opened' => toHost' = <<>>
  <2>1. opened
    <3>1. opened = (state # 0)
      BY DEF IInv, Types, TypeOK
    <3>2. state # 0
      BY DEF Listen
    <3> QED BY <3>1, <3>2, Zenon
  <2> QED BY <1>0, <2>1
<1>5. CASE signals' = signals
  BY <1>0, <1>1, <1>2, <1>3, <1>4, <1>5, FlowKept
<1>6. CASE StartsRX(Line) /\ signals' = Append(signals, initialize(Line))
  <2> DEFINE s == initialize(Line)  m == s.msg  n == Len(signals)
             top == 2 * Printed
  <2>1. /\ s \in Signal /\ signals \in Seq(Signal) /\ posted \in Seq(Int)
        /\ Fields(Wire) \subseteq Int /\ Fields(Wire') \subseteq Int
        /\ Wire \in Seq(Token) /\ Wire' \in Seq(Token)
        /\ Ordered(Fields(Wire), signals, posted, top) /\ Whole(Wire)
    BY <1>0, MessageOfLine, WireType, NextWireType DEF IInv, Types, Flow
  <2>2. \A j \in 1..Len(m) :
          /\ LineEnd > 2 /\ j + 2 \in 1..LineEnd - 1 /\ m[j] = toHost[j + 2]
          /\ toHost[2][1] = "hdr" /\ s.src = toHost[2][2]
    BY <1>0, MessageOfLine DEF IInv
  <2>3. m \in Seq(Token)
    BY <2>1 DEF Signal
  <2>4. /\ LineEnd \in 1..Len(toHost) /\ Len(toHost) \in Nat /\ Len(toHost) <= Len(Wire)
        /\ \A i \in 1..Len(toHost) : Wire[i] = toHost[i]
    BY <1>0, PartOfWire DEF IInv
  <2>5. n \in Nat /\ signals' = Append(signals, s)
    BY <1>6, <2>1
  <2>0. \A i \in 1..n + 1 : i \in 1..n \/ i = n + 1
    BY <2>5
  <2> HIDE DEF s, n
  <2>6. /\ Len(signals') = n + 1 /\ signals'[n + 1] = s
        /\ \A i \in 1..n : signals'[i] = signals[i]
    BY <2>1, <2>5 DEF n
  <2>7. \A v \in Fields(m) : v \in Fields(Wire) /\ \A u \in Fields(Wire') : v < u
    <3> SUFFICES ASSUME NEW v \in Fields(m)
                 PROVE  v \in Fields(Wire) /\ \A u \in Fields(Wire') : v < u
      OBVIOUS
    <3>1. PICK j \in 1..Len(m) : IsField(m[j]) /\ v = ValueOf(m[j])
      BY DEF Fields
    <3>2. j + 2 \in 1..LineEnd /\ m[j] = toHost[j + 2]
      BY <2>2, <2>4
    <3>3. /\ ValueOf(toHost[j + 2]) \in Fields(Wire)
          /\ \A u \in Fields(Wire') : ValueOf(toHost[j + 2]) < u
      BY <1>0, <3>1, <3>2, LineBeforeRest
    <3> QED BY <3>1, <3>2, <3>3
  <2>8. FieldsAscend(m)
    <3> SUFFICES ASSUME NEW i \in 1..Len(m), NEW j \in 1..Len(m),
                        i < j, IsField(m[i]), IsField(m[j])
                 PROVE  ValueOf(m[i]) < ValueOf(m[j])
      BY DEF FieldsAscend
    <3>1. /\ i + 2 \in 1..Len(Wire) /\ m[i] = Wire[i + 2]
          /\ j + 2 \in 1..Len(Wire) /\ m[j] = Wire[j + 2] /\ i + 2 < j + 2
      <4>1. /\ i + 2 \in 1..LineEnd - 1 /\ m[i] = toHost[i + 2]
            /\ j + 2 \in 1..LineEnd - 1 /\ m[j] = toHost[j + 2]
        BY <2>2
      <4> QED BY <2>4, <4>1
    <3> QED BY <2>1, <3>1 DEF Whole, FieldsAscend
  <2>9. \A j \in 1..Len(m) : IsField(m[j]) => m[j][2] = s.src
    <3> SUFFICES ASSUME NEW j \in 1..Len(m), IsField(m[j])
                 PROVE  m[j][2] = s.src
      OBVIOUS
    <3>1. /\ LineEnd > 2 /\ j + 2 \in 1..LineEnd - 1 /\ m[j] = toHost[j + 2]
          /\ toHost[2][1] = "hdr" /\ s.src = toHost[2][2]
      BY <2>2
    <3>2. /\ 1 \in 1..Len(Wire) /\ Wire[1] = toHost[1] /\ 2 \in 1..Len(Wire)
          /\ Wire[2] = toHost[2] /\ j + 2 \in 1..Len(Wire) /\ Wire[j + 2] = toHost[j + 2]
      BY <2>4, <3>1
    <3>3. Wire[1][1] = "rx"
      <4>1. Line[1] = toHost[1]
        BY <1>0, <3>1, LineType DEF IInv
      <4> QED BY <1>6, <3>2, <4>1 DEF StartsRX
    <3>4. SameLine(Wire, 2, j + 2)
      <4> SUFFICES ASSUME NEW k \in 1..Len(Wire), 2 <= k, k < j + 2
                   PROVE  Wire[k] # EOL
        BY DEF SameLine
      <4>1. k \in 1..Len(toHost) /\ k < LineEnd
        BY <2>4, <3>1
      <4>2. toHost \in Seq(Token)
        BY WireType DEF IInv
      <4> QED BY <2>4, <4>1, <4>2, LineEndIsFirst
    <3> DEFINE q == j + 2
    <3>5. q \in 1..Len(Wire) /\ SameLine(Wire, 2, q) /\ IsField(Wire[q])
      BY <3>1, <3>2, <3>4
    <3> HIDE DEF q
    <3>6. Wire[q][2] = Wire[2][2]
      BY <2>1, <3>1, <3>2, <3>3, <3>5 DEF Whole, LinesOfOneFrame
    <3> QED BY <3>1, <3>2, <3>6 DEF q
  <2> HIDE DEF m
  <2>10. m = s.msg
    BY DEF m
  <2>11. RightSource'
    <3>1. ASSUME NEW i \in 1..n + 1, NEW j \in DOMAIN signals'[i].msg,
                 IsField(signals'[i].msg[j])
          PROVE  signals'[i].msg[j][2] = signals'[i].src
      <4>1. CASE i \in 1..n
        <5>1. i \in DOMAIN signals
          BY <2>1, <4>1 DEF n
        <5> QED BY <2>6, <3>1, <4>1, <5>1 DEF IInv, Flow, RightSource
      <4>2. CASE i = n + 1
        <5>1. signals'[i] = s /\ j \in 1..Len(m)
          BY <2>3, <2>6, <2>10, <3>1, <4>2
        <5> QED BY <2>9, <2>10, <3>1, <5>1
      <4> QED BY <2>0, <4>1, <4>2
    <3>2. DOMAIN signals' = 1..n + 1
      <4>1. signals' \in Seq(Signal)
        BY <2>1, <2>5
      <4> QED BY <2>6, <4>1
    <3> QED BY <3>1, <3>2 DEF RightSource
  <2>12. Ordered(Fields(Wire'), signals', posted, top)
    <3>1. /\ \A i \in 1..n : \A v \in Fields(signals[i].msg), u \in Fields(Wire) : v < u
          /\ \A i \in 1..n : FieldsAscend(signals[i].msg)
          /\ \A i \in 1..n : \A v \in Fields(signals[i].msg) : v <= top
          /\ \A u \in Fields(Wire) : u <= top
      BY <2>1 DEF Ordered, n
    <3>2. ASSUME NEW i \in 1..n + 1
          PROVE  /\ FieldsAscend(signals'[i].msg)
                 /\ \A v \in Fields(signals'[i].msg) :
                      v <= top /\ \A u \in Fields(Wire') : v < u
      <4>1. CASE i \in 1..n
        BY <1>1, <2>6, <3>1, <4>1
      <4>2. CASE i = n + 1
        BY <2>6, <2>7, <2>8, <2>10, <3>1, <4>2
      <4> QED BY <2>0, <4>1, <4>2
    <3>3. ASSUME NEW i \in 1..n + 1, NEW j \in 1..n + 1, i < j
          PROVE  \A v \in Fields(signals'[i].msg), u \in Fields(signals'[j].msg) : v < u
      <4>1. i \in 1..n /\ signals'[i] = signals[i]
        BY <2>5, <2>6, <3>3
      <4>2. CASE j \in 1..n
        BY <2>1, <2>6, <3>3, <4>1, <4>2 DEF Ordered, n
      <4>3. CASE j = n + 1
        BY <2>6, <2>7, <2>10, <3>1, <4>1, <4>3
      <4> QED BY <2>0, <4>2, <4>3
    <3>4. ASSUME NEW p \in 1..Len(posted)
          PROVE  /\ posted[p] <= top /\ \A u \in Fields(Wire') : posted[p] < u
                 /\ \A i \in 1..n + 1 : \A v \in Fields(signals'[i].msg) : posted[p] < v
      <4>1. /\ posted[p] <= top /\ \A u \in Fields(Wire) : posted[p] < u
            /\ \A i \in 1..n : \A v \in Fields(signals[i].msg) : posted[p] < v
        BY <2>1 DEF Ordered, n
      <4>2. ASSUME NEW i \in 1..n + 1
            PROVE  \A v \in Fields(signals'[i].msg) : posted[p] < v
        <5>1. CASE i \in 1..n
          BY <2>6, <4>1, <5>1
        <5>2. CASE i = n + 1
          BY <2>6, <2>7, <2>10, <4>1, <5>2
        <5> QED BY <2>0, <5>1, <5>2
      <4> QED BY <1>1, <4>1, <4>2
    <3>5. /\ \A u \in Fields(Wire') : u <= top
          /\ \A p, q \in 1..Len(posted) : p < q => posted[p] < posted[q]
      BY <1>1, <2>1 DEF Ordered
    <3> HIDE DEF top
    <3> QED BY <2>6, <3>2, <3>3, <3>4, <3>5 DEF Ordered
  <2> QED BY <1>0, <1>1, <1>2, <1>3, <1>4, <2>1, <2>11, <2>12 DEF Flow
<1> QED BY <1>0, <1>5, <1>6

\* The signal at the head is posted, field by field.
LEMMA InsertPacketFlow ==
  ASSUME IInv, Types', insertPacket, UNCHANGED dongle
  PROVE  /\ Flow'
         /\ \E vals \in Seq(Int) :
              posted' = posted \o vals /\ \A i \in 1..Len(vals) : vals[i] <= 2 * heard
<1> DEFINE m == Head(signals).msg  vals == ValuesIn(m)  top == 2 * Printed
           n == Len(posted)
<1>1. /\ signals # <<>> /\ signals' = Tail(signals) /\ posted' = posted \o vals
      /\ UNCHANGED <<toHost, out, heard, rxq, opened>>
  BY DEF insertPacket, dongle, link
<1>2. /\ signals \in Seq(Signal) /\ posted \in Seq(Int)
      /\ Fields(Wire) \subseteq Int /\ Printed \in Int
      /\ Ordered(Fields(Wire), signals, posted, top)
      /\ Len(rxq) \in Nat /\ heard \in Nat
  BY WireType DEF IInv, Types, Flow
<1>3. /\ Len(signals) > 0 /\ Head(signals) = signals[1] /\ 1 \in 1..Len(signals)
      /\ Len(signals') = Len(signals) - 1 /\ Len(signals) \in Nat
      /\ \A i \in 1..Len(signals') : signals'[i] = signals[i + 1] /\ i + 1 \in 1..Len(signals)
      /\ signals' \in Seq(Signal)
  BY <1>1, <1>2
<1>4. m \in Seq(Token) /\ Fields(m) \subseteq Int /\ m = signals[1].msg
  BY <1>2, <1>3, SignalFields
<1>5. /\ FieldsAscend(m) /\ \A v \in Fields(m) : v <= top /\ \A u \in Fields(Wire) : v < u
      /\ \A i \in 1..Len(signals') : \A v \in Fields(m), u \in Fields(signals'[i].msg) : v < u
      /\ \A p \in 1..n : \A v \in Fields(m) : posted[p] < v
  <2>1. \A i \in 1..Len(signals') : 1 < i + 1
    BY <1>3
  <2> HIDE DEF m, top
  <2> QED BY <1>2, <1>3, <1>4, <2>1 DEF Ordered
<1>6. /\ vals \in Seq(Int)
      /\ \A i \in 1..Len(vals) : vals[i] \in Fields(m)
      /\ \A i, j \in 1..Len(vals) : i < j => vals[i] < vals[j]
  BY <1>4, <1>5, ValuesOfMessage
<1> HIDE DEF m, vals, top, n
<1>7. /\ posted' \in Seq(Int) /\ Len(posted') = n + Len(vals) /\ n \in Nat /\ Len(vals) \in Nat
      /\ \A p \in 1..n : posted'[p] = posted[p]
      /\ \A p \in 1..Len(posted') :
           p \in 1..n \/ (n < p /\ p - n \in 1..Len(vals) /\ posted'[p] = vals[p - n])
  BY <1>1, <1>2, <1>6 DEF n
<1>8. ASSUME NEW p \in 1..Len(posted')
      PROVE  /\ posted'[p] <= top /\ \A u \in Fields(Wire) : posted'[p] < u
             /\ \A i \in 1..Len(signals') : \A v \in Fields(signals'[i].msg) : posted'[p] < v
  <2>1. CASE p \in 1..n
    <3>1. /\ posted[p] <= top /\ \A u \in Fields(Wire) : posted[p] < u
          /\ \A i \in 1..Len(signals) : \A v \in Fields(signals[i].msg) : posted[p] < v
      BY <1>2, <2>1 DEF Ordered, n
    <3> QED BY <1>3, <1>7, <2>1, <3>1
  <2>2. CASE p - n \in 1..Len(vals) /\ posted'[p] = vals[p - n]
    <3>1. posted'[p] \in Fields(m)
      BY <1>6, <2>2
    <3> QED BY <1>5, <3>1
  <2> QED BY <1>7, <2>1, <2>2
<1>9. ASSUME NEW p \in 1..Len(posted'), NEW q \in 1..Len(posted'), p < q
      PROVE  posted'[p] < posted'[q]
  <2>1. CASE q \in 1..n
    <3>1. p \in 1..n /\ posted'[p] = posted[p] /\ posted'[q] = posted[q]
      BY <1>7, <1>9, <2>1
    <3> QED BY <1>2, <1>9, <2>1, <3>1 DEF Ordered, n
  <2>2. CASE p \in 1..n /\ q - n \in 1..Len(vals) /\ posted'[q] = vals[q - n]
    <3>1. posted'[q] \in Fields(m) /\ posted'[p] = posted[p]
      BY <1>6, <1>7, <2>2
    <3> QED BY <1>5, <2>2, <3>1
  <2>3. CASE /\ p - n \in 1..Len(vals) /\ posted'[p] = vals[p - n]
             /\ q - n \in 1..Len(vals) /\ posted'[q] = vals[q - n]
    <3>1. p - n < q - n
      BY <1>7, <1>9
    <3> QED BY <1>6, <2>3, <3>1
  <2>4. p \in 1..n \/ n < p
    BY <1>7
  <2>5. n < p => ~(q \in 1..n)
    BY <1>7, <1>9
  <2> QED BY <1>7, <2>1, <2>2, <2>3, <2>4, <2>5
<1>10. Wire' = Wire /\ Printed' = Printed
  BY <1>1 DEF Wire, Printed
<1>11. Ordered(Fields(Wire), signals', posted', top)
  <2>1. /\ \A u \in Fields(Wire) : u <= top
        /\ \A i \in 1..Len(signals) :
             /\ FieldsAscend(signals[i].msg)
             /\ \A v \in Fields(signals[i].msg) : v <= top /\ \A u \in Fields(Wire) : v < u
    BY <1>2 DEF Ordered
  <2>2. \A i \in 1..Len(signals') :
          /\ FieldsAscend(signals'[i].msg)
          /\ \A v \in Fields(signals'[i].msg) : v <= top /\ \A u \in Fields(Wire) : v < u
    BY <1>3, <2>1
  <2>3. ASSUME NEW i \in 1..Len(signals'), NEW j \in 1..Len(signals'), i < j
        PROVE  \A v \in Fields(signals'[i].msg), u \in Fields(signals'[j].msg) : v < u
    <3>1. /\ i + 1 \in 1..Len(signals) /\ j + 1 \in 1..Len(signals) /\ i + 1 < j + 1
          /\ signals'[i] = signals[i + 1] /\ signals'[j] = signals[j + 1]
      BY <1>3, <2>3
    <3> QED BY <1>2, <3>1 DEF Ordered
  <2> QED BY <1>8, <1>9, <2>1, <2>2, <2>3 DEF Ordered
<1>12. RightSource'
  <2>1. DOMAIN signals' = 1..Len(signals') /\ DOMAIN signals = 1..Len(signals)
    BY <1>2, <1>3
  <2>2. ASSUME NEW i \in 1..Len(signals'), NEW j \in DOMAIN signals'[i].msg,
               IsField(signals'[i].msg[j])
        PROVE  signals'[i].msg[j][2] = signals'[i].src
    <3>1. i + 1 \in 1..Len(signals) /\ signals'[i] = signals[i + 1]
      BY <1>3, <2>2
    <3>2. IsField(signals[i + 1].msg[j]) /\ j \in DOMAIN signals[i + 1].msg
      BY <2>2, <3>1
    <3>3. signals[i + 1].msg[j][2] = signals[i + 1].src
      BY <2>1, <3>1, <3>2 DEF IInv, Flow, RightSource
    <3> QED BY <3>1, <3>3
  <2> QED BY <2>1, <2>2 DEF RightSource
<1>13. Flow'
  <2>1. Ordered(Fields(Wire'), signals', posted', 2 * Printed')
    BY <1>10, <1>11 DEF top
  <2>2. Whole(Wire') /\ (~opened' => toHost' = <<>>)
    BY <1>1, <1>10 DEF IInv, Flow
  <2>3. Len(rxq') <= heard' /\ \A i \in 1..Len(rxq') : rxq'[i].id = Printed' + i
    BY <1>1, <1>10 DEF IInv, Flow
  <2> QED BY <1>7, <1>12, <2>1, <2>2, <2>3 DEF Flow
<1>14. \A i \in 1..Len(vals) : vals[i] <= 2 * heard
  <2>1. top <= 2 * heard /\ top \in Int /\ 2 * heard \in Int
    BY <1>2 DEF top, Printed
  <2> QED BY <1>4, <1>5, <1>6, <2>1
<1> QED BY <1>1, <1>6, <1>13, <1>14

LEMMA RestartFlow ==
  ASSUME IInv, Types', Restart, UNCHANGED dongle
  PROVE  Flow'
<1>1. /\ signals' = <<>> /\ toHost' = <<>> /\ UNCHANGED <<posted, out, heard, rxq>>
  BY DEF Restart, dongle
<1>2. Whole(Wire') /\ Fields(Wire') \subseteq Fields(Wire)
  BY <1>1, WireCleared
<1>3. Printed' = Printed
  BY <1>1 DEF Printed
<1>4. Len(signals') = 0 /\ 1..0 = {} /\ DOMAIN signals' = {}
  BY <1>1
<1>5. RightSource'
  BY <1>4 DEF RightSource
<1>6. Ordered(Fields(Wire'), signals', posted, 2 * Printed)
  BY <1>2, <1>4 DEF IInv, Flow, Ordered
<1>7. Len(rxq') <= heard' /\ \A i \in 1..Len(rxq') : rxq'[i].id = Printed' + i
  BY <1>1, <1>3 DEF IInv, Flow
<1> QED BY <1>1, <1>2, <1>3, <1>5, <1>6, <1>7 DEF IInv, Flow

\* oflbridge reads a line of the answer, or gives its port or a line up.
LEMMA WireDropsFlow ==
  ASSUME IInv, Types', UNCHANGED <<heard, rxq, out, signals, posted>>,
         (toHost' = AfterLine /\ LineEnd > 0 /\ opened /\ opened' = opened) \/ toHost' = <<>>
  PROVE  Flow'
<1>1. Whole(Wire') /\ Fields(Wire') \subseteq Fields(Wire)
  BY LineGone, WireCleared
<1>2. Printed' = Printed /\ Printed <= Printed'
  <2>1. Printed' = Printed
    BY DEF Printed
  <2> QED BY <2>1, WireType DEF IInv
<1>3. Len(rxq') <= heard' /\ \A i \in 1..Len(rxq') : rxq'[i].id = Printed' + i
  BY <1>2 DEF IInv, Flow
<1> QED BY <1>1, <1>2, <1>3, FlowKept

\* oflbridge throws away what it has read of a line that is too long.
LEMMA TooLongFlow ==
  ASSUME IInv, Types', LineTooLong, UNCHANGED dongle
  PROVE  Flow'
<1>1. toHost \in Seq(Token) /\ Len(toHost) \in Nat /\ UNCHANGED <<heard, rxq, out, signals, posted>>
  BY WireType DEF IInv, LineTooLong, bridge, dongle
<1>2. PICK n \in 1..Len(toHost) : toHost' = SubSeq(toHost, n + 1, Len(toHost))
  BY TooLong DEF IInv, Types
<1>3. /\ n \in 0..Len(toHost) /\ Len(toHost') = Len(toHost) - n
      /\ \A i \in 1..Len(toHost') : toHost'[i] = toHost[n + i]
  BY <1>1, <1>2
<1>4. Whole(Wire') /\ Fields(Wire') \subseteq Fields(Wire)
  BY <1>1, <1>3, WireSuffix
<1>5. Printed' = Printed /\ Printed <= Printed'
  <2>1. Printed' = Printed
    BY <1>1 DEF Printed
  <2> QED BY <2>1, WireType DEF IInv
<1>6. Len(rxq') <= heard' /\ \A i \in 1..Len(rxq') : rxq'[i].id = Printed' + i
  BY <1>1, <1>5 DEF IInv, Flow
<1>7. opened
  <2>1. opened = (state # 0)
    BY DEF IInv, Types, TypeOK
  <2>2. state # 0
    BY DEF LineTooLong
  <2> QED BY <2>1, <2>2, Zenon
<1>8. opened' = opened
  BY DEF LineTooLong
<1> QED BY <1>1, <1>4, <1>5, <1>6, <1>7, <1>8, FlowKept

LEMMA BridgeFlow ==
  ASSUME IInv, Types', BridgeNext, UNCHANGED dongle
  PROVE  Flow'
<1>0. UNCHANGED <<heard, rxq, out>>
  BY DEF dongle
<1>1. CASE Open
  BY <1>0, <1>1, QuietFlow DEF Open
<1>2. CASE WriteCommand
  BY <1>0, <1>2, QuietFlow DEF WriteCommand
<1>3. CASE WriteFails
  BY <1>0, <1>3, WireDropsFlow DEF WriteFails
<1>4. CASE AwaitOK
  <2>1. opened
    <3>1. opened = (state # 0)
      BY DEF IInv, Types, TypeOK
    <3>2. state # 0
      BY <1>4 DEF AwaitOK
    <3> QED BY <3>1, <3>2, Zenon
  <2> QED BY <1>0, <1>4, <2>1, WireDropsFlow DEF AwaitOK
<1>5. CASE Listen
  BY <1>5, ListenFlow
<1>6. CASE ReadTimesOut
  BY <1>0, <1>6, WireDropsFlow DEF ReadTimesOut, bridge
<1>11. CASE LineTooLong
  BY <1>11, TooLongFlow
<1>7. CASE Connect
  BY <1>0, <1>7, QuietFlow DEF Connect, link
<1>8. CASE insertPacket
  BY <1>8, InsertPacketFlow
<1>9. CASE Restart
  BY <1>9, RestartFlow
<1>10. CASE Type
  BY <1>0, <1>10, QuietFlow DEF Type, bridge
<1> QED BY <1>1, <1>2, <1>3, <1>4, <1>5, <1>6, <1>7, <1>8, <1>9, <1>10, <1>11
        DEF BridgeNext

LEMMA DongleFlow ==
  ASSUME IInv, Types', DongleNext, UNCHANGED bridge
  PROVE  Flow'
<1>1. CASE MacaTxDone
  BY <1>1, QuietFlow DEF MacaTxDone, link, bridge
<1> QED BY <1>1, IterateFlow, UartSendFlow, KeyInterruptFlow, MacaRxFlow, DongleResetFlow
        DEF DongleNext
-----------------------------------------------------------------------------
LEMMA Initially == Init => IInv
<1> SUFFICES ASSUME Init PROVE IInv
  OBVIOUS
<1>0. /\ MaxFrames \in Nat /\ NumPackets \in Nat /\ CmdMax \in Nat
      /\ LinkMax \in Nat /\ MaxUpsets \in Nat
  BY DongleBounds, LinkBounds
<1>1. /\ heard = 0 /\ rxq = <<>> /\ tx = 0 /\ pk = [hdr |-> 0, data |-> 0]
      /\ monitor_mode = "off" /\ cur_chan = 0 /\ cmd = <<>> /\ out = Reply("msg")
      /\ toDongle = <<>> /\ toHost = <<>> /\ opened = FALSE
      /\ upsets = [k \in Upsets |-> 0]
      /\ state = 0 /\ connected = FALSE /\ signals = <<>> /\ posted = <<>>
  BY DEF Init, LinkInit, DongleInit, BridgeInit
<1>2. /\ <<>> \in Seq(Frames) /\ <<>> \in Seq(TypedTokens \ {"nl"}) /\ <<>> \in Seq(TypedTokens)
      /\ <<>> \in Seq(Token) /\ <<>> \in Seq(Signal) /\ <<>> \in Seq(Int)
      /\ Len(<<>>) = 0 /\ 1..0 = {} /\ DOMAIN <<>> = {}
  OBVIOUS
<1>3. Harmless(Reply("msg")) /\ Reply("msg") \in Seq(Token)
  BY Prints DEF Harmless
<1>4. opened = (state # 0)
  <2>1. (state # 0) = FALSE
    BY <1>1
  <2> QED BY <1>1, <2>1, Zenon
<1>5. DongleTypeOK
  BY <1>0, <1>1, <1>2, <1>3 DEF DongleTypeOK, Token
<1>6. BridgeTypeOK
  <2>1. state \in 0..3
    BY <1>1
  <2>2. connected \in BOOLEAN
    BY <1>1, Zenon
  <2>3. \A i \in DOMAIN signals : signals[i].src \in Nat
    BY <1>1, <1>2
  <2> QED BY <2>1, <2>2, <2>3, Zenon DEF BridgeTypeOK
<1>7. toHost \in Seq(Token) /\ Len(toHost) <= LinkMax
  BY <1>0, <1>1, <1>2
<1>8. Types
  BY <1>0, <1>1, <1>2, <1>4, <1>5, <1>6, <1>7 DEF Types, TypeOK, Token
<1>9. Wire = Reply("msg")
  <2>1. Wire = <<>> \o Reply("msg")
    BY <1>1 DEF Wire
  <2> QED BY <1>3, <2>1, ConcatEmptySeq
<1>10. Whole(Wire) /\ Fields(Wire) = {}
  BY <1>3, <1>9, HarmlessIsWhole
<1>11. Ordered(Fields(Wire), signals, posted, 2 * Printed)
  <2>1. 1..Len(signals) = {} /\ 1..Len(posted) = {}
    BY <1>1, <1>2
  <2> QED BY <1>10, <2>1 DEF Ordered
<1>12. RightSource
  BY <1>1, <1>2 DEF RightSource
<1>13. Flow
  <2>1. Len(rxq) <= heard /\ 1..Len(rxq) = {}
    BY <1>1, <1>2
  <2> QED BY <1>1, <1>2, <1>10, <1>11, <1>12, <2>1 DEF Flow
<1> QED BY <1>8, <1>13 DEF IInv

LEMMA Stutter == IInv /\ UNCHANGED vars => IInv'
<1> SUFFICES ASSUME IInv, UNCHANGED vars PROVE IInv'
  OBVIOUS
<1>1. /\ UNCHANGED <<toDongle, toHost, opened, upsets>>
      /\ UNCHANGED <<heard, rxq, tx, pk, monitor_mode, cur_chan, cmd, out>>
      /\ UNCHANGED <<state, connected, signals, posted>>
  BY DEF vars, link, dongle, bridge
<1>2. Types'
  BY <1>1 DEF IInv, Types, TypeOK, DongleTypeOK, BridgeTypeOK
<1> QED BY <1>1, <1>2, QuietFlow DEF IInv

LEMMA Step == IInv /\ [Next]_vars => IInv'
<1> SUFFICES ASSUME IInv, Next PROVE IInv'
  BY Stutter
<1>1. CASE DongleNext /\ UNCHANGED bridge
  <2>1. Types'
    BY <1>1, DongleTypes DEF IInv
  <2> QED BY <1>1, <2>1, DongleFlow DEF IInv
<1>2. CASE BridgeNext /\ UNCHANGED dongle
  <2>1. Types'
    BY <1>2, BridgeTypes DEF IInv
  <2> QED BY <1>2, <2>1, BridgeFlow DEF IInv
<1> QED BY <1>1, <1>2 DEF Next

LEMMA Invariance == Spec => []IInv
<1> QED BY Initially, Step, PTL DEF Spec
-----------------------------------------------------------------------------
\* The variables keep their types: packets received and packets being sent
\* never exceed the radio's pool, a command fits cmd_data, and the port is open
\* exactly when the serial thread is past opening it (main, rx_packet,
\* SerialDeviceThread::run).
THEOREM TypesHold == Spec => []TypeOK
<1>1. IInv => TypeOK
  BY DEF IInv, Types
<1> QED BY <1>1, Invariance, PTL

\* The fields of a packet are of the frame its header is of, however prints,
\* key interrupts, resets, restarts and cut lines fall (dump_human,
\* Packet::initialize).
THEOREM FieldsOfTheirSource == Spec => []RightSource
<1>1. IInv => RightSource
  BY DEF IInv, Flow
<1> QED BY <1>1, Invariance, PTL

\* The gateway implements Relay: a value is posted at most once, after it was
\* heard and in the order of the frames (packet2paquet, insertPacket).
THEOREM Refinement == Spec => Relays
<1>1. Init => R!Init
  <2> SUFFICES ASSUME Init PROVE 2 * heard = 0 /\ posted = <<>>
    BY DEF R!Init
  <2>1. heard = 0 /\ posted = <<>>
    BY DEF Init, DongleInit, BridgeInit
  <2> QED BY <2>1
<1>2. IInv /\ IInv' /\ [Next]_vars => [R!Next]_(R!vars)
  <2> SUFFICES ASSUME IInv, IInv', [Next]_vars
               PROVE  R!Hear \/ R!Post \/ UNCHANGED <<2 * heard, posted>>
    BY DEF R!Next, R!vars
  <2>0. heard \in Nat
    BY WireType DEF IInv
  <2>1. CASE heard' = heard /\ posted' = posted
    BY <2>1
  <2>2. CASE MacaRx /\ UNCHANGED bridge
    <3>1. heard' = heard + 1 /\ posted' = posted
      BY <2>2 DEF MacaRx, bridge
    <3>2. 2 * heard' > 2 * heard
      BY <2>0, <3>1
    <3> QED BY <3>1, <3>2 DEF R!Hear
  <2>3. CASE insertPacket /\ UNCHANGED dongle
    <3>1. PICK vals \in Seq(Int) :
            posted' = posted \o vals /\ \A i \in 1..Len(vals) : vals[i] <= 2 * heard
      BY <2>3, InsertPacketFlow DEF IInv
    <3>2. posted \in Seq(Int) /\ posted' \in Seq(Int) /\ heard' = heard
      BY <2>3 DEF IInv, Flow, dongle
    <3>3. CASE vals = <<>>
      <4>1. posted' = posted
        BY <3>1, <3>2, <3>3, ConcatEmptySeq
      <4> QED BY <3>2, <4>1
    <3>4. CASE vals # <<>>
      <4>1. /\ Len(posted') = Len(posted) + Len(vals) /\ Len(vals) \in Nat /\ Len(vals) > 0
            /\ Len(posted) \in Nat /\ \A i \in 1..Len(posted) : posted'[i] = posted[i]
            /\ posted'[Len(posted) + Len(vals)] = vals[Len(vals)]
        BY <3>1, <3>2, <3>4
      <4>2. R!IsStrictPrefix(posted, posted')
        <5>1. SubSeq(posted, 1, Len(posted)) = posted
          BY <3>2, SubSeqFull
        <5>2. SubSeq(posted', 1, Len(posted)) = posted
          BY <3>2, <4>1
        <5>3. posted # posted' /\ Len(posted) <= Len(posted')
          BY <4>1
        <5> QED BY <5>1, <5>2, <5>3 DEF R!IsStrictPrefix, R!IsPrefix
      <4>3. R!Increasing(posted')
        <5>1. \A p, q \in 1..Len(posted') : p < q => posted'[p] < posted'[q]
          BY DEF IInv, Flow, Ordered
        <5>2. \A i \in 1..Len(posted') - 1 :
                i \in 1..Len(posted') /\ i + 1 \in 1..Len(posted') /\ i < i + 1
          BY <4>1
        <5> QED BY <5>1, <5>2 DEF R!Increasing
      <4>4. R!Last(posted') <= 2 * heard
        BY <3>1, <4>1 DEF R!Last
      <4> QED BY <3>2, <4>2, <4>3, <4>4 DEF R!Post
    <3> QED BY <3>3, <3>4
  <2> QED
    <3>1. CASE DongleNext /\ UNCHANGED bridge
      <4>1. posted' = posted /\ (heard' = heard \/ MacaRx)
        BY <3>1 DEF DongleNext, Iterate, UartSend, KeyInterrupt, MacaTxDone, DongleReset,
                    bridge, dongle
      <4> QED BY <2>1, <2>2, <3>1, <4>1
    <3>2. CASE BridgeNext /\ UNCHANGED dongle
      <4>1. heard' = heard /\ (posted' = posted \/ insertPacket)
        BY <3>2 DEF BridgeNext, Open, WriteCommand, WriteFails, AwaitOK, Listen,
                    ReadTimesOut, LineTooLong, Connect, Restart, Type, bridge, dongle
      <4> QED BY <2>1, <2>3, <3>2, <4>1
    <3>3. CASE UNCHANGED vars
      BY <2>1, <3>3 DEF vars, dongle, bridge
    <3> QED BY <3>1, <3>2, <3>3 DEF Next
<1> QED BY <1>1, <1>2, Invariance, PTL DEF Spec, Relays, R!Spec
=============================================================================
