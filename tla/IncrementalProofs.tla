-------------------------- MODULE IncrementalProofs --------------------------
(***************************************************************************)
(* What the reuse of old paragraphs yields, for texts of any length and for *)
(* every alignment that a sequence matcher may find.                        *)
(*                                                                          *)
(* Split and Join are folds. Their rounds are shown to be a sequence of     *)
(* values (LoopRounds, JoinRounds), so that one line or one paragraph more  *)
(* is one round more (LoopAppend, JoinAppend); what holds of every text     *)
(* follows by induction over sets of texts (SeqInduction). JoinSplit is the *)
(* result the increments rest on: paragraphs put together are found again.  *)
(***************************************************************************)
EXTENDS Incremental, FiniteSetTheorems, SequenceTheorems, WellFoundedInduction, TLAPS

\* What holds of 0 and of k + 1 with k holds up to n: the least number it does not hold
\* of would have a predecessor. It is stated for a set T, so that no operator need be a
\* parameter.
LEMMA UpTo ==
    ASSUME NEW n \in Nat, NEW T, 0 \in T, \A k \in 0 .. n - 1 : k \in T => k + 1 \in T
    PROVE  \A k \in 0 .. n : k \in T
<1> DEFINE R == OpToRel(<, Nat)
           missing == {k \in 0 .. n : k \notin T}
<1>1. IsWellFoundedOn(R, Nat)
  BY NatLessThanWellFounded
<1>2. \A x, y \in Nat : x < y => <<x, y>> \in R
  BY DEF OpToRel
<1> HIDE DEF R
<1>3. SUFFICES ASSUME missing # {} PROVE FALSE
  OBVIOUS
<1>4. PICK k \in missing : \A j \in missing : ~ (<<j, k>> \in R)
  <2>1. missing \subseteq Nat
    OBVIOUS
  <2>2. QED
    BY <1>1, <1>3, <2>1, WFMin
<1>5. k \in 0 .. n /\ k \notin T /\ k # 0
  BY <1>4
<1>6. k - 1 \in missing \/ k - 1 \in T
  BY <1>5
<1>7. k - 1 \notin missing
  <2>1. k - 1 \in Nat /\ k \in Nat /\ k - 1 < k
    BY <1>5
  <2>2. <<k - 1, k>> \in R
    BY <1>2, <2>1
  <2>3. QED
    BY <1>4, <2>2
<1>8. QED
  BY <1>5, <1>6, <1>7

\* The last index of a fold over 1 .. k + 1.
LEMMA MaxIsLast ==
    ASSUME NEW k \in Nat, NEW s \in SUBSET (1 .. k + 1), k + 1 \in s
    PROVE  Max(s) = k + 1
<1>1. \A y \in s : k + 1 >= y
  OBVIOUS
<1>2. \A x \in s : (\A y \in s : x >= y) => x = k + 1
  OBVIOUS
<1>3. QED
  BY <1>1, <1>2 DEF Max

\* FoldLeft chooses a function on sets of indices; its values on the initial segments
\* are the rounds of the loop of split_paragraphs.
LEMMA LoopRounds ==
    ASSUME NEW S, NEW t \in Seq(S)
    PROVE  \E r : /\ r[0] = Start
                  /\ \A k \in 1 .. Len(t) : r[k] = NextLine(r[k - 1], t[k])
                  /\ r[Len(t)] = Loop(t)
<1> DEFINE n == Len(t)
           Is(g, k) == g = [s \in SUBSET (1 .. k) |->
                              IF s = {} THEN Start
                              ELSE NextLine(g[s \ {Max(s)}], t[Max(s)])]
           T == {k \in 0 .. n : \E g : Is(g, k)}
<1>1. n \in Nat /\ DOMAIN t = 1 .. n
  BY LenProperties
<1>2. \E g : Is(g, 0)
  <2> DEFINE g == [s \in SUBSET (1 .. 0) |-> Start]
  <2>1. \A s \in SUBSET (1 .. 0) : s = {}
    OBVIOUS
  <2>2. Is(g, 0)
    BY <2>1
  <2>3. QED
    BY <2>2
<1>3. ASSUME NEW k \in 0 .. n - 1, NEW g, Is(g, k)
      PROVE  \E h : Is(h, k + 1)
  <2> DEFINE h == [s \in SUBSET (1 .. k + 1) |->
                     IF k + 1 \in s THEN NextLine(g[s \ {k + 1}], t[k + 1]) ELSE g[s]]
  <2>1. k \in Nat
    BY <1>1
  <2>2. ASSUME NEW s \in SUBSET (1 .. k + 1)
        PROVE  h[s] = IF s = {} THEN Start ELSE NextLine(h[s \ {Max(s)}], t[Max(s)])
    <3>1. CASE k + 1 \in s
      <4>1. Max(s) = k + 1
        BY <2>1, <3>1, MaxIsLast
      <4>2. s \ {k + 1} \in SUBSET (1 .. k) /\ s \ {k + 1} \in SUBSET (1 .. k + 1)
        BY <2>1
      <4>3. h[s \ {k + 1}] = g[s \ {k + 1}]
        BY <4>2
      <4>4. h[s] = NextLine(g[s \ {k + 1}], t[k + 1])
        BY <3>1
      <4>5. QED
        BY <3>1, <4>1, <4>3, <4>4
    <3>2. CASE k + 1 \notin s
      <4>1. s \in SUBSET (1 .. k)
        BY <2>1, <3>2
      <4>2. g[s] = IF s = {} THEN Start ELSE NextLine(g[s \ {Max(s)}], t[Max(s)])
        BY <1>3, <4>1
      <4>3. h[s \ {Max(s)}] = g[s \ {Max(s)}] /\ h[s] = g[s]
        BY <3>2, <4>1
      <4>4. QED
        BY <4>2, <4>3
    <3>3. QED
      BY <3>1, <3>2
  <2> HIDE DEF h
  <2>3. h = [s \in SUBSET (1 .. k + 1) |-> h[s]]
    BY DEF h
  <2>4. Is(h, k + 1)
    BY <2>2, <2>3
  <2>5. QED
    BY <2>4
<1>4. \E g : Is(g, n)
  <2> HIDE DEF Is
  <2>1. 0 \in T
    BY <1>1, <1>2
  <2>2. ASSUME NEW k \in 0 .. n - 1, k \in T
        PROVE  k + 1 \in T
    <3>1. \E g : Is(g, k)
      BY <2>2
    <3>2. \E h : Is(h, k + 1)
      BY <1>3, <3>1
    <3>3. QED
      BY <1>1, <3>2
  <2>3. \A k \in 0 .. n : k \in T
    <3> HIDE DEF T
    <3>1. QED
      BY <1>1, <2>1, <2>2, UpTo
  <2>4. n \in T
    BY <1>1, <2>3
  <2>5. QED
    BY <2>4
<1> DEFINE iter == CHOOSE g : Is(g, n)
<1>5. Is(iter, n)
  BY <1>4
<1>6. Loop(t) = iter[1 .. n]
  BY <1>1 DEF Loop, FoldLeft, MapThenFoldSet
<1> HIDE DEF iter
<1> DEFINE r == [k \in 0 .. n |-> iter[1 .. k]]
<1>7. r[0] = Start
  BY <1>1, <1>5
<1>8. ASSUME NEW k \in 1 .. n
      PROVE  r[k] = NextLine(r[k - 1], t[k])
  <2>1. /\ k - 1 \in Nat /\ k \in 1 .. k /\ k = (k - 1) + 1
        /\ 1 .. k \in SUBSET (1 .. n)
    BY <1>1
  <2>2. Max(1 .. k) = k
    BY <2>1 DEF Max
  <2>3. (1 .. k) \ {k} = 1 .. k - 1
    BY <2>1
  <2>4. iter[1 .. k] = NextLine(iter[1 .. k - 1], t[k])
    BY <1>5, <2>1, <2>2, <2>3
  <2>5. QED
    BY <1>1, <2>4
<1>9. r[n] = Loop(t)
  BY <1>1, <1>6
<1>10. QED
  BY <1>7, <1>8, <1>9

\* No line, no round.
LEMMA LoopEmpty == Loop(<<>>) = Start
<1>1. <<>> \in Seq({}) /\ Len(<<>>) = 0
  OBVIOUS
<1>2. QED
  BY <1>1, LoopRounds

\* One line more is one round more.
LEMMA LoopAppend ==
    ASSUME NEW S, NEW t \in Seq(S), NEW l \in S
    PROVE  Loop(Append(t, l)) = NextLine(Loop(t), l)
<1> DEFINE u == Append(t, l)
           n == Len(t)
<1>1. /\ n \in Nat /\ u \in Seq(S) /\ Len(u) = n + 1 /\ u[n + 1] = l
      /\ \A k \in 1 .. n : u[k] = t[k]
  BY LenProperties, AppendProperties
<1>2. PICK r : /\ r[0] = Start
               /\ \A k \in 1 .. n : r[k] = NextLine(r[k - 1], t[k])
               /\ r[n] = Loop(t)
  BY LoopRounds
<1> HIDE DEF u
<1>3. PICK q : /\ q[0] = Start
               /\ \A k \in 1 .. n + 1 : q[k] = NextLine(q[k - 1], u[k])
               /\ q[n + 1] = Loop(u)
  BY <1>1, LoopRounds
<1> DEFINE T == {k \in 0 .. n : q[k] = r[k]}
<1>4. n \in T
  <2>1. 0 \in T
    BY <1>1, <1>2, <1>3
  <2>2. ASSUME NEW k \in 0 .. n - 1, k \in T
        PROVE  k + 1 \in T
    <3>1. k + 1 \in 1 .. n /\ k + 1 \in 1 .. n + 1 /\ k + 1 \in 0 .. n /\ (k + 1) - 1 = k
      BY <1>1
    <3>2. r[k + 1] = NextLine(r[k], t[k + 1]) /\ q[k + 1] = NextLine(q[k], u[k + 1])
      BY <1>2, <1>3, <3>1
    <3>3. QED
      BY <1>1, <2>2, <3>1, <3>2
  <2>3. \A k \in 0 .. n : k \in T
    <3> HIDE DEF T
    <3>1. QED
      BY <1>1, <2>1, <2>2, UpTo
  <2>4. QED
    BY <1>1, <2>3
<1>5. n + 1 \in 1 .. n + 1 /\ (n + 1) - 1 = n
  BY <1>1
<1>6. q[n + 1] = NextLine(q[n], u[n + 1])
  BY <1>3, <1>5
<1>7. q[n] = Loop(t)
  BY <1>2, <1>4
<1>8. QED
  BY <1>1, <1>3, <1>6, <1>7 DEF u

\* The rounds of "\n\n".join, as those of the loop above.
LEMMA JoinRounds ==
    ASSUME NEW S, NEW t \in Seq(S)
    PROVE  \E r : /\ r[0] = <<>>
                  /\ \A k \in 1 .. Len(t) : r[k] = Glue(r[k - 1], t[k])
                  /\ r[Len(t)] = Join(t)
<1> DEFINE n == Len(t)
           Is(g, k) == g = [s \in SUBSET (1 .. k) |->
                              IF s = {} THEN <<>>
                              ELSE Glue(g[s \ {Max(s)}], t[Max(s)])]
           T == {k \in 0 .. n : \E g : Is(g, k)}
<1>1. n \in Nat /\ DOMAIN t = 1 .. n
  BY LenProperties
<1>2. \E g : Is(g, 0)
  <2> DEFINE g == [s \in SUBSET (1 .. 0) |-> <<>>]
  <2>1. \A s \in SUBSET (1 .. 0) : s = {}
    OBVIOUS
  <2>2. Is(g, 0)
    BY <2>1
  <2>3. QED
    BY <2>2
<1>3. ASSUME NEW k \in 0 .. n - 1, NEW g, Is(g, k)
      PROVE  \E h : Is(h, k + 1)
  <2> DEFINE h == [s \in SUBSET (1 .. k + 1) |->
                     IF k + 1 \in s THEN Glue(g[s \ {k + 1}], t[k + 1]) ELSE g[s]]
  <2>1. k \in Nat
    BY <1>1
  <2>2. ASSUME NEW s \in SUBSET (1 .. k + 1)
        PROVE  h[s] = IF s = {} THEN <<>> ELSE Glue(h[s \ {Max(s)}], t[Max(s)])
    <3>1. CASE k + 1 \in s
      <4>1. Max(s) = k + 1
        BY <2>1, <3>1, MaxIsLast
      <4>2. s \ {k + 1} \in SUBSET (1 .. k) /\ s \ {k + 1} \in SUBSET (1 .. k + 1)
        BY <2>1
      <4>3. h[s \ {k + 1}] = g[s \ {k + 1}]
        BY <4>2
      <4>4. h[s] = Glue(g[s \ {k + 1}], t[k + 1])
        BY <3>1
      <4>5. QED
        BY <3>1, <4>1, <4>3, <4>4
    <3>2. CASE k + 1 \notin s
      <4>1. s \in SUBSET (1 .. k)
        BY <2>1, <3>2
      <4>2. g[s] = IF s = {} THEN <<>> ELSE Glue(g[s \ {Max(s)}], t[Max(s)])
        BY <1>3, <4>1
      <4>3. h[s \ {Max(s)}] = g[s \ {Max(s)}] /\ h[s] = g[s]
        BY <3>2, <4>1
      <4>4. QED
        BY <4>2, <4>3
    <3>3. QED
      BY <3>1, <3>2
  <2> HIDE DEF h
  <2>3. h = [s \in SUBSET (1 .. k + 1) |-> h[s]]
    BY DEF h
  <2>4. Is(h, k + 1)
    BY <2>2, <2>3
  <2>5. QED
    BY <2>4
<1>4. \E g : Is(g, n)
  <2> HIDE DEF Is
  <2>1. 0 \in T
    BY <1>1, <1>2
  <2>2. ASSUME NEW k \in 0 .. n - 1, k \in T
        PROVE  k + 1 \in T
    <3>1. \E g : Is(g, k)
      BY <2>2
    <3>2. \E h : Is(h, k + 1)
      BY <1>3, <3>1
    <3>3. QED
      BY <1>1, <3>2
  <2>3. \A k \in 0 .. n : k \in T
    <3> HIDE DEF T
    <3>1. QED
      BY <1>1, <2>1, <2>2, UpTo
  <2>4. n \in T
    BY <1>1, <2>3
  <2>5. QED
    BY <2>4
<1> DEFINE iter == CHOOSE g : Is(g, n)
<1>5. Is(iter, n)
  BY <1>4
<1>6. Join(t) = iter[1 .. n]
  BY <1>1 DEF Join, FoldLeft, MapThenFoldSet
<1> HIDE DEF iter
<1> DEFINE r == [k \in 0 .. n |-> iter[1 .. k]]
<1>7. r[0] = <<>>
  BY <1>1, <1>5
<1>8. ASSUME NEW k \in 1 .. n
      PROVE  r[k] = Glue(r[k - 1], t[k])
  <2>1. /\ k - 1 \in Nat /\ k \in 1 .. k /\ k = (k - 1) + 1
        /\ 1 .. k \in SUBSET (1 .. n)
    BY <1>1
  <2>2. Max(1 .. k) = k
    BY <2>1 DEF Max
  <2>3. (1 .. k) \ {k} = 1 .. k - 1
    BY <2>1
  <2>4. iter[1 .. k] = Glue(iter[1 .. k - 1], t[k])
    BY <1>5, <2>1, <2>2, <2>3
  <2>5. QED
    BY <1>1, <2>4
<1>9. r[n] = Join(t)
  BY <1>1, <1>6
<1>10. QED
  BY <1>7, <1>8, <1>9

\* Nothing to put together.
LEMMA JoinEmpty == Join(<<>>) = <<>>
<1>1. <<>> \in Seq({}) /\ Len(<<>>) = 0
  OBVIOUS
<1>2. QED
  BY <1>1, JoinRounds

\* One paragraph more is glued to the end.
LEMMA JoinAppend ==
    ASSUME NEW S, NEW t \in Seq(S), NEW l \in S
    PROVE  Join(Append(t, l)) = Glue(Join(t), l)
<1> DEFINE u == Append(t, l)
           n == Len(t)
<1>1. /\ n \in Nat /\ u \in Seq(S) /\ Len(u) = n + 1 /\ u[n + 1] = l
      /\ \A k \in 1 .. n : u[k] = t[k]
  BY LenProperties, AppendProperties
<1>2. PICK r : /\ r[0] = <<>>
               /\ \A k \in 1 .. n : r[k] = Glue(r[k - 1], t[k])
               /\ r[n] = Join(t)
  BY JoinRounds
<1> HIDE DEF u
<1>3. PICK q : /\ q[0] = <<>>
               /\ \A k \in 1 .. n + 1 : q[k] = Glue(q[k - 1], u[k])
               /\ q[n + 1] = Join(u)
  BY <1>1, JoinRounds
<1> DEFINE T == {k \in 0 .. n : q[k] = r[k]}
<1>4. n \in T
  <2>1. 0 \in T
    BY <1>1, <1>2, <1>3
  <2>2. ASSUME NEW k \in 0 .. n - 1, k \in T
        PROVE  k + 1 \in T
    <3>1. k + 1 \in 1 .. n /\ k + 1 \in 1 .. n + 1 /\ k + 1 \in 0 .. n /\ (k + 1) - 1 = k
      BY <1>1
    <3>2. r[k + 1] = Glue(r[k], t[k + 1]) /\ q[k + 1] = Glue(q[k], u[k + 1])
      BY <1>2, <1>3, <3>1
    <3>3. QED
      BY <1>1, <2>2, <3>1, <3>2
  <2>3. \A k \in 0 .. n : k \in T
    <3> HIDE DEF T
    <3>1. QED
      BY <1>1, <2>1, <2>2, UpTo
  <2>4. QED
    BY <1>1, <2>3
<1>5. n + 1 \in 1 .. n + 1 /\ (n + 1) - 1 = n
  BY <1>1
<1>6. q[n + 1] = Glue(q[n], u[n + 1])
  BY <1>3, <1>5
<1>7. q[n] = Join(t)
  BY <1>2, <1>4
<1>8. QED
  BY <1>1, <1>3, <1>6, <1>7 DEF u

\* What holds of the empty sequence and, with a sequence, of one element more, holds
\* of all.
LEMMA SeqInduction ==
    ASSUME NEW S, NEW T, <<>> \in T,
           \A s \in Seq(S), e \in S : s \in T => Append(s, e) \in T
    PROVE  \A s \in Seq(S) : s \in T
<1> SUFFICES ASSUME NEW s \in Seq(S) PROVE s \in T
  OBVIOUS
<1> DEFINE n == Len(s)
           long == {k \in 0 .. n : SubSeq(s, 1, k) \in T}
<1>1. n \in Nat /\ \A k \in 1 .. n : s[k] \in S
  BY LenProperties
<1>2. 0 \in long
  <2>1. SubSeq(s, 1, 0) = <<>>
    BY SubSeqEmpty
  <2>2. SubSeq(s, 1, 0) \in T
    BY <2>1, Zenon
  <2>3. 0 \in 0 .. n
    BY <1>1
  <2>4. QED
    BY <2>2, <2>3
<1>3. ASSUME NEW k \in 0 .. n - 1, k \in long
      PROVE  k + 1 \in long
  <2>1. k + 1 \in 1 .. n /\ (k + 1) - 1 = k /\ k + 1 \in 0 .. n
    BY <1>1
  <2>2. SubSeq(s, 1, k + 1) = Append(SubSeq(s, 1, k), s[k + 1])
    <3>1. 1 \in 1 .. Len(s) /\ k + 1 \in 1 .. Len(s)
      BY <1>1, <2>1
    <3>2. SubSeq(s, 1, k + 1) = Append(SubSeq(s, 1, (k + 1) - 1), s[k + 1])
      BY <3>1, SubSeqRecursiveSecond
    <3>3. QED
      BY <2>1, <3>2
  <2>3. SubSeq(s, 1, k) \in Seq(S)
    <3>1. \A i \in 1 .. k : s[i] \in S
      BY <1>1, <2>1
    <3>2. 1 \in Int /\ k \in Int
      BY <1>1
    <3>3. QED
      BY <3>1, <3>2, SubSeqProperties
  <2>4. SubSeq(s, 1, k) \in T
    BY <1>3
  <2>5. SubSeq(s, 1, k + 1) \in T
    BY <1>1, <2>1, <2>2, <2>3, <2>4
  <2>6. QED
    BY <2>1, <2>5
<1>4. \A k \in 0 .. n : k \in long
  <2> HIDE DEF long
  <2>1. QED
    BY <1>1, <1>2, <1>3, UpTo
<1>5. SubSeq(s, 1, n) \in T
  BY <1>1, <1>4
<1>6. SubSeq(s, 1, n) = s
  BY SubSeqFull
<1>7. QED
  BY <1>5, <1>6

-----------------------------------------------------------------------------
(* Lines and texts.                                                          *)

\* The lines that occur in a text of an author, and the line of NoFile.
Given == (UNION {ToSet(text) : text \in SourceTexts \cup HandWritten}) \cup {Blank, NoFence}

\* What Ru makes of one line.
RuLine(line) == IF line[1] = "en" THEN Words("ru", line[2]) ELSE line

\* The lines that can occur in any text, and the texts.
Lines == Given \cup {RuLine(line) : line \in Given}
Texts == Seq(Lines)

\* Ru leaves blank lines blank and fences as they are.
LEMMA LineFacts ==
    /\ Blank \in Lines /\ NoFence \in Lines
    /\ ~IsFence(Blank) /\ ~IsFence(NoFence) /\ Blank # NoFence
    /\ \A line \in Lines : /\ RuLine(line) \in Lines
                           /\ RuLine(line) = Blank <=> line = Blank
                           /\ IsFence(RuLine(line)) <=> IsFence(line)
                           /\ IsFence(line) => RuLine(line) = line /\ line # NoFence
<1>1. Blank[1] = "blank" /\ NoFence[1] = "none" /\ \A w : Words("ru", w)[1] = "ru"
  BY DEF Blank, NoFence, Words
<1>2. Blank \in Lines /\ NoFence \in Lines
  BY DEF Lines, Given
<1>3. \A line : /\ RuLine(line) = line \/ RuLine(line)[1] = "ru"
                /\ line[1] = "en" => RuLine(line)[1] = "ru"
                /\ line[1] # "en" => RuLine(line) = line
  BY <1>1 DEF RuLine
<1>4. ASSUME NEW line \in Lines
      PROVE  RuLine(line) \in Lines
  <2>1. CASE line \in Given
    BY <2>1 DEF Lines
  <2>2. CASE line \notin Given
    <3>1. PICK l \in Given : line = RuLine(l)
      BY <2>2 DEF Lines
    <3>2. RuLine(line) = line
      BY <1>3, <3>1
    <3>3. QED
      BY <3>2
  <2>3. QED
    BY <2>1, <2>2
<1>5. \A line : /\ RuLine(line) = Blank <=> line = Blank
                /\ IsFence(RuLine(line)) <=> IsFence(line)
                /\ IsFence(line) => RuLine(line) = line /\ line # NoFence
  BY <1>1, <1>3 DEF IsFence
<1>6. QED
  BY <1>1, <1>2, <1>4, <1>5 DEF IsFence

\* A text is a sequence of such lines.
LEMMA TextFacts ==
    ASSUME NEW text \in Texts
    PROVE  /\ Len(text) \in Nat /\ DOMAIN text = 1 .. Len(text)
           /\ \A i \in 1 .. Len(text) : text[i] \in Lines
BY LenProperties DEF Texts

\* What people write is a text.
LEMMA GivenTexts ==
    ASSUME NEW text \in SourceTexts \cup HandWritten
    PROVE  text \in Texts
<1>1. text \in Seq(ToSet(text))
  BY IncrementalAssumption
<1>2. ToSet(text) \subseteq Lines
  BY DEF Lines, Given
<1>3. QED
  BY <1>1, <1>2, SeqMonotonic DEF Texts

\* The translation of a text has as many lines.
LEMMA RuText ==
    ASSUME NEW text \in Texts
    PROVE  /\ Ru(text) \in Texts /\ Len(Ru(text)) = Len(text)
           /\ \A i \in 1 .. Len(text) : Ru(text)[i] = RuLine(text[i])
<1>1. /\ Len(text) \in Nat /\ DOMAIN text = 1 .. Len(text)
      /\ \A i \in 1 .. Len(text) : text[i] \in Lines
  BY TextFacts
<1>2. Ru(text) = [i \in 1 .. Len(text) |-> RuLine(text[i])]
  BY <1>1 DEF Ru, RuLine
<1>3. \A i \in 1 .. Len(text) : RuLine(text[i]) \in Lines
  BY <1>1, LineFacts
<1>4. Ru(text) \in Seq(Lines)
  BY <1>1, <1>2, <1>3
<1>5. QED
  BY <1>1, <1>2, <1>4 DEF Texts

\* There is nothing to translate in nothing.
LEMMA RuEmpty == Ru(<<>>) = <<>> /\ RuAll(<<>>) = <<>>
BY DEF Ru, RuAll

\* Translation goes line by line.
LEMMA RuAppend ==
    ASSUME NEW text \in Texts, NEW line \in Lines
    PROVE  Ru(Append(text, line)) = Append(Ru(text), RuLine(line))
<1> DEFINE u == Append(text, line)
           n == Len(text)
           v == Append(Ru(text), RuLine(line))
<1>1. /\ n \in Nat /\ u \in Texts /\ Len(u) = n + 1 /\ u[n + 1] = line
      /\ \A i \in 1 .. n : u[i] = text[i]
  BY TextFacts, AppendProperties DEF Texts
<1>2. /\ Ru(text) \in Texts /\ Len(Ru(text)) = n /\ RuLine(line) \in Lines
      /\ \A i \in 1 .. n : Ru(text)[i] = RuLine(text[i])
  BY RuText, LineFacts
<1>3. /\ v \in Texts /\ Len(v) = n + 1 /\ v[n + 1] = RuLine(line)
      /\ \A i \in 1 .. n : v[i] = Ru(text)[i]
  BY <1>2, AppendProperties DEF Texts
<1> HIDE DEF u, v
<1>4. Ru(u) \in Texts /\ Len(Ru(u)) = n + 1 /\ \A i \in 1 .. n + 1 : Ru(u)[i] = RuLine(u[i])
  BY <1>1, RuText
<1>5. \A i \in 1 .. n + 1 : i \in 1 .. n \/ i = n + 1
  BY <1>1
<1>6. \A i \in 1 .. n + 1 : Ru(u)[i] = v[i]
  BY <1>1, <1>2, <1>3, <1>4, <1>5
<1>7. Ru(u) = v
  BY <1>3, <1>4, <1>6, SeqEqual DEF Texts
<1>8. QED
  BY <1>7 DEF u, v

\* A part of a text.
LEMMA SubText ==
    ASSUME NEW text \in Texts, NEW m \in 1 .. Len(text) + 1, NEW n \in 0 .. Len(text),
           m <= n + 1
    PROVE  /\ SubSeq(text, m, n) \in Texts
           /\ Len(SubSeq(text, m, n)) = n - m + 1
           /\ \A i \in 1 .. n - m + 1 : SubSeq(text, m, n)[i] = text[m + i - 1]
<1>1. Len(text) \in Nat /\ \A i \in m .. n : text[i] \in Lines
  BY TextFacts
<1>2. m \in Int /\ n \in Int
  BY <1>1
<1>3. /\ SubSeq(text, m, n) \in Seq(Lines)
      /\ Len(SubSeq(text, m, n)) = IF m <= n THEN n - m + 1 ELSE 0
      /\ \A i \in 1 .. n - m + 1 : SubSeq(text, m, n)[i] = text[m + i - 1]
  BY <1>1, <1>2, SubSeqProperties
<1>4. (IF m <= n THEN n - m + 1 ELSE 0) = n - m + 1
  BY <1>1, <1>2
<1>5. QED
  BY <1>3, <1>4 DEF Texts

\* The translation of a part is that part of the translation.
LEMMA RuSub ==
    ASSUME NEW text \in Texts, NEW m \in 1 .. Len(text) + 1, NEW n \in 0 .. Len(text),
           m <= n + 1
    PROVE  Ru(SubSeq(text, m, n)) = SubSeq(Ru(text), m, n)
<1> DEFINE a == SubSeq(text, m, n)
           b == SubSeq(Ru(text), m, n)
           k == n - m + 1
<1>1. Len(text) \in Nat /\ k \in Nat
  BY TextFacts
<1>2. /\ Ru(text) \in Texts /\ Len(Ru(text)) = Len(text)
      /\ \A i \in 1 .. Len(text) : Ru(text)[i] = RuLine(text[i])
  BY RuText
<1>3. a \in Texts /\ Len(a) = k /\ \A i \in 1 .. k : a[i] = text[m + i - 1]
  BY SubText
<1>4. b \in Texts /\ Len(b) = k /\ \A i \in 1 .. k : b[i] = Ru(text)[m + i - 1]
  BY <1>2, SubText
<1> HIDE DEF a, b
<1>5. Ru(a) \in Texts /\ Len(Ru(a)) = k /\ \A i \in 1 .. k : Ru(a)[i] = RuLine(a[i])
  BY <1>3, RuText
<1>6. \A i \in 1 .. k : m + i - 1 \in 1 .. Len(text)
  BY <1>1
<1>7. \A i \in 1 .. k : Ru(a)[i] = b[i]
  BY <1>2, <1>3, <1>4, <1>5, <1>6
<1>8. Ru(a) = b
  BY <1>4, <1>5, <1>7, SeqEqual DEF Texts
<1>9. QED
  BY <1>8 DEF a, b

\* Paragraphs are translated one by one.
LEMMA RuAllAppend ==
    ASSUME NEW ps \in Seq(Texts), NEW p \in Texts
    PROVE  /\ RuAll(ps) \in Seq(Texts) /\ Len(RuAll(ps)) = Len(ps)
           /\ \A k \in 1 .. Len(ps) : RuAll(ps)[k] = Ru(ps[k])
           /\ RuAll(Append(ps, p)) = Append(RuAll(ps), Ru(p))
<1> DEFINE n == Len(ps)
           qs == Append(ps, p)
           rs == Append(RuAll(ps), Ru(p))
<1>1. n \in Nat /\ DOMAIN ps = 1 .. n /\ \A k \in 1 .. n : ps[k] \in Texts
  BY LenProperties
<1>2. RuAll(ps) = [k \in 1 .. n |-> Ru(ps[k])]
  BY <1>1 DEF RuAll
<1>3. \A k \in 1 .. n : Ru(ps[k]) \in Texts
  BY <1>1, RuText
<1>4. /\ RuAll(ps) \in Seq(Texts) /\ Len(RuAll(ps)) = n
      /\ \A k \in 1 .. n : RuAll(ps)[k] = Ru(ps[k])
  BY <1>1, <1>2, <1>3
<1>5. /\ qs \in Seq(Texts) /\ DOMAIN qs = 1 .. n + 1 /\ Len(qs) = n + 1 /\ qs[n + 1] = p
      /\ \A k \in 1 .. n : qs[k] = ps[k]
  BY <1>1, AppendProperties
<1>6. Ru(p) \in Texts
  BY RuText
<1>7. /\ rs \in Seq(Texts) /\ DOMAIN rs = 1 .. n + 1 /\ Len(rs) = n + 1 /\ rs[n + 1] = Ru(p)
      /\ \A k \in 1 .. n : rs[k] = RuAll(ps)[k]
  BY <1>1, <1>4, <1>6, AppendProperties
<1> HIDE DEF qs, rs
<1>8. RuAll(qs) = [k \in 1 .. n + 1 |-> Ru(qs[k])]
  BY <1>5 DEF RuAll
<1>9. rs = [k \in 1 .. n + 1 |-> rs[k]]
  BY <1>7
<1>10. \A k \in 1 .. n + 1 : k \in 1 .. n \/ k = n + 1
  BY <1>1
<1>11. \A k \in 1 .. n + 1 : Ru(qs[k]) = rs[k]
  BY <1>4, <1>5, <1>7, <1>10
<1>12. RuAll(qs) = rs
  BY <1>8, <1>9, <1>11
<1>13. QED
  BY <1>4, <1>12 DEF qs, rs

-----------------------------------------------------------------------------
(* One paragraph.                                                            *)

\* str.strip() cuts blank lines off at both ends.
LEMMA StripFacts ==
    ASSUME NEW text \in Texts
    PROVE  \/ /\ \A i \in 1 .. Len(text) : text[i] = Blank
              /\ Strip(text) = <<>>
           \/ \E m, n \in 1 .. Len(text) :
                 /\ m <= n /\ text[m] # Blank /\ text[n] # Blank
                 /\ \A i \in 1 .. Len(text) : text[i] # Blank => m <= i /\ i <= n
                 /\ Strip(text) = SubSeq(text, m, n)
<1> DEFINE written == {i \in DOMAIN text : text[i] # Blank}
<1>1. Len(text) \in Nat /\ DOMAIN text = 1 .. Len(text)
  BY TextFacts
<1>2. CASE written = {}
  BY <1>1, <1>2 DEF Strip
<1>3. CASE written # {}
  <2>1. Strip(text) = SubSeq(text, Min(written), Max(written))
    BY <1>3 DEF Strip
  <2>2. IsFiniteSet(written) /\ written \subseteq Int
    <3>1. IsFiniteSet(1 .. Len(text))
      BY <1>1, FS_Interval
    <3>2. QED
      BY <1>1, <3>1, FS_Subset
  <2>3. /\ Max(written) \in written
        /\ \A i \in written : i <= Max(written)
    <3>1. \E x \in written : \A y \in written : x >= y
      <4> DEFINE T == {k \in 0 .. Len(text) :
                         written \cap (1 .. k) # {} =>
                            \E x \in written \cap (1 .. k) :
                               \A y \in written \cap (1 .. k) : x >= y}
      <4>1. 0 \in T
        BY <1>1
      <4>2. ASSUME NEW k \in 0 .. Len(text) - 1, k \in T
            PROVE  k + 1 \in T
        <5>1. k \in Nat /\ k + 1 \in 0 .. Len(text) /\ k + 1 \in 1 .. k + 1
          BY <1>1
        <5>2. \A y \in 1 .. k + 1 : y \in 1 .. k \/ y = k + 1
          BY <5>1
        <5>3. CASE k + 1 \in written
          BY <5>1, <5>2, <5>3
        <5>4. CASE k + 1 \notin written
          <6>1. written \cap (1 .. k + 1) = written \cap (1 .. k)
            BY <5>1, <5>2, <5>4
          <6>2. QED
            BY <4>2, <5>1, <6>1
        <5>5. QED
          BY <5>3, <5>4
      <4>3. \A k \in 0 .. Len(text) : k \in T
        <5> HIDE DEF T
        <5>1. QED
          BY <1>1, <4>1, <4>2, UpTo
      <4>4. Len(text) \in T
        <5> HIDE DEF T
        <5>1. QED
          BY <1>1, <4>3
      <4>5. written \cap (1 .. Len(text)) = written
        BY <1>1
      <4>6. QED
        BY <1>3, <4>4, <4>5
    <3> HIDE DEF written
    <3>2. Max(written) \in written /\ \A i \in written : Max(written) >= i
      BY <3>1 DEF Max
    <3>3. QED
      BY <2>2, <3>2
  <2>4. /\ Min(written) \in written
        /\ \A i \in written : Min(written) <= i
    <3> DEFINE R == OpToRel(<, Nat)
    <3>1. \A x, y \in Nat : x < y => <<x, y>> \in R
      BY DEF OpToRel
    <3>2. IsWellFoundedOn(R, Nat)
      BY NatLessThanWellFounded
    <3> HIDE DEF R
    <3>3. written \subseteq Nat
      BY <1>1
    <3> HIDE DEF written
    <3>4. PICK x \in written : \A y \in written : ~ (<<y, x>> \in R)
      BY <1>3, <3>2, <3>3, WFMin
    <3>5. ASSUME NEW y \in written PROVE x <= y
      <4>1. x \in Nat /\ y \in Nat
        BY <3>3
      <4>2. ~ (<<y, x>> \in R)
        BY <3>4
      <4>3. ~ (y < x)
        BY <3>1, <4>1, <4>2
      <4>4. QED
        BY <4>1, <4>3
    <3>6. QED
      BY <3>5 DEF Min
  <2>5. PICK m, n \in written : /\ m = Min(written) /\ n = Max(written)
                                /\ \A i \in written : m <= i /\ i <= n
    BY <2>3, <2>4
  <2>6. m <= n /\ m \in 1 .. Len(text) /\ n \in 1 .. Len(text)
    BY <1>1, <2>5
  <2>7. QED
    BY <1>1, <2>1, <2>5, <2>6
<1>4. QED
  BY <1>2, <1>3

\* A stripped text is a text.
LEMMA StripText ==
    ASSUME NEW text \in Texts
    PROVE  Strip(text) \in Texts
<1>1. <<>> \in Texts
  BY DEF Texts
<1>2. \A m, n \in 1 .. Len(text) : m <= n => SubSeq(text, m, n) \in Texts
  <2> TAKE m, n \in 1 .. Len(text)
  <2> HAVE m <= n
  <2>1. m \in 1 .. Len(text) + 1 /\ n \in 0 .. Len(text) /\ m <= n + 1
    BY TextFacts
  <2>2. QED
    BY <2>1, SubText
<1>3. QED
  BY <1>1, <1>2, StripFacts

\* What begins with a written line loses lines at its end only, and none if it ends
\* with one too.
LEMMA StripEnd ==
    ASSUME NEW text \in Texts, text # <<>>, text[1] # Blank
    PROVE  \E n \in 1 .. Len(text) :
              /\ Strip(text) = SubSeq(text, 1, n) /\ text[n] # Blank
              /\ text[Len(text)] # Blank => n = Len(text) /\ Strip(text) = text
<1>1. Len(text) \in Nat /\ 1 \in 1 .. Len(text) /\ Len(text) \in 1 .. Len(text)
  <2>1. Len(text) \in Nat /\ Len(text) # 0
    BY TextFacts, EmptySeq DEF Texts
  <2>2. QED
    BY <2>1
<1>2. PICK m, n \in 1 .. Len(text) :
         /\ m <= n /\ text[m] # Blank /\ text[n] # Blank
         /\ \A i \in 1 .. Len(text) : text[i] # Blank => m <= i /\ i <= n
         /\ Strip(text) = SubSeq(text, m, n)
  BY <1>1, StripFacts
<1>3. m = 1
  BY <1>1, <1>2
<1>4. text[Len(text)] # Blank => n = Len(text)
  BY <1>1, <1>2
<1>5. SubSeq(text, 1, Len(text)) = text
  BY SubSeqFull DEF Texts
<1>6. QED
  BY <1>2, <1>3, <1>4, <1>5

\* Stripping and translating commute.
LEMMA StripRu ==
    ASSUME NEW text \in Texts
    PROVE  Strip(Ru(text)) = Ru(Strip(text))
<1>1. /\ Len(text) \in Nat
      /\ Ru(text) \in Texts /\ Len(Ru(text)) = Len(text)
      /\ \A i \in 1 .. Len(text) : Ru(text)[i] = Blank <=> text[i] = Blank
  BY TextFacts, RuText, LineFacts
<1>2. CASE \A i \in 1 .. Len(text) : text[i] = Blank
  <2>1. Strip(text) = <<>>
    BY <1>2, StripFacts
  <2>2. Strip(Ru(text)) = <<>>
    BY <1>1, <1>2, StripFacts
  <2>3. QED
    BY <2>1, <2>2, RuEmpty
<1>3. CASE \E i \in 1 .. Len(text) : text[i] # Blank
  <2>1. PICK m, n \in 1 .. Len(text) :
           /\ m <= n /\ text[m] # Blank /\ text[n] # Blank
           /\ \A i \in 1 .. Len(text) : text[i] # Blank => m <= i /\ i <= n
           /\ Strip(text) = SubSeq(text, m, n)
    BY <1>3, StripFacts
  <2>2. PICK k, l \in 1 .. Len(text) :
           /\ k <= l /\ Ru(text)[k] # Blank /\ Ru(text)[l] # Blank
           /\ \A i \in 1 .. Len(text) : Ru(text)[i] # Blank => k <= i /\ i <= l
           /\ Strip(Ru(text)) = SubSeq(Ru(text), k, l)
    BY <1>1, <1>3, StripFacts
  <2>3. /\ Ru(text)[m] # Blank /\ Ru(text)[n] # Blank
        /\ text[k] # Blank /\ text[l] # Blank
    BY <1>1, <2>1, <2>2
  <2>4. k <= m /\ n <= l /\ m <= k /\ l <= n
    BY <2>1, <2>2, <2>3
  <2>5. k = m /\ l = n
    BY <1>1, <2>4
  <2>6. m \in 1 .. Len(text) + 1 /\ n \in 0 .. Len(text) /\ m <= n + 1
    BY <1>1, <2>1
  <2>7. Ru(SubSeq(text, m, n)) = SubSeq(Ru(text), m, n)
    BY <2>6, RuSub
  <2>8. QED
    BY <2>1, <2>2, <2>5, <2>7
<1>4. QED
  BY <1>2, <1>3

-----------------------------------------------------------------------------
(* The loop of split_paragraphs.                                             *)

\* What the loop carries from line to line, and its translation.
Accs == [paragraphs : Seq(Texts), current : Texts, open : Lines]

RuAcc(acc) == [paragraphs |-> RuAll(acc.paragraphs), current |-> Ru(acc.current),
               open |-> acc.open]

\* flush() does the same to a text and to its translation.
LEMMA FlushType ==
    ASSUME NEW acc \in Accs
    PROVE  Flush(acc) \in Accs /\ Flush(RuAcc(acc)) = RuAcc(Flush(acc))
<1> DEFINE s == Strip(acc.current)
           u == RuAcc(acc)
<1>1. acc.paragraphs \in Seq(Texts) /\ acc.current \in Texts /\ acc.open \in Lines
  BY DEF Accs
<1>2. s \in Texts /\ <<>> \in Texts
  BY <1>1, StripText DEF Texts
<1>3. Append(acc.paragraphs, s) \in Seq(Texts)
  BY <1>1, <1>2
<1>4. Flush(acc) = [paragraphs |-> IF s = <<>> THEN acc.paragraphs ELSE Append(acc.paragraphs, s),
                    current |-> <<>>, open |-> acc.open]
  BY DEF Flush, Accs
<1>5. Strip(u.current) = Ru(s)
  BY <1>1, StripRu DEF RuAcc
<1>6. Ru(s) = <<>> <=> s = <<>>
  <2> HIDE DEF s
  <2>1. Len(Ru(s)) = Len(s) /\ Ru(s) \in Texts
    BY <1>2, RuText
  <2>2. QED
    BY <1>2, <2>1, EmptySeq DEF Texts
<1> HIDE DEF s
<1>7. Flush(u) = [paragraphs |-> IF Ru(s) = <<>> THEN u.paragraphs ELSE Append(u.paragraphs, Ru(s)),
                  current |-> <<>>, open |-> acc.open]
  BY <1>5 DEF Flush, RuAcc
<1>8. RuAll(Append(acc.paragraphs, s)) = Append(RuAll(acc.paragraphs), Ru(s))
  BY <1>1, <1>2, RuAllAppend
<1>9. Flush(acc) \in Accs
  BY <1>1, <1>2, <1>3, <1>4 DEF Accs
<1>10. Flush(u) = RuAcc(Flush(acc))
  <2>1. u = [paragraphs |-> RuAll(acc.paragraphs), current |-> Ru(acc.current), open |-> acc.open]
    BY DEF RuAcc
  <2> HIDE DEF u
  <2>2. u.paragraphs = RuAll(acc.paragraphs)
    BY <2>1
  <2>3. CASE s = <<>>
    <3>1. Flush(acc) = [paragraphs |-> acc.paragraphs, current |-> <<>>, open |-> acc.open]
      BY <1>4, <2>3
    <3>2. Flush(u) = [paragraphs |-> RuAll(acc.paragraphs), current |-> <<>>, open |-> acc.open]
      BY <1>6, <1>7, <2>2, <2>3
    <3>3. QED
      BY <3>1, <3>2, RuEmpty DEF RuAcc
  <2>4. CASE s # <<>>
    <3>1. Flush(acc) = [paragraphs |-> Append(acc.paragraphs, s), current |-> <<>>,
                        open |-> acc.open]
      BY <1>4, <2>4
    <3>2. Flush(u) = [paragraphs |-> Append(RuAll(acc.paragraphs), Ru(s)), current |-> <<>>,
                      open |-> acc.open]
      BY <1>6, <1>7, <2>2, <2>4
    <3>3. RuAcc(Flush(acc)) = [paragraphs |-> RuAll(Append(acc.paragraphs, s)),
                               current |-> Ru(<<>>), open |-> acc.open]
      BY <3>1 DEF RuAcc
    <3>4. QED
      BY <1>8, <3>2, <3>3, RuEmpty
  <2>5. QED
    BY <2>3, <2>4
<1>11. QED
  BY <1>9, <1>10

\* A blank line outside a block of code ends a paragraph, every other line belongs to
\* one.
Outside(acc, line) == acc.open = NoFence /\ line = Blank

\* The two branches of the loop.
LEMMA NextLineKinds ==
    ASSUME NEW acc \in Accs, NEW line
    PROVE  NextLine(acc, line) =
              IF Outside(acc, line) THEN Flush(acc)
              ELSE [paragraphs |-> acc.paragraphs, current |-> Append(acc.current, line),
                    open |-> OpenAfter(acc.open, line)]
BY DEF NextLine, Outside

\* A round does the same to a text and to its translation.
LEMMA NextLineType ==
    ASSUME NEW acc \in Accs, NEW line \in Lines
    PROVE  /\ NextLine(acc, line) \in Accs
           /\ RuAcc(acc) \in Accs
           /\ NextLine(RuAcc(acc), RuLine(line)) = RuAcc(NextLine(acc, line))
<1>1. acc.paragraphs \in Seq(Texts) /\ acc.current \in Texts /\ acc.open \in Lines
  BY DEF Accs
<1>2. Append(acc.current, line) \in Texts
  BY <1>1 DEF Texts
<1>3. /\ RuLine(line) \in Lines /\ NoFence \in Lines
      /\ RuLine(line) = Blank <=> line = Blank
      /\ IsFence(RuLine(line)) <=> IsFence(line)
      /\ IsFence(line) => RuLine(line) = line
  BY LineFacts
<1>4. OpenAfter(acc.open, line) \in Lines
  BY <1>1, <1>3 DEF OpenAfter
<1>5. OpenAfter(acc.open, RuLine(line)) = OpenAfter(acc.open, line)
  BY <1>3 DEF OpenAfter
<1>6. Outside(RuAcc(acc), RuLine(line)) <=> Outside(acc, line)
  BY <1>3 DEF Outside, RuAcc
<1>7. Ru(Append(acc.current, line)) = Append(Ru(acc.current), RuLine(line))
  BY <1>1, RuAppend
<1>8. RuAcc(acc) \in Accs
  <2>1. RuAll(acc.paragraphs) \in Seq(Texts)
    <3>1. <<>> \in Texts
      BY DEF Texts
    <3>2. QED
      BY <1>1, <3>1, RuAllAppend
  <2>2. QED
    BY <1>1, <2>1, RuText DEF RuAcc, Accs
<1>9. CASE Outside(acc, line)
  <2>1. NextLine(acc, line) = Flush(acc) /\ NextLine(RuAcc(acc), RuLine(line)) = Flush(RuAcc(acc))
    BY <1>6, <1>8, <1>9, NextLineKinds
  <2>2. QED
    BY <1>8, <2>1, FlushType
<1>10. CASE ~Outside(acc, line)
  <2>1. NextLine(acc, line) = [paragraphs |-> acc.paragraphs, current |-> Append(acc.current, line),
                               open |-> OpenAfter(acc.open, line)]
    BY <1>10, NextLineKinds
  <2>2. NextLine(RuAcc(acc), RuLine(line)) =
           [paragraphs |-> RuAll(acc.paragraphs), current |-> Append(Ru(acc.current), RuLine(line)),
            open |-> OpenAfter(acc.open, RuLine(line))]
    BY <1>6, <1>8, <1>10, NextLineKinds DEF RuAcc
  <2>3. NextLine(acc, line) \in Accs
    BY <1>1, <1>2, <1>4, <2>1 DEF Accs
  <2>4. /\ NextLine(acc, line).paragraphs = acc.paragraphs
        /\ NextLine(acc, line).current = Append(acc.current, line)
        /\ NextLine(acc, line).open = OpenAfter(acc.open, line)
    BY <2>1
  <2>5. NextLine(RuAcc(acc), RuLine(line)) = RuAcc(NextLine(acc, line))
    BY <1>5, <1>7, <2>2, <2>4 DEF RuAcc
  <2>6. QED
    BY <1>8, <2>3, <2>5
<1>11. QED
  BY <1>9, <1>10

\* The loop does the same to a text and to its translation.
LEMMA LoopType ==
    ASSUME NEW text \in Texts
    PROVE  /\ Loop(text) \in Accs
           /\ Loop(Ru(text)) = RuAcc(Loop(text))
<1> DEFINE T == {t \in Texts : Loop(t) \in Accs /\ Loop(Ru(t)) = RuAcc(Loop(t))}
<1>1. <<>> \in T
  <2>1. <<>> \in Texts /\ <<>> \in Seq(Texts)
    BY DEF Texts
  <2>2. Start \in Accs
    BY <2>1, LineFacts DEF Start, Accs
  <2>3. RuAcc(Start) = Start
    BY RuEmpty DEF Start, RuAcc
  <2>4. QED
    BY <2>1, <2>2, <2>3, LoopEmpty, RuEmpty
<1>2. ASSUME NEW t \in Texts, NEW line \in Lines, t \in T
      PROVE  Append(t, line) \in T
  <2>1. Append(t, line) \in Texts
    BY DEF Texts
  <2>2. Loop(t) \in Accs /\ Loop(Ru(t)) = RuAcc(Loop(t))
    BY <1>2
  <2>3. Loop(Append(t, line)) = NextLine(Loop(t), line)
    BY LoopAppend DEF Texts
  <2>4. Ru(t) \in Texts /\ RuLine(line) \in Lines
    BY RuText, LineFacts
  <2>5. Loop(Append(Ru(t), RuLine(line))) = NextLine(Loop(Ru(t)), RuLine(line))
    BY <2>4, LoopAppend DEF Texts
  <2>6. Ru(Append(t, line)) = Append(Ru(t), RuLine(line))
    BY RuAppend
  <2>7. QED
    BY <2>1, <2>2, <2>3, <2>5, <2>6, NextLineType
<1>3. \A t \in Texts : t \in T
  <2> HIDE DEF T
  <2>1. QED
    BY <1>1, <1>2, SeqInduction DEF Texts
<1>4. QED
  BY <1>3

\* Splitting commutes with translating.
LEMMA SplitRu ==
    ASSUME NEW text \in Texts
    PROVE  /\ Split(text) \in Seq(Texts)
           /\ Split(Ru(text)) = RuAll(Split(text))
           /\ ClosesBlocks(Ru(text)) <=> ClosesBlocks(text)
<1>1. Loop(text) \in Accs /\ Loop(Ru(text)) = RuAcc(Loop(text))
  BY LoopType
<1>2. Flush(Loop(text)) \in Accs /\ Flush(RuAcc(Loop(text))) = RuAcc(Flush(Loop(text)))
  BY <1>1, FlushType
<1>3. Split(text) \in Seq(Texts)
  BY <1>2 DEF Split, Accs
<1>4. Split(Ru(text)) = RuAll(Split(text))
  BY <1>1, <1>2 DEF Split, RuAcc
<1>5. ClosesBlocks(Ru(text)) <=> ClosesBlocks(text)
  BY <1>1 DEF ClosesBlocks, RuAcc
<1>6. QED
  BY <1>3, <1>4, <1>5

-----------------------------------------------------------------------------
(* What Split finds is what Join puts together.                              *)

\* The loop takes the text for one paragraph that has not ended yet.
Unbroken(text) == Loop(text).paragraphs = <<>> /\ Loop(text).current = text

\* A paragraph as Split gives it.
Whole(text) ==
    /\ text \in Texts /\ text # <<>>
    /\ text[1] # Blank /\ text[Len(text)] # Blank
    /\ Unbroken(text)

\* A line breaks a text if it is blank and outside of all blocks.
LEMMA UnbrokenAppend ==
    ASSUME NEW text \in Texts, NEW line \in Lines
    PROVE  Unbroken(Append(text, line)) <=>
              Unbroken(text) /\ ~Outside(Loop(text), line)
<1>1. Loop(text) \in Accs
  BY LoopType
<1>2. Loop(Append(text, line)) = NextLine(Loop(text), line)
  BY LoopAppend DEF Texts
<1>3. CASE Outside(Loop(text), line)
  <2>1. Loop(Append(text, line)).current = <<>>
    BY <1>1, <1>2, <1>3, NextLineKinds DEF Flush
  <2>2. Append(text, line) # <<>>
    BY AppendProperties DEF Texts
  <2>3. QED
    BY <1>3, <2>1, <2>2 DEF Unbroken
<1>4. CASE ~Outside(Loop(text), line)
  <2>1. /\ Loop(Append(text, line)).paragraphs = Loop(text).paragraphs
        /\ Loop(Append(text, line)).current = Append(Loop(text).current, line)
    BY <1>1, <1>2, <1>4, NextLineKinds
  <2>2. Loop(text).current \in Texts
    BY <1>1 DEF Accs
  <2>3. Append(Loop(text).current, line) = Append(text, line) <=> Loop(text).current = text
    BY <2>2, AppendInjective DEF Texts
  <2>4. QED
    BY <1>4, <2>1, <2>3 DEF Unbroken
<1>5. QED
  BY <1>3, <1>4

\* What begins a text that does not break does not break either.
LEMMA PrefixUnbroken ==
    ASSUME NEW text \in Texts, Unbroken(text), NEW n \in 0 .. Len(text)
    PROVE  Unbroken(SubSeq(text, 1, n))
<1> DEFINE T == {t \in Texts : Unbroken(t) => \A k \in 0 .. Len(t) : Unbroken(SubSeq(t, 1, k))}
<1>1. <<>> \in T
  <2>1. <<>> \in Texts /\ Len(<<>>) = 0
    BY DEF Texts
  <2>2. \A k \in 0 .. 0 : SubSeq(<<>>, 1, k) = <<>>
    BY SubSeqEmpty
  <2>3. QED
    BY <2>1, <2>2
<1>2. ASSUME NEW t \in Texts, NEW line \in Lines, t \in T
      PROVE  Append(t, line) \in T
  <2> DEFINE u == Append(t, line)
  <2>1. u \in Texts /\ Len(u) = Len(t) + 1 /\ Len(t) \in Nat /\ \A i \in 1 .. Len(t) : u[i] = t[i]
    BY AppendProperties, TextFacts DEF Texts
  <2>2. SUFFICES ASSUME Unbroken(u), NEW k \in 0 .. Len(u)
                 PROVE  Unbroken(SubSeq(u, 1, k))
    BY <2>1
  <2>3. Unbroken(t)
    BY <2>2, UnbrokenAppend
  <2> HIDE DEF u
  <2>4. CASE k = Len(u)
    BY <2>1, <2>2, <2>4, SubSeqFull DEF Texts
  <2>5. CASE k # Len(u)
    <3>1. k \in 0 .. Len(t)
      BY <2>1, <2>5
    <3>2. SubSeq(u, 1, k) = SubSeq(t, 1, k)
      <4>1. 1 \in 1 .. Len(u) + 1 /\ k \in 0 .. Len(u) /\ 1 \in 1 .. Len(t) + 1 /\ 1 <= k + 1
        BY <2>1, <3>1
      <4>2. /\ SubSeq(u, 1, k) \in Texts /\ Len(SubSeq(u, 1, k)) = k - 1 + 1
            /\ \A i \in 1 .. k - 1 + 1 : SubSeq(u, 1, k)[i] = u[1 + i - 1]
        BY <2>1, <4>1, SubText
      <4>3. /\ SubSeq(t, 1, k) \in Texts /\ Len(SubSeq(t, 1, k)) = k - 1 + 1
            /\ \A i \in 1 .. k - 1 + 1 : SubSeq(t, 1, k)[i] = t[1 + i - 1]
        BY <3>1, <4>1, SubText
      <4>4. k - 1 + 1 = k /\ \A i \in 1 .. k : 1 + i - 1 = i /\ i \in 1 .. Len(t)
        BY <2>1, <3>1
      <4>5. \A i \in 1 .. k : SubSeq(u, 1, k)[i] = SubSeq(t, 1, k)[i]
        BY <2>1, <4>2, <4>3, <4>4
      <4>6. QED
        BY <4>2, <4>3, <4>4, <4>5, SeqEqual DEF Texts
    <3>3. Unbroken(SubSeq(t, 1, k))
      BY <1>2, <2>3, <3>1
    <3>4. QED
      BY <3>2, <3>3
  <2>6. QED
    BY <2>4, <2>5
<1>3. \A t \in Texts : t \in T
  <2> HIDE DEF T
  <2>1. QED
    BY <1>1, <1>2, SeqInduction DEF Texts
<1>4. QED
  BY <1>3

\* A paragraph appended to a text that has ended one is taken in as it is.
LEMMA LoopConcat ==
    ASSUME NEW text \in Texts, Loop(text).current = <<>>, Loop(text).open = NoFence,
           NEW p \in Texts, Unbroken(p)
    PROVE  Loop(text \o p) = [paragraphs |-> Loop(text).paragraphs, current |-> p,
                              open |-> Loop(p).open]
<1> DEFINE Taken(t) == Loop(text \o t) = [paragraphs |-> Loop(text).paragraphs, current |-> t,
                                          open |-> Loop(t).open]
           T == {t \in Texts : Unbroken(t) => Taken(t)}
<1>1. <<>> \in T
  <2>1. <<>> \in Texts /\ text \o <<>> = text
    BY ConcatEmptySeq DEF Texts
  <2>2. Loop(text) = [paragraphs |-> Loop(text).paragraphs, current |-> <<>>, open |-> NoFence]
    BY LoopType DEF Accs
  <2>3. Taken(<<>>)
    BY <2>1, <2>2, LoopEmpty DEF Start
  <2>4. QED
    BY <2>1, <2>3
<1>2. ASSUME NEW t \in Texts, NEW line \in Lines, t \in T
      PROVE  Append(t, line) \in T
  <2> DEFINE u == Append(t, line)
  <2>1. u \in Texts
    BY DEF Texts
  <2>2. SUFFICES ASSUME Unbroken(u) PROVE Taken(u)
    BY <2>1
  <2>3. Unbroken(t) /\ ~Outside(Loop(t), line)
    BY <2>2, UnbrokenAppend
  <2>4. Taken(t)
    BY <1>2, <2>3
  <2>5. text \o t \in Texts /\ text \o u = Append(text \o t, line)
    <3>1. t \o <<line>> = u /\ <<line>> \in Seq(Lines)
      BY AppendIsConcat DEF Texts
    <3>2. text \o t \in Seq(Lines)
      BY ConcatProperties DEF Texts
    <3>3. (text \o t) \o <<line>> = Append(text \o t, line)
      BY <3>2, AppendIsConcat
    <3>4. (text \o t) \o <<line>> = text \o (t \o <<line>>)
      BY <3>1, ConcatAssociative DEF Texts
    <3>5. QED
      BY <3>1, <3>2, <3>3, <3>4 DEF Texts
  <2>6. Loop(text \o u) = NextLine(Loop(text \o t), line)
    BY <2>5, LoopAppend DEF Texts
  <2>7. Loop(text \o t) \in Accs /\ Loop(t) \in Accs
    BY <2>5, LoopType
  <2>8. ~Outside(Loop(text \o t), line)
    BY <2>3, <2>4 DEF Outside
  <2>9. Loop(text \o u) = [paragraphs |-> Loop(text).paragraphs, current |-> u,
                           open |-> OpenAfter(Loop(t).open, line)]
    BY <2>4, <2>6, <2>7, <2>8, NextLineKinds
  <2>10. Loop(u) = NextLine(Loop(t), line)
    BY LoopAppend DEF Texts
  <2>11. Loop(u).open = OpenAfter(Loop(t).open, line)
    BY <2>3, <2>7, <2>10, NextLineKinds
  <2>12. QED
    BY <2>9, <2>11
<1>3. \A t \in Texts : t \in T
  <2> HIDE DEF T
  <2>1. QED
    BY <1>1, <1>2, SeqInduction DEF Texts
<1>4. QED
  BY <1>3

\* The paragraphs of a text: all of them whole, and none but the last leaves a block of
\* code open.
Parts(ps) ==
    /\ ps \in Seq(Texts)
    /\ \A k \in 1 .. Len(ps) : Whole(ps[k]) /\ (k < Len(ps) => ClosesBlocks(ps[k]))

\* None of the paragraphs leaves a block open.
AllClose(ps) == \A k \in 1 .. Len(ps) : ClosesBlocks(ps[k])

\* What the loop has found so far.
Found(acc) ==
    /\ acc \in Accs
    /\ \A k \in 1 .. Len(acc.paragraphs) : Whole(acc.paragraphs[k]) /\ ClosesBlocks(acc.paragraphs[k])
    /\ Unbroken(acc.current) /\ Loop(acc.current).open = acc.open
    /\ acc.current # <<>> =>
          /\ acc.current[1] # Blank
          /\ acc.open = NoFence => acc.current[Len(acc.current)] # Blank

\* Before the first line nothing is open.
LEMMA NothingUnbroken == Unbroken(<<>>) /\ Loop(<<>>).open = NoFence
BY LoopEmpty DEF Unbroken, Start

\* The paragraph in hand, as Flush appends it.
LEMMA FlushFound ==
    ASSUME NEW acc, Found(acc)
    PROVE  /\ acc.current # <<>> => Whole(Strip(acc.current))
           /\ acc.open = NoFence =>
                 /\ Strip(acc.current) = acc.current
                 /\ Found(Flush(acc))
<1> DEFINE c == acc.current
<1>1. c \in Texts /\ acc.paragraphs \in Seq(Texts) /\ acc.open \in Lines /\ Flush(acc) \in Accs
  BY FlushType DEF Found, Accs
<1>2. Unbroken(c) /\ Loop(c).open = acc.open
  BY DEF Found
<1>3. CASE c = <<>>
  <2>1. Strip(c) = <<>>
    <3>1. <<>> \in Texts /\ Len(<<>>) = 0
      BY DEF Texts
    <3>2. QED
      BY <1>3, <3>1, StripFacts
  <2>2. Flush(acc) = acc
    BY <1>3, <2>1 DEF Flush, Found, Accs
  <2>3. QED
    BY <1>3, <2>1, <2>2
<1>4. CASE c # <<>>
  <2>1. c[1] # Blank /\ (acc.open = NoFence => c[Len(c)] # Blank)
    BY <1>4 DEF Found
  <2> HIDE DEF c
  <2>2. PICK n \in 1 .. Len(c) :
           /\ Strip(c) = SubSeq(c, 1, n) /\ c[n] # Blank
           /\ c[Len(c)] # Blank => n = Len(c) /\ Strip(c) = c
    BY <1>1, <1>4, <2>1, StripEnd
  <2>3. Len(c) \in Nat /\ 1 \in 1 .. Len(c) + 1 /\ n \in 0 .. Len(c) /\ 1 <= n + 1 /\ n - 1 + 1 = n
        /\ 1 \in 1 .. n /\ n \in 1 .. n /\ 1 + 1 - 1 = 1 /\ 1 + n - 1 = n
    BY <1>1, TextFacts
  <2>4. /\ Strip(c) \in Texts /\ Len(Strip(c)) = n
        /\ Strip(c)[1] = c[1] /\ Strip(c)[n] = c[n]
    <3>1. /\ SubSeq(c, 1, n) \in Texts /\ Len(SubSeq(c, 1, n)) = n - 1 + 1
          /\ \A i \in 1 .. n - 1 + 1 : SubSeq(c, 1, n)[i] = c[1 + i - 1]
      BY <1>1, <2>3, SubText
    <3>2. QED
      BY <2>2, <2>3, <3>1
  <2>5. Unbroken(Strip(c))
    BY <1>1, <1>2, <2>2, <2>3, PrefixUnbroken
  <2>6. Strip(c) # <<>>
    BY <2>3, <2>4
  <2>7. Whole(Strip(c))
    BY <2>1, <2>2, <2>4, <2>5, <2>6 DEF Whole
  <2>8. ASSUME acc.open = NoFence
        PROVE  Strip(c) = c /\ Found(Flush(acc))
    <3>1. Strip(c) = c
      BY <2>1, <2>2, <2>8
    <3>2. Whole(c) /\ ClosesBlocks(c)
      BY <1>2, <2>7, <2>8, <3>1 DEF ClosesBlocks
    <3>3. /\ Flush(acc).paragraphs = Append(acc.paragraphs, c)
          /\ Flush(acc).current = <<>> /\ Flush(acc).open = NoFence
      BY <1>4, <2>8, <3>1 DEF Flush, c
    <3>4. \A k \in 1 .. Len(acc.paragraphs) : Whole(acc.paragraphs[k]) /\ ClosesBlocks(acc.paragraphs[k])
      BY DEF Found
    <3> DEFINE qs == Append(acc.paragraphs, c)
               m == Len(acc.paragraphs)
    <3>5. /\ m \in Nat /\ Len(qs) = m + 1 /\ qs[m + 1] = c
          /\ \A k \in 1 .. m : qs[k] = acc.paragraphs[k]
      BY <1>1, AppendProperties, LenProperties
    <3> HIDE DEF qs
    <3>6. \A k \in 1 .. Len(qs) : Whole(qs[k]) /\ ClosesBlocks(qs[k])
      <4>1. \A k \in 1 .. m + 1 : k \in 1 .. m \/ k = m + 1
        BY <3>5
      <4>2. QED
        BY <3>2, <3>4, <3>5, <4>1
    <3>7. QED
      BY <1>1, <3>1, <3>3, <3>6, NothingUnbroken DEF Found, qs
  <2>9. QED
    BY <2>7, <2>8 DEF c
<1>5. QED
  BY <1>3, <1>4

\* After any number of lines the loop has found whole paragraphs that close their blocks.
LEMMA LoopFound ==
    ASSUME NEW text \in Texts
    PROVE  Found(Loop(text))
<1> DEFINE T == {t \in Texts : Found(Loop(t))}
<1>1. <<>> \in T
  <2>1. <<>> \in Texts /\ Loop(<<>>) \in Accs
    <3>1. <<>> \in Texts
      BY DEF Texts
    <3>2. QED
      BY <3>1, LoopType
  <2>2. /\ Loop(<<>>).paragraphs = <<>> /\ Loop(<<>>).current = <<>>
        /\ Loop(<<>>).open = NoFence
    BY LoopEmpty DEF Start
  <2>3. QED
    BY <2>1, <2>2, NothingUnbroken DEF Found
<1>2. ASSUME NEW t \in Texts, NEW line \in Lines, t \in T
      PROVE  Append(t, line) \in T
  <2> DEFINE acc == Loop(t)
             next == Loop(Append(t, line))
             c == acc.current
             d == Append(c, line)
  <2>1. Append(t, line) \in Texts
    BY DEF Texts
  <2>2. Found(acc)
    BY <1>2
  <2>3. next = NextLine(acc, line) /\ next \in Accs
    BY <2>1, LoopAppend, LoopType DEF Texts
  <2>4. acc \in Accs /\ c \in Texts /\ Unbroken(c) /\ Loop(c).open = acc.open /\ Loop(c) \in Accs
    <3>1. acc \in Accs /\ Unbroken(c) /\ Loop(c).open = acc.open
      BY <2>2 DEF Found
    <3>2. c \in Texts
      BY <3>1 DEF Accs
    <3>3. QED
      BY <3>1, <3>2, LoopType
  <2> HIDE DEF acc, next
  <2>5. CASE Outside(acc, line)
    <3>1. next = Flush(acc) /\ acc.open = NoFence
      BY <2>3, <2>4, <2>5, NextLineKinds DEF Outside
    <3>2. Found(next)
      BY <2>2, <3>1, FlushFound
    <3>3. QED
      BY <2>1, <3>2 DEF next
  <2>6. CASE ~Outside(acc, line)
    <3>1. /\ next.paragraphs = acc.paragraphs /\ next.current = d
          /\ next.open = OpenAfter(acc.open, line)
      BY <2>3, <2>4, <2>6, NextLineKinds
    <3>2. ~Outside(Loop(c), line)
      BY <2>4, <2>6 DEF Outside
    <3>3. Unbroken(d)
      BY <2>4, <3>2, UnbrokenAppend
    <3>4. Loop(d) = NextLine(Loop(c), line)
      BY <2>4, LoopAppend DEF Texts
    <3>5. Loop(d).open = OpenAfter(acc.open, line)
      BY <2>4, <3>2, <3>4, NextLineKinds
    <3>6. /\ Len(c) \in Nat /\ Len(d) = Len(c) + 1 /\ d[Len(c) + 1] = line
          /\ \A i \in 1 .. Len(c) : d[i] = c[i]
      BY <2>4, TextFacts, AppendProperties DEF Texts
    <3>7. d[1] # Blank
      <4>1. CASE c = <<>>
        <5>1. acc.open = NoFence
          BY <2>4, <4>1, NothingUnbroken
        <5>2. line # Blank /\ Len(c) = 0
          BY <2>6, <4>1, <5>1 DEF Outside
        <5>3. QED
          BY <3>6, <5>2
      <4>2. CASE c # <<>>
        <5>1. c[1] # Blank
          BY <2>2, <4>2 DEF Found
        <5>2. Len(c) # 0
          BY <2>4, <4>2, EmptySeq DEF Texts
        <5>3. QED
          BY <3>6, <5>1, <5>2
      <4>3. QED
        BY <4>1, <4>2
    <3>8. next.open = NoFence => d[Len(d)] # Blank
      <4>1. line = Blank => next.open = acc.open
        BY <3>1, LineFacts DEF OpenAfter
      <4>2. line = Blank => acc.open # NoFence
        BY <2>6 DEF Outside
      <4>3. QED
        BY <3>6, <4>1, <4>2
    <3>9. \A k \in 1 .. Len(acc.paragraphs) : Whole(acc.paragraphs[k]) /\ ClosesBlocks(acc.paragraphs[k])
      BY <2>2 DEF Found
    <3> HIDE DEF d
    <3>10. Found(next)
      BY <2>3, <3>1, <3>3, <3>5, <3>7, <3>8, <3>9 DEF Found
    <3>11. QED
      BY <2>1, <3>10 DEF next
  <2>7. QED
    BY <2>5, <2>6
<1>3. \A t \in Texts : t \in T
  <2> HIDE DEF T
  <2>1. QED
    BY <1>1, <1>2, SeqInduction DEF Texts
<1>4. QED
  BY <1>3

\* split_paragraphs finds whole paragraphs; only the last one can leave a block open.
LEMMA SplitParts ==
    ASSUME NEW text \in Texts
    PROVE  Parts(Split(text)) /\ (ClosesBlocks(text) => AllClose(Split(text)))
<1> DEFINE acc == Loop(text)
           p == Strip(acc.current)
           ps == acc.paragraphs
<1>1. Found(acc)
  BY LoopFound
<1>2. acc \in Accs /\ ps \in Seq(Texts) /\ acc.current \in Texts
  <2>1. acc \in Accs
    BY <1>1 DEF Found
  <2>2. QED
    BY <2>1 DEF Accs
<1>3. \A k \in 1 .. Len(ps) : Whole(ps[k]) /\ ClosesBlocks(ps[k])
  BY <1>1 DEF Found
<1> HIDE DEF acc
<1>4. CASE p = <<>>
  <2>1. Split(text) = ps
    BY <1>4 DEF Split, Flush, acc
  <2>2. QED
    BY <1>2, <1>3, <2>1 DEF Parts, AllClose
<1>5. CASE p # <<>>
  <2>1. Split(text) = Append(ps, p)
    BY <1>5 DEF Split, Flush, acc
  <2>2. acc.current # <<>>
    <3>1. <<>> \in Texts /\ Len(<<>>) = 0
      BY DEF Texts
    <3>2. Strip(<<>>) = <<>>
      BY <3>1, StripFacts
    <3>3. QED
      BY <1>5, <3>2
  <2>3. Whole(p)
    BY <1>1, <2>2, FlushFound
  <2>4. p \in Texts
    BY <2>3 DEF Whole
  <2>5. ASSUME ClosesBlocks(text)
        PROVE  ClosesBlocks(p)
    <3>1. acc.open = NoFence
      BY <2>5 DEF ClosesBlocks, acc
    <3>2. p = acc.current
      BY <1>1, <3>1, FlushFound
    <3>3. Loop(acc.current).open = acc.open
      BY <1>1 DEF Found
    <3>4. QED
      BY <3>1, <3>2, <3>3 DEF ClosesBlocks
  <2> DEFINE qs == Append(ps, p)
             m == Len(ps)
  <2>6. /\ qs \in Seq(Texts) /\ m \in Nat /\ Len(qs) = m + 1 /\ qs[m + 1] = p
        /\ \A k \in 1 .. m : qs[k] = ps[k]
    BY <1>2, <2>4, AppendProperties, LenProperties
  <2>7. \A k \in 1 .. m + 1 : (k \in 1 .. m \/ k = m + 1) /\ (k < m + 1 => k \in 1 .. m)
    BY <2>6
  <2> HIDE DEF qs, p
  <2>8. Parts(qs)
    BY <1>3, <2>3, <2>6, <2>7 DEF Parts
  <2>9. ClosesBlocks(p) => AllClose(qs)
    BY <1>3, <2>6, <2>7 DEF AllClose
  <2>10. QED
    BY <2>1, <2>5, <2>8, <2>9 DEF qs
<1>6. QED
  BY <1>4, <1>5

\* Texts make a text.
LEMMA JoinText ==
    ASSUME NEW ps \in Seq(Texts)
    PROVE  Join(ps) \in Texts
<1> DEFINE T == {qs \in Seq(Texts) : Join(qs) \in Texts}
<1>1. <<>> \in T
  <2>1. <<>> \in Seq(Texts) /\ <<>> \in Texts
    BY DEF Texts
  <2>2. QED
    BY <2>1, JoinEmpty
<1>2. ASSUME NEW qs \in Seq(Texts), NEW p \in Texts, qs \in T
      PROVE  Append(qs, p) \in T
  <2>1. Append(qs, p) \in Seq(Texts) /\ Join(qs) \in Texts /\ <<Blank>> \in Texts
    BY <1>2, LineFacts DEF Texts
  <2>2. Join(qs) \o <<Blank>> \in Texts
    BY <2>1, ConcatProperties DEF Texts
  <2>3. Join(qs) \o <<Blank>> \o p \in Texts
    BY <2>2, ConcatProperties DEF Texts
  <2>4. Join(Append(qs, p)) \in Texts
    BY <2>3, JoinAppend DEF Glue
  <2>5. QED
    BY <2>1, <2>4
<1>3. \A qs \in Seq(Texts) : qs \in T
  <2> HIDE DEF T
  <2>1. QED
    BY <1>1, <1>2, SeqInduction
<1>4. QED
  BY <1>3

\* All paragraphs before the last one close their blocks.
LEMMA PartsAppend ==
    ASSUME NEW qs \in Seq(Texts), NEW p \in Texts, Parts(Append(qs, p))
    PROVE  Parts(qs) /\ AllClose(qs) /\ Whole(p)
<1> DEFINE ps == Append(qs, p)
           n == Len(qs)
<1>1. /\ n \in Nat /\ Len(ps) = n + 1 /\ ps[n + 1] = p
      /\ \A k \in 1 .. n : ps[k] = qs[k]
  BY LenProperties, AppendProperties
<1>2. \A k \in 1 .. Len(ps) : Whole(ps[k]) /\ (k < Len(ps) => ClosesBlocks(ps[k]))
  BY DEF Parts
<1>3. (\A k \in 1 .. n : k \in 1 .. n + 1 /\ k < n + 1) /\ n + 1 \in 1 .. n + 1
  BY <1>1
<1> HIDE DEF ps
<1>4. \A k \in 1 .. n : Whole(qs[k]) /\ ClosesBlocks(qs[k])
  BY <1>1, <1>2, <1>3
<1>5. QED
  BY <1>1, <1>2, <1>3, <1>4 DEF Parts, AllClose

\* The loop over joined paragraphs: all but the last are found, the last is in hand.
LEMMA JoinLoop ==
    ASSUME NEW qs \in Seq(Texts), NEW p \in Texts, Parts(Append(qs, p))
    PROVE  Loop(Join(Append(qs, p))) = [paragraphs |-> qs, current |-> p, open |-> Loop(p).open]
<1> DEFINE Good(rs, q) == Parts(Append(rs, q)) =>
              Loop(Join(Append(rs, q))) = [paragraphs |-> rs, current |-> q, open |-> Loop(q).open]
           T == {rs \in Seq(Texts) : \A q \in Texts : Good(rs, q)}
<1>1. <<>> \in T
  <2>1. <<>> \in Seq(Texts)
    OBVIOUS
  <2>2. ASSUME NEW q \in Texts, Parts(Append(<<>>, q))
        PROVE  Loop(Join(Append(<<>>, q))) = [paragraphs |-> <<>>, current |-> q, open |-> Loop(q).open]
    <3>1. Join(Append(<<>>, q)) = q
      BY <2>1, JoinAppend, JoinEmpty DEF Glue
    <3>2. Loop(q) \in Accs /\ Unbroken(q)
      BY <2>1, <2>2, PartsAppend, LoopType DEF Whole
    <3>3. QED
      BY <3>1, <3>2 DEF Unbroken, Accs
  <2>3. QED
    BY <2>1, <2>2
<1>2. ASSUME NEW rs \in Seq(Texts), NEW r \in Texts, rs \in T
      PROVE  Append(rs, r) \in T
  <2> DEFINE ss == Append(rs, r)
  <2>1. ss \in Seq(Texts)
    OBVIOUS
  <2>2. SUFFICES ASSUME NEW q \in Texts, Parts(Append(ss, q))
                 PROVE  Loop(Join(Append(ss, q))) = [paragraphs |-> ss, current |-> q, open |-> Loop(q).open]
    BY <2>1
  <2>3. Parts(ss) /\ AllClose(ss) /\ Whole(q)
    BY <2>1, <2>2, PartsAppend
  <2>4. Whole(r) /\ ClosesBlocks(r)
    <3>1. /\ Len(rs) \in Nat /\ Len(ss) = Len(rs) + 1 /\ ss[Len(rs) + 1] = r
      BY LenProperties, AppendProperties
    <3>2. Len(ss) \in 1 .. Len(ss) /\ ss[Len(ss)] = r
      BY <3>1
    <3>3. QED
      BY <2>3, <3>2 DEF Parts, AllClose
  <2> DEFINE a == Join(ss)
             b == Append(a, Blank)
  <2>5. Loop(a) = [paragraphs |-> rs, current |-> r, open |-> NoFence]
    BY <1>2, <2>3, <2>4 DEF ClosesBlocks
  <2>6. a \in Texts /\ a # <<>>
    <3>1. a \in Texts
      BY <2>1, JoinText
    <3>2. Loop(a).current # <<>>
      BY <2>4, <2>5 DEF Whole
    <3>3. QED
      BY <3>1, <3>2, LoopEmpty DEF Start
  <2> HIDE DEF a, ss
  <2>7. b \in Texts /\ b = a \o <<Blank>> /\ Loop(b) = NextLine(Loop(a), Blank)
    BY <2>6, LineFacts, LoopAppend, AppendIsConcat DEF Texts
  <2>8. Join(Append(ss, q)) = b \o q
    BY <2>1, <2>6, <2>7, JoinAppend DEF Glue, a
  <2>9. Found(Loop(a)) /\ Loop(a) \in Accs
    BY <2>6, LoopFound, LoopType
  <2>10. Loop(b) = Flush(Loop(a))
    BY <2>5, <2>7, <2>9, NextLineKinds DEF Outside
  <2>11. Strip(r) = r /\ r # <<>>
    BY <2>4, <2>5, <2>9, FlushFound DEF Whole
  <2>12. Loop(b) = [paragraphs |-> ss, current |-> <<>>, open |-> NoFence]
    BY <2>5, <2>10, <2>11 DEF Flush, ss
  <2> HIDE DEF b
  <2>13. Loop(b \o q) = [paragraphs |-> ss, current |-> q, open |-> Loop(q).open]
    <3>1. Loop(b).paragraphs = ss /\ Loop(b).current = <<>> /\ Loop(b).open = NoFence
      BY <2>12
    <3>2. Unbroken(q)
      BY <2>3 DEF Whole
    <3>3. Loop(b \o q) = [paragraphs |-> Loop(b).paragraphs, current |-> q, open |-> Loop(q).open]
      BY <2>7, <3>1, <3>2, LoopConcat
    <3>4. QED
      BY <3>1, <3>3
  <2>14. QED
    BY <2>8, <2>13
<1>3. \A rs \in Seq(Texts) : rs \in T
  <2> HIDE DEF T
  <2>1. QED
    BY <1>1, <1>2, SeqInduction
<1>4. QED
  BY <1>3

\* Split takes apart what Join has put together.
LEMMA JoinSplit ==
    ASSUME NEW ps, Parts(ps)
    PROVE  /\ Join(ps) \in Texts
           /\ Split(Join(ps)) = ps
           /\ AllClose(ps) => ClosesBlocks(Join(ps))
<1>1. ps \in Seq(Texts)
  BY DEF Parts
<1>2. Join(ps) \in Texts
  BY <1>1, JoinText
<1>3. CASE ps = <<>>
  <2>1. Loop(Join(ps)) = Start
    BY <1>3, JoinEmpty, LoopEmpty
  <2>2. Strip(<<>>) = <<>>
    <3>1. <<>> \in Texts /\ Len(<<>>) = 0
      BY DEF Texts
    <3>2. QED
      BY <3>1, StripFacts
  <2>3. Split(Join(ps)) = ps
    BY <1>3, <2>1, <2>2 DEF Split, Flush, Start
  <2>4. ClosesBlocks(Join(ps))
    BY <2>1 DEF ClosesBlocks, Start
  <2>5. QED
    BY <1>2, <2>3, <2>4
<1>4. CASE ps # <<>>
  <2>1. PICK qs \in Seq(Texts), p \in Texts : ps = Append(qs, p)
    BY <1>1, <1>4, SequenceEmptyOrAppend
  <2>2. Loop(Join(ps)) = [paragraphs |-> qs, current |-> p, open |-> Loop(p).open]
    BY <2>1, JoinLoop
  <2>3. Whole(p)
    BY <2>1, PartsAppend
  <2>4. Strip(p) = p /\ p # <<>>
    <3>1. p # <<>> /\ p[1] # Blank /\ p[Len(p)] # Blank
      BY <2>3 DEF Whole
    <3>2. QED
      BY <3>1, StripEnd
  <2>5. Split(Join(ps)) = ps
    BY <2>1, <2>2, <2>4 DEF Split, Flush
  <2>6. ASSUME AllClose(ps)
        PROVE  ClosesBlocks(Join(ps))
    <3>1. Len(qs) \in Nat /\ Len(ps) = Len(qs) + 1 /\ ps[Len(qs) + 1] = p
      BY <2>1, LenProperties, AppendProperties
    <3>2. Len(ps) \in 1 .. Len(ps) /\ ps[Len(ps)] = p
      BY <3>1
    <3>3. QED
      BY <2>2, <2>6, <3>2 DEF AllClose, ClosesBlocks
  <2>7. QED
    BY <1>2, <2>5, <2>6
<1>5. QED
  BY <1>3, <1>4

\* The translations of paragraphs are paragraphs.
LEMMA PartsRu ==
    ASSUME NEW ps, Parts(ps)
    PROVE  Parts(RuAll(ps)) /\ (AllClose(ps) => AllClose(RuAll(ps)))
<1>1. ps \in Seq(Texts) /\ Len(ps) \in Nat
  BY LenProperties DEF Parts
<1>2. /\ RuAll(ps) \in Seq(Texts) /\ Len(RuAll(ps)) = Len(ps)
      /\ \A k \in 1 .. Len(ps) : RuAll(ps)[k] = Ru(ps[k])
  <2>1. <<>> \in Texts
    BY DEF Texts
  <2>2. QED
    BY <1>1, <2>1, RuAllAppend
<1>3. ASSUME NEW k \in 1 .. Len(ps)
      PROVE  /\ Whole(Ru(ps[k]))
             /\ ClosesBlocks(Ru(ps[k])) <=> ClosesBlocks(ps[k])
  <2> DEFINE p == ps[k]
  <2>1. Whole(p)
    BY <1>3 DEF Parts
  <2> HIDE DEF p
  <2>2. p \in Texts /\ p # <<>> /\ p[1] # Blank /\ p[Len(p)] # Blank /\ Unbroken(p)
    BY <2>1 DEF Whole
  <2>3. /\ Len(p) \in Nat /\ Len(p) # 0 /\ \A i \in 1 .. Len(p) : p[i] \in Lines
        /\ Ru(p) \in Texts /\ Len(Ru(p)) = Len(p)
        /\ \A i \in 1 .. Len(p) : Ru(p)[i] = RuLine(p[i])
    BY <2>2, TextFacts, RuText, EmptySeq DEF Texts
  <2>4. Ru(p)[1] # Blank /\ Ru(p)[Len(p)] # Blank
    <3>1. 1 \in 1 .. Len(p) /\ Len(p) \in 1 .. Len(p)
      BY <2>3
    <3>2. QED
      BY <2>2, <2>3, <3>1, LineFacts
  <2>5. Ru(p) # <<>>
    BY <2>3
  <2>6. Unbroken(Ru(p))
    BY <2>2, LoopType, RuEmpty DEF Unbroken, RuAcc
  <2>7. ClosesBlocks(Ru(p)) <=> ClosesBlocks(p)
    BY <2>2, SplitRu
  <2>8. QED
    BY <2>3, <2>4, <2>5, <2>6, <2>7 DEF Whole, p
<1>4. QED
  BY <1>2, <1>3 DEF Parts, AllClose

-----------------------------------------------------------------------------
(* The dirty paragraphs, in their order.                                     *)

\* f lists the elements of D from the least to the greatest.
Increasing(f, D) ==
    /\ f \in [1 .. Cardinality(D) -> D]
    /\ \A k, l \in DOMAIN f : k < l => f[k] < f[l]

\* Every set of indices can be sorted.
LEMMA SortedExists ==
    ASSUME NEW n \in Nat, NEW D \in SUBSET (1 .. n)
    PROVE  \E f : Increasing(f, D)
<1> DEFINE T == {k \in 0 .. n : \A E \in SUBSET (1 .. k) : \E f : Increasing(f, E)}
<1>1. 0 \in T
  <2>1. \A E \in SUBSET (1 .. 0) : E = {}
    OBVIOUS
  <2>2. Increasing([k \in {} |-> k], {})
    <3>1. Cardinality({}) = 0
      BY FS_EmptySet
    <3>2. QED
      BY <3>1 DEF Increasing
  <2>3. \E f : Increasing(f, {})
    BY <2>2, Zenon
  <2>4. 0 \in 0 .. n
    OBVIOUS
  <2>5. QED
    BY <2>1, <2>3, <2>4
<1>2. ASSUME NEW k \in 0 .. n - 1, k \in T
      PROVE  k + 1 \in T
  <2>1. k \in Nat /\ k + 1 \in 0 .. n
    OBVIOUS
  <2>2. SUFFICES ASSUME NEW E \in SUBSET (1 .. k + 1)
                 PROVE  \E f : Increasing(f, E)
    BY <2>1
  <2>3. CASE k + 1 \notin E
    <3>1. E \in SUBSET (1 .. k)
      BY <2>1, <2>3
    <3>2. QED
      BY <1>2, <3>1
  <2>4. CASE k + 1 \in E
    <3> DEFINE F == E \ {k + 1}
               m == Cardinality(F)
    <3>1. F \in SUBSET (1 .. k)
      BY <2>1
    <3>2. PICK g : Increasing(g, F)
      BY <1>2, <3>1
    <3>3. IsFiniteSet(E)
      <4>1. IsFiniteSet(1 .. k + 1)
        BY <2>1, FS_Interval
      <4>2. QED
        BY <4>1, FS_Subset
    <3>4. m \in Nat /\ Cardinality(E) = m + 1
      <4>1. IsFiniteSet(F)
        BY <3>3, FS_Subset
      <4>2. Cardinality(F) = Cardinality(E) - 1 /\ Cardinality(E) \in Nat
        BY <2>4, <3>3, FS_RemoveElement, FS_CardinalityType
      <4>3. Cardinality(F) \in Nat
        BY <4>1, FS_CardinalityType
      <4>4. QED
        BY <4>2, <4>3
    <3>5. /\ g \in [1 .. m -> F]
          /\ \A i, j \in 1 .. m : i < j => g[i] < g[j]
      BY <3>2 DEF Increasing
    <3> HIDE DEF m
    <3> DEFINE f == [i \in 1 .. m + 1 |-> IF i = m + 1 THEN k + 1 ELSE g[i]]
    <3>6. \A i \in 1 .. m + 1 : i \in 1 .. m \/ i = m + 1
      BY <3>4
    <3>7. \A i \in 1 .. m : f[i] = g[i] /\ g[i] \in F /\ g[i] < k + 1
      <4>1. \A i \in 1 .. m : g[i] \in F
        BY <3>5
      <4>2. \A x \in F : x < k + 1
        BY <2>1, <3>1
      <4>3. \A i \in 1 .. m : i \in 1 .. m + 1 /\ i # m + 1
        BY <3>4
      <4>4. QED
        BY <4>1, <4>2, <4>3
    <3>8. f[m + 1] = k + 1
      BY <3>4
    <3>9. f \in [1 .. m + 1 -> E]
      BY <2>4, <3>4, <3>6, <3>7, <3>8
    <3>10. ASSUME NEW i \in 1 .. m + 1, NEW j \in 1 .. m + 1, i < j
           PROVE  f[i] < f[j]
      <4>1. i \in 1 .. m
        BY <3>4, <3>10
      <4>2. CASE j = m + 1
        BY <3>7, <3>8, <4>1, <4>2
      <4>3. CASE j \in 1 .. m
        BY <3>5, <3>7, <3>10, <4>1, <4>3
      <4>4. QED
        BY <3>6, <4>2, <4>3
    <3> HIDE DEF f
    <3>11. Increasing(f, E)
      BY <3>4, <3>9, <3>10 DEF Increasing
    <3>12. QED
      BY <3>11
  <2>5. QED
    BY <2>3, <2>4
<1>3. \A k \in 0 .. n : k \in T
  <2> HIDE DEF T
  <2>1. QED
    BY <1>1, <1>2, UpTo
<1>4. n \in T
  <2> HIDE DEF T
  <2>1. QED
    BY <1>3
<1>5. QED
  BY <1>4

\* Every member of D has its place.
LEMMA SortedFacts ==
    ASSUME NEW n \in Nat, NEW D \in SUBSET (1 .. n)
    PROVE  /\ Cardinality(D) \in Nat
           /\ Sorted(D) \in [1 .. Cardinality(D) -> D]
           /\ \A k, l \in 1 .. Cardinality(D) : k < l => Sorted(D)[k] < Sorted(D)[l]
           /\ \A d \in D : \E k \in 1 .. Cardinality(D) : Sorted(D)[k] = d
<1> DEFINE m == Cardinality(D)
           f == Sorted(D)
<1>1. IsFiniteSet(D) /\ m \in Nat
  <2>1. IsFiniteSet(1 .. n)
    BY FS_Interval
  <2>2. QED
    BY <2>1, FS_Subset, FS_CardinalityType
<1>2. Increasing(f, D)
  <2>1. \E g \in [1 .. m -> D] : \A k, l \in DOMAIN g : k < l => g[k] < g[l]
    BY SortedExists DEF Increasing
  <2>2. QED
    BY <2>1 DEF Increasing, Sorted
<1> HIDE DEF f
<1>3. f \in [1 .. m -> D] /\ \A k, l \in 1 .. m : k < l => f[k] < f[l]
  BY <1>2 DEF Increasing
<1> HIDE DEF m
<1>4. f \in Injection(1 .. m, D)
  <2>1. ASSUME NEW k \in 1 .. m, NEW l \in 1 .. m, f[k] = f[l]
        PROVE  k = l
    <3>1. f[k] \in 1 .. n /\ f[l] \in 1 .. n
      BY <1>3
    <3>2. ~(f[k] < f[l]) /\ ~(f[l] < f[k])
      BY <2>1, <3>1
    <3>3. ~(k < l) /\ ~(l < k)
      BY <1>3, <3>2
    <3>4. QED
      BY <1>1, <3>3
  <2>2. QED
    BY <1>3, <2>1 DEF Injection, IsInjective
<1>5. Cardinality(1 .. m) = m /\ IsFiniteSet(1 .. m)
  BY <1>1, FS_Interval
<1>6. f \in Surjection(1 .. m, D)
  BY <1>1, <1>4, <1>5, FS_Injection DEF m
<1>7. \A d \in D : \E k \in 1 .. m : f[k] = d
  BY <1>6 DEF Surjection
<1>8. QED
  BY <1>1, <1>3, <1>7 DEF f, m

-----------------------------------------------------------------------------
(* The pipeline and what is made of its output.                              *)

\* The dirty paragraphs come back one to one.
LEMMA PipelineGives ==
    ASSUME NEW new, Parts(new), NEW dirty \in SUBSET (DOMAIN new)
    PROVE  /\ DOMAIN Sorted(dirty) = 1 .. Cardinality(dirty)
           /\ Pipeline(new, dirty) = [k \in DOMAIN Sorted(dirty) |-> Ru(new[Sorted(dirty)[k]])]
<1> DEFINE n == Len(new)
           m == Cardinality(dirty)
           o == Sorted(dirty)
           qs == [k \in DOMAIN o |-> new[o[k]]]
<1>1. /\ new \in Seq(Texts) /\ n \in Nat /\ DOMAIN new = 1 .. n
      /\ \A i \in 1 .. n : new[i] \in Texts /\ Whole(new[i]) /\ (i < n => ClosesBlocks(new[i]))
  BY LenProperties DEF Parts
<1>2. /\ m \in Nat /\ DOMAIN o = 1 .. m
      /\ \A k \in 1 .. m : o[k] \in 1 .. n
      /\ \A k, l \in 1 .. m : k < l => o[k] < o[l]
  <2>1. dirty \in SUBSET (1 .. n)
    BY <1>1
  <2>2. /\ m \in Nat /\ o \in [1 .. m -> dirty]
        /\ \A k, l \in 1 .. m : k < l => o[k] < o[l]
    BY <1>1, <2>1, SortedFacts
  <2>3. QED
    BY <2>1, <2>2
<1> HIDE DEF o, m
<1>3. /\ qs \in Seq(Texts) /\ Len(qs) = m /\ DOMAIN qs = 1 .. m
      /\ \A k \in 1 .. m : qs[k] = new[o[k]]
  BY <1>1, <1>2
<1> HIDE DEF qs
<1>4. ASSUME NEW k \in 1 .. m
      PROVE  Whole(qs[k]) /\ (k < m => ClosesBlocks(qs[k]))
  <2>1. o[k] \in 1 .. n
    BY <1>2
  <2>2. k < m => o[k] < n
    <3>1. k < m => o[k] < o[m] /\ o[m] \in 1 .. n
      BY <1>2
    <3>2. QED
      BY <1>1, <2>1, <3>1
  <2>3. QED
    BY <1>1, <1>3, <2>1, <2>2
<1>5. Parts(qs)
  BY <1>3, <1>4 DEF Parts
<1>6. Split(Ru(Join(qs))) = RuAll(qs)
  BY <1>5, JoinSplit, SplitRu
<1>7. RuAll(qs) = [k \in 1 .. m |-> Ru(new[o[k]])]
  BY <1>3 DEF RuAll
<1>8. Pipeline(new, dirty) = Split(Ru(Join(qs)))
  BY DEF Pipeline, qs, o
<1>9. QED
  BY <1>2, <1>6, <1>7, <1>8 DEF o, m

\* The translations under the numbers of the dirty paragraphs, as _assemble_translation
\* puts them there.
Numbered(dirty, out) ==
    [i \in dirty |-> out[CHOOSE k \in DOMAIN Sorted(dirty) : Sorted(dirty)[k] = i]]

\* Each dirty paragraph gets its own translation.
LEMMA NumberedGives ==
    ASSUME NEW new, Parts(new), NEW dirty \in SUBSET (DOMAIN new)
    PROVE  /\ DOMAIN Numbered(dirty, Pipeline(new, dirty)) = dirty
           /\ \A i \in dirty : Numbered(dirty, Pipeline(new, dirty))[i] = Ru(new[i])
<1> DEFINE o == Sorted(dirty)
           out == Pipeline(new, dirty)
<1>1. out = [k \in DOMAIN o |-> Ru(new[o[k]])] /\ DOMAIN o = 1 .. Cardinality(dirty)
  BY PipelineGives
<1>2. new \in Seq(Texts) /\ Len(new) \in Nat /\ DOMAIN new = 1 .. Len(new)
  BY LenProperties DEF Parts
<1>3. dirty \in SUBSET (1 .. Len(new))
  BY <1>2
<1>4. \A i \in dirty : \E k \in 1 .. Cardinality(dirty) : o[k] = i
  BY <1>2, <1>3, SortedFacts
<1> HIDE DEF o, out
<1>5. ASSUME NEW i \in dirty
      PROVE  Numbered(dirty, out)[i] = Ru(new[i])
  <2> DEFINE k == CHOOSE j \in DOMAIN o : o[j] = i
  <2>1. k \in DOMAIN o /\ o[k] = i
    BY <1>1, <1>4
  <2>2. Numbered(dirty, out)[i] = out[k]
    BY DEF Numbered, o
  <2> HIDE DEF k
  <2>3. QED
    BY <1>1, <2>1, <2>2
<1>6. QED
  BY <1>5 DEF Numbered, out

\* A paragraph that is not dirty has an old counterpart that reads the same: the
\* opcodes of the matcher and the check by hash leave no third kind.
LEMMA CleanIsAligned ==
    ASSUME NEW new, NEW old, NEW A \in Common(new, old),
           NEW i \in DOMAIN new, i \notin FindDirty(new, old, A)
    PROVE  /\ i \in DOMAIN A
           /\ A[i] \in DOMAIN old
           /\ new[i] = old[A[i]]
<1>1. i \in DOMAIN A
  BY DEF FindDirty
<1>2. PICK D \in SUBSET DOMAIN new : A \in [D -> DOMAIN old]
  BY DEF Common
<1>3. \A j \in DOMAIN A : new[j] = old[A[j]]
  BY DEF Common
<1> QED
  BY <1>1, <1>2, <1>3

\* merge_translations takes nothing from the English text: every paragraph is
\* one the pipeline returned or the old translation of an equal paragraph, also
\* when the target file is not what it should be.
THEOREM MergeLeavesNothing ==
    ASSUME NEW new, NEW old, NEW oldRu, NEW A \in Common(new, old), NEW translated,
           DOMAIN oldRu = DOMAIN old,
           FindDirty(new, old, A) \subseteq DOMAIN translated,
           NEW i \in DOMAIN new
    PROVE  LET merged == Merge(new, FindDirty(new, old, A), translated, AlignOld(A, oldRu))
           IN \/ merged[i] = translated[i]
              \/ \E k \in DOMAIN old : new[i] = old[k] /\ merged[i] = oldRu[k]
<1> DEFINE dirty == FindDirty(new, old, A)
           aligned == AlignOld(A, oldRu)
           merged == Merge(new, dirty, translated, aligned)
<1>1. CASE i \in dirty
  <2>1. merged[i] = translated[i]
    BY <1>1 DEF Merge
  <2> QED
    BY <2>1
<1>2. CASE i \notin dirty
  <2>1. i \in DOMAIN A /\ A[i] \in DOMAIN old /\ new[i] = old[A[i]]
    BY <1>2, CleanIsAligned
  <2>2. i \in DOMAIN aligned /\ aligned[i] = oldRu[A[i]]
    BY <2>1 DEF AlignOld
  <2>3. merged[i] = oldRu[A[i]]
    BY <1>2, <2>2 DEF Merge
  <2> QED
    BY <2>1, <2>3
<1> QED
  BY <1>1, <1>2

\* If the old translation is, paragraph by paragraph, that of the old text, and
\* the pipeline has translated the dirty paragraphs, the merged text is that of
\* the new one: wherever paragraphs were added, removed or moved.
THEOREM MergeIsTranslation ==
    ASSUME NEW new, NEW old, NEW oldRu, NEW A \in Common(new, old), NEW translated,
           oldRu = RuAll(old),
           FindDirty(new, old, A) \subseteq DOMAIN translated,
           \A j \in FindDirty(new, old, A) : translated[j] = Ru(new[j])
    PROVE  Merge(new, FindDirty(new, old, A), translated, AlignOld(A, oldRu)) = RuAll(new)
<1> DEFINE dirty == FindDirty(new, old, A)
           aligned == AlignOld(A, oldRu)
           merged == Merge(new, dirty, translated, aligned)
<1>1. DOMAIN oldRu = DOMAIN old /\ \A k \in DOMAIN old : oldRu[k] = Ru(old[k])
  BY DEF RuAll
<1>2. ASSUME NEW i \in DOMAIN new
      PROVE  merged[i] = Ru(new[i])
  <2>1. CASE i \in dirty
    <3>1. merged[i] = translated[i]
      BY <2>1 DEF Merge
    <3> QED
      BY <2>1, <3>1
  <2>2. CASE i \notin dirty
    <3>1. i \in DOMAIN A /\ A[i] \in DOMAIN old /\ new[i] = old[A[i]]
      BY <2>2, CleanIsAligned
    <3>2. i \in DOMAIN aligned /\ aligned[i] = oldRu[A[i]]
      BY <1>1, <3>1 DEF AlignOld
    <3>3. merged[i] = oldRu[A[i]]
      BY <2>2, <3>2 DEF Merge
    <3> QED
      BY <1>1, <3>1, <3>3
  <2> QED
    BY <2>1, <2>2
<1>3. merged = [i \in DOMAIN new |-> merged[i]]
  BY DEF Merge
<1>4. RuAll(new) = [i \in DOMAIN new |-> Ru(new[i])]
  BY DEF RuAll
<1> HIDE DEF merged
<1>5. merged = RuAll(new)
  BY <1>2, <1>3, <1>4
<1> QED
  BY <1>5 DEF merged

\* What an increment gives, for any file on the target branch that has as many
\* paragraphs as the version before.
LEMMA IncrementGives ==
    ASSUME NEW new, Parts(new), NEW old \in Seq(Texts), NEW oldRu, Parts(oldRu),
           Len(old) = Len(oldRu), NEW A \in Common(new, old)
    PROVE  LET dirty == FindDirty(new, old, A)
               result == Assemble(new, dirty, Pipeline(new, dirty), AlignOld(A, oldRu))
           IN /\ result \in Texts
              /\ oldRu = RuAll(old) => Split(result) = RuAll(new)
              /\ AllClose(oldRu) =>
                    /\ Len(Split(result)) = Len(new)
                    /\ ToSet(Split(result)) \subseteq ToSet(RuAll(new)) \cup ToSet(oldRu)
                    /\ AllClose(new) => ClosesBlocks(result)
<1> DEFINE dirty == FindDirty(new, old, A)
           translated == Numbered(dirty, Pipeline(new, dirty))
           aligned == AlignOld(A, oldRu)
           merged == Merge(new, dirty, translated, aligned)
           n == Len(new)
<1>1. /\ new \in Seq(Texts) /\ n \in Nat /\ DOMAIN new = 1 .. n
      /\ oldRu \in Seq(Texts) /\ Len(oldRu) \in Nat
      /\ DOMAIN oldRu = 1 .. Len(oldRu) /\ DOMAIN old = DOMAIN oldRu
  BY LenProperties DEF Parts
<1>2. dirty \in SUBSET (DOMAIN new)
  BY DEF FindDirty
<1>3. DOMAIN translated = dirty /\ \A i \in dirty : translated[i] = Ru(new[i])
  BY <1>2, NumberedGives
<1>4. Assemble(new, dirty, Pipeline(new, dirty), aligned) = Join(merged)
  BY DEF Assemble, Numbered
<1>5. Parts(RuAll(new)) /\ (AllClose(new) => AllClose(RuAll(new)))
  BY PartsRu
<1>6. DOMAIN merged = 1 .. n
  BY <1>1 DEF Merge
<1>7. \A i \in 1 .. n : \/ merged[i] = Ru(new[i])
                        \/ \E k \in 1 .. Len(oldRu) : merged[i] = oldRu[k]
  <2> SUFFICES ASSUME NEW i \in 1 .. n
               PROVE  \/ merged[i] = Ru(new[i])
                      \/ \E k \in 1 .. Len(oldRu) : merged[i] = oldRu[k]
    OBVIOUS
  <2>1. i \in DOMAIN new /\ FindDirty(new, old, A) \subseteq DOMAIN translated
    BY <1>1, <1>3
  <2>2. CASE i \in dirty
    BY <1>3, <2>1, <2>2 DEF Merge
  <2>3. CASE i \notin dirty
    <3>1. i \in DOMAIN A /\ A[i] \in DOMAIN old
      BY <2>1, <2>3, CleanIsAligned
    <3>2. merged[i] = oldRu[A[i]]
      <4>1. i \in DOMAIN aligned /\ aligned[i] = oldRu[A[i]]
        BY <1>1, <3>1 DEF AlignOld
      <4> HIDE DEF dirty, aligned, translated
      <4>2. QED
        BY <2>1, <2>3, <4>1 DEF Merge
    <3>3. QED
      BY <1>1, <3>1, <3>2
  <2>4. QED
    BY <2>2, <2>3
<1>8. /\ RuAll(new) \in Seq(Texts) /\ Len(RuAll(new)) = n /\ DOMAIN RuAll(new) = 1 .. n
      /\ \A i \in 1 .. n : RuAll(new)[i] = Ru(new[i])
  <2>1. RuAll(new) \in Seq(Texts)
    BY <1>5 DEF Parts
  <2>2. RuAll(new) = [i \in 1 .. n |-> Ru(new[i])]
    BY <1>1 DEF RuAll
  <2>3. QED
    BY <1>1, <2>1, <2>2
<1>9. merged \in Seq(Texts) /\ Len(merged) = n
  <2>1. \A i \in 1 .. n : merged[i] \in Texts
    <3>1. \A k \in 1 .. Len(oldRu) : oldRu[k] \in Texts
      BY <1>1
    <3>2. \A i \in 1 .. n : Ru(new[i]) \in Texts
      BY <1>8
    <3> HIDE DEF merged
    <3>3. QED
      BY <1>7, <3>1, <3>2
  <2>2. merged = [i \in 1 .. n |-> merged[i]]
    BY <1>1 DEF Merge
  <2> HIDE DEF merged
  <2>3. merged \in [1 .. n -> Texts]
    BY <2>1, <2>2
  <2>4. QED
    BY <1>1, <2>3
<1>10. Join(merged) \in Texts
  BY <1>9, JoinText
<1>11. ASSUME oldRu = RuAll(old)
       PROVE  Split(Join(merged)) = RuAll(new)
  <2>1. FindDirty(new, old, A) \subseteq DOMAIN translated
    BY <1>3
  <2>2. merged = RuAll(new)
    <3> HIDE DEF translated
    <3>1. QED
      BY <1>3, <1>11, <2>1, MergeIsTranslation
  <2>3. QED
    BY <1>5, <2>2, JoinSplit
<1>12. ASSUME AllClose(oldRu)
       PROVE  /\ Len(Split(Join(merged))) = n
              /\ ToSet(Split(Join(merged))) \subseteq ToSet(RuAll(new)) \cup ToSet(oldRu)
              /\ AllClose(new) => ClosesBlocks(Join(merged))
  <2> HIDE DEF merged
  <2>1. \A k \in 1 .. Len(oldRu) : Whole(oldRu[k]) /\ ClosesBlocks(oldRu[k])
    BY <1>12 DEF Parts, AllClose
  <2>2. \A i \in 1 .. n : /\ Whole(Ru(new[i]))
                          /\ i < n => ClosesBlocks(Ru(new[i]))
                          /\ AllClose(new) => ClosesBlocks(Ru(new[i]))
    BY <1>5, <1>8 DEF Parts, AllClose
  <2>3. \A i \in 1 .. n : /\ Whole(merged[i])
                          /\ i < n => ClosesBlocks(merged[i])
                          /\ AllClose(new) => ClosesBlocks(merged[i])
    BY <1>7, <2>1, <2>2
  <2>4. Parts(merged) /\ (AllClose(new) => AllClose(merged))
    BY <1>9, <2>3 DEF Parts, AllClose
  <2>5. Split(Join(merged)) = merged
    BY <2>4, JoinSplit
  <2>6. ToSet(merged) \subseteq ToSet(RuAll(new)) \cup ToSet(oldRu)
    BY <1>1, <1>6, <1>7, <1>8 DEF ToSet
  <2>7. QED
    BY <1>9, <2>4, <2>5, <2>6, JoinSplit
<1> HIDE DEF dirty, aligned, merged
<1>13. QED
  BY <1>4, <1>10, <1>11, <1>12 DEF dirty, aligned

-----------------------------------------------------------------------------
(* Types.                                                                    *)

\* The tasks, by type.
TaskRecords == [before : Nat, previous : BOOLEAN, original : Texts,
                status : {"queued", "done", "failed", "published"}, result : Texts]

\* What a task translates is a version of the file, and it starts from an earlier one.
TypedInv ==
    /\ source \in Seq(Texts) /\ source # <<>>
    /\ target \in Texts
    /\ tasks \in Seq(TaskRecords)
    /\ \A i \in DOMAIN tasks : /\ tasks[i].before \in 0 .. Len(source)
                               /\ \E n \in DOMAIN source : tasks[i].original = source[n]

\* The types hold at first.
LEMMA InitTyped == Init => TypedInv
<1> SUFFICES ASSUME Init PROVE TypedInv
  OBVIOUS
<1>1. PICK text \in SourceTexts : source = <<text>>
  BY DEF Init
<1>2. text \in Texts
  BY GivenTexts
<1>3. source \in Seq(Texts) /\ source # <<>>
  BY <1>1, <1>2
<1>4. target \in Texts
  BY LineFacts DEF Init, NoFile, Texts
<1>5. tasks \in Seq(TaskRecords) /\ DOMAIN tasks = {}
  BY DEF Init
<1>6. QED
  BY <1>3, <1>4, <1>5 DEF TypedInv

\* SetTask changes one task.
LEMMA SetTaskGives ==
    ASSUME TypedInv, NEW i \in DOMAIN tasks, NEW status \in {"queued", "done", "failed", "published"},
           NEW result \in Texts, SetTask(i, status, result)
    PROVE  /\ tasks' \in Seq(TaskRecords) /\ DOMAIN tasks' = DOMAIN tasks
           /\ UNCHANGED <<source, target>>
           /\ \A j \in DOMAIN tasks :
                 /\ tasks'[j].before = tasks[j].before /\ tasks'[j].original = tasks[j].original
                 /\ j # i => tasks'[j] = tasks[j]
           /\ tasks'[i].status = status /\ tasks'[i].result = result
<1>1. tasks \in Seq(TaskRecords) /\ DOMAIN tasks = 1 .. Len(tasks) /\ tasks[i] \in TaskRecords
  BY LenProperties DEF TypedInv
<1> DEFINE t == [tasks[i] EXCEPT !.status = status, !.result = result]
<1>2. t \in TaskRecords /\ t.before = tasks[i].before /\ t.original = tasks[i].original
      /\ t.status = status /\ t.result = result
  BY <1>1 DEF TaskRecords
<1>3. tasks' = [tasks EXCEPT ![i] = t] /\ UNCHANGED <<source, target>>
  BY <1>1 DEF SetTask
<1> HIDE DEF t
<1>4. tasks' \in Seq(TaskRecords) /\ Len(tasks') = Len(tasks)
      /\ \A j \in 1 .. Len(tasks) : tasks'[j] = IF j = i THEN t ELSE tasks[j]
  BY <1>1, <1>2, <1>3, ExceptSeq
<1>5. DOMAIN tasks' = DOMAIN tasks
  BY <1>1, <1>4, LenProperties
<1>6. QED
  BY <1>1, <1>2, <1>3, <1>4, <1>5

\* A task is translated by one of two actions, and both give what is promised.
LEMMA TranslateGives ==
    ASSUME TypedInv, NEW i \in DOMAIN tasks, TranslateIncrement(i) \/ TranslateAll(i)
    PROVE  \E result \in Texts :
              LET new == Split(tasks[i].original)
              IN /\ SetTask(i, "done", result)
                 /\ FollowsBefore(i) => Split(result) = RuAll(new)
                 /\ ClosesBlocks(target) =>
                       /\ Len(Split(result)) = Len(new)
                       /\ Paragraphs(result) \subseteq
                             ToSet(RuAll(new)) \cup (IF target = NoFile THEN {} ELSE Paragraphs(target))
                       /\ ClosesBlocks(tasks[i].original) => ClosesBlocks(result)
<1> DEFINE original == tasks[i].original
           new == Split(original)
<1>1. original \in Texts
  BY LenProperties DEF TypedInv, TaskRecords
<1>2. Parts(new) /\ (ClosesBlocks(original) => AllClose(new))
  BY <1>1, SplitParts
<1> HIDE DEF original
<1>3. CASE TranslateAll(i)
  <2>1. SetTask(i, "done", Ru(original)) /\ Ru(original) \in Texts
    BY <1>1, <1>3, RuText DEF TranslateAll, original
  <2>2. /\ Split(Ru(original)) = RuAll(new)
        /\ ClosesBlocks(original) => ClosesBlocks(Ru(original))
    BY <1>1, SplitRu
  <2>3. Len(RuAll(new)) = Len(new)
    <3>1. <<>> \in Texts /\ new \in Seq(Texts)
      BY <1>2 DEF Parts, Texts
    <3>2. QED
      BY <3>1, RuAllAppend
  <2>4. QED
    BY <2>1, <2>2, <2>3 DEF Paragraphs, original
<1>4. CASE TranslateIncrement(i)
  <2> DEFINE old == Split(source[tasks[i].before])
             oldRu == Split(target)
  <2>1. PICK A \in Alignments(new, old) :
           LET dirty == FindDirty(new, old, A)
           IN /\ Reusable(tasks[i], A)
              /\ SetTask(i, "done", Assemble(new, dirty, Pipeline(new, dirty), AlignOld(A, oldRu)))
    BY <1>4 DEF TranslateIncrement, original
  <2>2. A \in Common(new, old)
    BY DEF Alignments
  <2>3. target # NoFile /\ Len(old) = Len(oldRu)
    BY <2>1 DEF Reusable
  <2>4. source[tasks[i].before] \in Texts /\ target \in Texts
    <3>1. tasks[i].before # 0 /\ tasks[i].before \in 0 .. Len(source)
      BY <1>4 DEF TranslateIncrement, TypedInv
    <3>2. source \in Seq(Texts) /\ Len(source) \in Nat /\ target \in Texts
      BY LenProperties DEF TypedInv
    <3>3. tasks[i].before \in 1 .. Len(source)
      BY <3>1, <3>2
    <3>4. QED
      BY <3>2, <3>3
  <2>5. old \in Seq(Texts) /\ Parts(oldRu) /\ (ClosesBlocks(target) => AllClose(oldRu))
    BY <2>4, SplitRu, SplitParts
  <2> DEFINE dirty == FindDirty(new, old, A)
             result == Assemble(new, dirty, Pipeline(new, dirty), AlignOld(A, oldRu))
  <2>6. FollowsBefore(i) => oldRu = RuAll(old)
    BY DEF FollowsBefore
  <2> HIDE DEF new, old, oldRu
  <2>7. /\ result \in Texts
        /\ oldRu = RuAll(old) => Split(result) = RuAll(new)
        /\ AllClose(oldRu) =>
              /\ Len(Split(result)) = Len(new)
              /\ ToSet(Split(result)) \subseteq ToSet(RuAll(new)) \cup ToSet(oldRu)
              /\ AllClose(new) => ClosesBlocks(result)
    BY <1>2, <2>2, <2>3, <2>5, IncrementGives
  <2>8. SetTask(i, "done", result)
    BY <2>1
  <2> HIDE DEF result
  <2>9. /\ SetTask(i, "done", result)
        /\ FollowsBefore(i) => Split(result) = RuAll(new)
        /\ ClosesBlocks(target) =>
              /\ Len(Split(result)) = Len(new)
              /\ Paragraphs(result) \subseteq
                    ToSet(RuAll(new)) \cup (IF target = NoFile THEN {} ELSE Paragraphs(target))
              /\ ClosesBlocks(original) => ClosesBlocks(result)
    BY <1>2, <2>3, <2>5, <2>6, <2>7, <2>8 DEF Paragraphs, oldRu
  <2>10. QED
    BY <2>7, <2>9 DEF new, original
<1>5. QED
  BY <1>3, <1>4

\* A file that is not there counts as a text.
LEMMA NoFileText == NoFile \in Texts
BY LineFacts DEF NoFile, Texts

\* What people write into a translation is a text.
LEMMA HandText == \A text \in HandWritten : text \in Texts
BY GivenTexts

\* The steps, as the invariants see them.
LEMMA StepKinds ==
    ASSUME TypedInv, Next
    PROVE  \/ \E text \in SourceTexts : Push(text)
           \/ \E n \in 0 .. Len(source), previous \in BOOLEAN : Create(Task(n, previous, Newest))
           \/ \E i \in DOMAIN tasks :
                 \/ /\ tasks[i].status = "queued"
                    /\ TranslateIncrement(i) \/ TranslateAll(i)
                 \/ \E status \in {"failed", "queued"} : SetTask(i, status, NoFile)
                 \/ /\ tasks[i].status = "done"
                    /\ \E text \in HandWritten : SetTask(i, "done", text)
                 \/ Publish(i)
           \/ \E text \in HandWritten \cup {NoFile} : EditTarget(text)
<1>1. source \in Seq(Texts) /\ Len(source) \in Nat
  BY LenProperties DEF TypedInv
<1>2. CASE \E text \in SourceTexts : Push(text)
  BY <1>2
<1>3. ASSUME NEW n \in 2 .. MaxVersions, Deliver(n)
      PROVE  \E k \in 0 .. Len(source), previous \in BOOLEAN : Create(Task(k, previous, Newest))
  <2>1. n \in 2 .. Len(source)
    BY <1>3 DEF Deliver
  <2>2. n - 1 \in 0 .. Len(source)
    BY <1>1, <2>1
  <2>3. (\E i \in DOMAIN tasks : tasks[i].status = "published") \in BOOLEAN
    OBVIOUS
  <2>4. Create(Task(n - 1, \E i \in DOMAIN tasks : tasks[i].status = "published", Newest))
    BY <1>3 DEF Deliver
  <2>5. QED
    BY <2>2, <2>3, <2>4
<1>4. ASSUME StartByHand
      PROVE  \E k \in 0 .. Len(source), previous \in BOOLEAN : Create(Task(k, previous, Newest))
  <2>1. 0 \in 0 .. Len(source) /\ FALSE \in BOOLEAN
    BY <1>1
  <2>2. Create(Task(0, FALSE, Newest))
    BY <1>4 DEF StartByHand
  <2>3. QED
    BY <2>1, <2>2
<1>5. ASSUME NEW i \in DOMAIN tasks,
             \/ TranslateIncrement(i) \/ TranslateAll(i) \/ Fail(i) \/ Retry(i)
             \/ Publish(i)
             \/ \E text \in HandWritten : EditTask(i, text)
      PROVE  \/ /\ tasks[i].status = "queued"
                /\ TranslateIncrement(i) \/ TranslateAll(i)
             \/ \E status \in {"failed", "queued"} : SetTask(i, status, NoFile)
             \/ /\ tasks[i].status = "done"
                /\ \E text \in HandWritten : SetTask(i, "done", text)
             \/ Publish(i)
  <2>1. TranslateIncrement(i) \/ TranslateAll(i) => tasks[i].status = "queued"
    BY DEF TranslateIncrement, TranslateAll
  <2>2. Fail(i) => SetTask(i, "failed", NoFile)
    BY DEF Fail
  <2>3. Retry(i) => SetTask(i, "queued", NoFile)
    BY DEF Retry
  <2>4. \A text : EditTask(i, text) => tasks[i].status = "done" /\ SetTask(i, "done", text)
    BY DEF EditTask
  <2>5. QED
    BY <1>5, <2>1, <2>2, <2>3, <2>4
<1>6. QED
  BY <1>2, <1>3, <1>4, <1>5 DEF Next

\* Every step keeps the types.
LEMMA StepTyped == TypedInv /\ [Next]_vars => TypedInv'
<1> SUFFICES ASSUME TypedInv, [Next]_vars PROVE TypedInv'
  OBVIOUS
<1>1. /\ source \in Seq(Texts) /\ source # <<>> /\ Len(source) \in Nat /\ Len(source) # 0
      /\ DOMAIN source = 1 .. Len(source)
      /\ target \in Texts /\ tasks \in Seq(TaskRecords)
      /\ Len(tasks) \in Nat /\ DOMAIN tasks = 1 .. Len(tasks)
  BY LenProperties, EmptySeq DEF TypedInv
<1>2. \A i \in DOMAIN tasks : /\ tasks[i].before \in 0 .. Len(source)
                              /\ \E n \in DOMAIN source : tasks[i].original = source[n]
  BY DEF TypedInv
<1>3. CASE UNCHANGED vars
  BY <1>1, <1>2, <1>3 DEF vars, TypedInv
<1>4. ASSUME NEW text \in SourceTexts, Push(text)
      PROVE  TypedInv'
  <2>1. text \in Texts
    BY GivenTexts
  <2>2. source' = Append(source, text) /\ UNCHANGED <<target, tasks>>
    BY <1>4 DEF Push
  <2>3. /\ source' \in Seq(Texts) /\ source' # <<>> /\ Len(source') = Len(source) + 1
        /\ DOMAIN source' = 1 .. Len(source) + 1
        /\ \A n \in DOMAIN source : source'[n] = source[n]
    BY <1>1, <2>1, <2>2, AppendProperties, LenProperties
  <2>4. /\ \A n \in DOMAIN source : n \in DOMAIN source'
        /\ \A k \in 0 .. Len(source) : k \in 0 .. Len(source')
    BY <1>1, <2>3
  <2>5. \A i \in DOMAIN tasks : /\ tasks[i].before \in 0 .. Len(source')
                                /\ \E n \in DOMAIN source' : tasks[i].original = source'[n]
    BY <1>2, <2>3, <2>4
  <2>6. QED
    BY <1>1, <2>2, <2>3, <2>5 DEF TypedInv
<1>5. ASSUME NEW n \in 0 .. Len(source), NEW previous \in BOOLEAN,
             Create(Task(n, previous, Newest))
      PROVE  TypedInv'
  <2> DEFINE task == Task(n, previous, Newest)
  <2>1. Len(source) \in DOMAIN source /\ Newest = source[Len(source)] /\ Newest \in Texts /\ n \in Nat
    BY <1>1 DEF Newest
  <2>2. task \in TaskRecords /\ task.before = n /\ task.original = Newest
    BY <2>1, NoFileText DEF Task, TaskRecords
  <2>3. tasks' = Append(tasks, task) /\ UNCHANGED <<source, target>>
    BY <1>5 DEF Create
  <2> HIDE DEF task
  <2>4. /\ tasks' \in Seq(TaskRecords) /\ DOMAIN tasks' = 1 .. Len(tasks) + 1
        /\ tasks'[Len(tasks) + 1] = task
        /\ \A i \in 1 .. Len(tasks) : tasks'[i] = tasks[i]
    BY <1>1, <2>2, <2>3, AppendProperties, LenProperties
  <2>5. \A i \in DOMAIN tasks' : i \in DOMAIN tasks \/ i = Len(tasks) + 1
    BY <1>1, <2>4
  <2>6. \A i \in DOMAIN tasks' : /\ tasks'[i].before \in 0 .. Len(source)
                                 /\ \E k \in DOMAIN source : tasks'[i].original = source[k]
    BY <1>1, <1>2, <2>1, <2>2, <2>4, <2>5
  <2>7. QED
    BY <1>1, <2>3, <2>4, <2>6 DEF TypedInv
<1>6. ASSUME NEW i \in DOMAIN tasks, NEW status \in {"queued", "done", "failed", "published"},
             NEW result \in Texts, SetTask(i, status, result)
      PROVE  TypedInv'
  <2>1. /\ tasks' \in Seq(TaskRecords) /\ DOMAIN tasks' = DOMAIN tasks
        /\ UNCHANGED <<source, target>>
        /\ \A j \in DOMAIN tasks :
              tasks'[j].before = tasks[j].before /\ tasks'[j].original = tasks[j].original
    BY <1>6, SetTaskGives
  <2>2. QED
    BY <1>1, <1>2, <2>1 DEF TypedInv
<1>7. ASSUME NEW i \in DOMAIN tasks, Publish(i)
      PROVE  TypedInv'
  <2> DEFINE t == [tasks[i] EXCEPT !.status = "published"]
  <2>1. tasks[i] \in TaskRecords
    BY <1>1
  <2>2. t \in TaskRecords /\ t.before = tasks[i].before /\ t.original = tasks[i].original
    BY <2>1 DEF TaskRecords
  <2>3. tasks' = [tasks EXCEPT ![i] = t] /\ UNCHANGED source /\ target' \in Texts
    <3>1. tasks[i].result \in Texts
      BY <2>1 DEF TaskRecords
    <3>2. QED
      BY <1>1, <1>7, <3>1 DEF Publish
  <2> HIDE DEF t
  <2>4. /\ tasks' \in Seq(TaskRecords) /\ DOMAIN tasks' = DOMAIN tasks
        /\ \A j \in DOMAIN tasks : tasks'[j] = IF j = i THEN t ELSE tasks[j]
    BY <1>1, <2>2, <2>3, ExceptSeq, LenProperties
  <2>5. \A j \in DOMAIN tasks : /\ tasks'[j].before \in 0 .. Len(source)
                                /\ \E n \in DOMAIN source : tasks'[j].original = source[n]
    BY <1>2, <2>2, <2>4
  <2>6. QED
    BY <1>1, <2>3, <2>4, <2>5 DEF TypedInv
<1>8. ASSUME NEW text \in HandWritten \cup {NoFile}, EditTarget(text)
      PROVE  TypedInv'
  BY <1>1, <1>2, <1>8, HandText, NoFileText DEF EditTarget, TypedInv
<1>9. ASSUME NEW i \in DOMAIN tasks, TranslateIncrement(i) \/ TranslateAll(i)
      PROVE  TypedInv'
  <2>1. PICK result \in Texts : SetTask(i, "done", result)
    BY <1>9, TranslateGives
  <2>2. QED
    BY <1>6, <2>1
<1>10. QED
  BY <1>3, <1>4, <1>5, <1>6, <1>7, <1>8, <1>9, StepKinds, HandText, NoFileText

\* The types hold in every behaviour.
LEMMA TypesHold == Spec => []TypedInv
<1>1. Init => TypedInv
  BY InitTyped
<1>2. TypedInv /\ [Next]_vars => TypedInv'
  BY StepTyped
<1>3. QED
  BY <1>1, <1>2, PTL DEF Spec

\* A task gets its translation in no other step.
LEMMA TranslatedBy ==
    ASSUME TypedInv, [Next]_vars, NEW i \in DOMAIN tasks, Translated(i)
    PROVE  TranslateIncrement(i) \/ TranslateAll(i)
<1>1. tasks[i].status = "queued" /\ tasks'[i].status = "done"
  BY DEF Translated
<1>2. tasks \in Seq(TaskRecords) /\ DOMAIN tasks = 1 .. Len(tasks) /\ Len(tasks) \in Nat
  BY LenProperties DEF TypedInv
<1>3. ~(tasks' = tasks)
  BY <1>1
<1>4. Next
  BY <1>3 DEF vars
<1>5. ASSUME NEW n, NEW previous, Create(Task(n, previous, Newest))
      PROVE  FALSE
  <2>1. tasks'[i] = tasks[i]
    BY <1>2, <1>5 DEF Create
  <2>2. QED
    BY <1>1, <2>1
<1>6. ASSUME NEW j \in DOMAIN tasks, NEW status \in {"queued", "done", "failed", "published"},
             NEW result \in Texts, SetTask(j, status, result)
      PROVE  j = i /\ status = "done"
  BY <1>1, <1>6, SetTaskGives
<1>7. ASSUME NEW j \in DOMAIN tasks, Publish(j)
      PROVE  FALSE
  <2>1. j # i => tasks'[i] = tasks[i]
    BY <1>2, <1>7 DEF Publish
  <2>2. tasks[j].status = "done"
    BY <1>7 DEF Publish
  <2>3. QED
    BY <1>1, <2>1, <2>2
<1>8. ASSUME NEW j \in DOMAIN tasks, TranslateIncrement(j) \/ TranslateAll(j)
      PROVE  j = i
  <2>1. PICK result \in Texts : SetTask(j, "done", result)
    BY <1>8, TranslateGives
  <2>2. QED
    BY <1>6, <2>1
<1>9. ASSUME NEW text, Push(text) \/ EditTarget(text)
      PROVE  FALSE
  BY <1>3, <1>9 DEF Push, EditTarget
<1>10. QED
  BY <1>1, <1>4, <1>5, <1>6, <1>7, <1>8, <1>9, StepKinds, HandText, NoFileText

\* An increment is what it stands for: with the translation of the version before on the
\* target branch the result is, paragraph by paragraph, the translation of the new
\* version.
THEOREM IncrementsTranslate == Spec => IncrementIsTranslation
<1>1. ASSUME TypedInv, [Next]_vars, NEW i \in DOMAIN tasks, Translated(i), FollowsBefore(i)
      PROVE  Split(tasks'[i].result) = RuAll(Split(tasks[i].original))
  <2>1. TranslateIncrement(i) \/ TranslateAll(i)
    BY <1>1, TranslatedBy
  <2>2. PICK result \in Texts : /\ SetTask(i, "done", result)
                                /\ Split(result) = RuAll(Split(tasks[i].original))
    BY <1>1, <2>1, TranslateGives
  <2>3. tasks'[i].result = result
    BY <1>1, <2>2, SetTaskGives
  <2>4. QED
    BY <2>2, <2>3
<1>2. TypedInv /\ [Next]_vars =>
         [\A i \in DOMAIN tasks : Translated(i) /\ FollowsBefore(i) =>
            Split(tasks'[i].result) = RuAll(Split(tasks[i].original))]_vars
  BY <1>1
<1>3. QED
  BY <1>2, TypesHold, PTL DEF Spec, IncrementIsTranslation

\* A result has the paragraphs of its source one to one, also when people have written
\* into the target file.
THEOREM ResultsAreParallel == Spec => ResultIsParallel
<1>1. ASSUME TypedInv, [Next]_vars, NEW i \in DOMAIN tasks, Translated(i),
             FollowsBefore(i) \/ ClosesBlocks(target)
      PROVE  Len(Split(tasks'[i].result)) = Len(Split(tasks[i].original))
  <2> DEFINE new == Split(tasks[i].original)
  <2>1. TranslateIncrement(i) \/ TranslateAll(i)
    BY <1>1, TranslatedBy
  <2>2. PICK result \in Texts : /\ SetTask(i, "done", result)
                                /\ Split(result) = RuAll(new) \/ Len(Split(result)) = Len(new)
    BY <1>1, <2>1, TranslateGives
  <2>3. tasks'[i].result = result
    BY <1>1, <2>2, SetTaskGives
  <2>4. tasks[i].original \in Texts
    BY <1>1, LenProperties DEF TypedInv, TaskRecords
  <2>5. Len(RuAll(new)) = Len(new)
    <3>1. <<>> \in Texts /\ new \in Seq(Texts)
      BY <2>4, SplitRu DEF Texts
    <3>2. QED
      BY <3>1, RuAllAppend
  <2>6. QED
    BY <2>2, <2>3, <2>5
<1>2. TypedInv /\ [Next]_vars =>
         [\A i \in DOMAIN tasks :
            Translated(i) /\ (FollowsBefore(i) \/ ClosesBlocks(target)) =>
              Len(Split(tasks'[i].result)) = Len(Split(tasks[i].original))]_vars
  BY <1>1
<1>3. QED
  BY <1>2, TypesHold, PTL DEF Spec, ResultIsParallel

-----------------------------------------------------------------------------
(* Where paragraphs come from.                                               *)

\* Whoever writes into a translation closes the blocks of code.
HandCloses == \A text \in HandWritten : ClosesBlocks(text)

\* A text in which no block is open and whose paragraphs come from the versions or from
\* people.
Sound(versions, text) ==
    /\ ClosesBlocks(text)
    /\ text # NoFile =>
          Paragraphs(text) \subseteq
             (UNION {ToSet(RuAll(Split(versions[n]))) : n \in DOMAIN versions})
             \cup UNION {Paragraphs(written) : written \in HandWritten}

\* The versions close their blocks.
Closing(versions) == \A n \in DOMAIN versions : ClosesBlocks(versions[n])

\* It holds of the target file too, from which the increments take what they reuse.
OriginInv ==
    Closing(source) /\ HandCloses =>
       /\ Sound(source, target)
       /\ \A i \in DOMAIN tasks : Sound(source, tasks[i].result)

\* A file that is not there holds nothing of unknown origin.
LEMMA NoFileSound == \A versions : Sound(versions, NoFile)
<1>1. <<>> \in Texts /\ NoFence \in Lines /\ NoFile = Append(<<>>, NoFence)
  BY LineFacts DEF NoFile, Texts
<1>2. Loop(<<>>) \in Accs
  BY <1>1, LoopType
<1>3. Loop(NoFile) = NextLine(Loop(<<>>), NoFence)
  BY <1>1, LoopAppend DEF Texts
<1>4. ~Outside(Loop(<<>>), NoFence) /\ ~IsFence(NoFence)
  BY LineFacts DEF Outside
<1>5. Loop(NoFile).open = Loop(<<>>).open
  BY <1>2, <1>3, <1>4, NextLineKinds DEF OpenAfter
<1>6. ClosesBlocks(NoFile)
  BY <1>5, NothingUnbroken DEF ClosesBlocks
<1>7. QED
  BY <1>6 DEF Sound

\* What people wrote has its origin in them.
LEMMA HandSound ==
    ASSUME HandCloses, NEW text \in HandWritten
    PROVE  \A versions : Sound(versions, text)
BY DEF Sound, HandCloses

\* A new version takes no origin away.
LEMMA MoreVersions ==
    ASSUME NEW versions \in Seq(Texts), NEW version \in Texts
    PROVE  LET more == Append(versions, version)
           IN /\ Closing(more) => Closing(versions)
              /\ \A text : Sound(versions, text) => Sound(more, text)
<1> DEFINE more == Append(versions, version)
<1>1. \A n \in DOMAIN versions : n \in DOMAIN more /\ more[n] = versions[n]
  BY AppendProperties, LenProperties
<1> HIDE DEF more
<1>2. (UNION {ToSet(RuAll(Split(versions[n]))) : n \in DOMAIN versions}) \subseteq
         UNION {ToSet(RuAll(Split(more[n]))) : n \in DOMAIN more}
  BY <1>1
<1>3. \A text : Sound(versions, text) => Sound(more, text)
  BY <1>2 DEF Sound
<1>4. Closing(more) => Closing(versions)
  BY <1>1 DEF Closing
<1>5. QED
  BY <1>3, <1>4 DEF more

\* There is no result at first.
LEMMA InitOrigin == Init => OriginInv
<1> SUFFICES ASSUME Init PROVE OriginInv
  OBVIOUS
<1>1. target = NoFile /\ DOMAIN tasks = {}
  BY DEF Init
<1>2. QED
  BY <1>1, NoFileSound DEF OriginInv

\* Every step keeps the origins: an increment puts together translations of the new
\* version and paragraphs of the target file.
LEMMA StepOrigin == TypedInv /\ OriginInv /\ [Next]_vars => OriginInv'
<1> SUFFICES ASSUME TypedInv, OriginInv, [Next]_vars PROVE OriginInv'
  OBVIOUS
<1>1. /\ source \in Seq(Texts) /\ target \in Texts /\ tasks \in Seq(TaskRecords)
      /\ Len(tasks) \in Nat /\ DOMAIN tasks = 1 .. Len(tasks)
  BY LenProperties DEF TypedInv
<1>2. ASSUME Closing(source), HandCloses
      PROVE  Sound(source, target) /\ \A i \in DOMAIN tasks : Sound(source, tasks[i].result)
  BY <1>2 DEF OriginInv
<1>3. CASE UNCHANGED vars
  BY <1>3 DEF vars, OriginInv
<1>4. ASSUME NEW text \in SourceTexts, Push(text)
      PROVE  OriginInv'
  <2>1. text \in Texts
    BY GivenTexts
  <2>2. source' = Append(source, text) /\ UNCHANGED <<target, tasks>>
    BY <1>4 DEF Push
  <2>3. /\ Closing(source') => Closing(source)
        /\ \A t : Sound(source, t) => Sound(source', t)
    BY <1>1, <2>1, <2>2, MoreVersions
  <2>4. QED
    BY <1>2, <2>2, <2>3 DEF OriginInv
<1>5. ASSUME NEW n, NEW previous, Create(Task(n, previous, Newest))
      PROVE  OriginInv'
  <2> DEFINE task == Task(n, previous, Newest)
  <2>1. task.result = NoFile
    BY DEF Task
  <2>2. tasks' = Append(tasks, task) /\ UNCHANGED <<source, target>>
    BY <1>5 DEF Create
  <2> HIDE DEF task
  <2>3. \A i \in DOMAIN tasks' : (i \in DOMAIN tasks /\ tasks'[i] = tasks[i]) \/ tasks'[i] = task
    BY <1>1, <2>2
  <2>4. QED
    BY <1>2, <2>1, <2>2, <2>3, NoFileSound DEF OriginInv
<1>6. ASSUME NEW i \in DOMAIN tasks, NEW status \in {"queued", "done", "failed", "published"},
             NEW result \in Texts, SetTask(i, status, result),
             Closing(source) /\ HandCloses => Sound(source, result)
      PROVE  OriginInv'
  <2>1. /\ DOMAIN tasks' = DOMAIN tasks /\ UNCHANGED <<source, target>>
        /\ \A j \in DOMAIN tasks : j # i => tasks'[j] = tasks[j]
        /\ tasks'[i].result = result
    BY <1>6, SetTaskGives
  <2>2. QED
    BY <1>2, <1>6, <2>1 DEF OriginInv
<1>7. ASSUME NEW i \in DOMAIN tasks, Publish(i)
      PROVE  OriginInv'
  <2>1. /\ UNCHANGED source /\ target' \in {target, tasks[i].result}
        /\ tasks' = [tasks EXCEPT ![i].status = "published"]
    BY <1>7 DEF Publish
  <2>2. DOMAIN tasks' = DOMAIN tasks /\ \A j \in DOMAIN tasks : tasks'[j].result = tasks[j].result
    <3>1. \A j \in DOMAIN tasks : tasks[j] \in TaskRecords
      BY <1>1
    <3>2. QED
      BY <2>1, <3>1 DEF TaskRecords
  <2>3. QED
    BY <1>2, <2>1, <2>2 DEF OriginInv
<1>8. ASSUME NEW text \in HandWritten \cup {NoFile}, EditTarget(text)
      PROVE  OriginInv'
  BY <1>2, <1>8, HandSound, NoFileSound DEF EditTarget, OriginInv
<1>9. ASSUME NEW i \in DOMAIN tasks, TranslateIncrement(i) \/ TranslateAll(i)
      PROVE  OriginInv'
  <2> DEFINE new == Split(tasks[i].original)
  <2>1. PICK result \in Texts :
           /\ SetTask(i, "done", result)
           /\ ClosesBlocks(target) =>
                 /\ Paragraphs(result) \subseteq
                       ToSet(RuAll(new)) \cup (IF target = NoFile THEN {} ELSE Paragraphs(target))
                 /\ ClosesBlocks(tasks[i].original) => ClosesBlocks(result)
    BY <1>9, TranslateGives
  <2>2. PICK n \in DOMAIN source : tasks[i].original = source[n]
    BY DEF TypedInv
  <2>3. ASSUME Closing(source), HandCloses
        PROVE  Sound(source, result)
    <3>1. Sound(source, target)
      BY <1>2, <2>3
    <3>2. ClosesBlocks(tasks[i].original) /\ ClosesBlocks(target)
      BY <2>2, <2>3, <3>1 DEF Closing, Sound
    <3>3. ClosesBlocks(result)
      BY <2>1, <3>2
    <3>4. ToSet(RuAll(new)) \subseteq UNION {ToSet(RuAll(Split(source[k]))) : k \in DOMAIN source}
      BY <2>2
    <3>5. target # NoFile =>
             Paragraphs(target) \subseteq
                (UNION {ToSet(RuAll(Split(source[k]))) : k \in DOMAIN source})
                \cup UNION {Paragraphs(written) : written \in HandWritten}
      BY <3>1 DEF Sound
    <3> HIDE DEF new
    <3>6. QED
      BY <2>1, <3>2, <3>3, <3>4, <3>5 DEF Sound
  <2>4. QED
    BY <1>6, <2>1, <2>3
<1>10. ASSUME NEW i \in DOMAIN tasks, NEW status \in {"queued", "failed"},
              SetTask(i, status, NoFile)
       PROVE  OriginInv'
  BY <1>6, <1>10, NoFileText, NoFileSound
<1>11. ASSUME NEW i \in DOMAIN tasks, NEW text \in HandWritten, SetTask(i, "done", text)
       PROVE  OriginInv'
  BY <1>6, <1>11, HandText, HandSound
<1>12. QED
  BY <1>3, <1>4, <1>5, <1>7, <1>8, <1>9, <1>10, <1>11, StepKinds

\* As long as no block of code is left open, every paragraph a task offers is the
\* translation of a paragraph of some version or was written by hand.
THEOREM NothingForeign == Spec => []ParagraphsHaveOrigin
<1>1. Init => OriginInv
  BY InitOrigin
<1>2. TypedInv /\ OriginInv /\ [Next]_vars => OriginInv'
  BY StepOrigin
<1>3. OriginInv => ParagraphsHaveOrigin
  BY DEF OriginInv, ParagraphsHaveOrigin, Sound, Closing, HandCloses, TextsClose, Origins
<1>4. QED
  BY <1>1, <1>2, <1>3, TypesHold, PTL DEF Spec
=============================================================================
