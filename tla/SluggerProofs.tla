--------------------------- MODULE SluggerProofs ---------------------------
(***************************************************************************)
(* Proofs about Slugger for titles and limits of any length.               *)
(***************************************************************************)
EXTENDS Slugger, SequenceTheorems, WellFoundedInduction, TLAPS

USE LengthAssumption, HashAssumption

\* A set of numbers with a bound has a greatest element, and Max is it.
LEMMA MaxOfBounded ==
  ASSUME NEW n \in Nat, NEW S \in SUBSET (0 .. n), S # {}
  PROVE  Max(S) \in S /\ \A i \in S : i <= Max(S)
<1> DEFINE T == {n - i : i \in S}
           L == {x \in Nat \X Nat : x[1] < x[2]}
<1>1. T \subseteq Nat /\ T # {}
  <2>1. \A i \in S : i \in Nat /\ i <= n
    OBVIOUS
  <2>2. PICK i \in S : TRUE
    OBVIOUS
  <2>3. n - i \in T
    OBVIOUS
  <2> QED
    BY <2>1, <2>3
<1>a. IsWellFoundedOn(L, Nat)
  BY NatLessThanWellFounded, Zenon DEF OpToRel
<1>2. PICK x \in T : \A y \in T : <<y, x>> \notin L
  <2> HIDE DEF T, L
  <2> QED
    BY <1>1, <1>a, WFMin
<1>3. \A y \in T : ~(y < x)
  BY <1>1, <1>2
<1>4. PICK m \in S : x = n - m
  BY <1>2
<1>5. \A i \in S : m >= i
  BY <1>3, <1>4
<1> QED
  BY <1>4, <1>5 DEF Max
----------------------------------------------------------------------------
\* What IsDash says of a sequence.
LEMMA DashAt ==
  ASSUME NEW S, NEW s \in Seq(S)
  PROVE  /\ Len(s) \in Nat
         /\ \A i : IsDash(s, i) <=> i \in 1 .. Len(s) /\ s[i] = "-"
BY LenProperties DEF IsDash

LEMMA SingleDashesAt ==
  ASSUME NEW S, NEW s \in Seq(S)
  PROVE  SingleDashes(s) <=>
           \A i \in 1 .. Len(s) : s[i] = "-" => i = Len(s) \/ s[i + 1] # "-"
<1> DEFINE L == Len(s)
<1>1. L \in Nat /\ DOMAIN s = 1 .. L
  BY LenProperties
<1>2. SingleDashes(s) <=> \A i \in 1 .. L : IsDash(s, i) => ~IsDash(s, i + 1)
  BY <1>1 DEF SingleDashes
<1>3. \A i : IsDash(s, i) <=> i \in 1 .. L /\ s[i] = "-"
  BY DashAt
<1> HIDE DEF L
<1>4. \A i \in 1 .. L : i + 1 \in 1 .. L <=> i # L
  BY <1>1
<1>5. \A i \in 1 .. L : IsDash(s, i + 1) <=> i # L /\ s[i + 1] = "-"
  BY <1>3, <1>4
<1>6. SingleDashes(s) <=> \A i \in 1 .. L : s[i] = "-" => i = L \/ s[i + 1] # "-"
  BY <1>2, <1>3, <1>5
<1> QED
  BY <1>6 DEF L

\* A first part of a slug is one, with the same bytes.
LEMMA FirstPart ==
  ASSUME NEW s \in Seq(SlugBytes), NEW n \in Nat, n <= Len(s)
  PROVE  /\ SubSeq(s, 1, n) \in Seq(SlugBytes)
         /\ Len(SubSeq(s, 1, n)) = n
         /\ \A i \in 1 .. n : SubSeq(s, 1, n)[i] = s[i]
<1>1. \A i \in 1 .. n : s[i] \in SlugBytes
  <2> TAKE i \in 1 .. n
  <2>1. i \in 1 .. Len(s)
    BY LenProperties
  <2> QED
    BY <2>1, ElementOfSeq
<1>2. 1 \in Int /\ n \in Int /\ (IF 1 <= n THEN n - 1 + 1 ELSE 0) = n
  OBVIOUS
<1> QED
  BY <1>1, <1>2, SubSeqProperties

\* The two loops: each turn keeps the bytes what they should be, and the second
\* leaves no two dashes together.
LEMMA NormalByte == \A c \in Bytes : Kept(c) => Normal(c) \in Normals
BY DEF Bytes, Kept, Normal, Normals

LEMMA CollapsedKeeps ==
  ASSUME NEW s \in Seq(SlugBytes), SingleDashes(s), NEW c \in Normals
  PROVE  Collapsed(s, c) \in Seq(SlugBytes) /\ SingleDashes(Collapsed(s, c))
<1> DEFINE d == IF c = " " THEN "-" ELSE c
<1>1. CASE c \in {" ", "-"} /\ IsDash(s, Len(s))
  BY <1>1 DEF Collapsed
<1>2. CASE ~(c \in {" ", "-"} /\ IsDash(s, Len(s)))
  <2>1. Collapsed(s, c) = Append(s, d)
    BY <1>2 DEF Collapsed
  <2>2. d \in SlugBytes /\ (d = "-" => ~IsDash(s, Len(s)))
    BY <1>2 DEF Normals, SlugBytes
  <2> HIDE DEF d
  <2>3. /\ Append(s, d) \in Seq(SlugBytes)
        /\ Len(Append(s, d)) = Len(s) + 1 /\ Len(s) \in Nat
        /\ DOMAIN Append(s, d) = 1 .. Len(s) + 1 /\ DOMAIN s = 1 .. Len(s)
        /\ \A i \in 1 .. Len(s) : Append(s, d)[i] = s[i]
        /\ Append(s, d)[Len(s) + 1] = d
    BY <2>2, AppendProperties, LenProperties
  <2>4. SingleDashes(Append(s, d))
    BY <2>2, <2>3 DEF SingleDashes, IsDash
  <2> QED
    BY <2>1, <2>3, <2>4
<1> QED
  BY <1>1, <1>2

\* No single dash is left at an end either.
LEMMA TailKeeps ==
  ASSUME NEW s \in Seq(SlugBytes), SingleDashes(s), IsDash(s, 1)
  PROVE  /\ Tail(s) \in Seq(SlugBytes) /\ SingleDashes(Tail(s))
         /\ ~IsDash(Tail(s), 1)
<1> DEFINE t == Tail(s)
           L == Len(s)
<1>1. L \in Nat /\ 1 \in 1 .. L /\ s[1] = "-"
  BY DashAt
<1>2. s # <<>>
  BY <1>1, EmptySeq
<1>3. /\ t \in Seq(SlugBytes) /\ Len(t) = L - 1
      /\ \A i \in 1 .. Len(t) : t[i] = s[i + 1]
  BY <1>2, HeadTailProperties
<1>4. \A i \in 1 .. L : s[i] = "-" => i = L \/ s[i + 1] # "-"
  BY SingleDashesAt
<1>5. SingleDashes(t) <=>
        \A i \in 1 .. Len(t) : t[i] = "-" => i = Len(t) \/ t[i + 1] # "-"
  BY <1>3, SingleDashesAt
<1>6. IsDash(t, 1) <=> 1 \in 1 .. Len(t) /\ t[1] = "-"
  BY <1>3, DashAt
<1> HIDE DEF t, L
<1>7. \A i \in 1 .. L - 1 : t[i] = "-" => i = L - 1 \/ t[i + 1] # "-"
  <2> SUFFICES ASSUME NEW i \in 1 .. L - 1, t[i] = "-", i # L - 1
               PROVE  t[i + 1] # "-"
    OBVIOUS
  <2>1. i + 1 \in 1 .. L /\ i + 1 # L /\ i + 1 \in 1 .. Len(t)
    BY <1>1, <1>3
  <2>2. s[i + 1] = "-" /\ s[i + 1 + 1] # "-"
    BY <1>3, <1>4, <2>1
  <2> QED
    BY <1>3, <2>1, <2>2
<1>8. ~(1 \in 1 .. L - 1 /\ t[1] = "-")
  <2> SUFFICES ASSUME 1 \in 1 .. L - 1 PROVE t[1] # "-"
    OBVIOUS
  <2>1. s[1 + 1] # "-"
    BY <1>1, <1>4
  <2> QED
    BY <1>3, <2>1
<1>9. SingleDashes(t) /\ ~IsDash(t, 1)
  BY <1>3, <1>5, <1>6, <1>7, <1>8
<1> QED
  BY <1>3, <1>9 DEF t

LEMMA PartKeeps ==
  ASSUME NEW s \in Seq(SlugBytes), SingleDashes(s), ~IsDash(s, 1),
         NEW n \in Nat, n <= Len(s)
  PROVE  SingleDashes(SubSeq(s, 1, n)) /\ ~IsDash(SubSeq(s, 1, n), 1)
<1> DEFINE t == SubSeq(s, 1, n)
           L == Len(s)
<1>1. L \in Nat /\ n <= L
  BY LenProperties
<1>2. t \in Seq(SlugBytes) /\ Len(t) = n /\ \A i \in 1 .. n : t[i] = s[i]
  BY FirstPart
<1>3. \A i \in 1 .. L : s[i] = "-" => i = L \/ s[i + 1] # "-"
  BY SingleDashesAt
<1>4. SingleDashes(t) <=>
        \A i \in 1 .. Len(t) : t[i] = "-" => i = Len(t) \/ t[i + 1] # "-"
  BY <1>2, SingleDashesAt
<1>5. IsDash(t, 1) <=> 1 \in 1 .. Len(t) /\ t[1] = "-"
  BY <1>2, DashAt
<1>6. ~(1 \in 1 .. L /\ s[1] = "-")
  BY DashAt
<1> HIDE DEF t, L
<1>7. \A i \in 1 .. n : t[i] = "-" => i = n \/ t[i + 1] # "-"
  BY <1>1, <1>2, <1>3
<1>8. SingleDashes(t) /\ ~IsDash(t, 1)
  BY <1>1, <1>2, <1>4, <1>5, <1>6, <1>7
<1> QED
  BY <1>8 DEF t

LEMMA NoEndsKeeps ==
  ASSUME NEW s \in Seq(SlugBytes), SingleDashes(s)
  PROVE  /\ NoEnds(s) \in Seq(SlugBytes) /\ SingleDashes(NoEnds(s))
         /\ ~IsDash(NoEnds(s), 1) /\ ~IsDash(NoEnds(s), Len(NoEnds(s)))
<1> DEFINE t == IF IsDash(s, 1) THEN Tail(s) ELSE s
           u == IF IsDash(t, Len(t)) THEN SubSeq(t, 1, Len(t) - 1) ELSE t
<1>1. t \in Seq(SlugBytes) /\ SingleDashes(t) /\ ~IsDash(t, 1)
  BY TailKeeps
<1>2. /\ u \in Seq(SlugBytes) /\ SingleDashes(u)
      /\ ~IsDash(u, 1) /\ ~IsDash(u, Len(u))
  <2> HIDE DEF t
  <2>1. CASE IsDash(t, Len(t))
    <3> DEFINE n == Len(t) - 1
    <3>1. Len(t) \in Nat /\ Len(t) \in 1 .. Len(t) /\ t[Len(t)] = "-" /\ Len(t) # 1
      BY <1>1, <2>1, DashAt
    <3>2. n \in Nat /\ n # 0 /\ n <= Len(t) /\ n + 1 = Len(t)
      BY <3>1
    <3> HIDE DEF n
    <3>3. /\ SubSeq(t, 1, n) \in Seq(SlugBytes) /\ Len(SubSeq(t, 1, n)) = n
          /\ \A i \in 1 .. n : SubSeq(t, 1, n)[i] = t[i]
      BY <1>1, <3>2, FirstPart
    <3>4. SingleDashes(SubSeq(t, 1, n)) /\ ~IsDash(SubSeq(t, 1, n), 1)
      BY <1>1, <3>2, PartKeeps
    <3>5. t[n] # "-"
      <4>1. t[n] = "-" => n = Len(t) \/ t[n + 1] # "-"
        BY <1>1, <3>1, <3>2, SingleDashesAt
      <4> QED
        BY <3>1, <3>2, <4>1
    <3>6. ~IsDash(SubSeq(t, 1, n), n)
      BY <3>2, <3>3, <3>5, DashAt
    <3>7. u = SubSeq(t, 1, n)
      BY <2>1 DEF n
    <3> HIDE DEF u
    <3> QED
      BY <3>3, <3>4, <3>6, <3>7
  <2>2. CASE ~IsDash(t, Len(t))
    BY <1>1, <2>2
  <2> QED
    BY <2>1, <2>2
<1> QED
  BY <1>2 DEF NoEnds

----------------------------------------------------------------------------
\* The most bytes, up to the limit, that end where a word does.
Fits(s) == {n \in 1 .. MaxLen : n = Len(s) \/ IsDash(s, n + 1)}
Best(s) == IF Fits(s) # {} THEN Max(Fits(s)) ELSE MaxLen

LEMMA FitsAt ==
  ASSUME NEW s \in Seq(SlugBytes)
  PROVE  /\ Fits(s) \in SUBSET (0 .. MaxLen)
         /\ \A k : k \in Fits(s) <=> /\ k \in 1 .. MaxLen
                                     /\ k = Len(s) \/ IsDash(s, k + 1)
BY DEF Fits

\* Where smart_trim cuts a slug of slugify_basic, for every limit: where it
\* is short enough, at the end; before the last dash in reach, if there is one;
\* else at the limit.
LEMMA ShortKept ==
  ASSUME NEW s \in Seq(SlugBytes), s # <<>>, Len(s) <= MaxLen
  PROVE  Best(s) = Len(s) /\ Trimmed(s, MaxLen) = SubSeq(s, 1, Len(s))
<1> DEFINE L == Len(s)
           F == Fits(s)
           m == Max(F)
<1>1. L \in Nat \ {0} /\ L <= MaxLen
  BY EmptySeq, LenProperties
<1>2. L \in F /\ F \in SUBSET (0 .. MaxLen)
  BY <1>1, FitsAt
<1>3. \A k \in F : k = L \/ k + 1 \in 1 .. L
  BY FitsAt, DashAt
<1>4. m \in F /\ \A k \in F : k <= m
  BY <1>2, MaxOfBounded
<1>5. Best(s) = m
  BY <1>2 DEF Best
<1>6. Trimmed(s, MaxLen) = s /\ s = SubSeq(s, 1, L)
  BY SubSeqFull DEF Trimmed
<1> HIDE DEF L, F, m
<1>7. m = L
  BY <1>1, <1>2, <1>3, <1>4
<1> QED
  BY <1>5, <1>6, <1>7 DEF L

LEMMA CutAtDash ==
  ASSUME NEW s \in Seq(SlugBytes), Len(s) > MaxLen, SingleDashes(s),
         ~IsDash(s, 1), NEW j \in 1 .. MaxLen + 1, IsDash(s, j)
  PROVE  /\ Trimmed(s, MaxLen) = SubSeq(s, 1, Best(s))
         /\ Best(s) \in 1 .. MaxLen /\ ~IsDash(s, Best(s))
<1> DEFINE L == Len(s)
           F == Fits(s)
           dashes == {i \in 1 .. MaxLen + 1 : IsDash(s, i)}
           m == Max(dashes)
<1>1. L \in Nat /\ L > MaxLen
  BY LenProperties
<1>2. dashes \in SUBSET (0 .. MaxLen + 1) /\ dashes # {}
  OBVIOUS
<1>3. m \in dashes /\ \A i \in dashes : i <= m
  <2>1. MaxLen + 1 \in Nat
    OBVIOUS
  <2> HIDE DEF dashes
  <2> QED
    BY <1>2, <2>1, MaxOfBounded DEF m
<1>4. m \in 1 .. MaxLen + 1 /\ IsDash(s, m) /\ m # 1
  BY <1>3
<1>5. F \in SUBSET (0 .. MaxLen)
      /\ \A k : k \in F <=> k \in 1 .. MaxLen /\ (k = L \/ IsDash(s, k + 1))
  BY FitsAt
<1>6. \A k \in F : k + 1 \in dashes
  BY <1>1, <1>5
<1>7. m - 1 \in F
  <2>1. m - 1 \in 1 .. MaxLen /\ m - 1 + 1 = m
    BY <1>4
  <2> QED
    BY <1>4, <1>5, <2>1
<1>8. Max(F) \in F /\ \A k \in F : k <= Max(F)
  BY <1>5, <1>7, MaxOfBounded
<1>9. Best(s) = Max(F)
  BY <1>7 DEF Best
<1>10. Trimmed(s, MaxLen) = SubSeq(s, 1, m - 1)
  <2>1. ~(L <= MaxLen) /\ dashes # {} /\ m > 1
    BY <1>1, <1>3, <1>4
  <2> QED
    BY <2>1 DEF Trimmed
<1> HIDE DEF dashes, m, F
<1>11. Max(F) = m - 1 /\ m - 1 \in 1 .. MaxLen
  BY <1>3, <1>4, <1>5, <1>6, <1>7, <1>8
<1>12. ~IsDash(s, m - 1)
  <2>1. m \in 1 .. L /\ s[m] = "-" /\ m - 1 \in 1 .. L /\ m - 1 # L /\ m - 1 + 1 = m
    BY <1>1, <1>4, DashAt
  <2>2. s[m - 1] = "-" => s[m] # "-"
    BY <2>1, SingleDashesAt
  <2> QED
    BY <2>1, <2>2, DashAt
<1> QED
  BY <1>9, <1>10, <1>11, <1>12

LEMMA CutAtLimit ==
  ASSUME NEW s \in Seq(SlugBytes), Len(s) > MaxLen,
         \A i \in 1 .. MaxLen + 1 : ~IsDash(s, i)
  PROVE  Best(s) = MaxLen /\ Trimmed(s, MaxLen) = SubSeq(s, 1, MaxLen)
<1> DEFINE t == SubSeq(s, 1, MaxLen)
           K == {0} \union {i \in DOMAIN t : t[i] # "-"}
           m == Max(K)
           dashes == {i \in 1 .. MaxLen + 1 : IsDash(s, i)}
<1>1. Len(s) \in Nat /\ MaxLen \in Nat \ {0}
  BY LenProperties
<1>2. Fits(s) = {}
  <2> SUFFICES ASSUME NEW k \in Fits(s) PROVE FALSE
    OBVIOUS
  <2>1. k \in 1 .. MaxLen /\ (k = Len(s) \/ IsDash(s, k + 1))
    BY FitsAt
  <2>2. k # Len(s) /\ k + 1 \in 1 .. MaxLen + 1
    BY <1>1, <2>1
  <2> QED
    BY <2>1, <2>2
<1>3. t \in Seq(SlugBytes) /\ Len(t) = MaxLen /\ \A i \in 1 .. MaxLen : t[i] = s[i]
  BY <1>1, FirstPart
<1>4. \A i \in 1 .. MaxLen : s[i] # "-"
  <2> TAKE i \in 1 .. MaxLen
  <2>1. i \in 1 .. Len(s) /\ ~IsDash(s, i)
    BY <1>1
  <2> QED
    BY <2>1, DashAt
<1>5. DOMAIN t = 1 .. MaxLen
  BY <1>3, LenProperties
<1>6. Trimmed(s, MaxLen) = StripEnd(t)
  <2>1. dashes = {} /\ ~(Len(s) <= MaxLen)
    BY <1>1
  <2> QED
    BY <2>1 DEF Trimmed
<1>7. StripEnd(t) = SubSeq(t, 1, Max(K))
  BY DEF StripEnd
<1>8. t = SubSeq(t, 1, MaxLen)
  BY <1>3, SubSeqFull
<1> HIDE DEF t
<1>9. K \in SUBSET (0 .. MaxLen) /\ MaxLen \in K /\ K # {}
  BY <1>1, <1>3, <1>4, <1>5
<1> HIDE DEF K
<1>10. m \in K /\ \A i \in K : i <= m
  BY <1>1, <1>9, MaxOfBounded
<1> HIDE DEF m
<1>11. m = MaxLen
  BY <1>1, <1>9, <1>10
<1> QED
  BY <1>2, <1>6, <1>7, <1>8, <1>11 DEF Best, t, K, m

LEMMA TrimmedAt ==
  ASSUME NEW s \in Seq(SlugBytes), s # <<>>, SingleDashes(s),
         ~IsDash(s, 1), ~IsDash(s, Len(s))
  PROVE  /\ Trimmed(s, MaxLen) = SubSeq(s, 1, Best(s))
         /\ Best(s) \in 1 .. MaxLen /\ Best(s) <= Len(s)
         /\ ~IsDash(s, Best(s))
<1>1. Len(s) \in Nat \ {0} /\ MaxLen \in Nat \ {0}
  BY EmptySeq, LenProperties
<1>2. CASE Len(s) <= MaxLen
  BY <1>1, <1>2, ShortKept
<1>3. CASE Len(s) > MaxLen
  <2>1. CASE \E j \in 1 .. MaxLen + 1 : IsDash(s, j)
    <3>1. PICK j \in 1 .. MaxLen + 1 : IsDash(s, j)
      BY <2>1
    <3> QED
      BY <1>1, <1>3, <3>1, CutAtDash
  <2>2. CASE \A i \in 1 .. MaxLen + 1 : ~IsDash(s, i)
    <3>1. MaxLen \in 1 .. MaxLen + 1
      BY <1>1
    <3> QED
      BY <1>1, <1>3, <2>2, <3>1, CutAtLimit
  <2> QED
    BY <2>1, <2>2
<1> QED
  BY <1>1, <1>2, <1>3

\* What is left after the cut, the empty title's slug included.
LEMMA TrimmedKeeps ==
  ASSUME NEW s \in Seq(SlugBytes), SingleDashes(s),
         ~IsDash(s, 1), ~IsDash(s, Len(s)), NEW b, b = Trimmed(s, MaxLen)
  PROVE  /\ b \in Seq(SlugBytes) /\ SingleDashes(b) /\ Len(b) <= MaxLen
         /\ ~IsDash(b, 1) /\ ~IsDash(b, Len(b))
<1>1. CASE s = <<>>
  <2>1. Len(s) = 0 /\ b = s
    BY <1>1, EmptySeq DEF Trimmed
  <2> QED
    BY <2>1
<1>2. CASE s # <<>>
  <2> DEFINE n == Best(s)
  <2>1. b = SubSeq(s, 1, n) /\ n \in 1 .. MaxLen /\ n <= Len(s) /\ ~IsDash(s, n)
    BY <1>2, TrimmedAt
  <2> HIDE DEF n
  <2>2. b \in Seq(SlugBytes) /\ Len(b) = n /\ \A i \in 1 .. n : b[i] = s[i]
    BY <2>1, FirstPart
  <2>3. SingleDashes(b) /\ ~IsDash(b, 1)
    BY <2>1, PartKeeps
  <2>4. n \in 1 .. Len(s) /\ n \in 1 .. n
    BY <2>1, LenProperties
  <2>5. s[n] # "-"
    BY <2>1, <2>4, DashAt
  <2>6. ~IsDash(b, n)
    BY <2>2, <2>4, <2>5, DashAt
  <2> QED
    BY <2>1, <2>2, <2>3, <2>6
<1> QED
  BY <1>1, <1>2

----------------------------------------------------------------------------
\* The invariant of the three functions.
LEMMA InitInv == Init => IInv
<1> SUFFICES ASSUME Init PROVE IInv
  OBVIOUS
<1>1. PICK n \in 0 .. MaxTitle : title \in [1 .. n -> Bytes]
  BY DEF Init
<1>2. title \in Seq(Bytes)
  BY <1>1, SeqDef
<1>3. SingleDashes(<<>>)
  BY EmptySeq DEF SingleDashes
<1> QED
  BY <1>2, <1>3, EmptySeq DEF Init, IInv

LEMMA Inductive == IInv /\ [Next]_vars => IInv'
<1> SUFFICES ASSUME IInv, [Next]_vars PROVE IInv'
  OBVIOUS
<1> USE DEF IInv
<1>1. CASE ascii_normalize
  <2>1. CASE at <= Len(title) /\ at' = at + 1 /\ UNCHANGED pc
             /\ norm' = IF Kept(title[at]) THEN Append(norm, Normal(title[at])) ELSE norm
    <3>1. title[at] \in Bytes
      BY <2>1, LenProperties, ElementOfSeq
    <3>2. norm' \in Seq(Normals)
      BY <2>1, <3>1, NormalByte, AppendProperties
    <3> QED
      BY <1>1, <2>1, <3>2 DEF ascii_normalize
  <2>2. CASE at > Len(title) /\ pc' = "slugify_basic" /\ at' = 1 /\ UNCHANGED norm
    BY <1>1, <2>2 DEF ascii_normalize
  <2> QED
    BY <1>1, <2>1, <2>2 DEF ascii_normalize
<1>2. CASE slugify_basic
  <2>1. CASE at <= Len(norm) /\ slug' = Collapsed(slug, norm[at])
             /\ at' = at + 1 /\ UNCHANGED pc
    <3>1. norm[at] \in Normals
      BY <2>1, LenProperties, ElementOfSeq
    <3>2. slug' \in Seq(SlugBytes) /\ SingleDashes(slug')
      BY <2>1, <3>1, CollapsedKeeps
    <3> QED
      BY <1>2, <2>1, <3>2 DEF slugify_basic
  <2>2. CASE at > Len(norm) /\ slug' = NoEnds(slug) /\ pc' = "smart_trim"
             /\ UNCHANGED at
    <3>1. /\ slug' \in Seq(SlugBytes) /\ SingleDashes(slug')
          /\ ~IsDash(slug', 1) /\ ~IsDash(slug', Len(slug'))
      BY <2>2, NoEndsKeeps
    <3> QED
      BY <1>2, <2>2, <3>1 DEF slugify_basic
  <2> QED
    BY <1>2, <2>1, <2>2 DEF slugify_basic
<1>3. CASE smart_trim
  BY <1>3 DEF smart_trim
<1>4. CASE UNCHANGED vars
  BY <1>4 DEF vars
<1> QED
  BY <1>1, <1>2, <1>3, <1>4 DEF Next, Done

\* What each function of slugger.h hands to the next: ascii_normalize no byte
\* the slug may not have, slugify_basic single dashes between words, none at
\* an end, smart_trim the slug cut where Trimmed says.
THEOREM Invariance == Spec => []IInv
BY InitInv, Inductive, PTL DEF Spec

\* make_slug appends the hash to a base that ends in no dash: for every title
\* and limit the slug has at most the limit and the hash, and single dashes.
THEOREM WellFormed == Spec => []SlugIsWellFormed
<1>1. IInv => SlugIsWellFormed
  <2> SUFFICES ASSUME IInv, pc = "done" PROVE SlugIsWellFormed
    BY DEF SlugIsWellFormed
  <2> DEFINE S == SlugBytes \union {Hash}
             e == <<"-", Hash>>
             n == Len(base)
             m == make_slug
  <2>1. /\ base \in Seq(SlugBytes) /\ SingleDashes(base) /\ n <= MaxLen
        /\ ~IsDash(base, 1) /\ ~IsDash(base, n)
    BY TrimmedKeeps DEF IInv
  <2>2. base \in Seq(S) /\ n \in Nat
    BY <2>1, LenProperties, SeqMonotonic
  <2>3. e \in Seq(S) /\ Len(e) = 2 /\ e[1] = "-" /\ e[2] = Hash
    BY DEF SlugBytes
  <2>4. /\ m \in Seq(S) /\ Len(m) = n + 2
        /\ \A i \in 1 .. n + 2 : m[i] = IF i <= n THEN base[i] ELSE e[i - n]
    <3> HIDE DEF e, S
    <3> QED
      BY <2>2, <2>3, ConcatProperties DEF make_slug, e
  <2>5. \A i \in 1 .. n : base[i] = "-" => i = n \/ base[i + 1] # "-"
    BY <2>1, SingleDashesAt
  <2>6. n \in 1 .. n => base[n] # "-"
    BY <2>1, DashAt
  <2>7. 1 \in 1 .. n => base[1] # "-"
    BY <2>1, DashAt
  <2>8. SingleDashes(m) <=>
          \A i \in 1 .. Len(m) : m[i] = "-" => i = Len(m) \/ m[i + 1] # "-"
    BY <2>4, SingleDashesAt
  <2>9. IsDash(m, 1) <=> 1 \in 1 .. Len(m) /\ m[1] = "-"
    BY <2>4, DashAt
  <2>10. base # <<>> => n >= 1
    BY <2>1, <2>2, EmptySeq
  <2> HIDE DEF e, m, n, S
  <2>11. m[n + 1] = "-" /\ m[n + 2] = Hash
    BY <2>2, <2>3, <2>4
  <2>12. SingleDashes(m)
    BY <2>2, <2>4, <2>5, <2>6, <2>8, <2>11
  <2>13. base # <<>> => ~IsDash(m, 1)
    BY <2>2, <2>4, <2>7, <2>9, <2>10
  <2> QED
    BY <2>1, <2>2, <2>4, <2>12, <2>13 DEF SlugIsWellFormed, m
<1> QED
  BY <1>1, Invariance, PTL

\* smart_trim cuts a title of any length behind the last word that fits, and
\* within a word only if not even the first one does.
THEOREM WholeWords == Spec => []TrimKeepsWholeWords
<1>1. IInv => TrimKeepsWholeWords
  <2> SUFFICES ASSUME IInv, pc = "done", slug # <<>>
               PROVE  base = SubSeq(slug, 1, Best(slug))
    BY DEF TrimKeepsWholeWords, Best, Fits
  <2> QED
    BY TrimmedAt DEF IInv
<1> QED
  BY <1>1, Invariance, PTL
=============================================================================
