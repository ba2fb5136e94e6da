--------------------------- MODULE PublisherProofs ---------------------------
(***************************************************************************)
(* Proofs about Publisher, for any guardfiles, any keys, any number of     *)
(* calls and attempts.  First what the guards of a key amount to: cleaning *)
(* a key that passed them changes nothing.  Then the bucket: what lies in  *)
(* it was put by a call that passed the guards, and what a call was told   *)
(* agrees with the bucket it was told it of.                               *)
(***************************************************************************)
EXTENDS Publisher, SequenceTheorems, WellFoundedInduction, TLAPS

-----------------------------------------------------------------------------
\* A set of positions has a first and a last one.
LEMMA MinIs ==
    ASSUME NEW I \in SUBSET Nat, I # {}
    PROVE  Min(I) \in I /\ \A j \in I : Min(I) <= j
<1>0. I \subseteq Nat /\ I # {}
    OBVIOUS
<1>1. \E m \in I : \A k \in I : ~(<<k, m>> \in OpToRel(<, Nat))
    BY <1>0, WFMin, NatLessThanWellFounded, Zenon
<1>2. PICK m \in I : \A k \in I : ~(<<k, m>> \in OpToRel(<, Nat))
    BY <1>1
<1>3. \A k \in I : m <= k
  <2> SUFFICES ASSUME NEW k \in I PROVE m <= k
      OBVIOUS
  <2>1. k \in Nat /\ m \in Nat
      BY <1>0
  <2>2. ~(<<k, m>> \in OpToRel(<, Nat))
      BY <1>2
  <2>3. ~(k < m)
      BY <2>1, <2>2 DEF OpToRel
  <2> QED
      BY <2>1, <2>3
<1> QED
    BY <1>3 DEF Min

LEMMA MaxIs ==
    ASSUME NEW n \in Nat, NEW I \in SUBSET (0 .. n), I # {}
    PROVE  Max(I) \in I /\ \A j \in I : Max(I) >= j
<1> DEFINE back == {n - i : i \in I}
<1>1. back \in SUBSET Nat /\ back # {}
  <2>1. \A i \in I : i \in 0 .. n /\ n - i \in Nat
      OBVIOUS
  <2> QED
      BY <2>1
<1> HIDE DEF back
<1>2. Min(back) \in back /\ \A j \in back : Min(back) <= j
    BY <1>1, MinIs
<1>3. PICK m \in I : Min(back) = n - m
    BY <1>2 DEF back
<1>4. \A j \in I : m >= j
  <2> SUFFICES ASSUME NEW j \in I PROVE m >= j
      OBVIOUS
  <2>1. n - m <= n - j
      BY <1>2, <1>3 DEF back
  <2>2. m \in Int /\ j \in Int
      OBVIOUS
  <2> QED
      BY <2>1, <2>2
<1> QED
    BY <1>4 DEF Max

\* Trimming takes no more the second time.
LEMMA Trimmed ==
    ASSUME NEW S, NEW s \in Seq(S), NEW set
    PROVE  TrimSet(s, set) \in Seq(S) /\ TrimSet(TrimSet(s, set), set) = TrimSet(s, set)
<1> DEFINE kept(u) == {i \in DOMAIN u : u[i] \notin set}
           t == TrimSet(s, set)
<1>1. CASE kept(s) = {}
  <2>1. t = <<>> /\ kept(<<>>) = {}
      BY <1>1 DEF TrimSet
  <2>2. TrimSet(<<>>, set) = <<>>
      BY <2>1 DEF TrimSet
  <2> QED
      BY <2>1, <2>2, EmptySeq
<1>2. CASE kept(s) # {}
  <2> DEFINE a == Min(kept(s))
             b == Max(kept(s))
  <2>1. Len(s) \in Nat /\ DOMAIN s = 1 .. Len(s) /\ kept(s) \in SUBSET (1 .. Len(s))
      BY LenProperties
  <2>2. a \in kept(s) /\ \A j \in kept(s) : a <= j
    <3>1. kept(s) \in SUBSET Nat
        BY <2>1
    <3> QED
        BY <1>2, <3>1, MinIs
  <2>3. b \in kept(s) /\ \A j \in kept(s) : b >= j
    <3>1. kept(s) \in SUBSET (0 .. Len(s))
        BY <2>1
    <3> QED
        BY <1>2, <2>1, <3>1, MaxIs
  <2>4. t = SubSeq(s, a, b)
      BY <1>2 DEF TrimSet
  <2>5. /\ a \in 1 .. Len(s) /\ b \in 1 .. Len(s) /\ a <= b
        /\ s[a] \notin set /\ s[b] \notin set
      BY <2>1, <2>2, <2>3
  <2> HIDE DEF a, b, t
  <2>6. t \in Seq(S) /\ Len(t) = b - a + 1 /\ \A i \in 1 .. b - a + 1 : t[i] = s[a + i - 1]
    <3>1. \A i \in a .. b : s[i] \in S
        BY <2>1, <2>5, ElementOfSeq
    <3> QED
        BY <2>1, <2>4, <2>5, <3>1, SubSeqProperties
  <2> DEFINE m == b - a + 1
  <2>7. m \in Nat /\ m >= 1 /\ Len(t) = m /\ DOMAIN t = 1 .. m /\ t[1] = s[a] /\ t[m] = s[b]
    <3>1. m \in Nat /\ m >= 1 /\ a + 1 - 1 = a /\ a + m - 1 = b
        BY <2>1, <2>5
    <3>2. DOMAIN t = 1 .. Len(t)
        BY <2>6, LenProperties
    <3> QED
        BY <2>6, <3>1, <3>2
  <2> HIDE DEF m
  <2>8. Min(kept(t)) = 1 /\ Max(kept(t)) = m
    <3>1. 1 \in kept(t) /\ m \in kept(t) /\ kept(t) \in SUBSET (1 .. m)
        BY <2>5, <2>7
    <3>2. kept(t) \in SUBSET Nat /\ kept(t) \in SUBSET (0 .. m) /\ kept(t) # {}
        BY <2>7, <3>1
    <3>3. Min(kept(t)) \in kept(t) /\ Min(kept(t)) <= 1
        BY <3>1, <3>2, MinIs
    <3>4. Max(kept(t)) \in kept(t) /\ Max(kept(t)) >= m
        BY <2>7, <3>1, <3>2, MaxIs
    <3> HIDE DEF kept
    <3> QED
        BY <2>7, <3>1, <3>3, <3>4
  <2>9. TrimSet(t, set) = SubSeq(t, 1, m)
    <3>1. kept(t) # {}
        BY <2>5, <2>7
    <3> QED
        BY <2>8, <3>1 DEF TrimSet
  <2>10. SubSeq(t, 1, m) = t
      BY <2>6, <2>7, SubSeqFull
  <2> QED
      BY <2>5, <2>6, <2>7, <2>9, <2>10 DEF t
<1> QED
    BY <1>1, <1>2

-----------------------------------------------------------------------------
\* What keys and prefixes are made of.
Chars == STRING \cup {"/"}

LEMMA SlashIsAChar == "/" \in Chars
BY DEF Chars

\* What resolveKey looks at in a key: both ends, no empty segment, none that traverses.
Straight(key) ==
    /\ key \in Seq(Chars) /\ key # <<>>
    /\ key[1] # "/" /\ key[Len(key)] # "/"
    /\ ~HasIn(key, <<"/", "/">>)
    /\ ~Traverses(key)

\* From one slash, or the start, to the next, or the end.
Spans(key, i, j) ==
    /\ i \in 0 .. Len(key) /\ j \in i .. Len(key)
    /\ i = 0 \/ key[i] = "/"
    /\ j = Len(key) \/ key[j + 1] = "/"

LEMMA Between ==
    ASSUME NEW key \in Seq(Chars)
    PROVE  LET wide == <<"/">> \o key \o <<"/">> IN
           /\ wide \in Seq(Chars) /\ Len(wide) = Len(key) + 2
           /\ wide[1] = "/" /\ wide[Len(key) + 2] = "/"
           /\ \A k \in 1 .. Len(key) : wide[k + 1] = key[k]
<1> DEFINE slash == <<"/">>
           n     == Len(key)
<1>1. slash \in Seq(Chars) /\ Len(slash) = 1 /\ slash[1] = "/" /\ n \in Nat
    BY SlashIsAChar, LenProperties
<1> HIDE DEF slash, n
<1>2. /\ slash \o key \in Seq(Chars) /\ Len(slash \o key) = n + 1
      /\ (slash \o key)[1] = "/"
      /\ \A k \in 1 .. n : (slash \o key)[k + 1] = key[k]
  <2>1. /\ slash \o key \in Seq(Chars) /\ Len(slash \o key) = 1 + n
        /\ \A k \in 1 .. 1 + n : (slash \o key)[k] = IF k <= 1 THEN slash[k] ELSE key[k - 1]
    <3>1. /\ slash \o key \in Seq(Chars) /\ Len(slash \o key) = Len(slash) + Len(key)
          /\ \A k \in 1 .. Len(slash) + Len(key) :
                 (slash \o key)[k] = IF k <= Len(slash) THEN slash[k] ELSE key[k - Len(slash)]
        BY <1>1, ConcatProperties
    <3> QED
        BY <1>1, <3>1 DEF n
  <2> QED
      BY <1>1, <2>1
<1>3. /\ (slash \o key) \o slash \in Seq(Chars) /\ Len((slash \o key) \o slash) = n + 1 + 1
      /\ \A k \in 1 .. n + 1 + 1 : ((slash \o key) \o slash)[k] =
             IF k <= n + 1 THEN (slash \o key)[k] ELSE slash[k - (n + 1)]
  <2> DEFINE front == slash \o key
  <2>1. front \in Seq(Chars) /\ Len(front) = n + 1
      BY <1>2
  <2> HIDE DEF front
  <2>2. /\ front \o slash \in Seq(Chars) /\ Len(front \o slash) = Len(front) + Len(slash)
        /\ \A k \in 1 .. Len(front) + Len(slash) :
               (front \o slash)[k] = IF k <= Len(front) THEN front[k] ELSE slash[k - Len(front)]
      BY <1>1, <2>1, ConcatProperties
  <2> QED
      BY <1>1, <2>1, <2>2 DEF front
<1>4. /\ ((slash \o key) \o slash)[1] = "/" /\ ((slash \o key) \o slash)[n + 2] = "/"
      /\ \A k \in 1 .. n : ((slash \o key) \o slash)[k + 1] = key[k]
    BY <1>1, <1>2, <1>3
<1> QED
    BY <1>1, <1>3, <1>4 DEF slash, n

\* A segment of such a key is not empty, and does not traverse.
LEMMA SegmentIsAName ==
    ASSUME NEW key, Straight(key), NEW i, NEW j, Spans(key, i, j)
    PROVE  SubSeq(key, i + 1, j) \notin {<<>>, <<".">>, <<".", ".">>}
<1> DEFINE n    == Len(key)
           m    == j - i
           seg  == SubSeq(key, i + 1, j)
           wide == <<"/">> \o key \o <<"/">>
           part == <<"/">> \o seg \o <<"/">>
<1>1. key \in Seq(Chars) /\ n \in Nat /\ n >= 1 /\ i \in 0 .. n /\ j \in 0 .. n /\ i <= j /\ m \in Nat /\ j = i + m
    BY LenProperties, EmptySeq DEF Straight, Spans
<1>2. \A k \in 1 .. n : key[k] \in Chars
    BY <1>1, ElementOfSeq
<1>3. seg \in Seq(Chars) /\ Len(seg) = m /\ \A k \in 1 .. m : seg[k] = key[i + k]
  <2>1. \A k \in i + 1 .. j : key[k] \in Chars
      BY <1>1, <1>2
  <2>2. /\ seg \in Seq(Chars) /\ Len(seg) = IF i + 1 <= j THEN j - (i + 1) + 1 ELSE 0
        /\ \A k \in 1 .. j - (i + 1) + 1 : seg[k] = key[i + 1 + k - 1]
      BY <1>1, <2>1, SubSeqProperties
  <2>3. j - (i + 1) + 1 = m /\ \A k \in 1 .. m : i + 1 + k - 1 = i + k
      BY <1>1
  <2> QED
      BY <1>1, <2>2, <2>3
<1>4. /\ wide \in Seq(Chars) /\ Len(wide) = n + 2 /\ wide[1] = "/" /\ wide[n + 2] = "/"
      /\ \A k \in 1 .. n : wide[k + 1] = key[k]
    BY <1>1, Between
<1>5. /\ part \in Seq(Chars) /\ Len(part) = m + 2 /\ part[1] = "/" /\ part[m + 2] = "/"
      /\ \A k \in 1 .. m : part[k + 1] = seg[k]
  <2> HIDE DEF m, seg
  <2>1. seg \in Seq(Chars) /\ Len(seg) = m
      BY <1>3
  <2>2. /\ part \in Seq(Chars) /\ Len(part) = Len(seg) + 2 /\ part[1] = "/" /\ part[Len(seg) + 2] = "/"
        /\ \A k \in 1 .. Len(seg) : part[k + 1] = seg[k]
      BY <2>1, Between, Zenon
  <2> QED
      BY <2>1, <2>2, Zenon
<1> HIDE DEF n, m, seg, wide, part
<1>6. wide[i + 1] = "/" /\ wide[j + 2] = "/"
  <2>1. wide[i + 1] = "/"
      BY <1>1, <1>4 DEF Spans
  <2>2. CASE j = n
      BY <1>4, <2>1, <2>2
  <2>3. CASE j # n
    <3>1. j + 1 \in 1 .. n /\ key[j + 1] = "/" /\ j + 1 + 1 = j + 2
        BY <1>1, <2>3 DEF Spans, n
    <3> QED
        BY <1>4, <2>1, <3>1
  <2> QED
      BY <2>2, <2>3
<1>7. part \in SubSeqs(wide)
  <2> DEFINE cut == SubSeq(wide, i + 1, j + 2)
  <2>1. \A k \in i + 1 .. j + 2 : wide[k] \in Chars
    <3>1. i + 1 .. j + 2 \subseteq 1 .. n + 2
        BY <1>1
    <3> QED
        BY <1>4, <3>1, ElementOfSeq
  <2>2. cut \in Seq(Chars) /\ Len(cut) = m + 2 /\ \A k \in 1 .. m + 2 : cut[k] = wide[i + k]
    <3>1. /\ cut \in Seq(Chars) /\ Len(cut) = IF i + 1 <= j + 2 THEN j + 2 - (i + 1) + 1 ELSE 0
          /\ \A k \in 1 .. j + 2 - (i + 1) + 1 : cut[k] = wide[i + 1 + k - 1]
        BY <1>1, <2>1, SubSeqProperties
    <3>2. j + 2 - (i + 1) + 1 = m + 2 /\ i + 1 <= j + 2 /\ \A k \in 1 .. m + 2 : i + 1 + k - 1 = i + k
        BY <1>1
    <3> QED
        BY <3>1, <3>2
  <2> HIDE DEF cut
  <2>3. ASSUME NEW k \in 1 .. m + 2 PROVE cut[k] = part[k]
    <3>1. CASE k = 1
        BY <1>5, <1>6, <2>2, <3>1
    <3>2. CASE k = m + 2
      <4>1. i + k = j + 2
          BY <1>1, <3>2
      <4> QED
          BY <1>5, <1>6, <2>2, <3>2, <4>1
    <3>3. CASE k # 1 /\ k # m + 2
      <4>1. k - 1 \in 1 .. m /\ i + (k - 1) \in 1 .. n /\ k - 1 + 1 = k /\ i + (k - 1) + 1 = i + k
          BY <1>1, <3>3
      <4>2. part[k] = key[i + (k - 1)]
          BY <1>3, <1>5, <4>1
      <4>3. wide[i + k] = key[i + (k - 1)]
          BY <1>4, <4>1
      <4> QED
          BY <2>2, <4>2, <4>3
    <3> QED
        BY <3>1, <3>2, <3>3
  <2>4. cut = part
      BY <1>5, <2>2, <2>3, SeqEqual
  <2>5. i \in 0 .. Len(wide) /\ j + 2 \in 0 .. Len(wide)
      BY <1>1, <1>4
  <2> QED
      BY <2>4, <2>5 DEF SubSeqs, cut
<1>8. seg # <<".">> /\ seg # <<".", ".">>
    BY <1>7 DEF Straight, Traverses, HasIn, part, wide
<1>9. seg # <<>>
  <2> SUFFICES ASSUME seg = <<>> PROVE FALSE
      OBVIOUS
  <2>1. m = 0 /\ i = j
      BY <1>1, <1>3
  <2>2. CASE i = 0
      BY <1>1, <2>1, <2>2 DEF Straight, Spans, n
  <2>3. CASE i = n
      BY <1>1, <2>3 DEF Straight, Spans, n
  <2>4. CASE i # 0 /\ i # n
    <3> DEFINE cut == SubSeq(key, i, i + 1)
    <3>1. i \in 1 .. n /\ i + 1 \in 1 .. n /\ key[i] = "/" /\ key[i + 1] = "/"
        BY <1>1, <2>1, <2>4 DEF Spans, n
    <3>2. \A k \in i .. i + 1 : key[k] \in Chars
        BY <1>1, <1>2, <3>1
    <3>3. cut \in Seq(Chars) /\ Len(cut) = 2 /\ cut[1] = "/" /\ cut[2] = "/"
      <4>1. /\ cut \in Seq(Chars) /\ Len(cut) = IF i <= i + 1 THEN i + 1 - i + 1 ELSE 0
            /\ \A k \in 1 .. i + 1 - i + 1 : cut[k] = key[i + k - 1]
          BY <1>1, <3>2, SubSeqProperties
      <4>2. i <= i + 1 /\ i + 1 - i + 1 = 2 /\ i + 1 - 1 = i /\ i + 2 - 1 = i + 1
          BY <1>1
      <4> QED
          BY <3>1, <4>1, <4>2
    <3> HIDE DEF cut
    <3>4. cut = <<"/", "/">>
      <4>1. <<"/", "/">> \in Seq(Chars) /\ Len(<<"/", "/">>) = 2
          BY SlashIsAChar
      <4>2. \A k \in 1 .. 2 : cut[k] = <<"/", "/">>[k]
          BY <3>3
      <4> QED
          BY <3>3, <4>1, <4>2, SeqEqual
    <3>5. cut \in SubSeqs(key)
      <4>1. i - 1 \in 0 .. n /\ i + 1 \in 0 .. n /\ i - 1 + 1 = i
          BY <1>1, <3>1
      <4>2. \E a \in 0 .. n : a + 1 = i
          BY <4>1
      <4>3. \E a, b \in 0 .. Len(key) : SubSeq(key, a + 1, b) = cut
          BY <4>1, <4>2 DEF cut, n
      <4> QED
          BY <4>3 DEF SubSeqs
    <3> QED
        BY <3>4, <3>5 DEF Straight, HasIn
  <2> QED
      BY <2>2, <2>3, <2>4
<1> QED
    BY <1>8, <1>9 DEF seg

\* Joining such a segment to what is before its slash gives what is before its end.
LEMMA Joined ==
    ASSUME NEW key, Straight(key), NEW i, NEW j, Spans(key, i, j)
    PROVE  Join(SubSeq(key, 1, i - 1), SubSeq(key, i + 1, j)) = SubSeq(key, 1, j)
<1> DEFINE n   == Len(key)
           out == SubSeq(key, 1, i - 1)
           seg == SubSeq(key, i + 1, j)
<1>1. key \in Seq(Chars) /\ n \in Nat /\ n >= 1 /\ i \in 0 .. n /\ j \in 0 .. n /\ i <= j
    BY LenProperties, EmptySeq DEF Straight, Spans
<1>2. \A k \in 1 .. n : key[k] \in Chars
    BY <1>1, ElementOfSeq
<1>3. Join(out, seg) = IF out = <<>> THEN seg ELSE out \o <<"/">> \o seg
  <2>1. seg \notin {<<>>, <<".">>, <<".", ".">>}
      BY SegmentIsAName
  <2> HIDE DEF seg, out
  <2> QED
      BY <2>1 DEF Join
<1>4. CASE i = 0
  <2>1. out = <<>>
    <3>1. i - 1 = -1 /\ \A k \in 1 .. i - 1 : key[k] \in Chars
        BY <1>4
    <3>2. out \in Seq(Chars) /\ Len(out) = 0
        BY <1>4, <3>1, SubSeqProperties
    <3> QED
        BY <3>2, EmptySeq
  <2>2. i + 1 = 1
      BY <1>4
  <2> QED
      BY <1>3, <2>1, <2>2
<1>5. CASE i # 0
  <2>1. key[i] = "/" /\ i # 1 /\ i - 1 \in 1 .. n /\ i \in 1 .. n
      BY <1>1, <1>5 DEF Straight, Spans
  <2>2. out # <<>>
    <3>1. \A k \in 1 .. i - 1 : key[k] \in Chars
        BY <1>1, <1>2
    <3>2. Len(out) = i - 1
        BY <1>1, <2>1, <3>1, SubSeqProperties
    <3> QED
        BY <2>1, <3>2, EmptySeq
  <2>3. SubSeq(key, i, i) = <<"/">>
    <3>1. SubSeq(key, i, i) \in Seq(Chars) /\ Len(SubSeq(key, i, i)) = 1 /\ SubSeq(key, i, i)[1] = key[i]
      <4>1. \A k \in i .. i : key[k] \in Chars
          BY <1>1, <1>2, <2>1
      <4>2. /\ SubSeq(key, i, i) \in Seq(Chars)
            /\ Len(SubSeq(key, i, i)) = IF i <= i THEN i - i + 1 ELSE 0
            /\ \A k \in 1 .. i - i + 1 : SubSeq(key, i, i)[k] = key[i + k - 1]
          BY <1>1, <4>1, SubSeqProperties
      <4>3. i - i + 1 = 1 /\ i <= i /\ i + 1 - 1 = i
          BY <1>1
      <4> QED
          BY <4>2, <4>3
    <3>2. <<"/">> \in Seq(Chars) /\ Len(<<"/">>) = 1 /\ <<"/">>[1] = "/"
        BY SlashIsAChar
    <3>3. \A k \in 1 .. 1 : SubSeq(key, i, i)[k] = <<"/">>[k]
        BY <2>1, <3>1, <3>2
    <3> HIDE DEF out
    <3> QED
        BY <3>1, <3>2, <3>3, SeqEqual
  <2>4. out \o SubSeq(key, i, i) = SubSeq(key, 1, i)
    <3>1. 1 \in 1 .. Len(key) + 1 /\ i - 1 \in 1 - 1 .. Len(key) /\ i \in i - 1 .. Len(key) /\ i - 1 + 1 = i
        BY <1>1, <2>1
    <3> QED
        BY <1>1, <3>1, ConcatAdjacentSubSeq
  <2>5. SubSeq(key, 1, i) \o seg = SubSeq(key, 1, j)
    <3>1. 1 \in 1 .. Len(key) + 1 /\ i \in 1 - 1 .. Len(key) /\ j \in i .. Len(key)
        BY <1>1
    <3> QED
        BY <1>1, <3>1, ConcatAdjacentSubSeq
  <2> QED
      BY <1>3, <2>2, <2>3, <2>4, <2>5
<1> QED
    BY <1>4, <1>5

\* What has been read of a key is all there: up to the last slash as a path, the rest as a
\* segment.
LastSlash(key, m) == Max({b \in 0 .. m : b = 0 \/ key[b] = "/"})
ReadBy(key, m) ==
    IF m = Len(key) + 1
    THEN [out |-> key, seg |-> <<>>]
    ELSE [out |-> SubSeq(key, 1, LastSlash(key, m) - 1), seg |-> SubSeq(key, LastSlash(key, m) + 1, m)]

LEMMA LastSlashIs ==
    ASSUME NEW key, NEW m \in Nat
    PROVE  LET b == LastSlash(key, m) IN
           b \in 0 .. m /\ (b = 0 \/ key[b] = "/") /\ \A k \in b + 1 .. m : key[k] # "/"
<1> DEFINE slashes == {b \in 0 .. m : b = 0 \/ key[b] = "/"}
<1>1. slashes \in SUBSET (0 .. m) /\ 0 \in slashes
    OBVIOUS
<1>2. Max(slashes) \in slashes /\ \A k \in slashes : Max(slashes) >= k
    BY <1>1, MaxIs
<1>3. ASSUME NEW k \in Max(slashes) + 1 .. m PROVE key[k] # "/"
    BY <1>2
<1> QED
    BY <1>2, <1>3 DEF LastSlash

LEMMA ReadOneMore ==
    ASSUME NEW key, Straight(key), NEW m \in 1 .. Len(key) + 1
    PROVE  ReadBy(key, m) = Step(key, ReadBy(key, m - 1), m)
<1> DEFINE n == Len(key)
           b == LastSlash(key, m - 1)
<1>1. key \in Seq(Chars) /\ n \in Nat /\ m \in Nat /\ m - 1 \in Nat /\ m - 1 \in 0 .. n /\ m - 1 # n + 1
    BY LenProperties DEF Straight
<1>2. b \in 0 .. m - 1 /\ (b = 0 \/ key[b] = "/") /\ \A k \in b + 1 .. m - 1 : key[k] # "/"
    BY <1>1, LastSlashIs
<1>3. ReadBy(key, m - 1) = [out |-> SubSeq(key, 1, b - 1), seg |-> SubSeq(key, b + 1, m - 1)]
    BY <1>1 DEF ReadBy
<1> HIDE DEF b
<1>4. CASE m <= n /\ key[m] # "/"
  <2>1. LastSlash(key, m) = b
    <3>1. /\ LastSlash(key, m) \in 0 .. m /\ (LastSlash(key, m) = 0 \/ key[LastSlash(key, m)] = "/")
          /\ \A k \in LastSlash(key, m) + 1 .. m : key[k] # "/"
        BY <1>1, LastSlashIs
    <3> QED
        BY <1>1, <1>2, <1>4, <3>1
  <2>2. Append(SubSeq(key, b + 1, m - 1), key[m]) = SubSeq(key, b + 1, m)
    <3> DEFINE short == SubSeq(key, b + 1, m - 1)
               long  == SubSeq(key, b + 1, m)
               l     == m - 1 - b
    <3>1. l \in Nat /\ m = b + 1 + l /\ m \in 1 .. n /\ \A k \in b + 1 .. m : key[k] \in Chars
      <4>1. b + 1 .. m \subseteq 1 .. n
          BY <1>1, <1>2, <1>4
      <4> QED
          BY <1>1, <1>2, <1>4, <4>1, ElementOfSeq
    <3>2. short \in Seq(Chars) /\ Len(short) = l /\ \A k \in 1 .. l : short[k] = key[b + k]
      <4>1. \A k \in b + 1 .. m - 1 : key[k] \in Chars
          BY <1>1, <1>2, <3>1
      <4>2. /\ short \in Seq(Chars) /\ Len(short) = IF b + 1 <= m - 1 THEN m - 1 - (b + 1) + 1 ELSE 0
            /\ \A k \in 1 .. m - 1 - (b + 1) + 1 : short[k] = key[b + 1 + k - 1]
          BY <1>1, <1>2, <4>1, SubSeqProperties
      <4>3. m - 1 - (b + 1) + 1 = l /\ \A k \in 1 .. l : b + 1 + k - 1 = b + k
          BY <1>1, <1>2
      <4> QED
          BY <1>1, <1>2, <4>2, <4>3
    <3>3. long \in Seq(Chars) /\ Len(long) = l + 1 /\ \A k \in 1 .. l + 1 : long[k] = key[b + k]
      <4>1. /\ long \in Seq(Chars) /\ Len(long) = IF b + 1 <= m THEN m - (b + 1) + 1 ELSE 0
            /\ \A k \in 1 .. m - (b + 1) + 1 : long[k] = key[b + 1 + k - 1]
          BY <1>1, <1>2, <3>1, SubSeqProperties
      <4>2. m - (b + 1) + 1 = l + 1 /\ b + 1 <= m /\ \A k \in 1 .. l + 1 : b + 1 + k - 1 = b + k
          BY <1>1, <1>2
      <4> QED
          BY <4>1, <4>2
    <3>4. key[m] \in Chars /\ b + (l + 1) = m
        BY <1>1, <1>2, <3>1
    <3> HIDE DEF short, long, l
    <3>5. /\ Append(short, key[m]) \in Seq(Chars) /\ Len(Append(short, key[m])) = l + 1
          /\ \A k \in 1 .. l : Append(short, key[m])[k] = short[k]
          /\ Append(short, key[m])[l + 1] = key[m]
        BY <3>1, <3>2, <3>4, AppendProperties
    <3>6. ASSUME NEW k \in 1 .. l + 1 PROVE Append(short, key[m])[k] = long[k]
      <4>1. k \in 1 .. l \/ k = l + 1
          BY <3>1
      <4> QED
          BY <3>1, <3>2, <3>3, <3>4, <3>5, <4>1
    <3>7. Append(short, key[m]) = long
        BY <3>3, <3>5, <3>6, SeqEqual
    <3> QED
        BY <3>7 DEF short, long
  <2>3. ReadBy(key, m) = [out |-> SubSeq(key, 1, b - 1), seg |-> SubSeq(key, b + 1, m)]
      BY <1>1, <1>4, <2>1 DEF ReadBy
  <2>4. \A out, seg : Step(key, [out |-> out, seg |-> seg], m) = [out |-> out, seg |-> Append(seg, key[m])]
      BY <1>4 DEF Step
  <2> QED
      BY <1>3, <2>2, <2>3, <2>4
<1>5. CASE ~(m <= n /\ key[m] # "/")
  <2>1. Spans(key, b, m - 1)
      BY <1>1, <1>2, <1>5 DEF Spans
  <2>2. Join(SubSeq(key, 1, b - 1), SubSeq(key, b + 1, m - 1)) = SubSeq(key, 1, m - 1)
      BY <2>1, Joined
  <2>3. Step(key, ReadBy(key, m - 1), m) = [out |-> SubSeq(key, 1, m - 1), seg |-> <<>>]
    <3>1. \A out, seg : Step(key, [out |-> out, seg |-> seg], m) = [out |-> Join(out, seg), seg |-> <<>>]
        BY <1>5 DEF Step
    <3> QED
        BY <1>3, <2>2, <3>1
  <2>4. CASE m = n + 1
    <3>1. SubSeq(key, 1, m - 1) = key
      <4>1. m - 1 = Len(key)
          BY <1>1, <2>4
      <4> QED
          BY <1>1, <4>1, SubSeqFull
    <3> QED
        BY <2>3, <2>4, <3>1 DEF ReadBy
  <2>5. CASE m # n + 1
    <3>1. m \in 1 .. n /\ key[m] = "/"
        BY <1>1, <1>5, <2>5
    <3>2. LastSlash(key, m) = m
      <4>1. /\ LastSlash(key, m) \in 0 .. m
            /\ \A k \in LastSlash(key, m) + 1 .. m : key[k] # "/"
          BY <1>1, LastSlashIs
      <4> QED
          BY <1>1, <3>1, <4>1
    <3>3. SubSeq(key, m + 1, m) = <<>>
      <4>1. \A k \in m + 1 .. m : key[k] \in Chars
          BY <1>1
      <4>2. SubSeq(key, m + 1, m) \in Seq(Chars) /\ Len(SubSeq(key, m + 1, m)) = 0
          BY <1>1, <4>1, SubSeqProperties
      <4> QED
          BY <4>2, EmptySeq
    <3> QED
        BY <1>1, <2>3, <2>5, <3>2, <3>3 DEF ReadBy
  <2> QED
      BY <2>4, <2>5
<1> QED
    BY <1>4, <1>5

\* A key that passed is what path.Clean makes of it.
LEMMA CleanKeeps ==
    ASSUME NEW key, Straight(key)
    PROVE  Clean(key) = key
<1> DEFINE n        == Len(key)
           Reads(f) == [m \in 0 .. n + 1 |->
                           IF m = 0 THEN [out |-> <<>>, seg |-> <<>>] ELSE Step(key, f[m - 1], m)]
           g        == [m \in 0 .. n + 1 |-> ReadBy(key, m)]
           read     == CHOOSE f : f = Reads(f)
<1>1. key \in Seq(Chars) /\ n \in Nat
    BY LenProperties DEF Straight
<1>2. ReadBy(key, 0) = [out |-> <<>>, seg |-> <<>>]
  <2>1. LastSlash(key, 0) = 0 /\ 0 # n + 1
      BY <1>1, LastSlashIs
  <2>2. ReadBy(key, 0) = [out |-> SubSeq(key, 1, 0 - 1), seg |-> SubSeq(key, 0 + 1, 0)]
      BY <2>1 DEF ReadBy
  <2>3. SubSeq(key, 1, 0 - 1) \in Seq(Chars) /\ Len(SubSeq(key, 1, 0 - 1)) = 0
    <3>1. \A k \in 1 .. 0 - 1 : key[k] \in Chars
        OBVIOUS
    <3> QED
        BY <3>1, SubSeqProperties
  <2>4. SubSeq(key, 0 + 1, 0) \in Seq(Chars) /\ Len(SubSeq(key, 0 + 1, 0)) = 0
    <3>1. \A k \in 0 + 1 .. 0 : key[k] \in Chars
        OBVIOUS
    <3> QED
        BY <3>1, SubSeqProperties
  <2> QED
      BY <2>2, <2>3, <2>4, EmptySeq
<1>3. g = Reads(g)
  <2> SUFFICES ASSUME NEW m \in 0 .. n + 1
               PROVE  ReadBy(key, m) = IF m = 0 THEN [out |-> <<>>, seg |-> <<>>] ELSE Step(key, g[m - 1], m)
      OBVIOUS
  <2>1. CASE m = 0
      BY <1>2, <2>1
  <2>2. CASE m # 0
    <3>1. m \in 1 .. n + 1 /\ m - 1 \in 0 .. n + 1
        BY <1>1, <2>2
    <3>2. g[m - 1] = ReadBy(key, m - 1)
        BY <3>1
    <3> QED
        BY <2>2, <3>1, <3>2, ReadOneMore
  <2> QED
      BY <2>1, <2>2
<1> HIDE DEF g, n
<1>4. read = Reads(read)
  <2> HIDE DEF Reads
  <2> QED
      BY <1>3
<1> HIDE DEF read
<1>5. \A m \in 0 .. n + 1 : read[m] = g[m]
  <2> DEFINE wrong == {m \in 0 .. n + 1 : read[m] # g[m]}
  <2> SUFFICES ASSUME wrong # {} PROVE FALSE
      OBVIOUS
  <2>1. wrong \in SUBSET Nat
      OBVIOUS
  <2>2. Min(wrong) \in wrong /\ \A k \in wrong : Min(wrong) <= k
      BY <2>1, MinIs
  <2> DEFINE m == Min(wrong)
  <2>3. m \in 0 .. n + 1 /\ read[m] # g[m] /\ \A k \in 0 .. n + 1 : k < m => read[k] = g[k]
      BY <2>2
  <2> HIDE DEF m, wrong
  <2>4. /\ read[m] = IF m = 0 THEN [out |-> <<>>, seg |-> <<>>] ELSE Step(key, read[m - 1], m)
        /\ g[m] = IF m = 0 THEN [out |-> <<>>, seg |-> <<>>] ELSE Step(key, g[m - 1], m)
      BY <1>3, <1>4, <2>3
  <2>5. CASE m = 0
      BY <2>3, <2>4, <2>5
  <2>6. CASE m # 0
    <3>1. read[m - 1] = g[m - 1]
        BY <1>1, <2>3, <2>6
    <3> QED
        BY <2>3, <2>4, <2>6, <3>1
  <2> QED
      BY <2>5, <2>6
<1>6. Clean(key) = read[n + 1].out
    BY DEF Clean, read, n
<1>7. g[n + 1] = [out |-> key, seg |-> <<>>]
    BY <1>1 DEF g, ReadBy, n
<1> QED
    BY <1>1, <1>5, <1>6, <1>7

LEMMA StringsOfChars == Seq(STRING) \subseteq Seq(Chars)
BY SeqMonotonic DEF Chars

\* resolveKey: nothing, or the trimmed key below the prefix; and writing it trimmed gives
\* the same.
LEMMA ResolveIs ==
    ASSUME NEW raw \in Seq(STRING), policy.prefix \in Seq(Chars), Resolve(raw) # {}
    PROVE  LET key == TrimSet(raw, {" "}) IN
           /\ Straight(key)
           /\ Resolve(raw) = {policy.prefix \o key} /\ Resolve(key) = Resolve(raw)
           /\ Len(policy.prefix \o key) <= MaxKey
<1> DEFINE key  == TrimSet(raw, {" "})
           full == policy.prefix \o key
<1>1. key \in Seq(Chars) /\ TrimSet(key, {" "}) = key
  <2>1. raw \in Seq(Chars)
      BY StringsOfChars
  <2> QED
    <3>1. key \in Seq(Chars)
        BY <2>1, Trimmed
    <3>2. TrimSet(key, {" "}) = key
        BY <2>1, Trimmed
    <3> QED
        BY <3>1, <3>2
<1> HIDE DEF key
<1>2. /\ key # <<>> /\ key[1] # "/" /\ key[Len(key)] # "/" /\ ~HasIn(key, <<"/", "/">>)
      /\ ~Traverses(key) /\ ~(Len(full) > MaxKey)
      /\ Resolve(raw) = {full}
    BY DEF Resolve, key
<1>3. Resolve(key) = Resolve(raw)
    BY <1>1 DEF Resolve, key
<1>4. Len(full) <= MaxKey
  <2>1. full \in Seq(Chars)
      BY <1>1, ConcatProperties
  <2>2. Len(full) \in Nat /\ MaxKey \in Nat
      BY <2>1, LenProperties, SizesAssumption
  <2> QED
      BY <1>2, <2>2
<1> QED
    BY <1>1, <1>2, <1>3, <1>4 DEF Straight, key

-----------------------------------------------------------------------------
\* A policy and the guardfile it was parsed from.
DocOK == doc \in {Docs[i] : i \in DOMAIN Docs} /\ policy = Parse(doc)

Positions(d) == DOMAIN d.nodes

LEMMA NodesOfDoc ==
    ASSUME doc \in {Docs[i] : i \in DOMAIN Docs}
    PROVE  /\ Len(doc.nodes) \in Nat /\ DOMAIN doc.nodes = 1 .. Len(doc.nodes)
           /\ \A j \in DOMAIN doc.nodes :
                  /\ doc.nodes[j].name = "prefix" => doc.nodes[j].args \in Seq(Seq(STRING))
                  /\ doc.nodes[j].name = "max-bytes" => doc.nodes[j].args \in Seq(Int)
BY DocsAssumption

\* parseS3Policy takes nothing that Legal refuses, and keeps what the file says last.
LEMMA PolicyIs ==
    ASSUME DocOK
    PROVE  /\ policy.mode \in {"refused", "s3", "ssm"}
           /\ policy.mode = "s3" =>
                  /\ doc.mode = "s3"
                  /\ \A i \in DOMAIN doc.nodes : Legal("s3", doc.nodes[i])
                  /\ policy.prefix = Prefix(doc)
                  /\ policy.max = Stated(doc, "max-bytes", Default)
                  /\ policy.types = {args[1] : args \in All(doc, "content-type")}
<1> DEFINE good == [mode |-> "s3", prefix |-> Prefix(doc), max |-> Stated(doc, "max-bytes", Default),
                    types |-> {args[1] : args \in All(doc, "content-type")}]
           ssm  == [mode |-> "ssm", parameter |-> Stated(doc, "parameter", "")]
<1>1. \/ policy = Refused
      \/ policy = good /\ doc.mode = "s3" /\ \A i \in DOMAIN doc.nodes : Legal(doc.mode, doc.nodes[i])
      \/ policy = ssm
    BY DEF DocOK, Parse
<1>2. CASE policy = Refused
    BY <1>2 DEF Refused
<1>3. CASE policy = ssm
    BY <1>3
<1>4. CASE policy = good /\ doc.mode = "s3" /\ \A i \in DOMAIN doc.nodes : Legal(doc.mode, doc.nodes[i])
    BY <1>4
<1> QED
    BY <1>1, <1>2, <1>3, <1>4

\* The prefix is one the file states, less the slashes around it and with one behind it;
\* none if the file states none.
LEMMA PrefixIs ==
    ASSUME DocOK, policy.mode = "s3"
    PROVE  LET roots == {TrimSet(args[1], {"/"}) : args \in All(doc, "prefix")} \ {<<>>} IN
           /\ policy.prefix \in Seq(Chars)
           /\ roots = {} => policy.prefix = <<>>
           /\ roots # {} => \E root \in roots : root \in Seq(Chars) /\ policy.prefix = root \o <<"/">>
<1> DEFINE roots == {TrimSet(args[1], {"/"}) : args \in All(doc, "prefix")} \ {<<>>}
           where == {i \in Named(doc, "prefix") : Root(doc, i) # <<>>}
           n     == Len(doc.nodes)
<1>1. n \in Nat /\ DOMAIN doc.nodes = 1 .. n
    BY NodesOfDoc DEF DocOK
<1>2. policy.prefix = IF where = {} THEN <<>> ELSE Root(doc, Max(where)) \o <<"/">>
    BY PolicyIs DEF Prefix
<1>3. roots = {Root(doc, i) : i \in where}
    BY DEF All, Root
<1>4. CASE where = {}
    BY <1>2, <1>3, <1>4, EmptySeq
<1>5. CASE where # {}
  <2>1. Max(where) \in where
    <3>1. where \in SUBSET (0 .. n)
        BY <1>1 DEF Named
    <3> QED
        BY <1>1, <1>5, <3>1, MaxIs
  <2> DEFINE root == Root(doc, Max(where))
  <2>2. root \in Seq(Chars)
    <3> DEFINE args == doc.nodes[Max(where)].args
    <3>1. Max(where) \in DOMAIN doc.nodes /\ doc.nodes[Max(where)].name = "prefix"
        BY <2>1 DEF Named
    <3>2. args \in Seq(Seq(STRING))
        BY <3>1, NodesOfDoc DEF DocOK
    <3>3. Len(args) = 1
      <4>1. Legal("s3", doc.nodes[Max(where)])
          BY <3>1, PolicyIs
      <4> QED
          BY <3>1, <4>1 DEF Legal
    <3> HIDE DEF args
    <3>4. args[1] \in Seq(STRING)
      <4>1. 1 \in 1 .. Len(args)
          BY <3>3
      <4> QED
          BY <3>2, <4>1, ElementOfSeq, Zenon
    <3>5. args[1] \in Seq(Chars)
        BY <3>4, StringsOfChars
    <3> QED
        BY <3>5, Trimmed DEF Root, args
  <2>3. root \in roots
      BY <1>3, <2>1
  <2>4. policy.prefix = root \o <<"/">>
      BY <1>2, <1>5
  <2>5. <<"/">> \in Seq(Chars)
      BY SlashIsAChar
  <2> HIDE DEF root, roots
  <2>6. root \o <<"/">> \in Seq(Chars)
      BY <2>2, <2>5, ConcatProperties
  <2> QED
      BY <2>2, <2>3, <2>4, <2>6 DEF roots
<1> QED
    BY <1>4, <1>5

\* The cap is a number of bytes.
LEMMA CapIs ==
    ASSUME DocOK, policy.mode = "s3"
    PROVE  Stated(doc, "max-bytes", Default) \in Int
<1> DEFINE where == Named(doc, "max-bytes")
           n     == Len(doc.nodes)
<1>1. n \in Nat /\ DOMAIN doc.nodes = 1 .. n
    BY NodesOfDoc DEF DocOK
<1>2. CASE where = {}
    BY <1>2 DEF Stated, Default
<1>3. CASE where # {}
  <2> DEFINE args == doc.nodes[Max(where)].args
  <2>1. Max(where) \in where
    <3>1. where \in SUBSET (0 .. n)
        BY <1>1 DEF Named
    <3> QED
        BY <1>1, <1>3, <3>1, MaxIs
  <2>2. Max(where) \in DOMAIN doc.nodes /\ doc.nodes[Max(where)].name = "max-bytes"
      BY <2>1 DEF Named
  <2>3. args \in Seq(Int)
      BY <2>2, NodesOfDoc DEF DocOK
  <2>4. Len(args) = 1
    <3>1. Legal("s3", doc.nodes[Max(where)])
        BY <2>2, PolicyIs
    <3> QED
        BY <2>2, <3>1 DEF Legal
  <2>5. Stated(doc, "max-bytes", Default) = args[1]
      BY <1>3 DEF Stated
  <2> HIDE DEF args
  <2>6. args[1] \in Int
    <3>1. 1 \in 1 .. Len(args)
        BY <2>4
    <3> QED
        BY <2>3, <3>1, ElementOfSeq
  <2> QED
      BY <2>5, <2>6
<1> QED
    BY <1>2, <1>3

-----------------------------------------------------------------------------
\* The record of a call that passed its guards.
Live(r) ==
    /\ r = [stage |-> r.stage, tool |-> r.tool, args |-> r.args, after |-> r.after, tries |-> r.tries,
            answer |-> r.answer, page |-> r.page, truncated |-> r.truncated]
    /\ r.stage \in {"sent", "done"}
    /\ r.tool \in {"put", "list", "url", "parameter"}
    /\ r.tries \in 1 .. MaxTries
    /\ r.stage = "sent" => r.answer = "none"
    /\ r.stage = "done" => r.answer \in {"ok", "failed", "missing"}
    /\ r.tool = "put" => r.answer # "missing"
    /\ r.tool = "list" => r.args.key \in Seq(Chars)

CallsOK ==
    /\ calls = [c \in Calls |-> calls[c]]
    /\ \A c \in Calls : calls[c] = Idle \/ calls[c] = Declined \/ Live(calls[c])

\* A call knows which calls were over when it was sent.
AfterOK == \A c \in Calls : Live(calls[c]) => calls[c].after \subseteq Over \ {c}

\* An attempt on its way is one of a put.
FlyingOK == \A f \in flying : \E c \in Puts : \E n \in 1 .. calls[c].tries : f = <<c, n>>

\* What a put passed its guards with.
Passed(args) ==
    /\ policy.mode = "s3"
    /\ Straight(args.key)
    /\ Len(policy.prefix \o args.key) <= MaxKey
    /\ args.type \in Types /\ args.type \in policy.types
    /\ args.size \in Int /\ args.size > 0 /\ args.size <= policy.max
PutsOK == \A c \in Puts : Passed(calls[c].args)

\* An object is a seed's, or the one of the put it names.
ObjectOK(k) ==
    LET c == bucket[k].by IN
    c # "nobody" =>
        /\ c \in Puts /\ KeyOf(c) = k
        /\ bucket[k].type = calls[c].args.type /\ bucket[k].size = calls[c].args.size
BucketOK ==
    /\ bucket = [k \in DOMAIN bucket |-> bucket[k]]
    /\ \A k \in DOMAIN bucket : ObjectOK(k)

\* The last attempt of a put has landed.
Landed(c) == <<c, calls[c].tries>> \notin flying

\* What an answered put published is there, under what it may have been overwritten with:
\* never by a put that was answered before it was sent, at its first attempt.
Settled(c) == calls[c].answer = "ok" /\ calls[c].tries = 1
PublishedOK ==
    \A d \in Puts :
        /\ calls[d].answer = "ok" => Landed(d)
        /\ Landed(d) => /\ KeyOf(d) \in DOMAIN bucket
                        /\ \A c \in calls[d].after : Settled(c) => bucket[KeyOf(d)].by # c

\* What a call was told, it was told of what was published before it.
FoundOK(p, u) ==
    /\ calls[u].tool = "url" /\ calls[u].args.key = calls[p].args.key => calls[u].answer # "missing"
    /\ calls[u].tool = "list" =>
           LET asked == calls[u].args.key
               bare  == IF asked # <<>> /\ asked[1] = "/" THEN Tail(asked) ELSE asked
           IN  IsPrefix(bare, calls[p].args.key) /\ calls[u].answer = "ok"
               => KeyOf(p) \in calls[u].page \/ calls[u].truncated
HeardOK ==
    \A u \in Calls : Live(calls[u]) =>
        \A p \in calls[u].after \cap Puts : calls[p].answer = "ok" => FoundOK(p, u)

PublisherInv ==
    /\ DocOK /\ CallsOK /\ AfterOK /\ FlyingOK /\ PutsOK
    /\ BucketOK /\ PublishedOK /\ HeardOK

-----------------------------------------------------------------------------
\* What is accepted, and what is over, by the record of a call.
KindOf(r) == r = Idle \/ r = Declined \/ Live(r)

LEMMA Kinds ==
    ASSUME NEW r, KindOf(r)
    PROVE  /\ r.stage \in {"idle", "sent", "done"}
           /\ Live(r) <=> r.stage # "idle" /\ r.answer # "refused"
           /\ r.stage = "idle" <=> r = Idle
           /\ r.stage = "sent" => Live(r)
<1>1. Idle.stage = "idle" /\ Declined.stage = "done" /\ Declined.answer = "refused"
    BY DEF Idle, Declined
<1>2. CASE r = Idle
    BY <1>1, <1>2 DEF Live
<1>3. CASE r = Declined
    BY <1>1, <1>3 DEF Live
<1>4. CASE Live(r)
    BY <1>1, <1>4 DEF Live
<1> QED
    BY <1>2, <1>3, <1>4 DEF KindOf

LEMMA KindsNow ==
    ASSUME CallsOK, NEW c \in Calls
    PROVE  /\ KindOf(calls[c])
           /\ c \in Puts <=> Live(calls[c]) /\ calls[c].tool = "put"
           /\ c \in Over <=> calls[c].stage = "done"
<1>1. KindOf(calls[c])
    BY DEF CallsOK, KindOf
<1> QED
    BY <1>1, Kinds DEF Puts, Accepted, Over

LEMMA KindsNext ==
    ASSUME CallsOK', NEW c \in Calls
    PROVE  /\ KindOf(calls'[c])
           /\ c \in Puts' <=> Live(calls'[c]) /\ calls'[c].tool = "put"
           /\ c \in Over' <=> calls'[c].stage = "done"
<1>1. KindOf(calls'[c])
    BY DEF CallsOK, KindOf
<1> QED
    BY <1>1, Kinds DEF Puts, Accepted, Over

LEMMA StartOK ==
    ASSUME Init
    PROVE  PublisherInv
<1>1. DocOK
    BY DEF Init, DocOK
<1>2. CallsOK /\ \A c \in Calls : calls[c] = Idle
    BY DEF Init, CallsOK
<1>3. \A c \in Calls : c \notin Puts /\ ~Live(calls[c])
  <2>1. Idle.stage = "idle"
      BY DEF Idle
  <2> QED
      BY <1>2, <2>1, KindsNow DEF Live
<1>4. AfterOK /\ PutsOK /\ PublishedOK /\ HeardOK
    BY <1>3 DEF AfterOK, PutsOK, PublishedOK, HeardOK, Puts
<1>5. FlyingOK
    BY DEF Init, FlyingOK
<1>6. BucketOK
    BY DEF Init, BucketOK, ObjectOK
<1> QED
    BY <1>1, <1>2, <1>4, <1>5, <1>6 DEF PublisherInv

-----------------------------------------------------------------------------
\* One call moves on, and was not over: the others keep their records, and those that are
\* over stay over.
Turns(c, r) ==
    /\ c \in Calls /\ c \notin Over
    /\ calls' = [calls EXCEPT ![c] = r]
    /\ r = Declined \/ (Live(r) /\ r.after \subseteq Over)

LEMMA OneTurns ==
    ASSUME CallsOK, AfterOK, NEW c, NEW r, Turns(c, r)
    PROVE  /\ CallsOK' /\ AfterOK'
           /\ calls'[c] = r
           /\ \A x \in Calls \ {c} : /\ calls'[x] = calls[x]
                                     /\ (x \in Puts' <=> x \in Puts) /\ (x \in Over' <=> x \in Over)
           /\ \A x \in Calls : Live(calls[x]) => c \notin calls[x].after
<1>1. calls' = [x \in Calls |-> IF x = c THEN r ELSE calls[x]]
    BY DEF CallsOK, Turns
<1>2. calls'[c] = r /\ \A x \in Calls \ {c} : calls'[x] = calls[x]
    BY <1>1 DEF Turns
<1>3. CallsOK'
  <2>1. calls' = [x \in Calls |-> calls'[x]]
      BY <1>1
  <2>2. ASSUME NEW x \in Calls PROVE calls'[x] = Idle \/ calls'[x] = Declined \/ Live(calls'[x])
    <3>1. CASE x = c
        BY <1>2, <3>1 DEF Turns
    <3>2. CASE x # c
        BY <1>2, <3>2 DEF CallsOK
    <3> QED
        BY <3>1, <3>2
  <2> QED
      BY <2>1, <2>2 DEF CallsOK
<1>4. \A x \in Calls \ {c} : (x \in Puts' <=> x \in Puts) /\ (x \in Over' <=> x \in Over)
    BY <1>2, <1>3, KindsNow, KindsNext
<1>5. \A x \in Calls : Live(calls[x]) => c \notin calls[x].after
    BY DEF AfterOK, Turns
<1>6. Over \subseteq Over' /\ Over \subseteq Calls
    BY <1>4 DEF Turns, Over
<1>7. AfterOK'
  <2> SUFFICES ASSUME NEW x \in Calls, Live(calls'[x]) PROVE calls'[x].after \subseteq Over' \ {x}
      BY DEF AfterOK
  <2>1. CASE x = c
    <3>1. ~Live(Declined)
        BY Kinds DEF KindOf, Declined
    <3>2. Live(r) /\ r.after \subseteq Over /\ c \notin Over
        BY <1>2, <2>1, <3>1 DEF Turns
    <3> QED
        BY <1>2, <1>6, <2>1, <3>2
  <2>2. CASE x # c
      BY <1>2, <1>6, <2>2 DEF AfterOK
  <2> QED
      BY <2>1, <2>2
<1> QED
    BY <1>2, <1>3, <1>4, <1>5, <1>7

\* A call is turned down, is sent and is no put, or ends.
Begins(c, r) == calls[c] = Idle /\ Live(r) /\ r.stage = "sent" /\ r.tool # "put"
Ends(c, r) ==
    /\ Live(calls[c]) /\ Live(r)
    /\ r.tool = calls[c].tool /\ r.args = calls[c].args
    /\ r.after = calls[c].after /\ r.tries = calls[c].tries

LEMMA KeyStays ==
    ASSUME NEW c, policy' = policy, calls'[c].args = calls[c].args
    PROVE  KeyOf(c)' = KeyOf(c)
BY DEF KeyOf

LEMMA MoveOK ==
    ASSUME PublisherInv, NEW c, NEW r, Turns(c, r), UNCHANGED <<doc, policy, bucket, flying>>,
           \/ r = Declined /\ calls[c] = Idle
           \/ Begins(c, r)
           \/ Ends(c, r),
           r.answer = "ok" /\ r.tool = "put" => Landed(c),
           Ends(c, r) => \A p \in r.after \cap Puts : calls[p].answer = "ok" => FoundOK(p, c)'
    PROVE  PublisherInv'
<1>1. /\ CallsOK' /\ AfterOK'
      /\ calls'[c] = r
      /\ \A x \in Calls \ {c} : /\ calls'[x] = calls[x]
                                /\ (x \in Puts' <=> x \in Puts) /\ (x \in Over' <=> x \in Over)
      /\ \A x \in Calls : Live(calls[x]) => c \notin calls[x].after
    BY OneTurns DEF PublisherInv
<1>2. /\ DocOK /\ CallsOK /\ AfterOK /\ FlyingOK /\ PutsOK
      /\ BucketOK /\ PublishedOK /\ HeardOK
    BY DEF PublisherInv
<1>3. c \in Calls
    BY DEF Turns
<1>4. ~Live(Idle) /\ ~Live(Declined)
    BY Kinds DEF KindOf, Idle, Declined
<1>5. c \in Puts' <=> c \in Puts
    BY <1>1, <1>2, <1>3, <1>4, KindsNow, KindsNext DEF Begins, Ends
<1>6. \A x \in Puts : x \in Calls /\ Live(calls[x]) /\ calls[x].tool = "put"
    BY <1>2, KindsNow DEF Puts
<1>7. Puts' = Puts
    BY <1>1, <1>3, <1>5 DEF Puts
<1>8. c \in Puts => Ends(c, r)
    BY <1>4, <1>6 DEF Begins
<1>9. \A x \in Puts : /\ calls'[x].args = calls[x].args /\ calls'[x].after = calls[x].after
                      /\ calls'[x].tries = calls[x].tries
    BY <1>1, <1>6, <1>8 DEF Ends
<1>10. \A x \in Puts : KeyOf(x)' = KeyOf(x)
    BY <1>9, KeyStays
<1>11. DocOK'
    BY <1>2 DEF DocOK
<1>12. FlyingOK'
    BY <1>2, <1>7, <1>9 DEF FlyingOK
<1>13. PutsOK'
    BY <1>2, <1>7, <1>9 DEF PutsOK, Passed
<1>14. BucketOK'
    BY <1>2, <1>7, <1>9, <1>10 DEF BucketOK, ObjectOK
<1>15. PublishedOK'
  <2> SUFFICES ASSUME NEW d \in Puts
               PROVE  /\ calls'[d].answer = "ok" => Landed(d)'
                      /\ Landed(d)' => /\ KeyOf(d)' \in DOMAIN bucket'
                                       /\ \A x \in calls'[d].after : Settled(x)' => bucket'[KeyOf(d)'].by # x
      BY <1>7 DEF PublishedOK
  <2>1. Landed(d)' <=> Landed(d)
      BY <1>9 DEF Landed
  <2>2. \A x \in calls'[d].after : Settled(x)' <=> Settled(x)
    <3>1. \A x \in calls'[d].after : x \in Calls \ {c}
        BY <1>1, <1>2, <1>6, <1>9 DEF AfterOK, Over
    <3> QED
        BY <1>1, <3>1 DEF Settled
  <2>3. calls'[d].answer = "ok" => Landed(d)
    <3>1. CASE d = c
        BY <1>1, <1>6, <1>8, <3>1 DEF Ends
    <3>2. CASE d # c
        BY <1>1, <1>2, <1>6, <3>2 DEF PublishedOK
    <3> QED
        BY <3>1, <3>2
  <2> QED
      BY <1>2, <1>9, <1>10, <2>1, <2>2, <2>3 DEF PublishedOK
<1>16. HeardOK'
  <2> SUFFICES ASSUME NEW u \in Calls, Live(calls'[u]), NEW p \in calls'[u].after \cap Puts,
                      calls'[p].answer = "ok"
               PROVE  FoundOK(p, u)'
      BY <1>7 DEF HeardOK
  <2>1. p # c
      BY <1>1, <1>2, <1>3 DEF AfterOK, Turns
  <2>2. calls'[p] = calls[p] /\ KeyOf(p)' = KeyOf(p)
      BY <1>1, <1>6, <1>10, <2>1
  <2>3. CASE u # c
    <3>1. calls'[u] = calls[u]
        BY <1>1, <2>3
    <3>2. FoundOK(p, u)
        BY <1>2, <2>2, <3>1 DEF HeardOK
    <3> QED
        BY <2>2, <3>1, <3>2 DEF FoundOK
  <2>4. CASE u = c
    <3>1. CASE Ends(c, r)
        BY <1>1, <2>2, <2>4, <3>1
    <3>2. CASE Begins(c, r)
        BY <1>1, <2>4, <3>2 DEF Begins, Live, FoundOK
    <3> QED
        BY <1>1, <1>4, <2>4, <3>1, <3>2
  <2> QED
      BY <2>3, <2>4
<1> QED
    BY <1>1, <1>11, <1>12, <1>13, <1>14, <1>15, <1>16 DEF PublisherInv

\* A put is sent, for the first time or again.
LEMMA SendOK ==
    ASSUME PublisherInv, NEW c, NEW r, Turns(c, r), UNCHANGED <<doc, policy, bucket>>,
           Live(r), r.stage = "sent", r.tool = "put", Passed(r.args),
           flying' = flying \cup {<<c, r.tries>>},
           \/ calls[c] = Idle
           \/ Live(calls[c]) /\ calls[c].tool = "put" /\ r.args = calls[c].args /\ calls[c].tries <= r.tries
    PROVE  PublisherInv'
<1>1. /\ CallsOK' /\ AfterOK'
      /\ calls'[c] = r
      /\ \A x \in Calls \ {c} : /\ calls'[x] = calls[x]
                                /\ (x \in Puts' <=> x \in Puts) /\ (x \in Over' <=> x \in Over)
      /\ \A x \in Calls : Live(calls[x]) => c \notin calls[x].after
    BY OneTurns DEF PublisherInv
<1>2. /\ DocOK /\ CallsOK /\ AfterOK /\ FlyingOK /\ PutsOK
      /\ BucketOK /\ PublishedOK /\ HeardOK
    BY DEF PublisherInv
<1>3. c \in Calls /\ r.answer = "none" /\ r.tries \in 1 .. MaxTries
    BY DEF Turns, Live
<1>4. ~Live(Idle) /\ ~Live(Declined)
    BY Kinds DEF KindOf, Idle, Declined
<1>5. \A x \in Puts : x \in Calls /\ Live(calls[x]) /\ calls[x].tool = "put"
    BY <1>2, KindsNow DEF Puts
<1>6. Puts' = Puts \cup {c}
  <2>1. c \in Puts'
      BY <1>1, <1>3, KindsNext
  <2> QED
      BY <1>1, <1>3, <2>1 DEF Puts
<1>7. \A x \in Puts : /\ calls'[x].args = calls[x].args
                      /\ calls[x].tries \in 1 .. MaxTries /\ calls'[x].tries \in 1 .. MaxTries
                      /\ calls[x].tries <= calls'[x].tries
  <2> SUFFICES ASSUME NEW x \in Puts
               PROVE  /\ calls'[x].args = calls[x].args
                      /\ calls[x].tries \in 1 .. MaxTries /\ calls'[x].tries \in 1 .. MaxTries
                      /\ calls[x].tries <= calls'[x].tries
      OBVIOUS
  <2>1. calls[x].tries \in 1 .. MaxTries
      BY <1>5 DEF Live
  <2>2. CASE x = c
      BY <1>1, <1>3, <1>4, <1>5, <2>1, <2>2
  <2>3. CASE x # c
      BY <1>1, <1>5, <2>1, <2>3
  <2> QED
      BY <2>2, <2>3
<1>8. \A x \in Puts : KeyOf(x)' = KeyOf(x)
    BY <1>7, KeyStays
<1>9. DocOK'
    BY <1>2 DEF DocOK
<1>10. FlyingOK'
  <2> SUFFICES ASSUME NEW f \in flying'
               PROVE  \E x \in Puts' : \E n \in 1 .. calls'[x].tries : f = <<x, n>>
      BY DEF FlyingOK
  <2>1. CASE f = <<c, r.tries>>
    <3>1. r.tries \in 1 .. calls'[c].tries
        BY <1>1, <1>3
    <3> QED
        BY <1>6, <2>1, <3>1
  <2>2. CASE f \in flying
    <3>1. PICK x \in Puts, n \in Int : n \in 1 .. calls[x].tries /\ f = <<x, n>>
        BY <1>2, <2>2 DEF FlyingOK
    <3>2. n \in 1 .. calls'[x].tries
        BY <1>7, <3>1
    <3> QED
        BY <1>6, <3>1, <3>2
  <2> QED
      BY <2>1, <2>2
<1>11. PutsOK'
  <2> SUFFICES ASSUME NEW x \in Puts' PROVE Passed(calls[x].args)'
      BY DEF PutsOK
  <2>1. CASE x = c
      BY <1>1, <2>1 DEF Passed
  <2>2. CASE x # c
    <3>1. x \in Puts /\ Passed(calls[x].args)
        BY <1>2, <1>6, <2>2 DEF PutsOK
    <3> QED
        BY <1>7, <3>1 DEF Passed
  <2> QED
      BY <2>1, <2>2
<1>12. BucketOK'
    BY <1>2, <1>6, <1>7, <1>8 DEF BucketOK, ObjectOK
<1>13. PublishedOK'
  <2> SUFFICES ASSUME NEW d \in Puts'
               PROVE  /\ calls'[d].answer = "ok" => Landed(d)'
                      /\ Landed(d)' => /\ KeyOf(d)' \in DOMAIN bucket'
                                       /\ \A x \in calls'[d].after : Settled(x)' => bucket'[KeyOf(d)'].by # x
      BY DEF PublishedOK
  <2>1. CASE d = c
    <3>1. ~Landed(d)' /\ calls'[d].answer # "ok"
        BY <1>1, <1>3, <2>1 DEF Landed
    <3> QED
        BY <3>1
  <2>2. CASE d # c
    <3>1. d \in Puts /\ calls'[d] = calls[d]
        BY <1>1, <1>5, <1>6, <2>2
    <3>2. Landed(d)' <=> Landed(d)
        BY <2>2, <3>1 DEF Landed
    <3>3. \A x \in calls'[d].after : Settled(x)' <=> Settled(x)
      <4>1. \A x \in calls'[d].after : x \in Calls \ {c}
          BY <1>1, <1>2, <1>5, <3>1 DEF AfterOK, Over
      <4> QED
          BY <1>1, <4>1 DEF Settled
    <3> QED
        BY <1>2, <1>8, <3>1, <3>2, <3>3 DEF PublishedOK
  <2> QED
      BY <2>1, <2>2
<1>14. HeardOK'
  <2> SUFFICES ASSUME NEW u \in Calls, Live(calls'[u]), NEW p \in calls'[u].after \cap Puts',
                      calls'[p].answer = "ok"
               PROVE  FoundOK(p, u)'
      BY DEF HeardOK
  <2>1. p # c
      BY <1>1, <1>3
  <2>2. p \in Puts /\ calls'[p] = calls[p] /\ KeyOf(p)' = KeyOf(p)
      BY <1>1, <1>5, <1>6, <1>8, <2>1
  <2>3. CASE u = c
      BY <1>1, <2>3 DEF FoundOK
  <2>4. CASE u # c
    <3>1. calls'[u] = calls[u]
        BY <1>1, <2>4
    <3>2. FoundOK(p, u)
        BY <1>2, <2>2, <3>1 DEF HeardOK
    <3> QED
        BY <2>2, <3>1, <3>2 DEF FoundOK
  <2> QED
      BY <2>3, <2>4
<1> QED
    BY <1>1, <1>9, <1>10, <1>11, <1>12, <1>13, <1>14 DEF PublisherInv

LEMMA LandOK ==
    ASSUME PublisherInv, NEW c \in Calls, NEW n \in 1 .. MaxTries, Land(c, n)
    PROVE  PublisherInv'
<1>1. /\ DocOK /\ CallsOK /\ AfterOK /\ FlyingOK /\ PutsOK
      /\ BucketOK /\ PublishedOK /\ HeardOK
    BY DEF PublisherInv
<1>2. /\ <<c, n>> \in flying /\ flying' = flying \ {<<c, n>>}
      /\ doc' = doc /\ policy' = policy /\ calls' = calls
    BY DEF Land
<1> DEFINE object == [type |-> calls[c].args.type, size |-> calls[c].args.size, by |-> c]
<1>3. bucket' = [k \in DOMAIN bucket \cup {KeyOf(c)} |-> IF k = KeyOf(c) THEN object ELSE bucket[k]]
    BY DEF Land
<1>4. c \in Puts /\ n \in 1 .. calls[c].tries
    BY <1>1, <1>2 DEF FlyingOK
<1>5. Puts' = Puts /\ Over' = Over /\ \A x : KeyOf(x)' = KeyOf(x)
    BY <1>2 DEF Puts, Accepted, Over, KeyOf
<1>6. object.by = c /\ object.type = calls[c].args.type /\ object.size = calls[c].args.size
    OBVIOUS
<1> HIDE DEF object
<1>7. DocOK' /\ CallsOK' /\ AfterOK' /\ PutsOK'
    BY <1>1, <1>2, <1>5 DEF DocOK, CallsOK, AfterOK, PutsOK, Passed
<1>8. FlyingOK'
    BY <1>1, <1>2, <1>5 DEF FlyingOK
<1>9. BucketOK'
  <2>1. bucket' = [k \in DOMAIN bucket' |-> bucket'[k]]
      BY <1>3
  <2>2. ASSUME NEW k \in DOMAIN bucket' PROVE ObjectOK(k)'
    <3>1. CASE k = KeyOf(c)
      <4>1. bucket'[k] = object
          BY <1>3, <3>1
      <4> QED
          BY <1>2, <1>4, <1>5, <1>6, <3>1, <4>1 DEF ObjectOK
    <3>2. CASE k # KeyOf(c)
      <4>1. k \in DOMAIN bucket /\ bucket'[k] = bucket[k]
          BY <1>3, <3>2
      <4> QED
          BY <1>1, <1>2, <1>5, <4>1 DEF BucketOK, ObjectOK
    <3> QED
        BY <3>1, <3>2
  <2> QED
      BY <2>1, <2>2 DEF BucketOK
<1>10. PublishedOK'
  <2> SUFFICES ASSUME NEW d \in Puts
               PROVE  /\ calls[d].answer = "ok" => Landed(d)'
                      /\ Landed(d)' => /\ KeyOf(d) \in DOMAIN bucket'
                                       /\ \A x \in calls[d].after : Settled(x) => bucket'[KeyOf(d)].by # x
      BY <1>2, <1>5 DEF PublishedOK, Settled
  <2>1. calls[d].answer = "ok" => Landed(d)'
      BY <1>1, <1>2 DEF PublishedOK, Landed
  <2>2. CASE KeyOf(d) = KeyOf(c)
    <3>1. KeyOf(d) \in DOMAIN bucket' /\ bucket'[KeyOf(d)].by = c
        BY <1>3, <1>6, <2>2
    <3>2. ~Settled(c)
      <4> SUFFICES ASSUME Settled(c) PROVE FALSE
          OBVIOUS
      <4>1. <<c, calls[c].tries>> \notin flying /\ calls[c].tries = 1
          BY <1>1, <1>4 DEF Settled, PublishedOK, Landed
      <4>2. n = 1
          BY <1>4, <4>1
      <4> QED
          BY <1>2, <4>1, <4>2
    <3> QED
        BY <2>1, <3>1, <3>2
  <2>3. CASE KeyOf(d) # KeyOf(c)
    <3>1. Landed(d)' => Landed(d)
        BY <1>2, <2>3 DEF Landed
    <3>2. KeyOf(d) \in DOMAIN bucket => KeyOf(d) \in DOMAIN bucket' /\ bucket'[KeyOf(d)] = bucket[KeyOf(d)]
        BY <1>3, <2>3
    <3> QED
        BY <1>1, <2>1, <3>1, <3>2 DEF PublishedOK
  <2> QED
      BY <2>2, <2>3
<1>11. HeardOK'
    BY <1>1, <1>2, <1>5 DEF HeardOK, FoundOK
<1> QED
    BY <1>7, <1>8, <1>9, <1>10, <1>11 DEF PublisherInv

-----------------------------------------------------------------------------
\* How a call ends, and how it begins.
Done(r, answer) == [r EXCEPT !.stage = "done", !.answer = answer]
DoneWith(r, keys, more) == [r EXCEPT !.stage = "done", !.answer = "ok", !.page = keys, !.truncated = more]

LEMMA Ended ==
    ASSUME NEW r, Live(r), r.stage = "sent", NEW answer \in {"ok", "failed", "missing"},
           r.tool = "put" => answer # "missing",
           NEW e, e = Done(r, answer)
    PROVE  /\ Live(e) /\ e.stage = "done" /\ e.answer = answer
           /\ e.tool = r.tool /\ e.args = r.args /\ e.after = r.after /\ e.tries = r.tries
<1>1. e = [stage |-> "done", tool |-> r.tool, args |-> r.args, after |-> r.after, tries |-> r.tries,
           answer |-> answer, page |-> r.page, truncated |-> r.truncated]
    BY DEF Live, Done
<1>2. /\ e.stage = "done" /\ e.answer = answer /\ e.page = r.page /\ e.truncated = r.truncated
      /\ e.tool = r.tool /\ e.args = r.args /\ e.after = r.after /\ e.tries = r.tries
    BY <1>1
<1>3. e = [stage |-> e.stage, tool |-> e.tool, args |-> e.args, after |-> e.after, tries |-> e.tries,
           answer |-> e.answer, page |-> e.page, truncated |-> e.truncated]
    BY <1>1
<1>4. Live(e)
    BY <1>2, <1>3 DEF Live
<1> QED
    BY <1>2, <1>4

LEMMA EndedWithAPage ==
    ASSUME NEW r, Live(r), r.stage = "sent", r.tool = "list", NEW keys, NEW more,
           NEW e, e = DoneWith(r, keys, more)
    PROVE  /\ Live(e) /\ e.stage = "done" /\ e.answer = "ok" /\ e.page = keys /\ e.truncated = more
           /\ e.tool = r.tool /\ e.args = r.args /\ e.after = r.after /\ e.tries = r.tries
<1>1. e = [stage |-> "done", tool |-> r.tool, args |-> r.args, after |-> r.after, tries |-> r.tries,
           answer |-> "ok", page |-> keys, truncated |-> more]
    BY DEF Live, DoneWith
<1>2. /\ e.stage = "done" /\ e.answer = "ok" /\ e.page = keys /\ e.truncated = more
      /\ e.tool = r.tool /\ e.args = r.args /\ e.after = r.after /\ e.tries = r.tries
    BY <1>1
<1>3. e = [stage |-> e.stage, tool |-> e.tool, args |-> e.args, after |-> e.after, tries |-> e.tries,
           answer |-> e.answer, page |-> e.page, truncated |-> e.truncated]
    BY <1>1
<1>4. Live(e)
    BY <1>2, <1>3 DEF Live
<1> QED
    BY <1>2, <1>4

LEMMA NoneEnds ==
    ASSUME PublisherInv, NEW c \in Calls, calls[c].stage = "sent"
    PROVE  Live(calls[c]) /\ c \notin Over /\ calls[c].after \subseteq Over
<1>1. Live(calls[c]) /\ c \notin Over
    BY KindsNow, Kinds DEF PublisherInv
<1> QED
    BY <1>1 DEF PublisherInv, AfterOK

\* A call that ends with an answer, and finds what was published before it.
LEMMA FinishOK ==
    ASSUME PublisherInv, NEW c \in Calls, calls[c].stage = "sent",
           NEW answer \in {"ok", "failed", "missing"}, Finish(c, answer),
           UNCHANGED <<doc, policy, bucket, flying>>,
           calls[c].tool = "put" => answer = "failed" \/ (answer = "ok" /\ Landed(c)),
           calls[c].tool = "list" => answer = "failed",
           calls[c].tool = "url" => answer = "failed" \/ answer = IF KeyOf(c) \in DOMAIN bucket THEN "ok" ELSE "missing"
    PROVE  PublisherInv'
<1>1. Live(calls[c]) /\ c \notin Over /\ calls[c].after \subseteq Over
    BY NoneEnds
<1>2. PICK r : r = Done(calls[c], answer)
    OBVIOUS
<1>3. calls' = [calls EXCEPT ![c] = r]
    BY <1>2 DEF Finish, Set, Done
<1>4. /\ Live(r) /\ r.stage = "done" /\ r.answer = answer
      /\ r.tool = calls[c].tool /\ r.args = calls[c].args
      /\ r.after = calls[c].after /\ r.tries = calls[c].tries
  <2>1. calls[c].tool = "put" => answer # "missing"
      OBVIOUS
  <2> QED
      BY <1>1, <1>2, <2>1, Ended
<1>5. Turns(c, r) /\ Ends(c, r)
    BY <1>1, <1>3, <1>4 DEF Turns, Ends
<1>6. r.answer = "ok" /\ r.tool = "put" => Landed(c)
    BY <1>4
<1>7. ASSUME NEW p \in r.after \cap Puts, calls[p].answer = "ok"
      PROVE  FoundOK(p, c)'
  <2>1. calls'[c] = r /\ calls'[p] = calls[p]
    <3>1. p \in Calls /\ p # c
        BY <1>1, <1>4 DEF Puts
    <3> QED
        BY <1>5, <3>1, OneTurns DEF PublisherInv
  <2>2. CASE r.tool = "url"
    <3>1. KeyOf(p) \in DOMAIN bucket
        BY <1>7 DEF PublisherInv, PublishedOK
    <3>2. calls[c].args.key = calls[p].args.key => answer # "missing"
        BY <1>4, <2>2, <3>1 DEF KeyOf
    <3> QED
        BY <1>4, <2>1, <2>2, <3>2 DEF FoundOK
  <2>3. CASE r.tool = "list"
      BY <1>4, <2>1, <2>3 DEF FoundOK
  <2>4. CASE r.tool \notin {"url", "list"}
      BY <2>1, <2>4 DEF FoundOK
  <2> QED
      BY <2>2, <2>3, <2>4
<1> QED
    BY <1>5, <1>6, <1>7, MoveOK

\* What lies below a prefix lies below it under another one.
LEMMA PrefixBelow ==
    ASSUME NEW S, NEW x \in Seq(S), NEW a \in Seq(S), NEW b \in Seq(S), IsPrefix(a, b)
    PROVE  IsPrefix(x \o a, x \o b)
<1> DEFINE la == Len(a)
           lb == Len(b)
           lx == Len(x)
           xa == x \o a
           xb == x \o b
<1>1. la \in Nat /\ lb \in Nat /\ lx \in Nat /\ la <= lb /\ SubSeq(a, 1, la) = SubSeq(b, 1, la)
    BY LenProperties DEF IsPrefix
<1>2. \A k \in 1 .. la : a[k] = b[k]
  <2>1. \A k \in 1 .. la : a[k] \in S /\ b[k] \in S
    <3>1. 1 .. la \subseteq 1 .. lb
        BY <1>1
    <3> QED
        BY <3>1, ElementOfSeq
  <2>2. \A k \in 1 .. la : SubSeq(a, 1, la)[k] = a[k] /\ SubSeq(b, 1, la)[k] = b[k]
    <3>1. \A k \in 1 .. la - 1 + 1 : SubSeq(a, 1, la)[k] = a[1 + k - 1]
        BY <1>1, <2>1, SubSeqProperties
    <3>2. \A k \in 1 .. la - 1 + 1 : SubSeq(b, 1, la)[k] = b[1 + k - 1]
        BY <1>1, <2>1, SubSeqProperties
    <3>3. la - 1 + 1 = la /\ \A k \in 1 .. la : 1 + k - 1 = k
        BY <1>1
    <3> QED
        BY <3>1, <3>2, <3>3
  <2> QED
      BY <1>1, <2>2
<1>3. /\ xa \in Seq(S) /\ Len(xa) = lx + la
      /\ \A k \in 1 .. lx + la : xa[k] = IF k <= lx THEN x[k] ELSE a[k - lx]
    BY ConcatProperties
<1>4. /\ xb \in Seq(S) /\ Len(xb) = lx + lb
      /\ \A k \in 1 .. lx + lb : xb[k] = IF k <= lx THEN x[k] ELSE b[k - lx]
    BY ConcatProperties
<1> HIDE DEF la, lb, lx, xa, xb
<1>5. \A k \in 1 .. lx + la : xa[k] = xb[k]
  <2> SUFFICES ASSUME NEW k \in 1 .. lx + la PROVE xa[k] = xb[k]
      OBVIOUS
  <2>1. k \in 1 .. lx + lb /\ (k <= lx \/ k - lx \in 1 .. la)
      BY <1>1
  <2> QED
      BY <1>2, <1>3, <1>4, <2>1
<1>6. SubSeq(xa, 1, lx + la) = SubSeq(xb, 1, lx + la)
  <2> DEFINE m == lx + la
  <2>1. m \in Nat /\ 1 .. m \subseteq 1 .. lx + lb
      BY <1>1
  <2> HIDE DEF m
  <2>2. \A k \in 1 .. m : xa[k] \in S /\ xb[k] \in S
      BY <1>3, <1>4, <2>1, ElementOfSeq DEF m
  <2>3. /\ SubSeq(xa, 1, m) \in Seq(S) /\ Len(SubSeq(xa, 1, m)) = IF 1 <= m THEN m - 1 + 1 ELSE 0
        /\ \A k \in 1 .. m - 1 + 1 : SubSeq(xa, 1, m)[k] = xa[1 + k - 1]
      BY <2>1, <2>2, SubSeqProperties
  <2>4. /\ SubSeq(xb, 1, m) \in Seq(S) /\ Len(SubSeq(xb, 1, m)) = IF 1 <= m THEN m - 1 + 1 ELSE 0
        /\ \A k \in 1 .. m - 1 + 1 : SubSeq(xb, 1, m)[k] = xb[1 + k - 1]
      BY <2>1, <2>2, SubSeqProperties
  <2>5. m - 1 + 1 = m /\ \A k \in 1 .. m : 1 + k - 1 = k
      BY <2>1
  <2>6. Len(SubSeq(xa, 1, m)) = m /\ Len(SubSeq(xb, 1, m)) = m
      BY <2>1, <2>3, <2>4
  <2>7. \A k \in 1 .. m : SubSeq(xa, 1, m)[k] = SubSeq(xb, 1, m)[k]
      BY <1>5, <2>3, <2>4, <2>5 DEF m
  <2>8. SubSeq(xa, 1, m) = SubSeq(xb, 1, m)
      BY <2>3, <2>4, <2>6, <2>7, SeqEqual
  <2> QED
      BY <2>8 DEF m
<1> QED
    BY <1>1, <1>3, <1>4, <1>6 DEF IsPrefix, xa, xb

-----------------------------------------------------------------------------
\* The steps.
LEMMA ListedOK ==
    ASSUME PublisherInv, NEW c \in Calls, Listed(c)
    PROVE  PublisherInv'
<1> DEFINE asked == calls[c].args.key
           bare  == IF asked # <<>> /\ asked[1] = "/" THEN Tail(asked) ELSE asked
           found == {k \in DOMAIN bucket : IsPrefix(ListPrefix(asked), k)}
<1>1. PICK keys \in SUBSET found :
          calls' = [calls EXCEPT ![c] = DoneWith(calls[c], keys, keys # found)]
    BY DEF Listed, Set, DoneWith
<1>2. calls[c].stage = "sent" /\ calls[c].tool = "list" /\ UNCHANGED <<doc, policy, bucket, flying>>
    BY DEF Listed
<1>3. Live(calls[c]) /\ c \notin Over /\ calls[c].after \subseteq Over
    BY <1>2, NoneEnds
<1> DEFINE more == keys # found
<1>4. PICK r : r = DoneWith(calls[c], keys, more)
    OBVIOUS
<1>5. calls' = [calls EXCEPT ![c] = r]
    BY <1>1, <1>4
<1>6. more <=> keys # found
    OBVIOUS
<1>7. ListPrefix(asked) = policy.prefix \o bare
    BY DEF ListPrefix
<1>8. found = {k \in DOMAIN bucket : IsPrefix(policy.prefix \o bare, k)}
    BY <1>7
<1>9. bare = IF asked # <<>> /\ asked[1] = "/" THEN Tail(asked) ELSE asked
    OBVIOUS
<1> HIDE DEF more, found, bare
<1>10. /\ Live(r) /\ r.answer = "ok" /\ r.page = keys /\ r.truncated = more /\ r.stage = "done"
       /\ r.tool = "list" /\ r.args = calls[c].args /\ r.after = calls[c].after /\ r.tries = calls[c].tries
    BY <1>2, <1>3, <1>4, EndedWithAPage
<1>11. Turns(c, r) /\ Ends(c, r)
    BY <1>2, <1>3, <1>5, <1>10 DEF Turns, Ends
<1>12. ASSUME NEW p \in r.after \cap Puts, calls[p].answer = "ok"
       PROVE  FoundOK(p, c)'
  <2>1. calls'[c] = r /\ calls'[p] = calls[p]
    <3>1. p \in Calls /\ p # c
        BY <1>3, <1>10 DEF Puts
    <3> QED
        BY <1>11, <3>1, OneTurns DEF PublisherInv
  <2>2. KeyOf(p) \in DOMAIN bucket
      BY <1>12 DEF PublisherInv, PublishedOK
  <2>3. policy.prefix \in Seq(Chars) /\ calls[p].args.key \in Seq(Chars)
      BY PrefixIs DEF PublisherInv, PutsOK, Passed, Straight
  <2>4. bare \in Seq(Chars)
    <3>1. asked \in Seq(Chars)
        BY <1>2, <1>3 DEF Live
    <3> QED
        BY <1>9, <3>1, HeadTailProperties
  <2>5. IsPrefix(bare, calls[p].args.key) => IsPrefix(policy.prefix \o bare, KeyOf(p))
      BY <2>3, <2>4, PrefixBelow DEF KeyOf
  <2>6. KeyOf(p)' = KeyOf(p)
      BY <1>2, <2>1, KeyStays
  <2>7. IsPrefix(bare, calls[p].args.key) => KeyOf(p) \in r.page \/ r.truncated
    <3> SUFFICES ASSUME IsPrefix(bare, calls[p].args.key), ~more PROVE KeyOf(p) \in keys
        BY <1>10
    <3> QED
        BY <1>6, <1>8, <2>2, <2>5
  <2> QED
      BY <1>9, <1>10, <2>1, <2>6, <2>7 DEF FoundOK
<1>13. r.tool # "put"
    BY <1>10
<1> QED
    BY <1>2, <1>11, <1>12, <1>13, MoveOK

LEMMA DeclineOK ==
    ASSUME PublisherInv, NEW c \in Calls, calls[c].stage = "idle", Set(c, Declined),
           UNCHANGED <<doc, policy, bucket, flying>>
    PROVE  PublisherInv'
<1>1. calls[c] = Idle /\ c \notin Over
    BY KindsNow, Kinds DEF PublisherInv
<1>2. Turns(c, Declined)
    BY <1>1 DEF Turns, Set
<1>3. ~Ends(c, Declined)
    BY Kinds DEF Ends, KindOf, Declined
<1>4. Declined.answer # "ok"
    BY DEF Declined
<1> QED
    BY <1>1, <1>2, <1>3, <1>4, MoveOK

\* The record of a call just sent.
Fresh(tool, args) ==
    [stage |-> "sent", tool |-> tool, args |-> args, after |-> Over,
     tries |-> 1, answer |-> "none", page |-> {}, truncated |-> FALSE]

LEMMA FreshIs ==
    ASSUME NEW tool \in {"put", "list", "url", "parameter"}, NEW args,
           tool = "list" => args.key \in Seq(Chars),
           NEW r, r = Fresh(tool, args)
    PROVE  /\ Live(r) /\ r.stage = "sent" /\ r.tool = tool /\ r.args = args
           /\ r.after = Over /\ r.tries = 1 /\ r.answer = "none"
<1>1. /\ r.stage = "sent" /\ r.tool = tool /\ r.args = args
      /\ r.after = Over /\ r.tries = 1 /\ r.answer = "none" /\ r.page = {} /\ r.truncated = FALSE
    BY DEF Fresh
<1>2. r = [stage |-> r.stage, tool |-> r.tool, args |-> r.args, after |-> r.after, tries |-> r.tries,
           answer |-> r.answer, page |-> r.page, truncated |-> r.truncated]
    BY DEF Fresh
<1>3. 1 \in 1 .. MaxTries
    BY SizesAssumption
<1> QED
    BY <1>1, <1>2, <1>3 DEF Live

LEMMA BeginOK ==
    ASSUME PublisherInv, NEW c \in Calls, calls[c].stage = "idle",
           NEW tool \in {"list", "url", "parameter"}, NEW args,
           tool = "list" => args.key \in Seq(Chars),
           Sent(c, tool, args), UNCHANGED <<doc, policy, bucket, flying>>
    PROVE  PublisherInv'
<1>1. calls[c] = Idle /\ c \notin Over
    BY KindsNow, Kinds DEF PublisherInv
<1>2. PICK r : r = Fresh(tool, args)
    OBVIOUS
<1>3. calls' = [calls EXCEPT ![c] = r]
    BY <1>2 DEF Sent, Set, Fresh
<1>4. /\ Live(r) /\ r.stage = "sent" /\ r.tool = tool /\ r.args = args
      /\ r.after = Over /\ r.tries = 1 /\ r.answer = "none"
    BY <1>2, FreshIs
<1>5. Turns(c, r) /\ Begins(c, r)
    BY <1>1, <1>3, <1>4 DEF Turns, Begins
<1>6. ~Ends(c, r)
    BY <1>1, Kinds DEF Ends, KindOf, Idle
<1> QED
    BY <1>4, <1>5, <1>6, MoveOK

LEMMA RetryOK ==
    ASSUME PublisherInv, NEW c \in Calls, Retry(c)
    PROVE  PublisherInv'
<1>1. /\ calls[c].stage = "sent" /\ calls[c].tool = "put" /\ calls[c].tries < MaxTries
      /\ flying' = flying \cup {<<c, calls[c].tries + 1>>}
      /\ UNCHANGED <<doc, policy, bucket>>
    BY DEF Retry
<1>2. Live(calls[c]) /\ c \notin Over /\ calls[c].after \subseteq Over
    BY <1>1, NoneEnds
<1>3. PICK r : r = [calls[c] EXCEPT !.tries = calls[c].tries + 1]
    OBVIOUS
<1>4. calls' = [calls EXCEPT ![c] = r]
    BY <1>3 DEF Retry, Set
<1>5. r = [stage |-> "sent", tool |-> "put", args |-> calls[c].args, after |-> calls[c].after,
           tries |-> calls[c].tries + 1, answer |-> calls[c].answer, page |-> calls[c].page,
           truncated |-> calls[c].truncated]
    BY <1>1, <1>2, <1>3 DEF Live
<1>6. /\ r.stage = "sent" /\ r.tool = "put" /\ r.args = calls[c].args /\ r.after = calls[c].after
      /\ r.tries = calls[c].tries + 1 /\ r.answer = calls[c].answer
    BY <1>5
<1>7. r = [stage |-> r.stage, tool |-> r.tool, args |-> r.args, after |-> r.after, tries |-> r.tries,
           answer |-> r.answer, page |-> r.page, truncated |-> r.truncated]
    BY <1>5
<1>8. calls[c].tries \in 1 .. MaxTries /\ calls[c].answer = "none"
    BY <1>1, <1>2 DEF Live
<1>9. r.tries \in 1 .. MaxTries /\ calls[c].tries <= r.tries
    BY <1>1, <1>6, <1>8, SizesAssumption
<1>10. Live(r)
    BY <1>6, <1>7, <1>8, <1>9 DEF Live
<1>11. Turns(c, r)
    BY <1>2, <1>4, <1>6, <1>10 DEF Turns
<1>12. c \in Puts
    BY <1>1, <1>2, KindsNow DEF PublisherInv
<1>13. Passed(r.args)
    BY <1>6, <1>12 DEF PublisherInv, PutsOK
<1> QED
    BY <1>1, <1>2, <1>6, <1>9, <1>10, <1>11, <1>13, SendOK

LEMMA PutStepOK ==
    ASSUME PublisherInv, NEW c \in Calls, Put(c)
    PROVE  PublisherInv'
<1>1. policy.mode = "s3" /\ calls[c].stage = "idle" /\ UNCHANGED <<doc, policy, bucket>>
    BY DEF Put
<1>2. PICK args \in [key : Keys, type : Types, size : Sizes] :
          \/ /\ Publishable(args)
             /\ Sent(c, "put", [args EXCEPT !.key = TrimSet(args.key, {" "})])
             /\ flying' = flying \cup {<<c, 1>>}
          \/ ~Publishable(args) /\ Set(c, Declined) /\ UNCHANGED flying
    BY DEF Put
<1>3. CASE ~Publishable(args) /\ Set(c, Declined) /\ UNCHANGED flying
    BY <1>1, <1>3, DeclineOK
<1>4. CASE /\ Publishable(args)
           /\ Sent(c, "put", [args EXCEPT !.key = TrimSet(args.key, {" "})])
           /\ flying' = flying \cup {<<c, 1>>}
  <2>1. calls[c] = Idle /\ c \notin Over
      BY <1>1, KindsNow, Kinds DEF PublisherInv
  <2>2. PICK kept : kept = [args EXCEPT !.key = TrimSet(args.key, {" "})]
      OBVIOUS
  <2>3. kept.key = TrimSet(args.key, {" "}) /\ kept.type = args.type /\ kept.size = args.size
      BY <2>2
  <2>4. Passed(kept)
    <3>1. args.key \in Seq(STRING) /\ args.type \in Types /\ args.size \in Int
        BY KeysAssumption, SizesAssumption
    <3>2. policy.prefix \in Seq(Chars)
        BY <1>1, PrefixIs DEF PublisherInv
    <3>3. Resolve(args.key) # {} /\ args.type \in policy.types /\ args.size > 0 /\ args.size <= policy.max
        BY <1>4 DEF Publishable
    <3>4. Straight(kept.key) /\ Len(policy.prefix \o kept.key) <= MaxKey
        BY <2>3, <3>1, <3>2, <3>3, ResolveIs
    <3> QED
        BY <1>1, <2>3, <3>1, <3>3, <3>4 DEF Passed
  <2>5. PICK r : r = Fresh("put", kept)
      OBVIOUS
  <2>6. calls' = [calls EXCEPT ![c] = r]
      BY <1>4, <2>2, <2>5 DEF Sent, Set, Fresh
  <2>7. /\ Live(r) /\ r.stage = "sent" /\ r.tool = "put" /\ r.args = kept
        /\ r.after = Over /\ r.tries = 1
      BY <2>5, FreshIs
  <2>8. Turns(c, r)
      BY <2>1, <2>6, <2>7 DEF Turns
  <2> QED
      BY <1>1, <1>4, <2>1, <2>4, <2>7, <2>8, SendOK
<1> QED
    BY <1>2, <1>3, <1>4

LEMMA StepOK ==
    ASSUME PublisherInv, [Next]_vars
    PROVE  PublisherInv'
<1>1. CASE UNCHANGED vars
  <2>1. doc' = doc /\ policy' = policy /\ bucket' = bucket /\ flying' = flying /\ calls' = calls
      BY <1>1 DEF vars
  <2>2. Puts' = Puts /\ Over' = Over /\ \A c : KeyOf(c)' = KeyOf(c) /\ (Landed(c)' <=> Landed(c))
      BY <2>1 DEF Puts, Accepted, Over, KeyOf, Landed
  <2>3. DocOK' /\ CallsOK' /\ AfterOK' /\ FlyingOK' /\ PutsOK'
      BY <2>1, <2>2 DEF PublisherInv, DocOK, CallsOK, AfterOK, FlyingOK, PutsOK, Passed
  <2>4. BucketOK'
      BY <2>1, <2>2 DEF PublisherInv, BucketOK, ObjectOK
  <2>5. PublishedOK'
      BY <2>1, <2>2 DEF PublisherInv, PublishedOK, Settled
  <2>6. HeardOK'
      BY <2>1, <2>2 DEF PublisherInv, HeardOK, FoundOK
  <2> QED
      BY <2>3, <2>4, <2>5, <2>6 DEF PublisherInv
<1>2. ASSUME NEW c \in Calls, Put(c) PROVE PublisherInv'
    BY <1>2, PutStepOK
<1>3. ASSUME NEW c \in Calls, Reply(c) PROVE PublisherInv'
  <2>1. /\ calls[c].stage = "sent" /\ calls[c].tool = "put" /\ Landed(c) /\ Finish(c, "ok")
        /\ UNCHANGED <<doc, policy, bucket, flying>>
      BY <1>3 DEF Reply, Landed
  <2> QED
      BY <2>1, FinishOK
<1>4. ASSUME NEW c \in Calls, Retry(c) PROVE PublisherInv'
    BY <1>4, RetryOK
<1>5. ASSUME NEW c \in Calls, GiveUp(c) PROVE PublisherInv'
  <2>1. calls[c].stage = "sent" /\ Finish(c, "failed") /\ UNCHANGED <<doc, policy, bucket, flying>>
      BY <1>5 DEF GiveUp
  <2> QED
      BY <2>1, FinishOK
<1>6. ASSUME NEW c \in Calls, List(c) PROVE PublisherInv'
  <2>1. calls[c].stage = "idle" /\ UNCHANGED <<doc, policy, bucket, flying>>
      BY <1>6 DEF List
  <2>2. PICK raw \in Roots : Set(c, Declined) \/ Sent(c, "list", [key |-> raw])
      BY <1>6 DEF List
  <2>3. raw \in Seq(Chars)
      BY KeysAssumption, StringsOfChars
  <2>4. CASE Set(c, Declined)
      BY <2>1, <2>4, DeclineOK
  <2>5. CASE Sent(c, "list", [key |-> raw])
    <3>1. [key |-> raw].key \in Seq(Chars)
        BY <2>3
    <3> QED
        BY <2>1, <2>5, <3>1, BeginOK
  <2> QED
      BY <2>2, <2>4, <2>5
<1>7. ASSUME NEW c \in Calls, Listed(c) PROVE PublisherInv'
    BY <1>7, ListedOK
<1>8. ASSUME NEW c \in Calls, GetURL(c) PROVE PublisherInv'
  <2>1. calls[c].stage = "idle" /\ UNCHANGED <<doc, policy, bucket, flying>>
      BY <1>8 DEF GetURL
  <2>2. PICK raw \in Keys : Set(c, Declined) \/ Sent(c, "url", [key |-> TrimSet(raw, {" "})])
      BY <1>8 DEF GetURL
  <2> QED
      BY <2>1, <2>2, DeclineOK, BeginOK
<1>9. ASSUME NEW c \in Calls, HeadObject(c) PROVE PublisherInv'
  <2>1. /\ calls[c].stage = "sent" /\ calls[c].tool = "url" /\ UNCHANGED <<doc, policy, bucket, flying>>
        /\ Finish(c, IF KeyOf(c) \in DOMAIN bucket THEN "ok" ELSE "missing")
      BY <1>9 DEF HeadObject
  <2>2. PICK answer \in {"ok", "failed", "missing"} :
            answer = IF KeyOf(c) \in DOMAIN bucket THEN "ok" ELSE "missing"
      OBVIOUS
  <2> QED
      BY <2>1, <2>2, FinishOK
<1>10. ASSUME NEW c \in Calls, GetParameter(c) PROVE PublisherInv'
  <2>1. calls[c].stage = "idle" /\ UNCHANGED <<doc, policy, bucket, flying>>
      BY <1>10 DEF GetParameter
  <2>2. Set(c, Declined) \/ \E key : Sent(c, "parameter", [key |-> key])
      BY <1>10 DEF GetParameter
  <2> QED
      BY <2>1, <2>2, DeclineOK, BeginOK
<1>11. ASSUME NEW c \in Calls, Parameter(c) PROVE PublisherInv'
  <2>1. calls[c].stage = "sent" /\ calls[c].tool = "parameter" /\ UNCHANGED <<doc, policy, bucket, flying>>
      BY <1>11 DEF Parameter
  <2>2. PICK answer \in {"ok", "missing"} : Finish(c, answer)
      BY <1>11 DEF Parameter
  <2> QED
      BY <2>1, <2>2, FinishOK
<1>12. ASSUME NEW c \in Calls, NEW n \in 1 .. MaxTries, Land(c, n) PROVE PublisherInv'
    BY <1>12, LandOK
<1>13. CASE Stop
    BY <1>1, <1>13 DEF Stop
<1> QED
    BY <1>1, <1>2, <1>3, <1>4, <1>5, <1>6, <1>7, <1>8, <1>9, <1>10, <1>11, <1>12, <1>13 DEF Next

THEOREM PublisherInvariant == Spec => []PublisherInv
BY StartOK, StepOK, PTL DEF Spec

-----------------------------------------------------------------------------
\* What the server holds and knows is of the right kind: an attempt on its way and an object
\* in the bucket are those of puts that passed the guards.
THEOREM TypeCorrect == Spec => []TypeOK
<1>1. ASSUME PublisherInv PROVE TypeOK
  <2>1. policy.mode \in {"refused", "s3", "ssm"}
      BY <1>1, PolicyIs DEF PublisherInv
  <2>2. flying \subseteq Puts \X (1 .. MaxTries)
    <3> SUFFICES ASSUME NEW f \in flying PROVE f \in Puts \X (1 .. MaxTries)
        OBVIOUS
    <3>1. PICK c \in Puts : \E n \in 1 .. calls[c].tries : f = <<c, n>>
        BY <1>1 DEF PublisherInv, FlyingOK
    <3>2. PICK n \in 1 .. calls[c].tries : f = <<c, n>>
        BY <3>1
    <3>3. calls[c].tries \in 1 .. MaxTries
        BY <1>1, KindsNow DEF PublisherInv, Puts, Live
    <3>4. n \in 1 .. MaxTries
        BY <3>3, SizesAssumption
    <3> QED
        BY <3>2, <3>4
  <2>3. \A c \in Calls : calls[c].stage \in {"idle", "sent", "done"}
      BY <1>1, KindsNow, Kinds DEF PublisherInv
  <2>4. \A k \in DOMAIN bucket : bucket[k].by \in Puts \cup {"nobody"}
      BY <1>1 DEF PublisherInv, BucketOK, ObjectOK
  <2> QED
      BY <2>1, <2>2, <2>3, <2>4 DEF TypeOK
<1> QED
    BY <1>1, PublisherInvariant, PTL

LEMMA ConcatParts ==
    ASSUME NEW S, NEW s \in Seq(S), NEW t \in Seq(S), Len(t) >= 1
    PROVE  /\ s \o t \in Seq(S) /\ Len(s \o t) = Len(s) + Len(t)
           /\ SubSeq(s \o t, Len(s) + 1, Len(s) + Len(t)) = t
           /\ SubSeq(s \o t, 1, Len(s)) = s
<1>1. s \o t \in Seq(S) /\ Len(s \o t) = Len(s) + Len(t)
    BY ConcatProperties
<1>2. Len(s) \in Nat /\ Len(t) \in Nat
    BY LenProperties
<1>3. SubSeq(s \o t, Len(s) + 1, Len(s) + Len(t)) = t
  <2>1. /\ Len(s) + 1 \in Len(s) + 1 .. Len(s) + Len(t) /\ Len(s) + Len(t) \in Len(s) + 1 .. Len(s) + Len(t)
        /\ Len(s) + 1 - Len(s) = 1 /\ Len(s) + Len(t) - Len(s) = Len(t)
      BY <1>2
  <2>2. SubSeq(s \o t, Len(s) + 1, Len(s) + Len(t)) = SubSeq(t, Len(s) + 1 - Len(s), Len(s) + Len(t) - Len(s))
      BY <2>1, SubSeqOfConcat2
  <2> QED
      BY <2>1, <2>2, SubSeqFull
<1>4. SubSeq(s \o t, 1, Len(s)) = s
  <2>1. CASE Len(s) = 0
    <3>1. s = <<>>
        BY <2>1, EmptySeq
    <3>2. \A i \in 1 .. 0 : (s \o t)[i] \in S
        OBVIOUS
    <3>3. SubSeq(s \o t, 1, 0) \in Seq(S) /\ Len(SubSeq(s \o t, 1, 0)) = 0
        BY <3>2, SubSeqProperties
    <3>4. SubSeq(s \o t, 1, 0) = <<>>
        BY <3>3, EmptySeq
    <3> QED
        BY <2>1, <3>1, <3>4
  <2>2. CASE Len(s) # 0
    <3>1. 1 \in 1 .. Len(s) /\ Len(s) \in 1 .. Len(s)
        BY <1>2, <2>2
    <3> QED
        BY <3>1, SubSeqOfConcat1, SubSeqFull
  <2> QED
      BY <2>1, <2>2
<1> QED
    BY <1>1, <1>3, <1>4

\* For any guardfile and any keys: every object this server put lies below the prefix the
\* guardfile states, under a key that path.Clean leaves as it is, and has a type and a size
\* the guardfile allows.
THEOREM ObjectsFit == Spec => []ObjectsFitTheGuardfile
<1>1. ASSUME PublisherInv PROVE ObjectsFitTheGuardfile
  <2> SUFFICES ASSUME NEW k \in DOMAIN bucket, bucket[k].by # "nobody"
               PROVE  LET roots == {TrimSet(args[1], {"/"}) : args \in All(doc, "prefix")} \ {<<>>}
                      IN  /\ \E from \in 1..Len(k) :
                                 LET key == SubSeq(k, from, Len(k)) IN
                                 /\ Clean(key) = key
                                 /\ IF roots = {} THEN from = 1
                                    ELSE \E root \in roots : SubSeq(k, 1, from - 1) = root \o <<"/">>
                          /\ Len(k) <= MaxKey
                          /\ bucket[k].type \in {args[1] : args \in All(doc, "content-type")}
                          /\ Lower[bucket[k].type] \notin Markup
                          /\ bucket[k].size \in 1..Stated(doc, "max-bytes", Default)
      BY DEF ObjectsFitTheGuardfile
  <2> DEFINE roots == {TrimSet(args[1], {"/"}) : args \in All(doc, "prefix")} \ {<<>>}
             prefix == policy.prefix
  <2>1. PICK c \in Puts : /\ c = bucket[k].by /\ KeyOf(c) = k
                          /\ bucket[k].type = calls[c].args.type /\ bucket[k].size = calls[c].args.size
      BY <1>1 DEF PublisherInv, BucketOK, ObjectOK
  <2>2. Passed(calls[c].args) /\ DocOK
      BY <1>1 DEF PublisherInv, PutsOK
  <2>3. /\ doc.mode = "s3" /\ \A i \in DOMAIN doc.nodes : Legal("s3", doc.nodes[i])
        /\ policy.max = Stated(doc, "max-bytes", Default)
        /\ policy.types = {args[1] : args \in All(doc, "content-type")}
      BY <2>2, PolicyIs DEF Passed
  <2>4. /\ prefix \in Seq(Chars)
        /\ roots = {} => prefix = <<>>
        /\ roots # {} => \E root \in roots : root \in Seq(Chars) /\ prefix = root \o <<"/">>
      BY <2>2, PrefixIs DEF Passed
  <2> DEFINE key == calls[c].args.key
             m   == Len(prefix)
             n   == Len(key)
  <2>5. k = prefix \o key /\ Straight(key) /\ key \in Seq(Chars) /\ n \in Nat /\ n >= 1 /\ m \in Nat
    <3>1. k = prefix \o key /\ Straight(key) /\ key \in Seq(Chars) /\ key # <<>>
        BY <2>1, <2>2 DEF KeyOf, Passed, Straight
    <3> QED
        BY <2>4, <3>1, LenProperties, EmptySeq
  <2> HIDE DEF roots, prefix, key
  <2>6. /\ k \in Seq(Chars) /\ Len(k) = m + n
        /\ SubSeq(k, m + 1, m + n) = key /\ SubSeq(k, 1, m) = prefix
      BY <2>4, <2>5, ConcatParts
  <2> HIDE DEF m, n
  <2>7. m + 1 \in 1 .. Len(k) /\ m + 1 - 1 = m
    <3>1. Len(k) = m + n /\ m \in Nat /\ n \in Nat /\ n >= 1
        BY <2>5, <2>6, Zenon
    <3> QED
        BY <3>1
  <2>8. Clean(SubSeq(k, m + 1, Len(k))) = SubSeq(k, m + 1, Len(k))
      BY <2>5, <2>6, CleanKeeps
  <2>9. /\ roots = {} => m + 1 = 1
        /\ roots # {} => \E root \in roots : SubSeq(k, 1, m) = root \o <<"/">>
    <3>1. ASSUME roots = {} PROVE m + 1 = 1
      <4>1. m = 0
          BY <2>4, <3>1, EmptySeq DEF m
      <4> QED
          BY <4>1
    <3>2. ASSUME roots # {} PROVE \E root \in roots : SubSeq(k, 1, m) = root \o <<"/">>
        BY <2>4, <2>6, <3>2
    <3> QED
        BY <3>1, <3>2
  <2>10. Len(k) <= MaxKey
      BY <2>2, <2>5 DEF Passed, key, prefix
  <2>11. bucket[k].type \in {args[1] : args \in All(doc, "content-type")}
      BY <2>1, <2>2, <2>3 DEF Passed
  <2>12. Lower[bucket[k].type] \notin Markup
    <3>1. PICK i \in Named(doc, "content-type") : bucket[k].type = doc.nodes[i].args[1]
        BY <2>11 DEF All
    <3>2. i \in DOMAIN doc.nodes /\ doc.nodes[i].name = "content-type"
        BY <3>1 DEF Named
    <3> QED
        BY <2>3, <3>1, <3>2 DEF Legal
  <2>13. bucket[k].size \in 1 .. Stated(doc, "max-bytes", Default)
    <3>1. Stated(doc, "max-bytes", Default) \in Int
        BY <2>2, CapIs DEF Passed
    <3>2. bucket[k].size \in Int /\ bucket[k].size > 0 /\ bucket[k].size <= Stated(doc, "max-bytes", Default)
        BY <2>1, <2>2, <2>3 DEF Passed
    <3> QED
        BY <3>1, <3>2
  <2>14. \E from \in 1 .. Len(k) :
             LET last == SubSeq(k, from, Len(k)) IN
             /\ Clean(last) = last
             /\ IF roots = {} THEN from = 1 ELSE \E root \in roots : SubSeq(k, 1, from - 1) = root \o <<"/">>
    <3>1. PICK cut : cut = m + 1
        OBVIOUS
    <3>2. cut \in 1 .. Len(k) /\ Clean(SubSeq(k, cut, Len(k))) = SubSeq(k, cut, Len(k))
        BY <2>7, <2>8, <3>1
    <3>3. roots = {} => cut = 1
        BY <2>9, <3>1
    <3>4. cut - 1 = m
        BY <2>5, <3>1
    <3>5. roots # {} => \E root \in roots : SubSeq(k, 1, cut - 1) = root \o <<"/">>
        BY <2>9, <3>4, Zenon
    <3> QED
        BY <3>2, <3>3, <3>5
  <2> QED
      BY <2>10, <2>11, <2>12, <2>13, <2>14 DEF roots
<1> QED
    BY <1>1, PublisherInvariant, PTL

\* However attempts are lost, repeated and late: what a put published, by its answer, a later
\* get_object_url and a later listing find.
THEOREM PublishedFound == Spec => []PublishedIsFound
<1>1. ASSUME PublisherInv PROVE PublishedIsFound
  <2>1. \A tool \in {"put", "url", "list"} : \A c \in Asked(tool) :
            /\ c \in Calls /\ Live(calls[c]) /\ calls[c].tool = tool
            /\ tool = "put" => c \in Puts
      BY <1>1, KindsNow, Kinds DEF PublisherInv, Asked, Over, Accepted
  <2> SUFFICES ASSUME NEW p \in Asked("put"), calls[p].answer = "ok"
               PROVE  /\ \A u \in Asked("url") :
                             p \in calls[u].after /\ calls[u].args.key = calls[p].args.key
                                 => calls[u].answer # "missing"
                      /\ \A l \in Asked("list") :
                             LET asked == calls[l].args.key
                                 bare  == IF asked # <<>> /\ asked[1] = "/" THEN Tail(asked) ELSE asked
                             IN  /\ p \in calls[l].after
                                 /\ IsPrefix(bare, calls[p].args.key)
                                 /\ calls[l].answer = "ok"
                                 => KeyOf(p) \in calls[l].page \/ calls[l].truncated
      BY DEF PublishedIsFound
  <2>2. ASSUME NEW u \in Calls, Live(calls[u]), p \in calls[u].after PROVE FoundOK(p, u)
      BY <1>1, <2>1, <2>2 DEF PublisherInv, HeardOK
  <2>3. ASSUME NEW u \in Asked("url"), p \in calls[u].after, calls[u].args.key = calls[p].args.key
        PROVE  calls[u].answer # "missing"
      BY <2>1, <2>2, <2>3 DEF FoundOK
  <2>4. ASSUME NEW l \in Asked("list"), p \in calls[l].after
        PROVE  FoundOK(p, l) /\ calls[l].tool = "list"
      BY <2>1, <2>2, <2>4
  <2> QED
      BY <2>3, <2>4 DEF FoundOK
<1> QED
    BY <1>1, PublisherInvariant, PTL

\* For any number of attempts: an object that an answered put had replaced is back only if its
\* own put was retried or given up.
THEOREM OnlyUnheardReturns == Spec => []OldReturnsOnlyUnheard
<1>1. ASSUME PublisherInv PROVE OldReturnsOnlyUnheard
  <2> SUFFICES ASSUME NEW k \in DOMAIN bucket, NEW d \in Asked("put"),
                      calls[d].answer = "ok", KeyOf(d) = k, bucket[k].by \in calls[d].after
               PROVE  calls[bucket[k].by].answer = "failed" \/ calls[bucket[k].by].tries > 1
      BY DEF OldReturnsOnlyUnheard
  <2>1. PICK c : c = bucket[k].by
      OBVIOUS
  <2>2. d \in Puts /\ Live(calls[d])
      BY <1>1, KindsNow, Kinds DEF PublisherInv, Asked, Over, Accepted
  <2>3. c \in Over /\ c \in Calls
      BY <1>1, <2>1, <2>2 DEF PublisherInv, AfterOK, Puts, Over
  <2>4. c \in Puts
      BY <1>1, <2>1, <2>3, CallsAssumption DEF PublisherInv, BucketOK, ObjectOK
  <2>5. ~Settled(c)
      BY <1>1, <2>1, <2>2 DEF PublisherInv, PublishedOK
  <2>6. /\ calls[c].answer \in {"ok", "failed", "missing"} /\ calls[c].answer # "missing"
        /\ calls[c].tries \in 1 .. MaxTries
      BY <1>1, <2>3, <2>4, KindsNow DEF PublisherInv, Live
  <2> QED
      BY <2>1, <2>5, <2>6, SizesAssumption DEF Settled
<1> QED
    BY <1>1, PublisherInvariant, PTL

=============================================================================
