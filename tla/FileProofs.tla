---------------------------- MODULE FileProofs ----------------------------
(***************************************************************************)
(* Proofs about what Steps 1 and 2 make of one trace: about ContentUnit,   *)
(* for traces of any length and any segments, and about HeuristicLabel,    *)
(* for files of any length and any replies.                                *)
(***************************************************************************)
EXTENDS ContentUnit, HeuristicLabel, SequenceTheorems, WellFoundedInduction, TLAPS

-----------------------------------------------------------------------------
(* Merging.  The loop over the chunks is a recursive function; that it has the values its      *)
(* definition says, and what holds of them, is shown by induction on the chunks merged so far. *)

LEMMA SetInduction ==
  ASSUME NEW S, 0 \in S, \A n \in Nat : n \in S => n + 1 \in S
  PROVE  Nat \subseteq S
<1> SUFFICES ASSUME Nat \ S # {} PROVE FALSE
  OBVIOUS
<1>1. PICK n \in Nat \ S : \A m \in Nat \ S : ~(m < n)
  <2>1. IsWellFoundedOn(OpToRel(<, Nat), Nat)
    BY NatLessThanWellFounded
  <2>2. \E x \in Nat \ S : \A y \in Nat \ S : ~(<<y, x>> \in OpToRel(<, Nat))
    BY <2>1, WFMin
  <2>3. \A x, y \in Nat : x < y => <<x, y>> \in OpToRel(<, Nat)
    BY DEF OpToRel
  <2> QED
    BY <2>2, <2>3
<1>2. n # 0 /\ n - 1 \in Nat /\ n - 1 < n
  BY <1>1
<1>3. n - 1 \in S
  BY <1>1, <1>2
<1>4. n - 1 + 1 = n
  BY <1>1
<1> QED
  BY <1>1, <1>2, <1>3, <1>4

Merging(cs, f, n) == f = [k \in 0 .. n |-> IF k = 0 THEN <<>> ELSE AddMerged(f[k - 1], cs[k])]

LEMMA MergingExists == ASSUME NEW cs, NEW n \in Nat PROVE \E f : Merging(cs, f, n)
<1> DEFINE S == {k \in Nat : \E f : Merging(cs, f, k)}
<1>1. 0 \in S
  <2> DEFINE f == [k \in 0 .. 0 |-> <<>>]
  <2>1. f = [k \in 0 .. 0 |-> IF k = 0 THEN <<>> ELSE AddMerged(f[k - 1], cs[k])]
    OBVIOUS
  <2> HIDE DEF f
  <2> QED
    BY <2>1 DEF Merging
<1>2. ASSUME NEW k \in Nat, k \in S PROVE k + 1 \in S
  <2>1. PICK f : f = [i \in 0 .. k |-> IF i = 0 THEN <<>> ELSE AddMerged(f[i - 1], cs[i])]
    BY <1>2 DEF Merging
  <2> DEFINE g == [i \in 0 .. k + 1 |-> IF i = k + 1 THEN AddMerged(f[k], cs[k + 1]) ELSE f[i]]
  <2>2. \A i \in 0 .. k : f[i] = IF i = 0 THEN <<>> ELSE AddMerged(f[i - 1], cs[i])
    BY <2>1
  <2>3. ASSUME NEW i \in 0 .. k + 1
        PROVE  g[i] = IF i = 0 THEN <<>> ELSE AddMerged(g[i - 1], cs[i])
    <3>1. CASE i = k + 1
      <4>1. i # 0 /\ i - 1 = k /\ k \in 0 .. k + 1 /\ k # k + 1
        BY <3>1
      <4>2. g[i - 1] = f[k]
        BY <4>1
      <4> QED
        BY <3>1, <4>1, <4>2
    <3>2. CASE i # k + 1
      <4>1. i \in 0 .. k /\ g[i] = f[i]
        BY <3>2
      <4>2. i # 0 => i - 1 \in 0 .. k + 1 /\ i - 1 # k + 1
        BY <4>1
      <4>3. i # 0 => g[i - 1] = f[i - 1]
        BY <4>2
      <4> QED
        BY <2>2, <4>1, <4>3
    <3> QED
      BY <3>1, <3>2
  <2>4. g = [i \in 0 .. k + 1 |-> g[i]]
    OBVIOUS
  <2> HIDE DEF g
  <2>5. g = [i \in 0 .. k + 1 |-> IF i = 0 THEN <<>> ELSE AddMerged(g[i - 1], cs[i])]
    BY <2>3, <2>4
  <2> QED
    BY <2>5 DEF Merging
<1> HIDE DEF S
<1>3. n \in S
  BY <1>1, <1>2, SetInduction
<1> QED
  BY <1>3 DEF S

LEMMA MergeShortChunksDefined ==
  ASSUME NEW cs, Len(cs) \in Nat
  PROVE  \E f : /\ f[0] = <<>> /\ \A k \in 1 .. Len(cs) : f[k] = AddMerged(f[k - 1], cs[k])
                /\ MergeShortChunks(cs) = f[Len(cs)]
<1> DEFINE f == CHOOSE f : f = [k \in 0 .. Len(cs) |->
                                 IF k = 0 THEN <<>> ELSE AddMerged(f[k - 1], cs[k])]
<1>1. MergeShortChunks(cs) = f[Len(cs)]
  BY DEF MergeShortChunks
<1>2. f = [k \in 0 .. Len(cs) |-> IF k = 0 THEN <<>> ELSE AddMerged(f[k - 1], cs[k])]
  BY MergingExists DEF Merging
<1> HIDE DEF f
<1>3. f[0] = <<>> /\ \A k \in 1 .. Len(cs) : f[k] = AddMerged(f[k - 1], cs[k])
  <2>1. \A k \in 0 .. Len(cs) : f[k] = IF k = 0 THEN <<>> ELSE AddMerged(f[k - 1], cs[k])
    BY <1>2
  <2> QED
    BY <2>1
<1> QED
  BY <1>1, <1>3

-----------------------------------------------------------------------------
(* One chunk more. *)

Chunks == {c \in [text : Seq(Int), first : Int, last : Int,
                  tags : TagSets, segments : SUBSET TagSets] : c.segments = {c.tags}}

LEMMA ChunksOwnTags == ASSUME NEW cs \in Seq(Chunks) PROVE OwnTags(cs)
BY DEF Chunks, OwnTags
Rising(text) == \A k, l \in DOMAIN text : k < l => text[k] < text[l]

LEMMA HeldMembers ==
  ASSUME NEW cs, NEW x
  PROVE  x \in Held(cs) <=> \E i \in DOMAIN cs : \E k \in DOMAIN cs[i].text : x = cs[i].text[k]
BY DEF Held, Range

\* Two texts in order, one behind the other, are one text in order.
LEMMA TextsJoined ==
  ASSUME NEW a \in Seq(Int), NEW b \in Seq(Int), Rising(a), Rising(b),
         \A k \in DOMAIN a, l \in DOMAIN b : a[k] < b[l]
  PROVE  a \o b \in Seq(Int) /\ Rising(a \o b) /\ Range(a \o b) = Range(a) \cup Range(b)
<1>1. a \o b \in Seq(Int) /\ Len(a \o b) = Len(a) + Len(b)
  OBVIOUS
<1>2. /\ \A k \in DOMAIN (a \o b) : IF k <= Len(a) THEN k \in DOMAIN a /\ (a \o b)[k] = a[k]
                                    ELSE k - Len(a) \in DOMAIN b /\ (a \o b)[k] = b[k - Len(a)]
  OBVIOUS
<1>3. /\ \A k \in DOMAIN a : k \in DOMAIN (a \o b) /\ (a \o b)[k] = a[k]
      /\ \A k \in DOMAIN b : k + Len(a) \in DOMAIN (a \o b) /\ (a \o b)[k + Len(a)] = b[k]
  OBVIOUS
<1>4. Range(a \o b) = Range(a) \cup Range(b)
  <2> DEFINE ab == a \o b
  <2>1. ASSUME NEW k \in DOMAIN ab PROVE ab[k] \in Range(a) \cup Range(b)
    BY <1>2 DEF Range
  <2>2. ASSUME NEW k \in DOMAIN a PROVE a[k] \in Range(ab)
    <3>1. k \in DOMAIN ab /\ ab[k] = a[k]
      BY <1>3
    <3> QED
      BY <3>1 DEF Range
  <2>3. ASSUME NEW k \in DOMAIN b PROVE b[k] \in Range(ab)
    <3>1. k + Len(a) \in DOMAIN ab /\ ab[k + Len(a)] = b[k]
      BY <1>3
    <3> QED
      BY <3>1 DEF Range
  <2> HIDE DEF ab
  <2>4. Range(ab) = Range(a) \cup Range(b)
    BY <2>1, <2>2, <2>3 DEF Range
  <2> QED
    BY <2>4 DEF ab
<1>5. ASSUME NEW k \in DOMAIN (a \o b), NEW l \in DOMAIN (a \o b), k < l
      PROVE  (a \o b)[k] < (a \o b)[l]
  <2>1. k \in Nat /\ l \in Nat /\ Len(a) \in Nat
    BY <1>1, <1>5
  <2>2. CASE l <= Len(a)
    <3>1. k <= Len(a)
      BY <1>5, <2>1, <2>2
    <3>2. k \in DOMAIN a /\ l \in DOMAIN a /\ (a \o b)[k] = a[k] /\ (a \o b)[l] = a[l]
      BY <1>2, <2>2, <3>1
    <3> QED
      BY <1>5, <3>2 DEF Rising
  <2>3. CASE k <= Len(a) /\ ~(l <= Len(a))
    BY <1>2, <2>3
  <2>4. CASE ~(k <= Len(a))
    <3>1. ~(l <= Len(a)) /\ k - Len(a) < l - Len(a)
      BY <1>5, <2>1, <2>4
    <3> QED
      BY <1>2, <2>4, <3>1 DEF Rising
  <2> QED
    BY <2>2, <2>3, <2>4
<1> QED
  BY <1>1, <1>4, <1>5 DEF Rising

LEMMA Appended ==
  ASSUME NEW m \in Seq(Chunks), NEW c \in Chunks, InOrder(m), Rising(c.text),
         \A x \in Held(m) : \A l \in DOMAIN c.text : x < c.text[l]
  PROVE  /\ Append(m, c) \in Seq(Chunks) /\ InOrder(Append(m, c))
         /\ Held(Append(m, c)) = Held(m) \cup Range(c.text)
<1> DEFINE r == Append(m, c)
<1>1. r \in Seq(Chunks) /\ DOMAIN r = 1 .. Len(m) + 1 /\ Len(m) \in Nat /\ DOMAIN m = 1 .. Len(m)
  OBVIOUS
<1>2. r[Len(m) + 1] = c /\ \A i \in DOMAIN m : r[i] = m[i]
  OBVIOUS
<1> HIDE DEF r
<1>3. ASSUME NEW i \in DOMAIN r, NEW j \in DOMAIN r,
             NEW k \in DOMAIN r[i].text, NEW l \in DOMAIN r[j].text, i < j \/ (i = j /\ k < l)
      PROVE  r[i].text[k] < r[j].text[l]
  <2>1. CASE j = Len(m) + 1 /\ i = j
    BY <1>2, <1>3, <2>1 DEF Rising
  <2>2. CASE j = Len(m) + 1 /\ i # j
    <3>1. i \in DOMAIN m
      BY <1>1, <2>2
    <3>2. m[i].text[k] \in Held(m)
      BY <1>2, <3>1, HeldMembers
    <3> QED
      BY <1>2, <2>2, <3>1, <3>2
  <2>3. CASE j # Len(m) + 1
    <3>1. i \in DOMAIN m /\ j \in DOMAIN m
      BY <1>1, <1>3, <2>3
    <3> QED
      BY <1>2, <1>3, <3>1 DEF InOrder
  <2> QED
    BY <2>1, <2>2, <2>3
<1>4. InOrder(r)
  BY <1>3 DEF InOrder
<1>5. ASSUME NEW x PROVE x \in Held(r) <=> x \in Held(m) \/ x \in Range(c.text)
  <2>1. x \in Range(c.text) <=> \E k \in DOMAIN c.text : x = c.text[k]
    BY DEF Range
  <2>2. \A i : i \in DOMAIN r <=> i \in DOMAIN m \/ i = Len(m) + 1
    BY <1>1
  <2> QED
    BY <1>2, <2>1, <2>2, HeldMembers
<1> QED
  BY <1>1, <1>4, <1>5 DEF r

\* The last chunk is lengthened by the next.
LEMMA LastJoined ==
  ASSUME NEW m \in Seq(Chunks), m # <<>>, NEW c \in Chunks, InOrder(m), Rising(c.text),
         Last(m).tags = c.tags,
         \A x \in Held(m) : \A l \in DOMAIN c.text : x < c.text[l]
  PROVE  LET r == Front(m) \o <<Joined(Last(m), c)>>
         IN  r \in Seq(Chunks) /\ InOrder(r) /\ Held(r) = Held(m) \cup Range(c.text)
<1> DEFINE n == Len(m)
           j == Joined(m[n], c)
           r == Front(m) \o <<Joined(Last(m), c)>>
<1>1. n \in Nat /\ n > 0 /\ DOMAIN m = 1 .. n /\ n \in DOMAIN m /\ m[n] \in Chunks
  OBVIOUS
<1>2. /\ j.text = m[n].text \o c.text /\ j.first = m[n].first
      /\ j.last = c.last /\ j.tags = m[n].tags
      /\ j = [text |-> m[n].text \o c.text, first |-> m[n].first,
              last |-> c.last, tags |-> m[n].tags, segments |-> {m[n].tags}]
  <2>1. PICK p \in Chunks : p = m[n]
    BY <1>1
  <2>2. j = [p EXCEPT !.text = @ \o c.text, !.last = c.last, !.segments = @ \cup c.segments]
    BY <2>1 DEF Joined
  <2>3. p = [text |-> p.text, first |-> p.first, last |-> p.last, tags |-> p.tags,
             segments |-> p.segments]
    BY <2>1 DEF Chunks
  <2>4. p.segments \cup c.segments = {p.tags}
    BY <2>1 DEF Chunks, Last
  <2>5. j = [text |-> p.text \o c.text, first |-> p.first, last |-> c.last, tags |-> p.tags,
             segments |-> {p.tags}]
    BY <2>2, <2>3, <2>4
  <2> HIDE DEF j
  <2>6. j.text = p.text \o c.text /\ j.first = p.first /\ j.last = c.last /\ j.tags = p.tags
    BY <2>5
  <2> QED
    BY <2>1, <2>5, <2>6
<1>3. Rising(m[n].text)
  BY <1>1 DEF InOrder, Rising
<1>4. \A k \in DOMAIN m[n].text : m[n].text[k] \in Held(m)
  BY <1>1, HeldMembers
<1>5. /\ m[n].text \o c.text \in Seq(Int) /\ Rising(m[n].text \o c.text)
      /\ Range(m[n].text \o c.text) = Range(m[n].text) \cup Range(c.text)
  <2>1. m[n].text \in Seq(Int) /\ c.text \in Seq(Int)
    BY <1>1 DEF Chunks
  <2> QED
    BY <1>3, <1>4, <2>1, TextsJoined
<1>6. j \in Chunks
  BY <1>1, <1>2, <1>5 DEF Chunks
<1>7. r = [i \in 1 .. n |-> IF i = n THEN j ELSE m[i]]
  <2>1. Last(m) = m[n]
    BY DEF Last
  <2>2. /\ Front(m) \in Seq(Chunks) /\ Len(Front(m)) = n - 1
        /\ \A i \in 1 .. n - 1 : Front(m)[i] = m[i]
    BY <1>1 DEF Front
  <2>3. PICK f \in Seq(Chunks) : f = Front(m)
    BY <2>2
  <2>4. PICK x \in Chunks : x = j
    BY <1>6
  <2>5. Len(f) = n - 1 /\ \A i \in 1 .. n - 1 : f[i] = m[i]
    BY <2>2, <2>3
  <2> HIDE DEF j, n
  <2>6. f \o <<x>> = [i \in 1 .. n |-> IF i = n THEN x ELSE m[i]]
    BY <1>1, <2>5
  <2>7. r = f \o <<x>>
    BY <2>1, <2>3, <2>4 DEF j, n
  <2> QED
    BY <2>4, <2>6, <2>7 DEF n
<1> HIDE DEF j, r
<1>8. /\ r \in Seq(Chunks) /\ DOMAIN r = DOMAIN m /\ r[n] = j
      /\ \A i \in DOMAIN m : i # n => r[i] = m[i]
  <2>1. \A i \in 1 .. n : m[i] \in Chunks
    OBVIOUS
  <2>2. r \in [1 .. n -> Chunks]
    BY <1>6, <1>7, <2>1
  <2>3. DOMAIN r = 1 .. n /\ \A i \in 1 .. n : r[i] = IF i = n THEN j ELSE m[i]
    BY <1>7
  <2>4. PICK l \in Nat : l = n
    BY <1>1
  <2>5. r \in Seq(Chunks)
    <3> HIDE DEF n
    <3>1. r \in [1 .. l -> Chunks]
      BY <2>2, <2>4
    <3> QED
      BY <3>1
  <2> QED
    BY <1>1, <2>3, <2>5
<1>9. ASSUME NEW x
      PROVE  (\E k \in DOMAIN j.text : x = j.text[k])
               <=> \/ \E k \in DOMAIN m[n].text : x = m[n].text[k]
                   \/ \E k \in DOMAIN c.text : x = c.text[k]
  BY <1>2, <1>5 DEF Range
<1>10. ASSUME NEW x PROVE x \in Held(r) <=> x \in Held(m) \/ x \in Range(c.text)
  <2>1. x \in Range(c.text) <=> \E k \in DOMAIN c.text : x = c.text[k]
    BY DEF Range
  <2>2. x \in Held(m) <=>
          \/ \E i \in DOMAIN m : i # n /\ \E k \in DOMAIN m[i].text : x = m[i].text[k]
          \/ \E k \in DOMAIN m[n].text : x = m[n].text[k]
    BY <1>1, HeldMembers
  <2>3. x \in Held(r) <=>
          \/ \E i \in DOMAIN m : i # n /\ \E k \in DOMAIN m[i].text : x = m[i].text[k]
          \/ \E k \in DOMAIN j.text : x = j.text[k]
    BY <1>1, <1>8, HeldMembers
  <2> QED
    BY <1>9, <2>1, <2>2, <2>3
<1>11. ASSUME NEW a \in DOMAIN r, NEW b \in DOMAIN r,
              NEW k \in DOMAIN r[a].text, NEW l \in DOMAIN r[b].text,
              a < b \/ (a = b /\ k < l)
       PROVE  r[a].text[k] < r[b].text[l]
  <2>1. CASE a = n /\ b = n
    <3>1. Rising(j.text)
      BY <1>2, <1>5
    <3> QED
      BY <1>8, <1>11, <2>1, <3>1 DEF Rising
  <2>2. CASE a # n /\ b = n
    <3>1. a \in DOMAIN m /\ r[a].text[k] = m[a].text[k] /\ k \in DOMAIN m[a].text /\ a < n
      BY <1>1, <1>8, <1>11, <2>2
    <3>2. \/ \E i \in DOMAIN m[n].text : r[b].text[l] = m[n].text[i]
          \/ \E i \in DOMAIN c.text : r[b].text[l] = c.text[i]
      BY <1>8, <1>9, <2>2
    <3>3. ASSUME NEW i \in DOMAIN m[n].text PROVE m[a].text[k] < m[n].text[i]
      BY <1>1, <3>1 DEF InOrder
    <3>4. ASSUME NEW i \in DOMAIN c.text PROVE m[a].text[k] < c.text[i]
      <4>1. m[a].text[k] \in Held(m)
        BY <3>1, HeldMembers
      <4> QED
        BY <4>1
    <3> QED
      BY <3>1, <3>2, <3>3, <3>4
  <2>3. CASE b # n
    <3>1. a # n
      BY <1>1, <1>8, <1>11, <2>3
    <3> QED
      BY <1>8, <1>11, <2>3, <3>1 DEF InOrder
  <2> QED
    BY <2>1, <2>2, <2>3
<1> QED
  BY <1>8, <1>10, <1>11 DEF r, InOrder

LEMMA MergedOneMore ==
  ASSUME NEW m \in Seq(Chunks), NEW c \in Chunks, InOrder(m), Rising(c.text),
         \A x \in Held(m) : \A l \in DOMAIN c.text : x < c.text[l]
  PROVE  /\ AddMerged(m, c) \in Seq(Chunks) /\ InOrder(AddMerged(m, c))
         /\ Held(AddMerged(m, c)) = Held(m) \cup Range(c.text)
BY Appended, LastJoined DEF AddMerged

\* Merging short chunks neither loses, doubles nor moves a sentence.
LEMMA MergingKeeps ==
  ASSUME NEW cs \in Seq(Chunks), InOrder(cs)
  PROVE  /\ MergeShortChunks(cs) \in Seq(Chunks) /\ InOrder(MergeShortChunks(cs))
         /\ Held(MergeShortChunks(cs)) = Held(cs)
<1>1. PICK f : /\ f[0] = <<>> /\ \A k \in 1 .. Len(cs) : f[k] = AddMerged(f[k - 1], cs[k])
               /\ MergeShortChunks(cs) = f[Len(cs)]
  BY MergeShortChunksDefined
<1> DEFINE First(k) == UNION {Range(cs[i].text) : i \in 1 .. k}
           S == {k \in Nat : k <= Len(cs) =>
                   f[k] \in Seq(Chunks) /\ InOrder(f[k]) /\ Held(f[k]) = First(k)}
<1>2. 0 \in S
  <2>1. f[0] \in Seq(Chunks) /\ DOMAIN f[0] = {}
    BY <1>1
  <2>2. InOrder(f[0]) /\ Held(f[0]) = {}
    BY <2>1 DEF InOrder, Held
  <2> QED
    BY <2>1, <2>2
<1>3. ASSUME NEW k \in Nat, k \in S PROVE k + 1 \in S
  <2> SUFFICES ASSUME k + 1 <= Len(cs)
               PROVE  /\ f[k + 1] \in Seq(Chunks) /\ InOrder(f[k + 1])
                      /\ Held(f[k + 1]) = First(k + 1)
    OBVIOUS
  <2>1. f[k] \in Seq(Chunks) /\ InOrder(f[k]) /\ Held(f[k]) = First(k)
    BY <1>3
  <2> DEFINE c == cs[k + 1]
  <2>2. k + 1 \in DOMAIN cs /\ k + 1 \in 1 .. Len(cs) /\ k + 1 - 1 = k
    OBVIOUS
  <2>3. c \in Chunks /\ f[k + 1] = AddMerged(f[k], c)
    BY <1>1, <2>2
  <2>4. Rising(c.text)
    BY <2>2 DEF InOrder, Rising
  <2>5. ASSUME NEW x \in Held(f[k]), NEW l \in DOMAIN c.text PROVE x < c.text[l]
    <3>1. PICK i \in 1 .. k : x \in Range(cs[i].text)
      BY <2>1, <2>5
    <3>2. PICK h \in DOMAIN cs[i].text : x = cs[i].text[h]
      BY <3>1 DEF Range
    <3>3. i \in DOMAIN cs /\ i < k + 1
      BY <2>2
    <3> QED
      BY <2>2, <3>2, <3>3 DEF InOrder
  <2> HIDE DEF c
  <2>6. /\ f[k + 1] \in Seq(Chunks) /\ InOrder(f[k + 1])
        /\ Held(f[k + 1]) = Held(f[k]) \cup Range(c.text)
    BY <2>1, <2>3, <2>4, <2>5, MergedOneMore
  <2>7. \A i : i \in 1 .. k + 1 <=> i \in 1 .. k \/ i = k + 1
    OBVIOUS
  <2>8. First(k + 1) = First(k) \cup Range(c.text)
    BY <2>7 DEF c
  <2> QED
    BY <2>1, <2>6, <2>8
<1> HIDE DEF S
<1>4. Len(cs) \in S
  BY <1>2, <1>3, SetInduction
<1>5. /\ f[Len(cs)] \in Seq(Chunks) /\ InOrder(f[Len(cs)])
      /\ Held(f[Len(cs)]) = First(Len(cs))
  BY <1>4 DEF S
<1>6. First(Len(cs)) = Held(cs)
  BY DEF Held
<1> QED
  BY <1>1, <1>5, <1>6

-----------------------------------------------------------------------------
(* The chunks of a run. *)

LEMMA NFacts == ASSUME ConstantsOK PROVE N \in Nat /\ N > 0 /\ {} \in TagSets
BY DEF ConstantsOK, N

LEMMA ChunkFacts ==
  ASSUME NEW first \in Int, NEW last \in Int, NEW tags \in TagSets
  PROVE  LET c == Chunk(first, last, tags)
         IN  c \in Chunks /\ Rising(c.text) /\ Range(c.text) = first .. last
<1> DEFINE t == [i \in 1 .. last - first + 1 |-> first + i - 1]
<1>1. CASE last - first + 1 \in Nat
  <2>1. PICK n \in Nat : n = last - first + 1
    BY <1>1
  <2>2. t = [i \in 1 .. n |-> first + i - 1]
    BY <2>1
  <2>3. t \in [1 .. n -> Int]
    BY <2>2
  <2>4. t \in Seq(Int) /\ DOMAIN t = 1 .. n /\ \A i \in 1 .. n : t[i] = first + i - 1
    BY <2>2, <2>3
  <2>5. ASSUME NEW x PROVE x \in Range(t) <=> x \in first .. last
    <3>1. x \in Range(t) <=> \E i \in 1 .. n : x = first + i - 1
      BY <2>4 DEF Range
    <3>2. ASSUME x \in first .. last
          PROVE  x - first + 1 \in 1 .. n /\ x = first + (x - first + 1) - 1
      BY <2>1, <3>2
    <3>3. \A i \in 1 .. n : first + i - 1 \in first .. last
      BY <2>1
    <3> QED
      BY <3>1, <3>2, <3>3
  <2>6. Rising(t)
    BY <2>4 DEF Rising
  <2>7. Range(t) = first .. last
    BY <2>5
  <2> HIDE DEF t
  <2>8. [text |-> t, first |-> first, last |-> last, tags |-> tags, segments |-> {tags}] \in Chunks
    BY <2>4 DEF Chunks
  <2> QED
    BY <2>6, <2>7, <2>8 DEF Chunk, t
<1>2. CASE ~(last - first + 1 \in Nat)
  <2>1. last < first /\ 1 .. last - first + 1 = {} /\ first .. last = {}
    BY <1>2
  <2>2. t = <<>>
    BY <2>1
  <2>3. t \in Seq(Int) /\ DOMAIN t = {} /\ Range(t) = {}
    BY <2>2 DEF Range
  <2> QED
    BY <2>1, <2>3 DEF Chunk, Chunks, Rising
<1> QED
  BY <1>1, <1>2

LEMMA OnePerSentenceCovers ==
  ASSUME ConstantsOK
  PROVE  OnePerSentence \in Seq(Chunks) /\ Covers(OnePerSentence, N, {})
<1>1. PICK n \in Nat : n = N /\ {} \in TagSets
  BY NFacts
<1> DEFINE o == OnePerSentence
<1>2. o = [i \in 1 .. n |-> Chunk(i - 1, i - 1, {})]
  BY <1>1 DEF OnePerSentence
<1> HIDE DEF o
<1>3. \A i \in 1 .. n : o[i] \in Chunks /\ o[i].text = [k \in 1 .. 1 |-> i - 1]
  <2> SUFFICES ASSUME NEW i \in 1 .. n
               PROVE  o[i] \in Chunks /\ o[i].text = [k \in 1 .. 1 |-> i - 1]
    OBVIOUS
  <2>1. o[i] = Chunk(i - 1, i - 1, {}) /\ i - 1 \in Int
    BY <1>2
  <2>2. Chunk(i - 1, i - 1, {}) \in Chunks
    BY <1>1, <2>1, ChunkFacts
  <2>3. [k \in 1 .. (i - 1) - (i - 1) + 1 |-> (i - 1) + k - 1] = [k \in 1 .. 1 |-> i - 1]
    OBVIOUS
  <2>4. Chunk(i - 1, i - 1, {}).text = [k \in 1 .. 1 |-> i - 1]
    BY <2>3 DEF Chunk
  <2> QED
    BY <2>1, <2>2, <2>4
<1>4. o \in Seq(Chunks) /\ DOMAIN o = 1 .. n
  <2>1. o \in [1 .. n -> Chunks]
    BY <1>2, <1>3
  <2> QED
    BY <2>1
<1>5. \A i \in 1 .. n : DOMAIN o[i].text = {1} /\ o[i].text[1] = i - 1
  <2> SUFFICES ASSUME NEW i \in 1 .. n PROVE DOMAIN o[i].text = {1} /\ o[i].text[1] = i - 1
    OBVIOUS
  <2>1. o[i].text = [k \in 1 .. 1 |-> i - 1]
    BY <1>3
  <2>2. 1 .. 1 = {1} /\ 1 \in 1 .. 1
    OBVIOUS
  <2> QED
    BY <2>1, <2>2
<1>6. InOrder(o)
  <2> SUFFICES ASSUME NEW i \in DOMAIN o, NEW j \in DOMAIN o,
                      NEW k \in DOMAIN o[i].text, NEW l \in DOMAIN o[j].text,
                      i < j \/ (i = j /\ k < l)
               PROVE  o[i].text[k] < o[j].text[l]
    BY DEF InOrder
  <2>1. k = 1 /\ l = 1 /\ o[i].text[1] = i - 1 /\ o[j].text[1] = j - 1
    BY <1>5, <1>4
  <2> QED
    BY <1>4, <2>1
<1>7. ASSUME NEW x PROVE x \in Held(o) <=> x \in 0 .. n - 1
  <2>1. x \in Held(o) <=> \E i \in 1 .. n : x = i - 1
    <3>1. x \in Held(o) <=> \E i \in DOMAIN o : \E k \in DOMAIN o[i].text : x = o[i].text[k]
      BY HeldMembers
    <3>2. ASSUME NEW i \in 1 .. n
          PROVE  (\E k \in DOMAIN o[i].text : x = o[i].text[k]) <=> x = i - 1
      BY <1>5
    <3> QED
      BY <1>4, <3>1, <3>2
  <2>2. ASSUME x \in 0 .. n - 1 PROVE x + 1 \in 1 .. n /\ x = (x + 1) - 1
    BY <2>2
  <2> QED
    BY <2>1, <2>2
<1> QED
  BY <1>1, <1>4, <1>6, <1>7 DEF o, Covers

LEMMA NothingYet == <<>> \in Seq(Chunks) /\ Covers(<<>>, 0, {})
<1>1. DOMAIN <<>> = {}
  OBVIOUS
<1>2. InOrder(<<>>)
  BY <1>1 DEF InOrder
<1>3. Held(<<>>) = {}
  BY <1>1 DEF Held
<1>4. (0 .. 0 - 1) \ {} = {}
  OBVIOUS
<1> QED
  BY <1>2, <1>3, <1>4 DEF Covers

LEMMA SegmentCovers ==
  ASSUME NEW m \in Seq(Chunks), NEW i \in Int, NEW e \in Int, NEW missing, NEW tags \in TagSets,
         0 <= i, i < e, missing \subseteq 0 .. i - 1, Covers(m, i, missing)
  PROVE  /\ Append(m, Chunk(i, e - 1, tags)) \in Seq(Chunks)
         /\ Covers(Append(m, Chunk(i, e - 1, tags)), e, missing)
<1>1. PICK c : c = Chunk(i, e - 1, tags)
  OBVIOUS
<1>2. c \in Chunks /\ Rising(c.text) /\ Range(c.text) = i .. e - 1
  BY <1>1, ChunkFacts
<1>3. ASSUME NEW x \in Held(m), NEW l \in DOMAIN c.text PROVE x < c.text[l]
  <2>1. x \in 0 .. i - 1
    BY DEF Covers
  <2>2. c.text[l] \in i .. e - 1
    BY <1>2 DEF Range
  <2> QED
    BY <2>1, <2>2
<1>4. /\ Append(m, c) \in Seq(Chunks) /\ InOrder(Append(m, c))
      /\ Held(Append(m, c)) = Held(m) \cup i .. e - 1
  BY <1>2, <1>3, Appended DEF Covers
<1>5. ((0 .. i - 1) \ missing) \cup i .. e - 1 = (0 .. e - 1) \ missing
  OBVIOUS
<1> QED
  BY <1>1, <1>4, <1>5 DEF Covers

-----------------------------------------------------------------------------
(* What the chunker has at each point of a run.  A sentence is given up only when nothing of   *)
(* its window was covered, and then it is the sentence the chunker stands at.                  *)

UnitInv ==
  /\ TextKept
  /\ chunks \in Seq(Chunks) /\ saved \in Seq(Chunks)
  /\ pc = "window" => current_idx < N
  /\ pc = "items" => covered \/ current_idx < N
  /\ pc = "merge" => current_idx = N
  /\ pc \in {"window", "items"} => lost \subseteq 0 .. current_idx - 1

LEMMA UnitInit == ASSUME ConstantsOK, Init PROVE UnitInv
<1>1. N \in Nat /\ N > 0
  BY NFacts
<1>2. TypeOK
  BY <1>1 DEF Init, TypeOK, ConstantsOK
<1> QED
  BY <1>2, NothingYet, ChunksOwnTags DEF Init, UnitInv, TextKept

LEMMA UnitStep == ASSUME ConstantsOK, UnitInv, [Next]_vars PROVE UnitInv'
<1> USE DEF flags, file, progress
<1>n. N \in Nat /\ N > 0 /\ MaxAttempts \in Nat \ {0} /\ MaxRuns \in Nat \ {0}
  BY NFacts DEF ConstantsOK
<1>o. OnePerSentence \in Seq(Chunks) /\ Covers(OnePerSentence, N, {})
  BY OnePerSentenceCovers
<1>e. <<>> \in Seq(Chunks) /\ Covers(<<>>, 0, {})
  BY NothingYet
<1>t. TypeOK'
  <2>1. TypeOK
    BY DEF UnitInv, TextKept
  <2>2. CASE Start
    BY <1>n, <2>1, <2>2 DEF Start, TypeOK, Sentence
  <2>11. CASE AttemptFails
    <3>1. attempt \in Nat /\ 0 \in 0 .. MaxAttempts - 1
      BY <1>n, <2>1 DEF TypeOK
    <3>2. attempt + 1 < MaxAttempts => attempt + 1 \in 0 .. MaxAttempts - 1
      BY <1>n, <3>1
    <3>3. attempt' \in 0 .. MaxAttempts - 1
      BY <2>11, <3>1, <3>2 DEF AttemptFails
    <3> QED
      BY <2>1, <2>11, <3>3 DEF AttemptFails, TypeOK
  <2>3. CASE ReplyEmpty \/ ReplyNoList \/ ReplyArrives \/ UnreadableIndex \/ OutputFails
    <3>1. 0 \in 0 .. MaxAttempts - 1
      BY <1>n
    <3> QED
      BY <2>1, <2>3, <3>1 DEF ReplyEmpty, ReplyNoList, ReplyArrives, UnreadableIndex,
                              OutputFails, TypeOK
  <2>4. CASE \E s \in Starts, e \in Ends : NegativeEnd(s, e)
    BY <2>1, <2>4 DEF NegativeEnd, TypeOK
  <2>5. ASSUME NEW s \in Starts, NEW e \in Ends, NEW t \in TagSets, Segment(s, e, t) PROVE TypeOK'
    BY <1>n, <2>1, <2>5 DEF Segment, TypeOK, InRange, Ends, Sentence
  <2>6. CASE WindowEnds
    <3>1. covered \/ current_idx < N
      BY <2>6 DEF UnitInv, WindowEnds
    <3>2. CASE covered
      BY <2>1, <2>6, <3>2 DEF WindowEnds, TypeOK
    <3>3. CASE ~covered
      <4>1. current_idx' = current_idx + 1 /\ lost' = lost \cup {current_idx}
        BY <2>6, <3>3 DEF WindowEnds
      <4>2. current_idx \in 0 .. N /\ current_idx < N
        BY <2>1, <3>1, <3>3 DEF TypeOK
      <4>3. current_idx + 1 \in 0 .. N /\ current_idx \in Sentence
        BY <1>n, <4>2 DEF Sentence
      <4> QED
        BY <2>1, <2>6, <4>1, <4>3 DEF WindowEnds, TypeOK
    <3> QED
      BY <3>2, <3>3
  <2>7. CASE Merge
    BY <2>1, <2>7 DEF Merge, TypeOK
  <2>8. CASE OpenOutput \/ WriteOutput
    BY <2>1, <2>8 DEF OpenOutput, WriteOutput, TypeOK
  <2>9. CASE Killed
    BY <1>n, <2>1, <2>9 DEF Killed, TypeOK
  <2>10. CASE UNCHANGED vars
    BY <2>1, <2>10 DEF vars, TypeOK
  <2> QED
    BY <2>2, <2>3, <2>4, <2>5, <2>6, <2>7, <2>8, <2>9, <2>10, <2>11 DEF Next, Work
<1>s. chunks' \in Seq(Chunks) /\ saved' \in Seq(Chunks) => OwnTags(chunks)' /\ OwnTags(saved)'
  BY ChunksOwnTags
<1> USE DEF UnitInv, TextKept
<1>1. CASE Start
  BY <1>o, <1>e, <1>s, <1>t, <1>n, <1>1 DEF Start, ResumeSkips
<1>2. CASE AttemptFails \/ ReplyEmpty
  BY <1>o, <1>s, <1>t, <1>2 DEF AttemptFails, ReplyEmpty
<1>3. CASE ReplyNoList \/ UnreadableIndex \/ OutputFails
  BY <1>s, <1>t, <1>3 DEF ReplyNoList, UnreadableIndex, OutputFails
<1>4. CASE ReplyArrives
  BY <1>s, <1>t, <1>4 DEF ReplyArrives
<1>5. CASE \E s \in Starts, e \in Ends : NegativeEnd(s, e)
  BY <1>s, <1>t, <1>5 DEF NegativeEnd
<1>6. ASSUME NEW s \in Starts, NEW e \in Ends, NEW t \in TagSets, Segment(s, e, t) PROVE UnitInv'
  <2>1. current_idx \in Nat /\ e \in Int /\ current_idx < e
    BY <1>n, <1>6 DEF Segment, Ends, TypeOK
  <2>2. Covers(chunks, current_idx, lost) /\ lost \subseteq 0 .. current_idx - 1
    BY <1>6 DEF Segment
  <2>3. chunks' \in Seq(Chunks) /\ Covers(chunks', e, lost)
    <3>1. current_idx \in Int /\ 0 <= current_idx
      BY <2>1
    <3>2. /\ Append(chunks, Chunk(current_idx, e - 1, t)) \in Seq(Chunks)
          /\ Covers(Append(chunks, Chunk(current_idx, e - 1, t)), e, lost)
      BY <2>1, <2>2, <3>1, SegmentCovers
    <3> QED
      BY <1>6, <3>2 DEF Segment
  <2>4. lost \subseteq 0 .. e - 1
    BY <2>1, <2>2
  <2> QED
    BY <1>s, <1>t, <1>6, <2>3, <2>4 DEF Segment
<1>7. CASE WindowEnds
  <2>1. current_idx \in Nat /\ current_idx <= N
    BY <1>n DEF TypeOK
  <2>2. Covers(chunks, current_idx, lost) /\ lost \subseteq 0 .. current_idx - 1
    BY <1>7 DEF WindowEnds
  <2>3. CASE covered
    <3>1. current_idx' = current_idx /\ lost' = lost /\ chunks' = chunks
      BY <1>7, <2>3 DEF WindowEnds
    <3>2. ~(current_idx < N) => current_idx = N
      BY <1>n, <2>1
    <3> QED
      BY <1>s, <1>t, <1>7, <2>2, <3>1, <3>2 DEF WindowEnds
  <2>4. CASE ~covered
    <3>1. current_idx < N /\ current_idx' = current_idx + 1 /\ lost' = lost \cup {current_idx}
      BY <1>7, <2>4 DEF WindowEnds
    <3>2. (0 .. (current_idx + 1) - 1) \ (lost \cup {current_idx}) = (0 .. current_idx - 1) \ lost
      BY <2>1
    <3>3. Covers(chunks, current_idx + 1, lost \cup {current_idx})
      BY <2>2, <3>2 DEF Covers
    <3>4. lost \cup {current_idx} \subseteq 0 .. (current_idx + 1) - 1
      BY <2>1, <2>2
    <3>5. ~(current_idx + 1 < N) => current_idx + 1 = N
      BY <1>n, <2>1, <3>1
    <3> QED
      BY <1>s, <1>t, <1>7, <3>1, <3>3, <3>4, <3>5 DEF WindowEnds
  <2> QED
    BY <2>3, <2>4
<1>8. CASE Merge
  <2>1. Covers(chunks, N, lost)
    BY <1>8 DEF Merge
  <2>2. /\ MergeShortChunks(chunks) \in Seq(Chunks) /\ Covers(MergeShortChunks(chunks), N, lost)
    BY <2>1, MergingKeeps DEF Covers
  <2> QED
    BY <1>o, <1>s, <1>t, <1>8, <2>2 DEF Merge
<1>9. CASE OpenOutput \/ WriteOutput
  BY <1>e, <1>s, <1>t, <1>9 DEF OpenOutput, WriteOutput
<1>10. CASE Killed
  BY <1>e, <1>s, <1>t, <1>10 DEF Killed
<1>11. CASE UNCHANGED vars
  BY <1>s, <1>t, <1>11 DEF vars
<1> QED
  BY <1>1, <1>2, <1>3, <1>4, <1>5, <1>6, <1>7, <1>8, <1>9, <1>10, <1>11 DEF Next, Work

LEMMA UnitAlways == ASSUME ConstantsOK PROVE Spec => []UnitInv
<1>1. Init => UnitInv
  BY UnitInit
<1>2. UnitInv /\ [Next]_vars => UnitInv'
  BY UnitStep
<1> QED
  BY <1>1, <1>2, PTL DEF Spec

\* However often the trace is run, resumed or killed, and whatever segments the model names: the
\* chunks in hand and those of a whole file are the trace in order, each sentence once, but for
\* those given up one by one and each under the tags of its segment; merging changes nothing of it.
THEOREM TextStaysWhole == ASSUME ConstantsOK PROVE Spec => []TextKept
<1>1. UnitInv => TextKept
  BY DEF UnitInv
<1> QED
  BY <1>1, UnitAlways, PTL

\* A run that ends by itself leaves a whole file, and --resume leaves one alone only when it
\* covers the trace.
THEOREM EveryRunLeavesWhole == Spec => []RunLeavesWhole
<1> USE DEF RunLeavesWhole, flags, file, progress
<1>1. Init => RunLeavesWhole
  BY DEF Init
<1>2. RunLeavesWhole /\ [Next]_vars => RunLeavesWhole'
  <2> SUFFICES ASSUME RunLeavesWhole, [Next]_vars PROVE RunLeavesWhole'
    OBVIOUS
  <2>1. CASE Start
    BY <2>1 DEF Start, ResumeSkips
  <2>2. \/ AttemptFails \/ ReplyEmpty \/ ReplyNoList \/ ReplyArrives
        \/ UnreadableIndex \/ OutputFails
        => RunLeavesWhole'
    BY DEF AttemptFails, ReplyEmpty, ReplyNoList, ReplyArrives, UnreadableIndex, OutputFails
  <2>3. CASE \E s \in Starts, e \in Ends : NegativeEnd(s, e) \/ \E t \in TagSets : Segment(s, e, t)
    BY <2>3 DEF NegativeEnd, Segment
  <2>4. CASE WindowEnds \/ Merge
    BY <2>4 DEF WindowEnds, Merge
  <2>5. CASE OpenOutput
    BY <2>5 DEF OpenOutput
  <2>6. CASE WriteOutput
    BY <2>6 DEF WriteOutput
  <2>7. CASE Killed
    BY <2>7 DEF Killed
  <2>8. CASE UNCHANGED vars
    BY <2>8 DEF vars
  <2> QED
    BY <2>1, <2>2, <2>3, <2>4, <2>5, <2>6, <2>7, <2>8 DEF Next, Work
<1> QED
  BY <1>1, <1>2, PTL DEF Spec

\* Merging leaves nothing to merge: no two neighbours have the same codes if one of them is a
\* single sentence, for chunks that follow one another.
NothingToMerge(cs) ==
  \A i \in 1 .. Len(cs) - 1 : cs[i].tags = cs[i + 1].tags => ~Single(cs[i]) /\ ~Single(cs[i + 1])

Follow(cs) == /\ \A i \in 1 .. Len(cs) : cs[i].first <= cs[i].last
              /\ \A i \in 1 .. Len(cs) - 1 : cs[i].last < cs[i + 1].first

LEMMA MergedOnce ==
  ASSUME NEW m \in Seq(Chunks), NEW c \in Chunks, NothingToMerge(m), c.first <= c.last,
         \A i \in 1 .. Len(m) : m[i].first <= m[i].last,
         m # <<>> => m[Len(m)].last < c.first
  PROVE  LET r == AddMerged(m, c)
         IN  /\ r \in Seq(Chunks) /\ r # <<>> /\ r[Len(r)].last = c.last
             /\ NothingToMerge(r) /\ \A i \in 1 .. Len(r) : r[i].first <= r[i].last
<1>1. CASE m # <<>> /\ Last(m).tags = c.tags /\ (Single(Last(m)) \/ Single(c))
  <2>1. PICK n \in Nat : n = Len(m)
    OBVIOUS
  <2>2. PICK p \in Chunks : p = m[n] /\ p = Last(m)
    BY <1>1, <2>1 DEF Last
  <2>3. PICK j : j = Joined(p, c)
    OBVIOUS
  <2>4. j \in Chunks /\ j.first = p.first /\ j.last = c.last /\ j.tags = p.tags
    <3>1. p = [text |-> p.text, first |-> p.first, last |-> p.last, tags |-> p.tags,
               segments |-> p.segments]
      BY DEF Chunks
    <3>2. p.segments \cup c.segments = {p.tags}
      BY <1>1, <2>2 DEF Chunks
    <3>3. j = [text |-> p.text \o c.text, first |-> p.first, last |-> c.last, tags |-> p.tags,
               segments |-> {p.tags}]
      BY <2>3, <3>1, <3>2 DEF Joined
    <3> QED
      BY <3>3 DEF Chunks
  <2>5. PICK r : r = AddMerged(m, c)
    OBVIOUS
  <2>6. /\ r \in Seq(Chunks) /\ Len(r) = n /\ n > 0 /\ r[n] = j
        /\ \A i \in 1 .. n - 1 : r[i] = m[i]
    <3>1. n > 0 /\ n - 1 \in Nat
      BY <1>1, <2>1
    <3>2. /\ Front(m) \in Seq(Chunks) /\ Len(Front(m)) = n - 1
          /\ \A i \in 1 .. n - 1 : Front(m)[i] = m[i]
      BY <2>1, <3>1 DEF Front
    <3>3. PICK f \in Seq(Chunks) : f = Front(m)
      BY <3>2
    <3>4. Len(f) = n - 1 /\ \A i \in 1 .. n - 1 : f[i] = m[i]
      BY <3>2, <3>3
    <3>5. r = f \o <<j>>
      BY <1>1, <2>2, <2>3, <2>5, <3>3 DEF AddMerged
    <3>6. /\ f \o <<j>> \in Seq(Chunks) /\ Len(f \o <<j>>) = n /\ (f \o <<j>>)[n] = j
          /\ \A i \in 1 .. n - 1 : (f \o <<j>>)[i] = f[i]
      BY <2>4, <3>1, <3>4
    <3> QED
      BY <3>1, <3>4, <3>5, <3>6
  <2>7. p.first <= p.last /\ p.last < c.first
    <3>1. n \in 1 .. Len(m)
      BY <2>1, <2>6
    <3> QED
      BY <1>1, <2>1, <2>2, <3>1
  <2>8. p.first < c.last
    BY <2>7 DEF Chunks
  <2>9. ~Single(j) /\ j.first <= j.last
    BY <2>4, <2>8 DEF Single, Chunks
  <2>10. ASSUME NEW i \in 1 .. n - 1, r[i].tags = r[i + 1].tags
         PROVE  ~Single(r[i]) /\ ~Single(r[i + 1])
    <3>1. i \in 1 .. Len(m) - 1 /\ r[i] = m[i] /\ (i + 1 \in 1 .. n - 1 \/ i + 1 = n)
      BY <2>1, <2>6
    <3>2. m[i].tags = m[i + 1].tags
      BY <2>2, <2>4, <2>6, <2>10, <3>1
    <3>3. ~Single(m[i]) /\ ~Single(m[i + 1])
      BY <3>1, <3>2 DEF NothingToMerge
    <3> QED
      BY <2>6, <2>9, <3>1, <3>3
  <2>11. ASSUME NEW i \in 1 .. n PROVE r[i].first <= r[i].last
    <3>1. i \in 1 .. n - 1 \/ i = n
      OBVIOUS
    <3> QED
      BY <2>1, <2>6, <2>9, <3>1
  <2> QED
    BY <2>4, <2>5, <2>6, <2>10, <2>11 DEF NothingToMerge
<1>2. CASE ~(m # <<>> /\ Last(m).tags = c.tags /\ (Single(Last(m)) \/ Single(c)))
  <2>1. PICK n \in Nat : n = Len(m)
    OBVIOUS
  <2>2. PICK r : r = Append(m, c)
    OBVIOUS
  <2>3. AddMerged(m, c) = r
    BY <1>2, <2>2 DEF AddMerged
  <2>4. /\ r \in Seq(Chunks) /\ Len(r) = n + 1 /\ r[n + 1] = c
        /\ \A i \in 1 .. n : r[i] = m[i]
    BY <2>1, <2>2
  <2>5. ASSUME NEW i \in 1 .. n, r[i].tags = r[i + 1].tags
        PROVE  ~Single(r[i]) /\ ~Single(r[i + 1])
    <3>1. CASE i = n
      <4>1. m # <<>> /\ Last(m) = m[n] /\ r[i] = m[n] /\ r[i + 1] = c
        BY <2>1, <2>4, <3>1 DEF Last
      <4> QED
        BY <1>2, <2>5, <4>1
    <3>2. CASE i # n
      <4>1. i \in 1 .. Len(m) - 1 /\ r[i] = m[i] /\ r[i + 1] = m[i + 1]
        BY <2>1, <2>4, <3>2
      <4> QED
        BY <2>5, <4>1 DEF NothingToMerge
    <3> QED
      BY <3>1, <3>2
  <2>6. ASSUME NEW i \in 1 .. n + 1 PROVE r[i].first <= r[i].last
    <3>1. i \in 1 .. n \/ i = n + 1
      OBVIOUS
    <3> QED
      BY <2>1, <2>4, <3>1
  <2>7. n + 1 - 1 = n
    OBVIOUS
  <2> QED
    BY <2>3, <2>4, <2>5, <2>6, <2>7 DEF NothingToMerge
<1> QED
  BY <1>1, <1>2

LEMMA OneMergeIsEnough ==
  ASSUME NEW cs \in Seq(Chunks), Follow(cs)
  PROVE  NothingToMerge(MergeShortChunks(cs))
<1>1. PICK f : /\ f[0] = <<>> /\ \A k \in 1 .. Len(cs) : f[k] = AddMerged(f[k - 1], cs[k])
               /\ MergeShortChunks(cs) = f[Len(cs)]
  BY MergeShortChunksDefined
<1> DEFINE Done(k) == /\ f[k] \in Seq(Chunks) /\ NothingToMerge(f[k])
                      /\ \A i \in 1 .. Len(f[k]) : f[k][i].first <= f[k][i].last
                      /\ k > 0 => f[k][Len(f[k])].last = cs[k].last
                      /\ k = 0 => f[k] = <<>>
           S == {k \in Nat : k <= Len(cs) => Done(k)}
<1>2. 0 \in S
  <2>1. f[0] \in Seq(Chunks) /\ Len(f[0]) = 0
    BY <1>1
  <2>2. 1 .. Len(f[0]) = {} /\ 1 .. Len(f[0]) - 1 = {}
    BY <2>1
  <2>3. NothingToMerge(f[0])
    BY <2>2 DEF NothingToMerge
  <2>4. \A i \in 1 .. Len(f[0]) : f[0][i].first <= f[0][i].last
    BY <2>2
  <2>5. Done(0)
    BY <1>1, <2>1, <2>3, <2>4
  <2> HIDE DEF Done
  <2> QED
    BY <2>5
<1>3. ASSUME NEW k \in Nat, k \in S PROVE k + 1 \in S
  <2> SUFFICES ASSUME k + 1 <= Len(cs) PROVE Done(k + 1)
    OBVIOUS
  <2>1. Done(k)
    BY <1>3
  <2>2. k + 1 \in 1 .. Len(cs) /\ k + 1 - 1 = k /\ k + 1 > 0
    OBVIOUS
  <2>3. PICK c \in Chunks : c = cs[k + 1] /\ c.first <= c.last
    BY <2>2 DEF Follow
  <2>4. PICK m \in Seq(Chunks) : m = f[k]
    BY <2>1
  <2>5. f[k + 1] = AddMerged(m, c)
    BY <1>1, <2>2, <2>3, <2>4
  <2>6. m # <<>> => m[Len(m)].last < c.first
    <3> SUFFICES ASSUME m # <<>> PROVE m[Len(m)].last < c.first
      OBVIOUS
    <3>1. k > 0 /\ m[Len(m)].last = cs[k].last
      BY <2>1, <2>4
    <3>2. k \in 1 .. Len(cs) - 1
      BY <2>2, <3>1
    <3> QED
      BY <2>3, <3>1, <3>2 DEF Follow
  <2>7. LET r == AddMerged(m, c)
        IN  /\ r \in Seq(Chunks) /\ r # <<>> /\ r[Len(r)].last = c.last
            /\ NothingToMerge(r) /\ \A i \in 1 .. Len(r) : r[i].first <= r[i].last
    <3>1. NothingToMerge(m) /\ \A i \in 1 .. Len(m) : m[i].first <= m[i].last
      BY <2>1, <2>4
    <3> QED
      BY <2>3, <2>6, <3>1, MergedOnce
  <2> QED
    BY <2>2, <2>3, <2>5, <2>7
<1> HIDE DEF S
<1>4. Len(cs) \in S
  BY <1>2, <1>3, SetInduction
<1> QED
  BY <1>1, <1>4 DEF S

\* The chunks of a run follow one another, so merging finds them as it needs them.
FollowInv == pc \in {"window", "items", "merge"} =>
               /\ Follow(chunks)
               /\ chunks # <<>> => chunks[Len(chunks)].last < current_idx

LEMMA SegmentFollows ==
  ASSUME NEW m \in Seq(Chunks), NEW i \in Int, NEW e \in Int, NEW tags, i < e,
         Follow(m), m # <<>> => m[Len(m)].last < i
  PROVE  LET r == Append(m, Chunk(i, e - 1, tags))
         IN  Follow(r) /\ r[Len(r)].last < e
<1>1. PICK n \in Nat : n = Len(m)
  OBVIOUS
<1>2. PICK c : c = Chunk(i, e - 1, tags)
  OBVIOUS
<1>3. c.first = i /\ c.last = e - 1
  BY <1>2 DEF Chunk
<1>4. PICK r : r = Append(m, c)
  OBVIOUS
<1>5. Len(r) = n + 1 /\ r[n + 1] = c /\ \A k \in 1 .. n : r[k] = m[k]
  BY <1>1, <1>4
<1>6. ASSUME NEW k \in 1 .. n + 1 PROVE r[k].first <= r[k].last
  <2>1. k \in 1 .. n \/ k = n + 1
    OBVIOUS
  <2>2. i <= e - 1
    OBVIOUS
  <2> QED
    BY <1>1, <1>3, <1>5, <2>1, <2>2 DEF Follow
<1>7. ASSUME NEW k \in 1 .. n PROVE r[k].last < r[k + 1].first
  <2>1. CASE k = n
    BY <1>1, <1>3, <1>5, <2>1
  <2>2. CASE k # n
    <3>1. k \in 1 .. n - 1 /\ k + 1 \in 1 .. n
      BY <2>2
    <3> QED
      BY <1>1, <1>5, <3>1 DEF Follow
  <2> QED
    BY <2>1, <2>2
<1>8. n + 1 - 1 = n /\ e - 1 < e
  OBVIOUS
<1> QED
  BY <1>2, <1>3, <1>4, <1>5, <1>6, <1>7, <1>8 DEF Follow

LEMMA FollowStep == ASSUME ConstantsOK, UnitInv, FollowInv, [Next]_vars PROVE FollowInv'
<1> USE DEF flags, file, progress
<1>1. current_idx \in Int
  BY NFacts DEF UnitInv, TextKept, TypeOK
<1>2. CASE Start
  <2>1. Follow(<<>>)
    <3>1. 1 .. Len(<<>>) = {} /\ 1 .. Len(<<>>) - 1 = {}
      OBVIOUS
    <3> QED
      BY <3>1 DEF Follow
  <2> QED
    BY <1>2, <2>1 DEF Start, FollowInv
<1>3. CASE pc' \notin {"window", "items", "merge"}
  BY <1>3 DEF FollowInv
<1>4. CASE ReplyArrives
  BY <1>4 DEF ReplyArrives, FollowInv
<1>5. CASE AttemptFails
  BY <1>5 DEF AttemptFails, FollowInv
<1>6. ASSUME NEW s \in Starts, NEW e \in Ends, NEW t \in TagSets, Segment(s, e, t) PROVE FollowInv'
  <2>1. e \in Int /\ current_idx < e
    BY <1>6, NFacts DEF Segment, Ends
  <2>2. LET r == Append(chunks, Chunk(current_idx, e - 1, t))
        IN  Follow(r) /\ r[Len(r)].last < e
    BY <1>1, <1>6, <2>1, SegmentFollows DEF Segment, FollowInv, UnitInv
  <2> QED
    BY <1>6, <2>2 DEF Segment, FollowInv
<1>7. CASE WindowEnds
  <2>1. PICK i \in Int : i = current_idx /\ chunks' = chunks /\ pc = "items"
    BY <1>1, <1>7 DEF WindowEnds
  <2>2. current_idx' = i \/ current_idx' = i + 1
    BY <1>7, <2>1 DEF WindowEnds
  <2>3. ASSUME chunks # <<>> PROVE chunks[Len(chunks)].last < current_idx'
    <3>1. chunks[Len(chunks)].last < i /\ Len(chunks) \in DOMAIN chunks
      BY <2>1, <2>3 DEF FollowInv, UnitInv
    <3>2. chunks[Len(chunks)] \in Chunks
      BY <3>1 DEF UnitInv
    <3>3. chunks[Len(chunks)].last \in Int
      BY <3>2 DEF Chunks
    <3> QED
      BY <2>2, <3>1, <3>3
  <2> QED
    BY <2>1, <2>3 DEF FollowInv
<1>8. CASE UNCHANGED vars
  BY <1>8 DEF vars, FollowInv
<1> QED
  BY <1>2, <1>3, <1>4, <1>5, <1>6, <1>7, <1>8
     DEF Next, Work, ReplyEmpty, ReplyNoList, NegativeEnd, UnreadableIndex, Merge, OpenOutput,
         WriteOutput, OutputFails, Killed

\* One pass of merge_short_chunks is enough: whatever segments the model named, no sentence
\* stands alone beside a chunk with its codes once the run has merged them.
THEOREM MergedForGood ==
  ASSUME ConstantsOK
  PROVE  Spec => [][Merge /\ chunks # <<>> /\ pc' = "write" => NothingToMerge(chunks')]_vars
<1>1. Init => UnitInv /\ FollowInv
  BY UnitInit DEF Init, FollowInv
<1>2. UnitInv /\ FollowInv /\ [Next]_vars => (UnitInv /\ FollowInv)'
  BY UnitStep, FollowStep
<1>3. UnitInv /\ FollowInv =>
        [Merge /\ chunks # <<>> /\ pc' = "write" => NothingToMerge(chunks')]_vars
  <2> SUFFICES ASSUME UnitInv, FollowInv, Merge, chunks # <<>>, pc' = "write"
               PROVE  NothingToMerge(chunks')
    OBVIOUS
  <2>1. chunks \in Seq(Chunks) /\ Follow(chunks)
    BY DEF UnitInv, FollowInv, Merge
  <2>2. NothingToMerge(MergeShortChunks(chunks))
    BY <2>1, OneMergeIsEnough
  <2>3. chunks' = MergeShortChunks(chunks)
    BY DEF Merge
  <2> QED
    BY <2>2, <2>3
<1> QED
  BY <1>1, <1>2, <1>3, PTL DEF Spec

-----------------------------------------------------------------------------
\* Seen from outside, the work on the trace is that of FileWork, which makes files anew.
UnitWork == CASE pc = "start" -> "out" [] pc = "dump" -> "writing"
              [] pc = "done" -> "done" [] pc = "raised" -> "gaveup" [] OTHER -> "asking"
UnitFile == INSTANCE FileWork WITH Anew <- TRUE, work <- UnitWork, output <- output

LEMMA UnitFileStep == ASSUME [Next]_vars PROVE [UnitFile!Next]_<<UnitWork, output>>
<1> USE DEF UnitFile!Next, UnitWork, flags, file, progress
<1>1. CASE Start
  <2>1. CASE ResumeSkips
    BY <1>1, <2>1 DEF Start, ResumeSkips, UnitFile!Skip, UnitFile!Idle
  <2>2. CASE ~ResumeSkips
    BY <1>1, <2>2 DEF Start, UnitFile!Take, UnitFile!Idle
  <2> QED
    BY <2>1, <2>2
<1>2. CASE AttemptFails \/ ReplyEmpty \/ ReplyArrives
  BY <1>2 DEF AttemptFails, ReplyEmpty, ReplyArrives
<1>3. CASE ReplyNoList \/ UnreadableIndex
  BY <1>3 DEF ReplyNoList, UnreadableIndex, UnitFile!GiveUp
<1>4. ASSUME NEW s \in Starts, NEW e \in Ends, NegativeEnd(s, e)
      PROVE  UnitFile!GiveUp
  BY <1>4 DEF NegativeEnd, UnitFile!GiveUp
<1>5. ASSUME NEW s \in Starts, NEW e \in Ends, NEW t \in TagSets, Segment(s, e, t)
      PROVE  UNCHANGED <<UnitWork, output>>
  BY <1>5 DEF Segment
<1>6. CASE WindowEnds
  BY <1>6 DEF WindowEnds
<1>7. CASE Merge
  BY <1>7 DEF Merge, UnitFile!GiveUp
<1>8. CASE OpenOutput
  BY <1>8 DEF OpenOutput, UnitFile!Open
<1>9. CASE WriteOutput
  BY <1>9 DEF WriteOutput, UnitFile!Fill
<1>10. CASE OutputFails
  BY <1>10 DEF OutputFails, UnitFile!FillFails, UnitFile!GiveUp
<1>11. CASE Killed
  BY <1>11 DEF Killed, UnitFile!Leave
<1>12. CASE UNCHANGED vars
  BY <1>12 DEF vars
<1> QED
  BY <1>1, <1>2, <1>3, <1>4, <1>5, <1>6, <1>7, <1>8, <1>9, <1>10, <1>11, <1>12 DEF Next, Work

\* Step 1 does with a trace what FileWork says: whatever the model, the disk and kills do, a file
\* is emptied by a run that works on the trace and whole again only when that run has filled it,
\* and a run passes over a whole file only.
THEOREM UnitIsFileWork == Spec => UnitFile!Spec
<1>1. Init => UnitFile!Init
  BY DEF Init, UnitFile!Init, UnitWork
<1>2. [Next]_vars => [UnitFile!Next]_<<UnitWork, output>>
  BY UnitFileStep
<1> QED
  BY <1>1, <1>2, PTL DEF Spec, UnitFile!Spec

-----------------------------------------------------------------------------
(* Step 2.  OutputComplete is inductive with where the pass is: the labels are those of the    *)
(* chunks before the one at hand, and there are chunks left while it asks, none when it writes. *)
Control == /\ num_chunks \in Nat /\ idx \in Nat \ {0}
           /\ label_pc = "batch" => idx = 1
           /\ label_pc = "chunk" => idx <= num_chunks
           /\ label_pc \in {"write", "dump"} => idx = num_chunks + 1
           /\ label_pc # "gaveup" => file_retries < MaxFileRetries

LabelInv == OutputComplete /\ Control

\* A label that the program makes of a reply consists of codes.
LEMMA LabelsAreCodes ==
  /\ Default \in SUBSET (Codes \cup Default)
  /\ \A r \in Replies : Parsed(r.codes) \in SUBSET (Codes \cup Default)
BY DEF Default, Codes, Replies, Parsed

LEMMA InitLabels == ASSUME LabelConstantsOK PROVE LabelInit => LabelInv
<1> SUFFICES ASSUME LabelInit PROVE LabelInv
  OBVIOUS
<1>1. <<>> \in Seq(SUBSET (Codes \cup Default)) /\ Len(<<>>) = 1 - 1
  OBVIOUS
<1> QED
  BY <1>1 DEF LabelInit, LabelConstantsOK, LabelInv, OutputComplete, LabelTypeOK, Control

LEMMA PassFailsKeeps ==
  ASSUME LabelConstantsOK, LabelInv, label_pc # "gaveup", PassFails, UNCHANGED label_file
  PROVE  LabelInv'
BY DEF LabelInv, OutputComplete, LabelTypeOK, Control, PassFails, LabelConstantsOK,
       input, pass, label_file

\* A label carries the pass to the next chunk, or to the output behind the last one.
LEMMA LabelledKeeps ==
  ASSUME LabelConstantsOK, LabelInv, label_pc = "chunk", NEW codes \in SUBSET (Codes \cup Default),
         Labelled(codes), UNCHANGED <<input, file_retries, label_file>>
  PROVE  LabelInv'
<1>1. /\ labels' \in Seq(SUBSET (Codes \cup Default))
      /\ Len(labels') = Len(labels) + 1
  BY AppendProperties DEF Labelled, LabelInv, OutputComplete, LabelTypeOK
<1>2. /\ idx' = idx + 1 /\ tries' = 0 /\ num_chunks' = num_chunks
      /\ label_pc' = IF idx < num_chunks THEN "chunk" ELSE "write"
      /\ UNCHANGED <<file_retries, label_output, label_saved>>
  BY DEF Labelled, input, label_file
<1>3. idx \in Nat \ {0} /\ idx <= num_chunks /\ num_chunks \in Nat /\ 0 \in 0 .. MaxTries - 1
  BY DEF LabelInv, Control, LabelConstantsOK
<1> QED
  BY <1>1, <1>2, <1>3 DEF LabelInv, OutputComplete, LabelTypeOK, Control

LEMMA LabelStep == ASSUME LabelConstantsOK, LabelInv, [LabelNext]_label_vars PROVE LabelInv'
<1>1. CASE Load
  <2>1. /\ <<>> \in Seq(SUBSET (Codes \cup Default)) /\ Len(<<>>) = 1 - 1
        /\ 0 \in 0 .. MaxTries - 1
    BY DEF LabelConstantsOK
  <2> QED
    BY <1>1, <2>1 DEF Load, LabelInv, OutputComplete, LabelTypeOK, Control, input, label_file
<1>2. CASE LoadFails \/ BatchFails \/ WriteFails
  BY <1>2, PassFailsKeeps DEF LoadFails, BatchFails, WriteFails
<1>3. CASE BatchArrives
  BY <1>3 DEF BatchArrives, LabelInv, OutputComplete, LabelTypeOK, Control, input, pass, label_file
<1>4. ASSUME NEW r \in Replies, TryFails(r) PROVE LabelInv'
  <2>1. CASE tries + 1 < MaxTries
    <3>1. tries' = tries + 1 /\ tries' \in 0 .. MaxTries - 1
      BY <1>4, <2>1 DEF TryFails, LabelInv, OutputComplete, LabelTypeOK, LabelConstantsOK
    <3> QED
      BY <1>4, <2>1, <3>1 DEF TryFails, LabelInv, OutputComplete, LabelTypeOK, Control, input,
                                  label_file
  <2>2. CASE ~(tries + 1 < MaxTries)
    BY <1>4, <2>2, LabelsAreCodes, LabelledKeeps DEF TryFails
  <2> QED
    BY <2>1, <2>2
<1>5. ASSUME NEW r \in Replies, TrySucceeds(r) PROVE LabelInv'
  BY <1>5, LabelsAreCodes, LabelledKeeps DEF TrySucceeds
<1>6. ASSUME NEW r \in Replies, ChunkBreaks(r) PROVE LabelInv'
  BY <1>6, PassFailsKeeps DEF ChunkBreaks
<1>7. CASE OpenLabels
  BY <1>7 DEF OpenLabels, LabelInv, OutputComplete, LabelTypeOK, Control, input, pass
<1>8. CASE WriteLabels
  BY <1>8 DEF WriteLabels, LabelInv, OutputComplete, LabelTypeOK, Control, input, pass
<1>9. CASE UNCHANGED label_vars
  BY <1>9 DEF label_vars, LabelInv, OutputComplete, LabelTypeOK, Control, input, pass, label_file
<1> QED
  BY <1>1, <1>2, <1>3, <1>4, <1>5, <1>6, <1>7, <1>8, <1>9 DEF LabelNext

\* An output of Step 2 has one label for every chunk, whatever replies came and whatever
\* attempts failed before it was written, and counters and labels keep their types.
THEOREM LabelsComplete == ASSUME LabelConstantsOK PROVE LabelSpec => []OutputComplete
<1>1. LabelInv /\ [LabelNext]_label_vars => LabelInv'
  BY LabelStep
<1>2. LabelInv => OutputComplete
  BY DEF LabelInv
<1> QED
  BY <1>1, <1>2, InitLabels, PTL DEF LabelSpec

-----------------------------------------------------------------------------
(* FirstAnswerCounts.  Of the tries for a chunk before the one at hand, those with codes    *)
(* were not looked at, and one without annotations came before them.                        *)

BareFirst(replies, i, n) ==
  replies[i].kind = "bare" /\ \A j \in 1 .. n : replies[j].kind = "codes" => i < j

TriesInv ==
  /\ label_pc = "batch" => tries = 0 /\ ~parsed
  /\ label_pc = "chunk" =>
       /\ tries > 0 => heard \in Seq(Replies) /\ Len(heard) = tries
       /\ parsed => \E i \in 1 .. tries : BareFirst(heard, i, tries)
       /\ ~Stale => \A j \in 1 .. tries : heard[j].kind # "codes"

LEMMA TriesInit == LabelInit => TriesInv
BY DEF LabelInit, TriesInv

\* Once a chunk is done, or the attempt at the file, nothing is kept of its tries.
LEMMA TriesOver ==
  ASSUME label_pc' # "chunk" \/ (tries' = 0 /\ parsed' = FALSE),
         label_pc' # "batch" \/ (tries' = 0 /\ parsed' = FALSE)
  PROVE  TriesInv'
BY DEF TriesInv, Stale

LEMMA HeardFacts ==
  ASSUME TriesInv, LabelInv, label_pc = "chunk", NEW r \in Replies,
         heard' = IF tries = 0 THEN <<r>> ELSE Append(heard, r)
  PROVE  /\ heard' \in Seq(Replies) /\ Len(heard') = tries + 1 /\ heard'[tries + 1] = r
         /\ \A i \in 1 .. tries : heard'[i] = heard[i]
         /\ tries \in Nat /\ DOMAIN heard' = 1 .. tries + 1
<1>1. tries \in Nat
  BY DEF LabelInv, OutputComplete, LabelTypeOK
<1>2. CASE tries = 0
  BY <1>1, <1>2
<1>3. CASE tries > 0
  <2>1. heard \in Seq(Replies) /\ Len(heard) = tries
    BY <1>3 DEF TriesInv
  <2> QED
    BY <1>1, <1>3, <2>1
<1> QED
  BY <1>1, <1>2, <1>3

\* A try that fails is none with codes, or one that was not looked at.
LEMMA FailureHeard ==
  ASSUME TriesInv, LabelInv, NEW r \in Replies, TryFails(r)
  PROVE  /\ parsed \/ r.kind = "bare" =>
              \E i \in 1 .. tries + 1 : BareFirst(heard', i, tries + 1)
         /\ ~Stale => \A j \in 1 .. tries + 1 : heard'[j].kind # "codes"
         /\ Stale => \E i \in 1 .. tries : BareFirst(heard', i, tries + 1)
<1>1. /\ label_pc = "chunk" /\ heard' = IF tries = 0 THEN <<r>> ELSE Append(heard, r)
      /\ r.kind \in {"error", "garbled", "bare"} \/ Stale
  BY DEF TryFails
<1>2. /\ heard'[tries + 1] = r /\ tries \in Nat
      /\ \A i \in 1 .. tries : heard'[i] = heard[i]
  BY <1>1, HeardFacts
<1>3. \A j \in 1 .. tries + 1 : j \in 1 .. tries \/ j = tries + 1
  BY <1>2
<1>4. ASSUME parsed
      PROVE  \E i \in 1 .. tries : BareFirst(heard', i, tries + 1)
  <2>1. PICK i \in 1 .. tries : BareFirst(heard, i, tries)
    BY <1>1, <1>4 DEF TriesInv
  <2>2. heard'[i].kind = "bare" /\ i < tries + 1
    BY <1>2, <2>1 DEF BareFirst
  <2>3. \A j \in 1 .. tries + 1 : heard'[j].kind = "codes" => i < j
    BY <1>2, <1>3, <2>1, <2>2 DEF BareFirst
  <2> QED
    BY <2>2, <2>3 DEF BareFirst
<1>5. ASSUME ~Stale PROVE \A j \in 1 .. tries + 1 : heard'[j].kind # "codes"
  <2>1. \A j \in 1 .. tries : heard[j].kind # "codes"
    BY <1>1, <1>5 DEF TriesInv
  <2>2. r.kind # "codes"
    BY <1>1, <1>5
  <2> QED
    BY <1>2, <1>3, <2>1, <2>2
<1>6. ASSUME ~parsed, r.kind = "bare"
      PROVE  \E i \in 1 .. tries + 1 : BareFirst(heard', i, tries + 1)
  <2>1. \A j \in 1 .. tries + 1 : heard'[j].kind # "codes"
    BY <1>5, <1>6 DEF Stale
  <2> QED
    BY <1>2, <1>6, <2>1 DEF BareFirst
<1>7. 1 .. tries \subseteq 1 .. tries + 1
  BY <1>2
<1> QED
  BY <1>4, <1>5, <1>6, <1>7 DEF Stale

LEMMA TriesStep ==
  ASSUME LabelConstantsOK, LabelInv, TriesInv, [LabelNext]_label_vars PROVE TriesInv'
<1>1. ASSUME NEW r \in Replies, TryFails(r) PROVE TriesInv'
  <2>1. CASE tries + 1 < MaxTries
    <3>1. /\ label_pc = "chunk" /\ label_pc' = label_pc /\ tries' = tries + 1
          /\ (parsed' <=> parsed \/ r.kind = "bare")
          /\ UNCHANGED <<batch, schema>>
          /\ heard' = IF tries = 0 THEN <<r>> ELSE Append(heard, r)
      BY <1>1, <2>1 DEF TryFails, input
    <3>2. heard' \in Seq(Replies) /\ Len(heard') = tries + 1
      BY <3>1, HeardFacts
    <3>3. ~Stale' => ~Stale
      BY <3>1 DEF Stale
    <3> QED
      BY <1>1, <3>1, <3>2, <3>3, FailureHeard DEF TriesInv
  <2>2. CASE ~(tries + 1 < MaxTries)
    <3>1. tries' = 0 /\ parsed' = FALSE
      BY <1>1, <2>2 DEF TryFails, Labelled
    <3> QED
      BY <3>1, TriesOver
  <2> QED
    BY <2>1, <2>2
<1>2. ASSUME NEW r \in Replies, TrySucceeds(r) PROVE TriesInv'
  BY <1>2, TriesOver DEF TrySucceeds, Labelled
<1>3. CASE PassFails
  BY <1>3, TriesOver DEF PassFails
<1>4. CASE Load
  BY <1>4, TriesOver DEF Load
<1>5. CASE BatchArrives
  <2>1. tries = 0 /\ ~parsed /\ UNCHANGED pass /\ label_pc' # "batch"
    BY <1>5 DEF BatchArrives, TriesInv
  <2> QED
    BY <2>1 DEF TriesInv, Stale, pass
<1>6. CASE OpenLabels \/ WriteLabels
  BY <1>6, TriesOver DEF OpenLabels, WriteLabels
<1>7. CASE UNCHANGED label_vars
  BY <1>7 DEF label_vars, input, pass, TriesInv, Stale
<1> QED
  BY <1>1, <1>2, <1>3, <1>4, <1>5, <1>6, <1>7
     DEF LabelNext, LoadFails, BatchFails, ChunkBreaks, WriteFails

\* Labels are appended by the last try for a chunk only.
LEMMA LabelAppended ==
  ASSUME LabelInv, NEW codes, Labelled(codes)
  PROVE  Last(labels') = codes
<1>1. labels' = Append(labels, codes) /\ labels \in Seq(SUBSET (Codes \cup Default))
  BY DEF Labelled, LabelInv, OutputComplete, LabelTypeOK
<1>2. labels'[Len(labels')] = codes
  BY <1>1
<1> QED
  BY <1>2 DEF Last

LEMMA CountsStep == ASSUME LabelConstantsOK, LabelInv, TriesInv, LabelNext PROVE FirstCounts
<1>1. Len(labels) \in Nat
  BY DEF LabelInv, OutputComplete, LabelTypeOK
<1>2. ASSUME NEW r \in Replies, TryFails(r) PROVE FirstCounts
  <2>1. /\ label_pc = "chunk" /\ heard' = IF tries = 0 THEN <<r>> ELSE Append(heard, r)
    BY <1>2 DEF TryFails
  <2>2. Len(heard') = tries + 1 /\ DOMAIN heard' = 1 .. tries + 1 /\ tries \in Nat
    BY <1>2, <2>1, HeardFacts
  <2>3. CASE tries + 1 < MaxTries
    BY <1>1, <1>2, <2>3 DEF TryFails, FirstCounts
  <2>4. CASE ~(tries + 1 < MaxTries)
    <3>1. tries + 1 = MaxTries /\ tries = MaxTries - 1
      BY <2>2, <2>4 DEF LabelInv, OutputComplete, LabelTypeOK, LabelConstantsOK
    <3>2. Last(labels') = Default
      BY <1>2, <2>4, LabelAppended DEF TryFails
    <3>3. CASE Stale
      <4>1. \E i \in 1 .. MaxTries - 1 : heard'[i].kind = "bare" /\ \A j \in Answers : i < j
        BY <1>2, <2>2, <3>1, <3>3, FailureHeard DEF Answers, BareFirst
      <4> QED
        BY <2>2, <3>1, <3>2, <3>3, <4>1 DEF FirstCounts, Stale
    <3>4. CASE ~Stale
      <4>1. Answers = {}
        BY <1>2, <2>2, <3>4, FailureHeard DEF Answers
      <4> QED
        BY <2>2, <3>1, <3>2, <4>1 DEF FirstCounts
    <3> QED
      BY <3>3, <3>4
  <2> QED
    BY <2>3, <2>4
<1>3. ASSUME NEW r \in Replies, TrySucceeds(r) PROVE FirstCounts
  <2>1. /\ label_pc = "chunk" /\ heard' = IF tries = 0 THEN <<r>> ELSE Append(heard, r)
        /\ r.kind = "codes" /\ ~Stale /\ Labelled(Parsed(r.codes))
    BY <1>3 DEF TrySucceeds
  <2>2. /\ heard'[tries + 1] = r /\ DOMAIN heard' = 1 .. tries + 1 /\ tries \in Nat
        /\ \A i \in 1 .. tries : heard'[i] = heard[i]
    BY <1>3, <2>1, HeardFacts
  <2>3. \A j \in 1 .. tries : heard[j].kind # "codes"
    BY <2>1 DEF TriesInv
  <2>4. tries + 1 \in Answers /\ \A j \in Answers : tries + 1 <= j
    BY <2>1, <2>2, <2>3 DEF Answers
  <2>5. Last(labels') = Parsed(heard'[tries + 1].codes)
    BY <2>1, <2>2, LabelAppended
  <2> QED
    BY <2>4, <2>5 DEF FirstCounts
<1>4. CASE Load
  <2>1. Len(labels') = 0
    BY <1>4 DEF Load
  <2> QED
    BY <1>1, <2>1 DEF FirstCounts
<1>5. CASE labels' = labels
  BY <1>1, <1>5 DEF FirstCounts
<1> QED
  BY <1>2, <1>3, <1>4, <1>5
     DEF LabelNext, LoadFails, BatchArrives, BatchFails, ChunkBreaks, OpenLabels, WriteLabels,
         WriteFails, PassFails, pass

\* FirstAnswerCounts: whatever replies come in whatever order, a chunk has the label of the first
\* that has codes, and E only after the last try.
THEOREM FirstAnswersCount == ASSUME LabelConstantsOK PROVE LabelSpec => FirstAnswerCounts
<1>1. LabelInit => LabelInv /\ TriesInv
  BY InitLabels, TriesInit
<1>2. LabelInv /\ TriesInv /\ [LabelNext]_label_vars => (LabelInv /\ TriesInv)'
  BY LabelStep, TriesStep
<1>3. LabelInv /\ TriesInv /\ [LabelNext]_label_vars => [FirstCounts]_label_vars
  BY CountsStep
<1> QED
  BY <1>1, <1>2, <1>3, PTL DEF LabelSpec, FirstAnswerCounts

-----------------------------------------------------------------------------
\* Seen from outside, the work on the labels is that of FileWork, attempt by attempt.
LabelWork == CASE label_pc = "dump" -> "writing" [] label_pc = "done" -> "done"
               [] label_pc = "gaveup" -> "gaveup" [] OTHER -> "asking"
LabelFile == INSTANCE FileWork WITH Anew <- FALSE, work <- LabelWork, output <- label_output

\* The label file is not whole while the program works on it.
LabelOpen == label_output = "whole" => label_pc = "done"

LEMMA LabelFileStep ==
  ASSUME LabelOpen, [LabelNext]_label_vars
  PROVE  LabelOpen' /\ [LabelFile!Next]_<<LabelWork, label_output>>
<1> USE DEF LabelOpen, LabelFile!Next, LabelWork, label_file, PassFails
<1>1. CASE Load
  BY <1>1 DEF Load
<1>2. CASE BatchArrives
  BY <1>2 DEF BatchArrives
<1>3. CASE LoadFails \/ BatchFails
  BY <1>3 DEF LoadFails, BatchFails, LabelFile!GiveUp
<1>4. ASSUME NEW r \in Replies, TryFails(r) \/ TrySucceeds(r)
      PROVE  LabelOpen' /\ UNCHANGED <<LabelWork, label_output>>
  BY <1>4 DEF TryFails, TrySucceeds, Labelled
<1>5. ASSUME NEW r \in Replies, ChunkBreaks(r)
      PROVE  LabelOpen' /\ [LabelFile!Next]_<<LabelWork, label_output>>
  BY <1>5 DEF ChunkBreaks, LabelFile!GiveUp
<1>6. CASE OpenLabels
  BY <1>6 DEF OpenLabels, LabelFile!Open
<1>7. CASE WriteLabels
  BY <1>7 DEF WriteLabels, LabelFile!Fill
<1>8. CASE WriteFails
  BY <1>8 DEF WriteFails, LabelFile!FillFails, LabelFile!GiveUp
<1>9. CASE UNCHANGED label_vars
  BY <1>9 DEF label_vars
<1> QED
  BY <1>1, <1>2, <1>3, <1>4, <1>5, <1>6, <1>7, <1>8, <1>9 DEF LabelNext

\* Step 2 does with a file what FileWork says: through all attempts, the labels are opened again
\* only while they are torn, and once they are whole the program is done with the file.
THEOREM LabelsAreFileWork == LabelSpec => LabelFile!Spec
<1>1. LabelInit => LabelOpen /\ LabelFile!Init
  BY DEF LabelInit, LabelOpen, LabelFile!Init, LabelWork
<1>2. LabelOpen /\ [LabelNext]_label_vars
        => LabelOpen' /\ [LabelFile!Next]_<<LabelWork, label_output>>
  BY LabelFileStep
<1> QED
  BY <1>1, <1>2, PTL DEF LabelSpec, LabelFile!Spec
=============================================================================
