---------------------------- MODULE TrackerProofs ----------------------------
(***************************************************************************)
(* Theorems about what the tracker sees and what it does: Vision, for      *)
(* every size of image and every output of the network, and ObjectTrack,   *)
(* for every image and every scan timeout.                                 *)
(***************************************************************************)
EXTENDS ObjectTrack, Vision, WellFoundedInduction, TLAPS

-------------------------------------------------------------------------------
(* From the network's output to a velocity.                                *)

\* process_float's candidates by number.
Count == Len(candidates)
Positions == 1 .. Count

\* A box of the network's input, an entry of the ranking, a range of it, and a
\* detection.
Box == [x1 : Int, y1 : Int, x2 : Int, y2 : Int, score : Int, class : Nat]
Entry == [index : Nat, score : Int]
Span == {c \in [left : Nat, right : Nat] : 1 <= c.left /\ c.left < c.right /\ c.right <= Count}
Detection == [x1 : Int, y1 : Int, x2 : Int, y2 : Int, conf : Int, class : Nat]

\* The types of process()'s arrays and of the image's size.
Types ==
  /\ source \in (Nat \ {0}) \X (Nat \ {0})
  /\ candidates \in Seq(Box)
  /\ ranking \in Seq(Entry) /\ sorted \in Seq(Entry)
  /\ detections \in Seq(Detection)
  /\ place \in Nat \ {0}
  /\ stage \in {"decode", "sort", "partition", "suppress", "emit", "done", "tracked"}

\* The list with the key of the running call in its hole.
Whole == IF stage = "partition" THEN [ranking EXCEPT ![low] = key] ELSE ranking

\* quick_sort_indice_inverse runs.
Sorting == stage \in {"sort", "partition"}

\* The sort loses no candidate and keeps each with its score.
Complete(list) ==
  /\ Len(list) = Count
  /\ \A i \in Positions : list[i].index \in Positions /\ list[i].score = candidates[list[i].index].score
  /\ \A k \in Positions : \E i \in Positions : list[i].index = k

\* At every moment of the sort the list with its hole filled is complete.
NoneIsLost == Sorting => Complete(Whole)

\* What is still to be sorted: the ranges of the pending and the running call.
Open == calls \cup (IF stage = "partition" THEN {call} ELSE {})

\* Two ranges of the sort share no element.
Separate(c, d) == c.right < d.left \/ d.right < c.left

\* The pending calls of quick_sort_indice_inverse share no element, which is why
\* their order does not matter.
CallsAreApart ==
  Sorting =>
    /\ calls \subseteq Span
    /\ \A c, d \in calls : c # d => Separate(c, d)

\* Two entries in the wrong order lie in the range of one call.
RestIsOrdered ==
  Sorting =>
    \A i, j \in Positions :
      i < j => \/ Whole[i].score >= Whole[j].score
               \/ \E c \in Open : c.left <= i /\ j <= c.right

\* Left of low are entries as good as the key, right of high none that is better.
PartitionIsHalfDone ==
  stage = "partition" =>
    /\ call \in Span /\ \A c \in calls : Separate(c, call)
    /\ key \in Entry /\ low \in Nat /\ high \in Nat
    /\ call.left <= low /\ low <= high /\ high <= call.right
    /\ \A i \in call.left .. low - 1 : ranking[i].score >= key.score
    /\ \A i \in high + 1 .. call.right : ranking[i].score <= key.score

\* quick_sort_indice_inverse is done, and nms only clears indices.
RankingIsSorted ==
  stage \in {"suppress", "emit"} =>
    /\ Complete(sorted) /\ Len(ranking) = Count
    /\ \A i, j \in Positions : i < j => sorted[i].score >= sorted[j].score
    /\ \A i \in Positions : ranking[i].score = sorted[i].score /\ ranking[i].index \in {0, sorted[i].index}

\* The boxes whose turn in nms is over.
Judged == IF stage = "suppress" THEN {i \in Positions : i < place} ELSE Positions

\* Two sorted boxes overlap more than nms allows.
Overlaps(i, j) == Overlap(candidates[sorted[i].index], candidates[sorted[j].index])

\* A box is removed by one that is left and has had its turn; those that are
\* left overlap none that is left after them.
RemovedByTheLeft ==
  stage \in {"suppress", "emit"} =>
    /\ \A i \in Judged, j \in Positions :
         i < j /\ ranking[i].index # 0 /\ ranking[j].index # 0 => ~Overlaps(i, j)
    /\ \A j \in Positions : ranking[j].index = 0 =>
         \E i \in Judged : i < j /\ ranking[i].index # 0 /\ Overlaps(i, j)

\* Detections come in the order of their scores.
ShownInOrder ==
  /\ stage \notin {"emit", "done", "tracked"} => detections = <<>> /\ (stage # "suppress" => place = 1)
  /\ \A i, j \in DOMAIN detections : i < j => detections[i].conf >= detections[j].conf
  /\ stage = "emit" => \A i \in DOMAIN detections, j \in Positions :
                         place <= j => detections[i].conf >= sorted[j].score

\* The inductive invariant of process().
DetectInv ==
  /\ Types /\ NoneIsLost /\ CallsAreApart /\ RestIsOrdered /\ PartitionIsHalfDone
  /\ RankingIsSorted /\ RemovedByTheLeft /\ ShownInOrder

\* sync_callback has not run on this image.
NotYetTracked == stage # "tracked" => selected = 0 /\ velocity = Zero

\* The inductive invariant of the image's way from the network to a velocity.
VisionInv == DetectInv /\ NotYetTracked /\ FollowsLargest /\ KeepsDistance /\ TurnsToTarget

\* A set of natural numbers that is not empty has a least one.
LEMMA Least ==
  ASSUME NEW S, S \subseteq Nat, S # {}
  PROVE  \E m \in S : \A k \in S : m <= k
<1>1. PICK m \in S : \A k \in S : <<k, m>> \notin OpToRel(<, Nat)
  BY WFMin, NatLessThanWellFounded, Zenon
<1>2. \A k \in S : ~(k < m)
  BY <1>1 DEF OpToRel
<1> QED
  BY <1>2

\* Min and Max of FiniteSetsExt exist where there is a bound.
LEMMA MinOf ==
  ASSUME NEW S, NEW a \in Int, S \subseteq Int, S # {}, \A x \in S : a <= x
  PROVE  Min(S) \in S /\ \A x \in S : Min(S) <= x
<1> DEFINE T == {k \in Nat : \E x \in S : k = x - a}
<1>1. PICK m \in T : \A k \in T : m <= k
  <2>1. T \subseteq Nat /\ T # {}
    <3>1. PICK x \in S : TRUE
      OBVIOUS
    <3>2. x - a \in T
      BY <3>1
    <3> QED
      BY <3>2
  <2> HIDE DEF T
  <2> QED
    BY <2>1, Least
<1>2. PICK x \in S : m = x - a
  OBVIOUS
<1>3. ASSUME NEW y \in S PROVE x <= y
  <2>1. y - a \in T
    BY <1>3
  <2>2. m <= y - a
    BY <1>1, <2>1
  <2> QED
    BY <1>2, <2>2
<1> QED
  BY <1>3 DEF Min

\* The same for Max and an upper bound.
LEMMA MaxOf ==
  ASSUME NEW S, NEW b \in Int, S \subseteq Int, S # {}, \A x \in S : x <= b
  PROVE  Max(S) \in S /\ \A x \in S : x <= Max(S)
<1> DEFINE T == {k \in Nat : \E x \in S : k = b - x}
<1>1. PICK m \in T : \A k \in T : m <= k
  <2>1. T \subseteq Nat /\ T # {}
    <3>1. PICK x \in S : TRUE
      OBVIOUS
    <3>2. b - x \in T
      BY <3>1
    <3> QED
      BY <3>2
  <2> HIDE DEF T
  <2> QED
    BY <2>1, Least
<1>2. PICK x \in S : m = b - x
  OBVIOUS
<1>3. ASSUME NEW y \in S PROVE y <= x
  <2>1. b - y \in T
    BY <1>3
  <2>2. m <= b - y
    BY <1>1, <2>1
  <2> QED
    BY <1>2, <2>2
<1> QED
  BY <1>3 DEF Max

\* Among some places of a list of integers, one holds the greatest.
LEMMA Greatest ==
  ASSUME NEW n \in Nat, NEW f, NEW S, S \subseteq 1 .. n, S # {}, \A i \in S : f[i] \in Int
  PROVE  \E i \in S : \A j \in S : f[j] <= f[i]
<1> DEFINE Good(m) == \E i \in S : i <= m /\ \A j \in S : j <= m => f[j] <= f[i]
           Bad     == {m \in 1 .. n : (\E i \in S : i <= m) /\ ~Good(m)}
<1>1. Bad = {}
  <2> SUFFICES ASSUME Bad # {} PROVE FALSE
    OBVIOUS
  <2>1. PICK m \in Bad : \A k \in Bad : m <= k
    <3>1. Bad \subseteq Nat
      OBVIOUS
    <3> HIDE DEF Bad
    <3> QED
      BY <3>1, Least
  <2>4. m \in 1 .. n
    OBVIOUS
  <2>2. CASE \E i \in S : i <= m - 1
    <3>1. m - 1 \in 1 .. n
      BY <2>2
    <3>2. m - 1 \notin Bad
      <4> HIDE DEF Bad
      <4> QED
        BY <2>1, <2>4
    <3>3. PICK i \in S : i <= m - 1 /\ \A j \in S : j <= m - 1 => f[j] <= f[i]
      BY <2>2, <3>1, <3>2
    <3>4. CASE m \in S /\ f[m] > f[i]
      <4>1. ASSUME NEW j \in S, j <= m PROVE f[j] <= f[m]
        <5>1. CASE j = m
          BY <5>1
        <5>2. CASE j # m
          BY <3>3, <3>4, <4>1, <5>2
        <5> QED
          BY <5>1, <5>2
      <4> QED
        BY <3>4, <4>1
    <3>5. CASE ~(m \in S /\ f[m] > f[i])
      <4>1. \A j \in S : j <= m => f[j] <= f[i]
        BY <3>3, <3>5
      <4> QED
        BY <3>3, <4>1
    <3> QED
      BY <3>4, <3>5
  <2>3. CASE ~\E i \in S : i <= m - 1
    <3>1. PICK i \in S : i <= m
      OBVIOUS
    <3>2. i = m /\ \A j \in S : j <= m => j = m
      BY <2>3, <3>1
    <3> QED
      BY <3>2
  <2> QED
    BY <2>2, <2>3
<1>2. PICK k \in S : TRUE
  OBVIOUS
<1>3. n \in 1 .. n /\ k <= n
  BY <1>2
<1>4. Good(n)
  BY <1>1, <1>2, <1>3
<1> QED
  BY <1>4

\* Whatever is multiplied and divided here stays an integer.
LEMMA IntegerQuotient ==
  ASSUME NEW a \in Int, NEW b \in Int, NEW c \in Nat \ {0}
  PROVE  a * b \in Int /\ (a * b) \div c \in Int
<1>1. a * b \in Int
  OBVIOUS
<1> QED
  BY <1>1

\* Products of coordinates are integers.
LEMMA IntegerProduct == \A a, b \in Int : a * b \in Int
OBVIOUS

\* The first best class exists.
LEMMA BestClassExists ==
  ASSUME NEW s \in Seq(Int), s # <<>>
  PROVE  BestClass(s) \in 1 .. Len(s)
<1> DEFINE S == 1 .. Len(s)
           G == {c \in S : \A d \in S : s[d] <= s[c]}
<1>1. Len(s) \in Nat /\ S # {} /\ S = DOMAIN s /\ \A i \in S : s[i] \in Int
  <2>1. Len(s) \in Nat /\ S = DOMAIN s
    OBVIOUS
  <2>2. Len(s) # 0
    OBVIOUS
  <2>3. 1 \in S
    BY <2>1, <2>2
  <2>4. \A i \in DOMAIN s : s[i] \in Int
    OBVIOUS
  <2> QED
    BY <2>1, <2>3, <2>4, Zenon
<1>2. G # {}
  BY <1>1, Greatest
<1>3. G \subseteq Nat
  OBVIOUS
<1>4. PICK c \in G : \A k \in G : c <= k
  <2> HIDE DEF G
  <2> QED
    BY <1>2, <1>3, Least
<1>5. ASSUME NEW d \in S PROVE s[d] < s[c] \/ (s[d] = s[c] /\ c <= d)
  <2>1. CASE d \in G
    BY <1>1, <1>4, <2>1
  <2>2. CASE d \notin G
    <3>1. PICK e \in S : ~(s[e] <= s[d])
      BY <2>2
    <3>2. s[e] <= s[c]
      BY <1>4
    <3> QED
      BY <1>1, <1>4, <3>1, <3>2
  <2> QED
    BY <2>1, <2>2
<1>6. BestClass(s) \in DOMAIN s
  BY <1>1, <1>4, <1>5 DEF BestClass
<1> QED
  BY <1>1, <1>6

\* process_float makes boxes of whole pixels, scored with one of the outputs.
LEMMA CandidateType ==
  ASSUME NEW c \in BusyCells, NEW out \in Outputs
  PROVE  Candidate(c, out) \in Box
<1>1. /\ c[1] \in 1 .. 3 /\ c[2] \in Nat /\ c[3] \in Nat
      /\ out.classes \in Seq(Int) /\ out.classes # <<>>
      /\ out.reach[1] \in Int /\ out.reach[2] \in Int /\ out.reach[3] \in Int /\ out.reach[4] \in Int
  BY OutputAssumption
<1>2. Strides[c[1]] \div 2 \in Int
  <2>1. Strides[c[1]] \in {8, 16, 32}
    BY <1>1 DEF Strides
  <2> QED
    BY <2>1
<1>3. BestClass(out.classes) \in Nat /\ out.classes[BestClass(out.classes)] \in Int
  BY <1>1, BestClassExists
<1> DEFINE half == Strides[c[1]] \div 2
           x == 2 * c[3] + 1
           y == 2 * c[2] + 1
<1>4. half \in Int /\ x \in Int /\ y \in Int
  <2>1. half \in Int
    BY <1>2, Zenon
  <2>2. \A k \in Nat : 2 * k + 1 \in Int
    OBVIOUS
  <2>3. x \in Int /\ y \in Int
    BY <1>1, <2>2, Zenon
  <2> QED
    BY <2>1, <2>3, Zenon
<1>5. /\ (x - out.reach[1]) * half \in Int /\ (y - out.reach[2]) * half \in Int
      /\ (x + out.reach[3]) * half \in Int /\ (y + out.reach[4]) * half \in Int
  <2>2. out.reach[1] \in Int /\ out.reach[2] \in Int /\ out.reach[3] \in Int /\ out.reach[4] \in Int
    BY <1>1
  <2> HIDE DEF half, x, y
  <2>3. \A u, w \in Int : u - w \in Int /\ u + w \in Int
    OBVIOUS
  <2>1. x - out.reach[1] \in Int /\ y - out.reach[2] \in Int /\ x + out.reach[3] \in Int /\ y + out.reach[4] \in Int
    BY <1>4, <2>2, <2>3, Zenon
  <2> QED
    BY <1>4, <2>1, IntegerProduct
<1> QED
  BY <1>3, <1>5 DEF Candidate, Box

\* Scaling a candidate to the source image.
LEMMA DetectionType ==
  ASSUME NEW c \in Box, source \in (Nat \ {0}) \X (Nat \ {0})
  PROVE  ToSource(c) \in Detection /\ ToSource(c).conf = c.score
<1>1. ModelWidth \in Nat \ {0} /\ ModelHeight \in Nat \ {0} /\ source[1] \in Nat \ {0} /\ source[2] \in Nat \ {0}
  BY SizeAssumption
<1>2. /\ Clamp(c.x1, ModelWidth) \in Int /\ Clamp(c.x2, ModelWidth) \in Int
      /\ Clamp(c.y1, ModelHeight) \in Int /\ Clamp(c.y2, ModelHeight) \in Int
  BY <1>1 DEF Clamp, Box
<1>3. /\ (Clamp(c.x1, ModelWidth) * source[1]) \div ModelWidth \in Int
      /\ (Clamp(c.x2, ModelWidth) * source[1]) \div ModelWidth \in Int
      /\ (Clamp(c.y1, ModelHeight) * source[2]) \div ModelHeight \in Int
      /\ (Clamp(c.y2, ModelHeight) * source[2]) \div ModelHeight \in Int
  BY <1>1, <1>2, IntegerQuotient
<1> QED
  BY <1>3 DEF ToSource, Box, Detection

\* The lesser and the greater of two.
LEMMA OfTwo ==
  ASSUME NEW x \in Int, NEW y \in Int
  PROVE  /\ Min({x, y}) = IF x <= y THEN x ELSE y
         /\ Max({x, y}) = IF x <= y THEN y ELSE x
<1>1. CASE x <= y
  <2>1. Min({x, y}) \in {x, y} /\ \A z \in {x, y} : Min({x, y}) <= z
    BY <1>1, MinOf
  <2>2. Max({x, y}) \in {x, y} /\ \A z \in {x, y} : z <= Max({x, y})
    BY <1>1, MaxOf
  <2> QED
    BY <1>1, <2>1, <2>2
<1>2. CASE y <= x /\ ~(x <= y)
  <2>1. Min({x, y}) \in {x, y} /\ \A z \in {x, y} : Min({x, y}) <= z
    BY <1>2, MinOf
  <2>2. Max({x, y}) \in {x, y} /\ \A z \in {x, y} : z <= Max({x, y})
    BY <1>2, MaxOf
  <2> QED
    BY <1>2, <2>1, <2>2
<1> QED
  BY <1>1, <1>2

\* Two ranges share a number of pixels, the same from either side.
LEMMA SharedType ==
  ASSUME NEW w \in Int, NEW x \in Int, NEW y \in Int, NEW z \in Int
  PROVE  Shared(w, x, y, z) \in Int /\ Shared(w, x, y, z) = Shared(y, z, w, x)
<1>1. Min({x, z}) \in Int /\ Max({w, y}) \in Int
  BY OfTwo
<1>2. Min({x, z}) - Max({w, y}) + 1 \in Int
  BY <1>1
<1>3. Max({0, Min({x, z}) - Max({w, y}) + 1}) \in Int
  <2>1. ASSUME NEW m \in Int PROVE Max({0, m}) \in Int
    <3>1. 0 \in Int
      OBVIOUS
    <3>2. Max({0, m}) = IF 0 <= m THEN m ELSE 0
      BY <3>1, OfTwo, Zenon
    <3> QED
      BY <3>1, <3>2, Zenon
  <2> QED
    BY <1>2, <2>1, Zenon
<1>4. {x, z} = {z, x} /\ {w, y} = {y, w}
  OBVIOUS
<1> QED
  BY <1>3, <1>4, Zenon DEF Shared

\* Overlap does not depend on which of two boxes comes first.
LEMMA OverlapIsMutual ==
  ASSUME NEW a \in Box, NEW b \in Box
  PROVE  Overlap(a, b) <=> Overlap(b, a)
<1> DEFINE area(c)     == (c.x2 - c.x1 + 1) * (c.y2 - c.y1 + 1)
           inter(p, q) == Shared(p.x1, p.x2, q.x1, q.x2) * Shared(p.y1, p.y2, q.y1, q.y2)
           all(p, q)   == area(p) + area(q) - inter(p, q)
<1>1. area(a) \in Int /\ area(b) \in Int
  <2>1. a.x2 - a.x1 + 1 \in Int /\ a.y2 - a.y1 + 1 \in Int /\ b.x2 - b.x1 + 1 \in Int /\ b.y2 - b.y1 + 1 \in Int
    BY DEF Box
  <2> QED
    BY <2>1, IntegerProduct
<1>2. /\ a.x1 \in Int /\ a.x2 \in Int /\ a.y1 \in Int /\ a.y2 \in Int
      /\ b.x1 \in Int /\ b.x2 \in Int /\ b.y1 \in Int /\ b.y2 \in Int
  BY DEF Box
<1>8. \A w, x, y, z \in Int : Shared(w, x, y, z) \in Int
  BY SharedType
<1>9. \A w, x, y, z \in Int : Shared(w, x, y, z) = Shared(y, z, w, x)
  BY SharedType
<1>3. Shared(a.x1, a.x2, b.x1, b.x2) \in Int /\ Shared(a.y1, a.y2, b.y1, b.y2) \in Int
  BY <1>2, <1>8
<1>4. Shared(a.x1, a.x2, b.x1, b.x2) = Shared(b.x1, b.x2, a.x1, a.x2)
  BY <1>2, <1>9
<1>10. Shared(a.y1, a.y2, b.y1, b.y2) = Shared(b.y1, b.y2, a.y1, a.y2)
  BY <1>2, <1>9
<1>5. inter(a, b) \in Int /\ inter(a, b) = inter(b, a)
  BY <1>3, <1>4, <1>10, IntegerProduct
<1>6. all(a, b) = all(b, a)
  <2> HIDE DEF inter, area
  <2> QED
    BY <1>1, <1>5
<1>7. \A p, q : Overlap(p, q) <=> all(p, q) > 0 /\ 100 * inter(p, q) > OverlapPercent * all(p, q)
  BY Zenon DEF Overlap
<1> HIDE DEF inter, all
<1> QED
  BY <1>5, <1>6, <1>7, Zenon

\* Where the first inner loop stops: at low, or at the last better entry.
LEMMA HighStop ==
  ASSUME NEW n \in Nat, NEW r \in [1 .. n -> Entry], NEW k \in Entry,
         NEW lo \in 1 .. n, NEW hi \in 1 .. n, lo <= hi
  PROVE  LET h == Max({lo} \cup {i \in lo + 1 .. hi : r[i].score > k.score})
         IN  /\ h \in lo .. hi /\ (h = lo \/ r[h].score > k.score)
             /\ \A i \in h + 1 .. hi : r[i].score <= k.score
<1> DEFINE H == {lo} \cup {i \in lo + 1 .. hi : r[i].score > k.score}
           h == Max(H)
<1>1. H \subseteq Int /\ H # {} /\ \A i \in H : i <= hi
  OBVIOUS
<1>2. h \in H /\ \A i \in H : i <= h
  <2>1. lo \in Int /\ hi \in Int
    OBVIOUS
  <2> HIDE DEF H
  <2> QED
    BY <1>1, <2>1, MaxOf
<1> HIDE DEF h
<1>3. h \in lo .. hi /\ (h = lo \/ r[h].score > k.score)
  BY <1>2
<1>4. ASSUME NEW i \in h + 1 .. hi PROVE r[i].score <= k.score
  <2>3. i \in lo + 1 .. hi /\ ~(i <= h)
    BY <1>3
  <2>1. i \notin H /\ i \in lo + 1 .. hi
    <3> HIDE DEF H
    <3> QED
      BY <1>2, <2>3
  <2>2. r[i].score \in Int /\ k.score \in Int
    <3>1. i \in 1 .. n
      BY <1>3, <2>1
    <3> QED
      BY <3>1 DEF Entry
  <2> QED
    BY <2>1, <2>2
<1> QED
  BY <1>3, <1>4 DEF h

\* Where the second inner loop stops: at high, or at the first worse entry.
LEMMA LowStop ==
  ASSUME NEW n \in Nat, NEW r \in [1 .. n -> Entry], NEW k \in Entry,
         NEW lo \in 1 .. n, NEW hi \in 1 .. n, lo <= hi
  PROVE  LET l == Min({hi} \cup {i \in lo .. hi - 1 : r[i].score < k.score})
         IN  /\ l \in lo .. hi /\ (l = hi \/ r[l].score < k.score)
             /\ \A i \in lo .. l - 1 : r[i].score >= k.score
<1> DEFINE L == {hi} \cup {i \in lo .. hi - 1 : r[i].score < k.score}
           l == Min(L)
<1>1. L \subseteq Int /\ L # {} /\ \A i \in L : lo <= i
  OBVIOUS
<1>2. l \in L /\ \A i \in L : l <= i
  <2>1. lo \in Int /\ hi \in Int
    OBVIOUS
  <2> HIDE DEF L
  <2> QED
    BY <1>1, <2>1, MinOf
<1> HIDE DEF l
<1>3. l \in lo .. hi /\ (l = hi \/ r[l].score < k.score)
  BY <1>2
<1>4. ASSUME NEW i \in lo .. l - 1 PROVE r[i].score >= k.score
  <2>3. i \in lo .. hi - 1 /\ ~(l <= i)
    BY <1>3
  <2>1. i \notin L /\ i \in lo .. hi - 1
    <3> HIDE DEF L
    <3> QED
      BY <1>2, <2>3
  <2>2. r[i].score \in Int /\ k.score \in Int
    <3>1. i \in 1 .. n
      BY <1>3, <2>1
    <3> QED
      BY <3>1 DEF Entry
  <2> QED
    BY <2>1, <2>2
<1> QED
  BY <1>3, <1>4 DEF l

\* The two inner loops of a turn stop at h and l: they take the list r to t and
\* v, and the list w with the key in its hole to u.
Stops(r, k, lo, h, l, t, v, w, u) ==
  /\ lo <= l /\ l <= h
  /\ h = lo \/ r[h].score > k.score
  /\ l = h \/ t[l].score < k.score
  /\ \A i \in lo .. l - 1 : t[i].score >= k.score
  /\ t = [r EXCEPT ![lo] = r[h]] /\ v = [t EXCEPT ![h] = t[l]]
  /\ w = [r EXCEPT ![lo] = k] /\ u = [v EXCEPT ![l] = k]

\* What a turn comes to: two entries have moved around the key, or none.
Moves(n, r, k, lo, h, l, v, w, u) ==
  /\ v \in [1 .. n -> Entry]
  /\ \A i \in lo .. l - 1 : v[i].score >= k.score
  /\ \A i \in 1 .. n : i < lo \/ i > h => v[i] = r[i]
  /\ \/ l = lo /\ u = w
     \/ /\ lo < l
        /\ u[lo] = w[h] /\ (l = h \/ u[h] = w[l]) /\ u[l] = w[lo]
        /\ \A i \in 1 .. n : i \notin {lo, h, l} => u[i] = w[i]

\* A turn of the partition's loop only moves entries.
LEMMA Turn ==
  ASSUME NEW n \in Nat, NEW r \in [1 .. n -> Entry], NEW k \in Entry,
         NEW lo \in 1 .. n, NEW h \in 1 .. n, NEW l \in 1 .. n, NEW t, NEW v, NEW w, NEW u,
         Stops(r, k, lo, h, l, t, v, w, u)
  PROVE  Moves(n, r, k, lo, h, l, v, w, u)
<1> USE DEF Stops
<1> SUFFICES /\ v \in [1 .. n -> Entry]
             /\ \A i \in lo .. l - 1 : v[i].score >= k.score
             /\ \A i \in 1 .. n : i < lo \/ i > h => v[i] = r[i]
             /\ \/ l = lo /\ u = w
                \/ /\ lo < l
                   /\ u[lo] = w[h] /\ (l = h \/ u[h] = w[l]) /\ u[l] = w[lo]
                   /\ \A i \in 1 .. n : i \notin {lo, h, l} => u[i] = w[i]
  BY DEF Moves
<1>1. lo \in 1 .. n /\ h \in 1 .. n /\ l \in 1 .. n /\ lo <= l /\ l <= h
  BY DEF Stops
<1>2. t \in [1 .. n -> Entry]
  BY <1>1
<1>3. v \in [1 .. n -> Entry]
  BY <1>1, <1>2
<1>4. \A i \in lo .. l - 1 : v[i].score >= k.score
  <2> TAKE i \in lo .. l - 1
  <2>1. i \in 1 .. n /\ i # h
    BY <1>1
  <2>2. v[i] = t[i]
    BY <1>2, <2>1
  <2> QED
    BY <2>2
<1>5. \A i \in 1 .. n : i < lo \/ i > h => v[i] = r[i]
  BY <1>1, <1>2
<1>6. CASE l = lo
  <2>1. h = lo
    <3> SUFFICES ASSUME h # lo PROVE FALSE
      OBVIOUS
    <3>1. t[l] = r[h] /\ l # h
      BY <1>1, <1>6
    <3>2. r[h].score \in Int /\ k.score \in Int
      BY <1>1 DEF Entry
    <3> QED
      BY <3>1, <3>2
  <2>2. t = r /\ v = r
    BY <1>2, <1>6, <2>1
  <2> QED
    BY <1>3, <1>4, <1>5, <1>6, <2>2
<1>7. CASE l # lo
  <2>1. lo < l /\ lo < h
    BY <1>1, <1>7
  <2>4. w[lo] = k /\ u[l] = k /\ w[h] = r[h] /\ w[l] = r[l]
    BY <1>1, <1>3, <2>1
  <2>5. t[lo] = r[h] /\ v[lo] = t[lo] /\ v[h] = t[l] /\ u[lo] = v[lo]
    BY <1>1, <1>2, <1>3, <2>1
  <2>6. l # h => u[h] = v[h] /\ t[l] = r[l]
    BY <1>1, <1>2, <1>3, <2>1
  <2>2. u[lo] = w[h] /\ (l = h \/ u[h] = w[l]) /\ u[l] = w[lo]
    BY <2>4, <2>5, <2>6
  <2>3. \A i \in 1 .. n : i \notin {lo, h, l} => u[i] = w[i]
    BY <1>1, <1>2, <1>3, <2>1
  <2> QED
    BY <1>3, <1>4, <1>5, <2>1, <2>2, <2>3
<1> QED
  BY <1>6, <1>7

\* process_float appends a typed box and touches nothing else.
LEMMA DecodeKeeps == DetectInv /\ Decode => DetectInv'
<1> SUFFICES ASSUME DetectInv, Decode PROVE DetectInv'
  OBVIOUS
<1>1. stage = "decode" /\ stage' = "decode" /\ candidates \in Seq(Box)
      /\ UNCHANGED <<source, sorting, ranking, sorted, place, detections>>
  BY DEF Decode, DetectInv, Types
<1>2. PICK c \in BusyCells, out \in Outputs :
        candidates' = IF Passes(out) THEN Append(candidates, Candidate(c, out)) ELSE candidates
  BY DEF Decode
<1>3. candidates' \in Seq(Box)
  <2>1. Candidate(c, out) \in Box
    BY CandidateType
  <2> QED
    BY <1>1, <1>2, <2>1
<1>4. Types'
  BY <1>1, <1>3 DEF DetectInv, Types
<1>5. ShownInOrder'
  BY <1>1 DEF DetectInv, ShownInOrder
<1> QED
  BY <1>1, <1>4, <1>5 DEF DetectInv, NoneIsLost, CallsAreApart, RestIsOrdered, PartitionIsHalfDone,
     RankingIsSorted, RemovedByTheLeft, Sorting

\* The list handed to quick_sort_indice_inverse is complete, and its first call
\* covers all of it.
LEMMA DecodedKeeps == DetectInv /\ Decoded => DetectInv'
<1> SUFFICES ASSUME DetectInv, Decoded PROVE DetectInv'
  OBVIOUS
<1>1. /\ stage = "decode" /\ stage' \in {"sort", "done"} /\ candidates \in Seq(Box) /\ candidates' = candidates
      /\ ranking' = [i \in DOMAIN candidates |-> [index |-> i, score |-> candidates[i].score]]
      /\ calls' = Calls(1, Count)
      /\ UNCHANGED <<source, candidates, sorted, place, detections>>
  BY DEF Decoded, DetectInv, Types, decoding, Count
<1>2. Count \in Nat /\ Count' = Count /\ DOMAIN candidates = 1 .. Count /\ Positions' = Positions
  BY <1>1 DEF Count, Positions
<1>3. ASSUME NEW i \in 1 .. Count PROVE candidates[i].score \in Int
  <2>1. candidates[i] \in Box
    BY <1>1 DEF Count
  <2> QED
    BY <2>1 DEF Box
<1>4. ranking' \in Seq(Entry) /\ Len(ranking') = Count
  <2>1. ranking' \in [1 .. Count -> Entry]
    BY <1>1, <1>2, <1>3 DEF Entry
  <2> QED
    BY <1>2, <2>1
<1>5. Types'
  BY <1>1, <1>4 DEF DetectInv, Types
<1>6. NoneIsLost'
  BY <1>1, <1>2, <1>4 DEF NoneIsLost, Complete, Whole, Positions
<1>7. CallsAreApart'
  BY <1>1, <1>2 DEF CallsAreApart, Calls, Span
<1>8. RestIsOrdered'
  <2> SUFFICES ASSUME NEW i \in Positions, NEW j \in Positions, i < j
               PROVE  \E c \in Open' : c.left <= i /\ j <= c.right
    BY <1>2 DEF RestIsOrdered
  <2>1. [left |-> 1, right |-> Count] \in Open'
    BY <1>1, <1>2 DEF Open, Calls, Positions
  <2> QED
    BY <1>2, <2>1 DEF Positions
<1>9. ShownInOrder'
  BY <1>1 DEF DetectInv, ShownInOrder
<1> QED
  BY <1>1, <1>5, <1>6, <1>7, <1>8, <1>9 DEF DetectInv, PartitionIsHalfDone, RankingIsSorted, RemovedByTheLeft

\* A call takes its key out of the list and starts with nothing moved.
LEMMA EnterKeeps == DetectInv /\ Enter => DetectInv'
<1> SUFFICES ASSUME DetectInv, Enter PROVE DetectInv'
  OBVIOUS
<1>1. /\ stage = "sort" /\ stage' = "partition" /\ candidates \in Seq(Box) /\ ranking \in Seq(Entry)
      /\ UNCHANGED <<source, candidates, ranking, sorted, place, detections>>
  BY DEF Enter, DetectInv, Types, decoding
<1>2. PICK c \in calls :
        /\ calls' = calls \ {c} /\ call' = c
        /\ low' = c.left /\ high' = c.right /\ key' = ranking[c.left]
  BY DEF Enter
<1>3. Count \in Nat /\ Count' = Count /\ Positions' = Positions /\ Len(ranking) = Count
  BY <1>1 DEF DetectInv, NoneIsLost, Complete, Sorting, Whole, Count, Positions
<1>4. c \in Span /\ calls \subseteq Span /\ \A d, e \in calls : d # e => Separate(d, e)
  BY <1>1, <1>2 DEF DetectInv, CallsAreApart, Sorting
<1>5. c.left \in 1 .. Count /\ c.right \in 1 .. Count /\ c.left < c.right
  BY <1>3, <1>4 DEF Span
<1>6. key' \in Entry
  BY <1>1, <1>2, <1>3, <1>5
<1>7. Whole' = Whole
  BY <1>1, <1>2, <1>3, <1>5 DEF Whole
<1>8. Open' = Open
  BY <1>1, <1>2 DEF Open
<1>9. Types' /\ ShownInOrder'
  BY <1>1, <1>3 DEF DetectInv, Types, ShownInOrder
<1>10. NoneIsLost'
  BY <1>1, <1>3, <1>7 DEF DetectInv, NoneIsLost, Sorting, Complete
<1>11. RestIsOrdered'
  BY <1>1, <1>3, <1>7, <1>8 DEF DetectInv, RestIsOrdered, Sorting
<1>12. CallsAreApart' /\ PartitionIsHalfDone'
  <2>1. Span' = Span
    BY <1>3 DEF Span
  <2>2. low' \in Nat /\ high' \in Nat /\ call'.left <= low' /\ low' <= high' /\ high' <= call'.right
    BY <1>2, <1>3, <1>5
  <2>3. call'.left .. low' - 1 = {} /\ high' + 1 .. call'.right = {}
    BY <1>2, <1>3, <1>5
  <2> QED
    BY <1>2, <1>4, <1>6, <2>1, <2>2, <2>3 DEF CallsAreApart, PartitionIsHalfDone
<1> QED
  BY <1>1, <1>9, <1>10, <1>11, <1>12 DEF DetectInv, RankingIsSorted, RemovedByTheLeft

\* A turn of the outer loop fills the hole and leaves another one behind it.
LEMMA SweepKeeps == DetectInv /\ Sweep => DetectInv'
<1> SUFFICES ASSUME DetectInv, Sweep PROVE DetectInv'
  OBVIOUS
<1> DEFINE h == Max({low} \cup {i \in low + 1 .. high : ranking[i].score > key.score})
           t == [ranking EXCEPT ![low] = ranking[h]]
           l == Min({h} \cup {i \in low .. h - 1 : t[i].score < key.score})
           v == [t EXCEPT ![h] = t[l]]
<1>1. /\ stage = "partition" /\ stage' = "partition" /\ low < high
      /\ ranking' = v /\ low' = l /\ high' = h
      /\ UNCHANGED <<source, candidates, calls, call, key, sorted, place, detections>>
  BY DEF Sweep, decoding
<1>2. candidates \in Seq(Box) /\ ranking \in Seq(Entry)
  BY DEF DetectInv, Types
<1>3. Complete(Whole) /\ Whole = [ranking EXCEPT ![low] = key]
  BY <1>1 DEF DetectInv, NoneIsLost, Sorting, Whole
<1>4. Count \in Nat /\ Count' = Count /\ Positions' = Positions /\ Positions = 1 .. Count /\ Len(ranking) = Count
  BY <1>1, <1>2, <1>3 DEF Complete, Count, Positions
<1>5. /\ call \in Span /\ \A c \in calls : Separate(c, call)
      /\ key \in Entry /\ low \in Nat /\ high \in Nat
      /\ call.left <= low /\ low <= high /\ high <= call.right
      /\ \A i \in call.left .. low - 1 : ranking[i].score >= key.score
      /\ \A i \in high + 1 .. call.right : ranking[i].score <= key.score
  BY <1>1 DEF DetectInv, PartitionIsHalfDone
<1>6. low \in 1 .. Count /\ high \in 1 .. Count /\ call.left \in 1 .. Count /\ call.right \in 1 .. Count
  BY <1>4, <1>5 DEF Span
<1>7. ranking \in [1 .. Count -> Entry]
  BY <1>2, <1>4
<1>8. /\ h \in low .. high /\ (h = low \/ ranking[h].score > key.score)
      /\ \A i \in h + 1 .. high : ranking[i].score <= key.score
  BY <1>4, <1>5, <1>6, <1>7, HighStop
<1> HIDE DEF h
<1>9. t \in [1 .. Count -> Entry] /\ h \in 1 .. Count /\ low <= h
  <2>1. h \in 1 .. Count /\ low <= h
    BY <1>4, <1>5, <1>6, <1>8
  <2> QED
    BY <1>7, <2>1
<1>10. /\ l \in low .. h /\ (l = h \/ t[l].score < key.score)
       /\ \A i \in low .. l - 1 : t[i].score >= key.score
  <2> HIDE DEF t
  <2> QED
    BY <1>4, <1>5, <1>6, <1>9, LowStop
<1> HIDE DEF l
<1>11. h \in low .. Count
  BY <1>4, <1>5, <1>6, <1>8
<1> DEFINE w == [ranking EXCEPT ![low] = key]
           u == [v EXCEPT ![l] = key]
<1>12. /\ v \in [1 .. Count -> Entry]
       /\ \A i \in low .. l - 1 : v[i].score >= key.score
       /\ \A i \in 1 .. Count : i < low \/ i > h => v[i] = ranking[i]
       /\ \/ l = low /\ u = w
          \/ /\ low < l
             /\ u[low] = w[h] /\ (l = h \/ u[h] = w[l]) /\ u[l] = w[low]
             /\ \A i \in 1 .. Count : i \notin {low, h, l} => u[i] = w[i]
  <2>1. t = [ranking EXCEPT ![low] = ranking[h]] /\ v = [t EXCEPT ![h] = t[l]]
    BY DEF t, v
  <2>2. w = [ranking EXCEPT ![low] = key] /\ u = [v EXCEPT ![l] = key]
    BY DEF w, u
  <2>3. l \in 1 .. Count /\ low <= l /\ l <= h
    BY <1>4, <1>6, <1>9, <1>10
  <2> HIDE DEF t, v, w, u
  <2>4. Stops(ranking, key, low, h, l, t, v, w, u)
    BY <1>8, <1>10, <2>1, <2>2, <2>3 DEF Stops
  <2>5. Moves(Count, ranking, key, low, h, l, v, w, u)
    BY <1>4, <1>5, <1>6, <1>7, <1>9, <2>3, <2>4, Turn
  <2> QED
    BY <2>5 DEF Moves
<1> HIDE DEF t, v
<1>13. Whole' = u /\ Whole = w
  BY <1>1, <1>3 DEF Whole
<1>14. u \in [1 .. Count -> Entry] /\ w \in [1 .. Count -> Entry]
  BY <1>5, <1>7, <1>12
<1> HIDE DEF u, w
\* Every entry comes from the range of the call if it is in it, else from its place.
<1>15. \A i \in Positions : \E j \in Positions :
          /\ u[i] = w[j]
          /\ i = j \/ (call.left <= i /\ i <= call.right /\ call.left <= j /\ j <= call.right)
  BY <1>4, <1>5, <1>6, <1>8, <1>10, <1>12
<1>16. \A j \in Positions : \E i \in Positions : u[i] = w[j]
  BY <1>4, <1>6, <1>8, <1>10, <1>12
<1>17. NoneIsLost'
  <2>1. Len(Whole') = Count'
    <3>1. u \in Seq(Entry) /\ Len(u) = Count
      BY <1>4, <1>14
    <3> QED
      BY <1>4, <1>13, <3>1
  <2>2. \A i \in Positions : w[i].index \in Positions /\ w[i].score = candidates[w[i].index].score
    BY <1>3, <1>13 DEF Complete
  <2>3. \A i \in Positions : u[i].index \in Positions /\ u[i].score = candidates[u[i].index].score
    BY <1>15, <2>2
  <2>4. \A k \in Positions : \E i \in Positions : w[i].index = k
    BY <1>3, <1>13 DEF Complete
  <2>5. \A k \in Positions : \E i \in Positions : u[i].index = k
    <3> TAKE k \in Positions
    <3>1. PICK j \in Positions : w[j].index = k
      BY <2>4
    <3>2. PICK i \in Positions : u[i] = w[j]
      BY <1>16
    <3> QED
      BY <3>1, <3>2
  <2> QED
    BY <1>1, <1>4, <1>13, <2>1, <2>3, <2>5 DEF NoneIsLost, Complete
<1>18. RestIsOrdered'
  <2>1. Open' = Open
    BY <1>1 DEF Open
  <2> SUFFICES ASSUME NEW i \in Positions, NEW j \in Positions, i < j,
                      \A c \in Open : ~(c.left <= i /\ j <= c.right)
               PROVE  u[i].score >= u[j].score
    BY <1>4, <1>13, <2>1 DEF RestIsOrdered
  <2>2. \A x, y \in Positions :
          x < y => \/ w[x].score >= w[y].score
                   \/ \E c \in Open : c.left <= x /\ y <= c.right
    BY <1>1, <1>13 DEF DetectInv, RestIsOrdered, Sorting
  <2>3. call \in Open /\ Open = calls \cup {call}
    BY <1>1 DEF Open
  <2>4. PICK x \in Positions :
          /\ u[i] = w[x]
          /\ i = x \/ (call.left <= i /\ i <= call.right /\ call.left <= x /\ x <= call.right)
    BY <1>15
  <2>5. PICK y \in Positions :
          /\ u[j] = w[y]
          /\ j = y \/ (call.left <= j /\ j <= call.right /\ call.left <= y /\ y <= call.right)
    BY <1>15
  <2>6. ~(call.left <= i /\ j <= call.right)
    BY <2>3
  <2>7. x < y
    BY <1>4, <1>6, <2>4, <2>5, <2>6
  <2>8. ASSUME NEW c \in Open, c.left <= x, y <= c.right PROVE FALSE
    <3>1. ~(c.left <= i /\ j <= c.right)
      OBVIOUS
    <3>2. CASE c = call
      BY <1>4, <1>6, <2>4, <2>5, <2>6, <2>8, <3>2
    <3>3. CASE c \in calls
      <4>1. c.right < call.left \/ call.right < c.left
        BY <1>5, <3>3 DEF Separate
      <4>2. c \in Span
        BY <1>1, <3>3 DEF DetectInv, CallsAreApart, Sorting
      <4>3. c.left \in Nat /\ c.right \in Nat
        BY <4>2 DEF Span
      <4> QED
        BY <1>4, <1>6, <2>4, <2>5, <2>8, <3>1, <4>1, <4>3
    <3> QED
      BY <2>3, <3>2, <3>3
  <2> QED
    BY <2>2, <2>4, <2>5, <2>7, <2>8
<1>19. PartitionIsHalfDone'
  <2>1. low' \in Nat /\ high' \in Nat /\ call.left <= low' /\ low' <= high' /\ high' <= call.right
    BY <1>1, <1>4, <1>5, <1>6, <1>8, <1>10
  <2>2. ASSUME NEW i \in call.left .. low' - 1 PROVE ranking'[i].score >= key.score
    BY <1>1, <1>4, <1>5, <1>6, <1>8, <1>10, <1>12, <2>1
  <2>3. ASSUME NEW i \in high' + 1 .. call.right PROVE ranking'[i].score <= key.score
    BY <1>1, <1>4, <1>5, <1>6, <1>8, <1>12, <2>1
  <2>4. Span' = Span
    BY <1>4 DEF Span
  <2> QED
    BY <1>1, <1>5, <2>1, <2>2, <2>3, <2>4 DEF PartitionIsHalfDone
<1>20. CallsAreApart'
  BY <1>1, <1>4 DEF DetectInv, CallsAreApart, Sorting, Span
<1>21. Types' /\ ShownInOrder'
  <2>1. ranking' \in Seq(Entry)
    BY <1>1, <1>4, <1>12
  <2> QED
    BY <1>1, <1>4, <2>1 DEF DetectInv, Types, ShownInOrder
<1> QED
  BY <1>1, <1>17, <1>18, <1>19, <1>20, <1>21 DEF DetectInv, RankingIsSorted, RemovedByTheLeft

\* The key stands between the two sides, so two entries in the wrong order are
\* both on one side, which one of the two calls covers.
LEMMA PutKeyKeeps == DetectInv /\ PutKey => DetectInv'
<1> SUFFICES ASSUME DetectInv, PutKey PROVE DetectInv'
  OBVIOUS
<1> DEFINE lower == Calls(call.left, low - 1)
           upper == Calls(low + 1, call.right)
<1>1. /\ stage = "partition" /\ stage' = "sort" /\ low >= high
      /\ ranking' = [ranking EXCEPT ![low] = key]
      /\ calls' = calls \cup lower \cup upper
      /\ UNCHANGED <<source, candidates, call, low, high, key, sorted, place, detections>>
  BY DEF PutKey, decoding
<1>2. candidates \in Seq(Box) /\ ranking \in Seq(Entry)
  BY DEF DetectInv, Types
<1>3. Complete(Whole) /\ Whole = ranking' /\ Whole' = ranking'
  BY <1>1 DEF DetectInv, NoneIsLost, Sorting, Whole
<1>4. Count \in Nat /\ Count' = Count /\ Positions' = Positions /\ Positions = 1 .. Count /\ Len(ranking) = Count
  BY <1>1, <1>2, <1>3 DEF Complete, Count, Positions
<1>5. /\ call \in Span /\ \A c \in calls : Separate(c, call)
      /\ key \in Entry /\ low \in Nat /\ high = low
      /\ call.left <= low /\ low <= call.right
      /\ \A i \in call.left .. low - 1 : ranking[i].score >= key.score
      /\ \A i \in low + 1 .. call.right : ranking[i].score <= key.score
  BY <1>1 DEF DetectInv, PartitionIsHalfDone
<1>6. low \in 1 .. Count /\ call.left \in 1 .. Count /\ call.right \in 1 .. Count
  BY <1>4, <1>5 DEF Span
<1>7. ranking' \in Seq(Entry)
  BY <1>1, <1>2, <1>4, <1>5, <1>6
<1>8. Types' /\ ShownInOrder'
  BY <1>1, <1>4, <1>7 DEF DetectInv, Types, ShownInOrder
<1>9. NoneIsLost'
  <2>1. Complete(Whole)'
    BY <1>1, <1>3, <1>4 DEF Complete
  <2> QED
    BY <2>1 DEF NoneIsLost
<1>10. /\ \A c \in lower : c \in Span /\ c.left = call.left /\ c.right = low - 1
       /\ \A c \in upper : c \in Span /\ c.left = low + 1 /\ c.right = call.right
       /\ \A c, d \in lower : c = d
       /\ \A c, d \in upper : c = d
  BY <1>4, <1>6 DEF Calls, Span
<1>11. CallsAreApart'
  <2>1. calls \subseteq Span /\ \A c, d \in calls : c # d => Separate(c, d)
    BY <1>1 DEF DetectInv, CallsAreApart, Sorting
  <2>2. Span' = Span
    BY <1>4 DEF Span
  <2>3. ASSUME NEW c \in calls, NEW d \in lower \cup upper PROVE Separate(c, d) /\ Separate(d, c)
    <3>1. c.right < call.left \/ call.right < c.left
      BY <1>5 DEF Separate
    <3>2. c.left \in Nat /\ c.right \in Nat
      BY <2>1 DEF Span
    <3>3. d.left \in Nat /\ d.right \in Nat /\ call.left <= d.left /\ d.right <= call.right
      <4>1. d.left \in Nat /\ d.right \in Nat
        BY <1>10 DEF Span
      <4>2. CASE d \in lower
        BY <1>5, <1>6, <1>10, <4>2
      <4>3. CASE d \in upper
        BY <1>5, <1>6, <1>10, <4>3
      <4> QED
        BY <4>1, <4>2, <4>3
    <3>4. c.left < c.right /\ d.left < d.right
      BY <1>10, <2>1 DEF Span
    <3> QED
      BY <1>6, <3>1, <3>2, <3>3 DEF Separate
  <2>4. ASSUME NEW c \in lower \cup upper, NEW d \in lower \cup upper, c # d PROVE Separate(c, d)
    <3>1. \/ c \in lower /\ d \in upper
          \/ c \in upper /\ d \in lower
      BY <1>10, <2>4
    <3> QED
      BY <1>6, <1>10, <3>1 DEF Separate
  <2>5. calls' \subseteq Span
    BY <1>1, <1>10, <2>1
  <2>6. ASSUME NEW c \in calls', NEW d \in calls', c # d PROVE Separate(c, d)
    <3>1. (c \in calls \/ c \in lower \cup upper) /\ (d \in calls \/ d \in lower \cup upper)
      BY <1>1
    <3> QED
      BY <2>1, <2>3, <2>4, <2>6, <3>1
  <2>7. \A c, d : Separate(c, d)' = Separate(c, d)
    BY DEF Separate
  <2> QED
    BY <2>2, <2>5, <2>6, <2>7 DEF CallsAreApart
<1>12. RestIsOrdered'
  <2>1. Open' = calls \cup lower \cup upper /\ Open = calls \cup {call}
    BY <1>1 DEF Open
  <2> SUFFICES ASSUME NEW i \in Positions, NEW j \in Positions, i < j
               PROVE  \/ ranking'[i].score >= ranking'[j].score
                      \/ \E c \in Open' : c.left <= i /\ j <= c.right
    BY <1>3, <1>4 DEF RestIsOrdered
  <2>2. \/ ranking'[i].score >= ranking'[j].score
        \/ \E c \in Open : c.left <= i /\ j <= c.right
    BY <1>1, <1>3 DEF DetectInv, RestIsOrdered, Sorting
  <2>3. CASE call.left <= i /\ j <= call.right
    <3>1. CASE j < low
      <4>1. [left |-> call.left, right |-> low - 1] \in lower
        BY <1>4, <1>6, <2>3, <3>1 DEF Calls
      <4> QED
        BY <1>4, <1>6, <2>1, <2>3, <3>1, <4>1
    <3>2. CASE low < i
      <4>1. [left |-> low + 1, right |-> call.right] \in upper
        BY <1>4, <1>6, <2>3, <3>2 DEF Calls
      <4> QED
        BY <1>4, <1>6, <2>1, <2>3, <3>2, <4>1
    <3>3. CASE i <= low /\ low <= j
      <4>1. ranking'[i].score \in Int /\ ranking'[j].score \in Int /\ key.score \in Int
        <5>1. ranking'[i] \in Entry /\ ranking'[j] \in Entry /\ key \in Entry
          BY <1>1, <1>2, <1>4, <1>5
        <5> QED
          BY <5>1 DEF Entry
      <4>2. ranking'[i].score >= key.score
        <5>1. CASE i = low
          BY <1>1, <1>2, <1>4, <4>1, <5>1
        <5>2. CASE i # low
          <6>1. i \in call.left .. low - 1 /\ ranking'[i] = ranking[i]
            BY <1>1, <1>2, <1>4, <1>6, <2>3, <3>3, <5>2
          <6> QED
            BY <1>5, <6>1
        <5> QED
          BY <5>1, <5>2
      <4>3. ranking'[j].score <= key.score
        <5>1. CASE j = low
          BY <1>1, <1>2, <1>4, <4>1, <5>1
        <5>2. CASE j # low
          <6>1. j \in low + 1 .. call.right /\ ranking'[j] = ranking[j]
            BY <1>1, <1>2, <1>4, <1>6, <2>3, <3>3, <5>2
          <6> QED
            BY <1>5, <6>1
        <5> QED
          BY <5>1, <5>2
      <4> QED
        BY <4>1, <4>2, <4>3
    <3> QED
      BY <1>4, <1>6, <3>1, <3>2, <3>3
  <2> QED
    BY <2>1, <2>2, <2>3
<1> QED
  BY <1>1, <1>8, <1>9, <1>11, <1>12 DEF DetectInv, PartitionIsHalfDone, RankingIsSorted, RemovedByTheLeft

\* Without a call left no two entries are in the wrong order.
LEMMA SortedKeeps == DetectInv /\ Sorted => DetectInv'
<1> SUFFICES ASSUME DetectInv, Sorted PROVE DetectInv'
  OBVIOUS
<1>1. /\ stage = "sort" /\ stage' = "suppress" /\ calls = {} /\ sorted' = ranking /\ ranking' = ranking
      /\ UNCHANGED <<source, candidates, place, detections>>
  BY DEF Sorted, decoding
<1>2. candidates \in Seq(Box) /\ ranking \in Seq(Entry) /\ place = 1
  BY <1>1 DEF DetectInv, Types, ShownInOrder
<1>3. Complete(ranking) /\ Count' = Count /\ Positions' = Positions
  BY <1>1 DEF DetectInv, NoneIsLost, Sorting, Whole, Count, Positions
<1>4. \A i, j \in Positions : i < j => ranking[i].score >= ranking[j].score
  BY <1>1 DEF DetectInv, RestIsOrdered, Sorting, Open, Whole
<1>5. Types' /\ ShownInOrder'
  BY <1>1, <1>2 DEF DetectInv, Types, ShownInOrder
<1>6. RankingIsSorted'
  BY <1>1, <1>3, <1>4 DEF RankingIsSorted, Complete
<1>7. RemovedByTheLeft'
  <2>1. Judged' = {}
    BY <1>1, <1>2, <1>3 DEF Judged, Positions
  <2>2. \A j \in Positions : ranking[j].index # 0
    BY <1>3 DEF Complete, Positions
  <2> QED
    BY <1>1, <1>3, <2>1, <2>2 DEF RemovedByTheLeft
<1> QED
  BY <1>1, <1>5, <1>6, <1>7 DEF DetectInv, NoneIsLost, CallsAreApart, RestIsOrdered, PartitionIsHalfDone, Sorting

\* A box that is left removes the later ones it overlaps, and nothing removes it
\* any more.
LEMMA SuppressKeeps == DetectInv /\ Suppress => DetectInv'
<1> SUFFICES ASSUME DetectInv, Suppress PROVE DetectInv'
  OBVIOUS
<1>1. /\ stage = "suppress"
      /\ UNCHANGED <<source, candidates, sorted, detections>>
  BY DEF Suppress, decoding
<1>2. candidates \in Seq(Box) /\ ranking \in Seq(Entry) /\ sorted \in Seq(Entry) /\ place \in Nat \ {0}
  BY DEF DetectInv, Types
<1>3. /\ Complete(sorted) /\ Len(ranking) = Count
      /\ \A i, j \in Positions : i < j => sorted[i].score >= sorted[j].score
      /\ \A i \in Positions : ranking[i].score = sorted[i].score /\ ranking[i].index \in {0, sorted[i].index}
  BY <1>1 DEF DetectInv, RankingIsSorted
<1>4. Count \in Nat /\ Count' = Count /\ Positions' = Positions /\ Positions = 1 .. Count
  BY <1>1, <1>2 DEF Count, Positions
<1>5. /\ \A i \in Judged, j \in Positions :
           i < j /\ ranking[i].index # 0 /\ ranking[j].index # 0 => ~Overlaps(i, j)
      /\ \A j \in Positions : ranking[j].index = 0 =>
           \E i \in Judged : i < j /\ ranking[i].index # 0 /\ Overlaps(i, j)
  BY <1>1 DEF DetectInv, RemovedByTheLeft
<1>6. Judged = {i \in Positions : i < place} /\ \A i, j : Overlaps(i, j)' = Overlaps(i, j)
  BY <1>1 DEF Judged, Overlaps, Overlap, Shared
<1>7. CASE place <= Len(ranking)
  <2>1. /\ ranking' =
             [j \in DOMAIN ranking |->
                IF /\ j > place /\ ranking[place].index # 0 /\ ranking[j].index # 0
                   /\ Overlap(candidates[ranking[place].index], candidates[ranking[j].index])
                THEN [ranking[j] EXCEPT !.index = 0] ELSE ranking[j]]
        /\ place' = place + 1 /\ stage' = stage
    BY <1>7 DEF Suppress
  <2>2. place \in Positions /\ DOMAIN ranking = Positions
    BY <1>2, <1>3, <1>4, <1>7
  <2>3. ASSUME NEW j \in Positions
        PROVE  /\ ranking'[j] \in Entry /\ ranking'[j].score = ranking[j].score
               /\ IF j > place /\ ranking[place].index # 0 /\ ranking[j].index # 0 /\ Overlaps(place, j)
                  THEN ranking'[j].index = 0 ELSE ranking'[j] = ranking[j]
    <3>1. ranking[j] \in Entry
      BY <1>2, <2>2
    <3>2. /\ ranking[place].index # 0 => ranking[place].index = sorted[place].index
          /\ ranking[j].index # 0 => ranking[j].index = sorted[j].index
      BY <1>3, <2>2
    <3> QED
      BY <2>1, <2>2, <3>1, <3>2 DEF Entry, Overlaps
  <2>4. ranking' \in Seq(Entry) /\ Len(ranking') = Count
    <3>1. ranking' \in [1 .. Count -> Entry]
      BY <1>4, <2>1, <2>2, <2>3
    <3> QED
      BY <1>4, <3>1
  <2>5. Judged' = Judged \cup {place} /\ place \notin Judged
    BY <1>1, <1>2, <1>4, <1>6, <2>1, <2>2 DEF Judged
  <2>6. Types' /\ ShownInOrder'
    BY <1>1, <1>2, <2>1, <2>4 DEF DetectInv, Types, ShownInOrder
  <2>7. RankingIsSorted'
    <3>1. \A i \in Positions : ranking'[i].score = sorted[i].score /\ ranking'[i].index \in {0, sorted[i].index}
      BY <1>3, <2>3
    <3>2. Complete(sorted)'
      BY <1>1, <1>3, <1>4 DEF Complete
    <3> QED
      BY <1>1, <1>3, <1>4, <2>4, <3>1, <3>2 DEF RankingIsSorted
  <2>8. \A i \in Judged' : ranking'[i] = ranking[i]
    BY <1>2, <1>4, <1>6, <2>2, <2>3, <2>5
  <2>9. ASSUME NEW i \in Judged', NEW j \in Positions, i < j, ranking'[i].index # 0, ranking'[j].index # 0
        PROVE  ~Overlaps(i, j)
    <3>1. ranking'[j] = ranking[j] /\ ranking'[i] = ranking[i]
      BY <2>3, <2>8, <2>9
    <3>2. CASE i \in Judged
      BY <1>5, <2>9, <3>1, <3>2
    <3>3. CASE i = place
      BY <1>2, <1>4, <2>3, <2>9, <3>1, <3>3
    <3> QED
      BY <2>5, <3>2, <3>3
  <2>10. ASSUME NEW j \in Positions, ranking'[j].index = 0
         PROVE  \E i \in Judged' : i < j /\ ranking'[i].index # 0 /\ Overlaps(i, j)
    <3>1. CASE ranking[j].index = 0
      <4>1. PICK i \in Judged : i < j /\ ranking[i].index # 0 /\ Overlaps(i, j)
        BY <1>5, <3>1
      <4> QED
        BY <2>5, <2>8, <4>1
    <3>2. CASE ranking[j].index # 0
      <4>1. j > place /\ ranking[place].index # 0 /\ Overlaps(place, j)
        BY <2>3, <2>10, <3>2
      <4> QED
        BY <1>2, <1>4, <2>2, <2>5, <2>8, <4>1
    <3> QED
      BY <3>1, <3>2
  <2>11. RemovedByTheLeft'
    BY <1>4, <1>6, <2>9, <2>10 DEF RemovedByTheLeft
  <2> QED
    BY <1>1, <2>1, <2>6, <2>7, <2>11 DEF DetectInv, NoneIsLost, CallsAreApart, RestIsOrdered,
       PartitionIsHalfDone, Sorting
<1>8. CASE ~(place <= Len(ranking))
  <2>1. stage' = "emit" /\ place' = 1 /\ ranking' = ranking
    BY <1>8 DEF Suppress
  <2>2. Judged' = Judged
    <3>1. Judged' = Positions
      BY <1>4, <2>1 DEF Judged
    <3>2. \A i \in Positions : i < place
      BY <1>2, <1>3, <1>4, <1>8
    <3> QED
      BY <1>6, <3>1, <3>2
  <2>3. Types' /\ ShownInOrder'
    BY <1>1, <1>2, <2>1 DEF DetectInv, Types, ShownInOrder
  <2>4. RankingIsSorted'
    BY <1>1, <1>3, <1>4, <2>1 DEF RankingIsSorted, Complete
  <2>5. RemovedByTheLeft'
    BY <1>4, <1>5, <1>6, <2>1, <2>2 DEF RemovedByTheLeft
  <2> QED
    BY <1>1, <2>1, <2>3, <2>4, <2>5 DEF DetectInv, NoneIsLost, CallsAreApart, RestIsOrdered,
       PartitionIsHalfDone, Sorting
<1> QED
  BY <1>7, <1>8

\* Detections are appended in the order of the list.
LEMMA EmitKeeps == DetectInv /\ Emit => DetectInv'
<1> SUFFICES ASSUME DetectInv, Emit PROVE DetectInv'
  OBVIOUS
<1>1. /\ stage = "emit" /\ stage' \in {"emit", "done"}
      /\ UNCHANGED <<source, candidates, sorted, ranking>>
  BY DEF Emit, decoding
<1>2. /\ source \in (Nat \ {0}) \X (Nat \ {0}) /\ candidates \in Seq(Box) /\ ranking \in Seq(Entry)
      /\ sorted \in Seq(Entry) /\ place \in Nat \ {0} /\ detections \in Seq(Detection)
  BY DEF DetectInv, Types
<1>3. /\ Complete(sorted) /\ Len(ranking) = Count
      /\ \A i, j \in Positions : i < j => sorted[i].score >= sorted[j].score
      /\ \A i \in Positions : ranking[i].score = sorted[i].score /\ ranking[i].index \in {0, sorted[i].index}
  BY <1>1 DEF DetectInv, RankingIsSorted
<1>4. Count \in Nat /\ Count' = Count /\ Positions' = Positions /\ Positions = 1 .. Count
  BY <1>1, <1>2 DEF Count, Positions
<1>5. /\ \A i, j \in DOMAIN detections : i < j => detections[i].conf >= detections[j].conf
      /\ \A i \in DOMAIN detections, j \in Positions : place <= j => detections[i].conf >= sorted[j].score
  BY <1>1 DEF DetectInv, ShownInOrder
<1>6. RankingIsSorted' /\ RemovedByTheLeft'
  <2>1. Complete(sorted)'
    BY <1>1, <1>3, <1>4 DEF Complete
  <2>2. Judged' = Judged /\ \A i, j : Overlaps(i, j)' = Overlaps(i, j)
    BY <1>1, <1>4 DEF Judged, Overlaps, Overlap, Shared
  <2> QED
    BY <1>1, <1>4, <2>1, <2>2 DEF DetectInv, RankingIsSorted, RemovedByTheLeft
<1>7. CASE place <= Limit /\ place <= Len(ranking)
  <2> DEFINE r == ranking[place]
             d == ToSource(candidates[r.index])
  <2>1. /\ detections' = IF r.index # 0 /\ r.score >= Threshold THEN Append(detections, d) ELSE detections
        /\ place' = place + 1
    BY <1>7 DEF Emit
  <2>2. place \in Positions
    BY <1>2, <1>3, <1>4, <1>7
  <2>3. CASE detections' = detections
    <3>1. \A i \in DOMAIN detections, j \in Positions : place' <= j => detections[i].conf >= sorted[j].score
      BY <1>2, <1>4, <1>5, <2>1
    <3>2. ShownInOrder'
      BY <1>1, <1>4, <1>5, <2>3, <3>1 DEF ShownInOrder
    <3>3. Types'
      BY <1>1, <1>2, <2>1, <2>3 DEF Types
    <3> QED
      BY <1>1, <1>6, <3>2, <3>3 DEF DetectInv, NoneIsLost, CallsAreApart, RestIsOrdered, PartitionIsHalfDone, Sorting
  <2>4. CASE r.index # 0 /\ detections' = Append(detections, d)
    <3>1. r.index = sorted[place].index /\ sorted[place].index \in Positions
      BY <1>3, <2>2, <2>4 DEF Complete
    <3>2. candidates[r.index] \in Box
      BY <1>2, <1>4, <3>1 DEF Count
    <3>3. d \in Detection /\ d.conf = sorted[place].score
      <4>1. d \in Detection /\ d.conf = candidates[r.index].score
        BY <1>2, <3>2, DetectionType
      <4> QED
        BY <1>3, <2>2, <3>1, <4>1 DEF Complete
    <3> HIDE DEF d, r
    <3>4. detections' \in Seq(Detection) /\ Len(detections') = Len(detections) + 1
      BY <1>2, <2>4, <3>3
    <3>5. \A i \in DOMAIN detections' :
            \/ i \in DOMAIN detections /\ detections'[i] = detections[i]
            \/ i = Len(detections) + 1 /\ detections'[i] = d
      BY <1>2, <2>4, <3>3
    <3>6. ASSUME NEW i \in DOMAIN detections', NEW j \in DOMAIN detections', i < j
          PROVE  detections'[i].conf >= detections'[j].conf
      <4>1. i \in DOMAIN detections /\ detections'[i] = detections[i]
        BY <1>2, <3>4, <3>5, <3>6
      <4>2. CASE j \in DOMAIN detections /\ detections'[j] = detections[j]
        BY <1>5, <3>6, <4>1, <4>2
      <4>3. CASE detections'[j] = d
        BY <1>2, <1>4, <1>5, <2>2, <3>3, <4>1, <4>3
      <4> QED
        BY <3>5, <4>2, <4>3
    <3>7. ASSUME NEW i \in DOMAIN detections', NEW j \in Positions, place' <= j
          PROVE  detections'[i].conf >= sorted[j].score
      <4>1. place < j /\ place <= j
        BY <1>2, <1>4, <2>1, <3>7
      <4>2. CASE i \in DOMAIN detections /\ detections'[i] = detections[i]
        BY <1>5, <4>1, <4>2
      <4>3. CASE detections'[i] = d
        BY <1>3, <2>2, <3>3, <4>1, <4>3
      <4> QED
        BY <3>5, <4>2, <4>3
    <3>8. ShownInOrder'
      BY <1>1, <1>4, <3>6, <3>7 DEF ShownInOrder
    <3>9. Types'
      BY <1>1, <1>2, <2>1, <3>4 DEF Types
    <3> QED
      BY <1>1, <1>6, <3>8, <3>9 DEF DetectInv, NoneIsLost, CallsAreApart, RestIsOrdered, PartitionIsHalfDone, Sorting
  <2> QED
    BY <2>1, <2>3, <2>4
<1>8. CASE ~(place <= Limit /\ place <= Len(ranking))
  <2>1. stage' = "done" /\ UNCHANGED <<place, detections>>
    BY <1>8 DEF Emit
  <2>2. Types' /\ ShownInOrder'
    BY <1>1, <1>2, <1>5, <2>1 DEF Types, ShownInOrder
  <2> QED
    BY <1>1, <1>6, <2>1, <2>2 DEF DetectInv, NoneIsLost, CallsAreApart, RestIsOrdered, PartitionIsHalfDone, Sorting
<1> QED
  BY <1>7, <1>8

\* What truncation takes away is less than the divisor.
LEMMA Truncation ==
  ASSUME NEW a \in Int, NEW c \in Nat \ {0}
  PROVE  a \div c \in Int /\ c * (a \div c) <= a /\ a < c * (a \div c) + c
OBVIOUS

\* A factor that is not negative keeps a sign.
LEMMA KeepsSign ==
  ASSUME NEW a \in Nat, NEW b \in Int
  PROVE  a * b \in Int /\ (b <= 0 => a * b <= 0) /\ (b >= 0 => a * b >= 0)
OBVIOUS

\* The symmetric limit keeps a sign as well.
LEMMA LimitedSign ==
  ASSUME NEW v \in Int, NEW m \in Nat
  PROVE  Limited(v, m) \in Int /\ (v <= 0 => Limited(v, m) <= 0) /\ (v >= 0 => Limited(v, m) >= 0)
<1>1. Min({m, v}) = IF m <= v THEN m ELSE v
  BY OfTwo
<1>2. -m \in Int /\ Min({m, v}) \in Int
  BY <1>1
<1>3. Max({-m, Min({m, v})}) = IF -m <= Min({m, v}) THEN Min({m, v}) ELSE -m
  <2> DEFINE x == -m
             y == Min({m, v})
  <2>1. x \in Int /\ y \in Int
    BY <1>2
  <2> HIDE DEF x, y
  <2>2. Max({x, y}) = IF x <= y THEN y ELSE x
    BY <2>1, OfTwo
  <2> QED
    BY <2>2 DEF x, y
<1> QED
  BY <1>1, <1>2, <1>3 DEF Limited

\* logical_box of a detection has an integer area.
LEMMA AreaType ==
  ASSUME NEW d \in Detection, source \in (Nat \ {0}) \X (Nat \ {0})
  PROVE  Area(d) \in Int
<1>1. source[1] \in Nat \ {0} /\ source[2] \in Nat \ {0} /\ LogicalWidth \in Int /\ LogicalHeight \in Int
  BY ImageAssumption
<1>2. d.x1 \in Int /\ d.x2 \in Int /\ d.y1 \in Int /\ d.y2 \in Int
  BY DEF Detection
<1>3. /\ (d.x1 * LogicalWidth) \div source[1] \in Int /\ (d.x2 * LogicalWidth) \div source[1] \in Int
      /\ (d.y1 * LogicalHeight) \div source[2] \in Int /\ (d.y2 * LogicalHeight) \div source[2] \in Int
  BY <1>1, <1>2, IntegerQuotient
<1>4. LogicalBox(d).width \in Int /\ LogicalBox(d).height \in Int
  BY <1>3 DEF LogicalBox
<1> QED
  BY <1>4, IntegerProduct DEF Area

\* select_target takes the first of the largest eligible detections, if any.
LEMMA SelectTargetIsLargest ==
  ASSUME NEW list \in Seq(Detection), source \in (Nat \ {0}) \X (Nat \ {0}), SelectTarget(list) # 0
  PROVE  /\ SelectTarget(list) \in DOMAIN list
         /\ \A i \in DOMAIN list : Eligible(list[i]) =>
              /\ Area(list[i]) <= Area(list[SelectTarget(list)])
              /\ Area(list[i]) = Area(list[SelectTarget(list)]) => SelectTarget(list) <= i
<1> DEFINE choices == {i \in DOMAIN list : Eligible(list[i])}
           largest == {i \in choices : \A j \in choices : Area(list[j]) <= Area(list[i])}
           f == [i \in DOMAIN list |-> Area(list[i])]
<1>1. choices # {} /\ SelectTarget(list) = Min(largest)
  BY DEF SelectTarget
<1>2. Len(list) \in Nat /\ DOMAIN list = 1 .. Len(list) /\ choices \subseteq 1 .. Len(list)
  OBVIOUS
<1>3. \A i \in DOMAIN list : f[i] \in Int /\ f[i] = Area(list[i])
  BY AreaType
<1>4. largest # {}
  <2> HIDE DEF f
  <2>1. \A i \in choices : f[i] \in Int /\ f[i] = Area(list[i])
    BY <1>3
  <2> HIDE DEF choices
  <2>2. \E i \in choices : \A j \in choices : f[j] <= f[i]
    BY <1>1, <1>2, <2>1, Greatest
  <2> QED
    BY <2>1, <2>2
<1>5. largest \subseteq Int /\ \A i \in largest : 1 <= i
  BY <1>2
<1>6. Min(largest) \in largest /\ \A i \in largest : Min(largest) <= i
  <2> HIDE DEF largest
  <2>1. 1 \in Int
    OBVIOUS
  <2> QED
    BY <1>4, <1>5, <2>1, MinOf
<1> DEFINE s == SelectTarget(list)
<1>7. s \in largest /\ \A i \in largest : s <= i
  BY <1>1, <1>6
<1>8. s \in choices /\ \A j \in choices : Area(list[j]) <= Area(list[s])
  BY <1>7
<1>9. ASSUME NEW i \in choices, Area(list[i]) = Area(list[s]) PROVE s <= i
  <2>1. i \in largest
    BY <1>8, <1>9
  <2> QED
    BY <1>7, <2>1
<1> QED
  BY <1>8, <1>9

\* linear_command has the sign of the distance's error.
LEMMA LinearSign ==
  ASSUME NEW r \in Nat
  PROVE  /\ LinearCommand(r) \in Int
         /\ LinearCommand(r) > 0 => r > KeepDistance
         /\ LinearCommand(r) < 0 => r < KeepDistance
<1>1. /\ MinimumRange \in Nat /\ MaximumRange \in Nat /\ KeepDistance \in Nat
      /\ LinearGain \in Nat /\ MaximumSpeed \in Nat
  BY MotionAssumption
<1> DEFINE error == r - KeepDistance
           raw   == LinearGain * error
<1>2. error \in Int
  BY <1>1
<1>3. raw \in Int /\ (error <= 0 => raw <= 0) /\ (error >= 0 => raw >= 0)
  <2> HIDE DEF error
  <2> QED
    BY <1>1, <1>2, KeepsSign
<1>4. /\ Limited(raw, MaximumSpeed) \in Int
      /\ raw <= 0 => Limited(raw, MaximumSpeed) <= 0
      /\ raw >= 0 => Limited(raw, MaximumSpeed) >= 0
  <2> HIDE DEF raw
  <2> QED
    BY <1>1, <1>3, LimitedSign
<1>5. LinearCommand(r) = 0 \/ LinearCommand(r) = Limited(raw, MaximumSpeed)
  BY DEF LinearCommand
<1> HIDE DEF raw
<1> QED
  BY <1>1, <1>2, <1>3, <1>4, <1>5

\* angular_command of the truncated centre has the sign of the true error, up
\* to a logical pixel to the right.
LEMMA AngularSign ==
  ASSUME NEW d \in Detection, source \in (Nat \ {0}) \X (Nat \ {0})
  PROVE  LET centre == (d.x1 + d.x2) * LogicalWidth
             middle == LogicalWidth * source[1]
         IN  /\ AngularCommand(d) < 0 => centre > middle
             /\ AngularCommand(d) > 0 => centre < middle + 2 * source[1]
<1> DEFINE s  == source[1]
           w  == LogicalWidth
           a  == (d.x1 * w) \div s
           b  == (d.x2 * w) \div s
           error == w - (a + b)
           raw   == AngularGain * error
<1>1. s \in Nat \ {0} /\ w \in Nat \ {0} /\ d.x1 \in Int /\ d.x2 \in Int
  BY ImageAssumption DEF Detection
<1>2. d.x1 * w \in Int /\ d.x2 * w \in Int
  BY <1>1, IntegerProduct
<1>3. /\ a \in Int /\ s * a <= d.x1 * w /\ d.x1 * w < s * a + s
      /\ b \in Int /\ s * b <= d.x2 * w /\ d.x2 * w < s * b + s
  BY <1>1, <1>2, Truncation
<1>4. AngularGain \in Nat /\ MaximumAngular \in Nat
  BY MotionAssumption
<1>5. AngularCommand(d) = Limited(raw, MaximumAngular)
  <2>1. w - (2 * a + (b - a)) = error
    BY <1>1, <1>3
  <2> QED
    BY <2>1 DEF AngularCommand, LogicalBox
<1> HIDE DEF a, b, s, w
<1>6. error \in Int
  BY <1>1, <1>3
<1>7. raw \in Int /\ (error <= 0 => raw <= 0) /\ (error >= 0 => raw >= 0)
  <2> HIDE DEF error
  <2> QED
    BY <1>4, <1>6, KeepsSign
<1>8. /\ Limited(raw, MaximumAngular) \in Int
      /\ raw <= 0 => Limited(raw, MaximumAngular) <= 0
      /\ raw >= 0 => Limited(raw, MaximumAngular) >= 0
  <2> HIDE DEF raw
  <2> QED
    BY <1>4, <1>7, LimitedSign
<1>9. (d.x1 + d.x2) * w = d.x1 * w + d.x2 * w
  BY <1>1
<1>10. s * a + s * b = s * (a + b)
  BY <1>1, <1>3
<1>11. ASSUME AngularCommand(d) < 0 PROVE (d.x1 + d.x2) * w > w * s
  <2>1. error < 0
    BY <1>5, <1>6, <1>7, <1>8, <1>11
  <2>2. a + b >= w + 1
    BY <1>1, <1>3, <2>1
  <2>3. s * (a + b) >= s * (w + 1)
    BY <1>1, <1>3, <2>2
  <2>4. s * (w + 1) = w * s + s
    BY <1>1
  <2> QED
    BY <1>1, <1>2, <1>3, <1>9, <1>10, <2>3, <2>4
<1>12. ASSUME AngularCommand(d) > 0 PROVE (d.x1 + d.x2) * w < w * s + 2 * s
  <2>1. error > 0
    BY <1>5, <1>6, <1>7, <1>8, <1>12
  <2>2. a + b <= w - 1
    BY <1>1, <1>3, <2>1
  <2>3. s * (a + b) <= s * (w - 1)
    BY <1>1, <1>3, <2>2
  <2>4. s * (w - 1) = w * s - s
    BY <1>1
  <2> QED
    BY <1>1, <1>2, <1>3, <1>9, <1>10, <2>3, <2>4
<1> QED
  BY <1>11, <1>12 DEF s, w

\* sync_callback follows the largest detection and moves by its nearest range.
LEMMA TrackKeeps ==
  ASSUME VisionInv, NEW n \in Nat, NEW beams \in kSubset(n, Beams), Track(beams)
  PROVE  VisionInv'
<1>1. /\ stage = "done" /\ stage' = "tracked"
      /\ selected' = SelectTarget(detections) /\ scan' = beams /\ projected' = Project(beams)
      /\ velocity' = IF selected' = 0 THEN Zero
                     ELSE LET d == detections[selected']
                          IN  IF NearestRange(d) = {} THEN Zero
                              ELSE [linear  |-> LinearCommand(Min(NearestRange(d))),
                                    angular |-> AngularCommand(d)]
      /\ UNCHANGED <<source, candidates, ranking, sorted, place, detections>>
  BY DEF Track, decoding
<1>2. /\ source \in (Nat \ {0}) \X (Nat \ {0}) /\ detections \in Seq(Detection)
      /\ \A i, j \in DOMAIN detections : i < j => detections[i].conf >= detections[j].conf
  BY DEF VisionInv, DetectInv, Types, ShownInOrder
<1>3. DetectInv'
  BY <1>1 DEF VisionInv, DetectInv, Types, NoneIsLost, CallsAreApart, RestIsOrdered, PartitionIsHalfDone,
     RankingIsSorted, RemovedByTheLeft, ShownInOrder, Sorting
<1>4. NotYetTracked'
  BY <1>1 DEF NotYetTracked
<1>5. selected' # 0 =>
        /\ selected' \in DOMAIN detections
        /\ \A i \in DOMAIN detections : Eligible(detections[i]) =>
             /\ Area(detections[i]) <= Area(detections[selected'])
             /\ Area(detections[i]) = Area(detections[selected']) => selected' <= i
  BY <1>1, <1>2, SelectTargetIsLargest
<1>6. FollowsLargest'
  <2> SUFFICES ASSUME selected' # 0, NEW i \in DOMAIN detections, Eligible(detections[i])
               PROVE  /\ Area(detections[i]) <= Area(detections[selected'])
                      /\ Area(detections[i]) = Area(detections[selected'])
                           => detections[i].conf <= detections[selected'].conf
    BY <1>1 DEF FollowsLargest, Eligible, Area, LogicalBox
  <2>1. selected' = i \/ selected' < i \/ ~(selected' <= i)
    BY <1>2, <1>5
  <2>2. detections[i].conf \in Int /\ detections[selected'].conf \in Int
    <3>1. detections[i] \in Detection /\ detections[selected'] \in Detection
      BY <1>2, <1>5
    <3> QED
      BY <3>1 DEF Detection
  <2> QED
    BY <1>2, <1>5, <2>1, <2>2
<1>7. ASSUME selected' # 0, velocity' # Zero
      PROVE  LET d    == detections[selected']
                 near == {p \in projected' : Inside(p, d)}
                 m    == Min({p.range : p \in near})
             IN  /\ near # {} /\ m \in {p.range : p \in near} /\ m \in Nat
                 /\ \A p \in near : p.range \in Nat /\ m <= p.range
                 /\ velocity' = [linear |-> LinearCommand(m), angular |-> AngularCommand(d)]
  <2> DEFINE d      == detections[selected']
             near   == {p \in projected' : Inside(p, d)}
             ranges == {p.range : p \in near}
  <2>1. NearestRange(d) # {} /\ NearestRange(d) = IF ranges = {} THEN {} ELSE {Min(ranges)}
    BY <1>1, <1>7 DEF NearestRange
  <2>2. ranges # {} /\ NearestRange(d) = {Min(ranges)}
    BY <2>1
  <2>3. \A p \in near : p.range \in Nat
    BY <1>1, MotionAssumption DEF Project, kSubset
  <2>4. ranges \subseteq Nat
    BY <2>3
  <2>5. Min(ranges) \in ranges /\ \A x \in ranges : Min(ranges) <= x
    <3>1. ranges \subseteq Int /\ 0 \in Int /\ \A x \in ranges : 0 <= x
      BY <2>4
    <3> HIDE DEF ranges
    <3> QED
      BY <2>2, <3>1, MinOf
  <2>6. Min(NearestRange(d)) = Min(ranges)
    <3> DEFINE m == Min(ranges)
    <3>1. m \in Int
      BY <2>4, <2>5
    <3> HIDE DEF m
    <3>2. Min({m}) = m
      BY <3>1 DEF Min
    <3> QED
      BY <2>2, <3>2 DEF m
  <2>7. velocity' = [linear |-> LinearCommand(Min(ranges)), angular |-> AngularCommand(d)]
    BY <1>1, <1>7, <2>1, <2>6
  <2> QED
    BY <2>2, <2>3, <2>4, <2>5, <2>7
<1>8. KeepsDistance'
  <2> DEFINE d      == detections[selected']
             Met(b) == /\ RangeMin < b.range /\ b.range < RangeMax /\ b.front
                       /\ b.x \in 0 .. 2 * ImageWidth - 1 /\ b.y \in 0 .. 2 * ImageHeight - 1
                       /\ 2 * d.x1 < b.x /\ b.x < 2 * d.x2
             on     == {b \in beams : Met(b)}
             near   == {p \in projected' : Inside(p, d)}
             m      == Min({p.range : p \in near})
  <2> SUFFICES ASSUME velocity' # Zero
               PROVE  /\ selected' # 0 /\ on # {}
                      /\ velocity'.linear > 0 => \A b \in on : b.x >= 2 * d.x1 + 2 => b.distance > KeepDistance
                      /\ velocity'.linear < 0 => \E b \in on : b.distance < KeepDistance
    BY <1>1 DEF KeepsDistance, Zero
  <2>1. selected' # 0
    BY <1>1
  <2>2. /\ near # {} /\ m \in {p.range : p \in near} /\ m \in Nat
        /\ \A p \in near : p.range \in Nat /\ m <= p.range
        /\ velocity'.linear = LinearCommand(m)
    <3>1. velocity' = [linear |-> LinearCommand(m), angular |-> AngularCommand(d)]
      BY <1>7, <2>1
    <3>2. velocity'.linear = LinearCommand(m)
      BY <3>1
    <3> QED
      BY <1>7, <2>1, <3>2
  <2>3. d.x1 \in Int /\ d.x2 \in Int
    <3>1. d \in Detection
      BY <1>2, <1>5, <2>1
    <3> QED
      BY <3>1 DEF Detection
  <2>4. \A b \in beams : b.x \in Int /\ b.y \in Int /\ b.distance \in Nat
    BY MotionAssumption DEF kSubset
  <2>5. ASSUME NEW p \in near
        PROVE  \E b \in on : b.distance = p.range
    <3>1. PICK b \in beams : /\ p = [x |-> b.x, range |-> b.distance]
                             /\ RangeMin < b.range /\ b.range < RangeMax /\ b.front
                             /\ 0 <= b.x /\ b.x < 2 * ImageWidth
                             /\ 0 <= b.y /\ b.y < 2 * ImageHeight
      BY <1>1 DEF Project
    <3>2. b.x \div 2 > d.x1 /\ b.x \div 2 < d.x2
      BY <3>1 DEF Inside
    <3>3. 2 * d.x1 < b.x /\ b.x < 2 * d.x2
      BY <2>3, <2>4, <3>2
    <3>4. b.x \in 0 .. 2 * ImageWidth - 1 /\ b.y \in 0 .. 2 * ImageHeight - 1
      BY <2>4, <3>1, MotionAssumption
    <3> QED
      BY <3>1, <3>3, <3>4
  <2>6. ASSUME NEW b \in on, b.x >= 2 * d.x1 + 2
        PROVE  m <= b.distance
    <3> DEFINE p == [x |-> b.x, range |-> b.distance]
    <3>1. b \in beams /\ Met(b)
      OBVIOUS
    <3>2. b.x \div 2 > d.x1 /\ b.x \div 2 < d.x2
      BY <2>3, <2>4, <2>6, <3>1
    <3>3. /\ 0 <= b.x /\ b.x < 2 * ImageWidth
          /\ 0 <= b.y /\ b.y < 2 * ImageHeight
      BY <2>4, <3>1, MotionAssumption
    <3>4. p \in projected'
      BY <1>1, <3>1, <3>3 DEF Project
    <3>5. p \in near
      BY <3>2, <3>4 DEF Inside
    <3> QED
      BY <2>2, <3>5
  <2>7. PICK p \in near : p.range = m
    BY <2>2
  <2>8. PICK b \in on : b.distance = m
    BY <2>5, <2>7
  <2> HIDE DEF m
  <2>9. /\ velocity'.linear > 0 => m > KeepDistance
        /\ velocity'.linear < 0 => m < KeepDistance
    BY <2>2, LinearSign
  <2>10. KeepDistance \in Nat
    BY MotionAssumption
  <2>11. \A a \in on : a.distance \in Nat
    BY <2>4
  <2> HIDE DEF on, near
  <2>12. velocity'.linear > 0 => \A a \in on : a.x >= 2 * d.x1 + 2 => a.distance > KeepDistance
    BY <2>2, <2>6, <2>9, <2>10, <2>11
  <2>13. velocity'.linear < 0 => \E a \in on : a.distance < KeepDistance
    BY <2>8, <2>9
  <2> QED
    BY <2>1, <2>8, <2>12, <2>13
<1>9. TurnsToTarget'
  <2> SUFFICES ASSUME selected' # 0
               PROVE  LET d      == detections[selected']
                          centre == (d.x1 + d.x2) * LogicalWidth
                          middle == LogicalWidth * source[1]
                      IN  /\ velocity'.angular < 0 => centre > middle
                          /\ velocity'.angular > 0 => centre < middle + 2 * source[1]
    BY <1>1 DEF TurnsToTarget
  <2>1. CASE velocity' = Zero
    <3>1. velocity'.angular = 0
      BY <2>1 DEF Zero
    <3> QED
      BY <3>1
  <2>2. CASE velocity' # Zero
    <3>1. velocity'.angular = AngularCommand(detections[selected'])
      BY <1>7, <2>2
    <3>2. detections[selected'] \in Detection
      BY <1>2, <1>5
    <3> QED
      BY <1>2, <3>1, <3>2, AngularSign
  <2> QED
    BY <2>1, <2>2
<1> QED
  BY <1>3, <1>4, <1>6, <1>8, <1>9 DEF VisionInv

\* The network's output is decoded, sorted and suppressed before the tracker looks at it.
LEMMA ProcessKeeps ==
  ASSUME VisionInv, Process, UNCHANGED tracking
  PROVE  VisionInv'
<1>1. stage # "tracked" /\ stage' # "tracked"
  BY DEF Process, Decode, Decoded, Enter, Sweep, PutKey, Sorted, Suppress, Emit
<1>2. DetectInv'
  BY DecodeKeeps, DecodedKeeps, EnterKeeps, SweepKeeps, PutKeyKeeps, SortedKeeps, SuppressKeeps, EmitKeeps
     DEF Process, VisionInv
<1>3. selected' = 0 /\ velocity' = Zero
  BY <1>1 DEF VisionInv, NotYetTracked, tracking
<1>4. Zero' = Zero
  BY DEF Zero
<1> QED
  BY <1>2, <1>3, <1>4 DEF VisionInv, NotYetTracked, FollowsLargest, KeepsDistance, TurnsToTarget

\* Before the first output there is nothing to sort, suppress or follow.
LEMMA VisionStarts == VisionInit => VisionInv
<1> SUFFICES ASSUME VisionInit PROVE VisionInv
  OBVIOUS
<1> USE DEF VisionInit, PostprocessInit
<1>1. Types
  BY SizeAssumption DEF Types
<1>2. DetectInv
  BY <1>1 DEF DetectInv, NoneIsLost, CallsAreApart, RestIsOrdered, PartitionIsHalfDone,
     RankingIsSorted, RemovedByTheLeft, ShownInOrder, Sorting
<1> QED
  BY <1>2 DEF VisionInv, NotYetTracked, FollowsLargest, KeepsDistance, TurnsToTarget

\* Each step of process() and sync_callback keeps the invariant.
LEMMA VisionSteps == VisionInv /\ [VisionNext]_visionVars => VisionInv'
<1> SUFFICES ASSUME VisionInv, [VisionNext]_visionVars PROVE VisionInv'
  OBVIOUS
<1>1. CASE Process /\ UNCHANGED tracking
  BY <1>1, ProcessKeeps
<1>2. ASSUME NEW n \in 0 .. MaxBeams, NEW beams \in kSubset(n, Beams), Track(beams) PROVE VisionInv'
  <2>1. n \in Nat
    OBVIOUS
  <2> QED
    BY <1>2, <2>1, TrackKeeps
<1>3. CASE UNCHANGED visionVars
  <2>1. UNCHANGED <<source, candidates, calls, call, low, high, key, ranking, sorted, place, detections,
                    stage, selected, scan, velocity>>
    BY <1>3 DEF visionVars, tracking, postprocess, decoding, sorting
  <2>2. Count' = Count /\ Positions' = Positions /\ Span' = Span
    BY <2>1 DEF Count, Positions, Span
  <2>3. Types' /\ ShownInOrder'
    BY <2>1, <2>2 DEF VisionInv, DetectInv, Types, ShownInOrder
  <2>4. Whole' = Whole /\ Sorting' = Sorting /\ Open' = Open /\ Judged' = Judged
    BY <2>1, <2>2 DEF Whole, Sorting, Open, Judged
  <2>5. NoneIsLost'
    BY <2>1, <2>2, <2>4 DEF VisionInv, DetectInv, NoneIsLost, Complete
  <2>6. CallsAreApart' /\ PartitionIsHalfDone'
    BY <2>1, <2>2, <2>4 DEF VisionInv, DetectInv, CallsAreApart, PartitionIsHalfDone, Separate
  <2>7. RestIsOrdered'
    BY <2>1, <2>2, <2>4 DEF VisionInv, DetectInv, RestIsOrdered
  <2>8. RankingIsSorted'
    BY <2>1, <2>2 DEF VisionInv, DetectInv, RankingIsSorted, Complete
  <2>9. RemovedByTheLeft'
    BY <2>1, <2>2, <2>4 DEF VisionInv, DetectInv, RemovedByTheLeft, Overlaps
  <2>10. NotYetTracked' /\ FollowsLargest' /\ KeepsDistance' /\ TurnsToTarget'
    BY <2>1 DEF VisionInv, NotYetTracked, Zero, FollowsLargest, KeepsDistance, TurnsToTarget,
       Eligible, Area, LogicalBox
  <2> QED
    BY <2>3, <2>5, <2>6, <2>7, <2>8, <2>9, <2>10 DEF VisionInv, DetectInv
<1> QED
  BY <1>1, <1>2, <1>3 DEF VisionNext

\* The invariant holds from the network's first output to the velocity
\* (postprocess.cpp, sync_callback), for every size of image and every output.
THEOREM VisionInvariance == VisionSpec => []VisionInv
BY VisionStarts, VisionSteps, PTL DEF VisionSpec

\* quick_sort_indice_inverse leaves each candidate once, with its own score and
\* behind none that is worse.
THEOREM SortingIsRight == VisionSpec => []BestFirst
<1>1. VisionInv => BestFirst
  <2> SUFFICES ASSUME VisionInv, stage \in {"suppress", "emit"} PROVE BestFirst
    BY DEF BestFirst
  <2>1. /\ Complete(sorted) /\ candidates \in Seq(Box) /\ sorted \in Seq(Entry)
        /\ \A i, j \in Positions : i < j => sorted[i].score >= sorted[j].score
    BY DEF VisionInv, DetectInv, RankingIsSorted, Types
  <2>2. DOMAIN candidates = Positions /\ DOMAIN sorted = Positions /\ Positions = 1 .. Count /\ Count \in Nat
    BY <2>1 DEF Positions, Count, Complete
  <2>3. {sorted[i].index : i \in DOMAIN sorted} = DOMAIN candidates
    <3>1. \A i \in Positions : sorted[i].index \in Positions
      BY <2>1 DEF Complete
    <3>2. \A k \in Positions : \E i \in Positions : sorted[i].index = k
      BY <2>1 DEF Complete
    <3> HIDE DEF Positions
    <3> QED
      BY <2>2, <3>1, <3>2
  <2>4. Len(sorted) = Len(candidates)
    BY <2>1 DEF Complete, Count
  <2>5. ASSUME NEW i \in DOMAIN sorted
        PROVE  /\ sorted[i].score = candidates[sorted[i].index].score
               /\ \A j \in 1 .. i - 1 : sorted[j].score >= sorted[i].score
    <3>1. i \in Positions /\ \A j \in 1 .. i - 1 : j \in Positions /\ j < i
      BY <2>2
    <3> QED
      BY <2>1, <3>1 DEF Complete
  <2> QED
    BY <2>3, <2>4, <2>5 DEF BestFirst
<1> QED
  BY <1>1, VisionInvariance, PTL

\* nms leaves boxes apart from each other, and for each box it removes a better
\* one that is left and overlaps it.
THEOREM SuppressionIsRight == VisionSpec => []OneBoxEach
<1>1. VisionInv => OneBoxEach
  <2> SUFFICES ASSUME VisionInv, stage = "emit" PROVE OneBoxEach
    BY DEF OneBoxEach
  <2>1. /\ Complete(sorted) /\ Len(ranking) = Count /\ candidates \in Seq(Box) /\ ranking \in Seq(Entry)
        /\ \A i \in Positions : ranking[i].index \in {0, sorted[i].index}
    BY DEF VisionInv, DetectInv, RankingIsSorted, Types
  <2>2. DOMAIN ranking = Positions /\ Positions = 1 .. Count /\ Count \in Nat
    BY <2>1 DEF Positions, Count
  <2>3. /\ \A i, j \in Positions :
             i < j /\ ranking[i].index # 0 /\ ranking[j].index # 0 => ~Overlaps(i, j)
        /\ \A j \in Positions : ranking[j].index = 0 =>
             \E i \in Positions : i < j /\ ranking[i].index # 0 /\ Overlaps(i, j)
    BY DEF VisionInv, DetectInv, RemovedByTheLeft, Judged
  <2>4. ASSUME NEW i \in Positions, NEW j \in Positions PROVE Overlaps(i, j) <=> Overlaps(j, i)
    <3>1. sorted[i].index \in Positions /\ sorted[j].index \in Positions
      BY <2>1 DEF Complete
    <3>2. \A k \in Positions : candidates[k] \in Box
      BY <2>1 DEF Positions, Count
    <3>3. candidates[sorted[i].index] \in Box /\ candidates[sorted[j].index] \in Box
      BY <3>1, <3>2
    <3> QED
      BY <3>3, OverlapIsMutual DEF Overlaps
  <2>5. ASSUME NEW i \in Positions, NEW j \in Positions, i # j, ranking[i].index # 0, ranking[j].index # 0
        PROVE  ~Overlaps(i, j)
    <3>1. i < j \/ j < i
      BY <2>2, <2>5
    <3> QED
      BY <2>3, <2>4, <2>5, <3>1
  <2> QED
    BY <2>2, <2>3, <2>5 DEF OneBoxEach, Overlaps
<1> QED
  BY <1>1, VisionInvariance, PTL

\* select_target takes the largest detection of its class, and of equally large
\* ones a best scored one.
THEOREM LargestIsFollowed == VisionSpec => []FollowsLargest
<1>1. VisionInv => FollowsLargest
  BY DEF VisionInv
<1> QED
  BY <1>1, VisionInvariance, PTL

\* sync_callback drives forward only when all points on the target are farther
\* than keep_distance and back only when one is nearer.
THEOREM DistanceIsKept == VisionSpec => []KeepsDistance
<1>1. VisionInv => KeepsDistance
  BY DEF VisionInv
<1> QED
  BY <1>1, VisionInvariance, PTL

\* angular_command turns towards the target, up to a logical pixel.
THEOREM TurnIsRight == VisionSpec => []TurnsToTarget
<1>1. VisionInv => TurnsToTarget
  BY DEF VisionInv
<1> QED
  BY <1>1, VisionInvariance, PTL

-------------------------------------------------------------------------------
(* When the robot may move.                                                *)

\* A stop has been sent for a lapse of the scan that still lasts: the robot
\* does not move until the next scan.
EmittedStopHolds == stop_emitted => scan_age > ScanTimeout /\ wheels # "moving"

\* A remembered command was computed from a range that still stands.
CommandHasRange == command = "moving" => target \cap points # {}

Inv ==
  /\ TypeOK
  /\ FollowHasItsInputs
  /\ MotionIsRemembered
  /\ CommandHasRange
  /\ StaleScanStops
  /\ EmittedStopHolds

USE TimeoutAssumption

\* The tracker starts in standby and has sent nothing.
LEMMA InitInv == Init => Inv
<1> SUFFICES ASSUME Init PROVE Inv
  OBVIOUS
<1>1. scan_age \in 0..ScanTimeout + 1
  BY DEF Init
<1>2. TypeOK
  BY <1>1 DEF Init, TypeOK
<1> QED
  BY <1>2 DEF Init, Inv, FollowHasItsInputs, MotionIsRemembered, CommandHasRange, StaleScanStops,
     EmittedStopHolds

\* StopFollow leaves nothing moving: Follow was off, or a zero was sent.
LEMMA StopFollowStops ==
  ASSUME Inv, NEW x \in BOOLEAN, StopFollow(x), UNCHANGED <<enabled, dry_run>>
  PROVE  /\ points' = {} /\ command' = "zero" /\ wheels' # "moving"
         /\ wheels' \in {"none"} \cup (IF dry_run' THEN {} ELSE {"zero", "moving"})
         /\ stop_emitted' \in BOOLEAN
         /\ stop_emitted' => x \/ stop_emitted
BY DEF Inv, TypeOK, MotionIsRemembered, StopFollow, Clear, Emits

\* An image moves the robot only on a recent scan that ranges its target.
LEMMA SyncKeepsInv ==
  ASSUME Inv, NEW t \in SUBSET Column, SyncCallback(t)
  PROVE  Inv'
<1> USE DEF Inv
<1>1. CASE RangeReady
  <2>1. /\ command' \in Commands(t) /\ target' = t /\ inputs_ready' = TRUE
        /\ wheels' = IF enabled THEN Emits(command') ELSE wheels
        /\ UNCHANGED <<points, stop_emitted>>
        /\ UNCHANGED <<transform, lidar_enabled, enabled, scan_received, scan_age, dry_run, due>>
    BY <1>1 DEF SyncCallback
  <2>2. scan_received /\ scan_age <= ScanTimeout /\ ~stop_emitted
    BY <1>1 DEF TypeOK, RangeReady, Recent, EmittedStopHolds
  <2>3. TypeOK' /\ FollowHasItsInputs'
    BY <2>1 DEF TypeOK, FollowHasItsInputs, Commands, Emits, transform
  <2>4. CommandHasRange' /\ MotionIsRemembered'
    BY <2>1 DEF TypeOK, CommandHasRange, MotionIsRemembered, Commands, Emits
  <2>5. StaleScanStops' /\ EmittedStopHolds'
    BY <2>1, <2>2 DEF TypeOK, StaleScanStops, EmittedStopHolds
  <2> QED
    BY <2>3, <2>4, <2>5
<1>2. CASE ~RangeReady
  <2>1. /\ StopFollow(Expired) /\ target' = t /\ inputs_ready' = TRUE
        /\ UNCHANGED <<transform, lidar_enabled, enabled, scan_received, scan_age, dry_run, due>>
    BY <1>2 DEF SyncCallback
  <2>2. Expired \in BOOLEAN /\ (Expired => scan_age > ScanTimeout)
    BY DEF TypeOK, Expired, Recent
  <2>3. /\ points' = {} /\ command' = "zero" /\ wheels' # "moving"
        /\ wheels' \in {"none"} \cup (IF dry_run' THEN {} ELSE {"zero", "moving"})
        /\ stop_emitted' \in BOOLEAN
        /\ stop_emitted' => Expired \/ stop_emitted
    BY <2>1, <2>2, StopFollowStops
  <2>4. TypeOK' /\ FollowHasItsInputs'
    BY <2>1, <2>3 DEF TypeOK, FollowHasItsInputs, transform
  <2>5. EmittedStopHolds'
    BY <2>1, <2>2, <2>3 DEF EmittedStopHolds
  <2> QED
    BY <2>1, <2>3, <2>4, <2>5 DEF CommandHasRange, MotionIsRemembered, StaleScanStops
<1> QED
  BY <1>1, <1>2

\* A scan that misses the target withdraws a command that was remembered.
LEMMA ScanKeepsInv ==
  ASSUME Inv, NEW p \in SUBSET Column, ScanCallback(p)
  PROVE  Inv'
<1> USE DEF Inv
<1>1. /\ scan_received' = TRUE /\ scan_age' = 0 /\ stop_emitted' = FALSE /\ points' = p
      /\ UNCHANGED <<transform, lidar_enabled, enabled, inputs_ready, target, dry_run, due>>
  BY DEF ScanCallback
<1>2. StaleScanStops' /\ EmittedStopHolds' /\ FollowHasItsInputs'
  BY <1>1 DEF StaleScanStops, EmittedStopHolds, FollowHasItsInputs, transform
<1>5. scan_age' \in 0..ScanTimeout + 1 /\ points' \subseteq Column
  BY <1>1
<1>3. CASE target \cap p = {}
  <2>1. command' = "zero" /\ wheels' = IF enabled /\ command # "zero" THEN Emits("zero") ELSE wheels
    BY <1>3 DEF ScanCallback
  <2>2. wheels' # "moving"
    BY <2>1 DEF TypeOK, MotionIsRemembered, Emits
  <2>3. TypeOK'
    BY <1>1, <1>5, <2>1 DEF TypeOK, Emits, transform
  <2> QED
    BY <1>2, <2>1, <2>2, <2>3 DEF MotionIsRemembered, CommandHasRange
<1>4. CASE target \cap p # {}
  <2>1. UNCHANGED <<command, wheels>>
    BY <1>4 DEF ScanCallback
  <2>2. TypeOK'
    BY <1>1, <1>5, <2>1 DEF TypeOK, transform
  <2> QED
    BY <1>1, <1>2, <1>4, <2>1, <2>2 DEF MotionIsRemembered, CommandHasRange
<1> QED
  BY <1>3, <1>4

\* The two services: Follow ends with a zero, and begins with one.
LEMMA ServicesKeepInv ==
  ASSUME Inv, EnableLidar \/ DisableLidar \/ \E e \in BOOLEAN : SetEnabled(e)
  PROVE  Inv'
<1> USE DEF Inv
<1>1. CASE EnableLidar
  <2>1. TypeOK'
    BY <1>1 DEF TypeOK, EnableLidar, LoadTransform, scanning
  <2>2. FollowHasItsInputs'
    BY <1>1 DEF FollowHasItsInputs, EnableLidar, scanning
  <2> QED
    BY <1>1, <2>1, <2>2 DEF EnableLidar, MotionIsRemembered, CommandHasRange, StaleScanStops,
       EmittedStopHolds, scanning
<1>2. CASE DisableLidar
  <2>1. wheels' # "moving"
    BY <1>2 DEF TypeOK, MotionIsRemembered, DisableLidar, Emits
  <2>2. TypeOK'
    BY <1>2 DEF TypeOK, DisableLidar, Clear, Emits, transform
  <2> QED
    BY <1>2, <2>1, <2>2 DEF DisableLidar, Clear, FollowHasItsInputs, MotionIsRemembered,
       CommandHasRange, StaleScanStops, EmittedStopHolds
<1>3. ASSUME NEW e \in BOOLEAN, SetEnabled(e) PROVE Inv'
  <2>1. wheels' # "moving"
    BY <1>3 DEF TypeOK, SetEnabled, Emits
  <2>2. TypeOK'
    BY <1>3 DEF TypeOK, SetEnabled, Clear, Emits, transform, scanning
  <2>3. FollowHasItsInputs'
    BY <1>3 DEF FollowHasItsInputs, SetEnabled, MayFollow, Recent, transform, scanning
  <2>4. MotionIsRemembered' /\ CommandHasRange' /\ StaleScanStops'
    BY <1>3, <2>1 DEF SetEnabled, Clear, MotionIsRemembered, CommandHasRange, StaleScanStops
  <2>5. EmittedStopHolds'
    BY <1>3, <2>1 DEF SetEnabled, EmittedStopHolds, scanning
  <2> QED
    BY <2>2, <2>3, <2>4, <2>5
<1> QED
  BY <1>1, <1>2, <1>3

\* The timer: after it has run, a lapse of the scan has been answered.
LEMMA TimerKeepsInv == Inv /\ CheckScanFreshness => Inv'
<1> SUFFICES ASSUME Inv, CheckScanFreshness PROVE Inv'
  OBVIOUS
<1> USE DEF Inv
<1>1. /\ due' = FALSE
      /\ UNCHANGED <<transform, lidar_enabled, enabled, inputs_ready, scan_received, scan_age, target, dry_run>>
  BY DEF CheckScanFreshness
<1>2. CASE enabled /\ Expired /\ ~stop_emitted
  <2>1. StopFollow(TRUE)
    BY <1>2 DEF CheckScanFreshness
  <2>2. /\ points' = {} /\ command' = "zero" /\ wheels' # "moving"
        /\ wheels' \in {"none"} \cup (IF dry_run' THEN {} ELSE {"zero", "moving"})
        /\ stop_emitted' \in BOOLEAN
    BY <1>1, <2>1, StopFollowStops
  <2>3. scan_age > ScanTimeout
    BY <1>2 DEF TypeOK, Expired, Recent
  <2>4. TypeOK' /\ FollowHasItsInputs'
    BY <1>1, <2>2 DEF TypeOK, FollowHasItsInputs, transform
  <2> QED
    BY <1>1, <2>2, <2>3, <2>4 DEF MotionIsRemembered, CommandHasRange, StaleScanStops, EmittedStopHolds
<1>3. CASE ~(enabled /\ Expired /\ ~stop_emitted)
  <2>1. UNCHANGED <<points, command, stop_emitted, wheels>>
    BY <1>3 DEF CheckScanFreshness
  <2>2. TypeOK' /\ FollowHasItsInputs' /\ MotionIsRemembered' /\ CommandHasRange' /\ EmittedStopHolds'
    BY <1>1, <2>1 DEF TypeOK, FollowHasItsInputs, MotionIsRemembered, CommandHasRange,
       EmittedStopHolds, transform
  <2>3. StaleScanStops'
    <3> SUFFICES ASSUME scan_age > ScanTimeout, wheels = "moving" PROVE FALSE
      BY <1>1, <2>1 DEF StaleScanStops
    <3>1. enabled /\ ~stop_emitted
      BY DEF MotionIsRemembered, EmittedStopHolds, TypeOK
    <3>2. Expired
      BY <3>1 DEF FollowHasItsInputs, Expired, Recent, TypeOK
    <3> QED
      BY <1>3, <3>1, <3>2
  <2> QED
    BY <2>2, <2>3
<1> QED
  BY <1>2, <1>3

\* Time makes scans stale; the timer is due again before that shows.
LEMMA TickKeepsInv == Inv /\ Tick => Inv'
<1> SUFFICES ASSUME Inv, Tick PROVE Inv'
  OBVIOUS
<1> USE DEF Inv
<1>1. TypeOK'
  BY DEF TypeOK, Tick, transform
<1>2. FollowHasItsInputs' /\ MotionIsRemembered' /\ CommandHasRange' /\ StaleScanStops'
  BY DEF FollowHasItsInputs, MotionIsRemembered, CommandHasRange, StaleScanStops, Tick, transform
<1>3. EmittedStopHolds'
  BY DEF TypeOK, EmittedStopHolds, Tick
<1> QED
  BY <1>1, <1>2, <1>3

\* Waiting for the transform touches nothing else.
LEMMA TransformKeepsInv == Inv /\ (PollTransform \/ TreeArrives) => Inv'
<1> SUFFICES ASSUME Inv, PollTransform \/ TreeArrives PROVE Inv'
  OBVIOUS
<1> USE DEF Inv
<1>1. UNCHANGED <<lidar_enabled, enabled, inputs_ready, scanning, points, target, command, dry_run, wheels, due>>
  BY DEF PollTransform, TreeArrives
<1>2. /\ tree' \in BOOLEAN /\ transform_ready' \in BOOLEAN /\ transform_timer' \in BOOLEAN
      /\ transform_ready => transform_ready'
  <2>1. CASE TreeArrives
    BY <2>1 DEF TypeOK, TreeArrives
  <2>2. CASE PollTransform
    <3>1. PICK loaded \in BOOLEAN :
            /\ LoadTransform(loaded)
            /\ transform_timer' \in (IF loaded THEN {FALSE} ELSE BOOLEAN)
            /\ tree' = tree
      BY <2>2, Zenon DEF PollTransform
    <3>2. transform_timer' \in BOOLEAN
      BY <3>1
    <3>3. transform_ready' \in BOOLEAN /\ (transform_ready => transform_ready')
      BY <3>1 DEF LoadTransform
    <3> QED
      BY <3>1, <3>2, <3>3 DEF TypeOK
  <2> QED
    BY <2>1, <2>2
<1>3. TypeOK'
  BY <1>1, <1>2 DEF TypeOK, scanning
<1> QED
  BY <1>1, <1>2, <1>3 DEF FollowHasItsInputs, MotionIsRemembered, CommandHasRange, StaleScanStops,
     EmittedStopHolds, scanning

\* Every step preserves the invariant.
LEMMA NextInv == Inv /\ [Next]_vars => Inv'
<1> SUFFICES ASSUME Inv, [Next]_vars PROVE Inv'
  OBVIOUS
<1>1. CASE \E t \in SUBSET Column : SyncCallback(t)
  BY <1>1, SyncKeepsInv
<1>2. CASE \E p \in SUBSET Column : ScanCallback(p)
  BY <1>2, ScanKeepsInv
<1>3. CASE EnableLidar \/ DisableLidar \/ \E e \in BOOLEAN : SetEnabled(e)
  BY <1>3, ServicesKeepInv
<1>4. CASE CheckScanFreshness
  BY <1>4, TimerKeepsInv
<1>5. CASE PollTransform \/ TreeArrives
  BY <1>5, TransformKeepsInv
<1>6. CASE Tick
  BY <1>6, TickKeepsInv
<1>7. CASE UNCHANGED vars
  BY <1>7 DEF vars, transform, scanning, Inv, TypeOK, FollowHasItsInputs, MotionIsRemembered,
     CommandHasRange, StaleScanStops, EmittedStopHolds
<1> QED
  BY <1>1, <1>2, <1>3, <1>4, <1>5, <1>6, <1>7 DEF Next

\* The inductive invariant holds in every reachable state.
THEOREM Invariance == Spec => []Inv
<1>1. Init => Inv
  BY InitInv
<1>2. Inv /\ [Next]_vars => Inv'
  BY NextInv
<1> QED
  BY <1>1, <1>2, PTL DEF Spec

\* The tracker's state is well formed, and a dry run publishes nothing.
THEOREM TypeCorrect == Spec => []TypeOK
<1>1. Inv => TypeOK
  BY DEF Inv
<1> QED
  BY <1>1, Invariance, PTL

\* apply_enabled's conditions hold for as long as Follow is on.
THEOREM FollowNeedsItsInputs == Spec => []FollowHasItsInputs
<1>1. Inv => FollowHasItsInputs
  BY DEF Inv
<1> QED
  BY <1>1, Invariance, PTL

\* Every path that forgets a command, or leaves Follow, has sent a zero.
THEOREM MotionKnown == Spec => []MotionIsRemembered
<1>1. Inv => MotionIsRemembered
  BY DEF Inv
<1> QED
  BY <1>1, Invariance, PTL

\* A velocity stands only while the newest scan ranges the newest target.
THEOREM MotionNeedsRange == Spec => []MotionHasRange
<1>1. Inv => MotionHasRange
  BY DEF Inv, MotionIsRemembered, CommandHasRange, MotionHasRange
<1> QED
  BY <1>1, Invariance, PTL

\* The freshness timer stops the robot by itself.
THEOREM StaleScansStop == Spec => []StaleScanStops
<1>1. Inv => StaleScanStops
  BY DEF Inv
<1> QED
  BY <1>1, Invariance, PTL

\* One step of the tracker is one transition of the service, or none that a
\* client sees.
LEMMA StepServes == Inv /\ [Next]_vars => [Service!Next]_(Service!service)
<1> SUFFICES ASSUME Inv, [Next]_vars PROVE [Service!Next]_(Service!service)
  OBVIOUS
<1>1. CASE UNCHANGED <<enabled, lidar_enabled>>
  BY <1>1 DEF Service!service
<1>2. CASE EnableLidar
  <2>1. lidar_enabled' \in BOOLEAN /\ ~lidar_enabled /\ UNCHANGED enabled
    BY <1>2 DEF EnableLidar
  <2> QED
    BY <2>1 DEF Service!Next, Service!FusionOn, Service!service, Inv, TypeOK
<1>3. CASE DisableLidar
  BY <1>3 DEF DisableLidar, Service!Next, Service!FusionOff
<1>4. ASSUME NEW e \in BOOLEAN, SetEnabled(e) PROVE Service!Next
  <2>1. enabled' = e /\ UNCHANGED lidar_enabled
    BY <1>4 DEF SetEnabled
  <2>2. CASE e
    BY <1>4, <2>1, <2>2 DEF SetEnabled, MayFollow, Service!Next, Service!FollowOn
  <2>3. CASE ~e
    BY <2>1, <2>3 DEF Service!Next, Service!FollowOff
  <2> QED
    BY <2>2, <2>3
<1>5. CASE \/ \E t \in SUBSET Column : SyncCallback(t)
           \/ \E p \in SUBSET Column : ScanCallback(p)
           \/ CheckScanFreshness \/ PollTransform \/ TreeArrives \/ Tick \/ UNCHANGED vars
  BY <1>1, <1>5 DEF SyncCallback, ScanCallback, CheckScanFreshness, PollTransform, TreeArrives,
     Tick, vars
<1> QED
  BY <1>2, <1>3, <1>4, <1>5 DEF Next

\* The tracker implements the service it advertises, for every image, scan and
\* timeout: Follow is granted under fusion only, and ends with it.
THEOREM ImplementsService == Spec => ServesTracker
<1>1. Init => Service!Init
  BY DEF Init, Service!Init
<1>2. Inv /\ [Next]_vars => [Service!Next]_(Service!service)
  BY StepServes
<1> QED
  BY <1>1, <1>2, Invariance, PTL DEF Spec, ServesTracker, Service!Spec
===============================================================================
