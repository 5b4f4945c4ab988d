--------------------------- MODULE YoloPostprocess ---------------------------
(***************************************************************************)
(* From the network's three output heads to detections in the source image *)
(* (rknn_yolov6/src/postprocess.cpp): decode, sort, suppress, scale.       *)
(* Distances come in half cells, so every box has whole pixels; scores and *)
(* thresholds are small numbers with the order of the real ones.           *)
(***************************************************************************)
EXTENDS Integers, Sequences, FiniteSetsExt

CONSTANTS
  ModelWidth, ModelHeight,   (* size of the network's input                 *)
  Threshold,                 (* confidence_threshold                        *)
  OverlapPercent,            (* nms_threshold                               *)
  Limit,                     (* detections looked at for output (code: 100) *)
  Sources,                   (* sizes <<width, height>> of source images    *)
  Outputs,                   (* what the network may say of a cell          *)
  BusyCells,                 (* cells <<head, row, column>> it may say something of *)
  MaxHits                    (* bound: cells it says something of           *)

\* The constructor and process() refuse sizes that are not positive and a model
\* without a class.
ASSUME SizeAssumption ==
  /\ ModelWidth \in Nat \ {0} /\ ModelHeight \in Nat \ {0}
  /\ Sources \subseteq (Nat \ {0}) \X (Nat \ {0})

ASSUME OutputAssumption ==
  /\ Outputs \subseteq [object : Int, classes : Seq(Int) \ {<<>>}, reach : [1 .. 4 -> Int]]
  /\ BusyCells \subseteq (1 .. 3) \X Nat \X Nat

Strides == <<8, 16, 32>>

VARIABLES
  reached,      \* the last cell with an output so far
  hits,         \* bound: cells with an output so far
  source,       \* size of the source image
  candidates,   \* boxes, scores and class_ids
  ranking,      \* scores and order; index 0 is a suppressed one
  calls,        \* ranges that quick_sort_indice_inverse is still to be called for
  call,         \* left and right of its running call, and the other locals:
  low, high,
  key,          \* key and key_index
  sorted,       \* ranking before suppression
  place,        \* index of the loops of nms and of process
  detections,   \* what process() returns
  stage

decoding == <<reached, hits, source, candidates>>
sorting == <<calls, call, low, high, key>>
postprocess == <<decoding, sorting, ranking, sorted, place, detections, stage>>

PostprocessInit ==
  /\ reached = <<0, 0, 0>> /\ hits = 0
  /\ source \in Sources
  /\ candidates = <<>> /\ ranking = <<>> /\ sorted = <<>> /\ detections = <<>>
  /\ calls = {} /\ call = [left |-> 0, right |-> 0] /\ low = 0 /\ high = 0
  /\ key = [index |-> 0, score |-> 0]
  /\ place = 1
  /\ stage = "decode"

-----------------------------------------------------------------------------
\* process_float

\* Head by head, row by row.
After(c, d) ==
  \/ c[1] > d[1]
  \/ c[1] = d[1] /\ c[2] > d[2]
  \/ c[1] = d[1] /\ c[2] = d[2] /\ c[3] > d[3]

InGrid(c) == c[2] < ModelHeight \div Strides[c[1]] /\ c[3] < ModelWidth \div Strides[c[1]]

BestClass(classes) ==
  CHOOSE c \in DOMAIN classes :
    \A d \in DOMAIN classes : classes[d] < classes[c] \/ (classes[d] = classes[c] /\ c <= d)

\* Both the objectness and the best class must reach the threshold.
Passes(out) == out.object >= Threshold /\ out.classes[BestClass(out.classes)] >= Threshold

\* The box of a cell, out.reach half cells to the left, top, right and bottom
\* of its centre.
Candidate(cell, out) ==
  LET half == Strides[cell[1]] \div 2
      x    == 2 * cell[3] + 1
      y    == 2 * cell[2] + 1
  IN  [x1 |-> (x - out.reach[1]) * half, y1 |-> (y - out.reach[2]) * half,
       x2 |-> (x + out.reach[3]) * half, y2 |-> (y + out.reach[4]) * half,
       score |-> out.classes[BestClass(out.classes)], class |-> BestClass(out.classes)]

\* The next cell the network says something of; the cells before it stay below
\* the threshold.
Decode ==
  /\ stage = "decode" /\ hits < MaxHits /\ hits' = hits + 1
  /\ \E c \in BusyCells, out \in Outputs :
       /\ InGrid(c) /\ After(c, reached) /\ reached' = c
       /\ candidates' = IF Passes(out) THEN Append(candidates, Candidate(c, out)) ELSE candidates
  /\ UNCHANGED <<source, sorting, ranking, sorted, place, detections, stage>>

\* A range of one element or of none needs no call.
Calls(left, right) == IF left < right THEN {[left |-> left, right |-> right]} ELSE {}

\* All heads are decoded; scores and order become one list.
Decoded ==
  /\ stage = "decode" /\ stage' = IF candidates = <<>> THEN "done" ELSE "sort"
  /\ ranking' = [i \in DOMAIN candidates |-> [index |-> i, score |-> candidates[i].score]]
  /\ calls' = Calls(1, Len(candidates))
  /\ UNCHANGED <<decoding, call, low, high, key, sorted, place, detections>>

-----------------------------------------------------------------------------
\* quick_sort_indice_inverse: scores and indices move together.  Calls share no
\* element, so the two that one makes may run in either order.

Enter ==
  /\ stage = "sort" /\ stage' = "partition"
  /\ \E c \in calls :
       /\ calls' = calls \ {c} /\ call' = c
       /\ low' = c.left /\ high' = c.right /\ key' = ranking[c.left]
  /\ UNCHANGED <<decoding, ranking, sorted, place, detections>>

\* One turn of the outer loop: a greater one moves left and a smaller one right
\* of the key, through the hole the key left at low.
Sweep ==
  /\ stage = "partition" /\ low < high
  /\ LET h == Max({low} \cup {i \in low + 1 .. high : ranking[i].score > key.score})
         t == [ranking EXCEPT ![low] = ranking[h]]
         l == Min({h} \cup {i \in low .. h - 1 : t[i].score < key.score})
     IN  ranking' = [t EXCEPT ![h] = t[l]] /\ low' = l /\ high' = h
  /\ UNCHANGED <<decoding, calls, call, key, sorted, place, detections, stage>>

\* Faulty variant (mutation only): the key is never put back.
LoseKey ==
  /\ stage = "partition" /\ low >= high /\ stage' = "sort"
  /\ calls' = calls \cup Calls(call.left, low - 1) \cup Calls(low + 1, call.right)
  /\ UNCHANGED <<decoding, ranking, call, low, high, key, sorted, place, detections>>

\* The key fills the hole, and both sides are sorted in turn.
PutKey ==
  /\ stage = "partition" /\ low >= high /\ stage' = "sort"
  /\ ranking' = [ranking EXCEPT ![low] = key]
  /\ calls' = calls \cup Calls(call.left, low - 1) \cup Calls(low + 1, call.right)
  /\ UNCHANGED <<decoding, call, low, high, key, sorted, place, detections>>

Sorted ==
  /\ stage = "sort" /\ calls = {} /\ stage' = "suppress"
  /\ sorted' = ranking
  /\ UNCHANGED <<decoding, sorting, ranking, place, detections>>

-----------------------------------------------------------------------------
\* nms

\* Pixels two ranges share, both ends included.
Shared(low1, high1, low2, high2) ==
  Max({0, Min({high1, high2}) - Max({low1, low2}) + 1})

\* CalculateOverlap above the threshold; boxes of different classes count too.
Overlap(a, b) ==
  LET area(c)      == (c.x2 - c.x1 + 1) * (c.y2 - c.y1 + 1)
      intersection == Shared(a.x1, a.x2, b.x1, b.x2) * Shared(a.y1, a.y2, b.y1, b.y2)
      union        == area(a) + area(b) - intersection
  IN  union > 0 /\ 100 * intersection > OverlapPercent * union

\* Faulty variant (mutation only): a suppressed box still suppresses others.
SuppressByAll ==
  /\ stage = "suppress"
  /\ IF place <= Len(ranking)
     THEN /\ ranking' =
                [j \in DOMAIN ranking |->
                   IF j > place /\ Overlap(candidates[sorted[place].index], candidates[sorted[j].index])
                   THEN [ranking[j] EXCEPT !.index = 0] ELSE ranking[j]]
          /\ place' = place + 1 /\ UNCHANGED stage
     ELSE stage' = "emit" /\ place' = 1 /\ UNCHANGED ranking
  /\ UNCHANGED <<decoding, sorting, sorted, detections>>

\* In descending order, each box that is left removes the later ones it overlaps.
Suppress ==
  /\ stage = "suppress"
  /\ IF place <= Len(ranking)
     THEN /\ ranking' =
                [j \in DOMAIN ranking |->
                   IF /\ j > place /\ ranking[place].index # 0 /\ ranking[j].index # 0
                      /\ Overlap(candidates[ranking[place].index], candidates[ranking[j].index])
                   THEN [ranking[j] EXCEPT !.index = 0] ELSE ranking[j]]
          /\ place' = place + 1 /\ UNCHANGED stage
     ELSE stage' = "emit" /\ place' = 1 /\ UNCHANGED ranking
  /\ UNCHANGED <<decoding, sorting, sorted, detections>>

-----------------------------------------------------------------------------
\* The rest of process(): limit and scale.

Clamp(value, size) == IF value > 0 THEN IF value < size - 1 THEN value ELSE size - 1 ELSE 0

ToSource(c) ==
  LET X(value) == (Clamp(value, ModelWidth) * source[1]) \div ModelWidth
      Y(value) == (Clamp(value, ModelHeight) * source[2]) \div ModelHeight
  IN  [x1 |-> X(c.x1), y1 |-> Y(c.y1), x2 |-> X(c.x2), y2 |-> Y(c.y2),
       conf |-> c.score, class |-> c.class]

\* The limit counts the suppressed ones as well.
Emit ==
  /\ stage = "emit"
  /\ IF place <= Limit /\ place <= Len(ranking)
     THEN /\ LET r == ranking[place]
             IN  detections' = IF r.index # 0 /\ r.score >= Threshold
                               THEN Append(detections, ToSource(candidates[r.index])) ELSE detections
          /\ place' = place + 1 /\ UNCHANGED stage
     ELSE stage' = "done" /\ UNCHANGED <<place, detections>>
  /\ UNCHANGED <<decoding, sorting, ranking, sorted>>

Process == Decode \/ Decoded \/ Enter \/ Sweep \/ PutKey \/ Sorted \/ Suppress \/ Emit

-----------------------------------------------------------------------------
(* Properties.                                                             *)

\* quick_sort_indice_inverse orders two parallel arrays by hand: afterwards
\* every candidate is there once, with its own score, and none stands behind
\* a worse one, equal scores included.
BestFirst ==
  stage \in {"suppress", "emit"} =>
    /\ {sorted[i].index : i \in DOMAIN sorted} = DOMAIN candidates
    /\ Len(sorted) = Len(candidates)
    /\ \A i \in DOMAIN sorted :
         /\ sorted[i].score = candidates[sorted[i].index].score
         /\ \A j \in 1 .. i - 1 : sorted[j].score >= sorted[i].score

\* nms leaves one box where several lie, whatever a chain of boxes does: the
\* boxes left are apart from each other, and each suppressed one overlaps a box
\* that is left and ranks before it.  An object may still be lost: to another
\* that lies where it does, of any class, or to the limit on what is shown.
OneBoxEach ==
  stage = "emit" =>
    LET Left   == {i \in DOMAIN ranking : ranking[i].index # 0}
        box(i) == candidates[sorted[i].index]
    IN  /\ \A i, j \in Left : i # j => ~Overlap(box(i), box(j))
        /\ \A i \in DOMAIN ranking \ Left :
             \E j \in Left : j < i /\ Overlap(box(j), box(i))

=============================================================================
