------------------------------ MODULE Detections ------------------------------
(* The geometry of boxes and the postprocessing of a detector's rows
   (src/edge/detect/postprocess.py): calculate_iou, non_max_suppression and
   detections_from_predictions.  Coordinates are integers, a ratio is a pair
   of integers and is compared by cross multiplication, and a threshold is in
   percent, so that nothing is rounded. *)
EXTENDS Lists, Integers, Sequences, SequencesExt

CONSTANTS ConfidenceThreshold,   \* percent
          NmsThreshold           \* percent

ASSUME ThresholdsAssumption == {ConfidenceThreshold, NmsThreshold} \subseteq 0 .. 100

Place == Int \X Int
Box   == Int \X Int \X Int \X Int
Rows  == [box : Box, conf : Int, class : STRING]

Smaller(a, b) == IF a <= b THEN a ELSE b
Larger(a, b)  == IF a <= b THEN b ELSE a

Area(box) == Larger(0, box[3] - box[1]) * Larger(0, box[4] - box[2])

\* calculate_iou: intersection over union as a pair, 0 when the union is empty.
Iou(a, b) ==
    LET inter == Area(<<Larger(a[1], b[1]), Larger(a[2], b[2]),
                        Smaller(a[3], b[3]), Smaller(a[4], b[4])>>)
        union == Area(a) + Area(b) - inter
    IN IF union <= 0 THEN [num |-> 0, den |-> 1] ELSE [num |-> inter, den |-> union]

Exceeds(iou, percent) == 100 * iou.num > percent * iou.den
Reaches(iou, percent) == 100 * iou.num >= percent * iou.den
IouLess(p, q)         == p.num * q.den < q.num * p.den

\* A row is [box, conf, class]; class_id comes as a float and is truncated.
\* The faulty variant forgets the class.
SuppressesAnyClass(kept, row) == Exceeds(Iou(row.box, kept.box), NmsThreshold)
Suppresses(kept, row) ==
    /\ kept.class = row.class
    /\ Exceeds(Iou(row.box, kept.box), NmsThreshold)

Confident(row) == row.conf >= ConfidenceThreshold

\* rows.sort(key=confidence, reverse=True) is stable.
MoreConfident(rows, i, j) ==
    \/ rows[i].conf > rows[j].conf
    \/ rows[i].conf = rows[j].conf /\ i < j

ByConfidence(rows) ==
    LET before(i, j) == MoreConfident(rows, i, j)
        order == Sorted({k \in DOMAIN rows : Confident(rows[k])}, before)
    IN Listed([k \in DOMAIN order |-> rows[order[k]]])

\* non_max_suppression: greedy, the most confident row first.
Keep(kept, row) ==
    IF \E k \in DOMAIN kept : Suppresses(kept[k], row) THEN kept ELSE Append(kept, row)
NonMaxSuppression(rows) == FoldLeft(Keep, <<>>, ByConfidence(rows))

\* _bbox_center, doubled to stay an integer.
Center(box) == <<box[1] + box[3], box[2] + box[4]>>

NoWorld == <<>>

\* detections_from_predictions: one Detection for each row kept, with no world
\* coordinate.  _class_name is one to one: a name that is missing is made of
\* the number.
DetectionsFrom(rows, device, timestamp) ==
    LET kept == NonMaxSuppression(rows)
    IN Listed([k \in DOMAIN kept |->
          [device |-> device, timestamp |-> timestamp, box |-> kept[k].box,
           conf |-> kept[k].conf, class |-> kept[k].class,
           pixel |-> Center(kept[k].box), world |-> NoWorld]])
===============================================================================
