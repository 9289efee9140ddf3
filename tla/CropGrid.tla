------------------------------ MODULE CropGrid ------------------------------
(***************************************************************************)
(* Regions of a picture in thousandths and their pixels, along one axis:   *)
(* both axes are cut alike.  Division rounds down, CeilDiv up.             *)
(***************************************************************************)
EXTENDS Naturals

CeilDiv(a, b) == (a + b - 1) \div b
Clamp(x, low, high) == IF x < low THEN low ELSE IF x > high THEN high ELSE x

\* What batch_grid_regions accepts.
Accepted(rows, cols, overlap) == rows >= 1 /\ cols >= 1 /\ overlap <= 250 /\ rows * cols <= 64

\* Mutant: the last thousandth of a part is taken for its end.
LastForEnd(part, parts, overlap) == Clamp(CeilDiv((part + 1) * 1000, parts) - 1 + overlap, 1, 999)
Low(part, parts, overlap) ==
  LET start == (part * 1000) \div parts IN IF start < overlap THEN 0 ELSE Clamp(start - overlap, 0, 999)
High(part, parts, overlap) == Clamp(CeilDiv((part + 1) * 1000, parts) + overlap, 1, 999)

\* NormalizedRegion, and its pixels in a picture of the given width.
validate(low, high) == low < high /\ high <= 999
scale_floor(value, width) == (value * width) \div 1000
scale_ceil(value, width) == CeilDiv(value * width, 1000)
Pixels(low, high, width) == scale_floor(low, width) .. scale_ceil(high, width) - 1

\* Whatever the number of parts, the overlap and the size of the picture: all parts are
\* regions that can be cropped and none is empty, neighbours leave no pixel out, and the
\* parts together show the picture from its first pixel to the last that a region can
\* name.  In pictures of a thousand pixels and more that is not the last one: a region
\* ends at 999 thousandths.
Covers(parts, overlap, width) ==
  /\ \A part \in 0 .. parts - 1 :
       /\ validate(Low(part, parts, overlap), High(part, parts, overlap))
       /\ Pixels(Low(part, parts, overlap), High(part, parts, overlap), width) # {}
  /\ UNION {Pixels(Low(part, parts, overlap), High(part, parts, overlap), width) : part \in 0 .. parts - 1}
       = 0 .. scale_ceil(999, width) - 1
  /\ width < 1000 => scale_ceil(999, width) = width

=============================================================================
