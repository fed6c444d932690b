--------------------------- MODULE ImageGeometry ---------------------------
(***************************************************************************)
(* What part of a source image a request reads and how large the answer is *)
(* (internal/iiif/image/v3/pipeline/pipeline.go), and the tiles that       *)
(* info.json offers (internal/iiif/image/v3/types/info.go).                *)
(*                                                                         *)
(* The code computes in float64.  Here numbers are exact, and an operation *)
(* whose operands are themselves rounded may go either way at a tie or at  *)
(* an integer: it returns the set of its possible results.                 *)
(***************************************************************************)
EXTENDS Integers

CONSTANT Unit   \* numbers in a request are counts of 1/Unit

ASSUME UnitIsPositive == Unit \in Nat \ {0}

\* math.Round, math.Floor and math.Ceil of a / b where b > 0 and a >= 0.
Round(a, b) == (2 * a + b) \div (2 * b)
Rounds(a, b) == {Round(a, b)} \cup (IF (2 * a + b) % (2 * b) = 0 THEN {Round(a, b) - 1} ELSE {})
Ceil(a, b) == (a + b - 1) \div b
Floors(a, b) == {a \div b} \cup (IF a % b = 0 THEN {a \div b - 1} ELSE {})
Ceils(a, b) == {Ceil(a, b)} \cup (IF a % b = 0 THEN {Ceil(a, b) + 1} ELSE {})

max1(v) == IF v < 1 THEN 1 ELSE v
clampInt(v, low, high) == IF v < low THEN low ELSE IF v > high THEN high ELSE v
---------------------------------------------------------------------------
\* A rectangle of pixels; an empty one stands for the error return.
Rect(left, top, w, h) == [left |-> left, top |-> top, w |-> w, h |-> h]
NoRect == Rect(0, 0, 0, 0)

\* Mutant: the position is compared with the size of the source after clipping only.
ClipWithoutCrop(left, top, w, h, srcW, srcH) ==
  IF left >= srcW \/ top >= srcH \/ w <= 0 \/ h <= 0 THEN NoRect ELSE Rect(left, top, w, h)

\* The end of resolveRegion: crop to the source, refuse what is outside or empty.
Clip(left, top, w, h, srcW, srcH) ==
  LET cw == IF left + w > srcW THEN srcW - left ELSE w
      ch == IF top + h > srcH THEN srcH - top ELSE h
  IN IF left >= srcW \/ top >= srcH \/ cw <= 0 \/ ch <= 0
       THEN NoRect
       ELSE Rect(left, top, cw, ch)

Square(srcW, srcH) ==
  LET side == IF srcH < srcW THEN srcH ELSE srcW
  IN Rect((srcW - side) \div 2, (srcH - side) \div 2, side, side)

\* int(r.X) drops the fraction.
Pixels(r, srcW, srcH) ==
  Clip(r.x \div Unit, r.y \div Unit, r.w \div Unit, r.h \div Unit, srcW, srcH)

\* math.Round(v / 100 * size)
Share(v, size) == Rounds(v * size, 100 * Unit)

resolveRegion(r, srcW, srcH) ==
  CASE r.kind = "full" -> {Rect(0, 0, srcW, srcH)}
    [] r.kind = "square" -> {Square(srcW, srcH)}
    [] r.kind = "pixels" -> {Pixels(r, srcW, srcH)}
    [] r.kind = "percent" ->
         {Clip(left, top, w, h, srcW, srcH) :
            left \in Share(r.x, srcW), top \in Share(r.y, srcH),
            w \in Share(r.w, srcW), h \in Share(r.h, srcH)}
---------------------------------------------------------------------------
\* The size of an output; an empty one stands for the error return.
Dims(w, h) == [w |-> w, h |-> h]
NoDims == Dims(0, 0)
Sizes == [w : Nat, h : Nat]

\* Mutant: a size equal to that of the region is taken for an enlargement.
EnlargesOrEquals(w, h, regionW, regionH) == w >= regionW \/ h >= regionH
Enlarges(w, h, regionW, regionH) == w > regionW \/ h > regionH

\* The width or height that keeps the aspect ratio.
Scaled(v, to, from) == max1(Round(v * to, from))

\* The height for the width of the box, or the width for its height if that is too
\* high.  Both are rounded from an aspect ratio that is itself a float.
BestFit(s, regionW, regionH) ==
  UNION {IF h > s.h
           THEN {Dims(w, s.h) : w \in Rounds(s.h * regionW, regionH)}
           ELSE {Dims(s.w, h)} : h \in Rounds(s.w * regionH, regionW)}

resolveSize(s, regionW, regionH) ==
  CASE s.kind \in {"max", "maxUp"} -> {Dims(regionW, regionH)}
    [] s.kind = "width" ->
         {IF ~s.upscale /\ s.w > regionW THEN NoDims
          ELSE Dims(s.w, Scaled(s.w, regionH, regionW))}
    [] s.kind = "height" ->
         {IF ~s.upscale /\ s.h > regionH THEN NoDims
          ELSE Dims(Scaled(s.h, regionW, regionH), s.h)}
    [] s.kind = "percent" ->
         IF ~s.upscale /\ s.percent > 100 * Unit THEN {NoDims}
         ELSE {Dims(max1(w), max1(h)) :
                 w \in Share(s.percent, regionW), h \in Share(s.percent, regionH)}
    [] s.kind = "wh" ->
         {IF ~s.upscale /\ Enlarges(s.w, s.h, regionW, regionH) THEN NoDims
          ELSE Dims(s.w, s.h)}
    [] s.kind = "bestFit" ->
         {IF ~s.upscale /\ Enlarges(d.w, d.h, regionW, regionH) THEN NoDims
          ELSE Dims(max1(d.w), max1(d.h)) : d \in BestFit(s, regionW, regionH)}

\* CheckSourcePixels, and the limit on the output: a limit of zero is none.
CheckSourcePixels(width, height, maxPixels) ==
  maxPixels > 0 => width > 0 /\ height > 0 /\ width <= maxPixels \div height
CheckOutputPixels(d, maxPixels) == maxPixels > 0 => d.w * d.h <= maxPixels
---------------------------------------------------------------------------
\* Whether the region is at least k times as large as the output, both ways.
Shrinks(k, region, out) == k * out.w <= region.w /\ k * out.h <= region.h

\* The smallest page with at least as many pixels as the output; page p is smaller
\* by the factor 2^p.  There is one such page: a set, like those above.
chooseJP2Page(pages, region, out) ==
  {p \in 0..(pages - 1) :
     /\ p > 0 => Shrinks(2^p, region, out)
     /\ \A q \in (p + 1)..(pages - 1) : ~Shrinks(2^q, region, out)}

\* One side of scaleRegionToLoadedPage: where a stretch of the full image lies on a
\* page of that size.
Span(start, length, full, page) ==
  {<<from, clampInt(to, from + 1, page)>> :
     from \in {clampInt(n, 0, page - 1) : n \in Floors(start * page, full)},
     to \in Ceils((start + length) * page, full)}

scaleRegionToLoadedPage(region, full, page) ==
  {Rect(x[1], y[1], x[2] - x[1], y[2] - y[1]) :
     x \in Span(region.left, region.w, full.w, page.w),
     y \in Span(region.top, region.h, full.h, page.h)}
---------------------------------------------------------------------------
\* The factors f that info.json offers tiles at: 1, and 2, 4, ... while max/f > tile.
pyramidScaleFactors(width, height, tile) ==
  LET larger == IF height > width THEN height ELSE width
  IN {1} \cup {f \in 2..larger : larger \div f > tile /\ \E k \in 1..f : f = 2^k}

\* The tile in a column and row of the image at factor f, and its size: what a
\* viewer that has read info.json asks for.
Tile(full, f, tile, column, row) ==
  Clip(column * tile * f, row * tile * f, tile * f, tile * f, full.w, full.h)
TileSize(t, f) == Dims(Ceil(t.w, f), Ceil(t.h, f))
---------------------------------------------------------------------------
\* Vocabulary of the properties: a region lies in an image and has pixels; one size
\* fits in another.
Inside(region, d) ==
  /\ region.left >= 0 /\ region.top >= 0 /\ region.w > 0 /\ region.h > 0
  /\ region.left + region.w <= d.w /\ region.top + region.h <= d.h
FitsIn(d, box) == d.w <= box.w /\ d.h <= box.h
=============================================================================
