------------------------- MODULE ImageServerProofs -------------------------
(***************************************************************************)
(* Proofs about ImageServer, for any number of requests, any images and    *)
(* any limits: the limiter loses no slot and gives none away twice, an     *)
(* info document describes an image the source was while the request ran,  *)
(* a tile it offers is served, what is extracted lies in what was loaded,  *)
(* and canonical URLs and keys name one request each.  They rest on what   *)
(* holds of the regions, sizes, pages and tiles of ImageGeometry for every *)
(* way the roundings that it leaves open may go.                           *)
(***************************************************************************)
EXTENDS ImageServer, FiniteSetTheorems, WellFoundedInduction, TLAPS

\* What the parser lets through: no number is negative, and no width or height is zero.
ParsedRegions ==
  [kind : {"full", "square", "pixels", "percent"}, x : Nat, y : Nat, w : Nat, h : Nat]
Positive == Nat \ {0}
---------------------------------------------------------------------------
\* A rounded quotient is within half of the exact one, above and below.
LEMMA RoundBounds ==
  ASSUME NEW a \in Nat, NEW b \in Positive, NEW n \in Rounds(a, b)
  PROVE  /\ n \in Nat
         /\ 2 * a <= 2 * (b * n) + b
         /\ 2 * (b * n) <= 2 * a + b
<1>1. /\ Round(a, b) \in Nat
      /\ 2 * (b * Round(a, b)) <= 2 * a + b
      /\ 2 * a + b < 2 * (b * Round(a, b)) + 2 * b
  BY SMT DEF Round, Positive
<1>2. CASE n = Round(a, b)
  BY <1>1, <1>2, SMT DEF Positive
<1>3. CASE (2 * a + b) % (2 * b) = 0 /\ n = Round(a, b) - 1
  <2>1. 2 * a + b = 2 * (b * Round(a, b))
    BY <1>3, SMT DEF Round, Positive
  <2>2. Round(a, b) >= 1
    BY <2>1, <1>1, SMT DEF Positive
  <2>3. b * n = b * Round(a, b) - b
    BY <1>1, <1>3, SMT DEF Positive
  <2> QED BY <2>1, <2>2, <2>3, <1>1, <1>3, SMT DEF Positive
<1> QED BY <1>2, <1>3 DEF Rounds

\* A quotient that is at most c is not rounded beyond c.
LEMMA RoundAtMost ==
  ASSUME NEW a \in Nat, NEW b \in Positive, NEW c \in Nat, a <= b * c, NEW n \in Rounds(a, b)
  PROVE  n <= c
<1>1. n \in Nat /\ 2 * (b * n) <= 2 * a + b
  BY RoundBounds
<1>2. SUFFICES ASSUME n >= c + 1 PROVE FALSE
  BY <1>1, SMT
<1>3. b * n >= b * c + b
  BY <1>1, <1>2, SMT DEF Positive
<1> QED BY <1>1, <1>3, SMT DEF Positive

\* Round itself is one of the results.
LEMMA RoundIsOne ==
  ASSUME NEW a, NEW b
  PROVE  Round(a, b) \in Rounds(a, b)
BY DEF Rounds
---------------------------------------------------------------------------
\* Clipping: the result is empty or lies in the source.
LEMMA ClipIsInside ==
  ASSUME NEW left \in Nat, NEW top \in Nat, NEW w \in Nat, NEW h \in Nat,
         NEW srcW \in Positive, NEW srcH \in Positive
  PROVE  LET region == Clip(left, top, w, h, srcW, srcH)
         IN region = NoRect \/ Inside(region, Dims(srcW, srcH))
BY SMT DEF Clip, Inside, Rect, NoRect, Dims, Positive

\* A region that is not refused lies in the source and has pixels, so that ExtractArea
\* can take it (resolveRegion).
THEOREM RegionIsInside ==
  ASSUME NEW srcW \in Positive, NEW srcH \in Positive, NEW r \in ParsedRegions,
         NEW region \in resolveRegion(r, srcW, srcH), region # NoRect
  PROVE  Inside(region, Dims(srcW, srcH))
<1>1. CASE r.kind = "full"
  <2>1. region = Rect(0, 0, srcW, srcH)
    BY <1>1 DEF resolveRegion
  <2> QED BY <2>1, SMT DEF Inside, Rect, Dims, Positive
<1>2. CASE r.kind = "square"
  <2>1. region = Square(srcW, srcH)
    BY <1>2 DEF resolveRegion
  <2> QED BY <2>1, SMT DEF Square, Inside, Rect, Dims, Positive
<1>3. CASE r.kind = "pixels"
  <2>1. region = Clip(r.x \div Unit, r.y \div Unit, r.w \div Unit, r.h \div Unit, srcW, srcH)
    BY <1>3 DEF resolveRegion, Pixels
  <2>2. {r.x \div Unit, r.y \div Unit, r.w \div Unit, r.h \div Unit} \subseteq Nat
    BY UnitIsPositive, SMT DEF ParsedRegions
  <2> QED BY <2>1, <2>2, ClipIsInside
<1>4. CASE r.kind = "percent"
  <2>1. PICK left \in Share(r.x, srcW), top \in Share(r.y, srcH),
             w \in Share(r.w, srcW), h \in Share(r.h, srcH) :
               region = Clip(left, top, w, h, srcW, srcH)
    BY <1>4 DEF resolveRegion
  <2>2. 100 * Unit \in Positive
    BY UnitIsPositive, SMT DEF Positive
  <2>3. {r.x * srcW, r.y * srcH, r.w * srcW, r.h * srcH} \subseteq Nat
    BY SMT DEF ParsedRegions, Positive
  <2>4. left \in Nat /\ top \in Nat /\ w \in Nat /\ h \in Nat
    BY <2>1, <2>2, <2>3, RoundBounds DEF Share
  <2> QED BY <2>1, <2>4, ClipIsInside
<1> QED BY <1>1, <1>2, <1>3, <1>4 DEF ParsedRegions
\* The sides and the position of a region are numbers, also of one that is refused.
Rectangles == [left : Nat, top : Nat, w : Nat, h : Nat]

LEMMA ClipIsRectangle ==
  ASSUME NEW left \in Nat, NEW top \in Nat, NEW w \in Nat, NEW h \in Nat,
         NEW srcW \in Positive, NEW srcH \in Positive
  PROVE  Clip(left, top, w, h, srcW, srcH) \in Rectangles
BY SMT DEF Clip, Rect, NoRect, Positive, Rectangles

LEMMA RegionIsRectangle ==
  ASSUME NEW srcW \in Positive, NEW srcH \in Positive, NEW r \in ParsedRegions,
         NEW region \in resolveRegion(r, srcW, srcH)
  PROVE  region \in Rectangles
<1>1. CASE r.kind = "full"
  <2>1. region = Rect(0, 0, srcW, srcH)
    BY <1>1 DEF resolveRegion
  <2> QED BY <2>1, SMT DEF Rect, Positive, Rectangles
<1>2. CASE r.kind = "square"
  <2>1. region = Square(srcW, srcH)
    BY <1>2 DEF resolveRegion
  <2> QED BY <2>1, SMT DEF Square, Rect, Positive, Rectangles
<1>3. CASE r.kind = "pixels"
  <2>1. region = Clip(r.x \div Unit, r.y \div Unit, r.w \div Unit, r.h \div Unit, srcW, srcH)
    BY <1>3 DEF resolveRegion, Pixels
  <2>2. {r.x \div Unit, r.y \div Unit, r.w \div Unit, r.h \div Unit} \subseteq Nat
    BY UnitIsPositive, SMT DEF ParsedRegions
  <2> QED BY <2>1, <2>2, ClipIsRectangle
<1>4. CASE r.kind = "percent"
  <2>1. PICK left \in Share(r.x, srcW), top \in Share(r.y, srcH),
             w \in Share(r.w, srcW), h \in Share(r.h, srcH) :
               region = Clip(left, top, w, h, srcW, srcH)
    BY <1>4 DEF resolveRegion
  <2>2. \A v \in Nat, size \in Positive : \A n \in Share(v, size) : n \in Nat
    <3>1. \A v \in Nat, size \in Positive : v * size \in Nat /\ 100 * Unit \in Positive
      BY UnitIsPositive, SMT DEF Positive
    <3> QED BY <3>1, RoundBounds DEF Share
  <2>3. left \in Nat /\ top \in Nat /\ w \in Nat /\ h \in Nat
    BY <2>1, <2>2 DEF ParsedRegions
  <2> QED BY <2>1, <2>3, ClipIsRectangle
<1> QED BY <1>1, <1>2, <1>3, <1>4 DEF ParsedRegions
---------------------------------------------------------------------------
\* A size the parser lets through.
ParsedSizes ==
  [kind : {"max", "maxUp", "width", "height", "percent", "wh", "bestFit"},
   w : Nat, h : Nat, percent : Nat, upscale : BOOLEAN]

\* The side that follows from the other one does not grow if the other does not.
LEMMA ScaledFits ==
  ASSUME NEW v \in Nat, NEW to \in Positive, NEW from \in Positive, v <= from
  PROVE  Scaled(v, to, from) <= to
<1>1. v * to \in Nat /\ v * to <= from * to
  BY SMT DEF Positive
<1>2. Round(v * to, from) <= to
  BY <1>1, RoundIsOne, RoundAtMost DEF Positive
<1>3. Round(v * to, from) \in Nat
  BY <1>1, RoundIsOne, RoundBounds
<1> QED BY <1>2, <1>3, SMT DEF Scaled, max1, Positive

\* Neither does a percentage of at most 100.
LEMMA ShareFits ==
  ASSUME NEW v \in Nat, NEW size \in Positive, v <= 100 * Unit, NEW n \in Share(v, size)
  PROVE  n \in Nat /\ max1(n) <= size
<1>1. 100 * Unit \in Positive /\ v * size \in Nat
  BY UnitIsPositive, SMT DEF Positive
<1>2. v * size <= (100 * Unit) * size
  BY UnitIsPositive, SMT DEF Positive
<1>3. n \in Nat /\ n <= size
  BY <1>1, <1>2, RoundBounds, RoundAtMost DEF Share, Positive
<1> QED BY <1>3, SMT DEF max1, Positive

\* Without ^ an image is never enlarged, whatever the rounding (resolveSize).
THEOREM NothingIsEnlarged ==
  ASSUME NEW regionW \in Positive, NEW regionH \in Positive, NEW s \in ParsedSizes, ~s.upscale,
         NEW d \in resolveSize(s, regionW, regionH)
  PROVE  FitsIn(d, Dims(regionW, regionH))
<1> DEFINE box == Dims(regionW, regionH)
<1>1. FitsIn(NoDims, box) /\ FitsIn(box, box)
  BY SMT DEF FitsIn, NoDims, Dims, Positive
<1>2. CASE s.kind \in {"max", "maxUp"}
  <2>1. d = box BY <1>2 DEF resolveSize
  <2> QED BY <2>1, <1>1
<1>3. CASE s.kind = "width"
  <2>1. d = NoDims \/ (s.w <= regionW /\ d = Dims(s.w, Scaled(s.w, regionH, regionW)))
    BY <1>3, SMT DEF resolveSize, ParsedSizes, Positive
  <2>2. s.w <= regionW => Scaled(s.w, regionH, regionW) <= regionH
    BY ScaledFits DEF ParsedSizes
  <2> QED BY <2>1, <2>2, <1>1 DEF FitsIn, Dims
<1>4. CASE s.kind = "height"
  <2>1. d = NoDims \/ (s.h <= regionH /\ d = Dims(Scaled(s.h, regionW, regionH), s.h))
    BY <1>4, SMT DEF resolveSize, ParsedSizes, Positive
  <2>2. s.h <= regionH => Scaled(s.h, regionW, regionH) <= regionW
    BY ScaledFits DEF ParsedSizes
  <2> QED BY <2>1, <2>2, <1>1 DEF FitsIn, Dims
<1>5. CASE s.kind = "percent"
  <2>1. CASE s.percent > 100 * Unit
    <3>1. d = NoDims BY <1>5, <2>1 DEF resolveSize
    <3> QED BY <3>1, <1>1
  <2>2. CASE ~(s.percent > 100 * Unit)
    <3>1. PICK w \in Share(s.percent, regionW), h \in Share(s.percent, regionH) :
            d = Dims(max1(w), max1(h))
      BY <1>5, <2>2 DEF resolveSize
    <3>2. s.percent \in Nat /\ s.percent <= 100 * Unit
      BY <2>2, UnitIsPositive, SMT DEF ParsedSizes
    <3>3. max1(w) <= regionW /\ max1(h) <= regionH
      BY <3>2, ShareFits
    <3> QED BY <3>1, <3>3 DEF FitsIn, Dims
  <2> QED BY <2>1, <2>2
<1>6. CASE s.kind = "wh"
  <2>1. d = NoDims \/ (d = Dims(s.w, s.h) /\ ~Enlarges(s.w, s.h, regionW, regionH))
    BY <1>6 DEF resolveSize
  <2> QED BY <2>1, <1>1, SMT DEF FitsIn, Dims, Enlarges, ParsedSizes, Positive
<1>7. CASE s.kind = "bestFit"
  <2>1. PICK e \in BestFit(s, regionW, regionH) :
          d = IF Enlarges(e.w, e.h, regionW, regionH) THEN NoDims ELSE Dims(max1(e.w), max1(e.h))
    BY <1>7 DEF resolveSize
  <2>2. e.w \in Nat /\ e.h \in Nat
    <3>1. s.w * regionH \in Nat /\ s.h * regionW \in Nat /\ s.w \in Nat /\ s.h \in Nat
      BY SMT DEF ParsedSizes, Positive
    <3>2. PICK h \in Rounds(s.w * regionH, regionW) :
            e \in IF h > s.h THEN {Dims(w, s.h) : w \in Rounds(s.h * regionW, regionH)}
                             ELSE {Dims(s.w, h)}
      BY DEF BestFit
    <3>3. h \in Nat /\ \A w \in Rounds(s.h * regionW, regionH) : w \in Nat
      BY <3>1, RoundBounds
    <3> QED BY <3>1, <3>2, <3>3 DEF Dims
  <2> QED BY <2>1, <2>2, <1>1, SMT DEF FitsIn, Dims, NoDims, Enlarges, max1, Positive
<1> QED BY <1>2, <1>3, <1>4, <1>5, <1>6, <1>7 DEF ParsedSizes

\* A best fit stays in its box, enlarged or not, although the second side is rounded
\* from a float and the choice of the side depends on another rounding (resolveSize).
THEOREM BestFitIsConfined ==
  ASSUME NEW regionW \in Positive, NEW regionH \in Positive,
         NEW s \in ParsedSizes, s.kind = "bestFit", s.w > 0, s.h > 0,
         NEW d \in resolveSize(s, regionW, regionH)
  PROVE  FitsIn(d, Dims(s.w, s.h))
<1>1. s.w \in Positive /\ s.h \in Positive /\ s.w * regionH \in Nat /\ s.h * regionW \in Nat
  BY SMT DEF ParsedSizes, Positive
<1>2. PICK e \in BestFit(s, regionW, regionH) :
        d = NoDims \/ d = Dims(max1(e.w), max1(e.h))
  BY DEF resolveSize
<1>3. PICK h \in Rounds(s.w * regionH, regionW) :
        e \in IF h > s.h THEN {Dims(w, s.h) : w \in Rounds(s.h * regionW, regionH)}
                         ELSE {Dims(s.w, h)}
  BY DEF BestFit
<1>4. h \in Nat /\ 2 * (regionW * h) <= 2 * (s.w * regionH) + regionW
  BY <1>1, RoundBounds
<1>5. CASE h > s.h
  <2>1. PICK w \in Rounds(s.h * regionW, regionH) : e = Dims(w, s.h)
    BY <1>3, <1>5
  <2>2. w \in Nat
    BY <1>1, RoundBounds
  <2>3. regionW * h >= regionW * s.h + regionW
    BY <1>1, <1>4, <1>5, SMT DEF Positive
  <2>4. s.h * regionW <= regionH * s.w
    BY <1>1, <1>4, <2>3, SMT DEF Positive
  <2>5. w <= s.w
    BY <1>1, <2>4, RoundAtMost DEF Positive
  <2> QED BY <1>1, <1>2, <2>1, <2>2, <2>5, SMT DEF FitsIn, Dims, NoDims, max1, Positive
<1>6. CASE ~(h > s.h)
  <2>1. e = Dims(s.w, h)
    BY <1>3, <1>6
  <2> QED BY <1>1, <1>2, <1>4, <1>6, <2>1, SMT DEF FitsIn, Dims, NoDims, max1, Positive
<1> QED BY <1>5, <1>6
\* Sizes are numbers, also those that are refused.
LEMMA SizeIsTyped ==
  ASSUME NEW regionW \in Positive, NEW regionH \in Positive, NEW s \in ParsedSizes,
         NEW d \in resolveSize(s, regionW, regionH)
  PROVE  d \in Sizes
<1>0. /\ {regionW, regionH, s.w, s.h, s.percent} \subseteq Nat
      /\ \A a \in Nat, b \in Nat : a * b \in Nat
      /\ \A n \in Nat : max1(n) \in Nat
      /\ \A v \in Nat, w \in Nat : Dims(v, w) \in Sizes
      /\ NoDims \in Sizes
  BY SMT DEF ParsedSizes, Positive, max1, Dims, NoDims, Sizes
<1>1. CASE s.kind \in {"max", "maxUp"}
  BY <1>0, <1>1 DEF resolveSize
<1>2. CASE s.kind = "width"
  <2>1. Scaled(s.w, regionH, regionW) \in Nat
    BY <1>0, RoundIsOne, RoundBounds DEF Scaled
  <2> QED BY <1>0, <1>2, <2>1 DEF resolveSize
<1>3. CASE s.kind = "height"
  <2>1. Scaled(s.h, regionW, regionH) \in Nat
    BY <1>0, RoundIsOne, RoundBounds DEF Scaled
  <2> QED BY <1>0, <1>3, <2>1 DEF resolveSize
<1>4. CASE s.kind = "percent"
  <2>1. CASE s.percent > 100 * Unit /\ ~s.upscale
    BY <1>0, <1>4, <2>1 DEF resolveSize
  <2>2. CASE ~(s.percent > 100 * Unit /\ ~s.upscale)
    <3>1. PICK w \in Share(s.percent, regionW), h \in Share(s.percent, regionH) :
            d = Dims(max1(w), max1(h))
      BY <1>4, <2>2 DEF resolveSize
    <3>2. 100 * Unit \in Positive
      BY UnitIsPositive, SMT DEF Positive
    <3>3. w \in Nat /\ h \in Nat
      BY <1>0, <3>2, RoundBounds DEF Share
    <3> QED BY <1>0, <3>1, <3>3
  <2> QED BY <2>1, <2>2
<1>5. CASE s.kind = "wh"
  BY <1>0, <1>5 DEF resolveSize
<1>6. CASE s.kind = "bestFit"
  <2>1. PICK e \in BestFit(s, regionW, regionH) : d = NoDims \/ d = Dims(max1(e.w), max1(e.h))
    BY <1>6 DEF resolveSize
  <2>2. PICK h \in Rounds(s.w * regionH, regionW) :
          e \in IF h > s.h THEN {Dims(w, s.h) : w \in Rounds(s.h * regionW, regionH)}
                           ELSE {Dims(s.w, h)}
    BY DEF BestFit
  <2>3. h \in Nat /\ \A w \in Rounds(s.h * regionW, regionH) : w \in Nat
    BY <1>0, RoundBounds
  <2>4. e.w \in Nat /\ e.h \in Nat
    BY <1>0, <2>2, <2>3 DEF Dims
  <2> QED BY <1>0, <2>1, <2>4
<1> QED BY <1>1, <1>2, <1>3, <1>4, <1>5, <1>6 DEF ParsedSizes
---------------------------------------------------------------------------
\* Floor and ceiling are below and above the exact quotient, exact or not.
LEMMA CeilBounds ==
  ASSUME NEW a \in Nat, NEW b \in Positive
  PROVE  Ceil(a, b) \in Nat /\ a <= b * Ceil(a, b) /\ b * Ceil(a, b) < a + b
BY SMT DEF Ceil, Positive

LEMMA FloorsBelow ==
  ASSUME NEW a \in Nat, NEW b \in Positive, NEW n \in Floors(a, b)
  PROVE  n \in Int /\ b * n <= a
<1>1. a \div b \in Nat /\ b * (a \div b) <= a
  BY SMT DEF Positive
<1>2. n = a \div b \/ n = a \div b - 1
  BY DEF Floors
<1>3. b * (a \div b - 1) = b * (a \div b) - b
  BY <1>1, SMT DEF Positive
<1> QED BY <1>1, <1>2, <1>3, SMT DEF Positive

LEMMA CeilsAbove ==
  ASSUME NEW a \in Nat, NEW b \in Positive, NEW n \in Ceils(a, b)
  PROVE  n \in Nat /\ a <= b * n
<1>1. n = Ceil(a, b) \/ n = Ceil(a, b) + 1
  BY DEF Ceils
<1>2. Ceil(a, b) \in Nat /\ a <= b * Ceil(a, b)
  BY CeilBounds
<1>3. b * (Ceil(a, b) + 1) = b * Ceil(a, b) + b
  BY <1>2, SMT DEF Positive
<1> QED BY <1>1, <1>2, <1>3, SMT DEF Positive
---------------------------------------------------------------------------
\* A stretch of a page is not empty and ends within it.
LEMMA SpanIsInside ==
  ASSUME NEW start \in Nat, NEW length \in Nat, NEW full \in Positive, NEW page \in Positive,
         NEW x \in Span(start, length, full, page)
  PROVE  x[1] \in Nat /\ x[2] \in Nat /\ x[1] < x[2] /\ x[2] <= page
<1>1. PICK n \in Floors(start * page, full), c \in Ceils((start + length) * page, full) :
        x = <<clampInt(n, 0, page - 1), clampInt(c, clampInt(n, 0, page - 1) + 1, page)>>
  BY DEF Span
<1>2. start * page \in Nat /\ (start + length) * page \in Nat
  BY SMT DEF Positive
<1>3. n \in Int /\ c \in Nat
  BY <1>2, FloorsBelow, CeilsAbove
<1>4. x[1] = clampInt(n, 0, page - 1) /\ x[2] = clampInt(c, x[1] + 1, page)
  BY <1>1
<1>5. x[1] \in Nat /\ x[1] <= page - 1
  BY <1>3, <1>4, SMT DEF clampInt, Positive
<1> QED BY <1>3, <1>4, <1>5, SMT DEF clampInt, Positive

\* A stretch of the image k * n long is at least n long on a page k times as small.
LEMMA SpanIsLongEnough ==
  ASSUME NEW start \in Nat, NEW length \in Nat, NEW full \in Positive, start + length <= full,
         NEW k \in Positive, NEW n \in Nat, k * n <= length,
         NEW page \in Positive, page = Ceil(full, k),
         NEW x \in Span(start, length, full, page)
  PROVE  n <= x[2] - x[1]
<1>1. PICK low \in Floors(start * page, full), high \in Ceils((start + length) * page, full) :
        x = <<clampInt(low, 0, page - 1), clampInt(high, clampInt(low, 0, page - 1) + 1, page)>>
  BY DEF Span
<1>2. start * page \in Nat /\ (start + length) * page \in Nat
  BY SMT DEF Positive
<1>3. low \in Int /\ full * low <= start * page
  BY <1>2, FloorsBelow
<1>4. high \in Nat /\ (start + length) * page <= full * high
  BY <1>2, CeilsAbove
<1>5. x[1] = clampInt(low, 0, page - 1) /\ x[2] = clampInt(high, x[1] + 1, page)
  BY <1>1
<1>6. x[1] \in Nat /\ x[2] \in Nat
  BY SpanIsInside
<1>7. full * x[1] <= start * page
  <2>1. x[1] = 0 \/ x[1] <= low
    BY <1>3, <1>5, SMT DEF clampInt, Positive
  <2>2. CASE x[1] = 0
    BY <1>2, <2>2, SMT DEF Positive
  <2>3. CASE x[1] <= low
    <3>1. full * x[1] <= full * low
      BY <1>3, <1>6, <2>3, SMT DEF Positive
    <3>2. full * x[1] \in Int /\ full * low \in Int
      BY <1>3, <1>6, SMT DEF Positive
    <3> QED BY <1>2, <1>3, <3>1, <3>2, SMT
  <2> QED BY <2>1, <2>2, <2>3
<1>8. (start + length) * page <= full * x[2]
  <2>1. x[2] = page \/ high <= x[2]
    BY <1>4, <1>5, <1>6, SMT DEF clampInt, Positive
  <2>2. CASE x[2] = page
    BY <2>2, SMT DEF Positive
  <2>3. CASE high <= x[2]
    <3>1. full * high <= full * x[2]
      BY <1>4, <1>6, <2>3, SMT DEF Positive
    <3>2. full * high \in Int /\ full * x[2] \in Int
      BY <1>4, <1>6, SMT DEF Positive
    <3> QED BY <1>2, <1>4, <3>1, <3>2, SMT
  <2> QED BY <2>1, <2>2, <2>3
<1>9. n * full <= length * page
  <2>1. full <= k * page
    BY CeilBounds DEF Positive
  <2>2. n * full <= n * (k * page)
    BY <2>1, SMT DEF Positive
  <2>3. n * (k * page) = (k * n) * page
    BY SMT DEF Positive
  <2>4. (k * n) * page <= length * page
    BY SMT DEF Positive
  <2>5. {n * full, n * (k * page), length * page} \subseteq Int
    BY SMT DEF Positive
  <2> QED BY <2>2, <2>3, <2>4, <2>5, SMT
<1>10. n * full <= full * (x[2] - x[1])
  <2>1. (start + length) * page = start * page + length * page
    BY SMT DEF Positive
  <2>2. full * (x[2] - x[1]) = full * x[2] - full * x[1]
    BY <1>6, SMT DEF Positive
  <2>3. {start * page, length * page, full * x[1], full * x[2], n * full} \subseteq Int
    BY <1>6, SMT DEF Positive
  <2> QED BY <1>7, <1>8, <1>9, <2>1, <2>2, <2>3, SMT
<1>11. SUFFICES ASSUME n >= x[2] - x[1] + 1 PROVE FALSE
  BY <1>6, SMT
<1>12. n * full >= full * (x[2] - x[1]) + full
  BY <1>6, <1>11, SMT DEF Positive
<1>13. full * (x[2] - x[1]) \in Int /\ n * full \in Int
  BY <1>6, SMT DEF Positive
<1> QED BY <1>10, <1>12, <1>13, SMT DEF Positive

\* The part of a page that stands for a region lies in the page, even if the page is one
\* of another image than the region was computed for (scaleRegionToLoadedPage).
THEOREM PageRegionIsInside ==
  ASSUME NEW fullW \in Positive, NEW fullH \in Positive, NEW pageW \in Positive, NEW pageH \in Positive,
         NEW region, region.left \in Nat, region.top \in Nat, region.w \in Nat, region.h \in Nat,
         NEW part \in scaleRegionToLoadedPage(region, Dims(fullW, fullH), Dims(pageW, pageH))
  PROVE  Inside(part, Dims(pageW, pageH))
<1>1. PICK x \in Span(region.left, region.w, fullW, pageW), y \in Span(region.top, region.h, fullH, pageH) :
        part = Rect(x[1], y[1], x[2] - x[1], y[2] - y[1])
  BY DEF scaleRegionToLoadedPage, Dims
<1>2. x[1] \in Nat /\ x[2] \in Nat /\ x[1] < x[2] /\ x[2] <= pageW
  BY SpanIsInside
<1>3. y[1] \in Nat /\ y[2] \in Nat /\ y[1] < y[2] /\ y[2] <= pageH
  BY SpanIsInside
<1> QED BY <1>1, <1>2, <1>3, SMT DEF Inside, Rect, Dims, Positive

LEMMA PageRegionIsRectangle ==
  ASSUME NEW fullW \in Positive, NEW fullH \in Positive, NEW pageW \in Positive, NEW pageH \in Positive,
         NEW region, region.left \in Nat, region.top \in Nat, region.w \in Nat, region.h \in Nat,
         NEW part \in scaleRegionToLoadedPage(region, Dims(fullW, fullH), Dims(pageW, pageH))
  PROVE  part \in Rectangles
<1>1. PICK x \in Span(region.left, region.w, fullW, pageW), y \in Span(region.top, region.h, fullH, pageH) :
        part = Rect(x[1], y[1], x[2] - x[1], y[2] - y[1])
  BY DEF scaleRegionToLoadedPage, Dims
<1>2. /\ x[1] \in Nat /\ x[2] \in Nat /\ x[1] < x[2]
      /\ y[1] \in Nat /\ y[2] \in Nat /\ y[1] < y[2]
  BY SpanIsInside
<1> QED BY <1>1, <1>2, SMT DEF Rect, Rectangles

\* A page k times as small, chosen because the region is at least k times the output,
\* still has the pixels of the output: a smaller page never costs detail
\* (chooseJP2Page, scaleRegionToLoadedPage).
THEOREM PageHasThePixels ==
  ASSUME NEW fullW \in Positive, NEW fullH \in Positive, NEW k \in Positive,
         NEW region, region.left \in Nat, region.top \in Nat, region.w \in Nat, region.h \in Nat,
         Inside(region, Dims(fullW, fullH)),
         NEW out, out.w \in Nat, out.h \in Nat, Shrinks(k, region, out),
         NEW part \in scaleRegionToLoadedPage(region, Dims(fullW, fullH), Dims(Ceil(fullW, k), Ceil(fullH, k)))
  PROVE  FitsIn(out, part)
<1>1. Ceil(fullW, k) \in Positive /\ Ceil(fullH, k) \in Positive
  <2>1. /\ Ceil(fullW, k) \in Nat /\ fullW <= k * Ceil(fullW, k)
        /\ Ceil(fullH, k) \in Nat /\ fullH <= k * Ceil(fullH, k)
    BY CeilBounds DEF Positive
  <2>2. k * 0 = 0
    BY SMT DEF Positive
  <2> QED BY <2>1, <2>2, SMT DEF Positive
<1>2. PICK x \in Span(region.left, region.w, fullW, Ceil(fullW, k)),
           y \in Span(region.top, region.h, fullH, Ceil(fullH, k)) :
        part = Rect(x[1], y[1], x[2] - x[1], y[2] - y[1])
  BY DEF scaleRegionToLoadedPage, Dims
<1>3. /\ region.left + region.w <= fullW /\ k * out.w <= region.w
      /\ region.top + region.h <= fullH /\ k * out.h <= region.h
  BY DEF Inside, Dims, Shrinks
<1>4. out.w <= x[2] - x[1]
  BY <1>1, <1>3, SpanIsLongEnough
<1>5. out.h <= y[2] - y[1]
  BY <1>1, <1>3, SpanIsLongEnough
<1> QED BY <1>2, <1>4, <1>5 DEF FitsIn, Rect
---------------------------------------------------------------------------
\* Counting in units and back loses nothing.
LEMMA WholeUnits ==
  ASSUME NEW n \in Nat
  PROVE  (n * Unit) \div Unit = n
BY UnitIsPositive, SMT

\* The region and the size of a request for the tile t at factor f.
AsksFor(r, s, t, f) ==
  /\ r.kind = "pixels"
  /\ r.x = t.left * Unit /\ r.y = t.top * Unit /\ r.w = t.w * Unit /\ r.h = t.h * Unit
  /\ s.kind = "wh" /\ s.w = TileSize(t, f).w /\ s.h = TileSize(t, f).h

\* A tile is its own region, its size is no enlargement of it, and has at most as many
\* pixels as a whole tile: where those are allowed, the request of a viewer for a tile
\* that info.json offers is not refused, and is answered in that size (resolveRegion,
\* resolveSize, BuildLevel2Info).
THEOREM TileIsServed ==
  ASSUME NEW fullW \in Positive, NEW fullH \in Positive, NEW f \in Positive, NEW tile \in Positive,
         NEW column \in Nat, NEW row \in Nat,
         NEW t, t = Tile(Dims(fullW, fullH), f, tile, column, row), t # NoRect,
         NEW r \in ParsedRegions, NEW s \in ParsedSizes, AsksFor(r, s, t, f),
         NEW maxPixels \in Nat, tile * tile <= maxPixels
  PROVE  /\ resolveRegion(r, fullW, fullH) = {t}
         /\ ~Enlarges(s.w, s.h, t.w, t.h)
         /\ resolveSize(s, t.w, t.h) = {TileSize(t, f)}
         /\ TileSize(t, f) # NoDims /\ CheckOutputPixels(TileSize(t, f), maxPixels)
<1> USE DEF AsksFor
<1> DEFINE left == column * tile * f
           top == row * tile * f
           side == tile * f
<1>1. left \in Nat /\ top \in Nat /\ side \in Positive
  BY SMT DEF Positive
<1>2. t = Clip(left, top, side, side, fullW, fullH)
  BY DEF Tile, Dims
<1> HIDE DEF left, top, side
<1>3. /\ left < fullW /\ top < fullH
      /\ t.left = left /\ t.top = top
      /\ t.w \in Positive /\ t.w <= side /\ left + t.w <= fullW
      /\ t.h \in Positive /\ t.h <= side /\ top + t.h <= fullH
      /\ t = Rect(left, top, t.w, t.h)
  BY <1>1, <1>2, SMT DEF Clip, Rect, NoRect, Positive
<1>4. resolveRegion(r, fullW, fullH) = {t}
  <2>1. Pixels(r, fullW, fullH) = Clip(left, top, t.w, t.h, fullW, fullH)
    BY <1>1, <1>3, WholeUnits DEF Pixels, Positive
  <2>2. Clip(left, top, t.w, t.h, fullW, fullH) = Rect(left, top, t.w, t.h)
    BY <1>1, <1>3, SMT DEF Clip, Positive
  <2> QED BY <1>3, <2>1, <2>2 DEF resolveRegion
<1>5. /\ Ceil(t.w, f) \in Positive /\ Ceil(t.w, f) <= t.w /\ Ceil(t.w, f) <= tile
      /\ Ceil(t.h, f) \in Positive /\ Ceil(t.h, f) <= t.h /\ Ceil(t.h, f) <= tile
  <2>1. \A v \in Positive : v <= side =>
          Ceil(v, f) \in Positive /\ Ceil(v, f) <= v /\ Ceil(v, f) <= tile
    <3>1. SUFFICES ASSUME NEW v \in Positive, v <= side
                   PROVE  Ceil(v, f) \in Positive /\ Ceil(v, f) <= v /\ Ceil(v, f) <= tile
      OBVIOUS
    <3>2. Ceil(v, f) \in Nat /\ v <= f * Ceil(v, f) /\ f * Ceil(v, f) < v + f
      BY CeilBounds DEF Positive
    <3>3. Ceil(v, f) # 0
      BY <3>2, SMT DEF Positive
    <3>4. \A c \in Nat : v <= f * c => Ceil(v, f) <= c
      <4>1. SUFFICES ASSUME NEW c \in Nat, v <= f * c, Ceil(v, f) >= c + 1 PROVE FALSE
        BY <3>2, SMT
      <4>2. f * Ceil(v, f) >= f * c + f
        BY <3>2, <4>1, SMT DEF Positive
      <4> QED BY <3>2, <4>1, <4>2, SMT DEF Positive
    <3>5. v <= f * v /\ v <= f * tile
      BY <3>1, SMT DEF side, Positive
    <3> QED BY <3>2, <3>3, <3>4, <3>5 DEF Positive
  <2> QED BY <1>3, <2>1
<1>6. TileSize(t, f) = Dims(Ceil(t.w, f), Ceil(t.h, f))
  BY DEF TileSize
<1>7. ~Enlarges(s.w, s.h, t.w, t.h)
  <2>1. s.w = Ceil(t.w, f) /\ s.h = Ceil(t.h, f)
    BY <1>6 DEF Dims
  <2> QED BY <1>3, <1>5, <2>1, SMT DEF Enlarges, Positive
<1>8. resolveSize(s, t.w, t.h) = {TileSize(t, f)}
  <2>1. s.w = Ceil(t.w, f) /\ s.h = Ceil(t.h, f)
    BY <1>6 DEF Dims
  <2> QED BY <1>6, <1>7, <2>1 DEF resolveSize
<1>9. TileSize(t, f) # NoDims
  BY <1>5, <1>6, SMT DEF NoDims, Dims, Positive
<1>10. CheckOutputPixels(TileSize(t, f), maxPixels)
  <2>1. Ceil(t.w, f) * Ceil(t.h, f) <= tile * tile
    <3>1. Ceil(t.w, f) * Ceil(t.h, f) <= tile * Ceil(t.h, f)
      BY <1>5, SMT DEF Positive
    <3>2. tile * Ceil(t.h, f) <= tile * tile
      BY <1>5, SMT DEF Positive
    <3>3. {Ceil(t.w, f) * Ceil(t.h, f), tile * Ceil(t.h, f), tile * tile} \subseteq Int
      BY <1>5, SMT DEF Positive
    <3> QED BY <3>1, <3>2, <3>3, SMT
  <2>2. Ceil(t.w, f) * Ceil(t.h, f) \in Int /\ tile * tile \in Int
    BY <1>5, SMT DEF Positive
  <2> QED BY <1>6, <2>1, <2>2, SMT DEF CheckOutputPixels, Dims
<1> QED BY <1>4, <1>7, <1>8, <1>9, <1>10
---------------------------------------------------------------------------
\* The inductive invariant of the limiter: each request is at some step, and the
\* counter is the number of those that work.
Counted ==
  /\ pc \in [Requests -> Steps]
  /\ inUse \in Int
  /\ SlotsAreHeld

Workers == {r \in Requests : pc[r] \in Working}
---------------------------------------------------------------------------
\* The set of workers is finite, and has one member more after a step into the work,
\* one fewer after a step out of it, and the same members after any other.
LEMMA WorkersAreFinite == IsFiniteSet(Workers) /\ Cardinality(Workers) \in Nat
BY RequestsAreFinite, FS_Subset, FS_CardinalityType DEF Workers

LEMMA EntersWork ==
  ASSUME pc \in [Requests -> Steps], NEW r \in Requests, NEW step \in Working,
         pc[r] \notin Working, pc' = [pc EXCEPT ![r] = step]
  PROVE  Cardinality(Workers') = Cardinality(Workers) + 1
<1>1. Workers' = Workers \cup {r} /\ r \notin Workers
  BY DEF Workers
<1> QED BY <1>1, WorkersAreFinite, FS_AddElement

LEMMA LeavesWork ==
  ASSUME pc \in [Requests -> Steps], NEW r \in Requests, NEW step \in Steps,
         pc[r] \in Working, step \notin Working, pc' = [pc EXCEPT ![r] = step]
  PROVE  Cardinality(Workers') = Cardinality(Workers) - 1
<1>1. Workers' = Workers \ {r} /\ r \in Workers
  BY DEF Workers
<1> QED BY <1>1, WorkersAreFinite, FS_RemoveElement

LEMMA StaysInPlace ==
  ASSUME pc \in [Requests -> Steps], NEW r \in Requests, NEW step \in Steps,
         pc[r] \in Working <=> step \in Working, pc' = [pc EXCEPT ![r] = step]
  PROVE  Cardinality(Workers') = Cardinality(Workers)
<1>1. Workers' = Workers
  BY DEF Workers
<1> QED BY <1>1
---------------------------------------------------------------------------
\* What a step does to the count, by what it does to the request that takes it.
LEMMA SlotTaken ==
  ASSUME Counted, NEW r \in Requests, NEW step \in Working, pc[r] \notin Working,
         pc' = [pc EXCEPT ![r] = step],
         Limited => inUse < MaxConcurrent,
         inUse' = IF Limited THEN inUse + 1 ELSE inUse
  PROVE  Counted'
<1>1. Cardinality(Workers') = Cardinality(Workers) + 1
  BY EntersWork DEF Counted
<1>2. pc' \in [Requests -> Steps]
  BY DEF Counted, Steps
<1>4. inUse' \in Int
  BY SMT DEF Counted
<1>3. SlotsAreHeld'
  BY <1>1, Limits, SMT DEF Counted, SlotsAreHeld, Workers, Limited
<1> QED BY <1>2, <1>3, <1>4 DEF Counted

LEMMA SlotGivenBack ==
  ASSUME Counted, NEW r \in Requests, NEW step \in Steps, pc[r] \in Working, step \notin Working,
         pc' = [pc EXCEPT ![r] = step], Release
  PROVE  Counted'
<1>1. Cardinality(Workers') = Cardinality(Workers) - 1
  BY LeavesWork DEF Counted
<1>2. pc' \in [Requests -> Steps]
  BY DEF Counted
<1>4. inUse' \in Int
  BY SMT DEF Counted, Release
<1>3. SlotsAreHeld'
  BY <1>1, Limits, SMT DEF Counted, SlotsAreHeld, Workers, Limited, Release
<1> QED BY <1>2, <1>3, <1>4 DEF Counted

LEMMA SlotsUntouched ==
  ASSUME Counted, NEW r \in Requests, NEW step \in Steps, pc[r] \in Working <=> step \in Working,
         pc' = [pc EXCEPT ![r] = step], UNCHANGED inUse
  PROVE  Counted'
<1>1. Cardinality(Workers') = Cardinality(Workers)
  BY StaysInPlace DEF Counted
<1>2. pc' \in [Requests -> Steps] /\ inUse' \in Int
  BY DEF Counted
<1>3. SlotsAreHeld'
  BY <1>1 DEF Counted, SlotsAreHeld, Workers, Limited
<1> QED BY <1>2, <1>3 DEF Counted

LEMMA FinishGivesBack ==
  ASSUME Counted, NEW r \in Requests, pc[r] \in Working, NEW outcome, NEW d, Finish(r, outcome, d)
  PROVE  Counted'
<1>1. pc' = [pc EXCEPT ![r] = "answered"] /\ Release
  BY DEF Finish, Answer
<1>2. "answered" \in Steps \ Working
  BY DEF Steps, Working
<1> QED BY <1>1, <1>2, SlotGivenBack

LEMMA WorkGoesOn ==
  ASSUME Counted, NEW r \in Requests, pc[r] \in Working, NEW step \in Working, NEW locals,
         Continue(r, step, locals), UNCHANGED inUse
  PROVE  Counted'
<1>1. step \in Steps /\ pc' = [pc EXCEPT ![r] = step]
  BY DEF Steps, Continue
<1> QED BY <1>1, SlotsUntouched
---------------------------------------------------------------------------
\* What the other properties rest on.  First the types.
DimsAt(id, v) == Dims(Images[id][v].w, Images[id][v].h)
Parsed == {Parse(path) : path \in Paths} \cup {ErrSyntax}
Jobs ==
  [meta : Nat, file : Nat, full : Sizes, pages : Nat, page : Nat, loaded : Sizes,
   rect : Rectangles, out : Sizes]
Outcomes ==
  {"none", "syntax", "redirect", "failed", "busy", "unsupported", "large", "refused", "served"}
Answers == [outcome : Outcomes, dims : Sizes, full : Sizes]

Typed ==
  /\ current \in [Identifiers -> Nat \ {0}]
  /\ \A id \in Identifiers : current[id] <= Len(Images[id])
  /\ req \in [Requests -> Parsed]
  /\ job \in [Requests -> Jobs]
  /\ got \in [Requests -> Answers]
  /\ began \in [Requests -> Nat]

\* The info cache keeps its limit, and an entry tells the dimensions of an image that
\* the source was since it had the metadata of the entry.
Remembered(id) ==
  /\ infoCache[id].dims \in Sizes
  /\ Describes(infoCache[id].dims, id, infoCache[id].meta, current[id])

Caching ==
  /\ DOMAIN infoCache \subseteq Identifiers
  /\ IsFiniteSet(DOMAIN infoCache)
  /\ Cardinality(DOMAIN infoCache) <= MaxInfoCacheEntries
  /\ \A id \in DOMAIN infoCache : Remembered(id)

\* A region and a size that the request q may get of an image.
Fits(q, full, region, size) ==
  /\ region \in resolveRegion(q.region, full.w, full.h)
  /\ region # NoRect
  /\ size \in resolveSize(q.size, region.w, region.h)
Accepted(size) == size # NoDims /\ CheckOutputPixels(size, MaxOutputPixels)

\* The locals j of a request q that began when the source had version b, and now has
\* version cur[q.id]: what was opened, what was loaded, what was decided.
Loading == {"lookup", "acquire"} \cup Working

Opening(q, j, b, cur) ==
  /\ q.id \in Identifiers
  /\ b \in 1..cur[q.id]
  /\ j.meta \in b..cur[q.id]
  /\ j.file \in {Live, j.meta}

Measured(q, j, cur) ==
  \E v \in j.meta..cur[q.id] : j.full = DimsAt(q.id, v) /\ j.pages = Images[q.id][v].pages

Decided(q, j, region) ==
  /\ Fits(q, j.full, region, j.out)
  /\ Accepted(j.out)
  /\ j.page \in chooseJP2Page(j.pages, region, j.out)

Extracted(q, j, region, cur) ==
  \/ j.page = 0 /\ j.rect = region /\ j.loaded = j.full
  \/ /\ j.page > 0
     /\ j.rect \in scaleRegionToLoadedPage(region, j.full, j.loaded)
     /\ \E v \in j.meta..cur[q.id] : j.loaded = PageDims(Images[q.id][v], j.page)

\* What an answer a says: info.json of an image with metadata of this time, or an image whose size
\* follows from its region and the limits.
Grounded(q, a, b, cur) ==
  a.full # NoDims =>
    /\ q.id \in Identifiers
    /\ \E v \in b..cur[q.id] : a.full = DimsAt(q.id, v)
Told(q, a, b, cur) ==
  q.kind = "info" /\ a.outcome = "served" =>
    /\ q.id \in Identifiers
    /\ \E v \in b..cur[q.id] : Describes(a.dims, q.id, MetaOf(Images[q.id][v]), cur[q.id])
Refused(q, a) ==
  q.kind = "image" /\ a.outcome = "refused" /\ a.full # NoDims =>
    \/ NoRect \in resolveRegion(q.region, a.full.w, a.full.h)
    \/ \E region, size : Fits(q, a.full, region, size) /\ ~Accepted(size)
Served(q, a) ==
  q.kind = "image" /\ a.outcome = "served" =>
    \E region, size : Fits(q, a.full, region, size) /\ a.dims = Rotated(size, q.rotation.degrees)
Sound(q, a, b, cur) == Grounded(q, a, b, cur) /\ Told(q, a, b, cur) /\ Refused(q, a) /\ Served(q, a)

\* All of this, for a request at the given step.
Good(step, q, j, a, b, cur) ==
  /\ step # "idle" /\ q.id \in Identifiers => b \in 1..cur[q.id]
  /\ step \in {"open"} \cup Loading => q.kind \in {"info", "image"}
  /\ step \in {"lookup", "store"} => q.kind = "info"
  /\ step \in {"resolve", "page", "encode"} => q.kind = "image"
  /\ step \in Loading => Opening(q, j, b, cur)
  /\ IF step \in {"store", "resolve", "page", "encode"} THEN Measured(q, j, cur) ELSE j.full = NoDims
  /\ step = "page" => Decided(q, j, j.rect) /\ j.page > 0
  /\ step = "encode" => \E region : Decided(q, j, region) /\ Extracted(q, j, region, cur)
  /\ IF step = "answered" THEN Sound(q, a, b, cur) ELSE a = NoAnswer

GoodRequest(r) == Good(pc[r], req[r], job[r], got[r], began[r], current)

IInv == Counted /\ Typed /\ Caching /\ \A r \in Requests : GoodRequest(r)
---------------------------------------------------------------------------
\* The parser: every part of a path has its type, and so has every request of a path.
LEMMA UnescapeIsTyped ==
  ASSUME NEW s \in Segments
  PROVE  Unescape(s) \in Seq(Parts)
<1>1. CASE s.is = "escaped"
  BY <1>1, SMT DEF Unescape, Segments, Parts, Texts, Leaves, InfoJson, Illegal
<1>2. CASE s.is # "escaped"
  <2>1. s \in Parts
    BY <1>2 DEF Segments
  <2> QED BY <1>2, <2>1, SMT DEF Unescape
<1> QED BY <1>1, <1>2

LEMMA OperationIsTyped ==
  ASSUME NEW s \in Segments, NEW op, op = decodeOperationSegment(s), op.is = "text"
  PROVE  op \in Texts
<1>1. Illegal \in Parts
  BY DEF Parts
<1>2. op \in Parts
  BY <1>1, UnescapeIsTyped, SMT DEF decodeOperationSegment
<1> QED BY <1>2, SMT DEF Parts, Leaves, InfoJson, Illegal

LEMMA RegionIsParsed ==
  ASSUME NEW s \in Texts, parseRegion(s) # NoRegion
  PROVE  parseRegion(s) \in ParsedRegions
<1> DEFINE v == [i \in DOMAIN s.nums |-> s.nums[i].value]
<1>1. CASE s \in {Word("full"), Word("square")}
  <2>1. s.word \in {"full", "square"}
    BY <1>1 DEF Word, Text
  <2>2. parseRegion(s) = Region(s.word, 0, 0, 0, 0)
    BY <1>1 DEF parseRegion
  <2> QED BY <2>1, <2>2, SMT DEF Region, ParsedRegions
<1>2. CASE s \notin {Word("full"), Word("square")}
  <2>1. /\ parseRegion(s) = Region(IF s.pct THEN "percent" ELSE "pixels", v[1], v[2], v[3], v[4])
        /\ Len(s.nums) = 4
        /\ v[3] > 0 /\ v[4] > 0 /\ v[1] >= 0 /\ v[2] >= 0
    BY <1>2 DEF parseRegion
  <2>2. \A i \in 1..4 : v[i] \in Int
    <3> DEFINE Numbers == [value : Int, text : {"short", "zeros", "point", "empty", "bad"}]
    <3>1. s.nums \in Seq(Numbers) /\ Len(s.nums) = 4
      BY <2>1 DEF Texts
    <3>2. \A n \in Numbers : n.value \in Int
      OBVIOUS
    <3> HIDE DEF Numbers
    <3>3. \A i \in 1..4 : i \in DOMAIN s.nums /\ s.nums[i] \in Numbers
      BY <3>1, SMT
    <3> QED BY <3>2, <3>3
  <2>3. v[1] \in Nat /\ v[2] \in Nat /\ v[3] \in Nat /\ v[4] \in Nat
    BY <2>1, <2>2, SMT
  <2>4. (IF s.pct THEN "percent" ELSE "pixels") \in {"full", "square", "pixels", "percent"}
    OBVIOUS
  <2> HIDE DEF v
  <2> QED BY <2>1, <2>3, <2>4 DEF Region, ParsedRegions
<1> QED BY <1>1, <1>2

LEMMA SizeIsParsed ==
  ASSUME NEW s \in Texts, parseSize(s) # NoSize
  PROVE  parseSize(s) \in ParsedSizes
<1>1. s.up \in BOOLEAN
  BY DEF Texts
<1>2. CASE s.word = "max" /\ ~s.bang /\ ~s.pct
  <2>1. parseSize(s) = Size(IF s.up THEN "maxUp" ELSE "max", 0, 0, 0, s.up)
    BY <1>2 DEF parseSize
  <2> QED BY <1>1, <2>1, SMT DEF Size, ParsedSizes
<1>3. CASE /\ s.pct /\ ~s.bang /\ s.word = "" /\ Len(s.nums) = 1 /\ IsFloat(s.nums[1])
           /\ s.nums[1].value \in 1..(MaxParsedPercent * Unit)
  <2>1. parseSize(s) = Size("percent", 0, 0, s.nums[1].value, s.up)
    BY <1>3 DEF parseSize
  <2>2. MaxParsedPercent * Unit \in Nat
    BY ParserLimits, UnitIsPositive, SMT
  <2>3. s.nums[1].value \in Nat
    <3> DEFINE limit == MaxParsedPercent * Unit
    <3>1. limit \in Nat /\ s.nums[1].value \in 1..limit
      BY <1>3, <2>2
    <3> HIDE DEF limit
    <3> QED BY <3>1, SMT
  <2> QED BY <1>1, <2>1, <2>3, SMT DEF Size, ParsedSizes
<1>4. CASE ~s.pct /\ s.word = "" /\ Len(s.nums) = 2 /\ parseSize(s) = parseDims(s)
  <2> DEFINE w == s.nums[1]
             h == s.nums[2]
  <2>1. IsPosInt(w) => Atoi(w) \in Nat
    BY ParserLimits, SMT DEF IsPosInt, Atoi
  <2>2. IsPosInt(h) => Atoi(h) \in Nat
    BY ParserLimits, SMT DEF IsPosInt, Atoi
  <2> HIDE DEF w, h
  <2>3. \/ IsPosInt(w) /\ IsPosInt(h)
           /\ parseDims(s) = Size(IF s.bang THEN "bestFit" ELSE "wh", Atoi(w), Atoi(h), 0, s.up)
        \/ IsPosInt(w) /\ parseDims(s) = Size("width", Atoi(w), 0, 0, s.up)
        \/ IsPosInt(h) /\ parseDims(s) = Size("height", 0, Atoi(h), 0, s.up)
        \/ parseDims(s) = NoSize
    BY DEF parseDims, w, h
  <2>4. \A kind \in {"width", "height", "wh", "bestFit"}, a \in Nat, b \in Nat :
          Size(kind, a, b, 0, s.up) \in ParsedSizes
    BY <1>1 DEF Size, ParsedSizes
  <2>5. (IF s.bang THEN "bestFit" ELSE "wh") \in {"width", "height", "wh", "bestFit"}
    OBVIOUS
  <2> QED BY <1>4, <2>1, <2>2, <2>3, <2>4, <2>5
<1>5. CASE parseSize(s) = NoSize
  BY <1>5
<1> QED BY <1>2, <1>3, <1>4, <1>5 DEF parseSize

LEMMA RequestIsParsed ==
  ASSUME NEW q \in Parsed, q.kind = "image"
  PROVE  q.region \in ParsedRegions /\ q.size \in ParsedSizes
<1>1. \A parts : parseWhole("info", parts).kind # "image" /\ parseWhole("base", parts).kind # "image"
  BY DEF parseWhole, ErrSyntax, Plain, Request
<1>2. ErrSyntax.kind # "image"
  BY DEF ErrSyntax, Plain, Request
<1>3. PICK path \in Seq(Segments) : q = Parse(path)
  BY <1>2, PathsType DEF Parsed
<1>4. q = parseImage(path) /\ Len(path) >= 5
  BY <1>1, <1>2, <1>3 DEF Parse
<1> DEFINE n == Len(path)
           op == [i \in 1..4 |-> decodeOperationSegment(path[n - 4 + i])]
<1>5. /\ \A i \in 1..3 : op[i].is = "text"
      /\ parseRegion(op[1]) # NoRegion /\ parseSize(op[2]) # NoSize
      /\ q.region = parseRegion(op[1]) /\ q.size = parseSize(op[2])
  BY <1>2, <1>4 DEF parseImage, Request
<1>6. path[n - 3] \in Segments /\ path[n - 2] \in Segments
  BY <1>3, <1>4, SMT
<1>7. op[1] = decodeOperationSegment(path[n - 3]) /\ op[2] = decodeOperationSegment(path[n - 2])
  <2>1. n - 4 + 1 = n - 3 /\ n - 4 + 2 = n - 2
    BY <1>3, SMT
  <2> QED BY <2>1
<1>8. op[1] \in Texts /\ op[2] \in Texts
  BY <1>5, <1>6, <1>7, OperationIsTyped
<1> QED BY <1>5, <1>8, RegionIsParsed, SizeIsParsed
---------------------------------------------------------------------------
\* Images have pixels and pages, and so have their smaller pages.
LEMMA ImageIsTyped ==
  ASSUME NEW id \in Identifiers, NEW v \in Nat, 1 <= v, v <= Len(Images[id])
  PROVE  /\ Images[id][v] \in Pictures
         /\ DimsAt(id, v) \in Sizes
         /\ DimsAt(id, v).w \in Positive /\ DimsAt(id, v).h \in Positive
<1>1. Images[id] \in Seq(Pictures)
  BY ImagesType DEF Identifiers
<1>2. Images[id][v] \in Pictures
  BY <1>1, SMT
<1> QED BY <1>2 DEF Pictures, DimsAt, Dims, Sizes, Positive

LEMMA PowersOfTwo ==
  ASSUME NEW p \in 0..32
  PROVE  2^p \in Positive
<1> DEFINE power(n) == 2^n
<1>1. /\ power(0) > 0 /\ power(1) > 0 /\ power(2) > 0 /\ power(3) > 0 /\ power(4) > 0
      /\ power(5) > 0 /\ power(6) > 0 /\ power(7) > 0 /\ power(8) > 0 /\ power(9) > 0
      /\ power(10) > 0 /\ power(11) > 0 /\ power(12) > 0 /\ power(13) > 0 /\ power(14) > 0
      /\ power(15) > 0 /\ power(16) > 0 /\ power(17) > 0 /\ power(18) > 0 /\ power(19) > 0
      /\ power(20) > 0 /\ power(21) > 0 /\ power(22) > 0 /\ power(23) > 0 /\ power(24) > 0
      /\ power(25) > 0 /\ power(26) > 0 /\ power(27) > 0 /\ power(28) > 0 /\ power(29) > 0
      /\ power(30) > 0 /\ power(31) > 0 /\ power(32) > 0
  BY SMT
<1>2. power(p) \in Int
  BY SMT
<1> HIDE DEF power
<1>3. power(p) > 0
  BY <1>1, SMT
<1>4. power(p) \in Positive
  BY <1>2, <1>3, SMT DEF Positive
<1> QED BY <1>4 DEF power

LEMMA PageIsTyped ==
  ASSUME NEW image \in Pictures, NEW p \in 0..32
  PROVE  /\ PageDims(image, p) \in Sizes
         /\ PageDims(image, p).w \in Positive /\ PageDims(image, p).h \in Positive
<1>1. image.w \in Positive /\ image.h \in Positive
  BY DEF Pictures, Positive
<1> DEFINE k == 2^p
<1>2. k \in Positive
  BY PowersOfTwo
<1>3. PageDims(image, p) = Dims(Ceil(image.w, k), Ceil(image.h, k))
  BY DEF PageDims
<1> HIDE DEF k
<1>4. \A a \in Positive : Ceil(a, k) \in Positive
  <2>1. SUFFICES ASSUME NEW a \in Positive PROVE Ceil(a, k) \in Positive
    OBVIOUS
  <2>2. Ceil(a, k) \in Nat /\ a <= k * Ceil(a, k)
    BY <1>2, CeilBounds DEF Positive
  <2> QED BY <1>2, <2>2, SMT DEF Positive
<1> QED BY <1>1, <1>3, <1>4 DEF Dims, Sizes, Positive

\* What a decision implies: the region lies in the image and has pixels.
LEMMA FitsIsInside ==
  ASSUME NEW q \in Parsed, q.kind = "image",
         NEW full, full.w \in Positive, full.h \in Positive,
         NEW region, NEW size, Fits(q, full, region, size)
  PROVE  /\ Inside(region, Dims(full.w, full.h))
         /\ region \in Rectangles
         /\ region.w \in Positive /\ region.h \in Positive
         /\ size \in Sizes
         /\ ~q.size.upscale => FitsIn(size, region)
<1>1. q.region \in ParsedRegions /\ q.size \in ParsedSizes
  BY RequestIsParsed
<1>2. region \in Rectangles /\ Inside(region, Dims(full.w, full.h))
  BY <1>1, RegionIsRectangle, RegionIsInside DEF Fits
<1>3. region.w \in Positive /\ region.h \in Positive
  BY <1>2, SMT DEF Rectangles, Inside, Positive
<1>4. size \in Sizes
  BY <1>1, <1>3, SizeIsTyped DEF Fits
<1>5. ~q.size.upscale => FitsIn(size, Dims(region.w, region.h))
  BY <1>1, <1>3, NothingIsEnlarged DEF Fits
<1> QED BY <1>2, <1>3, <1>4, <1>5 DEF FitsIn, Dims
---------------------------------------------------------------------------
\* Sources only get newer, which spoils nothing.
\* What dimensions describe stays behind.
LEMMA DescribesStill ==
  ASSUME NEW d, NEW id, NEW meta, NEW n \in Nat, NEW m \in Nat, n <= m, Describes(d, id, meta, n)
  PROVE  Describes(d, id, meta, m)
<1>1. 1..n \subseteq 1..m /\ \A v \in 1..n : v..n \subseteq v..m
  BY SMT
<1> QED BY <1>1 DEF Describes

\* The image at a version describes the source under the metadata of an earlier one.
LEMMA DescribesSince ==
  ASSUME NEW id, NEW n \in Nat, NEW m \in 1..n, NEW v \in m..n
  PROVE  Describes(DimsAt(id, v), id, MetaOf(Images[id][m]), n)
BY DEF Describes, DimsAt

Newer(old, new) == \A id \in Identifiers : old[id] \in Nat /\ new[id] \in Nat /\ old[id] <= new[id]

LEMMA GoodStaysGood ==
  ASSUME NEW step, NEW q, NEW j \in Jobs, NEW a, NEW b \in Nat, NEW cur, NEW new, Newer(cur, new),
         Good(step, q, j, a, b, cur)
  PROVE  Good(step, q, j, a, b, new)
<1> USE DEF Jobs
<1>1. q.id \in Identifiers => \A n \in Nat : n..cur[q.id] \subseteq n..new[q.id]
  BY SMT DEF Newer
<1>2. Opening(q, j, b, cur) => Opening(q, j, b, new)
  BY <1>1 DEF Opening
<1>3. q.id \in Identifiers /\ Measured(q, j, cur) => Measured(q, j, new)
  BY <1>1 DEF Measured
<1>4. ASSUME NEW region, q.id \in Identifiers, Extracted(q, j, region, cur)
      PROVE  Extracted(q, j, region, new)
  BY <1>1, <1>4 DEF Extracted
<1>5. Sound(q, a, b, cur) => Sound(q, a, b, new)
  <2>1. Grounded(q, a, b, cur) => Grounded(q, a, b, new)
    BY <1>1 DEF Grounded
  <2>2. ASSUME NEW v, q.id \in Identifiers, Describes(a.dims, q.id, MetaOf(Images[q.id][v]), cur[q.id])
        PROVE  Describes(a.dims, q.id, MetaOf(Images[q.id][v]), new[q.id])
    <3>1. cur[q.id] \in Nat /\ new[q.id] \in Nat /\ cur[q.id] <= new[q.id]
      BY <2>2 DEF Newer
    <3> QED BY <2>2, <3>1, DescribesStill
  <2>3. Told(q, a, b, cur) => Told(q, a, b, new)
    BY <1>1, <2>2 DEF Told
  <2> QED BY <2>1, <2>3 DEF Sound
<1>6. step \in Loading => q.id \in Identifiers
  BY DEF Good, Opening
<1>7. step # "idle" /\ q.id \in Identifiers => b \in 1..new[q.id]
  BY <1>1 DEF Good
<1>8. step = "encode" => \E region : Decided(q, j, region) /\ Extracted(q, j, region, new)
  BY <1>4, <1>6 DEF Good, Loading, Working
<1> QED BY <1>2, <1>3, <1>5, <1>6, <1>7, <1>8 DEF Good, Loading, Working
---------------------------------------------------------------------------
\* What a step of one request has to show, whether it goes on or answers.
LEMMA CachingUntouched ==
  ASSUME Caching, UNCHANGED <<current, infoCache>>
  PROVE  Caching'
BY DEF Caching, Remembered

LEMMA Continues ==
  ASSUME pc \in [Requests -> Steps], Typed, \A s \in Requests : GoodRequest(s),
         NEW r \in Requests, NEW step \in Steps, NEW j \in Jobs,
         Continue(r, step, j), UNCHANGED <<current, req, began>>,
         pc[r] # "answered", Good(step, req[r], j, NoAnswer, began[r], current)
  PROVE  Typed' /\ \A s \in Requests : GoodRequest(s)'
<1>1. /\ pc' = [pc EXCEPT ![r] = step]
      /\ job' = [job EXCEPT ![r] = j]
      /\ got' = got /\ current' = current /\ req' = req /\ began' = began
  BY DEF Continue
<1>2. Typed'
  BY <1>1 DEF Typed
<1>3. got[r] = NoAnswer
  BY DEF GoodRequest, Good
<1>4. ASSUME NEW s \in Requests PROVE GoodRequest(s)'
  <2>1. CASE s = r
    <3>1. pc'[s] = step /\ job'[s] = j /\ got'[s] = NoAnswer
      BY <1>1, <1>3, <2>1 DEF Typed
    <3> QED BY <1>1, <2>1, <3>1 DEF GoodRequest
  <2>2. CASE s # r
    <3>1. pc'[s] = pc[s] /\ job'[s] = job[s]
      BY <1>1, <2>2 DEF Typed
    <3>2. GoodRequest(s)
      OBVIOUS
    <3> QED BY <1>1, <3>1, <3>2 DEF GoodRequest
  <2> QED BY <2>1, <2>2
<1> QED BY <1>2, <1>4

LEMMA NothingDone == NoJob \in Jobs /\ NoJob.full = NoDims /\ NoAnswer \in Answers
BY SMT DEF NoJob, Opened, Jobs, Live, NoDims, Dims, NoRect, Rect, Sizes, Rectangles,
           NoAnswer, Answered, Answers, Outcomes

LEMMA Answering ==
  ASSUME pc \in [Requests -> Steps], Typed, \A s \in Requests : GoodRequest(s),
         NEW r \in Requests, NEW outcome \in Outcomes, NEW d \in Sizes,
         Answer(r, outcome, d), UNCHANGED <<current, req, began>>, pc[r] # "idle",
         Sound(req[r], Answered(outcome, d, job[r].full), began[r], current)
  PROVE  Typed' /\ \A s \in Requests : GoodRequest(s)'
<1> DEFINE a == Answered(outcome, d, job[r].full)
<1>1. /\ pc' = [pc EXCEPT ![r] = "answered"]
      /\ job' = [job EXCEPT ![r] = NoJob]
      /\ got' = [got EXCEPT ![r] = a]
      /\ current' = current /\ req' = req /\ began' = began
  BY DEF Answer
<1>2. a \in Answers
  BY DEF Answered, Answers, Typed, Jobs
<1>3. Typed'
  BY <1>1, <1>2, NothingDone DEF Typed
<1>4. Good("answered", req[r], NoJob, a, began[r], current)
  BY NothingDone DEF GoodRequest, Good, Loading, Working
<1> HIDE DEF a
<1>5. ASSUME NEW s \in Requests PROVE GoodRequest(s)'
  <2>1. CASE s = r
    <3>1. pc'[s] = "answered" /\ job'[s] = NoJob /\ got'[s] = a
      BY <1>1, <2>1 DEF Typed
    <3> QED BY <1>1, <1>4, <2>1, <3>1 DEF GoodRequest
  <2>2. CASE s # r
    <3>1. pc'[s] = pc[s] /\ job'[s] = job[s] /\ got'[s] = got[s]
      BY <1>1, <2>2 DEF Typed
    <3>2. GoodRequest(s)
      OBVIOUS
    <3> QED BY <1>1, <3>1, <3>2 DEF GoodRequest
  <2> QED BY <2>1, <2>2
<1> QED BY <1>3, <1>5

\* An answer without an image says nothing that could be wrong.
LEMMA PlainIsSound ==
  ASSUME Typed, NEW r \in Requests, GoodRequest(r), pc[r] # "answered",
         NEW outcome, outcome \notin {"refused", "served"}, NEW d
  PROVE  Sound(req[r], Answered(outcome, d, job[r].full), began[r], current)
<1> DEFINE a == Answered(outcome, d, job[r].full)
<1>1. a.outcome = outcome /\ a.full = job[r].full
  BY DEF Answered
<1> HIDE DEF a
<1>2. Grounded(req[r], a, began[r], current)
  <2>1. SUFFICES ASSUME job[r].full # NoDims
                 PROVE  /\ req[r].id \in Identifiers
                        /\ \E v \in began[r]..current[req[r].id] : job[r].full = DimsAt(req[r].id, v)
    BY <1>1 DEF Grounded
  <2>2. pc[r] \in {"store", "resolve", "page", "encode"} /\ Measured(req[r], job[r], current)
    BY <2>1 DEF GoodRequest, Good
  <2>3. Opening(req[r], job[r], began[r], current)
    BY <2>2 DEF GoodRequest, Good, Loading, Working
  <2>4. PICK v \in job[r].meta..current[req[r].id] : job[r].full = DimsAt(req[r].id, v)
    BY <2>2 DEF Measured
  <2>5. req[r].id \in Identifiers /\ job[r].meta \in began[r]..current[req[r].id]
    BY <2>3 DEF Opening
  <2>6. current[req[r].id] \in Nat /\ began[r] \in Nat
    BY <2>5 DEF Typed
  <2>7. v \in began[r]..current[req[r].id]
    BY <2>4, <2>5, <2>6, SMT
  <2> QED BY <2>4, <2>5, <2>7
<1>3. Told(req[r], a, began[r], current) /\ Refused(req[r], a) /\ Served(req[r], a)
  BY <1>1 DEF Told, Refused, Served
<1> QED BY <1>2, <1>3 DEF Sound, a
---------------------------------------------------------------------------
\* One lemma for each action.
LEMMA KindIsKnown ==
  ASSUME NEW q \in Parsed
  PROVE  q.kind \in {"error", "base", "info", "image"}
<1>1. /\ ErrSyntax.kind = "error"
      /\ \A kind, id : Plain(kind, id).kind = kind
  BY DEF ErrSyntax, Plain, Request
<1>2. \A kind, parts : parseWhole(kind, parts).kind \in {"error", kind}
  BY <1>1 DEF parseWhole
<1>3. \A parts : parseImage(parts).kind \in {"error", "image"}
  BY <1>1 DEF parseImage, Request
<1> QED BY <1>1, <1>2, <1>3 DEF Parsed, Parse

LEMMA BeginKeeps ==
  ASSUME IInv, NEW r \in Requests, Begin(r)
  PROVE  IInv'
<1>1. PICK path \in Paths :
        LET q == Parse(path) IN
        /\ req' = [req EXCEPT ![r] = q]
        /\ began' = [began EXCEPT ![r] = IF q.id \in Identifiers THEN current[q.id] ELSE 0]
        /\ CASE q.kind = "error" -> Refuse(r, "syntax")
             [] q.kind = "base" -> Refuse(r, "redirect")
             [] OTHER -> Continue(r, "open", NoJob)
  BY DEF Begin
<1> DEFINE q == Parse(path)
           b == IF q.id \in Identifiers THEN current[q.id] ELSE 0
<1>2. q \in Parsed
  BY DEF Parsed
<1>3. /\ req' = [req EXCEPT ![r] = q] /\ began' = [began EXCEPT ![r] = b]
      /\ pc[r] = "idle" /\ current' = current /\ infoCache' = infoCache /\ inUse' = inUse
      /\ \/ \E outcome \in {"syntax", "redirect"} : Refuse(r, outcome)
         \/ q.kind \in {"info", "image"} /\ Continue(r, "open", NoJob)
  BY <1>1, <1>2, KindIsKnown DEF Begin
<1>4. b \in Nat /\ (q.id \in Identifiers => b \in 1..current[q.id])
  BY SMT DEF IInv, Typed
<1> HIDE DEF q, b
<1>5. job[r].full = NoDims /\ got[r] = NoAnswer
  BY <1>3 DEF IInv, GoodRequest, Good
<1>6. PICK step \in {"open", "answered"}, a \in Answers :
        /\ pc' = [pc EXCEPT ![r] = step]
        /\ job' = [job EXCEPT ![r] = NoJob]
        /\ got' = [got EXCEPT ![r] = a]
        /\ Good(step, q, NoJob, a, b, current)
  <2>1. CASE q.kind \in {"info", "image"} /\ Continue(r, "open", NoJob)
    <3>1. Good("open", q, NoJob, NoAnswer, b, current)
      BY <1>4, <2>1, NothingDone DEF Good, Loading, Working
    <3>2. got' = [got EXCEPT ![r] = NoAnswer]
      BY <1>5, <2>1 DEF Continue, IInv, Typed
    <3> QED BY <2>1, <3>1, <3>2, NothingDone DEF Continue
  <2>2. ASSUME NEW outcome \in {"syntax", "redirect"}, Refuse(r, outcome)
        PROVE  /\ pc' = [pc EXCEPT ![r] = "answered"]
               /\ job' = [job EXCEPT ![r] = NoJob]
               /\ got' = [got EXCEPT ![r] = Answered(outcome, NoDims, NoDims)]
               /\ Answered(outcome, NoDims, NoDims) \in Answers
               /\ Good("answered", q, NoJob, Answered(outcome, NoDims, NoDims), b, current)
    <3>1. Answered(outcome, NoDims, NoDims) \in Answers
      BY NothingDone, SMT DEF Answered, Answers, Outcomes, NoDims, Dims, Sizes
    <3>2. Good("answered", q, NoJob, Answered(outcome, NoDims, NoDims), b, current)
      BY <1>4, NothingDone DEF Good, Sound, Grounded, Told, Refused, Served, Answered, Loading, Working
    <3> QED BY <1>5, <2>2, <3>1, <3>2 DEF Refuse, Answer
  <2> QED BY <1>3, <2>1, <2>2
<1>7. Typed'
  BY <1>2, <1>3, <1>4, <1>6, NothingDone DEF IInv, Typed
<1>8. Caching'
  BY <1>3, CachingUntouched DEF IInv
<1>9. Counted'
  <2>1. step \in Steps /\ step \notin Working /\ pc[r] \notin Working
    BY <1>3, <1>6 DEF Steps, Working
  <2> QED BY <1>3, <1>6, <2>1, SlotsUntouched DEF IInv
<1>10. ASSUME NEW s \in Requests PROVE GoodRequest(s)'
  <2>1. CASE s = r
    <3>1. pc'[s] = step /\ job'[s] = NoJob /\ got'[s] = a /\ req'[s] = q /\ began'[s] = b
      BY <1>3, <1>6, <2>1 DEF IInv, Typed, Counted
    <3> QED BY <1>3, <1>6, <3>1 DEF GoodRequest
  <2>2. CASE s # r
    <3>1. /\ pc'[s] = pc[s] /\ job'[s] = job[s] /\ got'[s] = got[s]
          /\ req'[s] = req[s] /\ began'[s] = began[s]
      BY <1>3, <1>6, <2>2 DEF IInv, Typed, Counted
    <3>2. GoodRequest(s)
      BY DEF IInv
    <3> QED BY <1>3, <3>1, <3>2 DEF GoodRequest
  <2> QED BY <2>1, <2>2
<1> QED BY <1>7, <1>8, <1>9, <1>10 DEF IInv

\* Requests that do not work with libvips and answer without an image.
LEMMA RefusesIdle ==
  ASSUME IInv, NEW r \in Requests, pc[r] \notin Working \cup {"idle", "answered"},
         NEW outcome \in Outcomes \ {"refused", "served"}, Refuse(r, outcome),
         UNCHANGED <<current, infoCache, inUse, req, began>>
  PROVE  IInv'
<1>1. Sound(req[r], Answered(outcome, NoDims, job[r].full), began[r], current)
  BY PlainIsSound DEF IInv
<1>2. NoDims \in Sizes /\ "answered" \in Steps \ Working
  BY SMT DEF NoDims, Dims, Sizes, Steps, Working
<1>3. Typed' /\ \A s \in Requests : GoodRequest(s)'
  BY <1>1, <1>2, Answering DEF IInv, Counted, Refuse
<1>4. pc' = [pc EXCEPT ![r] = "answered"]
  BY DEF Refuse, Answer
<1>5. Counted'
  BY <1>2, <1>4, SlotsUntouched DEF IInv
<1> QED BY <1>3, <1>5, CachingUntouched DEF IInv

LEMMA OpenFailsKeeps ==
  ASSUME IInv, NEW r \in Requests, OpenFails(r)
  PROVE  IInv'
BY RefusesIdle DEF OpenFails, Working, Outcomes

LEMMA GiveUpKeeps ==
  ASSUME IInv, NEW r \in Requests, GiveUp(r)
  PROVE  IInv'
BY RefusesIdle DEF GiveUp, Working, Outcomes

LEMMA OpenKeeps ==
  ASSUME IInv, NEW r \in Requests, Open(r)
  PROVE  IInv'
<1> DEFINE v == current[req[r].id]
           file == IF ImageAt(r, v).named THEN Live ELSE v
           step == IF req[r].kind = "info" THEN "lookup" ELSE "acquire"
<1>1. /\ pc[r] = "open" /\ req[r].id \in Identifiers
      /\ UNCHANGED <<current, infoCache, inUse, req, began>>
      /\ Refuse(r, "failed") \/ Continue(r, step, Opened(v, file))
  BY DEF Open
<1>2. CASE Refuse(r, "failed")
  BY <1>1, <1>2, RefusesIdle DEF Working, Outcomes
<1>3. CASE Continue(r, step, Opened(v, file))
  <2>1. v \in Nat /\ file \in {Live, v} /\ file \in Nat
    BY <1>1, SMT DEF IInv, Typed, Live
  <2>2. step \in {"lookup", "acquire"} /\ step \in Steps \ Working
    BY DEF Steps, Working
  <2>3. began[r] \in 1..v /\ req[r].kind \in {"info", "image"} /\ got[r] = NoAnswer
    BY <1>1 DEF IInv, GoodRequest, Good
  <2>4. Opened(v, file) \in Jobs
    BY <2>1, NothingDone, SMT DEF Opened, Jobs, NoDims, Dims, NoRect, Rect, Sizes, Rectangles
  <2>5. Opening(req[r], Opened(v, file), began[r], current)
    <3>1. v \in began[r]..v
      BY <2>1, <2>3, SMT
    <3> QED BY <1>1, <2>1, <2>3, <3>1 DEF Opening, Opened
  <2> HIDE DEF v, file
  <2>6. Good(step, req[r], Opened(v, file), NoAnswer, began[r], current)
    BY <2>2, <2>3, <2>5 DEF Good, Opening, Opened, Working
  <2>7. Typed' /\ \A s \in Requests : GoodRequest(s)'
    BY <1>1, <1>3, <2>2, <2>4, <2>6, Continues DEF IInv, Counted
  <2>8. Counted'
    <3>1. pc' = [pc EXCEPT ![r] = step] /\ pc[r] \notin Working
      BY <1>1, <1>3 DEF Continue, Working
    <3> QED BY <1>1, <2>2, <3>1, SlotsUntouched DEF IInv
  <2> QED BY <1>1, <2>7, <2>8, CachingUntouched DEF IInv
<1> QED BY <1>1, <1>2, <1>3

LEMMA AcquireKeeps ==
  ASSUME IInv, NEW r \in Requests, Acquire(r)
  PROVE  IInv'
<1>1. /\ pc[r] = "acquire" /\ Continue(r, "load", job[r])
      /\ UNCHANGED <<current, infoCache, req, began>>
      /\ Limited => inUse < MaxConcurrent
      /\ inUse' = IF Limited THEN inUse + 1 ELSE inUse
  BY DEF Acquire
<1>2. "load" \in Steps /\ "load" \in Working /\ pc[r] \notin Working
  BY <1>1 DEF Steps, Working
<1>3. Good("load", req[r], job[r], NoAnswer, began[r], current)
  BY <1>1 DEF IInv, GoodRequest, Good, Loading, Working
<1>4. job[r] \in Jobs
  BY DEF IInv, Typed
<1>5. Typed' /\ \A s \in Requests : GoodRequest(s)'
  BY <1>1, <1>2, <1>3, <1>4, Continues DEF IInv, Counted
<1>6. Counted'
  <2>1. pc' = [pc EXCEPT ![r] = "load"]
    BY <1>1 DEF Continue
  <2> QED BY <1>1, <1>2, <2>1, SlotTaken DEF IInv
<1> QED BY <1>1, <1>5, <1>6, CachingUntouched DEF IInv

LEMMA LookupKeeps ==
  ASSUME IInv, NEW r \in Requests, Lookup(r)
  PROVE  IInv'
<1> DEFINE id == req[r].id
<1>1. /\ pc[r] = "lookup"
      /\ UNCHANGED <<current, infoCache, inUse, req, began>>
      /\ \/ Hit(r) /\ Answer(r, "served", infoCache[id].dims)
         \/ Continue(r, "acquire", job[r])
  BY DEF Lookup
<1>2. req[r].kind = "info" /\ Opening(req[r], job[r], began[r], current) /\ job[r].full = NoDims
  BY <1>1 DEF IInv, GoodRequest, Good, Loading
<1>3. CASE Hit(r) /\ Answer(r, "served", infoCache[id].dims)
  <2>1. id \in DOMAIN infoCache /\ infoCache[id].meta = MetaOf(Images[id][job[r].meta])
    BY <1>3 DEF Hit, Meta, ImageAt
  <2>2. Remembered(id)
    BY <2>1 DEF IInv, Caching
  <2>3. Describes(infoCache[id].dims, id, MetaOf(Images[id][job[r].meta]), current[id])
    BY <2>1, <2>2 DEF Remembered
  <2>5. id \in Identifiers /\ job[r].meta \in began[r]..current[id]
    BY <1>2 DEF Opening
  <2>6. Sound(req[r], Answered("served", infoCache[id].dims, job[r].full), began[r], current)
    BY <1>2, <2>3, <2>5 DEF Sound, Grounded, Told, Refused, Served, Answered, Opening
  <2>7. infoCache[id].dims \in Sizes /\ "served" \in Outcomes /\ "answered" \in Steps \ Working
    BY <2>2 DEF Remembered, Outcomes, Steps, Working
  <2>8. Typed' /\ \A s \in Requests : GoodRequest(s)'
    BY <1>1, <1>3, <2>6, <2>7, Answering DEF IInv, Counted
  <2>9. Counted'
    <3>1. pc' = [pc EXCEPT ![r] = "answered"] /\ pc[r] \notin Working
      BY <1>1, <1>3 DEF Answer, Working
    <3> QED BY <1>1, <2>7, <3>1, SlotsUntouched DEF IInv
  <2> QED BY <1>1, <2>8, <2>9, CachingUntouched DEF IInv
<1>4. CASE Continue(r, "acquire", job[r])
  <2>1. "acquire" \in Steps \ Working /\ pc[r] \notin Working
    BY <1>1 DEF Steps, Working
  <2>2. Good("acquire", req[r], job[r], NoAnswer, began[r], current)
    BY <1>1, <1>2 DEF IInv, GoodRequest, Good, Loading, Working
  <2>3. job[r] \in Jobs
    BY DEF IInv, Typed
  <2>4. Typed' /\ \A s \in Requests : GoodRequest(s)'
    BY <1>1, <1>4, <2>1, <2>2, <2>3, Continues DEF IInv, Counted
  <2>5. Counted'
    <3>1. pc' = [pc EXCEPT ![r] = "acquire"]
      BY <1>4 DEF Continue
    <3> QED BY <1>1, <2>1, <3>1, SlotsUntouched DEF IInv
  <2> QED BY <1>1, <2>4, <2>5, CachingUntouched DEF IInv
<1> QED BY <1>1, <1>3, <1>4

\* The same for the requests that work.
LEMMA Finishes ==
  ASSUME IInv, NEW r \in Requests, pc[r] \in Working, NEW outcome \in Outcomes, NEW d \in Sizes,
         Finish(r, outcome, d), UNCHANGED <<current, req, began>>,
         Sound(req[r], Answered(outcome, d, job[r].full), began[r], current)
  PROVE  Counted' /\ Typed' /\ \A s \in Requests : GoodRequest(s)'
<1>1. Counted'
  BY FinishGivesBack DEF IInv
<1>2. pc[r] # "idle"
  BY DEF Working
<1> QED BY <1>1, <1>2, Answering DEF Finish, IInv, Counted

LEMMA FinishesPlainly ==
  ASSUME IInv, NEW r \in Requests, pc[r] \in Working, NEW outcome \in Outcomes \ {"refused", "served"},
         Finish(r, outcome, NoDims), UNCHANGED <<current, infoCache, req, began>>
  PROVE  IInv'
<1>1. Sound(req[r], Answered(outcome, NoDims, job[r].full), began[r], current)
  BY PlainIsSound DEF IInv, Working
<1>2. NoDims \in Sizes
  BY SMT DEF NoDims, Dims, Sizes
<1>3. Counted' /\ Typed' /\ \A s \in Requests : GoodRequest(s)'
  BY <1>1, <1>2, Finishes
<1> QED BY <1>3, CachingUntouched DEF IInv

LEMMA WorksOn ==
  ASSUME IInv, NEW r \in Requests, pc[r] \in Working, NEW step \in Working, NEW j \in Jobs,
         Continue(r, step, j), UNCHANGED <<current, infoCache, inUse, req, began>>,
         Good(step, req[r], j, NoAnswer, began[r], current)
  PROVE  IInv'
<1>1. Counted'
  BY WorkGoesOn DEF IInv
<1>2. step \in Steps /\ pc[r] # "answered"
  BY DEF Steps, Working
<1>3. Typed' /\ \A s \in Requests : GoodRequest(s)'
  BY <1>2, Continues DEF IInv, Counted
<1> QED BY <1>1, <1>3, CachingUntouched DEF IInv

LEMMA WorkFailsKeeps ==
  ASSUME IInv, NEW r \in Requests, WorkFails(r)
  PROVE  IInv'
<1>1. pc[r] \in Working /\ "failed" \in Outcomes \ {"refused", "served"}
  BY DEF WorkFails, Working, Outcomes
<1> QED BY <1>1, FinishesPlainly DEF WorkFails

\* What is loaded is the image of a version since the metadata was read.
LEMMA LoadedIsRecent ==
  ASSUME IInv, NEW r \in Requests, pc[r] \in Working
  PROVE  \E v \in job[r].meta..current[req[r].id] :
           /\ LoadedImage(r) = Images[req[r].id][v]
           /\ v \in Nat /\ 1 <= v /\ v <= Len(Images[req[r].id])
<1>1. Opening(req[r], job[r], began[r], current)
  BY DEF IInv, GoodRequest, Good, Loading
<1>2. /\ current[req[r].id] \in Nat
      /\ began[r] \in 1..current[req[r].id] /\ job[r].meta \in began[r]..current[req[r].id]
      /\ job[r].file \in {Live, job[r].meta}
      /\ current[req[r].id] <= Len(Images[req[r].id])
  BY <1>1 DEF Opening, IInv, Typed
<1>3. Images[req[r].id] \in Seq(Pictures)
  BY <1>1, ImagesType DEF Opening, Identifiers
<1> DEFINE v == IF job[r].file = Live THEN current[req[r].id] ELSE job[r].meta
<1>4. v \in job[r].meta..current[req[r].id] /\ 1 <= v /\ v \in Nat
  BY <1>2, SMT
<1>5. v <= Len(Images[req[r].id])
  <2>1. Len(Images[req[r].id]) \in Nat
    BY <1>3
  <2> QED BY <1>2, <1>4, <2>1, SMT
<1>6. LoadedImage(r) = Images[req[r].id][v]
  BY <1>2 DEF LoadedImage, ImageAt
<1> QED BY <1>4, <1>5, <1>6

LEMMA LoadKeeps ==
  ASSUME IInv, NEW r \in Requests, Load(r)
  PROVE  IInv'
<1> DEFINE image == LoadedImage(r)
           step == IF req[r].kind = "info" THEN "store" ELSE "resolve"
           j == [job[r] EXCEPT !.full = Dims(image.w, image.h), !.pages = image.pages]
<1>1. /\ pc[r] = "load" /\ UNCHANGED <<current, infoCache, req, began>>
      /\ \/ \E outcome \in {"unsupported", "large"} : Finish(r, outcome, NoDims)
         \/ Continue(r, step, j) /\ UNCHANGED inUse
  BY DEF Load
<1>2. pc[r] \in Working
  BY <1>1 DEF Working
<1>3. CASE \E outcome \in {"unsupported", "large"} : Finish(r, outcome, NoDims)
  BY <1>1, <1>2, <1>3, FinishesPlainly DEF Outcomes
<1>4. CASE Continue(r, step, j) /\ UNCHANGED inUse
  <2>1. PICK v \in job[r].meta..current[req[r].id] :
          image = Images[req[r].id][v] /\ v \in Nat /\ 1 <= v /\ v <= Len(Images[req[r].id])
    BY <1>2, LoadedIsRecent
  <2>2. /\ Opening(req[r], job[r], began[r], current)
        /\ req[r].kind \in {"info", "image"}
    BY <1>1 DEF IInv, GoodRequest, Good, Loading, Working
  <2>3. image \in Pictures /\ Dims(image.w, image.h) = DimsAt(req[r].id, v)
        /\ DimsAt(req[r].id, v) \in Sizes
    BY <2>1, <2>2, ImageIsTyped DEF DimsAt, Opening
  <2> HIDE DEF image
  <2>4. image.pages \in Nat
    BY <2>3, SMT DEF Pictures
  <2>5. /\ j \in Jobs
        /\ j.full = Dims(image.w, image.h) /\ j.pages = image.pages
        /\ j.meta = job[r].meta /\ j.file = job[r].file
    BY <2>3, <2>4 DEF IInv, Typed, Jobs
  <2> HIDE DEF j
  <2>6. Opening(req[r], j, began[r], current)
    BY <2>2, <2>5 DEF Opening
  <2>7. Measured(req[r], j, current)
    BY <2>1, <2>3, <2>5 DEF Measured
  <2>8. Good(step, req[r], j, NoAnswer, began[r], current)
    BY <2>2, <2>6, <2>7 DEF Good, Opening
  <2>9. step \in Working
    BY DEF Working
  <2> QED BY <1>1, <1>2, <1>4, <2>5, <2>8, <2>9, WorksOn
<1> QED BY <1>1, <1>3, <1>4

\* The new entry makes the cache no larger than its limit.
LEMMA StoreKeepsCaching ==
  ASSUME Typed, Caching, NEW r \in Requests, req[r].id \in Identifiers,
         Measured(req[r], job[r], current), job[r].meta \in 1..current[req[r].id],
         NEW kept \in Kept, infoCache' = With(kept, req[r].id, Entry(r)), current' = current
  PROVE  Caching'
<1> DEFINE id == req[r].id
           old == DOMAIN infoCache
<1>2. /\ DOMAIN kept \subseteq old
      /\ \A x \in DOMAIN kept : kept[x] = infoCache[x]
      /\ \/ DOMAIN kept = old /\ Cardinality(old) < MaxInfoCacheEntries
         \/ \E x \in old : DOMAIN kept = old \ {x}
  BY DEF Kept, Restrict
<1>3. /\ DOMAIN infoCache' = {id} \cup DOMAIN kept
      /\ infoCache'[id] = [dims |-> job[r].full, meta |-> MetaOf(Images[id][job[r].meta])]
      /\ \A x \in DOMAIN kept \ {id} : infoCache'[x] = infoCache[x]
  <2>1. infoCache' = [x \in DOMAIN kept \cup {id} |-> IF x = id THEN Entry(r) ELSE kept[x]]
    BY DEF With
  <2>2. Entry(r) = [dims |-> job[r].full, meta |-> MetaOf(Images[id][job[r].meta])]
    BY DEF Entry, Meta, ImageAt
  <2> QED BY <1>2, <2>1, <2>2
<1>4. IsFiniteSet(old) /\ Cardinality(old) \in Nat /\ Cardinality(old) <= MaxInfoCacheEntries
  BY FS_CardinalityType DEF Caching
<1>5. IsFiniteSet(DOMAIN kept) /\ Cardinality(DOMAIN kept) \in Nat
  BY <1>2, <1>4, FS_Subset, FS_CardinalityType
<1>6. Cardinality(DOMAIN kept) + 1 <= MaxInfoCacheEntries
  <2>1. CASE DOMAIN kept = old /\ Cardinality(old) < MaxInfoCacheEntries
    BY <1>4, <2>1, Limits, SMT
  <2>2. ASSUME NEW x \in old, DOMAIN kept = old \ {x}
        PROVE  Cardinality(DOMAIN kept) = Cardinality(old) - 1
    BY <1>4, <2>2, FS_RemoveElement
  <2>3. ASSUME NEW x \in old, DOMAIN kept = old \ {x}
        PROVE  Cardinality(DOMAIN kept) + 1 <= MaxInfoCacheEntries
    <3>1. Cardinality(DOMAIN kept) = Cardinality(old) - 1
      BY <2>2, <2>3
    <3> QED BY <1>4, <3>1, Limits, SMT
  <2> QED BY <1>2, <2>1, <2>3
<1>7. IsFiniteSet(DOMAIN infoCache') /\ Cardinality(DOMAIN infoCache') <= MaxInfoCacheEntries
  <2>1. CASE id \in DOMAIN kept
    <3>1. DOMAIN infoCache' = DOMAIN kept
      BY <1>3, <2>1
    <3> QED BY <1>5, <1>6, <3>1, Limits, SMT
  <2>2. CASE id \notin DOMAIN kept
    <3>1. DOMAIN infoCache' = DOMAIN kept \cup {id}
      BY <1>3
    <3>2. IsFiniteSet(DOMAIN kept \cup {id}) /\ Cardinality(DOMAIN kept \cup {id}) = Cardinality(DOMAIN kept) + 1
      BY <1>5, <2>2, FS_AddElement
    <3> QED BY <1>6, <3>1, <3>2
  <2> QED BY <2>1, <2>2
<1>8. ASSUME NEW x \in DOMAIN infoCache' PROVE Remembered(x)'
  <2>1. CASE x = id
    <3>1. job[r].full \in Sizes /\ current[id] \in Nat
      BY DEF Typed, Jobs
    <3>2. PICK v \in job[r].meta..current[id] : job[r].full = DimsAt(id, v)
      BY DEF Measured
    <3>3. Describes(job[r].full, id, MetaOf(Images[id][job[r].meta]), current[id])
      BY <3>1, <3>2, DescribesSince
    <3> QED BY <1>3, <2>1, <3>1, <3>3 DEF Remembered
  <2>2. CASE x # id
    <3>1. x \in old /\ infoCache'[x] = infoCache[x]
      BY <1>2, <1>3, <2>2
    <3> QED BY <3>1 DEF Remembered, Caching
  <2> QED BY <2>1, <2>2
<1> QED BY <1>2, <1>3, <1>7, <1>8 DEF Caching

LEMMA StoreKeeps ==
  ASSUME IInv, NEW r \in Requests, Store(r)
  PROVE  IInv'
<1>1. /\ pc[r] = "store" /\ pc[r] \in Working
      /\ Finish(r, "served", job[r].full) /\ UNCHANGED <<current, req, began>>
      /\ UNCHANGED infoCache \/ \E kept \in Kept : infoCache' = With(kept, req[r].id, Entry(r))
  BY DEF Store, Working
<1>2. /\ req[r].kind = "info"
      /\ Opening(req[r], job[r], began[r], current)
      /\ Measured(req[r], job[r], current)
  BY <1>1 DEF IInv, GoodRequest, Good, Loading
<1>3. PICK v \in job[r].meta..current[req[r].id] : job[r].full = DimsAt(req[r].id, v)
  BY <1>2 DEF Measured
<1>4. v \in began[r]..current[req[r].id]
  <2>1. /\ current[req[r].id] \in Nat /\ began[r] \in Nat
        /\ job[r].meta \in began[r]..current[req[r].id]
    BY <1>2 DEF Opening, IInv, Typed
  <2> QED BY <1>3, <2>1, SMT
<1>5. Sound(req[r], Answered("served", job[r].full, job[r].full), began[r], current)
  <2>1. /\ job[r].meta \in 1..current[req[r].id] /\ current[req[r].id] \in Nat
        /\ job[r].meta \in began[r]..current[req[r].id] /\ req[r].id \in Identifiers
    BY <1>2 DEF Opening, IInv, Typed
  <2>2. Describes(job[r].full, req[r].id, MetaOf(Images[req[r].id][job[r].meta]), current[req[r].id])
    BY <1>3, <2>1, DescribesSince
  <2> QED BY <1>2, <1>3, <1>4, <2>1, <2>2 DEF Sound, Grounded, Told, Refused, Served, Answered
<1>6. "served" \in Outcomes /\ job[r].full \in Sizes
  BY DEF Outcomes, IInv, Typed, Jobs
<1>7. Counted' /\ Typed' /\ \A s \in Requests : GoodRequest(s)'
  BY <1>1, <1>5, <1>6, Finishes
<1>8. Caching'
  <2>1. CASE UNCHANGED infoCache
    BY <1>1, <2>1, CachingUntouched DEF IInv
  <2>2. CASE \E kept \in Kept : infoCache' = With(kept, req[r].id, Entry(r))
    <3>1. job[r].meta \in 1..current[req[r].id]
      BY <1>2 DEF Opening, IInv, Typed
    <3> QED BY <1>1, <1>2, <2>2, <3>1, StoreKeepsCaching DEF IInv, Opening
  <2> QED BY <1>1, <2>1, <2>2
<1> QED BY <1>7, <1>8 DEF IInv

\* What a request that resolves has loaded.
LEMMA MeasuredIsTyped ==
  ASSUME IInv, NEW r \in Requests, pc[r] \in {"store", "resolve", "page", "encode"}
  PROVE  /\ job[r].full \in Sizes
         /\ job[r].full.w \in Positive /\ job[r].full.h \in Positive
         /\ job[r].full = Dims(job[r].full.w, job[r].full.h)
         /\ job[r].full # NoDims
         /\ job[r].pages \in 1..33
         /\ \E v \in job[r].meta..current[req[r].id] :
              /\ v \in Nat /\ 1 <= v /\ v <= Len(Images[req[r].id])
              /\ job[r].full = DimsAt(req[r].id, v) /\ job[r].pages = Images[req[r].id][v].pages
<1>1. Opening(req[r], job[r], began[r], current) /\ Measured(req[r], job[r], current)
  BY DEF IInv, GoodRequest, Good, Loading, Working
<1>2. PICK v \in job[r].meta..current[req[r].id] :
        job[r].full = DimsAt(req[r].id, v) /\ job[r].pages = Images[req[r].id][v].pages
  BY <1>1 DEF Measured
<1>3. /\ current[req[r].id] \in Nat
      /\ began[r] \in 1..current[req[r].id] /\ job[r].meta \in began[r]..current[req[r].id]
      /\ current[req[r].id] <= Len(Images[req[r].id])
      /\ req[r].id \in Identifiers
  BY <1>1 DEF Opening, IInv, Typed
<1>4. Len(Images[req[r].id]) \in Nat
  BY <1>3, ImagesType DEF Identifiers
<1>5. v \in Nat /\ 1 <= v /\ v <= Len(Images[req[r].id])
  BY <1>2, <1>3, <1>4, SMT
<1>6. /\ DimsAt(req[r].id, v) \in Sizes
      /\ DimsAt(req[r].id, v).w \in Positive /\ DimsAt(req[r].id, v).h \in Positive
      /\ Images[req[r].id][v] \in Pictures
  BY <1>3, <1>5, ImageIsTyped
<1>7. job[r].full # NoDims /\ job[r].full = Dims(job[r].full.w, job[r].full.h)
  BY <1>2, <1>6, SMT DEF NoDims, Dims, Positive, Sizes
<1> QED BY <1>2, <1>5, <1>6, <1>7 DEF Pictures

LEMMA ResolveKeeps ==
  ASSUME IInv, NEW r \in Requests, Resolve(r)
  PROVE  IInv'
<1> DEFINE q == req[r]
           full == job[r].full
<1>1. /\ pc[r] = "resolve" /\ pc[r] \in Working
      /\ UNCHANGED <<current, infoCache, req, began>>
  BY DEF Resolve, Working
<1>2. /\ q.kind = "image"
      /\ Opening(q, job[r], began[r], current)
      /\ Measured(q, job[r], current)
  BY <1>1 DEF IInv, GoodRequest, Good, Loading
<1>3. full \in Sizes /\ full.w \in Positive /\ full.h \in Positive /\ job[r].pages \in 1..33
      /\ q \in Parsed /\ job[r] \in Jobs
  BY <1>1, MeasuredIsTyped DEF IInv, Typed
<1>4. PICK region \in resolveRegion(q.region, full.w, full.h) :
        \E size \in IF region = NoRect THEN {NoDims} ELSE resolveSize(q.size, region.w, region.h) :
          IF size = NoDims \/ ~CheckOutputPixels(size, MaxOutputPixels)
            THEN Finish(r, "refused", NoDims)
            ELSE \E p \in chooseJP2Page(job[r].pages, region, size) :
                   /\ Continue(r, IF p > 0 THEN "page" ELSE "encode",
                               [job[r] EXCEPT !.rect = region, !.out = size, !.page = p, !.loaded = full])
                   /\ UNCHANGED inUse
  BY DEF Resolve
<1>5. PICK size \in IF region = NoRect THEN {NoDims} ELSE resolveSize(q.size, region.w, region.h) :
        IF size = NoDims \/ ~CheckOutputPixels(size, MaxOutputPixels)
          THEN Finish(r, "refused", NoDims)
          ELSE \E p \in chooseJP2Page(job[r].pages, region, size) :
                 /\ Continue(r, IF p > 0 THEN "page" ELSE "encode",
                             [job[r] EXCEPT !.rect = region, !.out = size, !.page = p, !.loaded = full])
                 /\ UNCHANGED inUse
  BY <1>4
<1>6. region = NoRect \/ Fits(q, full, region, size)
  BY <1>5 DEF Fits
<1>7. region = NoRect => size = NoDims
  BY <1>5
<1>8. CASE ~Accepted(size)
  <2>1. Finish(r, "refused", NoDims)
    BY <1>5, <1>8 DEF Accepted
  <2>2. Refused(q, Answered("refused", NoDims, full))
    BY <1>4, <1>6, <1>8 DEF Refused, Answered
  <2>3. Grounded(q, Answered("refused", NoDims, full), began[r], current)
    <3>1. Sound(q, Answered("failed", NoDims, full), began[r], current)
      BY <1>1, PlainIsSound DEF IInv
    <3> QED BY <3>1 DEF Sound, Grounded, Answered
  <2>4. Sound(q, Answered("refused", NoDims, full), began[r], current)
    BY <1>2, <2>2, <2>3 DEF Sound, Told, Served, Answered
  <2>5. NoDims \in Sizes /\ "refused" \in Outcomes
    BY SMT DEF NoDims, Dims, Sizes, Outcomes
  <2>6. Counted' /\ Typed' /\ \A s \in Requests : GoodRequest(s)'
    BY <1>1, <2>1, <2>4, <2>5, Finishes
  <2> QED BY <1>1, <2>6, CachingUntouched DEF IInv
<1>9. CASE Accepted(size)
  <2>1. PICK p \in chooseJP2Page(job[r].pages, region, size) :
          /\ Continue(r, IF p > 0 THEN "page" ELSE "encode",
                      [job[r] EXCEPT !.rect = region, !.out = size, !.page = p, !.loaded = full])
          /\ UNCHANGED inUse
    BY <1>5, <1>9 DEF Accepted
  <2>2. Fits(q, full, region, size)
    BY <1>6, <1>7, <1>9 DEF Accepted
  <2>3. region \in Rectangles /\ size \in Sizes
    BY <1>2, <1>3, <2>2, FitsIsInside
  <2>4. p \in Nat
    BY <1>3, SMT DEF chooseJP2Page
  <2> DEFINE j == [job[r] EXCEPT !.rect = region, !.out = size, !.page = p, !.loaded = full]
             step == IF p > 0 THEN "page" ELSE "encode"
  <2>5. /\ j \in Jobs
        /\ j.rect = region /\ j.out = size /\ j.page = p /\ j.loaded = full /\ j.full = full
        /\ j.meta = job[r].meta /\ j.file = job[r].file /\ j.pages = job[r].pages
    BY <1>3, <2>3, <2>4 DEF Jobs
  <2> HIDE DEF j
  <2>6. Decided(q, j, region)
    BY <1>9, <2>1, <2>2, <2>5 DEF Decided
  <2>7. Opening(q, j, began[r], current) /\ Measured(q, j, current)
    BY <1>2, <2>5 DEF Opening, Measured
  <2>8. p > 0 \/ p = 0
    BY <2>4, SMT
  <2>9. CASE p > 0
    <3>1. Good("page", q, j, NoAnswer, began[r], current)
      BY <1>2, <2>5, <2>6, <2>7, <2>9 DEF Good, Opening
    <3>2. "page" \in Working /\ Continue(r, "page", j) /\ UNCHANGED inUse
      BY <2>1, <2>9 DEF Working, j
    <3> QED BY <1>1, <2>5, <3>1, <3>2, WorksOn
  <2>10. CASE p = 0
    <3>1. Extracted(q, j, region, current)
      BY <2>5, <2>10 DEF Extracted
    <3>2. Good("encode", q, j, NoAnswer, began[r], current)
      BY <1>2, <2>6, <2>7, <3>1 DEF Good, Opening
    <3>3. ~(p > 0)
      BY <2>10, SMT
    <3>4. "encode" \in Working /\ Continue(r, "encode", j) /\ UNCHANGED inUse
      BY <2>1, <3>3 DEF Working, j
    <3> QED BY <1>1, <2>5, <3>2, <3>4, WorksOn
  <2> QED BY <2>8, <2>9, <2>10
<1> QED BY <1>8, <1>9

LEMMA LoadPageKeeps ==
  ASSUME IInv, NEW r \in Requests, LoadPage(r)
  PROVE  IInv'
<1> DEFINE q == req[r]
           image == LoadedImage(r)
           d == PageDims(image, job[r].page)
<1>1. /\ pc[r] = "page" /\ pc[r] \in Working
      /\ UNCHANGED <<current, infoCache, req, began>>
      /\ \/ Finish(r, "failed", NoDims)
         \/ /\ ~(job[r].page >= image.pages) /\ UNCHANGED inUse
            /\ \E part \in scaleRegionToLoadedPage(job[r].rect, job[r].full, d) :
                 Continue(r, "encode", [job[r] EXCEPT !.rect = part, !.loaded = d])
  BY DEF LoadPage, Working
<1>2. CASE Finish(r, "failed", NoDims)
  BY <1>1, <1>2, FinishesPlainly DEF Outcomes
<1>3. ASSUME ~(job[r].page >= image.pages), UNCHANGED inUse,
             NEW part \in scaleRegionToLoadedPage(job[r].rect, job[r].full, d),
             Continue(r, "encode", [job[r] EXCEPT !.rect = part, !.loaded = d])
      PROVE  IInv'
  <2>1. /\ q.kind = "image" /\ Decided(q, job[r], job[r].rect) /\ job[r].page > 0
        /\ Opening(q, job[r], began[r], current) /\ Measured(q, job[r], current)
    BY <1>1 DEF IInv, GoodRequest, Good, Loading
  <2>2. /\ job[r].full.w \in Positive /\ job[r].full.h \in Positive
        /\ job[r].full = Dims(job[r].full.w, job[r].full.h)
        /\ q \in Parsed /\ job[r] \in Jobs
    BY <1>1, MeasuredIsTyped DEF IInv, Typed
  <2>3. PICK v \in job[r].meta..current[q.id] :
          image = Images[q.id][v] /\ v \in Nat /\ 1 <= v /\ v <= Len(Images[q.id])
    BY <1>1, LoadedIsRecent
  <2>4. image \in Pictures
    BY <2>1, <2>3, ImageIsTyped DEF Opening
  <2>5. d = PageDims(Images[q.id][v], job[r].page)
    BY <2>3
  <2> HIDE DEF image
  <2>6. job[r].page \in 0..32
    <3>1. image.pages \in 1..33 /\ job[r].page \in Nat
      BY <2>2, <2>4 DEF Pictures, Jobs
    <3> QED BY <1>3, <3>1, SMT
  <2>7. d \in Sizes /\ d.w \in Positive /\ d.h \in Positive
    BY <2>4, <2>6, PageIsTyped
  <2> HIDE DEF d
  <2>8. d = Dims(d.w, d.h)
    BY <2>7 DEF Sizes, Dims
  <2>9. part \in Rectangles
    <3>1. job[r].rect.left \in Nat /\ job[r].rect.top \in Nat /\ job[r].rect.w \in Nat /\ job[r].rect.h \in Nat
      BY <2>2 DEF Jobs, Rectangles
    <3> QED BY <1>3, <2>2, <2>7, <2>8, <3>1, PageRegionIsRectangle
  <2> DEFINE j == [job[r] EXCEPT !.rect = part, !.loaded = d]
  <2>10. /\ j \in Jobs
         /\ j.rect = part /\ j.loaded = d /\ j.page = job[r].page /\ j.out = job[r].out
         /\ j.full = job[r].full /\ j.meta = job[r].meta /\ j.file = job[r].file
         /\ j.pages = job[r].pages
    BY <2>2, <2>7, <2>9 DEF Jobs
  <2> HIDE DEF j
  <2>11. Decided(q, j, job[r].rect)
    BY <2>1, <2>10 DEF Decided
  <2>12. Extracted(q, j, job[r].rect, current)
    BY <1>3, <2>1, <2>3, <2>5, <2>10 DEF Extracted
  <2>13. Good("encode", q, j, NoAnswer, began[r], current)
    BY <2>1, <2>10, <2>11, <2>12 DEF Good, Opening, Measured
  <2>14. "encode" \in Working /\ Continue(r, "encode", j)
    BY <1>3 DEF Working, j
  <2> QED BY <1>1, <1>3, <2>10, <2>13, <2>14, WorksOn
<1> QED BY <1>1, <1>2, <1>3

LEMMA EncodeKeeps ==
  ASSUME IInv, NEW r \in Requests, Encode(r)
  PROVE  IInv'
<1> DEFINE q == req[r]
           d == Rotated(job[r].out, q.rotation.degrees)
<1>1. /\ pc[r] = "encode" /\ pc[r] \in Working
      /\ UNCHANGED <<current, infoCache, req, began>>
      /\ Finish(r, "failed", NoDims) \/ Finish(r, "served", d)
  BY DEF Encode, Working
<1>2. CASE Finish(r, "failed", NoDims)
  BY <1>1, <1>2, FinishesPlainly DEF Outcomes
<1>3. CASE Finish(r, "served", d)
  <2>1. q.kind = "image"
    BY <1>1 DEF IInv, GoodRequest, Good
  <2>2. PICK region : Decided(q, job[r], region)
    BY <1>1 DEF IInv, GoodRequest, Good
  <2>3. Served(q, Answered("served", d, job[r].full))
    BY <2>2 DEF Served, Answered, Decided
  <2>4. Grounded(q, Answered("served", d, job[r].full), began[r], current)
    <3>1. Sound(q, Answered("failed", NoDims, job[r].full), began[r], current)
      BY <1>1, PlainIsSound DEF IInv
    <3> QED BY <3>1 DEF Sound, Grounded, Answered
  <2>5. Sound(q, Answered("served", d, job[r].full), began[r], current)
    BY <2>1, <2>3, <2>4 DEF Sound, Told, Refused, Answered
  <2>6. d \in Sizes /\ "served" \in Outcomes
    BY DEF Rotated, Dims, Sizes, Outcomes, IInv, Typed, Jobs
  <2>7. Counted' /\ Typed' /\ \A s \in Requests : GoodRequest(s)'
    BY <1>1, <1>3, <2>5, <2>6, Finishes
  <2> QED BY <1>1, <2>7, CachingUntouched DEF IInv
<1> QED BY <1>1, <1>2, <1>3

LEMMA ReturnKeeps ==
  ASSUME IInv, NEW r \in Requests, Return(r)
  PROVE  IInv'
<1>1. /\ pc[r] = "answered" /\ pc' = [pc EXCEPT ![r] = "idle"]
      /\ req' = [req EXCEPT ![r] = ErrSyntax]
      /\ got' = [got EXCEPT ![r] = NoAnswer]
      /\ began' = [began EXCEPT ![r] = 0]
      /\ current' = current /\ infoCache' = infoCache /\ inUse' = inUse /\ job' = job
  BY DEF Return
<1>2. Counted'
  <2>1. "idle" \in Steps \ Working /\ pc[r] \notin Working
    BY <1>1 DEF Steps, Working
  <2> QED BY <1>1, <2>1, SlotsUntouched DEF IInv
<1>3. Typed'
  <2>1. ErrSyntax \in Parsed /\ NoAnswer \in Answers
    BY NothingDone DEF Parsed
  <2> QED BY <1>1, <2>1 DEF IInv, Typed
<1>4. Caching'
  BY <1>1, CachingUntouched DEF IInv
<1>5. ASSUME NEW s \in Requests PROVE GoodRequest(s)'
  <2>1. CASE s = r
    <3>1. pc'[s] = "idle" /\ got'[s] = NoAnswer /\ job'[s] = job[r]
      BY <1>1, <2>1 DEF IInv, Typed, Counted
    <3>2. job[r].full = NoDims
      BY <1>1 DEF IInv, GoodRequest, Good
    <3> QED BY <3>1, <3>2 DEF GoodRequest, Good, Loading, Working
  <2>2. CASE s # r
    <3>1. /\ pc'[s] = pc[s] /\ got'[s] = got[s] /\ req'[s] = req[s] /\ began'[s] = began[s]
      BY <1>1, <2>2 DEF IInv, Typed, Counted
    <3>2. GoodRequest(s)
      BY DEF IInv
    <3> QED BY <1>1, <3>1, <3>2 DEF GoodRequest
  <2> QED BY <2>1, <2>2
<1> QED BY <1>2, <1>3, <1>4, <1>5 DEF IInv

LEMMA InvalidateKeeps ==
  ASSUME IInv, NEW id \in Identifiers, Invalidate(id)
  PROVE  IInv'
<1>1. /\ infoCache' = [x \in DOMAIN infoCache \ {id} |-> infoCache[x]]
      /\ current' = current /\ inUse' = inUse /\ pc' = pc /\ req' = req /\ job' = job
      /\ got' = got /\ began' = began
  BY DEF Invalidate, Restrict
<1>2. Counted' /\ Typed' /\ \A s \in Requests : GoodRequest(s)'
  BY <1>1 DEF IInv, Counted, SlotsAreHeld, Limited, Typed, GoodRequest
<1>3. Caching'
  <2>1. /\ DOMAIN infoCache' \subseteq DOMAIN infoCache
        /\ \A x \in DOMAIN infoCache' : infoCache'[x] = infoCache[x]
    BY <1>1
  <2>2. IsFiniteSet(DOMAIN infoCache) /\ Cardinality(DOMAIN infoCache) <= MaxInfoCacheEntries
        /\ Cardinality(DOMAIN infoCache) \in Nat
    BY FS_CardinalityType DEF IInv, Caching
  <2>3. IsFiniteSet(DOMAIN infoCache') /\ Cardinality(DOMAIN infoCache') \in Nat
        /\ Cardinality(DOMAIN infoCache') <= Cardinality(DOMAIN infoCache)
    BY <2>1, <2>2, FS_Subset, FS_CardinalityType
  <2>4. Cardinality(DOMAIN infoCache') <= MaxInfoCacheEntries
    BY <2>2, <2>3, Limits, SMT
  <2>5. ASSUME NEW x \in DOMAIN infoCache' PROVE Remembered(x)'
    <3>1. Remembered(x) /\ infoCache'[x] = infoCache[x]
      BY <2>1 DEF IInv, Caching
    <3> QED BY <1>1, <3>1 DEF Remembered
  <2> QED BY <2>1, <2>3, <2>4, <2>5 DEF Caching, IInv
<1> QED BY <1>2, <1>3 DEF IInv

LEMMA ReplaceKeeps ==
  ASSUME IInv, NEW id \in Identifiers, Replace(id)
  PROVE  IInv'
<1>1. /\ current' = [current EXCEPT ![id] = @ + 1]
      /\ current[id] < Len(Images[id])
      /\ infoCache' = infoCache /\ inUse' = inUse /\ pc' = pc /\ req' = req /\ job' = job
      /\ got' = got /\ began' = began
  BY DEF Replace
<1>2. Images[id] \in Seq(Pictures)
  BY ImagesType DEF Identifiers
<1>3. /\ current' \in [Identifiers -> Nat \ {0}]
      /\ \A x \in Identifiers : current'[x] <= Len(Images[x])
      /\ Newer(current, current')
  <2>1. Len(Images[id]) \in Nat
    BY <1>2
  <2>2. ASSUME NEW x \in Identifiers
        PROVE  /\ current[x] \in Nat \ {0} /\ current'[x] \in Nat \ {0}
               /\ current[x] <= current'[x] /\ current'[x] <= Len(Images[x])
    <3>1. current[x] \in Nat \ {0} /\ current[x] <= Len(Images[x])
      BY DEF IInv, Typed
    <3>2. current'[x] = IF x = id THEN current[x] + 1 ELSE current[x]
      BY <1>1 DEF IInv, Typed
    <3> QED BY <1>1, <2>1, <3>1, <3>2, SMT
  <2>3. DOMAIN current' = Identifiers /\ current' = [x \in Identifiers |-> current'[x]]
    BY <1>1 DEF IInv, Typed
  <2> QED BY <2>2, <2>3 DEF Newer
<1>4. Counted'
  BY <1>1 DEF IInv, Counted, SlotsAreHeld, Limited
<1>5. Typed'
  BY <1>1, <1>3 DEF IInv, Typed
<1>6. Caching'
  <2>1. ASSUME NEW x \in DOMAIN infoCache PROVE Remembered(x)'
    <3>1. Remembered(x) /\ x \in Identifiers
      BY DEF IInv, Caching
    <3>2. Describes(infoCache[x].dims, x, infoCache[x].meta, current'[x])
      BY <1>3, <3>1, DescribesStill DEF Newer, Remembered
    <3> QED BY <1>1, <3>1, <3>2 DEF Remembered
  <2> QED BY <1>1, <2>1 DEF IInv, Caching
<1>7. ASSUME NEW s \in Requests PROVE GoodRequest(s)'
  <2>1. GoodRequest(s) /\ job[s] \in Jobs /\ began[s] \in Nat
    BY DEF IInv, Typed
  <2>2. Good(pc[s], req[s], job[s], got[s], began[s], current')
    BY <1>3, <2>1, GoodStaysGood DEF GoodRequest
  <2> QED BY <1>1, <2>2 DEF GoodRequest
<1> QED BY <1>4, <1>5, <1>6, <1>7 DEF IInv
---------------------------------------------------------------------------
\* The invariant holds at first and is kept by every step.
LEMMA InitHolds == Init => IInv
<1> SUFFICES ASSUME Init PROVE IInv
  OBVIOUS
<1>1. Typed
  <2>1. \A id \in Identifiers : 1 <= Len(Images[id])
    <3>1. SUFFICES ASSUME NEW id \in Identifiers PROVE 1 <= Len(Images[id])
      OBVIOUS
    <3>2. Images[id] \in Seq(Pictures) /\ Images[id] # <<>>
      BY ImagesType DEF Identifiers
    <3> QED BY <3>2, SMT
  <2>2. ErrSyntax \in Parsed
    BY DEF Parsed
  <2> QED BY <2>1, <2>2, NothingDone DEF Init, Typed
<1>2. Counted
  <2>1. Workers = {}
    BY DEF Init, Workers, Working
  <2>2. Cardinality(Workers) = 0
    BY <2>1, FS_EmptySet
  <2> QED BY <2>2, Limits, SMT DEF Init, Counted, SlotsAreHeld, Workers, Steps
<1>3. Caching
  <2>1. DOMAIN infoCache = {}
    BY SMT DEF Init
  <2> QED BY <2>1, FS_EmptySet, Limits, SMT DEF Caching
<1>4. \A s \in Requests : GoodRequest(s)
  BY NothingDone DEF Init, GoodRequest, Good, Loading, Working
<1> QED BY <1>1, <1>2, <1>3, <1>4 DEF IInv

LEMMA NextKeeps == IInv /\ [Next]_vars => IInv'
<1> SUFFICES ASSUME IInv, [Next]_vars PROVE IInv'
  OBVIOUS
<1>1. CASE UNCHANGED vars
  BY <1>1 DEF vars, IInv, Counted, SlotsAreHeld, Limited, Typed, Caching, Remembered, GoodRequest
<1>2. ASSUME NEW r \in Requests, Work(r) PROVE IInv'
  BY <1>2, OpenKeeps, LookupKeeps, LoadKeeps, StoreKeeps, ResolveKeeps, LoadPageKeeps, EncodeKeeps
     DEF Work
<1>3. ASSUME NEW r \in Requests,
             Begin(r) \/ OpenFails(r) \/ Acquire(r) \/ GiveUp(r) \/ WorkFails(r) \/ Return(r)
      PROVE  IInv'
  BY <1>3, BeginKeeps, OpenFailsKeeps, AcquireKeeps, GiveUpKeeps, WorkFailsKeeps, ReturnKeeps
<1>4. ASSUME NEW id \in Identifiers, Invalidate(id) \/ Replace(id) PROVE IInv'
  BY <1>4, InvalidateKeeps, ReplaceKeeps
<1> QED BY <1>1, <1>2, <1>3, <1>4 DEF Next

\* Every state of every behaviour satisfies the invariant.
THEOREM Invariance == Spec => []IInv
BY InitHolds, NextKeeps, PTL DEF Spec
---------------------------------------------------------------------------
\* The limiter neither loses a slot nor gives one away twice, whatever a request meets
\* while it holds one: a failure, a refusal, an image too large, a client that left
\* (Limiter.Acquire).
THEOREM SlotsKept == Spec => []SlotsAreHeld
<1>1. IInv => SlotsAreHeld
  BY DEF IInv, Counted
<1> QED BY <1>1, Invariance, PTL

\* Every variable has its type, and the cache of dimensions keeps its limit, although
\* requests fill it at the same time (Handler.imageDimensions).
THEOREM TypeCorrect == Spec => []TypeOK
<1>1. IInv => TypeOK
  <2>1. SUFFICES ASSUME IInv PROVE TypeOK
    OBVIOUS
  <2>2. ASSUME NEW r \in Requests
        PROVE  /\ {job[r].meta, job[r].file, job[r].pages, job[r].page} \subseteq Nat
               /\ {job[r].full, job[r].loaded, job[r].out, got[r].dims, got[r].full} \subseteq Sizes
    <3>1. job[r] \in Jobs /\ got[r] \in Answers
      BY <2>1 DEF IInv, Typed
    <3> QED BY <3>1 DEF Jobs, Answers
  <2> QED BY <2>1, <2>2 DEF IInv, Counted, Typed, Caching, TypeOK
<1> QED BY <1>1, Invariance, PTL

\* info.json is never older than the metadata of the source while the request runs,
\* whichever request filled the cache it is served from, whatever it overtook and whatever
\* was evicted: the source had these dimensions at or after a time at which it told the
\* same size and modification time (Handler.imageDimensions).
THEOREM InfoFollows == Spec => []InfoFollowsMeta
<1>1. IInv => InfoFollowsMeta
  <2>1. SUFFICES ASSUME IInv, NEW r \in Requests, req[r].kind = "info", got[r].outcome = "served"
                 PROVE  \E v \in began[r]..current[req[r].id] :
                          Describes(got[r].dims, req[r].id, MetaOf(ImageAt(r, v)), current[req[r].id])
    BY DEF InfoFollowsMeta
  <2>2. got[r] # NoAnswer
    BY <2>1 DEF NoAnswer, Answered
  <2>3. Sound(req[r], got[r], began[r], current)
    BY <2>1, <2>2 DEF IInv, GoodRequest, Good
  <2> QED BY <2>1, <2>3 DEF Sound, Told, ImageAt
<1> QED BY <1>1, Invariance, PTL

\* Each version of a source can be told from the others by its size and time.
MetadataTells ==
  \A id \in Identifiers : \A v, w \in DOMAIN Images[id] : MetaOf(Images[id][v]) = MetaOf(Images[id][w]) => v = w

\* info.json describes an image that the source was since the request began.
InfoIsCurrent ==
  \A r \in Requests :
    req[r].kind = "info" /\ got[r].outcome = "served" =>
      \E v \in began[r]..current[req[r].id] : got[r].dims = DimsAt(req[r].id, v)

\* Where that is so, info.json describes an image that the source was while the request
\* ran.  It is not so of an upstream that tells no Last-Modified, or of a source that
\* changes twice within the time it is told in, and is replaced by as many bytes.
THEOREM InfoCurrentWhere == ASSUME MetadataTells PROVE Spec => []InfoIsCurrent
<1>1. IInv => InfoIsCurrent
  <2>1. SUFFICES ASSUME IInv, NEW r \in Requests, req[r].kind = "info", got[r].outcome = "served"
                 PROVE  \E v \in began[r]..current[req[r].id] : got[r].dims = DimsAt(req[r].id, v)
    BY DEF InfoIsCurrent
  <2> DEFINE id == req[r].id
             d == got[r].dims
  <2>2. got[r] # NoAnswer /\ pc[r] # "idle"
    <3>1. got[r] # NoAnswer
      BY <2>1 DEF NoAnswer, Answered
    <3> QED BY <2>1, <3>1 DEF IInv, GoodRequest, Good
  <2>3. Sound(req[r], got[r], began[r], current)
    BY <2>1, <2>2 DEF IInv, GoodRequest, Good
  <2>4. id \in Identifiers /\ \E v \in began[r]..current[id] : Describes(d, id, MetaOf(Images[id][v]), current[id])
    BY <2>1, <2>3 DEF Sound, Told
  <2>5. PICK v \in began[r]..current[id] : Describes(d, id, MetaOf(Images[id][v]), current[id])
    BY <2>4
  <2>6. PICK w \in 1..current[id] : /\ MetaOf(Images[id][w]) = MetaOf(Images[id][v])
                                    /\ \E u \in w..current[id] : d = DimsAt(id, u)
    BY <2>5 DEF Describes, DimsAt
  <2>7. /\ current[id] \in Nat /\ began[r] \in 1..current[id]
        /\ current[id] <= Len(Images[id]) /\ Images[id] \in Seq(Pictures)
    <3>1. GoodRequest(r) /\ current[id] \in Nat /\ current[id] <= Len(Images[id])
      BY <2>1, <2>4 DEF IInv, Typed
    <3>2. began[r] \in 1..current[id]
      BY <2>2, <2>4, <3>1 DEF GoodRequest, Good
    <3>3. Images[id] \in Seq(Pictures)
      BY <2>4, ImagesType DEF Identifiers
    <3> QED BY <3>1, <3>2, <3>3
  <2>8. v \in DOMAIN Images[id] /\ w \in DOMAIN Images[id]
    BY <2>7, SMT
  <2>9. v = w
    BY <2>4, <2>6, <2>8 DEF MetadataTells
  <2>10. \A u \in w..current[id] : u \in began[r]..current[id]
    BY <2>7, <2>9, SMT
  <2> QED BY <2>6, <2>10
<1> QED BY <1>1, Invariance, PTL

\* A tile that info.json offers of an image is served in the size a viewer expects, or
\* not at all because the source became another image or libvips failed: it is never
\* refused for its region or its size (BuildLevel2Info, resolveRegion, resolveSize).
THEOREM TilesServed == Spec => []TilesAreServed
<1>1. IInv => TilesAreServed
  <2>1. SUFFICES ASSUME IInv, TileWidth * TileWidth <= MaxOutputPixels,
                        NEW r \in Requests, req[r].kind = "image", got[r].full # NoDims,
                        NEW f \in pyramidScaleFactors(got[r].full.w, got[r].full.h, TileWidth),
                        NEW column \in 0..got[r].full.w, NEW row \in 0..got[r].full.h,
                        NEW t, t = Tile(got[r].full, f, TileWidth, column, row),
                        t # NoRect, IsTile(req[r], t, f)
                 PROVE  /\ got[r].outcome # "refused"
                        /\ got[r].outcome = "served" => got[r].dims = TileSize(t, f)
    BY DEF TilesAreServed
  <2> DEFINE q == req[r]
             full == got[r].full
  <2>2. /\ Sound(q, got[r], began[r], current)
        /\ q \in Parsed
        /\ q.id \in Identifiers => began[r] \in 1..current[q.id]
    BY <2>1 DEF IInv, GoodRequest, Good, Typed, NoAnswer, Answered
  <2>3. PICK v \in began[r]..current[q.id] : full = DimsAt(q.id, v)
    BY <2>1, <2>2 DEF Sound, Grounded
  <2>4. q.id \in Identifiers
    BY <2>1, <2>2 DEF Sound, Grounded
  <2>5. v \in Nat /\ 1 <= v /\ v <= Len(Images[q.id])
    <3>1. current[q.id] \in Nat \ {0} /\ current[q.id] <= Len(Images[q.id]) /\ began[r] \in Nat
      BY <2>1, <2>4 DEF IInv, Typed
    <3>2. Len(Images[q.id]) \in Nat
      BY <2>4, ImagesType DEF Identifiers
    <3> QED BY <2>2, <2>3, <2>4, <3>1, <3>2, SMT
  <2>6. full.w \in Positive /\ full.h \in Positive /\ full = Dims(full.w, full.h)
    <3>1. DimsAt(q.id, v).w \in Positive /\ DimsAt(q.id, v).h \in Positive
      BY <2>4, <2>5, ImageIsTyped
    <3> QED BY <2>3, <3>1 DEF DimsAt, Dims
  <2>7. f \in Positive /\ column \in Nat /\ row \in Nat /\ TileWidth \in Positive /\ MaxOutputPixels \in Nat
    <3>1. f \in Positive
      BY <2>1, SMT DEF pyramidScaleFactors, Positive
    <3>2. TileWidth \in Positive /\ MaxOutputPixels \in Nat
      BY Limits DEF Positive
    <3> QED BY <2>1, <3>1, <3>2, SMT
  <2>8. q.region \in ParsedRegions /\ q.size \in ParsedSizes
    BY <2>1, <2>2, RequestIsParsed
  <2>9. /\ q.region.kind = "pixels"
        /\ q.region.x = t.left * Unit /\ q.region.y = t.top * Unit
        /\ q.region.w = t.w * Unit /\ q.region.h = t.h * Unit
        /\ q.size.kind = "wh" /\ q.size.w = TileSize(t, f).w /\ q.size.h = TileSize(t, f).h
        /\ q.rotation.degrees = 0
    BY <2>1 DEF IsTile, Region, Size, NoRotation, Rotation
  <2>10. t = Tile(Dims(full.w, full.h), f, TileWidth, column, row)
    BY <2>1, <2>6
  <2>0. t # NoRect /\ TileWidth * TileWidth <= MaxOutputPixels
    BY <2>1
  <2> HIDE DEF q, full
  <2>11. /\ resolveRegion(q.region, full.w, full.h) = {t}
         /\ resolveSize(q.size, t.w, t.h) = {TileSize(t, f)}
         /\ TileSize(t, f) # NoDims
         /\ CheckOutputPixels(TileSize(t, f), MaxOutputPixels)
    <3> DEFINE w == full.w
               h == full.h
               region == q.region
               size == q.size
    <3>1. w \in Positive /\ h \in Positive /\ region \in ParsedRegions /\ size \in ParsedSizes
      BY <2>6, <2>8
    <3>2. AsksFor(region, size, t, f) /\ t = Tile(Dims(w, h), f, TileWidth, column, row)
      BY <2>9, <2>10 DEF AsksFor
    <3> HIDE DEF w, h, region, size
    <3> USE <2>0, <2>7, <3>1, <3>2
    <3>3. resolveRegion(region, w, h) = {t}
      BY TileIsServed
    <3>4. resolveSize(size, t.w, t.h) = {TileSize(t, f)}
      <4>1. ~Enlarges(size.w, size.h, t.w, t.h)
        BY TileIsServed
      <4> QED BY <4>1 DEF resolveSize, AsksFor, TileSize, Dims
    <3>5. TileSize(t, f) # NoDims
      BY TileIsServed
    <3>6. CheckOutputPixels(TileSize(t, f), MaxOutputPixels)
      BY TileIsServed
    <3> QED BY <3>3, <3>4, <3>5, <3>6 DEF w, h, region, size
  <2>12. \A region, size : Fits(q, full, region, size) => region = t /\ size = TileSize(t, f)
    BY <2>11 DEF Fits
  <2>13. Accepted(TileSize(t, f)) /\ NoRect \notin resolveRegion(q.region, full.w, full.h)
    BY <2>1, <2>11 DEF Accepted
  <2>14. got[r].outcome # "refused"
    BY <2>1, <2>2, <2>12, <2>13 DEF Sound, Refused, q, full
  <2>15. \A d : Rotated(d, q.rotation.degrees) = d
    <3>1. 0 # 90 * Unit /\ 0 # 270 * Unit
      BY UnitIsPositive, SMT
    <3> QED BY <2>9, <3>1 DEF Rotated
  <2>16. got[r].outcome = "served" => got[r].dims = TileSize(t, f)
    BY <2>1, <2>2, <2>12, <2>15 DEF Sound, Served, q, full
  <2> QED BY <2>14, <2>16
<1> QED BY <1>1, Invariance, PTL

\* What is extracted lies in what was loaded, and is not enlarged unless the request
\* says so, for the whole image and for any of its smaller pages
\* (Pipeline.Transform, scaleRegionToLoadedPage).
THEOREM ExtractInside == Spec => []ExtractIsInside
<1>1. IInv => ExtractIsInside
  <2>1. SUFFICES ASSUME IInv, NEW r \in Requests, pc[r] = "encode"
                 PROVE  /\ Inside(job[r].rect, job[r].loaded)
                        /\ began[r] = current[req[r].id] /\ ~req[r].size.upscale =>
                             FitsIn(job[r].out, job[r].rect)
    BY DEF ExtractIsInside
  <2> DEFINE q == req[r]
             j == job[r]
             now == current[q.id]
  <2>2. /\ q.kind = "image" /\ q \in Parsed /\ j \in Jobs
        /\ Opening(q, j, began[r], current) /\ Measured(q, j, current)
    BY <2>1 DEF IInv, Typed, GoodRequest, Good, Loading, Working
  <2>3. PICK region : Decided(q, j, region) /\ Extracted(q, j, region, current)
    BY <2>1 DEF IInv, GoodRequest, Good
  <2>4. /\ now \in Nat \ {0} /\ now <= Len(Images[q.id]) /\ Len(Images[q.id]) \in Nat
        /\ began[r] \in 1..now /\ j.meta \in began[r]..now /\ q.id \in Identifiers
    BY <2>1, <2>2, ImagesType DEF IInv, Typed, Opening, Identifiers
  <2>5. PICK v \in j.meta..now : j.full = DimsAt(q.id, v) /\ j.pages = Images[q.id][v].pages
    BY <2>2 DEF Measured
  <2> HIDE DEF now
  <2>6. \A n \in j.meta..now : n \in Nat /\ 1 <= n /\ n <= Len(Images[q.id])
    BY <2>4, SMT
  <2>7. \A n \in j.meta..now : began[r] = now => n = now
    BY <2>4, SMT
  <2>8. /\ j.full.w \in Positive /\ j.full.h \in Positive /\ j.full = Dims(j.full.w, j.full.h)
        /\ j.pages \in 1..33
    <3>1. Images[q.id][v] \in Pictures /\ DimsAt(q.id, v).w \in Positive /\ DimsAt(q.id, v).h \in Positive
      BY <2>4, <2>6, ImageIsTyped
    <3> QED BY <2>5, <3>1 DEF Pictures, DimsAt, Dims
  <2>9. /\ Inside(region, Dims(j.full.w, j.full.h))
        /\ region \in Rectangles
        /\ j.out \in Sizes
        /\ ~q.size.upscale => FitsIn(j.out, region)
    BY <2>2, <2>3, <2>8, FitsIsInside DEF Decided
  <2>10. CASE j.page = 0
    <3>1. j.rect = region /\ j.loaded = j.full
      BY <2>3, <2>10, SMT DEF Extracted
    <3> QED BY <2>8, <2>9, <3>1
  <2>11. CASE j.page # 0
    <3>1. PICK n \in j.meta..now : j.loaded = PageDims(Images[q.id][n], j.page)
      BY <2>3, <2>11 DEF Extracted, now
    <3>2. /\ j.rect \in scaleRegionToLoadedPage(region, j.full, j.loaded)
          /\ j.page \in chooseJP2Page(j.pages, region, j.out)
      BY <2>3, <2>11 DEF Extracted, Decided
    <3> DEFINE p == j.page
               k == 2^p
               image == Images[q.id][n]
    <3>3. p \in 0..32 /\ p > 0
      BY <2>8, <2>11, <3>2, SMT DEF chooseJP2Page
    <3>4. Shrinks(2^p, region, j.out)
      BY <3>2, <3>3 DEF chooseJP2Page
    <3>5. image \in Pictures
      BY <2>4, <2>6, ImageIsTyped
    <3> HIDE DEF image, p
    <3>6. j.loaded = PageDims(image, p)
      BY <3>1 DEF image, p
    <3>7. j.loaded.w \in Positive /\ j.loaded.h \in Positive
      BY <3>3, <3>5, <3>6, PageIsTyped
    <3>8. k \in Positive /\ j.loaded = Dims(Ceil(image.w, k), Ceil(image.h, k))
      BY <3>3, <3>6, PowersOfTwo DEF PageDims
    <3>9. Shrinks(k, region, j.out)
      BY <3>4
    <3> HIDE DEF k
    <3>10. j.loaded = Dims(j.loaded.w, j.loaded.h)
      BY <3>8 DEF Dims
    <3>11. region.left \in Nat /\ region.top \in Nat /\ region.w \in Nat /\ region.h \in Nat
      BY <2>9 DEF Rectangles
    <3>12. Inside(j.rect, j.loaded)
      BY <2>8, <3>2, <3>7, <3>10, <3>11, PageRegionIsInside
    <3>13. began[r] = now => FitsIn(j.out, j.rect)
      <4>1. SUFFICES ASSUME began[r] = now PROVE FitsIn(j.out, j.rect)
        OBVIOUS
      <4>2. n = v
        BY <2>5, <2>7, <3>1, <4>1
      <4>3. j.full = Dims(image.w, image.h)
        BY <2>5, <4>2 DEF DimsAt, image
      <4>4. j.full.w = image.w /\ j.full.h = image.h
        BY <4>3 DEF Dims
      <4>5. j.rect \in scaleRegionToLoadedPage(region, Dims(j.full.w, j.full.h),
                                              Dims(Ceil(j.full.w, k), Ceil(j.full.h, k)))
        BY <2>8, <3>2, <3>8, <4>4
      <4>6. j.out.w \in Nat /\ j.out.h \in Nat
        BY <2>9 DEF Sizes
      <4> QED BY <2>8, <2>9, <3>8, <3>9, <3>11, <4>5, <4>6, PageHasThePixels
    <3> QED BY <3>12, <3>13 DEF now
  <2> QED BY <2>10, <2>11
<1> QED BY <1>1, Invariance, PTL
---------------------------------------------------------------------------
\* Induction over the numbers, for a set: none is the least that is missing.
LEMMA Induction ==
  ASSUME NEW S, 0 \in S, \A n \in Nat : n \in S => n + 1 \in S
  PROVE  Nat \subseteq S
<1> SUFFICES ASSUME Nat \ S # {} PROVE FALSE
  OBVIOUS
<1> DEFINE R == OpToRel(<, Nat)
           T == Nat \ S
<1>1. IsWellFoundedOn(R, Nat)
  BY NatLessThanWellFounded
<1>2. R = {ss \in Nat \X Nat : ss[1] < ss[2]}
  BY DEF OpToRel
<1>3. T \subseteq Nat /\ T # {}
  OBVIOUS
<1> HIDE DEF R, T
<1>4. PICK n \in T : \A m \in T : ~(<<m, n>> \in R)
  BY <1>1, <1>3, WFMin
<1>5. n \in Nat /\ n \notin S
  BY <1>4 DEF T
<1>6. n # 0
  BY <1>5
<1>7. n - 1 \in Nat /\ n - 1 < n /\ (n - 1) + 1 = n
  BY <1>5, <1>6
<1>8. <<n - 1, n>> \in R
  <2>1. <<n - 1, n>> \in Nat \X Nat /\ <<n - 1, n>>[1] = n - 1 /\ <<n - 1, n>>[2] = n
    BY <1>5, <1>7
  <2> QED BY <1>2, <1>7, <2>1
<1>9. n - 1 \in S
  BY <1>4, <1>7, <1>8 DEF T
<1> QED BY <1>5, <1>7, <1>9

\* What joining the parts of a segment gives, by the number of parts.
LEMMA FlattenIsTyped ==
  ASSUME NEW S, NEW seqs \in Seq(Seq(S))
  PROVE  FlattenSeq(seqs) \in Seq(S)
<1> DEFINE n == Len(seqs)
           step(f, i) == IF i = 1 THEN seqs[i] ELSE f[i - 1] \o seqs[i]
           flatten[i \in 1..n] == IF i = 1 THEN seqs[i] ELSE flatten[i - 1] \o seqs[i]
           upTo(k) == \E f \in [1..k -> Seq(S)] : \A i \in 1..k : f[i] = step(f, i)
<1>1. n \in Nat /\ \A i \in 1..n : seqs[i] \in Seq(S)
  OBVIOUS
<1>2. CASE n = 0
  BY <1>2 DEF FlattenSeq
<1>3. CASE n # 0
  <2>1. FlattenSeq(seqs) = flatten[n]
    BY <1>3 DEF FlattenSeq
  <2>2. flatten = CHOOSE f : f = [i \in 1..n |-> step(f, i)]
    BY DEF flatten
  <2> HIDE DEF n, flatten
  <2>3. \A k \in Nat : k <= n => upTo(k)
    <3> DEFINE K == {k \in Nat : k <= n => upTo(k)}
    <3>1. 0 \in K
      <4> DEFINE f == [i \in 1..0 |-> <<>>]
      <4>1. f \in [1..0 -> Seq(S)] /\ \A i \in 1..0 : f[i] = step(f, i)
        OBVIOUS
      <4> QED BY <4>1
    <3>2. ASSUME NEW k \in Nat, k \in K PROVE k + 1 \in K
      <4>0. k + 1 \in Nat
        OBVIOUS
      <4>1. SUFFICES ASSUME k + 1 <= n PROVE upTo(k + 1)
        BY <4>0 DEF K
      <4>2. k <= n /\ upTo(k)
        BY <1>1, <3>2, <4>1
      <4>3. PICK f \in [1..k -> Seq(S)] : \A i \in 1..k : f[i] = step(f, i)
        BY <4>2
      <4> DEFINE g == [i \in 1..(k + 1) |-> IF i = k + 1 THEN step(f, k + 1) ELSE f[i]]
      <4>4. k + 1 \in 1..n /\ seqs[k + 1] \in Seq(S)
        BY <1>1, <4>1
      <4>5. step(f, k + 1) \in Seq(S)
        <5>1. CASE k = 0
          BY <4>4, <5>1
        <5>2. CASE k # 0
          <6>1. f[k] \in Seq(S) /\ (k + 1) - 1 = k /\ k + 1 # 1
            BY <5>2
          <6> QED BY <4>4, <6>1
        <5> QED BY <5>1, <5>2
      <4>6. \A i \in 1..k : i \in 1..(k + 1) /\ i # k + 1 /\ (i # 1 => i - 1 \in 1..k)
        OBVIOUS
      <4>7. g \in [1..(k + 1) -> Seq(S)]
        BY <4>5
      <4>8. ASSUME NEW i \in 1..(k + 1) PROVE g[i] = step(g, i)
        <5>1. CASE i \in 1..k
          <6>1. g[i] = step(f, i)
            BY <4>3, <4>6, <5>1
          <6>2. i # 1 => g[i - 1] = f[i - 1]
            BY <4>6, <5>1
          <6> QED BY <6>1, <6>2
        <5>2. CASE i = k + 1
          <6>1. g[i] = step(f, i)
            BY <5>2
          <6>2. i # 1 => i - 1 \in 1..k
            BY <5>2
          <6>3. i # 1 => g[i - 1] = f[i - 1]
            BY <4>6, <6>2
          <6> QED BY <6>1, <6>3
        <5> QED BY <5>1, <5>2
      <4> HIDE DEF g
      <4> QED BY <4>7, <4>8
    <3> HIDE DEF K
    <3>3. Nat \subseteq K
      BY <3>1, <3>2, Induction
    <3> QED BY <3>3 DEF K
  <2>4. PICK f \in [1..n -> Seq(S)] : \A i \in 1..n : f[i] = step(f, i)
    <3>1. n <= n
      BY <1>1
    <3> QED BY <1>1, <2>3, <3>1
  <2>5. f = [i \in 1..n |-> step(f, i)]
    BY <2>4
  <2>6. flatten = [i \in 1..n |-> step(flatten, i)]
    BY <2>2, <2>5
  <2>7. \A k \in Nat : k \in 1..n => flatten[k] \in Seq(S)
    <3> DEFINE K == {k \in Nat : k \in 1..n => flatten[k] \in Seq(S)}
    <3>1. 0 \in K
      OBVIOUS
    <3>2. ASSUME NEW k \in Nat, k \in K PROVE k + 1 \in K
      <4>1. SUFFICES ASSUME k + 1 \in 1..n PROVE flatten[k + 1] \in Seq(S)
        OBVIOUS
      <4>2. flatten[k + 1] = step(flatten, k + 1) /\ seqs[k + 1] \in Seq(S)
        BY <1>1, <2>6, <4>1
      <4>3. CASE k = 0
        BY <4>2, <4>3
      <4>4. CASE k # 0
        <5>1. k \in 1..n /\ (k + 1) - 1 = k /\ k + 1 # 1
          BY <1>1, <4>1, <4>4
        <5>2. flatten[k] \in Seq(S)
          BY <3>2, <5>1
        <5> QED BY <4>2, <5>1, <5>2
      <4> QED BY <4>3, <4>4
    <3> HIDE DEF K
    <3>3. Nat \subseteq K
      BY <3>1, <3>2, Induction
    <3> QED BY <3>3 DEF K
  <2>8. n \in 1..n
    BY <1>1, <1>3
  <2> QED BY <1>1, <2>1, <2>7, <2>8
<1> QED BY <1>2, <1>3

LEMMA FlattenOne ==
  ASSUME NEW s
  PROVE  FlattenSeq(<<s>>) = s
<1> DEFINE seqs == <<s>>
           step(f, i) == IF i = 1 THEN seqs[i] ELSE f[i - 1] \o seqs[i]
           flatten[i \in 1..Len(seqs)] == IF i = 1 THEN seqs[i] ELSE flatten[i - 1] \o seqs[i]
<1>1. FlattenSeq(seqs) = flatten[Len(seqs)] /\ Len(seqs) = 1 /\ seqs[1] = s
  BY DEF FlattenSeq
<1>2. flatten = CHOOSE f : f = [i \in 1..Len(seqs) |-> step(f, i)]
  BY DEF flatten
<1> HIDE DEF flatten, seqs
<1> DEFINE g == [i \in {1} |-> s]
<1>3. 1..Len(seqs) = {1}
  BY <1>1
<1>4. g = [i \in 1..Len(seqs) |-> step(g, i)]
  BY <1>1, <1>3
<1>5. flatten = [i \in 1..Len(seqs) |-> step(flatten, i)]
  BY <1>2, <1>4
<1> QED BY <1>1, <1>3, <1>5 DEF seqs
---------------------------------------------------------------------------
\* Names: an identifier is a sequence of parts, joined by decodeIdentifier, and one
\* escaped segment is the identifier it was made of.
GoodIdentifiers == {id \in Seq(Parts) \ {<<>>, <<Word("")>>} : \A i \in DOMAIN id : id[i] # Illegal}

LEMMA IdentifierIsTyped ==
  ASSUME NEW path \in Seq(Segments), Identifier(path) # <<>>
  PROVE  Identifier(path) \in GoodIdentifiers
<1> DEFINE seqs == [i \in DOMAIN path |-> Unescape(path[i])]
           id == FlattenSeq(seqs)
<1>1. \A i \in 1..Len(path) : seqs[i] \in Seq(Parts)
  BY UnescapeIsTyped
<1>2. seqs \in Seq(Seq(Parts))
  <2>1. Len(path) \in Nat /\ DOMAIN path = 1..Len(path)
    OBVIOUS
  <2>2. seqs \in [1..Len(path) -> Seq(Parts)]
    BY <1>1, <2>1
  <2> HIDE DEF seqs
  <2> QED BY <2>1, <2>2
<1> HIDE DEF seqs
<1>3. id \in Seq(Parts)
  BY <1>2, FlattenIsTyped
<1> HIDE DEF id
<1>4. Identifier(path) = (IF id = <<Word("")>> \/ \E i \in DOMAIN id : id[i] = Illegal THEN <<>> ELSE id)
  BY DEF Identifier, id, seqs
<1> QED BY <1>3, <1>4 DEF GoodIdentifiers

LEMMA IdentifierOfEscaped ==
  ASSUME NEW id \in GoodIdentifiers
  PROVE  Identifier(<<Escaped(id)>>) = id
<1> DEFINE path == <<Escaped(id)>>
           seqs == [i \in DOMAIN path |-> Unescape(path[i])]
<1>1. Unescape(Escaped(id)) = id
  BY DEF Unescape, Escaped
<1>2. seqs = <<id>>
  <2>1. DOMAIN path = {1} /\ path[1] = Escaped(id)
    OBVIOUS
  <2>2. seqs = [i \in {1} |-> id]
    BY <1>1, <2>1
  <2>3. <<id>> = [i \in {1} |-> id]
    OBVIOUS
  <2> QED BY <2>2, <2>3
<1>3. FlattenSeq(seqs) = id
  BY <1>2, FlattenOne
<1>4. id # <<Word("")>> /\ ~ \E i \in DOMAIN id : id[i] = Illegal
  BY DEF GoodIdentifiers
<1> HIDE DEF seqs
<1> QED BY <1>3, <1>4 DEF Identifier, seqs

\* A segment of an operation that is not escaped is what it is.
LEMMA PlainSegment ==
  ASSUME NEW s, s.is \in {"text", "leaf"}
  PROVE  decodeOperationSegment(s) = s
<1>1. Unescape(s) = <<s>>
  BY DEF Unescape
<1>2. Len(<<s>>) = 1 /\ <<s>>[1] = s
  OBVIOUS
<1> QED BY <1>1, <1>2 DEF decodeOperationSegment
---------------------------------------------------------------------------
\* Every part of an operation that the parser accepts, written again, is parsed to the same.
LEMMA RegionReturns ==
  ASSUME NEW s \in Texts, parseRegion(s) # NoRegion
  PROVE  parseRegion(regionString(parseRegion(s))) = parseRegion(s)
<1> DEFINE r == parseRegion(s)
           v == [i \in DOMAIN s.nums |-> s.nums[i].value]
<1>1. CASE s \in {Word("full"), Word("square")}
  <2>1. s.word \in {"full", "square"} /\ s = Word(s.word)
    BY <1>1 DEF Word, Text
  <2>2. r = Region(s.word, 0, 0, 0, 0)
    BY <1>1 DEF parseRegion
  <2>3. regionString(r) = s
    <3>1. r.kind = s.word
      BY <2>2 DEF Region
    <3> HIDE DEF r
    <3>2. regionString(r) = Word(r.kind)
      BY <2>1, <3>1 DEF regionString
    <3> QED BY <2>1, <3>1, <3>2
  <2> QED BY <2>3
<1>2. CASE s \notin {Word("full"), Word("square")}
  <2>1. /\ r = Region(IF s.pct THEN "percent" ELSE "pixels", v[1], v[2], v[3], v[4])
        /\ v[3] > 0 /\ v[4] > 0 /\ v[1] >= 0 /\ v[2] >= 0
        /\ s.pct => \A i \in 1..4 : v[i] <= 100 * Unit
    BY <1>2 DEF parseRegion
  <2>2. s.pct \in BOOLEAN
    BY DEF Texts
  <2> DEFINE nums == <<formatFloat(v[1]), formatFloat(v[2]), formatFloat(v[3]), formatFloat(v[4])>>
             t == Text(FALSE, FALSE, s.pct, "", nums)
             u == [i \in DOMAIN nums |-> nums[i].value]
  <2> HIDE DEF v
  <2>3. regionString(r) = t
    <3>1. r.kind \notin {"full", "square"} /\ (r.kind = "percent") = s.pct
      BY <2>1, <2>2 DEF Region
    <3>2. r.x = v[1] /\ r.y = v[2] /\ r.w = v[3] /\ r.h = v[4]
      BY <2>1 DEF Region
    <3> HIDE DEF r
    <3>3. regionString(r) = Text(FALSE, FALSE, r.kind = "percent", "",
                                 <<formatFloat(r.x), formatFloat(r.y), formatFloat(r.w), formatFloat(r.h)>>)
      BY <3>1 DEF regionString
    <3> QED BY <3>1, <3>2, <3>3
  <2>4. /\ Len(nums) = 4 /\ DOMAIN nums = 1..4
        /\ nums[1] = formatFloat(v[1]) /\ nums[2] = formatFloat(v[2])
        /\ nums[3] = formatFloat(v[3]) /\ nums[4] = formatFloat(v[4])
    OBVIOUS
  <2> HIDE DEF nums
  <2>5. u[1] = v[1] /\ u[2] = v[2] /\ u[3] = v[3] /\ u[4] = v[4]
    BY <2>4 DEF formatFloat, Number
  <2>6. \A i \in 1..4 : IsFloat(nums[i])
    <3>1. \A n : IsFloat(formatFloat(n))
      BY DEF IsFloat, formatFloat, Number
    <3>2. \A i \in 1..4 : i = 1 \/ i = 2 \/ i = 3 \/ i = 4
      OBVIOUS
    <3> QED BY <2>4, <3>1, <3>2
  <2>7. \A i \in 1..4 : u[i] = v[i]
    <3>1. \A i \in 1..4 : i = 1 \/ i = 2 \/ i = 3 \/ i = 4
      OBVIOUS
    <3> HIDE DEF u
    <3> QED BY <2>5, <3>1
  <2>8. /\ t.word = "" /\ ~t.up /\ ~t.bang /\ t.nums = nums /\ t.pct = s.pct
        /\ t \notin {Word("full"), Word("square")}
    BY DEF Text, Word
  <2> HIDE DEF t
  <2>9. parseRegion(t) = Region(IF s.pct THEN "percent" ELSE "pixels", u[1], u[2], u[3], u[4])
    BY <2>1, <2>4, <2>5, <2>6, <2>7, <2>8 DEF parseRegion
  <2> QED BY <2>1, <2>3, <2>5, <2>9
<1> QED BY <1>1, <1>2

\* A number of whole pixels that itoa writes is one that parsePosInt accepts.
LEMMA NumberReturns ==
  ASSUME NEW n \in 1..MaxParsedDimension
  PROVE  IsPosInt(itoa(n)) /\ Atoi(itoa(n)) = n
<1>1. n \in Nat /\ Unit \in Positive
  BY UnitIsPositive, ParserLimits, SMT DEF Positive
<1>2. n * Unit \in Nat /\ (n * Unit) % Unit = 0 /\ (n * Unit) \div Unit = n
  BY <1>1, WholeUnits, SMT DEF Positive
<1>3. itoa(n).text = "short" /\ itoa(n).value = n * Unit
  BY DEF itoa, formatFloat, Number
<1> HIDE DEF itoa
<1> QED BY <1>2, <1>3 DEF IsPosInt, Atoi

\* What parseSize reads in the list of numbers that sizeString writes.
LEMMA SizeReturns ==
  ASSUME NEW s \in Texts, parseSize(s) # NoSize
  PROVE  parseSize(sizeString(parseSize(s))) = parseSize(s)
<1>1. s.up \in BOOLEAN
  BY DEF Texts
<1>3. CASE s.word = "max" /\ ~s.bang /\ ~s.pct
  <2> DEFINE z == Size(IF s.up THEN "maxUp" ELSE "max", 0, 0, 0, s.up)
             t == Text(s.up, FALSE, FALSE, "max", <<>>)
  <2>1. parseSize(s) = z
    BY <1>3 DEF parseSize
  <2>2. z.kind \in {"max", "maxUp"} /\ z.upscale = s.up
    BY DEF Size
  <2>3. sizeString(z) = t
    <3> HIDE DEF z
    <3> QED BY <2>2 DEF sizeString
  <2>4. t.word = "max" /\ ~t.bang /\ ~t.pct /\ t.up = s.up
    BY DEF Text
  <2> HIDE DEF t
  <2>5. parseSize(t) = z
    BY <2>4 DEF parseSize
  <2> QED BY <2>1, <2>3, <2>5
<1>4. CASE /\ s.pct /\ ~s.bang /\ s.word = "" /\ Len(s.nums) = 1 /\ IsFloat(s.nums[1])
           /\ s.nums[1].value \in 1..(MaxParsedPercent * Unit)
  <2> DEFINE n == s.nums[1].value
             z == Size("percent", 0, 0, n, s.up)
             t == Text(s.up, FALSE, TRUE, "", <<formatFloat(n)>>)
  <2>1. parseSize(s) = z
    BY <1>4 DEF parseSize
  <2>2. z.kind = "percent" /\ z.upscale = s.up /\ z.percent = n
    BY DEF Size
  <2>3. sizeString(z) = t
    <3> HIDE DEF z, n
    <3>1. <<formatFloat(n)>> # <<>>
      OBVIOUS
    <3> QED BY <2>2, <3>1 DEF sizeString
  <2>4. /\ t.pct /\ ~t.bang /\ t.word = "" /\ t.up = s.up /\ t.nums = <<formatFloat(n)>>
    BY DEF Text
  <2> HIDE DEF t, n
  <2>9. Len(<<formatFloat(n)>>) = 1 /\ <<formatFloat(n)>>[1] = formatFloat(n)
    OBVIOUS
  <2>8. Len(t.nums) = 1 /\ t.nums[1] = formatFloat(n)
    BY <2>4, <2>9, Zenon
  <2>5. IsFloat(t.nums[1]) /\ t.nums[1].value = n
    BY <2>8 DEF IsFloat, formatFloat, Number
  <2>6. t.word # "max"
    BY <2>4
  <2>7. parseSize(t) = z
    BY <1>4, <2>4, <2>5, <2>6, <2>8 DEF parseSize, n
  <2> QED BY <2>1, <2>3, <2>7
<1>5. CASE ~s.pct /\ s.word = "" /\ Len(s.nums) = 2 /\ parseSize(s) = parseDims(s)
  <2> DEFINE w == Atoi(s.nums[1])
             h == Atoi(s.nums[2])
  <2>1. \A i \in {1, 2} : IsPosInt(s.nums[i]) => Atoi(s.nums[i]) \in 1..MaxParsedDimension
    BY DEF IsPosInt, Atoi
  <2>2. Empty.text = "empty" /\ ~IsPosInt(Empty) /\ \A n : IsPosInt(n) => n.text # "empty"
    BY DEF Empty, Number, IsPosInt
  <2>3. ASSUME NEW a, NEW b, NEW bang \in BOOLEAN
        PROVE  /\ parseSize(Text(s.up, bang, FALSE, "", <<a, b>>)) = parseDims(Text(s.up, bang, FALSE, "", <<a, b>>))
               /\ <<a, b>> # <<>>
    <3> DEFINE t == Text(s.up, bang, FALSE, "", <<a, b>>)
    <3>1. t.pct = FALSE /\ t.word = "" /\ t.nums = <<a, b>>
      BY DEF Text
    <3>2. Len(<<a, b>>) = 2 /\ <<a, b>> # <<>>
      OBVIOUS
    <3> HIDE DEF t
    <3> QED BY <3>1, <3>2 DEF parseSize, t
  <2>4. CASE IsPosInt(s.nums[1]) /\ IsPosInt(s.nums[2])
             /\ parseDims(s) = Size(IF s.bang THEN "bestFit" ELSE "wh", w, h, 0, s.up)
    <3> DEFINE z == Size(IF s.bang THEN "bestFit" ELSE "wh", w, h, 0, s.up)
               t == Text(s.up, s.bang, FALSE, "", <<itoa(w), itoa(h)>>)
    <3>1. s.bang \in BOOLEAN
      BY DEF Texts
    <3>2. z.kind \in {"wh", "bestFit"} /\ (z.kind = "bestFit") = s.bang /\ z.w = w /\ z.h = h /\ z.upscale = s.up
      BY <3>1 DEF Size
    <3>3. sizeString(z) = t
      <4> HIDE DEF z
      <4> QED BY <2>3, <3>1, <3>2 DEF sizeString
    <3>4. IsPosInt(itoa(w)) /\ Atoi(itoa(w)) = w /\ IsPosInt(itoa(h)) /\ Atoi(itoa(h)) = h
      BY <2>1, <2>4, NumberReturns
    <3>5. t.nums[1] = itoa(w) /\ t.nums[2] = itoa(h) /\ t.bang = s.bang /\ t.up = s.up
      BY DEF Text
    <3>6. parseSize(t) = parseDims(t)
      BY <2>3, <3>1
    <3> HIDE DEF t
    <3>7. parseDims(t) = z
      BY <2>2, <3>4, <3>5 DEF parseDims
    <3> QED BY <1>5, <2>4, <3>3, <3>6, <3>7
  <2>5. CASE ~s.bang /\ IsPosInt(s.nums[1]) /\ parseDims(s) = Size("width", w, 0, 0, s.up)
    <3> DEFINE z == Size("width", w, 0, 0, s.up)
               t == Text(s.up, FALSE, FALSE, "", <<itoa(w), Empty>>)
    <3>2. z.kind = "width" /\ z.w = w /\ z.upscale = s.up
      BY DEF Size
    <3>3. sizeString(z) = t
      <4> HIDE DEF z
      <4> QED BY <2>3, <3>2 DEF sizeString
    <3>4. IsPosInt(itoa(w)) /\ Atoi(itoa(w)) = w
      BY <2>1, <2>5, NumberReturns
    <3>5. t.nums[1] = itoa(w) /\ t.nums[2] = Empty /\ t.bang = FALSE /\ t.up = s.up
      BY DEF Text
    <3>6. parseSize(t) = parseDims(t)
      BY <2>3
    <3> HIDE DEF t
    <3>7. parseDims(t) = z
      BY <2>2, <3>4, <3>5 DEF parseDims
    <3> QED BY <1>5, <2>5, <3>3, <3>6, <3>7
  <2>6. CASE ~s.bang /\ IsPosInt(s.nums[2]) /\ parseDims(s) = Size("height", 0, h, 0, s.up)
    <3> DEFINE z == Size("height", 0, h, 0, s.up)
               t == Text(s.up, FALSE, FALSE, "", <<Empty, itoa(h)>>)
    <3>2. z.kind = "height" /\ z.h = h /\ z.upscale = s.up
      BY DEF Size
    <3>3. sizeString(z) = t
      <4> HIDE DEF z
      <4> QED BY <2>3, <3>2 DEF sizeString
    <3>4. IsPosInt(itoa(h)) /\ Atoi(itoa(h)) = h
      BY <2>1, <2>6, NumberReturns
    <3>5. t.nums[1] = Empty /\ t.nums[2] = itoa(h) /\ t.bang = FALSE /\ t.up = s.up
      BY DEF Text
    <3>6. parseSize(t) = parseDims(t)
      BY <2>3
    <3> HIDE DEF t
    <3>7. parseDims(t) = z
      BY <2>2, <3>4, <3>5 DEF parseDims
    <3> QED BY <1>5, <2>6, <3>3, <3>6, <3>7
  <2>7. CASE parseDims(s) = NoSize
    BY <1>5, <2>7
  <2> QED BY <2>4, <2>5, <2>6, <2>7 DEF parseDims
<1>6. CASE parseSize(s) = NoSize
  BY <1>6
<1> QED BY <1>3, <1>4, <1>5, <1>6 DEF parseSize

LEMMA RotationReturns ==
  ASSUME NEW s \in Texts, parseRotation(s) # BadRotation
  PROVE  parseRotation(rotationString(parseRotation(s))) = parseRotation(s)
<1> DEFINE n == s.nums[1].value
           r == parseRotation(s)
           t == Text(FALSE, s.bang, FALSE, "", <<formatFloat(n)>>)
<1>1. r = Rotation(n, s.bang) /\ n \in 0..(360 * Unit)
  BY DEF parseRotation
<1>2. r.degrees = n /\ r.mirror = s.bang
  BY <1>1 DEF Rotation
<1> HIDE DEF r, n
<1>3. rotationString(r) = t
  BY <1>2 DEF rotationString
<1>4. t.word = "" /\ ~t.up /\ ~t.pct /\ t.bang = s.bang /\ t.nums = <<formatFloat(n)>>
  BY DEF Text
<1> HIDE DEF t
<1>8. Len(<<formatFloat(n)>>) = 1 /\ <<formatFloat(n)>>[1] = formatFloat(n)
  OBVIOUS
<1>7. Len(t.nums) = 1 /\ t.nums[1] = formatFloat(n)
  BY <1>4, <1>8, Zenon
<1>5. IsFloat(t.nums[1]) /\ t.nums[1].value = n
  BY <1>7 DEF IsFloat, formatFloat, Number
<1>6. parseRotation(t) = Rotation(n, s.bang)
  BY <1>1, <1>4, <1>5, <1>7 DEF parseRotation
<1> QED BY <1>1, <1>3, <1>6 DEF r
---------------------------------------------------------------------------
\* A request for an image whose names lead back to it, and one for a whole identifier.
Nameable(q) ==
  /\ q = Request("image", q.id, q.region, q.size, q.rotation, q.quality, q.format)
  /\ q.id \in GoodIdentifiers
  /\ q.region # NoRegion /\ parseRegion(regionString(q.region)) = q.region
  /\ q.size # NoSize /\ parseSize(sizeString(q.size)) = q.size
  /\ q.rotation # BadRotation /\ parseRotation(rotationString(q.rotation)) = q.rotation
  /\ q.quality \in Qualities /\ q.format \in Formats

LEMMA WholeIsNamed ==
  ASSUME NEW q \in Parsed, q.kind = "base"
  PROVE  q.id \in GoodIdentifiers
<1>1. ErrSyntax.kind = "error" /\ \A kind, id : Plain(kind, id).kind = kind /\ Plain(kind, id).id = id
  BY DEF ErrSyntax, Plain, Request
<1>2. PICK path \in Seq(Segments) : q = Parse(path)
  BY <1>1, PathsType DEF Parsed
<1>3. parseImage(path).kind \in {"image", "error"} /\ parseWhole("info", Front(path)).kind \in {"info", "error"}
  BY <1>1 DEF parseImage, parseWhole, Request
<1>4. q = parseWhole("base", path)
  BY <1>1, <1>2, <1>3 DEF Parse
<1>5. Identifier(path) # <<>> /\ q.id = Identifier(path)
  BY <1>1, <1>4 DEF parseWhole
<1> QED BY <1>5, IdentifierIsTyped

LEMMA ImageIsNamed ==
  ASSUME NEW q \in Parsed, q.kind = "image"
  PROVE  Nameable(q)
<1>1. \A parts : parseWhole("info", parts).kind # "image" /\ parseWhole("base", parts).kind # "image"
  BY DEF parseWhole, ErrSyntax, Plain, Request
<1>2. ErrSyntax.kind # "image"
  BY DEF ErrSyntax, Plain, Request
<1>3. PICK path \in Seq(Segments) : q = Parse(path)
  BY <1>2, PathsType DEF Parsed
<1>4. q = parseImage(path) /\ Len(path) >= 5
  BY <1>1, <1>2, <1>3 DEF Parse
<1> DEFINE n == Len(path)
           name == SubSeq(path, 1, n - 4)
           op == [i \in 1..4 |-> decodeOperationSegment(path[n - 4 + i])]
<1>5. /\ Identifier(name) # <<>>
      /\ \A i \in 1..3 : op[i].is = "text"
      /\ parseRegion(op[1]) # NoRegion /\ parseSize(op[2]) # NoSize /\ parseRotation(op[3]) # BadRotation
      /\ op[4].quality \in Qualities /\ op[4].format \in Formats
      /\ q = Request("image", Identifier(name), parseRegion(op[1]), parseSize(op[2]), parseRotation(op[3]),
                     op[4].quality, op[4].format)
  BY <1>2, <1>4 DEF parseImage
<1>6. /\ path[n - 3] \in Segments /\ path[n - 2] \in Segments /\ path[n - 1] \in Segments
      /\ name \in Seq(Segments)
      /\ n - 4 + 1 = n - 3 /\ n - 4 + 2 = n - 2 /\ n - 4 + 3 = n - 1
  BY <1>3, <1>4
<1>7. /\ op[1] = decodeOperationSegment(path[n - 3]) /\ op[2] = decodeOperationSegment(path[n - 2])
      /\ op[3] = decodeOperationSegment(path[n - 1])
  BY <1>6
<1>8. op[1] \in Texts /\ op[2] \in Texts /\ op[3] \in Texts
  BY <1>5, <1>6, <1>7, OperationIsTyped
<1> HIDE DEF op, name
<1>9. /\ q.id = Identifier(name) /\ q.region = parseRegion(op[1]) /\ q.size = parseSize(op[2])
      /\ q.rotation = parseRotation(op[3]) /\ q.quality = op[4].quality /\ q.format = op[4].format
  BY <1>5 DEF Request
<1>10. q = Request("image", q.id, q.region, q.size, q.rotation, q.quality, q.format)
  BY <1>5, <1>9
<1>11. q.id \in GoodIdentifiers
  BY <1>5, <1>6, <1>9, IdentifierIsTyped
<1>12. /\ parseRegion(regionString(q.region)) = q.region /\ parseSize(sizeString(q.size)) = q.size
       /\ parseRotation(rotationString(q.rotation)) = q.rotation
  BY <1>5, <1>8, <1>9, RegionReturns, SizeReturns, RotationReturns
<1> QED BY <1>5, <1>9, <1>10, <1>11, <1>12 DEF Nameable

\* Four segments behind others.
LEMMA FourSegments ==
  ASSUME NEW T, NEW a \in T, NEW b \in T, NEW c \in T, NEW d \in T
  PROVE  <<a, b, c, d>> \in Seq(T) /\ Len(<<a, b, c, d>>) = 4
OBVIOUS

LEMMA JoinedBehind ==
  ASSUME NEW T, NEW s \in Seq(T), NEW o \in Seq(T)
  PROVE  /\ s \o o \in Seq(T) /\ Len(s \o o) = Len(s) + Len(o)
         /\ \A i \in 1..Len(s) : (s \o o)[i] = s[i]
         /\ \A i \in 1..Len(o) : (s \o o)[Len(s) + i] = o[i]
OBVIOUS

LEMMA FirstSegment ==
  ASSUME NEW T, NEW a, NEW p \in Seq(T), Len(p) >= 1, p[1] = a
  PROVE  SubSeq(p, 1, 1) = <<a>>
<1> DEFINE s == <<a>>
           u == SubSeq(p, 1, 1)
<1>1. s \in Seq({a}) /\ Len(s) = 1 /\ s[1] = a
  OBVIOUS
<1>2. u \in Seq(T) /\ Len(u) = 1 /\ u[1] = a
  OBVIOUS
<1> HIDE DEF s, u
<1>3. u = s
  BY <1>1, <1>2
<1> QED BY <1>3 DEF s, u

LEMMA FiveSegments ==
  ASSUME NEW T, NEW a \in T, NEW o \in Seq(T), Len(o) = 4
  PROVE  /\ Len(<<a>> \o o) = 5 /\ SubSeq(<<a>> \o o, 1, 1) = <<a>>
         /\ (<<a>> \o o)[2] = o[1] /\ (<<a>> \o o)[3] = o[2] /\ (<<a>> \o o)[4] = o[3] /\ (<<a>> \o o)[5] = o[4]
<1> DEFINE s == <<a>>
           p == s \o o
<1>1. s \in Seq(T) /\ Len(s) = 1 /\ s[1] = a
  OBVIOUS
<1> HIDE DEF s
<1>2. p \in Seq(T) /\ Len(p) = Len(s) + Len(o)
  BY <1>1, JoinedBehind
<1>3. \A i \in 1..Len(s) : p[i] = s[i]
  BY <1>1, JoinedBehind
<1>4. \A i \in 1..Len(o) : p[Len(s) + i] = o[i]
  BY <1>1, JoinedBehind
<1> HIDE DEF p
<1>5. Len(p) = 5 /\ p[1] = a
  BY <1>1, <1>2, <1>3
<1>6. \A i \in 1..4 : p[1 + i] = o[i]
  BY <1>1, <1>4
<1>7. p[2] = o[1] /\ p[3] = o[2] /\ p[4] = o[3] /\ p[5] = o[4]
  <2>1. 1 \in 1..4 /\ 2 \in 1..4 /\ 3 \in 1..4 /\ 4 \in 1..4 /\ 1 + 1 = 2 /\ 1 + 2 = 3 /\ 1 + 3 = 4 /\ 1 + 4 = 5
    OBVIOUS
  <2> QED BY <1>6, <2>1
<1>8. SubSeq(p, 1, 1) = <<a>>
  BY <1>2, <1>5, FirstSegment
<1> QED BY <1>5, <1>7, <1>8 DEF p, s

LEMMA OperationIsWritten ==
  ASSUME NEW q
  PROVE  /\ Len(Operation(q)) = 4
         /\ \A T : {regionString(q.region), sizeString(q.size), rotationString(q.rotation), Leaf(q.quality, q.format)}
                    \subseteq T => Operation(q) \in Seq(T)
         /\ Operation(q)[1] = regionString(q.region) /\ Operation(q)[2] = sizeString(q.size)
         /\ Operation(q)[3] = rotationString(q.rotation) /\ Operation(q)[4] = Leaf(q.quality, q.format)
         /\ \A i \in 1..3 : Operation(q)[i].is = "text"
<1>1. /\ regionString(q.region).is = "text" /\ sizeString(q.size).is = "text"
      /\ rotationString(q.rotation).is = "text"
  BY DEF regionString, sizeString, rotationString, Word, Text
<1>2. /\ Len(Operation(q)) = 4 /\ Operation(q)[1] = regionString(q.region) /\ Operation(q)[2] = sizeString(q.size)
      /\ Operation(q)[3] = rotationString(q.rotation) /\ Operation(q)[4] = Leaf(q.quality, q.format)
  BY DEF Operation
<1>3. \A i \in 1..3 : i = 1 \/ i = 2 \/ i = 3
  OBVIOUS
<1>4. \A i \in 1..3 : Operation(q)[i].is = "text"
  BY <1>1, <1>2, <1>3
<1>5. ASSUME NEW T, {regionString(q.region), sizeString(q.size), rotationString(q.rotation), Leaf(q.quality, q.format)}
                    \subseteq T
      PROVE  Operation(q) \in Seq(T)
  BY <1>5, FourSegments DEF Operation
<1> QED BY <1>2, <1>4, <1>5

\* parseImage reads the segments that canonicalImageURL writes as they were.
LEMMA CanonicalReturns ==
  ASSUME NEW q, Nameable(q)
  PROVE  Parse(canonicalImageURL(q)) = q
<1> DEFINE path == canonicalImageURL(q)
           o == Operation(q)
           op == [i \in 1..4 |-> decodeOperationSegment(path[Len(path) - 4 + i])]
<1>1. PICK T : Escaped(q.id) \in T /\ o \in Seq(T)
  <2> DEFINE T == {Escaped(q.id), regionString(q.region), sizeString(q.size), rotationString(q.rotation),
                   Leaf(q.quality, q.format)}
  <2>1. o \in Seq(T)
    BY OperationIsWritten
  <2> QED BY <2>1
<1>2. /\ Len(path) = 5 /\ path[2] = o[1] /\ path[3] = o[2] /\ path[4] = o[3] /\ path[5] = o[4]
      /\ SubSeq(path, 1, 1) = <<Escaped(q.id)>>
  BY <1>1, OperationIsWritten, FiveSegments DEF canonicalImageURL
<1> HIDE DEF path, o
<1>3. /\ o[1] = regionString(q.region) /\ o[2] = sizeString(q.size) /\ o[3] = rotationString(q.rotation)
      /\ o[4] = Leaf(q.quality, q.format) /\ o[1].is = "text" /\ o[2].is = "text" /\ o[3].is = "text"
  BY OperationIsWritten DEF o
<1>4. o[4].is = "leaf" /\ o[4].quality = q.quality /\ o[4].format = q.format /\ o[4] # InfoJson
  BY <1>3 DEF Leaf, InfoJson
<1>5. op[1] = o[1] /\ op[2] = o[2] /\ op[3] = o[3] /\ op[4] = o[4]
  <2>1. 5 - 4 + 1 = 2 /\ 5 - 4 + 2 = 3 /\ 5 - 4 + 3 = 4 /\ 5 - 4 + 4 = 5
    OBVIOUS
  <2> QED BY <1>2, <1>3, <1>4, <2>1, PlainSegment
<1>6. \A i \in 1..3 : op[i].is = "text"
  <2>1. \A i \in 1..3 : i = 1 \/ i = 2 \/ i = 3
    OBVIOUS
  <2> HIDE DEF op
  <2> QED BY <1>3, <1>5, <2>1
<1>7. Identifier(SubSeq(path, 1, Len(path) - 4)) = q.id /\ q.id # <<>>
  <2>1. Len(path) - 4 = 1
    BY <1>2
  <2> QED BY <1>2, <2>1, IdentifierOfEscaped DEF Nameable, GoodIdentifiers
<1>8. /\ parseRegion(op[1]) = q.region /\ parseSize(op[2]) = q.size /\ parseRotation(op[3]) = q.rotation
      /\ op[4].quality = q.quality /\ op[4].format = q.format
  BY <1>3, <1>4, <1>5 DEF Nameable
<1>9. parseImage(path) = Request("image", q.id, q.region, q.size, q.rotation, q.quality, q.format)
  BY <1>6, <1>7, <1>8 DEF parseImage, Nameable
<1>10. Parse(path) = parseImage(path)
  BY <1>2, <1>4 DEF Parse
<1> QED BY <1>9, <1>10 DEF path, Nameable

LEMMA RedirectReturns ==
  ASSUME NEW q, q.id \in GoodIdentifiers
  PROVE  Parse(infoRedirect(q)) = Plain("info", q.id)
<1> DEFINE path == infoRedirect(q)
<1>1. Len(path) = 2 /\ path[2] = InfoJson /\ SubSeq(path, 1, 1) = <<Escaped(q.id)>>
  <2> DEFINE a == Escaped(q.id)
             b == InfoJson
  <2>1. path = <<a, b>>
    BY DEF infoRedirect
  <2> HIDE DEF a, b, path
  <2>2. Len(<<a, b>>) = 2 /\ <<a, b>>[1] = a /\ <<a, b>>[2] = b /\ <<a, b>> \in Seq({a, b})
    OBVIOUS
  <2>3. path \in Seq({a, b}) /\ Len(path) = 2 /\ path[1] = a /\ path[2] = b
    BY <2>1, <2>2, Zenon
  <2>5. SubSeq(path, 1, 1) = <<a>>
    BY <2>3, FirstSegment
  <2> QED BY <2>3, <2>5 DEF a, b
<1> HIDE DEF path
<1>2. Front(path) = <<Escaped(q.id)>>
  <2>1. Len(path) - 1 = 1
    BY <1>1
  <2> QED BY <1>1, <2>1 DEF Front
<1>3. Identifier(Front(path)) = q.id /\ q.id # <<>>
  BY <1>2, IdentifierOfEscaped DEF GoodIdentifiers
<1>4. InfoJson.is # "leaf"
  BY DEF InfoJson
<1>5. Parse(path) = parseWhole("info", Front(path))
  BY <1>1, <1>4 DEF Parse
<1> QED BY <1>3, <1>5 DEF parseWhole, path

\* The last four segments of a key are the operation, and the others the identifier.
LEMMA KeysDiffer ==
  ASSUME NEW q, NEW p, Nameable(q), Nameable(p), DerivativeKey(q) = DerivativeKey(p)
  PROVE  q = p
<1> DEFINE a == q.id
           b == p.id
           o == Operation(q)
           u == Operation(p)
<1>1. a \in Seq(Parts) /\ b \in Seq(Parts)
  BY DEF Nameable, GoodIdentifiers
<1>2. PICK T : o \in Seq(T) /\ u \in Seq(T) /\ a \in Seq(T) /\ b \in Seq(T)
  <2> DEFINE T == Parts \cup {regionString(q.region), sizeString(q.size), rotationString(q.rotation),
                              Leaf(q.quality, q.format), regionString(p.region), sizeString(p.size),
                              rotationString(p.rotation), Leaf(p.quality, p.format)}
  <2>1. o \in Seq(T) /\ u \in Seq(T)
    BY OperationIsWritten
  <2>2. a \in Seq(T) /\ b \in Seq(T)
    <3> HIDE DEF a, b
    <3>1. Parts \subseteq T
      OBVIOUS
    <3> HIDE DEF T
    <3> QED BY <1>1, <3>1
  <2> QED BY <2>1, <2>2
<1>3. Len(o) = 4 /\ Len(u) = 4 /\ a \o o = b \o u
  BY OperationIsWritten DEF DerivativeKey
<1> HIDE DEF a, b, o, u
<1>4. Len(a) \in Nat /\ Len(b) \in Nat /\ Len(a \o o) = Len(a) + 4 /\ Len(b \o u) = Len(b) + 4
  <2>1. Len(a \o o) = Len(a) + Len(o) /\ Len(b \o u) = Len(b) + Len(u)
    BY <1>2
  <2> QED BY <1>2, <1>3, <2>1
<1>5. Len(a) = Len(b)
  BY <1>3, <1>4
<1>6. a = b
  <2>1. \A i \in 1..Len(a) : a[i] = (a \o o)[i] /\ b[i] = (b \o u)[i]
    BY <1>2, <1>5
  <2>2. \A i \in 1..Len(a) : a[i] = b[i]
    BY <1>3, <2>1
  <2> QED BY <1>2, <1>5, <2>2
<1>7. \A i \in 1..4 : o[i] = u[i]
  <2>1. \A i \in 1..4 : o[i] = (a \o o)[Len(a) + i] /\ u[i] = (b \o u)[Len(b) + i]
    BY <1>2, <1>3, <1>4
  <2> QED BY <1>3, <1>5, <2>1
<1>8. /\ regionString(q.region) = regionString(p.region) /\ sizeString(q.size) = sizeString(p.size)
      /\ rotationString(q.rotation) = rotationString(p.rotation)
      /\ Leaf(q.quality, q.format) = Leaf(p.quality, p.format)
  BY <1>7, OperationIsWritten DEF o, u
<1>9. q.quality = p.quality /\ q.format = p.format
  BY <1>8 DEF Leaf
<1>10. q.region = p.region /\ q.size = p.size /\ q.rotation = p.rotation
  BY <1>8 DEF Nameable
<1>11. q.id = p.id
  BY <1>6 DEF a, b
<1> QED BY <1>9, <1>10, <1>11 DEF Nameable

\* The canonical URL of an image and the redirect of a base URI lead back to what was
\* asked for, and no two operations share a derivative, whatever the identifiers, the
\* escapes and the spelling of the numbers (canonicalImageURL, cache.DerivativeKey).
THEOREM NamesAreCanonical == Spec => []CanonicalNames
<1>1. IInv => CanonicalNames
  <2> SUFFICES ASSUME IInv PROVE CanonicalNames
    OBVIOUS
  <2>1. \A r \in Requests : req[r] \in Parsed
    BY DEF IInv, Typed
  <2>2. \A r \in Requests : req[r].kind = "image" => Parse(canonicalImageURL(req[r])) = req[r]
    BY <2>1, ImageIsNamed, CanonicalReturns
  <2>3. \A r \in Requests : req[r].kind = "base" => Parse(infoRedirect(req[r])) = Plain("info", req[r].id)
    BY <2>1, WholeIsNamed, RedirectReturns
  <2>4. ASSUME NEW r \in Requests, NEW s \in Requests, req[r].kind = "image", req[s].kind = "image",
               DerivativeKey(req[r]) = DerivativeKey(req[s])
        PROVE  req[r] = req[s]
    BY <2>1, <2>4, ImageIsNamed, KeysDiffer
  <2> QED BY <2>2, <2>3, <2>4 DEF CanonicalNames
<1> QED BY <1>1, Invariance, PTL
============================================================================
