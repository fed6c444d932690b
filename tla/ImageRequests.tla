--------------------------- MODULE ImageRequests ---------------------------
(***************************************************************************)
(* The Image API request of a URL path, its canonical URL and the key of   *)
(* its derivative (internal/iiif/image/v3/parse/parse.go, handler.go and   *)
(* internal/cache/keys.go).                                                *)
(*                                                                         *)
(* A path is a sequence of segments, split at the slashes.  A segment is   *)
(* not spelled out in characters: it is what the parser can tell of it.    *)
(*   text     the prefixes ^, ! and pct:, then a word or a list of numbers *)
(*   leaf     quality.format                                               *)
(*   info     info.json                                                    *)
(*   escaped  several of these with escaped slashes between them, or one   *)
(*            with an escaped character                                    *)
(*   illegal  what url.PathUnescape or the test for control characters     *)
(*            refuses                                                      *)
(* A number is a count of 1/Unit and the way it is written: "short" as     *)
(* strconv would write it, "zeros" with leading zeros, "point" with zeros  *)
(* behind a decimal point, "empty" or "bad" if it is none.                 *)
(***************************************************************************)
EXTENDS ImageGeometry, SequencesExt

CONSTANTS MaxParsedDimension, MaxParsedPercent

ASSUME ParserLimits == {MaxParsedDimension, MaxParsedPercent} \subseteq Nat \ {0}

\* parse.Region, parse.Size, parse.Rotation and parse.Request.  A field that the
\* kind of a region or size does not use is zero.
Region(kind, x, y, w, h) == [kind |-> kind, x |-> x, y |-> y, w |-> w, h |-> h]
Size(kind, w, h, percent, upscale) ==
  [kind |-> kind, w |-> w, h |-> h, percent |-> percent, upscale |-> upscale]
Rotation(degrees, mirror) == [degrees |-> degrees, mirror |-> mirror]

NoRegion == Region("none", 0, 0, 0, 0)
NoSize == Size("none", 0, 0, 0, FALSE)
NoRotation == Rotation(0, FALSE)

\* A request that is not for an image has only a kind and an identifier; one that
\* is refused with ErrSyntax has kind "error".
Request(kind, id, region, size, rotation, quality, format) ==
  [kind |-> kind, id |-> id, region |-> region, size |-> size,
   rotation |-> rotation, quality |-> quality, format |-> format]
Plain(kind, id) == Request(kind, id, NoRegion, NoSize, NoRotation, "", "")
ErrSyntax == Plain("error", <<>>)

Text(up, bang, pct, word, nums) ==
  [is |-> "text", up |-> up, bang |-> bang, pct |-> pct, word |-> word, nums |-> nums]
Leaf(quality, format) == [is |-> "leaf", quality |-> quality, format |-> format]
InfoJson == [is |-> "info"]
Escaped(parts) == [is |-> "escaped", parts |-> parts]
Illegal == [is |-> "illegal"]
Number(value, text) == [value |-> value, text |-> text]
Word(word) == Text(FALSE, FALSE, FALSE, word, <<>>)

\* What a path is made of.
Texts ==
  [is : {"text"}, up : BOOLEAN, bang : BOOLEAN, pct : BOOLEAN, word : STRING,
   nums : Seq([value : Int, text : {"short", "zeros", "point", "empty", "bad"}])]
Leaves == [is : {"leaf"}, quality : STRING, format : STRING]
Parts == Texts \cup Leaves \cup {InfoJson, Illegal}
Segments == Parts \cup [is : {"escaped"}, parts : Seq(Parts)]

Qualities == {"default", "color", "gray", "bitonal"}
Formats == {"jpg", "tif", "png", "gif", "jp2", "pdf", "webp"}
---------------------------------------------------------------------------
\* strconv.ParseFloat and parsePosInt: whether a number is one, and in range.
IsFloat(n) == n.text \in {"short", "zeros", "point"}
IsPosInt(n) ==
  /\ n.text \in {"short", "zeros"}
  /\ n.value % Unit = 0
  /\ n.value \div Unit \in 1..MaxParsedDimension
Atoi(n) == n.value \div Unit

parseRegion(s) ==
  LET v == [i \in DOMAIN s.nums |-> s.nums[i].value]
      numeric == /\ s.word = "" /\ ~s.up /\ ~s.bang
                 /\ Len(s.nums) = 4
                 /\ \A i \in 1..4 : IsFloat(s.nums[i])
                 /\ v[3] > 0 /\ v[4] > 0
                 /\ v[1] >= 0 /\ v[2] >= 0
                 /\ s.pct => \A i \in 1..4 : v[i] <= 100 * Unit
  IN IF s \in {Word("full"), Word("square")} THEN Region(s.word, 0, 0, 0, 0)
     ELSE IF numeric THEN Region(IF s.pct THEN "percent" ELSE "pixels", v[1], v[2], v[3], v[4])
     ELSE NoRegion

\* The size of a list of two numbers, either of which may be empty.
parseDims(s) ==
  LET w == s.nums[1]
      h == s.nums[2]
  IN CASE IsPosInt(w) /\ IsPosInt(h) ->
            Size(IF s.bang THEN "bestFit" ELSE "wh", Atoi(w), Atoi(h), 0, s.up)
       [] ~s.bang /\ IsPosInt(w) /\ h.text = "empty" -> Size("width", Atoi(w), 0, 0, s.up)
       [] ~s.bang /\ w.text = "empty" /\ IsPosInt(h) -> Size("height", 0, Atoi(h), 0, s.up)
       [] OTHER -> NoSize

parseSize(s) ==
  CASE s.word = "max" /\ ~s.bang /\ ~s.pct ->
         Size(IF s.up THEN "maxUp" ELSE "max", 0, 0, 0, s.up)
    [] s.pct /\ ~s.bang /\ s.word = "" /\ Len(s.nums) = 1 /\ IsFloat(s.nums[1])
         /\ s.nums[1].value \in 1..(MaxParsedPercent * Unit) ->
         Size("percent", 0, 0, s.nums[1].value, s.up)
    [] ~s.pct /\ s.word = "" /\ Len(s.nums) = 2 -> parseDims(s)
    [] OTHER -> NoSize

\* Outside [0, 360] or not a number: a rotation no request has.
BadRotation == Rotation(360 * Unit + 1, FALSE)
parseRotation(s) ==
  IF /\ s.word = "" /\ ~s.up /\ ~s.pct
     /\ Len(s.nums) = 1
     /\ IsFloat(s.nums[1])
     /\ s.nums[1].value \in 0..(360 * Unit)
    THEN Rotation(s.nums[1].value, s.bang)
    ELSE BadRotation

\* decodeIdentifier: segments that were split at plain slashes are joined again.
\* No identifier is empty; <<>> stands for one that is refused.
Unescape(s) == IF s.is = "escaped" THEN s.parts ELSE <<s>>
Identifier(parts) ==
  LET id == FlattenSeq([i \in DOMAIN parts |-> Unescape(parts[i])])
  IN IF id = <<Word("")>> \/ \E i \in DOMAIN id : id[i] = Illegal THEN <<>> ELSE id

\* decodeOperationSegment: an escaped slash is not allowed in an operation.
decodeOperationSegment(s) ==
  LET decoded == Unescape(s) IN IF Len(decoded) = 1 THEN decoded[1] ELSE Illegal

\* The last four segments are the operation, the others the identifier.
parseImage(parts) ==
  LET n == Len(parts)
      id == Identifier(SubSeq(parts, 1, n - 4))
      op == [i \in 1..4 |-> decodeOperationSegment(parts[n - 4 + i])]
      isText == \A i \in 1..3 : op[i].is = "text"
      region == parseRegion(op[1])
      size == parseSize(op[2])
      rotation == parseRotation(op[3])
  IN IF /\ id # <<>> /\ isText
        /\ region # NoRegion /\ size # NoSize /\ rotation # BadRotation
        /\ op[4].quality \in Qualities /\ op[4].format \in Formats
       THEN Request("image", id, region, size, rotation, op[4].quality, op[4].format)
       ELSE ErrSyntax

\* A request for a whole identifier: its info document, or its base URI.
parseWhole(kind, parts) ==
  LET id == Identifier(parts) IN IF id = <<>> THEN ErrSyntax ELSE Plain(kind, id)

Parse(parts) ==
  LET n == Len(parts)
  IN CASE n >= 2 /\ parts[n] = InfoJson -> parseWhole("info", Front(parts))
       [] n >= 5 /\ parts[n].is = "leaf" -> parseImage(parts)
       [] n = 1 -> parseWhole("base", parts)
       [] OTHER -> ErrSyntax
---------------------------------------------------------------------------
\* formatFloat, ftoa and itoa write a number in the shortest form.
formatFloat(value) == Number(value, "short")
itoa(value) == formatFloat(value * Unit)
Empty == Number(0, "empty")

regionString(r) ==
  IF r.kind \in {"full", "square"}
    THEN Word(r.kind)
    ELSE Text(FALSE, FALSE, r.kind = "percent", "",
            <<formatFloat(r.x), formatFloat(r.y), formatFloat(r.w), formatFloat(r.h)>>)

sizeString(s) ==
  LET nums == CASE s.kind \in {"max", "maxUp"} -> <<>>
                [] s.kind = "width" -> <<itoa(s.w), Empty>>
                [] s.kind = "height" -> <<Empty, itoa(s.h)>>
                [] s.kind \in {"wh", "bestFit"} -> <<itoa(s.w), itoa(s.h)>>
                [] s.kind = "percent" -> <<formatFloat(s.percent)>>
  IN Text(s.upscale, s.kind = "bestFit", s.kind = "percent", IF nums = <<>> THEN "max" ELSE "", nums)

\* Mutant: the key and the canonical URL leave out the mirroring.
rotationStringWithoutMirror(r) == Text(FALSE, FALSE, FALSE, "", <<formatFloat(r.degrees)>>)
rotationString(r) == Text(FALSE, r.mirror, FALSE, "", <<formatFloat(r.degrees)>>)

\* The operation of a request, as canonicalImageURL and DerivativeKey write it.
Operation(req) ==
  <<regionString(req.region), sizeString(req.size), rotationString(req.rotation),
    Leaf(req.quality, req.format)>>

\* escapeIdentifierPathSegment makes one segment of an identifier.
canonicalImageURL(req) == <<Escaped(req.id)>> \o Operation(req)
infoRedirect(req) == <<Escaped(req.id), InfoJson>>

\* The key has the identifier as it is, slashes and all.
DerivativeKey(req) == req.id \o Operation(req)
=============================================================================
