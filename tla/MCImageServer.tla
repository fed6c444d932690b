--------------------------- MODULE MCImageServer ---------------------------
(***************************************************************************)
(* Instance for TLC of the Image API: four sources and eighteen paths, one *)
(* for each way through the parser, the geometry and the limits that the   *)
(* properties tell apart.                                                  *)
(***************************************************************************)
EXTENDS ImageServer

\* A JPEG 2000 of three resolutions that is replaced by a smaller image without, of as
\* many bytes but with another time, and then, before the time changes, by one of too many
\* pixels; an image from the network whose upstream tells no time, with a slash in its
\* identifier; one with too many bytes; one that is empty, without any metadata.
Picture(w, h, pageCount, named, decodes, bytes, modTime) ==
  [w |-> w, h |-> h, pages |-> pageCount, named |-> named, decodes |-> decodes,
   bytes |-> bytes, modTime |-> modTime]
A == <<Word("a")>>
B == <<Word("b"), Word("full")>>
C == <<Word("c")>>
D == <<Word("d")>>
MCImages == (A :> <<Picture(9, 6, 3, TRUE, TRUE, 1, 1), Picture(5, 4, 1, TRUE, TRUE, 1, 2),
                    Picture(50, 60, 1, TRUE, TRUE, 1, 2)>>)
         @@ (B :> <<Picture(5, 3, 1, FALSE, TRUE, 1, 0)>>)
         @@ (C :> <<Picture(2, 2, 1, TRUE, TRUE, 9, 1)>>)
         @@ (D :> <<Picture(2, 2, 1, TRUE, FALSE, 0, 0)>>)

Num(n) == Number(n * Unit, "short")
List(nums) == Text(FALSE, FALSE, FALSE, "", nums)
Turn(degrees) == List(<<Num(degrees)>>)
Path(id, region, size, rotation) == id \o <<region, size, rotation, Leaf("default", "jpg")>>

MCPaths == {
  <<Escaped(B)>>,                                                \* a base URI
  A \o <<InfoJson>>, B \o <<InfoJson>>, D \o <<InfoJson>>, <<Word("none"), InfoJson>>,
  \* the tile at factor 2 of the first image, whose page 1 serves it
  Path(A, List(<<Num(4), Num(4), Num(4), Num(2)>>), List(<<Num(2), Num(1)>>), Turn(0)),
  \* a tile at factor 1, cut off by two borders
  Path(A, List(<<Num(8), Num(4), Num(1), Num(2)>>), List(<<Num(1), Num(2)>>), Turn(0)),
  \* a mirrored thumbnail on its side: page 2, the width written with a zero in front
  Path(A, Word("full"), List(<<Number(2 * Unit, "zeros"), Empty>>), Text(FALSE, TRUE, FALSE, "", <<Num(90)>>)),
  \* a cropped region with fractions, its height as it is
  Path(B, List(<<Number(3, "point"), Num(1), Num(9), Number(5, "short")>>),
       List(<<Empty, Num(1)>>), Turn(0)),
  \* percentages that end in ties
  Path(Front(B) \o <<Escaped(<<Word("full")>>)>>,
       Text(FALSE, FALSE, TRUE, "", <<Num(50), Num(50), Num(50), Num(50)>>),
       Text(FALSE, FALSE, TRUE, "", <<Num(50)>>), Turn(0)),
  Path(B, Word("square"), Text(TRUE, TRUE, FALSE, "", <<Num(2), Num(4)>>), Turn(0)),
  Path(C, Word("full"), Word("max"), Turn(0)),
  \* syntax errors: an escaped slash in the region, an empty size, zero, 361 degrees
  Path(A, Escaped(<<Word("full"), Word("full")>>), Word("max"), Turn(0)),
  Path(A, Word("full"), List(<<Empty, Empty>>), Turn(0)),
  Path(A, Word("full"), List(<<Num(0), Empty>>), Turn(0)),
  Path(A, Word("full"), Word("max"), Turn(361)),
  A \o B, <<Illegal, InfoJson>>}
=============================================================================
