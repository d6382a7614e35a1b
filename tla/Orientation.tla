----------------------------- MODULE Orientation -----------------------------
(* fixOrientation on pixels: the calls of package imaging it makes for each      *)
(* orientation value, and the loops of those calls.  An image is its width, its *)
(* height and the pixel at each <<x, y>>, y pointing down; a pixel is any value, *)
(* and the byte offsets y * Stride + x * 4 are abstracted to <<x, y>>.  Module    *)
(* Sanitize knows an image by its pose only; here that is checked.             *)
EXTENDS Integers, Sequences

Pose == INSTANCE Sanitize

CONSTANTS
    MaxWidth,  \* bounds of the images
    MaxHeight

ASSUME SidesAssumption == MaxWidth \in Nat /\ MaxHeight \in Nat

VARIABLES
    scene,  \* history: what the camera saw
    img,    \* the image as it is now
    calls,  \* the calls fixOrientation has still to make
    pose    \* the pose of module Sanitize

vars == <<scene, img, calls, pose>>

-----------------------------------------------------------------------------
(* Images, and the loops over dstY and dstX in transform.go; p is <<dstX, dstY>>. *)

Grid(w, h) == (0..(w - 1)) \X (0..(h - 1))

Image(w, h, pix) == [w |-> w, h |-> h, pix |-> pix]

\* Wrong: the quarter turn goes the other way.
Rotate90Clockwise(src) ==
    LET dstW == src.h
        dstH == src.w
    IN  Image(dstW, dstH, [p \in Grid(dstW, dstH) |-> src.pix[<<p[2], dstW - p[1] - 1>>]])

Rotate90(src) ==
    LET dstW == src.h
        dstH == src.w
    IN  Image(dstW, dstH, [p \in Grid(dstW, dstH) |-> src.pix[<<dstH - p[2] - 1, p[1]>>]])

Rotate180(src) ==
    LET dstW == src.w
        dstH == src.h
    IN  Image(dstW, dstH, [p \in Grid(dstW, dstH) |-> src.pix[<<dstW - p[1] - 1, dstH - p[2] - 1>>]])

Rotate270(src) ==
    LET dstW == src.h
        dstH == src.w
    IN  Image(dstW, dstH, [p \in Grid(dstW, dstH) |-> src.pix[<<p[2], dstW - p[1] - 1>>]])

FlipH(src) ==
    LET dstW == src.w
        dstH == src.h
    IN  Image(dstW, dstH, [p \in Grid(dstW, dstH) |-> src.pix[<<dstW - p[1] - 1, p[2]>>]])

\* Wrong: the calls of values 5 and 7 as they are in the commented-out lines.
CallsUnflipped == << <<>>,
            <<"FlipH">>,
            <<"Rotate180">>,
            <<"Rotate180", "FlipH">>,
            <<"Rotate270">>,
            <<"Rotate270">>,
            <<"Rotate90">>,
            <<"Rotate90">> >>

\* The switch of fixOrientation: the calls for the values 1 to 8, innermost first.
Calls == << <<>>,
            <<"FlipH">>,
            <<"Rotate180">>,
            <<"Rotate180", "FlipH">>,
            <<"Rotate270", "FlipH">>,
            <<"Rotate270">>,
            <<"Rotate90", "FlipH">>,
            <<"Rotate90">> >>

-----------------------------------------------------------------------------
(* What a pose means: where a pixel of the scene is found in an image, when the *)
(* scene is mirrored left-right and then turned counterclockwise.              *)

Place(q, s, x, y) ==
    LET m == IF q.mirrors = 1 THEN s.w - 1 - x ELSE x
    IN  CASE q.turns = 0 -> <<m, y>>
          [] q.turns = 1 -> <<y, s.w - 1 - m>>
          [] q.turns = 2 -> <<s.w - 1 - m, s.h - 1 - y>>
          [] q.turns = 3 -> <<s.h - 1 - y, m>>

Lying(q) == q.turns \in {1, 3}

InPose(i, q, s) ==
    /\ i.w = IF Lying(q) THEN s.h ELSE s.w
    /\ i.h = IF Lying(q) THEN s.w ELSE s.h
    /\ \A x \in 0..(s.w - 1), y \in 0..(s.h - 1) : i.pix[Place(q, s, x, y)] = s.pix[<<x, y>>]

\* The scene that image i shows in pose q.
Scene(i, q) ==
    LET size == IF Lying(q) THEN [w |-> i.h, h |-> i.w] ELSE [w |-> i.w, h |-> i.h]
    IN  Image(size.w, size.h,
              [p \in Grid(size.w, size.h) |-> i.pix[Place(q, size, p[1], p[2])]])

-----------------------------------------------------------------------------
(* The calls.                                                                 *)

Numbered(w, h) == Image(w, h, [p \in Grid(w, h) |-> p])

(* A decoded JPEG with orientation v. *)
Init ==
    \E v \in 1..8, w \in 1..MaxWidth, h \in 1..MaxHeight :
        /\ img = Numbered(w, h)
        /\ pose = Pose!Diagram[v]
        /\ scene = Scene(img, pose)
        /\ calls = Calls[v]

Call(name, newImg, newPose) ==
    /\ calls # <<>>
    /\ Head(calls) = name
    /\ calls' = Tail(calls)
    /\ img' = newImg
    /\ pose' = newPose
    /\ UNCHANGED scene

CallRotate90  == Call("Rotate90", Rotate90(img), Pose!Rotate90(pose))
CallRotate180 == Call("Rotate180", Rotate180(img), Pose!Rotate180(pose))
CallRotate270 == Call("Rotate270", Rotate270(img), Pose!Rotate270(pose))
CallFlipH     == Call("FlipH", FlipH(img), Pose!FlipH(pose))

Next == CallRotate90 \/ CallRotate180 \/ CallRotate270 \/ CallFlipH

Spec == Init /\ [][Next]_vars

-----------------------------------------------------------------------------
(* Properties.                                                                *)

\* The operators of module Sanitize on poses say what the loops of transform.go
\* do to every pixel, and its Diagram what the comment at image.go:144-153 shows.
PoseTracksPixels == InPose(img, pose, scene)

\* When fixOrientation has made its calls every pixel is where the camera saw it,
\* in an image of the right width and height (image.go:155-173).
EndsUpright == calls = <<>> => img = scene
=============================================================================
