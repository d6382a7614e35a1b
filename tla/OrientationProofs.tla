-------------------------- MODULE OrientationProofs --------------------------
(* For images of every size, fixOrientation's calls keep the pose that module    *)
(* Sanitize computes, and end with the image the camera saw.                   *)
EXTENDS Orientation, TLAPS

USE SidesAssumption

Poses == [mirrors : 0..1, turns : 0..3]

\* An image is what its loops wrote: nothing outside the grid, nothing else.
IsImage(i) ==
    /\ i.w \in Nat
    /\ i.h \in Nat
    /\ i = [w |-> i.w, h |-> i.h, pix |-> [p \in Grid(i.w, i.h) |-> i.pix[p]]]

Do(name, q) ==
    CASE name = "Rotate90" -> Pose!Rotate90(q)
      [] name = "Rotate180" -> Pose!Rotate180(q)
      [] name = "Rotate270" -> Pose!Rotate270(q)
      [] name = "FlipH" -> Pose!FlipH(q)

Names == {"Rotate90", "Rotate180", "Rotate270", "FlipH"}

\* The calls that are left bring the pose upright.
OnCourse ==
    \/ calls = <<>> /\ pose = Pose!Upright
    \/ \E a \in Names : calls = <<a>> /\ Do(a, pose) = Pose!Upright
    \/ \E a, b \in Names : calls = <<a, b>> /\ Do(b, Do(a, pose)) = Pose!Upright

OrientationInv ==
    /\ IsImage(img)
    /\ IsImage(scene)
    /\ pose \in Poses
    /\ PoseTracksPixels
    /\ OnCourse

LEMMA FourTurns ==
    ASSUME NEW q \in Poses
    PROVE  q.turns = 0 \/ q.turns = 1 \/ q.turns = 2 \/ q.turns = 3
  BY DEF Poses

\* Where pixel <<x, y>> of scene s is in an image of pose q.
LEMMA PlaceType ==
    ASSUME NEW i, NEW s, NEW q \in Poses, i.w \in Nat, i.h \in Nat,
           s.w \in Nat, s.h \in Nat, InPose(i, q, s),
           NEW x \in 0..(s.w - 1), NEW y \in 0..(s.h - 1)
    PROVE  \E a \in 0..(i.w - 1), b \in 0..(i.h - 1) : Place(q, s, x, y) = <<a, b>>
  <1>1. PICK m \in 0..(s.w - 1) : m = IF q.mirrors = 1 THEN s.w - 1 - x ELSE x
    OBVIOUS
  <1>2. CASE q.turns = 0
    BY <1>1, <1>2 DEF Place, InPose, Lying
  <1>3. CASE q.turns = 1
    BY <1>1, <1>3 DEF Place, InPose, Lying
  <1>4. CASE q.turns = 2
    BY <1>1, <1>4 DEF Place, InPose, Lying
  <1>5. CASE q.turns = 3
    BY <1>1, <1>5 DEF Place, InPose, Lying
  <1> QED
    BY <1>2, <1>3, <1>4, <1>5, FourTurns

LEMMA Rotate90Tracks ==
    ASSUME NEW i, NEW s, NEW q \in Poses, i.w \in Nat, i.h \in Nat,
           s.w \in Nat, s.h \in Nat, InPose(i, q, s)
    PROVE  /\ InPose(Rotate90(i), Pose!Rotate90(q), s)
           /\ IsImage(Rotate90(i))
           /\ Pose!Rotate90(q) \in Poses
  <1> DEFINE j == Rotate90(i)
             r == Pose!Rotate90(q)
  <1>1. j.w = i.h /\ j.h = i.w
    BY DEF Rotate90, Image
  <1>2. \A x \in 0..(i.h - 1), y \in 0..(i.w - 1) : j.pix[<<x, y>>] = i.pix[<<i.w - y - 1, x>>]
    BY DEF Rotate90, Image, Grid
  <1>3. r = [mirrors |-> q.mirrors, turns |-> (q.turns + 1) % 4] /\ r \in Poses
    BY DEF Pose!Rotate90, Pose!Turn, Poses
  <1>4. IsImage(j)
    BY DEF Rotate90, Image, IsImage, Grid
  <1>5. ASSUME NEW x \in 0..(s.w - 1), NEW y \in 0..(s.h - 1)
        PROVE  j.pix[Place(r, s, x, y)] = s.pix[<<x, y>>]
    <2>1. PICK a \in 0..(i.w - 1), b \in 0..(i.h - 1) : Place(q, s, x, y) = <<a, b>>
      BY PlaceType
    <2>2. Place(r, s, x, y) = <<b, i.w - 1 - a>>
      <3>1. CASE q.turns = 0
        BY <1>3, <2>1, <3>1 DEF Poses, Place, InPose, Lying
      <3>2. CASE q.turns = 1
        BY <1>3, <2>1, <3>2 DEF Poses, Place, InPose, Lying
      <3>3. CASE q.turns = 2
        BY <1>3, <2>1, <3>3 DEF Poses, Place, InPose, Lying
      <3>4. CASE q.turns = 3
        BY <1>3, <2>1, <3>4 DEF Poses, Place, InPose, Lying
      <3> QED
        BY <3>1, <3>2, <3>3, <3>4, FourTurns
    <2>3. j.pix[<<b, i.w - 1 - a>>] = i.pix[<<a, b>>]
      <3>1. i.w - 1 - a \in 0..(i.w - 1) /\ i.w - (i.w - 1 - a) - 1 = a
        OBVIOUS
      <3>2. j.pix[<<b, i.w - 1 - a>>] = i.pix[<<i.w - (i.w - 1 - a) - 1, b>>]
        BY <1>2, <3>1
      <3> QED
        BY <3>1, <3>2
    <2> QED
      BY <2>1, <2>2, <2>3 DEF InPose
  <1>6. /\ j.w = IF Lying(r) THEN s.h ELSE s.w
        /\ j.h = IF Lying(r) THEN s.w ELSE s.h
    BY <1>1, <1>3 DEF Poses, InPose, Lying
  <1> QED
    BY <1>3, <1>4, <1>5, <1>6 DEF InPose

LEMMA Rotate180Tracks ==
    ASSUME NEW i, NEW s, NEW q \in Poses, i.w \in Nat, i.h \in Nat,
           s.w \in Nat, s.h \in Nat, InPose(i, q, s)
    PROVE  /\ InPose(Rotate180(i), Pose!Rotate180(q), s)
           /\ IsImage(Rotate180(i))
           /\ Pose!Rotate180(q) \in Poses
  <1> DEFINE j == Rotate180(i)
             r == Pose!Rotate180(q)
  <1>1. j.w = i.w /\ j.h = i.h
    BY DEF Rotate180, Image
  <1>2. \A x \in 0..(i.w - 1), y \in 0..(i.h - 1) : j.pix[<<x, y>>] = i.pix[<<i.w - x - 1, i.h - y - 1>>]
    BY DEF Rotate180, Image, Grid
  <1>3. r = [mirrors |-> q.mirrors, turns |-> (q.turns + 2) % 4] /\ r \in Poses
    BY DEF Pose!Rotate180, Pose!Turn, Poses
  <1>4. IsImage(j)
    BY DEF Rotate180, Image, IsImage, Grid
  <1>5. ASSUME NEW x \in 0..(s.w - 1), NEW y \in 0..(s.h - 1)
        PROVE  j.pix[Place(r, s, x, y)] = s.pix[<<x, y>>]
    <2>1. PICK a \in 0..(i.w - 1), b \in 0..(i.h - 1) : Place(q, s, x, y) = <<a, b>>
      BY PlaceType
    <2>2. Place(r, s, x, y) = <<i.w - 1 - a, i.h - 1 - b>>
      <3>1. CASE q.turns = 0
        BY <1>3, <2>1, <3>1 DEF Poses, Place, InPose, Lying
      <3>2. CASE q.turns = 1
        BY <1>3, <2>1, <3>2 DEF Poses, Place, InPose, Lying
      <3>3. CASE q.turns = 2
        BY <1>3, <2>1, <3>3 DEF Poses, Place, InPose, Lying
      <3>4. CASE q.turns = 3
        BY <1>3, <2>1, <3>4 DEF Poses, Place, InPose, Lying
      <3> QED
        BY <3>1, <3>2, <3>3, <3>4, FourTurns
    <2>3. j.pix[<<i.w - 1 - a, i.h - 1 - b>>] = i.pix[<<a, b>>]
      <3>1. /\ i.w - 1 - a \in 0..(i.w - 1) /\ i.w - (i.w - 1 - a) - 1 = a
            /\ i.h - 1 - b \in 0..(i.h - 1) /\ i.h - (i.h - 1 - b) - 1 = b
        OBVIOUS
      <3>2. j.pix[<<i.w - 1 - a, i.h - 1 - b>>]
                = i.pix[<<i.w - (i.w - 1 - a) - 1, i.h - (i.h - 1 - b) - 1>>]
        BY <1>2, <3>1
      <3> QED
        BY <3>1, <3>2
    <2> QED
      BY <2>1, <2>2, <2>3 DEF InPose
  <1>6. /\ j.w = IF Lying(r) THEN s.h ELSE s.w
        /\ j.h = IF Lying(r) THEN s.w ELSE s.h
    BY <1>1, <1>3 DEF Poses, InPose, Lying
  <1> QED
    BY <1>3, <1>4, <1>5, <1>6 DEF InPose

LEMMA Rotate270Tracks ==
    ASSUME NEW i, NEW s, NEW q \in Poses, i.w \in Nat, i.h \in Nat,
           s.w \in Nat, s.h \in Nat, InPose(i, q, s)
    PROVE  /\ InPose(Rotate270(i), Pose!Rotate270(q), s)
           /\ IsImage(Rotate270(i))
           /\ Pose!Rotate270(q) \in Poses
  <1> DEFINE j == Rotate270(i)
             r == Pose!Rotate270(q)
  <1>1. j.w = i.h /\ j.h = i.w
    BY DEF Rotate270, Image
  <1>2. \A x \in 0..(i.h - 1), y \in 0..(i.w - 1) : j.pix[<<x, y>>] = i.pix[<<y, i.h - x - 1>>]
    BY DEF Rotate270, Image, Grid
  <1>3. r = [mirrors |-> q.mirrors, turns |-> (q.turns + 3) % 4] /\ r \in Poses
    BY DEF Pose!Rotate270, Pose!Turn, Poses
  <1>4. IsImage(j)
    BY DEF Rotate270, Image, IsImage, Grid
  <1>5. ASSUME NEW x \in 0..(s.w - 1), NEW y \in 0..(s.h - 1)
        PROVE  j.pix[Place(r, s, x, y)] = s.pix[<<x, y>>]
    <2>1. PICK a \in 0..(i.w - 1), b \in 0..(i.h - 1) : Place(q, s, x, y) = <<a, b>>
      BY PlaceType
    <2>2. Place(r, s, x, y) = <<i.h - 1 - b, a>>
      <3>1. CASE q.turns = 0
        BY <1>3, <2>1, <3>1 DEF Poses, Place, InPose, Lying
      <3>2. CASE q.turns = 1
        BY <1>3, <2>1, <3>2 DEF Poses, Place, InPose, Lying
      <3>3. CASE q.turns = 2
        BY <1>3, <2>1, <3>3 DEF Poses, Place, InPose, Lying
      <3>4. CASE q.turns = 3
        BY <1>3, <2>1, <3>4 DEF Poses, Place, InPose, Lying
      <3> QED
        BY <3>1, <3>2, <3>3, <3>4, FourTurns
    <2>3. j.pix[<<i.h - 1 - b, a>>] = i.pix[<<a, b>>]
      <3>1. i.h - 1 - b \in 0..(i.h - 1) /\ i.h - (i.h - 1 - b) - 1 = b
        OBVIOUS
      <3>2. j.pix[<<i.h - 1 - b, a>>] = i.pix[<<a, i.h - (i.h - 1 - b) - 1>>]
        BY <1>2, <3>1
      <3> QED
        BY <3>1, <3>2
    <2> QED
      BY <2>1, <2>2, <2>3 DEF InPose
  <1>6. /\ j.w = IF Lying(r) THEN s.h ELSE s.w
        /\ j.h = IF Lying(r) THEN s.w ELSE s.h
    BY <1>1, <1>3 DEF Poses, InPose, Lying
  <1> QED
    BY <1>3, <1>4, <1>5, <1>6 DEF InPose

LEMMA FlipHTracks ==
    ASSUME NEW i, NEW s, NEW q \in Poses, i.w \in Nat, i.h \in Nat,
           s.w \in Nat, s.h \in Nat, InPose(i, q, s)
    PROVE  /\ InPose(FlipH(i), Pose!FlipH(q), s)
           /\ IsImage(FlipH(i))
           /\ Pose!FlipH(q) \in Poses
  <1> DEFINE j == FlipH(i)
             r == Pose!FlipH(q)
  <1>1. j.w = i.w /\ j.h = i.h
    BY DEF FlipH, Image
  <1>2. \A x \in 0..(i.w - 1), y \in 0..(i.h - 1) : j.pix[<<x, y>>] = i.pix[<<i.w - x - 1, y>>]
    BY DEF FlipH, Image, Grid
  <1>3. r = [mirrors |-> 1 - q.mirrors, turns |-> (4 - q.turns) % 4] /\ r \in Poses
    BY DEF Pose!FlipH, Pose!Turn, Poses
  <1>4. IsImage(j)
    BY DEF FlipH, Image, IsImage, Grid
  <1>5. ASSUME NEW x \in 0..(s.w - 1), NEW y \in 0..(s.h - 1)
        PROVE  j.pix[Place(r, s, x, y)] = s.pix[<<x, y>>]
    <2>1. PICK a \in 0..(i.w - 1), b \in 0..(i.h - 1) : Place(q, s, x, y) = <<a, b>>
      BY PlaceType
    <2>2. Place(r, s, x, y) = <<i.w - 1 - a, b>>
      <3>1. CASE q.turns = 0
        BY <1>3, <2>1, <3>1 DEF Poses, Place, InPose, Lying
      <3>2. CASE q.turns = 1
        BY <1>3, <2>1, <3>2 DEF Poses, Place, InPose, Lying
      <3>3. CASE q.turns = 2
        BY <1>3, <2>1, <3>3 DEF Poses, Place, InPose, Lying
      <3>4. CASE q.turns = 3
        BY <1>3, <2>1, <3>4 DEF Poses, Place, InPose, Lying
      <3> QED
        BY <3>1, <3>2, <3>3, <3>4, FourTurns
    <2>3. j.pix[<<i.w - 1 - a, b>>] = i.pix[<<a, b>>]
      <3>1. i.w - 1 - a \in 0..(i.w - 1) /\ i.w - (i.w - 1 - a) - 1 = a
        OBVIOUS
      <3>2. j.pix[<<i.w - 1 - a, b>>] = i.pix[<<i.w - (i.w - 1 - a) - 1, b>>]
        BY <1>2, <3>1
      <3> QED
        BY <3>1, <3>2
    <2> QED
      BY <2>1, <2>2, <2>3 DEF InPose
  <1>6. /\ j.w = IF Lying(r) THEN s.h ELSE s.w
        /\ j.h = IF Lying(r) THEN s.w ELSE s.h
    BY <1>1, <1>3 DEF Poses, InPose, Lying
  <1> QED
    BY <1>3, <1>4, <1>5, <1>6 DEF InPose

LEMMA OrientationInit == Init => OrientationInv
  <1> SUFFICES ASSUME NEW v \in 1..8, NEW w \in 1..MaxWidth, NEW h \in 1..MaxHeight,
                      img = Numbered(w, h), pose = Pose!Diagram[v],
                      scene = Scene(img, pose), calls = Calls[v]
               PROVE  OrientationInv
    BY DEF Init
  <1>1. w \in Nat /\ h \in Nat /\ img.w = w /\ img.h = h
    BY DEF Numbered, Image
  <1>2. IsImage(img)
    BY <1>1 DEF Numbered, Image, IsImage
  <1>3. pose \in Poses
    BY DEF Pose!Diagram, Poses
  <1>4. OnCourse
    <2>9. v = 1 \/ v = 2 \/ v = 3 \/ v = 4 \/ v = 5 \/ v = 6 \/ v = 7 \/ v = 8
      OBVIOUS
    <2> USE DEF OnCourse, Calls, Names, Do, Pose!Diagram, Pose!Rotate90, Pose!Rotate180,
            Pose!Rotate270, Pose!FlipH, Pose!Turn, Pose!Upright
    <2>1. CASE v = 1
      BY <2>1
    <2>2. CASE v = 2
      BY <2>2
    <2>3. CASE v = 3
      BY <2>3
    <2>4. CASE v = 4
      BY <2>4
    <2>5. CASE v = 5
      BY <2>5
    <2>6. CASE v = 6
      BY <2>6
    <2>7. CASE v = 7
      BY <2>7
    <2>8. CASE v = 8
      BY <2>8
    <2> QED
      BY <2>1, <2>2, <2>3, <2>4, <2>5, <2>6, <2>7, <2>8, <2>9
  <1>5. /\ scene.w = IF Lying(pose) THEN h ELSE w
        /\ scene.h = IF Lying(pose) THEN w ELSE h
    BY <1>1 DEF Scene, Image
  <1>6. IsImage(scene)
    BY <1>1, <1>5 DEF Scene, Image, IsImage
  <1>7. ASSUME NEW x \in 0..(scene.w - 1), NEW y \in 0..(scene.h - 1)
        PROVE  img.pix[Place(pose, scene, x, y)] = scene.pix[<<x, y>>]
    <2> DEFINE size == IF Lying(pose) THEN [w |-> img.h, h |-> img.w]
                       ELSE [w |-> img.w, h |-> img.h]
    <2>1. size.w = scene.w /\ size.h = scene.h
      BY <1>1, <1>5
    <2>2. <<x, y>> \in Grid(scene.w, scene.h)
      BY DEF Grid
    <2>3. scene.pix[<<x, y>>] = img.pix[Place(pose, size, x, y)]
      BY <2>1, <2>2 DEF Scene, Image
    <2>4. Place(pose, size, x, y) = Place(pose, scene, x, y)
      BY <2>1 DEF Place
    <2> QED
      BY <2>3, <2>4
  <1>8. PoseTracksPixels
    BY <1>1, <1>5, <1>7 DEF PoseTracksPixels, InPose
  <1> QED
    BY <1>2, <1>3, <1>4, <1>6, <1>8 DEF OrientationInv

\* A call takes the pose one step along the course.
LEMMA CourseStep ==
    ASSUME OnCourse, NEW name \in Names, calls # <<>>, Head(calls) = name,
           calls' = Tail(calls), pose' = Do(name, pose)
    PROVE  OnCourse'
  <1>1. CASE \E a \in Names : calls = <<a>> /\ Do(a, pose) = Pose!Upright
    BY <1>1 DEF OnCourse
  <1>2. CASE \E a, b \in Names : calls = <<a, b>> /\ Do(b, Do(a, pose)) = Pose!Upright
    <2>1. PICK a \in Names, b \in Names :
              calls = <<a, b>> /\ Do(b, Do(a, pose)) = Pose!Upright
      BY <1>2
    <2>2. a = name /\ calls' = <<b>>
      BY <2>1
    <2> QED
      BY <2>1, <2>2 DEF OnCourse
  <1> QED
    BY <1>1, <1>2 DEF OnCourse

LEMMA OrientationNext ==
    ASSUME OrientationInv, [Next]_vars
    PROVE  OrientationInv'
  <1> USE DEF OrientationInv
  <1>1. /\ img.w \in Nat /\ img.h \in Nat /\ scene.w \in Nat /\ scene.h \in Nat
        /\ InPose(img, pose, scene)
    BY DEF IsImage, PoseTracksPixels
  <1>2. CASE CallRotate90
    <2>1. InPose(Rotate90(img), Pose!Rotate90(pose), scene) /\ IsImage(Rotate90(img))
          /\ Pose!Rotate90(pose) \in Poses
      BY <1>1, Rotate90Tracks
    <2>2. OnCourse'
      BY <1>2, CourseStep DEF CallRotate90, Call, Names, Do
    <2> QED
      BY <1>2, <2>1, <2>2 DEF CallRotate90, Call, PoseTracksPixels
  <1>3. CASE CallRotate180
    <2>1. InPose(Rotate180(img), Pose!Rotate180(pose), scene) /\ IsImage(Rotate180(img))
          /\ Pose!Rotate180(pose) \in Poses
      BY <1>1, Rotate180Tracks
    <2>2. OnCourse'
      BY <1>3, CourseStep DEF CallRotate180, Call, Names, Do
    <2> QED
      BY <1>3, <2>1, <2>2 DEF CallRotate180, Call, PoseTracksPixels
  <1>4. CASE CallRotate270
    <2>1. InPose(Rotate270(img), Pose!Rotate270(pose), scene) /\ IsImage(Rotate270(img))
          /\ Pose!Rotate270(pose) \in Poses
      BY <1>1, Rotate270Tracks
    <2>2. OnCourse'
      BY <1>4, CourseStep DEF CallRotate270, Call, Names, Do
    <2> QED
      BY <1>4, <2>1, <2>2 DEF CallRotate270, Call, PoseTracksPixels
  <1>5. CASE CallFlipH
    <2>1. InPose(FlipH(img), Pose!FlipH(pose), scene) /\ IsImage(FlipH(img))
          /\ Pose!FlipH(pose) \in Poses
      BY <1>1, FlipHTracks
    <2>2. OnCourse'
      BY <1>5, CourseStep DEF CallFlipH, Call, Names, Do
    <2> QED
      BY <1>5, <2>1, <2>2 DEF CallFlipH, Call, PoseTracksPixels
  <1>6. CASE UNCHANGED vars
    BY <1>6 DEF vars, PoseTracksPixels, OnCourse
  <1> QED
    BY <1>2, <1>3, <1>4, <1>5, <1>6 DEF Next

\* OrientationInv always holds: a call of fixOrientation (image.go:155-173) maps an
\* image in the pose of Sanitize to one in the next pose.
THEOREM OrientationInvariant == Spec => []OrientationInv
  <1>1. Init => OrientationInv
    BY OrientationInit
  <1>2. OrientationInv /\ [Next]_vars => OrientationInv'
    BY OrientationNext
  <1> QED
    BY <1>1, <1>2, PTL DEF Spec

\* The poses of module Sanitize are faithful to the loops of transform.go, for
\* images of every width and height.
THEOREM PosesAreFaithful == Spec => []PoseTracksPixels
  <1>1. OrientationInv => PoseTracksPixels
    BY DEF OrientationInv
  <1> QED
    BY <1>1, OrientationInvariant, PTL

\* Two images in the same upright pose of the same scene are the same.
LEMMA UprightIsScene ==
    ASSUME NEW i, NEW s, IsImage(i), IsImage(s), InPose(i, Pose!Upright, s)
    PROVE  i = s
  <1>1. i.w = s.w /\ i.h = s.h
    BY DEF InPose, Lying, Pose!Upright
  <1>2. ASSUME NEW x \in 0..(s.w - 1), NEW y \in 0..(s.h - 1)
        PROVE  i.pix[<<x, y>>] = s.pix[<<x, y>>]
    <2>1. Place(Pose!Upright, s, x, y) = <<x, y>>
      BY DEF Place, Pose!Upright
    <2> QED
      BY <2>1 DEF InPose
  <1>3. [p \in Grid(i.w, i.h) |-> i.pix[p]] = [p \in Grid(s.w, s.h) |-> s.pix[p]]
    BY <1>1, <1>2 DEF Grid
  <1> QED
    BY <1>1, <1>3 DEF IsImage

\* fixOrientation returns the picture as the camera saw it, to the pixel, for each
\* of the eight values and every width and height (image.go:155-173).
THEOREM OrientationEndsUpright == Spec => []EndsUpright
  <1>1. OrientationInv => EndsUpright
    BY UprightIsScene DEF OrientationInv, EndsUpright, OnCourse, PoseTracksPixels
  <1> QED
    BY <1>1, OrientationInvariant, PTL
=============================================================================
