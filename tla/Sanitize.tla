------------------------------- MODULE Sanitize -------------------------------
(* What image.go does to one uploaded file: checkImage, parseExif,            *)
(* fixOrientation and SanitizeImageFrom, as operators on an abstract file.     *)
(*                                                                            *)
(* A file is a record: its format (NotAnImage when image.Decode refuses it),   *)
(* what exif.Decode makes of it, and its Orientation tag.  Pixels are          *)
(* abstracted to the pose of the picture, and everything else in the file to   *)
(* one bit, "metadata".  The operators state every early return and every nil  *)
(* the code can follow.  The pose arithmetic is checked against the pixel loops *)
(* of package imaging in module Orientation.                                  *)
EXTENDS Naturals

-----------------------------------------------------------------------------
(* Poses.  A picture mirrored left-right "mirrors" times, then turned           *)
(* counterclockwise by "turns" quarter turns.                                 *)

Pose == [mirrors : 0..1, turns : 0..3]

Upright == [mirrors |-> 0, turns |-> 0]

Turn(pose, quarters) == [pose EXCEPT !.turns = (@ + quarters) % 4]

Rotate90(pose)  == Turn(pose, 1)
Rotate180(pose) == Turn(pose, 2)
Rotate270(pose) == Turn(pose, 3)

\* A mirror after k turns is k turns the other way after a mirror.
FlipH(pose) == [mirrors |-> 1 - pose.mirrors, turns |-> (4 - pose.turns) % 4]

\* The pose of the stored pixels for each orientation value: the eight F's of
\* the diagram in fixOrientation, read off the comment.
Diagram ==
    LET At(mirrors, turns) == [mirrors |-> mirrors, turns |-> turns]
    IN  [v \in 1..8 |-> CASE v = 1 -> At(0, 0)
                          [] v = 2 -> At(1, 0)
                          [] v = 3 -> At(0, 2)
                          [] v = 4 -> At(1, 2)
                          [] v = 5 -> At(1, 1)
                          [] v = 6 -> At(0, 1)
                          [] v = 7 -> At(1, 3)
                          [] v = 8 -> At(0, 3)]

-----------------------------------------------------------------------------
(* Files.                                                                     *)

Encodable == {"gif", "jpeg", "png"}        \* the cases of the encoder switch
Decodable == Encodable \cup {"bmp", "tiff"} \* package imaging registers two more
NotAnImage == "not an image"

\* exif.Decode: a usable *Exif, a tiffErrors error (returned together with a
\* usable *Exif), or any other error.
ExifOutcome == {"usable", "nonfatal", "critical"}

TagType == {"nil", "short", "other"}
Tag == [type : TagType, count : 0..1, value : 0..9]
NilTag == [type |-> "nil", count |-> 0, value |-> 0]

File == [format : Decodable \cup {NotAnImage}, exif : ExifOutcome, tag : Tag]

HasOrientation(file) == file.tag.type = "short" /\ file.tag.count > 0
                            /\ file.tag.value \in 1..8

\* The pose a camera left the pixels in: what the tag says, if it says anything.
PoseOf(file) ==
    IF file.format = "jpeg" /\ HasOrientation(file)
    THEN Diagram[file.tag.value] ELSE Upright

Picture == [pose : Pose, metadata : BOOLEAN]

Original(file) == [pose |-> PoseOf(file), metadata |-> TRUE]

-----------------------------------------------------------------------------
(* The outcome of an operation: a picture, an error value, or a panic.         *)

Returned == "returned"
Failed   == "failed"
Panicked == "panicked"

NoPicture == [pose |-> Upright, metadata |-> FALSE]

Outcome == [kind : {Returned, Failed, Panicked}, picture : Picture]

Return(picture) == [kind |-> Returned, picture |-> picture]
Error == [kind |-> Failed, picture |-> NoPicture]
Panic == [kind |-> Panicked, picture |-> NoPicture]

\* Where a read or a seek on the uploaded file can fail underneath the code.
Fault == {"decode", "rewind", "exif", "encode"}

-----------------------------------------------------------------------------
(* parseExif: on any error the *Exif is dropped, also when it was usable.      *)
ParseExif(file, faults) ==
    [exif |-> file.exif = "usable" /\ "exif" \notin faults,    \* ex # nil
     err  |-> IF "exif" \in faults THEN "critical" ELSE file.exif]

\* Wrong: the calls of values 5 and 7 exchanged.
FixOrientationSwapped(picture, tag) ==
    LET Fixed(pose) == Return([picture EXCEPT !.pose = pose])
        p == picture.pose
    IN  IF tag.type # "short" \/ tag.count < 1 THEN Error
        ELSE CASE tag.value = 1 -> Fixed(p)
               [] tag.value = 2 -> Fixed(FlipH(p))
               [] tag.value = 3 -> Fixed(Rotate180(p))
               [] tag.value = 4 -> Fixed(FlipH(Rotate180(p)))
               [] tag.value = 5 -> Fixed(FlipH(Rotate90(p)))
               [] tag.value = 6 -> Fixed(Rotate270(p))
               [] tag.value = 7 -> Fixed(FlipH(Rotate270(p)))
               [] tag.value = 8 -> Fixed(Rotate90(p))
               [] OTHER -> Error

(* fixOrientation: an error for a tag that is not a short, that is empty, or    *)
(* whose value is unknown.  (binary.Read cannot fail: a parsed short with a     *)
(* count carries at least two bytes.)                                         *)
FixOrientation(picture, tag) ==
    LET Fixed(pose) == Return([picture EXCEPT !.pose = pose])
        p == picture.pose
    IN  IF tag.type # "short" \/ tag.count < 1 THEN Error
        ELSE CASE tag.value = 1 -> Fixed(p)
               [] tag.value = 2 -> Fixed(FlipH(p))
               [] tag.value = 3 -> Fixed(Rotate180(p))
               [] tag.value = 4 -> Fixed(FlipH(Rotate180(p)))
               [] tag.value = 5 -> Fixed(FlipH(Rotate270(p)))
               [] tag.value = 6 -> Fixed(Rotate270(p))
               [] tag.value = 7 -> Fixed(FlipH(Rotate90(p)))
               [] tag.value = 8 -> Fixed(Rotate90(p))
               [] OTHER -> Error

(* The EXIF part of SanitizeImageFrom.  A critical error is logged and the      *)
(* image goes on without a tag; any other error goes on to ex.Get, whatever ex  *)
(* is: "panicked" is ex.Get on a nil ex.                                       *)
OrientationTag(file, faults) ==
    LET parsed == ParseExif(file, faults)
        canContinue == /\ "rewind" \notin faults
                       /\ file.format = "jpeg"
                       /\ parsed.err # "critical"
    IN  IF ~canContinue THEN [kind |-> Returned, tag |-> NilTag]
        ELSE IF parsed.exif THEN [kind |-> Returned, tag |-> file.tag]
        ELSE [kind |-> Panicked, tag |-> NilTag]

(* SanitizeImageFrom.  The pixels are copied, so the metadata is gone; the      *)
(* error of fixOrientation is overwritten by the encoder's, which is given the  *)
(* nil image that came with it.                                                *)
SanitizeImageFrom(file, faults) ==
    LET exif == OrientationTag(file, faults)
        newImg == [pose |-> PoseOf(file), metadata |-> FALSE]  \* CloneToRGBA
        fixed == IF exif.tag.type = "nil" THEN Return(newImg)
                 ELSE FixOrientation(newImg, exif.tag)
    IN  IF file.format = NotAnImage \/ "decode" \in faults THEN Error
        ELSE IF exif.kind = Panicked THEN Panic
        ELSE IF file.format \notin Encodable THEN Error
        ELSE IF fixed.kind = Failed THEN Panic
        ELSE IF "encode" \in faults THEN Error
        ELSE fixed

\* The files the code publishes when nothing fails underneath it.
Publishable(file) ==
    /\ file.format \in Encodable
    /\ file.format = "jpeg" =>
           \/ file.exif = "critical"
           \/ /\ file.exif = "usable"
              /\ file.tag.type = "nil" \/ HasOrientation(file)
=============================================================================
