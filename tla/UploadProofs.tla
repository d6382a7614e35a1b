----------------------------- MODULE UploadProofs -----------------------------
(* What SanitizeImageFrom returns, for every file and every fault; that UploadInv  *)
(* is an inductive invariant of Upload, and what follows from it: CleanPublic,     *)
(* ArchivedFirst, RejectedLeavesNoTrace, UrlServesTheUpload, and that Upload       *)
(* implements UploadService.                                                  *)
EXTENDS Upload, TLAPS

-----------------------------------------------------------------------------
(* The sanitizer.                                                             *)

\* The turns and the mirror of package imaging yield poses.
LEMMA TransformsType ==
    ASSUME NEW p \in Pose
    PROVE  /\ Rotate90(p) \in Pose
           /\ Rotate180(p) \in Pose
           /\ Rotate270(p) \in Pose
           /\ FlipH(p) \in Pose
  BY DEF Pose, Rotate90, Rotate180, Rotate270, FlipH, Turn

LEMMA DiagramType == \A v \in 1..8 : Diagram[v] \in Pose
  BY DEF Diagram, Pose

LEMMA PoseOfType == ASSUME NEW file \in File PROVE PoseOf(file) \in Pose
  <1>1. CASE file.format = "jpeg" /\ HasOrientation(file)
    <2>1. file.tag.value \in 1..8
      BY <1>1 DEF HasOrientation
    <2> QED
      BY <1>1, <2>1, DiagramType DEF PoseOf
  <1>2. CASE ~(file.format = "jpeg" /\ HasOrientation(file))
    BY <1>2 DEF PoseOf, Upright, Pose
  <1> QED
    BY <1>1, <1>2

LEMMA OriginalType == ASSUME NEW file \in File PROVE Original(file) \in Picture
  BY PoseOfType DEF Original, Picture

\* fixOrientation returns a picture or an error, and adds no metadata.
LEMMA FixOrientationType ==
    ASSUME NEW picture \in Picture, NEW tag \in Tag
    PROVE  LET out == FixOrientation(picture, tag)
           IN  \/ out = Error
               \/ /\ out.kind = Returned
                  /\ out.picture \in Picture
                  /\ out.picture.metadata = picture.metadata
  <1> DEFINE p == picture.pose
             R(q) == Return([picture EXCEPT !.pose = q])
             out == FixOrientation(picture, tag)
  <1>1. p \in Pose
    BY DEF Picture
  <1>2. ASSUME NEW q \in Pose
        PROVE  /\ R(q).kind = Returned
               /\ R(q).picture \in Picture
               /\ R(q).picture.metadata = picture.metadata
    BY <1>2 DEF Return, Picture
  <1>3. out = Error \/ \E q \in Pose : out = R(q)
    <2>1. /\ Rotate90(p) \in Pose
          /\ Rotate180(p) \in Pose
          /\ Rotate270(p) \in Pose
          /\ FlipH(p) \in Pose
          /\ FlipH(Rotate180(p)) \in Pose
          /\ FlipH(Rotate270(p)) \in Pose
          /\ FlipH(Rotate90(p)) \in Pose
      BY <1>1, TransformsType
    <2>2. CASE tag.type # "short" \/ tag.count < 1 \/ tag.value \notin 1..8
      BY <2>2 DEF FixOrientation
    <2>3. CASE ~(tag.type # "short" \/ tag.count < 1) /\ tag.value \in 1..8
      <3>1. CASE tag.value = 1
        BY <2>3, <3>1, <1>1 DEF FixOrientation
      <3>2. CASE tag.value = 2
        BY <2>3, <3>2, <2>1 DEF FixOrientation
      <3>3. CASE tag.value = 3
        BY <2>3, <3>3, <2>1 DEF FixOrientation
      <3>4. CASE tag.value = 4
        BY <2>3, <3>4, <2>1 DEF FixOrientation
      <3>5. CASE tag.value = 5
        BY <2>3, <3>5, <2>1 DEF FixOrientation
      <3>6. CASE tag.value = 6
        BY <2>3, <3>6, <2>1 DEF FixOrientation
      <3>7. CASE tag.value = 7
        BY <2>3, <3>7, <2>1 DEF FixOrientation
      <3>8. CASE tag.value = 8
        BY <2>3, <3>8, <2>1 DEF FixOrientation
      <3> QED
        BY <2>3, <3>1, <3>2, <3>3, <3>4, <3>5, <3>6, <3>7, <3>8
    <2> QED
      BY <2>2, <2>3
  <1> QED
    BY <1>2, <1>3

\* The eight cases of fixOrientation undo the eight poses of its diagram.
THEOREM OrientationCorrected ==
    ASSUME NEW v \in 1..8, NEW metadata,
           NEW tag, tag.type = "short", tag.count = 1, tag.value = v
    PROVE  FixOrientation([pose |-> Diagram[v], metadata |-> metadata], tag)
               = Return([pose |-> Upright, metadata |-> metadata])
  <1> DEFINE d == Diagram[v]
             picture == [pose |-> d, metadata |-> metadata]
             R(q) == Return([picture EXCEPT !.pose = q])
  <1>1. R(Upright) = Return([pose |-> Upright, metadata |-> metadata])
    BY DEF Return
  <1>2. ~(tag.type # "short" \/ tag.count < 1)
    OBVIOUS
  <1>3. CASE v = 1
    <2>1. d = Upright
      BY <1>3 DEF Diagram, Upright, FlipH, Rotate90, Rotate180, Rotate270, Turn
    <2> QED
      BY <1>1, <1>2, <1>3, <2>1 DEF FixOrientation
  <1>4. CASE v = 2
    <2>1. FlipH(d) = Upright
      BY <1>4 DEF Diagram, Upright, FlipH, Rotate90, Rotate180, Rotate270, Turn
    <2> QED
      BY <1>1, <1>2, <1>4, <2>1 DEF FixOrientation
  <1>5. CASE v = 3
    <2>1. Rotate180(d) = Upright
      BY <1>5 DEF Diagram, Upright, FlipH, Rotate90, Rotate180, Rotate270, Turn
    <2> QED
      BY <1>1, <1>2, <1>5, <2>1 DEF FixOrientation
  <1>6. CASE v = 4
    <2>1. FlipH(Rotate180(d)) = Upright
      BY <1>6 DEF Diagram, Upright, FlipH, Rotate90, Rotate180, Rotate270, Turn
    <2> QED
      BY <1>1, <1>2, <1>6, <2>1 DEF FixOrientation
  <1>7. CASE v = 5
    <2>1. FlipH(Rotate270(d)) = Upright
      BY <1>7 DEF Diagram, Upright, FlipH, Rotate90, Rotate180, Rotate270, Turn
    <2> QED
      BY <1>1, <1>2, <1>7, <2>1 DEF FixOrientation
  <1>8. CASE v = 6
    <2>1. Rotate270(d) = Upright
      BY <1>8 DEF Diagram, Upright, FlipH, Rotate90, Rotate180, Rotate270, Turn
    <2> QED
      BY <1>1, <1>2, <1>8, <2>1 DEF FixOrientation
  <1>9. CASE v = 7
    <2>1. FlipH(Rotate90(d)) = Upright
      BY <1>9 DEF Diagram, Upright, FlipH, Rotate90, Rotate180, Rotate270, Turn
    <2> QED
      BY <1>1, <1>2, <1>9, <2>1 DEF FixOrientation
  <1>10. CASE v = 8
    <2>1. Rotate90(d) = Upright
      BY <1>10 DEF Diagram, Upright, FlipH, Rotate90, Rotate180, Rotate270, Turn
    <2> QED
      BY <1>1, <1>2, <1>10, <2>1 DEF FixOrientation
  <1> QED
    BY <1>3, <1>4, <1>5, <1>6, <1>7, <1>8, <1>9, <1>10

LEMMA OrientationTagType ==
    ASSUME NEW file \in File, NEW faults
    PROVE  /\ OrientationTag(file, faults).kind \in {Returned, Panicked}
           /\ OrientationTag(file, faults).tag \in {NilTag, file.tag}
  BY DEF OrientationTag

\* SanitizeImageFrom returns a picture without metadata in a format the server
\* encodes, or no picture at all, whatever the file is and whatever fails.
THEOREM SanitizeStrips ==
    ASSUME NEW file \in File, NEW faults
    PROVE  LET out == SanitizeImageFrom(file, faults)
           IN  \/ out = Error
               \/ out = Panic
               \/ /\ out.kind = Returned
                  /\ out.picture \in Picture
                  /\ ~out.picture.metadata
                  /\ file.format \in Encodable
  <1> DEFINE exif == OrientationTag(file, faults)
             newImg == [pose |-> PoseOf(file), metadata |-> FALSE]
             fixed == IF exif.tag.type = "nil" THEN Return(newImg)
                      ELSE FixOrientation(newImg, exif.tag)
  <1>1. newImg \in Picture
    BY PoseOfType DEF Picture
  <1>2. exif.tag \in Tag
    BY OrientationTagType DEF File, Tag, NilTag, TagType
  <1>3. \/ fixed = Error
        \/ /\ fixed.kind = Returned
           /\ fixed.picture \in Picture
           /\ fixed.picture.metadata = FALSE
    <2>1. CASE exif.tag.type = "nil"
      BY <1>1, <2>1 DEF Return
    <2>2. CASE exif.tag.type # "nil"
      <3>1. newImg.metadata = FALSE
        OBVIOUS
      <3> HIDE DEF exif, newImg
      <3> QED
        BY <1>1, <1>2, <2>2, <3>1, FixOrientationType
    <2> QED
      BY <2>1, <2>2
  <1>4. SanitizeImageFrom(file, faults) =
            IF file.format = NotAnImage \/ "decode" \in faults THEN Error
            ELSE IF exif.kind = Panicked THEN Panic
            ELSE IF file.format \notin Encodable THEN Error
            ELSE IF fixed.kind = Failed THEN Panic
            ELSE IF "encode" \in faults THEN Error
            ELSE fixed
    BY DEF SanitizeImageFrom
  <1>5. Error.kind = Failed
    BY DEF Error
  <1> HIDE DEF fixed, exif
  <1> QED
    BY <1>3, <1>4, <1>5

\* When nothing fails and the EXIF data is usable, what SanitizeImageFrom returns
\* is upright.
THEOREM SanitizeUprights ==
    ASSUME NEW file \in File, file.exif = "usable",
           SanitizeImageFrom(file, {}).kind = Returned
    PROVE  SanitizeImageFrom(file, {}).picture.pose = Upright
  <1> DEFINE exif == OrientationTag(file, {})
             newImg == [pose |-> PoseOf(file), metadata |-> FALSE]
             fixed == IF exif.tag.type = "nil" THEN Return(newImg)
                      ELSE FixOrientation(newImg, exif.tag)
  <1>1. /\ SanitizeImageFrom(file, {}) = fixed
        /\ fixed.kind # Failed
    BY DEF SanitizeImageFrom, Error, Panic, Returned, Failed, Panicked
  <1>2. exif.tag = IF file.format = "jpeg" THEN file.tag ELSE NilTag
    BY DEF OrientationTag, ParseExif
  <1>3. CASE exif.tag.type = "nil"
    <2>1. PoseOf(file) = Upright
      BY <1>2, <1>3 DEF PoseOf, HasOrientation
    <2> QED
      BY <1>1, <1>3, <2>1 DEF Return
  <1>4. CASE exif.tag.type # "nil"
    <2>1. file.format = "jpeg" /\ exif.tag = file.tag
      BY <1>2, <1>4 DEF NilTag
    <2>2. fixed = FixOrientation(newImg, file.tag)
      BY <1>4, <2>1
    <2>3. file.tag.type = "short" /\ ~(file.tag.count < 1) /\ file.tag.value \in 1..8
      <3>1. FixOrientation(newImg, file.tag) # Error
        BY <1>1, <2>2 DEF Error
      <3> QED
        BY <3>1 DEF FixOrientation
    <2>4. file.tag.count = 1
      BY <2>3 DEF File, Tag
    <2>5. PoseOf(file) = Diagram[file.tag.value]
      BY <2>1, <2>3, <2>4 DEF PoseOf, HasOrientation
    <2>6. fixed = Return([pose |-> Upright, metadata |-> FALSE])
      BY <2>2, <2>3, <2>4, <2>5, OrientationCorrected
    <2> QED
      BY <1>1, <2>6 DEF Return
  <1> QED
    BY <1>3, <1>4

\* A file that is publishable is returned as a picture when nothing fails.
THEOREM SanitizePublishes ==
    ASSUME NEW file \in File, Publishable(file)
    PROVE  SanitizeImageFrom(file, {}).kind = Returned
  <1> DEFINE exif == OrientationTag(file, {})
             newImg == [pose |-> PoseOf(file), metadata |-> FALSE]
             fixed == IF exif.tag.type = "nil" THEN Return(newImg)
                      ELSE FixOrientation(newImg, exif.tag)
  <1>1. file.format \in Encodable /\ file.format # NotAnImage
    BY DEF Publishable, Encodable, NotAnImage
  <1>2. exif.kind = Returned
    BY DEF Publishable, OrientationTag, ParseExif
  <1>3. exif.tag.type = "nil" \/ (exif.tag = file.tag /\ HasOrientation(file))
    BY DEF Publishable, OrientationTag, ParseExif, NilTag
  <1>4. fixed.kind = Returned
    <2>1. CASE exif.tag.type = "nil"
      BY <2>1 DEF Return
    <2>2. CASE exif.tag = file.tag /\ HasOrientation(file)
      <3>1. /\ file.tag.type = "short"
            /\ ~(file.tag.count < 1)
            /\ file.tag.value \in 1..8
        BY <2>2 DEF HasOrientation, File, Tag
      <3>2. FixOrientation(newImg, file.tag).kind = Returned
        BY <3>1 DEF FixOrientation, Return
      <3> QED
        BY <2>2, <3>1, <3>2
    <2> QED
      BY <1>3, <2>1, <2>2
  <1>5. SanitizeImageFrom(file, {}) = fixed
    BY <1>1, <1>2, <1>4 DEF SanitizeImageFrom, Returned, Panicked, Failed
  <1> QED
    BY <1>4, <1>5

-----------------------------------------------------------------------------
(* The uploads.                                                               *)

USE DEF Steps, Over, Sent

\* What arrives is typed.
LEMMA InputType ==
    ASSUME NEW in \in Inputs
    PROVE  /\ in.file \in File
           /\ in.file.format \in Decodable \cup {NotAnImage}
           /\ Original(in.file) \in Picture
  BY InputsAssumption, OriginalType DEF File

\* The archive's PUT of an upload with a decodable file.
LEMMA ArchivePutType ==
    ASSUME NEW u \in Uploads, NEW whole \in BOOLEAN, Archiving,
           input[u] \in Inputs, input[u].file.format \in Decodable
    PROVE  /\ ArchivePut(u, whole) \in Put
           /\ ArchivePut(u, whole).by = u
           /\ ArchivePut(u, whole).bucket = ArchiveBucket
           /\ ~Public(ArchivePut(u, whole))
  BY InputType DEF Put, Buckets, Keys, ArchivePut, OriginalBody, Body, Acl, Public,
                   Archiving

\* The public PUT of an upload with a sanitized image.
LEMMA PublicPutType ==
    ASSUME NEW u \in Uploads, NEW name \in RandomNames,
           image[u] \in Picture, input[u].file.format \in Decodable
    PROVE  /\ PublicPut(u, name) \in Put
           /\ PublicPut(u, name).by = u
           /\ PublicPut(u, name).bucket = PublicBucket
           /\ Public(PublicPut(u, name))
  BY BucketAssumption DEF Put, Buckets, Keys, PublicPut, Body, Acl, Public

THEOREM UploadInit == Init => UploadInv
  <1> SUFFICES ASSUME Init PROVE UploadInv
    OBVIOUS
  <1> USE DEF Init, StorageInit
  <1>1. TypeOK
    <2>1. NoPicture \in Picture
      BY DEF NoPicture, Picture, Pose, Upright
    <2>2. image \in [Uploads -> Picture]
      BY <2>1
    <2>3. wire \cup stored = {} /\ objects = {}
      OBVIOUS
    <2> QED
      BY <2>2, <2>3 DEF TypeOK, Unanswered, Kinds
  <1>2. ASSUME NEW u \in Uploads PROVE HandlerInv(u)
    BY DEF HandlerInv, Unanswered
  <1>3. \A put \in Sent : PutInv(put)
    OBVIOUS
  <1>4. StorageInv
    BY DEF StorageInv
  <1> QED
    BY <1>1, <1>2, <1>3, <1>4 DEF UploadInv

-----------------------------------------------------------------------------
(* Steps that concern one handler.                                            *)

\* The step leaves the handler of v alone.
Same(v) ==
    /\ pc'[v] = pc[v]
    /\ input'[v] = input[v]
    /\ pos'[v] = pos[v]
    /\ image'[v] = image[v]
    /\ request'[v] = request[v]
    /\ answer'[v] = answer[v]

LEMMA HandlerFrame ==
    ASSUME NEW v \in Uploads, HandlerInv(v), Same(v), stored \subseteq stored'
    PROVE  HandlerInv(v)'
  <1>1. /\ ArchivePut(v, TRUE)' = ArchivePut(v, TRUE)
        /\ \A name : PublicPut(v, name)' = PublicPut(v, name)
    BY DEF Same, ArchivePut, OriginalBody, PublicPut
  <1>2. (\E name \in RandomNames : request[v] = PublicPut(v, name))' <=>
            \E name \in RandomNames : request[v] = PublicPut(v, name)
    BY <1>1 DEF Same
  <1>3. /\ Public(request[v])' <=> Public(request[v])
        /\ Address(request[v])' = Address(request[v])
    BY DEF Public, Address, Same
  <1> QED
    BY <1>1, <1>2, <1>3 DEF HandlerInv, Same

\* A PUT keeps its invariant while its upload stays as it is, or ends.
LEMMA PutFrame ==
    ASSUME NEW put, PutInv(put), stored \subseteq stored',
           input'[put.by] = input[put.by],
           image'[put.by] = image[put.by],
           request'[put.by] = request[put.by],
           pc'[put.by] = pc[put.by] \/ pc'[put.by] \in Over,
           answer'[put.by].kind # "bad request"
    PROVE  PutInv(put)'
  <1>1. /\ ArchivePut(put.by, TRUE)' = ArchivePut(put.by, TRUE)
        /\ \A name : PublicPut(put.by, name)' = PublicPut(put.by, name)
    BY DEF ArchivePut, OriginalBody, PublicPut
  <1>2. (\E name \in RandomNames : put = PublicPut(put.by, name))' <=>
            \E name \in RandomNames : put = PublicPut(put.by, name)
    BY <1>1
  <1> QED
    BY <1>1, <1>2 DEF PutInv, Public, Sending, Archiving

\* What is left to show of a step of one handler.
LEMMA HandlerStep ==
    ASSUME UploadInv, NEW u \in Uploads,
           \A v \in Uploads \ {u} : Same(v),
           TypeOK', HandlerInv(u)',
           wire \subseteq wire', objects' = objects, stored' = stored,
           \A put \in wire' \ wire : put.by = u /\ put \notin stored,
           \A put \in Sent' : put.by = u => PutInv(put)'
    PROVE  UploadInv'
  <1>1. ASSUME NEW v \in Uploads PROVE HandlerInv(v)'
    BY HandlerFrame DEF UploadInv
  <1>2. ASSUME NEW put \in Sent' PROVE PutInv(put)'
    <2>1. CASE put.by = u
      BY <2>1
    <2>2. CASE put.by # u
      <3>1. put \in Sent
        BY <2>2
      <3>2. PutInv(put) /\ put.by \in Uploads
        BY <3>1 DEF UploadInv, PutInv
      <3> QED
        BY <2>2, <3>2, PutFrame DEF Same, PutInv
    <2> QED
      BY <2>1, <2>2
  <1>3. StorageInv'
    BY DEF UploadInv, StorageInv, Address
  <1> QED
    BY <1>1, <1>2, <1>3 DEF UploadInv

\* Before its first PUT a handler has none under way or stored.
LEMMA NothingSent ==
    ASSUME UploadInv, NEW u \in Uploads, pc[u] \notin Sending
    PROVE  \A put \in Sent : put.by # u
  BY DEF UploadInv, PutInv

\* Before it publishes, a handler has sent nothing but the original.
LEMMA OnlyOriginalSent ==
    ASSUME UploadInv, NEW u \in Uploads, pc[u] \notin {"publishing"} \cup Over
    PROVE  \A put \in Sent : put.by = u => Archiving /\ put = ArchivePut(u, TRUE)
                                             /\ ~Public(put)
  BY DEF UploadInv, PutInv

\* An answer other than a 200 is typed and settles what HandlerInv says.
LEMMA AnswerEnds ==
    ASSUME TypeOK, NEW u \in Uploads, HandlerInv(u), pc[u] # "idle",
           NEW kind \in {"bad request", "server error", "recovered panic"},
           Answer(u, kind), input' = input
    PROVE  /\ pc' \in [Uploads -> Steps \cup Over \cup {"idle"}]
           /\ answer' \in [Uploads -> [kind : Kinds, url : {NoUrl} \cup (Buckets \X Keys)]]
           /\ open' \in [Uploads -> BOOLEAN]
           /\ pc'[u] = "answered"
           /\ answer'[u].kind = kind
           /\ \A v \in Uploads \ {u} : pc'[v] = pc[v] /\ answer'[v] = answer[v]
           /\ HandlerInv(u)'
  <1> USE DEF Answer, Goto
  <1>1. [kind |-> kind, url |-> NoUrl] \in [kind : Kinds, url : {NoUrl} \cup (Buckets \X Keys)]
    BY DEF Kinds
  <1>2. pc'[u] = "answered" /\ answer'[u].kind = kind
    BY DEF TypeOK
  <1>3. HandlerInv(u)'
    BY <1>2 DEF HandlerInv
  <1> QED
    BY <1>1, <1>2, <1>3 DEF TypeOK

\* A step to another place of the handler is typed.
LEMMA GotoType ==
    ASSUME TypeOK, NEW u \in Uploads, NEW step \in Steps, Goto(u, step)
    PROVE  /\ pc' \in [Uploads -> Steps \cup Over \cup {"idle"}]
           /\ pc'[u] = step
           /\ \A v \in Uploads \ {u} : pc'[v] = pc[v]
  BY DEF Goto, TypeOK

LEMMA BlameType ==
    ASSUME TypeOK, NEW u \in Uploads, NEW fault \in BOOLEAN, Blame(u, fault)
    PROVE  faulted' \in [Uploads -> BOOLEAN]
  BY Zenon DEF Blame, TypeOK

\* A handler that has failed answers: the same for every error path.
LEMMA AnswerStep ==
    ASSUME UploadInv, NEW u \in Uploads, pc[u] \in Steps,
           NEW kind \in {"bad request", "server error", "recovered panic"},
           NEW fault \in BOOLEAN,
           Answer(u, kind), Blame(u, fault),
           UNCHANGED <<input, image, request, storage>>,
           pos' \in [Uploads -> {"start", "end"}],
           \A v \in Uploads \ {u} : pos'[v] = pos[v],
           kind = "bad request" => \A put \in Sent : put.by # u
    PROVE  UploadInv'
  <1>1. TypeOK /\ HandlerInv(u) /\ pc[u] # "idle"
    BY DEF UploadInv
  <1>2. /\ pc' \in [Uploads -> Steps \cup Over \cup {"idle"}]
        /\ answer' \in [Uploads -> [kind : Kinds, url : {NoUrl} \cup (Buckets \X Keys)]]
        /\ open' \in [Uploads -> BOOLEAN]
        /\ pc'[u] = "answered"
        /\ answer'[u].kind = kind
        /\ \A v \in Uploads \ {u} : pc'[v] = pc[v] /\ answer'[v] = answer[v]
        /\ HandlerInv(u)'
    BY <1>1, AnswerEnds
  <1>3. TypeOK'
    BY <1>1, <1>2, BlameType DEF TypeOK, storage
  <1>4. \A v \in Uploads \ {u} : Same(v)
    BY <1>2 DEF Same
  <1>5. ASSUME NEW put \in Sent', put.by = u PROVE PutInv(put)'
    BY <1>2, <1>5, PutFrame DEF UploadInv, storage
  <1> QED
    BY <1>2, <1>3, <1>4, <1>5, HandlerStep DEF storage

\* A handler goes on without having sent, stored or answered anything.
LEMMA MoveStep ==
    ASSUME UploadInv, NEW u \in Uploads, pc[u] \in Steps, NEW step \in Steps,
           Goto(u, step),
           UNCHANGED <<input, request, answer, storage>>,
           pos' \in [Uploads -> {"start", "end"}],
           image' \in [Uploads -> Picture],
           open' \in [Uploads -> BOOLEAN],
           faulted' \in [Uploads -> BOOLEAN],
           \A v \in Uploads \ {u} : pos'[v] = pos[v] /\ image'[v] = image[v],
           HandlerInv(u)',
           \A put \in Sent : put.by = u => PutInv(put)'
    PROVE  UploadInv'
  <1>1. TypeOK
    BY DEF UploadInv
  <1>2. TypeOK'
    BY <1>1, GotoType DEF TypeOK, storage
  <1>3. \A v \in Uploads \ {u} : Same(v)
    BY <1>1, GotoType DEF Same
  <1> QED
    BY <1>2, <1>3, HandlerStep DEF storage

-----------------------------------------------------------------------------
(* One lemma per action.                                                      *)

LEMMA ArriveStep ==
    ASSUME UploadInv, NEW u \in Uploads, Arrive(u)
    PROVE  UploadInv'
  <1> USE DEF Arrive, Goto, storage
  <1>1. TypeOK'
    BY DEF UploadInv, TypeOK
  <1>2. HandlerInv(u)'
    BY DEF UploadInv, TypeOK, HandlerInv
  <1>3. \A put \in Sent : put.by # u
    BY NothingSent DEF Sending
  <1>4. \A v \in Uploads \ {u} : Same(v)
    BY DEF Same, UploadInv, TypeOK
  <1> QED
    BY <1>1, <1>2, <1>3, <1>4, HandlerStep

LEMMA ParseFormStep ==
    ASSUME UploadInv, NEW u \in Uploads, ParseForm(u)
    PROVE  UploadInv'
  <1> USE DEF ParseForm
  <1>1. TypeOK /\ HandlerInv(u) /\ \A put \in Sent : put.by # u
    BY NothingSent DEF Sending, UploadInv
  <1>2. CASE Goto(u, "extract") /\ UNCHANGED <<open, answer, faulted>>
    <2>1. HandlerInv(u)'
      BY <1>1, <1>2, GotoType DEF HandlerInv
    <2> QED
      BY <1>1, <1>2, <2>1, MoveStep DEF TypeOK
  <1>3. CASE Blame(u, input[u].form # "malformed") /\ Answer(u, "bad request")
    BY <1>1, <1>3, AnswerStep DEF TypeOK
  <1> QED
    BY <1>2, <1>3

LEMMA ExtractFileStep ==
    ASSUME UploadInv, NEW u \in Uploads, ExtractFile(u)
    PROVE  UploadInv'
  <1> USE DEF ExtractFile
  <1>1. TypeOK /\ HandlerInv(u) /\ \A put \in Sent : put.by # u
    BY NothingSent DEF Sending, UploadInv
  <1>2. CASE /\ Goto(u, "check")
             /\ open' = [open EXCEPT ![u] = TRUE]
             /\ UNCHANGED <<answer, faulted>>
    <2>1. HandlerInv(u)'
      BY <1>1, <1>2, GotoType DEF HandlerInv
    <2> QED
      BY <1>1, <1>2, <2>1, MoveStep DEF TypeOK
  <1>3. CASE Blame(u, input[u].form = "upload") /\ Answer(u, "bad request")
    BY <1>1, <1>3, AnswerStep DEF TypeOK
  <1>4. CASE /\ Blame(u, TRUE)
             /\ Goto(u, "answered")
             /\ answer' = [answer EXCEPT ![u] = [kind |-> "bad request", url |-> NoUrl]]
             /\ open' = [open EXCEPT ![u] = TRUE]
    <2>1. TypeOK'
      BY <1>1, <1>4, BlameType DEF TypeOK, Kinds, Goto, storage
    <2>2. HandlerInv(u)'
      BY <1>1, <1>4 DEF HandlerInv, TypeOK, Goto
    <2>3. \A v \in Uploads \ {u} : Same(v)
      BY <1>1, <1>4 DEF Same, TypeOK, Goto
    <2> QED
      BY <1>1, <2>1, <2>2, <2>3, HandlerStep DEF storage
  <1> QED
    BY <1>2, <1>3, <1>4

LEMMA CheckImageStep ==
    ASSUME UploadInv, NEW u \in Uploads, CheckImage(u)
    PROVE  UploadInv'
  <1> USE DEF CheckImage
  <1>1. TypeOK /\ HandlerInv(u) /\ \A put \in Sent : put.by # u
    BY NothingSent DEF Sending, UploadInv
  <1>2. CASE /\ input[u].file.format # NotAnImage
             /\ Goto(u, IF Archiving THEN "archive" ELSE "sanitize")
             /\ pos' = [pos EXCEPT ![u] = "start"]
             /\ UNCHANGED <<open, answer, faulted>>
    <2>1. input[u].file.format \in Decodable
      BY <1>1, <1>2, InputType DEF HandlerInv
    <2>2. HandlerInv(u)'
      BY <1>1, <1>2, <2>1, GotoType DEF HandlerInv, TypeOK, Archiving
    <2> QED
      BY <1>1, <1>2, <2>2, MoveStep DEF TypeOK
  <1>3. CASE /\ Blame(u, input[u].file.format # NotAnImage)
             /\ pos' = [pos EXCEPT ![u] = "end"]
             /\ Answer(u, "bad request")
    BY <1>1, <1>3, AnswerStep DEF TypeOK
  <1> QED
    BY <1>2, <1>3

LEMMA SendArchiveStep ==
    ASSUME UploadInv, NEW u \in Uploads, SendArchive(u)
    PROVE  UploadInv'
  <1> USE DEF SendArchive
  <1>1. TypeOK /\ HandlerInv(u) /\ \A put \in Sent : put.by # u
    BY NothingSent DEF Sending, UploadInv
  <1>2. PICK put : put = ArchivePut(u, TRUE)
    OBVIOUS
  <1>3. /\ wire' = wire \cup {put}
        /\ request' = [request EXCEPT ![u] = put]
        /\ UNCHANGED <<objects, stored, input, image, answer>>
    BY <1>1, <1>2 DEF HandlerInv, Send
  <1>4. put \in Put /\ put.by = u /\ ~Public(put) /\ Archiving
    BY <1>1, <1>2, ArchivePutType DEF HandlerInv
  <1>5. pc'[u] = "archiving" /\ \A v \in Uploads \ {u} : pc'[v] = pc[v]
    BY <1>1, GotoType
  <1>6. ArchivePut(u, TRUE)' = put
    BY <1>2, <1>3 DEF ArchivePut, OriginalBody
  <1>7. TypeOK'
    BY <1>1, <1>3, <1>4, GotoType DEF TypeOK
  <1>8. HandlerInv(u)'
    BY <1>1, <1>3, <1>4, <1>5, <1>6 DEF HandlerInv, TypeOK, Archiving
  <1>9. \A v \in Uploads \ {u} : Same(v)
    BY <1>1, <1>3, <1>5 DEF Same, TypeOK
  <1>10. PutInv(put)'
    BY <1>1, <1>3, <1>4, <1>5, <1>6 DEF PutInv, Public, HandlerInv, Sending, Archiving
  <1>11. \A p \in Sent' : p.by = u => p = put
    BY <1>1, <1>3
  <1> QED
    BY <1>1, <1>3, <1>4, <1>7, <1>8, <1>9, <1>10, <1>11, HandlerStep

LEMMA ArchivedStep ==
    ASSUME UploadInv, NEW u \in Uploads, Archived(u)
    PROVE  UploadInv'
  <1> USE DEF Archived
  <1>1. /\ TypeOK
        /\ HandlerInv(u)
        /\ \A put \in Sent : put.by = u => PutInv(put) /\ ~Public(put)
    BY OnlyOriginalSent DEF UploadInv
  <1>2. CASE /\ pos' = [pos EXCEPT ![u] = "start"]
             /\ Goto(u, "sanitize")
             /\ UNCHANGED <<open, answer, faulted>>
    <2>1. pc'[u] = "sanitize"
      BY <1>1, <1>2, GotoType
    <2>2. ArchivePut(u, TRUE)' = ArchivePut(u, TRUE)
      BY DEF ArchivePut, OriginalBody
    <2>3. HandlerInv(u)'
      BY <1>1, <1>2, <2>1, <2>2 DEF HandlerInv, Archiving, storage
    <2>4. ASSUME NEW put \in Sent, put.by = u PROVE PutInv(put)'
      BY <1>1, <1>2, <2>1, <2>2, <2>4 DEF PutInv, Public, Sending, Archiving
    <2> QED
      BY <1>1, <1>2, <2>3, <2>4, MoveStep DEF TypeOK
  <1>3. CASE Blame(u, TRUE) /\ Answer(u, "server error") /\ UNCHANGED pos
    BY <1>1, <1>3, AnswerStep DEF TypeOK
  <1> QED
    BY <1>2, <1>3

LEMMA SanitizeUploadStep ==
    ASSUME UploadInv, NEW u \in Uploads, SanitizeUpload(u)
    PROVE  UploadInv'
  <1>1. /\ TypeOK
        /\ HandlerInv(u)
        /\ pc[u] = "sanitize"
        /\ \A put \in Sent : put.by = u => PutInv(put) /\ ~Public(put)
    BY OnlyOriginalSent DEF UploadInv, SanitizeUpload
  <1>2. PICK faults \in SUBSET Fault :
            LET out == IF pos[u] = "start"
                       THEN SanitizeImageFrom(input[u].file, faults) ELSE Error
            IN  /\ Blame(u, faults # {})
                /\ \/ /\ out.kind = Returned
                      /\ image' = [image EXCEPT ![u] = out.picture]
                      /\ Goto(u, "publish")
                      /\ UNCHANGED <<open, answer>>
                   \/ /\ out.kind = Failed
                      /\ Answer(u, "server error")
                      /\ UNCHANGED image
                   \/ /\ out.kind = Panicked
                      /\ Answer(u, "recovered panic")
                      /\ UNCHANGED image
    BY DEF SanitizeUpload
  <1> DEFINE out == IF pos[u] = "start"
                    THEN SanitizeImageFrom(input[u].file, faults) ELSE Error
  <1>3. UNCHANGED <<input, pos, request, storage>>
    BY DEF SanitizeUpload
  <1>4. CASE /\ out.kind = Returned
             /\ image' = [image EXCEPT ![u] = out.picture]
             /\ Goto(u, "publish")
             /\ UNCHANGED <<open, answer>>
    <2>1. input[u].file \in File
      BY <1>1, InputType DEF HandlerInv
    <2>2. out.picture \in Picture /\ ~out.picture.metadata
      BY <1>4, <2>1, SanitizeStrips DEF Error, Panic, Returned, Failed, Panicked
    <2> HIDE DEF out
    <2>3. pc'[u] = "publish"
      BY <1>1, <1>4, GotoType
    <2>4. ArchivePut(u, TRUE)' = ArchivePut(u, TRUE)
      BY <1>3 DEF ArchivePut, OriginalBody
    <2>5. /\ image' \in [Uploads -> Picture]
          /\ ~image'[u].metadata
          /\ \A v \in Uploads \ {u} : image'[v] = image[v]
      BY <1>1, <1>4, <2>2 DEF TypeOK
    <2>6. HandlerInv(u)'
      BY <1>1, <1>3, <1>4, <2>3, <2>4, <2>5 DEF HandlerInv, Archiving, storage
    <2>7. ASSUME NEW put \in Sent, put.by = u PROVE PutInv(put)'
      BY <1>1, <1>3, <1>4, <2>3, <2>4, <2>7 DEF PutInv, Public, Sending, Archiving
    <2>8. faulted' \in [Uploads -> BOOLEAN]
      BY <1>1, <1>2, BlameType
    <2> QED
      BY <1>1, <1>3, <1>4, <2>5, <2>6, <2>7, <2>8, MoveStep DEF TypeOK
  <1>5. ASSUME NEW kind \in {"server error", "recovered panic"}, Answer(u, kind),
               UNCHANGED image
        PROVE  UploadInv'
    BY <1>1, <1>2, <1>3, <1>5, AnswerStep DEF TypeOK
  <1> QED
    BY <1>2, <1>4, <1>5

LEMMA SendPublicStep ==
    ASSUME UploadInv, NEW u \in Uploads, SendPublic(u)
    PROVE  UploadInv'
  <1> USE DEF SendPublic
  <1>1. /\ TypeOK
        /\ HandlerInv(u)
        /\ \A p \in Sent : p.by = u => PutInv(p) /\ ~Public(p)
    BY OnlyOriginalSent DEF UploadInv
  <1>2. PICK name \in RandomNames :
            /\ Send(PublicPut(u, name))
            /\ request' = [request EXCEPT ![u] = PublicPut(u, name)]
    OBVIOUS
  <1>3. PICK put : put = PublicPut(u, name)
    OBVIOUS
  <1>4. /\ wire' = wire \cup {put}
        /\ request' = [request EXCEPT ![u] = put]
        /\ UNCHANGED <<objects, stored, input, image, answer, pos>>
    BY <1>2, <1>3 DEF Send
  <1>5. put \in Put /\ put.by = u /\ Public(put)
    BY <1>1, <1>3, PublicPutType DEF HandlerInv, TypeOK
  <1>6. pc'[u] = "publishing" /\ \A v \in Uploads \ {u} : pc'[v] = pc[v]
    BY <1>1, GotoType
  <1>7. PublicPut(u, name)' = put /\ ArchivePut(u, TRUE)' = ArchivePut(u, TRUE)
    BY <1>3, <1>4 DEF PublicPut, ArchivePut, OriginalBody
  <1>8. TypeOK'
    BY <1>1, <1>4, <1>5, GotoType DEF TypeOK
  <1>9. request'[u] = put
    BY <1>1, <1>4 DEF TypeOK
  <1>10. HandlerInv(u)'
    BY <1>1, <1>4, <1>5, <1>6, <1>7, <1>9 DEF HandlerInv, Archiving
  <1>11. \A v \in Uploads \ {u} : Same(v)
    BY <1>1, <1>4, <1>6 DEF Same, TypeOK
  <1>12. PutInv(put)'
    BY <1>1, <1>4, <1>5, <1>6, <1>7, <1>9 DEF PutInv, Public, HandlerInv, Sending, Archiving
  <1>13. ASSUME NEW p \in Sent, p.by = u PROVE PutInv(p)'
    BY <1>1, <1>4, <1>6, <1>7, <1>13 DEF PutInv, Public, Sending, Archiving
  <1>14. \A p \in Sent' : p \in Sent \/ p = put
    BY <1>4
  <1>15. put \notin stored
    BY <1>1, <1>5
  <1> QED
    BY <1>4, <1>5, <1>8, <1>10, <1>11, <1>12, <1>13, <1>14, <1>15, HandlerStep

LEMMA PublishedStep ==
    ASSUME UploadInv, NEW u \in Uploads, Published(u)
    PROVE  UploadInv'
  <1> USE DEF Published, Goto
  <1>1. TypeOK /\ HandlerInv(u) /\ \A put \in Sent : PutInv(put)
    BY DEF UploadInv
  <1>2. /\ request[u] \in Put
        /\ request[u].by = u
        /\ Public(request[u])
        /\ Address(request[u]) \in Buckets \X Keys
    <2>1. request[u] \in Put
      BY <1>1 DEF TypeOK
    <2>2. PICK name \in RandomNames : request[u] = PublicPut(u, name)
      BY <1>1 DEF HandlerInv
    <2>3. Public(request[u]) /\ request[u].by = u
      BY <2>2 DEF Public, PublicPut
    <2> QED
      BY <2>1, <2>3 DEF Put, Address
  <1>3. /\ pc'[u] = "answered"
        /\ answer'[u] = [kind |-> "ok", url |-> Address(request[u])]
        /\ \A v \in Uploads \ {u} : pc'[v] = pc[v] /\ answer'[v] = answer[v]
    BY <1>1 DEF TypeOK
  <1>4. [kind |-> "ok", url |-> Address(request[u])]
            \in [kind : Kinds, url : {NoUrl} \cup (Buckets \X Keys)]
    BY <1>2 DEF Kinds
  <1>5. TypeOK'
    <2>1. answer' \in [Uploads -> [kind : Kinds, url : {NoUrl} \cup (Buckets \X Keys)]]
      BY <1>1, <1>4 DEF TypeOK
    <2> QED
      BY <1>1, <2>1 DEF TypeOK, storage
  <1>6. HandlerInv(u)'
    <2>1. Public(request[u])' /\ Address(request[u])' = Address(request[u])
      BY <1>2 DEF Public, Address
    <2>2. /\ answer'[u].kind = "ok"
          /\ answer'[u].url = Address(request[u])
      BY <1>3
    <2>3. request'[u] \in stored' /\ request'[u].by = u /\ input'[u] \in Inputs
      BY <1>1, <1>2 DEF HandlerInv, storage
    <2> QED
      BY <1>3, <2>1, <2>2, <2>3 DEF HandlerInv
  <1>7. \A v \in Uploads \ {u} : Same(v)
    BY <1>3 DEF Same
  <1>8. ASSUME NEW put \in Sent', put.by = u PROVE PutInv(put)'
    <2>1. put \in Sent /\ UNCHANGED <<input, image, request, stored>>
      BY DEF storage
    <2>2. PutInv(put)
      BY <1>1, <2>1
    <2>3. answer'[u].kind = "ok"
      BY <1>3
    <2> QED
      BY <1>3, <1>8, <2>1, <2>2, <2>3, PutFrame
  <1> QED
    BY <1>5, <1>6, <1>7, <1>8, HandlerStep DEF storage

LEMMA PutFailsStep ==
    ASSUME UploadInv, NEW u \in Uploads, PutFails(u)
    PROVE  UploadInv'
  <1>1. TypeOK /\ HandlerInv(u) /\ pc[u] \in {"archiving", "publishing"}
    BY DEF UploadInv, PutFails, AwaitsS3
  <1>2. request[u].whole \in BOOLEAN
    <2>1. request[u] \in Put
      <3>1. CASE pc[u] = "archiving"
        BY <1>1, <3>1, ArchivePutType DEF HandlerInv
      <3>2. CASE pc[u] = "publishing"
        BY <1>1, <3>2, PublicPutType DEF HandlerInv, TypeOK
      <3> QED
        BY <1>1, <3>1, <3>2
    <2> QED
      BY <2>1 DEF Put
  <1> QED
    BY <1>1, <1>2, AnswerStep DEF PutFails, TypeOK

LEMMA S3StoresStep ==
    ASSUME UploadInv, S3Stores
    PROVE  UploadInv'
  <1>1. PICK put \in wire : Store(put)
    BY DEF S3Stores
  <1>2. /\ wire' = wire \ {put}
        /\ objects' = {o \in objects : Address(o) # Address(put)} \cup {put}
        /\ stored' = stored \cup {put}
        /\ UNCHANGED local
    BY <1>1 DEF Store, S3Stores
  <1>3. TypeOK'
    BY <1>2 DEF UploadInv, TypeOK, local
  <1>4. \A v \in Uploads : Same(v)
    BY <1>2 DEF Same, local
  <1>5. ASSUME NEW v \in Uploads PROVE HandlerInv(v)'
    BY <1>2, <1>4, HandlerFrame DEF UploadInv
  <1>6. ASSUME NEW p \in Sent' PROVE PutInv(p)'
    <2>1. p \in Sent
      BY <1>2
    <2> QED
      BY <1>2, <1>4, <2>1, PutFrame DEF UploadInv, PutInv, Same
  <1>7. StorageInv'
    <2>1. wire' \cap stored' = {}
      BY <1>2 DEF UploadInv, StorageInv
    <2>2. ASSUME NEW p \in stored'
          PROVE  \E o \in objects' : Address(o) = Address(p)
      <3>1. CASE Address(p) = Address(put)
        BY <1>2, <3>1
      <3>2. CASE Address(p) # Address(put)
        <4>1. PICK o \in objects : Address(o) = Address(p)
          BY <1>2, <3>2 DEF UploadInv, StorageInv
        <4> QED
          BY <1>2, <3>2, <4>1
      <3> QED
        BY <3>1, <3>2
    <2> QED
      BY <2>1, <2>2 DEF StorageInv, Address
  <1> QED
    BY <1>3, <1>5, <1>6, <1>7 DEF UploadInv

LEMMA S3DropsStep ==
    ASSUME UploadInv, S3Drops
    PROVE  UploadInv'
  <1>1. wire' \subseteq wire /\ UNCHANGED <<objects, stored, local>>
    BY DEF S3Drops, Drop
  <1>2. \A v \in Uploads : Same(v)
    BY <1>1 DEF Same, local
  <1>3. TypeOK'
    BY <1>1 DEF UploadInv, TypeOK, local
  <1>4. ASSUME NEW v \in Uploads PROVE HandlerInv(v)'
    BY <1>1, <1>2, HandlerFrame DEF UploadInv
  <1>5. ASSUME NEW p \in Sent' PROVE PutInv(p)'
    <2>1. PutInv(p) /\ p.by \in Uploads /\ answer[p.by].kind # "bad request"
      BY <1>1 DEF UploadInv, PutInv
    <2> QED
      BY <1>1, <1>2, <2>1, PutFrame DEF Same
  <1>6. StorageInv'
    BY <1>1 DEF UploadInv, StorageInv, Address
  <1> QED
    BY <1>3, <1>4, <1>5, <1>6 DEF UploadInv

LEMMA KillStep ==
    ASSUME UploadInv, Kill
    PROVE  UploadInv'
  <1>1. /\ UNCHANGED <<input, pos, image, request, answer, faulted, storage>>
        /\ pc' = [v \in Uploads |-> IF Active(v) THEN "killed" ELSE pc[v]]
        /\ open' = [v \in Uploads |-> FALSE]
    BY DEF Kill
  <1>2. \A v \in Uploads : pc'[v] = pc[v] \/ (Active(v) /\ pc'[v] = "killed")
    BY <1>1 DEF Active
  <1>3. TypeOK'
    BY <1>1 DEF UploadInv, TypeOK, Active, storage
  <1>4. ASSUME NEW v \in Uploads PROVE HandlerInv(v)'
    <2>1. CASE pc'[v] = pc[v]
      BY <1>1, <2>1, HandlerFrame DEF Same, UploadInv, storage
    <2>2. CASE Active(v) /\ pc'[v] = "killed"
      BY <1>1, <2>2 DEF UploadInv, HandlerInv, Active
    <2> QED
      BY <1>2, <2>1, <2>2
  <1>5. ASSUME NEW p \in Sent' PROVE PutInv(p)'
    <2>1. PutInv(p) /\ p.by \in Uploads
      BY <1>1 DEF UploadInv, PutInv, storage
    <2> QED
      BY <1>1, <1>2, <2>1, PutFrame DEF PutInv, storage
  <1>6. StorageInv'
    BY <1>1 DEF UploadInv, StorageInv, Address, storage
  <1> QED
    BY <1>3, <1>4, <1>5, <1>6 DEF UploadInv

LEMMA UploadNext == UploadInv /\ [Next]_vars => UploadInv'
  <1> SUFFICES ASSUME UploadInv, [Next]_vars PROVE UploadInv'
    OBVIOUS
  <1>1. ASSUME NEW u \in Uploads, Arrive(u) PROVE UploadInv'
    BY <1>1, ArriveStep
  <1>2. ASSUME NEW u \in Uploads, ParseForm(u) \/ Local(u) PROVE UploadInv'
    BY <1>2, ParseFormStep, ExtractFileStep, CheckImageStep, SendArchiveStep,
       SanitizeUploadStep, SendPublicStep DEF Local
  <1>3. ASSUME NEW u \in Uploads, Reply(u) PROVE UploadInv'
    BY <1>3, ArchivedStep, PublishedStep, PutFailsStep DEF Reply
  <1>4. CASE UNCHANGED vars
    <2>1. UNCHANGED <<pc, input, pos, image, request, answer>> /\ UNCHANGED storage
      BY <1>4 DEF vars, local
    <2>2. \A v \in Uploads : Same(v)
      BY <2>1 DEF Same
    <2>3. ASSUME NEW v \in Uploads PROVE HandlerInv(v)'
      BY <2>1, <2>2, HandlerFrame DEF UploadInv, storage
    <2>4. ASSUME NEW put \in Sent' PROVE PutInv(put)'
      <3>1. PutInv(put) /\ put.by \in Uploads /\ answer[put.by].kind # "bad request"
        BY <2>1 DEF UploadInv, PutInv, storage
      <3> QED
        BY <2>1, <3>1, PutFrame DEF storage
    <2>5. TypeOK' /\ StorageInv'
      BY <1>4 DEF UploadInv, TypeOK, StorageInv, Address, vars, local, storage
    <2> QED
      BY <2>3, <2>4, <2>5 DEF UploadInv
  <1> QED
    BY <1>1, <1>2, <1>3, <1>4, S3StoresStep, S3DropsStep, KillStep DEF Next

\* The inductive invariant holds of the handlers and S3, for any number of
\* uploads, any inputs and any buckets.
THEOREM UploadInvariant == Spec => []UploadInv
  BY UploadInit, UploadNext, PTL DEF Spec

-----------------------------------------------------------------------------
(* What the invariant says.                                                   *)

\* Every variable keeps its type.
THEOREM TypeCorrect == Spec => []TypeOK
  <1>1. UploadInv => TypeOK
    BY DEF UploadInv
  <1> QED
    BY <1>1, UploadInvariant, PTL

\* What is public, or on its way there, is whole, sanitized, and labelled with
\* its own format.
THEOREM PublicIsClean == Spec => []CleanPublic
  <1>1. UploadInv => CleanPublic
    <2> SUFFICES ASSUME UploadInv, NEW put \in Sent, Public(put)
                 PROVE  /\ ~put.body.picture.metadata
                        /\ put.whole
                        /\ put.type = put.body.format
                        /\ put.key[2] = put.body.format
      BY DEF CleanPublic
    <2>1. ~image[put.by].metadata
      BY DEF UploadInv, PutInv
    <2>2. PICK name \in RandomNames : put = PublicPut(put.by, name)
      BY DEF UploadInv, PutInv
    <2> QED
      BY <2>1, <2>2 DEF PublicPut
  <1> QED
    BY <1>1, UploadInvariant, PTL

\* With an archive, S3 holds the whole original before anything of the upload is
\* public or on its way there.
THEOREM OriginalIsArchivedFirst == Spec => []ArchivedFirst
  <1>1. UploadInv => ArchivedFirst
    <2> SUFFICES ASSUME UploadInv, Archiving, NEW put \in Sent, Public(put)
                 PROVE  \E original \in stored :
                            /\ original.by = put.by
                            /\ ~Public(original)
                            /\ original.bucket = ArchiveBucket
                            /\ original.key = input[put.by].filename
                            /\ original.body = OriginalBody(put.by)
                            /\ original.whole
      BY DEF ArchivedFirst
    <2>1. ArchivePut(put.by, TRUE) \in stored
      BY DEF UploadInv, PutInv
    <2>2. /\ ArchivePut(put.by, TRUE).by = put.by
          /\ ~Public(ArchivePut(put.by, TRUE))
          /\ ArchivePut(put.by, TRUE).bucket = ArchiveBucket
          /\ ArchivePut(put.by, TRUE).key = input[put.by].filename
          /\ ArchivePut(put.by, TRUE).body = OriginalBody(put.by)
          /\ ArchivePut(put.by, TRUE).whole
      BY DEF ArchivePut, Public
    <2> QED
      BY <2>1, <2>2
  <1> QED
    BY <1>1, UploadInvariant, PTL

\* Nothing of a rejected request is stored, or will be.
THEOREM RejectionLeavesNoTrace == Spec => []RejectedLeavesNoTrace
  <1>1. UploadInv => RejectedLeavesNoTrace
    BY DEF UploadInv, PutInv, RejectedLeavesNoTrace
  <1> QED
    BY <1>1, UploadInvariant, PTL

\* With two buckets, an answered URL serves the sanitized image of its upload for
\* good, unless another upload drew the same name.
THEOREM UrlsServe ==
    ASSUME ArchiveBucket # PublicBucket
    PROVE  Spec => []UrlServesTheUpload
  <1>1. UploadInv => UrlServesTheUpload
    <2> SUFFICES ASSUME UploadInv, NEW u \in Uploads, answer[u].kind = "ok", OwnName(u)
                 PROVE  \E object \in objects :
                            /\ Address(object) = answer[u].url
                            /\ object.by = u
                            /\ Public(object)
                            /\ object.body.format = input[u].file.format
      BY DEF UrlServesTheUpload
    <2>1. /\ request[u] \in stored
          /\ Public(request[u])
          /\ answer[u].url = Address(request[u])
      BY DEF UploadInv, HandlerInv
    <2>2. request[u].bucket = PublicBucket
      <3>1. PutInv(request[u])
        BY <2>1 DEF UploadInv
      <3>2. PICK v, name : request[u] = PublicPut(v, name)
        BY <2>1, <3>1 DEF PutInv
      <3> QED
        BY <3>2 DEF PublicPut
    <2>3. PICK object \in objects : Address(object) = answer[u].url
      BY <2>1 DEF UploadInv, StorageInv
    <2>4. object \in Sent /\ PutInv(object)
      BY DEF UploadInv, TypeOK
    <2>5. Public(object)
      <3>1. object.bucket = PublicBucket
        BY <2>1, <2>2, <2>3 DEF Address
      <3>2. ArchivePut(object.by, TRUE).bucket = ArchiveBucket
        BY DEF ArchivePut
      <3> QED
        BY <2>4, <3>1, <3>2 DEF PutInv
    <2>6. object.by = u
      BY <2>3, <2>4, <2>5 DEF OwnName
    <2>7. object.body.format = input[u].file.format
      <3>1. PICK name : object = PublicPut(u, name)
        BY <2>4, <2>5, <2>6 DEF PutInv
      <3> QED
        BY <3>1 DEF PublicPut
    <2> QED
      BY <2>3, <2>5, <2>6, <2>7
  <1> QED
    BY <1>1, UploadInvariant, PTL

-----------------------------------------------------------------------------
(* What a handler has come to: the invariant behind FilesAreClosed,             *)
(* FaultFreeUploadSucceeds and PublicUpright.  It concerns one handler, so only *)
(* its own steps and Kill can disturb it.                                      *)

OpenInv(u) ==
    /\ pc[u] \in {"idle", "parse", "extract"} => ~open[u]
    /\ pc[u] \in Over /\ open[u] =>
           faulted[u] /\ answer[u].kind = "bad request" /\ input[u].form = "upload"

CourseInv(u) ==
    /\ pc[u] = "sanitize" => pos[u] = "start"
    /\ pc[u] = "idle" => image[u].pose = Upright
    /\ pc[u] # "idle" /\ ~faulted[u] =>
           /\ input[u].file.exif = "usable" => image[u].pose = Upright
           /\ pc[u] = "answered" /\ input[u].form = "upload" /\ Publishable(input[u].file)
                  => answer[u].kind = "ok"

\* The step leaves all of the handler of v alone.
Untouched(v) == Same(v) /\ open'[v] = open[v] /\ faulted'[v] = faulted[v]

LEMMA CourseFrame ==
    ASSUME NEW v \in Uploads, OpenInv(v), CourseInv(v), Untouched(v)
    PROVE  OpenInv(v)' /\ CourseInv(v)'
  BY DEF OpenInv, CourseInv, Untouched, Same

\* A handler that gives up is unfaulted only if the form or the file was no good.
LEMMA AnswerCourse ==
    ASSUME TypeOK, NEW u \in Uploads, CourseInv(u), pc[u] \notin {"idle", "answered"},
           NEW kind, NEW fault \in BOOLEAN,
           Answer(u, kind), Blame(u, fault), UNCHANGED <<input, image>>,
           ~faulted[u] /\ input[u].form = "upload" /\ Publishable(input[u].file) => fault
    PROVE  OpenInv(u)' /\ CourseInv(u)'
  <1>1. pc'[u] = "answered" /\ ~open'[u] /\ (faulted'[u] <=> faulted[u] \/ fault)
    <2>1. pc'[u] = "answered"
      BY DEF Answer, Goto, TypeOK
    <2>2. ~open'[u]
      BY DEF Answer, TypeOK
    <2>3. faulted'[u] <=> faulted[u] \/ fault
      BY Zenon DEF Blame, TypeOK
    <2> QED
      BY <2>1, <2>2, <2>3
  <1>2. OpenInv(u)'
    BY <1>1 DEF OpenInv
  <1> QED
    BY <1>1, <1>2 DEF CourseInv

\* One that goes on without a new image.
LEMMA GotoCourse ==
    ASSUME TypeOK, NEW u \in Uploads, CourseInv(u), pc[u] # "idle",
           NEW step \in Steps \ {"parse", "extract"}, Goto(u, step),
           UNCHANGED <<input, image, faulted>>,
           step = "sanitize" => pos'[u] = "start"
    PROVE  OpenInv(u)' /\ CourseInv(u)'
  <1>1. pc'[u] = step
    BY DEF Goto, TypeOK
  <1> QED
    BY <1>1 DEF OpenInv, CourseInv

\* A step of a handler keeps its own course and touches no other.
LEMMA CourseStep ==
    ASSUME UploadInv, NEW u \in Uploads, OpenInv(u), CourseInv(u),
           Arrive(u) \/ ParseForm(u) \/ Local(u) \/ Reply(u)
    PROVE  OpenInv(u)' /\ CourseInv(u)'
  <1>1. TypeOK /\ HandlerInv(u)
    BY DEF UploadInv
  <1>2. CASE Arrive(u)
    <2>1. pc[u] = "idle" /\ pc'[u] = "parse" /\ UNCHANGED <<open, image>>
      BY <1>1, <1>2 DEF Arrive, Goto, TypeOK
    <2> QED
      BY <2>1 DEF OpenInv, CourseInv
  <1>3. CASE ParseForm(u)
    <2>1. pc[u] = "parse" /\ UNCHANGED <<input, pos, image>>
      BY <1>3 DEF ParseForm
    <2>2. CASE Goto(u, "extract") /\ UNCHANGED <<open, answer, faulted>>
      <3>1. pc'[u] = "extract"
        BY <1>1, <2>2 DEF Goto, TypeOK
      <3> QED
        BY <2>1, <2>2, <3>1 DEF OpenInv, CourseInv
    <2>3. CASE Blame(u, input[u].form # "malformed") /\ Answer(u, "bad request")
      BY <1>1, <2>1, <2>3, AnswerCourse
    <2> QED
      BY <1>3, <2>2, <2>3 DEF ParseForm
  <1>4. CASE ExtractFile(u)
    <2>1. pc[u] = "extract" /\ UNCHANGED <<input, pos, image>>
      BY <1>4 DEF ExtractFile
    <2>2. CASE Goto(u, "check") /\ UNCHANGED <<answer, faulted>>
      BY <1>1, <2>1, <2>2, GotoCourse
    <2>3. CASE Blame(u, input[u].form = "upload") /\ Answer(u, "bad request")
      BY <1>1, <2>1, <2>3, AnswerCourse
    <2>4. CASE /\ input[u].form = "upload"
               /\ Blame(u, TRUE)
               /\ Goto(u, "answered")
               /\ answer' = [answer EXCEPT ![u] = [kind |-> "bad request", url |-> NoUrl]]
      <3>1. pc'[u] = "answered" /\ answer'[u].kind = "bad request"
        BY <1>1, <2>4 DEF Goto, TypeOK
      <3>2. faulted'[u]
        BY <1>1, <2>4, Zenon DEF Blame, TypeOK
      <3> QED
        BY <2>1, <2>4, <3>1, <3>2 DEF OpenInv, CourseInv
    <2> QED
      BY <1>4, <2>2, <2>3, <2>4 DEF ExtractFile
  <1>5. CASE CheckImage(u)
    <2>1. pc[u] = "check" /\ UNCHANGED <<input, image>>
      BY <1>5 DEF CheckImage
    <2>2. CASE /\ Goto(u, IF Archiving THEN "archive" ELSE "sanitize")
               /\ pos' = [pos EXCEPT ![u] = "start"]
               /\ UNCHANGED <<open, answer, faulted>>
      <3>1. pos'[u] = "start"
        BY <1>1, <2>2 DEF TypeOK
      <3>2. CASE Archiving
        BY <1>1, <2>1, <2>2, <3>1, <3>2, GotoCourse
      <3>3. CASE ~Archiving
        BY <1>1, <2>1, <2>2, <3>1, <3>3, GotoCourse
      <3> QED
        BY <3>2, <3>3
    <2>3. CASE Blame(u, input[u].file.format # NotAnImage) /\ Answer(u, "bad request")
      <3>1. Publishable(input[u].file) => input[u].file.format # NotAnImage
        BY DEF Publishable, Encodable, NotAnImage
      <3> QED
        BY <1>1, <2>1, <2>3, <3>1, AnswerCourse
    <2> QED
      BY <1>5, <2>2, <2>3 DEF CheckImage
  <1>6. CASE SendArchive(u)
    BY <1>1, <1>6, GotoCourse DEF SendArchive
  <1>7. CASE SanitizeUpload(u)
    <2>1. /\ pc[u] = "sanitize" /\ pos[u] = "start" /\ input[u] \in Inputs
          /\ UNCHANGED <<input, pos>>
      BY <1>1, <1>7 DEF SanitizeUpload, CourseInv, HandlerInv
    <2>2. PICK faults \in SUBSET Fault :
              LET out == SanitizeImageFrom(input[u].file, faults)
              IN  /\ Blame(u, faults # {})
                  /\ \/ /\ out.kind = Returned
                        /\ image' = [image EXCEPT ![u] = out.picture]
                        /\ Goto(u, "publish")
                        /\ UNCHANGED <<open, answer>>
                     \/ out.kind # Returned /\ Answer(u, "server error") /\ UNCHANGED image
                     \/ out.kind # Returned /\ Answer(u, "recovered panic") /\ UNCHANGED image
      BY <1>7, <2>1 DEF SanitizeUpload, Returned, Failed, Panicked
    <2> DEFINE out == SanitizeImageFrom(input[u].file, faults)
    <2>3. input[u].file \in File
      BY <2>1, InputType
    <2>4. CASE /\ out.kind = Returned
               /\ image' = [image EXCEPT ![u] = out.picture]
               /\ Goto(u, "publish")
      <3>1. pc'[u] = "publish" /\ image'[u] = out.picture
        BY <1>1, <2>4 DEF Goto, TypeOK
      <3>2. faulted'[u] <=> faulted[u] \/ faults # {}
        BY <1>1, <2>2, Zenon DEF Blame, TypeOK
      <3>3. ~faulted'[u] /\ input[u].file.exif = "usable" => image'[u].pose = Upright
        BY <2>3, <2>4, <3>1, <3>2, SanitizeUprights
      <3> HIDE DEF out
      <3> QED
        BY <2>1, <3>1, <3>3 DEF OpenInv, CourseInv
    <2>5. ASSUME out.kind # Returned, UNCHANGED image, NEW kind, Answer(u, kind)
          PROVE  OpenInv(u)' /\ CourseInv(u)'
      <3>1. Publishable(input[u].file) => faults # {}
        BY <2>3, <2>5, SanitizePublishes
      <3> HIDE DEF out
      <3> QED
        BY <1>1, <2>1, <2>2, <2>5, <3>1, AnswerCourse
    <2> QED
      BY <2>2, <2>4, <2>5
  <1>8. CASE SendPublic(u)
    BY <1>1, <1>8, GotoCourse DEF SendPublic
  <1>9. CASE Archived(u)
    <2>1. pc[u] = "archiving" /\ UNCHANGED <<input, image>>
      BY <1>9 DEF Archived
    <2>2. CASE /\ pos' = [pos EXCEPT ![u] = "start"]
               /\ Goto(u, "sanitize")
               /\ UNCHANGED <<open, answer, faulted>>
      <3>1. pos'[u] = "start"
        BY <1>1, <2>2 DEF TypeOK
      <3> QED
        BY <1>1, <2>1, <2>2, <3>1, GotoCourse
    <2>3. CASE Blame(u, TRUE) /\ Answer(u, "server error")
      BY <1>1, <2>1, <2>3, AnswerCourse
    <2> QED
      BY <1>9, <2>2, <2>3 DEF Archived
  <1>10. CASE Published(u)
    <2>1. /\ pc[u] = "publishing" /\ UNCHANGED <<input, image, faulted>>
          /\ pc'[u] = "answered" /\ answer'[u].kind = "ok" /\ ~open'[u]
      BY <1>1, <1>10 DEF Published, Goto, TypeOK
    <2> QED
      BY <2>1 DEF OpenInv, CourseInv
  <1>11. CASE PutFails(u)
    <2>1. request[u].whole
      <3>1. CASE pc[u] = "archiving"
        <4>1. request[u] = ArchivePut(u, TRUE)
          BY <1>1, <3>1 DEF HandlerInv
        <4> QED
          BY <4>1 DEF ArchivePut
      <3>2. CASE pc[u] = "publishing"
        <4>1. PICK name \in RandomNames : request[u] = PublicPut(u, name)
          BY <1>1, <3>2 DEF HandlerInv
        <4> QED
          BY <4>1 DEF PublicPut
      <3> QED
        BY <1>11, <3>1, <3>2 DEF PutFails, AwaitsS3
    <2>2. pc[u] \in {"archiving", "publishing"} /\ UNCHANGED <<input, image>>
      BY <1>11 DEF PutFails, AwaitsS3
    <2> QED
      BY <1>1, <1>11, <2>1, <2>2, AnswerCourse DEF PutFails
  <1> QED
    BY <1>2, <1>3, <1>4, <1>5, <1>6, <1>7, <1>8, <1>9, <1>10, <1>11 DEF Local, Reply

\* One handler at a time moves.
LEMMA OthersUntouched ==
    ASSUME TypeOK, NEW u \in Uploads, Arrive(u) \/ ParseForm(u) \/ Local(u) \/ Reply(u),
           NEW v \in Uploads \ {u}
    PROVE  Untouched(v)
  <1> USE DEF Goto, TypeOK, Untouched, Same
  <1>1. \A fault, kind : Blame(u, fault) => faulted'[v] = faulted[v]
    BY DEF Blame
  <1>2. \A kind : Answer(u, kind) =>
            pc'[v] = pc[v] /\ answer'[v] = answer[v] /\ open'[v] = open[v]
    BY DEF Answer
  <1>3. CASE Arrive(u)
    BY <1>3 DEF Arrive
  <1>4. CASE ParseForm(u)
    BY <1>1, <1>2, <1>4 DEF ParseForm
  <1>5. CASE ExtractFile(u)
    BY <1>1, <1>2, <1>5 DEF ExtractFile
  <1>6. CASE CheckImage(u)
    BY <1>1, <1>2, <1>6 DEF CheckImage
  <1>7. CASE SendArchive(u)
    BY <1>7 DEF SendArchive
  <1>8. CASE SanitizeUpload(u)
    BY <1>1, <1>2, <1>8 DEF SanitizeUpload
  <1>9. CASE SendPublic(u)
    BY <1>9 DEF SendPublic
  <1>10. CASE Archived(u)
    BY <1>1, <1>2, <1>10 DEF Archived
  <1>11. CASE Published(u)
    BY <1>11 DEF Published
  <1>12. CASE PutFails(u)
    BY <1>1, <1>2, <1>12 DEF PutFails
  <1> QED
    BY <1>3, <1>4, <1>5, <1>6, <1>7, <1>8, <1>9, <1>10, <1>11, <1>12 DEF Local, Reply

Courses == \A u \in Uploads : OpenInv(u) /\ CourseInv(u)

LEMMA CoursesInit == Init => Courses
  BY DEF Init, Courses, OpenInv, CourseInv, NoPicture

LEMMA CoursesNext == UploadInv /\ Courses /\ [Next]_vars => Courses'
  <1> SUFFICES ASSUME UploadInv, Courses, [Next]_vars, NEW v \in Uploads
               PROVE  OpenInv(v)' /\ CourseInv(v)'
    BY DEF Courses
  <1>1. TypeOK /\ OpenInv(v) /\ CourseInv(v)
    BY DEF UploadInv, Courses
  <1>2. ASSUME NEW u \in Uploads, Arrive(u) \/ ParseForm(u) \/ Local(u) \/ Reply(u)
        PROVE  OpenInv(v)' /\ CourseInv(v)'
    <2>1. CASE u = v
      BY <1>1, <1>2, <2>1, CourseStep
    <2>2. CASE u # v
      BY <1>1, <1>2, <2>2, OthersUntouched, CourseFrame
    <2> QED
      BY <2>1, <2>2
  <1>3. CASE UNCHANGED local
    BY <1>1, <1>3, CourseFrame DEF local, Untouched, Same
  <1>4. CASE Kill
    <2>1. /\ pc'[v] = pc[v] \/ (pc'[v] = "killed" /\ pc[v] # "idle")
          /\ ~open'[v]
          /\ UNCHANGED <<input, pos, image, answer, faulted>>
      BY <1>1, <1>4 DEF Kill, Active
    <2> QED
      BY <1>1, <2>1 DEF OpenInv, CourseInv
  <1> QED
    BY <1>2, <1>3, <1>4 DEF Next, S3Stores, S3Drops, vars

THEOREM CoursesInvariant == Spec => []Courses
  BY CoursesInit, CoursesNext, UploadInvariant, PTL DEF Spec

\* Whatever path a request took, it leaves no file open but the one whose size could
\* not be found.
THEOREM FilesClosed == Spec => []FilesAreClosed
  <1>1. Courses => FilesAreClosed
    BY DEF Courses, OpenInv, FilesAreClosed
  <1> QED
    BY <1>1, CoursesInvariant, PTL

\* A good image is published unless something failed underneath its handler.
THEOREM GoodUploadSucceeds == Spec => []FaultFreeUploadSucceeds
  <1>1. Courses => FaultFreeUploadSucceeds
    BY DEF Courses, CourseInv, FaultFreeUploadSucceeds
  <1> QED
    BY <1>1, CoursesInvariant, PTL

\* What is made public with readable EXIF data is upright, for each orientation.
THEOREM PublicIsUpright == Spec => []PublicUpright
  <1>1. UploadInv /\ Courses => PublicUpright
    <2> SUFFICES ASSUME UploadInv, Courses, NEW put \in Sent, Public(put),
                        ~faulted[put.by], input[put.by].file.exif = "usable"
                 PROVE  put.body.picture.pose = Upright
      BY DEF PublicUpright
    <2>1. /\ put.by \in Uploads
          /\ pc[put.by] # "idle"
          /\ \E name \in RandomNames : put = PublicPut(put.by, name)
      BY DEF UploadInv, PutInv
    <2>2. put.body.picture = image[put.by]
      BY <2>1 DEF PublicPut
    <2>3. image[put.by].pose = Upright
      BY <2>1 DEF Courses, CourseInv
    <2> QED
      BY <2>2, <2>3
  <1> QED
    BY <1>1, UploadInvariant, CoursesInvariant, PTL

-----------------------------------------------------------------------------
(* Upload implements UploadService: every step of a handler, of S3 or of the    *)
(* dying process is a step of the service, or one it does not see.             *)

Kept == By(stored \ PublicPuts(stored))
Shown == By(PublicPuts(stored))
Told == [u \in Uploads |-> Verdict(answer[u].kind)]

LEMMA VerdictOf ==
    /\ Verdict("none") = "none"
    /\ Verdict("ok") = "ok"
    /\ Verdict("bad request") = "rejected"
    /\ Verdict("server error") = "failed"
    /\ Verdict("recovered panic") = "failed"
  BY DEF Verdict

LEMMA ServiceInit == Init => Service!Init
  <1> SUFFICES ASSUME Init PROVE Service!Init
    OBVIOUS
  <1>1. Kept = {} /\ Shown = {}
    BY DEF Init, StorageInit, Kept, Shown, By, PublicPuts
  <1>2. Told = [u \in Uploads |-> "none"]
    BY VerdictOf DEF Init, Unanswered, Told
  <1> QED
    BY <1>1, <1>2 DEF Service!Init, Kept, Shown, Told

\* A step that neither stores nor answers is not seen.
LEMMA Unseen ==
    ASSUME stored' = stored, answer' = answer
    PROVE  UNCHANGED Service!service
  BY DEF Service!service, By, PublicPuts, Public

\* Whom S3 holds something of.
LEMMA KeptShown ==
    ASSUME NEW u
    PROVE  /\ u \in Kept <=> \E put \in stored : put.by = u /\ ~Public(put)
           /\ u \in Shown <=> \E put \in stored : put.by = u /\ Public(put)
  BY DEF Kept, Shown, By, PublicPuts

-----------------------------------------------------------------------------
(* S3 stores a PUT: the service keeps or shows its upload.                     *)

LEMMA StoreIsSeen ==
    ASSUME UploadInv, S3Stores
    PROVE  Service!Next
  <1>1. PICK put \in wire : Store(put)
    BY DEF S3Stores
  <1>2. PICK u : u = put.by
    OBVIOUS
  <1>3. /\ put \notin stored
        /\ stored' = stored \cup {put}
        /\ answer' = answer
    BY <1>1 DEF S3Stores, Store, local, UploadInv, StorageInv
  <1>4. PutInv(put) /\ u \in Uploads /\ HandlerInv(u) /\ TypeOK
    BY <1>1, <1>2 DEF UploadInv, PutInv
  <1>5. \A q \in stored : PutInv(q)
    BY DEF UploadInv
  <1>6. Told' = Told
    BY <1>3 DEF Told
  <1>7. ASSUME answer[u].kind # "ok" PROVE Told[u] \in {"none", "failed"}
    <2>1. answer[u].kind \in {"none", "server error", "recovered panic"}
      BY <1>2, <1>4, <1>7 DEF TypeOK, Kinds, PutInv
    <2> QED
      BY <1>4, <2>1, VerdictOf DEF Told
  <1>8. CASE ~Public(put)
    <2>1. Archiving /\ put = ArchivePut(u, TRUE)
      BY <1>2, <1>4, <1>8 DEF PutInv
    <2>2. u \notin Kept
      <3>1. ASSUME NEW q \in stored, q.by = u, ~Public(q) PROVE q = put
        BY <1>5, <2>1, <3>1 DEF PutInv
      <3> QED
        BY <1>3, <3>1, KeptShown
    <2>3. u \notin Shown
      <3>1. ASSUME NEW q \in stored, q.by = u, Public(q) PROVE put \in stored
        BY <1>5, <2>1, <3>1 DEF PutInv
      <3> QED
        BY <1>3, <3>1, KeptShown
    <2>4. answer[u].kind # "ok"
      <3>1. answer[u].kind = "ok" => u \in Shown
        BY <1>4, KeptShown DEF HandlerInv
      <3> QED
        BY <2>3, <3>1
    <2>5. Kept' = Kept \cup {u} /\ Shown' = Shown
      BY <1>2, <1>3, <1>8 DEF Kept, Shown, By, PublicPuts, Public
    <2>6. Service!Keep(u)
      BY <1>6, <1>7, <2>1, <2>2, <2>3, <2>4, <2>5
         DEF Service!Keep, Kept, Shown, Told
    <2> QED
      BY <1>4, <2>6 DEF Service!Next
  <1>9. CASE Public(put)
    <2>1. put = request[u] /\ (Archiving => ArchivePut(u, TRUE) \in stored)
      BY <1>2, <1>4, <1>9 DEF PutInv
    <2>2. u \notin Shown
      <3>1. ASSUME NEW q \in stored, q.by = u, Public(q) PROVE q = put
        BY <1>5, <2>1, <3>1 DEF PutInv
      <3> QED
        BY <1>3, <3>1, KeptShown
    <2>3. Archiving => u \in Kept
      <3>1. ArchivePut(u, TRUE).by = u /\ ~Public(ArchivePut(u, TRUE))
        BY DEF ArchivePut, Public
      <3> QED
        BY <2>1, <3>1, KeptShown
    <2>4. answer[u].kind # "ok"
      BY <1>3, <1>4, <2>1 DEF HandlerInv
    <2>5. Shown' = Shown \cup {u} /\ Kept' = Kept
      BY <1>2, <1>3, <1>9 DEF Kept, Shown, By, PublicPuts, Public
    <2>6. Service!Show(u)
      BY <1>6, <1>7, <2>2, <2>3, <2>4, <2>5
         DEF Service!Show, Kept, Shown, Told
    <2> QED
      BY <1>4, <2>6 DEF Service!Next
  <1> QED
    BY <1>8, <1>9

-----------------------------------------------------------------------------
(* A handler answers: the service tells its client.                           *)

LEMMA AnswerIsSeen ==
    ASSUME UploadInv, NEW u \in Uploads, pc[u] # "answered",
           NEW kind \in Kinds \ {"none"},
           answer'[u].kind = kind,
           \A v \in Uploads \ {u} : answer'[v] = answer[v],
           stored' = stored,
           kind = "ok" => u \in Shown,
           kind = "bad request" => \A put \in Sent : put.by # u
    PROVE  Service!Next
  <1> DEFINE word == Verdict(kind)
  <1>1. word \in {"rejected", "failed", "ok"}
    BY VerdictOf DEF Kinds
  <1>2. Told[u] = "none"
    BY VerdictOf DEF UploadInv, HandlerInv, Told
  <1>3. word = "ok" => u \in Shown
    BY VerdictOf DEF Kinds
  <1>4. word = "rejected" => u \notin Kept \cup Shown
    BY VerdictOf, KeptShown DEF Kinds
  <1>5. Told' = [Told EXCEPT ![u] = word]
    BY DEF Told
  <1>6. Kept' = Kept /\ Shown' = Shown
    BY DEF Kept, Shown, By, PublicPuts, Public
  <1> HIDE DEF word
  <1>7. Service!Tell(u, word)
    BY <1>2, <1>3, <1>4, <1>5, <1>6 DEF Service!Tell, Kept, Shown, Told
  <1> QED
    BY <1>1, <1>7 DEF Service!Next

LEMMA LocalIsSeen ==
    ASSUME UploadInv, NEW u \in Uploads, ParseForm(u) \/ Local(u)
    PROVE  Service!Next \/ UNCHANGED Service!service
  <1>1. pc[u] \in Steps /\ stored' = stored
    BY DEF Local, ParseForm, ExtractFile, CheckImage, SendArchive, SanitizeUpload,
           SendPublic, Send, storage
  <1>2. \/ answer' = answer
        \/ \E kind \in {"bad request", "server error", "recovered panic"} :
               /\ answer' = [answer EXCEPT ![u] = [kind |-> kind, url |-> NoUrl]]
               /\ kind = "bad request" => pc[u] \in {"parse", "extract", "check"}
    BY DEF Local, ParseForm, ExtractFile, CheckImage, SendArchive, SanitizeUpload,
           SendPublic, Answer
  <1>3. CASE answer' = answer
    BY <1>1, <1>3, Unseen
  <1>4. ASSUME NEW kind \in {"bad request", "server error", "recovered panic"},
               answer' = [answer EXCEPT ![u] = [kind |-> kind, url |-> NoUrl]],
               kind = "bad request" => pc[u] \in {"parse", "extract", "check"}
        PROVE  Service!Next
    <2>1. /\ answer'[u].kind = kind
          /\ \A v \in Uploads \ {u} : answer'[v] = answer[v]
      BY <1>4 DEF UploadInv, TypeOK
    <2>2. kind = "bad request" => \A put \in Sent : put.by # u
      BY <1>4, NothingSent DEF Sending
    <2> QED
      BY <1>1, <2>1, <2>2, AnswerIsSeen DEF Kinds
  <1> QED
    BY <1>2, <1>3, <1>4

LEMMA ReplyIsSeen ==
    ASSUME UploadInv, NEW u \in Uploads, Reply(u)
    PROVE  Service!Next \/ UNCHANGED Service!service
  <1>1. pc[u] \in Steps /\ stored' = stored
    BY DEF Reply, Archived, Published, PutFails, AwaitsS3, storage
  <1>2. CASE answer' = answer
    BY <1>1, <1>2, Unseen
  <1>3. CASE answer' = [answer EXCEPT ![u] = [kind |-> "server error", url |-> NoUrl]]
    <2>1. /\ answer'[u].kind = "server error"
          /\ \A v \in Uploads \ {u} : answer'[v] = answer[v]
      BY <1>3 DEF UploadInv, TypeOK
    <2> QED
      BY <1>1, <2>1, AnswerIsSeen DEF Kinds
  <1>4. CASE Published(u)
    <2>1. /\ answer'[u].kind = "ok"
          /\ \A v \in Uploads \ {u} : answer'[v] = answer[v]
      BY <1>4 DEF UploadInv, TypeOK, Published
    <2>2. u \in Shown
      <3>1. request[u] \in stored /\ \E name : request[u] = PublicPut(u, name)
        BY <1>4 DEF Published, UploadInv, HandlerInv
      <3>2. request[u].by = u /\ Public(request[u])
        BY <3>1 DEF PublicPut, Public
      <3> QED
        BY <3>1, <3>2, KeptShown
    <2> QED
      BY <1>1, <2>1, <2>2, AnswerIsSeen DEF Kinds
  <1> QED
    BY <1>2, <1>3, <1>4 DEF Reply, Archived, PutFails, Answer

\* The handlers, S3 and the dying process implement the service.
THEOREM UploadRefines == Spec => ImplementsService
  <1>1. UploadInv /\ [Next]_vars => [Service!Next]_(Service!service)
    <2> SUFFICES ASSUME UploadInv, [Next]_vars
                 PROVE  Service!Next \/ UNCHANGED Service!service
      OBVIOUS
    <2>1. ASSUME NEW u \in Uploads, Arrive(u) PROVE UNCHANGED Service!service
      BY <2>1, Unseen DEF Arrive, storage
    <2>2. CASE S3Drops
      BY <2>2, Unseen DEF S3Drops, Drop, local
    <2>3. CASE Kill
      BY <2>3, Unseen DEF Kill, storage
    <2>4. CASE UNCHANGED vars
      BY <2>4, Unseen DEF vars, local, storage
    <2> QED
      BY <2>1, <2>2, <2>3, <2>4, StoreIsSeen, LocalIsSeen, ReplyIsSeen DEF Next
  <1> QED
    BY <1>1, ServiceInit, UploadInvariant, PTL DEF Spec, ImplementsService, Service!Spec
=============================================================================
