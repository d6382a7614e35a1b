-------------------------------- MODULE Upload --------------------------------
(* The handler of POST /upload (Upload in routes.go, with extractFile, checkImage *)
(* and SanitizeImageFrom), run by any number of request goroutines at once over  *)
(* the shared S3 store.  A handler is a sequence of steps, one per call that can *)
(* fail, block, or be cut off by the end of the process.                       *)
EXTENDS Sanitize, Storage

CONSTANTS
    Uploads,        \* the requests; each is served by a goroutine of its own
    Inputs,         \* what a client can post
    RandomNames,    \* what randString(10) can return
    ArchiveBucket,  \* config.ArchiveBucket, NoBucket for the empty string
    PublicBucket,   \* config.PublicBucket
    NoBucket

Forms == {"upload", "other part", "malformed"}

ASSUME InputsAssumption == \A in \in Inputs : in.form \in Forms /\ in.file \in File
ASSUME BucketAssumption == PublicBucket # NoBucket

Archiving == ArchiveBucket # NoBucket

VARIABLES
    pc,       \* the next step of the handler
    input,    \* the request: its form, the file's name and the file
    open,     \* does the handler hold the uploaded file open?
    pos,      \* where the file is read next
    image,    \* what SanitizeImageFrom returned
    request,  \* the PUT the handler sent last
    answer,   \* the response
    faulted   \* history: did I/O fail underneath the handler?

local == <<pc, input, open, pos, image, request, answer, faulted>>
vars == <<local, storage>>

-----------------------------------------------------------------------------
(* Values.                                                                    *)

Steps == {"parse", "extract", "check", "archive", "archiving", "sanitize",
          "publish", "publishing"}
Over == {"answered", "killed"}

Active(u) == pc[u] \in Steps
AwaitsClient(u) == pc[u] = "parse"
AwaitsS3(u) == pc[u] \in {"archiving", "publishing"}

NoInput == [form |-> "none", filename |-> <<>>, file |-> <<>>]
NoRequest == [by |-> "none"]
NoUrl == <<>>
Unanswered == [kind |-> "none", url |-> NoUrl]

OriginalBody(u) == [format |-> input[u].file.format, picture |-> Original(input[u].file)]

\* The PUT of the archive, under the name the client gave the file.  It is whole
\* if the file is read from its start.
ArchivePut(u, whole) ==
    [by |-> u, bucket |-> ArchiveBucket, key |-> input[u].filename,
     body |-> OriginalBody(u), type |-> input[u].file.format,
     acl |-> "bucket-owner-full-control", whole |-> whole]

\* Wrong: the file is sent where the sanitized buffer should be.
PublicPutOriginal(u, name) ==
    [by |-> u, bucket |-> PublicBucket, key |-> <<name, input[u].file.format>>,
     body |-> OriginalBody(u),
     type |-> input[u].file.format, acl |-> "public-read", whole |-> TRUE]

\* The PUT of the sanitized image under a random name with the format as extension.
PublicPut(u, name) ==
    [by |-> u, bucket |-> PublicBucket, key |-> <<name, input[u].file.format>>,
     body |-> [format |-> input[u].file.format, picture |-> image[u]],
     type |-> input[u].file.format, acl |-> "public-read", whole |-> TRUE]

-----------------------------------------------------------------------------
(* The handler.                                                               *)

Init ==
    /\ pc = [u \in Uploads |-> "idle"]
    /\ input = [u \in Uploads |-> NoInput]
    /\ open = [u \in Uploads |-> FALSE]
    /\ pos = [u \in Uploads |-> "start"]
    /\ image = [u \in Uploads |-> NoPicture]
    /\ request = [u \in Uploads |-> NoRequest]
    /\ answer = [u \in Uploads |-> Unanswered]
    /\ faulted = [u \in Uploads |-> FALSE]
    /\ StorageInit

Goto(u, step) == pc' = [pc EXCEPT ![u] = step]

\* Wrong: no deferred Close.
AnswerUnclosed(u, kind) ==
    /\ Goto(u, "answered")
    /\ answer' = [answer EXCEPT ![u] = [kind |-> kind, url |-> NoUrl]]
    /\ UNCHANGED open

\* The handler returns: the response is written and the deferred Close runs.
Answer(u, kind) ==
    /\ Goto(u, "answered")
    /\ answer' = [answer EXCEPT ![u] = [kind |-> kind, url |-> NoUrl]]
    /\ open' = [open EXCEPT ![u] = FALSE]

Blame(u, fault) == faulted' = [faulted EXCEPT ![u] = @ \/ fault]

(* A request arrives and the mux calls Upload. *)
Arrive(u) ==
    /\ pc[u] = "idle"
    /\ \E in \in Inputs : input' = [input EXCEPT ![u] = in]
    /\ Goto(u, "parse")
    /\ UNCHANGED <<open, pos, image, request, answer, faulted, storage>>

(* ParseMultipartForm reads the body, as long as the client takes to send it: a  *)
(* malformed body, or a client that breaks off, is a 400.                       *)
ParseForm(u) ==
    /\ pc[u] = "parse"
    /\ \/ /\ input[u].form # "malformed"
          /\ Goto(u, "extract")
          /\ UNCHANGED <<open, answer, faulted>>
       \/ /\ Blame(u, input[u].form # "malformed")
          /\ Answer(u, "bad request")
    /\ UNCHANGED <<input, pos, image, request, storage>>

(* extractFile: find the part, open it, find its size and rewind it.  When the  *)
(* size cannot be found the file that was opened is not closed.               *)
ExtractFile(u) ==
    /\ pc[u] = "extract"
    /\ \/ /\ input[u].form = "upload"
          /\ Goto(u, "check")
          /\ open' = [open EXCEPT ![u] = TRUE]
          /\ UNCHANGED <<answer, faulted>>
       \/ \* the part is missing, or opening the file fails
          /\ Blame(u, input[u].form = "upload")
          /\ Answer(u, "bad request")
       \/ \* getSize fails
          /\ input[u].form = "upload"
          /\ Blame(u, TRUE)
          /\ Goto(u, "answered")
          /\ answer' = [answer EXCEPT ![u] = [kind |-> "bad request", url |-> NoUrl]]
          /\ open' = [open EXCEPT ![u] = TRUE]
    /\ UNCHANGED <<input, pos, image, request, storage>>

\* Wrong: what checkImage returned is not looked at.
CheckImageIgnored(u) ==
    /\ pc[u] = "check"
    /\ Goto(u, IF Archiving THEN "archive" ELSE "sanitize")
    /\ pos' = [pos EXCEPT ![u] = "start"]
    /\ UNCHANGED <<input, open, image, request, answer, faulted, storage>>

\* Wrong: checkImage does not rewind.
CheckImageUnwound(u) ==
    /\ pc[u] = "check"
    /\ input[u].file.format # NotAnImage
    /\ Goto(u, IF Archiving THEN "archive" ELSE "sanitize")
    /\ pos' = [pos EXCEPT ![u] = "end"]
    /\ UNCHANGED <<input, open, image, request, answer, faulted, storage>>

\* Wrong: a file that is no image is waited for instead of refused.
CheckImageUnrefused(u) ==
    /\ pc[u] = "check"
    /\ input[u].file.format # NotAnImage
    /\ Goto(u, IF Archiving THEN "archive" ELSE "sanitize")
    /\ pos' = [pos EXCEPT ![u] = "start"]
    /\ UNCHANGED <<input, open, image, request, answer, faulted, storage>>

(* checkImage: decode, then rewind; a failure of either is "not an image".     *)
CheckImage(u) ==
    /\ pc[u] = "check"
    /\ \/ /\ input[u].file.format # NotAnImage
          /\ Goto(u, IF Archiving THEN "archive" ELSE "sanitize")
          /\ pos' = [pos EXCEPT ![u] = "start"]
          /\ UNCHANGED <<open, answer, faulted>>
       \/ /\ Blame(u, input[u].file.format # NotAnImage)
          /\ pos' = [pos EXCEPT ![u] = "end"]
          /\ Answer(u, "bad request")
    /\ UNCHANGED <<input, image, request, storage>>

\* Wrong: the archive is written behind the handler's back.
SendArchiveUnawaited(u) ==
    /\ pc[u] = "archive"
    /\ Send(ArchivePut(u, TRUE))
    /\ request' = [request EXCEPT ![u] = ArchivePut(u, TRUE)]
    /\ Goto(u, "sanitize")
    /\ UNCHANGED <<input, open, pos, image, answer, faulted>>

(* PutReader to the archive bucket: reads the file to its end. *)
SendArchive(u) ==
    /\ pc[u] = "archive"
    /\ LET put == ArchivePut(u, pos[u] = "start")
       IN  /\ Send(put)
           /\ request' = [request EXCEPT ![u] = put]
    /\ pos' = [pos EXCEPT ![u] = "end"]
    /\ Goto(u, "archiving")
    /\ UNCHANGED <<input, open, image, answer, faulted>>

\* Wrong: no rewind after archiving.
ArchivedUnwound(u) ==
    /\ pc[u] = "archiving"
    /\ request[u] \in stored
    /\ Goto(u, "sanitize")
    /\ UNCHANGED <<input, open, pos, image, request, answer, faulted, storage>>

(* S3 said 200: rewind the file for the sanitizer, or give up. *)
Archived(u) ==
    /\ pc[u] = "archiving"
    /\ request[u] \in stored
    /\ \/ /\ pos' = [pos EXCEPT ![u] = "start"]
          /\ Goto(u, "sanitize")
          /\ UNCHANGED <<open, answer, faulted>>
       \/ /\ Blame(u, TRUE)
          /\ Answer(u, "server error")
          /\ UNCHANGED pos
    /\ UNCHANGED <<input, image, request, storage>>

(* SanitizeImageFrom on the file from where it is read next; at its end there   *)
(* is nothing to decode.  A panic unwinds to recoverMiddleware.               *)
SanitizeUpload(u) ==
    /\ pc[u] = "sanitize"
    /\ \E faults \in SUBSET Fault :
           LET out == IF pos[u] = "start"
                      THEN SanitizeImageFrom(input[u].file, faults) ELSE Error
           IN  /\ Blame(u, faults # {})
               /\ \/ /\ out.kind = Returned
                     /\ image' = [image EXCEPT ![u] = out.picture]
                     /\ Goto(u, "publish")
                     /\ UNCHANGED <<open, answer>>
                  \/ /\ out.kind = Failed
                     /\ Answer(u, "server error")
                     /\ UNCHANGED image
                  \/ /\ out.kind = Panicked
                     /\ Answer(u, "recovered panic")
                     /\ UNCHANGED image
    /\ UNCHANGED <<input, pos, request, storage>>

(* randString, then PutReader to the public bucket. *)
SendPublic(u) ==
    /\ pc[u] = "publish"
    /\ \E name \in RandomNames :
           /\ Send(PublicPut(u, name))
           /\ request' = [request EXCEPT ![u] = PublicPut(u, name)]
    /\ Goto(u, "publishing")
    /\ UNCHANGED <<input, open, pos, image, answer, faulted>>

\* Wrong: the error of PutReader is not looked at.
PublishedUnchecked(u) ==
    /\ pc[u] = "publishing"
    /\ Goto(u, "answered")
    /\ answer' = [answer EXCEPT ![u] = [kind |-> "ok", url |-> Address(request[u])]]
    /\ open' = [open EXCEPT ![u] = FALSE]
    /\ UNCHANGED <<input, pos, image, request, faulted, storage>>

(* S3 said 200: the client gets the URL of the public object. *)
Published(u) ==
    /\ pc[u] = "publishing"
    /\ request[u] \in stored
    /\ Goto(u, "answered")
    /\ answer' = [answer EXCEPT ![u] = [kind |-> "ok", url |-> Address(request[u])]]
    /\ open' = [open EXCEPT ![u] = FALSE]
    /\ UNCHANGED <<input, pos, image, request, faulted, storage>>

\* Wrong: a failed PUT is blamed on the client.
PutFailsAsRejection(u) ==
    /\ AwaitsS3(u)
    /\ Blame(u, request[u].whole)
    /\ Answer(u, "bad request")
    /\ UNCHANGED <<input, pos, image, request, storage>>

\* Wrong: no return after a failed archive.
PutFailsUnreturned(u) ==
    /\ AwaitsS3(u)
    /\ Blame(u, request[u].whole)
    /\ IF pc[u] = "archiving"
       THEN /\ Goto(u, "sanitize")
            /\ pos' = [pos EXCEPT ![u] = "start"]
            /\ UNCHANGED <<open, answer>>
       ELSE /\ Answer(u, "server error")
            /\ UNCHANGED pos
    /\ UNCHANGED <<input, image, request, storage>>

(* PutReader returns an error: S3 refused, the connection broke, or the answer  *)
(* was lost although the object is, or will be, stored.  There is no retry.    *)
PutFails(u) ==
    /\ AwaitsS3(u)
    /\ Blame(u, request[u].whole)
    /\ Answer(u, "server error")
    /\ UNCHANGED <<input, pos, image, request, storage>>

-----------------------------------------------------------------------------
(* The environment.                                                           *)

S3Stores == /\ \E put \in wire : Store(put)
            /\ UNCHANGED local

S3Drops == /\ \E put \in wire : Drop(put)
           /\ UNCHANGED local

(* The process ends with requests in progress (a crash, or the timeout of       *)
(* graceful.Run).  Nothing is persisted, so the next process starts afresh.    *)
Kill ==
    /\ \E u \in Uploads : Active(u)
    /\ pc' = [u \in Uploads |-> IF Active(u) THEN "killed" ELSE pc[u]]
    /\ open' = [u \in Uploads |-> FALSE]
    /\ UNCHANGED <<input, pos, image, request, answer, faulted, storage>>

\* The steps of a handler that wait for nobody.
Local(u) ==
    \/ ExtractFile(u)
    \/ CheckImage(u)
    \/ SendArchive(u)
    \/ SanitizeUpload(u)
    \/ SendPublic(u)

Reply(u) ==
    \/ Archived(u)
    \/ Published(u)
    \/ PutFails(u)

Next ==
    \/ \E u \in Uploads : Arrive(u) \/ ParseForm(u) \/ Local(u) \/ Reply(u)
    \/ S3Stores
    \/ S3Drops
    \/ Kill

(* The scheduler runs every goroutine that can run.  Nothing makes a client     *)
(* post, or send the rest of its body, S3 answer, or a connection break: neither *)
(* graceful.Run nor the client of S3 sets a timeout.                           *)
Spec == Init /\ [][Next]_vars /\ \A u \in Uploads : WF_vars(Local(u))

-----------------------------------------------------------------------------
(* Properties.                                                                *)

Body == [format : Decodable, picture : Picture]
Acl == {"bucket-owner-full-control", "public-read"}

Buckets == {ArchiveBucket, PublicBucket} \ {NoBucket}
Keys == {in.filename : in \in Inputs} \cup (RandomNames \X Decodable)

Put == [by : Uploads, bucket : Buckets, key : Keys, body : Body, type : Decodable,
        acl : Acl, whole : BOOLEAN]

Kinds == {"none", "bad request", "server error", "recovered panic", "ok"}

\* The shape of every variable, for the handler goroutines of routes.go:22 and S3.
TypeOK ==
    /\ pc \in [Uploads -> Steps \cup Over \cup {"idle"}]
    /\ input \in [Uploads -> Inputs \cup {NoInput}]
    /\ open \in [Uploads -> BOOLEAN]
    /\ pos \in [Uploads -> {"start", "end"}]
    /\ image \in [Uploads -> Picture]
    /\ request \in [Uploads -> Put \cup {NoRequest}]
    /\ answer \in [Uploads -> [kind : Kinds, url : {NoUrl} \cup (Buckets \X Keys)]]
    /\ faulted \in [Uploads -> BOOLEAN]
    /\ wire \cup stored \subseteq Put
    /\ objects \subseteq stored

Public(put) == put.acl = "public-read"
Sent == wire \cup stored

\* What the world can read is sanitized: every object S3 stores as public-read
\* is a whole image without metadata, under the content type and extension of
\* its own format -- also when both buckets are the same one, and whatever
\* failed or was killed (routes.go:79-96).
CleanPublic ==
    \A put \in Sent : Public(put) =>
        /\ ~put.body.picture.metadata
        /\ put.whole
        /\ put.type = put.body.format
        /\ put.key[2] = put.body.format

\* With an archive configured, nothing is made public, not even by a PUT whose
\* handler is gone, before S3 holds the whole original of that very upload under
\* its own name (routes.go:55-75 comes before 96).
ArchivedFirst ==
    Archiving => \A put \in Sent : Public(put) =>
        \E original \in stored :
            /\ original.by = put.by
            /\ ~Public(original)
            /\ original.bucket = ArchiveBucket
            /\ original.key = input[put.by].filename
            /\ original.body = OriginalBody(put.by)
            /\ original.whole

\* Only this upload was given this public name.
OwnName(u) ==
    \A put \in Sent : Public(put) /\ Address(put) = answer[u].url => put.by = u

\* The URL in a 200 serves the sanitized image of that upload, from the moment
\* it is answered and for good, unless another upload drew the same random name
\* (routes.go:86-113, config.yaml:8-10).
UrlServesTheUpload ==
    \A u \in Uploads : answer[u].kind = "ok" /\ OwnName(u) =>
        \E object \in objects :
            /\ Address(object) = answer[u].url
            /\ object.by = u
            /\ Public(object)
            /\ object.body.format = input[u].file.format

\* A 400 means that nothing of the request was or ever will be stored
\* (routes.go:27-45: all rejections come before the first PutReader).
RejectedLeavesNoTrace ==
    \A u \in Uploads : answer[u].kind = "bad request" =>
        \A put \in Sent : put.by # u

\* A good image is published unless something failed underneath the handler: the
\* file is rewound before each of its three or four readers (image.go:22,40,110,
\* routes.go:70).
FaultFreeUploadSucceeds ==
    \A u \in Uploads :
        /\ pc[u] = "answered"
        /\ ~faulted[u]
        /\ input[u].form = "upload"
        /\ Publishable(input[u].file)
        => answer[u].kind = "ok"

\* A JPEG with a readable orientation is published upright, whichever of the
\* eight values it carries, provided no seek or read failed (image.go:155-173).
PublicUpright ==
    \A put \in Sent :
        /\ Public(put)
        /\ ~faulted[put.by]
        /\ input[put.by].file.exif = "usable"
        => put.body.picture.pose = Upright

\* A request that is over holds no file open, whatever path it took, except when
\* the size of the file could not be found (routes.go:38 and 130-133).
FilesAreClosed ==
    \A u \in Uploads : pc[u] \in Over /\ open[u] =>
        /\ faulted[u]
        /\ answer[u].kind = "bad request"
        /\ input[u].form = "upload"

\* EXIF data with an error that package exif calls not critical does not stop an
\* upload: exif.go:75-76 says the *Exif may then still be used, and image.go:56
\* logs a "Non-fatal error" and goes on.  (The code does not do this.)
NonFatalExifIsSurvived ==
    \A u \in Uploads :
        /\ answer[u].kind = "recovered panic"
        /\ ~faulted[u]
        => input[u].file.exif # "nonfatal"

\* An Orientation tag that fixOrientation refuses (image.go:123, 128, 176) ends
\* in the answer "error sanitizing image" (routes.go:79-82), never in a panic.
\* (The code does not do this.)
OrientationErrorIsAnswered ==
    \A u \in Uploads :
        /\ answer[u].kind = "recovered panic"
        /\ ~faulted[u]
        => input[u].file.exif # "usable"

\* If its client sends the body, or breaks off, and S3 answers each PUT, well or
\* badly, an upload ends: with an answer, or with the process.
UploadsEnd ==
    \A u \in Uploads :
        ([]<>~AwaitsClient(u)) /\ ([]<>~AwaitsS3(u)) => (Active(u) ~> pc[u] \in Over)

-----------------------------------------------------------------------------
(* The service this implements.                                               *)

Verdict(kind) ==
    CASE kind = "bad request" -> "rejected"
      [] kind = "ok" -> "ok"
      [] kind = "none" -> "none"
      [] OTHER -> "failed"

By(puts) == {put.by : put \in puts}
PublicPuts(puts) == {put \in puts : Public(put)}

Service == INSTANCE UploadService WITH
    kept <- By(stored \ PublicPuts(stored)),
    shown <- By(PublicPuts(stored)),
    verdict <- [u \in Uploads |-> Verdict(answer[u].kind)]

\* Every behaviour of the handlers, with PUTs that are stored late, lost answers
\* and a dying process, is one the service promises (README.md:5-9).
ImplementsService == Service!Spec

-----------------------------------------------------------------------------
(* The inductive invariant behind CleanPublic, ArchivedFirst,                  *)
(* RejectedLeavesNoTrace, UrlServesTheUpload and ImplementsService.            *)

\* Where a handler is says what it has read, sent and stored.
HandlerInv(u) ==
    /\ pc[u] # "idle" => input[u] \in Inputs
    /\ pc[u] \in {"archive", "archiving"} => Archiving
    /\ pc[u] \in {"archive", "archiving", "sanitize", "publish", "publishing"}
           => input[u].file.format \in Decodable
    /\ pc[u] = "archive" => pos[u] = "start"
    /\ pc[u] = "archiving" => request[u] = ArchivePut(u, TRUE)
    /\ pc[u] \in {"sanitize", "publish", "publishing"} /\ Archiving
           => ArchivePut(u, TRUE) \in stored
    /\ pc[u] = "publish" => ~image[u].metadata
    /\ pc[u] = "publishing" => \E name \in RandomNames : request[u] = PublicPut(u, name)
    /\ pc[u] = "publishing" => ~image[u].metadata
    /\ answer[u].kind = "none" <=> pc[u] # "answered"
    /\ answer[u].kind = "ok" =>
           /\ request[u] \in stored
           /\ request[u].by = u
           /\ Public(request[u])
           /\ answer[u].url = Address(request[u])

Sending == {"archiving", "sanitize", "publish", "publishing"} \cup Over

\* A PUT is the archive's, and then the only one of its upload, or it is the
\* last PUT of its handler.
PutInv(put) ==
    LET u == put.by
    IN  /\ u \in Uploads
        /\ pc[u] \in Sending
        /\ answer[u].kind # "bad request"
        /\ ~Public(put) => Archiving /\ put = ArchivePut(u, TRUE)
        /\ Public(put) =>
               /\ pc[u] \in {"publishing"} \cup Over
               /\ put = request[u]
               /\ ~image[u].metadata
               /\ \E name \in RandomNames : put = PublicPut(u, name)
               /\ Archiving => ArchivePut(u, TRUE) \in stored

\* S3 stores a PUT once, and keeps something at every address it stored at.
StorageInv ==
    /\ wire \cap stored = {}
    /\ \A put \in stored : \E object \in objects : Address(object) = Address(put)

\* The inductive invariant: routes.go:22-114 step by step.
UploadInv ==
    /\ TypeOK
    /\ \A u \in Uploads : HandlerInv(u)
    /\ \A put \in Sent : PutInv(put)
    /\ StorageInv
=============================================================================
