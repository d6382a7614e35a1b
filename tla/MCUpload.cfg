SPECIFICATION Spec
CONSTANTS
    Uploads = {u1, u2}
    Inputs <- FewInputs
    RandomNames = {"r1", "r2"}
    ArchiveBucket = archive
    PublicBucket = public
    NoBucket = none
INVARIANTS
    TypeOK
    CleanPublic
    ArchivedFirst
    UrlServesTheUpload
    RejectedLeavesNoTrace
    FilesAreClosed
    UploadInv
PROPERTIES
    UploadsEnd
    ImplementsService
CHECK_DEADLOCK FALSE
