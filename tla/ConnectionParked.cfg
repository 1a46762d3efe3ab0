\* An upload that is refused on the operator path.
CONSTANTS
    BufLen = 4
    RespLens = {3}
    UploadMax = 3
    ContentMax = 3
    Refused <- RefusedAnywhere
    Scripts <- UploadScripts
    Folders <- SomeFolders
SPECIFICATION CSpec
INVARIANT ParkedTailIntact
