\* One slot, of an operator or of an upload worker, over any number of connections.
CONSTANTS
    BufLen = 4
    RespLens = {1, 3, 5}
    UploadMax = 3
    ContentMax = 3
    Refused <- RefusedByWorkers
    Scripts <- AllScripts
    Folders <- SomeFolders
SPECIFICATION CFairSpec
INVARIANTS ClTypeOK ParkedIsArmed SlotStartsClean TicketSettledOnce SpoolSound ZipExact ZipReleasesAll
PROPERTIES ImplementsExchange AnnouncedClose ParkedEnds SpoolSettled
