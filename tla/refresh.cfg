SPECIFICATION Spec
CONSTANTS
    elf1 = elf1  elf2 = elf2  u1 = u1  p1 = p1
    None = None
    Refresher = Refresher
    Images <- TwoImages
    Uploaders <- OneUploader
    Submitters <- OneSubmitter
    Expiry = 7  Buffer = 4
    Ttl = 2  Period = 1
    Slack = 1  Lag = 1
    Instants <- FirstToTenth
    Overlap = FALSE
INVARIANT TypeOK
INVARIANT UrlStillValid
INVARIANT UploadStands
INVARIANT CleanupNotStarved
