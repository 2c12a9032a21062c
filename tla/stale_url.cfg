SPECIFICATION Spec
CONSTANTS
    elf1 = elf1  elf2 = elf2  u1 = u1  p1 = p1
    None = None
    Refresher = Refresher
    Images <- TwoImages
    Uploaders <- OneUploader
    Submitters <- OneSubmitter
    Expiry = 60  Buffer = 2
    Ttl = 30  Period = 60
    Slack = 1  Lag = 0
    Instants <- AroundExpiry
    Overlap = TRUE
INVARIANT UrlStillValid
