SPECIFICATION LibrarySpec
CHECK_DEADLOCK FALSE
CONSTANTS
    DNSName <- MCDNSName
    DNSByte = {0, 1, 2, 64, 192}
    DNSBufSize = {0, 9}
    DNSLabelMax = 63
    MaxDNSNames = 4
    MaxDNSBytes = 6
    MaxDNSSteps = 24
    OptionTag = {52, 128}
    OptionVal <- MCOptionVal
    StrList <- MCStrList
    TypeOf <- MCTypeOf
    AreaSize = {12, 17}
    VendorSize = 6
    OptionSizeMax = 255
    MaxOptions = 3
    MaxText = 1
    Lease <- MCLease
    Reply6 <- MCReply6
    Advert <- MCAdvert
    OK4 <- MCOK4
    OK6 <- MCOK6
    MaxNow = 3
INVARIANTS
    WellFormedArePublished
