SPECIFICATION HalfSpec
CONSTANTS
    g1 = g1
    g2 = g2
    p1 = p1
    p2 = p2
    c1 = c1
    k1 = k1
    k2 = k2
    t1 = t1
    t2 = t2
    Grant <- AllGrants
    Legacy <- OldGrants
    Process <- Processes
    MaxPair = 2
    Nobody = Nobody
    Nothing = Nothing
    Refused = Refused
    Consent <- Consents
    Request <- Requests
    Key <- Keys
    Ticket <- Tickets
    MaxGeneration = 3
    MaxVersion = 3
    Password = Password
    NoTicket = NoTicket
    NoPage = NoPage
    RestartLimit = 1
    CredentialReads = 2
    MaxLate = 1
SYMMETRY Symmetric
INVARIANTS SentOnce NoSelfRevocation LiveIsFresh OneDecision TicketOnce ReachKept
PROPERTIES NoRevival RemovedStaysOut
