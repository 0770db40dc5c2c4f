SPECIFICATION FairRestartSpec
CONSTANTS
    httpx = httpx
    firecrawl = firecrawl
    llamaparse = llamaparse
    c1 = c1
    c2 = c2
    c3 = c3
    u1 = u1
    u2 = u2
    u3 = u3
    o1 = o1
    o2 = o2
    i1 = i1
    None = None
    Names = {httpx, firecrawl, llamaparse}
    MimeTypes = {"text/html", "application/pdf"}
    PdfTypes = {"application/pdf"}
    Callers = {c1, c2}
    Ids = {i1}
    Objects = {o1, o2}
    IdOf <- MCTwoObjects
    Urls <- MCUrls
    Trusted <- MCTrusted
    Hashes = {"h1", "h2"}
    FetchErrors = {"timeout", "not_found"}
    CandidateLists <- MCCandidateLists
    InitSources <- MCUnregistered
    Configs <- MCReviewed
PROPERTY
    SourceNeverReplaced
