SPECIFICATION FairSchedulingSpec
CONSTANTS
    httpx = httpx
    u1 = u1
    o1 = o1
    i1 = i1
    f1 = f1
    f2 = f2
    None = None
    Names = {httpx}
    MimeTypes = {"text/html"}
    PdfTypes = {}
    Fires <- MCFires
    Triggers = {"monthly"}
    Jobs <- MCJobs
    MaxJobs = 2
    Callers <- MCTasks
    Ids = {i1}
    Objects = {o1}
    IdOf <- MCOneObject
    Urls <- MCUrls
    Trusted <- MCTrusted
    Hashes = {"h1"}
    FetchErrors = {"timeout"}
    CandidateLists <- MCCandidateLists
    InitSources <- MCUnregistered
    Configs <- MCConfigs
INVARIANTS
    SchedulingTypeOK
    NoLockAbandoned
PROPERTIES
    CallsReturn
    StartedJobsEnd
    FiresEnd
