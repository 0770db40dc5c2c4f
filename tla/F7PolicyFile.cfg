SPECIFICATION FactorySpec
CONSTANTS
    httpx = httpx
    firecrawl = firecrawl
    exa = exa
    llamaparse = llamaparse
    browser = browser
    typo = typo
    None = None
    Names = {httpx, firecrawl, exa, llamaparse, browser, typo}
    MimeTypes = {"pdf", "application/pdf", "text/html"}
    PdfTypes = {"pdf", "application/pdf"}
    Labels = {"*", "", "vendor", "test", "docs", "evilvendor", "intranet"}
    Hosts <- MCHosts
    PrivateHosts <- MCPrivateHosts
    EntryPoints <- MCEntryPoints
    Files <- MCDocumentedFile
    Calls <- MCParsersPassedIn
INVARIANT
    PolicyFileIsHonoured
CHECK_DEADLOCK FALSE
