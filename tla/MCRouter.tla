------------------------------- MODULE MCRouter -------------------------------
(***************************************************************************)
(* Small instances of Router for TLC: the routers, the answers of searchers *)
(* and the initial registrations that a .cfg cannot write down.            *)
(***************************************************************************)
EXTENDS Router

CONSTANTS httpx, firecrawl, llamaparse, c1, c2, c3, u1, u2, u3, o1, o2, i1

Rule(kind, on, from, to) == [kind |-> kind, on |-> on, from |-> from, to |-> to]

\* Standalone use: list order, no policy file.
Legacy ==
    [fetchers |-> <<httpx, firecrawl>>, parsers |-> <<llamaparse>>, searchers |-> 2,
     rules |-> <<>>, retry_attempts |-> 0, require_review |-> TRUE]

\* Rules with a cycle, an unknown parser, a retry, and no review.
Cyclic ==
    [fetchers |-> <<httpx, firecrawl>>, parsers |-> <<llamaparse>>, searchers |-> 1,
     rules |-> << Rule("error", "timeout", None, firecrawl),
                  Rule("error", "timeout", firecrawl, httpx),
                  Rule("content_type", "application/pdf", httpx, httpx) >>,
     retry_attempts |-> 1, require_review |-> FALSE]

\* No adapter at all.
Bare ==
    [fetchers |-> <<>>, parsers |-> <<>>, searchers |-> 0,
     rules |-> <<>>, retry_attempts |-> 0, require_review |-> TRUE]

MCConfigs == {Legacy, Cyclic, Bare}
MCReviewed == {Legacy}

MCThreeCallers == {c1, c2, c3}
MCUrls == {u1, u2, u3}
MCTrusted == {u1, u2}
MCCandidateLists == {<<>>, <<u3, u1>>, <<u2>>}
MCRejectedList == {<<u3>>}
MCRankedLists == {<<>>, <<u3, u2, u1>>}
MCUnregistered == {<<>>}
MCRegistered == {<<u1>>}
MCMaybeRegistered == {<<>>, <<u1>>}

MCOneObject == [o \in {o1} |-> i1]
MCTwoObjects == [o \in {o1, o2} |-> i1]

CallerSymmetry == Permutations(MCThreeCallers)

===============================================================================
