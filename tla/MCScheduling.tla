----------------------------- MODULE MCScheduling -----------------------------
(***************************************************************************)
(* Two calls of fire, of up to two jobs and of one, over one item.         *)
(***************************************************************************)
EXTENDS Scheduling

CONSTANTS httpx, u1, o1, i1, f1, f2

MCFires == {f1, f2}
MCTasks == {<<f1, 1>>, <<f1, 2>>, <<f2, 1>>}

\* One fetcher that a rule sends back to itself, with a retry, and one searcher.
MCConfigs ==
    {[fetchers |-> <<httpx>>, parsers |-> <<>>, searchers |-> 1,
      rules |-> <<[kind |-> "error", on |-> "timeout", from |-> None, to |-> httpx]>>,
      retry_attempts |-> 1, require_review |-> FALSE]}

MCUrls == {u1}
MCTrusted == {u1}
MCCandidateLists == {<<u1>>}
MCUnregistered == {<<>>}
MCOneObject == [o \in {o1} |-> i1]

MCJobs == [op : {"track_a", "track_b"}, item : {o1}]

===============================================================================
