----------------------------- MODULE PaidAdapters -----------------------------
(***************************************************************************)
(* One call of an adapter backed by a paid service: a scrape               *)
(* (fetch/firecrawl_adapter.py), a search (search/exa_adapter.py) or a     *)
(* parse (parse/llamaparse_adapter.py).  Each tests its input and its key, *)
(* awaits an injected function or the service, and maps what comes back or *)
(* goes wrong; parsing polls a job that moves on by itself meanwhile.      *)
(* The adapters keep no state between calls, so one call is all there is.  *)
(***************************************************************************)
EXTENDS Naturals

CONSTANT MaxPolls  \* MAX_POLLS of the parser

ASSUME PaidAssumption == MaxPolls \in Nat \ {0}

VARIABLES
    adapter,  \* which of the three is called
    key,      \* an API key is set
    hook,     \* a function was injected in place of the service
    pc,       \* what the call awaits
    polls,    \* how many times the job was looked at
    state,    \* the state of the job when last looked at
    job,      \* the state of the job at the service
    failed,   \* the service or the function failed (history)
    answer    \* what the call came to

paidVars == <<adapter, key, hook, pc, polls, state, job, failed, answer>>

Adapters == {"firecrawl", "exa", "llamaparse"}

\* "stopped" is any final state of a job that the parser does not know.
JobStates == {"none", "pending", "success", "failed", "stopped"}

\* Awaits on the service or on the injected function.
Requests == {"hook", "scrape", "search", "upload", "status", "markdown"}

PaidInit ==
    /\ adapter \in Adapters
    /\ key \in BOOLEAN
    /\ hook \in BOOLEAN
    /\ pc = "called"
    /\ polls = 0
    /\ state = "none"
    /\ job = "none"
    /\ failed = FALSE
    /\ answer = "none"

Answer(a) ==
    /\ pc' = "answered"
    /\ answer' = a
    /\ UNCHANGED <<adapter, key, hook>>

Await(label) ==
    /\ pc' = label
    /\ UNCHANGED <<adapter, key, hook, answer>>

\* A URL that is not allowed or cannot be parsed, an empty body, or no key: the service
\* is not asked.
Refused ==
    /\ pc = "called"
    /\ \/ adapter = "firecrawl" /\ \E a \in {"forbidden_url", "raised"} : Answer(a)
       \/ adapter = "llamaparse" /\ Answer("unsupported_format")
       \/ ~key /\ ~hook /\ Answer(IF adapter = "exa" THEN "empty" ELSE "unknown")
    /\ UNCHANGED <<polls, state, job, failed>>

Begin ==
    /\ pc = "called"
    /\ \/ hook /\ Await("hook")
       \/ ~hook /\ key /\ adapter = "firecrawl" /\ Await("scrape")
       \/ ~hook /\ key /\ adapter = "exa" /\ Await("search")
       \/ ~hook /\ key /\ adapter = "llamaparse" /\ Await("upload")
    /\ UNCHANGED <<polls, state, job, failed>>

\* Too long a text is an error, and one without visible characters a shell.
Scraped ==
    /\ adapter = "firecrawl" /\ pc \in {"hook", "scrape"}
    /\ \E a \in {"result", "unknown", "empty_shell"} : Answer(a)
    /\ UNCHANGED <<polls, state, job, failed>>

\* Rows without an allowed URL are dropped.
Found ==
    /\ adapter = "exa" /\ pc \in {"hook", "search"}
    /\ \E a \in {"hits", "empty"} : Answer(a)
    /\ UNCHANGED <<polls, state, job, failed>>

HookParsed ==
    /\ adapter = "llamaparse" /\ pc = "hook"
    /\ Answer("result")
    /\ UNCHANGED <<polls, state, job, failed>>

Uploaded ==
    /\ pc = "upload"
    /\ job' = "pending"
    /\ Await("status")
    /\ UNCHANGED <<polls, state, failed>>

\* Mutant: only an unfinished job is told apart from a successful one.
StatusAnswersUnlessPending ==
    /\ pc = "status"
    /\ polls' = polls + 1
    /\ state' = job
    /\ Await(IF job = "pending" THEN "sleep" ELSE "markdown")
    /\ UNCHANGED <<job, failed>>

\* Mutant: a failed job is polled like an unfinished one.
StatusAnswersNoFailure ==
    /\ pc = "status"
    /\ polls' = polls + 1
    /\ state' = job
    /\ Await(IF job = "success" THEN "markdown" ELSE "sleep")
    /\ UNCHANGED <<job, failed>>

StatusAnswers ==
    /\ pc = "status"
    /\ polls' = polls + 1
    /\ state' = job
    /\ \/ job = "success" /\ Await("markdown")
       \/ job = "failed" /\ Answer("unknown")
       \/ job \in {"pending", "stopped"} /\ Await("sleep")
    /\ UNCHANGED <<job, failed>>

\* Mutant: one poll too many.
SleepEndsLate ==
    /\ pc = "sleep"
    /\ \/ polls <= MaxPolls /\ Await("status")
       \/ polls > MaxPolls /\ Answer("timeout")
    /\ UNCHANGED <<polls, state, job, failed>>

\* Mutant: the count of polls starts over.
SleepEndsAfresh ==
    /\ pc = "sleep"
    /\ Await("status")
    /\ polls' = 0
    /\ UNCHANGED <<state, job, failed>>

\* The job is not looked at again after the last interval.
SleepEnds ==
    /\ pc = "sleep"
    /\ \/ polls < MaxPolls /\ Await("status")
       \/ polls = MaxPolls /\ Answer("timeout")
    /\ UNCHANGED <<polls, state, job, failed>>

MarkdownReturns ==
    /\ pc = "markdown"
    /\ Answer("result")
    /\ UNCHANGED <<polls, state, job, failed>>

\* Mutant: a search that failed looks like one that found nothing.
FailsQuietly ==
    /\ pc \in Requests
    /\ \E error \in {"timeout", "rate_limited", "unknown"} :
          Answer(IF adapter = "exa" THEN "empty" ELSE error)
    /\ failed' = TRUE
    /\ UNCHANGED <<polls, state, job>>

\* A timeout, an HTTP error, or a reply without what it should hold: a typed error,
\* or SearchFailedError from the searcher.
Fails ==
    /\ pc \in Requests
    /\ \E error \in {"timeout", "rate_limited", "unknown"} :
          Answer(IF adapter = "exa" THEN "raised" ELSE error)
    /\ failed' = TRUE
    /\ UNCHANGED <<polls, state, job>>

\* An exception that no handler names (a reply that is not an object, an injected
\* function's own), or the task is cancelled.
Raises ==
    /\ pc \in Requests \cup {"sleep"}
    /\ Answer("raised")
    /\ failed' = TRUE
    /\ UNCHANGED <<polls, state, job>>

JobMoves ==
    /\ job = "pending"
    /\ job' \in {"success", "failed", "stopped"}
    /\ UNCHANGED <<adapter, key, hook, pc, polls, state, failed, answer>>

PaidStep ==
    \/ Refused \/ Begin \/ Scraped \/ Found \/ HookParsed \/ Uploaded
    \/ StatusAnswers \/ SleepEnds \/ MarkdownReturns \/ Fails \/ Raises

PaidNext == PaidStep \/ JobMoves

PaidSpec == PaidInit /\ [][PaidNext]_paidVars

\* The service answers or the request times out, and the event loop runs the call.
FairPaidSpec == PaidSpec /\ WF_paidVars(PaidStep)

-------------------------------------------------------------------------------

\* Every variable has its type, and the job is looked at MAX_POLLS times at most.
PaidTypeOK ==
    /\ adapter \in Adapters
    /\ {key, hook, failed} \subseteq BOOLEAN
    /\ pc \in Requests \cup {"called", "sleep", "answered"}
    /\ polls \in 0..MaxPolls
    /\ {state, job} \subseteq JobStates
    /\ answer \in {"none", "raised", "result", "hits", "empty", "forbidden_url",
                   "unsupported_format", "timeout", "rate_limited", "unknown", "empty_shell"}

\* A document is returned only when the service has finished it, however the job
\* moves between two polls (llamaparse_adapter.py, _parse_live).
ResultOfFinishedJob ==
    adapter = "llamaparse" /\ ~hook /\ answer = "result" => job = "success"

\* Once the job was seen to succeed or fail it is not looked at again.
FinalStateEndsPolling ==
    [][polls' # polls => state \notin {"success", "failed"}]_paidVars

\* What failed never looks like an answer of the service, least of all like an empty
\* one (exa_adapter.py: "Not the same as an empty hit list").
FailureIsNoAnswer == failed => answer \notin {"result", "hits", "empty"}

\* Every call returns, also when the job never ends.
CallEnds == <>(pc = "answered")

===============================================================================
