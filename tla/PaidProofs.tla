------------------------------ MODULE PaidProofs ------------------------------
(***************************************************************************)
(* One call of an adapter of a paid service, for any limit of polls.  What *)
(* the call awaits tells what it has seen: the invariant says it for each  *)
(* label.                                                                  *)
(***************************************************************************)
EXTENDS PaidAdapters, TLAPS

\* Which call is at which await, and what it has seen of the job by then.
AwaitInv ==
    /\ pc = "hook" => hook
    /\ pc \in {"called", "hook", "scrape", "search", "upload"} => polls = 0 /\ state = "none"
    /\ pc = "status" => polls < MaxPolls
    /\ pc \in {"status", "sleep"} => state \notin {"success", "failed"}
    /\ pc = "markdown" => job = "success"

\* An answer ends the call, and a failure is its answer.
AnswerInv ==
    /\ pc # "answered" => answer = "none" /\ ~failed
    /\ failed => answer \in {"raised", "timeout", "rate_limited", "unknown"}

PInv == PaidTypeOK /\ AwaitInv /\ AnswerInv /\ ResultOfFinishedJob

LEMMA InitPInv == PaidInit => PInv
<1> SUFFICES ASSUME PaidInit PROVE PInv
  OBVIOUS
<1> USE DEF PaidInit
<1>1. PaidTypeOK
  <2>1. {key, hook, failed} \subseteq BOOLEAN
    OBVIOUS
  <2>2. polls \in 0..MaxPolls
    BY PaidAssumption
  <2> QED BY <2>1, <2>2 DEF PaidTypeOK, JobStates
<1>2. AwaitInv
  BY DEF AwaitInv
<1>3. AnswerInv /\ ResultOfFinishedJob
  BY DEF AnswerInv, ResultOfFinishedJob
<1> QED BY <1>1, <1>2, <1>3 DEF PInv

\* Every step keeps the invariant.
LEMMA NextKeepsPInv == PInv /\ [PaidNext]_paidVars => PInv'
<1> SUFFICES ASSUME PInv, [PaidNext]_paidVars PROVE PInv'
  OBVIOUS
<1> USE PaidAssumption DEF PInv, PaidTypeOK, AwaitInv, AnswerInv, ResultOfFinishedJob,
                           Requests, JobStates, Answer, Await
<1>1. CASE UNCHANGED paidVars
  BY <1>1 DEF paidVars
<1>2. CASE Refused \/ Begin
  BY <1>2 DEF Refused, Begin, Adapters
<1>3. CASE Scraped \/ Found
  BY <1>3 DEF Scraped, Found
<1>4. CASE HookParsed
  BY <1>4 DEF HookParsed
<1>5. CASE Uploaded
  BY <1>5 DEF Uploaded
<1>6. CASE StatusAnswers
  BY <1>6 DEF StatusAnswers
<1>7. CASE SleepEnds
  BY <1>7 DEF SleepEnds
<1>8. CASE MarkdownReturns
  BY <1>8 DEF MarkdownReturns
<1>9. CASE Fails \/ Raises
  BY <1>9 DEF Fails, Raises
<1>10. CASE JobMoves
  BY <1>10 DEF JobMoves
<1> QED BY <1>1, <1>2, <1>3, <1>4, <1>5, <1>6, <1>7, <1>8, <1>9, <1>10
        DEF PaidNext, PaidStep

LEMMA PInvHolds == PaidSpec => []PInv
<1> QED BY InitPInv, NextKeepsPInv, PTL DEF PaidSpec

-------------------------------------------------------------------------------

\* For any limit, the job is not looked at more often than the limit says
\* (llamaparse_adapter.py, _parse_live), and what an adapter answers is of its types.
THEOREM PollsBounded == PaidSpec => []PaidTypeOK
<1>1. PInv => PaidTypeOK
  BY DEF PInv
<1> QED BY <1>1, PInvHolds, PTL

\* A document comes from a job that the service has finished, however the job moves
\* between two polls (llamaparse_adapter.py, _parse_live).
THEOREM DocumentFinished == PaidSpec => []ResultOfFinishedJob
<1>1. PInv => ResultOfFinishedJob
  BY DEF PInv
<1> QED BY <1>1, PInvHolds, PTL

\* No failure of a service or of an injected function comes back as content or as a
\* list of hits, not even an empty one (exa_adapter.py, firecrawl_adapter.py,
\* llamaparse_adapter.py).
THEOREM FailuresShow == PaidSpec => []FailureIsNoAnswer
<1>1. PInv => FailureIsNoAnswer
  BY DEF PInv, AnswerInv, FailureIsNoAnswer
<1> QED BY <1>1, PInvHolds, PTL

\* A job that was seen to succeed or to fail is not asked about again
\* (llamaparse_adapter.py, _parse_live).
THEOREM PollingStops == PaidSpec => FinalStateEndsPolling
<1>1. PInv /\ [PaidNext]_paidVars =>
         [polls' # polls => state \notin {"success", "failed"}]_paidVars
  BY DEF PInv, AwaitInv, paidVars, PaidNext, PaidStep, Refused, Begin, Scraped, Found,
         HookParsed, Uploaded, StatusAnswers, SleepEnds, MarkdownReturns, Fails, Raises,
         JobMoves
<1> QED BY <1>1, PInvHolds, PTL DEF PaidSpec, FinalStateEndsPolling

===============================================================================
