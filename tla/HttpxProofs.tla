------------------------------ MODULE HttpxProofs ------------------------------
(***************************************************************************)
(* The client of the httpx fetcher, for any number of tasks and clients.   *)
(* An injected client is safe from any closers; that no pool is dropped    *)
(* open holds when close() is called by one task at a time: a second one   *)
(* could drop the client before the first resumes, and the first would     *)
(* then drop the client that a fetch has made since.                       *)
(***************************************************************************)
EXTENDS HttpxFetcher, TLAPS

\* An injected client is in place and open, and close() never waits for its end.
InjectedInv ==
    /\ HttpxTypeOK
    /\ InjectedStaysOpen
    /\ \A t \in Tasks : pc[t] = "aclose" => t \in Closers /\ owns

\* While one task closes, the client it closes is the one in self._client.
ClosingInv ==
    /\ OpenClientIsHeld
    /\ \A t \in Tasks : pc[t] = "aclose" => client # 0 /\ clients[client] = "closed"

OneCloser == \A s, t \in Closers : s = t

\* What fetch makes of a response is content or a typed error.
LEMMA OutcomeTyped == \A r \in Responses : Outcome(r) \in {"result"} \cup FetchErrors
BY DEF Responses, Outcome, FetchErrors

LEMMA InitInv == HttpxInit => InjectedInv /\ ClosingInv
BY HttpxAssumption DEF HttpxInit, InjectedInv, ClosingInv, HttpxTypeOK, InjectedStaysOpen,
       OpenClientIsHeld, Clients

\* The steps of a task keep the types and leave an injected client alone.
LEMMA StepKeepsInjected == InjectedInv /\ [HttpxNext]_httpxVars => InjectedInv'
<1> SUFFICES ASSUME InjectedInv, [HttpxNext]_httpxVars PROVE InjectedInv'
  OBVIOUS
<1> USE DEF InjectedInv, HttpxTypeOK, InjectedStaysOpen, Answer, Await
<1>1. CASE UNCHANGED httpxVars
  BY <1>1 DEF httpxVars
<1>2. ASSUME NEW t \in Tasks, FetchRefused(t) PROVE InjectedInv'
  BY <1>2 DEF FetchRefused, FetchErrors
<1>3. ASSUME NEW t \in Tasks, FetchWithNewClient(t) PROVE InjectedInv'
  BY <1>3 DEF FetchWithNewClient, Get, Clients
<1>4. ASSUME NEW t \in Tasks, FetchWithClient(t) PROVE InjectedInv'
  BY <1>4 DEF FetchWithClient, Get
<1>5. ASSUME NEW t \in Tasks, GetAnswers(t) PROVE InjectedInv'
  BY <1>5, OutcomeTyped DEF GetAnswers
<1>6. ASSUME NEW t \in Tasks, GetFails(t) PROVE InjectedInv'
  BY <1>6 DEF GetFails, FetchErrors
<1>7. ASSUME NEW t \in Tasks, CloseBegins(t) PROVE InjectedInv'
  BY <1>7 DEF CloseBegins, MayClose
<1>8. ASSUME NEW t \in Tasks, CloseAgain(t) \/ CloseEnds(t) PROVE InjectedInv'
  BY <1>8 DEF CloseAgain, CloseEnds, MayClose
<1>9. ASSUME NEW t \in Tasks, Cancelled(t) PROVE InjectedInv'
  BY <1>9 DEF Cancelled
<1> QED BY <1>1, <1>2, <1>3, <1>4, <1>5, <1>6, <1>7, <1>8, <1>9 DEF HttpxNext

\* With one closer, no step drops a client that is open.
LEMMA StepKeepsHeld ==
    ASSUME OneCloser, InjectedInv, ClosingInv, [HttpxNext]_httpxVars
    PROVE  ClosingInv'
<1> USE DEF ClosingInv, OpenClientIsHeld, Answer, Await
<1>0. /\ client \in {0} \cup Clients /\ clients \in [Clients -> {"unmade", "open", "closed"}]
      /\ pc \in [Tasks -> {"idle", "get", "aclose"}] /\ 0 \notin Clients
      /\ \A t \in Tasks : pc[t] = "aclose" => t \in Closers /\ owns
  BY DEF InjectedInv, HttpxTypeOK, Clients
<1>1. CASE UNCHANGED httpxVars
  BY <1>1 DEF httpxVars
<1>2. ASSUME NEW t \in Tasks, FetchRefused(t) \/ FetchWithClient(t) PROVE ClosingInv'
  BY <1>0, <1>2 DEF FetchRefused, FetchWithClient, Get
<1>3. ASSUME NEW t \in Tasks, FetchWithNewClient(t) PROVE ClosingInv'
  <2>1. PICK n \in Clients : clients' = [clients EXCEPT ![n] = "open"] /\ client' = n
    BY <1>3 DEF FetchWithNewClient
  <2>2. client = 0 /\ owns' = owns /\ pc' \in {pc, [pc EXCEPT ![t] = "get"]}
    BY <1>3 DEF FetchWithNewClient, Get
  <2>3. \A s \in Tasks : pc'[s] # "aclose"
    BY <1>0, <2>2
  <2>4. owns => \A m \in Clients : clients[m] # "open"
    BY <1>0, <2>2
  <2> QED BY <1>0, <2>1, <2>2, <2>3, <2>4
<1>4. ASSUME NEW t \in Tasks, GetAnswers(t) \/ GetFails(t) \/ Cancelled(t) PROVE ClosingInv'
  BY <1>0, <1>4 DEF GetAnswers, GetFails, Cancelled
<1>5. ASSUME NEW t \in Tasks, CloseBegins(t) PROVE ClosingInv'
  BY <1>0, <1>5 DEF CloseBegins, MayClose
<1>6. ASSUME NEW t \in Tasks, CloseAgain(t) \/ CloseEnds(t) PROVE ClosingInv'
  <2>1. client # 0 /\ clients[client] = "closed" /\ client' = 0 /\ UNCHANGED <<owns, clients>>
    BY <1>6 DEF CloseAgain, CloseEnds, MayClose
  <2>2. t \in Closers /\ owns
    BY <1>0, <1>6 DEF CloseAgain, CloseEnds, MayClose
  <2>3. \A n \in Clients : clients[n] # "open"
    BY <2>1, <2>2
  <2>4. \A s \in Tasks : pc'[s] # "aclose"
    BY <1>0, <1>6, <2>2 DEF CloseAgain, CloseEnds, MayClose, OneCloser
  <2> QED BY <2>1, <2>3, <2>4
<1> QED BY <1>1, <1>2, <1>3, <1>4, <1>5, <1>6 DEF HttpxNext

LEMMA InjectedInvHolds == HttpxSpec => []InjectedInv
<1> QED BY InitInv, StepKeepsInjected, PTL DEF HttpxSpec

-------------------------------------------------------------------------------

\* Whatever a server answers, and however fetches and closes interleave, a fetch comes
\* to content, an error type, or the exception of a closed client or of a URL that
\* cannot be parsed (httpx_adapter.py, fetch).
THEOREM AnswersTyped == HttpxSpec => []HttpxTypeOK
<1>1. InjectedInv => HttpxTypeOK
  BY DEF InjectedInv
<1> QED BY <1>1, InjectedInvHolds, PTL

\* No task, however many close, takes a client away that the caller injected
\* (httpx_adapter.py, close).
THEOREM InjectedUntouched == HttpxSpec => []InjectedStaysOpen
<1>1. InjectedInv => InjectedStaysOpen
  BY DEF InjectedInv
<1> QED BY <1>1, InjectedInvHolds, PTL

\* With one task that closes, at any time and as often as it likes, and any number
\* that fetch, every open client is the one in self._client: none is dropped with its
\* pool open (httpx_adapter.py, _ensure_client and close).
THEOREM NoPoolDropped ==
    ASSUME OneCloser
    PROVE  HttpxSpec => []OpenClientIsHeld
<1>1. InjectedInv /\ ClosingInv /\ [HttpxNext]_httpxVars => ClosingInv'
  BY StepKeepsHeld
<1>2. ClosingInv => OpenClientIsHeld
  BY DEF ClosingInv
<1> QED BY <1>1, <1>2, InitInv, InjectedInvHolds, PTL DEF HttpxSpec

===============================================================================
