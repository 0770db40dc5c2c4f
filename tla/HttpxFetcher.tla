----------------------------- MODULE HttpxFetcher -----------------------------
(***************************************************************************)
(* The default fetcher (fetch/httpx_adapter.py).  Its tasks share one      *)
(* httpx.AsyncClient, made by the first fetch and dropped by close; both   *)
(* suspend, in client.get and in client.aclose, with the client in their   *)
(* hands.  The client is httpx's: aclose marks it closed before it         *)
(* suspends, and a request on a closed client raises RuntimeError.         *)
(***************************************************************************)
EXTENDS Naturals, FiniteSets

CONSTANTS
    Tasks,
    Closers,    \* the tasks that may call close()
    MaxClients  \* bound: how many clients are ever made

ASSUME HttpxAssumption ==
    /\ Closers \subseteq Tasks
    /\ MaxClients \in Nat \ {0}

VARIABLES
    client,   \* self._client: a client, or 0 for None
    owns,     \* self._owns_client: no client was injected
    clients,  \* the state of each httpx.AsyncClient
    pc,       \* what each task awaits
    answer    \* what its last fetch came to

httpxVars == <<client, owns, clients, pc, answer>>

Clients == 1..MaxClients

\* What a server may answer: the host it was redirected to, the status, whether the
\* body is binary, and whether a text has enough visible characters.
Responses ==
    [host : {"asked", "allowed", "left"}, status : {200, 404, 429, 503},
     binary : BOOLEAN, visible : BOOLEAN]

FetchErrors == {"forbidden_url", "timeout", "unknown", "not_found",
                "rate_limited", "empty_shell"}

\* Mutant: an error type of its own for a failing server.
OutcomeServerError(r) ==
    IF r.host = "left" THEN "forbidden_url"
    ELSE IF r.status = 503 THEN "server_error"
    ELSE IF r.status # 200 THEN "not_found"
    ELSE IF ~r.binary /\ ~r.visible THEN "empty_shell"
    ELSE "result"

\* What fetch makes of a response, in the order of its tests.  Any other status than
\* the two it names is taken for content.
Outcome(r) ==
    IF r.host = "left" THEN "forbidden_url"
    ELSE IF r.status = 404 THEN "not_found"
    ELSE IF r.status = 429 THEN "rate_limited"
    ELSE IF r.binary THEN "result"
    ELSE IF ~r.visible THEN "empty_shell"
    ELSE "result"

HttpxInit ==
    /\ owns \in BOOLEAN
    /\ client = IF owns THEN 0 ELSE 1
    /\ clients = [n \in Clients |-> IF n = client THEN "open" ELSE "unmade"]
    /\ pc = [t \in Tasks |-> "idle"]
    /\ answer = [t \in Tasks |-> "none"]

\* The fetch of task t comes to a.
Answer(t, a) == answer' = [answer EXCEPT ![t] = a]

Await(t, label) == pc' = [pc EXCEPT ![t] = label]

\* The URL is refused before any client is looked at, or urlparse raises ValueError of
\* it, which nothing catches.
FetchRefused(t) ==
    /\ pc[t] = "idle"
    /\ \E a \in {"forbidden_url", "invalid_url"} : Answer(t, a)
    /\ UNCHANGED <<client, owns, clients, pc>>

\* client.get builds the request before it suspends: httpx.InvalidURL, which is no
\* HTTPError, leaves fetch.
Get(t) ==
    \/ Await(t, "get") /\ Answer(t, "none")
    \/ Answer(t, "invalid_url") /\ UNCHANGED pc

\* _ensure_client makes a client only when there is none.
FetchWithNewClient(t) ==
    /\ pc[t] = "idle" /\ client = 0
    /\ \E n \in Clients :
          /\ clients[n] = "unmade"
          /\ \A m \in 1..(n - 1) : clients[m] # "unmade"
          /\ clients' = [clients EXCEPT ![n] = "open"]
          /\ client' = n
    /\ Get(t)
    /\ UNCHANGED owns

FetchWithClient(t) ==
    /\ pc[t] = "idle" /\ client # 0
    /\ \/ clients[client] = "open" /\ Get(t)
       \/ /\ clients[client] = "closed" /\ UNCHANGED pc
          /\ \E a \in {"raised", "invalid_url"} : Answer(t, a)
    /\ UNCHANGED <<client, owns, clients>>

GetAnswers(t) ==
    /\ pc[t] = "get"
    /\ \E r \in Responses : Answer(t, Outcome(r))
    /\ Await(t, "idle")
    /\ UNCHANGED <<client, owns, clients>>

\* httpx.TimeoutException, or another httpx.HTTPError.
GetFails(t) ==
    /\ pc[t] = "get"
    /\ \E error \in {"timeout", "unknown"} : Answer(t, error)
    /\ Await(t, "idle")
    /\ UNCHANGED <<client, owns, clients>>

\* Mutant: close() closes an injected client too.
MayCloseAny(t) == pc[t] = "idle" /\ t \in Closers /\ client # 0

MayClose(t) == pc[t] = "idle" /\ t \in Closers /\ owns /\ client # 0

\* Mutant: self._client is dropped before the client is closed.
CloseBeginsDropping(t) ==
    /\ MayClose(t) /\ clients[client] = "open"
    /\ client' = 0
    /\ Await(t, "aclose")
    /\ UNCHANGED <<owns, clients, answer>>

\* aclose suspends with self._client still set.
CloseBegins(t) ==
    /\ MayClose(t) /\ clients[client] = "open"
    /\ clients' = [clients EXCEPT ![client] = "closed"]
    /\ Await(t, "aclose")
    /\ UNCHANGED <<client, owns, answer>>

\* aclose of a closed client does nothing and does not suspend.
CloseAgain(t) ==
    /\ MayClose(t) /\ clients[client] = "closed"
    /\ client' = 0
    /\ UNCHANGED <<owns, clients, pc, answer>>

CloseEnds(t) ==
    /\ pc[t] = "aclose"
    /\ client' = 0
    /\ Await(t, "idle")
    /\ UNCHANGED <<owns, clients, answer>>

\* A task is cancelled in either await.
Cancelled(t) ==
    /\ pc[t] # "idle"
    /\ Await(t, "idle")
    /\ UNCHANGED <<client, owns, clients, answer>>

HttpxNext ==
    \E t \in Tasks :
        \/ FetchRefused(t) \/ FetchWithNewClient(t) \/ FetchWithClient(t)
        \/ GetAnswers(t) \/ GetFails(t)
        \/ CloseBegins(t) \/ CloseAgain(t) \/ CloseEnds(t) \/ Cancelled(t)

HttpxSpec == HttpxInit /\ [][HttpxNext]_httpxVars

-------------------------------------------------------------------------------

\* Every variable has its type: what fetch answers of a URL that can be parsed is
\* content or a member of ErrorType.
HttpxTypeOK ==
    /\ client \in {0} \cup Clients
    /\ owns \in BOOLEAN
    /\ clients \in [Clients -> {"unmade", "open", "closed"}]
    /\ pc \in [Tasks -> {"idle", "get", "aclose"}]
    /\ answer \in [Tasks -> {"none", "result", "raised", "invalid_url"} \cup FetchErrors]

\* Every open client this adapter made is the one in self._client: none is dropped
\* without being closed, and no two pools are open at once (httpx_adapter.py,
\* "Release the underlying connection pool").
OpenClientIsHeld ==
    owns => \A n \in Clients : clients[n] = "open" => client = n

\* A client the caller injected stays in place and open, whatever is closed or
\* cancelled ("an injected client is the caller's responsibility to close").
InjectedStaysOpen == ~owns => client = 1 /\ clients[1] = "open"

(* What the documentation says and the code does not do.                   *)

\* fetch returns a typed error and never raises (fetch/protocol.py), whatever another
\* task does to the client meanwhile.  The exception of a URL that cannot be parsed is
\* an answer of its own, "invalid_url", and not what this is about.
FetchNeverRaises == \A t \in Tasks : answer[t] # "raised"

===============================================================================
