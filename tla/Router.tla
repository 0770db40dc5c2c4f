-------------------------------- MODULE Router --------------------------------
(***************************************************************************)
(* The router of wyndpy (core/router.py): Track A fetches the known source *)
(* of an item through a chain of fetchers, Track B discovers a source      *)
(* through a chain of searchers, and `resolve` wires the second into the   *)
(* first.  Everything runs on one asyncio event loop, so a caller can be   *)
(* preempted only at an await: each action below is the code between two   *)
(* awaits, and pc[c] names the await caller c is suspended at.             *)
(*                                                                         *)
(*   lockA, lockB   async with self._lock_for(item.id)                     *)
(*   fetch, sleep   fetcher.fetch, the backoff between two retries         *)
(*   parse          parser.parse                                           *)
(*   search, trust  searcher.search, trust.is_trusted                      *)
(*   saveA, saveB   registry.upsert, at the end of either track            *)
(*                                                                         *)
(* Adapters, the trust strategy and the registry are protocols: any answer *)
(* they may give, or an exception, is an alternative of an action.         *)
(***************************************************************************)
EXTENDS Escalation

CONSTANTS
    Callers,         \* tasks that call the router
    Ids,             \* item ids
    Objects,         \* ResolvableItem objects in memory
    IdOf,            \* the id of each object; two objects may share one
    Urls,
    Trusted,         \* the URLs the trust strategy accepts
    Hashes,          \* digests of fetched bodies
    FetchErrors,     \* the error types the fetchers report
    CandidateLists,  \* the answers a searcher may give, as sequences of URLs
    InitSources,     \* the sources an item may be registered with
    Configs          \* the router records explored

ASSUME RouterAssumption ==
    /\ IdOf \in [Objects -> Ids]
    /\ Trusted \subseteq Urls
    /\ None \notin Hashes \cup Objects \cup Urls
    /\ FetchErrors \subseteq ErrorType
    /\ CandidateLists \subseteq Seq(Urls)
    /\ InitSources \subseteq Seq(Urls)
    /\ Configs \subseteq RouterRecord

VARIABLES
    config,  \* the constructor's arguments; never change
    obj,     \* the ResolvableItem objects
    stored,  \* what registry.upsert last wrote for each id
    lock,    \* per id, the callers at its asyncio.Lock: its owner, then FIFO
    pc,      \* the await each caller is suspended at
    frame,   \* the local variables of each call
    torn     \* ids whose last upsert was interrupted (history, for Persisted)

vars == <<config, obj, stored, lock, pc, frame, torn>>

ItemStatus == {"resolved", "unresolved", "fetch_exhausted",
               "pending_discovery", "pending_review"}

ResolvableItem ==
    [current_sources : Seq(Urls), candidate_sources : Seq(Urls),
     discovered_urls_seen : SUBSET Urls, status : ItemStatus,
     last_content_hash : Hashes \cup {None}]

NewItem(sources) ==
    [current_sources |-> sources, candidate_sources |-> <<>>,
     discovered_urls_seen |-> {}, status |-> "pending_discovery",
     last_content_hash |-> None]

Answers == {"none", "candidate", "result", "error", "raised"}

\* The locals of a call that has not started; `ret` is what it will return.
NoFrame ==
    [item |-> None, resolving |-> FALSE, cur |-> 0, visited |-> {}, attempt |-> 0,
     searcher |-> 0, found |-> <<>>, ret |-> "none"]

Waiting == {"lockA", "lockB"}
TrackA == {"fetch", "sleep", "parse", "saveA"}
TrackB == {"search", "trust", "saveB"}
Saving == {"saveA", "saveB"}
Inside == TrackA \cup TrackB

Id(c) == IdOf[frame[c].item]
Item(c) == obj[frame[c].item]

Init ==
    /\ config \in Configs
    /\ \E registered \in [Ids -> InitSources] :
          /\ obj = [o \in Objects |-> NewItem(registered[IdOf[o]])]
          /\ stored = [i \in Ids |-> NewItem(registered[i])]
    /\ lock = [i \in Ids |-> <<>>]
    /\ pc = [c \in Callers |-> "idle"]
    /\ frame = [c \in Callers |-> NoFrame]
    /\ torn = {}

-------------------------------------------------------------------------------
(* The lock of an item, and the steps every operation shares.              *)

\* Mutant: the lock is not waited for.
HoldsLockAlready(c) == lock[Id(c)] # <<>>

HoldsLock(c) == lock[Id(c)] # <<>> /\ Head(lock[Id(c)]) = c

Goto(c, label) == pc' = [pc EXCEPT ![c] = label]

\* `async with` leaves the lock and the call returns.
Return(c, answer) ==
    /\ lock' = [lock EXCEPT ![Id(c)] = Tail(@)]
    /\ Goto(c, "idle")
    /\ frame' = [frame EXCEPT ![c] = [NoFrame EXCEPT !.ret = answer]]

Upsert(o) ==
    /\ stored' = [stored EXCEPT ![IdOf[o]] = obj[o]]
    /\ torn' = torn \ {IdOf[o]}

\* A call begins, and queues for the lock of the item's id.
Start(c, o, label, resolving) ==
    /\ pc[c] = "idle"
    /\ lock' = [lock EXCEPT ![IdOf[o]] = Append(@, c)]
    /\ Goto(c, label)
    /\ frame' = [frame EXCEPT ![c] = [NoFrame EXCEPT !.item = o, !.resolving = resolving]]
    /\ UNCHANGED <<config, obj, stored, torn>>

CallResolveKnownSource(c, o) == Start(c, o, "lockA", FALSE)

CallDiscoverSource(c, o) == Start(c, o, "lockB", FALSE)

\* The choice of the track is made before the lock is asked for.
CallResolve(c, o) ==
    Start(c, o, IF obj[o].current_sources # <<>> THEN "lockA" ELSE "lockB", TRUE)

-------------------------------------------------------------------------------
(* Track A: resolve_known_source.                                          *)

\* Await fetcher number f, which this call has not tried yet.  The URL it is given was
\* read once, when the track began; an answer does not depend on it.
AttemptFetch(c, f) ==
    /\ Goto(c, "fetch")
    /\ frame' = [frame EXCEPT ![c].cur = f,
                              ![c].visited = @ \cup {f},
                              ![c].attempt = 0]

\* Set the item's fields and await the upsert that ends the track.
Finish(c, item, label, answer) ==
    /\ obj' = [obj EXCEPT ![frame[c].item] = item]
    /\ Goto(c, label)
    /\ frame' = [frame EXCEPT ![c] =
                    [NoFrame EXCEPT !.item = frame[c].item,
                                    !.resolving = frame[c].resolving,
                                    !.ret = answer]]
    /\ UNCHANGED <<config, stored, lock, torn>>

EnterTrackA(c) ==
    /\ pc[c] = "lockA"
    /\ HoldsLock(c)
    /\ \/ Item(c).current_sources = <<>> /\ Return(c, "raised")
       \/ /\ Item(c).current_sources # <<>> /\ config.fetchers = <<>>
          /\ Return(c, "error")
       \/ /\ Item(c).current_sources # <<>> /\ config.fetchers # <<>>
          /\ AttemptFetch(c, 1)
          /\ UNCHANGED lock
    /\ UNCHANGED <<config, obj, stored, torn>>

MayRetry(c, error) ==
    error \in RETRYABLE_ERRORS /\ frame[c].attempt < config.retry_attempts

RetryLater(c) ==
    /\ pc[c] = "fetch"
    /\ \E error \in FetchErrors : MayRetry(c, error)
    /\ Goto(c, "sleep")
    /\ UNCHANGED <<config, obj, stored, lock, frame, torn>>

SleepEnds(c) ==
    /\ pc[c] = "sleep"
    /\ Goto(c, "fetch")
    /\ frame' = [frame EXCEPT ![c].attempt = @ + 1]
    /\ UNCHANGED <<config, obj, stored, lock, torn>>

\* Mutant: adapters already tried are tried again.
UntriedForgotten(c, f) == f # 0

\* The loop goes on only with an adapter this call has not tried.
Untried(c, f) == f # 0 /\ f \notin frame[c].visited

Escalate(c) ==
    /\ pc[c] = "fetch"
    /\ \E error \in FetchErrors :
          LET next == NextFetcher(config, frame[c].cur, error)
          IN  ~MayRetry(c, error) /\ Untried(c, next) /\ AttemptFetch(c, next)
    /\ UNCHANGED <<config, obj, stored, lock, torn>>

Exhaust(c) ==
    /\ pc[c] = "fetch"
    /\ \E error \in FetchErrors :
          /\ ~MayRetry(c, error)
          /\ ~Untried(c, NextFetcher(config, frame[c].cur, error))
    /\ Finish(c, [Item(c) EXCEPT !.status = "fetch_exhausted"], "saveA", "error")

HashSkip(c) ==
    /\ pc[c] = "fetch"
    /\ Item(c).last_content_hash \in Hashes
    /\ Finish(c, [Item(c) EXCEPT !.status = "resolved"], "saveA", "result")

Fetched(c) ==
    /\ pc[c] = "fetch"
    /\ \E hash \in Hashes \ {Item(c).last_content_hash}, mime \in MimeTypes :
          /\ ParserForContentType(config, frame[c].cur, mime) = 0
          /\ Finish(c, [Item(c) EXCEPT !.last_content_hash = hash, !.status = "resolved"],
                    "saveA", "result")

\* Mutant: parsed content marks the item resolved, and the upsert is forgotten.
HandToParserUnsaved(c) ==
    /\ pc[c] = "fetch"
    /\ \E hash \in Hashes \ {Item(c).last_content_hash} :
          obj' = [obj EXCEPT ![frame[c].item].last_content_hash = hash,
                             ![frame[c].item].status = "resolved"]
    /\ \E mime \in MimeTypes : ParserForContentType(config, frame[c].cur, mime) # 0
    /\ Goto(c, "parse")
    /\ UNCHANGED <<config, stored, lock, frame, torn>>

\* A parser takes over: the call returns what it says and leaves the item alone.
\* Without raw bytes there is nothing to parse, and the call returns at once.
HandToParser(c) ==
    /\ pc[c] = "fetch"
    /\ Hashes \ {Item(c).last_content_hash} # {}
    /\ \E mime \in MimeTypes : ParserForContentType(config, frame[c].cur, mime) # 0
    /\ \/ Return(c, "error")
       \/ Goto(c, "parse") /\ UNCHANGED <<lock, frame>>
    /\ UNCHANGED <<config, obj, stored, torn>>

ParserReturns(c) ==
    /\ pc[c] = "parse"
    /\ \E answer \in {"result", "error"} : Return(c, answer)
    /\ UNCHANGED <<config, obj, stored, torn>>

SaveTrackA(c) ==
    /\ pc[c] = "saveA"
    /\ Upsert(frame[c].item)
    /\ Return(c, frame[c].ret)
    /\ UNCHANGED <<config, obj>>

-------------------------------------------------------------------------------
(* Track B: discover_source.                                               *)

\* Mutant: the duplicate test looks at the staged alternates alone.
UnseenUnlessStaged(c, candidates) ==
    LET first == SelectInSeq(candidates,
                     LAMBDA url : url \notin ToSet(Item(c).candidate_sources))
    IN  IF first = 0 THEN <<>> ELSE SubSeq(candidates, first, Len(candidates))

\* Candidates seen before are passed over without an await.
Unseen(c, candidates) ==
    LET first == SelectInSeq(candidates,
                     LAMBDA url : url \notin Item(c).discovered_urls_seen)
    IN  IF first = 0 THEN <<>> ELSE SubSeq(candidates, first, Len(candidates))

\* Go on to the next candidate of the answer, else to the next searcher, else
\* give up.
Continue(c, candidates) ==
    \/ /\ Unseen(c, candidates) # <<>>
       /\ Goto(c, "trust")
       /\ frame' = [frame EXCEPT ![c].found = Unseen(c, candidates)]
       /\ UNCHANGED <<config, obj, stored, lock, torn>>
    \/ /\ Unseen(c, candidates) = <<>> /\ frame[c].searcher < config.searchers
       /\ Goto(c, "search")
       /\ frame' = [frame EXCEPT ![c].searcher = @ + 1, ![c].found = <<>>]
       /\ UNCHANGED <<config, obj, stored, lock, torn>>
    \/ /\ Unseen(c, candidates) = <<>> /\ frame[c].searcher >= config.searchers
       /\ Finish(c, [Item(c) EXCEPT !.status = "unresolved"], "saveB", "none")

EnterTrackB(c) ==
    /\ pc[c] = "lockB"
    /\ HoldsLock(c)
    /\ Continue(c, <<>>)

SearchReturns(c) ==
    /\ pc[c] = "search"
    /\ \E candidates \in CandidateLists : Continue(c, candidates)

\* Mutant: the latest discovery replaces the source.
MergeReplaces(item, url) ==
    [item EXCEPT !.discovered_urls_seen = @ \cup {url},
                 !.current_sources = <<url>>,
                 !.status = "pending_review"]

\* Mutant: a staged alternate puts the item under review as a new source would.
MergeAlwaysPending(item, url) ==
    LET seen == [item EXCEPT !.discovered_urls_seen = @ \cup {url},
                             !.status = "pending_review"]
    IN  IF item.current_sources # <<>>
        THEN [seen EXCEPT !.candidate_sources = Append(@, url)]
        ELSE [seen EXCEPT !.current_sources = Append(@, url)]

\* Mutant: the latest alternate is staged first.
MergeNewestFirst(item, url) ==
    LET seen == [item EXCEPT !.discovered_urls_seen = @ \cup {url}]
    IN  IF item.current_sources # <<>>
        THEN [seen EXCEPT !.candidate_sources = <<url>> \o @]
        ELSE [seen EXCEPT !.current_sources = Append(@, url),
                          !.status = "pending_review"]

\* The merge rules: a first source is promoted, a later one is staged.
Merge(item, url) ==
    LET seen == [item EXCEPT !.discovered_urls_seen = @ \cup {url}]
    IN  IF item.current_sources # <<>>
        THEN [seen EXCEPT !.candidate_sources = Append(@, url)]
        ELSE [seen EXCEPT !.current_sources = Append(@, url),
                          !.status = "pending_review"]

IsTrusted(url) == url \in Trusted

TrustAnswers(c) ==
    /\ pc[c] = "trust"
    /\ LET url == Head(frame[c].found)
       IN  \/ /\ IsTrusted(url)
              /\ Finish(c, Merge(Item(c), url), "saveB", "candidate")
           \/ ~IsTrusted(url) /\ Continue(c, Tail(frame[c].found))

\* `resolve` goes on to fetch what it has just discovered.
GoesOnToFetch(c) ==
    /\ frame[c].resolving
    /\ frame[c].ret = "candidate"
    /\ Item(c).status = "pending_review"
    /\ ~config.require_review

\* There is no await between the release of the lock and the next request.
SaveTrackB(c) ==
    /\ pc[c] = "saveB"
    /\ Upsert(frame[c].item)
    /\ \/ /\ GoesOnToFetch(c)
          /\ lock' = [lock EXCEPT ![Id(c)] = Append(Tail(@), c)]
          /\ Goto(c, "lockA")
          /\ frame' = [frame EXCEPT ![c].ret = "none"]
       \/ /\ ~GoesOnToFetch(c)
          /\ Return(c, IF frame[c].resolving THEN "none" ELSE frame[c].ret)
    /\ UNCHANGED <<config, obj>>

-------------------------------------------------------------------------------
(* An await raises: an adapter or the registry fails, or the task is       *)
(* cancelled.  The lock is left, the item keeps the fields already set, and *)
(* an interrupted upsert has reached the registry or has not.              *)

RaiseInside(c) ==
    /\ pc[c] \in Inside
    /\ Return(c, "raised")
    /\ \/ pc[c] \in Saving /\ Upsert(frame[c].item)
       \/ pc[c] \in Saving /\ torn' = torn \cup {Id(c)} /\ UNCHANGED stored
       \/ pc[c] \notin Saving /\ UNCHANGED <<stored, torn>>
    /\ UNCHANGED <<config, obj>>

\* Mutant: a task cancelled while it waits is not taken off the queue.
CancelWaitingQueued(c) ==
    /\ pc[c] \in Waiting
    /\ Goto(c, "idle")
    /\ frame' = [frame EXCEPT ![c] = [NoFrame EXCEPT !.ret = "raised"]]
    /\ UNCHANGED <<config, obj, stored, lock, torn>>

\* A task cancelled while it waits leaves the queue of the lock.
CancelWaiting(c) ==
    /\ pc[c] \in Waiting
    /\ \E k \in DOMAIN lock[Id(c)] :
          /\ lock[Id(c)][k] = c
          /\ lock' = [lock EXCEPT ![Id(c)] = RemoveAt(@, k)]
    /\ Goto(c, "idle")
    /\ frame' = [frame EXCEPT ![c] = [NoFrame EXCEPT !.ret = "raised"]]
    /\ UNCHANGED <<config, obj, stored, torn>>

-------------------------------------------------------------------------------

Call(c) == \E o \in Objects : \/ CallResolveKnownSource(c, o)
                              \/ CallDiscoverSource(c, o)
                              \/ CallResolve(c, o)

\* What a call does by itself once it has begun.
Step(c) == \/ EnterTrackA(c) \/ RetryLater(c) \/ SleepEnds(c) \/ Escalate(c)
           \/ Exhaust(c) \/ HashSkip(c) \/ Fetched(c) \/ HandToParser(c)
           \/ ParserReturns(c) \/ SaveTrackA(c) \/ EnterTrackB(c)
           \/ SearchReturns(c) \/ TrustAnswers(c) \/ SaveTrackB(c)

Raise(c) == RaiseInside(c) \/ CancelWaiting(c)

Next == \E c \in Callers : Call(c) \/ Step(c) \/ Raise(c)

Spec == Init /\ [][Next]_vars

\* Every adapter call answers in the end and the event loop runs every ready task.
FairSpec == Spec /\ \A c \in Callers : WF_vars(Step(c))

-------------------------------------------------------------------------------
(* What a caller's locals may be.                                          *)

Frame ==
    [item : Objects \cup {None}, resolving : BOOLEAN, cur : Nat, visited : SUBSET Nat,
     attempt : Nat, searcher : Nat, found : Seq(Urls), ret : Answers]

LocalsOK(c) ==
    /\ pc[c] # "idle" => frame[c].item \in Objects
    /\ frame[c].visited \subseteq DOMAIN config.fetchers
    /\ pc[c] \in {"fetch", "sleep", "parse"} =>
          frame[c].cur \in frame[c].visited /\ Item(c).current_sources # <<>>
    /\ frame[c].attempt <= config.retry_attempts
    /\ frame[c].searcher <= config.searchers
    /\ pc[c] = "sleep" => frame[c].attempt < config.retry_attempts
    /\ pc[c] = "trust" => frame[c].found # <<>>

\* Every variable has its type, and the locals of a call fit the router: an
\* adapter index is within its list, a retry count within its limit, and an item
\* being fetched has a source.
TypeOK ==
    /\ config \in Configs
    /\ obj \in [Objects -> ResolvableItem]
    /\ stored \in [Ids -> ResolvableItem]
    /\ lock \in [Ids -> Seq(Callers)]
    /\ pc \in [Callers -> {"idle"} \cup Waiting \cup Inside]
    /\ frame \in [Callers -> Frame]
    /\ torn \subseteq Ids
    /\ \A c \in Callers : LocalsOK(c)

\* One attempt at a time per item: two callers are never between the two ends of
\* `async with self._lock_for(item.id)` for the same id, whatever is cancelled or
\* raises while others wait (router.py, class docstring).
SingleFlight ==
    \A c, d \in Callers :
        pc[c] \in Inside /\ pc[d] \in Inside /\ Id(c) = Id(d) => c = d

\* The lock's queue of an item holds every call in progress for it, once each, and no
\* other: a cancelled waiter is never handed the lock, a call that raises never keeps
\* it, and no call waits for a lock it is not queued for (router.py, _lock_for).
QueuesAreCalls ==
    \A i \in Ids :
        /\ IsInjective(lock[i])
        /\ ToSet(lock[i]) = {c \in Callers : pc[c] # "idle" /\ Id(c) = i}

BooksBalance(item) ==
    LET sources == item.current_sources
        staged == item.candidate_sources
        vouched == item.discovered_urls_seen \cap Trusted
    IN  /\ IsInjective(staged) /\ ToSet(staged) \subseteq vouched
        /\ sources \notin InitSources =>
              IsInjective(sources) /\ ToSet(sources) \subseteq vouched \ ToSet(staged)
        /\ sources = <<>> => staged = <<>>

\* The merge rules leave consistent books, in memory and in the registry, at every
\* await and after any exception: whatever discovery has placed on an item is trusted,
\* recorded as seen, and placed once; a source it found is never staged as an alternate
\* to itself, and no alternate waits for an item that has no source (design spec,
\* section 3).
MergeBookkeeping ==
    /\ \A o \in Objects : BooksBalance(obj[o])
    /\ \A i \in Ids : BooksBalance(stored[i])

StatusFits(item) ==
    /\ item.status = "resolved" =>
          item.last_content_hash # None /\ item.current_sources # <<>>
    /\ item.status = "fetch_exhausted" => item.current_sources # <<>>
    /\ item.status = "pending_review" =>
          Head(item.current_sources) \in item.discovered_urls_seen
    /\ item.status = "pending_discovery" => item.last_content_hash = None

\* The status of an item never claims what its other fields deny: resolved items
\* have been fetched, exhausted ones have a source, and what is pending review is
\* a source that discovery found (item.py, ItemStatus).
StatusMatchesItem ==
    /\ \A o \in Objects : StatusFits(obj[o])
    /\ \A i \in Ids : StatusFits(stored[i])

\* What the calls did to an item is in the registry as soon as none is in flight,
\* unless the registry itself failed: no path changes a field and forgets upsert.
Persisted ==
    \A i \in Range(IdOf) \ torn : lock[i] = <<>> =>
        \E o \in Objects : IdOf[o] = i /\ obj[o] = stored[i]

\* Every call returns: no cycle of escalation rules, retry count or queue of
\* callers keeps one waiting for ever, when every adapter answers.
CallsReturn == \A c \in Callers : pc[c] # "idle" ~> pc[c] = "idle"

\* Discovery, seen from the items in memory, implements the merge rules.
Merged == INSTANCE MergeRules WITH
    Items <- Objects,
    sources <- [o \in Objects |-> obj[o].current_sources],
    staged <- [o \in Objects |-> obj[o].candidate_sources],
    seen <- [o \in Objects |-> obj[o].discovered_urls_seen]

\* A URL reaches an item only by the merge rules, whichever calls, answers and
\* exceptions interleave (design spec, section 3).
ImplementsMergeRules == Merged!MergeSpec

-------------------------------------------------------------------------------
(* What the documentation says of the router and the code does not do.     *)

\* Concurrent callers of `resolve` coalesce into one attempt: none searches for an
\* item whose source an earlier one has found (router.py, class docstring).
SearchesCoalesce ==
    \A c \in Callers : pc[c] = "search" /\ frame[c].resolving =>
        Item(c).current_sources = <<>>

\* Under require_review, `resolve` does not fetch a source that discovery found
\* and nobody has approved (router.py, docstring of resolve).
ReviewGate ==
    \A c \in Callers :
        config.require_review /\ pc[c] = "fetch" /\ frame[c].resolving =>
            Item(c).status # "pending_review"

ComesToNothing(c) == pc[c] \in TrackB /\ pc'[c] = "saveB" /\ frame'[c].ret = "none"

\* A discovery that comes to nothing has recorded the candidate it rejected last
\* ("every URL ever surfaced by discovery", item.py, discovered_urls_seen), and marks as
\* unresolved only an item whose source is not known (design spec, section 3, where
\* fetch_exhausted is "distinct from `unresolved`: the source was known").
DiscoveryIsRecorded ==
    [][\A c \in Callers : ComesToNothing(c) =>
          LET item == obj'[frame[c].item]
          IN  /\ pc[c] = "trust" => Head(frame[c].found) \in item.discovered_urls_seen
              /\ item.status = "unresolved" => item.current_sources = <<>>]_vars

===============================================================================
