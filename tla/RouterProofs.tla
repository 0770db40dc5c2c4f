----------------------------- MODULE RouterProofs -----------------------------
(***************************************************************************)
(* Proofs about Router, for every set of callers, items, URLs, answers and *)
(* router records.  The inductive invariant joins the types to one fact    *)
(* about the lock: whoever is inside a track is the first of its queue.    *)
(***************************************************************************)
EXTENDS Router, EscalationProofs, SequenceTheorems

\* A caller between the two ends of `async with` owns the lock of its item.
OwnerFirst == \A c \in Callers : pc[c] \in Inside => HoldsLock(c)

IInv == TypeOK /\ OwnerFirst

-------------------------------------------------------------------------------
(* Sequences: the queue of a lock and the answers of a searcher.           *)

\* Removing an element that is not the first leaves the first in place.
LEMMA RemoveAtKeepsHead ==
    ASSUME NEW S, NEW s \in Seq(S), NEW k \in DOMAIN s
    PROVE  /\ RemoveAt(s, k) \in Seq(S)
           /\ k > 1 => RemoveAt(s, k) # <<>> /\ Head(RemoveAt(s, k)) = Head(s)
<1> DEFINE l == SubSeq(s, 1, k - 1)
           r == SubSeq(s, k + 1, Len(s))
<1>1. k \in 1..Len(s) /\ Len(s) \in Nat
  OBVIOUS
<1>2. l \in Seq(S) /\ Len(l) = k - 1 /\ (k > 1 => l[1] = s[1])
  OBVIOUS
<1>3. r \in Seq(S)
  OBVIOUS
<1> HIDE DEF l, r
<1>4. l \o r \in Seq(S) /\ (k > 1 => l \o r # <<>> /\ Head(l \o r) = Head(s))
  BY <1>1, <1>2, <1>3, ConcatProperties
<1> QED BY <1>4 DEF RemoveAt, l, r

\* What is left of a searcher's answer is a list of URLs again.
LEMMA UnseenType ==
    ASSUME NEW c \in Callers, NEW candidates \in Seq(Urls)
    PROVE  Unseen(c, candidates) \in Seq(Urls)
<1> DEFINE I == {i \in 1..Len(candidates) :
                    candidates[i] \notin Item(c).discovered_urls_seen}
           first == IF I # {} THEN Min(I) ELSE 0
<1>1. Unseen(c, candidates) =
        IF first = 0 THEN <<>> ELSE SubSeq(candidates, first, Len(candidates))
  BY DEF Unseen, SelectInSeq
<1>2. first \in 0..Len(candidates)
  <2>1. I \subseteq 1..Len(candidates) /\ I \subseteq Nat /\ Len(candidates) \in Nat
    OBVIOUS
  <2>2. I # {} => Min(I) \in I
    <3> HIDE DEF I
    <3> QED BY <2>1, MinInSet
  <2> QED BY <2>1, <2>2
<1> HIDE DEF first
<1>3. first # 0 => SubSeq(candidates, first, Len(candidates)) \in Seq(Urls)
  BY <1>2, SubSeqProperties
<1> QED BY <1>1, <1>3

\* The locals of a call that returns have their types.
LEMMA NoFrameType ==
    /\ NoFrame \in Frame
    /\ \A answer \in Answers : [NoFrame EXCEPT !.ret = answer] \in Frame
<1>1. <<>> \in Seq(Urls) /\ {} \in SUBSET Nat /\ "none" \in Answers
  BY EmptySeq DEF Answers
<1>2. NoFrame \in Frame
  BY <1>1 DEF Frame, NoFrame
<1> QED BY <1>2 DEF Frame

-------------------------------------------------------------------------------
(* The steps the operations share keep the invariant.                      *)

\* The owner of a lock leaves it and its call returns.
LEMMA ReturnKeepsIInv ==
    ASSUME IInv, NEW c \in Callers, NEW answer \in Answers,
           frame[c].item \in Objects, HoldsLock(c), Return(c, answer),
           UNCHANGED <<config, obj>>,
           stored' \in [Ids -> ResolvableItem], torn' \subseteq Ids
    PROVE  IInv'
<1> USE DEF IInv, TypeOK
<1>1. Id(c) \in Ids /\ lock[Id(c)] \in Seq(Callers) /\ lock[Id(c)] # <<>>
  BY RouterAssumption DEF Id, HoldsLock
<1>2. lock' \in [Ids -> Seq(Callers)]
  BY <1>1 DEF Return
<1>3. pc' \in [Callers -> {"idle"} \cup Waiting \cup Inside]
  BY DEF Return, Goto
<1>4. frame' = [frame EXCEPT ![c] = [NoFrame EXCEPT !.ret = answer]] /\ pc'[c] = "idle"
  BY DEF Return, Goto
<1>5. frame' \in [Callers -> Frame]
  <2>1. [NoFrame EXCEPT !.ret = answer] \in Frame
    BY NoFrameType
  <2> QED BY <1>4, <2>1
<1>6. \A d \in Callers : LocalsOK(d)'
  <2> TAKE d \in Callers
  <2>1. CASE d = c
    <3>1. frame'[c] = [NoFrame EXCEPT !.ret = answer]
      BY <1>4
    <3>2. config \in RouterRecord
      BY RouterAssumption
    <3> QED BY <2>1, <3>1, <3>2, <1>4 DEF LocalsOK, NoFrame, RouterRecord
  <2>2. CASE d # c
    <3>1. frame'[d] = frame[d] /\ pc'[d] = pc[d] /\ LocalsOK(d)
      BY <2>2 DEF Return, Goto
    <3> QED BY <3>1 DEF LocalsOK, Item
  <2> QED BY <2>1, <2>2
<1>7. OwnerFirst'
  <2> SUFFICES ASSUME NEW d \in Callers, pc'[d] \in Inside PROVE HoldsLock(d)'
    BY DEF OwnerFirst
  <2>1. d # c
    BY <1>4 DEF Inside, TrackA, TrackB
  <2>2. frame'[d] = frame[d] /\ pc'[d] = pc[d] /\ HoldsLock(d)
    BY <2>1 DEF Return, Goto, OwnerFirst
  <2>3. Id(d) # Id(c)
    BY <2>1, <2>2 DEF HoldsLock
  <2> QED BY <2>2, <2>3 DEF HoldsLock, Id, Return
<1> QED BY <1>2, <1>3, <1>5, <1>6, <1>7

\* The owner of a lock goes on to another await and keeps the lock.
LEMMA MoveKeepsIInv ==
    ASSUME IInv, NEW c \in Callers, HoldsLock(c),
           NEW label \in Waiting \cup Inside, Goto(c, label),
           frame' \in [Callers -> Frame], frame'[c].item = frame[c].item,
           \A d \in Callers : d # c => frame'[d] = frame[d],
           UNCHANGED <<config, stored, lock, torn>>,
           obj' \in [Objects -> ResolvableItem],
           \A o \in Objects :
               obj[o].current_sources # <<>> => obj'[o].current_sources # <<>>,
           LocalsOK(c)'
    PROVE  IInv'
<1> USE DEF IInv, TypeOK
<1>1. pc' \in [Callers -> {"idle"} \cup Waiting \cup Inside]
  BY DEF Goto
<1>2. \A d \in Callers : LocalsOK(d)'
  <2> SUFFICES ASSUME NEW d \in Callers, d # c PROVE LocalsOK(d)'
    OBVIOUS
  <2>1. frame'[d] = frame[d] /\ pc'[d] = pc[d] /\ LocalsOK(d)
    BY DEF Goto
  <2> QED BY <2>1 DEF LocalsOK, Item
<1>3. OwnerFirst'
  <2> SUFFICES ASSUME NEW d \in Callers, pc'[d] \in Inside PROVE HoldsLock(d)'
    BY DEF OwnerFirst
  <2>1. frame'[d].item = frame[d].item
    OBVIOUS
  <2>2. HoldsLock(d)
    BY DEF OwnerFirst, Goto
  <2> QED BY <2>1, <2>2 DEF HoldsLock, Id
<1> QED BY <1>1, <1>2, <1>3

\* Setting the fields of an item before the upsert of either track.
LEMMA FinishKeepsIInv ==
    ASSUME IInv, NEW c \in Callers, HoldsLock(c), frame[c].item \in Objects,
           NEW item \in ResolvableItem, NEW label \in Saving, NEW answer \in Answers,
           Finish(c, item, label, answer),
           Item(c).current_sources # <<>> => item.current_sources # <<>>
    PROVE  IInv'
<1> USE DEF IInv, TypeOK
<1> DEFINE f == [NoFrame EXCEPT !.item = frame[c].item,
                                !.resolving = frame[c].resolving,
                                !.ret = answer]
<1>1. frame' = [frame EXCEPT ![c] = f]
  BY DEF Finish
<1>2. f \in Frame /\ f.item = frame[c].item
  <2>1. frame[c] \in Frame
    OBVIOUS
  <2> QED BY <2>1, NoFrameType DEF Frame
<1>3. frame' \in [Callers -> Frame]
  BY <1>1, <1>2
<1>4. obj' = [obj EXCEPT ![frame[c].item] = item]
  BY DEF Finish
<1>5. pc'[c] = label /\ Goto(c, label)
  BY DEF Finish, Goto
<1>6. LocalsOK(c)'
  <2>1. frame'[c] = f /\ config' = config /\ config \in RouterRecord
    BY <1>1, RouterAssumption DEF Finish
  <2>2. f.visited = {} /\ f.attempt = 0 /\ f.searcher = 0
    BY DEF NoFrame
  <2> QED BY <1>2, <1>5, <2>1, <2>2 DEF LocalsOK, RouterRecord, Saving
<1>7. obj' \in [Objects -> ResolvableItem]
  BY <1>4
<1>8. \A o \in Objects :
         obj[o].current_sources # <<>> => obj'[o].current_sources # <<>>
  BY <1>4 DEF Item
<1>9. label \in Waiting \cup Inside
  BY DEF Saving, Inside, TrackA, TrackB
<1>10. UNCHANGED <<config, stored, lock, torn>>
  BY DEF Finish
<1> HIDE DEF IInv, TypeOK
<1> QED BY <1>1, <1>2, <1>3, <1>5, <1>6, <1>7, <1>8, <1>9, <1>10, MoveKeepsIInv

\* The next attempt of Track A, at a fetcher of the list.
LEMMA AttemptFetchKeepsIInv ==
    ASSUME IInv, NEW c \in Callers, HoldsLock(c), frame[c].item \in Objects,
           Item(c).current_sources # <<>>,
           NEW f \in DOMAIN config.fetchers, AttemptFetch(c, f),
           frame[c].searcher <= config.searchers,
           UNCHANGED <<config, obj, stored, lock, torn>>
    PROVE  IInv'
<1>1. config \in RouterRecord /\ f \in Nat /\ frame[c] \in Frame /\ LocalsOK(c)
  BY RouterAssumption DEF IInv, TypeOK, RouterRecord
<1>4. frame' = [frame EXCEPT ![c] =
          [frame[c] EXCEPT !.cur = f, !.visited = @ \cup {f}, !.attempt = 0]]
  BY DEF AttemptFetch, IInv, TypeOK, Frame
<1>5. /\ frame'[c] \in Frame
      /\ frame'[c].item = frame[c].item
      /\ frame'[c].cur = f
      /\ frame'[c].visited = frame[c].visited \cup {f}
      /\ frame'[c].attempt = 0
      /\ frame'[c].searcher = frame[c].searcher
  BY <1>1, <1>4 DEF Frame, IInv, TypeOK
<1>6. frame' \in [Callers -> Frame] /\ \A d \in Callers : d # c => frame'[d] = frame[d]
  BY <1>4, <1>5 DEF IInv, TypeOK
<1>7. Goto(c, "fetch") /\ pc'[c] = "fetch" /\ "fetch" \in Waiting \cup Inside
  BY DEF AttemptFetch, Goto, IInv, TypeOK, Inside, TrackA
<1>8. LocalsOK(c)'
  BY <1>1, <1>5, <1>7 DEF LocalsOK, Item, RouterRecord
<1>9. obj' \in [Objects -> ResolvableItem]
  BY DEF IInv, TypeOK
<1> QED BY <1>5, <1>6, <1>7, <1>8, <1>9, MoveKeepsIInv

\* What is known of a caller that is not idle.
LEMMA ActiveCaller ==
    ASSUME IInv, NEW c \in Callers, pc[c] # "idle"
    PROVE  /\ frame[c] \in Frame
           /\ frame[c].item \in Objects
           /\ Item(c) \in ResolvableItem
           /\ LocalsOK(c)
           /\ config \in RouterRecord
           /\ Id(c) \in Ids
           /\ pc[c] \in Inside => HoldsLock(c)
BY RouterAssumption DEF IInv, TypeOK, OwnerFirst, LocalsOK, Item, Id

-------------------------------------------------------------------------------
(* Track A.                                                                *)

\* Track A begins: without a source or a fetcher it returns, else it fetches.
LEMMA EnterTrackAKeepsIInv ==
    ASSUME IInv, NEW c \in Callers, EnterTrackA(c)
    PROVE  IInv'
<1>1. pc[c] = "lockA" /\ HoldsLock(c) /\ UNCHANGED <<config, obj, stored, torn>>
  BY DEF EnterTrackA
<1>2. frame[c].item \in Objects /\ LocalsOK(c) /\ config \in RouterRecord
  BY <1>1, ActiveCaller
<1>3. stored' \in [Ids -> ResolvableItem] /\ torn' \subseteq Ids
  BY <1>1 DEF IInv, TypeOK
<1>4. CASE Return(c, "raised") \/ Return(c, "error")
  BY <1>1, <1>2, <1>3, <1>4, ReturnKeepsIInv DEF Answers
<1>5. CASE /\ Item(c).current_sources # <<>> /\ config.fetchers # <<>>
           /\ AttemptFetch(c, 1) /\ UNCHANGED lock
  <2>1. 1 \in DOMAIN config.fetchers
    BY <1>2, <1>5, LenProperties, EmptySeq DEF RouterRecord
  <2> QED BY <1>1, <1>2, <1>5, <2>1, AttemptFetchKeepsIInv DEF LocalsOK
<1> QED BY <1>4, <1>5 DEF EnterTrackA

\* The backoff before a retry, and the retry after it.
LEMMA RetryKeepsIInv ==
    ASSUME IInv, NEW c \in Callers, RetryLater(c) \/ SleepEnds(c)
    PROVE  IInv'
<1>1. pc[c] \in Inside /\ pc[c] # "idle" /\ pc[c] \in {"fetch", "sleep"}
  BY DEF RetryLater, SleepEnds, Inside, TrackA
<1>2. /\ frame[c] \in Frame /\ LocalsOK(c) /\ config \in RouterRecord
      /\ HoldsLock(c) /\ frame[c].item \in Objects
  BY <1>1, ActiveCaller
<1>3. obj' \in [Objects -> ResolvableItem] /\ UNCHANGED <<config, obj, stored, lock, torn>>
  BY DEF IInv, TypeOK, RetryLater, SleepEnds
<1>4. CASE RetryLater(c)
  <2>1. frame[c].attempt < config.retry_attempts /\ frame' = frame /\ Goto(c, "sleep")
    BY <1>4 DEF RetryLater, MayRetry
  <2>2. pc'[c] = "sleep" /\ "sleep" \in Waiting \cup Inside
    BY <2>1 DEF Goto, IInv, TypeOK, Inside, TrackA
  <2>3. LocalsOK(c)'
    BY <1>1, <1>2, <1>3, <2>1, <2>2 DEF LocalsOK, Item
  <2>4. frame' \in [Callers -> Frame]
    BY <2>1 DEF IInv, TypeOK
  <2> QED BY <1>2, <1>3, <2>1, <2>2, <2>3, <2>4, MoveKeepsIInv
<1>5. CASE SleepEnds(c)
  <2>1. pc[c] = "sleep" /\ Goto(c, "fetch") /\ frame' = [frame EXCEPT ![c].attempt = @ + 1]
    BY <1>5 DEF SleepEnds
  <2>2. pc'[c] = "fetch" /\ "fetch" \in Waiting \cup Inside
    BY <2>1 DEF Goto, IInv, TypeOK, Inside, TrackA
  <2>3. frame'[c] = [frame[c] EXCEPT !.attempt = @ + 1]
    BY <2>1 DEF IInv, TypeOK
  <2>4. /\ frame'[c] \in Frame /\ frame'[c].item = frame[c].item
        /\ frame'[c].attempt = frame[c].attempt + 1
        /\ frame'[c].cur = frame[c].cur /\ frame'[c].visited = frame[c].visited
        /\ frame'[c].searcher = frame[c].searcher
    BY <1>2, <2>3 DEF Frame
  <2>5. LocalsOK(c)'
    BY <1>2, <1>3, <2>1, <2>2, <2>4 DEF LocalsOK, Item, RouterRecord, Frame
  <2>6. frame' \in [Callers -> Frame] /\ \A d \in Callers : d # c => frame'[d] = frame[d]
    BY <2>1, <2>4 DEF IInv, TypeOK
  <2> QED BY <1>2, <1>3, <2>1, <2>2, <2>4, <2>5, <2>6, MoveKeepsIInv
<1> QED BY <1>4, <1>5

\* The next fetcher is one of the list.
LEMMA EscalateKeepsIInv ==
    ASSUME IInv, NEW c \in Callers, Escalate(c)
    PROVE  IInv'
<1>1. pc[c] = "fetch" /\ UNCHANGED <<config, obj, stored, lock, torn>>
  BY DEF Escalate
<1>2. /\ LocalsOK(c) /\ config \in RouterRecord /\ frame[c].item \in Objects
      /\ HoldsLock(c)
  BY <1>1, ActiveCaller DEF Inside, TrackA
<1>3. PICK error \in FetchErrors :
         LET next == NextFetcher(config, frame[c].cur, error)
         IN  Untried(c, next) /\ AttemptFetch(c, next)
  BY DEF Escalate
<1> DEFINE next == NextFetcher(config, frame[c].cur, error)
<1>4. frame[c].cur \in DOMAIN config.fetchers /\ Item(c).current_sources # <<>>
  BY <1>1, <1>2 DEF LocalsOK
<1>5. next \in DOMAIN config.fetchers
  <2>1. next \in 0..Len(config.fetchers)
    BY <1>2, <1>4, NextFetcherInList
  <2>2. next # 0
    BY <1>3 DEF Untried
  <2>3. config.fetchers \in Seq(Names)
    BY <1>2 DEF RouterRecord
  <2> QED BY <2>1, <2>2, <2>3, LenProperties
<1>6. AttemptFetch(c, next)
  BY <1>3
<1> HIDE DEF next
<1> QED BY <1>1, <1>2, <1>4, <1>5, <1>6, AttemptFetchKeepsIInv DEF LocalsOK

\* A fetch that ends the track leaves the item its sources.
LEMMA FetchEndsKeepsIInv ==
    ASSUME IInv, NEW c \in Callers, Exhaust(c) \/ HashSkip(c) \/ Fetched(c)
    PROVE  IInv'
<1>1. pc[c] = "fetch"
  BY DEF Exhaust, HashSkip, Fetched
<1>2. HoldsLock(c) /\ frame[c].item \in Objects /\ Item(c) \in ResolvableItem
  BY <1>1, ActiveCaller DEF Inside, TrackA
<1>3. "saveA" \in Saving /\ {"error", "result"} \subseteq Answers
  BY DEF Saving, Answers
<1>4. CASE Exhaust(c)
  <2> DEFINE item == [Item(c) EXCEPT !.status = "fetch_exhausted"]
  <2>1. item \in ResolvableItem /\ item.current_sources = Item(c).current_sources
    BY <1>2 DEF ResolvableItem, ItemStatus
  <2>2. Finish(c, item, "saveA", "error")
    BY <1>4 DEF Exhaust
  <2> HIDE DEF item
  <2> QED BY <1>2, <1>3, <2>1, <2>2, FinishKeepsIInv
<1>5. CASE HashSkip(c)
  <2> DEFINE item == [Item(c) EXCEPT !.status = "resolved"]
  <2>1. item \in ResolvableItem /\ item.current_sources = Item(c).current_sources
    BY <1>2 DEF ResolvableItem, ItemStatus
  <2>2. Finish(c, item, "saveA", "result")
    BY <1>5 DEF HashSkip
  <2> HIDE DEF item
  <2> QED BY <1>2, <1>3, <2>1, <2>2, FinishKeepsIInv
<1>6. CASE Fetched(c)
  <2>1. PICK hash \in Hashes :
          Finish(c, [Item(c) EXCEPT !.last_content_hash = hash, !.status = "resolved"],
                 "saveA", "result")
    BY <1>6 DEF Fetched
  <2> DEFINE item == [Item(c) EXCEPT !.last_content_hash = hash, !.status = "resolved"]
  <2>2. item \in ResolvableItem /\ item.current_sources = Item(c).current_sources
    BY <1>2 DEF ResolvableItem, ItemStatus
  <2>3. Finish(c, item, "saveA", "result")
    BY <2>1
  <2> HIDE DEF item
  <2> QED BY <1>2, <1>3, <2>2, <2>3, FinishKeepsIInv
<1> QED BY <1>4, <1>5, <1>6

\* A parser takes over, or has nothing to parse, and returns.
LEMMA ParserKeepsIInv ==
    ASSUME IInv, NEW c \in Callers, HandToParser(c) \/ ParserReturns(c)
    PROVE  IInv'
<1>1. /\ pc[c] \in {"fetch", "parse"} /\ pc[c] # "idle" /\ pc[c] \in Inside
      /\ UNCHANGED <<config, obj, stored, torn>>
  BY DEF HandToParser, ParserReturns, Inside, TrackA
<1>2. HoldsLock(c) /\ frame[c].item \in Objects /\ LocalsOK(c)
  BY <1>1, ActiveCaller
<1>3. /\ obj' \in [Objects -> ResolvableItem] /\ stored' \in [Ids -> ResolvableItem]
      /\ torn' \subseteq Ids
  BY <1>1 DEF IInv, TypeOK
<1>4. CASE \E answer \in {"result", "error"} : Return(c, answer)
  BY <1>1, <1>2, <1>3, <1>4, ReturnKeepsIInv DEF Answers
<1>5. CASE HandToParser(c) /\ Goto(c, "parse") /\ UNCHANGED <<lock, frame>>
  <2>1. pc'[c] = "parse" /\ "parse" \in Waiting \cup Inside
    BY <1>5 DEF Goto, IInv, TypeOK, Inside, TrackA
  <2>2. LocalsOK(c)'
    BY <1>1, <1>2, <1>5, <2>1 DEF LocalsOK, Item
  <2>3. frame' \in [Callers -> Frame]
    BY <1>5 DEF IInv, TypeOK
  <2> QED BY <1>1, <1>2, <1>3, <1>5, <2>1, <2>2, <2>3, MoveKeepsIInv
<1> QED BY <1>4, <1>5 DEF HandToParser, ParserReturns

\* An upsert writes an item, and only that, to the registry.
LEMMA UpsertType ==
    ASSUME IInv, NEW o \in Objects, Upsert(o)
    PROVE  stored' \in [Ids -> ResolvableItem] /\ torn' \subseteq Ids
BY DEF IInv, TypeOK, Upsert

\* The upsert that ends Track A.
LEMMA SaveTrackAKeepsIInv ==
    ASSUME IInv, NEW c \in Callers, SaveTrackA(c)
    PROVE  IInv'
<1>1. pc[c] = "saveA" /\ Return(c, frame[c].ret) /\ UNCHANGED <<config, obj>>
  BY DEF SaveTrackA
<1>2. HoldsLock(c) /\ frame[c].item \in Objects /\ frame[c].ret \in Answers
  BY <1>1, ActiveCaller DEF Inside, TrackA, Frame
<1>3. stored' \in [Ids -> ResolvableItem] /\ torn' \subseteq Ids
  BY <1>2, UpsertType DEF SaveTrackA
<1> QED BY <1>1, <1>2, <1>3, ReturnKeepsIInv

-------------------------------------------------------------------------------
(* Track B.                                                                *)

\* The next candidate, the next searcher, or no source found.
LEMMA ContinueKeepsIInv ==
    ASSUME IInv, NEW c \in Callers, pc[c] # "idle", HoldsLock(c),
           NEW candidates \in Seq(Urls), Continue(c, candidates)
    PROVE  IInv'
<1>1. /\ frame[c] \in Frame /\ frame[c].item \in Objects /\ LocalsOK(c)
      /\ config \in RouterRecord /\ Item(c) \in ResolvableItem
  BY ActiveCaller
<1>2. Unseen(c, candidates) \in Seq(Urls)
  BY UnseenType
<1>3. obj \in [Objects -> ResolvableItem] /\ frame \in [Callers -> Frame]
  BY DEF IInv, TypeOK
<1>4. "trust" \in Inside /\ "search" \in Inside
  BY DEF Inside, TrackB
<1>5. CASE /\ Unseen(c, candidates) # <<>> /\ Goto(c, "trust")
           /\ frame' = [frame EXCEPT ![c].found = Unseen(c, candidates)]
           /\ UNCHANGED <<config, obj, stored, lock, torn>>
  <2>1. frame'[c] = [frame[c] EXCEPT !.found = Unseen(c, candidates)]
    BY <1>3, <1>5
  <2>2. /\ frame'[c] \in Frame /\ frame'[c].item = frame[c].item
        /\ frame'[c].visited = frame[c].visited /\ frame'[c].attempt = frame[c].attempt
        /\ frame'[c].searcher = frame[c].searcher
        /\ frame'[c].found = Unseen(c, candidates)
    BY <1>1, <1>2, <2>1 DEF Frame
  <2>3. frame' \in [Callers -> Frame] /\ \A d \in Callers : d # c => frame'[d] = frame[d]
    BY <1>3, <1>5, <2>2
  <2>4. pc'[c] = "trust"
    BY <1>5 DEF Goto, IInv, TypeOK
  <2>5. LocalsOK(c)'
    BY <1>1, <1>5, <2>2, <2>4 DEF LocalsOK
  <2> QED BY <1>3, <1>4, <1>5, <2>2, <2>3, <2>5, MoveKeepsIInv
<1>6. CASE /\ frame[c].searcher < config.searchers /\ Goto(c, "search")
           /\ frame' = [frame EXCEPT ![c].searcher = @ + 1, ![c].found = <<>>]
           /\ UNCHANGED <<config, obj, stored, lock, torn>>
  <2> DEFINE n == frame[c].searcher + 1
  <2>0. n \in Nat /\ <<>> \in Seq(Urls)
    BY <1>1, EmptySeq DEF Frame
  <2>1. frame'[c] = [frame[c] EXCEPT !.searcher = n, !.found = <<>>]
    BY <1>1, <1>3, <1>6 DEF Frame
  <2> HIDE DEF n
  <2>2. /\ frame'[c] \in Frame /\ frame'[c].item = frame[c].item
        /\ frame'[c].visited = frame[c].visited /\ frame'[c].attempt = frame[c].attempt
        /\ frame'[c].searcher = n
    BY <1>1, <2>0, <2>1 DEF Frame
  <2>3. frame' \in [Callers -> Frame] /\ \A d \in Callers : d # c => frame'[d] = frame[d]
    BY <1>3, <1>6, <2>2
  <2>4. pc'[c] = "search"
    BY <1>6 DEF Goto, IInv, TypeOK
  <2>5. LocalsOK(c)'
    <3>1. n <= config.searchers
      BY <1>1, <1>6 DEF n, RouterRecord, Frame
    <3> QED BY <1>1, <1>6, <2>2, <2>4, <3>1 DEF LocalsOK
  <2> QED BY <1>3, <1>4, <1>6, <2>2, <2>3, <2>5, MoveKeepsIInv
<1>7. CASE Finish(c, [Item(c) EXCEPT !.status = "unresolved"], "saveB", "none")
  <2> DEFINE item == [Item(c) EXCEPT !.status = "unresolved"]
  <2>1. item \in ResolvableItem /\ item.current_sources = Item(c).current_sources
    BY <1>1 DEF ResolvableItem, ItemStatus
  <2>2. Finish(c, item, "saveB", "none") /\ "saveB" \in Saving /\ "none" \in Answers
    BY <1>7 DEF Saving, Answers
  <2> HIDE DEF item
  <2> QED BY <1>1, <2>1, <2>2, FinishKeepsIInv
<1> QED BY <1>5, <1>6, <1>7 DEF Continue

\* Track B begins with its first searcher.
LEMMA EnterTrackBKeepsIInv ==
    ASSUME IInv, NEW c \in Callers, EnterTrackB(c)
    PROVE  IInv'
BY EmptySeq, ContinueKeepsIInv DEF EnterTrackB

\* A searcher answers, with URLs or nothing.
LEMMA SearchReturnsKeepsIInv ==
    ASSUME IInv, NEW c \in Callers, SearchReturns(c)
    PROVE  IInv'
<1>1. pc[c] # "idle" /\ HoldsLock(c)
  BY ActiveCaller DEF SearchReturns, Inside, TrackB
<1>2. PICK candidates \in CandidateLists : Continue(c, candidates)
  BY DEF SearchReturns
<1>3. candidates \in Seq(Urls)
  BY RouterAssumption
<1> QED BY <1>1, <1>2, <1>3, ContinueKeepsIInv

\* The merge rules keep the shape of an item and leave it a source.
LEMMA MergeType ==
    ASSUME NEW item \in ResolvableItem, NEW url \in Urls
    PROVE  /\ Merge(item, url) \in ResolvableItem
           /\ Merge(item, url).current_sources # <<>>
<1> DEFINE seen == [item EXCEPT !.discovered_urls_seen = @ \cup {url}]
<1>1. /\ item.current_sources \in Seq(Urls) /\ item.candidate_sources \in Seq(Urls)
      /\ item.discovered_urls_seen \cup {url} \in SUBSET Urls
  BY DEF ResolvableItem
<1>2. /\ Append(item.current_sources, url) \in Seq(Urls)
      /\ Append(item.current_sources, url) # <<>>
      /\ Append(item.candidate_sources, url) \in Seq(Urls)
  BY <1>1, AppendProperties
<1>3. /\ seen \in ResolvableItem
      /\ seen.current_sources = item.current_sources
      /\ seen.candidate_sources = item.candidate_sources
  BY <1>1 DEF ResolvableItem
<1> HIDE DEF seen
<1>4. CASE item.current_sources # <<>>
  <2>1. Merge(item, url) = [seen EXCEPT !.candidate_sources = Append(@, url)]
    BY <1>4 DEF Merge, seen
  <2> QED BY <1>2, <1>3, <1>4, <2>1 DEF ResolvableItem
<1>5. CASE item.current_sources = <<>>
  <2>1. Merge(item, url) = [seen EXCEPT !.current_sources = Append(@, url),
                                        !.status = "pending_review"]
    BY <1>5 DEF Merge, seen
  <2> QED BY <1>2, <1>3, <2>1 DEF ResolvableItem, ItemStatus
<1> QED BY <1>4, <1>5

\* A trusted candidate is merged, another one passed over.
LEMMA TrustAnswersKeepsIInv ==
    ASSUME IInv, NEW c \in Callers, TrustAnswers(c)
    PROVE  IInv'
<1> DEFINE url == Head(frame[c].found)
<1>1. pc[c] = "trust" /\ pc[c] # "idle" /\ pc[c] \in Inside
  BY DEF TrustAnswers, Inside, TrackB
<1>2. /\ frame[c] \in Frame /\ frame[c].item \in Objects /\ LocalsOK(c)
      /\ Item(c) \in ResolvableItem /\ HoldsLock(c)
  BY <1>1, ActiveCaller
<1>3. url \in Urls /\ Tail(frame[c].found) \in Seq(Urls)
  <2>1. frame[c].found \in Seq(Urls) /\ frame[c].found # <<>>
    BY <1>1, <1>2 DEF LocalsOK, Frame
  <2> QED BY <2>1, HeadTailProperties
<1>4. CASE Finish(c, Merge(Item(c), url), "saveB", "candidate")
  <2>1. Merge(Item(c), url) \in ResolvableItem /\ Merge(Item(c), url).current_sources # <<>>
    BY <1>2, <1>3, MergeType
  <2>2. "saveB" \in Saving /\ "candidate" \in Answers
    BY DEF Saving, Answers
  <2> HIDE DEF url
  <2> QED BY <1>2, <1>4, <2>1, <2>2, FinishKeepsIInv
<1>5. CASE Continue(c, Tail(frame[c].found))
  BY <1>1, <1>2, <1>3, <1>5, ContinueKeepsIInv
<1> QED BY <1>4, <1>5 DEF TrustAnswers

\* `resolve` gives the lock back and queues for it again: whoever waited longest
\* comes first.
LEMMA RequeueKeepsIInv ==
    ASSUME IInv, NEW c \in Callers, SaveTrackB(c), GoesOnToFetch(c)
    PROVE  IInv'
<1> USE DEF IInv, TypeOK
<1>1. /\ pc[c] = "saveB" /\ UNCHANGED <<config, obj>>
      /\ lock' = [lock EXCEPT ![Id(c)] = Append(Tail(@), c)]
      /\ pc' = [pc EXCEPT ![c] = "lockA"]
      /\ frame' = [frame EXCEPT ![c].ret = "none"]
  BY DEF SaveTrackB, Goto
<1>2. /\ frame[c] \in Frame /\ frame[c].item \in Objects /\ LocalsOK(c)
      /\ Id(c) \in Ids /\ HoldsLock(c)
  <2> HIDE DEF IInv, TypeOK
  <2> QED BY <1>1, ActiveCaller DEF Inside, TrackB
<1>3. stored' \in [Ids -> ResolvableItem] /\ torn' \subseteq Ids
  <2> HIDE DEF IInv, TypeOK
  <2> QED BY <1>2, UpsertType DEF SaveTrackB
<1>4. lock' \in [Ids -> Seq(Callers)]
  <2>1. lock[Id(c)] \in Seq(Callers) /\ lock[Id(c)] # <<>>
    BY <1>2 DEF HoldsLock
  <2>2. Append(Tail(lock[Id(c)]), c) \in Seq(Callers)
    BY <2>1, HeadTailProperties, AppendProperties
  <2> QED BY <1>1, <2>2
<1>5. frame'[c] = [frame[c] EXCEPT !.ret = "none"] /\ pc'[c] = "lockA"
  BY <1>1
<1>6. /\ frame'[c] \in Frame /\ frame'[c].item = frame[c].item
      /\ frame'[c].visited = frame[c].visited /\ frame'[c].attempt = frame[c].attempt
      /\ frame'[c].searcher = frame[c].searcher
  BY <1>2, <1>5 DEF Frame, Answers
<1>7. \A d \in Callers : d # c => frame'[d] = frame[d] /\ pc'[d] = pc[d]
  BY <1>1
<1>8. frame' \in [Callers -> Frame] /\ pc' \in [Callers -> {"idle"} \cup Waiting \cup Inside]
  BY <1>1, <1>6 DEF Waiting
<1>9. \A d \in Callers : LocalsOK(d)'
  <2> TAKE d \in Callers
  <2>1. CASE d = c
    BY <1>1, <1>2, <1>5, <1>6, <2>1 DEF LocalsOK
  <2>2. CASE d # c
    BY <1>1, <1>7, <2>2 DEF LocalsOK, Item
  <2> QED BY <2>1, <2>2
<1>10. OwnerFirst'
  <2> SUFFICES ASSUME NEW d \in Callers, pc'[d] \in Inside PROVE HoldsLock(d)'
    BY DEF OwnerFirst
  <2>1. d # c
    BY <1>5 DEF Inside, TrackA, TrackB
  <2>2. frame'[d] = frame[d] /\ HoldsLock(d)
    BY <1>7, <2>1 DEF OwnerFirst
  <2>3. Id(d) # Id(c)
    BY <1>2, <2>1, <2>2 DEF HoldsLock
  <2> QED BY <1>1, <2>2, <2>3 DEF HoldsLock, Id
<1> QED BY <1>1, <1>3, <1>4, <1>8, <1>9, <1>10

\* The upsert that ends Track B; `resolve` may go on to Track A.
LEMMA SaveTrackBKeepsIInv ==
    ASSUME IInv, NEW c \in Callers, SaveTrackB(c)
    PROVE  IInv'
<1>1. CASE GoesOnToFetch(c)
  BY <1>1, RequeueKeepsIInv
<1>2. CASE ~GoesOnToFetch(c)
  <2> DEFINE answer == IF frame[c].resolving THEN "none" ELSE frame[c].ret
  <2>1. pc[c] = "saveB" /\ Return(c, answer) /\ UNCHANGED <<config, obj>>
    BY <1>2 DEF SaveTrackB
  <2>2. HoldsLock(c) /\ frame[c].item \in Objects /\ frame[c].ret \in Answers
    BY <2>1, ActiveCaller DEF Inside, TrackB, Frame
  <2>3. answer \in Answers
    BY <2>2 DEF Answers
  <2>4. stored' \in [Ids -> ResolvableItem] /\ torn' \subseteq Ids
    BY <2>2, UpsertType DEF SaveTrackB
  <2> HIDE DEF answer
  <2> QED BY <2>1, <2>2, <2>3, <2>4, ReturnKeepsIInv
<1> QED BY <1>1, <1>2

-------------------------------------------------------------------------------
(* Calls, exceptions and cancellations.                                    *)

\* A call that begins goes to the end of the queue and disturbs no owner.
LEMMA StartKeepsIInv ==
    ASSUME IInv, NEW c \in Callers, NEW o \in Objects, NEW label \in Waiting,
           NEW resolving \in BOOLEAN, Start(c, o, label, resolving)
    PROVE  IInv'
<1> USE DEF IInv, TypeOK
<1> DEFINE f == [NoFrame EXCEPT !.item = o, !.resolving = resolving]
<1>1. /\ lock' = [lock EXCEPT ![IdOf[o]] = Append(@, c)]
      /\ pc' = [pc EXCEPT ![c] = label]
      /\ frame' = [frame EXCEPT ![c] = f]
      /\ UNCHANGED <<config, obj, stored, torn>>
  BY DEF Start, Goto
<1>2. f \in Frame /\ f.item = o
  BY NoFrameType DEF Frame
<1>3. f.visited = {} /\ f.attempt = 0 /\ f.searcher = 0
  BY DEF NoFrame
<1> HIDE DEF f
<1>4. IdOf[o] \in Ids
  BY RouterAssumption
<1>5. lock' \in [Ids -> Seq(Callers)]
  <2>1. Append(lock[IdOf[o]], c) \in Seq(Callers)
    BY <1>4, AppendProperties
  <2> QED BY <1>1, <2>1
<1>6. /\ frame' \in [Callers -> Frame]
      /\ pc' \in [Callers -> {"idle"} \cup Waiting \cup Inside]
      /\ frame'[c] = f /\ pc'[c] = label
      /\ \A d \in Callers : d # c => frame'[d] = frame[d] /\ pc'[d] = pc[d]
  BY <1>1, <1>2
<1>7. \A d \in Callers : LocalsOK(d)'
  <2> TAKE d \in Callers
  <2>1. CASE d = c
    <3>1. config' \in RouterRecord
      BY <1>1, RouterAssumption
    <3> QED BY <1>2, <1>3, <1>6, <2>1, <3>1 DEF LocalsOK, RouterRecord, Waiting
  <2>2. CASE d # c
    BY <1>1, <1>6, <2>2 DEF LocalsOK, Item
  <2> QED BY <2>1, <2>2
<1>8. OwnerFirst'
  <2> SUFFICES ASSUME NEW d \in Callers, pc'[d] \in Inside PROVE HoldsLock(d)'
    BY DEF OwnerFirst
  <2>1. d # c
    BY <1>6 DEF Waiting, Inside, TrackA, TrackB
  <2>2. pc[d] \in Inside /\ frame'[d] = frame[d]
    BY <1>6, <2>1
  <2>3. HoldsLock(d) /\ Id(d) \in Ids /\ lock[Id(d)] \in Seq(Callers)
    BY <2>2, ActiveCaller DEF OwnerFirst, Inside, TrackA, TrackB
  <2>4. /\ Append(lock[Id(d)], c) # <<>>
        /\ Head(Append(lock[Id(d)], c)) = Head(lock[Id(d)])
    BY <2>3, AppendProperties DEF HoldsLock
  <2>5. Id(d)' = Id(d)
    BY <2>2 DEF Id
  <2>6. lock'[Id(d)] \in {lock[Id(d)], Append(lock[Id(d)], c)}
    BY <1>1, <2>3
  <2> QED BY <2>3, <2>4, <2>5, <2>6 DEF HoldsLock
<1> QED BY <1>1, <1>5, <1>6, <1>7, <1>8

\* An exception inside a track leaves the lock to the next of the queue.
LEMMA RaiseInsideKeepsIInv ==
    ASSUME IInv, NEW c \in Callers, RaiseInside(c)
    PROVE  IInv'
<1>1. /\ pc[c] \in Inside /\ pc[c] # "idle"
      /\ Return(c, "raised") /\ UNCHANGED <<config, obj>>
  BY DEF RaiseInside, Inside, TrackA, TrackB
<1>2. HoldsLock(c) /\ frame[c].item \in Objects /\ Id(c) \in Ids /\ "raised" \in Answers
  BY <1>1, ActiveCaller DEF Answers
<1>3. stored' \in [Ids -> ResolvableItem] /\ torn' \subseteq Ids
  <2>1. CASE Upsert(frame[c].item)
    BY <1>2, <2>1, UpsertType
  <2>2. CASE UNCHANGED stored /\ (torn' = torn \cup {Id(c)} \/ UNCHANGED torn)
    BY <1>2, <2>2 DEF IInv, TypeOK
  <2> QED BY <2>1, <2>2 DEF RaiseInside
<1> QED BY <1>1, <1>2, <1>3, ReturnKeepsIInv

\* A cancelled waiter leaves the queue without disturbing its owner: it is the
\* first of the queue only when nobody is inside.
LEMMA CancelWaitingKeepsIInv ==
    ASSUME IInv, NEW c \in Callers, CancelWaiting(c)
    PROVE  IInv'
<1> USE DEF IInv, TypeOK
<1>1. PICK k \in DOMAIN lock[Id(c)] :
         lock[Id(c)][k] = c /\ lock' = [lock EXCEPT ![Id(c)] = RemoveAt(@, k)]
  BY DEF CancelWaiting
<1> DEFINE f == [NoFrame EXCEPT !.ret = "raised"]
<1>2. /\ pc[c] \in Waiting /\ pc[c] # "idle"
      /\ pc' = [pc EXCEPT ![c] = "idle"]
      /\ frame' = [frame EXCEPT ![c] = f]
      /\ UNCHANGED <<config, obj, stored, torn>>
  BY DEF CancelWaiting, Goto, Waiting
<1>3. f \in Frame /\ f.visited = {} /\ f.attempt = 0 /\ f.searcher = 0
  BY NoFrameType DEF NoFrame, Answers
<1> HIDE DEF f
<1>4. Id(c) \in Ids /\ lock[Id(c)] \in Seq(Callers)
  <2>1. Id(c) \in Ids
    <3> HIDE DEF IInv, TypeOK
    <3> QED BY <1>2, ActiveCaller
  <2> QED BY <2>1
<1>5. /\ RemoveAt(lock[Id(c)], k) \in Seq(Callers)
      /\ k > 1 => /\ RemoveAt(lock[Id(c)], k) # <<>>
                  /\ Head(RemoveAt(lock[Id(c)], k)) = Head(lock[Id(c)])
  BY <1>4, RemoveAtKeepsHead
<1>6. lock' \in [Ids -> Seq(Callers)]
  BY <1>1, <1>4, <1>5
<1>7. /\ frame' \in [Callers -> Frame]
      /\ pc' \in [Callers -> {"idle"} \cup Waiting \cup Inside]
      /\ frame'[c] = f /\ pc'[c] = "idle"
      /\ \A d \in Callers : d # c => frame'[d] = frame[d] /\ pc'[d] = pc[d]
  BY <1>2, <1>3
<1>8. \A d \in Callers : LocalsOK(d)'
  <2> TAKE d \in Callers
  <2>1. CASE d = c
    <3>1. config' \in RouterRecord
      BY <1>2, RouterAssumption
    <3> QED BY <1>3, <1>7, <2>1, <3>1 DEF LocalsOK, RouterRecord
  <2>2. CASE d # c
    BY <1>2, <1>7, <2>2 DEF LocalsOK, Item
  <2> QED BY <2>1, <2>2
<1>9. OwnerFirst'
  <2> SUFFICES ASSUME NEW d \in Callers, pc'[d] \in Inside PROVE HoldsLock(d)'
    BY DEF OwnerFirst
  <2>1. d # c
    BY <1>7 DEF Inside, TrackA, TrackB
  <2>2. pc[d] \in Inside /\ frame'[d] = frame[d] /\ Id(d)' = Id(d)
    BY <1>7, <2>1 DEF Id
  <2>3. HoldsLock(d) /\ Id(d) \in Ids
    BY <2>2, ActiveCaller DEF OwnerFirst, Inside, TrackA, TrackB
  <2>4. CASE Id(d) # Id(c)
    BY <1>1, <2>2, <2>3, <2>4 DEF HoldsLock
  <2>5. CASE Id(d) = Id(c)
    <3>1. lock[Id(c)] # <<>> /\ lock[Id(c)][1] = d
      BY <2>3, <2>5, <1>4, HeadTailProperties DEF HoldsLock
    <3>2. k > 1
      <4>1. k \in Nat /\ k >= 1
        BY <1>4
      <4>2. k # 1
        BY <1>1, <2>1, <3>1
      <4> QED BY <4>1, <4>2
    <3>3. lock'[Id(d)] = RemoveAt(lock[Id(c)], k)
      BY <1>1, <1>4, <2>5
    <3> QED BY <1>5, <2>2, <2>3, <2>5, <3>2, <3>3 DEF HoldsLock
  <2> QED BY <2>4, <2>5
<1> QED BY <1>2, <1>6, <1>7, <1>8, <1>9

-------------------------------------------------------------------------------
(* The theorems.                                                           *)

\* The invariant holds when no call has begun.
LEMMA InitIInv == Init => IInv
<1> SUFFICES ASSUME Init PROVE IInv
  OBVIOUS
<1>1. PICK registered \in [Ids -> InitSources] :
         /\ obj = [o \in Objects |-> NewItem(registered[IdOf[o]])]
         /\ stored = [i \in Ids |-> NewItem(registered[i])]
  BY DEF Init
<1>2. \A sources \in InitSources : NewItem(sources) \in ResolvableItem
  <2> TAKE sources \in InitSources
  <2>1. sources \in Seq(Urls) /\ <<>> \in Seq(Urls) /\ {} \in SUBSET Urls
    BY RouterAssumption, EmptySeq
  <2> QED BY <2>1 DEF NewItem, ResolvableItem, ItemStatus
<1>3. obj \in [Objects -> ResolvableItem] /\ stored \in [Ids -> ResolvableItem]
  BY <1>1, <1>2, RouterAssumption
<1>4. lock \in [Ids -> Seq(Callers)]
  BY EmptySeq DEF Init
<1>5. frame \in [Callers -> Frame] /\ \A c \in Callers : frame[c] = NoFrame
  BY NoFrameType DEF Init
<1>6. config \in Configs /\ config \in RouterRecord
  BY RouterAssumption DEF Init
<1>7. \A c \in Callers : pc[c] = "idle"
  BY DEF Init
<1>8. \A c \in Callers : LocalsOK(c)
  BY <1>5, <1>6, <1>7 DEF LocalsOK, NoFrame, RouterRecord
<1>9. OwnerFirst
  BY <1>7 DEF OwnerFirst, Inside, TrackA, TrackB
<1> QED BY <1>3, <1>4, <1>5, <1>6, <1>8, <1>9 DEF IInv, TypeOK, Init

\* Every step keeps the invariant.
LEMMA NextKeepsIInv == IInv /\ [Next]_vars => IInv'
<1> SUFFICES ASSUME IInv, [Next]_vars PROVE IInv'
  OBVIOUS
<1>1. CASE UNCHANGED vars
  BY <1>1 DEF vars, IInv, TypeOK, OwnerFirst, LocalsOK, HoldsLock, Item, Id
<1>2. CASE Next
  <2>1. PICK c \in Callers : Call(c) \/ Step(c) \/ Raise(c)
    BY <1>2 DEF Next
  <2>2. CASE Call(c)
    <3>1. PICK o \in Objects : \/ CallResolveKnownSource(c, o)
                               \/ CallDiscoverSource(c, o)
                               \/ CallResolve(c, o)
      BY <2>2 DEF Call
    <3>2. PICK label \in Waiting, resolving \in BOOLEAN : Start(c, o, label, resolving)
      BY <3>1 DEF CallResolveKnownSource, CallDiscoverSource, CallResolve, Waiting
    <3> QED BY <3>2, StartKeepsIInv
  <2>3. CASE Step(c)
    <3>1. CASE EnterTrackA(c)
      BY <3>1, EnterTrackAKeepsIInv
    <3>2. CASE RetryLater(c) \/ SleepEnds(c)
      BY <3>2, RetryKeepsIInv
    <3>3. CASE Escalate(c)
      BY <3>3, EscalateKeepsIInv
    <3>4. CASE Exhaust(c) \/ HashSkip(c) \/ Fetched(c)
      BY <3>4, FetchEndsKeepsIInv
    <3>5. CASE HandToParser(c) \/ ParserReturns(c)
      BY <3>5, ParserKeepsIInv
    <3>6. CASE SaveTrackA(c)
      BY <3>6, SaveTrackAKeepsIInv
    <3>7. CASE EnterTrackB(c)
      BY <3>7, EnterTrackBKeepsIInv
    <3>8. CASE SearchReturns(c)
      BY <3>8, SearchReturnsKeepsIInv
    <3>9. CASE TrustAnswers(c)
      BY <3>9, TrustAnswersKeepsIInv
    <3>10. CASE SaveTrackB(c)
      BY <3>10, SaveTrackBKeepsIInv
    <3> QED BY <2>3, <3>1, <3>2, <3>3, <3>4, <3>5, <3>6, <3>7, <3>8, <3>9, <3>10
            DEF Step
  <2>4. CASE Raise(c)
    BY <2>4, RaiseInsideKeepsIInv, CancelWaitingKeepsIInv DEF Raise
  <2> QED BY <2>1, <2>2, <2>3, <2>4
<1> QED BY <1>1, <1>2

\* The invariant holds in every reachable state.
LEMMA IInvHolds == Spec => []IInv
<1> QED BY InitIInv, NextKeepsIInv, PTL DEF Spec

\* Whatever the callers, the adapters' answers and the rules, every adapter index
\* is within its list, no more retries are made than the policy allows, and a call
\* that fetches has a source to fetch (router.py, resolve_known_source).
THEOREM TypeCorrect == Spec => []TypeOK
<1>1. IInv => TypeOK
  BY DEF IInv
<1> QED BY <1>1, IInvHolds, PTL

\* Two callers are never inside a track for the same item id, for any number of
\* callers and ids, whatever raises or is cancelled (router.py, _lock_for).
THEOREM MutualExclusion == Spec => []SingleFlight
<1>1. IInv => SingleFlight
  BY DEF IInv, OwnerFirst, SingleFlight, HoldsLock
<1> QED BY <1>1, IInvHolds, PTL

===============================================================================
