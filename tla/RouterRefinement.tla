--------------------------- MODULE RouterRefinement ---------------------------
(***************************************************************************)
(* Discovery implements the merge rules, for every instance of Router.  A  *)
(* caller awaits the trust strategy with a candidate it found unseen; that *)
(* it is still unseen when the answer comes is what the lock is for.       *)
(***************************************************************************)
EXTENDS RouterProofs

\* The candidate a caller awaits an answer about has not been seen.
TrustUnseen ==
    \A c \in Callers : pc[c] = "trust" =>
        Head(frame[c].found) \notin Item(c).discovered_urls_seen

RInv == IInv /\ TrustUnseen

\* Two items have the same sources, alternates and URLs seen.
SameBooks(item, other) ==
    /\ item.current_sources = other.current_sources
    /\ item.candidate_sources = other.candidate_sources
    /\ item.discovered_urls_seen = other.discovered_urls_seen

\* What a track says of an item it leaves: only one with a source was fetched, and
\* only one whose content has a hash was resolved.
Marked(item) ==
    /\ item.status \in {"unresolved", "fetch_exhausted", "resolved"}
    /\ item.status # "unresolved" => item.current_sources # <<>>
    /\ item.status = "resolved" => item.last_content_hash \in Hashes

-------------------------------------------------------------------------------
(* What a step of one caller may do.                                       *)

\* A step that leaves every item alone; if it awaits the trust strategy, it asks
\* about a candidate that has not been seen.
LeavesItems(c) ==
    /\ UNCHANGED obj
    /\ pc'[c] = "trust" =>
          /\ frame'[c].item = frame[c].item
          /\ Head(frame'[c].found) \notin Item(c).discovered_urls_seen

\* A step of the owner that gives its item a status or a hash.
MarksItem(c) ==
    /\ HoldsLock(c) /\ pc'[c] # "trust"
    /\ \E item \in ResolvableItem :
          /\ obj' = [obj EXCEPT ![frame[c].item] = item]
          /\ SameBooks(item, Item(c))
          /\ Marked(item)

\* The step of the owner that merges a trusted candidate.
MergesItem(c) ==
    /\ HoldsLock(c) /\ pc[c] = "trust" /\ pc'[c] # "trust"
    /\ Head(frame[c].found) \in Trusted
    /\ obj' = [obj EXCEPT ![frame[c].item] = Merge(Item(c), Head(frame[c].found))]

\* What is left of an answer begins with a candidate that has not been seen.
LEMMA UnseenHead ==
    ASSUME NEW c \in Callers, NEW candidates \in Seq(Urls), Unseen(c, candidates) # <<>>
    PROVE  Head(Unseen(c, candidates)) \notin Item(c).discovered_urls_seen
<1> DEFINE I == {i \in 1..Len(candidates) :
                    candidates[i] \notin Item(c).discovered_urls_seen}
           first == IF I # {} THEN Min(I) ELSE 0
<1>1. Unseen(c, candidates) =
        IF first = 0 THEN <<>> ELSE SubSeq(candidates, first, Len(candidates))
  BY DEF Unseen, SelectInSeq
<1>2. I # {} /\ first = Min(I)
  BY <1>1
<1>3. first \in I
  <2>1. I \subseteq 1..Len(candidates) /\ I \subseteq Nat /\ Len(candidates) \in Nat
    OBVIOUS
  <2>2. Min(I) \in I
    <3> HIDE DEF I
    <3> QED BY <1>2, <2>1, MinInSet
  <2> QED BY <1>2, <2>2
<1>4. first \in 1..Len(candidates) /\ candidates[first] \notin Item(c).discovered_urls_seen
  BY <1>3
<1> HIDE DEF first
<1>5. Head(SubSeq(candidates, first, Len(candidates))) = candidates[first]
  BY <1>4, SubSeqProperties
<1> QED BY <1>1, <1>4, <1>5

\* Going on to the next candidate, or giving up, changes the books of no item.
LEMMA ContinueKind ==
    ASSUME IInv, NEW c \in Callers, pc[c] # "idle", HoldsLock(c),
           NEW candidates \in Seq(Urls), Continue(c, candidates)
    PROVE  LeavesItems(c) \/ MarksItem(c)
<1>1. frame \in [Callers -> Frame] /\ pc \in [Callers -> {"idle"} \cup Waiting \cup Inside]
  BY DEF IInv, TypeOK
<1>2. frame[c] \in Frame /\ Item(c) \in ResolvableItem
  BY ActiveCaller
<1>3. CASE /\ Unseen(c, candidates) # <<>>
           /\ frame' = [frame EXCEPT ![c].found = Unseen(c, candidates)]
           /\ UNCHANGED obj
  <2>1. frame'[c] = [frame[c] EXCEPT !.found = Unseen(c, candidates)]
    BY <1>1, <1>3
  <2>2. frame'[c].item = frame[c].item /\ frame'[c].found = Unseen(c, candidates)
    BY <1>2, <2>1 DEF Frame
  <2> QED BY <1>3, <2>2, UnseenHead DEF LeavesItems
<1>4. CASE Goto(c, "search") /\ UNCHANGED obj
  BY <1>1, <1>4 DEF Goto, LeavesItems
<1>5. CASE Finish(c, [Item(c) EXCEPT !.status = "unresolved"], "saveB", "none")
  <2> DEFINE item == [Item(c) EXCEPT !.status = "unresolved"]
  <2>1. item \in ResolvableItem /\ SameBooks(item, Item(c)) /\ Marked(item)
    BY <1>2 DEF ResolvableItem, ItemStatus, SameBooks, Marked
  <2>2. obj' = [obj EXCEPT ![frame[c].item] = item] /\ pc'[c] # "trust"
    BY <1>1, <1>5 DEF Finish, Goto
  <2> HIDE DEF item
  <2> QED BY <2>1, <2>2 DEF MarksItem
<1> QED BY <1>3, <1>4, <1>5 DEF Continue

\* A caller's step leaves the locals of every other caller alone.
LEMMA OthersKeep ==
    ASSUME IInv, NEW c \in Callers, Call(c) \/ Step(c) \/ Raise(c),
           NEW d \in Callers, d # c
    PROVE  pc'[d] = pc[d] /\ frame'[d] = frame[d]
<1> DEFINE Keep == pc'[d] = pc[d] /\ frame'[d] = frame[d]
<1>1. pc \in [Callers -> {"idle"} \cup Waiting \cup Inside] /\ frame \in [Callers -> Frame]
  BY DEF IInv, TypeOK
<1>2. \A answer : Return(c, answer) => Keep
  BY <1>1 DEF Return, Goto
<1>3. \A item, label, answer : Finish(c, item, label, answer) => Keep
  BY <1>1 DEF Finish, Goto
<1>4. \A f : AttemptFetch(c, f) => pc'[d] = pc[d] /\ frame'[d] = frame[d]
  BY <1>1 DEF AttemptFetch, Goto
<1>5. \A candidates : Continue(c, candidates) => Keep
  <2> TAKE candidates
  <2>1. CASE Finish(c, [Item(c) EXCEPT !.status = "unresolved"], "saveB", "none")
    BY <1>3, <2>1
  <2>2. CASE Goto(c, "trust") /\ frame' = [frame EXCEPT ![c].found = Unseen(c, candidates)]
    BY <1>1, <2>2 DEF Goto
  <2>3. CASE /\ Goto(c, "search")
             /\ frame' = [frame EXCEPT ![c].searcher = @ + 1, ![c].found = <<>>]
    BY <1>1, <2>3 DEF Goto
  <2> QED BY <2>1, <2>2, <2>3 DEF Continue
<1>6. CASE Call(c)
  BY <1>1, <1>6 DEF Call, CallResolveKnownSource, CallDiscoverSource, CallResolve, Start, Goto
<1>7. CASE EnterTrackA(c) \/ Escalate(c)
  BY <1>1, <1>2, <1>4, <1>7 DEF EnterTrackA, Escalate
<1>8. CASE RetryLater(c) \/ SleepEnds(c)
  BY <1>1, <1>8 DEF RetryLater, SleepEnds, Goto
<1>9. CASE Exhaust(c) \/ HashSkip(c) \/ Fetched(c)
  BY <1>3, <1>9 DEF Exhaust, HashSkip, Fetched
<1>10. CASE HandToParser(c) \/ ParserReturns(c) \/ SaveTrackA(c) \/ RaiseInside(c)
  BY <1>1, <1>2, <1>10 DEF HandToParser, ParserReturns, SaveTrackA, RaiseInside, Goto
<1>11. CASE EnterTrackB(c) \/ SearchReturns(c)
  BY <1>5, <1>11 DEF EnterTrackB, SearchReturns
<1>12. CASE TrustAnswers(c)
  BY <1>3, <1>5, <1>12 DEF TrustAnswers
<1>13. CASE SaveTrackB(c)
  BY <1>1, <1>2, <1>13 DEF SaveTrackB, Goto
<1>14. CASE CancelWaiting(c)
  BY <1>1, <1>14 DEF CancelWaiting, Goto
<1> QED BY <1>6, <1>7, <1>8, <1>9, <1>10, <1>11, <1>12, <1>13, <1>14 DEF Step, Raise

\* A fetch that ends marks the item and changes none of its books.
LEMMA FetchEndsMarks ==
    ASSUME IInv, NEW c \in Callers, Exhaust(c) \/ HashSkip(c) \/ Fetched(c)
    PROVE  MarksItem(c)
<1>1. pc \in [Callers -> {"idle"} \cup Waiting \cup Inside] /\ pc[c] = "fetch"
  BY DEF IInv, TypeOK, Exhaust, HashSkip, Fetched
<1>2. /\ HoldsLock(c) /\ Item(c) \in ResolvableItem
      /\ Item(c).current_sources # <<>>
  BY <1>1, ActiveCaller DEF Inside, TrackA, LocalsOK
<1>3. PICK status \in {"fetch_exhausted", "resolved"}, hash \in Hashes \cup {None} :
         /\ status = "resolved" => hash \in Hashes
         /\ \E answer :
               Finish(c, [Item(c) EXCEPT !.last_content_hash = hash, !.status = status],
                      "saveA", answer)
  <2>0. Item(c).last_content_hash \in Hashes \cup {None}
    BY <1>2 DEF ResolvableItem
  <2>1. CASE Exhaust(c)
    <3>1. [Item(c) EXCEPT !.status = "fetch_exhausted"] =
              [Item(c) EXCEPT !.last_content_hash = Item(c).last_content_hash,
                              !.status = "fetch_exhausted"]
      BY <1>2 DEF ResolvableItem
    <3> QED BY <2>0, <2>1, <3>1 DEF Exhaust
  <2>2. CASE HashSkip(c)
    <3>1. [Item(c) EXCEPT !.status = "resolved"] =
              [Item(c) EXCEPT !.last_content_hash = Item(c).last_content_hash,
                              !.status = "resolved"]
      BY <1>2 DEF ResolvableItem
    <3> QED BY <2>0, <2>2, <3>1 DEF HashSkip
  <2>3. CASE Fetched(c)
    BY <2>3 DEF Fetched
  <2> QED BY <2>1, <2>2, <2>3
<1> DEFINE item == [Item(c) EXCEPT !.last_content_hash = hash, !.status = status]
<1>4. item \in ResolvableItem /\ SameBooks(item, Item(c))
  BY <1>2 DEF ResolvableItem, ItemStatus, SameBooks
<1>5. Marked(item)
  BY <1>2, <1>3 DEF ResolvableItem, Marked
<1>6. obj' = [obj EXCEPT ![frame[c].item] = item] /\ pc'[c] # "trust"
  BY <1>1, <1>3 DEF Finish, Goto
<1> HIDE DEF item
<1> QED BY <1>2, <1>4, <1>5, <1>6 DEF MarksItem

\* Every step of a caller leaves the items alone, marks the caller's item, or
\* merges a trusted candidate into it.
LEMMA StepKinds ==
    ASSUME IInv, NEW c \in Callers, Call(c) \/ Step(c) \/ Raise(c)
    PROVE  LeavesItems(c) \/ MarksItem(c) \/ MergesItem(c)
<1>1. pc \in [Callers -> {"idle"} \cup Waiting \cup Inside]
  BY DEF IInv, TypeOK
<1>2. \A answer : Return(c, answer) => pc'[c] # "trust"
  BY <1>1 DEF Return, Goto
<1>3. CASE Call(c) \/ CancelWaiting(c)
  BY <1>1, <1>3 DEF Call, CallResolveKnownSource, CallDiscoverSource, CallResolve, Start,
                    CancelWaiting, Goto, LeavesItems
<1>4. CASE EnterTrackA(c) \/ RetryLater(c) \/ SleepEnds(c) \/ Escalate(c)
  BY <1>1, <1>2, <1>4 DEF EnterTrackA, RetryLater, SleepEnds, Escalate, AttemptFetch, Goto,
                          LeavesItems
<1>5. CASE HandToParser(c) \/ ParserReturns(c) \/ SaveTrackA(c) \/ RaiseInside(c)
  BY <1>1, <1>2, <1>5 DEF HandToParser, ParserReturns, SaveTrackA, RaiseInside, Goto,
                          LeavesItems
<1>6. CASE SaveTrackB(c)
  BY <1>1, <1>2, <1>6 DEF SaveTrackB, Goto, LeavesItems
<1>7. CASE Exhaust(c) \/ HashSkip(c) \/ Fetched(c)
  BY <1>7, FetchEndsMarks
<1>8. CASE EnterTrackB(c)
  BY <1>8, EmptySeq, ContinueKind DEF EnterTrackB
<1>9. CASE SearchReturns(c)
  <2>1. pc[c] # "idle" /\ HoldsLock(c)
    BY <1>9, ActiveCaller DEF SearchReturns, Inside, TrackB
  <2>2. PICK candidates \in CandidateLists : Continue(c, candidates)
    BY <1>9 DEF SearchReturns
  <2> QED BY <2>1, <2>2, RouterAssumption, ContinueKind
<1>10. CASE TrustAnswers(c)
  <2>1. pc[c] = "trust" /\ frame[c].found \in Seq(Urls) /\ frame[c].found # <<>> /\ HoldsLock(c)
    BY <1>10, ActiveCaller DEF TrustAnswers, Inside, TrackB, LocalsOK, Frame
  <2>2. CASE Continue(c, Tail(frame[c].found))
    BY <2>1, <2>2, HeadTailProperties, ContinueKind
  <2>3. CASE /\ IsTrusted(Head(frame[c].found))
             /\ Finish(c, Merge(Item(c), Head(frame[c].found)), "saveB", "candidate")
    BY <1>1, <2>1, <2>3 DEF Finish, Goto, IsTrusted, MergesItem
  <2> QED BY <1>10, <2>2, <2>3 DEF TrustAnswers
<1> QED BY <1>3, <1>4, <1>5, <1>6, <1>7, <1>8, <1>9, <1>10 DEF Step, Raise

-------------------------------------------------------------------------------
(* The invariant, and the step that places a URL.                          *)

\* No step of one caller spoils the candidate another one asks about: only the owner
\* of the lock changes an item.
LEMMA NextKeepsTrustUnseen == RInv /\ [Next]_vars => TrustUnseen'
<1> SUFFICES ASSUME RInv, [Next]_vars, NEW d \in Callers, pc'[d] = "trust"
             PROVE  (Head(frame[d].found) \notin Item(d).discovered_urls_seen)'
  BY DEF TrustUnseen
<1>1. CASE UNCHANGED vars
  BY <1>1 DEF vars, RInv, TrustUnseen, Item
<1>2. CASE Next
  <2>1. PICK c \in Callers : Call(c) \/ Step(c) \/ Raise(c)
    BY <1>2 DEF Next
  <2>2. LeavesItems(c) \/ MarksItem(c) \/ MergesItem(c)
    BY <2>1, StepKinds DEF RInv
  <2>3. CASE d = c
    BY <2>2, <2>3 DEF LeavesItems, MarksItem, MergesItem, Item
  <2>4. CASE d # c
    <3>1. pc[d] = "trust" /\ frame'[d] = frame[d]
      BY <2>1, <2>4, OthersKeep DEF RInv
    <3>2. HoldsLock(d) /\ Head(frame[d].found) \notin Item(d).discovered_urls_seen
      BY <3>1, ActiveCaller DEF RInv, TrustUnseen, Inside, TrackB
    <3>3. CASE LeavesItems(c)
      BY <3>1, <3>2, <3>3 DEF LeavesItems, Item
    <3>4. CASE MarksItem(c) \/ MergesItem(c)
      <4>1. frame[d].item # frame[c].item
        BY <2>4, <3>2, <3>4 DEF MarksItem, MergesItem, HoldsLock, Id
      <4>2. obj'[frame[d].item] = obj[frame[d].item]
        <5>1. frame[d].item \in Objects /\ obj \in [Objects -> ResolvableItem]
          BY <3>1, ActiveCaller DEF RInv, IInv, TypeOK
        <5> QED BY <3>4, <4>1, <5>1 DEF MarksItem, MergesItem
      <4> QED BY <3>1, <3>2, <4>2 DEF Item
    <3> QED BY <2>2, <3>3, <3>4
  <2> QED BY <2>3, <2>4
<1> QED BY <1>1, <1>2

\* The invariant holds in every reachable state.
LEMMA RInvHolds == Spec => []RInv
<1>1. Init => RInv
  <2>1. Init => TrustUnseen
    BY DEF Init, TrustUnseen
  <2> QED BY <2>1, InitIInv DEF RInv
<1>2. RInv /\ [Next]_vars => RInv'
  BY NextKeepsIInv, NextKeepsTrustUnseen DEF RInv
<1> QED BY <1>1, <1>2, PTL DEF Spec

\* A merge promotes a URL that is not seen to an item without a source, or stages
\* it beside the source.
LEMMA MergeRefines ==
    ASSUME RInv, NEW c \in Callers, MergesItem(c)
    PROVE  Merged!MergeNext
<1>1. pc[c] = "trust" /\ IInv
  BY DEF MergesItem, RInv
<1>2. PICK o \in Objects, url \in Urls : o = frame[c].item /\ url = Head(frame[c].found)
  BY <1>1, ActiveCaller, RouterAssumption DEF MergesItem
<1>3. /\ Item(c) \in ResolvableItem /\ Item(c) = obj[o]
      /\ url \in Trusted \ obj[o].discovered_urls_seen
  BY <1>1, <1>2, ActiveCaller DEF MergesItem, RInv, TrustUnseen, Item
<1> DEFINE item == Merge(obj[o], url)
<1>4. obj \in [Objects -> ResolvableItem] /\ obj' = [obj EXCEPT ![o] = item]
  BY <1>1, <1>2, <1>3 DEF MergesItem, IInv, TypeOK
<1>5. item.discovered_urls_seen = obj[o].discovered_urls_seen \cup {url}
  BY <1>3 DEF Merge, ResolvableItem
<1>6. /\ obj[o].current_sources = <<>> =>
            /\ item.current_sources = Append(obj[o].current_sources, url)
            /\ item.candidate_sources = obj[o].candidate_sources
      /\ obj[o].current_sources # <<>> =>
            /\ item.candidate_sources = Append(obj[o].candidate_sources, url)
            /\ item.current_sources = obj[o].current_sources
  BY <1>3 DEF Merge, ResolvableItem
<1> HIDE DEF item
<1>7. Merged!Place(o, url)
  BY <1>2, <1>3, <1>4, <1>5 DEF Merged!Place
<1>8. CASE obj[o].current_sources = <<>>
  <2>1. Merged!Promote(o, url)
    BY <1>2, <1>4, <1>6, <1>7, <1>8 DEF Merged!Promote
  <2> QED BY <1>2, <1>3, <2>1 DEF Merged!MergeNext
<1>9. CASE obj[o].current_sources # <<>>
  <2>1. Merged!Stage(o, url)
    BY <1>2, <1>4, <1>6, <1>7, <1>9 DEF Merged!Stage
  <2> QED BY <1>2, <1>3, <2>1 DEF Merged!MergeNext
<1> QED BY <1>8, <1>9

-------------------------------------------------------------------------------

\* For any callers, items and answers, a URL reaches an item only by the merge rules
\* (router.py, discover_source): every other step leaves sources, alternates and the
\* URLs seen as they are.
THEOREM Refinement == Spec => ImplementsMergeRules
<1>1. Init => Merged!MergeInit
  <2> SUFFICES ASSUME Init PROVE Merged!MergeInit
    OBVIOUS
  <2>1. PICK registered \in [Ids -> InitSources] :
           obj = [o \in Objects |-> NewItem(registered[IdOf[o]])]
    BY DEF Init
  <2>2. \A o \in Objects : /\ obj[o].current_sources \in Seq(Urls)
                           /\ obj[o].candidate_sources = <<>>
                           /\ obj[o].discovered_urls_seen = {}
    BY <2>1, RouterAssumption DEF NewItem
  <2> QED BY <2>2 DEF Merged!MergeInit
<1>2. RInv /\ [Next]_vars => [Merged!MergeNext]_(Merged!mergeVars)
  <2> SUFFICES ASSUME RInv, [Next]_vars PROVE [Merged!MergeNext]_(Merged!mergeVars)
    OBVIOUS
  <2>1. CASE UNCHANGED obj
    BY <2>1 DEF Merged!mergeVars
  <2>2. CASE Next
    <3>1. PICK c \in Callers : LeavesItems(c) \/ MarksItem(c) \/ MergesItem(c)
      BY <2>2, StepKinds DEF Next, RInv
    <3>2. CASE LeavesItems(c)
      BY <2>1, <3>2 DEF LeavesItems
    <3>3. CASE MarksItem(c)
      <4>1. obj \in [Objects -> ResolvableItem]
        BY DEF RInv, IInv, TypeOK
      <4>2. \A o \in Objects : SameBooks(obj'[o], obj[o])
        BY <3>3, <4>1 DEF MarksItem, SameBooks, Item
      <4> QED BY <4>2 DEF SameBooks, Merged!mergeVars
    <3>4. CASE MergesItem(c)
      BY <3>4, MergeRefines
    <3> QED BY <3>1, <3>2, <3>3, <3>4
  <2> QED BY <2>1, <2>2 DEF vars
<1> QED BY <1>1, <1>2, RInvHolds, PTL DEF Spec, ImplementsMergeRules, Merged!MergeSpec

===============================================================================
