--------------------------- MODULE RouterInvariants ---------------------------
(***************************************************************************)
(* What the router's calls leave behind, for every instance of Router and  *)
(* across restarts: the books of an item balance, its status matches its   *)
(* other fields, what happened to an item in memory is in the registry     *)
(* when no call is in flight, and the registry loses nothing.              *)
(***************************************************************************)
EXTENDS RouterRefinement, RouterRestart

\* One item has consistent books and a status that its other fields bear out.
ItemOK(item) == BooksBalance(item) /\ StatusFits(item)

\* Items are in order in memory and in the registry.
ItemsOK ==
    /\ \A o \in Objects : ItemOK(obj[o])
    /\ \A i \in Ids : ItemOK(stored[i])

\* An item is in the registry as some object in memory has it, or a call is about to
\* write it.
SavedOrSaving ==
    \A i \in Range(IdOf) \ torn :
        \/ \E o \in Objects : IdOf[o] = i /\ obj[o] = stored[i]
        \/ \E c \in Callers : pc[c] \in Saving /\ Id(c) = i

AllInv == RInv /\ QueuesAreCalls /\ ItemsOK /\ SavedOrSaving

-------------------------------------------------------------------------------
(* Sequences and the merge rules.                                          *)

\* Appending an element that a sequence does not hold keeps it injective.
LEMMA AppendInjectiveSeq ==
    ASSUME NEW S, NEW s \in Seq(S), NEW e \in S
    PROVE  /\ ToSet(Append(s, e)) = ToSet(s) \cup {e}
           /\ IsInjective(s) /\ e \notin ToSet(s) => IsInjective(Append(s, e))
<1> DEFINE t == Append(s, e)
<1>1. /\ t \in Seq(S) /\ Len(t) = Len(s) + 1 /\ t[Len(s) + 1] = e
      /\ \A i \in 1..Len(s) : t[i] = s[i]
  BY AppendProperties
<1>2. DOMAIN s = 1..Len(s) /\ DOMAIN t = 1..Len(t) /\ Len(s) \in Nat
  BY <1>1, LenProperties
<1> HIDE DEF t
<1>3. DOMAIN t = DOMAIN s \cup {Len(s) + 1}
  BY <1>1, <1>2
<1>4. ToSet(t) = ToSet(s) \cup {e}
  BY <1>1, <1>2, <1>3 DEF ToSet
<1>5. ASSUME IsInjective(s), e \notin ToSet(s) PROVE IsInjective(t)
  BY <1>1, <1>2, <1>3, <1>5 DEF IsInjective, ToSet
<1> QED BY <1>4, <1>5 DEF t

\* Sequence t is s without its k-th element.
Drops(s, k, t) ==
    /\ Len(t) = Len(s) - 1
    /\ \A j \in 1..Len(t) : t[j] = IF j < k THEN s[j] ELSE s[j + 1]

\* Leaving out one element of an injective sequence leaves the others, once each.
LEMMA DropOne ==
    ASSUME NEW S, NEW s \in Seq(S), NEW t \in Seq(S), NEW k \in 1..Len(s),
           IsInjective(s), Drops(s, k, t)
    PROVE  IsInjective(t) /\ ToSet(t) = ToSet(s) \ {s[k]}
<1>1. DOMAIN s = 1..Len(s) /\ DOMAIN t = 1..Len(t) /\ Len(s) \in Nat /\ Len(t) \in Nat
  BY LenProperties
<1> USE DEF Drops
<1> DEFINE from(j) == IF j < k THEN j ELSE j + 1
<1>2. \A j \in 1..Len(t) : from(j) \in 1..Len(s) /\ from(j) # k /\ t[j] = s[from(j)]
  BY <1>1
<1>3. \A j, m \in 1..Len(t) : from(j) = from(m) => j = m
  BY <1>1
<1>4. \A i \in 1..Len(s) : i # k => \E j \in 1..Len(t) : from(j) = i
  <2> SUFFICES ASSUME NEW i \in 1..Len(s), i # k PROVE \E j \in 1..Len(t) : from(j) = i
    OBVIOUS
  <2>1. CASE i < k
    <3>1. i \in 1..Len(t) /\ from(i) = i
      BY <1>1, <2>1
    <3> QED BY <3>1
  <2>2. CASE i > k
    <3>1. i - 1 \in 1..Len(t) /\ from(i - 1) = i
      BY <1>1, <2>2
    <3> QED BY <3>1
  <2> QED BY <2>1, <2>2
<1> HIDE DEF from
<1>5. IsInjective(t)
  BY <1>1, <1>2, <1>3 DEF IsInjective
<1>6. ToSet(t) = ToSet(s) \ {s[k]}
  <2>1. \A j \in 1..Len(t) : s[from(j)] # s[k]
    BY <1>1, <1>2 DEF IsInjective
  <2>2. ToSet(t) \subseteq ToSet(s) \ {s[k]}
    BY <1>1, <1>2, <2>1 DEF ToSet
  <2>3. ASSUME NEW i \in 1..Len(s), s[i] # s[k] PROVE s[i] \in ToSet(t)
    <3>1. PICK j \in 1..Len(t) : from(j) = i
      BY <1>4, <2>3
    <3> QED BY <1>1, <1>2, <3>1 DEF ToSet
  <2>4. ToSet(s) \ {s[k]} \subseteq ToSet(t)
    BY <1>1, <2>3 DEF ToSet
  <2> QED BY <2>2, <2>4
<1> QED BY <1>5, <1>6

\* The head leaves an injective queue.
LEMMA DropHead ==
    ASSUME NEW S, NEW s \in Seq(S), s # <<>>, IsInjective(s)
    PROVE  /\ Tail(s) \in Seq(S) /\ IsInjective(Tail(s))
           /\ ToSet(Tail(s)) = ToSet(s) \ {Head(s)}
<1>1. /\ Tail(s) \in Seq(S) /\ Len(Tail(s)) = Len(s) - 1 /\ Len(s) \in Nat \ {0}
      /\ \A i \in 1..Len(Tail(s)) : Tail(s)[i] = s[i + 1]
  BY HeadTailProperties, EmptySeq
<1>2. 1 \in 1..Len(s) /\ Head(s) = s[1]
  BY <1>1
<1>3. Drops(s, 1, Tail(s))
  BY <1>1 DEF Drops
<1> DEFINE t == Tail(s)
<1> HIDE DEF t
<1>4. t \in Seq(S) /\ Drops(s, 1, t)
  BY <1>1, <1>3 DEF t
<1>5. IsInjective(t) /\ ToSet(t) = ToSet(s) \ {s[1]}
  BY <1>2, <1>4, DropOne
<1> QED BY <1>2, <1>4, <1>5 DEF t

\* A member leaves an injective queue.
LEMMA DropMember ==
    ASSUME NEW S, NEW s \in Seq(S), NEW k \in DOMAIN s, IsInjective(s)
    PROVE  IsInjective(RemoveAt(s, k)) /\ ToSet(RemoveAt(s, k)) = ToSet(s) \ {s[k]}
<1> DEFINE l == SubSeq(s, 1, k - 1)
           r == SubSeq(s, k + 1, Len(s))
<1>1. k \in 1..Len(s) /\ Len(s) \in Nat
  OBVIOUS
<1>2. l \in Seq(S) /\ Len(l) = k - 1 /\ \A j \in 1..k - 1 : l[j] = s[j]
  OBVIOUS
<1>3. r \in Seq(S) /\ Len(r) = Len(s) - k /\ \A j \in 1..Len(s) - k : r[j] = s[k + j]
  OBVIOUS
<1> DEFINE t == l \o r
<1> HIDE DEF l, r
<1>4. /\ t \in Seq(S) /\ Len(t) = Len(l) + Len(r)
      /\ \A j \in 1..Len(l) + Len(r) : t[j] = IF j <= Len(l) THEN l[j] ELSE r[j - Len(l)]
  BY <1>2, <1>3, ConcatProperties
<1> HIDE DEF t
<1>5. Len(t) = Len(s) - 1
  BY <1>1, <1>2, <1>3, <1>4
<1>6. Drops(s, k, t)
  <2>1. ASSUME NEW j \in 1..Len(t), j < k PROVE t[j] = s[j]
    BY <1>1, <1>2, <1>3, <1>4, <1>5, <2>1
  <2>2. ASSUME NEW j \in 1..Len(t), ~(j < k) PROVE t[j] = s[j + 1]
    <3>1. j - (k - 1) \in 1..Len(s) - k /\ k + (j - (k - 1)) = j + 1
      BY <1>1, <1>5, <2>2
    <3>2. t[j] = r[j - (k - 1)]
      BY <1>1, <1>2, <1>3, <1>4, <1>5, <2>2
    <3>3. r[j - (k - 1)] = s[k + (j - (k - 1))]
      BY <1>3, <3>1
    <3> QED BY <3>1, <3>2, <3>3
  <2> QED BY <1>5, <2>1, <2>2 DEF Drops
<1>7. IsInjective(t) /\ ToSet(t) = ToSet(s) \ {s[k]}
  BY <1>1, <1>4, <1>6, DropOne
<1>8. RemoveAt(s, k) = t
  BY DEF RemoveAt, t, l, r
<1> QED BY <1>7, <1>8

\* A sequence is a prefix of itself, and stays one when the other grows.
LEMMA PrefixGrows ==
    ASSUME NEW S, NEW s \in Seq(S), NEW t \in Seq(S), NEW e \in S
    PROVE  /\ IsPrefix(s, s)
           /\ IsPrefix(s, t) => IsPrefix(s, Append(t, e))
<1>1. Len(s) \in Nat /\ Len(t) \in Nat
  BY LenProperties
<1>2. IsPrefix(s, s)
  BY <1>1 DEF IsPrefix
<1>3. ASSUME IsPrefix(s, t) PROVE IsPrefix(s, Append(t, e))
  <2>1. /\ Append(t, e) \in Seq(S) /\ Len(Append(t, e)) = Len(t) + 1
        /\ \A i \in 1..Len(t) : Append(t, e)[i] = t[i]
    BY AppendProperties
  <2>2. Len(s) <= Len(t) /\ SubSeq(s, 1, Len(s)) = SubSeq(t, 1, Len(s))
    BY <1>3 DEF IsPrefix
  <2>3. SubSeq(Append(t, e), 1, Len(s)) = SubSeq(t, 1, Len(s))
    <3> DEFINE n == Len(s)
    <3>1. n \in Int /\ 1 \in Int
      BY <1>1
    <3>2. \A i \in 1..n : t[i] \in S /\ Append(t, e)[i] = t[i]
      <4>1. \A i \in 1..n : i \in 1..Len(t)
        BY <1>1, <2>2
      <4> QED BY <2>1, <4>1, ElementOfSeq
    <3> HIDE DEF n
    <3>3. ASSUME NEW u, \A i \in 1..n : u[i] \in S
          PROVE  /\ SubSeq(u, 1, n) \in Seq(S) /\ Len(SubSeq(u, 1, n)) = n
                 /\ \A i \in 1..n : SubSeq(u, 1, n)[i] = u[i]
      <4>1. n \in Nat /\ 1 \in Int /\ n - 1 + 1 = n
        BY <1>1 DEF n
      <4>2. /\ SubSeq(u, 1, n) \in Seq(S)
            /\ Len(SubSeq(u, 1, n)) = IF 1 <= n THEN n - 1 + 1 ELSE 0
            /\ \A i \in 1..n - 1 + 1 : SubSeq(u, 1, n)[i] = u[1 + i - 1]
        BY <3>1, <3>3, SubSeqProperties
      <4> QED BY <4>1, <4>2
    <3> DEFINE a == SubSeq(Append(t, e), 1, n)
               b == SubSeq(t, 1, n)
    <3>4. /\ a \in Seq(S) /\ b \in Seq(S) /\ Len(a) = n /\ Len(b) = n
          /\ \A i \in 1..n : a[i] = t[i] /\ b[i] = t[i]
      BY <3>2, <3>3
    <3>5. \A i \in 1..Len(a) : a[i] = b[i]
      BY <3>4
    <3> HIDE DEF a, b
    <3>6. a = b
      BY <3>4, <3>5, SeqEqual
    <3> QED BY <3>6 DEF a, b, n
  <2> QED BY <1>1, <2>1, <2>2, <2>3 DEF IsPrefix
<1> QED BY <1>2, <1>3

\* What the merge rules do to the fields of an item.
LEMMA MergeFields ==
    ASSUME NEW item \in ResolvableItem, NEW url \in Urls
    PROVE  LET merged == Merge(item, url)
           IN  /\ merged.discovered_urls_seen = item.discovered_urls_seen \cup {url}
               /\ merged.last_content_hash = item.last_content_hash
               /\ item.current_sources = <<>> =>
                     /\ merged.current_sources = Append(item.current_sources, url)
                     /\ merged.candidate_sources = item.candidate_sources
                     /\ merged.status = "pending_review"
               /\ item.current_sources # <<>> =>
                     /\ merged.candidate_sources = Append(item.candidate_sources, url)
                     /\ merged.current_sources = item.current_sources
                     /\ merged.status = item.status
BY DEF Merge, ResolvableItem

\* Merging a trusted URL that is not seen keeps an item in order.
LEMMA MergeKeepsItemOK ==
    ASSUME NEW item \in ResolvableItem, NEW url \in Urls, ItemOK(item), url \in Trusted,
           url \notin item.discovered_urls_seen
    PROVE  ItemOK(Merge(item, url))
<1> DEFINE merged == Merge(item, url)
           seen == item.discovered_urls_seen
           staged == item.candidate_sources
           sources == item.current_sources
<1>1. merged.discovered_urls_seen = seen \cup {url}
  BY MergeFields
<1>2. sources \in Seq(Urls) /\ staged \in Seq(Urls)
  BY DEF ResolvableItem
<1>3. /\ IsInjective(staged) /\ ToSet(staged) \subseteq seen \cap Trusted
      /\ sources \notin InitSources =>
            /\ IsInjective(sources)
            /\ ToSet(sources) \subseteq (seen \cap Trusted) \ ToSet(staged)
      /\ sources = <<>> => staged = <<>>
  BY DEF ItemOK, BooksBalance
<1>4. StatusFits(item)
  BY DEF ItemOK
<1>5. CASE sources = <<>>
  <2>1. /\ merged.current_sources = Append(sources, url)
        /\ merged.candidate_sources = staged
        /\ merged.status = "pending_review"
    BY <1>5, MergeFields
  <2>2. IsInjective(<<>>) /\ ToSet(<<>>) = {}
    BY DEF IsInjective, ToSet
  <2>3. /\ ToSet(Append(sources, url)) = {url} /\ IsInjective(Append(sources, url))
        /\ Append(sources, url) # <<>> /\ Head(Append(sources, url)) = url
    <3>1. ToSet(Append(sources, url)) = {url} /\ IsInjective(Append(sources, url))
      <4>1. url \notin ToSet(sources) /\ IsInjective(sources) /\ ToSet(sources) = {}
        BY <1>5, <2>2
      <4> HIDE DEF sources
      <4> QED BY <1>2, <4>1, AppendInjectiveSeq
    <3>2. Append(sources, url) # <<>> /\ Head(Append(sources, url)) = url
      BY <1>2, <1>5, HeadTailAppend, AppendProperties
    <3> QED BY <3>1, <3>2
  <2>4. BooksBalance(merged)
    <3> HIDE DEF merged, seen, staged, sources
    <3> QED BY <1>1, <1>3, <1>5, <2>1, <2>2, <2>3 DEF BooksBalance
  <2>5. StatusFits(merged)
    <3> HIDE DEF merged, seen, staged, sources
    <3> QED BY <1>1, <2>1, <2>3 DEF StatusFits
  <2> QED BY <2>4, <2>5 DEF ItemOK
<1>6. CASE sources # <<>>
  <2>1. /\ merged.candidate_sources = Append(staged, url)
        /\ merged.current_sources = sources
        /\ merged.status = item.status
        /\ merged.last_content_hash = item.last_content_hash
    BY <1>6, MergeFields
  <2>2. ToSet(Append(staged, url)) = ToSet(staged) \cup {url} /\ IsInjective(Append(staged, url))
    BY <1>2, <1>3, AppendInjectiveSeq
  <2>3. BooksBalance(merged)
    <3> HIDE DEF merged, seen, staged, sources
    <3> QED BY <1>1, <1>3, <1>6, <2>1, <2>2 DEF BooksBalance, seen
  <2>4. StatusFits(merged)
    <3> HIDE DEF merged
    <3> QED BY <1>1, <1>4, <1>6, <2>1 DEF StatusFits
  <2> QED BY <2>3, <2>4 DEF ItemOK
<1> QED BY <1>5, <1>6

\* A track that leaves an item says of it only what is so.
LEMMA MarkKeepsItemOK ==
    ASSUME NEW item, NEW other, ItemOK(other), SameBooks(item, other), Marked(item)
    PROVE  ItemOK(item)
<1>1. BooksBalance(item)
  BY DEF ItemOK, BooksBalance, SameBooks
<1>2. StatusFits(item)
  BY RouterAssumption DEF Marked, StatusFits
<1> QED BY <1>1, <1>2 DEF ItemOK

-------------------------------------------------------------------------------
(* What a step of one caller does to the registry.                         *)

\* The caller's upsert reaches the registry.
StoresItem(c) == pc[c] \in Saving /\ Upsert(frame[c].item) /\ UNCHANGED obj

\* The caller's upsert is interrupted and does not reach it.
TearsItem(c) ==
    pc[c] \in Saving /\ torn' = torn \cup {Id(c)} /\ UNCHANGED <<obj, stored>>

\* No upsert; if the caller changes its item, an upsert is what it awaits next.
KeepsStored(c) ==
    /\ pc[c] \notin Saving /\ UNCHANGED <<stored, torn>>
    /\ \/ UNCHANGED obj
       \/ /\ pc'[c] \in Saving /\ frame'[c].item = frame[c].item
          /\ \E item : obj' = [obj EXCEPT ![frame[c].item] = item]

\* Setting an item's fields leads to an upsert.
LEMMA FinishKeepsStored ==
    ASSUME IInv, NEW c \in Callers, pc[c] \notin Saving, NEW item, NEW label \in Saving,
           NEW answer, Finish(c, item, label, answer)
    PROVE  KeepsStored(c)
<1>1. pc \in [Callers -> {"idle"} \cup Waiting \cup Inside] /\ frame \in [Callers -> Frame]
  BY DEF IInv, TypeOK
<1>2. pc'[c] \in Saving /\ frame'[c].item = frame[c].item
  BY <1>1 DEF Finish, Goto, NoFrame
<1> QED BY <1>2 DEF Finish, KeepsStored

\* Every step of a caller keeps to one of the three.
LEMMA StoreKinds ==
    ASSUME IInv, NEW c \in Callers, Call(c) \/ Step(c) \/ Raise(c)
    PROVE  StoresItem(c) \/ TearsItem(c) \/ KeepsStored(c)
<1>1. "saveA" \in Saving /\ "saveB" \in Saving
  BY DEF Saving
<1>2. ASSUME NEW candidates, pc[c] \notin Saving, Continue(c, candidates) PROVE KeepsStored(c)
  <2>1. CASE Finish(c, [Item(c) EXCEPT !.status = "unresolved"], "saveB", "none")
    BY <1>1, <1>2, <2>1, FinishKeepsStored
  <2>2. CASE UNCHANGED <<config, obj, stored, lock, torn>>
    BY <1>2, <2>2 DEF KeepsStored
  <2> QED BY <1>2, <2>1, <2>2 DEF Continue
<1>3. CASE Call(c) \/ CancelWaiting(c)
  BY <1>3 DEF Call, CallResolveKnownSource, CallDiscoverSource, CallResolve, Start,
              CancelWaiting, Waiting, Saving, KeepsStored
<1>4. CASE EnterTrackA(c) \/ RetryLater(c) \/ SleepEnds(c) \/ Escalate(c)
           \/ HandToParser(c) \/ ParserReturns(c)
  BY <1>4 DEF EnterTrackA, RetryLater, SleepEnds, Escalate, HandToParser, ParserReturns,
              Saving, KeepsStored
<1>5. CASE Exhaust(c) \/ HashSkip(c) \/ Fetched(c)
  <2>1. pc[c] \notin Saving
    BY <1>5 DEF Exhaust, HashSkip, Fetched, Saving
  <2>2. \E item, answer : Finish(c, item, "saveA", answer)
    BY <1>5 DEF Exhaust, HashSkip, Fetched
  <2> QED BY <1>1, <2>1, <2>2, FinishKeepsStored
<1>6. CASE SaveTrackA(c) \/ SaveTrackB(c)
  BY <1>6 DEF SaveTrackA, SaveTrackB, Saving, StoresItem
<1>7. CASE EnterTrackB(c) \/ SearchReturns(c)
  BY <1>2, <1>7 DEF EnterTrackB, SearchReturns, Saving
<1>8. CASE TrustAnswers(c)
  <2>1. pc[c] \notin Saving
    BY <1>8 DEF TrustAnswers, Saving
  <2>2. \/ Finish(c, Merge(Item(c), Head(frame[c].found)), "saveB", "candidate")
        \/ Continue(c, Tail(frame[c].found))
    BY <1>8 DEF TrustAnswers
  <2> QED BY <1>1, <1>2, <2>1, <2>2, FinishKeepsStored
<1>9. CASE RaiseInside(c)
  BY <1>9 DEF RaiseInside, StoresItem, TearsItem, KeepsStored
<1> QED BY <1>3, <1>4, <1>5, <1>6, <1>7, <1>8, <1>9 DEF Step, Raise

-------------------------------------------------------------------------------
(* What a step of one caller does to the lock of its item.                 *)

\* The call goes on with the same item, and the lock's queue is as it was.
KeepsQueue(c) ==
    /\ pc[c] # "idle" /\ pc'[c] # "idle" /\ frame'[c].item = frame[c].item
    /\ UNCHANGED lock

\* The call begins at the end of the queue of its item.
JoinsQueue(c) ==
    /\ pc[c] = "idle" /\ pc'[c] # "idle" /\ frame'[c].item \in Objects
    /\ lock' = [lock EXCEPT ![IdOf[frame'[c].item]] = Append(@, c)]

\* The owner's call ends.
LeavesQueue(c) ==
    /\ pc[c] # "idle" /\ pc'[c] = "idle" /\ HoldsLock(c)
    /\ lock' = [lock EXCEPT ![Id(c)] = Tail(@)]

\* The owner goes to the end of the queue.
RejoinsQueue(c) ==
    /\ pc[c] # "idle" /\ pc'[c] # "idle" /\ frame'[c].item = frame[c].item /\ HoldsLock(c)
    /\ lock' = [lock EXCEPT ![Id(c)] = Append(Tail(@), c)]

\* A waiter's call ends.
QuitsQueue(c) ==
    /\ pc[c] # "idle" /\ pc'[c] = "idle"
    /\ \E k \in DOMAIN lock[Id(c)] :
          lock[Id(c)][k] = c /\ lock' = [lock EXCEPT ![Id(c)] = RemoveAt(@, k)]

\* Every step of a caller keeps to one of the five.
LEMMA LockKinds ==
    ASSUME IInv, NEW c \in Callers, Call(c) \/ Step(c) \/ Raise(c)
    PROVE  \/ KeepsQueue(c) \/ JoinsQueue(c) \/ LeavesQueue(c)
           \/ RejoinsQueue(c) \/ QuitsQueue(c)
<1>1. pc \in [Callers -> {"idle"} \cup Waiting \cup Inside] /\ frame \in [Callers -> Frame]
  BY DEF IInv, TypeOK
<1>2. frame[c] \in Frame /\ "idle" \notin Waiting \cup Inside
  BY <1>1 DEF Waiting, Inside, TrackA, TrackB
<1>3. ASSUME NEW answer, pc[c] # "idle", HoldsLock(c), Return(c, answer)
      PROVE  LeavesQueue(c)
  BY <1>1, <1>3 DEF Return, Goto, LeavesQueue
<1>4. ASSUME NEW item, NEW answer, NEW label \in Saving, pc[c] # "idle",
             Finish(c, item, label, answer)
      PROVE  KeepsQueue(c)
  BY <1>1, <1>4 DEF Finish, Goto, NoFrame, Saving, KeepsQueue
<1>5. "saveA" \in Saving /\ "saveB" \in Saving
  BY DEF Saving
<1>6. ASSUME NEW candidates, pc[c] # "idle", Continue(c, candidates) PROVE KeepsQueue(c)
  <2>1. CASE Finish(c, [Item(c) EXCEPT !.status = "unresolved"], "saveB", "none")
    BY <1>4, <1>5, <1>6, <2>1
  <2>2. CASE /\ Goto(c, "trust") /\ UNCHANGED lock
             /\ frame' = [frame EXCEPT ![c].found = Unseen(c, candidates)]
    <3>1. frame'[c] = [frame[c] EXCEPT !.found = Unseen(c, candidates)] /\ pc'[c] = "trust"
      BY <1>1, <2>2 DEF Goto
    <3> QED BY <1>2, <1>6, <2>2, <3>1 DEF Frame, KeepsQueue
  <2>3. CASE /\ Goto(c, "search") /\ UNCHANGED lock
             /\ frame' = [frame EXCEPT ![c].searcher = @ + 1, ![c].found = <<>>]
    <3>1. /\ frame'[c] = [frame[c] EXCEPT !.searcher = @ + 1, !.found = <<>>]
          /\ pc'[c] = "search"
      BY <1>1, <1>2, <2>3 DEF Goto, Frame
    <3> QED BY <1>2, <1>6, <2>3, <3>1 DEF Frame, KeepsQueue
  <2> QED BY <1>6, <2>1, <2>2, <2>3 DEF Continue
<1>7. CASE Call(c)
  <2>1. PICK o \in Objects, label \in {"lockA", "lockB"}, resolving \in BOOLEAN :
           Start(c, o, label, resolving)
    BY <1>7 DEF Call, CallResolveKnownSource, CallDiscoverSource, CallResolve
  <2>2. pc[c] = "idle" /\ pc'[c] = label /\ frame'[c].item = o
    BY <1>1, <2>1 DEF Start, Goto, NoFrame
  <2> QED BY <2>1, <2>2 DEF Start, JoinsQueue
<1>8. CASE Step(c) \/ RaiseInside(c)
  <2>1. pc[c] # "idle"
    BY <1>2, <1>8 DEF Step, EnterTrackA, RetryLater, SleepEnds, Escalate, Exhaust, HashSkip,
          Fetched, HandToParser, ParserReturns, SaveTrackA, EnterTrackB, SearchReturns,
          TrustAnswers, SaveTrackB, RaiseInside
  <2>2. pc[c] \in Inside => HoldsLock(c)
    BY <2>1, ActiveCaller
  <2>3. CASE EnterTrackA(c) \/ Escalate(c)
    <3>1. ASSUME NEW f, AttemptFetch(c, f), UNCHANGED lock PROVE KeepsQueue(c)
      <4>1. frame'[c] = [frame[c] EXCEPT !.cur = f, !.visited = @ \cup {f}, !.attempt = 0]
        BY <1>1, <1>2, <3>1 DEF AttemptFetch, Frame
      <4>2. frame'[c].item = frame[c].item
        BY <1>2, <4>1 DEF Frame
      <4> QED BY <1>1, <2>1, <3>1, <4>2 DEF AttemptFetch, Goto, KeepsQueue
    <3> QED BY <1>3, <2>1, <2>3, <3>1 DEF EnterTrackA, Escalate
  <2>4. CASE RetryLater(c)
    BY <1>1, <2>1, <2>4 DEF RetryLater, Goto, KeepsQueue
  <2>5. CASE SleepEnds(c)
    <3>1. frame'[c] = [frame[c] EXCEPT !.attempt = @ + 1] /\ pc'[c] = "fetch"
      BY <1>1, <2>5 DEF SleepEnds, Goto
    <3> QED BY <1>2, <2>1, <2>5, <3>1 DEF SleepEnds, Frame, KeepsQueue
  <2>6. CASE Exhaust(c) \/ HashSkip(c) \/ Fetched(c)
    BY <1>4, <1>5, <2>1, <2>6 DEF Exhaust, HashSkip, Fetched
  <2>7. CASE HandToParser(c) \/ ParserReturns(c)
    <3>1. HoldsLock(c)
      BY <2>2, <2>7 DEF HandToParser, ParserReturns, Inside, TrackA
    <3>2. CASE \E answer : Return(c, answer)
      BY <1>3, <2>1, <3>1, <3>2
    <3>3. CASE Goto(c, "parse") /\ UNCHANGED <<lock, frame>>
      BY <1>1, <2>1, <3>3 DEF Goto, KeepsQueue
    <3> QED BY <2>7, <3>2, <3>3 DEF HandToParser, ParserReturns
  <2>8. CASE SaveTrackA(c) \/ RaiseInside(c)
    <3>1. HoldsLock(c) /\ \E answer : Return(c, answer)
      BY <2>2, <2>8 DEF SaveTrackA, RaiseInside, Inside, TrackA
    <3> QED BY <1>3, <2>1, <3>1
  <2>9. CASE EnterTrackB(c) \/ SearchReturns(c)
    BY <1>6, <2>1, <2>9 DEF EnterTrackB, SearchReturns
  <2>10. CASE TrustAnswers(c)
    <3>1. \/ Finish(c, Merge(Item(c), Head(frame[c].found)), "saveB", "candidate")
          \/ Continue(c, Tail(frame[c].found))
      BY <2>10 DEF TrustAnswers
    <3> QED BY <1>4, <1>5, <1>6, <2>1, <3>1
  <2>11. CASE SaveTrackB(c)
    <3>1. HoldsLock(c)
      BY <2>2, <2>11 DEF SaveTrackB, Inside, TrackB
    <3>2. CASE \E answer : Return(c, answer)
      BY <1>3, <2>1, <3>1, <3>2
    <3>3. CASE /\ lock' = [lock EXCEPT ![Id(c)] = Append(Tail(@), c)]
               /\ Goto(c, "lockA") /\ frame' = [frame EXCEPT ![c].ret = "none"]
      <4>1. frame'[c] = [frame[c] EXCEPT !.ret = "none"] /\ pc'[c] = "lockA"
        BY <1>1, <3>3 DEF Goto
      <4>2. frame'[c].item = frame[c].item
        BY <1>2, <4>1 DEF Frame
      <4> QED BY <2>1, <3>1, <3>3, <4>1, <4>2 DEF RejoinsQueue
    <3> QED BY <2>11, <3>2, <3>3 DEF SaveTrackB
  <2> QED BY <1>8, <2>3, <2>4, <2>5, <2>6, <2>7, <2>8, <2>9, <2>10, <2>11 DEF Step
<1>9. CASE CancelWaiting(c)
  BY <1>1, <1>2, <1>9 DEF CancelWaiting, Goto, QuitsQueue
<1> QED BY <1>7, <1>8, <1>9 DEF Raise

\* The queue of a lock gains the calls that begin and loses those that end.
LEMMA StepKeepsQueues ==
    ASSUME IInv, QueuesAreCalls, NEW c \in Callers, Call(c) \/ Step(c) \/ Raise(c)
    PROVE  QueuesAreCalls'
<1> DEFINE InProgress(i) == {d \in Callers : pc[d] # "idle" /\ IdOf[frame[d].item] = i}
           Afterwards(i) == {d \in Callers : pc'[d] # "idle" /\ IdOf[frame'[d].item] = i}
<1> SUFFICES ASSUME NEW i \in Ids
             PROVE  IsInjective(lock'[i]) /\ ToSet(lock'[i]) = Afterwards(i)
  BY DEF QueuesAreCalls, Id
<1>1. /\ lock \in [Ids -> Seq(Callers)] /\ lock[i] \in Seq(Callers)
      /\ IsInjective(lock[i]) /\ ToSet(lock[i]) = InProgress(i)
  BY DEF IInv, TypeOK, QueuesAreCalls, Id
<1>2. \A d \in Callers : d # c => pc'[d] = pc[d] /\ frame'[d] = frame[d]
  BY OthersKeep
<1>3. pc[c] # "idle" => Id(c) = IdOf[frame[c].item] /\ Id(c) \in Ids
  BY ActiveCaller DEF Id
<1>4. CASE KeepsQueue(c)
  <2>1. Afterwards(i) = InProgress(i)
    BY <1>2, <1>4 DEF KeepsQueue
  <2> QED BY <1>1, <1>4, <2>1 DEF KeepsQueue
<1>5. CASE JoinsQueue(c)
  <2> DEFINE j == IdOf[frame'[c].item]
  <2>1. pc[c] = "idle" /\ lock' = [lock EXCEPT ![j] = Append(@, c)] /\ j \in Ids
    BY <1>5, RouterAssumption DEF JoinsQueue
  <2>2. c \notin InProgress(i)
    BY <2>1
  <2>3. CASE i = j
    <3>1. Afterwards(i) = InProgress(i) \cup {c}
      BY <1>2, <1>5, <2>3 DEF JoinsQueue
    <3>2. lock'[i] = Append(lock[i], c)
      BY <1>1, <2>1, <2>3
    <3> HIDE DEF InProgress, Afterwards
    <3> QED BY <1>1, <2>2, <3>1, <3>2, AppendInjectiveSeq
  <2>4. CASE i # j
    <3>1. Afterwards(i) = InProgress(i)
      BY <1>2, <2>1, <2>4
    <3>2. lock'[i] = lock[i]
      BY <1>1, <2>1, <2>4
    <3> QED BY <1>1, <3>1, <3>2
  <2> QED BY <2>3, <2>4
<1>6. CASE LeavesQueue(c) \/ QuitsQueue(c)
  <2>1. pc[c] # "idle" /\ pc'[c] = "idle"
    BY <1>6 DEF LeavesQueue, QuitsQueue
  <2>2. Afterwards(i) = InProgress(i) \ {c}
    BY <1>2, <2>1
  <2>3. CASE i = Id(c)
    <3>1. IsInjective(lock'[i]) /\ ToSet(lock'[i]) = ToSet(lock[i]) \ {c}
      <4>1. CASE LeavesQueue(c)
        BY <1>1, <2>3, <4>1, DropHead DEF LeavesQueue, HoldsLock
      <4>2. CASE QuitsQueue(c)
        <5>1. PICK k \in DOMAIN lock[i] :
                 lock[i][k] = c /\ lock' = [lock EXCEPT ![i] = RemoveAt(@, k)]
          BY <2>3, <4>2 DEF QuitsQueue
        <5>2. lock'[i] = RemoveAt(lock[i], k)
          BY <1>1, <5>1
        <5> QED BY <1>1, <5>1, <5>2, DropMember
      <4> QED BY <1>6, <4>1, <4>2
    <3> QED BY <1>1, <2>2, <3>1
  <2>4. CASE i # Id(c)
    <3>1. lock'[i] = lock[i]
      BY <1>1, <1>6, <2>4 DEF LeavesQueue, QuitsQueue
    <3>2. InProgress(i) \ {c} = InProgress(i)
      BY <1>3, <2>1, <2>4
    <3> QED BY <1>1, <2>2, <3>1, <3>2
  <2> QED BY <2>3, <2>4
<1>7. CASE RejoinsQueue(c)
  <2>1. Afterwards(i) = InProgress(i)
    BY <1>2, <1>7 DEF RejoinsQueue
  <2>2. CASE i = Id(c)
    <3>1. lock'[i] = Append(Tail(lock[i]), c) /\ lock[i] # <<>> /\ Head(lock[i]) = c
      BY <1>1, <1>7, <2>2 DEF RejoinsQueue, HoldsLock
    <3>2. /\ Tail(lock[i]) \in Seq(Callers) /\ IsInjective(Tail(lock[i]))
          /\ ToSet(Tail(lock[i])) = ToSet(lock[i]) \ {c}
      BY <1>1, <3>1, DropHead
    <3>3. c \in InProgress(i)
      BY <1>3, <1>7, <2>2 DEF RejoinsQueue
    <3>4. /\ IsInjective(Append(Tail(lock[i]), c))
          /\ ToSet(Append(Tail(lock[i]), c)) = (ToSet(lock[i]) \ {c}) \cup {c}
      <4> DEFINE rest == Tail(lock[i])
      <4>1. c \notin ToSet(rest)
        BY <3>2
      <4>2. rest \in Seq(Callers) /\ IsInjective(rest) /\ ToSet(rest) = ToSet(lock[i]) \ {c}
        BY <3>2
      <4> HIDE DEF InProgress, Afterwards, rest
      <4>3. IsInjective(Append(rest, c)) /\ ToSet(Append(rest, c)) = ToSet(rest) \cup {c}
        BY <4>1, <4>2, AppendInjectiveSeq
      <4> QED BY <4>2, <4>3 DEF rest
    <3> QED BY <1>1, <2>1, <3>1, <3>3, <3>4
  <2>3. CASE i # Id(c)
    <3>1. lock'[i] = lock[i]
      BY <1>1, <1>7, <2>3 DEF RejoinsQueue
    <3> QED BY <1>1, <2>1, <3>1
  <2> QED BY <2>2, <2>3
<1> QED BY <1>4, <1>5, <1>6, <1>7, LockKinds

-------------------------------------------------------------------------------
(* The invariants: what the initial state and a step of a caller do.       *)

\* Every conjunct holds when no call has begun.
LEMMA InitAllInv == Init => AllInv
<1> SUFFICES ASSUME Init PROVE AllInv
  OBVIOUS
<1>1. PICK registered \in [Ids -> InitSources] :
         /\ obj = [o \in Objects |-> NewItem(registered[IdOf[o]])]
         /\ stored = [i \in Ids |-> NewItem(registered[i])]
  BY DEF Init
<1>2. ASSUME NEW sources \in InitSources PROVE ItemOK(NewItem(sources))
  <2> DEFINE item == NewItem(sources)
  <2>1. /\ item.candidate_sources = <<>> /\ item.discovered_urls_seen = {}
        /\ item.status = "pending_discovery" /\ item.last_content_hash = None
        /\ item.current_sources \in InitSources
    BY DEF NewItem
  <2>2. IsInjective(<<>>) /\ ToSet(<<>>) = {}
    BY DEF IsInjective, ToSet
  <2> HIDE DEF item
  <2>3. BooksBalance(item)
    BY <2>1, <2>2 DEF BooksBalance
  <2>4. StatusFits(item)
    BY <2>1 DEF StatusFits
  <2>5. ItemOK(item)
    BY <2>3, <2>4 DEF ItemOK
  <2> QED BY <2>5 DEF item
<1>3. ItemsOK
  BY <1>1, <1>2, RouterAssumption DEF ItemsOK
<1>4. \A c \in Callers : pc[c] = "idle"
  BY DEF Init
<1>6. SavedOrSaving
  <2> SUFFICES ASSUME NEW i \in Range(IdOf) \ torn
               PROVE  \E o \in Objects : IdOf[o] = i /\ obj[o] = stored[i]
    BY DEF SavedOrSaving
  <2>1. PICK o \in Objects : IdOf[o] = i
    BY RouterAssumption DEF Range
  <2> QED BY <1>1, <2>1, RouterAssumption
<1>7. RInv
  BY <1>4, InitIInv DEF RInv, TrustUnseen
<1>8. QueuesAreCalls
  <2>1. IsInjective(<<>>) /\ ToSet(<<>>) = {}
    BY DEF IsInjective, ToSet
  <2> QED BY <1>4, <2>1 DEF Init, QueuesAreCalls
<1> QED BY <1>3, <1>6, <1>7, <1>8 DEF AllInv

\* No step spoils the books or the status of an item: the owner of the lock merges a
\* URL that is still unseen, or says what its track has found.
LEMMA StepKeepsItemsOK ==
    ASSUME RInv, ItemsOK, NEW c \in Callers, Call(c) \/ Step(c) \/ Raise(c)
    PROVE  ItemsOK'
<1>1. IInv /\ obj \in [Objects -> ResolvableItem] /\ stored \in [Ids -> ResolvableItem]
  BY DEF RInv, IInv, TypeOK
<1>2. \A o \in Objects : ItemOK(obj'[o])
  <2>1. CASE LeavesItems(c)
    BY <2>1 DEF LeavesItems, ItemsOK
  <2>2. CASE MarksItem(c)
    <3>1. PICK item : /\ obj' = [obj EXCEPT ![frame[c].item] = item]
                      /\ SameBooks(item, Item(c)) /\ Marked(item)
      BY <2>2 DEF MarksItem
    <3>2. \A o \in Objects : o = frame[c].item => ItemOK(item)
      BY <3>1, MarkKeepsItemOK DEF Item, ItemsOK
    <3> QED BY <1>1, <3>1, <3>2 DEF ItemsOK
  <2>3. CASE MergesItem(c)
    <3> DEFINE url == Head(frame[c].found)
    <3>1. pc[c] = "trust" /\ url \in Trusted /\ url \in Urls
      BY <2>3, RouterAssumption DEF MergesItem
    <3>2. frame[c].item \in Objects /\ Item(c) = obj[frame[c].item]
      BY <1>1, <3>1, ActiveCaller DEF Item
    <3>3. url \notin Item(c).discovered_urls_seen
      BY <3>1 DEF RInv, TrustUnseen
    <3>4. ItemOK(Merge(Item(c), url))
      <4> HIDE DEF url
      <4>1. Item(c) \in ResolvableItem /\ ItemOK(Item(c))
        BY <1>1, <3>2 DEF ItemsOK
      <4> QED BY <3>1, <3>3, <4>1, MergeKeepsItemOK
    <3>5. obj' = [obj EXCEPT ![frame[c].item] = Merge(Item(c), url)]
      BY <2>3 DEF MergesItem
    <3> HIDE DEF url
    <3> QED BY <1>1, <3>2, <3>4, <3>5 DEF ItemsOK
  <2> QED BY <1>1, <2>1, <2>2, <2>3, StepKinds
<1>3. \A i \in Ids : ItemOK(stored'[i])
  <2>1. CASE StoresItem(c)
    <3>1. frame[c].item \in Objects
      BY <1>1, <2>1, ActiveCaller DEF StoresItem, Saving
    <3>2. stored' = [stored EXCEPT ![IdOf[frame[c].item]] = obj[frame[c].item]]
      BY <2>1 DEF StoresItem, Upsert
    <3> QED BY <1>1, <3>1, <3>2 DEF ItemsOK
  <2>2. CASE TearsItem(c) \/ KeepsStored(c)
    BY <2>2 DEF TearsItem, KeepsStored, ItemsOK
  <2> QED BY <1>1, <2>1, <2>2, StoreKinds
<1> QED BY <1>2, <1>3 DEF ItemsOK

\* No step leaves an item changed in memory, unsaved, and nobody about to save it.
LEMMA StepKeepsSavedOrSaving ==
    ASSUME IInv, SavedOrSaving, NEW c \in Callers, Call(c) \/ Step(c) \/ Raise(c)
    PROVE  SavedOrSaving'
<1> DEFINE Saved(i) == \E o \in Objects : IdOf[o] = i /\ obj[o] = stored[i]
           Saves(d, i) == pc[d] \in Saving /\ Id(d) = i
<1>1. obj \in [Objects -> ResolvableItem] /\ stored \in [Ids -> ResolvableItem]
  BY DEF IInv, TypeOK
<1>2. ASSUME NEW i, NEW d \in Callers, d # c, Saves(d, i)
      PROVE  pc'[d] \in Saving /\ IdOf[frame'[d].item] = i
  BY <1>2, OthersKeep DEF Id
<1>3. CASE StoresItem(c) \/ TearsItem(c)
  <2>1. frame[c].item \in Objects /\ Id(c) = IdOf[frame[c].item] /\ Id(c) \in Ids
    BY <1>3, ActiveCaller DEF StoresItem, TearsItem, Saving, Id
  <2>2. UNCHANGED obj
    BY <1>3 DEF StoresItem, TearsItem
  <2> SUFFICES ASSUME NEW i \in Range(IdOf) \ torn'
               PROVE  \/ \E o \in Objects : IdOf[o] = i /\ obj[o] = stored'[i]
                      \/ \E d \in Callers : pc'[d] \in Saving /\ IdOf[frame'[d].item] = i
    BY <2>2 DEF SavedOrSaving, Id
  <2>3. CASE i = Id(c)
    <3>1. stored'[i] = obj[frame[c].item]
      BY <1>1, <1>3, <2>1, <2>3 DEF StoresItem, TearsItem, Upsert
    <3> QED BY <2>1, <2>3, <3>1
  <2>4. CASE i # Id(c)
    <3>1. i \in Range(IdOf) \ torn /\ stored'[i] = stored[i]
      <4>1. i \in Ids
        BY RouterAssumption DEF Range
      <4> QED BY <1>1, <1>3, <2>1, <2>4, <4>1 DEF StoresItem, TearsItem, Upsert
    <3>2. Saved(i) \/ \E d \in Callers : d # c /\ Saves(d, i)
      BY <2>4, <3>1 DEF SavedOrSaving
    <3> QED BY <1>2, <3>1, <3>2
  <2> QED BY <2>3, <2>4
<1>4. CASE KeepsStored(c)
  <2>1. pc[c] \notin Saving /\ UNCHANGED <<stored, torn>>
    BY <1>4 DEF KeepsStored
  <2> SUFFICES ASSUME NEW i \in Range(IdOf) \ torn
               PROVE  \/ \E o \in Objects : IdOf[o] = i /\ obj'[o] = stored[i]
                      \/ \E d \in Callers : pc'[d] \in Saving /\ IdOf[frame'[d].item] = i
    BY <2>1 DEF SavedOrSaving, Id
  <2>2. Saved(i) \/ \E d \in Callers : Saves(d, i)
    BY DEF SavedOrSaving
  <2>3. CASE \E d \in Callers : Saves(d, i)
    BY <1>2, <2>1, <2>3
  <2>4. CASE Saved(i)
    <3>1. PICK o \in Objects : IdOf[o] = i /\ obj[o] = stored[i]
      BY <2>4
    <3>2. CASE obj'[o] = obj[o]
      BY <3>1, <3>2
    <3>3. CASE obj'[o] # obj[o]
      <4>1. o = frame[c].item /\ pc'[c] \in Saving /\ frame'[c].item = frame[c].item
        BY <1>1, <1>4, <3>3 DEF KeepsStored
      <4> QED BY <3>1, <4>1
    <3> QED BY <3>2, <3>3
  <2> QED BY <2>2, <2>3, <2>4
<1> QED BY <1>3, <1>4, StoreKinds

\* Together they are inductive.
LEMMA NextKeepsAllInv == AllInv /\ [Next]_vars => AllInv'
<1> SUFFICES ASSUME AllInv, [Next]_vars PROVE AllInv'
  OBVIOUS
<1>1. RInv'
  BY NextKeepsIInv, NextKeepsTrustUnseen DEF AllInv, RInv
<1>2. CASE UNCHANGED vars
  BY <1>1, <1>2 DEF vars, AllInv, QueuesAreCalls, ItemsOK, SavedOrSaving, Id
<1>3. CASE Next
  <2>1. PICK c \in Callers : Call(c) \/ Step(c) \/ Raise(c)
    BY <1>3 DEF Next
  <2>2. IInv /\ RInv /\ QueuesAreCalls /\ ItemsOK /\ SavedOrSaving
    BY DEF AllInv, RInv
  <2> QED BY <1>1, <2>1, <2>2, StepKeepsQueues, StepKeepsItemsOK,
             StepKeepsSavedOrSaving DEF AllInv
<1> QED BY <1>2, <1>3

\* What the runs check follows from the invariant: with the lock free nobody is
\* saving.
LEMMA AllInvImplies ==
    AllInv => MergeBookkeeping /\ StatusMatchesItem /\ Persisted
<1> SUFFICES ASSUME AllInv
             PROVE  MergeBookkeeping /\ StatusMatchesItem /\ Persisted
  OBVIOUS
<1>0. IInv /\ ItemsOK /\ SavedOrSaving
  BY DEF AllInv, RInv
<1>1. MergeBookkeeping /\ StatusMatchesItem
  BY <1>0 DEF ItemsOK, ItemOK, MergeBookkeeping, StatusMatchesItem
<1>3. Persisted
  <2> SUFFICES ASSUME NEW i \in Range(IdOf) \ torn, lock[i] = <<>>
               PROVE  \E o \in Objects : IdOf[o] = i /\ obj[o] = stored[i]
    BY DEF Persisted
  <2>1. ASSUME NEW c \in Callers, pc[c] \in Saving PROVE Id(c) # i
    BY <1>0, <2>1, ActiveCaller DEF Saving, Inside, TrackA, TrackB, HoldsLock
  <2> QED BY <1>0, <2>1 DEF SavedOrSaving
<1> QED BY <1>1, <1>3

LEMMA AllInvHolds == Spec => []AllInv
<1> QED BY InitAllInv, NextKeepsAllInv, PTL DEF Spec

-------------------------------------------------------------------------------
(* Restarts: the process dies between two awaits and begins again from the *)
(* registry, and registry.get replaces an object nobody uses.              *)

\* Loading an item from the registry keeps the invariant.
LEMMA LoadKeepsAllInv ==
    ASSUME AllInv, NEW o \in Objects, Load(o)
    PROVE  AllInv'
<1>1. IInv /\ TrustUnseen /\ QueuesAreCalls /\ ItemsOK /\ SavedOrSaving
  BY DEF AllInv, RInv
<1>2. /\ obj \in [Objects -> ResolvableItem] /\ stored \in [Ids -> ResolvableItem]
      /\ IdOf[o] \in Ids /\ UNCHANGED <<config, stored, lock, pc, frame, torn>>
      /\ obj' = [obj EXCEPT ![o] = stored[IdOf[o]]]
      /\ \A c \in Callers : frame[c].item # o
  BY <1>1, RouterAssumption DEF IInv, TypeOK, Load
<1>3. obj' \in [Objects -> ResolvableItem] /\ obj'[o] = stored[IdOf[o]]
  BY <1>2
<1>4. \A c \in Callers : pc[c] # "idle" => frame[c].item \in Objects /\ Item(c)' = Item(c)
  <2> SUFFICES ASSUME NEW c \in Callers, pc[c] # "idle"
               PROVE  frame[c].item \in Objects /\ obj'[frame[c].item] = obj[frame[c].item]
    BY <1>2 DEF Item
  <2> QED BY <1>1, <1>2, ActiveCaller
<1>5. IInv'
  <2>1. ASSUME NEW c \in Callers PROVE LocalsOK(c)'
    <3>1. LocalsOK(c)
      BY <1>1 DEF IInv, TypeOK
    <3> QED BY <1>2, <1>4, <3>1 DEF LocalsOK
  <2>2. OwnerFirst'
    BY <1>1, <1>2 DEF IInv, OwnerFirst, HoldsLock, Id
  <2> QED BY <1>1, <1>2, <1>3, <2>1, <2>2 DEF IInv, TypeOK
<1>6. TrustUnseen'
  BY <1>1, <1>2, <1>4 DEF TrustUnseen
<1>7. ItemsOK'
  BY <1>1, <1>2 DEF ItemsOK
<1>9. SavedOrSaving'
  <2> SUFFICES ASSUME NEW i \in Range(IdOf) \ torn
               PROVE  \/ \E p \in Objects : IdOf[p] = i /\ obj'[p] = stored[i]
                      \/ \E c \in Callers : pc[c] \in Saving /\ Id(c) = i
    BY <1>2 DEF SavedOrSaving, Id
  <2> QED BY <1>1, <1>2, <1>3 DEF SavedOrSaving
<1>10. QueuesAreCalls'
  BY <1>1, <1>2 DEF QueuesAreCalls, Id
<1> QED BY <1>5, <1>6, <1>7, <1>9, <1>10 DEF AllInv, RInv

\* So does a restart, which leaves nothing but the registry.
LEMMA RestartKeepsAllInv ==
    ASSUME AllInv, Restart
    PROVE  AllInv'
<1>1. /\ IInv /\ ItemsOK /\ config \in Configs /\ config \in RouterRecord
      /\ stored \in [Ids -> ResolvableItem] /\ UNCHANGED <<config, stored>>
  BY RouterAssumption DEF AllInv, RInv, IInv, TypeOK, Restart
<1>2. /\ obj' = [o \in Objects |-> stored[IdOf[o]]]
      /\ \A c \in Callers : pc'[c] = "idle" /\ frame'[c] = NoFrame
  BY DEF Restart
<1>3. \A o \in Objects : IdOf[o] \in Ids
  BY RouterAssumption
<1>4. TypeOK'
  <2>1. obj' \in [Objects -> ResolvableItem]
    BY <1>1, <1>2, <1>3
  <2>2. lock' \in [Ids -> Seq(Callers)]
    BY EmptySeq DEF Restart
  <2>3. frame' \in [Callers -> Frame] /\ pc' \in [Callers -> {"idle"} \cup Waiting \cup Inside]
    BY NoFrameType DEF Restart
  <2>4. \A c \in Callers : LocalsOK(c)'
    BY <1>1, <1>2 DEF LocalsOK, NoFrame, RouterRecord
  <2> QED BY <1>1, <2>1, <2>2, <2>3, <2>4 DEF TypeOK, Restart
<1>5. OwnerFirst' /\ TrustUnseen'
  BY <1>2 DEF OwnerFirst, TrustUnseen, Inside, TrackA, TrackB
<1>6. ItemsOK'
  BY <1>1, <1>2, <1>3 DEF ItemsOK
<1>7. SavedOrSaving'
  <2> SUFFICES ASSUME NEW i \in Range(IdOf)
               PROVE  \E o \in Objects : IdOf[o] = i /\ obj'[o] = stored'[i]
    BY DEF SavedOrSaving
  <2>1. PICK o \in Objects : IdOf[o] = i
    BY RouterAssumption DEF Range
  <2> QED BY <1>1, <1>2, <2>1
<1>8. QueuesAreCalls'
  <2>1. IsInjective(<<>>) /\ ToSet(<<>>) = {}
    BY DEF IsInjective, ToSet
  <2> QED BY <1>2, <2>1 DEF QueuesAreCalls, Restart
<1> QED BY <1>4, <1>5, <1>6, <1>7, <1>8 DEF AllInv, RInv, IInv

LEMMA RestartInvHolds == RestartSpec => []AllInv
<1>1. AllInv /\ [RestartNext]_vars => AllInv'
  BY NextKeepsAllInv, LoadKeepsAllInv, RestartKeepsAllInv DEF RestartNext
<1> QED BY <1>1, InitAllInv, PTL DEF RestartSpec

\* No two objects in memory are copies of one item: copies do not see each other's
\* changes, and the later upsert writes its own (the finding of run copies).
OneObjectPerId == \A o, p \in Objects : IdOf[o] = IdOf[p] => o = p

\* An object has every source, alternate and seen URL that the registry has of it.
AheadOfRegistry ==
    \A o \in Objects :
        /\ stored[IdOf[o]].current_sources # <<>> =>
              obj[o].current_sources = stored[IdOf[o]].current_sources
        /\ IsPrefix(stored[IdOf[o]].candidate_sources, obj[o].candidate_sources)
        /\ stored[IdOf[o]].discovered_urls_seen \subseteq obj[o].discovered_urls_seen

\* In one step an item keeps its sources, if it has any, keeps what was seen of it, and
\* gains at most alternates.
OnlyGains(item, next) ==
    /\ item.current_sources # <<>> => next.current_sources = item.current_sources
    /\ item.discovered_urls_seen \subseteq next.discovered_urls_seen
    /\ \A staged \in Seq(Urls) :
          IsPrefix(staged, item.candidate_sources) =>
              IsPrefix(staged, next.candidate_sources)

\* No step of a caller takes anything from an item.
LEMMA StepOnlyGains ==
    ASSUME RInv, NEW c \in Callers, Call(c) \/ Step(c) \/ Raise(c), NEW o \in Objects
    PROVE  OnlyGains(obj[o], obj'[o])
<1>1. IInv /\ obj \in [Objects -> ResolvableItem]
  BY DEF RInv, IInv, TypeOK
<1>2. CASE LeavesItems(c)
  BY <1>2 DEF LeavesItems, OnlyGains
<1>3. CASE MarksItem(c)
  BY <1>1, <1>3 DEF MarksItem, SameBooks, OnlyGains, Item
<1>4. CASE MergesItem(c)
  <2> DEFINE url == Head(frame[c].found)
             next == Merge(obj[o], url)
  <2>1. obj' = [obj EXCEPT ![frame[c].item] = Merge(Item(c), url)] /\ url \in Urls
    BY <1>4, RouterAssumption DEF MergesItem
  <2>2. obj[o] \in ResolvableItem /\ obj[o].candidate_sources \in Seq(Urls)
    BY <1>1 DEF ResolvableItem
  <2>3. OnlyGains(obj[o], next)
    <3> HIDE DEF url
    <3>1. CASE obj[o].current_sources = <<>>
      BY <2>1, <2>2, <3>1, MergeFields DEF OnlyGains
    <3>2. CASE obj[o].current_sources # <<>>
      <4>1. /\ next.current_sources = obj[o].current_sources
            /\ next.candidate_sources = Append(obj[o].candidate_sources, url)
            /\ obj[o].discovered_urls_seen \subseteq next.discovered_urls_seen
        BY <2>1, <2>2, <3>2, MergeFields
      <4>2. \A staged \in Seq(Urls) : IsPrefix(staged, obj[o].candidate_sources) =>
                IsPrefix(staged, next.candidate_sources)
        BY <2>1, <2>2, <4>1, PrefixGrows
      <4> HIDE DEF next
      <4> QED BY <4>1, <4>2 DEF OnlyGains
    <3> QED BY <3>1, <3>2
  <2>4. OnlyGains(obj[o], obj[o])
    BY DEF OnlyGains
  <2>5. obj'[o] = next \/ obj'[o] = obj[o]
    BY <1>1, <2>1 DEF Item
  <2> HIDE DEF next
  <2> QED BY <2>3, <2>4, <2>5
<1> QED BY <1>1, <1>2, <1>3, <1>4, StepKinds

\* The objects stay ahead of the registry, which an upsert only brings up to date.
LEMMA NextKeepsAhead ==
    ASSUME OneObjectPerId, AllInv, AheadOfRegistry, [RestartNext]_vars
    PROVE  AheadOfRegistry'
<1>1. /\ IInv /\ RInv /\ obj \in [Objects -> ResolvableItem] /\ stored \in [Ids -> ResolvableItem]
      /\ \A o \in Objects : IdOf[o] \in Ids
  BY RouterAssumption DEF AllInv, RInv, IInv, TypeOK
<1>2. \A i \in Ids : /\ stored[i].candidate_sources \in Seq(Urls)
                     /\ IsPrefix(stored[i].candidate_sources, stored[i].candidate_sources)
  BY <1>1, PrefixGrows DEF ResolvableItem, IsPrefix
<1>3. \A o \in Objects : IsPrefix(obj[o].candidate_sources, obj[o].candidate_sources)
  BY <1>1 DEF ResolvableItem, IsPrefix
<1>4. CASE UNCHANGED vars
  BY <1>4 DEF vars, AheadOfRegistry
<1>5. CASE Restart
  BY <1>1, <1>2, <1>5 DEF Restart, AheadOfRegistry
<1>6. CASE \E o \in Objects : Load(o)
  <2>1. PICK p \in Objects : obj' = [obj EXCEPT ![p] = stored[IdOf[p]]] /\ UNCHANGED stored
    BY <1>6 DEF Load
  <2> QED BY <1>1, <1>2, <2>1 DEF AheadOfRegistry
<1>7. CASE Next
  <2>1. PICK c \in Callers : Call(c) \/ Step(c) \/ Raise(c)
    BY <1>7 DEF Next
  <2>2. CASE StoresItem(c)
    <3>1. frame[c].item \in Objects
      BY <1>1, <2>2, ActiveCaller DEF StoresItem, Saving
    <3>2. UNCHANGED obj /\ stored' = [stored EXCEPT ![IdOf[frame[c].item]] = obj[frame[c].item]]
      BY <2>2 DEF StoresItem, Upsert
    <3> SUFFICES ASSUME NEW o \in Objects
                 PROVE  /\ stored'[IdOf[o]].current_sources # <<>> =>
                              obj[o].current_sources = stored'[IdOf[o]].current_sources
                        /\ IsPrefix(stored'[IdOf[o]].candidate_sources,
                                    obj[o].candidate_sources)
                        /\ stored'[IdOf[o]].discovered_urls_seen
                              \subseteq obj[o].discovered_urls_seen
      BY <3>2 DEF AheadOfRegistry
    <3>3. CASE o = frame[c].item
      <4>1. stored'[IdOf[o]] = obj[o]
        BY <1>1, <3>1, <3>2, <3>3
      <4> QED BY <1>3, <4>1
    <3>4. CASE o # frame[c].item
      <4>1. stored'[IdOf[o]] = stored[IdOf[o]]
        BY <1>1, <3>1, <3>2, <3>4 DEF OneObjectPerId
      <4> QED BY <4>1 DEF AheadOfRegistry
    <3> QED BY <3>3, <3>4
  <2>3. CASE TearsItem(c) \/ KeepsStored(c)
    <3>1. UNCHANGED stored
      BY <2>3 DEF TearsItem, KeepsStored
    <3>2. \A o \in Objects : OnlyGains(obj[o], obj'[o])
      BY <1>1, <2>1, StepOnlyGains
    <3> QED BY <1>1, <1>2, <3>1, <3>2 DEF AheadOfRegistry, OnlyGains
  <2> QED BY <1>1, <2>1, <2>2, <2>3, StoreKinds
<1> QED BY <1>4, <1>5, <1>6, <1>7 DEF RestartNext

\* What a step writes to the registry keeps the sources and what was seen, and extends
\* the alternates.
LEMMA RegistryOnlyGains ==
    ASSUME AllInv, AheadOfRegistry, [RestartNext]_vars, NEW i \in Ids
    PROVE  /\ stored[i].current_sources # <<>> =>
                 stored'[i].current_sources = stored[i].current_sources
           /\ IsPrefix(stored[i].candidate_sources, stored'[i].candidate_sources)
           /\ stored[i].discovered_urls_seen \subseteq stored'[i].discovered_urls_seen
<1>1. IInv /\ stored \in [Ids -> ResolvableItem]
  BY DEF AllInv, RInv, IInv, TypeOK
<1>2. IsPrefix(stored[i].candidate_sources, stored[i].candidate_sources)
  BY <1>1 DEF ResolvableItem, IsPrefix
<1>3. CASE stored'[i] = stored[i]
  BY <1>2, <1>3
<1>4. CASE Next
  <2>1. PICK c \in Callers : Call(c) \/ Step(c) \/ Raise(c)
    BY <1>4 DEF Next
  <2>2. CASE StoresItem(c)
    <3>1. frame[c].item \in Objects
      BY <1>1, <2>2, ActiveCaller DEF StoresItem, Saving
    <3>2. stored' = [stored EXCEPT ![IdOf[frame[c].item]] = obj[frame[c].item]]
      BY <2>2 DEF StoresItem, Upsert
    <3> QED BY <1>1, <1>3, <3>1, <3>2 DEF AheadOfRegistry
  <2>3. CASE TearsItem(c) \/ KeepsStored(c)
    BY <1>3, <2>3 DEF TearsItem, KeepsStored
  <2> QED BY <1>1, <2>1, <2>2, <2>3, StoreKinds
<1> QED BY <1>3, <1>4 DEF RestartNext, Restart, Load, vars

\* An object starts as the registry has its item.
LEMMA InitAhead == Init => AheadOfRegistry
<1> SUFFICES ASSUME Init PROVE AheadOfRegistry
  OBVIOUS
<1>1. \A o \in Objects : IdOf[o] \in Ids /\ obj[o] = stored[IdOf[o]]
  BY RouterAssumption DEF Init
<1>2. \A o \in Objects : IsPrefix(obj[o].candidate_sources, obj[o].candidate_sources)
  <2>1. obj \in [Objects -> ResolvableItem]
    BY InitIInv DEF IInv, TypeOK
  <2> QED BY <2>1 DEF ResolvableItem, IsPrefix
<1> QED BY <1>1, <1>2 DEF AheadOfRegistry

-------------------------------------------------------------------------------
(* The theorems.                                                           *)

\* A call that is cancelled while it waits, raises inside a track or queues a second
\* time leaves the locks in order: each is held or waited for by exactly the calls in
\* progress, once each (router.py, _lock_for).
THEOREM QueuesInOrder == Spec => []QueuesAreCalls
<1>1. AllInv => QueuesAreCalls
  BY DEF AllInv
<1> QED BY <1>1, AllInvHolds, PTL

\* For any callers, candidate lists and registrations, whatever raises or is
\* cancelled, the books of every item balance in memory and in the registry: what
\* discovery placed is trusted, recorded as seen and placed once (router.py,
\* discover_source).
THEOREM BooksBalanced == Spec => []MergeBookkeeping
<1> QED BY AllInvHolds, AllInvImplies, PTL

\* An item's status never claims what its other fields deny (router.py,
\* resolve_known_source and discover_source; item.py, ItemStatus).
THEOREM StatusBorneOut == Spec => []StatusMatchesItem
<1> QED BY AllInvHolds, AllInvImplies, PTL

\* No path through either track changes an item and forgets the upsert (router.py,
\* resolve_known_source and discover_source).
THEOREM NothingUnsaved == Spec => []Persisted
<1> QED BY AllInvHolds, AllInvImplies, PTL

\* The same over a registry that outlives the process: a crash between any two awaits
\* leaves the books balanced, and every other invariant as well.
THEOREM RestartKeepsBooks ==
    RestartSpec => [](/\ MergeBookkeeping /\ StatusMatchesItem
                      /\ Persisted /\ SingleFlight)
<1>1. AllInv => SingleFlight
  BY DEF AllInv, RInv, IInv, OwnerFirst, SingleFlight, HoldsLock
<1> QED BY <1>1, RestartInvHolds, AllInvImplies, PTL

\* With one object per item in each process, no interleaving of calls, exceptions and
\* crashes takes a source away that the registry has (design spec, section 3).
THEOREM SourceKept ==
    ASSUME OneObjectPerId
    PROVE  RestartSpec => SourceNeverReplaced
<1>1. AllInv /\ AheadOfRegistry /\ [RestartNext]_vars => AheadOfRegistry'
  BY NextKeepsAhead
<1>2. AllInv /\ AheadOfRegistry /\ [RestartNext]_vars =>
         [\A i \in Ids : stored[i].current_sources # <<>> =>
              stored'[i].current_sources = stored[i].current_sources]_stored
  BY RegistryOnlyGains
<1> QED BY <1>1, <1>2, InitAhead, RestartInvHolds, PTL DEF RestartSpec, SourceNeverReplaced

\* Nor drops or reorders the alternates that wait for review.
THEOREM StagedKept ==
    ASSUME OneObjectPerId
    PROVE  RestartSpec => StagedNeverDropped
<1>1. AllInv /\ AheadOfRegistry /\ [RestartNext]_vars => AheadOfRegistry'
  BY NextKeepsAhead
<1>2. AllInv /\ AheadOfRegistry /\ [RestartNext]_vars =>
         [\A i \in Ids : IsPrefix(stored[i].candidate_sources,
                                  stored'[i].candidate_sources)]_stored
  BY RegistryOnlyGains
<1> QED BY <1>1, <1>2, InitAhead, RestartInvHolds, PTL DEF RestartSpec, StagedNeverDropped

\* Nor forgets what discovery has seen of an item, so that no process repeats a discovery
\* made by an earlier one (design spec, section 3).
THEOREM SeenKept ==
    ASSUME OneObjectPerId
    PROVE  RestartSpec => SeenNeverForgotten
<1>1. AllInv /\ AheadOfRegistry /\ [RestartNext]_vars => AheadOfRegistry'
  BY NextKeepsAhead
<1>2. AllInv /\ AheadOfRegistry /\ [RestartNext]_vars =>
         [\A i \in Ids : stored[i].discovered_urls_seen
                             \subseteq stored'[i].discovered_urls_seen]_stored
  BY RegistryOnlyGains
<1> QED BY <1>1, <1>2, InitAhead, RestartInvHolds, PTL DEF RestartSpec, SeenNeverForgotten

===============================================================================
