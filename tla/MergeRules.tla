------------------------------ MODULE MergeRules ------------------------------
(***************************************************************************)
(* What discovery promises for the sources of an item (design spec,        *)
(* section 3, "Merge rules"), without callers, locks, adapters or awaits:  *)
(*                                                                         *)
(*   a new URL for an item without a source becomes its source;            *)
(*   a new URL for an item with a source is staged beside it;              *)
(*   a URL already seen changes nothing;                                   *)
(*   nothing else ever changes the sources of an item.                     *)
(***************************************************************************)
EXTENDS Sequences

CONSTANTS Items, Urls, Trusted

VARIABLES
    sources,  \* the current sources of each item, the first one in use
    staged,   \* the alternates waiting for review
    seen      \* the URLs discovery has placed

mergeVars == <<sources, staged, seen>>

MergeInit ==
    /\ sources \in [Items -> Seq(Urls)]
    /\ staged = [i \in Items |-> <<>>]
    /\ seen = [i \in Items |-> {}]

Place(i, url) ==
    /\ url \in Trusted \ seen[i]
    /\ seen' = [seen EXCEPT ![i] = @ \cup {url}]

Promote(i, url) ==
    /\ sources[i] = <<>>
    /\ Place(i, url)
    /\ sources' = [sources EXCEPT ![i] = Append(@, url)]
    /\ UNCHANGED staged

Stage(i, url) ==
    /\ sources[i] # <<>>
    /\ Place(i, url)
    /\ staged' = [staged EXCEPT ![i] = Append(@, url)]
    /\ UNCHANGED sources

MergeNext == \E i \in Items, url \in Urls : Promote(i, url) \/ Stage(i, url)

MergeSpec == MergeInit /\ [][MergeNext]_mergeVars

===============================================================================
