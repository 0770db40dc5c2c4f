--------------------------- MODULE EscalationProofs ---------------------------
(***************************************************************************)
(* The lookups of Escalation stay within the lists they look into: what    *)
(* they return is an adapter of the list, or 0 for none.                   *)
(***************************************************************************)
EXTENDS Escalation, TLAPS, WellFoundedInduction

\* A set of naturals that is not empty has a least element: the first match of a
\* search through a list is one of its matches.
LEMMA MinInSet ==
    ASSUME NEW S, S \subseteq Nat, S # {}
    PROVE  Min(S) \in S /\ \A y \in S : Min(S) <= y
<1> DEFINE R == OpToRel(<, Nat)
<1>1. PICK x \in S : \A y \in S : ~(<<y, x>> \in R)
  BY NatLessThanWellFounded, WFMin
<1>2. \A y \in S : x <= y
  <2> TAKE y \in S
  <2>1. ~(<<y, x>> \in Nat \X Nat /\ y < x)
    BY <1>1 DEF OpToRel
  <2> QED BY <2>1
<1> QED BY <1>2 DEF Min

\* A set of naturals with an upper bound that is not empty has a greatest element:
\* the last match is one of the matches.
LEMMA MaxInSet ==
    ASSUME NEW n \in Nat, NEW S, S \subseteq 1..n, S # {}
    PROVE  Max(S) \in S
<1> DEFINE D == {n - i : i \in S}
<1>1. D \subseteq Nat /\ D # {}
  OBVIOUS
<1>2. Min(D) \in D
  BY <1>1, MinInSet
<1>3. \A d \in D : Min(D) <= d
  <2> DEFINE R == OpToRel(<, Nat)
  <2>1. PICK x \in D : \A y \in D : ~(<<y, x>> \in R)
    BY <1>1, NatLessThanWellFounded, WFMin
  <2>2. \A y \in D : x <= y
    <3> TAKE y \in D
    <3>1. ~(<<y, x>> \in Nat \X Nat /\ y < x)
      BY <2>1 DEF OpToRel
    <3> QED BY <3>1, <1>1
  <2> QED BY <2>2 DEF Min
<1>4. PICK m \in S : Min(D) = n - m
  BY <1>2
<1>5. \A i \in S : m >= i
  <2> TAKE i \in S
  <2>1. n - i \in D
    OBVIOUS
  <2>2. n - m <= n - i
    BY <1>3, <1>4, <2>1
  <2>3. i \in Nat /\ m \in Nat
    OBVIOUS
  <2> QED BY <2>2, <2>3
<1> QED BY <1>5 DEF Max

\* The dictionary of adapters by name answers with an adapter of the list.
LEMMA ByNameInList ==
    ASSUME NEW names \in Seq(Names), NEW name
    PROVE  ByName(names, name) \in 0..Len(names)
<1> DEFINE I == {i \in 1..Len(names) : names[i] = name}
<1>1. ByName(names, name) = IF I # {} THEN Max(I) ELSE 0
  BY DEF ByName, SelectLastInSeq
<1>2. I # {} => Max(I) \in I
  <2>1. I \subseteq 1..Len(names) /\ Len(names) \in Nat
    OBVIOUS
  <2> HIDE DEF I
  <2> QED BY <2>1, MaxInSet
<1> QED BY <1>1, <1>2

\* Escalation leads to a fetcher of the list or to none, under either mode.
THEOREM NextFetcherInList ==
    ASSUME NEW cfg \in RouterRecord, NEW current \in DOMAIN cfg.fetchers, NEW error
    PROVE  NextFetcher(cfg, current, error) \in 0..Len(cfg.fetchers)
<1>1. cfg.fetchers \in Seq(Names)
  BY DEF RouterRecord
<1>2. NextFetcherConfigDriven(cfg, current, error) \in 0..Len(cfg.fetchers)
  BY <1>1, ByNameInList DEF NextFetcherConfigDriven
<1>3. NextFetcherLegacy(cfg, current, error) \in 0..Len(cfg.fetchers)
  BY <1>1 DEF NextFetcherLegacy
<1> QED BY <1>2, <1>3 DEF NextFetcher

===============================================================================
