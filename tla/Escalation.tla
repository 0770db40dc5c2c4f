------------------------------ MODULE Escalation ------------------------------
(***************************************************************************)
(* The escalation rules of wyndpy: which adapter the router turns to after *)
(* an attempt (core/escalation.py and the lookups of core/router.py).      *)
(*                                                                         *)
(* A router is described by a record:                                      *)
(*   fetchers, parsers  the names of the adapters, in list order;          *)
(*   searchers          how many searchers are chained;                    *)
(*   rules              the escalation rules, in list order;               *)
(*   retry_attempts, require_review   the fields of RouterConfig.          *)
(* An adapter is its position in its list, so two positions are two        *)
(* objects even when their names are equal; 0 stands for "no adapter".     *)
(***************************************************************************)
EXTENDS Integers, Sequences, SequencesExt

CONSTANTS
    Names,      \* adapter names
    MimeTypes,  \* content types a fetcher can report
    PdfTypes,   \* those whose text contains "pdf"
    None        \* Python's None

\* The wildcard key of the rule tables.
Wildcard == "*"

ErrorType == {"empty_shell", "unsupported_format", "not_found", "timeout",
              "rate_limited", "forbidden_url", "unknown"}

ESCALATABLE_ERRORS == {"empty_shell", "timeout"}

RETRYABLE_ERRORS == {"timeout", "rate_limited"}

\* A rule's trigger is an error type or "content_type=<mime>"; `kind` says which.
EscalationRule ==
    [kind : {"error"}, on : ErrorType, from : Names \cup {None}, to : Names]
        \cup
    [kind : {"content_type"}, on : MimeTypes, from : Names \cup {None}, to : Names]

RouterRecord ==
    [fetchers : Seq(Names), parsers : Seq(Names), searchers : Nat,
     rules : Seq(EscalationRule), retry_attempts : Nat, require_review : BOOLEAN]

ASSUME EscalationAssumption ==
    /\ Wildcard \notin Names
    /\ None \notin Names \cup {Wildcard}
    /\ PdfTypes \subseteq MimeTypes

KeyFrom(rule) == IF rule.from = None THEN Wildcard ELSE rule.from

\* What the table holds under (from, on): the last rule of the list wins.
Lookup(rules, kind, from, on) ==
    LET last == SelectLastInSeq(rules,
                    LAMBDA rule : /\ rule.kind = kind
                                  /\ rule.on = on
                                  /\ KeyFrom(rule) = from)
    IN  IF last = 0 THEN None ELSE rules[last].to

\* The rule of this very adapter, else the rule that applies from any.
Target(rules, kind, name, on) ==
    LET exact == Lookup(rules, kind, name, on)
    IN  IF exact # None THEN exact ELSE Lookup(rules, kind, Wildcard, on)

\* A dictionary by name built from the list: the last adapter of that name.
ByName(names, name) == SelectLastInSeq(names, LAMBDA n : n = name)

NextFetcherConfigDriven(cfg, current, error) ==
    ByName(cfg.fetchers, Target(cfg.rules, "error", cfg.fetchers[current], error))

\* Mutant: the end of the list is found one adapter too late.
NextFetcherLegacyPastEnd(cfg, current, error) ==
    IF error \notin ESCALATABLE_ERRORS \/ current > Len(cfg.fetchers) THEN 0 ELSE current + 1

\* Legacy order: the next in the list, for two kinds of error only.
NextFetcherLegacy(cfg, current, error) ==
    IF error \notin ESCALATABLE_ERRORS \/ current + 1 > Len(cfg.fetchers)
    THEN 0
    ELSE current + 1

NextFetcher(cfg, current, error) ==
    IF cfg.rules = <<>> THEN NextFetcherLegacy(cfg, current, error)
                        ELSE NextFetcherConfigDriven(cfg, current, error)

\* A matching rule decides alone, even when it names no parser of the list.
ParserForContentType(cfg, current, mime) ==
    LET to == Target(cfg.rules, "content_type", cfg.fetchers[current], mime)
    IN  IF to # None THEN ByName(cfg.parsers, to)
        ELSE IF mime \in PdfTypes /\ cfg.parsers # <<>> THEN 1
        ELSE 0

===============================================================================
