---------------------------- MODULE EscalationTable ----------------------------
(***************************************************************************)
(* The constructor of the router (core/router.py, __init__): the escalation *)
(* rules are entered one by one into two dictionaries keyed by             *)
(* (from, error type) and (from, mime type), from which the router later   *)
(* looks up the next fetcher or the parser.  Escalation states the lookups *)
(* on the list of rules; here both readings are held against each other.   *)
(***************************************************************************)
EXTENDS Escalation

VARIABLES
    config,                   \* what the constructor is given
    loaded,                   \* how many rules have been entered
    error_escalations,        \* <<from, error type>> -> fetcher name
    content_type_escalations  \* <<from, mime type>> -> parser name

tableVars == <<config, loaded, error_escalations, content_type_escalations>>

\* Before the constructor is called there is no router.
NoRouter ==
    [fetchers |-> <<>>, parsers |-> <<>>, searchers |-> 0, rules |-> <<>>,
     retry_attempts |-> 0, require_review |-> TRUE]

TableInit ==
    /\ config = NoRouter
    /\ loaded = 0
    /\ error_escalations = <<>>
    /\ content_type_escalations = <<>>

\* Mutant: the first rule for a key is kept.
EnterFirstWins(table, rule) ==
    [key \in DOMAIN table \cup {<<KeyFrom(rule), rule.on>>} |->
        IF key \in DOMAIN table THEN table[key] ELSE rule.to]

Enter(table, rule) ==
    [key \in DOMAIN table \cup {<<KeyFrom(rule), rule.on>>} |->
        IF key = <<KeyFrom(rule), rule.on>> THEN rule.to ELSE table[key]]

LoadRule ==
    /\ loaded < Len(config.rules)
    /\ LET rule == config.rules[loaded + 1]
       IN  \/ /\ rule.kind = "content_type"
              /\ content_type_escalations' = Enter(content_type_escalations, rule)
              /\ UNCHANGED error_escalations
           \/ /\ rule.kind = "error"
              /\ error_escalations' = Enter(error_escalations, rule)
              /\ UNCHANGED content_type_escalations
    /\ loaded' = loaded + 1
    /\ UNCHANGED config

\* dict.get
Get(table, key) == IF key \in DOMAIN table THEN table[key] ELSE None

\* `table.get(exact) or table.get(wildcard)`
GetEither(table, name, on) ==
    IF Get(table, <<name, on>>) # None THEN Get(table, <<name, on>>)
                                       ELSE Get(table, <<Wildcard, on>>)

\* However rules overlap, shadow or repeat one another, the two dictionaries answer
\* as the list of rules read so far does: a later rule overrides an earlier one
\* with the same key, a rule for this adapter overrides one for any adapter, and
\* an error rule never answers for a content type.
TablesFollowRules ==
    LET rules == SubSeq(config.rules, 1, loaded)
    IN  \A name \in Names :
            /\ \A e \in ErrorType :
                  GetEither(error_escalations, name, e) = Target(rules, "error", name, e)
            /\ \A mime \in MimeTypes :
                  GetEither(content_type_escalations, name, mime)
                      = Target(rules, "content_type", name, mime)

\* A rule on content_type=pdf sends PDF bodies to the parser it names (design spec,
\* section 4, the policy file).
PdfRuleIsHonoured ==
    loaded = Len(config.rules) =>
        \A i \in DOMAIN config.rules, f \in DOMAIN config.fetchers :
            LET rule == config.rules[i]
            IN  /\ rule.kind = "content_type"
                /\ rule.on = "pdf"
                /\ rule.from = config.fetchers[f]
                => ParserForContentType(config, f, "application/pdf")
                       = ByName(config.parsers, rule.to)

===============================================================================
