------------------------------- MODULE MCFactory -------------------------------
(***************************************************************************)
(* Policy files and calls for Factory: the file of the design spec, with   *)
(* every combination of faults in its sections, of adapters and of trust   *)
(* patterns, and with every list of at most three rules.                   *)
(***************************************************************************)
EXTENDS Factory

CONSTANTS llamaparse, browser, typo

(* Hosts: a vendor, a host of it, the same written with a final dot, others. *)

Vendor == <<"vendor", "test">>
Docs == <<"docs", "vendor", "test">>
Rooted == <<"vendor", "test", "">>
Lookalike == <<"evilvendor", "test">>
Intranet == <<"intranet", "test">>

MCHosts == {Vendor, Docs, Rooted, Lookalike, Intranet}
MCPrivateHosts == {Intranet}

StarVendor == <<Star>> \o Vendor
DotStarDocs == <<"", Star>> \o Docs

MCAllowLists ==
    {{}, {<<Star>>}, {StarVendor}, {DotStarDocs, <<"intranet", "test">>}, {<<"test">>, EmptyName}}

(* The adapters installed: those of the package, a stub, a second httpx, and a *)
(* parser whose module is missing.                                             *)

Built(name, requires) ==
    [name |-> name, loads |-> TRUE, implemented |-> TRUE, requires |-> requires]
Stub(name) == [name |-> name, loads |-> TRUE, implemented |-> FALSE, requires |-> FALSE]
Broken(name) == [name |-> name, loads |-> FALSE, implemented |-> TRUE, requires |-> FALSE]

MCEntryPoints ==
    [fetch |-> <<Built(httpx, FALSE), Built(firecrawl, TRUE), Stub(browser), Stub(httpx)>>,
     search |-> <<Built(exa, TRUE)>>,
     parse |-> <<Built(llamaparse, TRUE), Broken(browser)>>]

(* Policy files. *)

Documented ==
    [kind |-> "mapping", supported |-> TRUE, nulls |-> {},
     roles |-> [fetch |-> <<httpx, firecrawl>>, search |-> <<exa>>, parse |-> <<llamaparse>>],
     escalation_rules |-> <<>>, strategy |-> "allowlist", allow |-> {StarVendor},
     require_review |-> "true", registry_backend |-> "memory"]

MCRules ==
    [kind : {"error"}, on : {"timeout", "not_found"},
     from : {httpx, None}, to : {httpx, firecrawl}]
        \cup
    [kind : {"content_type"}, on : {"pdf", "application/pdf"},
     from : {httpx, None}, to : {llamaparse, browser}]

RuleFiles ==
    {[Documented EXCEPT !.escalation_rules = rules, !.require_review = "absent"] :
        rules \in UNION {[1..n -> MCRules] : n \in 0..3}}

BrokenFiles ==
    {[Documented EXCEPT !.kind = kind, !.supported = supported, !.nulls = nulls,
                        !.roles["fetch"] = fetch, !.escalation_rules = rules] :
        kind \in {"missing", "invalid", "not_mapping", "mapping"}, supported \in BOOLEAN,
        nulls \in SUBSET Sections, fetch \in {<<httpx>>, <<>>, None},
        rules \in {<<>>, <<None>>}}

AdapterFiles ==
    {[Documented EXCEPT !.roles = [fetch |-> fetch, search |-> search, parse |-> parse],
                        !.allow = allow] :
        fetch \in {<<httpx, firecrawl>>, <<firecrawl>>, <<browser, httpx>>, <<httpx, typo>>},
        search \in {<<>>, <<exa>>, None}, parse \in {<<>>, <<llamaparse>>, <<browser>>},
        allow \in MCAllowLists}

BackendFiles ==
    {[Documented EXCEPT !.strategy = strategy, !.require_review = review,
                        !.registry_backend = backend] :
        strategy \in {"allowlist", "other"},
        review \in {"absent", "null", "true", "false"},
        backend \in {"memory", "postgres", "sqlite", "other"}}

MCFiles == RuleFiles \cup BrokenFiles \cup AdapterFiles \cup BackendFiles

(* Calls of build_router. *)

WithKwargs(kwargs, allowlist) ==
    [name \in Names |->
        [allowlist |-> IF name \in {httpx, exa} THEN allowlist ELSE None,
         kwargs |-> IF name = httpx THEN "missing" ELSE kwargs]]

Nothing == [role \in Roles |-> None]

Plain ==
    [injected |-> Nothing, own_trust |-> FALSE, own_registry |-> FALSE,
     allow_stubs |-> FALSE, credentials |-> WithKwargs("complete", None), dsn |-> "given"]

MCCalls ==
    {Plain,
     [Plain EXCEPT !.allow_stubs = TRUE],
     [Plain EXCEPT !.allow_stubs = TRUE, !.dsn = "absent"],
     [Plain EXCEPT !.allow_stubs = TRUE, !.dsn = "null"],
     [Plain EXCEPT !.credentials = WithKwargs("missing", None)],
     [Plain EXCEPT !.credentials = WithKwargs("unknown", {})],
     [Plain EXCEPT !.credentials = WithKwargs("invalid", None)],
     [Plain EXCEPT !.credentials = WithKwargs("null", None)],
     [Plain EXCEPT !.credentials = WithKwargs("complete", {})],
     [Plain EXCEPT !.credentials = WithKwargs("complete", {StarVendor})],
     [Plain EXCEPT !.injected["fetch"] = <<httpx, httpx>>, !.own_trust = TRUE],
     [Plain EXCEPT !.injected = [fetch |-> <<typo>>, search |-> <<>>, parse |-> <<>>],
                   !.own_registry = TRUE]}

(* The policy file of the design spec, with another parser before the one it names *)
(* and with no value for require_review.                                           *)

MCDocumentedFile ==
    {[Documented EXCEPT
        !.roles["parse"] = <<browser, llamaparse>>,
        !.require_review = "null",
        !.escalation_rules =
            <<[kind |-> "content_type", on |-> "pdf", from |-> httpx, to |-> llamaparse]>>]}

MCParsersPassedIn == {[Plain EXCEPT !.injected["parse"] = <<browser, llamaparse>>]}

===============================================================================
