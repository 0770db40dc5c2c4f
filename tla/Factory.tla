-------------------------------- MODULE Factory --------------------------------
(***************************************************************************)
(* From a policy file to a router: load_policy (policy.py), then           *)
(* build_router (factory.py) with load_adapter_class (core/discovery.py),  *)
(* then the constructor of the router (EscalationTable).                   *)
(*                                                                         *)
(* `step` is the argument being evaluated: the file is loaded, the three   *)
(* lists of adapters, the trust strategy and the registry are built in     *)
(* this order, and the rules are entered.  The first fault met ends the    *)
(* build; which one that is decides the exception the project sees.        *)
(***************************************************************************)
EXTENDS EscalationTable, Domains

CONSTANTS
    httpx, firecrawl, exa,  \* the names the factory treats specially
    EntryPoints,            \* per role, the installed entry points, in order
    Files,                  \* the policy files explored
    Calls                   \* the other arguments of build_router explored

VARIABLES
    file,      \* the policy file
    call,      \* the arguments of build_router besides the policy
    step,      \* the argument being evaluated
    adapters,  \* per role, the adapters built so far
    trust,     \* the patterns of the trust strategy, or None when injected
    registry,  \* the registry chosen
    error      \* the exception raised

factoryVars == <<file, call, step, adapters, trust, registry, error>>

allVars == <<factoryVars, tableVars>>

Roles == {"fetch", "search", "parse"}

Sections == {"roles", "escalation_rules", "search", "trust"}

\* What is installed under a name: whether its class can be imported, whether it is
\* wired, and whether its constructor needs arguments.
EntryPoint == [name : Names, loads : BOOLEAN, implemented : BOOLEAN, requires : BOOLEAN]

\* A policy file as YAML gives it.  `nulls` are the sections written with no value
\* and a rule that lacks a key is None; `require_review` may be absent or null.
PolicyFile ==
    [kind : {"missing", "invalid", "not_mapping", "mapping"},
     supported : BOOLEAN,
     nulls : SUBSET Sections,
     roles : [Roles -> Seq(Names) \cup {None}],
     escalation_rules : Seq(EscalationRule \cup {None}),
     strategy : {"allowlist", "other"},
     allow : SUBSET Seq(Labels),
     require_review : {"absent", "null", "true", "false"},
     registry_backend : {"memory", "postgres", "sqlite", "other"}]

\* Constructor arguments given under an adapter's name: an allowlist or None, and
\* whether the rest are missing, complete, unknown to the constructor, of a value it
\* refuses, or all of it null.
Credentials ==
    [allowlist : (SUBSET Seq(Labels)) \cup {None},
     kwargs : {"missing", "complete", "unknown", "invalid", "null"}]

\* What the project passes in: prebuilt adapters by role, or None.
BuildCall ==
    [injected : [Roles -> Seq(Names) \cup {None}],
     own_trust : BOOLEAN, own_registry : BOOLEAN, allow_stubs : BOOLEAN,
     credentials : [Names -> Credentials],
     dsn : {"given", "absent", "null"}]

Adapter ==
    [name : Names, entry : Nat, allowlist : SUBSET Seq(Labels)]

ASSUME FactoryAssumption ==
    /\ {httpx, firecrawl, exa} \subseteq Names
    /\ EntryPoints \in [Roles -> Seq(EntryPoint)]
    /\ Files \subseteq PolicyFile
    /\ Calls \subseteq BuildCall

FactoryInit ==
    /\ file \in Files
    /\ call \in Calls
    /\ step = "load"
    /\ adapters = [role \in Roles |-> <<>>]
    /\ trust = None
    /\ registry = "none"
    /\ error = "none"
    /\ TableInit

-------------------------------------------------------------------------------
(* A test of the code that raises, and the exception; tests run in order.  *)

Fault(holds, exception) == [holds |-> holds, exception |-> exception]

FirstFault(faults) ==
    LET first == SelectInSeq(faults, LAMBDA fault : fault.holds)
    IN  IF first = 0 THEN "none" ELSE faults[first].exception

\* Mutant: the fault is noted and the build goes on with the router.
FailWithoutRaising(exception) ==
    /\ error' = exception
    /\ step' = "router"
    /\ UNCHANGED <<file, call, adapters, trust, registry, tableVars>>

Fail(exception) ==
    /\ error' = exception
    /\ step' = "failed"
    /\ UNCHANGED <<file, call, adapters, trust, registry, tableVars>>

\* Mutant: the keys of a rule are read before they are tested.
IncompleteRuleLeaks(f) == Fault(None \in ToSet(f.escalation_rules), "KeyError")

IncompleteRule(f) == Fault(None \in ToSet(f.escalation_rules), "PolicyError")

\* load_policy
LoadFaults(f) == <<
    Fault(f.kind # "mapping", "PolicyError"),
    Fault(~f.supported, "PolicyError"),
    Fault("roles" \in f.nulls, "AttributeError"),
    Fault(f.roles["fetch"] \in {None, <<>>}, "PolicyError"),
    Fault("escalation_rules" \in f.nulls, "TypeError"),
    IncompleteRule(f),
    Fault(f.nulls \cap {"search", "trust"} # {}, "AttributeError") >>

LoadPolicy ==
    /\ step = "load"
    /\ LET fault == FirstFault(LoadFaults(file))
       IN  \/ fault # "none" /\ Fail(fault)
           \/ /\ fault = "none"
              /\ step' = "fetch"
              /\ UNCHANGED <<file, call, adapters, trust, registry, error, tableVars>>

\* Mutant: review must be asked for.
RequireReviewOnRequest(f) == f.require_review = "true"

\* The router tests `not require_review`: null is as good as false.
RequireReview(f) == f.require_review \in {"absent", "true"}

-------------------------------------------------------------------------------
(* The adapters: _construct for each name, unless the project injects its  *)
(* own list.                                                               *)

\* The first entry point of that name, or 0.
LoadAdapterClass(role, name) ==
    SelectInSeq(EntryPoints[role], LAMBDA ep : ep.name = name)

TakesAllowlist(role, name) ==
    <<role, name>> \in {<<"fetch", httpx>>, <<"fetch", firecrawl>>, <<"search", exa>>}

\* A list in the credentials is taken as it is; trust.allow is normalised.
AllowlistFor(role, name) ==
    IF ~TakesAllowlist(role, name) THEN {}
    ELSE IF call.credentials[name].allowlist # None
    THEN call.credentials[name].allowlist
    ELSE NormalizeAllow(file.allow)

BuildsClosedHttpx(role, name) ==
    role = "fetch" /\ name = httpx /\ AllowlistFor(role, name) = {}

\* cls(**kwargs) raises TypeError.
RejectsArguments(entry, kwargs) ==
    kwargs = "unknown" \/ (entry.requires /\ kwargs = "missing")

\* "ImportError" is whatever the import of an adapter raises and "OtherError" what a
\* constructor does besides TypeError; neither is caught.
ConstructFaults(role, name) ==
    LET n == LoadAdapterClass(role, name)
        entry == EntryPoints[role][n]
        kwargs == call.credentials[name].kwargs
    IN  << Fault(n = 0, "KeyError"),
           Fault(n # 0 /\ ~entry.loads, "ImportError"),
           Fault(n # 0 /\ ~entry.implemented /\ ~call.allow_stubs, "PolicyError"),
           Fault(kwargs = "null", "TypeError"),
           Fault(BuildsClosedHttpx(role, name), "PolicyError"),
           Fault(n # 0 /\ RejectsArguments(entry, kwargs), "PolicyError"),
           Fault(kwargs = "invalid", "OtherError") >>

NextName(role) == file.roles[role][Len(adapters[role]) + 1]

Unbuilt(role) ==
    /\ step = role
    /\ call.injected[role] = None
    /\ file.roles[role] # None
    /\ Len(adapters[role]) < Len(file.roles[role])

Construct(role) ==
    /\ Unbuilt(role)
    /\ LET name == NextName(role)
           fault == FirstFault(ConstructFaults(role, name))
       IN  \/ fault # "none" /\ Fail(fault)
           \/ /\ fault = "none"
              /\ adapters' = [adapters EXCEPT ![role] =
                    Append(@, [name |-> name, entry |-> LoadAdapterClass(role, name),
                               allowlist |-> AllowlistFor(role, name)])]
              /\ UNCHANGED <<file, call, step, trust, registry, error, tableVars>>

\* `policy.roles.get(role, [])` is None when the role is written with no value.
RoleIsNull(role) ==
    /\ step = role
    /\ call.injected[role] = None
    /\ file.roles[role] = None
    /\ Fail("TypeError")

StepAfter == [fetch |-> "search", search |-> "parse", parse |-> "trust"]

\* A list passed in by the project is used as it is.
Injected(names) == [i \in DOMAIN names |-> [name |-> names[i], entry |-> 0, allowlist |-> {}]]

RoleBuilt(role) ==
    /\ step = role
    /\ \/ /\ call.injected[role] # None
          /\ adapters' = [adapters EXCEPT ![role] = Injected(call.injected[role])]
       \/ /\ call.injected[role] = None
          /\ file.roles[role] # None
          /\ Len(adapters[role]) = Len(file.roles[role])
          /\ UNCHANGED adapters
    /\ step' = StepAfter[role]
    /\ UNCHANGED <<file, call, trust, registry, error, tableVars>>

-------------------------------------------------------------------------------
(* The trust strategy, the registry and the router.                        *)

BuildTrust ==
    /\ step = "trust"
    /\ \/ ~call.own_trust /\ file.strategy # "allowlist" /\ Fail("PolicyError")
       \/ /\ call.own_trust \/ file.strategy = "allowlist"
          /\ trust' = IF call.own_trust THEN None ELSE file.allow
          /\ step' = "registry"
          /\ UNCHANGED <<file, call, adapters, registry, error, tableVars>>

PostgresIf(condition) == file.registry_backend = "postgres" /\ condition

\* Mutant: the stub is built when it is given a dsn.
RegistryFaultsUntested == <<
    Fault(file.registry_backend \notin {"memory", "postgres"}, "PolicyError"),
    Fault(PostgresIf(call.dsn = "null"), "AttributeError"),
    Fault(PostgresIf(call.dsn = "absent"), "PolicyError") >>

\* The postgres registry is a stub, and needs a dsn even so.
RegistryFaults == <<
    Fault(file.registry_backend \notin {"memory", "postgres"}, "PolicyError"),
    Fault(PostgresIf(~call.allow_stubs), "PolicyError"),
    Fault(PostgresIf(call.dsn = "null"), "AttributeError"),
    Fault(PostgresIf(call.dsn = "absent"), "PolicyError") >>

BuildRegistry ==
    /\ step = "registry"
    /\ LET fault == IF call.own_registry THEN "none" ELSE FirstFault(RegistryFaults)
       IN  \/ fault # "none" /\ Fail(fault)
           \/ /\ fault = "none"
              /\ registry' = IF call.own_registry THEN "injected" ELSE file.registry_backend
              /\ step' = "router"
              /\ UNCHANGED <<file, call, adapters, trust, error, tableVars>>

NamesOf(list) == [i \in DOMAIN list |-> list[i].name]

\* RouterConfig is given no retry_attempts, so it is 0.
CallRouter ==
    /\ step = "router"
    /\ config' = [fetchers |-> NamesOf(adapters["fetch"]),
                  parsers |-> NamesOf(adapters["parse"]),
                  searchers |-> Len(adapters["search"]),
                  rules |-> file.escalation_rules,
                  retry_attempts |-> 0,
                  require_review |-> RequireReview(file)]
    /\ step' = "rules"
    /\ UNCHANGED <<file, call, adapters, trust, registry, error,
                   loaded, error_escalations, content_type_escalations>>

EnterRule == step = "rules" /\ LoadRule /\ UNCHANGED factoryVars

RouterBuilt ==
    /\ step = "rules"
    /\ loaded = Len(config.rules)
    /\ step' = "built"
    /\ UNCHANGED <<file, call, adapters, trust, registry, error, tableVars>>

BuildRole(role) == Construct(role) \/ RoleIsNull(role) \/ RoleBuilt(role)

FactoryNext ==
    \/ LoadPolicy \/ (\E role \in Roles : BuildRole(role))
    \/ BuildTrust \/ BuildRegistry \/ CallRouter \/ EnterRule \/ RouterBuilt

FactorySpec == FactoryInit /\ [][FactoryNext]_allVars

-------------------------------------------------------------------------------

HasRouter == step \in {"rules", "built"}

\* Every variable has its type, and a router exists only without an error.
FactoryTypeOK ==
    /\ step \in Roles \cup {"load", "trust", "registry", "router", "rules", "built", "failed"}
    /\ adapters \in [Roles -> Seq(Adapter)]
    /\ trust = None \/ trust = file.allow
    /\ registry \in {"none", "memory", "postgres", "injected"}
    /\ error \in {"none", "PolicyError", "KeyError", "TypeError", "AttributeError",
                   "ImportError", "OtherError"}
    /\ error # "none" <=> step = "failed"
    /\ config \in RouterRecord
    /\ loaded \in 0..Len(config.rules)

NamesHost(url) == url.host # NoHost /\ Last(url.host) # Blank

PolicyGuarded(role) ==
    {a \in ToSet(adapters[role]) :
        /\ a.entry # 0
        /\ TakesAllowlist(role, a.name)
        /\ call.credentials[a.name].allowlist = None}

\* One list of patterns is read in four places, by each in its own way.  A router
\* that leaves all of them to the policy agrees with itself: a URL on https, of a
\* public host that is not written with a final dot, passes the searcher and both
\* fetchers exactly when the trust strategy would promote it, and nothing that they
\* let through is untrusted (factory.py, "so policy trust.allow matches
\* HttpxFetcher").
GuardsAgree ==
    HasRouter /\ trust # None =>
        \A url \in Url :
            /\ \A f \in PolicyGuarded("fetch") :
                  /\ UrlAllowed(f.allowlist, url) => IsTrustedUrl(trust, url)
                  /\ /\ IsTrustedUrl(trust, url)
                     /\ url.scheme = "https" /\ NamesHost(url)
                     /\ url.host \notin PrivateHosts
                     => UrlAllowed(f.allowlist, url)
            /\ \A s \in PolicyGuarded("search") :
                  /\ HostAllowed(s.allowlist, url) => IsTrustedUrl(trust, url)
                  /\ /\ IsTrustedUrl(trust, url)
                     /\ url.scheme = "https" /\ NamesHost(url)
                     => HostAllowed(s.allowlist, url)

RoleAsAsked(role) ==
    NamesOf(adapters[role]) =
        IF call.injected[role] # None THEN call.injected[role] ELSE file.roles[role]

\* A router is built whole or not at all: every adapter the policy names, or the
\* project passes in, is there in its place, with all the rules, and the review gate
\* stands as the file sets it, closed when it says nothing (factory.py, "the piece
\* that makes config actually drive behavior, rather than being parsed and then
\* ignored").  A value written as null is no setting: see PolicyFileIsHonoured.
BuiltAsPolicySays ==
    HasRouter =>
        /\ \A role \in Roles : RoleAsAsked(role)
        /\ config.fetchers = NamesOf(adapters["fetch"])
        /\ Len(config.rules) = Len(file.escalation_rules)
        /\ file.require_review \in {"absent", "true"} => config.require_review
        /\ file.require_review = "false" => ~config.require_review

\* Without allow_stubs no stub reaches a router, by whichever of the two paths it
\* would come: an adapter's entry point or the postgres registry (factory.py,
\* docstring of build_router).
NoStubUnlessAllowed ==
    HasRouter /\ ~call.allow_stubs =>
        /\ registry # "postgres"
        /\ \A role \in Roles : \A a \in ToSet(adapters[role]) :
              a.entry # 0 => EntryPoints[role][a.entry].implemented

\* The names of a role that the factory is to construct.
Asked(role) ==
    IF call.injected[role] # None \/ file.roles[role] = None THEN {}
    ELSE ToSet(file.roles[role])

\* A name that nobody registered, one whose class cannot be imported, and one that
\* is given such arguments.
UnregisteredAsked ==
    \E role \in Roles : \E name \in Asked(role) : LoadAdapterClass(role, name) = 0

BrokenAsked ==
    \E role \in Roles : \E name \in Asked(role) :
        LET n == LoadAdapterClass(role, name)
        IN  n # 0 /\ ~EntryPoints[role][n].loads

ArgumentsAsked(kwargs) ==
    \E role \in Roles : \E name \in Asked(role) : call.credentials[name].kwargs = kwargs

NullRole == \E role \in Roles : call.injected[role] = None /\ file.roles[role] = None

\* What escapes as something else than PolicyError has one of these causes, and the
\* cause lies in what the factory had to build itself: a list or a registry that is
\* passed in is never looked into (README.md, "Consistent, catchable errors").
OnlyKnownFaultsEscape ==
    /\ error = "KeyError" => UnregisteredAsked
    /\ error = "ImportError" => BrokenAsked
    /\ error = "OtherError" => ArgumentsAsked("invalid")
    /\ error = "TypeError" =>
          "escalation_rules" \in file.nulls \/ NullRole \/ ArgumentsAsked("null")
    /\ error = "AttributeError" =>
          \/ file.nulls # {}
          \/ ~call.own_registry /\ PostgresIf(call.allow_stubs /\ call.dsn = "null")

-------------------------------------------------------------------------------
(* What the documentation says of a policy file and the code does not do.  *)

\* A router built from a file has what the documents promise of it: a rule on
\* content_type=pdf sends PDF bodies to the parser it names (design spec, section 4,
\* the policy file), and the review gate is open only if the file says false
\* ("`require_review=False`: an explicit opt-in", core/router.py, resolve).
PolicyFileIsHonoured ==
    step = "built" =>
        /\ PdfRuleIsHonoured
        /\ ~config.require_review => file.require_review = "false"

===============================================================================
