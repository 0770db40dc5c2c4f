----------------------------- MODULE FactoryProofs -----------------------------
(***************************************************************************)
(* What a router is built of, for every policy file, every list of         *)
(* installed adapters and every arguments of build_router.                 *)
(***************************************************************************)
EXTENDS Factory, EscalationProofs

-------------------------------------------------------------------------------
(* Patterns and hosts.                                                     *)

\* Stripping a pattern leaves a name.
LEMMA StripType ==
    ASSUME NEW pattern \in Seq(Labels)
    PROVE  Strip(pattern) \in Seq(Labels)
<1> DEFINE I == {i \in 1..Len(pattern) : pattern[i] \notin {Star, Blank}}
           first == SelectInSeq(pattern, LAMBDA label : label \notin {Star, Blank})
<1>1. first = IF I # {} THEN Min(I) ELSE 0
  BY DEF SelectInSeq
<1>2. I # {} => first \in 1..Len(pattern)
  <2>1. I \subseteq Nat
    OBVIOUS
  <2> QED BY <1>1, <2>1, MinInSet
<1>3. EmptyName \in Seq(Labels)
  BY DomainsAssumption DEF EmptyName
<1>4. first \in 1..Len(pattern) => SubSeq(pattern, first, Len(pattern)) \in Seq(Labels)
  <2> HIDE DEF first
  <2> QED OBVIOUS
<1> QED BY <1>1, <1>2, <1>3, <1>4 DEF Strip

LEMMA NormalizeAllowType ==
    ASSUME NEW allow \in SUBSET Seq(Labels)
    PROVE  NormalizeAllow(allow) \in SUBSET Seq(Labels)
BY StripType DEF NormalizeAllow

\* The empty name matches only a host that is written with a final dot.
LEMMA EmptyNameMatches ==
    ASSUME NEW host \in Seq(Labels), IsSuffix(EmptyName, host)
    PROVE  Last(host) = Blank
<1>1. Len(EmptyName) = 1 /\ EmptyName[1] = Blank
  BY DEF EmptyName
<1>2. /\ Len(Reverse(EmptyName)) = 1
      /\ Reverse(EmptyName)[1] = Blank
  <2>1. Reverse(EmptyName) = [i \in 1..1 |-> EmptyName[(1 - i) + 1]]
    BY <1>1 DEF Reverse
  <2> QED BY <1>1, <2>1
<1>3. /\ Len(Reverse(host)) = Len(host)
      /\ Len(host) >= 1 => Reverse(host)[1] = host[Len(host)]
  BY DEF Reverse
<1>4. /\ 1 <= Len(Reverse(host))
      /\ SubSeq(Reverse(EmptyName), 1, 1) = SubSeq(Reverse(host), 1, 1)
  BY <1>2 DEF IsSuffix, IsPrefix
<1>5. \A s : SubSeq(s, 1, 1)[1] = s[1]
  BY DEF SubSeq
<1> QED BY <1>2, <1>3, <1>4, <1>5 DEF Last

\* What the factory normalises is what the trust strategy strips, but for the empty name.
LEMMA TrustedIsAllowed ==
    ASSUME NEW allow \in SUBSET Seq(Labels), NEW url \in Url
    PROVE  /\ HostAllowed(NormalizeAllow(allow), url) => IsTrustedUrl(allow, url)
           /\ IsTrustedUrl(allow, url) /\ url.scheme = "https" /\ NamesHost(url)
                 => HostAllowed(NormalizeAllow(allow), url)
<1>1. HostAllowed(NormalizeAllow(allow), url) => IsTrustedUrl(allow, url)
  BY DEF HostAllowed, IsTrustedUrl, Matches, NormalizeAllow
<1>2. ASSUME IsTrustedUrl(allow, url), url.scheme = "https", NamesHost(url)
      PROVE  HostAllowed(NormalizeAllow(allow), url)
  <2>1. url.host # NoHost /\ Last(url.host) # Blank /\ url.host \in Seq(Labels)
    BY <1>2, DomainsAssumption DEF NamesHost, Url
  <2>2. PICK pattern \in allow : IsSuffix(Strip(pattern), url.host)
    BY <1>2, <2>1 DEF IsTrustedUrl, Matches
  <2>3. Strip(pattern) # EmptyName
    BY <2>1, <2>2, EmptyNameMatches
  <2> QED BY <1>2, <2>1, <2>2, <2>3 DEF HostAllowed, Matches, NormalizeAllow
<1> QED BY <1>1, <1>2

-------------------------------------------------------------------------------
(* Tests in order.                                                         *)

Exceptions ==
    {"PolicyError", "KeyError", "TypeError", "AttributeError", "ImportError", "OtherError"}

Faults == Seq([holds : BOOLEAN, exception : Exceptions])

\* The exception that ends the build is that of the first test that holds; none does
\* when the build goes on.
LEMMA FirstFaultHolds ==
    ASSUME NEW faults \in Faults
    PROVE  \/ /\ FirstFault(faults) = "none"
              /\ \A i \in DOMAIN faults : ~faults[i].holds
           \/ \E i \in DOMAIN faults :
                 /\ faults[i].holds /\ FirstFault(faults) = faults[i].exception
                 /\ \A j \in DOMAIN faults : j < i => ~faults[j].holds
<1> DEFINE I == {i \in 1..Len(faults) : faults[i].holds}
           first == SelectInSeq(faults, LAMBDA fault : fault.holds)
<1>1. first = IF I # {} THEN Min(I) ELSE 0
  BY DEF SelectInSeq
<1>2. DOMAIN faults = 1..Len(faults)
  BY DEF Faults
<1>3. CASE I = {}
  BY <1>1, <1>2, <1>3 DEF FirstFault
<1>4. CASE I # {}
  <2>1. first \in I /\ \A j \in I : first <= j
    <3>1. I \subseteq Nat
      OBVIOUS
    <3> HIDE DEF I
    <3> QED BY <1>1, <1>4, <3>1, MinInSet
  <2>2. FirstFault(faults) = faults[first].exception
    BY <2>1 DEF FirstFault
  <2>3. \A j \in DOMAIN faults : j < first => ~faults[j].holds
    BY <1>2, <2>1
  <2> QED BY <1>2, <2>1, <2>2, <2>3
<1> QED BY <1>3, <1>4

\* A test that holds is a condition that holds.
LEMMA FaultHolds ==
    ASSUME NEW p \in BOOLEAN, NEW x, NEW f, f = Fault(p, x)
    PROVE  f.holds = p /\ f.exception = x
BY DEF Fault

\* An adapter is built only if no test of _construct holds.
LEMMA ConstructFaultsHold ==
    ASSUME NEW role, NEW name, NEW fault, NEW n, NEW kwargs,
           fault = FirstFault(ConstructFaults(role, name)),
           n = LoadAdapterClass(role, name),
           kwargs = call.credentials[name].kwargs
    PROVE  \/ /\ fault = "none" /\ n # 0
              /\ call.allow_stubs \/ EntryPoints[role][n].implemented
           \/ fault = "KeyError" /\ n = 0
           \/ fault = "ImportError" /\ n # 0 /\ ~EntryPoints[role][n].loads
           \/ fault = "TypeError" /\ kwargs = "null"
           \/ fault = "OtherError" /\ kwargs = "invalid"
           \/ fault = "PolicyError"
<1> DEFINE p == n = 0
           q == n # 0 /\ ~EntryPoints[role][n].loads
           r == n # 0 /\ ~EntryPoints[role][n].implemented /\ ~call.allow_stubs
           s == kwargs = "null"
           t == BuildsClosedHttpx(role, name)
           u == n # 0 /\ RejectsArguments(EntryPoints[role][n], kwargs)
           v == kwargs = "invalid"
<1>1. /\ p \in BOOLEAN /\ q \in BOOLEAN /\ r \in BOOLEAN /\ s \in BOOLEAN
      /\ t \in BOOLEAN /\ u \in BOOLEAN /\ v \in BOOLEAN
  BY DEF BuildsClosedHttpx
<1> DEFINE faults == ConstructFaults(role, name)
<1>2. /\ faults[1] = Fault(p, "KeyError") /\ faults[2] = Fault(q, "ImportError")
      /\ faults[3] = Fault(r, "PolicyError") /\ faults[4] = Fault(s, "TypeError")
      /\ faults[5] = Fault(t, "PolicyError") /\ faults[6] = Fault(u, "PolicyError")
      /\ faults[7] = Fault(v, "OtherError")
      /\ DOMAIN faults = 1..7
  BY DEF ConstructFaults
<1>3. faults \in Faults
  <2>1. faults = <<Fault(p, "KeyError"), Fault(q, "ImportError"), Fault(r, "PolicyError"),
                   Fault(s, "TypeError"), Fault(t, "PolicyError"), Fault(u, "PolicyError"),
                   Fault(v, "OtherError")>>
    BY DEF ConstructFaults
  <2> HIDE DEF faults, p, q, r, s, t, u, v
  <2> QED BY <1>1, <2>1 DEF Faults, Fault, Exceptions
<1> HIDE DEF faults, p, q, r, s, t, u, v
<1>4. CASE FirstFault(faults) = "none" /\ \A i \in DOMAIN faults : ~faults[i].holds
  <2>1. ~faults[1].holds /\ ~faults[3].holds
    BY <1>2, <1>4
  <2>2. ~p /\ ~r
    BY <1>1, <1>2, <2>1, FaultHolds
  <2> QED BY <1>4, <2>2 DEF faults, p, r
<1>5. ASSUME NEW i \in DOMAIN faults, faults[i].holds,
             FirstFault(faults) = faults[i].exception
      PROVE  \/ FirstFault(faults) = "PolicyError"
             \/ FirstFault(faults) = "KeyError" /\ p
             \/ FirstFault(faults) = "ImportError" /\ q
             \/ FirstFault(faults) = "TypeError" /\ s
             \/ FirstFault(faults) = "OtherError" /\ v
  <2>1. i = 1 \/ i = 2 \/ i = 3 \/ i = 4 \/ i = 5 \/ i = 6 \/ i = 7
    BY <1>2, <1>5
  <2> QED BY <1>1, <1>2, <1>5, <2>1, FaultHolds
<1>6. fault = FirstFault(faults)
  BY DEF faults
<1> QED BY <1>3, <1>4, <1>5, <1>6, FirstFaultHolds DEF p, q, s, v

\* What the registry is refused for.
LEMMA RegistryFaultsHold ==
    ASSUME NEW fault, fault = FirstFault(RegistryFaults)
    PROVE  \/ /\ fault = "none" /\ file.registry_backend \in {"memory", "postgres"}
              /\ file.registry_backend = "postgres" => call.allow_stubs
           \/ fault = "PolicyError"
           \/ /\ fault = "AttributeError"
              /\ PostgresIf(call.allow_stubs /\ call.dsn = "null")
<1> DEFINE faults == RegistryFaults
           p == file.registry_backend \notin {"memory", "postgres"}
           q == PostgresIf(~call.allow_stubs)
           r == PostgresIf(call.dsn = "null")
           s == PostgresIf(call.dsn = "absent")
<1>1. p \in BOOLEAN /\ q \in BOOLEAN /\ r \in BOOLEAN /\ s \in BOOLEAN
  BY DEF PostgresIf
<1>2. /\ faults[1] = Fault(p, "PolicyError") /\ faults[2] = Fault(q, "PolicyError")
      /\ faults[3] = Fault(r, "AttributeError") /\ faults[4] = Fault(s, "PolicyError")
      /\ DOMAIN faults = 1..4
  BY DEF RegistryFaults
<1>3. faults \in Faults
  <2>1. faults = <<Fault(p, "PolicyError"), Fault(q, "PolicyError"),
                   Fault(r, "AttributeError"), Fault(s, "PolicyError")>>
    BY DEF RegistryFaults
  <2> HIDE DEF faults, p, q, r, s
  <2> QED BY <1>1, <2>1 DEF Faults, Fault, Exceptions
<1> HIDE DEF faults, p, q, r, s
<1>4. CASE FirstFault(faults) = "none" /\ \A i \in DOMAIN faults : ~faults[i].holds
  <2>1. ~faults[1].holds /\ ~faults[2].holds
    BY <1>2, <1>4
  <2>2. ~p /\ ~q
    BY <1>1, <1>2, <2>1, FaultHolds
  <2> QED BY <1>4, <2>2 DEF faults, p, q, PostgresIf
<1>5. ASSUME NEW i \in DOMAIN faults, faults[i].holds,
             FirstFault(faults) = faults[i].exception,
             \A j \in DOMAIN faults : j < i => ~faults[j].holds
      PROVE  \/ FirstFault(faults) = "PolicyError"
             \/ FirstFault(faults) = "AttributeError" /\ r /\ ~q
  <2>1. i \in 1..4
    BY <1>2, <1>5
  <2>2. CASE i \in {1, 2, 4}
    BY <1>1, <1>2, <1>5, <2>2, FaultHolds
  <2>3. CASE i = 3
    <3>1. r /\ FirstFault(faults) = "AttributeError"
      BY <1>1, <1>2, <1>5, <2>3, FaultHolds
    <3>2. ~faults[2].holds
      BY <1>2, <1>5, <2>3
    <3> QED BY <1>1, <1>2, <3>1, <3>2, FaultHolds
  <2> QED BY <2>1, <2>2, <2>3
<1>6. r /\ ~q => PostgresIf(call.allow_stubs /\ call.dsn = "null")
  BY DEF r, q, PostgresIf
<1> QED BY <1>3, <1>4, <1>5, <1>6, FirstFaultHolds DEF faults

\* The position of an entry point is a number, 0 when there is none of that name.
LEMMA LoadAdapterClassType ==
    ASSUME NEW role \in Roles, NEW name
    PROVE  LoadAdapterClass(role, name) \in Nat
<1> DEFINE I == {i \in 1..Len(EntryPoints[role]) : EntryPoints[role][i].name = name}
<1>1. LoadAdapterClass(role, name) = IF I # {} THEN Min(I) ELSE 0
  BY DEF LoadAdapterClass, SelectInSeq
<1>2. Len(EntryPoints[role]) \in Nat
  BY FactoryAssumption
<1>3. I \subseteq Nat
  BY <1>2
<1> QED BY <1>1, <1>3, MinInSet

LEMMA AllowlistForType ==
    ASSUME file \in PolicyFile, call \in BuildCall, NEW role \in Roles, NEW name \in Names
    PROVE  AllowlistFor(role, name) \in SUBSET Seq(Labels)
<1>1. file.allow \in SUBSET Seq(Labels)
  BY DEF PolicyFile
<1>2. call.credentials[name].allowlist \in (SUBSET Seq(Labels)) \cup {None}
  BY DEF BuildCall, Credentials
<1>3. NormalizeAllow(file.allow) \in SUBSET Seq(Labels)
  BY <1>1, NormalizeAllowType
<1>4. {} \in SUBSET Seq(Labels)
  OBVIOUS
<1>5. CASE ~TakesAllowlist(role, name)
  BY <1>4, <1>5 DEF AllowlistFor
<1>6. CASE TakesAllowlist(role, name) /\ call.credentials[name].allowlist # None
  <2>1. AllowlistFor(role, name) = call.credentials[name].allowlist
    BY <1>6 DEF AllowlistFor
  <2> QED BY <1>2, <1>6, <2>1
<1>7. CASE TakesAllowlist(role, name) /\ call.credentials[name].allowlist = None
  <2>1. AllowlistFor(role, name) = NormalizeAllow(file.allow)
    BY <1>7 DEF AllowlistFor
  <2> QED BY <1>3, <2>1
<1> QED BY <1>5, <1>6, <1>7

-------------------------------------------------------------------------------
(* The invariant: what is known of the adapters at each step of the build. *)

\* The steps at which the list of a role is still to be built, and those at which it is.
Before == [fetch |-> {"load"}, search |-> {"load", "fetch"},
           parse |-> {"load", "fetch", "search"}]

AdaptersBuilt == {"trust", "registry", "router", "rules", "built"}

After == [fetch |-> {"search", "parse"} \cup AdaptersBuilt,
          search |-> {"parse"} \cup AdaptersBuilt,
          parse |-> AdaptersBuilt]

\* While a list is being built it is a prefix of the names of the policy.
RoleProgress(role) ==
    /\ step \in Before[role] => adapters[role] = <<>>
    /\ step = role /\ (call.injected[role] # None \/ file.roles[role] = None)
          => adapters[role] = <<>>
    /\ step = role /\ call.injected[role] = None /\ file.roles[role] # None
          => /\ Len(adapters[role]) <= Len(file.roles[role])
             /\ \A i \in DOMAIN adapters[role] : adapters[role][i].name = file.roles[role][i]
    /\ step \in After[role] => RoleAsAsked(role)

\* What the factory has made, it has made from what it was given.
Vouched(role, a) ==
    a.entry # 0 =>
        /\ a.allowlist = AllowlistFor(role, a.name)
        /\ call.allow_stubs \/ EntryPoints[role][a.entry].implemented

FInv ==
    /\ file \in PolicyFile
    /\ call \in BuildCall
    /\ step \in {"load", "fetch", "search", "parse", "failed"} \cup AdaptersBuilt
    /\ adapters \in [Roles -> Seq(Adapter)]
    /\ trust = None \/ trust = file.allow
    /\ \A role \in Roles : RoleProgress(role)
    /\ \A role \in Roles : \A i \in DOMAIN adapters[role] : Vouched(role, adapters[role][i])
    /\ step \in {"router", "rules", "built"} /\ registry = "postgres" => call.allow_stubs
    /\ HasRouter =>
          /\ config.fetchers = NamesOf(adapters["fetch"])
          /\ config.rules = file.escalation_rules
          /\ config.require_review = RequireReview(file)

LEMMA InitFInv == FactoryInit => FInv
<1> SUFFICES ASSUME FactoryInit PROVE FInv
  OBVIOUS
<1>1. /\ file \in PolicyFile /\ call \in BuildCall
  BY FactoryAssumption DEF FactoryInit
<1>2. adapters \in [Roles -> Seq(Adapter)]
  BY DEF FactoryInit
<1>3. \A role \in Roles : adapters[role] = <<>>
  BY DEF FactoryInit
<1>4. \A role \in Roles : RoleProgress(role)
  BY <1>3 DEF FactoryInit, RoleProgress, Roles, After, AdaptersBuilt
<1> QED BY <1>1, <1>2, <1>3, <1>4 DEF FactoryInit, FInv, HasRouter, AdaptersBuilt

\* A fault ends the build and changes nothing of what was built.
LEMMA FailKeepsFInv ==
    ASSUME FInv, NEW exception, Fail(exception)
    PROVE  FInv'
<1>1. \A role \in Roles : RoleProgress(role)'
  BY DEF Fail, FInv, RoleProgress, Before, After, AdaptersBuilt, Roles
<1> QED BY <1>1 DEF Fail, FInv, Vouched, AllowlistFor, HasRouter, AdaptersBuilt

\* The build goes on and no adapter is added.
LEMMA StepKeepsFInv ==
    ASSUME FInv, UNCHANGED <<file, call, adapters>>,
           \/ step = "load" /\ step' = "fetch"
           \/ step = "trust" /\ step' = "registry"
           \/ step = "registry" /\ step' = "router"
           \/ step = "router" /\ step' = "rules"
           \/ step = "rules" /\ step' \in {"rules", "built"},
           trust' = trust \/ trust' \in {None, file.allow},
           registry' = registry \/ (registry' = "postgres" => call.allow_stubs),
           step = "registry" => (registry' = "postgres" => call.allow_stubs),
           HasRouter' => /\ config'.fetchers = NamesOf(adapters["fetch"])
                         /\ config'.rules = file.escalation_rules
                         /\ config'.require_review = RequireReview(file)
    PROVE  FInv'
<1>1. \A role \in Roles : RoleProgress(role)'
  BY DEF FInv, RoleProgress, RoleAsAsked, Before, After, AdaptersBuilt, Roles
<1>2. \A role \in Roles :
         (\A i \in DOMAIN adapters[role] : Vouched(role, adapters[role][i]))'
  BY DEF FInv, Vouched, AllowlistFor
<1> QED BY <1>1, <1>2 DEF FInv, HasRouter, AdaptersBuilt, RequireReview

\* One more adapter, of the next name of the policy.
LEMMA ConstructKeepsFInv ==
    ASSUME FInv, NEW role \in Roles, Construct(role)
    PROVE  FInv'
<1> DEFINE name == NextName(role)
           n == LoadAdapterClass(role, name)
           fault == FirstFault(ConstructFaults(role, name))
           new == [name |-> name, entry |-> n, allowlist |-> AllowlistFor(role, name)]
           list == Append(adapters[role], new)
<1>1. CASE Fail(fault)
  BY <1>1, FailKeepsFInv
<1>2. CASE ~ Fail(fault)
  <2>1. /\ fault = "none"
        /\ adapters' = [adapters EXCEPT ![role] = list]
        /\ UNCHANGED <<file, call, step, trust, registry, error, tableVars>>
    BY <1>2 DEF Construct
  <2>2. /\ step = role /\ call.injected[role] = None /\ file.roles[role] # None
        /\ Len(adapters[role]) < Len(file.roles[role])
    BY DEF Construct, Unbuilt
  <2>3. file.roles[role] \in Seq(Names) /\ adapters[role] \in Seq(Adapter)
    BY <2>2 DEF FInv, PolicyFile
  <2>4. name \in Names
    BY <2>2, <2>3 DEF NextName
  <2>5. new \in Adapter
    BY <2>4, LoadAdapterClassType, AllowlistForType DEF FInv, Adapter
  <2>6. /\ list \in Seq(Adapter) /\ Len(list) = Len(adapters[role]) + 1
        /\ \A i \in DOMAIN adapters[role] : list[i] = adapters[role][i]
        /\ list[Len(list)] = new
        /\ DOMAIN list = DOMAIN adapters[role] \cup {Len(list)}
    <3> HIDE DEF new
    <3> QED BY <2>3, <2>5
  <2>7. Vouched(role, new)
    <3>1. /\ n # 0
          /\ call.allow_stubs \/ EntryPoints[role][n].implemented
      BY <2>1, ConstructFaultsHold
    <3> QED BY <3>1 DEF Vouched
  <2> HIDE DEF list, new
  <2>8. adapters' \in [Roles -> Seq(Adapter)] /\ adapters'[role] = list
        /\ \A other \in Roles : other # role => adapters'[other] = adapters[other]
    BY <2>1, <2>6 DEF FInv
  <2>9. \A other \in Roles : RoleProgress(other)'
    <3>1. RoleProgress(role)'
      <4>1. \A i \in DOMAIN list : list[i].name = file.roles[role][i]
        BY <2>2, <2>6 DEF FInv, RoleProgress, new, NextName
      <4>2. Len(list) <= Len(file.roles[role])
        BY <2>2, <2>3, <2>6
      <4>3. step \notin Before[role] /\ step \notin After[role]
        BY <2>2 DEF Before, After, AdaptersBuilt, Roles
      <4> QED BY <2>1, <2>2, <2>8, <4>1, <4>2, <4>3 DEF RoleProgress
    <3>2. ASSUME NEW other \in Roles, other # role PROVE RoleProgress(other)'
      BY <2>1, <2>8, <3>2 DEF FInv, RoleProgress, RoleAsAsked
    <3> QED BY <3>1, <3>2
  <2>10. \A other \in Roles :
            (\A i \in DOMAIN adapters[other] : Vouched(other, adapters[other][i]))'
    <3>1. \A other \in Roles : \A a : Vouched(other, a)' <=> Vouched(other, a)
      BY <2>1 DEF Vouched, AllowlistFor
    <3>2. \A i \in DOMAIN list : Vouched(role, list[i])
      BY <2>6, <2>7 DEF FInv
    <3> QED BY <2>8, <3>1, <3>2 DEF FInv
  <2>11. ~HasRouter /\ step # "router"
    BY <2>2 DEF HasRouter, Roles
  <2> QED BY <2>1, <2>8, <2>9, <2>10, <2>11 DEF FInv, HasRouter
<1> QED BY <1>1, <1>2

\* The list of a role is complete, or was passed in.
LEMMA RoleBuiltKeepsFInv ==
    ASSUME FInv, NEW role \in Roles, RoleBuilt(role)
    PROVE  FInv'
<1>1. /\ step = role /\ step' = StepAfter[role]
      /\ UNCHANGED <<file, call, trust, registry, error, tableVars>>
  BY DEF RoleBuilt
<1>2. PICK list \in Seq(Adapter) :
        /\ adapters' = [adapters EXCEPT ![role] = list]
        /\ NamesOf(list) = IF call.injected[role] # None THEN call.injected[role]
                           ELSE file.roles[role]
        /\ \A i \in DOMAIN list : Vouched(role, list[i])
  <2>1. CASE call.injected[role] # None
    <3> DEFINE names == call.injected[role]
               list == Injected(names)
    <3>1. names \in Seq(Names)
      BY <2>1 DEF FInv, BuildCall
    <3>2. \A i \in DOMAIN names : [name |-> names[i], entry |-> 0, allowlist |-> {}] \in Adapter
      BY <3>1 DEF Adapter
    <3>3. list \in Seq(Adapter) /\ DOMAIN list = DOMAIN names
          /\ \A i \in DOMAIN names : list[i].name = names[i] /\ list[i].entry = 0
      <4> DEFINE a(i) == [name |-> names[i], entry |-> 0, allowlist |-> {}]
      <4>1. /\ DOMAIN names = 1..Len(names) /\ Len(names) \in Nat
            /\ list = [i \in 1..Len(names) |-> a(i)]
        BY <3>1 DEF Injected
      <4>2. \A i \in 1..Len(names) : a(i) \in Adapter
        BY <3>2, <4>1
      <4>3. \A i \in 1..Len(names) : a(i).name = names[i] /\ a(i).entry = 0
        OBVIOUS
      <4> HIDE DEF a, list
      <4> QED BY <4>1, <4>2, <4>3
    <3> HIDE DEF list
    <3>4. NamesOf(list) = names
      BY <3>1, <3>3 DEF NamesOf
    <3> QED BY <2>1, <3>3, <3>4 DEF RoleBuilt, Vouched, list
  <2>2. CASE call.injected[role] = None
    <3>1. /\ file.roles[role] \in Seq(Names) /\ adapters[role] \in Seq(Adapter)
          /\ Len(adapters[role]) = Len(file.roles[role])
      BY <2>2 DEF RoleBuilt, FInv, PolicyFile
    <3>2. \A i \in DOMAIN adapters[role] : adapters[role][i].name = file.roles[role][i]
      BY <2>2 DEF RoleBuilt, FInv, RoleProgress
    <3>3. NamesOf(adapters[role]) = file.roles[role]
      BY <3>1, <3>2 DEF NamesOf
    <3>4. adapters' = [adapters EXCEPT ![role] = adapters[role]]
      BY <2>2 DEF RoleBuilt, FInv
    <3> QED BY <2>2, <3>1, <3>3, <3>4 DEF FInv
  <2> QED BY <2>1, <2>2
<1>3. adapters' \in [Roles -> Seq(Adapter)] /\ adapters'[role] = list
      /\ \A other \in Roles : other # role => adapters'[other] = adapters[other]
  BY <1>2 DEF FInv
<1>4. \A other \in Roles : RoleProgress(other)'
  <2>1. RoleProgress(role)'
    BY <1>1, <1>2, <1>3
       DEF RoleProgress, RoleAsAsked, StepAfter, Before, After, AdaptersBuilt, Roles
  <2>2. ASSUME NEW other \in Roles, other # role PROVE RoleProgress(other)'
    <3>1. RoleProgress(other) /\ adapters'[other] = adapters[other]
      BY <1>3, <2>2 DEF FInv
    <3>2. \/ step' \in Before[other] /\ step \in Before[other]
          \/ step' = other /\ step \in Before[other] /\ step' \notin After[other]
          \/ step' \in After[other] /\ step \in After[other]
      BY <1>1, <2>2 DEF StepAfter, Before, After, AdaptersBuilt, Roles
    <3>3. ~(step' \in Before[other] /\ step' \in After[other])
          /\ (step' = other => step' \notin After[other])
          /\ other \notin Before[other] \cup After[other]
      BY DEF Before, After, AdaptersBuilt, Roles
    <3>4. file.roles[other] # None => Len(file.roles[other]) \in Nat
      BY DEF FInv, PolicyFile
    <3>5. Len(<<>>) = 0 /\ DOMAIN <<>> = {}
      OBVIOUS
    <3> QED BY <1>1, <3>1, <3>2, <3>3, <3>4, <3>5 DEF RoleProgress, RoleAsAsked
  <2> QED BY <2>1, <2>2
<1>5. \A other \in Roles :
         (\A i \in DOMAIN adapters[other] : Vouched(other, adapters[other][i]))'
  <2>1. \A other \in Roles : \A a : Vouched(other, a)' <=> Vouched(other, a)
    BY <1>1 DEF Vouched, AllowlistFor
  <2> QED BY <1>2, <1>3, <2>1 DEF FInv
<1>6. step' \in {"search", "parse", "trust"}
  BY <1>1 DEF StepAfter, Roles
<1> QED BY <1>1, <1>3, <1>4, <1>5, <1>6 DEF FInv, HasRouter, AdaptersBuilt

LEMMA NextKeepsFInv == FInv /\ [FactoryNext]_allVars => FInv'
<1> SUFFICES ASSUME FInv, [FactoryNext]_allVars PROVE FInv'
  OBVIOUS
<1>1. CASE UNCHANGED allVars
  BY <1>1 DEF allVars, factoryVars, tableVars, FInv, RoleProgress, RoleAsAsked, Vouched,
              AllowlistFor, HasRouter
<1>2. CASE LoadPolicy
  <2>1. CASE \E exception : Fail(exception)
    BY <2>1, FailKeepsFInv
  <2>2. CASE ~ \E exception : Fail(exception)
    BY <1>2, <2>2, StepKeepsFInv DEF LoadPolicy, HasRouter
  <2> QED BY <2>1, <2>2
<1>3. ASSUME NEW role \in Roles, BuildRole(role) PROVE FInv'
  BY <1>3, ConstructKeepsFInv, FailKeepsFInv, RoleBuiltKeepsFInv DEF BuildRole, RoleIsNull
<1>4. CASE BuildTrust
  <2>1. CASE Fail("PolicyError")
    BY <2>1, FailKeepsFInv
  <2>2. CASE ~ Fail("PolicyError")
    BY <1>4, <2>2, StepKeepsFInv DEF BuildTrust, HasRouter
  <2> QED BY <2>1, <2>2
<1>5. CASE BuildRegistry
  <2>1. CASE \E exception : Fail(exception)
    BY <2>1, FailKeepsFInv
  <2>2. CASE ~ \E exception : Fail(exception)
    <3>1. registry' = "postgres" => call.allow_stubs
      BY <1>5, <2>2, RegistryFaultsHold DEF BuildRegistry
    <3> QED BY <1>5, <2>2, <3>1, StepKeepsFInv DEF BuildRegistry, HasRouter
  <2> QED BY <2>1, <2>2
<1>6. CASE CallRouter
  BY <1>6, StepKeepsFInv DEF CallRouter
<1>7. CASE EnterRule \/ RouterBuilt
  BY <1>7, StepKeepsFInv
     DEF EnterRule, RouterBuilt, LoadRule, factoryVars, tableVars, FInv, HasRouter
<1> QED BY <1>1, <1>2, <1>3, <1>4, <1>5, <1>6, <1>7 DEF FactoryNext

LEMMA FInvHolds == FactorySpec => []FInv
<1> QED BY InitFInv, NextKeepsFInv, PTL DEF FactorySpec

-------------------------------------------------------------------------------

\* Whatever the patterns of a policy and the hosts of the net, the guards that the
\* factory gives to the fetchers and the searcher let through what the trust strategy
\* would promote, and nothing else (factory.py, _normalize_allow; allowlist.py).
THEOREM TrustedCanBeFetched == FactorySpec => []GuardsAgree
<1>1. FInv => GuardsAgree
  <2> SUFFICES ASSUME FInv, HasRouter, trust # None, NEW url \in Url
               PROVE  /\ \A f \in PolicyGuarded("fetch") :
                            /\ UrlAllowed(f.allowlist, url) => IsTrustedUrl(trust, url)
                            /\ /\ IsTrustedUrl(trust, url)
                               /\ url.scheme = "https" /\ NamesHost(url)
                               /\ url.host \notin PrivateHosts
                               => UrlAllowed(f.allowlist, url)
                      /\ \A s \in PolicyGuarded("search") :
                            /\ HostAllowed(s.allowlist, url) => IsTrustedUrl(trust, url)
                            /\ /\ IsTrustedUrl(trust, url)
                               /\ url.scheme = "https" /\ NamesHost(url)
                               => HostAllowed(s.allowlist, url)
    BY DEF GuardsAgree
  <2>1. trust = file.allow /\ file.allow \in SUBSET Seq(Labels)
    BY DEF FInv, PolicyFile
  <2>2. \A role \in Roles : \A a \in PolicyGuarded(role) :
           a.allowlist = NormalizeAllow(file.allow)
    BY DEF PolicyGuarded, FInv, Vouched, AllowlistFor, ToSet
  <2>3. "fetch" \in Roles /\ "search" \in Roles
    BY DEF Roles
  <2>4. /\ HostAllowed(NormalizeAllow(file.allow), url) => IsTrustedUrl(file.allow, url)
        /\ IsTrustedUrl(file.allow, url) /\ url.scheme = "https" /\ NamesHost(url)
              => HostAllowed(NormalizeAllow(file.allow), url)
    BY <2>1, TrustedIsAllowed
  <2> QED BY <2>1, <2>2, <2>3, <2>4 DEF UrlAllowed
<1> QED BY <1>1, FInvHolds, PTL

\* A router has every adapter that the policy names, or the project passes in, in its
\* place, and all the rules; no fault leaves one out (factory.py, _build_role).
THEOREM BuiltWhole == FactorySpec => []BuiltAsPolicySays
<1>1. FInv => BuiltAsPolicySays
  <2> SUFFICES ASSUME FInv, HasRouter PROVE BuiltAsPolicySays
    BY DEF BuiltAsPolicySays
  <2>1. \A role \in Roles : RoleAsAsked(role)
    BY DEF FInv, HasRouter, RoleProgress, After, AdaptersBuilt, Roles
  <2>2. /\ file.require_review \in {"absent", "true"} => config.require_review
        /\ file.require_review = "false" => ~config.require_review
    BY DEF FInv, RequireReview
  <2> QED BY <2>1, <2>2 DEF FInv, BuiltAsPolicySays
<1> QED BY <1>1, FInvHolds, PTL

\* No stub reaches a router unless stubs are allowed, whatever is installed
\* (factory.py, _construct and _build_registry).
THEOREM StubsRefused == FactorySpec => []NoStubUnlessAllowed
<1>1. FInv => NoStubUnlessAllowed
  BY DEF FInv, Vouched, NoStubUnlessAllowed, HasRouter, ToSet
<1> QED BY <1>1, FInvHolds, PTL

-------------------------------------------------------------------------------
(* Which exceptions come out.                                              *)

\* What a file must have for load_policy to raise something else than PolicyError.
LEMMA LoadFaultsHold ==
    ASSUME NEW fault, fault = FirstFault(LoadFaults(file))
    PROVE  \/ fault \in {"none", "PolicyError"}
           \/ fault = "AttributeError" /\ file.nulls # {}
           \/ fault = "TypeError" /\ "escalation_rules" \in file.nulls
<1> DEFINE faults == LoadFaults(file)
           noRoles == "roles" \in file.nulls
           noRules == "escalation_rules" \in file.nulls
           noSection == file.nulls \cap {"search", "trust"} # {}
<1>1. /\ faults \in Faults
      /\ DOMAIN faults = 1..7
      /\ \A i \in {1, 2, 4, 6} : faults[i].exception = "PolicyError"
      /\ faults[3] = Fault(noRoles, "AttributeError")
      /\ faults[5] = Fault(noRules, "TypeError")
      /\ faults[7] = Fault(noSection, "AttributeError")
      /\ noRoles \in BOOLEAN /\ noRules \in BOOLEAN /\ noSection \in BOOLEAN
  BY DEF LoadFaults, IncompleteRule, Fault, Faults, Exceptions
<1> HIDE DEF faults, noRoles, noRules, noSection
<1>2. CASE \E i \in 1..7 : faults[i].holds /\ FirstFault(faults) = faults[i].exception
  <2>1. PICK i \in 1..7 : faults[i].holds /\ FirstFault(faults) = faults[i].exception
    BY <1>2
  <2>2. CASE i \in {1, 2, 4, 6}
    BY <1>1, <2>1, <2>2 DEF faults
  <2>3. CASE i = 3
    <3>1. noRoles /\ FirstFault(faults) = "AttributeError"
      BY <1>1, <2>1, <2>3, FaultHolds
    <3> QED BY <3>1 DEF faults, noRoles
  <2>4. CASE i = 5
    <3>1. noRules /\ FirstFault(faults) = "TypeError"
      BY <1>1, <2>1, <2>4, FaultHolds
    <3> QED BY <3>1 DEF faults, noRules
  <2>5. CASE i = 7
    <3>1. noSection /\ FirstFault(faults) = "AttributeError"
      BY <1>1, <2>1, <2>5, FaultHolds
    <3> QED BY <3>1 DEF faults, noSection
  <2> QED BY <2>2, <2>3, <2>4, <2>5
<1> QED BY <1>1, <1>2, FirstFaultHolds DEF faults

\* What explains an exception depends on the file and the arguments alone.
LEMMA CausesFixed ==
    ASSUME UNCHANGED <<file, call>>, OnlyKnownFaultsEscape, UNCHANGED error
    PROVE  OnlyKnownFaultsEscape'
BY DEF OnlyKnownFaultsEscape, UnregisteredAsked, BrokenAsked, ArgumentsAsked, NullRole,
       Asked, PostgresIf, LoadAdapterClass, SelectInSeq

\* The exception that a step raises is one that the policy or the arguments explain.
LEMMA FailExplained ==
    ASSUME NEW exception, Fail(exception),
           exception = "KeyError" => UnregisteredAsked,
           exception = "ImportError" => BrokenAsked,
           exception = "OtherError" => ArgumentsAsked("invalid"),
           exception = "TypeError" =>
              "escalation_rules" \in file.nulls \/ NullRole \/ ArgumentsAsked("null"),
           exception = "AttributeError" =>
              \/ file.nulls # {}
              \/ ~call.own_registry /\ PostgresIf(call.allow_stubs /\ call.dsn = "null")
    PROVE  OnlyKnownFaultsEscape'
BY DEF Fail, OnlyKnownFaultsEscape, UnregisteredAsked, BrokenAsked, ArgumentsAsked, NullRole,
       Asked, PostgresIf, LoadAdapterClass, SelectInSeq

LEMMA NextKeepsFailures ==
    FInv /\ OnlyKnownFaultsEscape /\ [FactoryNext]_allVars => OnlyKnownFaultsEscape'
<1> SUFFICES ASSUME FInv, OnlyKnownFaultsEscape, [FactoryNext]_allVars
             PROVE  OnlyKnownFaultsEscape'
  OBVIOUS
<1>1. CASE UNCHANGED <<file, call, error>>
  BY <1>1, CausesFixed
<1>2. CASE LoadPolicy /\ ~ UNCHANGED <<file, call, error>>
  <2>1. Fail(FirstFault(LoadFaults(file)))
    BY <1>2 DEF LoadPolicy
  <2> QED BY <2>1, LoadFaultsHold, FailExplained
<1>3. ASSUME NEW role \in Roles, BuildRole(role), ~ UNCHANGED <<file, call, error>>
      PROVE  OnlyKnownFaultsEscape'
  <2>1. CASE Construct(role)
    <3> DEFINE name == NextName(role)
               n == LoadAdapterClass(role, name)
               kwargs == call.credentials[name].kwargs
               fault == FirstFault(ConstructFaults(role, name))
    <3>1. Fail(fault)
      BY <1>3, <2>1 DEF Construct
    <3>2. /\ file.roles[role] \in Seq(Names) /\ file.roles[role] # None
          /\ Len(adapters[role]) < Len(file.roles[role])
          /\ adapters[role] \in Seq(Adapter)
          /\ call.injected[role] = None
      BY <2>1 DEF Construct, Unbuilt, FInv, PolicyFile
    <3>3. name \in Asked(role)
      BY <3>2 DEF NextName, ToSet, Asked
    <3>4. /\ n = 0 => UnregisteredAsked
          /\ n # 0 /\ ~EntryPoints[role][n].loads => BrokenAsked
          /\ \A k : kwargs = k => ArgumentsAsked(k)
      BY <3>3 DEF UnregisteredAsked, BrokenAsked, ArgumentsAsked
    <3>5. \/ fault \in {"none", "PolicyError"}
          \/ fault = "KeyError" /\ n = 0
          \/ fault = "ImportError" /\ n # 0 /\ ~EntryPoints[role][n].loads
          \/ fault = "TypeError" /\ kwargs = "null"
          \/ fault = "OtherError" /\ kwargs = "invalid"
      BY ConstructFaultsHold
    <3> HIDE DEF name, n, kwargs, fault
    <3> QED BY <3>1, <3>4, <3>5, FailExplained
  <2>2. CASE RoleIsNull(role)
    BY <2>2, FailExplained DEF RoleIsNull, NullRole
  <2>3. CASE RoleBuilt(role)
    BY <1>3, <2>3 DEF RoleBuilt
  <2> QED BY <1>3, <2>1, <2>2, <2>3 DEF BuildRole
<1>4. CASE BuildTrust /\ ~ UNCHANGED <<file, call, error>>
  <2>1. Fail("PolicyError")
    BY <1>4 DEF BuildTrust
  <2> QED BY <2>1, FailExplained
<1>5. CASE BuildRegistry /\ ~ UNCHANGED <<file, call, error>>
  <2> DEFINE fault == FirstFault(RegistryFaults)
  <2>1. Fail(fault) /\ fault # "none" /\ ~call.own_registry
    BY <1>5 DEF BuildRegistry
  <2>2. \/ fault \in {"none", "PolicyError"}
        \/ fault = "AttributeError" /\ PostgresIf(call.allow_stubs /\ call.dsn = "null")
    BY RegistryFaultsHold
  <2> HIDE DEF fault
  <2> QED BY <2>1, <2>2, FailExplained
<1>6. CASE CallRouter \/ EnterRule \/ RouterBuilt \/ UNCHANGED allVars
  BY <1>1, <1>6 DEF CallRouter, EnterRule, RouterBuilt, allVars, factoryVars
<1> QED BY <1>1, <1>2, <1>3, <1>4, <1>5, <1>6 DEF FactoryNext

\* What escapes untyped has one of five causes, for every file, every arguments and
\* every installation, and never lies in what the project passes in ready made
\* (policy.py, load_policy; factory.py, _construct and _build_registry).
THEOREM FailuresAreTyped == FactorySpec => []OnlyKnownFaultsEscape
<1>1. FactoryInit => OnlyKnownFaultsEscape
  BY DEF FactoryInit, OnlyKnownFaultsEscape
<1> QED BY <1>1, NextKeepsFailures, FInvHolds, PTL DEF FactorySpec

-------------------------------------------------------------------------------
(* The tables of the constructor and the list of rules.                    *)

\* The greatest member of a set of naturals is the one that none exceeds.
LEMMA MaxIs ==
    ASSUME NEW S, S \subseteq Nat, NEW m \in S, \A i \in S : m >= i
    PROVE  Max(S) = m
<1>1. Max(S) \in S /\ \A i \in S : Max(S) >= i
  BY DEF Max
<1>2. Max(S) \in Nat /\ m \in Nat
  BY <1>1
<1>3. Max(S) >= m /\ m >= Max(S)
  BY <1>1
<1> QED BY <1>2, <1>3

Answers(rule, kind, from, on) == rule.kind = kind /\ rule.on = on /\ KeyFrom(rule) = from

\* The last rule of a list overrides every earlier one with its key, and no other.
LEMMA LookupAppend ==
    ASSUME NEW rules \in Seq(EscalationRule), NEW rule \in EscalationRule,
           NEW kind, NEW from, NEW on
    PROVE  Lookup(Append(rules, rule), kind, from, on) =
              IF Answers(rule, kind, from, on) THEN rule.to
              ELSE Lookup(rules, kind, from, on)
<1> DEFINE more == Append(rules, rule)
           n == Len(rules)
           I == {i \in 1..n : Answers(rules[i], kind, from, on)}
           J == {i \in 1..Len(more) : Answers(more[i], kind, from, on)}
<1>1. /\ Len(more) = n + 1 /\ n \in Nat /\ more[n + 1] = rule
      /\ \A i \in 1..n : more[i] = rules[i]
  OBVIOUS
<1>2. /\ Lookup(rules, kind, from, on) = IF I = {} THEN None ELSE rules[Max(I)].to
      /\ Lookup(more, kind, from, on) = IF J = {} THEN None ELSE more[Max(J)].to
  <2>1. /\ I # {} => Max(I) \in I
        /\ J # {} => Max(J) \in J
    <3>1. I \subseteq 1..n /\ J \subseteq 1..(n + 1) /\ n \in Nat /\ n + 1 \in Nat
      BY <1>1
    <3> HIDE DEF I, J, n, more
    <3> QED BY <3>1, MaxInSet
  <2>2. 0 \notin I /\ 0 \notin J
    BY <1>1
  <2>3. /\ SelectLastInSeq(rules, LAMBDA r : /\ r.kind = kind
                                             /\ r.on = on
                                             /\ KeyFrom(r) = from)
             = IF I # {} THEN Max(I) ELSE 0
        /\ SelectLastInSeq(more, LAMBDA r : /\ r.kind = kind
                                            /\ r.on = on
                                            /\ KeyFrom(r) = from)
             = IF J # {} THEN Max(J) ELSE 0
    BY DEF SelectLastInSeq, Answers
  <2> HIDE DEF I, J, n, more
  <2> QED BY <2>1, <2>2, <2>3 DEF Lookup
<1>3. CASE Answers(rule, kind, from, on)
  <2>1. n + 1 \in J /\ J \subseteq Nat /\ \A i \in J : n + 1 >= i
    BY <1>1, <1>3
  <2>2. Max(J) = n + 1
    <3> HIDE DEF J, n, more
    <3> QED BY <2>1, MaxIs
  <2> HIDE DEF J, n, more
  <2> QED BY <1>1, <1>2, <1>3, <2>1, <2>2 DEF more
<1>4. CASE ~ Answers(rule, kind, from, on)
  <2>1. J = I
    BY <1>1, <1>4
  <2>2. I # {} => more[Max(I)] = rules[Max(I)]
    <3>1. I \subseteq 1..n /\ n \in Nat
      BY <1>1
    <3>2. I # {} => Max(I) \in 1..n
      <4> HIDE DEF I, n
      <4> QED BY <3>1, MaxInSet
    <3> HIDE DEF I, n, more
    <3> QED BY <1>1, <3>2
  <2> HIDE DEF I, J, n, more
  <2> QED BY <1>2, <1>4, <2>1, <2>2 DEF more
<1> QED BY <1>3, <1>4

\* A dictionary answers with what was last entered under a key.
LEMMA GetEnter ==
    ASSUME NEW table, NEW rule, NEW from, NEW on
    PROVE  Get(Enter(table, rule), <<from, on>>) =
              IF rule.on = on /\ KeyFrom(rule) = from THEN rule.to
              ELSE Get(table, <<from, on>>)
<1>1. <<from, on>> = <<KeyFrom(rule), rule.on>> <=> rule.on = on /\ KeyFrom(rule) = from
  OBVIOUS
<1> QED BY <1>1 DEF Get, Enter

\* The rules entered so far.
Entered == SubSeq(config.rules, 1, loaded)

\* Under every key the tables hold what the rules entered so far say.
TablesRead ==
    \A from \in Names \cup {Wildcard} :
        /\ \A e \in ErrorType :
              Get(error_escalations, <<from, e>>) = Lookup(Entered, "error", from, e)
        /\ \A mime \in MimeTypes :
              Get(content_type_escalations, <<from, mime>>)
                  = Lookup(Entered, "content_type", from, mime)

\* A policy that was loaded has no incomplete rule, and before the constructor is
\* called its tables are empty.
TInv ==
    /\ step \notin {"load", "failed"} => None \notin ToSet(file.escalation_rules)
    /\ ~HasRouter => /\ config = NoRouter /\ loaded = 0
                     /\ error_escalations = <<>> /\ content_type_escalations = <<>>
    /\ config \in RouterRecord
    /\ loaded \in 0..Len(config.rules)
    /\ registry \in {"none", "memory", "postgres", "injected"}
    /\ error \in {"none"} \cup Exceptions
    /\ error # "none" <=> step = "failed"
    /\ TablesRead

\* Before a rule is entered the tables and the list say nothing.
LEMMA NothingEntered ==
    ASSUME loaded = 0, error_escalations = <<>>, content_type_escalations = <<>>
    PROVE  TablesRead
<1>1. Len(Entered) = 0
  BY DEF Entered
<1>2. \A kind, from, on : Lookup(Entered, kind, from, on) = None
  BY <1>1 DEF Lookup, SelectLastInSeq
<1>3. \A key : Get(<<>>, key) = None
  BY DEF Get
<1> QED BY <1>2, <1>3 DEF TablesRead

LEMMA InitTInv == FactoryInit => TInv
<1> SUFFICES ASSUME FactoryInit PROVE TInv
  OBVIOUS
<1>1. config = NoRouter /\ loaded = 0
      /\ error_escalations = <<>> /\ content_type_escalations = <<>>
  BY DEF FactoryInit, TableInit
<1>2. NoRouter \in RouterRecord /\ NoRouter.rules = <<>>
  BY DEF NoRouter, RouterRecord
<1>3. TablesRead
  BY <1>1, <1>2, NothingEntered
<1> QED BY <1>1, <1>2, <1>3 DEF FactoryInit, TInv, HasRouter

\* Entering the next rule keeps the tables and the list in agreement.
LEMMA EnterKeepsTables ==
    ASSUME TInv, LoadRule
    PROVE  TablesRead'
<1> DEFINE rule == config.rules[loaded + 1]
<1>1. /\ config.rules \in Seq(EscalationRule) /\ loaded + 1 \in 1..Len(config.rules)
      /\ loaded \in Nat
  BY DEF TInv, RouterRecord, LoadRule
<1>2. rule \in EscalationRule
  BY <1>1
<1>3. /\ Entered \in Seq(EscalationRule)
      /\ Entered' = Append(Entered, rule)
  <2>1. UNCHANGED config /\ loaded' = loaded + 1
    BY DEF LoadRule
  <2>2. SubSeq(config.rules, 1, loaded + 1) = Append(SubSeq(config.rules, 1, loaded), rule)
    BY <1>1
  <2> QED BY <1>1, <2>1, <2>2 DEF Entered
<1>4. ASSUME NEW kind, NEW from, NEW on
      PROVE  Lookup(Entered', kind, from, on) =
                IF Answers(rule, kind, from, on) THEN rule.to
                ELSE Lookup(Entered, kind, from, on)
  <2> HIDE DEF rule
  <2> QED BY <1>2, <1>3, LookupAppend
<1>5. CASE /\ rule.kind = "content_type"
           /\ content_type_escalations' = Enter(content_type_escalations, rule)
           /\ UNCHANGED error_escalations
  <2> HIDE DEF rule
  <2> QED BY <1>4, <1>5, GetEnter DEF TInv, TablesRead, Answers
<1>6. CASE /\ rule.kind = "error"
           /\ error_escalations' = Enter(error_escalations, rule)
           /\ UNCHANGED content_type_escalations
  <2> HIDE DEF rule
  <2> QED BY <1>4, <1>6, GetEnter DEF TInv, TablesRead, Answers
<1> QED BY <1>5, <1>6 DEF LoadRule

\* What load_policy accepts has no rule that lacks a key.
LEMMA LoadedIsComplete ==
    ASSUME FirstFault(LoadFaults(file)) = "none"
    PROVE  None \notin ToSet(file.escalation_rules)
<1> DEFINE faults == LoadFaults(file)
           incomplete == None \in ToSet(file.escalation_rules)
<1>1. /\ faults \in Faults
      /\ DOMAIN faults = 1..7
      /\ faults[6] = Fault(incomplete, "PolicyError")
      /\ incomplete \in BOOLEAN
  BY DEF LoadFaults, IncompleteRule, Fault, Faults, Exceptions
<1>2. \A i \in 1..7 : faults[i].exception # "none"
  <2> HIDE DEF faults
  <2> TAKE i \in 1..7
  <2>1. faults[i] \in [holds : BOOLEAN, exception : Exceptions]
    <3>1. \A T : faults \in Seq(T) => \A k \in DOMAIN faults : faults[k] \in T
      OBVIOUS
    <3> QED BY <1>1, <3>1 DEF Faults
  <2>2. faults[i].exception \in Exceptions
    BY <2>1
  <2> QED BY <2>2 DEF Exceptions
<1>3. ~faults[6].holds
  <2> HIDE DEF faults
  <2> QED BY <1>1, <1>2, FirstFaultHolds DEF faults
<1> HIDE DEF faults, incomplete
<1>4. faults[6].holds = incomplete
  BY <1>1 DEF Fault
<1> QED BY <1>3, <1>4 DEF incomplete

\* A fault is met before there is a router, and is one of those exceptions.
LEMMA FailKeepsTInv ==
    ASSUME TInv, ~HasRouter, NEW exception \in Exceptions, Fail(exception)
    PROVE  TInv'
<1>1. TablesRead'
  BY DEF TInv, Fail, tableVars, TablesRead, Entered
<1> QED BY <1>1 DEF TInv, Fail, tableVars, HasRouter, Exceptions

\* The build goes on and the constructor has not been called, or is done.
LEMMA StepKeepsTInv ==
    ASSUME TInv, UNCHANGED <<file, error, tableVars>>,
           step # "failed", step' # "failed", HasRouter' <=> HasRouter,
           registry' \in {"none", "memory", "postgres", "injected"},
           step = "load" /\ step' # "load" => None \notin ToSet(file.escalation_rules)
    PROVE  TInv'
<1>1. TablesRead'
  BY DEF TInv, tableVars, TablesRead, Entered
<1> QED BY <1>1 DEF TInv, tableVars

\* What the router is given is of its types.
LEMMA CallRouterKeepsTInv ==
    ASSUME FInv, TInv, CallRouter
    PROVE  TInv'
<1>1. step = "router" /\ step' = "rules" /\ ~HasRouter /\ HasRouter'
  BY DEF CallRouter, HasRouter
<1>2. /\ adapters["fetch"] \in Seq(Adapter)
      /\ adapters["search"] \in Seq(Adapter)
      /\ adapters["parse"] \in Seq(Adapter)
  BY DEF FInv, Roles
<1>3. \A list \in Seq(Adapter) : NamesOf(list) \in Seq(Names)
  <2> TAKE list \in Seq(Adapter)
  <2>1. DOMAIN list = 1..Len(list) /\ Len(list) \in Nat
    OBVIOUS
  <2>2. \A i \in 1..Len(list) : list[i] \in Adapter
    OBVIOUS
  <2>3. \A i \in 1..Len(list) : list[i].name \in Names
    BY <2>2 DEF Adapter
  <2> QED BY <2>1, <2>3 DEF NamesOf
<1>4. file.escalation_rules \in Seq(EscalationRule)
  <2>1. /\ file.escalation_rules \in Seq(EscalationRule \cup {None})
        /\ None \notin ToSet(file.escalation_rules)
    BY <1>1 DEF FInv, TInv, PolicyFile
  <2> QED BY <2>1 DEF ToSet
<1>5. RequireReview(file) \in BOOLEAN
  BY DEF RequireReview
<1>6. config' \in RouterRecord
  BY <1>2, <1>3, <1>4, <1>5 DEF CallRouter, RouterRecord
<1>7. loaded' = 0 /\ error_escalations' = <<>> /\ content_type_escalations' = <<>>
  BY <1>1 DEF CallRouter, TInv
<1>8. TablesRead'
  <2>1. Len(Entered') = 0
    BY <1>7 DEF Entered
  <2>2. \A kind, from, on : Lookup(Entered', kind, from, on) = None
    BY <2>1 DEF Lookup, SelectLastInSeq
  <2>3. \A key : Get(<<>>, key) = None
    BY DEF Get
  <2> QED BY <1>7, <2>2, <2>3 DEF TablesRead
<1>9. 0 \in 0..Len(config'.rules)
  BY <1>6 DEF RouterRecord
<1> QED BY <1>1, <1>6, <1>7, <1>8, <1>9 DEF CallRouter, TInv

LEMMA NextKeepsTInv == FInv /\ TInv /\ [FactoryNext]_allVars => TInv'
<1> SUFFICES ASSUME FInv, TInv, [FactoryNext]_allVars PROVE TInv'
  OBVIOUS
<1>1. CASE UNCHANGED allVars
  BY <1>1 DEF allVars, factoryVars, tableVars, TInv, HasRouter, TablesRead, Entered
<1>2. CASE LoadPolicy
  <2> DEFINE fault == FirstFault(LoadFaults(file))
  <2>1. step = "load" /\ ~HasRouter
    BY <1>2 DEF LoadPolicy, HasRouter
  <2>2. CASE fault # "none" /\ Fail(fault)
    <3>1. fault \in Exceptions
      BY <2>2, LoadFaultsHold DEF Exceptions
    <3> HIDE DEF fault
    <3> QED BY <2>1, <2>2, <3>1, FailKeepsTInv
  <2>3. CASE /\ fault = "none" /\ step' = "fetch"
             /\ UNCHANGED <<file, call, adapters, trust, registry, error, tableVars>>
    <3>1. None \notin ToSet(file.escalation_rules)
      BY <2>3, LoadedIsComplete
    <3>2. registry' \in {"none", "memory", "postgres", "injected"}
      BY <2>3 DEF TInv
    <3> QED BY <2>1, <2>3, <3>1, <3>2, StepKeepsTInv DEF HasRouter
  <2> QED BY <1>2, <2>2, <2>3 DEF LoadPolicy
<1>3. ASSUME NEW role \in Roles, BuildRole(role) PROVE TInv'
  <2>1. step = role /\ step \in Roles /\ ~HasRouter
    BY <1>3 DEF BuildRole, Construct, Unbuilt, RoleIsNull, RoleBuilt, HasRouter, Roles
  <2>2. ASSUME Construct(role), NEW fault,
               fault = FirstFault(ConstructFaults(role, NextName(role))),
               fault # "none", Fail(fault)
        PROVE  TInv'
    <3>1. fault \in Exceptions
      BY <2>2, ConstructFaultsHold DEF Exceptions
    <3> QED BY <2>1, <2>2, <3>1, FailKeepsTInv
  <2>3. CASE RoleIsNull(role)
    BY <2>1, <2>3, FailKeepsTInv DEF RoleIsNull, Exceptions
  <2>4. CASE UNCHANGED <<file, registry, error, tableVars>> /\ step' \in {step, StepAfter[role]}
    <3>1. /\ step \notin {"load", "failed"} /\ step' \notin {"failed", "load"}
          /\ ~HasRouter'
      BY <2>1, <2>4 DEF Roles, StepAfter, HasRouter
    <3>2. registry' \in {"none", "memory", "postgres", "injected"}
      BY <2>4 DEF TInv
    <3> QED BY <2>1, <2>4, <3>1, <3>2, StepKeepsTInv
  <2> QED BY <1>3, <2>2, <2>3, <2>4 DEF BuildRole, Construct, RoleBuilt
<1>4. CASE BuildTrust \/ BuildRegistry
  <2>1. step \in {"trust", "registry"} /\ ~HasRouter
    BY <1>4 DEF BuildTrust, BuildRegistry, HasRouter
  <2>2. CASE \E exception \in Exceptions : Fail(exception)
    BY <2>1, <2>2, FailKeepsTInv
  <2>3. CASE ~ \E exception \in Exceptions : Fail(exception)
    <3>1. /\ UNCHANGED <<file, error, tableVars>> /\ step' \in {"registry", "router"}
          /\ registry' \in {registry, "memory", "postgres", "injected"}
      BY <1>4, <2>3, RegistryFaultsHold DEF BuildTrust, BuildRegistry, Exceptions
    <3>2. registry' \in {"none", "memory", "postgres", "injected"}
      BY <3>1 DEF TInv
    <3> QED BY <2>1, <3>1, <3>2, StepKeepsTInv DEF HasRouter
  <2> QED BY <2>2, <2>3
<1>5. CASE CallRouter
  BY <1>5, CallRouterKeepsTInv
<1>6. CASE EnterRule
  <2>1. TablesRead'
    BY <1>6, EnterKeepsTables DEF EnterRule
  <2>2. loaded' \in 0..Len(config'.rules)
    BY <1>6 DEF EnterRule, LoadRule, TInv, RouterRecord
  <2> QED BY <1>6, <2>1, <2>2 DEF EnterRule, LoadRule, TInv, factoryVars, HasRouter
<1>7. CASE RouterBuilt
  <2>1. registry' \in {"none", "memory", "postgres", "injected"}
    BY <1>7 DEF RouterBuilt, TInv
  <2> QED BY <1>7, <2>1, StepKeepsTInv DEF RouterBuilt, HasRouter
<1> QED BY <1>1, <1>2, <1>3, <1>4, <1>5, <1>6, <1>7 DEF FactoryNext

LEMMA TInvHolds == FactorySpec => []TInv
<1> QED BY InitTInv, NextKeepsTInv, FInvHolds, PTL DEF FactorySpec

\* Every variable has its type for every policy file and every installation, and a
\* router exists only without an error (factory.py, build_router).
THEOREM BuildTyped == FactorySpec => []FactoryTypeOK
<1>1. FInv /\ TInv => FactoryTypeOK
  BY DEF FInv, TInv, FactoryTypeOK, Roles, AdaptersBuilt, Exceptions
<1> QED BY <1>1, FInvHolds, TInvHolds, PTL

\* After every rule, and however the rules overlap, shadow or repeat one another, the
\* two dictionaries answer as the list read so far does (core/router.py, __init__).
THEOREM TablesAnswer == FactorySpec => []TablesFollowRules
<1>1. TInv => TablesFollowRules
  BY DEF TInv, TablesRead, TablesFollowRules, Entered, GetEither, Target
<1> QED BY <1>1, TInvHolds, PTL

===============================================================================
