-------------------------------- MODULE Domains --------------------------------
(***************************************************************************)
(* Which hosts a list of patterns stands for: the trust strategy           *)
(* (trust/allowlist.py), the guards of the fetchers and of the searcher    *)
(* (fetch/httpx_adapter.py, fetch/firecrawl_adapter.py,                    *)
(* search/exa_adapter.py), and the list the factory hands to the latter.   *)
(*                                                                         *)
(* A name is the sequence of its labels, name.split("."): "" is <<"">>, a  *)
(* rooted name ends in the label "", and host == d or                      *)
(* host.endswith("." + d) says that d is a suffix of host.  A pattern has  *)
(* stars only as labels of their own.                                      *)
(***************************************************************************)
EXTENDS Integers, Sequences, SequencesExt

CONSTANTS
    Labels,       \* what names and patterns are made of
    Hosts,        \* the host names that occur in URLs
    PrivateHosts  \* those that are or resolve to a private address

Star == "*"

Blank == ""

EmptyName == <<Blank>>

NoHost == <<>>

ASSUME DomainsAssumption ==
    /\ {Star, Blank} \subseteq Labels
    /\ Hosts \subseteq Seq(Labels) \ {NoHost, EmptyName}
    /\ PrivateHosts \subseteq Hosts

\* What urlparse tells of a URL.
Url == [scheme : {"https", "http"}, host : Hosts \cup {NoHost}]

\* pattern.lstrip("*.")
Strip(pattern) ==
    LET first == SelectInSeq(pattern, LAMBDA label : label \notin {Star, Blank})
    IN  IF first = 0 THEN EmptyName ELSE SubSeq(pattern, first, Len(pattern))

Matches(domains, host) == \E d \in domains : IsSuffix(d, host)

\* AllowlistTrust strips its patterns itself, and looks at nothing but the host.
IsTrustedUrl(allow, url) ==
    Matches({Strip(pattern) : pattern \in allow},
            IF url.host = NoHost THEN EmptyName ELSE url.host)

\* Mutant: patterns are handed on as they stand.
NormalizeAllowLiteral(allow) == allow \ {EmptyName}

NormalizeAllow(allow) == {Strip(pattern) : pattern \in allow} \ {EmptyName}

\* The searcher keeps a row only if its host is in its allowlist, taken literally.
HostAllowed(domains, url) ==
    /\ url.scheme = "https"
    /\ url.host # NoHost
    /\ Matches(domains, url.host)

\* The fetchers also refuse a private host.
UrlAllowed(domains, url) ==
    HostAllowed(domains, url) /\ url.host \notin PrivateHosts

===============================================================================
