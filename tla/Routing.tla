-------------------------------- MODULE Routing --------------------------------
(***************************************************************************)
(* How the client reads a destination and decides between the direct path  *)
(* and the tunnel, and how the server's filter reads it again: the string  *)
(* handling of HostPattern, GeoSiteMatcher, should_bypass, both front ends *)
(* and is_dest_allowed, the loaders of the rule files, and, below, what    *)
(* the rules are documented to mean.                                       *)
(*                                                                         *)
(* A text is a sequence of characters; a port number, a label's syllable   *)
(* and an IPv4 literal, which nothing here looks into, are one character.  *)
(***************************************************************************)
EXTENDS Integers, SequencesExt

NoPort == 0
Ports == [t \in {"80", "443", "1"} |->
            CASE t = "80" -> 80 [] t = "443" -> 443 [] OTHER -> 1]

\* str::parse::<u16>: NoPort when it fails.
PortOf(t) == IF Len(t) = 1 /\ t[1] \in DOMAIN Ports THEN Ports[t[1]] ELSE NoPort

\* Address literals and the address each stands for (str::parse::<IpAddr>).
Literals ==
  [t \in {<<"10.0.0.1">>, <<"127.0.0.1">>, <<"9.9.9.9">>,
          <<":", ":", "1">>, <<"2", ":", ":", "1">>} |->
     CASE t = <<"10.0.0.1">>     -> [v |-> 4, class |-> "private"]
       [] t = <<"127.0.0.1">>    -> [v |-> 4, class |-> "loopback"]
       [] t = <<"9.9.9.9">>      -> [v |-> 4, class |-> "global"]
       [] t = <<":", ":", "1">>  -> [v |-> 6, class |-> "loopback"]
       [] OTHER                  -> [v |-> 6, class |-> "global"]]

Lower(t) == [i \in DOMAIN t |-> IF t[i] = "A" THEN "a" ELSE t[i]]
Includes(t, s) == \E i \in 0..(Len(t) - Len(s)) : SubSeq(t, i + 1, i + Len(s)) = s

\* The characters there are, a text without some of them, and a name: a sequence
\* of labels without dots, and without these characters either.
Char == {":", "[", "]", ".", "*", "a", "A", "b", "1", "2", "80", "443",
         "10.0.0.1", "127.0.0.1", "9.9.9.9"}
Without(t, chars) == \A i \in 1..Len(t) : t[i] \notin chars
IsName(labels, chars) ==
  /\ labels \in Seq(Seq(Char)) /\ labels # <<>>
  /\ \A i \in 1..Len(labels) : Without(labels[i], {"."} \cup chars)

\* A name, a sequence of labels, as it is written.
Name(labels) == Tail(FlattenSeq([i \in DOMAIN labels |-> <<".">> \o labels[i]]))

\* rsplit_once(':') and rfind(':'): the last colon, 0 without one.
LastColon(t) == Max({0} \cup {i \in DOMAIN t : t[i] = ":"})
Before(t, i) == SubSeq(t, 1, i - 1)
After(t, i)  == SubSeq(t, i + 1, Len(t))

\* trim_matches of '[' and ']'.
Trimmed(t) ==
  LET inner == {i \in DOMAIN t : t[i] \notin {"[", "]"}}
  IN IF inner = {} THEN <<>> ELSE SubSeq(t, Min(inner), Max(inner))

-----------------------------------------------------------------------------
(* HostPattern.                                                            *)

Parse(s) ==
  LET l == Lower(s)  c == LastColon(l)  port == PortOf(After(l, c)) IN
  IF c # 0 /\ port # NoPort
  THEN [host |-> Before(l, c), port |-> port]
  ELSE [host |-> l, port |-> NoPort]

\* Mutant of Matches: the character before the suffix is not looked at.
MatchesSuffix(p, host, port) ==
  /\ p.port \in {NoPort, port}
  /\ IF IsPrefix(<<"*", ".">>, p.host)
     THEN LET suffix == After(p.host, 2) IN
          IsSuffix(suffix, host) /\ Len(host) > Len(suffix)
     ELSE p.host = host

Matches(p, host, port) ==
  /\ p.port \in {NoPort, port}
  /\ IF IsPrefix(<<"*", ".">>, p.host)
     THEN LET suffix == After(p.host, 2) IN
          /\ IsSuffix(suffix, host)
          /\ Len(host) > Len(suffix)
          /\ host[Len(host) - Len(suffix)] = "."
     ELSE p.host = host

-----------------------------------------------------------------------------
(* The rule files.  A file is absent, garbage, or maps tags to entries.    *)

Failed == [ok |-> FALSE]
Loaded(value) == [ok |-> TRUE, value |-> value]

Absent  == [state |-> "absent"]
Garbage == [state |-> "garbage"]
Dat(entries) == [state |-> "ok", entries |-> entries]

Entries(file, tags) == UNION {file.entries[t] : t \in tags}

\* The types of a geosite entry: Plain, Regex, Domain, Full.  Every value is put
\* in lower case; that of a Regex is then compiled, which can fail.  The
\* expressions here have no operators, and one of those matches as a substring
\* does.
LoadGeosite(file, tags) ==
  IF file.state # "ok" \/ ~(tags \subseteq DOMAIN file.entries)
     \/ \E e \in Entries(file, tags) : e.type = 1 /\ ~e.compiles
  THEN Failed
  ELSE LET ofType(n) == {Lower(Name(e.name)) : e \in {x \in Entries(file, tags) : x.type = n}} IN
       Loaded([domains  |-> {<<".">> \o v : v \in ofType(2)},
               fulls    |-> ofType(3),
               keywords |-> ofType(0),
               regexes  |-> ofType(1)])

MatchesGeosite(m, host) ==
  \/ host \in m.fulls
  \/ \E k \in m.keywords : Includes(host, k)
  \/ \E d \in m.domains : host = Tail(d) \/ IsSuffix(d, host)
  \/ \E r \in m.regexes : Includes(host, r)

\* A geoip entry: the number of bytes of the address, the prefix length (a u32
\* cut to a u8), and the addresses it covers.
LoadGeoip(file, tags) ==
  IF file.state # "ok" \/ ~(tags \subseteq DOMAIN file.entries)
     \/ \E c \in Entries(file, tags) : ~(c.bytes \in {4, 16} /\ c.prefix % 256 <= 8 * c.bytes)
  THEN Failed
  ELSE Loaded({[v |-> IF c.bytes = 4 THEN 4 ELSE 6, class |-> c.class] :
                 c \in Entries(file, tags)})

-----------------------------------------------------------------------------
(* RoutingConfig.                                                          *)

ShouldBypass(rules, host, port) ==
  LET h == Lower(host) IN
  /\ ~\E p \in rules.proxy : Matches(p, h, port)
  /\ \/ \E p \in rules.bypass : Matches(p, h, port)
     \/ \E m \in rules.geosite : MatchesGeosite(m, h)
     \/ h \in DOMAIN Literals /\ Literals[h] \in rules.cidrs

-----------------------------------------------------------------------------
(* The destination in the front ends and in the server's filter.           *)

\* The value of a Host line: a port is appended when there is no colon.
HttpDest(value) == IF LastColon(value) = 0 THEN value \o <<":", "80">> ELSE value

\* A SOCKS5 request: an IPv6 address (ATYP 4) is written in brackets.  The text
\* of one does not come as a domain (ATYP 3), which would be taken as it is.
SocksDest(host, port) ==
  (IF host \in DOMAIN Literals /\ Literals[host].v = 6
   THEN <<"[">> \o host \o <<"]">> ELSE host) \o <<":", port>>

PortOr80(t) == IF PortOf(t) = NoPort THEN 80 ELSE PortOf(t)

\* Host and port for the rules: as the HTTP handlers and as split_host_port
\* take them apart.
HttpTarget(dest) ==
  LET c == LastColon(dest) IN
  IF c = 0 THEN [host |-> dest, port |-> 80]
  ELSE [host |-> Before(dest, c), port |-> PortOr80(After(dest, c))]

SplitHostPort(dest) ==
  LET c == LastColon(dest) IN
  IF c = 0 THEN [host |-> dest, port |-> 80]
  ELSE [host |-> Trimmed(Before(dest, c)), port |-> PortOr80(After(dest, c))]

IsPublicIp(ip) ==
  ip.class \notin (IF ip.v = 4 THEN {"loopback", "private", "link_local", "unspecified"}
                   ELSE {"loopback", "unspecified", "multicast"})

\* Mutant of IsDestAllowed: the brackets stay on.
IsDestAllowedBracketed(dest) ==
  LET c == LastColon(dest)
      host == IF c = 0 THEN dest ELSE Before(dest, c)
  IN host \in DOMAIN Literals => IsPublicIp(Literals[host])

IsDestAllowed(dest) ==
  LET c == LastColon(dest)
      host == IF c = 0 THEN dest ELSE Trimmed(Before(dest, c))
  IN host \in DOMAIN Literals => IsPublicIp(Literals[host])

-----------------------------------------------------------------------------
(* What the rules are documented to mean, without any text: a name is a    *)
(* sequence of labels, a rule is about a name or about all its subdomains. *)

Written(rule) ==
  (IF rule.wild THEN <<"*", ".">> ELSE <<>>) \o Name(rule.name)
    \o (IF rule.port = "" THEN <<>> ELSE <<":", rule.port>>)

\* Letters in either case are the same.
Fold(labels) == [i \in DOMAIN labels |-> Lower(labels[i])]

\* `name` any port or that one, `*.name` any subdomain but not the apex.
Covers(rule, labels, port) ==
  LET name == Fold(rule.name) IN
  /\ rule.port \in {"", port}
  /\ IF rule.wild
     THEN IsSuffix(name, Fold(labels)) /\ Len(labels) > Len(name)
     ELSE name = Fold(labels)

\* The kinds of geosite rules: Domain, Full, Plain and Regex.
SiteCovers(site, labels) ==
  CASE site.type = 2 -> IsSuffix(Fold(site.name), Fold(labels))
    [] site.type = 3 -> Fold(site.name) = Fold(labels)
    [] site.type \in {0, 1} -> Includes(Name(Fold(labels)), Name(Fold(site.name)))
    [] OTHER -> FALSE

\* A geoip rule covers addresses of its own version.
IpCovers(cidr, t) ==
  t \in DOMAIN Literals /\ Literals[t] = [v |-> IF cidr.bytes = 4 THEN 4 ELSE 6, class |-> cidr.class]
=============================================================================
