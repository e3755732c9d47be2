----------------------------- MODULE ClientProcess -----------------------------
(***************************************************************************)
(* The client from the start of main: options and config file, the rule    *)
(* files, the listeners, and the connections they accept.  An Option of    *)
(* the code is a set with at most one element.                             *)
(***************************************************************************)
EXTENDS Routing, Listeners

CONSTANTS
  Setups   \* bound: command lines, config files and files on disk

\* A file names at most one rule file of each kind.
ASSUME SetupsAssumption ==
  \A u \in Setups : u.file = "ok" =>
    /\ \A f, g \in u.section.geosite : f = g
    /\ \A f, g \in u.section.geoip : f = g

\* Rules are written with names: a label of a pattern holds no colon and no
\* asterisk, which would be read as a port and as a wildcard.
NamesSites(file) ==
  file.state = "ok" =>
    \A tag \in DOMAIN file.entries : \A e \in file.entries[tag] : IsName(e.name, {})

ASSUME NamesAssumption ==
  \A u \in Setups :
    /\ NamesSites(u.disk.geosite)
    /\ u.file = "ok" =>
         /\ \A f \in u.section.geosite : NamesSites(f)
         /\ \A r \in u.section.proxy \cup u.section.bypass :
              /\ r.wild \in BOOLEAN /\ r.port \in {""} \cup DOMAIN Ports
              /\ IsName(r.name, {":", "*"})

VARIABLES
  phase,   \* config, geosite, geoip, bind, run or exit
  setup,   \* what the process was started with
  rules    \* RoutingConfig

vars == <<phase, setup, rules, listenerVars>>

\* ClientSection::default(): no option is set, no rules, no files, no tags.
NoSection ==
  [sets |-> {}, proxy |-> {}, bypass |-> {},
   geosite |-> {}, geosite_tags |-> {}, geoip |-> {}, geoip_tags |-> {}]

NoRules == [proxy |-> {}, bypass |-> {}, geosite |-> {}, cidrs |-> {}]

\* load_file_config: a file that is missing or does not parse counts as empty.
Section == IF setup.file = "ok" THEN setup.section ELSE NoSection

\* The options that have a value, from the command line or from the file.
Set == setup.cli \cup Section.sets

Init ==
  /\ phase = "config"
  /\ setup \in Setups
  /\ rules = NoRules
  /\ ListenersInit

\* The start of main, and the patterns of build_routing.
ReadConfig ==
  /\ phase = "config"
  /\ phase' = IF {"endpoint", "user"} \subseteq Set THEN "geosite" ELSE "exit"
  /\ rules' = [rules EXCEPT !.proxy = {Parse(Written(r)) : r \in Section.proxy},
                            !.bypass = {Parse(Written(r)) : r \in Section.bypass}]
  /\ UNCHANGED <<setup, listenerVars>>

Tags(configured) == IF configured = {} THEN {"cn", "private"} ELSE UNION configured

\* Mutant of DatOrDefault: a configured file is optional too.
DatOrDefaultLax(configured, default) ==
  IF configured # {} THEN [file |-> configured, required |-> FALSE]
  ELSE [file |-> {f \in {default} : f.state # "absent"}, required |-> FALSE]

\* dat_path_or_default: a configured file is required, the default one is used
\* if it is there.
DatOrDefault(configured, default) ==
  IF configured # {} THEN [file |-> configured, required |-> TRUE]
  ELSE [file |-> {f \in {default} : f.state # "absent"}, required |-> FALSE]

LoadSites ==
  /\ phase = "geosite"
  /\ LET dat == DatOrDefault(Section.geosite, setup.disk.geosite)
         results == {LoadGeosite(f, Tags(Section.geosite_tags)) : f \in dat.file}
     IN /\ phase' = IF Failed \in results /\ dat.required THEN "exit" ELSE "geoip"
        /\ rules' = [rules EXCEPT !.geosite = {r.value : r \in results \ {Failed}}]
  /\ UNCHANGED <<setup, listenerVars>>

LoadIps ==
  /\ phase = "geoip"
  /\ LET dat == DatOrDefault(Section.geoip, setup.disk.geoip)
         results == {LoadGeoip(f, Tags(Section.geoip_tags)) : f \in dat.file}
     IN /\ phase' = IF Failed \in results /\ dat.required THEN "exit" ELSE "bind"
        /\ rules' = [rules EXCEPT !.cidrs = UNION {r.value : r \in results \ {Failed}}]
  /\ UNCHANGED <<setup, listenerVars>>

\* Both listeners are bound, or main panics.  Options and file are used up.
Bind ==
  /\ phase = "bind"
  /\ \/ phase' = "run" /\ Listen("socks_port" \in Set)
     \/ phase' = "exit" /\ UNCHANGED listenerVars
  /\ setup' = [cli |-> {}, file |-> "used"]
  /\ UNCHANGED rules

\* run_proxy_resilient; when it returns the process ends.
Run ==
  /\ phase = "run"
  /\ \/ Serve /\ UNCHANGED phase
     \/ HttpStops /\ phase' = "exit"
  /\ UNCHANGED <<setup, rules>>

Next == ReadConfig \/ LoadSites \/ LoadIps \/ Bind \/ Run

Spec == Init /\ [][Next]_vars

-----------------------------------------------------------------------------
(* Properties.  The rules are final when the listeners are bound.          *)

\* What the rules are tried on: names of up to three labels over two
\* syllables, one of them in both cases, and address literals; and ports.
Labels  == {<<"a">>, <<"A">>, <<"b", "a">>}
Names   == (UNION {[1..k -> Labels] : k \in 1..3}) \cup {<<t>> : t \in DOMAIN Literals}
PortSet == {"80", "443"}

\* The rule file that counts: the configured one, else the default one.
Source(configured, default) == IF configured # {} THEN configured ELSE {default}

\* The direct path for a destination, as the README lists the rules and their
\* order; a default file that cannot be used has no rules.
Direct(labels, port) ==
  LET siteTags == Tags(Section.geosite_tags)
      ipTags == Tags(Section.geoip_tags)
  IN /\ ~\E r \in Section.proxy : Covers(r, labels, port)
     /\ \/ \E r \in Section.bypass : Covers(r, labels, port)
        \/ \E f \in Source(Section.geosite, setup.disk.geosite) :
             LoadGeosite(f, siteTags).ok /\ \E s \in Entries(f, siteTags) : SiteCovers(s, labels)
        \/ \E f \in Source(Section.geoip, setup.disk.geoip) :
             LoadGeoip(f, ipTags).ok /\ \E c \in Entries(f, ipTags) : IpCovers(c, Name(labels))

\* An operator's rules are in force: when the client starts to serve, every
\* rule file named in its configuration was read with all its tags; a file
\* that cannot be used ends the process instead (build_routing, `required`).
ConfiguredInForce ==
  phase = "bind" =>
    /\ \A f \in Section.geosite :
         {Loaded(m) : m \in rules.geosite} = {LoadGeosite(f, Tags(Section.geosite_tags))}
    /\ \A f \in Section.geoip :
         LoadGeoip(f, Tags(Section.geoip_tags)) = Loaded(rules.cidrs)

\* Both front ends route every destination as documented: patterns with and
\* without port and wildcard against every host, proxy before bypass before
\* geosite before geoip rules, in any case of letters, with the port written
\* or left out.  (The HTTP front end leaves the brackets on an IPv6 literal and
\* finds no address in it: that half is about names and IPv4.)
RoutesAsDocumented ==
  phase = "bind" =>
    \A labels \in Names, port \in PortSet :
      LET host == Name(labels)
          viaSocks == SplitHostPort(SocksDest(host, port))
          viaHttp == {HttpTarget(HttpDest(host \o <<":", port>>))} \cup
                     {HttpTarget(HttpDest(host)) : p \in {port} \cap {"80"}}
          v6 == host \in DOMAIN Literals /\ Literals[host].v = 6
      IN \A target \in {viaSocks} \cup (IF v6 THEN {} ELSE viaHttp) :
           ShouldBypass(rules, target.host, target.port) = Direct(labels, port)

\* A literal with a port, an IPv6 one in brackets, is the same text from either
\* front end, and the server's filter finds the address in it.  So do the
\* client's rules in a SOCKS5 request and, over HTTP, in an IPv4 literal; an IPv6
\* literal reaches them over HTTP with its brackets, in which they find no
\* address.
LiteralsRead ==
  phase = "bind" =>
    \A t \in DOMAIN Literals, port \in PortSet :
      LET dest == SocksDest(t, port)
          text == IF Literals[t].v = 6 THEN <<"[">> \o t \o <<"]">> ELSE t
      IN /\ SplitHostPort(dest) = [host |-> t, port |-> Ports[port]]
         /\ HttpDest(text \o <<":", port>>) = dest
         /\ HttpTarget(dest) = [host |-> text, port |-> Ports[port]]
         /\ text \in DOMAIN Literals <=> Literals[t].v = 4
         /\ IsDestAllowed(dest) = IsPublicIp(Literals[t])

TypeOK ==
  /\ phase \in {"config", "geosite", "geoip", "bind", "run", "exit"}
  /\ setup \in Setups \cup {[cli |-> {}, file |-> "used"]}
  /\ DOMAIN rules = DOMAIN NoRules
  /\ ListenersOK
=============================================================================
