---------------------------- MODULE MCClientProcess ----------------------------
(* Command lines, config files and rule files for TLC.                     *)
EXTENDS ClientProcess

Rule(wild, name, port) == [wild |-> wild, name |-> name, port |-> port]
Site(type, name) == [type |-> type, name |-> name, compiles |-> TRUE]
Cidr(bytes, prefix, class) == [bytes |-> bytes, prefix |-> prefix, class |-> class]

A == <<"A">>
a == <<"a">>
ba == <<"b", "a">>

\* One rule file of each kind: a tag with usable entries, an empty tag, and
\* tags with one bad entry: a regular expression that does not compile, an
\* address of five bytes, a prefix that is too long even when cut to a byte.
Sites == Dat("cn" :> {Site(2, <<ba, A>>), Site(3, <<a, a>>), Site(0, <<ba, ba>>), Site(1, <<a, ba>>), Site(7, <<a>>)}
          @@ "private" :> {}
          @@ "bad" :> {[type |-> 1, name |-> <<a>>, compiles |-> FALSE]})
Ips == Dat("cn" :> {Cidr(4, 264, "private"), Cidr(16, 64, "global")}
        @@ "private" :> {Cidr(4, 8, "loopback")}
        @@ "bad" :> {Cidr(5, 8, "global")}
        @@ "long" :> {Cidr(4, 33, "global")})

Named == {"endpoint", "user"}
Disk(s, i) == [geosite |-> s, geoip |-> i]
Setup(cli, file, section, disk) == [cli |-> cli, file |-> file, section |-> section, disk |-> disk]

\* What the process starts with: options here and there, a file that is
\* missing, broken or fine, rule files configured or found.
Absences == {{}, {Absent}, {Garbage}}
Starts ==
  {Setup(cli, file, [NoSection EXCEPT !.sets = sets], Disk(Absent, Absent)) :
     cli \in {{}, {"user"}, Named}, file \in {"missing", "broken", "ok"},
     sets \in {{}, {"endpoint"}, Named \cup {"socks_port"}}}
  \cup
  {Setup(Named, "ok", [NoSection EXCEPT !.geosite = site, !.geosite_tags = tags], Disk(found, Absent)) :
     site \in Absences \cup {{Sites}}, found \in {Absent, Garbage, Sites},
     tags \in {{}, {{"cn"}}, {{"cn", "bad"}}, {{"none"}}}}
  \cup
  {Setup(Named, "ok", [NoSection EXCEPT !.geoip = ip, !.geoip_tags = tags], Disk(Sites, found)) :
     ip \in Absences \cup {{Ips}}, found \in {Absent, Garbage, Ips},
     tags \in {{}, {{"cn"}}, {{"bad"}}, {{"long"}}, {{"none"}}}}

\* Rules against each other, with both rule files in force.
Patterns ==
  {{}, {Rule(FALSE, <<a>>, "")}, {Rule(TRUE, <<a>>, "443")}, {Rule(TRUE, <<A, ba>>, "")},
   {Rule(FALSE, <<ba, a>>, "80"), Rule(FALSE, <<<<"10.0.0.1">>>>, "")}}
Conflicts ==
  {Setup({}, "ok", [NoSection EXCEPT !.sets = Named \cup {"socks_port"}, !.proxy = p, !.bypass = b],
         Disk(Sites, Ips)) : p \in Patterns, b \in Patterns}

AllSetups == Starts \cup Conflicts

\* Payloads: a destination and an empty one.
Bytes == {"a", ":", "80"}
Texts == {<<>>, <<"a", ":", "80">>}
=============================================================================
