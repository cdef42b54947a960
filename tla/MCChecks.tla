------------------------------ MODULE MCChecks ------------------------------
(* The checks of MCServices and MCVerdicts and some more, one of them at a  *)
(* time, and the instance of all of them that is checked.                   *)
EXTENDS MCServices, MCVerdicts

servicesOnly == <<dnsOnly, clusterOnly, rpcOnly, pingOnly, vrrpOnly, pduOnly, akcpOnly, upsOnly,
                  lost, plugin, i, asked, device, table, rc, output, state>>
verdictsOnly == <<given, seen, csn>>
allVars == <<vars, verdictsOnly>>

-----------------------------------------------------------------------------
(* The instance of MCVerdicts                                               *)

Texts(S, n) == UNION {[1 .. k -> S] : k \in 0 .. n}
Limits(w, c) == [warn |-> w, crit |-> c]

\* Numbers are hundredths, 1m is 0.01m.
Numeral(n, u) == [kind |-> "num", n |-> n, unit |-> u]
NoNumeral(k) == [kind |-> k, n |-> 0, unit |-> ""]
Froms == {Numeral(100, ""), Numeral(500, ""), Numeral(2000, "%"), Numeral(1, "m"), NoNumeral("tilde"), NoNumeral("junk")}
Tos == {Numeral(100, ""), Numeral(-200, ""), Numeral(6000, "%"), Numeral(-2000, "%"), NoNumeral("empty"), NoNumeral("junk")}
const_RangeStrings ==
    [at : {FALSE}, colon : {FALSE}, from : {NoNumeral("empty")}, to : Tos]
    \cup [at : {FALSE}, colon : {TRUE}, from : Froms, to : Tos]
    \cup {[at |-> TRUE, colon |-> TRUE, from |-> Numeral(100, ""), to |-> Numeral(500, "")],
          [at |-> TRUE, colon |-> FALSE, from |-> NoNumeral("empty"), to |-> Numeral(2000, "%")]}
const_RangeReadings == {-300, 0, 100, 300, 60000}

Name(k, s, d, ds) == [keys |-> k, signed |-> s, ds |-> d, dssigned |-> ds]
KeysOf(l) == {<<l, "a">>, <<l, "b">>}
A(l) == <<l, "a">>
\* Key sets of a level: none, one key, two keys of which either signs them.
KeySets(l) == {<<{}, {}>>, <<{A(l)}, {A(l)}>>, <<KeysOf(l), {A(l)}>>, <<KeysOf(l), {<<l, "b">>}>>}
Start == {Name(k[1], k[2], {}, {}) : k \in KeySets(0)}
Below(l) == {Name(k[1], k[2], {A(l)}, ds) : k \in KeySets(l), ds \in {{}, {A(l - 1)}, {<<0, "b">>}}}
            \cup {Name(k[1], k[2], {}, {}) : k \in KeySets(l)}
const_TraceWorlds ==
    [names : {(0 :> x) @@ (1 :> y) @@ (2 :> z) : x \in Start, y \in Below(1), z \in Below(2)},
     trusted : {{A(0)}, {<<0, "b">>, A(2)}}, soa : {{A(2)}}, ns : {{}, {A(2)}, {<<2, "b">>}},
     subdomain : {TRUE}]
    \cup [names : {(0 :> x) : x \in Start}, trusted : {{}, {A(0)}, {A(1)}}, soa : {{}, {A(0)}},
          ns : {{A(0)}}, subdomain : BOOLEAN]

Rrsig(e, t, b) == [exp |-> e, ttl |-> t, by |-> b]
Rrsigs == {Rrsig(e, t, b) : e \in {19, 20, 22, 24, 28}, t \in {0, 3}, b \in {"zsk", "nobody"}}
Entry(k, c, f) == [key |-> k, comment |-> c, folded |-> f]
Entries == {Entry("a1", FALSE, TRUE), Entry("a2", FALSE, FALSE), Entry("a1", TRUE, TRUE), Entry("b1", FALSE, FALSE)}
Statements == [name : {"trusted-keys", "options"}, brace : {<<"{">>}, keys : Texts(Entries, 2)]
              \cup [name : {"trusted-keys"}, brace : {<<"nl", "{">>}, keys : {<<>>}]
Few == {t \in Statements : Len(t.keys) <= 1}
const_OwnerOf == "a1" :> "a" @@ "a2" :> "a" @@ "b1" :> "b"
const_ZoneWorlds ==
    [plugin : {"check_dnssec_expiration"}, rrsigs : Texts(Rrsigs, 2), trusted : {"none", "ksk", "other"}]
    \cup [plugin : {"check_dnssec_trust_anchor"}, file : {<<t, u>> : t \in Few, u \in Statements}, k : {TRUE},
          current : SUBSET {"a1", "a2", "b1"}]
    \cup [plugin : {"check_dnssec_trust_anchor"}, file : {<<>>}, k : {FALSE}, current : {{}}]
    \cup [plugin : {"check_dns_authoritative"}, host : {TRUE}, recursion : BOOLEAN, tcp : BOOLEAN,
          udp : BOOLEAN, axfr : BOOLEAN,
          server : [soa : [{"udp", "tcp"} -> {"lost", "other", "authoritative"}],
                    rec : [{"udp", "tcp"} -> {"lost", "refused", "answer"}], axfr : BOOLEAN]]
    \cup [plugin : {"check_dns_authoritative"}, host : {FALSE}, recursion : {TRUE}, tcp : {TRUE},
          udp : {TRUE}, axfr : {TRUE}, server : {{}}]

Bounds(w, c, k) == [warn |-> [n |-> w, colon |-> k], crit |-> [n |-> c, colon |-> k]]
Cert(e, a) == [expire |-> e, active |-> a]
const_CertWorlds ==
    [plugin : {"check_ssl_cert"}, starttls : {"none"}, limits : {Bounds(4, 2, TRUE), Bounds(4, 2, FALSE)},
     cert : {Cert(e, a) : e \in {-3, 0, 1, 2, 3, 4, 5}, a \in BOOLEAN},
     ca_files : Texts({"trusts", "trusts not"}, 2)]
    \cup [plugin : {"check_ssl_cert"}, starttls : {"smtp", "pop", "imap", "other"},
          limits : {Bounds(4, 2, TRUE)}, cert : {Cert(9, TRUE)}, ca_files : {<<>>}]
    \cup [plugin : {"check_x509_cert"}, limits : {Bounds(4, 2, TRUE), Bounds(4, 2, FALSE)},
          files : Texts([readable : {TRUE}, expire : {-3, 0, 2, 4, 9}, active : BOOLEAN]
                        \cup [readable : {FALSE}, expire : {0}, active : {TRUE}], 2)]

Line(k, v) == [key |-> k, text |-> "", value |-> v]
TextLine(k, t) == [key |-> k, text |-> t, value |-> 0]
SlaveLines == {TextLine("role", "slave"), TextLine("role", "master"),
               TextLine("master_link_status", "up"), TextLine("master_link_status", "down")}
              \cup {Line("master_last_io_seconds_ago", s) : s \in {-1, 300, 301}}
              \cup {Line("master_link_down_since_seconds", 5)}
OncePerKey(info) == \A k, m \in DOMAIN info : info[k].key = info[m].key => k = m
\* The server has a delay, or knows since when the link is down.
Sane(info) ==
    /\ OncePerKey(info)
    /\ (\E k \in DOMAIN info : info[k].key = "master_link_down_since_seconds")
            => TextLine("master_link_status", "up") \notin {info[k] : k \in DOMAIN info}

const_Questions ==
    [plugin : {"check_redis"}, info : {<<>>} \cup {<<Line("used_memory", u)>> : u \in {0, 40, 50, 51, 81}},
     maxmemory : {-1, 0, 100}, time : {0, 3, 5}, times : {Limits(3, 4)},
     memory : {Limits(-1, -1), Limits(50, 80), Limits(-1, 50)}, percent : BOOLEAN, mp_showperfdata : BOOLEAN]
    \cup [plugin : {"check_redis_slave"}, info : {t \in Texts(SlaveLines, 4) : Sane(t)},
          times : {Limits(300, 3600)}]
    \cup [plugin : {"check_pgsql_slave"}, recovery : BOOLEAN, times : {Limits(300, 3600), Limits(10800, 86400)},
          interval : {d \in [null : BOOLEAN, sign : {1, -1}, days : 0 .. 3, h : {0, 1, 23}, m : {0, 4, 5, 59},
                             s : {0, 1, 59}] : d.sign = -1 => d.days = 0}]
    \cup [plugin : {"check_buildbot_slave"}, asked : SUBSET {"s1", "s2"},
          doc : UNION {[S -> {"connected", "gone", "error"}] : S \in SUBSET {"s1", "s2", "s3"}}]
    \cup [plugin : {"check_rabbitmq"}, queue_totals : BOOLEAN,
          counters : [{"messages", "messages_ready", "messages_unacknowledged"} -> {-1, 0, 2, 4}],
          limits : [{"messages", "messages_ready", "messages_unacknowledged"} -> {Limits(-1, -1), Limits(1, 3)}]]

Record(t, c) == [type |-> t, content |-> c]
\* The document in one record or cut in two, with or without the empty record
\* that ends the stream, and something else in between.
Page == <<"headers", "separator", "json", "rest of json">>
Cut(n) == <<SubSeq(Page, 1, n), SubSeq(Page, n + 1, 4)>>
Stdout(n) == IF n = 4 THEN <<Record("STDOUT", Cut(4)[1])>>
             ELSE <<Record("STDOUT", Cut(n)[1]), Record("STDOUT", Cut(n)[2])>>
const_FcgiAnswers ==
    {[plugin |-> "check_fcgi_phpfpm", records |-> a \o Stdout(n) \o b \o <<Record("END_REQUEST", <<"status">>)>>]
     : n \in 0 .. 4, a \in {<<>>, <<Record("STDERR", <<"notice">>)>>},
       b \in {<<>>, <<Record("STDOUT", <<>>)>>, <<Record("STDERR", <<"notice">>)>>}}
    \cup {[plugin |-> "check_fcgi_ping", records |-> s \o <<Record("GET_VALUES_RESULT", c)>>]
          : s \in Texts({Record("other", <<>>), Record("other", <<"x">>)}, 2), c \in {<<>>, <<"x">>}}

-----------------------------------------------------------------------------
(* The other checks                                                         *)

Table(f, m, o) == [file |-> f, matching |-> m, others |-> o]
Clauses == [who : Texts({"u", "g"}, 2), op : {"+", "-", "="}, perms : {<<>>, <<"r">>, <<"w">>, <<"w", "r">>}]
Short == {c \in Clauses : Len(c.who) = 1}
Info(k, n, u) == [key |-> k, value |-> [n |-> n, unit |-> u]]
Want(b, w) == [bool |-> b, want |-> w]
Local == INSTANCE LocalChecks WITH
    Kilo <- 4,      \* keeps the products within TLC's integers
    Contents <- {Table("absent", 0, 0), Table("empty", 0, 0), Table("lines", 0, 0),
                 Table("lines", 2, 0), Table("lines", 1, 2), Table("lines", 3, 0)},
    Warn <- 1, Crit <- 2,
    Bonds <- {"bond0", "bond1"},
    Files <- {<<m>> \o s : m \in {"up", "down"},
                           s \in {<<>>} \cup {<<"slave", a>> : a \in {"up", "down"}}
                                 \cup {<<"slave", a, "slave", b>> : a, b \in {"up", "down"}}},
    Who <- {"u", "g"}, Perms <- {"r", "w"}, Modes <- SUBSET ({"u", "g"} \X {"r", "w"}),
    Worlds <-
        {[plugin |-> "check_sockets", port |-> [p \in {"tcp", "udp", "raw"} |-> IF p \in S THEN n ELSE -1], ipv |-> f]
         : S \in SUBSET {"tcp", "udp", "raw"}, n \in {0, 80}, f \in {"any", "4", "6"}}
        \cup [plugin : {"check_bonding"}, bonds : Texts({"bond0", "bond1"}, 3)]
        \cup [plugin : {"check_file"}, file : {TRUE}, criteria : {{}},
              clauses : {<<c>> : c \in Clauses} \cup {<<c, d>> : c, d \in Short}, junk : {<<>>, <<"?">>}]
        \cup [plugin : {"check_file"}, file : BOOLEAN, criteria : SUBSET {"age", "size", "owner", "group"},
              clauses : {<<>>, <<[who |-> <<"u">>, op |-> "+", perms |-> <<"r">>]>>}, junk : {<<>>, <<"?">>}]
        \cup [plugin : {"check_mem"}, meminfo : {"readable"}, warn : {50}, crit : {75},
         lines : {<<>>} \cup {<<Info("MemTotal", t, "g"), Info("MemFree", f[1], f[2]), Info("Slab", 1, "k"),
                               Info("Buffers", b, "m")>> \o c :
                              t \in {0, 1}, f \in {<<0, "k">>, <<16, "k">>, <<32, "">>, <<3, "m">>}, b \in 0 .. 1,
                              c \in {<<>>, <<Info("Cached", 1, "m")>>}}]
        \cup [plugin : {"check_mem"}, meminfo : {"unreadable"}]
        \cup [plugin : {"check_nrped"}, version : BOOLEAN, touch : BOOLEAN]
        \cup [plugin : {"check_enforce"}, options : Texts({"e", "p", "d"}, 2), enabled : -1 .. 1,
              enforced : -1 .. 1, policy : {"not asked", "asked", "other"}]
        \cup [plugin : {"check_sebool"}, options : Texts({Want(b, w) : b \in {"a", "b"}, w \in 0 .. 1}, 3),
              enabled : -1 .. 1, active : [{"a", "b"} -> -1 .. 1]]
        \cup [plugin : {"check_dummy"}, words : Texts({"0", "fine"}, 2)]
        \cup [plugin : {"check_timeout"}, timeout : {0, 10}]

Header(k, v) == [key |-> k, value |-> v]
LOCK == <<"LOCK">>
UNLOCK == <<"UN", "LOCK">>
AllowLines == {Header("Allow", LOCK), Header("Allow", UNLOCK), Header("Allow", LOCK \o <<",">> \o UNLOCK),
               Header("Allow", UNLOCK \o <<",">> \o LOCK), Header("Allow", UNLOCK \o <<",", " ">> \o LOCK),
               Header("allow", LOCK), Header("ContentType", <<"xml">>), Header("ContentType", <<"html">>)}
Element(n, inner) == <<<<"start", n>>>> \o inner \o <<<<"stop", n>>>>
Chars(t) == [k \in DOMAIN t |-> <<"chars", t[k]>>]
Resource(type, stat) ==
    Element("response", Element("href", Chars(<<"/dav/">>)) \o Element("propstat",
        Element("prop", Element("resourcetype", IF type = "" THEN <<>> ELSE Element(type, <<>>)))
        \o Element("status", Chars(stat))))
Stats == {<<"HTTP/1.1 200 OK">>, <<"HTTP/1.1 404">>, <<"HTTP/1.1 ", "200 OK">>, <<"HTTP/1.1 200", " OK">>, <<>>}
Documents == {<<>>, Element("status", Chars(<<"HTTP/1.1 404">>))}
             \cup {Resource(t, c) : t \in {"", "collection", "other"}, c \in Stats}
             \cup {Resource("collection", c) \o Resource("", <<"HTTP/1.1 200 OK">>) : c \in Stats}
Scores(k, s) == [key |-> k, colon |-> TRUE, slots |-> s]
Tag(n) == [name |-> n, value |-> 0]
Text(v) == [name |-> "", value |-> v]
Field(n, v) == <<Tag(n), Text(v), Tag("end"), Text(0)>>
Answers == {<<>>, <<Tag("ErrorCode")>>}
           \cup {Field("ErrorCode", e) \o d \o c : e \in 0 .. 2, d \in {<<>>, Field("ErrorDescription", 7)},
                 c \in {<<>>} \cup {Field("Credits", n) : n \in {0, 499, 500, 999, 1000}}}
Http == INSTANCE HttpChecks WITH
    Pieces <- {1, 2, 5},
    Worlds <-
        [plugin : {"check_webdav"}, ls : {FALSE}, documents : {<<>>}, headers : Texts(AllowLines, 2), allow : Texts({LOCK, UNLOCK}, 2),
         type : {<<"NULL">>, <<"xml">>}, time : 0 .. 2]
        \cup [plugin : {"check_webdav"}, ls : {TRUE}, documents : {<<Element("multistatus", d), Element("multistatus", e)>> :
                                         d \in Documents, e \in {<<>>, Element("href", Chars(<<"/">>))}},
              headers : {<<Header("Allow", LOCK)>>}, allow : {<<LOCK>>}, type : {<<"NULL">>}, time : {0}]
        \cup [plugin : {"check_apache_status"}, url : BOOLEAN, host : BOOLEAN, newline : BOOLEAN,
         limits : {Bounds(-1, -1, TRUE), Bounds(2, 1, TRUE), Bounds(-1, 2, TRUE), Bounds(1, 2, FALSE)},
         lines : Texts({Scores("Scoreboard", s) : s \in {<<>>, <<".">>, <<".", "_", ".">>, <<"W", "K">>}}
                       \cup {Scores("Total", <<".">>), [key |-> "Scoreboard", colon |-> FALSE, slots |-> <<>>]}, 2)]
        \cup [plugin : {"check_tftp"}, time : 0 .. 2]
        \cup [plugin : {"check_aspsms_credits"}, response : {200, 500}, limits : {Bounds(100, 50, TRUE), Bounds(100, 50, FALSE)},
              tokens : Answers]
        \cup [plugin : {"notify_aspsms"}, options : Texts({"file", "message"}, 2), response : {200, 500},
              tokens : Answers]
        \cup [plugin : {"notify_stdout"}, options : Texts({"file", "message"}, 3)]

Row(n, v) == [name |-> n, value |-> v]
Variables(n, u) == [names |-> n, unit |-> u]
Names == Texts({"Queries", "Uptime", "Com_x"}, 2) \ {<<>>}
Sql == INSTANCE SqlChecks WITH
    perfdata <- seen,
    Worlds <-
        [plugin : {"check_ldap"}, options : SUBSET {"H", "D"}, time : 0 .. 2, limits : {Limits(0, 1)},
         entries : Texts([cn : {"", "Bytes"}, monitorCounter : {-1, 7}], 2)]
        \cup [plugin : {"check_mysql"}, options : {{"H"}}, mp_showperfdata : BOOLEAN,
              variables : Texts({Variables(n, u) : n \in Names, u \in {"", "c"}}, 2),
              rows : {<<Row("Queries", 5), Row("Other", 6), Row("Uptime", 7)>>}]
        \cup [plugin : {"check_mysql_rows"}, options : SUBSET {"D", "T", "u"}, rows : 0 .. 3,
              limits : {Limits(-1, -1), Limits(1, 2), Limits(-1, 0)}]
        \cup [plugin : {"check_pgsql"}, options : SUBSET {"H", "D"}, mp_showperfdata : BOOLEAN, rows : {0, 9}]

Opt(c, a) == [c |-> c, arg |-> a]
SnmpOptions ==
    Texts({Opt("S", "1"), Opt("S", "3"), Opt("S", "4"), Opt("L", "authPriv"), Opt("L", "none"), Opt("a", "DES")}, 2)
    \cup {<<Opt("S", "3")>> \o u \o a \o p : u \in {<<>>, <<Opt("U", "me")>>}, a \in {<<>>, <<Opt("A", "secret")>>},
         p \in {<<>>, <<Opt("a", "MD5")>>, <<Opt("X", "key")>>, <<Opt("a", "SHA1"), Opt("S", "2")>>}}
Wishes == Texts({Opt("d", ""), Opt("s", "up"), Opt("s", "dormant"), Opt("s", ""), Opt("s", "broken")}, 2)
Begin(n, d) == [name |-> n, open |-> TRUE, dev |-> d]
End(n) == [name |-> n, open |-> FALSE, dev |-> ""]
Inside(n, inner) == <<Begin(n, "")>> \o inner \o <<End(n)>>
Target(d) == <<Begin("target", d), End("target")>>
Devices == {<<>>, Inside("disk", Target("sda")), Inside("interface", Target("vnet0")),
            Inside("interface", Inside("source", <<>>) \o Target("")), Target("tty0")}
Agents == INSTANCE AgentChecks WITH
    session <- seen,
    Worlds <-
        [plugin : {"check_rhcsnmp"}, options : SnmpOptions, name : BOOLEAN, status : {0, 1, 2, 15, 16, 255}]
        \cup [plugin : {"check_interface"}, options : Wishes, descr : BOOLEAN, oper : {0, 1, 2, 5, 7, 8, 9}]
        \cup [plugin : {"check_libvirtd"}, options : SUBSET {"username", "password"},
              creds : Texts({"username", "password", "other"}, 2)]
        \cup [plugin : {"check_libvirt_domain"}, options : {{}, {"domain"}}, creds : {<<>>},
              domain : {<<d>> : d \in {"running", "paused", "shutoff", "crashed", "gone"}}, changes : {3},
              document : {Inside("domain", Inside("devices", Inside("interface", Target("vnet0"))))}]
        \cup [plugin : {"check_libvirt_domain"}, options : {{"domain"}}, creds : {<<>>}, domain : {<<"running">>}, changes : {0},
              document : {Inside("domain", x \o Inside("devices", a \o b) \o y) : x, y \in {<<>>, Inside("interface", Target("eth0"))},
                                                                             a, b \in Devices}]

Printer(n, q) == [name |-> n, jobs |-> q]
Jobs == Texts({0, 5, 9}, 2) \cup {<<-1>>}
Slots(k, l, u, t) == [kind |-> k, label |-> l, used_slots |-> u, total_slots |-> t]
const_ListWorlds ==
    [plugin : {"check_cups_jobs"}, alive : BOOLEAN, summerize : BOOLEAN, times : {Limits(4, 8)},
     counts : {Limits(-1, -1), Limits(0, 1), Limits(-1, 1)}, printer : {<<>>, <<"a">>, <<"b", "c">>},
     server : {<<>>} \cup {<<Printer("a", x), Printer("b", y)>> : x, y \in Jobs}]
    \cup [plugin : {"check_rhn_entitlements"}, user : BOOLEAN, pass : {TRUE}, limits : {Bounds(4, 2, TRUE), Bounds(4, 2, FALSE)},
          system_name : SUBSET {"s", "t"}, channel_name : {{}, {"s"}},
          system : {<<>>} \cup {<<Slots("system", "s", u, 5), Slots("system", "t", v, 5)>> : u, v \in {0, 2, 4, 6}},
          channel : {<<Slots("channel", "s", u, 3)>> : u \in {0, 2}}]
    \cup [plugin : {"check_smb_share"}, scheme : {"smb", "cifs", "http"}, username : BOOLEAN, password : BOOLEAN,
          time : 0 .. 3, times : {Limits(1, 2)}]
    \cup [plugin : {"check_koji_builder"}, scheme : {"http", "ftp"}, hostname : BOOLEAN, enabled : BOOLEAN, ready : BOOLEAN]
    \cup [plugin : {"check_koji_hub"}, scheme : {"https", "ftp"}, mp_showperfdata : BOOLEAN, time : 0 .. 3,
          times : {Limits(1, 2)}]

Phone(p, d) == [plus |-> p, digits |-> d]
Numbers == {Phone(TRUE, <<4, 9, 1, 7>>), Phone(FALSE, <<1, 1, 2>>), Phone(FALSE, <<>>)}
Letters == {"@", "i", "agrave", "euro", "unknown"}
Sms == INSTANCE SmsPdu WITH Messages <-
    [text : Texts(Letters, 4), number : {Phone(TRUE, <<4, 9, 1, 7>>)}, smsc : {<<>>}]
    \cup [text : {[k \in 1 .. n |-> IF k = m THEN c ELSE "x"] : n \in 5 .. 17, m \in {1, 2, 8}, c \in {"euro", "agrave"}},
          number : Numbers, smsc : {<<>>, <<Phone(TRUE, <<4, 9>>)>>}]
    \cup [text : {[k \in 1 .. n |-> "A"] : n \in {160, 255, 256}}, number : {Phone(TRUE, <<4, 9>>)}, smsc : {<<>>}]

Argument(k, n, a, s) == [kind |-> k, name |-> n, arg |-> a, spec |-> s]
Plain(n, a) == Argument("opt", n, a, <<"", "">>)
Eopt(s, f) == Argument("eopt", "", 0, <<s, f>>)
Bare(s, f) == Argument("word", "", 0, <<s, f>>)
FileLine(k, n, a) == [kind |-> k, name |-> n, argument |-> a]
OptionLine(n, a) == FileLine("option", "", Plain(n, a))
HeaderLine(n) == FileLine("header", n, Plain("", 0))
FileLines == {HeaderLine("progname"), HeaderLine("s"), OptionLine("w", 1), OptionLine("t", 5)}
             \cup {FileLine(k, "", Plain("", 0)) : k \in {"bare", "other", "cut"}}
NamesItself == <<HeaderLine("s"), FileLine("option", "", Eopt("s", "f"))>>
Options == INSTANCE OptionFile WITH
    MaxReads <- 3,
    Worlds <-
        [argv : {<<Eopt(s, f)>> \o w \o a : s \in {"", "s"}, f \in {"", "f", "none"}, w \in {<<>>, <<Bare("s", "f")>>},
                                          a \in {<<>>, <<Plain("w", 2)>>, <<Plain("t", 7)>>}}
                \cup {<<Plain(n, 3), Plain("c", 3)>> : n \in {"w", "t", "v", "h", "?"}} \cup {<<Plain("t", 3), Eopt("s", "f"), Plain("c", 4), Eopt("", "f")>>},
         files : {("f" :> l) @@ ("monitoringplug.ini" :> <<HeaderLine("progname"), OptionLine("c", 9)>>) :
                  l \in Texts(FileLines, 3) \cup {NamesItself}
                        \cup {<<HeaderLine(n), OptionLine("w", 1), x, OptionLine("c", 2)>> : n \in {"s", "progname"}, x \in FileLines}}]

NoServices == /\ NoService /\ NoDevice /\ lost = 0 /\ plugin = 0 /\ i = 0 /\ asked = 0
              /\ device = 0 /\ table = 0 /\ rc = 0 /\ output = 0 /\ state = 0

OthersInit ==
    \/ check = "http" /\ Http!Init /\ NoServer
    \/ check = "local" /\ Local!Init /\ NoServer
    \/ check = "sql" /\ Sql!Init /\ NoServer /\ status = 0
    \/ check = "agents" /\ Agents!Init /\ NoServer
    \/ check = "sms" /\ Sms!Init /\ NoServer
    \/ check = "options" /\ Options!Init /\ NoServer

OthersNext ==
    \/ check = "http" /\ Http!Next /\ UNCHANGED <<check, csn>>
    \/ check = "local" /\ Local!Next /\ UNCHANGED <<check, csn>>
    \/ check = "sql" /\ Sql!Next /\ UNCHANGED <<check, csn, status>>
    \/ check = "agents" /\ Agents!Next /\ UNCHANGED <<check, csn>>
    \/ check = "sms" /\ Sms!Next /\ UNCHANGED <<check, csn>>
    \/ check = "options" /\ Options!Next /\ UNCHANGED <<check, csn>>

AllInit ==
    \/ Init /\ given = 0 /\ seen = 0 /\ csn = 0
    \/ (VerdictsInit \/ OthersInit) /\ NoServices

AllNext ==
    \/ Next /\ UNCHANGED verdictsOnly
    \/ (VerdictsNext \/ OthersNext) /\ UNCHANGED servicesOnly

AllSpec == AllInit /\ [][AllNext]_allVars
-----------------------------------------------------------------------------
(* Properties                                                               *)

\* The checks of the host: the result is the worst of what was found, wherever it
\* was found, but for a critical count of tcp6 sockets (Local!Tcp6IsCritical), which
\* check_sockets reports and does not judge; everything asked for was looked at, and
\* an access string of several clauses means what its clauses mean.
HostIsJudged ==
    check = "local" => /\ Local!TablesAreJudged /\ Local!BondsAreJudged
                       /\ Local!FileIsJudged /\ Local!LocalIsJudged


\* What is read from a text is what the text says: an option file counts as a whole,
\* in the place of --eopt; a key of a trust anchor file may stand on several lines;
\* the first header of a name counts, and a scoreboard or a field of an answer is
\* found behind any other line; what a receiver takes the PDU of an SMS apart to is
\* the number and the septets of the text.  One text is read as it was sent only if
\* it came in one piece: the status of a WebDAV resource (Http!OneIsThere).
TextsAreRead ==
    /\ check = "options" => Options!OptionsAreHeard
    /\ check = "zones" => Zones!AnchorsAreJudged
    /\ check = "http" => Http!WebdavIsJudged /\ Http!WebIsJudged
    /\ check = "sms" => Sms!PduIsDecoded

\* lib/sms_utils.c: "GSM7 Charmap according to 3GPP TS 23.038".
TextIsDelivered == check = "sms" => Sms!TextIsDelivered
=============================================================================
