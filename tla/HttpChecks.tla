----------------------------- MODULE HttpChecks -----------------------------
(***************************************************************************)
(* What is asked for through libcurl: curl/check_webdav.c, built with expat, *)
(* check_apache_status.c, check_tftp.c and check_aspsms_credits.c,          *)
(* notify/notify_aspsms.c, with the callbacks of lib/curl_utils.c, and      *)
(* notify_stdout.c for the options of lib/mp_notify.c.                      *)
(*                                                                         *)
(* check_webdav sends OPTIONS, then with --ls PROPFIND for the collection   *)
(* and for what is in it.  A header value and a method are sequences of the *)
(* words they have in common (UNLOCK is <<"UN", "LOCK">>); a document is the *)
(* sequence of the parser's events.  The answer of the SMS service is the   *)
(* sequence of tokens strsep makes of it: tags and texts.                   *)
(***************************************************************************)
EXTENDS Integers, Sequences, SequencesExt

CONSTANTS
    Worlds,     \* plugin, options and answers of the server, as a record
    Pieces      \* sizes of the buffer libcurl offers to mp_curl_send_data

VARIABLES
    given,      \* one of Worlds
    todo,       \* calls that are still to be made; of check_webdav the depths of the
                \* PROPFIND requests
    seen,       \* headers and list as they were read, and the body as it was sent
    status,     \* query.start
    pc,         \* "start", "run", "exited", "crashed", or "usage", "failed", "alarmed"
                \* for those exits; of check_webdav "options", "send", "answer", "judge"
    code        \* exit code, -1 while running

vars == <<given, todo, seen, status, pc, code>>

STATE_OK == 0
STATE_WARNING == 1
STATE_CRITICAL == 2
STATE_UNKNOWN == 3
CRASH == -2
NONE == -1      \* a limit that is not given
NULL == <<"NULL">>

webdav == given.plugin = "check_webdav"
Notifies == given.plugin \in {"notify_aspsms", "notify_stdout"}
Curl == <<"mp_curl_init", "mp_curl_perform">>
Calls == IF webdav THEN IF given.ls THEN <<0>> ELSE <<>>
         ELSE IF given.plugin = "notify_stdout" THEN <<"mp_template">>
         ELSE IF given.plugin = "notify_aspsms" THEN <<"mp_template">> \o Curl
         ELSE Curl

Init ==
    /\ given \in Worlds
    /\ todo = Calls
    /\ seen = [Allow |-> NULL, ContentType |-> NULL, list |-> <<>>, body |-> <<>>]
    /\ status = 0
    /\ pc = "start"
    /\ code = -1

Leave(how, s) == pc' = how /\ code' = s
Goto(l) == pc' = l /\ UNCHANGED code
Crash == Goto("crashed")

-----------------------------------------------------------------------------
(* Options                                                                  *)

\* getopt_notify: the first of --file and --message excludes the other.
getopt_notify(options) ==
    LET used == ToSet(options)
    IN  IF used = {"file", "message"} THEN "usage"
        ELSE IF used = {} THEN "usage" ELSE Last(options)

\* check_apache_status looks at the url before it looks whether there is one.
apache_arguments(a) ==
    IF ~a.url THEN CRASH
    ELSE IF a.host THEN STATE_UNKNOWN ELSE NONE

\* check_webdav wants the url of a web server.
webdav_arguments ==
    /\ pc = "start"
    /\ webdav
    /\ Leave("usage", STATE_OK) \/ Leave("usage", STATE_UNKNOWN) \/ Goto("options")
    /\ UNCHANGED <<given, todo, seen, status>>

\* An option that is refused, or that is missing, ends the plugin; too few of them
\* print the help.
process_arguments ==
    /\ pc = "start"
    /\ ~webdav
    /\ \/ ~Notifies /\ Leave("usage", STATE_OK)
       \/ Leave("usage", STATE_UNKNOWN)
       \/ /\ given.plugin = "check_apache_status"
          /\ LET a == apache_arguments(given) IN
                CASE a = CRASH -> Crash
                  [] a = STATE_UNKNOWN -> Leave("usage", STATE_UNKNOWN)
                  [] OTHER -> Goto("run")
       \/ /\ Notifies
          /\ getopt_notify(given.options) # "usage"
          /\ Goto("run")
       \/ /\ given.plugin \in {"check_tftp", "check_aspsms_credits"}
          /\ Goto("run")
    /\ UNCHANGED <<given, todo, seen, status>>

-----------------------------------------------------------------------------
(* One request                                                              *)

\* mp_template of a file that cannot be opened; libcurl, or the request itself.
Call ==
    /\ pc = "run"
    /\ todo # <<>>
    /\ \/ todo' = Tail(todo) /\ UNCHANGED <<pc, code>>
       \/ /\ Head(todo) = "mp_template" => getopt_notify(given.options) = "file"
          /\ Leave("failed", STATE_CRITICAL) /\ UNCHANGED todo
       \/ /\ given.plugin = "check_tftp" /\ Head(todo) = "mp_curl_perform"
          /\ Leave("failed", STATE_UNKNOWN) /\ UNCHANGED todo
    /\ UNCHANGED <<given, seen, status>>

\* "n:" alerts below n; n alone is the range from 0 to n, which getopt_wc lets
\* alert outside, and getopt_wc_time_at inside.
check_range(v, limit, alert_on) ==
    limit.n # NONE /\ IF limit.colon THEN v < limit.n ELSE (v \in 0 .. limit.n) = (alert_on = "INSIDE")

get_status(v, limits, alert_on) ==
    IF check_range(v, limits.crit, alert_on) THEN STATE_CRITICAL
    ELSE IF check_range(v, limits.warn, alert_on) THEN STATE_WARNING
    ELSE STATE_OK

\* The slots "." of all lines with the key Scoreboard.
Open(lines) ==
    FoldLeft(LAMBDA n, l : IF l.key = "Scoreboard"
                           THEN n + Len(SelectSeq(l.slots, LAMBDA c : c = ".")) ELSE n, 0, lines)

\* The code of the response is not looked at.  The loop reads behind an answer that
\* is empty or does not end in a newline, and through a line that is the word
\* Scoreboard alone; behind a colon there may be no slot.
check_apache_status(a) ==
    IF a.lines = <<>> \/ ~a.newline THEN CRASH
    ELSE IF \E k \in DOMAIN a.lines : a.lines[k].key = "Scoreboard" /\ ~a.lines[k].colon THEN CRASH
    ELSE get_status(Open(a.lines), a.limits, "OUTSIDE")

Fields == {"ErrorCode", "ErrorDescription", "Credits"}

\* The token after the name of a field is its value.
Token(f, t) ==
    IF f.next # "" THEN [f EXCEPT !.next = "", !.values[f.next] = t.value]
    ELSE IF t.name \in Fields THEN [f EXCEPT !.next = t.name] ELSE f

Read(tokens) ==
    FoldLeft(Token, [next |-> "", values |-> [ErrorCode |-> 0, ErrorDescription |-> NONE, Credits |-> 0]], tokens)

\* Credits are tenths, and the limits whole; the conversion to int cuts them off.
\* An error without a description is a format string that is NULL.
check_aspsms_credits(a) ==
    LET f == Read(a.tokens) IN
    IF a.response # 200 THEN STATE_CRITICAL
    ELSE IF f.next # "" THEN CRASH
    ELSE IF f.values.ErrorCode # 1
         THEN IF f.values.ErrorDescription = NONE THEN CRASH ELSE STATE_UNKNOWN
    ELSE get_status(f.values.Credits \div 10, a.limits, "INSIDE")

\* 0: sent, 1: not sent.
notify_aspsms(a) ==
    LET f == Read(a.tokens) IN
    IF a.response # 200 THEN 1
    ELSE IF f.next # "" THEN CRASH
    ELSE IF f.values.ErrorCode # 1 THEN 1 ELSE 0

check_tftp(a) == a.time

Result ==
    CASE given.plugin = "check_apache_status" -> check_apache_status(given)
      [] given.plugin = "check_tftp" -> check_tftp(given)
      [] given.plugin = "check_aspsms_credits" -> check_aspsms_credits(given)
      [] given.plugin = "notify_aspsms" -> notify_aspsms(given)
      [] given.plugin = "notify_stdout" -> STATE_OK

Report ==
    /\ pc = "run"
    /\ todo = <<>>
    /\ IF Result = CRASH THEN Crash ELSE Leave("exited", Result)
    /\ UNCHANGED <<given, todo, seen, status>>

-----------------------------------------------------------------------------
(* check_webdav                                                             *)

Body == <<"propfind", "prop", "resourcetype">>

\* mp_curl_recv_header: the first header of a name counts; names differ in case.
mp_curl_recv_header(h, line) ==
    IF line.key \in {"Allow", "ContentType"} /\ h[line.key] = NULL
    THEN [h EXCEPT ![line.key] = line.value] ELSE h

\* OPTIONS.  mp_curl_init, mp_curl_perform and any code but 200 are critical.
Options ==
    /\ pc = "options"
    /\ \/ Leave("failed", STATE_CRITICAL) /\ UNCHANGED seen
       \/ /\ seen' = FoldLeft(mp_curl_recv_header, seen, given.headers)
          /\ Goto(IF given.ls THEN "send" ELSE "judge")
    /\ UNCHANGED <<given, todo, status>>

\* libcurl takes the request piece by piece until there is no more.
mp_curl_send_data ==
    /\ pc = "send"
    /\ \E n \in Pieces :
        LET left == Len(Body) - status
            read_size == IF n > left THEN left ELSE n
        IN  /\ seen' = [seen EXCEPT !.body = @ \o SubSeq(Body, status + 1, status + read_size)]
            /\ status' = status + read_size
            /\ Goto(IF read_size = 0 THEN "answer" ELSE "send")
    /\ UNCHANGED <<given, todo>>

\* The parser: name is the element whose content is of interest, list has the
\* latest response first.
Entry == [path |-> "NULL", type |-> "NULL", status |-> "NULL"]
InFirst(p, field, v) ==
    IF p.list = <<>> THEN [p EXCEPT !.crash = TRUE] ELSE [p EXCEPT !.list[1][field] = v]

webdav_startElement(p, n) ==
    LET typed == IF p.name = "resourcetype" THEN InFirst(p, "type", n) ELSE p
    IN [typed EXCEPT !.list = IF n = "response" THEN <<Entry>> \o @ ELSE @,
                     !.name = IF n \in {"href", "status", "resourcetype"} THEN n ELSE "NULL"]

webdav_stopElement(p) == [p EXCEPT !.name = "NULL"]

\* A text that comes in pieces leaves its last piece.
webdav_charData(p, s) ==
    IF p.name = "href" THEN InFirst(p, "path", s)
    ELSE IF p.name = "status" THEN InFirst(p, "status", s)
    ELSE p

XML_Parse(doc) ==
    FoldLeft(LAMBDA p, e : CASE p.crash -> p
                             [] e[1] = "start" -> webdav_startElement(p, e[2])
                             [] e[1] = "stop" -> webdav_stopElement(p)
                             [] e[1] = "chars" -> webdav_charData(p, e[2]),
             [name |-> "NULL", list |-> <<>>, crash |-> FALSE], doc)

Is200(s) == s \in {"HTTP/1.1 200 OK", "HTTP/1.1 200", "200 OK"}

\* What follows from the answer to Depth: 0.
Depth0(list) ==
    IF list = <<>> \/ Len(list) > 1 THEN "critical"
    ELSE IF list[1].status = "NULL" THEN "crash"
    ELSE IF ~Is200(list[1].status) THEN "critical"
    ELSE IF list[1].type = "collection" THEN "again" ELSE "judge"

\* An answer with a code other than 207 is critical, one that is no XML UNKNOWN.
\* For a collection the request is made once more, from its start, with Depth: 1;
\* what is in that answer does not matter.
Propfind ==
    /\ pc = "answer"
    /\ LET p == XML_Parse(given.documents[Head(todo) + 1]) IN
        \/ Leave("failed", STATE_CRITICAL) /\ UNCHANGED <<seen, status>>
        \/ Leave("failed", STATE_UNKNOWN) /\ UNCHANGED <<seen, status>>
        \/ p.crash /\ Crash /\ UNCHANGED <<seen, status>>
        \/ /\ ~p.crash
           /\ LET next == IF Head(todo) = 0 THEN Depth0(p.list) ELSE "judge" IN
                /\ CASE next = "critical" -> Leave("failed", STATE_CRITICAL)
                     [] next = "crash" -> Crash
                     [] next = "again" -> Goto("send")
                     [] next = "judge" -> Goto("judge")
                /\ seen' = IF next = "again" THEN [seen EXCEPT !.body = <<>>] ELSE [seen EXCEPT !.list = p.list]
                /\ status' = IF next = "again" THEN 0 ELSE status
    /\ todo' = IF pc' = "send" THEN <<1>> ELSE <<>>
    /\ UNCHANGED given

Found(text, m) == {k \in 1 .. Len(text) - Len(m) + 1 : SubSeq(text, k, k + Len(m) - 1) = m}
Delimited(text, m, k) ==
    /\ k = 1 \/ text[k - 1] = ","
    /\ k + Len(m) > Len(text) \/ text[k + Len(m)] = ","

\* strstr finds the first occurrence, and no other is looked at.
Allowed(text, m) == Found(text, m) # {} /\ Delimited(text, m, Min(Found(text, m)))

Judge ==
    /\ pc = "judge"
    /\ IF \/ given.allow # <<>> /\ seen.Allow = NULL
          \/ given.type # NULL /\ seen.ContentType = NULL
       THEN Crash
       ELSE LET bad == \/ \E k \in DOMAIN given.allow : ~Allowed(seen.Allow, given.allow[k])
                       \/ given.type # NULL /\ seen.ContentType # given.type
            IN  Leave("exited", IF bad THEN STATE_CRITICAL ELSE given.time)
    /\ UNCHANGED <<given, todo, seen, status>>

\* SIGALRM.
Alarm ==
    /\ pc \in {"run", "options", "send", "answer", "judge"}
    /\ Leave("alarmed", STATE_CRITICAL)
    /\ UNCHANGED <<given, todo, seen, status>>

Terminated == pc \in {"usage", "failed", "alarmed", "exited", "crashed"} /\ UNCHANGED vars

Next ==
    \/ process_arguments \/ Call \/ Report
    \/ webdav_arguments \/ Options \/ mp_curl_send_data \/ Propfind \/ Judge
    \/ Alarm \/ Terminated

Spec == Init /\ [][Next]_vars
-----------------------------------------------------------------------------
(* Properties                                                               *)

\* The texts of a field in the order of the document.
TextsOf(name) ==
    {given.tokens[k + 1].value : k \in {j \in 1 .. Len(given.tokens) - 1 : given.tokens[j].name = name}}
LimitsOf(w) == {l \in {w.limits.warn, w.limits.crit} : l.n # NONE}

\* check_apache_status is OK if and only if the slots that are free in its
\* scoreboards are at least n for a limit "n:" and at most n for a limit n, the
\* manual's "exceeds limit": few slots raise an alarm only behind a colon.
\* check_aspsms_credits is OK if and only if the answer has no error and the whole
\* credits are at least n for "n:" and more than n for n; check_tftp is OK only in
\* time.  notify_aspsms says "SMS sent." if and only if the service took the message,
\* and no notification has two texts or none.
WebIsJudged ==
    pc = "exited" /\ ~webdav =>
        CASE given.plugin = "check_apache_status" ->
                LET open == Len(SelectSeq(FlattenSeq([k \in DOMAIN given.lines |->
                                IF given.lines[k].key = "Scoreboard" THEN given.lines[k].slots ELSE <<>>]),
                                LAMBDA c : c = "."))
                IN  (code = STATE_OK) <=>
                        \A l \in LimitsOf(given) : IF l.colon THEN open >= l.n ELSE open <= l.n
          [] given.plugin = "check_tftp" -> code = given.time
          [] given.plugin = "check_aspsms_credits" ->
                code = STATE_OK <=>
                    /\ given.response = 200
                    /\ TextsOf("ErrorCode") = {1}
                    /\ \A c \in TextsOf("Credits") \cup (IF TextsOf("Credits") = {} THEN {0} ELSE {}) :
                            \A l \in LimitsOf(given) : c >= 10 * (IF l.colon THEN l.n ELSE l.n + 1)
          [] given.plugin = "notify_aspsms" ->
                /\ code = 0 <=> given.response = 200 /\ TextsOf("ErrorCode") = {1}
                /\ given.options # <<>> /\ Cardinality(ToSet(given.options)) = 1
          [] given.plugin = "notify_stdout" -> Cardinality(ToSet(given.options)) = 1

\* The values of a header, all lines of the answer together.
Values(key) == {given.headers[k].value : k \in {j \in DOMAIN given.headers : given.headers[j].key = key}}
InList(m) == \E v \in Values("Allow") : \E k \in Found(v, m) : Delimited(v, m, k)
\* A method whose name, or a part of it, occurs once, in a list without blanks and
\* in one header line.
Plain(m) == Cardinality(Values("Allow")) = 1 /\ \A v \in Values("Allow") : Cardinality(Found(v, m)) <= 1

Count(doc, n) == Cardinality({k \in DOMAIN doc : doc[k] = <<"start", n>>})
\* One resource, and the line that says it is there came in one piece.
OneIsThere(doc) ==
    /\ Count(doc, "response") = 1
    /\ \E k \in DOMAIN doc : doc[k] = <<"chars", "HTTP/1.1 200 OK">>

\* check_webdav is OK only if every method asked for is in a list of the server, the
\* type is one it sent, the answers were in time and --ls found one resource that is
\* there; and for methods that occur once it says so.  A resource that is there is
\* not refused because of what was read, provided that its status came in one piece:
\* of several pieces the last one counts, so that OK needs a 200 in a piece, and a
\* status that is cut behind its 200 ends CRITICAL.  Every request is sent whole, the
\* second one too.
WebdavIsJudged == webdav =>
    /\ pc = "exited" /\ code = STATE_OK =>
            /\ \A k \in DOMAIN given.allow : InList(given.allow[k])
            /\ given.type # NULL => given.type \in Values("ContentType")
            /\ given.time = STATE_OK
            /\ given.ls => /\ Count(given.documents[1], "response") = 1
                           /\ \E k \in DOMAIN given.documents[1] : Is200(given.documents[1][k][2])
    /\ pc = "exited" /\ code # STATE_OK =>
            \/ given.time # STATE_OK
            \/ \E k \in DOMAIN given.allow : ~InList(given.allow[k]) \/ ~Plain(given.allow[k])
            \/ given.type # NULL /\ Values("ContentType") # {given.type}
    /\ pc \in {"failed", "crashed"} /\ seen.list # <<>> => ~OneIsThere(given.documents[1])
    /\ pc = "answer" => seen.body = Body
=============================================================================
