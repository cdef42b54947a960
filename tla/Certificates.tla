---------------------------- MODULE Certificates ----------------------------
(***************************************************************************)
(* gnutls/check_ssl_cert.c and check_x509_cert.c: certificates of a server,  *)
(* for some protocols after it was asked to change to TLS, and of files.    *)
(*                                                                         *)
(* Of a line only what the code looks for is kept: `at` is "ok" for the     *)
(* beginning that is waited for ("220 ", "250 ", "+OK ", "* OK", "a001 OK "), *)
(* "more" for a line that goes on ("250-", or any of IMAP), "bad" for one   *)
(* that ends the dialogue; `tls` says whether it offers STARTTLS.           *)
(***************************************************************************)
EXTENDS Integers, Sequences, SequencesExt

CONSTANTS
    Worlds,         \* plugin, options and certificates, as a record
    MaxLines        \* lines of the answer that lists what the server can

VARIABLES
    given,      \* one of Worlds
    todo,       \* trust files or certificate files that are still to be looked at
    seen,       \* the lines received
    status,     \* the worst state so far
    pc,         \* "start", "banner", "capability", "starttls", "tls", "judge", "exited",
                \* or "usage", "failed", "alarmed" for those exits
    code        \* exit code, -1 while running

vars == <<given, todo, seen, status, pc, code>>

STATE_OK == 0
STATE_WARNING == 1
STATE_CRITICAL == 2
STATE_UNKNOWN == 3

Line == [at : {"ok", "more", "bad"}, tls : BOOLEAN]

Init ==
    /\ given \in Worlds
    /\ todo = <<>>
    /\ seen = <<>>
    /\ status = STATE_OK
    /\ pc = "start"
    /\ code = -1

Leave(how, s) == pc' = how /\ code' = s
Goto(l) == pc' = l /\ UNCHANGED code
Worse(a, b) == IF a > b THEN a ELSE b

\* A range "N:" (from N on it is fine), or "N", which getopt_wc_time_at turns
\* into an alert between 0 and N.
check_range(v, r) == IF r.colon THEN v < r.n ELSE 0 <= v /\ v <= r.n
get_status(v, t) == IF check_range(v, t.crit) THEN STATE_CRITICAL
                    ELSE IF check_range(v, t.warn) THEN STATE_WARNING ELSE STATE_OK

\* Host and port, or a file that exists, are mandatory; mp_connect is critical.
process_arguments ==
    /\ pc = "start"
    /\ \/ Leave("usage", STATE_UNKNOWN) /\ UNCHANGED todo
       \/ /\ given.plugin = "check_x509_cert"
          /\ IF given.files = <<>> THEN Leave("usage", STATE_UNKNOWN) ELSE Goto("judge")
          /\ todo' = given.files
       \/ /\ given.plugin = "check_ssl_cert"
          /\ \/ Leave("failed", STATE_CRITICAL)
             \/ given.starttls = "none" /\ Goto("tls")
             \/ given.starttls \in {"smtp", "pop", "imap"} /\ Goto("banner")
             \/ given.starttls = "other" /\ Leave("failed", STATE_UNKNOWN)
          /\ UNCHANGED todo
    /\ UNCHANGED <<given, seen, status>>

\* mp_recv_line; a closed connection gives no line, and the alarm comes.
Receive(l) == seen' = Append(seen, l) /\ UNCHANGED <<given, todo, status>>

\* Wait for banner.  POP3 servers are not asked what they can.
Banner ==
    /\ pc = "banner"
    /\ \E l \in Line :
        /\ Receive(l)
        /\ IF l.at # "ok" THEN Leave("failed", STATE_UNKNOWN)
           ELSE IF given.starttls = "pop" THEN Goto("starttls") ELSE Goto("capability")

Offered == \E k \in 2 .. Len(seen) : seen[k].tls

\* One line of the answer to EHLO or CAPABILITY.
Capability ==
    /\ pc = "capability"
    /\ Len(seen) <= MaxLines
    /\ \E l \in Line :
        /\ Receive(l)
        /\ IF l.at = "bad" THEN Leave("failed", STATE_CRITICAL)
           ELSE IF l.at = "more" THEN UNCHANGED <<pc, code>>
           ELSE IF Offered' THEN Goto("starttls") ELSE Leave("failed", STATE_CRITICAL)

\* Ask for STARTTLS, check reply.
Starttls ==
    /\ pc = "starttls"
    /\ \E l \in Line :
        /\ Receive(l)
        /\ IF l.at = "ok" THEN Goto("tls") ELSE Leave("failed", STATE_UNKNOWN)

\* No handshake is UNKNOWN; no certificate, one that cannot be read or verified
\* is critical.  gnutls_certificate_verify_peers2 tells certificates that are
\* expired or not yet active.
Handshake ==
    /\ pc = "tls"
    /\ \/ Leave("failed", STATE_UNKNOWN) /\ UNCHANGED <<todo, status>>
       \/ Leave("failed", STATE_CRITICAL) /\ UNCHANGED <<todo, status>>
       \/ /\ Goto("judge")
          /\ status' = IF given.cert.expire < 0 \/ ~given.cert.active THEN STATE_CRITICAL
                       ELSE get_status(given.cert.expire, given.limits)
          /\ todo' = given.ca_files
    /\ UNCHANGED <<given, seen>>

\* Every trust file takes the place of the one before it.  One that does not know
\* the issuer, or cannot be read, is named in the output.
TrustFile ==
    /\ pc = "judge"
    /\ given.plugin = "check_ssl_cert"
    /\ todo # <<>>
    /\ \/ Leave("failed", STATE_CRITICAL) /\ UNCHANGED status
       \/ /\ UNCHANGED <<pc, code>>
          /\ status' = IF Head(todo) = "trusts" THEN status ELSE STATE_CRITICAL
    /\ todo' = Tail(todo)
    /\ UNCHANGED <<given, seen>>

\* Defect: a later certificate decides alone.
Judged_last(file, before) ==
    IF ~file.readable THEN STATE_CRITICAL
    ELSE IF file.active THEN get_status(file.expire, given.limits) ELSE STATE_CRITICAL

\* One file: set_critical if it cannot be read, holds no certificate, or several,
\* or a subject without a name; its end and its beginning are judged.
Judged(file, before) ==
    IF ~file.readable THEN STATE_CRITICAL
    ELSE Worse(Worse(before, get_status(file.expire, given.limits)),
               IF file.active THEN STATE_OK ELSE STATE_CRITICAL)
CertFile ==
    /\ pc = "judge"
    /\ given.plugin = "check_x509_cert"
    /\ todo # <<>>
    /\ status' = Judged(Head(todo), status)
    /\ todo' = Tail(todo)
    /\ UNCHANGED <<given, seen, pc, code>>

Report ==
    /\ pc = "judge"
    /\ todo = <<>>
    /\ Leave("exited", status)
    /\ UNCHANGED <<given, todo, seen, status>>

\* SIGALRM.
Alarm ==
    /\ pc \in {"banner", "capability", "starttls", "tls", "judge"}
    /\ Leave("alarmed", STATE_CRITICAL)
    /\ UNCHANGED <<given, todo, seen, status>>

Terminated == pc \in {"usage", "failed", "exited", "alarmed"} /\ UNCHANGED vars

Next ==
    \/ process_arguments
    \/ Banner \/ Capability \/ Starttls
    \/ Handshake \/ TrustFile \/ CertFile
    \/ Report
    \/ Alarm
    \/ Terminated
Spec == Init /\ [][Next]_vars
-----------------------------------------------------------------------------
(* Properties                                                               *)

\* check_ssl_cert: TLS begins only after the answer to the request to change, and
\* the request is made only at the end of an answer that offers the change; no
\* line of one answer is taken for the next.
TlsIsAgreed ==
    pc \in {"tls", "judge", "exited"} /\ given.plugin = "check_ssl_cert" /\ given.starttls # "none" =>
        LET n == Len(seen)
            list == {k \in 2 .. n - 1 : TRUE}
        IN /\ n >= 2 /\ seen[1].at = "ok" /\ seen[n].at = "ok"
           /\ given.starttls = "pop" => n = 2
           /\ given.starttls # "pop" =>
                /\ \E k \in list : seen[k].tls
                /\ seen[n - 1].at = "ok"
                /\ \A k \in list \ {n - 1} : seen[k].at = "more"

Soon(expire, r) == expire <= r.n - (IF r.colon THEN 1 ELSE 0)
Verdict(expire, active) ==
    IF ~active \/ Soon(expire, given.limits.crit) THEN STATE_CRITICAL
    ELSE IF Soon(expire, given.limits.warn) THEN STATE_WARNING ELSE STATE_OK
WorstOf(S) == CHOOSE s \in S \cup {STATE_OK} : \A r \in S : r <= s

\* check_ssl_cert and check_x509_cert: the worst certificate decides wherever it
\* stands, an unreadable one is critical, and one trust file of several that does
\* not know the issuer is enough.  (Of files that are expired see
\* ExpiredIsCritical.)
CertificatesAreJudged ==
    /\ pc = "exited" /\ given.plugin = "check_ssl_cert" =>
        code = IF given.cert.expire < 0 \/ "trusts not" \in ToSet(given.ca_files) THEN STATE_CRITICAL
               ELSE Verdict(given.cert.expire, given.cert.active)
    /\ pc = "exited" /\ given.plugin = "check_x509_cert" =>
        LET readable == {f \in ToSet(given.files) : f.readable} IN
        (\A f \in readable : f.expire >= 0 \/ (given.limits.crit.colon /\ given.limits.warn.colon)) =>
            code = IF readable # ToSet(given.files) THEN STATE_CRITICAL
                   ELSE WorstOf({Verdict(f.expire, f.active) : f \in readable})

\* doc/check_x509_cert.xml: "Return critical if certificat expire time limit."
ExpiredIsCritical ==
    pc = "exited" /\ given.plugin = "check_x509_cert" =>
        ((\E f \in ToSet(given.files) : f.readable /\ f.expire <= 0) => code = STATE_CRITICAL)
-----------------------------------------------------------------------------
(* Why they hold                                                            *)

Legal(w) ==
    /\ w.limits.warn.n \in Int /\ w.limits.crit.n \in Int
    /\ \/ /\ w.plugin = "check_ssl_cert"
          /\ w.cert.expire \in Int
          /\ w.ca_files \in Seq({"trusts", "trusts not"})
       \/ /\ w.plugin = "check_x509_cert"
          /\ w.files \in Seq([readable : BOOLEAN, expire : Int, active : BOOLEAN])

Files == IF given.plugin = "check_ssl_cert" THEN given.ca_files ELSE given.files
Done == Len(Files) - Len(todo)

\* What the server said so far is what has to be said before the next step.
DialogueIsKept ==
    LET n == Len(seen) IN
    /\ pc \in {"start", "banner"} => seen = <<>>
    /\ pc \in {"banner", "capability", "starttls", "tls"} => given.plugin = "check_ssl_cert"
    /\ pc \in {"capability", "starttls"} => n >= 1 /\ seen[1].at = "ok"
    /\ pc = "capability" => given.starttls # "pop" /\ \A k \in 2 .. n : seen[k].at = "more"
    /\ pc = "starttls" /\ given.starttls = "pop" => n = 1
    /\ pc = "starttls" /\ given.starttls # "pop" =>
            n >= 2 /\ Offered /\ seen[n].at = "ok" /\ \A k \in 2 .. n - 1 : seen[k].at = "more"

\* The status is the worst of the files that were looked at, and of the
\* certificate the server showed.
StatusIsWorst ==
    IF given.plugin = "check_ssl_cert"
    THEN status = IF \E k \in 1 .. Done : Files[k] = "trusts not" THEN STATE_CRITICAL
                  ELSE IF given.cert.expire < 0 \/ ~given.cert.active THEN STATE_CRITICAL
                  ELSE get_status(given.cert.expire, given.limits)
    ELSE /\ \A k \in 1 .. Done : Judged(Files[k], STATE_OK) <= status
         /\ status = STATE_OK \/ \E k \in 1 .. Done : status = Judged(Files[k], STATE_OK)

IInv ==
    /\ given \in Worlds
    /\ seen \in Seq(Line)
    /\ status \in {STATE_OK, STATE_WARNING, STATE_CRITICAL}
    /\ DialogueIsKept /\ TlsIsAgreed
    /\ pc = "start" => status = STATE_OK
    /\ pc \in {"judge", "exited"} =>
        /\ todo \in Seq(ToSet(Files)) /\ Len(todo) <= Len(Files)
        /\ \A k \in 1 .. Len(todo) : todo[k] = Files[Done + k]
        /\ StatusIsWorst
    /\ pc = "exited" => todo = <<>> /\ code = status
=============================================================================
