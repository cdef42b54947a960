----------------------------- MODULE DnsChecks -----------------------------
(***************************************************************************)
(* dns/check_dnssec_expiration.c, check_dnssec_trust_anchor.c and           *)
(* check_dns_authoritative.c with the helpers of lib/ldns_utils.c.          *)
(*                                                                         *)
(* Times are the 32 bit numbers of the code, of Width values.               *)
(***************************************************************************)
EXTENDS Integers, Sequences, SequencesExt

CONSTANTS
    Worlds,         \* plugin, options and what the servers hold, as a record
    OwnerOf,        \* the owners of the keys of a file
    Width, Now,
    Warn, Crit      \* -w and -c of check_dnssec_expiration, times from which on it is fine

VARIABLES
    given,      \* one of Worlds
    todo,       \* signatures, keys or probes that are still to be looked at
    seen,       \* rr_newest; the owners of invalid keys; the complaints
    status,     \* longest; has an answer been lost?
    pc,         \* "start", "ask", "run", "exited", "crashed", or "usage", "failed",
                \* "alarmed" for those exits
    code        \* exit code, -1 while running

vars == <<given, todo, seen, status, pc, code>>

STATE_OK == 0
STATE_WARNING == 1
STATE_CRITICAL == 2
STATE_UNKNOWN == 3
NoRR == <<>>

Is(p) == given.plugin = p

Init ==
    /\ given \in Worlds
    /\ todo = <<>>
    /\ seen = IF Is("check_dnssec_expiration") THEN NoRR ELSE {}
    /\ status = 0
    /\ pc = "start"
    /\ code = -1

Leave(how, s) == pc' = how /\ code' = s
Goto(l) == pc' = l /\ UNCHANGED code
Crash == pc' = "crashed" /\ UNCHANGED code

-----------------------------------------------------------------------------
(* lib/ldns_utils.c                                                         *)

\* A server of the command line or those of resolv.conf; an address that is
\* none and a file that cannot be read give no resolver.
createResolver(after) == after \/ Leave("failed", STATE_UNKNOWN)

\* One character of loadAnchorfile, a newline outside of quotes ends a line.
\* Only quotes and braces are taken out of the line; a line of the section that
\* is no comment and has no key is the end of the program.
FreshFile == [line |-> <<>>, grouped |-> FALSE, tk_section |-> FALSE, keys |-> <<>>, bad |-> FALSE]
EndOfLine(f) ==
    LET g == [f EXCEPT !.line = <<>>] IN
    IF "trusted-keys" \in ToSet(f.line) THEN [g EXCEPT !.tk_section = TRUE]
    ELSE IF f.line = <<>> \/ ~f.tk_section \/ Head(f.line) \in {"//", ";"} THEN g
    ELSE IF Head(f.line) \notin DOMAIN OwnerOf THEN [g EXCEPT !.bad = TRUE]
    ELSE [g EXCEPT !.keys = Append(@, Head(f.line))]

Char(f, c) ==
    CASE c = "nl" /\ ~f.grouped -> EndOfLine(f)
      [] c = "}" -> [f EXCEPT !.tk_section = FALSE]
      [] c = "quote" -> [f EXCEPT !.grouped = ~@]
      [] OTHER -> [f EXCEPT !.line = Append(@, c)]

loadAnchorfile(text) == EndOfLine(FoldLeft(Char, FreshFile, text))

\* What stands in the file for its statements.
KeyText(k) ==
    (IF k.comment THEN <<"//">> ELSE <<>>)
    \o <<k.key, "quote", "base64">> \o (IF k.folded THEN <<"nl", "base64">> ELSE <<>>) \o <<"quote", ";", "nl">>
StatementText(s) ==
    <<s.name>> \o s.brace \o <<"nl">> \o FlattenSeq([k \in DOMAIN s.keys |-> KeyText(s.keys[k])])
    \o <<"}", ";", "nl">>
FileText(statements) == FlattenSeq([k \in DOMAIN statements |-> StatementText(statements[k])])

-----------------------------------------------------------------------------
(* The checks                                                               *)

\* Mandatory options and files that cannot be read; no argument prints the help.
\* check_dns_authoritative wants a server and does not look for one, and without
\* a file check_dnssec_trust_anchor has nothing to do.
Probes(g) == (IF g.udp THEN <<"udp">> \o (IF g.recursion THEN <<"udp-rec">> ELSE <<>>) ELSE <<>>)
             \o (IF g.tcp THEN <<"tcp">> \o (IF g.recursion THEN <<"tcp-rec">> ELSE <<>>) ELSE <<>>)
             \o (IF g.axfr THEN <<"axfr">> ELSE <<>>)
process_arguments ==
    /\ pc = "start"
    /\ \/ /\ Leave("usage", STATE_UNKNOWN) \/ Leave("usage", STATE_OK)
          /\ UNCHANGED todo
       \/ /\ Is("check_dnssec_expiration")
          /\ createResolver(Goto("ask"))
          /\ UNCHANGED todo
       \/ /\ Is("check_dnssec_trust_anchor")
          /\ LET f == loadAnchorfile(FileText(given.file)) IN
                IF ~given.k THEN createResolver(Goto("run")) /\ UNCHANGED todo
                ELSE IF f.bad THEN Crash /\ UNCHANGED todo
                ELSE IF f.keys = <<>> THEN Leave("usage", STATE_UNKNOWN) /\ UNCHANGED todo
                ELSE createResolver(Goto("run")) /\ todo' = f.keys
       \/ /\ Is("check_dns_authoritative")
          /\ IF given.host THEN Goto("run") ELSE Crash
          /\ todo' = Probes(given)
    /\ UNCHANGED <<given, seen, status>>

\* check_dnssec_expiration asks for the SOA and its signatures, then for the
\* keys; with a file of trusted keys only for those that they validate.  A lost
\* answer is UNKNOWN, a SOA without signatures CRITICAL, and so is an answer
\* without keys, which with such a file is also a lost one.
rrl_keys(g) == IF g.trusted = "other" THEN {} ELSE {"zsk", "ksk"}
QueryKeys ==
    /\ pc = "ask"
    /\ \/ Leave("failed", STATE_UNKNOWN) /\ UNCHANGED todo
       \/ Leave("failed", STATE_CRITICAL) /\ UNCHANGED todo
       \/ rrl_keys(given) # {} /\ given.rrsigs # <<>> /\ todo' = given.rrsigs /\ Goto("run")
    /\ UNCHANGED <<given, seen, status>>

\* A signature that verifies: made by one of the keys, and now is before its end.
Verifies(rr) == rr.by \in rrl_keys(given) /\ Now <= rr.exp
Left(rr) == (rr.exp - rr.ttl) % Width

\* Defect: any signature counts, whoever made it.
LongestRrsig_any ==
    /\ pc = "run"
    /\ Is("check_dnssec_expiration")
    /\ todo # <<>>
    /\ LET rr == Head(todo) IN
        IF Left(rr) > status
        THEN seen' = rr /\ status' = Left(rr)
        ELSE UNCHANGED <<seen, status>>
    /\ todo' = Tail(todo)
    /\ UNCHANGED <<given, pc, code>>

\* Search longest valid rrsig.
LongestRrsig ==
    /\ pc = "run"
    /\ Is("check_dnssec_expiration")
    /\ todo # <<>>
    /\ LET rr == Head(todo) IN
        IF Verifies(rr) /\ Left(rr) > status
        THEN seen' = rr /\ status' = Left(rr)
        ELSE UNCHANGED <<seen, status>>
    /\ todo' = Tail(todo)
    /\ UNCHANGED <<given, pc, code>>

\* get_status for the ranges "N:".
get_status(v) == IF v < Crit THEN STATE_CRITICAL ELSE IF v < Warn THEN STATE_WARNING ELSE STATE_OK

\* exp, ttl and now are unsigned, and so is their difference.
JudgeRrsig ==
    /\ pc = "run"
    /\ Is("check_dnssec_expiration")
    /\ todo = <<>>
    /\ Leave("exited", IF seen = NoRR THEN STATE_CRITICAL
                       ELSE get_status((seen.exp - seen.ttl - Now) % Width))
    /\ UNCHANGED <<given, todo, seen, status>>

\* Every key of the file: its owner is asked for the keys that any of the file
\* validates.  A new resolver is made each time.
TestAnchor ==
    /\ pc = "run"
    /\ Is("check_dnssec_trust_anchor")
    /\ todo # <<>>
    /\ LET owner == OwnerOf[Head(todo)]
           keys == {k \in ToSet(loadAnchorfile(FileText(given.file)).keys) : OwnerOf[k] = owner}
       IN \/ /\ seen' = IF keys \cap given.current = {} THEN seen \cup {owner} ELSE seen
             /\ UNCHANGED status
          \/ seen' = seen \cup {owner} /\ status' = 1
    /\ todo' = Tail(todo)
    /\ Goto("run") \/ Leave("failed", STATE_UNKNOWN)
    /\ UNCHANGED given

\* What is put out for a probe.  Of the recursive answers REFUSED, SERVFAIL and
\* none at all are right.
Complaint(probe, server) ==
    CASE probe \in {"udp", "tcp"} -> server.soa[probe] # "authoritative"
      [] probe = "udp-rec" -> server.rec["udp"] = "answer"
      [] probe = "tcp-rec" -> server.rec["tcp"] = "answer"
      [] probe = "axfr" -> server.axfr
Probe ==
    /\ pc = "run"
    /\ Is("check_dns_authoritative")
    /\ todo # <<>>
    /\ seen' = IF Complaint(Head(todo), given.server) THEN seen \cup {Head(todo)} ELSE seen
    /\ todo' = Tail(todo)
    /\ UNCHANGED <<given, status, pc, code>>

Report ==
    /\ pc = "run"
    /\ ~Is("check_dnssec_expiration")
    /\ todo = <<>>
    /\ Leave("exited", IF seen = {} THEN STATE_OK ELSE STATE_CRITICAL)
    /\ UNCHANGED <<given, todo, seen, status>>

\* SIGALRM.
Alarm ==
    /\ pc \in {"ask", "run"}
    /\ Leave("alarmed", STATE_CRITICAL)
    /\ UNCHANGED <<given, todo, seen, status>>

Terminated == pc \in {"usage", "failed", "exited", "crashed", "alarmed"} /\ UNCHANGED vars

Next ==
    \/ process_arguments
    \/ QueryKeys \/ LongestRrsig \/ JudgeRrsig
    \/ TestAnchor
    \/ Probe
    \/ Report
    \/ Alarm
    \/ Terminated
Spec == Init /\ [][Next]_vars
-----------------------------------------------------------------------------
(* Properties                                                               *)

\* Signatures that hold, by the keys of the zone and in time.
Good == {rr \in ToSet(given.rrsigs) : given.trusted # "other" /\ rr.by # "nobody" /\ Now <= rr.exp}
Slack(rr) == rr.exp - rr.ttl - Now

\* check_dnssec_expiration: wherever it stands in the answer, the signature that
\* lasts longest beyond its time to live decides; without a good one the check is
\* critical.  (Of a signature that ends sooner see ExpiringIsCritical.)
ExpirationIsJudged ==
    pc = "exited" /\ Is("check_dnssec_expiration") =>
        /\ Good = {} => code = STATE_CRITICAL
        /\ \A rr \in Good :
            (Slack(rr) >= 0 /\ \A r \in Good : Slack(r) <= Slack(rr)) => code = get_status(Slack(rr))

\* check_dnssec_trust_anchor: OK if and only if every owner with a key in a
\* trusted-keys statement, on one line or on several, still uses one of them.
AnchorsAreJudged ==
    pc = "exited" /\ Is("check_dnssec_trust_anchor") =>
        LET trusted == {s \in ToSet(given.file) : s.name = "trusted-keys"}
            listed == UNION {{k.key : k \in {l \in ToSet(s.keys) : ~l.comment}} : s \in trusted}
        IN code = STATE_OK <=>
                status = 0 /\ \A k \in listed : \E c \in listed \cap given.current : OwnerOf[c] = OwnerOf[k]

\* check_dns_authoritative: OK if and only if the server passes every test that
\* was not turned off; one that does not answer is not an authority, and one that
\* does not answer strangers is not recursive.
AuthorityIsJudged ==
    pc = "exited" /\ Is("check_dns_authoritative") =>
        LET on == {t \in {"udp", "tcp"} : IF t = "udp" THEN given.udp ELSE given.tcp} IN
        code = STATE_OK <=>
            /\ \A t \in on : given.server.soa[t] = "authoritative"
            /\ \A t \in on : given.recursion => given.server.rec[t] \in {"lost", "refused"}
            /\ given.axfr => ~given.server.axfr

\* doc/check_dnssec_expiration.xml: "Return critical if expires earlier then."
ExpiringIsCritical ==
    pc = "exited" /\ Is("check_dnssec_expiration") =>
        ((\A rr \in Good : rr.exp - Now < Crit) => code = STATE_CRITICAL)
-----------------------------------------------------------------------------
(* Why it holds                                                             *)

\* Times are numbers of the width, and a time to live is shorter than the time
\* since 1970.
Rrsig == [exp : 0 .. Width - 1, ttl : 0 .. Now, by : {"zsk", "ksk", "nobody"}]
Transports == {"udp", "tcp"}
Legal(w) ==
    /\ w.plugin = "check_dnssec_expiration" => w.rrsigs \in Seq(Rrsig)
    /\ w.plugin = "check_dns_authoritative" =>
        /\ {w.host, w.udp, w.tcp, w.recursion, w.axfr} \subseteq BOOLEAN
        /\ w.host => w.server \in [soa : [Transports -> {"lost", "other", "authoritative"}],
                                   rec : [Transports -> {"lost", "refused", "answer"}], axfr : BOOLEAN]

\* rr_newest is a good signature, and none that was looked at lasts longer.
NewestIsLongest ==
    /\ todo \in Seq(Rrsig) /\ ToSet(todo) \subseteq ToSet(given.rrsigs)
    /\ \A rr \in Good : rr \in ToSet(todo) \/ Left(rr) <= status
    /\ \/ seen = NoRR /\ status = 0
       \/ seen \in Good /\ status = Left(seen) /\ status > 0

\* The complaints are those of the probes that were sent.
Tests == {"udp", "udp-rec", "tcp", "tcp-rec", "axfr"}
ComplaintsAreKept ==
    /\ given.host
    /\ todo \in Seq(Tests) /\ ToSet(todo) \subseteq ToSet(Probes(given))
    /\ seen \subseteq {p \in ToSet(Probes(given)) : Complaint(p, given.server)}
    /\ \A p \in ToSet(Probes(given)) : Complaint(p, given.server) => p \in seen \cup ToSet(todo)

IInv ==
    /\ given \in Worlds
    /\ Is("check_dnssec_expiration") =>
        /\ pc \in {"start", "ask"} => seen = NoRR /\ status = 0
        /\ pc \in {"run", "exited"} => NewestIsLongest
        /\ pc = "exited" => /\ todo = <<>>
                            /\ code = IF seen = NoRR THEN STATE_CRITICAL
                                      ELSE get_status((seen.exp - seen.ttl - Now) % Width)
    /\ Is("check_dns_authoritative") =>
        /\ pc \in {"start", "ask"} => pc = "start" /\ seen = {}
        /\ pc \in {"run", "exited"} => ComplaintsAreKept
        /\ pc = "exited" => todo = <<>> /\ code = IF seen = {} THEN STATE_OK ELSE STATE_CRITICAL
=============================================================================
