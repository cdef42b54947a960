----------------------------- MODULE MCVerdicts -----------------------------
(* Checks that read one source after the other and sum up what they found,  *)
(* one of them at a time: a chain of keys, the signatures of a zone, the    *)
(* certificates of files, the answers of a server, and the thresholds they  *)
(* are judged by.                                                           *)
EXTENDS MCShared, Integers, Sequences, FiniteSets

CONSTANTS
    RangeStrings, RangeReadings, RangeMaxes,        \* of MpThresholds
    TraceWorlds,                                    \* of DnssecTrace
    ZoneWorlds, OwnerOf, Width, Now,                \* of DnsChecks
    SignedWarn, SignedCrit,
    CertWorlds, MaxLines,                           \* of Certificates
    Questions,                                      \* of QueryChecks
    Databases, MaxTime, LagWarn, LagCrit,           \* of LdapReplication
    FcgiAnswers, FcgiLengths,                       \* of FastCgi
    ListWorlds                                      \* of ListChecks

VARIABLES
    given, seen, csn

verdictVars == <<check, todo, status, pc, code, given, seen, csn>>

Ranges == INSTANCE MpThresholds WITH
    flavour <- todo, th <- status, resolved <- seen, phase <- pc, judged <- code,
    Strings <- RangeStrings, Readings <- RangeReadings, Maxes <- RangeMaxes
Trace == INSTANCE DnssecTrace WITH Worlds <- TraceWorlds
Zones == INSTANCE DnsChecks WITH Worlds <- ZoneWorlds, Warn <- SignedWarn, Crit <- SignedCrit
Certs == INSTANCE Certificates WITH Worlds <- CertWorlds
Query == INSTANCE QueryChecks
Ldap == INSTANCE LdapReplication WITH Warn <- LagWarn, Crit <- LagCrit
Fcgi == INSTANCE FastCgi WITH Answers <- FcgiAnswers, Lengths <- FcgiLengths
Lists == INSTANCE ListChecks WITH Worlds <- ListWorlds

\* Every world is one the code can meet.
ASSUME VerdictsAssumption ==
    /\ (\A s \in RangeStrings : Ranges!Legal(s)) /\ RangeReadings \subseteq Int /\ RangeMaxes \subseteq Nat
    /\ \A w \in TraceWorlds : Trace!Legal(w)
    /\ Width \in Nat /\ Now \in 1 .. Width - 1 /\ \A w \in ZoneWorlds : Zones!Legal(w)
    /\ \A g \in Questions : Query!Legal(g)
    /\ IsFiniteSet(Databases) /\ MaxTime \in Nat /\ LagWarn \in Nat /\ LagCrit \in Nat
    /\ \A w \in CertWorlds : Certs!Legal(w)
    /\ (\A a \in FcgiAnswers : Fcgi!Legal(a)) /\ \A n \in FcgiLengths : Fcgi!LegalLength(n)
    /\ \A w \in ListWorlds : Lists!Legal(w)

NoServer == csn = 0
NoHistory == seen = 0 /\ status = 0

VerdictsInit ==
    \/ check = "ranges" /\ Ranges!Init /\ NoServer
    \/ check = "trace" /\ Trace!Init /\ NoServer
    \/ check = "zones" /\ Zones!Init /\ NoServer
    \/ check = "certs" /\ Certs!Init /\ NoServer
    \/ check = "query" /\ Query!Init /\ NoServer /\ NoHistory
    \/ check = "ldap" /\ Ldap!Init
    \/ check = "fcgi" /\ Fcgi!Init /\ NoServer
    \/ check = "lists" /\ Lists!Init /\ NoServer

VerdictsNext ==
    \/ check = "ranges" /\ Ranges!Next /\ UNCHANGED <<check, csn>>
    \/ check = "trace" /\ Trace!Next /\ UNCHANGED <<check, csn>>
    \/ check = "zones" /\ Zones!Next /\ UNCHANGED <<check, csn>>
    \/ check = "certs" /\ Certs!Next /\ UNCHANGED <<check, csn>>
    \/ check = "query" /\ Query!Next /\ UNCHANGED <<check, csn, seen, status>>
    \/ check = "ldap" /\ Ldap!Next /\ UNCHANGED check
    \/ check = "fcgi" /\ Fcgi!Next /\ UNCHANGED <<check, csn>>
    \/ check = "lists" /\ Lists!Next /\ UNCHANGED <<check, csn>>

VerdictsSpec == VerdictsInit /\ [][VerdictsNext]_verdictVars
-----------------------------------------------------------------------------
(* Properties                                                               *)

\* A reading is judged as the documented range format says, however its bounds
\* came about.
RangesAreDocumented == check = "ranges" => Ranges!JudgedAsDocumented

\* check_dnssec_trace: OK means an unbroken chain of signatures from a trusted
\* key down to the domain.
TraceIsTrust == check = "trace" => Trace!TraceIsTrust

\* check_dnssec_expiration: the signature that lasts longest decides.
\* check_dns_authoritative: OK if and only if every test is passed.
ZonesAreJudged == check = "zones" => Zones!ExpirationIsJudged /\ Zones!AuthorityIsJudged

\* check_ssl_cert and check_x509_cert: TLS starts only where both sides agreed
\* to it, and the result is the worst certificate's.
CertificatesAreJudged == check = "certs" => Certs!TlsIsAgreed /\ Certs!CertificatesAreJudged

\* The checks that ask one server: what is judged of its answer is there and
\* fine, every part of it, if and only if the check is OK, but for the inputs that
\* QueryChecks!Unclear names (a slave days behind with limits of hours among them);
\* check_ldap_replication raises no alarm for servers in step; a FastCGI answer
\* counts as a whole; and of a list the worst item that was asked for and listed
\* decides, but for the cases that ListChecks!ListIsJudged leaves out.
OkIsTrue ==
    /\ check = "query" => Query!OkIsTrue
    /\ check = "ldap" => Ldap!QuietIsOk
    /\ check = "fcgi" => Fcgi!AnswerIsWhole
    /\ check = "lists" => Lists!ListIsJudged

\* check_x509_cert: "Return critical if certificat expire time limit."
ExpiredIsCritical == check = "certs" => Certs!ExpiredIsCritical

\* check_dnssec_expiration: "Return critical if expires earlier then."
ExpiringIsCritical == check = "zones" => Zones!ExpiringIsCritical

\* check_ldap_replication: "Return critical if replication delay expire time
\* limit."
LateIsCritical == check = "ldap" => Ldap!LateIsCritical
=============================================================================
