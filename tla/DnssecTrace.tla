---------------------------- MODULE DnssecTrace ----------------------------
(***************************************************************************)
(* dns/check_dnssec_trace.c: the keys of every name between a trace start   *)
(* and a domain are fetched top down, each validated by those found before, *)
(* and the SOA and NS records of the domain are verified with them.  The    *)
(* records come from one server, the keys from another, and any answer may  *)
(* be lost.                                                                 *)
(*                                                                         *)
(* Names are levels, 0 for the trace start.  A key is <<level, name>>, a    *)
(* signature the key that made it.                                          *)
(***************************************************************************)
EXTENDS Integers, FiniteSets

CONSTANT Worlds     \* what the servers hold and what the command line says: a
                    \* record with the `names` from the trace start down, each with
                    \* its `keys`, their signatures `signed`, the keys its `ds`
                    \* records name and their signatures `dssigned`; the `trusted`
                    \* keys; the signatures of `soa` and `ns`; whether the domain
                    \* is a `subdomain` of the trace start

VARIABLES
    given,      \* one of Worlds
    todo,       \* i: the keys of level Depth - i are fetched next
    seen,       \* rrl_valid_keys
    status,     \* has an answer been lost?
    pc,         \* "start", "soa", "ns", "keys", "exited", "crashed", or
                \* "usage", "failed", "alarmed" for those exits
    code        \* exit code, -1 while running

vars == <<given, todo, seen, status, pc, code>>

STATE_OK == 0
STATE_CRITICAL == 2
STATE_UNKNOWN == 3

Depth == Cardinality(DOMAIN given.names) - 1

Init ==
    /\ given \in Worlds
    /\ todo = Depth
    /\ seen = {}
    /\ status = "complete"
    /\ pc = "start"
    /\ code = -1

Leave(how, s) == pc' = how /\ code' = s
Goto(l) == pc' = l /\ UNCHANGED code

\* process_arguments: no domain, names that are none and a key file that cannot
\* be read; no argument at all prints the help.
process_arguments ==
    /\ pc = "start"
    /\ Leave("usage", STATE_UNKNOWN) \/ Leave("usage", STATE_OK)
    /\ UNCHANGED <<given, todo, seen, status>>

\* Only trusted keys of the trace start count.  createResolver may fail.
TrustedKeys ==
    /\ pc = "start"
    /\ seen' = {k \in given.trusted : k[1] = 0}
    /\ \/ ~given.subdomain /\ Leave("failed", STATE_UNKNOWN)
       \/ given.subdomain /\ seen' = {} /\ Leave("failed", STATE_CRITICAL)
       \/ given.subdomain /\ seen' # {} /\ (Goto("soa") \/ Leave("failed", STATE_UNKNOWN))
    /\ UNCHANGED <<given, todo, status>>

\* No answer, a name that does not exist, no SOA.  Without a signature the name
\* of the trace start is freed, which malloc never saw, before the exit.
QuerySoa ==
    /\ pc = "soa"
    /\ \/ Leave("failed", STATE_CRITICAL)
       \/ given.soa = {} /\ pc' = "crashed" /\ UNCHANGED code
       \/ given.soa # {} /\ Goto("ns")
    /\ UNCHANGED <<given, todo, seen, status>>

\* The answer is used even if there is none.  The resolver is made again, for -R.
QueryNs ==
    /\ pc = "ns"
    /\ Goto("keys") \/ Leave("failed", STATE_UNKNOWN) \/ (pc' = "crashed" /\ UNCHANGED code)
    /\ UNCHANGED <<given, todo, seen, status>>

\* The keys of level l verify: the set is signed by one of `known`, or by one that
\* a DS names that is signed by one of `known` or by a key found `above`.
Verifies(l, known, above) ==
    LET n == given.names[l] IN
    \/ n.signed \cap n.keys \cap known # {}
    \/ n.dssigned \cap (known \cup above) # {} /\ n.ds \cap n.signed \cap n.keys # {}

\* The function calls itself for the parent of a name; it returns the keys `found`
\* where those of each level on the way verify or do not (`valid`).
ldns_fetch_valid_domain_keys(level, known, found) ==
    \E valid \in [0 .. level -> BOOLEAN] :
        LET Found(l) == IF l >= 0 /\ valid[l] THEN given.names[l].keys ELSE {} IN
        /\ \A l \in 0 .. level : valid[l] = Verifies(l, known, Found(l - 1))
        /\ found = Found(level)

\* Defect: keys count before they are validated.
FetchKeys_all ==
    /\ pc = "keys"
    /\ todo >= 0
    /\ seen' = seen \cup given.names[Depth - todo].keys
    /\ todo' = todo - 1
    /\ UNCHANGED <<given, status, pc, code>>

\* One turn of the loop that fetches valid keys from top down.
FetchKeys ==
    /\ pc = "keys"
    /\ todo >= 0
    /\ \/ \E found \in {{}, given.names[Depth - todo].keys} :
             /\ ldns_fetch_valid_domain_keys(Depth - todo, seen, found)
             /\ seen' = seen \cup found
             /\ UNCHANGED status
       \/ status' = "lost" /\ UNCHANGED seen
    /\ todo' = todo - 1
    /\ UNCHANGED <<given, pc, code>>

\* ldns_verify_rrsig_keylist for each signature of the SOA, then of the NS.
Verify ==
    /\ pc = "keys"
    /\ todo < 0
    /\ Leave("exited", IF given.soa \cap seen = {} \/ given.ns \cap seen = {}
                       THEN STATE_CRITICAL ELSE STATE_OK)
    /\ UNCHANGED <<given, todo, seen, status>>

\* SIGALRM.
Alarm ==
    /\ pc \in {"soa", "ns", "keys"}
    /\ Leave("alarmed", STATE_CRITICAL)
    /\ UNCHANGED <<given, todo, seen, status>>

Terminated == pc \in {"usage", "failed", "exited", "crashed", "alarmed"} /\ UNCHANGED vars

Next ==
    \/ process_arguments
    \/ TrustedKeys
    \/ QuerySoa
    \/ QueryNs
    \/ FetchKeys
    \/ Verify
    \/ Alarm
    \/ Terminated
Spec == Init /\ [][Next]_vars
-----------------------------------------------------------------------------
(* Properties                                                               *)

Name(l) == given.names[l]
\* The keys of a level are signed by a key that is trusted for the trace start.
Anchored(l) == l = 0 /\ Name(0).signed \cap Name(0).keys \cap given.trusted # {}
\* They are signed by one of them that a DS names, signed by a key of level m or
\* a trusted one.
Delegated(m, l) ==
    /\ m < l
    /\ Name(l).dssigned \cap Name(m).keys # {}
    /\ Name(l).ds \cap Name(l).signed \cap Name(l).keys # {}
Directly(l) ==
    /\ Name(l).dssigned \cap {k \in given.trusted : k[1] = 0} # {}
    /\ Name(l).ds \cap Name(l).signed \cap Name(l).keys # {}

\* There is a chain of trust from the trace start to the keys of level n.
Chain(n) ==
    \E T \in SUBSET (0 .. Depth) :
        /\ n \in T
        /\ \A l \in T : Anchored(l) \/ Directly(l) \/ \E m \in T : Delegated(m, l)

\* Keys whose signatures count: those of names with a chain of trust and the
\* trusted ones themselves.
Attested ==
    (UNION {Name(l).keys : l \in {n \in 0 .. Depth : Chain(n)}}) \cup {k \in given.trusted : k[1] = 0}

\* check_dnssec_trace is OK only if an unbroken chain of trust leads from the
\* trusted keys to signatures of both record sets, whatever answers are lost, and
\* it is OK if there is one and none was lost.
TraceIsTrust ==
    /\ seen \subseteq Attested
    /\ pc = "exited" =>
        LET proved == given.soa \cap Attested # {} /\ given.ns \cap Attested # {} IN
        /\ code = STATE_OK => proved
        /\ proved /\ status = "complete" => code = STATE_OK
-----------------------------------------------------------------------------
(* Why it holds                                                             *)

\* A key belongs to the name that publishes it, and the zones above a name sign
\* its DS records.
Legal(w) ==
    /\ IsFiniteSet(DOMAIN w.names) /\ DOMAIN w.names # {}
    /\ DOMAIN w.names = 0 .. Cardinality(DOMAIN w.names) - 1
    /\ \A l \in DOMAIN w.names : /\ \A k \in w.names[l].keys : k[1] = l
                                 /\ \A k \in w.names[l].dssigned : k[1] < l

\* What was found is attested, and nothing above the next level was missed
\* unless an answer was.
IInv ==
    /\ given \in Worlds
    /\ todo \in -1 .. Depth
    /\ seen \subseteq Attested
    /\ pc \in {"soa", "ns", "keys"} => {k \in given.trusted : k[1] = 0} \subseteq seen
    /\ pc \in {"start", "soa", "ns"} => todo = Depth
    /\ pc = "keys" /\ status = "complete" =>
        \A l \in 0 .. Depth : l < Depth - todo /\ Chain(l) => Name(l).keys \subseteq seen
    /\ TraceIsTrust
=============================================================================
