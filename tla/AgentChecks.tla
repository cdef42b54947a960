---------------------------- MODULE AgentChecks ----------------------------
(***************************************************************************)
(* Agents that are asked for one thing: snmp/check_interface.c and          *)
(* rhcs/check_rhcsnmp.c with the session lib/snmp_utils.c opens for every   *)
(* SNMP plugin, libvirt/check_libvirt_domain.c and check_libvirtd.c with    *)
(* lib/virt_utils.c.                                                        *)
(***************************************************************************)
EXTENDS Integers, Sequences, SequencesExt

CONSTANT Worlds     \* plugin, options and answers of the agent, as a record

VARIABLES
    given,      \* one of Worlds; its domain changes by itself
    todo,       \* next call, "" when there is none
    session,    \* what mp_snmp_init asks for, or the interfaces of a domain
    status,     \* result of the query, or the state of the domain when it was read
    pc,         \* "start", "run", "exited", "crashed", "silent" for an exit without a
                \* line, or "usage", "failed", "alarmed" for those exits
    code        \* exit code, -1 while running

vars == <<given, todo, session, status, pc, code>>

STATE_OK == 0
STATE_WARNING == 1
STATE_CRITICAL == 2
STATE_UNKNOWN == 3

Init ==
    /\ given \in Worlds
    /\ todo = ""
    /\ session = <<>>
    /\ status = ""
    /\ pc = "start"
    /\ code = -1

Leave(how, s) == pc' = how /\ code' = s
Crash == pc' = "crashed" /\ UNCHANGED code
Goto(call) == todo' = call /\ UNCHANGED <<pc, code>>
At(call) == pc = "run" /\ todo = call
Snmp == given.plugin \in {"check_interface", "check_rhcsnmp"}

-----------------------------------------------------------------------------
(* SNMP session                                                             *)

Session == [version |-> "2", seclevel |-> "", secname |-> "", authpass |-> "", authproto |-> "", refused |-> FALSE]

getopt_snmp(s, o) ==
    CASE o.c = "S" -> IF o.arg \in {"1", "2", "3"} THEN [s EXCEPT !.version = o.arg] ELSE [s EXCEPT !.refused = TRUE]
      [] o.c = "L" -> IF o.arg \in {"noAuthNoPriv", "authNoPriv", "authPriv"} THEN [s EXCEPT !.seclevel = o.arg]
                      ELSE [s EXCEPT !.refused = TRUE]
      [] o.c = "U" -> [s EXCEPT !.secname = o.arg]
      [] o.c = "A" -> [s EXCEPT !.authpass = o.arg]
      [] o.c = "a" -> IF o.arg \in {"MD5", "SHA1"} THEN [s EXCEPT !.authproto = o.arg]
                      ELSE [s EXCEPT !.refused = TRUE]
      [] OTHER -> s

\* A user without a name or a password is followed through a null pointer, whatever
\* the security level.  A key that cannot be made and a session that cannot be opened
\* end the plugin with 1 and a message on stderr.
mp_snmp_init ==
    /\ At("mp_snmp_init")
    /\ IF session.version = "3" /\ (session.secname = "" \/ session.authpass = "")
       THEN Crash /\ UNCHANGED todo
       ELSE \/ /\ session.version = "3" => session.authproto # ""
               /\ Goto("mp_snmp_query")
            \/ Leave("silent", STATE_WARNING) /\ UNCHANGED todo
    /\ UNCHANGED <<given, session, status>>

mp_snmp_query ==
    /\ At("mp_snmp_query")
    /\ status' \in {"STAT_SUCCESS", "STAT_ERROR", "STAT_TIMEOUT"}
    /\ Goto("report")
    /\ UNCHANGED <<given, session>>

-----------------------------------------------------------------------------
(* check_interface                                                          *)

ifOperStatusText == <<"up", "down", "testing", "unknown", "dormant", "notPresent", "lowerLayerDown", "">>

\* The last of --down and --should counts; a text that is not in the table is 9.
Should(n, o) ==
    CASE o.c = "d" -> 2
      [] o.c = "s" -> IF o.arg \in ToSet(ifOperStatusText) THEN IndexFirstSubSeq(<<o.arg>>, ifOperStatusText) ELSE 9
      [] OTHER -> n

interface_arguments == FoldLeft(Should, 1, given.options)

\* Neither the result of the query nor the range of the status is looked at: the
\* text of a status above 8 is read behind the table.
check_interface ==
    /\ At("report")
    /\ given.plugin = "check_interface"
    /\ LET found == status = "STAT_SUCCESS" /\ given.descr IN
       \/ Leave("exited", IF ~found THEN STATE_UNKNOWN
                          ELSE IF given.oper = interface_arguments THEN STATE_OK ELSE STATE_CRITICAL)
       \/ found /\ given.oper > 8 /\ Crash
    /\ UNCHANGED <<given, todo, session, status>>

-----------------------------------------------------------------------------
(* check_rhcsnmp                                                            *)

check_rhcsnmp ==
    /\ At("report")
    /\ given.plugin = "check_rhcsnmp"
    /\ CASE status = "STAT_ERROR" -> Leave("exited", STATE_UNKNOWN)
         [] status = "STAT_TIMEOUT" -> Leave("exited", STATE_CRITICAL)
         [] status = "STAT_SUCCESS" ->
                Leave("exited", IF ~given.name \/ given.status = 255 THEN STATE_UNKNOWN
                                ELSE IF given.status < 2 THEN STATE_OK
                                ELSE IF given.status < 16 THEN STATE_WARNING
                                ELSE STATE_CRITICAL)
    /\ UNCHANGED <<given, todo, session, status>>

-----------------------------------------------------------------------------
(* libvirt                                                                  *)

\* The credentials in the order the hypervisor asks for them; one that was not given
\* is copied through a null pointer.
virt_authCallback ==
    LET bad == SelectInSeq(given.creds, LAMBDA c : c \notin given.options)
    IN  IF bad = 0 THEN "0" ELSE IF given.creds[bad] = "other" THEN "-1" ELSE "crash"

virt_connect ==
    /\ At("virt_connect")
    /\ CASE virt_authCallback = "crash" -> Crash /\ UNCHANGED todo
         [] virt_authCallback = "-1" -> Leave("failed", STATE_CRITICAL) /\ UNCHANGED todo
         [] OTHER -> \/ Goto(IF given.plugin = "check_libvirtd" THEN "virConnectGetType" ELSE "virDomainLookupByName")
                     \/ Leave("failed", STATE_CRITICAL) /\ UNCHANGED todo
    /\ UNCHANGED <<given, session, status>>

\* Three questions one after the other, then the line.
check_libvirtd ==
    /\ pc = "run"
    /\ todo \in {"virConnectGetType", "virConnectGetVersion", "virConnectGetLibVersion", "ok"}
    /\ CASE todo = "ok" -> Leave("exited", STATE_OK) /\ UNCHANGED todo
         [] OTHER -> \/ Goto(CASE todo = "virConnectGetType" -> "virConnectGetVersion"
                               [] todo = "virConnectGetVersion" -> "virConnectGetLibVersion"
                               [] OTHER -> "ok")
                     \/ IF todo = "virConnectGetType" THEN Crash /\ UNCHANGED todo
                        ELSE Leave("failed", STATE_CRITICAL) /\ UNCHANGED todo
    /\ UNCHANGED <<given, session, status>>

\* The hypervisor goes on meanwhile: given.domain is the sequence of the states of the
\* domain, the present one last.  What becomes of it after it was described is not seen.
DomainStates == {"running", "blocked", "paused", "shutdown", "shutoff", "crashed", "other"}
Domain == Last(given.domain)

DomainChanges ==
    /\ pc = "run"
    /\ todo \in {"virDomainLookupByName", "virDomainGetInfo", "virDomainGetXMLDesc"}
    /\ given.plugin = "check_libvirt_domain"
    /\ Len(given.domain) <= given.changes
    /\ \E d \in {"running", "shutoff", "gone"} \ {Domain} : given' = [given EXCEPT !.domain = Append(@, d)]
    /\ UNCHANGED <<todo, session, status, pc, code>>

\* The message for a domain that is not there has no argument for its %s.
virDomainLookupByName ==
    /\ At("virDomainLookupByName")
    /\ \/ Domain # "gone" /\ Goto("virDomainGetInfo")
       \/ /\ UNCHANGED todo
          /\ Leave("failed", STATE_CRITICAL) \/ Crash
    /\ UNCHANGED <<given, session, status>>

\* What the domain is now; it may be something else before the plugin ends.
virDomainGetInfo ==
    /\ At("virDomainGetInfo")
    /\ \/ Domain \in DomainStates /\ status' = Domain /\ Goto("virDomainGetXMLDesc")
       \/ Leave("failed", STATE_CRITICAL) /\ UNCHANGED <<todo, status>>
    /\ UNCHANGED <<given, session>>

Sax == [isDevices |-> FALSE, isInterface |-> FALSE, interface |-> <<>>]

interface_startElement(s, e) ==
    LET devices == s.isDevices \/ e.name = "devices"
        interface == devices /\ (s.isInterface \/ e.name = "interface")
    IN  [isDevices |-> devices, isInterface |-> interface,
         interface |-> IF interface /\ e.name = "target" /\ e.dev # "" THEN Append(s.interface, e.dev)
                       ELSE s.interface]

interface_stopElement(s, e) ==
    IF s.isDevices /\ s.isInterface THEN [s EXCEPT !.isInterface = e.name # "interface"]
    ELSE [s EXCEPT !.isDevices = s.isDevices /\ e.name # "devices"]

Parsed(document) ==
    FoldLeft(LAMBDA s, e : IF e.open THEN interface_startElement(s, e) ELSE interface_stopElement(s, e),
             Sax, document).interface

\* A domain that is gone by now has no description, and its length is asked for.
virDomainGetXMLDesc ==
    /\ At("virDomainGetXMLDesc")
    /\ \/ Domain # "gone" /\ session' = Parsed(given.document) /\ Goto("report")
       \/ Domain # "gone" /\ Leave("failed", STATE_UNKNOWN) /\ UNCHANGED <<todo, session>>
       \/ Crash /\ UNCHANGED <<todo, session>>
    /\ UNCHANGED <<given, status>>

\* Statistics of an interface that cannot be read are left out.
check_libvirt_domain ==
    /\ At("report")
    /\ given.plugin = "check_libvirt_domain"
    /\ Leave("exited", IF status = "running" THEN STATE_OK ELSE STATE_CRITICAL)
    /\ UNCHANGED <<given, todo, session, status>>

-----------------------------------------------------------------------------

\* Too few options print the help; an option that is refused ends the plugin.
process_arguments ==
    /\ pc = "start"
    /\ LET s == FoldLeft(getopt_snmp, Session, given.options) IN
       \/ UNCHANGED <<session, todo>> /\ Leave("usage", STATE_OK)
       \/ UNCHANGED <<session, todo>> /\ Leave("usage", STATE_UNKNOWN)
       \/ /\ Snmp
          /\ ~s.refused
          /\ given.plugin = "check_interface" => interface_arguments <= 7
          /\ session' = s
          /\ pc' = "run" /\ todo' = "mp_snmp_init" /\ UNCHANGED code
       \/ /\ given.plugin = "check_libvirt_domain" => "domain" \in given.options
          /\ ~Snmp
          /\ pc' = "run" /\ todo' = "virt_connect" /\ UNCHANGED <<code, session>>
    /\ UNCHANGED <<given, status>>

\* SIGALRM.
Alarm ==
    /\ pc = "run"
    /\ Leave("alarmed", STATE_CRITICAL)
    /\ UNCHANGED <<given, todo, session, status>>

Terminated == pc \in {"usage", "failed", "alarmed", "exited", "silent", "crashed"} /\ UNCHANGED vars

Next ==
    \/ process_arguments \/ mp_snmp_init \/ mp_snmp_query \/ check_interface \/ check_rhcsnmp
    \/ virt_connect \/ check_libvirtd \/ DomainChanges \/ virDomainLookupByName \/ virDomainGetInfo
    \/ virDomainGetXMLDesc \/ check_libvirt_domain
    \/ Alarm \/ Terminated

Spec == Init /\ [][Next]_vars
-----------------------------------------------------------------------------
(* Properties                                                               *)

\* The arguments an option was given, in their order.
ArgsOf(c) == SelectSeq(given.options, LAMBDA o : o.c = c)

\* Elements that are open before event k.
OpenAt(k) ==
    {n \in {"devices", "interface"} :
        Len(SelectSeq(SubSeq(given.document, 1, k - 1), LAMBDA e : e.name = n /\ e.open))
            > Len(SelectSeq(SubSeq(given.document, 1, k - 1), LAMBDA e : e.name = n /\ ~e.open))}
Targets ==
    {given.document[k].dev : k \in {j \in DOMAIN given.document :
        given.document[j].name = "target" /\ given.document[j].open /\ given.document[j].dev # ""
        /\ OpenAt(j) = {"devices", "interface"}}}

\* An SNMP plugin that ends by its answer talked the version that was asked for last,
\* with a user and a key when it needs them; without -S nothing is said of the
\* version, which is 2c and by the help "(default to v1)".  check_interface is OK if
\* and only if the interface is as the last option wants it; check_rhcsnmp if and
\* only if the agent said that the cluster is.  check_libvirt_domain is OK only for a
\* domain that was running at some time since it was looked for, and CRITICAL only
\* for one that was not; a domain that is gone when it is described has no
\* verdict, and of one that has, the network interfaces and no other device are known.
AgentIsJudged ==
    pc = "exited" =>
        /\ Snmp => /\ ArgsOf("S") # <<>> => session.version = Last(ArgsOf("S")).arg
                   /\ session.version = "3" => session.secname # "" /\ session.authpass # "" /\ session.authproto # ""
        /\ CASE given.plugin = "check_interface" ->
                  code = STATE_OK <=>
                    /\ status = "STAT_SUCCESS" /\ given.descr
                    /\ LET wishes == SelectSeq(given.options, LAMBDA o : o.c \in {"d", "s"})
                           wish == IF wishes = <<>> THEN "up" ELSE IF Last(wishes).c = "d" THEN "down" ELSE Last(wishes).arg
                       IN  given.oper \in 1 .. 7 /\ ifOperStatusText[given.oper] = wish
             [] given.plugin = "check_rhcsnmp" ->
                  code = STATE_OK <=> status = "STAT_SUCCESS" /\ given.name /\ given.status < 2
             [] given.plugin = "check_libvirt_domain" ->
                  /\ Domain # "gone"
                  /\ code = STATE_OK => "running" \in ToSet(given.domain)
                  /\ code # STATE_OK => ToSet(given.domain) # {"running"}
                  /\ ToSet(session) = Targets
             [] OTHER -> code = STATE_OK
=============================================================================
