----------------------------- MODULE ListChecks -----------------------------
(***************************************************************************)
(* Servers that are asked for a list, and judged item by item:              *)
(* cups/check_cups_jobs.c (printers and their jobs),                        *)
(* xmlrpc/check_rhn_entitlements.c (entitlements of systems and channels);  *)
(* and smb/check_smb_share.c, xmlrpc/check_koji_builder.c and               *)
(* check_koji_hub.c with lib/xmlrpc_utils.c, which make their calls one     *)
(* after the other and judge one answer.                                    *)
(***************************************************************************)
EXTENDS Integers, Sequences, SequencesExt

CONSTANT Worlds     \* plugin, options and answers of the server, as a record

VARIABLES
    given,      \* one of Worlds
    todo,       \* calls that are still to be made, then the items of the list
    seen,       \* jobs_num and jobs_total; or the items that were judged
    status,     \* state
    pc,         \* "start", "run", "exited", "crashed", or "usage", "failed", "alarmed"
                \* for those exits
    code        \* exit code, -1 while running

vars == <<given, todo, seen, status, pc, code>>

STATE_OK == 0
STATE_WARNING == 1
STATE_CRITICAL == 2
STATE_UNKNOWN == 3
NONE == -1      \* a limit that is not given

Worst(a, b) == IF a < b THEN b ELSE a

Init ==
    /\ given \in Worlds
    /\ todo = <<>>
    /\ seen = <<0, 0>>
    /\ status = STATE_OK
    /\ pc = "start"
    /\ code = -1

Leave(how, s) == pc' = how /\ code' = s
Crash == pc' = "crashed" /\ UNCHANGED code

\* A range from 0 to the limit.
Outside(v, limit) == limit # NONE /\ (v < 0 \/ v > limit)
get_status(v, limits) ==
    IF Outside(v, limits.crit) THEN STATE_CRITICAL
    ELSE IF Outside(v, limits.warn) THEN STATE_WARNING ELSE STATE_OK

-----------------------------------------------------------------------------
(* check_cups_jobs                                                          *)

\* Of the printers that were asked for, or of all of them.  A server that does not
\* answer has no printers, and a printer that it does not have ends the plugin.
Dests ==
    IF given.printer = <<>> THEN given.server
    ELSE [k \in DOMAIN given.printer |->
            given.server[SelectInSeq(given.server, LAMBDA d : d.name = given.printer[k])]]
Missing == \E k \in DOMAIN given.printer : ~\E j \in DOMAIN given.server : given.server[j].name = given.printer[k]

\* -1 for a printer whose jobs cannot be read.
JobsOf(d) == IF d.jobs = <<NONE>> THEN -1 ELSE Len(d.jobs)
Ages(d) ==
    LET found == {get_status(d.jobs[k], given.times) : k \in 1 .. JobsOf(d)}
    IN  CHOOSE s \in found \cup {STATE_OK} : \A r \in found : r <= s

\* One printer: the number of its jobs, unless they are summed up, and their age.
cupsGetJobs ==
    /\ pc = "run"
    /\ given.plugin = "check_cups_jobs"
    /\ todo # <<>>
    /\ LET d == Head(todo)
           jobs_num == JobsOf(d)
       IN  /\ seen' = <<jobs_num, seen[2] + jobs_num>>
           /\ status' = Worst(Worst(status, IF given.summerize THEN STATE_OK ELSE get_status(jobs_num, given.counts)),
                              Ages(d))
    /\ todo' = Tail(todo)
    /\ UNCHANGED <<given, pc, code>>

\* The sum is printed, and the number of the last printer is judged.
check_cups_jobs ==
    /\ pc = "run"
    /\ given.plugin = "check_cups_jobs"
    /\ todo = <<>>
    /\ Leave("exited", IF given.summerize THEN Worst(status, get_status(seen[1], given.counts)) ELSE status)
    /\ UNCHANGED <<given, todo, seen, status>>

-----------------------------------------------------------------------------
(* check_rhn_entitlements                                                   *)

\* Free slots: "n:" warns below n, and n alone, inside 0 to n.
Free(v, limit) == IF limit.colon THEN v < limit.n ELSE v >= 0 /\ v <= limit.n
rhn_status(v, limits) ==
    IF Free(v, limits.crit) THEN STATE_CRITICAL
    ELSE IF Free(v, limits.warn) THEN STATE_WARNING ELSE STATE_OK

\* Systems before channels.  What the server does not list is not missed.
Entitlements ==
    (IF given.system_name = {} THEN <<>> ELSE given.system)
    \o IF given.channel_name = {} THEN <<>> ELSE given.channel
AskedFor(item) == item.label \in IF item.kind = "system" THEN given.system_name ELSE given.channel_name

\* One item; its label is read before anybody knows that it is asked for, and a
\* field that is missing ends the plugin.
Entitlement ==
    /\ pc = "run"
    /\ given.plugin = "check_rhn_entitlements"
    /\ todo # <<>>
    /\ LET item == Head(todo) IN
       \/ /\ ~AskedFor(item)
          /\ UNCHANGED <<seen, status, pc, code>>
       \/ /\ AskedFor(item)
          /\ seen' = Append(seen, item)
          /\ status' = Worst(status, rhn_status(item.total_slots - item.used_slots, given.limits))
          /\ UNCHANGED <<pc, code>>
       \/ Leave("failed", STATE_UNKNOWN) /\ UNCHANGED <<seen, status>>
    /\ todo' = Tail(todo)
    /\ UNCHANGED given

\* The line is the text of the items that were judged; without one there is none.
check_rhn_entitlements ==
    /\ pc = "run"
    /\ given.plugin = "check_rhn_entitlements"
    /\ todo = <<>>
    /\ IF seen = <<>> THEN Crash ELSE Leave("exited", status)
    /\ UNCHANGED <<given, todo, seen, status>>

-----------------------------------------------------------------------------
(* Calls one after the other                                                *)

mp_xmlrpc_init == <<"xmlrpc_client_init2">>
Calls ==
    CASE given.plugin = "check_smb_share" -> <<"smbc_new_context", "smbc_init_context", "smbc_opendir">>
      [] given.plugin = "check_koji_builder" ->
            mp_xmlrpc_init \o <<"getHost", "struct", "decompose host", "listTasks", "decompose tasks">>
      [] given.plugin = "check_koji_hub" ->
            mp_xmlrpc_init \o <<"getAPIVersion", "parse">>
            \o IF given.mp_showperfdata THEN <<"multiCall">> ELSE <<>>
      [] given.plugin = "check_rhn_entitlements" ->
            mp_xmlrpc_init \o <<"auth.login", "key", "satellite.listEntitlements", "STRUCT">>
      [] OTHER -> <<"cupsGetDests">>

Call ==
    /\ pc = "calls"
    /\ given.plugin = "check_cups_jobs" => given.alive
    /\ \/ /\ Len(todo) > 1
          /\ todo' = Tail(todo)
          /\ UNCHANGED <<seen, pc, code>>
       \/ /\ Len(todo) = 1
          /\ pc' = IF given.plugin = "check_cups_jobs" /\ Missing THEN "crashed" ELSE "run"
          /\ seen' = IF given.plugin = "check_rhn_entitlements" THEN <<>> ELSE seen
          /\ todo' = CASE given.plugin = "check_cups_jobs" /\ ~Missing -> Dests
                       [] given.plugin = "check_rhn_entitlements" -> Entitlements
                       [] OTHER -> <<>>
          /\ UNCHANGED code
    /\ UNCHANGED <<given, status>>

\* unknown_if_xmlrpc_fault, but for: a print server that does not answer, which has
\* no printers; a hub or a share that does not, and a builder the hub does not know;
\* a login that returns no key, which goes on with a fault and a pointer nobody set;
\* and the statistics of the hub, which nobody misses.
Fail ==
    /\ pc = "calls"
    /\ Head(todo) # "multiCall"
    /\ given.plugin = "check_cups_jobs" => ~given.alive
    /\ CASE Head(todo) = "cupsGetDests" ->
                IF given.printer = <<>> THEN pc' = "run" /\ UNCHANGED code ELSE Crash
         [] Head(todo) = "key" -> Leave("failed", STATE_UNKNOWN) \/ Crash
         [] Head(todo) \in {"smbc_new_context", "smbc_init_context", "smbc_opendir", "getAPIVersion", "struct"} ->
                Leave("failed", STATE_CRITICAL)
         [] OTHER -> Leave("failed", STATE_UNKNOWN)
    /\ todo' = <<>>
    /\ UNCHANGED <<given, seen, status>>

check_smb_share == get_status(given.time, given.times)
check_koji_builder ==
    IF ~given.enabled THEN STATE_CRITICAL ELSE IF ~given.ready THEN STATE_WARNING ELSE STATE_OK
check_koji_hub == get_status(given.time, given.times)

Report ==
    /\ pc = "run"
    /\ \/ given.plugin = "check_smb_share" /\ Leave("exited", check_smb_share)
       \/ given.plugin = "check_koji_builder" /\ Leave("exited", check_koji_builder)
       \/ given.plugin = "check_koji_hub" /\ Leave("exited", check_koji_hub)
    /\ UNCHANGED <<given, todo, seen, status>>

-----------------------------------------------------------------------------
(* Options                                                                  *)

\* check_smb_share: an smb or cifs url; a user needs a password.
smb_arguments == given.scheme \in {"smb", "cifs"} /\ (given.username => given.password)
koji_builder_arguments == given.scheme \in {"http", "https"} /\ given.hostname
koji_hub_arguments == given.scheme \in {"http", "https"}
rhn_arguments == given.user /\ given.pass /\ (given.system_name # {} \/ given.channel_name # {})

process_arguments ==
    /\ pc = "start"
    /\ \/ Leave("usage", STATE_UNKNOWN) /\ UNCHANGED todo
       \/ Leave("usage", STATE_OK) /\ UNCHANGED todo
       \/ /\ CASE given.plugin = "check_smb_share" -> smb_arguments
               [] given.plugin = "check_koji_builder" -> koji_builder_arguments
               [] given.plugin = "check_koji_hub" -> koji_hub_arguments
               [] given.plugin = "check_rhn_entitlements" -> rhn_arguments
               [] OTHER -> TRUE
          /\ pc' = "calls" /\ todo' = Calls /\ UNCHANGED code
    /\ UNCHANGED <<given, seen, status>>

\* SIGALRM.
Alarm ==
    /\ pc \in {"calls", "run"}
    /\ Leave("alarmed", STATE_CRITICAL)
    /\ UNCHANGED <<given, todo, seen, status>>

Terminated == pc \in {"usage", "failed", "alarmed", "exited", "crashed"} /\ UNCHANGED vars

Next ==
    \/ process_arguments \/ Call \/ Fail
    \/ cupsGetJobs \/ check_cups_jobs \/ Entitlement \/ check_rhn_entitlements \/ Report
    \/ Alarm \/ Terminated

Spec == Init /\ [][Next]_vars
-----------------------------------------------------------------------------
(* Properties                                                               *)

Watched == {d \in ToSet(given.server) : given.printer = <<>> \/ d.name \in ToSet(given.printer)}
Fine(v, limits) == (limits.warn # NONE => v <= limits.warn) /\ (limits.crit # NONE => v <= limits.crit)
Young(d) == d.jobs = <<NONE>> \/ \A k \in DOMAIN d.jobs : Fine(d.jobs[k], given.times)
Readable(d) == d.jobs # <<NONE>> \/ (given.counts.warn = NONE /\ given.counts.crit = NONE)
Items == {i \in ToSet(given.system) \cup ToSet(given.channel) : AskedFor(i)}

\* The manual of check_rhn_entitlements: "if less the FREE entitlement are
\* available"; and the limits that mean it: "n:" does, n alone alerts for n, too,
\* and not for a negative number, of an entitlement used by more than it is for.
Left(i) == i.total_slots - i.used_slots
Scarce(i, limit) == Left(i) < limit.n
Meant(i, limit) == limit.colon \/ (Left(i) >= 0 /\ Left(i) # limit.n)

\* check_cups_jobs is OK if and only if no printer it watches has too many jobs or
\* one that is too old; with --summerize, where the code takes the jobs of the last
\* printer for the sum of all, only the ages are claimed, and of a server that does
\* not answer, which is OK as one without printers, nothing is.
\* check_rhn_entitlements ends with the worst of the entitlements that were asked
\* for and that the server lists, one of them at least: one that has too few slots
\* left, by limits that mean so, is not made up for by any other.
\* check_koji_builder is OK for a builder that is enabled and ready; check_koji_hub
\* and check_smb_share in time.
ListIsJudged ==
    pc = "exited" =>
        CASE given.plugin = "check_cups_jobs" -> given.alive =>
                /\ code = STATE_OK => \A d \in Watched : Young(d)
                /\ ~given.summerize =>
                     (code = STATE_OK <=>
                        \A d \in Watched : /\ Readable(d) /\ Young(d)
                                           /\ d.jobs # <<NONE>> => Fine(Len(d.jobs), given.counts))
          [] given.plugin = "check_rhn_entitlements" ->
                LET warn == given.limits.warn
                    crit == given.limits.crit
                IN  /\ Items # {}
                    /\ \A i \in Items : Meant(i, crit) /\ Scarce(i, crit) => code = STATE_CRITICAL
                    /\ \A i \in Items : Meant(i, warn) /\ Scarce(i, warn) => code # STATE_OK
                    /\ (\A l \in {warn, crit}, i \in Items : Meant(i, l) /\ ~Scarce(i, l))
                       => code = STATE_OK
          [] given.plugin = "check_koji_builder" ->
                (code = STATE_OK) <=> (given.enabled /\ given.ready)
          [] OTHER -> (code = STATE_OK) <=> Fine(given.time, given.times)
-----------------------------------------------------------------------------
(* Why it holds                                                             *)

Limit == {NONE} \cup Nat
LegalLimits(l) == l.warn \in Limit /\ l.crit \in Limit

\* Names of printers are unique, and numbers of jobs, ages and times are not negative.
LegalPrinters(server) ==
    /\ server \in Seq(ToSet(server))
    /\ \A d \in ToSet(server) : d.jobs = <<NONE>> \/ d.jobs \in Seq(Nat)
    /\ \A j, k \in DOMAIN server : server[j].name = server[k].name => j = k
LegalItems(items, kind) ==
    /\ items \in Seq(ToSet(items))
    /\ \A i \in ToSet(items) : i.kind = kind /\ i.total_slots \in Int /\ i.used_slots \in Int
Legal(w) ==
    CASE w.plugin = "check_cups_jobs" ->
            /\ LegalPrinters(w.server) /\ LegalLimits(w.times) /\ LegalLimits(w.counts)
            /\ w.printer \in Seq(ToSet(w.printer)) /\ w.alive \in BOOLEAN /\ w.summerize \in BOOLEAN
      [] w.plugin = "check_rhn_entitlements" ->
            /\ LegalItems(w.system, "system") /\ LegalItems(w.channel, "channel")
            /\ w.limits.warn.n \in Int /\ w.limits.crit.n \in Int
      [] w.plugin = "check_koji_builder" -> w.enabled \in BOOLEAN /\ w.ready \in BOOLEAN
      [] OTHER -> w.plugin \in {"check_smb_share", "check_koji_hub"} /\ w.time \in Nat /\ LegalLimits(w.times)

\* What a printer, or an item, adds to the result.
OfPrinter(d) ==
    Worst(IF given.summerize THEN STATE_OK ELSE get_status(JobsOf(d), given.counts), Ages(d))
OfItem(i) == rhn_status(i.total_slots - i.used_slots, given.limits)

RhnCalls == {"xmlrpc_client_init2", "auth.login", "key", "satellite.listEntitlements", "STRUCT"}
PrintersAreKept ==
    /\ todo \in Seq(Watched)
    /\ \A d \in Watched : d \in ToSet(todo) \/ OfPrinter(d) <= status
    /\ status = STATE_OK \/ \E d \in Watched : status = OfPrinter(d)
ItemsAreKept ==
    /\ todo \in Seq(ToSet(Entitlements)) /\ seen \in Seq(Items)
    /\ \A i \in Items : i \in ToSet(todo) \/ OfItem(i) <= status
    /\ IF seen = <<>> THEN status = STATE_OK ELSE \E i \in Items : status = OfItem(i)

IInv ==
    /\ given \in Worlds
    /\ pc \in {"start", "calls"} => status = STATE_OK
    /\ status \in {STATE_OK, STATE_WARNING, STATE_CRITICAL}
    /\ given.plugin = "check_cups_jobs" /\ given.alive =>
        /\ pc \in {"run", "exited"} => PrintersAreKept
        /\ pc = "exited" => /\ todo = <<>>
                            /\ IF given.summerize THEN code = STATE_OK => status = STATE_OK ELSE code = status
    /\ given.plugin = "check_rhn_entitlements" =>
        /\ pc = "calls" => todo # <<>> /\ todo \in Seq(RhnCalls)
        /\ pc \in {"run", "exited"} => ItemsAreKept
        /\ pc = "exited" => todo = <<>> /\ seen # <<>> /\ code = status
    /\ pc = "exited" =>
        CASE given.plugin = "check_koji_builder" -> code = check_koji_builder
          [] given.plugin \in {"check_smb_share", "check_koji_hub"} -> code = get_status(given.time, given.times)
          [] OTHER -> TRUE
=============================================================================
