------------------------------ MODULE MpCommon ------------------------------
(***************************************************************************)
(* How a plugin reports: lib/mp_common.c.  A check collects messages with  *)
(* set_ok, set_warning, set_critical and set_okonly and leaves through     *)
(* mp_exit, or leaves at once through ok, warning, critical or unknown.    *)
(* Every exit path prints the status line, adds the performance data,      *)
(* frees it and calls exit.  SIGALRM may arrive between any two of these   *)
(* steps; its handler leaves through critical().                           *)
(***************************************************************************)
EXTENDS Integers, Sequences

CONSTANTS
    Messages,       \* what a check has to say
    MaxReports      \* bound: messages a check collects

ASSUME CommonAssumption == MaxReports \in Nat

VARIABLES
    mp_state,       \* worst state so far, -1 before the first message
    out,            \* mp_out_ok, mp_out_warning, mp_out_critical
    okonly,         \* mp_out_okonly, <<>> for NULL
    mp_timeout,     \* whether -t asks for a timeout at all (0 does not)
    mp_showperfdata,
    perfdata,       \* mp_perfdata: "NULL", "live", or "freed" and not NULL
    alarm,          \* "off", "armed", "fired"
    pc,             \* where the plugin is
    path,           \* how it is leaving: "none", "verdict", "mp_exit", "handler"
    status,         \* the state exit will be called with
    line,           \* what stdout received
    code,           \* exit code, -1 while running
    reports         \* the messages collected so far with their states

vars == <<mp_state, out, okonly, mp_timeout, mp_showperfdata, perfdata,
          alarm, pc, path, status, line, code, reports>>

collected == <<mp_state, out, okonly, reports>>
options == <<mp_timeout, mp_showperfdata>>
leaving == <<path, status>>

STATE_OK == 0
STATE_WARNING == 1
STATE_CRITICAL == 2
STATE_UNKNOWN == 3
ABORTED == 134      \* the C library stopped the process

Reported == {STATE_OK, STATE_WARNING, STATE_CRITICAL}

Init ==
    /\ mp_state = -1
    /\ out = [s \in Reported |-> <<>>]
    /\ okonly = <<>>
    /\ mp_timeout \in BOOLEAN
    /\ mp_showperfdata \in BOOLEAN
    /\ perfdata = "NULL"
    /\ alarm = "off"
    /\ pc = "args"
    /\ path = "none"
    /\ status = -1
    /\ line = <<>>
    /\ code = -1
    /\ reports = <<>>

-----------------------------------------------------------------------------
(* main(): arguments, then alarm(mp_timeout), then the check.              *)

\* Defect: the timeout is never started.
StartCheck_noalarm ==
    /\ pc = "args"
    /\ pc' = "check"
    /\ UNCHANGED <<collected, options, leaving, perfdata, alarm, line, code>>

\* alarm(0) starts no timeout.
StartCheck ==
    /\ pc = "args"
    /\ pc' = "check"
    /\ alarm' = IF mp_timeout THEN "armed" ELSE "off"
    /\ UNCHANGED <<collected, options, leaving, perfdata, line, code>>

\* usage(), mp_noneroot_die(): the message and the usage, no status line.
usage ==
    /\ pc = "args"
    /\ pc' = "exited"
    /\ code' = STATE_UNKNOWN
    /\ UNCHANGED <<collected, options, leaving, perfdata, alarm, line>>

\* -h and -V: mp_getopt prints and leaves with 0.
Help ==
    /\ pc = "args"
    /\ pc' = "exited"
    /\ code' = STATE_OK
    /\ UNCHANGED <<collected, options, leaving, perfdata, alarm, line>>

\* The check adds performance data (the string exists only if it is shown).
AddPerfdata ==
    /\ pc = "check"
    /\ perfdata' = IF mp_showperfdata THEN "live" ELSE perfdata
    /\ UNCHANGED <<collected, options, leaving, alarm, pc, line, code>>

-----------------------------------------------------------------------------
(* Collecting messages.                                                    *)

\* What set_ok, set_warning and set_critical share.
Report(s, m) ==
    /\ pc = "check"
    /\ Len(reports) < MaxReports
    /\ mp_state' = IF mp_state < s THEN s ELSE mp_state
    /\ out' = [out EXCEPT ![s] = Append(@, m)]
    /\ reports' = Append(reports, [state |-> s, text |-> m])
    /\ UNCHANGED <<okonly, options, leaving, perfdata, alarm, pc, line, code>>

set_ok(m) == Report(STATE_OK, m)
set_warning(m) == Report(STATE_WARNING, m)
set_critical(m) == Report(STATE_CRITICAL, m)

\* Ignored once something is wrong; replaces an earlier message of its kind.
set_okonly(m) ==
    /\ pc = "check"
    /\ okonly' = IF mp_state > STATE_OK THEN okonly ELSE <<m>>
    /\ UNCHANGED <<mp_state, out, reports, options, leaving, perfdata, alarm, pc, line, code>>

-----------------------------------------------------------------------------
(* Leaving.  A printed piece is a pair <<kind, content>>.                  *)

Status(s) == <<"status", s>>
Text(s, m) == <<"text", s, m>>

\* What ok(), warning(), critical() and unknown() share.
Verdict(s) ==
    /\ path' = "verdict"
    /\ status' = s
    /\ line' = Append(line, Status(s))
    /\ pc' = "perfdata"
    /\ UNCHANGED <<collected, options, perfdata, alarm, code>>

ok       == pc = "check" /\ Verdict(STATE_OK)
warning  == pc = "check" /\ Verdict(STATE_WARNING)
critical == pc = "check" /\ Verdict(STATE_CRITICAL)

\* main() also calls unknown() if process_arguments fails.
unknown  == pc \in {"args", "check"} /\ Verdict(STATE_UNKNOWN)

Texts(s, ms) == [i \in 1 .. Len(ms) |-> Text(s, ms[i])]

\* Defect: the warnings are left out when there are criticals.
mp_exit_worstonly ==
    /\ pc = "check"
    /\ mp_state' = IF mp_state = -1 THEN STATE_OK ELSE mp_state
    /\ line' = Append(line, Status(mp_state')) \o Texts(mp_state', out[mp_state'])
    /\ pc' = "perfdata"
    /\ path' = "mp_exit"
    /\ status' = mp_state'
    /\ UNCHANGED <<out, okonly, reports, options, perfdata, alarm, code>>

\* mp_exit: criticals, warnings, ok messages, and the okonly message if the
\* state is OK.
mp_exit ==
    /\ pc = "check"
    /\ mp_state' = IF mp_state = -1 THEN STATE_OK ELSE mp_state
    /\ line' = Append(line, Status(mp_state'))
               \o Texts(STATE_CRITICAL, out[STATE_CRITICAL])
               \o Texts(STATE_WARNING, out[STATE_WARNING])
               \o Texts(STATE_OK, out[STATE_OK])
               \o (IF mp_state' = STATE_OK THEN Texts(-1, okonly) ELSE <<>>)
    /\ pc' = "perfdata"
    /\ path' = "mp_exit"
    /\ status' = mp_state'
    /\ UNCHANGED <<out, okonly, reports, options, perfdata, alarm, code>>

PrintPerfdata ==
    /\ pc = "perfdata"
    /\ IF perfdata # "NULL"
       THEN line' = Append(line, <<"perfdata">>) /\ pc' = "free"
       ELSE pc' = "newline" /\ UNCHANGED line
    /\ UNCHANGED <<collected, options, leaving, perfdata, alarm, code>>

\* free(mp_perfdata); the pointer keeps its value.  To print and free it a
\* second time is undefined: the C library may notice it and abort.
FreePerfdata ==
    /\ pc = "free"
    /\ perfdata' = "freed"
    /\ \/ pc' = "newline" /\ UNCHANGED code
       \/ perfdata = "freed" /\ pc' = "exited" /\ code' = ABORTED
    /\ UNCHANGED <<collected, options, leaving, alarm, line>>

Newline ==
    /\ pc = "newline"
    /\ line' = Append(line, <<"newline">>)
    /\ pc' = "exit"
    /\ UNCHANGED <<collected, options, leaving, perfdata, alarm, code>>

Exit ==
    /\ pc = "exit"
    /\ pc' = "exited"
    /\ code' = status
    /\ UNCHANGED <<collected, options, leaving, perfdata, alarm, line>>

\* Defect: the handler prints the message and returns to what it interrupted.
timeout_alarm_handler_returns ==
    /\ alarm = "armed"
    /\ pc # "exited"
    /\ alarm' = "fired"
    /\ line' = Append(line, Status(STATE_CRITICAL))
    /\ UNCHANGED <<collected, options, leaving, perfdata, pc, code>>

\* SIGALRM: critical() from the handler, wherever the plugin is.  The path it
\* interrupts, perhaps an exit path halfway through its line, is not resumed.
timeout_alarm_handler ==
    /\ alarm = "armed"
    /\ pc # "exited"
    /\ alarm' = "fired"
    /\ path' = "handler"
    /\ status' = STATE_CRITICAL
    /\ line' = Append(line, Status(STATE_CRITICAL))
    /\ pc' = "perfdata"
    /\ UNCHANGED <<collected, options, perfdata, code>>

Leaving == PrintPerfdata \/ FreePerfdata \/ Newline \/ Exit

Next ==
    \/ StartCheck
    \/ usage
    \/ Help
    \/ AddPerfdata
    \/ \E m \in Messages : \/ set_ok(m) \/ set_warning(m) \/ set_critical(m)
                           \/ set_okonly(m)
    \/ ok \/ warning \/ critical \/ unknown
    \/ mp_exit
    \/ Leaving
    \/ timeout_alarm_handler

\* The exit path never waits and the kernel delivers the signal; a check may
\* wait forever, so its own steps are not fair.
Fairness ==
    /\ WF_vars(StartCheck \/ usage \/ Help)
    /\ WF_vars(Leaving)
    /\ WF_vars(timeout_alarm_handler)

Spec == Init /\ [][Next]_vars /\ Fairness
-----------------------------------------------------------------------------
(* Properties                                                              *)

Pieces == {<<"perfdata">>, <<"newline">>}
          \cup {Status(s) : s \in Reported \cup {STATE_UNKNOWN}}
          \cup {Text(s, m) : s \in Reported \cup {-1}, m \in Messages}

TypeOK ==
    /\ mp_state \in Reported \cup {-1}
    /\ out \in [Reported -> Seq(Messages)]
    /\ okonly \in Seq(Messages)
    /\ mp_timeout \in BOOLEAN
    /\ mp_showperfdata \in BOOLEAN
    /\ perfdata \in {"NULL", "live", "freed"}
    /\ alarm \in {"off", "armed", "fired"}
    /\ pc \in {"args", "check", "perfdata", "free", "newline", "exit", "exited"}
    /\ path \in {"none", "verdict", "mp_exit", "handler"}
    /\ status \in Reported \cup {-1, STATE_UNKNOWN}
    /\ line \in Seq(Pieces)
    /\ code \in Reported \cup {-1, STATE_UNKNOWN, ABORTED}
    /\ reports \in Seq([state : Reported, text : Messages])

Printed(x) == \E i \in DOMAIN line : line[i] = x

\* The exit code and the line of mp_exit tell the same story: the code is the
\* worst reported state, and every collected message is on the line.
LineIsComplete ==
    path = "mp_exit" =>
        /\ line[1] = Status(status)
        /\ \A i \in DOMAIN reports :
              /\ reports[i].state <= status
              /\ Printed(Text(reports[i].state, reports[i].text))
        /\ IF reports = <<>> THEN status = STATE_OK
           ELSE \E i \in DOMAIN reports : reports[i].state = status
        /\ pc = "exited" => code = status

IsStatus(x) == x[1] = "status"
IsNewline(x) == x[1] = "newline"

\* However the signal and an exit path interleave, the last verdict on the
\* line is the exit code and the line is finished.  A second verdict is there
\* only if the signal cut an exit path, and then the plugin is critical; it is
\* aborted only if that path had freed the performance data.
LastVerdictCounts ==
    path # "none" /\ pc = "exited" =>
        IF code = ABORTED
        THEN alarm = "fired" /\ perfdata = "freed"
        ELSE /\ IsNewline(line[Len(line)])
             /\ \E i \in DOMAIN line :
                   /\ line[i] = Status(code)
                   /\ \A j \in DOMAIN line : j > i => ~IsStatus(line[j])
                   /\ (\E j \in 1 .. i - 1 : IsStatus(line[j])) => alarm = "fired"
             /\ alarm = "fired" => code = STATE_CRITICAL

\* With a timeout every plugin exits, however long its check waits.
Terminates == mp_timeout ~> pc = "exited"

-----------------------------------------------------------------------------
(* Why they hold: the parts of the inductive invariant                     *)

\* mp_state is the worst of what was reported.
StateIsWorst ==
    /\ \A i \in DOMAIN reports : reports[i].state <= mp_state
    /\ IF reports = <<>>
       THEN /\ path \in {"none", "verdict"} => mp_state = -1
            /\ path = "mp_exit" => mp_state = STATE_OK
       ELSE \E i \in DOMAIN reports : reports[i].state = mp_state

\* Every message reported is kept with the others of its severity.
TextsAreKept ==
    \A i \in DOMAIN reports :
        \E j \in DOMAIN out[reports[i].state] : out[reports[i].state][j] = reports[i].text

\* Nothing is printed before a plugin leaves; it leaves on one path, which
\* only the signal handler abandons for its own.
OneExit ==
    /\ pc \in {"args", "check"} => path = "none" /\ line = <<>> /\ alarm # "fired"
    /\ pc \in {"perfdata", "free", "newline", "exit"} => path # "none"
    /\ path = "handler" <=> alarm = "fired"
    /\ path = "handler" => status = STATE_CRITICAL
    /\ path = "mp_exit" => status = mp_state /\ line # <<>> /\ line[1] = Status(status)

\* The performance data is freed once on a path: a second time only after the
\* signal.
FreedOnce ==
    perfdata = "freed" => path # "none" /\ (pc \in {"perfdata", "free"} => path = "handler")

\* The last verdict on the line is the one the plugin is leaving with.
LastVerdict ==
    path # "none" =>
        \E i \in DOMAIN line :
            /\ line[i] = Status(status)
            /\ \A j \in DOMAIN line : j > i => ~IsStatus(line[j])
            /\ (\E j \in 1 .. i - 1 : IsStatus(line[j])) => path = "handler"

\* How a path ends: with a newline and the status, or aborted.
EndIsReached ==
    /\ pc = "exit" => line # <<>> /\ IsNewline(line[Len(line)])
    /\ path # "none" /\ pc = "exited" =>
          IF code = ABORTED THEN path = "handler" /\ perfdata = "freed"
          ELSE code = status /\ line # <<>> /\ IsNewline(line[Len(line)])

\* What mp_exit printed.
MessagesArePrinted ==
    path = "mp_exit" =>
        \A i \in DOMAIN reports : Printed(Text(reports[i].state, reports[i].text))

IInv == /\ TypeOK
        /\ StateIsWorst
        /\ TextsAreKept
        /\ OneExit
        /\ FreedOnce
        /\ LastVerdict
        /\ EndIsReached
        /\ MessagesArePrinted

=============================================================================
