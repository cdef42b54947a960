------------------------------- MODULE AtModem -------------------------------
(***************************************************************************)
(* The AT command dialogue of lib/sms_utils.c over lib/mp_serial.c, with    *)
(* notify/notify_sms.c and base/check_gsm_signal.c.  A command is written   *)
(* and lines are read until a status line; after 5 seconds the command is   *)
(* given up, but its answer may still come and be taken for the answer of   *)
(* a later one: nothing in the protocol tells them apart.                   *)
(***************************************************************************)
EXTENDS Integers, Sequences, SequencesExt

CONSTANTS
    Plugins,        \* "notify_sms", "check_gsm_signal"
    Tries,          \* times the modem is asked whether it is ready (5)
    MaxTimeouts     \* bound: commands given up

VARIABLES
    plugin,
    modem,          \* the SIM, the PIN it takes, the SMS accepted
    mp_sms_pin,     \* --pin: "none", "right" or "wrong"
    queue,          \* commands the modem has not answered
    wire,           \* lines the plugin has not read
    step,           \* the command at hand
    pc,             \* "send", "wait", "result", "exited", "crashed"
    rv,             \* what mobile_at_command returned
    answer, answers,\* the array and its count
    tried,          \* commands to see whether the modem is ready
    timeouts,       \* commands given up
    code            \* exit code, -1 while running

vars == <<plugin, modem, mp_sms_pin, queue, wire, step, pc, rv, answer, answers, tried,
          timeouts, code>>
dialogue == <<queue, wire, modem>>

STATE_OK == 0
STATE_CRITICAL == 2
STATE_UNKNOWN == 3

\* What AT+CPIN? answers; "none": no SIM, and no answer.
SimStates == {"READY", "SIM PIN", "SIM PUK", "none"}

Init ==
    /\ plugin \in Plugins
    /\ modem \in [sim : SimStates, entered : {0}, accepted : {0}]
    /\ mp_sms_pin \in {"none", "right", "wrong"}
    /\ queue = <<>>
    /\ wire = <<>>
    /\ step = "AT"
    /\ pc = "send"
    /\ rv = 0
    /\ answer = <<>>
    /\ answers = 0
    /\ tried = 1
    /\ timeouts = 0
    /\ code = -1

-----------------------------------------------------------------------------
(* The modem, external: one command after the other.                        *)

OK == [kind |-> "OK"]
ERROR == [kind |-> "ERROR"]
CMS == [kind |-> "+CMS ERROR"]
Line(cmd, value) == [kind |-> "answer", cmd |-> cmd, value |-> value]

\* What the modem may answer, and its state then.
Reply(cmd, reply, m) ==
    CASE cmd = "AT" -> reply = <<OK>> /\ m = modem
      [] cmd \in {"CPIN?", "CPIN? again"} ->
            reply = (IF modem.sim = "none" THEN <<ERROR>> ELSE <<Line("CPIN", modem.sim), OK>>) /\ m = modem
      [] cmd = "CPIN=" ->
            IF mp_sms_pin = "right"
            THEN reply = <<OK>> /\ m = [modem EXCEPT !.sim = "READY", !.entered = @ + 1]
            ELSE reply = <<ERROR>> /\ m = [modem EXCEPT !.entered = @ + 1]
      [] cmd = "CMGF" -> reply \in {<<OK>>, <<ERROR>>} /\ m = modem
      [] cmd = "CMGS" -> \/ reply = <<Line("CMGS", "ref"), OK>> /\ m = [modem EXCEPT !.accepted = @ + 1]
                         \/ reply = <<CMS>> /\ m = modem
      [] cmd = "COPS?" ->
            reply \in {<<ERROR>>, <<Line("COPS", "0"), OK>>, <<Line("COPS", "named"), OK>>,
                       <<Line("COPS", "numeric"), OK>>} /\ m = modem
      [] cmd = "COPN" -> reply = <<Line("COPN", "name"), OK>> /\ m = modem
      [] cmd = "CSQ" -> reply \in {<<ERROR>>, <<Line("CSQ", "strong"), OK>>, <<Line("CSQ", "weak"), OK>>,
                                   <<Line("CSQ", "99"), OK>>} /\ m = modem

Statuses == {OK, ERROR, CMS}
Answers == {Line("CMGS", "ref"), Line("COPN", "name")}
           \cup {Line("CPIN", s) : s \in {"READY", "SIM PIN", "SIM PUK"}}
           \cup {Line("COPS", s) : s \in {"0", "named", "numeric"}}
           \cup {Line("CSQ", s) : s \in {"strong", "weak", "99"}}
Replies == {<<s>> : s \in Statuses} \cup {<<a, OK>> : a \in Answers}

Changes == {modem, [modem EXCEPT !.sim = "READY", !.entered = @ + 1],
            [modem EXCEPT !.entered = @ + 1], [modem EXCEPT !.accepted = @ + 1]}

ModemAnswers ==
    /\ queue # <<>>
    /\ queue' = Tail(queue)
    /\ \E reply \in Replies, m \in Changes :
        Reply(Head(queue), reply, m) /\ wire' = wire \o reply /\ modem' = m
    /\ UNCHANGED <<plugin, mp_sms_pin, step, pc, rv, answer, answers, tried, timeouts, code>>

-----------------------------------------------------------------------------
(* mobile_at_command_input.                                                 *)

Send ==
    /\ pc = "send"
    /\ queue' = Append(queue, step)
    /\ answers' = 0
    /\ pc' = "wait"
    /\ UNCHANGED <<plugin, modem, mp_sms_pin, wire, step, rv, answer, tried, timeouts, code>>

Return(r) == pc' = "result" /\ rv' = r

\* The prefix an answer to the command at hand has; the two commands that
\* ask for the PIN and the one that gives it share theirs.
Prefix == IF step \in {"CPIN?", "CPIN=", "CPIN? again"} THEN "CPIN"
          ELSE IF step = "COPS?" THEN "COPS" ELSE step

\* Answers of commands that want none are passed over.
Prefixed(line) == line.kind = "answer" /\ line.cmd = Prefix /\ step \notin {"AT", "CMGF", "CMGS"}

\* Defect: a line that is no answer ends the command.
ReadLine_any ==
    /\ pc = "wait"
    /\ wire # <<>>
    /\ wire' = Tail(wire)
    /\ IF Head(wire).kind = "answer" /\ Prefixed(Head(wire))
       THEN /\ answer' = Append(SubSeq(answer, 1, answers), Head(wire).value)
            /\ answers' = answers + 1
            /\ UNCHANGED <<pc, rv>>
       ELSE Return(IF Head(wire).kind = "ERROR" THEN 1 ELSE 0) /\ UNCHANGED <<answer, answers>>
    /\ UNCHANGED <<plugin, modem, mp_sms_pin, queue, step, tried, timeouts, code>>

\* One line: a status, an answer, or neither.
ReadLine ==
    /\ pc = "wait"
    /\ wire # <<>>
    /\ wire' = Tail(wire)
    /\ LET line == Head(wire)
       IN  CASE line.kind = "OK" -> Return(0) /\ UNCHANGED <<answer, answers>>
             [] line.kind = "ERROR" -> Return(1) /\ UNCHANGED <<answer, answers>>
             [] Prefixed(line) -> /\ answer' = Append(SubSeq(answer, 1, answers), line.value)
                                /\ answers' = answers + 1
                                /\ UNCHANGED <<pc, rv>>
             [] OTHER -> UNCHANGED <<pc, rv, answer, answers>>
    /\ UNCHANGED <<plugin, modem, mp_sms_pin, queue, step, tried, timeouts, code>>

\* write fails or is short: what is on the wire is no command, and nothing of
\* the last answer is reset.
WriteFails ==
    /\ pc = "send"
    /\ timeouts < MaxTimeouts
    /\ timeouts' = timeouts + 1
    /\ Return(-1)
    /\ UNCHANGED <<plugin, dialogue, mp_sms_pin, step, answer, answers, tried, code>>

\* select gives up, or read fails.
SelectTimeout ==
    /\ pc = "wait"
    /\ wire = <<>>
    /\ timeouts < MaxTimeouts
    /\ timeouts' = timeouts + 1
    /\ Return(-1)
    /\ UNCHANGED <<plugin, dialogue, mp_sms_pin, step, answer, answers, tried, code>>

-----------------------------------------------------------------------------
(* The plugins: what follows a command.                                     *)

At(s) == pc = "result" /\ step = s
Command(s) == step' = s /\ pc' = "send" /\ UNCHANGED code
Exit(s) == pc' = "exited" /\ code' = s /\ UNCHANGED step
Crash == pc' = "crashed" /\ UNCHANGED <<step, code>>
Free == answer' = <<>> /\ answers' = 0
Keep == UNCHANGED <<answer, answers>>
Rest == UNCHANGED <<plugin, dialogue, mp_sms_pin, rv, timeouts>>

Ready ==
    /\ At("AT")
    /\ IF rv = 0 THEN Command("CPIN?") /\ UNCHANGED tried
       ELSE IF tried < Tries THEN Command("AT") /\ tried' = tried + 1
       ELSE Exit(STATE_CRITICAL) /\ UNCHANGED tried
    /\ Keep /\ Rest

Unlocked == IF plugin = "notify_sms" THEN "CMGF" ELSE "COPS?"

\* Defect: any SIM that is not ready is given the PIN.
AskPin_always ==
    IF answer[1] # "READY"
    THEN IF mp_sms_pin = "none" THEN Exit(STATE_CRITICAL) ELSE Command("CPIN=")
    ELSE Command(Unlocked)

\* What else the SIM asks for is printed from the array that was just freed.
AskPin ==
    IF answer[1] = "SIM PIN"
    THEN IF mp_sms_pin = "none" THEN Exit(STATE_CRITICAL) ELSE Command("CPIN=")
    ELSE IF answer[1] # "READY" THEN Crash
    ELSE Command(Unlocked)

\* notify_sms looks at the answer whether there is one or not,
\* check_gsm_signal goes on without.
CheckPin ==
    /\ At("CPIN?")
    /\ IF plugin = "notify_sms" THEN IF answer = <<>> THEN Crash ELSE AskPin
       ELSE IF rv # 0 THEN Exit(STATE_CRITICAL)
       ELSE IF answers = 1 THEN AskPin ELSE Command(Unlocked)
    /\ Free /\ Rest /\ UNCHANGED tried

EnterPin ==
    /\ At("CPIN=")
    /\ Command("CPIN? again")
    /\ Keep /\ Rest /\ UNCHANGED tried

RecheckPin ==
    /\ At("CPIN? again")
    /\ IF answer = <<>> THEN Crash
       ELSE IF answer[1] # "READY" THEN Exit(STATE_CRITICAL)
       ELSE Command(Unlocked)
    /\ Free /\ Rest /\ UNCHANGED tried

\* The file of the message may be missing, too.
SmsMode ==
    /\ At("CMGF")
    /\ \/ Exit(STATE_CRITICAL)
       \/ rv = 0 /\ Command("CMGS")
    /\ Keep /\ Rest /\ UNCHANGED tried

SmsSent ==
    /\ At("CMGS")
    /\ Exit(IF rv = 0 THEN STATE_OK ELSE STATE_CRITICAL)
    /\ Keep /\ Rest /\ UNCHANGED tried

Operator ==
    /\ At("COPS?")
    /\ IF rv # 0 THEN Command("CSQ")
       ELSE IF answer = <<>> THEN Crash
       ELSE IF answer[1] = "0" THEN Exit(STATE_CRITICAL)
       ELSE Command(IF answer[1] = "numeric" THEN "COPN" ELSE "CSQ")
    /\ Free /\ Rest /\ UNCHANGED tried

OperatorName ==
    /\ At("COPN")
    /\ Command("CSQ")
    /\ Free /\ Rest /\ UNCHANGED tried

Signal ==
    /\ At("CSQ")
    /\ IF rv # 0 THEN Exit(STATE_UNKNOWN)
       ELSE IF answer = <<>> THEN Crash
       ELSE Exit(CASE answer[1] = "strong" -> STATE_OK
                   [] answer[1] = "weak" -> STATE_CRITICAL
                   [] OTHER -> STATE_UNKNOWN)
    /\ Keep /\ Rest /\ UNCHANGED tried

\* SIGALRM.
Alarm ==
    /\ pc \in {"send", "wait", "result"}
    /\ Exit(STATE_CRITICAL)
    /\ UNCHANGED <<plugin, dialogue, mp_sms_pin, rv, answer, answers, tried, timeouts>>

Terminated == pc \in {"exited", "crashed"} /\ UNCHANGED vars

Next ==
    \/ ModemAnswers \/ Send \/ WriteFails \/ ReadLine \/ SelectTimeout
    \/ Ready \/ CheckPin \/ EnterPin \/ RecheckPin \/ SmsMode \/ SmsSent
    \/ Operator \/ OperatorName \/ Signal \/ Alarm \/ Terminated
Spec == Init /\ [][Next]_vars
-----------------------------------------------------------------------------
(* Properties                                                               *)

\* "SMS Sent." is said only if the modem took the SMS, provided that no
\* command was given up before; a late OK would be taken for its status.
SentIsAccepted ==
    plugin = "notify_sms" /\ pc = "exited" /\ code = STATE_OK /\ timeouts = 0 => modem.accepted = 1

\* However late answers come, the PIN is entered at most once, and only into
\* a SIM that asked for it; a SIM that asks for the PUK is left alone.
PinIsAskedFor ==
    /\ modem.entered <= 1
    /\ pc = "send" /\ step = "CPIN=" => modem.sim = "SIM PIN"

-----------------------------------------------------------------------------
(* Why they hold: the parts of the inductive invariant                      *)

SmsCommands == {"AT", "CPIN?", "CPIN=", "CPIN? again", "CMGF", "CMGS"}
Commands == SmsCommands \cup {"COPS?", "COPN", "CSQ"}

Values == {a.value : a \in Answers}

TypeOK ==
    /\ plugin \in Plugins
    /\ step \in Commands
    /\ pc \in {"send", "wait", "result", "exited", "crashed"}
    /\ timeouts \in Nat
    /\ modem \in [sim : SimStates, entered : Nat, accepted : Nat]
    /\ queue \in Seq(Commands)
    /\ wire \in Seq(Statuses \cup Answers)
    /\ answer \in Seq(Values)
    /\ answers \in 0 .. Len(answer)

\* The PIN has not been written yet.
Before == step \in {"AT", "CPIN?"} \/ (step = "CPIN=" /\ pc = "send")

\* It is written once, and what was read about the SIM before is still true.
OnePin ==
    /\ modem.entered <= 1
    /\ \A i, j \in DOMAIN queue : queue[i] = "CPIN=" /\ queue[j] = "CPIN=" => i = j
    /\ modem.entered = 1 => "CPIN=" \notin ToSet(queue)
    /\ Before =>
          /\ modem.entered = 0 /\ "CPIN=" \notin ToSet(queue)
          /\ \A i \in DOMAIN wire : wire[i].kind = "answer" /\ wire[i].cmd = "CPIN" => wire[i].value = modem.sim
          /\ step = "AT" => answer = <<>>
          /\ step = "CPIN?" => \A i \in DOMAIN answer : answer[i] = modem.sim
          /\ step = "CPIN=" => modem.sim = "SIM PIN"

\* As long as no command is given up the dialogue is in step: one command, its
\* answer, and its status at the end.
InStep ==
    timeouts = 0 /\ plugin = "notify_sms" =>
        /\ step \in SmsCommands
        /\ pc \in {"send", "result"} => queue = <<>> /\ wire = <<>>
        /\ pc = "wait" => \/ queue = <<step>> /\ wire = <<>>
                          \/ queue = <<>> /\ \A i \in DOMAIN wire : wire[i] \in {OK, ERROR} => i = Len(wire)
        /\ queue # <<>> \/ step # "CMGS" \/ pc = "send" =>
              pc \in {"exited", "crashed"} \/ modem.accepted = 0
        /\ step = "CMGS" /\ pc = "wait" /\ OK \in ToSet(wire) => modem.accepted = 1
        /\ step = "CMGS" /\ pc = "result" /\ rv = 0 => modem.accepted = 1
        /\ code = STATE_OK => pc = "exited" /\ queue = <<>> /\ modem.accepted = 1

IInv == TypeOK /\ OnePin /\ InStep
=============================================================================
