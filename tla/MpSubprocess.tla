---------------------------- MODULE MpSubprocess ----------------------------
(***************************************************************************)
(* lib/mp_subprocess.c and its users: check_multipath, the clustat part of  *)
(* check_clustat and notify_mail.  Parent and child share ONE pipe: it is   *)
(* standard input and standard output of the child at once, and the parent  *)
(* keeps both ends.  A reader that waits for the end of the data sees it    *)
(* only when nobody can write any more; the child itself always can.        *)
(* SIGALRM may arrive at any time.                                          *)
(***************************************************************************)
EXTENDS Integers, Sequences, SequencesExt

CONSTANTS
    Users,          \* which of the three run
    Outputs,        \* what multipath and clustat may print: lines
    Messages,       \* notifications: lines, the last may lack its newline
    Chatter,        \* what sendmail may print
    Capacity        \* lines that fit into the pipe

VARIABLES
    user,
    output,         \* the lines the child prints
    message,        \* the notification
    pipe,           \* lines in the pipe
    todo,           \* lines the parent has still to write
    writers,        \* who holds the writing end
    parent,         \* "launch", "write", "read", "wait", "exited", "crashed"
    handler,        \* of SIGALRM: "plugin" or "subprocess"
    child,          \* "none", "running", "exited"
    printed,        \* lines the child has printed
    received,       \* lines the child has read
    got,            \* lines the parent has read
    status,         \* exit status of the child
    code,           \* exit code of the plugin, -1 while running
    said            \* what notify_mail says

vars == <<user, output, message, pipe, todo, writers, parent, handler, child, printed,
          received, got, status, code, said>>
given == <<user, output, message>>
result == <<code, said>>

STATE_OK == 0
STATE_WARNING == 1
STATE_CRITICAL == 2
STATE_UNKNOWN == 3

\* What notify_mail writes: the headers, the notification and ".\n"; if the
\* notification does not end with a newline the dot is glued to its last line.
Mail(m) ==
    <<"header">> \o IF m # <<>> /\ Last(m) = "open" THEN Append(Front(m), "line") ELSE Append(m, ".")

Init ==
    /\ user \in Users
    /\ output \in IF user = "mail" THEN Chatter ELSE Outputs
    /\ message \in IF user = "mail" THEN Messages ELSE {<<>>}
    /\ pipe = <<>>
    /\ todo = IF user = "mail" THEN Mail(message) ELSE <<>>
    /\ writers = {}
    /\ parent = "launch"
    /\ handler = "plugin"
    /\ child = "none"
    /\ printed = 0
    /\ received = <<>>
    /\ got = <<>>
    /\ status = 0
    /\ code = -1
    /\ said = "nothing"

-----------------------------------------------------------------------------
(* The parent.                                                              *)

\* mp_subprocess; the readers close sp_stdin at once.  Nobody looks whether
\* it returned NULL before using it.  Before that the file of the message may
\* be missing, or the plugin not be allowed to become root.
mp_subprocess ==
    /\ parent = "launch"
    /\ \/ /\ child' = "running"
          /\ handler' = "subprocess"
          /\ writers' = IF user = "mail" THEN {"parent", "child"} ELSE {"child"}
          /\ parent' = IF user = "mail" THEN "write" ELSE "read"
          /\ UNCHANGED code
       \/ parent' = "crashed" /\ UNCHANGED <<child, handler, writers, code>>
       \/ /\ parent' = "exited"
          /\ code' = IF user = "mail" THEN STATE_CRITICAL ELSE STATE_UNKNOWN
          /\ UNCHANGED <<child, handler, writers>>
    /\ UNCHANGED <<given, pipe, todo, printed, received, got, status, said>>

\* A write waits while the pipe is full.
Write ==
    /\ parent = "write"
    /\ todo # <<>>
    /\ Len(pipe) < Capacity
    /\ pipe' = Append(pipe, Head(todo))
    /\ todo' = Tail(todo)
    /\ UNCHANGED <<given, writers, parent, handler, child, printed, received, got, status, result>>

Written ==
    /\ parent = "write"
    /\ todo = <<>>
    /\ parent' = "wait"
    /\ handler' = "plugin"
    /\ UNCHANGED <<given, pipe, todo, writers, child, printed, received, got, status, result>>

\* The parser of check_clustat gives up at the first line that is no XML.
GivesUp == user = "clustat" /\ Head(pipe) = "broken"

Read ==
    /\ parent = "read"
    /\ pipe # <<>>
    /\ got' = Append(got, Head(pipe))
    /\ pipe' = Tail(pipe)
    /\ IF GivesUp THEN parent' = "wait" /\ handler' = "plugin" ELSE UNCHANGED <<parent, handler>>
    /\ UNCHANGED <<given, todo, writers, child, printed, received, status, result>>

\* Defect: an empty pipe is taken for the end.
ReadEnd_empty ==
    /\ parent = "read"
    /\ pipe = <<>>
    /\ parent' = "wait"
    /\ handler' = "plugin"
    /\ UNCHANGED <<given, pipe, todo, writers, child, printed, received, got, status, result>>

\* The end of the data.
ReadEnd ==
    /\ parent = "read"
    /\ pipe = <<>>
    /\ writers = {}
    /\ parent' = "wait"
    /\ handler' = "plugin"
    /\ UNCHANGED <<given, pipe, todo, writers, child, printed, received, got, status, result>>

\* check_multipath behind mp_subprocess_close.
Verdict ==
    IF status # 0 THEN STATE_CRITICAL
    ELSE IF got = <<>> THEN STATE_WARNING
    ELSE IF "failed" \in ToSet(got) THEN STATE_CRITICAL ELSE STATE_OK

\* Defect: the exit status is not looked at.
Outcome_sent == "Mail sent."

Outcome == IF status = 0 THEN "Mail sent." ELSE "Send mail failed."

\* mp_subprocess_close: waitpid, then what the user makes of the status; the
\* list of clustat is judged by Clustat, and is NULL if the parser gave up.
mp_subprocess_close ==
    /\ parent = "wait"
    /\ child = "exited"
    /\ \/ /\ user = "mail"
          /\ said' = Outcome
          /\ code' = STATE_OK
          /\ parent' = "exited"
       \/ /\ user = "multipath"
          /\ code' = Verdict
          /\ parent' = "exited"
          /\ UNCHANGED said
       \/ /\ user = "clustat"
          /\ IF status = 0 /\ "broken" \in ToSet(got) THEN parent' = "crashed" ELSE parent' = "exited"
          /\ code' = IF status # 0 THEN STATE_CRITICAL ELSE code
          /\ UNCHANGED said
    /\ UNCHANGED <<given, pipe, todo, writers, handler, child, printed, received, got, status>>

\* Defect: the handler of the subprocess returns.
Alarm_swallowed ==
    /\ parent \in {"launch", "write", "read", "wait"}
    /\ IF handler = "subprocess" THEN UNCHANGED <<parent, code>>
       ELSE parent' = "exited" /\ code' = STATE_CRITICAL
    /\ UNCHANGED <<given, pipe, todo, writers, handler, child, printed, received, got, status, said>>

\* Either handler is critical.
Alarm ==
    /\ parent \in {"launch", "write", "read", "wait"}
    /\ parent' = "exited"
    /\ code' = STATE_CRITICAL
    /\ UNCHANGED <<given, pipe, todo, writers, handler, child, printed, received, got, status, said>>

-----------------------------------------------------------------------------
(* The child: external, a program that prints, or sendmail.                 *)

Running == child = "running" /\ parent \notin {"exited", "crashed"}

ChildPrint ==
    /\ Running
    /\ printed < Len(output)
    /\ Len(pipe) < Capacity
    /\ pipe' = Append(pipe, output[printed + 1])
    /\ printed' = printed + 1
    /\ UNCHANGED <<given, todo, writers, parent, handler, child, received, got, status, result>>

\* sendmail reads up to a line with a dot.
Ended == received # <<>> /\ Last(received) = "."

ChildRead ==
    /\ Running
    /\ user = "mail"
    /\ ~Ended
    /\ pipe # <<>>
    /\ received' = Append(received, Head(pipe))
    /\ pipe' = Tail(pipe)
    /\ UNCHANGED <<given, todo, writers, parent, handler, child, printed, got, status, result>>

\* A program that fails may do so with its output incomplete.
ChildExit ==
    /\ Running
    /\ child' = "exited"
    /\ writers' = writers \ {"child"}
    /\ \/ status' = 0 /\ printed = Len(output) /\ (user = "mail" => Ended)
       \/ status' = 1
    /\ UNCHANGED <<given, pipe, todo, parent, handler, printed, received, got, result>>

Terminated == parent \in {"exited", "crashed"} /\ UNCHANGED vars

Next ==
    \/ mp_subprocess \/ Write \/ Written \/ Read \/ ReadEnd \/ mp_subprocess_close \/ Alarm
    \/ ChildPrint \/ ChildRead \/ ChildExit \/ Terminated

\* The alarm comes; nothing is promised about the child.
Spec == Init /\ [][Next]_vars /\ WF_vars(Alarm)
-----------------------------------------------------------------------------
(* Properties                                                               *)

\* check_multipath is OK only if the program ended well and none of the lines
\* it printed is about a failed path: no line is lost in the shared pipe.
OkHasNoFailedPath ==
    user = "multipath" /\ parent = "exited" /\ code = STATE_OK =>
        status = 0 /\ got = output /\ "failed" \notin ToSet(output)

\* "Mail sent." is said only if sendmail took the whole notification, up to a
\* dot of its own, if it prints nothing: what it prints it may read again.
SentIsComplete ==
    said = "Mail sent." /\ output = <<>> =>
        received = SubSeq(Mail(message), 1, Len(received)) /\ Ended

\* Whatever the child does, the plugin ends.
PluginEnds == <>(parent \in {"exited", "crashed"})

-----------------------------------------------------------------------------
(* Why they hold: the parts of the inductive invariant                      *)

\* The lines are strings.  Those notify_mail writes itself are named, for the
\* provers do not know that a literal is a string.
Texts == STRING \cup {"header", "line", "."}

TypeOK ==
    /\ user \in Users
    /\ parent \in {"launch", "write", "read", "wait", "exited", "crashed"}
    /\ child \in {"none", "running", "exited"}
    /\ output \in Seq(Texts)
    /\ message \in Seq(Texts)
    /\ pipe \in Seq(Texts)
    /\ todo \in Seq(Texts)
    /\ received \in Seq(Texts)
    /\ got \in Seq(Texts)
    /\ printed \in 0 .. Len(output)

\* The elements of u are those of text that follow the first n ones.
Follows(u, n, text) == /\ n + Len(u) <= Len(text)
                       /\ \A i \in DOMAIN u : u[i] = text[n + i]

\* What a program prints is read or in the pipe.
OutputIsKept ==
    user # "mail" =>
        /\ Len(got) + Len(pipe) = printed
        /\ Follows(got, 0, output)
        /\ Follows(pipe, Len(got), output)

\* A notification is read by sendmail, in the pipe or not written yet.
MessageIsKept ==
    user = "mail" /\ output = <<>> =>
        /\ Len(received) + Len(pipe) + Len(todo) = Len(Mail(message))
        /\ Follows(received, 0, Mail(message))
        /\ Follows(pipe, Len(received), Mail(message))
        /\ Follows(todo, Len(received) + Len(pipe), Mail(message))

\* A child that ended well has printed all, and sendmail has seen the end; the
\* parent goes on when nobody can write any more.
ChildIsDone ==
    /\ child = "exited" /\ status = 0 => printed = Len(output) /\ (user = "mail" => Ended)
    /\ child = "running" => "child" \in writers
    /\ parent \notin {"launch", "exited", "crashed"} => child # "none"
    /\ parent = "wait" /\ user = "multipath" => pipe = <<>> /\ child = "exited"
    /\ user = "mail" => parent # "read"
    /\ parent = "write" => user = "mail"

IInv == /\ TypeOK /\ OutputIsKept /\ MessageIsKept /\ ChildIsDone
        /\ parent \notin {"exited", "crashed"} => code = -1 /\ said = "nothing"
        /\ OkHasNoFailedPath /\ SentIsComplete
=============================================================================
