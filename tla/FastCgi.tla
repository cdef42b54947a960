------------------------------ MODULE FastCgi ------------------------------
(***************************************************************************)
(* lib/fcgi_utils.c, fcgi/check_fcgi_phpfpm.c and fcgi/check_fcgi_ping.c:   *)
(* records of a FastCGI server are read until the one that ends the         *)
(* request.  Each record has a type and a content, a piece of the answer;   *)
(* read may return less than was asked for.                                 *)
(***************************************************************************)
EXTENDS Integers, Sequences

CONSTANTS
    Answers,        \* plugin and records the server sends, as a record
    Lengths         \* lengths of the names and values that are sent

VARIABLES
    given,      \* one of Answers
    todo,       \* records that are still to be read
    seen,       \* data, the content that is kept; <<>> for NULL
    status,     \* content: "NULL", "live", or "freed" and not NULL
    pc,         \* "start", "send", "read", "parse", "exited", "crashed", or "usage",
                \* "failed", "alarmed" for those exits
    code        \* exit code, -1 while running

vars == <<given, todo, seen, status, pc, code>>

STATE_OK == 0
STATE_CRITICAL == 2
STATE_UNKNOWN == 3

\* An answer in full: HTTP headers, the line that ends them, the document.
Document == <<"headers", "separator", "json", "rest of json">>

Init ==
    /\ given \in Answers
    /\ todo = given.records
    /\ seen = <<>>
    /\ status = "NULL"
    /\ pc = "start"
    /\ code = -1

Leave(how, s) == pc' = how /\ code' = s
Goto(l) == pc' = l /\ UNCHANGED code
Crash == pc' = "crashed" /\ UNCHANGED code
phpfpm == given.plugin = "check_fcgi_phpfpm"

\* Without arguments check_fcgi_phpfpm prints its help; mp_fcgi_connect.
process_arguments ==
    /\ pc = "start"
    /\ \/ Leave("usage", STATE_UNKNOWN)
       \/ phpfpm /\ Leave("usage", STATE_OK)
       \/ Leave("failed", STATE_CRITICAL)
       \/ Goto("send")
    /\ UNCHANGED <<given, todo, seen, status>>

\* mp_fcgi_write: a write that is cut short is UNKNOWN; of mp_fcgi_putkv critical.
Send ==
    /\ pc = "send"
    /\ \/ Leave("failed", STATE_UNKNOWN)
       \/ phpfpm /\ Leave("failed", STATE_CRITICAL)
       \/ Goto("read")
    /\ UNCHANGED <<given, todo, seen, status>>

\* mp_fcgi_putkv: a length of less than 128 is one byte, any other is four of
\* which the first has its highest bit set.
LengthBytes(n) ==
    IF n < 128 THEN <<n>>
    ELSE <<((n \div 16777216) % 128) + 128, (n \div 65536) % 256, (n \div 256) % 256, n % 256>>

Ends == IF phpfpm THEN "END_REQUEST" ELSE "GET_VALUES_RESULT"

\* mp_fcgi_read and the turn of the loop around it.  Header and content must come
\* in one piece each.  check_fcgi_phpfpm keeps the content of the last STDOUT
\* record; check_fcgi_ping frees what it read last, also after an empty record.
mp_fcgi_read ==
    /\ pc = "read"
    /\ todo # <<>>
    /\ LET r == Head(todo)
           content == IF r.content # <<>> THEN "live" ELSE IF phpfpm THEN "NULL" ELSE status
       IN \/ Leave("failed", STATE_CRITICAL) /\ UNCHANGED <<seen, status>>
          \/ /\ phpfpm
             /\ seen' = IF r.type = "STDOUT" THEN r.content ELSE seen
             /\ IF r.type = Ends THEN Goto("parse") ELSE Goto("read")
             /\ UNCHANGED status
          \/ /\ ~phpfpm
             /\ IF content = "freed" THEN Crash
                ELSE IF r.type = Ends THEN Leave("exited", STATE_OK) ELSE Goto("read")
             /\ status' = IF content = "NULL" THEN "NULL" ELSE "freed"
             /\ UNCHANGED seen
    /\ todo' = Tail(todo)
    /\ UNCHANGED given

\* What follows the headers: nothing if no line ends them.
AfterHeaders(data) ==
    LET S == {k \in DOMAIN data : data[k] = "separator" /\ k > 1}
    IN IF S = {} THEN <<>> ELSE SubSeq(data, CHOOSE k \in S : TRUE, Len(data))

\* mp_json_tokener_parse of NULL; of a document that is cut; fields that are
\* missing are critical.
Parse ==
    /\ pc = "parse"
    /\ LET json == AfterHeaders(seen) IN
        IF json = <<>> THEN Crash
        ELSE IF json = <<"separator", "json", "rest of json">>
             THEN Leave("failed", STATE_CRITICAL) \/ Leave("exited", STATE_OK)
        ELSE Leave("failed", STATE_CRITICAL)
    /\ UNCHANGED <<given, todo, seen, status>>

\* SIGALRM; the server may stop before the last record.
Alarm ==
    /\ pc \in {"send", "read", "parse"}
    /\ Leave("alarmed", STATE_CRITICAL)
    /\ UNCHANGED <<given, todo, seen, status>>

Terminated == pc \in {"usage", "failed", "exited", "crashed", "alarmed"} /\ UNCHANGED vars

Next == process_arguments \/ Send \/ mp_fcgi_read \/ Parse \/ Alarm \/ Terminated
Spec == Init /\ [][Next]_vars
-----------------------------------------------------------------------------
(* Properties                                                               *)

\* What a server makes of a length, by the FastCGI specification.
LengthOf(b) == IF b[1] < 128 THEN b[1]
               ELSE (b[1] - 128) * 16777216 + b[2] * 65536 + b[3] * 256 + b[4]

ReadSoFar == Len(given.records) - Len(todo)
\* The k-th record is the last one of standard output that was read.
IsLastStdout(k) ==
    /\ k \in 1 .. ReadSoFar /\ given.records[k].type = "STDOUT"
    /\ \A m \in k + 1 .. ReadSoFar : given.records[m].type # "STDOUT"

\* The lengths that are sent are the lengths that are received.  OK means that the
\* request was ended, with a whole document in one record and not in pieces that
\* overwrite each other, or that the server answered the ping.  No content is
\* freed twice unless an empty record follows one with content.
AnswerIsWhole ==
    /\ \A n \in Lengths : LengthOf(LengthBytes(n)) = n
    /\ pc = "exited" /\ phpfpm =>
            \E k \in 1 .. ReadSoFar : IsLastStdout(k) /\ given.records[k].content = Document
    /\ pc = "exited" => given.records[ReadSoFar].type = Ends
    /\ pc = "crashed" /\ ~phpfpm =>
            \E k \in 1 .. ReadSoFar - 1 : given.records[k].content # <<>> /\ given.records[k + 1].content = <<>>
-----------------------------------------------------------------------------
(* Why it holds                                                             *)

\* The records are pieces of the document; lengths have 31 bits.
Legal(a) ==
    /\ a.records \in Seq([type : STRING, content : Seq(STRING)])
    /\ \A k \in DOMAIN a.records : a.records[k].type = "STDOUT" =>
            \E x \in 1 .. 4, y \in 0 .. 4 : a.records[k].content = SubSeq(Document, x, y)
LegalLength(n) == n \in Nat /\ n <= 2147483647

\* What is kept is the last standard output, and what ping freed was content.
IInv ==
    /\ given \in Answers
    /\ Len(todo) <= Len(given.records)
    /\ todo \in Seq([type : STRING, content : Seq(STRING)])
    /\ \A k \in 1 .. Len(todo) : todo[k] = given.records[ReadSoFar + k]
    /\ pc \in {"start", "send"} => ReadSoFar = 0
    /\ pc \in {"start", "send", "read", "parse"} =>
            \/ seen = <<>>
            \/ \E k \in 1 .. ReadSoFar : IsLastStdout(k) /\ given.records[k].content = seen
    /\ phpfpm => status = "NULL"
    /\ ~phpfpm => seen = <<>>
    /\ pc \in {"start", "send", "read"} =>
            \/ status = "NULL"
            \/ status = "freed" /\ ReadSoFar >= 1 /\ given.records[ReadSoFar].content # <<>>
    /\ pc = "parse" => phpfpm /\ given.records[ReadSoFar].type = Ends
    /\ AnswerIsWhole
=============================================================================
