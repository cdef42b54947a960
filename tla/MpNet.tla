-------------------------------- MODULE MpNet --------------------------------
(***************************************************************************)
(* lib/mp_net.c and base/check_memcached.c: the addresses of the server are *)
(* tried in turn, "stats" is sent, and the answer is read line by line from *)
(* a stream that recv cuts into pieces as it likes.  A character is a       *)
(* symbol: "S" stands for a leading STAT, "E" for a leading END.            *)
(***************************************************************************)
EXTENDS Integers, Sequences, SequencesExt

CONSTANTS
    Addresses,      \* what getaddrinfo may return: sequences of "up", "down"
    Streams,        \* what the server may send before it falls silent
    RLB_LEN         \* size of mp_recv_line_buffer (128)

VARIABLES
    addrs,          \* addresses not tried yet
    offered,        \* all of them
    stream,         \* everything the server sends
    consumed,       \* characters taken from the stream
    mp_recv_line_buffer,
    line,           \* the part of the line mp_recv_line has put together
    lines,          \* history: what mp_recv_line returned
    time,           \* get_status of the time it took
    sd,             \* address the socket is connected to, 0 for none
    pc,             \* "resolve", "connect", "recv", "spin", "exited", "crashed"
    code            \* exit code, -1 while running

vars == <<addrs, offered, stream, consumed, mp_recv_line_buffer, line, lines, time, sd, pc, code>>
given == <<offered, stream, time>>
reading == <<consumed, mp_recv_line_buffer, line, lines>>

STATE_OK == 0
STATE_WARNING == 1
STATE_CRITICAL == 2
STATE_UNKNOWN == 3
CR == "r"
NL == "n"

Init ==
    /\ offered \in Addresses
    /\ addrs = offered
    /\ stream \in Streams
    /\ consumed = 0
    /\ mp_recv_line_buffer = <<>>
    /\ line = <<>>
    /\ lines = <<>>
    /\ time \in {STATE_OK, STATE_WARNING, STATE_CRITICAL}
    /\ sd = 0
    /\ pc = "resolve"
    /\ code = -1

Exit(s) == pc' = "exited" /\ code' = s

mp_getaddrinfo ==
    /\ pc = "resolve"
    /\ \/ pc' = "connect" /\ UNCHANGED code
       \/ Exit(STATE_UNKNOWN)
    /\ UNCHANGED <<addrs, given, reading, sd>>

\* One turn of the loop over the addresses, or its end.
mp_connect ==
    /\ pc = "connect"
    /\ \/ /\ addrs = <<>>
          /\ Exit(STATE_CRITICAL)
          /\ UNCHANGED <<addrs, sd>>
       \/ /\ addrs # <<>>
          /\ addrs' = Tail(addrs)
          /\ IF Head(addrs) = "up"
             THEN sd' = Len(offered) - Len(addrs) + 1 /\ pc' = "recv"
             ELSE UNCHANGED <<sd, pc>>
          /\ UNCHANGED code
    /\ UNCHANGED <<given, reading>>

\* recv: the buffer, if it holds no end of a line, goes to the line and takes
\* the next piece of the stream.
Recv ==
    /\ pc = "recv"
    /\ ~Contains(mp_recv_line_buffer, NL)
    /\ \E len \in 1 .. RLB_LEN - 1 :
        /\ consumed + len <= Len(stream)
        /\ line' = line \o mp_recv_line_buffer
        /\ mp_recv_line_buffer' = SubSeq(stream, consumed + 1, consumed + len)
        /\ consumed' = consumed + len
    /\ UNCHANGED <<addrs, given, lines, sd, pc, code>>

\* The connection is closed or breaks: recv returns 0 for ever and the loop
\* spins, or -1, and the NUL is written in front of the buffer.
RecvFails ==
    /\ pc = "recv"
    /\ ~Contains(mp_recv_line_buffer, NL)
    /\ pc' \in {"spin", "crashed"}
    /\ UNCHANGED <<addrs, given, reading, sd, code>>

Chomp(s) == IF s # <<>> /\ Last(s) = CR THEN Front(s) ELSE s

\* Defect: what follows the line in the buffer is dropped.
Rotate_drop(s, end) == <<>>

\* What memmove leaves in the buffer.
Rotate(s, end) == SubSeq(s, end + 1, Len(s))

Stat(s) == s # <<>> /\ Head(s) = "S"
End(s) == s # <<>> /\ Head(s) = "E"

\* The loop of check_memcached; every time, fast or slow, is ok().
Judge(s) ==
    IF Stat(s) THEN UNCHANGED <<pc, code>>
    ELSE IF End(s) THEN Exit(CASE time = STATE_OK -> STATE_OK
                               [] time = STATE_WARNING -> STATE_OK
                               [] time = STATE_CRITICAL -> STATE_OK)
    ELSE Exit(STATE_CRITICAL)

\* mp_recv_line returns what is in front of the first end of line, and its
\* line is judged.
Line ==
    /\ pc = "recv"
    /\ \E end \in DOMAIN mp_recv_line_buffer :
        /\ mp_recv_line_buffer[end] = NL
        /\ \A i \in 1 .. end - 1 : mp_recv_line_buffer[i] # NL
        /\ LET whole == Chomp(line \o SubSeq(mp_recv_line_buffer, 1, end - 1))
           IN  lines' = Append(lines, whole) /\ Judge(whole)
        /\ mp_recv_line_buffer' = Rotate(mp_recv_line_buffer, end)
    /\ line' = <<>>
    /\ UNCHANGED <<addrs, given, consumed, sd>>

\* SIGALRM.
Alarm ==
    /\ pc \in {"resolve", "connect", "recv", "spin"}
    /\ Exit(STATE_CRITICAL)
    /\ UNCHANGED <<addrs, given, reading, sd>>

Terminated == pc \in {"exited", "crashed"} /\ UNCHANGED vars

Next == mp_getaddrinfo \/ mp_connect \/ Recv \/ RecvFails \/ Line \/ Alarm \/ Terminated
Spec == Init /\ [][Next]_vars
-----------------------------------------------------------------------------
(* Properties                                                               *)

\* Where the lines end that were returned, and how far they reach.
Ends == [DOMAIN lines -> 1 .. consumed]
LastEnd(ends) == IF lines = <<>> THEN 0 ELSE ends[Len(lines)]

\* The k-th line that was returned is what lies between two ends of line of the
\* stream that follow each other.
IsLine(ends, k) ==
    LET start == IF k = 1 THEN 1 ELSE ends[k - 1] + 1
    IN  /\ start <= ends[k]
        /\ stream[ends[k]] = NL
        /\ \A p \in start .. ends[k] - 1 : stream[p] # NL
        /\ lines[k] = Chomp(SubSeq(stream, start, ends[k] - 1))

\* However recv cuts the stream, mp_recv_line returns its lines, each once
\* and in order, and holds back none that is complete.
LinesAreLines ==
    \E ends \in Ends :
        /\ \A k \in DOMAIN lines : IsLine(ends, k)
        /\ pc = "recv" /\ ~Contains(mp_recv_line_buffer, NL) =>
              \A p \in LastEnd(ends) + 1 .. consumed : stream[p] # NL

\* A server that has an address which answers is not "Can't connect".
ReachableIsReached ==
    /\ sd # 0 => offered[sd] = "up" /\ \A k \in 1 .. sd - 1 : offered[k] = "down"
    /\ pc = "connect" /\ addrs = <<>> => "up" \notin ToSet(offered)

\* check_memcached is OK only for a whole answer: STAT lines up to an END.
OkIsComplete ==
    code = STATE_OK => /\ lines # <<>> /\ End(lines[Len(lines)])
                       /\ \A k \in 1 .. Len(lines) - 1 : Stat(lines[k])

-----------------------------------------------------------------------------
(* Why they hold: the parts of the inductive invariant                      *)

TypeOK ==
    /\ pc \in {"resolve", "connect", "recv", "spin", "exited", "crashed"}
    /\ offered \in Seq({"up", "down"})
    /\ addrs \in Seq({"up", "down"})
    /\ stream \in Seq(STRING)
    /\ line \in Seq(STRING)
    /\ mp_recv_line_buffer \in Seq(STRING)
    /\ lines \in Seq(Seq(STRING))
    /\ consumed \in 0 .. Len(stream)
    /\ time \in {STATE_OK, STATE_WARNING, STATE_CRITICAL}

\* The elements of u are those of text that follow the first n ones.
Follows(u, n, text) == /\ n + Len(u) <= Len(text)
                       /\ \A i \in DOMAIN u : u[i] = text[n + i]

\* The lines returned, the line at hand and the buffer are what was taken.
StreamIsKept ==
    \E ends \in Ends :
        /\ \A k \in DOMAIN lines : IsLine(ends, k)
        /\ LastEnd(ends) + Len(line) + Len(mp_recv_line_buffer) = consumed
        /\ Follows(line, LastEnd(ends), stream)
        /\ Follows(mp_recv_line_buffer, LastEnd(ends) + Len(line), stream)
        /\ \A i \in DOMAIN line : line[i] # NL

\* The addresses that were tried are down, but for the one that is connected.
Tried ==
    /\ Len(addrs) <= Len(offered)
    /\ \A i \in DOMAIN addrs : addrs[i] = offered[Len(offered) - Len(addrs) + i]
    /\ pc \in {"resolve", "connect"} =>
          sd = 0 /\ \A k \in 1 .. Len(offered) - Len(addrs) : offered[k] = "down"

\* While the plugin runs it has seen STAT lines only.
OnlyStats == pc # "exited" => code = -1 /\ \A k \in DOMAIN lines : Stat(lines[k])

IInv == TypeOK /\ StreamIsKept /\ Tried /\ OnlyStats /\ ReachableIsReached /\ OkIsComplete
=============================================================================
