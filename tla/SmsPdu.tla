------------------------------- MODULE SmsPdu -------------------------------
(***************************************************************************)
(* How lib/sms_utils.c encodes a short message: characters become septets,  *)
(* septets are packed into octets, and the octets follow the addresses in   *)
(* the PDU that notify/notify_sms.c gives to the modem.                     *)
(*                                                                         *)
(* A PDU is its sequence of octets; the code writes each as two hexadecimal *)
(* digits.                                                                  *)
(***************************************************************************)
EXTENDS Integers, Sequences, SequencesExt, TLC

CONSTANT Messages   \* records of a text, the number it goes to and the service
                    \* centre (<<>> for NULL); a number has digits and maybe a plus

VARIABLES
    given,      \* one of Messages
    todo,       \* characters of the text that are not encoded
    seen,       \* bit, bits and len of sms_encode_text and the octets written
    status,     \* the PDU
    pc,         \* "text", "done", "crashed"
    code        \* -1, nothing is said of the result

vars == <<given, todo, seen, status, pc, code>>

\* Places of some characters in the code's tables.  The first one counts.
sms_gsm7 == ("@" :> 0) @@ ("A" :> 65) @@ ("H" :> 71) @@ ("G" :> 72) @@ ("i" :> 90) @@ ("x" :> 120)
            @@ ("agrave" :> 127)
sms_gsm7_ext == ("^" :> 20) @@ ("euro" :> 101)

Init ==
    /\ given \in Messages
    /\ todo = given.text
    /\ seen = [bit |-> 0, bits |-> 0, len |-> 0, octets |-> <<>>]
    /\ status = <<>>
    /\ pc = "text"
    /\ code = -1

\* bit |= septet << bits
Put(s, septet) == [s EXCEPT !.bit = @ + septet * 2 ^ s.bits, !.bits = @ + 7, !.len = @ + 1]

\* while (bits >= 8)
Flush(s) ==
    LET n == s.bits \div 8
    IN  [s EXCEPT !.octets = @ \o [k \in 1 .. n |-> (s.bit \div 256 ^ (k - 1)) % 256],
                  !.bit = @ \div 256 ^ n,
                  !.bits = @ - 8 * n]

\* One turn of the loop of sms_encode_text.  What is in neither table is left out.
EncodeChar ==
    /\ pc = "text"
    /\ todo # <<>>
    /\ LET c == Head(todo) IN
        seen' = CASE c \in DOMAIN sms_gsm7 -> Flush(Put(seen, sms_gsm7[c]))
                  [] c \in DOMAIN sms_gsm7_ext -> Flush(Put(Put(seen, 27), sms_gsm7_ext[c]))
                  [] OTHER -> seen
    /\ todo' = Tail(todo)
    /\ UNCHANGED <<given, status, pc, code>>

\* Two digits of the length, the first two if there are more.
LengthField(len) == IF len < 256 THEN len ELSE len \div 16

sms_encode_text(s) ==
    <<LengthField(s.len)>> \o s.octets \o (IF s.bits > 0 THEN <<s.bit % 256>> ELSE <<>>)

\* Digits in pairs, the second of a pair first, and F for one that is missing.
sms_encode_number(n) ==
    LET Digit(k) == IF k <= Len(n.digits) THEN n.digits[k] ELSE 15
    IN  <<IF n.plus THEN 145 ELSE 129>>
        \o [k \in 1 .. (Len(n.digits) + 1) \div 2 |-> 16 * Digit(2 * k) + Digit(2 * k - 1)]

\* The length of the destination counts the digits that were written, also the F.
sms_encode_pdu ==
    LET encNumber == sms_encode_number(given.number)
        encSmsc == IF given.smsc = <<>> THEN <<>> ELSE sms_encode_number(given.smsc[1])
    IN  <<Len(encSmsc)>> \o encSmsc \o <<5, 0, 2 * Len(encNumber) - 2>> \o encNumber
        \o <<0, 0>> \o sms_encode_text(seen)

\* The text is written to a buffer of its own that is made for septets of the first
\* table, and is short of a byte or two for most lengths.
Overrun == 2 * Len(sms_encode_text(seen)) + 1 > (7 * Len(given.text)) \div 4 + 3

EncodePdu ==
    /\ pc = "text"
    /\ todo = <<>>
    /\ \/ status' = sms_encode_pdu /\ pc' = "done"
       \/ Overrun /\ pc' = "crashed" /\ UNCHANGED status
    /\ UNCHANGED <<given, todo, seen, code>>

Terminated == pc \in {"done", "crashed"} /\ UNCHANGED vars

Next == EncodeChar \/ EncodePdu \/ Terminated
Spec == Init /\ [][Next]_vars
-----------------------------------------------------------------------------
(* Properties                                                               *)

\* A message as its receiver takes it apart.
From(k) == SubSeq(status, k, Len(status))
Submit == From(2 + status[1])                 \* what follows the service centre
Digits == Submit[3]
Address == SubSeq(Submit, 5, 4 + (Digits + 1) \div 2)
Nibble(octets, k) == IF k % 2 = 1 THEN octets[(k + 1) \div 2] % 16 ELSE octets[k \div 2] \div 16
Dialled(octets, n) == [k \in 1 .. n |-> Nibble(octets, k)]
UserData == SubSeq(Submit, 7 + (Digits + 1) \div 2, Len(Submit))

\* Septet k is bits 7k to 7k + 6 of the octets that follow the length.
BitAt(j) == (UserData[j \div 8 + 2] \div 2 ^ (j % 8)) % 2
Septet(k) ==
    BitAt(7 * k) + 2 * BitAt(7 * k + 1) + 4 * BitAt(7 * k + 2) + 8 * BitAt(7 * k + 3)
        + 16 * BitAt(7 * k + 4) + 32 * BitAt(7 * k + 5) + 64 * BitAt(7 * k + 6)
Received == [k \in 1 .. UserData[1] |-> Septet(k - 1)]

Places(text) ==
    FlattenSeq([k \in DOMAIN text |->
        CASE text[k] \in DOMAIN sms_gsm7 -> <<sms_gsm7[text[k]]>>
          [] text[k] \in DOMAIN sms_gsm7_ext -> <<27, sms_gsm7_ext[text[k]]>>
          [] OTHER -> <<>>])

\* sms_encode_pdu: a receiver that takes the PDU apart finds the number (with the
\* filler, if its digits are odd in number), the service centre, and the places in
\* the table of every character that is in it, whatever the number of septets: no
\* more and no fewer octets than they fill.  A text of more than 255 has a wrong
\* length.
PduIsDecoded ==
    pc = "done" =>
        LET n == Len(given.number.digits) IN
        /\ Dialled(Address, Digits) = IF n % 2 = 0 THEN given.number.digits ELSE Append(given.number.digits, 15)
        /\ Submit[4] = IF given.number.plus THEN 145 ELSE 129
        /\ given.smsc # <<>> => Dialled(SubSeq(status, 3, 1 + status[1]), Len(given.smsc[1].digits)) = given.smsc[1].digits
        /\ Len(Places(given.text)) < 256 =>
                /\ UserData[1] = Len(Places(given.text))
                /\ Len(UserData) = 1 + (7 * UserData[1] + 7) \div 8
                /\ Received = Places(given.text)

\* Places of the same characters in 3GPP TS 23.038.
Gsm7 == ("@" :> 0) @@ ("A" :> 65) @@ ("G" :> 71) @@ ("H" :> 72) @@ ("Z" :> 90) @@ ("i" :> 105) @@ ("x" :> 120)
        @@ ("agrave" :> 127)

\* lib/sms_utils.c: "GSM7 Charmap according to 3GPP TS 23.038".  A text of letters
\* of that table arrives as it was sent.
TextIsDelivered ==
    pc = "done" /\ ToSet(given.text) \subseteq DOMAIN Gsm7 =>
        Received = [k \in DOMAIN given.text |-> Gsm7[given.text[k]]]
=============================================================================
