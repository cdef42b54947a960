----------------------------- MODULE MpTemplate -----------------------------
(***************************************************************************)
(* The notification template engine: lib/mp_template.c driven by the       *)
(* parser of lib/mp_template_yacc.y.                                       *)
(*                                                                         *)
(* The engine keeps ONE flag, mp_template_output_disable, and a linked     *)
(* list of conditionals on which it pushes only while output is enabled;   *)
(* a conditional met while output is disabled only increments the counter  *)
(* "deep" of the innermost list entry.  TemplateScopes states what this    *)
(* economy has to amount to.                                               *)
(***************************************************************************)
EXTENDS Integers, Sequences

CONSTANTS
    Texts,          \* pieces of text; a text is represented by its length
    Values,         \* values of IF, SWITCH and CASE expressions
    memblock,       \* allocation unit of the output buffer
    MaxDepth,       \* bound: conditionals open at once
    MaxOut          \* bound: pieces of text in the output

ASSUME TemplateAssumption ==
    /\ Texts \subseteq Nat
    /\ Values \subseteq Int
    /\ 0 \in Values
    /\ memblock \in Nat \ {0}
    /\ MaxDepth \in Nat
    /\ MaxOut \in Nat

VARIABLES
    nest,       \* the parser's stack of open IF / SWITCH constructs
    conditionals,   \* mp_template_conditionals, innermost entry last
    disable,    \* mp_template_output_disable
    out,        \* what mp_template_output holds
    len,        \* mp_template_output_len
    pos,        \* mp_template_output_pos
    status      \* "idle": between templates; "parsing"; "exited"

vars == <<nest, conditionals, disable, out, len, pos, status>>

\* The constructs on the parser's stack are the scopes the template's author
\* sees; the engine never consults them.
Scopes == INSTANCE TemplateScopes WITH scopes <- nest

\* struct mp_template_conditional_list (its type is COND_INT throughout).
Conditional == [ival : Values, deep : Nat]

TypeOK ==
    /\ nest \in Seq(Scopes!Scope)
    /\ conditionals \in Seq(Conditional)
    /\ disable \in BOOLEAN
    /\ out \in Seq(Texts)
    /\ len \in Nat
    /\ pos \in Nat
    /\ status \in {"idle", "parsing", "exited"}

Init ==
    /\ nest = <<>>
    /\ conditionals = <<>>
    /\ disable = FALSE
    /\ out = <<>>
    /\ len = 0
    /\ pos = 0
    /\ status = "idle"

-----------------------------------------------------------------------------
(* The grammar: which token may come next.                                 *)

Top(s) == s[Len(s)]
InSwitchHead == nest # <<>> /\ Top(nest).arm = "switch"

\* "blocks" may continue everywhere but between SWITCH and its first CASE.
BlockAllowed == status = "parsing" /\ ~InSwitchHead
ElseAllowed  == status = "parsing" /\ nest # <<>> /\ Top(nest).arm = "if"
CaseAllowed  == status = "parsing" /\ nest # <<>> /\ Top(nest).arm \in {"switch", "case"}
EndAllowed   == status = "parsing" /\ nest # <<>>

-----------------------------------------------------------------------------
(* lib/mp_template.c                                                       *)

\* mp_template() and mp_template_str(): a fresh buffer, then the parser runs.
mp_template ==
    /\ status = "idle"
    /\ status' = "parsing"
    /\ out' = <<>>
    /\ len' = memblock
    /\ pos' = 0
    /\ UNCHANGED <<nest, conditionals, disable>>

\* Defect: the buffer is never resized.
ResizedMut(old, need, l) == l = old

\* The loop and the extra block of the resize in mp_template_append: l is the
\* new size of a buffer of "old" bytes that has to hold "need" bytes.
Resized(old, need, l) ==
    \/ /\ old < need
       /\ \E k \in 1 .. (need - old) :
             /\ old + k * memblock >= need
             /\ old + k * memblock < need + memblock
             /\ l = old + k * memblock + memblock
    \/ ~(old < need) /\ l = old

mp_template_append(t) ==
    /\ BlockAllowed
    /\ IF disable
       THEN UNCHANGED <<out, len, pos>>
       ELSE /\ Len(out) < MaxOut
            /\ \E l \in len .. (len + t + 1 + 2 * memblock) :
                  Resized(len, pos + t + 1, l) /\ len' = l
            /\ out' = Append(out, t)
            /\ pos' = pos + t
    /\ UNCHANGED <<nest, conditionals, disable, status>>

\* GET of an environment variable that is not set: append returns at once.
mp_template_append_null ==
    /\ BlockAllowed
    /\ UNCHANGED vars

\* mp_template_conditionals->deep += d
Deepen(d) ==
    [conditionals EXCEPT ![Len(conditionals)] = [ival |-> @.ival, deep |-> @.deep + d]]

\* Defect: a conditional met while output is disabled is pushed like any other.
PushMut(arm, v, off) ==
    /\ Len(nest) < MaxDepth
    /\ nest' = Append(nest, [arm |-> arm, test |-> v, label |-> 0])
    /\ conditionals' = Append(conditionals, [ival |-> v, deep |-> 0])
    /\ disable' = off
    /\ UNCHANGED <<out, len, pos, status>>

\* What mp_template_if and mp_template_switch_int share: while output is
\* disabled only the innermost entry's depth grows.
Push(arm, v, off) ==
    /\ Len(nest) < MaxDepth
    /\ nest' = Append(nest, [arm |-> arm, test |-> v, label |-> 0])
    /\ IF disable
       THEN /\ conditionals' = Deepen(1)
            /\ UNCHANGED disable
       ELSE /\ conditionals' = Append(conditionals, [ival |-> v, deep |-> 0])
            /\ disable' = off
    /\ UNCHANGED <<out, len, pos, status>>

\* UNLESS calls mp_template_if with the negated value.
mp_template_if(v)         == BlockAllowed /\ Push("if", v, v = 0)
mp_template_switch_int(v) == BlockAllowed /\ Push("switch", v, TRUE)

\* Defect: the depth is not looked at.
SetDisableMut(off) ==
    /\ disable' = off
    /\ UNCHANGED <<conditionals, out, len, pos, status>>

\* What mp_template_else and mp_template_case_int share: inside a disabled
\* conditional (deep > 0) they do nothing.
SetDisable(off) ==
    /\ disable' = IF Top(conditionals).deep > 0 THEN disable ELSE off
    /\ UNCHANGED <<conditionals, out, len, pos, status>>

mp_template_else ==
    /\ ElseAllowed
    /\ nest' = [nest EXCEPT ![Len(nest)] = [arm |-> "else", test |-> @.test, label |-> 0]]
    /\ SetDisable(Top(conditionals).ival # 0)

mp_template_case_int(v) ==
    /\ CaseAllowed
    /\ nest' = [nest EXCEPT ![Len(nest)] = [arm |-> "case", test |-> @.test, label |-> v]]
    /\ SetDisable(Top(conditionals).ival # v)

\* Defect: the flag survives the conditional that set it.
mp_template_end_noreset ==
    /\ EndAllowed
    /\ nest' = SubSeq(nest, 1, Len(nest) - 1)
    /\ IF Top(conditionals).deep > 0
       THEN conditionals' = Deepen(-1)
       ELSE conditionals' = SubSeq(conditionals, 1, Len(conditionals) - 1)
    /\ UNCHANGED <<disable, out, len, pos, status>>

\* Defect: END always takes back a level of depth.
mp_template_end_deep ==
    /\ EndAllowed
    /\ nest' = SubSeq(nest, 1, Len(nest) - 1)
    /\ conditionals' = Deepen(-1)
    /\ UNCHANGED <<disable, out, len, pos, status>>

mp_template_end ==
    /\ EndAllowed
    /\ nest' = SubSeq(nest, 1, Len(nest) - 1)
    /\ IF Top(conditionals).deep > 0
       THEN /\ conditionals' = Deepen(-1)
            /\ UNCHANGED disable
       ELSE /\ conditionals' = SubSeq(conditionals, 1, Len(conditionals) - 1)
            /\ disable' = FALSE
    /\ UNCHANGED <<out, len, pos, status>>

\* The parser has read the whole template.
EndOfInput ==
    /\ status = "parsing"
    /\ nest = <<>>
    /\ status' = "idle"
    /\ UNCHANGED <<nest, conditionals, disable, out, len, pos>>

\* A token the grammar does not allow here (SET is allowed nowhere), or the
\* end of the input inside a conditional: yyerror is mp_template_error, which
\* exits through unknown().
mp_template_error ==
    /\ status = "parsing"
    /\ status' = "exited"
    /\ UNCHANGED <<nest, conditionals, disable, out, len, pos>>

\* Comparing a variable that is not set (strcmp of NULL) and an integer
\* division by zero end the process, in a disabled branch as in any other:
\* expressions are evaluated before the engine looks at the flag.
bexpr_fault ==
    /\ BlockAllowed
    /\ status' = "exited"
    /\ UNCHANGED <<nest, conditionals, disable, out, len, pos>>

Next ==
    \/ mp_template
    \/ \E t \in Texts : mp_template_append(t)
    \/ mp_template_append_null
    \/ \E v \in Values : \/ mp_template_if(v)
                         \/ mp_template_switch_int(v)
                         \/ mp_template_case_int(v)
    \/ mp_template_else
    \/ mp_template_end
    \/ EndOfInput
    \/ mp_template_error
    \/ bexpr_fault

Spec == Init /\ [][Next]_vars
-----------------------------------------------------------------------------
(* Properties                                                              *)

\* One flag and one counter are enough: whenever the parser is inside a
\* template, output is disabled exactly when the arm being read of some open
\* construct, at any depth, is not the one its test selects.
FlagMeansVisible ==
    status = "parsing" => (disable <=> ~Scopes!AllTaken(nest))

\* mp_template and mp_template_str reset the buffer but neither the flag nor
\* the list of conditionals: a template that was parsed to its end must leave
\* both as a first call finds them.
IdleIsClean ==
    status = "idle" => conditionals = <<>> /\ ~disable

\* The terminating NUL of what has been appended always lies inside the
\* buffer, so the strncpy of len+1 bytes never passes its end.
BufferFits ==
    status = "parsing" => pos < len

\* Every open construct is either an entry of the list or counted in the depth
\* of its innermost entry, and the entries agree with the parser's stack: the
\* inductive part of the argument for FlagMeansVisible.
ListMatchesNest ==
    LET n == Len(conditionals) IN
    /\ nest = <<>> => n = 0 /\ ~disable
    /\ nest # <<>> =>
          /\ n \in 1 .. Len(nest)
          /\ Top(conditionals).deep = Len(nest) - n
          /\ Len(nest) > n => disable
          /\ disable <=> ~Scopes!Taken(nest[n])
    /\ \A i \in 1 .. n : conditionals[i].ival = nest[i].test
    /\ \A i \in 1 .. (n - 1) : conditionals[i].deep = 0 /\ Scopes!Taken(nest[i])

\* The inductive invariant.
IInv ==
    /\ TypeOK
    /\ ListMatchesNest
    /\ BufferFits
    /\ status = "idle" => nest = <<>>

\* The engine implements TemplateScopes: each piece of text is kept or dropped
\* as the template's author expects.
ImplementsScopes == Scopes!ScopesSpec
=============================================================================
