--------------------------- MODULE TemplateScopes ---------------------------
(***************************************************************************)
(* What the author of a notification template relies on.  A template is    *)
(* read from left to right; IF, UNLESS and SWITCH open a scope and END     *)
(* closes the innermost one.  Every scope remembers its own test and its   *)
(* own arm, whatever surrounds it.  A piece of text reaches the output     *)
(* exactly when the current arm of every open scope is taken.              *)
(***************************************************************************)
EXTENDS Integers, Sequences

CONSTANTS
    Texts,      \* the pieces of text a template may hold
    Values      \* the values a test may have

VARIABLES
    scopes,     \* the open scopes, innermost last
    out,        \* the text produced so far
    status      \* "idle", "parsing", "exited"

scopeVars == <<scopes, out, status>>

Arms == {"if", "else", "switch", "case"}

Scope == [arm : Arms, test : Values, label : Values]

\* The arm of scope s that is being read is the one its test selects.
Taken(s) ==
    CASE s.arm = "if"     -> s.test # 0
      [] s.arm = "else"   -> s.test = 0
      [] s.arm = "switch" -> FALSE
      [] s.arm = "case"   -> s.test = s.label
      [] OTHER            -> FALSE

AllTaken(ss) == \A i \in DOMAIN ss : Taken(ss[i])

ScopesInit ==
    /\ scopes = <<>>
    /\ out = <<>>
    /\ status = "idle"

Begin ==
    /\ status = "idle"
    /\ status' = "parsing"
    /\ out' = <<>>
    /\ UNCHANGED scopes

Emit(t) ==
    /\ status = "parsing"
    /\ out' = IF AllTaken(scopes) THEN Append(out, t) ELSE out
    /\ UNCHANGED <<scopes, status>>

Open(s) ==
    /\ status = "parsing"
    /\ s.arm \in {"if", "switch"}
    /\ scopes' = Append(scopes, s)
    /\ UNCHANGED <<out, status>>

\* ELSE and CASE move the innermost scope to another arm and keep its test.
NextArm(s) ==
    /\ status = "parsing"
    /\ scopes # <<>>
    /\ s.arm \in {"else", "case"}
    /\ s.test = scopes[Len(scopes)].test
    /\ scopes' = [scopes EXCEPT ![Len(scopes)] = s]
    /\ UNCHANGED <<out, status>>

Close ==
    /\ status = "parsing"
    /\ scopes # <<>>
    /\ scopes' = SubSeq(scopes, 1, Len(scopes) - 1)
    /\ UNCHANGED <<out, status>>

Return ==
    /\ status = "parsing"
    /\ scopes = <<>>
    /\ status' = "idle"
    /\ UNCHANGED <<scopes, out>>

Reject ==
    /\ status = "parsing"
    /\ status' = "exited"
    /\ UNCHANGED <<scopes, out>>

ScopesNext ==
    \/ Begin
    \/ \E t \in Texts : Emit(t)
    \/ \E s \in Scope : Open(s) \/ NextArm(s)
    \/ Close
    \/ Return
    \/ Reject

ScopesSpec == ScopesInit /\ [][ScopesNext]_scopeVars
=============================================================================
