---------------------------- MODULE OneTimeCode -----------------------------
(***************************************************************************)
(* What a one-time code promises: of the codes issued for one subject at   *)
(* most one is valid, and a code is accepted at most once, while it is     *)
(* valid.  A code that became void or was used never works again.          *)
(***************************************************************************)
EXTENDS Naturals

CONSTANTS Codes, Subjects, NoSubject

VARIABLES
  code,          \* code[c]: absent, valid, void or used
  subject,       \* subject[c]: what it was issued for
  uses           \* uses[c]: how often it was accepted

vars == <<code, subject, uses>>

Init ==
  /\ code = [c \in Codes |-> "absent"]
  /\ subject = [c \in Codes |-> NoSubject]
  /\ uses = [c \in Codes |-> 0]

Issue(c, s) ==
  /\ code[c] = "absent"
  /\ \A d \in Codes : code[d] = "valid" => subject[d] # s
  /\ code' = [code EXCEPT ![c] = "valid"]
  /\ subject' = [subject EXCEPT ![c] = s]
  /\ UNCHANGED uses

\* The codes of a subject become void together.
Void(s) ==
  /\ code' = [c \in Codes |->
                IF code[c] = "valid" /\ subject[c] = s THEN "void" ELSE code[c]]
  /\ UNCHANGED <<subject, uses>>

Use(c) ==
  /\ code[c] = "valid"
  /\ code' = [code EXCEPT ![c] = "used"]
  /\ uses' = [uses EXCEPT ![c] = uses[c] + 1]
  /\ UNCHANGED subject

Next ==
  \/ \E c \in Codes : Use(c) \/ \E s \in Subjects : Issue(c, s)
  \/ \E s \in Subjects : Void(s)

Spec == Init /\ [][Next]_vars

=============================================================================
