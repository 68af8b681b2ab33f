----------------------------- MODULE UploadForm -----------------------------
(* Files uploaded in a form: its parts are read one after the other and    *)
(* each is put under the same name, with the size its own name states.     *)
(* The store takes a part of the stated size and refuses one that breaks   *)
(* off before; it may fail.                                                *)
EXTENDS Naturals, Sequences

CONSTANT MaxParts   \* bound on the parts of a form

(* The name of a part is its size or no number, and a body may break off   *)
(* inside it.                                                              *)
Parts == [named : {"size", "other"}, whole : BOOLEAN]

VARIABLES
  form,     \* the parts that were sent
  broken,   \* the body breaks off behind them
  read,     \* parts read
  stored,   \* what the object was put with, in order
  answer    \* "none", "ok", "error", or "aborted" by a panic

vars == <<form, broken, read, stored, answer>>

Init ==
  /\ form \in UNION {[1..n -> Parts] : n \in 0..MaxParts}
  /\ broken \in BOOLEAN
  /\ \A k \in 1..Len(form) : ~form[k].whole => k = Len(form) /\ broken
  /\ read = 0 /\ stored = <<>> /\ answer = "none"

(* Mutant: any error of NextPart ends the form.                            *)
FormEnds_AnyError == answer = "none" /\ read = Len(form)

FormEnds == answer = "none" /\ read = Len(form) /\ ~broken

Done == FormEnds /\ answer' = "ok" /\ UNCHANGED <<form, broken, read, stored>>

(* NextPart's other errors are not looked at; there is no part, and its    *)
(* name is taken: the panic ends the connection.                           *)
NoPart ==
  /\ answer = "none" /\ read = Len(form) /\ broken
  /\ answer' = "aborted"
  /\ UNCHANGED <<form, broken, read, stored>>

Put ==
  /\ answer = "none" /\ read < Len(form)
  /\ form[read + 1].named = "size" /\ form[read + 1].whole
  /\ read' = read + 1 /\ stored' = Append(stored, read + 1)
  /\ UNCHANGED <<form, broken, answer>>

PutFails ==
  /\ answer = "none" /\ read < Len(form)
  /\ read' = read + 1 /\ answer' = "error"
  /\ UNCHANGED <<form, broken, stored>>

Next == Done \/ NoPart \/ Put \/ PutFails
Spec == Init /\ [][Next]_vars

-----------------------------------------------------------------------------
(* Properties.                                                             *)

(* Success means that the whole form came and every part of it was put, in *)
(* the order of the form (the last one is what the object holds).          *)
SuccessIsWhole ==
  answer = "ok" =>
    /\ stored = [k \in 1..Len(form) |-> k]
    /\ ~broken /\ \A k \in 1..Len(form) : form[k].whole
=============================================================================
