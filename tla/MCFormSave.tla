----------------------------- MODULE MCFormSave -----------------------------
(* Instances of FormSave for TLC. *)
EXTENDS FormSave
=============================================================================
