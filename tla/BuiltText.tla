----------------------------- MODULE BuiltText -----------------------------
(***************************************************************************)
(* What the users of string_builder.c rely on: a text to which texts are   *)
(* appended.  Asking for it as one string (string_builder_c_str) does not  *)
(* change it.                                                              *)
(***************************************************************************)
EXTENDS Sequences

CONSTANTS Texts, NoText

VARIABLE built   \* the text of the builder, NoText while there is none

Start(t) == built = NoText /\ built' = t

Add(t) == built # NoText /\ built' = built \o t

Drop == built' = NoText

TextInit == built = NoText

TextNext ==
    \/ \E t \in Texts \union {<<>>} : Start(t)
    \/ \E t \in Texts : Add(t)
    \/ Drop

TextSpec == TextInit /\ [][TextNext]_built
=============================================================================
