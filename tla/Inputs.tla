------------------------------- MODULE Inputs -------------------------------
(***************************************************************************)
(* What strangers hand to the policy: a rules document, tag by tag, or a   *)
(* name's transaction, output by output.  Neither affects the other, so a  *)
(* behaviour writes one of them, a transaction beside one of the contexts  *)
(* that only documents are judged in.                                      *)
(***************************************************************************)
EXTENDS RulesTags, Resolution

InputsInit == TagsInit /\ ResolutionInit

InputsNext ==
  \/ vout = <<>> /\ lookup = Unasked /\ TagsNext /\ UNCHANGED <<vout, lookup>>
  \/ /\ tags = <<>> /\ ctx = CHOOSE c \in Contexts : TRUE
     /\ ResolutionNext
     /\ UNCHANGED tagsVars

InputsSpec == InputsInit /\ [][InputsNext]_<<tagsVars, vout, lookup>>
=============================================================================
