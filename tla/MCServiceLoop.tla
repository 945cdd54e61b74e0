---------------------------- MODULE MCServiceLoop ----------------------------
(* ServiceLoop on one workflow and, in the directories, the files that get in each other's way. *)
EXTENDS ServiceLoop

CONSTANT wf1

Says(type, decision, declines) ==
    [workflow |-> wf1, type |-> type, decision |-> decision, declines |-> declines]

MCContent == <<Says("UNSAFE", 0, FALSE), Says("CREATE", 0, FALSE), Says("CHANGE", 0, FALSE),
               Says("ANSWER", 1, FALSE), Says("ANSWER", 1, TRUE), Says("PAUSE", 0, FALSE),
               Says("RESUME", 0, FALSE), Says("INVALID", 0, FALSE)>>
=============================================================================
