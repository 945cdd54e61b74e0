---- MODULE ControlCommands ----
(* Who runs the control commands beside the service loop (release-control,
   manager-control, hr-review), and how many of them.  These processes meet only in
   the files and the database they use, and each may die at any step. *)
EXTENDS Integers, FiniteSets

CONSTANTS
    None,     \* no process, no value
    Clients,  \* the processes
    Mixes     \* how many commands of each kind may be given, one bound by kind

\* A writer, a holder or a reservation that is None is nobody's.
ASSUME CommandsAssumption == None \notin Clients

\* What is left to give, by kind of command.
VARIABLE budget

CommandsInit == budget \in Mixes

\* cli.mjs run: one more command of this kind begins.
Take(kind) ==
    /\ budget[kind] > 0
    /\ budget' = [budget EXCEPT ![kind] = @ - 1]
====
