---------------------------- MODULE MCScheduler ----------------------------
(* Values for the constants of Scheduler: one shared directory, and tasks that
   all write, all read, or read except for one that runs a shell. *)
EXTENDS Scheduler, TLC

OneDirectory == [t \in Task |-> CHOOSE d \in Dir : TRUE]

WriteTasks == [t \in Task |-> {"read", "write"}]

ReadTasks == [t \in Task |-> {"read"}]

ShellTask == CHOOSE s \in Task : TRUE

OneShellTask ==
    [t \in Task |-> IF t = ShellTask THEN {"read", "shell"} ELSE {"read"}]

Symmetry == Permutations(Executor)

(* Bound: the tasks that some executor is about are created, and no others. *)
Targeted == \A t \in Task : status[t] # "absent" => \E e \in Executor : target[e] = t

(* Tasks that only read are alike, too. *)
ReaderSymmetry == Symmetry \cup Permutations(Task \ {ShellTask})

=============================================================================
