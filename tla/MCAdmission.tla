---------------------------- MODULE MCAdmission ----------------------------
(***************************************************************************)
(* Admission for TLC: a behaviour is about failed logins, about machines,  *)
(* or about their meeting at the worker, with or without the console's     *)
(* benchmark.                                                              *)
(***************************************************************************)
EXTENDS Admission, TLC

Attempts(logins, connects, benchmarks, time) ==
    [login |-> logins, connect |-> connects, benchmark |-> benchmarks, time |-> time]

MCBudgets ==
    {Attempts(6, 0, 0, 9), Attempts(0, 5, 0, 4), Attempts(1, 3, 0, 3), Attempts(1, 2, 1, 4)}

\* Addresses, names and client tasks are interchangeable.
Interchangeable ==
    Permutations(Addresses) \cup Permutations(Names) \cup Permutations(BrokerTasks)

=============================================================================
