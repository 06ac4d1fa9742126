--------------------------- MODULE MCResearchTasks ---------------------------
(* Instances of ResearchTasks for TLC. *)
EXTENDS ResearchTasks, TLC

\* Handlers are interchangeable, and so are the runs of one wallet.
RunSymmetry == Permutations(Handlers) \cup Permutations(Tasks)
===============================================================================
