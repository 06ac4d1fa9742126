-------------------------------- MODULE PaidRun --------------------------------
(***************************************************************************)
(* What the seller promises about one research run, whatever happens       *)
(* between the handlers that sell and stop it, the runner that works on it *)
(* and the crashes of either.                                              *)
(*                                                                         *)
(*   open --> void                  the sale failed; no work was done      *)
(*   open --> paid --> working      the sale settled, then the run started *)
(*   working --> ended              and it never works again; or           *)
(*   working --> closing --> ended  it was stopped with a check at hand,   *)
(*                                  which may still be written down        *)
(*                                                                         *)
(* Checks are numbered 1, 2, ... in the order they are written down: only  *)
(* of a working run, and one more at most after it was stopped. That a     *)
(* crash makes the last number be written down twice is not visible here.  *)
(***************************************************************************)
EXTENDS Naturals

CONSTANT Tasks    \* the runs

VARIABLES phase, checks    \* checks: the numbers of those written down

vars == <<phase, checks>>

Init == /\ phase = [t \in Tasks |-> "open"]
        /\ checks = [t \in Tasks |-> {}]

Move(t, from, to) == /\ phase[t] = from
                     /\ phase' = [phase EXCEPT ![t] = to]

GiveUp(t) == Move(t, "open", "void")

Pay(t) == Move(t, "open", "paid")

Start(t) == Move(t, "paid", "working")

Stop(t) == Move(t, "working", "closing")

End(t) == Move(t, "working", "ended") \/ Move(t, "closing", "ended")

WriteDown(t) == /\ \E n \in checks[t] \cup {0} : /\ checks[t] = 1..n
                                                 /\ checks' = [checks EXCEPT ![t] = 1..(n + 1)]
                /\ \/ phase[t] = "working" /\ UNCHANGED phase
                   \/ Move(t, "closing", "ended")

\* A crash of the runner drops the checks at hand of any number of stopped runs.
EndAll == \E S \in SUBSET {t \in Tasks : phase[t] = "closing"} :
            phase' = [t \in Tasks |-> IF t \in S THEN "ended" ELSE phase[t]]

Advance(t) == GiveUp(t) \/ Pay(t) \/ Start(t) \/ Stop(t) \/ End(t)

Next == \/ \E t \in Tasks : Advance(t) /\ UNCHANGED checks
        \/ EndAll /\ UNCHANGED checks
        \/ \E t \in Tasks : WriteDown(t)

Spec == Init /\ [][Next]_vars
===============================================================================
