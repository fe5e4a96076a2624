------------------------------- MODULE Vector -------------------------------
(***************************************************************************)
(* What mmp_gen_vect.h promises: a sequence of elements, of any length,    *)
(* and what each call makes of it.                                         *)
(***************************************************************************)
EXTENDS Naturals, Sequences

CONSTANTS Val, Null

VARIABLES s,        \* the sequence, Null if there is none
          did       \* the last call that changed it: its name and arguments

Init == s = Null /\ did = << >>

Filled(n, x) == [i \in 1..n |-> x]
Before(n) == SubSeq(s, 1, n)
After(n) == SubSeq(s, n + 1, Len(s))

Made(op, n, x) ==
    CASE op = "destroy" -> Null
      [] op = "fill" -> Filled(Len(s), x)
      [] op = "resize" -> IF n <= Len(s) THEN Before(n) ELSE s \o Filled(n - Len(s), x)
      [] op = "push" -> Append(s, x)
      [] op = "pop" -> Before(Len(s) - 1)
      [] op = "erase" -> Before(n) \o After(n + 1)
      [] op = "insert" -> Before(n) \o <<x>> \o After(n)

Create == /\ s = Null
          /\ did'[1] = "create"
          /\ s' = Filled(did'[2], did'[3])
Call == /\ s # Null
        /\ did'[1] # "create"
        /\ s' = Made(did'[1], did'[2], did'[3])

Next == Create \/ Call

Spec == Init /\ [][Next]_<<s, did>>
=============================================================================
