------------------------------- MODULE InOrder -------------------------------
(***************************************************************************)
(* What a core promises to the program it runs, whatever it does out of    *)
(* order or ahead of a branch: the micro-instructions of the program's own *)
(* path enter in program order, every one leaves, in the same order, and   *)
(* none of a wrong path is ever among them.  Micro-instructions are named  *)
(* by the order they were fetched in, those of wrong paths included.       *)
(***************************************************************************)
EXTENDS Integers, SequencesExt

CONSTANT MaxUops  \* bound on the micro-instructions fetched

VARIABLES
  fetched,  \* micro-instructions fetched so far, on any path
  window    \* those of the right path that have not retired, oldest first

Init == fetched = 0 /\ window = <<>>

\* A macro-instruction is fetched: all of it is of the right path, or none.
Enter(n) ==
  /\ fetched' = fetched + n
  /\ window' \in {window, window \o [i \in 1..n |-> fetched + i]}

Retire ==
  /\ window # <<>>
  /\ window' = Tail(window)
  /\ UNCHANGED fetched

Next == Retire \/ \E n \in 1..(MaxUops - fetched) : Enter(n)

Spec == Init /\ [][Next]_<<fetched, window>>

\* What entered retires: entries being bounded, the window empties.
EveryoneRetires == window # <<>> ~> window = <<>>
=============================================================================
