------------------------------ MODULE Admission ------------------------------
(***************************************************************************)
(* What a counting semaphore promises, without its counter: at most        *)
(* Permits acquirers are inside at a time, the others stand in one line    *)
(* and enter in the order they joined it, and a permit that becomes free   *)
(* is never left unused while somebody stands in the line.                 *)
(***************************************************************************)
EXTENDS Naturals, Sequences, FiniteSets

CONSTANTS Acquirers, Permits

VARIABLES admitted,   \* the acquirers inside
          line,       \* the acquirers waiting, first come first
          gone        \* the acquirers that left, were refused or gave up
vars == <<admitted, line, gone>>

Waiting == {line[i] : i \in 1..Len(line)}
Outside == Acquirers \ (admitted \cup Waiting \cup gone)
Full == Cardinality(admitted) = Permits

Init == admitted = {} /\ line = <<>> /\ gone = {}

Enter(a) ==
  /\ a \in Outside /\ ~Full /\ line = <<>>
  /\ admitted' = admitted \cup {a}
  /\ UNCHANGED <<line, gone>>

Join(a) ==
  /\ a \in Outside /\ Full
  /\ line' = Append(line, a)
  /\ UNCHANGED <<admitted, gone>>

Refuse(a) ==
  /\ a \in Outside
  /\ gone' = gone \cup {a}
  /\ UNCHANGED <<admitted, line>>

GiveUp(a) ==
  /\ \E k \in 1..Len(line) :
       /\ line[k] = a
       /\ line' = [i \in 1..(Len(line) - 1) |->
                    IF i < k THEN line[i] ELSE line[i + 1]]
  /\ gone' = gone \cup {a}
  /\ UNCHANGED admitted

\* Somebody leaves, and in the same step the head of the line takes the place.
Leave(a) ==
  /\ a \in admitted
  /\ gone' = gone \cup {a}
  /\ IF line = <<>>
       THEN admitted' = admitted \ {a} /\ UNCHANGED line
       ELSE admitted' = (admitted \ {a}) \cup {Head(line)} /\ line' = Tail(line)

Next == \E a \in Acquirers :
          Enter(a) \/ Join(a) \/ Refuse(a) \/ GiveUp(a) \/ Leave(a)

Spec == Init /\ [][Next]_vars
=============================================================================
