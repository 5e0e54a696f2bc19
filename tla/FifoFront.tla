------------------------------- MODULE FifoFront -------------------------------
(***************************************************************************)
(* What a ContentionQueue promises (README.md, "Concurrency"; the front_   *)
(* exclusive and queue invariants of src/queue.rs and src/queue_state.rs): *)
(* one thread at a time holds the front; the others stand in line in the   *)
(* order they came; the holder may merge the values of those in line into  *)
(* its own work, from the first on, and none twice; a thread whose value   *)
(* was merged gets the front in its turn too, but merges nothing; and the  *)
(* front always goes to the first in line.                                 *)
(***************************************************************************)
EXTENDS Naturals, Sequences

CONSTANTS Threads, NoThread

ASSUME LineAssumption == NoThread \notin Threads

VARIABLES holder,  \* the thread that has the front, or NoThread
          line,    \* the threads that wait for it, the first one first
          merged   \* the threads in line or at the front whose value is taken

fifoVars == <<holder, line, merged>>

InLine(t) == \E i \in 1..Len(line) : line[i] = t

Init ==
    /\ holder = NoThread
    /\ line = <<>>
    /\ merged = {}

\* The front is free: t takes it.
TakeFront(t) ==
    /\ holder = NoThread
    /\ line = <<>>
    /\ holder' = t
    /\ UNCHANGED <<line, merged>>

\* The front is held: t joins the line.
Join(t) ==
    /\ holder \notin {NoThread, t}
    /\ ~InLine(t)
    /\ line' = Append(line, t)
    /\ UNCHANGED <<holder, merged>>

\* Mutants: the holder takes any value; the front goes to the last in line.
MergeAny ==
    /\ holder \notin merged \cup {NoThread}
    /\ \E i \in 1..Len(line) :
        /\ line[i] \notin merged
        /\ merged' = merged \cup {line[i]}
    /\ UNCHANGED <<holder, line>>

PassToLast ==
    /\ holder # NoThread
    /\ merged' = merged \ {holder}
    /\ IF line = <<>>
       THEN holder' = NoThread /\ UNCHANGED line
       ELSE holder' = line[Len(line)] /\ line' = SubSeq(line, 1, Len(line) - 1)

\* The holder takes the first value in line that is not yet taken.
Merge ==
    /\ holder \notin merged \cup {NoThread}
    /\ \E i \in 1..Len(line) :
        /\ line[i] \notin merged
        /\ \A j \in 1..(i - 1) : line[j] \in merged
        /\ merged' = merged \cup {line[i]}
    /\ UNCHANGED <<holder, line>>

\* The holder is done: the first in line is next.
Pass ==
    /\ holder # NoThread
    /\ merged' = merged \ {holder}
    /\ IF line = <<>>
       THEN holder' = NoThread /\ UNCHANGED line
       ELSE holder' = Head(line) /\ line' = Tail(line)

Next ==
    \/ \E t \in Threads : TakeFront(t) \/ Join(t)
    \/ Merge
    \/ Pass

Spec == Init /\ [][Next]_fifoVars

\* Every holder passes the front on in the end.
FairSpec == Spec /\ WF_fifoVars(Pass)

-----------------------------------------------------------------------------
\* The holder is not in line, nobody is there twice, and the values that were
\* taken are those of the holder, at most, and of the first ones in line: what
\* MutexExclusive.queue is said to look like, Nones and then Somes.
LineInv ==
    /\ holder \in Threads \cup {NoThread}
    /\ line \in Seq(Threads)
    /\ merged \subseteq Threads
    /\ holder = NoThread => line = <<>>
    /\ ~InLine(holder)
    /\ \A i, j \in 1..Len(line) : line[i] = line[j] => i = j
    /\ \A i, j \in 1..Len(line) : i < j /\ line[j] \in merged => line[i] \in merged
    /\ \A t \in merged : t = holder \/ InLine(t)

\* Who stands in line gets the front.
NobodyStarves == \A t \in Threads : InLine(t) ~> holder = t
==============================================================================
