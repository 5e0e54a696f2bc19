---------------------------- MODULE FifoFrontProofs ----------------------------
(***************************************************************************)
(* LineInv is inductive, for any number of threads.                        *)
(***************************************************************************)
EXTENDS FifoFront, QueueLemmas

\* Who takes the free front finds no value taken.
LEMMA TakeFrontLine ==
    ASSUME LineInv, NEW t \in Threads, TakeFront(t)
    PROVE  LineInv'
<1>1. /\ holder = NoThread /\ line = <<>>
      /\ holder' = t /\ line' = line /\ merged' = merged
  BY DEF TakeFront
<1>2. Len(line) = 0
  BY <1>1
<1>3. merged = {}
  BY <1>1, <1>2, LineAssumption DEF LineInv, InLine
<1>4. QED BY <1>1, <1>2, <1>3, LineAssumption DEF LineInv, InLine

\* Who joins the line is behind all whose value is taken.
LEMMA JoinLine ==
    ASSUME LineInv, NEW t \in Threads, Join(t)
    PROVE  LineInv'
<1> USE DEF LineInv
<1>1. /\ holder \notin {NoThread, t} /\ ~InLine(t)
      /\ line' = Append(line, t)
      /\ holder' = holder /\ merged' = merged
  BY DEF Join
<1>2. /\ line' \in Seq(Threads)
      /\ Len(line) \in Nat /\ Len(line') = Len(line) + 1
      /\ \A i \in 1..Len(line) : line'[i] = line[i]
      /\ line'[Len(line) + 1] = t
  BY <1>1, AppendFacts
<1>3. \A i \in 1..Len(line') : i \in 1..Len(line) \/ i = Len(line) + 1
  BY <1>2, LastIndex
<1>4. /\ \A i, j \in 1..Len(line') : line'[i] = line'[j] => i = j
      /\ \A u : InLine(u)' <=> u = t \/ InLine(u)
  BY <1>1, AppendMembers DEF InLine
<1>5. ASSUME NEW i \in 1..Len(line'), NEW j \in 1..Len(line'),
             i < j, line'[j] \in merged'
      PROVE  line'[i] \in merged'
  <2>1. t \notin merged
    BY <1>1
  <2>2. j \in 1..Len(line)
    BY <1>1, <1>2, <1>3, <1>5, <2>1
  <2>3. i \in 1..Len(line)
    BY <1>2, <1>3, <1>5, <2>2
  <2>4. QED BY <1>1, <1>2, <1>5, <2>2, <2>3
<1>6. QED BY <1>1, <1>2, <1>4, <1>5

\* The first value that is not taken is behind those that are.
LEMMA MergeLine ==
    ASSUME LineInv, Merge
    PROVE  LineInv'
<1> USE DEF LineInv
<1>1. PICK k \in 1..Len(line) :
        /\ line[k] \notin merged
        /\ \A j \in 1..(k - 1) : line[j] \in merged
        /\ merged' = merged \cup {line[k]}
  BY DEF Merge
<1>2. holder' = holder /\ line' = line
  BY DEF Merge
<1>3. Len(line) \in Nat /\ line[k] \in Threads /\ InLine(line[k])
  BY <1>1 DEF InLine
<1>4. ASSUME NEW i \in 1..Len(line), NEW j \in 1..Len(line),
             i < j, line[j] \in merged'
      PROVE  line[i] \in merged'
  <2>1. CASE line[j] \in merged
    BY <1>1, <1>4, <2>1
  <2>2. CASE j = k
    <3>1. i \in 1..(k - 1)
      BY <1>3, <1>4, <2>2
    <3>2. QED BY <1>1, <3>1
  <2>3. QED BY <1>1, <1>4, <2>1, <2>2
<1>5. QED BY <1>1, <1>2, <1>3, <1>4 DEF InLine

\* The first in line is the only one to leave it, as the new holder.
LEMMA PassLine ==
    ASSUME LineInv, Pass
    PROVE  LineInv'
<1> USE DEF LineInv
<1>1. holder # NoThread /\ merged' = merged \ {holder}
  BY DEF Pass
<1>2. CASE line = <<>>
  <2>1. holder' = NoThread /\ line' = <<>> /\ Len(line) = 0
    BY <1>2 DEF Pass
  <2>2. merged' = {}
    BY <1>1, <2>1 DEF InLine
  <2>3. QED BY <2>1, <2>2 DEF InLine
<1>3. CASE line # <<>>
  <2>1. holder' = Head(line) /\ line' = Tail(line)
    BY <1>3 DEF Pass
  <2>2. /\ Head(line) \in Threads /\ Head(line) = line[1]
        /\ line' \in Seq(Threads)
        /\ Len(line) \in Nat \ {0} /\ Len(line') = Len(line) - 1
        /\ \A i \in 1..Len(line') : line'[i] = line[i + 1]
    BY <1>3, <2>1, HeadTail
  <2>3. /\ \A i, j \in 1..Len(line') : line'[i] = line'[j] => i = j
        /\ \A i \in 1..Len(line') :
            i + 1 \in 1..Len(line) /\ line[i + 1] = line'[i]
                                  /\ line'[i] # line[1]
        /\ \A i \in 1..Len(line) :
            line[i] # line[1] => i - 1 \in 1..Len(line') /\ line'[i - 1] = line[i]
    <3>1. /\ line \in Seq(Threads)
          /\ \A i, j \in 1..Len(line) : line[i] = line[j] => i = j
      OBVIOUS
    <3> HIDE DEF LineInv
    <3>2. QED BY <1>3, <2>2, <3>1, TailMembers
  <2>4. holder' # NoThread /\ ~InLine(holder)
    BY <2>1, <2>2, LineAssumption
  <2>5. ~InLine(holder)'
    BY <2>1, <2>2, <2>3 DEF InLine
  <2>6. ASSUME NEW i \in 1..Len(line'), NEW j \in 1..Len(line'),
               i < j, line'[j] \in merged'
        PROVE  line'[i] \in merged'
    <3>1. /\ i + 1 \in 1..Len(line) /\ j + 1 \in 1..Len(line) /\ i + 1 < j + 1
          /\ line[i + 1] = line'[i] /\ line[j + 1] = line'[j]
      BY <2>2, <2>3, <2>6
    <3>2. line[i + 1] \in merged /\ line[i + 1] # holder
      BY <1>1, <2>4, <2>6, <3>1 DEF InLine
    <3>3. QED BY <1>1, <3>1, <3>2
  <2>7. ASSUME NEW u \in merged'
        PROVE  u = holder' \/ InLine(u)'
    <3>1. PICK i \in 1..Len(line) : line[i] = u
      BY <1>1, <2>7 DEF InLine
    <3>2. CASE u = line[1]
      BY <2>1, <2>2, <3>2
    <3>3. CASE u # line[1]
      BY <2>3, <3>1, <3>3 DEF InLine
    <3>4. QED BY <3>2, <3>3
  <2>8. QED BY <1>1, <2>1, <2>2, <2>3, <2>4, <2>5, <2>6, <2>7
<1>4. QED BY <1>2, <1>3

\* What MutexExclusive.queue is said to look like holds of every line that is
\* served first come, first served and merged in order.
THEOREM LineInvariant == Spec => []LineInv
<1>1. Init => LineInv
  BY LineAssumption DEF Init, LineInv, InLine
<1>2. LineInv /\ [Next]_fifoVars => LineInv'
  <2>1. CASE UNCHANGED fifoVars
    BY <2>1 DEF fifoVars, LineInv, InLine
  <2>2. QED
    BY <2>1, TakeFrontLine, JoinLine, MergeLine, PassLine DEF Next
<1>3. QED BY <1>1, <1>2, PTL DEF Spec
================================================================================
