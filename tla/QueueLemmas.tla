----------------------------- MODULE QueueLemmas -----------------------------
(***************************************************************************)
(* Facts about sequences that are used as queues: what push_back and       *)
(* pop_front leave, and who is in the queue afterwards.                    *)
(***************************************************************************)
EXTENDS Naturals, Sequences, TLAPS

\* What the head and the tail of a non-empty queue are.
LEMMA HeadTail ==
    ASSUME NEW S, NEW q \in Seq(S), q # <<>>
    PROVE  /\ Head(q) \in S
           /\ Head(q) = q[1]
           /\ Tail(q) \in Seq(S)
           /\ Len(q) \in Nat \ {0}
           /\ Len(Tail(q)) = Len(q) - 1
           /\ \A i \in 1..Len(Tail(q)) : Tail(q)[i] = q[i + 1]
OBVIOUS

\* What a queue is after push_back.
LEMMA AppendFacts ==
    ASSUME NEW S, NEW q \in Seq(S), NEW t \in S
    PROVE  /\ Append(q, t) \in Seq(S)
           /\ Append(q, t) # <<>>
           /\ Len(q) \in Nat
           /\ Len(Append(q, t)) = Len(q) + 1
           /\ \A i \in 1..Len(q) : Append(q, t)[i] = q[i]
           /\ Append(q, t)[Len(q) + 1] = t
           /\ q # <<>> => Head(Append(q, t)) = Head(q)
<1>1. /\ Append(q, t) \in Seq(S)
      /\ Len(q) \in Nat
      /\ Len(Append(q, t)) = Len(q) + 1
      /\ \A i \in 1..Len(q) : Append(q, t)[i] = q[i]
      /\ Append(q, t)[Len(q) + 1] = t
  OBVIOUS
<1>2. Append(q, t) # <<>>
  BY <1>1
<1>3. ASSUME q # <<>> PROVE Head(Append(q, t)) = Head(q)
  <2>1. Len(q) \in Nat \ {0}
    BY <1>3
  <2>2. Append(q, t)[1] = q[1]
    BY <1>1, <2>1
  <2>3. QED BY <1>1, <1>2, <1>3, <2>2
<1>4. QED BY <1>1, <1>2, <1>3

\* The tail of a queue after push_back.
LEMMA TailOfAppend ==
    ASSUME NEW S, NEW q \in Seq(S), q # <<>>, NEW t \in S
    PROVE  Tail(Append(q, t)) = Append(Tail(q), t)
OBVIOUS

\* What is below an index is an index, and not above the one before it.
LEMMA UpTo ==
    ASSUME NEW n \in Nat, NEW k \in Nat, k + 1 \in 1..n,
           NEW j \in 1..((k + 1) - 1)
    PROVE  j \in 1..n /\ ~(j > k)
OBVIOUS

\* An index of a sequence one longer is an old index or the new one.
LEMMA LastIndex ==
    ASSUME NEW n \in Nat, NEW m, m = n + 1, NEW i \in 1..m
    PROVE  i \in 1..n \/ i = n + 1
OBVIOUS

\* To be above the next number is to be above this one and not the next.
LEMMA Above ==
    ASSUME NEW k \in Nat, NEW n, n = k + 1, NEW i \in Nat
    PROVE  i > n <=> i > k /\ i # n
OBVIOUS

\* What the queue is after push_back of a new member: nobody is in it twice.
LEMMA AppendMembers ==
    ASSUME NEW S, NEW q \in Seq(S), NEW t \in S, NEW p, p = Append(q, t),
           \A i \in 1..Len(q) : q[i] # t,
           \A i, j \in 1..Len(q) : q[i] = q[j] => i = j
    PROVE  /\ \A i, j \in 1..Len(p) : p[i] = p[j] => i = j
           /\ \A u : (\E i \in 1..Len(p) : p[i] = u) <=>
                    u = t \/ \E i \in 1..Len(q) : q[i] = u
<1>1. /\ Len(q) \in Nat /\ Len(p) = Len(q) + 1
      /\ \A i \in 1..Len(q) : p[i] = q[i]
      /\ p[Len(q) + 1] = t
  BY AppendFacts
<1>2. \A i \in 1..Len(p) : i \in 1..Len(q) \/ i = Len(q) + 1
  BY <1>1, LastIndex
<1>3. ASSUME NEW i \in 1..Len(p), NEW j \in 1..Len(p), p[i] = p[j] PROVE i = j
  BY <1>1, <1>2, <1>3
<1>4. ASSUME NEW u PROVE (\E i \in 1..Len(p) : p[i] = u) <=>
                           u = t \/ \E i \in 1..Len(q) : q[i] = u
  <2>1. Len(q) + 1 \in 1..Len(p) /\ \A i \in 1..Len(q) : i \in 1..Len(p)
    BY <1>1
  <2>2. QED BY <1>1, <1>2, <2>1
<1>5. QED BY <1>3, <1>4

\* Who is in it after pop_front (see HeadTail): all but the first member.
LEMMA TailMembers ==
    ASSUME NEW S, NEW q \in Seq(S), NEW p \in Seq(S), q # <<>>,
           Len(p) = Len(q) - 1,
           \A i \in 1..Len(p) : p[i] = q[i + 1],
           \A i, j \in 1..Len(q) : q[i] = q[j] => i = j
    PROVE  /\ \A i, j \in 1..Len(p) : p[i] = p[j] => i = j
           /\ \A i \in 1..Len(p) :
                i + 1 \in 1..Len(q) /\ q[i + 1] = p[i] /\ p[i] # q[1]
           /\ \A i \in 1..Len(q) :
                q[i] # q[1] => i - 1 \in 1..Len(p) /\ p[i - 1] = q[i]
<1>1. /\ Len(q) \in Nat \ {0} /\ Len(p) = Len(q) - 1
      /\ \A i \in 1..Len(p) : p[i] = q[i + 1]
  BY HeadTail
<1>2. \A i \in 1..Len(p) : i + 1 \in 1..Len(q) /\ i + 1 # 1
  BY <1>1
<1>3. ASSUME NEW i \in 1..Len(p), NEW j \in 1..Len(p), p[i] = p[j] PROVE i = j
  <2>1. q[i + 1] = q[j + 1]
    BY <1>1, <1>3
  <2>2. i + 1 = j + 1
    BY <1>2, <2>1
  <2>3. QED BY <2>2
<1>4. ASSUME NEW i \in 1..Len(p)
      PROVE  i + 1 \in 1..Len(q) /\ q[i + 1] = p[i] /\ p[i] # q[1]
  <2>1. i + 1 \in 1..Len(q) /\ i + 1 # 1 /\ q[i + 1] = p[i] /\ 1 \in 1..Len(q)
    BY <1>1, <1>2
  <2>2. QED BY <2>1
<1>5. ASSUME NEW i \in 1..Len(q), q[i] # q[1]
      PROVE  i - 1 \in 1..Len(p) /\ p[i - 1] = q[i]
  <2>1. i # 1
    BY <1>5
  <2>2. i - 1 \in 1..Len(p) /\ (i - 1) + 1 = i
    BY <1>1, <2>1
  <2>3. QED BY <1>1, <2>2
<1>6. QED BY <1>3, <1>4, <1>5
==============================================================================
