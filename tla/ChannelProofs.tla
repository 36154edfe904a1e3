--------------------------- MODULE ChannelProofs ---------------------------
(***************************************************************************)
(* Proofs about the channels, for all channels, capacities, callers and    *)
(* selects.                                                                *)
(*                                                                         *)
(* Every action is shown to be a step of one caller c of a common form:    *)
(* Shape says whom it wakes, which nodes leave the lists and what becomes  *)
(* of the mutexes; Kind what it does to the rings (a push, a pop, a close, *)
(* the exit of a rendezvous, or nothing); Turn whether c goes to sleep or  *)
(* stops being on its way.  What the theorems say follows from that form   *)
(* alone, without looking at the actions again.                            *)
(***************************************************************************)
EXTENDS Channel, FiniteSetTheorems, SequenceTheorems, TLAPS

-----------------------------------------------------------------------------
\* Waiter lists.

\* A set of numbers has a smallest one: the first node wake_one can use.
LEMMA SmallestNat ==
  ASSUME NEW S \in SUBSET Nat, S # {}
  PROVE  \E i \in S : \A j \in S : i <= j
<1>1. \E i \in S : \A j \in S : ~(<<j, i>> \in OpToRel(<, Nat))
  BY WFMin, NatLessThanWellFounded
<1>2. \A i, j \in Nat : j < i => <<j, i>> \in OpToRel(<, Nat)
  BY DEF OpToRel
<1>3. PICK i \in S : \A j \in S : ~(<<j, i>> \in OpToRel(<, Nat))
  BY <1>1
<1>4. \A j \in S : ~(j < i)
  BY <1>2, <1>3
<1> QED
  BY <1>4

\* A waiter node names its goroutine and the case of its select.
LEMMA NodeFields ==
  ASSUME NEW c, NEW i
  PROVE  Node(c, i).g = c /\ Node(c, i).case = i
BY DEF Node

\* Every position of a set has one rank in it, and every rank one position.
LEMMA NthRank ==
  ASSUME NEW n \in Nat, NEW I \in SUBSET (1..n)
  PROVE  /\ IsFiniteSet(I) /\ Cardinality(I) \in Nat
         /\ \A k \in 1..Cardinality(I) : Nth(I, k) \in I
         /\ \A k, l \in 1..Cardinality(I) : Nth(I, k) = Nth(I, l) => k = l
         /\ \A i \in I : \E k \in 1..Cardinality(I) : Nth(I, k) = i
<1> DEFINE Upto(i) == {j \in I : j <= i}
           rank == [i \in I |-> Cardinality(Upto(i))]
           m == Cardinality(I)
<1>1. IsFiniteSet(I) /\ m \in Nat
  <2>1. IsFiniteSet(1..n)
    BY FS_Interval
  <2>2. IsFiniteSet(I)
    BY <2>1, FS_Subset
  <2> QED
    BY <2>2, FS_CardinalityType
<1>2. ASSUME NEW i \in I
      PROVE  IsFiniteSet(Upto(i)) /\ Cardinality(Upto(i)) \in 1..m
  <2>1. IsFiniteSet(Upto(i)) /\ Cardinality(Upto(i)) <= m
    BY <1>1, FS_Subset
  <2>2. Cardinality(Upto(i)) \in Nat
    BY <2>1, FS_CardinalityType
  <2>3. Upto(i) # {}
    OBVIOUS
  <2>4. Cardinality(Upto(i)) # 0
    BY <2>1, <2>3, FS_EmptySet
  <2> HIDE DEF Upto, m
  <2> QED
    BY <1>1, <2>1, <2>2, <2>4
<1>3. ASSUME NEW i \in I, NEW j \in I, i < j
      PROVE  Cardinality(Upto(i)) # Cardinality(Upto(j))
  <2>1. Upto(i) \subseteq Upto(j) /\ j \in Upto(j) /\ j \notin Upto(i)
    <3>1. i \in Int /\ j \in Int /\ \A k \in I : k \in Int
      OBVIOUS
    <3>2. \A k \in I : k <= i => k <= j
      BY <1>3, <3>1
    <3>3. ~(j <= i) /\ j <= j
      BY <1>3, <3>1
    <3> QED
      BY <3>2, <3>3, Zenon
  <2>2. Upto(i) # Upto(j)
    BY <2>1
  <2> QED
    BY <1>2, <2>1, <2>2, FS_Subset
<1>4. \A i, j \in I : Cardinality(Upto(i)) = Cardinality(Upto(j)) => i = j
  <2> SUFFICES ASSUME NEW i \in I, NEW j \in I, i # j
               PROVE  Cardinality(Upto(i)) # Cardinality(Upto(j))
    OBVIOUS
  <2>1. i < j \/ j < i
    OBVIOUS
  <2> QED
    BY <2>1, <1>3
<1>5. rank \in Injection(I, 1..m)
  BY <1>2, <1>4 DEF Injection, IsInjective
<1>6. IsFiniteSet(1..m) /\ Cardinality(1..m) = m
  <2> HIDE DEF m
  <2> QED
    BY <1>1, FS_Interval
<1>7. rank \in Surjection(I, 1..m)
  BY <1>5, <1>6, FS_Injection
<1>8. ASSUME NEW k \in 1..m
      PROVE  \E i \in I : Cardinality(Upto(i)) = k
  <2>1. \E i \in I : rank[i] = k
    BY <1>7 DEF Surjection
  <2> QED
    BY <2>1
<1>9. ASSUME NEW k \in 1..m
      PROVE  Nth(I, k) \in I /\ Cardinality(Upto(Nth(I, k))) = k
  BY <1>8 DEF Nth
<1>10. ASSUME NEW i \in I
       PROVE  \E k \in 1..m : Nth(I, k) = i
  <2> DEFINE k == Cardinality(Upto(i))
  <2>1. k \in 1..m
    BY <1>2
  <2>2. Nth(I, k) \in I /\ Cardinality(Upto(Nth(I, k))) = k
    BY <2>1, <1>9
  <2>3. Nth(I, k) = i
    BY <2>2, <1>4
  <2> QED
    BY <2>1, <2>3
<1> QED
  <2>1. \A k, l \in 1..m : Nth(I, k) = Nth(I, l) => k = l
    BY <1>9
  <2> QED
    BY <1>1, <1>9, <1>10, <2>1

\* Picking positions of a sequence keeps exactly the elements there, and no
\* repetition comes in.
LEMMA PickedElems ==
  ASSUME NEW S, NEW s \in Seq(S), NEW I \in SUBSET (DOMAIN s)
  PROVE  /\ Picked(s, I) \in Seq(S)
         /\ \A v : v \in Elems(Picked(s, I)) <=> \E i \in I : v = s[i]
         /\ (\A i, j \in DOMAIN s : s[i] = s[j] => i = j) =>
              \A i, j \in DOMAIN Picked(s, I) :
                Picked(s, I)[i] = Picked(s, I)[j] => i = j
<1> DEFINE m == Cardinality(I)
<1>0. DOMAIN s = 1..Len(s) /\ Len(s) \in Nat
  OBVIOUS
<1>1. /\ m \in Nat
      /\ \A k \in 1..m : Nth(I, k) \in I
      /\ \A k, l \in 1..m : Nth(I, k) = Nth(I, l) => k = l
      /\ \A i \in I : \E k \in 1..m : Nth(I, k) = i
  BY <1>0, NthRank
<1>2. Picked(s, I) = [k \in 1..m |-> s[Nth(I, k)]]
  BY DEF Picked
<1> HIDE DEF m
<1>3. Picked(s, I) \in Seq(S)
  <2>1. \A k \in 1..m : s[Nth(I, k)] \in S
    BY <1>1, <1>0
  <2> QED
    BY <1>1, <1>2, <2>1
<1>4. DOMAIN Picked(s, I) = 1..m
  BY <1>2
<1>5. Elems(Picked(s, I)) = {s[i] : i \in I}
  <2>1. Elems(Picked(s, I)) = {s[Nth(I, k)] : k \in 1..m}
    BY <1>2 DEF Elems
  <2> QED
    BY <2>1, <1>1
<1> QED
  <2>1. ASSUME \A i, j \in DOMAIN s : s[i] = s[j] => i = j,
               NEW k \in 1..m, NEW l \in 1..m, s[Nth(I, k)] = s[Nth(I, l)]
        PROVE  k = l
    BY <1>1, <2>1
  <2> QED
    BY <1>2, <1>3, <1>4, <1>5, <2>1

\* No node is twice on a list.
Distinct(s) == \A i, j \in DOMAIN s : s[i] = s[j] => i = j

\* wake_one dequeues up to the first node it can wake.
LEMMA DequeuedFirst ==
  ASSUME NEW S, NEW s \in Seq(S)
  PROVE  /\ Dequeued(s) \in 0..Len(s)
         /\ Live(s) = {} => Dequeued(s) = Len(s)
         /\ Live(s) # {} => Dequeued(s) \in Live(s)
         /\ \A i \in Live(s) : Dequeued(s) <= i
<1>1. Live(s) \subseteq 1..Len(s) /\ Len(s) \in Nat
  BY DEF Live
<1>2. CASE Live(s) = {}
  BY <1>1, <1>2 DEF Dequeued
<1>3. CASE Live(s) # {}
  <2>1. \E i \in Live(s) : \A j \in Live(s) : i <= j
    BY <1>1, <1>3, SmallestNat
  <2>2. Dequeued(s) = CHOOSE i \in Live(s) : \A j \in Live(s) : i <= j
    BY <1>3 DEF Dequeued
  <2>3. Dequeued(s) \in Live(s) /\ \A j \in Live(s) : Dequeued(s) <= j
    BY <2>1, <2>2
  <2> QED
    BY <1>1, <1>3, <2>3
<1> QED
  BY <1>2, <1>3

\* wake_one wakes one node, if any can be woken, and leaves the others that
\* can on the list.
LEMMA WakeOne ==
  ASSUME NEW S, NEW s \in Seq(S), Distinct(s)
  PROVE  /\ Rest(s) \in Seq(S) /\ Distinct(Rest(s))
         /\ Elems(Rest(s)) \subseteq Elems(s)
         /\ \A n \in WokenOne(s) : n \in Elems(s) /\ Wakeable(n) /\ n \notin Elems(Rest(s))
         /\ \A n \in Elems(s) : Wakeable(n) => n \in WokenOne(s) \cup Elems(Rest(s))
         /\ WokenOne(s) = {} => \A n \in Elems(s) : ~Wakeable(n)
         /\ \A m, n \in WokenOne(s) : m = n
         /\ Settled(s) => \A n \in WokenOne(s) : n.case # 0 => pc[n.g] # "suspended"
<1>1. DOMAIN s = 1..Len(s) /\ Len(s) \in Nat
  OBVIOUS
<1>2. PICK d \in 0..Len(s) :
      /\ d = Dequeued(s)
      /\ Live(s) = {} => d = Len(s)
      /\ Live(s) # {} => d \in Live(s)
      /\ \A i \in Live(s) : d <= i
  BY DequeuedFirst
<1>3. Live(s) \subseteq 1..Len(s)
  BY DEF Live
<1>4. Rest(s) = SubSeq(s, d + 1, Len(s))
  BY <1>2 DEF Rest
<1>5. PICK r \in Seq(S) : r = Rest(s)
  BY <1>1, <1>4
<1>55. /\ Len(r) = Len(s) - d
       /\ \A i \in 1..Len(r) : r[i] = s[i + d] /\ i + d \in DOMAIN s
  BY <1>1, <1>2, <1>4, <1>5
<1>6. DOMAIN r = 1..Len(r)
  BY <1>5
<1>7. Distinct(r)
  <2> SUFFICES ASSUME NEW i \in DOMAIN r, NEW j \in DOMAIN r, r[i] = r[j]
               PROVE  i = j
    BY DEF Distinct
  <2>1. i + d = j + d
    BY <1>55, <1>6 DEF Distinct
  <2> QED
    BY <2>1, <1>2, <1>6
<1>8. Elems(r) = {s[i] : i \in (d + 1)..Len(s)}
  <2>1. ASSUME NEW i \in (d + 1)..Len(s)
        PROVE  i - d \in DOMAIN r /\ r[i - d] = s[i]
    BY <1>1, <1>2, <1>55, <1>6
  <2>2. ASSUME NEW i \in DOMAIN r
        PROVE  i + d \in (d + 1)..Len(s) /\ r[i] = s[i + d]
    BY <1>1, <1>2, <1>55, <1>6
  <2>3. Elems(r) \subseteq {s[i] : i \in (d + 1)..Len(s)}
    BY <2>2 DEF Elems
  <2>4. ASSUME NEW i \in (d + 1)..Len(s) PROVE s[i] \in Elems(r)
    BY <2>1 DEF Elems
  <2> QED
    BY <2>3, <2>4
<1>9. WokenOne(s) = {s[i] : i \in {j \in Live(s) : j <= d}}
  BY <1>2 DEF WokenOne
<1>10. {j \in Live(s) : j <= d} = IF Live(s) = {} THEN {} ELSE {d}
  BY <1>2, <1>3
<1>11. ASSUME NEW n \in WokenOne(s)
       PROVE  Live(s) # {} /\ n = s[d] /\ d \in DOMAIN s /\ Wakeable(n)
  BY <1>2, <1>9, <1>10 DEF Live
<1>12. ASSUME NEW n \in WokenOne(s)
       PROVE  n \in Elems(s) /\ Wakeable(n) /\ n \notin Elems(r)
  <2>1. ASSUME NEW i \in (d + 1)..Len(s) PROVE s[i] # s[d]
    BY <1>1, <1>2, <1>11 DEF Distinct
  <2> QED
    BY <1>8, <1>11, <2>1 DEF Elems
<1>13. ASSUME NEW n \in Elems(s), Wakeable(n)
       PROVE  n \in WokenOne(s) \cup Elems(r)
  <2>1. PICK i \in DOMAIN s : n = s[i]
    BY DEF Elems
  <2>2. i \in Live(s)
    BY <1>13, <2>1 DEF Live
  <2>3. d <= i
    BY <2>2, <1>2
  <2>4. CASE i = d
    BY <1>9, <2>1, <2>2, <2>4, <1>1
  <2>5. CASE i # d
    BY <1>8, <2>1, <2>3, <2>5, <1>1, <1>2
  <2> QED
    BY <2>4, <2>5
<1>14. ASSUME WokenOne(s) = {}, NEW n \in Elems(s)
       PROVE  ~Wakeable(n)
  <2>1. Live(s) = {}
    BY <1>9, <1>10, <1>14
  <2> QED
    BY <2>1 DEF Elems, Live
<1>15. ASSUME Settled(s), NEW n \in WokenOne(s), n.case # 0
       PROVE  pc[n.g] # "suspended"
  <2>1. d \in 1..d
    BY <1>1, <1>2, <1>11
  <2> QED
    BY <2>1, <1>2, <1>15, <1>11 DEF Settled
<1>16. Elems(r) \subseteq Elems(s)
  <2>1. (d + 1)..Len(s) \subseteq DOMAIN s
    BY <1>1, <1>2
  <2> QED
    BY <2>1, <1>8 DEF Elems
<1>17. \A m, n \in WokenOne(s) : m = n
  BY <1>11
<1> QED
  BY <1>5, <1>7, <1>12, <1>13, <1>14, <1>15, <1>16, <1>17 

-----------------------------------------------------------------------------
\* The inductive invariant.

\* The values a slot may hold, and the nodes of the lists.
Values == (Callers \X Nat) \cup {NULL}
Nodes == [g : Coros, case : Nat]

\* The fields of channel x.
Fields(x) ==
  [slots : [0..(Size(x) - 1) -> Values], count : 0..Size(x),
   head : 0..(Size(x) - 1), tail : 0..(Size(x) - 1), closed : BOOLEAN,
   q : [Places -> Seq(Nodes)]]

\* The ring of x is consistent: head, tail and count agree.
RingOK(x, r) == r \in Fields(x) /\ r.tail = (r.head + r.count) % Size(x)

\* Every channel is a ring whose tail is where its head and count say, and
\* whose waiter lists have no repetitions.
ChanInv ==
  /\ chan = [x \in Chans |-> chan[x]]
  /\ \A x \in Chans : RingOK(x, chan[x])

\* Where a caller can be.
PCs == {"out", "suspended", "parked", "ready", "waiting", "woken", "locking",
        "relocking", "dead"}

\* The types of the variables that are not channels.
TypeInv ==
  /\ lock \in [Chans -> Callers \cup {NULL}]
  /\ pc \in [Callers -> PCs]
  /\ op \in [Callers -> Simple \cup Selects \cup {NULL}]
  /\ at \in [Callers -> Places \cup {"select", NULL}]
  /\ won \in [Callers -> Nat]
  /\ result = [c \in Callers |-> result[c]]
  /\ spent \in [Callers -> 0..MaxOps]

\* c waits, or has waited, at place w of channel x for its send or receive.
Plain(c) ==
  /\ at[c] \in Places
  /\ \E x \in Chans :
       /\ op[c] = IF at[c] = "empty" THEN Recv(x) ELSE Send(x)
       /\ at[c] = "rv" => Unbuffered(x)

\* c is in a select.
InSelect(c) == op[c] \in Selects /\ op[c].cases # <<>>

\* What the program counter of c says about its operation.
Control(c) ==
  /\ pc[c] \in {"waiting", "woken"} => c \in Blockers /\ Plain(c)
  /\ pc[c] \in {"suspended", "parked", "ready"} =>
       c \in Coros /\ (Plain(c) \/ (at[c] = "select" /\ InSelect(c)))
  /\ pc[c] \in {"locking", "relocking"} => InSelect(c)
  /\ pc[c] = "relocking" => c \in Coros /\ at[c] = "select"
  /\ pc[c] \in {"ready", "relocking"} /\ at[c] = "select" =>
       won[c] \in DOMAIN op[c].cases
  /\ pc[c] \in {"suspended", "parked"} /\ at[c] = "select" => won[c] = 0
  /\ pc[c] \notin {"out", "dead"} => spent[c] < MaxOps
  /\ pc[c] \in {"out", "dead", "locking"} => at[c] = NULL

\* Who keeps a mutex between actions: a goroutine that suspends keeps that of
\* its channel, a select the mutexes it wants from the lowest address on.
LockInv(c) ==
  /\ \A x \in Chans : lock[x] = c =>
       \/ pc[c] = "suspended" /\ at[c] \in Places /\ op[c].ch = x
       \/ /\ pc[c] \in {"locking", "relocking"} /\ x \in Wanted(c)
          /\ \A y \in Wanted(c) : Address[y] < Address[x] => lock[y] = c
  /\ pc[c] = "suspended" /\ at[c] \in Places => lock[op[c].ch] = c

\* The inductive invariant.
IInv ==
  /\ TypeInv
  /\ ChanInv
  /\ \A c \in Callers : Control(c) /\ LockInv(c)
  /\ NodesMatchWaiters
-----------------------------------------------------------------------------
\* The codegen allocates one slot for an unbuffered channel: no ring is empty
\* of slots, so the positions can be taken modulo its size.
LEMMA SizePositive ==
  ASSUME NEW x \in Chans
  PROVE  Size(x) \in Nat /\ Size(x) > 0 /\ (Unbuffered(x) => Size(x) = 1)
BY ChannelAssumption DEF Size, Unbuffered

\* What a caller that waits outside a select is doing, by the place it waits at.
LEMMA PlainOp ==
  ASSUME NEW c, Plain(c)
  PROVE  /\ op[c].ch \in Chans /\ at[c] \in Places /\ at[c] # "select"
         /\ op[c] = IF at[c] = "empty" THEN Recv(op[c].ch) ELSE Send(op[c].ch)
         /\ at[c] = "rv" => Unbuffered(op[c].ch)
<1>1. PICK x \in Chans : /\ op[c] = IF at[c] = "empty" THEN Recv(x) ELSE Send(x)
                         /\ at[c] = "rv" => Unbuffered(x)
  BY DEF Plain
<1>2. Recv(x).ch = x /\ Send(x).ch = x
  BY DEF Recv, Send
<1>3. op[c].ch = x
  BY <1>1, <1>2
<1> QED
  BY <1>1, <1>3 DEF Plain, Places

\* A select has cases, each a send or a receive on a channel, and it wants the
\* mutexes of those channels.
LEMMA SelectCases ==
  ASSUME NEW c \in Callers, InSelect(c)
  PROVE  /\ op[c].cases \in Seq([kind : {"send", "recv"}, ch : Chans])
         /\ op[c].cases # <<>> /\ op[c].kind = "select" /\ op[c].default \in BOOLEAN
         /\ DOMAIN op[c].cases = 1..Len(op[c].cases) /\ Len(op[c].cases) \in Nat
         /\ 1 \in DOMAIN op[c].cases
         /\ \A i \in DOMAIN op[c].cases :
              /\ i \in Nat /\ i # 0
              /\ op[c].cases[i] \in [kind : {"send", "recv"}, ch : Chans]
              /\ op[c].cases[i].ch \in Chans
              /\ op[c].cases[i].kind \in {"send", "recv"}
         /\ Wanted(c) \subseteq Chans
<1>1. op[c] \in Selects /\ op[c].cases # <<>>
  BY DEF InSelect
<1>2. /\ op[c].cases \in Seq([kind : {"send", "recv"}, ch : Chans])
      /\ op[c].kind = "select" /\ op[c].default \in BOOLEAN
  BY <1>1 DEF Selects
<1> DEFINE K == [kind : {"send", "recv"}, ch : Chans]
<1>3. PICK s \in Seq(K) : s = op[c].cases
  BY <1>2
<1>4. s # <<>> /\ DOMAIN s = 1..Len(s) /\ Len(s) \in Nat /\ Len(s) # 0
  BY <1>1, <1>3
<1>5. \A i \in DOMAIN s : s[i] \in K
  <2> HIDE DEF K
  <2> QED
    BY <1>3, <1>4
<1>6. \A i \in DOMAIN s : s[i].ch \in Chans /\ s[i].kind \in {"send", "recv"}
  BY <1>5
<1>7. 1 \in DOMAIN s
  BY <1>4
<1>8. \A i \in DOMAIN s : i \in Nat /\ i # 0
  BY <1>4
<1>9. Wanted(c) = {s[i].ch : i \in DOMAIN s}
  BY <1>3 DEF Wanted
<1> QED
  BY <1>1, <1>2, <1>3, <1>4, <1>5, <1>6, <1>7, <1>8, <1>9

\* The kind of waiting that belongs to a case of a select.
PlaceOf(k) == IF k.kind = "send" THEN "full" ELSE "empty"

\* A select that parks has one node for each of its cases.
LEMMA NewNodesElems ==
  ASSUME NEW c \in Callers, InSelect(c), NEW x, NEW w
  PROVE  /\ c \in Coros => NewNodes(c, x, w) \in Seq(Nodes)
         /\ Distinct(NewNodes(c, x, w))
         /\ Elems(NewNodes(c, x, w)) =
              {Node(c, i) : i \in {j \in DOMAIN op[c].cases :
                 op[c].cases[j].ch = x /\ w = PlaceOf(op[c].cases[j])}}
<1>1. /\ DOMAIN op[c].cases = 1..Len(op[c].cases) /\ Len(op[c].cases) \in Nat
      /\ \A i \in DOMAIN op[c].cases : i \in Nat
  BY SelectCases
<1>2. PICK n \in Nat : n = Len(op[c].cases) /\ DOMAIN op[c].cases = 1..n
  BY <1>1
<1>3. PICK s : s = [i \in 1..n |-> Node(c, i)]
  OBVIOUS
<1>4. PICK I \in SUBSET (1..n) :
        I = {j \in DOMAIN op[c].cases :
               op[c].cases[j].ch = x /\ w = PlaceOf(op[c].cases[j])}
  BY <1>2
<1>5. NewNodes(c, x, w) = Picked(s, I)
  BY <1>2, <1>3, <1>4 DEF NewNodes, PlaceOf
<1> DEFINE S == {Node(c, i) : i \in 1..n}
<1>6. s \in Seq(S) /\ DOMAIN s = 1..n
  BY <1>3
<1>7. \A i, j \in DOMAIN s : s[i] = s[j] => i = j
  BY <1>3, <1>6, NodeFields
<1>8. c \in Coros => s \in Seq(Nodes)
  <2>1. c \in Coros => \A i \in 1..n : Node(c, i) \in Nodes
    BY DEF Node, Nodes
  <2> QED
    BY <1>3, <2>1
<1>9. (\A v : v \in Elems(Picked(s, I)) <=> \E i \in I : v = s[i]) /\ Distinct(Picked(s, I))
  <2>1. I \in SUBSET (DOMAIN s)
    BY <1>6
  <2> HIDE DEF S
  <2>2. \A i, j \in DOMAIN Picked(s, I) : Picked(s, I)[i] = Picked(s, I)[j] => i = j
    BY <2>1, <1>6, <1>7, PickedElems
  <2>3. \A v : v \in Elems(Picked(s, I)) <=> \E i \in I : v = s[i]
    BY <2>1, <1>6, <1>7, PickedElems, Zenon
  <2> QED
    BY <2>2, <2>3 DEF Distinct
<1>10. \A i \in I : s[i] = Node(c, i)
  BY <1>3
<1>11. c \in Coros => Picked(s, I) \in Seq(Nodes)
  BY <1>6, <1>8, PickedElems
<1> QED
  BY <1>4, <1>5, <1>9, <1>10, <1>11

\* What a node on a list says about its goroutine.
LEMMA NodeState ==
  ASSUME IInv, NEW x \in Chans, NEW w \in Places, NEW n \in Elems(chan[x].q[w])
  PROVE  /\ n \in Nodes /\ n.g \in Coros /\ n.g \in Callers
         /\ n.case = 0 => /\ n = Node(n.g, 0) /\ Plain(n.g) /\ at[n.g] = w /\ op[n.g].ch = x
                          /\ pc[n.g] \in {"suspended", "parked"}
         /\ n.case # 0 => /\ at[n.g] = "select" /\ InSelect(n.g) /\ w # "rv"
                          /\ n.case \in DOMAIN op[n.g].cases
                          /\ op[n.g].cases[n.case].ch = x
                          /\ w = PlaceOf(op[n.g].cases[n.case])
                          /\ pc[n.g] \in {"suspended", "parked", "ready", "relocking"}
         /\ Wakeable(n) <=> pc[n.g] \in {"suspended", "parked"}
<1>1. chan[x].q[w] \in Seq(Nodes)
  BY DEF IInv, ChanInv, RingOK, Fields
<1>2. n \in Nodes
  BY <1>1 DEF Elems
<1>3. n.g \in Coros /\ n.g \in Callers /\ n.case \in Nat
  BY <1>2 DEF Nodes, Callers
<1>4. /\ n \in NodesOf(n.g, x, w)
      /\ \/ pc[n.g] \in {"suspended", "parked"}
         \/ n.case # 0 /\ pc[n.g] \in {"ready", "relocking"}
  BY DEF IInv, NodesMatchWaiters
<1>5. Control(n.g)
  BY <1>3 DEF IInv
<1>6. CASE at[n.g] = "select"
  <2>1. InSelect(n.g)
    BY <1>4, <1>5, <1>6 DEF Control, Plain, Places
  <2>2. n \in Elems(NewNodes(n.g, x, w))
    BY <1>4, <1>6 DEF NodesOf
  <2>3. PICK i \in DOMAIN op[n.g].cases :
          n = Node(n.g, i) /\ op[n.g].cases[i].ch = x /\ w = PlaceOf(op[n.g].cases[i])
    BY <2>1, <2>2, <1>3, NewNodesElems
  <2>4. n.case = i
    BY <2>3, NodeFields
  <2>5. i # 0 /\ w # "rv"
    BY <1>3, <2>1, <2>3, SelectCases DEF PlaceOf
  <2>6. pc[n.g] \in {"suspended", "parked"} => won[n.g] = 0
    BY <1>5, <1>6 DEF Control
  <2>7. pc[n.g] \in {"ready", "relocking"} => won[n.g] # 0
    BY <1>3, <1>5, <1>6, <2>1, SelectCases DEF Control
  <2> QED
    BY <1>2, <1>3, <1>4, <1>6, <2>1, <2>3, <2>4, <2>5, <2>6, <2>7 DEF Wakeable
<1>7. CASE at[n.g] # "select"
  <2>1. at[n.g] = w /\ op[n.g].ch = x /\ n = Node(n.g, 0)
    BY <1>4, <1>7 DEF NodesOf
  <2>2. n.case = 0
    BY <2>1, NodeFields
  <2>3. Plain(n.g)
    BY <1>4, <1>5, <1>7, <2>2 DEF Control
  <2> QED
    BY <1>2, <1>3, <1>4, <2>1, <2>2, <2>3 DEF Wakeable
<1> QED
  BY <1>6, <1>7

\* Whoever owns ch.mutex and finds a node it may wake, finds a goroutine that
\* has completed its suspension.
LEMMA WokenIsParked ==
  ASSUME IInv, NEW x \in Chans, NEW w \in Places, NEW n \in Elems(chan[x].q[w]),
         Wakeable(n), lock[x] # n.g, n.case # 0 => pc[n.g] # "suspended"
  PROVE  pc[n.g] = "parked"
<1>1. /\ n.g \in Callers /\ pc[n.g] \in {"suspended", "parked"}
      /\ n.case = 0 => Plain(n.g) /\ at[n.g] = w /\ op[n.g].ch = x
  BY NodeState
<1>2. LockInv(n.g)
  BY <1>1 DEF IInv
<1> QED
  BY <1>1, <1>2 DEF LockInv

-----------------------------------------------------------------------------
\* A step of one caller, seen from the others.

\* The goroutines of the nodes N.
GsOf(N) == {n.g : n \in N}

\* In a step of c that wakes the nodes N and the threads T, the others keep
\* what they have and the woken ones run again.
Others(c, N, T) ==
  \A d \in Callers \ {c} :
    /\ op'[d] = op[d] /\ at'[d] = at[d] /\ spent'[d] = spent[d]
    /\ pc'[d] = IF d \in GsOf(N) THEN "ready" ELSE IF d \in T THEN "woken" ELSE pc[d]
    /\ d \notin GsOf(N) => won'[d] = won[d]
    /\ d \in GsOf(N) => \E n \in N : n.g = d /\ won'[d] = n.case
    /\ \A x \in Chans : lock'[x] = d <=> lock[x] = d

\* Who is woken is parked on a list, or in pal_cond_wait.
Wakes(c, N, T) ==
  /\ \A n \in N : /\ n.g # c /\ pc[n.g] = "parked"
                  /\ \E x \in Chans, w \in Places : n \in Elems(chan[x].q[w])
  /\ T \subseteq {d \in Blockers \ {c} : pc[d] = "waiting"}

\* In the channels D the lists hold what they held but for the nodes N, those
\* of c and those of selects claimed before.
ListsOK(c, N, D) ==
  \A x \in Chans, w \in Places :
    /\ Distinct(D[x].q[w])
    /\ \A n \in Elems(D[x].q[w]) : n.g # c => n \in Elems(chan[x].q[w]) /\ n \notin N
    /\ \A n \in Elems(chan[x].q[w]) :
         n.g # c /\ Wakeable(n) /\ n.g \notin GsOf(N) => n \in Elems(D[x].q[w])

\* The lists hold the nodes of c that they should hold.
OwnNodes(c) ==
  \A x \in Chans, w \in Places :
    /\ \A n \in Elems(chan[x].q[w]) : n.g = c =>
         /\ n \in NodesOf(c, x, w)
         /\ \/ pc[c] \in {"suspended", "parked"}
            \/ n.case # 0 /\ pc[c] \in {"ready", "relocking"}
    /\ c \in Coros /\ pc[c] \in {"suspended", "parked"} =>
         NodesOf(c, x, w) \subseteq Elems(chan[x].q[w])

\* What is left to show of a step of c: its own part of the invariant.
Own(c) == TypeInv /\ ChanInv /\ Control(c) /\ LockInv(c) /\ OwnNodes(c)

\* A step of c leaves the others where they were, or wakes them: what their
\* program counter says about their operation still holds.
LEMMA ControlOthers ==
  ASSUME IInv, NEW c \in Callers, NEW N, NEW T, Others(c, N, T), Wakes(c, N, T),
         NEW d \in Callers \ {c}
  PROVE  Control(d)'
<1>1. /\ op'[d] = op[d] /\ at'[d] = at[d] /\ spent'[d] = spent[d]
      /\ pc'[d] = IF d \in GsOf(N) THEN "ready" ELSE IF d \in T THEN "woken" ELSE pc[d]
      /\ d \notin GsOf(N) => won'[d] = won[d]
      /\ d \in GsOf(N) => \E n \in N : n.g = d /\ won'[d] = n.case
  BY DEF Others
<1>2. Control(d)
  BY DEF IInv
<1>3. Plain(d) => Plain(d)'
  BY <1>1 DEF Plain
<1>4. InSelect(d) => InSelect(d)'
  BY <1>1 DEF InSelect
<1>5. CASE d \in GsOf(N)
  <2>1. PICK n \in N : n.g = d /\ won'[d] = n.case
    BY <1>1, <1>5
  <2>2. pc[d] = "parked"
    BY <2>1 DEF Wakes
  <2>3. PICK x \in Chans, w \in Places : n \in Elems(chan[x].q[w])
    BY DEF Wakes
  <2>4. n.g \in Coros
    BY <2>3, NodeState
  <2>5. /\ n.case = 0 => Plain(n.g) /\ at[n.g] = w
        /\ n.case # 0 => at[n.g] = "select" /\ InSelect(n.g) /\ n.case \in DOMAIN op[n.g].cases
    BY <2>3, NodeState
  <2>6. pc'[d] = "ready"
    BY <1>1, <1>5
  <2>7. spent[d] < MaxOps
    BY <1>2, <2>2 DEF Control
  <2>8. CASE n.case = 0
    BY <1>1, <1>3, <2>1, <2>4, <2>5, <2>6, <2>7, <2>8 DEF Control, Places
  <2>9. CASE n.case # 0
    BY <1>1, <1>4, <2>1, <2>4, <2>5, <2>6, <2>7, <2>9 DEF Control
  <2> QED
    BY <2>8, <2>9
<1>6. CASE d \notin GsOf(N) /\ d \in T
  <2>1. pc[d] = "waiting"
    BY <1>6 DEF Wakes
  <2>2. pc'[d] = "woken"
    BY <1>1, <1>6
  <2> QED
    BY <1>1, <1>2, <1>3, <2>1, <2>2 DEF Control
<1>7. CASE d \notin GsOf(N) /\ d \notin T
  <2>1. pc'[d] = pc[d] /\ won'[d] = won[d]
    BY <1>1, <1>7
  <2> QED
    BY <1>1, <1>2, <1>3, <1>4, <2>1 DEF Control
<1> QED
  BY <1>5, <1>6, <1>7

\* A step of c does not touch the mutexes of the others.
LEMMA LockOthers ==
  ASSUME IInv, NEW c \in Callers, NEW N, NEW T, Others(c, N, T), Wakes(c, N, T),
         NEW d \in Callers \ {c}
  PROVE  LockInv(d)'
<1>1. /\ op'[d] = op[d] /\ at'[d] = at[d]
      /\ pc'[d] = IF d \in GsOf(N) THEN "ready" ELSE IF d \in T THEN "woken" ELSE pc[d]
      /\ \A x \in Chans : lock'[x] = d <=> lock[x] = d
  BY DEF Others
<1>2. LockInv(d) /\ Control(d)
  BY DEF IInv
<1>3. CASE d \in GsOf(N) \/ d \in T
  <2>1. pc[d] \in {"parked", "waiting"}
    BY <1>3 DEF Wakes, GsOf
  <2>2. pc'[d] \in {"ready", "woken"}
    BY <1>1, <1>3
  <2>3. \A x \in Chans : lock[x] # d
    BY <1>2, <2>1 DEF LockInv
  <2> QED
    BY <1>1, <2>2, <2>3 DEF LockInv
<1>4. CASE d \notin GsOf(N) /\ d \notin T
  <2>1. pc'[d] = pc[d]
    BY <1>1, <1>4
  <2>2. Wanted(d)' = Wanted(d)
    BY <1>1 DEF Wanted
  <2>3. pc[d] \in {"locking", "relocking"} => Wanted(d) \subseteq Chans
    BY <1>2, SelectCases DEF Control
  <2>4. pc[d] = "suspended" /\ at[d] \in Places => op[d].ch \in Chans
    BY <1>2, PlainOp DEF Control, Places
  <2>5. ASSUME NEW x \in Chans, lock'[x] = d
        PROVE  \/ pc'[d] = "suspended" /\ at'[d] \in Places /\ op'[d].ch = x
               \/ /\ pc'[d] \in {"locking", "relocking"} /\ x \in Wanted(d)'
                  /\ \A y \in Wanted(d)' : Address[y] < Address[x] => lock'[y] = d
    <3>1. lock[x] = d
      BY <1>1, <2>5
    <3>2. CASE pc[d] = "suspended" /\ at[d] \in Places /\ op[d].ch = x
      BY <3>2, <1>1, <2>1
    <3>3. CASE /\ pc[d] \in {"locking", "relocking"} /\ x \in Wanted(d)
               /\ \A y \in Wanted(d) : Address[y] < Address[x] => lock[y] = d
      BY <3>3, <1>1, <2>1, <2>2, <2>3
    <3> QED
      BY <3>1, <3>2, <3>3, <1>2 DEF LockInv
  <2>6. pc'[d] = "suspended" /\ at'[d] \in Places => lock'[op'[d].ch] = d
    BY <1>1, <1>2, <2>1, <2>4 DEF LockInv
  <2> QED
    BY <2>5, <2>6 DEF LockInv
<1> QED
  BY <1>3, <1>4

\* The nodes a suspended goroutine has are its own.
LEMMA NodesOfOwner ==
  ASSUME NEW d \in Callers, Control(d), pc[d] \in {"suspended", "parked"},
         NEW x, NEW w, NEW n \in NodesOf(d, x, w)
  PROVE  n.g = d
<1>1. CASE at[d] = "select"
  <2>1. InSelect(d)
    BY <1>1 DEF Control, Plain, Places
  <2>2. n \in Elems(NewNodes(d, x, w))
    BY <1>1 DEF NodesOf
  <2>3. PICK i : n = Node(d, i)
    BY <2>1, <2>2, NewNodesElems
  <2> QED
    BY <2>3, NodeFields
<1>2. CASE at[d] # "select"
  <2>1. n = Node(d, 0)
    BY <1>2 DEF NodesOf
  <2> QED
    BY <2>1, NodeFields
<1> QED
  BY <1>1, <1>2

\* When c takes off the lists exactly the nodes of those it wakes, and its own
\* are right, the lists still match those who wait.
LEMMA NodesOthers ==
  ASSUME IInv, NEW c \in Callers, NEW N, NEW T, Others(c, N, T), Wakes(c, N, T),
         ListsOK(c, N, chan'), OwnNodes(c)', ChanInv'
  PROVE  NodesMatchWaiters'
<1>0. \A d \in Callers \ {c}, x \in Chans, w \in Places : NodesOf(d, x, w)' = NodesOf(d, x, w)
  <2> SUFFICES ASSUME NEW d \in Callers \ {c}, NEW x \in Chans, NEW w \in Places
               PROVE  NodesOf(d, x, w)' = NodesOf(d, x, w)
    OBVIOUS
  <2>1. op'[d] = op[d] /\ at'[d] = at[d]
    BY DEF Others
  <2>2. NewNodes(d, x, w)' = NewNodes(d, x, w)
    BY <2>1 DEF NewNodes
  <2> QED
    BY <2>1, <2>2 DEF NodesOf
<1> SUFFICES ASSUME NEW x \in Chans, NEW w \in Places
             PROVE  /\ \A i, j \in DOMAIN chan'[x].q[w] :
                         chan'[x].q[w][i] = chan'[x].q[w][j] => i = j
                    /\ \A n \in Elems(chan'[x].q[w]) :
                         /\ n \in NodesOf(n.g, x, w)'
                         /\ \/ pc'[n.g] \in {"suspended", "parked"}
                            \/ n.case # 0 /\ pc'[n.g] \in {"ready", "relocking"}
                    /\ \A d \in Coros :
                         pc'[d] \in {"suspended", "parked"} =>
                           NodesOf(d, x, w)' \subseteq Elems(chan'[x].q[w])
  BY DEF NodesMatchWaiters, Elems
<1>1. \A i, j \in DOMAIN chan'[x].q[w] : chan'[x].q[w][i] = chan'[x].q[w][j] => i = j
  BY DEF ListsOK, Distinct
<1>2. ASSUME NEW n \in Elems(chan'[x].q[w]), n.g # c
      PROVE  /\ n \in NodesOf(n.g, x, w)'
             /\ \/ pc'[n.g] \in {"suspended", "parked"}
                \/ n.case # 0 /\ pc'[n.g] \in {"ready", "relocking"}
  <2>1. n \in Elems(chan[x].q[w]) /\ n \notin N
    BY <1>2 DEF ListsOK
  <2>2. /\ n \in NodesOf(n.g, x, w)
        /\ \/ pc[n.g] \in {"suspended", "parked"}
           \/ n.case # 0 /\ pc[n.g] \in {"ready", "relocking"}
    BY <2>1 DEF IInv, NodesMatchWaiters
  <2>3. n.g \in Coros /\ n.g \in Callers
    BY <2>1, NodeState
  <2>4. n \in NodesOf(n.g, x, w)'
    BY <1>0, <1>2, <2>2, <2>3
  <2>5. pc'[n.g] = IF n.g \in GsOf(N) THEN "ready" ELSE IF n.g \in T THEN "woken" ELSE pc[n.g]
    BY <1>2, <2>3 DEF Others
  <2>6. n.g \notin T
    BY <2>3, ChannelAssumption DEF Wakes
  <2>7. CASE n.g \in GsOf(N)
    <3>1. PICK m \in N : m.g = n.g
      BY <2>7 DEF GsOf
    <3>2. PICK y \in Chans, v \in Places : m \in Elems(chan[y].q[v])
      BY DEF Wakes
    <3>3. n.case = 0 => n = Node(n.g, 0) /\ at[n.g] = w
      BY <2>1, NodeState
    <3>4. /\ m.case = 0 => m = Node(m.g, 0)
          /\ m.case # 0 => at[m.g] = "select"
      BY <3>2, NodeState
    <3>5. n.case # 0
      BY <2>1, <3>1, <3>3, <3>4 DEF Places
    <3> QED
      BY <2>4, <2>5, <2>7, <3>5
  <2> QED
    BY <2>2, <2>4, <2>5, <2>6, <2>7
<1>3. ASSUME NEW n \in Elems(chan'[x].q[w]), n.g = c
      PROVE  /\ n \in NodesOf(n.g, x, w)'
             /\ \/ pc'[n.g] \in {"suspended", "parked"}
                \/ n.case # 0 /\ pc'[n.g] \in {"ready", "relocking"}
  BY <1>3 DEF OwnNodes, Elems
<1>4. ASSUME NEW d \in Coros, pc'[d] \in {"suspended", "parked"}, NEW n \in NodesOf(d, x, w)'
      PROVE  n \in Elems(chan'[x].q[w])
  <2>1. CASE d = c
    BY <1>4, <2>1 DEF OwnNodes, Elems
  <2>2. CASE d # c
    <3>1. d \in Callers \ {c}
      BY <2>2 DEF Callers
    <3>2. /\ pc'[d] = IF d \in GsOf(N) THEN "ready" ELSE IF d \in T THEN "woken" ELSE pc[d]
      BY <3>1 DEF Others
    <3>3. d \notin GsOf(N) /\ pc[d] \in {"suspended", "parked"}
      BY <3>2, <1>4
    <3>4. n \in NodesOf(d, x, w)
      BY <1>0, <1>4, <3>1
    <3>5. n \in Elems(chan[x].q[w])
      BY <3>3, <3>4 DEF IInv, NodesMatchWaiters
    <3>6. n.g = d
      BY <3>1, <3>3, <3>4, NodesOfOwner DEF IInv
    <3>7. Wakeable(n)
      BY <3>3, <3>5, <3>6, NodeState
    <3> QED
      BY <2>2, <3>3, <3>5, <3>6, <3>7 DEF ListsOK
  <2> QED
    BY <2>1, <2>2
<1> QED
  BY <1>1, <1>2, <1>3, <1>4

\* A step of c that has this shape keeps the invariant.
LEMMA ShapeKeeps ==
  ASSUME IInv, NEW c \in Callers, NEW N, NEW T, Others(c, N, T), Wakes(c, N, T),
         ListsOK(c, N, chan'), Own(c)'
  PROVE  IInv'
<1>1. \A d \in Callers : Control(d)' /\ LockInv(d)'
  BY ControlOthers, LockOthers DEF Own
<1>2. NodesMatchWaiters'
  BY NodesOthers DEF Own
<1> QED
  BY <1>1, <1>2 DEF IInv, Own

-----------------------------------------------------------------------------
\* The ring.

\* Arithmetic of the ring: positions wrap once at most.
LEMMA RingStep ==
  ASSUME NEW n \in Nat, n > 0, NEW h \in 0..(n - 1), NEW k \in 0..n
  PROVE  /\ (h + k) % n = IF h + k < n THEN h + k ELSE h + k - n
         /\ (h + k) % n \in 0..(n - 1)
         /\ (h + 1) % n = IF h + 1 = n THEN 0 ELSE h + 1
<1>1. \A i \in 0..(n - 1) : i % n = i
  OBVIOUS
<1>2. \A i \in n..(2 * n - 1) : i % n = i - n
  OBVIOUS
<1>3. h + k \in 0..(2 * n - 1) /\ h + 1 \in 0..n
  OBVIOUS
<1>4. n % n = 0
  BY <1>2
<1>5. (h + k) % n = IF h + k < n THEN h + k ELSE h + k - n
  <2>1. CASE h + k < n
    BY <1>1, <2>1
  <2>2. CASE ~(h + k < n)
    BY <1>2, <1>3, <2>2
  <2> QED
    BY <2>1, <2>2
<1>6. (h + 1) % n = IF h + 1 = n THEN 0 ELSE h + 1
  BY <1>1, <1>3, <1>4
<1>7. (h + k) % n \in 0..(n - 1)
  BY <1>3, <1>5
<1> QED
  BY <1>5, <1>6, <1>7

\* Stepping the tail, or the head, by one is stepping the count by one.
LEMMA RingNext ==
  ASSUME NEW n \in Nat, n > 0, NEW h \in 0..(n - 1), NEW k \in 0..(n - 1)
  PROVE  /\ (((h + k) % n) + 1) % n = (h + (k + 1)) % n
         /\ (((h + 1) % n) + k) % n = (h + (k + 1)) % n
<1>1. /\ (h + k) % n = IF h + k < n THEN h + k ELSE h + k - n
      /\ (h + (k + 1)) % n = IF h + (k + 1) < n THEN h + (k + 1) ELSE h + (k + 1) - n
      /\ (h + 1) % n = IF h + 1 = n THEN 0 ELSE h + 1
      /\ (h + k) % n \in 0..(n - 1) /\ (h + 1) % n \in 0..(n - 1)
  <2>1. k \in 0..n /\ k + 1 \in 0..n /\ 1 \in 0..n
    OBVIOUS
  <2> QED
    BY <2>1, RingStep
<1>2. PICK t \in 0..(n - 1) : t = (h + k) % n
  BY <1>1
<1>3. PICK g \in 0..(n - 1) : g = (h + 1) % n
  BY <1>1
<1>4. (t + 1) % n = IF t + 1 = n THEN 0 ELSE t + 1
  BY RingStep
<1>5. (g + k) % n = IF g + k < n THEN g + k ELSE g + k - n
  <2>1. k \in 0..n
    OBVIOUS
  <2> QED
    BY <2>1, RingStep
<1>6. (t + 1) % n = (h + (k + 1)) % n
  BY <1>1, <1>2, <1>4
<1>7. (g + k) % n = (h + (k + 1)) % n
  BY <1>1, <1>3, <1>5
<1> QED
  BY <1>2, <1>3, <1>6, <1>7

\* Fields other than the lists.
SameRing(r, s) ==
  /\ r.slots = s.slots /\ r.count = s.count /\ r.head = s.head /\ r.tail = s.tail
  /\ r.closed = s.closed

\* p is r after a push of v to channel x, or after a pop.
IsPush(r, v, p) ==
  /\ p.slots = [r.slots EXCEPT ![r.tail] = v] /\ p.count = r.count + 1
  /\ p.head = r.head /\ p.closed = r.closed /\ p.q = r.q

\* p is the ring r without its first value.
IsPop(x, r, p) ==
  /\ p.slots = r.slots /\ p.count = r.count - 1
  /\ p.head = Wrap(x, r.head) /\ p.closed = r.closed /\ p.q = r.q

\* send.write into a ring with a free slot.
LEMMA PushedOK ==
  ASSUME NEW x \in Chans, NEW r, RingOK(x, r), r.count < Size(x), NEW v \in Values
  PROVE  RingOK(x, Pushed(x, r, v)) /\ IsPush(r, v, Pushed(x, r, v))
<1>1. Size(x) \in Nat /\ Size(x) > 0
  BY SizePositive
<1>2. /\ r \in Fields(x) /\ r.tail = (r.head + r.count) % Size(x)
      /\ r.slots \in [0..(Size(x) - 1) -> Values] /\ r.count \in 0..Size(x)
      /\ r.head \in 0..(Size(x) - 1) /\ r.tail \in 0..(Size(x) - 1)
  BY DEF RingOK, Fields
<1>3. r.count \in 0..(Size(x) - 1) /\ r.count + 1 \in 0..Size(x)
  BY <1>1, <1>2
<1>4. (r.tail + 1) % Size(x) = (r.head + (r.count + 1)) % Size(x)
  BY <1>1, <1>2, <1>3, RingNext
<1>5. (r.tail + 1) % Size(x) \in 0..(Size(x) - 1)
  <2>1. 1 \in 0..Size(x)
    BY <1>1
  <2> QED
    BY <1>1, <1>2, <2>1, RingStep
<1>6. PICK t \in 0..(Size(x) - 1) : t = (r.tail + 1) % Size(x)
  BY <1>5
<1>7. Pushed(x, r, v) = [r EXCEPT !.slots = [r.slots EXCEPT ![r.tail] = v], !.tail = t, !.count = r.count + 1]
  BY <1>2, <1>6 DEF Pushed, Wrap, Fields
<1> DEFINE p == [r EXCEPT !.slots = [r.slots EXCEPT ![r.tail] = v], !.tail = t, !.count = r.count + 1]
<1>8. [r.slots EXCEPT ![r.tail] = v] \in [0..(Size(x) - 1) -> Values]
  BY <1>2
<1>9. p \in Fields(x) /\ p.slots = [r.slots EXCEPT ![r.tail] = v] /\ p.count = r.count + 1
      /\ p.head = r.head /\ p.closed = r.closed /\ p.q = r.q /\ p.tail = t
  BY <1>2, <1>3, <1>8 DEF Fields
<1> HIDE DEF p
<1>10. RingOK(x, p)
  BY <1>4, <1>6, <1>9 DEF RingOK
<1> QED
  BY <1>7, <1>9, <1>10 DEF p, IsPush

\* recv.done on a ring with a value.
LEMMA PoppedOK ==
  ASSUME NEW x \in Chans, NEW r, RingOK(x, r), r.count > 0
  PROVE  RingOK(x, Popped(x, r)) /\ IsPop(x, r, Popped(x, r))
<1>1. Size(x) \in Nat /\ Size(x) > 0
  BY SizePositive
<1>2. /\ r \in Fields(x) /\ r.tail = (r.head + r.count) % Size(x)
      /\ r.count \in 0..Size(x) /\ r.head \in 0..(Size(x) - 1) 
  BY DEF RingOK, Fields
<1>3. r.count - 1 \in 0..(Size(x) - 1) /\ r.count - 1 \in 0..Size(x)
  BY <1>1, <1>2
<1>4. PICK k \in 0..(Size(x) - 1) : k = r.count - 1
  BY <1>3
<1>5. (((r.head + 1) % Size(x)) + k) % Size(x) = (r.head + (k + 1)) % Size(x)
  BY <1>1, <1>2, RingNext
<1>6. (r.head + 1) % Size(x) \in 0..(Size(x) - 1)
  <2>1. 1 \in 0..Size(x)
    BY <1>1
  <2> QED
    BY <1>1, <1>2, <2>1, RingStep
<1>7. PICK h \in 0..(Size(x) - 1) : h = (r.head + 1) % Size(x)
  BY <1>6
<1>8. k + 1 = r.count
  BY <1>1, <1>2, <1>4
<1>9. (h + k) % Size(x) = r.tail
  BY <1>2, <1>5, <1>7, <1>8
<1> DEFINE p == [r EXCEPT !.head = h, !.count = k]
<1>10. Popped(x, r) = p
  BY <1>2, <1>4, <1>7 DEF Popped, Wrap, Fields
<1>11. p \in Fields(x) /\ p.slots = r.slots /\ p.count = k
       /\ p.head = h /\ p.closed = r.closed /\ p.q = r.q /\ p.tail = r.tail
  BY <1>2, <1>3, <1>4 DEF Fields
<1> HIDE DEF p
<1>12. RingOK(x, p)
  BY <1>9, <1>11 DEF RingOK
<1> QED
  BY <1>4, <1>7, <1>10, <1>11, <1>12 DEF Wrap, IsPop

\* Writing a waiter list leaves the ring alone.
LEMMA SetListOK ==
  ASSUME NEW x \in Chans, NEW r, RingOK(x, r), NEW w \in Places, NEW s \in Seq(Nodes)
  PROVE  /\ RingOK(x, [r EXCEPT !.q[w] = s])
         /\ SameRing([r EXCEPT !.q[w] = s], r)
         /\ [r EXCEPT !.q[w] = s].q = [r.q EXCEPT ![w] = s]
<1>1. r \in Fields(x) /\ r.q \in [Places -> Seq(Nodes)]
  BY DEF RingOK, Fields
<1>2. PICK Q \in [Places -> Seq(Nodes)] : Q = [r.q EXCEPT ![w] = s]
  BY <1>1
<1>3. [r EXCEPT !.q[w] = s] = [r EXCEPT !.q = Q]
  BY <1>1, <1>2 DEF Fields
<1>4. [r EXCEPT !.q = Q] \in Fields(x) /\ [r EXCEPT !.q = Q].q = Q /\ SameRing([r EXCEPT !.q = Q], r)
  BY <1>1 DEF Fields, SameRing
<1> QED
  BY <1>2, <1>3, <1>4 DEF RingOK, SameRing

-----------------------------------------------------------------------------
\* Lists after a wake, a drain, an append.

\* The lists and the ring of a channel under the invariant.
LEMMA ListTypes ==
  ASSUME IInv, NEW x \in Chans, NEW w \in Places
  PROVE  /\ chan[x].q[w] \in Seq(Nodes) /\ Distinct(chan[x].q[w])
         /\ RingOK(x, chan[x]) /\ chan[x] \in Fields(x)
BY DEF IInv, ChanInv, RingOK, Fields, NodesMatchWaiters, Distinct

\* The rest of a list is a list.
LEMMA RestType ==
  ASSUME NEW s \in Seq(Nodes)
  PROVE  Rest(s) \in Seq(Nodes)
<1>1. PICK d \in 0..Len(s) : d = Dequeued(s)
  BY DequeuedFirst
<1>2. Rest(s) = SubSeq(s, d + 1, Len(s))
  BY <1>1 DEF Rest
<1> QED
  BY <1>2

\* What chan.drain does to the lists: it takes one waiter off each of the two.
LEMMA DrainOK ==
  ASSUME NEW x \in Chans, NEW r, RingOK(x, r)
  PROVE  /\ RingOK(x, Drain(r)) /\ SameRing(Drain(r), r)
         /\ \A w \in Places :
              Drain(r).q[w] = IF w \in {"full", "rv"} THEN Rest(r.q[w]) ELSE r.q[w]
<1>1. r \in Fields(x) /\ r.q \in [Places -> Seq(Nodes)]
  BY DEF RingOK, Fields
<1>2. "full" \in Places /\ "rv" \in Places
  BY DEF Places
<1>3. Rest(r.q["full"]) \in Seq(Nodes) /\ Rest(r.q["rv"]) \in Seq(Nodes)
  BY <1>1, <1>2, RestType
<1>4. PICK Q \in [Places -> Seq(Nodes)] :
        Q = [r.q EXCEPT !["full"] = Rest(r.q["full"]), !["rv"] = Rest(r.q["rv"])]
  BY <1>1, <1>3
<1>5. Drain(r) = [r EXCEPT !.q = Q]
  BY <1>1, <1>2, <1>4 DEF Fields, Drain
<1>6. [r EXCEPT !.q = Q] \in Fields(x) /\ [r EXCEPT !.q = Q].q = Q /\ SameRing([r EXCEPT !.q = Q], r)
  BY <1>1 DEF Fields, SameRing
<1>7. \A w \in Places : Q[w] = IF w \in {"full", "rv"} THEN Rest(r.q[w]) ELSE r.q[w]
  BY <1>1, <1>4 DEF Places
<1> QED
  BY <1>5, <1>6, <1>7 DEF RingOK, SameRing

\* A node is on one list only.
LEMMA OneList ==
  ASSUME IInv, NEW x \in Chans, NEW w \in Places, NEW y \in Chans, NEW v \in Places,
         NEW n \in Elems(chan[x].q[w]), n \in Elems(chan[y].q[v])
  PROVE  x = y /\ w = v
<1>1. /\ n.case = 0 => at[n.g] = w /\ op[n.g].ch = x
      /\ n.case # 0 => op[n.g].cases[n.case].ch = x /\ w = PlaceOf(op[n.g].cases[n.case])
  BY NodeState
<1>2. /\ n.case = 0 => at[n.g] = v /\ op[n.g].ch = y
      /\ n.case # 0 => op[n.g].cases[n.case].ch = y /\ v = PlaceOf(op[n.g].cases[n.case])
  BY NodeState
<1> QED
  BY <1>1, <1>2

\* C is the current state of the channels without the nodes of c.
Clear(c, C) ==
  /\ C = [x \in Chans |-> C[x]]
  /\ \A x \in Chans :
       /\ RingOK(x, C[x]) /\ SameRing(C[x], chan[x])
       /\ \A w \in Places :
            /\ Distinct(C[x].q[w])
            /\ \A n : n \in Elems(C[x].q[w]) <=> n \in Elems(chan[x].q[w]) /\ n.g # c

\* A caller that runs outside a select, or wakes from a plain wait, has no node
\* on any list: who woke it took the node off.
LEMMA ChanClear ==
  ASSUME IInv, NEW c \in Callers,
         \/ pc[c] \in {"out", "dead", "waiting", "woken", "locking"}
         \/ pc[c] = "ready" /\ at[c] \in Places
  PROVE  Clear(c, chan)
<1>1. ASSUME NEW x \in Chans, NEW w \in Places, NEW n \in Elems(chan[x].q[w]), n.g = c
      PROVE  FALSE
  <2>1. /\ n.case = 0 => pc[n.g] \in {"suspended", "parked"}
        /\ n.case # 0 => /\ at[n.g] = "select"
                         /\ pc[n.g] \in {"suspended", "parked", "ready", "relocking"}
    BY NodeState
  <2> QED
    BY <1>1, <2>1 DEF Places
<1>2. \A x \in Chans : RingOK(x, chan[x]) /\ chan = [y \in Chans |-> chan[y]]
  BY DEF IInv, ChanInv
<1>3. \A x \in Chans, w \in Places : Distinct(chan[x].q[w])
  BY ListTypes
<1>4. chan = [y \in Chans |-> chan[y]]
  BY DEF IInv, ChanInv
<1> QED
  BY <1>1, <1>2, <1>3, <1>4 DEF Clear, SameRing

\* waiter_remove takes every node of c off a list, and nothing else.
LEMMA WithoutOK ==
  ASSUME NEW c, NEW s \in Seq(Nodes), Distinct(s)
  PROVE  /\ Without(s, c) \in Seq(Nodes) /\ Distinct(Without(s, c))
         /\ \A n : n \in Elems(Without(s, c)) <=> n \in Elems(s) /\ n.g # c
<1>1. PICK I \in SUBSET (DOMAIN s) : I = {i \in DOMAIN s : s[i].g # c}
  OBVIOUS
<1>2. Without(s, c) = Picked(s, I)
  BY <1>1 DEF Without
<1>3. \A i, j \in DOMAIN s : s[i] = s[j] => i = j
  BY DEF Distinct
<1>4. Picked(s, I) \in Seq(Nodes)
  BY PickedElems
<1>5. \A i, j \in DOMAIN Picked(s, I) : Picked(s, I)[i] = Picked(s, I)[j] => i = j
  BY <1>3, PickedElems
<1>6. \A n : n \in Elems(Picked(s, I)) <=> \E i \in I : n = s[i]
  <2>1. s \in Seq(Nodes) /\ I \in SUBSET (DOMAIN s)
    OBVIOUS
  <2> QED
    BY <1>3, <2>1, PickedElems, Zenon
<1>7. \A n : n \in Elems(Picked(s, I)) <=> n \in Elems(s) /\ n.g # c
  <2>1. ASSUME NEW n \in Elems(Picked(s, I)) PROVE n \in Elems(s) /\ n.g # c
    <3>1. PICK i \in I : n = s[i]
      BY <1>6
    <3> QED
      BY <1>1, <3>1 DEF Elems
  <2>2. ASSUME NEW n \in Elems(s), n.g # c PROVE n \in Elems(Picked(s, I))
    <3>1. PICK i \in DOMAIN s : n = s[i]
      BY DEF Elems
    <3> QED
      BY <1>1, <1>6, <2>2, <3>1
  <2> QED
    BY <2>1, <2>2
<1> QED
  BY <1>2, <1>4, <1>5, <1>7 DEF Distinct

\* A select that wakes takes all its nodes off before it does anything else.
LEMMA CleanedClear ==
  ASSUME IInv, NEW c
  PROVE  Clear(c, Cleaned(c))
<1>1. ASSUME NEW x \in Chans
      PROVE  /\ RingOK(x, Cleaned(c)[x]) /\ SameRing(Cleaned(c)[x], chan[x])
             /\ \A w \in Places : Cleaned(c)[x].q[w] = Without(chan[x].q[w], c)
  <2>1. chan[x] \in Fields(x) /\ RingOK(x, chan[x]) /\ chan[x].q \in [Places -> Seq(Nodes)]
    BY DEF IInv, ChanInv, RingOK, Fields
  <2>2. \A w \in Places : Without(chan[x].q[w], c) \in Seq(Nodes)
    BY ListTypes, WithoutOK
  <2>3. PICK Q \in [Places -> Seq(Nodes)] : Q = [w \in Places |-> Without(chan[x].q[w], c)]
    BY <2>2
  <2>4. Cleaned(c)[x] = [chan[x] EXCEPT !.q = Q]
    BY <2>1, <2>3 DEF Cleaned, Fields
  <2>5. /\ [chan[x] EXCEPT !.q = Q] \in Fields(x) /\ [chan[x] EXCEPT !.q = Q].q = Q
        /\ SameRing([chan[x] EXCEPT !.q = Q], chan[x])
    BY <2>1 DEF Fields, SameRing
  <2> QED
    BY <2>1, <2>3, <2>4, <2>5 DEF RingOK, SameRing
<1>2. Cleaned(c) = [x \in Chans |-> Cleaned(c)[x]]
  BY DEF Cleaned
<1>3. ASSUME NEW x \in Chans, NEW w \in Places
      PROVE  /\ Distinct(Cleaned(c)[x].q[w])
             /\ \A n : n \in Elems(Cleaned(c)[x].q[w]) <=> n \in Elems(chan[x].q[w]) /\ n.g # c
  BY <1>1, ListTypes, WithoutOK
<1> QED
  BY <1>1, <1>2, <1>3 DEF Clear

\* No list of D has a node of c.
NoneOf(c, D) ==
  \A x \in Chans, w \in Places :
    D[x].q[w] \in Seq(Nodes) /\ \A n \in Elems(D[x].q[w]) : n.g # c

\* D is C after wake_one on the lists W of channel x, which wakes the nodes N.
Woke(c, C, x, W, D, N) ==
  /\ lock[x] \in {NULL, c}
  /\ \A w \in W : w # "rv" => Settled(C[x].q[w])
  /\ \A y \in Chans \ {x} : D[y].q = C[y].q
  /\ \A w \in Places : D[x].q[w] = IF w \in W THEN Rest(C[x].q[w]) ELSE C[x].q[w]
  /\ \A n : n \in N <=> \E w \in W : n \in WokenOne(C[x].q[w])

\* The nodes N were on the lists W of x and their goroutines are parked.
WokenFrom(c, x, W, N) ==
  \A n \in N : /\ n.g # c /\ pc[n.g] = "parked" /\ Wakeable(n)
               /\ \E w \in W : n \in Elems(chan[x].q[w])

\* wake_one on the lists W of x takes off the nodes it wakes and those of the
\* selects another case has already won.
LEMMA WakeLists ==
  ASSUME IInv, NEW c \in Callers, NEW C, Clear(c, C), NEW x \in Chans,
         NEW W \in SUBSET Places, NEW D, NEW N, Woke(c, C, x, W, D, N)
  PROVE  ListsOK(c, N, D) /\ NoneOf(c, D) /\ WokenFrom(c, x, W, N)
<1>0. /\ lock[x] \in {NULL, c}
      /\ \A w \in W : w # "rv" => Settled(C[x].q[w])
      /\ \A y \in Chans \ {x} : D[y].q = C[y].q
      /\ \A w \in Places : D[x].q[w] = IF w \in W THEN Rest(C[x].q[w]) ELSE C[x].q[w]
      /\ \A n : n \in N <=> \E w \in W : n \in WokenOne(C[x].q[w])
  BY DEF Woke
<1>1. ASSUME NEW w \in Places
      PROVE  /\ C[x].q[w] \in Seq(Nodes) /\ Distinct(C[x].q[w])
             /\ \A n : n \in Elems(C[x].q[w]) <=> n \in Elems(chan[x].q[w]) /\ n.g # c
  <2>1. RingOK(x, C[x])
    BY DEF Clear
  <2> QED
    BY <2>1 DEF Clear, RingOK, Fields
<1>2. ASSUME NEW w \in Places
      PROVE  /\ Distinct(Rest(C[x].q[w]))
             /\ Elems(Rest(C[x].q[w])) \subseteq Elems(C[x].q[w])
             /\ \A n \in WokenOne(C[x].q[w]) :
                  n \in Elems(C[x].q[w]) /\ Wakeable(n) /\ n \notin Elems(Rest(C[x].q[w]))
             /\ \A n \in Elems(C[x].q[w]) :
                  Wakeable(n) => n \in WokenOne(C[x].q[w]) \cup Elems(Rest(C[x].q[w]))
             /\ Settled(C[x].q[w]) =>
                  \A n \in WokenOne(C[x].q[w]) : n.case # 0 => pc[n.g] # "suspended"
  <2>1. PICK s \in Seq(Nodes) : s = C[x].q[w] /\ Distinct(s)
    BY <1>1
  <2> QED
    BY <2>1, WakeOne
<1>3. ASSUME NEW n \in N
      PROVE  /\ n.g # c /\ pc[n.g] = "parked" /\ Wakeable(n)
             /\ \E w \in W : n \in Elems(chan[x].q[w])
  <2>1. PICK w \in W : n \in WokenOne(C[x].q[w])
    BY <1>0
  <2>2. n \in Elems(chan[x].q[w]) /\ n.g # c /\ Wakeable(n)
    BY <2>1, <1>1, <1>2
  <2>3. lock[x] # n.g
    BY <1>0, <2>2, NodeState, ChannelAssumption
  <2>4. n.case # 0 => w # "rv"
    BY <2>2, NodeState
  <2>5. n.case # 0 => pc[n.g] # "suspended"
    BY <1>0, <2>1, <2>4, <1>2
  <2> QED
    BY <2>2, <2>3, <2>5, WokenIsParked
<1>4. ASSUME NEW y \in Chans, NEW w \in Places
      PROVE  /\ Distinct(D[y].q[w])
             /\ \A n \in Elems(D[y].q[w]) : n.g # c /\ n \in Elems(chan[y].q[w]) /\ n \notin N
             /\ \A n \in Elems(chan[y].q[w]) :
                  n.g # c /\ Wakeable(n) /\ n.g \notin GsOf(N) => n \in Elems(D[y].q[w])
  <2>1. CASE y # x
    <3>1. D[y].q[w] = C[y].q[w]
      BY <1>0, <2>1
    <3>2. Distinct(C[y].q[w]) /\ \A n : n \in Elems(C[y].q[w]) <=> n \in Elems(chan[y].q[w]) /\ n.g # c
      BY DEF Clear
    <3>3. \A n \in Elems(chan[y].q[w]) : n \notin N
      BY <2>1, <1>3, OneList
    <3> QED
      BY <3>1, <3>2, <3>3
  <2>2. CASE y = x /\ w \notin W
    <3>1. D[y].q[w] = C[x].q[w]
      BY <1>0, <2>2
    <3>2. \A n \in Elems(chan[x].q[w]) : n \notin N
      BY <2>2, <1>3, OneList
    <3> QED
      BY <2>2, <3>1, <3>2, <1>1
  <2>3. CASE y = x /\ w \in W
    <3>1. D[y].q[w] = Rest(C[x].q[w])
      BY <1>0, <2>3
    <3>2. ASSUME NEW n \in Elems(Rest(C[x].q[w])), n \in N
          PROVE  FALSE
      <4>1. n \in Elems(chan[x].q[w])
        BY <1>1, <1>2
      <4>2. PICK v \in W : n \in WokenOne(C[x].q[v])
        BY <1>0, <3>2
      <4>3. n \in Elems(chan[x].q[v])
        BY <4>2, <1>1, <1>2
      <4>4. v = w
        BY <4>1, <4>3, OneList
      <4> QED
        BY <4>2, <4>4, <1>2
    <3>3. ASSUME NEW n \in Elems(chan[x].q[w]), n.g # c, Wakeable(n), n.g \notin GsOf(N)
          PROVE  n \in Elems(Rest(C[x].q[w]))
      <4>1. n \in WokenOne(C[x].q[w]) \cup Elems(Rest(C[x].q[w]))
        BY <3>3, <1>1, <1>2
      <4>2. n \notin N
        BY <3>3 DEF GsOf
      <4> QED
        BY <1>0, <4>1, <4>2, <2>3
    <3>4. \A n \in Elems(Rest(C[x].q[w])) : n.g # c /\ n \in Elems(chan[x].q[w])
      BY <1>1, <1>2
    <3>5. Distinct(Rest(C[x].q[w]))
      BY <1>2
    <3> QED
      BY <2>3, <3>1, <3>2, <3>3, <3>4, <3>5
  <2> QED
    BY <2>1, <2>2, <2>3
<1>5. \A y \in Chans, w \in Places : D[y].q[w] \in Seq(Nodes)
  <2>1. \A y \in Chans, w \in Places : C[y].q[w] \in Seq(Nodes)
    BY DEF Clear, RingOK, Fields
  <2> QED
    BY <1>0, <2>1, RestType
<1> QED
  BY <1>3, <1>4, <1>5 DEF ListsOK, NoneOf, WokenFrom

\* E is D with c on one list.
Appended(c, x, v, D, E) ==
  /\ E[x].q[v] = Append(D[x].q[v], Node(c, 0))
  /\ \A y \in Chans, w \in Places : ~(y = x /\ w = v) => E[y].q[w] = D[y].q[w]

OnlyNode(c, x, v, E) ==
  /\ Node(c, 0) \in Elems(E[x].q[v])
  /\ \A y \in Chans, w \in Places : \A n \in Elems(E[y].q[w]) :
       n.g = c => n = Node(c, 0) /\ y = x /\ w = v

\* A parking goroutine appends its node to one list.
LEMMA AppendLists ==
  ASSUME NEW c \in Coros, NEW N, NEW x \in Chans, NEW v \in Places, NEW D, NEW E,
         ListsOK(c, N, D), NoneOf(c, D), Appended(c, x, v, D, E)
  PROVE  ListsOK(c, N, E) /\ OnlyNode(c, x, v, E)
<1>0. \A y \in Chans, w \in Places :
        D[y].q[w] \in Seq(Nodes) /\ \A n \in Elems(D[y].q[w]) : n.g # c
  BY DEF NoneOf
<1>1. PICK s \in Seq(Nodes) : s = D[x].q[v]
  BY <1>0
<1>2. PICK m \in Nodes : m = Node(c, 0) /\ m.g = c
  BY NodeFields DEF Nodes, Node
<1>3. PICK t \in Seq(Nodes) : t = Append(s, m)
  <2>1. s \in Seq(Nodes) /\ m \in Nodes
    OBVIOUS
  <2>2. Append(s, m) \in Seq(Nodes)
    BY <2>1
  <2> QED
    BY <2>2
<1>4. Distinct(s) /\ \A n \in Elems(s) : n.g # c
  BY <1>0, <1>1 DEF ListsOK
<1>5. /\ DOMAIN t = 1..(Len(s) + 1) /\ Len(s) \in Nat /\ DOMAIN s = 1..Len(s)
      /\ t[Len(s) + 1] = m
      /\ \A i \in 1..Len(s) : t[i] = s[i]
  BY <1>3
<1>6. \A n : n \in Elems(t) <=> n \in Elems(s) \/ n = m
  BY <1>5 DEF Elems
<1>7. Distinct(t)
  <2>1. \A i \in 1..Len(s) : s[i] # m
    BY <1>2, <1>4, <1>5 DEF Elems
  <2>2. \A i \in DOMAIN t : i \in 1..Len(s) \/ i = Len(s) + 1
    BY <1>5
  <2> QED
    BY <1>4, <1>5, <2>1, <2>2 DEF Distinct
<1>8. E[x].q[v] = t
  BY <1>1, <1>2, <1>3 DEF Appended
<1>9. \A y \in Chans, w \in Places : ~(y = x /\ w = v) => E[y].q[w] = D[y].q[w]
  BY DEF Appended
<1>10. ASSUME NEW y \in Chans, NEW w \in Places
       PROVE  /\ Distinct(E[y].q[w])
              /\ \A n \in Elems(E[y].q[w]) : n.g # c => n \in Elems(D[y].q[w])
              /\ Elems(D[y].q[w]) \subseteq Elems(E[y].q[w])
              /\ \A n \in Elems(E[y].q[w]) : n.g = c => n = Node(c, 0) /\ y = x /\ w = v
  <2>1. CASE y = x /\ w = v
    BY <2>1, <1>0, <1>1, <1>2, <1>4, <1>6, <1>7, <1>8
  <2>2. CASE ~(y = x /\ w = v)
    BY <2>2, <1>0, <1>9 DEF ListsOK
  <2> QED
    BY <2>1, <2>2
<1> QED
  BY <1>2, <1>6, <1>8, <1>10 DEF ListsOK, OnlyNode

\* The program counters after a step of c that wakes the nodes N and signals
\* the threads T.
LEMMA MovesFacts ==
  ASSUME IInv, NEW c \in Callers, NEW s \in PCs, NEW N, NEW T,
         Moves(c, s, N, T), Wakes(c, N, T)
  PROVE  /\ pc' \in [Callers -> PCs] /\ won' \in [Callers -> Nat]
         /\ pc'[c] = s /\ won'[c] = won[c]
         /\ \A d \in Callers \ {c} :
              /\ pc'[d] = IF d \in GsOf(N) THEN "ready" ELSE IF d \in T THEN "woken" ELSE pc[d]
              /\ d \notin GsOf(N) => won'[d] = won[d]
              /\ d \in GsOf(N) => \E n \in N : n.g = d /\ won'[d] = n.case
<1>1. \A n \in N : n \in Nodes
  BY NodeState DEF Wakes
<1>2. pc' = [d \in Callers |-> IF d = c THEN s ELSE IF d \in GsOf(N) THEN "ready"
                               ELSE IF d \in T THEN "woken" ELSE pc[d]]
  BY DEF Moves, GsOf
<1>3. won' = [d \in Callers |-> IF d \in GsOf(N) THEN (CHOOSE n \in N : n.g = d).case ELSE won[d]]
  BY DEF Moves, GsOf
<1>4. ASSUME NEW d \in GsOf(N)
      PROVE  \E n \in N : n.g = d /\ (CHOOSE m \in N : m.g = d).case = n.case /\ n.case \in Nat
  <2>1. \E m \in N : m.g = d
    BY DEF GsOf
  <2>2. PICK m : m = CHOOSE k \in N : k.g = d
    OBVIOUS
  <2>3. m \in N /\ m.g = d
    BY <2>1, <2>2
  <2> QED
    BY <1>1, <2>2, <2>3 DEF Nodes
<1>5. c \notin GsOf(N)
  BY DEF Wakes, GsOf
<1>6. pc \in [Callers -> PCs] /\ won \in [Callers -> Nat]
  BY DEF IInv, TypeInv
<1>7. pc' \in [Callers -> PCs]
  BY <1>2, <1>6 DEF PCs
<1>8. won' \in [Callers -> Nat]
  <2>1. \A d \in Callers : (IF d \in GsOf(N) THEN (CHOOSE n \in N : n.g = d).case ELSE won[d]) \in Nat
    BY <1>4, <1>6
  <2> QED
    BY <1>3, <2>1
<1>9. pc'[c] = s /\ won'[c] = won[c]
  BY <1>2, <1>3, <1>5
<1>10. ASSUME NEW d \in Callers \ {c}
       PROVE  /\ pc'[d] = IF d \in GsOf(N) THEN "ready" ELSE IF d \in T THEN "woken" ELSE pc[d]
              /\ d \notin GsOf(N) => won'[d] = won[d]
              /\ d \in GsOf(N) => \E n \in N : n.g = d /\ won'[d] = n.case
  <2>1. pc'[d] = IF d \in GsOf(N) THEN "ready" ELSE IF d \in T THEN "woken" ELSE pc[d]
    BY <1>2
  <2>2. d \notin GsOf(N) => won'[d] = won[d]
    BY <1>3
  <2>3. d \in GsOf(N) => won'[d] = (CHOOSE n \in N : n.g = d).case
    BY <1>3
  <2> QED
    BY <2>1, <2>2, <2>3, <1>4
<1> QED
  BY <1>7, <1>8, <1>9, <1>10

\* A caller outside a select and not suspending keeps no mutex.
LEMMA HoldsNone ==
  ASSUME IInv, NEW c \in Callers, pc[c] \notin {"suspended", "locking", "relocking"}
  PROVE  \A x \in Chans : lock[x] # c
BY DEF IInv, LockInv

\* unlock-all gives back the mutexes of c and no others.
LEMMA UnlockFacts ==
  ASSUME IInv, NEW c \in Callers, UnlockAll(c)
  PROVE  /\ lock' \in [Chans -> Callers \cup {NULL}]
         /\ \A x \in Chans : lock'[x] # c
         /\ \A x \in Chans, d \in Callers \ {c} : lock'[x] = d <=> lock[x] = d
<1>1. NULL \notin Callers
  BY ChannelAssumption
<1>2. lock \in [Chans -> Callers \cup {NULL}]
  BY DEF IInv, TypeInv
<1>3. lock' = [x \in Chans |-> IF lock[x] = c THEN NULL ELSE lock[x]]
  BY DEF UnlockAll
<1> QED
  BY <1>1, <1>2, <1>3

\* The end of a section with which the operation of c ends.
LEMMA LeaveShape ==
  ASSUME IInv, NEW c \in Callers, NEW s \in {"out", "dead"}, NEW N, NEW T, NEW r,
         Moves(c, s, N, T), Wakes(c, N, T), Finish(c, r), spent[c] < MaxOps,
         \/ UNCHANGED lock /\ pc[c] \notin {"suspended", "locking", "relocking"}
         \/ UnlockAll(c),
         ListsOK(c, N, chan'), ChanInv', NoneOf(c, chan')
  PROVE  Others(c, N, T) /\ Own(c)'
<1>1. s \in PCs
  BY DEF PCs
<1>2. /\ pc' \in [Callers -> PCs] /\ won' \in [Callers -> Nat]
      /\ pc'[c] = s
      /\ \A d \in Callers \ {c} :
           /\ pc'[d] = IF d \in GsOf(N) THEN "ready" ELSE IF d \in T THEN "woken" ELSE pc[d]
           /\ d \notin GsOf(N) => won'[d] = won[d]
           /\ d \in GsOf(N) => \E n \in N : n.g = d /\ won'[d] = n.case
  BY <1>1, MovesFacts
<1>3. TypeInv
  BY DEF IInv
<1>4. /\ lock' \in [Chans -> Callers \cup {NULL}]
      /\ \A x \in Chans : lock'[x] # c
      /\ \A x \in Chans, d \in Callers \ {c} : lock'[x] = d <=> lock[x] = d
  <2>1. CASE UnlockAll(c)
    BY <2>1, UnlockFacts
  <2>2. CASE UNCHANGED lock /\ pc[c] \notin {"suspended", "locking", "relocking"}
    BY <2>2, <1>3, HoldsNone DEF TypeInv
  <2> QED
    BY <2>1, <2>2
<1>5. /\ op' = [op EXCEPT ![c] = NULL] /\ at' = [at EXCEPT ![c] = NULL]
      /\ result' = [result EXCEPT ![c] = r] /\ spent' = [spent EXCEPT ![c] = spent[c] + 1]
  BY DEF Finish
<1>6. TypeInv'
  <2>1. op' \in [Callers -> Simple \cup Selects \cup {NULL}]
    BY <1>3, <1>5 DEF TypeInv
  <2>2. at' \in [Callers -> Places \cup {"select", NULL}]
    BY <1>3, <1>5 DEF TypeInv
  <2>3. result' = [d \in Callers |-> result'[d]]
    BY <1>3, <1>5 DEF TypeInv
  <2>4. spent' \in [Callers -> 0..MaxOps]
    BY <1>3, <1>5, ChannelAssumption DEF TypeInv
  <2> QED
    BY <1>2, <1>4, <2>1, <2>2, <2>3, <2>4 DEF TypeInv
<1>7. Control(c)'
  <2>1. at'[c] = NULL
    BY <1>3, <1>5 DEF TypeInv
  <2> QED
    BY <1>2, <2>1 DEF Control
<1>8. LockInv(c)'
  BY <1>2, <1>4 DEF LockInv
<1>9. OwnNodes(c)'
  BY <1>2 DEF OwnNodes, Elems, NoneOf
<1>10. Others(c, N, T)
  BY <1>2, <1>3, <1>4, <1>5 DEF Others, TypeInv
<1> QED
  BY <1>6, <1>7, <1>8, <1>9, <1>10 DEF Own

\* c stops to wait for w in channel x.
LEMMA WaitShape ==
  ASSUME IInv, NEW c \in Callers, NEW x \in Chans, NEW w \in Places, NEW r, NEW N, NEW T,
         NEW o, o = IF w = "empty" THEN Recv(x) ELSE Send(x), w = "rv" => Unbuffered(x),
         Wait(c, o, x, r, w, N, T), Wakes(c, N, T), spent[c] < MaxOps,
         Free(x), pc[c] \notin {"suspended", "locking", "relocking"},
         RingOK(x, r), ListsOK(c, N, [chan EXCEPT ![x] = r]),
         NoneOf(c, [chan EXCEPT ![x] = r])
  PROVE  Others(c, N, T) /\ Own(c)' /\ ListsOK(c, N, chan')
<1>0. TypeInv /\ ChanInv
  BY DEF IInv
<1>d. PICK D : D = [chan EXCEPT ![x] = r]
  OBVIOUS
<1> DEFINE
           k == IF c \in Coros THEN [r EXCEPT !.q[w] = Append(r.q[w], Node(c, 0))] ELSE r
           s == IF c \in Coros THEN "suspended" ELSE "waiting"
<1>1. /\ chan' = [chan EXCEPT ![x] = k]
      /\ lock' = IF c \in Coros THEN [lock EXCEPT ![x] = c] ELSE lock
      /\ Moves(c, s, N, T)
      /\ op' = [op EXCEPT ![c] = o] /\ at' = [at EXCEPT ![c] = w]
      /\ UNCHANGED <<result, spent>>
  BY DEF Wait, Update
<1>2. s \in PCs
  BY DEF PCs
<1>3. /\ pc' \in [Callers -> PCs] /\ won' \in [Callers -> Nat]
      /\ pc'[c] = s
      /\ \A d \in Callers \ {c} :
           /\ pc'[d] = IF d \in GsOf(N) THEN "ready" ELSE IF d \in T THEN "woken" ELSE pc[d]
           /\ d \notin GsOf(N) => won'[d] = won[d]
           /\ d \in GsOf(N) => \E n \in N : n.g = d /\ won'[d] = n.case
  BY <1>1, <1>2, MovesFacts
<1>4. r \in Fields(x) /\ r.q \in [Places -> Seq(Nodes)] /\ r.q[w] \in Seq(Nodes)
  BY DEF RingOK, Fields
<1>5. c \in Coros => Append(r.q[w], Node(c, 0)) \in Seq(Nodes)
  <2>1. c \in Coros => Node(c, 0) \in Nodes
    BY DEF Node, Nodes
  <2> QED
    BY <1>4, <2>1
<1>6. /\ RingOK(x, k)
      /\ k.q = IF c \in Coros THEN [r.q EXCEPT ![w] = Append(r.q[w], Node(c, 0))] ELSE r.q
  <2>1. CASE c \in Coros
    <3>1. PICK a \in Seq(Nodes) : a = Append(r.q[w], Node(c, 0))
      BY <2>1, <1>5
    <3>2. k = [r EXCEPT !.q[w] = a]
      BY <2>1, <3>1
    <3>3. RingOK(x, [r EXCEPT !.q[w] = a]) /\ [r EXCEPT !.q[w] = a].q = [r.q EXCEPT ![w] = a]
      BY SetListOK
    <3> QED
      BY <2>1, <3>1, <3>2, <3>3
  <2>2. CASE c \notin Coros
    BY <2>2
  <2> QED
    BY <2>1, <2>2
<1> HIDE DEF k
<1>7. chan'[x] = k /\ D[x] = r /\ \A y \in Chans \ {x} : chan'[y] = chan[y] /\ D[y] = chan[y]
  BY <1>0, <1>1, <1>d DEF ChanInv
<1>8. ChanInv'
  BY <1>0, <1>1, <1>6, <1>7 DEF ChanInv
<1>9. TypeInv'
  <2>1. op' \in [Callers -> Simple \cup Selects \cup {NULL}]
    <3>1. o \in Simple
      BY DEF Simple
    <3> QED
      BY <1>0, <1>1, <3>1 DEF TypeInv
  <2>2. at' \in [Callers -> Places \cup {"select", NULL}]
    BY <1>0, <1>1 DEF TypeInv
  <2>3. result' = [d \in Callers |-> result'[d]] /\ spent' \in [Callers -> 0..MaxOps]
    BY <1>0, <1>1 DEF TypeInv
  <2>4. lock' \in [Chans -> Callers \cup {NULL}]
    BY <1>0, <1>1 DEF TypeInv
  <2> QED
    BY <1>3, <2>1, <2>2, <2>3, <2>4 DEF TypeInv
<1>10. op'[c] = o /\ at'[c] = w /\ spent'[c] = spent[c]
  BY <1>0, <1>1 DEF TypeInv
<1>11. o.ch = x
  BY DEF Send, Recv
<1>12. Control(c)'
  <2>1. Plain(c)'
    BY <1>10 DEF Plain
  <2>2. c \notin Coros => c \in Blockers
    BY DEF Callers
  <2>3. pc'[c] \in {"suspended", "waiting"} /\ (pc'[c] = "suspended" <=> c \in Coros)
    BY <1>3
  <2> QED
    BY <1>10, <2>1, <2>2, <2>3 DEF Control, Places
<1>13. LockInv(c)'
  <2>1. \A y \in Chans : lock[y] # c
    BY HoldsNone
  <2>2. CASE c \in Coros
    <3>1. \A y \in Chans : lock'[y] = c <=> y = x
      BY <2>1, <2>2, <1>0, <1>1 DEF TypeInv
    <3>2. pc'[c] = "suspended"
      BY <2>2, <1>3
    <3> QED
      BY <3>1, <3>2, <1>10, <1>11 DEF LockInv
  <2>3. CASE c \notin Coros
    <3>1. \A y \in Chans : lock'[y] # c
      BY <2>1, <2>3, <1>1
    <3>2. pc'[c] = "waiting"
      BY <2>3, <1>3
    <3> QED
      BY <3>1, <3>2 DEF LockInv
  <2> QED
    BY <2>2, <2>3
<1>14. Others(c, N, T)
  <2>1. \A y \in Chans, d \in Callers \ {c} : lock'[y] = d <=> lock[y] = d
    BY <1>0, <1>1, ChannelAssumption DEF TypeInv, Free
  <2> QED
    BY <1>0, <1>1, <1>3, <2>1 DEF Others, TypeInv
<1>15. ListsOK(c, N, chan') /\ OwnNodes(c)'
  <2>1. CASE c \in Coros
    <3>1. \A y \in Chans, v \in Places :
            chan'[y].q[v] = IF y = x /\ v = w THEN Append(D[y].q[v], Node(c, 0)) ELSE D[y].q[v]
      BY <2>1, <1>4, <1>6, <1>7
    <3>3. /\ ListsOK(c, N, chan')
          /\ \A y \in Chans, v \in Places : \A n \in Elems(chan'[y].q[v]) :
               n.g = c => n = Node(c, 0) /\ y = x /\ v = w
          /\ Node(c, 0) \in Elems(chan'[x].q[w])
      <4>1. ListsOK(c, N, D) /\ NoneOf(c, D)
        BY <1>d
      <4>2. Appended(c, x, w, D, chan')
        BY <3>1 DEF Appended
      <4>3. ListsOK(c, N, chan') /\ OnlyNode(c, x, w, chan')
        BY <2>1, <4>1, <4>2, AppendLists
      <4> QED
        BY <4>3 DEF OnlyNode
    <3>4. \A y \in Chans, v \in Places :
            NodesOf(c, y, v)' = IF y = x /\ v = w THEN {Node(c, 0)} ELSE {}
      BY <1>10, <1>11 DEF NodesOf, Places
    <3>5. pc'[c] = "suspended"
      BY <2>1, <1>3
    <3> QED
      BY <3>3, <3>4, <3>5 DEF OwnNodes, Elems
  <2>2. CASE c \notin Coros
    <3>1. chan' = D
      BY <2>2, <1>1, <1>d DEF k
    <3> QED
      BY <2>2, <3>1, <1>d DEF OwnNodes, Elems, NoneOf
  <2> QED
    BY <2>1, <2>2
<1> QED
  BY <1>8, <1>9, <1>12, <1>13, <1>14, <1>15 DEF Own

-----------------------------------------------------------------------------
\* The sections of send, receive and close.

\* The shape of a step of c.  N are the nodes it wakes, T the threads it signals.
Shape(c, N, T) ==
  /\ Others(c, N, T) /\ Wakes(c, N, T)
  /\ ListsOK(c, N, chan') /\ Own(c)'

\* A waker of those that wait for w in x, by list or at the places V, wakes
\* one of them, or there is none but c itself.
Served(c, x, w, V, N, T) ==
  \/ \E n \in N : n \in Elems(chan[x].q[w]) /\ \A m \in N : m.g = n.g => m = n
  \/ \E d \in T : d \in Blocked(x, V)
  \/ /\ \A n \in Elems(chan[x].q[w]) : Wakeable(n) => n.g = c
     /\ Blocked(x, V) = {}

\* No ring but that of x changes.
Untouched(x) == \A y \in Chans \ {x} : SameRing(chan'[y], chan[y])

\* c puts its value into x.
Pushes(c, x, N, T) ==
  /\ chan[x].count < Size(x) /\ ~chan[x].closed
  /\ SameRing(chan'[x], Pushed(x, chan[x], Item(c))) /\ Untouched(x)
  /\ Served(c, x, "empty", {"empty"}, N, T)
  /\ \A n \in N : n \in Elems(chan[x].q["empty"])
  /\ result' = result \/ result' = [result EXCEPT ![c] = <<"sent", x>>]

\* c takes a value out of x.
Pops(c, x, N, T) ==
  /\ chan[x].count > 0
  /\ SameRing(chan'[x], Popped(x, chan[x])) /\ Untouched(x)
  /\ Served(c, x, "full", {"full", "rv"}, N, T)
  /\ Elems(chan[x].q["rv"]) # {} => \E n \in N : n \in Elems(chan[x].q["rv"])
  /\ \A n \in N : \E w \in Places : n \in Elems(chan[x].q[w])
  /\ result' = [result EXCEPT ![c] = <<"got", x, chan[x].slots[chan[x].head]>>]

\* pal_cond_signal wakes a thread when one waits.
LEMMA SignalledSome ==
  ASSUME NEW S, IsFiniteSet(S), NEW n \in Nat, NEW T \in Signalled(S, n)
  PROVE  T \subseteq S /\ (n > 0 /\ S # {} => T # {})
<1>1. T \subseteq S /\ Cardinality(T) = IF n <= Cardinality(S) THEN n ELSE Cardinality(S)
  BY DEF Signalled
<1>2. Cardinality(S) \in Nat
  BY FS_CardinalityType
<1>3. S # {} => Cardinality(S) # 0
  BY FS_EmptySet
<1>4. Cardinality({}) = 0
  BY FS_EmptySet
<1> QED
  BY <1>1, <1>2, <1>3, <1>4

\* Only finitely many threads wait.
LEMMA BlockedFinite ==
  ASSUME NEW x, NEW V
  PROVE  IsFiniteSet(Blocked(x, V))
<1>1. Blocked(x, V) \in SUBSET Callers
  BY DEF Blocked, Callers
<1> QED
  BY <1>1, FS_Subset, ChannelAssumption

\* wake_one, with the signal when it finds nobody, serves the waiters of w.
LEMMA ServedBy ==
  ASSUME IInv, NEW c \in Callers, NEW C, Clear(c, C), NEW x \in Chans,
         NEW W \in SUBSET Places, NEW D, NEW N, Woke(c, C, x, W, D, N),
         NEW w \in W, w # "rv", \A v \in W : v = w \/ v = "rv", NEW V, NEW k \in Nat, NEW T \in Signalled(Blocked(x, V), k),
         WokenOne(C[x].q[w]) = {} => k > 0
  PROVE  Served(c, x, w, V, N, T)
<1>1. /\ C[x].q[w] \in Seq(Nodes) /\ Distinct(C[x].q[w])
      /\ \A n : n \in Elems(C[x].q[w]) <=> n \in Elems(chan[x].q[w]) /\ n.g # c
  BY DEF Clear, RingOK, Fields
<1>2. PICK s \in Seq(Nodes) : s = C[x].q[w] /\ Distinct(s)
  BY <1>1
<1>3. /\ \A n \in WokenOne(s) : n \in Elems(s)
      /\ \A m, n \in WokenOne(s) : m = n
      /\ WokenOne(s) = {} => \A n \in Elems(s) : ~Wakeable(n)
  <2>1. ASSUME NEW t \in Seq(Nodes), Distinct(t)
        PROVE  /\ \A n \in WokenOne(t) : n \in Elems(t)
               /\ \A m, n \in WokenOne(t) : m = n
               /\ WokenOne(t) = {} => \A n \in Elems(t) : ~Wakeable(n)
    BY <2>1, WakeOne
  <2> QED
    BY <1>2, <2>1
<1>4. CASE WokenOne(s) # {}
  <2>1. PICK n \in WokenOne(s) : TRUE
    BY <1>4
  <2>2. n \in N /\ n \in Elems(chan[x].q[w])
    BY <1>1, <1>2, <1>3 DEF Woke
  <2>3. ASSUME NEW m \in N, m.g = n.g PROVE m = n
    <3>1. PICK v \in W : m \in WokenOne(C[x].q[v])
      BY DEF Woke
    <3>2. CASE v = w
      BY <1>2, <1>3, <3>1, <3>2
    <3>3. CASE v # w
      <4>1. v = "rv" /\ v \in Places /\ w \in Places
        BY <3>3
      <4>2. m \in Elems(chan[x].q[v])
        <5>1. /\ C[x].q[v] \in Seq(Nodes) /\ Distinct(C[x].q[v])
              /\ \A e : e \in Elems(C[x].q[v]) <=> e \in Elems(chan[x].q[v]) /\ e.g # c
          BY <4>1 DEF Clear, RingOK, Fields
        <5>2. ASSUME NEW t \in Seq(Nodes), Distinct(t)
              PROVE  \A e \in WokenOne(t) : e \in Elems(t)
          BY <5>2, WakeOne
        <5> QED
          BY <3>1, <5>1, <5>2
      <4>3. at[m.g] = "rv"
        BY <4>1, <4>2, NodeState
      <4>4. at[n.g] \in {w, "select"}
        BY <2>2, <4>1, NodeState
      <4> QED
        BY <2>3, <4>3, <4>4
    <3> QED
      BY <3>2, <3>3
  <2> QED
    BY <2>2, <2>3 DEF Served
<1>5. CASE WokenOne(s) = {}
  <2>1. \A n \in Elems(chan[x].q[w]) : Wakeable(n) => n.g = c
    BY <1>1, <1>2, <1>3, <1>5
  <2>2. T \subseteq Blocked(x, V) /\ (Blocked(x, V) # {} => T # {})
    BY <1>2, <1>5, BlockedFinite, SignalledSome
  <2> QED
    BY <2>1, <2>2 DEF Served
<1> QED
  BY <1>4, <1>5

\* Who wakes nodes of the lists and threads of the conditions of x.
LEMMA WakesFrom ==
  ASSUME IInv, NEW c \in Callers, NEW x \in Chans, NEW W \in SUBSET Places, NEW N,
         WokenFrom(c, x, W, N), NEW V, NEW T, T \subseteq Blocked(x, V), pc[c] # "waiting"
  PROVE  Wakes(c, N, T)
BY DEF WokenFrom, Wakes, Blocked

\* c is about to run a section of channel x outside a select.
Ready(c, x) ==
  /\ Free(x) /\ spent[c] < MaxOps
  /\ \/ pc[c] = "out"
     \/ pc[c] \in {"ready", "woken"} /\ at[c] \in Places

\* The value a caller sends carries the caller and its operation.
LEMMA ItemType ==
  ASSUME IInv, NEW c \in Callers
  PROVE  Item(c) \in Values /\ Item(c) \in {c} \X (0..MaxOps)
BY ChannelAssumption DEF IInv, TypeInv, Item, Values

\* chan' from the fields of one channel.
LEMMA ChanUpdate ==
  ASSUME IInv, NEW x \in Chans, NEW C, NEW c, Clear(c, C), NEW r, RingOK(x, r),
         chan' = [C EXCEPT ![x] = r]
  PROVE  /\ ChanInv' /\ chan'[x] = r
         /\ \A y \in Chans \ {x} : chan'[y] = C[y] /\ SameRing(chan'[y], chan[y])
<1>1. C = [y \in Chans |-> C[y]] /\ \A y \in Chans : RingOK(y, C[y]) /\ SameRing(C[y], chan[y])
  BY DEF Clear
<1>2. chan'[x] = r /\ \A y \in Chans \ {x} : chan'[y] = C[y]
  BY <1>1
<1>3. chan' = [y \in Chans |-> chan'[y]]
  BY <1>1
<1>4. \A y \in Chans : RingOK(y, chan'[y])
  BY <1>1, <1>2
<1> QED
  BY <1>1, <1>2, <1>3, <1>4 DEF ChanInv

\* send.write: the value goes into the ring, a receiver is served, and the
\* sender returns or, on an unbuffered channel, waits for its rendezvous.
LEMMA WriteStep ==
  ASSUME IInv, NEW c \in Callers, NEW x \in Chans, Ready(c, x),
         ~chan[x].closed, ~Full(x), Write(c, x)
  PROVE  \E N, T : /\ Shape(c, N, T) /\ Pushes(c, x, N, T)
                   /\ IF Unbuffered(x)
                        THEN /\ at'[c] = "rv" /\ op'[c] = Send(x) /\ spent'[c] = spent[c]
                             /\ pc'[c] \in {"suspended", "waiting"} /\ result' = result
                        ELSE pc'[c] = "out"
<1>1. Clear(c, chan)
  BY ChanClear DEF Ready
<1>2. RingOK(x, chan[x]) /\ chan[x] \in Fields(x)
  BY DEF IInv, ChanInv, RingOK
<1>3. chan[x].count < Size(x)
  BY <1>2, SizePositive DEF Full, Fields
<1>4. PICK r : r = Pushed(x, chan[x], Item(c))
  OBVIOUS
<1>5. RingOK(x, r) /\ r.q = chan[x].q
  <2>1. PICK v \in Values : v = Item(c)
    BY ItemType
  <2>2. r = Pushed(x, chan[x], v)
    BY <1>4, <2>1
  <2>3. RingOK(x, Pushed(x, chan[x], v)) /\ IsPush(chan[x], v, Pushed(x, chan[x], v))
    BY <1>2, <1>3, PushedOK
  <2> QED
    BY <2>2, <2>3 DEF IsPush
<1>6. PICK R \in Seq(Nodes) : R = chan[x].q["empty"] /\ R = r.q["empty"]
  BY <1>2, <1>5 DEF Fields, Places
<1>7. PICK s : s = [r EXCEPT !.q["empty"] = Rest(R)]
  OBVIOUS
<1>8. RingOK(x, s) /\ SameRing(s, r) /\ s.q = [r.q EXCEPT !["empty"] = Rest(R)]
  <2>1. PICK e \in Seq(Nodes) : e = Rest(R)
    BY RestType
  <2> QED
    BY <1>5, <1>7, <2>1, SetListOK DEF Places
<1>9. PICK T \in Signalled(NotEmpty(x), Signals(R)) :
        IF Unbuffered(x)
          THEN Wait(c, Send(x), x, s, "rv", WokenOne(R), T)
          ELSE /\ Update(x, s)
               /\ Moves(c, "out", WokenOne(R), T)
               /\ Return(c, <<"sent", x>>)
  BY <1>4, <1>6, <1>7 DEF Write
<1>10. Settled(R)
  BY <1>4, <1>6 DEF Write
<1>11. PICK D : D = [chan EXCEPT ![x] = s]
  OBVIOUS
<1>12. PICK N : N = WokenOne(R)
  OBVIOUS
<1>13. Woke(c, chan, x, {"empty"}, D, N)
  <2>1. D[x] = s /\ \A y \in Chans \ {x} : D[y] = chan[y]
    BY <1>1, <1>11 DEF Clear
  <2>2. \A w \in Places : s.q[w] = IF w \in {"empty"} THEN Rest(chan[x].q[w]) ELSE chan[x].q[w]
    BY <1>2, <1>5, <1>6, <1>8 DEF Fields
  <2> QED
    BY <1>6, <1>10, <1>12, <2>1, <2>2 DEF Woke, Ready, Free
<1>14. ListsOK(c, N, D) /\ NoneOf(c, D) /\ WokenFrom(c, x, {"empty"}, N)
  BY <1>1, <1>13, WakeLists DEF Places
<1>15. T \in Signalled(Blocked(x, {"empty"}), Signals(R)) /\ Signals(R) \in Nat
  BY <1>9 DEF NotEmpty, Signals
<1>16. Served(c, x, "empty", {"empty"}, N, T)
  <2>1. WokenOne(chan[x].q["empty"]) = {} => Signals(R) > 0
    BY <1>6 DEF Signals
  <2>2. "empty" \in {"empty"} /\ {"empty"} \in SUBSET Places
    BY DEF Places
  <2> QED
    BY <1>1, <1>13, <1>15, <2>1, <2>2, ServedBy
<1>17. T \subseteq Blocked(x, {"empty"})
  BY <1>15, BlockedFinite, SignalledSome
<1>18. Wakes(c, N, T)
  <2>1. pc[c] # "waiting" /\ {"empty"} \in SUBSET Places
    BY DEF Ready, Places
  <2> QED
    BY <1>14, <1>17, <2>1, WakesFrom
<1>21. \A n \in N : n \in Elems(chan[x].q["empty"])
  BY <1>14 DEF WokenFrom
<1>19. CASE Unbuffered(x)
  <2>1. Wait(c, Send(x), x, s, "rv", N, T)
    BY <1>9, <1>12, <1>19
  <2>2. Others(c, N, T) /\ Own(c)' /\ ListsOK(c, N, chan')
    <3>1. "rv" \in Places /\ Send(x) = (IF "rv" = "empty" THEN Recv(x) ELSE Send(x))
      BY DEF Places
    <3>2. Free(x) /\ spent[c] < MaxOps /\ pc[c] \notin {"suspended", "locking", "relocking"}
      BY DEF Ready
    <3>3. ListsOK(c, N, [chan EXCEPT ![x] = s]) /\ NoneOf(c, [chan EXCEPT ![x] = s])
      BY <1>11, <1>14
    <3> QED
      BY <1>8, <1>18, <1>19, <2>1, <3>1, <3>2, <3>3, WaitShape
  <2>3. SameRing(chan'[x], s) /\ Untouched(x)
    <3>1. PICK k : k = IF c \in Coros THEN [s EXCEPT !.q["rv"] = Append(s.q["rv"], Node(c, 0))] ELSE s
      OBVIOUS
    <3>2. chan' = [chan EXCEPT ![x] = k]
      BY <2>1, <3>1 DEF Wait, Update
    <3>3. chan'[x] = k /\ \A y \in Chans \ {x} : chan'[y] = chan[y]
      BY <1>1, <3>2 DEF Clear
    <3>4. SameRing(k, s)
      BY <1>8, <3>1 DEF RingOK, Fields, SameRing
    <3> QED
      BY <3>3, <3>4 DEF SameRing, Untouched
  <2>4. /\ at'[c] = "rv" /\ op'[c] = Send(x) /\ spent'[c] = spent[c]
        /\ pc'[c] \in {"suspended", "waiting"} /\ result' = result
    BY <2>1 DEF Wait, Moves, IInv, TypeInv
  <2>5. Pushes(c, x, N, T)
    BY <1>3, <1>4, <1>8, <1>16, <1>21, <2>3, <2>4 DEF Pushes, SameRing
  <2> QED
    BY <1>18, <1>19, <2>2, <2>4, <2>5 DEF Shape
<1>20. CASE ~Unbuffered(x)
  <2>1. chan' = D /\ Moves(c, "out", N, T) /\ Finish(c, <<"sent", x>>) /\ UNCHANGED lock
    BY <1>9, <1>11, <1>12, <1>20 DEF Update, Return
  <2>2. ChanInv' /\ chan'[x] = s /\ Untouched(x)
    BY <1>1, <1>8, <1>11, <2>1, ChanUpdate DEF Untouched
  <2>3. Others(c, N, T) /\ Own(c)'
    BY <1>14, <1>18, <2>1, <2>2, LeaveShape DEF Ready
  <2>4. result' = [result EXCEPT ![c] = <<"sent", x>>]
    BY <2>1 DEF Finish
  <2>5. Pushes(c, x, N, T)
    BY <1>3, <1>4, <1>8, <1>16, <1>21, <2>2, <2>4 DEF Pushes, SameRing
  <2>6. pc'[c] = "out"
    BY <2>1 DEF Moves
  <2> QED
    BY <1>14, <1>18, <1>20, <2>1, <2>3, <2>5, <2>6 DEF Shape
<1> QED
  BY <1>19, <1>20

\* No ring changes.
Calm == \A y \in Chans : SameRing(chan'[y], chan[y])

\* The operation of c is over and no mutex is kept.
Ends(c, r) ==
  /\ Finish(c, r) /\ spent[c] < MaxOps
  /\ \/ UNCHANGED lock /\ pc[c] \notin {"suspended", "locking", "relocking"}
     \/ UnlockAll(c)
  /\ pc[c] \notin {"waiting", "suspended", "parked"}

\* A step that wakes nobody has the shape when c has no node.
LEMMA NothingWoken ==
  ASSUME IInv, NEW c \in Callers, NEW C, Clear(c, C)
  PROVE  ListsOK(c, {}, C) /\ NoneOf(c, C) /\ Wakes(c, {}, {})
<1>1. \A y \in Chans, w \in Places : C[y].q[w] \in Seq(Nodes)
  BY DEF Clear, RingOK, Fields
<1>2. \A n \in {} : FALSE
  OBVIOUS
<1>3. ListsOK(c, {}, C)
  BY DEF ListsOK, Clear
<1>4. NoneOf(c, C)
  BY <1>1 DEF NoneOf, Clear
<1> QED
  BY <1>3, <1>4 DEF Wakes

\* c waits, or waits again, without any other effect.
LEMMA ParkStep ==
  ASSUME IInv, NEW c \in Callers, NEW x \in Chans, NEW w \in Places, Ready(c, x),
         NEW o, o = IF w = "empty" THEN Recv(x) ELSE Send(x), w = "rv" => Unbuffered(x),
         Wait(c, o, x, chan[x], w, {}, {})
  PROVE  /\ Shape(c, {}, {}) /\ Calm /\ result' = result
         /\ at'[c] = w /\ op'[c] = o /\ spent'[c] = spent[c]
         /\ pc'[c] \in {"suspended", "waiting"}
<1>1. Clear(c, chan)
  BY ChanClear DEF Ready
<1>2. [chan EXCEPT ![x] = chan[x]] = chan
  BY <1>1 DEF Clear
<1>3. ListsOK(c, {}, chan) /\ NoneOf(c, chan) /\ Wakes(c, {}, {})
  BY <1>1, NothingWoken
<1>4. RingOK(x, chan[x])
  BY <1>1 DEF Clear
<1>5. Free(x) /\ spent[c] < MaxOps /\ pc[c] \notin {"suspended", "locking", "relocking"}
  BY DEF Ready
<1>6. Others(c, {}, {}) /\ Own(c)' /\ ListsOK(c, {}, chan')
  BY <1>2, <1>3, <1>4, <1>5, WaitShape
<1>7. Calm
  <2>1. PICK k : k = IF c \in Coros THEN [chan[x] EXCEPT !.q[w] = Append(chan[x].q[w], Node(c, 0))]
                     ELSE chan[x]
    OBVIOUS
  <2>2. chan' = [chan EXCEPT ![x] = k]
    BY <2>1 DEF Wait, Update
  <2>3. chan'[x] = k /\ \A y \in Chans \ {x} : chan'[y] = chan[y]
    BY <1>1, <2>2 DEF Clear
  <2>4. SameRing(k, chan[x])
    BY <1>4, <2>1 DEF RingOK, Fields, SameRing
  <2> QED
    BY <2>3, <2>4 DEF SameRing, Calm
<1>8. /\ at'[c] = w /\ op'[c] = o /\ spent'[c] = spent[c]
      /\ pc'[c] \in {"suspended", "waiting"} /\ result' = result
  BY DEF Wait, Moves, IInv, TypeInv
<1> QED
  BY <1>3, <1>6, <1>7, <1>8 DEF Shape

\* c returns without any other effect.
LEMMA LeaveStep ==
  ASSUME IInv, NEW c \in Callers, NEW C, Clear(c, C), chan' = C,
         NEW s \in {"out", "dead"}, NEW r, Moves(c, s, {}, {}), Ends(c, r)
  PROVE  /\ Shape(c, {}, {}) /\ Calm /\ pc'[c] = s
         /\ result' = [result EXCEPT ![c] = r]
<1>1. ListsOK(c, {}, C) /\ NoneOf(c, C) /\ Wakes(c, {}, {})
  BY NothingWoken
<1>2. ChanInv'
  BY DEF ChanInv, Clear
<1>3. Others(c, {}, {}) /\ Own(c)'
  BY <1>1, <1>2, LeaveShape DEF Ends
<1>4. Calm
  BY DEF Calm, Clear
<1>5. pc'[c] = s /\ result' = [result EXCEPT ![c] = r]
  BY DEF Moves, Ends, Finish
<1> QED
  BY <1>1, <1>3, <1>4, <1>5 DEF Shape

\* send.rv.exit
LEMMA ExitStep ==
  ASSUME IInv, NEW c \in Callers, NEW x \in Chans, Ready(c, x), RendezvousExit(c, x)
  PROVE  \E N, T : /\ Shape(c, N, T) /\ Calm /\ pc'[c] = "out"
                   /\ Served(c, x, "full", {"full", "rv"}, N, T)
                   /\ \A n \in N : n \in Elems(chan[x].q["full"])
                   /\ result' = [result EXCEPT ![c] = <<"sent", x>>]
<1>1. Clear(c, chan)
  BY ChanClear DEF Ready
<1>2. RingOK(x, chan[x]) /\ chan[x] \in Fields(x)
  BY DEF IInv, ChanInv, RingOK
<1>3. PICK S \in Seq(Nodes) : S = chan[x].q["full"]
  BY <1>2 DEF Fields, Places
<1>4. PICK s : s = [chan[x] EXCEPT !.q["full"] = Rest(S)]
  OBVIOUS
<1>5. RingOK(x, s) /\ SameRing(s, chan[x]) /\ s.q = [chan[x].q EXCEPT !["full"] = Rest(S)]
  <2>1. PICK e \in Seq(Nodes) : e = Rest(S)
    BY RestType
  <2> QED
    BY <1>2, <1>4, <2>1, SetListOK DEF Places
<1>6. PICK N : N = WokenOne(S)
  OBVIOUS
<1>7. Settled(S) /\ chan' = [chan EXCEPT ![x] = s] /\ Finish(c, <<"sent", x>>) /\ UNCHANGED lock
  BY <1>3, <1>4 DEF RendezvousExit, Update, Return
<1>8. PICK T \in Signalled(NotFull(x), Signals(S)) : Moves(c, "out", N, T)
  BY <1>3, <1>6 DEF RendezvousExit
<1>9. ChanInv' /\ chan'[x] = s /\ \A y \in Chans \ {x} : chan'[y] = chan[y] /\ SameRing(chan'[y], chan[y])
  BY <1>1, <1>5, <1>7, ChanUpdate
<1>10. Woke(c, chan, x, {"full"}, chan', N)
  <2>1. \A w \in Places : s.q[w] = IF w \in {"full"} THEN Rest(chan[x].q[w]) ELSE chan[x].q[w]
    BY <1>2, <1>3, <1>5 DEF Fields
  <2> QED
    BY <1>3, <1>6, <1>7, <1>9, <2>1 DEF Woke, Ready, Free
<1>11. {"full"} \in SUBSET Places /\ "full" \in {"full"}
  BY DEF Places
<1>12. ListsOK(c, N, chan') /\ NoneOf(c, chan') /\ WokenFrom(c, x, {"full"}, N)
  BY <1>1, <1>10, <1>11, WakeLists
<1>13. T \in Signalled(Blocked(x, {"full", "rv"}), Signals(S)) /\ Signals(S) \in Nat
  BY <1>8 DEF NotFull, Signals
<1>14. Served(c, x, "full", {"full", "rv"}, N, T)
  <2>1. WokenOne(chan[x].q["full"]) = {} => Signals(S) > 0
    BY <1>3 DEF Signals
  <2> QED
    BY <1>1, <1>10, <1>11, <1>13, <2>1, ServedBy
<1>15. T \subseteq Blocked(x, {"full", "rv"})
  BY <1>13, BlockedFinite, SignalledSome
<1>16. Wakes(c, N, T)
  <2>1. pc[c] # "waiting"
    BY DEF Ready
  <2> QED
    BY <1>11, <1>12, <1>15, <2>1, WakesFrom
<1>17. Others(c, N, T) /\ Own(c)'
  BY <1>7, <1>8, <1>9, <1>12, <1>16, LeaveShape DEF Ready
<1>18. Calm
  BY <1>5, <1>9 DEF Calm
<1>19. pc'[c] = "out" /\ result' = [result EXCEPT ![c] = <<"sent", x>>]
  BY <1>7, <1>8 DEF Moves, Finish
<1>20. \A n \in N : n \in Elems(chan[x].q["full"])
  BY <1>12 DEF WokenFrom
<1> QED
  BY <1>12, <1>14, <1>16, <1>17, <1>18, <1>19, <1>20 DEF Shape

\* A receive takes a value: recv.done, and execRecv of a select.
LEMMA PopStep ==
  ASSUME IInv, NEW c \in Callers, NEW x \in Chans, NEW C, Clear(c, C),
         lock[x] \in {NULL, c}, C[x].count > 0, Settled(C[x].q["full"]),
         chan' = [C EXCEPT ![x] = Drain(Popped(x, C[x]))],
         NEW T \in Signalled(NotFull(x), DrainSignals(C[x])),
         Moves(c, "out", DrainWakes(C[x]), T),
         Ends(c, <<"got", x, C[x].slots[C[x].head]>>)
  PROVE  \E N, U : Shape(c, N, U) /\ Pops(c, x, N, U) /\ pc'[c] = "out"
<1>1. RingOK(x, C[x]) /\ SameRing(C[x], chan[x]) /\ C[x] \in Fields(x)
  BY DEF Clear, RingOK
<1>2. PICK p : p = Popped(x, C[x])
  OBVIOUS
<1>3. RingOK(x, p) /\ IsPop(x, C[x], p)
  BY <1>1, <1>2, PoppedOK
<1>4. PICK s : s = Drain(p)
  OBVIOUS
<1>5. /\ RingOK(x, s) /\ SameRing(s, p)
      /\ \A w \in Places : s.q[w] = IF w \in {"full", "rv"} THEN Rest(p.q[w]) ELSE p.q[w]
  BY <1>3, <1>4, DrainOK
<1>6. p.q = C[x].q
  BY <1>3 DEF IsPop
<1>7. ChanInv' /\ chan'[x] = s /\ \A y \in Chans \ {x} : chan'[y] = C[y] /\ SameRing(chan'[y], chan[y])
  BY <1>2, <1>4, <1>5, ChanUpdate
<1>8. PICK N : N = DrainWakes(C[x])
  OBVIOUS
<1>9. Woke(c, C, x, {"full", "rv"}, chan', N)
  <2>1. \A n : n \in N <=> \E w \in {"full", "rv"} : n \in WokenOne(C[x].q[w])
    BY <1>8 DEF DrainWakes
  <2>2. \A w \in Places : chan'[x].q[w] = IF w \in {"full", "rv"} THEN Rest(C[x].q[w]) ELSE C[x].q[w]
    BY <1>5, <1>6, <1>7
  <2> QED
    BY <1>7, <2>1, <2>2 DEF Woke
<1>10. {"full", "rv"} \in SUBSET Places /\ "full" \in {"full", "rv"}
  BY DEF Places
<1>11. ListsOK(c, N, chan') /\ NoneOf(c, chan') /\ WokenFrom(c, x, {"full", "rv"}, N)
  BY <1>9, <1>10, WakeLists
<1>12. /\ T \in Signalled(Blocked(x, {"full", "rv"}), DrainSignals(C[x]))
       /\ DrainSignals(C[x]) \in Nat
       /\ WokenOne(C[x].q["full"]) = {} => DrainSignals(C[x]) > 0
  BY DEF NotFull, DrainSignals, Signals
<1>13. Served(c, x, "full", {"full", "rv"}, N, T)
  BY <1>9, <1>10, <1>12, ServedBy
<1>14. T \subseteq Blocked(x, {"full", "rv"})
  BY <1>12, BlockedFinite, SignalledSome
<1>15. Wakes(c, N, T)
  BY <1>10, <1>11, <1>14, WakesFrom DEF Ends
<1>16. Others(c, N, T) /\ Own(c)'
  BY <1>7, <1>8, <1>11, <1>15, LeaveShape DEF Ends
<1>17. ASSUME Elems(chan[x].q["rv"]) # {}
       PROVE  \E n \in N : n \in Elems(chan[x].q["rv"])
  <2>1. PICK m \in Elems(chan[x].q["rv"]) : TRUE
    BY <1>17
  <2>2. "rv" \in Places
    BY DEF Places
  <2>3. CASE m.g = c
    <3>1. m.case = 0 /\ pc[c] \in {"suspended", "parked"} /\ at[c] \in Places
      BY <2>2, <2>3, NodeState
    <3> QED
      BY <3>1 DEF Ends
  <2>4. CASE m.g # c
    <3>1. /\ C[x].q["rv"] \in Seq(Nodes) /\ Distinct(C[x].q["rv"])
          /\ \A n : n \in Elems(C[x].q["rv"]) <=> n \in Elems(chan[x].q["rv"]) /\ n.g # c
      BY <2>2 DEF Clear, RingOK, Fields
    <3>2. m.case = 0
      BY <2>2, NodeState
    <3>3. Wakeable(m) /\ m \in Elems(C[x].q["rv"])
      BY <2>4, <3>1, <3>2 DEF Wakeable
    <3>4. ASSUME NEW t \in Seq(Nodes), Distinct(t), NEW n \in Elems(t), Wakeable(n)
          PROVE  WokenOne(t) # {} /\ \A k \in WokenOne(t) : k \in Elems(t)
      BY <3>4, WakeOne
    <3>5. PICK k \in WokenOne(C[x].q["rv"]) : k \in Elems(C[x].q["rv"])
      BY <3>1, <3>3, <3>4
    <3> QED
      BY <1>8, <3>1, <3>5 DEF DrainWakes
  <2> QED
    BY <2>3, <2>4
<1>18. Pops(c, x, N, T)
  <2>1. SameRing(chan'[x], Popped(x, chan[x]))
    <3>1. RingOK(x, chan[x])
      BY DEF IInv, ChanInv
    <3>2. chan[x].count > 0
      BY <1>1 DEF SameRing
    <3>3. IsPop(x, chan[x], Popped(x, chan[x])) /\ RingOK(x, Popped(x, chan[x]))
      BY <3>1, <3>2, PoppedOK
    <3>4. PICK g : g = Popped(x, chan[x])
      OBVIOUS
    <3>5. p.tail = g.tail
      BY <1>1, <1>2, <3>1, <3>4 DEF Popped, RingOK, Fields, SameRing
    <3> QED
      BY <1>1, <1>3, <1>5, <1>7, <3>3, <3>4, <3>5 DEF SameRing, IsPop
  <2>2. Untouched(x)
    BY <1>7 DEF Untouched
  <2>3. result' = [result EXCEPT ![c] = <<"got", x, chan[x].slots[chan[x].head]>>]
    BY <1>1 DEF Ends, Finish, SameRing
  <2>4. chan[x].count > 0
    BY <1>1 DEF SameRing
  <2>5. \A n \in N : \E w \in Places : n \in Elems(chan[x].q[w])
    BY <1>10, <1>11 DEF WokenFrom
  <2> QED
    BY <1>13, <1>17, <2>1, <2>2, <2>3, <2>4, <2>5 DEF Pops
<1>19. pc'[c] = "out"
  BY DEF Moves
<1> QED
  BY <1>11, <1>15, <1>16, <1>18, <1>19 DEF Shape

\* execSend of a select.
LEMMA PushStep ==
  ASSUME IInv, NEW c \in Callers, NEW x \in Chans, NEW C, Clear(c, C),
         lock[x] \in {NULL, c}, C[x].count < Size(x), ~C[x].closed,
         NEW R, R = C[x].q["empty"], Settled(R),
         chan' = [C EXCEPT ![x] = [Pushed(x, C[x], Item(c)) EXCEPT !.q["empty"] = Rest(R)]],
         NEW T \in Signalled(NotEmpty(x), Signals(R)),
         Moves(c, "out", WokenOne(R), T), Ends(c, <<"sent", x>>)
  PROVE  \E N, U : Shape(c, N, U) /\ Pushes(c, x, N, U) /\ pc'[c] = "out"
<1>1. RingOK(x, C[x]) /\ SameRing(C[x], chan[x]) /\ C[x] \in Fields(x)
  BY DEF Clear, RingOK
<1>2. PICK p : p = Pushed(x, C[x], Item(c))
  OBVIOUS
<1>3. PICK v \in Values : v = Item(c)
  BY ItemType
<1>4. RingOK(x, p) /\ IsPush(C[x], v, p)
  <2>1. p = Pushed(x, C[x], v)
    BY <1>2, <1>3
  <2>2. RingOK(x, Pushed(x, C[x], v)) /\ IsPush(C[x], v, Pushed(x, C[x], v))
    BY <1>1, PushedOK
  <2> QED
    BY <2>1, <2>2
<1>5. R \in Seq(Nodes) /\ p.q = C[x].q
  BY <1>1, <1>4 DEF Fields, Places, IsPush
<1>6. PICK s : s = [p EXCEPT !.q["empty"] = Rest(R)]
  OBVIOUS
<1>7. RingOK(x, s) /\ SameRing(s, p) /\ s.q = [p.q EXCEPT !["empty"] = Rest(R)]
  <2>1. PICK e \in Seq(Nodes) : e = Rest(R)
    BY <1>5, RestType
  <2> QED
    BY <1>4, <1>6, <2>1, SetListOK DEF Places
<1>8. ChanInv' /\ chan'[x] = s /\ \A y \in Chans \ {x} : chan'[y] = C[y] /\ SameRing(chan'[y], chan[y])
  <2>1. chan' = [C EXCEPT ![x] = s]
    BY <1>2, <1>6
  <2> QED
    BY <1>7, <2>1, ChanUpdate
<1>9. PICK N : N = WokenOne(R)
  OBVIOUS
<1>10. Woke(c, C, x, {"empty"}, chan', N)
  <2>1. \A w \in Places : s.q[w] = IF w \in {"empty"} THEN Rest(C[x].q[w]) ELSE C[x].q[w]
    BY <1>1, <1>5, <1>7 DEF Fields
  <2> QED
    BY <1>8, <1>9, <2>1 DEF Woke
<1>11. {"empty"} \in SUBSET Places /\ "empty" \in {"empty"}
  BY DEF Places
<1>12. ListsOK(c, N, chan') /\ NoneOf(c, chan') /\ WokenFrom(c, x, {"empty"}, N)
  BY <1>10, <1>11, WakeLists
<1>13. T \in Signalled(Blocked(x, {"empty"}), Signals(R)) /\ Signals(R) \in Nat
  BY DEF NotEmpty, Signals
<1>14. Served(c, x, "empty", {"empty"}, N, T)
  <2>1. WokenOne(C[x].q["empty"]) = {} => Signals(R) > 0
    BY DEF Signals
  <2> QED
    BY <1>10, <1>11, <1>13, <2>1, ServedBy
<1>15. T \subseteq Blocked(x, {"empty"})
  BY <1>13, BlockedFinite, SignalledSome
<1>16. Wakes(c, N, T)
  BY <1>11, <1>12, <1>15, WakesFrom DEF Ends
<1>17. Others(c, N, T) /\ Own(c)'
  BY <1>8, <1>9, <1>12, <1>16, LeaveShape DEF Ends
<1>18. Pushes(c, x, N, T)
  <2>1. chan[x].count < Size(x) /\ ~chan[x].closed
    BY <1>1 DEF SameRing
  <2>2. SameRing(chan'[x], Pushed(x, chan[x], Item(c)))
    <3>1. RingOK(x, chan[x])
      BY DEF IInv, ChanInv
    <3>2. PICK g : g = Pushed(x, chan[x], v)
      OBVIOUS
    <3>3. IsPush(chan[x], v, g)
      BY <2>1, <3>1, <3>2, PushedOK
    <3>4. p.tail = g.tail
      BY <1>1, <1>2, <3>1, <3>2 DEF Pushed, RingOK, Fields, SameRing
    <3>5. SameRing(s, g)
      BY <1>1, <1>4, <1>7, <3>3, <3>4 DEF SameRing, IsPush
    <3> QED
      BY <1>3, <1>8, <3>2, <3>5
  <2>3. Untouched(x)
    BY <1>8 DEF Untouched
  <2>4. result' = [result EXCEPT ![c] = <<"sent", x>>]
    BY DEF Ends, Finish
  <2>5. \A n \in N : n \in Elems(chan[x].q["empty"])
    BY <1>12 DEF WokenFrom
  <2> QED
    BY <1>14, <2>1, <2>2, <2>3, <2>4, <2>5 DEF Pushes
<1>19. pc'[c] = "out"
  BY DEF Moves
<1> QED
  BY <1>12, <1>16, <1>17, <1>18, <1>19 DEF Shape

\* c closes x.
Closes(c, x, N, T) ==
  /\ ~chan[x].closed /\ chan'[x].closed
  /\ chan'[x].slots = chan[x].slots /\ chan'[x].count = chan[x].count
  /\ chan'[x].head = chan[x].head /\ Untouched(x)
  /\ \A w \in Places : chan'[x].q[w] = <<>>
  /\ T = NotFull(x) \cup NotEmpty(x)
  /\ \A n \in N : \E w \in Places : n \in Elems(chan[x].q[w])
  /\ result' = [result EXCEPT ![c] = <<"closed", x>>]

\* The elements of two lists put together.
LEMMA ElemsConcat ==
  ASSUME NEW S, NEW s \in Seq(S), NEW t \in Seq(S)
  PROVE  s \o t \in Seq(S) /\ \A n : n \in Elems(s \o t) <=> n \in Elems(s) \/ n \in Elems(t)
<1>1. PICK u \in Seq(S) : u = s \o t
  <2>1. s \in Seq(S) /\ t \in Seq(S)
    OBVIOUS
  <2>2. s \o t \in Seq(S)
    BY <2>1
  <2> QED
    BY <2>2
<1>2. /\ DOMAIN u = 1..(Len(s) + Len(t)) /\ Len(s) \in Nat /\ Len(t) \in Nat
      /\ DOMAIN s = 1..Len(s) /\ DOMAIN t = 1..Len(t)
      /\ \A i \in 1..Len(s) : u[i] = s[i]
      /\ \A i \in 1..Len(t) : u[Len(s) + i] = t[i]
  BY <1>1
<1>3. ASSUME NEW n \in Elems(u) PROVE n \in Elems(s) \/ n \in Elems(t)
  <2>1. PICK i \in DOMAIN u : n = u[i]
    BY DEF Elems
  <2>2. CASE i <= Len(s)
    BY <1>2, <2>1, <2>2 DEF Elems
  <2>3. CASE ~(i <= Len(s))
    <3>1. i - Len(s) \in 1..Len(t) /\ i = Len(s) + (i - Len(s))
      BY <1>2, <2>1, <2>3
    <3>2. n = t[i - Len(s)]
      BY <1>2, <2>1, <3>1
    <3> QED
      BY <1>2, <3>1, <3>2 DEF Elems
  <2> QED
    BY <2>2, <2>3
<1>4. ASSUME NEW n \in Elems(s) PROVE n \in Elems(u)
  <2>1. PICK i \in 1..Len(s) : n = s[i]
    BY <1>2 DEF Elems
  <2>2. i \in DOMAIN u
    BY <1>2
  <2> QED
    BY <1>2, <2>1, <2>2 DEF Elems
<1>5. ASSUME NEW n \in Elems(t) PROVE n \in Elems(u)
  <2>1. PICK i \in 1..Len(t) : n = t[i]
    BY <1>2 DEF Elems
  <2>2. Len(s) + i \in DOMAIN u
    BY <1>2
  <2> QED
    BY <1>2, <2>1, <2>2 DEF Elems
<1> QED
  BY <1>1, <1>3, <1>4, <1>5

\* wake_all wakes every goroutine of the list that can be woken.
LEMMA WakeAll ==
  ASSUME NEW s \in Seq(Nodes)
  PROVE  /\ \A n \in WokenAll(s) : n \in Elems(s) /\ Wakeable(n)
         /\ \A n \in Elems(s) : Wakeable(n) => \E m \in WokenAll(s) : m.g = n.g
<1>1. DOMAIN s = 1..Len(s) /\ Len(s) \in Nat /\ Live(s) \subseteq 1..Len(s)
  BY DEF Live
<1>2. \A n \in WokenAll(s) : n \in Elems(s) /\ Wakeable(n)
  BY DEF WokenAll, Live, Elems
<1>3. ASSUME NEW n \in Elems(s), Wakeable(n)
      PROVE  \E m \in WokenAll(s) : m.g = n.g
  <2>1. PICK i \in DOMAIN s : n = s[i]
    BY DEF Elems
  <2>2. PICK K \in SUBSET Nat : K = {k \in Live(s) : s[k].g = n.g}
    <3>1. {k \in Live(s) : s[k].g = n.g} \subseteq Nat
      BY <1>1
    <3> QED
      BY <3>1
  <2>3. i \in K
    BY <1>3, <2>1, <2>2 DEF Live
  <2>4. PICK j \in K : \A k \in K : j <= k
    BY <2>3, SmallestNat
  <2>5. j \in {h \in Live(s) : \A k \in Live(s) : s[k].g = s[h].g => h <= k}
    BY <2>2, <2>4
  <2>6. s[j] \in WokenAll(s)
    BY <2>5 DEF WokenAll
  <2> QED
    BY <2>2, <2>4, <2>6
<1> QED
  BY <1>2, <1>3

\* chan_close wakes everybody who waits on the channel.
LEMMA CloseStep ==
  ASSUME IInv, NEW c \in Callers, NEW x \in Chans, Ready(c, x), pc[c] = "out",
         ~chan[x].closed, CloseStart(c, x)
  PROVE  \E N, T : Shape(c, N, T) /\ Closes(c, x, N, T) /\ pc'[c] = "out"
<1>1. Clear(c, chan)
  BY ChanClear DEF Ready
<1>2. RingOK(x, chan[x]) /\ chan[x] \in Fields(x) /\ chan[x].q \in [Places -> Seq(Nodes)]
  BY DEF IInv, ChanInv, RingOK, Fields
<1>3. PICK all : all = Released(chan[x])
  OBVIOUS
<1>4. all \in Seq(Nodes) /\ \A n : n \in Elems(all) <=> \E w \in Places : n \in Elems(chan[x].q[w])
  <2>1. PICK s \in Seq(Nodes), t \in Seq(Nodes), u \in Seq(Nodes) :
          s = chan[x].q["full"] /\ t = chan[x].q["empty"] /\ u = chan[x].q["rv"]
    BY <1>2 DEF Places
  <2>2. PICK v \in Seq(Nodes) : v = s \o t
    BY ElemsConcat
  <2>3. all = v \o u
    BY <1>3, <2>1, <2>2 DEF Released
  <2>4. \A n : n \in Elems(v) <=> n \in Elems(s) \/ n \in Elems(t)
    BY <2>2, ElemsConcat
  <2>5. all \in Seq(Nodes) /\ \A n : n \in Elems(all) <=> n \in Elems(v) \/ n \in Elems(u)
    BY <2>3, ElemsConcat
  <2> QED
    BY <2>1, <2>4, <2>5 DEF Places
<1>5. PICK r : r = [chan[x] EXCEPT !.closed = TRUE, !.q = [w \in Places |-> <<>>]]
  OBVIOUS
<1>6. /\ \A i \in DOMAIN all : all[i].case # 0 => pc[all[i].g] # "suspended"
      /\ chan' = [chan EXCEPT ![x] = r]
      /\ Moves(c, "out", WokenAll(all), NotFull(x) \cup NotEmpty(x))
      /\ Finish(c, <<"closed", x>>) /\ UNCHANGED lock
  BY <1>3, <1>5 DEF CloseStart, Update, Return
<1>7. /\ RingOK(x, r) /\ r.closed /\ r.slots = chan[x].slots /\ r.count = chan[x].count
      /\ r.head = chan[x].head /\ \A w \in Places : r.q[w] = <<>>
  <2>1. PICK Q \in [Places -> Seq(Nodes)] : Q = [w \in Places |-> <<>>]
    <3>1. <<>> \in Seq(Nodes)
      OBVIOUS
    <3> QED
      BY <3>1
  <2>2. r = [chan[x] EXCEPT !.closed = TRUE, !.q = Q]
    BY <1>5, <2>1
  <2>3. /\ r \in Fields(x) /\ r.closed /\ r.slots = chan[x].slots /\ r.count = chan[x].count
        /\ r.head = chan[x].head /\ r.tail = chan[x].tail /\ r.q = Q
    BY <1>2, <2>2 DEF Fields
  <2> QED
    BY <1>2, <2>1, <2>3 DEF RingOK
<1>8. ChanInv' /\ chan'[x] = r /\ \A y \in Chans \ {x} : chan'[y] = chan[y] /\ SameRing(chan'[y], chan[y])
  BY <1>1, <1>6, <1>7, ChanUpdate
<1>9. PICK N, T : N = WokenAll(all) /\ T = NotFull(x) \cup NotEmpty(x)
  OBVIOUS
<1>10. /\ \A n \in N : n \in Elems(all) /\ Wakeable(n)
       /\ \A n \in Elems(all) : Wakeable(n) => \E m \in N : m.g = n.g
  BY <1>4, <1>9, WakeAll
<1>11. ASSUME NEW n \in N
       PROVE  /\ n.g # c /\ pc[n.g] = "parked"
              /\ \E w \in Places : n \in Elems(chan[x].q[w])
  <2>1. PICK w \in Places : n \in Elems(chan[x].q[w])
    BY <1>4, <1>10
  <2>2. n.g # c
    BY <1>1, <2>1, <1>4, ChanClear DEF Clear
  <2>3. n.case # 0 => pc[n.g] # "suspended"
    BY <1>6, <1>10 DEF Elems
  <2>4. lock[x] # n.g
    BY <2>1, NodeState, ChannelAssumption DEF Ready, Free
  <2>5. Wakeable(n)
    BY <1>10
  <2> QED
    BY <2>1, <2>2, <2>3, <2>4, <2>5, WokenIsParked
<1>12. Wakes(c, N, T)
  <2>1. T \subseteq {d \in Blockers \ {c} : pc[d] = "waiting"}
    BY <1>9 DEF NotFull, NotEmpty, Blocked
  <2> QED
    BY <1>11, <2>1 DEF Wakes
<1>13. ListsOK(c, N, chan') /\ NoneOf(c, chan')
  <2>1. ASSUME NEW w \in Places
        PROVE  /\ Elems(chan'[x].q[w]) = {} /\ Distinct(chan'[x].q[w]) /\ chan'[x].q[w] \in Seq(Nodes)
    <3>1. chan'[x].q[w] = <<>>
      BY <1>7, <1>8
    <3> QED
      BY <3>1 DEF Elems, Distinct
  <2>2. ASSUME NEW w \in Places, NEW n \in Elems(chan[x].q[w]), Wakeable(n)
        PROVE  n.g \in GsOf(N)
    <3>1. \E m \in N : m.g = n.g
      BY <1>4, <1>10, <2>2
    <3> QED
      BY <3>1 DEF GsOf
  <2>3. ASSUME NEW y \in Chans \ {x}, NEW w \in Places
        PROVE  /\ chan'[y].q[w] = chan[y].q[w] /\ Distinct(chan[y].q[w]) /\ chan[y].q[w] \in Seq(Nodes)
               /\ \A n \in Elems(chan[y].q[w]) : n.g # c /\ n \notin N
    <3>1. \A n \in Elems(chan[y].q[w]) : n.g # c
      BY <1>1 DEF Clear
    <3>2. \A n \in Elems(chan[y].q[w]) : n \notin N
      BY <1>11, OneList
    <3> QED
      BY <1>8, <3>1, <3>2, ListTypes
  <2>4. ASSUME NEW y \in Chans, NEW w \in Places
        PROVE  /\ Distinct(chan'[y].q[w]) /\ chan'[y].q[w] \in Seq(Nodes)
               /\ \A n \in Elems(chan'[y].q[w]) : n.g # c /\ n \in Elems(chan[y].q[w]) /\ n \notin N
               /\ \A n \in Elems(chan[y].q[w]) :
                    n.g # c /\ Wakeable(n) /\ n.g \notin GsOf(N) => n \in Elems(chan'[y].q[w])
    <3>1. CASE y = x
      BY <2>1, <2>2, <3>1
    <3>2. CASE y # x
      BY <2>3, <3>2
    <3> QED
      BY <3>1, <3>2
  <2> QED
    BY <2>4 DEF ListsOK, NoneOf
<1>14. Others(c, N, T) /\ Own(c)'
  BY <1>6, <1>8, <1>9, <1>12, <1>13, LeaveShape DEF Ready
<1>15. Closes(c, x, N, T)
  BY <1>6, <1>7, <1>8, <1>9, <1>11 DEF Closes, Untouched, Finish
<1>16. pc'[c] = "out"
  BY <1>6 DEF Moves
<1> QED
  BY <1>12, <1>13, <1>14, <1>15, <1>16 DEF Shape

-----------------------------------------------------------------------------
\* Locks and selects.

\* Only c moves, and the channels stay as they are.
Alone(c) ==
  /\ \A d \in Callers \ {c} :
       /\ op'[d] = op[d] /\ at'[d] = at[d] /\ spent'[d] = spent[d]
       /\ pc'[d] = pc[d] /\ won'[d] = won[d]
       /\ \A x \in Chans : lock'[x] = d <=> lock[x] = d

\* A step of c alone that keeps what is said of c keeps everything.
LEMMA QuietShape ==
  ASSUME IInv, NEW c \in Callers, chan' = chan, Alone(c),
         TypeInv', Control(c)', LockInv(c)', OwnNodes(c)'
  PROVE  Shape(c, {}, {}) /\ Calm
<1>1. Others(c, {}, {}) /\ Wakes(c, {}, {})
  BY DEF Others, Wakes, Alone, GsOf
<1>2. ListsOK(c, {}, chan')
  BY ListTypes DEF ListsOK
<1>3. ChanInv'
  BY DEF IInv, ChanInv
<1> QED
  BY <1>1, <1>2, <1>3 DEF Shape, Own, Calm, SameRing

\* The invariant says of c what it says of everybody.
LEMMA OwnFromInv ==
  ASSUME IInv, NEW c \in Callers
  PROVE  OwnNodes(c)
BY DEF IInv, NodesMatchWaiters, OwnNodes

\* The nodes of c on the lists, for a step that leaves lists and operation alone.
LEMMA OwnKept ==
  ASSUME IInv, NEW c \in Callers, chan' = chan, op' = op, at' = at,
         \/ pc'[c] = pc[c]
         \/ pc[c] = "suspended" /\ pc'[c] = "parked"
         \/ pc[c] = "ready" /\ at[c] = "select" /\ pc'[c] = "relocking"
         \/ pc[c] = "waiting" /\ pc'[c] = "woken"
  PROVE  OwnNodes(c)'
<1>1. OwnNodes(c)
  BY OwnFromInv
<1>2. \A x \in Chans, w \in Places : NodesOf(c, x, w)' = NodesOf(c, x, w)
  BY DEF NodesOf, NewNodes
<1> QED
  BY <1>1, <1>2 DEF OwnNodes, Elems

\* The unlock by which a suspension completes.
LEMMA ReleaseStep ==
  ASSUME IInv, NEW c \in Callers, Release(c)
  PROVE  Shape(c, {}, {}) /\ Calm /\ result' = result
<1>0. TypeInv /\ Control(c)
  BY DEF IInv
<1>1. /\ pc[c] = "suspended" /\ pc' = [pc EXCEPT ![c] = "parked"] /\ UnlockAll(c)
      /\ UNCHANGED <<chan, op, at, won, result, spent>>
  BY DEF Release
<1>2. /\ lock' \in [Chans -> Callers \cup {NULL}]
      /\ \A x \in Chans : lock'[x] # c
      /\ \A x \in Chans, d \in Callers \ {c} : lock'[x] = d <=> lock[x] = d
  BY <1>1, UnlockFacts
<1>3. pc'[c] = "parked"
  BY <1>0, <1>1 DEF TypeInv
<1>4. TypeInv'
  BY <1>0, <1>1, <1>2 DEF TypeInv, PCs
<1>5. Alone(c)
  BY <1>0, <1>1, <1>2 DEF TypeInv, Alone
<1>6. Control(c)'
  BY <1>0, <1>1, <1>3 DEF Control, Plain, InSelect
<1>7. LockInv(c)'
  BY <1>2, <1>3 DEF LockInv
<1>8. OwnNodes(c)'
  BY <1>1, <1>3, OwnKept
<1> QED
  BY <1>1, <1>4, <1>5, <1>6, <1>7, <1>8, QuietShape

\* pal_cond_wait returns without a signal.
LEMMA SpuriousStep ==
  ASSUME IInv, NEW c \in Callers, SpuriousWakeup(c)
  PROVE  Shape(c, {}, {}) /\ Calm /\ result' = result
<1>0. TypeInv /\ Control(c) /\ LockInv(c)
  BY DEF IInv
<1>1. /\ pc[c] = "waiting" /\ pc' = [pc EXCEPT ![c] = "woken"]
      /\ UNCHANGED <<chan, lock, op, at, won, result, spent>>
  BY DEF SpuriousWakeup
<1>3. pc'[c] = "woken"
  BY <1>0, <1>1 DEF TypeInv
<1>4. TypeInv'
  BY <1>0, <1>1 DEF TypeInv, PCs
<1>5. Alone(c)
  BY <1>0, <1>1 DEF TypeInv, Alone
<1>6. Control(c)'
  BY <1>0, <1>1, <1>3 DEF Control, Plain, InSelect
<1>7. LockInv(c)'
  BY <1>0, <1>1, <1>3 DEF LockInv
<1>8. OwnNodes(c)'
  BY <1>1, <1>3, OwnKept
<1> QED
  BY <1>1, <1>4, <1>5, <1>6, <1>7, <1>8, QuietShape

\* A woken select locks its channels again.
LEMMA ResumeStep ==
  ASSUME IInv, NEW c \in Callers, SelectResume(c)
  PROVE  Shape(c, {}, {}) /\ Calm /\ result' = result
<1>0. TypeInv /\ Control(c) /\ LockInv(c)
  BY DEF IInv
<1>1. /\ pc[c] = "ready" /\ at[c] = "select" /\ pc' = [pc EXCEPT ![c] = "relocking"]
      /\ UNCHANGED <<chan, lock, op, at, won, result, spent>>
  BY DEF SelectResume
<1>3. pc'[c] = "relocking"
  BY <1>0, <1>1 DEF TypeInv
<1>4. TypeInv'
  BY <1>0, <1>1 DEF TypeInv, PCs
<1>5. Alone(c)
  BY <1>0, <1>1 DEF TypeInv, Alone
<1>6. Control(c)'
  BY <1>0, <1>1, <1>3 DEF Control, Plain, InSelect, Places
<1>7. LockInv(c)'
  BY <1>0, <1>1, <1>3 DEF LockInv
<1>8. OwnNodes(c)'
  BY <1>1, <1>3, OwnKept
<1> QED
  BY <1>1, <1>4, <1>5, <1>6, <1>7, <1>8, QuietShape

\* select.poll with no case ready goes on to the default or the park.
LEMMA PollStep ==
  ASSUME IInv, NEW c \in Callers, SelectPoll(c)
  PROVE  Shape(c, {}, {}) /\ Calm /\ result' = result
<1>0. TypeInv /\ Control(c)
  BY DEF IInv
<1>1. /\ pc[c] = "locking" /\ UnlockAll(c)
      /\ UNCHANGED <<chan, pc, op, at, won, result, spent>>
  BY DEF SelectPoll
<1>2. /\ lock' \in [Chans -> Callers \cup {NULL}]
      /\ \A x \in Chans : lock'[x] # c
      /\ \A x \in Chans, d \in Callers \ {c} : lock'[x] = d <=> lock[x] = d
  BY <1>1, UnlockFacts
<1>4. TypeInv'
  BY <1>0, <1>1, <1>2 DEF TypeInv
<1>5. Alone(c)
  BY <1>1, <1>2 DEF Alone
<1>6. Control(c)'
  BY <1>0, <1>1 DEF Control, Plain, InSelect
<1>7. LockInv(c)'
  BY <1>1, <1>2 DEF LockInv
<1>8. OwnNodes(c)'
  BY <1>1, OwnKept
<1> QED
  BY <1>1, <1>4, <1>5, <1>6, <1>7, <1>8, QuietShape

\* The start of a select.
LEMMA StartStep ==
  ASSUME IInv, NEW c \in Callers, NEW o \in Plan[c], o.kind = "select",
         pc[c] = "out", spent[c] < MaxOps, SelectStart(c, o)
  PROVE  /\ Shape(c, {}, {}) /\ Calm /\ result' = result
         /\ pc'[c] = "locking"
<1>0. TypeInv /\ Control(c)
  BY DEF IInv
<1>1. /\ op' = [op EXCEPT ![c] = o] /\ pc' = [pc EXCEPT ![c] = "locking"]
      /\ UNCHANGED <<chan, lock, at, won, result, spent>>
  BY DEF SelectStart
<1>2. o \in Selects /\ o.cases # <<>>
  <2>1. o \in Simple \cup Selects /\ o.cases # <<>>
    BY ChannelAssumption
  <2>2. o \notin Simple
    BY DEF Simple, Send, Recv, Close
  <2> QED
    BY <2>1, <2>2
<1>3. pc'[c] = "locking" /\ op'[c] = o /\ spent'[c] = spent[c] /\ at'[c] = NULL
  BY <1>0, <1>1 DEF TypeInv, Control
<1>4. TypeInv'
  BY <1>0, <1>1, <1>2 DEF TypeInv, PCs
<1>5. Alone(c)
  BY <1>0, <1>1 DEF TypeInv, Alone
<1>6. Control(c)'
  BY <1>2, <1>3 DEF Control, InSelect
<1>7. LockInv(c)'
  BY <1>1, <1>3, HoldsNone DEF LockInv
<1>8. OwnNodes(c)'
  <2>1. Clear(c, chan)
    BY ChanClear
  <2> QED
    BY <1>1, <1>3, <2>1 DEF OwnNodes, Clear, Elems
<1> QED
  BY <1>1, <1>3, <1>4, <1>5, <1>6, <1>7, <1>8, QuietShape

\* The next mutex of a select that has not got all of them.
LEMMA NextLockIs ==
  ASSUME IInv, NEW c \in Callers, pc[c] \in {"locking", "relocking"}, ~HoldsAll(c)
  PROVE  /\ NextLock(c) \in Wanted(c) \ Holds(c) /\ NextLock(c) \in Chans
         /\ \A y \in Wanted(c) \ Holds(c) : Address[NextLock(c)] <= Address[y]
<1>1. Wanted(c) \subseteq Chans
  BY SelectCases DEF IInv, Control
<1>2. Holds(c) \subseteq Wanted(c)
  BY DEF IInv, LockInv, Holds
<1>3. PICK U \in SUBSET Chans : U = Wanted(c) \ Holds(c)
  BY <1>1
<1>4. U # {}
  BY <1>2, <1>3 DEF HoldsAll
<1>5. PICK A \in SUBSET Nat : A = {Address[y] : y \in U}
  <2>1. \A y \in U : Address[y] \in Nat
    BY ChannelAssumption
  <2> QED
    BY <2>1
<1>6. PICK a \in A : \A b \in A : a <= b
  <2>1. A # {}
    BY <1>4, <1>5
  <2> QED
    BY <2>1, SmallestNat
<1>7. \E x \in U : \A y \in U : Address[x] <= Address[y]
  BY <1>5, <1>6
<1>8. NextLock(c) = CHOOSE x \in U : \A y \in U : Address[x] <= Address[y]
  BY <1>3 DEF NextLock
<1> QED
  BY <1>3, <1>7, <1>8

\* The lock of the next channel of a select.
LEMMA LockStep ==
  ASSUME IInv, NEW c \in Callers, SelectLock(c)
  PROVE  Shape(c, {}, {}) /\ Calm /\ result' = result
<1>0. TypeInv /\ Control(c) /\ LockInv(c)
  BY DEF IInv
<1>1. /\ pc[c] \in {"locking", "relocking"} /\ ~HoldsAll(c) /\ lock[NextLock(c)] = NULL
      /\ lock' = [lock EXCEPT ![NextLock(c)] = c]
      /\ UNCHANGED <<chan, pc, op, at, won, result, spent>>
  BY DEF SelectLock, Free
<1>2. PICK x \in Chans : /\ x = NextLock(c) /\ x \in Wanted(c) \ Holds(c)
                         /\ \A y \in Wanted(c) \ Holds(c) : Address[x] <= Address[y]
  BY <1>1, NextLockIs
<1>3. lock' = [lock EXCEPT ![x] = c] /\ lock[x] = NULL
  BY <1>1, <1>2
<1>4. TypeInv'
  BY <1>0, <1>1, <1>3 DEF TypeInv
<1>5. Alone(c)
  BY <1>0, <1>1, <1>3, ChannelAssumption DEF TypeInv, Alone
<1>6. Control(c)'
  BY <1>0, <1>1 DEF Control, Plain, InSelect
<1>7. LockInv(c)'
  <2>1. Wanted(c) \subseteq Chans /\ Wanted(c)' = Wanted(c)
    BY <1>0, <1>1, SelectCases DEF Control, Wanted
  <2>2. \A y \in Chans : lock'[y] = c <=> lock[y] = c \/ y = x
    BY <1>0, <1>3 DEF TypeInv
  <2>3. ASSUME NEW y \in Chans, lock'[y] = c
        PROVE  y \in Wanted(c) /\ \A z \in Wanted(c) : Address[z] < Address[y] => lock'[z] = c
    <3>1. CASE y = x
      <4>1. ASSUME NEW z \in Wanted(c), Address[z] < Address[x]
            PROVE  lock[z] = c
        <5>1. z \in Chans /\ Address[z] \in Nat /\ Address[x] \in Nat
          BY <2>1, ChannelAssumption
        <5>2. z \in Holds(c)
          BY <1>2, <4>1, <5>1
        <5> QED
          BY <5>2 DEF Holds
      <4> QED
        BY <1>2, <2>1, <2>2, <3>1, <4>1
    <3>2. CASE y # x
      <4>1. lock[y] = c
        BY <2>2, <2>3, <3>2
      <4>2. y \in Wanted(c) /\ \A z \in Wanted(c) : Address[z] < Address[y] => lock[z] = c
        BY <1>0, <1>1, <4>1 DEF LockInv
      <4> QED
        BY <2>1, <2>2, <4>2
    <3> QED
      BY <3>1, <3>2
  <2> QED
    BY <1>1, <2>1, <2>3 DEF LockInv
<1>8. OwnNodes(c)'
  BY <1>1, OwnKept
<1> QED
  BY <1>1, <1>4, <1>5, <1>6, <1>7, <1>8, QuietShape

\* select.wake with nothing to do: the nodes go and the select starts over.
LEMMA RetryStep ==
  ASSUME IInv, NEW c \in Callers, pc[c] = "relocking", chan' = Cleaned(c), UnlockAll(c),
         pc' = [pc EXCEPT ![c] = "locking"], at' = [at EXCEPT ![c] = NULL],
         UNCHANGED <<op, won, result, spent>>
  PROVE  Shape(c, {}, {}) /\ Calm /\ pc'[c] = "locking"
<1>0. TypeInv /\ Control(c)
  BY DEF IInv
<1>1. Clear(c, Cleaned(c))
  BY CleanedClear
<1>2. ListsOK(c, {}, chan') /\ NoneOf(c, chan') /\ Wakes(c, {}, {})
  BY <1>1, NothingWoken
<1>3. /\ lock' \in [Chans -> Callers \cup {NULL}]
      /\ \A x \in Chans : lock'[x] # c
      /\ \A x \in Chans, d \in Callers \ {c} : lock'[x] = d <=> lock[x] = d
  BY UnlockFacts
<1>4. pc'[c] = "locking" /\ at'[c] = NULL
  BY <1>0 DEF TypeInv
<1>5. TypeInv'
  BY <1>0, <1>3 DEF TypeInv, PCs
<1>6. Others(c, {}, {})
  BY <1>0, <1>3 DEF Others, GsOf, TypeInv
<1>7. ChanInv'
  BY <1>1 DEF Clear, ChanInv
<1>8. Control(c)'
  BY <1>0, <1>4 DEF Control, InSelect
<1>9. LockInv(c)'
  BY <1>3, <1>4 DEF LockInv
<1>10. OwnNodes(c)'
  BY <1>2, <1>4 DEF OwnNodes, NoneOf, Elems
<1>11. Calm
  BY <1>1 DEF Calm, Clear
<1> QED
  BY <1>2, <1>4, <1>5, <1>6, <1>7, <1>8, <1>9, <1>10, <1>11 DEF Shape, Own

\* select.park
LEMMA ParkSelectStep ==
  ASSUME IInv, NEW c \in Callers, SelectPark(c)
  PROVE  /\ Shape(c, {}, {}) /\ Calm /\ result' = result
         /\ \A x \in Chans : chan'[x].q["rv"] = chan[x].q["rv"]
<1>0. TypeInv /\ Control(c)
  BY DEF IInv
<1>1. /\ pc[c] = "locking" /\ c \in Coros
      /\ chan' = [x \in Chans |->
                    [chan[x] EXCEPT !.q = [w \in Places |-> chan[x].q[w] \o NewNodes(c, x, w)]]]
      /\ UnlockAll(c) /\ pc' = [pc EXCEPT ![c] = "suspended"]
      /\ at' = [at EXCEPT ![c] = "select"] /\ won' = [won EXCEPT ![c] = 0]
      /\ UNCHANGED <<op, result, spent>>
  BY DEF SelectPark
<1>2. InSelect(c) /\ spent[c] < MaxOps
  BY <1>0, <1>1 DEF Control
<1>3. Clear(c, chan)
  BY <1>1, ChanClear
<1>4. ASSUME NEW x \in Chans, NEW w \in Places
      PROVE  /\ NewNodes(c, x, w) \in Seq(Nodes) /\ Distinct(NewNodes(c, x, w))
             /\ \A n \in Elems(NewNodes(c, x, w)) : n.g = c
  <2>1. NewNodes(c, x, w) \in Seq(Nodes) /\ Distinct(NewNodes(c, x, w))
    BY <1>1, <1>2, NewNodesElems
  <2>2. \A n \in Elems(NewNodes(c, x, w)) : \E i : n = Node(c, i)
    BY <1>2, NewNodesElems
  <2> QED
    BY <2>1, <2>2, NodeFields
<1>5. ASSUME NEW x \in Chans, NEW w \in Places
      PROVE  /\ chan[x].q[w] \o NewNodes(c, x, w) \in Seq(Nodes)
             /\ Distinct(chan[x].q[w] \o NewNodes(c, x, w))
             /\ \A n : n \in Elems(chan[x].q[w] \o NewNodes(c, x, w)) <=>
                         n \in Elems(chan[x].q[w]) \/ n \in Elems(NewNodes(c, x, w))
  <2>1. PICK s \in Seq(Nodes) : s = chan[x].q[w] /\ Distinct(s) /\ \A n \in Elems(s) : n.g # c
    BY <1>3, ListTypes DEF Clear
  <2>2. PICK t \in Seq(Nodes) : t = NewNodes(c, x, w) /\ Distinct(t) /\ \A n \in Elems(t) : n.g = c
    BY <1>4
  <2>3. s \o t \in Seq(Nodes) /\ \A n : n \in Elems(s \o t) <=> n \in Elems(s) \/ n \in Elems(t)
    BY ElemsConcat
  <2>4. Distinct(s \o t)
    <3>1. PICK u \in Seq(Nodes) : u = s \o t
      BY <2>3
    <3>2. /\ DOMAIN u = 1..(Len(s) + Len(t)) /\ Len(s) \in Nat /\ Len(t) \in Nat
          /\ DOMAIN s = 1..Len(s) /\ DOMAIN t = 1..Len(t)
          /\ \A i \in 1..Len(s) : u[i] = s[i]
          /\ \A i \in 1..Len(t) : u[Len(s) + i] = t[i]
      BY <3>1
    <3>3. ASSUME NEW i \in 1..Len(s), NEW j \in 1..Len(t)
          PROVE  s[i] # t[j]
      <4>1. s[i] \in Elems(s) /\ t[j] \in Elems(t)
        BY <3>2 DEF Elems
      <4>2. s[i].g # c /\ t[j].g = c
        BY <2>1, <2>2, <4>1
      <4> QED
        BY <4>2
    <3>4. \A i \in DOMAIN u : i \in 1..Len(s) \/ \E j \in 1..Len(t) : i = Len(s) + j
      <4>1. ASSUME NEW i \in DOMAIN u, i \notin 1..Len(s)
            PROVE  i - Len(s) \in 1..Len(t) /\ i = Len(s) + (i - Len(s))
        BY <3>2, <4>1
      <4> QED
        BY <4>1
    <3>5. Distinct(u)
      <4> SUFFICES ASSUME NEW i \in DOMAIN u, NEW j \in DOMAIN u, u[i] = u[j]
                   PROVE  i = j
        BY DEF Distinct
      <4>1. CASE i \in 1..Len(s) /\ j \in 1..Len(s)
        BY <4>1, <2>1, <3>2 DEF Distinct
      <4>2. CASE i \in 1..Len(s) /\ j \notin 1..Len(s)
        BY <4>2, <3>2, <3>3, <3>4
      <4>3. CASE i \notin 1..Len(s) /\ j \in 1..Len(s)
        BY <4>3, <3>2, <3>3, <3>4
      <4>4. CASE i \notin 1..Len(s) /\ j \notin 1..Len(s)
        <5>1. PICK a \in 1..Len(t), b \in 1..Len(t) : i = Len(s) + a /\ j = Len(s) + b
          BY <4>4, <3>4
        <5>2. t[a] = t[b]
          BY <5>1, <3>2
        <5>3. a = b
          BY <5>2, <2>2, <3>2 DEF Distinct
        <5> QED
          BY <5>1, <5>3
      <4> QED
        BY <4>1, <4>2, <4>3, <4>4
    <3> QED
      BY <3>1, <3>5
  <2> QED
    BY <2>1, <2>2, <2>3, <2>4
<1>6. ASSUME NEW x \in Chans
      PROVE  /\ RingOK(x, chan'[x]) /\ SameRing(chan'[x], chan[x])
             /\ \A w \in Places : chan'[x].q[w] = chan[x].q[w] \o NewNodes(c, x, w)
  <2>1. PICK Q \in [Places -> Seq(Nodes)] : Q = [w \in Places |-> chan[x].q[w] \o NewNodes(c, x, w)]
    BY <1>5
  <2>2. chan'[x] = [chan[x] EXCEPT !.q = Q]
    BY <1>1, <2>1
  <2>3. RingOK(x, chan[x]) /\ chan[x] \in Fields(x)
    BY DEF IInv, ChanInv, RingOK
  <2>4. chan'[x] \in Fields(x) /\ SameRing(chan'[x], chan[x]) /\ chan'[x].q = Q
    BY <2>2, <2>3 DEF Fields, SameRing
  <2> QED
    BY <2>1, <2>3, <2>4 DEF RingOK, SameRing
<1>7. ChanInv' /\ Calm
  BY <1>1, <1>6 DEF ChanInv, Calm
<1>8. \A x \in Chans : chan'[x].q["rv"] = chan[x].q["rv"]
  <2>1. ASSUME NEW x \in Chans
        PROVE  chan'[x].q["rv"] = chan[x].q["rv"]
    <3>1. "rv" \in Places
      BY DEF Places
    <3>2. Elems(NewNodes(c, x, "rv")) = {}
      BY <1>2, NewNodesElems DEF PlaceOf
    <3>3. PICK t \in Seq(Nodes) : t = NewNodes(c, x, "rv")
      BY <1>4, <3>1
    <3>4. t = <<>>
      BY <3>2, <3>3 DEF Elems
    <3>5. PICK s \in Seq(Nodes) : s = chan[x].q["rv"]
      BY <3>1, ListTypes
    <3>6. s \o <<>> = s
      OBVIOUS
    <3> QED
      BY <1>6, <3>1, <3>3, <3>4, <3>5, <3>6
  <2> QED
    BY <2>1
<1>9. /\ lock' \in [Chans -> Callers \cup {NULL}]
      /\ \A x \in Chans : lock'[x] # c
      /\ \A x \in Chans, d \in Callers \ {c} : lock'[x] = d <=> lock[x] = d
  BY <1>1, UnlockFacts
<1>10. pc'[c] = "suspended" /\ at'[c] = "select" /\ won'[c] = 0 /\ op'[c] = op[c] /\ spent'[c] = spent[c]
  BY <1>0, <1>1 DEF TypeInv
<1>11. TypeInv'
  BY <1>0, <1>1, <1>9 DEF TypeInv, PCs
<1>12. Others(c, {}, {}) /\ Wakes(c, {}, {})
  BY <1>0, <1>1, <1>9 DEF Others, Wakes, GsOf, TypeInv
<1>13. Control(c)'
  BY <1>1, <1>2, <1>10 DEF Control, InSelect
<1>14. LockInv(c)'
  BY <1>9, <1>10 DEF LockInv, Places
<1>15. OwnNodes(c)'
  <2>1. \A x \in Chans, w \in Places : NodesOf(c, x, w)' = Elems(NewNodes(c, x, w))
    <3>1. \A x \in Chans, w \in Places : NewNodes(c, x, w)' = NewNodes(c, x, w)
      BY <1>10 DEF NewNodes
    <3> QED
      BY <1>10, <3>1 DEF NodesOf, Elems
  <2>2. ASSUME NEW x \in Chans, NEW w \in Places
        PROVE  /\ \A n \in Elems(chan'[x].q[w]) : n.g = c => n \in NodesOf(c, x, w)'
               /\ NodesOf(c, x, w)' \subseteq Elems(chan'[x].q[w])
    <3>1. \A n \in Elems(chan[x].q[w]) : n.g # c
      BY <1>3 DEF Clear
    <3>2. \A n : n \in Elems(chan'[x].q[w]) <=>
                   n \in Elems(chan[x].q[w]) \/ n \in Elems(NewNodes(c, x, w))
      <4>1. chan'[x].q[w] = chan[x].q[w] \o NewNodes(c, x, w)
        BY <1>6
      <4>2. \A n : n \in Elems(chan[x].q[w] \o NewNodes(c, x, w)) <=>
                     n \in Elems(chan[x].q[w]) \/ n \in Elems(NewNodes(c, x, w))
        BY <1>5
      <4> QED
        BY <4>1, <4>2
    <3>3. NodesOf(c, x, w)' = Elems(NewNodes(c, x, w))
      BY <2>1
    <3> QED
      BY <3>1, <3>2, <3>3
  <2> QED
    BY <1>10, <2>2 DEF OwnNodes, Elems
<1>16. ListsOK(c, {}, chan')
  <2>1. ASSUME NEW x \in Chans, NEW w \in Places
        PROVE  /\ Distinct(chan'[x].q[w])
               /\ \A n \in Elems(chan'[x].q[w]) : n.g # c => n \in Elems(chan[x].q[w])
               /\ Elems(chan[x].q[w]) \subseteq Elems(chan'[x].q[w])
    BY <1>4, <1>5, <1>6
  <2> QED
    BY <2>1 DEF ListsOK
<1> QED
  BY <1>1, <1>7, <1>8, <1>11, <1>12, <1>13, <1>14, <1>15, <1>16 DEF Shape, Own

-----------------------------------------------------------------------------
\* What a step does to the rings, and what becomes of its caller.

\* What is left for those that wait for w in x: values, or free slots.
Need(x, w) ==
  IF w = "empty" THEN chan[x].count
  ELSE IF chan[x].closed THEN 0 ELSE Size(x) - chan[x].count

\* The two things a receiver and a sender look for.
Sides == {"empty", "full"}

\* c waits for w in x and nobody has woken it.
Sleeps(c, x, w) ==
  /\ pc[c] \in {"suspended", "parked", "waiting"}
  /\ \/ at[c] = w /\ op[c].ch = x
     \/ at[c] = "select" /\ \E i \in DOMAIN op[c].cases : ForPlace(op[c].cases[i], x, w)

\* c will look for w in x, or wake somebody who does.
Comes(c, x, w) == Coming(c, x, w) \/ (w = "full" /\ Coming(c, x, "rv"))

\* A sender ends its rendezvous in x.
Exits(c, x, N, T) ==
  /\ Calm /\ pc'[c] = "out"
  /\ Served(c, x, "full", {"full", "rv"}, N, T)
  /\ \A n \in N : n \in Elems(chan[x].q["full"])
  /\ result' = [result EXCEPT ![c] = <<"sent", x>>]

\* c returns with nothing.
Fails(c, x) ==
  /\ Calm /\ pc'[c] \in {"out", "dead"}
  /\ \/ /\ result' = [result EXCEPT ![c] = <<"none", x>>]
        /\ chan[x].count = 0 /\ (chan[x].closed \/ pc[c] = "relocking")
     \/ result' = [result EXCEPT ![c] = <<"panic", x>>] /\ chan[x].closed
     \/ result' = [result EXCEPT ![c] = <<"default", x>>]

\* An operation of c that is not in a rendezvous ends.
Done(c) == at[c] # "rv" /\ at'[c] # "rv" /\ spent'[c] = spent[c] + 1

\* The sender c ends its rendezvous in x: a thread looks again, a goroutine
\* has been taken off rv_waiters.
Leaves(c, x) ==
  /\ at[c] = "rv" /\ op[c].ch = x /\ at'[c] # "rv" /\ spent'[c] = spent[c] + 1
  /\ chan[x].count = 0 \/ chan[x].closed \/ pc[c] = "ready"

\* c goes on with its operation, in its rendezvous or outside one as before.
Rests(c) ==
  /\ spent'[c] = spent[c]
  /\ at[c] = "rv" \/ at'[c] = "rv" => at'[c] = at[c] /\ op'[c] = op[c]

\* The sender c waits for the receiver of the value it has put into x.
Meets(c, x) ==
  /\ at[c] # "rv" /\ Unbuffered(x) /\ at'[c] = "rv" /\ op'[c] = Send(x) /\ spent'[c] = spent[c]
  /\ pc'[c] \in {"suspended", "waiting"}

\* c need not wait for the receiver of what it puts into x.
NeedNotMeet(c, x) == ~Unbuffered(x) \/ pc[c] \in {"locking", "relocking"}

\* c does not become a goroutine in its rendezvous.
Stays(c) ==
  c \in Coros /\ at'[c] = "rv" /\ pc'[c] \in {"suspended", "parked", "ready"} => Release(c)

\* What a step of c that wakes N and T does to the channels.
Kind(c, N, T) ==
  \/ Calm /\ result' = result /\ N = {} /\ Stays(c) /\ Rests(c)
  \/ \E x \in Chans : Fails(c, x) /\ N = {} /\ Done(c)
  \/ \E x \in Chans : Exits(c, x, N, T) /\ Leaves(c, x)
  \/ \E x \in Chans :
       /\ Pushes(c, x, N, T)
       /\ \/ /\ pc'[c] = "out" /\ Done(c) /\ NeedNotMeet(c, x)
             /\ result' = [result EXCEPT ![c] = <<"sent", x>>]
          \/ Meets(c, x) /\ result' = result
  \/ \E x \in Chans : Pops(c, x, N, T) /\ pc'[c] = "out" /\ Done(c)
  \/ \E x \in Chans : Closes(c, x, N, T) /\ pc'[c] = "out" /\ Done(c)

\* c goes to sleep only when there is nothing for it, and a caller that was on
\* its way has used up what it was woken for, found nothing, or wakes another.
Turn(c, N, T) ==
  \A x \in Chans, w \in Sides :
    /\ Sleeps(c, x, w)' => Sleeps(c, x, w) \/ Need(x, w)' = 0
    /\ Comes(c, x, w) =>
         \/ Comes(c, x, w)' \/ Need(x, w)' = 0 \/ Need(x, w)' = Need(x, w) - 1
         \/ w = "full" /\ Exits(c, x, N, T)

\* A step of c: its shape, what it does to the rings, and what becomes of c.
Step(c, N, T) == Shape(c, N, T) /\ Kind(c, N, T) /\ Turn(c, N, T)

\* Nothing to take appears when no ring changes.
LEMMA NeedCalm ==
  ASSUME Calm, NEW x \in Chans, NEW w
  PROVE  Need(x, w)' = Need(x, w)
BY DEF Need, Calm, SameRing

\* A case of a select stands on one side of one channel.
LEMMA CaseIs ==
  ASSUME NEW k \in [kind : {"send", "recv"}, ch : Chans], NEW x, NEW w \in Sides
  PROVE  ForPlace(k, x, w) <=> x = k.ch /\ w = PlaceOf(k)
<1>1. k = [kind |-> k.kind, ch |-> k.ch] /\ k.kind \in {"send", "recv"}
  OBVIOUS
<1>2. Send(x).kind = "send" /\ Recv(x).kind = "recv" /\ Send(x).ch = x /\ Recv(x).ch = x
  BY DEF Send, Recv
<1>3. /\ k.kind = "send" => k = Send(k.ch)
      /\ k.kind = "recv" => k = Recv(k.ch)
  BY <1>1 DEF Send, Recv
<1>4. (k = Send(x) <=> k.kind = "send" /\ x = k.ch) /\ (k = Recv(x) <=> k.kind = "recv" /\ x = k.ch)
  BY <1>1, <1>2, <1>3
<1>5. CASE w = "full"
  BY <1>1, <1>4, <1>5 DEF ForPlace, PlaceOf
<1>6. CASE w = "empty"
  BY <1>1, <1>4, <1>6 DEF ForPlace, PlaceOf
<1> QED
  BY <1>5, <1>6 DEF Sides

\* A plain caller comes for the one thing it waited for.
LEMMA ComesPlain ==
  ASSUME IInv, NEW c \in Callers, pc[c] \in {"ready", "woken"}, at[c] \in Places,
         NEW x \in Chans, NEW w \in Sides, Comes(c, x, w)
  PROVE  x = op[c].ch /\ (w = at[c] \/ (w = "full" /\ at[c] = "rv"))
<1>1. at[c] # "select"
  BY DEF Places
<1> QED
  BY <1>1 DEF Comes, Coming

\* A select that has been woken comes for the case it was woken for.
LEMMA ComesSelect ==
  ASSUME IInv, NEW c \in Callers, pc[c] = "relocking",
         NEW x \in Chans, NEW w \in Sides, Comes(c, x, w)
  PROVE  x = op[c].cases[won[c]].ch /\ w = PlaceOf(op[c].cases[won[c]])
<1>1. InSelect(c) /\ at[c] = "select" /\ won[c] \in DOMAIN op[c].cases
  BY DEF IInv, Control
<1>2. op[c].cases[won[c]] \in [kind : {"send", "recv"}, ch : Chans]
  BY <1>1, SelectCases
<1>3. ~ForPlace(op[c].cases[won[c]], x, "rv")
  BY DEF ForPlace
<1>4. ForPlace(op[c].cases[won[c]], x, w)
  BY <1>3 DEF Comes, Coming
<1> QED
  BY <1>2, <1>4, CaseIs

\* Who sleeps, runs elsewhere or has returned is not on its way.
LEMMA ComesNot ==
  ASSUME NEW c, pc[c] \in {"out", "dead", "locking", "suspended", "parked", "waiting"},
         NEW x, NEW w
  PROVE  ~Comes(c, x, w)
BY DEF Comes, Coming

\* A plain caller sleeps at one place only.
LEMMA SleepsAt ==
  ASSUME NEW c, NEW x, NEW w \in Sides, NEW v \in Places, NEW y, NEW o,
         at'[c] = v, op'[c] = o, o.ch = y, Sleeps(c, x, w)'
  PROVE  w = v /\ x = y
BY DEF Sleeps, Places

\* A push uses a free slot and leaves a value.
LEMMA PushNeeds ==
  ASSUME IInv, NEW c \in Callers, NEW x \in Chans, NEW N, NEW T, Pushes(c, x, N, T)
  PROVE  /\ Need(x, "full")' = Need(x, "full") - 1 /\ Need(x, "empty")' = Need(x, "empty") + 1
         /\ \A y \in Chans \ {x}, w \in Sides : Need(y, w)' = Need(y, w)
<1>1. PICK v \in Values : v = Item(c)
  BY ItemType
<1>2. RingOK(x, chan[x]) /\ chan[x].count < Size(x) /\ ~chan[x].closed
  BY DEF IInv, ChanInv, Pushes
<1>3. IsPush(chan[x], v, Pushed(x, chan[x], v))
  BY <1>2, PushedOK
<1>4. chan'[x].count = chan[x].count + 1 /\ ~chan'[x].closed
  BY <1>1, <1>2, <1>3 DEF IsPush, Pushes, SameRing
<1>5. chan[x].count \in Nat /\ Size(x) \in Nat
  BY <1>2, SizePositive DEF RingOK, Fields
<1>6. \A y \in Chans \ {x} : SameRing(chan'[y], chan[y])
  BY DEF Pushes, Untouched
<1> QED
  BY <1>2, <1>4, <1>5, <1>6 DEF Need, SameRing

\* A pop uses a value and leaves a free slot, which only counts on an open
\* channel.
LEMMA PopNeeds ==
  ASSUME IInv, NEW c \in Callers, NEW x \in Chans, NEW N, NEW T, Pops(c, x, N, T)
  PROVE  /\ Need(x, "empty")' = Need(x, "empty") - 1
         /\ Need(x, "full")' = Need(x, "full") + 1 \/ Need(x, "full")' = 0
         /\ \A y \in Chans \ {x}, w \in Sides : Need(y, w)' = Need(y, w)
<1>2. RingOK(x, chan[x]) /\ chan[x].count > 0
  BY DEF IInv, ChanInv, Pops
<1>3. IsPop(x, chan[x], Popped(x, chan[x]))
  BY <1>2, PoppedOK
<1>4. chan'[x].count = chan[x].count - 1 /\ chan'[x].closed = chan[x].closed
  BY <1>2, <1>3 DEF IsPop, Pops, SameRing
<1>5. chan[x].count \in Nat /\ Size(x) \in Nat
  BY <1>2, SizePositive DEF RingOK, Fields
<1>6. \A y \in Chans \ {x} : SameRing(chan'[y], chan[y])
  BY DEF Pops, Untouched
<1> QED
  BY <1>2, <1>4, <1>5, <1>6 DEF Need, SameRing

\* A closed channel has no slots for senders to wait for.
LEMMA CloseNeeds ==
  ASSUME NEW c \in Callers, NEW x \in Chans, NEW N, NEW T, Closes(c, x, N, T)
  PROVE  /\ Need(x, "empty")' = Need(x, "empty") /\ Need(x, "full")' = 0
         /\ \A y \in Chans \ {x}, w \in Sides : Need(y, w)' = Need(y, w)
BY DEF Closes, Untouched, Need, SameRing

\* A return ends the operation of c.
LEMMA ReturnEnds ==
  ASSUME NEW c, NEW x, Ready(c, x), NEW r, Return(c, r)
  PROVE  Ends(c, r)
BY DEF Return, Ends, Ready

\* A caller outside an operation, and one in a select, is in no rendezvous.
LEMMA NotInRendezvous ==
  ASSUME IInv, NEW c \in Callers, pc[c] \in {"out", "locking", "relocking"}
  PROVE  at[c] # "rv"
BY ChannelAssumption DEF IInv, Control

\* An operation that ends counts, and is in no rendezvous any more.
LEMMA FinishIs ==
  ASSUME IInv, NEW c \in Callers, NEW r, Finish(c, r)
  PROVE  /\ at'[c] # "rv" /\ spent'[c] = spent[c] + 1
         /\ result' = [result EXCEPT ![c] = r]
         /\ at[c] # "rv" => Done(c)
<1>1. at'[c] = NULL /\ spent'[c] = spent[c] + 1
  BY DEF Finish, IInv, TypeInv
<1> QED
  BY <1>1, ChannelAssumption DEF Finish, Done

\* c has finished, and found nothing or used what it was woken for.
LEMMA TurnOver ==
  ASSUME NEW c, NEW N, NEW T, pc'[c] \in {"out", "dead", "locking"} \/ at'[c] = "rv",
         \A x \in Chans, w \in Sides :
           Comes(c, x, w) => \/ Need(x, w)' = 0 \/ Need(x, w)' = Need(x, w) - 1
                             \/ w = "full" /\ Exits(c, x, N, T)
  PROVE  Turn(c, N, T)
<1>1. \A x \in Chans, w \in Sides : ~Sleeps(c, x, w)'
  BY DEF Sleeps, Sides
<1> QED
  BY <1>1 DEF Turn

\* c is in a send of x, or about to start it.
Sending(c, x) ==
  Ready(c, x) /\ (pc[c] = "out" \/ (at[c] = "full" /\ op[c].ch = x))
Receiving(c, x) ==
  Ready(c, x) /\ (pc[c] = "out" \/ (at[c] = "empty" /\ op[c].ch = x))

\* Channel send, from its lock to its unlock or wait.
LEMMA SendSteps ==
  ASSUME IInv, NEW c \in Callers, NEW x \in Chans, Sending(c, x), SendStart(c, x)
  PROVE  \E N, T : Step(c, N, T)
<1>0. Ready(c, x) /\ Clear(c, chan) /\ at[c] # "rv"
  BY ChanClear, NotInRendezvous DEF Sending, Ready
<1>1. ASSUME NEW y \in Chans, NEW w \in Sides, Comes(c, y, w)
      PROVE  y = x /\ w = "full"
  <2>1. pc[c] \in {"ready", "woken"} /\ at[c] = "full" /\ op[c].ch = x
    BY <1>1, ComesNot DEF Sending, Ready
  <2> QED
    BY <1>1, <2>1, ComesPlain DEF Places
<1>2. CASE chan[x].closed
  <2>1. Return(c, <<"panic", x>>) /\ Moves(c, "dead", {}, {}) /\ chan' = chan
    BY <1>2 DEF SendStart, Panic
  <2>2. Ends(c, <<"panic", x>>)
    BY <1>0, <2>1, ReturnEnds
  <2>3. /\ Shape(c, {}, {}) /\ Calm /\ pc'[c] = "dead"
        /\ result' = [result EXCEPT ![c] = <<"panic", x>>]
    BY <1>0, <2>1, <2>2, LeaveStep
  <2>4. Kind(c, {}, {})
    BY <1>0, <1>2, <2>1, <2>3, FinishIs DEF Kind, Fails, Return
  <2>5. Need(x, "full")' = 0
    BY <1>2, <2>3, NeedCalm DEF Need
  <2>6. Turn(c, {}, {})
    BY <1>1, <2>3, <2>5, TurnOver
  <2> QED
    BY <2>3, <2>4, <2>6 DEF Step
<1>3. CASE ~chan[x].closed /\ Full(x)
  <2>1. Wait(c, Send(x), x, chan[x], "full", {}, {})
    BY <1>3 DEF SendStart, WriteOrWait
  <2>2. "full" \in Places /\ Send(x) = IF "full" = "empty" THEN Recv(x) ELSE Send(x)
    BY DEF Places
  <2>3. /\ Shape(c, {}, {}) /\ Calm /\ result' = result
        /\ at'[c] = "full" /\ op'[c] = Send(x) /\ spent'[c] = spent[c]
    BY <1>0, <2>1, <2>2, ParkStep
  <2>4. Kind(c, {}, {})
    BY <1>0, <2>3 DEF Kind, Stays, Rests
  <2>5. Need(x, "full")' = 0
    <3>1. Size(x) \in Nat
      BY SizePositive
    <3> QED
      BY <1>3, <2>3, <3>1, NeedCalm DEF Need, Full
  <2>6. ASSUME NEW y \in Chans, NEW w \in Sides, Sleeps(c, y, w)'
        PROVE  w = "full" /\ y = x
    <3>1. Send(x).ch = x
      BY DEF Send
    <3> QED
      BY <2>2, <2>3, <2>6, <3>1, SleepsAt
  <2>7. Turn(c, {}, {})
    BY <1>1, <2>5, <2>6 DEF Turn
  <2> QED
    BY <2>3, <2>4, <2>7 DEF Step
<1>4. CASE ~chan[x].closed /\ ~Full(x)
  <2>1. Write(c, x)
    BY <1>4 DEF SendStart, WriteOrWait
  <2>2. PICK N, T : /\ Shape(c, N, T) /\ Pushes(c, x, N, T)
                    /\ IF Unbuffered(x)
                         THEN /\ at'[c] = "rv" /\ op'[c] = Send(x) /\ spent'[c] = spent[c]
                              /\ pc'[c] \in {"suspended", "waiting"} /\ result' = result
                         ELSE pc'[c] = "out"
    BY <1>0, <1>4, <2>1, WriteStep
  <2>3. Kind(c, N, T)
    <3>1. ~Unbuffered(x) => Finish(c, <<"sent", x>>)
      BY <2>1 DEF Write, Return
    <3>2. CASE Unbuffered(x)
      BY <1>0, <2>2, <3>2 DEF Kind, Meets
    <3>3. CASE ~Unbuffered(x)
      <4>1. Done(c) /\ result' = [result EXCEPT ![c] = <<"sent", x>>]
        BY <1>0, <3>1, <3>3, FinishIs
      <4> QED
        BY <2>2, <3>3, <4>1 DEF Kind, NeedNotMeet
    <3> QED
      BY <3>2, <3>3
  <2>4. Need(x, "full")' = Need(x, "full") - 1
    BY <2>2, PushNeeds
  <2>5. Turn(c, N, T)
    BY <1>1, <2>2, <2>4, TurnOver
  <2> QED
    BY <2>2, <2>3, <2>5 DEF Step
<1> QED
  BY <1>2, <1>3, <1>4

\* Channel receive, from its lock to its unlock or wait.
LEMMA RecvSteps ==
  ASSUME IInv, NEW c \in Callers, NEW x \in Chans, Receiving(c, x), RecvStart(c, x)
  PROVE  \E N, T : Step(c, N, T)
<1>0. Ready(c, x) /\ Clear(c, chan) /\ RingOK(x, chan[x]) /\ at[c] # "rv"
  BY ChanClear, NotInRendezvous DEF Receiving, Ready, IInv, ChanInv
<1>1. ASSUME NEW y \in Chans, NEW w \in Sides, Comes(c, y, w)
      PROVE  y = x /\ w = "empty"
  <2>1. pc[c] \in {"ready", "woken"} /\ at[c] = "empty" /\ op[c].ch = x
    BY <1>1, ComesNot DEF Receiving, Ready
  <2> QED
    BY <1>1, <2>1, ComesPlain DEF Places
<1>2. CASE /\ chan[x].count = 0 /\ chan[x].closed /\ Moves(c, "out", {}, {})
           /\ Return(c, <<"none", x>>) /\ chan' = chan
  <2>2. Ends(c, <<"none", x>>)
    BY <1>0, <1>2, ReturnEnds
  <2>3. /\ Shape(c, {}, {}) /\ Calm /\ pc'[c] = "out"
        /\ result' = [result EXCEPT ![c] = <<"none", x>>]
    BY <1>0, <1>2, <2>2, LeaveStep
  <2>4. Kind(c, {}, {})
    BY <1>0, <1>2, <2>3, FinishIs DEF Kind, Fails, Return
  <2>5. Need(x, "empty")' = 0
    BY <1>2, <2>3, NeedCalm DEF Need
  <2>6. Turn(c, {}, {})
    BY <1>1, <2>3, <2>5, TurnOver
  <2> QED
    BY <2>3, <2>4, <2>6 DEF Step
<1>3. CASE chan[x].count = 0 /\ Wait(c, Recv(x), x, chan[x], "empty", {}, {})
  <2>2. "empty" \in Places /\ Recv(x) = IF "empty" = "empty" THEN Recv(x) ELSE Send(x)
    BY DEF Places
  <2>3. /\ Shape(c, {}, {}) /\ Calm /\ result' = result
        /\ at'[c] = "empty" /\ op'[c] = Recv(x) /\ spent'[c] = spent[c]
    BY <1>0, <1>3, <2>2, ParkStep
  <2>4. Kind(c, {}, {})
    BY <1>0, <2>3 DEF Kind, Stays, Rests
  <2>5. Need(x, "empty")' = 0
    BY <1>3, <2>3, NeedCalm DEF Need
  <2>6. ASSUME NEW y \in Chans, NEW w \in Sides, Sleeps(c, y, w)'
        PROVE  w = "empty" /\ y = x
    <3>1. Recv(x).ch = x
      BY DEF Recv
    <3> QED
      BY <2>2, <2>3, <2>6, <3>1, SleepsAt
  <2>7. Turn(c, {}, {})
    BY <1>1, <2>5, <2>6 DEF Turn
  <2> QED
    BY <2>3, <2>4, <2>7 DEF Step
<1>4. CASE /\ chan[x].count > 0 /\ Settled(chan[x].q["full"])
           /\ Update(x, Drain(Popped(x, chan[x])))
           /\ \E T \in Signalled(NotFull(x), DrainSignals(chan[x])) :
                Moves(c, "out", DrainWakes(chan[x]), T)
           /\ Return(c, <<"got", x, chan[x].slots[chan[x].head]>>)
  <2>0. PICK U \in Signalled(NotFull(x), DrainSignals(chan[x])) :
          Moves(c, "out", DrainWakes(chan[x]), U)
    BY <1>4
  <2>1. Ends(c, <<"got", x, chan[x].slots[chan[x].head]>>)
    BY <1>0, <1>4, ReturnEnds
  <2>2. PICK N, T : Shape(c, N, T) /\ Pops(c, x, N, T) /\ pc'[c] = "out"
    <3>1. lock[x] \in {NULL, c} /\ chan' = [chan EXCEPT ![x] = Drain(Popped(x, chan[x]))]
      BY <1>0, <1>4 DEF Ready, Free, Update
    <3> QED
      BY <1>0, <1>4, <2>0, <2>1, <3>1, PopStep
  <2>3. Kind(c, N, T)
    <3>1. Done(c)
      BY <1>0, <1>4, FinishIs DEF Return
    <3> QED
      BY <2>2, <3>1 DEF Kind
  <2>4. Need(x, "empty")' = Need(x, "empty") - 1
    BY <2>2, PopNeeds
  <2>5. Turn(c, N, T)
    BY <1>1, <2>2, <2>4, TurnOver
  <2> QED
    BY <2>2, <2>3, <2>5 DEF Step
<1> QED
  BY <1>2, <1>3, <1>4 DEF RecvStart

\* send.rv.exit: the sender of an unbuffered channel whose value was taken.
LEMMA ExitSteps ==
  ASSUME IInv, NEW c \in Callers, NEW x \in Chans, Ready(c, x),
         pc[c] \in {"ready", "woken"}, at[c] = "rv", op[c].ch = x, RendezvousExit(c, x),
         pc[c] = "ready" \/ ~(chan[x].count > 0 /\ ~chan[x].closed)
  PROVE  \E N, T : Step(c, N, T)
<1>1. PICK N, T : /\ Shape(c, N, T) /\ Calm /\ pc'[c] = "out"
                  /\ Served(c, x, "full", {"full", "rv"}, N, T)
                  /\ \A n \in N : n \in Elems(chan[x].q["full"])
                  /\ result' = [result EXCEPT ![c] = <<"sent", x>>]
  BY ExitStep
<1>2. Exits(c, x, N, T)
  BY <1>1 DEF Exits
<1>3. ASSUME NEW y \in Chans, NEW w \in Sides, Comes(c, y, w)
      PROVE  y = x /\ w = "full"
  BY <1>3, ComesPlain DEF Places, Sides
<1>4. Turn(c, N, T)
  BY <1>1, <1>2, <1>3, TurnOver
<1>5. Leaves(c, x)
  <2>1. Finish(c, <<"sent", x>>)
    BY DEF RendezvousExit, Return
  <2>2. chan[x].count \in Nat
    BY SizePositive DEF IInv, ChanInv, RingOK, Fields
  <2> QED
    BY <2>1, <2>2, FinishIs DEF Leaves
<1>6. Kind(c, N, T)
  BY <1>2, <1>5 DEF Kind
<1> QED
  BY <1>1, <1>4, <1>6 DEF Step

\* send.rv.check: a thread wakes from pal_cond_wait and looks again.
LEMMA RecheckSteps ==
  ASSUME IInv, NEW c \in Callers, RendezvousRecheck(c)
  PROVE  \E N, T : Step(c, N, T)
<1>1. PICK x : x = op[c].ch
  OBVIOUS
<1>2. pc[c] = "woken" /\ at[c] = "rv" /\ Free(x)
  BY <1>1 DEF RendezvousRecheck
<1>3. Control(c)
  BY DEF IInv
<1>4. c \in Blockers /\ Plain(c) /\ spent[c] < MaxOps
  BY <1>2, <1>3 DEF Control
<1>5. x \in Chans /\ op[c] = Send(x) /\ Unbuffered(x)
  BY <1>1, <1>2, <1>4, PlainOp
<1>6. Ready(c, x)
  BY <1>2, <1>4 DEF Ready, Places
<1>7. CASE chan[x].count > 0 /\ ~chan[x].closed
  <2>1. Wait(c, op[c], x, chan[x], "rv", {}, {})
    BY <1>1, <1>7 DEF RendezvousRecheck
  <2>2. "rv" \in Places /\ op[c] = IF "rv" = "empty" THEN Recv(x) ELSE Send(x)
    BY <1>5 DEF Places
  <2>3. /\ Shape(c, {}, {}) /\ Calm /\ result' = result /\ at'[c] = "rv"
        /\ op'[c] = op[c] /\ spent'[c] = spent[c]
    BY <1>5, <1>6, <2>1, <2>2, ParkStep
  <2>4. Kind(c, {}, {})
    BY <1>2, <1>4, <2>3, ChannelAssumption DEF Kind, Stays, Rests
  <2>5. Need(x, "full")' = 0
    <3>1. chan[x].count = Size(x)
      <4>1. chan[x].count \in 0..Size(x)
        BY <1>5 DEF IInv, ChanInv, RingOK, Fields
      <4> QED
        BY <1>5, <1>7, <4>1, SizePositive
    <3>2. Size(x) \in Nat
      BY <1>5, SizePositive
    <3> QED
      BY <1>5, <2>3, <3>1, <3>2, NeedCalm DEF Need
  <2>6. ASSUME NEW y \in Chans, NEW w \in Sides, Comes(c, y, w)
        PROVE  y = x /\ w = "full"
    BY <1>1, <1>2, <2>6, ComesPlain DEF Places, Sides
  <2>7. Turn(c, {}, {})
    BY <2>3, <2>5, <2>6, TurnOver
  <2> QED
    BY <2>3, <2>4, <2>7 DEF Step
<1>8. CASE ~(chan[x].count > 0 /\ ~chan[x].closed)
  <2>1. RendezvousExit(c, x)
    BY <1>1, <1>8 DEF RendezvousRecheck
  <2> QED
    BY <1>1, <1>2, <1>5, <1>6, <1>8, <2>1, ExitSteps
<1> QED
  BY <1>7, <1>8

\* chan_close, with its early return on a closed channel.
LEMMA CloseSteps ==
  ASSUME IInv, NEW c \in Callers, NEW x \in Chans, Ready(c, x), pc[c] = "out", CloseStart(c, x)
  PROVE  \E N, T : Step(c, N, T)
<1>1. CASE chan[x].closed
  <2>1. Return(c, <<"panic", x>>) /\ Moves(c, "dead", {}, {}) /\ chan' = chan
    BY <1>1 DEF CloseStart, Panic
  <2>2. Ends(c, <<"panic", x>>) /\ Clear(c, chan)
    BY <2>1, ReturnEnds, ChanClear
  <2>3. /\ Shape(c, {}, {}) /\ Calm /\ pc'[c] = "dead"
        /\ result' = [result EXCEPT ![c] = <<"panic", x>>]
    BY <2>1, <2>2, LeaveStep
  <2>4. Kind(c, {}, {})
    BY <1>1, <2>1, <2>3, NotInRendezvous, FinishIs DEF Kind, Fails, Return
  <2>6. Turn(c, {}, {})
    BY <2>3, ComesNot, TurnOver
  <2> QED
    BY <2>3, <2>4, <2>6 DEF Step
<1>2. CASE ~chan[x].closed
  <2>1. PICK N, T : Shape(c, N, T) /\ Closes(c, x, N, T) /\ pc'[c] = "out"
    BY <1>2, CloseStep
  <2>2. Turn(c, N, T)
    BY <2>1, ComesNot, TurnOver
  <2>3. Kind(c, N, T)
    <3>1. Finish(c, <<"closed", x>>)
      BY <1>2 DEF CloseStart, Return
    <3>2. Done(c)
      BY <3>1, NotInRendezvous, FinishIs
    <3> QED
      BY <2>1, <3>2 DEF Kind
  <2> QED
    BY <2>1, <2>2, <2>3 DEF Step
<1> QED
  BY <1>1, <1>2

\* Steps of c alone that leave its operation as it is.
LEMMA QuietSteps ==
  ASSUME IInv, NEW c \in Callers, Shape(c, {}, {}), Calm, result' = result,
         at' = at, won' = won, spent' = spent, Stays(c),
         \/ op' = op /\ pc' = pc
         \/ /\ op' = op /\ at[c] = "select"
            /\ pc[c] = "ready" /\ pc'[c] = "relocking"
         \/ pc[c] = "out" /\ pc'[c] = "locking"
         \/ /\ op' = op /\ pc[c] \in {"suspended", "waiting"}
            /\ pc'[c] \in {"parked", "woken"}
  PROVE  \E N, T : Step(c, N, T)
<1>1. Kind(c, {}, {})
  BY NotInRendezvous DEF Kind, Rests
<1>2. ASSUME NEW x \in Chans, NEW w \in Sides
      PROVE  /\ Sleeps(c, x, w)' => Sleeps(c, x, w)
             /\ Comes(c, x, w) => Comes(c, x, w)'
  <2>1. CASE op' = op /\ pc' = pc
    BY <2>1 DEF Sleeps, Comes, Coming
  <2>2. CASE op' = op /\ at[c] = "select" /\ pc[c] = "ready" /\ pc'[c] = "relocking"
    BY <2>2 DEF Sleeps, Comes, Coming, Sides
  <2>3. CASE pc[c] = "out" /\ pc'[c] = "locking"
    BY <2>3 DEF Sleeps, Comes, Coming
  <2>4. CASE op' = op /\ pc[c] \in {"suspended", "waiting"} /\ pc'[c] \in {"parked", "woken"}
    BY <2>4 DEF Sleeps, Comes, Coming
  <2> QED
    BY <2>1, <2>2, <2>3, <2>4
<1>3. Turn(c, {}, {})
  BY <1>2 DEF Turn
<1> QED
  BY <1>1, <1>3 DEF Step

\* A step of c that is not one of a goroutine in its rendezvous.
LEMMA MovesOn ==
  ASSUME NEW c, pc'[c] \notin {"suspended", "parked", "ready"} \/ at'[c] # "rv"
  PROVE  Stays(c)
BY DEF Stays

\* The steps in which c changes nothing but itself and its mutexes.
LEMMA SoloSteps ==
  ASSUME IInv, NEW c \in Callers,
         \/ Release(c) \/ SpuriousWakeup(c) \/ SelectLock(c) \/ SelectPoll(c) \/ SelectResume(c)
  PROVE  \E N, T : Step(c, N, T)
<1>0. pc \in [Callers -> PCs]
  BY DEF IInv, TypeInv
<1>1. CASE Release(c)
  <2>1. Shape(c, {}, {}) /\ Calm /\ result' = result
    BY <1>1, ReleaseStep
  <2>2. Stays(c) /\ at' = at /\ won' = won /\ spent' = spent /\ op' = op /\ pc[c] = "suspended" /\ pc'[c] = "parked"
    BY <1>0, <1>1 DEF Stays, Release
  <2> QED
    BY <2>1, <2>2, QuietSteps
<1>2. CASE SpuriousWakeup(c)
  <2>1. Shape(c, {}, {}) /\ Calm /\ result' = result
    BY <1>2, SpuriousStep
  <2>2. at' = at /\ won' = won /\ spent' = spent /\ op' = op /\ pc[c] = "waiting" /\ pc'[c] = "woken"
    BY <1>0, <1>2 DEF SpuriousWakeup
  <2> QED
    BY <2>1, <2>2, MovesOn, QuietSteps
<1>3. CASE SelectLock(c)
  <2>1. Shape(c, {}, {}) /\ Calm /\ result' = result
    BY <1>3, LockStep
  <2>2. at' = at /\ won' = won /\ spent' = spent /\ op' = op /\ pc' = pc /\ pc'[c] \in {"locking", "relocking"}
    BY <1>3 DEF SelectLock
  <2> QED
    BY <2>1, <2>2, MovesOn, QuietSteps
<1>4. CASE SelectPoll(c)
  <2>1. Shape(c, {}, {}) /\ Calm /\ result' = result
    BY <1>4, PollStep
  <2>2. at' = at /\ won' = won /\ spent' = spent /\ op' = op /\ pc' = pc /\ pc'[c] = "locking"
    BY <1>4 DEF SelectPoll
  <2> QED
    BY <2>1, <2>2, MovesOn, QuietSteps
<1>5. CASE SelectResume(c)
  <2>1. Shape(c, {}, {}) /\ Calm /\ result' = result
    BY <1>5, ResumeStep
  <2>2. /\ at' = at /\ won' = won /\ spent' = spent /\ op' = op /\ at[c] = "select"
        /\ pc[c] = "ready" /\ pc'[c] = "relocking"
    BY <1>0, <1>5 DEF SelectResume
  <2> QED
    BY <2>1, <2>2, MovesOn, QuietSteps
<1> QED
  BY <1>1, <1>2, <1>3, <1>4, <1>5

\* A select that has all its mutexes holds that of each of its cases.
LEMMA HoldsCase ==
  ASSUME IInv, NEW c \in Callers, InSelect(c), HoldsAll(c), NEW i \in DOMAIN op[c].cases
  PROVE  /\ op[c].cases[i] \in [kind : {"send", "recv"}, ch : Chans]
         /\ op[c].cases[i].ch \in Chans /\ op[c].cases[i].kind \in {"send", "recv"}
         /\ lock[op[c].cases[i].ch] = c
<1>1. op[c].cases[i].ch \in Wanted(c)
  BY DEF Wanted
<1>2. op[c].cases[i].ch \in Holds(c)
  BY <1>1 DEF HoldsAll
<1> QED
  BY <1>2, SelectCases DEF Holds

\* Case k of the select of c may run.
MayRun(c, k) ==
  /\ k \in [kind : {"send", "recv"}, ch : Chans] /\ lock[k.ch] = c
  /\ k.kind = "send" => CanSend(k.ch)
  /\ k.kind = "recv" /\ chan[k.ch].count = 0 => chan[k.ch].closed \/ pc[c] = "relocking"
  /\ \A x \in Chans, w \in Sides : Comes(c, x, w) => x = k.ch /\ w = PlaceOf(k)
  /\ spent[c] < MaxOps /\ pc[c] \in {"locking", "relocking"}

\* A case of a select runs: execSend or execRecv, then unlock-all.
LEMMA RunSteps ==
  ASSUME IInv, NEW c \in Callers, NEW k, MayRun(c, k), NEW C, Clear(c, C), RunCase(c, k, C)
  PROVE  \E N, T : Step(c, N, T)
<1>1. PICK x \in Chans : /\ x = k.ch /\ lock[x] = c /\ k.kind \in {"send", "recv"}
                         /\ k.kind = "send" => CanSend(x)
                         /\ k.kind = "recv" /\ chan[x].count = 0 => chan[x].closed \/ pc[c] = "relocking"
  BY DEF MayRun
<1>2. \A y \in Chans, w \in Sides : Comes(c, y, w) => y = x /\ w = PlaceOf(k)
  BY <1>1 DEF MayRun
<1>3. UnlockAll(c) /\ spent[c] < MaxOps /\ pc[c] \in {"locking", "relocking"}
  BY DEF RunCase, MayRun
<1>4. SameRing(C[x], chan[x]) /\ RingOK(x, chan[x])
  BY DEF Clear, IInv, ChanInv
<1>5. CASE /\ k.kind = "send" /\ Settled(C[x].q["empty"])
           /\ chan' = [C EXCEPT ![x] = [Pushed(x, C[x], Item(c)) EXCEPT !.q["empty"] = Rest(C[x].q["empty"])]]
           /\ \E T \in Signalled(NotEmpty(x), Signals(C[x].q["empty"])) :
                Moves(c, "out", WokenOne(C[x].q["empty"]), T)
           /\ Finish(c, <<"sent", x>>)
  <2>1. PICK R : R = C[x].q["empty"]
    OBVIOUS
  <2>2. PICK U \in Signalled(NotEmpty(x), Signals(R)) : Moves(c, "out", WokenOne(R), U)
    BY <1>5, <2>1
  <2>3. Ends(c, <<"sent", x>>)
    BY <1>3, <1>5 DEF Ends
  <2>4. C[x].count < Size(x) /\ ~C[x].closed
    BY <1>1, <1>4, <1>5 DEF SameRing, CanSend
  <2>5. /\ Settled(R) /\ lock[x] \in {NULL, c}
        /\ chan' = [C EXCEPT ![x] = [Pushed(x, C[x], Item(c)) EXCEPT !.q["empty"] = Rest(R)]]
    BY <1>1, <1>5, <2>1
  <2>6. PICK N, T : Shape(c, N, T) /\ Pushes(c, x, N, T) /\ pc'[c] = "out"
    BY <2>1, <2>2, <2>3, <2>4, <2>5, PushStep
  <2>7. Kind(c, N, T)
    <3>1. Done(c) /\ result' = [result EXCEPT ![c] = <<"sent", x>>]
      BY <1>3, <1>5, NotInRendezvous, FinishIs
    <3> QED
      BY <1>3, <2>6, <3>1 DEF Kind, NeedNotMeet
  <2>8. Need(x, "full")' = Need(x, "full") - 1 /\ PlaceOf(k) = "full"
    BY <1>5, <2>6, PushNeeds DEF PlaceOf
  <2>9. Turn(c, N, T)
    BY <1>2, <2>6, <2>8, TurnOver
  <2> QED
    BY <2>6, <2>7, <2>9 DEF Step
<1>6. CASE /\ k.kind = "recv" /\ C[x].count = 0 /\ chan' = C /\ Moves(c, "out", {}, {})
           /\ Finish(c, <<"none", x>>)
  <2>1. Ends(c, <<"none", x>>)
    BY <1>3, <1>6 DEF Ends
  <2>2. /\ Shape(c, {}, {}) /\ Calm /\ pc'[c] = "out"
        /\ result' = [result EXCEPT ![c] = <<"none", x>>]
    BY <1>6, <2>1, LeaveStep
  <2>3. chan[x].count = 0
    BY <1>4, <1>6 DEF SameRing
  <2>4. Kind(c, {}, {})
    BY <1>1, <1>3, <1>6, <2>2, <2>3, NotInRendezvous, FinishIs DEF Kind, Fails
  <2>5. Need(x, "empty")' = 0 /\ PlaceOf(k) = "empty"
    BY <1>6, <2>2, <2>3, NeedCalm DEF Need, PlaceOf
  <2>6. Turn(c, {}, {})
    BY <1>2, <2>2, <2>5, TurnOver
  <2> QED
    BY <2>2, <2>4, <2>6 DEF Step
<1>7. CASE /\ k.kind = "recv" /\ C[x].count > 0 /\ Settled(C[x].q["full"])
           /\ chan' = [C EXCEPT ![x] = Drain(Popped(x, C[x]))]
           /\ \E T \in Signalled(NotFull(x), DrainSignals(C[x])) :
                Moves(c, "out", DrainWakes(C[x]), T)
           /\ Finish(c, <<"got", x, C[x].slots[C[x].head]>>)
  <2>1. PICK U \in Signalled(NotFull(x), DrainSignals(C[x])) : Moves(c, "out", DrainWakes(C[x]), U)
    BY <1>7
  <2>2. Ends(c, <<"got", x, C[x].slots[C[x].head]>>) /\ lock[x] \in {NULL, c}
    BY <1>1, <1>3, <1>7 DEF Ends
  <2>3. PICK N, T : Shape(c, N, T) /\ Pops(c, x, N, T) /\ pc'[c] = "out"
    BY <1>7, <2>1, <2>2, PopStep
  <2>4. Kind(c, N, T)
    <3>1. Done(c)
      BY <1>3, <1>7, NotInRendezvous, FinishIs
    <3> QED
      BY <2>3, <3>1 DEF Kind
  <2>5. Need(x, "empty")' = Need(x, "empty") - 1 /\ PlaceOf(k) = "empty"
    BY <1>7, <2>3, PopNeeds DEF PlaceOf
  <2>6. Turn(c, N, T)
    BY <1>2, <2>3, <2>5, TurnOver
  <2> QED
    BY <2>3, <2>4, <2>6 DEF Step
<1> QED
  BY <1>1, <1>5, <1>6, <1>7 DEF RunCase

\* select.try: the poll loop found a case that is ready.
LEMMA TrySteps ==
  ASSUME IInv, NEW c \in Callers, SelectTry(c)
  PROVE  \E N, T : Step(c, N, T)
<1>1. pc[c] = "locking" /\ HoldsAll(c)
  BY DEF SelectTry
<1>2. PICK i \in Runnable(c) : RunCase(c, op[c].cases[i], chan)
  BY DEF SelectTry
<1>3. InSelect(c) /\ spent[c] < MaxOps
  BY <1>1 DEF IInv, Control
<1>4. PICK k : k = op[c].cases[i]
  OBVIOUS
<1>5. i \in DOMAIN op[c].cases /\ CanRun(k)
  BY <1>4 DEF Runnable
<1>6. k \in [kind : {"send", "recv"}, ch : Chans] /\ lock[k.ch] = c /\ k.ch \in Chans /\ k.kind \in {"send", "recv"}
  BY <1>1, <1>3, <1>4, <1>5, HoldsCase
<1>7. MayRun(c, k)
  <2>1. chan[k.ch].count \in Nat
    BY <1>6, SizePositive DEF IInv, ChanInv, RingOK, Fields
  <2> QED
    BY <1>1, <1>3, <1>5, <1>6, <2>1, ComesNot DEF MayRun, CanRun, CanRecv
<1>8. Clear(c, chan)
  BY <1>1, ChanClear
<1> QED
  BY <1>2, <1>4, <1>7, <1>8, RunSteps

\* select.wake: the select runs the case it was woken for, or starts over.
LEMMA WakeSteps ==
  ASSUME IInv, NEW c \in Callers, SelectWake(c)
  PROVE  \E N, T : Step(c, N, T)
<1>1. PICK k : k = op[c].cases[won[c]]
  OBVIOUS
<1>2. pc[c] = "relocking" /\ HoldsAll(c)
  BY DEF SelectWake
<1>3. InSelect(c) /\ spent[c] < MaxOps /\ won[c] \in DOMAIN op[c].cases /\ at[c] = "select"
  BY <1>2 DEF IInv, Control
<1>4. k \in [kind : {"send", "recv"}, ch : Chans] /\ lock[k.ch] = c /\ k.ch \in Chans /\ k.kind \in {"send", "recv"}
  BY <1>1, <1>2, <1>3, HoldsCase
<1>5. \A x \in Chans, w \in Sides : Comes(c, x, w) => x = k.ch /\ w = PlaceOf(k)
  BY <1>1, <1>2, ComesSelect
<1>6. CASE ~MustRetry(k) /\ RunCase(c, k, Cleaned(c))
  <2>1. MayRun(c, k)
    BY <1>2, <1>3, <1>4, <1>5, <1>6 DEF MayRun, MustRetry
  <2> QED
    BY <1>6, <2>1, CleanedClear, RunSteps
<1>7. CASE /\ MustRetry(k) /\ chan' = Cleaned(c) /\ UnlockAll(c)
           /\ pc' = [pc EXCEPT ![c] = "locking"] /\ at' = [at EXCEPT ![c] = NULL]
           /\ UNCHANGED <<op, won, result, spent>>
  <2>1. Shape(c, {}, {}) /\ Calm /\ pc'[c] = "locking" /\ result' = result
    BY <1>2, <1>7, RetryStep
  <2>2. Kind(c, {}, {})
    <3>1. at[c] # "rv" /\ at'[c] # "rv" /\ spent'[c] = spent[c]
      BY <1>3, <1>7, ChannelAssumption DEF IInv, TypeInv
    <3> QED
      BY <2>1, <3>1, MovesOn DEF Kind, Rests
  <2>3. PlaceOf(k) = "full" /\ Need(k.ch, "full")' = 0
    <3>1. k.kind = "send" /\ ~(chan[k.ch].count < Size(k.ch) /\ ~chan[k.ch].closed)
      BY <1>7 DEF MustRetry, CanSend
    <3>2. chan[k.ch].count \in 0..Size(k.ch) /\ Size(k.ch) \in Nat
      BY <1>4, SizePositive DEF IInv, ChanInv, RingOK, Fields
    <3> QED
      BY <1>4, <2>1, <3>1, <3>2, NeedCalm DEF Need, PlaceOf
  <2>4. Turn(c, {}, {})
    BY <1>5, <2>1, <2>3, TurnOver
  <2> QED
    BY <2>1, <2>2, <2>4 DEF Step
<1> QED
  BY <1>1, <1>6, <1>7 DEF SelectWake

\* select.default.
LEMMA DefaultSteps ==
  ASSUME IInv, NEW c \in Callers, SelectDefault(c)
  PROVE  \E N, T : Step(c, N, T)
<1>1. PICK x : x = op[c].cases[1].ch
  OBVIOUS
<1>2. /\ pc[c] = "locking" /\ UnlockAll(c) /\ Moves(c, "out", {}, {})
      /\ Finish(c, <<"default", x>>) /\ chan' = chan
  BY <1>1 DEF SelectDefault
<1>3. InSelect(c) /\ spent[c] < MaxOps
  BY <1>2 DEF IInv, Control
<1>4. x \in Chans
  BY <1>1, <1>3, SelectCases
<1>5. Ends(c, <<"default", x>>) /\ Clear(c, chan)
  BY <1>2, <1>3, ChanClear DEF Ends
<1>6. Shape(c, {}, {}) /\ Calm /\ pc'[c] = "out" /\ result' = [result EXCEPT ![c] = <<"default", x>>]
  BY <1>2, <1>5, LeaveStep
<1>7. Kind(c, {}, {})
  BY <1>2, <1>4, <1>6, NotInRendezvous, FinishIs DEF Kind, Fails
<1>8. Turn(c, {}, {})
  BY <1>2, <1>6, ComesNot, TurnOver
<1> QED
  BY <1>6, <1>7, <1>8 DEF Step

\* select.park: a node on the list of every case.
LEMMA ParkSelectSteps ==
  ASSUME IInv, NEW c \in Callers, SelectPark(c)
  PROVE  \E N, T : Step(c, N, T)
<1>1. Shape(c, {}, {}) /\ Calm /\ result' = result
  BY ParkSelectStep
<1>2. /\ pc[c] = "locking" /\ op' = op /\ at' = [at EXCEPT ![c] = "select"]
      /\ pc' = [pc EXCEPT ![c] = "suspended"] /\ Runnable(c) = {} /\ spent' = spent
  BY DEF SelectPark
<1>3. at'[c] = "select" /\ InSelect(c)
  BY <1>2 DEF IInv, TypeInv, Control
<1>4. Kind(c, {}, {})
  BY <1>1, <1>2, <1>3, MovesOn, NotInRendezvous DEF Kind, Rests
<1>5. ASSUME NEW x \in Chans, NEW w \in Sides, Sleeps(c, x, w)'
      PROVE  Need(x, w)' = 0
  <2>1. PICK i \in DOMAIN op[c].cases : ForPlace(op[c].cases[i], x, w)
    BY <1>2, <1>3, <1>5 DEF Sleeps, Sides
  <2>2. PICK k : k = op[c].cases[i]
    OBVIOUS
  <2>3. k \in [kind : {"send", "recv"}, ch : Chans] /\ ~CanRun(k)
    BY <1>2, <1>3, <2>2, SelectCases DEF Runnable
  <2>4. x = k.ch /\ w = PlaceOf(k)
    BY <2>1, <2>2, <2>3, CaseIs
  <2>5. chan[x].count \in 0..Size(x) /\ Size(x) \in Nat
    BY SizePositive DEF IInv, ChanInv, RingOK, Fields
  <2>6. Need(x, w) = 0
    BY <2>3, <2>4, <2>5 DEF CanRun, CanSend, CanRecv, PlaceOf, Need
  <2> QED
    BY <1>1, <2>6, NeedCalm
<1>6. Turn(c, {}, {})
  BY <1>2, <1>5, ComesNot DEF Turn
<1> QED
  BY <1>1, <1>4, <1>6 DEF Step

-----------------------------------------------------------------------------
\* The invariant, and two of its consequences.

\* The start of an operation.
LEMMA StartSteps ==
  ASSUME IInv, NEW c \in Callers, Start(c)
  PROVE  \E N, T : Step(c, N, T)
<1>1. pc[c] = "out" /\ spent[c] < MaxOps
  BY DEF Start
<1>2. PICK o \in Plan[c] :
        \/ o.kind = "send" /\ SendStart(c, o.ch)
        \/ o.kind = "recv" /\ RecvStart(c, o.ch)
        \/ o.kind = "close" /\ CloseStart(c, o.ch)
        \/ o.kind = "select" /\ SelectStart(c, o)
  BY DEF Start
<1>3. o \in Simple \cup Selects
  BY ChannelAssumption
<1>4. o.kind # "select" => o.ch \in Chans
  <2>1. o \in Selects => o.kind = "select"
    BY DEF Selects
  <2>2. o \in Simple => o.ch \in Chans
    BY DEF Simple, Send, Recv, Close
  <2> QED
    BY <1>3, <2>1, <2>2
<1>5. CASE o.kind = "send" /\ SendStart(c, o.ch)
  <2>1. PICK x \in Chans : x = o.ch /\ SendStart(c, x)
    BY <1>4, <1>5
  <2>2. Sending(c, x)
    BY <1>1, <2>1 DEF Sending, Ready, SendStart
  <2> QED
    BY <2>1, <2>2, SendSteps
<1>6. CASE o.kind = "recv" /\ RecvStart(c, o.ch)
  <2>1. PICK x \in Chans : x = o.ch /\ RecvStart(c, x)
    BY <1>4, <1>6
  <2>2. Receiving(c, x)
    BY <1>1, <2>1 DEF Receiving, Ready, RecvStart
  <2> QED
    BY <2>1, <2>2, RecvSteps
<1>7. CASE o.kind = "close" /\ CloseStart(c, o.ch)
  <2>1. PICK x \in Chans : x = o.ch /\ CloseStart(c, x)
    BY <1>4, <1>7
  <2>2. Ready(c, x)
    BY <1>1, <2>1 DEF Ready, CloseStart
  <2> QED
    BY <1>1, <2>1, <2>2, CloseSteps
<1>8. CASE o.kind = "select" /\ SelectStart(c, o)
  <2>1. Shape(c, {}, {}) /\ Calm /\ result' = result /\ pc'[c] = "locking"
    BY <1>1, <1>8, StartStep
  <2>2. at' = at /\ won' = won /\ spent' = spent
    BY <1>8 DEF SelectStart
  <2> QED
    BY <1>1, <2>1, <2>2, MovesOn, QuietSteps
<1> QED
  BY <1>2, <1>5, <1>6, <1>7, <1>8

\* The retry of an operation that has been woken.
LEMMA AgainSteps ==
  ASSUME IInv, NEW c \in Callers, SendAgain(c) \/ RecvAgain(c) \/ RendezvousResume(c)
  PROVE  \E N, T : Step(c, N, T)
<1>1. PICK x : x = op[c].ch
  OBVIOUS
<1>2. pc[c] \in {"ready", "woken"} /\ at[c] \in Places
  BY DEF SendAgain, RecvAgain, RendezvousResume, Places
<1>3. Plain(c) /\ spent[c] < MaxOps
  BY <1>2 DEF IInv, Control, Places
<1>4. x \in Chans
  BY <1>1, <1>3, PlainOp
<1>5. Free(x) => Ready(c, x)
  BY <1>2, <1>3 DEF Ready
<1>6. CASE SendAgain(c)
  <2>1. at[c] = "full" /\ SendStart(c, x)
    BY <1>1, <1>6 DEF SendAgain
  <2>2. Sending(c, x)
    BY <1>1, <1>5, <2>1 DEF Sending, SendStart
  <2> QED
    BY <1>4, <2>1, <2>2, SendSteps
<1>7. CASE RecvAgain(c)
  <2>1. at[c] = "empty" /\ RecvStart(c, x)
    BY <1>1, <1>7 DEF RecvAgain
  <2>2. Receiving(c, x)
    BY <1>1, <1>5, <2>1 DEF Receiving, RecvStart
  <2> QED
    BY <1>4, <2>1, <2>2, RecvSteps
<1>8. CASE RendezvousResume(c)
  <2>1. pc[c] = "ready" /\ at[c] = "rv" /\ Free(x) /\ RendezvousExit(c, x)
    BY <1>1, <1>8 DEF RendezvousResume
  <2> QED
    BY <1>1, <1>4, <1>5, <2>1, ExitSteps
<1> QED
  BY <1>6, <1>7, <1>8

\* Every step of the specification is the step of one caller.
LEMMA EveryStep ==
  ASSUME IInv, Next
  PROVE  \E c \in Callers : \E N, T : Step(c, N, T)
<1>1. PICK c \in Callers : Start(c) \/ Continue(c) \/ SpuriousWakeup(c)
  BY DEF Next
<1>2. \E N, T : Step(c, N, T)
  BY <1>1, StartSteps, SoloSteps, AgainSteps, RecheckSteps, TrySteps, DefaultSteps,
     ParkSelectSteps, WakeSteps DEF Continue
<1> QED
  BY <1>2

\* The invariant holds when all channels are new.
LEMMA InitInv ==
  ASSUME Init
  PROVE  IInv
<1>1. TypeInv
  <2>1. /\ lock \in [Chans -> Callers \cup {NULL}] /\ pc \in [Callers -> PCs]
        /\ op \in [Callers -> Simple \cup Selects \cup {NULL}]
        /\ at \in [Callers -> Places \cup {"select", NULL}]
        /\ won \in [Callers -> Nat] /\ result = [c \in Callers |-> result[c]]
    BY DEF Init, PCs
  <2>2. spent \in [Callers -> 0..MaxOps]
    BY ChannelAssumption DEF Init
  <2> QED
    BY <2>1, <2>2 DEF TypeInv
<1>2. ASSUME NEW x \in Chans
      PROVE  RingOK(x, chan[x]) /\ \A w \in Places : chan[x].q[w] = <<>>
  <2>1. PICK n \in Nat : n = Size(x) /\ n > 0
    BY SizePositive
  <2>2. PICK sl \in [0..(n - 1) -> Values] : sl = [i \in 0..(n - 1) |-> NULL]
    BY DEF Values
  <2>3. PICK Q \in [Places -> Seq(Nodes)] : Q = [w \in Places |-> <<>>]
    <3>1. <<>> \in Seq(Nodes)
      OBVIOUS
    <3> QED
      BY <3>1
  <2>4. chan[x] = [slots |-> sl, count |-> 0, head |-> 0, tail |-> 0, closed |-> FALSE, q |-> Q]
    BY <2>1, <2>2, <2>3 DEF Init
  <2>5. chan[x] \in Fields(x)
    BY <2>1, <2>4 DEF Fields
  <2>6. (0 + 0) % n = 0
    <3>1. 0 \in 0..(n - 1) /\ 0 \in 0..n
      BY <2>1
    <3> QED
      BY <2>1, <3>1, RingStep
  <2> QED
    BY <2>1, <2>3, <2>4, <2>5, <2>6 DEF RingOK
<1>3. ChanInv
  <2>1. chan = [x \in Chans |-> chan[x]]
    BY DEF Init
  <2> QED
    BY <1>2, <2>1 DEF ChanInv
<1>4. \A c \in Callers : Control(c)
  BY DEF Init, Control
<1>5. \A c \in Callers : LockInv(c)
  BY ChannelAssumption DEF Init, LockInv
<1>6. NodesMatchWaiters
  <2>1. \A x \in Chans, w \in Places : DOMAIN chan[x].q[w] = {}
    BY <1>2
  <2>2. \A c \in Coros : pc[c] \notin {"suspended", "parked"}
    BY DEF Init, Callers
  <2> QED
    BY <2>1, <2>2 DEF NodesMatchWaiters, Elems
<1> QED
  BY <1>1, <1>3, <1>4, <1>5, <1>6 DEF IInv

\* No step breaks the invariant.
LEMMA NextInv ==
  ASSUME IInv, [Next]_vars
  PROVE  IInv'
<1>1. CASE Next
  <2>0. PICK c \in Callers : \E N, T : Step(c, N, T)
    BY <1>1, EveryStep
  <2>1. PICK N, T : Step(c, N, T)
    BY <2>0
  <2> QED
    BY <2>1, ShapeKeeps DEF Step, Shape
<1>2. CASE UNCHANGED vars
  <2>1. /\ UNCHANGED chan /\ UNCHANGED lock /\ UNCHANGED pc /\ UNCHANGED op
        /\ UNCHANGED at /\ UNCHANGED won /\ UNCHANGED result /\ UNCHANGED spent
    BY <1>2 DEF vars
  <2>2. TypeInv' /\ ChanInv'
    BY <2>1 DEF IInv, TypeInv, ChanInv
  <2>3. \A c \in Callers : Control(c)'
    BY <2>1 DEF IInv, Control, Plain, InSelect
  <2>4. \A c \in Callers : LockInv(c)'
    BY <2>1 DEF IInv, LockInv, Wanted
  <2>5. NodesMatchWaiters'
    <3>1. \A c, x, w : NodesOf(c, x, w)' = NodesOf(c, x, w)
      BY <2>1 DEF NodesOf, NewNodes, Elems
    <3> QED
      BY <2>1, <3>1 DEF IInv, NodesMatchWaiters, Elems
  <2> QED
    BY <2>2, <2>3, <2>4, <2>5 DEF IInv
<1> QED
  BY <1>1, <1>2

\* The structure of channels and callers that every action relies on: the ring
\* positions and counts agree, what a caller waits for is what its program
\* counter says, a mutex is held by who is in its section, and the waiter lists
\* hold the nodes of those who sleep.
THEOREM ChannelInvariant == Spec => []IInv
<1>1. Init => IInv
  BY InitInv
<1>2. IInv /\ [Next]_vars => IInv'
  BY NextInv
<1> QED
  BY <1>1, <1>2, PTL DEF Spec

\* The waiter lists of a channel hold one node for each wait of a suspended
\* goroutine, and no node of a goroutine that no longer waits, so wake_one never
\* resumes a goroutine that has gone on (waiter_remove, cleanup of a
\* select that has been woken through another case).
THEOREM WaitersAreListed == Spec => []NodesMatchWaiters
<1>1. IInv => NodesMatchWaiters
  BY DEF IInv
<1> QED
  BY <1>1, ChannelInvariant, PTL

\* A select asks only for addresses above those it holds.
LEMMA LocksOrdered ==
  ASSUME IInv
  PROVE  NoLockCycle
<1> SUFFICES ASSUME NEW c \in Callers, NEW d \in Callers,
                    pc[c] \in {"locking", "relocking"}, pc[d] \in {"locking", "relocking"},
                    ~HoldsAll(c), ~HoldsAll(d),
                    NextLock(c) \in Holds(d), NextLock(d) \in Holds(c)
             PROVE  FALSE
  BY DEF NoLockCycle
<1>1. /\ NextLock(c) \in Wanted(c) \ Holds(c) /\ NextLock(c) \in Chans
      /\ \A y \in Wanted(c) \ Holds(c) : Address[NextLock(c)] <= Address[y]
  BY NextLockIs
<1>2. /\ NextLock(d) \in Wanted(d) \ Holds(d) /\ NextLock(d) \in Chans
      /\ \A y \in Wanted(d) \ Holds(d) : Address[NextLock(d)] <= Address[y]
  BY NextLockIs
<1>3. PICK x \in Chans, y \in Chans : x = NextLock(c) /\ y = NextLock(d)
  BY <1>1, <1>2
<1>4. lock[x] = d /\ lock[y] = c /\ lock[x] # c /\ lock[y] # d
  BY <1>1, <1>2, <1>3 DEF Holds
<1>5. /\ \A z \in Wanted(d) : Address[z] < Address[x] => lock[z] = d
      /\ \A z \in Wanted(c) : Address[z] < Address[y] => lock[z] = c
  BY <1>4 DEF IInv, LockInv
<1>6. ~(Address[y] < Address[x]) /\ ~(Address[x] < Address[y])
  BY <1>1, <1>2, <1>3, <1>4, <1>5
<1>7. Address[x] \in Nat /\ Address[y] \in Nat
  BY ChannelAssumption
<1>8. x = y
  BY <1>6, <1>7, ChannelAssumption
<1> QED
  BY <1>1, <1>2, <1>3, <1>4, <1>8

\* No set of selects wait for one another, each for a mutex that another one
\* holds: the codegen locks the channels of a select in the order of their
\* addresses.
THEOREM SelectsDoNotDeadlock == Spec => []NoLockCycle
BY LocksOrdered, ChannelInvariant, PTL

-----------------------------------------------------------------------------
\* The contents of a ring.

\* The k values from the slot h on, in a ring of n slots.
RingSeq(sl, h, k, n) == [i \in 1..k |-> sl[(h + i - 1) % n]]

\* The slot of the i-th value of a ring.
LEMMA RingIndex ==
  ASSUME NEW n \in Nat, n > 0, NEW h \in 0..(n - 1), NEW k \in 0..n, NEW i \in 1..k
  PROVE  /\ i - 1 \in 0..(n - 1) /\ (h + i - 1) % n = (h + (i - 1)) % n
         /\ (h + i - 1) % n \in 0..(n - 1)
<1>1. i - 1 \in 0..(n - 1) /\ i - 1 \in 0..n
  OBVIOUS
<1>2. h + i - 1 = h + (i - 1)
  BY <1>1
<1> QED
  BY <1>1, <1>2, RingStep

\* The values of a ring, from its head on.
LEMMA RingSeqType ==
  ASSUME NEW n \in Nat, n > 0, NEW h \in 0..(n - 1), NEW k \in 0..n,
         NEW sl \in [0..(n - 1) -> Values]
  PROVE  /\ RingSeq(sl, h, k, n) \in Seq(Values) /\ Len(RingSeq(sl, h, k, n)) = k
         /\ \A i \in 1..k : RingSeq(sl, h, k, n)[i] = sl[(h + (i - 1)) % n]
<1>1. k \in Nat
  OBVIOUS
<1>2. PICK r : r = RingSeq(sl, h, k, n)
  OBVIOUS
<1>3. \A i \in 1..k : (h + i - 1) % n \in 0..(n - 1) /\ (h + i - 1) % n = (h + (i - 1)) % n
  BY RingIndex
<1>4. DOMAIN r = 1..k /\ \A i \in 1..k : r[i] = sl[(h + i - 1) % n]
  BY <1>2 DEF RingSeq
<1>5. r \in [1..k -> Values]
  <2>1. \A i \in 1..k : sl[(h + i - 1) % n] \in Values
    BY <1>3
  <2> QED
    BY <1>2, <2>1 DEF RingSeq
<1>6. r \in Seq(Values) /\ Len(r) = k
  BY <1>1, <1>5
<1> QED
  BY <1>2, <1>3, <1>4, <1>6

\* Storing v behind the last of k values appends it.
LEMMA RingPush ==
  ASSUME NEW n \in Nat, n > 0, NEW h \in 0..(n - 1), NEW k \in 0..(n - 1),
         NEW sl \in [0..(n - 1) -> Values], NEW v \in Values
  PROVE  RingSeq([sl EXCEPT ![(h + k) % n] = v], h, k + 1, n) = Append(RingSeq(sl, h, k, n), v)
<1>1. k \in 0..n /\ k + 1 \in 0..n /\ k \in Nat
  OBVIOUS
<1>2. PICK t \in 0..(n - 1) : t = (h + k) % n
  BY <1>1, RingStep
<1>3. PICK m \in [0..(n - 1) -> Values] : m = [sl EXCEPT ![t] = v]
  OBVIOUS
<1>4. PICK s \in Seq(Values) : s = RingSeq(sl, h, k, n)
  BY <1>1, RingSeqType
<1>5. Len(s) = k /\ \A i \in 1..k : s[i] = sl[(h + (i - 1)) % n]
  BY <1>1, <1>4, RingSeqType
<1>6. PICK r \in Seq(Values) : r = RingSeq(m, h, k + 1, n)
  BY <1>1, RingSeqType
<1>7. Len(r) = k + 1 /\ \A i \in 1..(k + 1) : r[i] = m[(h + (i - 1)) % n]
  BY <1>1, <1>6, RingSeqType
<1>8. PICK a \in Seq(Values) : a = Append(s, v)
  BY AppendProperties
<1>9. Len(a) = k + 1 /\ (\A i \in 1..k : a[i] = s[i]) /\ a[k + 1] = v
  BY <1>5, <1>8, AppendProperties
<1>10. ASSUME NEW i \in 1..(k + 1) PROVE r[i] = a[i]
  <2>1. CASE i = k + 1
    <3>1. i - 1 = k
      BY <2>1
    <3>2. r[i] = m[t]
      BY <1>2, <1>7, <3>1
    <3> QED
      BY <1>3, <1>9, <2>1, <3>2
  <2>2. CASE i # k + 1
    <3>1. i \in 1..k /\ i - 1 \in 0..n /\ i - 1 < k
      BY <2>2
    <3>2. (h + (i - 1)) % n # t /\ (h + (i - 1)) % n \in 0..(n - 1)
      <4>1. (h + (i - 1)) % n = IF h + (i - 1) < n THEN h + (i - 1) ELSE h + (i - 1) - n
        BY <3>1, RingStep
      <4>2. t = IF h + k < n THEN h + k ELSE h + k - n
        BY <1>1, <1>2, RingStep
      <4>3. (h + (i - 1)) % n \in 0..(n - 1)
        BY <3>1, RingStep
      <4>4. PICK u \in Int : u = (h + (i - 1)) % n
        BY <4>3
      <4>5. u # t
        BY <3>1, <4>1, <4>2, <4>4
      <4> QED
        BY <4>3, <4>4, <4>5
    <3>3. m[(h + (i - 1)) % n] = sl[(h + (i - 1)) % n]
      BY <1>3, <3>2
    <3> QED
      BY <1>5, <1>7, <1>9, <3>1, <3>3
  <2> QED
    BY <2>1, <2>2
<1>11. r = a
  BY <1>7, <1>9, <1>10, SeqEqual
<1> QED
  BY <1>2, <1>3, <1>4, <1>6, <1>8, <1>11

\* Advancing the head drops the first value.
LEMMA RingPop ==
  ASSUME NEW n \in Nat, n > 0, NEW h \in 0..(n - 1), NEW k \in 1..n,
         NEW sl \in [0..(n - 1) -> Values]
  PROVE  /\ RingSeq(sl, h, k, n) # <<>> /\ Head(RingSeq(sl, h, k, n)) = sl[h]
         /\ RingSeq(sl, (h + 1) % n, k - 1, n) = Tail(RingSeq(sl, h, k, n))
<1>1. k \in 0..n /\ k - 1 \in 0..n /\ k - 1 \in 0..(n - 1) /\ 1 \in 0..n /\ 0 \in 0..n /\ 1 \in 1..k
  OBVIOUS
<1>2. PICK g \in 0..(n - 1) : g = (h + 1) % n
  BY <1>1, RingStep
<1>3. PICK s \in Seq(Values) : s = RingSeq(sl, h, k, n)
  BY <1>1, RingSeqType
<1>4. Len(s) = k /\ \A i \in 1..k : s[i] = sl[(h + (i - 1)) % n]
  BY <1>1, <1>3, RingSeqType
<1>5. s # <<>>
  BY <1>4
<1>6. Head(s) = sl[h]
  <2>1. (h + 0) % n = h
    BY <1>1, RingStep
  <2>2. s[1] = sl[(h + 0) % n]
    BY <1>1, <1>4
  <2> QED
    BY <1>5, <2>1, <2>2
<1>7. PICK t \in Seq(Values) : /\ t = Tail(s) /\ Len(t) = k - 1
                          /\ \A i \in 1..(k - 1) : t[i] = s[i + 1]
  BY <1>4, <1>5, HeadTailProperties
<1>8. PICK r \in Seq(Values) : r = RingSeq(sl, g, k - 1, n)
  BY <1>1, RingSeqType
<1>9. Len(r) = k - 1 /\ \A i \in 1..(k - 1) : r[i] = sl[(g + (i - 1)) % n]
  BY <1>1, <1>8, RingSeqType
<1>10. ASSUME NEW i \in 1..(k - 1) PROVE r[i] = t[i]
  <2>1. PICK j \in 0..(n - 1) : j = i - 1 /\ i = j + 1
    BY <1>1
  <2>2. (((h + 1) % n) + j) % n = (h + (j + 1)) % n
    BY RingNext
  <2>3. r[i] = sl[(h + (j + 1)) % n]
    BY <1>2, <1>9, <2>1, <2>2
  <2>4. i + 1 \in 1..k /\ (i + 1) - 1 = j + 1
    BY <1>1, <2>1
  <2>5. s[i + 1] = sl[(h + (j + 1)) % n]
    BY <1>4, <2>4
  <2> QED
    BY <1>7, <2>3, <2>5
<1>11. r = t
  BY <1>7, <1>9, <1>10, SeqEqual
<1> QED
  BY <1>2, <1>3, <1>5, <1>6, <1>7, <1>8, <1>11

\* A channel holds as many values as its count says.
LEMMA ContentsType ==
  ASSUME IInv, NEW x \in Chans
  PROVE  Contents(x) \in Seq(Values) /\ Len(Contents(x)) = chan[x].count
<1>1. PICK r : r = chan[x] /\ r \in Fields(x)
  BY DEF IInv, ChanInv, RingOK
<1>2. PICK n \in Nat : n = Size(x) /\ n > 0
  BY SizePositive
<1>3. r.head \in 0..(n - 1) /\ r.count \in 0..n /\ r.slots \in [0..(n - 1) -> Values]
  BY <1>1, <1>2 DEF Fields
<1>4. Contents(x) = RingSeq(r.slots, r.head, r.count, n)
  BY <1>1, <1>2 DEF Contents, RingSeq
<1> QED
  BY <1>1, <1>2, <1>3, <1>4, RingSeqType

\* The contents stay when the ring does.
LEMMA ContentsSame ==
  ASSUME NEW x \in Chans, SameRing(chan'[x], chan[x])
  PROVE  Contents(x)' = Contents(x)
BY DEF Contents, SameRing

\* A push appends the value of the sender.
LEMMA ContentsPush ==
  ASSUME IInv, NEW c \in Callers, NEW x \in Chans, NEW N, NEW T, Pushes(c, x, N, T)
  PROVE  Contents(x)' = Append(Contents(x), Item(c))
<1>1. PICK r : r = chan[x] /\ RingOK(x, r) /\ r \in Fields(x)
  BY DEF IInv, ChanInv, RingOK
<1>2. PICK n \in Nat : n = Size(x) /\ n > 0
  BY SizePositive
<1>3. PICK v \in Values : v = Item(c)
  BY ItemType
<1>4. /\ r.head \in 0..(n - 1) /\ r.count \in 0..(n - 1) /\ r.slots \in [0..(n - 1) -> Values]
      /\ r.tail = (r.head + r.count) % n
  BY <1>1, <1>2 DEF Fields, RingOK, Pushes
<1>5. IsPush(r, v, Pushed(x, r, v))
  BY <1>1, <1>2, <1>4, PushedOK DEF Pushes
<1>6. /\ chan'[x].slots = [r.slots EXCEPT ![r.tail] = v] /\ chan'[x].count = r.count + 1
      /\ chan'[x].head = r.head
  BY <1>1, <1>3, <1>5 DEF Pushes, SameRing, IsPush
<1>7. Contents(x) = RingSeq(r.slots, r.head, r.count, n)
  BY <1>1, <1>2 DEF Contents, RingSeq
<1>8. Contents(x)' = RingSeq([r.slots EXCEPT ![r.tail] = v], r.head, r.count + 1, n)
  BY <1>2, <1>6 DEF Contents, RingSeq
<1>9. PICK sl \in [0..(n - 1) -> Values], h \in 0..(n - 1), k \in 0..(n - 1) :
        sl = r.slots /\ h = r.head /\ k = r.count
  BY <1>4
<1>10. RingSeq([sl EXCEPT ![(h + k) % n] = v], h, k + 1, n) = Append(RingSeq(sl, h, k, n), v)
  BY <1>2, RingPush
<1>11. r.tail = (h + k) % n
  BY <1>4, <1>9
<1>12. Contents(x)' = RingSeq([sl EXCEPT ![(h + k) % n] = v], h, k + 1, n)
  BY <1>8, <1>9, <1>11
<1> QED
  BY <1>3, <1>7, <1>9, <1>10, <1>12

\* A pop hands out the value at the head and drops it.
LEMMA ContentsPop ==
  ASSUME IInv, NEW c \in Callers, NEW x \in Chans, NEW N, NEW T, Pops(c, x, N, T)
  PROVE  /\ Contents(x)' = Tail(Contents(x)) /\ Contents(x) # <<>>
         /\ Head(Contents(x)) = chan[x].slots[chan[x].head]
<1>1. PICK r : r = chan[x] /\ RingOK(x, r) /\ r \in Fields(x)
  BY DEF IInv, ChanInv, RingOK
<1>2. PICK n \in Nat : n = Size(x) /\ n > 0
  BY SizePositive
<1>4. /\ r.head \in 0..(n - 1) /\ r.count \in 1..n /\ r.slots \in [0..(n - 1) -> Values]
  BY <1>1, <1>2 DEF Fields, RingOK, Pops
<1>5. IsPop(x, r, Popped(x, r))
  BY <1>1, <1>2, <1>4, PoppedOK DEF Pops
<1>6. chan'[x].slots = r.slots /\ chan'[x].count = r.count - 1 /\ chan'[x].head = (r.head + 1) % n
  BY <1>1, <1>2, <1>5 DEF Pops, SameRing, IsPop, Wrap
<1>7. Contents(x) = RingSeq(r.slots, r.head, r.count, n)
  BY <1>1, <1>2 DEF Contents, RingSeq
<1>8. Contents(x)' = RingSeq(r.slots, (r.head + 1) % n, r.count - 1, n)
  BY <1>2, <1>6 DEF Contents, RingSeq
<1>9. PICK sl \in [0..(n - 1) -> Values], h \in 0..(n - 1), k \in 1..n :
        sl = r.slots /\ h = r.head /\ k = r.count
  BY <1>4
<1>10. /\ RingSeq(sl, h, k, n) # <<>> /\ Head(RingSeq(sl, h, k, n)) = sl[h]
       /\ RingSeq(sl, (h + 1) % n, k - 1, n) = Tail(RingSeq(sl, h, k, n))
  BY <1>2, RingPop
<1>11. Contents(x)' = RingSeq(sl, (h + 1) % n, k - 1, n)
  BY <1>8, <1>9
<1>12. Contents(x) = RingSeq(sl, h, k, n)
  BY <1>7, <1>9
<1> QED
  BY <1>1, <1>9, <1>10, <1>11, <1>12

-----------------------------------------------------------------------------
\* Rendezvous.

\* The elements of a list with one more at its end.
LEMMA ElemsAppend ==
  ASSUME NEW S, NEW s \in Seq(S), NEW v \in S
  PROVE  \A e : e \in Elems(Append(s, v)) <=> e \in Elems(s) \/ e = v
<1>1. PICK a \in Seq(S) : a = Append(s, v)
  BY AppendProperties
<1>2. Len(a) = Len(s) + 1 /\ (\A i \in 1..Len(s) : a[i] = s[i]) /\ a[Len(s) + 1] = v
  BY <1>1, AppendProperties
<1>3. Len(s) \in Nat /\ DOMAIN s = 1..Len(s) /\ DOMAIN a = 1..(Len(s) + 1)
  BY <1>2
<1>4. ASSUME NEW e \in Elems(a) PROVE e \in Elems(s) \/ e = v
  <2>1. PICK i \in 1..(Len(s) + 1) : e = a[i]
    BY <1>3 DEF Elems
  <2>2. i \in 1..Len(s) \/ i = Len(s) + 1
    BY <1>3
  <2> QED
    BY <1>2, <1>3, <2>1, <2>2 DEF Elems
<1>5. ASSUME NEW e \in Elems(s) PROVE e \in Elems(a)
  <2>1. PICK i \in 1..Len(s) : e = s[i]
    BY <1>3 DEF Elems
  <2>2. i \in DOMAIN a
    BY <1>3
  <2> QED
    BY <1>2, <2>1, <2>2 DEF Elems
<1>6. v \in Elems(a)
  <2>1. Len(s) + 1 \in DOMAIN a
    BY <1>3
  <2> QED
    BY <1>2, <2>1 DEF Elems
<1> QED
  BY <1>1, <1>4, <1>5, <1>6

\* Dropping the head brings nothing in.
LEMMA ElemsTail ==
  ASSUME NEW S, NEW s \in Seq(S), s # <<>>
  PROVE  \A e \in Elems(Tail(s)) : e \in Elems(s)
<1>1. PICK t \in Seq(S) : t = Tail(s) /\ Len(t) = Len(s) - 1 /\ \A i \in 1..Len(t) : t[i] = s[i + 1]
  BY HeadTailProperties
<1>2. Len(s) \in Nat /\ DOMAIN s = 1..Len(s) /\ DOMAIN t = 1..Len(t)
  OBVIOUS
<1>3. ASSUME NEW e \in Elems(t) PROVE e \in Elems(s)
  <2>1. PICK i \in 1..Len(t) : e = t[i]
    BY <1>2 DEF Elems
  <2>2. i + 1 \in DOMAIN s
    BY <1>1, <1>2
  <2> QED
    BY <1>1, <2>1, <2>2 DEF Elems
<1> QED
  BY <1>1, <1>3

\* What a goroutine in rv_waiters, and one taken off it, may rely on.
LEMMA RvNode ==
  ASSUME IInv, NEW x \in Chans, NEW n \in Elems(chan[x].q["rv"])
  PROVE  /\ n = Node(n.g, 0) /\ n.g \in Coros /\ n.g \in Callers /\ at[n.g] = "rv"
         /\ op[n.g].ch = x /\ Unbuffered(x) /\ pc[n.g] \in {"suspended", "parked"}
<1>1. "rv" \in Places
  BY DEF Places
<1>2. n.g \in Coros /\ n.g \in Callers /\ n.case = 0
  BY <1>1, NodeState
<1>3. n = Node(n.g, 0) /\ Plain(n.g) /\ at[n.g] = "rv" /\ op[n.g].ch = x /\ pc[n.g] \in {"suspended", "parked"}
  BY <1>1, <1>2, NodeState
<1> QED
  BY <1>2, <1>3, PlainOp

\* The first half of RendezvousMeansTaken.
RvHolds == \A x \in Chans : \A n \in Elems(chan[x].q["rv"]) :
             Contents(x) = <<Item(n.g)>> /\ ~chan[x].closed

\* The second half, for c.
RvDone(c) ==
  pc[c] = "ready" /\ at[c] = "rv" =>
    \A y \in Chans : op[c].ch = y => Item(c) \notin Elems(Contents(y)) \/ chan[y].closed

\* A step of c leaves the operation and the value of the others alone.
LEMMA SameItem ==
  ASSUME NEW c, NEW N, NEW T, Others(c, N, T), NEW d \in Callers \ {c}
  PROVE  Item(d)' = Item(d) /\ op'[d] = op[d] /\ at'[d] = at[d]
BY DEF Others, Item

\* A node of another goroutine on an rv list was there before.
LEMMA RvOld ==
  ASSUME IInv, IInv', NEW c \in Callers, NEW N, NEW T, Shape(c, N, T), NEW x \in Chans,
         NEW n \in Elems(chan'[x].q["rv"]), n.g # c
  PROVE  /\ n \in Elems(chan[x].q["rv"]) /\ n \notin N /\ Item(n.g)' = Item(n.g)
         /\ n.g \in Callers
<1>1. "rv" \in Places
  BY DEF Places
<1>2. n \in Elems(chan[x].q["rv"]) /\ n \notin N
  BY <1>1 DEF Shape, ListsOK
<1>3. n.g \in Callers
  BY <1>2, RvNode
<1>4. n.g \in Callers \ {c} /\ Others(c, N, T)
  BY <1>3 DEF Shape
<1> QED
  BY <1>2, <1>3, <1>4, SameItem

\* RvNode of every node, as a formula.
RvNodes ==
  \A x \in Chans : \A n \in Elems(chan[x].q["rv"]) :
    /\ n = Node(n.g, 0) /\ n.g \in Coros /\ at[n.g] = "rv"
    /\ op[n.g].ch = x /\ pc[n.g] \in {"suspended", "parked"}

\* The invariant says so.
LEMMA RvNodesNow == IInv => RvNodes
BY RvNode DEF RvNodes

\* The same after a step.
LEMMA RvNodesNext == IInv' => RvNodes'
BY RvNodesNow, PTL

\* Of c itself, what RvNode says after the step.
LEMMA RvOwn ==
  ASSUME IInv', NEW c \in Callers, NEW x \in Chans, NEW n \in Elems(chan'[x].q["rv"]), n.g = c
  PROVE  /\ c \in Coros /\ at'[c] = "rv" /\ op'[c].ch = x
         /\ pc'[c] \in {"suspended", "parked"} /\ n = Node(c, 0)
BY RvNodesNext DEF RvNodes, Elems, Node

\* A goroutine that is ready after a step of c was so before, or is woken.
LEMMA ReadyBefore ==
  ASSUME NEW c, NEW N, NEW T, Others(c, N, T), NEW d \in Callers \ {c}, pc'[d] = "ready"
  PROVE  pc[d] = "ready" \/ \E n \in N : n.g = d
BY DEF Others, GsOf

\* A step that changes no ring.
LEMMA RvCalm ==
  ASSUME IInv, IInv', RvHolds, \A d \in Coros : RvDone(d), NEW c \in Callers, NEW N, NEW T,
         Shape(c, N, T), Calm, pc'[c] \in {"out", "dead"} \/ Stays(c),
         \A n \in N : \E y \in Chans : n \in Elems(chan[y].q["full"])
  PROVE  RvHolds' /\ \A d \in Coros : RvDone(d)'
<1>0. Others(c, N, T)
  BY DEF Shape
<1>1. \A y \in Chans : Contents(y)' = Contents(y) /\ chan'[y].closed = chan[y].closed
  BY ContentsSame DEF Calm, SameRing
<1>2. ASSUME NEW x \in Chans, NEW n \in Elems(chan'[x].q["rv"])
      PROVE  Contents(x)' = <<Item(n.g)'>> /\ ~chan'[x].closed
  <2>1. CASE n.g # c
    BY <1>1, <2>1, RvOld DEF RvHolds
  <2>2. CASE n.g = c
    <3>1. /\ c \in Coros /\ at'[c] = "rv" /\ op'[c].ch = x
          /\ pc'[c] \in {"suspended", "parked"} /\ n = Node(c, 0)
      BY <2>2, RvOwn
    <3>2. Release(c)
      BY <3>1 DEF Stays
    <3>3. chan' = chan /\ spent' = spent
      BY <3>2 DEF Release
    <3>4. n \in Elems(chan[x].q["rv"]) /\ Item(n.g)' = Item(n.g)
      BY <3>3 DEF Item
    <3> QED
      BY <1>1, <3>4 DEF RvHolds
  <2> QED
    BY <2>1, <2>2
<1>3. ASSUME NEW d \in Coros, pc'[d] = "ready", at'[d] = "rv", NEW z \in Chans, op'[d].ch = z
      PROVE  Item(d)' \notin Elems(Contents(z)') \/ chan'[z].closed
  <2>1. d # c
    <3>1. ASSUME d = c PROVE FALSE
      <4>1. Release(c)
        BY <1>3, <3>1 DEF Stays
      <4>2. pc'[c] = "parked"
        BY <4>1 DEF Release, IInv, TypeInv
      <4> QED
        BY <1>3, <3>1, <4>2
    <3> QED
      BY <3>1
  <2>2. d \in Callers \ {c}
    BY <2>1 DEF Callers
  <2>3. Item(d)' = Item(d) /\ op'[d] = op[d] /\ at'[d] = at[d]
    BY <1>0, <2>2, SameItem
  <2>4. pc[d] = "ready"
    <3>1. ASSUME NEW n \in N, n.g = d PROVE FALSE
      <4>1. PICK y \in Chans : n \in Elems(chan[y].q["full"])
        OBVIOUS
      <4>2. at[d] # "rv"
        <5>1. "full" \in Places /\ n.case \in Nat
          BY <4>1, NodeState DEF Places, Nodes
        <5> QED
          BY <3>1, <4>1, <5>1, NodeState
      <4> QED
        BY <1>3, <2>3, <4>2
    <3> QED
      BY <1>0, <1>3, <2>2, <3>1, ReadyBefore
  <2>6. Item(d) \notin Elems(Contents(z)) \/ chan[z].closed
    BY <1>3, <2>3, <2>4 DEF RvDone
  <2> QED
    BY <1>1, <2>3, <2>6
<1>4. RvHolds'
  BY <1>2 DEF RvHolds, Elems, Item
<1>5. \A d \in Coros : RvDone(d)'
  BY <1>3 DEF RvDone, Elems, Item
<1> QED
  BY <1>4, <1>5

\* The operation of a goroutine that is ready after its rendezvous.
LEMMA RvReady ==
  ASSUME IInv, NEW d \in Coros, pc[d] = "ready", at[d] = "rv"
  PROVE  op[d].ch \in Chans /\ Unbuffered(op[d].ch)
<1>1. Control(d)
  BY DEF IInv, Callers
<1>2. Plain(d)
  BY <1>1 DEF Control
<1> QED
  BY <1>2, PlainOp

\* A sender finds the slot of an unbuffered channel free, so nobody else is in
\* its rendezvous, and its own value is the one in the ring.
LEMMA RvPush ==
  ASSUME IInv, IInv', RvHolds, \A d \in Coros : RvDone(d), NEW c \in Callers, NEW N, NEW T,
         Shape(c, N, T), NEW x \in Chans, Pushes(c, x, N, T),
         pc'[c] = "out" \/ Meets(c, x)
  PROVE  RvHolds' /\ \A d \in Coros : RvDone(d)'
<1>0. Others(c, N, T)
  BY DEF Shape
<1>1. /\ \A y \in Chans \ {x} : Contents(y)' = Contents(y) /\ chan'[y].closed = chan[y].closed
      /\ Contents(x)' = Append(Contents(x), Item(c))
      /\ chan[x].count < Size(x) /\ ~chan[x].closed
  BY ContentsSame, ContentsPush DEF Pushes, Untouched, SameRing
<1>2. Contents(x) \in Seq(Values) /\ Len(Contents(x)) = chan[x].count /\ Item(c) \in Values
  BY ContentsType, ItemType
<1>3. ~chan'[x].closed
  <2>1. PICK v \in Values : v = Item(c)
    BY <1>2
  <2>2. RingOK(x, chan[x])
    BY DEF IInv, ChanInv
  <2>3. IsPush(chan[x], v, Pushed(x, chan[x], v))
    BY <1>1, <2>2, PushedOK
  <2> QED
    BY <1>1, <2>1, <2>3 DEF Pushes, SameRing, IsPush
<1>4. Unbuffered(x) => chan[x].count = 0 /\ Contents(x) = <<>>
  <2>1. chan[x].count \in 0..Size(x)
    BY DEF IInv, ChanInv, RingOK, Fields
  <2> QED
    BY <1>1, <1>2, <2>1, SizePositive
<1>5. ASSUME NEW y \in Chans, NEW n \in Elems(chan'[y].q["rv"])
      PROVE  Contents(y)' = <<Item(n.g)'>> /\ ~chan'[y].closed
  <2>1. CASE n.g # c
    <3>1. n \in Elems(chan[y].q["rv"]) /\ Item(n.g)' = Item(n.g)
      BY <2>1, RvOld
    <3>2. Contents(y) = <<Item(n.g)>> /\ ~chan[y].closed
      BY <3>1 DEF RvHolds
    <3>3. y # x
      <4>1. Unbuffered(y)
        BY <3>1, RvNode
      <4>2. Contents(y) # <<>>
        BY <3>2
      <4> QED
        BY <1>4, <4>1, <4>2
    <3> QED
      BY <1>1, <3>1, <3>2, <3>3
  <2>2. CASE n.g = c
    <3>1. /\ c \in Coros /\ at'[c] = "rv" /\ op'[c].ch = y
          /\ pc'[c] \in {"suspended", "parked"}
      BY <2>2, RvOwn
    <3>2. Unbuffered(x) /\ op'[c] = Send(x) /\ spent'[c] = spent[c]
      BY <3>1 DEF Meets
    <3>3. y = x
      BY <3>1, <3>2 DEF Send
    <3>4. Item(c)' = Item(c)
      BY <3>2 DEF Item
    <3>5. Append(<<>>, Item(c)) = <<Item(c)>>
      OBVIOUS
    <3> QED
      BY <1>1, <1>3, <1>4, <2>2, <3>2, <3>3, <3>4, <3>5
  <2> QED
    BY <2>1, <2>2
<1>6. ASSUME NEW d \in Coros, pc'[d] = "ready", at'[d] = "rv", NEW z \in Chans, op'[d].ch = z
      PROVE  Item(d)' \notin Elems(Contents(z)') \/ chan'[z].closed
  <2>1. d # c
    BY <1>6 DEF Meets
  <2>2. d \in Callers \ {c}
    BY <2>1 DEF Callers
  <2>3. Item(d)' = Item(d) /\ op'[d] = op[d] /\ at'[d] = at[d]
    BY <1>0, <2>2, SameItem
  <2>4. pc[d] = "ready"
    <3>1. ASSUME NEW n \in N, n.g = d PROVE FALSE
      <4>1. n \in Elems(chan[x].q["empty"])
        BY DEF Pushes
      <4>2. at[d] # "rv"
        <5>1. "empty" \in Places /\ n.case \in Nat
          BY <4>1, NodeState DEF Places, Nodes
        <5> QED
          BY <3>1, <4>1, <5>1, NodeState
      <4> QED
        BY <1>6, <2>3, <4>2
    <3> QED
      BY <1>0, <1>6, <2>2, <3>1, ReadyBefore
  <2>6. Item(d) \notin Elems(Contents(z)) \/ chan[z].closed
    BY <1>6, <2>3, <2>4 DEF RvDone
  <2>7. CASE z # x
    BY <1>1, <2>3, <2>6, <2>7
  <2>8. CASE z = x
    <3>1. Item(d) # Item(c)
      BY <2>1 DEF Item
    <3>2. Item(d) \notin Elems(Contents(x))
      BY <1>1, <2>6, <2>8
    <3>3. \A e : e \in Elems(Append(Contents(x), Item(c))) <=> e \in Elems(Contents(x)) \/ e = Item(c)
      BY <1>2, ElemsAppend
    <3>4. Item(d) \notin Elems(Contents(x)')
      BY <1>1, <3>1, <3>2, <3>3
    <3> QED
      BY <2>3, <2>8, <3>4
  <2> QED
    BY <2>7, <2>8
<1>7. RvHolds'
  BY <1>5 DEF RvHolds, Elems, Item
<1>8. \A d \in Coros : RvDone(d)'
  BY <1>6 DEF RvDone, Elems, Item
<1> QED
  BY <1>7, <1>8

\* The receiver that takes the value drains rv_waiters in the same section.
LEMMA RvPop ==
  ASSUME IInv, IInv', RvHolds, \A d \in Coros : RvDone(d), NEW c \in Callers, NEW N, NEW T,
         Shape(c, N, T), NEW x \in Chans, Pops(c, x, N, T), pc'[c] = "out"
  PROVE  RvHolds' /\ \A d \in Coros : RvDone(d)'
<1>0. Others(c, N, T)
  BY DEF Shape
<1>1. /\ \A y \in Chans \ {x} : Contents(y)' = Contents(y) /\ chan'[y].closed = chan[y].closed
      /\ Contents(x)' = Tail(Contents(x)) /\ Contents(x) # <<>>
  BY ContentsSame, ContentsPop DEF Pops, Untouched, SameRing
<1>2. Contents(x) \in Seq(Values)
  BY ContentsType
<1>3. chan'[x].closed = chan[x].closed
  <2>1. RingOK(x, chan[x]) /\ chan[x].count > 0
    BY DEF Pops, IInv, ChanInv
  <2>2. IsPop(x, chan[x], Popped(x, chan[x]))
    BY <2>1, PoppedOK
  <2> QED
    BY <2>2 DEF Pops, SameRing, IsPop
<1>5. ASSUME NEW y \in Chans, NEW n \in Elems(chan'[y].q["rv"])
      PROVE  Contents(y)' = <<Item(n.g)'>> /\ ~chan'[y].closed
  <2>1. n.g # c
    BY RvOwn
  <2>2. n \in Elems(chan[y].q["rv"]) /\ n \notin N /\ Item(n.g)' = Item(n.g)
    BY <2>1, RvOld
  <2>3. Contents(y) = <<Item(n.g)>> /\ ~chan[y].closed
    BY <2>2 DEF RvHolds
  <2>4. y # x
    <3>1. ASSUME y = x PROVE FALSE
      <4>1. PICK m \in N : m \in Elems(chan[x].q["rv"])
        BY <2>2, <3>1 DEF Pops
      <4>2. Contents(x) = <<Item(m.g)>>
        BY <4>1 DEF RvHolds
      <4>3. Item(m.g) = Item(n.g)
        BY <2>3, <3>1, <4>2
      <4>4. m.g = n.g
        BY <4>3 DEF Item
      <4>5. m = n
        BY <2>2, <3>1, <4>1, <4>4, RvNode
      <4> QED
        BY <2>2, <4>5
    <3> QED
      BY <3>1
  <2> QED
    BY <1>1, <2>2, <2>3, <2>4
<1>6. ASSUME NEW d \in Coros, pc'[d] = "ready", at'[d] = "rv", NEW z \in Chans, op'[d].ch = z
      PROVE  Item(d)' \notin Elems(Contents(z)') \/ chan'[z].closed
  <2>1. d # c
    BY <1>6
  <2>2. d \in Callers \ {c}
    BY <2>1 DEF Callers
  <2>3. Item(d)' = Item(d) /\ op'[d] = op[d] /\ at'[d] = at[d]
    BY <1>0, <2>2, SameItem
  <2>4. CASE pc[d] = "ready"
    <3>2. Item(d) \notin Elems(Contents(z)) \/ chan[z].closed
      BY <1>6, <2>3, <2>4 DEF RvDone
    <3>3. CASE z # x
      BY <1>1, <2>3, <3>2, <3>3
    <3>4. CASE z = x
      <4>1. \A e \in Elems(Tail(Contents(x))) : e \in Elems(Contents(x))
        BY <1>1, <1>2, ElemsTail
      <4> QED
        BY <1>1, <1>3, <2>3, <3>2, <3>4, <4>1
    <3> QED
      BY <3>3, <3>4
  <2>5. CASE pc[d] # "ready"
    <3>1. PICK n \in N : n.g = d
      BY <1>0, <1>6, <2>2, <2>5, ReadyBefore
    <3>2. PICK w \in Places : n \in Elems(chan[x].q[w])
      BY DEF Pops
    <3>3. n \in Elems(chan[x].q["rv"]) /\ op[d].ch = x
      <4>1. at[d] = "rv" /\ n.case \in Nat
        BY <1>6, <2>3, <3>2, NodeState DEF Nodes
      <4>2. n.case = 0 /\ w = "rv" /\ op[d].ch = x
        BY <3>1, <3>2, <4>1, NodeState
      <4> QED
        BY <3>2, <4>2
    <3>4. Contents(x) = <<Item(d)>>
      BY <3>1, <3>3 DEF RvHolds
    <3>5. Tail(<<Item(d)>>) = <<>>
      OBVIOUS
    <3>6. Elems(<<>>) = {}
      BY DEF Elems
    <3>7. Elems(Contents(x)') = {}
      BY <1>1, <3>4, <3>5, <3>6
    <3> QED
      BY <1>6, <2>3, <3>3, <3>7
  <2> QED
    BY <2>4, <2>5
<1>7. RvHolds'
  BY <1>5 DEF RvHolds, Elems, Item
<1>8. \A d \in Coros : RvDone(d)'
  BY <1>6 DEF RvDone, Elems, Item
<1> QED
  BY <1>7, <1>8

\* A close empties rv_waiters, and those it wakes find the channel closed.
LEMMA RvClose ==
  ASSUME IInv, IInv', RvHolds, \A d \in Coros : RvDone(d), NEW c \in Callers, NEW N, NEW T,
         Shape(c, N, T), NEW x \in Chans, Closes(c, x, N, T), pc'[c] = "out"
  PROVE  RvHolds' /\ \A d \in Coros : RvDone(d)'
<1>0. Others(c, N, T)
  BY DEF Shape
<1>1. /\ \A y \in Chans \ {x} : Contents(y)' = Contents(y) /\ chan'[y].closed = chan[y].closed
      /\ chan'[x].closed
  BY ContentsSame DEF Closes, Untouched, SameRing
<1>2. "rv" \in Places
  BY DEF Places
<1>5. ASSUME NEW y \in Chans, NEW n \in Elems(chan'[y].q["rv"])
      PROVE  Contents(y)' = <<Item(n.g)'>> /\ ~chan'[y].closed
  <2>1. n.g # c
    BY RvOwn
  <2>2. n \in Elems(chan[y].q["rv"]) /\ Item(n.g)' = Item(n.g)
    BY <2>1, RvOld
  <2>3. y # x
    <3>1. chan'[x].q["rv"] = <<>>
      BY <1>2 DEF Closes
    <3>2. Elems(<<>>) = {}
      BY DEF Elems
    <3> QED
      BY <3>1, <3>2
  <2> QED
    BY <1>1, <2>2, <2>3 DEF RvHolds
<1>6. ASSUME NEW d \in Coros, pc'[d] = "ready", at'[d] = "rv", NEW z \in Chans, op'[d].ch = z
      PROVE  Item(d)' \notin Elems(Contents(z)') \/ chan'[z].closed
  <2>1. d # c
    BY <1>6
  <2>2. d \in Callers \ {c}
    BY <2>1 DEF Callers
  <2>3. Item(d)' = Item(d) /\ op'[d] = op[d] /\ at'[d] = at[d]
    BY <1>0, <2>2, SameItem
  <2>4. CASE pc[d] = "ready"
    <3>2. Item(d) \notin Elems(Contents(z)) \/ chan[z].closed
      BY <1>6, <2>3, <2>4 DEF RvDone
    <3> QED
      BY <1>1, <2>3, <3>2
  <2>5. CASE pc[d] # "ready"
    <3>1. PICK n \in N : n.g = d
      BY <1>0, <1>6, <2>2, <2>5, ReadyBefore
    <3>2. PICK w \in Places : n \in Elems(chan[x].q[w])
      BY DEF Closes
    <3>3. op[d].ch = x
      <4>1. at[d] = "rv" /\ n.case \in Nat
        BY <1>6, <2>3, <3>2, NodeState DEF Nodes
      <4> QED
        BY <3>1, <3>2, <4>1, NodeState
    <3> QED
      BY <1>1, <1>6, <2>3, <3>3
  <2> QED
    BY <2>4, <2>5
<1>7. RvHolds'
  BY <1>5 DEF RvHolds, Elems, Item
<1>8. \A d \in Coros : RvDone(d)'
  BY <1>6 DEF RvDone, Elems, Item
<1> QED
  BY <1>7, <1>8

\* A goroutine in rv_waiters is the sender of the one buffered value, and one
\* taken off the list has had its value received or finds the channel closed:
\* send.rv.resume may return without a second look at the channel.
THEOREM RendezvousIsTaken == Spec => []RendezvousMeansTaken
<1> DEFINE R == RvHolds /\ \A d \in Coros : RvDone(d)
<1>1. ASSUME Init PROVE R
  <2>1. \A x \in Chans : Elems(chan[x].q["rv"]) = {}
    <3>1. \A x \in Chans : chan[x].q["rv"] = <<>>
      BY <1>1 DEF Init, Places
    <3> QED
      BY <3>1 DEF Elems
  <2>2. \A d \in Coros : pc[d] # "ready"
    BY <1>1 DEF Init, Callers
  <2> QED
    BY <2>1, <2>2 DEF RvHolds, RvDone
<1>2. ASSUME IInv, IInv', R, Next PROVE R'
  <2>1. PICK c \in Callers : \E N, T : Step(c, N, T)
    BY <1>2, EveryStep
  <2>2. PICK N, T : Shape(c, N, T) /\ Kind(c, N, T)
    BY <2>1 DEF Step
  <2>3. CASE Calm /\ N = {} /\ (Stays(c) \/ pc'[c] \in {"out", "dead"})
    <3>1. \A n \in N : \E y \in Chans : n \in Elems(chan[y].q["full"])
      BY <2>3
    <3> QED
      BY <1>2, <2>2, <2>3, <3>1, RvCalm
  <2>4. ASSUME NEW x \in Chans, Exits(c, x, N, T) PROVE R'
    <3>1. Calm /\ pc'[c] = "out" /\ \A n \in N : \E y \in Chans : n \in Elems(chan[y].q["full"])
      BY <2>4 DEF Exits
    <3> QED
      BY <1>2, <2>2, <3>1, RvCalm
  <2>5. ASSUME NEW x \in Chans, Pushes(c, x, N, T), pc'[c] = "out" \/ Meets(c, x) PROVE R'
    BY <1>2, <2>2, <2>5, RvPush
  <2>6. ASSUME NEW x \in Chans, Pops(c, x, N, T), pc'[c] = "out" PROVE R'
    BY <1>2, <2>2, <2>6, RvPop
  <2>7. ASSUME NEW x \in Chans, Closes(c, x, N, T), pc'[c] = "out" PROVE R'
    BY <1>2, <2>2, <2>7, RvClose
  <2>8. (\E x \in Chans : Fails(c, x)) => pc'[c] \in {"out", "dead"} /\ Calm
    BY DEF Fails
  <2> QED
    BY <2>2, <2>3, <2>4, <2>5, <2>6, <2>7, <2>8 DEF Kind
<1>3. ASSUME R, UNCHANGED vars PROVE R'
  <2>1. /\ UNCHANGED chan /\ UNCHANGED pc /\ UNCHANGED op /\ UNCHANGED at /\ UNCHANGED spent
    BY <1>3 DEF vars
  <2>2. \A x \in Chans : Contents(x)' = Contents(x)
    BY <2>1 DEF Contents
  <2>3. RvHolds'
    BY <1>3, <2>1, <2>2 DEF RvHolds, Elems, Item
  <2>4. \A d \in Coros : RvDone(d)'
    BY <1>3, <2>1, <2>2 DEF RvDone, Elems, Item
  <2> QED
    BY <2>3, <2>4
<1>4. IInv /\ R => RendezvousMeansTaken
  BY RvReady DEF RvHolds, RvDone, RendezvousMeansTaken
<1> HIDE DEF R
<1>5. IInv /\ IInv' /\ R /\ [Next]_vars => R'
  BY <1>2, <1>3
<1> QED
  BY <1>1, <1>4, <1>5, ChannelInvariant, PTL DEF Spec

-----------------------------------------------------------------------------
\* Refinement of the FIFO channels.

\* The closed channels.
ClosedOnes == {x \in Chans : chan[x].closed}

\* A step that changes no ring changes no queue.
LEMMA AbsCalm ==
  ASSUME Calm
  PROVE  [x \in Chans |-> Contents(x)]' = [x \in Chans |-> Contents(x)] /\ ClosedOnes' = ClosedOnes
<1>1. \A x \in Chans : Contents(x)' = Contents(x)
  BY ContentsSame DEF Calm
<1>2. \A x \in Chans : chan'[x].closed = chan[x].closed
  BY DEF Calm, SameRing
<1> QED
  BY <1>1, <1>2 DEF ClosedOnes

\* A step that changes one ring changes one FIFO channel.
LEMMA AbsUntouched ==
  ASSUME NEW x \in Chans, Untouched(x), NEW q, Contents(x)' = q
  PROVE  /\ [y \in Chans |-> Contents(y)]' = [[y \in Chans |-> Contents(y)] EXCEPT ![x] = q]
         /\ chan'[x].closed = chan[x].closed => ClosedOnes' = ClosedOnes
<1>1. \A y \in Chans \ {x} : Contents(y)' = Contents(y)
  BY ContentsSame DEF Untouched
<1>2. \A y \in Chans \ {x} : chan'[y].closed = chan[y].closed
  BY DEF Untouched, SameRing
<1> QED
  BY <1>1, <1>2 DEF ClosedOnes

\* For each caller, the channel in which it is in its rendezvous.
InRendezvous == [c \in Callers |-> {x \in Chans : at[c] = "rv" /\ op[c].ch = x}]

\* The operations a caller has finished are those of the FIFO channels.
LEMMA AbsTurn ==
  ASSUME IInv, IInv', NEW c \in Callers, NEW N, NEW T, Others(c, N, T)
  PROVE  /\ spent'[c] = spent[c] => spent' = spent
         /\ spent'[c] = spent[c] + 1 => spent' = [spent EXCEPT ![c] = @ + 1]
<1>1. \A d \in Callers \ {c} : spent'[d] = spent[d]
  BY DEF Others
<1>2. spent \in [Callers -> 0..MaxOps] /\ spent' \in [Callers -> 0..MaxOps]
  BY DEF IInv, TypeInv
<1> QED
  BY <1>1, <1>2

\* Only a sender that begins or ends its rendezvous changes who waits for a
\* receiver of its value.
LEMMA AbsPending ==
  ASSUME NEW c \in Callers, NEW N, NEW T, Others(c, N, T)
  PROVE  /\ Rests(c) \/ Done(c) => InRendezvous' = InRendezvous
         /\ at[c] # "rv" => InRendezvous[c] = {}
         /\ at'[c] # "rv" => InRendezvous' = [InRendezvous EXCEPT ![c] = {}]
         /\ \A x \in Chans : Meets(c, x) => InRendezvous' = [InRendezvous EXCEPT ![c] = {x}]
<1>1. \A d \in Callers \ {c} : InRendezvous'[d] = InRendezvous[d]
  BY DEF Others, InRendezvous
<1>2. Rests(c) \/ Done(c) => InRendezvous'[c] = InRendezvous[c]
  BY DEF Rests, Done, InRendezvous
<1>3. at[c] # "rv" => InRendezvous[c] = {}
  BY DEF InRendezvous
<1>4. at'[c] # "rv" => InRendezvous'[c] = {}
  BY DEF InRendezvous
<1>5. \A x \in Chans : Meets(c, x) => InRendezvous'[c] = {x}
  <2>1. \A x : Send(x).ch = x
    BY DEF Send
  <2> QED
    BY <2>1 DEF InRendezvous, Meets
<1>6. /\ InRendezvous = [d \in Callers |-> InRendezvous[d]]
      /\ InRendezvous' = [d \in Callers |-> InRendezvous'[d]]
  BY DEF InRendezvous
<1> QED
  BY <1>1, <1>2, <1>3, <1>4, <1>5, <1>6

\* Every step of a caller is a step of the FIFO channels, or stutters.
LEMMA RefinesStep ==
  ASSUME IInv, IInv', RendezvousMeansTaken, NEW c \in Callers, NEW N, NEW T,
         Others(c, N, T), Kind(c, N, T)
  PROVE  [Abs!Next]_(Abs!vars)
<1> DEFINE Q == [x \in Chans |-> Contents(x)]
<1> DEFINE P == [d \in Callers |-> {x \in Chans : at[d] = "rv" /\ op[d].ch = x}]
<1>0. /\ spent'[c] = spent[c] => spent' = spent
      /\ spent'[c] = spent[c] + 1 => spent' = [spent EXCEPT ![c] = @ + 1]
  BY AbsTurn
<1>a. /\ Rests(c) \/ Done(c) => P' = P
      /\ at[c] # "rv" => P[c] = {}
      /\ at'[c] # "rv" => P' = [P EXCEPT ![c] = {}]
      /\ \A x \in Chans : Meets(c, x) => P' = [P EXCEPT ![c] = {x}]
  BY AbsPending DEF InRendezvous
<1>b. ASSUME NEW r, Done(c), result' = [result EXCEPT ![c] = r]
      PROVE  Abs!AtOnce(c, r)
  <2>1. P[c] = {} /\ P' = P /\ spent' = [spent EXCEPT ![c] = @ + 1]
    BY <1>0, <1>a, <1>b DEF Done
  <2> QED
    BY <1>b, <2>1 DEF Abs!AtOnce, Abs!Returns
<1>1. CASE Calm /\ result' = result /\ Rests(c)
  <2>1. spent' = spent /\ P' = P
    BY <1>0, <1>1, <1>a DEF Rests
  <2> QED
    BY <1>1, <2>1, AbsCalm DEF Abs!vars, ClosedOnes
<1>2. ASSUME NEW x \in Chans, Fails(c, x), Done(c)
      PROVE  Abs!Drained(c, x) \/ Abs!Refused(c, x) \/ Abs!Idle(c, x)
  <2>1. Q' = Q /\ ClosedOnes' = ClosedOnes
    BY <1>2, AbsCalm DEF Fails
  <2>2. CASE /\ result' = [result EXCEPT ![c] = <<"none", x>>]
             /\ chan[x].count = 0 /\ (chan[x].closed \/ pc[c] = "relocking")
    <3>1. Contents(x) = <<>>
      BY <2>2, ContentsType
    <3> QED
      BY <1>2, <1>b, <2>1, <2>2, <3>1 DEF Abs!Drained, ClosedOnes
  <2>3. CASE result' = [result EXCEPT ![c] = <<"panic", x>>] /\ chan[x].closed
    BY <1>2, <1>b, <2>1, <2>3 DEF Abs!Refused, ClosedOnes
  <2>4. CASE result' = [result EXCEPT ![c] = <<"default", x>>]
    BY <1>2, <1>b, <2>1, <2>4 DEF Abs!Idle, ClosedOnes
  <2> QED
    BY <1>2, <2>2, <2>3, <2>4 DEF Fails
<1>3. ASSUME NEW x \in Chans, Exits(c, x, N, T), Leaves(c, x)
      PROVE  Abs!PutReturns(c, x)
  <2>1. Q' = Q /\ ClosedOnes' = ClosedOnes
    BY <1>3, AbsCalm DEF Exits
  <2>2. x \in P[c] /\ P' = [P EXCEPT ![c] = {}] /\ spent' = [spent EXCEPT ![c] = @ + 1]
    BY <1>0, <1>3, <1>a DEF Leaves
  <2>3. x \in ClosedOnes \/ \A i \in DOMAIN Contents(x) : Contents(x)[i] # <<c, spent[c]>>
    <3>1. CASE chan[x].closed
      BY <3>1 DEF ClosedOnes
    <3>2. CASE chan[x].count = 0
      <4>1. Contents(x) = <<>>
        BY <3>2, ContentsType
      <4> QED
        BY <4>1
    <3>3. CASE pc[c] = "ready" /\ ~chan[x].closed
      <4>1. c \in Coros
        BY <3>3 DEF IInv, Control
      <4>2. Item(c) \notin Elems(Contents(x))
        BY <1>3, <3>3, <4>1 DEF RendezvousMeansTaken, Leaves
      <4> QED
        BY <4>2 DEF Item, Elems
    <3> QED
      BY <1>3, <3>1, <3>2, <3>3 DEF Leaves
  <2>4. result' = [result EXCEPT ![c] = <<"sent", x>>]
    BY <1>3 DEF Exits
  <2>5. x \in ClosedOnes \/ \A i \in DOMAIN Q[x] : Q[x][i] # <<c, spent[c]>>
    BY <2>3
  <2> QED
    BY <2>1, <2>2, <2>4, <2>5 DEF Abs!PutReturns, Abs!Returns, Abs!Value, ClosedOnes
<1>4. ASSUME NEW x \in Chans, Pushes(c, x, N, T),
             \/ /\ Done(c) /\ NeedNotMeet(c, x)
                /\ result' = [result EXCEPT ![c] = <<"sent", x>>]
             \/ Meets(c, x) /\ result' = result
      PROVE  Abs!Put(c, x)
  <2>1. PICK v \in Values : v = Item(c) /\ v = <<c, spent[c]>>
    BY ItemType DEF Item
  <2>2. Contents(x)' = Append(Contents(x), v) /\ Untouched(x)
    BY <1>4, <2>1, ContentsPush DEF Pushes
  <2>3. chan'[x].closed = chan[x].closed /\ ~chan[x].closed /\ chan[x].count < Size(x)
    <3>1. RingOK(x, chan[x]) /\ chan[x].count < Size(x) /\ ~chan[x].closed
      BY <1>4 DEF Pushes, IInv, ChanInv
    <3>2. IsPush(chan[x], v, Pushed(x, chan[x], v))
      BY <3>1, PushedOK
    <3> QED
      BY <1>4, <2>1, <3>1, <3>2 DEF Pushes, SameRing, IsPush
  <2>4. Q' = [Q EXCEPT ![x] = Append(Contents(x), v)] /\ ClosedOnes' = ClosedOnes
    BY <2>2, <2>3, AbsUntouched
  <2>5. Len(Contents(x)) < Size(x)
    BY <2>3, ContentsType
  <2>6. Q' = [Q EXCEPT ![x] = Append(Q[x], v)] /\ Len(Q[x]) < [y \in Chans |-> Size(y)][x]
    BY <2>4, <2>5
  <2>7. x \notin ClosedOnes
    BY <2>3 DEF ClosedOnes
  <2>8. \/ NeedNotMeet(c, x) /\ Abs!AtOnce(c, <<"sent", x>>)
        \/ /\ Unbuffered(x) /\ P[c] = {} /\ P' = [P EXCEPT ![c] = {x}]
           /\ result' = result /\ spent' = spent
    <3>1. CASE /\ Done(c) /\ NeedNotMeet(c, x)
               /\ result' = [result EXCEPT ![c] = <<"sent", x>>]
      BY <1>b, <3>1
    <3>2. CASE Meets(c, x) /\ result' = result
      BY <1>0, <1>a, <3>2 DEF Meets
    <3> QED
      BY <1>4, <3>1, <3>2
  <2> QED
    BY <2>1, <2>4, <2>6, <2>7, <2>8 DEF Abs!Put, Abs!Value, ClosedOnes, NeedNotMeet
<1>5. ASSUME NEW x \in Chans, Pops(c, x, N, T), Done(c)
      PROVE  Abs!Take(c, x)
  <2>1. /\ Contents(x)' = Tail(Contents(x)) /\ Contents(x) # <<>> /\ Untouched(x)
        /\ Head(Contents(x)) = chan[x].slots[chan[x].head]
    BY <1>5, ContentsPop DEF Pops
  <2>2. chan'[x].closed = chan[x].closed
    <3>1. RingOK(x, chan[x]) /\ chan[x].count > 0
      BY <1>5 DEF Pops, IInv, ChanInv
    <3>2. IsPop(x, chan[x], Popped(x, chan[x]))
      BY <3>1, PoppedOK
    <3> QED
      BY <1>5, <3>2 DEF Pops, SameRing, IsPop
  <2>3. Q' = [Q EXCEPT ![x] = Tail(Contents(x))] /\ ClosedOnes' = ClosedOnes
    BY <2>1, <2>2, AbsUntouched
  <2>4. Q' = [Q EXCEPT ![x] = Tail(Q[x])] /\ Q[x] # <<>>
    BY <2>1, <2>3
  <2>5. result' = [result EXCEPT ![c] = <<"got", x, Head(Q[x])>>]
    BY <1>5, <2>1 DEF Pops
  <2> QED
    BY <1>5, <1>b, <2>3, <2>4, <2>5 DEF Abs!Take, ClosedOnes
<1>6. ASSUME NEW x \in Chans, Closes(c, x, N, T), Done(c)
      PROVE  Abs!Close(c, x)
  <2>1. Contents(x)' = Contents(x)
    BY <1>6 DEF Closes, Contents
  <2>2. Q' = Q
    <3>1. \A y \in Chans \ {x} : Contents(y)' = Contents(y)
      BY <1>6, ContentsSame DEF Closes, Untouched
    <3> QED
      BY <2>1, <3>1
  <2>3. ClosedOnes' = ClosedOnes \cup {x} /\ x \notin ClosedOnes
    <3>1. \A y \in Chans \ {x} : chan'[y].closed = chan[y].closed
      BY <1>6 DEF Closes, Untouched, SameRing
    <3>2. ~chan[x].closed /\ chan'[x].closed
      BY <1>6 DEF Closes
    <3> QED
      BY <3>1, <3>2 DEF ClosedOnes
  <2>4. result' = [result EXCEPT ![c] = <<"closed", x>>]
    BY <1>6 DEF Closes
  <2> QED
    BY <1>6, <1>b, <2>2, <2>3, <2>4 DEF Abs!Close, ClosedOnes
<1> QED
  BY <1>1, <1>2, <1>3, <1>4, <1>5, <1>6 DEF Kind, Abs!Next

\* New channels are empty and open.
LEMMA RefinesInit ==
  ASSUME Init
  PROVE  Abs!Init
<1>1. \A x \in Chans : Contents(x) = <<>>
  <2>1. IInv
    BY InitInv
  <2>2. \A x \in Chans : chan[x].count = 0
    BY DEF Init
  <2> QED
    BY <2>1, <2>2, ContentsType
<1>2. \A x \in Chans : ~chan[x].closed
  BY DEF Init
<1>3. result \in [Callers -> {<<>>}]
  BY DEF Init
<1>4. spent \in [Callers -> Nat] /\ \A c \in Callers : at[c] # "rv"
  BY ChannelAssumption DEF Init
<1> QED
  BY <1>1, <1>2, <1>3, <1>4 DEF Abs!Init

\* Ring buffer, waiter lists, rendezvous and selects implement FIFO channels of
\* bounded capacity: a send that returns has put its value in exactly once, on
\* an unbuffered channel, a select apart, after a receiver took it or the
\* channel closed; values are received once, in the order they were put, none
\* is accepted after the close, and the values left at the close are delivered.
THEOREM ChannelRefinesFifo == Spec => ImplementsFifoChannel
<1>1. Init => Abs!Init
  BY RefinesInit
<1>2. IInv /\ IInv' /\ RendezvousMeansTaken /\ [Next]_vars => [Abs!Next]_(Abs!vars)
  <2>1. ASSUME IInv, IInv', RendezvousMeansTaken, Next PROVE [Abs!Next]_(Abs!vars)
    <3>1. PICK c \in Callers : \E N, T : Step(c, N, T)
      BY <2>1, EveryStep
    <3>2. PICK N, T : Others(c, N, T) /\ Kind(c, N, T)
      BY <3>1 DEF Step, Shape
    <3> QED
      BY <2>1, <3>2, RefinesStep
  <2>2. ASSUME UNCHANGED vars PROVE UNCHANGED Abs!vars
    BY <2>2 DEF vars, Abs!vars, Contents
  <2> QED
    BY <2>1, <2>2
<1> QED
  BY <1>1, <1>2, ChannelInvariant, RendezvousIsTaken, PTL DEF Spec, ImplementsFifoChannel, Abs!Spec

-----------------------------------------------------------------------------
\* Wakeups.

\* The callers on their way to w in x.
Comers(x, w) == {c \in Callers : Comes(c, x, w)}

\* For what there is of w in x enough callers are on their way, as long as
\* others sleep.
Stocked(x, w) == Asleep(x, w) # {} => Need(x, w) <= Cardinality(Comers(x, w))

\* What there is to take is a number.
LEMMA NeedNat ==
  ASSUME IInv
  PROVE  \A x \in Chans, w \in Sides : Need(x, w) \in Nat
<1> SUFFICES ASSUME NEW x \in Chans, NEW w \in Sides PROVE Need(x, w) \in Nat
  OBVIOUS
<1>1. chan[x].count \in 0..Size(x) /\ Size(x) \in Nat
  BY SizePositive DEF IInv, ChanInv, RingOK, Fields
<1> QED
  BY <1>1 DEF Need

\* The invariant says so.
LEMMA NeedNatNow == IInv => \A x \in Chans, w \in Sides : Need(x, w) \in Nat
BY NeedNat

\* The same after a step.
LEMMA NeedNatNext == IInv' => (\A x \in Chans, w \in Sides : Need(x, w) \in Nat)'
BY NeedNatNow, PTL

\* Somebody of D is new to C.
Joins(C, D) == \E d \in D : d \notin C

\* How many are on their way when c leaves, or somebody joins.
LEMMA Balance ==
  ASSUME NEW C \in SUBSET Callers, NEW D \in SUBSET Callers, NEW n \in Nat, NEW m \in Nat,
         NEW c, n <= Cardinality(C)
  PROVE  /\ m <= n /\ C \subseteq D => m <= Cardinality(D)
         /\ m = n - 1 /\ C \ {c} \subseteq D => m <= Cardinality(D)
         /\ m <= n + 1 /\ C \subseteq D /\ Joins(C, D) => m <= Cardinality(D)
         /\ m <= n /\ C \ {c} \subseteq D /\ Joins(C, D) => m <= Cardinality(D)
<1>1. IsFiniteSet(C) /\ IsFiniteSet(D)
  BY FS_Subset, ChannelAssumption
<1>2. PICK k \in Nat, l \in Nat : k = Cardinality(C) /\ l = Cardinality(D)
  BY <1>1, FS_CardinalityType
<1>3. C \subseteq D => k <= l
  BY <1>1, <1>2, FS_Subset
<1>4. IsFiniteSet(C \ {c}) /\ Cardinality(C \ {c}) \in {k, k - 1}
  BY <1>1, <1>2, FS_RemoveElement
<1>5. C \ {c} \subseteq D => k - 1 <= l
  <2>1. C \ {c} \subseteq D => Cardinality(C \ {c}) <= l
    BY <1>1, <1>2, <1>4, FS_Subset
  <2> QED
    BY <1>4, <2>1
<1>6. ASSUME NEW d \in D, d \notin C
      PROVE  (C \subseteq D => k + 1 <= l) /\ (C \ {c} \subseteq D => k <= l)
  <2>1. IsFiniteSet(D \ {d}) /\ Cardinality(D \ {d}) = l - 1
    BY <1>1, <1>2, FS_RemoveElement
  <2>2. C \subseteq D => k <= l - 1
    <3>1. C \subseteq D => C \subseteq D \ {d}
      BY <1>6
    <3> QED
      BY <1>1, <1>2, <2>1, <3>1, FS_Subset
  <2>3. C \ {c} \subseteq D => k - 1 <= l - 1
    <3>1. C \ {c} \subseteq D => C \ {c} \subseteq D \ {d}
      BY <1>6
    <3>2. C \ {c} \subseteq D => Cardinality(C \ {c}) <= l - 1
      BY <1>4, <2>1, <3>1, FS_Subset
    <3> QED
      BY <1>4, <3>2
  <2> QED
    BY <2>2, <2>3
<1>7. n <= k
  BY <1>2
<1>8. /\ Joins(C, D) /\ C \subseteq D => k + 1 <= l
      /\ Joins(C, D) /\ C \ {c} \subseteq D => k <= l
  BY <1>6 DEF Joins
<1>9. /\ m <= n /\ C \subseteq D => m <= l
      /\ m = n - 1 /\ C \ {c} \subseteq D => m <= l
      /\ m <= n + 1 /\ C \subseteq D /\ Joins(C, D) => m <= l
      /\ m <= n /\ C \ {c} \subseteq D /\ Joins(C, D) => m <= l
  BY <1>3, <1>5, <1>7, <1>8
<1> QED
  BY <1>2, <1>9

\* The others, in a step of c: nobody falls asleep, nobody turns away.
LEMMA OthersKeep ==
  ASSUME IInv, NEW c \in Callers, NEW N, NEW T, Others(c, N, T), Wakes(c, N, T),
         NEW d \in Callers \ {c}, NEW x \in Chans, NEW w \in Sides
  PROVE  (Sleeps(d, x, w)' => Sleeps(d, x, w)) /\ (Comes(d, x, w) => Comes(d, x, w)')
<1>1. /\ op'[d] = op[d] /\ at'[d] = at[d]
      /\ pc'[d] = IF d \in GsOf(N) THEN "ready" ELSE IF d \in T THEN "woken" ELSE pc[d]
      /\ d \notin GsOf(N) => won'[d] = won[d]
  BY DEF Others
<1>2. CASE d \in GsOf(N) \/ d \in T
  <2>1. pc[d] \in {"parked", "waiting"}
    BY <1>2 DEF Wakes, GsOf
  <2>2. pc'[d] \in {"ready", "woken"}
    BY <1>1, <1>2
  <2>3. ~Sleeps(d, x, w)'
    BY <2>2 DEF Sleeps
  <2> QED
    BY <2>1, <2>3, ComesNot
<1>3. CASE d \notin GsOf(N) /\ d \notin T
  <2>1. pc'[d] = pc[d] /\ won'[d] = won[d]
    BY <1>1, <1>3
  <2> QED
    BY <1>1, <2>1 DEF Sleeps, Comes, Coming
<1> QED
  BY <1>2, <1>3

\* Who sleeps is on the list or in pal_cond_wait.
LEMMA SleeperSeen ==
  ASSUME IInv, NEW d \in Callers, NEW x \in Chans, NEW w \in Sides, Sleeps(d, x, w)
  PROVE  \/ \E n \in Elems(chan[x].q[w]) : n.g = d /\ Wakeable(n)
         \/ d \in Blocked(x, {w})
<1>1. Control(d) /\ w \in Places /\ w # "select" /\ w # "rv"
  BY DEF IInv, Sides, Places
<1>2. CASE pc[d] = "waiting"
  <2>1. d \in Blockers /\ Plain(d)
    BY <1>1, <1>2 DEF Control
  <2>2. at[d] # "select"
    BY <2>1, PlainOp
  <2> QED
    BY <1>2, <2>1, <2>2 DEF Sleeps, Blocked
<1>3. CASE pc[d] \in {"suspended", "parked"}
  <2>1. d \in Coros
    BY <1>1, <1>3 DEF Control
  <2>2. NodesOf(d, x, w) \subseteq Elems(chan[x].q[w])
    BY <1>1, <1>3, <2>1 DEF IInv, NodesMatchWaiters
  <2>3. CASE at[d] = w /\ op[d].ch = x
    <3>1. Node(d, 0) \in Elems(chan[x].q[w])
      BY <1>1, <2>2, <2>3 DEF NodesOf
    <3>2. Node(d, 0).g = d /\ Node(d, 0).case = 0
      BY NodeFields
    <3> QED
      BY <3>1, <3>2 DEF Wakeable
  <2>4. CASE at[d] = "select" /\ \E i \in DOMAIN op[d].cases : ForPlace(op[d].cases[i], x, w)
    <3>1. InSelect(d) /\ won[d] = 0
      BY <1>1, <1>3, <2>4 DEF Control, Plain, Places
    <3>2. PICK i \in DOMAIN op[d].cases : ForPlace(op[d].cases[i], x, w)
      BY <2>4
    <3>3. op[d].cases[i] \in [kind : {"send", "recv"}, ch : Chans]
      BY <3>1, <3>2, SelectCases
    <3>4. op[d].cases[i].ch = x /\ w = PlaceOf(op[d].cases[i])
      BY <3>2, <3>3, CaseIs
    <3>5. Node(d, i) \in Elems(NewNodes(d, x, w))
      BY <3>1, <3>4, NewNodesElems
    <3>6. Node(d, i) \in Elems(chan[x].q[w])
      BY <2>2, <2>4, <3>5 DEF NodesOf
    <3>7. Node(d, i).g = d
      BY NodeFields
    <3> QED
      BY <3>1, <3>6, <3>7 DEF Wakeable
  <2> QED
    BY <2>3, <2>4 DEF Sleeps
<1> QED
  BY <1>2, <1>3 DEF Sleeps

\* Where the threads wait that a waker of w signals.
Signs(w) == IF w = "full" THEN {"full", "rv"} ELSE {"empty"}

\* Who wakes for w in x sends somebody there who was not on the way, or nobody
\* else sleeps there any more.
LEMMA ServedComes ==
  ASSUME IInv, NEW c \in Callers, NEW N, NEW T, Others(c, N, T), Wakes(c, N, T),
         NEW x \in Chans, NEW w \in Sides, Served(c, x, w, Signs(w), N, T)
  PROVE  \/ \E d \in Callers \ {c} : ~Comes(d, x, w) /\ Comes(d, x, w)'
         \/ \A d \in Callers \ {c} : ~Sleeps(d, x, w)'
<1>0. w \in Places /\ w # "rv" /\ w # "select" /\ w \in Signs(w)
  BY DEF Sides, Places, Signs
<1>1. ASSUME NEW n \in N, n \in Elems(chan[x].q[w]), \A m \in N : m.g = n.g => m = n
      PROVE  \E d \in Callers \ {c} : ~Comes(d, x, w) /\ Comes(d, x, w)'
  <2>1. PICK d \in Callers \ {c} : d = n.g /\ pc[d] = "parked"
    BY <1>0, <1>1, NodeState DEF Wakes
  <2>2. /\ op'[d] = op[d] /\ at'[d] = at[d] /\ pc'[d] = "ready" /\ won'[d] = n.case
    BY <1>1, <2>1 DEF Others, GsOf
  <2>3. CASE n.case = 0
    <3>1. at[d] = w /\ op[d].ch = x
      BY <1>0, <1>1, <2>1, <2>3, NodeState
    <3>2. Comes(d, x, w)'
      BY <2>2, <3>1 DEF Comes, Coming
    <3> QED
      BY <2>1, <3>2, ComesNot
  <2>4. CASE n.case # 0
    <3>1. /\ at[d] = "select" /\ InSelect(d) /\ n.case \in DOMAIN op[d].cases
          /\ op[d].cases[n.case].ch = x /\ w = PlaceOf(op[d].cases[n.case])
      BY <1>0, <1>1, <2>1, <2>4, NodeState
    <3>2. op[d].cases[n.case] \in [kind : {"send", "recv"}, ch : Chans]
      BY <3>1, SelectCases
    <3>3. ForPlace(op[d].cases[n.case], x, w)
      BY <3>1, <3>2, CaseIs
    <3>4. ForPlace(op'[d].cases[won'[d]], x, w)
      BY <2>2, <3>3
    <3>5. Comes(d, x, w)'
      BY <2>2, <3>1, <3>4 DEF Comes, Coming, ForPlace
    <3> QED
      BY <2>1, <3>5, ComesNot
  <2> QED
    BY <2>3, <2>4
<1>2. ASSUME NEW d \in T, d \in Blocked(x, Signs(w))
      PROVE  \E e \in Callers \ {c} : ~Comes(e, x, w) /\ Comes(e, x, w)'
  <2>1. d \in Callers \ {c} /\ pc[d] = "waiting" /\ op[d].ch = x /\ at[d] \in Signs(w)
    BY <1>2 DEF Blocked, Wakes, Callers
  <2>2. d \notin GsOf(N)
    BY <2>1 DEF Wakes, GsOf
  <2>3. op'[d] = op[d] /\ at'[d] = at[d] /\ pc'[d] = "woken"
    BY <2>1, <2>2 DEF Others
  <2>4. at[d] = w \/ (w = "full" /\ at[d] = "rv")
    BY <2>1 DEF Signs, Sides
  <2>5. Comes(d, x, w)'
    BY <2>1, <2>3, <2>4 DEF Comes, Coming
  <2> QED
    BY <2>1, <2>5, ComesNot
<1>3. ASSUME \A n \in Elems(chan[x].q[w]) : Wakeable(n) => n.g = c, Blocked(x, Signs(w)) = {}
      PROVE  \A d \in Callers \ {c} : ~Sleeps(d, x, w)'
  <2> SUFFICES ASSUME NEW d \in Callers \ {c}, Sleeps(d, x, w)' PROVE FALSE
    OBVIOUS
  <2>1. Sleeps(d, x, w)
    BY OthersKeep
  <2>2. d \notin Blocked(x, {w})
    BY <1>0, <1>3 DEF Blocked
  <2> QED
    BY <1>3, <2>1, <2>2, SleeperSeen
<1> QED
  BY <1>1, <1>2, <1>3 DEF Served

\* What a step of c does to what is left of w in x.
LEMMA NeedStep ==
  ASSUME IInv, IInv', NEW c \in Callers, NEW N, NEW T, Kind(c, N, T),
         NEW x \in Chans, NEW w \in Sides
  PROVE  \/ Need(x, w)' <= Need(x, w)
         \/ /\ Need(x, w)' = Need(x, w) + 1 /\ Served(c, x, w, Signs(w), N, T)
            /\ pc'[c] = "out" \/ at'[c] = "rv"
<1>0. Need(x, w) \in Nat /\ Need(x, w)' \in Nat
  BY NeedNat, NeedNatNext
<1>1. Calm => Need(x, w)' = Need(x, w)
  BY NeedCalm
<1>2. ASSUME NEW y \in Chans, Pushes(c, y, N, T), pc'[c] = "out" \/ Meets(c, y)
      PROVE  \/ Need(x, w)' <= Need(x, w)
             \/ /\ Need(x, w)' = Need(x, w) + 1 /\ Served(c, x, w, Signs(w), N, T)
                /\ pc'[c] = "out" \/ at'[c] = "rv"
  <2>1. CASE x = y /\ w = "empty"
    <3>1. Need(x, w)' = Need(x, w) + 1
      BY <1>2, <2>1, PushNeeds
    <3>2. Served(c, x, w, Signs(w), N, T)
      BY <1>2, <2>1 DEF Pushes, Signs
    <3> QED
      BY <1>2, <3>1, <3>2 DEF Meets
  <2>2. CASE x = y /\ w = "full"
    BY <1>0, <1>2, <2>2, PushNeeds
  <2>3. CASE x # y
    <3>1. Need(x, w)' = Need(x, w)
      BY <1>2, <2>3, PushNeeds
    <3> QED
      BY <1>0, <3>1
  <2> QED
    BY <2>1, <2>2, <2>3 DEF Sides
<1>3. ASSUME NEW y \in Chans, Pops(c, y, N, T), pc'[c] = "out"
      PROVE  \/ Need(x, w)' <= Need(x, w)
             \/ /\ Need(x, w)' = Need(x, w) + 1 /\ Served(c, x, w, Signs(w), N, T)
                /\ pc'[c] = "out" \/ at'[c] = "rv"
  <2>1. CASE x = y /\ w = "full"
    <3>1. Need(x, w)' = Need(x, w) + 1 \/ Need(x, w)' = 0
      BY <1>3, <2>1, PopNeeds
    <3>2. Served(c, x, w, Signs(w), N, T)
      BY <1>3, <2>1 DEF Pops, Signs
    <3> QED
      BY <1>0, <1>3, <3>1, <3>2
  <2>2. CASE x = y /\ w = "empty"
    BY <1>0, <1>3, <2>2, PopNeeds
  <2>3. CASE x # y
    <3>1. Need(x, w)' = Need(x, w)
      BY <1>3, <2>3, PopNeeds
    <3> QED
      BY <1>0, <3>1
  <2> QED
    BY <2>1, <2>2, <2>3 DEF Sides
<1>4. ASSUME NEW y \in Chans, Closes(c, y, N, T)
      PROVE  Need(x, w)' <= Need(x, w)
  <2>1. Need(x, w)' = Need(x, w) \/ Need(x, w)' = 0
    BY <1>4, CloseNeeds DEF Sides
  <2> QED
    BY <1>0, <2>1
<1>5. (\E y \in Chans : Fails(c, y) \/ Exits(c, y, N, T)) => Calm
  BY DEF Fails, Exits
<1>6. Calm => Need(x, w)' <= Need(x, w)
  BY <1>0, <1>1
<1> QED
  BY <1>2, <1>3, <1>4, <1>5, <1>6 DEF Kind

\* A step that leaves something to take sends somebody for it, and who turns
\* away from it took it, or hands its place on (send.rv.exit).
LEMMA StockedStep ==
  ASSUME IInv, IInv', NEW c \in Callers, NEW N, NEW T, Step(c, N, T),
         NEW x \in Chans, NEW w \in Sides, Stocked(x, w)
  PROVE  Stocked(x, w)'
<1>0. Others(c, N, T) /\ Wakes(c, N, T) /\ Kind(c, N, T) /\ Turn(c, N, T)
  BY DEF Step, Shape
<1>1. PICK n \in Nat, m \in Nat : n = Need(x, w) /\ m = Need(x, w)'
  BY NeedNat, NeedNatNext
<1>2. PICK A \in SUBSET Callers, C \in SUBSET Callers :
        /\ A = Asleep(x, w) /\ C = Comers(x, w)
        /\ \A d \in Callers : (d \in A <=> Sleeps(d, x, w)) /\ (d \in C <=> Comes(d, x, w))
  <2>1. Asleep(x, w) = {d \in Callers : Sleeps(d, x, w)}
    BY DEF Asleep, Sleeps
  <2>2. Comers(x, w) = {d \in Callers : Comes(d, x, w)}
    BY DEF Comers
  <2>3. PICK A, C : A = {d \in Callers : Sleeps(d, x, w)} /\ C = {d \in Callers : Comes(d, x, w)}
    OBVIOUS
  <2> QED
    BY <2>1, <2>2, <2>3
<1>3. PICK B \in SUBSET Callers, D \in SUBSET Callers :
        /\ B = Asleep(x, w)' /\ D = Comers(x, w)'
        /\ \A d \in Callers : (d \in B <=> Sleeps(d, x, w)') /\ (d \in D <=> Comes(d, x, w)')
  <2>1. Asleep(x, w)' = {d \in Callers : Sleeps(d, x, w)'}
    BY DEF Asleep, Sleeps
  <2>2. Comers(x, w)' = {d \in Callers : Comes(d, x, w)'}
    BY DEF Comers
  <2>3. PICK B, D : B = {d \in Callers : Sleeps(d, x, w)'} /\ D = {d \in Callers : Comes(d, x, w)'}
    OBVIOUS
  <2> QED
    BY <2>1, <2>2, <2>3
<1>4. Stocked(x, w)' <=> (B # {} => m <= Cardinality(D))
  BY <1>1, <1>3 DEF Stocked
<1>5. A # {} => n <= Cardinality(C)
  BY <1>1, <1>2 DEF Stocked
<1>6. Cardinality(D) \in Nat
  BY FS_Subset, FS_CardinalityType, ChannelAssumption
<1>7. m = 0 => m <= Cardinality(D)
  BY <1>6
<1>8. \A d \in Callers \ {c} : (d \in B => d \in A) /\ (d \in C => d \in D)
  BY <1>0, <1>2, <1>3, OthersKeep
<1>9. C \ {c} \subseteq D
  BY <1>8
<1>10. m # 0 => B \subseteq A
  <2>1. c \in B => c \in A \/ m = 0
    BY <1>0, <1>1, <1>2, <1>3 DEF Turn
  <2> QED
    BY <1>8, <2>1
<1>11. \/ C \subseteq D \/ m = 0 \/ m = n - 1 \/ (w = "full" /\ Exits(c, x, N, T))
  <2>1. c \in C => c \in D \/ m = 0 \/ m = n - 1 \/ (w = "full" /\ Exits(c, x, N, T))
    BY <1>0, <1>1, <1>2, <1>3 DEF Turn
  <2> QED
    BY <1>9, <2>1
<1>12. ASSUME Served(c, x, w, Signs(w), N, T), pc'[c] = "out" \/ at'[c] = "rv"
       PROVE  B = {} \/ Joins(C, D)
  <2>1. c \notin B
    BY <1>3, <1>12 DEF Sleeps, Sides
  <2>2. \/ \E d \in Callers \ {c} : ~Comes(d, x, w) /\ Comes(d, x, w)'
        \/ \A d \in Callers \ {c} : ~Sleeps(d, x, w)'
    BY <1>0, <1>12, ServedComes
  <2> QED
    BY <1>2, <1>3, <2>1, <2>2 DEF Joins
<1>13. CASE m # 0 /\ B # {}
  <2>1. n <= Cardinality(C)
    BY <1>5, <1>10, <1>13
  <2>2. CASE C \subseteq D
    <3>1. m <= n \/ (m <= n + 1 /\ Joins(C, D))
      <4>1. \/ m <= n
            \/ m = n + 1 /\ Served(c, x, w, Signs(w), N, T) /\ (pc'[c] = "out" \/ at'[c] = "rv")
        BY <1>0, <1>1, NeedStep
      <4> QED
        BY <1>12, <1>13, <4>1
    <3> QED
      BY <1>4, <2>1, <2>2, <3>1, Balance
  <2>3. CASE m = n - 1
    <3>1. m = n - 1 /\ C \ {c} \subseteq D => m <= Cardinality(D)
      BY <2>1, Balance
    <3> QED
      BY <1>4, <1>9, <2>3, <3>1
  <2>4. CASE w = "full" /\ Exits(c, x, N, T)
    <3>1. m = n
      BY <1>1, <2>4, NeedCalm DEF Exits
    <3>2. Served(c, x, w, Signs(w), N, T) /\ pc'[c] = "out"
      BY <2>4 DEF Exits, Signs
    <3>3. Joins(C, D)
      BY <1>12, <1>13, <3>2
    <3>4. m <= n
      BY <3>1
    <3> QED
      BY <1>4, <1>9, <2>1, <3>3, <3>4, Balance
  <2> QED
    BY <1>11, <1>13, <2>2, <2>3, <2>4
<1> QED
  BY <1>4, <1>7, <1>13

\* Both sides of every channel.
AllStocked == \A x \in Chans, w \in Sides : Stocked(x, w)

\* Nobody sleeps in the beginning.
LEMMA StockedInit ==
  ASSUME Init
  PROVE  AllStocked
<1> SUFFICES ASSUME NEW x \in Chans, NEW w \in Sides PROVE Stocked(x, w)
  BY DEF AllStocked
<1>1. Asleep(x, w) = {}
  BY DEF Asleep, Init
<1> QED
  BY <1>1 DEF Stocked

\* What the two properties say is what is stocked on each side.
LEMMA StockedMeans ==
  ASSUME AllStocked
  PROVE  NoStrandedReceiver /\ NoStrandedSender
<1>1. \A x \in Chans : Comers(x, "empty") = {c \in Callers : Coming(c, x, "empty")}
  BY DEF Comers, Comes
<1>2. \A x \in Chans : Comers(x, "full") = {c \in Callers : Coming(c, x, "full") \/ Coming(c, x, "rv")}
  BY DEF Comers, Comes
<1>3. \A x \in Chans : Stocked(x, "empty") /\ Stocked(x, "full")
  BY DEF AllStocked, Sides
<1>4. NoStrandedReceiver
  BY <1>1, <1>3 DEF NoStrandedReceiver, Stocked, Need
<1>5. NoStrandedSender
  <2> SUFFICES ASSUME NEW x \in Chans, ~chan[x].closed
               PROVE  Asleep(x, "full") # {} =>
                        Size(x) - chan[x].count
                          <= Cardinality({c \in Callers : Coming(c, x, "full") \/ Coming(c, x, "rv")})
    BY DEF NoStrandedSender
  <2>1. Need(x, "full") = Size(x) - chan[x].count
    BY DEF Need
  <2> QED
    BY <1>2, <1>3, <2>1 DEF Stocked
<1> QED
  BY <1>4, <1>5

\* No step loses a wakeup.
LEMMA StockedAlways == Spec => []AllStocked
<1>1. Init => AllStocked
  BY StockedInit
<1>2. IInv /\ IInv' /\ AllStocked /\ [Next]_vars => AllStocked'
  <2>1. ASSUME IInv, IInv', AllStocked, Next PROVE AllStocked'
    <3>1. PICK c \in Callers : \E N, T : Step(c, N, T)
      BY <2>1, EveryStep
    <3>2. PICK N, T : Step(c, N, T)
      BY <3>1
    <3>3. \A x \in Chans, w \in Sides : Stocked(x, w)'
      BY <2>1, <3>2, StockedStep DEF AllStocked
    <3> QED
      BY <3>3 DEF AllStocked
  <2>2. ASSUME AllStocked, UNCHANGED vars PROVE AllStocked'
    <3>1. /\ UNCHANGED chan /\ UNCHANGED pc /\ UNCHANGED op /\ UNCHANGED at /\ UNCHANGED won
      BY <2>2 DEF vars
    <3>2. \A x \in Chans, w \in Sides :
            Need(x, w)' = Need(x, w) /\ Asleep(x, w)' = Asleep(x, w) /\ Comers(x, w)' = Comers(x, w)
      BY <3>1 DEF Need, Asleep, Comers, Comes, Coming
    <3> QED
      BY <2>2, <3>2 DEF AllStocked, Stocked
  <2> QED
    BY <2>1, <2>2
<1> QED
  BY <1>1, <1>2, ChannelInvariant, PTL DEF Spec

\* While receivers sleep on a channel, for every buffered value one is on its
\* way: send.write and the drain of a receive never lose a wakeup, whatever
\* threads, goroutines and selects share the channel.
THEOREM ReceiversAreWoken == Spec => []NoStrandedReceiver
<1>1. AllStocked => NoStrandedReceiver
  BY StockedMeans
<1> QED
  BY <1>1, StockedAlways, PTL

\* While senders sleep on an open channel, for every free slot one is on its
\* way, or a sender that ends its rendezvous and then wakes one (B0156).
THEOREM SendersAreWoken == Spec => []NoStrandedSender
<1>1. AllStocked => NoStrandedSender
  BY StockedMeans
<1> QED
  BY <1>1, StockedAlways, PTL

=============================================================================
