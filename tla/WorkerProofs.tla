------------------------------ MODULE WorkerProofs ------------------------------
(***************************************************************************)
(* Proofs about what the CAN worker keeps of the frames it reads, for any  *)
(* table size, hash, throttle and traffic: the records of the identifiers  *)
(* (FrameTable) and the reports of the signals (SignalTable).              *)
(***************************************************************************)
EXTENDS MCWorker, NaturalFacts, FiniteSetTheorems, SequenceTheorems

-------------------------------------------------------------------------------
(* Sums over finite sets *)

\* Induction over the subsets of a finite set, and over the naturals, for a property that is
\* given as the set of what has it.
LEMMA SubsetInduction ==
    ASSUME NEW D, IsFiniteSet(D), NEW G,
           \A T \in SUBSET D : (\A x \in T : T \ {x} \in G) => T \in G
    PROVE  SUBSET D \subseteq G
<1> SUFFICES ASSUME NEW T0 \in SUBSET D, T0 \notin G PROVE FALSE
    OBVIOUS
<1> DEFINE Bad == { T \in SUBSET D : T \notin G }
<1> DEFINE Sizes == { Cardinality(T) : T \in Bad }
<1>1. \A T \in SUBSET D : IsFiniteSet(T) /\ Cardinality(T) \in Nat
    BY FS_Subset, FS_CardinalityType
<1>2. Sizes \in SUBSET Nat /\ Sizes # {}
    BY <1>1
<1>3. PICK n \in Sizes : \A m \in Sizes : n <= m
    BY <1>2, LeastOf
<1>4. PICK T \in Bad : Cardinality(T) = n
    BY <1>3
<1>5. PICK x \in T : T \ {x} \notin G
    OBVIOUS
<1>6. T \ {x} \in Bad /\ Cardinality(T \ {x}) = Cardinality(T) - 1
    <2>1. IsFiniteSet(T) /\ T \ {x} \in SUBSET D
        BY <1>1, <1>4
    <2>2. Cardinality(T \ {x}) = Cardinality(T) - 1
        BY <2>1, FS_RemoveElement
    <2> QED
        BY <1>5, <2>1, <2>2
<1>7. n <= Cardinality(T \ {x})
    BY <1>3, <1>6
<1> QED
    BY <1>1, <1>2, <1>4, <1>6, <1>7

LEMMA NatInduction0 ==
    ASSUME NEW G, 0 \in G, \A n \in Nat : n \in G => n + 1 \in G
    PROVE  Nat \subseteq G
<1> SUFFICES ASSUME NEW n0 \in Nat, n0 \notin G PROVE FALSE
    OBVIOUS
<1> DEFINE Bad == { n \in Nat : n \notin G }
<1>1. PICK n \in Bad : \A m \in Bad : n <= m
    BY LeastOf
<1>2. n # 0 /\ n - 1 \in Nat /\ n - 1 \notin Bad
    BY <1>1
<1> QED
    BY <1>2

One(s) == CHOOSE x \in s : TRUE

\* One more step of the sum of h over the subsets in C.
Step(h, C, g) == [s \in C |-> IF s = {} THEN 0 ELSE h[One(s)] + g[s \ {One(s)}]]

IsSum(g, h, C) == g = Step(h, C, g)

NatsOn(g, C) == \A s \in C : g[s] \in Nat

Total(h, T) == (CHOOSE g : IsSum(g, h, SUBSET T))[T]

\* Folding is summing.
LEMMA FoldingSums ==
    ASSUME NEW h, NEW T
    PROVE  MapThenSumSet(LAMBDA id : h[id], T) = Total(h, T)
BY DEF Total, MapThenSumSet, MapThenFoldSet, IsSum, Step, One

LEMMA OneIs == ASSUME NEW s, s # {} PROVE One(s) \in s
BY DEF One

\* There is such a sum.
LEMMA SumExists ==
    ASSUME NEW D, IsFiniteSet(D), NEW h \in [D -> Nat]
    PROVE  \E g : IsSum(g, h, SUBSET D) /\ NatsOn(g, SUBSET D)
<1> DEFINE Upto(n) == { s \in SUBSET D : Cardinality(s) <= n }
<1> DEFINE G == { n \in Nat : \E g : IsSum(g, h, Upto(n)) /\ NatsOn(g, Upto(n)) }
<1>1. \A T \in SUBSET D : IsFiniteSet(T) /\ Cardinality(T) \in Nat /\ Cardinality(T) <= Cardinality(D)
    BY FS_Subset, FS_CardinalityType
<1>2. 0 \in G
    <2>1. \A s \in Upto(0) : s = {}
        BY <1>1, FS_EmptySet
    <2> DEFINE g == [s \in Upto(0) |-> 0]
    <2>2. IsSum(g, h, Upto(0)) /\ NatsOn(g, Upto(0))
        BY <2>1 DEF IsSum, Step, NatsOn
    <2> QED
        BY <2>2
<1>3. ASSUME NEW n \in Nat, n \in G PROVE n + 1 \in G
    <2>1. PICK g : IsSum(g, h, Upto(n)) /\ NatsOn(g, Upto(n))
        BY <1>3
    <2> DEFINE k == [s \in Upto(n + 1) |-> IF s = {} THEN 0 ELSE h[One(s)] + g[s \ {One(s)}]]
    <2>2. ASSUME NEW s \in Upto(n + 1), s # {}
          PROVE  One(s) \in D /\ s \ {One(s)} \in Upto(n)
        <3>1. One(s) \in s
            BY <2>2, OneIs
        <3>2. s \ {One(s)} \in SUBSET D /\ Cardinality(s \ {One(s)}) = Cardinality(s) - 1
            BY <1>1, <3>1, FS_RemoveElement
        <3> QED
            BY <1>1, <3>1, <3>2
    <2>3. \A s \in Upto(n + 1) : k[s] \in Nat
        BY <2>1, <2>2 DEF NatsOn
    <2>4. ASSUME NEW s \in Upto(n) PROVE s \in Upto(n + 1) /\ k[s] = g[s]
        <3>1. s \in Upto(n + 1)
            BY <1>1
        <3>2. g[s] = IF s = {} THEN 0 ELSE h[One(s)] + g[s \ {One(s)}]
            BY <2>1 DEF IsSum, Step
        <3> QED
            BY <3>1, <3>2
    <2>5. IsSum(k, h, Upto(n + 1))
        <3>1. \A s \in Upto(n + 1) : k[s] = IF s = {} THEN 0 ELSE h[One(s)] + k[s \ {One(s)}]
            BY <2>2, <2>4
        <3> QED
            BY <3>1 DEF IsSum, Step
    <2>6. IsSum(k, h, Upto(n + 1)) /\ NatsOn(k, Upto(n + 1))
        BY <2>3, <2>5 DEF NatsOn
    <2>7. n + 1 \in Nat
        OBVIOUS
    <2> HIDE DEF k, Upto
    <2> QED
        BY <2>6, <2>7
<1>4. Cardinality(D) \in G
    BY <1>2, <1>3, <1>1, NatInduction0
<1>5. Upto(Cardinality(D)) = SUBSET D
    BY <1>1
<1> QED
    BY <1>4, <1>5

\* Two of them agree.
LEMMA SumsAgree ==
    ASSUME NEW D, IsFiniteSet(D), NEW E, NEW h, NEW g, NEW k,
           IsSum(g, h, SUBSET D), IsSum(k, h, SUBSET E)
    PROVE  \A s \in SUBSET D : s \in SUBSET E => g[s] = k[s]
<1> DEFINE G == { s \in SUBSET D : s \in SUBSET E => g[s] = k[s] }
<1>1. ASSUME NEW T \in SUBSET D, \A x \in T : T \ {x} \in G PROVE T \in G
    <2> SUFFICES ASSUME T \in SUBSET E PROVE g[T] = k[T]
        OBVIOUS
    <2>1. /\ g[T] = IF T = {} THEN 0 ELSE h[One(T)] + g[T \ {One(T)}]
          /\ k[T] = IF T = {} THEN 0 ELSE h[One(T)] + k[T \ {One(T)}]
        BY DEF IsSum, Step
    <2>2. T # {} => g[T \ {One(T)}] = k[T \ {One(T)}]
        BY <1>1, OneIs
    <2> QED
        BY <2>1, <2>2
<1> HIDE DEF G
<1>2. SUBSET D \subseteq G
    BY <1>1, SubsetInduction
<1> QED
    BY <1>2 DEF G

\* A sum takes in each element once, in whatever order.
LEMMA TotalIs ==
    ASSUME NEW D, IsFiniteSet(D), NEW h \in [D -> Nat], NEW T \in SUBSET D
    PROVE  /\ Total(h, T) \in Nat
           /\ T = {} => Total(h, T) = 0
           /\ \A x \in T : Total(h, T) = h[x] + Total(h, T \ {x})
<1>1. PICK g : IsSum(g, h, SUBSET D) /\ NatsOn(g, SUBSET D)
    BY SumExists
<1>2. ASSUME NEW S \in SUBSET D PROVE Total(h, S) = g[S]
    <2> DEFINE k == CHOOSE f : IsSum(f, h, SUBSET S)
    <2>1. IsFiniteSet(S)
        BY FS_Subset
    <2> DEFINE w == [x \in S |-> h[x]]
    <2>2. w \in [S -> Nat]
        OBVIOUS
    <2>3. PICK f : IsSum(f, w, SUBSET S)
        BY <2>1, <2>2, SumExists
    <2>4. IsSum(f, h, SUBSET S)
        <3>1. \A s \in SUBSET S : s # {} => w[One(s)] = h[One(s)]
            BY OneIs
        <3>2. Step(w, SUBSET S, f) = Step(h, SUBSET S, f)
            BY <3>1 DEF Step
        <3> QED
            BY <2>3, <3>2 DEF IsSum
    <2>5. IsSum(k, h, SUBSET S)
        BY <2>4
    <2> HIDE DEF k
    <2>6. \A s \in SUBSET S : s \in SUBSET D => k[s] = g[s]
        BY <1>1, <2>1, <2>5, SumsAgree, SMTT(30)
    <2>7. k[S] = g[S]
        BY <2>6
    <2> QED
        BY <2>7 DEF Total, k
<1> DEFINE G == { S \in SUBSET D : \A x \in S : g[S] = h[x] + g[S \ {x}] }
<1>3. ASSUME NEW S \in SUBSET D, \A x \in S : S \ {x} \in G PROVE S \in G
    <2> SUFFICES ASSUME NEW x \in S PROVE g[S] = h[x] + g[S \ {x}]
        OBVIOUS
    <2> DEFINE o == One(S)
    <2>1. o \in S /\ g[S] = h[o] + g[S \ {o}]
        BY <1>1, OneIs DEF IsSum, Step
    <2> HIDE DEF o
    <2>2. CASE x = o
        BY <2>1, <2>2
    <2>3. CASE x # o
        <3>1. x \in S \ {o} /\ o \in S \ {x}
            BY <2>1, <2>3
        <3>2. S \ {o} \in G /\ S \ {x} \in G
            BY <1>3, <2>1
        <3>3. g[S \ {o}] = h[x] + g[(S \ {o}) \ {x}]
            BY <3>1, <3>2
        <3>4. g[S \ {x}] = h[o] + g[(S \ {x}) \ {o}]
            BY <3>1, <3>2
        <3>5. (S \ {o}) \ {x} = (S \ {x}) \ {o}
            OBVIOUS
        <3>6. h[x] \in Nat /\ h[o] \in Nat /\ g[(S \ {o}) \ {x}] \in Nat
            BY <2>1, <1>1 DEF NatsOn
        <3> HIDE DEF G
        <3>7. \A p, q, r \in Nat : p + (q + r) = q + (p + r)
            OBVIOUS
        <3>8. g[S] = h[o] + (h[x] + g[(S \ {o}) \ {x}])
            BY ONLY <2>1, <3>3
        <3>9. h[x] + g[S \ {x}] = h[x] + (h[o] + g[(S \ {o}) \ {x}])
            BY ONLY <3>4, <3>5
        <3> QED
            BY ONLY <3>6, <3>7, <3>8, <3>9
    <2> QED
        BY <2>2, <2>3
<1> HIDE DEF G
<1>4. SUBSET D \subseteq G
    BY <1>3, SubsetInduction
<1>5. g[{}] = 0
    BY <1>1 DEF IsSum, Step
<1>6. \A x \in T : g[T] = h[x] + g[T \ {x}]
    BY <1>4 DEF G
<1>7. Total(h, T) = g[T] /\ \A x \in T : Total(h, T \ {x}) = g[T \ {x}]
    BY <1>2
<1>8. g[T] \in Nat
    BY <1>1 DEF NatsOn
<1> QED
    BY <1>5, <1>6, <1>7, <1>8

\* It depends on the summands only.
LEMMA TotalsEqual ==
    ASSUME NEW D, IsFiniteSet(D), NEW h \in [D -> Nat], NEW k \in [D -> Nat], NEW T \in SUBSET D,
           \A x \in T : h[x] = k[x]
    PROVE  Total(h, T) = Total(k, T)
<1> DEFINE G == { S \in SUBSET T : Total(h, S) = Total(k, S) }
<1>1. ASSUME NEW S \in SUBSET T, \A x \in S : S \ {x} \in G PROVE S \in G
    <2>1. CASE S = {}
        BY <2>1, TotalIs
    <2>2. CASE S # {}
        <3>1. PICK x \in S : TRUE
            BY <2>2
        <3>2. /\ Total(h, S) = h[x] + Total(h, S \ {x})
              /\ Total(k, S) = k[x] + Total(k, S \ {x})
            BY TotalIs
        <3> QED
            BY <1>1, <3>1, <3>2
    <2> QED
        BY <2>1, <2>2
<1> HIDE DEF G
<1>2. IsFiniteSet(T)
    BY FS_Subset
<1>3. SUBSET T \subseteq G
    BY <1>1, <1>2, SubsetInduction
<1> QED
    BY <1>3 DEF G

LEMMA TotalIsZero ==
    ASSUME NEW D, IsFiniteSet(D), NEW h \in [D -> Nat], NEW T \in SUBSET D, \A x \in T : h[x] = 0
    PROVE  Total(h, T) = 0
<1> DEFINE G == { S \in SUBSET T : Total(h, S) = 0 }
<1>1. ASSUME NEW S \in SUBSET T, \A x \in S : S \ {x} \in G PROVE S \in G
    <2>1. CASE S = {}
        BY <2>1, TotalIs
    <2>2. CASE S # {}
        <3>1. PICK x \in S : TRUE
            BY <2>2
        <3>2. Total(h, S) = h[x] + Total(h, S \ {x})
            BY TotalIs
        <3> QED
            BY <1>1, <3>1, <3>2
    <2> QED
        BY <2>1, <2>2
<1> HIDE DEF G
<1>2. IsFiniteSet(T)
    BY FS_Subset
<1>3. SUBSET T \subseteq G
    BY <1>1, <1>2, SubsetInduction
<1> QED
    BY <1>3 DEF G

\* One more at one place.
LEMMA TotalGrows ==
    ASSUME NEW D, IsFiniteSet(D), NEW h \in [D -> Nat], NEW T \in SUBSET D, NEW y \in D,
           NEW k \in [D -> Nat], k[y] = h[y] + 1, \A x \in D \ {y} : k[x] = h[x]
    PROVE  Total(k, T) = Total(h, T) + IF y \in T THEN 1 ELSE 0
<1>1. k[y] = h[y] + 1
    OBVIOUS
<1>2. Total(k, T \ {y}) = Total(h, T \ {y})
    BY TotalsEqual
<1>3. CASE y \in T
    <2>1. Total(k, T) = k[y] + Total(k, T \ {y}) /\ Total(h, T) = h[y] + Total(h, T \ {y})
        BY <1>1, <1>3, TotalIs
    <2>2. Total(h, T \ {y}) \in Nat /\ h[y] \in Nat
        BY TotalIs
    <2> QED
        BY <1>1, <1>2, <1>3, <2>1, <2>2
<1>4. CASE y \notin T
    <2>1. T \ {y} = T /\ Total(h, T) \in Nat
        BY <1>4, TotalIs
    <2>2. Total(k, T) = Total(h, T)
        BY <1>2, <2>1
    <2> QED
        BY <1>4, <2>1, <2>2
<1> QED
    BY <1>3, <1>4

\* What adds nothing may be left out.
LEMMA TotalWithout ==
    ASSUME NEW D, IsFiniteSet(D), NEW h \in [D -> Nat], NEW T \in SUBSET D, NEW y \in D, h[y] = 0
    PROVE  Total(h, T \ {y}) = Total(h, T)
<1>1. CASE y \in T
    BY <1>1, TotalIs
<1>2. CASE y \notin T
    <2>1. T \ {y} = T
        BY <1>2
    <2> QED
        BY <2>1
<1> QED
    BY <1>1, <1>2

-------------------------------------------------------------------------------
(* The capture: the inductive invariant *)

Slots == 0 .. Capacity - 1

\* What was counted and let out since the reset.
PastTypeOK ==
    /\ heard \in [Ids -> Nat] /\ \A id \in Ids : heard[id] <= totalFrames
    /\ sent \in [Ids -> Frame \cup {Free}]

\* The record of an ID is of that ID: it counts its frames, and its prev is the payload that
\* was let out last, with its stamp.
RecordsKept ==
    \A i \in Slots : slots[i] # Free =>
        /\ slots[i].count = heard[slots[i].id]
        /\ sent[slots[i].id] \in Frame
        /\ sent[slots[i].id].data = slots[i].prev
        /\ sent[slots[i].id].recvUs = slots[i].lastPubUs

\* What has a slot is found.
Reachable == \A i \in Slots, id \in Ids : Holds(i, id) => Found(id) /\ SlotOf(id) = i

\* An ID that was heard and has no slot meets none that is free.
NoRoomForGood ==
    \A id \in Ids : (heard[id] # 0 /\ Found(id)) => Holds(SlotOf(id), id)

\* What observe() decided of the latest frame.
Decided ==
    \A i \in Slots : slots[i] # Free =>
        LET r == slots[i] IN
        /\ Differs(r.prev, r.data, r.noiseMask) => Elapsed(r.lastSeenUs, r.lastPubUs) < MinGap
        /\ Heartbeat > 0 => Elapsed(r.lastSeenUs, r.lastPubUs) < Heartbeat

\* The labels being placed get numbers that are not yet used up.
StampsFit == IsFiniteSet(stamps) /\ markSeq + Cardinality(stamps) <= MaxMarks

FInv ==
    /\ FTypeOK
    /\ StampsFit
    /\ PastTypeOK
    /\ RecordsKept
    /\ Reachable
    /\ NoRoomForGood
    /\ Decided

-------------------------------------------------------------------------------
(* Probing *)

LEMMA MinIs ==
    ASSUME NEW T \in SUBSET Nat, T # {}
    PROVE  Min(T) \in T /\ \A y \in T : Min(T) <= y
BY LeastOf DEF Min

LEMMA ModIs ==
    ASSUME NEW x \in Nat, NEW n \in Nat \ {0}
    PROVE  x % n \in 0 .. n - 1
OBVIOUS

\* A record is not a free slot.
LEMMA RecordIsTaken == \A r \in Record : r # Free /\ r.id \in Ids /\ r.count \in Nat \ {0}
<1>1. \A r \in Record : r.count \in 1 .. MaxFrames
    BY DEF Record
<1>2. Free.count = 0
    BY DEF Free
<1> QED
    BY <1>1, <1>2, TableAssumption DEF Record

LEMMA ProbeIs ==
    ASSUME NEW id \in Ids, NEW k \in 0 .. Capacity - 1
    PROVE  Probe(id, k) \in Slots
<1>1. Hash[id] + k \in Nat /\ Capacity \in Nat \ {0}
    BY TableAssumption
<1> QED
    BY <1>1, ModIs DEF Probe, Slots

\* find() ends at a slot that is free, or the ID's.
LEMMA FoundIs ==
    ASSUME NEW id \in Ids, Found(id)
    PROVE  /\ Min(Stops(id)) \in Stops(id) /\ Min(Stops(id)) \in 0 .. Capacity - 1
           /\ \A k \in Stops(id) : Min(Stops(id)) <= k
           /\ SlotOf(id) \in Slots
           /\ slots[SlotOf(id)] = Free \/ Holds(SlotOf(id), id)
<1>1. Stops(id) \in SUBSET (0 .. Capacity - 1) /\ Stops(id) \in SUBSET Nat /\ Stops(id) # {}
    BY TableAssumption DEF Stops, Found
<1>2. Min(Stops(id)) \in Stops(id) /\ \A k \in Stops(id) : Min(Stops(id)) <= k
    BY <1>1, MinIs
<1>3. SlotOf(id) \in Slots
    BY <1>1, <1>2, ProbeIs DEF SlotOf
<1>4. slots[SlotOf(id)] = Free \/ Holds(SlotOf(id), id)
    BY <1>2 DEF SlotOf, Stops
<1> QED
    BY <1>1, <1>2, <1>3, <1>4

\* A slot is filled, or the record in it replaced.
Filled(i, r) ==
    /\ slots' = [slots EXCEPT ![i] = r]
    /\ slots[i] = Free \/ Holds(i, r.id)

\* No search stops earlier then, and none stops at a slot that holds another ID.
LEMMA StopsShrink ==
    ASSUME slots \in [Slots -> Record \cup {Free}],
           NEW i \in Slots, NEW r \in Record, Filled(i, r), NEW id \in Ids
    PROVE  Stops(id)' \subseteq Stops(id)
<1> SUFFICES ASSUME NEW k \in 0 .. Capacity - 1,
                    slots'[Probe(id, k)] = Free
                    \/ (slots'[Probe(id, k)] # Free /\ slots'[Probe(id, k)].id = id)
             PROVE  k \in Stops(id)
    BY DEF Stops, Holds, Probe
<1>1. Probe(id, k) \in Slots
    BY ProbeIs
<1>2. CASE Probe(id, k) # i
    <2>1. slots'[Probe(id, k)] = slots[Probe(id, k)]
        BY <1>1, <1>2 DEF Filled
    <2> QED
        BY <2>1 DEF Stops, Holds
<1>3. CASE Probe(id, k) = i
    <2>1. slots'[i] = r /\ r # Free
        BY RecordIsTaken DEF Filled
    <2>2. r.id = id
        BY <1>3, <2>1
    <2> QED
        BY <1>3, <2>2 DEF Filled, Stops
<1> QED
    BY <1>2, <1>3

\* A search that ended where the ID now is ends there still.
LEMMA SlotStays ==
    ASSUME slots \in [Slots -> Record \cup {Free}],
           NEW i \in Slots, NEW r \in Record, Filled(i, r),
           NEW id \in Ids, Found(id), slots'[SlotOf(id)] # Free, slots'[SlotOf(id)].id = id
    PROVE  Found(id)' /\ SlotOf(id)' = SlotOf(id)
<1> DEFINE k == Min(Stops(id))
<1>1. k \in Stops(id) /\ k \in 0 .. Capacity - 1 /\ \A m \in Stops(id) : k <= m
    BY FoundIs, ZenonT(40)
<1>2. k \in Stops(id)'
    BY <1>1 DEF Stops, Holds, Probe, SlotOf
<1>3. Stops(id)' \subseteq Stops(id)
    BY StopsShrink
<1>4. Stops(id)' \in SUBSET Nat /\ Stops(id) \in SUBSET Nat
    BY <1>3, TableAssumption DEF Stops
<1>5. Min(Stops(id)') \in Stops(id)' /\ \A m \in Stops(id)' : Min(Stops(id)') <= m
    BY <1>2, <1>4, MinIs
<1>6. Min(Stops(id)') = k
    <2>1. Min(Stops(id)') \in Nat /\ k \in Nat /\ Min(Stops(id)') <= k /\ k <= Min(Stops(id)')
        BY <1>1, <1>2, <1>3, <1>4, <1>5
    <2> QED
        BY <2>1
<1>7. Found(id)'
    BY <1>2 DEF Found
<1>8. SlotOf(id)' = Probe(id, Min(Stops(id)'))
    BY DEF SlotOf, Probe
<1> QED
    BY <1>6, <1>7, <1>8 DEF SlotOf

-------------------------------------------------------------------------------
(* observe() *)

SlotsTyped == slots \in [Slots -> Record \cup {Free}]

OwnSlot == \A i \in Slots : slots[i] # Free => SlotOf(slots[i].id) = i

\* No ID has two slots.
LEMMA SlotsAreOwn == SlotsTyped /\ Reachable => OwnSlot
<1> SUFFICES ASSUME SlotsTyped, Reachable, NEW i \in Slots, slots[i] # Free
             PROVE  SlotOf(slots[i].id) = i
    BY DEF OwnSlot
<1>1. slots[i].id \in Ids
    BY RecordIsTaken DEF SlotsTyped
<1> QED
    BY <1>1 DEF Reachable, Holds

\* A stamp is not later than itself.
LEMMA ElapsedIs ==
    ASSUME NEW x \in Time, NEW y \in Time
    PROVE  Elapsed(x, y) \in Int /\ Elapsed(x, x) = 0
<1>1. x \in Int /\ y \in Int /\ Wrap \in Int
    BY UptimeAssumption DEF Time
<1> QED
    BY <1>1 DEF Elapsed

\* The record of the ID after the frame, and what was let out of it.
LEMMA FoldedIs ==
    ASSUME FInv, NEW f \in Frame, NEW mask \in SUBSET Bytes, Found(f.id), arrived < MaxFrames
    PROVE  LET old == slots[SlotOf(f.id)]
               r == Folded(old, f, mask)
           IN /\ r \in Record /\ r.id = f.id /\ r.count = heard[f.id] + 1
              /\ Publishes(old, f, mask) => r.prev = f.data /\ r.lastPubUs = f.recvUs
              /\ ~Publishes(old, f, mask) =>
                    /\ old # Free /\ Holds(SlotOf(f.id), f.id)
                    /\ r.prev = old.prev /\ r.lastPubUs = old.lastPubUs
              /\ Differs(r.prev, r.data, r.noiseMask) => Elapsed(r.lastSeenUs, r.lastPubUs) < MinGap
              /\ Heartbeat > 0 => Elapsed(r.lastSeenUs, r.lastPubUs) < Heartbeat
<1> DEFINE i == SlotOf(f.id)
<1> DEFINE old == slots[i]
<1> DEFINE r == Folded(old, f, mask)
<1>1. f.id \in Ids /\ f.data \in Payloads /\ f.recvUs \in Time
    BY DEF Frame
<1>2. i \in Slots /\ (old = Free \/ Holds(i, f.id))
    BY <1>1, FoundIs
<1>3. old \in Record \cup {Free}
    BY <1>2 DEF FInv, FTypeOK, Slots
<1>4. old.count = heard[f.id]
    <2>1. CASE old = Free
        <3>1. ~Holds(i, f.id)
            BY <2>1 DEF Holds
        <3>2. heard[f.id] = 0
            BY <1>1, <3>1 DEF FInv, NoRoomForGood
        <3> QED
            BY <2>1, <3>2 DEF Free
    <2>2. CASE Holds(i, f.id)
        BY <1>2, <2>2 DEF FInv, RecordsKept, Holds
    <2> QED
        BY <1>2, <2>1, <2>2
<1>5. heard[f.id] + 1 \in 1 .. MaxFrames
    <2>1. /\ heard[f.id] \in Nat /\ heard[f.id] <= totalFrames /\ totalFrames \in 0 .. arrived
          /\ arrived \in 0 .. MaxFrames
        BY <1>1 DEF FInv, PastTypeOK, FTypeOK
    <2> QED
        BY <2>1, TableAssumption
<1> HIDE DEF i, old
<1>6. /\ r.id = f.id /\ r.count = heard[f.id] + 1 /\ r.data = f.data /\ r.noiseMask = mask
      /\ r.lastSeenUs = f.recvUs
      /\ r.prev = PrevAfter(old, f, mask)
      /\ r.lastPubUs = IF Publishes(old, f, mask) THEN f.recvUs ELSE old.lastPubUs
      /\ r = [id |-> r.id, count |-> r.count, data |-> r.data, prev |-> r.prev,
              noiseMask |-> r.noiseMask, lastSeenUs |-> r.lastSeenUs, lastPubUs |-> r.lastPubUs]
    BY <1>4 DEF Folded
<1> HIDE DEF r
<1>7. CASE Publishes(old, f, mask)
    <2>1. r.prev = f.data /\ r.lastPubUs = f.recvUs
        BY <1>6, <1>7 DEF PrevAfter
    <2>2. r \in Record
        BY <1>1, <1>5, <1>6, <2>1 DEF Record
    <2>3. ~Differs(r.prev, r.data, r.noiseMask)
        BY <1>6, <2>1 DEF Differs
    <2>4. Elapsed(r.lastSeenUs, r.lastPubUs) = 0
        BY <1>1, <1>6, <2>1, ElapsedIs
    <2> QED
        BY <1>6, <1>7, <2>1, <2>2, <2>3, <2>4 DEF i, old, r
<1>8. CASE ~Publishes(old, f, mask)
    <2>1. r.prev = old.prev /\ r.lastPubUs = old.lastPubUs
        BY <1>6, <1>8 DEF PrevAfter
    <2>2. old # Free /\ old \in Record /\ Holds(i, f.id)
        BY <1>2, <1>3, <1>8 DEF Publishes
    <2>3. old.prev \in Payloads /\ old.lastPubUs \in Time
        BY <2>2 DEF Record
    <2>4. r \in Record
        BY <1>1, <1>5, <1>6, <2>1, <2>3 DEF Record
    <2>5. Elapsed(f.recvUs, old.lastPubUs) \in Int /\ MinGap \in Nat /\ Heartbeat \in Nat
        BY <1>1, <2>3, ElapsedIs, TableAssumption
    <2>6. Differs(old.prev, f.data, mask) => Elapsed(f.recvUs, old.lastPubUs) < MinGap
        BY <1>8, <2>2, <2>5 DEF Publishes
    <2>7. Heartbeat > 0 => Elapsed(f.recvUs, old.lastPubUs) < Heartbeat
        BY <1>8, <2>2, <2>5 DEF Publishes, HeartbeatIsDue
    <2> QED
        BY <1>6, <1>8, <2>1, <2>2, <2>4, <2>6, <2>7 DEF i, old, r
<1> QED
    BY <1>7, <1>8

\* The frame goes into the record of its ID.
LEMMA FoldStep ==
    ASSUME FInv, NEW f \in Frame, NEW mask \in SUBSET Bytes, Found(f.id), arrived < MaxFrames,
           totalFrames' = totalFrames + 1,
           slots' = [slots EXCEPT ![SlotOf(f.id)] = Folded(slots[SlotOf(f.id)], f, mask)],
           sent' = IF Publishes(slots[SlotOf(f.id)], f, mask) THEN [sent EXCEPT ![f.id] = f] ELSE sent,
           heard' = [heard EXCEPT ![f.id] = @ + 1]
    PROVE  SlotsTyped' /\ PastTypeOK' /\ RecordsKept' /\ Reachable' /\ NoRoomForGood' /\ Decided'
<1> DEFINE i == SlotOf(f.id)
<1> DEFINE old == slots[i]
<1> DEFINE r == Folded(old, f, mask)
<1>1. f.id \in Ids
    BY DEF Frame
<1>2. i \in Slots /\ (old = Free \/ Holds(i, f.id))
    BY <1>1, FoundIs
<1>3. /\ r \in Record /\ r.id = f.id /\ r.count = heard[f.id] + 1
      /\ Publishes(old, f, mask) => r.prev = f.data /\ r.lastPubUs = f.recvUs
      /\ ~Publishes(old, f, mask) =>
            /\ old # Free /\ Holds(i, f.id) /\ r.prev = old.prev /\ r.lastPubUs = old.lastPubUs
      /\ Differs(r.prev, r.data, r.noiseMask) => Elapsed(r.lastSeenUs, r.lastPubUs) < MinGap
      /\ Heartbeat > 0 => Elapsed(r.lastSeenUs, r.lastPubUs) < Heartbeat
    BY FoldedIs
<1>4. r # Free
    BY <1>3, RecordIsTaken
<1>5. slots' = [slots EXCEPT ![i] = r]
    OBVIOUS
<1>6. sent' = IF Publishes(old, f, mask) THEN [sent EXCEPT ![f.id] = f] ELSE sent
    OBVIOUS
<1> HIDE DEF r
<1>7. slots \in [Slots -> Record \cup {Free}] /\ Filled(i, r)
    BY <1>2, <1>3, <1>5 DEF FInv, FTypeOK, Slots, Filled
<1>8. i = SlotOf(f.id) /\ old = slots[i]
    OBVIOUS
<1> HIDE DEF i, old
<1>9. /\ slots' \in [Slots -> Record \cup {Free}]
      /\ slots'[i] = r /\ \A j \in Slots \ {i} : slots'[j] = slots[j]
    BY <1>2, <1>3, <1>5, <1>7
<1>10. Found(f.id)' /\ SlotOf(f.id)' = i
    BY <1>1, <1>2, <1>3, <1>4, <1>7, <1>8, <1>9, SlotStays
<1>11. ASSUME NEW j \in Slots \ {i}, NEW id \in Ids, Holds(j, id)
       PROVE  id # f.id /\ Found(id)' /\ SlotOf(id)' = j
    <2>1. Found(id) /\ SlotOf(id) = j
        BY <1>11 DEF FInv, Reachable
    <2>2. slots'[j] # Free /\ slots'[j].id = id
        BY <1>9, <1>11 DEF Holds
    <2> QED
        BY <1>2, <1>3, <1>7, <1>8, <2>1, <2>2, SlotStays
<1>12. Reachable'
    <2> SUFFICES ASSUME NEW j \in Slots, NEW id \in Ids, slots'[j] # Free, slots'[j].id = id
                 PROVE  Found(id)' /\ SlotOf(id)' = j
        BY DEF Reachable, Holds
    <2>1. CASE j = i
        BY <1>3, <1>9, <1>10, <2>1
    <2>2. CASE j # i
        BY <1>9, <1>11, <2>2 DEF Holds
    <2> QED
        BY <2>1, <2>2
<1>13. PastTypeOK'
    <2>1. heard \in [Ids -> Nat] /\ totalFrames \in Nat /\ \A id \in Ids : heard[id] <= totalFrames
        BY DEF FInv, PastTypeOK, FTypeOK
    <2>2. /\ heard' \in [Ids -> Nat] /\ heard'[f.id] = heard[f.id] + 1
          /\ \A id \in Ids \ {f.id} : heard'[id] = heard[id]
        BY <1>1, <2>1
    <2>3. \A id \in Ids : heard'[id] <= totalFrames'
        BY <2>1, <2>2
    <2>4. sent' \in [Ids -> Frame \cup {Free}]
        BY <1>1, <1>6 DEF FInv, PastTypeOK
    <2> QED
        BY <2>2, <2>3, <2>4 DEF PastTypeOK
<1>14. /\ heard'[f.id] = heard[f.id] + 1
       /\ \A id \in Ids \ {f.id} : heard'[id] = heard[id] /\ sent'[id] = sent[id]
       /\ Publishes(old, f, mask) => sent'[f.id] = f
       /\ ~Publishes(old, f, mask) => sent'[f.id] = sent[f.id]
    BY <1>1, <1>6 DEF FInv, PastTypeOK
<1>15. RecordsKept'
    <2> SUFFICES ASSUME NEW j \in Slots, slots'[j] # Free
                 PROVE  /\ slots'[j].count = heard'[slots'[j].id]
                        /\ sent'[slots'[j].id] \in Frame
                        /\ sent'[slots'[j].id].data = slots'[j].prev
                        /\ sent'[slots'[j].id].recvUs = slots'[j].lastPubUs
        BY DEF RecordsKept
    <2>1. CASE j = i /\ Publishes(old, f, mask)
        BY <1>3, <1>9, <1>14, <2>1
    <2>2. CASE j = i /\ ~Publishes(old, f, mask)
        <3>1. /\ sent[f.id] \in Frame /\ sent[f.id].data = old.prev /\ sent[f.id].recvUs = old.lastPubUs
            BY <1>2, <1>3, <1>8, <2>2 DEF FInv, RecordsKept, Holds
        <3> QED
            BY <1>3, <1>9, <1>14, <2>2, <3>1
    <2>3. CASE j # i
        <3>1. slots[j] # Free /\ slots'[j] = slots[j] /\ slots[j].id \in Ids
            BY <1>7, <1>9, <2>3, RecordIsTaken
        <3>2. slots[j].id # f.id
            BY <1>11, <2>3, <3>1 DEF Holds
        <3> QED
            BY <1>14, <3>1, <3>2 DEF FInv, RecordsKept
    <2> QED
        BY <2>1, <2>2, <2>3
<1>16. NoRoomForGood'
    <2> SUFFICES ASSUME NEW id \in Ids, heard'[id] # 0, Found(id)'
                 PROVE  Holds(SlotOf(id), id)'
        BY DEF NoRoomForGood
    <2>1. CASE id = f.id
        BY <1>3, <1>4, <1>9, <1>10, <2>1 DEF Holds
    <2>2. CASE id # f.id
        <3>1. Stops(id)' \subseteq Stops(id)
            BY <1>2, <1>3, <1>7, StopsShrink
        <3>2. Found(id)
            BY <3>1 DEF Found
        <3>3. SlotOf(id) \in Slots /\ Holds(SlotOf(id), id)
            BY <1>14, <2>2, <3>2, FoundIs DEF FInv, NoRoomForGood
        <3>4. SlotOf(id) # i
            BY <1>2, <1>8, <2>2, <3>3 DEF Holds
        <3>5. SlotOf(id)' = SlotOf(id)
            BY <1>11, <3>3, <3>4
        <3> QED
            BY <1>9, <3>3, <3>4, <3>5 DEF Holds
    <2> QED
        BY <2>1, <2>2
<1>17. Decided'
    <2> SUFFICES ASSUME NEW j \in Slots, slots'[j] # Free
                 PROVE  /\ Differs(slots'[j].prev, slots'[j].data, slots'[j].noiseMask) =>
                              Elapsed(slots'[j].lastSeenUs, slots'[j].lastPubUs) < MinGap
                        /\ Heartbeat > 0 => Elapsed(slots'[j].lastSeenUs, slots'[j].lastPubUs) < Heartbeat
        BY DEF Decided, Differs, Elapsed
    <2>1. CASE j = i
        BY <1>3, <1>9, <2>1
    <2>2. CASE j # i
        BY <1>9, <2>2 DEF FInv, Decided
    <2> QED
        BY <2>1, <2>2
<1> QED
    BY <1>9, <1>12, <1>13, <1>15, <1>16, <1>17 DEF SlotsTyped

\* The table has no room for the ID.
LEMMA OverflowStep ==
    ASSUME FInv, NEW f \in Frame, ~Found(f.id), totalFrames' = totalFrames + 1,
           UNCHANGED <<slots, sent>>, heard' = [heard EXCEPT ![f.id] = @ + 1]
    PROVE  SlotsTyped' /\ PastTypeOK' /\ RecordsKept' /\ Reachable' /\ NoRoomForGood' /\ Decided'
<1>1. f.id \in Ids
    BY DEF Frame
<1>2. heard \in [Ids -> Nat] /\ totalFrames \in Nat /\ \A id \in Ids : heard[id] <= totalFrames
    BY DEF FInv, PastTypeOK, FTypeOK
<1>3. /\ heard' \in [Ids -> Nat] /\ heard'[f.id] = heard[f.id] + 1
      /\ \A id \in Ids \ {f.id} : heard'[id] = heard[id]
    BY <1>1, <1>2
<1>4. PastTypeOK'
    BY <1>2, <1>3 DEF FInv, PastTypeOK
<1>5. SlotsTyped' /\ Reachable' /\ Decided'
    BY DEF FInv, FTypeOK, SlotsTyped, Slots, Reachable, Decided, Holds, Found, SlotOf, Stops
<1>6. RecordsKept'
    <2> SUFFICES ASSUME NEW j \in Slots, slots[j] # Free
                 PROVE  /\ slots[j].count = heard'[slots[j].id]
                        /\ sent[slots[j].id] \in Frame
                        /\ sent[slots[j].id].data = slots[j].prev
                        /\ sent[slots[j].id].recvUs = slots[j].lastPubUs
        BY DEF RecordsKept
    <2>1. slots[j].id \in Ids
        BY RecordIsTaken DEF FInv, FTypeOK, Slots
    <2>2. slots[j].id # f.id
        BY <2>1 DEF FInv, Reachable, Holds
    <2> QED
        BY <1>3, <2>1, <2>2 DEF FInv, RecordsKept
<1>7. NoRoomForGood'
    <2> SUFFICES ASSUME NEW id \in Ids, heard'[id] # 0, Found(id)
                 PROVE  Holds(SlotOf(id), id)
        BY DEF NoRoomForGood, Found, Stops, SlotOf, Holds
    <2> QED
        BY <1>3 DEF FInv, NoRoomForGood
<1> QED
    BY <1>4, <1>5, <1>6, <1>7

-------------------------------------------------------------------------------
(* The other operations *)

\* The count of what a ring holds does not pass its size.
LEMMA RingCounts ==
    ASSUME NEW n \in Nat, NEW size \in Nat
    PROVE  Min({n + 1, size}) \in 0 .. size
<1>1. {n + 1, size} \in SUBSET Nat /\ {n + 1, size} # {}
    OBVIOUS
<1>2. Min({n + 1, size}) \in {n + 1, size} /\ Min({n + 1, size}) <= size
    BY <1>1, MinIs
<1> QED
    BY <1>2

LEMMA ReceiveStep == FInv /\ Receive => FInv'
<1> SUFFICES ASSUME FInv,
                    NEW id \in Ids, NEW age \in {0, 1}, NEW data \in Traffic[id], NEW mask \in Masks[id],
                    age <= now, Observe([id |-> id, data |-> data, recvUs |-> now - age], mask)
             PROVE  FInv'
    BY DEF Receive
<1> DEFINE f == [id |-> id, data |-> data, recvUs |-> now - age]
<1>1. f \in Frame /\ mask \in SUBSET Bytes
    <2>1. data \in Payloads /\ mask \in SUBSET Bytes
        BY TableAssumption
    <2>2. now - age \in Time
        BY UptimeAssumption DEF FInv, FTypeOK, Time
    <2> QED
        BY <2>1, <2>2 DEF Frame
<1>2. /\ arrived < MaxFrames /\ arrived' = arrived + 1 /\ totalFrames' = totalFrames + 1
      /\ ringHead' = (ringHead + 1) % RingSize /\ ringCount' = Min({ringCount + 1, RingSize})
      /\ heard' = [heard EXCEPT ![f.id] = @ + 1]
      /\ UNCHANGED <<now, markHead, markCount, markSeq, stamps>>
    BY DEF Observe, markVars
<1>3. \/ /\ Found(f.id) /\ UNCHANGED overflowIds
         /\ slots' = [slots EXCEPT ![SlotOf(f.id)] = Folded(slots[SlotOf(f.id)], f, mask)]
         /\ sent' = IF Publishes(slots[SlotOf(f.id)], f, mask) THEN [sent EXCEPT ![f.id] = f] ELSE sent
      \/ ~Found(f.id) /\ overflowIds' = overflowIds + 1 /\ UNCHANGED <<slots, sent>>
    BY DEF Observe
<1> HIDE DEF f
<1>4. SlotsTyped' /\ PastTypeOK' /\ RecordsKept' /\ Reachable' /\ NoRoomForGood' /\ Decided'
    BY <1>1, <1>2, <1>3, FoldStep, OverflowStep
<1>5. OwnSlot'
    BY <1>4, SlotsAreOwn, PTL
<1>6. ringHead' \in 0 .. RingSize - 1 /\ ringCount' \in 0 .. RingSize
    <2>1. ringHead + 1 \in Nat /\ ringCount \in Nat /\ RingSize \in Nat \ {0}
        BY TableAssumption DEF FInv, FTypeOK
    <2>2. (ringHead + 1) % RingSize \in 0 .. RingSize - 1
        BY <2>1, ModIs
    <2>3. Min({ringCount + 1, RingSize}) \in 0 .. RingSize
        BY <2>1, RingCounts
    <2> QED
        BY <1>2, <2>2, <2>3
<1>7. /\ arrived' \in 0 .. MaxFrames /\ totalFrames' \in 0 .. arrived'
      /\ overflowIds' \in 0 .. totalFrames'
    <2>1. /\ arrived \in 0 .. MaxFrames /\ totalFrames \in 0 .. arrived /\ overflowIds \in 0 .. totalFrames
          /\ MaxFrames \in Nat
        BY TableAssumption DEF FInv, FTypeOK
    <2> QED
        BY <1>2, <1>3, <2>1
<1> QED
    BY <1>2, <1>4, <1>5, <1>6, <1>7 DEF FInv, FTypeOK, StampsFit, SlotsTyped, OwnSlot, Slots

\* A step that does not touch the records.
LEMMA RecordsRest ==
    ASSUME FInv, UNCHANGED <<slots, heard, sent, totalFrames>>
    PROVE  SlotsTyped' /\ OwnSlot' /\ PastTypeOK' /\ RecordsKept' /\ Reachable' /\ NoRoomForGood' /\ Decided'
<1>1. SlotsTyped' /\ Reachable'
    BY DEF FInv, FTypeOK, SlotsTyped, Slots, Reachable, Holds, Found, SlotOf, Stops
<1>2. OwnSlot'
    BY <1>1, SlotsAreOwn, PTL
<1>3. NoRoomForGood'
    BY DEF FInv, NoRoomForGood, Found, Stops, SlotOf, Holds
<1> QED
    BY <1>1, <1>2, <1>3 DEF FInv, PastTypeOK, RecordsKept, Decided

LEMMA StampStep ==
    ASSUME FInv, NEW u \in Markers, StampMark(u)
    PROVE  FInv'
<1> DEFINE s == [by |-> u, at |-> now]
<1>1. /\ UNCHANGED <<now, slots, heard, sent, totalFrames, overflowIds, arrived, ringHead, ringCount>>
      /\ UNCHANGED <<markHead, markCount, markSeq>>
      /\ markSeq + Cardinality(stamps) < MaxMarks /\ stamps' = stamps \cup {s}
    BY DEF StampMark, ringVars, markVars
<1>2. SlotsTyped' /\ OwnSlot' /\ PastTypeOK' /\ RecordsKept' /\ Reachable' /\ NoRoomForGood' /\ Decided'
    BY <1>1, RecordsRest
<1>3. s \notin stamps
    BY DEF StampMark
<1>4. stamps' \subseteq [by : Markers, at : Time]
    BY <1>1 DEF FInv, FTypeOK
<1> HIDE DEF s
<1>5. /\ IsFiniteSet(stamps') /\ Cardinality(stamps') = Cardinality(stamps) + 1
      /\ Cardinality(stamps) \in Nat
    BY <1>1, <1>3, FS_AddElement, FS_CardinalityType DEF FInv, StampsFit
<1>6. StampsFit'
    BY <1>1, <1>5, TableAssumption DEF StampsFit, FInv, FTypeOK
<1> QED
    BY <1>1, <1>2, <1>4, <1>6 DEF FInv, FTypeOK, SlotsTyped, OwnSlot, Slots

LEMMA AddMarkStep ==
    ASSUME FInv, NEW s \in stamps, AddMark(s)
    PROVE  FInv'
<1>1. /\ UNCHANGED <<now, slots, heard, sent, totalFrames, overflowIds, arrived, ringHead, ringCount>>
      /\ markSeq' = markSeq + 1 /\ markHead' = (markHead + 1) % MarkRing
      /\ markCount' = Min({markCount + 1, MarkRing}) /\ stamps' = stamps \ {s}
    BY DEF AddMark, ringVars
<1>2. SlotsTyped' /\ OwnSlot' /\ PastTypeOK' /\ RecordsKept' /\ Reachable' /\ NoRoomForGood' /\ Decided'
    BY <1>1, RecordsRest
<1>3. /\ IsFiniteSet(stamps') /\ Cardinality(stamps') = Cardinality(stamps) - 1
      /\ Cardinality(stamps) \in Nat /\ Cardinality(stamps') \in Nat
    BY <1>1, FS_RemoveElement, FS_CardinalityType DEF FInv, StampsFit
<1>4. StampsFit' /\ markSeq' \in 0 .. MaxMarks
    BY <1>1, <1>3, TableAssumption DEF FInv, FTypeOK, StampsFit
<1>5. markHead' \in 0 .. MarkRing - 1 /\ markCount' \in 0 .. MarkRing
    <2>1. markHead + 1 \in Nat /\ markCount \in Nat /\ MarkRing \in Nat \ {0}
        BY TableAssumption DEF FInv, FTypeOK
    <2>2. (markHead + 1) % MarkRing \in 0 .. MarkRing - 1
        BY <2>1, ModIs
    <2>3. Min({markCount + 1, MarkRing}) \in 0 .. MarkRing
        BY <2>1, RingCounts
    <2> QED
        BY <1>1, <2>2, <2>3
<1> QED
    BY <1>1, <1>2, <1>4, <1>5 DEF FInv, FTypeOK, SlotsTyped, OwnSlot, Slots

LEMMA ResetStep == FInv /\ Reset => FInv'
<1> SUFFICES ASSUME FInv, Reset PROVE FInv'
    OBVIOUS
<1>1. /\ \A i \in Slots : slots'[i] = Free
      /\ slots' \in [Slots -> Record \cup {Free}]
      /\ heard' = [id \in Ids |-> 0] /\ sent' = [id \in Ids |-> Free]
      /\ totalFrames' = 0 /\ overflowIds' = 0 /\ UNCHANGED <<now, arrived, markSeq, stamps>>
      /\ ringHead' = 0 /\ ringCount' = 0 /\ markHead' = 0 /\ markCount' = 0
    BY DEF Reset, SlotsAfterReset, Slots
<1>2. PastTypeOK'
    BY <1>1 DEF PastTypeOK
<1>3. RecordsKept' /\ Reachable' /\ Decided' /\ OwnSlot'
    BY <1>1 DEF RecordsKept, Reachable, Decided, OwnSlot, Holds
<1>4. NoRoomForGood'
    BY <1>1 DEF NoRoomForGood
<1> QED
    BY <1>1, <1>2, <1>3, <1>4, TableAssumption
       DEF FInv, FTypeOK, StampsFit, Slots, OwnSlot

LEMMA TimeStep ==
    ASSUME FInv, now' \in Time, UNCHANGED recordVars
    PROVE  FInv'
<1>1. SlotsTyped' /\ OwnSlot' /\ PastTypeOK' /\ RecordsKept' /\ Reachable' /\ NoRoomForGood' /\ Decided'
    BY RecordsRest DEF recordVars
<1> QED
    BY <1>1 DEF FInv, FTypeOK, StampsFit, SlotsTyped, OwnSlot, Slots, recordVars, ringVars, markVars

LEMMA FInvStarts == FInit => FInv
<1> SUFFICES ASSUME FInit PROVE FInv
    OBVIOUS
<1>1. /\ \A i \in Slots : slots[i] = Free
      /\ slots \in [Slots -> Record \cup {Free}]
      /\ heard = [id \in Ids |-> 0] /\ sent = [id \in Ids |-> Free]
      /\ totalFrames = 0 /\ overflowIds = 0 /\ now = 0 /\ arrived = 0 /\ markSeq = 0 /\ stamps = {}
      /\ ringHead = 0 /\ ringCount = 0 /\ markHead = 0 /\ markCount = 0
    BY DEF FInit, Slots
<1>2. PastTypeOK
    BY <1>1 DEF PastTypeOK
<1>3. RecordsKept /\ Reachable /\ Decided /\ NoRoomForGood
    BY <1>1 DEF RecordsKept, Reachable, Decided, Holds, NoRoomForGood
<1>4. StampsFit
    BY <1>1, FS_EmptySet, TableAssumption DEF StampsFit
<1>5. now \in Time
    BY <1>1, UptimeAssumption DEF Time
<1> QED
    BY <1>1, <1>2, <1>3, <1>4, <1>5, TableAssumption DEF FInv, FTypeOK, Slots

LEMMA FInvNext == FInv /\ (FNext \/ UNCHANGED fvars) => FInv'
<1> SUFFICES ASSUME FInv, FNext \/ UNCHANGED fvars PROVE FInv'
    OBVIOUS
<1>1. CASE Receive
    BY <1>1, ReceiveStep
<1>2. CASE \E u \in Markers : StampMark(u)
    BY <1>2, StampStep
<1>3. CASE \E s \in stamps : AddMark(s)
    BY <1>3, AddMarkStep
<1>4. CASE Reset
    BY <1>4, ResetStep
<1>5. CASE FTick
    <2>1. now' \in Time
        BY <1>5, UptimeAssumption DEF FTick, TimePasses, FInv, FTypeOK, Time
    <2> QED
        BY <1>5, <2>1, TimeStep DEF FTick, recordVars
<1>6. CASE UNCHANGED fvars
    <2>1. now' \in Time
        BY <1>6 DEF fvars, FInv, FTypeOK
    <2> QED
        BY <1>6, <2>1, TimeStep DEF fvars, recordVars
<1> QED
    BY <1>1, <1>2, <1>3, <1>4, <1>5, <1>6 DEF FNext

-------------------------------------------------------------------------------
(* The capture: theorems *)

\* The strengthening holds throughout.
THEOREM CaptureInvariant == FSpec => []FInv
<1>1. FInit => FInv
    BY FInvStarts
<1>2. FInv /\ [FNext]_fvars => FInv'
    BY FInvNext
<1> QED
    BY <1>1, <1>2, PTL DEF FSpec

\* No change is lost to the throttle: a frame that differs from the one let out last and was not
\* let out itself came within the minimum interval (observe(), FrameTable.cpp).
THEOREM ChangesReachTheBroker == FSpec => []BrokerSeesChanges
<1>1. FInv => BrokerSeesChanges
    <2> SUFFICES ASSUME FInv, NEW i \in 0 .. Capacity - 1, slots[i] # Free,
                        Differs(sent[slots[i].id].data, slots[i].data, slots[i].noiseMask)
                 PROVE  Elapsed(slots[i].lastSeenUs, sent[slots[i].id].recvUs) < MinGap
        BY DEF BrokerSeesChanges
    <2> QED
        BY DEF FInv, RecordsKept, Decided, Slots
<1> QED
    BY <1>1, CaptureInvariant, PTL

\* With a heartbeat, what was let out last of an ID is less than one older than its latest frame.
THEOREM HeartbeatsReachTheBroker == FSpec => []BrokerSeesHeartbeat
<1>1. FInv => BrokerSeesHeartbeat
    <2> SUFFICES ASSUME FInv, Heartbeat > 0, NEW i \in 0 .. Capacity - 1, slots[i] # Free
                 PROVE  Elapsed(slots[i].lastSeenUs, sent[slots[i].id].recvUs) < Heartbeat
        BY DEF BrokerSeesHeartbeat
    <2> QED
        BY DEF FInv, RecordsKept, Decided, Slots
<1> QED
    BY <1>1, CaptureInvariant, PTL

-------------------------------------------------------------------------------
(* The capture: every frame is counted *)

Untracked == { id \in Ids : ~Tracked(id) }

\* The totals are the sums of what was heard.
Counted ==
    /\ overflowIds = Total(heard, Untracked)
    /\ totalFrames = Total(heard, Ids)

\* Only what was heard, and who has a slot, matters to the sums.
LEMMA CountedRests ==
    ASSUME Counted, UNCHANGED <<slots, heard, totalFrames, overflowIds>>
    PROVE  Counted'
<1>1. Untracked' = Untracked
    BY DEF Untracked, Tracked, Holds
<1>2. Total(heard, Untracked)' = Total(heard, Untracked) /\ Total(heard, Ids)' = Total(heard, Ids)
    <2> DEFINE U == Untracked
    <2>1. heard' = heard /\ U' = U
        BY <1>1
    <2> QED
        BY <2>1 DEF Total
<1> QED
    BY <1>1, <1>2 DEF Counted

\* One more frame of an ID adds one to the sums it belongs to, and nothing to the others.
LEMMA HeardMore ==
    ASSUME heard \in [Ids -> Nat], NEW id \in Ids, NEW T \in SUBSET Ids,
           heard' = [heard EXCEPT ![id] = @ + 1]
    PROVE  /\ id \in T => Total(heard', T) = Total(heard, T) + 1
           /\ id \notin T => Total(heard', T) = Total(heard, T)
<1>1. IsFiniteSet(Ids)
    BY TableAssumption
<1>2. Total(heard', T) = Total(heard, T) + IF id \in T THEN 1 ELSE 0
    <2>1. /\ heard' \in [Ids -> Nat] /\ heard'[id] = heard[id] + 1
          /\ \A x \in Ids \ {id} : heard'[x] = heard[x]
        OBVIOUS
    <2>2. heard \in [Ids -> Nat] /\ id \in Ids /\ T \in SUBSET Ids
        OBVIOUS
    <2> QED
        BY ONLY <1>1, <2>1, <2>2, TotalGrows
<1>3. Total(heard, T) \in Nat
    BY <1>1, TotalIs
<1> QED
    BY <1>2, <1>3

\* A frame of an ID that has a slot, or gets one: nothing is missing from the overflow count,
\* since the ID was not heard before it got the slot.
LEMMA CountedFold ==
    ASSUME FInv, Counted, NEW f \in Frame, NEW mask \in SUBSET Bytes, Found(f.id), arrived < MaxFrames,
           totalFrames' = totalFrames + 1, overflowIds' = overflowIds,
           slots' = [slots EXCEPT ![SlotOf(f.id)] = Folded(slots[SlotOf(f.id)], f, mask)],
           heard' = [heard EXCEPT ![f.id] = @ + 1]
    PROVE  Counted'
<1> DEFINE i == SlotOf(f.id)
<1> DEFINE r == Folded(slots[i], f, mask)
<1>1. f.id \in Ids /\ i \in Slots /\ (slots[i] = Free \/ Holds(i, f.id))
    BY FoundIs DEF Frame
<1>2. r \in Record /\ r.id = f.id
    BY FoldedIs
<1>3. r # Free
    BY <1>2, RecordIsTaken
<1> HIDE DEF r
<1>4. /\ slots' \in [Slots -> Record \cup {Free}]
      /\ slots'[i] = r /\ \A j \in Slots \ {i} : slots'[j] = slots[j]
    BY <1>1, <1>2 DEF FInv, FTypeOK, Slots, r
<1> HIDE DEF i
<1>5. \A id \in Ids : Tracked(id)' <=> Tracked(id) \/ id = f.id
    <2> SUFFICES ASSUME NEW id \in Ids PROVE Tracked(id)' <=> Tracked(id) \/ id = f.id
        OBVIOUS
    <2>1. ASSUME Tracked(id)' PROVE Tracked(id) \/ id = f.id
        <3>1. PICK j \in Slots : slots'[j] # Free /\ slots'[j].id = id
            BY <2>1 DEF Tracked, Holds, Slots
        <3> QED
            BY <1>2, <1>4, <3>1 DEF Tracked, Holds, Slots
    <2>2. ASSUME id = f.id PROVE Tracked(id)'
        BY <1>1, <1>2, <1>3, <1>4, <2>2 DEF Tracked, Holds, Slots
    <2>3. ASSUME Tracked(id), id # f.id PROVE Tracked(id)'
        <3>1. PICK j \in Slots : slots[j] # Free /\ slots[j].id = id
            BY <2>3 DEF Tracked, Holds, Slots
        <3>2. j # i
            BY <1>1, <2>3, <3>1 DEF Holds
        <3> QED
            BY <1>4, <3>1, <3>2 DEF Tracked, Holds, Slots
    <2> QED
        BY <2>1, <2>2, <2>3
<1>6. Untracked' = Untracked \ {f.id}
    BY <1>5 DEF Untracked
<1>7. f.id \in Untracked => heard[f.id] = 0
    BY <1>1 DEF FInv, NoRoomForGood, Untracked, Tracked, Slots, i
<1>8. heard \in [Ids -> Nat] /\ IsFiniteSet(Ids) /\ Untracked \subseteq Ids
    BY TableAssumption DEF FInv, PastTypeOK, Untracked
<1>9. Total(heard, Untracked \ {f.id}) = Total(heard, Untracked)
    <2>1. CASE f.id \in Untracked
        BY <1>1, <1>7, <1>8, <2>1, TotalWithout
    <2>2. CASE f.id \notin Untracked
        <3>1. Untracked \ {f.id} = Untracked
            BY <2>2
        <3> QED
            BY <3>1
    <2> QED
        BY <2>1, <2>2
<1>10. Total(heard', Untracked \ {f.id}) = Total(heard, Untracked \ {f.id})
    BY <1>1, <1>8, HeardMore
<1>11. Total(heard', Ids) = Total(heard, Ids) + 1
    BY <1>1, <1>8, HeardMore
<1>12. Total(heard', Untracked') = overflowIds /\ Total(heard', Ids) = totalFrames + 1
    BY <1>6, <1>9, <1>10, <1>11 DEF Counted
<1> QED
    BY <1>12 DEF Counted

\* A frame of an ID the table has no room for.
LEMMA CountedOverflow ==
    ASSUME FInv, Counted, NEW f \in Frame, ~Found(f.id), totalFrames' = totalFrames + 1,
           overflowIds' = overflowIds + 1, slots' = slots, heard' = [heard EXCEPT ![f.id] = @ + 1]
    PROVE  Counted'
<1>1. f.id \in Untracked
    BY DEF FInv, Reachable, Untracked, Tracked, Frame, Slots
<1>2. Untracked' = Untracked
    BY DEF Untracked, Tracked, Holds
<1>3. heard \in [Ids -> Nat] /\ IsFiniteSet(Ids) /\ Untracked \subseteq Ids
    BY TableAssumption DEF FInv, PastTypeOK, Untracked
<1>4. /\ Total(heard', Untracked) = Total(heard, Untracked) + 1
      /\ Total(heard', Ids) = Total(heard, Ids) + 1
    BY <1>1, <1>3, HeardMore
<1> QED
    BY <1>2, <1>4 DEF Counted

\* Nothing was heard.
LEMMA CountedFromZero ==
    ASSUME heard = [id \in Ids |-> 0], totalFrames = 0, overflowIds = 0
    PROVE  Counted
<1>1. heard \in [Ids -> Nat] /\ IsFiniteSet(Ids) /\ Untracked \subseteq Ids
    BY TableAssumption DEF Untracked
<1> QED
    BY <1>1, TotalIsZero DEF Counted

LEMMA CountedNext == FInv /\ Counted /\ (FNext \/ UNCHANGED fvars) => Counted'
<1> SUFFICES ASSUME FInv, Counted, FNext \/ UNCHANGED fvars PROVE Counted'
    OBVIOUS
<1>1. CASE Receive
    <2>1. PICK id \in Ids, age \in {0, 1} : \E data \in Traffic[id], mask \in Masks[id] :
              age <= now /\ Observe([id |-> id, data |-> data, recvUs |-> now - age], mask)
        BY <1>1 DEF Receive
    <2>2. PICK data \in Traffic[id], mask \in Masks[id] :
              age <= now /\ Observe([id |-> id, data |-> data, recvUs |-> now - age], mask)
        BY <2>1
    <2> DEFINE f == [id |-> id, data |-> data, recvUs |-> now - age]
    <2>3. f \in Frame /\ mask \in SUBSET Bytes
        <3>1. data \in Payloads /\ mask \in SUBSET Bytes
            BY TableAssumption
        <3>2. now - age \in Time
            BY <2>2, UptimeAssumption DEF FInv, FTypeOK, Time
        <3> QED
            BY <3>1, <3>2 DEF Frame
    <2>4. Observe(f, mask)
        BY <2>2
    <2> HIDE DEF f
    <2>5. /\ arrived < MaxFrames /\ totalFrames' = totalFrames + 1
          /\ heard' = [heard EXCEPT ![f.id] = @ + 1]
          /\ \/ /\ Found(f.id) /\ UNCHANGED overflowIds
                /\ slots' = [slots EXCEPT ![SlotOf(f.id)] = Folded(slots[SlotOf(f.id)], f, mask)]
             \/ ~Found(f.id) /\ overflowIds' = overflowIds + 1 /\ UNCHANGED slots
        BY <2>4 DEF Observe
    <2> QED
        BY <2>3, <2>5, CountedFold, CountedOverflow
<1>2. CASE Reset
    <2>1. heard' = [id \in Ids |-> 0] /\ totalFrames' = 0 /\ overflowIds' = 0
        BY <1>2 DEF Reset
    <2>2. heard' \in [Ids -> Nat] /\ IsFiniteSet(Ids) /\ Untracked' \subseteq Ids
        BY <2>1, TableAssumption DEF Untracked
    <2>3. Total(heard', Untracked') = 0 /\ Total(heard', Ids) = 0
        BY <2>1, <2>2, TotalIsZero
    <2> QED
        BY <2>1, <2>3 DEF Counted
<1>3. CASE ~Receive /\ ~Reset
    <2>1. UNCHANGED <<slots, heard, totalFrames, overflowIds>>
        BY <1>3 DEF FNext, StampMark, AddMark, FTick, fvars
    <2> QED
        BY <2>1, CountedRests
<1> QED
    BY <1>1, <1>2, <1>3

\* Every frame since the reset is in the count of its own ID, or, when the table had no room, in
\* the overflow count: a frame is never counted twice nor lost (observe(), FrameTable.cpp).
THEOREM FramesAreCounted == FSpec => []EveryFrameCounted
<1>1. FInit => Counted
    BY CountedFromZero DEF FInit
<1>2. FInv /\ Counted => EveryFrameCounted
    <2> SUFFICES ASSUME FInv, Counted PROVE EveryFrameCounted
        OBVIOUS
    <2>1. ASSUME NEW id \in Ids, Tracked(id) PROVE slots[SlotOf(id)].count = heard[id]
        <3>1. PICK i \in Slots : Holds(i, id)
            BY <2>1 DEF Tracked, Slots
        <3>2. SlotOf(id) = i
            BY <3>1 DEF FInv, Reachable
        <3> QED
            BY <3>1, <3>2 DEF FInv, RecordsKept, Holds
    <2>2. overflowIds = MapThenSumSet(LAMBDA id : heard[id], Untracked)
        BY FoldingSums DEF Counted
    <2>3. totalFrames = MapThenSumSet(LAMBDA id : heard[id], Ids)
        BY FoldingSums DEF Counted
    <2> QED
        BY <2>1, <2>2, <2>3 DEF EveryFrameCounted, Untracked
<1>3. FInv /\ Counted /\ [FNext]_fvars => Counted'
    BY CountedNext
<1> QED
    BY <1>1, <1>2, <1>3, CaptureInvariant, PTL DEF FSpec

-------------------------------------------------------------------------------
(* What a text shows *)

\* The same with places of the whole text.
ShowsAt(text, field, s, at) ==
    /\ at \in [DOMAIN s -> DOMAIN text]
    /\ \A i, j \in DOMAIN s : i < j => at[i] < at[j]
    /\ \A i \in DOMAIN s : text[at[i]] = s[i]
    /\ { l \in DOMAIN text : field \in DOMAIN text[l] } = { at[i] : i \in DOMAIN s }

LEMMA ShowsIs ==
    ASSUME NEW text, NEW field, NEW s
    PROVE  Shows(text, field, s) <=> \E at : ShowsAt(text, field, s, at)
<1> DEFINE lines == { l \in DOMAIN text : field \in DOMAIN text[l] }
<1>1. ASSUME NEW at \in [DOMAIN s -> lines] PROVE at \in [DOMAIN s -> DOMAIN text]
    <2>1. \A i \in DOMAIN s : at[i] \in DOMAIN text
        BY Zenon
    <2> QED
        BY <2>1, Zenon
<1>2. ASSUME NEW at \in [DOMAIN s -> DOMAIN text], lines = { at[i] : i \in DOMAIN s }
      PROVE  at \in [DOMAIN s -> lines]
    <2> HIDE DEF lines
    <2>1. \A i \in DOMAIN s : at[i] \in lines
        BY <1>2, Zenon
    <2> QED
        BY <2>1, Zenon
<1>3. Shows(text, field, s) <=>
          \E at \in [DOMAIN s -> lines] :
              /\ \A i, j \in DOMAIN s : i < j => at[i] < at[j]
              /\ \A i \in DOMAIN s : text[at[i]] = s[i]
              /\ lines = { at[i] : i \in DOMAIN s }
    BY Zenon DEF Shows
<1>4. ASSUME NEW at
      PROVE  ShowsAt(text, field, s, at) <=>
                 /\ at \in [DOMAIN s -> DOMAIN text]
                 /\ \A i, j \in DOMAIN s : i < j => at[i] < at[j]
                 /\ \A i \in DOMAIN s : text[at[i]] = s[i]
                 /\ lines = { at[i] : i \in DOMAIN s }
    BY Zenon DEF ShowsAt
<1> HIDE DEF lines
<1> QED
    BY <1>1, <1>2, <1>3, <1>4, Zenon

LEMMA ShowsNothing ==
    ASSUME NEW S, NEW text \in Seq(S), NEW field,
           \A l \in DOMAIN text : field \notin DOMAIN text[l]
    PROVE  Shows(text, field, <<>>)
<1>1. DOMAIN <<>> = {}
    OBVIOUS
<1> DEFINE at == [i \in {} |-> i]
<1>2. at \in [{} -> DOMAIN text] /\ { at[i] : i \in {} } = {}
    BY Zenon
<1>3. { l \in DOMAIN text : field \in DOMAIN text[l] } = {}
    BY Zenon
<1> HIDE DEF at
<1>4. \A i, j \in {} : i < j => at[i] < at[j]
    BY Zenon
<1> QED
    BY <1>1, <1>2, <1>3, <1>4, ShowsIs, Zenon DEF ShowsAt

LEMMA ShowsItself ==
    ASSUME NEW S, NEW text \in Seq(S), NEW field,
           \A l \in DOMAIN text : field \in DOMAIN text[l]
    PROVE  Shows(text, field, text)
<1> DEFINE at == [i \in DOMAIN text |-> i]
<1>1. at \in [DOMAIN text -> DOMAIN text] /\ \A i \in DOMAIN text : at[i] = i
    BY Zenon
<1> HIDE DEF at
<1>2. { l \in DOMAIN text : field \in DOMAIN text[l] } = { at[i] : i \in DOMAIN text }
    BY <1>1, Zenon
<1>3. \A i \in DOMAIN text : text[at[i]] = text[i]
    BY <1>1, Zenon
<1>4. \A i, j \in DOMAIN text : i < j => at[i] < at[j]
    BY <1>1, Zenon
<1>5. ShowsAt(text, field, text, at)
    BY <1>1, <1>2, <1>3, <1>4, Zenon DEF ShowsAt
<1> QED
    BY <1>5, ShowsIs

\* Of two texts put together, what the one shows and then what the other shows.
LEMMA ShowsBoth ==
    ASSUME NEW S, NEW text1 \in Seq(S), NEW text2 \in Seq(S),
           NEW s1 \in Seq(S), NEW s2 \in Seq(S), NEW field,
           Shows(text1, field, s1), Shows(text2, field, s2)
    PROVE  Shows(text1 \o text2, field, s1 \o s2)
<1>1. PICK at1 \in [DOMAIN s1 -> DOMAIN text1] :
            /\ \A i, j \in DOMAIN s1 : i < j => at1[i] < at1[j]
            /\ \A i \in DOMAIN s1 : text1[at1[i]] = s1[i]
            /\ { l \in DOMAIN text1 : field \in DOMAIN text1[l] } = { at1[i] : i \in DOMAIN s1 }
    BY ShowsIs, Zenon DEF ShowsAt
<1>2. PICK at2 \in [DOMAIN s2 -> DOMAIN text2] :
            /\ \A i, j \in DOMAIN s2 : i < j => at2[i] < at2[j]
            /\ \A i \in DOMAIN s2 : text2[at2[i]] = s2[i]
            /\ { l \in DOMAIN text2 : field \in DOMAIN text2[l] } = { at2[i] : i \in DOMAIN s2 }
    BY ShowsIs, Zenon DEF ShowsAt
<1> DEFINE n == Len(text1)
           n2 == Len(text2)
           k == Len(s1)
           k2 == Len(s2)
           text == text1 \o text2
           s == s1 \o s2
           at == [i \in DOMAIN s |-> IF i <= k THEN at1[i] ELSE n + at2[i - k]]
<1>3. /\ n \in Nat /\ n2 \in Nat /\ DOMAIN text1 = 1 .. n /\ DOMAIN text2 = 1 .. n2
      /\ k \in Nat /\ k2 \in Nat /\ DOMAIN s1 = 1 .. k /\ DOMAIN s2 = 1 .. k2
    BY LenProperties
<1>4. /\ DOMAIN text = 1 .. n + n2
      /\ \A l \in 1 .. n + n2 : text[l] = IF l <= n THEN text1[l] ELSE text2[l - n]
    BY ConcatProperties, LenProperties
<1>5. /\ DOMAIN s = 1 .. k + k2
      /\ \A i \in 1 .. k + k2 : s[i] = IF i <= k THEN s1[i] ELSE s2[i - k]
    BY ConcatProperties, LenProperties
<1>6. /\ \A i \in 1 .. k : at1[i] \in 1 .. n
      /\ \A i \in 1 .. k2 : at2[i] \in 1 .. n2
    BY <1>1, <1>2, <1>3, Zenon
<1>7. \A i \in DOMAIN s : at[i] = IF i <= k THEN at1[i] ELSE n + at2[i - k]
    BY Zenon
<1>8. at \in [DOMAIN s -> DOMAIN text]
    <2>1. \A i \in 1 .. k + k2 : (IF i <= k THEN at1[i] ELSE n + at2[i - k]) \in 1 .. n + n2
        <3> HIDE DEF n, k, n2, k2
        <3> QED
            BY <1>3, <1>6
    <2> QED
        BY <1>4, <1>5, <2>1, Zenon
<1> HIDE DEF n, k, n2, k2, text, s, at
<1>9. /\ \A i \in 1 .. k : i \in DOMAIN s /\ at[i] = at1[i] /\ s[i] = s1[i]
      /\ \A i \in 1 .. k2 : k + i \in DOMAIN s /\ at[k + i] = n + at2[i] /\ s[k + i] = s2[i]
    <2>1. \A i \in 1 .. k : i \in 1 .. k + k2 /\ i <= k
        BY <1>3
    <2>2. \A i \in 1 .. k2 : k + i \in 1 .. k + k2 /\ ~(k + i <= k) /\ (k + i) - k = i
        BY <1>3
    <2> QED
        BY <1>5, <1>7, <2>1, <2>2, Zenon
<1>10. /\ \A l \in 1 .. n : l \in DOMAIN text /\ text[l] = text1[l]
       /\ \A l \in 1 .. n2 : n + l \in DOMAIN text /\ text[n + l] = text2[l]
    <2>1. \A l \in 1 .. n : l \in 1 .. n + n2 /\ l <= n
        BY <1>3
    <2>2. \A l \in 1 .. n2 : n + l \in 1 .. n + n2 /\ ~(n + l <= n) /\ (n + l) - n = l
        BY <1>3
    <2> QED
        BY <1>4, <2>1, <2>2, Zenon
<1>11. \A x, y \in Nat : \A z \in 1 .. x + y : z \in 1 .. x \/ \E v \in 1 .. y : z = x + v
    <2> SUFFICES ASSUME NEW x \in Nat, NEW y \in Nat, NEW z \in 1 .. x + y, z \notin 1 .. x
                 PROVE  \E v \in 1 .. y : z = x + v
        OBVIOUS
    <2>1. z - x \in 1 .. y /\ z = x + (z - x)
        OBVIOUS
    <2> QED
        BY <2>1
<1>12. /\ \A i \in DOMAIN s : i \in 1 .. k \/ \E j \in 1 .. k2 : i = k + j
       /\ \A l \in DOMAIN text : l \in 1 .. n \/ \E j \in 1 .. n2 : l = n + j
    <2>1. \A i \in 1 .. k + k2 : i \in 1 .. k \/ \E j \in 1 .. k2 : i = k + j
        BY <1>3, <1>11, Zenon
    <2>2. \A l \in 1 .. n + n2 : l \in 1 .. n \/ \E j \in 1 .. n2 : l = n + j
        BY <1>3, <1>11, Zenon
    <2> QED
        BY <1>4, <1>5, <2>1, <2>2
<1>13. \A i, j \in DOMAIN s : i < j => at[i] < at[j]
    <2> SUFFICES ASSUME NEW i \in DOMAIN s, NEW j \in DOMAIN s, i < j
                 PROVE  at[i] < at[j]
        OBVIOUS
    <2>1. CASE i \in 1 .. k /\ j \in 1 .. k
        <3>1. at1[i] < at1[j]
            BY <1>1, <1>3, <2>1, Zenon
        <3> QED
            BY <1>9, <2>1, <3>1, Zenon
    <2>2. ASSUME i \in 1 .. k, NEW v \in 1 .. k2, j = k + v
          PROVE  at[i] < at[j]
        <3>1. at[i] = at1[i] /\ at[j] = n + at2[v]
            BY <1>9, <2>2, Zenon
        <3>2. at1[i] \in 1 .. n /\ at2[v] \in 1 .. n2
            BY <1>6, <2>2, Zenon
        <3> QED
            BY <1>3, <3>1, <3>2
    <2>3. ASSUME NEW u \in 1 .. k2, i = k + u, NEW v \in 1 .. k2, j = k + v
          PROVE  at[i] < at[j]
        <3>1. at[i] = n + at2[u] /\ at[j] = n + at2[v]
            BY <1>9, <2>3, Zenon
        <3>2. u < v
            BY <1>3, <2>3
        <3>3. at2[u] \in 1 .. n2 /\ at2[v] \in 1 .. n2 /\ at2[u] < at2[v]
            BY <1>2, <1>3, <1>6, <3>2, Zenon
        <3> QED
            BY <1>3, <3>1, <3>3
    <2>4. ASSUME NEW u \in 1 .. k2, i = k + u, j \in 1 .. k
          PROVE  FALSE
        BY <1>3, <2>4
    <2> QED
        BY <1>12, <2>1, <2>2, <2>3, <2>4, Zenon
<1>14. \A i \in DOMAIN s : text[at[i]] = s[i]
    <2> SUFFICES ASSUME NEW i \in DOMAIN s PROVE text[at[i]] = s[i]
        OBVIOUS
    <2>1. CASE i \in 1 .. k
        <3>1. at1[i] \in 1 .. n /\ text1[at1[i]] = s1[i] /\ at[i] = at1[i] /\ s[i] = s1[i]
            BY <1>1, <1>3, <1>6, <1>9, <2>1, Zenon
        <3> QED
            BY <1>10, <3>1
    <2>2. ASSUME NEW v \in 1 .. k2, i = k + v PROVE text[at[i]] = s[i]
        <3>1. /\ at2[v] \in 1 .. n2 /\ text2[at2[v]] = s2[v]
              /\ at[k + v] = n + at2[v] /\ s[k + v] = s2[v]
            BY <1>2, <1>3, <1>6, <1>9, <2>2, Zenon
        <3>2. text[n + at2[v]] = text2[at2[v]]
            BY <1>10, <3>1
        <3> QED
            BY <2>2, <3>1, <3>2
    <2> QED
        BY <1>12, <2>1, <2>2, Zenon
<1>15. { l \in DOMAIN text : field \in DOMAIN text[l] } = { at[i] : i \in DOMAIN s }
    <2>1. ASSUME NEW l \in DOMAIN text, field \in DOMAIN text[l]
          PROVE  \E i \in DOMAIN s : l = at[i]
        <3>1. CASE l \in 1 .. n
            <4>1. PICK i \in 1 .. k : l = at1[i]
                <5>1. l \in DOMAIN text1 /\ field \in DOMAIN text1[l]
                    BY <1>3, <1>10, <2>1, <3>1
                <5>2. l \in { at1[i] : i \in DOMAIN s1 }
                    BY <1>1, <5>1, Zenon
                <5> QED
                    BY <1>3, <5>2, Zenon
            <4> QED
                BY <1>9, <4>1, Zenon
        <3>2. ASSUME NEW v \in 1 .. n2, l = n + v PROVE \E i \in DOMAIN s : l = at[i]
            <4>1. PICK i \in 1 .. k2 : v = at2[i]
                <5>1. v \in DOMAIN text2 /\ field \in DOMAIN text2[v]
                    BY <1>3, <1>10, <2>1, <3>2
                <5>2. v \in { at2[i] : i \in DOMAIN s2 }
                    BY <1>2, <5>1, Zenon
                <5> QED
                    BY <1>3, <5>2, Zenon
            <4> QED
                BY <1>9, <3>2, <4>1, Zenon
        <3> QED
            BY <1>12, <2>1, <3>1, <3>2, Zenon
    <2>2. ASSUME NEW i \in DOMAIN s
          PROVE  at[i] \in DOMAIN text /\ field \in DOMAIN text[at[i]]
        <3>1. CASE i \in 1 .. k
            <4>1. at1[i] \in 1 .. n /\ field \in DOMAIN text1[at1[i]]
                BY <1>1, <1>3, <1>6, <3>1, Zenon
            <4> QED
                BY <1>9, <1>10, <3>1, <4>1, Zenon
        <3>2. ASSUME NEW v \in 1 .. k2, i = k + v
              PROVE  at[i] \in DOMAIN text /\ field \in DOMAIN text[at[i]]
            <4>1. at2[v] \in 1 .. n2 /\ field \in DOMAIN text2[at2[v]]
                BY <1>2, <1>3, <1>6, <3>2, Zenon
            <4> QED
                BY <1>9, <1>10, <3>2, <4>1, Zenon
        <3> QED
            BY <1>12, <3>1, <3>2, Zenon
    <2> QED
        BY <2>1, <2>2, Zenon
<1>16. ShowsAt(text, field, s, at)
    BY <1>8, <1>13, <1>14, <1>15, Zenon DEF ShowsAt
<1> QED
    BY <1>16, ShowsIs DEF text, s

-------------------------------------------------------------------------------
(* Folds: one line more, or one chunk more *)

LEMMA MaxIs ==
    ASSUME NEW n \in Nat, NEW T \in SUBSET (0 .. n), T # {}
    PROVE  Max(T) \in T /\ \A y \in T : y <= Max(T)
<1> DEFINE Gaps == { n - x : x \in T }
<1>1. Gaps \in SUBSET Nat /\ Gaps # {}
    <2>1. \A x \in T : n - x \in Nat
        OBVIOUS
    <2> QED
        BY <2>1, Zenon
<1>2. PICK d \in Gaps : \A e \in Gaps : d <= e
    BY <1>1, LeastOf
<1>3. PICK x \in T : d = n - x
    OBVIOUS
<1>4. \A y \in T : x >= y
    <2> SUFFICES ASSUME NEW y \in T PROVE x >= y
        OBVIOUS
    <2>1. d <= n - y /\ x \in Int /\ y \in Int
        BY <1>2
    <2> QED
        BY <1>3, <2>1
<1>5. Max(T) \in T /\ \A y \in T : Max(T) >= y
    BY <1>4, Zenon DEF Max
<1>6. \A y \in T : y \in Int
    OBVIOUS
<1> QED
    BY <1>5, <1>6

LEMMA LesserIs ==
    ASSUME NEW x \in Nat, NEW y \in Nat
    PROVE  Min({x, y}) = IF x <= y THEN x ELSE y
<1>1. {x, y} \in SUBSET Nat /\ {x, y} # {}
    OBVIOUS
<1>2. Min({x, y}) \in {x, y} /\ Min({x, y}) <= x /\ Min({x, y}) <= y
    BY <1>1, MinIs
<1> QED
    BY <1>2

Then(kind, fs, n, acc, x) ==
    IF kind = "chunks" THEN Chunk(fs, n, acc, x) ELSE Line(acc, x)

\* g is the fold over the items in the places of D, by the subsets of it.
IsFold(g, kind, fs, n, base, items, D) ==
    g = [s \in SUBSET D |->
            IF s = {} THEN base
            ELSE Then(kind, fs, n, g[s \ {Max(s)}], items[Max(s)])]

FoldOf(kind, fs, n, base, items, D) ==
    (CHOOSE g : IsFold(g, kind, fs, n, base, items, D))[D]

LEMMA FoldingLines ==
    ASSUME NEW base, NEW items
    PROVE  FoldLeft(Line, base, items) = FoldOf("lines", <<>>, 0, base, items, DOMAIN items)
BY Zenon DEF FoldLeft, MapThenFoldSet, FoldOf, IsFold, Then

LEMMA FoldingChunks ==
    ASSUME NEW base, NEW items, NEW fs, NEW n
    PROVE  FoldLeft(LAMBDA acc, k : Chunk(fs, n, acc, k), base, items)
               = FoldOf("chunks", fs, n, base, items, DOMAIN items)
BY Zenon DEF FoldLeft, MapThenFoldSet, FoldOf, IsFold, Then

\* There is such a fold.
LEMMA FoldExists ==
    ASSUME NEW kind, NEW fs, NEW n, NEW base, NEW items, NEW m \in Nat
    PROVE  \E g : IsFold(g, kind, fs, n, base, items, 1 .. m)
<1> DEFINE More(acc, i) == Then(kind, fs, n, acc, items[i])
           G == { j \in Nat : \E g : IsFold(g, kind, fs, n, base, items, 1 .. j) }
<1>1. 0 \in G
    <2>1. 1 .. 0 = {} /\ SUBSET {} = {{}}
        OBVIOUS
    <2> DEFINE g == [s \in {{}} |-> base]
    <2>2. g = [s \in {{}} |-> IF s = {} THEN base ELSE More(g[s \ {Max(s)}], Max(s))]
        BY Zenon
    <2>3. IsFold(g, kind, fs, n, base, items, 1 .. 0)
        BY <2>1, <2>2 DEF IsFold
    <2> QED
        BY <2>3
<1>2. ASSUME NEW j \in Nat, j \in G PROVE j + 1 \in G
    <2>1. PICK g : IsFold(g, kind, fs, n, base, items, 1 .. j)
        BY <1>2
    <2>2. /\ \A s \in SUBSET (1 .. j) : s \in SUBSET (1 .. j + 1) /\ j + 1 \notin s
          /\ \A s \in SUBSET (1 .. j + 1) : s \ {j + 1} \in SUBSET (1 .. j)
          /\ \A s \in SUBSET (1 .. j + 1) : j + 1 \notin s => s \in SUBSET (1 .. j)
        OBVIOUS
    <2>3. \A s \in SUBSET (1 .. j + 1) : j + 1 \in s => Max(s) = j + 1
        <3> SUFFICES ASSUME NEW s \in SUBSET (1 .. j + 1), j + 1 \in s PROVE Max(s) = j + 1
            OBVIOUS
        <3>1. s \in SUBSET (0 .. j + 1) /\ s # {} /\ j + 1 \in Nat
            OBVIOUS
        <3>2. Max(s) \in s /\ j + 1 <= Max(s)
            BY <3>1, MaxIs
        <3>3. Max(s) \in 1 .. j + 1
            BY <3>2
        <3> QED
            BY <3>2, <3>3
    <2>4. \A s \in SUBSET (1 .. j) : s # {} => s \ {Max(s)} \in SUBSET (1 .. j)
        OBVIOUS
    <2> DEFINE D == 1 .. j
               E == 1 .. j + 1
               h == [s \in SUBSET E |->
                        IF j + 1 \in s THEN More(g[s \ {j + 1}], j + 1) ELSE g[s]]
    <2>5. \A s \in SUBSET D : g[s] = IF s = {} THEN base ELSE More(g[s \ {Max(s)}], Max(s))
        BY <2>1, Zenon DEF IsFold
    <2>6. \A s \in SUBSET E : h[s] = IF j + 1 \in s THEN More(g[s \ {j + 1}], j + 1) ELSE g[s]
        BY Zenon
    <2>7. h = [s \in SUBSET E |-> h[s]]
        BY Zenon
    <2> HIDE DEF More, D, E, h
    <2>8. \A s \in SUBSET D : h[s] = g[s]
        BY <2>2, <2>6, Zenon DEF D, E
    <2>9. \A s \in SUBSET E : h[s] = IF s = {} THEN base ELSE More(h[s \ {Max(s)}], Max(s))
        <3> SUFFICES ASSUME NEW s \in SUBSET E
                     PROVE  h[s] = IF s = {} THEN base ELSE More(h[s \ {Max(s)}], Max(s))
            OBVIOUS
        <3>1. CASE j + 1 \in s
            <4>1. s # {} /\ Max(s) = j + 1 /\ s \ {j + 1} \in SUBSET D
                BY <2>2, <2>3, <3>1 DEF D, E
            <4> QED
                BY <2>6, <2>8, <3>1, <4>1, Zenon
        <3>2. CASE j + 1 \notin s
            <4>1. s \in SUBSET D /\ (s # {} => s \ {Max(s)} \in SUBSET D)
                BY <2>2, <2>4, <3>2 DEF D, E
            <4> QED
                BY <2>5, <2>8, <4>1, Zenon
        <3> QED
            BY <3>1, <3>2
    <2>10. h = [s \in SUBSET E |-> IF s = {} THEN base ELSE More(h[s \ {Max(s)}], Max(s))]
        BY <2>7, <2>9, Zenon
    <2>11. IsFold(h, kind, fs, n, base, items, 1 .. j + 1)
        BY <2>10, Zenon DEF IsFold, More, E
    <2> QED
        BY <2>11
<1> HIDE DEF G
<1>3. m \in G
    BY <1>1, <1>2, NatInduction0, Zenon
<1> QED
    BY <1>3 DEF G

\* What the fold has come to after each item.
Stages(acc, kind, fs, n, base, items, m) ==
    /\ acc[0] = base
    /\ \A i \in 1 .. m : acc[i] = Then(kind, fs, n, acc[i - 1], items[i])
    /\ acc[m] = FoldOf(kind, fs, n, base, items, 1 .. m)

LEMMA FoldSteps ==
    ASSUME NEW kind, NEW fs, NEW n, NEW base, NEW items, NEW m \in Nat
    PROVE  \E acc : Stages(acc, kind, fs, n, base, items, m)
<1> DEFINE g == CHOOSE f : IsFold(f, kind, fs, n, base, items, 1 .. m)
           acc == [i \in 0 .. m |-> g[1 .. i]]
<1>1. IsFold(g, kind, fs, n, base, items, 1 .. m)
    BY FoldExists, Zenon
<1>2. FoldOf(kind, fs, n, base, items, 1 .. m) = g[1 .. m]
    BY Zenon DEF FoldOf
<1> HIDE DEF g
<1>3. \A i \in 0 .. m : acc[i] = g[1 .. i]
    BY Zenon
<1> HIDE DEF acc
<1>4. acc[0] = base
    <2>1. 0 \in 0 .. m /\ 1 .. 0 = {} /\ {} \in SUBSET (1 .. m)
        OBVIOUS
    <2>2. g[{}] = base
        BY <1>1, <2>1, Zenon DEF IsFold
    <2> QED
        BY <1>3, <2>1, <2>2
<1>5. ASSUME NEW i \in 1 .. m
      PROVE  acc[i] = Then(kind, fs, n, acc[i - 1], items[i])
    <2>1. 1 .. i \in SUBSET (1 .. m) /\ 1 .. i # {} /\ i \in 0 .. m /\ i - 1 \in 0 .. m
        OBVIOUS
    <2>2. Max(1 .. i) = i
        <3>1. 1 .. i \in SUBSET (0 .. m) /\ i \in 1 .. i
            OBVIOUS
        <3>2. Max(1 .. i) \in 1 .. i /\ i <= Max(1 .. i)
            BY <3>1, MaxIs
        <3> QED
            BY <3>2
    <2>3. (1 .. i) \ {i} = 1 .. i - 1
        OBVIOUS
    <2>4. g[1 .. i] = Then(kind, fs, n, g[(1 .. i) \ {Max(1 .. i)}], items[Max(1 .. i)])
        BY <1>1, <2>1, Zenon DEF IsFold
    <2>5. g[1 .. i] = Then(kind, fs, n, g[1 .. i - 1], items[i])
        BY <2>2, <2>3, <2>4
    <2> QED
        BY <1>3, <2>1, <2>5
<1>6. acc[m] = g[1 .. m]
    BY <1>3
<1> QED
    BY <1>2, <1>4, <1>5, <1>6, Zenon DEF Stages

-------------------------------------------------------------------------------
(* The dump of frames and labels *)

Entries == Frame \cup Mark

\* The text shows these frames and these labels.
Tells(text, fs, ms) ==
    /\ text \in Seq(Entries) /\ fs \in Seq(Frame) /\ ms \in Seq(Mark)
    /\ Shows(text, "id", fs) /\ Shows(text, "seq", ms)

LEMMA FieldsOf ==
    /\ \A f \in Frame : "id" \in DOMAIN f /\ "seq" \notin DOMAIN f
    /\ \A m \in Mark : "seq" \in DOMAIN m /\ "id" \notin DOMAIN m
<1>1. \A f \in Frame : DOMAIN f = {"id", "data", "recvUs"}
    BY Zenon DEF Frame
<1>2. \A m \in Mark : DOMAIN m = {"seq", "recvUs"}
    BY Zenon DEF Mark
<1> QED
    BY <1>1, <1>2

LEMMA EntriesOf ==
    ASSUME NEW fs \in Seq(Frame), NEW ms \in Seq(Mark)
    PROVE  fs \in Seq(Entries) /\ ms \in Seq(Entries)
BY SeqMonotonic, Zenon DEF Entries

LEMMA TellsBoth ==
    ASSUME NEW text1, NEW text2, NEW fs1, NEW fs2, NEW ms1, NEW ms2,
           Tells(text1, fs1, ms1), Tells(text2, fs2, ms2)
    PROVE  Tells(text1 \o text2, fs1 \o fs2, ms1 \o ms2)
<1>1. /\ text1 \in Seq(Entries) /\ fs1 \in Seq(Frame) /\ ms1 \in Seq(Mark)
      /\ Shows(text1, "id", fs1) /\ Shows(text1, "seq", ms1)
      /\ text2 \in Seq(Entries) /\ fs2 \in Seq(Frame) /\ ms2 \in Seq(Mark)
      /\ Shows(text2, "id", fs2) /\ Shows(text2, "seq", ms2)
    BY DEF Tells
<1>2. /\ fs1 \in Seq(Entries) /\ ms1 \in Seq(Entries)
      /\ fs2 \in Seq(Entries) /\ ms2 \in Seq(Entries)
    BY <1>1, EntriesOf
<1>3. Shows(text1 \o text2, "id", fs1 \o fs2)
    BY <1>1, <1>2, ShowsBoth
<1>4. Shows(text1 \o text2, "seq", ms1 \o ms2)
    BY <1>1, <1>2, ShowsBoth
<1>5. text1 \o text2 \in Seq(Entries)
    BY <1>1, ConcatProperties
<1>6. fs1 \o fs2 \in Seq(Frame) /\ ms1 \o ms2 \in Seq(Mark)
    BY <1>1, ConcatProperties
<1> QED
    BY <1>3, <1>4, <1>5, <1>6 DEF Tells

LEMMA TellsMarks ==
    ASSUME NEW ms \in Seq(Mark)
    PROVE  Tells(ms, <<>>, ms)
<1>1. ms \in Seq(Entries) /\ <<>> \in Seq(Frame)
    BY EntriesOf, EmptySeq
<1>2. \A l \in DOMAIN ms : ms[l] \in Mark
    BY LenProperties, ElementOfSeq
<1>3. \A l \in DOMAIN ms : "seq" \in DOMAIN ms[l] /\ "id" \notin DOMAIN ms[l]
    BY <1>2, FieldsOf, Zenon
<1>4. Shows(ms, "id", <<>>) /\ Shows(ms, "seq", ms)
    BY <1>1, <1>3, ShowsNothing, ShowsItself, Zenon
<1> QED
    BY <1>1, <1>4 DEF Tells

LEMMA TellsFrame ==
    ASSUME NEW f \in Frame
    PROVE  Tells(<<f>>, <<f>>, <<>>)
<1>1. <<f>> \in Seq(Frame) /\ <<>> \in Seq(Mark)
    BY EmptySeq
<1>2. <<f>> \in Seq(Entries)
    BY <1>1, EntriesOf
<1>3. \A l \in DOMAIN <<f>> : <<f>>[l] = f
    OBVIOUS
<1>4. \A l \in DOMAIN <<f>> : "id" \in DOMAIN <<f>>[l] /\ "seq" \notin DOMAIN <<f>>[l]
    BY <1>3, FieldsOf
<1>5. Shows(<<f>>, "id", <<f>>) /\ Shows(<<f>>, "seq", <<>>)
    BY <1>2, <1>4, ShowsNothing, ShowsItself
<1> QED
    BY <1>1, <1>2, <1>5 DEF Tells

LEMMA UpToIs ==
    ASSUME NEW ms \in Seq(Mark), NEW us
    PROVE  UpTo(ms, us) \in 0 .. Len(ms)
<1> DEFINE T == { j \in 0 .. Len(ms) : \A i \in 1 .. j : ms[i].recvUs <= us }
<1>1. Len(ms) \in Nat
    BY LenProperties
<1>2. T \in SUBSET (0 .. Len(ms)) /\ 0 \in T
    BY <1>1
<1>3. Max(T) \in T
    BY <1>1, <1>2, MaxIs
<1> QED
    BY <1>2, <1>3 DEF UpTo

\* What is taken from the front of the labels and what is left over.
LEMMA CutIs ==
    ASSUME NEW ms \in Seq(Mark), NEW j \in 0 .. Len(ms)
    PROVE  /\ SubSeq(ms, 1, j) \in Seq(Mark) /\ Dropped(ms, j) \in Seq(Mark)
           /\ SubSeq(ms, 1, j) \o Dropped(ms, j) = ms
<1>1. Len(ms) \in Nat /\ j \in Nat
    BY LenProperties
<1>2. \A i \in 1 .. Len(ms) : ms[i] \in Mark
    BY ElementOfSeq
<1>3. SubSeq(ms, 1, j) \in Seq(Mark)
    BY <1>1, <1>2, SubSeqProperties
<1>4. SubSeq(ms, j + 1, Len(ms)) \in Seq(Mark)
    BY <1>1, <1>2, SubSeqProperties
<1>5. SubSeq(ms, 1, j) \o SubSeq(ms, j + 1, Len(ms)) = SubSeq(ms, 1, Len(ms))
    <2>1. 1 \in 1 .. Len(ms) + 1 /\ j \in 1 - 1 .. Len(ms) /\ Len(ms) \in j .. Len(ms)
        BY <1>1
    <2> QED
        BY <2>1, ConcatAdjacentSubSeq
<1>6. SubSeq(ms, 1, Len(ms)) = ms
    BY SubSeqFull
<1> QED
    BY <1>3, <1>4, <1>5, <1>6 DEF Dropped

\* So far: what has been told, with what is left over, is all there is to tell.
SoFar(acc, fs, ms) ==
    \E shown : /\ Tells(acc.text, fs, shown)
               /\ acc.rest \in Seq(Mark) /\ shown \o acc.rest = ms

LEMMA FirstIs ==
    ASSUME NEW ms \in Seq(Mark)
    PROVE  SoFar([text |-> <<>>, rest |-> ms], <<>>, ms)
<1> DEFINE acc == [text |-> <<>>, rest |-> ms]
<1>1. acc.text = <<>> /\ acc.rest = ms
    BY Zenon
<1> HIDE DEF acc
<1>2. Tells(<<>>, <<>>, <<>>)
    BY EmptySeq, TellsMarks
<1>3. <<>> \o ms = ms
    BY ConcatEmptySeq
<1>4. SoFar(acc, <<>>, ms)
    BY <1>1, <1>2, <1>3 DEF SoFar
<1> QED
    BY <1>4 DEF acc

\* One piece of text more, that tells some frames and the first labels left over.
LEMMA MoreIs ==
    ASSUME NEW acc, NEW fs, NEW ms, SoFar(acc, fs, ms),
           NEW text, NEW more, NEW j \in 0 .. Len(acc.rest),
           Tells(text, more, SubSeq(acc.rest, 1, j))
    PROVE  SoFar([text |-> acc.text \o text, rest |-> Dropped(acc.rest, j)], fs \o more, ms)
<1>1. PICK shown : /\ Tells(acc.text, fs, shown)
                   /\ acc.rest \in Seq(Mark) /\ shown \o acc.rest = ms
    BY DEF SoFar
<1> DEFINE head == SubSeq(acc.rest, 1, j)
           left == Dropped(acc.rest, j)
           new == [text |-> acc.text \o text, rest |-> left]
<1>2. head \in Seq(Mark) /\ left \in Seq(Mark) /\ head \o left = acc.rest
    BY <1>1, CutIs
<1>3. shown \in Seq(Mark)
    BY <1>1 DEF Tells
<1>4. Tells(acc.text \o text, fs \o more, shown \o head)
    BY <1>1, TellsBoth
<1>5. new.text = acc.text \o text /\ new.rest = left
    BY Zenon
<1> HIDE DEF head, left, new
<1>6. (shown \o head) \o left = ms
    <2>1. shown \in Seq(Mark) /\ head \in Seq(Mark) /\ left \in Seq(Mark)
        BY <1>2, <1>3
    <2>2. (shown \o head) \o left = shown \o (head \o left)
        BY <2>1, ConcatAssociative
    <2> QED
        BY <1>1, <1>2, <2>2, Zenon
<1>7. SoFar(new, fs \o more, ms)
    BY <1>2, <1>4, <1>5, <1>6 DEF SoFar
<1> QED
    BY <1>7 DEF new, left

LEMMA LineIs ==
    ASSUME NEW acc, NEW fs, NEW ms, SoFar(acc, fs, ms), NEW f \in Frame
    PROVE  SoFar(Line(acc, f), fs \o <<f>>, ms)
<1> DEFINE j == UpTo(acc.rest, f.recvUs)
           head == SubSeq(acc.rest, 1, j)
           text == head \o <<f>>
<1>1. /\ acc.text \in Seq(Entries) /\ acc.rest \in Seq(Mark) /\ fs \in Seq(Frame)
    BY DEF SoFar, Tells
<1>2. j \in 0 .. Len(acc.rest)
    BY <1>1, UpToIs
<1>3. head \in Seq(Mark)
    BY <1>1, <1>2, CutIs
<1>4. Tells(head, <<>>, head) /\ Tells(<<f>>, <<f>>, <<>>)
    BY <1>3, TellsMarks, TellsFrame
<1>5. Tells(text, <<>> \o <<f>>, head \o <<>>)
    BY <1>4, TellsBoth
<1>6. <<f>> \in Seq(Frame)
    BY <1>4 DEF Tells
<1>7. <<>> \o <<f>> = <<f>> /\ head \o <<>> = head
    BY <1>3, <1>6, ConcatEmptySeq
<1>8. Tells(text, <<f>>, head)
    BY <1>5, <1>7
<1>9. head \in Seq(Entries) /\ <<f>> \in Seq(Entries) /\ f \in Entries
    BY <1>4 DEF Tells, Entries
<1>10. acc.text \o text = Append(acc.text \o head, f)
    <2> DEFINE old == acc.text
               line == <<f>>
    <2>3. old \in Seq(Entries) /\ head \in Seq(Entries) /\ line \in Seq(Entries)
        BY <1>1, <1>9
    <2> HIDE DEF old, line, head
    <2>4. old \o (head \o line) = (old \o head) \o line
        BY <2>3, ConcatAssociative
    <2>1. acc.text \o text = (acc.text \o head) \o <<f>>
        BY <2>4, Zenon DEF old, line
    <2>2. acc.text \o head \in Seq(Entries)
        BY <1>1, <1>9, ConcatProperties
    <2> QED
        BY <1>9, <2>1, <2>2, AppendIsConcat
<1> HIDE DEF text
<1>11. SoFar([text |-> acc.text \o text, rest |-> Dropped(acc.rest, j)], fs \o <<f>>, ms)
    BY <1>2, <1>8, MoreIs
<1>12. Line(acc, f) = [text |-> acc.text \o text, rest |-> Dropped(acc.rest, j)]
    BY <1>10, Zenon DEF Line
<1> QED
    BY <1>11, <1>12

LEMMA OneFrameMore ==
    ASSUME NEW fs \in Seq(Frame), NEW i \in 1 .. Len(fs)
    PROVE  /\ SubSeq(fs, 1, i - 1) \o <<fs[i]>> = SubSeq(fs, 1, i) /\ fs[i] \in Frame
<1>1. Len(fs) \in Nat /\ fs[i] \in Frame
    BY LenProperties, ElementOfSeq
<1>2. 1 \in 1 .. Len(fs) /\ i \in 1 .. Len(fs)
    BY <1>1
<1> QED
    BY <1>1, <1>2, SubSeqRecursiveSecond

\* dumpText() shows each frame and each label once, in their order.
LEMMA DumpTextTells ==
    ASSUME NEW fs \in Seq(Frame), NEW ms \in Seq(Mark)
    PROVE  Tells(DumpText(fs, ms), fs, ms)
<1> DEFINE base == [text |-> <<>>, rest |-> ms]
           m == Len(fs)
           lines == FoldLeft(Line, base, fs)
<1>1. m \in Nat /\ DOMAIN fs = 1 .. m
    BY LenProperties
<1>2. lines = FoldOf("lines", <<>>, 0, base, fs, 1 .. m)
    BY <1>1, FoldingLines
<1> HIDE DEF m
<1> HIDE DEF base
<1>3. PICK acc : Stages(acc, "lines", <<>>, 0, base, fs, m)
    BY <1>1, FoldSteps, Zenon
<1>4. /\ acc[0] = base /\ acc[m] = FoldOf("lines", <<>>, 0, base, fs, 1 .. m)
      /\ \A i \in 1 .. m : acc[i] = Line(acc[i - 1], fs[i])
    BY <1>3 DEF Stages, Then
<1> DEFINE G == { i \in Nat : i <= m => SoFar(acc[i], SubSeq(fs, 1, i), ms) }
<1>5. 0 \in G
    <2>1. SubSeq(fs, 1, 0) = <<>>
        BY SubSeqEmpty
    <2>2. SoFar(base, <<>>, ms)
        BY FirstIs DEF base
    <2> QED
        BY <1>4, <2>1, <2>2
<1>6. ASSUME NEW i \in Nat, i \in G PROVE i + 1 \in G
    <2> SUFFICES ASSUME i + 1 <= m PROVE SoFar(acc[i + 1], SubSeq(fs, 1, i + 1), ms)
        OBVIOUS
    <2>1. i <= m /\ i + 1 \in 1 .. m /\ (i + 1) - 1 = i
        BY <1>1
    <2>2. SoFar(acc[i], SubSeq(fs, 1, i), ms)
        BY <1>6, <2>1
    <2>3. SubSeq(fs, 1, i) \o <<fs[i + 1]>> = SubSeq(fs, 1, i + 1) /\ fs[i + 1] \in Frame
        BY <2>1, OneFrameMore DEF m
    <2>4. SoFar(Line(acc[i], fs[i + 1]), SubSeq(fs, 1, i) \o <<fs[i + 1]>>, ms)
        BY <2>2, <2>3, LineIs
    <2>5. acc[i + 1] = Line(acc[i], fs[i + 1])
        BY <1>4, <2>1
    <2> QED
        BY <2>3, <2>4, <2>5
<1> HIDE DEF G
<1>7. m \in G
    BY <1>1, <1>5, <1>6, NatInduction0, Zenon
<1>8. SoFar(lines, fs, ms)
    <2>1. SubSeq(fs, 1, m) = fs
        BY SubSeqFull DEF m
    <2>2. SoFar(acc[m], SubSeq(fs, 1, m), ms)
        BY <1>1, <1>7 DEF G
    <2> QED
        BY <1>2, <1>4, <2>1, <2>2
<1> HIDE DEF lines
<1>9. PICK shown : /\ Tells(lines.text, fs, shown)
                   /\ lines.rest \in Seq(Mark) /\ shown \o lines.rest = ms
    BY <1>8 DEF SoFar
<1>10. Tells(lines.rest, <<>>, lines.rest)
    BY <1>9, TellsMarks
<1>11. Tells(lines.text \o lines.rest, fs \o <<>>, shown \o lines.rest)
    BY <1>9, <1>10, TellsBoth
<1>12. fs \o <<>> = fs
    BY ConcatEmptySeq
<1> QED
    BY <1>9, <1>11, <1>12 DEF DumpText, lines, base

\* A chunk shows the frames that follow, and the last chunk leaves no label over.
LEMMA ChunkIs ==
    ASSUME NEW acc, NEW fs \in Seq(Frame), NEW ms, NEW n \in Nat \ {0}, NEW k \in Nat \ {0},
           (k - 1) * n < Len(fs), SoFar(acc, SubSeq(fs, 1, (k - 1) * n), ms)
    PROVE  /\ SoFar(Chunk(fs, n, acc, k), SubSeq(fs, 1, Min({k * n, Len(fs)})), ms)
           /\ k * n >= Len(fs) => Chunk(fs, n, acc, k).rest = <<>>
<1> DEFINE upto == Min({k * n, Len(fs)})
           piece == SubSeq(fs, (k - 1) * n + 1, upto)
           final == k * n >= Len(fs)
           j == IF final THEN Len(acc.rest) ELSE UpTo(acc.rest, piece[Len(piece)].recvUs)
           head == SubSeq(acc.rest, 1, j)
           p == (k - 1) * n
           text == DumpText(piece, head)
           new == [text |-> acc.text \o text, rest |-> Dropped(acc.rest, j)]
<1>1. p \in Nat /\ k * n = p + n /\ k * n \in Nat /\ Len(fs) \in Nat
    <2>1. k - 1 \in Nat /\ Len(fs) \in Nat
        BY LenProperties
    <2>2. \A i \in Nat : i * n \in Nat /\ (i + 1) * n = i * n + n
        OBVIOUS
    <2>3. (k - 1) + 1 = k
        OBVIOUS
    <2> QED
        BY <2>1, <2>2, <2>3
<1>2. upto \in p + 1 .. Len(fs)
    <2>1. upto = IF k * n <= Len(fs) THEN k * n ELSE Len(fs)
        BY <1>1, LesserIs
    <2> QED
        BY <1>1, <2>1
<1>3. acc.rest \in Seq(Mark) /\ Len(acc.rest) \in Nat
    BY LenProperties DEF SoFar
<1>4. j \in 0 .. Len(acc.rest)
    <2>1. UpTo(acc.rest, piece[Len(piece)].recvUs) \in 0 .. Len(acc.rest)
        BY <1>3, UpToIs
    <2>2. Len(acc.rest) \in 0 .. Len(acc.rest)
        BY <1>3
    <2> QED
        BY <2>1, <2>2, Zenon
<1>5. final => j = Len(acc.rest)
    BY Zenon
<1>6. Chunk(fs, n, acc, k) = new
    BY Zenon DEF Chunk, RestAfterChunk
<1>7. new.rest = Dropped(acc.rest, j)
    BY Zenon
<1> HIDE DEF j, final
<1>8. piece \in Seq(Frame) /\ SubSeq(fs, 1, p) \o piece = SubSeq(fs, 1, upto)
    <2> HIDE DEF p, upto
    <2>1. p + 1 \in Int /\ upto \in Int /\ \A i \in p + 1 .. upto : i \in 1 .. Len(fs)
        BY <1>1, <1>2
    <2>2. \A i \in p + 1 .. upto : fs[i] \in Frame
        BY <2>1, ElementOfSeq
    <2>3. SubSeq(fs, p + 1, upto) \in Seq(Frame)
        BY <2>1, <2>2, SubSeqProperties
    <2>4. 1 \in 1 .. Len(fs) + 1 /\ p \in 1 - 1 .. Len(fs) /\ upto \in p .. Len(fs)
        BY <1>1, <1>2
    <2>5. SubSeq(fs, 1, p) \o SubSeq(fs, p + 1, upto) = SubSeq(fs, 1, upto)
        BY <2>4, ConcatAdjacentSubSeq
    <2> QED
        BY <2>3, <2>5 DEF p
<1>9. head \in Seq(Mark)
    BY <1>3, <1>4, CutIs
<1> HIDE DEF piece, upto, head
<1>10. Tells(text, piece, head)
    BY <1>8, <1>9, DumpTextTells
<1> HIDE DEF text
<1>11. SoFar(new, SubSeq(fs, 1, p) \o piece, ms)
    BY <1>4, <1>10, MoreIs DEF head
<1> HIDE DEF new
<1>12. final => new.rest = <<>>
    <2> SUFFICES ASSUME final PROVE Dropped(acc.rest, Len(acc.rest)) = <<>>
        BY <1>5, <1>7
    <2> QED
        BY <1>3, SubSeqEmpty DEF Dropped
<1> QED
    BY <1>6, <1>8, <1>11, <1>12 DEF upto, final

\* There are as many chunks as it takes.
LEMMA ChunksAre ==
    ASSUME NEW l \in Nat, NEW n \in Nat \ {0}
    PROVE  LET m == (l + n - 1) \div n IN
           m \in Nat /\ m * n >= l /\ \A k \in 1 .. m : (k - 1) * n < l
<1> DEFINE m == (l + n - 1) \div n
           r == (l + n - 1) % n
<1>1. m \in Nat /\ r \in 0 .. n - 1 /\ l + n - 1 = n * m + r
    <2> DEFINE x == l + n - 1
    <2>1. x \in Nat
        OBVIOUS
    <2> HIDE DEF x
    <2>2. x \in Int
        BY <2>1
    <2>3. x % n \in 0 .. n - 1 /\ x = (n * (x \div n)) + (x % n)
        BY <2>2, DivMod
    <2>4. x \div n \in Nat
        BY <2>1, ModOfNat
    <2> QED
        BY <2>3, <2>4 DEF x
<1> HIDE DEF m, r
<1>2. n * m \in Nat /\ m * n = n * m
    BY <1>1
<1>3. ASSUME NEW k \in 1 .. m PROVE (k - 1) * n < l
    <2>1. n * (k - 1) + n <= n * m /\ n * (k - 1) \in Int
        BY <1>1, Multiples
    <2>2. (k - 1) * n = n * (k - 1)
        OBVIOUS
    <2> DEFINE x == n * (k - 1)
               y == n * m
    <2> HIDE DEF x, y
    <2>3. x + n <= y /\ x \in Int /\ y \in Nat /\ l + n - 1 = y + r
        BY <1>1, <1>2, <2>1 DEF x, y
    <2>4. x < l
        BY <1>1, <2>3
    <2> QED
        BY <2>2, <2>4 DEF x
<1>4. m * n >= l
    <2> DEFINE y == n * m
    <2>1. y \in Nat /\ l + n - 1 = y + r
        BY <1>1, <1>2
    <2> HIDE DEF y
    <2>2. y >= l
        BY <1>1, <2>1
    <2> QED
        BY <1>2, <2>2 DEF y
<1> QED
    BY <1>1, <1>3, <1>4 DEF m

\* GET /can/dump shows each frame and each label once, in their order.
LEMMA DumpTells ==
    ASSUME NEW fs \in Seq(Frame), NEW ms \in Seq(Mark), NEW n \in Nat \ {0}
    PROVE  Tells(Dump(fs, ms, n), fs, ms)
<1>1. CASE fs = <<>>
    <2>1. Dump(fs, ms, n) = DumpText(<<>>, ms)
        BY <1>1, Zenon DEF Dump
    <2>2. Tells(DumpText(fs, ms), fs, ms)
        BY DumpTextTells
    <2> QED
        BY <1>1, <2>1, <2>2
<1>2. CASE fs # <<>>
    <2> DEFINE l == Len(fs)
               m == (l + n - 1) \div n
               base == [text |-> <<>>, rest |-> ms]
               items == [i \in 1 .. m |-> i]
               chunks == FoldLeft(LAMBDA acc, k : Chunk(fs, n, acc, k), base, items)
    <2>1. Dump(fs, ms, n) = chunks.text
        BY <1>2, Zenon DEF Dump
    <2>2. DOMAIN items = 1 .. m /\ \A i \in 1 .. m : items[i] = i
        BY Zenon
    <2> HIDE DEF items
    <2>3. chunks = FoldOf("chunks", fs, n, base, items, 1 .. m)
        BY <2>2, FoldingChunks, Zenon
    <2>4. l \in Nat \ {0}
        BY <1>2, EmptySeq, LenProperties
    <2>5. m \in Nat /\ m * n >= l /\ \A k \in 1 .. m : (k - 1) * n < l
        BY <2>4, ChunksAre
    <2> HIDE DEF m, base, chunks
    <2>6. PICK acc : Stages(acc, "chunks", fs, n, base, items, m)
        BY <2>5, FoldSteps, Zenon
    <2>7. /\ acc[0] = base /\ acc[m] = FoldOf("chunks", fs, n, base, items, 1 .. m)
          /\ \A i \in 1 .. m : acc[i] = Chunk(fs, n, acc[i - 1], i)
        BY <2>2, <2>6 DEF Stages, Then
    <2> DEFINE Shown(i) == SubSeq(fs, 1, Min({i * n, l}))
               G == { i \in Nat : i <= m => SoFar(acc[i], Shown(i), ms) }
    <2>8. 0 \in G
        <3>1. Min({0 * n, l}) = 0
            <4>1. 0 * n = 0
                OBVIOUS
            <4>2. Min({0, l}) = 0
                BY <2>4, LesserIs
            <4> QED
                BY <4>1, <4>2
        <3>2. Shown(0) = <<>>
            BY <3>1, SubSeqEmpty
        <3>3. SoFar(base, <<>>, ms)
            BY FirstIs DEF base
        <3> HIDE DEF Shown
        <3> QED
            BY <2>7, <3>2, <3>3
    <2>9. ASSUME NEW i \in Nat, i + 1 <= m, SoFar(acc[i], Shown(i), ms)
          PROVE  /\ SoFar(acc[i + 1], Shown(i + 1), ms)
                 /\ (i + 1) * n >= l => acc[i + 1].rest = <<>>
        <3>1. i + 1 \in 1 .. m /\ (i + 1) - 1 = i /\ i + 1 \in Nat \ {0}
            BY <2>5, <2>9
        <3>2. i * n < l /\ i * n \in Nat
            <4>1. ((i + 1) - 1) * n < l
                BY <2>5, <3>1
            <4>2. i * n \in Nat
                OBVIOUS
            <4> QED
                BY <3>1, <4>1, <4>2
        <3>3. Min({i * n, l}) = i * n
            BY <2>4, <3>2, LesserIs
        <3>4. SoFar(acc[i], SubSeq(fs, 1, i * n), ms)
            BY <2>9, <3>3
        <3>5. acc[i + 1] = Chunk(fs, n, acc[i], i + 1)
            BY <2>7, <3>1
        <3>6. ((i + 1) - 1) * n < Len(fs) /\ SoFar(acc[i], SubSeq(fs, 1, ((i + 1) - 1) * n), ms)
            BY <3>1, <3>2, <3>4
        <3>7. /\ SoFar(Chunk(fs, n, acc[i], i + 1), SubSeq(fs, 1, Min({(i + 1) * n, Len(fs)})), ms)
              /\ (i + 1) * n >= Len(fs) => Chunk(fs, n, acc[i], i + 1).rest = <<>>
            BY <3>1, <3>6, ChunkIs, Zenon
        <3> QED
            BY <3>5, <3>7
    <2> HIDE DEF Shown
    <2>10. ASSUME NEW i \in Nat, i \in G PROVE i + 1 \in G
        <3> SUFFICES ASSUME i + 1 <= m PROVE SoFar(acc[i + 1], Shown(i + 1), ms)
            OBVIOUS
        <3>1. i <= m
            BY <2>5
        <3>2. SoFar(acc[i], Shown(i), ms)
            BY <2>10, <3>1
        <3> QED
            BY <2>9, <3>2
    <2> HIDE DEF G
    <2>11. \A i \in Nat : i \in G
        BY <2>8, <2>10, NatInduction0, Zenon
    <2>12. m # 0
        <3>1. 0 * n = 0
            OBVIOUS
        <3> QED
            BY <2>4, <2>5, <3>1
    <2>13. /\ SoFar(acc[m], Shown(m), ms) /\ acc[m].rest = <<>>
        <3>1. m - 1 \in Nat /\ (m - 1) + 1 = m /\ m - 1 <= m
            BY <2>5, <2>12
        <3>2. SoFar(acc[m - 1], Shown(m - 1), ms)
            BY <2>11, <3>1 DEF G
        <3> QED
            BY <2>5, <2>9, <3>1, <3>2
    <2>14. Shown(m) = fs
        <3>1. m * n \in Nat
            BY <2>5
        <3>2. Min({m * n, l}) = l
            BY <2>4, <2>5, <3>1, LesserIs
        <3> QED
            BY <3>2, SubSeqFull DEF Shown
    <2>15. PICK shown : Tells(chunks.text, fs, shown) /\ shown \o <<>> = ms
        BY <2>3, <2>7, <2>13, <2>14 DEF SoFar
    <2>16. shown = ms
        <3>1. shown \in Seq(Mark)
            BY <2>15 DEF Tells
        <3> QED
            BY <2>15, <3>1, ConcatEmptySeq
    <2> QED
        BY <2>1, <2>15, <2>16
<1> QED
    BY <1>1, <1>2

-------------------------------------------------------------------------------
(* The rings *)

\* The place of element k, the oldest first, of the last count elements put into a ring.
RingPlace(head, size, count, k) == (head + size - count + k - 1) % size

\* A ring of this size, its next place and its count keep s.
RingKeeps(r, head, count, size, s, S) ==
    /\ r \in [0 .. size - 1 -> S \cup {Free}]
    /\ head \in 0 .. size - 1 /\ count \in 0 .. size
    /\ s \in Seq(S) /\ Len(s) = count
    /\ \A k \in 1 .. count : r[RingPlace(head, size, count, k)] = s[k]

LEMMA RingPlaceIs ==
    ASSUME NEW size \in Nat \ {0}, NEW head \in 0 .. size - 1, NEW count \in 0 .. size,
           NEW k \in 1 .. count
    PROVE  RingPlace(head, size, count, k)
               = IF k <= count - head THEN head + size - count + k - 1 ELSE head - count + k - 1
<1> DEFINE x == head + size - count + k - 1
<1>1. x \in Nat
    OBVIOUS
<1>2. CASE k <= count - head
    <2>1. x < size
        BY <1>2
    <2> HIDE DEF x
    <2>2. x % size = x
        BY <1>1, <2>1, ModOfNat
    <2> QED
        BY <1>2, <2>2 DEF RingPlace, x
<1>3. CASE ~(k <= count - head)
    <2> DEFINE y == head - count + k - 1
    <2>1. y \in Nat /\ y < size
        BY <1>3
    <2>2. x = y + size * 1
        OBVIOUS
    <2> HIDE DEF x, y
    <2>3. (y + size * 1) % size = y % size
        BY <2>1, ModTurns
    <2>4. y % size = y
        BY <2>1, ModOfNat
    <2>5. x % size = y
        BY <2>2, <2>3, <2>4
    <2> QED
        BY <1>3, <2>5 DEF RingPlace, x, y
<1> QED
    BY <1>2, <1>3

LEMMA NextRingPlace ==
    ASSUME NEW size \in Nat \ {0}, NEW head \in 0 .. size - 1
    PROVE  (head + 1) % size = IF head + 1 < size THEN head + 1 ELSE 0
<1>1. CASE head + 1 < size
    <2> DEFINE x == head + 1
    <2>1. x \in Nat /\ x < size
        BY <1>1
    <2> HIDE DEF x
    <2>2. x % size = x
        BY <2>1, ModOfNat
    <2> QED
        BY <1>1, <2>2 DEF x
<1>2. CASE ~(head + 1 < size)
    <2>1. head + 1 = 0 + size * 1 /\ 0 < size /\ 0 \in Nat
        BY <1>2
    <2>2. (0 + size * 1) % size = 0 % size
        BY ModTurns
    <2>3. 0 % size = 0
        BY <2>1, ModOfNat
    <2> QED
        BY <1>2, <2>1, <2>2, <2>3
<1> QED
    BY <1>1, <1>2

\* One element more: it goes to the next place, and every other element that stays is where
\* it was.
LEMMA RingPlacesMove ==
    ASSUME NEW size \in Nat \ {0}, NEW head \in 0 .. size - 1, NEW count \in 0 .. size
    PROVE  LET next == (head + 1) % size
               more == IF count < size THEN count + 1 ELSE size
           IN /\ next \in 0 .. size - 1 /\ more \in 0 .. size
              /\ RingPlace(next, size, more, more) = head
              /\ \A k \in 1 .. more - 1 :
                    LET i == IF count < size THEN k ELSE k + 1 IN
                    /\ i \in 1 .. count
                    /\ RingPlace(next, size, more, k) = RingPlace(head, size, count, i)
                    /\ RingPlace(head, size, count, i) \in 0 .. size - 1
                    /\ RingPlace(head, size, count, i) # head
<1> DEFINE next == (head + 1) % size
           more == IF count < size THEN count + 1 ELSE size
<1>1. next = IF head + 1 < size THEN head + 1 ELSE 0
    BY NextRingPlace
<1> HIDE DEF next
<1>2. next \in 0 .. size - 1 /\ more \in 1 .. size
    BY <1>1
<1>3. \A k \in 1 .. more :
        RingPlace(next, size, more, k)
            = IF k <= more - next THEN next + size - more + k - 1 ELSE next - more + k - 1
    <2> HIDE DEF more
    <2>1. more \in 0 .. size
        BY <1>2
    <2> QED
        BY <1>2, <2>1, RingPlaceIs
<1>4. \A i \in 1 .. count :
        RingPlace(head, size, count, i)
            = IF i <= count - head THEN head + size - count + i - 1 ELSE head - count + i - 1
    BY RingPlaceIs
<1>5. RingPlace(next, size, more, more) = head
    <2>1. more \in 1 .. more
        BY <1>2
    <2>2. RingPlace(next, size, more, more)
            = IF more <= more - next THEN next + size - more + more - 1 ELSE next - more + more - 1
        BY <1>3, <2>1
    <2> QED
        BY <1>1, <1>2, <2>2
<1>6. ASSUME NEW k \in 1 .. more - 1, NEW i, i = IF count < size THEN k ELSE k + 1
      PROVE  /\ i \in 1 .. count
             /\ RingPlace(next, size, more, k) = RingPlace(head, size, count, i)
             /\ RingPlace(head, size, count, i) \in 0 .. size - 1
             /\ RingPlace(head, size, count, i) # head
    <2>1. i \in 1 .. count /\ k \in 1 .. more
        BY <1>2, <1>6
    <2>2. RingPlace(next, size, more, k)
            = IF k <= more - next THEN next + size - more + k - 1 ELSE next - more + k - 1
        BY <1>3, <2>1
    <2>3. RingPlace(head, size, count, i)
            = IF i <= count - head THEN head + size - count + i - 1 ELSE head - count + i - 1
        BY <1>4, <2>1
    <2> QED
        BY <1>1, <1>2, <1>6, <2>1, <2>2, <2>3
<1> QED
    BY <1>2, <1>5, <1>6 DEF next

LEMMA GreaterIs ==
    ASSUME NEW x \in Int, NEW y \in Int
    PROVE  Max({x, y}) = IF x >= y THEN x ELSE y
<1>1. \E z \in {x, y} : \A v \in {x, y} : z >= v
    OBVIOUS
<1>2. Max({x, y}) \in {x, y} /\ \A v \in {x, y} : Max({x, y}) >= v
    BY <1>1, Zenon DEF Max
<1>3. Max({x, y}) \in {x, y} /\ Max({x, y}) >= x /\ Max({x, y}) >= y
    BY <1>2, Zenon
<1> QED
    BY <1>3

LEMMA LatestIs ==
    ASSUME NEW S, NEW s \in Seq(S), NEW n \in Nat
    PROVE  LET m == IF n < Len(s) THEN n ELSE Len(s) IN
           /\ Latest(s, n) \in Seq(S) /\ Len(Latest(s, n)) = m
           /\ \A k \in 1 .. m : Latest(s, n)[k] = s[Len(s) - m + k]
<1> DEFINE l == Len(s)
           m == IF n < l THEN n ELSE l
           from == Max({1, l - n + 1})
<1>1. l \in Nat
    BY LenProperties
<1>2. \A i \in 1 .. l : s[i] \in S
    BY ElementOfSeq
<1> HIDE DEF l
<1>3. from = l - m + 1
    <2>1. l - n + 1 \in Int /\ 1 \in Int
        BY <1>1
    <2>2. from = IF 1 >= l - n + 1 THEN 1 ELSE l - n + 1
        BY <2>1, GreaterIs
    <2> HIDE DEF from
    <2> QED
        BY <1>1, <2>2
<1>4. from \in Int /\ from >= 1 /\ m \in Nat /\ m = l - from + 1
    <2> HIDE DEF from
    <2> QED
        BY <1>1, <1>3
<1> HIDE DEF from, m
<1>5. \A i \in from .. l : s[i] \in S
    BY <1>1, <1>2, <1>4
<1>6. /\ SubSeq(s, from, l) \in Seq(S)
      /\ Len(SubSeq(s, from, l)) = IF from <= l THEN l - from + 1 ELSE 0
      /\ \A i \in 1 .. l - from + 1 : SubSeq(s, from, l)[i] = s[from + i - 1]
    BY <1>1, <1>4, <1>5, SubSeqProperties
<1>7. Latest(s, n) = SubSeq(s, from, l)
    BY Zenon DEF Latest, from, l
<1> DEFINE t == SubSeq(s, from, l)
<1> HIDE DEF t
<1>8. t \in Seq(S) /\ Len(t) = m
    BY <1>1, <1>4, <1>6 DEF t
<1>9. ASSUME NEW k \in 1 .. m PROVE t[k] = s[l - m + k]
    <2>1. k \in 1 .. l - from + 1 /\ from + k - 1 = l - m + k
        BY <1>1, <1>4
    <2> QED
        BY <1>6, <2>1 DEF t
<1> QED
    BY <1>7, <1>8, <1>9, Zenon DEF t, m, l

\* Writing to the next place of a ring.
LEMMA RingTakes ==
    ASSUME NEW S, NEW size \in Nat \ {0}, NEW r, NEW head, NEW count, NEW s, NEW f \in S,
           RingKeeps(r, head, count, size, s, S)
    PROVE  RingKeeps([r EXCEPT ![head] = f], (head + 1) % size, Min({count + 1, size}), size,
                     Latest(Append(s, f), size), S)
<1> DEFINE next == (head + 1) % size
           more == IF count < size THEN count + 1 ELSE size
           r2 == [r EXCEPT ![head] = f]
           t == Latest(Append(s, f), size)
<1>1. head \in 0 .. size - 1 /\ count \in 0 .. size
    BY Zenon DEF RingKeeps
<1>2. Min({count + 1, size}) = more
    <2>1. count + 1 \in Nat /\ size \in Nat
        BY <1>1
    <2>2. Min({count + 1, size}) = IF count + 1 <= size THEN count + 1 ELSE size
        BY <2>1, LesserIs
    <2> QED
        BY <1>1, <2>2
<1>3. /\ next \in 0 .. size - 1 /\ more \in 0 .. size
      /\ RingPlace(next, size, more, more) = head
      /\ \A k \in 1 .. more - 1 :
            LET i == IF count < size THEN k ELSE k + 1 IN
            /\ i \in 1 .. count
            /\ RingPlace(next, size, more, k) = RingPlace(head, size, count, i)
            /\ RingPlace(head, size, count, i) \in 0 .. size - 1
            /\ RingPlace(head, size, count, i) # head
    BY <1>1, RingPlacesMove
<1>4. /\ r2 \in [0 .. size - 1 -> S \cup {Free}] /\ r2[head] = f
      /\ \A p \in 0 .. size - 1 : p # head => r2[p] = r[p]
    <2>1. r \in [0 .. size - 1 -> S \cup {Free}]
        BY Zenon DEF RingKeeps
    <2> QED
        BY <1>1, <2>1, Zenon
<1> HIDE DEF r2
<1>5. /\ t \in Seq(S) /\ Len(t) = more /\ t[more] = f
      /\ \A k \in 1 .. more - 1 : t[k] = s[IF count < size THEN k ELSE k + 1]
    <2>1. s \in Seq(S) /\ Len(s) = count
        BY Zenon DEF RingKeeps
    <2> DEFINE s2 == Append(s, f)
    <2>2. /\ s2 \in Seq(S) /\ Len(s2) = count + 1 /\ s2[count + 1] = f
          /\ \A i \in 1 .. count : s2[i] = s[i]
        BY <2>1, AppendProperties
    <2> HIDE DEF s2
    <2> DEFINE m == IF size < Len(s2) THEN size ELSE Len(s2)
    <2>3. m = more
        BY <1>1, <2>2
    <2>4. /\ Latest(s2, size) \in Seq(S) /\ Len(Latest(s2, size)) = m
          /\ \A k \in 1 .. m : Latest(s2, size)[k] = s2[Len(s2) - m + k]
        BY <2>2, LatestIs
    <2> DEFINE u == Latest(s2, size)
    <2> HIDE DEF m, u
    <2>5. u \in Seq(S) /\ Len(u) = more /\ \A k \in 1 .. more : u[k] = s2[count + 1 - more + k]
        <3> HIDE DEF more
        <3>1. u \in Seq(S) /\ Len(u) = m /\ \A k \in 1 .. m : u[k] = s2[Len(s2) - m + k]
            BY <2>4, Zenon DEF u
        <3>2. u \in Seq(S) /\ Len(u) = more /\ \A k \in 1 .. more : u[k] = s2[Len(s2) - more + k]
            BY <2>3, <3>1
        <3>3. ASSUME NEW k \in 1 .. more PROVE u[k] = s2[count + 1 - more + k]
            <4>1. Len(s2) - more + k = count + 1 - more + k
                BY <1>1, <1>3, <2>2
            <4> QED
                BY <3>2, <4>1
        <3> QED
            BY <3>2, <3>3
    <2>6. u[more] = f
        <3>1. more \in 1 .. more /\ count + 1 - more + more = count + 1
            BY <1>1
        <3>2. u[more] = s2[count + 1 - more + more]
            BY <2>5, <3>1
        <3> QED
            BY <2>2, <3>1, <3>2
    <2>7. ASSUME NEW k \in 1 .. more - 1 PROVE u[k] = s[IF count < size THEN k ELSE k + 1]
        <3> DEFINE i == IF count < size THEN k ELSE k + 1
        <3>1. k \in 1 .. more /\ count + 1 - more + k = i /\ i \in 1 .. count
            BY <1>1
        <3> HIDE DEF i
        <3>2. u[k] = s2[i]
            BY <2>5, <3>1
        <3>3. s2[i] = s[i]
            BY <2>2, <3>1
        <3> QED
            BY <3>2, <3>3 DEF i
    <2> HIDE DEF more
    <2> QED
        BY <2>5, <2>6, <2>7, Zenon DEF u, s2
<1> HIDE DEF t
<1>6. \A k \in 1 .. count : r[RingPlace(head, size, count, k)] = s[k]
    BY Zenon DEF RingKeeps
<1>7. ASSUME NEW k \in 1 .. more PROVE r2[RingPlace(next, size, more, k)] = t[k]
    <2>1. CASE k = more
        BY <1>3, <1>4, <1>5, <2>1, Zenon
    <2>2. CASE k # more
        <3> DEFINE i == IF count < size THEN k ELSE k + 1
        <3>1. k \in 1 .. more - 1
            BY <1>1, <2>2
        <3>2. /\ i \in 1 .. count
              /\ RingPlace(next, size, more, k) = RingPlace(head, size, count, i)
              /\ RingPlace(head, size, count, i) \in 0 .. size - 1
              /\ RingPlace(head, size, count, i) # head
              /\ t[k] = s[i]
            BY <1>3, <1>5, <3>1, Zenon
        <3> HIDE DEF i
        <3>3. r2[RingPlace(head, size, count, i)] = r[RingPlace(head, size, count, i)]
            BY <1>4, <3>2, Zenon
        <3>4. r[RingPlace(head, size, count, i)] = s[i]
            BY <1>6, <3>2, Zenon
        <3> QED
            BY <3>2, <3>3, <3>4, Zenon
    <2> QED
        BY <2>1, <2>2
<1> HIDE DEF next, more
<1>8. RingKeeps(r2, next, more, size, t, S)
    BY <1>3, <1>4, <1>5, <1>7, Zenon DEF RingKeeps
<1> QED
    BY <1>2, <1>8, Zenon DEF r2, next, t

LEMMA RingStartsEmpty ==
    ASSUME NEW S, NEW size \in Nat \ {0}, NEW r \in [0 .. size - 1 -> S \cup {Free}]
    PROVE  RingKeeps(r, 0, 0, size, <<>>, S)
<1>1. 0 \in 0 .. size - 1 /\ 0 \in 0 .. size
    OBVIOUS
<1>2. \A k \in 1 .. 0 : FALSE
    OBVIOUS
<1>3. <<>> \in Seq(S) /\ Len(<<>>) = 0
    BY EmptySeq
<1> QED
    BY <1>1, <1>2, <1>3, Zenon DEF RingKeeps

\* What recentFrames() and recentMarks() copy from a ring: the l latest, oldest first.
RingLatest(r, head, size, l) == [k \in 1 .. l |-> r[(head + size - l + k - 1) % size]]

\* It is the latest of what the ring keeps.
LEMMA RingShows ==
    ASSUME NEW S, NEW size \in Nat \ {0}, NEW r, NEW head, NEW count, NEW s, NEW l \in 0 .. count,
           RingKeeps(r, head, count, size, s, S)
    PROVE  /\ RingLatest(r, head, size, l) \in Seq(S)
           /\ RingLatest(r, head, size, l) = Latest(s, l)
<1>1. /\ head \in 0 .. size - 1 /\ count \in 0 .. size /\ s \in Seq(S) /\ Len(s) = count
      /\ \A k \in 1 .. count : r[RingPlace(head, size, count, k)] = s[k]
    BY Zenon DEF RingKeeps
<1> DEFINE m == IF l < Len(s) THEN l ELSE Len(s)
           t == Latest(s, l)
<1>2. m = l /\ l \in Nat
    BY <1>1
<1>3. t \in Seq(S) /\ Len(t) = m /\ \A k \in 1 .. m : t[k] = s[Len(s) - m + k]
    BY <1>1, <1>2, LatestIs
<1> HIDE DEF m, t
<1>4. /\ t \in Seq(S) /\ Len(t) = l
      /\ \A k \in 1 .. l : t[k] = s[count - l + k]
    BY <1>1, <1>2, <1>3
<1>5. ASSUME NEW k \in 1 .. l
      PROVE  r[(head + size - l + k - 1) % size] = s[count - l + k]
    <2>1. count - l + k \in 1 .. count
        BY <1>1
    <2>2. head + size - count + (count - l + k) - 1 = head + size - l + k - 1
        BY <1>1
    <2>3. RingPlace(head, size, count, count - l + k) = (head + size - l + k - 1) % size
        BY <2>2, Zenon DEF RingPlace
    <2> QED
        BY <1>1, <2>1, <2>3, Zenon
<1> DEFINE u == [k \in 1 .. l |-> r[(head + size - l + k - 1) % size]]
<1>6. DOMAIN u = 1 .. l /\ \A k \in 1 .. l : u[k] = t[k]
    BY <1>4, <1>5, Zenon
<1>7. u = [k \in 1 .. l |-> u[k]]
    BY Zenon
<1>8. t = [k \in 1 .. l |-> t[k]]
    BY <1>4, LenProperties, Zenon
<1> HIDE DEF u
<1>9. u = t
    BY <1>6, <1>7, <1>8, Zenon
<1> QED
    BY <1>4, <1>9, Zenon DEF u, t, RingLatest

\* Both rings keep what came since the reset.
RingsKeep ==
    /\ RingKeeps(ring, ringHead, ringCount, RingSize, lately, Frame)
    /\ RingKeeps(marks, markHead, markCount, MarkRing, labels, Mark)

LEMMA RingsStart == FInit => RingsKeep
<1> SUFFICES ASSUME FInit PROVE RingsKeep
    OBVIOUS
<1>1. RingSize \in Nat \ {0} /\ MarkRing \in Nat \ {0}
    BY TableAssumption
<1>2. /\ ring = [i \in 0 .. RingSize - 1 |-> Free] /\ ringHead = 0 /\ ringCount = 0 /\ lately = <<>>
      /\ marks = [i \in 0 .. MarkRing - 1 |-> Free] /\ markHead = 0 /\ markCount = 0 /\ labels = <<>>
    BY DEF FInit
<1>3. /\ ring \in [0 .. RingSize - 1 -> Frame \cup {Free}]
      /\ marks \in [0 .. MarkRing - 1 -> Mark \cup {Free}]
    BY <1>2, Zenon
<1>4. /\ RingKeeps(ring, 0, 0, RingSize, <<>>, Frame)
      /\ RingKeeps(marks, 0, 0, MarkRing, <<>>, Mark)
    BY <1>1, <1>3, RingStartsEmpty
<1> QED
    BY <1>2, <1>4, Zenon DEF RingsKeep

LEMMA RingsNext == FInv /\ RingsKeep /\ (FNext \/ UNCHANGED fvars) => RingsKeep'
<1> SUFFICES ASSUME FInv, RingsKeep, FNext \/ UNCHANGED fvars PROVE RingsKeep'
    OBVIOUS
<1>1. RingSize \in Nat \ {0} /\ MarkRing \in Nat \ {0}
    BY TableAssumption
<1>2. /\ RingKeeps(ring, ringHead, ringCount, RingSize, lately, Frame)
      /\ RingKeeps(marks, markHead, markCount, MarkRing, labels, Mark)
    BY Zenon DEF RingsKeep
<1>3. ASSUME UNCHANGED <<ring, ringHead, ringCount, lately>>
      PROVE  RingKeeps(ring', ringHead', ringCount', RingSize, lately', Frame)
    <2>1. ring' = ring /\ ringHead' = ringHead /\ ringCount' = ringCount /\ lately' = lately
        BY <1>3
    <2> QED
        BY <1>2, <2>1, Zenon
<1>4. ASSUME UNCHANGED <<marks, markHead, markCount, labels>>
      PROVE  RingKeeps(marks', markHead', markCount', MarkRing, labels', Mark)
    <2>1. marks' = marks /\ markHead' = markHead /\ markCount' = markCount /\ labels' = labels
        BY <1>4
    <2> QED
        BY <1>2, <2>1, Zenon
<1>5. CASE Receive
    <2>1. PICK f : /\ f \in Frame
                   /\ ring' = [ring EXCEPT ![ringHead] = f]
                   /\ ringHead' = (ringHead + 1) % RingSize
                   /\ ringCount' = Min({ringCount + 1, RingSize})
                   /\ lately' = Latest(Append(lately, f), RingSize)
                   /\ UNCHANGED <<marks, markHead, markCount, labels>>
        <3>1. PICK id \in Ids, age \in {0, 1} : \E data \in Traffic[id], mask \in Masks[id] :
                /\ age <= now
                /\ Observe([id |-> id, data |-> data, recvUs |-> now - age], mask)
            BY <1>5 DEF Receive
        <3>2. PICK data \in Traffic[id], mask \in Masks[id] :
                /\ age <= now
                /\ Observe([id |-> id, data |-> data, recvUs |-> now - age], mask)
            BY <3>1
        <3> DEFINE f == [id |-> id, data |-> data, recvUs |-> now - age]
        <3>3. f \in Frame
            <4>1. data \in Payloads
                BY TableAssumption
            <4>2. now - age \in Time
                BY <3>2, UptimeAssumption DEF FInv, FTypeOK, Time
            <4> QED
                BY <4>1, <4>2, Zenon DEF Frame
        <3> HIDE DEF f
        <3>4. Observe(f, mask)
            BY <3>2 DEF f
        <3> QED
            BY <3>3, <3>4 DEF Observe, markVars
    <2>2. RingKeeps(ring', ringHead', ringCount', RingSize, lately', Frame)
        <3>1. RingKeeps([ring EXCEPT ![ringHead] = f], (ringHead + 1) % RingSize,
                        Min({ringCount + 1, RingSize}), RingSize,
                        Latest(Append(lately, f), RingSize), Frame)
            BY <1>1, <1>2, <2>1, RingTakes
        <3> QED
            BY <2>1, <3>1, Zenon
    <2> QED
        BY <1>4, <2>1, <2>2, Zenon DEF RingsKeep
<1>6. ASSUME NEW u \in Markers, StampMark(u) PROVE RingsKeep'
    BY <1>3, <1>4, <1>6 DEF StampMark, ringVars, markVars, RingsKeep
<1>7. ASSUME NEW s \in stamps, AddMark(s) PROVE RingsKeep'
    <2> DEFINE m == [seq |-> markSeq + 1, recvUs |-> s.at]
    <2>1. m \in Mark
        <3>1. markSeq + 1 \in 1 .. MaxMarks
            <4>1. /\ markSeq \in Nat /\ IsFiniteSet(stamps) /\ MaxMarks \in Nat
                  /\ markSeq + Cardinality(stamps) <= MaxMarks
                BY TableAssumption DEF FInv, FTypeOK, StampsFit
            <4>2. Cardinality(stamps) \in Nat /\ Cardinality(stamps) # 0
                BY <4>1, FS_CardinalityType, FS_EmptySet
            <4> QED
                BY <4>1, <4>2
        <3>2. s.at \in Time
            BY DEF FInv, FTypeOK
        <3> QED
            BY <3>1, <3>2, Zenon DEF Mark
    <2> HIDE DEF m
    <2>2. /\ marks' = [marks EXCEPT ![markHead] = m] /\ labels' = Latest(Append(labels, m), MarkRing)
          /\ markHead' = (markHead + 1) % MarkRing /\ markCount' = Min({markCount + 1, MarkRing})
          /\ UNCHANGED <<ring, ringHead, ringCount, lately>>
        BY <1>7, Zenon DEF AddMark, ringVars, m
    <2>3. RingKeeps(marks', markHead', markCount', MarkRing, labels', Mark)
        <3>1. RingKeeps([marks EXCEPT ![markHead] = m], (markHead + 1) % MarkRing,
                        Min({markCount + 1, MarkRing}), MarkRing,
                        Latest(Append(labels, m), MarkRing), Mark)
            BY <1>1, <1>2, <2>1, RingTakes
        <3> QED
            BY <2>2, <3>1, Zenon
    <2> QED
        BY <1>3, <2>2, <2>3, Zenon DEF RingsKeep
<1>8. CASE Reset
    <2>1. /\ ringHead' = 0 /\ ringCount' = 0 /\ lately' = <<>> /\ ring' = ring
          /\ markHead' = 0 /\ markCount' = 0 /\ labels' = <<>> /\ marks' = marks
        BY <1>8 DEF Reset
    <2>2. /\ ring \in [0 .. RingSize - 1 -> Frame \cup {Free}]
          /\ marks \in [0 .. MarkRing - 1 -> Mark \cup {Free}]
        BY <1>2, Zenon DEF RingKeeps
    <2>3. /\ RingKeeps(ring, 0, 0, RingSize, <<>>, Frame)
          /\ RingKeeps(marks, 0, 0, MarkRing, <<>>, Mark)
        BY <1>1, <2>2, RingStartsEmpty
    <2> QED
        BY <2>1, <2>3, Zenon DEF RingsKeep
<1>9. CASE FTick \/ UNCHANGED fvars
    BY <1>3, <1>4, <1>9 DEF FTick, fvars, ringVars, markVars, RingsKeep
<1> QED
    BY <1>5, <1>6, <1>7, <1>8, <1>9 DEF FNext

LEMMA RecentIs ==
    ASSUME FInv, RingsKeep, NEW limit \in Nat
    PROVE  /\ RecentFrames(limit) \in Seq(Frame)
           /\ RecentFrames(limit) = Latest(lately, IF limit = 0 THEN RingSize ELSE limit)
           /\ RecentMarks \in Seq(Mark) /\ RecentMarks = labels
<1>1. /\ RingSize \in Nat \ {0} /\ MarkRing \in Nat \ {0}
      /\ ringHead \in 0 .. RingSize - 1 /\ ringCount \in 0 .. RingSize
      /\ markHead \in 0 .. MarkRing - 1 /\ markCount \in 0 .. MarkRing
    BY TableAssumption DEF FInv, FTypeOK
<1>2. /\ RingKeeps(ring, ringHead, ringCount, RingSize, lately, Frame)
      /\ RingKeeps(marks, markHead, markCount, MarkRing, labels, Mark)
    BY Zenon DEF RingsKeep
<1>3. /\ lately \in Seq(Frame) /\ Len(lately) = ringCount
      /\ labels \in Seq(Mark) /\ Len(labels) = markCount
    BY <1>2, Zenon DEF RingKeeps
<1>4. ASSUME NEW S, NEW q \in Seq(S), NEW i \in Nat, NEW j \in Nat,
             (IF i < Len(q) THEN i ELSE Len(q)) = (IF j < Len(q) THEN j ELSE Len(q))
      PROVE  Latest(q, i) = Latest(q, j)
    <2> DEFINE m == IF i < Len(q) THEN i ELSE Len(q)
               x == Latest(q, i)
               y == Latest(q, j)
    <2>1. x \in Seq(S) /\ Len(x) = m /\ \A k \in 1 .. m : x[k] = q[Len(q) - m + k]
        BY LatestIs
    <2>2. y \in Seq(S) /\ Len(y) = m /\ \A k \in 1 .. m : y[k] = q[Len(q) - m + k]
        <3> DEFINE n == IF j < Len(q) THEN j ELSE Len(q)
        <3>1. y \in Seq(S) /\ Len(y) = n /\ \A k \in 1 .. n : y[k] = q[Len(q) - n + k]
            BY LatestIs
        <3>2. n = m
            BY <1>4
        <3> HIDE DEF n, m, y
        <3> QED
            BY <3>1, <3>2
    <2> HIDE DEF m, x, y
    <2>3. x = y
        BY <2>1, <2>2, SeqEqual
    <2> QED
        BY <2>3 DEF x, y
<1>5. /\ RecentFrames(limit) \in Seq(Frame)
      /\ RecentFrames(limit) = Latest(lately, IF limit = 0 THEN RingSize ELSE limit)
    <2> DEFINE n == IF limit = 0 \/ limit > ringCount THEN ringCount ELSE limit
               u == [k \in 1 .. n |-> ring[(ringHead + RingSize - n + k - 1) % RingSize]]
    <2>1. n \in 0 .. ringCount
        BY <1>1
    <2>2. u \in Seq(Frame) /\ u = Latest(lately, n)
        <3>1. /\ RingSize \in Nat \ {0} /\ n \in 0 .. ringCount
              /\ RingKeeps(ring, ringHead, ringCount, RingSize, lately, Frame)
            BY <1>1, <1>2, <2>1
        <3> HIDE DEF n
        <3>2. /\ RingLatest(ring, ringHead, RingSize, n) \in Seq(Frame)
              /\ RingLatest(ring, ringHead, RingSize, n) = Latest(lately, n)
            BY <3>1, RingShows
        <3> QED
            BY <3>2, Zenon DEF RingLatest
    <2>3. RecentFrames(limit) = u
        <3>1. ASSUME NEW k \in 1 .. n
              PROVE  (Oldest(n) + k - 1) % RingSize = (ringHead + RingSize - n + k - 1) % RingSize
            <4> DEFINE x == ringHead + RingSize - n
                       y == k - 1
            <4>1. x \in Int /\ y \in Int
                BY <1>1, <2>1
            <4>2. ringHead + RingSize - n + k - 1 = x + y
                BY <1>1, <2>1
            <4> HIDE DEF x, y
            <4>3. RingSize \in Nat \ {0}
                BY <1>1
            <4>4. ((x % RingSize) + y) % RingSize = (x + y) % RingSize
                BY <4>1, <4>3, ModOfSum, Zenon
            <4>5. x % RingSize \in Int
                BY <4>1, <4>3
            <4>6. (x % RingSize) + k - 1 = (x % RingSize) + y
                BY <4>5 DEF y
            <4>7. Oldest(n) = x % RingSize
                BY Zenon DEF Oldest, x
            <4> QED
                BY <4>2, <4>4, <4>6, <4>7, Zenon
        <3> HIDE DEF n
        <3>2. [k \in 1 .. n |-> ring[(Oldest(n) + k - 1) % RingSize]] = u
            BY <3>1, Zenon
        <3> QED
            BY <3>2, Zenon DEF RecentFrames, n
    <2>4. Latest(lately, n) = Latest(lately, IF limit = 0 THEN RingSize ELSE limit)
        <3> DEFINE j == IF limit = 0 THEN RingSize ELSE limit
        <3>1. n \in Nat /\ j \in Nat
            BY <1>1, <2>1
        <3>2. (IF n < Len(lately) THEN n ELSE Len(lately)) = (IF j < Len(lately) THEN j ELSE Len(lately))
            BY <1>1, <1>3
        <3> HIDE DEF n, j
        <3>3. Latest(lately, n) = Latest(lately, j)
            BY <1>3, <1>4, <3>1, <3>2
        <3> QED
            BY <3>3 DEF j
    <2> HIDE DEF n, u
    <2> QED
        BY <2>2, <2>3, <2>4, Zenon
<1>6. RecentMarks \in Seq(Mark) /\ RecentMarks = labels
    <2>1. /\ MarkRing \in Nat \ {0} /\ markCount \in 0 .. markCount
          /\ RingKeeps(marks, markHead, markCount, MarkRing, labels, Mark)
        BY <1>1, <1>2
    <2>2. RecentMarks \in Seq(Mark) /\ RecentMarks = Latest(labels, markCount)
        <3>1. /\ RingLatest(marks, markHead, MarkRing, markCount) \in Seq(Mark)
              /\ RingLatest(marks, markHead, MarkRing, markCount) = Latest(labels, markCount)
            BY <2>1, RingShows
        <3> QED
            BY <3>1, Zenon DEF RecentMarks, RingLatest
    <2>3. Latest(labels, markCount) = labels
        <3> DEFINE x == Latest(labels, markCount)
                   m == IF markCount < Len(labels) THEN markCount ELSE Len(labels)
        <3>1. markCount \in Nat /\ m = markCount
            BY <1>1, <1>3
        <3>2. x \in Seq(Mark) /\ Len(x) = m /\ \A k \in 1 .. m : x[k] = labels[Len(labels) - m + k]
            BY <1>3, <3>1, LatestIs
        <3> HIDE DEF x, m
        <3>3. \A k \in 1 .. Len(x) : x[k] = labels[k]
            BY <1>3, <3>1, <3>2
        <3> QED
            BY <1>3, <3>1, <3>2, <3>3, SeqEqual DEF x
    <2> QED
        BY <2>2, <2>3
<1> QED
    BY <1>5, <1>6

\* Whatever the limit and the size of the chunks, a dump shows the latest frames and every
\* label that is kept, each once and in its order (dumpText, can_dump_get_handler).
THEOREM DumpsAreComplete == FSpec => []DumpIsComplete
<1>1. FInit => RingsKeep
    BY RingsStart
<1>2. FInv /\ FInv' /\ RingsKeep /\ [FNext]_fvars => RingsKeep'
    BY RingsNext
<1>3. FInv /\ RingsKeep => DumpIsComplete
    <2> SUFFICES ASSUME FInv, RingsKeep, NEW limit \in 0 .. RingSize + 1, NEW n \in 1 .. RingSize
                 PROVE  LET text == Dump(RecentFrames(limit), RecentMarks, n) IN
                        /\ Shows(text, "id", Latest(lately, IF limit = 0 THEN RingSize ELSE limit))
                        /\ Shows(text, "seq", labels)
        BY DEF DumpIsComplete
    <2>1. limit \in Nat /\ n \in Nat \ {0}
        BY TableAssumption
    <2>2. /\ RecentFrames(limit) \in Seq(Frame)
          /\ RecentFrames(limit) = Latest(lately, IF limit = 0 THEN RingSize ELSE limit)
          /\ RecentMarks \in Seq(Mark) /\ RecentMarks = labels
        BY <2>1, RecentIs
    <2>3. Tells(Dump(RecentFrames(limit), RecentMarks, n), RecentFrames(limit), RecentMarks)
        BY <2>1, <2>2, DumpTells
    <2> QED
        BY <2>2, <2>3, Zenon DEF Tells
<1> QED
    BY <1>1, <1>2, <1>3, CaptureInvariant, PTL DEF FSpec

-------------------------------------------------------------------------------
(* The signals: rounding *)

\* A value is shown as a number of units, at most half a unit off; exactly half a unit only
\* when it lies half way between two.
LEMMA RoundedIs ==
    ASSUME NEW x \in Int, NEW u \in Nat \ {0}
    PROVE  \E m \in Int : /\ Rounded(x, u) = u * m
                          /\ 2 * (u * m) - 2 * x <= u /\ 2 * x - 2 * (u * m) <= u
                          /\ (2 * x) % (2 * u) # u => /\ 2 * (u * m) - 2 * x < u
                                                      /\ 2 * x - 2 * (u * m) < u
<1>1. 2 * u \in Nat \ {0} /\ 2 * x \in Int
    OBVIOUS
<1>2. ASSUME NEW q \in Int PROVE (2 * u) * q = 2 * (u * q) /\ u * (-q) = -(u * q) /\ u * q \in Int
    OBVIOUS
<1>3. CASE x >= 0
    <2> DEFINE q == (2 * x + u) \div (2 * u)
    <2> DEFINE r == (2 * x + u) % (2 * u)
    <2>1. q \in Int /\ r \in 0 .. 2 * u - 1 /\ 2 * x + u = ((2 * u) * q) + r
        <3>1. 2 * x + u \in Int
            OBVIOUS
        <3> QED
            BY <1>1, <3>1, DivMod, Zenon
    <2>2. Rounded(x, u) = u * q
        BY <1>3 DEF Rounded
    <2> HIDE DEF q, r
    <2>3. 2 * x + u = 2 * (u * q) + r /\ u * q \in Int
        BY <1>2, <2>1
    <2>4. r = 0 => (2 * x) % (2 * u) = u
        <3>1. (2 * u) * (q - 1) = 2 * (u * q) - 2 * u
            BY <2>1
        <3> SUFFICES ASSUME r = 0 PROVE (2 * x) % (2 * u) = u
            OBVIOUS
        <3>2. 2 * x = ((2 * u) * (q - 1)) + u
            BY <2>3, <3>1
        <3>3. q - 1 \in Int /\ u \in 0 .. 2 * u - 1
            BY <2>1
        <3> QED
            BY <1>1, <3>2, <3>3, DivModUnique
    <2> QED
        BY <2>1, <2>2, <2>3, <2>4
<1>4. CASE x < 0
    <2> DEFINE q == (u - 2 * x) \div (2 * u)
    <2> DEFINE r == (u - 2 * x) % (2 * u)
    <2>1. q \in Int /\ r \in 0 .. 2 * u - 1 /\ u - 2 * x = ((2 * u) * q) + r
        <3>1. u - 2 * x \in Int
            OBVIOUS
        <3> QED
            BY <1>1, <3>1, DivMod, Zenon
    <2>2. Rounded(x, u) = -(u * q)
        BY <1>4 DEF Rounded
    <2> HIDE DEF q, r
    <2>3. u - 2 * x = 2 * (u * q) + r /\ u * q \in Int /\ u * (-q) = -(u * q)
        BY <1>2, <2>1
    <2>4. r = 0 => (2 * x) % (2 * u) = u
        <3> SUFFICES ASSUME r = 0 PROVE (2 * x) % (2 * u) = u
            OBVIOUS
        <3>1. (2 * u) * (-q) = -(2 * (u * q))
            BY <2>1
        <3>2. 2 * x = ((2 * u) * (-q)) + u
            BY <2>3, <3>1
        <3>3. -q \in Int /\ u \in 0 .. 2 * u - 1
            BY <2>1
        <3> QED
            BY <1>1, <3>2, <3>3, DivModUnique
    <2>5. -q \in Int
        BY <2>1
    <2> QED
        BY <2>1, <2>2, <2>3, <2>4, <2>5
<1> QED
    BY <1>3, <1>4

LEMMA Scaled ==
    ASSUME NEW u \in Nat \ {0}, NEW m \in Int, NEW n \in Int, m <= n
    PROVE  u * m <= u * n
<1>1. CASE m = n
    BY <1>1
<1>2. CASE m < n
    BY <1>2, Multiples
<1> QED
    BY <1>1, <1>2

\* Two values that are no further apart than a step.
LEMMA ShownApart ==
    ASSUME NEW s, s.scale \in Int, s.offset \in Int, s.unit \in Nat \ {0},
           NEW v \in Int, NEW w \in Int, Distance(v, w) <= 1
    PROVE  LET x == Rounded(v * s.scale + s.offset, s.unit)
               y == Rounded(w * s.scale + s.offset, s.unit)
           IN x \in Int /\ y \in Int /\ Distance(x, y) <= StepShown(s)
<1> DEFINE u == s.unit
<1> DEFINE step == Distance(s.scale, 0)
<1> DEFINE p == v * s.scale + s.offset
<1> DEFINE o == w * s.scale + s.offset
<1> DEFINE n == (step + u - 1) \div u
<1> DEFINE r == (step + u - 1) % u
<1> DEFINE halves == step % u = 0 /\ (2 * s.offset) % (2 * u) = u
<1>1. u \in Nat \ {0} /\ 2 * u \in Nat \ {0} /\ step \in Nat /\ p \in Int /\ o \in Int
    BY DEF Distance
<1>2. /\ p - o <= step /\ o - p <= step
    <2>1. v = w \/ v = w + 1 \/ w = v + 1
        BY DEF Distance
    <2>2. (w + 1) * s.scale = w * s.scale + s.scale /\ (v + 1) * s.scale = v * s.scale + s.scale
        OBVIOUS
    <2>3. w * s.scale \in Int /\ v * s.scale \in Int
        OBVIOUS
    <2> QED
        BY <2>1, <2>2, <2>3 DEF Distance
<1>3. n \in Int /\ r \in 0 .. u - 1 /\ step + u - 1 = (u * n) + r
    <2>1. step + u - 1 \in Int
        BY <1>1
    <2> QED
        BY <1>1, <2>1, DivMod, Zenon
<1>4. u * n \in Int
    BY <1>1, <1>3
<1>5. StepShown(s) = (u * n) + IF halves THEN u ELSE 0
    BY DEF StepShown
<1>6. step % u = 0 => /\ (2 * p) % (2 * u) = (2 * s.offset) % (2 * u)
                      /\ (2 * o) % (2 * u) = (2 * s.offset) % (2 * u)
    <2> SUFFICES ASSUME step % u = 0
                 PROVE  /\ (2 * p) % (2 * u) = (2 * s.offset) % (2 * u)
                        /\ (2 * o) % (2 * u) = (2 * s.offset) % (2 * u)
        OBVIOUS
    <2>1. PICK k \in Int : s.scale = u * k
        <3>1. step \div u \in Int /\ step = u * (step \div u)
            <4>1. step \in Int /\ step \div u \in Int /\ step = (u * (step \div u)) + (step % u)
                <5>1. step \in Int
                    BY <1>1
                <5> QED
                    BY <1>1, <5>1, DivMod, Zenon
            <4>2. u * (step \div u) \in Int
                BY <1>1, <4>1
            <4> QED
                BY <4>1, <4>2
        <3>2. s.scale = u * (step \div u) \/ s.scale = u * (-(step \div u))
            BY <1>1, <3>1 DEF Distance
        <3> QED
            BY <3>1, <3>2
    <2>2. ASSUME NEW z \in Int
          PROVE  (2 * (z * s.scale + s.offset)) % (2 * u) = (2 * s.offset) % (2 * u)
        <3>1. 2 * (z * s.scale + s.offset) = 2 * s.offset + ((2 * u) * (z * k))
            <4>1. z * (u * k) = u * (z * k) /\ (2 * u) * (z * k) = 2 * (u * (z * k))
                BY <1>1
            <4>2. z * s.scale = u * (z * k) /\ u * (z * k) \in Int
                BY <1>1, <2>1, <4>1
            <4> QED
                BY <4>1, <4>2
        <3>2. z * k \in Int /\ 2 * s.offset \in Int
            OBVIOUS
        <3>3. (2 * s.offset + ((2 * u) * (z * k))) % (2 * u) = (2 * s.offset) % (2 * u)
            BY <1>1, <3>2, ModTurns, Zenon
        <3> QED
            BY <3>1, <3>3
    <2> QED
        BY <2>2
<1>7. step % u # 0 => r # u - 1
    <2> HIDE DEF step, u, n, r
    <2> SUFFICES ASSUME r = u - 1 PROVE step % u = 0
        OBVIOUS
    <2>1. step \in Int /\ u \in Nat \ {0} /\ n \in Int /\ 0 \in 0 .. u - 1
        BY <1>1, <1>3
    <2>2. step = (u * n) + 0
        BY <1>1, <1>3, <1>4
    <2> QED
        BY ONLY <2>1, <2>2, DivModUnique, Zenon
<1> DEFINE x == Rounded(p, u)
<1> DEFINE y == Rounded(o, u)
<1>8. PICK i \in Int : /\ x = u * i
                       /\ 2 * (u * i) - 2 * p <= u /\ 2 * p - 2 * (u * i) <= u
                       /\ (2 * p) % (2 * u) # u => 2 * (u * i) - 2 * p < u /\ 2 * p - 2 * (u * i) < u
    BY <1>1, RoundedIs
<1>9. PICK j \in Int : /\ y = u * j
                       /\ 2 * (u * j) - 2 * o <= u /\ 2 * o - 2 * (u * j) <= u
                       /\ (2 * o) % (2 * u) # u => 2 * (u * j) - 2 * o < u /\ 2 * o - 2 * (u * j) < u
    BY <1>1, RoundedIs
<1>10. u * i \in Int /\ u * j \in Int
    BY <1>1, <1>8, <1>9
<1> DEFINE evenly == step % u = 0
<1> DEFINE halfway == (2 * s.offset) % (2 * u) = u
<1>11. /\ evenly /\ ~halfway => /\ 2 * (u * i) - 2 * p < u /\ 2 * p - 2 * (u * i) < u
                                /\ 2 * (u * j) - 2 * o < u /\ 2 * o - 2 * (u * j) < u
       /\ ~evenly => r # u - 1
       /\ StepShown(s) = (u * n) + IF evenly /\ halfway THEN u ELSE 0
    BY <1>5, <1>6, <1>7, <1>8, <1>9
<1> HIDE DEF u, step, p, o, n, r, x, y, halves, evenly, halfway
<1>12. CASE evenly /\ halfway
    <2>1. (u * i) - (u * j) <= (u * n) + u /\ (u * j) - (u * i) <= (u * n) + u
        BY <1>1, <1>2, <1>3, <1>4, <1>8, <1>9, <1>10
    <2> QED
        BY <1>1, <1>4, <1>8, <1>9, <1>10, <1>11, <1>12, <2>1 DEF Distance, x, y, p, o, u
<1>13. CASE ~(evenly /\ halfway)
    <2>1. (u * i) - (u * j) < (u * n) + u /\ (u * j) - (u * i) < (u * n) + u
        BY <1>1, <1>2, <1>3, <1>4, <1>8, <1>9, <1>10, <1>11, <1>13
    <2>2. (u * i) - (u * j) <= u * n
        <3>1. CASE n < i - j
            <4>1. (u * n) + u <= u * (i - j) /\ u * (i - j) = (u * i) - (u * j)
                BY <1>1, <1>3, <3>1, Multiples
            <4> QED
                BY <1>1, <1>4, <1>10, <2>1, <4>1
        <3>2. CASE i - j <= n
            <4>1. u * (i - j) <= u * n /\ u * (i - j) = (u * i) - (u * j)
                BY <1>1, <1>3, <3>2, Scaled
            <4> QED
                BY <4>1
        <3> QED
            BY <1>3, <3>1, <3>2
    <2>3. (u * j) - (u * i) <= u * n
        <3>1. CASE n < j - i
            <4>1. (u * n) + u <= u * (j - i) /\ u * (j - i) = (u * j) - (u * i)
                BY <1>1, <1>3, <3>1, Multiples
            <4> QED
                BY <1>1, <1>4, <1>10, <2>1, <4>1
        <3>2. CASE j - i <= n
            <4>1. u * (j - i) <= u * n /\ u * (j - i) = (u * j) - (u * i)
                BY <1>1, <1>3, <3>2, Scaled
            <4> QED
                BY <4>1
        <3> QED
            BY <1>3, <3>1, <3>2
    <2> QED
        BY <1>4, <1>8, <1>9, <1>10, <1>11, <1>13, <2>2, <2>3 DEF Distance, x, y, p, o, u
<1> QED
    BY <1>12, <1>13

-------------------------------------------------------------------------------
(* The signals: words and what they count *)

\* A start of the powers of two.
Doubles(g, m) ==
    \A n \in 0 .. m : g[n] \in Nat /\ g[n] = IF n = 0 THEN 1 ELSE 2 * g[n - 1]

LEMMA DoublesExist == \A m \in Nat : \E g : Doubles(g, m)
<1> DEFINE G == { m \in Nat : \E g : Doubles(g, m) }
<1>1. 0 \in G
    <2> DEFINE g == [n \in {0} |-> 1]
    <2>1. Doubles(g, 0)
        BY DEF Doubles
    <2> QED
        BY <2>1
<1>2. ASSUME NEW m \in Nat, m \in G PROVE m + 1 \in G
    <2>1. PICK g : Doubles(g, m)
        BY <1>2
    <2> DEFINE k == [n \in 0 .. m + 1 |-> IF n <= m THEN g[n] ELSE 2 * g[m]]
    <2>2. \A n \in 0 .. m : g[n] \in Nat /\ g[n] = IF n = 0 THEN 1 ELSE 2 * g[n - 1]
        BY <2>1 DEF Doubles
    <2>3. Doubles(k, m + 1)
        <3> SUFFICES ASSUME NEW n \in 0 .. m + 1
                     PROVE  k[n] \in Nat /\ k[n] = IF n = 0 THEN 1 ELSE 2 * k[n - 1]
            BY DEF Doubles
        <3>1. CASE n <= m
            BY <2>2, <3>1
        <3>2. CASE n = m + 1
            BY <2>2, <3>2
        <3> QED
            BY <3>1, <3>2
    <2> HIDE DEF k
    <2> QED
        BY <2>3
<1> HIDE DEF G
<1>3. Nat \subseteq G
    BY <1>1, <1>2, NatInduction0
<1> QED
    BY <1>3 DEF G

LEMMA DoublesAgree ==
    ASSUME NEW g, NEW h, NEW m \in Nat, NEW l \in Nat, Doubles(g, m), Doubles(h, l)
    PROVE  \A n \in Nat : n <= m /\ n <= l => g[n] = h[n]
<1> DEFINE G == { n \in Nat : n <= m /\ n <= l => g[n] = h[n] }
<1>1. 0 \in G
    BY DEF Doubles
<1>2. ASSUME NEW n \in Nat, n \in G PROVE n + 1 \in G
    <2> SUFFICES ASSUME n + 1 <= m, n + 1 <= l PROVE g[n + 1] = h[n + 1]
        OBVIOUS
    <2>1. g[n] = h[n]
        BY <1>2
    <2>2. n + 1 \in 0 .. m /\ n + 1 \in 0 .. l /\ n + 1 # 0 /\ (n + 1) - 1 = n
        OBVIOUS
    <2>3. g[n + 1] = 2 * g[n] /\ h[n + 1] = 2 * h[n]
        BY <2>2 DEF Doubles
    <2> QED
        BY <2>1, <2>3
<1> HIDE DEF G
<1>3. Nat \subseteq G
    BY <1>1, <1>2, NatInduction0
<1> QED
    BY <1>3 DEF G

LEMMA PowersAreNat == \A n \in Nat : PowerOfTwo[n] \in Nat
<1> DEFINE Start(n) == CHOOSE g : Doubles(g, n)
<1> DEFINE f == [n \in Nat |-> Start(n)[n]]
<1>1. \A n \in Nat : Doubles(Start(n), n)
    BY DoublesExist
<1> HIDE DEF Start
<1>2. ASSUME NEW n \in Nat PROVE f[n] = IF n = 0 THEN 1 ELSE 2 * f[n - 1]
    <2>1. CASE n = 0
        BY <1>1, <2>1 DEF Doubles
    <2>2. CASE n # 0
        <3>1. n - 1 \in Nat /\ n \in 0 .. n
            BY <2>2
        <3>2. Start(n)[n] = 2 * Start(n)[n - 1]
            BY <1>1, <2>2, <3>1 DEF Doubles
        <3>3. Start(n)[n - 1] = Start(n - 1)[n - 1]
            BY <1>1, <3>1, DoublesAgree
        <3> QED
            BY <2>2, <3>1, <3>2, <3>3
    <2> QED
        BY <2>1, <2>2
<1>3. f = [n \in Nat |-> IF n = 0 THEN 1 ELSE 2 * f[n - 1]]
    BY <1>2
<1> HIDE DEF f
<1>4. \E k : k = [n \in Nat |-> IF n = 0 THEN 1 ELSE 2 * k[n - 1]]
    BY <1>3
<1>5. PowerOfTwo = [n \in Nat |-> IF n = 0 THEN 1 ELSE 2 * PowerOfTwo[n - 1]]
    BY <1>4 DEF PowerOfTwo
<1> DEFINE G == { n \in Nat : PowerOfTwo[n] \in Nat }
<1>6. 0 \in G
    BY <1>5
<1>7. ASSUME NEW n \in Nat, n \in G PROVE n + 1 \in G
    <2>1. PowerOfTwo[n + 1] = 2 * PowerOfTwo[n]
        <3>1. n + 1 \in Nat /\ n + 1 # 0 /\ (n + 1) - 1 = n
            OBVIOUS
        <3> QED
            BY <1>5, <3>1
    <2> QED
        BY <1>7, <2>1
<1> HIDE DEF G
<1>8. Nat \subseteq G
    BY <1>6, <1>7, NatInduction0
<1> QED
    BY <1>8 DEF G

\* Every word counts a number.
LEMMA NumbersAreNat == \A word \in Words : NumberOf[word] \in Nat
<1> SUFFICES ASSUME NEW word \in Words PROVE NumberOf[word] \in Nat
    OBVIOUS
<1> DEFINE D == 0 .. WordBits - 1
<1>1. IsFiniteSet(D) /\ D \subseteq Nat /\ word \in SUBSET D
    BY FS_Interval, SignalAssumption DEF Words
<1> DEFINE h == [n \in D |-> PowerOfTwo[n]]
<1>2. h \in [D -> Nat]
    BY <1>1, PowersAreNat
<1>3. Total(h, word) \in Nat
    BY <1>1, <1>2, TotalIs
<1>4. NumberOf[word] = Total(PowerOfTwo, word)
    BY FoldingSums DEF NumberOf
<1>5. Total(PowerOfTwo, word) = Total(h, word)
    <2>1. \A n \in word : h[n] = PowerOfTwo[n]
        BY <1>1
    <2> HIDE DEF h
    <2>2. ASSUME NEW g PROVE IsSum(g, PowerOfTwo, SUBSET word) <=> IsSum(g, h, SUBSET word)
        <3>1. \A s \in SUBSET word : s # {} => One(s) \in word
            BY OneIs
        <3>2. Step(PowerOfTwo, SUBSET word, g) = Step(h, SUBSET word, g)
            BY <2>1, <3>1 DEF Step
        <3> QED
            BY <3>2 DEF IsSum
    <2> QED
        BY <2>2 DEF Total
<1> QED
    BY <1>3, <1>4, <1>5

\* The bits of a byte of the list, where rawValue() puts them, fit the word.
LEMMA LanesFit ==
    ASSUME NEW byte \in Byte, NEW i \in Nat \ {0}, NEW s, NEW ub \in Undefined
    PROVE  Lane(byte, Place(s, i), ub) \in Words
<1> DEFINE n == ByteBits
<1> DEFINE j == i - 1
<1> DEFINE W == WordBits \div n
<1>1. n \in Nat \ {0} /\ WordBits \in Nat \ {0} /\ j \in Nat
    BY SignalAssumption DEF ByteBits
<1>2. W \in Nat /\ WordBits = n * W
    <2>1. WordBits \in Int /\ W \in Int /\ W \in Nat
        BY <1>1, ModOfNat
    <2>2. WordBits = (n * W) + (WordBits % n)
        BY <1>1, <2>1, DivMod, Zenon
    <2>3. n * W \in Int /\ WordBits % n = 0
        BY <1>1, <2>1, SignalAssumption
    <2> QED
        BY <2>1, <2>2, <2>3
<1>3. Place(s, i) = n * j /\ n * j \in Nat
    BY <1>1, ProductIsMore DEF Place
<1> HIDE DEF n, j, W
<1>4. ASSUME NEW k \in Nat, n * k < WordBits, NEW x \in byte
      PROVE  x + (n * k) \in 0 .. WordBits - 1
    <2>1. x \in 0 .. n - 1
        BY DEF Byte, n
    <2>2. k < W
        <3>1. CASE W <= k
            <4>1. W = k \/ W < k
                BY <1>2, <3>1
            <4>2. n * W <= n * k
                BY <1>1, <1>2, <4>1, Multiples
            <4> QED
                BY <1>1, <1>2, <1>4, <4>2
        <3> QED
            BY <1>2, <3>1
    <2>3. (n * k) + n <= WordBits /\ n * k \in Nat
        BY <1>1, <1>2, <2>2, Multiples, ProductIsMore
    <2> QED
        BY <1>1, <2>1, <2>3
<1>5. CASE n * j < WordBits
    BY <1>1, <1>3, <1>4, <1>5 DEF Lane, Shifted, Words
<1>6. CASE n * j >= WordBits /\ ub = "modulo"
    <2>1. W # 0 /\ W \in Nat \ {0}
        <3>1. W = 0 => n * W = 0
            BY <1>1
        <3> QED
            BY <1>1, <1>2, <3>1
    <2>2. PICK k \in Nat : k < W /\ (n * j) % WordBits = n * k
        <3> DEFINE d == j \div W
        <3> DEFINE k == j % W
        <3>1. d \in Int /\ k \in 0 .. W - 1 /\ j = (W * d) + k
            <4>1. j \in Int
                BY <1>1
            <4> QED
                BY <2>1, <4>1, DivMod, Zenon
        <3> HIDE DEF d, k
        <3>2. n * j = ((n * W) * d) + (n * k)
            BY <1>1, <1>2, <3>1
        <3>3. n * k \in 0 .. WordBits - 1
            <4>1. (n * k) + n <= n * W /\ k \in Nat
                BY <1>1, <1>2, <3>1, Multiples
            <4>2. n * k \in Nat
                BY <1>1, <4>1, ProductIsMore
            <4> QED
                BY <1>1, <1>2, <4>1, <4>2
        <3>4. (n * j) % WordBits = n * k
            <4>1. n * j \in Int /\ n * j = (WordBits * d) + (n * k)
                BY <1>2, <1>3, <3>2
            <4> QED
                BY <1>1, <3>1, <3>3, <4>1, DivModUnique
        <3> QED
            BY <1>2, <3>1, <3>4
    <2>3. n * k < WordBits
        <3>1. (n * k) + n <= n * W /\ n * k \in Int
            BY <1>1, <1>2, <2>2, Multiples
        <3> QED
            BY <1>1, <1>2, <3>1
    <2>4. Lane(byte, Place(s, i), ub) = Shifted(byte, n * k)
        <3>1. ~(n * j < WordBits)
            BY <1>1, <1>3, <1>6
        <3>2. "modulo" # "dropped"
            OBVIOUS
        <3> QED
            BY <1>3, <1>6, <2>2, <3>1, <3>2 DEF Lane
    <2> QED
        BY <1>4, <2>2, <2>3, <2>4 DEF Shifted, Words
<1>7. CASE n * j >= WordBits /\ ub = "dropped"
    <2>1. ~(n * j < WordBits) /\ "modulo" # "dropped"
        BY <1>1, <1>3, <1>7
    <2>2. Lane(byte, Place(s, i), ub) = {}
        BY <1>3, <1>7, <2>1 DEF Lane
    <2> QED
        BY <2>2 DEF Words
<1> QED
    BY <1>1, <1>3, <1>5, <1>6, <1>7 DEF Undefined

-------------------------------------------------------------------------------
(* The signals: the table *)

\* What the entries of an accepted table are once they are resolved.
IsSignal(s) ==
    /\ s.bytes \in Seq(0 .. MaxData - 1)
    /\ s.parts \in Seq([byte : 0 .. MaxData - 1, nibble : Nibbles])
    /\ s.scale \in Int /\ s.offset \in Int /\ s.unit \in Nat \ {0}
    /\ s.deadband \in Nat /\ s.minMs \in Nat
    /\ Usable(s)

LEMMA SignalReads == ASSUME NEW s, IsSignal(s) PROVE Numbers(s) \subseteq 0 .. MaxData - 1
<1>1. Range(s.bytes) \subseteq 0 .. MaxData - 1
    <2>1. \A i \in DOMAIN s.bytes : s.bytes[i] \in 0 .. MaxData - 1
        BY ElementOfSeq, LenProperties DEF IsSignal
    <2> QED
        BY <2>1 DEF Range
<1>2. \A i \in DOMAIN s.parts : s.parts[i] \in [byte : 0 .. MaxData - 1, nibble : Nibbles]
    <2>1. DOMAIN s.parts = 1 .. Len(s.parts)
        BY LenProperties DEF IsSignal
    <2> QED
        BY <2>1, ElementOfSeq DEF IsSignal
<1>3. { p.byte : p \in Range(s.parts) } \subseteq 0 .. MaxData - 1
    BY <1>2 DEF Range
<1> QED
    BY <1>1, <1>3 DEF Numbers

LEMMA SeqIs ==
    ASSUME NEW S, NEW n \in Nat, NEW q \in [1 .. n -> S]
    PROVE  q \in Seq(S)
BY SeqDef

LEMMA ResolvedIsSignal ==
    ASSUME NEW e, NEW base \in {0, 1}, IsEntry(e), Usable(e), \A n \in Numbers(e) : InRange(n, base)
    PROVE  IsSignal(Resolved(e, base))
<1> DEFINE s == Resolved(e, base)
<1>1. /\ s.bytes = [i \in DOMAIN e.bytes |-> e.bytes[i] - base]
      /\ s.parts = [i \in DOMAIN e.parts |-> [e.parts[i] EXCEPT !.byte = @ - base]]
      /\ s.scale = e.scale /\ s.offset = e.offset /\ s.unit = e.unit
      /\ s.deadband = e.deadband /\ s.minMs = e.minMs
    <2> DEFINE bs == [i \in DOMAIN e.bytes |-> e.bytes[i] - base]
    <2> DEFINE ps == [i \in DOMAIN e.parts |-> [e.parts[i] EXCEPT !.byte = @ - base]]
    <2>1. s = [e EXCEPT !.bytes = bs, !.parts = ps]
        BY DEF Resolved
    <2> HIDE DEF s, bs, ps
    <2>2. DOMAIN e = {"bytes", "parts", "nibble", "scale", "offset", "unit", "deadband", "minMs",
                      "invalid", "map", "default"}
        BY DEF IsEntry
    <2>3. /\ s.bytes = bs /\ s.parts = ps
          /\ s.scale = e.scale /\ s.offset = e.offset /\ s.unit = e.unit
          /\ s.deadband = e.deadband /\ s.minMs = e.minMs
        BY <2>1, <2>2
    <2> QED
        BY <2>3 DEF bs, ps
<1> HIDE DEF s
<1>2. MaxData \in Nat
    BY SignalAssumption
<1>3. /\ e.bytes \in Seq(Int) /\ e.parts \in Seq([byte : Int, nibble : Nibbles])
      /\ Len(e.bytes) \in Nat /\ DOMAIN e.bytes = 1 .. Len(e.bytes)
      /\ Len(e.parts) \in Nat /\ DOMAIN e.parts = 1 .. Len(e.parts)
      /\ \A i \in DOMAIN e.bytes : e.bytes[i] \in Int
      /\ \A i \in DOMAIN e.parts : e.parts[i] \in [byte : Int, nibble : Nibbles]
    BY ElementOfSeq, LenProperties DEF IsEntry
<1>4. \A i \in DOMAIN e.bytes : e.bytes[i] - base \in 0 .. MaxData - 1
    <2> SUFFICES ASSUME NEW i \in DOMAIN e.bytes PROVE e.bytes[i] - base \in 0 .. MaxData - 1
        OBVIOUS
    <2>1. e.bytes[i] \in Numbers(e)
        BY DEF Numbers, Range
    <2>2. e.bytes[i] \in Int
        BY <1>3
    <2> QED
        BY <1>2, <2>1, <2>2 DEF InRange
<1>5. \A i \in DOMAIN e.parts :
          [e.parts[i] EXCEPT !.byte = @ - base] \in [byte : 0 .. MaxData - 1, nibble : Nibbles]
    <2> SUFFICES ASSUME NEW i \in DOMAIN e.parts
                 PROVE  [e.parts[i] EXCEPT !.byte = @ - base]
                            \in [byte : 0 .. MaxData - 1, nibble : Nibbles]
        OBVIOUS
    <2>1. e.parts[i].byte \in Numbers(e)
        BY DEF Numbers, Range
    <2>2. e.parts[i] \in [byte : Int, nibble : Nibbles]
        BY <1>3
    <2>3. e.parts[i].byte - base \in 0 .. MaxData - 1
        BY <1>2, <2>1, <2>2 DEF InRange
    <2> QED
        BY <2>2, <2>3
<1>6. s.bytes \in Seq(0 .. MaxData - 1)
    <2>1. s.bytes \in [1 .. Len(e.bytes) -> 0 .. MaxData - 1]
        BY <1>1, <1>3, <1>4
    <2> QED
        BY <1>3, <2>1, SeqIs
<1>7. s.parts \in Seq([byte : 0 .. MaxData - 1, nibble : Nibbles])
    <2>1. s.parts \in [1 .. Len(e.parts) -> [byte : 0 .. MaxData - 1, nibble : Nibbles]]
        BY <1>1, <1>3, <1>5
    <2> QED
        BY <1>3, <2>1, SeqIs
<1>8. Usable(s)
    <2>1. CASE e.bytes # <<>>
        <3>1. Len(e.bytes) # 0
            BY <1>3, <2>1, EmptySeq
        <3>2. 1 \in DOMAIN s.bytes
            BY <1>1, <1>3, <3>1
        <3> QED
            BY <3>2 DEF Usable
    <2>2. CASE e.parts # <<>>
        <3>1. Len(e.parts) # 0
            BY <1>3, <2>2, EmptySeq
        <3>2. 1 \in DOMAIN s.parts
            BY <1>1, <1>3, <3>1
        <3> QED
            BY <3>2 DEF Usable
    <2> QED
        BY <2>1, <2>2 DEF Usable
<1> QED
    BY <1>1, <1>6, <1>7, <1>8 DEF IsSignal, IsEntry, s

\* What an accepted document is built into.
LEMMA BuiltIs ==
    ASSUME NEW d \in Documents, TableAccepted(d)
    PROVE  /\ DOMAIN Built(d) = FrameIds
           /\ \A id \in FrameIds : \A k \in DOMAIN Built(d)[id] : IsSignal(Built(d)[id][k])
<1> SUFFICES ASSUME NEW id \in FrameIds, NEW k \in DOMAIN Built(d)[id]
             PROVE  IsSignal(Built(d)[id][k])
    BY DEF Built
<1>1. k \in DOMAIN d.frames[id] /\ Usable(d.frames[id][k])
    BY DEF Built
<1>2. Built(d)[id][k] = Resolved(d.frames[id][k], d.base)
    BY <1>1 DEF Built
<1>3. d.base \in {0, 1} /\ IsEntry(d.frames[id][k])
    BY <1>1, SignalAssumption
<1>4. \A n \in Numbers(d.frames[id][k]) : InRange(n, d.base)
    BY <1>1 DEF TableAccepted
<1> QED
    BY <1>1, <1>2, <1>3, <1>4, ResolvedIsSignal

\* What rawValue() reads off a frame that is long enough is a word.
LEMMA RawWordIs ==
    ASSUME NEW s, IsSignal(s), NEW data \in Payload, NEW ub \in Undefined, s.parts = <<>>,
           LongEnough(s, data)
    PROVE  RawWord(s, data, ub) \in Words
<1>1. PICK m \in 0 .. MaxData : data \in [1 .. m -> Byte]
    BY DEF Payload
<1>2. m \in Nat /\ data \in Seq(Byte) /\ Len(data) = m
    <2>1. m \in Nat
        BY <1>1, SignalAssumption
    <2>2. data \in Seq(Byte)
        BY <1>1, <2>1, SeqIs
    <2>3. DOMAIN data = 1 .. m
        BY <1>1
    <2> QED
        BY <2>1, <2>2, <2>3, LenProperties
<1>3. /\ DOMAIN s.bytes = 1 .. Len(s.bytes) /\ Len(s.bytes) \in Nat
      /\ \A i \in DOMAIN s.bytes : s.bytes[i] \in 0 .. MaxData - 1
    BY ElementOfSeq, LenProperties DEF IsSignal
<1>4. ASSUME NEW i \in DOMAIN s.bytes
      PROVE  Lane(data[s.bytes[i] + 1], Place(s, i), ub) \in Words
    <2>1. s.bytes[i] < m
        BY <1>2 DEF LongEnough, Range
    <2>2. s.bytes[i] + 1 \in 1 .. m
        BY <1>2, <1>3, <2>1, SignalAssumption
    <2>3. data[s.bytes[i] + 1] \in Byte /\ i \in Nat \ {0}
        BY <1>1, <1>3, <2>2
    <2> QED
        BY <2>3, LanesFit
<1> DEFINE word == UNION { Lane(data[s.bytes[i] + 1], Place(s, i), ub) : i \in DOMAIN s.bytes }
<1>5. word \in Words
    BY <1>4 DEF Words
<1> HIDE DEF word
<1>6. NibbleOf(word, s.nibble) \in Words
    <2>1. /\ \A x \in word : x \in 0 .. WordBits - 1
          /\ NibbleBits \in Nat /\ WordBits \in Nat
        BY <1>5, SignalAssumption DEF Words
    <2>2. HighNibble(word) \in Words /\ LowNibble(word) \in Words
        BY <2>1 DEF HighNibble, LowNibble, Words
    <2> QED
        BY <1>5, <2>2 DEF NibbleOf
<1> QED
    BY <1>5, <1>6 DEF RawWord, word

-------------------------------------------------------------------------------
(* The signals: the inductive invariant *)

\* What is remembered of a signal s, of its report t and of its reading n: the last report is
\* the one that was made, and a reading that is not what was reported is held back.
Remembers(s, l, t, n) ==
    /\ l = NoReport <=> t = NoReport
    /\ n # NoReport => t # NoReport
    /\ t # NoReport =>
          /\ l.shown = t.shown /\ l.pubUs = t.at /\ t.at \in Time
          /\ ~IsEnum(s) => t.word \in Words /\ t.shown = ValueOf(s, t.word)
    /\ n # NoReport =>
          /\ n.at \in Time
          /\ Moved(s, t.shown, n.shown) => Elapsed(n.at, t.at) < s.minMs

\* The reports of a table, and the signals they are of, go together.
TableTypeOK ==
    /\ DOMAIN frames = FrameIds /\ DOMAIN last = FrameIds
    /\ DOMAIN told = FrameIds /\ DOMAIN latest = FrameIds
    /\ \A id \in FrameIds : /\ DOMAIN last[id] = DOMAIN frames[id]
                            /\ DOMAIN told[id] = DOMAIN frames[id]
                            /\ DOMAIN latest[id] = DOMAIN frames[id]
    /\ table \in 0 .. MaxLoads
    /\ table = 0 => \A id \in FrameIds : DOMAIN frames[id] = {}

WorkerOK ==
    /\ worker = [left |-> worker.left, table |-> worker.table]
    /\ worker = Unoccupied \/ (worker.left # {} /\ worker.table \in 1 .. table)

SignalsKept ==
    \A id \in FrameIds : \A k \in DOMAIN frames[id] :
        /\ IsSignal(frames[id][k])
        /\ Remembers(frames[id][k], last[id][k], told[id][k], latest[id][k])

DInv ==
    /\ now \in Time
    /\ TableTypeOK
    /\ WorkerOK
    /\ SignalsKept

-------------------------------------------------------------------------------
(* The signals: one reading *)

LEMMA ReportsAre ==
    \A x, y, z : /\ [shown |-> x, pubUs |-> y] # NoReport
                 /\ [shown |-> x, at |-> y] # NoReport
                 /\ [shown |-> x, at |-> y, word |-> z] # NoReport
<1> SUFFICES ASSUME NEW x, NEW y, NEW z
             PROVE  /\ [shown |-> x, pubUs |-> y] # NoReport
                    /\ [shown |-> x, at |-> y] # NoReport
                    /\ [shown |-> x, at |-> y, word |-> z] # NoReport
    OBVIOUS
<1>1. DOMAIN NoReport = {}
    BY DEF NoReport
<1>2. /\ "shown" \in DOMAIN [shown |-> x, pubUs |-> y]
      /\ "shown" \in DOMAIN [shown |-> x, at |-> y]
      /\ "shown" \in DOMAIN [shown |-> x, at |-> y, word |-> z]
    OBVIOUS
<1> QED
    BY <1>1, <1>2

LEMMA ValuesAre ==
    ASSUME NEW s, IsSignal(s), NEW v \in Words
    PROVE  ValueOf(s, v) \in Int
<1> DEFINE x == (IF s.parts # <<>> THEN 0 ELSE NumberOf[v]) * s.scale + s.offset
<1>1. x \in Int
    BY NumbersAreNat DEF IsSignal
<1>2. ValueOf(s, v) = Rounded(x, s.unit) /\ s.unit \in Nat \ {0}
    BY DEF ValueOf, IsSignal
<1> HIDE DEF x
<1>3. PICK m \in Int : Rounded(x, s.unit) = s.unit * m
    BY <1>1, <1>2, RoundedIs
<1> QED
    BY <1>2, <1>3

\* What was just reported has not moved.
LEMMA SameHasNotMoved ==
    ASSUME NEW s, IsSignal(s), NEW x, ~IsEnum(s) => x \in Int
    PROVE  ~Moved(s, x, x)
<1>1. CASE IsEnum(s)
    BY <1>1 DEF Moved
<1>2. CASE ~IsEnum(s)
    BY <1>2 DEF Moved, Distance, IsSignal
<1> QED
    BY <1>1, <1>2

\* A sensor that dithers between two codes does not move a signal whose deadband is a step.
LEMMA DitherMovesNothing ==
    ASSUME NEW s, IsSignal(s), ~IsEnum(s), s.deadband >= StepShown(s),
           NEW v \in Words, NEW w \in Words, Distance(NumberOf[v], NumberOf[w]) <= 1
    PROVE  ~Moved(s, ValueOf(s, w), ValueOf(s, v))
<1>1. /\ s.scale \in Int /\ s.offset \in Int /\ s.unit \in Nat \ {0} /\ s.deadband \in Nat
      /\ NumberOf[v] \in Int /\ NumberOf[w] \in Int
    BY NumbersAreNat DEF IsSignal
<1>2. CASE s.parts # <<>>
    <2>1. ValueOf(s, w) = ValueOf(s, v) /\ ValueOf(s, v) \in Int
        BY <1>2, ValuesAre DEF ValueOf
    <2> QED
        BY <2>1, SameHasNotMoved
<1>3. CASE s.parts = <<>>
    <2> DEFINE x == ValueOf(s, w)
    <2> DEFINE y == ValueOf(s, v)
    <2>1. /\ x = Rounded(NumberOf[w] * s.scale + s.offset, s.unit)
          /\ y = Rounded(NumberOf[v] * s.scale + s.offset, s.unit)
        BY <1>3 DEF ValueOf
    <2>2. Distance(NumberOf[w], NumberOf[v]) <= 1
        BY <1>1 DEF Distance
    <2> HIDE DEF x, y
    <2>3. Distance(x, y) <= StepShown(s) /\ x \in Int /\ y \in Int
        BY <1>1, <2>1, <2>2, ShownApart
    <2>4. StepShown(s) \in Int
        <3> DEFINE step == Distance(s.scale, 0)
        <3>1. step \in Int
            BY <1>1 DEF Distance
        <3> HIDE DEF step
        <3>2. (step + s.unit - 1) \div s.unit \in Int
            BY <1>1, <3>1
        <3>3. s.unit * ((step + s.unit - 1) \div s.unit) \in Int
            BY <1>1, <3>2
        <3> QED
            BY <1>1, <3>3 DEF StepShown, step
    <2>5. Distance(x, y) \in Int
        BY <2>3 DEF Distance
    <2>6. ~(Distance(x, y) > s.deadband)
        BY <1>1, <2>3, <2>4, <2>5
    <2> QED
        BY <2>6 DEF Moved, x, y
<1> QED
    BY <1>2, <1>3

\* One more reading of a signal.
LEMMA ReadingKept ==
    ASSUME NEW s, IsSignal(s), NEW l, NEW t, NEW n, Remembers(s, l, t, n),
           NEW at \in Time, NEW word, NEW shown,
           ~IsEnum(s) => word \in Words /\ shown = ValueOf(s, word)
    PROVE  Remembers(s, LastAfter(s, l, shown, at),
                     IF Reports(s, l, shown, at) THEN [shown |-> shown, at |-> at, word |-> word] ELSE t,
                     [shown |-> shown, at |-> at])
<1>1. CASE Reports(s, l, shown, at)
    <2> DEFINE new == [shown |-> shown, at |-> at, word |-> word]
    <2>1. LastAfter(s, l, shown, at) = [shown |-> shown, pubUs |-> at]
        BY <1>1 DEF LastAfter
    <2>2. ~Moved(s, shown, shown)
        BY ValuesAre, SameHasNotMoved
    <2>3. Remembers(s, [shown |-> shown, pubUs |-> at], new, [shown |-> shown, at |-> at])
        BY <2>2, ReportsAre DEF Remembers
    <2> QED
        BY <1>1, <2>1, <2>3
<1>2. CASE ~Reports(s, l, shown, at)
    <2>1. LastAfter(s, l, shown, at) = l /\ l # NoReport
        BY <1>2 DEF LastAfter, Reports
    <2>2. t # NoReport /\ l.shown = t.shown /\ l.pubUs = t.at
        BY <2>1 DEF Remembers
    <2>3. Moved(s, t.shown, shown) => Elapsed(at, t.at) < s.minMs
        BY <1>2, <2>2 DEF Reports, Throttled
    <2>4. Remembers(s, l, t, [shown |-> shown, at |-> at])
        BY <2>2, <2>3, ReportsAre DEF Remembers
    <2> QED
        BY <1>2, <2>1, <2>4
<1> QED
    BY <1>1, <1>2

-------------------------------------------------------------------------------
(* The signals: the operations *)

\* decode() leaves a signal alone, or reads it.
Read(id, k, at) ==
    LET s == frames[id][k] IN
    \/ UNCHANGED <<last[id][k], told[id][k], latest[id][k]>>
    \/ \E word, shown :
          /\ ~IsEnum(s) => word \in Words /\ shown = ValueOf(s, word)
          /\ last'[id][k] = LastAfter(s, last[id][k], shown, at)
          /\ told'[id][k] = IF Reports(s, last[id][k], shown, at)
                            THEN [shown |-> shown, at |-> at, word |-> word]
                            ELSE told[id][k]
          /\ latest'[id][k] = [shown |-> shown, at |-> at]

LEMMA DecodeIs ==
    ASSUME DInv, NEW id \in FrameIds, NEW data \in Payload, NEW at \in Time, NEW ub \in Undefined,
           Decode(id, data, at, ub)
    PROVE  /\ DOMAIN last' = FrameIds /\ DOMAIN told' = FrameIds /\ DOMAIN latest' = FrameIds
           /\ \A other \in FrameIds \ {id} :
                 last'[other] = last[other] /\ told'[other] = told[other] /\ latest'[other] = latest[other]
           /\ DOMAIN last'[id] = DOMAIN frames[id] /\ DOMAIN told'[id] = DOMAIN frames[id]
           /\ DOMAIN latest'[id] = DOMAIN frames[id]
           /\ \E out \in SUBSET DOMAIN frames[id] :
                 worker' = IF out = {} THEN Unoccupied ELSE [left |-> out, table |-> table]
           /\ \A k \in DOMAIN frames[id] : Read(id, k, at)
<1> DEFINE sigs == frames[id]
<1> DEFINE word == [k \in DOMAIN sigs |->
                       IF sigs[k].parts # <<>> \/ ~LongEnough(sigs[k], data) THEN {}
                       ELSE RawWord(sigs[k], data, ub)]
<1> DEFINE readable == { k \in DOMAIN sigs : LongEnough(sigs[k], data) /\ ~IsSentinel(sigs[k], word[k]) }
<1> DEFINE shown == [k \in readable |-> ShownBy(sigs[k], data, word[k])]
<1> DEFINE out == { k \in readable : Reports(sigs[k], last[id][k], shown[k], at) }
<1>1. /\ last' = [last EXCEPT ![id] =
             [k \in DOMAIN sigs |->
                 IF k \in readable THEN LastAfter(sigs[k], last[id][k], shown[k], at)
                                   ELSE last[id][k]]]
      /\ told' = [told EXCEPT ![id] =
             [k \in DOMAIN sigs |->
                 IF k \in out THEN [shown |-> shown[k], at |-> at, word |-> word[k]]
                              ELSE told[id][k]]]
      /\ latest' = [latest EXCEPT ![id] =
             [k \in DOMAIN sigs |->
                 IF k \in readable THEN [shown |-> shown[k], at |-> at] ELSE latest[id][k]]]
      /\ worker' = IF out = {} THEN Unoccupied ELSE [left |-> out, table |-> table]
    BY DEF Decode
<1>2. \A k \in readable : shown[k] = ShownBy(sigs[k], data, word[k])
    OBVIOUS
<1>3. \A k \in DOMAIN sigs : IsSignal(sigs[k])
    BY DEF DInv, SignalsKept
<1>4. ASSUME NEW k \in DOMAIN sigs PROVE word[k] \in Words
    <2>1. CASE sigs[k].parts # <<>> \/ ~LongEnough(sigs[k], data)
        BY <2>1 DEF Words
    <2>2. CASE sigs[k].parts = <<>> /\ LongEnough(sigs[k], data)
        BY <1>3, <2>2, RawWordIs
    <2> QED
        BY <2>1, <2>2
<1>5. readable \subseteq DOMAIN sigs /\ out \subseteq readable
    OBVIOUS
<1>6. \A k \in readable : k \in out <=> Reports(sigs[k], last[id][k], shown[k], at)
    OBVIOUS
<1> HIDE DEF word, shown, readable, out
<1>7. DOMAIN last = FrameIds /\ DOMAIN told = FrameIds /\ DOMAIN latest = FrameIds
    BY DEF DInv, TableTypeOK
<1>8. /\ DOMAIN last' = FrameIds /\ DOMAIN told' = FrameIds /\ DOMAIN latest' = FrameIds
      /\ \A other \in FrameIds \ {id} :
            last'[other] = last[other] /\ told'[other] = told[other] /\ latest'[other] = latest[other]
    BY <1>1, <1>7
<1>9. /\ last'[id] = [k \in DOMAIN sigs |->
                 IF k \in readable THEN LastAfter(sigs[k], last[id][k], shown[k], at)
                                   ELSE last[id][k]]
      /\ told'[id] = [k \in DOMAIN sigs |->
                 IF k \in out THEN [shown |-> shown[k], at |-> at, word |-> word[k]]
                              ELSE told[id][k]]
      /\ latest'[id] = [k \in DOMAIN sigs |->
                 IF k \in readable THEN [shown |-> shown[k], at |-> at] ELSE latest[id][k]]
    BY <1>1, <1>7
<1>10. ASSUME NEW k \in DOMAIN sigs, k \notin readable
       PROVE  UNCHANGED <<last[id][k], told[id][k], latest[id][k]>>
    BY <1>5, <1>9, <1>10
<1>11. ASSUME NEW k \in DOMAIN sigs, k \in readable
       PROVE  /\ ~IsEnum(sigs[k]) => word[k] \in Words /\ shown[k] = ValueOf(sigs[k], word[k])
              /\ last'[id][k] = LastAfter(sigs[k], last[id][k], shown[k], at)
              /\ told'[id][k] = IF Reports(sigs[k], last[id][k], shown[k], at)
                                THEN [shown |-> shown[k], at |-> at, word |-> word[k]]
                                ELSE told[id][k]
              /\ latest'[id][k] = [shown |-> shown[k], at |-> at]
    <2>1. ~IsEnum(sigs[k]) => shown[k] = ValueOf(sigs[k], word[k])
        BY <1>2, <1>11 DEF ShownBy
    <2> QED
        BY <1>4, <1>6, <1>9, <1>11, <2>1
<1>12. out \in SUBSET DOMAIN frames[id]
    BY <1>5
<1>13. DOMAIN last'[id] = DOMAIN sigs /\ DOMAIN told'[id] = DOMAIN sigs /\ DOMAIN latest'[id] = DOMAIN sigs
    BY <1>9
<1> QED
    <2>1. ASSUME NEW k \in DOMAIN sigs PROVE Read(id, k, at)
        BY <1>10, <1>11 DEF Read
    <2> QED
        BY <1>1, <1>8, <1>12, <1>13, <2>1

LEMMA NextFrameStep == DInv /\ NextFrame => DInv'
<1> SUFFICES ASSUME DInv, NextFrame PROVE DInv'
    OBVIOUS
<1>1. PICK id \in FrameIds, age \in {0, 1} : \E data \in Carried[id], ub \in Builds(frames[id]) :
          age <= now /\ Decode(id, data, now - age, ub)
    BY DEF NextFrame
<1>2. PICK data \in Carried[id], ub \in Builds(frames[id]) : age <= now /\ Decode(id, data, now - age, ub)
    BY <1>1
<1> DEFINE at == now - age
<1>3. data \in Payload /\ ub \in Undefined /\ at \in Time
    <2>1. data \in Payload
        BY SignalAssumption
    <2>2. ub \in Undefined
        BY DEF Builds, Undefined
    <2>3. at \in Time
        BY <1>2, UptimeAssumption DEF DInv, Time
    <2> QED
        BY <2>1, <2>2, <2>3
<1>4. Decode(id, data, at, ub) /\ UNCHANGED <<now, frames, table>>
    BY <1>2 DEF NextFrame
<1> HIDE DEF at
<1>5. /\ DOMAIN last' = FrameIds /\ DOMAIN told' = FrameIds /\ DOMAIN latest' = FrameIds
      /\ \A other \in FrameIds \ {id} :
            last'[other] = last[other] /\ told'[other] = told[other] /\ latest'[other] = latest[other]
      /\ DOMAIN last'[id] = DOMAIN frames[id] /\ DOMAIN told'[id] = DOMAIN frames[id]
      /\ DOMAIN latest'[id] = DOMAIN frames[id]
      /\ \E out \in SUBSET DOMAIN frames[id] :
            worker' = IF out = {} THEN Unoccupied ELSE [left |-> out, table |-> table]
      /\ \A k \in DOMAIN frames[id] : Read(id, k, at)
    BY <1>3, <1>4, DecodeIs
<1>6. TableTypeOK'
    BY <1>4, <1>5 DEF DInv, TableTypeOK
<1>7. WorkerOK'
    <2>1. PICK out \in SUBSET DOMAIN frames[id] :
              worker' = IF out = {} THEN Unoccupied ELSE [left |-> out, table |-> table]
        BY <1>5
    <2>2. CASE out = {}
        BY <2>1, <2>2 DEF WorkerOK, Unoccupied
    <2>3. CASE out # {}
        <3>1. table \in 1 .. table
            BY <2>3, SignalAssumption DEF DInv, TableTypeOK
        <3> QED
            BY <1>4, <2>1, <2>3, <3>1 DEF WorkerOK
    <2> QED
        BY <2>2, <2>3
<1>8. SignalsKept'
    <2> SUFFICES ASSUME NEW one \in FrameIds, NEW k \in DOMAIN frames[one]
                 PROVE  /\ IsSignal(frames[one][k])
                        /\ Remembers(frames[one][k], last'[one][k], told'[one][k], latest'[one][k])
        BY <1>4 DEF SignalsKept
    <2>1. IsSignal(frames[one][k]) /\ Remembers(frames[one][k], last[one][k], told[one][k], latest[one][k])
        BY DEF DInv, SignalsKept
    <2>2. CASE one # id
        BY <1>5, <2>1, <2>2
    <2>3. CASE one = id
        <3>1. Read(id, k, at)
            BY <1>5, <2>3
        <3>2. CASE UNCHANGED <<last[id][k], told[id][k], latest[id][k]>>
            BY <2>1, <2>3, <3>2
        <3>3. CASE ~(UNCHANGED <<last[id][k], told[id][k], latest[id][k]>>)
            <4>1. PICK word, shown :
                    /\ ~IsEnum(frames[id][k]) => word \in Words /\ shown = ValueOf(frames[id][k], word)
                    /\ last'[id][k] = LastAfter(frames[id][k], last[id][k], shown, at)
                    /\ told'[id][k] = IF Reports(frames[id][k], last[id][k], shown, at)
                                      THEN [shown |-> shown, at |-> at, word |-> word]
                                      ELSE told[id][k]
                    /\ latest'[id][k] = [shown |-> shown, at |-> at]
                BY <3>1, <3>3 DEF Read
            <4> QED
                BY <1>3, <2>1, <2>3, <4>1, ReadingKept
        <3> QED
            BY <3>2, <3>3
    <2> QED
        BY <2>1, <2>2, <2>3
<1> QED
    BY <1>4, <1>6, <1>7, <1>8 DEF DInv

\* A table without reports.
LEMMA NothingRemembered ==
    ASSUME NEW f, DOMAIN f = FrameIds, \A id \in FrameIds : \A k \in DOMAIN f[id] : IsSignal(f[id][k])
    PROVE  /\ DOMAIN NeverReported(f) = FrameIds
           /\ \A id \in FrameIds : DOMAIN NeverReported(f)[id] = DOMAIN f[id]
           /\ \A id \in FrameIds : \A k \in DOMAIN f[id] :
                 LET r == NeverReported(f)[id][k] IN Remembers(f[id][k], r, r, r)
BY DEF NeverReported, Remembers

LEMMA LoadStep ==
    ASSUME DInv, NEW d \in Documents, Load(d)
    PROVE  DInv'
<1> DEFINE f == Built(d)
<1>1. /\ frames' = f /\ last' = NeverReported(f) /\ told' = NeverReported(f)
      /\ latest' = NeverReported(f) /\ table' = table + 1 /\ UNCHANGED <<now, worker>>
      /\ table < MaxLoads /\ TableAccepted(d)
    BY DEF Load
<1>2. DOMAIN f = FrameIds /\ \A id \in FrameIds : \A k \in DOMAIN f[id] : IsSignal(f[id][k])
    BY <1>1, BuiltIs
<1> HIDE DEF f
<1>3. /\ DOMAIN NeverReported(f) = FrameIds
      /\ \A id \in FrameIds : DOMAIN NeverReported(f)[id] = DOMAIN f[id]
      /\ \A id \in FrameIds : \A k \in DOMAIN f[id] :
            LET r == NeverReported(f)[id][k] IN Remembers(f[id][k], r, r, r)
    BY <1>2, NothingRemembered
<1>4. table' \in 0 .. MaxLoads /\ table' # 0 /\ table \in Nat
    BY <1>1, SignalAssumption DEF DInv, TableTypeOK
<1>5. TableTypeOK'
    BY <1>1, <1>2, <1>3, <1>4 DEF TableTypeOK
<1>6. WorkerOK'
    BY <1>1, <1>4 DEF DInv, WorkerOK
<1>7. SignalsKept'
    BY <1>1, <1>2, <1>3 DEF SignalsKept
<1> QED
    BY <1>1, <1>5, <1>6, <1>7 DEF DInv

LEMMA UseReportStep == DInv /\ UseReport => DInv'
<1> SUFFICES ASSUME DInv, UseReport PROVE DInv'
    OBVIOUS
<1>1. /\ worker.left # {} /\ UNCHANGED <<now, frames, last, table, told, latest>>
      /\ worker' = LET left == worker.left \ {Min(worker.left)}
                   IN IF left = {} THEN Unoccupied ELSE [worker EXCEPT !.left = left]
    BY DEF UseReport, reportVars
<1>2. WorkerOK'
    <2> DEFINE left == worker.left \ {Min(worker.left)}
    <2>1. worker = [left |-> worker.left, table |-> worker.table] /\ worker.table \in 1 .. table
        BY <1>1 DEF DInv, WorkerOK, Unoccupied
    <2>2. worker' = IF left = {} THEN Unoccupied ELSE [worker EXCEPT !.left = left]
        BY <1>1
    <2> HIDE DEF left
    <2>3. CASE left = {}
        BY <2>2, <2>3 DEF WorkerOK, Unoccupied
    <2>4. CASE left # {}
        <3>1. worker' = [left |-> left, table |-> worker.table]
            BY <2>1, <2>2, <2>4
        <3> QED
            BY <1>1, <2>1, <2>4, <3>1 DEF WorkerOK
    <2> QED
        BY <2>3, <2>4
<1> QED
    BY <1>1, <1>2 DEF DInv, TableTypeOK, SignalsKept

LEMMA ResetStateStep == DInv /\ ResetState => DInv'
<1> SUFFICES ASSUME DInv, ResetState PROVE DInv'
    OBVIOUS
<1>1. /\ last' = NeverReported(frames) /\ told' = NeverReported(frames)
      /\ latest' = NeverReported(frames) /\ UNCHANGED <<now, frames, table, worker>>
    BY DEF ResetState
<1>2. DOMAIN frames = FrameIds /\ \A id \in FrameIds : \A k \in DOMAIN frames[id] : IsSignal(frames[id][k])
    BY DEF DInv, TableTypeOK, SignalsKept
<1>3. /\ DOMAIN NeverReported(frames) = FrameIds
      /\ \A id \in FrameIds : DOMAIN NeverReported(frames)[id] = DOMAIN frames[id]
      /\ \A id \in FrameIds : \A k \in DOMAIN frames[id] :
            LET r == NeverReported(frames)[id][k] IN Remembers(frames[id][k], r, r, r)
    BY <1>2, NothingRemembered
<1>4. TableTypeOK' /\ WorkerOK'
    BY <1>1, <1>3 DEF DInv, TableTypeOK, WorkerOK
<1>5. SignalsKept'
    BY <1>1, <1>2, <1>3 DEF SignalsKept
<1> QED
    BY <1>1, <1>4, <1>5 DEF DInv

LEMMA ClockStep ==
    ASSUME DInv, now' \in Time, UNCHANGED signalVars
    PROVE  DInv'
BY DEF DInv, TableTypeOK, WorkerOK, SignalsKept, signalVars, reportVars

LEMMA DInvStarts == DInit => DInv
<1> SUFFICES ASSUME DInit PROVE DInv
    OBVIOUS
<1>1. now \in Time
    BY UptimeAssumption DEF DInit, Time
<1>2. \A id \in FrameIds : DOMAIN NoFrames[id] = {}
    BY DEF NoFrames
<1>3. DOMAIN NoFrames = FrameIds
    BY DEF NoFrames
<1>4. TableTypeOK /\ SignalsKept
    BY <1>2, <1>3, SignalAssumption DEF DInit, TableTypeOK, SignalsKept
<1>5. WorkerOK
    BY DEF DInit, WorkerOK, Unoccupied
<1> QED
    BY <1>1, <1>4, <1>5 DEF DInv

LEMMA DInvNext == DInv /\ (DNext \/ UNCHANGED dvars) => DInv'
<1> SUFFICES ASSUME DInv, DNext \/ UNCHANGED dvars PROVE DInv'
    OBVIOUS
<1>1. CASE \E d \in Documents : Load(d)
    BY <1>1, LoadStep
<1>2. CASE NextFrame
    BY <1>2, NextFrameStep
<1>3. CASE UseReport
    BY <1>3, UseReportStep
<1>4. CASE ResetState
    BY <1>4, ResetStateStep
<1>5. CASE DTick
    <2>1. now' \in Time
        BY <1>5, UptimeAssumption DEF DTick, TimePasses, DInv, Time
    <2> QED
        BY <1>5, <2>1, ClockStep DEF DTick, signalVars
<1>6. CASE UNCHANGED dvars
    <2>1. now' \in Time
        BY <1>6 DEF dvars, DInv
    <2> QED
        BY <1>6, <2>1, ClockStep DEF dvars, signalVars
<1> QED
    BY <1>1, <1>2, <1>3, <1>4, <1>5, <1>6 DEF DNext

-------------------------------------------------------------------------------
(* The signals: theorems *)

\* The strengthening holds throughout.
THEOREM SignalInvariant == DSpec => []DInv
<1>1. DInit => DInv
    BY DInvStarts
<1>2. DInv /\ [DNext]_dvars => DInv'
    BY DInvNext
<1> QED
    BY <1>1, <1>2, PTL DEF DSpec

\* A reading that is further than the deadband from what its signal reported last came within
\* min_ms of that report: the throttle holds changes back, it loses none (decode(),
\* SignalTable.cpp).
THEOREM ThrottleLosesNothing == DSpec => []NothingLost
<1>1. DInv => NothingLost
    BY DEF DInv, SignalsKept, Remembers, NothingLost
<1> QED
    BY <1>1, SignalInvariant, PTL

\* What a step may report anew.
LEMMA ReportsMove ==
    ASSUME DInv, DNext \/ UNCHANGED dvars, table' = table,
           NEW id \in FrameIds, NEW k \in DOMAIN frames[id],
           told'[id][k] # told[id][k], told[id][k] # NoReport, told'[id][k] # NoReport,
           ~IsEnum(frames[id][k])
    PROVE  /\ IsSignal(frames[id][k])
           /\ told[id][k].word \in Words /\ told'[id][k].word \in Words
           /\ Moved(frames[id][k], ValueOf(frames[id][k], told[id][k].word),
                    ValueOf(frames[id][k], told'[id][k].word))
<1> DEFINE s == frames[id][k]
<1>1. IsSignal(s) /\ Remembers(s, last[id][k], told[id][k], latest[id][k])
    BY DEF DInv, SignalsKept
<1>2. ~(UNCHANGED told)
    OBVIOUS
<1>3. ~ResetState
    <2> SUFFICES ASSUME ResetState PROVE FALSE
        OBVIOUS
    <2>1. told'[id][k] = NoReport
        BY DEF ResetState, NeverReported
    <2> QED
        BY <2>1
<1>4. ~(\E d \in Documents : Load(d))
    <2> SUFFICES ASSUME NEW d \in Documents, Load(d) PROVE FALSE
        OBVIOUS
    <2>1. table' = table + 1 /\ table \in Nat
        BY SignalAssumption DEF Load, DInv, TableTypeOK
    <2> QED
        BY <2>1
<1>5. NextFrame
    BY <1>2, <1>3, <1>4 DEF DNext, UseReport, DTick, dvars, reportVars
<1>6. PICK one \in FrameIds, age \in {0, 1} : \E data \in Carried[one], ub \in Builds(frames[one]) :
          age <= now /\ Decode(one, data, now - age, ub)
    BY <1>5 DEF NextFrame
<1>7. PICK data \in Carried[one], ub \in Builds(frames[one]) :
          age <= now /\ Decode(one, data, now - age, ub)
    BY <1>6
<1> DEFINE at == now - age
<1>8. data \in Payload /\ ub \in Undefined /\ at \in Time
    BY <1>7, SignalAssumption, UptimeAssumption DEF DInv, Time, Builds, Undefined
<1> HIDE DEF at
<1>9. Decode(one, data, at, ub)
    BY <1>7 DEF at
<1>10. one = id
    BY <1>8, <1>9, DecodeIs
<1>11. PICK word, shown :
          /\ ~IsEnum(s) => word \in Words /\ shown = ValueOf(s, word)
          /\ told'[id][k] = IF Reports(s, last[id][k], shown, at)
                            THEN [shown |-> shown, at |-> at, word |-> word]
                            ELSE told[id][k]
    <2>1. Read(id, k, at)
        BY <1>8, <1>9, <1>10, DecodeIs
    <2> QED
        BY <2>1 DEF Read
<1>12. Reports(s, last[id][k], shown, at) /\ told'[id][k].word = word
    BY <1>11
<1>13. last[id][k] # NoReport /\ last[id][k].shown = ValueOf(s, told[id][k].word)
       /\ told[id][k].word \in Words
    BY <1>1 DEF Remembers
<1>14. Moved(s, last[id][k].shown, shown)
    BY <1>12, <1>13 DEF Reports
<1> QED
    BY <1>1, <1>11, <1>12, <1>13, <1>14

\* A sensor that dithers between two codes reports nothing when the deadband is a step: a
\* signal is reported again only when its raw value is two codes or more away (decode(),
\* SignalTable.cpp; data/signals.json).
THEOREM DitherStaysSilent == DSpec => DitherIsSilent
<1>1. ASSUME DInv, [DNext]_dvars
      PROVE  \A id \in FrameIds : \A k \in DOMAIN frames[id] :
                LET s == frames[id][k] IN
                ( /\ table' = table
                  /\ ~IsEnum(s) /\ s.deadband >= StepShown(s)
                  /\ told'[id][k] # told[id][k]
                  /\ told[id][k] # NoReport /\ told'[id][k] # NoReport ) =>
                    Distance(NumberOf[told'[id][k].word], NumberOf[told[id][k].word]) > 1
    <2> SUFFICES ASSUME NEW id \in FrameIds, NEW k \in DOMAIN frames[id],
                        table' = table, ~IsEnum(frames[id][k]),
                        frames[id][k].deadband >= StepShown(frames[id][k]),
                        told'[id][k] # told[id][k], told[id][k] # NoReport, told'[id][k] # NoReport
                 PROVE  Distance(NumberOf[told'[id][k].word], NumberOf[told[id][k].word]) > 1
        OBVIOUS
    <2> DEFINE v == told'[id][k].word
    <2> DEFINE w == told[id][k].word
    <2> DEFINE s == frames[id][k]
    <2>1. IsSignal(s) /\ w \in Words /\ v \in Words /\ Moved(s, ValueOf(s, w), ValueOf(s, v))
        BY <1>1, ReportsMove
    <2>2. ~(Distance(NumberOf[v], NumberOf[w]) <= 1)
        BY <2>1, DitherMovesNothing
    <2>3. Distance(NumberOf[v], NumberOf[w]) \in Int
        BY <2>1, NumbersAreNat DEF Distance
    <2> HIDE DEF v, w
    <2> QED
        BY <2>2, <2>3 DEF v, w
<1> QED
    BY <1>1, SignalInvariant, PTL DEF DSpec, DitherIsSilent

\* What DInv says of the types, and that a reading is always after a report.
LEMMA SignalsAreSound == DInv => DTypeOK /\ ResetReportsAfresh
<1> SUFFICES ASSUME DInv PROVE DTypeOK /\ ResetReportsAfresh
    OBVIOUS
<1>1. ResetReportsAfresh
    BY DEF DInv, SignalsKept, Remembers, ResetReportsAfresh
<1>2. ASSUME NEW id \in FrameIds, NEW k \in DOMAIN frames[id]
      PROVE  /\ Usable(frames[id][k])
             /\ Numbers(frames[id][k]) \subseteq 0 .. MaxData - 1
             /\ last[id][k] # NoReport => last[id][k].pubUs \in Time
             /\ latest[id][k] # NoReport => latest[id][k].at \in Time
    <2>1. IsSignal(frames[id][k]) /\ Remembers(frames[id][k], last[id][k], told[id][k], latest[id][k])
        BY DEF DInv, SignalsKept
    <2>2. Numbers(frames[id][k]) \subseteq 0 .. MaxData - 1
        BY <2>1, SignalReads
    <2>3. Usable(frames[id][k])
        BY <2>1 DEF IsSignal
    <2> QED
        BY <2>1, <2>2, <2>3 DEF Remembers
<1>3. DTypeOK
    BY <1>2 DEF DInv, TableTypeOK, WorkerOK, DTypeOK
<1> QED
    BY <1>1, <1>3

-------------------------------------------------------------------------------
(* Both parts *)

WInv == FInv /\ DInv

\* Whichever part runs, the other rests.
LEMMA WInvNext == WInv /\ [FramesAlone \/ DecodeAlone]_wvars => WInv'
<1> SUFFICES ASSUME WInv, FramesAlone \/ DecodeAlone \/ UNCHANGED wvars PROVE WInv'
    OBVIOUS
<1>1. CASE FramesAlone
    <2>1. FNext /\ UNCHANGED signalVars
        BY <1>1 DEF FramesAlone
    <2>2. FInv'
        BY <2>1, FInvNext DEF WInv
    <2>3. now' \in Time
        BY <2>2 DEF FInv, FTypeOK
    <2> QED
        BY <2>1, <2>2, <2>3, ClockStep DEF WInv
<1>2. CASE DecodeAlone
    <2>1. DNext /\ UNCHANGED recordVars
        BY <1>2 DEF DecodeAlone
    <2>2. DInv'
        BY <2>1, DInvNext DEF WInv
    <2>3. now' \in Time
        BY <2>2 DEF DInv
    <2> QED
        BY <2>1, <2>2, <2>3, TimeStep DEF WInv
<1>3. CASE UNCHANGED wvars
    <2>1. UNCHANGED fvars /\ UNCHANGED dvars
        BY <1>3 DEF wvars, fvars, dvars, recordVars, signalVars
    <2> QED
        BY <2>1, FInvNext, DInvNext DEF WInv
<1> QED
    BY <1>1, <1>2, <1>3

\* The records of the frames and of the signals keep their types; no identifier has two slots nor
\* a slot that is not found; every signal of the table in force reads bytes a frame can have;
\* and the first reading after a reset is reported.
THEOREM WorkerIsSound == WSpec => []RecordsSound
<1>1. WInit => WInv
    BY FInvStarts, DInvStarts DEF WInit, WInv
<1>2. WInv => RecordsSound
    BY SignalsAreSound DEF WInv, FInv, RecordsSound
<1> QED
    BY <1>1, <1>2, WInvNext, PTL DEF WSpec
===============================================================================
