---------------------------- MODULE ServiceProofs ----------------------------
(***************************************************************************)
(* Theorems about what the dashboard tells of the workers: the registry of *)
(* version checks (UpdateRegistry), the Kimi quota cache (QuotaCache), the *)
(* badge of a worker (ProviderHealth), the token totals (UsageTotals) and  *)
(* the host agents (HostExecutable), for every number of handlers,         *)
(* workers, tests, rows, records and installations.  The loops of          *)
(* request_check and of the totals are recursive functions; InductionFacts *)
(* is what the proofs about them rest on.                                  *)
(***************************************************************************)
EXTENDS UpdateRegistry, QuotaCache, ProviderHealth, UsageTotals, HostExecutable, SequenceTheorems,
        FiniteSetTheorems, FunctionTheorems, InductionFacts, TLAPS

-----------------------------------------------------------------------------
(* The registry of version checks *)

ThreadStates == {"none", "registered", "running"}

RegistryTypeOK ==
  /\ entry \in [Coders -> [latest : Nat, checking : BOOLEAN, error : BOOLEAN]]
  /\ thread \in [Coders -> ThreadStates]
  /\ toStart \in [Handlers -> Seq(Coders) \cup {NotYet}]
  /\ closing \in {"no", "joining", "closed", "raised"}
  /\ toJoin \subseteq Coders
  /\ joinLapsed \in BOOLEAN

\* A request that has registered threads it must still start
Starting(h) == toStart[h] # NotYet

\* The threads that requests will start are registered, each for one request and
\* once, so that nobody starts a thread that has run already.
StartInv ==
  /\ \A h \in Handlers : Starting(h) =>
       \A i \in DOMAIN toStart[h] : thread[toStart[h][i]] = "registered"
  /\ \A g, h \in Handlers : Starting(g) /\ Starting(h) =>
       \A i \in DOMAIN toStart[g], k \in DOMAIN toStart[h] :
         toStart[g][i] = toStart[h][k] => g = h /\ i = k

\* The bound counts the registered threads, running or not.
BoundInv == IsFiniteSet(Registered) /\ Cardinality(Registered) <= MaxChecks

\* What is registered when shutdown lists the threads stays listed until it has
\* been joined.
ShutdownInv ==
  /\ closing \in {"joining", "closed"} /\ ~joinLapsed => Registered \subseteq toJoin
  /\ closing = "closed" => toJoin = {}

RegistryInv == RegistryTypeOK /\ StartInv /\ BoundInv /\ ShutdownInv

\* What is queued once worker w has been looked at
Queue(queue, w) ==
  IF /\ ~entry[w].checking
     /\ thread[w] = "none"
     /\ Cardinality(Registered) + Len(queue) < MaxChecks
  THEN Append(queue, w)
  ELSE queue

\* request_check's loop: what it registers is the last of a sequence of queues.
LEMMA LoopOfRequestCheck ==
  ASSUME NEW sel \in Seq(Coders)
  PROVE  \E q \in [0 .. Len(sel) -> Seq(Coders)] :
           /\ Registrable(sel) = q[Len(sel)]
           /\ q[0] = <<>>
           /\ \A n \in 1 .. Len(sel) : q[n] = Queue(q[n - 1], sel[n])
<1> DEFINE Loop(q) ==
      q = [n \in 0 .. Len(sel) |-> IF n = 0 THEN <<>> ELSE Queue(q[n - 1], sel[n])]
<1> DEFINE step == [p \in Nat \X Seq(Coders) |->
                      IF p[1] \in 1 .. Len(sel) THEN Queue(p[2], sel[p[1]]) ELSE <<>>]
<1>1. step \in [Nat \X Seq(Coders) -> Seq(Coders)]
  <2>1. ASSUME NEW p \in Nat \X Seq(Coders)
        PROVE  step[p] \in Seq(Coders)
    <3>1. p[1] \in 1 .. Len(sel) => sel[p[1]] \in Coders
      OBVIOUS
    <3> QED  BY <3>1 DEF Queue
  <2> QED  BY <2>1
<1>2. \A n \in 0 .. Len(sel), queue \in Seq(Coders) :
        n # 0 => step[<<n, queue>>] = Queue(queue, sel[n])
  OBVIOUS
<1>3. Len(sel) \in Nat /\ <<>> \in Seq(Coders)
  OBVIOUS
<1> HIDE DEF step
<1>4. PICK f : Recursion(f, Len(sel), Seq(Coders), <<>>, step)
  BY <1>1, <1>3, RecursionExists
<1>5. Loop(f)
  <2>1. \A n \in 0 .. Len(sel) : f[n] = IF n = 0 THEN <<>> ELSE Queue(f[n - 1], sel[n])
    <3>1. \A n \in 0 .. Len(sel) : n # 0 => n \in 1 .. Len(sel) /\ n - 1 \in 0 .. Len(sel)
      BY <1>3
    <3> QED  BY <1>2, <1>4, <3>1 DEF Recursion
  <2> QED  BY <1>4, <2>1 DEF Recursion
<1> DEFINE q == CHOOSE q : Loop(q)
<1>6. Loop(q)
  BY <1>5, Zenon
<1>7. Registrable(sel) = q[Len(sel)]
  BY Zenon DEF Registrable, Queue
<1> HIDE DEF q
<1>8. q[0] = <<>> /\ \A n \in 1 .. Len(sel) : q[n] = Queue(q[n - 1], sel[n])
  <2>1. \A n \in 0 .. Len(sel) : q[n] = IF n = 0 THEN <<>> ELSE Queue(q[n - 1], sel[n])
    BY <1>6, Zenon
  <2>2. 0 \in 0 .. Len(sel) /\ \A n \in 1 .. Len(sel) : n \in 0 .. Len(sel) /\ n # 0
    BY <1>3
  <2> QED  BY <2>1, <2>2
<1> DEFINE T == {n \in Nat : n <= Len(sel) => q[n] \in Seq(Coders)}
<1>9. Nat \subseteq T
  <2>1. 0 \in T
    BY <1>3, <1>8
  <2>2. ASSUME NEW n \in Nat, n \in T PROVE n + 1 \in T
    <3> SUFFICES ASSUME n + 1 <= Len(sel) PROVE q[n + 1] \in Seq(Coders)
      OBVIOUS
    <3>1. q[n + 1] = Queue(q[n], sel[n + 1])
      BY <1>3, <1>8
    <3>2. q[n] \in Seq(Coders) /\ sel[n + 1] \in Coders
      BY <1>3, <2>2
    <3> QED  BY <3>1, <3>2 DEF Queue
  <2> HIDE DEF T
  <2> QED  BY <2>1, <2>2, SetInduction
<1>10. q \in [0 .. Len(sel) -> Seq(Coders)]
  <2>1. DOMAIN q = 0 .. Len(sel) /\ q = [n \in 0 .. Len(sel) |-> q[n]]
    BY <1>6, Zenon
  <2>2. \A n \in 0 .. Len(sel) : q[n] \in Seq(Coders)
    BY <1>3, <1>9
  <2> QED  BY <2>1, <2>2
<1> QED  BY <1>7, <1>8, <1>10

\* What request_check registers: idle workers, each once, as many as there is room.
LEMMA WhatIsQueued ==
  ASSUME NEW sel \in Selections, RegistryTypeOK, BoundInv
  PROVE  LET queued == Registrable(sel) IN
         /\ queued \in Seq(Coders)
         /\ \A i \in DOMAIN queued : thread[queued[i]] = "none"
         /\ \A i, k \in DOMAIN queued : queued[i] = queued[k] => i = k
         /\ Cardinality(Registered) + Len(queued) <= MaxChecks
<1>1. sel \in Seq(Coders) /\ Len(sel) \in Nat /\ DOMAIN sel = 1 .. Len(sel)
  BY RegistryAssumption
<1>2. \A i, k \in 1 .. Len(sel) : sel[i] = sel[k] => i = k
  BY <1>1, RegistryAssumption
<1>3. Cardinality(Registered) \in Nat /\ MaxChecks \in Nat
  BY FS_CardinalityType, RegistryAssumption DEF BoundInv
<1>4. PICK q \in [0 .. Len(sel) -> Seq(Coders)] :
        /\ Registrable(sel) = q[Len(sel)]
        /\ q[0] = <<>>
        /\ \A n \in 1 .. Len(sel) : q[n] = Queue(q[n - 1], sel[n])
  BY <1>1, LoopOfRequestCheck
<1> DEFINE Good(n) ==
      /\ \A i \in 1 .. Len(q[n]) : /\ thread[q[n][i]] = "none"
                                   /\ \E k \in 1 .. n : q[n][i] = sel[k]
      /\ \A i, k \in 1 .. Len(q[n]) : q[n][i] = q[n][k] => i = k
      /\ Cardinality(Registered) + Len(q[n]) <= MaxChecks
<1> DEFINE T == {n \in Nat : n <= Len(sel) => Good(n)}
<1>5. 0 \in T
  <2>1. Len(q[0]) = 0
    BY <1>4
  <2> QED  BY <1>3, <2>1 DEF BoundInv
<1>6. ASSUME NEW n \in Nat, n \in T PROVE n + 1 \in T
  <2> SUFFICES ASSUME n + 1 <= Len(sel) PROVE Good(n + 1)
    OBVIOUS
  <2>1. q[n + 1] = Queue(q[n], sel[n + 1])
    BY <1>1, <1>4
  <2>2. q[n] \in Seq(Coders) /\ sel[n + 1] \in Coders /\ Len(q[n]) \in Nat
    BY <1>1, <1>4
  <2>3. Good(n)
    BY <1>1, <1>6
  <2>4. CASE q[n + 1] = q[n]
    <3>1. \A k \in 1 .. n : k \in 1 .. n + 1
      OBVIOUS
    <3> QED  BY <2>3, <2>4, <3>1
  <2>5. CASE /\ q[n + 1] = Append(q[n], sel[n + 1])
             /\ thread[sel[n + 1]] = "none"
             /\ Cardinality(Registered) + Len(q[n]) < MaxChecks
    <3> DEFINE r == Append(q[n], sel[n + 1])
    <3>1. /\ Len(r) = Len(q[n]) + 1
          /\ \A i \in 1 .. Len(q[n]) : r[i] = q[n][i]
          /\ r[Len(q[n]) + 1] = sel[n + 1]
      BY <2>2
    <3> HIDE DEF r
    <3>2. \A i \in 1 .. Len(r) : /\ thread[r[i]] = "none"
                                 /\ \E k \in 1 .. n + 1 : r[i] = sel[k]
      <4> TAKE i \in 1 .. Len(r)
      <4>1. CASE i = Len(q[n]) + 1
        <5>1. r[i] = sel[n + 1] /\ n + 1 \in 1 .. n + 1
          BY <3>1, <4>1
        <5> QED  BY <2>5, <5>1
      <4>2. CASE i \in 1 .. Len(q[n])
        <5>1. PICK k \in 1 .. n : q[n][i] = sel[k]
          BY <2>3, <4>2
        <5>2. k \in 1 .. n + 1 /\ thread[q[n][i]] = "none"
          BY <2>3, <4>2
        <5> QED  BY <3>1, <4>2, <5>1, <5>2
      <4> QED  BY <2>2, <3>1, <4>1, <4>2
    <3>3. \A i \in 1 .. Len(q[n]) : r[i] # sel[n + 1]
      <4> TAKE i \in 1 .. Len(q[n])
      <4>1. PICK k \in 1 .. n : q[n][i] = sel[k]
        BY <2>3
      <4>2. k # n + 1 /\ k \in 1 .. Len(sel) /\ n + 1 \in 1 .. Len(sel)
        BY <1>1
      <4> QED  BY <1>2, <3>1, <4>1, <4>2
    <3>4. \A i, k \in 1 .. Len(r) : r[i] = r[k] => i = k
      <4> SUFFICES ASSUME NEW i \in 1 .. Len(r), NEW k \in 1 .. Len(r), r[i] = r[k]
                   PROVE  i = k
        OBVIOUS
      <4>1. i \in 1 .. Len(q[n]) \/ i = Len(q[n]) + 1
        BY <2>2, <3>1
      <4>2. k \in 1 .. Len(q[n]) \/ k = Len(q[n]) + 1
        BY <2>2, <3>1
      <4> QED  BY <2>3, <3>1, <3>3, <4>1, <4>2
    <3>5. Cardinality(Registered) + Len(r) <= MaxChecks
      BY <1>3, <2>2, <2>5, <3>1
    <3>6. q[n + 1] = r
      BY <2>5 DEF r
    <3> QED  BY <3>2, <3>4, <3>5, <3>6
  <2> QED  BY <2>1, <2>4, <2>5 DEF Queue
<1>7. Good(Len(sel))
  <2> HIDE DEF Good
  <2>1. Nat \subseteq T
    <3> HIDE DEF T
    <3> QED  BY <1>5, <1>6, SetInduction
  <2> QED  BY <1>1, <2>1
<1>8. Registrable(sel) \in Seq(Coders)
  BY <1>1, <1>4
<1>9. DOMAIN Registrable(sel) = 1 .. Len(Registrable(sel))
  BY <1>8
<1> QED  BY <1>4, <1>7, <1>8, <1>9

\* A sequence without repetitions has as many members as its length.
LEMMA MembersOfSequence ==
  ASSUME NEW S, NEW seq \in Seq(S),
         \A i, k \in DOMAIN seq : seq[i] = seq[k] => i = k
  PROVE  LET members == {seq[i] : i \in DOMAIN seq}
         IN  IsFiniteSet(members) /\ Cardinality(members) <= Len(seq)
<1> DEFINE members == {seq[i] : i \in DOMAIN seq}
<1>1. Len(seq) \in Nat /\ DOMAIN seq = 1 .. Len(seq)
  OBVIOUS
<1>2. IsFiniteSet(1 .. Len(seq)) /\ Cardinality(1 .. Len(seq)) = Len(seq)
  BY <1>1, FS_Interval
<1>3. seq \in Surjection(1 .. Len(seq), members)
  BY <1>1, Fun_IsSurj
<1> QED  BY <1>2, <1>3, FS_Surjection

\* request_check keeps the bound, and what it registers nobody else will start.
LEMMA RequestKeepsInv ==
  ASSUME RegistryInv, NEW h \in Handlers, NEW sel \in Selections, RequestCheck(h, sel)
  PROVE  RegistryInv'
<1> DEFINE queued == Registrable(sel)
           registering == {queued[i] : i \in DOMAIN queued}
<1>1. /\ queued \in Seq(Coders)
      /\ \A i \in DOMAIN queued : thread[queued[i]] = "none"
      /\ \A i, k \in DOMAIN queued : queued[i] = queued[k] => i = k
      /\ Cardinality(Registered) + Len(queued) <= MaxChecks
  BY WhatIsQueued DEF RegistryInv
<1>2. /\ closing = "no"
      /\ toStart[h] = NotYet
      /\ toStart' = [toStart EXCEPT ![h] = queued]
      /\ entry' = [w \in Coders |->
                     IF w \in registering
                     THEN [entry[w] EXCEPT !.checking = TRUE, !.error = FALSE]
                     ELSE entry[w]]
      /\ thread' = [w \in Coders |-> IF w \in registering THEN "registered" ELSE thread[w]]
      /\ UNCHANGED <<closing, toJoin, joinLapsed>>
  BY DEF RequestCheck, RequestCheckAnyTime
<1>3. IsFiniteSet(registering) /\ Cardinality(registering) <= Len(queued)
  BY <1>1, MembersOfSequence
<1>4. registering \subseteq Coders
  BY <1>1, ElementOfSeq
<1> HIDE DEF queued
<1>5. RegistryTypeOK'
  <2>1. \A w \in Coders : entry'[w] \in [latest : Nat, checking : BOOLEAN, error : BOOLEAN]
    BY <1>2 DEF RegistryInv, RegistryTypeOK
  <2>2. entry' \in [Coders -> [latest : Nat, checking : BOOLEAN, error : BOOLEAN]]
    BY <1>2, <2>1
  <2>3. thread' \in [Coders -> ThreadStates]
    BY <1>2 DEF RegistryInv, RegistryTypeOK, ThreadStates
  <2>4. toStart' \in [Handlers -> Seq(Coders) \cup {NotYet}]
    BY <1>1, <1>2 DEF RegistryInv, RegistryTypeOK
  <2> QED  BY <1>2, <2>2, <2>3, <2>4 DEF RegistryInv, RegistryTypeOK
<1>6. StartInv'
  <2>1. \A g \in Handlers : toStart'[g] = IF g = h THEN queued ELSE toStart[g]
    BY <1>2 DEF RegistryInv, RegistryTypeOK
  <2>2. \A i \in DOMAIN queued : thread'[queued[i]] = "registered"
    BY <1>2, <1>4
  <2>3. ASSUME NEW g \in Handlers, Starting(g), NEW i \in DOMAIN toStart[g]
        PROVE  /\ toStart[g][i] \in Coders
               /\ thread[toStart[g][i]] = "registered"
               /\ thread'[toStart[g][i]] = "registered"
               /\ toStart[g][i] \notin registering
    <3>1. toStart[g] \in Seq(Coders)
      BY <2>3 DEF RegistryInv, RegistryTypeOK, Starting
    <3>2. toStart[g][i] \in Coders
      BY <2>3, <3>1, ElementOfSeq
    <3>3. thread[toStart[g][i]] = "registered"
      BY <2>3 DEF RegistryInv, StartInv
    <3>4. toStart[g][i] \notin registering
      BY <1>1, <3>3
    <3> QED  BY <1>2, <3>2, <3>3, <3>4
  <2>4. \A g \in Handlers : Starting(g)' =>
          \A i \in DOMAIN toStart'[g] : thread'[toStart'[g][i]] = "registered"
    BY <2>1, <2>2, <2>3 DEF Starting
  <2>5. ASSUME NEW f \in Handlers, NEW g \in Handlers, Starting(f)', Starting(g)',
               NEW i \in DOMAIN toStart'[f], NEW k \in DOMAIN toStart'[g],
               toStart'[f][i] = toStart'[g][k]
        PROVE  f = g /\ i = k
    <3>1. CASE f = h /\ g = h  BY <1>1, <2>1, <2>5, <3>1
    <3>2. CASE f = h /\ g # h
      <4>1. toStart'[f][i] \in registering
        BY <2>1, <2>5, <3>2
      <4>2. toStart'[g][k] \notin registering
        BY <2>1, <2>3, <2>5, <3>2 DEF Starting
      <4> QED  BY <2>5, <4>1, <4>2
    <3>3. CASE f # h /\ g = h
      <4>1. toStart'[g][k] \in registering
        BY <2>1, <2>5, <3>3
      <4>2. toStart'[f][i] \notin registering
        BY <2>1, <2>3, <2>5, <3>3 DEF Starting
      <4> QED  BY <2>5, <4>1, <4>2
    <3>4. CASE f # h /\ g # h
      BY <2>1, <2>5, <3>4 DEF RegistryInv, StartInv, Starting
    <3> QED  BY <3>1, <3>2, <3>3, <3>4
  <2> QED  BY <2>4, <2>5 DEF StartInv
<1>7. BoundInv'
  <2>1. Registered' = Registered \cup registering
    BY <1>2, <1>4 DEF Registered
  <2>2. IsFiniteSet(Registered) /\ Registered \cap registering = {}
    BY <1>1 DEF RegistryInv, BoundInv, Registered
  <2>3. IsFiniteSet(Registered \cup registering)
        /\ Cardinality(Registered \cup registering) = Cardinality(Registered) + Cardinality(registering) - 0
    BY <1>3, <2>2, FS_Union, FS_EmptySet
  <2>4. Cardinality(Registered) \in Nat /\ Cardinality(registering) \in Nat
        /\ MaxChecks \in Nat /\ Len(queued) \in Nat
    BY <1>1, <1>3, <2>2, FS_CardinalityType, RegistryAssumption
  <2>5. Cardinality(Registered \cup registering) <= MaxChecks
    BY <1>1, <1>3, <2>3, <2>4
  <2> QED  BY <2>1, <2>3, <2>5 DEF BoundInv
<1>8. ShutdownInv'
  BY <1>2 DEF ShutdownInv
<1> QED  BY <1>5, <1>6, <1>7, <1>8 DEF RegistryInv

\* A step that registers nobody keeps the bound.
LEMMA BoundKept ==
  ASSUME BoundInv, Registered' \subseteq Registered
  PROVE  BoundInv'
<1>1. IsFiniteSet(Registered') /\ Cardinality(Registered') <= Cardinality(Registered)
  BY FS_Subset DEF BoundInv
<1>2. Cardinality(Registered) \in Nat /\ Cardinality(Registered') \in Nat /\ MaxChecks \in Nat
  BY <1>1, FS_CardinalityType, RegistryAssumption DEF BoundInv
<1> QED  BY <1>1, <1>2 DEF BoundInv

\* The thread that is started next was registered and waits nowhere else.
LEMMA StartKeepsInv ==
  ASSUME RegistryInv, NEW h \in Handlers, StartThread(h)
  PROVE  RegistryInv'
<1> DEFINE w == Head(toStart[h])
<1>1. /\ toStart[h] \notin {NotYet, <<>>}
      /\ thread' = [thread EXCEPT ![w] = "running"]
      /\ toStart' = [toStart EXCEPT ![h] = Tail(@)]
      /\ UNCHANGED <<entry, closing, toJoin, joinLapsed>>
  BY DEF StartThread
<1>2. toStart[h] \in Seq(Coders) /\ Starting(h) /\ 1 \in DOMAIN toStart[h] /\ w = toStart[h][1]
  BY <1>1 DEF RegistryInv, RegistryTypeOK, Starting
<1>3. w \in Coders /\ thread[w] = "registered"
  BY <1>2 DEF RegistryInv, StartInv
<1>4. /\ Tail(toStart[h]) \in Seq(Coders)
      /\ \A i \in DOMAIN Tail(toStart[h]) : /\ i + 1 \in DOMAIN toStart[h]
                                            /\ i + 1 # 1
                                            /\ i \in Nat
                                            /\ Tail(toStart[h])[i] = toStart[h][i + 1]
  BY <1>1, <1>2, HeadTailProperties
<1> HIDE DEF w
<1>5. RegistryTypeOK'
  BY <1>1, <1>3, <1>4 DEF RegistryInv, RegistryTypeOK, ThreadStates
<1>6. StartInv'
  <2>1. \A g \in Handlers : toStart'[g] = IF g = h THEN Tail(toStart[h]) ELSE toStart[g]
    BY <1>1 DEF RegistryInv, RegistryTypeOK
  <2> DEFINE place(g, i) == IF g = h THEN i + 1 ELSE i
  <2>2. ASSUME NEW g \in Handlers, Starting(g)', NEW i \in DOMAIN toStart'[g]
        PROVE  /\ Starting(g)
               /\ place(g, i) \in DOMAIN toStart[g]
               /\ toStart'[g][i] = toStart[g][place(g, i)]
               /\ g = h => place(g, i) # 1 /\ i \in Nat
    BY <1>2, <1>4, <2>1, <2>2 DEF Starting
  <2> HIDE DEF place
  <2>3. ASSUME NEW g \in Handlers, Starting(g)', NEW i \in DOMAIN toStart'[g]
        PROVE  thread'[toStart'[g][i]] = "registered"
    <3>1. toStart'[g][i] # w
      BY <1>2, <2>2, <2>3 DEF RegistryInv, StartInv
    <3>2. thread[toStart'[g][i]] = "registered"
      BY <2>2, <2>3 DEF RegistryInv, StartInv
    <3>3. toStart[g] \in Seq(Coders)
      BY <2>2, <2>3 DEF RegistryInv, RegistryTypeOK, Starting
    <3>4. toStart'[g][i] \in Coders
      BY <2>2, <2>3, <3>3, ElementOfSeq
    <3> QED  BY <1>1, <3>1, <3>2, <3>4 DEF RegistryInv, RegistryTypeOK
  <2>4. ASSUME NEW f \in Handlers, NEW g \in Handlers, Starting(f)', Starting(g)',
               NEW i \in DOMAIN toStart'[f], NEW k \in DOMAIN toStart'[g],
               toStart'[f][i] = toStart'[g][k]
        PROVE  f = g /\ i = k
    <3>1. f = g /\ place(f, i) = place(g, k)
      BY <2>2, <2>4 DEF RegistryInv, StartInv
    <3>2. f = h => i \in Nat /\ k \in Nat
      BY <2>2, <2>4, <3>1
    <3> QED  BY <3>1, <3>2 DEF place
  <2> QED  BY <2>3, <2>4 DEF StartInv
<1>7. Registered' = Registered
  BY <1>1, <1>3 DEF Registered, RegistryInv, RegistryTypeOK
<1>8. BoundInv' /\ ShutdownInv'
  BY <1>1, <1>7, BoundKept DEF RegistryInv, ShutdownInv
<1> QED  BY <1>5, <1>6, <1>8 DEF RegistryInv

\* Every step of the handlers, the check threads and the shutdown.
LEMMA RegistryNextInv == RegistryInv /\ [RegistryNext]_registryVars => RegistryInv'
<1> SUFFICES ASSUME RegistryInv, [RegistryNext]_registryVars PROVE RegistryInv'
  OBVIOUS
<1>1. CASE UNCHANGED registryVars
  BY <1>1 DEF registryVars, RegistryInv, RegistryTypeOK, StartInv, Starting, BoundInv, Registered,
              ShutdownInv
<1>2. ASSUME NEW h \in Handlers, NEW sel \in Selections, RequestCheck(h, sel)
      PROVE  RegistryInv'
  BY <1>2, RequestKeepsInv
<1>3. ASSUME NEW h \in Handlers, StartThread(h) PROVE RegistryInv'
  BY <1>3, StartKeepsInv
<1>4. ASSUME NEW h \in Handlers, StartFails(h) PROVE RegistryInv'
  <2>1. /\ toStart' = [toStart EXCEPT ![h] = <<>>]
        /\ UNCHANGED <<entry, thread, closing, toJoin, joinLapsed>>
    BY <1>4 DEF StartFails
  <2>2. \A g \in Handlers : toStart'[g] = IF g = h THEN <<>> ELSE toStart[g]
    BY <2>1 DEF RegistryInv, RegistryTypeOK
  <2>3. RegistryTypeOK'
    BY <2>1 DEF RegistryInv, RegistryTypeOK
  <2>4. \A i : i \notin DOMAIN <<>>
    OBVIOUS
  <2>5. StartInv'
    BY <2>1, <2>2, <2>4 DEF RegistryInv, StartInv, Starting
  <2>6. Registered' = Registered
    BY <2>1 DEF Registered
  <2> QED  BY <2>1, <2>3, <2>5, <2>6, BoundKept DEF RegistryInv, ShutdownInv
<1>5. ASSUME NEW w \in Coders, NEW reply \in Replies, Finish(w, reply) PROVE RegistryInv'
  <2>1. /\ thread[w] = "running"
        /\ thread' = [thread EXCEPT ![w] = "none"]
        /\ UNCHANGED <<toStart, closing, toJoin, joinLapsed>>
    BY <1>5 DEF Finish
  <2>2. Fetch(reply) \in Nat
    <3>1. reply.version \in Versions \cup {0}
      BY Zenon DEF Replies
    <3>2. Fetch(reply) \in {0, reply.version}
      BY Zenon DEF Fetch
    <3>3. Versions \cup {0} \subseteq Nat
      BY RegistryAssumption
    <3> QED  BY <3>1, <3>2, <3>3, Zenon
  <2>3. RegistryTypeOK'
    BY <1>5, <2>1, <2>2 DEF Finish, RegistryInv, RegistryTypeOK, ThreadStates
  <2>4. \A v \in Coders : thread[v] = "registered" => thread'[v] = "registered"
    BY <2>1 DEF RegistryInv, RegistryTypeOK
  <2>5. ASSUME NEW g \in Handlers, Starting(g), NEW i \in DOMAIN toStart[g]
        PROVE  toStart[g][i] \in Coders
    BY <2>5, ElementOfSeq DEF RegistryInv, RegistryTypeOK, Starting
  <2>6. StartInv'
    BY <2>1, <2>4, <2>5 DEF RegistryInv, StartInv, Starting
  <2>7. Registered' \subseteq Registered
    BY <2>1 DEF Registered, RegistryInv, RegistryTypeOK
  <2> QED  BY <2>1, <2>3, <2>6, <2>7, BoundKept DEF RegistryInv, ShutdownInv
<1>6. CASE Shutdown
  BY <1>6 DEF Shutdown, RegistryInv, RegistryTypeOK, StartInv, Starting, BoundInv, Registered,
              ShutdownInv
<1>7. ASSUME NEW w \in Coders, Join(w) PROVE RegistryInv'
  <2>1. RegistryTypeOK' /\ StartInv' /\ BoundInv'
    BY <1>7 DEF Join, RegistryInv, RegistryTypeOK, StartInv, Starting, BoundInv, Registered
  <2>2. ShutdownInv'
    BY <1>7 DEF Join, RegistryInv, RegistryTypeOK, ThreadStates, Registered, ShutdownInv
  <2> QED  BY <2>1, <2>2 DEF RegistryInv
<1>8. CASE ShutdownReturns
  BY <1>8 DEF ShutdownReturns, RegistryInv, RegistryTypeOK, StartInv, Starting, BoundInv,
              Registered, ShutdownInv
<1> QED
  BY <1>1, <1>2, <1>3, <1>4, <1>5, <1>6, <1>7, <1>8 DEF RegistryNext

\* The invariant holds throughout.
LEMMA RegistryInductive == RegistrySpec => []RegistryInv
<1>1. RegistryInit => RegistryInv
  <2> SUFFICES ASSUME RegistryInit PROVE RegistryInv
    OBVIOUS
  <2>1. RegistryTypeOK
    BY DEF RegistryInit, RegistryTypeOK, ThreadStates
  <2>2. Registered = {}
    BY DEF RegistryInit, Registered
  <2>3. BoundInv
    BY <2>2, FS_EmptySet, RegistryAssumption DEF BoundInv
  <2> QED  BY <2>1, <2>3 DEF RegistryInit, RegistryInv, StartInv, Starting, ShutdownInv
<1> QED  BY <1>1, RegistryNextInv, PTL DEF RegistrySpec

\* At most _max_checks checks run, however requests, their threads and their
\* endings interleave and whichever of them fail to start.
THEOREM ChecksAreBounded == RegistrySpec => []CheckersBounded
<1>1. RegistryInv => CheckersBounded
  <2> SUFFICES ASSUME RegistryInv PROVE CheckersBounded
    OBVIOUS
  <2> DEFINE running == {w \in Coders : thread[w] = "running"}
  <2>1. running \in SUBSET Registered
    BY DEF Registered
  <2>2. IsFiniteSet(running) /\ Cardinality(running) <= Cardinality(Registered)
    BY <2>1, FS_Subset DEF RegistryInv, BoundInv
  <2>3. Cardinality(running) \in Nat /\ Cardinality(Registered) \in Nat /\ MaxChecks \in Nat
    BY <2>2, FS_CardinalityType, RegistryAssumption DEF RegistryInv, BoundInv
  <2> QED  BY <2>2, <2>3 DEF RegistryInv, BoundInv, CheckersBounded
<1> QED  BY <1>1, RegistryInductive, PTL

\* A shutdown that returns without a lapsed join leaves no check behind.
THEOREM ShutdownWaitsForChecks == RegistrySpec => []NoCheckOutlivesShutdown
<1>1. RegistryInv => NoCheckOutlivesShutdown
  BY DEF RegistryInv, ShutdownInv, Registered, NoCheckOutlivesShutdown
<1> QED  BY <1>1, RegistryInductive, PTL

-----------------------------------------------------------------------------
(* The quota cache *)

\* Windows without a failure since are the last refresh's.
QuotaInv ==
  /\ succeeded \in BOOLEAN /\ failed \in BOOLEAN
  /\ successAge \in Nat
  /\ succeeded /\ ~failed => windows # {} /\ lastRefresh = "good"

\* Every step of the cache, its refresh thread and the clock.
LEMMA QuotaNextInv == QuotaInv /\ [QuotaNext]_quotaVars => QuotaInv'
<1> SUFFICES ASSUME QuotaInv, [QuotaNext]_quotaVars PROVE QuotaInv'
  OBVIOUS
<1> USE DEF QuotaInv
<1>1. CASE UNCHANGED quotaVars  BY <1>1 DEF quotaVars
<1>2. CASE RequestRefresh \/ Spawn \/ SpawnFails
  BY <1>2 DEF RequestRefresh, Spawn, SpawnFails
<1>3. ASSUME NEW server \in Servers, RefreshSucceeds(server) PROVE QuotaInv'
  BY <1>3 DEF RefreshSucceeds, Available
<1>4. ASSUME NEW server \in Servers, RefreshFails(server) PROVE QuotaInv'
  BY <1>4 DEF RefreshFails
<1>5. CASE Tick
  BY <1>5 DEF Tick
<1> QED  BY <1>1, <1>2, <1>3, <1>4, <1>5 DEF QuotaNext

\* Quota shown as available is there, young and undisputed.
THEOREM AvailableQuotaIsFresh == QuotaSpec => []AvailableIsFresh
<1>1. QuotaInit => QuotaInv
  <2>1. QuotaInit => successAge \in Nat
    BY QuotaAssumption DEF QuotaInit
  <2> QED  BY <2>1, Zenon DEF QuotaInit, QuotaInv
<1>2. QuotaInv => AvailableIsFresh
  BY QuotaAssumption DEF QuotaInv, AvailableIsFresh, State
<1> QED  BY <1>1, <1>2, QuotaNextInv, PTL DEF QuotaSpec

-----------------------------------------------------------------------------
(* The badge of a worker *)

\* The clock and all stamps are within a bound.
Stamps(bound) ==
  /\ clock \in 0 .. bound
  /\ \A t \in DOMAIN tests : tests[t].created \in 0 .. bound

TestStatuses ==
  {"running", "completed", "failed", "cancelled", "timed_out", "auth_error", "rate_limited",
   "invalid_output"}

TestCodes ==
  {"", "CANCELLED", "TIMEOUT", "OUTPUT_LIMIT", "BUDGET_EXHAUSTED", "AUTH_ERROR", "RATE_LIMITED",
   "QUOTA_OR_BILLING", "INVALID_OUTPUT", "WORKER_CRASH", "USAGE_REPORT_MISMATCH", "INTERRUPTED"}

TestRows ==
  [status : TestStatuses, code : TestCodes, created : Nat, completed : Nat, healthy : BOOLEAN]

\* Rows are numbered and stamped; while the clock has not been set back their
\* stamps do not decrease.  A row that says completed is a healthy test's.
HealthInv ==
  /\ clock \in Nat
  /\ tests \in Seq(TestRows)
  /\ \E bound \in Nat : Stamps(bound)
  /\ \A t \in DOMAIN tests : tests[t].status = "completed" => tests[t].healthy
  /\ ~clockSetBack =>
       \A t, u \in DOMAIN tests : t <= u => tests[t].created <= tests[u].created
  /\ ~clockSetBack => \A t \in DOMAIN tests : tests[t].created <= clock

\* A verdict of completed is given to healthy outcomes only.
LEMMA VerdictIsHealthy ==
  ASSUME NEW o \in Outcomes, TestVerdict(o)[1] = "completed"
  PROVE  Healthy(o)
<1>1. Classify(o)[1] = "completed" /\ o.output = "report"
  <2>1. CASE Classify(o)[1] = "completed" /\ o.output # "report"
    BY <2>1 DEF TestVerdict
  <2>2. CASE ~(Classify(o)[1] = "completed" /\ o.output # "report")
    <3>1. TestVerdict(o) = Classify(o)
      BY <2>2 DEF TestVerdict
    <3> QED  BY <2>2, <3>1
  <2> QED  BY <2>1, <2>2
<1>2. o.cause \in {"cancelled", "timed_out", "oversized", "exited"}
      /\ o.pattern \in {"none", "AUTH_ERROR", "RATE_LIMITED", "QUOTA_OR_BILLING"}
  BY DEF Outcomes
<1>3. o.cause = "exited"
  BY <1>1, <1>2 DEF Classify
<1>4. o.exit = 0
  <2> SUFFICES ASSUME o.exit # 0 PROVE FALSE
    OBVIOUS
  <2>1. o.pattern # "none" => PatternStatus[o.pattern] # "completed"
    BY <1>2 DEF PatternStatus
  <2>2. CASE o.exit # 55 /\ o.pattern # "none"
    <3>1. Classify(o) = <<PatternStatus[o.pattern], o.pattern>>
      BY <1>3, <2>2 DEF Classify
    <3> QED  BY <1>1, <2>1, <2>2, <3>1
  <2>3. CASE o.exit = 55 \/ o.pattern = "none"
    BY <1>1, <1>3, <2>3 DEF Classify
  <2> QED  BY <2>2, <2>3
<1> QED  BY <1>1, <1>3, <1>4 DEF Healthy

\* Every verdict is a status with its code.
LEMMA VerdictIsTyped ==
  ASSUME NEW o \in Outcomes
  PROVE  TestVerdict(o)[1] \in TestStatuses /\ TestVerdict(o)[2] \in TestCodes
<1> USE DEF TestStatuses, TestCodes
<1>1. o.pattern \in {"none", "AUTH_ERROR", "RATE_LIMITED", "QUOTA_OR_BILLING"}
  BY DEF Outcomes
<1>2. o.pattern # "none" => PatternStatus[o.pattern] \in TestStatuses
  BY <1>1 DEF PatternStatus
<1>3. Classify(o)[1] \in TestStatuses /\ Classify(o)[2] \in TestCodes
  BY <1>1, <1>2 DEF Classify
<1> QED  BY <1>3 DEF TestVerdict

\* The test shown is one with the latest stamp, and of these the last one.
LEMMA WhichIsLatest ==
  ASSUME tests \in Seq(TestRows), tests # <<>>, NEW bound \in Nat, Stamps(bound)
  PROVE  /\ LatestTest \in DOMAIN tests
         /\ \A u \in DOMAIN tests :
              (\A v \in DOMAIN tests : tests[v].created <= tests[u].created) => u <= LatestTest
<1> DEFINE stamps == {tests[t].created : t \in DOMAIN tests}
           T == {t \in DOMAIN tests : \A u \in DOMAIN tests : tests[u].created <= tests[t].created}
<1>1. DOMAIN tests = 1 .. Len(tests) /\ Len(tests) \in Nat /\ Len(tests) # 0
  OBVIOUS
<1>2. PICK c \in stamps : \A k \in stamps : k <= c
  <2>1. stamps \in SUBSET (0 .. bound) /\ stamps # {}
    BY <1>1 DEF Stamps
  <2> QED  BY <2>1, GreatestNumber
<1>3. T # {} /\ T \in SUBSET (0 .. Len(tests))
  BY <1>1, <1>2
<1>4. \E m \in T : \A k \in T : k <= m
  BY <1>1, <1>3, GreatestNumber
<1>5. LatestTest \in T /\ \A k \in T : LatestTest >= k
  <2>1. \E m \in T : \A k \in T : m >= k
    BY <1>1, <1>4
  <2>2. LatestTest = CHOOSE m \in T : \A k \in T : m >= k
    BY Zenon DEF LatestTest, Max
  <2> HIDE DEF T
  <2> QED  BY <2>1, <2>2
<1> QED  BY <1>1, <1>5

\* Every step of the tests and the clock preserves the invariant.
LEMMA HealthNextInv == HealthInv /\ [HealthNext]_healthVars => HealthInv'
<1> SUFFICES ASSUME HealthInv, [HealthNext]_healthVars PROVE HealthInv'
  OBVIOUS
<1>0. PICK bound \in Nat : Stamps(bound)
  BY DEF HealthInv
<1>1. CASE UNCHANGED healthVars
  BY <1>1 DEF healthVars, HealthInv, Stamps
<1>2. CASE BeginTest \/ LoadSnapshot
  BY <1>2 DEF BeginTest, LoadSnapshot, HealthInv, Stamps
<1>3. CASE RecordTest
  <2>1. CASE tests' = tests
    BY <1>3, <2>1 DEF RecordTest, HealthInv, Stamps
  <2> DEFINE row == [status |-> "running", code |-> "", created |-> clock,
                     completed |-> 0, healthy |-> FALSE]
  <2>2. CASE tests' = Append(tests, row)
    <3>1. row \in TestRows /\ row.created = clock /\ row.status = "running"
      <4>1. clock \in Nat /\ 0 \in Nat
        BY DEF HealthInv
      <4>2. "running" \in TestStatuses /\ "" \in TestCodes
        BY DEF TestStatuses, TestCodes
      <4> QED  BY <4>1, <4>2, Zenon DEF TestRows
    <3>2. clock' = clock /\ clockSetBack' = clockSetBack
      BY <1>3 DEF RecordTest
    <3> HIDE DEF row
    <3>3. /\ tests' \in Seq(TestRows)
          /\ DOMAIN tests = 1 .. Len(tests) /\ Len(tests) \in Nat
          /\ DOMAIN tests' = 1 .. Len(tests) + 1
          /\ \A t \in DOMAIN tests : tests'[t] = tests[t]
          /\ tests'[Len(tests) + 1] = row
      BY <2>2, <3>1 DEF HealthInv
    <3>4. Stamps(bound)'
      BY <1>0, <3>1, <3>2, <3>3 DEF Stamps
    <3>5. \A t \in DOMAIN tests' : tests'[t].status = "completed" => tests'[t].healthy
      BY <3>1, <3>3 DEF HealthInv
    <3>6. ~clockSetBack' =>
            \A t, u \in DOMAIN tests' : t <= u => tests'[t].created <= tests'[u].created
      BY <3>1, <3>2, <3>3 DEF HealthInv
    <3>7. ~clockSetBack' => \A t \in DOMAIN tests' : tests'[t].created <= clock'
      BY <3>1, <3>2, <3>3 DEF HealthInv
    <3> QED  BY <3>2, <3>3, <3>4, <3>5, <3>6, <3>7 DEF HealthInv
  <2> QED  BY <1>3, <2>1, <2>2 DEF RecordTest
<1>4. ASSUME NEW t \in DOMAIN tests, NEW status \in TestStatuses, NEW code \in TestCodes,
             NEW healthy \in BOOLEAN, status = "completed" => healthy,
             Ended(t, status, code, healthy),
             UNCHANGED <<clock, clockSetBack>>
      PROVE  HealthInv'
  <2> DEFINE row == [tests[t] EXCEPT !.status = status, !.code = code,
                                     !.completed = clock, !.healthy = healthy]
  <2>1. tests[t] \in TestRows
    BY DEF HealthInv
  <2>2. /\ row \in TestRows
        /\ row.created = tests[t].created
        /\ row.status = "completed" => row.healthy
    BY <1>4, <2>1 DEF TestRows, HealthInv
  <2>3. tests' = [tests EXCEPT ![t] = row]
    BY <1>4 DEF Ended
  <2> HIDE DEF row
  <2>4. /\ tests' \in Seq(TestRows)
        /\ DOMAIN tests' = DOMAIN tests
        /\ \A u \in DOMAIN tests : tests'[u] = IF u = t THEN row ELSE tests[u]
    BY <2>2, <2>3 DEF HealthInv
  <2>5. \A u \in DOMAIN tests : tests'[u].created = tests[u].created
    BY <2>2, <2>4
  <2>6. \A u \in DOMAIN tests' : tests'[u].status = "completed" => tests'[u].healthy
    BY <2>2, <2>4 DEF HealthInv
  <2>7. Stamps(bound)'
    BY <1>0, <1>4, <2>4, <2>5 DEF Stamps
  <2> QED  BY <1>4, <2>4, <2>5, <2>6, <2>7 DEF HealthInv
<1>5. ASSUME NEW t \in DOMAIN tests, EndTest(t) PROVE HealthInv'
  <2>1. PICK o \in Outcomes : Ended(t, TestVerdict(o)[1], TestVerdict(o)[2], Healthy(o))
    BY <1>5 DEF EndTest
  <2>2. TestVerdict(o)[1] \in TestStatuses /\ TestVerdict(o)[2] \in TestCodes
    BY VerdictIsTyped
  <2>3. Healthy(o) \in BOOLEAN /\ (TestVerdict(o)[1] = "completed" => Healthy(o))
    <3>1. Healthy(o) \in BOOLEAN
      BY Zenon DEF Healthy
    <3> QED  BY <3>1, VerdictIsHealthy, Zenon
  <2> QED  BY <1>4, <1>5, <2>1, <2>2, <2>3 DEF EndTest
<1>6. ASSUME NEW t \in DOMAIN tests, EndTestOtherwise(t) PROVE HealthInv'
  <2>1. UNCHANGED <<clock, clockSetBack>>
        /\ (Ended(t, "cancelled", "CANCELLED", FALSE) \/ Ended(t, "failed", "INTERRUPTED", FALSE))
    BY <1>6 DEF EndTestOtherwise
  <2>2. "cancelled" \in TestStatuses /\ "failed" \in TestStatuses
        /\ "CANCELLED" \in TestCodes /\ "INTERRUPTED" \in TestCodes
        /\ "cancelled" # "completed" /\ "failed" # "completed" /\ FALSE \in BOOLEAN
    BY DEF TestStatuses, TestCodes
  <2>3. Ended(t, "cancelled", "CANCELLED", FALSE) => HealthInv'
    BY <1>4, <2>1, <2>2
  <2>4. Ended(t, "failed", "INTERRUPTED", FALSE) => HealthInv'
    BY <1>4, <2>1, <2>2
  <2> QED  BY <2>1, <2>3, <2>4
<1>7. CASE TimePasses
  <2>1. clock' = clock + 1 /\ UNCHANGED <<clockSetBack, tests>>
    BY <1>7 DEF TimePasses
  <2>2. Stamps(bound + 1)' /\ bound + 1 \in Nat
    BY <1>0, <2>1 DEF Stamps, HealthInv
  <2>3. ~clockSetBack' => \A t \in DOMAIN tests' : tests'[t].created <= clock'
    <3>1. \A t \in DOMAIN tests : tests[t].created \in Nat
      BY <1>0 DEF Stamps
    <3> QED  BY <2>1, <3>1 DEF HealthInv
  <2>4. \E b \in Nat : Stamps(b)'
    BY <2>2
  <2> QED  BY <2>1, <2>3, <2>4 DEF HealthInv
<1>8. CASE SetClockBack
  <2>1. clock' \in 1 .. clock - 1 /\ clockSetBack' /\ tests' = tests
    BY <1>8 DEF SetClockBack
  <2>2. clock' \in Nat /\ Stamps(bound)'
    BY <1>0, <2>1 DEF Stamps, HealthInv
  <2> QED  BY <2>1, <2>2 DEF HealthInv
<1> QED  BY <1>1, <1>2, <1>3, <1>5, <1>6, <1>7, <1>8 DEF HealthNext

\* READY rests on the test that was started last, or after the clock was set back on
\* another healthy one.
THEOREM ReadyIsHealthy == HealthSpec => []ReadyMeansHealthyTest
<1>1. HealthInit => HealthInv
  <2> SUFFICES ASSUME HealthInit PROVE HealthInv
    OBVIOUS
  <2>1. tests = <<>> /\ clock = 1 /\ DOMAIN tests = {}
    BY DEF HealthInit
  <2>2. Stamps(1)
    BY <2>1 DEF Stamps
  <2> QED  BY <2>1, <2>2 DEF HealthInv
<1>2. HealthInv => ReadyMeansHealthyTest
  <2> SUFFICES ASSUME HealthInv, CardStatus = "READY"
               PROVE  /\ configured /\ ~starting
                      /\ tests[LatestTest].healthy
                      /\ clock - tests[LatestTest].completed \in 0 .. Freshness
                      /\ clockSetBack \/ LatestTest = Len(tests)
                      /\ CommandLineStatus = "LAST_TEST_SUCCEEDED"
    BY DEF ReadyMeansHealthyTest
  <2>1. tests # <<>>
    BY DEF CardStatus
  <2>2. /\ configured /\ ~starting /\ Fresh
        /\ tests[LatestTest].status = "completed"
    BY <2>1 DEF CardStatus
  <2>3. LatestTest \in DOMAIN tests
        /\ \A u \in DOMAIN tests :
             (\A v \in DOMAIN tests : tests[v].created <= tests[u].created) => u <= LatestTest
    BY <2>1, WhichIsLatest DEF HealthInv
  <2>4. tests[LatestTest].healthy
    BY <2>2, <2>3 DEF HealthInv
  <2>5. ~clockSetBack => LatestTest = Len(tests)
    <3>1. DOMAIN tests = 1 .. Len(tests) /\ Len(tests) \in Nat /\ Len(tests) # 0
      BY <2>1 DEF HealthInv
    <3>2. ~clockSetBack => \A v \in DOMAIN tests : tests[v].created <= tests[Len(tests)].created
      BY <3>1 DEF HealthInv
    <3> QED  BY <2>3, <3>1, <3>2
  <2>6. Age = clock - tests[LatestTest].completed
    BY <2>2 DEF Age, Running
  <2>7. CommandLineStatus = "LAST_TEST_SUCCEEDED"
    BY <2>1, <2>2 DEF CommandLineStatus
  <2> QED  BY <2>2, <2>4, <2>5, <2>6, <2>7 DEF Fresh
<1> QED  BY <1>1, <1>2, HealthNextInv, PTL DEF HealthSpec

-----------------------------------------------------------------------------
(* The token totals *)

\* Multiplication distributes.
LEMMA Distributes ==
  ASSUME NEW a \in Nat, NEW b \in Nat, NEW k \in Nat
  PROVE  a * k \in Nat /\ b * k \in Nat /\ (a + b) * k = a * k + b * k
OBVIOUS

\* Two running sums over the same positions of 1 .. m: tokens v[i] and requests w[i],
\* where v[i] is k tokens for each request, or unknown outside good.
SumsOf(m, k, counted, good, v, w, total, requests) ==
  /\ m \in Nat /\ k \in Nat
  /\ counted \subseteq 1 .. m
  /\ \A i \in 1 .. m : v[i] \in Int /\ w[i] \in Nat
  /\ \A i \in counted : v[i] = IF i \in good THEN w[i] * k ELSE Unknown
  /\ total[0] = 0 /\ requests[0] = 0
  /\ \A n \in 1 .. m :
       /\ total[n] = IF n \in counted THEN Add(total[n - 1], v[n]) ELSE total[n - 1]
       /\ requests[n] = requests[n - 1] + IF n \in counted THEN w[n] ELSE 0

\* They stay in proportion, or the first is unknown.
LEMMA SumsInProportion ==
  ASSUME NEW m, NEW k, NEW counted, NEW good, NEW v, NEW w, NEW total, NEW requests,
         SumsOf(m, k, counted, good, v, w, total, requests)
  PROVE  /\ requests[m] \in Nat
         /\ total[m] = IF counted \subseteq good THEN requests[m] * k ELSE Unknown
<1> USE DEF SumsOf
<1> DEFINE Good(n) ==
      /\ requests[n] \in Nat
      /\ total[n] = IF \A i \in counted : i <= n => i \in good THEN requests[n] * k ELSE Unknown
<1> DEFINE T == {n \in Nat : n <= m => Good(n)}
<1>1. 0 \in T
  <2>1. \A i \in counted : ~(i <= 0)
    OBVIOUS
  <2>2. 0 * k = 0
    OBVIOUS
  <2> QED  BY <2>1, <2>2
<1>2. ASSUME NEW n \in Nat, n \in T PROVE n + 1 \in T
  <2> SUFFICES ASSUME n + 1 <= m PROVE Good(n + 1)
    OBVIOUS
  <2>1. n + 1 \in 1 .. m /\ (n + 1) - 1 = n
    OBVIOUS
  <2>2. Good(n)
    BY <1>2
  <2>3. /\ requests[n + 1] = requests[n] + IF n + 1 \in counted THEN w[n + 1] ELSE 0
        /\ total[n + 1] = IF n + 1 \in counted THEN Add(total[n], v[n + 1]) ELSE total[n]
    BY <2>1
  <2>4. requests[n] \in Nat /\ w[n + 1] \in Nat
    BY <2>1, <2>2
  <2> DEFINE before == \A i \in counted : i <= n => i \in good
             upto == \A i \in counted : i <= n + 1 => i \in good
  <2>5. CASE n + 1 \notin counted
    <3>1. upto <=> before
      <4>1. ASSUME NEW i \in counted PROVE i <= n + 1 <=> i <= n
        <5>1. i # n + 1 /\ i \in Nat
          BY <2>5
        <5> QED  BY <5>1
      <4> QED  BY <4>1
    <3>2. requests[n + 1] = requests[n] /\ total[n + 1] = total[n]
      BY <2>3, <2>4, <2>5
    <3> QED  BY <2>2, <3>1, <3>2
  <2>6. CASE n + 1 \in counted
    <3>1. upto <=> before /\ n + 1 \in good
      <4>1. \A i \in counted : i <= n + 1 <=> i <= n \/ i = n + 1
        OBVIOUS
      <4> QED  BY <2>6, <4>1
    <3>2. requests[n + 1] = requests[n] + w[n + 1] /\ total[n + 1] = Add(total[n], v[n + 1])
      BY <2>3, <2>6
    <3>3. v[n + 1] = IF n + 1 \in good THEN w[n + 1] * k ELSE Unknown
      BY <2>6
    <3>4. total[n] = IF before THEN requests[n] * k ELSE Unknown
      BY <2>2
    <3>5. /\ requests[n] * k \in Nat /\ w[n + 1] * k \in Nat
          /\ (requests[n] + w[n + 1]) * k = requests[n] * k + w[n + 1] * k
      BY <2>4, Distributes
    <3> HIDE DEF before, upto
    <3>6. total[n + 1] = IF before /\ n + 1 \in good
                         THEN requests[n] * k + w[n + 1] * k ELSE Unknown
      BY <3>2, <3>3, <3>4, <3>5 DEF Add, Unknown
    <3>7. total[n + 1] = IF upto THEN requests[n + 1] * k ELSE Unknown
      BY <3>1, <3>2, <3>5, <3>6
    <3> QED  BY <2>4, <3>2, <3>7 DEF upto
  <2> QED  BY <2>5, <2>6
<1>3. Good(m)
  <2> HIDE DEF Good
  <2>1. Nat \subseteq T
    <3> HIDE DEF T
    <3> QED  BY <1>1, <1>2, SetInduction
  <2> QED  BY <2>1
<1>4. (\A i \in counted : i <= m => i \in good) <=> counted \subseteq good
  OBVIOUS
<1> QED  BY <1>3, <1>4

\* What one request spent on a counter, if its record has the fields of it.
LEMMA KimiSpends ==
  ASSUME NEW record, NEW c \in Counters
  PROVE  KimiValues(record)[c] =
           IF FieldsOf("kimi", c) \subseteq record THEN Spent("kimi", c) ELSE Unknown
<1>1. CASE c = "input"
  <2>1. KimiValues(record)[c] =
          IF {"inputOther", "inputCacheRead", "inputCacheCreation"} \subseteq record
          THEN KimiFields.inputOther + KimiFields.inputCacheRead + KimiFields.inputCacheCreation
          ELSE Unknown
    BY <1>1, Zenon DEF KimiValues
  <2>2. KimiFields.inputOther + KimiFields.inputCacheRead + KimiFields.inputCacheCreation = 7
    BY DEF KimiFields
  <2>3. FieldsOf("kimi", c) = {"inputOther", "inputCacheRead", "inputCacheCreation"}
    BY <1>1 DEF FieldsOf
  <2>4. Spent("kimi", c) = 7
    BY <1>1 DEF Spent
  <2> QED  BY <2>1, <2>2, <2>3, <2>4
<1>2. CASE c = "output"
  <2>1. KimiValues(record)[c] = IF "output" \in record THEN KimiFields["output"] ELSE Unknown
    BY <1>2, Zenon DEF KimiValues, Field
  <2>2. KimiFields["output"] = 8
    BY DEF KimiFields
  <2>3. FieldsOf("kimi", c) = {"output"} /\ Spent("kimi", c) = 8
    BY <1>2 DEF FieldsOf, Spent
  <2> QED  BY <2>1, <2>2, <2>3
<1>3. CASE c = "cached"
  <2>1. KimiValues(record)[c] = IF "inputCacheRead" \in record THEN KimiFields["inputCacheRead"]
                                ELSE Unknown
    BY <1>3, Zenon DEF KimiValues, Field
  <2>2. KimiFields["inputCacheRead"] = 2
    BY DEF KimiFields
  <2>3. FieldsOf("kimi", c) = {"inputCacheRead"} /\ Spent("kimi", c) = 2
    BY <1>3 DEF FieldsOf, Spent
  <2> QED  BY <2>1, <2>2, <2>3
<1> QED  BY <1>1, <1>2, <1>3 DEF Counters

\* The sums are numbers.
LEMMA SpentIsNat ==
  ASSUME NEW worker \in {"qwen", "kimi"}, NEW c \in Counters
  PROVE  Spent(worker, c) \in Nat
<1>1. CASE c = "input"  BY <1>1 DEF Spent
<1>2. CASE c = "output"  BY <1>2 DEF Spent
<1>3. CASE c = "cached"  BY <1>3 DEF Spent
<1> QED  BY <1>1, <1>2, <1>3 DEF Counters

\* Every request behind a row reported the fields of counter c.
Reported(worker, wire, c) == \A record \in ToSet(wire) : FieldsOf(worker, c) \subseteq record

\* The usage of a row is what all its requests spent, counter by counter.
UsageFits(worker, wire, usage) ==
  \A c \in Counters :
    usage[c] = IF Reported(worker, wire, c) THEN Len(wire) * Spent(worker, c) ELSE Unknown

\* QwenAdapter.parse_output has one record.
LEMMA QwenFits ==
  ASSUME NEW record \in SUBSET Counters
  PROVE  /\ QwenUsage(record) \in [Counters -> Int]
         /\ UsageFits("qwen", <<record>>, QwenUsage(record))
<1>1. ASSUME NEW c \in Counters
      PROVE  QwenFields[c] = Spent("qwen", c) /\ FieldsOf("qwen", c) = {c}
  <2>1. CASE c = "input"  BY <2>1 DEF Spent, QwenFields, FieldsOf
  <2>2. CASE c = "output"  BY <2>2 DEF Spent, QwenFields, FieldsOf
  <2>3. CASE c = "cached"  BY <2>3 DEF Spent, QwenFields, FieldsOf
  <2> QED  BY <2>1, <2>2, <2>3 DEF Counters
<1>2. ToSet(<<record>>) = {record} /\ Len(<<record>>) = 1
  BY DEF ToSet
<1>3. ASSUME NEW c \in Counters
      PROVE  /\ QwenUsage(record)[c] = IF c \in record THEN Spent("qwen", c) ELSE Unknown
             /\ QwenUsage(record)[c] \in Int
             /\ Reported("qwen", <<record>>, c) <=> c \in record
             /\ Len(<<record>>) * Spent("qwen", c) = Spent("qwen", c)
  <2>1. QwenUsage(record)[c] = IF c \in record THEN Spent("qwen", c) ELSE Unknown
    BY <1>1, Zenon DEF QwenUsage
  <2>2. Spent("qwen", c) \in Nat /\ Unknown \in Int
    BY SpentIsNat DEF Unknown
  <2>3. Reported("qwen", <<record>>, c) <=> c \in record
    BY <1>1, <1>2 DEF Reported
  <2>4. Len(<<record>>) * Spent("qwen", c) = Spent("qwen", c)
    BY <1>2, <2>2
  <2> QED  BY <2>1, <2>2, <2>3, <2>4
<1>4. QwenUsage(record) = [c \in Counters |-> QwenUsage(record)[c]]
  BY Zenon DEF QwenUsage
<1>5. QwenUsage(record) \in [Counters -> Int]
  BY <1>3, <1>4, Zenon
<1>6. UsageFits("qwen", <<record>>, QwenUsage(record))
  BY <1>3, Zenon DEF UsageFits
<1> QED  BY <1>5, <1>6

\* A loop over whole numbers that starts with 0, written as its definition writes it,
\* exists.
LEMMA LoopExists ==
  ASSUME NEW m \in Nat, NEW step \in [Nat \X Int -> Int]
  PROVE  \E f \in [0 .. m -> Int] :
           \A n \in 0 .. m : f[n] = IF n = 0 THEN 0 ELSE step[<<n, f[n - 1]>>]
<1>1. PICK f : Recursion(f, m, Int, 0, step)
  <2>1. 0 \in Int
    OBVIOUS
  <2> QED  BY <2>1, RecursionExists
<1>2. \A n \in 0 .. m : n # 0 => n \in 1 .. m
  OBVIOUS
<1> QED  BY <1>1, <1>2 DEF Recursion

\* f sums v over the counted positions up to each n, an unknown value spoiling it.
IsSum(f, m, counted, v) ==
  \A n \in 0 .. m : f[n] = IF n = 0 THEN 0
                           ELSE IF n \in counted THEN Add(f[n - 1], v[n]) ELSE f[n - 1]

\* The sum over the rows, or over the requests of one, exists.
LEMMA SumExists ==
  ASSUME NEW m \in Nat, NEW counted \in SUBSET (1 .. m), NEW v \in [1 .. m -> Int]
  PROVE  \E f \in [0 .. m -> Int] : IsSum(f, m, counted, v)
<1> DEFINE step == [p \in Nat \X Int |-> IF p[1] \in counted THEN Add(p[2], v[p[1]]) ELSE p[2]]
<1>1. \A x, y \in Int : Add(x, y) \in Int
  BY DEF Add, Unknown
<1>2. \A n \in counted : n \in 1 .. m /\ v[n] \in Int
  OBVIOUS
<1>3. step \in [Nat \X Int -> Int]
  <2>1. ASSUME NEW p \in Nat \X Int PROVE step[p] \in Int
    <3>1. p[1] \in counted => Add(p[2], v[p[1]]) \in Int
      BY <1>1, <1>2
    <3> QED  BY <3>1
  <2> QED  BY <2>1
<1>4. \A n \in Nat, x \in Int : step[<<n, x>>] = IF n \in counted THEN Add(x, v[n]) ELSE x
  OBVIOUS
<1> HIDE DEF step
<1>5. PICK f \in [0 .. m -> Int] :
        \A n \in 0 .. m : f[n] = IF n = 0 THEN 0 ELSE step[<<n, f[n - 1]>>]
  BY <1>3, LoopExists
<1>6. \A n \in 0 .. m : n # 0 => n \in Nat /\ f[n - 1] \in Int
  OBVIOUS
<1>7. ASSUME NEW n \in 0 .. m
      PROVE  f[n] = IF n = 0 THEN 0
                    ELSE IF n \in counted THEN Add(f[n - 1], v[n]) ELSE f[n - 1]
  <2>1. CASE n = 0  BY <1>5, <2>1
  <2>2. CASE n # 0
    <3>1. f[n] = step[<<n, f[n - 1]>>]
      BY <1>5, <2>2
    <3> QED  BY <1>4, <1>6, <2>2, <3>1
  <2> QED  BY <2>1, <2>2
<1> QED  BY <1>7 DEF IsSum

\* f counts w over the counted positions up to each n.
IsCount(f, m, counted, w) ==
  \A n \in 0 .. m : f[n] = IF n = 0 THEN 0
                           ELSE f[n - 1] + IF n \in counted THEN w[n] ELSE 0

\* The count of the requests exists.
LEMMA CountExists ==
  ASSUME NEW m \in Nat, NEW counted \in SUBSET (1 .. m), NEW w \in [1 .. m -> Nat]
  PROVE  \E f \in [0 .. m -> Int] : IsCount(f, m, counted, w)
<1> DEFINE step == [p \in Nat \X Int |-> p[2] + IF p[1] \in counted THEN w[p[1]] ELSE 0]
<1>1. \A n \in counted : n \in 1 .. m /\ w[n] \in Nat
  OBVIOUS
<1>2. step \in [Nat \X Int -> Int]
  BY <1>1
<1>3. \A n \in Nat, x \in Int : step[<<n, x>>] = x + IF n \in counted THEN w[n] ELSE 0
  OBVIOUS
<1> HIDE DEF step
<1>4. PICK f \in [0 .. m -> Int] :
        \A n \in 0 .. m : f[n] = IF n = 0 THEN 0 ELSE step[<<n, f[n - 1]>>]
  BY <1>2, LoopExists
<1>5. \A n \in 0 .. m : n # 0 => n \in Nat /\ f[n - 1] \in Int
  OBVIOUS
<1> QED  BY <1>3, <1>4, <1>5 DEF IsCount

\* collect_usage: the sum of one counter over the requests of a usable session.
LEMMA KimiSum ==
  ASSUME NEW wire \in Seq(SUBSET Fields), wire # <<>>, Broken \notin ToSet(wire),
         NEW c \in Counters
  PROVE  KimiUsage(wire)[c] =
           IF Reported("kimi", wire, c) THEN Len(wire) * Spent("kimi", c) ELSE Unknown
<1> DEFINE m == Len(wire)
           k == Spent("kimi", c)
           all == 1 .. m
           good == {n \in all : FieldsOf("kimi", c) \subseteq wire[n]}
           v == [n \in all |-> KimiValues(wire[n])[c]]
           w == [n \in all |-> 1]
           requests == [n \in 0 .. m |-> n]
           Loop(f) == f = [n \in 0 .. m |->
                             IF n = 0 THEN 0 ELSE Add(f[n - 1], KimiValues(wire[n])[c])]
           q == CHOOSE q : Loop(q)
<1>1. m \in Nat /\ DOMAIN wire = all /\ k \in Nat /\ Unknown \in Int
  BY SpentIsNat DEF Unknown
<1>2. \A n \in all : v[n] = KimiValues(wire[n])[c]
  OBVIOUS
<1>3. \A n \in all : v[n] = IF n \in good THEN k ELSE Unknown
  BY <1>2, KimiSpends
<1>4. v \in [all -> Int]
  <2>1. \A n \in all : v[n] \in Int
    <3> HIDE DEF v, good, all, k
    <3> QED  BY <1>1, <1>3
  <2> QED  BY <2>1
<1>5. KimiUsage(wire)[c] = q[m]
  BY Zenon DEF KimiUsage
<1>6. \E f : Loop(f)
  <2> HIDE DEF v
  <2>0. all \in SUBSET (1 .. m) /\ v \in [1 .. m -> Int]
    BY <1>4
  <2>1. PICK f \in [0 .. m -> Int] : IsSum(f, m, all, v)
    BY <1>1, <2>0, SumExists
  <2>2. \A n \in 0 .. m : n # 0 => n \in all
    BY <1>1
  <2>3. \A n \in 0 .. m : f[n] = IF n = 0 THEN 0 ELSE Add(f[n - 1], KimiValues(wire[n])[c])
    BY <1>2, <2>1, <2>2 DEF IsSum
  <2>4. Loop(f)
    BY <2>3
  <2> QED  BY <2>4
<1>7. Loop(q)
  BY <1>6, Zenon
<1> HIDE DEF q
<1>8. q[0] = 0 /\ \A n \in all : q[n] = IF n \in all THEN Add(q[n - 1], v[n]) ELSE q[n - 1]
  <2>1. \A n \in 0 .. m :
          q[n] = IF n = 0 THEN 0 ELSE Add(q[n - 1], KimiValues(wire[n])[c])
    BY <1>7, Zenon
  <2>2. 0 \in 0 .. m /\ \A n \in all : n \in 0 .. m /\ n # 0
    BY <1>1
  <2> HIDE DEF v, all
  <2> QED  BY <1>2, <2>1, <2>2
<1>9. /\ requests[0] = 0 /\ requests[m] = m
      /\ \A n \in all : requests[n] = requests[n - 1] + IF n \in all THEN w[n] ELSE 0
      /\ w \in [all -> Nat]
      /\ \A n \in all : w[n] = 1
  BY <1>1
<1>10. \A n \in all : v[n] = IF n \in good THEN w[n] * k ELSE Unknown
  <2> HIDE DEF w, v, k, good, all
  <2>1. 1 * k = k
    BY <1>1
  <2> QED  BY <1>3, <1>9, <2>1
<1> HIDE DEF w, requests, k, good, v
<1>11. q[m] = IF all \subseteq good THEN requests[m] * k ELSE Unknown
  <2>1. SumsOf(m, k, all, good, v, w, q, requests)
    BY <1>1, <1>4, <1>8, <1>9, <1>10 DEF SumsOf
  <2> QED  BY <2>1, SumsInProportion
<1>12. all \subseteq good <=> Reported("kimi", wire, c)
  BY <1>1 DEF good, Reported, ToSet
<1> QED  BY <1>5, <1>9, <1>11, <1>12 DEF k

\* collect_usage: what is stored for a Kimi job is nothing or fits its session.
LEMMA KimiFits ==
  ASSUME NEW wire \in Seq(SUBSET Fields)
  PROVE  /\ KimiUsage(wire) \in [Counters -> Int]
         /\ KimiUsage(wire) # NoUsage => UsageFits("kimi", wire, KimiUsage(wire))
<1>1. CASE wire = <<>> \/ Broken \in ToSet(wire)
  <2>1. KimiUsage(wire) = NoUsage
    BY <1>1, Zenon DEF KimiUsage
  <2>2. NoUsage \in [Counters -> Int]
    BY DEF NoUsage, Unknown
  <2> QED  BY <2>1, <2>2
<1>2. CASE ~(wire = <<>> \/ Broken \in ToSet(wire))
  <2>1. UsageFits("kimi", wire, KimiUsage(wire))
    BY <1>2, KimiSum DEF UsageFits
  <2>2. \A c \in Counters : KimiUsage(wire)[c] \in Int
    <3>1. \A c \in Counters : Len(wire) * Spent("kimi", c) \in Int
      BY SpentIsNat, Distributes
    <3> QED  BY <2>1, <3>1 DEF UsageFits, Unknown
  <2>3. KimiUsage(wire) \in [Counters -> Int]
    <3> DEFINE f == [c \in Counters |->
                      LET total[n \in 0 .. Len(wire)] ==
                            IF n = 0 THEN 0 ELSE Add(total[n - 1], KimiValues(wire[n])[c])
                      IN  total[Len(wire)]]
    <3>1. KimiUsage(wire) = f
      BY <1>2, Zenon DEF KimiUsage
    <3>2. \A c \in Counters : f[c] \in Int
      <4> HIDE DEF f
      <4> QED  BY <2>2, <3>1
    <3>3. f \in [Counters -> Int]
      BY <3>2, Zenon
    <3> HIDE DEF f
    <3> QED  BY <3>1, <3>3, Zenon
  <2> QED  BY <2>1, <2>3, Zenon
<1> QED  BY <1>1, <1>2

-----------------------------------------------------------------------------

\* The rows the adapters may leave
UsageRows ==
  {r \in [worker : {"qwen", "kimi"}, status : {"completed", "failed"},
          wire : Seq(SUBSET Fields), usage : [Counters -> Int]] :
     r.usage # NoUsage => UsageFits(r.worker, r.wire, r.usage)}

UsageInv == rows \in Seq(UsageRows)

\* Every row is one of them.
LEMMA StoredRow ==
  ASSUME UsageInv, NEW worker \in {"qwen", "kimi"}, NEW status \in {"completed", "failed"},
         NEW wire \in Seq(SUBSET Fields), NEW usage \in [Counters -> Int],
         usage # NoUsage => UsageFits(worker, wire, usage),
         Store(worker, status, wire, usage)
  PROVE  UsageInv'
<1> DEFINE row == [worker |-> worker, status |-> status, wire |-> wire, usage |-> usage]
<1>1. row \in [worker : {"qwen", "kimi"}, status : {"completed", "failed"},
               wire : Seq(SUBSET Fields), usage : [Counters -> Int]]
  BY Zenon
<1>2. row.worker = worker /\ row.wire = wire /\ row.usage = usage
  BY Zenon
<1>3. rows' = Append(rows, row)
  BY DEF Store
<1> HIDE DEF row
<1>4. row \in UsageRows
  BY <1>1, <1>2, Zenon DEF UsageRows
<1> QED  BY <1>3, <1>4 DEF UsageInv

\* Every end of a job, and every cleanup, leaves such rows.
LEMMA UsageNextInv == UsageInv /\ [UsageNext]_rows => UsageInv'
<1> SUFFICES ASSUME UsageInv, [UsageNext]_rows PROVE UsageInv'
  OBVIOUS
<1>1. NoUsage \in [Counters -> Int]
  BY DEF NoUsage, Unknown
<1>2. CASE UNCHANGED rows  BY <1>2 DEF UsageInv
<1>3. CASE QwenCompletes
  <2>1. PICK record \in SUBSET Counters :
          Store("qwen", "completed", <<record>>, QwenUsage(record))
    BY <1>3 DEF QwenCompletes
  <2>2. <<record>> \in Seq(SUBSET Fields)
    <3>1. record \in SUBSET Fields
      BY DEF Fields
    <3> QED  BY <3>1
  <2> QED  BY <2>1, <2>2, QwenFits, StoredRow
<1>4. CASE KimiCompletes
  <2>1. PICK wire \in Wires, usable \in BOOLEAN :
          Store("kimi", "completed", wire, IF usable THEN KimiUsage(wire) ELSE NoUsage)
    BY <1>4 DEF KimiCompletes
  <2>2. wire \in Seq(SUBSET Fields)
    BY UsageAssumption
  <2>3. CASE usable
    <3>1. Store("kimi", "completed", wire, KimiUsage(wire))
      BY <2>1, <2>3
    <3> QED  BY <2>2, <3>1, KimiFits, StoredRow
  <2>4. CASE ~usable
    <3>1. Store("kimi", "completed", wire, NoUsage)
      BY <2>1, <2>4
    <3> QED  BY <1>1, <2>2, <3>1, StoredRow
  <2> QED  BY <2>3, <2>4
<1>5. CASE JobFails
  <2>1. PICK worker \in {"qwen", "kimi"} : Store(worker, "failed", <<>>, NoUsage)
    BY <1>5 DEF JobFails
  <2>2. <<>> \in Seq(SUBSET Fields)
    OBVIOUS
  <2> QED  BY <1>1, <2>1, <2>2, StoredRow
<1>6. CASE DeleteOldest
  BY <1>6 DEF DeleteOldest, UsageInv
<1> QED  BY <1>2, <1>3, <1>4, <1>5, <1>6 DEF UsageNext

\* The total of a counter is the sum over all requests behind it, or unknown.
LEMMA TotalIsComplete ==
  ASSUME UsageInv, NEW worker \in {"qwen", "kimi"}, NEW c \in Counters
  PROVE  LET bearing == Bearing(worker)
             reported == \A i \in bearing : \A record \in ToSet(rows[i].wire) :
                           FieldsOf(worker, c) \subseteq record
             requests[n \in 0 .. Len(rows)] ==
               IF n = 0 THEN 0
               ELSE requests[n - 1] + IF n \in bearing THEN Len(rows[n].wire) ELSE 0
         IN Total(worker, c) = IF bearing # {} /\ reported
                               THEN requests[Len(rows)] * Spent(worker, c)
                               ELSE Unknown
<1> DEFINE m == Len(rows)
           k == Spent(worker, c)
           bearing == Bearing(worker)
           good == {i \in bearing : Reported(worker, rows[i].wire, c)}
           v == [n \in 1 .. m |-> rows[n].usage[c]]
           w == [n \in 1 .. m |-> Len(rows[n].wire)]
           IsTotal(f) == f = [n \in 0 .. m |->
                               IF n = 0 THEN 0
                               ELSE IF n \in bearing THEN Add(f[n - 1], rows[n].usage[c])
                               ELSE f[n - 1]]
           IsRequests(f) == f = [n \in 0 .. m |->
                               IF n = 0 THEN 0
                               ELSE f[n - 1] + IF n \in bearing THEN Len(rows[n].wire) ELSE 0]
           total == CHOOSE f : IsTotal(f)
           requests == CHOOSE f : IsRequests(f)
<1>1. m \in Nat /\ DOMAIN rows = 1 .. m /\ k \in Nat
      /\ \A i \in 1 .. m : rows[i] \in UsageRows
  BY SpentIsNat DEF UsageInv
<1>2. ASSUME NEW i \in 1 .. m
      PROVE  /\ rows[i].usage[c] \in Int
             /\ Len(rows[i].wire) \in Nat
             /\ rows[i].usage # NoUsage => UsageFits(rows[i].worker, rows[i].wire, rows[i].usage)
  <2>1. rows[i].wire \in Seq(SUBSET Fields) /\ rows[i].usage \in [Counters -> Int]
    BY <1>1 DEF UsageRows
  <2>2. rows[i].usage # NoUsage => UsageFits(rows[i].worker, rows[i].wire, rows[i].usage)
    BY <1>1 DEF UsageRows
  <2> DEFINE wire == rows[i].wire
             S == SUBSET Fields
  <2>3. wire \in Seq(S)
    BY <2>1
  <2> HIDE DEF wire, S
  <2>4. Len(wire) \in Nat
    BY <2>3
  <2> QED  BY <2>1, <2>2, <2>4 DEF wire
<1>3. bearing \in SUBSET (1 .. m)
      /\ \A i \in bearing : rows[i].worker = worker /\ rows[i].usage # NoUsage
  BY <1>1 DEF Bearing, Selected
<1>4. \A i \in 1 .. m : /\ v[i] = rows[i].usage[c] /\ v[i] \in Int
                        /\ w[i] = Len(rows[i].wire) /\ w[i] \in Nat
  BY <1>2
<1>5. v \in [1 .. m -> Int] /\ w \in [1 .. m -> Nat]
  BY <1>2
<1>6. Total(worker, c) = IF bearing = {} THEN Unknown ELSE total[m]
  BY Zenon DEF Total
<1>7. \A i \in bearing : v[i] = IF i \in good THEN w[i] * k ELSE Unknown
  <2> TAKE i \in bearing
  <2>1. UsageFits(worker, rows[i].wire, rows[i].usage) /\ i \in 1 .. m
    BY <1>2, <1>3
  <2>2. rows[i].usage[c] = IF Reported(worker, rows[i].wire, c)
                           THEN Len(rows[i].wire) * k ELSE Unknown
    BY <2>1 DEF UsageFits
  <2>3. i \in good <=> Reported(worker, rows[i].wire, c)
    OBVIOUS
  <2> HIDE DEF good, v, w
  <2> QED  BY <1>4, <2>1, <2>2, <2>3
<1>8. bearing \subseteq good <=> \A i \in bearing : Reported(worker, rows[i].wire, c)
  OBVIOUS
<1> HIDE DEF v, w, bearing, good
<1>9. IsTotal(total)
  <2>1. PICK f \in [0 .. m -> Int] : IsSum(f, m, bearing, v)
    BY <1>1, <1>3, <1>5, SumExists
  <2>2. \A n \in 0 .. m : n # 0 => n \in 1 .. m
    BY <1>1
  <2>3. \A n \in 0 .. m : f[n] = IF n = 0 THEN 0
                                 ELSE IF n \in bearing THEN Add(f[n - 1], rows[n].usage[c])
                                 ELSE f[n - 1]
    BY <1>4, <2>1, <2>2 DEF IsSum
  <2>4. IsTotal(f)
    BY <2>3
  <2> QED  BY <2>4, Zenon
<1>10. IsRequests(requests)
  <2>1. PICK f \in [0 .. m -> Int] : IsCount(f, m, bearing, w)
    BY <1>1, <1>3, <1>5, CountExists
  <2>2. \A n \in 0 .. m : n # 0 => n \in 1 .. m
    BY <1>1
  <2>3. \A n \in 0 .. m :
          f[n] = IF n = 0 THEN 0
                 ELSE f[n - 1] + IF n \in bearing THEN Len(rows[n].wire) ELSE 0
    BY <1>4, <2>1, <2>2 DEF IsCount
  <2>4. IsRequests(f)
    BY <2>3
  <2> QED  BY <2>4, Zenon
<1> HIDE DEF total, requests
<1>11. \A n \in 0 .. m :
         /\ total[n] = IF n = 0 THEN 0
                       ELSE IF n \in bearing THEN Add(total[n - 1], rows[n].usage[c])
                       ELSE total[n - 1]
         /\ requests[n] = IF n = 0 THEN 0
                          ELSE requests[n - 1] + IF n \in bearing THEN Len(rows[n].wire) ELSE 0
  BY <1>9, <1>10, Zenon
<1>12. SumsOf(m, k, bearing, good, v, w, total, requests)
  <2>1. 0 \in 0 .. m /\ \A n \in 1 .. m : n \in 0 .. m /\ n # 0
    BY <1>1
  <2>2. total[0] = 0 /\ requests[0] = 0
    BY <1>11, <2>1
  <2>3. \A n \in 1 .. m :
          /\ total[n] = IF n \in bearing THEN Add(total[n - 1], v[n]) ELSE total[n - 1]
          /\ requests[n] = requests[n - 1] + IF n \in bearing THEN w[n] ELSE 0
    BY <1>4, <1>11, <2>1
  <2> QED  BY <1>1, <1>3, <1>4, <1>7, <2>2, <2>3 DEF SumsOf
<1>13. total[m] = IF bearing \subseteq good THEN requests[m] * k ELSE Unknown
  BY <1>12, SumsInProportion
<1>14. Total(worker, c) = IF /\ bearing # {}
                             /\ \A i \in bearing : Reported(worker, rows[i].wire, c)
                          THEN requests[m] * k ELSE Unknown
  BY <1>6, <1>8, <1>13
<1> QED  BY <1>14, Zenon DEF requests, bearing, Reported

\* What is shown as a total misses no request and no field of one.
THEOREM TotalsAreComplete == UsageSpec => []TotalsCompleteOrUnknown
<1>1. UsageInit => UsageInv
  BY DEF UsageInit, UsageInv
<1>2. UsageInv => TotalsCompleteOrUnknown
  BY TotalIsComplete, Zenon DEF TotalsCompleteOrUnknown
<1> QED  BY <1>1, <1>2, UsageNextInv, PTL DEF UsageSpec

-----------------------------------------------------------------------------
(* The executables of the host agents. *)

\* The probe's PATH is untouched until the probe has run.
HostInv ==
  /\ path \in Seq(Nat)
  /\ detect \in {"idle", "resolved"} => prefix = Nothing

Qualified == {v \in NodeVersions : machine.install[v] = "good"}

OnPath == {v \in Qualified : v \in ToSet(path)}

\* The candidates are the installations that qualify.
LEMMA CandidatesQualify == Candidates = Qualified
BY DEF Candidates, Qualified, ValidInstall, ValidExecutable

\* The highest of any candidates.
LEMMA HighestIsHighest ==
  ASSUME Candidates # {}
  PROVE  Highest \in Qualified /\ \A v \in Qualified : v <= Highest
<1>1. Qualified \in SUBSET (0 .. 99)
  <2>1. \A v \in 1 .. 99 : v \in 0 .. 99
    OBVIOUS
  <2> QED  BY <2>1, HostAssumption DEF Qualified
<1>2. \E m \in Qualified : \A v \in Qualified : v <= m
  BY <1>1, CandidatesQualify, GreatestNumber
<1>3. \E m \in Qualified : \A v \in Qualified : m >= v
  BY <1>1, <1>2
<1>4. Highest \in Qualified /\ \A v \in Qualified : Highest >= v
  BY <1>3, CandidatesQualify, Zenon DEF Highest, Max
<1> QED  BY <1>1, <1>4

\* The first entry of the PATH that qualifies, if one does.
LEMMA OfferingIsFirst ==
  ASSUME path \in Seq(Nat)
  PROVE  /\ Offering = 0 <=> OnPath = {}
         /\ Offering # 0 =>
              /\ Offering \in DOMAIN path /\ path[Offering] \in OnPath
              /\ \A k \in 1 .. Offering - 1 : path[k] \notin OnPath
<1> DEFINE I == {i \in 1 .. Len(path) : ValidInstall(path[i]) /\ ValidExecutable(path[i])}
<1>1. I = {i \in DOMAIN path : path[i] \in OnPath}
  <2>1. ASSUME NEW i \in 1 .. Len(path)
        PROVE  ValidInstall(path[i]) /\ ValidExecutable(path[i]) <=> path[i] \in OnPath
    BY DEF ValidInstall, ValidExecutable, OnPath, Qualified, ToSet
  <2> QED  BY <2>1
<1>2. Offering = IF I # {} THEN Min(I) ELSE 0
  BY Zenon DEF Offering, SelectInSeq
<1>3. I = {} <=> OnPath = {}
  BY <1>1 DEF OnPath, ToSet
<1>4. I \in SUBSET Nat /\ 0 \notin I
  OBVIOUS
<1> HIDE DEF I
<1>5. ASSUME I # {} PROVE Offering \in I /\ \A i \in I : Offering <= i
  <2>1. \E m \in I : \A i \in I : m =< i
    BY <1>4, <1>5, LeastNumber
  <2> QED  BY <1>2, <1>5, <2>1, Zenon DEF Min
<1>6. CASE I = {}  BY <1>2, <1>3, <1>6
<1>7. CASE I # {}
  <2>1. Offering \in DOMAIN path /\ path[Offering] \in OnPath /\ Offering # 0
    BY <1>1, <1>4, <1>5, <1>7
  <2>2. ASSUME NEW k \in 1 .. Offering - 1 PROVE path[k] \notin OnPath
    <3>1. k \in DOMAIN path /\ ~(Offering <= k)  BY <2>1
    <3> QED  BY <1>1, <1>5, <1>7, <3>1
  <2> QED  BY <1>3, <1>7, <2>1, <2>2
<1> QED  BY <1>6, <1>7

\* The two parts of HostChoiceTrusted.
Trusted(executable) ==
  \/ machine.fixed /\ executable = Fixed
  \/ ~machine.fixed /\ Qualified = {} /\ executable = Nothing
  \/ /\ ~machine.fixed /\ executable \in Qualified
     /\ IF OnPath = {} THEN \A v \in Qualified : v <= executable
        ELSE /\ executable \in OnPath
             /\ \E i \in DOMAIN path : path[i] = executable
                  /\ \A k \in 1 .. i - 1 : path[k] \notin OnPath

PrefixMatches == prefix' # prefix => prefix' = chosen /\ machine.install[chosen] = "good"

\* Whichever way the executable was found.
LEMMA ResolvedIsTrusted ==
  ASSUME HostInv
  PROVE  Trusted(Resolved)
<1> USE DEF Trusted, Resolved, NvmExecutable
<1>1. OnPath \subseteq Qualified  BY DEF OnPath
<1>2. CASE machine.fixed  BY <1>2
<1>3. CASE ~machine.fixed /\ Offering # 0
  BY <1>1, <1>3, OfferingIsFirst DEF HostInv
<1>4. CASE ~machine.fixed /\ Offering = 0
  BY <1>4, OfferingIsFirst, HighestIsHighest, CandidatesQualify DEF HostInv
<1> QED  BY <1>2, <1>3, <1>4

\* Every step keeps the invariant and to the property.
LEMMA HostStep ==
  ASSUME HostInv, HostNext
  PROVE  HostInv' /\ (detect = "idle" /\ detect' # "idle" => Trusted(chosen')) /\ PrefixMatches
<1>1. CASE Resolve
  BY <1>1, ResolvedIsTrusted DEF Resolve, HostInv, PrefixMatches
<1>2. CASE Probe
  BY <1>2 DEF Probe, HostInv, PrefixMatches, NvmBinFor, ValidExecutable
<1>3. CASE MachineChanges
  BY <1>3 DEF MachineChanges, HostInv, PrefixMatches
<1> QED  BY <1>1, <1>2, <1>3 DEF HostNext

\* The dashboard runs genuine installations only, and of those the first on its
\* PATH or the newest, however the machine changes meanwhile.
THEOREM HostChoiceIsTrusted == HostSpec => HostChoiceTrusted
<1>1. HostInit => HostInv
  BY HostAssumption DEF HostInit, HostInv
<1>2. HostInv /\ [HostNext]_hostVars => HostInv'
  <2>1. HostInv /\ UNCHANGED hostVars => HostInv'
    BY DEF HostInv, hostVars
  <2> QED  BY <2>1, HostStep
<1>3. HostInv /\ [HostNext]_hostVars =>
        [/\ detect = "idle" /\ detect' # "idle" => Trusted(chosen')
         /\ PrefixMatches]_hostVars
  BY HostStep
<1>4. [/\ detect = "idle" /\ detect' # "idle" => Trusted(chosen')
       /\ PrefixMatches]_hostVars =>
        [/\ detect = "idle" /\ detect' # "idle" =>
              LET qualified == {v \in NodeVersions : machine.install[v] = "good"}
                  onPath == {v \in qualified : v \in ToSet(path)}
              IN \/ machine.fixed /\ chosen' = Fixed
                 \/ ~machine.fixed /\ qualified = {} /\ chosen' = Nothing
                 \/ /\ ~machine.fixed /\ chosen' \in qualified
                    /\ IF onPath = {} THEN \A v \in qualified : v <= chosen'
                       ELSE /\ chosen' \in onPath
                            /\ \E i \in DOMAIN path : path[i] = chosen'
                                 /\ \A k \in 1 .. i - 1 : path[k] \notin onPath
         /\ prefix' # prefix => prefix' = chosen /\ machine.install[chosen] = "good"]_hostVars
  BY DEF Trusted, PrefixMatches, Qualified, OnPath
<1> QED  BY <1>1, <1>2, <1>3, <1>4, PTL DEF HostSpec, HostChoiceTrusted

=============================================================================
