-------------------------- MODULE CheckQueueProof ---------------------------
(***************************************************************************)
(* Proofs about CheckQueue, for any finite sets of workers and checks and  *)
(* any batch size.  That Wait() answers rightly is not inductive: IInv     *)
(* adds where a check can be (Places), what the partial results fAllOk and *)
(* fOk say about the checks no longer outstanding (Results), and that the  *)
(* master only waits with an empty queue and work left (Waiting).          *)
(***************************************************************************)
EXTENDS CheckQueue, FiniteSetTheorems, TLAPS

Typed ==
    /\ queue \subseteq Check /\ added \subseteq Check
    /\ batch \in [Thread -> SUBSET Check]
    /\ pc \in [Thread -> WorkerPc \cup MasterPc]
    /\ pc[Master] \in MasterPc
    /\ \A w \in Worker : pc[w] \in WorkerPc
    /\ fOk \in [Thread -> BOOLEAN]
    /\ fAllOk \in BOOLEAN /\ answer \in BOOLEAN /\ interrupted \in BOOLEAN

Places ==
    /\ \A t \in Thread : batch[t] # {} <=> pc[t] \in {"work", "clean"}
    /\ \A t \in Thread : batch[t] \cap queue = {}
    /\ \A t, u \in Thread : t # u => batch[t] \cap batch[u] = {}
    /\ Outstanding \subseteq added
    /\ pc[Master] = "idle" => Outstanding = {}

Counts ==
    /\ nTodo = Cardinality(Outstanding)
    /\ nTotal = Cardinality(Joined)
    /\ nIdle = Cardinality(Idle)

Waiting == pc[Master] = "wait" => queue = {} /\ Outstanding # {}

Results ==
    /\ ~fAllOk => added \cap Bad # {}
    /\ \A t \in Thread : batch[t] # {} /\ ~fOk[t] => added \cap Bad # {}
    /\ \A t \in Thread : pc[t] = "clean" /\ fOk[t] => batch[t] \cap Bad = {}
    /\ pc[Master] # "idle" /\ fAllOk => (added \ Outstanding) \cap Bad = {}
    /\ pc[Master] = "idle" => fAllOk /\ (answer <=> added \cap Bad = {})

IInv == Typed /\ Places /\ Counts /\ Waiting /\ Results

-----------------------------------------------------------------------------
(* Finite sets.                                                            *)

\* The sets counted are finite, and the counters are natural numbers.
LEMMA CountersNat ==
    ASSUME IInv
    PROVE  /\ IsFiniteSet(Thread) /\ IsFiniteSet(Check)
           /\ IsFiniteSet(Outstanding) /\ IsFiniteSet(Joined) /\ IsFiniteSet(Idle)
           /\ IsFiniteSet(queue) /\ \A t \in Thread : IsFiniteSet(batch[t])
           /\ nTodo \in Nat /\ nTotal \in Nat /\ nIdle \in Nat
           /\ Cardinality(queue) \in Nat
<1>1. IsFiniteSet(Thread) /\ IsFiniteSet(Check)
  BY QueueAssumption, FS_AddElement DEF Thread
<1>2. Joined \in SUBSET Thread /\ Idle \in SUBSET Thread
  BY DEF Joined, Idle
<1>3. Outstanding \in SUBSET Check /\ queue \in SUBSET Check
      /\ \A t \in Thread : batch[t] \in SUBSET Check
  BY DEF IInv, Typed, Outstanding
<1>4. IsFiniteSet(Joined) /\ IsFiniteSet(Idle)
  BY <1>1, <1>2, FS_Subset
<1>5. IsFiniteSet(Outstanding) /\ IsFiniteSet(queue)
  BY <1>1, <1>3, FS_Subset
<1>6. \A t \in Thread : IsFiniteSet(batch[t])
  BY <1>1, <1>3, FS_Subset
<1>7. nTodo \in Nat /\ nTotal \in Nat /\ nIdle \in Nat /\ Cardinality(queue) \in Nat
  BY <1>4, <1>5, FS_CardinalityType DEF IInv, Counts
<1> QED BY <1>1, <1>4, <1>5, <1>6, <1>7

\* Taking part of a finite set away lowers its size by that of the part.
LEMMA SizeMinus ==
    ASSUME NEW S, IsFiniteSet(S), NEW T, T \subseteq S
    PROVE  Cardinality(S \ T) = Cardinality(S) - Cardinality(T)
<1>1. S \cap T = T
  OBVIOUS
<1> QED BY <1>1, FS_Difference

\* Adding new elements to a finite set raises its size by their number.
LEMMA SizePlus ==
    ASSUME NEW S, IsFiniteSet(S), NEW T, IsFiniteSet(T), S \cap T = {}
    PROVE  Cardinality(S \cup T) = Cardinality(S) + Cardinality(T)
<1>1. Cardinality(S) \in Nat /\ Cardinality(T) \in Nat /\ Cardinality({}) = 0
  BY FS_CardinalityType, FS_EmptySet
<1>2. Cardinality(S \cup T) = Cardinality(S) + Cardinality(T) - Cardinality(S \cap T)
  BY FS_Union
<1>3. Cardinality(S \cap T) = 0
  BY <1>1
<1> QED BY <1>1, <1>2, <1>3

\* One thread joins a count, or leaves it.
LEMMA SizeWith ==
    ASSUME NEW S, IsFiniteSet(S), NEW x
    PROVE  /\ Cardinality(S) \in Nat
           /\ x \notin S => Cardinality(S \cup {x}) = Cardinality(S) + 1
           /\ x \in S => Cardinality(S \ {x}) = Cardinality(S) - 1
BY FS_AddElement, FS_RemoveElement, FS_CardinalityType

\* A batch always has a check in it.
LEMMA BatchNotEmpty ==
    ASSUME NEW size \in Nat, NEW total \in Nat, NEW idle \in Nat
    PROVE  BatchSize(size, total, idle) \in Nat \ {0}
<1>1. size \div (total + idle + 1) \in Int
  OBVIOUS
<1> QED BY <1>1, QueueAssumption DEF BatchSize

-----------------------------------------------------------------------------
(* A thread at the top of the loop.                                        *)

\* The Tidy values, in the terms of the invariant.
LEMMA TidyValues ==
    ASSUME IInv, NEW t \in Thread, Ready(t)
    PROVE  /\ batch[t] # {} <=> pc[t] = "clean"
           /\ FirstIteration(t) <=> pc[t] = "start"
           /\ TidyTodo(t) = Cardinality(Outstanding \ batch[t])
           /\ TidyTodo(t) = 0 <=> Outstanding \ batch[t] = {}
           /\ TidyTotal(t) = Cardinality(Joined \cup {t})
           /\ TidyIdle(t) = Cardinality(Idle \ {t})
           /\ TidyTotal(t) \in Nat /\ TidyIdle(t) \in Nat
<1>1. batch[t] # {} <=> pc[t] = "clean"
  BY DEF IInv, Places, Ready
<1>2. FirstIteration(t) <=> pc[t] = "start"
  BY <1>1 DEF FirstIteration
<1>3. batch[t] \subseteq Outstanding
  BY DEF Outstanding
<1>4. TidyTodo(t) = Cardinality(Outstanding \ batch[t])
  BY <1>3, CountersNat, SizeMinus DEF TidyTodo, IInv, Counts
<1>5. IsFiniteSet(Outstanding \ batch[t])
  BY CountersNat, FS_Difference
<1>6. TidyTodo(t) = 0 <=> Outstanding \ batch[t] = {}
  BY <1>4, <1>5, FS_EmptySet
<1>7. TidyTotal(t) = Cardinality(Joined \cup {t}) /\ TidyTotal(t) \in Nat
  <2>1. CASE pc[t] = "start"
    <3>1. t \notin Joined
      BY <2>1 DEF Joined
    <3> QED BY <2>1, <3>1, <1>2, CountersNat, SizeWith DEF TidyTotal, IInv, Counts
  <2>2. CASE pc[t] # "start"
    <3>1. Joined \cup {t} = Joined
      BY <2>2 DEF Joined, Ready
    <3> QED BY <2>2, <3>1, <1>2, CountersNat DEF TidyTotal, IInv, Counts
  <2> QED BY <2>1, <2>2
<1>8. TidyIdle(t) = Cardinality(Idle \ {t}) /\ TidyIdle(t) \in Nat
  <2>1. IsFiniteSet(Idle \ {t}) /\ Cardinality(Idle \ {t}) \in Nat
    BY CountersNat, FS_Difference, FS_CardinalityType
  <2>2. CASE pc[t] = "awake"
    <3>1. t \in Idle
      BY <2>2 DEF Idle
    <3> QED BY <2>1, <2>2, <3>1, CountersNat, SizeWith DEF TidyIdle, IInv, Counts
  <2>3. CASE pc[t] # "awake"
    <3>1. Idle \ {t} = Idle
      BY <2>3 DEF Idle, Ready
    <3> QED BY <2>3, <3>1, CountersNat DEF TidyIdle, IInv, Counts
  <2> QED BY <2>2, <2>3
<1> QED BY <1>1, <1>2, <1>4, <1>6, <1>7, <1>8

\* Accounting for a batch, and taking the next one S from the queue.
LEMMA Settle ==
    ASSUME IInv, NEW t \in Thread, NEW S \in SUBSET queue,
           queue' = queue \ S, batch' = [batch EXCEPT ![t] = S]
    PROVE  Outstanding' = Outstanding \ batch[t]
<1>1. batch'[t] = S /\ \A u \in Thread : u # t => batch'[u] = batch[u]
  BY DEF IInv, Typed
<1>2. \A u \in Thread : batch[u] \cap queue = {} /\ (u # t => batch[u] \cap batch[t] = {})
  BY DEF IInv, Places
<1>3. ASSUME NEW c
      PROVE  c \in Outstanding' <=> c \in Outstanding \ batch[t]
  <2>1. c \in Outstanding' <=> c \in queue' \/ \E u \in Thread : c \in batch'[u]
    BY DEF Outstanding
  <2>2. c \in Outstanding <=> c \in queue \/ \E u \in Thread : c \in batch[u]
    BY DEF Outstanding
  <2> QED BY <1>1, <1>2, <2>1, <2>2
<1> QED BY <1>3

\* GoTo moves t, and at most wakes the waiting master.
LEMMA GoToMoves ==
    ASSUME IInv, NEW t \in Thread, Ready(t), NEW p, GoTo(t, p),
           p \in (IF t = Master THEN MasterPc ELSE WorkerPc)
    PROVE  /\ pc' \in [Thread -> WorkerPc \cup MasterPc]
           /\ pc'[Master] \in MasterPc
           /\ \A w \in Worker : pc'[w] \in WorkerPc
           /\ pc'[t] = p
           /\ \A u \in Thread : u # t =>
                \/ pc'[u] = pc[u]
                \/ u = Master /\ pc[u] = "wait" /\ pc'[u] = "awake"
           /\ t # Master /\ pc[Master] = "wait" /\ Outstanding \ batch[t] = {}
              /\ batch[t] # {} => pc'[Master] = "awake"
<1>1. Notifies(t) \subseteq {Master} /\ (Master \in Notifies(t) => pc[Master] = "wait")
  BY DEF Notifies
<1>2. Master \in Thread /\ Worker \subseteq Thread /\ \A w \in Worker : w # Master
  BY QueueAssumption DEF Thread
<1>3. pc'[t] = p
  BY DEF GoTo
<1>4. \A u \in Thread : u # t => pc'[u] = IF u \in Notifies(t) THEN "awake" ELSE pc[u]
  BY DEF GoTo
<1>5. \A u \in Thread : u # t =>
                \/ pc'[u] = pc[u]
                \/ u = Master /\ pc[u] = "wait" /\ pc'[u] = "awake"
  BY <1>1, <1>4
<1>6. pc'[Master] \in MasterPc /\ \A w \in Worker : pc'[w] \in WorkerPc
  BY <1>2, <1>3, <1>5 DEF IInv, Typed, MasterPc
<1>7. pc' \in [Thread -> WorkerPc \cup MasterPc]
  <2>1. DOMAIN pc' = Thread /\ pc' = [u \in Thread |-> pc'[u]]
    BY DEF GoTo
  <2>2. \A u \in Thread : pc'[u] \in WorkerPc \cup MasterPc
    BY <1>6 DEF Thread
  <2> QED BY <2>1, <2>2
<1>8. ASSUME t # Master, pc[Master] = "wait", Outstanding \ batch[t] = {}, batch[t] # {}
      PROVE  pc'[Master] = "awake"
  BY <1>2, <1>4, <1>8, TidyValues DEF Notifies
<1> QED BY <1>3, <1>5, <1>6, <1>7, <1>8

\* The counts of threads after a move of t.
LEMMA GoToCounts ==
    ASSUME IInv, NEW t \in Thread, Ready(t), NEW p, GoTo(t, p),
           p \in (IF t = Master THEN MasterPc ELSE WorkerPc)
    PROVE  /\ p \in {"work", "wait", "dead"} => Joined' = Joined \cup {t}
           /\ p = "idle" => Joined' = (Joined \cup {t}) \ {t}
           /\ p \in {"wait", "dead"} => Idle' = (Idle \ {t}) \cup {t}
           /\ p \in {"work", "idle"} => Idle' = Idle \ {t}
<1>1. pc'[t] = p /\ \A u \in Thread : u # t =>
                \/ pc'[u] = pc[u]
                \/ pc[u] = "wait" /\ pc'[u] = "awake"
  BY GoToMoves
<1>2. \A u \in Thread : u # t => (u \in Joined' <=> u \in Joined) /\ (u \in Idle' <=> u \in Idle)
  BY <1>1 DEF Joined, Idle
<1>3. /\ Joined' \subseteq Thread /\ Joined \subseteq Thread
      /\ Idle' \subseteq Thread /\ Idle \subseteq Thread
  BY DEF Joined, Idle
<1>4. /\ t \in Joined' <=> p \notin {"start", "adding", "idle"}
      /\ t \in Idle' <=> p \in {"wait", "awake", "dead"}
  BY <1>1 DEF Joined, Idle
<1> QED BY <1>2, <1>3, <1>4

\* What Claim, Sleep and Return have in common: t takes S (maybe nothing) from
\* the queue and goes to p.
TopOfLoop(t, S, p) ==
    /\ Ready(t)
    /\ S \subseteq queue /\ queue' = queue \ S
    /\ batch' = [batch EXCEPT ![t] = S]
    /\ GoTo(t, p)
    /\ p \in (IF t = Master THEN MasterPc ELSE WorkerPc)
    /\ p \in {"work", "wait", "dead", "idle"}
    /\ S # {} <=> p = "work"
    /\ p # "work" => queue = {}
    /\ t = Master /\ p = "wait" => Outstanding \ batch[t] # {}
    /\ p = "idle" => Outstanding \ batch[t] = {}
    /\ added' = added

\* Checks stay in one place each.
LEMMA LoopPlaces ==
    ASSUME IInv, NEW t \in Thread, NEW S, NEW p, TopOfLoop(t, S, p)
    PROVE  Places'
<1>1. Outstanding' = Outstanding \ batch[t]
  BY Settle DEF TopOfLoop
<1>2. batch'[t] = S /\ \A u \in Thread : u # t => batch'[u] = batch[u]
  BY DEF IInv, Typed, TopOfLoop
<1>3. /\ pc'[t] = p
      /\ \A u \in Thread : u # t => \/ pc'[u] = pc[u]
                                    \/ pc[u] = "wait" /\ pc'[u] = "awake"
  BY GoToMoves DEF TopOfLoop
<1>4. \A u \in Thread : batch'[u] # {} <=> pc'[u] \in {"work", "clean"}
  <2>1. S # {} <=> p \in {"work", "clean"}
    BY DEF TopOfLoop
  <2>2. \A u \in Thread : batch[u] # {} <=> pc[u] \in {"work", "clean"}
    BY DEF IInv, Places
  <2> QED BY <1>2, <1>3, <2>1, <2>2
<1>5. \A u \in Thread : batch'[u] \cap queue' = {}
  BY <1>2 DEF IInv, Places, TopOfLoop
<1>6. \A u, v \in Thread : u # v => batch'[u] \cap batch'[v] = {}
  <2>1. \A u \in Thread : batch[u] \cap S = {}
    BY DEF IInv, Places, TopOfLoop
  <2> QED BY <1>2, <2>1 DEF IInv, Places
<1>7. Outstanding' \subseteq added'
  BY <1>1 DEF IInv, Places, TopOfLoop
<1>8. pc'[Master] = "idle" => Outstanding' = {}
  <2>1. Master \in Thread
    BY DEF Thread
  <2>2. CASE t = Master
    BY <1>1, <1>3, <2>2 DEF TopOfLoop
  <2>3. CASE t # Master
    BY <1>1, <1>3, <2>1, <2>3 DEF IInv, Places
  <2> QED BY <2>2, <2>3
<1> QED BY <1>4, <1>5, <1>6, <1>7, <1>8 DEF Places

\* The master is woken when the last batch it waits for is done.
LEMMA LoopWaiting ==
    ASSUME IInv, NEW t \in Thread, NEW S, NEW p, TopOfLoop(t, S, p)
    PROVE  Waiting'
<1> SUFFICES ASSUME pc'[Master] = "wait"
             PROVE  queue' = {} /\ Outstanding' # {}
  BY DEF Waiting
<1>1. Outstanding' = Outstanding \ batch[t]
  BY Settle DEF TopOfLoop
<1>2. Master \in Thread
  BY DEF Thread
<1>3. CASE t = Master
  <2>1. p = "wait"
    BY <1>3, GoToMoves DEF TopOfLoop
  <2> QED BY <1>1, <1>3, <2>1 DEF TopOfLoop
<1>4. CASE t # Master
  <2>1. pc[Master] = "wait"
    BY <1>2, <1>4, GoToMoves DEF TopOfLoop
  <2>2. queue = {} /\ Outstanding # {}
    BY <2>1 DEF IInv, Waiting
  <2>3. Outstanding \ batch[t] # {} \/ batch[t] = {}
    BY <1>4, <2>1, GoToMoves DEF TopOfLoop
  <2> QED BY <1>1, <2>2, <2>3 DEF TopOfLoop
<1> QED BY <1>3, <1>4

\* The result kept by the thread speaks for all checks accounted for.
LEMMA TidyOkMeans ==
    ASSUME IInv, NEW t \in Thread, Ready(t)
    PROVE  /\ TidyOk(t) \in BOOLEAN
           /\ ~TidyOk(t) => added \cap Bad # {}
           /\ pc[Master] # "idle" /\ TidyOk(t) =>
                (added \ (Outstanding \ batch[t])) \cap Bad = {}
           /\ pc[Master] = "idle" => TidyOk(t)
<1>1. fAllOk \in BOOLEAN /\ fOk[t] \in BOOLEAN
  BY DEF IInv, Typed
<1>2. TidyOk(t) \in BOOLEAN
  BY <1>1 DEF TidyOk
<1>3. ~TidyOk(t) => added \cap Bad # {}
  BY <1>1 DEF TidyOk, IInv, Results
<1>4. ASSUME pc[Master] # "idle", TidyOk(t)
      PROVE  (added \ (Outstanding \ batch[t])) \cap Bad = {}
  <2>1. fAllOk /\ (batch[t] # {} => fOk[t])
    BY <1>1, <1>4 DEF TidyOk
  <2>2. batch[t] \cap Bad = {}
    BY <2>1, TidyValues DEF IInv, Results
  <2>3. (added \ Outstanding) \cap Bad = {}
    BY <1>4, <2>1 DEF IInv, Results
  <2> QED BY <2>2, <2>3
<1>5. pc[Master] = "idle" => TidyOk(t)
  <2> SUFFICES ASSUME pc[Master] = "idle" PROVE TidyOk(t)
    OBVIOUS
  <2>1. batch[t] = {}
    BY DEF IInv, Places, Outstanding
  <2> QED BY <2>1 DEF TidyOk, IInv, Results
<1> QED BY <1>2, <1>3, <1>4, <1>5

\* The partial results stay right when a thread does not leave the loop.
LEMMA LoopResults ==
    ASSUME IInv, NEW t \in Thread, NEW S, NEW p, TopOfLoop(t, S, p), p # "idle",
           fAllOk' = TidyOk(t), answer' = answer,
           \A u \in Thread : u # t => fOk'[u] = fOk[u],
           S # {} => fOk'[t] = TidyOk(t)
    PROVE  Results'
<1>1. Outstanding' = Outstanding \ batch[t] /\ added' = added
  BY Settle DEF TopOfLoop
<1>2. batch'[t] = S /\ \A u \in Thread : u # t => batch'[u] = batch[u]
  BY DEF IInv, Typed, TopOfLoop
<1>3. /\ pc'[t] = p /\ p # "clean"
      /\ \A u \in Thread : u # t => \/ pc'[u] = pc[u]
                                    \/ pc[u] = "wait" /\ pc'[u] = "awake"
  BY GoToMoves DEF TopOfLoop
<1>4. Master \in Thread /\ (t = Master => pc[t] # "idle")
  BY DEF Thread, TopOfLoop, Ready
<1>5. pc'[Master] = "idle" <=> pc[Master] = "idle"
  BY <1>3, <1>4
<1>6. ~fAllOk' => added' \cap Bad # {}
  BY <1>1, TidyOkMeans DEF TopOfLoop
<1>7. \A u \in Thread : batch'[u] # {} /\ ~fOk'[u] => added' \cap Bad # {}
  <2>1. S # {} /\ ~fOk'[t] => added \cap Bad # {}
    BY TidyOkMeans DEF TopOfLoop
  <2>2. \A u \in Thread : u # t /\ batch'[u] # {} /\ ~fOk'[u] => added \cap Bad # {}
    BY <1>2 DEF IInv, Results
  <2> QED BY <1>1, <1>2, <2>1, <2>2
<1>8. \A u \in Thread : pc'[u] = "clean" /\ fOk'[u] => batch'[u] \cap Bad = {}
  BY <1>2, <1>3 DEF IInv, Results
<1>9. pc'[Master] # "idle" /\ fAllOk' => (added' \ Outstanding') \cap Bad = {}
  BY <1>1, <1>5, TidyOkMeans DEF TopOfLoop
<1>10. pc'[Master] = "idle" => fAllOk' /\ (answer' <=> added' \cap Bad = {})
  BY <1>1, <1>5, TidyOkMeans DEF TopOfLoop, IInv, Results
<1> QED BY <1>6, <1>7, <1>8, <1>9, <1>10 DEF Results

-----------------------------------------------------------------------------
(* The actions.                                                            *)

\* A thread takes a batch.
LEMMA ClaimKeeps ==
    ASSUME IInv, NEW t \in Thread, Claim(t)
    PROVE  IInv'
<1>1. PICK S \in SUBSET queue :
         /\ Cardinality(S) = BatchSize(Cardinality(queue), TidyTotal(t), TidyIdle(t))
         /\ queue' = queue \ S
         /\ batch' = [batch EXCEPT ![t] = S]
  BY DEF Claim
<1>2. S # {}
  <2>1. BatchSize(Cardinality(queue), TidyTotal(t), TidyIdle(t)) # 0
    BY CountersNat, TidyValues, BatchNotEmpty DEF Claim
  <2> QED BY <1>1, <2>1, FS_EmptySet
<1>3. TopOfLoop(t, S, "work")
  BY <1>1, <1>2 DEF TopOfLoop, Claim, MasterPc, WorkerPc
<1>4. Typed'
  <2>1. fOk' \in [Thread -> BOOLEAN] /\ fAllOk' \in BOOLEAN
    BY TidyOkMeans DEF Claim, IInv, Typed
  <2>2. queue' \subseteq Check /\ batch' \in [Thread -> SUBSET Check]
    BY <1>1 DEF IInv, Typed
  <2>3. /\ pc' \in [Thread -> WorkerPc \cup MasterPc]
        /\ pc'[Master] \in MasterPc /\ \A w \in Worker : pc'[w] \in WorkerPc
    BY <1>3, GoToMoves DEF TopOfLoop
  <2> QED BY <2>1, <2>2, <2>3 DEF Typed, IInv, Claim
<1>5. Places' /\ Waiting'
  BY <1>3, LoopPlaces, LoopWaiting
<1>6. Results'
  <2>1. fOk'[t] = TidyOk(t) /\ \A u \in Thread : u # t => fOk'[u] = fOk[u]
    BY DEF Claim, IInv, Typed
  <2> QED BY <1>3, <2>1, LoopResults DEF Claim
<1>7. Counts'
  <2>1. Outstanding' = Outstanding \ batch[t]
    BY <1>1, Settle
  <2>2. Joined' = Joined \cup {t} /\ Idle' = Idle \ {t}
    BY <1>3, GoToCounts DEF TopOfLoop
  <2> QED BY <2>1, <2>2, TidyValues DEF Claim, Counts
<1> QED BY <1>4, <1>5, <1>6, <1>7 DEF IInv

\* A thread waits, or leaves because it is interrupted.
LEMMA SleepKeeps ==
    ASSUME IInv, NEW t \in Thread, Sleep(t)
    PROVE  IInv'
<1> DEFINE p == IF t # Master /\ interrupted THEN "dead" ELSE "wait"
<1>1. queue' = queue \ {} /\ batch' = [batch EXCEPT ![t] = {}] /\ Ready(t)
  BY DEF Sleep
<1>2. TopOfLoop(t, {}, p)
  <2>1. t = Master => Outstanding \ batch[t] # {}
    BY TidyValues DEF Sleep
  <2> QED BY <1>1, <2>1 DEF TopOfLoop, Sleep, MasterPc, WorkerPc
<1>3. p \in {"dead", "wait"}
  OBVIOUS
<1> HIDE DEF p
<1>4. Typed'
  <2>1. fAllOk' \in BOOLEAN
    BY <1>1, TidyOkMeans DEF Sleep
  <2>2. queue' \subseteq Check /\ batch' \in [Thread -> SUBSET Check]
    BY <1>1 DEF IInv, Typed
  <2>3. /\ pc' \in [Thread -> WorkerPc \cup MasterPc]
        /\ pc'[Master] \in MasterPc /\ \A w \in Worker : pc'[w] \in WorkerPc
    BY <1>2, GoToMoves DEF TopOfLoop
  <2> QED BY <2>1, <2>2, <2>3 DEF Typed, IInv, Sleep
<1>5. Places' /\ Waiting'
  BY <1>2, LoopPlaces, LoopWaiting
<1>6. Results'
  BY <1>2, <1>3, LoopResults DEF Sleep
<1>7. Counts'
  <2>1. Outstanding' = Outstanding \ batch[t]
    BY <1>1, Settle
  <2>2. Joined' = Joined \cup {t} /\ Idle' = (Idle \ {t}) \cup {t}
    BY <1>2, <1>3, GoToCounts DEF TopOfLoop
  <2>3. Cardinality(Idle') = Cardinality(Idle \ {t}) + 1
    BY <2>2, CountersNat, FS_Difference, SizeWith
  <2> QED BY <1>1, <2>1, <2>2, <2>3, TidyValues DEF Sleep, Counts
<1> QED BY <1>4, <1>5, <1>6, <1>7 DEF IInv

\* Wait() returns, with the result of all checks.
LEMMA ReturnKeeps ==
    ASSUME IInv, Return
    PROVE  IInv'
<1>1. Master \in Thread /\ Ready(Master) /\ pc[Master] # "idle"
  BY DEF Thread, Return, Ready
<1>2. queue' = queue \ {} /\ batch' = [batch EXCEPT ![Master] = {}]
  BY DEF Return
<1>3. Outstanding \ batch[Master] = {}
  BY <1>1, TidyValues DEF Return
<1>4. TopOfLoop(Master, {}, "idle")
  BY <1>1, <1>2, <1>3 DEF TopOfLoop, Return, MasterPc
<1>5. Outstanding' = {} /\ added' = added
  BY <1>1, <1>2, <1>3, Settle DEF Return
<1>6. /\ pc' \in [Thread -> WorkerPc \cup MasterPc]
      /\ pc'[Master] \in MasterPc /\ \A w \in Worker : pc'[w] \in WorkerPc
      /\ pc'[Master] = "idle"
  BY <1>1, <1>4, GoToMoves DEF TopOfLoop
<1>7. Typed'
  <2>1. answer' \in BOOLEAN
    BY <1>1, TidyOkMeans DEF Return
  <2>2. queue' \subseteq Check /\ batch' \in [Thread -> SUBSET Check]
    BY <1>2 DEF IInv, Typed
  <2> QED BY <1>6, <2>1, <2>2 DEF Typed, IInv, Return
<1>8. Places' /\ Waiting'
  BY <1>1, <1>4, LoopPlaces, LoopWaiting
<1>9. Results'
  <2>1. fAllOk' = TRUE /\ answer' = TidyOk(Master)
    BY DEF Return
  <2>2. answer' <=> added' \cap Bad = {}
    <3>1. ~TidyOk(Master) => added \cap Bad # {}
      BY <1>1, TidyOkMeans
    <3>2. TidyOk(Master) => (added \ {}) \cap Bad = {}
      BY <1>1, <1>3, TidyOkMeans
    <3> QED BY <1>5, <2>1, <3>1, <3>2
  <2>3. \A u \in Thread : batch'[u] = {}
    BY <1>5 DEF Outstanding
  <2> QED BY <1>6, <2>1, <2>2, <2>3 DEF Results
<1>10. Counts'
  <2>1. Joined' = (Joined \cup {Master}) \ {Master} /\ Idle' = Idle \ {Master}
    BY <1>1, <1>4, GoToCounts DEF TopOfLoop
  <2>2. IsFiniteSet(Joined \cup {Master})
    BY CountersNat, FS_AddElement
  <2>3. Cardinality(Joined') = Cardinality(Joined \cup {Master}) - 1
    BY <2>1, <2>2, SizeWith
  <2> QED BY <1>1, <1>3, <1>5, <2>1, <2>3, TidyValues DEF Return, Counts
<1> QED BY <1>7, <1>8, <1>9, <1>10 DEF IInv

\* New checks are pushed and counted.
LEMMA AddKeeps ==
    ASSUME IInv, NEW S \in SUBSET Check, Add(S)
    PROVE  IInv'
<1>1. PICK W \in SUBSET {w \in Worker : pc[w] = "wait"} :
         pc' = [t \in Thread |-> IF t \in W THEN "awake" ELSE pc[t]]
  BY DEF Add
<1>2. Master \in Thread /\ Worker \subseteq Thread /\ Master \notin W
  BY QueueAssumption DEF Thread
<1>3. pc'[Master] = "adding" /\ pc[Master] = "adding"
  BY <1>1, <1>2 DEF Add
<1>4. \A t \in Thread : \/ pc'[t] = pc[t]
                        \/ t \in Worker /\ pc[t] = "wait" /\ pc'[t] = "awake"
  BY <1>1
<1>5. Outstanding' = Outstanding \cup S /\ Outstanding \cap S = {}
  <2>1. batch' = batch /\ queue' = queue \cup S /\ S \cap added = {}
    BY DEF Add
  <2>2. Outstanding' = Outstanding \cup S
    BY <2>1 DEF Outstanding
  <2> QED BY <2>1, <2>2 DEF IInv, Places
<1>6. Typed'
  <2>1. \A w \in Worker : pc'[w] \in WorkerPc
    BY <1>2, <1>4 DEF IInv, Typed, WorkerPc
  <2>2. pc' \in [Thread -> WorkerPc \cup MasterPc]
    BY <1>1 DEF IInv, Typed, WorkerPc
  <2>3. queue' \subseteq Check /\ added' \subseteq Check
    BY DEF Add, IInv, Typed
  <2> QED BY <1>3, <2>1, <2>2, <2>3 DEF Typed, IInv, Add, MasterPc
<1>7. Places'
  <2>1. \A t \in Thread : batch'[t] # {} <=> pc'[t] \in {"work", "clean"}
    BY <1>4 DEF Add, IInv, Places
  <2>2. \A t \in Thread : batch'[t] \cap queue' = {}
    <3>1. \A t \in Thread : batch[t] \subseteq Outstanding
      BY DEF Outstanding
    <3> QED BY <1>5, <3>1 DEF Add, IInv, Places
  <2>3. \A t, u \in Thread : t # u => batch'[t] \cap batch'[u] = {}
    BY DEF Add, IInv, Places
  <2>4. Outstanding' \subseteq added'
    BY <1>5 DEF Add, IInv, Places
  <2> QED BY <1>3, <2>1, <2>2, <2>3, <2>4 DEF Places
<1>8. Counts'
  <2>1. IsFiniteSet(S)
    BY QueueAssumption, FS_Subset
  <2>2. nTodo' = Cardinality(Outstanding')
    BY <1>5, <2>1, CountersNat, SizePlus DEF Add, AddedCount, IInv, Counts
  <2>3. Joined' = Joined /\ Idle' = Idle
    BY <1>4 DEF Joined, Idle
  <2> QED BY <2>2, <2>3 DEF Add, IInv, Counts
<1>9. Waiting'
  BY <1>3 DEF Waiting
<1>10. Results'
  <2>1. added' = added \cup S /\ batch' = batch /\ fOk' = fOk /\ fAllOk' = fAllOk
    BY DEF Add
  <2>2. \A t \in Thread : pc'[t] = "clean" => pc[t] = "clean"
    BY <1>4
  <2>3. fAllOk => (added' \ Outstanding') \cap Bad = {}
    BY <1>3, <1>5, <2>1 DEF IInv, Results
  <2> QED BY <1>3, <2>1, <2>2, <2>3 DEF IInv, Results
<1> QED BY <1>6, <1>7, <1>8, <1>9, <1>10 DEF IInv

\* Steps that leave queue and batches alone and move threads between places
\* that mean the same to the counts and batches.
LEMMA MoveKeeps ==
    ASSUME IInv, UNCHANGED <<queue, batch, nTodo, nTotal, nIdle>>,
           \A t \in Thread :
              /\ pc'[t] \in {"work", "clean"} <=> pc[t] \in {"work", "clean"}
              /\ pc'[t] \in {"start", "adding", "idle"} <=> pc[t] \in {"start", "adding", "idle"}
              /\ pc'[t] \in {"wait", "awake", "dead"} <=> pc[t] \in {"wait", "awake", "dead"}
    PROVE  /\ Outstanding' = Outstanding
           /\ Counts'
           /\ Outstanding \subseteq added' /\ pc'[Master] # "idle" => Places'
<1>1. Outstanding' = Outstanding
  BY DEF Outstanding
<1>2. Joined' = Joined /\ Idle' = Idle
  BY DEF Joined, Idle
<1>3. Counts'
  BY <1>1, <1>2 DEF IInv, Counts
<1>4. Outstanding \subseteq added' /\ pc'[Master] # "idle" => Places'
  BY <1>1 DEF IInv, Places
<1> QED BY <1>1, <1>3, <1>4

\* The control is taken, and Wait is called.
LEMMA ControlKeeps ==
    ASSUME IInv, NewControl \/ Wait
    PROVE  IInv'
<1>1. Master \in Thread /\ Worker \subseteq Thread /\ \A w \in Worker : w # Master
  BY QueueAssumption DEF Thread
<1>2. /\ pc'[Master] \in {"adding", "start"} /\ pc[Master] \in {"idle", "adding"}
      /\ \A t \in Thread : t # Master => pc'[t] = pc[t]
      /\ pc' \in [Thread -> WorkerPc \cup MasterPc]
  BY <1>1 DEF NewControl, Wait, IInv, Typed, MasterPc
<1>3. Typed'
  BY <1>1, <1>2 DEF NewControl, Wait, IInv, Typed, MasterPc
<1>4. Outstanding \subseteq added' /\ added' \subseteq added
  BY DEF NewControl, Wait, IInv, Places
<1>5. Outstanding' = Outstanding /\ Counts' /\ Places'
  BY <1>2, <1>4, MoveKeeps DEF NewControl, Wait
<1>6. Waiting'
  BY <1>2 DEF Waiting
<1>7. Results'
  <2>1. CASE NewControl
    <3>1. Outstanding = {} /\ fAllOk /\ \A t \in Thread : batch[t] = {}
      BY <2>1 DEF NewControl, IInv, Places, Results, Outstanding
    <3> QED BY <1>2, <2>1, <3>1 DEF NewControl, Results
  <2>2. CASE Wait
    BY <1>1, <1>2, <1>5, <2>2 DEF Wait, IInv, Results
  <2> QED BY <2>1, <2>2
<1> QED BY <1>3, <1>5, <1>6, <1>7 DEF IInv

\* A thread runs its batch: only its own result changes.
LEMMA ExecuteKeeps ==
    ASSUME IInv, NEW t \in Thread, Execute(t)
    PROVE  IInv'
<1>1. Master \in Thread /\ Worker \subseteq Thread /\ \A w \in Worker : w # Master
  BY QueueAssumption DEF Thread
<1>2. /\ pc'[t] = "clean" /\ pc[t] = "work"
      /\ \A u \in Thread : u # t => pc'[u] = pc[u]
      /\ pc' \in [Thread -> WorkerPc \cup MasterPc]
  BY DEF Execute, IInv, Typed, MasterPc
<1>3. fOk' = [fOk EXCEPT ![t] = fOk[t] /\ batch[t] \cap Bad = {}]
  BY DEF Execute
<1>4. fOk' \in [Thread -> BOOLEAN]
  BY <1>3 DEF IInv, Typed
<1>5. Typed'
  BY <1>1, <1>2, <1>4 DEF Execute, IInv, Typed, MasterPc, WorkerPc
<1>6. Outstanding' = Outstanding /\ Counts'
  BY <1>2, MoveKeeps DEF Execute
<1>7. pc'[Master] = "idle" <=> pc[Master] = "idle"
  BY <1>1, <1>2
<1>8. Places'
  BY <1>2, <1>6, <1>7 DEF Execute, IInv, Places
<1>9. Waiting'
  BY <1>1, <1>2, <1>6 DEF Execute, IInv, Waiting
<1>10. Results'
  <2>1. batch' = batch /\ added' = added /\ fAllOk' = fAllOk /\ answer' = answer
    BY DEF Execute
  <2>2. (fOk'[t] <=> fOk[t] /\ batch[t] \cap Bad = {})
        /\ \A u \in Thread : u # t => fOk'[u] = fOk[u]
    BY <1>3 DEF IInv, Typed
  <2>3. batch[t] \subseteq added
    BY DEF IInv, Places, Outstanding
  <2>4. \A u \in Thread : batch'[u] # {} /\ ~fOk'[u] => added' \cap Bad # {}
    BY <2>1, <2>2, <2>3 DEF IInv, Results
  <2>5. \A u \in Thread : pc'[u] = "clean" /\ fOk'[u] => batch'[u] \cap Bad = {}
    BY <1>2, <2>1, <2>2 DEF IInv, Results
  <2> QED BY <1>6, <1>7, <2>1, <2>4, <2>5 DEF IInv, Results
<1> QED BY <1>5, <1>6, <1>8, <1>9, <1>10 DEF IInv

\* A thread wakes for no reason, or the workers are interrupted.
LEMMA WakeKeeps ==
    ASSUME IInv, InterruptAll \/ \E t \in Thread : SpuriousWakeup(t)
    PROVE  IInv'
<1>1. Master \in Thread /\ Worker \subseteq Thread /\ \A w \in Worker : w # Master
  BY QueueAssumption DEF Thread
<1>2. UNCHANGED <<queue, batch, fOk, fAllOk, nTodo, nIdle, nTotal, added, answer>>
  BY DEF InterruptAll, SpuriousWakeup
<1>3. /\ pc' \in [Thread -> WorkerPc \cup MasterPc]
      /\ \A u \in Thread : \/ pc'[u] = pc[u]
                           \/ pc[u] = "wait" /\ pc'[u] = "awake"
                           \/ pc[u] = "wait" /\ pc'[u] = "dead" /\ u # Master
  BY DEF InterruptAll, SpuriousWakeup, IInv, Typed, WorkerPc
<1>4. interrupted' \in BOOLEAN
  BY DEF InterruptAll, SpuriousWakeup, IInv, Typed
<1>5. Typed'
  BY <1>1, <1>2, <1>3, <1>4 DEF IInv, Typed, MasterPc, WorkerPc
<1>6. Outstanding' = Outstanding /\ Counts'
  BY <1>2, <1>3, MoveKeeps
<1>7. Places'
  BY <1>1, <1>2, <1>3, <1>6 DEF IInv, Places
<1>8. Waiting'
  BY <1>1, <1>2, <1>3, <1>6 DEF IInv, Waiting
<1>9. Results'
  BY <1>1, <1>2, <1>3, <1>6 DEF IInv, Results
<1> QED BY <1>5, <1>6, <1>7, <1>8, <1>9 DEF IInv

-----------------------------------------------------------------------------
(* The theorems.                                                           *)

\* IInv holds of an idle queue.
LEMMA InitIInv ==
    Init => IInv
<1> SUFFICES ASSUME Init PROVE IInv
  OBVIOUS
<1>1. Master \in Thread /\ Worker \subseteq Thread /\ \A w \in Worker : w # Master
  BY QueueAssumption DEF Thread
<1>2. Typed
  BY <1>1 DEF Init, Typed, WorkerPc, MasterPc, Thread
<1>3. Outstanding = {} /\ Joined = {} /\ Idle = {}
  BY DEF Init, Outstanding, Joined, Idle
<1>4. Places
  BY <1>3 DEF Init, Places
<1>5. Counts
  BY <1>3, FS_EmptySet DEF Init, Counts
<1>6. Waiting /\ Results
  BY <1>1 DEF Init, Waiting, Results
<1> QED BY <1>2, <1>4, <1>5, <1>6 DEF IInv

\* Every step of CCheckQueue, of any thread, keeps IInv.
LEMMA NextIInv ==
    IInv /\ [Next]_vars => IInv'
<1> SUFFICES ASSUME IInv, [Next]_vars PROVE IInv'
  OBVIOUS
<1>1. CASE NewControl \/ Wait
  BY <1>1, ControlKeeps
<1>2. CASE \E S \in SUBSET Check : Add(S)
  BY <1>2, AddKeeps
<1>3. CASE InterruptAll \/ \E t \in Thread : SpuriousWakeup(t)
  BY <1>3, WakeKeeps
<1>4. CASE \E t \in Thread : Loop(t)
  <2>1. PICK t \in Thread : Claim(t) \/ Sleep(t) \/ Execute(t) \/ Return
    BY <1>4 DEF Loop
  <2> QED BY <2>1, ClaimKeeps, SleepKeeps, ExecuteKeeps, ReturnKeeps
<1>5. CASE UNCHANGED vars
  BY <1>5 DEF vars, IInv, Typed, Places, Counts, Waiting, Results, Outstanding, Joined, Idle
<1> QED BY <1>1, <1>2, <1>3, <1>4, <1>5 DEF Next

\* The inductive invariant holds of every reachable state.
THEOREM Invariance == Spec => []IInv
BY InitIInv, NextIInv, PTL DEF Spec

\* Every variable has its type and no counter of CCheckQueue leaves its range.
THEOREM TypeCorrect == Spec => []TypeOK
<1>1. IInv => TypeOK
  <2> SUFFICES ASSUME IInv PROVE TypeOK
    OBVIOUS
  <2>1. Joined \in SUBSET Thread /\ Idle \in SUBSET Thread
    BY DEF Joined, Idle
  <2>2. Outstanding \in SUBSET Check
    BY DEF IInv, Typed, Outstanding
  <2>3. Cardinality(Outstanding) <= Cardinality(Check)
    BY <2>2, CountersNat, FS_Subset
  <2>4. Cardinality(Joined) <= Cardinality(Thread) /\ Cardinality(Idle) <= Cardinality(Thread)
    BY <2>1, CountersNat, FS_Subset
  <2>5. Cardinality(Check) \in Nat /\ Cardinality(Thread) \in Nat
    BY CountersNat, FS_CardinalityType
  <2>6. /\ nTodo \in 0..Cardinality(Check)
        /\ nIdle \in 0..Cardinality(Thread) /\ nTotal \in 0..Cardinality(Thread)
    BY <2>3, <2>4, <2>5, CountersNat DEF IInv, Counts
  <2> QED BY <2>6 DEF IInv, Typed, TypeOK
<1> QED BY <1>1, Invariance, PTL

\* nTodo, nTotal and nIdle of CCheckQueue are exact, and no check is taken twice.
THEOREM CountsAlwaysExact == Spec => []CountsExact
<1>1. IInv => CountsExact
  BY DEF IInv, Places, Counts, CountsExact
<1> QED BY <1>1, Invariance, PTL

\* CCheckQueue::Wait returns true iff no check of the block fails, and leaves
\* nothing behind for the next block.
THEOREM AnswerAlwaysRight == Spec => []AnswerIsRight
<1>1. IInv => AnswerIsRight
  BY DEF IInv, Places, Results, AnswerIsRight
<1> QED BY <1>1, Invariance, PTL

\* While the master waits in CCheckQueue::Loop, some worker has a batch.
THEOREM NeverStranded == Spec => []MasterNeverStranded
<1>1. IInv => MasterNeverStranded
  <2> SUFFICES ASSUME IInv, pc[Master] = "wait"
               PROVE  \E w \in Worker : pc[w] \in {"work", "clean"} /\ batch[w] # {}
    BY DEF MasterNeverStranded
  <2>1. queue = {} /\ Outstanding # {}
    BY DEF IInv, Waiting
  <2>2. PICK t \in Thread : batch[t] # {}
    BY <2>1 DEF Outstanding
  <2>3. pc[t] \in {"work", "clean"}
    BY <2>2 DEF IInv, Places
  <2>4. t \in Worker
    BY <2>3 DEF Thread
  <2> QED BY <2>2, <2>3, <2>4
<1> QED BY <1>1, Invariance, PTL

=============================================================================
