----------------------------- MODULE CheckQueue -----------------------------
(***************************************************************************)
(* CCheckQueue: the thread that connects a block (the master) pushes       *)
(* script checks, worker threads run them in batches, and Wait() makes the *)
(* master one more worker until every check is done.                       *)
(*                                                                         *)
(* An action is one critical section of `mutex`, or the checks a thread    *)
(* runs outside it.  A check is a value and fails iff it is in Bad.  The   *)
(* order of the queue does not matter to any result, and is left open.     *)
(* ControlMutex admits one CCheckQueueControl at a time: one master.       *)
(* At shutdown the workers are interrupted in condWorker.wait; a master    *)
(* that is itself in the interrupted group (the import thread) is left out.*)
(***************************************************************************)
EXTENDS Integers, FiniteSets

CONSTANTS
    Worker,         \* the script check threads
    Master,         \* the thread that holds the CCheckQueueControl
    Check,          \* checks of a block
    Bad,            \* those that return false
    nBatchSize

VARIABLES
    queue,          \* checks not taken yet
    batch,          \* vChecks of a thread, until nTodo -= nNow accounts for them
    pc,             \* where a thread is, see below
    fOk,            \* fOk of a thread
    fAllOk, nTodo, nIdle, nTotal,
    added,          \* all checks added under the current control
    answer,         \* what Wait() returned last
    interrupted     \* threadGroup.interrupt_all() was called

vars == <<queue, batch, pc, fOk, fAllOk, nTodo, nIdle, nTotal, added, answer, interrupted>>

ASSUME QueueAssumption ==
    /\ Master \notin Worker
    /\ IsFiniteSet(Worker) /\ IsFiniteSet(Check)
    /\ Bad \subseteq Check
    /\ nBatchSize \in Nat \ {0}

Thread == Worker \cup {Master}

\* start: before its first iteration     work:  running its batch
\* clean: done with the batch            wait:  in cond.wait
\* awake: notified, not yet running      dead:  interrupted (workers)
\* adding, idle: the master, outside Loop, with and without a control
WorkerPc == {"start", "work", "clean", "wait", "awake", "dead"}
MasterPc == {"start", "work", "clean", "wait", "awake", "adding", "idle"}

Init ==
    /\ queue = {}
    /\ batch = [t \in Thread |-> {}]
    /\ pc = [t \in Thread |-> IF t = Master THEN "idle" ELSE "start"]
    /\ fOk = [t \in Thread |-> TRUE]
    /\ fAllOk = TRUE
    /\ nTodo = 0 /\ nIdle = 0 /\ nTotal = 0
    /\ added = {}
    /\ answer = TRUE
    /\ interrupted = FALSE

-----------------------------------------------------------------------------
(* The master pushes checks.                                               *)

\* ConnectBlock constructs a CCheckQueueControl.
NewControl ==
    /\ pc[Master] = "idle"
    /\ pc' = [pc EXCEPT ![Master] = "adding"]
    /\ added' = {}
    /\ UNCHANGED <<queue, batch, fOk, fAllOk, nTodo, nIdle, nTotal, answer, interrupted>>

\* Mutant: one check of several is not counted.
AddedOneLess(S) == IF Cardinality(S) > 1 THEN Cardinality(S) - 1 ELSE Cardinality(S)

\* Mutant: one element too many is counted.
AddedOneMore(S) == IF S = {} THEN 0 ELSE Cardinality(S) + 1

\* vChecks.size()
AddedCount(S) == Cardinality(S)

\* Add: one new check notifies one waiting worker, several notify all.
Add(S) ==
    /\ pc[Master] = "adding"
    /\ S \subseteq Check \ added
    /\ queue' = queue \cup S
    /\ nTodo' = nTodo + AddedCount(S)
    /\ added' = added \cup S
    /\ \E W \in SUBSET {w \in Worker : pc[w] = "wait"} :
         /\ Cardinality(S) = 0 => W = {}
         /\ Cardinality(S) = 1 => Cardinality(W) <= 1
         /\ Cardinality(S) = 1 /\ W = {} => \A w \in Worker : pc[w] # "wait"
         /\ Cardinality(S) > 1 => W = {w \in Worker : pc[w] = "wait"}
         /\ pc' = [t \in Thread |-> IF t \in W THEN "awake" ELSE pc[t]]
    /\ UNCHANGED <<batch, fOk, fAllOk, nIdle, nTotal, answer, interrupted>>

\* Wait, or the destructor of a control that was not waited for.
Wait ==
    /\ pc[Master] = "adding"
    /\ pc' = [pc EXCEPT ![Master] = "start"]
    /\ UNCHANGED <<queue, batch, fOk, fAllOk, nTodo, nIdle, nTotal, added, answer, interrupted>>

-----------------------------------------------------------------------------
(* Loop.  A thread that gets the mutex first accounts for its last batch,   *)
(* or joins the threads, or leaves cond.wait; Tidy... are the values then.  *)

Ready(t) == pc[t] \in {"start", "clean", "awake"}

\* nNow = 0 at the top of the loop: first iteration
FirstIteration(t) == pc[t] \in {"start", "clean"} /\ batch[t] = {}

\* Mutant: the result of the batch is not kept.
TidyOkForgets(t) == fAllOk

TidyOk(t) == IF batch[t] # {} THEN fAllOk /\ fOk[t] ELSE fAllOk

TidyTodo(t) == nTodo - Cardinality(batch[t])

TidyTotal(t) == IF FirstIteration(t) THEN nTotal + 1 ELSE nTotal

TidyIdle(t) == IF pc[t] = "awake" THEN nIdle - 1 ELSE nIdle

\* Mutant: the master is never notified.
NotifiesNobody(t) == {}

\* The master, if t finished the last check and the master waits for that.
Notifies(t) ==
    IF t # Master /\ batch[t] # {} /\ TidyTodo(t) = 0 /\ pc[Master] = "wait"
    THEN {Master}
    ELSE {}

\* t goes on at p.
GoTo(t, p) ==
    pc' = [u \in Thread |-> CASE u = t -> p
                              [] u # t /\ u \in Notifies(t) -> "awake"
                              [] OTHER -> pc[u]]

\* Mutant: a batch may be empty.
BatchSizeMaybeZero(size, total, idle) ==
    LET share == size \div (total + idle + 1)
    IN  IF share < nBatchSize THEN share ELSE nBatchSize

\* max(1, min(nBatchSize, share of the queue))
BatchSize(size, total, idle) ==
    LET share == size \div (total + idle + 1)
        least == IF share < nBatchSize THEN share ELSE nBatchSize
    IN  IF least < 1 THEN 1 ELSE least

\* The queue is not empty: take a batch.
Claim(t) ==
    /\ Ready(t)
    /\ queue # {}
    /\ \E S \in SUBSET queue :
         /\ Cardinality(S) = BatchSize(Cardinality(queue), TidyTotal(t), TidyIdle(t))
         /\ queue' = queue \ S
         /\ batch' = [batch EXCEPT ![t] = S]
    /\ fOk' = [fOk EXCEPT ![t] = TidyOk(t)]
    /\ fAllOk' = TidyOk(t)
    /\ nTodo' = TidyTodo(t) /\ nTotal' = TidyTotal(t) /\ nIdle' = TidyIdle(t)
    /\ GoTo(t, "work")
    /\ UNCHANGED <<added, answer, interrupted>>

\* The queue is empty: wait, unless this is the master and all is done.
Sleep(t) ==
    /\ Ready(t)
    /\ queue = {}
    /\ t = Master => TidyTodo(t) # 0
    /\ batch' = [batch EXCEPT ![t] = {}]
    /\ fAllOk' = TidyOk(t)
    /\ nTodo' = TidyTodo(t) /\ nTotal' = TidyTotal(t) /\ nIdle' = TidyIdle(t) + 1
    /\ GoTo(t, IF t # Master /\ interrupted THEN "dead" ELSE "wait")
    /\ UNCHANGED <<queue, fOk, added, answer, interrupted>>

\* All is done: Wait() returns, and the status is reset for the next block.
Return ==
    /\ Ready(Master)
    /\ queue = {}
    /\ TidyTodo(Master) = 0
    /\ answer' = TidyOk(Master)
    /\ fAllOk' = TRUE
    /\ batch' = [batch EXCEPT ![Master] = {}]
    /\ nTodo' = TidyTodo(Master) /\ nIdle' = TidyIdle(Master)
    /\ nTotal' = TidyTotal(Master) - 1
    /\ GoTo(Master, "idle")
    /\ UNCHANGED <<queue, fOk, added, interrupted>>

\* The checks of a batch, outside the mutex, up to the first that fails.
Execute(t) ==
    /\ pc[t] = "work"
    /\ fOk' = [fOk EXCEPT ![t] = @ /\ batch[t] \cap Bad = {}]
    /\ pc' = [pc EXCEPT ![t] = "clean"]
    /\ UNCHANGED <<queue, batch, fAllOk, nTodo, nIdle, nTotal, added, answer, interrupted>>

\* A condition variable may wake a thread for no reason.
SpuriousWakeup(t) ==
    /\ pc[t] = "wait"
    /\ pc' = [pc EXCEPT ![t] = "awake"]
    /\ UNCHANGED <<queue, batch, fOk, fAllOk, nTodo, nIdle, nTotal, added, answer, interrupted>>

\* Shutdown: workers leave through an exception from wait; nIdle keeps them.
InterruptAll ==
    /\ ~interrupted
    /\ interrupted' = TRUE
    /\ pc' = [t \in Thread |-> IF t # Master /\ pc[t] = "wait" THEN "dead" ELSE pc[t]]
    /\ UNCHANGED <<queue, batch, fOk, fAllOk, nTodo, nIdle, nTotal, added, answer>>

Loop(t) == Claim(t) \/ Sleep(t) \/ Execute(t) \/ (t = Master /\ Return)

Next ==
    \/ NewControl \/ Wait \/ InterruptAll
    \/ \E S \in SUBSET Check : Add(S)
    \/ \E t \in Thread : Loop(t) \/ SpuriousWakeup(t)

\* Every thread that can run gets the mutex in the end.
Fairness == \A t \in Thread : WF_vars(Loop(t))

Spec == Init /\ [][Next]_vars /\ Fairness

-----------------------------------------------------------------------------
(* Properties                                                              *)

\* Every variable has its type; no counter leaves its range.
TypeOK ==
    /\ queue \subseteq Check /\ added \subseteq Check
    /\ batch \in [Thread -> SUBSET Check]
    /\ pc \in [Thread -> WorkerPc \cup MasterPc]
    /\ pc[Master] \in MasterPc /\ \A w \in Worker : pc[w] \in WorkerPc
    /\ fOk \in [Thread -> BOOLEAN]
    /\ {fAllOk, answer, interrupted} \subseteq BOOLEAN
    /\ nTodo \in 0..Cardinality(Check)
    /\ nIdle \in 0..Cardinality(Thread) /\ nTotal \in 0..Cardinality(Thread)

\* The checks that are queued or in a batch not accounted for.
Outstanding == queue \cup UNION {batch[t] : t \in Thread}

\* The threads in the pool, and those in cond.wait (an interrupted thread never
\* leaves either count).
Joined == {t \in Thread : pc[t] \notin {"start", "adding", "idle"}}
Idle == {t \in Thread : pc[t] \in {"wait", "awake", "dead"}}

\* No check is lost or taken twice.  nTodo counts exactly the checks that are
\* queued or "no longer queued, but still in the worker's own batches", and
\* nTotal and nIdle the threads they are meant to count.
CountsExact ==
    /\ nTodo = Cardinality(Outstanding)
    /\ nTotal = Cardinality(Joined)
    /\ nIdle = Cardinality(Idle)
    /\ \A t \in Thread : batch[t] \cap queue = {}
    /\ \A t, u \in Thread : t # u => batch[t] \cap batch[u] = {}

\* Once Wait() has returned, no check of the block is left, and it returned
\* true iff none of them fails, whatever the threads skipped.
AnswerIsRight ==
    pc[Master] = "idle" => Outstanding = {} /\ (answer <=> added \cap Bad = {})

\* While the master waits, some worker still has a batch whose end wakes it.
MasterNeverStranded ==
    pc[Master] = "wait" => \E w \in Worker : pc[w] \in {"work", "clean"} /\ batch[w] # {}

\* Wait() returns, also when every worker is interrupted.
WaitReturns == pc[Master] = "start" ~> pc[Master] = "idle"

=============================================================================
