-------------------------- MODULE ThreadPoolProofs --------------------------
(***************************************************************************)
(* Proofs about ThreadPool, for every number of workers and of tasks: the  *)
(* inductive invariant and the safety properties it implies.               *)
(***************************************************************************)
EXTENDS ThreadPoolProperties, FiniteSetTheorems, SequenceTheorems, TLAPS

------------------------------------------------------------------------------
(* Sequences and sets. *)

\* Numbering tasks 1 .. n in a sequence and appending n + 1 numbers n + 1 tasks.
LEMMA CountingAppend ==
    ASSUME NEW n \in Nat
    PROVE  Append([k \in 1 .. n |-> k], n + 1) = [k \in 1 .. n + 1 |-> k]
  OBVIOUS

\* What is appended to the second of two sequences is appended to both.
LEMMA ConcatAppend ==
    ASSUME NEW S, NEW s \in Seq(S), NEW t \in Seq(S), NEW e \in S
    PROVE  s \o Append(t, e) = Append(s \o t, e)
<1>1. Append(t, e) = t \o <<e>> /\ Append(s \o t, e) = (s \o t) \o <<e>>
  BY AppendIsConcat, ConcatProperties
<1>2. <<e>> \in Seq(S)
  OBVIOUS
<1> QED  BY <1>1, <1>2, ConcatAssociative

\* Moving the head of the second of two sequences to the end of the first.
LEMMA ConcatMove ==
    ASSUME NEW S, NEW s \in Seq(S), NEW t \in Seq(S), t # <<>>
    PROVE  Append(s, Head(t)) \o Tail(t) = s \o t
<1>1. Head(t) \in S /\ Tail(t) \in Seq(S) /\ <<Head(t)>> \in Seq(S)
  BY HeadTailProperties
<1>2. t = <<Head(t)>> \o Tail(t)
  OBVIOUS
<1>3. Append(s, Head(t)) = s \o <<Head(t)>>
  BY <1>1, AppendIsConcat
<1> QED  BY <1>1, <1>2, <1>3, ConcatAssociative

\* Every set of workers is finite.
LEMMA WorkersFinite ==
    ASSUME NEW W \in SUBSET Workers
    PROVE  IsFiniteSet(W) /\ Cardinality(W) \in Nat /\ Cardinality(W) <= NumWorkers
<1>1. IsFiniteSet(Workers) /\ Cardinality(Workers) = NumWorkers
  BY ThreadPoolAssumption, FS_Interval DEF Workers
<1> QED  BY <1>1, FS_Subset, FS_CardinalityType

\* Both sets of workers that are counted are finite, now and after a step.
LEMMA CountedSets ==
    /\ IsFiniteSet(Woken) /\ Cardinality(Woken) \in Nat
    /\ IsFiniteSet(Woken') /\ Cardinality(Woken') \in Nat
    /\ IsFiniteSet(Staying) /\ Cardinality(Staying) \in Nat
    /\ Cardinality(Staying) <= NumWorkers
    /\ IsFiniteSet(Staying') /\ Cardinality(Staying') \in Nat
<1>1. /\ Woken \in SUBSET Workers /\ Woken' \in SUBSET Workers
      /\ Staying \in SUBSET Workers /\ Staying' \in SUBSET Workers
  BY DEF Woken, Staying
<1> QED  BY <1>1, WorkersFinite

------------------------------------------------------------------------------
(* The parts of the invariant. *)

\* A pool that was just constructed satisfies the invariant.
LEMMA Initial == Init => IndInv
<1> SUFFICES ASSUME Init PROVE IndInv
  OBVIOUS
<1> USE ThreadPoolAssumption DEF Init
<1>1. TypeOK
  <2>1. <<>> \in Seq(Nat \ {0}) /\ {} \in SUBSET (Nat \ {0})
    OBVIOUS
  <2>2. 1 \in 1 .. NumWorkers + 1 /\ 0 \in 0 .. NumTasks
    OBVIOUS
  <2> QED  BY <2>1, <2>2 DEF TypeOK, WorkerPcs
<1>2. TakenOnceInOrder
  BY DEF TakenOnceInOrder
<1>3. PermitsMatchTasks
  <2>1. Woken = {}
    BY DEF Woken
  <2> QED  BY <2>1, FS_EmptySet DEF PermitsMatchTasks
<1>4. RunInv /\ CloseInv /\ IdleInv /\ NoWorkerStarves
  BY DEF RunInv, CloseInv, IdleInv, NoWorkerStarves, Workers
<1> QED  BY <1>1, <1>2, <1>3, <1>4 DEF IndInv

\* Types.
LEMMA TypeNext == IndInv /\ [Next]_vars => TypeOK'
<1> SUFFICES ASSUME TypeOK, CloseInv, RunInv, [Next]_vars PROVE TypeOK'
  BY DEF IndInv
<1> USE ThreadPoolAssumption DEF TypeOK, WorkerPcs
<1>1. CASE Submit
  <2>1. CASE Enqueue
    <3>1. CASE shutdown_
      BY <2>1, <3>1 DEF Enqueue, closeVars, workVars
    <3>2. CASE ~shutdown_
      <4>1. submitted + 1 \in 1 .. NumTasks /\ submitted + 1 \in Nat \ {0}
        BY <2>1 DEF Enqueue
      <4>2. Append(tasks_, submitted + 1) \in Seq(Nat \ {0})
        BY <4>1, AppendProperties
      <4>3. /\ submitPc' = "release" /\ submitted' = submitted + 1
            /\ tasks_' = Append(tasks_, submitted + 1)
            /\ UNCHANGED <<taskSemaphore_, closeVars, workVars>>
        BY <2>1, <3>2 DEF Enqueue
      <4>4. submitted' \in 0 .. NumTasks
        BY <4>1, <4>3
      <4> QED  BY <4>2, <4>3, <4>4 DEF closeVars, workVars
    <3> QED  BY <3>1, <3>2
  <2>2. CASE Release
    BY <2>2 DEF Release, closeVars, workVars
  <2> QED  BY <1>1, <2>1, <2>2 DEF Submit
<1>2. ASSUME NEW w \in Workers, Work(w) PROVE TypeOK'
  <2>1. CASE CheckStop(w)
    BY <2>1 DEF CheckStop, Goto, submitVars, closeVars
  <2>2. CASE Acquire(w)
    BY <2>2 DEF Acquire, Goto, submitVars, closeVars
  <2>3. CASE CheckShutdown(w)
    BY <2>3 DEF CheckShutdown, Goto, submitVars, closeVars
  <2>4. CASE Pop(w)
    <3>1. CASE tasks_ = <<>>
      BY <2>4, <3>1 DEF Pop, Goto, submitVars, closeVars
    <3>2. CASE tasks_ # <<>>
      <4>1. Head(tasks_) \in Nat \ {0} /\ Tail(tasks_) \in Seq(Nat \ {0})
        BY <3>2, HeadTailProperties
      <4>2. Append(started, Head(tasks_)) \in Seq(Nat \ {0})
        BY <4>1, AppendProperties
      <4> QED  BY <2>4, <3>2, <4>1, <4>2 DEF Pop, Goto, submitVars, closeVars
    <3> QED  BY <3>1, <3>2
  <2>5. CASE Run(w)
    <3>1. task[w] \in Nat \ {0}
      BY <2>5 DEF Run, Goto, RunInv
    <3> QED  BY <2>5, <3>1 DEF Run, Goto, submitVars, closeVars
  <2> QED  BY <1>2, <2>1, <2>2, <2>3, <2>4, <2>5 DEF Work
<1>3. CASE Shutdown
  BY <1>3 DEF Shutdown, submitVars, workVars
<1>4. CASE Close
  <2>1. CASE ReleaseAll
    BY <2>1 DEF ReleaseAll, submitVars, workVars
  <2>2. CASE RequestStop
    BY <2>2 DEF RequestStop, submitVars, workVars
  <2>3. CASE Join
    <3>1. joining + 1 \in 1 .. NumWorkers + 1
      BY <2>3 DEF Join, CloseInv
    <3> QED  BY <2>3, <3>1 DEF Join, submitVars, workVars
  <2> QED  BY <1>4, <2>1, <2>2, <2>3 DEF Close
<1>5. CASE UNCHANGED vars
  BY <1>5 DEF vars, submitVars, closeVars, workVars
<1> QED  BY <1>1, <1>2, <1>3, <1>4, <1>5 DEF Next

\* The order of the tasks.
LEMMA OrderNext == IndInv /\ [Next]_vars => TakenOnceInOrder'
<1> SUFFICES ASSUME TypeOK, TakenOnceInOrder, [Next]_vars PROVE TakenOnceInOrder'
  BY DEF IndInv
<1>0. UNCHANGED <<started, tasks_, submitted>> => TakenOnceInOrder'
  BY DEF TakenOnceInOrder
<1> DEFINE Ids == Nat \ {0}
<1>a. tasks_ \in Seq(Ids) /\ started \in Seq(Ids)
  BY DEF TypeOK
<1>b. \A n \in Nat : n + 1 \in Ids
  OBVIOUS
<1> HIDE DEF Ids
<1>c. ASSUME NEW e \in Ids
      PROVE  started \o Append(tasks_, e) = Append(started \o tasks_, e)
  <2>1. \A S : \A s, t \in Seq(S) : \A x \in S :
           s \o Append(t, x) = Append(s \o t, x)
    BY ConcatAppend
  <2> QED  BY <1>a, <1>c, <2>1
<1>1. CASE Enqueue /\ ~shutdown_
  <2>1. /\ submitted' = submitted + 1 /\ submitted \in Nat
        /\ tasks_' = Append(tasks_, submitted + 1)
        /\ started' = started
    BY <1>1 DEF Enqueue, workVars, TypeOK
  <2>2. PICK e \in Ids : e = submitted + 1
    BY <1>b, <2>1
  <2>3. started \o Append(tasks_, e) = Append(started \o tasks_, e)
    BY <1>c, <2>2
  <2> QED  BY <2>1, <2>2, <2>3, CountingAppend DEF TakenOnceInOrder
<1>2. ASSUME NEW w \in Workers, Pop(w), tasks_ # <<>> PROVE TakenOnceInOrder'
  <2>1. /\ started' = Append(started, Head(tasks_)) /\ tasks_' = Tail(tasks_)
        /\ submitted' = submitted
    BY <1>2 DEF Pop, submitVars
  <2>2. Append(started, Head(tasks_)) \o Tail(tasks_) = started \o tasks_
    BY <1>2, <1>a, ConcatMove, Zenon
  <2> QED  BY <2>1, <2>2 DEF TakenOnceInOrder
<1>3. CASE (Enqueue /\ shutdown_) \/ Release
  BY <1>0, <1>3 DEF Enqueue, Release, workVars
<1>4. ASSUME NEW w \in Workers,
             \/ CheckStop(w) \/ Acquire(w) \/ CheckShutdown(w) \/ Run(w)
             \/ Pop(w) /\ tasks_ = <<>>
      PROVE  TakenOnceInOrder'
  BY <1>0, <1>4 DEF CheckStop, Acquire, CheckShutdown, Run, Pop, submitVars
<1>5. CASE Shutdown \/ Close \/ UNCHANGED vars
  BY <1>0, <1>5 DEF Shutdown, Close, ReleaseAll, RequestStop, Join, submitVars,
                    workVars, vars
<1> QED  BY <1>1, <1>2, <1>3, <1>4, <1>5 DEF Next, Submit, Work

\* The progress of shutdown.
LEMMA CloseNext == IndInv /\ [Next]_vars => CloseInv'
<1> SUFFICES ASSUME TypeOK, CloseInv, [Next]_vars PROVE CloseInv'
  BY DEF IndInv
<1>1. CASE Submit
  BY <1>1 DEF Submit, Enqueue, Release, CloseInv, closeVars, workVars
<1>2. ASSUME NEW w \in Workers, Work(w) PROVE CloseInv'
  <2>1. UNCHANGED closeVars
    BY <1>2 DEF Work, CheckStop, Acquire, CheckShutdown, Pop, Run
  <2>2. workerPc[w] # "exited"
    BY <1>2 DEF Work, CheckStop, Acquire, CheckShutdown, Pop, Run, Goto
  <2>3. \A v \in Workers : v # w => workerPc'[v] = workerPc[v]
    BY <1>2 DEF Work, CheckStop, Acquire, CheckShutdown, Pop, Run, Goto, TypeOK
  <2> QED  BY <2>1, <2>2, <2>3 DEF CloseInv, closeVars
<1>3. CASE Shutdown
  BY <1>3 DEF Shutdown, CloseInv, workVars
<1>4. CASE Close
  <2>1. CASE ReleaseAll
    BY <2>1 DEF ReleaseAll, CloseInv, workVars
  <2>2. CASE RequestStop
    BY <2>2 DEF RequestStop, CloseInv, workVars
  <2>3. CASE Join
    <3>1. /\ joining' = joining + 1 /\ joining \in Nat /\ joining <= NumWorkers
          /\ workerPc[joining] = "exited" /\ workerPc' = workerPc
          /\ shutdown_' = shutdown_ /\ closePc # "open"
      BY <2>3 DEF Join, CloseInv, TypeOK, workVars
    <3>2. closePc' = IF joining = NumWorkers THEN "closed" ELSE "join"
      BY <2>3 DEF Join
    <3>3. \A v \in Workers : v < joining' => workerPc'[v] = "exited"
      BY <3>1 DEF CloseInv, Workers
    <3> QED  BY <3>1, <3>2, <3>3, ThreadPoolAssumption DEF CloseInv
  <2> QED  BY <1>4, <2>1, <2>2, <2>3 DEF Close
<1>5. CASE UNCHANGED vars
  BY <1>5 DEF vars, closeVars, workVars, CloseInv
<1> QED  BY <1>1, <1>2, <1>3, <1>4, <1>5 DEF Next

\* The counting of permits: a step of submit or of one worker keeps the balance.
LEMMA PermitsNext == IndInv /\ [Next]_vars => PermitsMatchTasks'
<1> SUFFICES ASSUME TypeOK, PermitsMatchTasks, CloseInv, [Next]_vars, ~shutdown_'
             PROVE  PermitsMatchTasks'
  BY DEF IndInv, PermitsMatchTasks
<1> DEFINE Pending == IF submitPc = "release" THEN 1 ELSE 0
<1>a. ~shutdown_
  BY DEF Next, Submit, Enqueue, Release, Work, CheckStop, Acquire, CheckShutdown,
         Pop, Run, Shutdown, Close, ReleaseAll, RequestStop, Join, vars, closeVars
<1>b. Len(tasks_) = taskSemaphore_ + Cardinality(Woken) + Pending
  BY <1>a DEF PermitsMatchTasks
<1>c. SUFFICES Len(tasks_') = taskSemaphore_' + Cardinality(Woken') + Pending'
  BY DEF PermitsMatchTasks
<1>d. /\ tasks_ \in Seq(Nat \ {0}) /\ Len(tasks_) \in Nat /\ taskSemaphore_ \in Nat
      /\ Pending \in {0, 1}
  BY DEF TypeOK
<1>e. ASSUME UNCHANGED workerPc PROVE Woken' = Woken
  BY <1>e DEF Woken
<1> HIDE DEF Pending
<1>1. CASE Enqueue
  <2>1. /\ tasks_' = Append(tasks_, submitted + 1) /\ UNCHANGED taskSemaphore_
        /\ UNCHANGED workerPc /\ submitPc = "idle" /\ submitPc' = "release"
    BY <1>1, <1>a DEF Enqueue, workVars
  <2>2. Len(tasks_') = Len(tasks_) + 1
    BY <2>1, <1>d
  <2>3. Pending = 0 /\ Pending' = 1
    BY <2>1 DEF Pending
  <2> QED  BY <1>b, <1>d, <1>e, <2>1, <2>2, <2>3, CountedSets
<1>2. CASE Release
  <2>1. /\ taskSemaphore_' = taskSemaphore_ + 1 /\ UNCHANGED tasks_
        /\ UNCHANGED workerPc /\ submitPc = "release" /\ submitPc' = "idle"
    BY <1>2 DEF Release, workVars
  <2>2. Pending = 1 /\ Pending' = 0
    BY <2>1 DEF Pending
  <2> QED  BY <1>b, <1>d, <1>e, <2>1, <2>2, CountedSets
<1>3. ASSUME NEW w \in Workers, Work(w)
      PROVE  Len(tasks_') = taskSemaphore_' + Cardinality(Woken') + Pending'
  <2>1. Pending' = Pending
    BY <1>3 DEF Work, CheckStop, Acquire, CheckShutdown, Pop, Run, submitVars, Pending
  <2>2. ASSUME workerPc' = [workerPc EXCEPT ![w] = "check"], workerPc[w] = "acquire"
        PROVE  Cardinality(Woken') = Cardinality(Woken) + 1
    <3>1. Woken' = Woken \cup {w} /\ w \notin Woken
      BY <2>2 DEF Woken, TypeOK
    <3> QED  BY <3>1, CountedSets, FS_AddElement
  <2>3. ASSUME workerPc' = [workerPc EXCEPT ![w] = "run"], workerPc[w] = "pop"
        PROVE  Cardinality(Woken') = Cardinality(Woken) - 1
    <3>1. Woken' = Woken \ {w} /\ w \in Woken
      BY <2>3 DEF Woken, TypeOK
    <3> QED  BY <3>1, CountedSets, FS_RemoveElement
  <2>4. CASE CheckStop(w) \/ CheckShutdown(w) \/ Run(w)
    <3>1. Woken' = Woken
      BY <2>4, <1>a DEF CheckStop, CheckShutdown, Run, Goto, Woken, TypeOK
    <3>2. UNCHANGED <<tasks_, taskSemaphore_>>
      BY <2>4 DEF CheckStop, CheckShutdown, Run
    <3> QED  BY <1>b, <2>1, <3>1, <3>2
  <2>5. CASE Acquire(w)
    <3>1. Cardinality(Woken') = Cardinality(Woken) + 1
      BY <2>2, <2>5 DEF Acquire, Goto
    <3>2. taskSemaphore_' = taskSemaphore_ - 1 /\ UNCHANGED tasks_
      BY <2>5 DEF Acquire
    <3> QED  BY <1>b, <1>d, <2>1, <3>1, <3>2, CountedSets
  <2>6. CASE Pop(w)
    <3>1. workerPc[w] = "pop"
      BY <2>6 DEF Pop, Goto
    <3>2. Cardinality(Woken) # 0
      BY <3>1, CountedSets, FS_EmptySet DEF Woken
    <3>3. tasks_ # <<>>
      BY <1>b, <1>d, <3>2, CountedSets
    <3>4. Cardinality(Woken') = Cardinality(Woken) - 1
      BY <2>3, <2>6, <3>3 DEF Pop, Goto
    <3>5. tasks_' = Tail(tasks_) /\ UNCHANGED taskSemaphore_
      BY <2>6, <3>3 DEF Pop
    <3>6. Len(tasks_') = Len(tasks_) - 1
      BY <1>d, <3>3, <3>5
    <3> QED  BY <1>b, <1>d, <2>1, <3>4, <3>5, <3>6, CountedSets
  <2> QED  BY <1>3, <2>4, <2>5, <2>6 DEF Work
<1>4. CASE Shutdown \/ Close
  <2>1. shutdown_'
    BY <1>4 DEF Shutdown, Close, ReleaseAll, RequestStop, Join, CloseInv
  <2> QED  BY <2>1
<1>5. CASE UNCHANGED vars
  BY <1>5, <1>b, <1>e DEF vars, submitVars, workVars, Pending
<1> QED  BY <1>1, <1>2, <1>3, <1>4, <1>5 DEF Next, Submit

\* Who runs what.
LEMMA RunNext == IndInv /\ [Next]_vars => RunInv'
<1> SUFFICES ASSUME TypeOK, TakenOnceInOrder, RunInv, [Next]_vars PROVE RunInv'
  BY DEF IndInv
<1>a. /\ started \in Seq(Nat \ {0}) /\ Len(started) \in Nat
      /\ workerPc \in [Workers -> WorkerPcs] /\ task \in [Workers -> Nat]
  BY DEF TypeOK
<1>0. ASSUME UNCHANGED <<started, finished, task>>,
             \A v \in Workers : workerPc'[v] = "run" => workerPc[v] = "run"
      PROVE  RunInv'
  BY <1>0 DEF RunInv
<1>1. CASE Submit \/ Shutdown \/ Close \/ UNCHANGED vars
  BY <1>0, <1>1 DEF Submit, Enqueue, Release, Shutdown, Close, ReleaseAll, RequestStop,
                    Join, vars, workVars
<1>2. ASSUME NEW w \in Workers, Work(w) PROVE RunInv'
  <2>1. CASE CheckStop(w)
    BY <1>0, <1>a, <2>1 DEF CheckStop, Goto
  <2>2. CASE Acquire(w)
    BY <1>0, <1>a, <2>2 DEF Acquire, Goto
  <2>3. CASE CheckShutdown(w)
    BY <1>0, <1>a, <2>3 DEF CheckShutdown, Goto
  <2>4. CASE Pop(w) /\ tasks_ = <<>>
    BY <1>0, <1>a, <2>4 DEF Pop, Goto
  <2>5. CASE Pop(w) /\ tasks_ # <<>>
    <3>1. /\ task' = [task EXCEPT ![w] = Head(tasks_)] /\ finished' = finished
          /\ started' = Append(started, Head(tasks_))
          /\ workerPc' = [workerPc EXCEPT ![w] = "run"]
      BY <2>5 DEF Pop, Goto
    <3>2. tasks_ \in Seq(Nat \ {0}) /\ Len(tasks_) \in Nat \ {0}
      BY <2>5 DEF TypeOK
    <3>3. Head(tasks_) = Len(started) + 1
      <4>1. /\ Len(started) + 1 \in DOMAIN (started \o tasks_)
            /\ (started \o tasks_)[Len(started) + 1] = tasks_[1]
        BY <1>a, <3>2
      <4>2. tasks_[1] = Head(tasks_)
        BY <2>5, <3>2
      <4> QED  BY <4>1, <4>2 DEF TakenOnceInOrder
    <3>4. Len(started') = Len(started) + 1
      BY <1>a, <3>1
    <3>5. ASSUME NEW v \in Workers, workerPc'[v] = "run"
          PROVE  task'[v] \in (1 .. Len(started')) \ finished'
      <4>1. CASE v = w
        BY <1>a, <3>1, <3>3, <3>4, <4>1 DEF RunInv
      <4>2. CASE v # w
        BY <1>a, <3>1, <3>4, <3>5, <4>2 DEF RunInv
      <4> QED  BY <4>1, <4>2
    <3>6. ASSUME NEW u \in Workers, NEW v \in Workers, workerPc'[u] = "run",
                 workerPc'[v] = "run", task'[u] = task'[v]
          PROVE  u = v
      BY <1>a, <3>1, <3>3, <3>6 DEF RunInv
    <3>7. finished' \subseteq 1 .. Len(started')
      BY <1>a, <3>1, <3>4 DEF RunInv
    <3> QED  BY <3>5, <3>6, <3>7 DEF RunInv
  <2>6. CASE Run(w)
    <3>1. /\ task' = [task EXCEPT ![w] = 0] /\ finished' = finished \cup {task[w]}
          /\ started' = started /\ workerPc[w] = "run"
          /\ workerPc' = [workerPc EXCEPT ![w] = "loop"]
      BY <2>6 DEF Run, Goto
    <3>2. \A v \in Workers : workerPc'[v] = "run" =>
             v # w /\ workerPc[v] = "run" /\ task'[v] = task[v]
      BY <1>a, <3>1
    <3> QED  BY <1>a, <3>1, <3>2 DEF RunInv
  <2> QED  BY <1>2, <2>1, <2>2, <2>3, <2>4, <2>5, <2>6 DEF Work
<1> QED  BY <1>1, <1>2 DEF Next

\* An idle pool stays idle.
LEMMA IdleNext == IndInv /\ [Next]_vars => IdleInv'
<1> SUFFICES ASSUME IndInv, [Next]_vars, wasIdle' PROVE IdleInv'
  BY DEF IdleInv
<1>a. TypeOK /\ TakenOnceInOrder /\ PermitsMatchTasks /\ RunInv /\ CloseInv /\ IdleInv
  BY DEF IndInv
<1>1. CASE Submit
  BY <1>1, <1>a DEF Submit, Enqueue, Release, closeVars, workVars, IdleInv
<1>2. ASSUME NEW w \in Workers, Work(w) PROVE IdleInv'
  <2>1. /\ shutdown_ /\ tasks_ = <<>> /\ submitPc # "release"
        /\ \A v \in Workers : workerPc[v] \notin {"pop", "run"}
    BY <1>2, <1>a DEF Work, CheckStop, Acquire, CheckShutdown, Pop, Run, closeVars,
                      IdleInv
  <2>2. UNCHANGED <<tasks_, submitPc, shutdown_>>
    BY <1>2, <2>1 DEF Work, CheckStop, Acquire, CheckShutdown, Pop, Run, Goto,
                      submitVars, closeVars
  <2>3. \A v \in Workers : workerPc'[v] \notin {"pop", "run"}
    BY <1>2, <1>a, <2>1 DEF Work, CheckStop, Acquire, CheckShutdown, Pop, Run, Goto,
                            TypeOK
  <2> QED  BY <2>1, <2>2, <2>3 DEF IdleInv
<1>3. CASE Shutdown
  <2>1. /\ submitPc # "release" /\ finished = 1 .. submitted /\ ~shutdown_
        /\ shutdown_' /\ UNCHANGED <<tasks_, submitPc, workerPc>>
    BY <1>3, <1>a DEF Shutdown, submitVars, workVars, CloseInv
  <2>2. /\ submitted \in Nat /\ tasks_ \in Seq(Nat \ {0}) /\ Len(tasks_) \in Nat
        /\ started \in Seq(Nat \ {0}) /\ Len(started) \in Nat /\ taskSemaphore_ \in Nat
    BY <1>a DEF TypeOK
  <2>3. Len(started) + Len(tasks_) = submitted
    <3>1. Len(started \o tasks_) = Len(started) + Len(tasks_)
      BY <2>2
    <3>2. Len([k \in 1 .. submitted |-> k]) = submitted
      BY <2>2
    <3> QED  BY <1>a, <3>1, <3>2 DEF TakenOnceInOrder
  <2>4. submitted <= Len(started)
    BY <1>a, <2>1, <2>2 DEF RunInv
  <2>5. tasks_ = <<>> /\ Len(tasks_) = 0
    BY <2>2, <2>3, <2>4
  <2>6. Woken = {}
    BY <1>a, <2>1, <2>2, <2>5, CountedSets, FS_EmptySet DEF PermitsMatchTasks
  <2>7. \A w \in Workers : workerPc[w] # "run"
    BY <1>a, <2>1, <2>2, <2>3, <2>5 DEF RunInv
  <2>8. \A w \in Workers : workerPc[w] # "pop"
    BY <2>6 DEF Woken
  <2> QED  BY <2>1, <2>5, <2>7, <2>8 DEF IdleInv
<1>4. CASE Close
  BY <1>4, <1>a DEF Close, ReleaseAll, RequestStop, Join, submitVars, workVars, IdleInv
<1>5. CASE UNCHANGED vars
  BY <1>5, <1>a DEF vars, submitVars, closeVars, workVars, IdleInv
<1> QED  BY <1>1, <1>2, <1>3, <1>4, <1>5 DEF Next

\* Permits for those who have to leave.
LEMMA StarveNext == IndInv /\ [Next]_vars => NoWorkerStarves'
<1> SUFFICES ASSUME IndInv, [Next]_vars, wasIdle', closePc' \in {"join", "joining"}
             PROVE  taskSemaphore_' >= Cardinality(Staying')
  BY DEF NoWorkerStarves
<1>a. TypeOK /\ CloseInv /\ IdleInv /\ NoWorkerStarves
  BY DEF IndInv
<1>b. taskSemaphore_ \in Nat /\ workerPc \in [Workers -> WorkerPcs] /\ NumWorkers \in Nat
  BY <1>a, ThreadPoolAssumption DEF TypeOK
<1>c. ASSUME wasIdle, closePc \in {"join", "joining"}
      PROVE  taskSemaphore_ >= Cardinality(Staying)
  BY <1>a, <1>c DEF NoWorkerStarves
<1>d. ASSUME UNCHANGED workerPc PROVE Staying' = Staying
  BY <1>d DEF Staying
<1>1. CASE Submit
  <2>1. UNCHANGED <<wasIdle, closePc, workerPc>>
    BY <1>1 DEF Submit, Enqueue, Release, closeVars, workVars
  <2>2. taskSemaphore_ >= Cardinality(Staying)
    BY <1>c, <2>1
  <2>3. taskSemaphore_' \in {taskSemaphore_, taskSemaphore_ + 1}
    BY <1>1 DEF Submit, Enqueue, Release
  <2> QED  BY <1>b, <1>d, <2>1, <2>2, <2>3, CountedSets
<1>2. ASSUME NEW w \in Workers, Work(w)
      PROVE  taskSemaphore_' >= Cardinality(Staying')
  <2>1. UNCHANGED <<wasIdle, closePc>>
    BY <1>2 DEF Work, CheckStop, Acquire, CheckShutdown, Pop, Run, closeVars
  <2>2. taskSemaphore_ >= Cardinality(Staying)
    BY <1>c, <2>1
  <2>3. workerPc[w] \notin {"pop", "run"}
    BY <1>a, <2>1 DEF IdleInv
  <2>4. CASE CheckStop(w) \/ CheckShutdown(w)
    <3>1. Staying' \in SUBSET Staying
      BY <1>b, <1>a, <2>1, <2>4 DEF CheckStop, CheckShutdown, Goto, Staying, IdleInv
    <3>2. Cardinality(Staying') <= Cardinality(Staying)
      BY <3>1, CountedSets, FS_Subset
    <3>3. UNCHANGED taskSemaphore_
      BY <2>4 DEF CheckStop, CheckShutdown
    <3> QED  BY <1>b, <2>2, <3>2, <3>3, CountedSets
  <2>5. CASE Acquire(w)
    <3>1. Staying' = Staying \ {w} /\ w \in Staying
      BY <1>b, <2>5 DEF Acquire, Goto, Staying
    <3>2. Cardinality(Staying') = Cardinality(Staying) - 1
      BY <3>1, CountedSets, FS_RemoveElement
    <3>3. taskSemaphore_' = taskSemaphore_ - 1
      BY <2>5 DEF Acquire
    <3> QED  BY <1>b, <2>2, <3>2, <3>3, CountedSets
  <2>6. ~Pop(w) /\ ~Run(w)
    BY <2>3 DEF Pop, Run, Goto
  <2> QED  BY <1>2, <2>4, <2>5, <2>6 DEF Work
<1>3. CASE Shutdown
  BY <1>3 DEF Shutdown
<1>4. CASE ReleaseAll
  <2>1. taskSemaphore_' = taskSemaphore_ + NumWorkers /\ UNCHANGED workerPc
    BY <1>4 DEF ReleaseAll, workVars
  <2> QED  BY <1>b, <1>d, <2>1, CountedSets
<1>5. CASE RequestStop \/ Join
  <2>1. /\ UNCHANGED <<wasIdle, workerPc, taskSemaphore_>>
        /\ closePc \in {"join", "joining"}
    BY <1>5 DEF RequestStop, Join, workVars
  <2> QED  BY <1>c, <1>d, <2>1
<1>6. CASE UNCHANGED vars
  BY <1>6, <1>c, <1>d DEF vars, closeVars, workVars
<1> QED  BY <1>1, <1>2, <1>3, <1>4, <1>5, <1>6 DEF Next, Close

\* Every step of submit, of a worker or of shutdown preserves the invariant.
LEMMA Inductive == IndInv /\ [Next]_vars => IndInv'
  BY TypeNext, OrderNext, PermitsNext, RunNext, CloseNext, IdleNext, StarveNext
     DEF IndInv

------------------------------------------------------------------------------
(* The theorems. *)

\* The inductive invariant holds in every behaviour: whichever of submit, the
\* workers and shutdown comes first, queue, semaphore and threads stay in step.
THEOREM PoolInvariance == Spec => []IndInv
  BY Initial, Inductive, PTL DEF Spec

\* Until it is shut down, a pool has a permit or a woken worker for every task
\* in its queue, and none for a task that is not there.
THEOREM PermitsAlwaysMatch == Spec => []PermitsMatchTasks
<1>1. IndInv => PermitsMatchTasks
  BY DEF IndInv
<1> QED  BY <1>1, PoolInvariance, PTL

\* Tasks are taken in the order of submission, each once, also by a pool that is
\* shut down with tasks in its queue.
THEOREM TasksTakenOnce == Spec => []TakenOnceInOrder
<1>1. IndInv => TakenOnceInOrder
  BY DEF IndInv
<1> QED  BY <1>1, PoolInvariance, PTL

\* When shutdown has returned every worker has left its loop.
THEOREM ClosedPoolIsQuiet == Spec => []ClosedMeansQuiet
<1>1. IndInv => ClosedMeansQuiet
  BY ThreadPoolAssumption DEF IndInv, CloseInv, TypeOK, ClosedMeansQuiet, Workers
<1> QED  BY <1>1, PoolInvariance, PTL

\* While an idle pool is destroyed there is a permit for every worker that may
\* still block for one.
THEOREM NobodyStarves == Spec => []NoWorkerStarves
<1>1. IndInv => NoWorkerStarves
  BY DEF IndInv
<1> QED  BY <1>1, PoolInvariance, PTL
=============================================================================
