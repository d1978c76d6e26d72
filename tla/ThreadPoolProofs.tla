-------------------------- MODULE ThreadPoolProofs --------------------------
(***************************************************************************)
(* No task is lost in the pool, none is run twice: for any number of       *)
(* workers, callers, tasks and interrupts and any capacity of the queue.   *)
(***************************************************************************)
EXTENDS ThreadPool, FiniteSetTheorems, SequenceTheorems, TLAPS

\* The places a task can be in hold no task twice ...
Distinct ==
  /\ \A j, k \in DOMAIN mTaskQueue : mTaskQueue[j] = mTaskQueue[k] => j = k
  /\ \A v, w \in Worker : running[v] = running[w] => v = w \/ running[v] = NoTask
  /\ \A p, q \in Thread : putting[p] = putting[q] => p = q \/ putting[p] = NoTask

\* ... and no two of them the same task.
Apart ==
  /\ \A k \in DOMAIN mTaskQueue :
       /\ mTaskQueue[k] \notin finished \cup dropped
       /\ \A w \in Worker : running[w] # mTaskQueue[k]
       /\ \A p \in Thread : putting[p] # mTaskQueue[k]
  /\ \A w \in Worker :
       /\ running[w] \notin finished \cup dropped
       /\ \A p \in Thread : putting[p] = running[w] => putting[p] = NoTask
  /\ \A p \in Thread : putting[p] \notin finished \cup dropped
  /\ finished \cap dropped = {}

\* A task is in one of them exactly when it was submitted.
InAPlace(t) ==
  \/ \E k \in DOMAIN mTaskQueue : mTaskQueue[k] = t
  \/ \E w \in Worker : running[w] = t
  \/ \E p \in Thread : putting[p] = t
  \/ t \in finished \cup dropped
Tracked == \A t \in Task : t \in submitted <=> InAPlace(t)

\* What a caller has still to submit is nobody's yet, and nobody else's to submit.
Unsubmitted ==
  /\ \A c \in Caller : \A k \in DOMAIN todo[c] :
       todo[c][k] \notin submitted /\ \A t \in Task : todo[c][k] # Child[t]
  /\ \A c, d \in Caller : \A j \in DOMAIN todo[c], k \in DOMAIN todo[d] :
       todo[c][j] = todo[d][k] => c = d /\ j = k

Inv == PoolTypeOK /\ Distinct /\ Apart /\ Tracked /\ Unsubmitted

LEMMA InitInv == PoolInit => Inv
<1> SUFFICES ASSUME PoolInit PROVE Inv OBVIOUS
<1> USE DEF PoolInit
<1>1. PoolTypeOK
  <2>1. mTaskQueue \in Seq(Task) /\ interrupts \in 0..MaxInterrupts
    BY MaxInterruptsAssumption
  <2>2. crashed \in BOOLEAN /\ todo \in [Caller -> Seq(Task)]
    BY ProgramAssumption
  <2> QED BY <2>1, <2>2 DEF PoolTypeOK
<1>2. Distinct
  BY DEF Distinct
<1>3. Apart
  BY ProgramAssumption DEF Apart
<1>4. Tracked
  BY ProgramAssumption DEF Tracked, InAPlace
<1>5. Unsubmitted
  BY OwnObjectAssumption DEF Unsubmitted
<1> QED BY <1>1, <1>2, <1>3, <1>4, <1>5 DEF Inv

\* Interrupts by themselves move no task.
LEMMA NothingMoves ==
  ASSUME Inv, PoolTypeOK',
         UNCHANGED <<mTaskQueue, todo, running, putting, submitted, finished, dropped>>
  PROVE  Inv'
BY DEF Inv, Distinct, Apart, Tracked, InAPlace, Unsubmitted

LEMMA ExecuteInv ==
  ASSUME Inv, NEW c \in Caller, execute(c)
  PROVE  Inv'
<1> USE DEF Inv
<1> DEFINE t == Head(todo[c])
<1>1. /\ putting[c] = NoTask /\ todo[c] # <<>> /\ c \in Thread
      /\ putting' = [putting EXCEPT ![c] = t]
      /\ submitted' = submitted \cup {t}
      /\ todo' = [todo EXCEPT ![c] = Tail(@)]
      /\ UNCHANGED <<mTaskQueue, running, interrupted, finished, dropped, interrupts, crashed>>
  BY DEF execute, Thread
<1>2. /\ t \in Task /\ t = todo[c][1] /\ 1 \in DOMAIN todo[c] /\ Tail(todo[c]) \in Seq(Task)
      /\ \A k \in DOMAIN Tail(todo[c]) :
           k + 1 \in DOMAIN todo[c] /\ k + 1 # 1 /\ Tail(todo[c])[k] = todo[c][k + 1]
  BY <1>1 DEF PoolTypeOK
<1>3. t \notin submitted /\ \A u \in Task : t # Child[u]
  BY <1>2 DEF Unsubmitted
<1>4. ~InAPlace(t)
  BY <1>2, <1>3 DEF Tracked
<1> HIDE DEF t
<1>5. PoolTypeOK'
  BY <1>1, <1>2 DEF PoolTypeOK
<1>6. \A p \in Thread : putting'[p] = IF p = c THEN t ELSE putting[p]
  BY <1>1 DEF PoolTypeOK
<1>7. Distinct'
  BY <1>1, <1>4, <1>6 DEF Distinct, InAPlace
<1>8. Apart'
  BY <1>1, <1>4, <1>6 DEF Apart, InAPlace
<1>9. Tracked'
  <2>1. \A u \in Task : InAPlace(u)' <=> InAPlace(u) \/ u = t
    BY <1>1, <1>2, <1>6, ProgramAssumption DEF InAPlace
  <2> QED BY <1>1, <2>1 DEF Tracked
<1>10. Unsubmitted'
  <2>1. \A d \in Caller : \A k \in DOMAIN todo'[d] :
          \E j \in DOMAIN todo[d] : /\ todo'[d][k] = todo[d][j]
                                    /\ j = IF d = c THEN k + 1 ELSE k
    BY <1>1, <1>2 DEF PoolTypeOK
  <2>2. \A d \in Caller : \A k \in DOMAIN todo'[d] : todo'[d][k] # t
    <3> SUFFICES ASSUME NEW d \in Caller, NEW k \in DOMAIN todo'[d], todo'[d][k] = t
                 PROVE  FALSE
      OBVIOUS
    <3>1. PICK j \in DOMAIN todo[d] : todo[d][j] = t /\ j = IF d = c THEN k + 1 ELSE k
      BY <2>1
    <3>2. d = c /\ j = 1
      BY <1>2, <3>1 DEF Unsubmitted
    <3> QED BY <1>1, <1>2, <3>1, <3>2 DEF PoolTypeOK
  <2>3. \A d \in Caller : \A k \in DOMAIN todo'[d] :
          todo'[d][k] \notin submitted' /\ \A u \in Task : todo'[d][k] # Child[u]
    BY <1>1, <2>1, <2>2 DEF Unsubmitted
  <2>4. ASSUME NEW d \in Caller, NEW e \in Caller,
               NEW j \in DOMAIN todo'[d], NEW k \in DOMAIN todo'[e], todo'[d][j] = todo'[e][k]
        PROVE  d = e /\ j = k
    <3>1. PICK i \in DOMAIN todo[d] : todo'[d][j] = todo[d][i] /\ i = IF d = c THEN j + 1 ELSE j
      BY <2>1
    <3>2. PICK l \in DOMAIN todo[e] : todo'[e][k] = todo[e][l] /\ l = IF e = c THEN k + 1 ELSE k
      BY <2>1
    <3>5. todo[d][i] = todo[e][l]
      BY <2>4, <3>1, <3>2
    <3>3. d = e /\ i = l
      <4>1. \A a, b \in Caller : \A m \in DOMAIN todo[a], n \in DOMAIN todo[b] :
              todo[a][m] = todo[b][n] => a = b /\ m = n
        BY DEF Unsubmitted
      <4> QED BY <3>5, <4>1
    <3>4. j \in Int /\ k \in Int
      BY <1>5 DEF PoolTypeOK
    <3> QED BY <3>1, <3>2, <3>3, <3>4
  <2> QED BY <2>3, <2>4 DEF Unsubmitted
<1> QED BY <1>5, <1>7, <1>8, <1>9, <1>10

LEMMA ExecuteNestedInv ==
  ASSUME Inv, NEW w \in Worker, executeNested(w)
  PROVE  Inv'
<1> USE DEF Inv
<1> DEFINE t == Child[running[w]]
<1>1. /\ putting[w] = NoTask /\ running[w] # NoTask /\ t \notin submitted \cup {NoTask}
      /\ w \in Thread
      /\ putting' = [putting EXCEPT ![w] = t]
      /\ submitted' = submitted \cup {t}
      /\ UNCHANGED <<mTaskQueue, todo, running, interrupted, finished, dropped, interrupts,
                     crashed>>
  BY DEF executeNested, HasChildToSubmit, Thread
<1>2. t \in Task /\ \A c \in Caller : \A k \in DOMAIN todo[c] : todo[c][k] # t
  BY <1>1, ChildAssumption DEF PoolTypeOK, Unsubmitted
<1>3. ~InAPlace(t)
  BY <1>1, <1>2 DEF Tracked
<1> HIDE DEF t
<1>4. PoolTypeOK'
  BY <1>1, <1>2 DEF PoolTypeOK
<1>5. \A p \in Thread : putting'[p] = IF p = w THEN t ELSE putting[p]
  BY <1>1 DEF PoolTypeOK
<1>6. Distinct'
  BY <1>1, <1>3, <1>5 DEF Distinct, InAPlace
<1>7. Apart'
  BY <1>1, <1>3, <1>5 DEF Apart, InAPlace
<1>8. Tracked'
  <2>1. \A u \in Task : InAPlace(u)' <=> InAPlace(u) \/ u = t
    BY <1>1, <1>2, <1>5, ProgramAssumption DEF InAPlace
  <2> QED BY <1>1, <2>1 DEF Tracked
<1>9. Unsubmitted'
  BY <1>1, <1>2 DEF Unsubmitted
<1> QED BY <1>4, <1>6, <1>7, <1>8, <1>9

LEMMA PutTaskInv ==
  ASSUME Inv, NEW p \in Thread, putTask(p)
  PROVE  Inv'
<1> USE DEF Inv
<1> DEFINE t == putting[p]
           n == Len(mTaskQueue)
<1>1. /\ t # NoTask /\ mTaskQueue' = Append(mTaskQueue, t)
      /\ putting' = [putting EXCEPT ![p] = NoTask]
      /\ UNCHANGED <<todo, running, interrupted, submitted, finished, dropped, interrupts,
                     crashed>>
  BY DEF putTask
<1>2. t \in Task /\ n \in Nat
  BY <1>1 DEF PoolTypeOK
<1>3. /\ DOMAIN mTaskQueue = 1..n /\ DOMAIN mTaskQueue' = 1..(n + 1)
      /\ \A k \in 1..n : mTaskQueue'[k] = mTaskQueue[k]
      /\ mTaskQueue'[n + 1] = t
  BY <1>1, <1>2 DEF PoolTypeOK
<1>4. \A q \in Thread : putting'[q] = IF q = p THEN NoTask ELSE putting[q]
  BY <1>1 DEF PoolTypeOK
<1>5. PoolTypeOK'
  BY <1>1, <1>2 DEF PoolTypeOK
<1>6. /\ \A k \in 1..n : mTaskQueue[k] # t
      /\ \A w \in Worker : running[w] # t
      /\ t \notin finished \cup dropped
      /\ \A q \in Thread : q # p => putting[q] # t
  BY <1>1, <1>3 DEF Distinct, Apart
<1> HIDE DEF t, n
<1>7. \A k \in 1..(n + 1) : k \in 1..n \/ k = n + 1
  BY <1>2
<1>8. Distinct'
  <2>1. \A j, k \in DOMAIN mTaskQueue' : mTaskQueue'[j] = mTaskQueue'[k] => j = k
    BY <1>3, <1>6, <1>7 DEF Distinct
  <2> QED BY <1>1, <1>4, <2>1 DEF Distinct
<1>9. Apart'
  <2>1. ASSUME NEW k \in DOMAIN mTaskQueue'
        PROVE  /\ mTaskQueue'[k] \notin finished \cup dropped
               /\ \A w \in Worker : running[w] # mTaskQueue'[k]
               /\ \A q \in Thread : putting'[q] # mTaskQueue'[k]
    <3>1. CASE k \in 1..n
      <4>1. mTaskQueue[k] \in Task
        <5>1. k \in DOMAIN mTaskQueue BY <1>3, <3>1
        <5> QED BY <5>1, ElementOfSeq DEF PoolTypeOK
      <4> QED BY <1>3, <1>4, <3>1, <4>1, ProgramAssumption DEF Apart
    <3>2. CASE k = n + 1
      BY <1>1, <1>3, <1>4, <1>6, <3>2
    <3> QED BY <1>3, <1>7, <3>1, <3>2
  <2>2. \A w \in Worker : \A q \in Thread : putting'[q] = running[w] => putting'[q] = NoTask
    BY <1>4 DEF Apart
  <2>3. \A q \in Thread : putting'[q] \notin finished \cup dropped
    BY <1>4, ProgramAssumption DEF Apart, PoolTypeOK
  <2> QED BY <1>1, <2>1, <2>2, <2>3 DEF Apart
<1>10. Tracked'
  <2>1. ASSUME NEW u \in Task
        PROVE  InAPlace(u)' <=> InAPlace(u)
    <3>1. (\E k \in DOMAIN mTaskQueue' : mTaskQueue'[k] = u)
            <=> (\E k \in DOMAIN mTaskQueue : mTaskQueue[k] = u) \/ u = t
      <4>1. n + 1 \in 1..(n + 1) /\ 1..n \subseteq 1..(n + 1) BY <1>2
      <4> QED BY <1>3, <1>7, <4>1
    <3>2. (\E q \in Thread : putting'[q] = u) \/ u = t <=> \E q \in Thread : putting[q] = u
      BY <1>4, ProgramAssumption DEF t
    <3> QED BY <1>1, <3>1, <3>2 DEF InAPlace
  <2> QED BY <1>1, <2>1 DEF Tracked
<1>11. Unsubmitted'
  BY <1>1 DEF Unsubmitted
<1> QED BY <1>5, <1>8, <1>9, <1>10, <1>11

LEMMA PutInterruptedInv ==
  ASSUME Inv, NEW p \in Thread, putInterrupted(p)
  PROVE  Inv'
<1> USE DEF Inv
<1> DEFINE t == putting[p]
<1>1. /\ t # NoTask
      /\ dropped' = dropped \cup {t}
      /\ putting' = [putting EXCEPT ![p] = NoTask]
      /\ interrupted' = [interrupted EXCEPT ![p] = FALSE]
      /\ UNCHANGED <<mTaskQueue, todo, running, submitted, finished, interrupts, crashed>>
  BY DEF putInterrupted
<1>2. t \in Task
  BY <1>1 DEF PoolTypeOK
<1>3. \A q \in Thread : putting'[q] = IF q = p THEN NoTask ELSE putting[q]
  BY <1>1 DEF PoolTypeOK
<1>4. PoolTypeOK'
  BY <1>1, <1>2 DEF PoolTypeOK
<1>5. /\ \A k \in DOMAIN mTaskQueue : mTaskQueue[k] # t
      /\ \A w \in Worker : running[w] # t
      /\ t \notin finished \cup dropped
      /\ \A q \in Thread : q # p => putting[q] # t
  BY <1>1 DEF Distinct, Apart
<1> HIDE DEF t
<1>6. Distinct'
  BY <1>1, <1>3 DEF Distinct
<1>7. Apart'
  <2>1. ASSUME NEW k \in DOMAIN mTaskQueue
        PROVE  /\ mTaskQueue[k] \notin finished \cup dropped'
               /\ \A w \in Worker : running[w] # mTaskQueue[k]
               /\ \A q \in Thread : putting'[q] # mTaskQueue[k]
    <3>1. mTaskQueue[k] \in Task BY DEF PoolTypeOK
    <3> QED BY <1>1, <1>3, <1>5, <3>1, ProgramAssumption DEF Apart
  <2>2. \A w \in Worker : /\ running[w] \notin finished \cup dropped'
                          /\ \A q \in Thread : putting'[q] = running[w] => putting'[q] = NoTask
    BY <1>1, <1>3, <1>5 DEF Apart
  <2>3. \A q \in Thread : putting'[q] \notin finished \cup dropped'
    <3>1. NoTask \notin finished \cup dropped'
      BY <1>1, <1>2, ProgramAssumption DEF PoolTypeOK
    <3> QED BY <1>1, <1>3, <1>5, <3>1 DEF Apart
  <2>4. finished' \cap dropped' = {}
    BY <1>1, <1>5 DEF Apart
  <2> QED BY <1>1, <2>1, <2>2, <2>3, <2>4 DEF Apart
<1>8. Tracked'
  <2>1. ASSUME NEW u \in Task
        PROVE  InAPlace(u)' <=> InAPlace(u)
    <3>1. (\E q \in Thread : putting'[q] = u) \/ u = t <=> \E q \in Thread : putting[q] = u
      BY <1>3, ProgramAssumption DEF t
    <3> QED BY <1>1, <3>1 DEF InAPlace
  <2> QED BY <1>1, <2>1 DEF Tracked
<1>9. Unsubmitted'
  BY <1>1 DEF Unsubmitted
<1> QED BY <1>4, <1>6, <1>7, <1>8, <1>9

LEMMA TakeTaskInv ==
  ASSUME Inv, NEW w \in Worker, takeTask(w)
  PROVE  Inv'
<1> USE DEF Inv
<1> DEFINE t == Head(mTaskQueue)
           n == Len(mTaskQueue)
<1>1. /\ running[w] = NoTask /\ mTaskQueue # <<>>
      /\ running' = [running EXCEPT ![w] = t]
      /\ mTaskQueue' = Tail(mTaskQueue)
      /\ UNCHANGED <<todo, putting, interrupted, submitted, finished, dropped, interrupts,
                     crashed>>
  BY DEF takeTask
<1>2. /\ n \in Nat \ {0} /\ t \in Task /\ t = mTaskQueue[1]
      /\ Tail(mTaskQueue) \in Seq(Task)
      /\ DOMAIN mTaskQueue = 1..n /\ DOMAIN mTaskQueue' = 1..(n - 1)
      /\ \A k \in 1..(n - 1) : mTaskQueue'[k] = mTaskQueue[k + 1]
  BY <1>1 DEF PoolTypeOK
<1>3. \A v \in Worker : running'[v] = IF v = w THEN t ELSE running[v]
  BY <1>1 DEF PoolTypeOK
<1>4. PoolTypeOK'
  BY <1>1, <1>2 DEF PoolTypeOK
<1>5. \A k \in 1..n : k # 1 => mTaskQueue[k] # t
  BY <1>2 DEF Distinct
<1>6. /\ \A v \in Worker : running[v] # t
      /\ t \notin finished \cup dropped
      /\ \A q \in Thread : putting[q] # t
  BY <1>2 DEF Apart
<1>7. t # NoTask
  BY <1>2, ProgramAssumption
<1> HIDE DEF t, n
<1>8. \A k \in 1..(n - 1) : k + 1 \in 1..n /\ k + 1 # 1 /\ k \in Int
  BY <1>2
<1>9. Distinct'
  <2>1. ASSUME NEW j \in DOMAIN mTaskQueue', NEW k \in DOMAIN mTaskQueue',
               mTaskQueue'[j] = mTaskQueue'[k]
        PROVE  j = k
    <3>1. j + 1 = k + 1 BY <1>2, <1>8, <2>1 DEF Distinct
    <3> QED BY <1>2, <1>8, <3>1
  <2> QED BY <1>1, <1>3, <1>6, <2>1 DEF Distinct
<1>10. Apart'
  <2>1. ASSUME NEW k \in DOMAIN mTaskQueue'
        PROVE  /\ mTaskQueue'[k] \notin finished \cup dropped
               /\ \A v \in Worker : running'[v] # mTaskQueue'[k]
               /\ \A q \in Thread : putting[q] # mTaskQueue'[k]
    BY <1>2, <1>3, <1>5, <1>8 DEF Apart
  <2>2. \A v \in Worker : /\ running'[v] \notin finished \cup dropped
                          /\ \A q \in Thread : putting[q] = running'[v] => putting[q] = NoTask
    BY <1>3, <1>6 DEF Apart
  <2> QED BY <1>1, <2>1, <2>2 DEF Apart
<1>11. Tracked'
  <2>1. ASSUME NEW u \in Task
        PROVE  InAPlace(u)' <=> InAPlace(u)
    <3>1. (\E k \in DOMAIN mTaskQueue' : mTaskQueue'[k] = u) \/ u = t
            <=> \E k \in DOMAIN mTaskQueue : mTaskQueue[k] = u
      <4>1. \A k \in 1..n : k = 1 \/ (k - 1 \in 1..(n - 1) /\ (k - 1) + 1 = k)
        BY <1>2
      <4>2. 1 \in 1..n BY <1>2
      <4>3. t = mTaskQueue[1] BY <1>2
      <4> QED BY <1>2, <1>8, <4>1, <4>2, <4>3
    <3>2. (\E v \in Worker : running'[v] = u) <=> (\E v \in Worker : running[v] = u) \/ u = t
      BY <1>1, <1>3, ProgramAssumption
    <3> QED BY <1>1, <3>1, <3>2 DEF InAPlace
  <2> QED BY <1>1, <2>1 DEF Tracked
<1>12. Unsubmitted'
  BY <1>1 DEF Unsubmitted
<1> QED BY <1>4, <1>9, <1>10, <1>11, <1>12

LEMMA RunReturnsInv ==
  ASSUME Inv, NEW w \in Worker, runReturns(w)
  PROVE  Inv'
<1> USE DEF Inv
<1> DEFINE t == running[w]
<1>1. /\ t # NoTask
      /\ finished' = finished \cup {t}
      /\ running' = [running EXCEPT ![w] = NoTask]
      /\ UNCHANGED <<mTaskQueue, todo, putting, interrupted, submitted, dropped, interrupts,
                     crashed>>
  BY DEF runReturns
<1>2. t \in Task
  BY <1>1 DEF PoolTypeOK
<1>3. \A v \in Worker : running'[v] = IF v = w THEN NoTask ELSE running[v]
  BY <1>1 DEF PoolTypeOK
<1>4. PoolTypeOK'
  BY <1>1, <1>2 DEF PoolTypeOK
<1>5. /\ \A k \in DOMAIN mTaskQueue : mTaskQueue[k] # t
      /\ \A v \in Worker : v # w => running[v] # t
      /\ t \notin finished \cup dropped
      /\ \A q \in Thread : putting[q] # t
  BY <1>1 DEF Distinct, Apart
<1> HIDE DEF t
<1>6. NoTask \notin finished' \cup dropped
  BY <1>1, <1>2, ProgramAssumption DEF PoolTypeOK
<1>7. Distinct'
  BY <1>1, <1>3 DEF Distinct
<1>8. Apart'
  <2>1. ASSUME NEW k \in DOMAIN mTaskQueue
        PROVE  /\ mTaskQueue[k] \notin finished' \cup dropped
               /\ \A v \in Worker : running'[v] # mTaskQueue[k]
               /\ \A q \in Thread : putting[q] # mTaskQueue[k]
    <3>1. mTaskQueue[k] \in Task BY DEF PoolTypeOK
    <3> QED BY <1>1, <1>3, <1>5, <3>1, ProgramAssumption DEF Apart
  <2>2. \A v \in Worker : /\ running'[v] \notin finished' \cup dropped
                          /\ \A q \in Thread : putting[q] = running'[v] => putting[q] = NoTask
    BY <1>1, <1>3, <1>5, <1>6 DEF Apart
  <2>3. \A q \in Thread : putting[q] \notin finished' \cup dropped
    BY <1>1, <1>5 DEF Apart
  <2>4. finished' \cap dropped' = {}
    BY <1>1, <1>5 DEF Apart
  <2> QED BY <1>1, <2>1, <2>2, <2>3, <2>4 DEF Apart
<1>9. Tracked'
  <2>1. ASSUME NEW u \in Task
        PROVE  InAPlace(u)' <=> InAPlace(u)
    <3>1. (\E v \in Worker : running'[v] = u) \/ u = t <=> \E v \in Worker : running[v] = u
      BY <1>3, ProgramAssumption DEF t
    <3> QED BY <1>1, <3>1 DEF InAPlace
  <2> QED BY <1>1, <2>1 DEF Tracked
<1>10. Unsubmitted'
  BY <1>1 DEF Unsubmitted
<1> QED BY <1>4, <1>7, <1>8, <1>9, <1>10

LEMMA NextInv == Inv /\ [PoolNext]_poolVars => Inv'
<1> SUFFICES ASSUME Inv, [PoolNext]_poolVars PROVE Inv' OBVIOUS
<1> PoolTypeOK BY DEF Inv
<1>1. ASSUME NEW w \in Worker, takeInterrupted(w) PROVE Inv'
  <2>1. PoolTypeOK' BY <1>1 DEF takeInterrupted, PoolTypeOK
  <2> QED BY <1>1, <2>1, NothingMoves DEF takeInterrupted
<1>2. ASSUME NEW w \in Worker, runThrows(w) PROVE Inv'
  <2>1. PoolTypeOK' BY <1>2 DEF runThrows, PoolTypeOK
  <2> QED BY <1>2, <2>1, NothingMoves DEF runThrows
<1>3. ASSUME NEW p \in Thread, interrupt(p) PROVE Inv'
  <2>1. interrupts' \in 0..MaxInterrupts
    BY <1>3, MaxInterruptsAssumption DEF interrupt, PoolTypeOK
  <2>2. PoolTypeOK' BY <1>3, <2>1 DEF interrupt, PoolTypeOK
  <2> QED BY <1>3, <2>2, NothingMoves DEF interrupt
<1>4. CASE UNCHANGED poolVars
  <2>1. PoolTypeOK' BY <1>4 DEF poolVars, PoolTypeOK
  <2> QED BY <1>4, <2>1, NothingMoves DEF poolVars
<1>5. CASE PoolNext
  BY <1>1, <1>2, <1>3, <1>5, ExecuteInv, ExecuteNestedInv, PutTaskInv, PutInterruptedInv,
     TakeTaskInv, RunReturnsInv DEF PoolNext, Puts, WorkerThread
<1> QED BY <1>4, <1>5

\* The variables have their types.
THEOREM PoolTypeCorrect == PoolSpec => []PoolTypeOK
<1>1. Inv => PoolTypeOK BY DEF Inv
<1> QED BY <1>1, InitInv, NextInv, PTL DEF PoolSpec

-----------------------------------------------------------------------------
LEMMA AtMostOne ==
  ASSUME NEW S, NEW P \in BOOLEAN, P <=> S # {}, \A x, y \in S : x = y
  PROVE  Cardinality(S) = IF P THEN 1 ELSE 0
<1>1. CASE S = {} BY <1>1, FS_EmptySet
<1>2. CASE S # {}
  <2>1. PICK x \in S : TRUE BY <1>2
  <2>2. S = {x} BY <2>1
  <2> QED BY <1>2, <2>2, FS_Singleton
<1> QED BY <1>1, <1>2

LEMMA InvMeansOnePlace == Inv => OnePlace
<1> SUFFICES ASSUME Inv, NEW t \in Task
             PROVE  Places(t) = IF t \in submitted THEN 1 ELSE 0
  BY DEF OnePlace
<1> USE DEF Inv
<1> t # NoTask BY ProgramAssumption
<1> DEFINE queued == {k \in DOMAIN mTaskQueue : mTaskQueue[k] = t}
           runners == {w \in Worker : running[w] = t}
           putters == {p \in Thread : putting[p] = t}
           ended == {s \in {finished, dropped} : t \in s}
<1>1. Cardinality(queued) = IF queued # {} THEN 1 ELSE 0
  <2>1. \A j, k \in queued : j = k BY DEF Distinct
  <2> HIDE DEF queued
  <2> QED BY <2>1, AtMostOne
<1>2. Cardinality(runners) = IF runners # {} THEN 1 ELSE 0
  <2>1. \A v, w \in runners : v = w BY DEF Distinct
  <2> HIDE DEF runners
  <2> QED BY <2>1, AtMostOne
<1>3. Cardinality(putters) = IF putters # {} THEN 1 ELSE 0
  <2>1. \A p, q \in putters : p = q BY DEF Distinct
  <2> HIDE DEF putters
  <2> QED BY <2>1, AtMostOne
<1>4. Cardinality(ended) = IF ended # {} THEN 1 ELSE 0
  <2>1. \A r, s \in ended : r = s BY DEF Apart
  <2> HIDE DEF ended
  <2> QED BY <2>1, AtMostOne
<1>5. InAPlace(t) <=> queued # {} \/ runners # {} \/ putters # {} \/ ended # {}
  BY DEF InAPlace
<1>6. /\ queued # {} => runners = {} /\ putters = {} /\ ended = {}
      /\ runners # {} => putters = {} /\ ended = {}
      /\ putters # {} => ended = {}
  BY DEF Apart
<1>7. Places(t) = Cardinality(queued) + Cardinality(runners) + Cardinality(putters)
                    + Cardinality(ended)
  BY DEF Places
<1>8. t \in submitted <=> InAPlace(t)
  BY DEF Tracked
<1> HIDE DEF queued, runners, putters, ended, Inv
<1> QED BY <1>1, <1>2, <1>3, <1>4, <1>5, <1>6, <1>7, <1>8

\* A task passed to execute is in one place at any time: whatever workers and callers there
\* are and however they interleave and are interrupted, no two workers run it, it is not run
\* again, and it is forgotten nowhere between execute and the end of its run() (lines 37-39,
\* 52-57 of SimpleThreadPool.java).
THEOREM EveryTaskInOnePlace == PoolSpec => []OnePlace
BY InitInv, NextInv, InvMeansOnePlace, PTL DEF PoolSpec

=============================================================================
