---------------------------- MODULE MvpAppProofs ----------------------------
(***************************************************************************)
(* The stack of activities, the late answers and the late destroys of the  *)
(* MVP application, for any number of activity instances in the life of a  *)
(* process and any interleaving of crashes.                                *)
(***************************************************************************)
EXTENDS MvpApp, FiniteSetTheorems, SequenceTheorems, TLAPS

\* Instances are numbered in the order of their creation.
BornInOrder ==
  /\ \E n \in 0..MaxActs : Born = 1..n
  /\ \A a \in Acts : act[a].attached \/ worker[a] # "none" => a \in Born

\* A screen is of a live instance, or of the one being replaced; Android will destroy no
\* instance that has a screen, and none twice.
ScreensLive ==
  /\ \A k \in DOMAIN task : task[k].inst # NoAct =>
       /\ task[k].inst \in Born
       /\ act[task[k].inst].attached \/ task[k].inst = main.old
       /\ task[k].inst \notin finishing
  /\ \A a \in finishing : act[a].attached
OneScreenEach ==
  \A j, k \in DOMAIN task : task[j].inst = task[k].inst => j = k \/ task[j].inst = NoAct

\* The instance in whose onDestroy the main thread is.
OldIsGone ==
  /\ main.old # NoAct => main.old \in Born /\ ~act[main.old].attached
  /\ main.old # NoAct /\ ~main.relaunch => ~InTask(main.old)
  /\ main.pc = "idle" => main = Idle
  /\ main.pc \in {"pop", "create"} => main.old # NoAct

\* The activities on the stack are in the order of their creation.
StackInOrder == \A j, k \in DOMAIN mStack : j < k => mStack[j] < mStack[k]

\* A thread of which the crash handler has taken charge does nothing else.
CrashedIsGone ==
  /\ \A a \in Acts : crash[a] # Calm => a \in Born /\ ~act[a].attached /\ worker[a] = "none"
  /\ crash[MainThread] # Calm =>
       main.pc = "dead" /\ \E a \in Born : ~act[a].attached

Inv ==
  /\ MvpTypeOK /\ BornInOrder /\ ScreensLive /\ OneScreenEach /\ OldIsGone /\ StackInOrder
  /\ CrashedIsGone /\ StackCoversScreens

ActType == [class : {"none", "login", "phones"}, attached : BOOLEAN,
            dialog : BOOLEAN, list : BOOLEAN]
ScreenType == [class : {"login", "phones"}, inst : Acts \cup {NoAct}]
WorkerPc == {"none", "busy", "accepted", "refused"}
MainType == [pc : {"idle", "pop", "create", "dead"}, old : Acts \cup {NoAct},
             relaunch : BOOLEAN]
CrashType == [pc : {"none", "sleep", "loop", "pop", "restart", "lost"}, i : Nat]
Messages(S) == Seq([to : S, what : {"accepted", "refused", "phones"}])

LEMMA Types ==
  MvpTypeOK <=>
    /\ act \in [Acts -> ActType]
    /\ task \in Seq(ScreenType)
    /\ finishing \subseteq Born
    /\ mStack \in Seq(Born)
    /\ starts \in 0..MaxStarts
    /\ worker \in [Acts -> WorkerPc]
    /\ queue \in Messages(Born)
    /\ main \in MainType
    /\ crash \in [Threads -> CrashType]
BY DEF MvpTypeOK, ActType, ScreenType, WorkerPc, MainType, CrashType, Messages

LEMMA TypesNext ==
  MvpTypeOK' <=>
    /\ act' \in [Acts -> ActType]
    /\ task' \in Seq(ScreenType)
    /\ finishing' \subseteq Born'
    /\ mStack' \in Seq(Born')
    /\ starts' \in 0..MaxStarts
    /\ worker' \in [Acts -> WorkerPc]
    /\ queue' \in Messages(Born')
    /\ main' \in MainType
    /\ crash' \in [Threads -> CrashType]
BY DEF MvpTypeOK, ActType, ScreenType, WorkerPc, MainType, CrashType, Messages

LEMMA MessagesGrow ==
  ASSUME NEW S, NEW T, S \subseteq T
  PROVE  Messages(S) \subseteq Messages(T) /\ Seq(S) \subseteq Seq(T)
BY SeqMonotonic DEF Messages

LEMMA ActsFinite == IsFiniteSet(Acts) /\ Acts \subseteq Nat /\ NoAct \notin Acts
BY FS_Interval, MaxActsAssumption DEF Acts, NoAct

LEMMA LiveFinite ==
  ASSUME Inv
  PROVE  IsFiniteSet(Live) /\ Live \subseteq Acts
<1>1. Born \subseteq Acts BY DEF Born
<1>2. Live \subseteq Acts
  BY <1>1 DEF Live, Inv, OldIsGone
<1> QED BY <1>2, ActsFinite, FS_Subset

\* The number of the next instance is new.
LEMMA FreshFacts ==
  ASSUME Inv, Fresh \in Acts
  PROVE  /\ Fresh \notin Born /\ ~act[Fresh].attached
         /\ \A a \in Born : a < Fresh
         /\ \E n \in 0..MaxActs : Born \cup {Fresh} = 1..n
<1>1. PICK n \in 0..MaxActs : Born = 1..n BY DEF Inv, BornInOrder
<1>2. Fresh = n + 1
  <2>1. n \in Nat BY MaxActsAssumption
  <2>2. Cardinality(1..n) = IF 1 > n THEN 0 ELSE n - 1 + 1 BY <2>1, FS_Interval
  <2>3. Cardinality(1..n) = n BY <2>1, <2>2
  <2> QED BY <1>1, <2>3 DEF Fresh
<1>3. /\ n + 1 \notin 1..n /\ \A a \in 1..n : a < n + 1
      /\ 1..n \cup {n + 1} = 1..(n + 1)
  <2>1. n \in Nat BY <1>1, MaxActsAssumption
  <2>2. n + 1 \notin 1..n /\ \A a \in 1..n : a < n + 1 BY <2>1
  <2>3. \A a : a \in 1..(n + 1) <=> a \in 1..n \/ a = n + 1 BY <2>1
  <2> QED BY <2>2, <2>3
<1>4. n + 1 \in 0..MaxActs
  BY <1>2, MaxActsAssumption DEF Acts
<1> QED BY <1>1, <1>2, <1>3, <1>4 DEF Inv, BornInOrder

\* What a new instance changes.
LEMMA Created ==
  ASSUME Inv, NEW class \in {"login", "phones"}, OnCreate(Fresh, class)
  PROVE  /\ Fresh \in Acts /\ Fresh # NoAct /\ Fresh \notin Born
         /\ Born' = Born \cup {Fresh}
         /\ act' \in [Acts -> ActType] /\ worker' \in [Acts -> WorkerPc]
         /\ \A a \in Acts : act'[a].attached = (act[a].attached \/ a = Fresh)
         /\ \A a \in Acts : a # Fresh => worker'[a] = worker[a]
         /\ BornInOrder' /\ StackInOrder'
         /\ mStack' \in Seq(Born')
         /\ Len(mStack') = Len(mStack) + 1 /\ Stacked' = Stacked \cup {Fresh}
<1> DEFINE f == Fresh
<1>1. /\ f \in Acts /\ f \notin Born /\ ~act[f].attached /\ \A a \in Born : a < f
      /\ f # NoAct
  BY FreshFacts, ActsFinite DEF OnCreate
<1>2. MvpTypeOK BY DEF Inv
<1>3. /\ act' = [act EXCEPT ![f] = attachView(class)]
      /\ mStack' = Append(mStack, f)
      /\ worker' = [worker EXCEPT ![f] = IF class = "phones" THEN "busy" ELSE "none"]
  BY DEF OnCreate
<1>4. \E n \in 0..MaxActs : Born \cup {f} = 1..n
  BY <1>1, FreshFacts
<1> HIDE DEF f
<1>5. act \in [Acts -> ActType] /\ worker \in [Acts -> WorkerPc] /\ mStack \in Seq(Born)
  BY <1>2, Types
<1>6. /\ attachView(class) \in ActType /\ attachView(class).class = class
      /\ attachView(class).attached = TRUE
  BY DEF attachView, Unborn, ActType
<1>7. /\ act' \in [Acts -> ActType] /\ worker' \in [Acts -> WorkerPc]
      /\ \A a \in Acts : act'[a] = IF a = f THEN attachView(class) ELSE act[a]
      /\ \A a \in Acts : a # f => worker'[a] = worker[a]
  BY <1>1, <1>3, <1>5, <1>6 DEF WorkerPc
<1>8. Born' = Born \cup {f}
  BY <1>1, <1>6, <1>7 DEF Born
<1>9. \A a \in Acts : act'[a].attached = (act[a].attached \/ a = f)
  BY <1>1, <1>5, <1>6, <1>7 DEF ActType
<1>10. BornInOrder'
  <2>1. \A a \in Acts : act'[a].attached \/ worker'[a] # "none" => a \in Born'
    BY <1>7, <1>8, <1>9 DEF Inv, BornInOrder
  <2> QED BY <1>4, <1>8, <2>1 DEF BornInOrder
<1>11. /\ Len(mStack') = Len(mStack) + 1 /\ Len(mStack) \in Nat
       /\ DOMAIN mStack = 1..Len(mStack) /\ DOMAIN mStack' = 1..(Len(mStack) + 1)
       /\ \A k \in 1..Len(mStack) : mStack'[k] = mStack[k] /\ mStack[k] \in Born
       /\ mStack'[Len(mStack) + 1] = f
  BY <1>3, <1>5
<1>12. mStack' \in Seq(Born')
  <2>1. mStack \in Seq(Born') BY <1>5, <1>8, SeqMonotonic
  <2> QED BY <1>3, <1>8, <2>1, AppendProperties
<1>13. StackInOrder'
  <2> SUFFICES ASSUME NEW j \in DOMAIN mStack', NEW k \in DOMAIN mStack', j < k
               PROVE  mStack'[j] < mStack'[k]
    BY DEF StackInOrder
  <2>1. j \in 1..Len(mStack) /\ (k \in 1..Len(mStack) \/ k = Len(mStack) + 1)
    BY <1>11
  <2> QED BY <1>1, <1>11, <2>1 DEF Inv, StackInOrder
<1>14. Stacked' = Stacked \cup {f}
  <2>1. \A k \in 1..(Len(mStack) + 1) : k \in 1..Len(mStack) \/ k = Len(mStack) + 1
    BY <1>11
  <2>2. 1..Len(mStack) \subseteq 1..(Len(mStack) + 1) /\ Len(mStack) + 1 \in 1..(Len(mStack) + 1)
    BY <1>11
  <2> QED BY <1>11, <2>1, <2>2 DEF Stacked
<1> QED BY <1>1, <1>7, <1>8, <1>9, <1>10, <1>11, <1>12, <1>13, <1>14 DEF f

-----------------------------------------------------------------------------
\* A step that creates and destroys nothing and closes no screen.
LEMMA QuietStep ==
  ASSUME Inv, MvpTypeOK', CrashedIsGone', Popping => Popping',
         \A a \in Acts : act'[a].class = act[a].class /\ act'[a].attached = act[a].attached,
         \A a \in Acts : worker'[a] # "none" => a \in Born,
         task' = task, finishing' = finishing, mStack' = mStack,
         main' = main \/ (main = Idle /\ main' = [Idle EXCEPT !.pc = "dead"])
  PROVE  Inv'
<1>1. Born' = Born BY DEF Born
<1>2. main'.old = main.old /\ main'.relaunch = main.relaunch
      /\ (main'.pc = main.pc \/ (main.pc = "idle" /\ main'.pc = "dead" /\ main.old = NoAct))
  <2>1. CASE main' = main BY <2>1
  <2>2. CASE main = Idle /\ main' = [Idle EXCEPT !.pc = "dead"] BY <2>2 DEF Idle
  <2> QED BY <2>1, <2>2
<1>3. BornInOrder'
  BY <1>1 DEF Inv, BornInOrder
<1>4. task \in Seq(ScreenType) /\ Born \subseteq Acts
  BY Types DEF Inv, Born
<1>5. \A k \in DOMAIN task : task[k].inst # NoAct => task[k].inst \in Acts
  BY <1>4 DEF Inv, ScreensLive
<1>6. ScreensLive'
  <2>1. \A a \in finishing : a \in Acts BY <1>4 DEF Inv, MvpTypeOK
  <2> QED BY <1>1, <1>2, <1>5, <2>1 DEF Inv, ScreensLive
<1>7. OneScreenEach' BY DEF Inv, OneScreenEach
<1>8. OldIsGone'
  <2>1. main.old # NoAct => main.old \in Acts BY <1>4 DEF Inv, OldIsGone
  <2>2. InTask(main.old)' = InTask(main.old) BY <1>2 DEF InTask
  <2>3. main'.pc = "idle" => main' = Idle BY DEF Inv, OldIsGone, Idle
  <2>4. main'.pc \in {"pop", "create"} => main'.old # NoAct
    BY <1>2 DEF Inv, OldIsGone
  <2> QED BY <1>1, <1>2, <2>1, <2>2, <2>3, <2>4 DEF Inv, OldIsGone
<1>9. StackInOrder' BY DEF Inv, StackInOrder
<1>10. StackCoversScreens'
  <2>1. Live' = Live BY <1>2 DEF Live
  <2> QED BY <1>2, <2>1 DEF Inv, StackCoversScreens, Stacked
<1> QED BY <1>3, <1>6, <1>7, <1>8, <1>9, <1>10 DEF Inv

\* Nothing but the restart of the process ends the emptying of the stack.
LEMMA PoppingGoesOn ==
  ASSUME NEW t \in Threads, crash \in [Threads -> CrashType],
         \/ crash' = crash
         \/ crash[t] = Calm /\ crash' = [crash EXCEPT ![t] = Uncaught]
         \/ /\ crash[t].pc # "none"
            /\ \E pc \in {"loop", "pop", "restart", "lost"} :
                 crash' = [crash EXCEPT ![t].pc = pc]
         \/ crash' = [crash EXCEPT ![t] = [pc |-> "loop", i |-> crash[t].i + 1]]
  PROVE  Popping => Popping'
<1> SUFFICES ASSUME NEW u \in Threads, crash[u].pc \notin {"none", "sleep"} \/ crash[u].i > 0
             PROVE  crash'[u].pc \notin {"none", "sleep"} \/ crash'[u].i > 0
  BY DEF Popping
<1>1. CASE u # t \/ crash' = crash BY <1>1
<1>2. CASE u = t /\ crash' # crash
  BY <1>2 DEF Calm, Uncaught, CrashType
<1> QED BY <1>1, <1>2

LEMMA ToLoginInv ==
  ASSUME Inv, NEW a \in Acts, ToLogin(a)
  PROVE  Inv'
<1>1. /\ act \in [Acts -> ActType] /\ worker \in [Acts -> WorkerPc] /\ act[a].attached
      /\ act' = [act EXCEPT ![a].dialog = TRUE] /\ worker' = [worker EXCEPT ![a] = "busy"]
      /\ UNCHANGED <<task, finishing, mStack, starts, queue, main, crash>>
  BY Types DEF Inv, ToLogin, getView
<1>2. act' \in [Acts -> ActType] /\ worker' \in [Acts -> WorkerPc]
  BY <1>1 DEF ActType, WorkerPc
<1>3. \A b \in Acts : act'[b].class = act[b].class /\ act'[b].attached = act[b].attached
  BY <1>1 DEF ActType
<1>4. Born' = Born BY <1>3 DEF Born
<1>5. MvpTypeOK' BY <1>1, <1>2, <1>4, Types, TypesNext DEF Inv
<1>6. \A b \in Acts : worker'[b] # "none" => b \in Born
  BY <1>1 DEF Inv, BornInOrder
<1>7. CrashedIsGone'
  BY <1>1, <1>3, <1>4 DEF Inv, CrashedIsGone, Born
<1>8. Popping => Popping' BY <1>1 DEF Popping
<1> QED BY <1>1, <1>3, <1>5, <1>6, <1>7, <1>8, QuietStep

\* The steps of a model thread.
LEMMA WorkerInv ==
  ASSUME Inv, NEW a \in Acts, LoginAnswered(a) \/ LoginSends(a) \/ PhonesLoaded(a)
  PROVE  Inv'
<1>1. /\ act \in [Acts -> ActType] /\ worker \in [Acts -> WorkerPc]
      /\ starts \in 0..MaxStarts /\ queue \in Messages(Born)
      /\ crash \in [Threads -> CrashType]
  BY Types DEF Inv
<1>2. /\ a \in Threads /\ MainThread \in Threads /\ MainThread \notin Acts /\ a # MainThread
      /\ Acts \subseteq Threads
  BY ActsFinite DEF Threads, MainThread, NoAct
<1>3. worker[a] # "none" /\ a \in Born
  BY DEF LoginAnswered, LoginSends, PhonesLoaded, Inv, BornInOrder
<1>4. UNCHANGED <<act, task, finishing, mStack, main>> /\ Born' = Born
  BY DEF LoginAnswered, LoginSends, PhonesLoaded, Born
<1>5. crash[a] = Calm BY <1>3 DEF Inv, CrashedIsGone
<1>6. \/ crash' = crash
      \/ crash' = [crash EXCEPT ![a] = Uncaught] /\ ~act[a].attached /\ worker'[a] = "none"
  BY <1>1 DEF LoginAnswered, LoginSends, PhonesLoaded, getView
<1>7. crash' \in [Threads -> CrashType]
  <2>1. Uncaught \in CrashType BY DEF Uncaught, CrashType
  <2> QED BY <1>1, <1>6, <2>1
<1>8. \E w \in WorkerPc : worker' = [worker EXCEPT ![a] = w]
  BY DEF LoginAnswered, LoginSends, PhonesLoaded, WorkerPc, Verdicts
<1>9. worker' \in [Acts -> WorkerPc] /\ \A b \in Acts : b # a => worker'[b] = worker[b]
  BY <1>1, <1>8
<1>10. starts' \in 0..MaxStarts
  BY <1>1, MaxStartsAssumption DEF LoginAnswered, LoginSends, PhonesLoaded, loginResult
<1>11. queue' \in Messages(Born)
  <2>1. CASE queue' = queue BY <1>1, <2>1
  <2>2. CASE \E what \in {"accepted", "refused", "phones"} :
               queue' = Append(queue, [to |-> a, what |-> what])
    BY <1>1, <1>3, <2>2, AppendProperties DEF Messages
  <2> QED
    BY <2>1, <2>2
       DEF LoginAnswered, LoginSends, PhonesLoaded, sendMessage, onComplete
<1>12. MvpTypeOK' BY <1>1, <1>4, <1>7, <1>9, <1>10, <1>11, Types, TypesNext DEF Inv
<1>13. \A b \in Acts : worker'[b] # "none" => b \in Born
  BY <1>3, <1>9 DEF Inv, BornInOrder
<1>14. CrashedIsGone'
  <2>1. \A b \in Acts : crash'[b] # Calm =>
          b \in Born /\ ~act[b].attached /\ worker'[b] = "none"
    <3> SUFFICES ASSUME NEW b \in Acts, crash'[b] # Calm
                 PROVE  b \in Born /\ ~act[b].attached /\ worker'[b] = "none"
      OBVIOUS
    <3>1. CASE b = a BY <1>1, <1>2, <1>3, <1>5, <1>6, <3>1
    <3>2. CASE b # a BY <1>1, <1>2, <1>6, <1>9, <3>2 DEF Inv, CrashedIsGone
    <3> QED BY <3>1, <3>2
  <2>2. crash'[MainThread] = crash[MainThread] BY <1>1, <1>2, <1>6
  <2> QED BY <1>4, <2>1, <2>2 DEF Inv, CrashedIsGone
<1>15. Popping => Popping' BY <1>1, <1>2, <1>5, <1>6, PoppingGoesOn
<1> QED BY <1>4, <1>12, <1>13, <1>14, <1>15, QuietStep

\* The two handlers: the message is taken, and the view may be gone.
LEMMA HandlersInv ==
  ASSUME Inv, HandleLogin \/ HandlePhones
  PROVE  Inv'
<1> DEFINE a == Head(queue).to
<1>1. /\ act \in [Acts -> ActType] /\ queue \in Messages(Born) /\ queue # <<>>
      /\ crash \in [Threads -> CrashType] /\ main \in MainType
      /\ main = Idle /\ queue' = Tail(queue)
      /\ UNCHANGED <<task, finishing, mStack, starts, worker>>
  BY Types DEF Inv, HandleLogin, HandlePhones, NextMessage, OldIsGone
<1>2. a \in Born /\ a \in Acts /\ queue' \in Messages(Born)
  <2>1. queue \in Seq([to : Born, what : {"accepted", "refused", "phones"}]) BY <1>1 DEF Messages
  <2>2. Head(queue) \in [to : Born, what : {"accepted", "refused", "phones"}]
        /\ Tail(queue) \in Seq([to : Born, what : {"accepted", "refused", "phones"}])
    BY <1>1, <2>1, HeadTailProperties
  <2> QED BY <1>1, <2>2 DEF Messages, Born
<1>3. /\ MainThread \in Threads /\ MainThread \notin Acts /\ Acts \subseteq Threads
  BY ActsFinite DEF Threads, MainThread, NoAct
<1>4. crash[MainThread] = Calm BY <1>1 DEF Inv, CrashedIsGone, Idle
<1>5. \/ /\ act' = [act EXCEPT ![a].dialog = FALSE] \/ act' = [act EXCEPT ![a].list = TRUE]
         /\ UNCHANGED <<main, crash>>
      \/ ~act[a].attached /\ ViewIsGone
  BY DEF HandleLogin, HandlePhones, getView
<1> HIDE DEF a
<1>6. /\ act' \in [Acts -> ActType]
      /\ \A b \in Acts : act'[b].class = act[b].class /\ act'[b].attached = act[b].attached
  <2>1. CASE act' = act BY <1>1, <2>1
  <2>2. CASE act' = [act EXCEPT ![a].dialog = FALSE] BY <1>1, <1>2, <2>2 DEF ActType
  <2>3. CASE act' = [act EXCEPT ![a].list = TRUE] BY <1>1, <1>2, <2>3 DEF ActType
  <2> QED BY <1>5, <2>1, <2>2, <2>3 DEF ViewIsGone
<1>7. Born' = Born BY <1>6 DEF Born
<1>8. /\ main' \in MainType /\ crash' \in [Threads -> CrashType]
      /\ main' = main \/ (main = Idle /\ main' = [Idle EXCEPT !.pc = "dead"])
      /\ crash' = crash \/ crash' = [crash EXCEPT ![MainThread] = Uncaught]
  <2>1. Uncaught \in CrashType /\ [Idle EXCEPT !.pc = "dead"] \in MainType
    BY DEF Uncaught, CrashType, Idle, MainType
  <2> QED BY <1>1, <1>5, <2>1 DEF ViewIsGone
<1>9. MvpTypeOK' BY <1>1, <1>2, <1>6, <1>7, <1>8, Types, TypesNext DEF Inv
<1>10. CrashedIsGone'
  <2>1. \A b \in Acts : crash'[b] = crash[b] BY <1>1, <1>3, <1>8
  <2>2. CASE UNCHANGED <<main, crash>>
    BY <1>1, <1>6, <1>7, <2>1, <2>2 DEF Inv, CrashedIsGone, Born
  <2>3. CASE ~act[a].attached /\ ViewIsGone
    <3>1. main'.pc = "dead" BY <2>3 DEF ViewIsGone, Idle
    <3> QED BY <1>1, <1>2, <1>6, <1>7, <2>1, <2>3, <3>1 DEF Inv, CrashedIsGone
  <2> QED BY <1>5, <2>2, <2>3
<1>11. Popping => Popping' BY <1>1, <1>3, <1>4, <1>8, PoppingGoesOn
<1>12. \A b \in Acts : worker'[b] # "none" => b \in Born
  BY <1>1 DEF Inv, BornInOrder
<1> QED BY <1>1, <1>6, <1>8, <1>9, <1>10, <1>11, <1>12, QuietStep

\* The crash handler's tests of the stack.
LEMMA CrashTestsInv ==
  ASSUME Inv, NEW t \in Threads, CrashHandled(t) \/ PopAllTests(t)
  PROVE  Inv'
<1>1. crash \in [Threads -> CrashType] BY Types DEF Inv
<1>2. /\ crash[t].pc \in {"sleep", "loop"}
      /\ \E pc \in {"loop", "pop", "restart", "lost"} : crash' = [crash EXCEPT ![t].pc = pc]
      /\ UNCHANGED <<act, task, finishing, mStack, starts, worker, queue, main>>
  BY DEF CrashHandled, PopAllTests
<1>3. Born' = Born BY <1>2 DEF Born
<1>4. crash' \in [Threads -> CrashType] BY <1>1, <1>2 DEF CrashType
<1>5. MvpTypeOK' BY <1>2, <1>3, <1>4, Types, TypesNext DEF Inv
<1>6. crash[t] # Calm BY <1>2 DEF Calm
<1>7. \A u \in Threads : crash'[u] # Calm => crash[u] # Calm
  BY <1>1, <1>2, <1>6
<1>8. CrashedIsGone'
  <2>1. Acts \subseteq Threads /\ MainThread \in Threads BY DEF Threads
  <2> QED BY <1>2, <1>3, <1>7, <2>1 DEF Inv, CrashedIsGone
<1>9. Popping => Popping' BY <1>1, <1>2, PoppingGoesOn
<1>10. \A b \in Acts : worker'[b] # "none" => b \in Born
  BY <1>2 DEF Inv, BornInOrder
<1> QED BY <1>2, <1>5, <1>8, <1>9, <1>10, QuietStep

\* A step of Android that leaves the crashes alone while the main thread is well.
LEMMA CreatedCalm ==
  ASSUME Inv, NEW class \in {"login", "phones"}, OnCreate(Fresh, class), crash' = crash,
         main.pc \in {"idle", "create"}
  PROVE  CrashedIsGone' /\ Popping' = Popping
<1>1. /\ Fresh \notin Born /\ Fresh \in Acts /\ Born' = Born \cup {Fresh}
      /\ \A a \in Acts : act'[a].attached = (act[a].attached \/ a = Fresh)
      /\ \A a \in Acts : a # Fresh => worker'[a] = worker[a]
  BY Created
<1>2. \A a \in Acts : crash[a] # Calm => a # Fresh BY <1>1 DEF Inv, CrashedIsGone
<1>3. crash[MainThread] = Calm BY DEF Inv, CrashedIsGone
<1> QED BY <1>1, <1>2, <1>3 DEF Inv, CrashedIsGone, Popping

LEMMA CreatedOnStack ==
  ASSUME Inv, NEW class \in {"login", "phones"}, OnCreate(Fresh, class), crash' = crash,
         main.pc \in {"idle", "create"}, main'.pc = "idle", ~Popping'
  PROVE  Len(mStack') = Cardinality(Live')
<1>1. /\ Fresh \in Acts /\ Fresh \notin Born /\ Len(mStack') = Len(mStack) + 1
      /\ \A a \in Acts : act'[a].attached = (act[a].attached \/ a = Fresh)
  BY Created
<1>2. Live' = Live \cup {Fresh} BY <1>1 DEF Live
<1>3. Fresh \notin Live BY <1>1 DEF Live, Inv, BornInOrder
<1>4. Cardinality(Live') = Cardinality(Live) + 1
  BY <1>2, <1>3, LiveFinite, FS_AddElement
<1>5. ~Popping BY CreatedCalm
<1> QED BY <1>1, <1>4, <1>5 DEF Inv, StackCoversScreens

\* Android shows the new instance, in the place of an old one or of none.
LEMMA ShowFresh ==
  ASSUME Inv, NEW class \in {"login", "phones"}, OnCreate(Fresh, class),
         UNCHANGED <<queue, crash>>, main.pc \in {"idle", "create"}, main' = Idle,
         starts' \in 0..MaxStarts, task' \in Seq(ScreenType),
         finishing' \in {finishing, finishing \cup {Fresh}},
         Fresh \in finishing' => \A k \in DOMAIN task' : task'[k].inst # Fresh,
         \A k \in DOMAIN task' : task'[k].inst # Fresh =>
           /\ k \in DOMAIN task /\ task'[k].inst = task[k].inst
           /\ task[k].inst = main.old => main.old = NoAct,
         \A j, k \in DOMAIN task' : task'[j].inst = Fresh /\ task'[k].inst = Fresh => j = k
  PROVE  Inv'
<1> DEFINE f == Fresh
<1>1. /\ f \in Acts /\ f # NoAct /\ f \notin Born
      /\ Born' = Born \cup {f}
      /\ act' \in [Acts -> ActType] /\ worker' \in [Acts -> WorkerPc]
      /\ \A a \in Acts : act'[a].attached = (act[a].attached \/ a = f)
      /\ BornInOrder' /\ StackInOrder'
      /\ mStack' \in Seq(Born') /\ Stacked' = Stacked \cup {f}
  BY Created
<1>2. /\ f \in finishing' => \A k \in DOMAIN task' : task'[k].inst # f
      /\ \A k \in DOMAIN task' : task'[k].inst # f =>
           /\ k \in DOMAIN task /\ task'[k].inst = task[k].inst
           /\ task[k].inst = main.old => main.old = NoAct
      /\ \A j, k \in DOMAIN task' : task'[j].inst = f /\ task'[k].inst = f => j = k
      /\ finishing' \in {finishing, finishing \cup {f}}
  OBVIOUS
<1>3. CrashedIsGone' /\ Popping' = Popping BY CreatedCalm
<1>4. ~Popping' => Len(mStack') = Cardinality(Live') BY CreatedOnStack DEF Idle
<1> HIDE DEF f
<1>5. MvpTypeOK'
  <2>1. finishing \subseteq Born /\ queue \in Messages(Born) /\ crash \in [Threads -> CrashType]
    BY Types DEF Inv
  <2>2. finishing' \subseteq Born' BY <1>1, <1>2, <2>1
  <2>3. queue' \in Messages(Born') BY <1>1, <2>1, MessagesGrow
  <2>4. main' \in MainType BY DEF Idle, MainType
  <2> QED BY <1>1, <2>1, <2>2, <2>3, <2>4, TypesNext
<1>6. ScreensLive'
  <2>1. ASSUME NEW k \in DOMAIN task', task'[k].inst # NoAct
        PROVE  /\ task'[k].inst \in Born'
               /\ act'[task'[k].inst].attached
               /\ task'[k].inst \notin finishing'
    <3>1. CASE task'[k].inst = f BY <1>1, <1>2, <3>1
    <3>2. CASE task'[k].inst # f
      <4>1. /\ k \in DOMAIN task /\ task'[k].inst = task[k].inst
            /\ task[k].inst = main.old => main.old = NoAct
        BY <1>2, <3>2
      <4>2. /\ task[k].inst \in Born /\ act[task[k].inst].attached
            /\ task[k].inst \notin finishing
        BY <2>1, <4>1 DEF Inv, ScreensLive
      <4> QED BY <1>1, <1>2, <3>2, <4>1, <4>2 DEF Born
    <3> QED BY <3>1, <3>2
  <2>2. ASSUME NEW a \in finishing' PROVE act'[a].attached
    <3>1. finishing \subseteq Acts BY DEF Inv, MvpTypeOK, Born
    <3> QED BY <1>1, <1>2, <3>1 DEF Inv, ScreensLive
  <2> QED BY <2>1, <2>2 DEF ScreensLive
<1>7. OneScreenEach'
  <2> SUFFICES ASSUME NEW j \in DOMAIN task', NEW k \in DOMAIN task',
                      task'[j].inst = task'[k].inst
               PROVE  j = k \/ task'[j].inst = NoAct
    BY DEF OneScreenEach
  <2>1. CASE task'[j].inst = f BY <1>2, <2>1
  <2>2. CASE task'[j].inst # f
    <3>1. /\ j \in DOMAIN task /\ task'[j].inst = task[j].inst
          /\ k \in DOMAIN task /\ task'[k].inst = task[k].inst
      BY <1>2, <2>2
    <3> QED BY <3>1 DEF Inv, OneScreenEach
  <2> QED BY <2>1, <2>2
<1>8. OldIsGone' BY DEF OldIsGone, Idle
<1>9. StackCoversScreens'
  <2> SUFFICES ASSUME ~Popping, NEW k \in DOMAIN task'
               PROVE  task'[k].inst \in Stacked' \cup {NoAct}
    BY <1>3, <1>4 DEF StackCoversScreens
  <2>1. CASE task'[k].inst = f BY <1>1, <2>1
  <2>2. CASE task'[k].inst # f
    <3>1. /\ k \in DOMAIN task /\ task'[k].inst = task[k].inst
          /\ task[k].inst = main.old => main.old = NoAct
      BY <1>2, <2>2
    <3> QED BY <1>1, <3>1 DEF Inv, StackCoversScreens
  <2> QED BY <2>1, <2>2
<1> QED BY <1>1, <1>3, <1>5, <1>6, <1>7, <1>8, <1>9 DEF Inv

LEMMA LaunchLoginInv ==
  ASSUME Inv, LaunchLogin
  PROVE  Inv'
<1>1. /\ task = <<>> /\ task' = <<[class |-> "login", inst |-> Fresh]>>
      /\ OnCreate(Fresh, "login") /\ main.pc = "idle" /\ main' = main
      /\ UNCHANGED <<finishing, starts, queue, crash>>
  BY DEF LaunchLogin
<1>2. Fresh \in Acts /\ Fresh \notin Born BY <1>1, Created
<1>3. DOMAIN task' = 1..1 /\ task'[1].inst = Fresh /\ task' \in Seq(ScreenType)
  <2>1. [class |-> "login", inst |-> Fresh] \in ScreenType BY <1>2 DEF ScreenType
  <2>2. task' = Append(<<>>, [class |-> "login", inst |-> Fresh]) BY <1>1
  <2> QED BY <2>1, <1>1
<1>4. starts' \in 0..MaxStarts /\ Fresh \notin finishing' /\ main' = Idle
  BY <1>1, <1>2 DEF Inv, MvpTypeOK, OldIsGone
<1>5. \A k \in DOMAIN task' : k = 1 BY <1>3
<1> QED BY <1>1, <1>3, <1>4, <1>5, ShowFresh

LEMMA StartPhonesInv ==
  ASSUME Inv, StartPhones
  PROVE  Inv'
<1> DEFINE screen == [class |-> "phones", inst |-> Fresh]
<1>1. /\ task' = Append(task, screen)
      /\ OnCreate(Fresh, "phones") /\ main.pc = "idle" /\ main' = main
      /\ starts > 0 /\ starts' = starts - 1
      /\ UNCHANGED <<finishing, queue, crash>>
  BY DEF StartPhones
<1>2. Fresh \in Acts /\ Fresh \notin Born BY <1>1, Created
<1>3. screen \in ScreenType /\ screen.inst = Fresh BY <1>2 DEF ScreenType
<1>4. main' = Idle /\ main.old = NoAct BY <1>1 DEF Inv, OldIsGone, Idle
<1>5. starts' \in 0..MaxStarts
  BY <1>1, MaxStartsAssumption DEF Inv, MvpTypeOK
<1>6. task \in Seq(ScreenType) BY Types DEF Inv
<1>7. finishing' = finishing /\ Fresh \notin finishing BY <1>1, <1>2 DEF Inv, MvpTypeOK
<1> HIDE DEF screen
<1>8. /\ task' \in Seq(ScreenType)
      /\ Len(task) \in Nat /\ DOMAIN task = 1..Len(task) /\ DOMAIN task' = 1..(Len(task) + 1)
      /\ \A k \in 1..Len(task) : task'[k] = task[k]
      /\ task'[Len(task) + 1] = screen
  BY <1>1, <1>3, <1>6, AppendProperties, LenProperties
<1>9. \A k \in DOMAIN task' : k \in DOMAIN task \/ k = Len(task) + 1 BY <1>8
<1>10. \A k \in DOMAIN task : task[k].inst # Fresh
  BY <1>2, ActsFinite DEF Inv, ScreensLive
<1>11. \A k \in DOMAIN task' : task'[k].inst = Fresh => k = Len(task) + 1
  BY <1>8, <1>9, <1>10
<1>12. \A k \in DOMAIN task' : task'[k].inst # Fresh =>
         /\ k \in DOMAIN task /\ task'[k].inst = task[k].inst
         /\ task[k].inst = main.old => main.old = NoAct
  BY <1>3, <1>4, <1>8, <1>9
<1> QED BY <1>1, <1>4, <1>5, <1>7, <1>8, <1>11, <1>12, ShowFresh

LEMMA RecreateInv ==
  ASSUME Inv, Recreate
  PROVE  Inv'
<1> DEFINE n == Len(task)
<1>1. /\ task # <<>> /\ task[n].inst = NoAct
      /\ task' = [task EXCEPT ![n].inst = Fresh]
      /\ OnCreate(Fresh, task[n].class) /\ main.pc = "idle" /\ main' = main
      /\ UNCHANGED <<finishing, starts, queue, crash>>
  BY DEF Recreate, Top
<1>2. task \in Seq(ScreenType) BY Types DEF Inv
<1>3. n \in 1..Len(task) /\ DOMAIN task = 1..Len(task) BY <1>1, <1>2, EmptySeq, LenProperties
<1>4. task[n] \in ScreenType BY <1>2, <1>3, ElementOfSeq
<1>5. task[n].class \in {"login", "phones"} BY <1>4 DEF ScreenType
<1>6. Fresh \in Acts /\ Fresh \notin Born BY <1>1, <1>5, Created
<1> HIDE DEF n
<1>7. /\ task' \in Seq(ScreenType) /\ DOMAIN task' = DOMAIN task
      /\ \A k \in DOMAIN task : k # n => task'[k] = task[k]
      /\ task'[n].inst = Fresh
  <2> DEFINE screen == [task[n] EXCEPT !.inst = Fresh]
  <2>1. screen \in ScreenType /\ screen.inst = Fresh BY <1>4, <1>6 DEF ScreenType
  <2>2. task' = [task EXCEPT ![n] = screen] BY <1>1
  <2> HIDE DEF screen
  <2> QED BY <1>2, <1>3, <2>1, <2>2, ExceptSeq, LenProperties
<1>8. \A k \in DOMAIN task : task[k].inst # Fresh
  BY <1>6, ActsFinite DEF Inv, ScreensLive
<1>9. main' = Idle /\ main.old = NoAct /\ starts' \in 0..MaxStarts /\ finishing' = finishing
      /\ Fresh \notin finishing
  BY <1>1, <1>6 DEF Inv, MvpTypeOK, OldIsGone, Idle
<1>10. \A k \in DOMAIN task' : task'[k].inst = Fresh => k = n BY <1>7, <1>8
<1>11. \A k \in DOMAIN task' : task'[k].inst # Fresh =>
         /\ k \in DOMAIN task /\ task'[k].inst = task[k].inst
         /\ task[k].inst = main.old => main.old = NoAct
  <2> SUFFICES ASSUME NEW k \in DOMAIN task', task'[k].inst # Fresh
               PROVE  /\ k \in DOMAIN task /\ task'[k].inst = task[k].inst
                      /\ task[k].inst = main.old => main.old = NoAct
    OBVIOUS
  <2>1. k = n => task'[k].inst = Fresh BY <1>7
  <2>2. k # n => k \in DOMAIN task /\ task'[k].inst = task[k].inst BY <1>7
  <2> QED BY <1>9, <2>1, <2>2
<1> QED BY <1>1, <1>5, <1>7, <1>9, <1>10, <1>11, ShowFresh

LEMMA RelaunchCreatesInv ==
  ASSUME Inv, RelaunchCreates
  PROVE  Inv'
<1>1. /\ main.pc = "create" /\ OnCreate(Fresh, act[main.old].class)
      /\ task' = [k \in DOMAIN task |->
                   IF task[k].inst = main.old THEN [task[k] EXCEPT !.inst = Fresh]
                                              ELSE task[k]]
      /\ finishing' = IF InTask(main.old) THEN finishing ELSE finishing \cup {Fresh}
      /\ main' = Idle
      /\ UNCHANGED <<starts, queue, crash>>
  BY DEF RelaunchCreates
<1>2. main.old # NoAct /\ main.old \in Born /\ main.old \in Acts
  BY <1>1 DEF Inv, OldIsGone, Born
<1>3. act[main.old].class \in {"login", "phones"}
  <2>1. act[main.old] \in ActType BY <1>2, Types DEF Inv
  <2> QED BY <1>2, <2>1 DEF Born, ActType
<1>4. Fresh \in Acts /\ Fresh \notin Born BY <1>1, <1>3, Created
<1>5. task \in Seq(ScreenType) BY Types DEF Inv
<1>6. \A k \in DOMAIN task : task[k] \in ScreenType /\ task[k].inst # Fresh
  BY <1>4, <1>5, ActsFinite, LenProperties, ElementOfSeq DEF Inv, ScreensLive
<1>7. /\ DOMAIN task' = DOMAIN task
      /\ \A k \in DOMAIN task : task'[k] =
           IF task[k].inst = main.old THEN [task[k] EXCEPT !.inst = Fresh] ELSE task[k]
  BY <1>1
<1>8. \A k \in DOMAIN task :
        /\ task'[k] \in ScreenType
        /\ task'[k].inst = IF task[k].inst = main.old THEN Fresh ELSE task[k].inst
  BY <1>4, <1>6, <1>7 DEF ScreenType
<1>9. task' \in Seq(ScreenType)
  <2>1. DOMAIN task = 1..Len(task) /\ Len(task) \in Nat BY <1>5, LenProperties
  <2>2. task' = [k \in 1..Len(task) |-> task'[k]] BY <1>1, <2>1
  <2>3. task' \in [1..Len(task) -> ScreenType] BY <1>8, <2>1, <2>2
  <2> QED BY <2>1, <2>3, SeqDef
<1>10. starts' \in 0..MaxStarts /\ finishing' \in {finishing, finishing \cup {Fresh}}
  BY <1>1 DEF Inv, MvpTypeOK
<1>11. Fresh \in finishing' => \A k \in DOMAIN task' : task'[k].inst # Fresh
  <2>1. Fresh \notin finishing BY <1>4 DEF Inv, MvpTypeOK
  <2> QED BY <1>1, <1>6, <1>7, <1>8, <2>1 DEF InTask
<1>12. \A k \in DOMAIN task' : task'[k].inst # Fresh =>
         /\ k \in DOMAIN task /\ task'[k].inst = task[k].inst
         /\ task[k].inst = main.old => main.old = NoAct
  BY <1>7, <1>8
<1>13. \A j, k \in DOMAIN task' : task'[j].inst = Fresh /\ task'[k].inst = Fresh => j = k
  BY <1>2, <1>6, <1>7, <1>8 DEF Inv, OneScreenEach
<1> QED BY <1>1, <1>3, <1>9, <1>10, <1>11, <1>12, <1>13, ShowFresh

-----------------------------------------------------------------------------
LEMMA BackInv ==
  ASSUME Inv, NEW a \in Acts, Back(a)
  PROVE  Inv'
<1> DEFINE n == Len(task)
<1>1. /\ task # <<>> /\ task[n].inst = a /\ task' = Front(task)
      /\ finishing' = finishing \cup {a} /\ main = Idle
      /\ UNCHANGED <<act, mStack, starts, worker, queue, main, crash>>
  BY DEF Back, OnScreen, Top, Inv, OldIsGone
<1>2. task \in Seq(ScreenType) BY Types DEF Inv
<1>3. n \in Nat \ {0} /\ DOMAIN task = 1..n BY <1>1, <1>2, EmptySeq, LenProperties
<1>4. \A k \in 1..n : task[k] \in ScreenType BY <1>2, ElementOfSeq
<1> HIDE DEF n
<1>5. /\ task' \in Seq(ScreenType) /\ Len(task') = n - 1
      /\ \A k \in 1..(n - 1) : task'[k] = task[k]
  <2>1. task' = SubSeq(task, 1, n - 1) BY <1>1 DEF Front, n
  <2>2. n - 1 \in Int /\ 1 \in Int /\ \A k \in 1..(n - 1) : k \in 1..n BY <1>3
  <2>3. \A k \in 1..(n - 1) : task[k] \in ScreenType BY <1>4, <2>2
  <2>4. /\ task' \in Seq(ScreenType)
        /\ Len(task') = IF 1 <= n - 1 THEN n - 1 - 1 + 1 ELSE 0
        /\ \A k \in 1 .. n - 1 - 1 + 1 : task'[k] = task[1 + k - 1]
    BY <2>1, <2>2, <2>3, SubSeqProperties
  <2> QED BY <1>3, <2>4
<1>6. /\ DOMAIN task' = 1..(n - 1) /\ n \in DOMAIN task /\ n \notin DOMAIN task'
      /\ \A k \in DOMAIN task' : k \in DOMAIN task /\ k # n /\ task'[k] = task[k]
  BY <1>3, <1>5, LenProperties
<1>7. a # NoAct /\ a \in Born /\ act[a].attached /\ Born' = Born
  BY <1>1, <1>6, ActsFinite DEF Inv, ScreensLive, Born, Idle
<1>8. \A k \in DOMAIN task' : task'[k].inst # a
  BY <1>1, <1>6, <1>7 DEF Inv, OneScreenEach
<1>9. MvpTypeOK' BY <1>1, <1>5, <1>7, Types, TypesNext DEF Inv
<1>10. BornInOrder' BY <1>1, <1>7 DEF Inv, BornInOrder
<1>11. ScreensLive' BY <1>1, <1>6, <1>7, <1>8 DEF Inv, ScreensLive
<1>12. OneScreenEach' BY <1>6 DEF Inv, OneScreenEach
<1>13. OldIsGone' BY <1>1 DEF OldIsGone, Idle
<1>14. StackInOrder' BY <1>1 DEF Inv, StackInOrder
<1>15. CrashedIsGone' BY <1>1, <1>7 DEF Inv, CrashedIsGone
<1>16. StackCoversScreens'
  <2>1. Live' = Live /\ Stacked' = Stacked /\ Popping' = Popping
    BY <1>1 DEF Live, Stacked, Popping
  <2> QED BY <1>1, <1>6, <2>1 DEF Inv, StackCoversScreens
<1> QED BY <1>9, <1>10, <1>11, <1>12, <1>13, <1>14, <1>15, <1>16 DEF Inv

\* The destroyed activity is still counted until its pop; unless the stack is being emptied
\* there is an entry for it.
LEMMA OnDestroyInv ==
  ASSUME Inv, NEW a \in Born, NEW relaunch \in BOOLEAN, act[a].attached,
         relaunch \/ ~InTask(a), a \notin finishing', finishing' \subseteq finishing,
         main = Idle, OnDestroy(a, relaunch),
         UNCHANGED <<task, mStack, starts, worker, queue, crash>>
  PROVE  Inv'
<1>1. /\ a \in Acts /\ a # NoAct BY ActsFinite DEF Born
<1>2. act \in [Acts -> ActType] BY Types DEF Inv
<1>3. act' = [act EXCEPT ![a] = dettachView(a)] BY DEF OnDestroy
<1>4. /\ dettachView(a) \in ActType /\ dettachView(a).class = act[a].class
      /\ dettachView(a).attached = FALSE
  BY <1>1, <1>2 DEF dettachView, ActType
<1>5. /\ act' \in [Acts -> ActType]
      /\ \A b \in Acts : act'[b].class = act[b].class
      /\ \A b \in Acts : act'[b].attached = (act[b].attached /\ b # a)
  <2> DEFINE d == dettachView(a)
  <2>1. act' = [act EXCEPT ![a] = d] BY <1>3
  <2>2. d \in ActType /\ d.class = act[a].class /\ d.attached = FALSE BY <1>4
  <2> HIDE DEF d
  <2>3. act' \in [Acts -> ActType] /\ \A b \in Acts : act'[b] = IF b = a THEN d ELSE act[b]
    BY <1>1, <1>2, <2>1, <2>2
  <2>4. \A b \in Acts : act[b].attached \in BOOLEAN BY <1>2 DEF ActType
  <2> QED BY <2>2, <2>3, <2>4
<1>6. Born' = Born BY <1>5 DEF Born
<1>7. \/ mStack # <<>> /\ main' = Doing("pop", a, relaunch)
      \/ mStack = <<>> /\ ~relaunch /\ main' = Idle
      \/ mStack = <<>> /\ relaunch /\ main' = Doing("create", a, TRUE)
  BY DEF OnDestroy, AfterDestroy
<1>8. main' \in MainType
  <2>1. Doing("pop", a, relaunch) \in MainType /\ Doing("create", a, TRUE) \in MainType
    BY <1>1 DEF Doing, MainType
  <2>2. Idle \in MainType BY DEF Idle, MainType
  <2> QED BY <1>7, <2>1, <2>2
<1>9. MvpTypeOK'
  <2>1. finishing' \subseteq Born' BY <1>6, Types DEF Inv
  <2> QED BY <1>5, <1>6, <1>8, <2>1, Types, TypesNext DEF Inv
<1>10. BornInOrder' BY <1>5, <1>6 DEF Inv, BornInOrder
<1>11. main'.old # NoAct => main'.old = a BY <1>7 DEF Doing, Idle
<1>12. relaunch => main'.old = a BY <1>7 DEF Doing
<1>13. main.old = NoAct BY DEF Idle
<1>14. ScreensLive'
  <2>1. ASSUME NEW k \in DOMAIN task, task[k].inst # NoAct
        PROVE  /\ task[k].inst \in Born
               /\ act'[task[k].inst].attached \/ task[k].inst = main'.old
               /\ task[k].inst \notin finishing'
    <3>1. /\ task[k].inst \in Born /\ act[task[k].inst].attached
          /\ task[k].inst \notin finishing
      BY <1>13, <2>1 DEF Inv, ScreensLive
    <3>2. task[k].inst = a => relaunch BY DEF InTask
    <3> QED BY <1>5, <1>12, <3>1, <3>2 DEF Born
  <2>2. ASSUME NEW b \in finishing' PROVE act'[b].attached
    BY <1>5 DEF Inv, ScreensLive, MvpTypeOK, Born
  <2> QED BY <1>6, <2>1, <2>2 DEF ScreensLive
<1>15. OneScreenEach' BY DEF Inv, OneScreenEach
<1>16. OldIsGone'
  <2>1. main'.old # NoAct => main'.old \in Born' /\ ~act'[main'.old].attached
    BY <1>1, <1>5, <1>6, <1>11
  <2>2. main'.old # NoAct /\ ~main'.relaunch => ~InTask(main.old)'
    BY <1>7 DEF Doing, Idle, InTask
  <2>3. main'.pc = "idle" => main' = Idle BY <1>7 DEF Doing
  <2>4. main'.pc \in {"pop", "create"} => main'.old # NoAct BY <1>1, <1>7 DEF Doing, Idle
  <2> QED BY <2>1, <2>2, <2>3, <2>4 DEF OldIsGone
<1>17. StackInOrder' BY DEF Inv, StackInOrder
<1>18. CrashedIsGone'
  <2>1. crash[MainThread] = Calm BY DEF Inv, CrashedIsGone, Idle
  <2> QED BY <1>5, <1>6, <2>1 DEF Inv, CrashedIsGone
<1>19. StackCoversScreens'
  <2> SUFFICES ASSUME ~Popping PROVE StackCoversScreens'
    BY DEF StackCoversScreens, Popping
  <2>1. a \in Live BY <1>1 DEF Live
  <2>2. Len(mStack) = Cardinality(Live) BY DEF Inv, StackCoversScreens
  <2>3. mStack # <<>>
    <3>1. Cardinality(Live) # 0 BY <2>1, LiveFinite, FS_EmptySet
    <3> QED BY <2>2, <3>1
  <2>4. Live' = Live
    <3>1. main.pc = "idle" /\ main'.pc = "pop" /\ main'.old = a
      BY <1>7, <2>3 DEF Doing, Idle
    <3>2. \A b \in Acts : act[b].attached <=> act'[b].attached \/ b = a BY <1>5
    <3> QED BY <1>1, <3>1, <3>2 DEF Live
  <2>5. Stacked' = Stacked BY DEF Stacked
  <2>6. \A k \in DOMAIN task : task[k].inst \in Stacked \cup {NoAct}
    BY <1>13 DEF Inv, StackCoversScreens
  <2> QED BY <2>2, <2>4, <2>5, <2>6 DEF StackCoversScreens
<1> QED BY <1>9, <1>10, <1>14, <1>15, <1>16, <1>17, <1>18, <1>19 DEF Inv

LEMMA DestroyInv ==
  ASSUME Inv, NEW a \in Acts, DestroyFinished(a) \/ ConfigurationChanges(a)
  PROVE  Inv'
<1>1. main = Idle BY DEF Inv, OldIsGone, DestroyFinished, ConfigurationChanges
<1>2. CASE DestroyFinished(a)
  <2>1. /\ a \in finishing /\ finishing' = finishing \ {a} /\ OnDestroy(a, FALSE)
        /\ UNCHANGED <<task, mStack, starts, worker, queue, crash>>
    BY <1>2 DEF DestroyFinished
  <2>2. a \in Born /\ act[a].attached /\ ~InTask(a)
    BY <2>1, ActsFinite DEF Inv, MvpTypeOK, ScreensLive, InTask
  <2> QED BY <1>1, <2>1, <2>2, OnDestroyInv
<1>3. CASE ConfigurationChanges(a)
  <2>1. /\ OnScreen(a) /\ OnDestroy(a, TRUE)
        /\ UNCHANGED <<task, finishing, mStack, starts, worker, queue, crash>>
    BY <1>3 DEF ConfigurationChanges
  <2>2. Len(task) \in DOMAIN task
    <3>1. task \in Seq(ScreenType) BY Types DEF Inv
    <3> QED BY <2>1, <3>1, EmptySeq, LenProperties DEF OnScreen
  <2>3. a \in Born /\ act[a].attached /\ a \notin finishing
    BY <1>1, <2>1, <2>2, ActsFinite DEF OnScreen, Top, Inv, ScreensLive, Idle
  <2> QED BY <1>1, <2>1, <2>3, OnDestroyInv
<1> QED BY <1>2, <1>3

-----------------------------------------------------------------------------
\* What is left of the back stack when the screen of x goes: its other screens, in order.
LEMMA ScreensLeft ==
  ASSUME Inv, NEW x \in Acts, NEW s, s = WithoutScreen(x)
  PROVE  /\ s \in Seq(ScreenType)
         /\ \A k \in DOMAIN s : s[k].inst # x /\ \E j \in DOMAIN task : s[k] = task[j]
         /\ \A j, k \in DOMAIN s : s[j].inst = s[k].inst => j = k \/ s[j].inst = NoAct
<1>1. task \in Seq(ScreenType) BY Types DEF Inv
<1>2. OneScreenEach BY DEF Inv
<1>3. CASE ~InTask(x)
  <2>1. s = task BY <1>3 DEF WithoutScreen
  <2> QED BY <1>1, <1>2, <1>3, <2>1 DEF InTask, OneScreenEach
<1>4. CASE InTask(x)
  <2> DEFINE m == CHOOSE m \in DOMAIN task : task[m].inst = x
             n == Len(task)
  <2>1. s = SubSeq(task, 1, m - 1) \o SubSeq(task, m + 1, n) BY <1>4 DEF WithoutScreen
  <2>2. m \in DOMAIN task /\ task[m].inst = x BY <1>4 DEF InTask
  <2>3. n \in Nat /\ DOMAIN task = 1..n BY <1>1, LenProperties
  <2>4. \A k \in 1..n : task[k] \in ScreenType BY <1>1, <2>3, ElementOfSeq
  <2>5. x # NoAct BY ActsFinite
  <2> HIDE DEF m, n
  <2> DEFINE p == SubSeq(task, 1, m - 1)
             q == SubSeq(task, m + 1, n)
  <2>6. p \in Seq(ScreenType) /\ Len(p) = m - 1 /\ \A k \in 1..(m - 1) : p[k] = task[k]
    <3>1. 1 \in Int /\ m - 1 \in Int /\ \A k \in 1..(m - 1) : task[k] \in ScreenType
      BY <2>2, <2>3, <2>4
    <3>2. /\ p \in Seq(ScreenType)
          /\ Len(p) = IF 1 <= m - 1 THEN m - 1 - 1 + 1 ELSE 0
          /\ \A k \in 1 .. m - 1 - 1 + 1 : p[k] = task[1 + k - 1]
      BY <3>1, SubSeqProperties
    <3> HIDE DEF p
    <3>3. m \in Int /\ 1 <= m BY <2>2, <2>3
    <3>4. m - 1 - 1 + 1 = m - 1 /\ \A k \in Int : 1 + k - 1 = k BY <3>3
    <3>5. Len(p) = m - 1 BY <3>2, <3>3
    <3>6. \A k \in 1..(m - 1) : p[k] = task[k] BY <3>2, <3>4
    <3> QED BY <3>2, <3>5, <3>6
  <2>7. q \in Seq(ScreenType) /\ Len(q) = n - m /\ \A k \in 1..(n - m) : q[k] = task[m + k]
    <3>1. m + 1 \in Int /\ n \in Int /\ \A k \in (m + 1)..n : task[k] \in ScreenType
      BY <2>2, <2>3, <2>4
    <3>2. /\ q \in Seq(ScreenType)
          /\ Len(q) = IF m + 1 <= n THEN n - (m + 1) + 1 ELSE 0
          /\ \A k \in 1 .. n - (m + 1) + 1 : q[k] = task[(m + 1) + k - 1]
      BY <3>1, SubSeqProperties
    <3> HIDE DEF q
    <3>3. m \in Int /\ n \in Int /\ m <= n BY <2>2, <2>3
    <3>4. n - (m + 1) + 1 = n - m /\ \A k \in Int : (m + 1) + k - 1 = m + k BY <3>3
    <3>5. Len(q) = n - m BY <3>2, <3>3
    <3>6. \A k \in 1..(n - m) : q[k] = task[m + k] BY <3>2, <3>3, <3>4
    <3> QED BY <3>2, <3>5, <3>6
  <2> HIDE DEF p, q
  <2>8. /\ s \in Seq(ScreenType) /\ Len(s) = n - 1
        /\ \A k \in 1..(n - 1) : s[k] = IF k < m THEN task[k] ELSE task[k + 1]
    <3>1. s = p \o q BY <2>1 DEF p, q
    <3>2. /\ s \in Seq(ScreenType) /\ Len(s) = Len(p) + Len(q)
          /\ \A k \in 1 .. Len(p) + Len(q) : s[k] = IF k <= Len(p) THEN p[k] ELSE q[k - Len(p)]
      BY <2>6, <2>7, <3>1, ConcatProperties
    <3>3. m \in 1..n /\ m \in Int /\ n \in Int BY <2>2, <2>3
    <3>4. Len(s) = n - 1 BY <2>6, <2>7, <3>2, <3>3
    <3>5. \A k \in 1..(n - 1) : s[k] = IF k <= m - 1 THEN p[k] ELSE q[k - (m - 1)]
      <4>1. Len(p) = m - 1 /\ Len(p) + Len(q) = n - 1 BY <2>6, <2>7, <3>3
      <4> QED BY <3>2, <4>1
    <3>6. ASSUME NEW k \in 1..(n - 1)
          PROVE  s[k] = IF k < m THEN task[k] ELSE task[k + 1]
      <4>1. CASE k < m
        <5>1. k <= m - 1 /\ k \in 1..(m - 1) BY <3>3, <4>1
        <5> QED BY <2>6, <3>5, <4>1, <5>1
      <4>2. CASE ~(k < m)
        <5>1. ~(k <= m - 1) /\ k - (m - 1) \in 1..(n - m) /\ m + (k - (m - 1)) = k + 1
          BY <3>3, <4>2
        <5>2. s[k] = q[k - (m - 1)] BY <3>5, <5>1
        <5>3. q[k - (m - 1)] = task[m + (k - (m - 1))] BY <2>7, <5>1
        <5> QED BY <4>2, <5>1, <5>2, <5>3
      <4> QED BY <4>1, <4>2
    <3> QED BY <3>2, <3>4, <3>6
  <2>9. DOMAIN s = 1..(n - 1) BY <2>8, LenProperties
  <2> DEFINE at(k) == IF k < m THEN k ELSE k + 1
  <2>10. \A k \in DOMAIN s : at(k) \in DOMAIN task /\ at(k) # m /\ s[k] = task[at(k)]
    BY <2>2, <2>3, <2>8, <2>9
  <2>11. \A j, k \in DOMAIN s : at(j) = at(k) => j = k
    BY <2>2, <2>3, <2>9
  <2> HIDE DEF at
  <2>12. \A k \in DOMAIN s : s[k].inst # x
    BY <1>2, <2>2, <2>5, <2>10 DEF OneScreenEach
  <2>13. \A j, k \in DOMAIN s : s[j].inst = s[k].inst => j = k \/ s[j].inst = NoAct
    BY <1>2, <2>10, <2>11 DEF OneScreenEach
  <2> QED BY <2>8, <2>10, <2>12, <2>13
<1> QED BY <1>3, <1>4

\* finish() on the instance x at the top of the stack.
LEMMA FinishTop ==
  ASSUME Inv, NEW x \in Born, Finish(x), act' = act
  PROVE  /\ task' \in Seq(ScreenType)
         /\ \A k \in DOMAIN task' : \E j \in DOMAIN task : task'[k] = task[j]
         /\ OneScreenEach'
         /\ \A a \in finishing' : a \in Born /\ act[a].attached
         /\ \A a \in finishing' \ finishing : a = x
         /\ \A k \in DOMAIN task' : task'[k].inst # NoAct => task'[k].inst \notin finishing'
         /\ \A k \in DOMAIN task' : task'[k].inst = x => main.relaunch /\ main.old = x
<1>1. x \in Acts /\ x # NoAct BY ActsFinite DEF Born
<1>2. task \in Seq(ScreenType) /\ finishing \subseteq Born BY Types DEF Inv
<1>3. \A a \in finishing : a \in Born /\ act[a].attached
  BY <1>2 DEF Inv, ScreensLive
<1>4. \A k \in DOMAIN task : task[k].inst # NoAct => task[k].inst \notin finishing
  BY DEF Inv, ScreensLive
<1>5. CASE main.relaunch /\ main.old = x /\ UNCHANGED <<task, finishing>>
  BY <1>2, <1>3, <1>4, <1>5 DEF Inv, OneScreenEach
<1>6. CASE /\ task' = WithoutScreen(x)
           /\ finishing' = IF InTask(x) /\ ~(main.relaunch /\ main.old = x)
                             THEN finishing \cup {x} ELSE finishing
  <2>1. /\ task' \in Seq(ScreenType)
        /\ \A k \in DOMAIN task' : task'[k].inst # x /\ \E j \in DOMAIN task : task'[k] = task[j]
        /\ \A j, k \in DOMAIN task' :
             task'[j].inst = task'[k].inst => j = k \/ task'[j].inst = NoAct
    BY <1>1, <1>6, ScreensLeft
  <2>2. InTask(x) /\ ~(main.relaunch /\ main.old = x) => act[x].attached
    <3> SUFFICES ASSUME InTask(x), ~(main.relaunch /\ main.old = x) PROVE act[x].attached
      OBVIOUS
    <3>1. PICK k \in DOMAIN task : task[k].inst = x BY DEF InTask
    <3>2. act[x].attached \/ x = main.old BY <1>1, <3>1 DEF Inv, ScreensLive
    <3>3. x # main.old BY <1>1 DEF Inv, OldIsGone
    <3> QED BY <3>2, <3>3
  <2>3. \A a \in finishing' : a \in Born /\ act[a].attached BY <1>3, <1>6, <2>2
  <2>4. \A a \in finishing' \ finishing : a = x BY <1>6
  <2>5. \A k \in DOMAIN task' : task'[k].inst # NoAct => task'[k].inst \notin finishing'
    BY <1>4, <1>6, <2>1
  <2>6. OneScreenEach' BY <2>1 DEF OneScreenEach
  <2> QED BY <2>1, <2>3, <2>4, <2>5, <2>6
<1> QED BY <1>5, <1>6 DEF Finish

\* The stack without its top, which is the youngest activity on it.
LEMMA PoppedStack ==
  ASSUME mStack \in Seq(Born), mStack # <<>>, StackInOrder, mStack' = Front(mStack), act' = act
  PROVE  /\ Top(mStack) \in Born /\ Top(mStack) \in Stacked
         /\ mStack' \in Seq(Born') /\ StackInOrder'
         /\ Len(mStack) \in Nat \ {0} /\ Len(mStack') = Len(mStack) - 1
         /\ Stacked' = Stacked \ {Top(mStack)}
         /\ \A b \in Stacked' : b < Top(mStack)
<1> DEFINE n == Len(mStack)
<1>1. n \in Nat \ {0} /\ DOMAIN mStack = 1..n BY EmptySeq, LenProperties
<1>2. \A k \in 1..n : mStack[k] \in Born BY <1>1, ElementOfSeq
<1>3. Top(mStack) = mStack[n] /\ mStack' = SubSeq(mStack, 1, n - 1) /\ Born' = Born
  BY DEF Top, Front, Born
<1>4. \A b \in Born : b \in Int BY ActsFinite DEF Born
<1> HIDE DEF n
<1>5. /\ mStack' \in Seq(Born) /\ Len(mStack') = n - 1
      /\ \A k \in 1..(n - 1) : mStack'[k] = mStack[k]
  <2>1. 1 \in Int /\ n - 1 \in Int /\ \A k \in 1..(n - 1) : k \in 1..n BY <1>1
  <2>2. \A k \in 1..(n - 1) : mStack[k] \in Born BY <1>2, <2>1
  <2>3. /\ mStack' \in Seq(Born)
        /\ Len(mStack') = IF 1 <= n - 1 THEN n - 1 - 1 + 1 ELSE 0
        /\ \A k \in 1 .. n - 1 - 1 + 1 : mStack'[k] = mStack[1 + k - 1]
    BY <1>3, <2>1, <2>2, SubSeqProperties
  <2>4. n - 1 - 1 + 1 = n - 1 /\ \A k \in Int : 1 + k - 1 = k BY <1>1
  <2>5. Len(mStack') = n - 1 BY <1>1, <2>3
  <2>6. \A k \in 1..(n - 1) : mStack'[k] = mStack[k] BY <2>1, <2>3, <2>4
  <2> QED BY <2>3, <2>5, <2>6
<1>6. /\ DOMAIN mStack' = 1..(n - 1) /\ n \in DOMAIN mStack
      /\ \A k \in 1..(n - 1) : k \in DOMAIN mStack /\ k < n
      /\ \A k \in DOMAIN mStack : k \in 1..(n - 1) \/ k = n
  BY <1>1, <1>5, LenProperties
<1>7. StackInOrder' BY <1>5, <1>6 DEF StackInOrder
<1>8. \A k \in 1..(n - 1) : mStack[k] < mStack[n] BY <1>6 DEF StackInOrder
<1>9. Stacked' = Stacked \ {mStack[n]}
  <2>1. \A k \in 1..(n - 1) : mStack[k] # mStack[n]
    BY <1>1, <1>2, <1>4, <1>6, <1>8
  <2> QED BY <1>5, <1>6, <2>1 DEF Stacked
<1>10. \A b \in Stacked' : b < mStack[n] BY <1>5, <1>6, <1>8 DEF Stacked
<1> QED BY <1>1, <1>2, <1>3, <1>5, <1>6, <1>7, <1>9, <1>10 DEF Stacked, n

\* A pop with its finish(), by onDestroy or by the crash handler.
LEMMA PopInv ==
  ASSUME Inv, mStack # <<>>, mStack' = Front(mStack), Finish(Top(mStack)),
         UNCHANGED <<act, starts, worker, queue>>,
         crash' \in [Threads -> CrashType], CrashedIsGone', StackCoversScreens',
         \/ main' = main
         \/ main.pc = "pop" /\ main' = AfterDestroy(main.old, main.relaunch)
  PROVE  Inv'
<1> DEFINE x == Top(mStack)
<1>1. /\ x \in Born /\ mStack' \in Seq(Born') /\ StackInOrder'
  BY PoppedStack, Types DEF Inv
<1>2. /\ task' \in Seq(ScreenType)
      /\ \A k \in DOMAIN task' : \E j \in DOMAIN task : task'[k] = task[j]
      /\ OneScreenEach'
      /\ \A a \in finishing' : a \in Born /\ act[a].attached
      /\ \A k \in DOMAIN task' : task'[k].inst # NoAct => task'[k].inst \notin finishing'
  BY <1>1, FinishTop
<1>3. Born' = Born BY DEF Born
<1>4. main \in MainType BY Types DEF Inv
<1>5. /\ main.old # NoAct => main.old \in Born /\ ~act[main.old].attached
      /\ main.old # NoAct /\ ~main.relaunch => ~InTask(main.old)
      /\ main.pc = "idle" => main = Idle
      /\ main.pc \in {"pop", "create"} => main.old # NoAct
  BY DEF Inv, OldIsGone
<1>6. \/ main' = main
      \/ main.pc = "pop" /\ main.relaunch /\ main' = Doing("create", main.old, TRUE)
      \/ main.pc = "pop" /\ ~main.relaunch /\ main' = Idle
  BY DEF AfterDestroy
<1>7. /\ main' \in MainType
      /\ main'.old # NoAct => main'.old = main.old /\ main'.relaunch = main.relaunch
      /\ main'.pc = "idle" => main' = Idle
      /\ main'.pc \in {"pop", "create"} => main'.old # NoAct
      /\ main.old # NoAct /\ main.relaunch => main'.old = main.old
      /\ main.old # main'.old => ~main.relaunch
  <2>1. CASE main' = main BY <1>4, <1>5, <2>1
  <2>2. CASE main.pc = "pop" /\ main.relaunch /\ main' = Doing("create", main.old, TRUE)
    <3>1. /\ main'.pc = "create" /\ main'.old = main.old /\ main'.relaunch = TRUE
          /\ main.relaunch = TRUE /\ main.old # NoAct
      BY <1>4, <1>5, <2>2 DEF Doing, MainType
    <3>2. main' \in MainType BY <1>4, <2>2 DEF Doing, MainType
    <3> QED BY <2>2, <3>1, <3>2
  <2>3. CASE main.pc = "pop" /\ ~main.relaunch /\ main' = Idle
    BY <1>5, <2>3 DEF Idle, MainType, NoAct
  <2> QED BY <1>6, <2>1, <2>2, <2>3
<1>8. MvpTypeOK' BY <1>1, <1>2, <1>3, <1>7, Types, TypesNext DEF Inv
<1>9. BornInOrder' BY <1>3 DEF Inv, BornInOrder
<1>10. ScreensLive'
  <2>1. ASSUME NEW k \in DOMAIN task', task'[k].inst # NoAct
        PROVE  /\ task'[k].inst \in Born'
               /\ act'[task'[k].inst].attached \/ task'[k].inst = main'.old
               /\ task'[k].inst \notin finishing'
    <3>1. PICK j \in DOMAIN task : task'[k] = task[j] BY <1>2
    <3>2. /\ task'[k].inst \in Born
          /\ act[task'[k].inst].attached \/ task'[k].inst = main.old
      BY <2>1, <3>1 DEF Inv, ScreensLive
    <3>3. task'[k].inst = main.old => task'[k].inst = main'.old
      BY <1>5, <1>7, <2>1, <3>1 DEF InTask
    <3> QED BY <1>2, <1>3, <2>1, <3>2, <3>3
  <2> QED BY <1>2, <2>1 DEF ScreensLive
<1>11. OldIsGone'
  <2>1. InTask(main.old)' /\ main'.old = main.old => InTask(main.old)
    BY <1>2 DEF InTask
  <2> QED BY <1>3, <1>5, <1>7, <2>1 DEF OldIsGone
<1> QED BY <1>1, <1>2, <1>8, <1>9, <1>10, <1>11 DEF Inv

\* The main thread in the pop of an onDestroy: unless the crash handler empties the stack,
\* the activity that is destroyed still has its entry, not necessarily its own.
LEMMA StackWhilePopping ==
  ASSUME Inv, main.pc = "pop", ~Popping
  PROVE  /\ main.old \in Live /\ ~act[main.old].attached /\ main.old \in Acts
         /\ Live \ {main.old} = {a \in Acts : act[a].attached}
         /\ mStack # <<>>
<1>1. main.old \in Born /\ ~act[main.old].attached /\ main.old \in Acts
  BY DEF Inv, OldIsGone, Born
<1>2. main.old \in Live BY DEF Live
<1>3. Cardinality(Live) # 0 BY <1>2, LiveFinite, FS_EmptySet
<1>4. mStack # <<>> BY <1>3 DEF Inv, StackCoversScreens
<1> QED BY <1>1, <1>2, <1>4 DEF Live

LEMMA PopCovers ==
  ASSUME Inv, main.pc = "pop", mStack # <<>>, mStack' = Front(mStack), Finish(Top(mStack)),
         UNCHANGED <<act, crash>>, main' = AfterDestroy(main.old, main.relaunch)
  PROVE  StackCoversScreens'
<1> SUFFICES ASSUME ~Popping
             PROVE  /\ Len(mStack') = Cardinality(Live')
                    /\ \A k \in DOMAIN task' :
                         task'[k].inst \in Stacked' \cup {NoAct, main'.old}
  BY DEF StackCoversScreens, Popping
<1> DEFINE x == Top(mStack)
<1>1. /\ x \in Born /\ Len(mStack') = Len(mStack) - 1 /\ Stacked' = Stacked \ {x}
  BY PoppedStack, Types DEF Inv
<1>2. main'.pc # "pop" /\ (main.relaunch => main'.old = main.old)
  BY DEF AfterDestroy, Doing, Idle
<1>3. Live' = Live \ {main.old} BY <1>2, StackWhilePopping DEF Live
<1>4. Cardinality(Live') = Cardinality(Live) - 1
  BY <1>3, StackWhilePopping, LiveFinite, FS_RemoveElement
<1>5. Len(mStack) = Cardinality(Live) BY DEF Inv, StackCoversScreens
<1>6. ASSUME NEW k \in DOMAIN task'
      PROVE  task'[k].inst \in Stacked' \cup {NoAct, main'.old}
  <2>1. PICK j \in DOMAIN task : task'[k] = task[j] BY <1>1, FinishTop
  <2>2. task'[k].inst = x => main.relaunch /\ main.old = x BY <1>1, FinishTop
  <2>3. task'[k].inst \in Stacked \cup {NoAct, main.old}
    BY <2>1 DEF Inv, StackCoversScreens
  <2>4. task'[k].inst = main.old => main.relaunch
    BY <2>1 DEF Inv, OldIsGone, InTask
  <2> QED BY <1>1, <1>2, <2>2, <2>3, <2>4
<1> QED BY <1>1, <1>4, <1>5, <1>6

LEMMA PopAtDestroyInv ==
  ASSUME Inv, PopAtDestroy
  PROVE  Inv'
<1>1. main.pc = "pop" /\ UNCHANGED <<act, starts, worker, queue>> BY DEF PopAtDestroy
<1>2. crash \in [Threads -> CrashType] /\ main \in MainType /\ main.old \in Born
      /\ ~act[main.old].attached /\ MainThread \in Threads /\ MainThread \notin Acts
      /\ Acts \subseteq Threads
  BY <1>1, Types, ActsFinite DEF Inv, OldIsGone, Threads, MainThread, NoAct
<1>3. CASE mStack = <<>>
  <2>1. /\ main' = [main EXCEPT !.pc = "dead"]
        /\ crash' = [crash EXCEPT ![MainThread] = Uncaught]
        /\ UNCHANGED <<mStack, task, finishing>>
    BY <1>3 DEF PopAtDestroy
  <2>2. Popping BY <1>1, <1>3, StackWhilePopping
  <2>3. crash[MainThread] = Calm BY <1>1 DEF Inv, CrashedIsGone
  <2>4. Popping' BY <1>2, <2>1, <2>2, <2>3, PoppingGoesOn
  <2>5. crash' \in [Threads -> CrashType] /\ \A b \in Acts : crash'[b] = crash[b]
    <3>1. Uncaught \in CrashType BY DEF Uncaught, CrashType
    <3> QED BY <1>2, <2>1, <3>1
  <2>6. /\ main' \in MainType /\ main'.pc = "dead" /\ main'.old = main.old
        /\ main'.relaunch = main.relaunch
    BY <1>2, <2>1 DEF MainType
  <2>7. Born' = Born BY <1>1 DEF Born
  <2>8. MvpTypeOK' BY <1>1, <2>1, <2>5, <2>6, <2>7, Types, TypesNext DEF Inv
  <2>9. BornInOrder' /\ StackInOrder' /\ OneScreenEach'
    BY <1>1, <2>1, <2>7 DEF Inv, BornInOrder, StackInOrder, OneScreenEach
  <2>10. ScreensLive' BY <1>1, <2>1, <2>6, <2>7 DEF Inv, ScreensLive
  <2>11. OldIsGone'
    BY <1>1, <2>1, <2>6, <2>7 DEF Inv, OldIsGone, InTask
  <2>12. CrashedIsGone'
    BY <1>1, <1>2, <2>5, <2>6, <2>7 DEF Inv, CrashedIsGone
  <2>13. StackCoversScreens' BY <2>4 DEF StackCoversScreens
  <2> QED BY <2>8, <2>9, <2>10, <2>11, <2>12, <2>13 DEF Inv
<1>4. CASE mStack # <<>>
  <2>1. /\ mStack' = Front(mStack) /\ Finish(Top(mStack))
        /\ main' = AfterDestroy(main.old, main.relaunch)
        /\ crash' = crash
    BY <1>4 DEF PopAtDestroy
  <2>2. StackCoversScreens' BY <1>1, <1>4, <2>1, PopCovers
  <2>3. CrashedIsGone'
    <3>1. crash[MainThread] = Calm BY <1>1 DEF Inv, CrashedIsGone
    <3>2. Born' = Born BY <1>1 DEF Born
    <3> QED BY <1>1, <2>1, <3>1, <3>2 DEF Inv, CrashedIsGone
  <2> QED BY <1>1, <1>2, <1>4, <2>1, <2>2, <2>3, PopInv
<1> QED BY <1>3, <1>4

LEMMA PopAllPopsInv ==
  ASSUME Inv, NEW t \in Threads, PopAllPops(t)
  PROVE  Inv'
<1>1. crash \in [Threads -> CrashType] /\ crash[t].pc = "pop"
      /\ UNCHANGED <<act, starts, worker, queue, main>>
  BY Types DEF Inv, PopAllPops
<1>2. \/ crash' = [crash EXCEPT ![t].pc = "lost"]
      \/ crash' = [crash EXCEPT ![t] = [pc |-> "loop", i |-> crash[t].i + 1]]
  BY DEF PopAllPops
<1>3. crash' \in [Threads -> CrashType]
  <2>1. CASE crash' = [crash EXCEPT ![t].pc = "lost"] BY <1>1, <2>1 DEF CrashType
  <2>2. CASE crash' = [crash EXCEPT ![t] = [pc |-> "loop", i |-> crash[t].i + 1]]
    <3>1. [pc |-> "loop", i |-> crash[t].i + 1] \in CrashType BY <1>1 DEF CrashType
    <3> QED BY <1>1, <2>2, <3>1
  <2> QED BY <1>2, <2>1, <2>2
<1>4. Popping BY <1>1 DEF Popping
<1>5. Popping'
  <2>1. CASE crash' = [crash EXCEPT ![t].pc = "lost"] BY <1>1, <1>4, <2>1, PoppingGoesOn
  <2>2. CASE crash' = [crash EXCEPT ![t] = [pc |-> "loop", i |-> crash[t].i + 1]]
    BY <1>1, <1>4, <2>2, PoppingGoesOn
  <2> QED BY <1>2, <2>1, <2>2
<1>6. StackCoversScreens' BY <1>5 DEF StackCoversScreens
<1>7. Born' = Born BY <1>1 DEF Born
<1>8. CrashedIsGone'
  <2>1. \A u \in Threads : crash'[u] # Calm => crash[u] # Calm
    BY <1>1, <1>2 DEF Calm
  <2>2. Acts \subseteq Threads /\ MainThread \in Threads BY DEF Threads
  <2> QED BY <1>1, <1>7, <2>1, <2>2 DEF Inv, CrashedIsGone
<1>9. CASE mStack = <<>>
  <2>1. UNCHANGED <<mStack, task, finishing>> BY <1>9 DEF PopAllPops
  <2>2. MvpTypeOK' BY <1>1, <1>3, <1>7, <2>1, Types, TypesNext DEF Inv
  <2>3. \A b \in Acts : worker'[b] # "none" => b \in Born
    BY <1>1 DEF Inv, BornInOrder
  <2> QED BY <1>1, <1>5, <1>8, <2>1, <2>2, <2>3, QuietStep
<1>10. CASE mStack # <<>>
  <2>1. mStack' = Front(mStack) /\ Finish(Top(mStack)) BY <1>10 DEF PopAllPops
  <2> QED BY <1>1, <1>3, <1>6, <1>8, <1>10, <2>1, PopInv
<1> QED BY <1>9, <1>10

\* A process that begins: nothing is created, running or crashed, and what Android shows has
\* no instances.
LEMMA FreshProcess ==
  ASSUME act' = AllUnborn, finishing' = {}, mStack' = <<>>, starts' = 0, worker' = NoWorker,
         queue' = <<>>, main' = Idle, crash' = AllCalm, task' \in Seq(ScreenType),
         \A k \in DOMAIN task' : task'[k].inst = NoAct
  PROVE  Inv'
<1>1. Born' = {} /\ \A a \in Acts : ~act'[a].attached
  BY DEF Born, AllUnborn, Unborn
<1>2. MvpTypeOK'
  <2>1. act' \in [Acts -> ActType] BY DEF AllUnborn, Unborn, ActType
  <2>2. worker' \in [Acts -> WorkerPc] BY DEF NoWorker, WorkerPc
  <2>3. crash' \in [Threads -> CrashType] BY DEF AllCalm, Calm, CrashType
  <2>4. main' \in MainType BY DEF Idle, MainType
  <2>5. mStack' \in Seq(Born') /\ queue' \in Messages(Born') BY EmptySeq DEF Messages
  <2>6. starts' \in 0..MaxStarts BY MaxStartsAssumption
  <2> QED BY <2>1, <2>2, <2>3, <2>4, <2>5, <2>6, TypesNext
<1>3. BornInOrder'
  <2>1. 0 \in 0..MaxActs /\ 1..0 = {} BY MaxActsAssumption
  <2>2. \A a \in Acts : worker'[a] = "none" BY DEF NoWorker
  <2> QED BY <1>1, <2>1, <2>2 DEF BornInOrder
<1>4. ScreensLive' /\ OneScreenEach' BY DEF ScreensLive, OneScreenEach
<1>5. OldIsGone' BY DEF OldIsGone, Idle
<1>6. DOMAIN mStack' = {} /\ Len(mStack') = 0
  <2>1. DOMAIN mStack' = 1..0 /\ Len(mStack') = 0 BY EmptySeq, LenProperties
  <2> QED BY <2>1
<1>7. StackInOrder' BY <1>6 DEF StackInOrder
<1>8. CrashedIsGone'
  <2>1. \A t \in Threads : crash'[t] = Calm BY DEF AllCalm
  <2> QED BY <2>1 DEF CrashedIsGone, Threads
<1>9. StackCoversScreens'
  <2>1. Live' = {} BY <1>1 DEF Live, Idle
  <2> QED BY <1>6, <2>1, FS_EmptySet DEF StackCoversScreens
<1> QED BY <1>2, <1>3, <1>4, <1>5, <1>7, <1>8, <1>9 DEF Inv

LEMMA RestartAppInv ==
  ASSUME Inv, NEW t \in Threads, RestartApp(t)
  PROVE  Inv'
<1>1. task \in Seq(ScreenType) BY Types DEF Inv
<1>2. task' = [k \in DOMAIN task |-> [task[k] EXCEPT !.inst = NoAct]] BY DEF RestartApp
<1>3. DOMAIN task = 1..Len(task) /\ Len(task) \in Nat BY <1>1, LenProperties
<1>4. \A k \in DOMAIN task : task[k] \in ScreenType BY <1>1, <1>3, ElementOfSeq
<1>5. \A k \in DOMAIN task : [task[k] EXCEPT !.inst = NoAct] \in ScreenType
                             /\ [task[k] EXCEPT !.inst = NoAct].inst = NoAct
  BY <1>4 DEF ScreenType
<1>6. task' \in [1..Len(task) -> ScreenType] /\ \A k \in DOMAIN task' : task'[k].inst = NoAct
  BY <1>2, <1>3, <1>5
<1>7. task' \in Seq(ScreenType) BY <1>3, <1>6, SeqDef
<1> QED BY <1>6, <1>7, FreshProcess DEF RestartApp

LEMMA InitInv == MvpInit => Inv
<1> SUFFICES ASSUME MvpInit PROVE Inv OBVIOUS
<1>1. Born = {} /\ \A a \in Acts : ~act[a].attached
  BY DEF MvpInit, Born, AllUnborn, Unborn
<1>2. MvpTypeOK
  <2>1. act \in [Acts -> ActType] BY DEF MvpInit, AllUnborn, Unborn, ActType
  <2>2. worker \in [Acts -> WorkerPc] BY DEF MvpInit, NoWorker, WorkerPc
  <2>3. crash \in [Threads -> CrashType] BY DEF MvpInit, AllCalm, Calm, CrashType
  <2>4. main \in MainType BY DEF MvpInit, Idle, MainType
  <2>5. mStack \in Seq(Born) /\ queue \in Messages(Born) /\ task \in Seq(ScreenType)
    BY EmptySeq DEF MvpInit, Messages
  <2>6. starts \in 0..MaxStarts BY MaxStartsAssumption DEF MvpInit
  <2>7. finishing \subseteq Born BY DEF MvpInit
  <2> QED BY <2>1, <2>2, <2>3, <2>4, <2>5, <2>6, <2>7, Types
<1>3. BornInOrder
  <2>1. 0 \in 0..MaxActs /\ 1..0 = {} BY MaxActsAssumption
  <2>2. \A a \in Acts : worker[a] = "none" BY DEF MvpInit, NoWorker
  <2> QED BY <1>1, <2>1, <2>2 DEF BornInOrder
<1>4. /\ DOMAIN mStack = {} /\ Len(mStack) = 0 /\ DOMAIN task = {}
  <2>1. DOMAIN mStack = 1..0 /\ Len(mStack) = 0 /\ DOMAIN task = 1..0
    BY EmptySeq, LenProperties DEF MvpInit
  <2> QED BY <2>1
<1>5. ScreensLive /\ OneScreenEach
  BY <1>4 DEF MvpInit, ScreensLive, OneScreenEach
<1>6. OldIsGone BY DEF MvpInit, OldIsGone, Idle
<1>7. StackInOrder BY <1>4 DEF StackInOrder
<1>8. CrashedIsGone
  <2>1. \A t \in Threads : crash[t] = Calm BY DEF MvpInit, AllCalm
  <2> QED BY <2>1 DEF CrashedIsGone, Threads
<1>9. StackCoversScreens
  <2>1. Live = {} BY <1>1 DEF MvpInit, Live, Idle
  <2> QED BY <1>4, <2>1, FS_EmptySet DEF StackCoversScreens
<1> QED BY <1>2, <1>3, <1>5, <1>6, <1>7, <1>8, <1>9 DEF Inv

LEMMA StepInv == Inv /\ [MvpNext]_mvpVars => Inv'
<1> SUFFICES ASSUME Inv, [MvpNext]_mvpVars PROVE Inv' OBVIOUS
<1>1. CASE LaunchLogin BY <1>1, LaunchLoginInv
<1>2. CASE StartPhones BY <1>2, StartPhonesInv
<1>3. CASE Recreate BY <1>3, RecreateInv
<1>4. CASE PopAtDestroy BY <1>4, PopAtDestroyInv
<1>5. CASE RelaunchCreates BY <1>5, RelaunchCreatesInv
<1>6. CASE HandleLogin \/ HandlePhones BY <1>6, HandlersInv
<1>7. ASSUME NEW a \in Acts, Back(a) PROVE Inv' BY <1>7, BackInv
<1>8. ASSUME NEW a \in Acts, DestroyFinished(a) \/ ConfigurationChanges(a) PROVE Inv'
  BY <1>8, DestroyInv
<1>9. ASSUME NEW a \in Acts, ToLogin(a) PROVE Inv' BY <1>9, ToLoginInv
<1>10. ASSUME NEW a \in Acts, LoginAnswered(a) \/ LoginSends(a) \/ PhonesLoaded(a) PROVE Inv'
  BY <1>10, WorkerInv
<1>11. ASSUME NEW t \in Threads, CrashHandled(t) \/ PopAllTests(t) PROVE Inv'
  BY <1>11, CrashTestsInv
<1>12. ASSUME NEW t \in Threads, PopAllPops(t) PROVE Inv' BY <1>12, PopAllPopsInv
<1>13. ASSUME NEW t \in Threads, RestartApp(t) PROVE Inv' BY <1>13, RestartAppInv
<1>14. CASE UNCHANGED mvpVars
  <2>1. UNCHANGED <<act, task, finishing, mStack, starts, worker, queue, main, crash>>
    BY <1>14 DEF mvpVars
  <2>2. Born' = Born BY <2>1 DEF Born
  <2>3. MvpTypeOK' BY <2>1, <2>2, Types, TypesNext DEF Inv
  <2>4. CrashedIsGone' /\ (Popping => Popping')
    BY <2>1, <2>2 DEF Inv, CrashedIsGone, Popping
  <2>5. \A a \in Acts : worker'[a] # "none" => a \in Born
    BY <2>1 DEF Inv, BornInOrder
  <2> QED BY <2>1, <2>3, <2>4, <2>5, QuietStep
<1> QED
  BY <1>1, <1>2, <1>3, <1>4, <1>5, <1>6, <1>7, <1>8, <1>9, <1>10, <1>11, <1>12, <1>13, <1>14
     DEF MvpNext, CrashHandler

LEMMA AlwaysInv == MvpSpec => []Inv
BY InitInv, StepInv, PTL DEF MvpSpec

-----------------------------------------------------------------------------
(***************************************************************************)
(* Outside the crash handler the stack of activities has one entry per     *)
(* live activity and every screen is on it, whatever was popped before.    *)
(***************************************************************************)
THEOREM ScreensCanBeFinished == MvpSpec => []StackCoversScreens
<1>1. Inv => StackCoversScreens BY DEF Inv
<1> QED BY <1>1, AlwaysInv, PTL

(***************************************************************************)
(* No thread ends with an exception while the activity it works for lives. *)
(***************************************************************************)
THEOREM OnlyLateAnswersCrash == MvpSpec => []CrashNeedsDestroyedView
<1>1. Inv => CrashNeedsDestroyedView
  <2> SUFFICES ASSUME Inv, NEW t \in Threads, crash[t] # Calm
               PROVE  \E a \in Born : Destroyed(a) /\ t \in {a, MainThread}
    BY DEF CrashNeedsDestroyedView
  <2>1. ASSUME NEW a \in Born, ~act[a].attached PROVE Destroyed(a)
    <3>1. InTask(a) => a = main.old
      BY <2>1, ActsFinite DEF InTask, Inv, ScreensLive, Born
    <3>2. a \notin finishing BY <2>1 DEF Inv, ScreensLive
    <3> QED BY <3>1, <3>2 DEF Destroyed
  <2>2. CASE t \in Acts
    <3>1. t \in Born /\ ~act[t].attached BY <2>2 DEF Inv, CrashedIsGone
    <3> QED BY <2>1, <3>1
  <2>3. CASE t = MainThread
    <3>1. PICK a \in Born : ~act[a].attached BY <2>3 DEF Inv, CrashedIsGone
    <3> QED BY <2>1, <2>3, <3>1
  <2> QED BY <2>2, <2>3 DEF Threads
<1> QED BY <1>1, AlwaysInv, PTL

\* A sorted stack has as many entries as activities.
LEMMA StackCardinality ==
  ASSUME Inv
  PROVE  IsFiniteSet(Stacked) /\ Cardinality(Stacked) = Len(mStack)
<1> DEFINE n == Len(mStack)
<1>1. mStack \in Seq(Born) /\ \A b \in Born : b \in Int
  BY Types, ActsFinite DEF Inv, Born
<1>2. n \in Nat /\ DOMAIN mStack = 1..n /\ mStack \in [1..n -> Born] BY <1>1, LenProperties
<1>3. \A k \in 1..n : mStack[k] \in Int BY <1>1, <1>2
<1>4. \A j, k \in 1..n : mStack[j] = mStack[k] => j = k
  <2> SUFFICES ASSUME NEW j \in 1..n, NEW k \in 1..n, mStack[j] = mStack[k], j # k
               PROVE  FALSE
    OBVIOUS
  <2>1. j < k \/ k < j BY <1>2
  <2> QED BY <1>2, <1>3, <2>1 DEF Inv, StackInOrder
<1> HIDE DEF n
<1>5. Stacked = {mStack[k] : k \in 1..n} BY <1>2 DEF Stacked
<1>6. mStack \in Bijection(1..n, Stacked)
  BY <1>2, <1>4, <1>5 DEF Bijection, Injection, Surjection, IsInjective
<1>7. ExistsBijection(1..n, Stacked) BY <1>6 DEF ExistsBijection
<1>8. IsFiniteSet(1..n) /\ Cardinality(1..n) = n
  <2>1. Cardinality(1..n) = IF 1 > n THEN 0 ELSE n - 1 + 1 BY <1>2, FS_Interval
  <2> QED BY <1>2, <2>1, FS_Interval
<1> QED BY <1>7, <1>8, FS_Bijection DEF n

(***************************************************************************)
(* An onDestroy closes a screen the user has not left only when an older   *)
(* activity that was destroyed late is still on the stack.                 *)
(***************************************************************************)
THEOREM LateDestroyCloses == MvpSpec => OnlyLateDestroyCloses
<1> DEFINE Closes == (main.pc = "pop" /\ ~Popping /\ act' = act) =>
                       \A a \in finishing' \ finishing :
                         \E b \in Stacked' : b < a /\ ~act[b].attached
<1>1. Inv /\ [MvpNext]_mvpVars => [Closes]_mvpVars
  <2> SUFFICES ASSUME Inv, MvpNext, main.pc = "pop", ~Popping, act' = act,
                      NEW a \in finishing' \ finishing
               PROVE  \E b \in Stacked' : b < a /\ ~act[b].attached
    OBVIOUS
  <2>1. \A t \in Threads : crash[t].pc \in {"none", "sleep"} BY DEF Popping
  <2>2. PopAtDestroy
    BY <2>1 DEF MvpNext, LaunchLogin, StartPhones, Recreate, RelaunchCreates, HandleLogin,
                HandlePhones, NextMessage, Back, DestroyFinished, ConfigurationChanges, ToLogin,
                LoginAnswered, LoginSends, PhonesLoaded, CrashHandler, CrashHandled,
                PopAllTests, PopAllPops, RestartApp
  <2>3. mStack # <<>> BY StackWhilePopping
  <2>4. mStack' = Front(mStack) /\ Finish(Top(mStack)) BY <2>2, <2>3 DEF PopAtDestroy
  <2>5. /\ Top(mStack) \in Born /\ Top(mStack) \in Stacked
        /\ Stacked' = Stacked \ {Top(mStack)}
        /\ \A b \in Stacked' : b < Top(mStack)
    BY <2>3, <2>4, PoppedStack, Types DEF Inv
  <2>6. a = Top(mStack) /\ act[a].attached BY <2>4, <2>5, FinishTop
  <2> SUFFICES ASSUME \A b \in Stacked' : act[b].attached PROVE FALSE
    BY <2>5, <2>6
  <2>7. Stacked \subseteq {b \in Acts : act[b].attached}
    <3>1. Stacked \subseteq Acts
      <4>1. mStack \in Seq(Born) BY Types DEF Inv
      <4> QED BY <4>1, LenProperties, ElementOfSeq DEF Stacked, Born
    <3> QED BY <2>5, <2>6, <3>1
  <2>8. Cardinality(Live \ {main.old}) = Cardinality(Live) - 1
        /\ IsFiniteSet(Live \ {main.old}) /\ Cardinality(Live) \in Nat
    BY StackWhilePopping, LiveFinite, FS_RemoveElement, FS_CardinalityType
  <2>9. Cardinality(Stacked) <= Cardinality(Live \ {main.old})
    BY <2>7, <2>8, StackWhilePopping, FS_Subset
  <2>10. Cardinality(Stacked) = Cardinality(Live)
    BY StackCardinality DEF Inv, StackCoversScreens
  <2> QED BY <2>8, <2>9, <2>10
<1> QED BY <1>1, AlwaysInv, PTL DEF MvpSpec, OnlyLateDestroyCloses

=============================================================================
