------------------------------- MODULE MvpApp -------------------------------
(***************************************************************************)
(* The MVP application: two screens (login, list of phones), a presenter   *)
(* for each that holds its view until onDestroy, model threads that answer *)
(* through the presenter's handler, the stack of activities, and the crash *)
(* handler that empties the stack and restarts the process.                *)
(*                                                                         *)
(* Android is external and enters through what it calls: it keeps the back *)
(* stack of screens, runs the lifecycle methods and the handlers on the    *)
(* main thread, destroys a finished activity some time later, and on a     *)
(* change of configuration destroys an activity and creates its successor  *)
(* in the same place.  Activity instances are numbered as they are created.*)
(***************************************************************************)
EXTENDS Integers, Sequences, FiniteSets

CONSTANTS
  MaxActs,    \* bound: activity instances in the life of one process
  MaxStarts   \* bound: startActivity calls waiting for Android

ASSUME MaxActsAssumption == MaxActs \in Nat \ {0}
ASSUME MaxStartsAssumption == MaxStarts \in Nat \ {0}

Acts == 1..MaxActs
NoAct == 0
MainThread == 0            \* model threads have the number of the activity they work for
Threads == Acts \cup {MainThread}

VARIABLES
  act,        \* act[a]: class, whether mViewRef holds the view, the dialog, the list
  task,       \* Android's back stack: the class of each screen and its instance, if any
  finishing,  \* instances Android has still to destroy
  mStack,     \* ActivityStackManager's stack
  starts,     \* startActivity(LoadPhonesActivity) calls Android has not served yet
  worker,     \* worker[a]: the model thread started for activity a
  queue,      \* messages for the handlers on the main thread
  main,       \* what the main thread is doing
  crash       \* crash[t]: progress of uncaughtException on thread t, and popAllActivity's i

mvpVars == <<act, task, finishing, mStack, starts, worker, queue, main, crash>>

Top(s) == s[Len(s)]
Front(s) == SubSeq(s, 1, Len(s) - 1)

Unborn == [class |-> "none", attached |-> FALSE, dialog |-> FALSE, list |-> FALSE]
Idle == [pc |-> "idle", old |-> NoAct, relaunch |-> FALSE]
Calm == [pc |-> "none", i |-> 0]
Uncaught == [pc |-> "sleep", i |-> 0]

Born == {a \in Acts : act[a].class # "none"}
Fresh == Cardinality(Born) + 1
InTask(a) == \E k \in DOMAIN task : task[k].inst = a
OnScreen(a) == task # <<>> /\ Top(task).inst = a /\ a # NoAct

MvpTypeOK ==
  /\ act \in [Acts -> [class : {"none", "login", "phones"}, attached : BOOLEAN,
                       dialog : BOOLEAN, list : BOOLEAN]]
  /\ task \in Seq([class : {"login", "phones"}, inst : Acts \cup {NoAct}])
  /\ finishing \subseteq Born
  /\ mStack \in Seq(Born)
  /\ starts \in 0..MaxStarts
  /\ worker \in [Acts -> {"none", "busy", "accepted", "refused"}]
  /\ queue \in Seq([to : Born, what : {"accepted", "refused", "phones"}])
  /\ main \in [pc : {"idle", "pop", "create", "dead"}, old : Acts \cup {NoAct},
               relaunch : BOOLEAN]
  /\ crash \in [Threads -> [pc : {"none", "sleep", "loop", "pop", "restart", "lost"},
                            i : Nat]]

AllUnborn == [a \in Acts |-> Unborn]
NoWorker == [a \in Acts |-> "none"]
AllCalm == [t \in Threads |-> Calm]

MvpInit ==
  /\ act = AllUnborn
  /\ task = <<>>
  /\ finishing = {}
  /\ mStack = <<>>
  /\ starts = 0
  /\ worker = NoWorker
  /\ queue = <<>>
  /\ main = Idle
  /\ crash = AllCalm

-----------------------------------------------------------------------------
\* BasePresenter: attachView, getView() # null, and dettachView (the window goes as well).
attachView(class) == [Unborn EXCEPT !.class = class, !.attached = TRUE]
getView(a) == act[a].attached
dettachView(a) == [act[a] EXCEPT !.attached = FALSE, !.dialog = FALSE]

\* mutation: only the login screen attaches its view
CreateWithoutAttach(a, class) ==
  /\ a \in Acts
  /\ act' = [act EXCEPT ![a] = [attachView(class) EXCEPT !.attached = class = "login"]]
  /\ mStack' = Append(mStack, a)
  /\ worker' = [worker EXCEPT ![a] = IF class = "phones" THEN "busy" ELSE "none"]

\* BaseActivity.onCreate (presenter, attachView, pushActivity), and for the list fetchData.
OnCreate(a, class) ==
  /\ a \in Acts
  /\ act' = [act EXCEPT ![a] = attachView(class)]
  /\ mStack' = Append(mStack, a)
  /\ worker' = [worker EXCEPT ![a] = IF class = "phones" THEN "busy" ELSE "none"]

\* Android opens the first screen: the user taps the icon, or restartApp's alarm fires.
LaunchLogin ==
  /\ main.pc = "idle"
  /\ task = <<>>
  /\ OnCreate(Fresh, "login")
  /\ task' = <<[class |-> "login", inst |-> Fresh]>>
  /\ UNCHANGED <<finishing, starts, queue, main, crash>>

\* Android serves a startActivity(LoadPhonesActivity).
StartPhones ==
  /\ main.pc = "idle"
  /\ starts > 0
  /\ OnCreate(Fresh, "phones")
  /\ task' = Append(task, [class |-> "phones", inst |-> Fresh])
  /\ starts' = starts - 1
  /\ UNCHANGED <<finishing, queue, main, crash>>

\* Android shows a screen whose instance went with an earlier process.
Recreate ==
  /\ main.pc = "idle"
  /\ task # <<>> /\ Top(task).inst = NoAct
  /\ OnCreate(Fresh, Top(task).class)
  /\ task' = [task EXCEPT ![Len(task)].inst = Fresh]
  /\ UNCHANGED <<finishing, starts, queue, main, crash>>

\* The back key on the screen on top; the progress dialog is modal and not cancelable.
Back(a) ==
  /\ main.pc = "idle"
  /\ OnScreen(a) /\ ~act[a].dialog
  /\ task' = Front(task)
  /\ finishing' = finishing \cup {a}
  /\ UNCHANGED <<act, mStack, starts, worker, queue, main, crash>>

Doing(pc, a, relaunch) == [pc |-> pc, old |-> a, relaunch |-> relaunch]
AfterDestroy(a, relaunch) == IF relaunch THEN Doing("create", a, TRUE) ELSE Idle

\* BaseActivity.onDestroy, up to popActivity's test of the stack; its window goes with it.
OnDestroy(a, relaunch) ==
  /\ act' = [act EXCEPT ![a] = dettachView(a)]
  /\ main' = IF mStack = <<>> THEN AfterDestroy(a, relaunch) ELSE Doing("pop", a, relaunch)

DestroyFinished(a) ==
  /\ main.pc = "idle"
  /\ a \in finishing
  /\ finishing' = finishing \ {a}
  /\ OnDestroy(a, FALSE)
  /\ UNCHANGED <<task, mStack, starts, worker, queue, crash>>

\* A change of configuration; nothing in the manifest lets the activities handle it.
ConfigurationChanges(a) ==
  /\ main.pc = "idle"
  /\ OnScreen(a)
  /\ Fresh \in Acts
  /\ OnDestroy(a, TRUE)
  /\ UNCHANGED <<task, finishing, mStack, starts, worker, queue, crash>>

\* Android's back stack without the screen of instance a, which has one place in it at most.
WithoutScreen(a) ==
  IF InTask(a)
    THEN LET k == CHOOSE k \in DOMAIN task : task[k].inst = a
         IN  SubSeq(task, 1, k - 1) \o SubSeq(task, k + 1, Len(task))
    ELSE task

\* Activity.finish(): the screen leaves the back stack and Android will destroy the instance;
\* nothing happens when it has left already.  On the instance that is being replaced it takes
\* the screen away from the successor, or comes too late.
Finish(a) ==
  LET replaced == main.relaunch /\ main.old = a
  IN  \/ /\ task' = WithoutScreen(a)
         /\ finishing' = IF InTask(a) /\ ~replaced THEN finishing \cup {a} ELSE finishing
      \/ replaced /\ UNCHANGED <<task, finishing>>

\* mutation: the pop without finish()
PopWithoutFinish ==
  /\ main.pc = "pop"
  /\ mStack # <<>>
  /\ mStack' = Front(mStack)
  /\ main' = AfterDestroy(main.old, main.relaunch)
  /\ UNCHANGED <<act, task, finishing, starts, worker, queue, crash>>

\* mutation: the subclass pops as well
PopTwiceAtDestroy ==
  /\ main.pc = "pop"
  /\ Len(mStack) > 1
  /\ mStack' = Front(Front(mStack))
  /\ task' = SelectSeq(task, LAMBDA s : s.inst \notin {Top(mStack), Top(Front(mStack))})
  /\ finishing' = finishing \cup {a \in {Top(mStack), Top(Front(mStack))} : InTask(a)}
  /\ main' = AfterDestroy(main.old, main.relaunch)
  /\ UNCHANGED <<act, starts, worker, queue, crash>>

\* popActivity after its test, in onDestroy: the instance on top is finished.  The crash
\* handler may have emptied the stack since the test: the exception ends the main thread.
PopAtDestroy ==
  /\ main.pc = "pop"
  /\ IF mStack = <<>>
       THEN /\ main' = [main EXCEPT !.pc = "dead"]
            /\ crash' = [crash EXCEPT ![MainThread] = Uncaught]
            /\ UNCHANGED <<mStack, task, finishing>>
       ELSE /\ mStack' = Front(mStack)
            /\ Finish(Top(mStack))
            /\ main' = AfterDestroy(main.old, main.relaunch)
            /\ UNCHANGED crash
  /\ UNCHANGED <<act, starts, worker, queue>>

\* The successor is created, to be destroyed at once when its screen is gone.
RelaunchCreates ==
  /\ main.pc = "create"
  /\ OnCreate(Fresh, act[main.old].class)
  /\ task' = [k \in DOMAIN task |->
               IF task[k].inst = main.old THEN [task[k] EXCEPT !.inst = Fresh] ELSE task[k]]
  /\ finishing' = IF InTask(main.old) THEN finishing ELSE finishing \cup {Fresh}
  /\ main' = Idle
  /\ UNCHANGED <<starts, queue, crash>>

-----------------------------------------------------------------------------
\* LoginPresenter.toLogin, from the login button, with both fields filled in; with an empty
\* field it only shows a toast.
ToLogin(a) ==
  /\ main.pc = "idle"
  /\ OnScreen(a) /\ act[a].class = "login" /\ ~act[a].dialog
  /\ getView(a)
  /\ starts < MaxStarts
  /\ act' = [act EXCEPT ![a].dialog = TRUE]
  /\ worker' = [worker EXCEPT ![a] = "busy"]
  /\ UNCHANGED <<task, finishing, mStack, starts, queue, main, crash>>

\* verifyUserPswd compares what was typed with the one account.
Verdicts == {"accepted", "refused"}

\* LoginActivity.loginResult
loginResult(verdict) ==
  IF verdict = "accepted" THEN starts < MaxStarts /\ starts' = starts + 1 ELSE UNCHANGED starts

\* The model thread has verified the password and calls onSuccess or onFailure, up to
\* loginResult; getView() is null when the activity was destroyed in the meantime.
LoginAnswered(a) ==
  /\ worker[a] = "busy" /\ act[a].class = "login"
  /\ IF getView(a)
       THEN /\ \E verdict \in Verdicts : /\ worker' = [worker EXCEPT ![a] = verdict]
                                         /\ loginResult(verdict)
            /\ UNCHANGED crash
       ELSE /\ worker' = [worker EXCEPT ![a] = "none"]
            /\ crash' = [crash EXCEPT ![a] = Uncaught]
            /\ UNCHANGED starts
  /\ UNCHANGED <<act, task, finishing, mStack, queue, main>>

sendMessage(a, what) == queue' = Append(queue, [to |-> a, what |-> what])

\* onSuccess or onFailure, after loginResult
LoginSends(a) ==
  /\ worker[a] \in {"accepted", "refused"}
  /\ sendMessage(a, worker[a])
  /\ worker' = [worker EXCEPT ![a] = "none"]
  /\ UNCHANGED <<act, task, finishing, mStack, starts, main, crash>>

\* LoadPhonesPresenter's onComplete does not use the view, it sends a message.
onComplete(a) == sendMessage(a, "phones")

\* The model thread of a list has the data.
PhonesLoaded(a) ==
  /\ worker[a] = "busy" /\ act[a].class = "phones"
  /\ onComplete(a)
  /\ worker' = [worker EXCEPT ![a] = "none"]
  /\ UNCHANGED <<act, task, finishing, mStack, starts, main, crash>>

ViewIsGone ==
  /\ main' = [Idle EXCEPT !.pc = "dead"]
  /\ crash' = [crash EXCEPT ![MainThread] = Uncaught]
  /\ UNCHANGED act

NextMessage(class) ==
  /\ main.pc = "idle"
  /\ queue # <<>> /\ act[Head(queue).to].class = class
  /\ queue' = Tail(queue)
  /\ UNCHANGED <<task, finishing, mStack, starts, worker>>

\* mutation: the answer to a refused login leaves the dialog
HandleAcceptedOnly ==
  /\ NextMessage("login")
  /\ LET a == Head(queue).to
     IN  IF getView(a)
           THEN /\ act' = [act EXCEPT ![a].dialog = Head(queue).what = "refused"]
                /\ UNCHANGED <<main, crash>>
           ELSE ViewIsGone

\* LoginPresenter.handleMessage: toast, dismissProgress.
HandleLogin ==
  /\ NextMessage("login")
  /\ LET a == Head(queue).to
     IN  IF getView(a)
           THEN act' = [act EXCEPT ![a].dialog = FALSE] /\ UNCHANGED <<main, crash>>
           ELSE ViewIsGone

\* LoadPhonesPresenter.handleMessage: toast, showPhoneInfos; the list is never null.
HandlePhones ==
  /\ NextMessage("phones")
  /\ LET a == Head(queue).to
     IN  IF getView(a)
           THEN act' = [act EXCEPT ![a].list = TRUE] /\ UNCHANGED <<main, crash>>
           ELSE ViewIsGone

-----------------------------------------------------------------------------
\* CrashManager.uncaughtException on thread t: after its sleep it calls popAllActivity, whose
\* loop starts when the stack is not empty.
CrashHandled(t) ==
  /\ crash[t].pc = "sleep"
  /\ crash' = [crash EXCEPT ![t].pc = IF mStack = <<>> THEN "restart" ELSE "loop"]
  /\ UNCHANGED <<act, task, finishing, mStack, starts, worker, queue, main>>

\* popAllActivity's loop condition, with popActivity's test of the stack.
PopAllTests(t) ==
  /\ crash[t].pc = "loop"
  /\ crash' = [crash EXCEPT ![t].pc = IF crash[t].i < Len(mStack) THEN "pop" ELSE "restart"]
  /\ UNCHANGED <<act, task, finishing, mStack, starts, worker, queue, main>>

\* mutation: the loop finishes the activity on top and does not pop it
PopAllPeeks(t) ==
  /\ crash[t].pc = "pop"
  /\ mStack # <<>>
  /\ crash' = [crash EXCEPT ![t].pc = "loop"]
  /\ Finish(Top(mStack))
  /\ UNCHANGED <<act, mStack, starts, worker, queue, main>>

\* popActivity after its test, in popAllActivity.  If another thread emptied the stack since
\* the test, the exception leaves uncaughtException: the rest of it never runs.
PopAllPops(t) ==
  /\ crash[t].pc = "pop"
  /\ IF mStack = <<>>
       THEN /\ crash' = [crash EXCEPT ![t].pc = "lost"]
            /\ UNCHANGED <<mStack, task, finishing>>
       ELSE /\ crash' = [crash EXCEPT ![t] = [pc |-> "loop", i |-> crash[t].i + 1]]
            /\ mStack' = Front(mStack)
            /\ Finish(Top(mStack))
  /\ UNCHANGED <<act, starts, worker, queue, main>>

\* restartApp and releaseAppResource: the process is killed; Android keeps the screens that
\* were not finished, without their instances.
RestartApp(t) ==
  /\ crash[t].pc = "restart"
  /\ act' = AllUnborn
  /\ finishing' = {}
  /\ mStack' = <<>>
  /\ starts' = 0
  /\ worker' = NoWorker
  /\ queue' = <<>>
  /\ main' = Idle
  /\ crash' = AllCalm
  /\ task' = [k \in DOMAIN task |-> [task[k] EXCEPT !.inst = NoAct]]

CrashHandler(t) == CrashHandled(t) \/ PopAllTests(t) \/ PopAllPops(t) \/ RestartApp(t)

-----------------------------------------------------------------------------
MvpNext ==
  \/ LaunchLogin \/ StartPhones \/ Recreate \/ PopAtDestroy \/ RelaunchCreates \/ HandleLogin
  \/ HandlePhones
  \/ \E a \in Acts : \/ Back(a) \/ DestroyFinished(a) \/ ConfigurationChanges(a) \/ ToLogin(a)
                     \/ LoginAnswered(a) \/ LoginSends(a) \/ PhonesLoaded(a)
  \/ \E t \in Threads : CrashHandler(t)

(***************************************************************************)
(* Threads that can run do run, and the main thread serves its messages.   *)
(* Nothing is assumed of the user.                                         *)
(***************************************************************************)
MvpFairness ==
  /\ WF_mvpVars(PopAtDestroy) /\ WF_mvpVars(RelaunchCreates)
  /\ WF_mvpVars(HandleLogin \/ HandlePhones)
  /\ \A a \in Acts : WF_mvpVars(LoginAnswered(a) \/ LoginSends(a) \/ PhonesLoaded(a))
  /\ \A t \in Threads : WF_mvpVars(CrashHandler(t))

MvpSpec == MvpInit /\ [][MvpNext]_mvpVars /\ MvpFairness

-----------------------------------------------------------------------------
Popping == \E t \in Threads : crash[t].pc \notin {"none", "sleep"} \/ crash[t].i > 0
Live == {a \in Acts : act[a].attached} \cup IF main.pc = "pop" THEN {main.old} ELSE {}
Destroyed(a) == a = main.old \/ ~(InTask(a) \/ a \in finishing)
Stacked == {mStack[k] : k \in DOMAIN mStack}

(***************************************************************************)
(* onCreate pushes the activity and onDestroy pops whatever is on top, so  *)
(* a destroy that comes after a later create pops the wrong one.  The      *)
(* stack still has one entry per live activity, and every screen the user  *)
(* can see or go back to is on it: the crash handler can finish it.        *)
(***************************************************************************)
StackCoversScreens ==
  ~Popping =>
    /\ Len(mStack) = Cardinality(Live)
    /\ \A k \in DOMAIN task : task[k].inst \in Stacked \cup {NoAct, main.old}

(***************************************************************************)
(* The exception of a late answer needs a destroyed view: no thread ends   *)
(* while the activity it works for is alive, and the main thread ends only *)
(* after some activity was destroyed.                                      *)
(***************************************************************************)
CrashNeedsDestroyedView ==
  \A t \in Threads : crash[t] # Calm =>
    \E a \in Born : Destroyed(a) /\ t \in {a, MainThread}

(***************************************************************************)
(* A screen the user has not left is closed by an onDestroy only when some *)
(* older activity was destroyed late, after the screen was created; that   *)
(* activity is then left on the stack.                                     *)
(***************************************************************************)
OnlyLateDestroyCloses ==
  [][(main.pc = "pop" /\ ~Popping /\ act' = act) =>
       \A a \in finishing' \ finishing : \E b \in Stacked' : b < a /\ ~act[b].attached]_mvpVars

(***************************************************************************)
(* Every progress dialog of a login is taken down: by the answer, with its *)
(* activity or with the process.                                           *)
(***************************************************************************)
LoginDialogCloses == \A a \in Acts : act[a].dialog ~> ~act[a].dialog

\* A list that was opened is shown, or its activity or the process ends first.
PhonesAreShown ==
  \A a \in Acts : (act[a].class = "phones" /\ act[a].attached)
                    ~> (act[a].list \/ ~act[a].attached)

\* The answer of either model thread reaches its screen, if that is still there (LoginPresenter
\* lines 61-72, LoadPhonesPresenter lines 35-45).
AnswersArrive == LoginDialogCloses /\ PhonesAreShown

(***************************************************************************)
(* When an exception ends the main thread the process is restarted, even   *)
(* though another thread's crash handler may make this one fail: the race  *)
(* for the last activity leaves one of them to finish the work.            *)
(***************************************************************************)
MainDeathRestarts == main.pc = "dead" ~> main.pc = "idle"
=============================================================================
