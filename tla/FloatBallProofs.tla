--------------------------- MODULE FloatBallProofs ---------------------------
(***************************************************************************)
(* The safety properties of FloatBall for displays and balls of any size   *)
(* and any number of messages that wait.                                   *)
(***************************************************************************)
EXTENDS FloatBall, SequenceTheorems, TLAPS

\* Android creates and destroys the service in turn, and the last message
\* agrees with its record.
Alternate ==
    /\ \A i \in 1 .. Len(messages) - 1 : messages[i] # messages[i + 1]
    /\ Len(messages) > 0 => (messages[Len(messages)] = "create" <=> running)

\* The service exists on the main thread.
Exists == IF messages = <<>> THEN running ELSE messages[1] = "destroy"

\* A process that is gone has no window.
GoneWithProcess == ~ Alive => window = "none" /\ ~ refused

\* A service that was created with the permission has its ball, and a ball
\* is shown for no other reason.
ServiceHasBall ==
    Alive => IF Exists THEN refused \/ window = "shown" ELSE ~ refused /\ window # "shown"

\* Only the last half-hide message can still be taken back, and none at all
\* under a finger or without a window.
OneCallback ==
    /\ \A i \in 1 .. Len(hides) - 1 : hides[i].late
    /\ finger = "down" \/ window = "none" => \A i \in 1 .. Len(hides) : hides[i].late

\* The finger is on the ball and on the display.
FingerOnBall ==
    /\ finger = "down" => window # "none"
    /\ window # "none" /\ ~ disturbed =>
          /\ x > - BallWidth /\ x < width
          /\ finger = "down" => startX \in OnScreen /\ x <= startX /\ startX < x + BallWidth

Inv == TypeOK /\ Alternate /\ GoneWithProcess /\ ServiceHasBall /\ OneCallback /\ FingerOnBall

-----------------------------------------------------------------------------
LEMMA WidthType == \A w \in Widths : w \in Nat /\ w >= 2 * BallWidth /\ w > 0
<1> TAKE w \in Widths
<1>1. w \in Nat /\ w >= 2 * BallWidth
  BY FloatBallAssumption
<1>2. BallWidth \in Nat /\ BallWidth > 0
  BY FloatBallAssumption
<1> QED BY <1>1, <1>2

LEMMA HalfOfBall ==
    /\ BallWidth \in Nat /\ BallWidth \div 2 \in Nat
    /\ BallWidth \div 2 > 0 /\ BallWidth \div 2 < BallWidth
BY FloatBallAssumption

LEMMA InitInv == Init => Inv
<1> SUFFICES ASSUME Init PROVE Inv
  OBVIOUS
<1>1. messages = <<>> /\ hides = <<>> /\ Len(messages) = 0 /\ Len(hides) = 0
  BY EmptySeq DEF Init
<1>2. messages \in Seq({"create", "destroy"}) /\ hides \in Seq(HideMessages)
  BY <1>1, EmptySeq
<1>3. /\ process \in {"alive", "crashed", "killed"} /\ permitted \in BOOLEAN
      /\ isShow \in BOOLEAN /\ running \in BOOLEAN /\ refused \in BOOLEAN
      /\ window \in {"none", "shown", "dying"} /\ width \in Widths
      /\ disturbed \in BOOLEAN /\ finger \in {"none", "down", "up", "cancelled"}
  BY DEF Init
<1>4. x \in Int /\ startX \in Int /\ tempX \in Int
  BY DEF Init
<1>5. TypeOK
  BY <1>2, <1>3, <1>4, Zenon DEF TypeOK
<1> QED
  BY <1>1, <1>5
  DEF Init, Inv, Alternate, Exists, GoneWithProcess, ServiceHasBall, OneCallback, FingerOnBall, Alive

\* The messages of a window that has gone are all late.
LEMMA AllLate ==
    ASSUME TypeOK, hides' = [i \in DOMAIN hides |-> Late(hides[i])]
    PROVE  /\ hides' \in Seq(HideMessages) /\ Len(hides') = Len(hides)
           /\ \A i \in 1 .. Len(hides') : hides'[i].late
<1>1. hides \in Seq(HideMessages)
  BY DEF TypeOK
<1>2. DOMAIN hides = 1 .. Len(hides) /\ Len(hides) \in Nat
  BY <1>1, LenProperties
<1>3. \A h \in HideMessages : Late(h) \in HideMessages /\ Late(h).late
  BY DEF Late, HideMessages
<1>4. \A i \in 1 .. Len(hides) : hides[i] \in HideMessages
  BY <1>1, ElementOfSeq
<1>5. hides' \in Seq(HideMessages) /\ Len(hides') = Len(hides)
  <2>1. hides' \in [1 .. Len(hides) -> HideMessages]
    BY <1>2, <1>3, <1>4
  <2> QED BY <2>1, <1>2, SeqDef
<1>6. \A i \in 1 .. Len(hides') : hides'[i] = Late(hides[i])
  BY <1>2, <1>5
<1> QED BY <1>3, <1>4, <1>5, <1>6

\* A process that is gone keeps nothing.
LEMMA DeathKeepsInv ==
    ASSUME Inv, NEW how \in {"crashed", "killed"}, Dies(how)
    PROVE  Inv'
<1>1. messages' = <<>> /\ hides' = <<>> /\ Len(messages') = 0 /\ Len(hides') = 0
  BY EmptySeq DEF Dies
<1>2. messages' \in Seq({"create", "destroy"}) /\ hides' \in Seq(HideMessages)
  BY <1>1, EmptySeq
<1>3. /\ process' \in {"alive", "crashed", "killed"} /\ permitted' \in BOOLEAN
      /\ isShow' \in BOOLEAN /\ running' \in BOOLEAN /\ refused' \in BOOLEAN
      /\ window' \in {"none", "shown", "dying"} /\ width' \in Widths
      /\ disturbed' \in BOOLEAN /\ finger' \in {"none", "down", "up", "cancelled"}
  BY DEF Inv, TypeOK, Dies
<1>4. x' \in Int /\ startX' \in Int /\ tempX' \in Int
  BY DEF Dies
<1>5. TypeOK'
  BY <1>2, <1>3, <1>4, Zenon DEF TypeOK
<1> QED
  BY <1>1, <1>5 DEF Inv, Dies, Alternate, GoneWithProcess, ServiceHasBall, OneCallback, FingerOnBall, Alive

-----------------------------------------------------------------------------
(* The life cycle messages.                                                *)

Kinds == {"create", "destroy"}

\* A message that is handled leaves the others in their order.
LEMMA HandledMessages ==
    ASSUME TypeOK, Alternate, messages # <<>>, Handled, UNCHANGED running
    PROVE  /\ messages' \in Seq(Kinds) /\ Alternate'
           /\ Head(messages) = messages[1] /\ messages[1] \in Kinds
           /\ Exists' <=> messages[1] = "create"
<1>1. messages \in Seq(Kinds) /\ Len(messages) \in Nat \ {0}
  BY EmptySeq, LenProperties DEF TypeOK, Kinds
<1>2. /\ messages' \in Seq(Kinds) /\ Len(messages') = Len(messages) - 1
      /\ \A i \in 1 .. Len(messages') : messages'[i] = messages[i + 1]
  BY <1>1, HeadTailProperties DEF Handled
<1>3. \A i \in 1 .. Len(messages) : messages[i] \in Kinds
  BY <1>1, ElementOfSeq
<1>4. messages[1] \in Kinds
  BY <1>1, <1>3
<1>5. Alternate'
  <2>1. \A i \in 1 .. Len(messages') - 1 : messages'[i] # messages'[i + 1]
    BY <1>1, <1>2 DEF Alternate
  <2>2. Len(messages') > 0 => messages'[Len(messages')] = messages[Len(messages)]
    BY <1>1, <1>2
  <2>3. Len(messages') > 0 => (messages'[Len(messages')] = "create" <=> running')
    BY <1>1, <1>2, <2>2 DEF Alternate
  <2> QED BY <2>1, <2>3 DEF Alternate
<1>6. Exists' <=> messages[1] = "create"
  <2>1. CASE Len(messages) = 1
    <3>1. messages' = <<>>
      BY <1>1, <1>2, <2>1, EmptySeq
    <3> QED BY <1>4, <2>1, <3>1 DEF Exists, Alternate, Kinds
  <2>2. CASE Len(messages) > 1
    <3>1. messages' # <<>> /\ messages'[1] = messages[2] /\ messages[1] # messages[2]
      BY <1>1, <1>2, <2>2, EmptySeq DEF Alternate
    <3>2. messages[2] \in Kinds
      BY <1>1, <1>3, <2>2
    <3> QED BY <1>4, <3>1, <3>2 DEF Exists, Kinds
  <2>3. Len(messages) = 1 \/ Len(messages) > 1
    <3>1. \A n \in Nat \ {0} : n = 1 \/ n > 1
      OBVIOUS
    <3> QED BY <1>1, <3>1, Zenon
  <2> QED BY <2>1, <2>2, <2>3, Zenon
<1> QED BY <1>1, <1>2, <1>4, <1>5, <1>6

\* So does one that is added, when it is not what was said last.
LEMMA AddedMessage ==
    ASSUME TypeOK, Alternate, NEW kind \in Kinds, running' = (kind = "create"),
           running' # running, messages' = Append(messages, kind)
    PROVE  messages' \in Seq(Kinds) /\ Alternate' /\ (Exists' <=> Exists)
<1>1. messages \in Seq(Kinds) /\ Len(messages) \in Nat /\ running \in BOOLEAN
  BY LenProperties DEF TypeOK, Kinds
<1>2. /\ messages' \in Seq(Kinds) /\ Len(messages') = Len(messages) + 1 /\ messages' # <<>>
      /\ \A i \in 1 .. Len(messages) : messages'[i] = messages[i]
      /\ messages'[Len(messages')] = kind
  BY <1>1, AppendProperties
<1>3. \A i \in 1 .. Len(messages) : messages[i] \in Kinds
  BY <1>1, ElementOfSeq
<1>4. \A i \in 1 .. Len(messages') - 1 : messages'[i] # messages'[i + 1]
  <2> TAKE i \in 1 .. Len(messages') - 1
  <2>1. CASE i < Len(messages)
    BY <1>1, <1>2, <2>1 DEF Alternate
  <2>2. CASE i = Len(messages)
    <3>1. messages'[i] = messages[i] /\ messages'[i + 1] = kind /\ Len(messages) > 0
      BY <1>1, <1>2, <2>2
    <3>2. messages[i] = "create" <=> running
      BY <2>2, <3>1 DEF Alternate
    <3> QED BY <1>1, <3>1, <3>2
  <2> QED BY <1>1, <1>2, <2>1, <2>2
<1>5. Alternate'
  BY <1>1, <1>2, <1>4 DEF Alternate
<1>6. Exists' <=> Exists
  <2>1. CASE messages = <<>>
    <3>1. messages'[1] = kind
      BY <1>2, <2>1, EmptySeq
    <3>2. running <=> kind = "destroy"
      BY <1>1 DEF Kinds
    <3>3. Exists' <=> kind = "destroy"
      BY <1>2, <3>1 DEF Exists
    <3>4. Exists <=> running
      BY <2>1 DEF Exists
    <3> QED BY <3>2, <3>3, <3>4
  <2>2. CASE messages # <<>>
    BY <1>1, <1>2, <2>2, EmptySeq DEF Exists
  <2> QED BY <2>1, <2>2
<1> QED BY <1>2, <1>5, <1>6

LEMMA ClickInv == Inv /\ OnBtnClick => Inv'
<1> SUFFICES ASSUME Inv, OnBtnClick PROVE Inv'
  OBVIOUS
<1>1. UNCHANGED <<process, permitted, refused, window, width, x, hides, finger, startX, tempX,
                  disturbed>>
  BY DEF OnBtnClick, ballVars
<1>2. running \in BOOLEAN /\ isShow \in BOOLEAN /\ messages \in Seq(Kinds)
  BY DEF Inv, TypeOK, Kinds
<1>3. messages' \in Seq(Kinds) /\ Alternate' /\ (Exists' <=> Exists) /\ running' \in BOOLEAN
  <2>1. CASE running' = running
    <3>1. messages' = messages
      BY <1>2, <2>1 DEF OnBtnClick, StartService, StopService
    <3> QED BY <1>1, <1>2, <2>1, <3>1 DEF Inv, Alternate, Exists
  <2>2. CASE running' # running
    <3>1. \E kind \in Kinds : /\ running' = (kind = "create")
                              /\ messages' = Append(messages, kind)
      BY <1>2, <2>2 DEF OnBtnClick, StartService, StopService, Kinds
    <3>2. PICK kind \in Kinds : /\ running' = (kind = "create")
                                /\ messages' = Append(messages, kind)
      BY <3>1
    <3> QED BY <1>1, <2>2, <3>2, AddedMessage DEF Inv
  <2> QED BY <2>1, <2>2
<1>4. isShow' \in BOOLEAN
  BY <1>2 DEF OnBtnClick
<1>5. TypeOK'
  BY <1>1, <1>3, <1>4, Zenon DEF Inv, TypeOK, Kinds
<1>6. GoneWithProcess' /\ ServiceHasBall'
  BY <1>1, <1>3 DEF Inv, GoneWithProcess, ServiceHasBall, Alive
<1>7. OneCallback' /\ FingerOnBall'
  BY <1>1 DEF Inv, OneCallback, FingerOnBall, OnScreen
<1> QED BY <1>3, <1>5, <1>6, <1>7 DEF Inv

-----------------------------------------------------------------------------
(* The service and the window.                                             *)

LEMMA ShowInv == Inv /\ ShowBall => Inv'
<1> SUFFICES ASSUME Inv, ShowBall PROVE Inv'
  OBVIOUS
<1>1. CASE window = "shown"
  BY <1>1, DeathKeepsInv DEF ShowBall, Throws
<1>2. CASE window # "shown"
  <2>1. /\ Handled /\ window' = "shown" /\ x' = 0 /\ messages # <<>> /\ Head(messages) = "create"
        /\ hides' = [i \in DOMAIN hides |-> Late(hides[i])]
        /\ finger' = "none" /\ startX' = 0 /\ tempX' = 0 /\ disturbed' = FALSE
        /\ UNCHANGED <<process, permitted, isShow, running, refused, width>>
    BY <1>2 DEF ShowBall
  <2>2. messages' \in Seq(Kinds) /\ Alternate' /\ Exists'
    BY <2>1, HandledMessages DEF Inv
  <2>3. /\ hides' \in Seq(HideMessages) /\ Len(hides') \in Nat
        /\ \A i \in 1 .. Len(hides') : hides'[i].late
    BY <2>1, AllLate, LenProperties DEF Inv
  <2>4. x' \in Int /\ startX' \in Int /\ tempX' \in Int
    BY <2>1
  <2>5. TypeOK'
    BY <2>1, <2>2, <2>3, <2>4, Zenon DEF Inv, TypeOK, Kinds
  <2>6. GoneWithProcess' /\ ServiceHasBall'
    BY <2>1, <2>2 DEF ShowBall, GoneWithProcess, ServiceHasBall, Alive
  <2>7. OneCallback'
    BY <2>1, <2>3 DEF OneCallback
  <2>8. FingerOnBall'
    BY <2>1, WidthType, HalfOfBall DEF FingerOnBall, Inv, TypeOK
  <2> QED BY <2>2, <2>5, <2>6, <2>7, <2>8 DEF Inv
<1> QED BY <1>1, <1>2

LEMMA AskInv == Inv /\ AskPermission => Inv'
<1> SUFFICES ASSUME Inv, AskPermission PROVE Inv'
  OBVIOUS
<1>1. CASE Throws
  BY <1>1, DeathKeepsInv DEF Throws
<1>2. CASE ~ Throws
  <2>1. /\ Handled /\ refused' = TRUE /\ messages # <<>> /\ Head(messages) = "create" /\ Alive
        /\ UNCHANGED <<process, permitted, isShow, running, window, width, ballVars>>
    BY <1>2 DEF AskPermission
  <2>2. messages' \in Seq(Kinds) /\ Alternate' /\ Exists'
    BY <2>1, HandledMessages DEF Inv
  <2>3. TypeOK'
    BY <2>1, <2>2, Zenon DEF Inv, TypeOK, Kinds, ballVars
  <2>4. GoneWithProcess' /\ ServiceHasBall' /\ OneCallback' /\ FingerOnBall'
    BY <2>1, <2>2 DEF Inv, GoneWithProcess, ServiceHasBall, OneCallback, FingerOnBall, OnScreen, Alive, ballVars
  <2> QED BY <2>2, <2>3, <2>4 DEF Inv
<1> QED BY <1>1, <1>2

LEMMA RemoveInv == Inv /\ RemoveBall => Inv'
<1> SUFFICES ASSUME Inv, RemoveBall PROVE Inv'
  OBVIOUS
<1>1. CASE window = "none"
  BY <1>1, DeathKeepsInv DEF RemoveBall, Throws
<1>2. CASE window # "none"
  <2>1. /\ Handled /\ window' = "dying" /\ refused' = FALSE /\ messages # <<>>
        /\ Head(messages) = "destroy"
        /\ UNCHANGED <<process, permitted, isShow, running, width, ballVars>>
    BY <1>2 DEF RemoveBall
  <2>2. messages' \in Seq(Kinds) /\ Alternate' /\ ~ Exists'
    BY <2>1, HandledMessages DEF Inv
  <2>3. TypeOK'
    BY <2>1, <2>2, Zenon DEF Inv, TypeOK, Kinds, ballVars
  <2>4. GoneWithProcess' /\ ServiceHasBall'
    BY <2>1, <2>2 DEF RemoveBall, GoneWithProcess, ServiceHasBall, Alive
  <2>5. OneCallback' /\ FingerOnBall'
    BY <1>2, <2>1 DEF Inv, OneCallback, FingerOnBall, OnScreen, ballVars
  <2> QED BY <2>2, <2>3, <2>4, <2>5 DEF Inv
<1> QED BY <1>1, <1>2

LEMMA GoneInv == Inv /\ WindowGone => Inv'
<1> SUFFICES ASSUME Inv, WindowGone PROVE Inv'
  OBVIOUS
<1>1. /\ window = "dying" /\ window' = "none"
      /\ hides' = [i \in DOMAIN hides |-> Late(hides[i])]
      /\ finger' = "none" /\ startX' = 0 /\ tempX' = 0
      /\ UNCHANGED <<process, permitted, isShow, running, messages, refused, x, width, disturbed>>
  BY DEF WindowGone, serviceVars
<1>2. /\ hides' \in Seq(HideMessages) /\ Len(hides') \in Nat
      /\ \A i \in 1 .. Len(hides') : hides'[i].late
  BY <1>1, AllLate, LenProperties DEF Inv
<1>3. startX' \in Int /\ tempX' \in Int
  BY <1>1
<1>4. TypeOK'
  BY <1>1, <1>2, <1>3, Zenon DEF Inv, TypeOK
<1>5. Alternate' /\ GoneWithProcess' /\ ServiceHasBall' /\ OneCallback' /\ FingerOnBall'
  <2>1. Alternate' /\ GoneWithProcess'
    BY <1>1 DEF Inv, Alternate, GoneWithProcess, Alive
  <2>2. ServiceHasBall'
    BY <1>1 DEF Inv, ServiceHasBall, Exists, Alive
  <2>3. OneCallback'
    BY <1>2 DEF OneCallback
  <2>4. FingerOnBall'
    BY <1>1 DEF FingerOnBall
  <2> QED BY <2>1, <2>2, <2>3, <2>4
<1> QED BY <1>4, <1>5 DEF Inv

\* Steps that leave the touches alone.
LEMMA RestartInv == Inv /\ Restart => Inv'
<1> SUFFICES ASSUME Inv, Restart PROVE Inv'
  OBVIOUS
<1>1. /\ ~ Alive /\ process' = "alive"
      /\ messages' = IF running THEN <<"create">> ELSE <<>>
      /\ UNCHANGED <<permitted, isShow, running, refused, window, width, ballVars>>
  BY DEF Restart
<1>2. running \in BOOLEAN
  BY DEF Inv, TypeOK
<1>3. messages' \in Seq(Kinds) /\ Alternate' /\ ~ Exists'
  <2>1. CASE running
    <3>1. messages' = <<"create">>
      BY <1>1, <2>1
    <3> QED BY <1>1, <2>1, <3>1 DEF Kinds, Alternate, Exists, Alive
  <2>2. CASE ~ running
    <3>1. messages' = <<>> /\ Len(messages') = 0 /\ messages' \in Seq(Kinds)
      BY <1>1, <2>2, EmptySeq
    <3> QED BY <1>1, <2>2, <3>1 DEF Alternate, Exists, Alive
  <2> QED BY <1>2, <2>1, <2>2
<1>4. window = "none" /\ ~ refused
  BY <1>1 DEF Inv, GoneWithProcess
<1>5. TypeOK'
  BY <1>1, <1>3, Zenon DEF Inv, TypeOK, Kinds, ballVars
<1>6. GoneWithProcess' /\ ServiceHasBall' /\ OneCallback' /\ FingerOnBall'
  BY <1>1, <1>3, <1>4
  DEF Inv, GoneWithProcess, ServiceHasBall, OneCallback, FingerOnBall, OnScreen, Alive, ballVars
<1> QED BY <1>3, <1>5, <1>6 DEF Inv

\* Steps that change one of the parts.
LEMMA RotateInv == Inv /\ Rotate => Inv'
<1> SUFFICES ASSUME Inv, Rotate PROVE Inv'
  OBVIOUS
<1>1. TypeOK'
  BY Zenon DEF Inv, TypeOK, Rotate
<1>2. Alternate' /\ GoneWithProcess' /\ ServiceHasBall'
  BY DEF Rotate, Inv, Alternate, GoneWithProcess, ServiceHasBall, Exists, Alive
<1>3. OneCallback' /\ FingerOnBall'
  BY DEF Rotate, Inv, OneCallback, FingerOnBall
<1> QED BY <1>1, <1>2, <1>3 DEF Inv

LEMMA GrantInv == Inv /\ Grant => Inv'
<1> SUFFICES ASSUME Inv, Grant PROVE Inv'
  OBVIOUS
<1>1. TypeOK'
  BY Zenon DEF Inv, TypeOK, Grant, ballVars
<1>2. Alternate' /\ GoneWithProcess' /\ ServiceHasBall'
  BY DEF Grant, Inv, Alternate, GoneWithProcess, ServiceHasBall, Exists, Alive
<1>3. OneCallback' /\ FingerOnBall'
  BY DEF Grant, ballVars, Inv, OneCallback, FingerOnBall, OnScreen
<1> QED BY <1>1, <1>2, <1>3 DEF Inv

-----------------------------------------------------------------------------
(* Touches and the half-hide message.                                      *)

\* What does not touch the service keeps what is said of it.
LEMMA ServiceKept ==
    ASSUME Inv, UNCHANGED <<process, serviceVars, window>>
    PROVE  Alternate' /\ GoneWithProcess' /\ ServiceHasBall'
BY DEF serviceVars, Inv, Alternate, GoneWithProcess, ServiceHasBall, Exists, Alive

LEMMA HidesType ==
    ASSUME Inv
    PROVE  /\ hides \in Seq(HideMessages) /\ Len(hides) \in Nat
           /\ hides # <<>> => Len(hides) > 0
           /\ \A i \in 1 .. Len(hides) : hides[i].late \in BOOLEAN
<1>1. hides \in Seq(HideMessages)
  BY DEF Inv, TypeOK
<1>2. \A i \in 1 .. Len(hides) : hides[i] \in HideMessages
  BY <1>1, ElementOfSeq
<1>3. hides # <<>> => Len(hides) \in Nat \ {0}
  BY <1>1, EmptySeq
<1> QED BY <1>1, <1>2, <1>3, LenProperties DEF HideMessages

LEMMA FrontOf ==
    ASSUME NEW S, NEW s \in Seq(S), s # <<>>
    PROVE  /\ SubSeq(s, 1, Len(s) - 1) \in Seq(S)
           /\ Len(SubSeq(s, 1, Len(s) - 1)) = Len(s) - 1
           /\ \A i \in 1 .. Len(s) - 1 : SubSeq(s, 1, Len(s) - 1)[i] = s[i]
<1>1. Len(s) \in Nat \ {0} /\ 1 \in Int /\ Len(s) - 1 \in Int
  BY EmptySeq
<1>2. \A i \in 1 .. Len(s) - 1 : s[i] \in S
  BY <1>1, ElementOfSeq
<1>3. /\ SubSeq(s, 1, Len(s) - 1) \in Seq(S)
      /\ Len(SubSeq(s, 1, Len(s) - 1)) =
            IF 1 <= Len(s) - 1 THEN (Len(s) - 1) - 1 + 1 ELSE 0
      /\ \A i \in 1 .. (Len(s) - 1) - 1 + 1 : SubSeq(s, 1, Len(s) - 1)[i] = s[1 + i - 1]
  BY <1>1, <1>2, SubSeqProperties
<1>4. Len(SubSeq(s, 1, Len(s) - 1)) = Len(s) - 1
  <2>1. CASE 1 <= Len(s) - 1
    BY <1>1, <1>3, <2>1
  <2>2. CASE ~ (1 <= Len(s) - 1)
    <3>1. Len(s) = 1
      <4>1. \A n \in Nat \ {0} : ~ (1 <= n - 1) => n = 1
        OBVIOUS
      <4> QED BY <1>1, <2>2, <4>1, Zenon
    <3>2. Len(SubSeq(s, 1, Len(s) - 1)) = 0
      BY <1>3, <2>2
    <3> QED BY <3>1, <3>2
  <2> QED BY <2>1, <2>2
<1>5. \A i \in 1 .. Len(s) - 1 : SubSeq(s, 1, Len(s) - 1)[i] = s[i]
  <2>1. \A i \in 1 .. Len(s) - 1 : i \in 1 .. (Len(s) - 1) - 1 + 1 /\ 1 + i - 1 = i
    BY <1>1
  <2> QED BY <1>3, <2>1
<1> QED BY <1>3, <1>4, <1>5

LEMMA DownInv == ASSUME Inv, NEW f \in OnScreen, Down(f) PROVE Inv'
<1>1. /\ window # "none" /\ x <= f /\ f < x + BallWidth
      /\ finger' = "down" /\ startX' = f /\ tempX' = f /\ hides' = RemoveCallbacks
      /\ UNCHANGED <<process, serviceVars, window, x, width, disturbed>>
  BY DEF Down
<1>2. Alternate' /\ GoneWithProcess' /\ ServiceHasBall'
  BY <1>1, ServiceKept
<1>3. width \in Nat /\ f \in Int
  BY WidthType DEF Inv, TypeOK, OnScreen
<1>4. /\ hides' \in Seq(HideMessages) /\ Len(hides') \in Nat
      /\ \A i \in 1 .. Len(hides') : hides'[i].late
  <2>1. CASE hides # <<>> /\ ~ hides[Len(hides)].late
    <3> DEFINE n == Len(hides)
    <3>1. hides' = SubSeq(hides, 1, n - 1)
      BY <1>1, <2>1 DEF RemoveCallbacks
    <3>2. hides \in Seq(HideMessages) /\ n \in Nat /\ n > 0
      BY <2>1, HidesType
    <3>4. /\ hides' \in Seq(HideMessages) /\ Len(hides') = n - 1
          /\ \A i \in 1 .. n - 1 : hides'[i] = hides[i]
      BY <3>1, <3>2, FrontOf
    <3> QED BY <3>2, <3>4 DEF Inv, OneCallback
  <2>2. CASE ~ (hides # <<>> /\ ~ hides[Len(hides)].late)
    <3>1. hides' = hides
      BY <1>1, <2>2 DEF RemoveCallbacks
    <3>2. \A i \in 1 .. Len(hides) : i \in 1 .. Len(hides) - 1 \/ i = Len(hides)
      BY HidesType
    <3>3. \A i \in 1 .. Len(hides) : hides # <<>>
      BY EmptySeq, HidesType
    <3> QED BY <2>2, <3>1, <3>2, <3>3, HidesType DEF Inv, OneCallback
  <2> QED BY <2>1, <2>2
<1>5. TypeOK'
  <2>1. startX' \in Int /\ tempX' \in Int /\ finger' \in {"none", "down", "up", "cancelled"}
    BY <1>1, <1>3
  <2> QED BY <1>1, <1>4, <2>1, Zenon DEF Inv, TypeOK, serviceVars
<1>6. OneCallback'
  BY <1>4 DEF OneCallback
<1>7. FingerOnBall'
  BY <1>1 DEF Inv, FingerOnBall, OnScreen
<1> QED BY <1>2, <1>5, <1>6, <1>7 DEF Inv

LEMMA MoveInv == ASSUME Inv, NEW f \in OnScreen, Move(f) PROVE Inv'
<1>1. /\ finger = "down" /\ x' = x + (f - startX) /\ startX' = f
      /\ UNCHANGED <<process, serviceVars, window, hides, finger, tempX, width, disturbed>>
  BY DEF Move
<1>2. Alternate' /\ GoneWithProcess' /\ ServiceHasBall'
  BY <1>1, ServiceKept
<1>3. width \in Nat /\ f \in Int /\ x \in Int /\ startX \in Int
  BY WidthType DEF Inv, TypeOK, OnScreen
<1>4. TypeOK'
  <2>1. startX' \in Int /\ x' \in Int
    BY <1>1, <1>3
  <2> QED BY <1>1, <2>1, Zenon DEF Inv, TypeOK, serviceVars
<1>5. OneCallback'
  BY <1>1 DEF Inv, OneCallback
<1>6. FingerOnBall'
  <2>1. 0 <= f /\ f < width
    BY <1>3 DEF OnScreen
  <2>2. finger' = "down" => window' # "none"
    BY <1>1 DEF Inv, FingerOnBall
  <2>3. ASSUME ~ disturbed
        PROVE  /\ x' > - BallWidth /\ x' < width
               /\ x' <= f /\ f < x' + BallWidth
    <3>1. x <= startX /\ startX < x + BallWidth
      BY <1>1, <2>3 DEF Inv, FingerOnBall
    <3> QED BY <1>1, <1>3, <2>1, <3>1, HalfOfBall
  <2>4. f \in OnScreen'
    BY <1>1 DEF OnScreen
  <2> QED BY <1>1, <2>2, <2>3, <2>4 DEF FingerOnBall
<1> QED BY <1>2, <1>4, <1>5, <1>6 DEF Inv

LEMMA UpInv == ASSUME Inv, NEW f \in OnScreen, NEW far \in BOOLEAN, Up(f, far) PROVE Inv'
<1> DEFINE drag == Distance(f, tempX) > Slop \/ far
<1>1. /\ finger = "down" /\ finger' = "up"
      /\ hides' = Append(hides, HideMessage(f))
      /\ x' = IF drag THEN Docked(f) ELSE x
      /\ disturbed' = IF drag THEN FALSE ELSE disturbed
      /\ startX' = 0 /\ tempX' = 0
      /\ UNCHANGED <<process, serviceVars, window, width>>
  BY DEF Up
<1> HIDE DEF drag
<1>2. Alternate' /\ GoneWithProcess' /\ ServiceHasBall'
  BY <1>1, ServiceKept
<1>3. /\ width \in Nat /\ width >= 2 * BallWidth /\ f \in Int /\ x \in Int /\ BallWidth \in Nat
      /\ BallWidth > 0
  BY WidthType, HalfOfBall DEF Inv, TypeOK, OnScreen
<1>4. Docked(f) \in Int /\ Docked(f) > - BallWidth /\ Docked(f) < width
  BY <1>3 DEF Docked
<1>5. /\ hides' \in Seq(HideMessages) /\ Len(hides') = Len(hides) + 1 /\ Len(hides) \in Nat
      /\ \A i \in 1 .. Len(hides) : hides'[i] = hides[i]
  <2>1. HideMessage(f) \in HideMessages
    BY <1>3 DEF HideMessage, HideMessages
  <2> QED BY <1>1, <2>1, HidesType, AppendProperties
<1>6. OneCallback'
  <2>1. window # "none"
    BY <1>1 DEF Inv, FingerOnBall
  <2>2. \A i \in 1 .. Len(hides') - 1 : hides'[i].late
    BY <1>1, <1>5 DEF Inv, OneCallback
  <2>3. window' = window
    BY <1>1
  <2> QED BY <1>1, <2>1, <2>2, <2>3 DEF OneCallback
<1>7. TypeOK'
  <2>1. x' \in Int /\ startX' \in Int /\ tempX' \in Int /\ disturbed' \in BOOLEAN
    <3>1. disturbed \in BOOLEAN
      BY DEF Inv, TypeOK
    <3>2. x' \in Int /\ startX' \in Int /\ tempX' \in Int
      BY <1>1, <1>3, <1>4
    <3> QED BY <1>1, <3>1, <3>2
  <2>2. finger' \in {"none", "down", "up", "cancelled"}
    BY <1>1
  <2> QED BY <1>1, <1>5, <2>1, <2>2, Zenon DEF Inv, TypeOK, serviceVars
<1>8. FingerOnBall'
  BY <1>1, <1>4 DEF Inv, FingerOnBall
<1> QED BY <1>2, <1>6, <1>7, <1>8 DEF Inv

LEMMA CancelInv == Inv /\ Cancel => Inv'
<1> SUFFICES ASSUME Inv, Cancel PROVE Inv'
  OBVIOUS
<1>1. /\ finger' = "cancelled" /\ startX' = 0 /\ tempX' = 0
      /\ UNCHANGED <<process, serviceVars, window, x, hides, width, disturbed>>
  BY DEF Cancel
<1>2. Alternate' /\ GoneWithProcess' /\ ServiceHasBall'
  BY <1>1, ServiceKept
<1>3. TypeOK'
  <2>1. /\ startX' \in Int /\ tempX' \in Int
        /\ finger' \in {"none", "down", "up", "cancelled"}
    BY <1>1
  <2> QED BY <1>1, <2>1, Zenon DEF Inv, TypeOK, serviceVars
<1>4. OneCallback' /\ FingerOnBall'
  BY <1>1 DEF Inv, OneCallback, FingerOnBall
<1> QED BY <1>2, <1>3, <1>4 DEF Inv

LEMMA HideInv == Inv /\ Hide => Inv'
<1> SUFFICES ASSUME Inv, Hide PROVE Inv'
  OBVIOUS
<1>1. CASE window = "none"
  BY <1>1, DeathKeepsInv DEF Hide, Throws
<1>2. CASE window # "none"
  <2> DEFINE endX == Head(hides).endX
  <2>1. /\ hides # <<>> /\ hides' = Tail(hides)
        /\ x' = HalfHidden(endX) /\ disturbed' = (finger = "down")
        /\ UNCHANGED <<process, serviceVars, window, finger, startX, tempX, width>>
    BY <1>2 DEF Hide
  <2> HIDE DEF endX
  <2>2. Alternate' /\ GoneWithProcess' /\ ServiceHasBall'
    BY <2>1, ServiceKept
  <2>3. width \in Nat /\ width >= 2 * BallWidth
    BY WidthType DEF Inv, TypeOK
  <2>4. x' \in Int /\ x' > - BallWidth /\ x' < width
    BY <2>1, <2>3, HalfOfBall DEF HalfHidden
  <2>5. /\ hides' \in Seq(HideMessages) /\ Len(hides') = Len(hides) - 1 /\ Len(hides) \in Nat
        /\ \A i \in 1 .. Len(hides') : hides'[i] = hides[i + 1]
    BY <2>1, HidesType, HeadTailProperties
  <2>6. OneCallback'
    <3>1. \A i \in 1 .. Len(hides') - 1 : hides'[i].late
      BY <2>5 DEF Inv, OneCallback
    <3>2. finger' = "down" \/ window' = "none" => \A i \in 1 .. Len(hides') : hides'[i].late
      BY <2>1, <2>5 DEF Inv, OneCallback
    <3> QED BY <3>1, <3>2 DEF OneCallback
  <2>7. TypeOK'
    <3>1. disturbed' \in BOOLEAN
      BY <2>1
    <3> QED BY <2>1, <2>4, <2>5, <3>1, Zenon DEF Inv, TypeOK, serviceVars
  <2>8. FingerOnBall'
    BY <2>1, <2>4 DEF Inv, FingerOnBall
  <2> QED BY <2>2, <2>6, <2>7, <2>8 DEF Inv
<1> QED BY <1>1, <1>2

-----------------------------------------------------------------------------
LEMMA StepInv == Inv /\ [Next]_vars => Inv'
<1> SUFFICES ASSUME Inv, [Next]_vars PROVE Inv'
  OBVIOUS
<1>1. CASE Killed
  BY <1>1, DeathKeepsInv DEF Killed
<1>2. CASE Restart \/ OnBtnClick \/ Rotate \/ Grant
  BY <1>2, RestartInv, ClickInv, RotateInv, GrantInv
<1>3. CASE Touch
  BY <1>3, DownInv, MoveInv, UpInv, CancelInv DEF Touch
<1>4. CASE MainLoop
  BY <1>4, ShowInv, AskInv, RemoveInv, GoneInv DEF MainLoop
<1>5. CASE Hide
  BY <1>5, HideInv
<1>6. CASE UNCHANGED vars
  <2>1. UNCHANGED <<process, serviceVars, window, width, ballVars>>
    BY <1>6 DEF vars
  <2>2. Alternate' /\ GoneWithProcess' /\ ServiceHasBall'
    BY <2>1, ServiceKept
  <2>3. TypeOK'
    BY <2>1, Zenon DEF Inv, TypeOK, serviceVars, ballVars
  <2>4. OneCallback' /\ FingerOnBall'
    BY <2>1 DEF ballVars, Inv, OneCallback, FingerOnBall, OnScreen
  <2> QED BY <2>2, <2>3, <2>4 DEF Inv
<1> QED BY <1>1, <1>2, <1>3, <1>4, <1>5, <1>6 DEF Next

THEOREM AlwaysInv == Spec => []Inv
BY InitInv, StepInv, PTL DEF Spec

\* A part of the ball is always in reach, on a display and for a ball of any
\* size (FloatBallManager.java, the docking, the half-hide and the moves).
THEOREM BallStaysInReach == Spec => []BallInReach
<1>1. Inv => BallInReach
  BY DEF Inv, FingerOnBall, BallInReach
<1> QED BY <1>1, AlwaysInv, PTL

\* Under a finger only a late half-hide message moves the ball.
LEMMA FingerStep ==
    ASSUME Inv, [Next]_vars, finger = "down", finger' = "down", x' # x, startX' = startX
    PROVE  hides # <<>> /\ Head(hides).late
<1>1. ~ UNCHANGED vars
  BY DEF vars, ballVars
<1>2. ~ Killed
  BY DEF Killed, Dies
<1>3. ~ Restart /\ ~ OnBtnClick /\ ~ Rotate /\ ~ Grant
  BY DEF Restart, OnBtnClick, Rotate, Grant, ballVars
<1>4. ~ MainLoop
  BY DEF MainLoop, ShowBall, AskPermission, RemoveBall, WindowGone, Throws, Dies, ballVars
<1>5. ~ Touch
  <2>1. \A f \in OnScreen : ~ Down(f) /\ ~ Move(f)
    BY DEF Down, Move
  <2>2. \A f \in OnScreen, far \in BOOLEAN : ~ Up(f, far)
    BY DEF Up
  <2> QED BY <2>1, <2>2 DEF Touch, Cancel
<1>6. Hide
  BY <1>1, <1>2, <1>3, <1>4, <1>5 DEF Next
<1>7. hides # <<>> /\ Len(hides) > 0 /\ hides \in Seq(HideMessages) /\ Len(hides) \in Nat
  BY <1>6, HidesType DEF Hide
<1>8. Head(hides) = hides[1]
  BY <1>7
<1> QED BY <1>7, <1>8 DEF Inv, OneCallback

\* ACTION_DOWN leaves no message behind that its window posted.
THEOREM FingerAlwaysKeepsBall == Spec => FingerKeepsBall
<1>1. Inv /\ [Next]_vars =>
         [finger = "down" /\ finger' = "down" /\ x' # x /\ startX' = startX =>
             hides # <<>> /\ Head(hides).late]_vars
  BY FingerStep
<1> QED BY <1>1, AlwaysInv, PTL DEF Spec, FingerKeepsBall

\* What an exception needs.
LEMMA CrashStep ==
    ASSUME Inv, [Next]_vars, Alive, process' = "crashed"
    PROVE  \/ refused \/ ~ permitted
           \/ window = "none" /\ hides # <<>> /\ Head(hides).late
<1>1. ~ UNCHANGED vars
  BY DEF vars, Alive
<1>2. ~ Killed /\ ~ Restart /\ ~ OnBtnClick /\ ~ Rotate /\ ~ Grant
  BY DEF Killed, Dies, Restart, OnBtnClick, Rotate, Grant, Alive
<1>3. ~ Touch
  <2>1. \A f \in OnScreen : ~ Down(f) /\ ~ Move(f)
    BY DEF Down, Move, Alive
  <2>2. \A f \in OnScreen, far \in BOOLEAN : ~ Up(f, far)
    BY DEF Up, Alive
  <2> QED BY <2>1, <2>2 DEF Touch, Cancel, Alive
<1>4. CASE Hide
  <2>1. window = "none"
    BY <1>4 DEF Hide, Alive
  <2>2. hides # <<>> /\ Len(hides) > 0 /\ hides \in Seq(HideMessages) /\ Len(hides) \in Nat
    BY <1>4, HidesType DEF Hide
  <2>3. Head(hides) = hides[1]
    BY <2>2
  <2> QED BY <2>1, <2>2, <2>3 DEF Inv, OneCallback
<1>5. CASE MainLoop
  <2>1. ~ WindowGone
    BY DEF WindowGone, Alive
  <2>2. messages # <<>> => Head(messages) = messages[1]
    BY DEF Inv, TypeOK
  <2>3. CASE ShowBall
    <3>1. window = "shown"
      BY <2>3 DEF ShowBall, Alive
    <3>2. ~ Exists
      BY <2>2, <2>3 DEF ShowBall, Exists
    <3> QED BY <3>1, <3>2 DEF Inv, ServiceHasBall
  <2>4. CASE AskPermission
    BY <2>4 DEF AskPermission
  <2>5. CASE RemoveBall
    <3>1. window = "none"
      BY <2>5 DEF RemoveBall, Alive
    <3>2. Exists
      BY <2>2, <2>5 DEF RemoveBall, Exists
    <3> QED BY <3>1, <3>2 DEF Inv, ServiceHasBall
  <2> QED BY <1>5, <2>1, <2>3, <2>4, <2>5 DEF MainLoop
<1> QED BY <1>1, <1>2, <1>3, <1>4, <1>5 DEF Next

\* The service removes no ball it did not show, and shows none twice.
THEOREM CrashAlwaysNeedsLateHide == Spec => CrashNeedsLateHide
<1>1. Inv /\ [Next]_vars =>
         [Alive /\ process' = "crashed" =>
             \/ refused \/ ~ permitted
             \/ window = "none" /\ hides # <<>> /\ Head(hides).late]_vars
  BY CrashStep
<1> QED BY <1>1, AlwaysInv, PTL DEF Spec, CrashNeedsLateHide
=============================================================================
