----------------------------- MODULE Rc4Proofs ------------------------------
(***************************************************************************)
(* A call of RC4 that no other call overlaps is exact, for every size of   *)
(* the permutation, every key and any number of threads: whatever calls    *)
(* that raced before left in S, init_S and the swaps rebuild it.  So what  *)
(* the RC4Encrypt app encrypts and decrypts in such calls is plain again.  *)
(***************************************************************************)
EXTENDS Rc4Video, TLAPS

\* Two calls that run at the same time know of each other.
RacesAreMarked ==
  \A p, q \in Thread : p # q /\ InCall(p) /\ InCall(q) => raced[p]

\* How the global array relates to the array of a call's own, at each of the call's steps.
Matches(p) ==
  LET c == locals[p]
      o == own[p]
  IN  /\ c.keyStream = o.keyStream
      /\ c.pc = "init" => /\ o = FreshArray /\ c.phase = "permute" /\ c.j = 0
                          /\ \A k \in Index : k < c.i => S[k] = k
      /\ c.pc \in {"index", "move", "put", "emit"} => c.j = o.j
      /\ c.pc \in {"index", "move", "emit"} => S = o.S
      /\ c.pc = "put" => S = [o.S EXCEPT ![c.j] = o.S[c.i]] /\ c.tmp = o.S[c.j]

Exact(p) == InCall(p) \/ locals[p].pc = "xor" => raced[p] \/ Matches(p)

Inv ==
  /\ Rc4TypeOK
  /\ RacesAreMarked
  /\ \A p \in Thread : locals[p].pc = "idle" => own[p] = FreshArray
  /\ \A p \in Thread : Exact(p)

LEMMA ModType == \A x \in Nat : x % N \in Index
BY NAssumption, SMT DEF Index

LEMMA InitInv == Rc4Init => Inv
BY NAssumption
DEF Rc4Init, Inv, Rc4TypeOK, RacesAreMarked, Exact, InCall, NoCall, FreshArray, Identity, Index,
    Byte, Pc, Phase

\* A step of one call leaves the others exact: those that run are marked as raced, those that
\* are complete do not look at S again.
LEMMA OthersStayExact ==
  ASSUME Inv, NEW p \in Thread, InCall(p), NEW q \in Thread, q # p,
         locals'[q] = locals[q], own'[q] = own[q], raced'[q] = raced[q]
  PROVE  Exact(q)'
<1>1. CASE InCall(q)
  BY <1>1 DEF Inv, RacesAreMarked, Exact, InCall
<1>2. CASE locals[q].pc = "xor"
  BY <1>2 DEF Inv, Exact, Matches, InCall
<1> QED BY <1>1, <1>2 DEF Exact, InCall

CallType == [pc : Pc, phase : Phase, len : Lengths \cup {0}, i : Index, j : Index,
             tmp : Byte, keyStream : Seq(Byte)]
OwnType == [S : [Index -> Byte], j : Index, keyStream : Seq(Byte)]

\* The updates of a call's locals and of its own array, by name.
SetI(c, x) == [c EXCEPT !.i = x]
SetPcI(c, pc, x) == [c EXCEPT !.pc = pc, !.i = x]
SetPcIJ(c, pc, x, y) == [c EXCEPT !.pc = pc, !.i = x, !.j = y]
SetPcTmp(c, pc, v) == [c EXCEPT !.pc = pc, !.tmp = v]
SetPcITmp(c, pc, x, v) == [c EXCEPT !.pc = pc, !.i = x, !.tmp = v]
SetStream(c, pc) == [c EXCEPT !.tmp = 0, !.pc = pc, !.phase = "stream", !.i = 0, !.j = 0]
SetKeyStream(c, ks, pc) == [c EXCEPT !.keyStream = ks, !.pc = pc]
SetOwnJ(o, x) == [o EXCEPT !.j = x]
SetOwnSJ(o, s, x) == [o EXCEPT !.S = s, !.j = x]
SetOwnKeyStream(o, ks) == [o EXCEPT !.keyStream = ks]

\* The fields of a call before and after an update of others.
SameFields(d, c) == d.len = c.len /\ d.phase = c.phase /\ d.keyStream = c.keyStream

LEMMA SetIFields ==
  ASSUME NEW c \in CallType, NEW x \in Index
  PROVE  /\ SetI(c, x) \in CallType /\ SameFields(SetI(c, x), c)
         /\ SetI(c, x).pc = c.pc /\ SetI(c, x).i = x /\ SetI(c, x).j = c.j
BY DEF CallType, SetI, SameFields

LEMMA SetPcIFields ==
  ASSUME NEW c \in CallType, NEW pc \in Pc, NEW x \in Index
  PROVE  /\ SetPcI(c, pc, x) \in CallType /\ SameFields(SetPcI(c, pc, x), c)
         /\ SetPcI(c, pc, x).pc = pc /\ SetPcI(c, pc, x).i = x /\ SetPcI(c, pc, x).j = c.j
BY DEF CallType, SetPcI, SameFields

LEMMA SetPcIJFields ==
  ASSUME NEW c \in CallType, NEW pc \in Pc, NEW x \in Index, NEW y \in Index
  PROVE  /\ SetPcIJ(c, pc, x, y) \in CallType /\ SameFields(SetPcIJ(c, pc, x, y), c)
         /\ SetPcIJ(c, pc, x, y).pc = pc /\ SetPcIJ(c, pc, x, y).i = x /\ SetPcIJ(c, pc, x, y).j = y
BY DEF CallType, SetPcIJ, SameFields

LEMMA SetPcTmpFields ==
  ASSUME NEW c \in CallType, NEW pc \in Pc, NEW v \in Byte
  PROVE  /\ SetPcTmp(c, pc, v) \in CallType /\ SameFields(SetPcTmp(c, pc, v), c)
         /\ SetPcTmp(c, pc, v).pc = pc /\ SetPcTmp(c, pc, v).i = c.i /\ SetPcTmp(c, pc, v).j = c.j
         /\ SetPcTmp(c, pc, v).tmp = v
BY DEF CallType, SetPcTmp, SameFields

LEMMA SetPcITmpFields ==
  ASSUME NEW c \in CallType, NEW pc \in Pc, NEW x \in Index, NEW v \in Byte
  PROVE  /\ SetPcITmp(c, pc, x, v) \in CallType /\ SameFields(SetPcITmp(c, pc, x, v), c)
         /\ SetPcITmp(c, pc, x, v).pc = pc /\ SetPcITmp(c, pc, x, v).i = x
         /\ SetPcITmp(c, pc, x, v).j = c.j
BY DEF CallType, SetPcITmp, SameFields

LEMMA SetStreamFields ==
  ASSUME NEW c \in CallType, NEW pc \in Pc, 0 \in Index, 0 \in Byte
  PROVE  /\ SetStream(c, pc) \in CallType /\ SetStream(c, pc).keyStream = c.keyStream
         /\ SetStream(c, pc).pc = pc /\ SetStream(c, pc).i = 0 /\ SetStream(c, pc).j = 0
BY DEF CallType, SetStream, Phase

LEMMA SetKeyStreamFields ==
  ASSUME NEW c \in CallType, NEW ks \in Seq(Byte), NEW pc \in Pc
  PROVE  /\ SetKeyStream(c, ks, pc) \in CallType /\ SetKeyStream(c, ks, pc).keyStream = ks
         /\ SetKeyStream(c, ks, pc).pc = pc /\ SetKeyStream(c, ks, pc).j = c.j
BY DEF CallType, SetKeyStream

LEMMA SetOwnJFields ==
  ASSUME NEW o \in OwnType, NEW x \in Index
  PROVE  /\ SetOwnJ(o, x) \in OwnType /\ SetOwnJ(o, x).S = o.S /\ SetOwnJ(o, x).j = x
         /\ SetOwnJ(o, x).keyStream = o.keyStream
BY DEF OwnType, SetOwnJ

LEMMA SetOwnSJFields ==
  ASSUME NEW o \in OwnType, NEW s \in [Index -> Byte], NEW x \in Index
  PROVE  /\ SetOwnSJ(o, s, x) \in OwnType /\ SetOwnSJ(o, s, x).S = s /\ SetOwnSJ(o, s, x).j = x
         /\ SetOwnSJ(o, s, x).keyStream = o.keyStream
BY DEF OwnType, SetOwnSJ

LEMMA SetOwnKeyStreamFields ==
  ASSUME NEW o \in OwnType, NEW ks \in Seq(Byte)
  PROVE  /\ SetOwnKeyStream(o, ks) \in OwnType /\ SetOwnKeyStream(o, ks).S = o.S
         /\ SetOwnKeyStream(o, ks).j = o.j /\ SetOwnKeyStream(o, ks).keyStream = ks
BY DEF OwnType, SetOwnKeyStream

\* What a step of thread p has to establish.
LEMMA StepInv ==
  ASSUME Inv, NEW p \in Thread, InCall(p),
         NEW c \in CallType, locals' = [locals EXCEPT ![p] = c], c.pc # "idle",
         NEW o \in OwnType, own' = [own EXCEPT ![p] = o],
         raced' = raced, S' \in [Index -> Byte],
         raced[p] \/ Matches(p)'
  PROVE  Inv'
<1>1. /\ locals'[p] = c /\ own'[p] = o
      /\ \A q \in Thread : q # p => locals'[q] = locals[q] /\ own'[q] = own[q]
  BY DEF Inv, Rc4TypeOK
<1>2. Rc4TypeOK'
  BY DEF Inv, Rc4TypeOK, CallType, OwnType
<1>3. RacesAreMarked'
  BY <1>1 DEF Inv, RacesAreMarked, InCall
<1>4. \A q \in Thread : Exact(q)'
  BY <1>1, OthersStayExact DEF Exact
<1> QED BY <1>1, <1>2, <1>3, <1>4 DEF Inv

LEMMA BeginInv ==
  ASSUME Inv, NEW p \in Thread, NEW len \in Lengths, Begin(p, len)
  PROVE  Inv'
<1> DEFINE c == [NoCall EXCEPT !.pc = "init", !.len = len]
<1>1. /\ locals[p].pc = "idle" /\ locals'[p] = c /\ own' = own /\ S' = S
      /\ \A q \in Thread : q # p => locals'[q] = locals[q]
      /\ own[p] = FreshArray
  BY DEF Inv, Rc4TypeOK, Begin
<1>2. /\ c \in CallType /\ c.pc = "init" /\ c.i = 0 /\ c.j = 0 /\ c.phase = "permute"
      /\ c.keyStream = <<>>
  <2>1. 0 \in Index /\ 0 \in Byte
    BY NAssumption DEF Index, Byte
  <2>2. NoCall \in CallType
    BY <2>1 DEF CallType, NoCall, Pc, Phase
  <2> QED BY <2>2 DEF CallType, NoCall, Pc
<1>3. Rc4TypeOK'
  BY <1>2 DEF Inv, Rc4TypeOK, CallType, Begin
<1>4. RacesAreMarked'
  BY <1>1 DEF Inv, Rc4TypeOK, RacesAreMarked, Begin, InCall
<1>5. Matches(p)'
  BY <1>1, <1>2 DEF Matches, FreshArray, Index
<1>6. \A q \in Thread : q # p => Exact(q)'
  <2> SUFFICES ASSUME NEW q \in Thread, q # p PROVE Exact(q)'
    OBVIOUS
  <2>1. raced[q] => raced'[q]
    BY DEF Begin, Inv, Rc4TypeOK
  <2>2. Exact(q) /\ (InCall(q)' <=> InCall(q)) /\ (Matches(q) => Matches(q)')
    BY <1>1 DEF Inv, InCall, Matches
  <2> QED BY <1>1, <2>1, <2>2 DEF Exact
<1>7. \A q \in Thread : locals'[q].pc = "idle" => own'[q] = FreshArray
  BY <1>1 DEF Inv
<1> QED BY <1>3, <1>4, <1>5, <1>6, <1>7 DEF Inv, Exact

LEMMA InitCellInv ==
  ASSUME Inv, NEW p \in Thread, InitCell(p)
  PROVE  Inv'
<1> PICK c : c = locals[p]
  OBVIOUS
<1>1. /\ c.pc = "init" /\ InCall(p) /\ c.i \in Index /\ c \in CallType /\ own[p] \in OwnType
      /\ S \in [Index -> Byte] /\ own'[p] = own[p] /\ own' = [own EXCEPT ![p] = own[p]]
      /\ raced' = raced
  BY DEF InitCell, InCall, Inv, Rc4TypeOK, CallType, OwnType
<1>2. S' = [S EXCEPT ![c.i] = c.i] /\ S' \in [Index -> Byte]
  BY <1>1 DEF InitCell, Index, Byte
<1>3. ~raced[p] => /\ own[p] = FreshArray /\ c.phase = "permute" /\ c.j = 0 /\ c.keyStream = <<>>
                   /\ \A k \in Index : k < c.i + 1 => S'[k] = k
  <2>1. ~raced[p] => own[p] = FreshArray /\ c.phase = "permute" /\ c.j = 0 /\ c.keyStream = <<>>
                     /\ \A k \in Index : k < c.i => S[k] = k
    BY <1>1 DEF Inv, Exact, Matches, FreshArray
  <2> QED BY <1>1, <1>2, <2>1 DEF Index
<1>4. CASE c.i + 1 < N
  <2> PICK d : d = SetI(c, c.i + 1)
    OBVIOUS
  <2>1. locals' = [locals EXCEPT ![p] = d] /\ locals'[p] = d
    BY <1>1, <1>4 DEF InitCell, Inv, Rc4TypeOK, SetI
  <2>2. d \in CallType /\ SameFields(d, c) /\ d.pc = "init" /\ d.i = c.i + 1 /\ d.j = c.j
    <3>1. c.i + 1 \in Index
      BY <1>1, <1>4, NAssumption DEF Index
    <3> QED BY <1>1, <3>1, SetIFields
  <2>3. raced[p] \/ Matches(p)'
    BY <1>1, <1>3, <2>1, <2>2 DEF Matches, FreshArray, SameFields
  <2> QED BY <1>1, <1>2, <2>1, <2>2, <2>3, StepInv
<1>5. CASE ~(c.i + 1 < N)
  <2> PICK d : d = SetPcI(c, "index", 0)
    OBVIOUS
  <2>1. locals' = [locals EXCEPT ![p] = d] /\ locals'[p] = d
    BY <1>1, <1>5 DEF InitCell, Inv, Rc4TypeOK, SetPcI
  <2>2. d \in CallType /\ SameFields(d, c) /\ d.pc = "index" /\ d.j = c.j
    <3>1. 0 \in Index /\ "index" \in Pc
      BY NAssumption DEF Index, Pc
    <3> QED BY <1>1, <3>1, SetPcIFields
  <2>3. ~raced[p] => S' = Identity
    <3>1. ~raced[p] => \A k \in Index : S'[k] = k
      BY <1>1, <1>3, <1>5, NAssumption DEF Index
    <3> QED BY <1>2, <3>1 DEF Identity
  <2>4. raced[p] \/ Matches(p)'
    BY <1>1, <1>3, <2>1, <2>2, <2>3 DEF Matches, FreshArray, SameFields
  <2> QED BY <1>1, <1>2, <2>1, <2>2, <2>4, StepInv
<1> QED BY <1>4, <1>5

LEMMA ComputeIndexInv ==
  ASSUME Inv, NEW p \in Thread, ComputeIndex(p)
  PROVE  Inv'
<1>c. PICK c : c = locals[p]
  OBVIOUS
<1>o. PICK o : o = own[p]
  OBVIOUS
<1>1. /\ c.pc = "index" /\ InCall(p) /\ c \in CallType /\ o \in OwnType
      /\ c.phase \in Phase /\ c.i \in Index /\ c.j \in Index /\ o.j \in Index
      /\ S \in [Index -> Byte] /\ o.S \in [Index -> Byte] /\ S' = S /\ raced' = raced
  BY <1>c, <1>o DEF ComputeIndex, InCall, Inv, Rc4TypeOK, CallType, OwnType
<1>2. (c.i + 1) % N \in Index /\ NextI(c.phase, c.i) \in Index
  <2>1. c.i + 1 \in Nat
    BY <1>1, NAssumption DEF Index
  <2> QED BY <1>1, <2>1, ModType DEF NextI
<1>3. \A s \in [Index -> Byte], j \in Index : NextJ(c.phase, c.i, j, s) \in Index
  <2> SUFFICES ASSUME NEW s \in [Index -> Byte], NEW j \in Index
               PROVE  NextJ(c.phase, c.i, j, s) \in Index
    OBVIOUS
  <2>1. T[c.i] \in Nat /\ s[c.i] \in Nat /\ s[(c.i + 1) % N] \in Nat /\ j \in Nat
    <3>1. T \in [Index -> Index]
      BY TAssumption DEF Index
    <3>2. T[c.i] \in Index /\ s[c.i] \in Byte /\ s[(c.i + 1) % N] \in Byte
      BY <1>1, <1>2, <3>1
    <3>3. \A x \in Index : x \in Nat
      BY NAssumption DEF Index
    <3>4. \A x \in Byte : x \in Nat
      BY NAssumption DEF Byte
    <3> QED BY <3>2, <3>3, <3>4
  <2>2. j + s[c.i] + T[c.i] \in Nat /\ j + s[(c.i + 1) % N] \in Nat
    BY <2>1
  <2> QED BY <2>2, ModType DEF NextJ
<1>x. PICK x : x = NextI(c.phase, c.i)
  OBVIOUS
<1>y. PICK y : y = NextJ(c.phase, c.i, c.j, S)
  OBVIOUS
<1>d. PICK d : d = SetPcIJ(c, "move", x, y)
  OBVIOUS
<1>e. PICK e : e = SetOwnJ(o, NextJ(c.phase, c.i, o.j, o.S))
  OBVIOUS
<1>4. locals' = [locals EXCEPT ![p] = d] /\ locals'[p] = d
  BY <1>c, <1>x, <1>y, <1>d DEF ComputeIndex, Inv, Rc4TypeOK, SetPcIJ
<1>5. own' = [own EXCEPT ![p] = e] /\ own'[p] = e
  BY <1>c, <1>o, <1>e DEF ComputeIndex, Inv, Rc4TypeOK, SetOwnJ
<1>6. /\ d \in CallType /\ SameFields(d, c) /\ d.pc = "move"
      /\ d.j = NextJ(c.phase, c.i, c.j, S)
  <2>1. "move" \in Pc
    BY DEF Pc
  <2>2. y \in Index /\ x \in Index
    BY <1>1, <1>2, <1>3, <1>x, <1>y
  <2>3. /\ SetPcIJ(c, "move", x, y) \in CallType /\ SameFields(SetPcIJ(c, "move", x, y), c)
        /\ SetPcIJ(c, "move", x, y).pc = "move" /\ SetPcIJ(c, "move", x, y).j = y
    <3>1. c \in CallType
      BY <1>1
    <3> QED BY <2>1, <2>2, <3>1, SetPcIJFields
  <2> QED BY <2>3, <1>d, <1>y
<1>7. e \in OwnType /\ e.S = o.S /\ e.keyStream = o.keyStream /\ e.j = NextJ(c.phase, c.i, o.j, o.S)
  <2>1. NextJ(c.phase, c.i, o.j, o.S) \in Index
    BY <1>1, <1>3
  <2> QED BY <1>1, <1>e, <2>1, SetOwnJFields
<1>8. raced[p] \/ Matches(p)'
  <2>1. raced[p] \/ (c.keyStream = o.keyStream /\ c.j = o.j /\ S = o.S)
    BY <1>1, <1>c, <1>o DEF Inv, Exact, Matches
  <2> QED BY <1>1, <1>4, <1>5, <1>6, <1>7, <2>1 DEF Matches, SameFields
<1> QED BY <1>1, <1>4, <1>5, <1>6, <1>7, <1>8, StepInv

LEMMA MoveInv ==
  ASSUME Inv, NEW p \in Thread, Move(p)
  PROVE  Inv'
<1>c. PICK c : c = locals[p]
  OBVIOUS
<1>o. PICK o : o = own[p]
  OBVIOUS
<1>1. /\ c.pc = "move" /\ InCall(p) /\ c \in CallType /\ o \in OwnType
      /\ c.i \in Index /\ c.j \in Index /\ S[c.j] \in Byte /\ S[c.i] \in Byte
      /\ S \in [Index -> Byte] /\ raced' = raced /\ own'[p] = o /\ own' = [own EXCEPT ![p] = o]
      /\ S' = [S EXCEPT ![c.j] = S[c.i]]
  BY <1>c, <1>o DEF Move, InCall, Inv, Rc4TypeOK, CallType, OwnType
<1>d. PICK d : d = SetPcTmp(c, "put", S[c.j])
  OBVIOUS
<1>2. locals' = [locals EXCEPT ![p] = d] /\ locals'[p] = d
  BY <1>c, <1>d DEF Move, Inv, Rc4TypeOK, SetPcTmp
<1>3. /\ d \in CallType /\ SameFields(d, c) /\ d.pc = "put"
      /\ d.i = c.i /\ d.j = c.j /\ d.tmp = S[c.j]
  <2>1. "put" \in Pc
    BY DEF Pc
  <2> QED BY <1>1, <1>d, <2>1, SetPcTmpFields
<1>4. S' \in [Index -> Byte]
  BY <1>1
<1>5. raced[p] \/ Matches(p)'
  <2>1. raced[p] \/ (c.keyStream = o.keyStream /\ c.j = o.j /\ S = o.S)
    BY <1>1, <1>c, <1>o DEF Inv, Exact, Matches
  <2> QED BY <1>1, <1>2, <1>3, <2>1 DEF Matches, SameFields
<1> QED BY <1>1, <1>2, <1>3, <1>4, <1>5, StepInv

LEMMA EmitInv ==
  ASSUME Inv, NEW p \in Thread, Emit(p)
  PROVE  Inv'
<1>c. PICK c : c = locals[p]
  OBVIOUS
<1>o. PICK o : o = own[p]
  OBVIOUS
<1>1. /\ c.pc = "emit" /\ InCall(p) /\ c \in CallType /\ o \in OwnType
      /\ c.i \in Index /\ c.j \in Index /\ o.j \in Index
      /\ c.keyStream \in Seq(Byte) /\ o.keyStream \in Seq(Byte) /\ o.S \in [Index -> Byte]
      /\ S \in [Index -> Byte] /\ S' = S /\ raced' = raced
  BY <1>c, <1>o DEF Emit, InCall, Inv, Rc4TypeOK, CallType, OwnType
<1>2. \A s \in [Index -> Byte], i \in Index, j \in Index : StreamByte(s, i, j) \in Byte
  <2> SUFFICES ASSUME NEW s \in [Index -> Byte], NEW i \in Index, NEW j \in Index
               PROVE  StreamByte(s, i, j) \in Byte
    OBVIOUS
  <2>1. s[i] + s[j] \in Nat
    BY NAssumption DEF Index, Byte
  <2> QED BY <2>1, ModType DEF StreamByte
<1>out. PICK out : out = Append(c.keyStream, StreamByte(S, c.i, c.j))
  OBVIOUS
<1>ownOut. PICK ownOut : ownOut = Append(o.keyStream, StreamByte(o.S, c.i, o.j))
  OBVIOUS
<1>3. out \in Seq(Byte) /\ ownOut \in Seq(Byte)
  BY <1>1, <1>2, <1>out, <1>ownOut
<1>pc. PICK pc : pc = IF Len(out) = c.len THEN "xor" ELSE "index"
  OBVIOUS
<1>d. PICK d : d = SetKeyStream(c, out, pc)
  OBVIOUS
<1>e. PICK e : e = SetOwnKeyStream(o, ownOut)
  OBVIOUS
<1>4. locals' = [locals EXCEPT ![p] = d] /\ locals'[p] = d
  BY <1>c, <1>out, <1>pc, <1>d DEF Emit, Inv, Rc4TypeOK, SetKeyStream
<1>5. own' = [own EXCEPT ![p] = e] /\ own'[p] = e
  BY <1>c, <1>o, <1>ownOut, <1>e DEF Emit, Inv, Rc4TypeOK, SetOwnKeyStream
<1>6. /\ d \in CallType /\ d.pc \in {"xor", "index"} /\ d.j = c.j /\ d.keyStream = out
  <2>1. pc \in {"xor", "index"} /\ pc \in Pc
    BY <1>pc DEF Pc
  <2>2. /\ SetKeyStream(c, out, pc) \in CallType /\ SetKeyStream(c, out, pc).keyStream = out
        /\ SetKeyStream(c, out, pc).pc = pc /\ SetKeyStream(c, out, pc).j = c.j
    <3>1. c \in CallType /\ out \in Seq(Byte)
      BY <1>1, <1>3
    <3> QED BY <2>1, <3>1, SetKeyStreamFields, Zenon
  <2> QED BY <1>d, <2>1, <2>2
<1>7. e \in OwnType /\ e.S = o.S /\ e.keyStream = ownOut /\ e.j = o.j
  BY <1>1, <1>3, <1>e, SetOwnKeyStreamFields
<1>8. raced[p] \/ Matches(p)'
  <2>1. raced[p] \/ (c.keyStream = o.keyStream /\ c.j = o.j /\ S = o.S)
    BY <1>1, <1>c, <1>o DEF Inv, Exact, Matches
  <2>2. raced[p] \/ out = ownOut
    BY <2>1, <1>out, <1>ownOut
  <2> QED BY <1>1, <1>4, <1>5, <1>6, <1>7, <2>1, <2>2 DEF Matches
<1> QED BY <1>1, <1>4, <1>5, <1>6, <1>7, <1>8, StepInv

LEMMA PutInv ==
  ASSUME Inv, NEW p \in Thread, Put(p)
  PROVE  Inv'
<1>c. PICK c : c = locals[p]
  OBVIOUS
<1>o. PICK o : o = own[p]
  OBVIOUS
<1>1. /\ c.pc = "put" /\ InCall(p) /\ c \in CallType /\ o \in OwnType
      /\ c.i \in Index /\ c.j \in Index /\ o.j \in Index /\ c.tmp \in Byte /\ c.phase \in Phase
      /\ o.S \in [Index -> Byte] /\ S \in [Index -> Byte] /\ raced' = raced
      /\ S' = [S EXCEPT ![c.i] = c.tmp]
  BY <1>c, <1>o DEF Put, InCall, Inv, Rc4TypeOK, CallType, OwnType
<1>2. 0 \in Index /\ 0 \in Byte
  BY NAssumption DEF Index, Byte
<1>s. PICK s : s = Swapped(o.S, c.i, o.j)
  OBVIOUS
<1>y. PICK y : y = IF c.phase = "permute" /\ c.i + 1 = N THEN 0 ELSE o.j
  OBVIOUS
<1>d. PICK d : d = AfterSwap(c)
  OBVIOUS
<1>e. PICK e : e = SetOwnSJ(o, s, y)
  OBVIOUS
<1>3. locals' = [locals EXCEPT ![p] = d] /\ locals'[p] = d
  BY <1>c, <1>d DEF Put, Inv, Rc4TypeOK
<1>4. own' = [own EXCEPT ![p] = e] /\ own'[p] = e
  BY <1>c, <1>o, <1>s, <1>y, <1>e DEF Put, Inv, Rc4TypeOK, SetOwnSJ, OwnType
<1>5. S' \in [Index -> Byte] /\ s \in [Index -> Byte] /\ y \in Index
  BY <1>1, <1>2, <1>s, <1>y DEF Swapped
<1>6. e \in OwnType /\ e.S = s /\ e.j = y /\ e.keyStream = o.keyStream
  <2>1. o \in OwnType /\ s \in [Index -> Byte] /\ y \in Index
    BY <1>1, <1>5
  <2>2. /\ SetOwnSJ(o, s, y) \in OwnType /\ SetOwnSJ(o, s, y).S = s /\ SetOwnSJ(o, s, y).j = y
        /\ SetOwnSJ(o, s, y).keyStream = o.keyStream
    BY <2>1, SetOwnSJFields, Zenon
  <2> QED BY <1>e, <2>2
<1>7. /\ d \in CallType /\ d.keyStream = c.keyStream /\ d.pc \in {"emit", "index", "xor"}
      /\ d.j = IF c.phase = "permute" /\ c.i + 1 = N THEN 0 ELSE c.j
  <2>1. /\ "emit" \in Pc /\ "index" \in Pc
        /\ (IF c.len = 0 THEN "xor" ELSE "index") \in Pc
    BY DEF Pc
  <2>2. CASE c.phase = "stream"
    <3>1. d = SetPcTmp(c, "emit", 0)
      BY <1>d, <2>2 DEF AfterSwap, SetPcTmp
    <3>2. SameFields(d, c) /\ d \in CallType /\ d.pc = "emit" /\ d.j = c.j
      <4>1. c \in CallType
        BY <1>1
      <4>2. /\ SameFields(SetPcTmp(c, "emit", 0), c) /\ SetPcTmp(c, "emit", 0) \in CallType
            /\ SetPcTmp(c, "emit", 0).pc = "emit" /\ SetPcTmp(c, "emit", 0).j = c.j
        BY <1>2, <2>1, <4>1, SetPcTmpFields
      <4> QED BY <3>1, <4>2
    <3> QED BY <2>2, <3>2 DEF SameFields
  <2>3. CASE c.phase # "stream" /\ c.i + 1 < N
    <3>1. d = SetPcITmp(c, "index", c.i + 1, 0)
      BY <1>d, <2>3 DEF AfterSwap, SetPcITmp
    <3>2. c.i + 1 \in Index /\ c.i + 1 # N
      BY <1>1, <2>3, NAssumption DEF Index
    <3>3. SameFields(d, c) /\ d \in CallType /\ d.pc = "index" /\ d.j = c.j
      <4>1. c \in CallType
        BY <1>1
      <4>x. PICK x : x = c.i + 1
        OBVIOUS
      <4>2. x \in Index
        BY <3>2, <4>x
      <4>3. /\ SameFields(SetPcITmp(c, "index", x, 0), c) /\ SetPcITmp(c, "index", x, 0) \in CallType
            /\ SetPcITmp(c, "index", x, 0).pc = "index" /\ SetPcITmp(c, "index", x, 0).j = c.j
        BY <1>2, <2>1, <4>1, <4>2, SetPcITmpFields
      <4> QED BY <3>1, <4>3, <4>x
    <3> QED BY <3>2, <3>3 DEF SameFields
  <2>4. CASE c.phase # "stream" /\ ~(c.i + 1 < N)
    <3>1. d = SetStream(c, IF c.len = 0 THEN "xor" ELSE "index")
      BY <1>d, <2>4 DEF AfterSwap, SetStream
    <3>2. c.i + 1 = N /\ c.phase = "permute"
      BY <1>1, <2>4, NAssumption DEF Index, Phase
    <3>3. (IF c.len = 0 THEN "xor" ELSE "index") \in {"xor", "index"}
      OBVIOUS
    <3> QED BY <1>1, <1>2, <2>1, <3>1, <3>2, <3>3, SetStreamFields
  <2> QED BY <2>2, <2>3, <2>4
<1>8. raced[p] \/ Matches(p)'
  <2>1. raced[p] \/ /\ c.keyStream = o.keyStream /\ c.j = o.j
                    /\ S = [o.S EXCEPT ![c.j] = o.S[c.i]] /\ c.tmp = o.S[c.j]
    BY <1>1, <1>c, <1>o DEF Inv, Exact, Matches
  <2>2. raced[p] \/ S' = s
    <3>f. PICK f : f = o.S
      OBVIOUS
    <3>1. f \in [Index -> Byte] /\ S \in [Index -> Byte] /\ c.i \in Index /\ c.j \in Index
      BY <1>1, <3>f
    <3>2. S' = [S EXCEPT ![c.i] = c.tmp] /\ s = Swapped(f, c.i, o.j)
      BY <1>1, <1>s, <3>f
    <3>3. raced[p] \/ (c.j = o.j /\ S = [f EXCEPT ![c.j] = f[c.i]] /\ c.tmp = f[c.j])
      BY <2>1, <3>f
    <3> QED BY <3>1, <3>2, <3>3 DEF Swapped
  <2> QED BY <1>3, <1>4, <1>6, <1>7, <1>y, <2>1, <2>2 DEF Matches
<1> QED BY <1>1, <1>3, <1>4, <1>5, <1>6, <1>7, <1>8, StepInv

LEMMA ReturnInv ==
  ASSUME Inv, NEW p \in Thread, Return(p)
  PROVE  Inv'
<1>1. 0 \in Index /\ 0 \in Byte
  BY NAssumption DEF Index, Byte
<1>2. NoCall \in CallType /\ NoCall.pc = "idle"
  BY <1>1 DEF CallType, NoCall, Pc, Phase
<1>3. FreshArray \in OwnType
  BY <1>1 DEF OwnType, FreshArray, Identity, Index, Byte
<1>4. /\ locals'[p] = NoCall /\ own'[p] = FreshArray /\ raced'[p] = FALSE /\ S' = S
      /\ \A q \in Thread : q # p => locals'[q] = locals[q] /\ own'[q] = own[q] /\ raced'[q] = raced[q]
  BY DEF Return, Inv, Rc4TypeOK
<1>5. Rc4TypeOK'
  BY <1>2, <1>3, <1>4 DEF Inv, Rc4TypeOK, CallType, OwnType, Return
<1>6. RacesAreMarked'
  BY <1>2, <1>4 DEF Inv, RacesAreMarked, InCall
<1>7. \A q \in Thread : Exact(q)'
  BY <1>2, <1>4 DEF Inv, Exact, Matches, InCall
<1>8. \A q \in Thread : locals'[q].pc = "idle" => own'[q] = FreshArray
  BY <1>4 DEF Inv
<1> QED BY <1>5, <1>6, <1>7, <1>8 DEF Inv

LEMMA StutterInv ==
  ASSUME Inv, UNCHANGED rc4Vars
  PROVE  Inv'
BY DEF Inv, rc4Vars, Rc4TypeOK, RacesAreMarked, Exact, Matches, InCall

LEMMA NextInv ==
  ASSUME Inv, [Rc4Next]_rc4Vars
  PROVE  Inv'
<1>1. CASE Rc4Next
  BY <1>1, BeginInv, InitCellInv, ComputeIndexInv, MoveInv, PutInv, EmitInv, ReturnInv
  DEF Rc4Next, Rc4Step
<1>2. CASE UNCHANGED rc4Vars
  BY <1>2, StutterInv
<1> QED BY <1>1, <1>2

LEMMA InvImplies == Inv => Rc4TypeOK /\ SoloCallIsExact
BY DEF Inv, SoloCallIsExact, Exact, Matches

\* Any number of threads that call nativeRc4Encrypt and nativeRc4Decrypt at any time, with any
\* key and a permutation of any size: a call that no other one overlapped is the textbook's.
THEOREM SoloCallsAreExact == Rc4Spec => [](Rc4TypeOK /\ SoloCallIsExact)
<1>1. Rc4Init => Inv
  BY InitInv
<1>2. Inv /\ [Rc4Next]_rc4Vars => Inv'
  BY NextInv
<1>3. Inv => Rc4TypeOK /\ SoloCallIsExact
  BY InvImplies
<1> QED BY <1>1, <1>2, <1>3, PTL DEF Rc4Spec

\* The app calls RC4 in no other way than Rc4Spec allows.
LEMMA VideoStepIsRc4Step == VideoNext => [Rc4Next]_rc4Vars
<1> SUFFICES ASSUME VideoNext PROVE [Rc4Next]_rc4Vars
  OBVIOUS
<1>1. /\ "encoder" \in Thread /\ "decoder" \in Thread /\ "main" \in Thread
      /\ FrameLen \in Lengths /\ TextLen \in Lengths
  BY VideoAssumption
<1>2. CASE NextOuterRound \/ PutPacket \/ \E type \in {"parameters", "slice"} : OtherUnitOut(type)
  BY <1>2 DEF NextOuterRound, PutPacket, OtherUnitOut
<1>3. CASE KeyFrameOut \/ Click
  BY <1>1, <1>3 DEF KeyFrameOut, Click, Rc4Next
<1>4. CASE KeyFrameEncrypted \/ FeedDecrypted \/ ClickEnds
  BY <1>1, <1>4 DEF KeyFrameEncrypted, FeedDecrypted, ClickEnds, Rc4Next
<1>5. CASE TakePacket
  BY <1>1, <1>5 DEF TakePacket, Rc4Next
<1>6. CASE \E p \in Thread : Rc4Step(p) /\ UNCHANGED videoVars
  BY <1>6 DEF Rc4Next
<1> QED BY <1>2, <1>3, <1>4, <1>5, <1>6 DEF VideoNext

\* The RC4Encrypt app with its encoder, its decoder and its main thread, for every key, queue
\* size and length of frames and texts.
THEOREM VideoCallsAreExact == VideoSpec => []SoloCallIsExact
<1>1. VideoInit => Inv
  BY InitInv DEF VideoInit
<1>2. Inv /\ [VideoNext]_<<rc4Vars, videoVars>> => Inv'
  BY NextInv, VideoStepIsRc4Step
<1>3. Inv => SoloCallIsExact
  BY InvImplies
<1> QED BY <1>1, <1>2, <1>3, PTL DEF VideoSpec

-----------------------------------------------------------------------------
\* The textbook's key stream is one sequence, of which every call sees a beginning.

\* Where a call is in the textbook's computation.  A call that is complete is where a longer
\* one computes its next index.
Text == [pc : Pc, phase : Phase, i : Index, S : [Index -> Byte], j : Index, keyStream : Seq(Byte)]
At(p) ==
  [pc |-> IF locals[p].pc = "xor" THEN "index" ELSE locals[p].pc, phase |-> locals[p].phase,
   i |-> locals[p].i, S |-> own[p].S, j |-> own[p].j, keyStream |-> own[p].keyStream]

Beginning == [pc |-> "init", phase |-> "permute", i |-> 0, S |-> Identity, j |-> 0, keyStream |-> <<>>]

\* Its steps.
AfterInit(a) ==
  [pc |-> IF a.i + 1 < N THEN "init" ELSE "index", phase |-> a.phase,
   i |-> IF a.i + 1 < N THEN a.i + 1 ELSE 0, S |-> a.S, j |-> a.j, keyStream |-> a.keyStream]
AfterIndex(a) ==
  [pc |-> "move", phase |-> a.phase, i |-> NextI(a.phase, a.i), S |-> a.S,
   j |-> NextJ(a.phase, a.i, a.j, a.S), keyStream |-> a.keyStream]
AfterMove(a) ==
  [pc |-> "put", phase |-> a.phase, i |-> a.i, S |-> a.S, j |-> a.j, keyStream |-> a.keyStream]
AfterPut(a) ==
  LET last == a.phase = "permute" /\ a.i + 1 = N
  IN  [pc |-> IF a.phase = "stream" THEN "emit" ELSE "index",
       phase |-> IF last THEN "stream" ELSE a.phase,
       i |-> IF a.phase = "stream" THEN a.i ELSE IF last THEN 0 ELSE a.i + 1,
       S |-> Swapped(a.S, a.i, a.j), j |-> IF last THEN 0 ELSE a.j, keyStream |-> a.keyStream]
AfterEmit(a) ==
  [pc |-> "index", phase |-> a.phase, i |-> a.i, S |-> a.S, j |-> a.j,
   keyStream |-> Append(a.keyStream, StreamByte(a.S, a.i, a.j))]
After(a) ==
  IF a.pc = "init" THEN AfterInit(a)
  ELSE IF a.pc = "index" THEN AfterIndex(a)
  ELSE IF a.pc = "move" THEN AfterMove(a)
  ELSE IF a.pc = "put" THEN AfterPut(a)
  ELSE AfterEmit(a)

Prefix(s, t) == Len(s) <= Len(t) /\ \A k \in 1..Len(s) : s[k] = t[k]

\* The computation as far as any call has carried it.
IsRun(run) ==
  /\ run \in Seq(Text) /\ run # <<>> /\ run[1] = Beginning
  /\ \A k \in 1..(Len(run) - 1) : run[k + 1] = After(run[k])
  /\ \A j, k \in 1..Len(run) : j <= k => Prefix(run[j].keyStream, run[k].keyStream)

Continues(run, more) == Len(run) <= Len(more) /\ \A k \in 1..Len(run) : more[k] = run[k]

On(a, run) == \E k \in 1..Len(run) : a = run[k]
CallsOn(run) == \A p \in Thread : locals[p].pc # "idle" => On(At(p), run)

\* A key stream of len bytes that the textbook produces.
Produced(ks, len, run) == Len(ks) = len /\ \E k \in 1..Len(run) : ks = run[k].keyStream

LEMMA KeyStreamsAreTyped ==
  ASSUME NEW run \in Seq(Text), NEW k \in 1..Len(run)
  PROVE  run[k].keyStream \in Seq(Byte)
<1>1. run[k] \in Text OBVIOUS
<1> QED BY <1>1 DEF Text

\* There is one of each length.
LEMMA ProducedIsUnique ==
  ASSUME NEW run, IsRun(run), NEW len, NEW x, NEW y, Produced(x, len, run), Produced(y, len, run)
  PROVE  x = y
<1>1. PICK j \in 1..Len(run), k \in 1..Len(run) : x = run[j].keyStream /\ y = run[k].keyStream
  BY DEF Produced
<1>2. x \in Seq(Byte) /\ y \in Seq(Byte)
  BY <1>1, KeyStreamsAreTyped DEF IsRun
<1>3. Prefix(x, y) \/ Prefix(y, x)
  <2>1. j \in Int /\ k \in Int /\ (j <= k \/ k <= j) BY <1>1 DEF IsRun
  <2> QED BY <1>1, <2>1 DEF IsRun
<1> QED BY <1>2, <1>3 DEF Prefix, Produced

LEMMA ProducedStays ==
  ASSUME NEW run \in Seq(Text), NEW more \in Seq(Text), Continues(run, more)
  PROVE  /\ \A a : On(a, run) => On(a, more)
         /\ \A ks, len : Produced(ks, len, run) => Produced(ks, len, more)
<1>1. \A k \in 1..Len(run) : k \in 1..Len(more) /\ more[k] = run[k]
  BY DEF Continues
<1> QED BY <1>1 DEF On, Produced

\* The run goes on where it has ended.
LEMMA RunGrows ==
  ASSUME NEW run, IsRun(run), NEW a, On(a, run), After(a) \in Text,
         Prefix(a.keyStream, After(a).keyStream)
  PROVE  \E more : IsRun(more) /\ Continues(run, more) /\ On(After(a), more)
<1>1. PICK k \in 1..Len(run) : a = run[k] BY DEF On
<1>2. CASE k < Len(run)
  <2>1. run[k + 1] = After(a) /\ k + 1 \in 1..Len(run)
    BY <1>1, <1>2 DEF IsRun
  <2> QED BY <2>1 DEF On, Continues
<1>3. CASE k = Len(run)
  <2> DEFINE z == After(a)
             more == Append(run, z)
             n == Len(run)
  <2> HIDE DEF z
  <2>1. /\ more \in Seq(Text) /\ Len(more) = n + 1 /\ more[n + 1] = z /\ n \in Nat \ {0}
        /\ \A m \in 1..n : more[m] = run[m]
    BY <1>3 DEF IsRun, z
  <2> HIDE DEF more
  <2>2. \A m \in 1..(Len(more) - 1) : more[m + 1] = After(more[m])
    <3> SUFFICES ASSUME NEW m \in 1..n PROVE more[m + 1] = After(more[m]) BY <2>1
    <3>1. CASE m = n BY <1>1, <1>3, <2>1, <3>1 DEF z
    <3>2. CASE m < n BY <2>1, <3>2 DEF IsRun
    <3> QED BY <3>1, <3>2
  <2>3. \A j \in 1..n : Prefix(run[j].keyStream, z.keyStream)
    <3> SUFFICES ASSUME NEW j \in 1..n PROVE Prefix(run[j].keyStream, z.keyStream) OBVIOUS
    <3>1. /\ Prefix(run[j].keyStream, a.keyStream) /\ Prefix(a.keyStream, z.keyStream)
      BY <1>1, <1>3 DEF IsRun, z
    <3>2. run[j].keyStream \in Seq(Byte) /\ a.keyStream \in Seq(Byte) /\ z.keyStream \in Seq(Byte)
      <4>1. z.keyStream \in Seq(Byte) BY DEF Text, z
      <4> QED BY <1>1, <4>1, KeyStreamsAreTyped DEF IsRun
    <3> QED BY <3>1, <3>2 DEF Prefix
  <2>4. \A j, m \in 1..Len(more) : j <= m => Prefix(more[j].keyStream, more[m].keyStream)
    <3> SUFFICES ASSUME NEW j \in 1..(n + 1), NEW m \in 1..(n + 1), j <= m
                 PROVE  Prefix(more[j].keyStream, more[m].keyStream)
      BY <2>1
    <3>1. CASE m <= n
      <4>1. j \in 1..n /\ m \in 1..n BY <2>1, <3>1
      <4>2. more[j] = run[j] /\ more[m] = run[m] BY <2>1, <4>1
      <4> QED BY <4>1, <4>2 DEF IsRun
    <3>2. CASE m = n + 1 /\ j <= n BY <2>1, <2>3, <3>2
    <3>3. CASE m = n + 1 /\ j = n + 1
      <4>1. z.keyStream \in Seq(Byte) BY DEF Text, z
      <4> QED BY <2>1, <3>3, <4>1 DEF Prefix
    <3> QED BY <3>1, <3>2, <3>3
  <2>5. IsRun(more) BY <2>1, <2>2, <2>4 DEF IsRun
  <2>6. On(z, more) BY <2>1 DEF On
  <2> QED BY <2>1, <2>5, <2>6 DEF Continues, z
<1> QED BY <1>1, <1>2, <1>3

\* A step of a call is the textbook's next step, and leaves the other calls where they are.
StepsOn(p) ==
  /\ At(p)' = After(At(p))
  /\ Prefix(At(p).keyStream, At(p)'.keyStream)
  /\ locals[p].pc # "idle" /\ locals'[p].pc # "idle" /\ locals'[p].len = locals[p].len
  /\ \A q \in Thread : q # p => locals'[q] = locals[q] /\ At(q)' = At(q)

\* No byte of the key stream comes before the permutation is complete, and the last one
\* ends the call.
Measured(c) ==
  /\ c.phase = "permute" => c.keyStream = <<>>
  /\ c.pc = "emit" => c.phase = "stream"
  /\ c.pc = "xor" => Len(c.keyStream) = c.len
KeyStreamInv == \A p \in Thread : Measured(locals[p])

LEMMA InitCellSteps ==
  ASSUME Inv, Inv', NEW p \in Thread, InitCell(p), Measured(locals[p])
  PROVE  StepsOn(p) /\ Measured(locals'[p])
<1> DEFINE c == locals[p]
<1>1. /\ c.pc = "init" /\ c.keyStream \in Seq(Byte) /\ own[p].keyStream \in Seq(Byte)
      /\ locals'[p].pc = (IF c.i + 1 < N THEN "init" ELSE "index")
      /\ locals'[p].i = (IF c.i + 1 < N THEN c.i + 1 ELSE 0)
      /\ locals'[p].phase = c.phase /\ locals'[p].len = c.len /\ locals'[p].keyStream = c.keyStream
      /\ own'[p] = own[p]
  BY DEF InitCell, Inv, Rc4TypeOK
<1>2. \A q \in Thread : q # p => locals'[q] = locals[q] /\ At(q)' = At(q)
  BY DEF InitCell, Inv, Rc4TypeOK, At
<1>3. At(p)' = After(At(p))
  BY <1>1 DEF At, After, AfterInit
<1>4. Prefix(At(p).keyStream, At(p)'.keyStream)
  BY <1>1 DEF At, Prefix
<1>5. Measured(locals'[p]) BY <1>1 DEF Measured
<1> QED BY <1>1, <1>2, <1>3, <1>4, <1>5 DEF StepsOn

LEMMA ComputeIndexSteps ==
  ASSUME Inv, Inv', NEW p \in Thread, ComputeIndex(p), Measured(locals[p])
  PROVE  StepsOn(p) /\ Measured(locals'[p])
<1> DEFINE c == locals[p]
           o == own[p]
<1>1. /\ c.pc = "index" /\ c.keyStream \in Seq(Byte) /\ o.keyStream \in Seq(Byte)
      /\ locals'[p].pc = "move" /\ locals'[p].i = NextI(c.phase, c.i)
      /\ locals'[p].phase = c.phase /\ locals'[p].len = c.len /\ locals'[p].keyStream = c.keyStream
      /\ own'[p].S = o.S /\ own'[p].j = NextJ(c.phase, c.i, o.j, o.S)
      /\ own'[p].keyStream = o.keyStream
  BY DEF ComputeIndex, Inv, Rc4TypeOK
<1>2. \A q \in Thread : q # p => locals'[q] = locals[q] /\ At(q)' = At(q)
  BY DEF ComputeIndex, Inv, Rc4TypeOK, At
<1>3. At(p)' = After(At(p))
  BY <1>1 DEF At, After, AfterIndex
<1>4. Prefix(At(p).keyStream, At(p)'.keyStream)
  BY <1>1 DEF At, Prefix
<1>5. Measured(locals'[p]) BY <1>1 DEF Measured
<1> QED BY <1>1, <1>2, <1>3, <1>4, <1>5 DEF StepsOn

LEMMA MoveSteps ==
  ASSUME Inv, Inv', NEW p \in Thread, Move(p), Measured(locals[p])
  PROVE  StepsOn(p) /\ Measured(locals'[p])
<1> DEFINE c == locals[p]
<1>1. /\ c.pc = "move" /\ c.keyStream \in Seq(Byte) /\ own[p].keyStream \in Seq(Byte)
      /\ locals'[p].pc = "put" /\ locals'[p].i = c.i
      /\ locals'[p].phase = c.phase /\ locals'[p].len = c.len /\ locals'[p].keyStream = c.keyStream
      /\ own'[p] = own[p]
  BY DEF Move, Inv, Rc4TypeOK
<1>2. \A q \in Thread : q # p => locals'[q] = locals[q] /\ At(q)' = At(q)
  BY DEF Move, Inv, Rc4TypeOK, At
<1>3. At(p)' = After(At(p))
  BY <1>1 DEF At, After, AfterMove
<1>4. Prefix(At(p).keyStream, At(p)'.keyStream)
  BY <1>1 DEF At, Prefix
<1>5. Measured(locals'[p]) BY <1>1 DEF Measured
<1> QED BY <1>1, <1>2, <1>3, <1>4, <1>5 DEF StepsOn

LEMMA PutSteps ==
  ASSUME Inv, Inv', NEW p \in Thread, Put(p), Measured(locals[p])
  PROVE  StepsOn(p) /\ Measured(locals'[p])
<1> DEFINE c == locals[p]
           o == own[p]
           last == c.phase = "permute" /\ c.i + 1 = N
<1>1. /\ c.pc = "put" /\ c.keyStream \in Seq(Byte) /\ o.keyStream \in Seq(Byte)
      /\ c \in CallType /\ c.i \in 0..(N - 1) /\ c.phase \in {"permute", "stream"}
      /\ locals'[p] = AfterSwap(c)
      /\ own'[p].S = Swapped(o.S, c.i, o.j) /\ own'[p].j = (IF last THEN 0 ELSE o.j)
      /\ own'[p].keyStream = o.keyStream
  BY DEF Put, Inv, Rc4TypeOK, CallType, Index, Phase
<1>2. \A q \in Thread : q # p => locals'[q] = locals[q] /\ At(q)' = At(q)
  BY DEF Put, Inv, Rc4TypeOK, At
<1>3. /\ locals'[p].keyStream = c.keyStream /\ locals'[p].len = c.len
      /\ locals'[p].phase = (IF last THEN "stream" ELSE c.phase)
      /\ locals'[p].i = (IF c.phase = "stream" THEN c.i ELSE IF last THEN 0 ELSE c.i + 1)
      /\ locals'[p].pc = (IF c.phase = "stream" THEN "emit"
                        ELSE IF last /\ c.len = 0 THEN "xor" ELSE "index")
  <2>1. CASE c.phase = "stream"
    BY <1>1, <2>1 DEF AfterSwap, CallType
  <2>2. CASE c.phase # "stream" /\ c.i + 1 < N
    BY <1>1, <2>2, NAssumption DEF AfterSwap, CallType
  <2>3. CASE c.phase # "stream" /\ ~(c.i + 1 < N)
    <3>1. last BY <1>1, <2>3, NAssumption
    <3> QED BY <1>1, <2>3, <3>1 DEF AfterSwap, CallType
  <2> QED BY <2>1, <2>2, <2>3
<1>4. At(p)' = After(At(p))
  BY <1>1, <1>3 DEF At, After, AfterPut
<1>5. Measured(locals'[p])
  BY <1>1, <1>3 DEF Measured
<1>6. Prefix(At(p).keyStream, At(p)'.keyStream)
  BY <1>1 DEF At, Prefix
<1>7. c.pc # "idle" /\ locals'[p].pc # "idle" /\ locals'[p].len = c.len
  BY <1>1, <1>3
<1> QED BY <1>2, <1>4, <1>5, <1>6, <1>7 DEF StepsOn

LEMMA EmitSteps ==
  ASSUME Inv, Inv', NEW p \in Thread, Emit(p), Measured(locals[p])
  PROVE  StepsOn(p) /\ Measured(locals'[p])
<1> DEFINE c == locals[p]
           o == own[p]
           out == Append(c.keyStream, StreamByte(S, c.i, c.j))
<1>1. /\ c.pc = "emit" /\ c.keyStream \in Seq(Byte) /\ o.keyStream \in Seq(Byte)
      /\ locals'[p].pc = (IF Len(out) = c.len THEN "xor" ELSE "index") /\ locals'[p].i = c.i
      /\ locals'[p].phase = c.phase /\ locals'[p].len = c.len /\ locals'[p].keyStream = out
      /\ own'[p].S = o.S /\ own'[p].j = o.j
      /\ own'[p].keyStream = Append(o.keyStream, StreamByte(o.S, c.i, o.j))
  BY DEF Emit, Inv, Rc4TypeOK
<1>2. \A q \in Thread : q # p => locals'[q] = locals[q] /\ At(q)' = At(q)
  BY DEF Emit, Inv, Rc4TypeOK, At
<1>3. At(p)' = After(At(p))
  BY <1>1 DEF At, After, AfterEmit
<1>4. Prefix(At(p).keyStream, At(p)'.keyStream)
  BY <1>1 DEF At, Prefix
<1>5. Measured(locals'[p]) BY <1>1 DEF Measured
<1> QED BY <1>1, <1>2, <1>3, <1>4, <1>5 DEF StepsOn

LEMMA StepsAreText ==
  ASSUME Inv, Inv', KeyStreamInv, NEW p \in Thread, Rc4Step(p)
  PROVE  StepsOn(p) /\ At(p)' \in Text /\ KeyStreamInv'
<1>1. StepsOn(p) /\ Measured(locals'[p])
  BY InitCellSteps, ComputeIndexSteps, MoveSteps, PutSteps, EmitSteps DEF Rc4Step, KeyStreamInv
<1>2. At(p)' \in Text
  <2>1. locals'[p] \in CallType /\ own'[p] \in OwnType
    BY DEF Inv, Rc4TypeOK, CallType, OwnType
  <2>2. (IF locals'[p].pc = "xor" THEN "index" ELSE locals'[p].pc) \in Pc
    BY <2>1 DEF CallType, Pc
  <2> QED BY <2>1, <2>2 DEF At, Text, CallType, OwnType
<1> QED BY <1>1, <1>2 DEF StepsOn, KeyStreamInv

\* Whatever the calls do next, they stay on one run.
LEMMA CallsStayOn ==
  ASSUME Inv, Inv', KeyStreamInv, NEW run, IsRun(run), CallsOn(run), [Rc4Next]_rc4Vars
  PROVE  KeyStreamInv' /\ \E more : IsRun(more) /\ Continues(run, more) /\ CallsOn(more)'
<1>1. Continues(run, run) BY DEF Continues, IsRun
<1>2. CASE UNCHANGED rc4Vars
  <2>1. KeyStreamInv' BY <1>2 DEF rc4Vars, KeyStreamInv
  <2>2. CallsOn(run)' BY <1>2 DEF rc4Vars, CallsOn, At
  <2> QED BY <1>1, <2>1, <2>2
<1>3. ASSUME NEW p \in Thread, NEW len \in Lengths, Begin(p, len)
      PROVE  KeyStreamInv' /\ \E more : IsRun(more) /\ Continues(run, more) /\ CallsOn(more)'
  <2>1. /\ locals'[p] = [NoCall EXCEPT !.pc = "init", !.len = len]
        /\ \A q \in Thread : q # p => locals'[q] = locals[q]
        /\ own' = own /\ own[p] = FreshArray
    BY <1>3 DEF Begin, Inv, Rc4TypeOK
  <2>2. /\ locals'[p].pc = "init" /\ locals'[p].phase = "permute" /\ locals'[p].i = 0
        /\ locals'[p].keyStream = <<>>
    BY <2>1 DEF NoCall
  <2>3. KeyStreamInv'
    <3>1. Measured(locals'[p]) BY <2>2 DEF Measured
    <3> QED BY <2>1, <3>1 DEF KeyStreamInv
  <2>4. At(p)' = Beginning
    BY <2>1, <2>2 DEF At, Beginning, FreshArray
  <2>5. On(Beginning, run)
    <3>1. run[1] = Beginning /\ 1 \in 1..Len(run) BY DEF IsRun
    <3> QED BY <3>1 DEF On
  <2>6. CallsOn(run)'
    <3>1. \A q \in Thread : q # p => At(q)' = At(q) BY <2>1 DEF At
    <3> QED BY <2>1, <2>4, <2>5, <3>1 DEF CallsOn
  <2> QED BY <1>1, <2>3, <2>6
<1>4. ASSUME NEW p \in Thread, Return(p)
      PROVE  KeyStreamInv' /\ \E more : IsRun(more) /\ Continues(run, more) /\ CallsOn(more)'
  <2>1. /\ locals'[p] = NoCall /\ NoCall.pc = "idle" /\ NoCall.keyStream = <<>>
        /\ \A q \in Thread : q # p => locals'[q] = locals[q] /\ own'[q] = own[q]
    BY <1>4 DEF Return, Inv, Rc4TypeOK, NoCall
  <2>2. KeyStreamInv' BY <2>1 DEF KeyStreamInv, Measured
  <2>3. CallsOn(run)'
    <3>1. \A q \in Thread : q # p => At(q)' = At(q) BY <2>1 DEF At
    <3> QED BY <2>1, <3>1 DEF CallsOn
  <2> QED BY <1>1, <2>2, <2>3
<1>5. ASSUME NEW p \in Thread, Rc4Step(p)
      PROVE  KeyStreamInv' /\ \E more : IsRun(more) /\ Continues(run, more) /\ CallsOn(more)'
  <2>1. StepsOn(p) /\ At(p)' \in Text /\ KeyStreamInv' BY <1>5, StepsAreText
  <2> DEFINE a == At(p)
  <2>2. On(a, run) BY <2>1 DEF CallsOn, StepsOn
  <2>3. After(a) \in Text /\ Prefix(a.keyStream, After(a).keyStream) /\ At(p)' = After(a)
    BY <2>1 DEF StepsOn
  <2> HIDE DEF a
  <2>4. PICK more : IsRun(more) /\ Continues(run, more) /\ On(After(a), more)
    BY <2>2, <2>3, RunGrows
  <2>5. \A b : On(b, run) => On(b, more)
    BY <2>4, ProducedStays DEF IsRun
  <2>6. CallsOn(more)'
    <3> SUFFICES ASSUME NEW q \in Thread, locals'[q].pc # "idle" PROVE On(At(q)', more)
      BY DEF CallsOn
    <3>1. CASE q = p BY <2>3, <2>4, <3>1
    <3>2. CASE q # p
      <4>1. At(q)' = At(q) /\ locals[q].pc # "idle" BY <2>1, <3>2 DEF StepsOn
      <4>2. On(At(q), run) BY <4>1 DEF CallsOn
      <4> QED BY <2>5, <4>1, <4>2
    <3> QED BY <3>1, <3>2
  <2> QED BY <2>1, <2>4, <2>6
<1> QED BY <1>2, <1>3, <1>4, <1>5 DEF Rc4Next

-----------------------------------------------------------------------------
\* What the application does with the key streams.

Payload == Seq(Seq(Byte))
Packet == [first : NalType, keyFrame : BOOLEAN, payload : Payload, raced : BOOLEAN]

VideoTypeOK ==
  /\ encoder \in [pc : {"drain", "crypt", "put"}, ppsSps : BOOLEAN, packet : Packet]
  /\ decoder \in [pc : {"take", "crypt"}, packet : Packet]
  /\ mQueue \in Seq(Packet)
  /\ fed \in Packet
  /\ screen \in [isEncrypt : BOOLEAN, payload : Payload, raced : BOOLEAN]

\* The main thread passes the text, the others frames.
LenOf(p) == IF p = "main" THEN TextLen ELSE FrameLen
CallLengths == \A p \in Thread : locals[p].pc # "idle" => locals[p].len = LenOf(p)

Encrypted(payload, len, run) == \E ks : payload = <<ks>> /\ Produced(ks, len, run)

\* A packet on its way to the decoder: only key frames are encrypted, and every key frame.
OnItsWay(packet, run) ==
  /\ packet.first = "key" => packet.keyFrame
  /\ ~packet.keyFrame => packet.payload = <<>>
  /\ packet.keyFrame /\ ~packet.raced => Encrypted(packet.payload, FrameLen, run)

PacketsOn(run) ==
  /\ OnItsWay(encoder.packet, run)
  /\ \A k \in 1..Len(mQueue) : OnItsWay(mQueue[k], run)
  /\ decoder.pc = "crypt" => decoder.packet.first = "key" /\ OnItsWay(decoder.packet, run)

TextOn(run) ==
  ~screen.raced => IF screen.isEncrypt THEN Encrypted(screen.payload, TextLen, run)
                   ELSE screen.payload = <<>>

FedPlain ==
  /\ fed.first = "key" /\ ~fed.raced => fed.payload = <<>>
  /\ ~fed.keyFrame => fed.payload = <<>>

VideoInv ==
  /\ Inv /\ KeyStreamInv /\ VideoTypeOK /\ CallLengths /\ FedPlain
  /\ \E run : IsRun(run) /\ CallsOn(run) /\ PacketsOn(run) /\ TextOn(run)

LEMMA VideoInvImplies == VideoInv => PlainTextComesBack
<1> SUFFICES ASSUME VideoInv PROVE PlainTextComesBack OBVIOUS
<1>1. PICK run : TextOn(run) BY DEF VideoInv
<1>2. ~screen.raced => (screen.payload = <<>> <=> ~screen.isEncrypt)
  <2>1. CASE screen.isEncrypt BY <1>1, <2>1 DEF TextOn, Encrypted
  <2>2. CASE ~screen.isEncrypt BY <1>1, <2>2 DEF TextOn
  <2> QED BY <2>1, <2>2
<1> QED BY <1>2 DEF PlainTextComesBack, VideoInv, FedPlain

\* A call that was alone returns the key stream, and combining with it twice is nothing.
LEMMA SoloCallReturns ==
  ASSUME Inv, KeyStreamInv, CallLengths, NEW run, CallsOn(run), NEW p \in Thread,
         locals[p].pc = "xor", ~raced[p]
  PROVE  Produced(locals[p].keyStream, LenOf(p), run)
<1>1. locals[p].keyStream = own[p].keyStream BY DEF Inv, Exact, Matches
<1>2. Len(locals[p].keyStream) = LenOf(p) BY DEF KeyStreamInv, Measured, CallLengths
<1>3. PICK k \in 1..Len(run) : At(p) = run[k] BY DEF CallsOn, On
<1>4. run[k].keyStream = own[p].keyStream
  <2>1. At(p).keyStream = own[p].keyStream BY DEF At
  <2> QED BY <1>3, <2>1
<1> QED BY <1>1, <1>2, <1>4 DEF Produced

LEMMA EncryptingTwiceIsPlain ==
  ASSUME NEW run, IsRun(run), NEW len, NEW payload, NEW ks, Produced(ks, len, run)
  PROVE  /\ Encrypted(Xor(<<>>, ks), len, run)
         /\ Encrypted(payload, len, run) => Xor(payload, ks) = <<>>
<1>1. Xor(<<>>, ks) = <<ks>> BY DEF Xor
<1>2. ASSUME Encrypted(payload, len, run) PROVE Xor(payload, ks) = <<>>
  <2>1. PICK old : payload = <<old>> /\ Produced(old, len, run) BY <1>2 DEF Encrypted
  <2>2. old = ks BY <2>1, ProducedIsUnique
  <2> QED BY <2>1, <2>2 DEF Xor
<1> QED BY <1>1, <1>2 DEF Encrypted

LEMMA XorIsPayload ==
  ASSUME NEW payload \in Payload, NEW ks \in Seq(Byte)
  PROVE  Xor(payload, ks) \in Payload
BY DEF Xor, Payload

LEMMA StaysOnItsWay ==
  ASSUME NEW run \in Seq(Text), NEW more \in Seq(Text), Continues(run, more)
  PROVE  /\ \A packet : OnItsWay(packet, run) => OnItsWay(packet, more)
         /\ PacketsOn(run) => PacketsOn(more)
         /\ TextOn(run) => TextOn(more)
<1>1. \A payload, len : Encrypted(payload, len, run) => Encrypted(payload, len, more)
  BY ProducedStays DEF Encrypted
<1>2. \A packet : OnItsWay(packet, run) => OnItsWay(packet, more)
  BY <1>1 DEF OnItsWay
<1> QED BY <1>1, <1>2 DEF PacketsOn, TextOn

-----------------------------------------------------------------------------
\* The steps of the application.

\* What a step has to establish once the calls are known to stay on one run.
LEMMA VideoStep ==
  ASSUME VideoInv, [Rc4Next]_rc4Vars, VideoTypeOK', CallLengths', FedPlain',
         \A run : IsRun(run) /\ CallsOn(run) /\ PacketsOn(run) /\ TextOn(run)
                    => PacketsOn(run)' /\ TextOn(run)'
  PROVE  VideoInv'
<1>1. PICK run : IsRun(run) /\ CallsOn(run) /\ PacketsOn(run) /\ TextOn(run)
  BY DEF VideoInv
<1>2. Inv' BY NextInv DEF VideoInv
<1>3. KeyStreamInv' /\ \E more : IsRun(more) /\ Continues(run, more) /\ CallsOn(more)'
  BY <1>1, <1>2, CallsStayOn DEF VideoInv
<1>4. PICK more : IsRun(more) /\ Continues(run, more) /\ CallsOn(more)'
  BY <1>3
<1>5. PacketsOn(run)' /\ TextOn(run)' BY <1>1
<1>6. \A payload, len : Encrypted(payload, len, run) => Encrypted(payload, len, more)
  BY <1>1, <1>4, ProducedStays DEF Encrypted, IsRun
<1>7. \A packet : OnItsWay(packet, run) => OnItsWay(packet, more)
  BY <1>6 DEF OnItsWay
<1>8. PacketsOn(more)' BY <1>5, <1>7 DEF PacketsOn
<1>9. TextOn(more)' BY <1>5, <1>6 DEF TextOn
<1> QED BY <1>2, <1>3, <1>4, <1>8, <1>9 DEF VideoInv

LEMMA NoPacketIsPlain ==
  /\ NoPacket \in Packet
  /\ \A run : OnItsWay(NoPacket, run)
  /\ \A type \in {"parameters", "slice"} :
       /\ [NoPacket EXCEPT !.first = type] \in Packet
       /\ \A run : OnItsWay([NoPacket EXCEPT !.first = type], run)
<1>1. <<>> \in Payload BY DEF Payload
<1> QED BY <1>1 DEF NoPacket, Packet, NalType, OnItsWay

LEMMA VideoStarts == VideoInit => VideoInv
<1> SUFFICES ASSUME VideoInit PROVE VideoInv OBVIOUS
<1>1. Inv BY InitInv DEF VideoInit
<1>2. \A p \in Thread : locals[p] = NoCall /\ locals[p].pc = "idle" /\ locals[p].keyStream = <<>>
  BY DEF VideoInit, Rc4Init, NoCall
<1>3. KeyStreamInv /\ CallLengths BY <1>2 DEF KeyStreamInv, Measured, CallLengths
<1>4. <<>> \in Payload BY DEF Payload
<1>5. VideoTypeOK BY <1>4, NoPacketIsPlain DEF VideoInit, VideoTypeOK
<1>6. FedPlain BY DEF VideoInit, FedPlain, NoPacket
<1> DEFINE run == <<Beginning>>
<1>7. Beginning \in Text /\ Beginning.keyStream = <<>>
  <2>1. 0 \in Index /\ Identity \in [Index -> Byte]
    BY NAssumption DEF Index, Byte, Identity
  <2> QED BY <2>1 DEF Beginning, Text, Pc, Phase
<1>8. IsRun(run)
  <2>1. run \in Seq(Text) /\ Len(run) = 1 /\ run[1] = Beginning BY <1>7
  <2> HIDE DEF run
  <2>2. \A j, k \in 1..Len(run) : Prefix(run[j].keyStream, run[k].keyStream)
    BY <1>7, <2>1 DEF Prefix
  <2>3. \A k \in 1..(Len(run) - 1) : run[k + 1] = After(run[k]) BY <2>1
  <2>4. run # <<>> BY <2>1
  <2> QED BY <2>1, <2>2, <2>3, <2>4 DEF IsRun
<1>9. CallsOn(run) BY <1>2 DEF CallsOn
<1>10. PacketsOn(run) BY NoPacketIsPlain DEF PacketsOn, VideoInit
<1>11. TextOn(run) BY DEF TextOn, VideoInit
<1> QED BY <1>1, <1>3, <1>5, <1>6, <1>8, <1>9, <1>10, <1>11 DEF VideoInv

LEMMA NamesOfThreads ==
  /\ "encoder" \in Thread /\ "decoder" \in Thread /\ "main" \in Thread
  /\ FrameLen \in Lengths /\ TextLen \in Lengths
  /\ LenOf("encoder") = FrameLen /\ LenOf("decoder") = FrameLen /\ LenOf("main") = TextLen
BY VideoAssumption DEF LenOf

LEMMA BeginKeepsLengths ==
  ASSUME Inv, CallLengths, NEW p \in Thread, Begin(p, LenOf(p))
  PROVE  CallLengths'
<1>1. /\ locals'[p].len = LenOf(p)
      /\ \A q \in Thread : q # p => locals'[q] = locals[q]
  BY DEF Begin, Inv, Rc4TypeOK, NoCall
<1> QED BY <1>1 DEF CallLengths

LEMMA ReturnKeepsLengths ==
  ASSUME Inv, CallLengths, NEW p \in Thread, Return(p)
  PROVE  CallLengths'
<1>1. /\ locals'[p].pc = "idle"
      /\ \A q \in Thread : q # p => locals'[q] = locals[q]
  BY DEF Return, Inv, Rc4TypeOK, NoCall
<1> QED BY <1>1 DEF CallLengths

LEMMA KeyStreamIsBytes ==
  ASSUME Inv, NEW p \in Thread
  PROVE  locals[p].keyStream \in Seq(Byte) /\ raced[p] \in BOOLEAN
BY DEF Inv, Rc4TypeOK

\* Steps that call nothing.
LEMMA QuietSteps ==
  ASSUME VideoInv,
         NextOuterRound \/ PutPacket \/ \E type \in {"parameters", "slice"} : OtherUnitOut(type)
  PROVE  VideoInv'
<1>1. UNCHANGED <<rc4Vars, fed, screen>> /\ [Rc4Next]_rc4Vars
  BY DEF NextOuterRound, PutPacket, OtherUnitOut
<1>2. CallLengths' /\ FedPlain'
  BY <1>1 DEF VideoInv, CallLengths, FedPlain, rc4Vars
<1>3. \A run : TextOn(run) => TextOn(run)'
  BY <1>1 DEF TextOn
<1>4. ASSUME NextOuterRound PROVE VideoTypeOK' /\ \A run : PacketsOn(run) => PacketsOn(run)'
  <2>1. /\ encoder'.packet = encoder.packet /\ UNCHANGED <<mQueue, decoder, fed, screen>>
        /\ encoder' \in [pc : {"drain", "crypt", "put"}, ppsSps : BOOLEAN, packet : Packet]
    BY <1>4 DEF NextOuterRound, VideoInv, VideoTypeOK
  <2> QED BY <2>1 DEF VideoInv, VideoTypeOK, PacketsOn
<1>5. ASSUME PutPacket PROVE VideoTypeOK' /\ \A run : PacketsOn(run) => PacketsOn(run)'
  <2>1. /\ encoder'.packet = NoPacket /\ mQueue' = Append(mQueue, encoder.packet)
        /\ encoder' \in [pc : {"drain", "crypt", "put"}, ppsSps : BOOLEAN, packet : Packet]
        /\ encoder.packet \in Packet /\ mQueue \in Seq(Packet)
        /\ UNCHANGED <<decoder, fed, screen>>
    BY <1>5, NoPacketIsPlain DEF PutPacket, VideoInv, VideoTypeOK
  <2>2. mQueue' \in Seq(Packet) BY <2>1
  <2>3. VideoTypeOK' BY <2>1, <2>2 DEF VideoInv, VideoTypeOK
  <2>4. ASSUME NEW run, PacketsOn(run) PROVE PacketsOn(run)'
    <3>1. OnItsWay(NoPacket, run) BY NoPacketIsPlain
    <3>2. \A k \in 1..Len(mQueue') : OnItsWay(mQueue'[k], run)
      BY <2>1, <2>4 DEF PacketsOn
    <3> QED BY <2>1, <2>4, <3>1, <3>2 DEF PacketsOn
  <2> QED BY <2>3, <2>4
<1>6. ASSUME NEW type \in {"parameters", "slice"}, OtherUnitOut(type)
      PROVE  VideoTypeOK' /\ \A run : PacketsOn(run) => PacketsOn(run)'
  <2> DEFINE packet == [NoPacket EXCEPT !.first = type]
  <2>1. packet \in Packet /\ \A run : OnItsWay(packet, run) BY NoPacketIsPlain
  <2>2. /\ encoder'.packet = packet /\ UNCHANGED <<mQueue, decoder, fed, screen>>
        /\ encoder' = [pc |-> "put", ppsSps |-> encoder.ppsSps \/ type = "parameters",
                       packet |-> packet]
        /\ encoder.ppsSps \in BOOLEAN
    BY <1>6 DEF OtherUnitOut, VideoInv, VideoTypeOK
  <2> HIDE DEF packet
  <2>3. encoder' \in [pc : {"drain", "crypt", "put"}, ppsSps : BOOLEAN, packet : Packet]
    <3>1. (encoder.ppsSps \/ type = "parameters") \in BOOLEAN OBVIOUS
    <3> QED BY <2>1, <2>2, <3>1
  <2> QED BY <2>1, <2>2, <2>3 DEF VideoInv, VideoTypeOK, PacketsOn
<1> QED BY <1>1, <1>2, <1>3, <1>4, <1>5, <1>6, VideoStep

LEMMA StepsKeepText ==
  ASSUME VideoInv, UNCHANGED <<encoder, mQueue, decoder, fed, screen>>, [Rc4Next]_rc4Vars,
         CallLengths'
  PROVE  VideoInv'
<1>1. VideoTypeOK' /\ FedPlain' BY DEF VideoInv, VideoTypeOK, FedPlain
<1>2. \A run : PacketsOn(run) /\ TextOn(run) => PacketsOn(run)' /\ TextOn(run)'
  BY DEF PacketsOn, TextOn
<1> QED BY <1>1, <1>2, VideoStep

LEMMA KeyFrameOutKeeps ==
  ASSUME VideoInv, KeyFrameOut
  PROVE  VideoInv'
<1>1. Begin("encoder", FrameLen) /\ [Rc4Next]_rc4Vars
  BY NamesOfThreads DEF KeyFrameOut, Rc4Next
<1>2. CallLengths' BY <1>1, NamesOfThreads, BeginKeepsLengths DEF VideoInv
<1>3. /\ encoder' \in [pc : {"drain", "crypt", "put"}, ppsSps : BOOLEAN, packet : Packet]
      /\ encoder'.packet = encoder.packet /\ UNCHANGED <<mQueue, decoder, fed, screen>>
  BY DEF KeyFrameOut, VideoInv, VideoTypeOK
<1>4. VideoTypeOK' /\ FedPlain' BY <1>3 DEF VideoInv, VideoTypeOK, FedPlain
<1>5. \A run : PacketsOn(run) /\ TextOn(run) => PacketsOn(run)' /\ TextOn(run)'
  BY <1>3 DEF PacketsOn, TextOn
<1> QED BY <1>1, <1>2, <1>4, <1>5, VideoStep

LEMMA KeyFrameEncryptedKeeps ==
  ASSUME VideoInv, KeyFrameEncrypted
  PROVE  VideoInv'
<1> DEFINE ks == locals["encoder"].keyStream
           packet == [first |-> IF encoder.ppsSps THEN "parameters" ELSE "key", keyFrame |-> TRUE,
                      payload |-> Xor(<<>>, ks), raced |-> raced["encoder"]]
<1>1. Return("encoder") /\ [Rc4Next]_rc4Vars /\ locals["encoder"].pc = "xor"
  BY NamesOfThreads DEF KeyFrameEncrypted, Rc4Next, Return
<1>2. CallLengths' BY <1>1, NamesOfThreads, ReturnKeepsLengths DEF VideoInv
<1>3. packet \in Packet
  <2>1. ks \in Seq(Byte) /\ raced["encoder"] \in BOOLEAN /\ <<>> \in Payload
    BY NamesOfThreads, KeyStreamIsBytes DEF VideoInv, Payload
  <2>2. Xor(<<>>, ks) \in Payload BY <2>1, XorIsPayload
  <2> QED BY <2>1, <2>2 DEF Packet, NalType
<1>4. /\ encoder' = [encoder EXCEPT !.pc = "put", !.packet = packet]
      /\ UNCHANGED <<mQueue, decoder, fed, screen>>
  BY DEF KeyFrameEncrypted
<1>5. /\ packet.keyFrame = TRUE /\ packet.raced = raced["encoder"]
      /\ packet.payload = Xor(<<>>, ks)
  OBVIOUS
<1> HIDE DEF packet
<1>6. /\ encoder' \in [pc : {"drain", "crypt", "put"}, ppsSps : BOOLEAN, packet : Packet]
      /\ encoder'.packet = packet
  BY <1>3, <1>4 DEF VideoInv, VideoTypeOK
<1>7. VideoTypeOK' /\ FedPlain' BY <1>4, <1>6 DEF VideoInv, VideoTypeOK, FedPlain
<1>8. ASSUME NEW run, IsRun(run), CallsOn(run), PacketsOn(run), TextOn(run)
      PROVE  PacketsOn(run)' /\ TextOn(run)'
  <2>1. OnItsWay(packet, run)
    <3>1. CASE raced["encoder"] BY <1>5, <3>1 DEF OnItsWay
    <3>2. CASE ~raced["encoder"]
      <4>1. Produced(ks, FrameLen, run)
        BY <1>1, <1>8, <3>2, NamesOfThreads, SoloCallReturns DEF VideoInv
      <4>2. Encrypted(packet.payload, FrameLen, run)
        BY <1>5, <1>8, <4>1, EncryptingTwiceIsPlain
      <4> QED BY <1>5, <4>2 DEF OnItsWay
    <3> QED BY <3>1, <3>2
  <2> QED BY <1>4, <1>6, <1>8, <2>1 DEF PacketsOn, TextOn
<1> QED BY <1>1, <1>2, <1>7, <1>8, VideoStep

LEMMA TakePacketKeeps ==
  ASSUME VideoInv, TakePacket
  PROVE  VideoInv'
<1> DEFINE packet == Head(mQueue)
<1>1. /\ mQueue \in Seq(Packet) /\ mQueue # <<>> /\ mQueue' = Tail(mQueue)
      /\ UNCHANGED <<encoder, screen>>
  BY DEF TakePacket, VideoInv, VideoTypeOK
<1>2. packet \in Packet /\ packet = mQueue[1] /\ mQueue' \in Seq(Packet)
  BY <1>1
<1>3. \A k \in 1..Len(mQueue') : mQueue'[k] = mQueue[k + 1] /\ k + 1 \in 1..Len(mQueue)
  BY <1>1
<1>4. ASSUME NEW run, PacketsOn(run)
      PROVE  OnItsWay(packet, run) /\ \A k \in 1..Len(mQueue') : OnItsWay(mQueue'[k], run)
  <2>1. 1 \in 1..Len(mQueue) BY <1>1
  <2> QED BY <1>2, <1>3, <1>4, <2>1 DEF PacketsOn
<1>5. CASE IsKeyFrame(packet)
  <2>1. /\ Begin("decoder", FrameLen) /\ decoder' = [pc |-> "crypt", packet |-> packet]
        /\ fed' = fed /\ packet.first = "key"
    BY <1>5 DEF TakePacket, IsKeyFrame
  <2>2. [Rc4Next]_rc4Vars BY <2>1, NamesOfThreads DEF Rc4Next
  <2>3. CallLengths' BY <2>1, NamesOfThreads, BeginKeepsLengths DEF VideoInv
  <2> HIDE DEF packet
  <2>4. VideoTypeOK' BY <1>1, <1>2, <2>1 DEF VideoInv, VideoTypeOK
  <2>5. FedPlain' BY <2>1 DEF VideoInv, FedPlain
  <2>6. \A run : PacketsOn(run) /\ TextOn(run) => PacketsOn(run)' /\ TextOn(run)'
    BY <1>1, <1>4, <2>1 DEF PacketsOn, TextOn
  <2> QED BY <2>2, <2>3, <2>4, <2>5, <2>6, VideoStep
<1>6. CASE ~IsKeyFrame(packet)
  <2>1. UNCHANGED rc4Vars /\ decoder' = decoder /\ fed' = packet /\ packet.first # "key"
    BY <1>6 DEF TakePacket, IsKeyFrame
  <2>2. [Rc4Next]_rc4Vars /\ CallLengths' BY <2>1 DEF VideoInv, CallLengths, rc4Vars
  <2> HIDE DEF packet
  <2>3. VideoTypeOK' BY <1>1, <1>2, <2>1 DEF VideoInv, VideoTypeOK
  <2>4. FedPlain'
    <3>1. PICK run : PacketsOn(run) BY DEF VideoInv
    <3>2. OnItsWay(packet, run) BY <1>4, <3>1
    <3>3. ~packet.keyFrame => packet.payload = <<>> BY <3>2 DEF OnItsWay
    <3> QED BY <2>1, <3>3 DEF FedPlain
  <2>5. \A run : PacketsOn(run) /\ TextOn(run) => PacketsOn(run)' /\ TextOn(run)'
    BY <1>1, <1>4, <2>1 DEF PacketsOn, TextOn
  <2> QED BY <2>2, <2>3, <2>4, <2>5, VideoStep
<1> QED BY <1>5, <1>6

LEMMA FeedDecryptedKeeps ==
  ASSUME VideoInv, FeedDecrypted
  PROVE  VideoInv'
<1> DEFINE ks == locals["decoder"].keyStream
           packet == decoder.packet
           plain == [packet EXCEPT !.payload = Xor(@, ks), !.raced = @ \/ raced["decoder"]]
<1>1. Return("decoder") /\ [Rc4Next]_rc4Vars /\ locals["decoder"].pc = "xor"
  BY NamesOfThreads DEF FeedDecrypted, Rc4Next, Return
<1>2. CallLengths' BY <1>1, NamesOfThreads, ReturnKeepsLengths DEF VideoInv
<1>3. /\ decoder' = [pc |-> "take", packet |-> NoPacket] /\ fed' = plain
      /\ UNCHANGED <<encoder, mQueue, screen>> /\ decoder.pc = "crypt"
  BY DEF FeedDecrypted
<1>4. packet \in Packet /\ Xor(packet.payload, ks) \in Payload /\ raced["decoder"] \in BOOLEAN
  <2>1. ks \in Seq(Byte) /\ raced["decoder"] \in BOOLEAN
    BY NamesOfThreads, KeyStreamIsBytes DEF VideoInv
  <2>2. packet \in Packet /\ packet.payload \in Payload BY DEF VideoInv, VideoTypeOK, Packet
  <2> QED BY <2>1, <2>2, XorIsPayload
<1>5. /\ plain.first = packet.first /\ plain.keyFrame = packet.keyFrame
      /\ plain.payload = Xor(packet.payload, ks) /\ plain.raced = (packet.raced \/ raced["decoder"])
      /\ plain \in Packet
  BY <1>4 DEF Packet
<1>6. VideoTypeOK'
  <2> HIDE DEF plain
  <2> QED BY <1>3, <1>5, NoPacketIsPlain DEF VideoInv, VideoTypeOK
<1> HIDE DEF plain
<1>7. FedPlain'
  <2>1. PICK run : IsRun(run) /\ CallsOn(run) /\ PacketsOn(run) BY DEF VideoInv
  <2>2. packet.first = "key" /\ OnItsWay(packet, run) BY <1>3, <2>1 DEF PacketsOn
  <2>3. packet.keyFrame BY <2>2 DEF OnItsWay
  <2>4. ASSUME ~packet.raced, ~raced["decoder"] PROVE Xor(packet.payload, ks) = <<>>
    <3>1. Encrypted(packet.payload, FrameLen, run) BY <2>2, <2>3, <2>4 DEF OnItsWay
    <3>2. Produced(ks, FrameLen, run)
      BY <1>1, <2>1, <2>4, NamesOfThreads, SoloCallReturns DEF VideoInv
    <3> QED BY <2>1, <3>1, <3>2, EncryptingTwiceIsPlain
  <2> QED BY <1>3, <1>5, <2>2, <2>3, <2>4 DEF FedPlain
<1>8. \A run : PacketsOn(run) /\ TextOn(run) => PacketsOn(run)' /\ TextOn(run)'
  BY <1>3 DEF PacketsOn, TextOn
<1> QED BY <1>1, <1>2, <1>6, <1>7, <1>8, VideoStep

LEMMA ClickKeeps ==
  ASSUME VideoInv, Click
  PROVE  VideoInv'
<1>1. Begin("main", TextLen) /\ [Rc4Next]_rc4Vars
  BY NamesOfThreads DEF Click, Rc4Next
<1>2. CallLengths' BY <1>1, NamesOfThreads, BeginKeepsLengths DEF VideoInv
<1> QED BY <1>1, <1>2, StepsKeepText DEF Click

LEMMA ClickEndsKeeps ==
  ASSUME VideoInv, ClickEnds
  PROVE  VideoInv'
<1> DEFINE ks == locals["main"].keyStream
<1>1. Return("main") /\ [Rc4Next]_rc4Vars /\ locals["main"].pc = "xor"
  BY NamesOfThreads DEF ClickEnds, Rc4Next, Return
<1>2. CallLengths' BY <1>1, NamesOfThreads, ReturnKeepsLengths DEF VideoInv
<1>3. ks \in Seq(Byte) /\ raced["main"] \in BOOLEAN
  BY NamesOfThreads, KeyStreamIsBytes DEF VideoInv
<1>4. screen.payload \in Payload /\ screen.isEncrypt \in BOOLEAN /\ screen.raced \in BOOLEAN
  BY DEF VideoInv, VideoTypeOK
<1>5. Xor(screen.payload, ks) \in Payload BY <1>3, <1>4, XorIsPayload
<1>6. /\ screen' = [isEncrypt |-> ~screen.isEncrypt, payload |-> Xor(screen.payload, ks),
                    raced |-> screen.raced \/ raced["main"]]
      /\ UNCHANGED <<encoder, mQueue, decoder, fed>>
  BY DEF ClickEnds
<1>7. VideoTypeOK' /\ FedPlain'
  BY <1>3, <1>4, <1>5, <1>6 DEF VideoInv, VideoTypeOK, FedPlain
<1>8. ASSUME NEW run, IsRun(run), CallsOn(run), PacketsOn(run), TextOn(run)
      PROVE  PacketsOn(run)' /\ TextOn(run)'
  <2>1. ASSUME ~screen.raced, ~raced["main"]
        PROVE  IF screen.isEncrypt THEN Xor(screen.payload, ks) = <<>>
               ELSE Encrypted(Xor(screen.payload, ks), TextLen, run)
    <3>1. Produced(ks, TextLen, run)
      BY <1>1, <1>8, <2>1, NamesOfThreads, SoloCallReturns DEF VideoInv
    <3>2. CASE screen.isEncrypt
      <4>1. Encrypted(screen.payload, TextLen, run) BY <1>8, <2>1, <3>2 DEF TextOn
      <4> QED BY <1>8, <3>1, <3>2, <4>1, EncryptingTwiceIsPlain
    <3>3. CASE ~screen.isEncrypt
      <4>1. screen.payload = <<>> BY <1>8, <2>1, <3>3 DEF TextOn
      <4> QED BY <1>8, <3>1, <3>3, <4>1, EncryptingTwiceIsPlain
    <3> QED BY <3>2, <3>3
  <2>2. TextOn(run)' BY <1>4, <1>6, <2>1 DEF TextOn
  <2> QED BY <1>6, <1>8, <2>2 DEF PacketsOn
<1> QED BY <1>1, <1>2, <1>7, <1>8, VideoStep

LEMMA CipherStepKeeps ==
  ASSUME VideoInv, NEW p \in Thread, Rc4Step(p), UNCHANGED videoVars
  PROVE  VideoInv'
<1>1. Rc4Next BY DEF Rc4Next
<1>2. Inv' BY <1>1, NextInv DEF VideoInv
<1>3. StepsOn(p) BY <1>2, StepsAreText DEF VideoInv
<1>4. CallLengths' BY <1>3 DEF VideoInv, CallLengths, StepsOn
<1> QED BY <1>1, <1>4, StepsKeepText DEF videoVars

\* Frames and text of any length, queues and clicks of any number: a packet that begins with
\* its key frame and the text are plain again where they should be, if no race touched them, and
\* nothing that was not encrypted is ever decrypted.
THEOREM PlainTextAlwaysComesBack == VideoSpec => []PlainTextComesBack
<1>1. VideoInit => VideoInv
  BY VideoStarts
<1>2. VideoInv /\ [VideoNext]_<<rc4Vars, videoVars>> => VideoInv'
  <2> SUFFICES ASSUME VideoInv, [VideoNext]_<<rc4Vars, videoVars>> PROVE VideoInv'
    OBVIOUS
  <2>1. CASE UNCHANGED <<rc4Vars, videoVars>>
    <3>1. CallLengths' BY <2>1 DEF VideoInv, CallLengths, rc4Vars
    <3> QED BY <2>1, <3>1, StepsKeepText DEF videoVars
  <2>2. CASE VideoNext
    BY <2>2, QuietSteps, KeyFrameOutKeeps, KeyFrameEncryptedKeeps, TakePacketKeeps,
       FeedDecryptedKeeps, ClickKeeps, ClickEndsKeeps, CipherStepKeeps DEF VideoNext
  <2> QED BY <2>1, <2>2
<1>3. VideoInv => PlainTextComesBack
  BY VideoInvImplies
<1> QED BY <1>1, <1>2, <1>3, PTL DEF VideoSpec
=============================================================================
