-------------------------------- MODULE Rc4 ---------------------------------
(***************************************************************************)
(* NativeRC4.cpp: RC4 on byte arrays, as any number of threads call it.    *)
(* Encryption and decryption are the same steps.  The permutation S is a   *)
(* global array without a lock, and every call starts it afresh; the key   *)
(* array T is global too, but every caller of the app passes no key, so    *)
(* all calls write the default key's bytes to T before they read it.       *)
(*                                                                         *)
(* A step is one access to S, or a few in a row that only read.  The       *)
(* variable own is not in the code: it is the textbook RC4 that runs       *)
(* beside each call on an array of its own.                                *)
(***************************************************************************)
EXTENDS Integers, Sequences

CONSTANTS
  Thread,
  N,         \* size of S (256)
  T,         \* the key array once filled
  Lengths    \* the numbers of bytes callers pass

ASSUME NAssumption == N \in Nat \ {0}
ASSUME TAssumption == T \in [0..(N - 1) -> 0..(N - 1)]
ASSUME LengthsAssumption == Lengths \subseteq Nat

VARIABLES
  S,
  locals,   \* of each thread: where it is in a call, and the locals
  own,      \* the same call with an array of its own
  raced     \* another thread was in a call during this one

rc4Vars == <<S, locals, own, raced>>

Index == 0..(N - 1)
Byte == 0..(N - 1)

Pc ==
  {"idle",
   "init",     \* init_S, about to write cell i
   "index",    \* about to compute j
   "move",     \* about to read S[j] and write it
   "put",      \* about to write S[i]
   "emit",     \* create_key_stream, about to read the next byte
   "xor"}      \* the key stream is complete

Phase == {"permute", "stream"}

Rc4TypeOK ==
  /\ S \in [Index -> Byte]
  /\ locals \in [Thread -> [pc : Pc, phase : Phase, len : Lengths \cup {0}, i : Index, j : Index,
                          tmp : Byte, keyStream : Seq(Byte)]]
  /\ own \in [Thread -> [S : [Index -> Byte], j : Index, keyStream : Seq(Byte)]]
  /\ raced \in [Thread -> BOOLEAN]

Identity == [k \in Index |-> k]
Swapped(s, x, y) == [s EXCEPT ![x] = s[y], ![y] = s[x]]

NoCall == [pc |-> "idle", phase |-> "permute", len |-> 0, i |-> 0, j |-> 0, tmp |-> 0,
           keyStream |-> <<>>]
FreshArray == [S |-> Identity, j |-> 0, keyStream |-> <<>>]

Rc4Init ==
  /\ S = [k \in Index |-> 0]
  /\ locals = [p \in Thread |-> NoCall]
  /\ own = [p \in Thread |-> FreshArray]
  /\ raced = [p \in Thread |-> FALSE]

InCall(p) == locals[p].pc \notin {"idle", "xor"}

\* nativeRc4Encrypt and nativeRc4Decrypt up to init_S.
Begin(p, len) ==
  LET others == {q \in Thread \ {p} : InCall(q)}
  IN  /\ locals[p].pc = "idle"
      /\ locals' = [locals EXCEPT ![p] = [NoCall EXCEPT !.pc = "init", !.len = len]]
      /\ raced' = [q \in Thread |-> IF q = p THEN others # {} ELSE raced[q] \/ q \in others]
      /\ UNCHANGED <<S, own>>

\* mutation: init_S leaves the last cell as it was
InitsAllButLast(p) ==
  LET c == locals[p]
  IN  /\ c.pc = "init"
      /\ S' = IF c.i + 1 < N THEN [S EXCEPT ![c.i] = c.i] ELSE S
      /\ locals' = [locals EXCEPT ![p] = IF c.i + 1 < N THEN [c EXCEPT !.i = c.i + 1]
                                     ELSE [c EXCEPT !.pc = "index", !.i = 0]]
      /\ UNCHANGED <<own, raced>>

InitCell(p) ==
  LET c == locals[p]
  IN  /\ c.pc = "init"
      /\ S' = [S EXCEPT ![c.i] = c.i]
      /\ locals' = [locals EXCEPT ![p] = IF c.i + 1 < N THEN [c EXCEPT !.i = c.i + 1]
                                     ELSE [c EXCEPT !.pc = "index", !.i = 0]]
      /\ UNCHANGED <<own, raced>>

\* The next cell, and the next index of the other cell, in either loop.
NextI(phase, i) == IF phase = "permute" THEN i ELSE (i + 1) % N
NextJ(phase, i, j, s) ==
  IF phase = "permute" THEN (j + s[i] + T[i]) % N ELSE (j + s[(i + 1) % N]) % N

ComputeIndex(p) ==
  LET c == locals[p]
  IN  /\ c.pc = "index"
      /\ locals' = [locals EXCEPT ![p] = [c EXCEPT !.pc = "move", !.i = NextI(c.phase, c.i),
                                               !.j = NextJ(c.phase, c.i, c.j, S)]]
      /\ own' = [own EXCEPT ![p].j = NextJ(c.phase, c.i, own[p].j, own[p].S)]
      /\ UNCHANGED <<S, raced>>

Move(p) ==
  LET c == locals[p]
  IN  /\ c.pc = "move"
      /\ S' = [S EXCEPT ![c.j] = S[c.i]]
      /\ locals' = [locals EXCEPT ![p] = [c EXCEPT !.pc = "put", !.tmp = S[c.j]]]
      /\ UNCHANGED <<own, raced>>

\* What follows the swap: the next cell of premute_S, the key stream when that was the last
\* cell, or the byte of the key stream.
AfterSwap(c) ==
  IF c.phase = "stream" THEN [c EXCEPT !.pc = "emit", !.tmp = 0]
  ELSE IF c.i + 1 < N THEN [c EXCEPT !.pc = "index", !.i = c.i + 1, !.tmp = 0]
  ELSE [c EXCEPT !.tmp = 0, !.pc = IF c.len = 0 THEN "xor" ELSE "index", !.phase = "stream",
                 !.i = 0, !.j = 0]

Put(p) ==
  LET c == locals[p]
      o == own[p]
  IN  /\ c.pc = "put"
      /\ S' = [S EXCEPT ![c.i] = c.tmp]
      /\ locals' = [locals EXCEPT ![p] = AfterSwap(c)]
      /\ own' = [own EXCEPT ![p] = [o EXCEPT !.S = Swapped(o.S, c.i, o.j),
                                             !.j = IF c.phase = "permute" /\ c.i + 1 = N
                                                     THEN 0 ELSE @]]
      /\ UNCHANGED raced

StreamByte(s, i, j) == s[(s[i] + s[j]) % N]

Emit(p) ==
  LET c == locals[p]
      out == Append(c.keyStream, StreamByte(S, c.i, c.j))
  IN  /\ c.pc = "emit"
      /\ locals' = [locals EXCEPT ![p] = [c EXCEPT !.keyStream = out,
                                               !.pc = IF Len(out) = c.len THEN "xor" ELSE "index"]]
      /\ own' = [own EXCEPT ![p].keyStream = Append(@, StreamByte(own[p].S, c.i, own[p].j))]
      /\ UNCHANGED <<S, raced>>

\* The bytes are combined with the key stream, the array is given back and the locals are gone.
Return(p) ==
  /\ locals[p].pc = "xor"
  /\ locals' = [locals EXCEPT ![p] = NoCall]
  /\ own' = [own EXCEPT ![p] = FreshArray]
  /\ raced' = [raced EXCEPT ![p] = FALSE]
  /\ UNCHANGED S

Rc4Step(p) ==
  InitCell(p) \/ ComputeIndex(p) \/ Move(p) \/ Put(p) \/ Emit(p)

Rc4Next == \E p \in Thread : (\E len \in Lengths : Begin(p, len)) \/ Rc4Step(p) \/ Return(p)

Rc4Spec == Rc4Init /\ [][Rc4Next]_rc4Vars

-----------------------------------------------------------------------------
\* The global array (lines 17-18): a call that no other thread overlapped produces the key
\* stream of RC4 on an array of its own, whatever earlier calls that raced left in S, so
\* two such calls with the same length produce the same stream and undo each other.
SoloCallIsExact ==
  \A p \in Thread : locals[p].pc = "xor" /\ ~raced[p] => locals[p].keyStream = own[p].keyStream
=============================================================================
