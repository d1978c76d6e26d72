------------------------------ MODULE Rc4Video ------------------------------
(***************************************************************************)
(* The RC4Encrypt app, as far as it calls RC4: its H264EncodeThread        *)
(* encrypts the key frames it takes from the codec and puts packets in the *)
(* queue of its H264DecodeThread, which decrypts and feeds its decoder;    *)
(* a click on the main thread encrypts or decrypts the text on the screen. *)
(* The rest of the two threads is as in EncodeThread and DecodeThread.     *)
(*                                                                         *)
(* A payload is the list of the key streams it was combined with: none is  *)
(* plain text, and the same stream twice is none.                          *)
(***************************************************************************)
EXTENDS Rc4

CONSTANTS
  FrameLen, TextLen,   \* bytes of a key frame's payload, of the text
  QueueSize,           \* capacity of the decoder's mQueue (5)
  MaxUnits, MaxClicks  \* bounds: outputs of the codec, clicks

ASSUME VideoAssumption == /\ Thread = {"encoder", "decoder", "main"}
                          /\ Lengths = {FrameLen, TextLen}
                          /\ QueueSize \in Nat \ {0} /\ MaxUnits \in Nat /\ MaxClicks \in Nat

VARIABLES
  encoder,   \* where the encoder thread is in its drain loop, ppsSps and the packet in hand
  mQueue,    \* of the decoder thread
  decoder,   \* the same for the decoder thread
  fed,       \* the packet the decoder was given last
  screen,    \* the text: isEncrypt, its payload, whether a call on it was raced
  units, clicks

videoVars == <<encoder, mQueue, decoder, fed, screen, units, clicks>>

NalType == {"parameters", "key", "slice"}    \* types 7 and 8, 5, 1

\* "first" is the type of the first NAL unit, "keyFrame" says whether a key frame is in it.
NoPacket == [first |-> "parameters", keyFrame |-> FALSE, payload |-> <<>>, raced |-> FALSE]

Xor(payload, keyStream) ==
  IF payload = <<keyStream>> THEN <<>> ELSE Append(payload, keyStream)

VideoInit ==
  /\ Rc4Init
  /\ encoder = [pc |-> "drain", ppsSps |-> FALSE, packet |-> NoPacket]
  /\ decoder = [pc |-> "take", packet |-> NoPacket]
  /\ mQueue = <<>>
  /\ fed = NoPacket
  /\ screen = [isEncrypt |-> FALSE, payload |-> <<>>, raced |-> FALSE]
  /\ units = 0 /\ clicks = 0

-----------------------------------------------------------------------------
\* The outer loop goes round: the parameter sets of the last round are forgotten.
NextOuterRound ==
  /\ encoder.pc = "drain" /\ encoder.ppsSps
  /\ encoder' = [encoder EXCEPT !.ppsSps = FALSE]
  /\ UNCHANGED <<rc4Vars, mQueue, decoder, fed, screen, units, clicks>>

\* The codec has put out a key frame: it is encrypted from its sixth byte on.
KeyFrameOut ==
  /\ encoder.pc = "drain" /\ units < MaxUnits
  /\ Begin("encoder", FrameLen)
  /\ encoder' = [encoder EXCEPT !.pc = "crypt"]
  /\ units' = units + 1
  /\ UNCHANGED <<mQueue, decoder, fed, screen, clicks>>

\* The parameter sets of this round are put in front of it.
KeyFrameEncrypted ==
  /\ encoder.pc = "crypt"
  /\ Return("encoder")
  /\ encoder' = [encoder EXCEPT
       !.pc = "put",
       !.packet = [first |-> IF encoder.ppsSps THEN "parameters" ELSE "key", keyFrame |-> TRUE,
                   payload |-> Xor(<<>>, locals["encoder"].keyStream), raced |-> raced["encoder"]]]
  /\ UNCHANGED <<mQueue, decoder, fed, screen, units, clicks>>

\* Parameter sets are kept and, like a slice, passed on as they are.
OtherUnitOut(type) ==
  /\ encoder.pc = "drain" /\ units < MaxUnits
  /\ encoder' = [pc |-> "put", ppsSps |-> encoder.ppsSps \/ type = "parameters",
                 packet |-> [NoPacket EXCEPT !.first = type]]
  /\ units' = units + 1
  /\ UNCHANGED <<rc4Vars, mQueue, decoder, fed, screen, clicks>>

\* onEncodeResult and setDecodeData
PutPacket ==
  /\ encoder.pc = "put" /\ Len(mQueue) < QueueSize
  /\ mQueue' = Append(mQueue, encoder.packet)
  /\ encoder' = [encoder EXCEPT !.pc = "drain", !.packet = NoPacket]
  /\ UNCHANGED <<rc4Vars, decoder, fed, screen, units, clicks>>

-----------------------------------------------------------------------------
\* mutation: packets that begin with parameter sets are taken for key frames too
IsKeyFrameOrParameters(packet) == packet.first # "slice"

\* The fifth byte of a packet tells a key frame (line 61).
IsKeyFrame(packet) == packet.first = "key"

TakePacket ==
  /\ decoder.pc = "take" /\ mQueue # <<>>
  /\ mQueue' = Tail(mQueue)
  /\ IF IsKeyFrame(Head(mQueue))
       THEN /\ Begin("decoder", FrameLen)
            /\ decoder' = [pc |-> "crypt", packet |-> Head(mQueue)]
            /\ UNCHANGED fed
       ELSE fed' = Head(mQueue) /\ UNCHANGED <<rc4Vars, decoder>>
  /\ UNCHANGED <<encoder, screen, units, clicks>>

FeedDecrypted ==
  /\ decoder.pc = "crypt"
  /\ Return("decoder")
  /\ decoder' = [pc |-> "take", packet |-> NoPacket]
  /\ fed' = [decoder.packet EXCEPT !.payload = Xor(@, locals["decoder"].keyStream),
                                   !.raced = @ \/ raced["decoder"]]
  /\ UNCHANGED <<encoder, mQueue, screen, units, clicks>>

-----------------------------------------------------------------------------
\* onClick: encrypt the text or decrypt it, in turn.
Click ==
  /\ clicks < MaxClicks
  /\ Begin("main", TextLen)
  /\ clicks' = clicks + 1
  /\ UNCHANGED <<encoder, mQueue, decoder, fed, screen, units>>

ClickEnds ==
  /\ Return("main")
  /\ screen' = [isEncrypt |-> ~screen.isEncrypt,
                payload |-> Xor(screen.payload, locals["main"].keyStream),
                raced |-> screen.raced \/ raced["main"]]
  /\ UNCHANGED <<encoder, mQueue, decoder, fed, units, clicks>>

-----------------------------------------------------------------------------
VideoNext ==
  \/ NextOuterRound
  \/ KeyFrameOut
  \/ KeyFrameEncrypted
  \/ \E type \in {"parameters", "slice"} : OtherUnitOut(type)
  \/ PutPacket
  \/ TakePacket
  \/ FeedDecrypted
  \/ Click
  \/ ClickEnds
  \/ \E p \in Thread : Rc4Step(p) /\ UNCHANGED videoVars

VideoSpec == VideoInit /\ [][VideoNext]_<<rc4Vars, videoVars>>

-----------------------------------------------------------------------------
\* What the decoder is fed and the text shows.  A packet that begins with its key frame, whose
\* encryption and decryption no other thread's call overlapped, is plain text again; parameter
\* sets and slices are never touched; and the text comes back after every second click, unless
\* a thread got in between.
PlainTextComesBack ==
  /\ fed.first = "key" /\ ~fed.raced => fed.payload = <<>>
  /\ ~fed.keyFrame => fed.payload = <<>>
  /\ ~screen.raced => (screen.payload = <<>> <=> ~screen.isEncrypt)

\* The comment at H264DecodeThread.java:58: key frames are told from others and decoded after
\* they were decrypted.  Violated: a key frame packed behind parameter sets
\* (H264EncodeThread.java:107-110) is not recognised by the fifth byte of its packet.
KeyFramesAreDecrypted == fed.keyFrame /\ ~fed.raced => fed.payload = <<>>
=============================================================================
