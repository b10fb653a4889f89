---------------------------- MODULE FramePacking ----------------------------
(***************************************************************************)
(* The wire format of a frame (src/packing.go, the tables ulp20Table and   *)
(* ulp30Table of src/constants.go, and the packing and unpacking loops of  *)
(* encodeFrame and decodeFrame).  Every parameter of a frame is split over *)
(* three classes of sensitivity; all first parts are packed, then all      *)
(* second ones, then all third ones, and a final bit marks an empty frame. *)
(*                                                                         *)
(* A word is the set of its one-bits, each a pair of a position and a mark *)
(* that says where the bit came from.  In the frame that is packed every   *)
(* bit of every parameter is set and has a mark of its own, so what is     *)
(* shown for this frame holds for all values of the parameters.            *)
(***************************************************************************)
EXTENDS FrameMode, Sequences, FiniteSets

VARIABLES
  stage,   \* "pack", "unpack" or "done"
  values,  \* the parameters: what is left to pack, or unpacked so far
  ulp,     \* class being packed or unpacked (1 .. 3; 4 is the final bit)
  at,      \* position in the order of the parameters
  looping, \* inside dopack or unpack
  index,   \* their argument index ...
  bitno,   \* ... and bitno
  bytes,   \* the frame, and some bytes behind it
  byteAt,  \* the byte *bitstream points to
  pos      \* bits of that byte packed or unpacked

vars == <<mode, stage, values, ulp, at, looping, index, bitno, bytes, byteAt, pos>>
-----------------------------------------------------------------------------
\* The bits of a parameter in each class; the tables' other entries are 0.
ulp20 ==
  [lsf |-> << <<6, 0, 0>>, <<7, 0, 0>>, <<7, 0, 0>> >>,
   start |-> << <<2, 0, 0>> >>, first |-> << <<1, 0, 0>> >>,
   scale |-> << <<6, 0, 0>> >>,
   extraIndex |-> << <<6, 0, 1>>, <<0, 0, 7>>, <<0, 0, 7>> >>,
   extraGain |-> << <<2, 0, 3>>, <<1, 1, 2>>, <<0, 0, 3>> >>,
   cbIndex |-> << <<7, 0, 1>>, <<0, 0, 7>>, <<0, 0, 7>>,
                  <<0, 0, 8>>, <<0, 0, 8>>, <<0, 0, 8>> >>,
   cbGain |-> << <<1, 2, 2>>, <<1, 1, 2>>, <<0, 0, 3>>,
                 <<1, 1, 3>>, <<0, 2, 2>>, <<0, 0, 3>> >>]

ulp30 ==
  [lsf |-> << <<6, 0, 0>>, <<7, 0, 0>>, <<7, 0, 0>>,
              <<6, 0, 0>>, <<7, 0, 0>>, <<7, 0, 0>> >>,
   start |-> << <<3, 0, 0>> >>, first |-> << <<1, 0, 0>> >>,
   scale |-> << <<6, 0, 0>> >>,
   extraIndex |-> << <<4, 2, 1>>, <<0, 0, 7>>, <<0, 0, 7>> >>,
   extraGain |-> << <<1, 1, 3>>, <<1, 1, 2>>, <<0, 0, 3>> >>,
   cbIndex |-> << <<6, 1, 1>>, <<0, 0, 7>>, <<0, 0, 7>>,
                  <<0, 7, 1>>, <<0, 0, 8>>, <<0, 0, 8>>,
                  <<0, 7, 1>>, <<0, 0, 8>>, <<0, 0, 8>>,
                  <<0, 7, 1>>, <<0, 0, 8>>, <<0, 0, 8>> >>,
   cbGain |-> << <<1, 2, 2>>, <<1, 2, 1>>, <<0, 0, 3>>,
                 <<0, 2, 3>>, <<0, 2, 2>>, <<0, 0, 3>>,
                 <<0, 1, 4>>, <<0, 1, 3>>, <<0, 0, 3>>,
                 <<0, 1, 4>>, <<0, 1, 3>>, <<0, 0, 3>> >>]

stateBits == <<0, 1, 2>>

\* Bits of parameter f in class u.
Bits(f, u) ==
  LET table == IF mode = 30 THEN ulp30 ELSE ulp20
      row   == IF f[1] = "state" THEN stateBits ELSE table[f[1]][f[2]]
  IN  IF u <= 3 THEN row[u] ELSE 0

Group(name, n) == [k \in 1 .. n |-> <<name, k>>]

\* The order in which encodeFrame packs the parts of a class.
EncodeOrder ==
  Group("lsf", 3 * lpcAnalyses) \o Group("start", 1) \o Group("first", 1)
  \o Group("scale", 1) \o Group("state", shortStateSamples)
  \o Group("extraIndex", 3) \o Group("extraGain", 3)
  \o Group("cbIndex", 3 * adaptiveSubframes) \o Group("cbGain", 3 * adaptiveSubframes)

\* Mutant: gains before indices.
DecodeOrderSwapped ==
  Group("lsf", 3 * lpcAnalyses) \o Group("start", 1) \o Group("first", 1)
  \o Group("scale", 1) \o Group("state", shortStateSamples)
  \o Group("extraGain", 3) \o Group("extraIndex", 3)
  \o Group("cbIndex", 3 * adaptiveSubframes) \o Group("cbGain", 3 * adaptiveSubframes)
\* The order in which decodeFrame unpacks them.
DecodeOrder ==
  Group("lsf", 3 * lpcAnalyses) \o Group("start", 1) \o Group("first", 1)
  \o Group("scale", 1) \o Group("state", shortStateSamples)
  \o Group("extraIndex", 3) \o Group("extraGain", 3)
  \o Group("cbIndex", 3 * adaptiveSubframes) \o Group("cbGain", 3 * adaptiveSubframes)

Order == IF stage = "pack" THEN EncodeOrder ELSE DecodeOrder
Fields == {EncodeOrder[i] : i \in 1 .. Len(EncodeOrder)}
-----------------------------------------------------------------------------
(* Words.                                                                  *)

Shl(x, n) == {<<b[1] + n, b[2]>> : b \in x}
Shr(x, n) == {<<b[1] - n, b[2]>> : b \in {c \in x : c[1] >= n}}
Low8(x) == {b \in x : b[1] < 8}
Full(f) ==
  {<<b, <<f, b>>>> : b \in 0 .. (Bits(f, 1) + Bits(f, 2) + Bits(f, 3) - 1)}

\* The buffer the caller provides is not cleared.
StaleMark == << <<"stale", 0>>, 0>>
Stale == {<<b, StaleMark>> : b \in 0 .. 7}

Init ==
  /\ mode \in {20, 30}
  /\ stage = "pack"
  /\ values = [f \in Fields |-> Full(f)]
  /\ ulp = 1
  /\ at = 1
  /\ looping = FALSE
  /\ index = {}
  /\ bitno = 0
  /\ bytes = [i \in 0 .. 63 |-> Stale]
  /\ byteAt = 0
  /\ pos = 0
-----------------------------------------------------------------------------
\* The next parameter, the next class or the next stage.
Advance ==
  /\ IF at < Len(Order) THEN at' = at + 1 /\ ulp' = ulp ELSE at' = 1 /\ ulp' = ulp + 1
  /\ UNCHANGED stage

\* dopack's head: an untouched byte is cleared.
Cleared == IF pos = 0 THEN [bytes EXCEPT ![byteAt] = {}] ELSE bytes

\* packsplit, and the call of dopack.
PackPart ==
  LET f    == EncodeOrder[at]
      rest == Bits(f, ulp + 1) + Bits(f, ulp + 2)
      part == Shr(values[f], rest)
  IN  /\ stage = "pack" /\ ~looping /\ ulp <= 3
      /\ values' = [values EXCEPT ![f] = @ \ Shl(part, rest)]
      /\ index' = part
      /\ bitno' = Bits(f, ulp)
      /\ bytes' = Cleared
      /\ looping' = TRUE
      /\ UNCHANGED <<mode, stage, ulp, at, byteAt, pos>>

\* The final bit: 0, the frame is not empty.
PackFlag ==
  /\ stage = "pack" /\ ~looping /\ ulp = 4
  /\ index' = {}
  /\ bitno' = 1
  /\ bytes' = Cleared
  /\ looping' = TRUE
  /\ UNCHANGED <<mode, stage, values, ulp, at, byteAt, pos>>

\* dopack at the end of a byte.
NextByte == byteAt' = byteAt + 1 /\ bytes' = [bytes EXCEPT ![byteAt + 1] = {}]

PackNextByte ==
  /\ stage = "pack" /\ looping /\ bitno > 0 /\ pos = 8
  /\ NextByte
  /\ pos' = 0
  /\ UNCHANGED <<mode, stage, values, ulp, at, looping, index, bitno>>

\* The rest of an iteration of dopack.
PackBits ==
  LET posLeft == 8 - pos
      over    == bitno - posLeft
  IN  /\ stage = "pack" /\ looping /\ bitno > 0 /\ pos < 8
      /\ IF bitno <= posLeft
         THEN /\ bytes' = [bytes EXCEPT ![byteAt] = @ \cup Low8(Shl(index, posLeft - bitno))]
              /\ pos' = pos + bitno
              /\ bitno' = 0
              /\ UNCHANGED index
         ELSE /\ bytes' = [bytes EXCEPT ![byteAt] = @ \cup Low8(Shr(index, over))]
              /\ pos' = 8
              /\ index' = index \ Shl(Shr(index, over), over)
              /\ bitno' = over
      /\ UNCHANGED <<mode, stage, values, ulp, at, looping, byteAt>>

\* dopack returns; after the final bit the frame is sent and received.
PackReturn ==
  /\ stage = "pack" /\ looping /\ bitno = 0
  /\ looping' = FALSE
  /\ index' = {}
  /\ IF ulp <= 3
     THEN Advance /\ UNCHANGED <<byteAt, pos>>
     ELSE stage' = "unpack" /\ ulp' = 1 /\ at' = 1 /\ byteAt' = 0 /\ pos' = 0
  /\ UNCHANGED <<mode, values, bitno, bytes>>
-----------------------------------------------------------------------------
\* The call of unpack for a part, or for the final bit.
UnpackPart ==
  /\ stage = "unpack" /\ ~looping
  /\ index' = {}
  /\ bitno' = IF ulp <= 3 THEN Bits(DecodeOrder[at], ulp) ELSE 1
  /\ looping' = TRUE
  /\ UNCHANGED <<mode, stage, values, ulp, at, bytes, byteAt, pos>>

UnpackNextByte ==
  /\ stage = "unpack" /\ looping /\ bitno > 0 /\ pos = 8
  /\ byteAt' = byteAt + 1
  /\ pos' = 0
  /\ UNCHANGED <<mode, stage, values, ulp, at, looping, index, bitno, bytes>>

\* *bitstream << pos & 255
Unread == Low8(Shl(bytes[byteAt], pos))

\* The rest of an iteration of unpack.
UnpackBits ==
  LET bitsLeft == 8 - pos
  IN  /\ stage = "unpack" /\ looping /\ bitno > 0 /\ pos < 8
      /\ index' = index \cup (IF bitno <= 8 THEN Shr(Unread, 8 - bitno)
                              ELSE Shl(Unread, bitno - 8))
      /\ IF bitsLeft >= bitno
         THEN pos' = pos + bitno /\ bitno' = 0
         ELSE pos' = 8 /\ bitno' = bitno - bitsLeft
      /\ UNCHANGED <<mode, stage, values, ulp, at, looping, bytes, byteAt>>

\* unpack returns, and packcombine.  index keeps the final bit.
UnpackReturn ==
  LET f == DecodeOrder[at]
  IN  /\ stage = "unpack" /\ looping /\ bitno = 0
      /\ looping' = FALSE
      /\ IF ulp <= 3
         THEN /\ values' = [values EXCEPT ![f] = Shl(@, Bits(f, ulp)) \cup index]
              /\ index' = {}
              /\ Advance
         ELSE stage' = "done" /\ UNCHANGED <<values, index, ulp, at>>
      /\ UNCHANGED <<mode, bitno, bytes, byteAt, pos>>

Next ==
  \/ PackPart \/ PackFlag \/ PackNextByte \/ PackBits \/ PackReturn
  \/ UnpackPart \/ UnpackNextByte \/ UnpackBits \/ UnpackReturn

Spec == Init /\ [][Next]_vars
-----------------------------------------------------------------------------
\* The decoder gets back every parameter the encoder packed, bit by bit, does
\* not take the frame for an empty one, and has then read exactly the bytes of
\* a frame; nothing was written behind them.
RoundTrip ==
  stage = "done" =>
    /\ index = {} /\ \A f \in Fields : values[f] = Full(f)
    /\ byteAt = FrameBytes - 1 /\ pos = 8
    /\ \A i \in DOMAIN bytes : i >= FrameBytes => bytes[i] = Stale
=============================================================================
