---------------------------- MODULE MCSignalTable ----------------------------
(* Bytes of two bits, words of two bytes.  Numbers like the shipped            *)
(* temperatures in hundredths of a degree, and enums of a nibble, of parts,    *)
(* with and without a default.                                                 *)
EXTENDS SignalTable, TLC

CONSTANTS a, b, first, second, on, off

\* The bits of a small number.
Bits(n) == { i \in 0 .. 1 : (n \div 2 ^ i) % 2 = 1 }

Digit(n) == <<HexKey(Bits(n), 1)>>

Number(bytes, scale, deadband, minMs, invalid) ==
    [bytes |-> bytes, parts |-> <<>>, nibble |-> "none", scale |-> scale, offset |-> -80,
     unit |-> 10, deadband |-> deadband, minMs |-> minMs, invalid |-> invalid,
     map |-> <<>>, default |-> None]

Enum(bytes, nibble, parts, map, default) ==
    [bytes |-> bytes, parts |-> parts, nibble |-> nibble, scale |-> 100, offset |-> 0,
     unit |-> 100, deadband |-> 0, minMs |-> 0, invalid |-> {}, map |-> map, default |-> default]

EngineTemp(byte) == Number(<<byte>>, 75, 100, 2, {})
AmbientTemp(byte) == Number(<<byte>>, 50, 50, 0, {Bits(3)})
Rpm(lo, hi) == Number(<<lo, hi>>, 25, 25, 0, {})
Gear(byte) == Enum(<<byte>>, "high", <<>>, (Digit(0) :> first) @@ (Digit(1) :> second), None)
Damping(x, y) ==
    Enum(<<>>, "none", <<[byte |-> x, nibble |-> "low"], [byte |-> y, nibble |-> "none"]>>,
         (Digit(1) \o <<HexKey(Bits(2), 2)>>) :> first, None)
Ignition(byte) == Enum(<<byte>>, "none", <<>>, <<HexKey(Bits(3), 2)>> :> off, on)
Empty == Enum(<<>>, "none", <<>>, <<>>, None)

ZeroBased ==
    [base |-> 0,
     frames |-> (a :> <<EngineTemp(0)>>) @@ (b :> <<Gear(0), Empty, Damping(0, 1)>>)]

OneBased ==
    [base |-> 1,
     frames |-> (a :> <<AmbientTemp(1)>>) @@ (b :> <<Rpm(1, 2), Ignition(2)>>)]

\* Byte 0 does not exist when bytes are counted from 1.
Refused == [OneBased EXCEPT !.frames[b] = <<Ignition(0)>>]

\* Byte 3 of the frame is one too many, too.
RefusedHigh == [OneBased EXCEPT !.base = 0, !.frames[b] = <<Ignition(2)>>]

MCDocuments == {ZeroBased, OneBased, Refused, RefusedHigh}

MCCarried ==
    (a :> { <<Bits(t), Bits(t)>> : t \in 0 .. 3 })
    @@ (b :> { <<Bits(1), Bits(2)>>, <<Bits(2)>> })
===============================================================================
