------------------------------ MODULE SignalTable ------------------------------
(***************************************************************************)
(* class SignalTable (main/SignalTable.h, main/SignalTable.cpp): the       *)
(* decode table, what it makes of a frame and when it reports a signal;    *)
(* and the CAN worker, which uses the reports after decode() has returned  *)
(* (main/main.cpp).                                                        *)
(*                                                                         *)
(* Every method holds lock_, so each is one action.  decode() returns      *)
(* pointers to the names it keeps in the table; the worker follows them    *)
(* one signal after another, outside the lock.                             *)
(*                                                                         *)
(* A byte, a word and a nibble are the sets of their one-bits, so that     *)
(* shifting and OR-ing are set operations and nothing is wider than the    *)
(* code makes it.  Values are integers: the unit a signal is rounded to    *)
(* stands for its "decimals".                                              *)
(***************************************************************************)
EXTENDS Uptime, Integers, Sequences, FiniteSets, FiniteSetsExt, SequencesExt

CONSTANTS
    FrameIds,         \* the identifiers on the bus
    NibbleBits,  \* bits of a nibble, 4; a byte has twice as many
    WordBits,    \* bits of uint32_t, 32
    MaxData,     \* payload bytes, kCanMaxData
    Carried,     \* the payloads each identifier carries
    Documents,   \* the tables that are uploaded
    None,        \* no text
    MaxLoads     \* bound on the uploads

ByteBits == 2 * NibbleBits
Byte == SUBSET (0 .. ByteBits - 1)
Payload == UNION { [1 .. n -> Byte] : n \in 0 .. MaxData }
Nibbles == {"high", "low", "none"}

\* One element of "signals": byte numbers as they are written, counted from the
\* document's base.
IsEntry(e) ==
    /\ DOMAIN e = {"bytes", "parts", "nibble", "scale", "offset", "unit", "deadband", "minMs",
                   "invalid", "map", "default"}
    /\ e.bytes \in Seq(Int) /\ e.parts \in Seq([byte : Int, nibble : Nibbles])
    /\ e.nibble \in Nibbles
    /\ e.scale \in Int /\ e.offset \in Int /\ e.unit \in Nat \ {0}
    /\ e.deadband \in Nat /\ e.minMs \in Nat
    /\ e.invalid \subseteq SUBSET (0 .. WordBits - 1)

ASSUME SignalAssumption ==
    /\ NibbleBits \in Nat \ {0} /\ MaxData \in Nat \ {0}
    /\ WordBits \in Nat \ {0} /\ WordBits % ByteBits = 0
    /\ Carried \in [FrameIds -> SUBSET Payload]
    /\ \A d \in Documents :
          /\ d.base \in {0, 1}
          /\ \A id \in FrameIds : \A k \in DOMAIN d.frames[id] : IsEntry(d.frames[id][k])
    /\ MaxLoads \in Nat

VARIABLES
    frames,   \* frames_: by identifier, its signals, each under its place in the document
    last,     \* haveLast, lastText or lastValue, lastPubUs of each signal
    table,    \* which upload the memory of frames_ belongs to
    worker,   \* the CAN worker: idle, or the reports it still has to use
    told,     \* history: what each signal reported last since the reset
    latest    \* history: each signal's latest reading since the reset

reportVars == <<told, latest>>
dvars == <<now, frames, last, table, worker, reportVars>>

NoReport == <<>>
Unoccupied == [left |-> {}, table |-> 0]

-------------------------------------------------------------------------------
(* loadJson() *)

Numbers(e) == Range(e.bytes) \cup { p.byte : p \in Range(e.parts) }

\* An entry with neither bytes nor parts is skipped.
Usable(e) == e.bytes # <<>> \/ e.parts # <<>>

\* "byte index out of range"
InRange(b, base) == b - base >= 0 /\ b - base < MaxData

\* No byte number is out of range, and some frame has a usable signal.
TableAccepted(d) ==
    /\ \A id \in FrameIds : \A k \in DOMAIN d.frames[id] :
          \A b \in Numbers(d.frames[id][k]) : InRange(b, d.base)
    /\ \E id \in FrameIds : \E k \in DOMAIN d.frames[id] : Usable(d.frames[id][k])

Resolved(e, base) ==
    [e EXCEPT !.bytes = [i \in DOMAIN e.bytes |-> e.bytes[i] - base],
              !.parts = [i \in DOMAIN e.parts |-> [e.parts[i] EXCEPT !.byte = @ - base]]]

\* The signals of each identifier, with data[] indices.
Built(d) ==
    [id \in FrameIds |->
        LET entries == d.frames[id]
        IN [k \in { k \in DOMAIN entries : Usable(entries[k]) } |-> Resolved(entries[k], d.base)]]

NeverReported(table_) == [id \in FrameIds |-> [k \in DOMAIN table_[id] |-> NoReport]]

\* The new table replaces the old one, names and last reports included; a document
\* that is not accepted changes nothing.
Load(d) ==
    /\ table < MaxLoads
    /\ TableAccepted(d)
    /\ frames' = Built(d)
    /\ last' = NeverReported(Built(d))
    /\ told' = NeverReported(Built(d)) /\ latest' = NeverReported(Built(d))
    /\ table' = table + 1
    /\ UNCHANGED <<now, worker>>

-------------------------------------------------------------------------------
(* Reading a signal off a payload.  data[i] is element i + 1 of the sequence. *)

Shifted(bits, n) == { b + n : b \in bits }

HighNibble(byte) == { b - NibbleBits : b \in { x \in byte : x >= NibbleBits } }
LowNibble(byte) == { b \in byte : b < NibbleBits }

\* nibbleOf(), and the nibble of a single byte in rawValue().
NibbleOf(byte, nibble) ==
    CASE nibble = "high" -> HighNibble(byte)
      [] nibble = "low"  -> LowNibble(byte)
      [] OTHER           -> byte

\* The frame is long enough for every byte the signal names.
LongEnough(s, data) ==
    \A b \in IF s.parts # <<>> THEN { p.byte : p \in Range(s.parts) } ELSE Range(s.bytes) :
        b < Len(data)

\* What a build makes of "(uint32_t)byte << n", which is undefined when n is not less
\* than the width: the processor takes n modulo the width, a compiler may drop it.
Undefined == {"modulo", "dropped"}

Lane(byte, n, ub) ==
    CASE n < WordBits -> Shifted(byte, n)
      [] n >= WordBits /\ ub = "modulo" -> Shifted(byte, n % WordBits)
      [] n >= WordBits /\ ub = "dropped" -> {}

\* Where rawValue() puts byte i of the list.
Place(s, i) == ByteBits * (i - 1)

\* rawValue()
RawWord(s, data, ub) ==
    LET word == UNION { Lane(data[s.bytes[i] + 1], Place(s, i), ub) : i \in DOMAIN s.bytes }
    IN IF Len(s.bytes) = 1 THEN NibbleOf(word, s.nibble) ELSE word

PowerOfTwo[n \in Nat] == IF n = 0 THEN 1 ELSE 2 * PowerOfTwo[n - 1]

Words == SUBSET (0 .. WordBits - 1)

NumberOf == [word \in Words |-> MapThenSumSet(LAMBDA b : PowerOfTwo[b], word)]

\* hexKey(): as many digits as asked for, more when the value needs them.
HexKey(bits, digits) ==
    [bits |-> bits, digits |-> Max({digits} \cup { b \div NibbleBits + 1 : b \in bits })]

\* The text a map is looked up by.
KeyOf(s, data, word) ==
    IF s.parts # <<>>
    THEN [i \in DOMAIN s.parts |->
             HexKey(NibbleOf(data[s.parts[i].byte + 1], s.parts[i].nibble),
                    IF s.parts[i].nibble = "none" THEN 2 ELSE 1)]
    ELSE <<HexKey(word, IF s.nibble = "none" THEN 2 * Len(s.bytes) ELSE 1)>>

IsEnum(s) == DOMAIN s.map # {}

TextOf(s, key) ==
    CASE key \in DOMAIN s.map -> s.map[key]
      [] key \notin DOMAIN s.map /\ s.default # None -> s.default
      [] OTHER -> <<"unmapped", key>>

\* std::round() to multiples of unit: halves away from zero.
Rounded(x, unit) ==
    IF x >= 0 THEN unit * ((2 * x + unit) \div (2 * unit))
              ELSE -(unit * ((unit - 2 * x) \div (2 * unit)))

\* A signal of parts without a map has no raw value: it counts as 0.
ValueOf(s, word) ==
    Rounded((IF s.parts # <<>> THEN 0 ELSE NumberOf[word]) * s.scale + s.offset, s.unit)

ShownBy(s, data, word) == IF IsEnum(s) THEN TextOf(s, KeyOf(s, data, word)) ELSE ValueOf(s, word)

\* "A sentinel meaning no sensor / no reading".
IsSentinel(s, word) == s.parts = <<>> /\ word \in s.invalid

-------------------------------------------------------------------------------
(* decode() *)

Distance(x, y) == IF x >= y THEN x - y ELSE y - x

\* Seeded fault: a change as large as the deadband is reported.
MovedByDeadband(s, old, new) ==
    IF IsEnum(s) THEN old # new ELSE Distance(old, new) >= s.deadband

\* Another text, or a number further away than the deadband.
Moved(s, old, new) == IF IsEnum(s) THEN old # new ELSE Distance(old, new) > s.deadband

Throttled(s, l, recvUs) == s.minMs # 0 /\ Elapsed(recvUs, l.pubUs) < s.minMs

\* The signal is reported: for the first time, or moved and outside min_ms.
Reports(s, l, shown, recvUs) ==
    l = NoReport \/ (Moved(s, l.shown, shown) /\ ~Throttled(s, l, recvUs))

\* Seeded fault: a value that min_ms holds back is remembered as if it were reported.
LastAfterAlways(s, l, shown, recvUs) ==
    IF Reports(s, l, shown, recvUs) THEN [shown |-> shown, pubUs |-> recvUs]
                                    ELSE [l EXCEPT !.shown = shown]

\* What is remembered of the last report after one more reading.
LastAfter(s, l, shown, recvUs) ==
    IF Reports(s, l, shown, recvUs) THEN [shown |-> shown, pubUs |-> recvUs] ELSE l

\* A frame is decoded, in a build that shifts too far in the way ub; no other name of
\* the table is touched.
Decode(id, data, recvUs, ub) ==
    LET sigs == frames[id]
        word == [k \in DOMAIN sigs |->
                    IF sigs[k].parts # <<>> \/ ~LongEnough(sigs[k], data) THEN {}
                    ELSE RawWord(sigs[k], data, ub)]
        readable == { k \in DOMAIN sigs : LongEnough(sigs[k], data) /\ ~IsSentinel(sigs[k], word[k]) }
        shown == [k \in readable |-> ShownBy(sigs[k], data, word[k])]
        out == { k \in readable : Reports(sigs[k], last[id][k], shown[k], recvUs) }
    IN /\ last' = [last EXCEPT ![id] =
             [k \in DOMAIN sigs |->
                 IF k \in readable THEN LastAfter(sigs[k], last[id][k], shown[k], recvUs)
                                   ELSE last[id][k]]]
       /\ told' = [told EXCEPT ![id] =
             [k \in DOMAIN sigs |->
                 IF k \in out THEN [shown |-> shown[k], at |-> recvUs, word |-> word[k]]
                              ELSE told[id][k]]]
       /\ latest' = [latest EXCEPT ![id] =
             [k \in DOMAIN sigs |->
                 IF k \in readable THEN [shown |-> shown[k], at |-> recvUs] ELSE latest[id][k]]]
       /\ worker' = IF out = {} THEN Unoccupied ELSE [left |-> out, table |-> table]

\* Only a table that shifts too far leaves the build a choice.
Builds(sigs) ==
    IF \A k \in DOMAIN sigs : ByteBits * (Len(sigs[k].bytes) - 1) < WordBits
    THEN {"modulo"} ELSE Undefined

\* The worker takes the next frame off the queue; it was stamped a moment ago, maybe
\* before one that is already decoded.
NextFrame ==
    /\ worker = Unoccupied
    /\ \E id \in FrameIds, age \in {0, 1} : \E data \in Carried[id], ub \in Builds(frames[id]) :
          age <= now /\ Decode(id, data, now - age, ub)
    /\ UNCHANGED <<now, frames, table>>

\* ... and follows the pointers of one report: the message, the bank, the gestures.
UseReport ==
    /\ worker.left # {}
    /\ worker' = LET left == worker.left \ {Min(worker.left)}
                 IN IF left = {} THEN Unoccupied ELSE [worker EXCEPT !.left = left]
    /\ UNCHANGED <<now, frames, last, table, reportVars>>

\* resetState(), for canreset or a mark with "reset".
ResetState ==
    /\ last' = NeverReported(frames)
    /\ told' = NeverReported(frames) /\ latest' = NeverReported(frames)
    /\ UNCHANGED <<now, frames, table, worker>>

DTick ==
    /\ TimePasses
    /\ UNCHANGED <<frames, last, table, worker, reportVars>>

-------------------------------------------------------------------------------
(* Specification *)

NoFrames == [id \in FrameIds |-> <<>>]

DInit ==
    /\ now = 0
    /\ frames = NoFrames
    /\ last = NoFrames /\ told = NoFrames /\ latest = NoFrames
    /\ table = 0
    /\ worker = Unoccupied

DNext ==
    \/ \E d \in Documents : Load(d)
    \/ NextFrame
    \/ UseReport
    \/ ResetState
    \/ DTick

DSpec == DInit /\ [][DNext]_dvars

-------------------------------------------------------------------------------
(* Properties *)

\* Every variable has its type, and every signal of the table in force reads bytes a
\* frame can have, whichever base its document counts from.
DTypeOK ==
    /\ table \in 0 .. MaxLoads
    /\ \A id \in FrameIds :
          /\ DOMAIN last[id] = DOMAIN frames[id] /\ DOMAIN latest[id] = DOMAIN frames[id]
          /\ \A k \in DOMAIN frames[id] :
                /\ Usable(frames[id][k])
                /\ Numbers(frames[id][k]) \subseteq 0 .. MaxData - 1
                /\ last[id][k] # NoReport => last[id][k].pubUs \in Time
                /\ latest[id][k] # NoReport => latest[id][k].at \in Time
    /\ worker = Unoccupied \/ (worker.left # {} /\ worker.table \in 1 .. table)

\* No change is lost to the throttle: whenever a signal's latest reading is not what
\* it reported last, give or take the deadband, it was stamped within min_ms of that
\* report, so the next frame to come later is reported.
NothingLost ==
    \A id \in FrameIds : \A k \in DOMAIN frames[id] :
        LET s == frames[id][k] IN
        ( /\ latest[id][k] # NoReport /\ told[id][k] # NoReport
          /\ Moved(s, told[id][k].shown, latest[id][k].shown) ) =>
            Elapsed(latest[id][k].at, told[id][k].at) < s.minMs

\* "Forget every signal's last-reported value, so the next frame of each ID reports
\* afresh": a signal that was read since the reset, or since the upload, was reported
\* since, even if its value is the one reported before.
ResetReportsAfresh ==
    \A id \in FrameIds : \A k \in DOMAIN frames[id] :
        latest[id][k] # NoReport => told[id][k] # NoReport

\* How far apart two readings that differ by one code may be shown: a step, rounded up to
\* the unit; and a unit more when the readings fall half way between two units, as one
\* below zero is rounded down and one above it up.
StepShown(s) ==
    LET step == Distance(s.scale, 0)
        halves == step % s.unit = 0 /\ (2 * s.offset) % (2 * s.unit) = s.unit
    IN s.unit * ((step + s.unit - 1) \div s.unit) + IF halves THEN s.unit ELSE 0

\* "deadband must exceed one quantisation step (scale), or a sensor resting between two
\* codes reports forever" (data/signals.json): a number whose deadband is no less than
\* a step as it is shown is reported again only when its raw value is two codes or more
\* away.
DitherIsSilent ==
    [][ \A id \in FrameIds : \A k \in DOMAIN frames[id] :
            LET s == frames[id][k] IN
            ( /\ table' = table
              /\ ~IsEnum(s) /\ s.deadband >= StepShown(s)
              /\ told'[id][k] # told[id][k]
              /\ told[id][k] # NoReport /\ told'[id][k] # NoReport ) =>
                Distance(NumberOf[told'[id][k].word], NumberOf[told[id][k].word]) > 1 ]_dvars

\* "min_ms per-signal floor between reports": two reports of a signal are that far
\* apart.
MinMsFloor ==
    [][ \A id \in FrameIds : \A k \in DOMAIN frames[id] :
            ( /\ table' = table
              /\ told'[id][k] # told[id][k]
              /\ told[id][k] # NoReport /\ told'[id][k] # NoReport ) =>
                Distance(told'[id][k].at, told[id][k].at) >= frames[id][k].minMs ]_dvars

\* "points into the SignalDef; valid while the table lives": while the worker still
\* follows pointers, the table they point into is the one in force.
NamesStayValid == worker # Unoccupied => worker.table = table
===============================================================================
