------------------------------ MODULE FrameTable ------------------------------
(***************************************************************************)
(* class FrameTable (main/FrameTable.h, main/FrameTable.cpp): the record   *)
(* kept of each CAN ID, the decision to publish a frame, the ring of raw   *)
(* frames and the ring of operator labels, and the text dump of both rings *)
(* (main/CanWebServer.cpp).                                                *)
(*                                                                         *)
(* Every method holds lock_ throughout, so each is one action; a label is  *)
(* stamped by its caller before mark() takes the lock.  A frame is stamped *)
(* before it is queued for the worker, by the receive interrupt or by      *)
(* inject(), so two stamps may reach observe() in the other order.         *)
(*                                                                         *)
(* An ID stands for the pair of identifier and extended flag; a payload is *)
(* a function from byte positions, already padded with zeros.              *)
(***************************************************************************)
EXTENDS Uptime, Sequences, FiniteSets, FiniteSetsExt, SequencesExt

CONSTANTS
    Ids,        \* the identifiers on the bus
    Hash,       \* hashId(), by identifier
    Capacity,   \* slots of the table, a power of two
    Bytes,      \* payload positions
    Payloads,   \* the payloads on the bus
    Traffic,    \* which of them each identifier carries
    Masks,      \* the noise masks the uploaded tables give each identifier
    MinGap,     \* publish_min_ms
    Heartbeat,  \* publish_heartbeat_ms, 0 when it is off
    RingSize,   \* frames the dump ring holds
    MarkRing,   \* labels the mark ring holds, kMarkRing
    Markers,    \* the tasks that place labels: MQTT and HTTP
    MaxFrames,  \* bound on the frames of one boot
    MaxMarks    \* bound on the labels of one boot

ASSUME TableAssumption ==
    /\ Capacity \in Nat \ {0} /\ RingSize \in Nat \ {0} /\ MarkRing \in Nat \ {0}
    /\ IsFiniteSet(Ids) /\ Hash \in [Ids -> Nat]
    /\ Payloads \subseteq [Bytes -> Nat] /\ Traffic \in [Ids -> SUBSET Payloads]
    /\ Masks \in [Ids -> SUBSET SUBSET Bytes]
    /\ MinGap \in Nat /\ Heartbeat \in Nat
    /\ MaxFrames \in Nat /\ MaxMarks \in Nat

VARIABLES
    slots,        \* slots_
    ring,         \* ring_: what was written to each place
    ringHead,     \* ringHead_, the next place
    ringCount,    \* ringCount_
    marks,        \* marks_
    markHead,     \* markHead_
    markCount,    \* markCount_
    markSeq,      \* markSeq_
    totalFrames,  \* totalFrames_
    overflowIds,  \* overflowIds_
    stamps,       \* the labels being placed: by which task, and the time it read
    arrived,      \* history: frames since boot, for the bound
    heard,        \* history: frames of each ID since the reset
    sent,         \* history: of each ID, the frame observe() let out last since the
                  \* reset
    lately,       \* history: the frames since the reset, newest last, as far as
                  \* the ring goes back
    labels        \* history: the labels since the reset, likewise

ringVars == <<ring, ringHead, ringCount>>
markVars == <<marks, markHead, markCount, markSeq>>
fvars == <<now, slots, ringVars, markVars, totalFrames, overflowIds, stamps,
           arrived, heard, sent, lately, labels>>

Frame == [id : Ids, data : Payloads, recvUs : Time]

Mark == [seq : 1 .. MaxMarks, recvUs : Time]

\* A slot no ID has taken, or a place of a ring nothing was written to, and the
\* record of an ID that has been seen.  (What only the reports show - first
\* sighting, change counts - is left out.)
Free == [count |-> 0]

Record ==
    [id : Ids, count : 1 .. MaxFrames, data : Payloads, prev : Payloads,
     noiseMask : SUBSET Bytes, lastSeenUs : Time, lastPubUs : Time]

-------------------------------------------------------------------------------
(* The table of IDs *)

\* Where linear probing looks for an ID in its step k.
Probe(id, k) == (Hash[id] + k) % Capacity

\* Seeded fault: slots are told apart by where their IDs hash to.
HoldsHash(i, id) == slots[i] # Free /\ Hash[slots[i].id] % Capacity = Hash[id] % Capacity

Holds(i, id) == slots[i] # Free /\ slots[i].id = id

\* The steps at which find() would stop, and the slot it finds.
Stops(id) ==
    { k \in 0 .. Capacity - 1 : slots[Probe(id, k)] = Free \/ Holds(Probe(id, k), id) }

Found(id) == Stops(id) # {}

SlotOf(id) == Probe(id, Min(Stops(id)))

-------------------------------------------------------------------------------
(* The decision to publish *)

\* Some byte that is not muted differs.
Differs(old, new, mask) == \E b \in Bytes \ mask : old[b] # new[b]

\* Seeded fault: the heartbeat waits for a change.
HeartbeatIsDueOnChange(r, f) ==
    Heartbeat > 0 /\ Elapsed(f.recvUs, r.lastPubUs) >= Heartbeat /\ r.data # f.data

HeartbeatIsDue(r, f) == Heartbeat > 0 /\ Elapsed(f.recvUs, r.lastPubUs) >= Heartbeat

\* A new ID, a change outside the minimum interval, or the heartbeat.
Publishes(r, f, mask) ==
    \/ r = Free
    \/ /\ r # Free
       /\ \/ /\ Differs(r.prev, f.data, mask)
             /\ Elapsed(f.recvUs, r.lastPubUs) >= MinGap
          \/ HeartbeatIsDue(r, f)

\* Seeded fault: a frame that is not published is remembered as if it were.
PrevAfterAlways(r, f, mask) == f.data

\* prev keeps the payload that was published last.
PrevAfter(r, f, mask) == IF Publishes(r, f, mask) THEN f.data ELSE r.prev

\* The record of an ID after one more frame.
Folded(r, f, mask) ==
    [id |-> f.id, count |-> r.count + 1, data |-> f.data,
     prev |-> PrevAfter(r, f, mask), noiseMask |-> mask,
     lastSeenUs |-> f.recvUs,
     lastPubUs |-> IF Publishes(r, f, mask) THEN f.recvUs ELSE r.lastPubUs]

-------------------------------------------------------------------------------
(* Operations *)

\* The last n elements of s.
Latest(s, n) == SubSeq(s, Max({1, Len(s) - n + 1}), Len(s))

\* observe()
Observe(f, mask) ==
    /\ arrived < MaxFrames
    /\ arrived' = arrived + 1
    /\ totalFrames' = totalFrames + 1
    /\ ring' = [ring EXCEPT ![ringHead] = f]
    /\ ringHead' = (ringHead + 1) % RingSize
    /\ ringCount' = Min({ringCount + 1, RingSize})
    /\ IF Found(f.id)
       THEN LET i == SlotOf(f.id) IN
            /\ slots' = [slots EXCEPT ![i] = Folded(slots[i], f, mask)]
            /\ sent' = IF Publishes(slots[i], f, mask) THEN [sent EXCEPT ![f.id] = f] ELSE sent
            /\ UNCHANGED overflowIds
       ELSE overflowIds' = overflowIds + 1 /\ UNCHANGED <<slots, sent>>
    /\ heard' = [heard EXCEPT ![f.id] = @ + 1]
    /\ lately' = Latest(Append(lately, f), RingSize)
    /\ UNCHANGED <<now, markVars, stamps, labels>>

\* A frame reaches the worker, stamped a moment ago.
Receive ==
    \E id \in Ids, age \in {0, 1} : \E data \in Traffic[id], mask \in Masks[id] :
        /\ age <= now
        /\ Observe([id |-> id, data |-> data, recvUs |-> now - age], mask)

\* applyMark() reads the clock, then calls mark().
StampMark(u) ==
    /\ \A s \in stamps : s.by # u
    /\ markSeq + Cardinality(stamps) < MaxMarks
    /\ stamps' = stamps \cup {[by |-> u, at |-> now]}
    /\ UNCHANGED <<now, slots, ringVars, markVars, totalFrames, overflowIds,
                   arrived, heard, sent, lately, labels>>

AddMark(s) ==
    /\ LET m == [seq |-> markSeq + 1, recvUs |-> s.at] IN
       /\ markSeq' = markSeq + 1
       /\ marks' = [marks EXCEPT ![markHead] = m]
       /\ labels' = Latest(Append(labels, m), MarkRing)
    /\ markHead' = (markHead + 1) % MarkRing
    /\ markCount' = Min({markCount + 1, MarkRing})
    /\ stamps' = stamps \ {s}
    /\ UNCHANGED <<now, slots, ringVars, totalFrames, overflowIds,
                   arrived, heard, sent, lately>>

\* Seeded fault: the loop that clears the table starts one slot late.
SlotsAfterResetFromOne ==
    [i \in 0 .. Capacity - 1 |-> IF i = 0 THEN slots[0] ELSE Free]

SlotsAfterReset == [i \in 0 .. Capacity - 1 |-> Free]

\* reset(): the sequence number goes on counting, and the rings keep what was
\* written to them but no longer show it.
Reset ==
    /\ slots' = SlotsAfterReset
    /\ ringHead' = 0 /\ ringCount' = 0
    /\ totalFrames' = 0 /\ overflowIds' = 0
    /\ markHead' = 0 /\ markCount' = 0
    /\ heard' = [id \in Ids |-> 0]
    /\ sent' = [id \in Ids |-> Free]
    /\ lately' = <<>> /\ labels' = <<>>
    /\ UNCHANGED <<now, ring, marks, markSeq, stamps, arrived>>

FTick ==
    /\ TimePasses
    /\ UNCHANGED <<slots, ringVars, markVars, totalFrames, overflowIds, stamps,
                   arrived, heard, sent, lately, labels>>

-------------------------------------------------------------------------------
(* Reports *)

\* The place of the oldest of the n latest frames.
Oldest(n) == (ringHead + RingSize - n) % RingSize

\* recentFrames(), for a limit of 0 all of them.
RecentFrames(limit) ==
    LET n == IF limit = 0 \/ limit > ringCount THEN ringCount ELSE limit
    IN [k \in 1 .. n |-> ring[(Oldest(n) + k - 1) % RingSize]]

\* recentMarks()
RecentMarks ==
    [k \in 1 .. markCount |-> marks[(markHead + MarkRing - markCount + k - 1) % MarkRing]]

\* How many of the labels ms are at the front with a time up to untilUs.
UpTo(ms, untilUs) ==
    Max({ j \in 0 .. Len(ms) : \A i \in 1 .. j : ms[i].recvUs <= untilUs })

Dropped(ms, j) == SubSeq(ms, j + 1, Len(ms))

\* One frame, after the labels that are not newer.
Line(acc, f) ==
    LET j == UpTo(acc.rest, f.recvUs) IN
    [text |-> Append(acc.text \o SubSeq(acc.rest, 1, j), f), rest |-> Dropped(acc.rest, j)]

\* dumpText(): a line for each frame, the other labels at the end.
DumpText(frames, ms) ==
    LET lines == FoldLeft(Line, [text |-> <<>>, rest |-> ms], frames)
    IN lines.text \o lines.rest

\* Seeded fault: every chunk is given the labels from the start.
RestAfterChunkAll(ms, j) == ms

\* The labels left over for the following chunks.
RestAfterChunk(ms, j) == Dropped(ms, j)

\* Chunk c of n frames, given the labels up to its last frame; the last chunk gets
\* all that are left.
Chunk(frames, n, acc, c) ==
    LET part == SubSeq(frames, (c - 1) * n + 1, Min({c * n, Len(frames)}))
        last == c * n >= Len(frames)
        j == IF last THEN Len(acc.rest) ELSE UpTo(acc.rest, part[Len(part)].recvUs)
    IN [text |-> acc.text \o DumpText(part, SubSeq(acc.rest, 1, j)),
        rest |-> RestAfterChunk(acc.rest, j)]

\* GET /can/dump: dumpText() in chunks of n frames.
Dump(frames, ms, n) ==
    LET chunks == (Len(frames) + n - 1) \div n IN
    IF frames = <<>> THEN DumpText(<<>>, ms)
    ELSE FoldLeft(LAMBDA acc, c : Chunk(frames, n, acc, c),
                  [text |-> <<>>, rest |-> ms], [c \in 1 .. chunks |-> c]).text

-------------------------------------------------------------------------------
(* Specification *)

FInit ==
    /\ now = 0
    /\ slots = [i \in 0 .. Capacity - 1 |-> Free]
    /\ ring = [i \in 0 .. RingSize - 1 |-> Free] /\ ringHead = 0 /\ ringCount = 0
    /\ marks = [i \in 0 .. MarkRing - 1 |-> Free] /\ markHead = 0 /\ markCount = 0
    /\ markSeq = 0
    /\ totalFrames = 0 /\ overflowIds = 0
    /\ stamps = {}
    /\ arrived = 0
    /\ heard = [id \in Ids |-> 0]
    /\ sent = [id \in Ids |-> Free]
    /\ lately = <<>> /\ labels = <<>>

FNext ==
    \/ Receive
    \/ \E u \in Markers : StampMark(u)
    \/ \E s \in stamps : AddMark(s)
    \/ Reset
    \/ FTick

FSpec == FInit /\ [][FNext]_fvars

-------------------------------------------------------------------------------
(* Properties *)

\* Every variable has its type; no ID has two slots, and no probe for an ID that
\* has one stops short of it.
FTypeOK ==
    /\ now \in Time
    /\ slots \in [0 .. Capacity - 1 -> Record \cup {Free}]
    /\ \A i \in 0 .. Capacity - 1 : slots[i] # Free => SlotOf(slots[i].id) = i
    /\ ringHead \in 0 .. RingSize - 1 /\ ringCount \in 0 .. RingSize
    /\ markHead \in 0 .. MarkRing - 1 /\ markCount \in 0 .. MarkRing
    /\ markSeq \in 0 .. MaxMarks
    /\ arrived \in 0 .. MaxFrames
    /\ totalFrames \in 0 .. arrived /\ overflowIds \in 0 .. totalFrames
    /\ stamps \subseteq [by : Markers, at : Time]

Tracked(id) == \E i \in 0 .. Capacity - 1 : Holds(i, id)

\* Every frame since the reset is accounted for once: in the record of its own ID,
\* or, when the table had no room for the ID, in the overflow count.
EveryFrameCounted ==
    /\ \A id \in Ids : Tracked(id) => slots[SlotOf(id)].count = heard[id]
    /\ overflowIds = MapThenSumSet(LAMBDA id : heard[id], { id \in Ids : ~Tracked(id) })
    /\ totalFrames = MapThenSumSet(LAMBDA id : heard[id], Ids)

\* No change is lost to the throttle: whenever the latest frame of an ID differs
\* from the one observe() let out last, it came within the minimum interval of
\* that; the next frame to come later is let out.
BrokerSeesChanges ==
    \A i \in 0 .. Capacity - 1 : slots[i] # Free =>
        LET r == slots[i] IN
        Differs(sent[r.id].data, r.data, r.noiseMask) =>
            Elapsed(r.lastSeenUs, sent[r.id].recvUs) < MinGap

\* "A heartbeat so a static ID still reports in": the latest frame of an ID is
\* always less than a heartbeat younger than the one let out last, even while two
\* stamps are out of order.
BrokerSeesHeartbeat ==
    Heartbeat > 0 =>
        \A i \in 0 .. Capacity - 1 : slots[i] # Free =>
            Elapsed(slots[i].lastSeenUs, sent[slots[i].id].recvUs) < Heartbeat

\* The lines of a text that have the field - frames have an id, labels a seq - are s, in
\* the order of s: line at[k] is s[k].
Shows(text, field, s) ==
    LET lines == { l \in DOMAIN text : field \in DOMAIN text[l] } IN
    \E at \in [DOMAIN s -> lines] :
        /\ \A i, j \in DOMAIN s : i < j => at[i] < at[j]
        /\ \A i \in DOMAIN s : text[at[i]] = s[i]
        /\ lines = { at[i] : i \in DOMAIN s }

\* Whatever the limit of a dump, however it is cut into chunks, and however the
\* stamps are ordered, it shows the latest frames since the reset and every label
\* that is kept, each once and in its order.  (The handler copies frames and labels under
\* two locks; here both are read in one state.)
DumpIsComplete ==
    \A limit \in 0 .. RingSize + 1, n \in 1 .. RingSize :
        LET text == Dump(RecentFrames(limit), RecentMarks, n) IN
        /\ Shows(text, "id", Latest(lately, IF limit = 0 THEN RingSize ELSE limit))
        /\ Shows(text, "seq", labels)
===============================================================================
