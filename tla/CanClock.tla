------------------------------- MODULE CanClock -------------------------------
(***************************************************************************)
(* class CanClock (main/CanClock.h, main/CanClock.cpp): the counter that   *)
(* may be the motorcycle's clock, read from the frames, and the report of  *)
(* it in GET /can/status (main/CanWebServer.cpp).                          *)
(*                                                                         *)
(* The bike broadcasts its counter of seconds big endian in two bytes;     *)
(* Base stands for 256.  The counter wraps at midnight, which is the       *)
(* hypothesis the class exists to test, or only where its bytes do.  A     *)
(* second is Second ticks of Uptime, so that frames come, and readers      *)
(* read, within a second.                                                  *)
(***************************************************************************)
EXTENDS Uptime, Integers, SequencesExt

CONSTANTS
    Second,    \* ticks per second
    HalfDay,   \* 43200
    Base,      \* 256
    Latency,   \* bound on the ticks between a broadcast and the worker's reading it
    Starts,    \* what the counter may show at boot
    Locals,    \* local times of day SNTP may find at boot, against which to compare
    MaxUploads \* bound on the uploads

Day == 2 * HalfDay

ASSUME ClockAssumption ==
    /\ {Second, HalfDay, Base} \subseteq Nat \ {0}
    /\ Latency \in Nat /\ MaxUploads \in Nat
    /\ Day < Base * Base
    /\ Starts \subseteq 0 .. Day - 1
    /\ Locals \subseteq 0 .. Day - 1

VARIABLES
    start,       \* the bike's counter at boot
    period,      \* where it wraps
    local,       \* the system clock's local time of day at boot, or NotSet until SNTP
    configured,  \* configured_
    field,       \* bytes_: the indices the field is read from
    lastReading,        \* last_
    air,         \* a broadcast frame on its way to the worker: none or one
    status,      \* the HTTP task in /can/status: what it has read so far
    uploads,     \* uploads so far
    since        \* history: when a field was last configured

kvars == <<now, start, period, local, configured, field, lastReading, air, status, uploads, since>>

NotSet == -1

\* Reading{}
NoReading == [valid |-> FALSE, raw |-> 0, atUs |-> 0, updates |-> 0]

Readings == [valid : BOOLEAN, raw : 0 .. Base * Base - 1, atUs : Time, updates : Nat]

NotAsked == [pc |-> "idle"]

\* What the bike's counter shows at time t.
CounterAt(t) == (start + t \div Second) % period

\* Both bytes of the counter, and the first alone.
Wide == <<1, 2>>
Narrow == <<1>>
Fields == {Wide, Narrow}

-------------------------------------------------------------------------------
(* Pure parts *)

\* "the field, big-endian across its bytes"
Field(idx, data) == FoldLeft(LAMBDA v, i : v * Base + data[i], 0, idx)

\* "short frame: not our field"
Fits(idx, data) == \A i \in Range(idx) : i <= Len(data)

\* "Same second, next cyclic repeat."
Repeats(r, v) == r.valid /\ r.raw = v

\* last_ after a frame that carries v.
ReadingAfter(r, v, t) ==
    IF Repeats(r, v) THEN r
    ELSE [valid |-> TRUE, raw |-> v, atUs |-> t, updates |-> r.updates + 1]

\* The field as seconds since midnight, advanced by the age of the reading.
Tod(r, t) == (r.raw + Elapsed(t, r.atUs) \div Second) % Day

\* timeOfDay() has an answer.
HasTod(isConfigured, r) == isConfigured /\ r.valid /\ r.raw < Day

\* Seeded fault: only a difference in one direction is wrapped.
OffsetOneWay(tod, localTod) ==
    LET diff == tod - localTod IN IF diff > HalfDay THEN diff - Day ELSE diff

\* "Wrap into -43200..+43200"
Offset(tod, localTod) ==
    LET diff == tod - localTod IN
    CASE diff > HalfDay  -> diff - Day
      [] diff < -HalfDay -> diff + Day
      [] OTHER           -> diff

\* localtime_r() of the system clock at time t.
LocalTod(t) == (local + t \div Second) % Day

-------------------------------------------------------------------------------
(* The bike, and the worker in onFrame() *)

\* A frame with the counter, or one of the same identifier that is too short for it.
Broadcast ==
    /\ air = <<>>
    /\ LET c == CounterAt(now) IN
       \E data \in {<<c \div Base, c % Base>>, <<>>} : air' = <<[data |-> data, at |-> now]>>
    /\ UNCHANGED <<now, start, period, local, configured, field, lastReading, status, uploads, since>>

ReadFrame ==
    /\ air # <<>>
    /\ LET data == air[1].data IN
       IF configured /\ Fits(field, data)
       THEN lastReading' = ReadingAfter(lastReading, Field(field, data), now)
       ELSE UNCHANGED lastReading
    /\ air' = <<>>
    /\ UNCHANGED <<now, start, period, local, configured, field, status, uploads, since>>

-------------------------------------------------------------------------------
(* loadJson(), from an upload *)

\* Seeded fault: a new field starts from the reading of the old one.
ReadingOfNewFieldKept == lastReading

\* last_ = Reading{}
ReadingOfNewField == NoReading

\* A section that names a field.  Uploads and status requests come to the same task.
Configure(f) ==
    /\ status = NotAsked
    /\ uploads < MaxUploads
    /\ configured' = TRUE /\ field' = f
    /\ lastReading' = ReadingOfNewField
    /\ since' = now
    /\ uploads' = uploads + 1
    /\ UNCHANGED <<now, start, period, local, air, status>>

\* "No clock section".
Unconfigure ==
    /\ status = NotAsked
    /\ uploads < MaxUploads
    /\ configured' = FALSE
    /\ uploads' = uploads + 1
    /\ UNCHANGED <<now, start, period, local, field, lastReading, air, status, since>>

-------------------------------------------------------------------------------
(* GET /can/status *)

\* reading(), after which a reading that is not valid ends the clock's part.
AskReading ==
    /\ status.pc = "idle"
    /\ lastReading.valid
    /\ status' = [pc |-> "tod", raw |-> lastReading.raw]
    /\ UNCHANGED <<now, start, period, local, configured, field, lastReading, air, uploads, since>>

\* timeOfDay(): clock_as_tod, or "n/a - exceeds 86400".
AskTod ==
    /\ status.pc = "tod"
    /\ status' = IF HasTod(configured, lastReading)
                 THEN [pc |-> "local", raw |-> status.raw, tod |-> Tod(lastReading, now)]
                 ELSE [pc |-> "told", raw |-> status.raw]
    /\ UNCHANGED <<now, start, period, local, configured, field, lastReading, air, uploads, since>>

\* offsetVsLocal(), which calls timeOfDay() again.
AskOffset ==
    /\ status.pc = "local"
    /\ status' = IF HasTod(configured, lastReading) /\ local # NotSet
                 THEN [pc |-> "told", raw |-> status.raw, tod |-> status.tod,
                       offset |-> Offset(Tod(lastReading, now), LocalTod(now)),
                       local |-> LocalTod(now)]
                 ELSE [pc |-> "told", raw |-> status.raw, tod |-> status.tod]
    /\ UNCHANGED <<now, start, period, local, configured, field, lastReading, air, uploads, since>>

\* The answer is sent.
Answered ==
    /\ status.pc = "told"
    /\ status' = NotAsked
    /\ UNCHANGED <<now, start, period, local, configured, field, lastReading, air, uploads, since>>

-------------------------------------------------------------------------------
(* Specification *)

\* SNTP finds the time.
Sntp ==
    /\ local = NotSet
    /\ local' \in Locals
    /\ UNCHANGED <<now, start, period, configured, field, lastReading, air, status, uploads, since>>

KTick ==
    /\ TimePasses
    /\ air # <<>> => now - air[1].at < Latency
    /\ UNCHANGED <<start, period, local, configured, field, lastReading, air, status, uploads, since>>

KInit ==
    /\ now = 0
    /\ start \in Starts /\ period \in {Day, Base * Base}
    /\ local = NotSet
    /\ configured = FALSE /\ field = <<>> /\ lastReading = NoReading
    /\ air = <<>> /\ status = NotAsked
    /\ uploads = 0 /\ since = 0

NewClock == Unconfigure \/ \E f \in Fields : Configure(f)

Status == AskReading \/ AskTod \/ AskOffset \/ Answered

KNext == Broadcast \/ ReadFrame \/ NewClock \/ Status \/ Sntp \/ KTick

KSpec == KInit /\ [][KNext]_kvars

-------------------------------------------------------------------------------
(* Properties *)

\* The seconds by which the answer may lag behind the bike: the second that is not over,
\* and the time the frame waited for the worker.
Lags == 0 .. 1 + (Latency + Second - 1) \div Second

\* The bike's counter is a time of day, and it is the field that is read.
IsClock == period = Day /\ field = Wide /\ HasTod(configured, lastReading)

\* Every variable has its type, and a time of day is one.
KTypeOK ==
    /\ now \in Time /\ since \in Time
    /\ start \in Starts /\ period \in {Day, Base * Base} /\ local \in Locals \cup {NotSet}
    /\ configured \in BOOLEAN /\ field \in Fields \cup {<<>>}
    /\ lastReading \in Readings
    /\ uploads \in 0 .. MaxUploads
    /\ HasTod(configured, lastReading) => Tod(lastReading, now) \in 0 .. Day - 1

\* "The field read as seconds since local midnight, advanced by however long ago the
\* reading was taken": whatever frames were missed, also over midnight and after an
\* upload that changed the field, the answer is the bike's clock but for Lags.
TodFollowsTheBike ==
    IsClock => (CounterAt(now) - Tod(lastReading, now)) % Day \in Lags

\* "near zero and it *is* the wall clock": the offset is that of the two clocks but for
\* Lags, and at most half a day, on either side of midnight.
OffsetIdentifiesTheClock ==
    (IsClock /\ local # NotSet) =>
        LET o == Offset(Tod(lastReading, now), LocalTod(now)) IN
        /\ o \in -HalfDay .. HalfDay
        /\ (CounterAt(now) - LocalTod(now) - o) % Day \in Lags

\* "times the value changed": no more often than the seconds changed since the field was
\* configured, however many frames carried them.
UpdatesCountSeconds ==
    lastReading.valid => lastReading.updates <= (now - since + Latency) \div Second + 2
===============================================================================
