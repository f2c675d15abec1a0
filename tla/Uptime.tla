-------------------------------- MODULE Uptime --------------------------------
(***************************************************************************)
(* The 64-bit microsecond counter behind esp_timer_get_time().             *)
(*                                                                         *)
(* Time is counted in abstract ticks.  MaxTime bounds the clock so that a  *)
(* model has finitely many states.  Wrap stands for 2^64: it is the        *)
(* modulus of the unsigned subtractions of the code, and it only has to be *)
(* larger than every duration the tables configure.                        *)
(***************************************************************************)
EXTENDS Naturals

CONSTANTS
    MaxTime,   \* bound on the clock
    Wrap       \* modulus of uint64_t

ASSUME UptimeAssumption ==
    /\ MaxTime \in Nat
    /\ Wrap \in Nat
    /\ Wrap > MaxTime

VARIABLE
    now        \* esp_timer_get_time()

Time == 0 .. MaxTime

\* nowUs - sinceUs in uint64_t arithmetic: negative differences wrap around.
Elapsed(nowUs, sinceUs) ==
    IF sinceUs <= nowUs THEN nowUs - sinceUs ELSE Wrap + nowUs - sinceUs

\* The clock moves on by itself.
TimePasses ==
    /\ now < MaxTime
    /\ now' = now + 1
===============================================================================
