--------------------------- MODULE MCDrivingLights ---------------------------
(* One lamp that needs the engine, dipped and lit by the high beam control.   *)
EXTENDS DrivingLights, TLC

CONSTANTS lamp, engine, beam, yes, no, driving

LampEntry(auto) ==
    [gpios |-> {}, coils |-> {<<1, 0>>}, activeLow |-> FALSE, autoOff |-> auto,
     offWhen |-> {<<engine, no>>}]

GestureOn(target, clicks, window, dips) ==
    driving :>
        [signal |-> beam, trigger |-> yes, window |-> window, maxHold |-> 0, minGap |-> 1,
         actions |-> clicks :> [outputs |-> {target}, level |-> "on"],
         releaseOff |-> dips, require |-> <<engine, yes>>]

\* The shipped table: no timer, any release dips the lamp.
Shipped ==
    [outputs |-> lamp :> LampEntry(0), gestures |-> GestureOn(lamp, 1, 2, {lamp})]

\* The lamp has a timer; the gesture wants two clicks and waits out its window.
Timed ==
    [outputs |-> lamp :> LampEntry(2), gestures |-> GestureOn(lamp, 1, 2, {})]
Patient ==
    [outputs |-> lamp :> LampEntry(0), gestures |-> GestureOn(lamp, 2, 2, {})]

\* Outputs renamed away, the gestures left as they were: these are refused.
Unlit == [outputs |-> <<>>, gestures |-> Shipped.gestures]

SectionsOf(docs) == { d.outputs : d \in docs }
GesturesOf(docs) == { d.gestures : d \in docs }

UploadedDocs == {Shipped, Unlit}
UploadedSections == SectionsOf(UploadedDocs)
ShippedSections == SectionsOf({Shipped})
ShippedGestures == GesturesOf({Shipped})
TimedSections == SectionsOf({Timed})
TimedGestures == GesturesOf({Timed})
PatientSections == SectionsOf({Patient})
PatientGestures == GesturesOf({Patient})
==============================================================================
