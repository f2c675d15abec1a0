-------------------------------- MODULE MCWorker --------------------------------
(***************************************************************************)
(* What the CAN worker keeps of the frames it reads: the capture           *)
(* (FrameTable) and the decoded signals (SignalTable).  They share the     *)
(* clock, which neither holds back, and no other variable, and no property *)
(* speaks of both; so it is enough to let one of them run in a behaviour:  *)
(* part says which.                                                        *)
(***************************************************************************)
EXTENDS FrameTable, MCSignalTable

CONSTANTS c, mqtt, http

VARIABLE part

recordVars == <<slots, ringVars, markVars, totalFrames, overflowIds, stamps, arrived, heard, sent,
                lately, labels>>
signalVars == <<frames, last, table, worker, reportVars>>

wvars == <<now, recordVars, signalVars, part>>

-------------------------------------------------------------------------------
(* Three IDs on a table with two slots; the first two hash to the same slot.   *)

MCHash == (a :> 1) @@ (b :> 3) @@ (c :> 0)

MCPayloads == { <<0, 0>>, <<1, 0>>, <<0, 1>> }

\* Only the first ID changes, in the byte some tables mute.
MCMasks == (a :> {{}, {2}}) @@ (b :> {{}}) @@ (c :> {{}})
MCTraffic == (a :> {<<0, 0>>, <<0, 1>>}) @@ (b :> {<<1, 0>>}) @@ (c :> {<<0, 0>>})

\* The tasks that place labels are interchangeable.
MCSymmetry == Permutations({mqtt, http})

-------------------------------------------------------------------------------
(* One part at a time *)

WInit == FInit /\ DInit /\ part \in {"frames", "decode"}

FramesAlone == part = "frames" /\ FNext /\ UNCHANGED <<signalVars, part>>
DecodeAlone == part = "decode" /\ DNext /\ UNCHANGED <<recordVars, part>>

WSpec == WInit /\ [][FramesAlone \/ DecodeAlone]_wvars

-------------------------------------------------------------------------------

\* The type invariant of each part, and that a reset is not upset by what was there before:
\* the first frame of a signal after it is reported.
RecordsSound == FTypeOK /\ DTypeOK /\ ResetReportsAfresh
===============================================================================
