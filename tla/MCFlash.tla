-------------------------------- MODULE MCFlash --------------------------------
(***************************************************************************)
(* What the board keeps over a power failure: the table (TableStore) and   *)
(* the firmware (OtaUpdate).  They are kept in different partitions by     *)
(* different code, the models share no variable, and no property speaks of *)
(* both; so it is enough to let one of them run in a behaviour: part says  *)
(* which.  The table a firmware embeds is TableStore's BuiltIn.            *)
(***************************************************************************)
EXTENDS MCTableStore, OtaUpdate

VARIABLE part

flvars == <<svars, ovars, part>>

-------------------------------------------------------------------------------
(* The image of the factory, a good one, one that finds no Wi-Fi, one that crashes. *)

MCImages == {"shipped", "good", "mute", "crashing"}
MCMute == {"mute"}
MCCrashing == {"crashing"}

-------------------------------------------------------------------------------
(* One part at a time *)

FlInit == SInit /\ OtaInit /\ part \in {"table", "firmware"}

TableAlone == part = "table" /\ SNext /\ UNCHANGED <<ovars, part>>
FirmwareAlone == part = "firmware" /\ OtaNext /\ UNCHANGED <<svars, part>>

\* The fairness of OtaSpec, for the part it is about.
FlSpec ==
    /\ FlInit /\ [][TableAlone \/ FirmwareAlone]_flvars
    /\ WF_flvars(part = "firmware" /\ Verify /\ UNCHANGED <<svars, part>>)
    /\ WF_flvars(part = "firmware" /\ RestartIntoIt /\ UNCHANGED <<svars, part>>)

-------------------------------------------------------------------------------

\* The type invariant of each part; signals.json is missing or whole; and an image that is
\* confirmed had an address since it was written.
FlashSound == STypeOK /\ StoredIsWhole /\ OtaTypeOK /\ ConfirmedReachedNetwork
===============================================================================
