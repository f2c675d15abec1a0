------------------------------ MODULE TableStore ------------------------------
(***************************************************************************)
(* The table signals.json on its way from an upload to the flash and back: *)
(* POST /signals (main/CanWebServer.cpp), namespace signalstore            *)
(* (main/SignalTable.cpp) and the boot sequence of app_main                *)
(* (main/main.cpp).  One document carries the decode table, the outputs,   *)
(* the gestures and the clock; each component checks and installs its own  *)
(* section.                                                                *)
(*                                                                         *)
(* httpd serves one request at a time, and it starts after the boot        *)
(* sequence, so the steps below run one after another - but the power may  *)
(* fail between any two of them, and the flash may refuse any of them.     *)
(*                                                                         *)
(* A document is abstracted to its version, the sections that are well-    *)
(* formed, the outputs it declares and the outputs its gestures name.      *)
(***************************************************************************)
EXTENDS Integers

CONSTANTS
    OutputNames,  \* names an output may have
    Docs,         \* the documents that are uploaded or built in
    BuiltIn,      \* the documents a firmware may embed, defaultJson()
    None          \* no document

SectionNames == {"signals", "outputs", "gestures", "clock"}

Document ==
    [version : Int, valid : SUBSET SectionNames,
     names : SUBSET OutputNames, targets : SUBSET OutputNames]

\* A truncated file: it does not parse.
Partial == [version |-> -1, valid |-> {}, names |-> {}, targets |-> {}]

\* A document every component accepts.
Whole(d) == d.valid = SectionNames /\ d.targets \subseteq d.names

ASSUME StoreAssumption ==
    /\ Docs \subseteq Document
    /\ BuiltIn \subseteq Docs
    /\ \A d \in BuiltIn : Whole(d) /\ d.version \in Nat
    /\ None \notin Docs \cup {Partial}

VARIABLES
    pc,       \* where the boot sequence or the upload is
    mounted,  \* s_mounted
    origin,   \* which of the two is writing
    doc,      \* the document being written or uploaded
    live,     \* by section, the document it was installed from
    reply,    \* the answer to the latest upload since boot
    file,     \* signals.json on the flash
    tmp,      \* signals.tmp on the flash
    shipped,  \* the document the running firmware embeds
    saved,    \* history: the document of the latest completed write
    fault,    \* history: the flash has refused something since boot
    hurt      \* history: saved was lost by a fault or a power failure

bootVars == <<origin, doc, reply>>
flashVars == <<file, tmp>>
pastVars == <<saved, fault, hurt>>
svars == <<pc, mounted, live, shipped, bootVars, flashVars, pastVars>>

NothingLive == [s \in SectionNames |-> None]

AllFrom(d) == [s \in SectionNames |-> d]

Serving == pc = "serve"

-------------------------------------------------------------------------------
(* Each component's loadJson() *)

\* The component that reads section s finds nothing wrong with its form.
Parses(d, s) == s \in d.valid

\* Every output the gestures name is one of those in force.
TargetsKnown(d, outputs) == outputs # None /\ d.targets \subseteq outputs.names

-------------------------------------------------------------------------------
(* signalstore::write() *)

\* Seeded fault: the result of write() is not looked at.
AnswerAlwaysOk(ok) == "ok"

\* "The new table is live but unsaved; say so rather than report success."
Answer(ok) == IF ok THEN "ok" ELSE "unsaved"

\* The boot sequence goes on to read the table; an upload is answered.
WriteReturns(ok) ==
    /\ doc' = None
    /\ IF origin = "boot"
       THEN pc' = "load" /\ reply' = reply
       ELSE pc' = "serve" /\ reply' = Answer(ok)

\* Seeded fault: the table is written in place.
OpensInPlace == /\ file' = Partial /\ tmp' = tmp

\* fopen(tmp, "wb") truncates what an interrupted write left behind.
OpensTemp == /\ tmp' = Partial /\ file' = file

Open ==
    /\ pc = "open"
    /\ mounted
    /\ OpensTemp
    /\ pc' = "fill"
    /\ UNCHANGED <<live, mounted, shipped, bootVars, pastVars>>

\* There is no partition, or no room for the file.
OpenFails ==
    /\ pc = "open"
    /\ WriteReturns(FALSE)
    /\ fault' = TRUE
    /\ UNCHANGED <<origin, live, mounted, shipped, flashVars, saved, hurt>>

Fill ==
    /\ pc = "fill"
    /\ tmp' = doc
    /\ pc' = "remove"
    /\ UNCHANGED <<live, mounted, shipped, bootVars, file, pastVars>>

\* The last buffer is written by fclose(), whose result is not looked at.
FillIsCutShort ==
    /\ pc = "fill"
    /\ tmp' = Partial
    /\ pc' = "remove"
    /\ fault' = TRUE
    /\ UNCHANGED <<live, mounted, shipped, bootVars, file, saved, hurt>>

\* A short write removes the temporary file again.
FillFails ==
    /\ pc = "fill"
    /\ tmp' = None
    /\ WriteReturns(FALSE)
    /\ fault' = TRUE
    /\ UNCHANGED <<origin, live, mounted, shipped, file, saved, hurt>>

\* remove(kPath): SPIFFS does not rename onto an existing file.
Remove ==
    /\ pc = "remove"
    /\ file' = None
    /\ pc' = "rename"
    /\ UNCHANGED <<live, mounted, shipped, bootVars, tmp, pastVars>>

Rename ==
    /\ pc = "rename"
    /\ file' = tmp
    /\ tmp' = None
    /\ WriteReturns(TRUE)
    /\ saved' = doc
    /\ hurt' = (tmp # doc)
    /\ UNCHANGED <<origin, live, mounted, shipped, fault>>

RenameFails ==
    /\ pc = "rename"
    /\ tmp' = None
    /\ WriteReturns(FALSE)
    /\ fault' = TRUE
    /\ hurt' = TRUE
    /\ UNCHANGED <<origin, live, mounted, shipped, file, saved>>

Write ==
    \/ Open \/ OpenFails \/ Fill \/ FillIsCutShort \/ FillFails
    \/ Remove \/ Rename \/ RenameFails

-------------------------------------------------------------------------------
(* app_main *)

\* mount(): a blank or unreadable partition is formatted.
Mount ==
    /\ pc = "off"
    /\ pc' = "seed"
    /\ mounted' = TRUE
    /\ \/ UNCHANGED <<flashVars, hurt>>
       \/ file' = None /\ tmp' = None /\ hurt' = TRUE
    /\ UNCHANGED <<live, shipped, bootVars, saved, fault>>

\* Without the partition there is no table at all; raw frames are published.
MountFails ==
    /\ pc = "off"
    /\ pc' = "serve"
    /\ fault' = TRUE
    /\ UNCHANGED <<live, mounted, shipped, bootVars, flashVars, saved, hurt>>

\* Seeded fault: an edited table of the same version is replaced.
OutdatedWhenEqual(d) == d.version <= shipped.version

\* "A reflash carries table corrections with it".
Outdated(d) == d.version < shipped.version

\* Seeded fault: only a table that is there is replaced.
NeedsSeedingWhenOlder(f) == f # None /\ Outdated(f)

NeedsSeeding(f) == f = None \/ Outdated(f)

\* ensureDefault(): the built-in table replaces a missing or an older one.
EnsureDefault ==
    /\ pc = "seed"
    /\ IF NeedsSeeding(file)
       THEN pc' = "open" /\ doc' = shipped /\ origin' = "boot"
       ELSE pc' = "load" /\ UNCHANGED <<doc, origin>>
    /\ UNCHANGED <<live, mounted, shipped, reply, flashVars, pastVars>>

\* Seeded fault: the gestures are loaded before the outputs they name.
InstalledGesturesFirst(d) ==
    IF d = None THEN NothingLive
    ELSE [s \in SectionNames |->
            IF Parses(d, s) /\ (s = "gestures" => d.targets = {}) THEN d ELSE None]

\* What the stored table puts in force: a refused section is left out, and takes
\* only the gestures with it when it is the outputs.
InstalledAtBoot(d) ==
    IF d = None THEN NothingLive
    ELSE [s \in SectionNames |->
            CASE s # "gestures" -> IF Parses(d, s) THEN d ELSE None
              [] s = "gestures" ->
                   IF Parses(d, "outputs") /\ Parses(d, s) /\ TargetsKnown(d, d)
                   THEN d ELSE None]

\* read(), and the four loadJson() of the boot sequence.
BootLoad ==
    /\ pc = "load"
    /\ live' = InstalledAtBoot(file)
    /\ pc' = "serve"
    /\ UNCHANGED <<mounted, shipped, bootVars, flashVars, pastVars>>

Boot == Mount \/ MountFails \/ EnsureDefault \/ BootLoad

-------------------------------------------------------------------------------
(* POST /signals *)

Upload(d) ==
    /\ Serving
    /\ doc' = d
    /\ origin' = "upload"
    /\ reply' = "none"
    /\ pc' = "signals"
    /\ UNCHANGED <<live, mounted, shipped, flashVars, pastVars>>

\* The component at hand takes its section over, or the upload is answered 400.
Installs(s, accepted, next) ==
    /\ pc = s
    /\ IF accepted
       THEN live' = [live EXCEPT ![s] = doc] /\ pc' = next /\ UNCHANGED <<doc, reply>>
       ELSE pc' = "serve" /\ reply' = "rejected" /\ doc' = None /\ UNCHANGED live
    /\ UNCHANGED <<origin, mounted, shipped, flashVars, pastVars>>

InstallSignals == Installs("signals", Parses(doc, "signals"), "outputs")
InstallOutputs == Installs("outputs", Parses(doc, "outputs"), "gestures")
InstallGestures ==
    Installs("gestures", Parses(doc, "gestures") /\ TargetsKnown(doc, live["outputs"]),
             "clock")
InstallClock == Installs("clock", Parses(doc, "clock"), "open")

Handler ==
    \/ \E d \in Docs : Upload(d)
    \/ InstallSignals \/ InstallOutputs \/ InstallGestures \/ InstallClock

-------------------------------------------------------------------------------
(* Specification *)

\* The power fails, the watchdog bites, or an OTA update ends: nothing but the
\* flash survives, and another image may run next.
PowerFails ==
    /\ pc # "off"
    /\ pc' = "off"
    /\ live' = NothingLive /\ doc' = None /\ origin' = "boot" /\ reply' = "none"
    /\ mounted' = FALSE /\ fault' = FALSE
    /\ hurt' = (hurt \/ pc = "rename")
    /\ shipped' \in BuiltIn
    /\ UNCHANGED <<flashVars, saved>>

SInit ==
    /\ pc = "off" /\ mounted = FALSE
    /\ live = NothingLive
    /\ origin = "boot" /\ doc = None /\ reply = "none"
    /\ file = None /\ tmp = None
    /\ shipped \in BuiltIn
    /\ saved = None /\ fault = FALSE /\ hurt = FALSE

SNext == Boot \/ Handler \/ Write \/ PowerFails

SSpec == SInit /\ [][SNext]_svars

-------------------------------------------------------------------------------
(* Properties *)

\* Every variable has its type, and no component runs a section it would refuse.
STypeOK ==
    /\ pc \in {"off", "seed", "load", "serve", "open", "fill", "remove", "rename"}
                \cup SectionNames
    /\ mounted \in BOOLEAN /\ fault \in BOOLEAN /\ hurt \in BOOLEAN
    /\ origin \in {"boot", "upload"}
    /\ doc \in Docs \cup {None}
    /\ doc = None <=> pc \in {"off", "seed", "load", "serve"}
    /\ live \in [SectionNames -> Docs \cup {None}]
    /\ \A s \in SectionNames : live[s] # None => s \in live[s].valid
    /\ reply \in {"none", "ok", "rejected", "unsaved"}
    /\ file \in Docs \cup {None, Partial} /\ tmp \in Docs \cup {None, Partial}
    /\ shipped \in BuiltIn
    /\ saved \in Docs \cup {None}

\* Whenever the power fails, in the middle of a write or of an upload that some
\* component goes on to refuse, signals.json is missing or is a table that every
\* component accepts in full - or the flash lost its end without write() noticing.
StoredIsWhole == file # None /\ ~hurt => Whole(file)

\* "A bad edit can never leave the device unable to decode after a reboot":
\* whatever was uploaded and wherever the power failed, a board whose flash works
\* has a decode table.
NeverUndecodable == Serving /\ mounted /\ ~fault => live["signals"] # None

\* A table that was saved is in force, all four sections of it, after every later
\* boot, until another write replaces it.
UploadSurvives ==
    Serving /\ mounted /\ reply = "none" /\ saved # None /\ ~hurt =>
        live = AllFrom(saved)

\* The answer to an upload tells what happened: "ok" that the document is both in
\* force and stored, "unsaved" that it is in force and the stored table is lost or
\* still the old one, "rejected" that the stored table is the old one.
AnswersAreHonest ==
    Serving =>
        /\ reply = "ok" /\ ~hurt => file # None /\ live = AllFrom(file)
        /\ reply = "unsaved" => live["signals"] # None /\ live = AllFrom(live["signals"])
        /\ reply \in {"rejected", "unsaved"} /\ ~hurt => file = saved

\* "Never regresses a table someone uploaded with a higher version than the
\* build's": a boot replaces a table that is intact only by one of a higher
\* version.
NeverRegresses ==
    [][ (Rename /\ origin = "boot" /\ saved # None /\ ~hurt) =>
            saved'.version > saved.version ]_svars

\* "An interrupted upload cannot leave a truncated table behind -- the previous one
\* stays usable": when the power fails, signals.json is the previous table or the
\* new one.
PreviousStaysUsable ==
    [][ (PowerFails /\ origin = "upload" /\ saved # None /\ ~hurt) => file \in {saved, doc} ]_svars

\* GET /signals answers the stored table, "so what you read back is byte-for-byte
\* what is in use": on a board whose flash works, every section in force comes from
\* signals.json.
StoredIsInUse ==
    Serving /\ mounted /\ ~fault /\ ~hurt /\ file # None => live = AllFrom(file)

\* "The new table is live but unsaved; say so rather than report success": after "ok"
\* the stored table is the one in force.
FailureIsReported == Serving /\ reply = "ok" => file = live["signals"]
===============================================================================
