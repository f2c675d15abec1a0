----------------------------- MODULE FlashProofs -----------------------------
(***************************************************************************)
(* Proofs about what the board keeps over a power failure, for every       *)
(* document and every firmware: the stored table (TableStore) and the two  *)
(* slots of an update (OtaUpdate).                                         *)
(***************************************************************************)
EXTENDS MCFlash, TLAPS

-------------------------------------------------------------------------------
(* The stored table: the inductive invariant *)

Writing == pc \in {"open", "fill", "remove", "rename"}

\* signals.json, and signals.tmp once it is filled, are missing, cut short, or whole;
\* cut short only after a refusal of the flash.
FilesAreWhole ==
    /\ file \in {None, Partial} \/ Whole(file)
    /\ pc \in {"remove", "rename"} => tmp \in {doc, Partial} /\ (~fault => tmp = doc)
    /\ pc = "rename" => file = None

\* What is written was accepted by every component; at boot it is the built-in table,
\* newer than the one that was saved.
WritesAreWhole ==
    /\ Writing => Whole(doc)
    /\ Writing /\ origin = "boot" =>
          /\ doc = shipped
          /\ saved # None /\ ~hurt => doc.version > saved.version

\* How far an upload has come, and what is in force by then.
UploadsInstall ==
    /\ pc \in SectionNames => origin = "upload"
    /\ pc \in {"outputs", "gestures", "clock"} => live["signals"] = doc
    /\ pc \in {"gestures", "clock"} => live["outputs"] = doc
    /\ pc = "clock" => live["gestures"] = doc /\ doc.targets \subseteq doc.names
    /\ Writing /\ origin = "upload" => live = AllFrom(doc)

\* The history variables: what was saved is on the flash unless the flash was hurt.
SavedIsStored ==
    /\ ~hurt /\ pc # "rename" => file = saved
    /\ saved # None => Whole(saved)

\* The boot sequence ends with a decode table unless the flash refuses something.
BootsDecode ==
    /\ pc = "off" => ~mounted
    /\ pc = "load" /\ ~fault => file # None /\ Whole(file)
    /\ mounted /\ ~fault /\ (Serving \/ pc \in SectionNames \/ (Writing /\ origin = "upload")) =>
          live["signals"] # None

StoreInv ==
    /\ STypeOK
    /\ FilesAreWhole
    /\ WritesAreWhole
    /\ UploadsInstall
    /\ SavedIsStored
    /\ BootsDecode
    /\ reply # "none" => Serving
    /\ UploadSurvives
    /\ AnswersAreHonest
-------------------------------------------------------------------------------
(* The stored table: each step preserves it *)

\* What the assumptions say of a document.
LEMMA DocumentType ==
    ASSUME NEW d \in Docs
    PROVE  d \in Document /\ d # None
  BY StoreAssumption

\* A built-in table is whole and newer than one that does not parse.
LEMMA BuiltInType ==
    ASSUME NEW d \in BuiltIn
    PROVE  d \in Docs /\ Whole(d) /\ d.version \in Nat /\ Partial.version < d.version
  BY StoreAssumption DEF Partial

\* A table that was cut short is not a whole one.
LEMMA PartialIsNotWhole == ~Whole(Partial) /\ Partial # None
  <1>1. "clock" \in SectionNames
    BY DEF SectionNames
  <1>2. Partial.valid = {}
    BY DEF Partial
  <1> QED
    BY <1>1, <1>2, StoreAssumption DEF Whole

\* The sections in force, when they are all from the same document.
LEMMA AllFromIs ==
    ASSUME NEW d
    PROVE  \A s \in SectionNames : AllFrom(d)[s] = d
  BY DEF AllFrom

\* signalstore::write(), wherever it ends.
LEMMA WriteStep == StoreInv /\ Write => StoreInv'
  <1> USE DEF StoreInv, STypeOK, FilesAreWhole, WritesAreWhole, UploadsInstall, SavedIsStored,
              BootsDecode, UploadSurvives, AnswersAreHonest,
              Serving, Writing, SectionNames, Whole, Answer
  <1> SUFFICES ASSUME StoreInv, Write
               PROVE  StoreInv'
    OBVIOUS
  <1>1. CASE Open
    BY <1>1 DEF Open, OpensTemp, bootVars, pastVars
  <1>2. CASE OpenFails
    BY <1>2, AllFromIs DEF OpenFails, WriteReturns, flashVars
  <1>3. CASE Fill
    BY <1>3 DEF Fill, bootVars, pastVars
  <1>4. CASE FillIsCutShort
    BY <1>4 DEF FillIsCutShort, bootVars
  <1>5. CASE FillFails
    BY <1>5, AllFromIs DEF FillFails, WriteReturns
  <1>6. CASE Remove
    BY <1>6 DEF Remove, bootVars, pastVars
  <1>7. CASE Rename
    BY <1>7, PartialIsNotWhole, AllFromIs DEF Rename, WriteReturns
  <1>8. CASE RenameFails
    BY <1>8, AllFromIs DEF RenameFails, WriteReturns
  <1> QED
    BY <1>1, <1>2, <1>3, <1>4, <1>5, <1>6, <1>7, <1>8 DEF Write

\* What the boot sequence puts in force.
LEMMA InstalledType ==
    ASSUME NEW d \in Docs \cup {None, Partial}
    PROVE  /\ InstalledAtBoot(d) \in [SectionNames -> Docs \cup {None}]
           /\ \A s \in SectionNames :
                 InstalledAtBoot(d)[s] # None => s \in InstalledAtBoot(d)[s].valid
           /\ Whole(d) /\ d # None => InstalledAtBoot(d) = AllFrom(d)
  <1>1. CASE d = None
    BY <1>1 DEF InstalledAtBoot, NothingLive
  <1>2. CASE d = Partial
    <2>1. \A s \in SectionNames : ~Parses(d, s)
      BY <1>2 DEF Parses, Partial
    <2>2. InstalledAtBoot(d) = [s \in SectionNames |-> None]
      BY <1>2, <2>1, PartialIsNotWhole DEF InstalledAtBoot, SectionNames
    <2> QED
      BY <1>2, <2>2, PartialIsNotWhole
  <1>3. CASE d \in Docs /\ d # None
    <2>1. InstalledAtBoot(d) =
            [s \in SectionNames |->
                IF s # "gestures" THEN IF Parses(d, s) THEN d ELSE None
                ELSE IF Parses(d, "outputs") /\ Parses(d, s) /\ TargetsKnown(d, d) THEN d ELSE None]
      BY <1>3 DEF InstalledAtBoot, SectionNames
    <2>2. \A s \in SectionNames :
             /\ InstalledAtBoot(d)[s] \in {d, None}
             /\ InstalledAtBoot(d)[s] = d => s \in d.valid
      BY <1>3, <2>1 DEF Parses, SectionNames
    <2>3. Whole(d) => InstalledAtBoot(d) = AllFrom(d)
      BY <1>3, <2>1 DEF Whole, AllFrom, Parses, TargetsKnown, SectionNames
    <2> QED
      BY <1>3, <2>1, <2>2, <2>3
  <1> QED
    BY <1>1, <1>2, <1>3

\* The boot sequence, from the mount to the four loadJson().
LEMMA BootStep == StoreInv /\ Boot => StoreInv'
  <1> USE DEF StoreInv, STypeOK, FilesAreWhole, WritesAreWhole, UploadsInstall, SavedIsStored,
              BootsDecode, UploadSurvives, AnswersAreHonest,
              Serving, Writing, SectionNames, Whole
  <1> SUFFICES ASSUME StoreInv, Boot
               PROVE  StoreInv'
    OBVIOUS
  <1>1. CASE Mount
    BY <1>1 DEF Mount, bootVars, flashVars
  <1>2. CASE MountFails
    BY <1>2 DEF MountFails, bootVars, flashVars
  <1>3. CASE EnsureDefault
    BY <1>3, BuiltInType, PartialIsNotWhole, StoreAssumption
       DEF EnsureDefault, NeedsSeeding, Outdated, flashVars, pastVars
  <1>4. CASE BootLoad
    BY <1>4, InstalledType, AllFromIs DEF BootLoad, bootVars, flashVars, pastVars
  <1> QED
    BY <1>1, <1>2, <1>3, <1>4 DEF Boot

\* POST /signals, up to the write.
LEMMA HandlerStep == StoreInv /\ Handler => StoreInv'
  <1> USE DEF StoreInv, STypeOK, FilesAreWhole, WritesAreWhole, UploadsInstall, SavedIsStored,
              BootsDecode, UploadSurvives, AnswersAreHonest,
              Serving, Writing, SectionNames
  <1> SUFFICES ASSUME StoreInv, Handler
               PROVE  StoreInv'
    OBVIOUS
  <1>1. ASSUME NEW d \in Docs, Upload(d)
        PROVE  StoreInv'
    BY <1>1, DocumentType DEF Upload, flashVars, pastVars
  <1>2. CASE InstallSignals
    BY <1>2 DEF InstallSignals, Installs, Parses, flashVars, pastVars
  <1>3. CASE InstallOutputs
    BY <1>3 DEF InstallOutputs, Installs, Parses, flashVars, pastVars
  <1>4. CASE InstallGestures
    BY <1>4 DEF InstallGestures, Installs, Parses, TargetsKnown, flashVars, pastVars
  <1>5. CASE InstallClock
    BY <1>5, DocumentType DEF InstallClock, Installs, Parses, AllFrom, Whole, Document, flashVars, pastVars
  <1> QED
    BY <1>1, <1>2, <1>3, <1>4, <1>5 DEF Handler

\* The power may fail anywhere.
LEMMA PowerStep == StoreInv /\ PowerFails => StoreInv'
  BY DEF StoreInv, STypeOK, FilesAreWhole, WritesAreWhole, UploadsInstall, SavedIsStored,
         BootsDecode, UploadSurvives, AnswersAreHonest,
         Serving, Writing, SectionNames, Whole, PowerFails, NothingLive, flashVars

\* A board that was never used, and every step.
LEMMA StoreInvStarts == SInit => StoreInv
  BY StoreAssumption
  DEF SInit, StoreInv, STypeOK, FilesAreWhole, WritesAreWhole, UploadsInstall, SavedIsStored,
      BootsDecode, UploadSurvives, AnswersAreHonest, Serving, Writing, SectionNames, NothingLive

LEMMA StoreInvNext == StoreInv /\ [SNext]_svars => StoreInv'
  <1>1. StoreInv /\ UNCHANGED svars => StoreInv'
    BY DEF svars, bootVars, flashVars, pastVars,
           StoreInv, STypeOK, FilesAreWhole, WritesAreWhole, UploadsInstall, SavedIsStored,
           BootsDecode, UploadSurvives, AnswersAreHonest, Serving, Writing
  <1> QED
    BY <1>1, BootStep, HandlerStep, WriteStep, PowerStep DEF SNext

\* What a board keeps of its tables over uploads, refusals and power failures.
THEOREM StoreInvariant == SSpec => []StoreInv
  <1>1. SInit => StoreInv
    BY StoreInvStarts
  <1>2. StoreInv /\ [SNext]_svars => StoreInv'
    BY StoreInvNext
  <1> QED
    BY <1>1, <1>2, PTL DEF SSpec

\* signals.json is missing or whole whenever the power fails.
LEMMA WholeWhenStored == StoreInv => StoredIsWhole
  BY PartialIsNotWhole DEF StoreInv, FilesAreWhole, SavedIsStored, StoredIsWhole

\* No upload, refusal or power failure leaves a board whose flash works without a
\* decode table.
THEOREM BoardsDecode == SSpec => []NeverUndecodable
  <1>1. StoreInv => NeverUndecodable
    BY DEF StoreInv, BootsDecode, NeverUndecodable
  <1> QED
    BY <1>1, StoreInvariant, PTL

\* A saved table is in force after every later boot.
THEOREM UploadsSurvive == SSpec => []UploadSurvives
  <1>1. StoreInv => UploadSurvives
    BY DEF StoreInv
  <1> QED
    BY <1>1, StoreInvariant, PTL

\* The answer to an upload tells what happened.
THEOREM AnswersHonest == SSpec => []AnswersAreHonest
  <1>1. StoreInv => AnswersAreHonest
    BY DEF StoreInv
  <1> QED
    BY <1>1, StoreInvariant, PTL

\* A boot replaces an intact table only by a newer one.
THEOREM TablesNeverRegress == SSpec => NeverRegresses
  <1>1. StoreInv /\ [SNext]_svars =>
            [(Rename /\ origin = "boot" /\ saved # None /\ ~hurt) =>
                 saved'.version > saved.version]_svars
    BY DEF StoreInv, WritesAreWhole, Writing, Rename
  <1> QED
    BY <1>1, StoreInvariant, PTL DEF SSpec, NeverRegresses

-------------------------------------------------------------------------------
(* The two slots: the inductive invariant *)

\* The slot that runs is on trial or confirmed; while it is on trial the other slot is
\* the confirmed one that ran before, and nobody writes it.
Fallback ==
    /\ state[running] \in {"pending", "valid"}
    /\ state[running] = "pending" =>
          /\ Intact(Target) /\ state[Target] = "valid" /\ Target \in reached
          /\ handler = Idle

\* The other slot is selected, as a new image, exactly between its selection and the
\* restart.
SelectedInTurn ==
    /\ handler.pc = "restart" => selected = Target /\ state[Target] = "new" /\ Intact(Target)
    /\ handler.pc # "restart" => selected = running
    /\ \A s \in Slots : state[s] = "new" => handler.pc = "restart" /\ s = Target

\* An address of the image that runs.
AddressIsOfThis == gotIp => running \in reached

OtaInv ==
    /\ OtaTypeOK
    /\ Fallback
    /\ SelectedInTurn
    /\ AddressIsOfThis
    /\ ConfirmedReachedNetwork

-------------------------------------------------------------------------------
(* The firmware: each step preserves it *)

\* There are two slots.
LEMMA TwoSlots ==
    ASSUME NEW s \in Slots
    PROVE  Other(s) \in Slots /\ Other(s) # s /\ Slots = {s, Other(s)} /\ Other(Other(s)) = s
  BY SMT DEF Slots, Other

\* A board that starts runs the image that was just selected, still pending and with the
\* image before it to fall back on; the image that was running; or, when that one was never
\* confirmed, the image before it.
LEMMA StartStep ==
    ASSUME OtaInv, Start, UNCHANGED <<slot, posts, reached>>
    PROVE  OtaInv'
  <1> USE DEF OtaInv, OtaTypeOK
  <1>1. /\ running \in Slots /\ Target \in Slots /\ Target # running
        /\ Slots = {running, Target} /\ Other(Target) = running
      BY TwoSlots DEF Target
  <1>2. /\ ToRun \in Slots
        /\ running' = ToRun /\ selected' = ToRun
        /\ handler' = Idle /\ gotIp' = FALSE /\ verify' = "check"
        /\ slot' = slot /\ posts' = posts /\ reached' = reached
        /\ boots' \in 1 .. MaxBoots
      BY <1>1, TwoSlots, OtaAssumption DEF Start, ToRun
  <1>3. state' \in [Slots -> States]
      BY DEF Start, States
  <1>4. /\ state' = [s \in Slots |-> CASE s = ToRun /\ state[s] = "new"    -> "pending"
                                       [] s # ToRun /\ state[s] = "pending" -> "aborted"
                                       [] OTHER                             -> state[s]]
      BY DEF Start
  <1>5. CASE handler.pc = "restart"
      <2>1. selected = Target /\ state[Target] = "new" /\ Intact(Target)
          BY <1>5 DEF SelectedInTurn
      <2>2. ToRun = Target
          BY <2>1 DEF ToRun, Bootable
      <2>3. state[running] = "valid" /\ running \in reached /\ Intact(running)
          BY <1>5 DEF Fallback, Idle, ConfirmedReachedNetwork
      <2>4. state'[Target] = "pending" /\ state'[running] = "valid"
          BY <1>1, <1>4, <2>1, <2>2, <2>3
      <2>5. running' = Target /\ Target' = running
          BY <1>1, <1>2, <2>2 DEF Target
      <2> QED
          BY <1>1, <1>2, <1>3, <2>1, <2>3, <2>4, <2>5
          DEF Fallback, SelectedInTurn, AddressIsOfThis, ConfirmedReachedNetwork, Intact, Idle
  <1>6. CASE handler.pc # "restart" /\ state[running] = "valid"
      <2>1. ToRun = running
          BY <1>6 DEF SelectedInTurn, ToRun, Bootable
      <2>2. \A s \in Slots : state[s] # "new"
          BY <1>6 DEF SelectedInTurn
      <2>3. state'[running] = "valid" /\ \A s \in Slots : state'[s] # "new"
          BY <1>1, <1>4, <1>6, <2>1, <2>2
      <2> QED
          BY <1>1, <1>2, <1>3, <1>6, <2>1, <2>3
          DEF Fallback, SelectedInTurn, AddressIsOfThis, ConfirmedReachedNetwork, Intact, Idle
  <1>7. CASE handler.pc # "restart" /\ state[running] = "pending"
      <2>1. /\ Intact(Target) /\ state[Target] = "valid" /\ Target \in reached
          BY <1>7 DEF Fallback
      <2>2. ToRun = Target
          BY <1>7 DEF SelectedInTurn, ToRun, Bootable, Target
      <2>3. state'[Target] = "valid" /\ state'[running] = "aborted"
          BY <1>1, <1>4, <1>7, <2>1, <2>2
      <2> QED
          BY <1>1, <1>2, <1>3, <2>1, <2>2, <2>3
          DEF Fallback, SelectedInTurn, AddressIsOfThis, ConfirmedReachedNetwork, Intact, Idle
  <1> QED
      BY <1>5, <1>6, <1>7 DEF Fallback

\* An upload writes the slot that does not run, and selects it once its image is whole.
LEMMA UpdateStep ==
    ASSUME OtaInv, (\E i \in Images : Begin(i)) \/ WriteImage \/ ImageFails \/ Select
    PROVE  OtaInv'
  <1> USE DEF OtaInv, OtaTypeOK
  <1>1. /\ running \in Slots /\ Target \in Slots /\ Target # running
        /\ Slots = {running, Target}
      BY TwoSlots DEF Target
  <1>2. ASSUME NEW i \in Images, Begin(i) PROVE OtaInv'
      <2>1. /\ handler = Idle /\ state[running] = "valid" /\ posts' \in 0 .. MaxPosts
          BY <1>2, OtaAssumption DEF Begin, Fallback
      <2>2. /\ slot' \in [Slots -> Images \cup {Unfinished}]
            /\ slot'[running] = slot[running]
          BY <1>1, <1>2 DEF Begin
      <2>3. handler' = [pc |-> "write", image |-> i] /\ reached' = reached \ {Target}
          BY <1>2 DEF Begin
      <2>4. UNCHANGED <<state, selected, running, gotIp, verify, boots>> /\ Target' = Target
          BY <1>2 DEF Begin, Target
      <2> QED
          BY <1>1, <2>1, <2>2, <2>3, <2>4
          DEF Fallback, SelectedInTurn, AddressIsOfThis, ConfirmedReachedNetwork, Intact, Idle
  <1>3. ASSUME WriteImage PROVE OtaInv'
      <2>1. /\ handler.pc = "write" /\ handler.image \in Images
            /\ handler' = [pc |-> "select", image |-> handler.image]
          BY <1>3 DEF WriteImage, Idle
      <2>2. /\ slot' \in [Slots -> Images \cup {Unfinished}]
            /\ slot'[running] = slot[running]
          BY <1>1, <1>3, <2>1 DEF WriteImage
      <2>3. UNCHANGED <<state, selected, running, gotIp, verify, posts, boots, reached>>
            /\ Target' = Target
          BY <1>3 DEF WriteImage, Target
      <2>4. state[running] = "valid"
          BY <2>1 DEF Fallback, Idle
      <2> QED
          BY <1>1, <2>1, <2>2, <2>3, <2>4
          DEF Fallback, SelectedInTurn, AddressIsOfThis, ConfirmedReachedNetwork, Intact, Idle
  <1>4. ASSUME ImageFails PROVE OtaInv'
      <2>1. handler.pc = "write" /\ handler' = Idle
          BY <1>4 DEF ImageFails
      <2>2. UNCHANGED <<slot, state, selected, running, gotIp, verify, posts, boots, reached>>
            /\ Target' = Target
          BY <1>4 DEF ImageFails, Target
      <2> QED
          BY <1>1, <2>1, <2>2
          DEF Fallback, SelectedInTurn, AddressIsOfThis, ConfirmedReachedNetwork, Intact, Idle
  <1>5. ASSUME Select PROVE OtaInv'
      <2>1. /\ handler.pc = "select" /\ handler.image \in Images
            /\ UNCHANGED <<slot, running, gotIp, verify, posts, boots, reached>>
            /\ Target' = Target
          BY <1>5 DEF Select, Target, Idle
      <2>2. state[running] = "valid" /\ \A s \in Slots : state[s] # "new"
          BY <2>1 DEF Fallback, SelectedInTurn, Idle
      <2>3. CASE Intact(Target)
          <3>1. /\ selected' = Target
                /\ handler' = [pc |-> "restart", image |-> handler.image]
                /\ state' = [state EXCEPT ![Target] = "new"]
              BY <1>5, <2>1, <2>3 DEF Select, Idle
          <3>2. /\ state' \in [Slots -> States]
                /\ state'[Target] = "new" /\ state'[running] = "valid"
              BY <1>1, <2>2, <3>1 DEF States
          <3> QED
              BY <1>1, <2>1, <2>2, <2>3, <3>1, <3>2
              DEF Fallback, SelectedInTurn, AddressIsOfThis, ConfirmedReachedNetwork, Intact, Idle
      <2>4. CASE ~Intact(Target)
          <3>1. handler' = Idle /\ UNCHANGED <<selected, state>>
              BY <1>5, <2>4 DEF Select
          <3> QED
              BY <1>1, <2>1, <2>2, <3>1
              DEF Fallback, SelectedInTurn, AddressIsOfThis, ConfirmedReachedNetwork, Intact, Idle
      <2> QED
          BY <2>3, <2>4
  <1> QED
      BY <1>2, <1>3, <1>4, <1>5

\* An image is confirmed by an address of its own.
LEMMA VerifyStep ==
    ASSUME OtaInv, GotIp \/ CheckState \/ Confirm
    PROVE  OtaInv'
  <1> USE DEF OtaInv, OtaTypeOK
  <1>1. /\ running \in Slots /\ Target \in Slots /\ Target # running
        /\ Slots = {running, Target}
      BY TwoSlots DEF Target
  <1>2. /\ UNCHANGED <<slot, selected, running, handler, posts, boots>> /\ Target' = Target
      BY DEF GotIp, CheckState, Confirm, Target
  <1>3. ASSUME GotIp PROVE OtaInv'
      <2>1. /\ gotIp' \in BOOLEAN /\ reached' = reached \cup {running} /\ UNCHANGED <<state, verify>>
          BY <1>3 DEF GotIp, Given
      <2> QED
          BY <1>1, <1>2, <2>1
          DEF Fallback, SelectedInTurn, AddressIsOfThis, ConfirmedReachedNetwork, Intact, Idle
  <1>4. ASSUME CheckState PROVE OtaInv'
      <2>1. verify' \in {"check", "wait", "done"} /\ UNCHANGED <<state, gotIp, reached>>
          BY <1>4 DEF CheckState
      <2> QED
          BY <1>1, <1>2, <2>1
          DEF Fallback, SelectedInTurn, AddressIsOfThis, ConfirmedReachedNetwork, Intact, Idle
  <1>5. ASSUME Confirm PROVE OtaInv'
      <2>1. /\ gotIp /\ gotIp' = FALSE /\ verify' = "done" /\ reached' = reached
            /\ state' = [state EXCEPT ![running] = "valid"]
          BY <1>5 DEF Confirm, Connected
      <2>2. /\ state' \in [Slots -> States] /\ state'[running] = "valid"
            /\ state'[Target] = state[Target]
          BY <1>1, <2>1 DEF States
      <2>3. running \in reached
          BY <2>1 DEF AddressIsOfThis
      <2>4. handler.pc = "restart" => state[Target] = "new"
          BY DEF SelectedInTurn
      <2> QED
          BY <1>1, <1>2, <2>1, <2>2, <2>3, <2>4
          DEF Fallback, SelectedInTurn, AddressIsOfThis, ConfirmedReachedNetwork, Intact, Idle
  <1> QED
      BY <1>3, <1>4, <1>5

-------------------------------------------------------------------------------
(* The firmware: what is proved of it *)

\* A board from the factory, and every step.
LEMMA OtaInvStarts == OtaInit => OtaInv
  <1> SUFFICES ASSUME OtaInit PROVE OtaInv
      OBVIOUS
  <1>1. Shipped \in Images /\ 1 \in 1 .. MaxBoots /\ 0 \in 0 .. MaxPosts
      BY OtaAssumption
  <1>2. /\ slot[0] = Shipped /\ state[0] = "valid" /\ state[1] = "aborted"
        /\ slot \in [Slots -> Images \cup {Unfinished}] /\ state \in [Slots -> States]
      BY <1>1 DEF OtaInit, Slots, States
  <1>3. /\ selected = 0 /\ running = 0 /\ gotIp = FALSE /\ verify = "check" /\ handler = Idle
        /\ posts = 0 /\ boots = 1 /\ reached = {0}
      BY DEF OtaInit
  <1>4. OtaTypeOK
      BY <1>1, <1>2, <1>3 DEF OtaTypeOK, Intact, Slots
  <1>5. Fallback /\ AddressIsOfThis /\ ConfirmedReachedNetwork
      BY <1>2, <1>3 DEF Fallback, AddressIsOfThis, ConfirmedReachedNetwork
  <1>6. SelectedInTurn
      BY <1>2, <1>3 DEF SelectedInTurn, Idle, Slots
  <1> QED
      BY <1>4, <1>5, <1>6 DEF OtaInv

LEMMA OtaInvNext == OtaInv /\ [OtaNext]_ovars => OtaInv'
  <1> SUFFICES ASSUME OtaInv, [OtaNext]_ovars PROVE OtaInv'
      OBVIOUS
  <1>1. CASE PowerCycle \/ Crash \/ RestartIntoIt
      BY <1>1, StartStep DEF PowerCycle, Crash, RestartIntoIt
  <1>2. CASE (\E i \in Images : Begin(i)) \/ WriteImage \/ ImageFails \/ Select
      BY <1>2, UpdateStep
  <1>3. CASE GotIp \/ CheckState \/ Confirm
      BY <1>3, VerifyStep
  <1>4. CASE UNCHANGED ovars
      BY <1>4
      DEF ovars, OtaInv, OtaTypeOK, Fallback, SelectedInTurn, AddressIsOfThis,
          ConfirmedReachedNetwork, Intact, Target, Other
  <1> QED
      BY <1>1, <1>2, <1>3, <1>4 DEF OtaNext, Update, Verify

\* The board always has an image to start: the one that runs, the one it was told to
\* run, or - while the one that runs is not confirmed - the one before it, which no upload
\* may touch until then (firmware_post_handler, otaVerifyTask).
LEMMA OtaInvBoots == OtaInv => AlwaysBoots
  BY TwoSlots
  DEF OtaInv, OtaTypeOK, Fallback, SelectedInTurn, AlwaysBoots, ToRun, Bootable, Intact, Target

\* Whatever is uploaded, whenever the power fails and whether or not there is an address:
\* the slots, the boot selection and the handler stay consistent (firmware_post_handler,
\* otaVerifyTask, onGotIp).
THEOREM OtaInvariant == OtaSpec => []OtaInv
  <1>1. OtaInit => OtaInv
      BY OtaInvStarts
  <1>2. OtaInv /\ [OtaNext]_ovars => OtaInv'
      BY OtaInvNext
  <1> QED
      BY <1>1, <1>2, PTL DEF OtaSpec

\* Whenever the power fails, the bootloader finds an image that may run: no upload, failed
\* image or unconfirmed start leaves a board that does not boot.
THEOREM BoardBoots == OtaSpec => []AlwaysBoots
  <1>1. OtaInv => AlwaysBoots
      BY OtaInvBoots
  <1> QED
      BY <1>1, OtaInvariant, PTL

\* "Confirms a freshly OTA'd image once it has proved it can reach the network": an image
\* that is confirmed had an address since it was written, whatever was written over it
\* (otaVerifyTask, onGotIp).
THEOREM ConfirmedWasReached == OtaSpec => []ConfirmedReachedNetwork
  <1>1. OtaInv => ConfirmedReachedNetwork
      BY DEF OtaInv
  <1> QED
      BY <1>1, OtaInvariant, PTL

-------------------------------------------------------------------------------
(* The composition that the run checks *)

\* The two parts take turns in no behaviour, so each keeps its invariant.
LEMMA FlashInvNext ==
    ASSUME StoreInv, OtaInv, [TableAlone \/ FirmwareAlone]_flvars
    PROVE  StoreInv' /\ OtaInv'
  <1>1. CASE TableAlone
      <2>1. StoreInv'
          BY <1>1, StoreInvNext DEF TableAlone
      <2>2. OtaInv'
          BY <1>1, OtaInvNext DEF TableAlone
      <2> QED
          BY <2>1, <2>2
  <1>2. CASE FirmwareAlone
      <2>1. StoreInv'
          BY <1>2, StoreInvNext DEF FirmwareAlone
      <2>2. OtaInv'
          BY <1>2, OtaInvNext DEF FirmwareAlone
      <2> QED
          BY <2>1, <2>2
  <1>3. CASE UNCHANGED flvars
      BY <1>3, StoreInvNext, OtaInvNext DEF flvars
  <1> QED
      BY <1>1, <1>2, <1>3

\* The table and the firmware of one board, in one specification: the types, a stored table
\* that is whole or missing, and a confirmed image that had an address.
THEOREM FlashIsSound == FlSpec => []FlashSound
  <1>1. FlInit => StoreInv /\ OtaInv
      BY StoreInvStarts, OtaInvStarts DEF FlInit
  <1>2. StoreInv /\ OtaInv /\ [TableAlone \/ FirmwareAlone]_flvars => StoreInv' /\ OtaInv'
      BY FlashInvNext
  <1>3. StoreInv /\ OtaInv => FlashSound
      BY WholeWhenStored DEF StoreInv, OtaInv, FlashSound
  <1> QED
      BY <1>1, <1>2, <1>3, PTL DEF FlSpec
===============================================================================
