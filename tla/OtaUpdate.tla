------------------------------- MODULE OtaUpdate -------------------------------
(***************************************************************************)
(* A firmware update: POST /firmware (main/CanWebServer.cpp) writes the    *)
(* slot that is not running and reboots; otaVerifyTask and onGotIp         *)
(* (main/main.cpp) confirm the new image once it has an address.           *)
(*                                                                         *)
(* The bootloader and esp_ota are external.  An image that is selected     *)
(* starts as "new" and runs as "pending"; one that is still pending when   *)
(* the board starts again is aborted, and the other slot runs.  The power  *)
(* fails at any moment: it is switched with the ignition.                  *)
(***************************************************************************)
EXTENDS Naturals

CONSTANTS
    Images,      \* firmware images
    Mute,        \* those that never get an address
    Crashing,    \* those that crash before they have one
    Shipped,     \* the image that was flashed over serial
    MaxPosts,    \* bound on the uploads
    MaxBoots     \* bound on the starts

ASSUME OtaAssumption ==
    /\ Mute \subseteq Images /\ Crashing \subseteq Images
    /\ Shipped \in Images \ (Mute \cup Crashing)
    /\ MaxPosts \in Nat /\ MaxBoots \in Nat \ {0}

VARIABLES
    slot,       \* what each slot holds
    state,      \* esp_ota_img_states_t of each slot
    selected,   \* the boot partition
    running,    \* the slot that runs
    gotIp,      \* s_got_ip, a binary semaphore
    verify,     \* otaVerifyTask: where it is
    handler,    \* firmware_post_handler: where it is, with which image
    posts,      \* uploads so far
    boots,      \* starts so far
    reached     \* history: the slots whose image has had an address

ovars == <<slot, state, selected, running, gotIp, verify, handler, posts, boots, reached>>

Slots == {0, 1}
Unfinished == "partial"

States == {"new", "pending", "valid", "aborted"}

Other(s) == 1 - s

Idle == [pc |-> "idle"]

ThisImage == slot[running]

-------------------------------------------------------------------------------
(* The bootloader *)

Intact(s) == slot[s] \in Images

\* A pending image was not confirmed by the boot before.
Bootable(s) == Intact(s) /\ state[s] \in {"new", "valid"}

ToRun == IF Bootable(selected) THEN selected ELSE Other(selected)

\* The board starts: power, esp_restart() or a crash.
Start ==
    /\ boots < MaxBoots
    /\ boots' = boots + 1
    /\ Bootable(ToRun)
    /\ running' = ToRun
    /\ selected' = ToRun
    /\ state' = [s \in Slots |->
                    CASE s = ToRun /\ state[s] = "new"    -> "pending"
                      [] s # ToRun /\ state[s] = "pending" -> "aborted"
                      [] OTHER                             -> state[s]]
    /\ gotIp' = FALSE /\ verify' = "check" /\ handler' = Idle

PowerCycle == Start /\ UNCHANGED <<slot, posts, reached>>

Crash == ThisImage \in Crashing /\ ~gotIp /\ Start /\ UNCHANGED <<slot, posts, reached>>

-------------------------------------------------------------------------------
(* firmware_post_handler *)

\* Seeded fault: the partition that runs is written.
TargetRunning == running

\* esp_ota_get_next_update_partition()
Target == Other(running)

\* esp_ota_begin(), which refuses while the running image is not confirmed.
Begin(image) ==
    /\ handler = Idle
    /\ posts < MaxPosts /\ posts' = posts + 1
    /\ state[running] # "pending"
    /\ handler' = [pc |-> "write", image |-> image]
    /\ slot' = [slot EXCEPT ![Target] = Unfinished]
    /\ reached' = reached \ {Target}
    /\ UNCHANGED <<state, selected, running, gotIp, verify, boots>>

\* esp_ota_write() up to the end, and esp_ota_end(), which checks the image.
WriteImage ==
    /\ handler.pc = "write"
    /\ slot' = [slot EXCEPT ![Target] = handler.image]
    /\ handler' = [handler EXCEPT !.pc = "select"]
    /\ UNCHANGED <<state, selected, running, gotIp, verify, posts, boots, reached>>

\* "request body truncated", a write that fails, or an image that is not one: abort.
ImageFails ==
    /\ handler.pc = "write"
    /\ handler' = Idle
    /\ UNCHANGED <<slot, state, selected, running, gotIp, verify, posts, boots, reached>>

\* esp_ota_set_boot_partition(), which checks the image again.
Select ==
    /\ handler.pc = "select"
    /\ IF Intact(Target)
       THEN /\ selected' = Target
            /\ state' = [state EXCEPT ![Target] = "new"]
            /\ handler' = [handler EXCEPT !.pc = "restart"]
       ELSE handler' = Idle /\ UNCHANGED <<selected, state>>
    /\ UNCHANGED <<slot, running, gotIp, verify, posts, boots, reached>>

\* "ok" is answered, and half a second later esp_restart().
RestartIntoIt ==
    /\ handler.pc = "restart"
    /\ Start
    /\ UNCHANGED <<slot, posts, reached>>

-------------------------------------------------------------------------------
(* otaVerifyTask and onGotIp *)

\* Seeded fault: an address is only noticed by a task that waits for it.
GivenWhenWaiting == verify = "wait"

\* xSemaphoreGive(): the semaphore is created before Wi-Fi.
Given == TRUE

GotIp ==
    /\ ThisImage \notin Mute \cup Crashing
    /\ gotIp' = (gotIp \/ Given)
    /\ reached' = reached \cup {running}
    /\ UNCHANGED <<slot, state, selected, running, verify, handler, posts, boots>>

\* An image that is not pending has nothing to verify.
CheckState ==
    /\ verify = "check"
    /\ verify' = IF state[running] = "pending" THEN "wait" ELSE "done"
    /\ UNCHANGED <<slot, state, selected, running, gotIp, handler, posts, boots, reached>>

\* xSemaphoreTake(portMAX_DELAY)
Connected == gotIp

Confirm ==
    /\ verify = "wait"
    /\ Connected
    /\ state' = [state EXCEPT ![running] = "valid"]
    /\ gotIp' = FALSE /\ verify' = "done"
    /\ UNCHANGED <<slot, selected, running, handler, posts, boots, reached>>

-------------------------------------------------------------------------------
(* Specification *)

OtaInit ==
    /\ slot = [s \in Slots |-> IF s = 0 THEN Shipped ELSE Unfinished]
    /\ state = [s \in Slots |-> IF s = 0 THEN "valid" ELSE "aborted"]
    /\ selected = 0 /\ running = 0
    /\ gotIp = FALSE /\ verify = "check" /\ handler = Idle
    /\ posts = 0 /\ boots = 1 /\ reached = {0}

Update == (\E i \in Images : Begin(i)) \/ WriteImage \/ ImageFails \/ Select \/ RestartIntoIt

Verify == CheckState \/ Confirm

OtaNext == PowerCycle \/ Crash \/ Update \/ GotIp \/ Verify

\* otaVerifyTask runs, and esp_restart() happens; nothing is assumed of Wi-Fi, the client
\* or the ignition.
OtaSpec == OtaInit /\ [][OtaNext]_ovars /\ WF_ovars(Verify) /\ WF_ovars(RestartIntoIt)

-------------------------------------------------------------------------------
(* Properties *)

\* Every variable has its type, and the running slot is whole.
OtaTypeOK ==
    /\ slot \in [Slots -> Images \cup {Unfinished}] /\ state \in [Slots -> States]
    /\ selected \in Slots /\ running \in Slots /\ Intact(running)
    /\ gotIp \in BOOLEAN /\ verify \in {"check", "wait", "done"}
    /\ handler \in {Idle} \cup [pc : {"write", "select", "restart"}, image : Images]
    /\ posts \in 0 .. MaxPosts /\ boots \in 1 .. MaxBoots
    /\ reached \subseteq Slots

\* Whenever the power fails, the bootloader finds an image that may run.
AlwaysBoots == Bootable(ToRun)

\* "Confirms a freshly OTA'd image once it has proved it can reach the network": the image
\* that runs is only confirmed if it had an address since it was written.
ConfirmedReachedNetwork == state[running] = "valid" => running \in reached

\* A pending image that has had an address is confirmed, unless the board starts again.
AddressConfirms ==
    \A b \in 1 .. MaxBoots :
        (boots = b /\ state[running] = "pending" /\ running \in reached)
            ~> (state[running] = "valid" \/ boots # b)

\* "an image that boots but can't reach the network rolls itself back"
RollsItselfBack ==
    (ThisImage \in Mute /\ boots < MaxBoots) ~> (ThisImage \notin Mute \/ boots = MaxBoots)
===============================================================================
