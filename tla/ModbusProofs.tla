----------------------------- MODULE ModbusProofs -----------------------------
(***************************************************************************)
(* Proofs about ModbusReconciler, for any number of nodes, any coil        *)
(* patterns and tables, and any number of failures and notifications.      *)
(***************************************************************************)
EXTENDS ModbusReconciler, NaturalFacts, TLAPS

-------------------------------------------------------------------------------
(* The inductive invariant *)

\* What remains to be written is part of what was looked at.
TodoInPicture == At("write") => task.todo \subseteq DOMAIN picture

\* From the look on, a change cannot hide: this extends NoLostWakeup to the
\* whole cycle, for a change may come between the look and the wait.
ChangesAreKnown ==
    (At("write") \/ At("clock") \/ (At("wait") /\ running)) /\ picture # wanted
        => notified \/ hooks > 0 \/ silent

\* Until the last write of the cycle: no failure so far, and at least one answer.
AnswersCount ==
    /\ At("write") /\ task.allOk /\ task.todo # DOMAIN picture => consecErr = 0
    /\ CleanCycleIsUp

RInv == RTypeOK /\ TodoInPicture /\ ChangesAreKnown /\ AnswersCount

-------------------------------------------------------------------------------
(* Lemmas *)

\* The next node of a cycle is one of those that remain.
LEMMA NextNode ==
    ASSUME NEW S \in SUBSET Nodes, S # {}
    PROVE  Min(S) \in S
  <1>1. \E x \in S : \A y \in S : x <= y
    BY LeastOf, ReconcilerAssumption
  <1> QED
    BY <1>1 DEF Min

\* What a bank may want names nodes, and a pattern for each.
LEMMA DemandType ==
    ASSUME NEW w \in Demands
    PROVE  /\ DOMAIN w \in SUBSET Nodes
           /\ \A n \in DOMAIN w : w[n] \in Patterns
  <1>1. PICK used \in Tables : w \in [used -> Patterns]
    BY DEF Demands
  <1> QED
    BY <1>1, ReconcilerAssumption

\* What the task is about to write is for a node, and is a pattern.
LEMMA PictureType ==
    ASSUME RTypeOK, NEW n \in DOMAIN picture
    PROVE  n \in Nodes /\ picture[n] \in Patterns
  <1>1. CASE picture \in Demands
    BY <1>1, DemandType
  <1>2. CASE picture = [m \in {} |-> Dark]
    BY <1>2
  <1> QED
    BY <1>1, <1>2 DEF RTypeOK

\* The task starts with the invariant.
LEMMA InitInv == RInit => RInv
  <1> SUFFICES ASSUME RInit
               PROVE  RInv
    OBVIOUS
  <1>1. RTypeOK
    <2>1. 0 \in 0 .. MaxHooks /\ 0 \in 0 .. BriskLimit
      BY ReconcilerAssumption
    <2>2. held \in [Nodes -> Patterns]
      BY ReconcilerAssumption DEF RInit
    <2> QED
      BY <2>1, <2>2 DEF RInit, RTypeOK
  <1>2. TodoInPicture /\ ChangesAreKnown /\ AnswersCount
    BY DEF RInit, TodoInPicture, ChangesAreKnown, AnswersCount, CleanCycleIsUp, At
  <1> QED
    BY <1>1, <1>2 DEF RInv

\* Outputs, settings and the wire preserve it.
LEMMA EnvironmentInv == RInv /\ Environment => RInv'
  <1> SUFFICES ASSUME RInv, Environment
               PROVE  RInv'
    OBVIOUS
  <1> USE DEF RInv, RTypeOK, TodoInPicture, ChangesAreKnown, AnswersCount, CleanCycleIsUp, At,
              inputVars, busVars, envVars, linkVars
  <1>0. MaxHooks \in Nat /\ Dark \in Patterns
    BY ReconcilerAssumption
  <1>1. CASE OutputMoves
    BY <1>0, <1>1 DEF OutputMoves
  <1>2. CASE TableReplaced
    BY <1>2 DEF TableReplaced
  <1>3. CASE EnableChanges
    BY <1>0, <1>3 DEF EnableChanges
  <1>4. CASE Notify
    BY <1>0, <1>4 DEF Notify
  <1>5. CASE PeriodPasses
    BY <1>5 DEF PeriodPasses
  <1>6. ASSUME NEW n \in Nodes, WireChanges(n)
        PROVE  RInv'
    BY <1>6 DEF WireChanges
  <1>7. ASSUME NEW n \in Nodes, NodeRestarts(n)
        PROVE  RInv'
    BY <1>0, <1>7 DEF NodeRestarts
  <1> QED
    BY <1>1, <1>2, <1>3, <1>4, <1>5, <1>6, <1>7 DEF Environment

\* Every step of the loop preserves it.
LEMMA TaskInv == RInv /\ ModbusTask => RInv'
  <1> SUFFICES ASSUME RInv, ModbusTask
               PROVE  RInv'
    OBVIOUS
  <1> USE DEF RInv, RTypeOK, TodoInPicture, ChangesAreKnown, AnswersCount, CleanCycleIsUp, At,
              inputVars, busVars, envVars, linkVars
  <1>0. BriskLimit \in Nat \ {0}
    BY ReconcilerAssumption
  <1>1. CASE StartFails
    BY <1>1 DEF StartFails
  <1>2. CASE RetryEnds
    BY <1>2 DEF RetryEnds
  <1>3. CASE Start
    BY <1>0, <1>3 DEF Start
  <1>4. CASE Continue
    BY <1>4 DEF Continue
  <1>5. CASE Disabled
    BY <1>5 DEF Disabled
  <1>6. CASE LookAtOutputs
    <2>1. DOMAIN wanted \in SUBSET Nodes
      BY DemandType
    <2> QED
      BY <1>6, <2>1 DEF LookAtOutputs
  <1>7. CASE WriteCoils
    <2> DEFINE n == Min(task.todo)
    <2>1. /\ task.pc = "write" /\ task.allOk \in BOOLEAN
          /\ task.todo \in SUBSET Nodes /\ task.todo # {}
      BY <1>7 DEF WriteCoils
    <2>2. n \in task.todo /\ n \in DOMAIN picture
      BY <2>1, NextNode
    <2>3. task' = [pc |-> "write", todo |-> task.todo \ {n}, allOk |-> task.allOk /\ n \in answers]
      BY <1>7, <2>1 DEF WriteCoils, LeftAfter
    <2>4. held' \in [Nodes -> Patterns]
      BY <1>7, <2>2, PictureType DEF WriteCoils, BitsFor
    <2>5. /\ consecErr' \in 0 .. BriskLimit
          /\ n \in answers => consecErr' = 0
      BY <1>0, <1>7 DEF WriteCoils, CountCoils
    <2>6. UNCHANGED <<wanted, picture, silent, inputVars, running, answers, linkVars>>
      BY <1>7 DEF WriteCoils
    <2> HIDE DEF n
    <2>7. RTypeOK'
      BY <2>1, <2>3, <2>4, <2>5, <2>6
    <2>8. TodoInPicture' /\ ChangesAreKnown' /\ AnswersCount'
      BY <2>1, <2>3, <2>5, <2>6
    <2> QED
      BY <2>7, <2>8
  <1>8. CASE WritesEnd
    <2>1. DOMAIN wanted \in SUBSET Nodes
      BY DemandType
    <2>2. task.pc = "write" /\ task.allOk \in BOOLEAN /\ task.todo = {}
      BY <1>8 DEF WritesEnd
    <2>3. PICK S \in SUBSET Nodes : task' = [pc |-> "clock", allOk |-> task.allOk, todo |-> S]
      BY <1>8, <2>1 DEF WritesEnd
    <2>4. UNCHANGED <<wanted, picture, silent, inputVars, lastLinkUp, busVars, envVars>>
      BY <1>8 DEF WritesEnd
    <2>5. timeDue' \in BOOLEAN
      BY <1>8 DEF WritesEnd
    <2> QED
      BY <2>2, <2>3, <2>4, <2>5
  <1>9. CASE WriteClock
    <2> DEFINE S == task.todo \ {Min(task.todo)}
    <2>1. task.pc = "clock" /\ task.allOk \in BOOLEAN /\ S \in SUBSET Nodes
      BY <1>9 DEF WriteClock
    <2>2. task' = [pc |-> "clock", todo |-> S, allOk |-> task.allOk]
      BY <1>9, <2>1 DEF WriteClock
    <2>3. UNCHANGED <<wanted, picture, silent, inputVars, busVars, envVars, linkVars>>
      BY <1>9 DEF WriteClock, CountClock
    <2> HIDE DEF S
    <2> QED
      BY <2>1, <2>2, <2>3
  <1>10. CASE Report
    <2>1. lastLinkUp' \in {"unknown", "up", "down"}
      BY <1>10 DEF Report, LinkState
    <2>2. task.pc = "clock" /\ IsBrisk \in BOOLEAN
      BY <1>10 DEF Report, IsBrisk
    <2>3. /\ task' = [pc |-> "wait", brisk |-> IsBrisk]
          /\ UNCHANGED <<wanted, picture, silent, inputVars, timeDue, busVars, envVars>>
      BY <1>10 DEF Report
    <2> QED
      BY <2>1, <2>2, <2>3
  <1>11. CASE Wake
    BY <1>11 DEF Wake
  <1> QED
    BY <1>1, <1>2, <1>3, <1>4, <1>5, <1>6, <1>7, <1>8, <1>9, <1>10, <1>11 DEF ModbusTask

\* So does standing still.
LEMMA StutterInv == RInv /\ UNCHANGED rvars => RInv'
  BY DEF RInv, RTypeOK, TodoInPicture, ChangesAreKnown, AnswersCount, CleanCycleIsUp, At,
         rvars, inputVars, busVars, envVars, linkVars

-------------------------------------------------------------------------------
(* The theorems *)

\* The invariant holds through any order of changes, failures and notifications.
THEOREM ReconcilerInvariant == RSpec => []RInv
  <1>1. RInv /\ [RNext]_rvars => RInv'
    BY EnvironmentInv, TaskInv, StutterInv DEF RNext
  <1> QED
    BY <1>1, InitInv, PTL DEF RSpec

\* No change that announced itself is slept over.
THEOREM NoChangeIsSleptOver == RSpec => []NoLostWakeup
  <1>1. RInv => NoLostWakeup
    BY DEF RInv, ChangesAreKnown, NoLostWakeup
  <1> QED
    BY <1>1, ReconcilerInvariant, PTL

\* A cycle whose coil writes were all answered is reported up.
THEOREM CleanCyclesAreUp == RSpec => []CleanCycleIsUp
  <1>1. RInv => CleanCycleIsUp
    BY DEF RInv, AnswersCount
  <1> QED
    BY <1>1, ReconcilerInvariant, PTL

\* A step of the reconciler is a step of the mirror or leaves it alone.
LEMMA MirrorStep == RInv /\ [RNext]_rvars => [Mirror!MirrorNext]_(Mirror!mirrorVars)
  <1> SUFFICES ASSUME RInv, [RNext]_rvars
               PROVE  [Mirror!MirrorNext]_(Mirror!mirrorVars)
    OBVIOUS
  <1> USE DEF Mirror!MirrorNext, Mirror!mirrorVars
  <1>1. CASE OutputMoves \/ TableReplaced
    BY <1>1 DEF OutputMoves, TableReplaced, envVars, Mirror!Move, Mirror!Demands, Demands
  <1>2. CASE \E n \in Nodes : NodeRestarts(n)
    BY <1>2 DEF NodeRestarts, Mirror!Restart
  <1>3. CASE LookAtOutputs
    BY <1>3 DEF LookAtOutputs, envVars, Mirror!Look
  <1>4. CASE WriteCoils
    <2> DEFINE n == Min(task.todo)
    <2>1. n \in task.todo /\ n \in Nodes
      BY <1>4, NextNode DEF WriteCoils, RInv, RTypeOK, At
    <2>2. n \in DOMAIN picture
      BY <1>4, <2>1 DEF WriteCoils, RInv, TodoInPicture
    <2>3. UNCHANGED <<wanted, picture>>
      BY <1>4 DEF WriteCoils
    <2>4. held' = [held EXCEPT ![n] = picture[n]] \/ UNCHANGED held
      BY <1>4 DEF WriteCoils, BitsFor
    <2> HIDE DEF n
    <2> QED
      BY <2>1, <2>2, <2>3, <2>4 DEF Mirror!Copy
  <1>5. CASE \/ EnableChanges \/ Notify \/ PeriodPasses
             \/ \E n \in Nodes : WireChanges(n)
    BY <1>5 DEF EnableChanges, Notify, PeriodPasses, WireChanges, envVars
  <1>6. CASE \/ StartFails \/ RetryEnds \/ Start \/ Continue \/ Disabled
             \/ WritesEnd \/ WriteClock \/ Report \/ Wake
    BY <1>6 DEF StartFails, RetryEnds, Start, Continue, Disabled, WritesEnd, WriteClock,
                Report, Wake, envVars
  <1>7. CASE UNCHANGED rvars
    BY <1>7 DEF rvars, envVars
  <1> QED
    BY <1>1, <1>2, <1>3, <1>4, <1>5, <1>6, <1>7 DEF RNext, Environment, ModbusTask

\* The reconciler implements the mirror: every step of the task, the wire and the
\* settings is a step of CoilMirror or leaves its variables alone.
THEOREM ImplementsMirror == RSpec => IsMirror
  <1>1. RInit => Mirror!MirrorInit
    BY DEF RInit, Mirror!MirrorInit, Mirror!Demands, Demands
  <1> QED
    BY <1>1, MirrorStep, ReconcilerInvariant, PTL DEF RSpec, IsMirror, Mirror!MirrorSpec
===============================================================================
