---------------------------- MODULE HelperProofs ----------------------------
(***************************************************************************)
(* Proofs about the helper.  About its setup (HelperSetup), for any number *)
(* of builds and faults and both placements: a setup that reports success  *)
(* has started the program it was asked to start, and whatever crashes and *)
(* reboots, that is the program the next boot starts.  About what it       *)
(* publishes (TemperaturePath), for every timing: no temperature is shown  *)
(* that a dead helper has left behind.                                     *)
(***************************************************************************)
EXTENDS TemperaturePath, TLAPS

(* Only a setup installs the driver and registers the service. *)
OnlySetupRegisters == step \in {"stage", "verify", "driver", "create", "start"} => task = "setup"

(* When the service is created the program is the one that came with the   *)
(* interface: copied, or in place.                                         *)
CopiedBeforeCreated == step \in {"create", "start"} => installed = Beside

(* The service that is started is the one just created. *)
CreatedBeforeStarted == step = "start" => service = "registered"

(* An upgrade was begun because there is a newer build. *)
UpgradeIsToNewer == step # "none" /\ task = "upgrade" => app < Newest

(* While an elevated process runs, there is no outcome yet. *)
UnknownUntilItExits == step # "none" => outcome = Unknown

IInv ==
  /\ TypeOK
  /\ UnknownUntilItExits
  /\ UpgradeIsToNewer
  /\ OnlySetupRegisters
  /\ CopiedBeforeCreated
  /\ CreatedBeforeStarted
  /\ SetupLasts

-----------------------------------------------------------------------------
(* The initial states satisfy the invariant. *)
LEMMA InitIInv == Init => IInv
  <1> SUFFICES ASSUME Init
               PROVE  IInv
    OBVIOUS
  <1>1. inPlace \in BOOLEAN
    BY SetupAssumption DEF SetupAssumption, Init
  <1>2. withDriver \in BOOLEAN /\ stop \in BOOLEAN
    BY Zenon DEF Init
  <1>3. QED
    BY <1>1, <1>2, SetupAssumption DEF SetupAssumption, Init, IInv, TypeOK,
       UpgradeIsToNewer, OnlySetupRegisters, CopiedBeforeCreated,
       UnknownUntilItExits, CreatedBeforeStarted, SetupLasts, Reported, Unknown

(* A fault is counted up to its bound. *)
LEMMA FaultsCounted ==
  ASSUME TypeOK, Fault \/ UNCHANGED faults
  PROVE  faults' \in 0 .. MaxFaults
  <1>1. faults \in 0 .. MaxFaults /\ MaxFaults \in Nat
    BY SetupAssumption DEF SetupAssumption, TypeOK
  <1>2. Fault => faults' \in 0 .. MaxFaults
    BY <1>1 DEF Fault
  <1>3. QED
    BY <1>1, <1>2

(* The helper process: it starts and ends without the elevated process. *)
LEMMA ProcessIInv ==
  ASSUME IInv,
         ProcessStep \/ Crash \/ Reap
  PROVE  IInv'
  <1> USE SetupAssumption DEF SetupAssumption, IInv, Reported,
              SetupLasts, UnknownUntilItExits, UpgradeIsToNewer, OnlySetupRegisters,
              CopiedBeforeCreated, CreatedBeforeStarted, Beside
  <1>1. CASE BeginSampling
    <2>1. faults' \in 0 .. MaxFaults
      BY <1>1, FaultsCounted DEF BeginSampling
    <2>2. withDriver' \in BOOLEAN
      BY <1>1, Zenon DEF BeginSampling, TypeOK
    <2>3. QED
      BY <1>1, <2>1, <2>2 DEF BeginSampling, TypeOK, machine, elevated
  <1>2. CASE CannotPublish
    <2>1. faults' \in 0 .. MaxFaults
      BY <1>2, FaultsCounted DEF CannotPublish
    <2>2. QED
      BY <1>2, <2>1 DEF CannotPublish, TypeOK, machine, elevated
  <1>3. CASE EndLoop
    BY <1>3 DEF EndLoop, TypeOK, machine, elevated
  <1>4. CASE ProcessExits
    <2>1. withDriver' \in BOOLEAN /\ stop' \in BOOLEAN
      BY <1>4, Zenon DEF ProcessExits, Ends
    <2>2. QED
      BY <1>4, <2>1 DEF ProcessExits, Ends, TypeOK, machine, elevated
  <1>5. CASE Crash
    <2>1. faults' \in 0 .. MaxFaults
      BY <1>5, FaultsCounted DEF Crash
    <2>2. withDriver' \in BOOLEAN /\ stop' \in BOOLEAN
      BY <1>5, Zenon DEF Crash, Ends
    <2>3. QED
      BY <1>5, <2>1, <2>2 DEF Crash, Ends, TypeOK, machine, elevated
  <1>6. CASE Reap
    BY <1>6 DEF Reap, TypeOK, machine, elevated, processVars
  <1>7. QED
    BY <1>1, <1>2, <1>3, <1>4, <1>5, <1>6 DEF ProcessStep

(* A reboot starts what is registered. *)
LEMMA RebootIInv ==
  ASSUME IInv, Reboot
  PROVE  IInv'
  <1>1. faults' \in 0 .. MaxFaults
    BY FaultsCounted DEF Reboot, IInv
  <1>2. withDriver' \in BOOLEAN /\ stop' \in BOOLEAN
    BY Zenon DEF Reboot, Boot, Starts, Ends
  <1>3. TypeOK'
    BY <1>1, <1>2, SetupAssumption DEF SetupAssumption, Reboot, Boot, Starts, Ends, IInv, TypeOK, machine, Unknown
  <1>4. SetupLasts'
    BY DEF Reboot, Boot, Starts, Ends, IInv, SetupLasts, Beside, machine
  <1>5. QED
    BY <1>3, <1>4 DEF Reboot, Boot, IInv, UnknownUntilItExits, UpgradeIsToNewer,
       OnlySetupRegisters, CopiedBeforeCreated, CreatedBeforeStarted

(* The elevated process up to the files. *)
LEMMA StopIInv ==
  ASSUME IInv,
         \/ Install \/ ManagerRefuses
         \/ OpenService \/ WaitForStop \/ DeleteService
  PROVE  IInv'
  <1> USE SetupAssumption DEF SetupAssumption, IInv, Reported,
              SetupLasts, UnknownUntilItExits, UpgradeIsToNewer, OnlySetupRegisters,
              CopiedBeforeCreated, CreatedBeforeStarted, Beside, Goto
  <1>1. CASE Install
    <2>1. PICK answer \in InstallAnswers[step] :
            /\ FaultUnless(answer = "Ok" \/ (answer = "InstallerFailed" /\ driver))
            /\ IF answer \in {"Ok", "InstallerFailed"}
               THEN Goto(NextStep[step]) /\ UNCHANGED outcome
               ELSE Exit(InstallCode(answer))
      BY <1>1 DEF Install
    <2>2. faults' \in 0 .. MaxFaults
      BY <2>1, FaultsCounted DEF FaultUnless
    <2>3. driver' \in BOOLEAN
      BY <1>1, Zenon DEF Install, TypeOK
    <2>4. step \in {"stage", "verify", "driver"} /\ task = "setup" /\ outcome = Unknown
      BY <1>1 DEF Install, Unknown
    <2>5. \/ step' \in {"verify", "driver", "open"} /\ outcome' = Unknown
          \/ step' = "none" /\ outcome' \in {2, 3}
      BY <2>1, <2>4 DEF NextStep, Exit, InstallCode
    <2>6. UNCHANGED <<inPlace, app, installed, service, processVars, task>>
      BY <1>1, <2>1 DEF Install, Exit
    <2>7. QED
      BY <2>2, <2>3, <2>4, <2>5, <2>6 DEF TypeOK, Unknown, processVars
  <1>2. CASE ManagerRefuses
    <2>1. faults' \in 0 .. MaxFaults
      BY <1>2, FaultsCounted DEF ManagerRefuses
    <2>2. QED
      BY <1>2, <2>1 DEF ManagerRefuses, Exit, TypeOK, Unknown, machine, processVars
  <1>5. CASE OpenService
    <2>1. stop' \in BOOLEAN
      BY <1>5, Zenon DEF OpenService, TypeOK
    <2>2. faults' \in 0 .. MaxFaults
      BY <1>5, FaultsCounted DEF OpenService, FaultUnless
    <2>3. QED
      BY <1>5, <2>1, <2>2 DEF OpenService, TypeOK, machine
  <1>6. CASE WaitForStop
    <2>1. faults' \in 0 .. MaxFaults
      BY <1>6, FaultsCounted DEF WaitForStop, FaultUnless
    <2>2. QED
      BY <1>6, <2>1 DEF WaitForStop, TypeOK, machine, processVars
  <1>7. CASE DeleteService
    <2>1. faults' \in 0 .. MaxFaults
      BY <1>7, FaultsCounted DEF DeleteService
    <2>2. QED
      BY <1>7, <2>1 DEF DeleteService, TypeOK, Unknown, machine, processVars
  <1>8. QED
    BY <1>1, <1>2, <1>5, <1>6, <1>7

(* The elevated process from the files on. *)
LEMMA StartIInv ==
  ASSUME IInv,
         CopyHelper \/ CreateService \/ StartService \/ RemoveHelper \/ ReplaceFiles
  PROVE  IInv'
  <1> USE SetupAssumption DEF SetupAssumption, IInv, Reported,
              SetupLasts, UnknownUntilItExits, UpgradeIsToNewer, OnlySetupRegisters,
              CopiedBeforeCreated, CreatedBeforeStarted, Beside, Goto
  <1>1. CASE CopyHelper
    <2>1. faults' \in 0 .. MaxFaults
      BY <1>1, FaultsCounted DEF CopyHelper, FaultUnless
    <2>2. TypeOK'
      BY <1>1, <2>1 DEF CopyHelper, Exit, TypeOK, processVars
    <2>3. QED
      BY <1>1, <2>2 DEF CopyHelper, Exit, TypeOK, processVars
  <1>2. CASE CreateService
    <2>1. faults' \in 0 .. MaxFaults
      BY <1>2, FaultsCounted DEF CreateService, FaultUnless
    <2>2. QED
      BY <1>2, <2>1 DEF CreateService, Exit, TypeOK, machine, processVars
  <1>3. CASE StartService
    <2>1. faults' \in 0 .. MaxFaults
      BY <1>3, FaultsCounted DEF StartService
    <2>2. withDriver' \in BOOLEAN /\ stop' \in BOOLEAN
      BY <1>3, Zenon DEF StartService, Starts, TypeOK, processVars
    <2>3. service # "absent" /\ service' = service
      BY <1>3 DEF StartService
    <2>4. helper' \in {"none", "started", "sampling", "stopped"} /\ running' \in 0 .. Newest
      BY <1>3 DEF StartService, Starts, TypeOK, processVars
    <2>5. outcome' \in {Unknown, 0, 2, 3, 4}
      BY <1>3 DEF StartService, Exit
    <2>6. TypeOK'
      BY <1>3, <2>1, <2>2, <2>3, <2>4, <2>5 DEF StartService, Exit, TypeOK, machine
    <2>7. QED
      BY <1>3, <2>3, <2>6 DEF StartService, Starts, Exit, Unknown, machine, processVars
  <1>4. CASE RemoveHelper
    <2>1. faults' \in 0 .. MaxFaults
      BY <1>4, FaultsCounted DEF RemoveHelper, FaultUnless
    <2>2. installed' \in 0 .. Newest
      BY <1>4 DEF RemoveHelper, TypeOK
    <2>3. QED
      BY <1>4, <2>1, <2>2 DEF RemoveHelper, TypeOK, Unknown, processVars
  <1>5. CASE ReplaceFiles
    <2>1. app' \in 0 .. Newest
      BY <1>5 DEF ReplaceFiles, TypeOK
    <2>2. QED
      BY <1>5, <2>1 DEF ReplaceFiles, TypeOK, Unknown, processVars
  <1>6. QED
    BY <1>1, <1>2, <1>3, <1>4, <1>5

LEMMA StepIInv == IInv /\ [Next]_setupVars => IInv'
  <1> SUFFICES ASSUME IInv, [Next]_setupVars
               PROVE  IInv'
    OBVIOUS
  <1>1. CASE Begin
    BY <1>1 DEF Begin, IInv, TypeOK,
       UpgradeIsToNewer, OnlySetupRegisters, CopiedBeforeCreated,
       CreatedBeforeStarted, UnknownUntilItExits, SetupLasts, Unknown, Beside, machine, processVars
  <1>2. ASSUME NEW t \in {"teardown", "upgrade", "uninstall"}, BeginOther(t)
        PROVE  IInv'
    BY <1>2 DEF BeginOther, IInv, TypeOK,
       UpgradeIsToNewer, OnlySetupRegisters, CopiedBeforeCreated,
       CreatedBeforeStarted, UnknownUntilItExits, SetupLasts, Unknown, Beside, machine, processVars
  <1>3. CASE UNCHANGED setupVars
    BY <1>3 DEF IInv, TypeOK,
       UpgradeIsToNewer, OnlySetupRegisters, CopiedBeforeCreated, Beside,
       CreatedBeforeStarted, UnknownUntilItExits, SetupLasts, setupVars, machine,
       processVars, elevated
  <1>4. QED
    BY <1>1, <1>2, <1>3, ProcessIInv, RebootIInv, StopIInv, StartIInv
    DEF Next, ElevatedStep

LEMMA Invariance == Spec => []IInv
  BY InitIInv, StepIInv, PTL DEF Spec

-----------------------------------------------------------------------------
(* The state of the setup has its type. *)
THEOREM TypeCorrect == Spec => []TypeOK
  <1>1. IInv => TypeOK
    BY DEF IInv
  <1>2. QED
    BY Invariance, <1>1, PTL

(* After a setup that exits with 0, whatever crashes and reboots, what the *)
(* next boot starts is the build beside the interface (SetupLasts): the    *)
(* elevated process is gone, and nothing else touches registration or      *)
(* program.                                                                *)
THEOREM SetupOutlivesReboots == Spec => []SetupLasts
  <1>1. IInv => SetupLasts
    BY DEF IInv
  <1>2. QED
    BY Invariance, <1>1, PTL

(* The step in which a setup succeeds is the one that starts the service.  *)
LEMMA SuccessStarts ==
  ASSUME IInv, Next, SetupSucceeds
  PROVE  helper' = "started" /\ running' = Beside
  <1>1. step = "start" /\ outcome' = 0
    BY DEF SetupSucceeds
  <1>2. installed = Beside
    BY <1>1 DEF IInv, CopiedBeforeCreated
  <1>3. StartService
    <2>1. ~ Reboot
      BY <1>1 DEF Reboot, Boot, IInv, UnknownUntilItExits, Unknown
    <2>2. ~ (ProcessStep \/ Crash \/ Reap)
      BY <1>1 DEF SetupSucceeds, ProcessStep, BeginSampling, CannotPublish, EndLoop,
         ProcessExits, Crash, Reap, elevated
    <2>3. QED
      BY <1>1, <2>1, <2>2 DEF Next, ElevatedStep, Install, ManagerRefuses, InstallCode, Goto, Exit, OpenService, WaitForStop, DeleteService, CopyHelper,
         CreateService, RemoveHelper, ReplaceFiles, Begin, BeginOther
  <1>4. QED
    BY <1>1, <1>2, <1>3 DEF StartService, Starts, Exit

(* A setup that exits with 0 has started the build that came with the      *)
(* interface, whatever the last setup, upgrade, crash or reboot left       *)
(* (NoStaleHelper).  CopiedBeforeCreated carries it from the copy, over    *)
(* the creation, to the start: nothing touches the program in between.     *)
THEOREM SetupStartsWhatItCopied == Spec => NoStaleHelper
  <1>1. IInv /\ [Next]_setupVars
          => [SetupSucceeds => helper' = "started" /\ running' = Beside]_setupVars
    BY SuccessStarts
  <1>2. QED
    BY <1>1, Invariance, PTL DEF Spec, NoStaleHelper

-----------------------------------------------------------------------------
(* The path of a temperature.  A step of it is one of the setup's, or one  *)
(* that leaves the setup alone but for a fault that is counted.            *)
LEMMA PathStepIsSetupStep ==
  ASSUME PathNext
  PROVE  \/ Next
         \/ /\ UNCHANGED <<machine, service, processVars, elevated, outcome>>
            /\ Fault \/ UNCHANGED faults
<1>1. CASE Work
  BY <1>1 DEF Work, CreateMapping, HelperEnds, Elevated, Next, ProcessStep
<1>2. CASE Publish
  BY <1>2 DEF Publish, FaultUnless
<1>3. CASE HelperDies \/ Reap \/ MachineReboots
  BY <1>3 DEF HelperDies, MachineReboots, Next
<1>4. CASE Tick
  BY <1>4 DEF Tick, FaultUnless
<1>5. CASE Click
  BY <1>5 DEF Click, Next
<1>6. CASE \E t \in {"teardown", "upgrade", "uninstall"} : OtherBegins(t)
  BY <1>6 DEF OtherBegins, Next
<1>7. CASE Poll \/ AppRestarts \/ Pass
  BY <1>7 DEF Poll, AppRestarts, Pass, setupVars
<1> QED
  BY <1>1, <1>2, <1>3, <1>4, <1>5, <1>6, <1>7 DEF PathNext

LEMMA FaultKeepsSetup ==
  ASSUME IInv, UNCHANGED <<machine, service, processVars, elevated, outcome>>,
         Fault \/ UNCHANGED faults
  PROVE  IInv'
<1>1. faults' \in 0 .. MaxFaults
  BY FaultsCounted DEF IInv
<1> QED
  BY <1>1 DEF IInv, TypeOK, UpgradeIsToNewer, OnlySetupRegisters, CopiedBeforeCreated,
     Beside, CreatedBeforeStarted, UnknownUntilItExits, SetupLasts, Unknown, machine, processVars,
     elevated

LEMMA PathKeepsSetup == IInv /\ [PathNext]_vars => IInv'
<1> SUFFICES ASSUME IInv, [PathNext]_vars PROVE IInv'
  OBVIOUS
<1>1. CASE PathNext
  BY <1>1, PathStepIsSetupStep, FaultKeepsSetup, StepIInv
<1>2. CASE UNCHANGED vars
  BY <1>2, StepIInv DEF vars
<1> QED
  BY <1>1, <1>2

-----------------------------------------------------------------------------
Records == [build : Nat, age : 0 .. Stale, real : BOOLEAN, odd : BOOLEAN]

PathTypes ==
  /\ record \in Records
  /\ uptime \in 0 .. Stale
  /\ sinceTick \in 0 .. TickGap
  /\ sinceReal \in 0 .. Stale + TickGap

(* A reading in the record is as old as the record, as far as its age is   *)
(* counted ...                                                             *)
RecordIsAsOld == record.real /\ record.age <= StaleAfter => sinceReal <= record.age

(* ... and one that is shown was fresh when the thread last looked ...     *)
ShownWasFresh == status.real => sinceReal <= StaleAfter + sinceTick

(* ... which it goes on doing as long as there is something to show it.    *)
ShownByTheLiving == status.real => AppUp

PathInv == PathTypes /\ RecordIsAsOld /\ ShownWasFresh /\ ShownByTheLiving

LEMMA OlderFacts ==
  ASSUME NEW m \in Nat, NEW n \in 0 .. m
  PROVE  /\ Older(n, m) \in 0 .. m
         /\ n < m => Older(n, m) = n + 1
         /\ n >= m => Older(n, m) = m
         /\ Older(n, m) <= n + 1
BY DEF Older

LEMMA PathConstants ==
  /\ StaleAfter \in Nat /\ Stale \in Nat /\ Stale = StaleAfter + 1
  /\ TickGap \in Nat /\ TickGap > 0 /\ Stale + TickGap \in Nat
BY PathAssumption DEF Stale

LEMMA NothingFacts ==
  /\ Nothing \in Records
  /\ Nothing.real = FALSE
BY PathConstants DEF Nothing, Records

(* A mapping that is kept, or is not, holds nothing that was not there.    *)
LEMMA KeptFacts ==
  ASSUME NEW r \in Records
  PROVE  /\ Kept(r) \in Records
         /\ Kept(r).real => r.real /\ Kept(r) = r
BY NothingFacts DEF Kept

(* What is shown goes when the interface does, and only then. *)
LEMMA StatusKept ==
  ASSUME ShownByTheLiving, UNCHANGED <<app, step, task, status>>
  PROVE  ShownByTheLiving'
BY DEF ShownByTheLiving, AppUp

LEMMA HelperKeepsPath ==
  ASSUME IInv, PathInv, CreateMapping \/ HelperEnds \/ HelperDies \/ Publish
  PROVE  PathInv'
<1> USE PathConstants DEF PathInv
<1>1. UNCHANGED <<app, step, task, status, sinceTick, uptime>>
  BY DEF CreateMapping, BeginSampling, HelperEnds, EndLoop, ProcessExits, CannotPublish,
         HelperDies, Crash, Publish, machine, elevated, appVars
<1>2. ShownByTheLiving'
  BY <1>1, StatusKept
<1>3. CASE CreateMapping
  <2>1. record' = DefaultRecord /\ UNCHANGED sinceReal
    BY <1>3 DEF CreateMapping
  <2>2. running \in Nat
    BY SetupAssumption DEF IInv, TypeOK
  <2>3. record' \in Records /\ record'.real = FALSE
    BY <2>1, <2>2 DEF DefaultRecord, Records, PathTypes
  <2> QED
    BY <1>1, <1>2, <2>1, <2>3 DEF PathTypes, RecordIsAsOld, ShownWasFresh
<1>4. CASE HelperEnds
  <2>1. record' = Kept(record) /\ UNCHANGED sinceReal
    BY <1>4 DEF HelperEnds
  <2>2. record' \in Records /\ (record'.real => record' = record)
    BY <2>1, KeptFacts DEF PathTypes
  <2> QED
    BY <1>1, <1>2, <2>1, <2>2 DEF PathTypes, RecordIsAsOld, ShownWasFresh
<1>5. CASE HelperDies
  <2>1. PICK odd \in BOOLEAN : record' = Kept([record EXCEPT !.odd = odd \/ record.odd])
    BY <1>5 DEF HelperDies
  <2> DEFINE r == [record EXCEPT !.odd = odd \/ record.odd]
  <2>2. r \in Records /\ r.real = record.real /\ r.age = record.age
    BY DEF PathTypes, Records
  <2> HIDE DEF r
  <2>3. record' \in Records /\ (record'.real => record' = r) /\ UNCHANGED sinceReal
    BY <1>5, <2>1, <2>2, KeptFacts DEF r, HelperDies
  <2> QED
    BY <1>1, <1>2, <2>2, <2>3 DEF PathTypes, RecordIsAsOld, ShownWasFresh
<1>6. CASE Publish
  <2>1. PICK real \in BOOLEAN :
          /\ record' = [build |-> running, age |-> 0, real |-> real, odd |-> FALSE]
          /\ sinceReal' = IF real THEN 0 ELSE sinceReal
    BY <1>6 DEF Publish
  <2>2. running \in Nat
    BY SetupAssumption DEF IInv, TypeOK
  <2>3. record' \in Records /\ record'.real = real /\ record'.age = 0
    BY <2>1, <2>2 DEF Records
  <2>4. sinceReal' \in 0 .. Stale + TickGap /\ sinceReal' <= sinceReal
    BY <2>1 DEF PathTypes
  <2>5. RecordIsAsOld'
    BY <2>1, <2>3 DEF RecordIsAsOld
  <2>6. ShownWasFresh'
    BY <1>1, <2>4 DEF PathTypes, ShownWasFresh
  <2> QED
    BY <1>1, <1>2, <2>3, <2>4, <2>5, <2>6 DEF PathTypes
<1> QED
  BY <1>3, <1>4, <1>5, <1>6

(* The thread shows what it reads, if that is fresh.                       *)
LEMMA TickKeepsPath ==
  ASSUME PathInv, Tick
  PROVE  PathInv'
<1> USE PathConstants DEF PathInv
<1>1. PICK missed \in BOOLEAN :
        status' = Decide(Opened, Opened /\ ~ missed /\ ~ record.odd /\ IsFresh(record))
  BY DEF Tick
<1>2. /\ UNCHANGED <<app, step, task, record, uptime, sinceReal>>
      /\ sinceTick' = 0
  BY DEF Tick, machine, elevated
<1> DEFINE published == Opened /\ ~ missed /\ ~ record.odd /\ IsFresh(record)
<1>3. status'.real = (published /\ record.real)
  BY <1>1 DEF Decide
<1>4. status'.real => record.real /\ record.age <= StaleAfter
  BY <1>3 DEF IsFresh
<1>5. ShownByTheLiving'
  BY <1>2 DEF Tick, ShownByTheLiving, AppUp
<1>6. ShownWasFresh'
  BY <1>2, <1>4 DEF RecordIsAsOld, ShownWasFresh, PathTypes, Records
<1>7. PathTypes' /\ RecordIsAsOld'
  BY <1>2, <1>3 DEF PathTypes, RecordIsAsOld
<1> QED
  BY <1>5, <1>6, <1>7

(* A status that shows nothing is right at any time.                       *)
LEMMA BlindKeeps ==
  ASSUME PathInv, AppStarts, UNCHANGED <<uptime, sinceReal>> \/ (uptime' = 0 /\ UNCHANGED sinceReal),
         record' \in Records, record'.real => record' = record
  PROVE  PathInv'
<1>1. status'.real = FALSE /\ sinceTick' = 0
  BY DEF AppStarts, Blind
<1> QED
  BY <1>1, PathConstants DEF PathInv, PathTypes, RecordIsAsOld, ShownWasFresh, ShownByTheLiving

LEMMA InterfaceKeepsPath ==
  ASSUME PathInv, \/ Poll \/ Click \/ AppRestarts \/ MachineReboots
                  \/ \E t \in {"teardown", "upgrade", "uninstall"} : OtherBegins(t)
  PROVE  PathInv'
<1>1. CASE Poll
  BY <1>1 DEF Poll, setupVars, machine, elevated, PathInv, PathTypes, RecordIsAsOld, ShownWasFresh,
         ShownByTheLiving, AppUp
<1>2. CASE Click
  BY <1>2 DEF Click, Begin, machine, PathInv, PathTypes, RecordIsAsOld, ShownWasFresh,
         ShownByTheLiving, AppUp
<1>3. Kept(record) \in Records /\ (Kept(record).real => Kept(record) = record)
  BY KeptFacts DEF PathInv, PathTypes
<1>4. CASE AppRestarts
  BY <1>3, <1>4, BlindKeeps DEF AppRestarts
<1>5. CASE MachineReboots
  BY <1>5, NothingFacts, BlindKeeps DEF MachineReboots
<1>6. ASSUME NEW t \in {"teardown", "upgrade", "uninstall"}, OtherBegins(t)
      PROVE  PathInv'
  <2>1. record' = Kept(record) /\ UNCHANGED <<uptime, sinceReal>>
    BY <1>6 DEF OtherBegins
  <2>2. CASE t # "teardown"
    BY <1>3, <1>6, <2>1, <2>2, BlindKeeps DEF OtherBegins
  <2>3. CASE t = "teardown"
    <3>1. UNCHANGED <<app, status, sinceTick>> /\ task' = "teardown" /\ app # 0
      BY <1>6, <2>3 DEF OtherBegins, BeginOther, appVars, machine
    <3> QED
      BY <1>3, <2>1, <3>1 DEF PathInv, PathTypes, RecordIsAsOld, ShownWasFresh,
         ShownByTheLiving, AppUp
  <2> QED
    BY <2>2, <2>3
<1> QED
  BY <1>1, <1>2, <1>4, <1>5, <1>6

(* The files are replaced only by a task during which nothing is shown.    *)
LEMMA ElevatedKeepsPath ==
  ASSUME PathInv, Elevated
  PROVE  PathInv'
<1>1. UNCHANGED <<record, uptime, status, sinceTick, sinceReal>>
  BY DEF Elevated
<1>2. task' = task /\ step # "none"
  BY DEF Elevated, ElevatedStep, Install, ManagerRefuses, OpenService, WaitForStop, DeleteService,
         CopyHelper, CreateService, StartService, RemoveHelper, ReplaceFiles, Exit, Goto
<1>3. app' = app \/ task \in {"upgrade", "uninstall"}
  BY DEF Elevated, ElevatedStep, Install, ManagerRefuses, OpenService, WaitForStop, DeleteService,
         CopyHelper, CreateService, StartService, RemoveHelper, ReplaceFiles, machine
<1>4. ShownByTheLiving'
  BY <1>1, <1>2, <1>3 DEF PathInv, ShownByTheLiving, AppUp
<1> QED
  BY <1>1, <1>4 DEF PathInv, PathTypes, RecordIsAsOld, ShownWasFresh

(* Time passes for all of them alike.                                      *)
LEMMA PassKeepsPath ==
  ASSUME PathInv, Pass
  PROVE  PathInv'
<1> USE PathConstants DEF PathInv
<1>1. /\ UNCHANGED <<app, step, task, status>>
      /\ record' = IF record = Nothing THEN Nothing
                   ELSE [record EXCEPT !.age = Older(record.age, Stale)]
      /\ uptime' = Older(uptime, Stale)
      /\ sinceTick' = Older(sinceTick, TickGap)
      /\ sinceReal' = Older(sinceReal, Stale + TickGap)
  BY DEF Pass, setupVars, machine, elevated
<1>2. /\ uptime' \in 0 .. Stale
      /\ sinceTick' \in 0 .. TickGap
      /\ sinceReal' \in 0 .. Stale + TickGap
      /\ sinceReal' <= sinceReal + 1
      /\ sinceTick < TickGap => sinceTick' = sinceTick + 1
  BY <1>1, OlderFacts DEF PathTypes
<1>3. record' \in Records /\ (record'.real => /\ record.real
                                              /\ record'.age = Older(record.age, Stale))
  <2>1. Older(record.age, Stale) \in 0 .. Stale
    BY OlderFacts DEF PathTypes, Records
  <2> QED
    BY <1>1, <2>1, NothingFacts DEF PathTypes, Records
<1>4. RecordIsAsOld'
  <2> SUFFICES ASSUME record'.real, record'.age <= StaleAfter
               PROVE  sinceReal' <= record'.age
    BY DEF RecordIsAsOld
  <2>1. record.age \in 0 .. Stale /\ record.real
    BY <1>3 DEF PathTypes, Records
  <2>2. record'.age = record.age + 1
    BY <1>3, <2>1, OlderFacts
  <2>3. sinceReal <= record.age
    BY <2>1, <2>2 DEF RecordIsAsOld
  <2> QED
    BY <1>2, <2>1, <2>2, <2>3 DEF PathTypes
<1>5. ShownByTheLiving'
  BY <1>1, StatusKept
<1>6. ShownWasFresh'
  <2> SUFFICES ASSUME status.real PROVE sinceReal' <= StaleAfter + sinceTick'
    BY <1>1 DEF ShownWasFresh
  <2>1. sinceTick < TickGap
    BY DEF Pass, ShownByTheLiving
  <2>2. sinceReal <= StaleAfter + sinceTick
    BY DEF ShownWasFresh
  <2> QED
    BY <1>2, <2>1, <2>2 DEF PathTypes
<1> QED
  BY <1>1, <1>2, <1>3, <1>4, <1>5, <1>6 DEF PathTypes

LEMMA PathInvariance == PathSpec => [](IInv /\ PathInv)
<1>1. PathInit => IInv /\ PathInv
  <2> SUFFICES ASSUME PathInit PROVE PathInv
    BY InitIInv DEF PathInit
  <2>1. record = Nothing /\ status.real = FALSE /\ sinceTick = 0 /\ uptime = 0
        /\ sinceReal = Stale + TickGap
    BY DEF PathInit, Blind
  <2> QED
    BY <2>1, NothingFacts, PathConstants
       DEF PathInv, PathTypes, RecordIsAsOld, ShownWasFresh, ShownByTheLiving
<1>2. IInv /\ PathInv /\ [PathNext]_vars => (IInv /\ PathInv)'
  <2> SUFFICES ASSUME IInv, PathInv, [PathNext]_vars PROVE PathInv'
    BY PathKeepsSetup
  <2>1. CASE Reap /\ UNCHANGED pathVars
    BY <2>1 DEF Reap, machine, elevated, pathVars, PathInv, PathTypes, RecordIsAsOld, ShownWasFresh,
           ShownByTheLiving, AppUp
  <2>2. CASE UNCHANGED vars
    BY <2>2 DEF vars, setupVars, machine, elevated, pathVars, PathInv, PathTypes, RecordIsAsOld, ShownWasFresh,
           ShownByTheLiving, AppUp
  <2> QED
    BY <2>1, <2>2, HelperKeepsPath, TickKeepsPath, InterfaceKeepsPath, ElevatedKeepsPath,
       PassKeepsPath DEF PathNext, Work
<1> QED
  BY <1>1, <1>2, PTL DEF PathSpec

(* For every timing of the helper, the interface and the machine, every    *)
(* build, and whoever dies or is replaced when: a temperature is shown     *)
(* only if one was published in the last StaleAfter and a pass (is_fresh). *)
THEOREM NothingShownFromTheDead == PathSpec => []NoTemperatureFromTheDead
<1>1. PathInv => NoTemperatureFromTheDead
  BY PathConstants DEF PathInv, PathTypes, ShownWasFresh, NoTemperatureFromTheDead
<1> QED
  BY <1>1, PathInvariance, PTL

(* What is proved of the setup alone holds while the helper publishes and  *)
(* the interface reads, asks and is replaced: a setup that exits with 0    *)
(* started what it copied, and what it registered lasts.                   *)
THEOREM SetupKeepsItsPromises == PathSpec => []SetupLasts /\ NoStaleHelper
<1>1. IInv => SetupLasts
  BY DEF IInv
<1>2. IInv /\ [PathNext]_vars
        => [SetupSucceeds => helper' = "started" /\ running' = Beside]_setupVars
  <2> SUFFICES ASSUME IInv, PathNext, SetupSucceeds
               PROVE  helper' = "started" /\ running' = Beside
    BY DEF vars
  <2>1. CASE Next
    BY <2>1, SuccessStarts
  <2>2. CASE UNCHANGED <<machine, service, processVars, elevated, outcome>>
    BY <2>2 DEF SetupSucceeds, elevated
  <2> QED
    BY <2>1, <2>2, PathStepIsSetupStep
<1> QED
  BY <1>1, <1>2, PathInvariance, PTL DEF PathSpec, NoStaleHelper
=============================================================================
