---------------------------- MODULE HelperSetup ----------------------------
(***************************************************************************)
(* The life of the helper service on a machine: the elevated --setup and   *)
(* --teardown of crates/loadbear-service/src/main.rs, the service control  *)
(* they do (crates/loadbear-sensors-windows/src/service_control.rs), the   *)
(* driver's installer (installer.rs), the hooks of LoadBear's own          *)
(* installer (crates/loadbear-app/nsis/hooks.nsh), and the helper process  *)
(* itself up to its sampling loop.                                         *)
(*                                                                         *)
(* External: the service control manager and the file system of Windows.   *)
(* A program that runs cannot be overwritten; a service marked for         *)
(* deletion goes away when its process has stopped and the last handle to  *)
(* it is closed; a registered one is started at boot.                      *)
(***************************************************************************)
EXTENDS Integers

CONSTANTS
  Newest,     \* builds of LoadBear are numbered from 1 to Newest
  Placements, \* the values inPlace may have: is LoadBear installed per machine?
  MaxFaults   \* bound: things that go wrong in a behaviour

ASSUME SetupAssumption ==
  /\ Newest \in Nat \ {0}
  /\ Placements \subseteq BOOLEAN
  /\ MaxFaults \in Nat

VARIABLES
  inPlace,     \* is the interface installed where the helper is run from?
  driver,      \* is PawnIO installed?
  app,         \* build of the interface; 0: uninstalled
  installed,   \* build at installed_helper_path(); 0: none
  service,     \* "absent", "registered" or "marked" for deletion
  helper,      \* the helper process: "none", "started", "sampling", "stopped"
  running,     \* its build; 0: none
  withDriver,  \* did it open the driver when it began to sample?
  stop,        \* its stop flag
  step,        \* where the elevated process is; "none" when there is none
  task,        \* what it was started for: "setup", "teardown", "upgrade", "uninstall"
  outcome,     \* exit code of the last setup; -1 while unknown
  faults       \* faults so far

processVars == <<helper, running, withDriver, stop>>
elevated    == <<step, task>>
machine     == <<inPlace, driver, app, installed>>
setupVars   == <<machine, service, processVars, elevated, outcome, faults>>

Unknown == -1

(* helper_path: the helper program that came with the interface. *)
Beside == IF inPlace THEN installed ELSE app

(* Alive for the service control manager, which is told Running before the *)
(* loop and Stopped after it; the process itself ends a moment later.      *)
Reported == helper \in {"started", "sampling"}

(* Something outside the program goes wrong. *)
Fault == faults < MaxFaults /\ faults' = faults + 1

(* What is bound to happen under c is a fault without it. *)
FaultUnless(c) == IF c THEN UNCHANGED faults ELSE Fault

-----------------------------------------------------------------------------
(* The helper process.                                                     *)

(* sample_loop: the mapping is created and the driver opened, once.  A     *)
(* driver that will not open is not tried again.                           *)
BeginSampling ==
  /\ helper = "started"
  /\ helper' = "sampling"
  /\ \/ withDriver' = driver /\ UNCHANGED faults
     \/ withDriver' = FALSE /\ Fault
  /\ UNCHANGED <<machine, service, running, stop, elevated, outcome>>

(* run returns early if the handler cannot be registered or Running cannot *)
(* be reported, and sample_loop if the mapping cannot be created ...       *)
CannotPublish ==
  /\ helper = "started"
  /\ Fault
  /\ helper' = "stopped"
  /\ UNCHANGED <<machine, service, running, withDriver, stop, elevated, outcome>>

(* ... and when it sees the stop flag.  (If Stopped cannot be reported the *)
(* process is gone all the same: Crash.)                                   *)
EndLoop ==
  /\ helper = "sampling"
  /\ stop
  /\ helper' = "stopped"
  /\ UNCHANGED <<machine, service, running, withDriver, stop, elevated, outcome, faults>>

(* What a process had in its variables goes with it. *)
Ends == helper' = "none" /\ running' = 0 /\ withDriver' = FALSE /\ stop' = FALSE

ProcessExits ==
  /\ helper = "stopped"
  /\ Ends
  /\ UNCHANGED <<machine, service, elevated, outcome, faults>>

Crash ==
  /\ Reported
  /\ Fault
  /\ Ends
  /\ UNCHANGED <<machine, service, elevated, outcome>>

(* The registration goes once nothing holds it. *)
Reap ==
  /\ service = "marked"
  /\ ~ Reported
  /\ service' = "absent"
  /\ UNCHANGED <<machine, processVars, elevated, outcome, faults>>

Starts ==
  /\ helper' = "started"
  /\ running' = installed
  /\ withDriver' = FALSE
  /\ stop' = FALSE

(* The service is AutoStart. *)
Boot ==
  /\ IF service = "registered" /\ installed # 0 THEN Starts ELSE Ends
  /\ service' = IF service = "marked" THEN "absent" ELSE service
  /\ step' = "none"
  /\ UNCHANGED <<machine, task, outcome>>

Reboot == Fault /\ Boot

-----------------------------------------------------------------------------
(* The elevated processes.                                                 *)

Goto(s) == step' = s /\ UNCHANGED task

Exit(code) == Goto("none") /\ outcome' = code

(* enable_temperature: ShellExecuteExW starts the helper with --setup.     *)
(* Declining it changes nothing.                                           *)
Begin ==
  /\ step = "none"
  /\ app # 0
  /\ Beside # 0
  /\ step' = "stage"
  /\ task' = "setup"
  /\ outcome' = Unknown
  /\ UNCHANGED <<machine, service, processVars, faults>>

(* fetch: what the server sends, in MiB, what of it arrives, and whether   *)
(* it begins like a program.                                               *)
MinInstallerBytes == 1
MaxInstallerBytes == 32

Downloads == [connected : BOOLEAN, answered : BOOLEAN, status : {200, 404},
              size : {0, MinInstallerBytes, MaxInstallerBytes, MaxInstallerBytes + 1},
              whole : BOOLEAN, program : BOOLEAN]

(* What is too long is given up before it ends. *)
Fetch(d) ==
  CASE ~ d.connected \/ ~ d.answered \/ d.status # 200 -> "DownloadFailed"
    [] d.connected /\ d.answered /\ d.status = 200 ->
         IF d.size > MaxInstallerBytes THEN "NotAnInstaller"
         ELSE IF ~ d.whole THEN "DownloadFailed"
         ELSE IF d.size < MinInstallerBytes \/ ~ d.program THEN "NotAnInstaller"
         ELSE "Ok"

Stage(d, written) ==
  IF Fetch(d) = "Ok" /\ ~ written THEN "StagingFailed" ELSE Fetch(d)

(* WinVerifyTrust answers 0 for a signature that it trusts. *)
VerifySignature(status) == IF status = 0 THEN "Ok" ELSE "SignatureRejected"

(* ShellExecuteExW, the process it gives, and the exit code of that. *)
RunElevated(ok, process, code) ==
  IF ~ ok THEN "Declined"
  ELSE IF ~ process THEN "LaunchFailed"
  ELSE IF code = 0 THEN "Ok"
  ELSE "InstallerFailed"

(* installer::install: a signature is verified before the file is run and  *)
(* never after.                                                            *)
InstallAnswers ==
  [stage  |-> {Stage(d, written) : d \in Downloads, written \in BOOLEAN},
   verify |-> {VerifySignature(status) : status \in {0, 1}},
   driver |-> {RunElevated(ok, process, code) :
                 ok \in BOOLEAN, process \in BOOLEAN, code \in {0, 1}}]

NextStep == [stage |-> "verify", verify |-> "driver", driver |-> "open"]

(* Mutant of InstallCode: an exit code that has no meaning. *)
InstallCodeOfAny(e) == 1

InstallCode(e) == IF e = "Declined" THEN 2 ELSE 3

(* InstallerFailed is taken to mean that the driver is there already. *)
Install ==
  /\ step \in {"stage", "verify", "driver"}
  /\ \E answer \in InstallAnswers[step] :
       /\ FaultUnless(answer = "Ok" \/ (answer = "InstallerFailed" /\ driver))
       /\ driver' = (driver \/ (step = "driver" /\ answer = "Ok"))
       /\ IF answer \in {"Ok", "InstallerFailed"}
          THEN Goto(NextStep[step]) /\ UNCHANGED outcome
          ELSE Exit(InstallCode(answer))
  /\ UNCHANGED <<inPlace, app, installed, service, processVars>>

(* helper_path or the service manager fails: nothing has been touched yet. *)
ManagerRefuses ==
  /\ step = "open"
  /\ \/ task = "setup" /\ Exit(4)
     \/ task = "teardown" /\ Goto("none") /\ UNCHANGED outcome
  /\ Fault
  /\ UNCHANGED <<machine, service, processVars>>

(* Mutant of OpenService: the helper is not asked to stop. *)
OpenServiceQuietly ==
  /\ step = "open"
  /\ Goto(IF service = "absent" THEN "files" ELSE IF Reported THEN "wait" ELSE "delete")
  /\ UNCHANGED <<machine, service, processVars, outcome, faults>>

(* stop_and_deregister: what is not registered, or cannot be opened, is    *)
(* left alone; what is Stopped, or cannot be queried, is not waited for;   *)
(* what is not Stopped is asked to stop, which fails if it has not yet     *)
(* registered its handler.                                                 *)
OpenService ==
  /\ step = "open"
  /\ \/ /\ FaultUnless(service = "absent")
        /\ Goto("files")
        /\ UNCHANGED stop
     \/ /\ service # "absent"
        /\ FaultUnless(~ Reported)
        /\ Goto("delete")
        /\ UNCHANGED stop
     \/ /\ service # "absent"
        /\ Reported
        /\ stop' \in {TRUE, stop}
        /\ FaultUnless(stop')
        /\ Goto("wait")
  /\ UNCHANGED <<machine, service, helper, running, withDriver, outcome>>

(* Twenty polls, then it goes on all the same; the hook sleeps instead.    *)
(* One that was not told to stop does not.                                 *)
WaitForStop ==
  /\ step = "wait"
  /\ FaultUnless(~ Reported \/ ~ stop)
  /\ Goto("delete")
  /\ UNCHANGED <<machine, service, processVars, outcome>>

(* Mutant of DeleteService: stopping it is taken to be enough. *)
DeleteServiceNot ==
  /\ step = "delete"
  /\ Goto("files")
  /\ UNCHANGED <<machine, service, processVars, outcome, faults>>

(* The result of delete is not looked at. *)
DeleteService ==
  /\ step = "delete"
  /\ \/ /\ service' = IF service = "registered" THEN "marked" ELSE service
        /\ UNCHANGED faults
     \/ /\ UNCHANGED service
        /\ Fault
  /\ Goto("files")
  /\ UNCHANGED <<machine, processVars, outcome>>

(* Mutant of CopyHelper: a failed copy is tolerated when a program is there *)
(* already, which is what an earlier version did.                          *)
CopyHelperIfItCan ==
  /\ step = "files" /\ task = "setup"
  /\ installed' = IF inPlace \/ helper = "none" THEN Beside ELSE installed
  /\ Goto("create")
  /\ UNCHANGED <<inPlace, driver, app, service, processVars, outcome, faults>>

(* A copy over a program that runs fails; in place there is none to make.  *)
(* One that breaks off leaves nothing that can be run.                     *)
CopyHelper ==
  /\ step = "files" /\ task = "setup"
  /\ \/ /\ inPlace
        /\ Goto("create")
        /\ UNCHANGED <<installed, outcome, faults>>
     \/ /\ ~ inPlace
        /\ helper = "none"
        /\ installed' = Beside
        /\ Goto("create")
        /\ UNCHANGED <<outcome, faults>>
     \/ /\ ~ inPlace
        /\ FaultUnless(Reported)
        /\ installed' \in {installed} \cup (IF helper = "none" THEN {0} ELSE {})
        /\ Exit(4)
  /\ UNCHANGED <<inPlace, driver, app, service, processVars>>

(* Mutant of CreateService: a registration that is there already is        *)
(* started, as the doc of install_and_start has it.                        *)
CreateServiceIfAbsent ==
  /\ step = "create"
  /\ service' = IF service = "absent" THEN "registered" ELSE service
  /\ Goto("start")
  /\ UNCHANGED <<machine, processVars, outcome, faults>>

(* Creating a service fails while the old registration lingers. *)
CreateService ==
  /\ step = "create"
  /\ \/ /\ service = "absent"
        /\ service' = "registered"
        /\ Goto("start")
        /\ UNCHANGED <<outcome, faults>>
     \/ /\ FaultUnless(service = "registered" \/ (service = "marked" /\ Reported))
        /\ Exit(4)
        /\ UNCHANGED service
  /\ UNCHANGED <<machine, processVars>>

(* What was just created does not run yet. *)
StartService ==
  /\ step = "start"
  /\ \/ /\ Starts
        /\ Exit(0)
        /\ UNCHANGED faults
     \/ /\ Fault
        /\ Exit(4)
        /\ UNCHANGED processVars
  /\ UNCHANGED <<machine, service>>

(* stop_and_remove: the program is removed unless something runs it. *)
RemoveHelper ==
  /\ step = "files" /\ task = "teardown"
  /\ installed' \in {installed} \cup (IF helper = "none" THEN {0} ELSE {})
  /\ FaultUnless(installed' = 0 \/ helper # "none")
  /\ Goto("none")
  /\ UNCHANGED <<inPlace, driver, app, service, processVars, outcome>>

(* LoadBear's own installer or uninstaller, after the hook that stops and  *)
(* deletes the service: the files are replaced by the next build's, or     *)
(* removed, except a helper program that still runs.                       *)
ReplaceFiles ==
  /\ step = "files" /\ task \in {"upgrade", "uninstall"}
  /\ app' = IF task = "uninstall" THEN 0 ELSE app + 1
  /\ installed' = IF inPlace /\ helper = "none" THEN app' ELSE installed
  /\ Goto("none")
  /\ UNCHANGED <<inPlace, driver, service, processVars, outcome, faults>>

(* The hooks and --teardown start where stop_and_deregister does. *)
BeginOther(t) ==
  /\ step = "none"
  /\ app # 0
  /\ t = "upgrade" => app < Newest
  /\ step' = "open"
  /\ task' = t
  /\ outcome' = Unknown
  /\ UNCHANGED <<machine, service, processVars, faults>>

-----------------------------------------------------------------------------
Init ==
  /\ inPlace \in Placements
  /\ driver \in BOOLEAN
  /\ app = 1
  /\ installed = IF inPlace THEN 1 ELSE 0
  /\ service = "absent"
  /\ helper = "none"
  /\ running = 0
  /\ withDriver = FALSE
  /\ stop = FALSE
  /\ step = "none"
  /\ task = "setup"
  /\ outcome = Unknown
  /\ faults = 0

ProcessStep == BeginSampling \/ CannotPublish \/ EndLoop \/ ProcessExits

ElevatedStep ==
  \/ Install \/ ManagerRefuses
  \/ OpenService \/ WaitForStop \/ DeleteService
  \/ CopyHelper \/ CreateService \/ StartService
  \/ RemoveHelper \/ ReplaceFiles

Next ==
  \/ ProcessStep
  \/ Crash
  \/ Reap
  \/ Reboot
  \/ ElevatedStep
  \/ Begin
  \/ \E t \in {"teardown", "upgrade", "uninstall"} : BeginOther(t)

Spec == Init /\ [][Next]_setupVars

(* Processes that run go on running.  Nobody is made to click.             *)
Fairness ==
  /\ WF_setupVars(ProcessStep)
  /\ WF_setupVars(Reap)
  /\ WF_setupVars(ElevatedStep)

FairSpec == Spec /\ Fairness

-----------------------------------------------------------------------------
TypeOK ==
  /\ inPlace \in BOOLEAN
  /\ driver \in BOOLEAN
  /\ app \in 0 .. Newest
  /\ installed \in 0 .. Newest
  /\ service \in {"absent", "registered", "marked"}
  /\ helper \in {"none", "started", "sampling", "stopped"}
  /\ running \in 0 .. Newest
  /\ withDriver \in BOOLEAN
  /\ stop \in BOOLEAN
  /\ step \in {"none", "stage", "verify", "driver", "open", "wait", "delete", "files",
               "create", "start"}
  /\ task \in {"setup", "teardown", "upgrade", "uninstall"}
  /\ outcome \in {Unknown, 0, 2, 3, 4}
  /\ faults \in 0 .. MaxFaults

SetupSucceeds == step = "start" /\ step' = "none" /\ outcome' = 0

(* "Silently running a stale helper is worse than saying so": a setup that *)
(* exits with 0 has the build beside the interface running, whatever ran   *)
(* or was left behind before (install_and_start).                          *)
NoStaleHelper == [][SetupSucceeds => helper' = "started" /\ running' = Beside]_setupVars

(* The real outcome and not "an optimistic one" (enable_temperature): a    *)
(* setup that exits with 0 has left a driver for the helper to read.       *)
RealOutcome == [][SetupSucceeds => driver]_setupVars

(* "Automatic, so temperature keeps working after a reboot without anyone  *)
(* being asked for anything again" (install_and_start): from a setup that  *)
(* exits with 0 until another elevated process begins, whatever crashes    *)
(* and reboots, what boot starts is the build beside the interface, and no *)
(* other build runs.                                                       *)
SetupLasts ==
  outcome = 0 => /\ service = "registered"
                 /\ installed = Beside
                 /\ running \in {0, Beside}

(* "A half-finished previous attempt is a normal thing to recover from":   *)
(* with no fault of its own, a setup succeeds from whatever state the last *)
(* one, an upgrade, a crash or a reboot left.                              *)
RecoversFromHalfASetup ==
  (step = "stage" /\ faults = MaxFaults) ~> (outcome = 0 /\ step = "none")

(* And an uninstall with no fault of its own takes the service away for    *)
(* good, rather than leave it "set to start again at every boot".          *)
UninstallIsForGood ==
  (step = "open" /\ task = "uninstall" /\ faults = MaxFaults)
    ~> [](helper = "none" /\ service = "absent")
=============================================================================
