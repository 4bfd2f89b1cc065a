-------------------------- MODULE TemperaturePath --------------------------
(***************************************************************************)
(* How a temperature gets to the window: the helper of HelperSetup, which  *)
(* samples and publishes (sample_loop of crates/loadbear-service/src/      *)
(* main.rs), the record in shared memory and its freshness (shared.rs),    *)
(* and the interface (crates/loadbear-app/src/main.rs): the sampling       *)
(* thread that reads the record and decides what is offered, the Enable    *)
(* button of dist/index.html, and the REPROBE flag between the two.        *)
(*                                                                         *)
(* The record is written and read whole here; SharedMapping says when that *)
(* is so.  A helper that dies while it publishes leaves an odd sequence.   *)
(***************************************************************************)
EXTENDS HelperSetup

CONSTANTS
  Relaid,      \* the builds that changed the record's layout
  StaleAfter,  \* STALE_AFTER_MS
  Period,      \* longest time between two publications of a helper
  TickGap      \* longest time between two passes of the sampling thread

ASSUME PathAssumption ==
  /\ Relaid \subseteq Nat
  /\ StaleAfter \in Nat
  /\ Period \in Nat \ {0}
  /\ TickGap \in Nat \ {0}
  /\ Period + TickGap <= StaleAfter

VARIABLES
  record,      \* what the mapping holds, or Nothing when there is none
  quiet,       \* time since the helper published or began to
  uptime,      \* time since boot, counted to StaleAfter + 1
  reader,      \* does the interface hold the mapping?
  reprobe,     \* the REPROBE flag
  status,      \* temp_available, temp_offerable, and whether a reading shows
  sinceTick,   \* time since the sampling thread's last pass
  offered,     \* is the button on the page?
  disabled,    \* is it disabled?
  sinceReal    \* history: time since a reading was last published

pathVars == <<record, quiet, uptime, reader, reprobe, status, sinceTick,
              offered, disabled, sinceReal>>
vars     == <<setupVars, pathVars>>

SameLayout(a, b) == {c \in Relaid : c <= a} = {c \in Relaid : c <= b}

Nothing == [build |-> 0, age |-> 0, real |-> FALSE, odd |-> FALSE]

Stale == StaleAfter + 1

(* Ages are counted as far as they are told apart. *)
Older(n, most) == IF n < most THEN n + 1 ELSE most

Blind == [available |-> FALSE, offerable |-> FALSE, real |-> FALSE]

(* The pagefile-backed mapping lives while either side holds it. *)
Kept(r) == IF helper' # "sampling" /\ ~ reader' THEN Nothing ELSE r

(* The interface is not there while its files are replaced or once they    *)
(* are removed.                                                            *)
AppUp == app # 0 /\ ~ (step # "none" /\ task \in {"upgrade", "uninstall"})

(* A fresh start of the interface. *)
AppStarts ==
  /\ reader' = FALSE
  /\ reprobe' = FALSE
  /\ status' = Blind
  /\ sinceTick' = 0
  /\ offered' = FALSE
  /\ disabled' = FALSE

appVars == <<reader, reprobe, status, sinceTick, offered, disabled>>

-----------------------------------------------------------------------------
(* The helper.                                                             *)

(* TemperaturePublisher::create writes the default record, whose timestamp *)
(* is 0: it is as old as the machine has been up.                          *)
DefaultRecord == [build |-> running, age |-> uptime, real |-> FALSE, odd |-> FALSE]

CreateMapping ==
  /\ BeginSampling
  /\ record' = DefaultRecord
  /\ quiet' = 0
  /\ UNCHANGED <<uptime, sinceReal, appVars>>

(* One turn of the loop.  Without a driver there is nothing but NaN to     *)
(* publish, and with one a read may fail.                                  *)
Publish ==
  /\ helper = "sampling"
  /\ \E real \in BOOLEAN :
       /\ real => withDriver
       /\ FaultUnless(real = withDriver)
       /\ record' = [build |-> running, age |-> 0, real |-> real, odd |-> FALSE]
       /\ sinceReal' = IF real THEN 0 ELSE sinceReal
  /\ quiet' = 0
  /\ UNCHANGED <<machine, service, processVars, elevated, outcome, uptime, appVars>>

HelperEnds ==
  /\ EndLoop \/ ProcessExits \/ CannotPublish
  /\ UNCHANGED <<quiet, uptime, sinceReal, appVars>>
  /\ record' = Kept(record)

HelperDies ==
  /\ Crash
  /\ UNCHANGED <<quiet, uptime, sinceReal, appVars>>
  /\ \E odd \in BOOLEAN :
       /\ odd => helper = "sampling"
       /\ record' = Kept([record EXCEPT !.odd = odd \/ record.odd])

-----------------------------------------------------------------------------
(* The interface.                                                          *)

(* Mutant of Opened: the reader is looked for again only after a setup. *)
OpenedAfterSetup == IF reprobe THEN record # Nothing ELSE reader

(* The reader is opened again while there is none, and after a setup. *)
Opened == IF reprobe \/ ~ reader THEN record # Nothing ELSE reader

(* Mutant of IsFresh: the age is not looked at. *)
IsFreshAtAnyAge(r) == SameLayout(r.build, app)

(* TemperatureReader::read, then is_fresh: the right layout, young enough. *)
IsFresh(r) == SameLayout(r.build, app) /\ r.age <= StaleAfter

(* Mutant of IsRunning: a registered service is taken for a running one. *)
IsRegistered == service # "absent"

IsRunning == service # "absent" /\ Reported

(* The five cases of the sampling thread, with what read returned. *)
Decide(opened, published) ==
  LET mismatch == opened /\ ~ SameLayout(record.build, app)
      current  == record.build >= app
  IN [available |-> ~ mismatch /\ published,
      offerable |-> \/ mismatch
                    \/ published /\ ~ current
                    \/ ~ published /\ ~ IsRunning,
      real      |-> published /\ record.real]

Tick ==
  /\ AppUp
  /\ \E missed \in BOOLEAN :
       /\ FaultUnless(~ missed)
       /\ status' = Decide(Opened, Opened /\ ~ missed /\ ~ record.odd /\ IsFresh(record))
  /\ reader' = Opened
  /\ reprobe' = FALSE
  /\ sinceTick' = 0
  /\ UNCHANGED <<machine, service, processVars, elevated, outcome>>
  /\ UNCHANGED <<record, quiet, uptime, offered, disabled, sinceReal>>

(* The page polls get_status and draws the button. *)
Poll ==
  /\ AppUp
  /\ offered' = status.offerable
  /\ UNCHANGED <<setupVars, record, quiet, uptime, reader, reprobe, status, sinceTick,
                 disabled, sinceReal>>

(* The button's click handler disables it and asks for the elevated setup. *)
Click ==
  /\ AppUp
  /\ offered /\ ~ disabled
  /\ Begin
  /\ disabled' = TRUE
  /\ UNCHANGED <<record, quiet, uptime, reader, reprobe, status, sinceTick, offered, sinceReal>>

(* When it exits with 0 the sampling thread is told and the button hidden; *)
(* otherwise it is enabled again.                                          *)
SetupReturns ==
  IF task = "setup" /\ step' = "none"
  THEN /\ reprobe' = (outcome' = 0 \/ reprobe)
       /\ offered' = (outcome' # 0 /\ offered)
       /\ disabled' = (outcome' = 0 /\ disabled)
  ELSE UNCHANGED <<reprobe, offered, disabled>>

Elevated ==
  /\ ElevatedStep
  /\ SetupReturns
  /\ UNCHANGED <<record, quiet, uptime, reader, status, sinceTick, sinceReal>>

(* Installers close the interface; the one that is there afterwards is new. *)
OtherBegins(t) ==
  /\ BeginOther(t)
  /\ IF t = "teardown" THEN UNCHANGED appVars ELSE AppStarts
  /\ record' = Kept(record)
  /\ UNCHANGED <<quiet, uptime, sinceReal>>

(* Quit on the tray menu, and started again. *)
AppRestarts ==
  /\ AppUp
  /\ step = "none"
  /\ UNCHANGED <<setupVars, quiet, uptime, sinceReal>>
  /\ AppStarts
  /\ record' = Kept(record)

-----------------------------------------------------------------------------
(* The machine.                                                            *)

MachineReboots ==
  /\ Reboot
  /\ AppStarts
  /\ record' = Nothing
  /\ quiet' = 0
  /\ uptime' = 0
  /\ UNCHANGED sinceReal

(* Neither loop is held up for longer than its bound. *)
Pass ==
  /\ helper = "sampling" => quiet < Period
  /\ AppUp => sinceTick < TickGap
  /\ record' = IF record = Nothing THEN Nothing
               ELSE [record EXCEPT !.age = Older(@, Stale)]
  /\ quiet' = Older(quiet, Period)
  /\ uptime' = Older(uptime, Stale)
  /\ sinceTick' = Older(sinceTick, TickGap)
  /\ sinceReal' = Older(sinceReal, Stale + TickGap)
  /\ UNCHANGED <<setupVars, reader, reprobe, status, offered, disabled>>

PathInit ==
  /\ Init
  /\ record = Nothing
  /\ quiet = 0
  /\ uptime = 0
  /\ reader = FALSE
  /\ reprobe = FALSE
  /\ status = Blind
  /\ sinceTick = 0
  /\ offered = FALSE
  /\ disabled = FALSE
  /\ sinceReal = Stale + TickGap

Work == CreateMapping \/ HelperEnds \/ Elevated

PathNext ==
  \/ Work
  \/ Publish
  \/ HelperDies
  \/ Reap /\ UNCHANGED pathVars
  \/ Tick
  \/ Poll
  \/ Click
  \/ \E t \in {"teardown", "upgrade", "uninstall"} : OtherBegins(t)
  \/ AppRestarts
  \/ MachineReboots
  \/ Pass

PathSpec == PathInit /\ [][PathNext]_vars

(* The threads and processes that run go on, and so does time. *)
PathFairness ==
  /\ WF_vars(Work)
  /\ WF_vars(Publish)
  /\ WF_vars(Tick)
  /\ WF_vars(Pass)

FairPathSpec == PathSpec /\ PathFairness

-----------------------------------------------------------------------------
(* "If the helper dies, its last sample stays in shared memory forever"    *)
(* (STALE_AFTER_MS): a temperature is on show only if one was published in *)
(* the last StaleAfter, give or take a pass of the sampling thread.        *)
NoTemperatureFromTheDead ==
  status.real => sinceReal <= StaleAfter + TickGap

(* temp_offerable is "whether the unavailable state is one the user can    *)
(* act on" (Status): while the status says so, a button on the page can be *)
(* pressed sooner or later.                                                *)
OfferCanBeTaken ==
  (offered /\ status.offerable) ~> (~ disabled \/ ~ status.offerable)

Working ==
  /\ AppUp
  /\ helper = "sampling"
  /\ withDriver
  /\ ~ stop
  /\ SameLayout(running, app)

(* Whoever uses the machine stops restarting the interface some day. *)
AppStays == <>[][~ AppRestarts]_vars

(* A helper that goes on working is seen to work, whatever came before it: *)
(* another build, a crash in the middle of a publication, a restart of     *)
(* either side (the reader is reopened, the sequence and record rewritten). *)
WorkIsSeen ==
  AppStays /\ <>[]Working => <>[](status.available /\ status.real)

(* A machine left without a helper is offered one, even if a dead helper's *)
(* mapping is still held.                                                  *)
AbsenceIsOffered ==
  AppStays /\ <>[](AppUp /\ helper = "none")
    => <>[](status.offerable /\ ~ status.available)
=============================================================================
