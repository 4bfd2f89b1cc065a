# LoadBear, specified

TLA+ specifications of LoadBear, the Windows load monitor in `src/crates`, with
the TLC runs that check them on small instances and TLAPS proofs of the results
that matter most. Line references are to the source files; `PROJECT.json` maps
every definition to the lines it stands for, and lists runs, mutants, findings,
hazards and theorems.

## 1. The system

LoadBear is two programs. The *interface* (`loadbear-app`, unprivileged) samples
the performance counters twice a second, judges the machine, and shows a tray
icon and a window. The *helper* (`loadbear-service`, a Windows service) reads
temperature and power through the PawnIO driver, which admits only SYSTEM, and
publishes them in shared memory.

| Component | State it keeps | Operations | Hard part |
|---|---|---|---|
| `loadbear-core/tier.rs` `TierTracker` | adopted and latest assessment, deque of timestamped assessments | `observe` | time: uneven clock, pruning, coverage, two windows, long alternations |
| `sensors-windows/mapping.rs`, `shared.rs` | one `SharedTemperature` record in a named mapping, with a seqlock word | `create`, `publish`, `drop`; `open`, `published_version`, `read`, `drop` | two processes, plain stores and loads, a helper that dies or restarts anywhere |
| `loadbear-service/main.rs`, `service_control.rs`, `installer.rs`, `nsis/hooks.nsh` | the helper program on disk, its registration, its process and stop flag; the driver | `--setup`, `--teardown`, the installer hooks, start, sampling loop, stop | every step can fail; a running program cannot be overwritten; "marked for deletion"; reboots |
| `loadbear-app/main.rs`, temperature half; `dist/index.html`, button | the reader handle, `REPROBE`, `temp_available`/`temp_offerable`; the button | a pass of the sampling thread, `get_status`, `enable_temperature`, the click handler | a record that outlives its writer; helpers of other builds; three threads and a page that meet through flags |
| `loadbear-app/main.rs`, the rest of the sampling thread | sample window, process cache, container list, history, last tier, `Status` behind a mutex | one pass per sample; the Docker thread; the page's poll | cached data used beside fresh data; tray, status and page updated at different moments |
| `loadbear-app/main.rs`, strip and modes; `presentation.rs` | the shape of the window, `ON_THE_TASKBAR`, its place in the order of windows | `set_mode`, `reclaim_the_top`, minimise, hide, show | a thread that looks first and raises afterwards, by a request that the main thread carries out later |
| `loadbear-core/verdict.rs`, `classify` | none | `evaluate`, `thermal_band`, `classify` | boundaries; which of several verdicts wins |
| `loadbear-core/spec.rs` | the embedded database | `lookup`, `resolve`, `conservative`, base clock of a brand string | one processor id for a product line: promising too much |
| `loadbear-core/attribution.rs` | none | grouping, leaders, `attribute`, `diagnose` | fall-back chain, ties, containers and processes at once |
| `sensors-windows/baseline.rs` | recent quiet latencies, the file | `observe`, `saturation_point`, `load`, `save_if_changed` | learning too little or the wrong thing; crash while the file is written |
| `counters.rs`, `processes.rs`, `docker.rs` | ring of samples; last CPU times by process id; none | `push`, `median`, `average`; `sample`; `read_containers` | failed counters, reused ids, an engine that does not answer |
| `power.rs`, `amd.rs`, `intel.rs`, `pm_table.rs`, `pawnio.rs`, `temperature.rs` | last energy counter; none | `package_watts`, register reads under a mutex | a 32-bit counter that wraps; registers shared with other tools |
| `topology.rs`, `cpuid.rs`, `contract.rs`, diagnostics programs | none | `on_processor`; one decoding each | a thread that is not yet where it was sent |

How they meet: the sampling thread calls `counters`, `baseline`, `mapping` (read
side), `processes` and the container list, hands the reading to `evaluate`,
`classify`, `TierTracker::observe` and `diagnose`, sets the tray icon and then
stores `Status`, which the page polls every two seconds. The page's button runs
`enable_temperature`, which runs the helper elevated with `--setup` and raises
`REPROBE`. The helper and the interface meet only in the shared record and in
what the service control manager reports.

What makes each correct is said by the properties of section 3.

## 2. Modules

**`TierTracker`** is `observe`, whole: the push and the pruning (`Recorded`),
the two rules of `supported_by_all` (`WorstSupported`, `BestSupported`,
`Covered`) and the three exits (`Escalate`, `Settle`, `Keep`). The deque is a
function from the *age* of an observation to its assessment, because every test
in the code is on an age; time itself then needs no bound. `classify` is
represented by what it can return (`Assessments`).
`TierTrackerH` adds history variables: for each tier, how long ago a window
contradicted it; and how long ago the shown tier rose or fell. **`SustainedTier`**
is the abstract rule, without a deque; `TierTrackerH` implements it
(`KeepsThePromise`).

**`SharedMapping`** is the seqlock, word by word. `view.write` and `view.read`
are plain accesses that the compiler may order as it likes, so a record is stored
and loaded in any order of words; the sequence stores and loads are outside, as
the fences and x86 keep them. `create` writes the default record (sequence 0)
over whatever the mapping holds; it is new, and zeroed, only when no reader holds
it, and the interface holds it from the first helper on. A helper may die and
start at any step of the reader. `mixed` remembers that a helper has begun to
create over an older record and none has got to the end of it, `overlapped` that
this happened during the reader's last attempt. **`LatestReading`** is what a
reader is promised: the sample last published whole, or nothing; or samples
blurred, if and only if a start over its record overlapped the look.

**`HelperSetup`** is the life of the helper on a machine. `step` is the program
counter of the one elevated process there can be: setup, teardown, or LoadBear's
own installer, whose hooks do with `sc.exe` what `stop_and_deregister` does. Each
call that can fail has its failing outcome; an outcome that needs something to go
wrong outside the program takes a fault from a budget (`Fault`), one that the
state makes certain takes none (`FaultUnless`). The driver's installer is what it
decides by: what the server sends and what arrives of it (`Fetch`), whether it can
be written (`Stage`), the signature (`VerifySignature`), the elevated run and its
exit code (`RunElevated`). Opening, querying, stopping and deleting the service
can each fail, and so can a helper that has begun (`CannotPublish`). The service control manager and
the file system are external: a program that runs cannot be overwritten, and a
service marked for deletion disappears when its process is gone.

**`TemperaturePath`** extends `HelperSetup` with the shared record (here read and
written whole: `SharedMapping` says when that is so), its age and layout, the
interface's reader, the five-way status decision (`Decide`), `REPROBE`, the
page's button, and time. Builds are numbered: `Relaid` are those that changed
`LAYOUT_VERSION`, and every build has a `HELPER_REVISION` of its own.

**`SpecResolve`**, **`Verdicts`**, **`Attribution`** are the pure parts of
`loadbear-core`: the conservative merge and the base clock of a brand string;
`evaluate`, `thermal_band` and `classify`; the leaders, `attribute` and
`diagnose`. An `Option` is a set of at most one element, so that `if let Some`
is a bounded quantifier and `or` is `Or`. `evaluate` pushes at most one verdict of
a kind and always in one order, so a list of verdicts is the set of their kinds,
ordered by `Kinds`. What the attribution code collects in a map, sorts and
compares is a set of entries with the place (`at`) each had and its `share`.
Percentages and shares are whole numbers; the code's floats are compared with
whole thresholds and the ratios (1.5, 0.6, 0.3, 0.95) are cross-multiplied.

**`Judgement`** extends them to the judging half of a pass of the sampling thread:
what the sensors gave, the findings, the assessment of this window, and the rows
of the running list (`RunningList`). A
judgement keeps nothing from the last one, so a step changes one figure and
judges again, and the first pass finds any reading at all; the lists of processes
and containers keep the value they had in it. `machine` is constant: what it is
(`product`), the database it is looked up in, and what its brand string says. The
program is told the product's id and the number of threads that the system reports
(`reported`, which an affinity mask or a hidden processor lowers), never the
product: that is what the properties about other models' figures turn on. A program
is known by its `name`; what it is called (`title`) is the display name of the first
process in the list that has one, or the spelling of the first. `ReadContainers` is in
it as `docker.rs` does it, with one-shot statistics, in which the processor share
is always 0. **`MCJudgement`** has the machines and figures of the runs.

**`Measuring`** is the other end of the sampling thread: the counters, each of
which may fail to be read and then keeps the 0 of `CounterSample::default`; the
ring of samples with its median (what is judged), its average (what is shown) and
`to_stall`; and the disk baseline, which learns from samples that look quiet and is
written every `BASELINE_SAVE_EVERY` passes in two steps, because `std::fs::write`
truncates before it writes. The interface may end between the two, and a second one
may write the same file (`OtherSaves`). Windows has the true `values`; the program
has what could be read of them (`Sampled`). Four of the
eight counters are enough to have one that is summed up, one that is divided by
the processors, one that is compared with the baseline and one that says whether
the disk is quiet. Sorting is modelled by what it is for, the value at a rank
(`Ranked`). Median and average are fractions (`parts` of which `inOne` make one), so
that nothing is rounded before the percentage. `seen` remembers the latencies that the
disk really had in quiet traffic (`QuietTraffic`, of the true values), and an entry of
the baseline whether it was learned from a backlog whose depth could not be read.

**`Presenting`** extends `TierTracker` with what a pass does with its answer, in
the order of the code: repaint the icons, then store the status. `ReasonText`,
`Heading` and `Ranking` are sentences as far as they are told apart. Resources of
`TierTracker` are here stalls and kinds of verdict, because the adopted reason may
be either.

**`WindowModes`** is the window and who acts on it: the page, the main thread in
the middle of a `set_mode`, the thread of `reclaim_the_top` between its look at the
flag, its question to the shell (`AskShell`, which may fail) and its raise, a raise
posted and not yet done, the shell, the tray menu, and the system, which may ask to
close the window. `over` and `off` count the raises that came late: over something
full screen, and after the strip had gone. Where the strip is put, in pixels, is
left out.

**`Gathering`** is where findings get their names from: `ProcessSampler`, one
process at a time while processes start, run, exit and have their ids used again;
and `read_containers` in its own thread, one request at a time, each of which may
fail, be cut short anywhere (`Body`, `Items`) or never be answered. An answer that has
a character divided by a chunk makes the decoder panic (`Panics`), and with it the
thread ends. Names come from the file's resources, language by language
(`Translation`, `FileDescription`). `used` remembers what was used at an id since
the sampler last called there.

**`Sensors`** is one pass of the helper over the hardware: the mutex and the two
SMN registers that another monitoring tool uses too, register by register; the
SMU table; Intel's limit and registers, processor by processor, with the affinity
that is set and the scheduler that moves the thread when it likes; and the energy
counter. Which of it there is depends on the library that is found, on what it
exports, on whether the driver admits the user, and on which modules accept the part
(`Libraries`, `Opens`, `Loads`, `PerCore`). `Execute` answers with an error, with no
word, or with one. The clock may stand still between two passes, and the time of a
pass is taken before the wait for the mutex (`late`, `lag`). A reading records what
it was read *from*, so that a value with the wrong name is visible. Pairs of words go
through `Published` and `ZoneList`, as the record has values and labels apart and
room for `MAX_ZONES`.

`*Proofs` modules hold the theorems (section 5); `NaturalFacts` has the facts on
least and greatest numbers and on sums that they share.

## 3. Runs

`tier_uneven` (escalate 2, settle 3, gaps of 1, 2 or 3, one resource). The units
are arbitrary: what matters is that a gap may be shorter than, as long as, or
longer than the escalation window, that settling takes longer than escalating, and
that the horizon (6) holds several windows. Gaps of one and two are the jitter
of the loop around its period, three a machine that slept. Properties: `TypeOK`
(which includes the deque's bound), `CoverageSurvivesJitter` (pruning never loses
the coverage the rules ask for), `ReasonMatchesTier`, `MovesAreSustained`,
`NoFlicker`, and `KeepsThePromise`, the refinement of `SustainedTier`.

`tier_converges` (escalate 1, settle 2, gaps of 1 or 2, two resources): a machine
that stays in one state is shown in it, for tier and reason, from every reachable
history. Two resources are needed for a reason that could stay wrong. Fairness is
that the sampling loop goes on, which is its code: an endless loop without an
exit.

`shared_mapping` (two words, two attempts, three samples): two words are the
least that can be torn, two attempts the least that distinguishes "retry" from
"give up", three samples let one be published before, during and after a copy.
The sequence wraps in no run: at a sample every 1.5 s it takes a century,
and `MappingAssumption` excludes it. Fairness: a thread inside `read` runs on.
Nothing is assumed of the helper, which dies anywhere and starts again over a
record that the interface holds, or does not. `TornOnlyByAStart` (only such a start
tears a read, and only one that overlaps it), `ReadsTheLatest` (refinement of
`LatestReading`), `ReadReturns`. Finding 3 is the read that is torn.

`helper_setup` (two builds, both placements, three faults): an upgrade, a failed
setup and a reboot in one behaviour. `SetupLasts` (what a successful setup has
installed is what every later boot starts), `NoStaleHelper`,
`RecoversFromHalfASetup`, `UninstallIsForGood`. The last two are asked once the
faults are spent: what is bound to happen then. Fairness: processes that run go
on running, and the service control manager removes what it can. Nobody is made
to click. Deadlock is not checked: after an uninstall nothing happens any more.

`temperature_path` (three builds, the second with a new layout, one fault,
`STALE_AFTER` 2 and both loops of period 1, installed outside Program Files): a
helper can be older with the same layout, older with another, or current; the
one fault is a crash (in mid-publication or not), a driver that will not open, a
failed read, a missed read, a reboot, or any failing step of a setup.
`NoTemperatureFromTheDead`, `WorkIsSeen`, `AbsenceIsOffered`. Fairness: both
loops, the elevated process and time go on. The two loops' longest periods are
bounds on time's step (`Pass`) and are assumed to add up to no more than
`STALE_AFTER` (1.5 s, well under 1 s, and 15 s in the code).

`judgement`: figures on both sides of every threshold (base clocks of 1800, 2000
and 2700 against 1700, 1900 and 2300 MHz; 79 and 80 per cent of utilization; stall
at 0, 39, 40, 79 and 80; a temperature 16, 15 and 5 degrees below the limit;
a sensor that gives nothing). The machines are three models of one id, of which
only one is told apart by its thread count, and of these some with processors
hidden: so many that the count is nobody's, and so many that it is a sibling's; a
pair of which one publishes little; and two that nobody has entered, with and
without a clock in the brand. For the blame, one machine has every list of up to
three processes out of a program, Docker and a system service that do nothing,
something or much, where those of the program go by its bare name or by one of two
display names, with another spelling; and another every list of up to two (`vmmem`,
`vmmemwsl` and `com.docker.proxy` among them) with every list of up to two containers, within or at
their limit, or silent. Three processes are the least with a leader, a
rival and a second member of a group. `HeldToItsOwn`, `HeldToItsBrand`,
`WorseNeverLooksBetter`, `AlarmIsExplained`, `RedTileIsAFinding`,
`OrderDoesNotMatter`, `NamedIsHalfTheUnseen`. `MaxFigure` only
bounds the figures a model publishes (`u32` in the code).

`measuring` (a window of four, two latencies to learn from, three kept, saving on
every pass): four samples are the least with a median of two middle ones;
three latencies the least whose middle one an odd one out cannot move. The
machine is idle or calm, works processors and disk beyond saturation, or has got a
disk that is as slow in quiet traffic as the old one was under a backlog, so that
only the depth of the queue tells them apart; that counter may be unreadable; writes
fail and are cut off; and a second interface writes a file of its own.
`OneSampleNeverDecides`, `PressureShowsOnTheGraph`, `SaturationIsMeasured`,
`DiskIsRelearned`. Fairness: the thread goes on with what it has begun. Deadlock
is not checked: the thread ends for good when Windows refuses the counters.

`presenting` (the tracker with windows 1 and 2, two stalls and one verdict): a
verdict and two stalls are the least in which the reason can change its kind while
the tier stays. `IconsAgreeWithTheWindow` (with `IconsFail = FALSE`; an icon that
fails stays wrong, see finding 12), `UnexplainedIsMomentary`.

`windows` (two clicks in flight): one click that is undone before it is carried
out. `OneLateRaiseAtMost`, which does not count the raises over something full
screen of which the shell did not say (its call failed: the code takes that for a
no), nor the one of `set_mode` that answers a click; `StripComesBack`, which assumes
that both threads go on
and that the main thread gets to what is posted to it between two shapes (strong
fairness of `Raise`: `Resize` may come first each time, and does not for ever).

`gathering` (one process id, one container, a list of processes on every second
pass): the id is used by one process after another, between any two reads. The
engine's answer loses any of its entries and fields, breaks off within one, or makes
the thread panic. `NeverOvercredited`,
`NobodyIsNamedForLong`, `WedgedEngineStopsNothing`, `StoppedContainersAreForgotten`.
Fairness: the sampling thread and the Docker thread go on, the engine owes
nothing (`List` and `Ask` have none); a mutex that is free again and again is got
(strong fairness of `Judge`; the other thread holds it for one copy in ten
seconds). One id is enough for the counts because ids share nothing, and the
theorems are for any number.

`sensors` (a die and one CCD, two cores, two processors, a counter that wraps
at 3 and gaps of up to 2): one register beyond the first is the least that can be
read in the place of another; wraps occur within one gap and twice.
`ReadingsAreTheirOwn`, `WattsAreDrawn`, `StuckPeerWedgesNothing`. The first is about
Intel parts always, and about AMD parts in a pass whose guard was acquired: after a
wait that ran out, a register of another tool may be read, and is published. Of the
cores of the SMU table it says only that each is some core's (finding 9). Fairness: the
helper's thread goes on; the other tool owes it nothing. `sensors_guard`: finding 8.

Every property has a mutant: a change of a definition that models code, of the
kind a plausible mistake would make, under which TLC finds the property violated.

## 4. Findings

Each states a promise as a property. One has a run of its own, `sensors_guard`;
the others name the property, and the configuration under which TLC refutes it
when it is added there.

1. `NeverOnASingleSample` (`TierTracker_uneven.cfg`): "the tier never moves on a
   single sample" does not hold when more than `ESCALATE_MS` passes between two
   samples. With gaps within both windows it does (theorem `NeverASingleSample`).
2. (`tier.rs:209`) The reason shown with a tier can outlast every window that had
   it: while short worse windows break up the recovery, the tier stays and no
   window agrees with it, so none lends it a new reason.
3. `NoTornRead` (`SharedMapping.cfg`): a helper that restarts while the interface
   holds the mapping resets the sequence, and a read can be torn. The interface
   holds it from the first helper on, so every restart is such a one; the window is
   the duration of one copy. `TornOnlyByAStart` is what holds.
4. `RealOutcome` (`HelperSetup.cfg`): a failed driver installation is reported as
   success. `AlreadyInstalled`, which setup tolerates, is returned by nothing.
5. `OfferCanBeTaken` (`TemperaturePath.cfg`): the page's button stays disabled
   after a setup that succeeded.
6. `HeldToNoOther` (`Judgement.cfg` with `MCSparseMachines`, `MCSparseFigures`): the
   merge is not the weakest claim where only some of the candidates publish a
   figure: the smallest TDP becomes the ceiling of all when none has a
   configurable TDP. No two entries of the database share an id today, so it waits
   for the first that do. `HeldToItsOwn` states what does hold.
7. `ContainerWasIdentified` (`Judgement.cfg` with `MCContainerMachines`,
   `MCContainerFigures`): under processor pressure no container has a measured
   share, the dominance test is skipped for a second share of 0, and the first
   container of the list is named, with the advice to stop it.
8. `GuardIsGivenBack` (`sensors_guard`): a mutex whose owner died is acquired with
   `WAIT_ABANDONED`, which `PciGuard` takes for a failure: it is never released, and
   every other tool waits for a helper that sleeps.
9. `CoresKeepTheirNumber` (`Sensors_guard.cfg`): cores without a plausible value
   are left out before the rest is numbered, so one such core shifts the label of
   all after it.
10. `CrashCostsAMinute` (`Measuring.cfg`): a crash during a write loses all that the
    disk baseline ever learned, not a minute of it.
11. `NeverUnexplained` (`Presenting.cfg`): for one pass, a tier can be on the screen
    with neither a sentence nor a card. `UnexplainedIsMomentary` is what holds.
12. `HeadingNamesTheRanking` (`Presenting.cfg`): the list is headed by the newest
    window and ranked by the adopted one. And an icon that could not be set stays
    wrong until the tier moves again.
13. `HeldWhateverIsReported` (`Judgement.cfg`): the program is told the threads it may
    use, not those there are. Where some are hidden and their number is a sibling's,
    the machine is taken for the sibling and held to its figures. `HeldToItsOwn` holds
    for every other number.
14. `OnlyQuietIsLearned` (`Measuring.cfg`): a counter that fails leaves the depth of
    the queue at 0, and a backlog is learned as a quiet latency.
    `SaturationIsMeasured` holds while less than half of the window is such.
15. `EveryFailureIsAnEmptyList` (`Gathering.cfg`): an answer in which a chunk ends
    within a character makes the decoder panic. The Docker thread ends, and the list
    stays what it was.
16. `RowsAgreeWithCauses` (`Judgement.cfg`): the running list takes `com.docker.proxy`
    for Docker, and attribution does not.
17. `WattsCoverTheirTime` (`Sensors_guard.cfg`): the time that power is divided by is
    taken before the temperatures are read, the energy after.
18. `LimitIsTheSilicons` (`Sensors_guard.cfg`): the limit is read once, when the helper
    begins; if that read fails, none is published for as long as it runs, although
    each pass reads it again for itself.
19. Met while modelling, without a property: a counter that fails is judged as 0
    (`counters.rs:154`); the plausibility check cannot catch a register of another
    tool (`amd.rs:163`) nor two wraps of the energy counter (`power.rs:100`);
    the panel has room for twelve rows and is given up to eighteen (`main.rs:305`); a list of
    processes that was cut short is taken for a whole one (`processes.rs:58`); a name
    that could not be read is never asked for again (`processes.rs:278`); a finding
    names processes and containers measured at another moment (`main.rs:987`); the
    graph records an average and is said to record samples (`main.rs:996`).

## 5. Proofs

Every safety property that a run checks, invariant or action property, is a
theorem, for every value of the constants that satisfies the assumptions named in
the module or in the theorem's statement.

`TierProofs`, on `TierTracker`: the inductive invariant relates the deque to the
history variables: an age is in the deque only up to `Horizon`, the newest has
age 0, and `below[t]` and `above[t]` are the smallest ages at which the deque
contradicts `t`, as far as they are counted. That is what makes the fold over the
deque and the rule of `SustainedTier` say the same. Theorems: types, reasons,
sustained moves, no flicker, and the refinement `RefinesSustainedTier`. Two need
an assumption on gaps, which is in their statements: coverage survives if no gap
exceeds the longest window (`GapsWithinLongest`), and no tier moves on a single
sample if none exceeds either (`GapsWithinBoth`).
On `Presenting`: what the tracker adopts when the window agrees with it is the
window's own reason (`AdoptedAfterAgreement`), so a status without an explanation
is followed by one that has one (`NeverUnexplainedTwice`, invariant `PresentInv`);
and the three places where a tier is kept (`last_tier`, status, tracker) differ
only between painting and storing (`IconsNeverDisagree`, for icons that do not
fail: with those that do, finding 12).

`SharedMappingProofs`: wherever helpers die and start, over a record that is held or
not. The invariant says which words of the record are of the sample in progress and
which of the one before, as a function of `unwritten`; that no helper which got
through its start has left the record `mixed`; and that a copy which no start has
overlapped, and whose sequence has not moved since, consists of words of `record`.
Hence `OnlyAStartTears` and `RefinesLatestReading`.

`HelperProofs`, on `HelperSetup`: for any number of builds and faults, a setup that
exits with 0 started the program that came with the interface, and that program
stays registered and is what every boot starts until another elevated process begins
(`SetupOutlivesReboots`). The strengthening says what holds between the steps: once
the service is created the program on disk is the right one, and a service about
to be started is registered. Type correctness needs that an upgrade was begun
because there is a newer build.
On `TemperaturePath`: no temperature is shown that was not fresh when the thread
last looked (`NothingShownFromTheDead`), whatever helper, driver, setup and
reboots do. `PathInv`: a reading in the record is as old as the record claims to
be; one that is shown was at most `StaleAfter` old at the last pass; and it is
shown only while there is an interface. Every step of the path is a step of the
setup, a stutter of it, or a fault that its budget counts (`PathStepIsSetupStep`),
so both promises of the setup hold there too (`SetupKeepsItsPromises`).

`JudgementProofs`. Assumptions: figures a model publishes are natural numbers up
to `MaxFigure`; a brand string that states a base clock states the product's; a
limit that was read is not 0 (`MIN_PLAUSIBLE_TJMAX_C`, and a test of `spec.rs` for
the embedded ones); a stall is a percentage, and only that of the disk may be
unknown (the clamps of `to_stall`); utilization is a percentage of the window
(`CounterSample`); a process has natural figures and a name in lower case.
The inductive invariant is that what was sensed comes from `Figures` and that
findings and assessment are those of this reading.

- A machine that is in the database is never held to another model's figures
  (`NoOtherModelsFigures`), whatever number of threads the system reports, unless it
  is that of another entry (finding 13); and one that is not is called slow only against the
  clock in its brand string (`BrandIsTheBase`). Field by field the merge is the
  weakest claim of its candidates (`ConservativeIsWeakest`), it claims nothing that
  none of them publishes and forgets nothing that one of them does, and so each
  verdict on the merge is a verdict on every candidate
  (`VerdictOnMergeHoldsForEach`); the machine's own model is one of them
  (`OwnModelIsCandidate`). `Comparable` leaves out what finding 6 shows to be false.
- A tier above Easy names a finding or a resource as severe as itself
  (`EveryAlarmIsExplained`), the tile is red exactly when a finding says so
  (`RedTileMeansFinding`), and a reading that is worse in every respect never
  lowers the tier (`NeverLooksBetter`: `evaluate` and `classify` are monotone).
- Who is named for processor load did at least half of what could be hidden
  (`NamedOutweighsTheHidden`): a share of 20 and a coverage of 60 per cent are just
  enough together. The lemmas are on sums over the list (`ListSums`).
- The order in which Windows lists processes does not matter (`OrderIsIrrelevant`),
  although groups, leaders and ties are all found by position: two neighbours that
  change places leave every group with the same members up to the swap
  (`GroupsReordered`, `SumsReordered`), so the leaders correspond
  (`LeadersCorrespond`), and what is said of them is said by name (`SaidByName`).
  What a program is *called* does depend on the order, where its processes go by
  several names: the label is one of its own either way (`TitleIsOwn`), and the names
  to choose from are the same (`TitlesReordered`).

`InterfaceProofs`, on `Gathering`: for any processes and limits, nobody is credited
with more than it used (`NobodyIsOvercredited`), and no list of processes outlives
its turn (`NoListOutlivesItsTurn`). A share is a difference of two counts under one
id, so the invariant says what a count can be worth at every moment between the
two: whoever has the id now is above the count before by no more than was used
since (`Outstanding`), the counts read so far keep to the same (`Since`) and carry
it (`Worth`). No assumption but that the limits are positive numbers. Type
correctness (`GatheringTypeCorrect`) needs that what was used since the last look
is part of all that was used.
On `WindowModes`: for any number of clicks in flight, at most one raise is late
over what is full screen now, and at most one since the strip was left
(`NeverTwiceOverFullScreen`). The strengthening is that a thread which has looked
and not yet raised has no late raise behind it.

`MeasuringProofs`: for windows and baselines of any length. The median is described
by rank (`Ranked`): fewer than `k` values are less, at least `k` no greater. Every
rank is taken (`RankTaken`), and one that all entries but one share is theirs
(`RankShared`), hence `NoSpikeIsJudged`; from the middle rank up there is half of the
window, so the mean is at least half of the median (`MeanIsHalfTheMedian`), hence
`NoHiddenPressure`, where the 1 is what rounding two percentages down can take. The
inductive invariant says that baseline and file hold only latencies in `seen`, but for
those whose entry says that the depth was misread, whatever was cut off and whoever
wrote the file; while those are less than half, the upper middle one lies between two
of the others (`SaturationWasSeen`). And what is not marked dirty is what a restart
would load (`NothingCleanIsLost`), as long as no other interface writes the file.

`SensorsProofs`: for every width of the counter, every draw and any pattern of
failing passes, power is made of what was drawn (`PowerIsWhatWasDrawn`): the counter
is ahead of the count before by what was drawn, or by a turn less. For any number of
registers, cores and processors, a temperature has the name of what it was read from
(`EveryReadingIsItsOwn`): on Intel parts always, since a processor on which the thread
has not arrived is skipped; on AMD parts in a pass whose guard was acquired, but for the
cores of the table among themselves. While the guard
is held no other tool owns the mutex, so the index register is what the helper wrote
last (`KeptOut`), and a register with nothing behind it reads as a value that is not
plausible (`OnlyWhatIsThere`).

`NaturalFacts` has what these share: least and greatest elements, and sums. A sum is
a fold, and the provers cannot apply an induction theorem to it; but the equation
the fold is chosen by can be shown to have exactly one solution by least
counterexample (`SumExists`, `SumUnique`), and the rest follows: a term can be taken
out (`SumWithout`), the terms can be renamed (`SumMoved`), and a sum outweighs its
large terms (`SumOutweighs`).

Only model-checked: liveness (`Converges`, `ReadReturns`, `RecoversFromHalfASetup`,
`UninstallIsForGood`, `WorkIsSeen`, `AbsenceIsOffered`, `DiskIsRelearned`,
`StripComesBack`, `WedgedEngineStopsNothing`, `StoppedContainersAreForgotten`,
`StuckPeerWedgesNothing`), which needs fairness and `ENABLED`, beyond the provers.

## 6. What was built in which order, and what is left

The core came first (`TierTracker`, `SharedMapping`, `HelperSetup`,
`TemperaturePath`), then the pure parts (`Judgement` and what it extends), then the
rest of the sampling thread and the helper (`Measuring`, `Presenting`, `WindowModes`,
`Gathering`, `Sensors`), each with its runs before its proofs. No module that has
theorems declares a RECURSIVE operator.

Left to do: one pass of the sampling thread as a composition of `Measuring`,
`Judgement`, `Presenting` and `Gathering`. They meet only in the reading and the
assessment, which each now takes from a set of possible ones: a composition would
confine them, not add to them.

Not modelled:

- `contract.rs`: constants and a type that no operation uses yet.
- The diagnostics programs (`loadbear-status`, `temp-probe`, the helper's probes):
  they print what the others read.
- The tiles, the history of the graph, geometry of the strip and all wording: layout.
- `SpecDatabase::lookup`, labels, and the embedded data: a table.
- What is external: Windows' counters, the service control manager (as far as
  `service_control.rs` sees it, it is modelled), PawnIO's driver, the Docker engine,
  Explorer. They are actions or choices of the modules above, with every outcome
  the code distinguishes.
