----------------------- MODULE ServiceInstaller_proofs -----------------------
(***************************************************************************)
(* From the first transaction of a deployment to the running services, for *)
(* any number of runs, installers, hostnames and faults.                   *)
(***************************************************************************)
EXTENDS ServiceInstaller, TLAPS

---------------------------------------------------------------------------
(* The deployment *)

Built == {"createSafe", "createBaal", "contracts", "setup", "setUp", "verify", "genesis",
          "deposit", "minted", "record"}
SafeSetUp == {"setUp", "verify", "genesis", "deposit", "minted", "record"}
BaalSetUp == {"verify", "genesis", "deposit", "minted", "record"}

\* How far the run is tells what its contracts are: nobody can change the address
\* after the fourth transaction, nor set up again what the run has set up.
DInv ==
  /\ at \in Built => predicted
  /\ at \in SafeSetUp => safe = "dao"
  /\ at \in BaalSetUp => baal = "dao"
  /\ at = "deposit" => ~early
  /\ at \in {"minted", "record"} => founder /\ (early => joined)
  /\ at = "record" => ~early
  /\ at \notin {"minted", "record"} => ~early

LEMMA DInitInvariant == Init => DInv
BY DEF Init, DInit, DInv, Built, SafeSetUp, BaalSetUp

\* A step of the run.
LEMMA RunStep ==
  ASSUME DInv,
         \/ Check \/ DeploySingletons \/ CheckSafe \/ CreateSafe \/ CreateBaal
         \/ DeployContracts \/ SetupSafe \/ SetUpBaal \/ Verify
         \/ Approve \/ Deposit \/ Minted \/ WriteRecord \/ Abort \/ Again
  PROVE  DInv'
<1>1. CASE Check \/ DeploySingletons \/ CheckSafe \/ CreateSafe \/ CreateBaal
  BY <1>1 DEF DInv, Built, SafeSetUp, BaalSetUp, Check, DeploySingletons, CheckSafe,
              CreateSafe, CreateBaal, proxies, people
<1>2. CASE DeployContracts \/ SetupSafe \/ SetUpBaal \/ Verify
  BY <1>2 DEF DInv, Built, SafeSetUp, BaalSetUp, DeployContracts, SetupSafe, SetUpBaal,
              Verify, proxies, people
<1>3. CASE Approve \/ Deposit \/ Minted
  BY <1>3 DEF DInv, Built, SafeSetUp, BaalSetUp, Approve, Deposit, Minted, proxies, people
<1>4. CASE WriteRecord \/ Abort \/ Again
  BY <1>4 DEF DInv, Built, SafeSetUp, BaalSetUp, WriteRecord, Abort, Again, Forget,
              proxies, people
<1> QED
  BY <1>1, <1>2, <1>3, <1>4

\* What others do to it.
LEMMA OthersStep ==
  ASSUME DInv,
         \/ UseKey \/ Gift \/ DepositFirst \/ MoveAside
         \/ \E state \in SafeStates : MeddleSafe(state)
         \/ \E state \in BaalStates : MeddleBaal(state)
  PROVE  DInv'
<1>1. CASE UseKey \/ Gift \/ DepositFirst \/ MoveAside
  BY <1>1 DEF DInv, Built, SafeSetUp, BaalSetUp, UseKey, Gift, DepositFirst, MoveAside,
              proxies, people
<1>2. ASSUME NEW state \in SafeStates, MeddleSafe(state) PROVE DInv'
  BY <1>2 DEF DInv, Built, SafeSetUp, BaalSetUp, MeddleSafe, people
<1>3. ASSUME NEW state \in BaalStates, MeddleBaal(state) PROVE DInv'
  BY <1>3 DEF DInv, Built, SafeSetUp, BaalSetUp, MeddleBaal, people
<1> QED
  BY <1>1, <1>2, <1>3

\* An installer leaves the deployment alone.
LEMMA InstallersApart == Next => DNext \/ MoveAside \/ UNCHANGED dvars
<1>1. ASSUME NEW i \in Installers, Carry(i) PROVE UNCHANGED dvars
  <2>1. ASSUME NEW f \in Files, WriteFile(i, f) PROVE UNCHANGED dvars
    BY <2>1 DEF WriteFile
  <2>2. ASSUME NEW j \in Jobs, Bootstrap(i, j) PROVE UNCHANGED dvars
    BY <2>2 DEF Bootstrap
  <2> QED
    BY <1>1, <2>1, <2>2 DEF Carry, Lock, RefusedNow, Build, WriteManifest, CreateTunnel,
                            RouteName, Validate, MarkReady, Stuck
<1>2. ASSUME NEW i \in Installers, Die(i) \/ DieCreating(i) PROVE UNCHANGED dvars
  BY <1>2 DEF Die, DieCreating
<1>3. ASSUME NEW i \in Installers, NEW h \in Hosts, Call(i, h) PROVE UNCHANGED dvars
  BY <1>3 DEF Call
<1>4. Login \/ RemovePages => UNCHANGED dvars
  BY DEF Login, RemovePages
<1>5. ASSUME NEW j \in Jobs, StopJob(j) PROVE UNCHANGED dvars
  BY <1>5 DEF StopJob
<1> QED
  BY <1>1, <1>2, <1>3, <1>4, <1>5 DEF Next

LEMMA DInvariantStep == DInv /\ [Next]_allVars => DInv'
<1> SUFFICES ASSUME DInv, [Next]_allVars PROVE DInv'
  OBVIOUS
<1>1. CASE UNCHANGED dvars
  BY <1>1 DEF DInv, dvars, proxies, people
<1>2. CASE DNext \/ MoveAside
  BY <1>2, RunStep, OthersStep DEF DNext
<1>3. UNCHANGED allVars => UNCHANGED dvars
  BY DEF allVars
<1> QED
  BY <1>1, <1>2, <1>3, InstallersApart

\* The founder's money moves in Deposit alone, and the record is written in
\* WriteRecord alone.
LEMMA Writes ==
  ASSUME DNext \/ MoveAside
  PROVE  /\ ~founder /\ founder' => at = "deposit"
         /\ record' \notin {record, None} => at = "record"
<1>1. CASE Check \/ DeploySingletons \/ CheckSafe \/ CreateSafe \/ CreateBaal
  BY <1>1 DEF Check, DeploySingletons, CheckSafe, CreateSafe, CreateBaal, people
<1>2. CASE DeployContracts \/ SetupSafe \/ SetUpBaal \/ Verify
  BY <1>2 DEF DeployContracts, SetupSafe, SetUpBaal, Verify, people
<1>3. CASE Approve \/ Deposit \/ Minted
  BY <1>3 DEF Approve, Deposit, Minted, people
<1>4. CASE WriteRecord \/ Abort \/ Again
  BY <1>4 DEF WriteRecord, Abort, Again, Forget, people
<1>5. CASE UseKey \/ Gift \/ DepositFirst \/ MoveAside
  BY <1>5 DEF UseKey, Gift, DepositFirst, MoveAside, people
<1>6. ASSUME NEW state \in SafeStates, MeddleSafe(state) PROVE UNCHANGED <<founder, record>>
  BY <1>6 DEF MeddleSafe, people
<1>7. ASSUME NEW state \in BaalStates, MeddleBaal(state) PROVE UNCHANGED <<founder, record>>
  BY <1>7 DEF MeddleBaal, people
<1> QED
  BY <1>1, <1>2, <1>3, <1>4, <1>5, <1>6, <1>7 DEF DNext

---------------------------------------------------------------------------
(* The installation *)

\* The steps of a run that come before it starts a job.
Early == {"build", "config", "relay plist", "tunnel plist", "manifest", "create", "route"}
Late == {"relay", "tunnel", "health", "ready"}

\* One run works at a time; while it still writes files no job is loaded, and once
\* it starts jobs the name is routed; a manifest that is ready says so of its name.
IInv ==
  /\ file \in [Files -> Hosts \union {None}] /\ job \in [Jobs -> Hosts \union {None}]
  /\ turn \in [Installers -> Early \union Late \union {"idle", "planned"}]
  /\ want \in [Installers -> Hosts \union {None}]
  /\ \A i \in Installers : turn[i] \in Early \union Late => lock = i
  /\ \A i \in Installers : turn[i] \in Early => \A j \in Jobs : job[j] = None
  /\ \A i \in Installers : turn[i] \in Late => want[i] \in routed
  /\ manifest # None /\ manifest.ready => manifest.host \in routed
  /\ JobsMatchFiles

LEMMA InstInit == Init => IInv
BY DEF Init, IInv, Early, Late, JobsMatchFiles, Loaded, Jobs, Files

\* A run is called, ends, or dies; the operator stops a job or removes the pages.
LEMMA QuietStep ==
  ASSUME IInv,
         \/ \E i \in Installers : \/ RefusedNow(i) \/ Stuck(i) \/ Die(i)
                                  \/ \E h \in Hosts : Call(i, h)
         \/ RemovePages \/ \E j \in Jobs : StopJob(j)
  PROVE  IInv'
<1>1. ASSUME NEW i \in Installers, RefusedNow(i) \/ Stuck(i) \/ Die(i) PROVE IInv'
  BY <1>1 DEF IInv, Early, Late, JobsMatchFiles, Loaded, RefusedNow, Stuck, Die, EndRun,
              disk, services
<1>2. ASSUME NEW i \in Installers, NEW h \in Hosts, Call(i, h) PROVE IInv'
  BY <1>2 DEF IInv, Early, Late, JobsMatchFiles, Loaded, Call, disk, services
<1>3. CASE RemovePages
  BY <1>3 DEF IInv, JobsMatchFiles, Loaded, RemovePages, services, runs
<1>4. ASSUME NEW j \in Jobs, StopJob(j) PROVE IInv'
  BY <1>4 DEF IInv, JobsMatchFiles, Loaded, StopJob, disk, runs
<1> QED
  BY <1>1, <1>2, <1>3, <1>4

LEMMA LoginStep == ASSUME IInv, Login PROVE IInv'
<1>1. \A j \in Jobs : FileOf(j) \in Files
  BY DEF FileOf, Files, Jobs
<1> QED
  BY <1>1 DEF IInv, Early, Late, JobsMatchFiles, Loaded, Login, disk

\* The plan of a run that gets the lock is made of what it finds then.
LEMMA LockStep ==
  ASSUME IInv, NEW i \in Installers, Lock(i) PROVE IInv'
<1>1. turn' = [turn EXCEPT ![i] = First(PlanFor(want[i]))] /\ lock' = i /\ lock = None
      /\ UNCHANGED <<disk, services, want>>
  BY DEF Lock
<1>2. CASE Unchanged(want[i])
  <2>1. First(PlanFor(want[i])) = "relay"
    BY <1>2 DEF First, PlanFor
  <2>2. want[i] \in routed
    BY <1>2 DEF Unchanged, IInv
  <2> QED
    BY <1>1, <2>1, <2>2, HostsAssumption DEF IInv, Early, Late, JobsMatchFiles, Loaded, disk, services
<1>3. CASE ~Unchanged(want[i])
  <2>1. First(PlanFor(want[i])) = "build"
    BY <1>3 DEF First, PlanFor
  <2>2. \A j \in Jobs : job[j] = None
    BY <1>3 DEF Lock, Disturbs, Loaded
  <2> QED
    BY <1>1, <2>1, <2>2, HostsAssumption DEF IInv, Early, Late, JobsMatchFiles, Loaded, disk, services
<1> QED
  BY <1>2, <1>3

\* Before any job is started.
LEMMA EarlyStep ==
  ASSUME IInv, NEW i \in Installers,
         \/ Build(i) \/ \E f \in Files : WriteFile(i, f)
         \/ WriteManifest(i) \/ CreateTunnel(i) \/ RouteName(i) \/ DieCreating(i)
  PROVE  IInv'
<1>1. CASE Build(i)
  BY <1>1 DEF IInv, Early, Late, JobsMatchFiles, Loaded, Build, Turn, services
<1>2. ASSUME NEW f \in Files, WriteFile(i, f) PROVE IInv'
  <2>1. /\ f \in Early /\ AfterFile(f) \in Early
    BY DEF Files, AfterFile, Early
  <2> QED
    BY <1>2, <2>1 DEF IInv, Early, Late, JobsMatchFiles, Loaded, WriteFile, Turn, services
<1>3. CASE WriteManifest(i)
  BY <1>3 DEF IInv, Early, Late, JobsMatchFiles, Loaded, WriteManifest, Turn, services
<1>4. CASE CreateTunnel(i)
  BY <1>4 DEF IInv, Early, Late, JobsMatchFiles, Loaded, CreateTunnel, Turn
<1>5. CASE RouteName(i)
  BY <1>5 DEF IInv, Early, Late, JobsMatchFiles, Loaded, RouteName, Turn, disk
<1>6. CASE DieCreating(i)
  BY <1>6 DEF IInv, Early, Late, JobsMatchFiles, Loaded, DieCreating, EndRun, disk
<1> QED
  BY <1>1, <1>2, <1>3, <1>4, <1>5, <1>6

\* Jobs are started, asked, and found ready.
LEMMA LateStep ==
  ASSUME IInv, NEW i \in Installers,
         (\E j \in Jobs : Bootstrap(i, j)) \/ Validate(i) \/ MarkReady(i)
  PROVE  IInv'
<1>1. ASSUME NEW j \in Jobs, Bootstrap(i, j) PROVE IInv'
  <2>1. /\ FileOf(j) \in Files /\ j \in Late /\ AfterJob(i, j) \in Late
        /\ j \notin Early /\ AfterJob(i, j) \notin Early
    BY DEF FileOf, Files, Jobs, AfterJob, Late, Early
  <2>2. lock = i /\ turn[i] = j /\ UNCHANGED <<disk, named, routed, want, lock>>
        /\ turn' = [turn EXCEPT ![i] = AfterJob(i, j)]
    BY <1>1, <2>1 DEF IInv, Bootstrap, Turn
  <2>3. job' \in {job, [job EXCEPT ![j] = file[FileOf(j)]]}
    BY <1>1 DEF Bootstrap
  <2>4. \A k \in Installers : turn'[k] \notin Early
    BY <2>1, <2>2 DEF IInv, Early, Late
  <2>5. JobsMatchFiles'
    BY <2>1, <2>2, <2>3 DEF IInv, JobsMatchFiles, Loaded, disk
  <2> QED
    BY <2>1, <2>2, <2>3, <2>4, <2>5 DEF IInv, disk
<1>2. CASE Validate(i)
  BY <1>2 DEF IInv, Early, Late, JobsMatchFiles, Loaded, Validate, Turn, disk, services
<1>3. CASE MarkReady(i)
  BY <1>3 DEF IInv, Early, Late, JobsMatchFiles, Loaded, MarkReady, EndRun, services
<1> QED
  BY <1>1, <1>2, <1>3

LEMMA InvariantStep == IInv /\ [Next]_allVars => IInv'
<1> SUFFICES ASSUME IInv, [Next]_allVars PROVE IInv'
  OBVIOUS
<1>1. UNCHANGED svars => IInv'
  BY DEF IInv, JobsMatchFiles, Loaded, svars, disk, services, runs
<1>2. ASSUME NEW i \in Installers, Carry(i) PROVE IInv'
  BY <1>2, LockStep, QuietStep, EarlyStep, LateStep DEF Carry
<1>3. ASSUME NEW i \in Installers, \/ Die(i) \/ DieCreating(i)
                                   \/ \E h \in Hosts : Call(i, h)
      PROVE  IInv'
  BY <1>3, QuietStep, EarlyStep
<1>4. Login \/ RemovePages \/ (\E j \in Jobs : StopJob(j)) => IInv'
  BY LoginStep, QuietStep
<1>5. UNCHANGED allVars => UNCHANGED svars
  BY DEF allVars
<1> QED
  BY <1>1, <1>2, <1>3, <1>4, <1>5 DEF Next

---------------------------------------------------------------------------
(* The theorems *)

\* If somebody creates or initializes a proxy first, no value moves (baal.ts,
\* initializeSafeAndBaal; zeroOne.ts, genesisDeposit).
THEOREM NoValueUnlessWired == Spec => ValueOnlyWhenWired
<1>1. DInv /\ [Next]_allVars => [~founder /\ founder' => Wired]_dvars
  BY InstallersApart, Writes DEF DInv, SafeSetUp, BaalSetUp, Wired, allVars
<1> QED
  BY <1>1, DInitInvariant, DInvariantStep, PTL DEF Spec, ValueOnlyWhenWired

\* The record is written of the DAO the run set up at the address it had checked,
\* with the founder as its first member (deploy-network.ts, deployNetwork).
THEOREM RecordIsTrue == Spec => RecordTrue
<1>1. DInv /\ [Next]_allVars =>
        [record' \notin {record, None} => predicted /\ Wired /\ founder /\ ~early]_dvars
  BY InstallersApart, Writes DEF DInv, Built, SafeSetUp, BaalSetUp, Wired, allVars
<1> QED
  BY <1>1, DInitInvariant, DInvariantStep, PTL DEF Spec, RecordTrue

\* No run of the installer, however many overlap and wherever they end, rewrites a
\* file under a running job (install-mainnet-services.py, apply).
THEOREM JobsAreTheirFiles == Spec => []JobsMatchFiles
<1>1. IInv => JobsMatchFiles
  BY DEF IInv
<1> QED
  BY <1>1, InstInit, InvariantStep, PTL DEF Spec

\* A NO-OP is answered of services that are up for that name (install-mainnet-services.py,
\* plan, apply).
THEOREM NoOpIsRight == Spec => []NoOpIsTrue
<1>1. IInv => NoOpIsTrue
  <2> SUFFICES ASSUME IInv, NEW h \in Hosts, NoOp(h) PROVE Healthy(h) /\ creds
    BY DEF NoOpIsTrue
  <2>1. /\ creds /\ beacon = PagesOf(h) /\ h \in routed
        /\ \A f \in Files : file[f] = h \/ f = "tunnel plist"
    BY DEF NoOp, Unchanged, IInv
  <2>2. \A j \in Jobs : FileOf(j) \in Files /\ FileOf(j) # "tunnel plist"
    BY DEF FileOf, Files
  <2>3. \A j \in Jobs : job[j] = file[FileOf(j)]
    BY DEF NoOp, IInv, JobsMatchFiles
  <2> QED
    BY <2>1, <2>2, <2>3 DEF Healthy
<1> QED
  BY <1>1, InstInit, InvariantStep, PTL DEF Spec
=============================================================================
