-------------------------- MODULE ServiceInstaller --------------------------
(***************************************************************************)
(* scripts/install-mainnet-services.py: from a deployment record to two    *)
(* launchd jobs, the relay and its tunnel.  A run plans, takes a flock,    *)
(* plans again, and works through the plan: build the pages, write three   *)
(* files, write its manifest, create the tunnel, route the name to it,     *)
(* start the jobs, ask the public address, and mark the manifest ready.    *)
(* It may die after any of these; runs may overlap and ask for different   *)
(* hostnames; at a login the system starts every job whose file is there.  *)
(*                                                                         *)
(* Left out: the Sepolia pair it must not touch, symlinks, permissions,    *)
(* ports, a foreign file where an output goes (it is refused), --dry-run.  *)
(***************************************************************************)
EXTENDS Deployment, FiniteSets

CONSTANTS Installers, Hosts,
          MaxFaults  \* bound: runs that die, and logins, in a behaviour

ASSUME HostsAssumption == None \notin Hosts /\ None \notin Installers /\ MaxFaults \in Nat

VARIABLES
  file,    \* the three files: the hostname they are written for
  manifest,\* installer.json: None or [dao, host, ready]
  beacon,  \* the built pages: None or [dao, host]
  named,   \* Cloudflare has the tunnel
  creds,   \* its credentials are here
  routed,  \* hostnames that lead to the tunnel
  job,     \* the jobs: the hostname they were started with
  turn,    \* where a run of the installer is
  want,    \* the hostname it was called with
  plan,    \* its plan
  lock,    \* the run that holds the flock
  faults

disk == <<file, manifest, beacon, creds>>
services == <<named, routed, job>>
runs == <<turn, want, plan, lock>>
svars == <<disk, services, runs, faults>>
allVars == <<dvars, svars>>

Jobs == {"relay", "tunnel"}
Files == {"config", "relay plist", "tunnel plist"}
Plans == [dao: Nat, unchanged: BOOLEAN, create: BOOLEAN, missing: SUBSET Jobs]

\* The file a job takes its hostname from; the tunnel's plist names no host.
FileOf(j) == IF j = "relay" THEN "relay plist" ELSE "config"

Loaded == {j \in Jobs : job[j] # None}
PagesOf(h) == [dao |-> record, host |-> h]

\* What plan refuses: no record, jobs or outputs without a manifest, another
\* deployment's manifest, and pages built for another DAO or name.
Refused(h) ==
  \/ record = None
  \/ manifest = None /\ (Loaded # {} \/ creds \/ \E f \in Files : file[f] # None)
  \/ manifest # None /\ manifest.dao # record
  \/ beacon # None /\ beacon # PagesOf(h)

\* A plausible slip: the manifest's flag is not looked at.
UnchangedUnready(h) ==
  /\ manifest # None
  /\ manifest.dao = record /\ manifest.host = h
  /\ creds /\ beacon = PagesOf(h)
  /\ \A f \in Files : file[f] = h \/ (f = "tunnel plist" /\ file[f] # None)

\* All was provisioned for this name, and every file still says so.
Unchanged(h) ==
  /\ manifest # None /\ manifest.ready
  /\ manifest.dao = record /\ manifest.host = h
  /\ creds /\ beacon = PagesOf(h)
  /\ \A f \in Files : file[f] = h \/ (f = "tunnel plist" /\ file[f] # None)

\* A plausible slip: the tunnel is created again.
PlanForAnew(h) == [dao |-> record, unchanged |-> Unchanged(h), create |-> TRUE,
                   missing |-> Jobs \ Loaded]

PlanFor(h) == [dao |-> record, unchanged |-> Unchanged(h), create |-> ~creds,
               missing |-> Jobs \ Loaded]

\* Refused by apply: a changed configuration while an own job is loaded.
Disturbs(h) == ~Unchanged(h) /\ Loaded # {}

NoOp(h) == Unchanged(h) /\ Jobs \subseteq Loaded

\* A call that plan or apply refuses, and a NO-OP, change nothing and are no steps.
\* Other calls wait for the flock.
Call(i, h) ==
  /\ turn[i] = "idle"
  /\ ~Refused(h) /\ ~NoOp(h) /\ ~Disturbs(h)
  /\ want' = [want EXCEPT ![i] = h]
  /\ turn' = [turn EXCEPT ![i] = "planned"]
  /\ UNCHANGED <<dvars, disk, services, plan, lock, faults>>

EndRun(i) ==
  /\ turn' = [turn EXCEPT ![i] = "idle"]
  /\ want' = [want EXCEPT ![i] = None]
  /\ plan' = [plan EXCEPT ![i] = None]
  /\ lock' = IF lock = i THEN None ELSE lock

Turn(i, stage) == turn' = [turn EXCEPT ![i] = stage] /\ UNCHANGED <<want, plan, lock>>

First(p) == IF p.unchanged THEN "relay" ELSE "build"

\* A plausible slip: what was asked before the lock is not asked again.
LockStale(i) ==
  /\ turn[i] = "planned" /\ lock = None
  /\ lock' = i
  /\ plan' = [plan EXCEPT ![i] = PlanFor(want[i])]
  /\ turn' = [turn EXCEPT ![i] = First(PlanFor(want[i]))]
  /\ UNCHANGED <<dvars, disk, services, want, faults>>

\* The flock, then the plan again, which may refuse now what it did not before.
\* The plan made before the lock is not used.
Lock(i) ==
  /\ turn[i] = "planned" /\ lock = None
  /\ ~Refused(want[i]) /\ ~Disturbs(want[i])
  /\ lock' = i
  /\ plan' = [plan EXCEPT ![i] = PlanFor(want[i])]
  /\ turn' = [turn EXCEPT ![i] = First(PlanFor(want[i]))]
  /\ UNCHANGED <<dvars, disk, services, want, faults>>

RefusedNow(i) ==
  /\ turn[i] = "planned" /\ lock = None
  /\ Refused(want[i]) \/ Disturbs(want[i])
  /\ EndRun(i)
  /\ UNCHANGED <<dvars, disk, services, faults>>

---------------------------------------------------------------------------
(* The plan, step by step *)

Build(i) ==
  /\ turn[i] = "build" /\ record # None
  /\ beacon' = PagesOf(want[i])
  /\ Turn(i, "config")
  /\ UNCHANGED <<dvars, file, manifest, creds, services, faults>>

AfterFile(f) ==
  CASE f = "config" -> "relay plist"
    [] f = "relay plist" -> "tunnel plist"
    [] OTHER -> "manifest"

WriteFile(i, f) ==
  /\ turn[i] = f
  /\ file' = [file EXCEPT ![f] = want[i]]
  /\ Turn(i, AfterFile(f))
  /\ UNCHANGED <<dvars, manifest, beacon, creds, services, faults>>

\* Ownership is written before the tunnel is created.
WriteManifest(i) ==
  /\ turn[i] = "manifest"
  /\ manifest' = [dao |-> plan[i].dao, host |-> want[i], ready |-> FALSE]
  /\ Turn(i, IF plan[i].create THEN "create" ELSE "route")
  /\ UNCHANGED <<dvars, file, beacon, creds, services, faults>>

\* A name that is taken stops the installation.
CreateTunnel(i) ==
  /\ turn[i] = "create" /\ ~named
  /\ named' = TRUE /\ creds' = TRUE
  /\ Turn(i, "route")
  /\ UNCHANGED <<dvars, file, manifest, beacon, routed, job, faults>>

RouteName(i) ==
  /\ turn[i] = "route" /\ named
  /\ routed' = routed \union {want[i]}
  /\ Turn(i, "relay")
  /\ UNCHANGED <<dvars, disk, named, job, faults>>

AfterJob(i, j) ==
  IF j = "relay" THEN "tunnel" ELSE IF plan[i].unchanged THEN "ready" ELSE "health"

\* launchctl bootstrap: it fails for a job that is loaded by now.
Bootstrap(i, j) ==
  /\ turn[i] = j
  /\ IF j \in plan[i].missing
     THEN job[j] = None /\ job' = [job EXCEPT ![j] = file[FileOf(j)]]
     ELSE UNCHANGED job
  /\ Turn(i, AfterJob(i, j))
  /\ UNCHANGED <<dvars, disk, named, routed, faults>>

\* The public address answers, with these pages.
Healthy(h) == h \in routed /\ beacon = PagesOf(h) /\ \A j \in Jobs : job[j] = h

Validate(i) ==
  /\ turn[i] = "health" /\ Healthy(want[i])
  /\ Turn(i, "ready")
  /\ UNCHANGED <<dvars, disk, services, faults>>

MarkReady(i) ==
  /\ turn[i] = "ready"
  /\ manifest' = [dao |-> plan[i].dao, host |-> want[i], ready |-> TRUE]
  /\ EndRun(i)
  /\ UNCHANGED <<dvars, file, beacon, creds, services, faults>>

\* A command cannot succeed: no record any more, the name is taken, a job is
\* loaded, no answer.
Stuck(i) ==
  /\ \/ turn[i] = "build" /\ record = None
     \/ turn[i] = "create" /\ named
     \/ turn[i] \in Jobs /\ turn[i] \in plan[i].missing /\ job[turn[i]] # None
     \/ turn[i] = "health" /\ ~Healthy(want[i])
  /\ EndRun(i)
  /\ UNCHANGED <<dvars, disk, services, faults>>

---------------------------------------------------------------------------
(* Faults, the system, and the operator *)

Fault == faults < MaxFaults /\ faults' = faults + 1

\* A command fails, or the run is killed.
Die(i) ==
  /\ Fault /\ turn[i] # "idle"
  /\ EndRun(i)
  /\ UNCHANGED <<dvars, disk, services>>

\* ... after the tunnel got its name, before the credentials are here.
DieCreating(i) ==
  /\ Fault /\ turn[i] = "create" /\ ~named
  /\ named' = TRUE
  /\ EndRun(i)
  /\ UNCHANGED <<dvars, disk, routed, job>>

\* A restart of the machine, or a login: jobs whose plist is there are started.
Login ==
  /\ Fault
  /\ job' = [j \in Jobs |-> IF file[IF j = "relay" THEN "relay plist" ELSE "tunnel plist"] = None
                            THEN None ELSE file[FileOf(j)]]
  /\ turn' = [i \in Installers |-> "idle"] /\ lock' = None
  /\ want' = [i \in Installers |-> None] /\ plan' = [i \in Installers |-> None]
  /\ UNCHANGED <<dvars, disk, named, routed>>

\* "Stop only those mainnet jobs ... and rerun after review", when nobody installs.
StopJob(j) ==
  /\ lock = None /\ job[j] # None
  /\ job' = [job EXCEPT ![j] = None]
  /\ UNCHANGED <<dvars, disk, named, routed, runs, faults>>

\* Pages for another name are removed by hand.
RemovePages ==
  /\ lock = None /\ beacon # None
  /\ beacon' = None
  /\ UNCHANGED <<dvars, file, manifest, creds, services, runs, faults>>

---------------------------------------------------------------------------
Init ==
  /\ DInit
  /\ file = [f \in Files |-> None] /\ manifest = None /\ beacon = None
  /\ named = FALSE /\ creds = FALSE /\ routed = {} /\ job = [j \in Jobs |-> None]
  /\ turn = [i \in Installers |-> "idle"] /\ want = [i \in Installers |-> None]
  /\ plan = [i \in Installers |-> None] /\ lock = None /\ faults = 0

Carry(i) ==
  \/ Lock(i) \/ RefusedNow(i) \/ Build(i) \/ \E f \in Files : WriteFile(i, f)
  \/ WriteManifest(i) \/ CreateTunnel(i) \/ RouteName(i) \/ \E j \in Jobs : Bootstrap(i, j)
  \/ Validate(i) \/ MarkReady(i) \/ Stuck(i)

Next ==
  \/ (DNext \/ (MoveAside /\ lock = None)) /\ UNCHANGED svars
  \/ Login \/ RemovePages \/ \E j \in Jobs : StopJob(j)
  \/ \E i \in Installers :
       Carry(i) \/ Die(i) \/ DieCreating(i) \/ \E h \in Hosts : Call(i, h)

\* Who wants the services up calls the installer again, stops the jobs it refuses
\* to disturb, and removes the pages it refuses to replace.  A run goes on.
Fairness ==
  /\ \A i \in Installers : WF_allVars(Carry(i))
  /\ WF_allVars(manifest # None /\ \E i \in Installers : Call(i, manifest.host))
  /\ WF_allVars(manifest # None /\ Disturbs(manifest.host) /\ \E j \in Jobs : StopJob(j))
  /\ WF_allVars(manifest # None /\ beacon # PagesOf(manifest.host) /\ RemovePages)

Spec == Init /\ [][Next]_allVars /\ Fairness

---------------------------------------------------------------------------
(* Properties *)

TypeOK ==
  /\ DTypeOK
  /\ file \in [Files -> Hosts \union {None}]
  /\ manifest \in [dao: 1..run, host: Hosts, ready: BOOLEAN] \union {None}
  /\ beacon \in [dao: 1..run, host: Hosts] \union {None}
  /\ named \in BOOLEAN /\ creds \in BOOLEAN /\ (creds => named)
  /\ routed \subseteq Hosts /\ job \in [Jobs -> Hosts \union {None}]
  /\ lock \in Installers \union {None} /\ faults \in 0..MaxFaults
  /\ \A i \in Installers :
       /\ want[i] \in Hosts \union {None} /\ plan[i] \in Plans \union {None}
       /\ turn[i] \in {"idle", "planned"} <=> lock # i
       /\ plan[i] # None <=> lock = i

\* A job that runs was started with what its file says: no run of the installer,
\* first, second or concurrent, interrupted or not, rewrites a file under a running
\* job, which would change the service at its next restart (install-mainnet-services.py,
\* apply: "refusing implicit restart").
JobsMatchFiles == \A j \in Loaded : file[FileOf(j)] = job[j]

\* When a call would answer NO-OP, the services are as it says: both run for the
\* hostname, it leads to the tunnel, and the pages are this DAO's.  Nothing that
\* failed before is skipped (decision.md: "a failed DNS operation is not silently
\* skipped on rerun"; plan, unchanged).
NoOpIsTrue == \A h \in Hosts : ~Refused(h) /\ NoOp(h) => Healthy(h) /\ creds

\* An interrupted installation that left its manifest can be resumed and gets ready,
\* if whoever repeats it stops the jobs a login started (docs/MAINNET_INSTALLER.md:
\* "can resume from its manifest").  Unless the record is moved aside, or the run
\* died between the tunnel's name and its credentials: that stays refused.
InstallEnds ==
  manifest # None ~>
    \/ manifest # None /\ manifest.ready
    \/ manifest # None /\ manifest.dao # record
    \/ named /\ ~creds
=============================================================================
