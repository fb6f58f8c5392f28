---------------------------- MODULE RelayUpdate ----------------------------
(***************************************************************************)
(* The updater of the bridge (scripts/update.mjs) and the installer of the *)
(* relay's user service that it calls (scripts/install-background-         *)
(* relay.mjs) on Windows, where a relay of a legacy version holds the      *)
(* global package open: such a relay is first moved to the updater's own   *)
(* copy of the package (an npx cache), then npm replaces the global        *)
(* package, then its setup moves the relay back.  Every step is one call   *)
(* or child process, so users, crashes and other updaters come between.    *)
(*                                                                         *)
(* A package root is 0, the global one, or v, the cached copy of version   *)
(* v.  The running relay and its service are one record; RelayService has  *)
(* their takeover in detail.  Operators named ...Mutant are faulty         *)
(* variants that the mutation runs put in the place of the definition that *)
(* follows them.                                                           *)
(***************************************************************************)
EXTENDS Naturals, FiniteSets

CONSTANTS Updaters,   \* updaters the user may run
          V,          \* the version of each
          First,      \* the version first installed
          Legacy,     \* versions whose relay holds the global package
          Together,   \* whether updaters may overlap
          Faults,     \* bound: crashes, exits and deadlines
          Toggles,    \* bound: changes the user makes to the two switches
          Prunes,     \* bound: cached copies removed
          Repeats     \* bound: runs repeated after success

UpdateAssumption ==
  First \in Nat \ {0} /\ V \in [Updaters -> Nat \ {0}] /\ Together \in BOOLEAN

NoRelay == [root |-> 0, ver |-> 0]     \* no relay is running

VARIABLES
  pkg,        \* version of the global package
  caches,     \* versions with a cached copy
  rt,         \* service-runtime.json: the root and version the service is to run
  task,       \* the scheduled task: enabled, root
  cfg,        \* the relay's configuration says enabled
  relay,      \* the running relay: the record it started from, the version it loaded
  updater,    \* each updater: pc, phase, tgt, want, the record it saw, enabled, ready
  last,       \* the updater that started last
  userOff,    \* the user has disabled the task at some time
  notice,     \* what the installer last said of a switched-off service
  touched,    \* the user changed a switch since the last updater started
  faults, toggles, prunes, repeats
world == <<pkg, caches, rt, task, cfg, relay>>
ghosts == <<userOff, notice, touched>>
bounds == <<faults, toggles, prunes, repeats>>
vars == <<world, updater, last, ghosts, bounds>>

Idle == [pc |-> "idle", phase |-> "none", tgt |-> 0, want |-> 0, seen |-> [root |-> 0, ver |-> 0],
         enabled |-> FALSE, ready |-> FALSE]
Init ==
  /\ pkg = First /\ caches = {} /\ rt = [root |-> 0, ver |-> First]
  /\ task = [enabled |-> TRUE, root |-> 0] /\ cfg = TRUE
  /\ relay \in {NoRelay, [root |-> 0, ver |-> First]}
  /\ updater = [u \in Updaters |-> Idle] /\ last = 0
  /\ userOff = FALSE /\ notice = "none" /\ touched = FALSE
  /\ faults = 0 /\ toggles = 0 /\ prunes = 0 /\ repeats = 0

Terminal == {"idle", "updated", "refused", "failed"}
Available(root) == root = 0 \/ root \in caches
\* The version a package root holds.
packageVersion(root) == IF root = 0 THEN pkg ELSE root
Running == relay # NoRelay
Set(u, f) == updater' = [updater EXCEPT ![u] = f]
At(u, pc) == updater[u].pc = pc
Go(u, pc) == Set(u, [updater[u] EXCEPT !.pc = pc])
----------------------------------------------------------------------------
(* runUpdate up to npm's installation.                                     *)

DowngradeMutant(u) == pkg > V[u]
Downgrade(u) == pkg > V[u] \/ rt.ver > V[u]

\* The record already names a copy that is not legacy and is still there.
Staged == Available(rt.root) /\ ~(rt.ver \in Legacy)

\* runUpdate's preflight.  A disabled relay must have gone; an enabled legacy one
\* is moved to the updater's own copy unless an earlier run has done so.
Preflight(u) ==
  LET started == [Idle EXCEPT !.phase = "migration"] IN
  /\ Together \/ \A w \in Updaters \ {u} : updater[w].pc \in Terminal
  /\ At(u, "idle")
  /\ last' = u /\ touched' = FALSE /\ caches' = caches \union {V[u]}
  /\ Set(u, IF Downgrade(u) THEN [started EXCEPT !.pc = "refused"]
            ELSE IF ~({pkg, rt.ver} \cap Legacy # {}) THEN [started EXCEPT !.pc = "npm"]
            ELSE IF ~cfg THEN [started EXCEPT !.pc = IF Running THEN "failed" ELSE "npm"]
            ELSE IF Staged THEN [started EXCEPT !.pc = "poll", !.tgt = rt.root, !.want = rt.ver]
            ELSE [started EXCEPT !.pc = "query", !.tgt = V[u], !.want = V[u]])
  /\ UNCHANGED <<pkg, rt, task, cfg, relay, userOff, notice, bounds>>

\* npm install --global: a legacy relay holds the package open (EBUSY).  Then the
\* setup of the installed package calls the installer for the global root.
Npm(u) ==
  /\ At(u, "npm")
  /\ IF Running /\ relay.root = 0 /\ relay.ver \in Legacy
     THEN Go(u, "failed") /\ UNCHANGED pkg
     ELSE /\ pkg' = V[u]
          /\ Set(u, [updater[u] EXCEPT !.pc = "query", !.phase = "setup", !.tgt = 0, !.want = V[u]])
  /\ UNCHANGED <<caches, rt, task, cfg, relay, last, ghosts, bounds>>
----------------------------------------------------------------------------
(* installBackgroundRelay on Windows.                                      *)

\* The version is read with the record, so the step fails when the copy is gone.
Query(u) ==
  /\ At(u, "query")
  /\ IF Available(updater[u].tgt)
     THEN LET enabled == cfg /\ task.enabled IN
          Set(u, [updater[u] EXCEPT !.seen = rt, !.enabled = enabled,
            !.pc = IF task = [enabled |-> enabled, root |-> updater[u].tgt] THEN "prepare" ELSE "register"])
     ELSE Go(u, "failed")
  /\ UNCHANGED <<world, last, ghosts, bounds>>

\* taskXml(): the task as the installer registers it.
Wanted(u) == [enabled |-> updater[u].enabled, root |-> updater[u].tgt]

\* A switch that the user has changed since the query is written over.
Register(u) ==
  /\ At(u, "register") /\ Go(u, "prepare")
  /\ task' = Wanted(u)
  /\ UNCHANGED <<pkg, caches, rt, cfg, relay, last, ghosts, bounds>>

PrepareMutant(u) ==
  /\ At(u, "prepare")
  /\ IF /\ task = Wanted(u)
        /\ rt = updater[u].seen
     THEN /\ Go(u, "start")
          /\ rt' = IF Running /\ rt.ver = packageVersion(updater[u].tgt) THEN rt
                   ELSE [root |-> updater[u].tgt, ver |-> packageVersion(updater[u].tgt)]
     ELSE Go(u, "failed") /\ UNCHANGED rt
  /\ UNCHANGED <<pkg, caches, task, cfg, relay, last, ghosts, bounds>>
\* The task is read back, then prepareRuntime replaces the record it had read.
Prepare(u) ==
  /\ At(u, "prepare")
  /\ IF /\ task = Wanted(u)
        /\ rt = updater[u].seen
     THEN /\ Go(u, "start")
          /\ rt' = [root |-> updater[u].tgt, ver |-> packageVersion(updater[u].tgt)]
     ELSE Go(u, "failed") /\ UNCHANGED rt
  /\ UNCHANGED <<pkg, caches, task, cfg, relay, last, ghosts, bounds>>

\* The service loads what the record names at the time it starts.
Loaded == [root |-> rt.root, ver |-> packageVersion(rt.root)]
Startable == task.enabled /\ cfg /\ Available(task.root) /\ Available(rt.root)

Start(u) ==
  /\ At(u, "start")
  /\ IF ~updater[u].enabled
     THEN /\ notice' = IF cfg THEN "user" ELSE "configuration"
          /\ UNCHANGED relay
     ELSE /\ relay' = IF ~Running /\ Startable THEN Loaded ELSE relay
          /\ UNCHANGED notice
  /\ IF updater[u].enabled /\ ~Running /\ ~task.enabled
     THEN Go(u, "failed")
     ELSE Set(u, [updater[u] EXCEPT !.pc = "poll",
                  !.phase = IF @ = "setup" THEN "verification" ELSE @])
  /\ UNCHANGED <<pkg, caches, rt, task, cfg, last, userOff, touched, bounds>>
----------------------------------------------------------------------------
(* awaitService: the installer's check, repeated.                          *)

Done(u, ready) ==
  Set(u, [updater[u] EXCEPT !.ready = ready,
                            !.pc = IF updater[u].phase = "migration" THEN "npm" ELSE "updated"])

ServesMutant(u) == Running /\ packageVersion(updater[u].tgt) = updater[u].want
\* The relay answers with the runtime and the version that are expected.
Serves(u) == relay = [root |-> updater[u].tgt, ver |-> updater[u].want]

MayLeaveMutant(u) == TRUE
\* During a migration a switched-off relay must be gone (serviceQuiescent).
MayLeave(u) == updater[u].phase = "migration" => ~Running

Poll(u) ==
  LET tgt == updater[u].tgt
      enabled == cfg /\ task.enabled
      configured == /\ Available(tgt) /\ task = [enabled |-> enabled, root |-> tgt]
                    /\ rt = [root |-> tgt, ver |-> packageVersion(tgt)] IN
  /\ At(u, "poll")
  /\ \/ ~configured /\ Go(u, "failed")
     \/ configured /\ ~enabled /\ IF MayLeave(u) THEN Done(u, FALSE) ELSE Go(u, "failed")
     \/ configured /\ enabled /\ Serves(u) /\ Done(u, TRUE)
  /\ UNCHANGED <<world, last, ghosts, bounds>>
----------------------------------------------------------------------------
(* Everything else that happens meanwhile.                                 *)

\* The updater is killed, a command of it fails or its deadline passes.
Fails(u) ==
  /\ updater[u].pc \notin Terminal /\ faults < Faults
  /\ faults' = faults + 1 /\ Go(u, "failed")
  /\ UNCHANGED <<world, last, ghosts, toggles, prunes, repeats>>

\* "Run the same codex-bridge-update command again".
Rerun(u) ==
  /\ \/ At(u, "failed") /\ UNCHANGED repeats
     \/ At(u, "updated") /\ repeats < Repeats /\ repeats' = repeats + 1
  /\ Go(u, "idle")
  /\ UNCHANGED <<world, last, ghosts, faults, toggles, prunes>>

\* An idle relay moves to the runtime the record names, once its files are there.
Follow ==
  /\ Running /\ cfg /\ Available(rt.root) /\ relay # Loaded
  /\ relay' = Loaded
  /\ UNCHANGED <<pkg, caches, rt, task, cfg, updater, last, ghosts, bounds>>

\* A relay that finds itself switched off in its configuration ends.
Stop ==
  /\ Running /\ ~cfg /\ relay' = NoRelay
  /\ UNCHANGED <<pkg, caches, rt, task, cfg, updater, last, ghosts, bounds>>

\* The service ends with the session or a fault ...
Exit ==
  /\ Running /\ faults < Faults /\ faults' = faults + 1 /\ relay' = NoRelay
  /\ UNCHANGED <<pkg, caches, rt, task, cfg, updater, last, ghosts, toggles, prunes, repeats>>
\* ... and the scheduler launches it again.
Launch ==
  /\ ~Running /\ Startable /\ relay' = Loaded
  /\ UNCHANGED <<pkg, caches, rt, task, cfg, updater, last, ghosts, bounds>>

\* The user's two switches: the scheduled task and the configuration.
Toggle ==
  /\ toggles < Toggles /\ toggles' = toggles + 1 /\ touched' = TRUE
  /\ \/ task' = [task EXCEPT !.enabled = ~@] /\ userOff' = (userOff \/ task.enabled) /\ UNCHANGED cfg
     \/ cfg' = ~cfg /\ UNCHANGED <<task, userOff>>
  /\ UNCHANGED <<pkg, caches, rt, relay, updater, last, notice, faults, prunes, repeats>>

\* npm's cache of an updater that is not running is cleared.
Prune ==
  /\ prunes < Prunes /\ prunes' = prunes + 1
  /\ \E v \in caches : /\ \A u \in Updaters : V[u] = v => updater[u].pc \in Terminal
                       /\ caches' = caches \ {v}
  /\ UNCHANGED <<pkg, rt, task, cfg, relay, updater, last, ghosts, faults, toggles, repeats>>

Work(u) == Preflight(u) \/ Npm(u) \/ Query(u) \/ Register(u) \/ Prepare(u) \/ Start(u) \/ Poll(u)
Next ==
  \/ \E u \in Updaters : Work(u) \/ Fails(u) \/ Rerun(u)
  \/ Follow \/ Stop \/ Exit \/ Launch \/ Toggle \/ Prune
Spec == Init /\ [][Next]_vars

\* The user repeats a failed run, updaters and their commands end, an idle relay
\* follows its record, and the scheduler launches an enabled task.
FairSpec ==
  /\ Spec /\ WF_vars(Follow) /\ WF_vars(Stop) /\ WF_vars(Launch)
  /\ \A u \in Updaters : WF_vars(Work(u)) /\ WF_vars(At(u, "failed") /\ Rerun(u))
----------------------------------------------------------------------------
(* Properties.                                                             *)

\* An update that was reported stays in force whatever ends and starts again, until
\* another updater runs: the global package, the record and the task name its
\* version, and a relay reported ready runs nothing else (update.mjs:260-266).
UpdatedStays ==
  \A u \in Updaters : At(u, "updated") /\ last = u =>
    /\ pkg = V[u] /\ rt = [root |-> 0, ver |-> V[u]] /\ task.root = 0
    /\ updater[u].ready /\ Running => relay = rt

\* Updaters that do not overlap never take the package, the record or the relay
\* back to an older version (update.mjs:174, 203).
NeverBack ==
  [][/\ pkg' >= pkg /\ rt'.ver >= rt.ver
     /\ Running /\ Running' => relay'.ver >= relay.ver]_vars

\* npm is run over a legacy relay only if the user changed a switch after the
\* preflight had looked (update.mjs:227-236).
NpmMeetsNoLegacy ==
  [][\A u \in Updaters :
       At(u, "npm") /\ ~At(u, "npm")' /\ ~touched /\ Running /\ relay.root = 0 => ~(relay.ver \in Legacy)]_vars

\* Interrupted and repeated, every update is made or refused as a downgrade, unless
\* the user keeps the service switched off (update.mjs:23, 225-236).
Recovers ==
  <>[](\A u \in Updaters : updater[u].pc \in {"updated", "refused"}) \/ []<>(~cfg \/ ~task.enabled)

\* The notice of the installer for a disabled task: "User startup is intentionally
\* disabled; the installer preserved that choice" (install-background-relay.mjs:416).
ChoiceIsTheUsers == notice = "user" => userOff

\* "The global bridge is newer than this updater" (update.mjs:174): a newer global
\* package is not replaced.
NoDowngrade == [][pkg' >= pkg]_vars
=============================================================================
