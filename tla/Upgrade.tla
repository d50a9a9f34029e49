------------------------------- MODULE Upgrade -------------------------------
(***************************************************************************)
(* `freens upgrade` (internal/cli/upgrade.go) on one machine, step by      *)
(* step, killed and re-run at any point: choose and fetch the release      *)
(* archive (TCP stream from a peer, chunk swarm, mirror or origin), cache  *)
(* it, verify it, migrate the configuration, swap the binaries one by one, *)
(* restart the services.                                                   *)
(*                                                                         *)
(* An archive is "origin" (the published bytes), "forged" (other bytes     *)
(* whose freens runs and reports the tag) or "broken" (does not unpack or  *)
(* run).  Versions are "old" and "new"; the verb runs the freens binary it *)
(* finds on disk, so its own version is that binary's.                     *)
(***************************************************************************)
EXTENDS Integers, Sequences

CONSTANT Platforms  \* subset of {"unix", "windows"} to explore

VARIABLES
    platform,    \* this machine
    mirror,      \* a download mirror is configured
    manifest,    \* the release has a chunk manifest
    step,        \* the verb's next step; "idle" between runs
    tarball,     \* what the verb downloaded, "none" before
    bin,         \* index of the binary being installed
    stopped1st,  \* windows: the stop-first fallback is being tried
    wasUp,       \* services that ran when the install began
    onDisk,      \* binary -> version installed
    prev,        \* binary -> content of its .freens-prev: "none", "torn", a version
    noBackup,    \* history: binaries whose backup copy failed
    confFile,    \* freens.conf: "old" (unmigrated) or "new"
    confBak,     \* freens.conf.pre-upgrade
    services,    \* service -> version its process runs, or "stopped"
    cache,       \* the blob cache's entry under the manifest's digest
    ending       \* history: how the last run ended

upgradeVars == <<platform, mirror, manifest, step, tarball, bin, stopped1st, wasUp, onDisk, prev,
            noBackup, confFile, confBak, services, cache, ending>>
fixed == <<platform, mirror, manifest>>
upDisk == <<onDisk, prev, noBackup, confFile, confBak, services, cache>>

\* releaseBinaries
Bins == <<"freens", "freens-cli", "freens-web">>
Bin == {"freens", "freens-cli", "freens-web"}
Service == {"freens", "freens-web"}

Up == {s \in Service : services[s] # "stopped"}

To(next) == step' = next
Ends(how) == step' = "idle" /\ ending' = how /\ tarball' = "none" /\ bin' = 1 /\ stopped1st' = FALSE /\ wasUp' = {}

\* cmdUpgrade up to the download: an up-to-date verb without -force says so.
BeginUpgrade(force) ==
    /\ step = "idle"
    /\ IF onDisk["freens"] = "new" /\ ~force
       THEN Ends("up to date")
       ELSE To(IF manifest THEN "tcp" ELSE "download") /\ UNCHANGED <<tarball, bin, stopped1st, wasUp, ending>>
    /\ UNCHANGED <<fixed, upDisk>>

\* fetchTarballViaTCP, then fetchTarballFromPeers: both verify every chunk
\* against origin's manifest, and hand over when they fail.
FromPeers ==
    /\ step \in {"tcp", "swarm"}
    /\ \/ tarball' = "origin" /\ To("cache")
       \/ tarball' = "none" /\ To(IF step = "tcp" THEN "swarm" ELSE "download")
    /\ UNCHANGED <<fixed, upDisk, bin, stopped1st, wasUp, ending>>

\* upgradeDownload: a mirror may serve anything; origin may be cut short.
Download ==
    /\ step = "download"
    /\ \/ /\ tarball' \in IF mirror THEN {"origin", "forged", "broken"} ELSE {"origin", "broken"}
          /\ To("cache") /\ UNCHANGED <<bin, stopped1st, wasUp, ending>>
       \/ Ends("download failed")
    /\ UNCHANGED <<fixed, upDisk>>

\* Only bytes that hash to the manifest's digest enter the blob cache.
Cached == IF manifest /\ tarball = "origin" THEN tarball ELSE cache

CacheArchive ==
    /\ step = "cache"
    /\ cache' \in {cache, Cached}
    /\ To("verify")
    /\ UNCHANGED <<fixed, tarball, bin, stopped1st, wasUp, ending, onDisk, prev, noBackup, confFile, confBak, services>>

\* verifyChecksum: with a mirror, origin's SHA256SUMS must match.
ChecksumOK == mirror => tarball = "origin"

\* verifyChecksum, stageTarball, verifyStaged.
VerifyArchive ==
    /\ step = "verify"
    /\ IF ChecksumOK /\ tarball # "broken"
       THEN To("migrate") /\ wasUp' = Up /\ UNCHANGED <<tarball, bin, stopped1st, ending>>
       ELSE Ends("refused")
    /\ UNCHANGED <<fixed, upDisk>>

\* A patch that has been applied does not apply again (patchWebUIName).
NeedsBackup == confFile = "old"

\* cmdUpgradeMigrate in the staged binary, -from this verb's version: first
\* the backup of the configuration ...
MigrateBackup ==
    /\ step = "migrate"
    /\ IF onDisk["freens"] = "old" /\ NeedsBackup
       THEN confBak' = confFile /\ To("migrate2")
       ELSE To("install") /\ UNCHANGED confBak
    /\ UNCHANGED <<fixed, tarball, bin, stopped1st, wasUp, ending, onDisk, prev, noBackup, confFile, services, cache>>

\* ... then the rewrite (writeFileAtomic0600).
MigrateWrite ==
    /\ step = "migrate2"
    /\ \/ confFile' = "new" /\ To("install") /\ UNCHANGED <<tarball, bin, stopped1st, wasUp, ending>>
       \/ Ends("migration failed") /\ UNCHANGED confFile
    /\ UNCHANGED <<fixed, onDisk, prev, noBackup, confBak, services, cache>>

Target == Bins[bin]
Incoming == IF tarball = "forged" THEN "forged" ELSE "new"

\* Fault: an identical binary is installed again.
IdenticalNever == FALSE

\* filesIdentical
Identical == onDisk[Target] = Incoming

\* runInstall's loop over the release's binaries.
Advance == IF bin < Len(Bins) THEN bin' = bin + 1 /\ To("install")
                              ELSE bin' = 1 /\ To("restart")

\* installBinary: skip an identical one, else copy to the staging name and
\* begin the backup (copyFile truncates first) ...
InstallBegin ==
    /\ step = "install"
    /\ IF Identical
       THEN Advance /\ UNCHANGED prev
       ELSE prev' = [prev EXCEPT ![Target] = "torn"] /\ To("backup") /\ UNCHANGED bin
    /\ UNCHANGED <<fixed, tarball, stopped1st, wasUp, ending, onDisk, noBackup, confFile, confBak, services, cache>>

\* ... best effort ...
InstallBackup ==
    /\ step = "backup"
    /\ \/ prev' = [prev EXCEPT ![Target] = onDisk[Target]] /\ noBackup' = noBackup \ {Target}
       \/ noBackup' = noBackup \cup {Target} /\ UNCHANGED prev
    /\ To("swap")
    /\ UNCHANGED <<fixed, tarball, bin, stopped1st, wasUp, ending, onDisk, confFile, confBak, services, cache>>

\* ... and rename over the target.
InstallSwap ==
    /\ step = "swap"
    /\ onDisk' = [onDisk EXCEPT ![Target] = Incoming]
    /\ Advance
    /\ UNCHANGED <<fixed, tarball, stopped1st, wasUp, ending, prev, noBackup, confFile, confBak, services, cache>>

\* winSvcStart of a service that was up: if it already runs it is left alone,
\* and that is success.
Started(s) == IF services[s] = "stopped" /\ s \in wasUp THEN onDisk[s] ELSE services[s]

\* installBinary fails at any of its steps.  On windows with a service
\* running, the services are stopped and the install is tried once more.
InstallFails ==
    /\ step \in {"install", "backup", "swap"} /\ ~Identical
    /\ \/ /\ platform = "windows" /\ ~stopped1st
          /\ wasUp # {}
          /\ services' = [s \in Service |-> "stopped"]
          /\ stopped1st' = TRUE /\ bin' = 1 /\ To("install")
          /\ UNCHANGED <<tarball, wasUp, ending>>
       \/ /\ platform = "windows" /\ stopped1st
          /\ services' = [s \in Service |-> Started(s)]
          /\ Ends("install failed")
       \/ /\ platform = "unix" \/ wasUp = {}
          /\ Ends("install failed")
          /\ UNCHANGED services
    /\ UNCHANGED <<fixed, onDisk, prev, noBackup, confFile, confBak, cache>>

\* systemctl restart of the active units.
Restarted(s) == IF s \in Up THEN onDisk[s] ELSE services[s]

\* restartFreensUnits / restartWindowsService, then the health checks, which
\* only warn.  The restart of a systemd unit may fail.
RestartServices ==
    /\ step = "restart"
    /\ \/ platform = "windows" /\ services' = [s \in Service |-> Started(s)] /\ Ends("complete")
       \/ platform = "unix" /\ services' = [s \in Service |-> Restarted(s)] /\ Ends("complete")
       \/ \E s \in Up :
            /\ platform = "unix"
            /\ services' = [t \in Service |-> IF t = s THEN "stopped" ELSE Restarted(t)]
            /\ Ends("restart warned")
    /\ UNCHANGED <<fixed, onDisk, prev, noBackup, confFile, confBak, cache>>

\* The verb is killed; its staging directory goes with it.
Killed ==
    /\ step # "idle"
    /\ Ends("killed")
    /\ UNCHANGED <<fixed, upDisk>>

\* The machine reboots: every service starts from its file.
Reboot ==
    /\ step = "idle"
    /\ services' = [s \in Service |-> onDisk[s]]
    /\ ending' = "rebooted"
    /\ UNCHANGED <<fixed, step, tarball, bin, stopped1st, wasUp, onDisk, prev, noBackup, confFile, confBak, cache>>

UpgradeInit ==
    /\ platform \in Platforms /\ mirror \in BOOLEAN /\ manifest \in BOOLEAN
    /\ step = "idle" /\ tarball = "none" /\ bin = 1 /\ stopped1st = FALSE /\ wasUp = {} /\ ending = "none"
    /\ onDisk = [b \in Bin |-> "old"] /\ prev = [b \in Bin |-> "none"] /\ noBackup = {}
    /\ confFile = "old" /\ confBak = "none"
    /\ services = [s \in Service |-> "old"] /\ cache = "none"

UpgradeNext ==
    \/ \E force \in BOOLEAN : BeginUpgrade(force)
    \/ FromPeers \/ Download \/ CacheArchive \/ VerifyArchive
    \/ MigrateBackup \/ MigrateWrite
    \/ InstallBegin \/ InstallBackup \/ InstallSwap \/ InstallFails
    \/ RestartServices \/ Killed \/ Reboot

UpgradeSpec == UpgradeInit /\ [][UpgradeNext]_upgradeVars

-----------------------------------------------------------------------------
(* Properties *)

\* The machine's files, services and the verb's progress are well typed.
UpgradeTypeOK ==
    /\ step \in {"idle", "tcp", "swarm", "download", "cache", "verify", "migrate", "migrate2",
                 "install", "backup", "swap", "restart"}
    /\ tarball \in {"none", "origin", "forged", "broken"} /\ bin \in 1..3
    /\ onDisk \in [Bin -> {"old", "new", "forged"}]
    /\ prev \in [Bin -> {"none", "torn", "old", "new", "forged"}] /\ noBackup \subseteq Bin
    /\ confFile \in {"old", "new"} /\ confBak \in {"none", "old", "new"}
    /\ services \in [Service -> {"old", "new", "forged", "stopped"}]
    /\ cache \in {"none", "origin", "forged", "broken"} /\ wasUp \subseteq Service

\* Bytes that origin did not publish are never installed and never cached for
\* other machines, whichever way the archive came and however often the verb
\* was killed and re-run.
OnlyOriginsBytes ==
    /\ \A b \in Bin : onDisk[b] \in {"old", "new"}
    /\ cache \in {"none", "origin"}

\* A replaced binary's .freens-prev is the version before the upgrade: no
\* re-run (forced or after a kill) overwrites the way back with the new one.
RollbackKept ==
    \A b \in Bin : onDisk[b] = "new" /\ b \notin noBackup => prev[b] = "old"

\* A migrated configuration has its unmigrated original beside it.
ConfigBackupKept == confFile = "new" => confBak = "old"

\* The way back is kept, for the binaries and for the configuration.
WayBackKept == RollbackKept /\ ConfigBackupKept

\* An upgrade that ends by itself leaves no service down that was up, unless
\* systemd refused its restart: the windows fallback that stops the services
\* starts them again on success and on failure.
NoneLeftDown ==
    step # "idle" /\ step' = "idle" /\ ending' \notin {"killed", "restart warned"}
        => \A s \in wasUp : services'[s] # "stopped"

ServicesComeBack == [][NoneLeftDown]_upgradeVars

=============================================================================
