------------------------------ MODULE HostProofs ------------------------------
(***************************************************************************)
(* Proofs about what a host keeps: the secrets behind the write tokens     *)
(* (WriteTokens), for every rotation period and tolerance, the programs the*)
(* upgrade replaces (Upgrade), for any number of retries and mishaps, and  *)
(* the certificates the web server serves (Certs), for any number of       *)
(* configuration files, every leaf lifetime and every renewal margin.      *)
(***************************************************************************)
EXTENDS WriteTokens, Upgrade, Certs, TLAPS

-----------------------------------------------------------------------------
(***************************************************************************)
(* Write tokens.                                                           *)
(***************************************************************************)

\* Integer division by the rotation period, as inequalities.
LEMMA DivBounds ==
    ASSUME NEW a \in Nat, NEW R \in Nat \ {0}
    PROVE  a \div R \in Nat /\ R * (a \div R) <= a /\ a < R * (a \div R) + R
<1>1. a = R * (a \div R) + (a % R) /\ a % R \in 0..(R-1) /\ a \div R \in Int
  OBVIOUS
<1> DEFINE q == a \div R
<1>2. R * q >= a - (R - 1)
  BY <1>1
<1>3. q >= 0
  <2> SUFFICES ASSUME q <= -1 PROVE FALSE
    BY <1>1
  <2>1. R * q <= -R
    BY <1>1
  <2> QED
    BY <2>1, <1>2
<1> QED
  BY <1>1, <1>3

\* Consecutive multiples of the rotation period.
LEMMA MulMono ==
    ASSUME NEW x \in Int, NEW y \in Int, NEW R \in Nat \ {0}, x < y
    PROVE  R * x + R <= R * y
<1>1. R * (x + 1) <= R * y
  OBVIOUS
<1>2. R * (x + 1) = R * x + R
  OBVIOUS
<1> QED
  BY <1>1, <1>2, Zenon

\* Epochs between two instants, in rotations.
LEMMA EpochSpan ==
    ASSUME NEW at \in Nat, NEW t \in Nat, at <= t, NEW n \in Nat, NEW R \in Nat \ {0}
    PROVE  /\ (t \div R) - (at \div R) \in Nat
           /\ (t - at <= R * n) => (t \div R) - (at \div R) <= n
           /\ (t - at >= R * (n + 1)) => (t \div R) - (at \div R) > n
<1> DEFINE p == at \div R
           q == t \div R
<1>1. p \in Nat /\ R * p <= at /\ at < R * p + R
  BY DivBounds, Zenon
<1>2. q \in Nat /\ R * q <= t /\ t < R * q + R
  BY DivBounds, Zenon
<1> HIDE DEF p, q
<1>3. q >= p
  <2> SUFFICES ASSUME q < p PROVE FALSE
    BY <1>1, <1>2
  <2>1. R * q + R <= R * p
    BY <1>1, <1>2, MulMono
  <2> QED
    BY <1>1, <1>2, <2>1
<1>4. R * (p + n) = R * p + R * n /\ R * (n + 1) = R * n + R /\ R * n \in Nat
  BY <1>1
<1>5. ASSUME t - at <= R * n, q > p + n PROVE FALSE
  <2>1. R * (p + n) + R <= R * q
    BY <1>1, <1>2, <1>5, MulMono
  <2> QED
    BY <1>1, <1>2, <1>4, <1>5, <2>1
<1>6. ASSUME t - at >= R * (n + 1), q <= p + n PROVE FALSE
  <2>1. R * q + R <= R * (p + n + 1)
    BY <1>1, <1>2, <1>6, MulMono
  <2>2. R * (p + n + 1) = R * p + R * n + R
    BY <1>1, <1>4
  <2> QED
    BY <1>1, <1>2, <1>4, <1>6, <2>1, <2>2, SMTT(60)
<1>7. (t - at <= R * n) => q - p <= n
  BY <1>1, <1>2, <1>5
<1>8. (t - at >= R * (n + 1)) => q - p > n
  BY <1>1, <1>2, <1>6
<1> QED
  BY <1>1, <1>2, <1>3, <1>7, <1>8 DEF p, q

\* A query in flight is younger than its timeout, and the token of a second
\* attempt was issued when that attempt's chunk request left.
FlightInv ==
    \A c \in Client :
        /\ sent[c] <= time
        /\ call[c] # "idle" => time - sent[c] <= MaxFlight
        /\ call[c] = "chunk" => cached[c] # NoToken
        /\ call[c] = "chunk" /\ attempt[c] = 1 => cached[c].at = sent[c]

\* The inductive invariant: a token in flight on the second attempt is fresh
\* enough to verify, so no session is rejected.
TokenInv == TokenTypeOK /\ FlightInv /\ RefreshOnceSuffices

\* At the start nobody holds a token.
LEMMA TokenInitInv == TokenInit => TokenInv
BY TokenAssumption DEF TokenInit, TokenInv, TokenTypeOK, FlightInv, RefreshOnceSuffices, NoToken

\* A token issued within the flight bound verifies for the client it went to.
LEMMA FreshVerifies ==
    ASSUME TokenInv, NEW c \in Client, cached[c] # NoToken, time - cached[c].at <= MaxFlight
    PROVE  Verify(c, cached[c])
<1> DEFINE at == cached[c].at
           off == (time \div Rotation) - (at \div Rotation)
<1>1. at \in Nat /\ time \in Nat /\ at <= time /\ cached[c].ip = c /\ cached[c].epoch = at \div Rotation
  BY TokenAssumption, SMTT(60) DEF TokenInv, TokenTypeOK, Epoch
<1>2. time - at <= Rotation * 1
  BY <1>1, TokenAssumption
<1>3. off \in Nat /\ off <= 1
  BY <1>1, <1>2, EpochSpan, TokenAssumption, Zenon
<1>4. at \div Rotation \in Nat /\ time \div Rotation \in Nat
  BY <1>1, DivBounds, TokenAssumption, Zenon
<1>5. off \in 0..Tolerance /\ cached[c].epoch = Epoch(time) - off
  BY <1>1, <1>3, <1>4, TokenAssumption, SMTT(60) DEF Epoch
<1> QED
  BY <1>1, <1>5, Zenon DEF Verify

\* Issuing, using, refusing and refreshing a token and the passing of time keep
\* the invariant.
LEMMA TokenNextInv == TokenInv /\ [TokenNext]_tokenVars => TokenInv'
<1> SUFFICES ASSUME TokenInv, [TokenNext]_tokenVars PROVE TokenInv'
  BY Zenon
<1> USE TokenAssumption DEF TokenInv, TokenTypeOK, FlightInv, RefreshOnceSuffices
<1>1. ASSUME NEW c \in Client, GetBegin(c) PROVE TokenInv'
  BY <1>1, SMTT(60) DEF GetBegin, Ask
<1>2. ASSUME NEW c \in Client, TokenArrives(c) PROVE TokenInv'
  <2> DEFINE new == Issue(c)
  <2>1. /\ new \in [ip : Client \cup {0}, epoch : Int, at : Int]
        /\ new.ip = c /\ new.at = time /\ new.epoch = Epoch(new.at) /\ new # NoToken
    BY DivBounds DEF Issue, NoToken, Epoch
  <2>2. cached' = [cached EXCEPT ![c] = new]
    BY <1>2, Zenon DEF TokenArrives
  <2> HIDE DEF new
  <2> QED
    BY <1>2, <2>1, <2>2, SMTT(60) DEF TokenArrives, Ask
<1>3. ASSUME NEW c \in Client, QueryLost(c) PROVE TokenInv'
  BY <1>3, SMTT(60) DEF QueryLost, End
<1>4. ASSUME NEW c \in Client, ChunkServed(c) PROVE TokenInv'
  BY <1>4, SMTT(60) DEF ChunkServed, End
<1>5. ASSUME NEW c \in Client, ChunkThrottled(c) PROVE TokenInv'
  BY <1>5, Zenon DEF ChunkThrottled, End
<1>6. ASSUME NEW c \in Client, ChunkRefused(c) PROVE TokenInv'
  <2>1. attempt[c] = 0
    BY <1>6, FreshVerifies, Zenon DEF ChunkRefused
  <2>2. NoToken \in [ip : Client \cup {0}, epoch : Int, at : Int]
    BY SMTT(60)  DEF NoToken
  <2> QED
    BY <1>6, <2>1, <2>2, SMTT(60) DEF ChunkRefused, Ask
<1>7. CASE TokenTick
  BY <1>7, SMTT(60) DEF TokenTick
<1>8. CASE UNCHANGED tokenVars
  BY <1>8, Zenon DEF tokenVars
<1> QED
  BY <1>1, <1>2, <1>3, <1>4, <1>5, <1>6, <1>7, <1>8, Zenon DEF TokenNext

\* One refresh suffices (the retry of a Get on 302): the token of the second
\* attempt verifies when it arrives, wherever the epochs turn meanwhile; for
\* every rotation period and tolerance, and every flight shorter than a
\* rotation.
THEOREM OneRefresh == TokenSpec => []RefreshOnceSuffices
<1>1. TokenInv => RefreshOnceSuffices
  BY Zenon  DEF TokenInv
<1> QED
  BY <1>1, TokenInitInv, TokenNextInv, PTL DEF TokenSpec

\* A token is good for Tolerance whole rotations, dead one rotation later, and
\* only for the address it was issued to (the epoch HMAC of the write tokens);
\* for every rotation period and tolerance.
THEOREM TokensLastTheirWindow == TokenSpec => []TokenWindow
<1>1. TokenInv => TokenWindow
  <2> SUFFICES ASSUME TokenInv, NEW c \in Client, NEW d \in Client, cached[c] # NoToken
               PROVE  /\ (time - cached[c].at <= Rotation * Tolerance) => Verify(c, cached[c])
                      /\ (time - cached[c].at >= Rotation * (Tolerance + 1)) => ~Verify(c, cached[c])
                      /\ (d # c) => ~Verify(d, cached[c])
    BY Zenon  DEF TokenWindow
  <2> DEFINE at == cached[c].at
             off == (time \div Rotation) - (at \div Rotation)
  <2>1. at \in Nat /\ time \in Nat /\ at <= time /\ cached[c].ip = c /\ cached[c].epoch = at \div Rotation
    BY TokenAssumption DEF TokenInv, TokenTypeOK, Epoch
  <2>2. /\ off \in Nat
        /\ (time - at <= Rotation * Tolerance) => off <= Tolerance
        /\ (time - at >= Rotation * (Tolerance + 1)) => off > Tolerance
    BY <2>1, EpochSpan, TokenAssumption, Zenon
  <2>3. at \div Rotation \in Nat /\ time \div Rotation \in Nat
    BY <2>1, DivBounds, TokenAssumption, Zenon
  <2>4. Verify(c, cached[c]) <=> off <= Tolerance
    BY <2>1, <2>2, <2>3, TokenAssumption, SMTT(60) DEF Verify, Epoch
  <2> QED
    BY <2>1, <2>2, <2>4, TokenAssumption, SMTT(60) DEF Verify
<1> QED
  BY <1>1, TokenInitInv, TokenNextInv, PTL DEF TokenSpec

-----------------------------------------------------------------------------
(***************************************************************************)
(* The upgrade.                                                            *)
(***************************************************************************)

\* Once an archive is being put to use it is origin's; without a mirror nothing
\* but origin's bytes, whole or cut short, is ever downloaded.
ArchiveInv ==
    /\ OnlyOriginsBytes
    /\ ~mirror => tarball # "forged"
    /\ step \in {"cache", "verify"} => tarball # "none"
    /\ step \in {"migrate", "migrate2", "install", "backup", "swap", "restart"} => tarball = "origin"

\* What is about to be replaced is the old version, and its backup is made.
BackupInv ==
    /\ step \in {"backup", "swap"} => onDisk[Target] = "old"
    /\ step = "swap" => Target \in noBackup \/ prev[Target] = "old"
    /\ step = "migrate2" => confBak = "old"

\* The inductive invariant: types, where an archive's bytes come from, and
\* where the way back is at each step.
UpgradeInv == UpgradeTypeOK /\ mirror \in BOOLEAN /\ ArchiveInv /\ BackupInv /\ WayBackKept

\* The three programs.
LEMMA BinsTyped == ASSUME NEW i \in 1..3 PROVE Bins[i] \in Bin
BY DEF Bins, Bin

\* The next program, or the restart.
LEMMA AdvanceTyped ==
    ASSUME bin \in 1..3, Advance
    PROVE  bin' \in 1..3 /\ step' \in {"install", "restart"}
<1>1. Len(Bins) = 3
    BY Zenon  DEF Bins
<1> QED BY <1>1 DEF Advance, To

\* At the start the old programs run and there is no archive.
LEMMA UpgradeInitial == UpgradeInit => UpgradeInv
BY DEF UpgradeInit, UpgradeInv, UpgradeTypeOK, ArchiveInv, BackupInv, OnlyOriginsBytes, WayBackKept,
       RollbackKept, ConfigBackupKept

\* However a run ends, the files it leaves behind keep the invariant.
LEMMA EndsKeep ==
    ASSUME UpgradeInv, NEW how, Ends(how), UNCHANGED <<mirror, onDisk, prev, noBackup, confFile, confBak, cache>>,
           services' \in [Service -> {"old", "new", "forged", "stopped"}]
    PROVE  UpgradeInv'
<1>1. step' = "idle" /\ tarball' = "none" /\ bin' = 1 /\ wasUp' = {}
    BY Zenon  DEF Ends
<1>2. bin' \in 1..3
    BY <1>1
<1> QED BY <1>1, <1>2, Zenon DEF UpgradeInv, UpgradeTypeOK, ArchiveInv, BackupInv, OnlyOriginsBytes,
            WayBackKept, RollbackKept, ConfigBackupKept

\* Downloading, verifying, installing, restarting, failing at any step, rolling
\* back and dying keep the invariant.
LEMMA UpgradeStep == UpgradeInv /\ [UpgradeNext]_upgradeVars => UpgradeInv'
<1> SUFFICES ASSUME UpgradeInv, [UpgradeNext]_upgradeVars PROVE UpgradeInv'
    BY Zenon
<1> USE DEF UpgradeInv, To, fixed, upDisk
<1>s. services \in [Service -> {"old", "new", "forged", "stopped"}]
    BY Zenon  DEF UpgradeTypeOK
<1>0. Target \in Bin
    BY BinsTyped, Zenon DEF Target, UpgradeTypeOK
<1>1. ASSUME NEW force \in BOOLEAN, BeginUpgrade(force) PROVE UpgradeInv'
  <2>1. CASE Ends("up to date")
    <3>1. UNCHANGED <<mirror, onDisk, prev, noBackup, confFile, confBak, cache>> /\ services' = services
      BY <1>1, <2>1, Zenon DEF BeginUpgrade, Ends
    <3> QED BY <1>s, <2>1, <3>1, EndsKeep, Zenon
  <2>2. CASE ~Ends("up to date")
    BY <1>1, <2>2, Zenon DEF BeginUpgrade, UpgradeTypeOK, ArchiveInv, BackupInv, OnlyOriginsBytes, WayBackKept,
                RollbackKept, ConfigBackupKept
  <2> QED BY <2>1, <2>2, Zenon
<1>2. CASE FromPeers
    BY <1>2, Zenon DEF FromPeers, UpgradeTypeOK, ArchiveInv, BackupInv, OnlyOriginsBytes, WayBackKept,
                RollbackKept, ConfigBackupKept
<1>3. CASE Download
  <2>1. CASE Ends("download failed")
    <3>1. UNCHANGED <<mirror, onDisk, prev, noBackup, confFile, confBak, cache>> /\ services' = services
      BY <1>3, <2>1, Zenon DEF Download, Ends
    <3> QED BY <1>s, <2>1, <3>1, EndsKeep, Zenon
  <2>2. CASE ~Ends("download failed")
    BY <1>3, <2>2, Zenon DEF Download, UpgradeTypeOK, ArchiveInv, BackupInv, OnlyOriginsBytes, WayBackKept,
                RollbackKept, ConfigBackupKept
  <2> QED BY <2>1, <2>2, Zenon
<1>4. CASE CacheArchive
    BY <1>4, Zenon DEF CacheArchive, Cached, UpgradeTypeOK, ArchiveInv, BackupInv, OnlyOriginsBytes, WayBackKept,
                RollbackKept, ConfigBackupKept
<1>5. CASE VerifyArchive
  <2>1. CASE Ends("refused")
    <3>1. UNCHANGED <<mirror, onDisk, prev, noBackup, confFile, confBak, cache>> /\ services' = services
      BY <1>5, <2>1, Zenon DEF VerifyArchive, Ends
    <3> QED BY <1>s, <2>1, <3>1, EndsKeep, Zenon
  <2>2. CASE ~Ends("refused")
    BY <1>5, <2>2, Zenon DEF VerifyArchive, ChecksumOK, Up, UpgradeTypeOK, ArchiveInv, BackupInv, OnlyOriginsBytes, WayBackKept,
                RollbackKept, ConfigBackupKept
  <2> QED BY <2>1, <2>2, Zenon
<1>6. CASE MigrateBackup
    BY <1>6, Zenon DEF MigrateBackup, NeedsBackup, UpgradeTypeOK, ArchiveInv, BackupInv, OnlyOriginsBytes,
                WayBackKept, RollbackKept, ConfigBackupKept
<1>7. CASE MigrateWrite
  <2>1. CASE Ends("migration failed")
    <3>1. UNCHANGED <<mirror, onDisk, prev, noBackup, confFile, confBak, cache>> /\ services' = services
      BY <1>7, <2>1, Zenon DEF MigrateWrite, Ends
    <3> QED BY <1>s, <2>1, <3>1, EndsKeep, Zenon
  <2>2. CASE ~Ends("migration failed")
    BY <1>7, <2>2, Zenon DEF MigrateWrite, UpgradeTypeOK, ArchiveInv, BackupInv, OnlyOriginsBytes, WayBackKept,
                RollbackKept, ConfigBackupKept
  <2> QED BY <2>1, <2>2, Zenon
<1>8. CASE InstallBegin
  <2>1. Incoming = "new" /\ onDisk[Target] \in {"old", "new"}
    BY <1>8, <1>0, Zenon DEF InstallBegin, ArchiveInv, OnlyOriginsBytes, Incoming
  <2>2. CASE Identical
    <3>1. Advance /\ prev' = prev
      BY <1>8, <2>2, Zenon DEF InstallBegin
    <3> QED BY <1>8, <2>2, <3>1, AdvanceTyped, Zenon DEF InstallBegin, UpgradeTypeOK, ArchiveInv, BackupInv,
              OnlyOriginsBytes, WayBackKept, RollbackKept, ConfigBackupKept
  <2>3. CASE ~Identical
    <3>1. onDisk[Target] = "old" /\ step' = "backup" /\ bin' = bin /\ prev' = [prev EXCEPT ![Target] = "torn"]
      BY <1>8, <2>1, <2>3, Zenon DEF InstallBegin, Identical
    <3>2. Target' = Target
      BY <3>1, Zenon DEF Target
    <3> QED BY <1>8, <1>0, <3>1, <3>2, Zenon DEF InstallBegin, UpgradeTypeOK, ArchiveInv, BackupInv,
              OnlyOriginsBytes, WayBackKept, RollbackKept, ConfigBackupKept
  <2> QED BY <2>2, <2>3, Zenon
<1>9. CASE InstallBackup
  <2>1. onDisk[Target] = "old" /\ Target' = Target
    BY <1>9, Zenon DEF InstallBackup, BackupInv, Target
  <2> QED BY <1>9, <1>0, <2>1 DEF InstallBackup, UpgradeTypeOK, ArchiveInv, BackupInv,
              OnlyOriginsBytes, WayBackKept, RollbackKept, ConfigBackupKept
<1>10. CASE InstallSwap
  <2>1. Incoming = "new" /\ (Target \in noBackup \/ prev[Target] = "old")
    BY <1>10, Zenon DEF InstallSwap, BackupInv, ArchiveInv, Incoming
  <2>2. bin' \in 1..3 /\ step' \in {"install", "restart"}
    BY <1>10, AdvanceTyped, Zenon DEF InstallSwap, UpgradeTypeOK
  <2> QED BY <1>10, <1>0, <2>1, <2>2, Zenon DEF InstallSwap, UpgradeTypeOK, ArchiveInv, BackupInv,
              OnlyOriginsBytes, WayBackKept, RollbackKept, ConfigBackupKept
<1>11. CASE InstallFails
  <2>1. services' \in [Service -> {"old", "new", "forged", "stopped"}]
    <3>1. \A s \in Service : Started(s) \in {"old", "new", "forged", "stopped"}
      BY DEF Started, UpgradeTypeOK, Service, Bin
    <3> QED BY <1>11, <1>s, <3>1, Zenon DEF InstallFails
  <2>2. CASE Ends("install failed")
    BY <1>11, <2>1, <2>2, EndsKeep, Zenon DEF InstallFails
  <2>3. CASE ~Ends("install failed")
    <3>1. /\ UNCHANGED <<onDisk, prev, noBackup, confFile, confBak, cache, mirror, tarball, wasUp>>
          /\ step' = "install" /\ bin' = 1 /\ step \in {"install", "backup", "swap"}
      BY <1>11, <2>3, Zenon DEF InstallFails
    <3>2. bin' \in 1..3
      BY <3>1
    <3> QED BY <2>1, <3>1, <3>2, Zenon DEF UpgradeTypeOK, ArchiveInv, BackupInv, OnlyOriginsBytes, WayBackKept,
              RollbackKept, ConfigBackupKept
  <2> QED BY <2>2, <2>3, Zenon
<1>12. CASE RestartServices
  <2>1. services' \in [Service -> {"old", "new", "forged", "stopped"}]
    <3>1. \A s \in Service : Started(s) \in {"old", "new", "forged", "stopped"}
      BY Zenon  DEF Started, UpgradeTypeOK, Service, Bin
    <3>2. \A s \in Service : Restarted(s) \in {"old", "new", "forged", "stopped"}
      BY Zenon  DEF Restarted, UpgradeTypeOK, Service, Bin
    <3> QED BY <1>12, <3>1, <3>2, Zenon DEF RestartServices
  <2>2. Ends("complete") \/ Ends("restart warned")
    BY <1>12, Zenon DEF RestartServices
  <2> QED BY <1>12, <2>1, <2>2, EndsKeep, Zenon DEF RestartServices
<1>13. CASE Killed
    BY <1>s, <1>13, EndsKeep, Zenon DEF Killed
<1>14. CASE Reboot
  <2>1. services' \in [Service -> {"old", "new", "forged", "stopped"}]
    BY <1>14, Zenon DEF Reboot, UpgradeTypeOK, Service, Bin
  <2> QED BY <1>14, <2>1, Zenon DEF Reboot, UpgradeTypeOK, ArchiveInv, BackupInv, OnlyOriginsBytes, WayBackKept,
              RollbackKept, ConfigBackupKept
<1>15. CASE UNCHANGED upgradeVars
    BY <1>15 DEF upgradeVars, UpgradeTypeOK, ArchiveInv, BackupInv, OnlyOriginsBytes, WayBackKept,
                RollbackKept, ConfigBackupKept, Target
<1> QED BY <1>1, <1>2, <1>3, <1>4, <1>5, <1>6, <1>7, <1>8, <1>9, <1>10, <1>11, <1>12, <1>13, <1>14, <1>15, Zenon
        DEF UpgradeNext

\* The way back is kept: beside every binary the upgrade replaced is the
\* version before the upgrade, and beside a migrated configuration its
\* original, however often the verb fails, is killed, forced or run again.
THEOREM WayBack == UpgradeSpec => []WayBackKept
<1>1. UpgradeInv => WayBackKept
    BY Zenon  DEF UpgradeInv
<1> QED BY <1>1, UpgradeInitial, UpgradeStep, PTL DEF UpgradeSpec

\* Bytes that the origin did not publish are never installed and never cached
\* for other machines (the digest checked before the unpacking), whichever way
\* the archive came and wherever the verb was killed.
THEOREM OriginsBytes == UpgradeSpec => []OnlyOriginsBytes
<1>1. UpgradeInv => OnlyOriginsBytes
    BY Zenon  DEF UpgradeInv, ArchiveInv
<1> QED BY <1>1, UpgradeInitial, UpgradeStep, PTL DEF UpgradeSpec

\* The services that ran when the install began still run unless the fallback
\* stopped them, which only happens on windows and inside the install loop.
ServiceInv ==
    /\ stopped1st \in BOOLEAN
    /\ stopped1st => platform = "windows" /\ step \in {"install", "backup", "swap", "restart"}
    /\ step \in {"idle", "tcp", "swarm", "download", "cache", "verify"} => wasUp = {}
    /\ ~stopped1st => wasUp \subseteq Up

\* At the start no service was stopped.
LEMMA ServiceInitial == UpgradeInit => ServiceInv
BY Zenon   DEF UpgradeInit, ServiceInv

\* A run that ends leaves no service of its own to account for.
LEMMA EndsSettle == ASSUME NEW how, Ends(how) PROVE ServiceInv'
BY Zenon   DEF Ends, ServiceInv

\* Every step keeps the bookkeeping of stopped services, and none ends an
\* upgrade with a service it stopped left down.
LEMMA ServiceStep ==
    ASSUME UpgradeInv, ServiceInv, [UpgradeNext]_upgradeVars
    PROVE  ServiceInv' /\ NoneLeftDown
<1> USE DEF To, fixed, upDisk
<1>a. \A s \in Service : onDisk[s] # "stopped"
    BY Zenon  DEF UpgradeInv, ArchiveInv, OnlyOriginsBytes, Service, Bin
<1>b. wasUp \subseteq Service
    BY Zenon  DEF UpgradeInv, UpgradeTypeOK
<1>c. \A s \in wasUp : Started(s) # "stopped"
    BY <1>a, <1>b, Zenon DEF Started
<1>d. \A s \in wasUp : ~stopped1st => services[s] # "stopped" /\ Restarted(s) # "stopped"
    BY <1>a, <1>b, Zenon DEF Restarted, Up, ServiceInv
<1>1. ASSUME NEW force \in BOOLEAN, BeginUpgrade(force) PROVE ServiceInv' /\ NoneLeftDown
    BY <1>1, EndsSettle, Zenon DEF BeginUpgrade, ServiceInv, NoneLeftDown, Up
<1>2. CASE FromPeers
    BY <1>2, Zenon DEF FromPeers, ServiceInv, NoneLeftDown, Up
<1>3. CASE Download
  <2>1. CASE Ends("download failed")
    BY <1>3, <2>1, EndsSettle, Zenon DEF Download, ServiceInv, NoneLeftDown
  <2>2. CASE ~Ends("download failed")
    <3>1. step' = "cache" /\ step = "download" /\ UNCHANGED <<stopped1st, wasUp, platform, services>>
      BY <1>3, <2>2, Zenon DEF Download
    <3> QED BY <3>1, Zenon DEF ServiceInv, NoneLeftDown, Up
  <2> QED BY <2>1, <2>2, Zenon
<1>4. CASE CacheArchive
    BY <1>4, Zenon DEF CacheArchive, ServiceInv, NoneLeftDown, Up
<1>5. CASE VerifyArchive
    BY <1>5, EndsSettle, Zenon DEF VerifyArchive, ServiceInv, NoneLeftDown, Up
<1>6. CASE MigrateBackup
    BY <1>6, Zenon DEF MigrateBackup, ServiceInv, NoneLeftDown, Up
<1>7. CASE MigrateWrite
  <2>1. CASE Ends("migration failed")
    BY <1>7, <1>d, <2>1, EndsSettle, Zenon DEF MigrateWrite, ServiceInv, NoneLeftDown
  <2>2. CASE ~Ends("migration failed")
    <3>1. step' = "install" /\ step = "migrate2" /\ UNCHANGED <<stopped1st, wasUp, platform, services>>
      BY <1>7, <2>2, Zenon DEF MigrateWrite
    <3> QED BY <3>1, Zenon DEF ServiceInv, NoneLeftDown, Up
  <2> QED BY <2>1, <2>2, Zenon
<1>8. CASE InstallBegin
    BY <1>8, AdvanceTyped, Zenon DEF InstallBegin, ServiceInv, NoneLeftDown, Up, UpgradeInv, UpgradeTypeOK
<1>9. CASE InstallBackup
    BY <1>9, Zenon DEF InstallBackup, ServiceInv, NoneLeftDown, Up
<1>10. CASE InstallSwap
    BY <1>10, AdvanceTyped, Zenon DEF InstallSwap, ServiceInv, NoneLeftDown, Up, UpgradeInv, UpgradeTypeOK
<1>11. CASE InstallFails
  <2>1. CASE Ends("install failed")
    <3>1. \/ services' = [s \in Service |-> Started(s)]
          \/ services' = services /\ (platform = "unix" \/ wasUp = {})
      BY <1>11, <2>1, Zenon DEF InstallFails, Ends
    <3>2. platform = "unix" => ~stopped1st
      BY Zenon  DEF ServiceInv
    <3> QED BY <1>b, <1>c, <1>d, <2>1, <3>1, <3>2, EndsSettle, Zenon DEF NoneLeftDown
  <2>2. CASE ~Ends("install failed")
    BY <1>11, <2>2, Zenon DEF InstallFails, ServiceInv, NoneLeftDown, Up
  <2> QED BY <2>1, <2>2, Zenon
<1>12. CASE RestartServices
  <2>1. CASE platform = "unix"
    <3>1. ~stopped1st
      BY <2>1, Zenon DEF ServiceInv
    <3>2. CASE Ends("complete")
      <4>1. services' = [s \in Service |-> Restarted(s)] \/ ending' = "restart warned"
        BY <1>12, <2>1, <3>2, Zenon DEF RestartServices, Ends
      <4> QED BY <1>b, <1>d, <3>1, <3>2, <4>1, EndsSettle, Zenon DEF NoneLeftDown
    <3>3. CASE Ends("restart warned")
      BY <3>3, EndsSettle, Zenon DEF NoneLeftDown, Ends
    <3> QED BY <1>12, <3>2, <3>3, Zenon DEF RestartServices
  <2>2. CASE platform # "unix"
    <3>1. services' = [s \in Service |-> Started(s)] /\ Ends("complete")
      BY <1>12, <2>2, Zenon DEF RestartServices
    <3> QED BY <1>b, <1>c, <3>1, EndsSettle, Zenon DEF NoneLeftDown
  <2> QED BY <2>1, <2>2, Zenon
<1>13. CASE Killed
    BY <1>13, EndsSettle, Zenon DEF Killed, NoneLeftDown, Ends
<1>14. CASE Reboot
    BY <1>14, Zenon DEF Reboot, ServiceInv, NoneLeftDown
<1>15. CASE UNCHANGED upgradeVars
    BY <1>15, Zenon DEF upgradeVars, ServiceInv, NoneLeftDown, Up
<1> QED BY <1>1, <1>2, <1>3, <1>4, <1>5, <1>6, <1>7, <1>8, <1>9, <1>10, <1>11, <1>12, <1>13, <1>14, <1>15, Zenon
        DEF UpgradeNext

\* An upgrade that ends by itself leaves no service down that was up (the
\* windows fallback that stops the services and starts them again on success
\* and on failure), unless systemd refused its restart.
THEOREM ServicesReturn == UpgradeSpec => ServicesComeBack
<1>1. UpgradeInit => UpgradeInv /\ ServiceInv
    BY UpgradeInitial, ServiceInitial, Zenon
<1>2. UpgradeInv /\ ServiceInv /\ [UpgradeNext]_upgradeVars => UpgradeInv' /\ ServiceInv' /\ NoneLeftDown
    BY UpgradeStep, ServiceStep, Zenon
<1> QED BY <1>1, <1>2, PTL DEF UpgradeSpec, ServicesComeBack

-----------------------------------------------------------------------------
(***************************************************************************)
(* The served certificates. ConfInv holds always: it says whose contents   *)
(* each configuration file and each backup has. BrokenInv adds what nginx  *)
(* rejects. Quiet and Slack hold while nothing went amiss: the two         *)
(* processes take turns, every file that uses the leaf is on the           *)
(* deployment list or about to be, and the days left on disk, in the state *)
(* and in the web server's memory agree and exceed the days the timer may  *)
(* still miss.                                                             *)
(***************************************************************************)

\* The renewal state kept for a name.
State == [left : Int, nginx : SUBSET File]
\* The leaf's files.
Leaf == [left : Int, key : {"r", "i"}, cert : {"r", "i", "old"}]
\* What a configuration file may hold.
Contents == {"absent", "theirs", "ours", "bad"}
\* The stages of an installation that has begun to edit.
Writing == {"write", "validate", "reload", "track"}
\* The renewal process.
RenewShape == [at : {"off", "key", "cert", "track", "reload"}, r : {None} \cup State]
\* The installation.
InstShape == [at : {"off", "key", "cert", "plan"} \cup Writing, r : {None} \cup State,
              todo : SUBSET File, done : SUBSET File, q : {None, "ours", "bad"}]

\* Types; the backups are the operator's own files.
CertTypes ==
    /\ tracked \in {None} \cup State /\ certFiles \in {None} \cup Leaf
    /\ vhostConf \in [File -> Contents] /\ backup \in [File -> {None, "theirs"}]
    /\ served \in [File -> {None} \cup Int]
    /\ renew \in RenewShape
    /\ inst \in InstShape
    /\ ran \in BOOLEAN /\ missedRuns \in 0 .. MaxMissed

\* Whose contents a file has: what is still to be edited is the operator's own,
\* what was edited has a backup of it.
FileInv ==
    /\ \A f \in File : vhostConf[f] \in {Original(f), "ours", "bad"}
    /\ \A f \in inst.todo : vhostConf[f] = Original(f)
    /\ \A f \in inst.done : vhostConf[f] = inst.q /\ (f # Twin => backup[f] = "theirs")
    /\ inst.at # "write" => inst.todo = {}
    /\ inst.at \notin Writing => inst.done = {}
    /\ inst.at \in Writing => inst.q \in {"ours", "bad"}
    /\ inst.at \in {"reload", "track"} => \A f \in inst.done : vhostConf[f] = "ours"
    /\ renew.at # "off" => renew.r # None
    /\ inst.at \in {"plan"} \cup Writing => inst.r # None
    /\ renew.at \notin {"off", "key"} => certFiles # None
    /\ inst.at \notin {"off", "key"} => certFiles # None

\* The invariant that holds whatever happens.
ConfInv == CertTypes /\ FileInv

\* At the start the files are the operator's.
LEMMA ConfStart == CertInit => ConfInv
<1> SUFFICES ASSUME CertInit PROVE ConfInv
  BY Zenon
<1>1. Off \in RenewShape
  BY Zenon  DEF Off, RenewShape, InstShape
<1>2. NoInstall \in InstShape
  BY Zenon  DEF NoInstall, RenewShape, InstShape
<1>3. vhostConf \in [File -> Contents]
  BY Zenon  DEF CertInit, Original, Contents
<1>4. ran \in BOOLEAN
  BY Zenon   DEF CertInit
<1>6. missedRuns \in 0 .. MaxMissed
  BY CertAssumption DEF CertInit
<1>7. CertTypes
  BY <1>1, <1>2, <1>3, <1>4, <1>6, Zenon DEF CertInit, CertTypes, RenewShape, InstShape
<1>5. FileInv
  BY Zenon  DEF CertInit, FileInv, Off, NoInstall, Original, Writing, RenewShape, InstShape
<1> QED
  BY <1>5, <1>7, Zenon DEF ConfInv

\* An installation that is over leaves the rest as it is.
LEMMA InstallOver ==
    ASSUME ConfInv, inst' = NoInstall, UNCHANGED <<tracked, certFiles, vhostConf, renew, ran, missedRuns>>,
           backup' \in [File -> {None, "theirs"}], served' \in [File -> {None} \cup Int]
    PROVE  ConfInv'
<1>1. NoInstall \in InstShape
  BY Zenon  DEF NoInstall, RenewShape, InstShape
<1>2. CertTypes'
  BY <1>1 DEF ConfInv, CertTypes, RenewShape, InstShape
<1>3. FileInv'
  BY Zenon  DEF ConfInv, FileInv, NoInstall, Writing, RenewShape, InstShape
<1> QED
  BY <1>2, <1>3, Zenon DEF ConfInv

\* A reload loads the days left of the leaf on disk, for the files that use it.
LEMMA ReloadTyped ==
    ASSUME ConfInv, NEW r \in Reload, certFiles # None
    PROVE  r[2] \in [File -> {None} \cup Int]
<1>1. NginxLoads \in [File -> {None} \cup Int]
  <2>1. certFiles.left \in Int
    BY Zenon  DEF ConfInv, CertTypes, Leaf, RenewShape, InstShape
  <2> QED
    BY <2>1, Zenon DEF NginxLoads
<1>2. served \in [File -> {None} \cup Int]
  BY Zenon  DEF ConfInv, CertTypes, RenewShape, InstShape
<1>3. r[2] \in {NginxLoads, served}
  <2>1. r = <<Loadable, IF Loadable THEN NginxLoads ELSE served>> \/ r = <<FALSE, served>>
    BY Zenon   DEF Reload
  <2>2. \A b, x : <<b, x>>[2] = x
    BY Zenon
  <2> QED
    BY <2>1, <2>2, Zenon
<1> QED
  BY <1>1, <1>2, <1>3, Zenon

\* Replacing the key's file.
LEMMA KeyTyped ==
    ASSUME ConfInv, NEW p \in {"r", "i"}
    PROVE  KeyBy(p) \in Leaf
<1>1. CASE certFiles = None
  BY <1>1 DEF KeyBy, Leaf
<1>2. CASE certFiles \in Leaf /\ certFiles # None
  <2>1. KeyBy(p) = [certFiles EXCEPT !.key = p, !.cert = IF certFiles.cert = p THEN "old" ELSE certFiles.cert]
    BY <1>2, Zenon DEF KeyBy, Leaf
  <2> QED
    BY <1>2, <2>1, Zenon DEF Leaf
<1> QED
  BY <1>1, <1>2, Zenon DEF ConfInv, CertTypes, RenewShape, InstShape

\* Replacing the certificate's file.
LEMMA CertTyped ==
    ASSUME ConfInv, NEW p \in {"r", "i"}, certFiles # None
    PROVE  CertBy(p) \in Leaf /\ CertBy(p).left = LeafLife
<1>1. certFiles \in Leaf
  BY Zenon  DEF ConfInv, CertTypes, RenewShape, InstShape
<1>2. LeafLife \in Int
  BY CertAssumption
<1> QED
  BY <1>1, <1>2, Zenon DEF CertBy, Leaf

\* No state, leaf, number or contents is the absent one.
LEMMA NoneApart ==
    /\ \A s \in State : s # None
    /\ \A l \in Leaf : l # None
    /\ \A n \in Int : n # None
    /\ None # "ours" /\ None # "bad" /\ None # "theirs"
BY CertAssumption, Zenon DEF State, Leaf

\* The renewal's steps keep ConfInv.
LEMMA RenewConf ==
    ASSUME ConfInv,
           \/ \E force \in BOOLEAN : RenewStart(force)
           \/ RenewKey \/ RenewCert \/ RenewTrack \/ RenewReload
    PROVE  ConfInv'
<1> USE NoneApart
<1>1. ASSUME NEW force \in BOOLEAN, RenewStart(force) PROVE ConfInv'
  <2>1. /\ renew' \in RenewShape
        /\ renew'.at \in {"off", "key"} /\ (renew'.at # "off" => renew'.r # None)
    BY <1>1, Zenon DEF RenewStart, Off, ConfInv, CertTypes, RenewShape, InstShape
  <2>2. ran' = TRUE /\ missedRuns' = 0 /\ 0 \in 0 .. MaxMissed
        /\ UNCHANGED <<tracked, certFiles, vhostConf, backup, served, inst>>
    BY <1>1, CertAssumption DEF RenewStart
  <2>3. CertTypes'
    BY <2>1, <2>2, Zenon DEF ConfInv, CertTypes, RenewShape, InstShape
  <2>4. FileInv'
    BY <2>1, <2>2, Zenon DEF ConfInv, FileInv
  <2> QED
    BY <2>3, <2>4, Zenon DEF ConfInv
<1>2. CASE RenewKey
  <2>1. certFiles' \in Leaf
    BY <1>2, KeyTyped, Zenon DEF RenewKey
  <2>2. renew' = [renew EXCEPT !.at = "cert"] /\ renew.at = "key"
        /\ UNCHANGED <<tracked, vhostConf, backup, served, inst, ran, missedRuns>>
    BY <1>2, Zenon DEF RenewKey
  <2>3. CertTypes'
    BY <2>1, <2>2, Zenon DEF ConfInv, CertTypes, RenewShape, InstShape
  <2>4. FileInv'
    BY <2>1, <2>2, Zenon DEF ConfInv, FileInv, CertTypes, RenewShape, InstShape
  <2> QED
    BY <2>3, <2>4, Zenon DEF ConfInv
<1>3. CASE RenewCert
  <2>1. certFiles' \in Leaf
    BY <1>3, CertTyped, Zenon DEF RenewCert, ConfInv, FileInv
  <2>2. renew' = [renew EXCEPT !.at = "track"] /\ renew.at = "cert"
        /\ UNCHANGED <<tracked, vhostConf, backup, served, inst, ran, missedRuns>>
    BY <1>3, Zenon DEF RenewCert
  <2>3. CertTypes'
    BY <2>1, <2>2, Zenon DEF ConfInv, CertTypes, RenewShape, InstShape
  <2>4. FileInv'
    BY <2>1, <2>2, Zenon DEF ConfInv, FileInv, CertTypes, RenewShape, InstShape
  <2> QED
    BY <2>3, <2>4, Zenon DEF ConfInv
<1>4. CASE RenewTrack
  <2>1. tracked' \in State
    BY <1>4, CertAssumption DEF RenewTrack, Renewed, ConfInv, FileInv, CertTypes, State, RenewShape, InstShape
  <2>2. /\ renew' \in RenewShape
        /\ renew'.at \in {"off", "reload"} /\ (renew'.at # "off" => renew'.r # None)
    BY <1>4, Zenon DEF RenewTrack, Off, ConfInv, CertTypes, FileInv, RenewShape, InstShape
  <2>3. renew.at = "track" /\ UNCHANGED <<certFiles, vhostConf, backup, served, inst, ran, missedRuns>>
    BY <1>4, Zenon DEF RenewTrack
  <2>4. CertTypes'
    BY <2>1, <2>2, <2>3, Zenon DEF ConfInv, CertTypes, RenewShape, InstShape
  <2>5. FileInv'
    BY <2>2, <2>3, Zenon DEF ConfInv, FileInv
  <2> QED
    BY <2>4, <2>5, Zenon DEF ConfInv
<1>5. CASE RenewReload
  <2>1. served' \in [File -> {None} \cup Int]
    BY <1>5, ReloadTyped, Zenon DEF RenewReload, ConfInv, FileInv
  <2>2. renew' = Off /\ UNCHANGED <<tracked, certFiles, vhostConf, backup, inst, ran, missedRuns>>
    BY <1>5, Zenon DEF RenewReload
  <2>3. CertTypes'
    BY <2>1, <2>2, Zenon DEF ConfInv, CertTypes, Off, RenewShape, InstShape
  <2>4. FileInv'
    BY <2>2, Zenon DEF ConfInv, FileInv, Off, RenewShape, InstShape
  <2> QED
    BY <2>3, <2>4, Zenon DEF ConfInv
<1> QED
  BY <1>1, <1>2, <1>3, <1>4, <1>5, Zenon

\* So do the steps of an installation that edit no file,
LEMMA InstallConf ==
    ASSUME ConfInv, InstallStart \/ InstallKey \/ InstallCert \/ InstallReload \/ InstallTrack
    PROVE  ConfInv'
<1> USE NoneApart
<1>1. CASE InstallStart
  <2>1. /\ inst' \in InstShape /\ inst'.todo = {} /\ inst'.done = {}
        /\ inst'.at \in {"plan", "key"} /\ (inst'.at = "plan" => inst'.r # None /\ certFiles # None)
    BY <1>1, Zenon DEF InstallStart, NoInstall, InstShape, ConfInv, CertTypes, RenewShape
  <2>2. UNCHANGED <<tracked, certFiles, vhostConf, backup, served, renew, ran, missedRuns>>
    BY <1>1, Zenon DEF InstallStart
  <2>3. CertTypes'
    BY <2>1, <2>2, Zenon DEF ConfInv, CertTypes, InstShape, RenewShape
  <2>4. FileInv'
    BY <2>1, <2>2, Zenon DEF ConfInv, FileInv, Writing
  <2> QED
    BY <2>3, <2>4, Zenon DEF ConfInv
<1>2. CASE InstallKey
  <2>1. certFiles' \in Leaf
    BY <1>2, KeyTyped, Zenon DEF InstallKey
  <2>2. inst' = [inst EXCEPT !.at = "cert"] /\ inst.at = "key"
        /\ UNCHANGED <<tracked, vhostConf, backup, served, renew, ran, missedRuns>>
    BY <1>2, Zenon DEF InstallKey
  <2>3. CertTypes'
    BY <2>1, <2>2, Zenon DEF ConfInv, CertTypes, RenewShape, InstShape
  <2>4. FileInv'
    BY <2>1, <2>2, Zenon DEF ConfInv, FileInv, CertTypes, Writing, RenewShape, InstShape
  <2> QED
    BY <2>3, <2>4, Zenon DEF ConfInv
<1>3. CASE InstallCert
  <2>1. certFiles' \in Leaf
    BY <1>3, CertTyped, Zenon DEF InstallCert, ConfInv, FileInv
  <2> DEFINE s == [left |-> LeafLife, nginx |-> IF tracked = None THEN {} ELSE tracked.nginx]
  <2>2. s \in State
    BY CertAssumption DEF ConfInv, CertTypes, State, RenewShape, InstShape
  <2>3. inst' = [inst EXCEPT !.at = "plan", !.r = s] /\ inst.at = "cert"
        /\ UNCHANGED <<vhostConf, backup, served, renew, ran, missedRuns>>
    BY <1>3, Zenon DEF InstallCert
  <2> HIDE DEF s
  <2>4. tracked' = s
    BY <1>3, <2>3, Zenon DEF InstallCert, ConfInv, CertTypes, RenewShape, InstShape
  <2>5. CertTypes'
    BY <2>1, <2>2, <2>3, <2>4, Zenon DEF ConfInv, CertTypes, RenewShape, InstShape
  <2>6. FileInv'
    BY <2>1, <2>2, <2>3, Zenon DEF ConfInv, FileInv, CertTypes, Writing, RenewShape, InstShape
  <2> QED
    BY <2>5, <2>6, Zenon DEF ConfInv
<1>4. CASE InstallReload
  <2>1. PICK r \in Reload : /\ served' = r[2]
                            /\ inst' = IF r[1] THEN [inst EXCEPT !.at = "track"] ELSE NoInstall
    BY <1>4, Zenon DEF InstallReload
  <2>2. served' \in [File -> {None} \cup Int]
    BY <1>4, <2>1, ReloadTyped, Zenon DEF InstallReload, ConfInv, FileInv
  <2>3. inst.at = "reload" /\ UNCHANGED <<tracked, certFiles, vhostConf, backup, renew, ran, missedRuns>>
    BY <1>4, Zenon DEF InstallReload
  <2>4. CASE inst' = NoInstall
    BY <2>2, <2>3, <2>4, InstallOver, Zenon DEF ConfInv, CertTypes, RenewShape, InstShape
  <2>5. CASE inst' = [inst EXCEPT !.at = "track"]
    <3>1. CertTypes'
      BY <2>2, <2>3, <2>5, Zenon DEF ConfInv, CertTypes, Writing, RenewShape, InstShape
    <3>2. FileInv'
      BY <2>3, <2>5, Zenon DEF ConfInv, FileInv, CertTypes, Writing, RenewShape, InstShape
    <3> QED
      BY <3>1, <3>2, Zenon DEF ConfInv
  <2> QED
    BY <2>1, <2>4, <2>5, Zenon
<1>5. CASE InstallTrack
  <2>1. tracked' \in State
    BY <1>5, Zenon DEF InstallTrack, ConfInv, FileInv, CertTypes, State, Writing, RenewShape, InstShape
  <2>2. inst' = NoInstall /\ UNCHANGED <<certFiles, vhostConf, backup, served, renew, ran, missedRuns>>
    BY <1>5, Zenon DEF InstallTrack
  <2>3. NoInstall \in InstShape
    BY Zenon  DEF NoInstall, InstShape, RenewShape
  <2>4. CertTypes'
    BY <2>1, <2>2, <2>3, SMTT(60) DEF ConfInv, CertTypes, InstShape, RenewShape
  <2>5. FileInv'
    BY <2>2, Zenon DEF ConfInv, FileInv, NoInstall, Writing, RenewShape, InstShape
  <2> QED
    BY <2>4, <2>5, Zenon DEF ConfInv
<1> QED
  BY <1>1, <1>2, <1>3, <1>4, <1>5, Zenon

\* choosing the files to edit,
LEMMA PlanConf ==
    ASSUME ConfInv, NEW clone \in BOOLEAN, NEW q \in {"ours", "bad"}, InstallPlan(clone, q)
    PROVE  ConfInv'
<1> DEFINE todo == {f \in Targets(clone) : Edits(f)}
<1>1. /\ inst.at = "plan"
      /\ inst' = IF todo = {} THEN NoInstall ELSE [inst EXCEPT !.at = "write", !.todo = todo, !.q = q]
      /\ UNCHANGED <<tracked, certFiles, vhostConf, backup, served, renew, ran, missedRuns, mishaps>>
  BY Zenon  DEF InstallPlan
<1>2. todo \subseteq File /\ \A f \in todo : vhostConf[f] = Original(f)
  BY Zenon  DEF Targets, File, Edits, ConfInv, FileInv
<1> HIDE DEF todo
<1>3. CASE inst' = NoInstall
  BY <1>1, <1>3, InstallOver, Zenon DEF ConfInv, CertTypes, RenewShape, InstShape
<1>4. CASE inst' = [inst EXCEPT !.at = "write", !.todo = todo, !.q = q]
  <2>1. CertTypes'
    BY <1>1, <1>2, <1>4, ZenonT(60) DEF ConfInv, CertTypes, Writing, RenewShape, InstShape
  <2>2. /\ inst'.at = "write" /\ inst'.todo = todo /\ inst'.done = {} /\ inst'.q = q
        /\ inst'.r = inst.r
    BY <1>1, <1>4, Zenon DEF ConfInv, CertTypes, FileInv, Writing, RenewShape, InstShape
  <2>3. FileInv'
    BY <1>1, <1>2, <2>2, Zenon DEF ConfInv, FileInv, Writing
  <2> QED
    BY <2>1, <2>3, Zenon DEF ConfInv
<1> QED
  BY <1>1, <1>3, <1>4, Zenon

\* backing one up and editing it,
LEMMA WriteConf ==
    ASSUME ConfInv, NEW f \in File, InstallWrite(f)
    PROVE  ConfInv'
<1>1. inst.at = "write" /\ f \in inst.todo /\ UNCHANGED <<tracked, certFiles, served, renew, ran, missedRuns>>
  BY Zenon  DEF InstallWrite
<1> DEFINE bk == IF f = Twin THEN backup ELSE [backup EXCEPT ![f] = vhostConf[f]]
<1>2. backup' = bk
  BY Zenon  DEF InstallWrite
<1>3. vhostConf[f] = Original(f)
  BY <1>1, Zenon DEF ConfInv, FileInv
<1>4. /\ backup' \in [File -> {None, "theirs"}]
      /\ f # Twin => backup'[f] = "theirs"
      /\ \A g \in File : backup[g] = "theirs" => backup'[g] = "theirs"
  BY <1>2, <1>3, Zenon DEF ConfInv, CertTypes, Original, RenewShape, InstShape
<1>5. CASE inst' = NoInstall /\ vhostConf' = vhostConf
  BY <1>1, <1>4, <1>5, InstallOver, Zenon DEF ConfInv, CertTypes, RenewShape, InstShape
<1>6. CASE /\ vhostConf' = [vhostConf EXCEPT ![f] = inst.q]
           /\ inst' = [inst EXCEPT !.todo = @ \ {f}, !.done = @ \cup {f},
                                   !.at = IF inst.todo = {f} THEN "validate" ELSE "write"]
  <2>1. inst.q \in {"ours", "bad"}
    BY <1>1, Zenon DEF ConfInv, FileInv, Writing
  <2>2. /\ inst'.todo = inst.todo \ {f} /\ inst'.done = inst.done \cup {f}
        /\ inst'.at = IF inst.todo = {f} THEN "validate" ELSE "write"
        /\ inst'.r = inst.r /\ inst'.q = inst.q
    BY <1>6, Zenon DEF ConfInv, CertTypes, RenewShape, InstShape
  <2>3. inst' \in InstShape
    BY <1>6, <1>1, Zenon DEF ConfInv, CertTypes, InstShape, Writing, RenewShape
  <2>4. /\ vhostConf' \in [File -> Contents] /\ vhostConf'[f] = inst.q
        /\ \A g \in File \ {f} : vhostConf'[g] = vhostConf[g]
    BY <1>6, <2>1, Zenon DEF ConfInv, CertTypes, Contents, RenewShape, InstShape
  <2>5. CertTypes'
    BY <1>1, <1>4, <2>3, <2>4, Zenon DEF ConfInv, CertTypes, InstShape, RenewShape
  <2>6. inst.todo \subseteq File /\ inst.done \subseteq File
    BY Zenon  DEF ConfInv, CertTypes, RenewShape, InstShape
  <2>7. \A g \in File : vhostConf'[g] \in {Original(g), "ours", "bad"}
    BY <2>1, <2>4, Zenon DEF ConfInv, FileInv
  <2>8. \A g \in inst'.todo : vhostConf'[g] = Original(g)
    BY <2>2, <2>4, <2>6, SMTT(60) DEF ConfInv, FileInv
  <2>9. \A g \in inst'.done : vhostConf'[g] = inst'.q /\ (g # Twin => backup'[g] = "theirs")
    BY <1>4, <2>2, <2>4, <2>6, Zenon DEF ConfInv, FileInv
  <2>10. inst'.at # "write" => inst'.todo = {}
    BY <2>2, Zenon
  <2>11. inst.r # None /\ certFiles # None
    BY <1>1, Zenon DEF ConfInv, FileInv, Writing
  <2>12. FileInv'
    BY <1>1, <2>1, <2>2, <2>7, <2>8, <2>9, <2>10, <2>11, Zenon DEF ConfInv, FileInv, Writing, Original
  <2> QED
    BY <2>5, <2>12, Zenon DEF ConfInv
<1> QED
  BY <1>5, <1>6, Zenon DEF InstallWrite

\* having nginx check them, and restoring them when it rejects them,
LEMMA ValidateConf ==
    ASSUME ConfInv, InstallValidate
    PROVE  ConfInv'
<1>1. inst.at = "validate" /\ UNCHANGED <<tracked, certFiles, backup, served, renew, ran, missedRuns>>
  BY Zenon  DEF InstallValidate
<1>2. CASE inst' = [inst EXCEPT !.at = "reload"] /\ vhostConf' = vhostConf /\ Validates
  <2>1. CertTypes'
    BY <1>1, <1>2, Zenon DEF ConfInv, CertTypes, Writing, RenewShape, InstShape
  <2>2. \A f \in inst.done : vhostConf[f] = "ours"
    BY <1>1, <1>2, Zenon DEF ConfInv, FileInv, CertTypes, Validates, Writing, RenewShape, InstShape
  <2>3. /\ inst'.at = "reload" /\ inst'.todo = inst.todo /\ inst'.done = inst.done /\ inst'.q = inst.q
        /\ inst'.r = inst.r
    BY <1>2, Zenon DEF ConfInv, CertTypes, RenewShape, InstShape
  <2>4. FileInv'
    BY <1>1, <1>2, <2>2, <2>3, Zenon DEF ConfInv, FileInv, Writing
  <2> QED
    BY <2>1, <2>4, Zenon DEF ConfInv
<1>3. CASE inst' = NoInstall /\ vhostConf' = vhostConf
  BY <1>1, <1>3, InstallOver, Zenon DEF ConfInv, CertTypes, RenewShape, InstShape
<1>4. CASE inst' = NoInstall /\ vhostConf' = Restored
  <2>1. \A f \in inst.done : PutBack(f) = Original(f)
    BY Zenon  DEF PutBack, Original, ConfInv, FileInv
  <2>2. /\ vhostConf' \in [File -> Contents]
        /\ \A f \in File : vhostConf'[f] \in {Original(f), "ours", "bad"}
    BY <1>4, <2>1, Zenon DEF Restored, ConfInv, CertTypes, FileInv, Original, Contents, RenewShape, InstShape
  <2>3. NoInstall \in InstShape
    BY Zenon  DEF NoInstall, InstShape, RenewShape
  <2>4. CertTypes'
    BY <1>1, <1>4, <2>2, <2>3, SMTT(60) DEF ConfInv, CertTypes, InstShape, RenewShape
  <2>5. FileInv'
    BY <1>1, <1>4, <2>2, Zenon DEF ConfInv, FileInv, NoInstall, Writing, Original, RenewShape, InstShape
  <2> QED
    BY <2>4, <2>5, Zenon DEF ConfInv
<1> QED
  BY <1>2, <1>3, <1>4, Zenon DEF InstallValidate

\* a death, and a day passing.
LEMMA RestConf ==
    ASSUME ConfInv, Death \/ Day \/ UNCHANGED certVars
    PROVE  ConfInv'
<1> USE NoneApart
<1>1. CASE Death
  <2>1. UNCHANGED <<tracked, certFiles, vhostConf, backup, served, ran, missedRuns>>
    BY <1>1, Zenon DEF Death
  <2>2. CASE renew' = Off /\ inst' = inst
    <3>1. CertTypes'
      BY <2>1, <2>2, Zenon DEF ConfInv, CertTypes, Off, RenewShape, InstShape
    <3>2. FileInv'
      BY <2>1, <2>2, Zenon DEF ConfInv, FileInv, Off, RenewShape, InstShape
    <3> QED
      BY <3>1, <3>2, Zenon DEF ConfInv
  <2>3. CASE inst' = NoInstall /\ renew' = renew
    BY <2>1, <2>3, InstallOver, Zenon DEF ConfInv, CertTypes, RenewShape, InstShape
  <2> QED
    BY <1>1, <2>2, <2>3, Zenon DEF Death
<1>2. CASE Day
  <2>1. \A n \in Int : Older(n) \in Int
    BY DEF Older
  <2>2. tracked' \in {None} \cup State
    BY <1>2, <2>1, Zenon DEF Day, ConfInv, CertTypes, State, RenewShape, InstShape
  <2>3. certFiles' \in {None} \cup Leaf /\ (certFiles # None => certFiles' # None)
    BY <1>2, <2>1, Zenon DEF Day, ConfInv, CertTypes, Leaf, RenewShape, InstShape
  <2>4. served' \in [File -> {None} \cup Int]
    BY <1>2, <2>1, Zenon DEF Day, ConfInv, CertTypes, RenewShape, InstShape
  <2>5. ran' \in BOOLEAN
    BY <1>2, Zenon DEF Day
  <2>6. missedRuns' \in 0 .. MaxMissed
    BY <1>2, CertAssumption DEF Day, ConfInv, CertTypes, RenewShape, InstShape
  <2>7. UNCHANGED <<vhostConf, backup, renew, inst>>
    BY <1>2, Zenon DEF Day
  <2>8. CertTypes'
    BY <2>2, <2>3, <2>4, <2>5, <2>6, <2>7, Zenon DEF ConfInv, CertTypes, RenewShape, InstShape
  <2>9. FileInv'
    BY <2>3, <2>7, Zenon DEF ConfInv, FileInv
  <2> QED
    BY <2>8, <2>9, Zenon DEF ConfInv
<1>3. CASE UNCHANGED certVars
  BY <1>3 DEF certVars, ConfInv, CertTypes, FileInv, Writing, Original, RenewShape, InstShape
<1> QED
  BY <1>1, <1>2, <1>3, Zenon

\* ConfInv is inductive.
LEMMA ConfStep == ConfInv /\ [CertNext]_certVars => ConfInv'
BY RenewConf, InstallConf, PlanConf, WriteConf, ValidateConf, RestConf, Zenon DEF CertNext

\* What ConfInv says of the backups.
LEMMA BackupsOriginal == ConfInv => BackupIsOriginal
BY Zenon  DEF ConfInv, CertTypes, BackupIsOriginal, RenewShape, InstShape

\* A mishap is remembered.
LEMMA MishapsGrow ==
    ASSUME [CertNext]_certVars
    PROVE  mishaps \subseteq mishaps'
<1>1. ASSUME NEW force \in BOOLEAN, RenewStart(force) PROVE mishaps \subseteq mishaps'
  BY <1>1, Zenon DEF RenewStart, Slipped
<1>2. CASE RenewKey \/ RenewCert \/ RenewTrack \/ InstallKey \/ InstallCert \/ InstallTrack \/ Day
  BY <1>2, Zenon DEF RenewKey, RenewCert, RenewTrack, InstallKey, InstallCert, InstallTrack, Day
<1>3. CASE RenewReload \/ InstallReload
  BY <1>3, Zenon DEF RenewReload, InstallReload, Slipped
<1>4. CASE InstallStart \/ InstallValidate \/ Death
  BY <1>4, Zenon DEF InstallStart, InstallValidate, Death, Slipped
<1>5. ASSUME NEW clone, NEW q, InstallPlan(clone, q) PROVE mishaps \subseteq mishaps'
  BY <1>5, Zenon DEF InstallPlan
<1>6. ASSUME NEW f, InstallWrite(f) PROVE mishaps \subseteq mishaps'
  BY <1>6, Zenon DEF InstallWrite
<1> QED
  BY <1>1, <1>2, <1>3, <1>4, <1>5, <1>6, Zenon DEF CertNext, certVars

\* The files nginx rejects.
Broken == {f \in File : vhostConf[f] = "bad"}
\* While no write was refused and no process died, only the installation at
\* work may have left a file nginx rejects.
BrokenInv == mishaps \cap {"write", "death"} = {} => Broken \subseteq inst.done

\* BrokenInv is inductive together with ConfInv.
LEMMA BrokenStep ==
    ASSUME ConfInv, BrokenInv, [CertNext]_certVars
    PROVE  BrokenInv'
<1> SUFFICES ASSUME mishaps' \cap {"write", "death"} = {} PROVE (Broken \subseteq inst.done)'
  BY Zenon  DEF BrokenInv
<1>0. Broken \subseteq inst.done
  BY MishapsGrow, Zenon DEF BrokenInv
<1>1. CASE vhostConf' = vhostConf /\ inst'.done = inst.done
  BY <1>0, <1>1, Zenon DEF Broken
<1>2. CASE vhostConf' = vhostConf /\ \A f \in inst.done : vhostConf[f] = "ours"
  BY <1>0, <1>2, Zenon DEF Broken
<1>3. ASSUME NEW force \in BOOLEAN, RenewStart(force) PROVE vhostConf' = vhostConf /\ inst' = inst
  BY <1>3, Zenon DEF RenewStart
<1>4. CASE RenewKey \/ RenewCert \/ RenewTrack \/ RenewReload \/ Day
  BY <1>1, <1>4, Zenon DEF RenewKey, RenewCert, RenewTrack, RenewReload, Day
<1>5. CASE InstallStart
  BY <1>2, <1>5, Zenon DEF InstallStart, ConfInv, FileInv, Writing
<1>6. CASE InstallKey \/ InstallCert
  BY <1>2, <1>6, Zenon DEF InstallKey, InstallCert, ConfInv, FileInv, Writing
<1>7. CASE InstallReload \/ InstallTrack
  BY <1>2, <1>7, Zenon DEF InstallReload, InstallTrack, ConfInv, FileInv, Writing
<1>8. ASSUME NEW clone, NEW q, InstallPlan(clone, q) PROVE (Broken \subseteq inst.done)'
  BY <1>2, <1>8, Zenon DEF InstallPlan, ConfInv, FileInv, Writing
<1>9. ASSUME NEW f \in File, InstallWrite(f) PROVE (Broken \subseteq inst.done)'
  <2>1. /\ vhostConf' = [vhostConf EXCEPT ![f] = inst.q]
        /\ inst' = [inst EXCEPT !.todo = @ \ {f}, !.done = @ \cup {f},
                                !.at = IF inst.todo = {f} THEN "validate" ELSE "write"]
    BY <1>9, Zenon DEF InstallWrite
  <2>2. inst'.done = inst.done \cup {f}
    BY <2>1, Zenon DEF ConfInv, CertTypes, RenewShape, InstShape
  <2>3. \A g \in File \ {f} : vhostConf'[g] = vhostConf[g]
    BY <2>1, Zenon DEF ConfInv, CertTypes, RenewShape, InstShape
  <2> QED
    BY <1>0, <2>2, <2>3, Zenon DEF Broken
<1>10. CASE InstallValidate
  <2>1. CASE inst' = [inst EXCEPT !.at = "reload"] /\ vhostConf' = vhostConf
    BY <1>1, <2>1, Zenon DEF ConfInv, CertTypes, RenewShape, InstShape
  <2>2. CASE vhostConf' = Restored
    <3>1. \A g \in inst.done : PutBack(g) # "bad"
      BY Zenon  DEF PutBack, ConfInv, FileInv
    <3>2. \A g \in File : vhostConf'[g] # "bad"
      BY <1>0, <2>2, <3>1, Zenon DEF Restored, Broken
    <3> QED
      BY <3>2, Zenon DEF Broken
  <2> QED
    BY <1>10, <2>1, <2>2, Zenon DEF InstallValidate
<1>11. CASE Death
  BY <1>11, Zenon DEF Death
<1>12. CASE UNCHANGED certVars
  BY <1>1, <1>12, Zenon DEF certVars
<1> QED
  BY <1>1, <1>3, <1>4, <1>5, <1>6, <1>7, <1>8, <1>9, <1>10, <1>11, <1>12, Zenon DEF CertNext

\* While nothing went amiss: the two processes take turns, what they work from is
\* the state on disk, every file that uses the leaf is on the deployment list or
\* being put there, and the days left agree and leave the timer its slack.
Quiet ==
    /\ renew.at = "off" \/ inst.at = "off"
    /\ renew.at # "off" => tracked # None /\ renew.r.nginx = tracked.nginx
    /\ tracked # None => certFiles # None
    /\ inst.at \in {"key", "cert"} => tracked = None
    /\ inst.at \in {"plan"} \cup Writing => inst.r = tracked
    /\ \A f \in File : vhostConf[f] = "ours" => f \in inst.done \/ (tracked # None /\ f \in tracked.nginx)
    /\ \A f \in File : served[f] # None =>
          /\ tracked # None
          /\ f \in tracked.nginx \/ (inst.at = "track" /\ f \in inst.done)

\* While nothing went amiss: the days left agree wherever they are kept, and
\* what is left exceeds the days the timer may still miss.
Slack ==
    /\ ran => missedRuns = 0
    /\ tracked # None /\ renew.at \in {"off", "key", "cert"} => tracked.left = certFiles.left
    /\ tracked # None /\ renew.at = "off" =>
          tracked.left >= IF ran THEN RenewBefore ELSE RenewBefore - 1 - missedRuns
    /\ renew.at \in {"track", "reload"} => certFiles.left = LeafLife
    /\ renew.at = "reload" => tracked.left = LeafLife
    /\ \A f \in File : served[f] # None =>
          served[f] >= 0 /\ (renew.at = "off" => served[f] = certFiles.left)

\* A reload that is no mishap loads the leaf on disk.
LEMMA ReloadWorks ==
    ASSUME NEW r \in Reload, Slipped("reload", ~r[1]) = {}
    PROVE  r[1] /\ r[2] = NginxLoads
<1>1. r[1]
  BY Zenon  DEF Slipped
<1>2. r = <<Loadable, IF Loadable THEN NginxLoads ELSE served>> \/ r = <<FALSE, served>>
  BY Zenon   DEF Reload
<1>3. \A b, x : <<b, x>>[1] = b /\ <<b, x>>[2] = x
  BY Zenon
<1>4. CASE r = <<FALSE, served>>
  <2>1. r[1] = FALSE
    BY <1>3, <1>4, Zenon
  <2> QED
    BY <1>1, <2>1, Zenon
<1>5. CASE r = <<Loadable, IF Loadable THEN NginxLoads ELSE served>>
  <2>1. r[1] = Loadable /\ r[2] = IF Loadable THEN NginxLoads ELSE served
    BY <1>3, <1>5, Zenon
  <2> QED
    BY <1>1, <2>1, Zenon
<1> QED
  BY <1>1, <1>2, <1>4, <1>5, Zenon

\* Quiet is preserved by every step that is no mishap.
LEMMA QuietStep ==
    ASSUME ConfInv, BrokenInv, mishaps = {} => Quiet, [CertNext]_certVars, mishaps' = {}
    PROVE  Quiet'
<1> USE NoneApart
<1>0. mishaps = {} /\ Quiet
  BY MishapsGrow, Zenon
<1>a. inst \in InstShape
  BY Zenon  DEF ConfInv, CertTypes, InstShape, RenewShape
<1>1. ASSUME NEW force \in BOOLEAN, RenewStart(force) PROVE Quiet'
  <2>1. /\ renew' = Off \/ (renew' = [at |-> "key", r |-> tracked] /\ tracked # None /\ inst.at = "off")
        /\ UNCHANGED <<tracked, certFiles, vhostConf, served, inst>>
    BY <1>1, Zenon DEF RenewStart, Slipped
  <2> QED
    BY <1>0, <2>1, SMTT(60) DEF Quiet, Off, RenewShape, InstShape
<1>2. CASE RenewKey
  BY <1>0, <1>2, KeyTyped, Zenon DEF RenewKey, Quiet, ConfInv, CertTypes, RenewShape, InstShape
<1>3. CASE RenewCert
  BY <1>0, <1>3, CertTyped, Zenon DEF RenewCert, Quiet, ConfInv, CertTypes, FileInv, RenewShape, InstShape
<1>4. CASE RenewTrack
  <2>1. tracked' \in State /\ tracked'.nginx = tracked.nginx /\ tracked # None
    BY <1>0, <1>4, CertAssumption DEF RenewTrack, Renewed, Quiet, ConfInv, CertTypes, FileInv, State, RenewShape, InstShape
  <2>2. /\ renew' = Off \/ (renew'.at = "reload" /\ renew'.r = renew.r)
        /\ UNCHANGED <<certFiles, vhostConf, served, inst>> /\ renew.at = "track"
    BY <1>4, Zenon DEF RenewTrack, ConfInv, CertTypes, RenewShape, InstShape
  <2> QED
    BY <1>0, <2>1, <2>2 DEF Quiet, Off, Writing, RenewShape, InstShape
<1>5. CASE RenewReload
  <2>1. PICK r \in Reload : served' = r[2] /\ mishaps' = Slipped("reload", ~r[1])
    BY <1>5, Zenon DEF RenewReload
  <2>2. served' = NginxLoads
    BY <2>1, ReloadWorks, Zenon
  <2>3. renew' = Off /\ renew.at = "reload" /\ UNCHANGED <<tracked, certFiles, vhostConf, inst>>
    BY <1>5, Zenon DEF RenewReload
  <2>4. \A f \in File : served'[f] # None => vhostConf[f] = "ours"
    BY <2>2, Zenon DEF NginxLoads
  <2>5. inst.done = {}
    BY <1>0, <2>3, Zenon DEF Quiet, ConfInv, FileInv, Writing
  <2> QED
    BY <1>0, <2>3, <2>4, <2>5, Zenon DEF Quiet, Off, RenewShape, InstShape
<1>6. CASE InstallStart
  <2>1. /\ renew.at = "off" /\ inst.at = "off" /\ UNCHANGED <<tracked, certFiles, vhostConf, served, renew>>
        /\ inst'.at = (IF tracked # None /\ certFiles # None THEN "plan" ELSE "key")
        /\ inst'.r = tracked /\ inst'.done = {}
    BY <1>6, Zenon DEF InstallStart, Slipped, NoInstall, RenewShape, InstShape
  <2>2. inst.done = {}
    BY <2>1, Zenon DEF ConfInv, FileInv, Writing
  <2> QED
    BY <1>0, <2>1, <2>2, Zenon DEF Quiet, Writing
<1>7. CASE InstallKey
  <2>1. certFiles' # None
    BY <1>7, KeyTyped, Zenon DEF InstallKey
  <2>2. inst.at = "key" /\ inst'.at = "cert" /\ inst'.done = inst.done
        /\ UNCHANGED <<tracked, vhostConf, served, renew>>
    BY <1>7, <1>a, Zenon DEF InstallKey, InstShape
  <2> QED
    BY <1>0, <2>1, <2>2, Zenon DEF Quiet, Writing
<1>8. CASE InstallCert
  <2>1. certFiles' # None
    BY <1>8, CertTyped, Zenon DEF InstallCert, ConfInv, FileInv
  <2>2. inst.at = "cert" /\ inst'.at = "plan" /\ inst'.done = inst.done /\ tracked' = inst'.r
        /\ UNCHANGED <<vhostConf, served, renew>>
    BY <1>8, <1>a, Zenon DEF InstallCert, InstShape
  <2>3. tracked = None /\ renew.at = "off" /\ inst.done = {}
    BY <1>0, <2>2, Zenon DEF Quiet, ConfInv, FileInv, Writing
  <2> QED
    BY <1>0, <2>1, <2>2, <2>3, Zenon DEF Quiet, Writing
<1>9. ASSUME NEW clone, NEW q, InstallPlan(clone, q) PROVE Quiet'
  <2>1. /\ inst.at = "plan" /\ UNCHANGED <<tracked, certFiles, vhostConf, served, renew>>
        /\ inst' = NoInstall \/ (inst'.at = "write" /\ inst'.r = inst.r /\ inst'.done = inst.done)
    BY <1>9, <1>a, Zenon DEF InstallPlan, InstShape
  <2>2. inst.done = {}
    BY <2>1, Zenon DEF ConfInv, FileInv, Writing
  <2>3. CASE inst' = NoInstall
    <3>1. inst'.at = "off" /\ inst'.done = {}
      BY <2>3, Zenon DEF NoInstall
    <3> QED
      BY <1>0, <2>1, <2>2, <3>1, Zenon DEF Quiet, Writing
  <2>4. CASE inst'.at = "write" /\ inst'.r = inst.r /\ inst'.done = inst.done
    BY <1>0, <2>1, <2>2, <2>4, Zenon DEF Quiet, Writing
  <2> QED
    BY <2>1, <2>3, <2>4, Zenon
<1>10. ASSUME NEW f \in File, InstallWrite(f) PROVE Quiet'
  <2>1. /\ vhostConf' = [vhostConf EXCEPT ![f] = inst.q]
        /\ inst' = [inst EXCEPT !.todo = @ \ {f}, !.done = @ \cup {f},
                                !.at = IF inst.todo = {f} THEN "validate" ELSE "write"]
        /\ inst.at = "write" /\ UNCHANGED <<tracked, certFiles, served, renew>>
    BY <1>10, <1>0, Zenon DEF InstallWrite
  <2>2. inst'.done = inst.done \cup {f} /\ inst'.at \in {"validate", "write"} /\ inst'.r = inst.r
    BY <2>1, <1>a, Zenon DEF InstShape
  <2>3. \A g \in File \ {f} : vhostConf'[g] = vhostConf[g]
    BY <2>1, Zenon DEF ConfInv, CertTypes, RenewShape, InstShape
  <2> QED
    BY <1>0, <2>1, <2>2, <2>3, Zenon DEF Quiet, Writing
<1>11. CASE InstallValidate
  <2>1. inst.at = "validate" /\ UNCHANGED <<tracked, certFiles, served, renew>>
    BY <1>11, Zenon DEF InstallValidate
  <2>2. CASE inst' = [inst EXCEPT !.at = "reload"] /\ vhostConf' = vhostConf
    <3>1. inst'.at = "reload" /\ inst'.r = inst.r /\ inst'.done = inst.done
      BY <2>2, <1>a, Zenon DEF InstShape
    <3> QED
      BY <1>0, <2>1, <2>2, <3>1, Zenon DEF Quiet, Writing
  <2>3. CASE inst' = NoInstall /\ vhostConf' = Restored
    <3>1. \A g \in inst.done : PutBack(g) # "ours"
      BY Zenon  DEF PutBack, ConfInv, FileInv
    <3>2. \A g \in File : vhostConf'[g] = "ours" => vhostConf[g] = "ours" /\ g \notin inst.done
      BY <2>3, <3>1, Zenon DEF Restored
    <3> QED
      BY <1>0, <2>1, <2>3, <3>2, Zenon DEF Quiet, Writing, NoInstall, RenewShape, InstShape
  <2> QED
    BY <1>0, <1>11, <2>2, <2>3, Zenon DEF InstallValidate
<1>12. CASE InstallReload
  <2>1. PICK r \in Reload : /\ served' = r[2] /\ mishaps' = Slipped("reload", ~r[1])
                            /\ inst' = IF r[1] THEN [inst EXCEPT !.at = "track"] ELSE NoInstall
    BY <1>12, Zenon DEF InstallReload
  <2>2. served' = NginxLoads /\ inst' = [inst EXCEPT !.at = "track"]
    BY <2>1, ReloadWorks, Zenon
  <2>3. inst.at = "reload" /\ UNCHANGED <<tracked, certFiles, vhostConf, renew>>
    BY <1>12, Zenon DEF InstallReload
  <2>4. \A f \in File : served'[f] # None => vhostConf[f] = "ours"
    BY <2>2, Zenon DEF NginxLoads
  <2>5. inst'.at = "track" /\ inst'.r = inst.r /\ inst'.done = inst.done
    BY <2>2, <1>a, Zenon DEF InstShape
  <2>6. tracked # None
    BY <1>0, <2>3, Zenon DEF Quiet, ConfInv, FileInv, Writing
  <2> QED
    BY <1>0, <2>3, <2>4, <2>5, <2>6, Zenon DEF Quiet, Writing
<1>13. CASE InstallTrack
  <2>1. inst.at = "track" /\ inst' = NoInstall /\ UNCHANGED <<certFiles, vhostConf, served, renew>>
    BY <1>13, Zenon DEF InstallTrack
  <2>2. inst.r = tracked /\ tracked \in State /\ renew.at = "off"
    BY <1>0, <2>1, Zenon DEF Quiet, ConfInv, FileInv, CertTypes, Writing, RenewShape, InstShape
  <2>3. tracked' # None /\ tracked'.nginx = tracked.nginx \cup inst.done
    BY <1>13, <2>2, Zenon DEF InstallTrack, State, ConfInv, CertTypes, RenewShape, InstShape
  <2> QED
    BY <1>0, <2>1, <2>2, <2>3, Zenon DEF Quiet, Writing, NoInstall, RenewShape, InstShape
<1>14. CASE Death
  BY <1>14, Zenon DEF Death
<1>15. CASE Day
  <2>1. \A n \in Int : Older(n) \in Int
    BY DEF Older
  <2>2. /\ tracked = None => tracked' = None
        /\ tracked # None => tracked' # None /\ tracked'.nginx = tracked.nginx
    BY <1>15, <2>1, Zenon DEF Day, ConfInv, CertTypes, State, RenewShape, InstShape
  <2>3. certFiles # None => certFiles' # None
    BY <1>15, <2>1, Zenon DEF Day, ConfInv, CertTypes, Leaf, RenewShape, InstShape
  <2>4. \A f \in File : served'[f] # None => served[f] # None
    BY <1>15, Zenon DEF Day
  <2>5. UNCHANGED <<vhostConf, renew, inst>> /\ renew.at = "off" /\ inst.at = "off"
    BY <1>15, Zenon DEF Day
  <2> QED
    BY <1>0, <2>2, <2>3, <2>4, <2>5, Zenon DEF Quiet, Writing
<1>16. CASE UNCHANGED certVars
  BY <1>0, <1>16, Zenon DEF certVars, Quiet, Writing
<1> QED
  BY <1>1, <1>2, <1>3, <1>4, <1>5, <1>6, <1>7, <1>8, <1>9, <1>10, <1>11, <1>12, <1>13, <1>14, <1>15, <1>16, Zenon
     DEF CertNext

\* So is Slack, when the timer may miss fewer days than the renewal margin has.
LEMMA SlackStep ==
    ASSUME ConfInv, MaxMissed < RenewBefore, mishaps = {} => Quiet /\ Slack,
           [CertNext]_certVars, mishaps' = {}
    PROVE  Slack'
<1> USE NoneApart
<1>0. mishaps = {} /\ Quiet /\ Slack
  BY MishapsGrow, Zenon
<1>a. inst \in InstShape
  BY Zenon  DEF ConfInv, CertTypes, InstShape, RenewShape
<1>b. /\ LeafLife \in Nat /\ RenewBefore \in Nat /\ RenewBefore <= LeafLife /\ MaxMissed \in Nat
      /\ missedRuns \in 0 .. MaxMissed
  BY CertAssumption, SMTT(60) DEF ConfInv, CertTypes, RenewShape, InstShape
<1>c. tracked # None => tracked.left \in Int
  BY Zenon  DEF ConfInv, CertTypes, State, RenewShape, InstShape
<1>d. certFiles # None => certFiles.left \in Int
  BY Zenon  DEF ConfInv, CertTypes, Leaf, RenewShape, InstShape
<1>e. ran \in BOOLEAN
  BY Zenon  DEF ConfInv, CertTypes, RenewShape, InstShape
<1>1. ASSUME NEW force \in BOOLEAN, RenewStart(force) PROVE Slack'
  <2>1. /\ ran' = TRUE /\ missedRuns' = 0 /\ renew.at = "off" /\ ~ran
        /\ UNCHANGED <<tracked, certFiles, served>>
    BY <1>1, Zenon DEF RenewStart
  <2>2. \/ renew' = Off /\ (tracked # None => ~IsDue(tracked))
        \/ renew' = [at |-> "key", r |-> tracked]
    BY <1>1, Zenon DEF RenewStart
  <2>3. renew'.at \in {"off", "key"} /\ (renew'.at = "off" /\ tracked # None => tracked.left >= RenewBefore)
    BY <2>2, <1>b, <1>c, SMTT(60) DEF Off, IsDue, RenewShape, InstShape
  <2> QED
    BY <1>0, <1>b, <1>c, <2>1, <2>3, Zenon DEF Slack
<1>2. CASE RenewKey
  <2>1. renew.at = "key" /\ renew'.at = "cert" /\ UNCHANGED <<tracked, served, ran, missedRuns>>
    BY <1>2, Zenon DEF RenewKey, ConfInv, CertTypes, RenewShape, InstShape
  <2>2. tracked # None /\ certFiles # None
    BY <1>0, <2>1, Zenon DEF Quiet
  <2>3. certFiles'.left = certFiles.left
    BY <1>2, <2>2, Zenon DEF RenewKey, KeyBy, ConfInv, CertTypes, Leaf, RenewShape, InstShape
  <2> QED
    BY <1>0, <2>1, <2>3, Zenon DEF Slack
<1>3. CASE RenewCert
  <2>1. renew.at = "cert" /\ renew'.at = "track" /\ UNCHANGED <<tracked, served, ran, missedRuns>>
    BY <1>3, Zenon DEF RenewCert, ConfInv, CertTypes, RenewShape, InstShape
  <2>2. certFiles'.left = LeafLife
    BY <1>3, <2>1, CertTyped, Zenon DEF RenewCert, ConfInv, FileInv
  <2> QED
    BY <1>0, <2>1, <2>2, Zenon DEF Slack
<1>4. CASE RenewTrack
  <2>1. tracked'.left = LeafLife
    BY <1>4, Zenon DEF RenewTrack, Renewed
  <2>2. /\ renew.at = "track" /\ UNCHANGED <<certFiles, served, ran, missedRuns>>
        /\ renew'.at = IF renew.r.nginx = {} THEN "off" ELSE "reload"
    BY <1>4, Zenon DEF RenewTrack, ConfInv, CertTypes, Off, RenewShape, InstShape
  <2>3. renew'.at = "off" => \A f \in File : served[f] = None
    BY <1>0, <2>2, Zenon DEF Quiet
  <2> QED
    BY <1>0, <1>b, <1>e, <2>1, <2>2, <2>3 DEF Slack
<1>5. CASE RenewReload
  <2>1. PICK r \in Reload : served' = r[2] /\ mishaps' = Slipped("reload", ~r[1])
    BY <1>5, Zenon DEF RenewReload
  <2>2. served' = NginxLoads
    BY <2>1, ReloadWorks, Zenon
  <2>3. renew'.at = "off" /\ renew.at = "reload" /\ UNCHANGED <<tracked, certFiles, ran, missedRuns>>
    BY <1>5, Zenon DEF RenewReload, Off, RenewShape, InstShape
  <2>4. \A f \in File : served'[f] # None => served'[f] = certFiles.left
    BY <2>2, Zenon DEF NginxLoads
  <2>5. certFiles.left = LeafLife /\ tracked.left = LeafLife
    BY <1>0, <2>3, Zenon DEF Slack
  <2>6. (ran => missedRuns = 0)'
    BY <1>0, <2>3, Zenon DEF Slack
  <2>7. \A f \in File : served'[f] # None => served'[f] >= 0
    BY <1>b, <2>4, <2>5, SMTT(60)
  <2> QED
    BY <1>b, <1>e, <2>3, <2>4, <2>5, <2>6, <2>7, SMTT(60) DEF Slack
<1>6. CASE UNCHANGED <<tracked, certFiles, served, renew, ran, missedRuns>>
  BY <1>0, <1>6, Zenon DEF Slack
<1>7. CASE InstallKey \/ InstallCert
  <2>1. inst.at \in {"key", "cert"} /\ UNCHANGED <<served, renew, ran, missedRuns>>
    BY <1>7, Zenon DEF InstallKey, InstallCert
  <2>2. tracked = None /\ renew.at = "off" /\ \A f \in File : served[f] = None
    BY <1>0, <2>1, Zenon DEF Quiet
  <2>3. CASE InstallKey
    <3>1. tracked' = None
      BY <2>2, <2>3, Zenon DEF InstallKey
    <3> QED
      BY <1>0, <2>1, <2>2, <3>1, Zenon DEF Slack
  <2>4. CASE InstallCert
    <3>1. tracked'.left = LeafLife
      BY <1>a, <2>4, Zenon DEF InstallCert, InstShape
    <3>2. certFiles'.left = LeafLife
      BY <2>4, CertTyped, Zenon DEF InstallCert, ConfInv, FileInv
    <3> QED
      BY <1>0, <1>b, <1>e, <2>1, <2>2, <3>1, <3>2 DEF Slack
  <2> QED
    BY <1>7, <2>3, <2>4, Zenon
<1>8. CASE InstallReload
  <2>1. PICK r \in Reload : served' = r[2] /\ mishaps' = Slipped("reload", ~r[1])
    BY <1>8, Zenon DEF InstallReload
  <2>2. served' = NginxLoads
    BY <2>1, ReloadWorks, Zenon
  <2>3. inst.at = "reload" /\ UNCHANGED <<tracked, certFiles, renew, ran, missedRuns>>
    BY <1>8, Zenon DEF InstallReload
  <2>4. renew.at = "off" /\ tracked # None /\ certFiles # None
    BY <1>0, <2>3, Zenon DEF Quiet, ConfInv, FileInv, Writing
  <2>5. certFiles.left >= 0
    BY <1>0, <1>b, <1>c, <1>d, <1>e, <2>4, SMTT(60) DEF Slack
  <2>6. \A f \in File : served'[f] # None => served'[f] = certFiles.left
    BY <2>2, Zenon DEF NginxLoads
  <2> QED
    BY <1>0, <2>3, <2>4, <2>5, <2>6, Zenon DEF Slack
<1>9. CASE InstallTrack
  <2>1. inst.at = "track" /\ UNCHANGED <<certFiles, served, renew, ran, missedRuns>>
    BY <1>9, Zenon DEF InstallTrack
  <2>2. inst.r = tracked /\ tracked \in State
    BY <1>0, <2>1, Zenon DEF Quiet, ConfInv, FileInv, CertTypes, Writing, RenewShape, InstShape
  <2>3. tracked'.left = tracked.left
    BY <1>9, <2>2, Zenon DEF InstallTrack, State, ConfInv, CertTypes, RenewShape, InstShape
  <2> QED
    BY <1>0, <2>1, <2>2, <2>3, Zenon DEF Slack
<1>10. CASE Death
  BY <1>10, Zenon DEF Death
<1>11. CASE Day
  <2>1. /\ renew.at = "off" /\ renew' = renew /\ ran' = FALSE
        /\ ran \/ missedRuns < MaxMissed
        /\ missedRuns' = IF ran THEN missedRuns ELSE missedRuns + 1
    BY <1>11, Zenon DEF Day
  <2>2. CASE tracked = None
    <3>1. tracked' = None /\ \A f \in File : served'[f] = None
      BY <1>0, <1>11, <2>2, Zenon DEF Day, Quiet
    <3> QED
      BY <2>1, <3>1, Zenon DEF Slack
  <2>3. CASE tracked # None
    <3>1. certFiles # None /\ tracked.left = certFiles.left
      BY <1>0, <2>1, <2>3, Zenon DEF Quiet, Slack
    <3>2. tracked.left >= IF ran THEN RenewBefore ELSE RenewBefore - 1 - missedRuns
      BY <1>0, <2>1, <2>3, Zenon DEF Slack
    <3>3. tracked.left >= 1 /\ tracked.left - 1 >= RenewBefore - 1 - missedRuns'
      BY <1>0, <1>b, <1>c, <1>e, <2>1, <2>3, <3>2, SMTT(60) DEF Slack
    <3>4. Older(tracked.left) = tracked.left - 1 /\ tracked.left - 1 >= 0
      BY <1>c, <2>3, <3>3 DEF Older
    <3>5. tracked'.left = tracked.left - 1
      BY <1>11, <2>3, <3>4, Zenon DEF Day, ConfInv, CertTypes, State, RenewShape, InstShape
    <3>6. certFiles'.left = tracked.left - 1
      BY <1>11, <3>1, <3>4, Zenon DEF Day, ConfInv, CertTypes, Leaf, RenewShape, InstShape
    <3>7. \A f \in File : served'[f] # None => served'[f] = tracked.left - 1
      BY <1>0, <1>11, <2>1, <3>1, <3>4, Zenon DEF Day, Slack
    <3>8. /\ (ran => missedRuns = 0)' /\ renew'.at = "off" /\ ~ran'
      BY <2>1, Zenon
    <3> QED
      BY <3>3, <3>4, <3>5, <3>6, <3>7, <3>8, Zenon DEF Slack
  <2> QED
    BY <2>2, <2>3, Zenon
<1>12. CASE InstallStart \/ InstallValidate
  BY <1>6, <1>12, Zenon DEF InstallStart, InstallValidate
<1>13. ASSUME NEW clone, NEW q, InstallPlan(clone, q) PROVE Slack'
  BY <1>6, <1>13, Zenon DEF InstallPlan
<1>14. ASSUME NEW f, InstallWrite(f) PROVE Slack'
  BY <1>6, <1>14, Zenon DEF InstallWrite
<1>15. CASE UNCHANGED certVars
  BY <1>6, <1>15, Zenon DEF certVars
<1> QED
  BY <1>1, <1>2, <1>3, <1>4, <1>5, <1>7, <1>8, <1>9, <1>10, <1>11, <1>12, <1>13, <1>14, <1>15, Zenon DEF CertNext

\* Both hold at the start.
LEMMA QuietStart == CertInit => BrokenInv /\ Quiet /\ Slack
<1> SUFFICES ASSUME CertInit PROVE BrokenInv /\ Quiet /\ Slack
  BY Zenon
<1>1. Broken = {}
  BY Zenon  DEF CertInit, Broken, Original
<1>2. Quiet
  BY Zenon  DEF CertInit, Quiet, Off, NoInstall, Writing, Original, RenewShape, InstShape
<1>3. Slack
  BY Zenon  DEF CertInit, Slack, Off, RenewShape, InstShape
<1> QED
  BY <1>1, <1>2, <1>3, Zenon DEF BrokenInv

\* The backup beside a configuration file is the operator's own file (Install's
\* backups): however often installations are repeated, interrupted or overlap
\* with renewals, no backup ever holds an edit of ours.
THEOREM BackupsKept == CertSpec => []BackupIsOriginal
<1>1. CertInit => ConfInv
  BY ConfStart, Zenon
<1>2. ConfInv /\ [CertNext]_certVars => ConfInv'
  BY ConfStep, Zenon
<1>3. ConfInv => BackupIsOriginal
  BY BackupsOriginal, Zenon
<1> QED
  BY <1>1, <1>2, <1>3, PTL DEF CertSpec

\* nginx never inherits a broken configuration from us (restore on failure,
\* Install and installCloned): once an installation is over no file is left
\* that nginx rejects, as long as no write was refused and no process died in
\* the middle.
THEOREM NothingBroken == CertSpec => []NoBrokenConfigLeft
<1> DEFINE Inv == ConfInv /\ BrokenInv
<1>1. CertInit => Inv
  BY ConfStart, QuietStart, Zenon
<1>2. Inv /\ [CertNext]_certVars => Inv'
  BY ConfStep, BrokenStep, Zenon
<1>3. Inv => NoBrokenConfigLeft
  BY Zenon  DEF NoBrokenConfigLeft, Validates, BrokenInv, Broken, ConfInv, FileInv, Writing
<1> QED
  BY <1>1, <1>2, <1>3, PTL DEF CertSpec

\* What the web server has in memory does not expire (IsDue, RenewOne, the
\* deployment list): for every leaf lifetime and every renewal margin, the leaf
\* served stays valid while the timer misses fewer days in a row than the
\* margin has, no reload fails, no write is refused, no process dies and the
\* two processes do not overlap.
THEOREM ServedStaysValid ==
    ASSUME MaxMissed < RenewBefore
    PROVE  CertSpec => []ServedNeverExpires
<1> DEFINE Inv == ConfInv /\ BrokenInv /\ (mishaps = {} => Quiet /\ Slack)
<1>1. CertInit => Inv
  BY ConfStart, QuietStart, Zenon
<1>2. Inv /\ [CertNext]_certVars => Inv'
  BY ConfStep, BrokenStep, QuietStep, SlackStep, Zenon
<1>3. Inv => ServedNeverExpires
  BY Zenon  DEF ServedNeverExpires, Slack
<1> QED
  BY <1>1, <1>2, <1>3, PTL DEF CertSpec

===============================================================================
