-------------------------------- MODULE Certs --------------------------------
(***************************************************************************)
(* Certificates for one name (src/internal/certmgr): the leaf on disk, the *)
(* renewal state kept for it, the web server's configuration and what the  *)
(* running web server has in memory.  Two processes work on them: the      *)
(* daily renewal (freens cert renew) and an installation (freens cert      *)
(* nginx, or the console's button).  Either may die between two of its     *)
(* writes.                                                                 *)
(*                                                                         *)
(* The unit of time is a day and lifetimes are kept as days left.  A       *)
(* configuration file is absent, the operator's own ("theirs"), or edited  *)
(* by us, in which case the web server accepts it ("ours") or not ("bad"). *)
(***************************************************************************)
EXTENDS Integers, Absent

CONSTANTS Vhosts,       \* configuration files with a matching server block
          Twin,         \* the file a cloned vhost gets
          LeafLife,     \* days a leaf lives (7)
          RenewBefore,  \* renewBeforeSecs in days (2)
          MaxMissed,    \* days in a row the timer may miss
          Slips         \* kinds of mishap that may happen: "reload", "write", "death",
                        \* "overlap" (the two processes at work at once)

File == Vhosts \cup {Twin}

ASSUME CertAssumption ==
    /\ LeafLife \in Nat \ {0} /\ RenewBefore \in 0 .. LeafLife /\ MaxMissed \in Nat
    /\ Slips \subseteq {"reload", "write", "death", "overlap"} /\ Twin \notin Vhosts
    /\ None \notin Int \cup {"theirs", "ours", "bad"}
    /\ None \notin [left : Int, nginx : SUBSET File]
    /\ None \notin [left : Int, key : {"r", "i"}, cert : {"r", "i", "old"}]

VARIABLES tracked,    \* the renewal state file: None or [left, nginx]
          certFiles,  \* the leaf's files: None or [left, key, cert], each file
                      \* tagged with the process that wrote it, "old" once it is
                      \* that process's work of an earlier time
          vhostConf,  \* configuration files
          backup,     \* <file>.freens-pre
          served,     \* days left of our leaf in the web server's memory, or None
          renew,      \* the renewal process
          inst,       \* the installation
          ran, missedRuns,
          mishaps     \* kinds of mishap that have happened

certVars == <<tracked, certFiles, vhostConf, backup, served, renew, inst, ran, missedRuns, mishaps>>

Off == [at |-> "off", r |-> None]
NoInstall == [at |-> "off", r |-> None, todo |-> {}, done |-> {}, q |-> None]
Original(f) == IF f = Twin THEN "absent" ELSE "theirs"

CertInit ==
    /\ tracked = None /\ certFiles = None
    /\ vhostConf = [f \in File |-> Original(f)]
    /\ backup = [f \in File |-> None]
    /\ served = [f \in File |-> None]
    /\ renew = Off /\ inst = NoInstall
    /\ ran = FALSE /\ missedRuns = 0
    /\ mishaps = {}

(***************************************************************************)
(* The web server.                                                         *)
(***************************************************************************)

\* nginx -t.
Validates == \A f \in File : vhostConf[f] # "bad"

\* Do the key and the certificate on disk belong together?
Paired == certFiles.key = certFiles.cert

\* A reload takes effect only with a configuration and a pair that are valid.
Loadable == Validates /\ (certFiles # None => Paired)
NginxLoads == [f \in File |-> IF vhostConf[f] = "ours" THEN certFiles.left ELSE None]

\* Reload: <<did it work, the memory afterwards>>.
Reload == {<<Loadable, IF Loadable THEN NginxLoads ELSE served>>}
          \cup (IF "reload" \in Slips THEN {<<FALSE, served>>} ELSE {})

Slipped(kind, b) == IF b THEN mishaps \cup {kind} ELSE mishaps

(***************************************************************************)
(* The daily renewal: RenewOne.                                            *)
(***************************************************************************)

\* IsDue.
IsDue(r) == r.left < RenewBefore

\* The state is read; the boring outcomes end here.  A forced renewal does not ask
\* whether the leaf is due.
RenewStart(force) ==
    /\ renew.at = "off" /\ ~ran
    /\ ran' = TRUE /\ missedRuns' = 0
    /\ renew' = IF tracked # None /\ (force \/ IsDue(tracked))
                THEN [at |-> "key", r |-> tracked] ELSE Off
    /\ inst.at = "off" \/ renew' = Off \/ "overlap" \in Slips
    /\ mishaps' = Slipped("overlap", inst.at # "off" /\ renew' # Off)
    /\ UNCHANGED <<tracked, certFiles, vhostConf, backup, served, inst>>

\* Issue: the key's file is replaced first,
KeyBy(p) == IF certFiles = None THEN [left |-> 0, key |-> p, cert |-> "old"]
            ELSE [certFiles EXCEPT !.key = p, !.cert = IF @ = p THEN "old" ELSE @]

RenewKey ==
    /\ renew.at = "key"
    /\ renew' = [renew EXCEPT !.at = "cert"]
    /\ certFiles' = KeyBy("r")
    /\ UNCHANGED <<tracked, vhostConf, backup, served, inst, ran, missedRuns, mishaps>>

\* then the certificate's.
CertBy(p) == [certFiles EXCEPT !.left = LeafLife, !.cert = p]

RenewCert ==
    /\ renew.at = "cert"
    /\ renew' = [renew EXCEPT !.at = "track"]
    /\ certFiles' = CertBy("r")
    /\ UNCHANGED <<tracked, vhostConf, backup, served, inst, ran, missedRuns, mishaps>>

\* Fault: the list of files that use the certificate is dropped.
RenewedBare(r) == [left |-> LeafLife, nginx |-> {}]

\* The state after a renewal: the deployment list is carried over.
Renewed(r) == [left |-> LeafLife, nginx |-> r.nginx]

RenewTrack ==
    /\ renew.at = "track"
    /\ tracked' = Renewed(renew.r)
    /\ renew' = IF renew.r.nginx = {} THEN Off ELSE [renew EXCEPT !.at = "reload"]
    /\ UNCHANGED <<certFiles, vhostConf, backup, served, inst, ran, missedRuns, mishaps>>

RenewReload ==
    /\ renew.at = "reload"
    /\ renew' = Off
    /\ \E r \in Reload : /\ served' = r[2]
                         /\ mishaps' = Slipped("reload", ~r[1])
    /\ UNCHANGED <<tracked, certFiles, vhostConf, backup, inst, ran, missedRuns>>

(***************************************************************************)
(* The installation: Install and installCloned.                            *)
(***************************************************************************)

\* EnsureTracked: the tracked certificate, if its files are there.
InstallStart ==
    /\ inst.at = "off"
    /\ renew.at = "off" \/ "overlap" \in Slips
    /\ mishaps' = Slipped("overlap", renew.at # "off")
    /\ inst' = [NoInstall EXCEPT !.at = IF tracked # None /\ certFiles # None THEN "plan" ELSE "key",
                                 !.r = tracked]
    /\ UNCHANGED <<tracked, certFiles, vhostConf, backup, served, renew, ran, missedRuns>>

InstallKey ==
    /\ inst.at = "key"
    /\ inst' = [inst EXCEPT !.at = "cert"]
    /\ certFiles' = KeyBy("i")
    /\ UNCHANGED <<tracked, vhostConf, backup, served, renew, ran, missedRuns, mishaps>>

InstallCert ==
    /\ inst.at = "cert"
    /\ inst' = [inst EXCEPT !.at = "plan", !.r = [left |-> LeafLife,
                   nginx |-> IF tracked = None THEN {} ELSE tracked.nginx]]
    /\ certFiles' = CertBy("i")
    /\ tracked' = inst'.r
    /\ UNCHANGED <<vhostConf, backup, served, renew, ran, missedRuns, mishaps>>

\* Does a block need an edit, or does it serve exactly our certificate already?
Edits(f) == vhostConf[f] \notin {"ours", "bad"}

\* The files an installation is about: those with a matching block, or the new one.
Targets(clone) == IF clone THEN {Twin} ELSE Vhosts

\* The blocks to edit, or the file to create when no block matches; the edit may be
\* one that nginx will reject.
InstallPlan(clone, q) ==
    LET todo == {f \in Targets(clone) : Edits(f)}
    IN  /\ inst.at = "plan"
        /\ inst' = IF todo = {} THEN NoInstall
                   ELSE [inst EXCEPT !.at = "write", !.todo = todo, !.q = q]
        /\ UNCHANGED <<tracked, certFiles, vhostConf, backup, served, renew, ran, missedRuns, mishaps>>

\* A file is backed up and written; a write that is refused ends the installation
\* with the files before it edited.
InstallWrite(f) ==
    /\ inst.at = "write" /\ f \in inst.todo
    /\ \A g \in inst.todo : g = f \/ ~(g \in Vhosts) \/ f < g
    /\ \/ /\ vhostConf' = [vhostConf EXCEPT ![f] = inst.q]
          /\ backup' = IF f = Twin THEN backup ELSE [backup EXCEPT ![f] = vhostConf[f]]
          /\ inst' = [inst EXCEPT !.todo = @ \ {f}, !.done = @ \cup {f},
                                  !.at = IF inst.todo = {f} THEN "validate" ELSE "write"]
          /\ mishaps' = mishaps
       \/ /\ "write" \in Slips
          /\ backup' = IF f = Twin THEN backup ELSE [backup EXCEPT ![f] = vhostConf[f]]
          /\ inst' = NoInstall
          /\ mishaps' = mishaps \cup {"write"}
          /\ vhostConf' = vhostConf
    /\ UNCHANGED <<tracked, certFiles, served, renew, ran, missedRuns>>

\* A file as it was: the backup's contents, and no cloned file.
PutBack(f) == IF f = Twin THEN "absent" ELSE backup[f]

\* What a rejected edit leaves.
Restored == [f \in File |-> IF f \in inst.done
                            THEN PutBack(f) ELSE vhostConf[f]]

\* Validate, and restore on a rejection; a restore may be refused.
InstallValidate ==
    /\ inst.at = "validate"
    /\ IF Validates
       THEN /\ inst' = [inst EXCEPT !.at = "reload"]
            /\ UNCHANGED <<vhostConf, mishaps>>
       ELSE /\ inst' = NoInstall
            /\ \/ vhostConf' = Restored /\ mishaps' = mishaps
               \/ "write" \in Slips /\ vhostConf' = vhostConf /\ mishaps' = mishaps \cup {"write"}
    /\ UNCHANGED <<tracked, certFiles, backup, served, renew, ran, missedRuns>>

\* A reload that fails ends the installation before the deployment is recorded.
InstallReload ==
    /\ inst.at = "reload"
    /\ \E r \in Reload : /\ served' = r[2]
                         /\ mishaps' = Slipped("reload", ~r[1])
                         /\ inst' = IF r[1] THEN [inst EXCEPT !.at = "track"] ELSE NoInstall
    /\ UNCHANGED <<tracked, certFiles, vhostConf, backup, renew, ran, missedRuns>>

\* The state as it was read, with the edited files added to it.
InstallTrack ==
    /\ inst.at = "track"
    /\ tracked' = [inst.r EXCEPT !.nginx = @ \cup inst.done]
    /\ inst' = NoInstall
    /\ UNCHANGED <<certFiles, vhostConf, backup, served, renew, ran, missedRuns, mishaps>>

(***************************************************************************)
(* The environment.                                                        *)
(***************************************************************************)

\* A process dies between two of its writes.
Death ==
    /\ "death" \in Slips \ mishaps
    /\ mishaps' = mishaps \cup {"death"}
    /\ \/ renew.at # "off" /\ renew' = Off /\ inst' = inst
       \/ inst.at # "off" /\ inst' = NoInstall /\ renew' = renew
    /\ UNCHANGED <<tracked, certFiles, vhostConf, backup, served, ran, missedRuns>>

\* A day less; -1 stands for expired.
Older(n) == IF n > -1 THEN n - 1 ELSE n

\* A day passes; on no more than MaxMissed days in a row the timer does not run.
Day ==
    /\ renew.at = "off" /\ inst.at = "off"
    /\ ran \/ missedRuns < MaxMissed
    /\ missedRuns' = IF ran THEN missedRuns ELSE missedRuns + 1
    /\ ran' = FALSE
    /\ tracked' = IF tracked = None THEN None ELSE [tracked EXCEPT !.left = Older(@)]
    /\ certFiles' = IF certFiles = None THEN None ELSE [certFiles EXCEPT !.left = Older(@)]
    /\ served' = [f \in File |-> IF served[f] = None THEN None ELSE Older(served[f])]
    /\ UNCHANGED <<vhostConf, backup, renew, inst, mishaps>>

RenewStep == (\E force \in BOOLEAN : RenewStart(force)) \/ RenewKey \/ RenewCert
             \/ RenewTrack \/ RenewReload
VhostStep == \/ InstallKey \/ InstallCert \/ InstallValidate \/ InstallReload \/ InstallTrack
             \/ \E clone \in BOOLEAN, q \in {"ours", "bad"} : InstallPlan(clone, q)
             \/ \E f \in File : InstallWrite(f)

CertNext ==
    \/ \E force \in BOOLEAN : RenewStart(force)
    \/ RenewKey \/ RenewCert \/ RenewTrack \/ RenewReload
    \/ InstallStart \/ InstallKey \/ InstallCert
    \/ \E clone \in BOOLEAN, q \in {"ours", "bad"} : InstallPlan(clone, q)
    \/ \E f \in File : InstallWrite(f)
    \/ InstallValidate \/ InstallReload \/ InstallTrack
    \/ Death \/ Day

\* Processes that were started go on; the timer fires and days pass however often an
\* installation is started.
CertFairness == SF_certVars(RenewStep) /\ WF_certVars(VhostStep) /\ SF_certVars(Day)

CertSpec == CertInit /\ [][CertNext]_certVars /\ CertFairness

(***************************************************************************)
(* Properties.                                                             *)
(***************************************************************************)

\* Shapes, and that the timer's absence is what MaxMissed says.
CertTypeOK ==
    /\ tracked # None => tracked.left \in -1 .. LeafLife /\ tracked.nginx \subseteq File
    /\ certFiles # None => certFiles.left \in -1 .. LeafLife /\ certFiles.key \in {"r", "i"}
    /\ vhostConf \in [File -> {"absent", "theirs", "ours", "bad"}]
    /\ \A f \in File : served[f] # None => certFiles # None
    /\ missedRuns \in 0 .. MaxMissed

\* "restore on failure so nginx never inherits a broken config from us": once an
\* installation is over, no file of its making is left that nginx rejects, unless a
\* write was refused or the process died (Install, installCloned).
NoBrokenConfigLeft ==
    inst.at = "off" /\ mishaps \cap {"write", "death"} = {} => Validates

\* The backup beside a configuration file is the operator's own file, however often
\* installations are repeated: it never holds an edit of ours (Install's backups).
BackupIsOriginal == \A f \in File : backup[f] \in {None, "theirs"}

\* "giving two missed-timer days of slack before anything expires": what the web
\* server has in memory has not run out, as long as no reload failed, no write was
\* refused, no process died and the two did not overlap (IsDue, RenewOne, the deployment list).
ServedNeverExpires == mishaps = {} => \A f \in File : served[f] # None => served[f] >= 0

\* "if we die mid-renewal, leaves the previously trusted cert in place for the next
\* renewal to retry": a key and a certificate that do not belong together do not
\* stay on disk for ever, provided the name is tracked.
PairHeals == (certFiles # None /\ tracked # None) ~> (certFiles # None /\ Paired)
=============================================================================
