------------------------------- MODULE Ledger --------------------------------
(***************************************************************************)
(* The peer-reputation ledger (internal/blacklist): one file shared by     *)
(* the daemon and by one-shot commands, each with its own copy in memory.  *)
(* An entry is the instant its flag expires (0 = no entry); the list of    *)
(* violations behind it is evidence only and is left out.  A save replaces *)
(* the file whole (atomicfile) or fails.                                   *)
(***************************************************************************)
EXTENDS Integers

CONSTANTS
    Proc,           \* processes that open the ledger: the daemon and commands
    Offender,       \* node IDs
    FlagTTL,        \* DefaultTTL
    MaxLedgerClock  \* bound on the clock

ASSUME LedgerAssumption == FlagTTL \in Nat /\ MaxLedgerClock \in Nat \ {0}

VARIABLES
    ledgerClock,
    opened,         \* the processes that have the ledger open
    flags,          \* process -> offender -> expiry
    ledgerFile,     \* offender -> expiry
    convicted,      \* history: process -> offender -> last violation it knows of
    lastViolation,  \* history: offender -> last violation anyone recorded
    pardoned        \* history: offenders removed from the file, not recorded since

ledgerVars == <<ledgerClock, opened, flags, ledgerFile, convicted, lastViolation, pardoned>>

NoFlags == [o \in Offender |-> 0]
Unexpired(f) == [o \in Offender |-> IF ledgerClock > f[o] THEN 0 ELSE f[o]]
Later(x, y) == IF x > y THEN x ELSE y

\* saveLocked: the whole map, or nothing when the write fails.
Save(m) == ledgerFile' = m \/ ledgerFile' = ledgerFile

\* Fault: a flag's day starts over when the ledger is loaded.
LoadedRearmed(p) == [o \in Offender |-> IF ledgerFile[o] = 0 THEN 0 ELSE ledgerClock + FlagTTL]

Loaded(p) == Unexpired(ledgerFile)

\* Open: load the file without its expired entries.
OpenLedger(p) ==
    /\ p \notin opened
    /\ opened' = opened \cup {p}
    /\ flags' = [flags EXCEPT ![p] = Loaded(p)]
    /\ convicted' = [convicted EXCEPT ![p] =
                       [o \in Offender |-> IF Loaded(p)[o] = 0 THEN 0 ELSE ledgerFile[o] - FlagTTL]]
    /\ UNCHANGED <<ledgerClock, ledgerFile, lastViolation, pardoned>>

\* The process ends, or crashes.
Exit(p) ==
    /\ p \in opened
    /\ opened' = opened \ {p}
    /\ flags' = [flags EXCEPT ![p] = NoFlags]
    /\ convicted' = [convicted EXCEPT ![p] = NoFlags]
    /\ UNCHANGED <<ledgerClock, ledgerFile, lastViolation, pardoned>>

\* adoptFileLocked: file entries that are missing here or outlive ours.
Adopted(p) == [o \in Offender |-> Later(flags[p][o], Unexpired(ledgerFile)[o])]

\* Record: merge with the file, flag the offender for a day, save.
Record(p, o) ==
    /\ p \in opened
    /\ flags' = [flags EXCEPT ![p] = [Adopted(p) EXCEPT ![o] = ledgerClock + FlagTTL]]
    /\ Save(flags'[p])
    /\ convicted' = [convicted EXCEPT ![p][o] = ledgerClock]
    /\ lastViolation' = [lastViolation EXCEPT ![o] = ledgerClock]
    /\ pardoned' = pardoned \ {o}
    /\ UNCHANGED <<ledgerClock, opened>>

Flagged(p, o) == p \in opened /\ flags[p][o] # 0 /\ ledgerClock <= flags[p][o]

\* FlaggedID on an expired entry: drop it and save.
Decay(p, o) ==
    /\ p \in opened /\ flags[p][o] # 0 /\ ledgerClock > flags[p][o]
    /\ flags' = [flags EXCEPT ![p][o] = 0]
    /\ Save(flags'[p])
    /\ UNCHANGED <<ledgerClock, opened, convicted, lastViolation, pardoned>>

\* Entries drops the expired ones; its save is never reached, because it
\* compares the list with the map it has already trimmed.
List(p) ==
    /\ p \in opened
    /\ flags' = [flags EXCEPT ![p] = Unexpired(@)]
    /\ UNCHANGED <<ledgerClock, opened, ledgerFile, convicted, lastViolation, pardoned>>

\* Remove, the operator's pardon: `freens blacklist rm` lists, then removes.
Pardon(p, o) ==
    /\ Flagged(p, o)
    /\ flags' = [flags EXCEPT ![p] = [Unexpired(@) EXCEPT ![o] = 0]]
    /\ Save(flags'[p])
    /\ convicted' = [convicted EXCEPT ![p][o] = 0]
    /\ pardoned' = IF ledgerFile' = flags'[p] THEN pardoned \cup {o} ELSE pardoned
    /\ UNCHANGED <<ledgerClock, opened, lastViolation>>

LedgerTick ==
    /\ ledgerClock < MaxLedgerClock
    /\ ledgerClock' = ledgerClock + 1
    /\ UNCHANGED <<opened, flags, ledgerFile, convicted, lastViolation, pardoned>>

LedgerInit ==
    /\ ledgerClock = 1 /\ opened = {} /\ pardoned = {}
    /\ flags = [p \in Proc |-> NoFlags]
    /\ convicted = [p \in Proc |-> NoFlags]
    /\ ledgerFile = NoFlags /\ lastViolation = NoFlags

LedgerNext ==
    \/ \E p \in Proc : OpenLedger(p) \/ Exit(p) \/ List(p)
    \/ \E p \in Proc, o \in Offender : Record(p, o) \/ Decay(p, o) \/ Pardon(p, o)
    \/ LedgerTick

LedgerSpec == LedgerInit /\ [][LedgerNext]_ledgerVars

-----------------------------------------------------------------------------
(* Properties *)

Expiry == 0..(MaxLedgerClock + FlagTTL)

\* The ledger's copies and its file are well typed.
LedgerTypeOK ==
    /\ ledgerClock \in 1..MaxLedgerClock
    /\ opened \subseteq Proc /\ pardoned \subseteq Offender
    /\ flags \in [Proc -> [Offender -> Expiry]]
    /\ convicted \in [Proc -> [Offender -> 0..MaxLedgerClock]]
    /\ ledgerFile \in [Offender -> Expiry]
    /\ lastViolation \in [Offender -> 0..MaxLedgerClock]

\* A process that has recorded a violation, or loaded its flag, keeps the flag
\* for a day, whatever other processes write to the file and whether or not
\* its own saves succeed ("memory is the enforcement source").
FlagStands ==
    \A p \in opened, o \in Offender :
        (convicted[p][o] # 0 /\ ledgerClock <= convicted[p][o] + FlagTTL) => Flagged(p, o)

\* Nobody is flagged for longer than a day after the last violation any
\* process recorded: loading, merging, decaying and restarting never extend a
\* flag, and none appears without a violation.
FlagsDecay ==
    \A o \in Offender : \A e \in {ledgerFile[o]} \cup {flags[p][o] : p \in Proc} :
        e # 0 => lastViolation[o] # 0 /\ e <= lastViolation[o] + FlagTTL

\* A flag lasts a day, no less and no more, in every process.
FlagsLastADay == FlagStands /\ FlagsDecay

=============================================================================
