---------------------------- MODULE ChainSentinel ----------------------------
(***************************************************************************)
(* platform_layer/chain_sentinel.py and the replay of                      *)
(* platform_layer/audit_adapter.py: what the sentinel notices of what      *)
(* happens to the directory of cylinders.                                  *)
(*                                                                         *)
(* The directory is the sequence of its cylinders in file-name order.      *)
(* seal.sh is external: it appends a cylinder linked to the last one.  The *)
(* directory is shared with other writers, so a cylinder may also come     *)
(* from elsewhere, be linked to something else, lack its payload, carry a  *)
(* traceback, or disappear; the sentinel learns of any of it only by       *)
(* replaying the directory.  A new process takes a new baseline.           *)
(***************************************************************************)
EXTENDS Naturals, Sequences, FiniteSets, SequencesExt

CONSTANTS
    EveryN,         \* every_n_seals
    MaxCylinders,   \* the cap the sentinel passes to replay_chain
    Legacy,         \* directories a process may find at its first boot
    MaxIds,         \* bound: cylinders that ever exist
    MaxDamage,      \* bound: writes that are not a clean seal
    MaxBoots,       \* bound: processes started
    MaxVerifies     \* bound: verifications on demand

ASSUME CadenceAssumption == EveryN \in Nat \ {0}
ASSUME BoundsAssumption ==
    {MaxCylinders, MaxIds, MaxDamage, MaxBoots, MaxVerifies} \subseteq Nat

GENESIS == 0    \* "GENESIS", or no chain line at all
NoHash == 0     \* a cylinder without a hash line

Cylinders == [id : 1..MaxIds, hash : 0..MaxIds, prev : 0..MaxIds,
              encoded : BOOLEAN, traceback : BOOLEAN]

\* What a process may find at its first boot: cylinders in the order they were
\* made, each with a hash of its own or without one.
ASSUME LegacyAssumption ==
    \A dir \in Legacy :
        /\ dir \in Seq(Cylinders) /\ Len(dir) <= MaxIds
        /\ \A i \in DOMAIN dir : dir[i].id = i /\ dir[i].hash \in {NoHash, i}

VARIABLES
    chain,         \* the directory
    baseline,      \* ChainBaseline, taken at boot
    state,         \* "down", "up", or "sealed": seal.sh is done, the hook is not
    sealCounter,   \* _seal_counter
    raised,        \* ChainIntegrityViolation was raised since boot
    born,          \* history: how many cylinders ever existed
    booted,        \* history: the directory at boot
    clean,         \* history: only clean seals since boot
    unnoticed,     \* history: hooks in a row that returned over a degraded chain
    passed,        \* history: the directory that last passed boot_check or verify
    damage, boots, verifies   \* history: counters of the bounds

sentinelVars == <<baseline, state, sealCounter, raised>>
historyVars == <<born, booted, clean, unnoticed, passed, damage, boots, verifies>>
vars == <<chain, sentinelVars, historyVars>>

-----------------------------------------------------------------------------
(* replay_chain *)

\* Mutant: the second cylinder is let off as the first one is.
BreaksFromThird(dir) ==
    {i \in DOMAIN dir : i > 2 /\ dir[i].prev # GENESIS
                        /\ (dir[i - 1].hash = NoHash \/ dir[i].prev # dir[i - 1].hash)}

\* Positions whose link does not match their predecessor; a cylinder that names no
\* predecessor, and the first one whatever it names, are let off.
Breaks(dir) ==
    {i \in DOMAIN dir : i > 1 /\ dir[i].prev # GENESIS
                        /\ (dir[i - 1].hash = NoHash \/ dir[i].prev # dir[i - 1].hash)}

Freeform(dir) == Cardinality({i \in DOMAIN dir : ~dir[i].encoded})
Tracebacks(dir) == Cardinality({i \in DOMAIN dir : dir[i].traceback})

Snapshot(dir) == [total |-> Len(dir), freeform |-> Freeform(dir),
                  tracebacks |-> Tracebacks(dir), breaks |-> Breaks(dir)]

\* Mutant: any change of the number of cylinders counts as degradation.
DegradedIfGrown(dir) ==
    \/ Len(dir) > MaxCylinders
    \/ Freeform(dir) > baseline.freeform
    \/ Tracebacks(dir) > baseline.tracebacks
    \/ Len(dir) # baseline.total
    \/ ~(Breaks(dir) \subseteq baseline.breaks)

\* What makes verify() raise: the replay gives up, or one of its four comparisons
\* with the baseline fails.
Degraded(dir) ==
    \/ Len(dir) > MaxCylinders
    \/ Freeform(dir) > baseline.freeform
    \/ Tracebacks(dir) > baseline.tracebacks
    \/ Len(dir) < baseline.total
    \/ ~(Breaks(dir) \subseteq baseline.breaks)

-----------------------------------------------------------------------------
Cylinder(prev) ==
    [id |-> born + 1, hash |-> born + 1, prev |-> prev,
     encoded |-> TRUE, traceback |-> FALSE]

Tip == IF chain = <<>> THEN GENESIS ELSE Last(chain).hash

Init ==
    /\ chain \in Legacy
    /\ born = Len(chain) /\ booted = <<>>
    /\ baseline = Snapshot(<<>>)
    /\ state = "down"
    /\ sealCounter = 0
    /\ raised = FALSE
    /\ clean = TRUE /\ unnoticed = 0 /\ passed = <<>>
    /\ damage = 0 /\ boots = 0 /\ verifies = 0

\* Mutant: boot_check tolerates freeform cylinders as it tolerates breaks.
BootTolerant ==
    /\ state = "down"
    /\ boots < MaxBoots
    /\ boots' = boots + 1
    /\ IF Len(chain) <= MaxCylinders /\ Tracebacks(chain) = 0
       THEN /\ state' = "up"
            /\ baseline' = Snapshot(chain)
            /\ booted' = chain /\ passed' = chain
       ELSE UNCHANGED <<state, baseline, booted, passed>>
    /\ sealCounter' = 0 /\ raised' = FALSE
    /\ clean' = TRUE /\ unnoticed' = 0
    /\ UNCHANGED <<chain, born, damage, verifies>>

\* A runtime is built: boot_check fails closed on a directory it cannot replay or
\* that holds a freeform or traceback cylinder, and takes its breaks as given.
Boot ==
    /\ state = "down"
    /\ boots < MaxBoots
    /\ boots' = boots + 1
    /\ IF Len(chain) <= MaxCylinders /\ Freeform(chain) = 0 /\ Tracebacks(chain) = 0
       THEN /\ state' = "up"
            /\ baseline' = Snapshot(chain)
            /\ booted' = chain /\ passed' = chain
       ELSE UNCHANGED <<state, baseline, booted, passed>>
    /\ sealCounter' = 0 /\ raised' = FALSE
    /\ clean' = TRUE /\ unnoticed' = 0
    /\ UNCHANGED <<chain, born, damage, verifies>>

\* seal.sh, on behalf of this process or of another writer of the chain.
AppendLinked ==
    /\ born < MaxIds
    /\ chain' = Append(chain, Cylinder(Tip))
    /\ born' = born + 1

\* AuditAdapter.seal of this process: the cylinder is written, the hook is next.
Seal ==
    /\ state = "up"
    /\ AppendLinked
    /\ state' = "sealed"
    /\ UNCHANGED <<baseline, sealCounter, raised, booted, clean, unnoticed, passed, damage,
                   boots, verifies>>

SealElsewhere ==
    /\ AppendLinked
    /\ UNCHANGED <<sentinelVars, booted, clean, unnoticed, passed, damage, boots, verifies>>

\* verify(): raise, or remember nothing but that it ran.
Verify ==
    /\ raised' = (raised \/ Degraded(chain))
    /\ passed' = IF Degraded(chain) THEN passed ELSE chain
    /\ unnoticed' = 0

\* Mutant: the cadence is compared with the counter once instead of modulo.
OnSealOnce ==
    /\ state = "sealed"
    /\ state' = "up"
    /\ sealCounter' = sealCounter + 1
    /\ IF sealCounter' = EveryN
       THEN Verify
       ELSE /\ unnoticed' = IF Degraded(chain) THEN unnoticed + 1 ELSE 0
            /\ UNCHANGED <<raised, passed>>
    /\ UNCHANGED <<chain, baseline, born, booted, clean, damage, boots, verifies>>

\* on_seal(): the counter is moved first, so a verification that raises is not
\* repeated before the next EveryN seals.
OnSeal ==
    /\ state = "sealed"
    /\ state' = "up"
    /\ sealCounter' = sealCounter + 1
    /\ IF sealCounter' % EveryN = 0
       THEN Verify
       ELSE /\ unnoticed' = IF Degraded(chain) THEN unnoticed + 1 ELSE 0
            /\ UNCHANGED <<raised, passed>>
    /\ UNCHANGED <<chain, baseline, born, booted, clean, damage, boots, verifies>>

\* verify() on demand.
VerifyOnDemand ==
    /\ state = "up"
    /\ verifies < MaxVerifies
    /\ verifies' = verifies + 1
    /\ Verify
    /\ UNCHANGED <<chain, baseline, state, sealCounter, born, booted, clean, damage, boots>>

\* A cylinder that seal.sh did not make, at the end of the directory: linked to a
\* cylinder that is not the last one or to none, without payload, without a hash
\* line, or with a traceback.
AppendForeign ==
    /\ born < MaxIds
    /\ \E cyl \in {Cylinder(prev) : prev \in {GENESIS} \cup 1..born}
              \cup {[Cylinder(Tip) EXCEPT !.encoded = FALSE],
                    [Cylinder(Tip) EXCEPT !.hash = NoHash],
                    [Cylinder(Tip) EXCEPT !.traceback = TRUE]} :
           chain' = Append(chain, cyl)
    /\ born' = born + 1

\* A cylinder file is deleted.
Disappear ==
    /\ \E i \in DOMAIN chain : chain' = RemoveAt(chain, i)
    /\ UNCHANGED born

Damage ==
    /\ damage < MaxDamage
    /\ damage' = damage + 1
    /\ AppendForeign \/ Disappear
    /\ clean' = FALSE
    /\ UNCHANGED <<sentinelVars, booted, unnoticed, passed, boots, verifies>>

\* The process stops; the next one starts from whatever it finds.
Stop ==
    /\ state # "down"
    /\ state' = "down"
    /\ UNCHANGED <<chain, baseline, sealCounter, raised, historyVars>>

\* The bounds are reached.
Idle ==
    /\ state = "down" /\ boots = MaxBoots /\ born = MaxIds
    /\ UNCHANGED vars

Next ==
    \/ Boot
    \/ Seal
    \/ SealElsewhere
    \/ OnSeal
    \/ VerifyOnDemand
    \/ Damage
    \/ Stop
    \/ Idle

Spec == Init /\ [][Next]_vars

-----------------------------------------------------------------------------
TypeOK ==
    /\ chain \in Seq(Cylinders) /\ booted \in Seq(Cylinders) /\ passed \in Seq(Cylinders)
    /\ baseline \in [total : 0..MaxIds, freeform : {0}, tracebacks : {0},
                     breaks : SUBSET (1..MaxIds)]
    /\ born \in 0..MaxIds
    /\ state \in {"down", "up", "sealed"}
    /\ sealCounter \in 0..MaxIds
    /\ raised \in BOOLEAN /\ clean \in BOOLEAN
    /\ unnoticed \in Nat
    /\ damage \in 0..MaxDamage /\ boots \in 0..MaxBoots /\ verifies \in 0..MaxVerifies

\* No false alarm: whoever seals, a chain that only grew by clean seals since boot
\* is never found degraded, whatever breaks it was booted with.
NoFalseAlarm == clean /\ Len(chain) <= MaxCylinders => ~raised

\* Degradation that lasts is noticed within the cadence: fewer than EveryN seals in
\* a row return without an alarm over a chain that verify() would reject.
NoticedInTime == unnoticed < EveryN

\* A cylinder names its predecessor.
Linked(dir, i) == i > 1 => dir[i].prev # GENESIS /\ dir[i].prev = dir[i - 1].hash

\* Nothing is cut out of what a process booted with: if its directory was strictly
\* linked at boot, then between two of its cylinders that are in a directory that
\* passed, all the others still are, however often the directory grew or shrank.
InteriorSurvives ==
    (\A i \in DOMAIN booted : Linked(booted, i)) =>
        \A i, j \in DOMAIN booted :
            {booted[i], booted[j]} \subseteq ToSet(passed) =>
                \A k \in i..j : booted[k] \in ToSet(passed)

\* The rule of the module's header: cylinders sealed after boot form a strictly
\* linked subchain, or the platform halts.
PostBootStrict ==
    state # "down" => \A i \in DOMAIN passed : i > baseline.total => Linked(passed, i)
=============================================================================
