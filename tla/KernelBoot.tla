----------------------------- MODULE KernelBoot -----------------------------
(***************************************************************************)
(* scripts/bootstrap.py, kernel/boot.py, kernel/breath_gate.py and the     *)
(* loaders of the runtime: how a seed directory becomes a kernel.          *)
(*                                                                         *)
(* The script reads the seed, runs the constitutional tests, waits for the *)
(* operator's breath and calls boot(), which reads the seed again and runs *)
(* the tests again.  A program may call boot() by itself.  Every file is   *)
(* read in a step of its own; an upgrade or an editor may replace a file   *)
(* between any two of them, and the operator takes minutes to answer.      *)
(***************************************************************************)
EXTENDS Integers, Sequences, FiniteSets

CONSTANTS
    Texts,          \* what CONSTITUTION.md and CHARTER_v1.0.md may hold; SHA-256 is injective on them
    Prompts,        \* the role prompts of a manifest
    Classes,        \* action classes
    Roles,          \* the roles register_demo2_roles loads, in its order
    Missing,        \* a file that is not there, a prompt that is empty
    Releases,       \* checkouts a run may find
    Minimum,        \* MINIMUM_BREATH_DURATION_SECONDS
    Timeout,        \* DEFAULT_TIMEOUT_SECONDS
    MaxElapsed,     \* bound: how long the gate is timed
    MaxEdits        \* bound: files replaced during a run, per caller

RoleSet == {Roles[i] : i \in DOMAIN Roles}
Permissions == [allowed : SUBSET Classes, forbidden : SUBSET Classes]
Fingerprints == [constitution : Texts, charter : Texts]
Manifests == [parents : BOOLEAN, prompts : Prompts \cup {Missing}]

\* What the script and boot() read from the disk.
Disks == [fingerprints : Fingerprints \cup {Missing}, manifest : Manifests \cup {Missing},
          constitution : Texts \cup {Missing}, charter : Texts \cup {Missing},
          classes : Permissions \cup {Missing}, specs : [RoleSet -> Permissions \cup {Missing}],
          seal_sh : BOOLEAN, chain : BOOLEAN, taxonomy : BOOLEAN]

Callers == {"script", "program"}

ASSUME BootAssumption ==
    /\ Roles \in Seq(STRING)
    /\ Releases \subseteq Disks
    /\ Minimum \in Nat /\ Timeout \in Nat /\ MaxElapsed \in Nat
    /\ Timeout <= MaxElapsed /\ Minimum <= MaxElapsed
    /\ MaxEdits \in [Callers -> Nat]
    /\ Missing \notin Texts \cup Fingerprints \cup Manifests \cup Permissions \cup Prompts

VARIABLES
    disk,       \* the files
    edits,      \* history: files replaced since the run began
    args,       \* who boots, and the flags of the script
    at,         \* where the run is
    phase,      \* "main" for the script's own reading, "boot" inside boot()
    held,       \* what the current reading has read
    shown,      \* history: what the tests the operator was shown had read
    elapsed,    \* seconds since the gate opened
    breath,     \* breath_duration_seconds of the confirmation, -1 without one
    kernel,     \* the Layer1Kernel: <<>> or <<kernel>>
    roles,      \* permission specs of the roles registered, in the order of Roles
    outcome     \* how the run ended: "ok", "closed" or "traceback"

bootVars == <<disk, edits, args, at, phase, held, shown, elapsed, breath, kernel, roles, outcome>>

Nothing == [fingerprints |-> Missing, manifest |-> Missing, constitution |-> Missing,
            charter |-> Missing, tested |-> Missing, classes |-> Missing]

Flags == [caller : Callers, verify_only : BOOLEAN, skip : BOOLEAN, full : BOOLEAN]

Init ==
    /\ disk \in Releases /\ edits = 0
    /\ args \in Flags
    /\ args.caller = "program" => ~args.verify_only /\ args.skip /\ ~args.full
    /\ at = "start" /\ phase = "main"
    /\ held = Nothing /\ shown = Nothing
    /\ elapsed = 0 /\ breath = -1
    /\ kernel = <<>> /\ roles = <<>> /\ outcome = "none"

\* A release is unpacked over the checkout file by file, or someone edits a file.
Edit ==
    /\ at \notin {"start", "exited", "serving"}
    /\ edits < MaxEdits[args.caller] /\ edits' = edits + 1
    /\ \E r \in Releases :
         \/ \E f \in DOMAIN disk \ {"specs"} : disk' = [disk EXCEPT ![f] = r[f]]
         \/ \E q \in RoleSet : disk' = [disk EXCEPT !.specs[q] = r.specs[q]]
    /\ UNCHANGED <<args, at, phase, held, shown, elapsed, breath, kernel, roles, outcome>>

-----------------------------------------------------------------------------
(* The readings *)

Exit(how) ==
    /\ at' = "exited" /\ outcome' = how
    /\ UNCHANGED <<disk, edits, args, phase, held, shown, elapsed, breath, kernel, roles>>

GoTo(place) ==
    /\ at' = place
    /\ UNCHANGED <<disk, edits, args, phase, held, shown, elapsed, breath, kernel, roles, outcome>>

Take(slot, content, place) ==
    /\ held' = [held EXCEPT ![slot] = content]
    /\ at' = place
    /\ UNCHANGED <<disk, edits, args, phase, shown, elapsed, breath, kernel, roles, outcome>>

\* main() reads for itself first; a program calls boot().
Start ==
    /\ at = "start"
    /\ at' = "load"
    /\ phase' = IF args.caller = "script" THEN "main" ELSE "boot"
    /\ UNCHANGED <<disk, edits, args, held, shown, elapsed, breath, kernel, roles, outcome>>

LoadPublishedFingerprints ==
    /\ at = "load"
    /\ IF disk.fingerprints = Missing THEN Exit("closed")
       ELSE Take("fingerprints", disk.fingerprints,
                 IF phase = "main" THEN "constitution" ELSE "manifest")

\* boot() reads the manifest for its prompts; the tests will read it again.
LoadSeedManifest ==
    /\ at = "manifest"
    /\ IF disk.manifest = Missing THEN Exit("closed")
       ELSE Take("manifest", disk.manifest, "constitution")

\* run_constitutional_verification_tests opens the files; nobody catches what a missing
\* text raises, and only boot()'s caller in the script catches a missing manifest.
TestConstitution ==
    /\ at = "constitution"
    /\ IF disk.constitution = Missing THEN Exit("traceback")
       ELSE Take("constitution", disk.constitution, "charter")

TestCharter ==
    /\ at = "charter"
    /\ IF disk.charter = Missing THEN Exit("traceback")
       ELSE Take("charter", disk.charter, "parents")

TestParents ==
    /\ at = "parents"
    /\ IF disk.manifest = Missing THEN Exit(IF phase = "main" THEN "traceback" ELSE "closed")
       ELSE Take("tested", disk.manifest, "verdict")

\* Tests 1 to 3; 4 and 5 are constants of this phase of the project.
Verified ==
    /\ held.constitution = held.fingerprints.constitution
    /\ held.charter = held.fingerprints.charter
    /\ held.tested.parents

-----------------------------------------------------------------------------
(* main() and the breath gate *)

\* main() calls boot(), which starts reading from nothing.
EnterBoot ==
    /\ at' = "load" /\ phase' = "boot"
    /\ held' = Nothing
    /\ UNCHANGED <<disk, edits, args, elapsed, kernel, roles, outcome>>

VerdictOfMain ==
    /\ at = "verdict" /\ phase = "main"
    /\ IF ~Verified THEN Exit("closed")
       ELSE IF args.verify_only THEN Exit("ok")
       ELSE IF args.skip THEN EnterBoot /\ UNCHANGED <<shown, breath>>
       ELSE GoTo("sleep")

\* Time passes while the gate is open, asleep or blocked in input().
Tick ==
    /\ at \in {"sleep", "ask", "read"} /\ elapsed < MaxElapsed
    /\ elapsed' = elapsed + 1
    /\ UNCHANGED <<disk, edits, args, at, phase, held, shown, breath, kernel, roles, outcome>>

\* sleep_fn(minimum) does not return early.
Wake ==
    /\ at = "sleep" /\ elapsed >= Minimum
    /\ GoTo("ask")

\* Mutant: the deadline is not looked at.
AskForever == at = "ask" /\ GoTo("read")

\* The deadline is looked at before input() blocks, not after.
Ask ==
    /\ at = "ask"
    /\ IF elapsed < Timeout THEN GoTo("read") ELSE Exit("closed")

Decline == at = "read" /\ Exit("closed")

TypeSomethingElse == at = "read" /\ GoTo("ask")

\* input() ends with EOFError or KeyboardInterrupt, and main() catches neither.
EndOfInput == at = "read" /\ Exit("traceback")

\* The same where the run is not at the prompt: asleep, reading or building.
Interrupt == at \notin {"start", "read", "exited", "serving"} /\ Exit("traceback")

\* The confirmation counts however late it comes; one before the minimum is a ValueError.
Confirm ==
    /\ at = "read"
    /\ IF elapsed < Minimum THEN Exit("traceback")
       ELSE EnterBoot /\ shown' = held /\ breath' = elapsed

-----------------------------------------------------------------------------
(* boot() *)

\* Mutants: the tests main() ran are not run again; a manifest without prompts will do.
VerdictOfBootTrusting ==
    /\ at = "verdict" /\ phase = "boot"
    /\ IF held.manifest.prompts = Missing THEN Exit("closed") ELSE GoTo("instantiate")
VerdictOfBootPromptless ==
    /\ at = "verdict" /\ phase = "boot"
    /\ IF ~Verified THEN Exit("closed") ELSE GoTo("instantiate")

\* The second verdict, and the role prompts.
VerdictOfBoot ==
    /\ at = "verdict" /\ phase = "boot"
    /\ IF ~Verified \/ held.manifest.prompts = Missing THEN Exit("closed")
       ELSE GoTo("instantiate")

Instantiate ==
    /\ at = "instantiate"
    /\ IF ~disk.seal_sh THEN Exit("traceback")
       ELSE /\ kernel' = <<[fingerprints |-> held.fingerprints, constitution |-> held.constitution,
                            charter |-> held.charter, prompts |-> held.manifest.prompts]>>
            /\ at' = IF args.caller = "program" THEN "serving"
                     ELSE IF args.full THEN "classes" ELSE "done"
            /\ UNCHANGED <<disk, edits, args, phase, held, shown, elapsed, breath, roles, outcome>>

-----------------------------------------------------------------------------
(* --full: build_runtime_context *)

\* ActionClassRegistry.from_yaml
FromYaml ==
    /\ at = "classes"
    /\ IF disk.classes = Missing THEN Exit("closed")
       ELSE IF disk.classes.forbidden = {} \/ disk.classes.forbidden \cap disk.classes.allowed # {}
            THEN Exit("traceback")
       ELSE Take("classes", disk.classes, "roles")

\* Mutant: the vocabulary is looked up in the file again.
AdmissibleOnDisk(spec) ==
    /\ disk.classes # Missing
    /\ spec.allowed \cap disk.classes.forbidden = {}
    /\ spec.allowed \subseteq disk.classes.allowed

\* PermissionSpec.from_yaml: nothing forbidden by Charter V.7, nothing unknown.
Admissible(spec) ==
    /\ spec.allowed \cap held.classes.forbidden = {}
    /\ spec.allowed \subseteq held.classes.allowed

\* register_from_yaml, role after role; the forbidden classes are always inherited.
RegisterFromYaml ==
    /\ at = "roles" /\ Len(roles) < Len(Roles)
    /\ LET spec == disk.specs[Roles[Len(roles) + 1]] IN
       IF spec = Missing THEN Exit("closed")
       ELSE IF ~Admissible(spec) THEN Exit("traceback")
       ELSE /\ roles' = Append(roles, [spec EXCEPT !.forbidden = @ \cup held.classes.forbidden])
            /\ UNCHANGED <<disk, edits, args, at, phase, held, shown, elapsed, breath, kernel, outcome>>

\* The sentinel's boot check: a chain with freeform or traceback entries halts the node.
MaybeBuildSentinel ==
    /\ at = "roles" /\ Len(roles) = Len(Roles)
    /\ IF disk.chain THEN GoTo("adapter") ELSE Exit("traceback")

\* AuditAdapter once more, then the minter's taxonomy.
BuildAuditor ==
    /\ at = "adapter"
    /\ IF disk.seal_sh THEN GoTo("taxonomy") ELSE Exit("closed")

BuildMinter ==
    /\ at = "taxonomy"
    /\ IF disk.taxonomy THEN GoTo("done") ELSE Exit("closed")

Finish == at = "done" /\ Exit("ok")

\* What the run does by itself.
Run == \/ Start \/ LoadPublishedFingerprints \/ LoadSeedManifest \/ TestConstitution \/ TestCharter
       \/ TestParents \/ VerdictOfMain \/ Wake \/ Ask \/ VerdictOfBoot \/ Instantiate
       \/ FromYaml \/ RegisterFromYaml \/ MaybeBuildSentinel \/ BuildAuditor \/ BuildMinter \/ Finish

Operator == Decline \/ TypeSomethingElse \/ EndOfInput \/ Confirm

BootNext == Edit \/ Run \/ Tick \/ Operator \/ Interrupt

-----------------------------------------------------------------------------
(* Properties *)

Places == {"start", "load", "manifest", "constitution", "charter", "parents", "verdict", "sleep",
           "ask", "read", "instantiate", "classes", "roles", "adapter", "taxonomy", "done",
           "exited", "serving"}

Slots == [fingerprints : Fingerprints \cup {Missing}, manifest : Manifests \cup {Missing},
          constitution : Texts \cup {Missing}, charter : Texts \cup {Missing},
          tested : Manifests \cup {Missing}, classes : Permissions \cup {Missing}]

Kernels == [fingerprints : Fingerprints, constitution : Texts, charter : Texts, prompts : Prompts]

BootTypeOK ==
    /\ disk \in Disks /\ edits \in Nat
    /\ args \in Flags /\ at \in Places /\ phase \in {"main", "boot"}
    /\ held \in Slots /\ shown \in Slots
    /\ elapsed \in Nat /\ breath \in Nat \cup {-1}
    /\ kernel = <<>> \/ \E k \in Kernels : kernel = <<k>>
    /\ roles \in Seq(Permissions) /\ Len(roles) <= Len(Roles)
    /\ outcome \in {"none", "ok", "closed", "traceback"}

\* No kernel is alive that was not earned: its texts are the published ones by boot()'s
\* own reading, whatever was replaced while the operator breathed; the operator did breathe
\* for the minimum, unless told not to ask; and if no file was replaced, what runs is what
\* the tests the operator was shown had read.
KernelEarned ==
    kernel # <<>> =>
        /\ kernel[1].constitution = kernel[1].fingerprints.constitution
        /\ kernel[1].charter = kernel[1].fingerprints.charter
        /\ ~args.verify_only
        /\ ~args.skip =>
             /\ breath >= Minimum
             /\ edits = 0 => /\ kernel[1].fingerprints = shown.fingerprints
                             /\ kernel[1].constitution = shown.constitution
                             /\ kernel[1].charter = shown.charter
                             /\ kernel[1].prompts = shown.tested.prompts

\* Roles are admitted by one reading of the action classes, the one the node goes on to
\* use: no role may do what that forbids or does not know, and every role inherits what it
\* forbids, even if files change between the loading of one role and the next.  A run of
\* --full that ends well has every role and a kernel.
RolesAdmitted ==
    /\ \A i \in DOMAIN roles :
         /\ held.classes # Missing /\ held.classes.forbidden # {}
         /\ roles[i].allowed \subseteq held.classes.allowed
         /\ roles[i].allowed \cap held.classes.forbidden = {}
         /\ held.classes.forbidden \subseteq roles[i].forbidden
    /\ outcome = "ok" /\ args.full /\ ~args.verify_only => Len(roles) = Len(Roles) /\ kernel # <<>>

\* A run ends, with or without a kernel, if the operator goes on answering: nonsense is
\* answered by the deadline.
BootEnds == at = "start" ~> at \in {"exited", "serving"}
=============================================================================
