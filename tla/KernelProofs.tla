---------------------------- MODULE KernelProofs ----------------------------
(***************************************************************************)
(* Proofs about Kernel: its types, that a kernel is earned, that roles are *)
(* admitted and that approvals are earned, for any texts, releases, roles, *)
(* times, specs and bounds.                                                *)
(*                                                                         *)
(* None of the properties is inductive: that a kernel's texts match comes  *)
(* from what the steps before it had read, and that it is what the         *)
(* operator was shown from both having been the files on disk.  BootInv    *)
(* says of every place of a run what has been read there and how it        *)
(* relates to the disk; CustodyInv follows artifacts and reports.          *)
(***************************************************************************)
EXTENDS Kernel, TLAPS

Gate == {"sleep", "ask", "read"}
AfterFingerprints == {"manifest", "constitution", "charter", "parents", "verdict", "instantiate"} \cup Gate
AfterConstitution == {"charter", "parents", "verdict", "instantiate"} \cup Gate
AfterCharter == {"parents", "verdict", "instantiate"} \cup Gate
AfterParents == {"verdict", "instantiate"} \cup Gate
AfterManifest == {"constitution", "charter", "parents", "verdict", "instantiate"}
Building == {"classes", "roles", "adapter", "taxonomy", "done", "serving"}

\* What has been read where.
ReadInv ==
    /\ at \in AfterFingerprints => held.fingerprints # Missing
    /\ at \in AfterConstitution => held.constitution # Missing
    /\ at \in AfterCharter => held.charter # Missing
    /\ at \in AfterParents => held.tested # Missing
    /\ at \in AfterManifest /\ phase = "boot" => held.manifest # Missing
    /\ at \in {"manifest", "instantiate"} => phase = "boot"
    /\ at \in Gate => phase = "main"
    /\ at \in Gate \cup {"instantiate"} => Verified
    /\ at = "instantiate" => held.manifest.prompts # Missing

\* What is held is on the disk, as long as no file was replaced.
FitsDisk ==
    edits = 0 => /\ held.fingerprints \in {Missing, disk.fingerprints}
                 /\ held.constitution \in {Missing, disk.constitution}
                 /\ held.charter \in {Missing, disk.charter}
                 /\ held.tested \in {Missing, disk.manifest}
                 /\ held.manifest \in {Missing, disk.manifest}

\* How boot() was entered.
BreathInv ==
    /\ at = "start" => phase = "main"
    /\ args.caller = "program" => args.skip /\ ~args.verify_only
    /\ at \in Gate => ~args.skip /\ ~args.verify_only
    /\ at \in {"ask", "read"} => elapsed >= Minimum
    /\ phase = "boot" => ~args.verify_only
    /\ phase = "boot" /\ ~args.skip =>
         /\ breath >= Minimum
         /\ edits = 0 => /\ shown.fingerprints = disk.fingerprints
                         /\ shown.constitution = disk.constitution
                         /\ shown.charter = disk.charter
                         /\ shown.tested = disk.manifest

KernelInv ==
    /\ at \in Building => kernel # <<>>
    /\ kernel # <<>> =>
         /\ phase = "boot"
         /\ kernel[1].constitution = kernel[1].fingerprints.constitution
         /\ kernel[1].charter = kernel[1].fingerprints.charter
         /\ edits = 0 => /\ kernel[1].fingerprints = disk.fingerprints
                         /\ kernel[1].constitution = disk.constitution
                         /\ kernel[1].charter = disk.charter
                         /\ kernel[1].prompts = disk.manifest.prompts

RoleInv ==
    /\ roles # <<>> => at \in {"roles", "adapter", "taxonomy", "done", "exited"}
    /\ roles # <<>> \/ at = "roles" => held.classes # Missing /\ held.classes.forbidden # {}
    /\ \A i \in DOMAIN roles :
         /\ roles[i].allowed \subseteq held.classes.allowed
         /\ roles[i].allowed \cap held.classes.forbidden = {}
         /\ held.classes.forbidden \subseteq roles[i].forbidden
    /\ at \in {"adapter", "taxonomy"} \/ (at = "done" /\ args.full) => Len(roles) = Len(Roles)
    /\ outcome = "ok" =>
         /\ at = "exited"
         /\ args.verify_only \/ (kernel # <<>> /\ (args.full => Len(roles) = Len(Roles)))

BootInv == BootTypeOK /\ ReadInv /\ FitsDisk /\ BreathInv /\ KernelInv /\ RoleInv

\* Artifacts, reports and approvals, each from the one before, as far as nobody amended
\* a spec they rest on.
Sound(id) ==
    /\ specs[id].id = id /\ specs[id].body
    /\ \/ specs[id].parent = NoParent \/ specs[id].parent \in amended
       \/ IsReal(specs[id].parent)

CustodyInv ==
    /\ \A id \in Registered \ amended : specs[id].id = id
    /\ \A x \in artifacts :
         x.from \in Registered /\ (x.from \notin amended => x.spec_id = x.from /\ Sound(x.from))
    /\ \A r \in reports :
         /\ r.artifact \in artifacts
         /\ r.verdict = "CONFORMS" /\ {r.spec, r.artifact.from} \cap amended = {} =>
              r.artifact.from = r.spec
    /\ \A r \in basis : r.verdict = "CONFORMS"
    /\ layer >= 1
    /\ layer > 1 => 1 \in signed /\ kernel # <<>>
    /\ layer > 4 => 4 \in signed

Inv == BootInv /\ PrimitivesTypeOK /\ CustodyInv
-----------------------------------------------------------------------------
(* Steps of a run *)

USE DEF BootInv

LEMMA InitBoot == KernelInit => BootInv
<1>. SUFFICES ASSUME KernelInit PROVE BootInv
  OBVIOUS
<1>. USE DEF KernelInit, Init
<1>1. BootTypeOK
  BY BootAssumption DEF BootTypeOK, Slots, Nothing, Places, Flags
<1>2. ReadInv /\ FitsDisk
  BY DEF ReadInv, FitsDisk, Nothing, AfterFingerprints, AfterConstitution, AfterCharter, AfterParents,
         AfterManifest, Gate
<1>3. BreathInv /\ KernelInv /\ RoleInv
  BY DEF BreathInv, KernelInv, RoleInv, Gate, Building
<1>. QED  BY <1>1, <1>2, <1>3

\* An exit keeps everything; one that is "ok" has to have what "ok" promises.
LEMMA ExitStep ==
    ASSUME NEW how \in {"ok", "closed", "traceback"}
    PROVE  /\ BootInv /\ Exit(how)
           /\ how = "ok" => args.verify_only \/ (kernel # <<>> /\ (args.full => Len(roles) = Len(Roles)))
           => BootInv'
<1>. SUFFICES ASSUME BootInv, Exit(how),
                     how = "ok" => args.verify_only \/ (kernel # <<>> /\ (args.full => Len(roles) = Len(Roles)))
              PROVE  BootInv'
  OBVIOUS
<1>. USE DEF Exit
<1>1. BootTypeOK'
  BY DEF BootTypeOK, Places
<1>2. ReadInv' /\ FitsDisk'
  BY DEF ReadInv, FitsDisk, Verified, AfterFingerprints, AfterConstitution, AfterCharter, AfterParents,
         AfterManifest, Gate
<1>3. BreathInv' /\ KernelInv' /\ RoleInv'
  BY DEF BreathInv, KernelInv, RoleInv, Gate, Building
<1>. QED  BY <1>1, <1>2, <1>3

\* A replaced file leaves what was read alone, and ends the claim that it is on the disk.
LEMMA EditStep == BootInv /\ Edit => BootInv'
<1>. SUFFICES ASSUME BootInv, Edit PROVE BootInv'
  OBVIOUS
<1>1. disk' \in Disks
  <2>. PICK r \in Releases : \/ \E f \in DOMAIN disk \ {"specs"} : disk' = [disk EXCEPT ![f] = r[f]]
                            \/ \E q \in RoleSet : disk' = [disk EXCEPT !.specs[q] = r.specs[q]]
    BY DEF Edit
  <2>. disk \in Disks /\ r \in Disks
    BY BootAssumption DEF BootTypeOK
  <2>1. CASE \E f \in DOMAIN disk \ {"specs"} : disk' = [disk EXCEPT ![f] = r[f]]
    <3>. PICK f \in DOMAIN disk \ {"specs"} : disk' = [disk EXCEPT ![f] = r[f]]
      BY <2>1
    <3>1. disk' = [fingerprints |-> IF f = "fingerprints" THEN r.fingerprints ELSE disk.fingerprints,
                   manifest |-> IF f = "manifest" THEN r.manifest ELSE disk.manifest,
                   constitution |-> IF f = "constitution" THEN r.constitution ELSE disk.constitution,
                   charter |-> IF f = "charter" THEN r.charter ELSE disk.charter,
                   classes |-> IF f = "classes" THEN r.classes ELSE disk.classes,
                   specs |-> disk.specs,
                   seal_sh |-> IF f = "seal_sh" THEN r.seal_sh ELSE disk.seal_sh,
                   chain |-> IF f = "chain" THEN r.chain ELSE disk.chain,
                   taxonomy |-> IF f = "taxonomy" THEN r.taxonomy ELSE disk.taxonomy]
      BY DEF Disks
    <3>. QED  BY <3>1 DEF Disks
  <2>2. CASE \E q \in RoleSet : disk' = [disk EXCEPT !.specs[q] = r.specs[q]]
    BY <2>2 DEF Disks
  <2>. QED  BY <2>1, <2>2
<1>2. BootTypeOK'
  BY <1>1 DEF Edit, BootTypeOK
<1>3. ReadInv'
  BY DEF Edit, ReadInv, Verified
<1>4. edits' # 0
  BY DEF Edit, BootTypeOK
<1>5. FitsDisk' /\ BreathInv' /\ KernelInv' /\ RoleInv'
  BY <1>4 DEF Edit, FitsDisk, BreathInv, KernelInv, RoleInv
<1>. QED  BY <1>2, <1>3, <1>5

\* main() and boot() read a file, or stop for want of it.
LEMMA ReadingStep ==
    BootInv /\ (Start \/ LoadPublishedFingerprints \/ LoadSeedManifest \/ TestConstitution
                \/ TestCharter \/ TestParents) => BootInv'
<1>. USE DEF AfterFingerprints, AfterConstitution, AfterCharter, AfterParents, AfterManifest, Gate
<1>1. BootInv /\ Start => BootInv'
  <2>. SUFFICES ASSUME BootInv, Start PROVE BootInv'
    OBVIOUS
  <2>1. BootTypeOK' /\ ReadInv' /\ FitsDisk'
    BY DEF Start, BootTypeOK, Places, ReadInv, FitsDisk, Verified
  <2>2. BreathInv' /\ KernelInv' /\ RoleInv'
    BY DEF Start, BreathInv, KernelInv, RoleInv, BootTypeOK, Flags, Callers, Building
  <2>. QED  BY <2>1, <2>2
<1>2. BootInv /\ LoadPublishedFingerprints => BootInv'
  <2>. SUFFICES ASSUME BootInv, LoadPublishedFingerprints, disk.fingerprints # Missing PROVE BootInv'
    BY ExitStep DEF LoadPublishedFingerprints
  <2>. USE DEF LoadPublishedFingerprints, Take
  <2>1. BootTypeOK' /\ ReadInv' /\ FitsDisk'
    BY DEF BootTypeOK, Places, Disks, Slots, ReadInv, FitsDisk, Verified
  <2>2. BreathInv' /\ KernelInv' /\ RoleInv'
    BY DEF BreathInv, KernelInv, RoleInv, Building
  <2>. QED  BY <2>1, <2>2
<1>3. BootInv /\ LoadSeedManifest => BootInv'
  <2>. SUFFICES ASSUME BootInv, LoadSeedManifest, disk.manifest # Missing PROVE BootInv'
    BY ExitStep DEF LoadSeedManifest
  <2>. USE DEF LoadSeedManifest, Take
  <2>1. BootTypeOK' /\ ReadInv' /\ FitsDisk'
    BY DEF BootTypeOK, Places, Disks, Slots, ReadInv, FitsDisk, Verified
  <2>2. BreathInv' /\ KernelInv' /\ RoleInv'
    BY DEF BreathInv, KernelInv, RoleInv, Building
  <2>. QED  BY <2>1, <2>2
<1>4. BootInv /\ TestConstitution => BootInv'
  <2>. SUFFICES ASSUME BootInv, TestConstitution, disk.constitution # Missing PROVE BootInv'
    BY ExitStep DEF TestConstitution
  <2>. USE DEF TestConstitution, Take
  <2>1. BootTypeOK' /\ ReadInv' /\ FitsDisk'
    BY DEF BootTypeOK, Places, Disks, Slots, ReadInv, FitsDisk, Verified
  <2>2. BreathInv' /\ KernelInv' /\ RoleInv'
    BY DEF BreathInv, KernelInv, RoleInv, Building
  <2>. QED  BY <2>1, <2>2
<1>5. BootInv /\ TestCharter => BootInv'
  <2>. SUFFICES ASSUME BootInv, TestCharter, disk.charter # Missing PROVE BootInv'
    BY ExitStep DEF TestCharter
  <2>. USE DEF TestCharter, Take
  <2>1. BootTypeOK' /\ ReadInv' /\ FitsDisk'
    BY DEF BootTypeOK, Places, Disks, Slots, ReadInv, FitsDisk, Verified
  <2>2. BreathInv' /\ KernelInv' /\ RoleInv'
    BY DEF BreathInv, KernelInv, RoleInv, Building
  <2>. QED  BY <2>1, <2>2
<1>6. BootInv /\ TestParents => BootInv'
  <2>. SUFFICES ASSUME BootInv, TestParents, disk.manifest # Missing PROVE BootInv'
    BY ExitStep DEF TestParents
  <2>. USE DEF TestParents, Take
  <2>1. BootTypeOK' /\ ReadInv' /\ FitsDisk'
    BY DEF BootTypeOK, Places, Disks, Slots, ReadInv, FitsDisk, Verified
  <2>2. BreathInv' /\ KernelInv' /\ RoleInv'
    BY DEF BreathInv, KernelInv, RoleInv, Building
  <2>. QED  BY <2>1, <2>2
<1>. QED  BY <1>1, <1>2, <1>3, <1>4, <1>5, <1>6

\* A move within a reading, the gate or the build that takes nothing from the disk.
LEMMA GateStep ==
    BootInv /\ (VerdictOfMain \/ Wake \/ Ask \/ Tick \/ Operator \/ Interrupt) => BootInv'
<1>. USE DEF AfterFingerprints, AfterConstitution, AfterCharter, AfterParents, AfterManifest, Gate
<1>1. BootInv /\ EnterBoot /\ at \in {"verdict", "read"} /\ ~args.verify_only /\ phase = "main"
         /\ (\/ args.skip /\ UNCHANGED <<shown, breath>>
             \/ at = "read" /\ elapsed >= Minimum /\ shown' = held /\ breath' = elapsed)
      => BootInv'
  <2>. SUFFICES ASSUME BootInv, EnterBoot, at \in {"verdict", "read"}, ~args.verify_only, phase = "main",
                       \/ args.skip /\ UNCHANGED <<shown, breath>>
                       \/ at = "read" /\ elapsed >= Minimum /\ shown' = held /\ breath' = elapsed
                PROVE  BootInv'
    OBVIOUS
  <2>. USE DEF EnterBoot, Nothing
  <2>1. BootTypeOK'
    BY DEF BootTypeOK, Places, Slots
  <2>2. ReadInv' /\ FitsDisk'
    BY DEF ReadInv, FitsDisk
  <2>3. BreathInv'
    BY DEF BreathInv, ReadInv, FitsDisk, BootTypeOK
  <2>4. KernelInv' /\ RoleInv'
    BY DEF KernelInv, RoleInv, Building, BootTypeOK
  <2>. QED  BY <2>1, <2>2, <2>3, <2>4
<1>2. BootInv /\ VerdictOfMain => BootInv'
  <2>. SUFFICES ASSUME BootInv, VerdictOfMain, Verified, ~args.verify_only, ~args.skip PROVE BootInv'
    BY <1>1, ExitStep DEF VerdictOfMain
  <2>. USE DEF VerdictOfMain, GoTo
  <2>1. BootTypeOK' /\ ReadInv' /\ FitsDisk'
    BY DEF BootTypeOK, Places, ReadInv, FitsDisk, Verified
  <2>2. BreathInv' /\ KernelInv' /\ RoleInv'
    BY DEF BreathInv, KernelInv, RoleInv, Building
  <2>. QED  BY <2>1, <2>2
<1>3. BootInv /\ GoTo("ask") /\ ((at = "sleep" /\ elapsed >= Minimum) \/ at = "read") => BootInv'
  <2>. SUFFICES ASSUME BootInv, GoTo("ask"), (at = "sleep" /\ elapsed >= Minimum) \/ at = "read" PROVE BootInv'
    OBVIOUS
  <2>. USE DEF GoTo
  <2>1. BootTypeOK' /\ ReadInv' /\ FitsDisk'
    BY DEF BootTypeOK, Places, ReadInv, FitsDisk, Verified
  <2>2. BreathInv' /\ KernelInv' /\ RoleInv'
    BY DEF BreathInv, KernelInv, RoleInv, Building
  <2>. QED  BY <2>1, <2>2
<1>4. BootInv /\ Ask => BootInv'
  <2>. SUFFICES ASSUME BootInv, at = "ask", GoTo("read") PROVE BootInv'
    BY ExitStep DEF Ask
  <2>. USE DEF GoTo
  <2>1. BootTypeOK' /\ ReadInv' /\ FitsDisk'
    BY DEF BootTypeOK, Places, ReadInv, FitsDisk, Verified
  <2>2. BreathInv' /\ KernelInv' /\ RoleInv'
    BY DEF BreathInv, KernelInv, RoleInv, Building
  <2>. QED  BY <2>1, <2>2
<1>5. BootInv /\ Tick => BootInv'
  <2>. SUFFICES ASSUME BootInv, Tick PROVE BootInv'
    OBVIOUS
  <2>. USE DEF Tick
  <2>1. BootTypeOK' /\ ReadInv' /\ FitsDisk'
    BY DEF BootTypeOK, Places, ReadInv, FitsDisk, Verified
  <2>2. BreathInv' /\ KernelInv' /\ RoleInv'
    BY BootAssumption DEF BreathInv, KernelInv, RoleInv, Building, BootTypeOK
  <2>. QED  BY <2>1, <2>2
<1>6. BootInv /\ Confirm => BootInv'
  <2>. SUFFICES ASSUME BootInv, Confirm PROVE BootInv'
    OBVIOUS
  <2>1. at = "read" /\ ~args.verify_only /\ phase = "main"
    BY DEF Confirm, BreathInv, ReadInv
  <2>2. elapsed < Minimum \/ elapsed >= Minimum
    BY BootAssumption DEF BootTypeOK
  <2>. QED  BY <1>1, <2>1, <2>2, ExitStep DEF Confirm
<1>7. BootInv /\ (Decline \/ TypeSomethingElse \/ EndOfInput \/ Interrupt \/ Wake) => BootInv'
  BY <1>3, ExitStep DEF Decline, TypeSomethingElse, EndOfInput, Interrupt, Wake
<1>. QED  BY <1>2, <1>4, <1>5, <1>6, <1>7 DEF Operator

\* boot() makes the kernel of what it has read.
LEMMA InstantiateStep == BootInv /\ (VerdictOfBoot \/ Instantiate) => BootInv'
<1>. USE DEF AfterFingerprints, AfterConstitution, AfterCharter, AfterParents, AfterManifest, Gate
<1>1. BootInv /\ VerdictOfBoot => BootInv'
  <2>. SUFFICES ASSUME BootInv, VerdictOfBoot, Verified, held.manifest.prompts # Missing PROVE BootInv'
    BY ExitStep DEF VerdictOfBoot
  <2>. USE DEF VerdictOfBoot, GoTo
  <2>1. BootTypeOK' /\ ReadInv' /\ FitsDisk'
    BY DEF BootTypeOK, Places, ReadInv, FitsDisk, Verified
  <2>2. BreathInv' /\ KernelInv' /\ RoleInv'
    BY DEF BreathInv, KernelInv, RoleInv, Building
  <2>. QED  BY <2>1, <2>2
<1>2. BootInv /\ Instantiate => BootInv'
  <2>. SUFFICES ASSUME BootInv, Instantiate, disk.seal_sh PROVE BootInv'
    BY ExitStep DEF Instantiate
  <2>. DEFINE alive == [fingerprints |-> held.fingerprints, constitution |-> held.constitution,
                        charter |-> held.charter, prompts |-> held.manifest.prompts]
  <2>1. /\ kernel' = <<alive>> /\ at = "instantiate" /\ at' \in {"serving", "classes", "done"}
        /\ (at' = "done" => ~args.full)
        /\ UNCHANGED <<disk, edits, args, phase, held, shown, elapsed, breath, roles, outcome>>
    BY DEF Instantiate
  <2>2. alive \in Kernels
    BY <2>1 DEF ReadInv, BootTypeOK, Slots, Fingerprints, Manifests, Kernels
  <2>. HIDE DEF alive
  <2>3. BootTypeOK'
    BY <2>1, <2>2 DEF BootTypeOK, Places
  <2>4. ReadInv' /\ FitsDisk' /\ BreathInv' /\ RoleInv'
    BY <2>1 DEF ReadInv, FitsDisk, Verified, BreathInv, RoleInv
  <2>5. KernelInv'
    BY <2>1 DEF alive, KernelInv, ReadInv, FitsDisk, Verified, Building
  <2>. QED  BY <2>3, <2>4, <2>5
<1>. QED  BY <1>1, <1>2

\* --full reads the classes, then role after role, and looks at the rest.
LEMMA BuildStep ==
    BootInv /\ (FromYaml \/ RegisterFromYaml \/ MaybeBuildSentinel \/ BuildAuditor \/ BuildMinter
                \/ Finish) => BootInv'
<1>. USE DEF AfterFingerprints, AfterConstitution, AfterCharter, AfterParents, AfterManifest, Gate
<1>1. BootInv /\ FromYaml => BootInv'
  <2>. SUFFICES ASSUME BootInv, FromYaml, disk.classes # Missing, disk.classes.forbidden # {},
                       Take("classes", disk.classes, "roles")
                PROVE BootInv'
    BY ExitStep DEF FromYaml
  <2>. USE DEF FromYaml, Take
  <2>1. BootTypeOK' /\ ReadInv' /\ FitsDisk'
    BY DEF BootTypeOK, Places, Disks, Slots, ReadInv, FitsDisk, Verified
  <2>2. BreathInv' /\ KernelInv'
    BY DEF BreathInv, KernelInv, Building
  <2>3. RoleInv'
    BY DEF RoleInv, BootTypeOK, Slots
  <2>. QED  BY <2>1, <2>2, <2>3
<1>2. BootInv /\ RegisterFromYaml => BootInv'
  <2>. DEFINE spec == disk.specs[Roles[Len(roles) + 1]]
              admitted == [spec EXCEPT !.forbidden = @ \cup held.classes.forbidden]
  <2>. SUFFICES ASSUME BootInv, RegisterFromYaml, spec # Missing, Admissible(spec),
                       roles' = Append(roles, admitted),
                       UNCHANGED <<disk, edits, args, at, phase, held, shown, elapsed, breath, kernel, outcome>>
                PROVE  BootInv'
    BY ExitStep DEF RegisterFromYaml
  <2>1. at = "roles" /\ Len(roles) < Len(Roles)
    BY DEF RegisterFromYaml
  <2>2. held.classes \in Permissions
    BY <2>1 DEF RoleInv, BootTypeOK, Slots
  <2>3. spec \in Permissions
    BY <2>1, BootAssumption DEF BootTypeOK, Disks, RoleSet
  <2>4. admitted \in Permissions
    BY <2>2, <2>3 DEF Permissions
  <2>5. /\ admitted.allowed \subseteq held.classes.allowed
        /\ admitted.allowed \cap held.classes.forbidden = {}
        /\ held.classes.forbidden \subseteq admitted.forbidden
    BY <2>3 DEF Admissible, Permissions
  <2>. HIDE DEF admitted
  <2>6. BootTypeOK'
    BY <2>1, <2>4, BootAssumption DEF BootTypeOK
  <2>7. ReadInv' /\ FitsDisk' /\ BreathInv' /\ KernelInv'
    BY DEF ReadInv, FitsDisk, Verified, BreathInv, KernelInv
  <2>8. \A i \in DOMAIN roles' : (i \in DOMAIN roles /\ roles'[i] = roles[i]) \/ roles'[i] = admitted
    BY <2>4 DEF BootTypeOK
  <2>9. RoleInv'
    BY <2>1, <2>5, <2>8 DEF RoleInv
  <2>. QED  BY <2>6, <2>7, <2>9
<1>3. ASSUME NEW place \in {"adapter", "taxonomy", "done"}
      PROVE  /\ BootInv /\ GoTo(place) /\ at \in {"roles", "adapter", "taxonomy"}
             /\ at = "roles" => Len(roles) = Len(Roles)
             => BootInv'
  <2>. SUFFICES ASSUME BootInv, GoTo(place), at \in {"roles", "adapter", "taxonomy"},
                       at = "roles" => Len(roles) = Len(Roles)
                PROVE  BootInv'
    OBVIOUS
  <2>. USE DEF GoTo
  <2>1. BootTypeOK' /\ ReadInv' /\ FitsDisk'
    BY DEF BootTypeOK, Places, ReadInv, FitsDisk, Verified
  <2>2. BreathInv' /\ KernelInv' /\ RoleInv'
    BY DEF BreathInv, KernelInv, RoleInv, Building
  <2>. QED  BY <2>1, <2>2
<1>4. BootInv /\ (MaybeBuildSentinel \/ BuildAuditor \/ BuildMinter) => BootInv'
  BY <1>3, ExitStep DEF MaybeBuildSentinel, BuildAuditor, BuildMinter
<1>5. BootInv /\ Finish => BootInv'
  BY ExitStep DEF Finish, KernelInv, RoleInv, Building
<1>. QED  BY <1>1, <1>2, <1>4, <1>5

LEMMA BootStep == BootInv /\ BootNext => BootInv'
  BY EditStep, ReadingStep, GateStep, InstantiateStep, BuildStep DEF BootNext, Run

-----------------------------------------------------------------------------
(* Steps of the program with the primitives *)

USE DEF Inv

LEMMA InitInv == KernelInit => Inv
<1>1. KernelInit => BootInv
  BY InitBoot
<1>2. KernelInit => PrimitivesTypeOK /\ CustodyInv
  BY DEF KernelInit, PrimitivesTypeOK, CustodyInv, Registered
<1>. QED  BY <1>1, <1>2

\* The primitives leave the run alone.
LEMMA BootUntouched == BootInv /\ UNCHANGED bootVars => BootInv'
<1>. SUFFICES ASSUME BootInv, UNCHANGED bootVars PROVE BootInv'
  OBVIOUS
<1>. USE DEF bootVars
<1>1. BootTypeOK' /\ ReadInv' /\ FitsDisk'
  BY DEF BootTypeOK, ReadInv, FitsDisk, Verified
<1>2. BreathInv' /\ KernelInv' /\ RoleInv'
  BY DEF BreathInv, KernelInv, RoleInv
<1>. QED  BY <1>1, <1>2

\* A new spec cannot have been constructed from before, nor been anybody's real parent.
LEMMA RegisterStep ==
    ASSUME NEW spec \in Specs
    PROVE  Inv /\ Register(spec) => PrimitivesTypeOK' /\ (kernel' = kernel => CustodyInv')
<1>. SUFFICES ASSUME Inv, Register(spec)
              PROVE  PrimitivesTypeOK' /\ (kernel' = kernel => CustodyInv')
  OBVIOUS
<1>. USE DEF Register, Registered
<1>1. /\ DOMAIN specs' = DOMAIN specs \cup {spec.id} /\ spec.id \notin DOMAIN specs
      /\ \A i \in DOMAIN specs : specs'[i] = specs[i]
      /\ specs'[spec.id] = spec
  OBVIOUS
<1>2. PrimitivesTypeOK'
  <2>1. spec.id \in Ids
    BY DEF Specs
  <2>. QED  BY <2>1 DEF PrimitivesTypeOK
<1>3. ASSUME NEW id \in DOMAIN specs, Sound(id) PROVE Sound(id)'
  BY <1>1, <1>3 DEF Sound, IsReal
<1>4. kernel' = kernel => CustodyInv'
  BY <1>1, <1>3 DEF CustodyInv
<1>. QED  BY <1>2, <1>4

\* A signature more keeps what is sound.
LEMMA SignStep ==
    ASSUME NEW id \in Ids
    PROVE  Inv /\ Sign(id) => PrimitivesTypeOK' /\ (kernel' = kernel => CustodyInv')
<1>. SUFFICES ASSUME Inv, Sign(id)
              PROVE  PrimitivesTypeOK' /\ (kernel' = kernel => CustodyInv')
  OBVIOUS
<1>. USE DEF Sign, Registered
<1>1. specs \in [DOMAIN specs -> Specs] /\ id \in DOMAIN specs
  BY DEF PrimitivesTypeOK
<1>2. /\ DOMAIN specs' = DOMAIN specs /\ specs' \in [DOMAIN specs -> Specs]
      /\ \A i \in DOMAIN specs : /\ specs'[i].id = specs[i].id
                                 /\ specs'[i].parent = specs[i].parent
                                 /\ specs'[i].body = specs[i].body
                                 /\ specs[i].signed => specs'[i].signed
  BY <1>1 DEF Specs
<1>3. PrimitivesTypeOK'
  BY <1>2 DEF PrimitivesTypeOK
<1>4. ASSUME NEW i \in DOMAIN specs, Sound(i) PROVE Sound(i)'
  BY <1>2, <1>4 DEF Sound, IsReal
<1>5. kernel' = kernel => CustodyInv'
  BY <1>2, <1>4 DEF CustodyInv
<1>. QED  BY <1>3, <1>5

\* A spec amended ends what is claimed of it, and of who has it for a parent.
LEMMA AmendStep ==
    ASSUME NEW id \in Ids, NEW spec \in Specs
    PROVE  Inv /\ Amend(id, spec) => PrimitivesTypeOK' /\ (kernel' = kernel => CustodyInv')
<1>. SUFFICES ASSUME Inv, Amend(id, spec)
              PROVE  PrimitivesTypeOK' /\ (kernel' = kernel => CustodyInv')
  OBVIOUS
<1>. USE DEF Amend, Registered
<1>1. specs \in [DOMAIN specs -> Specs] /\ id \in DOMAIN specs
  BY DEF PrimitivesTypeOK
<1>2. /\ DOMAIN specs' = DOMAIN specs /\ specs' \in [DOMAIN specs -> Specs]
      /\ \A i \in DOMAIN specs \ {id} : specs'[i] = specs[i]
      /\ amended' = amended \cup {id}
  BY <1>1
<1>3. PrimitivesTypeOK'
  BY <1>1, <1>2 DEF PrimitivesTypeOK
<1>4. ASSUME NEW i \in DOMAIN specs, i \notin amended', Sound(i) PROVE Sound(i)'
  <2>1. i # id /\ specs'[i] = specs[i]
    BY <1>2, <1>4
  <2>. QED  BY <1>2, <1>4, <2>1 DEF Sound, IsReal
<1>5. \A i \in DOMAIN specs' : i \notin amended' => specs'[i].id = i
  BY <1>2 DEF CustodyInv
<1>6. \A x \in artifacts :
         /\ x.from \in DOMAIN specs'
         /\ x.from \notin amended' => x.spec_id = x.from /\ Sound(x.from)'
  BY <1>2, <1>4 DEF CustodyInv
<1>7. \A r \in reports : {r.spec, r.artifact.from} \cap amended' = {}
                         => {r.spec, r.artifact.from} \cap amended = {}
  BY <1>2
<1>8. kernel' = kernel => CustodyInv'
  BY <1>5, <1>6, <1>7 DEF CustodyInv
<1>. QED  BY <1>3, <1>8

LEMMA ConstructStep ==
    ASSUME NEW id \in Ids
    PROVE  Inv /\ Construct(id) => PrimitivesTypeOK' /\ (kernel' = kernel => CustodyInv')
<1>. SUFFICES ASSUME Inv, Construct(id)
              PROVE  PrimitivesTypeOK' /\ (kernel' = kernel => CustodyInv')
  OBVIOUS
<1>. DEFINE made == [from |-> id, spec_id |-> specs[id].id]
<1>1. /\ id \in DOMAIN specs /\ artifacts' = artifacts \cup {made}
      /\ UNCHANGED <<specs, reports, layer, amended, signed, basis>>
  BY DEF Construct, Registered
<1>2. made \in Artifacts /\ made.from = id /\ made.spec_id = specs[id].id
  BY <1>1 DEF PrimitivesTypeOK, Registered, Specs, Artifacts
<1>. HIDE DEF made
<1>3. PrimitivesTypeOK'
  BY <1>1, <1>2 DEF PrimitivesTypeOK, Registered
<1>4. id \notin amended => specs[id].id = id /\ Sound(id)
  BY <1>1 DEF Construct, CustodyInv, Sound, Registered
<1>5. \A i : Sound(i)' <=> Sound(i)
  BY <1>1 DEF Sound, IsReal, Registered
<1>6. kernel' = kernel => CustodyInv'
  BY <1>1, <1>2, <1>4, <1>5 DEF CustodyInv, Registered
<1>. QED  BY <1>3, <1>6

\* An artifact made from a spec that nobody amended carries that spec's id, and so
\* conforms to no other that nobody amended.
LEMMA ReviewStep ==
    ASSUME NEW id \in Ids, NEW artifact \in artifacts, NEW body \in BOOLEAN
    PROVE  Inv /\ Review(id, artifact, body)
           => PrimitivesTypeOK' /\ (kernel' = kernel => CustodyInv')
<1>. SUFFICES ASSUME Inv, Review(id, artifact, body)
              PROVE  PrimitivesTypeOK' /\ (kernel' = kernel => CustodyInv')
  OBVIOUS
<1>. DEFINE said == [spec |-> id, artifact |-> artifact, verdict |-> Verdict(id, artifact, body)]
<1>1. /\ reports' = reports \cup {said}
      /\ UNCHANGED <<specs, artifacts, layer, amended, signed, basis>>
  BY DEF Review
<1>2. said \in Reports /\ said.spec = id /\ said.artifact = artifact
  BY DEF Verdict, Reports, PrimitivesTypeOK
<1>3. said.verdict = "CONFORMS" => id \in Registered /\ artifact.spec_id = specs[id].id
  BY DEF Verdict
<1>. HIDE DEF said
<1>4. PrimitivesTypeOK'
  BY <1>1, <1>2 DEF PrimitivesTypeOK, Registered
<1>5. said.verdict = "CONFORMS" /\ {id, artifact.from} \cap amended = {} => artifact.from = id
  BY <1>3 DEF CustodyInv
<1>6. \A i : Sound(i)' <=> Sound(i)
  BY <1>1 DEF Sound, IsReal, Registered
<1>7. kernel' = kernel => CustodyInv'
  BY <1>1, <1>2, <1>5, <1>6 DEF CustodyInv, Registered
<1>. QED  BY <1>4, <1>7

LEMMA ReviewElevationStep ==
    ASSUME NEW based \in SUBSET reports, NEW modifies \in BOOLEAN, NEW signature \in BOOLEAN
    PROVE  Inv /\ ReviewElevation(based, modifies, signature)
           => PrimitivesTypeOK' /\ (kernel' = kernel => CustodyInv')
<1>. SUFFICES ASSUME Inv, ReviewElevation(based, modifies, signature)
              PROVE  PrimitivesTypeOK' /\ (kernel' = kernel => CustodyInv')
  OBVIOUS
<1>. USE DEF ReviewElevation
<1>1. PrimitivesTypeOK'
  BY DEF PrimitivesTypeOK, Registered
<1>2. kernel # <<>>
  BY DEF KernelInv, Building
<1>3. layer \in Nat /\ layer >= 1 /\ signed' = IF signature THEN signed \cup {layer} ELSE signed
  BY DEF PrimitivesTypeOK, CustodyInv
<1>4. layer \in {1, 4} => signature
  BY DEF Approves, HumanApprovalRequiredLayers
<1>5. (layer' > 1 => 1 \in signed') /\ (layer' > 4 => 4 \in signed')
  BY <1>3, <1>4 DEF CustodyInv
<1>6. \A r \in basis' : r.verdict = "CONFORMS"
  BY DEF Approves, CustodyInv
<1>7. \A i : Sound(i)' <=> Sound(i)
  BY DEF Sound, IsReal, Registered
<1>8. kernel' = kernel => CustodyInv'
  BY <1>2, <1>3, <1>5, <1>6, <1>7 DEF CustodyInv, Registered
<1>. QED  BY <1>1, <1>8

LEMMA NextInv == Inv /\ [Next]_vars => Inv'
<1>. SUFFICES ASSUME Inv, [Next]_vars PROVE Inv'
  OBVIOUS
<1>1. CASE BootNext /\ UNCHANGED primVars
  <2>1. BootInv'
    BY <1>1, BootStep
  <2>2. PrimitivesTypeOK'
    BY <1>1 DEF primVars, PrimitivesTypeOK, Registered
  <2>3. kernel' = kernel \/ kernel' # <<>>
    BY <1>1 DEF BootNext, Edit, Run, Tick, Operator, Start, LoadPublishedFingerprints, LoadSeedManifest,
        TestConstitution, TestCharter, TestParents, VerdictOfMain, Wake, Ask, VerdictOfBoot, Instantiate,
        FromYaml, RegisterFromYaml, MaybeBuildSentinel, BuildAuditor, BuildMinter, Finish, Decline,
        TypeSomethingElse, EndOfInput, Interrupt, Confirm, EnterBoot, Exit, GoTo, Take
  <2>4. CustodyInv'
    BY <1>1, <2>3 DEF primVars, CustodyInv, Sound, IsReal, Registered
  <2>. QED  BY <2>1, <2>2, <2>4
<1>2. CASE Primitives /\ UNCHANGED bootVars
  <2>1. BootInv' /\ kernel' = kernel
    BY <1>2, BootUntouched DEF bootVars
  <2>2. PrimitivesTypeOK' /\ (kernel' = kernel => CustodyInv')
    BY <1>2, RegisterStep, SignStep, AmendStep, ConstructStep, ReviewStep, ReviewElevationStep
    DEF Primitives
  <2>. QED  BY <2>1, <2>2
<1>3. CASE UNCHANGED vars
  <2>1. BootInv'
    BY <1>3, BootUntouched DEF vars
  <2>2. PrimitivesTypeOK' /\ CustodyInv'
    BY <1>3 DEF vars, bootVars, primVars, PrimitivesTypeOK, CustodyInv, Sound, IsReal, Registered
  <2>. QED  BY <2>1, <2>2
<1>. QED  BY <1>1, <1>2, <1>3 DEF Next

-----------------------------------------------------------------------------
(* Theorems *)

\* The invariant of the whole: runs of the script or a program, edits of the seed, and
\* the primitives of the kernel that comes of them.
THEOREM Invariance == Spec => []Inv
<1>1. KernelInit => Inv
  BY InitInv
<1>2. Inv /\ [Next]_vars => Inv'
  BY NextInv
<1>. QED  BY <1>1, <1>2, PTL DEF Spec

\* Every variable keeps its type (kernel/boot.py, breath_gate.py, primitives).
THEOREM TypeCorrect == Spec => []TypeOK
<1>1. Inv => TypeOK
  BY DEF TypeOK
<1>. QED  BY <1>1, Invariance, PTL

\* No kernel is alive that was not earned (bootstrap.py main, boot.py boot, breath_gate.py).
THEOREM KernelIsEarned == Spec => []KernelEarned
<1>1. Inv => KernelEarned
  BY DEF KernelEarned, KernelInv, BreathInv
<1>. QED  BY <1>1, Invariance, PTL

\* Roles are admitted by the action classes the node goes on to use (permission_spec.py,
\* registry.py).
THEOREM RolesAreAdmitted == Spec => []RolesAdmitted
<1>1. Inv => RolesAdmitted
  BY DEF RolesAdmitted, RoleInv
<1>. QED  BY <1>1, Invariance, PTL

\* What the Governor approved on was made from the spec it names, with a body and a real
\* parent, unless somebody amended one of these after it was registered; and the gated
\* layers were left with a signature (spec.py, constructor.py, critic.py, governor.py).
THEOREM ApprovalsAreEarned == Spec => []ApprovalsEarned
<1>1. Inv => ApprovalsEarned
  BY DEF ApprovalsEarned, CustodyInv, Sound, PrimitivesTypeOK
<1>. QED  BY <1>1, Invariance, PTL
=============================================================================
