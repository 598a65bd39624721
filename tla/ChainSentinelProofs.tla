-------------------------- MODULE ChainSentinelProofs --------------------------
(***************************************************************************)
(* Proofs about ChainSentinel, for any cadence, cap, legacy directories    *)
(* and bounds: its types, that clean seals never raise an alarm, that      *)
(* degradation is noticed within the cadence, and that nothing is cut out  *)
(* of the directory a process booted with.                                 *)
(*                                                                         *)
(* DirectoryInv is the history no single step shows: cylinders are in the  *)
(* order they were made, and a cylinder of the directory at boot that is   *)
(* found again later is the same one.                                      *)
(***************************************************************************)
EXTENDS ChainSentinel, NaturalLemmas, FiniteSetTheorems, SequenceTheorems, TLAPS

\* Cylinders in the order they were made, among the first n ever made.
Ordered(dir, n) ==
    /\ dir \in Seq(Cylinders)
    /\ \A i \in DOMAIN dir : dir[i].id <= n /\ dir[i].hash \in {NoHash, dir[i].id}
    /\ \A i, j \in DOMAIN dir : i < j => dir[i].id < dir[j].id

\* A cylinder that is in both is the same in both.
Agree(dir, other) ==
    \A i \in DOMAIN dir, j \in DOMAIN other : dir[i].id = other[j].id => dir[i] = other[j]

DirectoryInv ==
    /\ Ordered(chain, born) /\ Ordered(booted, born) /\ Ordered(passed, born)
    /\ Agree(booted, chain) /\ Agree(booted, passed)

CountInv ==
    /\ Len(chain) <= born
    /\ sealCounter + (IF state = "sealed" THEN 1 ELSE 0) <= born

BreaksInv == baseline.breaks = Breaks(booted) /\ Breaks(passed) \subseteq baseline.breaks

CadenceInv == unnoticed <= sealCounter % EveryN

\* After clean seals only, nothing a verification compares has become worse.
CleanInv ==
    state # "down" /\ clean =>
        /\ \A i \in DOMAIN chain : chain[i].encoded /\ ~chain[i].traceback
        /\ baseline.total <= Len(chain)
        /\ Breaks(chain) \subseteq baseline.breaks

Inv == TypeOK /\ DirectoryInv /\ CountInv /\ BreaksInv /\ CadenceInv /\ CleanInv /\ NoFalseAlarm

-----------------------------------------------------------------------------
(* Directories *)

\* Positions and identities are numbers.
LEMMA Identified ==
    ASSUME NEW n \in Nat, NEW dir, Ordered(dir, n)
    PROVE  /\ dir \in Seq(Cylinders) /\ DOMAIN dir = 1..Len(dir) /\ Len(dir) \in Nat
           /\ \A i \in DOMAIN dir : i \in Nat /\ dir[i] \in Cylinders /\ dir[i].id \in Nat \ {0}
<1>1. dir \in Seq(Cylinders) /\ DOMAIN dir = 1..Len(dir) /\ Len(dir) \in Nat
  BY DEF Ordered
<1>2. ASSUME NEW i \in DOMAIN dir PROVE i \in Nat /\ dir[i] \in Cylinders
  BY <1>1
<1>3. ASSUME NEW cyl \in Cylinders PROVE cyl.id \in Nat \ {0}
  BY BoundsAssumption DEF Cylinders
<1>. QED  BY <1>1, <1>2, <1>3

\* A cylinder made last goes to the end.
LEMMA Added ==
    ASSUME NEW n \in Nat, NEW dir, Ordered(dir, n), NEW cyl \in Cylinders,
           cyl.id = n + 1, cyl.hash \in {NoHash, n + 1}
    PROVE  /\ Ordered(Append(dir, cyl), n + 1)
           /\ Len(Append(dir, cyl)) = Len(dir) + 1
           /\ DOMAIN Append(dir, cyl) = DOMAIN dir \cup {Len(dir) + 1}
           /\ Append(dir, cyl)[Len(dir) + 1] = cyl
           /\ \A i \in DOMAIN dir : Append(dir, cyl)[i] = dir[i]
<1>. DEFINE new == Append(dir, cyl)
            last == Len(dir) + 1
<1>1. /\ dir \in Seq(Cylinders) /\ new \in Seq(Cylinders) /\ Len(new) = last
      /\ new[last] = cyl /\ \A i \in 1..Len(dir) : new[i] = dir[i]
  BY DEF Ordered
<1>2. /\ DOMAIN dir = 1..Len(dir) /\ Len(dir) \in Nat
      /\ DOMAIN new = 1..(Len(dir) + 1)
  BY <1>1
<1>3. DOMAIN new = DOMAIN dir \cup {last}
  BY <1>2
<1>. HIDE DEF new
<1>4. \A i \in DOMAIN dir : i < last
  BY <1>2
<1>. HIDE DEF last
<1>5. ASSUME NEW i \in DOMAIN new PROVE new[i].id <= n + 1 /\ new[i].hash \in {NoHash, new[i].id}
  <2>1. CASE i = last
    BY <1>1, <2>1
  <2>2. CASE i \in DOMAIN dir
    <3>1. dir[i] \in Cylinders /\ dir[i].id \in Nat /\ dir[i].id <= n /\ new[i] = dir[i]
      BY <1>1, <1>2, <2>2, Identified DEF Ordered
    <3>. QED  BY <2>2, <3>1 DEF Ordered
  <2>. QED  BY <1>3, <2>1, <2>2
<1>6. ASSUME NEW i \in DOMAIN new, NEW j \in DOMAIN new, i < j PROVE new[i].id < new[j].id
  <2>1. i \in DOMAIN dir
    BY <1>1, <1>2, <1>3, <1>4, <1>6 DEF last
  <2>2. dir[i].id \in Nat /\ dir[i].id <= n /\ new[i] = dir[i]
    BY <1>1, <1>2, <2>1, Identified DEF Ordered
  <2>3. CASE j = last
    BY <1>1, <2>2, <2>3
  <2>4. CASE j \in DOMAIN dir
    BY <1>1, <1>2, <1>6, <2>1, <2>4 DEF Ordered
  <2>. QED  BY <1>3, <2>3, <2>4
<1>. QED  BY <1>1, <1>2, <1>3, <1>5, <1>6 DEF Ordered, last, new

\* RemoveAt closes the gap.
LEMMA Removed ==
    ASSUME NEW S, NEW dir \in Seq(S), NEW k \in DOMAIN dir
    PROVE  /\ RemoveAt(dir, k) \in Seq(S)
           /\ Len(RemoveAt(dir, k)) = Len(dir) - 1
           /\ \A i \in 1..(Len(dir) - 1) :
                  RemoveAt(dir, k)[i] = dir[IF i < k THEN i ELSE i + 1]
<1>. DEFINE front == SubSeq(dir, 1, k - 1)
            back == SubSeq(dir, k + 1, Len(dir))
<1>1. Len(dir) \in Nat /\ k \in 1..Len(dir) /\ \A i \in 1..Len(dir) : dir[i] \in S
  OBVIOUS
<1>2. /\ front \in Seq(S) /\ Len(front) = k - 1
      /\ \A i \in 1..(k - 1) : front[i] = dir[i]
  BY <1>1
<1>3. /\ back \in Seq(S) /\ Len(back) = Len(dir) - k
      /\ \A i \in 1..(Len(dir) - k) : back[i] = dir[k + i]
  BY <1>1
<1>. HIDE DEF front, back
<1>4. /\ front \o back \in Seq(S) /\ Len(front \o back) = Len(dir) - 1
      /\ \A i \in 1..(Len(dir) - 1) :
             (front \o back)[i] = IF i <= k - 1 THEN front[i] ELSE back[i - (k - 1)]
  BY <1>1, <1>2, <1>3
<1>5. ASSUME NEW i \in 1..(Len(dir) - 1)
      PROVE  (front \o back)[i] = dir[IF i < k THEN i ELSE i + 1]
  <2>1. CASE i < k
    BY <1>1, <1>2, <1>4, <2>1
  <2>2. CASE ~(i < k)
    <3>1. (front \o back)[i] = back[i - (k - 1)] /\ i - (k - 1) \in 1..(Len(dir) - k)
      BY <1>1, <1>4, <2>2
    <3>2. k + (i - (k - 1)) = i + 1
      BY <1>1
    <3>. QED  BY <1>3, <2>2, <3>1, <3>2
  <2>. QED  BY <2>1, <2>2
<1>. QED  BY <1>4, <1>5 DEF RemoveAt, front, back

\* What is left of a directory is in order, and every cylinder left was in it.
LEMMA LeftInOrder ==
    ASSUME NEW n \in Nat, NEW dir, Ordered(dir, n), NEW k \in DOMAIN dir
    PROVE  /\ Ordered(RemoveAt(dir, k), n)
           /\ Len(RemoveAt(dir, k)) = Len(dir) - 1
           /\ \A i \in DOMAIN RemoveAt(dir, k) : \E j \in DOMAIN dir : RemoveAt(dir, k)[i] = dir[j]
<1>1. dir \in Seq(Cylinders) /\ DOMAIN dir = 1..Len(dir) /\ Len(dir) \in Nat /\ k \in 1..Len(dir)
  BY DEF Ordered
<1>. DEFINE at(i) == IF i < k THEN i ELSE i + 1
<1>2. PICK left : left = RemoveAt(dir, k)
  OBVIOUS
<1>3. /\ left \in Seq(Cylinders) /\ Len(left) = Len(dir) - 1
      /\ \A i \in 1..(Len(dir) - 1) : left[i] = dir[at(i)]
  BY <1>1, <1>2, Removed
<1>4. DOMAIN left = 1..(Len(dir) - 1)
  BY <1>3
<1>5. /\ \A i \in DOMAIN left : at(i) \in DOMAIN dir
      /\ \A i, j \in DOMAIN left : i < j => at(i) < at(j)
  BY <1>1, <1>4
<1>. HIDE DEF at
<1>6. Ordered(left, n)
  BY <1>1, <1>3, <1>4, <1>5 DEF Ordered
<1>. QED  BY <1>2, <1>3, <1>4, <1>5, <1>6

\* What was in order stays in order when later cylinders are made.
LEMMA StillOrdered ==
    ASSUME NEW n \in Nat, NEW dir, Ordered(dir, n)
    PROVE  Ordered(dir, n + 1)
<1>1. \A i \in DOMAIN dir : dir[i].id \in Nat
  BY Identified
<1>. QED  BY <1>1 DEF Ordered

\* No two cylinders of a directory in order have the same identity.
LEMMA AgreesWithItself ==
    ASSUME NEW n \in Nat, NEW dir, Ordered(dir, n)
    PROVE  Agree(dir, dir)
<1>1. \A i \in DOMAIN dir : dir[i].id \in Nat /\ i \in Nat
  BY Identified
<1>2. ASSUME NEW i \in DOMAIN dir, NEW j \in DOMAIN dir, dir[i].id = dir[j].id PROVE i = j
  <2>1. ~(i < j) /\ ~(j < i)
    BY <1>1, <1>2 DEF Ordered
  <2>. QED  BY <1>1, <2>1
<1>. QED  BY <1>2 DEF Agree

\* Breaks are positions of the directory; a linked cylinder at its end adds none.
LEMMA NoNewBreak ==
    ASSUME NEW n \in Nat, NEW dir, Ordered(dir, n), NEW cyl \in Cylinders,
           cyl.id = n + 1, cyl.hash \in {NoHash, n + 1},
           cyl.prev = IF dir = <<>> THEN GENESIS ELSE Last(dir).hash
    PROVE  Breaks(Append(dir, cyl)) \subseteq Breaks(dir)
<1>. DEFINE new == Append(dir, cyl)
            last == Len(dir) + 1
<1>1. /\ DOMAIN new = DOMAIN dir \cup {last}
      /\ new[last] = cyl
      /\ \A i \in DOMAIN dir : new[i] = dir[i]
  BY Added
<1>2. DOMAIN dir = 1..Len(dir) /\ Len(dir) \in Nat /\ dir \in Seq(Cylinders)
  BY DEF Ordered
<1>. HIDE DEF new
<1>3. ASSUME NEW i \in DOMAIN new, i > 1, new[i].prev # GENESIS,
             new[i - 1].hash = NoHash \/ new[i].prev # new[i - 1].hash
      PROVE  i \in DOMAIN dir /\ (dir[i - 1].hash = NoHash \/ dir[i].prev # dir[i - 1].hash)
  <2>1. CASE i = last
    <3>1. dir # <<>> /\ i - 1 = Len(dir) /\ i - 1 \in DOMAIN dir
      BY <1>2, <1>3, <2>1
    <3>2. cyl.prev = dir[i - 1].hash /\ new[i - 1] = dir[i - 1] /\ new[i] = cyl
      BY <1>1, <2>1, <3>1 DEF Last
    <3>. QED  BY <1>3, <3>2 DEF GENESIS, NoHash
  <2>2. CASE i \in DOMAIN dir
    <3>1. i - 1 \in DOMAIN dir
      BY <1>2, <1>3, <2>2
    <3>. QED  BY <1>1, <1>3, <2>2, <3>1
  <2>. QED  BY <1>1, <2>1, <2>2
<1>4. ASSUME NEW i \in Breaks(new) PROVE i \in Breaks(dir)
  <2>1. /\ i \in DOMAIN new /\ i > 1 /\ new[i].prev # GENESIS
        /\ new[i - 1].hash = NoHash \/ new[i].prev # new[i - 1].hash
    BY <1>4 DEF Breaks
  <2>2. i \in DOMAIN dir /\ (dir[i - 1].hash = NoHash \/ dir[i].prev # dir[i - 1].hash)
    BY <1>3, <2>1
  <2>3. dir[i].prev = new[i].prev
    BY <1>1, <2>2
  <2>. QED  BY <2>1, <2>2, <2>3 DEF Breaks
<1>. QED  BY <1>4 DEF new

\* A count of cylinders is 0 exactly where there is none.
LEMMA Uncounted ==
    ASSUME NEW n \in Nat, NEW dir, Ordered(dir, n)
    PROVE  /\ Freeform(dir) = 0 <=> \A i \in DOMAIN dir : dir[i].encoded
           /\ Tracebacks(dir) = 0 <=> \A i \in DOMAIN dir : ~dir[i].traceback
           /\ Len(dir) \in Nat /\ Freeform(dir) \in Nat /\ Tracebacks(dir) \in Nat
           /\ Breaks(dir) \subseteq 1..Len(dir)
<1>1. DOMAIN dir = 1..Len(dir) /\ Len(dir) \in Nat
  BY DEF Ordered
<1>2. IsFiniteSet(DOMAIN dir)
  BY <1>1, FS_Interval
<1>3. /\ IsFiniteSet({i \in DOMAIN dir : ~dir[i].encoded})
      /\ IsFiniteSet({i \in DOMAIN dir : dir[i].traceback})
  <2>1. /\ {i \in DOMAIN dir : ~dir[i].encoded} \subseteq DOMAIN dir
        /\ {i \in DOMAIN dir : dir[i].traceback} \subseteq DOMAIN dir
    OBVIOUS
  <2>. QED  BY <1>2, <2>1, FS_Subset
<1>4. /\ Freeform(dir) \in Nat /\ (Freeform(dir) = 0 <=> {i \in DOMAIN dir : ~dir[i].encoded} = {})
      /\ Tracebacks(dir) \in Nat /\ (Tracebacks(dir) = 0 <=> {i \in DOMAIN dir : dir[i].traceback} = {})
  BY <1>3, FS_CardinalityType, FS_EmptySet DEF Freeform, Tracebacks
<1>5. Breaks(dir) \subseteq 1..Len(dir)
  BY <1>1 DEF Breaks
<1>. QED  BY <1>1, <1>4, <1>5
-----------------------------------------------------------------------------
(* Steps *)

LEMMA Bounded ==
    ASSUME Inv
    PROVE  /\ born \in Nat /\ MaxIds \in Nat /\ MaxCylinders \in Nat /\ EveryN \in Nat \ {0}
           /\ sealCounter \in Nat /\ unnoticed \in Nat /\ Len(chain) \in Nat
           /\ Ordered(chain, born) /\ Ordered(booted, born) /\ Ordered(passed, born)
           /\ chain \in Seq(Cylinders) /\ booted \in Seq(Cylinders) /\ passed \in Seq(Cylinders)
<1>1. born \in Nat /\ sealCounter \in Nat
  BY BoundsAssumption DEF Inv, TypeOK
<1>. QED  BY <1>1, BoundsAssumption, CadenceAssumption DEF Inv, TypeOK, DirectoryInv

\* What seal.sh links the next cylinder to.
LEMMA TipKnown == Inv => Tip \in 0..MaxIds
<1>. SUFFICES ASSUME Inv PROVE Tip \in 0..MaxIds
  OBVIOUS
<1>1. CASE chain = <<>>
  BY <1>1, Bounded DEF Tip, GENESIS
<1>2. CASE chain # <<>>
  <2>1. Last(chain) \in Cylinders
    BY <1>2, Bounded DEF Last
  <2>. QED  BY <1>2, <2>1 DEF Tip, Cylinders
<1>. QED  BY <1>1, <1>2

\* No directory has been looked at yet.
LEMMA InitStep == Init => Inv
<1>. SUFFICES ASSUME Init PROVE Inv
  OBVIOUS
<1>1. /\ chain \in Seq(Cylinders) /\ Len(chain) \in Nat /\ Len(chain) <= MaxIds /\ born = Len(chain)
      /\ DOMAIN chain = 1..Len(chain)
      /\ \A i \in DOMAIN chain : chain[i].id = i /\ chain[i].hash \in {NoHash, i}
  BY LegacyAssumption DEF Init
<1>2. Ordered(chain, born)
  BY <1>1 DEF Ordered
<1>3. Ordered(<<>>, born)
  BY <1>1 DEF Ordered
<1>4. /\ Freeform(<<>>) = 0 /\ Tracebacks(<<>>) = 0 /\ Breaks(<<>>) = {} /\ Len(<<>>) = 0
  BY <1>1, <1>3, Uncounted DEF Breaks
<1>5. baseline = [total |-> 0, freeform |-> 0, tracebacks |-> 0, breaks |-> {}]
  BY <1>4 DEF Init, Snapshot
<1>6. booted = <<>> /\ passed = <<>> /\ sealCounter = 0 /\ unnoticed = 0 /\ state = "down" /\ raised = FALSE
  BY DEF Init
<1>7. 0 % EveryN \in 0..(EveryN - 1) /\ EveryN \in Nat
  BY CadenceAssumption, Division
<1>8. TypeOK
  <2>1. baseline \in [total : 0..MaxIds, freeform : {0}, tracebacks : {0}, breaks : SUBSET (1..MaxIds)]
    <3>1. 0 \in 0..MaxIds
      BY BoundsAssumption
    <3>. QED  BY <1>5, <3>1
  <2>2. chain \in Seq(Cylinders) /\ booted \in Seq(Cylinders) /\ passed \in Seq(Cylinders)
    BY <1>1, <1>3, <1>6 DEF Ordered
  <2>3. /\ born \in 0..MaxIds /\ sealCounter \in 0..MaxIds /\ unnoticed \in Nat
        /\ damage \in 0..MaxDamage /\ boots \in 0..MaxBoots /\ verifies \in 0..MaxVerifies
    BY <1>1, BoundsAssumption DEF Init
  <2>. QED  BY <2>1, <2>2, <2>3 DEF Init, TypeOK
<1>9. DirectoryInv
  BY <1>2, <1>3, <1>6 DEF DirectoryInv, Agree
<1>10. CountInv /\ BreaksInv /\ CadenceInv /\ CleanInv /\ NoFalseAlarm
  BY <1>1, <1>4, <1>5, <1>6, <1>7 DEF CountInv, BreaksInv, CadenceInv, CleanInv, NoFalseAlarm
<1>. QED  BY <1>8, <1>9, <1>10 DEF Inv

\* The directory passed: the new baseline is what it holds.
LEMMA BootStep == Inv /\ Boot => Inv'
<1>. SUFFICES ASSUME Inv, Boot PROVE Inv'
  OBVIOUS
<1>1. /\ state = "down" /\ chain' = chain /\ born' = born /\ sealCounter' = 0 /\ raised' = FALSE
      /\ clean' = TRUE /\ unnoticed' = 0 /\ boots' = boots + 1 /\ boots < MaxBoots
      /\ damage' = damage /\ verifies' = verifies
  BY DEF Boot
<1>2. 0 % EveryN \in 0..(EveryN - 1) /\ EveryN \in Nat
  BY CadenceAssumption, Division
<1>3. boots' \in 0..MaxBoots /\ sealCounter' \in 0..MaxIds /\ 0 \in Nat
  BY <1>1, BoundsAssumption DEF Inv, TypeOK
<1>4. CASE /\ Len(chain) <= MaxCylinders /\ Freeform(chain) = 0 /\ Tracebacks(chain) = 0
           /\ state' = "up" /\ baseline' = Snapshot(chain) /\ booted' = chain /\ passed' = chain
  <2>1. /\ \A i \in DOMAIN chain : chain[i].encoded /\ ~chain[i].traceback
        /\ Breaks(chain) \subseteq 1..Len(chain)
    BY <1>4, Bounded, Uncounted
  <2>2. Len(chain) \in 0..MaxIds /\ 1..Len(chain) \subseteq 1..MaxIds
    BY Bounded DEF Inv, CountInv, TypeOK
  <2>3. /\ baseline'.total = Len(chain) /\ baseline'.breaks = Breaks(chain)
        /\ baseline' = [total |-> Len(chain), freeform |-> 0, tracebacks |-> 0, breaks |-> Breaks(chain)]
    BY <1>4 DEF Snapshot
  <2>4. TypeOK'
    <3>1. baseline' \in [total : 0..MaxIds, freeform : {0}, tracebacks : {0}, breaks : SUBSET (1..MaxIds)]
      BY <2>1, <2>2, <2>3
    <3>. QED  BY <1>1, <1>3, <1>4, <3>1 DEF Inv, TypeOK
  <2>5. DirectoryInv'
    BY <1>1, <1>4, Bounded, AgreesWithItself DEF DirectoryInv
  <2>6. CountInv' /\ CadenceInv' /\ NoFalseAlarm'
    BY <1>1, <1>2, <1>4, Bounded DEF Inv, CountInv, CadenceInv, NoFalseAlarm
  <2>7. BreaksInv' /\ CleanInv'
    BY <1>1, <1>4, <2>1, <2>3, Bounded DEF BreaksInv, CleanInv
  <2>. QED  BY <2>4, <2>5, <2>6, <2>7 DEF Inv
<1>5. CASE UNCHANGED <<state, baseline, booted, passed>>
  <2>1. TypeOK'
    BY <1>1, <1>3, <1>5 DEF Inv, TypeOK
  <2>2. DirectoryInv' /\ BreaksInv'
    BY <1>1, <1>5 DEF Inv, DirectoryInv, BreaksInv
  <2>3. CountInv' /\ CadenceInv' /\ NoFalseAlarm' /\ CleanInv'
    BY <1>1, <1>2, <1>5, Bounded DEF Inv, CountInv, CadenceInv, NoFalseAlarm, CleanInv
  <2>. QED  BY <2>1, <2>2, <2>3 DEF Inv
<1>. QED  BY <1>4, <1>5 DEF Boot

\* A cylinder is added at the end of the directory.
LEMMA AddStep ==
    ASSUME Inv, NEW cyl \in Cylinders, cyl.id = born + 1, cyl.hash \in {NoHash, born + 1},
           born < MaxIds, chain' = Append(chain, cyl), born' = born + 1,
           booted' = booted, passed' = passed
    PROVE  /\ DirectoryInv' /\ chain' \in Seq(Cylinders) /\ Len(chain') = Len(chain) + 1
           /\ born' \in 0..MaxIds /\ Len(chain') <= born'
           /\ \A i \in DOMAIN chain' : 
                  (i \in DOMAIN chain /\ chain'[i] = chain[i]) \/ chain'[i] = cyl
<1>1. /\ Ordered(chain', born') /\ Len(chain') = Len(chain) + 1
      /\ DOMAIN chain' = DOMAIN chain \cup {Len(chain) + 1}
      /\ chain'[Len(chain) + 1] = cyl
      /\ \A i \in DOMAIN chain : chain'[i] = chain[i]
  BY Bounded, Added
<1>2. Ordered(booted', born') /\ Ordered(passed', born')
  BY Bounded, StillOrdered
<1>3. ASSUME NEW i \in DOMAIN booted, NEW j \in DOMAIN chain', booted[i].id = chain'[j].id
      PROVE  booted[i] = chain'[j]
  <2>1. CASE j \in DOMAIN chain
    BY <1>1, <1>3, <2>1 DEF Inv, DirectoryInv, Agree
  <2>2. CASE chain'[j] = cyl
    <3>1. booted[i].id \in Nat /\ booted[i].id <= born
      BY Bounded, Identified DEF Ordered
    <3>. QED  BY <1>3, <2>2, <3>1, Bounded
  <2>. QED  BY <1>1, <2>1, <2>2
<1>4. Agree(booted', chain') /\ Agree(booted', passed')
  BY <1>3 DEF Agree, Inv, DirectoryInv
<1>5. DirectoryInv'
  BY <1>1, <1>2, <1>4 DEF DirectoryInv
<1>6. born' \in 0..MaxIds /\ Len(chain') <= born' /\ chain' \in Seq(Cylinders)
  BY <1>1, Bounded DEF Inv, CountInv, Ordered
<1>. QED  BY <1>1, <1>5, <1>6

\* seal.sh adds a cylinder that breaks nothing and is counted by no count.
LEMMA LinkStep ==
    ASSUME Inv, AppendLinked, booted' = booted, passed' = passed
    PROVE  /\ DirectoryInv' /\ chain' \in Seq(Cylinders) /\ Len(chain') = Len(chain) + 1
           /\ born' = born + 1 /\ born' \in 0..MaxIds /\ Len(chain') <= born'
           /\ (\A i \in DOMAIN chain : chain[i].encoded /\ ~chain[i].traceback)
                 => \A i \in DOMAIN chain' : chain'[i].encoded /\ ~chain'[i].traceback
           /\ Breaks(chain') \subseteq Breaks(chain)
<1>1. PICK cyl : cyl = Cylinder(Tip)
  OBVIOUS
<1>2. born < MaxIds /\ chain' = Append(chain, cyl) /\ born' = born + 1
  BY <1>1 DEF AppendLinked
<1>3. Tip \in 0..MaxIds
  BY TipKnown
<1>4. /\ cyl \in Cylinders /\ cyl.id = born + 1 /\ cyl.hash = born + 1 /\ cyl.prev = Tip
      /\ cyl.encoded /\ ~cyl.traceback
  <2>1. born + 1 \in 1..MaxIds /\ born + 1 \in 0..MaxIds
    BY <1>2, Bounded
  <2>. QED  BY <1>1, <1>3, <2>1 DEF Cylinder, Cylinders
<1>5. Breaks(chain') \subseteq Breaks(chain)
  BY <1>2, <1>4, Bounded, NoNewBreak DEF Tip
<1>. QED  BY <1>2, <1>4, <1>5, AddStep
\* A seal, by this process or another: clean stays clean, and the hook still to come
\* is paid for by the new cylinder.
LEMMA SealStep == Inv /\ (Seal \/ SealElsewhere) => Inv'
<1>. SUFFICES ASSUME Inv, Seal \/ SealElsewhere PROVE Inv'
  OBVIOUS
<1>1. /\ AppendLinked
      /\ UNCHANGED <<baseline, sealCounter, raised, booted, clean, unnoticed, passed, damage, boots, verifies>>
      /\ (state = "up" /\ state' = "sealed") \/ state' = state
  BY DEF Seal, SealElsewhere, sentinelVars
<1>2. /\ DirectoryInv' /\ chain' \in Seq(Cylinders) /\ Len(chain') = Len(chain) + 1
      /\ born' = born + 1 /\ born' \in 0..MaxIds /\ Len(chain') <= born'
      /\ (\A i \in DOMAIN chain : chain[i].encoded /\ ~chain[i].traceback)
            => \A i \in DOMAIN chain' : chain'[i].encoded /\ ~chain'[i].traceback
      /\ Breaks(chain') \subseteq Breaks(chain)
  BY <1>1, LinkStep
<1>3. TypeOK'
  BY <1>1, <1>2 DEF Inv, TypeOK
<1>4. CountInv'
  BY <1>1, <1>2, Bounded DEF Inv, CountInv
<1>5. BreaksInv' /\ CadenceInv'
  BY <1>1 DEF Inv, BreaksInv, CadenceInv
<1>6. CleanInv'
  <2>1. baseline.total \in Nat
    BY DEF Inv, TypeOK
  <2>. SUFFICES ASSUME state' # "down", clean'
                PROVE  /\ \A i \in DOMAIN chain' : chain'[i].encoded /\ ~chain'[i].traceback
                       /\ baseline'.total <= Len(chain')
                       /\ Breaks(chain') \subseteq baseline'.breaks
    BY DEF CleanInv
  <2>2. /\ \A i \in DOMAIN chain : chain[i].encoded /\ ~chain[i].traceback
        /\ baseline.total <= Len(chain)
        /\ Breaks(chain) \subseteq baseline.breaks
    BY <1>1 DEF Inv, CleanInv
  <2>. QED  BY <1>1, <1>2, <2>1, <2>2, Bounded
<1>7. NoFalseAlarm'
  BY <1>1, <1>2, Bounded DEF Inv, NoFalseAlarm
<1>. QED  BY <1>2, <1>3, <1>4, <1>5, <1>6, <1>7 DEF Inv

\* A verification, whatever it finds.
LEMMA VerifyKeeps ==
    ASSUME Inv, Verify, state # "down", UNCHANGED <<chain, baseline, born, booted, clean>>
    PROVE  /\ raised' \in BOOLEAN /\ passed' \in Seq(Cylinders) /\ unnoticed' = 0
           /\ DirectoryInv' /\ BreaksInv' /\ NoFalseAlarm'
<1>1. /\ raised' = (raised \/ Degraded(chain)) /\ unnoticed' = 0
      /\ passed' = IF Degraded(chain) THEN passed ELSE chain
  BY DEF Verify
<1>2. passed' = passed \/ (passed' = chain /\ Breaks(chain) \subseteq baseline.breaks)
  BY <1>1 DEF Degraded
<1>3. DirectoryInv' /\ passed' \in Seq(Cylinders)
  BY <1>2, Bounded DEF Inv, DirectoryInv
<1>4. BreaksInv'
  BY <1>2 DEF Inv, BreaksInv
<1>5. ASSUME clean, Len(chain) <= MaxCylinders, Degraded(chain) PROVE FALSE
  <2>1. /\ \A i \in DOMAIN chain : chain[i].encoded /\ ~chain[i].traceback
        /\ baseline.total <= Len(chain)
        /\ Breaks(chain) \subseteq baseline.breaks
    BY <1>5 DEF Inv, CleanInv
  <2>2. Freeform(chain) = 0 /\ Tracebacks(chain) = 0
    BY <2>1, Bounded, Uncounted
  <2>3. baseline.freeform = 0 /\ baseline.tracebacks = 0 /\ baseline.total \in Nat
    BY DEF Inv, TypeOK
  <2>. QED  BY <1>5, <2>1, <2>2, <2>3, Bounded DEF Degraded
<1>6. NoFalseAlarm'
  BY <1>1, <1>5 DEF Inv, NoFalseAlarm
<1>. QED  BY <1>1, <1>3, <1>4, <1>6 DEF Inv, TypeOK

\* The hook counts the seal, and verifies when the count is due.
LEMMA HookStep == Inv /\ OnSeal => Inv'
<1>. SUFFICES ASSUME Inv, OnSeal PROVE Inv'
  OBVIOUS
<1>1. /\ state = "sealed" /\ state' = "up" /\ sealCounter' = sealCounter + 1
      /\ UNCHANGED <<chain, baseline, born, booted, clean, damage, boots, verifies>>
  BY DEF OnSeal
<1>2. CountInv' /\ sealCounter' \in 0..MaxIds
  BY <1>1, Bounded DEF Inv, CountInv, TypeOK
<1>3. CleanInv'
  BY <1>1 DEF Inv, CleanInv
<1>4. CASE sealCounter' % EveryN = 0 /\ Verify
  <2>1. /\ raised' \in BOOLEAN /\ passed' \in Seq(Cylinders) /\ unnoticed' = 0
        /\ DirectoryInv' /\ BreaksInv' /\ NoFalseAlarm'
    BY <1>1, <1>4, VerifyKeeps
  <2>2. CadenceInv' /\ TypeOK'
    BY <1>1, <1>2, <1>4, <2>1 DEF Inv, CadenceInv, TypeOK
  <2>. QED  BY <1>2, <1>3, <2>1, <2>2 DEF Inv
<1>5. CASE /\ sealCounter' % EveryN # 0
           /\ unnoticed' = IF Degraded(chain) THEN unnoticed + 1 ELSE 0
           /\ UNCHANGED <<raised, passed>>
  <2>1. unnoticed' \in Nat /\ unnoticed' <= unnoticed + 1
    BY <1>5, Bounded
  <2>2. /\ sealCounter % EveryN \in Nat /\ (sealCounter + 1) % EveryN = (sealCounter % EveryN) + 1
    <3>1. sealCounter % EveryN \in 0..(EveryN - 1) /\ EveryN \in Nat
      BY Bounded, Division
    <3>2. (sealCounter + 1) % EveryN # 0
      BY <1>1, <1>5
    <3>3. (sealCounter + 1) % EveryN = (sealCounter % EveryN) + 1
      BY <3>2, Bounded, Cadence
    <3>. QED  BY <3>1, <3>3
  <2>3. PICK r \in Nat : r = sealCounter % EveryN
    BY <2>2
  <2>4. CadenceInv'
    <3>1. unnoticed <= r /\ sealCounter' % EveryN = r + 1
      BY <1>1, <2>2, <2>3 DEF Inv, CadenceInv
    <3>. QED  BY <2>1, <3>1, Bounded DEF CadenceInv
  <2>5. TypeOK' /\ DirectoryInv' /\ BreaksInv' /\ NoFalseAlarm'
    BY <1>1, <1>2, <1>5, <2>1 DEF Inv, TypeOK, DirectoryInv, BreaksInv, NoFalseAlarm
  <2>. QED  BY <1>2, <1>3, <2>4, <2>5 DEF Inv
<1>. QED  BY <1>4, <1>5 DEF OnSeal

LEMMA DemandStep == Inv /\ VerifyOnDemand => Inv'
<1>. SUFFICES ASSUME Inv, VerifyOnDemand PROVE Inv'
  OBVIOUS
<1>1. /\ state = "up" /\ verifies < MaxVerifies /\ verifies' = verifies + 1 /\ Verify
      /\ UNCHANGED <<chain, baseline, state, sealCounter, born, booted, clean, damage, boots>>
  BY DEF VerifyOnDemand
<1>2. /\ raised' \in BOOLEAN /\ passed' \in Seq(Cylinders) /\ unnoticed' = 0
      /\ DirectoryInv' /\ BreaksInv' /\ NoFalseAlarm'
  BY <1>1, VerifyKeeps
<1>3. verifies' \in 0..MaxVerifies
  BY <1>1, BoundsAssumption DEF Inv, TypeOK
<1>4. sealCounter % EveryN \in 0..(EveryN - 1) /\ EveryN \in Nat
  BY Bounded, Division
<1>5. CadenceInv'
  BY <1>1, <1>2, <1>4 DEF CadenceInv
<1>6. TypeOK' /\ CountInv' /\ CleanInv'
  BY <1>1, <1>2, <1>3 DEF Inv, TypeOK, CountInv, CleanInv
<1>. QED  BY <1>2, <1>5, <1>6 DEF Inv

\* A cylinder from elsewhere, or a deletion: the sentinel learns nothing of it, and
\* the directory is no longer clean.
LEMMA DamageStep == Inv /\ Damage => Inv'
<1>. SUFFICES ASSUME Inv, Damage PROVE Inv'
  OBVIOUS
<1>1. /\ damage < MaxDamage /\ damage' = damage + 1 /\ clean' = FALSE
      /\ AppendForeign \/ Disappear
      /\ UNCHANGED <<baseline, state, sealCounter, raised, booted, unnoticed, passed, boots, verifies>>
  BY DEF Damage, sentinelVars
<1>2. damage' \in 0..MaxDamage
  BY <1>1, BoundsAssumption DEF Inv, TypeOK
<1>3. /\ DirectoryInv' /\ chain' \in Seq(Cylinders) /\ born' \in 0..MaxIds /\ Len(chain') <= born'
      /\ born' >= born
  <2>1. CASE AppendForeign
    <3>1. /\ born < MaxIds /\ born' = born + 1
          /\ \E cyl \in {Cylinder(prev) : prev \in {GENESIS} \cup 1..born}
                    \cup {[Cylinder(Tip) EXCEPT !.encoded = FALSE],
                          [Cylinder(Tip) EXCEPT !.hash = NoHash],
                          [Cylinder(Tip) EXCEPT !.traceback = TRUE]} :
                 chain' = Append(chain, cyl)
      BY <2>1 DEF AppendForeign
    <3>2. PICK cyl \in {Cylinder(prev) : prev \in {GENESIS} \cup 1..born}
                    \cup {[Cylinder(Tip) EXCEPT !.encoded = FALSE],
                          [Cylinder(Tip) EXCEPT !.hash = NoHash],
                          [Cylinder(Tip) EXCEPT !.traceback = TRUE]} :
                 chain' = Append(chain, cyl)
      BY <3>1
    <3>3. Tip \in 0..MaxIds
      BY Bounded, TipKnown
    <3>4. cyl \in Cylinders /\ cyl.id = born + 1 /\ cyl.hash \in {NoHash, born + 1}
      <4>1. /\ born + 1 \in 1..MaxIds /\ born + 1 \in 0..MaxIds /\ NoHash \in 0..MaxIds
            /\ {GENESIS} \cup 1..born \subseteq 0..MaxIds
        BY <3>1, Bounded DEF NoHash, GENESIS
      <4>2. ASSUME NEW prev \in 0..MaxIds
            PROVE  /\ Cylinder(prev) \in Cylinders
                   /\ Cylinder(prev).id = born + 1 /\ Cylinder(prev).hash = born + 1
        BY <4>1 DEF Cylinder, Cylinders
      <4>3. CASE \E prev \in {GENESIS} \cup 1..born : cyl = Cylinder(prev)
        BY <4>1, <4>2, <4>3
      <4>4. CASE cyl = [Cylinder(Tip) EXCEPT !.encoded = FALSE]
        BY <3>3, <4>1, <4>4 DEF Cylinder, Cylinders
      <4>5. CASE cyl = [Cylinder(Tip) EXCEPT !.hash = NoHash]
        BY <3>3, <4>1, <4>5 DEF Cylinder, Cylinders
      <4>6. CASE cyl = [Cylinder(Tip) EXCEPT !.traceback = TRUE]
        BY <3>3, <4>1, <4>6 DEF Cylinder, Cylinders
      <4>. QED  BY <3>2, <4>3, <4>4, <4>5, <4>6
    <3>. QED  BY <1>1, <3>1, <3>2, <3>4, AddStep, Bounded
  <2>2. CASE Disappear
    <3>1. PICK k \in DOMAIN chain : chain' = RemoveAt(chain, k) /\ born' = born
      BY <2>2 DEF Disappear
    <3>2. /\ Ordered(chain', born') /\ Len(chain') = Len(chain) - 1
          /\ \A i \in DOMAIN chain' : \E j \in DOMAIN chain : chain'[i] = chain[j]
      BY <3>1, Bounded, LeftInOrder
    <3>3. Agree(booted', chain')
      BY <1>1, <3>2 DEF Agree, Inv, DirectoryInv
    <3>4. DirectoryInv'
      BY <1>1, <3>1, <3>2, <3>3 DEF Inv, DirectoryInv
    <3>5. Len(chain') <= born' /\ born' >= born
      BY <3>1, <3>2, Bounded DEF Inv, CountInv
    <3>. QED  BY <3>1, <3>2, <3>4, <3>5 DEF Inv, TypeOK, Ordered
  <2>. QED  BY <1>1, <2>1, <2>2
<1>4. TypeOK'
  BY <1>1, <1>2, <1>3 DEF Inv, TypeOK
<1>5. CountInv'
  BY <1>1, <1>3, Bounded DEF Inv, CountInv
<1>6. BreaksInv' /\ CadenceInv' /\ CleanInv' /\ NoFalseAlarm'
  BY <1>1 DEF Inv, BreaksInv, CadenceInv, CleanInv, NoFalseAlarm
<1>. QED  BY <1>3, <1>4, <1>5, <1>6 DEF Inv

LEMMA Stepwise == Inv /\ [Next]_vars => Inv'
<1>. SUFFICES ASSUME Inv, [Next]_vars PROVE Inv'
  OBVIOUS
<1>1. CASE Stop
  <2>1. state' = "down" /\ UNCHANGED <<chain, baseline, sealCounter, raised, historyVars>>
    BY <1>1 DEF Stop
  <2>2. CountInv'
    BY <2>1, Bounded DEF Inv, CountInv, historyVars
  <2>3. CleanInv'
    BY <2>1 DEF CleanInv
  <2>. QED  BY <2>1, <2>2, <2>3 DEF Inv, TypeOK, DirectoryInv, BreaksInv, CadenceInv, NoFalseAlarm, historyVars
<1>2. CASE UNCHANGED vars
  BY <1>2 DEF Inv, TypeOK, DirectoryInv, CountInv, BreaksInv, CadenceInv, CleanInv, NoFalseAlarm,
              vars, sentinelVars, historyVars
<1>. QED  BY <1>1, <1>2, BootStep, SealStep, HookStep, DemandStep, DamageStep DEF Next, Idle

LEMMA Invariance == Spec => []Inv
<1>. QED  BY InitStep, Stepwise, PTL DEF Spec

-----------------------------------------------------------------------------
\* The directory, the baseline taken at boot and the sentinel's memory are well
\* formed: there is no baseline with a freeform or traceback cylinder in it.
THEOREM TypeCorrect == Spec => []TypeOK
<1>1. Inv => TypeOK
  BY DEF Inv
<1>. QED  BY <1>1, Invariance, PTL

\* verify() never raises over a directory that grew since boot by clean seals only,
\* whoever made them and whatever breaks it was booted with.
THEOREM CleanSealsRaiseNothing == Spec => []NoFalseAlarm
<1>1. Inv => NoFalseAlarm
  BY DEF Inv
<1>. QED  BY <1>1, Invariance, PTL

\* on_seal verifies often enough: fewer than EveryN hooks in a row return over a
\* directory that verify() would reject.
THEOREM DegradationIsNoticed == Spec => []NoticedInTime
<1>1. Inv => NoticedInTime
  <2>. SUFFICES ASSUME Inv PROVE NoticedInTime
    OBVIOUS
  <2>1. sealCounter % EveryN \in 0..(EveryN - 1)
    BY Bounded, Division
  <2>. QED  BY <2>1, Bounded DEF Inv, CadenceInv, NoticedInTime
<1>. QED  BY <1>1, Invariance, PTL
\* A directory whose cylinders all name their predecessor has no break, so none is in
\* the baseline and the directory that passed has none.
LEMMA PassedUnbroken ==
    ASSUME Inv, \A i \in DOMAIN booted : Linked(booted, i)
    PROVE  Breaks(passed) = {}
<1>1. Breaks(booted) = {}
  BY DEF Breaks, Linked, GENESIS, NoHash
<1>. QED  BY <1>1 DEF Inv, BreaksInv

\* The predecessor at boot of a cylinder that passed, and that is not the first of
\* the directory that passed, passed too.
LEMMA PredecessorPassed ==
    ASSUME Inv, \A i \in DOMAIN booted : Linked(booted, i),
           NEW i \in DOMAIN booted, NEW m \in DOMAIN booted, i < m,
           booted[i] \in ToSet(passed), booted[m] \in ToSet(passed)
    PROVE  booted[m - 1] \in ToSet(passed)
<1>1. PICK p \in DOMAIN passed, q \in DOMAIN passed : passed[p] = booted[i] /\ passed[q] = booted[m]
  BY DEF ToSet
<1>2. /\ DOMAIN passed = 1..Len(passed) /\ DOMAIN booted = 1..Len(booted)
      /\ Len(passed) \in Nat /\ Len(booted) \in Nat
      /\ passed[p].id \in Nat /\ passed[q].id \in Nat
  BY Bounded, Identified
<1>3. p < q
  <2>1. passed[p].id < passed[q].id
    BY <1>1, Bounded DEF Ordered
  <2>2. q < p => passed[q].id < passed[p].id
    BY Bounded DEF Ordered
  <2>3. p # q
    BY <1>2, <2>1
  <2>. QED  BY <1>2, <2>1, <2>2, <2>3
<1>4. q > 1 /\ q - 1 \in DOMAIN passed /\ m > 1 /\ m - 1 \in DOMAIN booted
  BY <1>2, <1>3
<1>5. passed[q].prev # GENESIS /\ passed[q].prev = booted[m - 1].hash
  BY <1>1, <1>4 DEF Linked
<1>6. passed[q - 1].hash = booted[m - 1].hash /\ booted[m - 1].hash # NoHash
  <2>1. q \notin Breaks(passed)
    BY PassedUnbroken
  <2>. QED  BY <1>4, <1>5, <2>1 DEF Breaks, GENESIS, NoHash
<1>7. passed[q - 1].id = booted[m - 1].id
  BY <1>4, <1>6, Bounded DEF Ordered
<1>8. booted[m - 1] = passed[q - 1]
  BY <1>4, <1>7 DEF Agree, Inv, DirectoryInv
<1>. QED  BY <1>4, <1>8 DEF ToSet

\* What a strictly linked directory held at boot between two cylinders of a directory
\* that passed later is still between them: nothing is cut out unseen.
THEOREM NothingIsCutOut == Spec => []InteriorSurvives
<1>1. Inv => InteriorSurvives
  <2>. SUFFICES ASSUME Inv, \A n \in DOMAIN booted : Linked(booted, n),
                       NEW i \in DOMAIN booted, NEW j \in DOMAIN booted,
                       {booted[i], booted[j]} \subseteq ToSet(passed),
                       NEW k \in i..j, booted[k] \notin ToSet(passed)
                PROVE  FALSE
    BY DEF InteriorSurvives
  <2>1. DOMAIN booted = 1..Len(booted) /\ Len(booted) \in Nat
    BY Bounded
  <2>. DEFINE gone == {n \in i..j : booted[n] \notin ToSet(passed)}
  <2>2. gone \subseteq 0..Len(booted) /\ gone # {} /\ gone \subseteq i..j
    BY <2>1
  <2>3. PICK m \in gone : \A n \in gone : n <= m
    <3>. HIDE DEF gone
    <3>. QED  BY <2>1, <2>2, Greatest
  <2>4. m \in i..j /\ m # j /\ booted[m] \notin ToSet(passed)
    OBVIOUS
  <2>5. m + 1 \in i..j /\ i < m + 1 /\ m + 1 \in DOMAIN booted /\ ~(m + 1 <= m)
    BY <2>1, <2>4
  <2>6. booted[m + 1] \in ToSet(passed)
    BY <2>3, <2>5
  <2>7. booted[(m + 1) - 1] \in ToSet(passed)
    BY <2>5, <2>6, PredecessorPassed
  <2>8. (m + 1) - 1 = m
    BY <2>1, <2>4
  <2>. QED  BY <2>4, <2>7, <2>8
<1>. QED  BY <1>1, Invariance, PTL
=============================================================================
