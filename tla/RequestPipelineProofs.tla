------------------------ MODULE RequestPipelineProofs ------------------------
(***************************************************************************)
(* Proofs about RequestPipeline, for every number of calls and attempts    *)
(* and every vocabulary: its types, what its answers rest on, who reaches  *)
(* a handler, and what one process can be charged for and seal at most.    *)
(***************************************************************************)
EXTENDS RequestPipeline, Integers, TLAPS, FiniteSetTheorems

\* A call at a request: it has an attempt of its own, still open, at a role
\* that is registered.
CallInv ==
    \A c \in Calls : stage[c] # "ready" =>
        /\ mine[c] \in DOMAIN attempts
        /\ attempts[mine[c]].outcome = "open"
        /\ attempts[mine[c]].role \in Roles
        /\ \A d \in Calls : stage[d] # "ready" /\ mine[d] = mine[c] => d = c

-----------------------------------------------------------------------------
(* Types *)

\* The types of what the pipeline adds to the meter.
PipeTypeOK ==
    /\ stage \in [Calls -> Stage]
    /\ mine \in [Calls -> 0..MaxAttempts]
    /\ about \in [Calls -> About]
    /\ attempts \in Seq(Attempt) /\ Len(attempts) <= MaxAttempts
    /\ chain \in Seq(Cylinder)
    /\ receipts \subseteq 1..MaxAttempts

\* What appending does to a sequence.
LEMMA Appended ==
    ASSUME NEW S, NEW s \in Seq(S), NEW x \in S
    PROVE  /\ Append(s, x) \in Seq(S)
           /\ Len(Append(s, x)) = Len(s) + 1
           /\ DOMAIN Append(s, x) = DOMAIN s \cup {Len(s) + 1}
           /\ Len(s) + 1 \notin DOMAIN s
           /\ \A i \in DOMAIN s : Append(s, x)[i] = s[i]
           /\ Append(s, x)[Len(s) + 1] = x
OBVIOUS

\* Another attempt put in the place of one.
LEMMA AttemptReplaced ==
    ASSUME attempts \in Seq(Attempt), NEW a \in DOMAIN attempts, NEW r \in Attempt
    PROVE  /\ [attempts EXCEPT ![a] = r] \in Seq(Attempt)
           /\ Len([attempts EXCEPT ![a] = r]) = Len(attempts)
           /\ DOMAIN [attempts EXCEPT ![a] = r] = DOMAIN attempts
           /\ \A b \in DOMAIN attempts :
                  [attempts EXCEPT ![a] = r][b] = IF b = a THEN r ELSE attempts[b]
OBVIOUS

\* The attempt a call finishes differs from before in its outcome only.
LEMMA OutcomeWritten ==
    ASSUME PipeTypeOK, NEW a \in DOMAIN attempts, NEW o \in Outcomes,
           attempts' = [attempts EXCEPT ![a].outcome = o]
    PROVE  /\ attempts' \in Seq(Attempt) /\ Len(attempts') = Len(attempts)
           /\ DOMAIN attempts' = DOMAIN attempts
           /\ \A b \in DOMAIN attempts : b # a => attempts'[b] = attempts[b]
           /\ attempts'[a].outcome = o
           /\ attempts'[a].role = attempts[a].role
           /\ attempts'[a].class = attempts[a].class
           /\ attempts'[a].ran = attempts[a].ran
           /\ attempts'[a].cylinder = attempts[a].cylinder
<1>1. attempts \in Seq(Attempt) /\ attempts[a] \in Attempt
  BY DEF PipeTypeOK
<1> DEFINE r == [attempts[a] EXCEPT !.outcome = o]
<1>2. /\ r \in Attempt /\ r.outcome = o /\ r.role = attempts[a].role
      /\ r.class = attempts[a].class /\ r.ran = attempts[a].ran
      /\ r.cylinder = attempts[a].cylinder
  BY <1>1 DEF Attempt
<1>3. attempts' = [attempts EXCEPT ![a] = r]
  OBVIOUS
<1> HIDE DEF r
<1> QED
  BY <1>1, <1>2, <1>3, AttemptReplaced

\* The attempt a seal returns for differs from before in its cylinder only.
LEMMA CylinderWritten ==
    ASSUME PipeTypeOK, NEW a \in DOMAIN attempts, NEW i \in Nat,
           attempts' = [attempts EXCEPT ![a].cylinder = i]
    PROVE  /\ attempts' \in Seq(Attempt) /\ Len(attempts') = Len(attempts)
           /\ DOMAIN attempts' = DOMAIN attempts
           /\ \A b \in DOMAIN attempts : b # a => attempts'[b] = attempts[b]
           /\ attempts'[a].cylinder = i
           /\ attempts'[a].outcome = attempts[a].outcome
           /\ attempts'[a].role = attempts[a].role
           /\ attempts'[a].class = attempts[a].class
           /\ attempts'[a].ran = attempts[a].ran
<1>1. attempts \in Seq(Attempt) /\ attempts[a] \in Attempt
  BY DEF PipeTypeOK
<1> DEFINE r == [attempts[a] EXCEPT !.cylinder = i]
<1>2. /\ r \in Attempt /\ r.cylinder = i /\ r.role = attempts[a].role
      /\ r.class = attempts[a].class /\ r.ran = attempts[a].ran
      /\ r.outcome = attempts[a].outcome
  BY <1>1 DEF Attempt
<1>3. attempts' = [attempts EXCEPT ![a] = r]
  OBVIOUS
<1> HIDE DEF r
<1> QED
  BY <1>1, <1>2, <1>3, AttemptReplaced

\* The attempt whose handler is invoked differs from before in that mark only.
LEMMA RunWritten ==
    ASSUME PipeTypeOK, NEW a \in DOMAIN attempts, NEW v \in BOOLEAN,
           attempts' = [attempts EXCEPT ![a].ran = v]
    PROVE  /\ attempts' \in Seq(Attempt) /\ Len(attempts') = Len(attempts)
           /\ DOMAIN attempts' = DOMAIN attempts
           /\ \A b \in DOMAIN attempts : b # a => attempts'[b] = attempts[b]
           /\ attempts'[a].cylinder = attempts[a].cylinder
           /\ attempts'[a].outcome = attempts[a].outcome
           /\ attempts'[a].role = attempts[a].role
           /\ attempts'[a].class = attempts[a].class
<1>1. attempts \in Seq(Attempt) /\ attempts[a] \in Attempt
  BY DEF PipeTypeOK
<1> DEFINE r == [attempts[a] EXCEPT !.ran = v]
<1>2. /\ r \in Attempt /\ r.cylinder = attempts[a].cylinder /\ r.role = attempts[a].role
      /\ r.class = attempts[a].class
      /\ r.outcome = attempts[a].outcome
  BY <1>1 DEF Attempt
<1>3. attempts' = [attempts EXCEPT ![a] = r]
  OBVIOUS
<1> HIDE DEF r
<1> QED
  BY <1>1, <1>2, <1>3, AttemptReplaced

\* What a restart does to the attempts.
LEMMA AttemptsLost ==
    ASSUME PipeTypeOK, Restart
    PROVE  /\ attempts' \in Seq(Attempt) /\ Len(attempts') = Len(attempts)
           /\ DOMAIN attempts' = DOMAIN attempts
           /\ \A a \in DOMAIN attempts :
                  /\ attempts[a].outcome # "open" => attempts'[a] = attempts[a]
                  /\ attempts[a].outcome = "open" => attempts'[a].outcome = "lost"
                  /\ attempts'[a].class = attempts[a].class
                  /\ attempts'[a].role = attempts[a].role
                  /\ attempts'[a].ran = attempts[a].ran
                  /\ attempts'[a].cylinder = attempts[a].cylinder
<1>1. attempts \in Seq(Attempt)
  BY DEF PipeTypeOK
<1> DEFINE f(a) == IF attempts[a].outcome = "open"
                   THEN [attempts[a] EXCEPT !.outcome = "lost"] ELSE attempts[a]
<1>2. ASSUME NEW a \in DOMAIN attempts
      PROVE  /\ f(a) \in Attempt
             /\ attempts[a].outcome # "open" => f(a) = attempts[a]
             /\ attempts[a].outcome = "open" => f(a).outcome = "lost"
             /\ f(a).class = attempts[a].class
             /\ f(a).role = attempts[a].role
             /\ f(a).ran = attempts[a].ran
             /\ f(a).cylinder = attempts[a].cylinder
  <2>1. attempts[a] \in Attempt
    BY <1>1
  <2>2. "lost" \in Outcomes
    BY DEF Outcomes
  <2>3. CASE attempts[a].outcome = "open"
    <3>1. f(a) = [attempts[a] EXCEPT !.outcome = "lost"]
      BY <2>3
    <3> QED
      BY <2>1, <2>2, <2>3, <3>1 DEF Attempt
  <2>4. CASE attempts[a].outcome # "open"
    BY <2>1, <2>4
  <2> QED
    BY <2>3, <2>4
<1>3. attempts' = [a \in DOMAIN attempts |-> f(a)]
  BY DEF Restart
<1> HIDE DEF f
<1>4. \A a \in DOMAIN attempts : attempts'[a] = f(a)
  BY <1>3
<1>5. DOMAIN attempts' = 1..Len(attempts) /\ Len(attempts) \in Nat
  BY <1>1, <1>3
<1>6. attempts' \in Seq(Attempt)
  BY <1>1, <1>2, <1>3
<1> QED
  BY <1>1, <1>2, <1>4, <1>5, <1>6

-----------------------------------------------------------------------------
(* The cost meter inside the pipeline *)

\* A step of the meter keeps the meter's types.
LEMMA MeterTypeStep == Meter!TypeOK /\ [Meter!Next]_(Meter!vars) => Meter!TypeOK'
<1> SUFFICES ASSUME Meter!TypeOK, [Meter!Next]_(Meter!vars)
             PROVE  Meter!TypeOK'
  OBVIOUS
<1> USE DEF Meter!TypeOK, Meter!Phase, Meter!Move, Meter!ledgers, Meter!callVars
<1>1. CASE UNCHANGED Meter!vars
  BY <1>1 DEF Meter!vars
<1>2. CASE Meter!Tick
  <2>1. now' \in 0..MaxTime
    BY <1>2, MeterAssumption DEF Meter!Tick, Meter!TimeAssumption
  <2> QED
    BY <1>2, <2>1 DEF Meter!Tick
<1>3. CASE Meter!Restart
  <2>1. forgotten' \in [Roles -> Seq(Nat)]
    <3>1. \A r \in Roles : forgotten[r] \o roleSpend[r] \in Seq(Nat)
      OBVIOUS
    <3> QED
      BY <1>3, <3>1 DEF Meter!Restart, Meter!EverSpent
  <2>2. restarts' \in 0..MaxRestarts
    BY <1>3, MeterAssumption DEF Meter!Restart, Meter!TimeAssumption
  <2>3. /\ sessionTotal' \in Nat /\ phase' \in [Calls -> Meter!Phase]
        /\ UNCHANGED <<now, callRole, callPrincipal, stamp>>
    BY <1>3 DEF Meter!Restart
  <2>4. roleSpend' \in [Roles -> Seq(Nat)] /\ principalSpend' \in [Principals -> Seq(Nat)]
    BY <1>3 DEF Meter!Restart
  <2> QED
    BY <2>1, <2>2, <2>3, <2>4
<1>4. ASSUME NEW c \in Calls, NEW r \in Roles, NEW p \in Principals, NEW e \in Estimates,
             Meter!CheckRole(c, r, p, e)
      PROVE  Meter!TypeOK'
  BY <1>4 DEF Meter!CheckRole
<1>5. ASSUME NEW c \in Calls, Meter!CheckPrincipal(c) \/ Meter!CheckSession(c)
      PROVE  Meter!TypeOK'
  BY <1>5 DEF Meter!CheckPrincipal, Meter!CheckSession
<1>6. ASSUME NEW c \in Calls, Meter!ReadClock(c)
      PROVE  Meter!TypeOK'
  BY <1>6 DEF Meter!ReadClock
<1>7. ASSUME NEW c \in Calls, Meter!ReconcileRole(c)
      PROVE  Meter!TypeOK'
  <2>1. Append(roleSpend[callRole[c]], stamp[c]) \in Seq(Nat)
    OBVIOUS
  <2> QED
    BY <1>7, <2>1 DEF Meter!ReconcileRole
<1>8. ASSUME NEW c \in Calls, Meter!ReconcilePrincipal(c)
      PROVE  Meter!TypeOK'
  <2>1. Append(principalSpend[callPrincipal[c]], stamp[c]) \in Seq(Nat)
    OBVIOUS
  <2> QED
    BY <1>8, <2>1 DEF Meter!ReconcilePrincipal
<1>9. ASSUME NEW c \in Calls, Meter!ReconcileSession(c)
      PROVE  Meter!TypeOK'
  <2>1. Est \in Nat
    BY MeterAssumption DEF Meter!AmountAssumption
  <2> QED
    BY <1>9, <2>1 DEF Meter!ReconcileSession
<1>10. ASSUME NEW c \in Calls, Meter!Abandon(c) \/ Meter!Refuse(c)
       PROVE  Meter!TypeOK'
  BY <1>10 DEF Meter!Abandon, Meter!Refuse
<1> QED
  BY <1>1, <1>2, <1>3, <1>4, <1>5, <1>6, <1>7, <1>8, <1>9, <1>10 DEF Meter!Next, Meter!Step

\* Whatever the pipeline does, the meter takes one of its own steps or none: the
\* role a call is checked for is registered, because only registered roles pass
\* the screening.
LEMMA MeterStep == PipeTypeOK /\ CallInv /\ [Next]_vars => [Meter!Next]_(Meter!vars)
<1> SUFFICES ASSUME PipeTypeOK, CallInv, [Next]_vars
             PROVE  [Meter!Next]_(Meter!vars)
  OBVIOUS
<1> USE DEF Meter!vars, Meter!ledgers, Meter!callVars, meterVars
<1>1. CASE UNCHANGED vars
  BY <1>1 DEF vars
<1>2. CASE Tick \/ Restart \/ Idle
  BY <1>2 DEF Tick, Restart, Idle, Meter!Next, vars
<1>3. ASSUME NEW c \in Calls, NEW r \in Roles \cup Strangers, NEW p \in Principals,
             NEW k \in Classes, Receive(c, r, p, k)
      PROVE  UNCHANGED Meter!vars
  BY <1>3 DEF Receive
<1>4. ASSUME NEW c \in Calls, NEW e \in Estimates, GateRole(c, e)
      PROVE  Meter!Step(c)
  <2>1. stage[c] # "ready"
    BY <1>4 DEF GateRole
  <2>2. mine[c] \in DOMAIN attempts /\ attempts[mine[c]].role \in Roles
    BY <2>1 DEF CallInv
  <2>3. attempts[mine[c]] \in Attempt
    BY <2>2 DEF PipeTypeOK
  <2>4. Meter!CheckRole(c, Role(c), Principal(c), e)
    BY <1>4 DEF GateRole
  <2>5. Role(c) \in Roles /\ Principal(c) \in Principals
    BY <2>2, <2>3 DEF Role, Principal, Attempt
  <2> QED
    BY <2>4, <2>5 DEF Meter!Step
<1>5. ASSUME NEW c \in Calls,
             \/ GateOthers(c) \/ GateRefuses(c) \/ AnswerStub(c)
             \/ HandlerRaises(c) \/ CriticRefuses(c) \/ Reconcile(c)
      PROVE  Meter!Step(c)
  BY <1>5 DEF GateOthers, GateRefuses, AnswerStub, HandlerRaises, CriticRefuses, Reconcile,
              Meter!Step
<1>6. ASSUME NEW c \in Calls, NEW issued \in BOOLEAN,
             \/ Invoke(c) \/ CriticPasses(c) \/ SealFails(c) \/ SealWrites(c)
             \/ SealRaises(c) \/ SealReturns(c) \/ Mint(c, issued) \/ Answer(c)
      PROVE  UNCHANGED Meter!vars
  BY <1>6 DEF Invoke, CriticPasses, SealFails, SealWrites, SealRaises, SealReturns, Mint, Answer
<1> QED
  <2>1. ASSUME NEW c \in Calls, Meter!Step(c)
        PROVE  Meter!Next
    BY <2>1 DEF Meter!Next
  <2>2. ASSUME NEW c \in Calls, Proceed(c)
        PROVE  [Meter!Next]_(Meter!vars)
    BY <2>1, <2>2, <1>4, <1>5, <1>6 DEF Proceed
  <2> QED
    BY <1>1, <1>2, <1>3, <2>2 DEF Next

-----------------------------------------------------------------------------
(* Types and places of the calls *)

\* What a screening, or the seal of a refusal, is answered with is an outcome.
LEMMA Names ==
    /\ About \ {"artifact"} \subseteq Outcomes
    /\ Refusals \subseteq Outcomes /\ "open" \notin Refusals \cup About
    /\ Screenings \subseteq Refusals
    /\ \A r, k : Screened(r, k) \in Screenings \cup {"ok"}
<1>1. \A r, k : Verdict(r, k) \in {"ok", "class_unknown", "class_forbidden", "class_outside"}
  BY DEF Verdict, Known
<1> QED
  BY <1>1 DEF Outcomes, Refusals, Screenings, About, Screened

\* Every step keeps the types of the pipeline's own variables.
LEMMA PipeTypeStep == Meter!TypeOK /\ PipeTypeOK /\ CallInv /\ [Next]_vars => PipeTypeOK'
<1> SUFFICES ASSUME Meter!TypeOK, PipeTypeOK, CallInv, [Next]_vars
             PROVE  PipeTypeOK'
  OBVIOUS
<1>1. CASE UNCHANGED vars \/ Tick \/ Idle
  BY <1>1 DEF vars, Tick, Idle, PipeTypeOK
<1>2. CASE Restart
  BY <1>2, AttemptsLost DEF Restart, PipeTypeOK, Stage
<1>3. ASSUME NEW c \in Calls, NEW r \in Roles \cup Strangers, NEW p \in Principals,
             NEW k \in Classes, Receive(c, r, p, k)
      PROVE  PipeTypeOK'
  <2> DEFINE o == IF Screened(r, k) = "ok" THEN "open" ELSE Screened(r, k)
             a == [role |-> r, principal |-> p, class |-> k, ran |-> FALSE, cylinder |-> 0,
                   outcome |-> o]
  <2>1. o \in Outcomes
    BY Names DEF Outcomes, Refusals
  <2> HIDE DEF o
  <2>2. a \in Attempt
    BY <2>1, AttemptsAssumption DEF Attempt
  <2>3. attempts' = Append(attempts, a)
    BY <1>3 DEF Receive, o
  <2> HIDE DEF a
  <2>4. attempts' \in Seq(Attempt) /\ Len(attempts') = Len(attempts) + 1
    BY <2>2, <2>3, Appended DEF PipeTypeOK
  <2>5. Len(attempts) + 1 \in 0..MaxAttempts
    BY <1>3, AttemptsAssumption DEF Receive, PipeTypeOK
  <2> QED
    BY <1>3, <2>4, <2>5 DEF Receive, PipeTypeOK, Stage
<1>4. ASSUME NEW c \in Calls,
             \/ \E e \in Estimates : GateRole(c, e)
             \/ GateOthers(c) \/ GateRefuses(c) \/ CriticRefuses(c)
             \/ CriticPasses(c) \/ Reconcile(c)
      PROVE  PipeTypeOK'
  BY <1>4 DEF GateRole, GateOthers, GateRefuses, CriticRefuses, CriticPasses, Reconcile, Go,
              PipeTypeOK, Stage, About
<1>5. ASSUME NEW c \in Calls, stage[c] # "ready"
      PROVE  mine[c] \in DOMAIN attempts /\ mine[c] \in 1..MaxAttempts
  BY <1>5, AttemptsAssumption DEF CallInv, PipeTypeOK
<1>6. ASSUME NEW c \in Calls, NEW from \in Stage \ {"ready"}, NEW o \in Outcomes,
             Finish(c, from, o), UNCHANGED <<mine, about, chain, receipts>>
      PROVE  PipeTypeOK'
  <2>1. attempts' \in Seq(Attempt) /\ Len(attempts') = Len(attempts)
    BY <1>5, <1>6, OutcomeWritten DEF Finish, Go
  <2> QED
    BY <1>6, <2>1 DEF Finish, Go, PipeTypeOK, Stage
<1>7. ASSUME NEW c \in Calls, AnswerStub(c) \/ HandlerRaises(c) \/ SealFails(c) \/ SealRaises(c)
      PROVE  PipeTypeOK'
  BY <1>6, <1>7, Names DEF AnswerStub, HandlerRaises, SealFails, SealRaises, Stage, Outcomes
<1>8. ASSUME NEW c \in Calls, Answer(c)
      PROVE  PipeTypeOK'
  <2>1. about[c] \in About
    BY DEF PipeTypeOK
  <2> QED
    BY <1>6, <1>8, <2>1, Names DEF Answer, Stage, Outcomes, About
<1>9. ASSUME NEW c \in Calls, Invoke(c)
      PROVE  PipeTypeOK'
  <2>1. stage[c] # "ready"
    BY <1>9 DEF Invoke, Go
  <2>2. attempts' \in Seq(Attempt) /\ Len(attempts') = Len(attempts)
    BY <1>5, <1>9, <2>1, RunWritten DEF Invoke
  <2> QED
    BY <1>9, <2>2 DEF Invoke, Go, PipeTypeOK, Stage
<1>10. ASSUME NEW c \in Calls, SealWrites(c)
       PROVE  PipeTypeOK'
  <2> DEFINE r == [attempt |-> mine[c], about |-> about[c], process |-> restarts]
  <2>1. mine[c] \in 1..MaxAttempts /\ about[c] \in About /\ restarts \in 0..MaxRestarts
    BY <1>5, <1>10 DEF SealWrites, Go, PipeTypeOK, Meter!TypeOK
  <2>2. r \in Cylinder
    BY <2>1 DEF Cylinder
  <2>3. chain' = Append(chain, r)
    BY <1>10 DEF SealWrites
  <2> HIDE DEF r
  <2>4. chain' \in Seq(Cylinder)
    BY <2>2, <2>3, Appended DEF PipeTypeOK
  <2> QED
    BY <1>10, <2>4 DEF SealWrites, Go, PipeTypeOK, Stage
<1>11. ASSUME NEW c \in Calls, NEW issued \in BOOLEAN, Mint(c, issued)
       PROVE  PipeTypeOK'
  BY <1>5, <1>11 DEF Mint, Go, PipeTypeOK, Stage
<1>12. ASSUME NEW c \in Calls, SealReturns(c)
       PROVE  PipeTypeOK'
  <2>1. stage[c] # "ready"
    BY <1>12 DEF SealReturns, Go
  <2>2. PICK i \in CylindersOf(mine[c]) : attempts' = [attempts EXCEPT ![mine[c]].cylinder = i]
    BY <1>12 DEF SealReturns
  <2>3. i \in Nat
    BY DEF CylindersOf, PipeTypeOK
  <2>4. attempts' \in Seq(Attempt) /\ Len(attempts') = Len(attempts)
    BY <1>5, <2>1, <2>2, <2>3, CylinderWritten
  <2> QED
    BY <1>12, <2>4 DEF SealReturns, Go, PipeTypeOK, Stage
<1> QED
  BY <1>1, <1>2, <1>3, <1>4, <1>7, <1>8, <1>9, <1>10, <1>11, <1>12 DEF Next, Proceed

\* Every step leaves each call in flight with an open attempt of its own: a new
\* attempt has a number nobody holds, and only its own call ends an attempt.
LEMMA CallStep == PipeTypeOK /\ CallInv /\ [Next]_vars => CallInv'
<1> SUFFICES ASSUME PipeTypeOK, CallInv, [Next]_vars
             PROVE  CallInv'
  OBVIOUS
<1>1. ASSUME \A c \in Calls : stage'[c] # "ready" => stage[c] # "ready",
             UNCHANGED <<mine, attempts>>
      PROVE  CallInv'
  BY <1>1 DEF CallInv
<1>2. CASE UNCHANGED vars \/ Tick \/ Idle
  BY <1>1, <1>2 DEF vars, Tick, Idle
<1>3. CASE Restart
  BY <1>3 DEF Restart, CallInv
<1>4. ASSUME NEW c \in Calls, NEW r \in Roles \cup Strangers, NEW p \in Principals,
             NEW k \in Classes, Receive(c, r, p, k)
      PROVE  CallInv'
  <2> DEFINE ok == Screened(r, k) = "ok"
             o == IF ok THEN "open" ELSE Screened(r, k)
             a == [role |-> r, principal |-> p, class |-> k, ran |-> FALSE, cylinder |-> 0,
                   outcome |-> o]
  <2>1. a \in Attempt /\ a.role = r /\ (ok => a.outcome = "open" /\ a.role \in Roles)
    <3>1. o \in Outcomes
      BY Names DEF Outcomes, Refusals
    <3>2. ok => o = "open" /\ r \in Roles
      BY DEF Screened
    <3> HIDE DEF o, ok
    <3> QED
      BY <3>1, <3>2 DEF Attempt
  <2>2. /\ attempts' = Append(attempts, a)
        /\ stage' = [stage EXCEPT ![c] = IF ok THEN "gate" ELSE "ready"]
        /\ mine' = [mine EXCEPT ![c] = Len(attempts) + 1]
    BY <1>4 DEF Receive
  <2> HIDE DEF a, ok
  <2>3. /\ DOMAIN attempts' = DOMAIN attempts \cup {Len(attempts) + 1}
        /\ Len(attempts) + 1 \notin DOMAIN attempts
        /\ \A i \in DOMAIN attempts : attempts'[i] = attempts[i]
        /\ attempts'[Len(attempts) + 1] = a
    BY <2>1, <2>2, Appended DEF PipeTypeOK
  <2> QED
    BY <2>1, <2>2, <2>3 DEF CallInv, PipeTypeOK
<1>5. ASSUME NEW c \in Calls,
             \/ \E e \in Estimates : GateRole(c, e)
             \/ GateOthers(c) \/ GateRefuses(c) \/ CriticRefuses(c) \/ CriticPasses(c)
             \/ Reconcile(c) \/ SealWrites(c) \/ \E issued \in BOOLEAN : Mint(c, issued)
      PROVE  CallInv'
  BY <1>1, <1>5 DEF GateRole, GateOthers, GateRefuses, CriticRefuses, CriticPasses, Reconcile,
                    SealWrites, Mint, Go, PipeTypeOK
<1>6. ASSUME NEW c \in Calls, NEW from \in Stage \ {"ready"}, NEW o \in Outcomes,
             Finish(c, from, o), UNCHANGED mine
      PROVE  CallInv'
  <2>1. mine[c] \in DOMAIN attempts
    BY <1>6 DEF Finish, Go, CallInv
  <2>2. /\ DOMAIN attempts' = DOMAIN attempts
        /\ \A b \in DOMAIN attempts : b # mine[c] => attempts'[b] = attempts[b]
    BY <1>6, <2>1, OutcomeWritten DEF Finish
  <2> QED
    BY <1>6, <2>1, <2>2 DEF Finish, Go, CallInv, PipeTypeOK
<1>7. ASSUME NEW c \in Calls,
             AnswerStub(c) \/ HandlerRaises(c) \/ SealFails(c) \/ SealRaises(c) \/ Answer(c)
      PROVE  CallInv'
  <2>1. about[c] \in About
    BY DEF PipeTypeOK
  <2> QED
    BY <1>6, <1>7, <2>1, Names DEF AnswerStub, HandlerRaises, SealFails, SealRaises, Answer,
                                   Stage, Outcomes, About
<1>8. ASSUME NEW c \in Calls, Go(c, "gate", "handler") \/ \E to \in Stage : Go(c, "written", to),
             UNCHANGED mine, DOMAIN attempts' = DOMAIN attempts,
             \A b \in DOMAIN attempts : /\ attempts'[b].outcome = attempts[b].outcome
                                        /\ attempts'[b].role = attempts[b].role
      PROVE  CallInv'
  BY <1>8 DEF Go, CallInv, PipeTypeOK
<1>9. ASSUME NEW c \in Calls, Invoke(c)
      PROVE  CallInv'
  <2>1. mine[c] \in DOMAIN attempts
    BY <1>9 DEF Invoke, Go, CallInv
  <2>2. /\ DOMAIN attempts' = DOMAIN attempts
        /\ \A b \in DOMAIN attempts : /\ attempts'[b].outcome = attempts[b].outcome
                                      /\ attempts'[b].role = attempts[b].role
    BY <1>9, <2>1, RunWritten DEF Invoke
  <2> QED
    BY <1>8, <1>9, <2>2 DEF Invoke
<1>10. ASSUME NEW c \in Calls, SealReturns(c)
       PROVE  CallInv'
  <2>1. mine[c] \in DOMAIN attempts
    BY <1>10 DEF SealReturns, Go, CallInv
  <2>2. PICK i \in CylindersOf(mine[c]) : attempts' = [attempts EXCEPT ![mine[c]].cylinder = i]
    BY <1>10 DEF SealReturns
  <2>3. i \in Nat
    BY DEF CylindersOf, PipeTypeOK
  <2>4. /\ DOMAIN attempts' = DOMAIN attempts
        /\ \A b \in DOMAIN attempts : /\ attempts'[b].outcome = attempts[b].outcome
                                      /\ attempts'[b].role = attempts[b].role
    BY <2>1, <2>2, <2>3, CylinderWritten
  <2> QED
    BY <1>8, <1>10, <2>4 DEF SealReturns, Stage
<1> QED
  BY <1>2, <1>3, <1>4, <1>5, <1>7, <1>9, <1>10 DEF Next, Proceed

\* The types hold in every behaviour, those of the meter included.
THEOREM TypeCorrect == Spec => []TypeOK
<1>1. Init => Meter!TypeOK /\ PipeTypeOK /\ CallInv
  <2> SUFFICES ASSUME Init
               PROVE  Meter!TypeOK /\ PipeTypeOK /\ CallInv
    OBVIOUS
  <2>1. (CHOOSE r \in Roles : TRUE) \in Roles /\ (CHOOSE p \in Principals : TRUE) \in Principals
    BY MeterAssumption DEF Meter!NamesAssumption
  <2>2. Meter!TypeOK
    <3>1. MaxTime \in Nat /\ MaxRestarts \in Nat
      BY MeterAssumption DEF Meter!TimeAssumption
    <3> QED
      BY <2>1, <3>1 DEF Init, Meter!Init, Meter!TypeOK, Meter!Phase
  <2>3. PipeTypeOK /\ CallInv
    BY AttemptsAssumption DEF Init, PipeTypeOK, CallInv, Stage, About
  <2> QED
    BY <2>2, <2>3
<1>2. Meter!TypeOK /\ PipeTypeOK /\ CallInv /\ [Next]_vars => (Meter!TypeOK /\ PipeTypeOK /\ CallInv)'
  BY MeterStep, MeterTypeStep, PipeTypeStep, CallStep
<1>3. Meter!TypeOK /\ PipeTypeOK /\ CallInv => TypeOK
  BY DEF TypeOK, PipeTypeOK
<1> QED
  BY <1>1, <1>2, <1>3, PTL DEF Spec

-----------------------------------------------------------------------------
(* Answers and the chain *)

\* The chain holds at most one cylinder of an attempt, and none of an attempt
\* that never was.
ChainInv ==
    /\ \A i, j \in DOMAIN chain : chain[i].attempt = chain[j].attempt => i = j
    /\ \A i \in DOMAIN chain : chain[i].attempt \in DOMAIN attempts

\* What the chain holds of the attempt of each call in flight.
EvidenceInv ==
    \A c \in Calls :
        /\ stage[c] \in {"gate", "handler", "reconcile", "seal"} => CylindersOf(mine[c]) = {}
        /\ stage[c] = "written" =>
               \E i \in CylindersOf(mine[c]) : chain[i].about = about[c]
        /\ stage[c] \in {"mint", "answer"} =>
               /\ attempts[mine[c]].cylinder \in CylindersOf(mine[c])
               /\ chain[attempts[mine[c]].cylinder].about = about[c]
        /\ stage[c] = "mint" => about[c] = "artifact"

AuditInv == ChainInv /\ EvidenceInv /\ AnswersAudited

\* What a step of the chain does to the cylinders of each attempt.
LEMMA CylinderAppended ==
    ASSUME PipeTypeOK, NEW r \in Cylinder, chain' = Append(chain, r)
    PROVE  /\ DOMAIN chain' = DOMAIN chain \cup {Len(chain) + 1}
           /\ Len(chain) + 1 \notin DOMAIN chain
           /\ \A i \in DOMAIN chain : chain'[i] = chain[i]
           /\ chain'[Len(chain) + 1] = r
           /\ \A a : CylindersOf(a)' =
                  IF a = r.attempt THEN CylindersOf(a) \cup {Len(chain) + 1} ELSE CylindersOf(a)
<1>1. /\ DOMAIN chain' = DOMAIN chain \cup {Len(chain) + 1}
      /\ Len(chain) + 1 \notin DOMAIN chain
      /\ \A i \in DOMAIN chain : chain'[i] = chain[i]
      /\ chain'[Len(chain) + 1] = r
  BY Appended DEF PipeTypeOK
<1> QED
  BY <1>1 DEF CylindersOf

\* Every step keeps the chain, the calls and the answers in agreement.
LEMMA AuditStep == Meter!TypeOK /\ PipeTypeOK /\ CallInv /\ AuditInv /\ [Next]_vars => AuditInv'
<1> SUFFICES ASSUME Meter!TypeOK, PipeTypeOK, CallInv, AuditInv, [Next]_vars
             PROVE  AuditInv'
  OBVIOUS
<1>1. CASE UNCHANGED vars \/ Tick \/ Idle
  BY <1>1 DEF vars, Tick, Idle, AuditInv, ChainInv, EvidenceInv, AnswersAudited, CylindersOf
<1>2. CASE Restart
  <2>1. ChainInv' /\ EvidenceInv'
    BY <1>2, AttemptsLost DEF Restart, AuditInv, ChainInv, EvidenceInv
  <2>2. AnswersAudited'
    <3>1. \A b : CylindersOf(b)' = CylindersOf(b)
      BY <1>2 DEF Restart, CylindersOf
    <3>2. chain' = chain
      BY <1>2 DEF Restart
    <3>3. DOMAIN attempts' = DOMAIN attempts
      BY <1>2, AttemptsLost
    <3>4. \A a \in DOMAIN attempts :
              /\ attempts'[a].cylinder = attempts[a].cylinder
              /\ attempts'[a].outcome \in {attempts[a].outcome, "lost"}
      BY <1>2, AttemptsLost
    <3> QED
      BY <3>1, <3>2, <3>3, <3>4 DEF AuditInv, AnswersAudited, Screenings
  <2> QED
    BY <2>1, <2>2 DEF AuditInv
<1>3. ASSUME NEW c \in Calls, NEW r \in Roles \cup Strangers, NEW p \in Principals,
             NEW k \in Classes, Receive(c, r, p, k)
      PROVE  AuditInv'
  <2> DEFINE o == IF Screened(r, k) = "ok" THEN "open" ELSE Screened(r, k)
             a == [role |-> r, principal |-> p, class |-> k, ran |-> FALSE, cylinder |-> 0,
                   outcome |-> o]
             n == Len(attempts) + 1
  <2>1. /\ o \in Outcomes
        /\ o \notin {"accepted", "cost_ceiling_breach", "critic_non_conforming"}
    BY Names DEF Outcomes, Refusals, Screenings
  <2> HIDE DEF o
  <2>2. a \in Attempt /\ a.outcome = o
    BY <2>1 DEF Attempt
  <2>3. attempts' = Append(attempts, a) /\ chain' = chain /\ about' = about
    BY <1>3 DEF Receive, o
  <2>4. /\ mine' = [mine EXCEPT ![c] = n]
        /\ stage'[c] \in {"gate", "ready"}
        /\ \A d \in Calls \ {c} : stage'[d] = stage[d]
    BY <1>3 DEF Receive, PipeTypeOK
  <2> HIDE DEF a
  <2>5. /\ DOMAIN attempts' = DOMAIN attempts \cup {n}
        /\ n \notin DOMAIN attempts
        /\ \A i \in DOMAIN attempts : attempts'[i] = attempts[i]
        /\ attempts'[n] = a
    BY <2>2, <2>3, Appended DEF PipeTypeOK
  <2>6. CylindersOf(n) = {}
    BY <2>5 DEF AuditInv, ChainInv, CylindersOf
  <2> HIDE DEF n
  <2>7. ChainInv'
    BY <2>3, <2>5 DEF AuditInv, ChainInv
  <2>8. AnswersAudited'
    <3>1. \A b : CylindersOf(b)' = CylindersOf(b)
      BY <2>3 DEF CylindersOf
    <3>2. chain' = chain
      BY <2>3
    <3> QED
      BY <2>1, <2>2, <2>5, <2>6, <3>1, <3>2 DEF AuditInv, AnswersAudited
  <2>9. ASSUME NEW d \in Calls \ {c}, stage[d] # "ready"
        PROVE  mine'[d] = mine[d] /\ attempts'[mine[d]] = attempts[mine[d]]
    BY <2>4, <2>5, <2>9 DEF CallInv, PipeTypeOK
  <2>10. EvidenceInv'
    BY <2>3, <2>4, <2>6, <2>9 DEF AuditInv, EvidenceInv, CylindersOf, PipeTypeOK
  <2> QED
    BY <2>7, <2>8, <2>10 DEF AuditInv
<1>4. ASSUME NEW c \in Calls,
             \/ \E e \in Estimates : GateRole(c, e)
             \/ GateOthers(c) \/ GateRefuses(c) \/ CriticRefuses(c) \/ CriticPasses(c)
             \/ Reconcile(c) \/ \E issued \in BOOLEAN : Mint(c, issued)
      PROVE  AuditInv'
  <2>1. UNCHANGED <<chain, attempts, mine>>
    BY <1>4 DEF GateRole, GateOthers, GateRefuses, CriticRefuses, CriticPasses, Reconcile, Mint
  <2>2. ChainInv' /\ AnswersAudited'
    BY <2>1 DEF AuditInv, ChainInv, AnswersAudited, CylindersOf
  <2>3. EvidenceInv'
    BY <1>4, <2>1 DEF GateRole, GateOthers, GateRefuses, CriticRefuses, CriticPasses, Reconcile,
                      Mint, Go, AuditInv, EvidenceInv, CylindersOf, PipeTypeOK
  <2> QED
    BY <2>2, <2>3 DEF AuditInv
<1>5. ASSUME NEW c \in Calls, Invoke(c)
      PROVE  AuditInv'
  <2>1. mine[c] \in DOMAIN attempts
    BY <1>5 DEF Invoke, Go, CallInv
  <2>2. /\ DOMAIN attempts' = DOMAIN attempts
        /\ \A b \in DOMAIN attempts : /\ attempts'[b].outcome = attempts[b].outcome
                                      /\ attempts'[b].cylinder = attempts[b].cylinder
    BY <1>5, <2>1, RunWritten DEF Invoke
  <2>3. UNCHANGED <<chain, mine, about>>
    BY <1>5 DEF Invoke
  <2>4. ChainInv' /\ AnswersAudited'
    BY <2>2, <2>3 DEF AuditInv, ChainInv, AnswersAudited, CylindersOf
  <2>5. \A d \in Calls : stage'[d] \in {"mint", "answer"} => mine[d] \in DOMAIN attempts
    BY <1>5 DEF Invoke, Go, CallInv, PipeTypeOK
  <2>6. EvidenceInv'
    BY <1>5, <2>2, <2>3, <2>5 DEF Invoke, Go, AuditInv, EvidenceInv, CylindersOf, PipeTypeOK
  <2> QED
    BY <2>4, <2>6 DEF AuditInv
<1>6. ASSUME NEW c \in Calls, NEW from \in Stage \ {"ready"}, NEW o \in Outcomes,
             Finish(c, from, o), UNCHANGED <<mine, about, chain>>,
             o \in {"accepted", "cost_ceiling_breach", "critic_non_conforming"} =>
                 from = "answer" /\ about[c] = IF o = "accepted" THEN "artifact" ELSE o,
             o \in Screenings \cup {"stub", "handler_error"} => from \in {"gate", "handler"}
      PROVE  AuditInv'
  <2>1. mine[c] \in DOMAIN attempts
    BY <1>6 DEF Finish, Go, CallInv
  <2>2. /\ DOMAIN attempts' = DOMAIN attempts
        /\ \A b \in DOMAIN attempts : b # mine[c] => attempts'[b] = attempts[b]
        /\ attempts'[mine[c]].outcome = o
        /\ attempts'[mine[c]].cylinder = attempts[mine[c]].cylinder
    BY <1>6, <2>1, OutcomeWritten DEF Finish
  <2>3. from = "answer" => /\ attempts[mine[c]].cylinder \in CylindersOf(mine[c])
                           /\ chain[attempts[mine[c]].cylinder].about = about[c]
    BY <1>6 DEF Finish, Go, AuditInv, EvidenceInv
  <2>4. ChainInv'
    BY <1>6, <2>2 DEF AuditInv, ChainInv
  <2>5. AnswersAudited'
    <3>1. from \in {"gate", "handler"} => CylindersOf(mine[c]) = {}
      BY <1>6 DEF Finish, Go, AuditInv, EvidenceInv
    <3>2. \A b : CylindersOf(b)' = CylindersOf(b)
      BY <1>6 DEF CylindersOf
    <3>3. chain' = chain
      BY <1>6
    <3> QED
      BY <1>6, <2>2, <2>3, <3>1, <3>2, <3>3 DEF AuditInv, AnswersAudited
  <2>6. ASSUME NEW d \in Calls, stage'[d] # "ready"
        PROVE  stage'[d] = stage[d] /\ attempts'[mine[d]] = attempts[mine[d]]
    BY <1>6, <2>2, <2>6 DEF Finish, Go, CallInv, PipeTypeOK
  <2>7. EvidenceInv'
    BY <1>6, <2>6 DEF AuditInv, EvidenceInv, CylindersOf
  <2> QED
    BY <2>4, <2>5, <2>7 DEF AuditInv
<1>7. ASSUME NEW c \in Calls,
             AnswerStub(c) \/ HandlerRaises(c) \/ SealFails(c) \/ SealRaises(c)
      PROVE  AuditInv'
  BY <1>6, <1>7 DEF AnswerStub, HandlerRaises, SealFails, SealRaises, Stage, Outcomes,
                    Screenings
<1>8. ASSUME NEW c \in Calls, Answer(c)
      PROVE  AuditInv'
  <2>1. about[c] \in About
    BY DEF PipeTypeOK
  <2> QED
    BY <1>6, <1>8, <2>1, Names DEF Answer, Stage, Outcomes, About, Screenings
<1>9. ASSUME NEW c \in Calls, SealWrites(c)
      PROVE  AuditInv'
  <2> DEFINE r == [attempt |-> mine[c], about |-> about[c], process |-> restarts]
  <2>1. /\ mine[c] \in DOMAIN attempts /\ stage[c] = "seal"
        /\ stage' = [stage EXCEPT ![c] = "written"]
        /\ UNCHANGED <<mine, about, attempts>>
        /\ CylindersOf(mine[c]) = {} /\ attempts[mine[c]].outcome = "open"
    BY <1>9 DEF SealWrites, Go, CallInv, AuditInv, EvidenceInv
  <2>2. r \in Cylinder /\ r.attempt = mine[c] /\ r.about = about[c]
    <3>1. mine[c] \in 1..MaxAttempts /\ about[c] \in About /\ restarts \in 0..MaxRestarts
      BY <2>1, AttemptsAssumption DEF PipeTypeOK, Meter!TypeOK
    <3> QED
      BY <3>1 DEF Cylinder
  <2>3. chain' = Append(chain, r)
    BY <1>9 DEF SealWrites
  <2> HIDE DEF r
  <2>4. /\ DOMAIN chain' = DOMAIN chain \cup {Len(chain) + 1}
        /\ Len(chain) + 1 \notin DOMAIN chain
        /\ \A i \in DOMAIN chain : chain'[i] = chain[i]
        /\ chain'[Len(chain) + 1] = r
    BY <2>2, <2>3, CylinderAppended
  <2>5. \A a : CylindersOf(a)' =
                   IF a = mine[c] THEN CylindersOf(a) \cup {Len(chain) + 1} ELSE CylindersOf(a)
    BY <2>2, <2>3, CylinderAppended
  <2>6. ChainInv'
    BY <2>1, <2>2, <2>4 DEF AuditInv, ChainInv, CylindersOf
  <2>7. \A a : \A i \in CylindersOf(a) : i \in CylindersOf(a)' /\ chain'[i] = chain[i]
    BY <2>4, <2>5 DEF CylindersOf
  <2>8. AnswersAudited'
    BY <2>1, <2>5, <2>7 DEF AuditInv, AnswersAudited, Screenings
  <2>9. ASSUME NEW d \in Calls \ {c}, stage[d] # "ready"
        PROVE  mine[d] # mine[c] /\ CylindersOf(mine[d])' = CylindersOf(mine[d])
    BY <2>1, <2>5, <2>9 DEF CallInv
  <2>10. Len(chain) + 1 \in CylindersOf(mine[c])' /\ chain'[Len(chain) + 1].about = about[c]
    BY <2>1, <2>2, <2>4, <2>5
  <2>11. stage'[c] = "written" /\ \A d \in Calls \ {c} : stage'[d] = stage[d]
    BY <2>1 DEF PipeTypeOK
  <2>12. EvidenceInv'
    <3> SUFFICES ASSUME NEW d \in Calls \ {c}, stage[d] # "ready"
                 PROVE  /\ stage[d] \in {"gate", "handler", "reconcile", "seal"} =>
                              CylindersOf(mine[d])' = {}
                        /\ stage[d] = "written" =>
                              \E i \in CylindersOf(mine[d])' : chain'[i].about = about[d]
                        /\ stage[d] \in {"mint", "answer"} =>
                              /\ attempts[mine[d]].cylinder \in CylindersOf(mine[d])'
                              /\ chain'[attempts[mine[d]].cylinder].about = about[d]
                        /\ stage[d] = "mint" => about[d] = "artifact"
      BY <2>1, <2>10, <2>11 DEF EvidenceInv
    <3> QED
      BY <2>7, <2>9 DEF AuditInv, EvidenceInv
  <2> QED
    BY <2>6, <2>8, <2>12 DEF AuditInv
<1>10. ASSUME NEW c \in Calls, SealReturns(c)
       PROVE  AuditInv'
  <2>1. /\ mine[c] \in DOMAIN attempts /\ stage[c] = "written"
        /\ stage' = [stage EXCEPT ![c] = IF about[c] = "artifact" THEN "mint" ELSE "answer"]
        /\ UNCHANGED <<mine, about, chain>>
    BY <1>10 DEF SealReturns, Go, CallInv
  <2>2. PICK i \in CylindersOf(mine[c]) : attempts' = [attempts EXCEPT ![mine[c]].cylinder = i]
    BY <1>10 DEF SealReturns
  <2>3. i \in Nat
    BY DEF CylindersOf, PipeTypeOK
  <2>4. /\ DOMAIN attempts' = DOMAIN attempts
        /\ \A b \in DOMAIN attempts : b # mine[c] => attempts'[b] = attempts[b]
        /\ attempts'[mine[c]].cylinder = i
        /\ attempts'[mine[c]].outcome = attempts[mine[c]].outcome
    BY <2>1, <2>2, <2>3, CylinderWritten
  <2>5. chain[i].about = about[c]
    BY <2>1 DEF AuditInv, ChainInv, EvidenceInv, CylindersOf
  <2>6. attempts[mine[c]].outcome = "open"
    BY <2>1 DEF CallInv
  <2>7. ChainInv'
    BY <2>1, <2>4 DEF AuditInv, ChainInv
  <2>8. AnswersAudited'
    <3>1. \A b : CylindersOf(b)' = CylindersOf(b)
      BY <2>1 DEF CylindersOf
    <3>2. chain' = chain
      BY <2>1
    <3> QED
      BY <2>4, <2>6, <3>1, <3>2 DEF AuditInv, AnswersAudited, Screenings
  <2>9. ASSUME NEW d \in Calls \ {c}, stage[d] # "ready"
        PROVE  attempts'[mine[d]] = attempts[mine[d]] /\ stage'[d] = stage[d]
    BY <2>1, <2>4, <2>9 DEF CallInv, PipeTypeOK
  <2>10. EvidenceInv'
    BY <2>1, <2>4, <2>5, <2>9 DEF AuditInv, EvidenceInv, CylindersOf, PipeTypeOK
  <2> QED
    BY <2>7, <2>8, <2>10 DEF AuditInv
<1> QED
  BY <1>1, <1>2, <1>3, <1>4, <1>5, <1>7, <1>8, <1>9, <1>10 DEF Next, Proceed

\* An inductive invariant of the pipeline.
LEMMA Inductive == Spec => [](TypeOK /\ PipeTypeOK /\ CallInv /\ AuditInv)
<1>1. Init => PipeTypeOK /\ CallInv /\ AuditInv
  BY AttemptsAssumption DEF Init, PipeTypeOK, CallInv, AuditInv, ChainInv, EvidenceInv,
                            AnswersAudited, CylindersOf, Stage, About
<1>2. Spec => []TypeOK
  BY TypeCorrect
<1>3. TypeOK => PipeTypeOK /\ Meter!TypeOK
  BY DEF TypeOK, PipeTypeOK
<1>4. TypeOK /\ CallInv /\ AuditInv /\ [Next]_vars => CallInv' /\ AuditInv'
  BY <1>3, CallStep, AuditStep
<1> QED
  BY <1>1, <1>2, <1>3, <1>4, PTL DEF Spec

\* No bypass: an answer given on a handler's artifact, or refused by the cost gate
\* or the critic, has its cylinder on the chain, however calls, failures of the
\* seal and restarts interleave.
THEOREM Audited == Spec => []AnswersAudited
BY Inductive, PTL DEF AuditInv

\* No attempt is sealed twice.
THEOREM Sealed == Spec => []SealedOnce
<1>1. ChainInv => SealedOnce
  <2> SUFFICES ASSUME ChainInv, NEW a \in DOMAIN attempts
               PROVE  Cardinality(CylindersOf(a)) <= 1
    BY DEF SealedOnce
  <2>1. CASE CylindersOf(a) = {}
    BY <2>1, FS_EmptySet
  <2>2. CASE CylindersOf(a) # {}
    <3>1. PICK i : CylindersOf(a) = {i}
      BY <2>2 DEF ChainInv, CylindersOf
    <3> QED
      BY <3>1, FS_Singleton
  <2> QED
    BY <2>1, <2>2
<1> QED
  BY <1>1, Inductive, PTL DEF AuditInv

-----------------------------------------------------------------------------
(* Admission *)

\* What the charter and the envelope of its role ask of an attempt's class.
Admitted(a) ==
    /\ attempts[a].class \notin CharterForbidden
    /\ attempts[a].class \in AlwaysAvailable
           \cup (RoleAllowed[attempts[a].role] \ RoleForbidden[attempts[a].role])

AdmissionInv ==
    /\ \A c \in Calls : stage[c] = "gate" => Admitted(mine[c])
    /\ \A c \in Calls : stage[c] = "handler" => phase[c] = "reserved"
    /\ \A a \in DOMAIN attempts :
           attempts[a].ran => attempts[a].role \in Wired /\ Admitted(a)

\* The envelope filter passes only what the charter and the role allow: this is
\* where the refusals of the two loaders are needed.
LEMMA Envelope ==
    ASSUME NEW r \in Roles \cup Strangers, NEW k, Screened(r, k) = "ok"
    PROVE  /\ r \in Roles
           /\ k \notin CharterForbidden
           /\ k \in AlwaysAvailable \cup (RoleAllowed[r] \ RoleForbidden[r])
<1>1. r \notin Strangers /\ Verdict(r, k) = "ok"
  BY DEF Screened
<1>2. r \in Roles
  BY <1>1
<1>3. k \in AlwaysAvailable \cup (RoleAllowed[r] \ RoleForbidden[r])
  <2> SUFFICES ASSUME k \notin AlwaysAvailable \cup (RoleAllowed[r] \ RoleForbidden[r])
               PROVE  FALSE
    OBVIOUS
  <2>1. CASE k \notin Known
    BY <1>1, <2>1 DEF Verdict
  <2>2. CASE k \in Known /\ k \in RoleForbidden[r]
    BY <1>1, <2>2 DEF Verdict
  <2>3. CASE k \in Known /\ k \notin RoleForbidden[r]
    BY <1>1, <2>3 DEF Verdict
  <2> QED
    BY <2>1, <2>2, <2>3
<1>4. k \notin CharterForbidden
  BY <1>2, <1>3, RegistryAssumption, LoadedSpecAssumption
<1> QED
  BY <1>2, <1>3, <1>4

\* A step that leaves the attempts alone, moves no call into the gate or the
\* handler, and takes no reservation from a call that stays in the handler.
LEMMA AdmissionKept ==
    ASSUME AdmissionInv, UNCHANGED <<attempts, mine>>,
           \A c \in Calls :
               /\ stage'[c] \in {"gate", "handler"} => stage'[c] = stage[c]
               /\ stage'[c] = "handler" => phase'[c] = phase[c]
    PROVE  AdmissionInv'
BY DEF AdmissionInv, Admitted

\* Every step keeps admission: a handler is only ever entered from the gate, with
\* the reservation in hand.
LEMMA AdmissionStep ==
    Meter!TypeOK /\ PipeTypeOK /\ CallInv /\ AdmissionInv /\ [Next]_vars => AdmissionInv'
<1> SUFFICES ASSUME Meter!TypeOK, PipeTypeOK, CallInv, AdmissionInv, [Next]_vars
             PROVE  AdmissionInv'
  OBVIOUS
<1>1. CASE UNCHANGED vars \/ Tick \/ Idle
  BY <1>1, AdmissionKept DEF vars, meterVars, Tick, Idle, Meter!Tick, Meter!callVars
<1>2. CASE Restart
  BY <1>2, AttemptsLost DEF Restart, AdmissionInv, Admitted
<1>3. ASSUME NEW c \in Calls, NEW r \in Roles \cup Strangers, NEW p \in Principals,
             NEW k \in Classes, Receive(c, r, p, k)
      PROVE  AdmissionInv'
  <2> DEFINE o == IF Screened(r, k) = "ok" THEN "open" ELSE Screened(r, k)
             a == [role |-> r, principal |-> p, class |-> k, ran |-> FALSE, cylinder |-> 0,
                   outcome |-> o]
             n == Len(attempts) + 1
  <2>1. o \in Outcomes
    BY Names DEF Outcomes, Refusals
  <2> HIDE DEF o
  <2>2. a \in Attempt /\ a.role = r /\ a.class = k /\ ~a.ran
    BY <2>1 DEF Attempt
  <2>3. attempts' = Append(attempts, a)
    BY <1>3 DEF Receive, o
  <2>4. /\ mine' = [mine EXCEPT ![c] = n]
        /\ stage'[c] = IF Screened(r, k) = "ok" THEN "gate" ELSE "ready"
        /\ \A d \in Calls \ {c} : stage'[d] = stage[d]
        /\ phase' = phase
    BY <1>3 DEF Receive, PipeTypeOK, meterVars
  <2> HIDE DEF a
  <2>5. /\ DOMAIN attempts' = DOMAIN attempts \cup {n}
        /\ n \notin DOMAIN attempts
        /\ \A i \in DOMAIN attempts : attempts'[i] = attempts[i]
        /\ attempts'[n] = a
    BY <2>2, <2>3, Appended DEF PipeTypeOK
  <2> HIDE DEF n
  <2>6. ASSUME NEW d \in Calls, stage'[d] = "gate"
        PROVE  Admitted(mine[d])'
    <3>1. CASE d = c
      BY <2>2, <2>4, <2>5, <2>6, <3>1, Envelope DEF Admitted, PipeTypeOK
    <3>2. CASE d # c
      BY <2>4, <2>5, <2>6, <3>2 DEF AdmissionInv, Admitted, CallInv, PipeTypeOK
    <3> QED
      BY <3>1, <3>2
  <2>7. \A i \in DOMAIN attempts' : attempts'[i].ran => attempts'[i].role \in Wired /\ Admitted(i)'
    BY <2>2, <2>5 DEF AdmissionInv, Admitted
  <2>8. \A d \in Calls : stage'[d] = "handler" => phase'[d] = "reserved"
    BY <2>4 DEF AdmissionInv
  <2> QED
    BY <2>6, <2>7, <2>8 DEF AdmissionInv
<1>4. ASSUME NEW c \in Calls,
             \/ \E e \in Estimates : GateRole(c, e)
             \/ GateOthers(c) \/ GateRefuses(c) \/ CriticRefuses(c) \/ Reconcile(c)
      PROVE  AdmissionInv'
  <2>1. \A d \in Calls : /\ stage'[d] \in {"gate", "handler"} => stage'[d] = stage[d]
                         /\ stage'[d] = "handler" => phase'[d] = phase[d]
    BY <1>4 DEF GateRole, GateOthers, GateRefuses, CriticRefuses, Reconcile, Go, PipeTypeOK,
                Meter!TypeOK, Meter!CheckRole, Meter!CheckPrincipal, Meter!CheckSession,
                Meter!Refuse, Meter!Abandon, Meter!ReadClock, Meter!ReconcileRole,
                Meter!ReconcilePrincipal, Meter!ReconcileSession, Meter!Move
  <2>2. UNCHANGED <<attempts, mine>>
    BY <1>4 DEF GateRole, GateOthers, GateRefuses, CriticRefuses, Reconcile
  <2> QED
    BY <2>1, <2>2, AdmissionKept
<1>5. ASSUME NEW c \in Calls, NEW issued \in BOOLEAN,
             CriticPasses(c) \/ SealWrites(c) \/ Mint(c, issued)
      PROVE  AdmissionInv'
  <2>1. \A d \in Calls : /\ stage'[d] \in {"gate", "handler"} => stage'[d] = stage[d]
                         /\ stage'[d] = "handler" => phase'[d] = phase[d]
    BY <1>5 DEF CriticPasses, SealWrites, Mint, Go, PipeTypeOK, meterVars
  <2>2. UNCHANGED <<attempts, mine>>
    BY <1>5 DEF CriticPasses, SealWrites, Mint
  <2> QED
    BY <2>1, <2>2, AdmissionKept
<1>6. ASSUME DOMAIN attempts' = DOMAIN attempts, UNCHANGED mine,
             \A b \in DOMAIN attempts : /\ attempts'[b].role = attempts[b].role
                                        /\ attempts'[b].class = attempts[b].class
                                        /\ attempts'[b].ran = attempts[b].ran,
             \A d \in Calls : /\ stage'[d] \in {"gate", "handler"} => stage'[d] = stage[d]
                              /\ stage'[d] = "handler" => phase'[d] = phase[d]
      PROVE  AdmissionInv'
  BY <1>6 DEF AdmissionInv, Admitted, CallInv
<1>7. ASSUME NEW c \in Calls, NEW from \in Stage \ {"ready"}, NEW o \in Outcomes,
             Finish(c, from, o), UNCHANGED mine,
             \A d \in Calls \ {c} : phase'[d] = phase[d]
      PROVE  AdmissionInv'
  <2>1. mine[c] \in DOMAIN attempts
    BY <1>7 DEF Finish, Go, CallInv
  <2>2. /\ DOMAIN attempts' = DOMAIN attempts
        /\ \A b \in DOMAIN attempts : /\ attempts'[b].role = attempts[b].role
                                      /\ attempts'[b].class = attempts[b].class
                                      /\ attempts'[b].ran = attempts[b].ran
    BY <1>7, <2>1, OutcomeWritten DEF Finish
  <2>3. \A d \in Calls : stage'[d] = IF d = c THEN "ready" ELSE stage[d]
    BY <1>7 DEF Finish, Go, PipeTypeOK
  <2> QED
    BY <1>6, <1>7, <2>2, <2>3
<1>8. ASSUME NEW c \in Calls, AnswerStub(c) \/ HandlerRaises(c)
      PROVE  AdmissionInv'
  <2>1. \A d \in Calls \ {c} : phase'[d] = phase[d]
    BY <1>8 DEF AnswerStub, HandlerRaises, Meter!Abandon, Meter!Move, Meter!TypeOK
  <2> QED
    BY <1>7, <1>8, <2>1 DEF AnswerStub, HandlerRaises, Stage, Outcomes
<1>9. ASSUME NEW c \in Calls, SealFails(c) \/ SealRaises(c) \/ Answer(c)
      PROVE  AdmissionInv'
  <2>1. phase' = phase /\ about[c] \in About
    BY <1>9 DEF SealFails, SealRaises, Answer, meterVars, PipeTypeOK
  <2> QED
    BY <1>7, <1>9, <2>1 DEF SealFails, SealRaises, Answer, Stage, Outcomes, Refusals, About
<1>10. ASSUME NEW c \in Calls, Invoke(c)
       PROVE  AdmissionInv'
  <2>1. /\ mine[c] \in DOMAIN attempts /\ stage[c] = "gate" /\ phase[c] = "reserved"
        /\ stage' = [stage EXCEPT ![c] = "handler"]
        /\ phase' = phase /\ mine' = mine
        /\ attempts[mine[c]].role \in Wired
    BY <1>10 DEF Invoke, Go, CallInv, meterVars, Role
  <2>2. /\ DOMAIN attempts' = DOMAIN attempts
        /\ \A b \in DOMAIN attempts : b # mine[c] => attempts'[b] = attempts[b]
        /\ attempts'[mine[c]].role = attempts[mine[c]].role
        /\ attempts'[mine[c]].class = attempts[mine[c]].class
    BY <1>10, <2>1, RunWritten DEF Invoke
  <2>3. \A b \in DOMAIN attempts : Admitted(b)' <=> Admitted(b)
    BY <2>2 DEF Admitted
  <2>4. \A d \in Calls : stage'[d] = "gate" => Admitted(mine[d])'
    BY <2>1, <2>3 DEF AdmissionInv, CallInv, PipeTypeOK
  <2>5. \A d \in Calls : stage'[d] = "handler" => phase'[d] = "reserved"
    BY <2>1 DEF AdmissionInv, PipeTypeOK
  <2>6. \A b \in DOMAIN attempts' :
            attempts'[b].ran => attempts'[b].role \in Wired /\ Admitted(b)'
    BY <2>1, <2>2, <2>3 DEF AdmissionInv
  <2> QED
    BY <2>4, <2>5, <2>6 DEF AdmissionInv
<1>11. ASSUME NEW c \in Calls, SealReturns(c)
       PROVE  AdmissionInv'
  <2>1. /\ mine[c] \in DOMAIN attempts
        /\ stage' = [stage EXCEPT ![c] = IF about[c] = "artifact" THEN "mint" ELSE "answer"]
        /\ phase' = phase /\ mine' = mine
    BY <1>11 DEF SealReturns, Go, CallInv, meterVars
  <2>2. PICK i \in CylindersOf(mine[c]) : attempts' = [attempts EXCEPT ![mine[c]].cylinder = i]
    BY <1>11 DEF SealReturns
  <2>3. i \in Nat
    BY DEF CylindersOf, PipeTypeOK
  <2>4. /\ DOMAIN attempts' = DOMAIN attempts
        /\ \A b \in DOMAIN attempts : /\ attempts'[b].role = attempts[b].role
                                      /\ attempts'[b].class = attempts[b].class
                                      /\ attempts'[b].ran = attempts[b].ran
    BY <2>1, <2>2, <2>3, CylinderWritten
  <2> QED
    BY <1>6, <2>1, <2>4 DEF PipeTypeOK
<1> QED
  BY <1>1, <1>2, <1>3, <1>4, <1>5, <1>8, <1>9, <1>10, <1>11 DEF Next, Proceed

\* No call reaches a handler around the envelope, the charter or the cost gate.
THEOREM OnlyAdmitted == Spec => []OnlyAdmittedRuns
<1>1. Init => AdmissionInv
  BY DEF Init, AdmissionInv
<1>2. TypeOK => PipeTypeOK /\ Meter!TypeOK
  BY DEF TypeOK, PipeTypeOK
<1>3. TypeOK /\ CallInv /\ AdmissionInv /\ [Next]_vars => AdmissionInv'
  BY <1>2, AdmissionStep
<1>4. AdmissionInv => OnlyAdmittedRuns
  BY DEF AdmissionInv, Admitted, OnlyAdmittedRuns
<1> QED
  BY <1>1, <1>3, <1>4, Inductive, PTL DEF Spec

-----------------------------------------------------------------------------
(* The audited service *)

Granted == Outcome({"accepted"})
Denied == Outcome(Outcomes \ {"open", "accepted"})
Evidence == {chain[i].attempt : i \in {j \in DOMAIN chain : chain[j].about = "artifact"}}

\* What the abstract service sees of an attempt that changed in nothing but one
\* outcome, from open to an end.
LEMMA Ended ==
    ASSUME PipeTypeOK, NEW a \in DOMAIN attempts, NEW o \in Outcomes \ {"open"},
           attempts[a].outcome = "open", attempts' = [attempts EXCEPT ![a].outcome = o]
    PROVE  /\ Len(attempts') = Len(attempts)
           /\ o = "accepted" => Granted' = Granted \cup {a} /\ Denied' = Denied
           /\ o # "accepted" => Granted' = Granted /\ Denied' = Denied \cup {a}
           /\ Promise!Open(a)
<1>1. /\ Len(attempts') = Len(attempts)
      /\ DOMAIN attempts' = DOMAIN attempts
      /\ \A b \in DOMAIN attempts : b # a => attempts'[b] = attempts[b]
      /\ attempts'[a].outcome = o
  BY OutcomeWritten
<1>2. a \in 1..Len(attempts)
  BY DEF PipeTypeOK
<1>3. a \notin Granted \cup Denied
  BY DEF Granted, Denied, Outcome
<1>4. Promise!Open(a)
  BY <1>2, <1>3 DEF Promise!Open, Granted, Denied
<1>5. o = "accepted" => Granted' = Granted \cup {a} /\ Denied' = Denied
  BY <1>1 DEF Granted, Denied, Outcome
<1>6. o # "accepted" => Granted' = Granted /\ Denied' = Denied \cup {a}
  BY <1>1 DEF Granted, Denied, Outcome
<1> QED
  BY <1>1, <1>4, <1>5, <1>6

\* Attempts that keep their outcomes look the same to the abstract service.
LEMMA OutcomesKept ==
    ASSUME DOMAIN attempts' = DOMAIN attempts,
           \A a \in DOMAIN attempts : attempts'[a].outcome = attempts[a].outcome
    PROVE  Granted' = Granted /\ Denied' = Denied
BY DEF Granted, Denied, Outcome

\* The abstract service's variables, by the names they have here.
LEMMA PromiseVars ==
    ASSUME Len(attempts') = Len(attempts), Evidence' = Evidence, receipts' = receipts,
           Granted' = Granted, Denied' = Denied
    PROVE  UNCHANGED Promise!vars
BY DEF Promise!vars, Evidence, Granted, Denied

\* Every step of the pipeline is a step of the audited service, or none.
LEMMA PromiseStep ==
    Meter!TypeOK /\ PipeTypeOK /\ CallInv /\ AuditInv /\ [Next]_vars
        => [Promise!Next]_(Promise!vars)
<1> SUFFICES ASSUME Meter!TypeOK, PipeTypeOK, CallInv, AuditInv, [Next]_vars
             PROVE  [Promise!Next]_(Promise!vars)
  OBVIOUS
<1>1. ASSUME UNCHANGED <<attempts, chain, receipts>>
      PROVE  UNCHANGED Promise!vars
  BY <1>1, OutcomesKept, PromiseVars DEF Evidence
<1>2. CASE UNCHANGED vars \/ Tick \/ Idle
  BY <1>1, <1>2 DEF vars, Tick, Idle
<1>3. CASE Restart
  <2> DEFINE S == Outcome({"open"})
  <2>1. Len(attempts') = Len(attempts) /\ Granted' = Granted /\ Denied' = Denied \cup S
    <3>1. /\ Len(attempts') = Len(attempts) /\ DOMAIN attempts' = DOMAIN attempts
          /\ \A a \in DOMAIN attempts : attempts'[a].outcome =
                 IF attempts[a].outcome = "open" THEN "lost" ELSE attempts[a].outcome
      BY <1>3, AttemptsLost
    <3> QED
      BY <3>1 DEF Granted, Denied, Outcome, Outcomes
  <2>2. \A a \in S : Promise!Open(a)
    BY DEF Promise!Open, Outcome, PipeTypeOK
  <2>3. S \in SUBSET (1..Len(attempts))
    BY DEF Outcome, PipeTypeOK
  <2>4. Evidence' = Evidence /\ receipts' = receipts
    BY <1>3 DEF Restart, Evidence
  <2> HIDE DEF S
  <2>5. Promise!Deny(S)
    BY <2>1, <2>2, <2>4 DEF Promise!Deny, Granted, Denied, Evidence
  <2> QED
    BY <2>3, <2>5 DEF Promise!Next
<1>4. ASSUME NEW c \in Calls, NEW r \in Roles \cup Strangers, NEW p \in Principals,
             NEW k \in Classes, Receive(c, r, p, k)
      PROVE  Promise!Next
  <2> DEFINE o == IF Screened(r, k) = "ok" THEN "open" ELSE Screened(r, k)
             a == [role |-> r, principal |-> p, class |-> k, ran |-> FALSE, cylinder |-> 0,
                   outcome |-> o]
             n == Len(attempts) + 1
  <2>1. o \in Outcomes \ {"accepted"}
    BY Names DEF Outcomes, Refusals, Screenings
  <2> HIDE DEF o
  <2>2. a \in Attempt /\ a.outcome = o
    BY <2>1 DEF Attempt
  <2>3. attempts' = Append(attempts, a)
    BY <1>4 DEF Receive, o
  <2> HIDE DEF a
  <2>4. /\ Len(attempts') = n
        /\ DOMAIN attempts' = DOMAIN attempts \cup {n}
        /\ n \notin DOMAIN attempts
        /\ \A i \in DOMAIN attempts : attempts'[i] = attempts[i]
        /\ attempts'[n] = a
    BY <2>2, <2>3, Appended DEF PipeTypeOK
  <2>5. Granted' = Granted
    BY <2>1, <2>2, <2>4 DEF Granted, Outcome
  <2>6. Denied' \in {Denied, Denied \cup {n}}
    <3>1. o = "open" => Denied' = Denied
      BY <2>1, <2>2, <2>4 DEF Denied, Outcome
    <3>2. o # "open" => Denied' = Denied \cup {n}
      BY <2>1, <2>2, <2>4 DEF Denied, Outcome
    <3> QED
      BY <3>1, <3>2
  <2>7. Evidence' = Evidence /\ receipts' = receipts
    BY <1>4 DEF Receive, Evidence
  <2>8. Promise!Ask
    BY <2>4, <2>5, <2>6, <2>7 DEF Promise!Ask, Granted, Denied, Evidence
  <2> QED
    BY <2>8 DEF Promise!Next
<1>5. ASSUME NEW c \in Calls,
             \/ \E e \in Estimates : GateRole(c, e)
             \/ GateOthers(c) \/ GateRefuses(c) \/ CriticRefuses(c) \/ CriticPasses(c)
             \/ Reconcile(c)
      PROVE  UNCHANGED Promise!vars
  BY <1>1, <1>5 DEF GateRole, GateOthers, GateRefuses, CriticRefuses, CriticPasses, Reconcile
<1>6. ASSUME NEW c \in Calls, stage[c] # "ready"
      PROVE  /\ mine[c] \in DOMAIN attempts /\ mine[c] \in 1..Len(attempts)
             /\ attempts[mine[c]].outcome = "open" /\ Promise!Open(mine[c])
  BY <1>6 DEF CallInv, PipeTypeOK, Promise!Open, Outcome
<1>7. ASSUME NEW c \in Calls, stage[c] \in {"mint", "answer"}, about[c] = "artifact"
      PROVE  mine[c] \in Evidence
  BY <1>7 DEF AuditInv, EvidenceInv, CylindersOf, Evidence
<1>8. ASSUME NEW c \in Calls, NEW from \in Stage \ {"ready"},
             NEW o \in Outcomes \ {"open", "accepted"},
             Finish(c, from, o), UNCHANGED <<chain, receipts>>
      PROVE  Promise!Next
  <2>1. /\ mine[c] \in DOMAIN attempts /\ mine[c] \in 1..Len(attempts)
        /\ attempts[mine[c]].outcome = "open"
    BY <1>6, <1>8 DEF Finish, Go
  <2>2. /\ Len(attempts') = Len(attempts)
        /\ Granted' = Granted /\ Denied' = Denied \cup {mine[c]}
        /\ Promise!Open(mine[c])
    BY <1>8, <2>1, Ended DEF Finish
  <2>3. Promise!Deny({mine[c]})
    BY <1>8, <2>2 DEF Promise!Deny, Granted, Denied
  <2>4. {mine[c]} \in SUBSET (1..Len(attempts))
    BY <2>1
  <2> QED
    BY <2>3, <2>4 DEF Promise!Next
<1>9. ASSUME NEW c \in Calls,
             AnswerStub(c) \/ HandlerRaises(c) \/ SealFails(c) \/ SealRaises(c)
      PROVE  Promise!Next
  BY <1>8, <1>9 DEF AnswerStub, HandlerRaises, SealFails, SealRaises, Stage, Outcomes
<1>10. ASSUME NEW c \in Calls, Answer(c)
       PROVE  Promise!Next
  <2>1. about[c] \in About /\ stage[c] = "answer"
    BY <1>10 DEF Answer, Finish, Go, PipeTypeOK
  <2>2. CASE about[c] # "artifact"
    BY <1>8, <1>10, <2>1, <2>2, Names DEF Answer, Stage, Outcomes, Refusals, About
  <2>3. CASE about[c] = "artifact"
    <3>1. /\ mine[c] \in DOMAIN attempts /\ mine[c] \in 1..Len(attempts)
          /\ attempts[mine[c]].outcome = "open"
      BY <1>6, <2>1
    <3>2. attempts' = [attempts EXCEPT ![mine[c]].outcome = "accepted"]
      BY <1>10, <2>3 DEF Answer, Finish
    <3>3. /\ Len(attempts') = Len(attempts)
          /\ Granted' = Granted \cup {mine[c]} /\ Denied' = Denied
          /\ Promise!Open(mine[c])
      BY <3>1, <3>2, Ended DEF Outcomes
    <3>4. mine[c] \in Evidence /\ UNCHANGED <<chain, receipts>>
      BY <1>7, <1>10, <2>1, <2>3 DEF Answer
    <3>5. Promise!Grant(mine[c])
      BY <3>3, <3>4 DEF Promise!Grant, Granted, Denied, Evidence
    <3> QED
      BY <3>1, <3>5 DEF Promise!Next
  <2> QED
    BY <2>2, <2>3
<1>11. ASSUME NEW c \in Calls, Invoke(c)
       PROVE  UNCHANGED Promise!vars
  <2>1. mine[c] \in DOMAIN attempts
    BY <1>11, <1>6 DEF Invoke, Go
  <2>2. /\ Len(attempts') = Len(attempts) /\ DOMAIN attempts' = DOMAIN attempts
        /\ \A b \in DOMAIN attempts : attempts'[b].outcome = attempts[b].outcome
    BY <1>11, <2>1, RunWritten DEF Invoke
  <2>3. Granted' = Granted /\ Denied' = Denied
    BY <2>2, OutcomesKept
  <2> QED
    BY <1>11, <2>2, <2>3, PromiseVars DEF Invoke, Evidence
<1>12. ASSUME NEW c \in Calls, SealReturns(c)
       PROVE  UNCHANGED Promise!vars
  <2>1. mine[c] \in DOMAIN attempts
    BY <1>12, <1>6 DEF SealReturns, Go
  <2>2. PICK i \in CylindersOf(mine[c]) : attempts' = [attempts EXCEPT ![mine[c]].cylinder = i]
    BY <1>12 DEF SealReturns
  <2>3. i \in Nat
    BY DEF CylindersOf, PipeTypeOK
  <2>4. /\ Len(attempts') = Len(attempts) /\ DOMAIN attempts' = DOMAIN attempts
        /\ \A b \in DOMAIN attempts : attempts'[b].outcome = attempts[b].outcome
    BY <2>1, <2>2, <2>3, CylinderWritten
  <2>5. Granted' = Granted /\ Denied' = Denied
    BY <2>4, OutcomesKept
  <2> QED
    BY <1>12, <2>4, <2>5, PromiseVars DEF SealReturns, Evidence
<1>13. ASSUME NEW c \in Calls, NEW issued \in BOOLEAN, Mint(c, issued)
       PROVE  [Promise!Next]_(Promise!vars)
  <2>1. /\ stage[c] = "mint" /\ about[c] = "artifact" /\ UNCHANGED <<attempts, chain>>
        /\ receipts' \in {receipts, receipts \cup {mine[c]}}
    BY <1>13 DEF Mint, Go, AuditInv, EvidenceInv
  <2>2. CASE receipts' = receipts
    BY <1>1, <2>1, <2>2
  <2>3. CASE receipts' = receipts \cup {mine[c]}
    <3>1. Promise!Open(mine[c]) /\ mine[c] \in 1..Len(attempts) /\ mine[c] \in Evidence
      BY <1>6, <1>7, <2>1
    <3>2. Granted' = Granted /\ Denied' = Denied
      BY <2>1, OutcomesKept
    <3>3. Promise!Issue(mine[c])
      BY <2>1, <2>3, <3>1, <3>2 DEF Promise!Issue, Granted, Denied, Evidence
    <3> QED
      BY <3>1, <3>3 DEF Promise!Next
  <2> QED
    BY <2>1, <2>2, <2>3
<1>14. ASSUME NEW c \in Calls, SealWrites(c)
       PROVE  [Promise!Next]_(Promise!vars)
  <2> DEFINE r == [attempt |-> mine[c], about |-> about[c], process |-> restarts]
  <2>1. /\ mine[c] \in 1..Len(attempts) /\ Promise!Open(mine[c])
        /\ CylindersOf(mine[c]) = {}
        /\ UNCHANGED <<attempts, receipts>>
    BY <1>6, <1>14 DEF SealWrites, Go, AuditInv, EvidenceInv
  <2>2. r \in Cylinder /\ r.attempt = mine[c] /\ r.about = about[c]
    <3>1. mine[c] \in 1..MaxAttempts /\ about[c] \in About /\ restarts \in 0..MaxRestarts
      BY <2>1, AttemptsAssumption DEF PipeTypeOK, Meter!TypeOK
    <3> QED
      BY <3>1 DEF Cylinder
  <2>3. chain' = Append(chain, r)
    BY <1>14 DEF SealWrites
  <2> HIDE DEF r
  <2>4. /\ DOMAIN chain' = DOMAIN chain \cup {Len(chain) + 1}
        /\ Len(chain) + 1 \notin DOMAIN chain
        /\ \A i \in DOMAIN chain : chain'[i] = chain[i]
        /\ chain'[Len(chain) + 1] = r
    BY <2>2, <2>3, CylinderAppended
  <2>5. Granted' = Granted /\ Denied' = Denied
    BY <2>1, OutcomesKept
  <2>6. CASE about[c] # "artifact"
    <3>1. Evidence' = Evidence
      BY <2>2, <2>4, <2>6 DEF Evidence
    <3> QED
      BY <2>1, <2>5, <3>1, PromiseVars
  <2>7. CASE about[c] = "artifact"
    <3>1. Evidence' = Evidence \cup {mine[c]}
      BY <2>2, <2>4, <2>7 DEF Evidence
    <3>2. mine[c] \notin Evidence
      BY <2>1 DEF Evidence, CylindersOf
    <3>3. PICK a \in 1..Len(attempts) : a = mine[c]
      BY <2>1
    <3>4. Promise!Record(a)
      BY <2>1, <2>5, <3>1, <3>2, <3>3 DEF Promise!Record, Granted, Denied, Evidence
    <3> QED
      BY <3>4 DEF Promise!Next
  <2> QED
    BY <2>6, <2>7
<1> QED
  BY <1>2, <1>3, <1>4, <1>5, <1>9, <1>10, <1>11, <1>12, <1>13, <1>14 DEF Next, Proceed

\* The pipeline implements the audited service: evidence first, then receipt and
\* accepted answer, and nothing taken back.
THEOREM Promised == Spec => KeepsPromise
<1>1. Init => Promise!Init
  <2> SUFFICES ASSUME Init
               PROVE  Promise!Init
    OBVIOUS
  <2>1. attempts = <<>> /\ chain = <<>> /\ receipts = {}
    BY DEF Init
  <2> QED
    BY <2>1 DEF Promise!Init, Outcome
<1>2. TypeOK => Meter!TypeOK
  BY DEF TypeOK
<1>3. TypeOK /\ PipeTypeOK /\ CallInv /\ AuditInv /\ [Next]_vars => [Promise!Next]_(Promise!vars)
  BY <1>2, PromiseStep
<1> QED
  BY <1>1, <1>3, Inductive, PTL DEF Spec, KeepsPromise, Promise!Spec

-----------------------------------------------------------------------------
(* What a client may rely on *)

\* A step of the abstract service keeps every answer backed, and takes nothing back.
LEMMA BackedStep ==
    Promise!Backed /\ [Promise!Next]_(Promise!vars)
        => Promise!Backed' /\ Promise!Lasting
<1> SUFFICES ASSUME Promise!Backed, [Promise!Next]_(Promise!vars)
             PROVE  Promise!Backed' /\ Promise!Lasting
  OBVIOUS
<1> DEFINE n == Len(attempts)
<1>1. /\ n \in Nat /\ receipts \cup Granted \subseteq Evidence
      /\ Evidence \cup Denied \subseteq 1..n /\ Granted \cap Denied = {}
  BY DEF Promise!Backed, Granted, Denied, Evidence
<1>2. ASSUME n' \in Nat, n <= n', Evidence \subseteq Evidence', receipts \subseteq receipts',
             Granted \subseteq Granted', Denied \subseteq Denied',
             receipts' \cup Granted' \subseteq Evidence',
             Evidence' \cup Denied' \subseteq 1..n', Granted' \cap Denied' = {}
      PROVE  Promise!Backed' /\ Promise!Lasting
  BY <1>2 DEF Promise!Backed, Promise!Lasting, Granted, Denied, Evidence
<1>3. CASE UNCHANGED Promise!vars
  <2>1. n' = n /\ Evidence' = Evidence /\ receipts' = receipts /\ Granted' = Granted
        /\ Denied' = Denied
    BY <1>3 DEF Promise!vars, Granted, Denied, Evidence
  <2> QED
    BY <1>1, <1>2, <2>1
<1>4. CASE Promise!Ask
  <2>1. /\ n' = n + 1 /\ Denied' \in {Denied, Denied \cup {n'}}
        /\ Evidence' = Evidence /\ receipts' = receipts /\ Granted' = Granted
    BY <1>4 DEF Promise!Ask, Granted, Denied, Evidence
  <2> QED
    BY <1>1, <1>2, <2>1
<1>5. ASSUME NEW a \in 1..n, Promise!Record(a) \/ Promise!Issue(a) \/ Promise!Grant(a)
      PROVE  Promise!Backed' /\ Promise!Lasting
  <2>1. a \notin Granted \cup Denied
    BY <1>5 DEF Promise!Record, Promise!Issue, Promise!Grant, Promise!Open, Granted, Denied
  <2>2. /\ n' = n /\ Denied' = Denied
        /\ \/ Evidence' = Evidence \cup {a} /\ receipts' = receipts /\ Granted' = Granted
           \/ /\ a \in Evidence /\ Evidence' = Evidence
              /\ receipts' = receipts \cup {a} /\ Granted' = Granted
           \/ /\ a \in Evidence /\ Evidence' = Evidence
              /\ receipts' = receipts /\ Granted' = Granted \cup {a}
    BY <1>5 DEF Promise!Record, Promise!Issue, Promise!Grant, Granted, Denied, Evidence
  <2> QED
    BY <1>1, <1>2, <2>1, <2>2
<1>6. ASSUME NEW S \in SUBSET (1..n), Promise!Deny(S)
      PROVE  Promise!Backed' /\ Promise!Lasting
  <2>1. \A a \in S : a \notin Granted
    BY <1>6 DEF Promise!Deny, Promise!Open, Granted, Denied
  <2>2. /\ n' = n /\ Denied' = Denied \cup S
        /\ Evidence' = Evidence /\ receipts' = receipts /\ Granted' = Granted
    BY <1>6 DEF Promise!Deny, Granted, Denied, Evidence
  <2>3. Evidence' \cup Denied' \subseteq 1..n' /\ Granted' \cap Denied' = {}
    BY <1>1, <2>1, <2>2
  <2>4. n' \in Nat /\ n <= n' /\ receipts' \cup Granted' \subseteq Evidence'
    BY <1>1, <2>2
  <2> QED
    BY <1>2, <2>2, <2>3, <2>4
<1> QED
  BY <1>3, <1>4, <1>5, <1>6 DEF Promise!Next

\* A receipt or an accepted answer has its artifact on the chain, no attempt is both
\* accepted and refused, and neither failures nor restarts ever take evidence, receipt
\* or answer back (route_request over audit_adapter.seal and receipt_minter.mint).
THEOREM PromiseIsKept == Spec => [](Promise!Backed) /\ [][Promise!Lasting]_(Promise!vars)
<1>1. Promise!Init => Promise!Backed
  <2> SUFFICES ASSUME Promise!Init
               PROVE  Promise!Backed
    OBVIOUS
  <2>1. Len(attempts) = 0 /\ Evidence = {} /\ receipts = {} /\ Granted = {} /\ Denied = {}
    BY DEF Promise!Init, Evidence, Granted, Denied
  <2>2. /\ Len(attempts) \in Nat /\ receipts \cup Granted \subseteq Evidence
        /\ Evidence \cup Denied \subseteq 1..Len(attempts) /\ Granted \cap Denied = {}
    BY <2>1
  <2> QED
    BY <2>2 DEF Promise!Backed, Evidence, Granted, Denied
<1>2. Promise!Backed /\ [Promise!Next]_(Promise!vars) => Promise!Backed' /\ Promise!Lasting
  BY BackedStep
<1> QED
  BY <1>1, <1>2, Promised, PTL DEF KeepsPromise, Promise!Spec

-----------------------------------------------------------------------------
(* The session's charges *)

\* The three sets of ChargedForArtifacts.
SealedNow == {a \in DOMAIN attempts : \E i \in CylindersOf(a) :
                 chain[i].about = "artifact" /\ chain[i].process = restarts}
Sealing == {c \in Calls : stage[c] = "seal" /\ about[c] = "artifact"}
Unsealed == {a \in DOMAIN attempts : /\ attempts[a].outcome = "audit_error"
                                     /\ CylindersOf(a) = {}}

\* A total that pays for n artifacts, and for at most u more.
Pays(total, n, u) == Est * n <= total /\ total <= Est * (n + u)

\* The charges agree with the chain, which no later process has written to: only
\* so does a restart, which empties the meter, leave no cylinder to pay for.
ChargeInv ==
    /\ \A i \in DOMAIN chain : chain[i].process \in 0..restarts
    /\ ChargedForArtifacts

LEMMA ChargedIsPaid ==
    ChargedForArtifacts <=>
        Pays(sessionTotal, Cardinality(SealedNow) + Cardinality(Sealing), Cardinality(Unsealed))
BY DEF ChargedForArtifacts, Pays, SealedNow, Sealing, Unsealed

\* What an empty meter pays for.
LEMMA PaysNothing == ASSUME NEW u \in Nat PROVE Pays(0, 0, u)
<1>1. Est \in Nat
  BY MeterAssumption DEF Meter!AmountAssumption
<1>2. Est * u \in Nat
  BY <1>1
<1> QED
  BY <1>1, <1>2 DEF Pays

\* More attempts that failed to be sealed only loosen the bound.
LEMMA PaysMore ==
    ASSUME NEW t \in Nat, NEW n \in Nat, NEW u \in Nat, NEW v \in Nat,
           Pays(t, n, u), u <= v
    PROVE  Pays(t, n, v)
<1>1. Est \in Nat
  BY MeterAssumption DEF Meter!AmountAssumption
<1>2. PICK d \in Nat : v = u + d
  BY v - u \in Nat
<1>3. /\ Est * (n + v) = Est * (n + u) + Est * d
      /\ Est * d \in Nat /\ Est * (n + u) \in Nat
  BY <1>1, <1>2
<1> QED
  BY <1>3 DEF Pays

\* One charge pays for one artifact more.
LEMMA PaysOneMore ==
    ASSUME NEW t \in Nat, NEW n \in Nat, NEW u \in Nat, Pays(t, n, u)
    PROVE  Pays(t + Est, n + 1, u)
<1>1. Est \in Nat
  BY MeterAssumption DEF Meter!AmountAssumption
<1>2. /\ Est * (n + 1) = Est * n + Est
      /\ Est * ((n + 1) + u) = Est * (n + u) + Est
      /\ Est * n \in Nat /\ Est * (n + u) \in Nat
  BY <1>1
<1> QED
  BY <1>1, <1>2 DEF Pays

\* An artifact that failed to be sealed is charged all the same.
LEMMA PaysUnsealed ==
    ASSUME NEW t \in Nat, NEW n \in Nat, NEW u \in Nat, Pays(t, n + 1, u)
    PROVE  Pays(t, n, u + 1)
<1>1. Est \in Nat
  BY MeterAssumption DEF Meter!AmountAssumption
<1>2. /\ Est * (n + 1) = Est * n + Est
      /\ Est * n \in Nat
      /\ (n + 1) + u = n + (u + 1)
  BY <1>1
<1> QED
  BY <1>1, <1>2 DEF Pays

\* Calls and attempts are finitely many, so the sets can be counted.
LEMMA Countable ==
    ASSUME PipeTypeOK
    PROVE  /\ \A S \in SUBSET DOMAIN attempts : IsFiniteSet(S) /\ Cardinality(S) \in Nat
           /\ \A S \in SUBSET Calls : IsFiniteSet(S) /\ Cardinality(S) \in Nat
<1>1. DOMAIN attempts = 1..Len(attempts) /\ Len(attempts) \in Nat
  BY DEF PipeTypeOK
<1>2. IsFiniteSet(DOMAIN attempts)
  BY <1>1, FS_Interval
<1>3. IsFiniteSet(Calls)
  BY MeterAssumption DEF Meter!CallsAssumption, Meter!IsFiniteSet, IsFiniteSet
<1> QED
  BY <1>2, <1>3, FS_Subset, FS_CardinalityType

\* A step that seals nothing, stops sealing nothing and charges nothing.
LEMMA ChargeKept ==
    ASSUME PipeTypeOK, Meter!TypeOK, ChargeInv, Cardinality(Unsealed') \in Nat,
           IsFiniteSet(Unsealed'), Unsealed \subseteq Unsealed',
           SealedNow' = SealedNow, Sealing' = Sealing,
           UNCHANGED <<chain, restarts, sessionTotal>>
    PROVE  ChargeInv'
<1> DEFINE n == Cardinality(SealedNow) + Cardinality(Sealing)
<1>1. n \in Nat /\ Cardinality(Unsealed) \in Nat
  BY Countable DEF SealedNow, Sealing, Unsealed
<1>2. Cardinality(Unsealed) <= Cardinality(Unsealed')
  BY FS_Subset
<1>3. Pays(sessionTotal, n, Cardinality(Unsealed)) /\ sessionTotal \in Nat
  BY ChargedIsPaid DEF ChargeInv, Meter!TypeOK
<1> HIDE DEF n
<1>4. Pays(sessionTotal, n, Cardinality(Unsealed'))
  BY <1>1, <1>2, <1>3, PaysMore
<1>5. Pays(sessionTotal', Cardinality(SealedNow') + Cardinality(Sealing'), Cardinality(Unsealed'))
  BY <1>4 DEF n
<1>6. ChargedForArtifacts'
  BY <1>5 DEF ChargedForArtifacts, Pays, SealedNow, Sealing, Unsealed
<1> QED
  BY <1>6 DEF ChargeInv

\* Only an artifact is reconciled.
ConformInv == \A c \in Calls : stage[c] = "reconcile" => about[c] = "artifact"

LEMMA ConformStep == PipeTypeOK /\ ConformInv /\ [Next]_vars => ConformInv'
<1> SUFFICES ASSUME PipeTypeOK, ConformInv, [Next]_vars
             PROVE  ConformInv'
  OBVIOUS
<1>1. CASE UNCHANGED vars \/ Tick \/ Restart \/ Idle
  BY <1>1 DEF vars, Tick, Restart, Idle, ConformInv
<1>2. ASSUME NEW c \in Calls, NEW r \in Roles \cup Strangers, NEW p \in Principals,
             NEW k \in Classes, Receive(c, r, p, k)
      PROVE  ConformInv'
  BY <1>2 DEF Receive, ConformInv, PipeTypeOK
<1>3. ASSUME NEW c \in Calls,
             \/ \E e \in Estimates : GateRole(c, e)
             \/ GateOthers(c) \/ GateRefuses(c) \/ AnswerStub(c) \/ Invoke(c)
             \/ HandlerRaises(c) \/ CriticRefuses(c) \/ CriticPasses(c) \/ Reconcile(c)
      PROVE  ConformInv'
  BY <1>3 DEF GateRole, GateOthers, GateRefuses, AnswerStub, Invoke, HandlerRaises,
              CriticRefuses, CriticPasses, Reconcile, Finish, Go, ConformInv, PipeTypeOK
<1>4. ASSUME NEW c \in Calls,
             \/ SealFails(c) \/ SealWrites(c) \/ SealRaises(c) \/ SealReturns(c)
             \/ \E issued \in BOOLEAN : Mint(c, issued)
             \/ Answer(c)
      PROVE  ConformInv'
  BY <1>4 DEF SealFails, SealWrites, SealRaises, SealReturns, Mint, Answer, Finish, Go,
              ConformInv, PipeTypeOK
<1> QED
  BY <1>1, <1>2, <1>3, <1>4 DEF Next, Proceed

\* Every step keeps the charges in agreement with the chain.
LEMMA ChargeStep ==
    /\ Meter!TypeOK /\ PipeTypeOK /\ PipeTypeOK' /\ CallInv /\ AuditInv
    /\ ConformInv /\ ChargeInv /\ [Next]_vars
    => ChargeInv'
<1> SUFFICES ASSUME Meter!TypeOK, PipeTypeOK, PipeTypeOK', CallInv, AuditInv,
                    ConformInv, ChargeInv, [Next]_vars
             PROVE  ChargeInv'
  OBVIOUS
<1>1. Unsealed' \subseteq DOMAIN attempts'
  BY DEF Unsealed
<1>2. IsFiniteSet(Unsealed') /\ Cardinality(Unsealed') \in Nat
  <2>1. DOMAIN attempts' = 1..Len(attempts') /\ Len(attempts') \in Nat
    BY DEF PipeTypeOK
  <2>2. IsFiniteSet(DOMAIN attempts')
    BY <2>1, FS_Interval
  <2>3. IsFiniteSet(Unsealed')
    BY <1>1, <2>2, FS_Subset
  <2> QED
    BY <2>3, FS_CardinalityType
<1>3. ASSUME NEW c \in Calls, stage[c] # "ready"
      PROVE  mine[c] \in DOMAIN attempts /\ attempts[mine[c]].outcome = "open"
  BY <1>3 DEF CallInv
<1>4. ASSUME UNCHANGED <<chain, restarts, sessionTotal>>, Sealing' = Sealing,
             DOMAIN attempts \subseteq DOMAIN attempts',
             \A a \in DOMAIN attempts' \ DOMAIN attempts : CylindersOf(a) = {},
             \A a \in DOMAIN attempts :
                 attempts[a].outcome = "audit_error" => attempts'[a].outcome = "audit_error"
      PROVE  ChargeInv'
  <2>1. SealedNow' = SealedNow
    BY <1>4 DEF SealedNow, CylindersOf
  <2>2. Unsealed \subseteq Unsealed'
    BY <1>4 DEF Unsealed, CylindersOf
  <2> QED
    BY <1>2, <1>4, <2>1, <2>2, ChargeKept
<1>5. CASE UNCHANGED vars \/ Tick \/ Idle
  BY <1>4, <1>5 DEF vars, meterVars, Tick, Idle, Meter!Tick, Meter!ledgers, Sealing
<1>6. CASE Restart
  <2>1. /\ sessionTotal' = 0 /\ restarts' = restarts + 1 /\ restarts \in Nat
        /\ chain' = chain
    BY <1>6 DEF Restart, Meter!Restart, Meter!TypeOK
  <2>2. \A i \in DOMAIN chain : chain[i].process \in 0..restarts' /\ chain[i].process # restarts'
    BY <2>1 DEF ChargeInv
  <2>3. SealedNow' = {}
    BY <2>1, <2>2 DEF SealedNow, CylindersOf
  <2>4. Sealing' = {}
    BY <1>6 DEF Restart, Sealing
  <2>5. Cardinality(SealedNow') + Cardinality(Sealing') = 0
    BY <2>3, <2>4, FS_EmptySet
  <2>6. Pays(sessionTotal', Cardinality(SealedNow') + Cardinality(Sealing'), Cardinality(Unsealed'))
    BY <1>2, <2>1, <2>5, PaysNothing
  <2>7. ChargedForArtifacts'
    BY <2>6 DEF ChargedForArtifacts, Pays, SealedNow, Sealing, Unsealed
  <2> QED
    BY <2>1, <2>2, <2>7 DEF ChargeInv
<1>7. ASSUME NEW c \in Calls, NEW r \in Roles \cup Strangers, NEW p \in Principals,
             NEW k \in Classes, Receive(c, r, p, k)
      PROVE  ChargeInv'
  <2> DEFINE o == IF Screened(r, k) = "ok" THEN "open" ELSE Screened(r, k)
             a == [role |-> r, principal |-> p, class |-> k, ran |-> FALSE, cylinder |-> 0,
                   outcome |-> o]
  <2>1. o \in Outcomes
    BY Names DEF Outcomes, Refusals
  <2> HIDE DEF o
  <2>2. a \in Attempt
    BY <2>1 DEF Attempt
  <2>3. attempts' = Append(attempts, a)
    BY <1>7 DEF Receive, o
  <2> HIDE DEF a
  <2>4. /\ DOMAIN attempts' = DOMAIN attempts \cup {Len(attempts) + 1}
        /\ Len(attempts) + 1 \notin DOMAIN attempts
        /\ \A i \in DOMAIN attempts : attempts'[i] = attempts[i]
    BY <2>2, <2>3, Appended DEF PipeTypeOK
  <2>5. CylindersOf(Len(attempts) + 1) = {}
    BY <2>4 DEF AuditInv, ChainInv, CylindersOf
  <2>6. Sealing' = Sealing
    BY <1>7 DEF Receive, Sealing, PipeTypeOK
  <2>7. UNCHANGED <<chain, restarts, sessionTotal>>
    BY <1>7 DEF Receive, meterVars
  <2> QED
    BY <1>4, <2>4, <2>5, <2>6, <2>7
<1>8. ASSUME NEW c \in Calls,
             \/ \E e \in Estimates : GateRole(c, e)
             \/ GateOthers(c) \/ GateRefuses(c) \/ CriticRefuses(c) \/ CriticPasses(c)
             \/ \E issued \in BOOLEAN : Mint(c, issued)
      PROVE  ChargeInv'
  <2>1. UNCHANGED <<chain, attempts>>
    BY <1>8 DEF GateRole, GateOthers, GateRefuses, CriticRefuses, CriticPasses, Mint
  <2>2. UNCHANGED <<restarts, sessionTotal>>
    BY <1>8 DEF GateRole, GateOthers, GateRefuses, CriticRefuses, CriticPasses, Mint, meterVars,
                Meter!CheckRole, Meter!CheckPrincipal, Meter!CheckSession, Meter!Refuse,
                Meter!Abandon, Meter!ledgers
  <2>3. Sealing' = Sealing
    BY <1>8 DEF GateRole, GateOthers, GateRefuses, CriticRefuses, CriticPasses, Mint, Go,
                Sealing, PipeTypeOK
  <2> QED
    BY <1>4, <2>1, <2>2, <2>3
<1>9. ASSUME NEW c \in Calls, Invoke(c) \/ SealReturns(c)
      PROVE  ChargeInv'
  <2>1. mine[c] \in DOMAIN attempts
    BY <1>3, <1>9 DEF Invoke, SealReturns, Go
  <2>2. /\ DOMAIN attempts' = DOMAIN attempts
        /\ \A b \in DOMAIN attempts : attempts'[b].outcome = attempts[b].outcome
    <3>1. CASE Invoke(c)
      BY <2>1, <3>1, RunWritten DEF Invoke
    <3>2. CASE SealReturns(c)
      <4>1. PICK i \in CylindersOf(mine[c]) :
                attempts' = [attempts EXCEPT ![mine[c]].cylinder = i]
        BY <3>2 DEF SealReturns
      <4>2. i \in Nat
        BY DEF CylindersOf, PipeTypeOK
      <4> QED
        BY <2>1, <4>1, <4>2, CylinderWritten
    <3> QED
      BY <1>9, <3>1, <3>2
  <2>3. UNCHANGED <<chain, restarts, sessionTotal>>
    BY <1>9 DEF Invoke, SealReturns, meterVars
  <2>4. Sealing' = Sealing
    BY <1>9 DEF Invoke, SealReturns, Go, Sealing, PipeTypeOK
  <2> QED
    BY <1>4, <2>2, <2>3, <2>4
<1>10. ASSUME NEW c \in Calls, NEW from \in Stage \ {"ready"}, NEW o \in Outcomes,
              Finish(c, from, o)
       PROVE  /\ DOMAIN attempts' = DOMAIN attempts
              /\ \A b \in DOMAIN attempts : b # mine[c] => attempts'[b] = attempts[b]
              /\ attempts'[mine[c]].outcome = o
              /\ mine[c] \in DOMAIN attempts /\ attempts[mine[c]].outcome = "open"
              /\ \A d \in Calls : stage'[d] = IF d = c THEN "ready" ELSE stage[d]
              /\ stage[c] = from
  <2>1. mine[c] \in DOMAIN attempts /\ attempts[mine[c]].outcome = "open"
    BY <1>3, <1>10 DEF Finish, Go
  <2>2. \A d \in Calls : stage'[d] = IF d = c THEN "ready" ELSE stage[d]
    BY <1>10 DEF Finish, Go, PipeTypeOK
  <2> QED
    BY <1>10, <2>1, <2>2, OutcomeWritten DEF Finish, Go
<1>11. ASSUME NEW c \in Calls, NEW from \in Stage \ {"ready", "seal"}, NEW o \in Outcomes,
              Finish(c, from, o), UNCHANGED <<about, chain, restarts, sessionTotal>>
       PROVE  ChargeInv'
  <2>1. Sealing' = Sealing
    BY <1>10, <1>11 DEF Sealing
  <2> QED
    BY <1>4, <1>10, <1>11, <2>1
<1>12. ASSUME NEW c \in Calls,
              AnswerStub(c) \/ HandlerRaises(c) \/ SealRaises(c) \/ Answer(c)
       PROVE  ChargeInv'
  <2>1. UNCHANGED <<about, chain, restarts, sessionTotal>>
    BY <1>12 DEF AnswerStub, HandlerRaises, SealRaises, Answer, meterVars, Meter!Abandon,
                 Meter!ledgers
  <2>2. about[c] \in About
    BY DEF PipeTypeOK
  <2> QED
    BY <1>11, <1>12, <2>1, <2>2, Names DEF AnswerStub, HandlerRaises, SealRaises, Answer, Stage,
                                           Outcomes, About
<1>13. ASSUME NEW c \in Calls, Reconcile(c)
       PROVE  ChargeInv'
  <2>1. /\ UNCHANGED <<about, attempts, chain, restarts>>
        /\ stage[c] = "reconcile"
    BY <1>13 DEF Reconcile, Meter!ReadClock, Meter!ReconcileRole, Meter!ReconcilePrincipal,
                 Meter!ReconcileSession
  <2>2. CASE UNCHANGED <<stage, sessionTotal>>
    <3>1. Sealing' = Sealing
      BY <2>1, <2>2 DEF Sealing
    <3> QED
      BY <1>4, <2>1, <2>2, <3>1
  <2>3. CASE Meter!ReconcileSession(c) /\ Go(c, "reconcile", "seal")
    <3>1. sessionTotal' = sessionTotal + Est
      BY <2>3 DEF Meter!ReconcileSession
    <3>2. SealedNow' = SealedNow /\ Unsealed' = Unsealed
      BY <2>1 DEF SealedNow, Unsealed, CylindersOf
    <3>3. about[c] = "artifact"
      BY <2>1 DEF ConformInv
    <3>4. Sealing' = Sealing \cup {c} /\ c \notin Sealing
      BY <2>1, <2>3, <3>3 DEF Go, Sealing, PipeTypeOK
    <3>5. /\ Sealing \in SUBSET Calls /\ SealedNow \in SUBSET DOMAIN attempts
          /\ Unsealed \in SUBSET DOMAIN attempts
      BY DEF Sealing, SealedNow, Unsealed
    <3>6. PICK n \in Nat, s \in Nat, u \in Nat :
              /\ n = Cardinality(SealedNow) /\ s = Cardinality(Sealing)
              /\ u = Cardinality(Unsealed)
      BY <3>5, Countable
    <3>7. Cardinality(Sealing') = s + 1
      BY <3>4, <3>5, <3>6, Countable, FS_AddElement
    <3>8. Pays(sessionTotal, n + s, u) /\ sessionTotal \in Nat
      BY <3>6, ChargedIsPaid DEF ChargeInv, Meter!TypeOK
    <3>9. Pays(sessionTotal + Est, (n + s) + 1, u)
      BY <3>8, PaysOneMore
    <3>10. Cardinality(SealedNow') = n /\ Cardinality(Unsealed') = u
      BY <3>2, <3>6
    <3>11. Pays(sessionTotal', Cardinality(SealedNow') + Cardinality(Sealing'),
                Cardinality(Unsealed'))
      <4>1. n + (s + 1) = (n + s) + 1
        OBVIOUS
      <4> QED
        BY <3>1, <3>7, <3>9, <3>10, <4>1
    <3>12. ChargedForArtifacts'
      BY <3>11 DEF ChargedForArtifacts, Pays, SealedNow, Sealing, Unsealed
    <3> QED
      BY <2>1, <3>12 DEF ChargeInv
  <2> QED
    BY <1>13, <2>2, <2>3 DEF Reconcile, Meter!ReadClock, Meter!ReconcileRole,
                             Meter!ReconcilePrincipal, Meter!ledgers
<1>14. ASSUME NEW c \in Calls, SealFails(c)
       PROVE  ChargeInv'
  <2>1. UNCHANGED <<about, chain, restarts, sessionTotal>>
    BY <1>14 DEF SealFails, meterVars
  <2>2. /\ DOMAIN attempts' = DOMAIN attempts
        /\ \A b \in DOMAIN attempts : b # mine[c] => attempts'[b] = attempts[b]
        /\ attempts'[mine[c]].outcome = "audit_error"
        /\ mine[c] \in DOMAIN attempts /\ attempts[mine[c]].outcome = "open"
        /\ \A d \in Calls : stage'[d] = IF d = c THEN "ready" ELSE stage[d]
        /\ stage[c] = "seal"
    BY <1>10, <1>14 DEF SealFails, Stage, Outcomes
  <2>3. CylindersOf(mine[c]) = {}
    BY <2>2 DEF AuditInv, EvidenceInv
  <2>4. CASE about[c] # "artifact"
    <3>1. Sealing' = Sealing
      BY <2>1, <2>2, <2>4 DEF Sealing
    <3> QED
      BY <1>4, <2>1, <2>2, <3>1
  <2>5. CASE about[c] = "artifact"
    <3>1. /\ Sealing' = Sealing \ {c} /\ c \in Sealing
          /\ SealedNow' = SealedNow
          /\ Unsealed' = Unsealed \cup {mine[c]} /\ mine[c] \notin Unsealed
      <4>1. Sealing' = Sealing \ {c} /\ c \in Sealing
        BY <2>1, <2>2, <2>5 DEF Sealing
      <4>2. SealedNow' = SealedNow
        BY <2>1, <2>2 DEF SealedNow, CylindersOf
      <4>3. Unsealed' = Unsealed \cup {mine[c]} /\ mine[c] \notin Unsealed
        BY <2>1, <2>2, <2>3 DEF Unsealed, CylindersOf
      <4> QED
        BY <4>1, <4>2, <4>3
    <3>2. /\ Sealing \in SUBSET Calls /\ SealedNow \in SUBSET DOMAIN attempts
          /\ Unsealed \in SUBSET DOMAIN attempts
      BY DEF Sealing, SealedNow, Unsealed
    <3>3. PICK n \in Nat, s \in Nat, u \in Nat :
              /\ n = Cardinality(SealedNow) /\ s = Cardinality(Sealing)
              /\ u = Cardinality(Unsealed)
      BY <3>2, Countable
    <3>4. Cardinality(Sealing') = s - 1 /\ Cardinality(Sealing') \in Nat
      <4>1. IsFiniteSet(Sealing) /\ Sealing \ {c} \in SUBSET Calls
        BY <3>2, Countable
      <4>2. Cardinality(Sealing \ {c}) \in Nat
        BY <4>1, Countable
      <4> QED
        BY <3>1, <3>3, <4>1, <4>2, FS_RemoveElement
    <3>5. Cardinality(Unsealed') = u + 1
      BY <3>1, <3>2, <3>3, Countable, FS_AddElement
    <3>6. PICK r \in Nat : r = Cardinality(Sealing') /\ s = r + 1
      BY <3>4
    <3>7. Pays(sessionTotal, n + s, u) /\ sessionTotal \in Nat
      BY <3>3, ChargedIsPaid DEF ChargeInv, Meter!TypeOK
    <3>8. Pays(sessionTotal, n + r, u + 1)
      <4>1. n + s = (n + r) + 1
        BY <3>6
      <4> QED
        BY <3>7, <4>1, PaysUnsealed
    <3>9. Pays(sessionTotal', Cardinality(SealedNow') + Cardinality(Sealing'),
               Cardinality(Unsealed'))
      BY <2>1, <3>1, <3>3, <3>5, <3>6, <3>8
    <3>10. ChargedForArtifacts'
      BY <3>9 DEF ChargedForArtifacts, Pays, SealedNow, Sealing, Unsealed
    <3> QED
      BY <2>1, <3>10 DEF ChargeInv
  <2> QED
    BY <2>4, <2>5
<1>15. ASSUME NEW c \in Calls, SealWrites(c)
       PROVE  ChargeInv'
  <2> DEFINE r == [attempt |-> mine[c], about |-> about[c], process |-> restarts]
  <2>1. /\ mine[c] \in DOMAIN attempts /\ stage[c] = "seal"
        /\ \A d \in Calls : stage'[d] = IF d = c THEN "written" ELSE stage[d]
        /\ UNCHANGED <<about, attempts, restarts, sessionTotal>>
        /\ CylindersOf(mine[c]) = {} /\ attempts[mine[c]].outcome = "open"
    BY <1>3, <1>15 DEF SealWrites, Go, AuditInv, EvidenceInv, meterVars, PipeTypeOK
  <2>2. /\ r \in Cylinder /\ r.attempt = mine[c] /\ r.about = about[c]
        /\ r.process = restarts /\ restarts \in Nat
    <3>1. mine[c] \in 1..MaxAttempts /\ about[c] \in About /\ restarts \in 0..MaxRestarts
      BY <2>1, AttemptsAssumption DEF PipeTypeOK, Meter!TypeOK
    <3> QED
      BY <3>1 DEF Cylinder
  <2>3. chain' = Append(chain, r)
    BY <1>15 DEF SealWrites
  <2> HIDE DEF r
  <2>4. /\ DOMAIN chain' = DOMAIN chain \cup {Len(chain) + 1}
        /\ Len(chain) + 1 \notin DOMAIN chain
        /\ \A i \in DOMAIN chain : chain'[i] = chain[i]
        /\ chain'[Len(chain) + 1] = r
        /\ \A a : CylindersOf(a)' =
               IF a = mine[c] THEN CylindersOf(a) \cup {Len(chain) + 1} ELSE CylindersOf(a)
    BY <2>2, <2>3, CylinderAppended
  <2>5. Unsealed' = Unsealed
    BY <2>1, <2>4 DEF Unsealed
  <2>6. \A i \in DOMAIN chain' : chain'[i].process \in 0..restarts'
    BY <2>1, <2>2, <2>4 DEF ChargeInv
  <2>7. \A a \in DOMAIN attempts : a # mine[c] => (a \in SealedNow' <=> a \in SealedNow)
    BY <2>1, <2>4 DEF SealedNow, CylindersOf
  <2>8. CASE about[c] # "artifact"
    <3>1. mine[c] \notin SealedNow' /\ mine[c] \notin SealedNow
      BY <2>1, <2>2, <2>4, <2>8 DEF SealedNow
    <3>2. SealedNow' = SealedNow /\ Sealing' = Sealing
      <4>1. Sealing' = Sealing
        BY <2>1, <2>8 DEF Sealing
      <4>2. SealedNow \subseteq DOMAIN attempts /\ SealedNow' \subseteq DOMAIN attempts
        BY <2>1 DEF SealedNow
      <4> QED
        BY <2>7, <3>1, <4>1, <4>2
    <3>3. Pays(sessionTotal', Cardinality(SealedNow') + Cardinality(Sealing'),
               Cardinality(Unsealed'))
      BY <2>1, <2>5, <3>2, ChargedIsPaid DEF ChargeInv
    <3>4. ChargedForArtifacts'
      BY <3>3 DEF ChargedForArtifacts, Pays, SealedNow, Sealing, Unsealed
    <3> QED
      BY <2>6, <3>4 DEF ChargeInv
  <2>9. CASE about[c] = "artifact"
    <3>1. Sealing' = Sealing \ {c} /\ c \in Sealing
      BY <2>1, <2>9 DEF Sealing
    <3>2. mine[c] \in SealedNow' /\ mine[c] \notin SealedNow
      BY <2>1, <2>2, <2>4, <2>9 DEF SealedNow
    <3>3. SealedNow' = SealedNow \cup {mine[c]}
      <4>1. SealedNow \subseteq DOMAIN attempts /\ SealedNow' \subseteq DOMAIN attempts
        BY <2>1 DEF SealedNow
      <4> QED
        BY <2>7, <3>2, <4>1
    <3>4. Sealing \in SUBSET Calls /\ SealedNow \in SUBSET DOMAIN attempts
      BY DEF Sealing, SealedNow
    <3>5. PICK n \in Nat, s \in Nat :
              n = Cardinality(SealedNow) /\ s = Cardinality(Sealing)
      BY <3>4, Countable
    <3>6. Cardinality(Sealing') = s - 1 /\ Cardinality(Sealing') \in Nat
      <4>1. IsFiniteSet(Sealing) /\ Sealing \ {c} \in SUBSET Calls
        BY <3>4, Countable
      <4>2. Cardinality(Sealing \ {c}) \in Nat
        BY <4>1, Countable
      <4> QED
        BY <3>1, <3>5, <4>1, <4>2, FS_RemoveElement
    <3>7. Cardinality(SealedNow') = n + 1
      BY <3>2, <3>3, <3>4, <3>5, Countable, FS_AddElement
    <3>8. Cardinality(SealedNow') + Cardinality(Sealing') = n + s
      BY <3>6, <3>7
    <3>9. Pays(sessionTotal', Cardinality(SealedNow') + Cardinality(Sealing'),
               Cardinality(Unsealed'))
      BY <2>1, <2>5, <3>5, <3>8, ChargedIsPaid DEF ChargeInv
    <3>10. ChargedForArtifacts'
      BY <3>9 DEF ChargedForArtifacts, Pays, SealedNow, Sealing, Unsealed
    <3> QED
      BY <2>6, <3>10 DEF ChargeInv
  <2> QED
    BY <2>8, <2>9
<1> QED
  BY <1>5, <1>6, <1>7, <1>8, <1>9, <1>12, <1>13, <1>14, <1>15 DEF Next, Proceed

\* The session is charged once for each artifact it sealed, is sealing or failed to
\* seal, and for nothing else, however calls, failing seals and restarts interleave.
THEOREM Charged == Spec => []ChargedForArtifacts
<1>1. Init => ConformInv /\ ChargeInv
  <2> SUFFICES ASSUME Init
               PROVE  ConformInv /\ ChargeInv
    OBVIOUS
  <2>1. chain = <<>> /\ attempts = <<>> /\ sessionTotal = 0 /\ stage = [c \in Calls |-> "ready"]
    BY DEF Init, Meter!Init
  <2>2. SealedNow = {} /\ Sealing = {} /\ Unsealed = {}
    BY <2>1 DEF SealedNow, Sealing, Unsealed
  <2>3. Cardinality(SealedNow) + Cardinality(Sealing) = 0 /\ Cardinality(Unsealed) = 0
    BY <2>2, FS_EmptySet
  <2>4. ChargedForArtifacts
    BY <2>1, <2>3, ChargedIsPaid, PaysNothing
  <2> QED
    BY <2>1, <2>4 DEF ConformInv, ChargeInv
<1>2. TypeOK => PipeTypeOK /\ Meter!TypeOK
  BY DEF TypeOK, PipeTypeOK
<1>3. /\ TypeOK /\ TypeOK' /\ PipeTypeOK' /\ CallInv /\ AuditInv /\ ConformInv /\ ChargeInv
      /\ [Next]_vars
      => ConformInv' /\ ChargeInv'
  BY <1>2, ConformStep, ChargeStep
<1>4. ChargeInv => ChargedForArtifacts
  BY DEF ChargeInv
<1> QED
  BY <1>1, <1>3, <1>4, Inductive, PTL DEF Spec

-----------------------------------------------------------------------------
(* What one process can seal *)

\* The calls that passed the session check and have not been charged yet count as
\* if they had been.
SessionInv ==
    sessionTotal + Est * Cardinality(Meter!SessionHolders) <= CapSession + Meter!Slack

\* n estimates, for a number of calls.
LEMMA Estimated ==
    ASSUME NEW n \in Nat
    PROVE  /\ Est \in Nat /\ CapSession \in Nat
           /\ Est * n \in Nat
           /\ Est * (n + 1) = Est * n + Est
BY MeterAssumption DEF Meter!AmountAssumption

\* Fewer calls have fewer estimates.
LEMMA FewerEstimated ==
    ASSUME NEW n \in Nat, NEW m \in Nat, m <= n
    PROVE  Est * m <= Est * n
<1>1. PICK d \in Nat : n = m + d
  BY n - m \in Nat
<1>2. Est * n = Est * m + Est * d /\ Est * d \in Nat /\ Est * m \in Nat
  BY <1>1, Estimated
<1> QED
  BY <1>2

\* Any set of calls is finite and no larger than Calls, which is not empty.
LEMMA CallSets ==
    ASSUME NEW S, S \subseteq Calls
    PROVE  /\ IsFiniteSet(S) /\ Cardinality(S) \in Nat
           /\ Cardinality(Calls) \in Nat \ {0} /\ Cardinality(S) <= Cardinality(Calls)
<1>1. IsFiniteSet(Calls) /\ Calls # {}
  BY MeterAssumption DEF Meter!CallsAssumption, Meter!IsFiniteSet, IsFiniteSet
<1>2. IsFiniteSet(S) /\ Cardinality(S) <= Cardinality(Calls)
  BY <1>1, FS_Subset
<1>3. Cardinality(Calls) \in Nat /\ Cardinality(Calls) # 0 /\ Cardinality(S) \in Nat
  BY <1>1, <1>2, FS_CardinalityType, FS_EmptySet
<1> QED
  BY <1>2, <1>3

\* The slack is one estimate for each call beside the first.
LEMMA SlackType == Meter!Slack \in Nat /\ Meter!Slack + Est = Est * Cardinality(Calls)
<1>1. PICK n \in Nat : Cardinality(Calls) = n + 1
  BY CallSets, Cardinality(Calls) - 1 \in Nat
<1>2. Meter!Cardinality(Calls) = Cardinality(Calls)
  BY DEF Meter!Cardinality, Cardinality
<1>3. Meter!Slack = Est * n
  BY <1>1, <1>2 DEF Meter!Slack
<1> QED
  BY <1>1, <1>3, Estimated

\* A step of the meter after which no further call holds the session.
LEMMA SessionKept ==
    ASSUME Meter!TypeOK, SessionInv, sessionTotal' = sessionTotal,
           Meter!SessionHolders' \subseteq Meter!SessionHolders
    PROVE  SessionInv'
<1> DEFINE m == Cardinality(Meter!SessionHolders')
           n == Cardinality(Meter!SessionHolders)
<1>1. m \in Nat /\ n \in Nat /\ m <= n
  BY CallSets, FS_Subset DEF Meter!SessionHolders
<1>2. sessionTotal + Est * n <= CapSession + Meter!Slack
  BY DEF SessionInv
<1> HIDE DEF m, n
<1>3. Est * m <= Est * n /\ Est * m \in Nat /\ Est * n \in Nat
  BY <1>1, FewerEstimated, Estimated
<1>4. sessionTotal \in Nat /\ CapSession \in Nat /\ Meter!Slack \in Nat
  BY SlackType, Estimated DEF Meter!TypeOK
<1>5. sessionTotal + Est * m <= CapSession + Meter!Slack
  BY <1>2, <1>3, <1>4
<1> QED
  BY <1>5 DEF SessionInv, Meter!Slack, m

\* Checks and reconciliations keep the session within its cap and slack.
LEMMA SessionStep ==
    Meter!TypeOK /\ SessionInv /\ [Meter!Next]_(Meter!vars) => SessionInv'
<1> SUFFICES ASSUME Meter!TypeOK, SessionInv, [Meter!Next]_(Meter!vars)
             PROVE  SessionInv'
  OBVIOUS
<1>1. CASE UNCHANGED Meter!vars \/ Meter!Tick
  BY <1>1, SessionKept DEF Meter!vars, Meter!Tick, Meter!ledgers, Meter!callVars,
                           Meter!SessionHolders
<1>2. CASE Meter!Restart
  <2>1. sessionTotal' = 0 /\ Meter!SessionHolders' = {}
    BY <1>2 DEF Meter!Restart, Meter!SessionHolders
  <2>2. Cardinality(Meter!SessionHolders') = 0
    BY <2>1, FS_EmptySet
  <2>3. 0 + Est * 0 <= CapSession + Meter!Slack
    BY SlackType, Estimated
  <2> QED
    BY <2>1, <2>2, <2>3 DEF SessionInv, Meter!Slack
<1>3. ASSUME NEW c \in Calls, NEW r \in Roles, NEW p \in Principals, NEW e \in Estimates,
             Meter!CheckRole(c, r, p, e)
      PROVE  SessionInv'
  BY <1>3, SessionKept DEF Meter!CheckRole, Meter!Move, Meter!ledgers, Meter!SessionHolders,
                           Meter!TypeOK
<1>4. ASSUME NEW c \in Calls,
             \/ Meter!CheckPrincipal(c) \/ Meter!Abandon(c) \/ Meter!Refuse(c)
      PROVE  SessionInv'
  BY <1>4, SessionKept DEF Meter!CheckPrincipal, Meter!Abandon, Meter!Refuse, Meter!Move,
                           Meter!ledgers, Meter!SessionHolders, Meter!TypeOK
<1>5. ASSUME NEW c \in Calls,
             \/ Meter!ReadClock(c) \/ Meter!ReconcileRole(c) \/ Meter!ReconcilePrincipal(c)
      PROVE  SessionInv'
  BY <1>5, SessionKept DEF Meter!ReadClock, Meter!ReconcileRole, Meter!ReconcilePrincipal,
                           Meter!Move, Meter!ledgers, Meter!SessionHolders, Meter!TypeOK
<1>6. ASSUME NEW c \in Calls, Meter!CheckSession(c)
      PROVE  SessionInv'
  <2>1. CASE sessionTotal + Est > CapSession
    BY <1>6, <2>1, SessionKept DEF Meter!CheckSession, Meter!Move, Meter!ledgers,
                                   Meter!SessionHolders, Meter!TypeOK
  <2>2. CASE ~(sessionTotal + Est > CapSession)
    <3> DEFINE m == Cardinality(Meter!SessionHolders')
    <3>1. m \in Nat /\ m <= Cardinality(Calls) /\ Cardinality(Calls) \in Nat
      BY CallSets DEF Meter!SessionHolders
    <3>2. sessionTotal' = sessionTotal /\ sessionTotal \in Nat
      BY <1>6 DEF Meter!CheckSession, Meter!ledgers, Meter!TypeOK
    <3> HIDE DEF m
    <3>3. Est * m <= Meter!Slack + Est /\ Est * m \in Nat
      BY <3>1, FewerEstimated, SlackType, Estimated
    <3>4. sessionTotal + Est * m <= CapSession + Meter!Slack
      BY <2>2, <3>2, <3>3, SlackType, Estimated
    <3> QED
      BY <3>2, <3>4 DEF SessionInv, Meter!Slack, m
  <2> QED
    BY <2>1, <2>2
<1>7. ASSUME NEW c \in Calls, Meter!ReconcileSession(c)
      PROVE  SessionInv'
  <2> DEFINE m == Cardinality(Meter!SessionHolders')
             n == Cardinality(Meter!SessionHolders)
  <2>1. /\ c \in Meter!SessionHolders /\ sessionTotal' = sessionTotal + Est
        /\ Meter!SessionHolders' = Meter!SessionHolders \ {c}
    BY <1>7 DEF Meter!ReconcileSession, Meter!Move, Meter!SessionHolders, Meter!TypeOK
  <2>2. IsFiniteSet(Meter!SessionHolders) /\ n \in Nat /\ m \in Nat
    BY CallSets DEF Meter!SessionHolders
  <2>3. n = m + 1
    BY <2>1, <2>2, FS_RemoveElement
  <2>4. sessionTotal + Est * n <= CapSession + Meter!Slack
    BY DEF SessionInv
  <2> HIDE DEF m, n
  <2>5. /\ sessionTotal \in Nat /\ CapSession \in Nat /\ Meter!Slack \in Nat
        /\ Est * n = Est * m + Est /\ Est * m \in Nat /\ Est \in Nat
    BY <2>2, <2>3, SlackType, Estimated DEF Meter!TypeOK
  <2>6. sessionTotal + Est + Est * m <= CapSession + Meter!Slack
    BY <2>4, <2>5
  <2> QED
    BY <2>1, <2>6 DEF SessionInv, Meter!Slack, m
<1> QED
  BY <1>1, <1>2, <1>3, <1>4, <1>5, <1>6, <1>7 DEF Meter!Next, Meter!Step

\* The budget bounds the evidence: however calls race through the gate, fail and
\* restart, one process never seals more artifacts than its session cap pays for,
\* but one for each further call that may be in flight.
THEOREM SealedWithinBudget ==
    Spec => [](Est * Cardinality(SealedNow) <= CapSession + Meter!Slack)
<1>1. Init => SessionInv
  <2> SUFFICES ASSUME Init
               PROVE  SessionInv
    OBVIOUS
  <2>1. sessionTotal = 0 /\ Meter!SessionHolders = {}
    BY DEF Init, Meter!Init, Meter!SessionHolders
  <2> QED
    BY <2>1, FS_EmptySet, SlackType, Estimated DEF SessionInv
<1>2. TypeOK => PipeTypeOK /\ Meter!TypeOK
  BY DEF TypeOK, PipeTypeOK
<1>3. TypeOK /\ CallInv /\ SessionInv /\ [Next]_vars => SessionInv'
  BY <1>2, MeterStep, SessionStep
<1>4. TypeOK /\ SessionInv /\ ChargedForArtifacts =>
          Est * Cardinality(SealedNow) <= CapSession + Meter!Slack
  <2> SUFFICES ASSUME TypeOK, SessionInv, ChargedForArtifacts
               PROVE  Est * Cardinality(SealedNow) <= CapSession + Meter!Slack
    OBVIOUS
  <2>1. PICK h \in Nat : h = Cardinality(Meter!SessionHolders)
    BY CallSets DEF Meter!SessionHolders
  <2>2. PICK n \in Nat, s \in Nat : n = Cardinality(SealedNow) /\ s = Cardinality(Sealing)
    BY <1>2, Countable DEF SealedNow, Sealing
  <2>3. Est * (n + s) <= sessionTotal
    BY <2>2, ChargedIsPaid DEF Pays
  <2>4. Est * n <= Est * (n + s) /\ Est * n \in Nat /\ Est * (n + s) \in Nat
    BY FewerEstimated, Estimated, n + s \in Nat, n <= n + s
  <2>5. sessionTotal + Est * h <= CapSession + Meter!Slack
    BY <2>1 DEF SessionInv
  <2>6. /\ sessionTotal \in Nat /\ CapSession \in Nat /\ Meter!Slack \in Nat
        /\ Est * h \in Nat
    BY <1>2, Estimated, SlackType DEF Meter!TypeOK
  <2>7. Est * n <= CapSession + Meter!Slack
    BY <2>3, <2>4, <2>5, <2>6
  <2> QED
    BY <2>2, <2>7
<1> QED
  BY <1>1, <1>3, <1>4, Inductive, Charged, PTL DEF Spec
=============================================================================
