--------------------------- MODULE CostMeterProofs ---------------------------
(***************************************************************************)
(* Proofs about CostMeter, for every set of calls, every cap and every     *)
(* window: the type invariant, and the three bounds on what a session, a   *)
(* role and a principal can be charged while calls race.                   *)
(*                                                                         *)
(* The bounds are not inductive: a call that has passed a check will       *)
(* charge the ledger later without looking at it again.  The invariant     *)
(* therefore counts those calls ("holders") as if they had been charged.   *)
(***************************************************************************)
EXTENDS CostMeter, TLAPS, FiniteSetTheorems

N == Cardinality(Calls)

\* n estimates fit under a cap with the slack that concurrency costs.
Within(n, cap) == Est * n <= cap + Slack

Recorded(spend, window) == Cardinality(RecentEntries(spend, window))

RoleInv ==
    \A r \in Roles :
        Within(Recorded(roleSpend[r], Day) + Cardinality(RoleHolders(r)), CapRole)
PrincipalInv ==
    \A p \in Principals :
        Within(Recorded(principalSpend[p], Hour) + Cardinality(PrincipalHolders(p)),
               CapPrincipal)
SessionInv == sessionTotal + Est * Cardinality(SessionHolders) <= CapSession + Slack

-----------------------------------------------------------------------------
(* Sets of calls and of ledger entries *)

\* Any set of calls is finite and no larger than Calls, which is not empty.
LEMMA CallSets ==
    ASSUME NEW S, S \subseteq Calls
    PROVE  /\ IsFiniteSet(S)
           /\ Cardinality(S) \in Nat
           /\ N \in Nat
           /\ Cardinality(S) <= N
           /\ N >= 1
<1>1. IsFiniteSet(Calls)
  BY CallsAssumption
<1>2. N \in Nat
  BY <1>1, FS_CardinalityType DEF N
<1>3. N # 0
  BY <1>1, FS_EmptySet, CallsAssumption DEF N
<1>4. IsFiniteSet(S) /\ Cardinality(S) <= N
  BY <1>1, FS_Subset DEF N
<1>5. Cardinality(S) \in Nat
  BY <1>4, FS_CardinalityType
<1> QED
  BY <1>2, <1>3, <1>4, <1>5

\* A call leaving a set of calls makes it one smaller.
LEMMA CallLeaves ==
    ASSUME NEW S, S \subseteq Calls, NEW c \in S
    PROVE  Cardinality(S \ {c}) = Cardinality(S) - 1
BY CallSets, FS_RemoveElement

\* A subset of a set of calls is no larger.
LEMMA FewerCalls ==
    ASSUME NEW S, S \subseteq Calls, NEW T, T \subseteq S
    PROVE  Cardinality(T) <= Cardinality(S)
BY CallSets, FS_Subset

\* The entries of a ledger that a window counts are finitely many.
LEMMA RecentFinite ==
    ASSUME NEW spend \in Seq(Nat), NEW window
    PROVE  /\ IsFiniteSet(RecentEntries(spend, window))
           /\ Recorded(spend, window) \in Nat
<1>1. IsFiniteSet(DOMAIN spend)
  BY FS_Interval
<1>2. RecentEntries(spend, window) \subseteq DOMAIN spend
  BY DEF RecentEntries
<1> QED
  BY <1>1, <1>2, FS_Subset, FS_CardinalityType DEF Recorded

\* Adding an element makes a finite set at most one larger.
LEMMA AtMostOneMore ==
    ASSUME NEW S, IsFiniteSet(S), NEW x
    PROVE  /\ IsFiniteSet(S \cup {x})
           /\ Cardinality(S \cup {x}) \in Nat
           /\ Cardinality(S \cup {x}) <= Cardinality(S) + 1
<1>1. Cardinality(S) \in Nat
  BY FS_CardinalityType
<1>2. IsFiniteSet(S \cup {x})
  BY FS_AddElement
<1>3. Cardinality(S \cup {x}) = Cardinality(S) \/ Cardinality(S \cup {x}) = Cardinality(S) + 1
  BY FS_AddElement
<1> QED
  BY <1>1, <1>2, <1>3

\* Appending one entry makes a window count at most one more.
LEMMA RecentAppend ==
    ASSUME NEW spend \in Seq(Nat), NEW window, NEW t \in Nat
    PROVE  Recorded(Append(spend, t), window) <= Recorded(spend, window) + 1
<1> DEFINE new == Len(spend) + 1
           A == RecentEntries(Append(spend, t), window)
           B == RecentEntries(spend, window)
<1>1. A \subseteq B \cup {new}
  BY DEF RecentEntries
<1>2. IsFiniteSet(B) /\ Cardinality(B) \in Nat
  BY RecentFinite DEF Recorded
<1>3. /\ IsFiniteSet(B \cup {new})
      /\ Cardinality(B \cup {new}) \in Nat
      /\ Cardinality(B \cup {new}) <= Cardinality(B) + 1
  <2> HIDE DEF B, new
  <2> QED
    BY <1>2, AtMostOneMore
<1>4. IsFiniteSet(A) /\ Cardinality(A) \in Nat
  BY RecentFinite, Append(spend, t) \in Seq(Nat) DEF Recorded
<1>5. Cardinality(A) <= Cardinality(B \cup {new})
  BY <1>1, <1>3, FS_Subset
<1> QED
  BY <1>2, <1>3, <1>4, <1>5 DEF Recorded

\* A new process starts with ledgers that no window counts anything in.
LEMMA RecentEmpty ==
    ASSUME NEW window
    PROVE  Recorded(<<>>, window) = 0
<1>1. RecentEntries(<<>>, window) = {}
  BY DEF RecentEntries
<1> QED
  BY <1>1, FS_EmptySet DEF Recorded

-----------------------------------------------------------------------------
(* Arithmetic of estimates *)

\* The slack is one estimate for each call beside the first.
LEMMA SlackType == Slack \in Nat /\ Slack = Est * (N - 1) /\ N \in Nat /\ N >= 1
<1>1. N \in Nat /\ N >= 1
  BY CallSets
<1>2. N - 1 \in Nat
  BY <1>1
<1> QED
  BY <1>1, <1>2, AmountAssumption DEF Slack, N

\* Nothing recorded and nobody holding fits under any cap.
LEMMA WithinZero ==
    ASSUME NEW cap \in Nat
    PROVE  Within(0, cap)
BY SlackType, AmountAssumption DEF Within

\* What fits under a cap still fits when it gets smaller.
LEMMA WithinFewer ==
    ASSUME NEW cap \in Nat, NEW m \in Nat, NEW n \in Nat, m <= n, Within(n, cap)
    PROVE  Within(m, cap)
<1>1. PICK d \in Nat : n = m + d
  BY n - m \in Nat
<1>2. Est * n = Est * m + Est * d /\ Est * d \in Nat /\ Est * m \in Nat
  BY <1>1, AmountAssumption
<1> QED
  BY <1>2, SlackType, AmountAssumption DEF Within

\* A check that passes for one call leaves room for every call in flight:
\* the one checked fits under the cap, the others under the slack.
LEMMA WithinCheck ==
    ASSUME NEW cap \in Nat, NEW m \in Nat, NEW h \in Nat, h <= N,
           Est * m + Est <= cap
    PROVE  Within(m + h, cap)
<1>1. PICK d \in Nat : N = h + d
  BY SlackType, N - h \in Nat
<1>2. /\ Est * N = Est * h + Est * d
      /\ Est * d \in Nat
      /\ Est * h \in Nat
      /\ Est * m \in Nat
  BY <1>1, AmountAssumption
<1>3. Est * (m + h) = Est * m + Est * h
  BY AmountAssumption
<1>4. Est * (N - 1) = Est * N - Est
  BY SlackType, AmountAssumption
<1> QED
  BY <1>2, <1>3, <1>4, SlackType, AmountAssumption DEF Within

-----------------------------------------------------------------------------
(* Type correctness *)

\* No step of the meter breaks a type.
LEMMA TypeStep == TypeOK /\ [Next]_vars => TypeOK'
<1> SUFFICES ASSUME TypeOK, [Next]_vars
             PROVE  TypeOK'
  OBVIOUS
<1> USE DEF TypeOK, Phase, Move, ledgers, callVars
<1>1. CASE UNCHANGED vars
  BY <1>1 DEF vars
<1>2. CASE Tick
  BY <1>2, TimeAssumption DEF Tick
<1>3. CASE Restart
  <2>1. forgotten' \in [Roles -> Seq(Nat)]
    <3>1. \A r \in Roles : forgotten[r] \o roleSpend[r] \in Seq(Nat)
      OBVIOUS
    <3> QED
      BY <1>3, <3>1 DEF Restart, EverSpent
  <2>2. restarts' \in 0..MaxRestarts
    BY <1>3, TimeAssumption DEF Restart
  <2>3. /\ sessionTotal' \in Nat /\ phase' \in [Calls -> Phase]
        /\ UNCHANGED <<now, callRole, callPrincipal, stamp>>
    BY <1>3 DEF Restart
  <2>4. roleSpend' \in [Roles -> Seq(Nat)] /\ principalSpend' \in [Principals -> Seq(Nat)]
    BY <1>3 DEF Restart
  <2> QED
    BY <2>1, <2>2, <2>3, <2>4
<1>4. ASSUME NEW c \in Calls, NEW r \in Roles, NEW p \in Principals, NEW e \in Estimates,
             CheckRole(c, r, p, e)
      PROVE  TypeOK'
  BY <1>4 DEF CheckRole
<1>5. ASSUME NEW c \in Calls, CheckPrincipal(c)
      PROVE  TypeOK'
  BY <1>5 DEF CheckPrincipal
<1>6. ASSUME NEW c \in Calls, CheckSession(c)
      PROVE  TypeOK'
  BY <1>6 DEF CheckSession
<1>7. ASSUME NEW c \in Calls, ReadClock(c) \/ ReconcileRole(c)
      PROVE  TypeOK'
  <2>1. CASE ReadClock(c)
    BY <2>1 DEF ReadClock
  <2>2. CASE ReconcileRole(c)
    <3>1. Append(roleSpend[callRole[c]], stamp[c]) \in Seq(Nat)
      OBVIOUS
    <3> QED
      BY <2>2, <3>1 DEF ReconcileRole
  <2> QED
    BY <1>7, <2>1, <2>2
<1>8. ASSUME NEW c \in Calls, ReconcilePrincipal(c)
      PROVE  TypeOK'
  BY <1>8 DEF ReconcilePrincipal
<1>9. ASSUME NEW c \in Calls, ReconcileSession(c)
      PROVE  TypeOK'
  BY <1>9, AmountAssumption DEF ReconcileSession
<1>10. ASSUME NEW c \in Calls, Abandon(c) \/ Refuse(c)
       PROVE  TypeOK'
  BY <1>10 DEF Abandon, Refuse
<1> QED
  BY <1>1, <1>2, <1>3, <1>4, <1>5, <1>6, <1>7, <1>8, <1>9, <1>10 DEF Next, Step

\* Every ledger, cursor and counter of the meter keeps its type: in particular a
\* reconciliation always finds the role and the principal it is to charge.
THEOREM TypeCorrect == Spec => []TypeOK
<1>1. Init => TypeOK
  <2> SUFFICES ASSUME Init
               PROVE  TypeOK
    OBVIOUS
  <2>1. (CHOOSE r \in Roles : TRUE) \in Roles /\ (CHOOSE p \in Principals : TRUE) \in Principals
    BY NamesAssumption
  <2> QED
    BY <2>1, TimeAssumption DEF Init, TypeOK, Phase
<1> QED
  BY <1>1, TypeStep, PTL DEF Spec

-----------------------------------------------------------------------------
(* The session bound *)

\* Checks and reconciliations keep the session total within its cap and slack,
\* counting every call that passed the session check as already charged.
LEMMA SessionStep == TypeOK /\ SessionInv /\ [Next]_vars => SessionInv'
<1> SUFFICES ASSUME TypeOK, SessionInv, [Next]_vars
             PROVE  SessionInv'
  OBVIOUS
<1> DEFINE H == SessionHolders
           H2 == SessionHolders'
<1>1. /\ H \subseteq Calls
      /\ H2 \subseteq Calls
      /\ Cardinality(H) \in Nat
      /\ Cardinality(H2) \in Nat
      /\ Cardinality(H2) <= N
  BY CallSets DEF SessionHolders
<1>2. sessionTotal \in Nat
  BY DEF TypeOK
<1>3. ASSUME sessionTotal' = sessionTotal, H2 \subseteq H
      PROVE  SessionInv'
  <2>1. Cardinality(H2) <= Cardinality(H)
    BY <1>1, <1>3, FewerCalls
  <2>2. PICK d \in Nat : Cardinality(H) = Cardinality(H2) + d
    BY <2>1, <1>1, Cardinality(H) - Cardinality(H2) \in Nat
  <2>3. Est * Cardinality(H) = Est * Cardinality(H2) + Est * d /\ Est * d \in Nat
    BY <2>2, <1>1, AmountAssumption
  <2>4. Est * Cardinality(H2) \in Nat
    BY <1>1, AmountAssumption
  <2> QED
    BY <2>3, <2>4, <1>1, <1>2, <1>3, SlackType, AmountAssumption DEF SessionInv
<1>4. CASE UNCHANGED vars
  BY <1>4, <1>3 DEF vars, ledgers, callVars, SessionHolders
<1>5. CASE Tick
  BY <1>5, <1>3 DEF Tick, ledgers, callVars, SessionHolders
<1>6. CASE Restart
  <2>1. sessionTotal' = 0 /\ H2 = {}
    BY <1>6 DEF Restart, SessionHolders
  <2>2. Cardinality(H2) = 0
    BY <2>1, FS_EmptySet
  <2> QED
    BY <2>1, <2>2, SlackType, AmountAssumption DEF SessionInv
<1>7. ASSUME NEW c \in Calls, NEW r \in Roles, NEW p \in Principals, NEW e \in Estimates,
             CheckRole(c, r, p, e)
      PROVE  SessionInv'
  BY <1>7, <1>3 DEF CheckRole, Move, ledgers, SessionHolders, TypeOK
<1>8. ASSUME NEW c \in Calls, CheckPrincipal(c)
      PROVE  SessionInv'
  BY <1>8, <1>3 DEF CheckPrincipal, Move, ledgers, SessionHolders, TypeOK
<1>9. ASSUME NEW c \in Calls, CheckSession(c)
      PROVE  SessionInv'
  <2>1. CASE sessionTotal + Est > CapSession
    BY <2>1, <1>9, <1>3 DEF CheckSession, Move, ledgers, SessionHolders, TypeOK
  <2>2. CASE ~(sessionTotal + Est > CapSession)
    <3>1. sessionTotal' = sessionTotal
      BY <1>9 DEF CheckSession, ledgers
    <3>2. sessionTotal + Est <= CapSession
      BY <2>2, <1>2, AmountAssumption
    <3>3. Est * Cardinality(H2) <= Est * N
      <4>1. PICK d \in Nat : N = Cardinality(H2) + d
        BY <1>1, SlackType, N - Cardinality(H2) \in Nat
      <4>2. Est * N = Est * Cardinality(H2) + Est * d /\ Est * d \in Nat
        BY <4>1, <1>1, AmountAssumption
      <4>3. Est * Cardinality(H2) \in Nat
        BY <1>1, AmountAssumption
      <4> QED
        BY <4>2, <4>3
    <3>4. Est * (N - 1) = Est * N - Est /\ Est * N \in Nat /\ Est * Cardinality(H2) \in Nat
      BY <1>1, SlackType, AmountAssumption
    <3> QED
      BY <3>1, <3>2, <3>3, <3>4, <1>2, SlackType, AmountAssumption DEF SessionInv
  <2> QED
    BY <2>1, <2>2
<1>10. ASSUME NEW c \in Calls, ReadClock(c) \/ ReconcileRole(c) \/ ReconcilePrincipal(c)
       PROVE  SessionInv'
  BY <1>10, <1>3 DEF ReadClock, ReconcileRole, ledgers, ReconcilePrincipal, Move, SessionHolders, TypeOK
<1>11. ASSUME NEW c \in Calls, ReconcileSession(c)
       PROVE  SessionInv'
  <2>1. c \in H /\ H2 = H \ {c} /\ sessionTotal' = sessionTotal + Est
    BY <1>11 DEF ReconcileSession, Move, SessionHolders, TypeOK
  <2>2. Cardinality(H2) = Cardinality(H) - 1
    BY <2>1, <1>1, CallLeaves
  <2>3. Est * Cardinality(H) = Est * Cardinality(H2) + Est
    BY <2>2, <1>1, AmountAssumption
  <2>4. Est * Cardinality(H2) \in Nat
    BY <1>1, AmountAssumption
  <2> QED
    BY <2>1, <2>3, <2>4, <1>2, SlackType, AmountAssumption DEF SessionInv
<1>12. ASSUME NEW c \in Calls, Abandon(c) \/ Refuse(c)
       PROVE  SessionInv'
  BY <1>12, <1>3 DEF Abandon, Refuse, Move, ledgers, SessionHolders, TypeOK
<1> QED
  BY <1>4, <1>5, <1>6, <1>7, <1>8, <1>9, <1>10, <1>11, <1>12 DEF Next, Step

\* The session total never exceeds the session cap by more than one estimate for
\* each further call that may be in flight.
THEOREM SessionBounded == Spec => []SessionBound
<1>1. Init => SessionInv
  <2> SUFFICES ASSUME Init
               PROVE  SessionInv
    OBVIOUS
  <2>1. SessionHolders = {} /\ sessionTotal = 0
    BY DEF Init, SessionHolders
  <2> QED
    BY <2>1, FS_EmptySet, SlackType, AmountAssumption DEF SessionInv
<1>2. TypeOK /\ SessionInv => SessionBound
  <2> SUFFICES ASSUME TypeOK, SessionInv
               PROVE  SessionBound
    OBVIOUS
  <2>1. Cardinality(SessionHolders) \in Nat
    BY CallSets DEF SessionHolders
  <2>2. Est * Cardinality(SessionHolders) \in Nat
    BY <2>1, AmountAssumption
  <2> QED
    BY <2>2, SlackType, AmountAssumption DEF SessionInv, SessionBound, TypeOK
<1> QED
  BY <1>1, <1>2, SessionStep, TypeCorrect, PTL DEF Spec

-----------------------------------------------------------------------------
(* The bound on one role *)

\* Checks, reconciliations and clock ticks keep what a role spent in its window
\* within the cap and slack, counting every call that passed the role's check.
LEMMA RoleStep == TypeOK /\ RoleInv /\ [Next]_vars => RoleInv'
<1> SUFFICES ASSUME TypeOK, RoleInv, [Next]_vars, NEW n \in Roles
             PROVE  Within((Recorded(roleSpend[n], Day) + Cardinality(RoleHolders(n)))', CapRole)
  BY DEF RoleInv, Within, Slack
<1> DEFINE R == Recorded(roleSpend[n], Day)
           R2 == Recorded(roleSpend[n], Day)'
           H == RoleHolders(n)
           H2 == RoleHolders(n)'
<1>1. /\ H \subseteq Calls
      /\ H2 \subseteq Calls
      /\ Cardinality(H) \in Nat
      /\ Cardinality(H2) \in Nat
      /\ Cardinality(H2) <= N
  BY CallSets DEF RoleHolders
<1>2. roleSpend[n] \in Seq(Nat) /\ roleSpend'[n] \in Seq(Nat)
  BY TypeStep DEF TypeOK
<1>3. R \in Nat /\ R2 \in Nat
  <2>1. IsFiniteSet(DOMAIN roleSpend'[n])
    BY <1>2, FS_Interval
  <2>2. RecentEntries(roleSpend[n], Day)' \subseteq DOMAIN roleSpend'[n]
    BY DEF RecentEntries
  <2>3. IsFiniteSet(RecentEntries(roleSpend[n], Day)')
    BY <2>1, <2>2, FS_Subset
  <2> QED
    BY <1>2, <2>3, RecentFinite, FS_CardinalityType DEF Recorded
<1>4. Within(R + Cardinality(H), CapRole)
  BY DEF RoleInv
<1>5. CapRole \in Nat /\ Day \in Nat
  BY AmountAssumption, TimeAssumption
<1> HIDE DEF R, R2, H, H2
<1>6. ASSUME R2 + Cardinality(H2) <= R + Cardinality(H)
      PROVE  Within(R2 + Cardinality(H2), CapRole)
  BY <1>1, <1>3, <1>4, <1>5, <1>6, WithinFewer
<1>7. ASSUME R2 <= R, H2 \subseteq H
      PROVE  Within(R2 + Cardinality(H2), CapRole)
  BY <1>1, <1>3, <1>6, <1>7, FewerCalls
<1>8. ASSUME roleSpend'[n] = roleSpend[n], now' = now
      PROVE  R2 = R
  BY <1>8 DEF R, R2, Recorded, RecentEntries
<1>9. ASSUME UNCHANGED vars
      PROVE  Within(R2 + Cardinality(H2), CapRole)
  BY <1>3, <1>7, <1>8, <1>9 DEF vars, ledgers, callVars, H, H2, RoleHolders
<1>10. ASSUME Tick
       PROVE  Within(R2 + Cardinality(H2), CapRole)
  <2>1. now' = now + 1 /\ roleSpend' = roleSpend /\ H2 = H
    BY <1>10 DEF Tick, ledgers, callVars, H, H2, RoleHolders
  <2>2. RecentEntries(roleSpend[n], Day)' \subseteq RecentEntries(roleSpend[n], Day)
    <3>1. now \in Nat
      BY DEF TypeOK
    <3>2. \A i \in DOMAIN roleSpend[n] : roleSpend[n][i] \in Nat
      BY <1>2
    <3> QED
      BY <2>1, <3>1, <3>2, <1>5 DEF RecentEntries
  <2>3. R2 <= R
    BY <2>2, <1>2, RecentFinite, FS_Subset DEF R, R2, Recorded
  <2> QED
    BY <2>1, <2>3, <1>7
<1>11. ASSUME Restart
       PROVE  Within(R2 + Cardinality(H2), CapRole)
  <2>1. roleSpend'[n] = <<>> /\ H2 = {}
    BY <1>11 DEF Restart, H2, RoleHolders
  <2>2. RecentEntries(roleSpend[n], Day)' = {}
    BY <2>1 DEF RecentEntries
  <2>3. R2 = 0 /\ Cardinality(H2) = 0
    BY <2>1, <2>2, FS_EmptySet DEF R2, Recorded
  <2> QED
    BY <2>3, <1>5, WithinZero
<1>12. ASSUME NEW c \in Calls, NEW r \in Roles, NEW p \in Principals, NEW e \in Estimates,
              CheckRole(c, r, p, e)
       PROVE  Within(R2 + Cardinality(H2), CapRole)
  <2>1. R2 = R
    BY <1>8, <1>12 DEF CheckRole, ledgers
  <2>2. CASE r = n /\ ~(e > CapRequest \/ SumRecent(roleSpend[r], Day) + e > CapRole)
    <3>1. e = Est /\ e \in Nat
      BY <2>2, AmountAssumption
    <3>2. SumRecent(roleSpend[n], Day) = Est * R
      BY DEF SumRecent, R, Recorded
    <3>3. Est * R \in Nat
      BY <1>3, AmountAssumption
    <3>4. Est * R + Est <= CapRole
      BY <2>2, <3>1, <3>2, <3>3, <1>5
    <3> QED
      BY <3>4, <2>1, <1>1, <1>3, <1>5, WithinCheck
  <2>3. CASE r # n \/ e > CapRequest \/ SumRecent(roleSpend[r], Day) + e > CapRole
    <3>1. H2 \subseteq H
      BY <1>12, <2>3 DEF CheckRole, Move, TypeOK, H, H2, RoleHolders
    <3> QED
      BY <2>1, <3>1, <1>3, <1>7
  <2> QED
    BY <2>2, <2>3
<1>13. ASSUME NEW c \in Calls, CheckPrincipal(c) \/ CheckSession(c) \/ ReadClock(c) \/ ReconcilePrincipal(c)
                               \/ ReconcileSession(c) \/ Abandon(c) \/ Refuse(c)
       PROVE  Within(R2 + Cardinality(H2), CapRole)
  <2>1. R2 = R
    BY <1>8, <1>13 DEF CheckPrincipal, CheckSession, ReadClock, ReconcilePrincipal, ReconcileSession,
                       Abandon, Refuse, ledgers
  <2>2. H2 \subseteq H
    BY <1>13 DEF CheckPrincipal, CheckSession, ReadClock, ReconcilePrincipal, ReconcileSession,
                 Abandon, Refuse, Move, TypeOK, H, H2, RoleHolders
  <2> QED
    BY <2>1, <2>2, <1>3, <1>7
<1>14. ASSUME NEW c \in Calls, ReconcileRole(c)
       PROVE  Within(R2 + Cardinality(H2), CapRole)
  <2>1. now' = now /\ stamp[c] \in Nat
    BY <1>14 DEF ReconcileRole, TypeOK
  <2>2. CASE callRole[c] = n
    <3>1. roleSpend'[n] = Append(roleSpend[n], stamp[c]) /\ c \in H /\ H2 = H \ {c}
      BY <1>14, <2>2 DEF ReconcileRole, Move, TypeOK, H, H2, RoleHolders
    <3>2. R2 = Recorded(Append(roleSpend[n], stamp[c]), Day)
      BY <2>1, <3>1 DEF R2, Recorded, RecentEntries
    <3>3. R2 <= R + 1
      BY <2>1, <3>2, <1>2, RecentAppend DEF R
    <3>4. Cardinality(H2) = Cardinality(H) - 1
      BY <3>1, <1>1, CallLeaves
    <3> QED
      BY <3>3, <3>4, <1>1, <1>3, <1>6
  <2>3. CASE callRole[c] # n
    <3>1. roleSpend'[n] = roleSpend[n] /\ H2 \subseteq H
      BY <1>14, <2>3 DEF ReconcileRole, Move, TypeOK, H, H2, RoleHolders
    <3> QED
      BY <2>1, <3>1, <1>3, <1>7, <1>8
  <2> QED
    BY <2>2, <2>3
<1>15. Within(R2 + Cardinality(H2), CapRole)
  BY <1>9, <1>10, <1>11, <1>12, <1>13, <1>14 DEF Next, Step
<1> QED
  BY <1>15 DEF R2, H2

\* A role is never charged more than its daily cap plus one estimate for each
\* further call in flight, within the day that ends now.
THEOREM RoleBounded == Spec => []RoleBound
<1>1. Init => RoleInv
  <2> SUFFICES ASSUME Init, NEW n \in Roles
               PROVE  Within(Recorded(roleSpend[n], Day) + Cardinality(RoleHolders(n)), CapRole)
    BY DEF RoleInv
  <2>1. roleSpend[n] = <<>> /\ RoleHolders(n) = {}
    BY DEF Init, RoleHolders
  <2>2. Recorded(roleSpend[n], Day) = 0 /\ Cardinality(RoleHolders(n)) = 0
    BY <2>1, RecentEmpty, FS_EmptySet
  <2> QED
    BY <2>2, WithinZero, AmountAssumption
<1>2. TypeOK /\ RoleInv => RoleBound
  <2> SUFFICES ASSUME TypeOK, RoleInv, NEW n \in Roles
               PROVE  SumRecent(roleSpend[n], Day) <= CapRole + Slack
    BY DEF RoleBound
  <2>1. Cardinality(RoleHolders(n)) \in Nat
    BY CallSets DEF RoleHolders
  <2>2. Recorded(roleSpend[n], Day) \in Nat
    BY RecentFinite DEF TypeOK
  <2>3. Within(Recorded(roleSpend[n], Day), CapRole)
    BY <2>1, <2>2, WithinFewer, AmountAssumption DEF RoleInv
  <2> QED
    BY <2>3 DEF Within, SumRecent, Recorded
<1> QED
  BY <1>1, <1>2, RoleStep, TypeCorrect, PTL DEF Spec


-----------------------------------------------------------------------------
(* The bound on one principal *)

\* Checks, reconciliations and clock ticks keep what a principal spent in its window
\* within the cap and slack, counting every call that passed the principal's check.
LEMMA PrincipalStep == TypeOK /\ PrincipalInv /\ [Next]_vars => PrincipalInv'
<1> SUFFICES ASSUME TypeOK, PrincipalInv, [Next]_vars, NEW n \in Principals
             PROVE  Within((Recorded(principalSpend[n], Hour) + Cardinality(PrincipalHolders(n)))', CapPrincipal)
  BY DEF PrincipalInv, Within, Slack
<1> DEFINE R == Recorded(principalSpend[n], Hour)
           R2 == Recorded(principalSpend[n], Hour)'
           H == PrincipalHolders(n)
           H2 == PrincipalHolders(n)'
<1>1. /\ H \subseteq Calls
      /\ H2 \subseteq Calls
      /\ Cardinality(H) \in Nat
      /\ Cardinality(H2) \in Nat
      /\ Cardinality(H2) <= N
  BY CallSets DEF PrincipalHolders
<1>2. principalSpend[n] \in Seq(Nat) /\ principalSpend'[n] \in Seq(Nat)
  BY TypeStep DEF TypeOK
<1>3. R \in Nat /\ R2 \in Nat
  <2>1. IsFiniteSet(DOMAIN principalSpend'[n])
    BY <1>2, FS_Interval
  <2>2. RecentEntries(principalSpend[n], Hour)' \subseteq DOMAIN principalSpend'[n]
    BY DEF RecentEntries
  <2>3. IsFiniteSet(RecentEntries(principalSpend[n], Hour)')
    BY <2>1, <2>2, FS_Subset
  <2> QED
    BY <1>2, <2>3, RecentFinite, FS_CardinalityType DEF Recorded
<1>4. Within(R + Cardinality(H), CapPrincipal)
  BY DEF PrincipalInv
<1>5. CapPrincipal \in Nat /\ Hour \in Nat
  BY AmountAssumption, TimeAssumption
<1> HIDE DEF R, R2, H, H2
<1>6. ASSUME R2 + Cardinality(H2) <= R + Cardinality(H)
      PROVE  Within(R2 + Cardinality(H2), CapPrincipal)
  BY <1>1, <1>3, <1>4, <1>5, <1>6, WithinFewer
<1>7. ASSUME R2 <= R, H2 \subseteq H
      PROVE  Within(R2 + Cardinality(H2), CapPrincipal)
  BY <1>1, <1>3, <1>6, <1>7, FewerCalls
<1>8. ASSUME principalSpend'[n] = principalSpend[n], now' = now
      PROVE  R2 = R
  BY <1>8 DEF R, R2, Recorded, RecentEntries
<1>9. ASSUME UNCHANGED vars
      PROVE  Within(R2 + Cardinality(H2), CapPrincipal)
  BY <1>3, <1>7, <1>8, <1>9 DEF vars, ledgers, callVars, H, H2, PrincipalHolders
<1>10. ASSUME Tick
       PROVE  Within(R2 + Cardinality(H2), CapPrincipal)
  <2>1. now' = now + 1 /\ principalSpend' = principalSpend /\ H2 = H
    BY <1>10 DEF Tick, ledgers, callVars, H, H2, PrincipalHolders
  <2>2. RecentEntries(principalSpend[n], Hour)' \subseteq RecentEntries(principalSpend[n], Hour)
    <3>1. now \in Nat
      BY DEF TypeOK
    <3>2. \A i \in DOMAIN principalSpend[n] : principalSpend[n][i] \in Nat
      BY <1>2
    <3> QED
      BY <2>1, <3>1, <3>2, <1>5 DEF RecentEntries
  <2>3. R2 <= R
    BY <2>2, <1>2, RecentFinite, FS_Subset DEF R, R2, Recorded
  <2> QED
    BY <2>1, <2>3, <1>7
<1>11. ASSUME Restart
       PROVE  Within(R2 + Cardinality(H2), CapPrincipal)
  <2>1. principalSpend'[n] = <<>> /\ H2 = {}
    BY <1>11 DEF Restart, H2, PrincipalHolders
  <2>2. RecentEntries(principalSpend[n], Hour)' = {}
    BY <2>1 DEF RecentEntries
  <2>3. R2 = 0 /\ Cardinality(H2) = 0
    BY <2>1, <2>2, FS_EmptySet DEF R2, Recorded
  <2> QED
    BY <2>3, <1>5, WithinZero
<1>12. ASSUME NEW c \in Calls, NEW r \in Roles, NEW p \in Principals, NEW e \in Estimates,
              CheckRole(c, r, p, e)
       PROVE  Within(R2 + Cardinality(H2), CapPrincipal)
  <2>1. R2 = R
    BY <1>8, <1>12 DEF CheckRole, ledgers
  <2>2. H2 \subseteq H
    BY <1>12 DEF CheckRole, Move, TypeOK, H, H2, PrincipalHolders
  <2> QED
    BY <2>1, <2>2, <1>3, <1>7
<1>13. ASSUME NEW c \in Calls, CheckSession(c) \/ ReadClock(c) \/ ReconcileRole(c) \/ ReconcileSession(c)
                               \/ Abandon(c) \/ Refuse(c)
       PROVE  Within(R2 + Cardinality(H2), CapPrincipal)
  <2>1. R2 = R
    BY <1>8, <1>13 DEF CheckSession, ReadClock, ReconcileRole, ReconcileSession, Abandon, Refuse, ledgers
  <2>2. H2 \subseteq H
    BY <1>13 DEF CheckSession, ReadClock, ReconcileRole, ReconcileSession, Abandon, Refuse, Move, TypeOK,
                 H, H2, PrincipalHolders
  <2> QED
    BY <2>1, <2>2, <1>3, <1>7
<1>14. ASSUME NEW c \in Calls, CheckPrincipal(c)
       PROVE  Within(R2 + Cardinality(H2), CapPrincipal)
  <2>1. R2 = R
    BY <1>8, <1>14 DEF CheckPrincipal, ledgers
  <2>2. CASE callPrincipal[c] = n /\ ~(SumRecent(principalSpend[n], Hour) + Est > CapPrincipal)
    <3>1. SumRecent(principalSpend[n], Hour) = Est * R /\ Est * R \in Nat
      BY <1>3, AmountAssumption DEF SumRecent, R, Recorded
    <3>2. Est * R + Est <= CapPrincipal
      BY <2>2, <3>1, <1>5, AmountAssumption
    <3> QED
      BY <3>2, <2>1, <1>1, <1>3, <1>5, WithinCheck
  <2>3. CASE callPrincipal[c] # n \/ SumRecent(principalSpend[n], Hour) + Est > CapPrincipal
    <3>1. H2 \subseteq H
      BY <1>14, <2>3 DEF CheckPrincipal, Move, TypeOK, H, H2, PrincipalHolders
    <3> QED
      BY <2>1, <3>1, <1>3, <1>7
  <2> QED
    BY <2>2, <2>3
<1>15. ASSUME NEW c \in Calls, ReconcilePrincipal(c)
       PROVE  Within(R2 + Cardinality(H2), CapPrincipal)
  <2>1. now' = now /\ stamp[c] \in Nat
    BY <1>15 DEF ReconcilePrincipal, TypeOK
  <2>2. CASE callPrincipal[c] = n
    <3>1. principalSpend'[n] = Append(principalSpend[n], stamp[c]) /\ c \in H /\ H2 = H \ {c}
      BY <1>15, <2>2 DEF ReconcilePrincipal, Move, TypeOK, H, H2, PrincipalHolders
    <3>2. R2 = Recorded(Append(principalSpend[n], stamp[c]), Hour)
      BY <2>1, <3>1 DEF R2, Recorded, RecentEntries
    <3>3. R2 <= R + 1
      BY <2>1, <3>2, <1>2, RecentAppend DEF R
    <3>4. Cardinality(H2) = Cardinality(H) - 1
      BY <3>1, <1>1, CallLeaves
    <3> QED
      BY <3>3, <3>4, <1>1, <1>3, <1>6
  <2>3. CASE callPrincipal[c] # n
    <3>1. principalSpend'[n] = principalSpend[n] /\ H2 \subseteq H
      BY <1>15, <2>3 DEF ReconcilePrincipal, Move, TypeOK, H, H2, PrincipalHolders
    <3> QED
      BY <2>1, <3>1, <1>3, <1>7, <1>8
  <2> QED
    BY <2>2, <2>3
<1>16. Within(R2 + Cardinality(H2), CapPrincipal)
  BY <1>9, <1>10, <1>11, <1>12, <1>13, <1>14, <1>15 DEF Next, Step
<1> QED
  BY <1>16 DEF R2, H2

\* A principal is never charged more than its hourly cap plus one estimate for
\* each further call in flight, within the hour that ends now.
THEOREM PrincipalBounded == Spec => []PrincipalBound
<1>1. Init => PrincipalInv
  <2> SUFFICES ASSUME Init, NEW n \in Principals
               PROVE  Within(Recorded(principalSpend[n], Hour) + Cardinality(PrincipalHolders(n)), CapPrincipal)
    BY DEF PrincipalInv
  <2>1. principalSpend[n] = <<>> /\ PrincipalHolders(n) = {}
    BY DEF Init, PrincipalHolders
  <2>2. Recorded(principalSpend[n], Hour) = 0 /\ Cardinality(PrincipalHolders(n)) = 0
    BY <2>1, RecentEmpty, FS_EmptySet
  <2> QED
    BY <2>2, WithinZero, AmountAssumption
<1>2. TypeOK /\ PrincipalInv => PrincipalBound
  <2> SUFFICES ASSUME TypeOK, PrincipalInv, NEW n \in Principals
               PROVE  SumRecent(principalSpend[n], Hour) <= CapPrincipal + Slack
    BY DEF PrincipalBound
  <2>1. Cardinality(PrincipalHolders(n)) \in Nat
    BY CallSets DEF PrincipalHolders
  <2>2. Recorded(principalSpend[n], Hour) \in Nat
    BY RecentFinite DEF TypeOK
  <2>3. Within(Recorded(principalSpend[n], Hour), CapPrincipal)
    BY <2>1, <2>2, WithinFewer, AmountAssumption DEF PrincipalInv
  <2> QED
    BY <2>3 DEF Within, SumRecent, Recorded
<1> QED
  BY <1>1, <1>2, PrincipalStep, TypeCorrect, PTL DEF Spec

-----------------------------------------------------------------------------
(* The bound on one role over any day *)

\* What a role was charged in the day from s, and the calls that may still be
\* charged in it: a stamp is chosen once, and not before now.
DayFrom(r, s) == {i \in DOMAIN roleSpend[r] : roleSpend[r][i] \in s..(s + Day)}
Pending(r, s) ==
    {c \in RoleHolders(r) : IF phase[c] = "stamped" THEN stamp[c] \in s..(s + Day)
                            ELSE now <= s + Day}
OverInv ==
    \A r \in Roles : \A s \in Nat : now > s + Day =>
        Within(Cardinality(DayFrom(r, s)) + Cardinality(Pending(r, s)), CapRole)

\* What a day and its pending calls count is finite.
LEMMA DayFinite ==
    ASSUME NEW r, NEW s, roleSpend[r] \in Seq(Nat)
    PROVE  /\ IsFiniteSet(DayFrom(r, s)) /\ Cardinality(DayFrom(r, s)) \in Nat
           /\ Pending(r, s) \subseteq Calls /\ Cardinality(Pending(r, s)) \in Nat
<1>1. IsFiniteSet(DOMAIN roleSpend[r])
  BY FS_Interval
<1>2. DayFrom(r, s) \subseteq DOMAIN roleSpend[r] /\ Pending(r, s) \subseteq Calls
  BY DEF DayFrom, Pending, RoleHolders
<1> QED
  BY <1>1, <1>2, FS_Subset, FS_CardinalityType, CallSets

\* While the day from s lasts, all of it lies in the window that ends now.
LEMMA DayOpen ==
    ASSUME TypeOK, RoleInv, NEW r \in Roles, NEW s \in Nat, now <= s + Day
    PROVE  Within(Cardinality(DayFrom(r, s)) + Cardinality(Pending(r, s)), CapRole)
<1>1. roleSpend[r] \in Seq(Nat) /\ now \in Nat /\ Day \in Nat /\ CapRole \in Nat
  BY AmountAssumption, TimeAssumption DEF TypeOK
<1>2. \A i \in DOMAIN roleSpend[r] : roleSpend[r][i] \in Nat
  BY <1>1
<1>3. DayFrom(r, s) \subseteq RecentEntries(roleSpend[r], Day)
  BY <1>1, <1>2 DEF DayFrom, RecentEntries
<1>4. Cardinality(DayFrom(r, s)) <= Recorded(roleSpend[r], Day) /\ Recorded(roleSpend[r], Day) \in Nat
  BY <1>1, <1>3, RecentFinite, FS_Subset DEF Recorded
<1>5. RoleHolders(r) \subseteq Calls /\ Pending(r, s) \subseteq RoleHolders(r)
  BY DEF RoleHolders, Pending
<1>6. Cardinality(Pending(r, s)) <= Cardinality(RoleHolders(r)) /\ Cardinality(RoleHolders(r)) \in Nat
  BY <1>5, FewerCalls, CallSets
<1>7. Cardinality(DayFrom(r, s)) \in Nat /\ Cardinality(Pending(r, s)) \in Nat
  BY <1>1, DayFinite
<1>8. Within(Recorded(roleSpend[r], Day) + Cardinality(RoleHolders(r)), CapRole)
  BY DEF RoleInv
<1>9. /\ Cardinality(DayFrom(r, s)) + Cardinality(Pending(r, s))
            <= Recorded(roleSpend[r], Day) + Cardinality(RoleHolders(r))
      /\ Cardinality(DayFrom(r, s)) + Cardinality(Pending(r, s)) \in Nat
      /\ Recorded(roleSpend[r], Day) + Cardinality(RoleHolders(r)) \in Nat
  BY <1>4, <1>6, <1>7
<1> QED
  BY <1>1, <1>8, <1>9, WithinFewer

\* Once it is over, only a call stamped in it can still charge it.
LEMMA DayOver ==
    ASSUME TypeOK, TypeOK', RoleInv, OverInv, [Next]_vars, NEW n \in Roles, NEW s \in Nat, now' > s + Day
    PROVE  Within((Cardinality(DayFrom(n, s)) + Cardinality(Pending(n, s)))', CapRole)
<1> DEFINE D == DayFrom(n, s)
           D2 == DayFrom(n, s)'
           P == Pending(n, s)
           P2 == Pending(n, s)'
<1>1. /\ roleSpend[n] \in Seq(Nat) /\ roleSpend'[n] \in Seq(Nat) /\ now \in Nat /\ now' \in Nat
      /\ Day \in Nat /\ CapRole \in Nat
  BY AmountAssumption, TimeAssumption DEF TypeOK
<1>2. /\ IsFiniteSet(D) /\ Cardinality(D) \in Nat
      /\ P \subseteq Calls /\ P2 \subseteq Calls /\ Cardinality(P) \in Nat /\ Cardinality(P2) \in Nat
  <2>1. P2 \subseteq Calls
    BY DEF Pending, RoleHolders
  <2> HIDE DEF P2
  <2> QED
    BY <1>1, <2>1, DayFinite, CallSets
<1>3. IsFiniteSet(D2) /\ Cardinality(D2) \in Nat
  <2>1. IsFiniteSet(DOMAIN roleSpend'[n])
    <3>1. DOMAIN roleSpend'[n] = 1..Len(roleSpend'[n]) /\ Len(roleSpend'[n]) \in Nat
      BY <1>1
    <3> QED
      BY <3>1, FS_Interval
  <2>2. D2 \subseteq DOMAIN roleSpend'[n]
    BY DEF DayFrom
  <2> HIDE DEF D2
  <2> QED
    BY <2>1, <2>2, FS_Subset, FS_CardinalityType
<1>4. Within(Cardinality(D) + Cardinality(P), CapRole)
  <2>1. s + Day \in Nat
    BY <1>1
  <2>2. CASE now <= s + Day
    BY <2>2, DayOpen
  <2>3. CASE now > s + Day
    BY <2>3 DEF OverInv
  <2> QED
    BY <1>1, <2>1, <2>2, <2>3
<1>5. \A c \in P2 : phase'[c] = "stamped" /\ stamp'[c] \in s..(s + Day) /\ callRole'[c] = n /\ c \in Calls
  BY <1>1 DEF Pending, RoleHolders
<1>6. \A c \in Calls : callRole[c] = n /\ phase[c] = "stamped" /\ stamp[c] \in s..(s + Day) => c \in P
  BY DEF Pending, RoleHolders
<1>7. \A c \in Calls : callRole[c] = n /\ phase[c] = "reserved" /\ now <= s + Day => c \in P
  BY DEF Pending, RoleHolders
<1> HIDE DEF D2, P2, D, P
<1>8. ASSUME Cardinality(D2) + Cardinality(P2) <= Cardinality(D) + Cardinality(P)
      PROVE  Within(Cardinality(D2) + Cardinality(P2), CapRole)
  BY <1>1, <1>2, <1>3, <1>4, <1>8, WithinFewer
<1>9. ASSUME D2 \subseteq D, P2 \subseteq P PROVE Within(Cardinality(D2) + Cardinality(P2), CapRole)
  <2>1. Cardinality(D2) <= Cardinality(D) /\ Cardinality(P2) <= Cardinality(P)
    BY <1>2, <1>9, FewerCalls, FS_Subset
  <2> QED
    BY <1>2, <1>3, <1>8, <2>1
<1>10. roleSpend'[n] = roleSpend[n] => D2 = D
  BY DEF D, D2, DayFrom
<1>11. ASSUME UNCHANGED vars \/ Tick PROVE Within(Cardinality(D2) + Cardinality(P2), CapRole)
  <2>1. roleSpend' = roleSpend /\ phase' = phase /\ stamp' = stamp /\ callRole' = callRole
    BY <1>11 DEF vars, Tick, ledgers, callVars
  <2>2. D2 = D /\ P2 \subseteq P
    BY <1>5, <1>6, <1>10, <2>1
  <2> QED
    BY <1>9, <2>2
<1>12. ASSUME Restart PROVE Within(Cardinality(D2) + Cardinality(P2), CapRole)
  <2>1. roleSpend'[n] = <<>> /\ P2 = {}
    BY <1>5, <1>12 DEF Restart
  <2>2. D2 = {}
    BY <2>1 DEF D2, DayFrom
  <2>3. D2 \subseteq D /\ P2 \subseteq P
    BY <2>1, <2>2
  <2> QED
    BY <1>9, <2>3
<1>13. ASSUME NEW c \in Calls, NEW r \in Roles, NEW p \in Principals, NEW e \in Estimates,
              CheckRole(c, r, p, e)
       PROVE  Within(Cardinality(D2) + Cardinality(P2), CapRole)
  <2>1. P2 \subseteq P
    BY <1>5, <1>6, <1>13 DEF CheckRole, Move, TypeOK
  <2> QED
    BY <1>9, <1>10, <1>13, <2>1 DEF CheckRole, ledgers
<1>14. ASSUME NEW c \in Calls, CheckPrincipal(c) \/ CheckSession(c) \/ ReconcilePrincipal(c)
                               \/ ReconcileSession(c) \/ Abandon(c) \/ Refuse(c)
       PROVE  Within(Cardinality(D2) + Cardinality(P2), CapRole)
  <2>1. P2 \subseteq P
    BY <1>5, <1>6, <1>14 DEF CheckPrincipal, CheckSession, ReconcilePrincipal, ReconcileSession,
                              Abandon, Refuse, Move, TypeOK
  <2>2. roleSpend' = roleSpend
    BY <1>14 DEF CheckPrincipal, CheckSession, ReconcilePrincipal, ReconcileSession, Abandon, Refuse,
                 ledgers
  <2> QED
    BY <1>9, <1>10, <2>1, <2>2
<1>15. ASSUME NEW c \in Calls, ReadClock(c) PROVE Within(Cardinality(D2) + Cardinality(P2), CapRole)
  <2>1. /\ phase[c] = "reserved" /\ phase' = [phase EXCEPT ![c] = "stamped"]
        /\ stamp' = [stamp EXCEPT ![c] = now] /\ callRole' = callRole /\ roleSpend' = roleSpend
        /\ now' = now
    BY <1>15 DEF ReadClock, Move, ledgers
  <2>2. ASSUME NEW d \in P2 PROVE d \in P
    <3>1. d # c
      BY <1>1, <1>5, <2>1, <2>2 DEF TypeOK
    <3> QED
      BY <1>5, <1>6, <2>1, <2>2, <3>1 DEF TypeOK
  <2> QED
    BY <1>9, <1>10, <2>1, <2>2
<1>16. ASSUME NEW c \in Calls, ReconcileRole(c) PROVE Within(Cardinality(D2) + Cardinality(P2), CapRole)
  <2>1. /\ phase[c] = "stamped" /\ phase' = [phase EXCEPT ![c] = "role_recorded"]
        /\ stamp' = stamp /\ callRole' = callRole
        /\ roleSpend' = [roleSpend EXCEPT ![callRole[c]] = Append(@, stamp[c])]
    BY <1>16 DEF ReconcileRole, Move
  <2>2. P2 \subseteq P \ {c}
    BY <1>5, <1>6, <2>1 DEF TypeOK
  <2>3. CASE callRole[c] # n
    BY <1>9, <1>10, <2>1, <2>2, <2>3 DEF TypeOK
  <2>4. CASE callRole[c] = n
    <3>1. /\ roleSpend'[n] = Append(roleSpend[n], stamp[c]) /\ stamp[c] \in Nat
          /\ DOMAIN roleSpend[n] = 1..Len(roleSpend[n]) /\ Len(roleSpend[n]) \in Nat
      BY <1>1, <2>1, <2>4 DEF TypeOK
    <3> DEFINE new == Len(roleSpend[n]) + 1
    <3>2. /\ DOMAIN roleSpend'[n] = DOMAIN roleSpend[n] \cup {new}
          /\ roleSpend'[n][new] = stamp[c]
          /\ \A i \in DOMAIN roleSpend[n] : roleSpend'[n][i] = roleSpend[n][i]
      BY <1>1, <3>1
    <3>3. CASE stamp[c] \notin s..(s + Day)
      <4>1. D2 \subseteq D
        BY <3>2, <3>3 DEF D, D2, DayFrom
      <4> QED
        BY <1>9, <2>2, <4>1
    <3>4. CASE stamp[c] \in s..(s + Day)
      <4>1. D2 \subseteq D \cup {new}
        <5> HIDE DEF new
        <5> QED
          BY <3>2 DEF D, D2, DayFrom
      <4>2. Cardinality(D2) <= Cardinality(D) + 1
        <5> HIDE DEF new
        <5>1. /\ IsFiniteSet(D \cup {new}) /\ Cardinality(D \cup {new}) \in Nat
              /\ Cardinality(D \cup {new}) <= Cardinality(D) + 1
          BY <1>2, AtMostOneMore
        <5>2. Cardinality(D2) <= Cardinality(D \cup {new})
          BY <4>1, <5>1, FS_Subset
        <5> QED
          BY <1>2, <1>3, <5>1, <5>2
      <4>3. c \in P
        BY <1>6, <2>1, <2>4, <3>4
      <4>4. Cardinality(P \ {c}) = Cardinality(P) - 1 /\ Cardinality(P2) <= Cardinality(P \ {c})
        BY <1>2, <2>2, <4>3, CallLeaves, FewerCalls
      <4> QED
        BY <1>2, <1>3, <1>8, <4>2, <4>4
    <3> QED
      BY <3>3, <3>4
  <2> QED
    BY <2>3, <2>4
<1>17. Within(Cardinality(D2) + Cardinality(P2), CapRole)
  BY <1>11, <1>12, <1>13, <1>14, <1>15, <1>16 DEF Next, Step
<1> QED
  BY <1>17 DEF D2, P2

\* The day really slides: no stretch of one day, wherever it starts, carries more of a
\* role's spend than its cap and one estimate for each further call in flight, though
\* reconciliations that race write their stamps out of order.
THEOREM AnyDayBounded == Spec => []AnyDayBound
<1>1. Init => RoleInv /\ OverInv
  <2>1. ASSUME Init, NEW n \in Roles
        PROVE  Within(Recorded(roleSpend[n], Day) + Cardinality(RoleHolders(n)), CapRole)
    <3>1. roleSpend[n] = <<>> /\ RoleHolders(n) = {}
      BY <2>1 DEF Init, RoleHolders
    <3>2. Recorded(roleSpend[n], Day) = 0 /\ Cardinality(RoleHolders(n)) = 0
      BY <3>1, RecentEmpty, FS_EmptySet
    <3> QED
      BY <3>2, WithinZero, AmountAssumption
  <2>2. ASSUME Init, NEW n \in Roles, NEW s \in Nat
        PROVE  Within(Cardinality(DayFrom(n, s)) + Cardinality(Pending(n, s)), CapRole)
    <3>1. DayFrom(n, s) = {} /\ Pending(n, s) = {}
      BY <2>2 DEF Init, DayFrom, Pending, RoleHolders
    <3>2. Cardinality(DayFrom(n, s)) = 0 /\ Cardinality(Pending(n, s)) = 0
      BY <3>1, FS_EmptySet
    <3> QED
      BY <3>2, WithinZero, AmountAssumption
  <2> QED
    BY <2>1, <2>2 DEF RoleInv, OverInv
<1>2. TypeOK /\ TypeOK' /\ RoleInv /\ OverInv /\ [Next]_vars => (RoleInv /\ OverInv)'
  <2> SUFFICES ASSUME TypeOK, TypeOK', RoleInv, OverInv, [Next]_vars
               PROVE  RoleInv' /\ OverInv'
    OBVIOUS
  <2>1. RoleInv'
    BY RoleStep
  <2>2. ASSUME NEW n \in Roles, NEW s \in Nat, now' > s + Day
        PROVE  Within((Cardinality(DayFrom(n, s)) + Cardinality(Pending(n, s)))', CapRole)
    BY <2>2, DayOver
  <2>3. OverInv'
    BY <2>2 DEF OverInv, Within, Slack
  <2> QED
    BY <2>1, <2>3
<1>3. TypeOK /\ RoleInv /\ OverInv => AnyDayBound
  <2> SUFFICES ASSUME TypeOK, RoleInv, OverInv, NEW r \in Roles, NEW i \in DOMAIN roleSpend[r]
               PROVE  Est * Cardinality(DayFrom(r, roleSpend[r][i])) <= CapRole + Slack
    BY DEF AnyDayBound, DayFrom
  <2>1. roleSpend[r] \in Seq(Nat) /\ roleSpend[r][i] \in Nat
    BY DEF TypeOK
  <2>2. PICK s \in Nat : s = roleSpend[r][i]
    BY <2>1
  <2>3. Cardinality(DayFrom(r, s)) \in Nat /\ Cardinality(Pending(r, s)) \in Nat
    BY <2>1, DayFinite
  <2>4. Within(Cardinality(DayFrom(r, s)) + Cardinality(Pending(r, s)), CapRole)
    <3>1. now \in Nat /\ s + Day \in Nat
      BY TimeAssumption DEF TypeOK
    <3>2. CASE now > s + Day
      BY <3>2 DEF OverInv
    <3>3. CASE now <= s + Day
      BY <3>3, DayOpen
    <3> QED
      BY <3>1, <3>2, <3>3
  <2>5. Within(Cardinality(DayFrom(r, s)), CapRole)
    BY <2>3, <2>4, WithinFewer, AmountAssumption
  <2> QED
    BY <2>2, <2>5 DEF Within
<1> QED
  BY <1>1, <1>2, <1>3, TypeCorrect, PTL DEF Spec

-----------------------------------------------------------------------------
(* The ledgers agree *)

\* Half-done reconciliations account for the difference of the ledgers, which hold
\* finitely many entries.
AgreeInv ==
    /\ IsFiniteSet(Entries(roleSpend)) /\ IsFiniteSet(Entries(principalSpend))
    /\ LedgersAgree

\* More is the family ledger with one entry appended to one of its members.
OneMore(S, ledger, more) ==
    /\ ledger \in [S -> Seq(Nat)]
    /\ \E name \in S, t \in Nat : more = [ledger EXCEPT ![name] = Append(@, t)]

\* Appending to one ledger adds one entry to the family.
LEMMA EntryAdded ==
    ASSUME NEW S, NEW ledger, NEW more, OneMore(S, ledger, more), IsFiniteSet(Entries(ledger))
    PROVE  /\ IsFiniteSet(Entries(more))
           /\ Cardinality(Entries(more)) = Cardinality(Entries(ledger)) + 1
<1>0. PICK name \in S, t \in Nat : more = [ledger EXCEPT ![name] = Append(@, t)]
  BY DEF OneMore
<1> DEFINE new == Len(ledger[name]) + 1
<1>1. /\ ledger[name] \in Seq(Nat) /\ Len(ledger[name]) \in Nat
      /\ DOMAIN ledger[name] = 1..Len(ledger[name]) /\ new \notin 1..Len(ledger[name])
      /\ DOMAIN Append(ledger[name], t) = DOMAIN ledger[name] \cup {new}
  BY Append(ledger[name], t) \in Seq(Nat) DEF OneMore
<1>2. /\ DOMAIN more = DOMAIN ledger
      /\ DOMAIN more[name] = DOMAIN ledger[name] \cup {new}
      /\ \A n \in DOMAIN ledger : n # name => DOMAIN more[n] = DOMAIN ledger[n]
  BY <1>0, <1>1 DEF OneMore
<1>3. name \in DOMAIN ledger /\ new \notin DOMAIN ledger[name]
  BY <1>1 DEF OneMore
<1> HIDE DEF new
<1>4. Entries(more) = Entries(ledger) \cup {<<name, new>>}
  <2>1. ASSUME NEW e \in Entries(more) PROVE e \in Entries(ledger) \cup {<<name, new>>}
    <3>1. PICK n \in DOMAIN more : e \in {<<n, i>> : i \in DOMAIN more[n]}
      BY <2>1 DEF Entries
    <3>2. PICK i \in DOMAIN more[n] : e = <<n, i>>
      BY <3>1
    <3>3. n \in DOMAIN ledger /\ (i \in DOMAIN ledger[n] \/ (n = name /\ i = new))
      BY <1>2, <3>1, <3>2
    <3> QED
      BY <3>2, <3>3 DEF Entries
  <2>2. ASSUME NEW e \in Entries(ledger) PROVE e \in Entries(more)
    <3>1. PICK n \in DOMAIN ledger : e \in {<<n, i>> : i \in DOMAIN ledger[n]}
      BY <2>2 DEF Entries
    <3>2. PICK i \in DOMAIN ledger[n] : e = <<n, i>>
      BY <3>1
    <3>3. n \in DOMAIN more /\ i \in DOMAIN more[n]
      BY <1>2, <3>1, <3>2
    <3> QED
      BY <3>2, <3>3 DEF Entries
  <2>3. <<name, new>> \in Entries(more)
    BY <1>2, <1>3 DEF Entries
  <2> QED
    BY <2>1, <2>2, <2>3
<1>5. <<name, new>> \notin Entries(ledger)
  <2> SUFFICES ASSUME <<name, new>> \in Entries(ledger) PROVE FALSE
    OBVIOUS
  <2>1. PICK n \in DOMAIN ledger : <<name, new>> \in {<<n, i>> : i \in DOMAIN ledger[n]}
    BY DEF Entries
  <2>2. PICK i \in DOMAIN ledger[n] : <<name, new>> = <<n, i>>
    BY <2>1
  <2>3. n = name /\ i = new
    BY <2>2
  <2> QED
    BY <1>3, <2>2, <2>3
<1>6. PICK e : e = <<name, new>>
  OBVIOUS
<1>7. IsFiniteSet(Entries(more)) /\ Cardinality(Entries(more)) = Cardinality(Entries(ledger)) + 1
  BY <1>4, <1>5, <1>6, FS_AddElement
<1> QED
  BY <1>7

\* Empty ledgers have no entries.
LEMMA NoEntries ==
    ASSUME NEW S
    PROVE  Entries([n \in S |-> <<>>]) = {}
BY DEF Entries

\* One step moves the ledgers and the reconciliations under way together.
LEMMA AgreeStep == TypeOK /\ AgreeInv /\ [Next]_vars => AgreeInv'
<1> SUFFICES ASSUME TypeOK, AgreeInv, [Next]_vars PROVE AgreeInv'
  OBVIOUS
<1> DEFINE Half == {"role_recorded"}
           Open == {"role_recorded", "principal_recorded"}
<1>1. /\ roleSpend \in [Roles -> Seq(Nat)] /\ principalSpend \in [Principals -> Seq(Nat)]
      /\ phase \in [Calls -> Phase] /\ stamp \in [Calls -> Nat] /\ callRole \in [Calls -> Roles]
      /\ callPrincipal \in [Calls -> Principals] /\ sessionTotal \in Nat /\ Est \in Nat
  BY AmountAssumption DEF TypeOK
<1>2. PICK R \in Nat, P \in Nat, h \in Nat, o \in Nat :
          /\ R = Cardinality(Entries(roleSpend)) /\ P = Cardinality(Entries(principalSpend))
          /\ h = Cardinality(At(Half)) /\ o = Cardinality(At(Open))
  <2>1. Cardinality(At(Half)) \in Nat /\ Cardinality(At(Open)) \in Nat
    BY CallSets DEF At
  <2> QED
    BY <2>1, FS_CardinalityType DEF AgreeInv
<1>3. /\ R = P + h /\ Est * R = sessionTotal + Est * o
      /\ IsFiniteSet(Entries(roleSpend)) /\ IsFiniteSet(Entries(principalSpend))
  BY <1>2 DEF AgreeInv, LedgersAgree
<1>4. At(Half) \subseteq Calls /\ At(Open) \subseteq Calls /\ IsFiniteSet(At(Half)) /\ IsFiniteSet(At(Open))
  BY CallSets DEF At
<1>5. ASSUME NEW ledgerR, NEW ledgerP, NEW half, NEW open, NEW total,
             ledgerR = Cardinality(Entries(roleSpend)'), ledgerP = Cardinality(Entries(principalSpend)'),
             half = Cardinality(At(Half)'), open = Cardinality(At(Open)'), total = sessionTotal',
             IsFiniteSet(Entries(roleSpend)'), IsFiniteSet(Entries(principalSpend)'),
             ledgerR = ledgerP + half, Est * ledgerR = total + Est * open
      PROVE  AgreeInv'
  BY <1>5 DEF AgreeInv, LedgersAgree
<1>6. ASSUME UNCHANGED <<sessionTotal, roleSpend, principalSpend>>, At(Half)' = At(Half), At(Open)' = At(Open)
      PROVE  AgreeInv'
  BY <1>6 DEF AgreeInv, LedgersAgree
<1>7. CASE UNCHANGED vars \/ Tick
  BY <1>6, <1>7 DEF vars, Tick, ledgers, callVars, At
<1>8. CASE Restart
  <2>1. Entries(roleSpend)' = {} /\ Entries(principalSpend)' = {} /\ sessionTotal' = 0
    BY <1>8, NoEntries DEF Restart
  <2>2. At(Half)' = {} /\ At(Open)' = {}
    BY <1>8 DEF Restart, At
  <2>3. Cardinality({}) = 0 /\ IsFiniteSet({}) /\ Est * 0 = 0
    BY <1>1, FS_EmptySet
  <2> QED
    BY <1>5, <2>1, <2>2, <2>3
<1>9. ASSUME NEW c \in Calls, NEW r \in Roles, NEW p \in Principals, NEW e \in Estimates,
             CheckRole(c, r, p, e)
      PROVE  AgreeInv'
  <2>1. At(Half)' = At(Half) /\ At(Open)' = At(Open)
    BY <1>1, <1>9 DEF CheckRole, Move, At
  <2> QED
    BY <1>6, <1>9, <2>1 DEF CheckRole, ledgers
<1>10. ASSUME NEW c \in Calls,
              CheckPrincipal(c) \/ CheckSession(c) \/ ReadClock(c) \/ Abandon(c) \/ Refuse(c)
       PROVE  AgreeInv'
  <2>1. At(Half)' = At(Half) /\ At(Open)' = At(Open)
    BY <1>1, <1>10 DEF CheckPrincipal, CheckSession, ReadClock, Abandon, Refuse, Move, At
  <2>2. UNCHANGED <<sessionTotal, roleSpend, principalSpend>>
    BY <1>10 DEF CheckPrincipal, CheckSession, ReadClock, Abandon, Refuse, ledgers
  <2> QED
    BY <1>6, <2>1, <2>2
<1>11. ASSUME NEW c \in Calls, ReconcileRole(c) PROVE AgreeInv'
  <2>1. /\ phase[c] = "stamped" /\ phase' = [phase EXCEPT ![c] = "role_recorded"]
        /\ roleSpend' = [roleSpend EXCEPT ![callRole[c]] = Append(@, stamp[c])]
        /\ principalSpend' = principalSpend /\ sessionTotal' = sessionTotal
    BY <1>11 DEF ReconcileRole, Move
  <2>2. IsFiniteSet(Entries(roleSpend)') /\ Cardinality(Entries(roleSpend)') = R + 1
    <3>1. PICK more : more = roleSpend'
      OBVIOUS
    <3>2. OneMore(Roles, roleSpend, more)
      BY <1>1, <2>1, <3>1 DEF OneMore
    <3>3. Entries(roleSpend)' = Entries(more)
      BY <3>1 DEF Entries
    <3>4. IsFiniteSet(Entries(more)) /\ Cardinality(Entries(more)) = Cardinality(Entries(roleSpend)) + 1
      BY <1>3, <3>2, EntryAdded
    <3> QED
      BY <1>2, <3>3, <3>4
  <2>3. /\ At(Half)' = At(Half) \cup {c} /\ c \notin At(Half)
        /\ At(Open)' = At(Open) \cup {c} /\ c \notin At(Open)
    BY <1>1, <2>1 DEF At
  <2>4. Cardinality(At(Half)') = h + 1 /\ Cardinality(At(Open)') = o + 1
    BY <1>2, <1>4, <2>3, FS_AddElement
  <2>5. Est * (R + 1) = Est * R + Est /\ Est * (o + 1) = Est * o + Est
    BY <1>1
  <2>6. R + 1 = P + (h + 1) /\ Est * (R + 1) = sessionTotal + Est * (o + 1)
    <3>1. Est * R \in Nat /\ Est * o \in Nat
      BY <1>1
    <3> QED
      BY <1>1, <1>3, <2>5, <3>1
  <2> QED
    BY <1>2, <1>3, <1>5, <2>1, <2>2, <2>4, <2>6
<1>12. ASSUME NEW c \in Calls, ReconcilePrincipal(c) PROVE AgreeInv'
  <2>1. /\ phase[c] = "role_recorded" /\ phase' = [phase EXCEPT ![c] = "principal_recorded"]
        /\ principalSpend' = [principalSpend EXCEPT ![callPrincipal[c]] = Append(@, stamp[c])]
        /\ roleSpend' = roleSpend /\ sessionTotal' = sessionTotal
    BY <1>12 DEF ReconcilePrincipal, Move
  <2>2. IsFiniteSet(Entries(principalSpend)') /\ Cardinality(Entries(principalSpend)') = P + 1
    <3>1. PICK more : more = principalSpend'
      OBVIOUS
    <3>2. OneMore(Principals, principalSpend, more)
      BY <1>1, <2>1, <3>1 DEF OneMore
    <3>3. Entries(principalSpend)' = Entries(more)
      BY <3>1 DEF Entries
    <3>4. IsFiniteSet(Entries(more)) /\ Cardinality(Entries(more)) = Cardinality(Entries(principalSpend)) + 1
      BY <1>3, <3>2, EntryAdded
    <3> QED
      BY <1>2, <3>3, <3>4
  <2>3. At(Half)' = At(Half) \ {c} /\ c \in At(Half) /\ At(Open)' = At(Open)
    BY <1>1, <2>1 DEF At
  <2>4. Cardinality(At(Half)') = h - 1 /\ Cardinality(At(Open)') = o
    BY <1>2, <1>4, <2>3, CallLeaves
  <2>5. R = (P + 1) + (h - 1)
    BY <1>3
  <2> QED
    BY <1>2, <1>3, <1>5, <2>1, <2>2, <2>4, <2>5
<1>13. ASSUME NEW c \in Calls, ReconcileSession(c) PROVE AgreeInv'
  <2>1. /\ phase[c] = "principal_recorded" /\ phase' = [phase EXCEPT ![c] = "idle"]
        /\ roleSpend' = roleSpend /\ principalSpend' = principalSpend
        /\ sessionTotal' = sessionTotal + Est
    BY <1>13 DEF ReconcileSession, Move
  <2>2. At(Half)' = At(Half) /\ At(Open)' = At(Open) \ {c} /\ c \in At(Open)
    BY <1>1, <2>1 DEF At
  <2>3. Cardinality(At(Half)') = h /\ Cardinality(At(Open)') = o - 1
    BY <1>2, <1>4, <2>2, CallLeaves
  <2>4. Est * R = (sessionTotal + Est) + Est * (o - 1)
    <3>1. Est * (o - 1) = Est * o - Est /\ Est * o \in Nat
      BY <1>1
    <3> QED
      BY <1>1, <1>3, <3>1
  <2> QED
    BY <1>2, <1>3, <1>5, <2>1, <2>3, <2>4
<1> QED
  BY <1>7, <1>8, <1>9, <1>10, <1>11, <1>12, <1>13 DEF Next, Step

\* The ledger of the roles, the ledger of the principals and the session total differ
\* by exactly the reconciliations that are half done, whoever reconciles at once.
THEOREM LedgersNeverDrift == Spec => []LedgersAgree
<1>1. Init => AgreeInv
  <2> SUFFICES ASSUME Init PROVE AgreeInv
    OBVIOUS
  <2>1. Entries(roleSpend) = {} /\ Entries(principalSpend) = {} /\ sessionTotal = 0
    BY NoEntries DEF Init
  <2>2. \A phases \in {{"role_recorded"}, {"role_recorded", "principal_recorded"}} : At(phases) = {}
    BY DEF Init, At
  <2>3. Cardinality({}) = 0 /\ IsFiniteSet({}) /\ Est * 0 = 0
    BY FS_EmptySet, AmountAssumption
  <2> QED
    BY <2>1, <2>2, <2>3 DEF AgreeInv, LedgersAgree
<1>2. AgreeInv => LedgersAgree
  BY DEF AgreeInv
<1> QED
  BY <1>1, <1>2, AgreeStep, TypeCorrect, PTL DEF Spec
=============================================================================
