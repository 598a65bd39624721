------------------------------ MODULE CostMeter ------------------------------
(***************************************************************************)
(* kernel/cost_meter.py: the pre-dispatch budget gate, shared by every     *)
(* call of route_request that is in flight.                                *)
(*                                                                         *)
(* A call checks the four caps one after the other (each check reads the   *)
(* shared ledgers afresh and nothing is locked), holds a reservation that  *)
(* is a plain dict and is recorded nowhere, and reconciles by three writes *)
(* to the ledgers.  A call that is refused by the critic, or whose handler *)
(* raises, drops its reservation without a word to the meter.              *)
(*                                                                         *)
(* Amounts are whole numbers of one unit.  route_request passes the same   *)
(* estimated_cost_usd to the check and to the reconciliation, so every     *)
(* recorded amount is Est and a ledger is the sequence of its timestamps.  *)
(***************************************************************************)
EXTENDS Naturals, Sequences, FiniteSets

CONSTANTS
    Calls,         \* calls of route_request that may be in flight together
    Roles,         \* registered role ids
    Principals,    \* principal ids
    Est,           \* estimated_cost_usd of an ordinary call
    Estimates,     \* estimates callers pass: Est, or one above CapRequest
    CapRequest,    \* caps.per_request_usd
    CapRole,       \* caps.per_role_daily_usd
    CapPrincipal,  \* caps.per_principal_hourly_usd
    CapSession,    \* caps.session_total_usd
    Day, Hour,     \* the two windows, in units of the clock
    MaxTime,       \* bound: the clock stops here
    MaxRestarts    \* bound: restarts of the process

ASSUME CallsAssumption ==
    /\ IsFiniteSet(Calls)
    /\ Calls # {}

ASSUME AmountAssumption ==
    /\ {Est, CapRequest, CapRole, CapPrincipal, CapSession} \subseteq Nat
    /\ Estimates \subseteq Nat
    /\ \A e \in Estimates : e = Est \/ e > CapRequest

ASSUME NamesAssumption == Roles # {} /\ Principals # {}

ASSUME TimeAssumption == {Day, Hour, MaxTime, MaxRestarts} \subseteq Nat

VARIABLES
    now,             \* datetime.now(timezone.utc)
    sessionTotal,    \* _session_total_usd
    roleSpend,       \* _per_role_spend: timestamps of one Est each
    principalSpend,  \* _per_principal_spend, likewise
    phase,           \* how far each call is inside the meter
    callRole,        \* role_id argument of each call
    callPrincipal,   \* principal_id argument of each call
    stamp,           \* the now that reconcile() read for each call
    forgotten,       \* history: per role, the spends a restart discarded
    restarts         \* history: restarts so far

ledgers == <<sessionTotal, roleSpend, principalSpend>>
callVars == <<phase, callRole, callPrincipal, stamp>>
vars == <<now, ledgers, callVars, forgotten, restarts>>

Phase == {"idle", "role_ok", "principal_ok", "reserved", "stamped", "role_recorded",
          "principal_recorded", "refused"}

-----------------------------------------------------------------------------
(* Ledgers *)

\* Mutant: an entry exactly one window old is dropped.
RecentEntriesStrict(spend, window) == {i \in DOMAIN spend : spend[i] + window > now}

\* _sum_recent: an entry exactly one window old still counts.
RecentEntries(spend, window) == {i \in DOMAIN spend : spend[i] + window >= now}
SumRecent(spend, window) == Est * Cardinality(RecentEntries(spend, window))

\* Every timestamp a role was ever charged at, restarts included.
EverSpent(r) == forgotten[r] \o roleSpend[r]

-----------------------------------------------------------------------------
Init ==
    /\ now = 0
    /\ sessionTotal = 0
    /\ roleSpend = [r \in Roles |-> <<>>]
    /\ principalSpend = [p \in Principals |-> <<>>]
    /\ phase = [c \in Calls |-> "idle"]
    /\ callRole = [c \in Calls |-> CHOOSE r \in Roles : TRUE]
    /\ callPrincipal = [c \in Calls |-> CHOOSE p \in Principals : TRUE]
    /\ stamp = [c \in Calls |-> 0]
    /\ forgotten = [r \in Roles |-> <<>>]
    /\ restarts = 0

Move(c, from, to) ==
    /\ phase[c] = from
    /\ phase' = [phase EXCEPT ![c] = to]

\* Mutant: the role's cap is compared without the estimate.
CheckRoleNoEstimate(c, r, p, e) ==
    /\ Move(c, "idle", IF e > CapRequest \/ SumRecent(roleSpend[r], Day) > CapRole
                       THEN "refused" ELSE "role_ok")
    /\ callRole' = [callRole EXCEPT ![c] = r]
    /\ callPrincipal' = [callPrincipal EXCEPT ![c] = p]
    /\ UNCHANGED <<now, ledgers, stamp, forgotten, restarts>>

\* The per-request cap, then the per-role daily cap.
CheckRole(c, r, p, e) ==
    /\ Move(c, "idle", IF e > CapRequest \/ SumRecent(roleSpend[r], Day) + e > CapRole
                       THEN "refused" ELSE "role_ok")
    /\ callRole' = [callRole EXCEPT ![c] = r]
    /\ callPrincipal' = [callPrincipal EXCEPT ![c] = p]
    /\ UNCHANGED <<now, ledgers, stamp, forgotten, restarts>>

\* Mutant: the principal's cap is looked up in the role's ledger.
CheckPrincipalWrongLedger(c) ==
    /\ Move(c, "role_ok",
            IF SumRecent(roleSpend[callRole[c]], Hour) + Est > CapRole
            THEN "refused" ELSE "principal_ok")
    /\ UNCHANGED <<now, ledgers, callRole, callPrincipal, stamp, forgotten, restarts>>

\* The per-principal hourly cap.
CheckPrincipal(c) ==
    /\ Move(c, "role_ok",
            IF SumRecent(principalSpend[callPrincipal[c]], Hour) + Est > CapPrincipal
            THEN "refused" ELSE "principal_ok")
    /\ UNCHANGED <<now, ledgers, callRole, callPrincipal, stamp, forgotten, restarts>>

\* Mutant: the session cap is compared without the estimate.
CheckSessionNoEstimate(c) ==
    /\ Move(c, "principal_ok", IF sessionTotal > CapSession THEN "refused" ELSE "reserved")
    /\ UNCHANGED <<now, ledgers, callRole, callPrincipal, stamp, forgotten, restarts>>

\* The session cap; on success the caller gets the reservation handle.
CheckSession(c) ==
    /\ Move(c, "principal_ok",
            IF sessionTotal + Est > CapSession THEN "refused" ELSE "reserved")
    /\ UNCHANGED <<now, ledgers, callRole, callPrincipal, stamp, forgotten, restarts>>

\* reconcile() reads the clock once, for both ledgers.
ReadClock(c) ==
    /\ Move(c, "reserved", "stamped")
    /\ stamp' = [stamp EXCEPT ![c] = now]
    /\ UNCHANGED <<now, ledgers, callRole, callPrincipal, forgotten, restarts>>

ReconcileRole(c) ==
    /\ Move(c, "stamped", "role_recorded")
    /\ roleSpend' = [roleSpend EXCEPT ![callRole[c]] = Append(@, stamp[c])]
    /\ UNCHANGED <<now, sessionTotal, principalSpend, callRole, callPrincipal, stamp,
                   forgotten, restarts>>

\* Mutant: the principal's ledger is forgotten.
ReconcilePrincipalSkipped(c) ==
    /\ Move(c, "role_recorded", "principal_recorded")
    /\ UNCHANGED <<now, ledgers, callRole, callPrincipal, stamp, forgotten, restarts>>

ReconcilePrincipal(c) ==
    /\ Move(c, "role_recorded", "principal_recorded")
    /\ principalSpend' = [principalSpend EXCEPT ![callPrincipal[c]] = Append(@, stamp[c])]
    /\ UNCHANGED <<now, sessionTotal, roleSpend, callRole, callPrincipal, stamp,
                   forgotten, restarts>>

ReconcileSession(c) ==
    /\ Move(c, "principal_recorded", "idle")
    /\ sessionTotal' = sessionTotal + Est
    /\ UNCHANGED <<now, roleSpend, principalSpend, callRole, callPrincipal, stamp,
                   forgotten, restarts>>

\* Mutant: dropping a reservation refunds an estimate that was never charged.
AbandonRefunds(c) ==
    /\ Move(c, "reserved", "idle")
    /\ sessionTotal' = sessionTotal - Est
    /\ UNCHANGED <<now, roleSpend, principalSpend, callRole, callPrincipal, stamp,
                   forgotten, restarts>>

\* The caller returns or raises without reconciling: no handler is wired, the
\* handler raised, or the critic refused the artifact.
Abandon(c) ==
    /\ Move(c, "reserved", "idle")
    /\ UNCHANGED <<now, ledgers, callRole, callPrincipal, stamp, forgotten, restarts>>

\* CostCapBreach reached the caller.
Refuse(c) ==
    /\ Move(c, "refused", "idle")
    /\ UNCHANGED <<now, ledgers, callRole, callPrincipal, stamp, forgotten, restarts>>

Tick ==
    /\ now < MaxTime
    /\ now' = now + 1
    /\ UNCHANGED <<ledgers, callVars, forgotten, restarts>>

\* The ledgers live in memory only: a new process starts from an empty meter.
Restart ==
    /\ restarts < MaxRestarts
    /\ restarts' = restarts + 1
    /\ forgotten' = [r \in Roles |-> EverSpent(r)]
    /\ sessionTotal' = 0
    /\ roleSpend' = [r \in Roles |-> <<>>]
    /\ principalSpend' = [p \in Principals |-> <<>>]
    /\ phase' = [c \in Calls |-> "idle"]
    /\ UNCHANGED <<now, callRole, callPrincipal, stamp>>

Step(c) ==
    \/ \E r \in Roles, p \in Principals, e \in Estimates : CheckRole(c, r, p, e)
    \/ CheckPrincipal(c)
    \/ CheckSession(c)
    \/ ReadClock(c)
    \/ ReconcileRole(c)
    \/ ReconcilePrincipal(c)
    \/ ReconcileSession(c)
    \/ Abandon(c)
    \/ Refuse(c)

Next ==
    \/ \E c \in Calls : Step(c)
    \/ Tick
    \/ Restart

Spec == Init /\ [][Next]_vars

-----------------------------------------------------------------------------
TypeOK ==
    /\ now \in 0..MaxTime
    /\ sessionTotal \in Nat
    /\ roleSpend \in [Roles -> Seq(Nat)]
    /\ principalSpend \in [Principals -> Seq(Nat)]
    /\ phase \in [Calls -> Phase]
    /\ callRole \in [Calls -> Roles]
    /\ callPrincipal \in [Calls -> Principals]
    /\ stamp \in [Calls -> Nat]
    /\ forgotten \in [Roles -> Seq(Nat)]
    /\ restarts \in 0..MaxRestarts

\* What the calls in flight beside one may add after its own check: a
\* reservation is not recorded, so each of them may have passed the same check.
Slack == Est * (Cardinality(Calls) - 1)

\* Calls that passed a check whose ledger they have not charged yet.
RoleHolders(r) ==
    {c \in Calls : callRole[c] = r /\ phase[c] \in {"role_ok", "principal_ok", "reserved", "stamped"}}
PrincipalHolders(p) ==
    {c \in Calls : /\ callPrincipal[c] = p
                   /\ phase[c] \in {"principal_ok", "reserved", "stamped", "role_recorded"}}
SessionHolders ==
    {c \in Calls : phase[c] \in {"reserved", "stamped", "role_recorded", "principal_recorded"}}

\* However the checks and the reconciliations of concurrent calls interleave,
\* what a session is charged exceeds its cap by at most one estimate for each
\* further call in flight; with one call at a time the cap is exact.
SessionBound == sessionTotal <= CapSession + Slack

\* The same for what a role is charged within the last day, clock ticks included.
RoleBound == \A r \in Roles : SumRecent(roleSpend[r], Day) <= CapRole + Slack

\* The same for what a principal is charged within the last hour.
PrincipalBound ==
    \A p \in Principals : SumRecent(principalSpend[p], Hour) <= CapPrincipal + Slack

\* The window really slides: no stretch of one day, wherever it starts, carries
\* more of a role's spend than the bound, not only the stretch that ends now, and
\* although racing reconciliations leave a ledger out of order.
AnyDayBound ==
    \A r \in Roles : \A i \in DOMAIN roleSpend[r] :
        Est * Cardinality({j \in DOMAIN roleSpend[r] :
                              roleSpend[r][j] \in roleSpend[r][i]..(roleSpend[r][i] + Day)})
            <= CapRole + Slack

\* The entries of a family of ledgers, and the calls that are at one of some points.
Entries(ledger) == UNION {{<<name, i>> : i \in DOMAIN ledger[name]} : name \in DOMAIN ledger}
At(phases) == {c \in Calls : phase[c] \in phases}

\* The three ledgers never drift apart: they differ by exactly the
\* reconciliations that are half done.
LedgersAgree ==
    /\ Cardinality(Entries(roleSpend)) =
           Cardinality(Entries(principalSpend)) + Cardinality(At({"role_recorded"}))
    /\ Est * Cardinality(Entries(roleSpend)) =
           sessionTotal + Est * Cardinality(At({"role_recorded", "principal_recorded"}))

\* What cost_meter.py calls reserving budget, read as a promise about the session:
\* the reservations handed out fit under the cap together with what was charged.
ReservationsCount == sessionTotal + Est * Cardinality(SessionHolders) <= CapSession

=============================================================================
