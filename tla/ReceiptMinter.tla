---------------------------- MODULE ReceiptMinter ----------------------------
(***************************************************************************)
(* platform_layer/receipt_minter.py: which events may leave the node as    *)
(* external receipts, how fast, and what becomes of the rest.              *)
(*                                                                         *)
(* A mint reads the clock, then takes the lock of its event class, then    *)
(* the lock of the principals, then posts with no lock held; a flush takes *)
(* the class lock to empty the batch and posts after it.  Threads          *)
(* interleave between those points.  The receipt service is external: a    *)
(* post may be refused, may succeed, or may succeed with its answer lost.  *)
(***************************************************************************)
EXTENDS Naturals, Sequences, FiniteSets, SequencesExt

CONSTANTS
    Threads,       \* threads that call mint() or flush_batch()
    Principals,
    Events,        \* event names roles and kernel ask for
    Taxonomy,      \* per section under events:, its entries [event, default]
    Limit,         \* per allowed event: max_per_minute
    Minute, Hour,  \* the two windows, in units of the clock
    MaxTime,       \* bound: the clock stops here
    MaxRequests    \* bound: mints asked for in a behaviour

ASSUME ThreadsAssumption == IsFiniteSet(Threads) /\ Threads # {}
ASSUME LimitAssumption ==
    /\ Events \subseteq DOMAIN Limit /\ \A e \in DOMAIN Limit : Limit[e] \in Nat
    /\ {Minute, Hour, MaxTime, MaxRequests} \subseteq Nat

VARIABLES
    now,              \* time.monotonic()
    timestamps,       \* per event: _RateLimitState.timestamps
    pendingBatch,     \* per event: _RateLimitState.pending_batch, as request numbers
    principalTimes,   \* _principal_timestamps
    pc,               \* where each thread is
    job,              \* the request a minting thread works on
    batch,            \* the batch a flushing thread took
    requests,         \* history: every mint asked for, with its fate
    receipts          \* receipts the service issued: event, principal, requests covered

threadVars == <<pc, job, batch>>
vars == <<now, timestamps, pendingBatch, principalTimes, threadVars, requests, receipts>>

Fates == {"open", "refused", "batched", "minted", "unheard"}

-----------------------------------------------------------------------------
(* The taxonomy *)

\* _build_allowed_events: every section under events: counts, whatever its name.
AllowedEvents ==
    {entry.event : entry \in
        {x \in UNION {Taxonomy[s] : s \in DOMAIN Taxonomy} : x.default # "off"}}

\* _build_rate_limiters gives every allowed event a max_per_minute.
ASSUME TaxonomyAssumption == AllowedEvents \subseteq DOMAIN Limit

-----------------------------------------------------------------------------
(* Windows *)

\* Mutant: an entry exactly one window old is dropped.
PurgeStrict(times, window, t) ==
    LET fresh == {i \in DOMAIN times : times[i] + window > t}
    IN  IF fresh = {} THEN <<>>
        ELSE SubSeq(times, CHOOSE i \in fresh : \A j \in fresh : i <= j, Len(times))

\* _purge_old_timestamps: drop from the front while the front is too old.
Purge(times, window, t) ==
    LET fresh == {i \in DOMAIN times : times[i] + window >= t}
    IN  IF fresh = {} THEN <<>>
        ELSE SubSeq(times, CHOOSE i \in fresh : \A j \in fresh : i <= j, Len(times))

Event(n) == requests[n].event
Principal(n) == requests[n].principal
Clock(t) == requests[job[t]].stamp   \* the now_mono a minting thread read

Go(t, from, to) ==
    /\ pc[t] = from
    /\ pc' = [pc EXCEPT ![t] = to]

\* mint() returns or raises.
Leave(t, from) ==
    /\ Go(t, from, "idle")
    /\ job' = [job EXCEPT ![t] = 0]

SetFate(S, fate) ==
    requests' = [n \in DOMAIN requests |->
                    IF n \in S THEN [requests[n] EXCEPT !.fate = fate] ELSE requests[n]]

-----------------------------------------------------------------------------
Init ==
    /\ now = 0
    /\ timestamps = [e \in AllowedEvents |-> <<>>]
    /\ pendingBatch = [e \in AllowedEvents |-> <<>>]
    /\ principalTimes = [p \in Principals |-> <<>>]
    /\ pc = [t \in Threads |-> "idle"]
    /\ job = [t \in Threads |-> 0]
    /\ batch = [t \in Threads |-> <<>>]
    /\ requests = <<>>
    /\ receipts = <<>>

\* mint() is called: an event that is not allowed is refused at once.
Refuse(t, e, p) ==
    /\ Len(requests) < MaxRequests
    /\ e \notin AllowedEvents
    /\ pc[t] = "idle"
    /\ requests' = Append(requests, [event |-> e, principal |-> p, stamp |-> now, slot |-> FALSE,
                                     fate |-> "refused"])
    /\ UNCHANGED <<now, timestamps, pendingBatch, principalTimes, threadVars, receipts>>

\* For any other event the clock is read, before any lock is taken.
Ask(t, e, p) ==
    /\ Len(requests) < MaxRequests
    /\ e \in AllowedEvents
    /\ Go(t, "idle", "asked")
    /\ requests' = Append(requests, [event |-> e, principal |-> p, stamp |-> now, slot |-> FALSE,
                                     fate |-> "open"])
    /\ job' = [job EXCEPT ![t] = Len(requests) + 1]
    /\ UNCHANGED <<now, timestamps, pendingBatch, principalTimes, batch, receipts>>

\* Under the class lock: purge, then take a slot of the minute.
TakeSlot(t) ==
    /\ pc[t] = "asked"
    /\ LET e == Event(job[t])
           recent == Purge(timestamps[e], Minute, Clock(t))
       IN  /\ Len(recent) < Limit[e]
           /\ timestamps' = [timestamps EXCEPT ![e] = Append(recent, Clock(t))]
    /\ Go(t, "asked", "limited")
    /\ requests' = [requests EXCEPT ![job[t]].slot = TRUE]
    /\ UNCHANGED <<now, pendingBatch, principalTimes, job, batch, receipts>>

\* Under the same lock: the class has used up its minute, the request is batched.
JoinBatch(t) ==
    /\ pc[t] = "asked"
    /\ LET e == Event(job[t])
           recent == Purge(timestamps[e], Minute, Clock(t))
       IN  /\ Len(recent) >= Limit[e]
           /\ timestamps' = [timestamps EXCEPT ![e] = recent]
           /\ pendingBatch' = [pendingBatch EXCEPT ![e] = Append(@, job[t])]
    /\ SetFate({job[t]}, "batched")
    /\ Leave(t, "asked")
    /\ UNCHANGED <<now, principalTimes, batch, receipts>>

\* Mutant: the time the entry expires is stored instead of the time of the mint.
CountPrincipalExpiry(t) ==
    /\ Go(t, "limited", "posting")
    /\ principalTimes' = [principalTimes EXCEPT ![Principal(job[t])] =
                              Append(@, Clock(t) + Hour)]
    /\ UNCHANGED <<now, timestamps, pendingBatch, job, batch, requests, receipts>>

\* Under the principals' lock: the mint is counted, the count is compared with
\* nothing.
CountPrincipal(t) ==
    /\ Go(t, "limited", "posting")
    /\ principalTimes' = [principalTimes EXCEPT ![Principal(job[t])] =
                          Append(Purge(@, Hour, Clock(t)), Clock(t))]
    /\ UNCHANGED <<now, timestamps, pendingBatch, job, batch, requests, receipts>>

\* Mutant: a post without an answer is reported as minted.
DeliveredUnheard(e, p, S, issued, heard) ==
    /\ receipts' = IF issued THEN Append(receipts, [event |-> e, principal |-> p, covers |-> S])
                   ELSE receipts
    /\ SetFate(S, "minted")

\* What the receipt service and the minter make of one post that covers the
\* requests in S: a receipt may be issued, and the minter may hear of it.  If it
\* does not, it answers pending or, with _degraded_mode_ok off, raises: its own
\* state is the same.
Delivered(e, p, S, issued, heard) ==
    /\ heard => issued
    /\ receipts' = IF issued THEN Append(receipts, [event |-> e, principal |-> p, covers |-> S])
                   ELSE receipts
    /\ SetFate(S, IF heard THEN "minted" ELSE "unheard")

\* _post_to_verify for one mint, and the result or exception of mint().
Post(t, issued, heard) ==
    /\ Leave(t, "posting")
    /\ Delivered(Event(job[t]), Principal(job[t]), {job[t]}, issued, heard)
    /\ UNCHANGED <<now, timestamps, pendingBatch, principalTimes, batch>>

\* Mutant: the batch is only copied under the lock.
TakeBatchCopies(t, e) ==
    /\ pendingBatch[e] # <<>>
    /\ Go(t, "idle", "flushing")
    /\ batch' = [batch EXCEPT ![t] = pendingBatch[e]]
    /\ UNCHANGED <<now, timestamps, pendingBatch, principalTimes, job, requests, receipts>>

\* flush_batch, under the class lock: the batch is copied and cleared; an empty
\* one is left alone.
TakeBatch(t, e) ==
    /\ pendingBatch[e] # <<>>
    /\ Go(t, "idle", "flushing")
    /\ batch' = [batch EXCEPT ![t] = pendingBatch[e]]
    /\ pendingBatch' = [pendingBatch EXCEPT ![e] = <<>>]
    /\ UNCHANGED <<now, timestamps, principalTimes, job, requests, receipts>>

\* Mutant: a batch whose post failed is posted again.
PostBatchRetries(t, issued, heard) ==
    /\ Go(t, "flushing", IF heard THEN "idle" ELSE "flushing")
    /\ \E first \in {Principal(n) : n \in ToSet(batch[t])} :
           Delivered(Event(batch[t][1]), first, ToSet(batch[t]), issued, heard)
    /\ UNCHANGED <<now, timestamps, pendingBatch, principalTimes, job, batch>>

\* One receipt for the whole batch, in the name of the first of its principals;
\* if the post fails the batch is gone all the same.
PostBatch(t, issued, heard) ==
    /\ Go(t, "flushing", "idle")
    /\ \E first \in {Principal(n) : n \in ToSet(batch[t])} :
           Delivered(Event(batch[t][1]), first, ToSet(batch[t]), issued, heard)
    /\ batch' = [batch EXCEPT ![t] = <<>>]
    /\ UNCHANGED <<now, timestamps, pendingBatch, principalTimes, job>>

Tick ==
    /\ now < MaxTime
    /\ now' = now + 1
    /\ UNCHANGED <<timestamps, pendingBatch, principalTimes, threadVars, requests, receipts>>

\* The bounds are reached and every thread is done.
Idle ==
    /\ Len(requests) = MaxRequests
    /\ \A t \in Threads : pc[t] = "idle"
    /\ UNCHANGED vars

Step(t) ==
    \/ \E e \in Events, p \in Principals : Refuse(t, e, p) \/ Ask(t, e, p)
    \/ TakeSlot(t)
    \/ JoinBatch(t)
    \/ CountPrincipal(t)
    \/ \E issued \in BOOLEAN, heard \in BOOLEAN : Post(t, issued, heard)
    \/ \E e \in AllowedEvents : TakeBatch(t, e)
    \/ \E issued \in BOOLEAN, heard \in BOOLEAN : PostBatch(t, issued, heard)

Next ==
    \/ \E t \in Threads : Step(t)
    \/ Tick
    \/ Idle

Spec == Init /\ [][Next]_vars

-----------------------------------------------------------------------------
Numbers == 1..MaxRequests

TypeOK ==
    /\ now \in 0..MaxTime
    /\ timestamps \in [AllowedEvents -> Seq(0..MaxTime)]
    /\ pendingBatch \in [AllowedEvents -> Seq(Numbers)]
    /\ principalTimes \in [Principals -> Seq(0..MaxTime)]
    /\ pc \in [Threads -> {"idle", "asked", "limited", "posting", "flushing"}]
    /\ job \in [Threads -> 0..MaxRequests]
    /\ batch \in [Threads -> Seq(Numbers)]
    /\ requests \in Seq([event : Events, principal : Principals, stamp : 0..MaxTime,
                         slot : BOOLEAN, fate : Fates])
    /\ receipts \in Seq([event : AllowedEvents, principal : Principals, covers : SUBSET Numbers])

\* Requests of class e that took a slot with a clock reading in the minute from s.
SlotsFrom(e, s) ==
    {n \in DOMAIN requests : /\ requests[n].slot /\ Event(n) = e
                             /\ requests[n].stamp \in s..(s + Minute)}

\* The window really slides, over every minute and not only the last: a class
\* takes at most its limit in it, and one more for each other thread, which may
\* have read the clock before the window was purged.
RateBound ==
    \A e \in AllowedEvents : \A s \in 0..now :
        Cardinality(SlotsFrom(e, s)) <= Limit[e] + Cardinality(Threads) - 1

\* Everything that was batched is in one place, exactly once, until a flush took
\* its fate in hand: in the batch of its own class, or in a flush under way.
BatchAccounted ==
    LET waiting(n) == {p \in AllowedEvents \X Numbers :
                          p[2] \in DOMAIN pendingBatch[p[1]] /\ pendingBatch[p[1]][p[2]] = n}
        held(n) == {p \in Threads \X Numbers :
                       p[2] \in DOMAIN batch[p[1]] /\ batch[p[1]][p[2]] = n}
    IN  \A n \in DOMAIN requests :
            /\ Cardinality(waiting(n)) + Cardinality(held(n))
                   = IF requests[n].fate = "batched" THEN 1 ELSE 0
            /\ \A p \in waiting(n) : p[1] = Event(n)

\* No request is ever covered by two receipts, whatever answers get lost and
\* however flushes race with mints.
ReceiptedOnce ==
    \A i, j \in DOMAIN receipts : i # j => receipts[i].covers \cap receipts[j].covers = {}

\* What the node says was minted has a receipt, and a receipt is for requests that
\* took a slot or went through the batch of that class: never for a refused one.
ReceiptsHonest ==
    /\ \A n \in DOMAIN requests : requests[n].fate = "minted" =>
           \E i \in DOMAIN receipts : n \in receipts[i].covers
    /\ \A i \in DOMAIN receipts : \A n \in receipts[i].covers :
           /\ receipts[i].event = Event(n)
           /\ requests[n].fate \in {"minted", "unheard"}
           /\ requests[n].slot => receipts[i].covers = {n}
           /\ \E m \in receipts[i].covers : receipts[i].principal = Principal(m)

-----------------------------------------------------------------------------
(* What the documents say of the minter, to be compared with what it does *)

\* seed/receipt_worthy_events.yaml lists these events to say that they are denied.
ExplicitlyDenied ==
    IF "default_deny_explicit" \in DOMAIN Taxonomy
    THEN {entry.event : entry \in Taxonomy["default_deny_explicit"]} ELSE {}
DeniedNeverMint == \A i \in DOMAIN receipts : receipts[i].event \notin ExplicitlyDenied

\* "Rate limits trigger batching with count, not silent drops": a request that
\* was batched waits in a batch until a receipt covers it.
BatchedNotDropped ==
    \A n \in DOMAIN requests :
        ~requests[n].slot /\ requests[n].fate = "unheard" =>
            \/ \E i \in DOMAIN receipts : n \in receipts[i].covers
            \/ \E e \in AllowedEvents : n \in ToSet(pendingBatch[e])
=============================================================================
