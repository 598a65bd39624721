------------------------- MODULE ReceiptMinterProofs -------------------------
(***************************************************************************)
(* Proofs about ReceiptMinter, for any threads, events, taxonomy, limits,  *)
(* windows and bounds: its types, that a batched request is in one place,  *)
(* that no request is receipted twice, that receipts are honest, and that  *)
(* the minute of every class slides.                                       *)
(*                                                                         *)
(* None of it is inductive.  JobInv and PlaceInv say what the request in   *)
(* the hands of a thread, in a batch and in a flush looks like, and that   *)
(* nothing is in two hands; RateInv says, for every window, that either    *)
(* the class still remembers each slot taken in it, or the window is over  *)
(* and only threads with an old reading of the clock can add to it.        *)
(***************************************************************************)
EXTENDS ReceiptMinter, NaturalLemmas, FiniteSetTheorems, FunctionTheorems, SequenceTheorems, TLAPS

Working == {"asked", "limited", "posting"}
Request == [event : Events, principal : Principals, stamp : 0..MaxTime,
            slot : BOOLEAN, fate : Fates]
Receipt == [event : AllowedEvents, principal : Principals, covers : SUBSET Numbers]

Room == Len(requests) <= MaxRequests /\ \A n \in DOMAIN requests : requests[n].stamp <= now

\* The request a thread works on is its own and open; past the limit it has its slot.
JobInv ==
    \A t \in Threads : pc[t] \in Working =>
        /\ job[t] \in DOMAIN requests
        /\ requests[job[t]].fate = "open"
        /\ Event(job[t]) \in AllowedEvents
        /\ requests[job[t]].slot = (pc[t] # "asked")
        /\ \A u \in Threads : pc[u] \in Working /\ job[u] = job[t] => u = t

\* A batched request of class e that never took a slot.
Queued(n, e) ==
    /\ n \in DOMAIN requests /\ requests[n].fate = "batched" /\ ~requests[n].slot
    /\ Event(n) = e /\ e \in AllowedEvents

WaitInv ==
    \A e \in AllowedEvents :
        /\ \A i \in DOMAIN pendingBatch[e] : Queued(pendingBatch[e][i], e)
        /\ \A i, j \in DOMAIN pendingBatch[e] : pendingBatch[e][i] = pendingBatch[e][j] => i = j
        /\ \A i \in DOMAIN pendingBatch[e] : \A t \in Threads : \A j \in DOMAIN batch[t] :
               pendingBatch[e][i] # batch[t][j]

HoldInv ==
    \A t \in Threads :
        /\ batch[t] # <<>> <=> pc[t] = "flushing"
        /\ \A i \in DOMAIN batch[t] : Queued(batch[t][i], Event(batch[t][1]))
        /\ \A i \in DOMAIN batch[t], u \in Threads : \A j \in DOMAIN batch[u] :
               batch[t][i] = batch[u][j] => t = u /\ i = j

FoundInv ==
    \A n \in DOMAIN requests : requests[n].fate = "batched" =>
        \/ \E e \in AllowedEvents : \E i \in DOMAIN pendingBatch[e] : pendingBatch[e][i] = n
        \/ \E t \in Threads : \E i \in DOMAIN batch[t] : batch[t][i] = n

PlaceInv == WaitInv /\ HoldInv /\ FoundInv

CoverInv ==
    /\ \A i \in DOMAIN receipts : receipts[i].covers \subseteq DOMAIN requests
    /\ ReceiptedOnce
    /\ ReceiptsHonest

Inv == TypeOK /\ Room /\ JobInv /\ PlaceInv /\ CoverInv

InWindow(times, s) == {i \in DOMAIN times : times[i] \in s..(s + Minute)}

\* Threads that read the clock in the minute from s and have not come to the limit.
Late(e, s) ==
    {t \in Threads : pc[t] = "asked" /\ Event(job[t]) = e /\ Clock(t) \in s..(s + Minute)}

RateAt(e, s) ==
    \/ Cardinality(SlotsFrom(e, s)) <= Cardinality(InWindow(timestamps[e], s))
    \/ /\ now > s + Minute
       /\ Cardinality(SlotsFrom(e, s)) + Cardinality(Late(e, s))
             <= Limit[e] + Cardinality(Threads) - 1

RateInv ==
    \A e \in AllowedEvents : Len(timestamps[e]) <= Limit[e] /\ \A s \in 0..MaxTime : RateAt(e, s)
-----------------------------------------------------------------------------
(* Operators *)

\* P is times without a prefix, all of it older than the window.
Suffix(P, times, window, t) ==
    \E k \in 0..Len(times) :
        /\ Len(P) = Len(times) - k
        /\ \A i \in 1..k : times[i] + window < t
        /\ \A i \in 1..(Len(times) - k) : P[i] = times[i + k]

\* Purge drops a prefix, all of it older than the window.
LEMMA PurgeDrops ==
    ASSUME NEW T, T \subseteq Nat, NEW times \in Seq(T), NEW window \in Nat, NEW t \in Nat
    PROVE  /\ Purge(times, window, t) \in Seq(T)
           /\ Suffix(Purge(times, window, t), times, window, t)
<1>. DEFINE fresh == {i \in DOMAIN times : times[i] + window >= t}
<1>1. DOMAIN times = 1..Len(times) /\ Len(times) \in Nat /\ \A i \in DOMAIN times : times[i] \in T
  OBVIOUS
<1>4. \A i \in DOMAIN times : times[i] \in Nat
  BY <1>1
<1>2. CASE fresh = {}
  <2>1. Purge(times, window, t) = <<>>
    BY <1>2 DEF Purge
  <2>2. \A i \in 1..Len(times) : times[i] + window < t
    BY <1>1, <1>4, <1>2
  <2>3. <<>> \in Seq(T) /\ Len(<<>>) = Len(times) - Len(times) /\ Len(times) \in 0..Len(times)
    BY <1>1
  <2>4. \A i \in 1..(Len(times) - Len(times)) : FALSE
    BY <1>1
  <2>. QED  BY <2>1, <2>2, <2>3, <2>4 DEF Suffix
<1>3. CASE fresh # {}
  <2>. DEFINE first == CHOOSE i \in fresh : \A j \in fresh : i <= j
  <2>1. first \in fresh /\ \A j \in fresh : first <= j
    <3>1. \E i \in fresh : \A j \in fresh : i <= j
      <4>1. fresh \subseteq Nat
        BY <1>1
      <4>. QED  BY <1>3, <4>1, Least
    <3>. QED  BY <3>1
  <2>2. Purge(times, window, t) = SubSeq(times, first, Len(times))
    BY <1>3 DEF Purge
  <2>3. first \in 1..Len(times)
    BY <1>1, <2>1
  <2>4. \A i \in 1..(first - 1) : times[i] + window < t
    BY <1>1, <1>4, <2>1, <2>3
  <2>. HIDE DEF first
  <2>5. /\ SubSeq(times, first, Len(times)) \in Seq(T)
        /\ Len(SubSeq(times, first, Len(times))) = Len(times) - (first - 1)
        /\ \A i \in 1..(Len(times) - (first - 1)) :
               SubSeq(times, first, Len(times))[i] = times[i + (first - 1)]
    <3>1. \A i \in first..Len(times) : times[i] \in T
      BY <1>1, <2>3
    <3>2. first \in Int /\ Len(times) \in Int /\ first <= Len(times)
      BY <1>1, <2>3
    <3>3. /\ SubSeq(times, first, Len(times)) \in Seq(T)
          /\ Len(SubSeq(times, first, Len(times))) = Len(times) - first + 1
          /\ \A i \in 1..(Len(times) - first + 1) :
                 SubSeq(times, first, Len(times))[i] = times[first + i - 1]
      BY <3>1, <3>2, SubSeqProperties
    <3>. QED  BY <3>2, <3>3
  <2>6. first - 1 \in 0..Len(times)
    BY <1>1, <2>3
  <2>. QED  BY <2>2, <2>4, <2>5, <2>6 DEF Suffix
<1>. QED  BY <1>2, <1>3

\* SetFate changes the fate of the requests it names and nothing else.
LEMMA FateOnly ==
    ASSUME requests \in Seq(Request), NEW S, NEW fate \in Fates, SetFate(S, fate)
    PROVE  /\ requests' \in Seq(Request)
           /\ Len(requests') = Len(requests)
           /\ DOMAIN requests' = DOMAIN requests
           /\ \A n \in DOMAIN requests :
                 /\ requests'[n].event = requests[n].event
                 /\ requests'[n].principal = requests[n].principal
                 /\ requests'[n].stamp = requests[n].stamp
                 /\ requests'[n].slot = requests[n].slot
                 /\ requests'[n].fate = IF n \in S THEN fate ELSE requests[n].fate
<1>1. DOMAIN requests = 1..Len(requests) /\ Len(requests) \in Nat
  OBVIOUS
<1>2. ASSUME NEW n \in DOMAIN requests
      PROVE  /\ requests'[n] \in Request
             /\ requests'[n].event = requests[n].event
             /\ requests'[n].principal = requests[n].principal
             /\ requests'[n].stamp = requests[n].stamp
             /\ requests'[n].slot = requests[n].slot
             /\ requests'[n].fate = IF n \in S THEN fate ELSE requests[n].fate
  <2>1. requests[n] \in Request
    OBVIOUS
  <2>2. requests'[n] = IF n \in S THEN [requests[n] EXCEPT !.fate = fate] ELSE requests[n]
    BY DEF SetFate
  <2>. QED  BY <2>1, <2>2 DEF Request
<1>3. requests' \in [1..Len(requests) -> Request]
  BY <1>1, <1>2 DEF SetFate
<1>4. requests' \in Seq(Request)
  BY <1>1, <1>3
<1>. QED  BY <1>1, <1>2, <1>3, <1>4

\* A request that is asked for is added at the end.
LEMMA Asked ==
    ASSUME requests \in Seq(Request), NEW r \in Request, requests' = Append(requests, r)
    PROVE  /\ requests' \in Seq(Request)
           /\ Len(requests') = Len(requests) + 1
           /\ DOMAIN requests' = DOMAIN requests \cup {Len(requests) + 1}
           /\ Len(requests) + 1 \notin DOMAIN requests
           /\ requests'[Len(requests) + 1] = r
           /\ \A n \in DOMAIN requests : requests'[n] = requests[n]
OBVIOUS
-----------------------------------------------------------------------------
(* Receipts *)

USE DEF Inv, Request, Receipt

\* Steps that issue no receipt and leave the requests that have one alone.
LEMMA CoverKept ==
    ASSUME CoverInv, receipts' = receipts,
           DOMAIN requests \subseteq DOMAIN requests',
           \A n \in DOMAIN requests' : requests'[n].fate = "minted" =>
               n \in DOMAIN requests /\ requests[n].fate = "minted",
           \A n \in DOMAIN requests :
               /\ requests'[n].event = requests[n].event
               /\ requests'[n].principal = requests[n].principal
               /\ requests[n].fate \in {"minted", "unheard"} =>
                    requests'[n].fate = requests[n].fate /\ requests'[n].slot = requests[n].slot
    PROVE  CoverInv'
<1>1. \A i \in DOMAIN receipts' : receipts'[i].covers \subseteq DOMAIN requests'
  BY DEF CoverInv
<1>2. ReceiptedOnce'
  BY DEF CoverInv, ReceiptedOnce
<1>3. \A n \in DOMAIN requests' : requests'[n].fate = "minted" =>
          \E i \in DOMAIN receipts' : n \in receipts'[i].covers
  BY DEF CoverInv, ReceiptsHonest
<1>4. ASSUME NEW i \in DOMAIN receipts, NEW n \in receipts[i].covers
      PROVE  /\ receipts[i].event = Event(n)'
             /\ requests'[n].fate \in {"minted", "unheard"}
             /\ requests'[n].slot => receipts[i].covers = {n}
             /\ \E m \in receipts[i].covers : receipts[i].principal = Principal(m)'
  <2>1. receipts[i].covers \subseteq DOMAIN requests
    BY DEF CoverInv
  <2>. QED  BY <2>1 DEF CoverInv, ReceiptsHonest, Event, Principal
<1>5. ReceiptsHonest'
  BY <1>3, <1>4 DEF ReceiptsHonest
<1>. QED  BY <1>1, <1>2, <1>5 DEF CoverInv

\* A post covers requests that no receipt covers yet.
LEMMA Posted ==
    ASSUME TypeOK, CoverInv, NEW e \in AllowedEvents, NEW p \in Principals,
           NEW S \in SUBSET (DOMAIN requests), DOMAIN requests \subseteq Numbers,
           \A n \in S : Event(n) = e /\ requests[n].fate \in {"open", "batched"},
           \A n, m \in S : requests[n].slot => m = n,
           \E m \in S : p = Principal(m),
           NEW issued \in BOOLEAN, NEW heard \in BOOLEAN,
           Delivered(e, p, S, issued, heard)
    PROVE  CoverInv' /\ receipts' \in Seq(Receipt)
<1>. DEFINE fate == IF heard THEN "minted" ELSE "unheard"
            r == [event |-> e, principal |-> p, covers |-> S]
<1>1. receipts \in Seq(Receipt) /\ requests \in Seq(Request)
  BY DEF TypeOK
<1>2. r \in Receipt
  OBVIOUS
<1>3. fate \in {"minted", "unheard"} /\ fate \in Fates
  BY DEF Fates
<1>4. SetFate(S, fate)
  BY DEF Delivered
<1>. HIDE DEF fate, r
<1>5. /\ DOMAIN requests' = DOMAIN requests
      /\ \A n \in DOMAIN requests :
            /\ requests'[n].event = requests[n].event
            /\ requests'[n].principal = requests[n].principal
            /\ requests'[n].slot = requests[n].slot
            /\ requests'[n].fate = IF n \in S THEN fate ELSE requests[n].fate
  BY <1>1, <1>3, <1>4, FateOnly
<1>6. \A i \in DOMAIN receipts : receipts[i].covers \cap S = {}
  BY DEF CoverInv, ReceiptsHonest
<1>7. CASE ~issued
  <2>1. receipts' = receipts /\ fate = "unheard"
    BY <1>7 DEF Delivered, fate
  <2>2. \A n \in S : requests[n].fate \notin {"minted", "unheard"}
    OBVIOUS
  <2>. QED  BY <1>1, <1>5, <2>1, <2>2, CoverKept
<1>8. CASE issued
  <2>. DEFINE new == Len(receipts) + 1
  <2>1. receipts' = Append(receipts, r)
    BY <1>8 DEF Delivered, r
  <2>2. /\ receipts' \in Seq(Receipt)
        /\ DOMAIN receipts' = DOMAIN receipts \cup {new}
        /\ new \notin DOMAIN receipts
        /\ receipts'[new] = r
        /\ \A i \in DOMAIN receipts : receipts'[i] = receipts[i]
    BY <1>1, <1>2, <2>1
  <2>3. r.event = e /\ r.principal = p /\ r.covers = S
    BY DEF r
  <2>. HIDE DEF new
  <2>4. ReceiptedOnce'
    BY <1>6, <2>2, <2>3 DEF CoverInv, ReceiptedOnce
  <2>5. \A i \in DOMAIN receipts' : receipts'[i].covers \subseteq DOMAIN requests'
    BY <1>5, <2>2, <2>3 DEF CoverInv
  <2>6. \A n \in DOMAIN requests' : requests'[n].fate = "minted" =>
            \E i \in DOMAIN receipts' : n \in receipts'[i].covers
    BY <1>5, <2>2, <2>3 DEF CoverInv, ReceiptsHonest
  <2>7. ASSUME NEW i \in DOMAIN receipts, NEW n \in receipts[i].covers
        PROVE  /\ receipts'[i].event = Event(n)'
               /\ requests'[n].fate \in {"minted", "unheard"}
               /\ requests'[n].slot => receipts'[i].covers = {n}
               /\ \E m \in receipts'[i].covers : receipts'[i].principal = Principal(m)'
    <3>1. receipts[i].covers \subseteq DOMAIN requests /\ n \notin S
      BY <1>6 DEF CoverInv
    <3>. QED  BY <1>5, <2>2, <3>1 DEF CoverInv, ReceiptsHonest, Event, Principal
  <2>8. ASSUME NEW n \in S
        PROVE  /\ receipts'[new].event = Event(n)'
               /\ requests'[n].fate \in {"minted", "unheard"}
               /\ requests'[n].slot => receipts'[new].covers = {n}
               /\ \E m \in receipts'[new].covers : receipts'[new].principal = Principal(m)'
    <3>1. requests[n].slot => S = {n}
      OBVIOUS
    <3>. QED  BY <1>3, <1>5, <2>2, <2>3, <3>1 DEF Event, Principal
  <2>9. ReceiptsHonest'
    BY <2>2, <2>3, <2>6, <2>7, <2>8 DEF ReceiptsHonest
  <2>. QED  BY <2>2, <2>4, <2>5, <2>9 DEF CoverInv
<1>. QED  BY <1>7, <1>8
-----------------------------------------------------------------------------
(* Steps *)

\* Request numbers are positions in requests.
LEMMA Numbered ==
    ASSUME TypeOK, Room
    PROVE  /\ requests \in Seq(Request)
           /\ Len(requests) \in Nat /\ MaxRequests \in Nat
           /\ DOMAIN requests = 1..Len(requests)
           /\ DOMAIN requests \subseteq Numbers
           /\ \A n \in DOMAIN requests : requests[n] \in Request
           /\ now \in Nat /\ MaxTime \in Nat
<1>1. requests \in Seq(Request) /\ MaxRequests \in Nat /\ MaxTime \in Nat /\ now \in Nat
  BY LimitAssumption DEF TypeOK
<1>2. /\ Len(requests) \in Nat /\ DOMAIN requests = 1..Len(requests)
      /\ \A n \in DOMAIN requests : requests[n] \in Request
  <2>. HIDE DEF Request
  <2>. QED  BY <1>1
<1>. QED  BY <1>1, <1>2 DEF Room, Numbers

LEMMA InitStep == Init => Inv
<1>. SUFFICES ASSUME Init PROVE Inv
  OBVIOUS
<1>. USE DEF Init
<1>1. TypeOK /\ Room
  BY LimitAssumption DEF TypeOK, Room, Fates, Numbers
<1>2. JobInv /\ PlaceInv
  BY DEF JobInv, PlaceInv, WaitInv, HoldInv, FoundInv, Working
<1>3. CoverInv
  BY DEF CoverInv, ReceiptedOnce, ReceiptsHonest
<1>. QED  BY <1>1, <1>2, <1>3

\* A new request, refused or in the hands of its thread.
LEMMA NewRequest ==
    ASSUME Inv, NEW t \in Threads, NEW e \in Events, NEW p \in Principals,
           Refuse(t, e, p) \/ Ask(t, e, p)
    PROVE  Inv'
<1>. DEFINE fate == IF e \in AllowedEvents THEN "open" ELSE "refused"
            r == [event |-> e, principal |-> p, stamp |-> now, slot |-> FALSE, fate |-> fate]
            new == Len(requests) + 1
<1>1. requests' = Append(requests, r)
  BY DEF Refuse, Ask
<1>2. r \in Request /\ fate \in {"open", "refused"}
  BY DEF TypeOK, Fates
<1>3. /\ r.event = e /\ r.fate = fate /\ r.slot = FALSE /\ r.stamp = now
  OBVIOUS
<1>4. /\ now' = now /\ timestamps' = timestamps /\ pendingBatch' = pendingBatch
      /\ principalTimes' = principalTimes /\ batch' = batch /\ receipts' = receipts
      /\ Len(requests) < MaxRequests
  BY DEF Refuse, Ask, threadVars
<1>5. /\ pc[t] = "idle"
      /\ \/ pc' = pc /\ job' = job
         \/ /\ e \in AllowedEvents
            /\ pc' = [pc EXCEPT ![t] = "asked"] /\ job' = [job EXCEPT ![t] = new]
  BY DEF Refuse, Ask, Go, threadVars
<1>. HIDE DEF fate, r
<1>6. /\ requests' \in Seq(Request)
      /\ Len(requests') = Len(requests) + 1
      /\ DOMAIN requests' = DOMAIN requests \cup {new}
      /\ new \notin DOMAIN requests
      /\ requests'[new] = r
      /\ \A n \in DOMAIN requests : requests'[n] = requests[n]
  BY <1>1, <1>2, Numbered, Asked
<1>7. new \in 0..MaxRequests
  BY <1>4, Numbered
<1>. HIDE DEF new
<1>8. TypeOK'
  BY <1>4, <1>5, <1>6, <1>7 DEF TypeOK
<1>9. Room'
  BY <1>3, <1>4, <1>6, Numbered DEF Room
<1>10. JobInv'
  <2>1. ASSUME NEW u \in Threads, pc'[u] \in Working
        PROVE  /\ job'[u] \in DOMAIN requests' /\ requests'[job'[u]].fate = "open"
               /\ requests'[job'[u]].event \in AllowedEvents
               /\ requests'[job'[u]].slot = (pc'[u] # "asked")
               /\ job'[u] = new <=> (u = t /\ pc'[t] # "idle")
               /\ u # t => pc'[u] = pc[u] /\ job'[u] = job[u] /\ job[u] \in DOMAIN requests
    <3>1. CASE u = t
      BY <1>2, <1>3, <1>5, <1>6, <2>1, <3>1 DEF fate, Working, TypeOK
    <3>2. CASE u # t
      <4>1. pc'[u] = pc[u] /\ job'[u] = job[u]
        BY <1>5, <3>2 DEF TypeOK
      <4>. QED  BY <1>6, <2>1, <3>2, <4>1 DEF JobInv, Event
    <3>. QED  BY <3>1, <3>2
  <2>2. ASSUME NEW u \in Threads, NEW v \in Threads, pc'[u] \in Working, pc'[v] \in Working,
               job'[u] = job'[v]
        PROVE  u = v
    BY <1>6, <2>1, <2>2, pc'[t] = "idle" => pc'[t] \notin Working DEF JobInv, Working
  <2>. QED  BY <2>1, <2>2 DEF JobInv, Event
<1>11. ASSUME NEW n, NEW c, Queued(n, c) PROVE Queued(n, c)'
  BY <1>6, <1>11 DEF Queued, Event
<1>12. WaitInv' /\ HoldInv'
  <2>1. \A u \in Threads : pc'[u] = "flushing" <=> pc[u] = "flushing"
    BY <1>5 DEF TypeOK
  <2>2. ASSUME NEW u \in Threads, NEW i \in DOMAIN batch[u]
        PROVE  Queued(batch[u][i], Event(batch[u][1]))'
    <3>1. batch[u] \in Seq(Numbers) /\ 1 \in DOMAIN batch[u]
      BY DEF TypeOK
    <3>2. batch[u][1] \in DOMAIN requests /\ Queued(batch[u][i], Event(batch[u][1]))
      BY <3>1 DEF PlaceInv, HoldInv, Queued
    <3>. QED  BY <1>4, <1>6, <3>2 DEF Queued, Event
  <2>. QED  BY <1>4, <1>11, <2>1, <2>2 DEF PlaceInv, WaitInv, HoldInv
<1>13. FoundInv'
  BY <1>2, <1>3, <1>4, <1>6 DEF PlaceInv, FoundInv
<1>14. CoverInv'
  <2>1. \A n \in DOMAIN requests' : requests'[n].fate = "minted" =>
            n \in DOMAIN requests /\ requests[n].fate = "minted"
    BY <1>2, <1>3, <1>6
  <2>. QED  BY <1>4, <1>6, <2>1, CoverKept
<1>. QED  BY <1>8, <1>9, <1>10, <1>12, <1>13, <1>14 DEF PlaceInv

\* At the limit, with a slot to spare: the slot is the request's.
LEMMA SlotStep ==
    ASSUME Inv, NEW t \in Threads, TakeSlot(t)
    PROVE  Inv'
<1>. DEFINE k == job[t]
            e == Event(k)
<1>1. /\ now' = now /\ pendingBatch' = pendingBatch /\ principalTimes' = principalTimes
      /\ job' = job /\ batch' = batch /\ receipts' = receipts
      /\ pc[t] = "asked" /\ pc' = [pc EXCEPT ![t] = "limited"]
      /\ requests' = [requests EXCEPT ![k].slot = TRUE]
      /\ timestamps' = [timestamps EXCEPT ![e] = Append(Purge(timestamps[e], Minute, Clock(t)), Clock(t))]
  BY DEF TakeSlot, Go
<1>2. /\ k \in DOMAIN requests /\ requests[k].fate = "open" /\ e \in AllowedEvents
      /\ Clock(t) \in 0..MaxTime
  BY <1>1, Numbered DEF JobInv, Working, Clock
<1>3. /\ requests' \in Seq(Request)
      /\ Len(requests') = Len(requests)
      /\ DOMAIN requests' = DOMAIN requests
      /\ \A n \in DOMAIN requests :
            /\ requests'[n].event = requests[n].event
            /\ requests'[n].principal = requests[n].principal
            /\ requests'[n].stamp = requests[n].stamp
            /\ requests'[n].fate = requests[n].fate
            /\ requests'[n].slot = IF n = k THEN TRUE ELSE requests[n].slot
  <2>1. [requests[k] EXCEPT !.slot = TRUE] \in Request
    BY <1>2, Numbered
  <2>2. requests' = [requests EXCEPT ![k] = [requests[k] EXCEPT !.slot = TRUE]]
    BY <1>1
  <2>. QED  BY <1>2, <2>1, <2>2, Numbered
<1>. HIDE DEF k, e
<1>4. TypeOK'
  <2>1. timestamps' \in [AllowedEvents -> Seq(0..MaxTime)]
    <3>1. timestamps[e] \in Seq(0..MaxTime) /\ Minute \in Nat /\ Clock(t) \in Nat
      BY <1>2, LimitAssumption DEF TypeOK
    <3>2. Purge(timestamps[e], Minute, Clock(t)) \in Seq(0..MaxTime)
      BY <3>1, PurgeDrops, 0..MaxTime \subseteq Nat
    <3>3. Append(Purge(timestamps[e], Minute, Clock(t)), Clock(t)) \in Seq(0..MaxTime)
      BY <1>2, <3>2
    <3>. QED  BY <1>1, <3>3 DEF TypeOK
  <2>. QED  BY <1>1, <1>3, <2>1 DEF TypeOK
<1>5. Room'
  BY <1>1, <1>3 DEF Room
<1>6. JobInv'
  <2>1. \A u \in Threads : u # t => pc'[u] = pc[u]
    BY <1>1 DEF TypeOK
  <2>2. \A u \in Threads : pc[u] \in Working /\ u # t => job[u] # k
    BY <1>1 DEF JobInv, Working, k
  <2>3. pc'[t] = "limited" /\ "asked" \in Working /\ "limited" \in Working
    BY <1>1 DEF TypeOK, Working
  <2>4. \A u \in Threads : pc'[u] \in Working => pc[u] \in Working
    BY <1>1, <2>1, <2>3
  <2>5. ASSUME NEW u \in Threads, pc'[u] \in Working
        PROVE  /\ job[u] \in DOMAIN requests' /\ requests'[job[u]].fate = "open"
               /\ requests'[job[u]].event \in AllowedEvents
               /\ requests'[job[u]].slot = (pc'[u] # "asked")
    <3>1. job[u] \in DOMAIN requests /\ requests[job[u]].fate = "open" /\ requests[job[u]].event \in AllowedEvents
      BY <2>4, <2>5 DEF JobInv, Event
    <3>2. CASE u = t
      BY <1>3, <2>3, <3>1, <3>2 DEF k
    <3>3. CASE u # t
      <4>1. requests[job[u]].slot = (pc[u] # "asked")
        BY <2>4, <2>5 DEF JobInv
      <4>2. requests'[job[u]].slot = requests[job[u]].slot
        BY <1>3, <2>2, <2>4, <2>5, <3>1, <3>3
      <4>. QED  BY <1>3, <2>1, <3>1, <3>3, <4>1, <4>2
    <3>. QED  BY <3>2, <3>3
  <2>. QED  BY <1>1, <2>4, <2>5 DEF JobInv, Event
<1>7. \A n, c : Queued(n, c) => Queued(n, c)'
  BY <1>2, <1>3 DEF Queued, Event
<1>8. PlaceInv'
  <2>1. \A u \in Threads : pc'[u] = "flushing" <=> pc[u] = "flushing"
    BY <1>1 DEF TypeOK
  <2>2. ASSUME NEW u \in Threads, NEW i \in DOMAIN batch[u]
        PROVE  Queued(batch[u][i], Event(batch[u][1]))'
    <3>1. batch[u] \in Seq(Numbers) /\ 1 \in DOMAIN batch[u]
      BY DEF TypeOK
    <3>2. batch[u][1] \in DOMAIN requests /\ Queued(batch[u][i], Event(batch[u][1]))
      BY <3>1 DEF PlaceInv, HoldInv, Queued
    <3>. QED  BY <1>1, <1>2, <1>3, <3>2 DEF Queued, Event
  <2>3. WaitInv' /\ HoldInv'
    BY <1>1, <1>7, <2>1, <2>2 DEF PlaceInv, WaitInv, HoldInv
  <2>4. FoundInv'
    BY <1>1, <1>3 DEF PlaceInv, FoundInv
  <2>. QED  BY <2>3, <2>4 DEF PlaceInv
<1>9. CoverInv'
  BY <1>1, <1>2, <1>3, CoverKept
<1>. QED  BY <1>4, <1>5, <1>6, <1>8, <1>9

\* The principal is counted, which no part of the invariant is about.
LEMMA CountStep ==
    ASSUME Inv, NEW t \in Threads, CountPrincipal(t)
    PROVE  Inv'
<1>. DEFINE p == Principal(job[t])
<1>1. /\ now' = now /\ pendingBatch' = pendingBatch /\ timestamps' = timestamps
      /\ job' = job /\ batch' = batch /\ receipts' = receipts /\ requests' = requests
      /\ pc[t] = "limited" /\ pc' = [pc EXCEPT ![t] = "posting"]
      /\ principalTimes' = [principalTimes EXCEPT ![p] = Append(Purge(@, Hour, Clock(t)), Clock(t))]
  BY DEF CountPrincipal, Go
<1>2. job[t] \in DOMAIN requests /\ p \in Principals /\ Clock(t) \in 0..MaxTime
  BY <1>1, Numbered DEF JobInv, Working, Clock, Principal
<1>. HIDE DEF p
<1>3. TypeOK'
  <2>1. principalTimes' \in [Principals -> Seq(0..MaxTime)]
    <3>1. principalTimes[p] \in Seq(0..MaxTime) /\ Hour \in Nat /\ Clock(t) \in Nat
      BY <1>2, LimitAssumption DEF TypeOK
    <3>2. Purge(principalTimes[p], Hour, Clock(t)) \in Seq(0..MaxTime)
      BY <3>1, PurgeDrops, 0..MaxTime \subseteq Nat
    <3>3. Append(Purge(principalTimes[p], Hour, Clock(t)), Clock(t)) \in Seq(0..MaxTime)
      BY <1>2, <3>2
    <3>. QED  BY <1>1, <3>3 DEF TypeOK
  <2>. QED  BY <1>1, <2>1 DEF TypeOK
<1>4. /\ \A u \in Threads : pc'[u] \in Working <=> pc[u] \in Working
      /\ \A u \in Threads : pc'[u] = "flushing" <=> pc[u] = "flushing"
      /\ \A u \in Threads : pc'[u] = "asked" <=> pc[u] = "asked"
  BY <1>1 DEF TypeOK, Working
<1>5. JobInv'
  BY <1>1, <1>4 DEF JobInv, Event
<1>6. PlaceInv'
  BY <1>1, <1>4 DEF PlaceInv, WaitInv, HoldInv, FoundInv, Queued, Event
<1>7. Room'
  BY <1>1 DEF Room
<1>8. CoverInv'
  BY <1>1, CoverKept
<1>. QED  BY <1>3, <1>5, <1>6, <1>7, <1>8

\* What a fate given to the requests of S leaves of the rest of the invariant.
LEMMA RoomKept ==
    ASSUME TypeOK, Room, NEW S, NEW fate \in Fates, SetFate(S, fate), now' = now
    PROVE  Room'
<1>1. /\ Len(requests') = Len(requests) /\ DOMAIN requests' = DOMAIN requests
      /\ \A n \in DOMAIN requests : requests'[n].stamp = requests[n].stamp
  BY FateOnly, Numbered
<1>. QED  BY <1>1 DEF Room

\* A thread leaves mint() with the fate of its request settled.
LEMMA JobLeaves ==
    ASSUME TypeOK, Room, JobInv, NEW t \in Threads, pc[t] \in Working, Leave(t, pc[t]),
           NEW fate \in Fates, SetFate({job[t]}, fate)
    PROVE  JobInv'
<1>1. /\ DOMAIN requests' = DOMAIN requests
      /\ \A n \in DOMAIN requests :
            /\ requests'[n].event = requests[n].event
            /\ requests'[n].slot = requests[n].slot
            /\ requests'[n].fate = IF n \in {job[t]} THEN fate ELSE requests[n].fate
  BY FateOnly, Numbered
<1>2. /\ pc' = [pc EXCEPT ![t] = "idle"] /\ job' = [job EXCEPT ![t] = 0]
  BY DEF Leave, Go
<1>3. ASSUME NEW u \in Threads, pc'[u] \in Working
      PROVE  u # t /\ pc'[u] = pc[u] /\ job'[u] = job[u] /\ job[u] # job[t] /\ job[u] \in DOMAIN requests
  BY <1>2, <1>3 DEF TypeOK, JobInv, Working
<1>4. ASSUME NEW u \in Threads, pc'[u] \in Working
      PROVE  /\ job'[u] \in DOMAIN requests' /\ requests'[job'[u]].fate = "open"
             /\ requests'[job'[u]].event \in AllowedEvents
             /\ requests'[job'[u]].slot = (pc'[u] # "asked")
  <2>1. requests[job[u]].slot = (pc[u] # "asked") /\ requests[job[u]].fate = "open"
        /\ requests[job[u]].event \in AllowedEvents
    BY <1>3, <1>4 DEF JobInv, Event
  <2>. QED  BY <1>1, <1>3, <1>4, <2>1
<1>. QED  BY <1>3, <1>4 DEF JobInv, Event

\* At the limit, with no slot left: the request joins the batch of its class.
LEMMA JoinStep ==
    ASSUME Inv, NEW t \in Threads, JoinBatch(t)
    PROVE  Inv'
<1>0. PICK k, e : k = job[t] /\ e = Event(k)
  OBVIOUS
<1>1. /\ now' = now /\ principalTimes' = principalTimes /\ batch' = batch /\ receipts' = receipts
      /\ pc[t] = "asked" /\ pc' = [pc EXCEPT ![t] = "idle"] /\ job' = [job EXCEPT ![t] = 0]
      /\ Leave(t, pc[t]) /\ SetFate({k}, "batched")
      /\ timestamps' = [timestamps EXCEPT ![e] = Purge(timestamps[e], Minute, Clock(t))]
      /\ pendingBatch' = [pendingBatch EXCEPT ![e] = Append(@, k)]
  BY <1>0 DEF JoinBatch, Leave, Go
<1>2. /\ k \in DOMAIN requests /\ requests[k].fate = "open" /\ e \in AllowedEvents
      /\ requests[k].slot = FALSE /\ Clock(t) \in 0..MaxTime /\ k \in Numbers
  <2>1. requests[k].slot = (pc[t] # "asked")
    BY <1>0, <1>1 DEF JobInv, Working
  <2>. QED  BY <1>0, <1>1, <2>1, Numbered DEF JobInv, Working, Clock
<1>3. /\ requests' \in Seq(Request)
      /\ DOMAIN requests' = DOMAIN requests
      /\ \A n \in DOMAIN requests :
            /\ requests'[n].event = requests[n].event
            /\ requests'[n].principal = requests[n].principal
            /\ requests'[n].slot = requests[n].slot
            /\ requests'[n].fate = IF n = k THEN "batched" ELSE requests[n].fate
  BY <1>1, FateOnly, Numbered, "batched" \in Fates DEF Fates
<1>4. JobInv' /\ Room'
  BY <1>0, <1>1, JobLeaves, RoomKept DEF Working, Fates
<1>5. TypeOK'
  <2>1. timestamps' \in [AllowedEvents -> Seq(0..MaxTime)]
    <3>1. timestamps[e] \in Seq(0..MaxTime) /\ Minute \in Nat /\ Clock(t) \in Nat
      BY <1>2, LimitAssumption DEF TypeOK
    <3>2. Purge(timestamps[e], Minute, Clock(t)) \in Seq(0..MaxTime)
      BY <3>1, PurgeDrops, 0..MaxTime \subseteq Nat
    <3>. QED  BY <1>1, <3>2 DEF TypeOK
  <2>2. pendingBatch' \in [AllowedEvents -> Seq(Numbers)]
    <3>1. Append(pendingBatch[e], k) \in Seq(Numbers)
      BY <1>2 DEF TypeOK
    <3>. QED  BY <1>1, <3>1 DEF TypeOK
  <2>3. job' \in [Threads -> 0..MaxRequests] /\ pc' \in [Threads -> {"idle", "asked", "limited", "posting", "flushing"}]
    BY <1>1, LimitAssumption DEF TypeOK
  <2>. QED  BY <1>1, <1>3, <2>1, <2>2, <2>3 DEF TypeOK
<1>6. \A n, c : Queued(n, c) => Queued(n, c)' /\ n # k
  BY <1>2, <1>3 DEF Queued, Event
<1>7. Queued(k, e)'
  BY <1>0, <1>2, <1>3 DEF Queued, Event
<1>8. \A u \in Threads : \A i \in DOMAIN batch[u] : batch[u][i] # k
  BY <1>6 DEF PlaceInv, HoldInv
<1>9. WaitInv'
  <2>. SUFFICES ASSUME NEW c \in AllowedEvents
                PROVE  /\ \A i \in DOMAIN pendingBatch'[c] : Queued(pendingBatch[c][i], c)'
                       /\ \A i, j \in DOMAIN pendingBatch'[c] :
                             pendingBatch'[c][i] = pendingBatch'[c][j] => i = j
                       /\ \A i \in DOMAIN pendingBatch'[c] : \A u \in Threads : \A j \in DOMAIN batch[u] :
                             pendingBatch'[c][i] # batch[u][j]
    BY <1>1 DEF WaitInv
  <2>1. CASE c # e
    <3>1. pendingBatch'[c] = pendingBatch[c]
      BY <1>1, <2>1 DEF TypeOK
    <3>. QED  BY <1>6, <3>1 DEF PlaceInv, WaitInv
  <2>2. CASE c = e
    <3>. DEFINE new == Len(pendingBatch[e]) + 1
    <3>1. pendingBatch'[e] = Append(pendingBatch[e], k) /\ pendingBatch[e] \in Seq(Numbers)
      BY <1>1, <1>2 DEF TypeOK
    <3>2. /\ DOMAIN pendingBatch'[e] = DOMAIN pendingBatch[e] \cup {new}
          /\ pendingBatch'[e][new] = k
          /\ \A i \in DOMAIN pendingBatch[e] : pendingBatch'[e][i] = pendingBatch[e][i]
      BY <1>2, <3>1
    <3>. HIDE DEF new
    <3>3. \A i \in DOMAIN pendingBatch[e] : Queued(pendingBatch[e][i], e) /\ pendingBatch[e][i] # k
      BY <1>2, <1>6 DEF PlaceInv, WaitInv
    <3>4. \A i \in DOMAIN pendingBatch'[e] : Queued(pendingBatch[e][i], e)'
      BY <1>6, <1>7, <3>2, <3>3
    <3>5. \A i, j \in DOMAIN pendingBatch[e] : pendingBatch[e][i] = pendingBatch[e][j] => i = j
      BY <1>2 DEF PlaceInv, WaitInv
    <3>6. \A i, j \in DOMAIN pendingBatch'[e] : pendingBatch'[e][i] = pendingBatch'[e][j] => i = j
      BY <3>2, <3>3, <3>5
    <3>7. \A i \in DOMAIN pendingBatch[e] : \A u \in Threads : \A j \in DOMAIN batch[u] :
             pendingBatch[e][i] # batch[u][j]
      BY <1>2 DEF PlaceInv, WaitInv
    <3>8. \A i \in DOMAIN pendingBatch'[e] : \A u \in Threads : \A j \in DOMAIN batch[u] :
             pendingBatch'[e][i] # batch[u][j]
      BY <1>8, <3>2, <3>7
    <3>. QED  BY <2>2, <3>4, <3>6, <3>8
  <2>. QED  BY <2>1, <2>2
<1>10. HoldInv'
  <2>1. \A u \in Threads : pc'[u] = "flushing" <=> pc[u] = "flushing"
    BY <1>1 DEF TypeOK
  <2>2. ASSUME NEW u \in Threads, NEW i \in DOMAIN batch[u]
        PROVE  Queued(batch[u][i], Event(batch[u][1]))'
    <3>1. batch[u] \in Seq(Numbers) /\ 1 \in DOMAIN batch[u]
      BY DEF TypeOK
    <3>2. batch[u][1] \in DOMAIN requests /\ Queued(batch[u][i], Event(batch[u][1]))
      BY <3>1 DEF PlaceInv, HoldInv, Queued
    <3>3. Event(batch[u][1])' = Event(batch[u][1])
      BY <1>1, <1>3, <3>2 DEF Event
    <3>. QED  BY <1>1, <1>6, <3>2, <3>3 DEF Queued
  <2>. QED  BY <1>1, <2>1, <2>2 DEF PlaceInv, HoldInv
<1>11. FoundInv'
  <2>. SUFFICES ASSUME NEW n \in DOMAIN requests, requests'[n].fate = "batched"
                PROVE  \/ \E c \in AllowedEvents : \E i \in DOMAIN pendingBatch'[c] : pendingBatch'[c][i] = n
                       \/ \E u \in Threads : \E i \in DOMAIN batch[u] : batch[u][i] = n
    BY <1>1, <1>3 DEF FoundInv
  <2>. DEFINE new == Len(pendingBatch[e]) + 1
  <2>1. pendingBatch'[e] = Append(pendingBatch[e], k) /\ pendingBatch[e] \in Seq(Numbers)
        /\ \A c \in AllowedEvents : c # e => pendingBatch'[c] = pendingBatch[c]
    BY <1>1, <1>2 DEF TypeOK
  <2>2. /\ DOMAIN pendingBatch'[e] = DOMAIN pendingBatch[e] \cup {new}
        /\ pendingBatch'[e][new] = k
        /\ \A i \in DOMAIN pendingBatch[e] : pendingBatch'[e][i] = pendingBatch[e][i]
    BY <1>2, <2>1
  <2>. HIDE DEF new
  <2>3. CASE n = k
    BY <1>2, <2>2, <2>3
  <2>4. CASE n # k
    <3>1. \/ \E c \in AllowedEvents : \E i \in DOMAIN pendingBatch[c] : pendingBatch[c][i] = n
          \/ \E u \in Threads : \E i \in DOMAIN batch[u] : batch[u][i] = n
      BY <1>3, <2>4 DEF PlaceInv, FoundInv
    <3>. QED  BY <2>1, <2>2, <3>1
  <2>. QED  BY <2>3, <2>4
<1>12. CoverInv'
  BY <1>1, <1>2, <1>3, CoverKept
<1>. QED  BY <1>4, <1>5, <1>9, <1>10, <1>11, <1>12 DEF PlaceInv

\* A flush takes the batch of a class as it is.
LEMMA FlushStep ==
    ASSUME Inv, NEW t \in Threads, NEW e \in AllowedEvents, TakeBatch(t, e)
    PROVE  Inv'
<1>1. /\ now' = now /\ timestamps' = timestamps /\ principalTimes' = principalTimes
      /\ job' = job /\ requests' = requests /\ receipts' = receipts
      /\ pc[t] = "idle" /\ pc' = [pc EXCEPT ![t] = "flushing"]
      /\ pendingBatch[e] # <<>>
      /\ batch' = [batch EXCEPT ![t] = pendingBatch[e]]
      /\ pendingBatch' = [pendingBatch EXCEPT ![e] = <<>>]
  BY DEF TakeBatch, Go
<1>2. /\ batch[t] = <<>> /\ pendingBatch[e] \in Seq(Numbers) /\ 1 \in DOMAIN pendingBatch[e]
  <2>1. batch[t] = <<>>
    BY <1>1 DEF PlaceInv, HoldInv
  <2>2. pendingBatch[e] \in Seq(Numbers)
    BY DEF TypeOK
  <2>. QED  BY <1>1, <2>1, <2>2
<1>3. /\ batch'[t] = pendingBatch[e] /\ \A u \in Threads : u # t => batch'[u] = batch[u]
      /\ pendingBatch'[e] = <<>> /\ \A c \in AllowedEvents : c # e => pendingBatch'[c] = pendingBatch[c]
      /\ DOMAIN pendingBatch'[e] = {} /\ DOMAIN batch[t] = {}
  BY <1>1, <1>2 DEF TypeOK
<1>4. TypeOK'
  BY <1>1, <1>2 DEF TypeOK
<1>5. /\ \A u \in Threads : u # t => pc'[u] = pc[u]
      /\ pc'[t] = "flushing" /\ "flushing" \notin Working
  BY <1>1 DEF TypeOK, Working
<1>6. Room' /\ JobInv'
  BY <1>1, <1>5 DEF Room, JobInv, Event
<1>7. \A n, c : Queued(n, c)' <=> Queued(n, c)
  BY <1>1 DEF Queued, Event
<1>8. \A i \in DOMAIN pendingBatch[e] : Queued(pendingBatch[e][i], e)
  BY DEF PlaceInv, WaitInv
<1>9. WaitInv'
  <2>. SUFFICES ASSUME NEW c \in AllowedEvents, c # e
                PROVE  /\ \A i \in DOMAIN pendingBatch[c] : Queued(pendingBatch[c][i], c)
                       /\ \A i, j \in DOMAIN pendingBatch[c] : pendingBatch[c][i] = pendingBatch[c][j] => i = j
                       /\ \A i \in DOMAIN pendingBatch[c] : \A u \in Threads : \A j \in DOMAIN batch'[u] :
                             pendingBatch[c][i] # batch'[u][j]
    BY <1>1, <1>3 DEF WaitInv, Queued, Event
  <2>1. \A i \in DOMAIN pendingBatch[c] : Queued(pendingBatch[c][i], c)
    BY DEF PlaceInv, WaitInv
  <2>2. \A i \in DOMAIN pendingBatch[c] : \A j \in DOMAIN pendingBatch[e] :
            pendingBatch[c][i] # pendingBatch[e][j]
    BY <1>8, <2>1 DEF Queued
  <2>. QED  BY <1>3, <2>1, <2>2 DEF PlaceInv, WaitInv
<1>10. HoldInv'
  <2>1. \A u \in Threads : batch'[u] # <<>> <=> pc'[u] = "flushing"
    BY <1>1, <1>3, <1>5 DEF PlaceInv, HoldInv
  <2>2. ASSUME NEW u \in Threads, NEW i \in DOMAIN batch'[u]
        PROVE  Queued(batch'[u][i], Event(batch'[u][1]))
    <3>1. CASE u = t
      <4>1. Event(pendingBatch[e][1]) = e
        BY <1>2, <1>8 DEF Queued
      <4>. QED  BY <1>3, <1>8, <2>2, <3>1, <4>1
    <3>2. CASE u # t
      BY <1>3, <2>2, <3>2 DEF PlaceInv, HoldInv
    <3>. QED  BY <3>1, <3>2
  <2>3. ASSUME NEW u \in Threads, NEW i \in DOMAIN batch'[u], NEW v \in Threads, NEW j \in DOMAIN batch'[v],
               batch'[u][i] = batch'[v][j]
        PROVE  u = v /\ i = j
    <3>1. CASE u # t /\ v # t
      BY <1>3, <2>3, <3>1 DEF PlaceInv, HoldInv
    <3>2. CASE u = t /\ v = t
      BY <1>3, <2>3, <3>2 DEF PlaceInv, WaitInv
    <3>3. CASE u = t /\ v # t
      BY <1>3, <2>3, <3>3 DEF PlaceInv, WaitInv
    <3>4. CASE u # t /\ v = t
      BY <1>3, <2>3, <3>4 DEF PlaceInv, WaitInv
    <3>. QED  BY <3>1, <3>2, <3>3, <3>4
  <2>4. \A u \in Threads : \A i \in DOMAIN batch'[u] : Queued(batch[u][i], Event(batch[u][1]))'
    BY <1>1, <2>2 DEF Queued, Event
  <2>. QED  BY <2>1, <2>3, <2>4 DEF HoldInv
<1>11. FoundInv'
  <2>. SUFFICES ASSUME NEW n \in DOMAIN requests, requests[n].fate = "batched"
                PROVE  \/ \E c \in AllowedEvents : \E i \in DOMAIN pendingBatch'[c] : pendingBatch'[c][i] = n
                       \/ \E u \in Threads : \E i \in DOMAIN batch'[u] : batch'[u][i] = n
    BY <1>1 DEF FoundInv
  <2>1. CASE \E c \in AllowedEvents : \E i \in DOMAIN pendingBatch[c] : pendingBatch[c][i] = n
    BY <1>3, <2>1
  <2>2. CASE \E u \in Threads : \E i \in DOMAIN batch[u] : batch[u][i] = n
    BY <1>3, <2>2
  <2>. QED  BY <2>1, <2>2 DEF PlaceInv, FoundInv
<1>12. CoverInv'
  BY <1>1, CoverKept
<1>. QED  BY <1>4, <1>6, <1>9, <1>10, <1>11, <1>12 DEF PlaceInv

\* The post of one mint settles its request.
LEMMA PostStep ==
    ASSUME Inv, NEW t \in Threads, NEW issued \in BOOLEAN, NEW heard \in BOOLEAN, Post(t, issued, heard)
    PROVE  Inv'
<1>0. PICK k, e, p, fate : /\ k = job[t] /\ e = Event(k) /\ p = Principal(k)
                           /\ fate = IF heard THEN "minted" ELSE "unheard"
  OBVIOUS
<1>1. /\ now' = now /\ timestamps' = timestamps /\ principalTimes' = principalTimes
      /\ pendingBatch' = pendingBatch /\ batch' = batch
      /\ pc[t] = "posting" /\ pc' = [pc EXCEPT ![t] = "idle"] /\ job' = [job EXCEPT ![t] = 0]
      /\ Leave(t, pc[t]) /\ SetFate({k}, fate) /\ Delivered(e, p, {k}, issued, heard)
  BY <1>0 DEF Post, Leave, Go, Delivered
<1>2. /\ k \in DOMAIN requests /\ requests[k].fate = "open" /\ e \in AllowedEvents /\ p \in Principals
      /\ fate \in {"minted", "unheard"} /\ fate \in Fates
  BY <1>0, <1>1, Numbered DEF JobInv, Working, Principal, Fates
<1>3. /\ requests' \in Seq(Request)
      /\ DOMAIN requests' = DOMAIN requests
      /\ \A n \in DOMAIN requests :
            /\ requests'[n].event = requests[n].event
            /\ requests'[n].slot = requests[n].slot
            /\ requests'[n].fate = IF n \in {k} THEN fate ELSE requests[n].fate
  BY <1>1, <1>2, FateOnly, Numbered
<1>4. JobInv' /\ Room'
  BY <1>0, <1>1, <1>2, JobLeaves, RoomKept DEF Working
<1>5. CoverInv' /\ receipts' \in Seq(Receipt)
  <2>1. \A n \in {k} : Event(n) = e /\ requests[n].fate \in {"open", "batched"}
    BY <1>0, <1>2
  <2>2. {k} \in SUBSET (DOMAIN requests) /\ DOMAIN requests \subseteq Numbers
    BY <1>2, Numbered
  <2>3. \E m \in {k} : p = Principal(m)
    BY <1>0
  <2>4. \A n, m \in {k} : requests[n].slot => m = n
    OBVIOUS
  <2>. QED  BY <1>1, <1>2, <2>1, <2>2, <2>3, <2>4, Posted
<1>6. TypeOK'
  <2>1. job' \in [Threads -> 0..MaxRequests] /\ pc' \in [Threads -> {"idle", "asked", "limited", "posting", "flushing"}]
    BY <1>1, LimitAssumption DEF TypeOK
  <2>. QED  BY <1>1, <1>3, <1>5, <2>1 DEF TypeOK
<1>7. \A n, c : Queued(n, c) => Queued(n, c)' /\ n # k
  BY <1>2, <1>3 DEF Queued, Event
<1>8. WaitInv'
  BY <1>1, <1>7 DEF PlaceInv, WaitInv
<1>9. HoldInv'
  <2>1. \A u \in Threads : pc'[u] = "flushing" <=> pc[u] = "flushing"
    BY <1>1 DEF TypeOK
  <2>2. ASSUME NEW u \in Threads, NEW i \in DOMAIN batch[u]
        PROVE  Queued(batch[u][i], Event(batch[u][1]))'
    <3>1. batch[u] \in Seq(Numbers) /\ 1 \in DOMAIN batch[u]
      BY DEF TypeOK
    <3>2. batch[u][1] \in DOMAIN requests /\ Queued(batch[u][i], Event(batch[u][1]))
      BY <3>1 DEF PlaceInv, HoldInv, Queued
    <3>3. Event(batch[u][1])' = Event(batch[u][1])
      BY <1>1, <1>3, <3>2 DEF Event
    <3>. QED  BY <1>1, <1>7, <3>2, <3>3 DEF Queued
  <2>. QED  BY <1>1, <2>1, <2>2 DEF PlaceInv, HoldInv
<1>10. FoundInv'
  BY <1>1, <1>2, <1>3 DEF PlaceInv, FoundInv
<1>. QED  BY <1>4, <1>5, <1>6, <1>8, <1>9, <1>10 DEF PlaceInv

\* The post of a batch settles every request in it, heard or not.
LEMMA PostBatchStep ==
    ASSUME Inv, NEW t \in Threads, NEW issued \in BOOLEAN, NEW heard \in BOOLEAN, PostBatch(t, issued, heard)
    PROVE  Inv'
<1>0. PICK S, e, fate : /\ S = ToSet(batch[t]) /\ e = Event(batch[t][1])
                        /\ fate = IF heard THEN "minted" ELSE "unheard"
  OBVIOUS
<1>1. PICK first, p : first \in S /\ p = Principal(first) /\ Delivered(e, p, S, issued, heard)
  BY <1>0 DEF PostBatch
<1>2. /\ now' = now /\ timestamps' = timestamps /\ principalTimes' = principalTimes
      /\ pendingBatch' = pendingBatch /\ job' = job
      /\ pc[t] = "flushing" /\ pc' = [pc EXCEPT ![t] = "idle"]
      /\ batch' = [batch EXCEPT ![t] = <<>>] /\ SetFate(S, fate)
  BY <1>0, <1>1 DEF PostBatch, Go, Delivered
<1>3. S = {batch[t][i] : i \in DOMAIN batch[t]} /\ batch[t] \in Seq(Numbers) /\ batch[t] # <<>>
  BY <1>0, <1>2 DEF ToSet, TypeOK, PlaceInv, HoldInv
<1>4. \A n \in S : Queued(n, e)
  BY <1>0, <1>3 DEF PlaceInv, HoldInv
<1>5. /\ S \in SUBSET (DOMAIN requests) /\ e \in AllowedEvents /\ p \in Principals
      /\ fate \in {"minted", "unheard"} /\ fate \in Fates
  <2>1. S # {}
    BY <1>1
  <2>2. S \subseteq DOMAIN requests /\ e \in AllowedEvents
    BY <1>4, <2>1 DEF Queued
  <2>. QED  BY <1>0, <1>1, <2>2, Numbered DEF Principal, Fates
<1>6. /\ requests' \in Seq(Request)
      /\ DOMAIN requests' = DOMAIN requests
      /\ \A n \in DOMAIN requests :
            /\ requests'[n].event = requests[n].event
            /\ requests'[n].slot = requests[n].slot
            /\ requests'[n].fate = IF n \in S THEN fate ELSE requests[n].fate
  BY <1>2, <1>5, FateOnly, Numbered
<1>7. Room'
  BY <1>2, <1>5, RoomKept
<1>8. CoverInv' /\ receipts' \in Seq(Receipt)
  <2>1. \A n \in S : Event(n) = e /\ requests[n].fate \in {"open", "batched"}
    BY <1>4 DEF Queued
  <2>2. \E n \in S : p = Principal(n)
    BY <1>1
  <2>3. \A n, m \in S : requests[n].slot => m = n
    BY <1>4 DEF Queued
  <2>4. DOMAIN requests \subseteq Numbers
    BY Numbered
  <2>. QED  BY <1>1, <1>5, <2>1, <2>2, <2>3, <2>4, Posted
<1>9. TypeOK'
  BY <1>2, <1>6, <1>8 DEF TypeOK
<1>10. JobInv'
  <2>1. /\ \A u \in Threads : pc'[u] \in Working <=> pc[u] \in Working
        /\ \A u \in Threads : pc'[u] = "asked" <=> pc[u] = "asked"
    BY <1>2 DEF TypeOK, Working
  <2>2. ASSUME NEW u \in Threads, pc[u] \in Working
        PROVE  job[u] \in DOMAIN requests /\ job[u] \notin S /\ requests[job[u]].fate = "open"
    BY <1>4, <2>2 DEF JobInv, Queued
  <2>3. ASSUME NEW u \in Threads, pc[u] \in Working
        PROVE  /\ requests'[job[u]].fate = "open" /\ requests'[job[u]].event \in AllowedEvents
               /\ requests'[job[u]].slot = (pc'[u] # "asked")
    <3>1. requests[job[u]].slot = (pc[u] # "asked") /\ requests[job[u]].event \in AllowedEvents
      BY <2>3 DEF JobInv, Event
    <3>. QED  BY <1>6, <2>1, <2>2, <2>3, <3>1
  <2>. QED  BY <1>2, <1>6, <2>1, <2>2, <2>3 DEF JobInv, Event
<1>11. /\ batch'[t] = <<>> /\ DOMAIN batch'[t] = {}
       /\ \A u \in Threads : u # t => batch'[u] = batch[u]
  BY <1>2 DEF TypeOK
<1>12. \A n, c : Queued(n, c) /\ n \notin S => Queued(n, c)'
  BY <1>6 DEF Queued, Event
<1>13. WaitInv'
  <2>1. \A c \in AllowedEvents : \A i \in DOMAIN pendingBatch[c] : pendingBatch[c][i] \notin S
    BY <1>3 DEF PlaceInv, WaitInv
  <2>. QED  BY <1>2, <1>11, <1>12, <2>1 DEF PlaceInv, WaitInv
<1>14. HoldInv'
  <2>1. \A u \in Threads : batch'[u] # <<>> <=> pc'[u] = "flushing"
    BY <1>2, <1>11 DEF PlaceInv, HoldInv, TypeOK
  <2>2. ASSUME NEW u \in Threads, u # t, NEW i \in DOMAIN batch[u]
        PROVE  Queued(batch[u][i], Event(batch[u][1]))'
    <3>1. batch[u] \in Seq(Numbers) /\ 1 \in DOMAIN batch[u]
      BY DEF TypeOK
    <3>2. batch[u][1] \in DOMAIN requests /\ Queued(batch[u][i], Event(batch[u][1]))
      BY <3>1 DEF PlaceInv, HoldInv, Queued
    <3>3. batch[u][i] \notin S
      BY <1>3, <2>2 DEF PlaceInv, HoldInv
    <3>4. Event(batch[u][1])' = Event(batch[u][1])
      BY <1>6, <1>11, <2>2, <3>2 DEF Event
    <3>. QED  BY <1>11, <1>12, <2>2, <3>2, <3>3, <3>4 DEF Queued
  <2>. QED  BY <1>11, <2>1, <2>2 DEF PlaceInv, HoldInv
<1>15. FoundInv'
  BY <1>2, <1>3, <1>5, <1>6, <1>11 DEF PlaceInv, FoundInv
<1>. QED  BY <1>7, <1>8, <1>9, <1>10, <1>13, <1>14, <1>15 DEF PlaceInv

\* No step of the minter, of the clock or of the bounds breaks the invariant.
LEMMA Stepwise == Inv /\ [Next]_vars => Inv'
<1>. SUFFICES ASSUME Inv, [Next]_vars PROVE Inv'
  OBVIOUS
<1>1. ASSUME NEW t \in Threads, Step(t) PROVE Inv'
  BY <1>1, NewRequest, SlotStep, JoinStep, CountStep, PostStep, FlushStep, PostBatchStep DEF Step
<1>2. CASE Tick
  <2>1. /\ now' = now + 1 /\ now < MaxTime
        /\ UNCHANGED <<timestamps, pendingBatch, principalTimes, pc, job, batch, requests, receipts>>
    BY <1>2 DEF Tick, threadVars
  <2>2. TypeOK' /\ Room'
    <3>1. \A n \in DOMAIN requests : requests[n].stamp \in Nat /\ requests[n].stamp <= now
      BY Numbered DEF Room
    <3>. QED  BY <2>1, <3>1, LimitAssumption, Numbered DEF TypeOK, Room
  <2>3. JobInv' /\ PlaceInv'
    BY <2>1 DEF JobInv, PlaceInv, WaitInv, HoldInv, FoundInv, Queued, Event
  <2>4. CoverInv'
    BY <2>1, CoverKept
  <2>. QED  BY <2>2, <2>3, <2>4
<1>3. CASE UNCHANGED vars
  <2>1. UNCHANGED <<now, timestamps, pendingBatch, principalTimes, pc, job, batch, requests, receipts>>
    BY <1>3 DEF vars, threadVars
  <2>2. TypeOK' /\ Room'
    BY <2>1 DEF TypeOK, Room
  <2>3. JobInv' /\ PlaceInv'
    BY <2>1 DEF JobInv, PlaceInv, WaitInv, HoldInv, FoundInv, Queued, Event
  <2>4. CoverInv'
    BY <2>1, CoverKept
  <2>. QED  BY <2>2, <2>3, <2>4
<1>. QED  BY <1>1, <1>2, <1>3 DEF Next, Idle

\* The invariant holds of every state of the minter.
LEMMA Invariance == Spec => []Inv
BY InitStep, Stepwise, PTL DEF Spec

\* Every window, batch, request and receipt of the minter keeps its type: requests
\* are numbered within the bound, and a batch holds requests.
THEOREM TypeCorrect == Spec => []TypeOK
BY Invariance, PTL

\* Whatever answers get lost and however flushes race with mints, no request is
\* covered by two receipts.
THEOREM NeverReceiptedTwice == Spec => []ReceiptedOnce
<1>1. Inv => ReceiptedOnce
  BY DEF CoverInv
<1>. QED  BY <1>1, Invariance, PTL

\* What mint() and flush_batch() report as minted has a receipt, and a receipt is
\* for requests of its class that took a slot or were batched.
THEOREM ReceiptsAreHonest == Spec => []ReceiptsHonest
<1>1. Inv => ReceiptsHonest
  BY DEF CoverInv
<1>. QED  BY <1>1, Invariance, PTL

-----------------------------------------------------------------------------
(* Batches *)

\* A sequence of different request numbers is no longer than there are numbers.
LEMMA Pigeons ==
    ASSUME NEW s \in Seq(Numbers), \A i, j \in DOMAIN s : s[i] = s[j] => i = j
    PROVE  DOMAIN s \subseteq Numbers
<1>1. MaxRequests \in Nat /\ Len(s) \in Nat /\ DOMAIN s = 1..Len(s) /\ s \in [1..Len(s) -> Numbers]
  BY LimitAssumption
<1>2. IsFiniteSet(Numbers) /\ Cardinality(Numbers) = MaxRequests
  BY <1>1, FS_Interval DEF Numbers
<1>3. Cardinality(1..Len(s)) = Len(s)
  BY <1>1, FS_Interval
<1>4. s \in Injection(1..Len(s), Numbers)
  BY <1>1, Fun_IsInj
<1>5. Len(s) <= MaxRequests
  BY <1>2, <1>3, <1>4, FS_Injection
<1>. QED  BY <1>1, <1>5 DEF Numbers

\* A set with at most one element is counted by whether it has one.
LEMMA ZeroOrOne ==
    ASSUME NEW S, \A p, q \in S : p = q
    PROVE  Cardinality(S) = IF S = {} THEN 0 ELSE 1
<1>1. CASE S = {}
  BY <1>1, FS_EmptySet
<1>2. CASE S # {}
  <2>1. PICK p \in S : S = {p}
    BY <1>2
  <2>. QED  BY <1>2, <2>1, FS_Singleton
<1>. QED  BY <1>1, <1>2

\* Everything that was batched is in one place, exactly once, until a flush took
\* its fate in hand: in the batch of its own class, or in a flush under way.
THEOREM BatchesAreAccounted == Spec => []BatchAccounted
<1>1. ASSUME Inv, NEW n \in DOMAIN requests
      PROVE  LET W == {p \in AllowedEvents \X Numbers :
                          p[2] \in DOMAIN pendingBatch[p[1]] /\ pendingBatch[p[1]][p[2]] = n}
                 H == {p \in Threads \X Numbers :
                          p[2] \in DOMAIN batch[p[1]] /\ batch[p[1]][p[2]] = n}
             IN  /\ Cardinality(W) + Cardinality(H) = IF requests[n].fate = "batched" THEN 1 ELSE 0
                 /\ \A p \in W : p[1] = Event(n)
  <2>. DEFINE W == {p \in AllowedEvents \X Numbers :
                       p[2] \in DOMAIN pendingBatch[p[1]] /\ pendingBatch[p[1]][p[2]] = n}
              H == {p \in Threads \X Numbers :
                       p[2] \in DOMAIN batch[p[1]] /\ batch[p[1]][p[2]] = n}
  <2>. USE <1>1 DEF PlaceInv
  <2>1. \A p \in W : p[1] = Event(n) /\ requests[n].fate = "batched"
    BY DEF WaitInv, Queued
  <2>2. \A p, q \in W : p = q
    <3>. SUFFICES ASSUME NEW p \in W, NEW q \in W PROVE p = q
      OBVIOUS
    <3>1. p[1] = q[1] /\ p[1] \in AllowedEvents
      BY <2>1
    <3>2. p[2] = q[2]
      BY <3>1 DEF WaitInv
    <3>. QED  BY <3>1, <3>2
  <2>3. \A p \in H : requests[n].fate = "batched"
    BY DEF HoldInv, Queued
  <2>4. \A p, q \in H : p = q
    <3>. SUFFICES ASSUME NEW p \in H, NEW q \in H PROVE p = q
      OBVIOUS
    <3>1. p[1] = q[1] /\ p[2] = q[2]
      BY DEF HoldInv
    <3>. QED  BY <3>1
  <2>5. W = {} \/ H = {}
    BY DEF WaitInv
  <2>6. requests[n].fate = "batched" => W # {} \/ H # {}
    <3>. SUFFICES ASSUME requests[n].fate = "batched" PROVE W # {} \/ H # {}
      OBVIOUS
    <3>1. CASE \E e \in AllowedEvents : \E i \in DOMAIN pendingBatch[e] : pendingBatch[e][i] = n
      <4>1. PICK e \in AllowedEvents : \E i \in DOMAIN pendingBatch[e] : pendingBatch[e][i] = n
        BY <3>1
      <4>2. PICK i \in DOMAIN pendingBatch[e] : pendingBatch[e][i] = n
        BY <4>1
      <4>3. i \in Numbers
        BY Pigeons DEF TypeOK, WaitInv
      <4>4. <<e, i>> \in W
        BY <4>2, <4>3
      <4>. QED  BY <4>4
    <3>2. CASE \E t \in Threads : \E i \in DOMAIN batch[t] : batch[t][i] = n
      <4>1. PICK t \in Threads : \E i \in DOMAIN batch[t] : batch[t][i] = n
        BY <3>2
      <4>2. PICK i \in DOMAIN batch[t] : batch[t][i] = n
        BY <4>1
      <4>3. i \in Numbers
        <5>1. batch[t] \in Seq(Numbers) /\ \A j, k \in DOMAIN batch[t] : batch[t][j] = batch[t][k] => j = k
          BY DEF TypeOK, HoldInv
        <5>. QED  BY <5>1, Pigeons
      <4>4. <<t, i>> \in H
        BY <4>2, <4>3
      <4>. QED  BY <4>4
    <3>. QED  BY <3>1, <3>2 DEF FoundInv
  <2>. HIDE DEF W, H
  <2>7. /\ Cardinality(W) = IF W = {} THEN 0 ELSE 1
        /\ Cardinality(H) = IF H = {} THEN 0 ELSE 1
    BY <2>2, <2>4, ZeroOrOne
  <2>8. /\ Cardinality(W) + Cardinality(H) = IF requests[n].fate = "batched" THEN 1 ELSE 0
        /\ \A p \in W : p[1] = Event(n)
    BY <2>1, <2>3, <2>5, <2>6, <2>7
  <2>. QED  BY <2>8 DEF W, H
<1>2. Inv => BatchAccounted
  BY <1>1 DEF BatchAccounted
<1>. QED  BY <1>2, Invariance, PTL

-----------------------------------------------------------------------------
(* Rates *)

\* The sets that are counted are finite.
LEMMA Countable ==
    ASSUME Inv, NEW e \in AllowedEvents, NEW s
    PROVE  /\ IsFiniteSet(SlotsFrom(e, s)) /\ Cardinality(SlotsFrom(e, s)) \in Nat
           /\ IsFiniteSet(Late(e, s)) /\ Cardinality(Late(e, s)) \in Nat
           /\ Limit[e] \in Nat /\ Minute \in Nat
           /\ Cardinality(Threads) \in Nat /\ Cardinality(Threads) >= 1
           /\ timestamps[e] \in Seq(0..MaxTime)
<1>1. IsFiniteSet(DOMAIN requests)
  BY Numbered, FS_Interval
<1>2. IsFiniteSet(SlotsFrom(e, s)) /\ Cardinality(SlotsFrom(e, s)) \in Nat
  BY <1>1, FS_Subset, FS_CardinalityType DEF SlotsFrom
<1>3. IsFiniteSet(Late(e, s)) /\ Cardinality(Late(e, s)) \in Nat
  BY ThreadsAssumption, FS_Subset, FS_CardinalityType DEF Late
<1>4. Cardinality(Threads) \in Nat /\ Cardinality(Threads) # 0
  BY ThreadsAssumption, FS_CardinalityType, FS_EmptySet
<1>. QED  BY <1>2, <1>3, <1>4, LimitAssumption, TaxonomyAssumption DEF TypeOK

\* Positions of a sequence are counted within its length.
LEMMA WindowFinite ==
    ASSUME NEW times \in Seq(0..MaxTime), NEW s
    PROVE  /\ IsFiniteSet(InWindow(times, s)) /\ Cardinality(InWindow(times, s)) \in Nat
           /\ Cardinality(InWindow(times, s)) <= Len(times)
<1>1. Len(times) \in Nat /\ DOMAIN times = 1..Len(times)
  OBVIOUS
<1>2. IsFiniteSet(1..Len(times)) /\ Cardinality(1..Len(times)) = Len(times)
  BY <1>1, FS_Interval
<1>3. InWindow(times, s) \subseteq 1..Len(times)
  BY <1>1 DEF InWindow
<1>. QED  BY <1>2, <1>3, FS_Subset, FS_CardinalityType

\* A purge whose clock is not past a window forgets nothing of that window.
LEMMA PurgeKeepsWindow ==
    ASSUME NEW times \in Seq(0..MaxTime), NEW t \in 0..MaxTime, NEW s \in 0..MaxTime, t <= s + Minute
    PROVE  Cardinality(InWindow(Purge(times, Minute, t), s)) = Cardinality(InWindow(times, s))
<1>. DEFINE P == Purge(times, Minute, t)
            A == InWindow(P, s)
            B == InWindow(times, s)
<1>1. /\ Minute \in Nat /\ MaxTime \in Nat /\ t \in Nat /\ s \in Nat
      /\ 0..MaxTime \subseteq Nat
  BY LimitAssumption
<1>2. P \in Seq(0..MaxTime)
  BY <1>1, PurgeDrops
<1>3. PICK k \in 0..Len(times) :
          /\ Len(P) = Len(times) - k
          /\ \A i \in 1..k : times[i] + Minute < t
          /\ \A i \in 1..(Len(times) - k) : P[i] = times[i + k]
  <2>1. PICK T : T = 0..MaxTime
    OBVIOUS
  <2>2. T \subseteq Nat /\ times \in Seq(T) /\ Minute \in Nat /\ t \in Nat
    BY <1>1, <2>1
  <2>3. Suffix(Purge(times, Minute, t), times, Minute, t)
    BY <2>2, PurgeDrops
  <2>. QED  BY <2>3 DEF Suffix
<1>4. /\ Len(times) \in Nat /\ DOMAIN times = 1..Len(times) /\ k \in Nat /\ k <= Len(times)
      /\ DOMAIN P = 1..(Len(times) - k)
      /\ \A i \in 1..Len(times) : times[i] \in Nat
  <2>1. \A i \in 1..Len(times) : times[i] \in 0..MaxTime
    BY ElementOfSeq
  <2>2. DOMAIN P = 1..Len(P)
    BY <1>2
  <2>. QED  BY <1>1, <1>3, <2>1, <2>2
<1>. HIDE DEF P
<1>5. \A i \in B : i > k /\ i - k \in A /\ i \in Nat
  <2>. SUFFICES ASSUME NEW i \in B PROVE i > k /\ i - k \in A /\ i \in Nat
    OBVIOUS
  <2>1. i \in 1..Len(times) /\ times[i] \in s..(s + Minute) /\ times[i] \in Nat /\ times[i] >= s
    BY <1>1, <1>4 DEF InWindow
  <2>2. i > k
    <3>1. ~(times[i] + Minute < t)
      BY <1>1, <2>1
    <3>. QED  BY <1>3, <1>4, <2>1, <3>1
  <2>3. i - k \in 1..(Len(times) - k) /\ (i - k) + k = i
    BY <1>4, <2>1, <2>2
  <2>4. P[i - k] = times[i]
    BY <1>3, <2>3
  <2>. QED  BY <1>4, <2>1, <2>2, <2>3, <2>4 DEF InWindow
<1>6. \A i \in A : i + k \in B /\ i \in Nat
  <2>. SUFFICES ASSUME NEW i \in A PROVE i + k \in B /\ i \in Nat
    OBVIOUS
  <2>1. i \in 1..(Len(times) - k) /\ P[i] \in s..(s + Minute)
    BY <1>4 DEF InWindow
  <2>2. i + k \in 1..Len(times) /\ P[i] = times[i + k]
    BY <1>3, <1>4, <2>1
  <2>. QED  BY <1>4, <2>1, <2>2 DEF InWindow
<1>7. IsFiniteSet(A)
  BY <1>2, WindowFinite
<1>. HIDE DEF A, B
<1>8. ExistsBijection(A, B)
  <2>. DEFINE f == [i \in A |-> i + k]
  <2>1. f \in [A -> B]
    BY <1>6
  <2>2. ASSUME NEW i \in A, NEW j \in A, f[i] = f[j] PROVE i = j
    BY <1>4, <1>6, <2>2
  <2>3. ASSUME NEW i \in B PROVE \E j \in A : f[j] = i
    <3>1. i - k \in A /\ (i - k) + k = i
      BY <1>4, <1>5
    <3>. QED  BY <3>1
  <2>. HIDE DEF f
  <2>4. f \in Bijection(A, B)
    BY <2>1, <2>2, <2>3, Fun_IsBij
  <2>. QED  BY <2>4, Fun_ExistsBij
<1>9. Cardinality(A) = Cardinality(B)
  BY <1>7, <1>8, FS_Bijection
<1>. QED  BY <1>9 DEF A, B, P

\* A purge never makes the list longer, and its result is a list of times.
LEMMA PurgeShortens ==
    ASSUME NEW times \in Seq(0..MaxTime), NEW t \in 0..MaxTime
    PROVE  /\ Purge(times, Minute, t) \in Seq(0..MaxTime)
           /\ Len(Purge(times, Minute, t)) <= Len(times)
<1>1. PICK T : T = 0..MaxTime
  OBVIOUS
<1>2. T \subseteq Nat /\ times \in Seq(T) /\ Minute \in Nat /\ t \in Nat
  BY <1>1, LimitAssumption
<1>3. Suffix(Purge(times, Minute, t), times, Minute, t) /\ Purge(times, Minute, t) \in Seq(T)
  BY <1>2, PurgeDrops
<1>4. Len(times) \in Nat
  OBVIOUS
<1>. QED  BY <1>1, <1>3, <1>4 DEF Suffix

\* Steps that touch neither the windows nor what took a slot, and after which
\* whoever has yet to come to the limit either was on the way or read the clock now.
LEMMA RateKept ==
    ASSUME Inv, RateInv, Inv',
           timestamps' = timestamps, now' \in {now, now + 1},
           \A n \in DOMAIN requests' : requests'[n].slot =>
               /\ n \in DOMAIN requests /\ requests[n].slot
               /\ requests'[n].event = requests[n].event /\ requests'[n].stamp = requests[n].stamp,
           \A t \in Threads : pc'[t] = "asked" =>
               \/ requests'[job'[t]].stamp >= now
               \/ /\ pc[t] = "asked" /\ job'[t] = job[t]
                  /\ requests'[job[t]].event = requests[job[t]].event
                  /\ requests'[job[t]].stamp = requests[job[t]].stamp
    PROVE  RateInv'
<1>. SUFFICES ASSUME NEW e \in AllowedEvents, NEW s \in 0..MaxTime
              PROVE  RateAt(e, s)'
  BY DEF RateInv
<1>1. SlotsFrom(e, s)' \subseteq SlotsFrom(e, s)
  BY DEF SlotsFrom, Event
<1>2. Cardinality(SlotsFrom(e, s)') <= Cardinality(SlotsFrom(e, s)) /\ Cardinality(SlotsFrom(e, s)') \in Nat
  <2>1. IsFiniteSet(SlotsFrom(e, s)) /\ Cardinality(SlotsFrom(e, s)) \in Nat
    BY Countable
  <2>. QED  BY <1>1, <2>1, FS_Subset, FS_CardinalityType
<1>3. /\ Cardinality(SlotsFrom(e, s)) \in Nat /\ Cardinality(Late(e, s)) \in Nat
      /\ Limit[e] \in Nat /\ Minute \in Nat /\ Cardinality(Threads) \in Nat
      /\ timestamps[e] \in Seq(0..MaxTime) /\ now \in Nat /\ now' \in Nat /\ s \in Nat
  <2>1. now \in Nat /\ MaxTime \in Nat
    BY Numbered
  <2>2. now' \in Nat /\ s \in Nat
    BY <2>1
  <2>. QED  BY <2>1, <2>2, Countable
<1>4. RateAt(e, s)
  BY DEF RateInv
<1>5. CASE Cardinality(SlotsFrom(e, s)) <= Cardinality(InWindow(timestamps[e], s))
  <2>1. InWindow(timestamps[e], s)' = InWindow(timestamps[e], s)
    BY DEF InWindow
  <2>2. Cardinality(InWindow(timestamps[e], s)) \in Nat
    BY <1>3, WindowFinite
  <2>. QED  BY <1>2, <1>3, <1>5, <2>1, <2>2 DEF RateAt
<1>6. CASE /\ now > s + Minute
           /\ Cardinality(SlotsFrom(e, s)) + Cardinality(Late(e, s))
                 <= Limit[e] + Cardinality(Threads) - 1
  <2>1. Late(e, s)' \subseteq Late(e, s)
    <3>. SUFFICES ASSUME NEW t \in Threads, pc'[t] = "asked", requests'[job'[t]].event = e,
                         requests'[job'[t]].stamp \in s..(s + Minute)
                  PROVE  t \in Late(e, s)
      BY DEF Late, Event, Clock
    <3>1. ~(requests'[job'[t]].stamp >= now)
      BY <1>3, <1>6
    <3>. QED  BY <3>1 DEF Late, Event, Clock
  <2>2. Cardinality(Late(e, s)') <= Cardinality(Late(e, s)) /\ Cardinality(Late(e, s)') \in Nat
    <3>1. IsFiniteSet(Late(e, s))
      BY Countable
    <3>. QED  BY <2>1, <3>1, FS_Subset, FS_CardinalityType
  <2>3. now' > s + Minute
    BY <1>3, <1>6
  <2>. QED  BY <1>2, <1>3, <1>6, <2>2, <2>3 DEF RateAt
<1>. QED  BY <1>4, <1>5, <1>6 DEF RateAt

\* A thread at the limit: the windows of its class are purged by its reading of the
\* clock, and the request takes a slot (took) or does not.
AtLimit(t, k, e, c, took) ==
    /\ pc[t] = "asked" /\ k = job[t] /\ e = Event(k) /\ c = Clock(t) /\ now' = now
    /\ timestamps' = [timestamps EXCEPT ![e] = IF took THEN Append(Purge(timestamps[e], Minute, c), c)
                                                       ELSE Purge(timestamps[e], Minute, c)]
    /\ took => Len(Purge(timestamps[e], Minute, c)) < Limit[e]
    /\ DOMAIN requests' = DOMAIN requests
    /\ \A n \in DOMAIN requests :
           /\ requests'[n].event = requests[n].event /\ requests'[n].stamp = requests[n].stamp
           /\ requests'[n].slot = IF took /\ n = k THEN TRUE ELSE requests[n].slot
    /\ \A u \in Threads : pc'[u] = "asked" => u # t /\ pc[u] = "asked" /\ job'[u] = job[u]

\* Such a step keeps the bound of every window, of this class and of the others.
LEMMA LimitRate ==
    ASSUME Inv, RateInv, NEW t \in Threads, NEW e, NEW c, NEW k, NEW took \in BOOLEAN,
           AtLimit(t, k, e, c, took)
    PROVE  RateInv'
<1>. USE DEF AtLimit
<1>. DEFINE P == Purge(timestamps[e], Minute, c)
            times == IF took THEN Append(P, c) ELSE P
<1>1. /\ k \in DOMAIN requests /\ e \in AllowedEvents /\ requests[k].slot = FALSE
      /\ c = requests[k].stamp /\ c \in 0..MaxTime /\ c <= now /\ c \in Nat /\ now \in Nat
      /\ requests[k].event = e
  <2>1. requests[k].slot = (pc[t] # "asked")
    BY DEF JobInv, Working
  <2>. QED  BY <2>1, Numbered DEF JobInv, Working, Clock, Room, Event
<1>2. /\ timestamps[e] \in Seq(0..MaxTime) /\ Limit[e] \in Nat /\ Minute \in Nat
      /\ Cardinality(Threads) \in Nat /\ Cardinality(Threads) >= 1
      /\ Len(timestamps[e]) <= Limit[e]
  BY <1>1, Countable DEF RateInv
<1>3. P \in Seq(0..MaxTime) /\ Len(P) <= Len(timestamps[e]) /\ Len(P) \in Nat /\ Len(timestamps[e]) \in Nat
  BY <1>1, <1>2, PurgeShortens
<1>. HIDE DEF P
<1>4. /\ timestamps'[e] = times /\ times \in Seq(0..MaxTime) /\ Len(times) <= Limit[e]
      /\ \A d \in AllowedEvents : d # e => timestamps'[d] = timestamps[d]
  <2>1. timestamps' = [timestamps EXCEPT ![e] = times]
    BY DEF P
  <2>2. times \in Seq(0..MaxTime) /\ Len(times) <= Limit[e]
    <3>1. CASE took
      <4>1. Append(P, c) \in Seq(0..MaxTime) /\ Len(Append(P, c)) = Len(P) + 1 /\ Len(P) < Limit[e]
        BY <1>1, <1>3, <3>1 DEF P
      <4>. QED  BY <1>2, <1>3, <3>1, <4>1
    <3>2. CASE ~took
      BY <1>2, <1>3, <3>2
    <3>. QED  BY <3>1, <3>2
  <2>. QED  BY <1>1, <2>1, <2>2 DEF TypeOK
<1>. SUFFICES ASSUME NEW d \in AllowedEvents, NEW s \in 0..MaxTime
              PROVE  RateAt(d, s)'
  <2>1. \A d \in AllowedEvents : Len(timestamps'[d]) <= Limit[d]
    BY <1>4 DEF RateInv
  <2>. QED  BY <2>1 DEF RateInv
<1>5. /\ IsFiniteSet(SlotsFrom(d, s)) /\ Cardinality(SlotsFrom(d, s)) \in Nat
      /\ IsFiniteSet(Late(d, s)) /\ Cardinality(Late(d, s)) \in Nat
      /\ Limit[d] \in Nat /\ timestamps[d] \in Seq(0..MaxTime) /\ s \in Nat
      /\ Cardinality(InWindow(timestamps[d], s)) \in Nat
  BY Countable, WindowFinite
<1>6. RateAt(d, s)
  BY DEF RateInv
<1>7. Late(d, s)' \subseteq Late(d, s) \ {t}
  <2>1. \A u \in Threads : pc[u] = "asked" => job[u] \in DOMAIN requests
    BY DEF JobInv, Working
  <2>. QED  BY <2>1 DEF Late, Event, Clock
<1>8. Cardinality(Late(d, s)') <= Cardinality(Late(d, s)) /\ Cardinality(Late(d, s)') \in Nat
  BY <1>5, <1>7, FS_Subset, FS_CardinalityType
<1>9. CASE d = e /\ took /\ c \in s..(s + Minute)
  <2>1. SlotsFrom(d, s)' = SlotsFrom(d, s) \cup {k} /\ k \notin SlotsFrom(d, s)
    <3>1. \A n \in DOMAIN requests : requests'[n].slot = IF n = k THEN TRUE ELSE requests[n].slot
      BY <1>9
    <3>2. k \notin SlotsFrom(d, s)
      BY <1>1 DEF SlotsFrom
    <3>3. k \in SlotsFrom(d, s)'
      <4>1. requests'[k].slot = TRUE /\ requests'[k].event = e /\ requests'[k].stamp = c
        BY <1>1, <3>1
      <4>. QED  BY <1>1, <1>9, <4>1 DEF SlotsFrom, Event
    <3>4. \A n \in DOMAIN requests \ {k} : n \in SlotsFrom(d, s)' <=> n \in SlotsFrom(d, s)
      BY <3>1 DEF SlotsFrom, Event
    <3>. QED  BY <3>2, <3>3, <3>4 DEF SlotsFrom
  <2>2. Cardinality(SlotsFrom(d, s)') = Cardinality(SlotsFrom(d, s)) + 1
    BY <1>5, <2>1, FS_AddElement
  <2>3. CASE Cardinality(SlotsFrom(d, s)) <= Cardinality(InWindow(timestamps[d], s))
    <3>1. Cardinality(InWindow(P, s)) = Cardinality(InWindow(timestamps[d], s))
      BY <1>1, <1>2, <1>5, <1>9, PurgeKeepsWindow DEF P
    <3>2. InWindow(times, s) = InWindow(P, s) \cup {Len(P) + 1} /\ Len(P) + 1 \notin InWindow(P, s)
      <4>1. /\ times = Append(P, c) /\ DOMAIN P = 1..Len(P) /\ DOMAIN times = 1..(Len(P) + 1)
            /\ times[Len(P) + 1] = c /\ \A i \in 1..Len(P) : times[i] = P[i]
        BY <1>1, <1>3, <1>9
      <4>2. Len(P) + 1 \notin 1..Len(P) /\ 1..(Len(P) + 1) = 1..Len(P) \cup {Len(P) + 1}
        BY <1>3
      <4>. QED  BY <1>9, <4>1, <4>2 DEF InWindow
    <3>3. Cardinality(InWindow(times, s)) = Cardinality(InWindow(P, s)) + 1
      BY <1>3, <3>2, WindowFinite, FS_AddElement
    <3>4. InWindow(timestamps[d], s)' = InWindow(times, s)
      BY <1>4, <1>9 DEF InWindow
    <3>. QED  BY <1>5, <2>2, <2>3, <3>1, <3>3, <3>4 DEF RateAt
  <2>4. CASE /\ now > s + Minute
             /\ Cardinality(SlotsFrom(d, s)) + Cardinality(Late(d, s))
                   <= Limit[d] + Cardinality(Threads) - 1
    <3>1. t \in Late(d, s)
      BY <1>1, <1>9 DEF Late, Event, Clock
    <3>2. /\ IsFiniteSet(Late(d, s) \ {t}) /\ Cardinality(Late(d, s) \ {t}) = Cardinality(Late(d, s)) - 1
      BY <1>5, <3>1, FS_RemoveElement
    <3>3. Cardinality(Late(d, s)') <= Cardinality(Late(d, s)) - 1
      BY <1>7, <3>2, FS_Subset
    <3>. QED  BY <1>2, <1>5, <1>8, <2>2, <2>4, <3>3 DEF RateAt
  <2>. QED  BY <1>6, <2>3, <2>4 DEF RateAt
<1>10. CASE ~(d = e /\ took /\ c \in s..(s + Minute))
  <2>1. SlotsFrom(d, s)' = SlotsFrom(d, s)
    <3>1. \A n \in DOMAIN requests \ {k} : n \in SlotsFrom(d, s)' <=> n \in SlotsFrom(d, s)
      BY DEF SlotsFrom, Event
    <3>2. k \notin SlotsFrom(d, s)
      BY <1>1 DEF SlotsFrom
    <3>3. k \notin SlotsFrom(d, s)'
      <4>1. requests'[k].slot = took /\ requests'[k].event = e /\ requests'[k].stamp = c
        BY <1>1
      <4>. QED  BY <1>10, <4>1 DEF SlotsFrom, Event
    <3>. QED  BY <3>1, <3>2, <3>3 DEF SlotsFrom
  <2>2. CASE /\ now > s + Minute
             /\ Cardinality(SlotsFrom(d, s)) + Cardinality(Late(d, s))
                   <= Limit[d] + Cardinality(Threads) - 1
    BY <1>2, <1>5, <1>8, <2>1, <2>2 DEF RateAt
  <2>3. CASE /\ d # e
             /\ Cardinality(SlotsFrom(d, s)) <= Cardinality(InWindow(timestamps[d], s))
    <3>1. InWindow(timestamps[d], s)' = InWindow(timestamps[d], s)
      BY <1>4, <2>3 DEF InWindow
    <3>. QED  BY <2>1, <2>3, <3>1 DEF RateAt
  <2>4. CASE /\ d = e /\ c > s + Minute
             /\ Cardinality(SlotsFrom(d, s)) <= Cardinality(InWindow(timestamps[d], s))
    <3>1. Cardinality(InWindow(timestamps[d], s)) <= Limit[d]
      BY <1>2, <1>3, <1>5, <2>4, WindowFinite
    <3>2. Late(d, s)' \subseteq Threads \ {t}
      BY <1>7 DEF Late
    <3>3. IsFiniteSet(Threads \ {t}) /\ Cardinality(Threads \ {t}) = Cardinality(Threads) - 1
      BY ThreadsAssumption, FS_RemoveElement
    <3>4. Cardinality(Late(d, s)') <= Cardinality(Threads) - 1
      BY <3>2, <3>3, FS_Subset
    <3>5. now' > s + Minute
      BY <1>1, <1>2, <1>5, <2>4
    <3>. QED  BY <1>2, <1>5, <1>8, <2>1, <2>4, <3>1, <3>4, <3>5 DEF RateAt
  <2>5. CASE /\ d = e /\ c <= s + Minute
             /\ Cardinality(SlotsFrom(d, s)) <= Cardinality(InWindow(timestamps[d], s))
    <3>1. Cardinality(InWindow(P, s)) = Cardinality(InWindow(timestamps[d], s))
      BY <1>1, <1>2, <1>5, <2>5, PurgeKeepsWindow DEF P
    <3>2. InWindow(times, s) = InWindow(P, s)
      <4>1. CASE took
        <5>1. /\ times = Append(P, c) /\ DOMAIN P = 1..Len(P) /\ DOMAIN times = 1..(Len(P) + 1)
              /\ times[Len(P) + 1] = c /\ \A i \in 1..Len(P) : times[i] = P[i]
          BY <1>1, <1>3, <4>1
        <5>2. 1..(Len(P) + 1) = 1..Len(P) \cup {Len(P) + 1}
          BY <1>3
        <5>. QED  BY <1>10, <2>5, <4>1, <5>1, <5>2 DEF InWindow
      <4>2. CASE ~took
        BY <4>2
      <4>. QED  BY <4>1, <4>2
    <3>3. InWindow(timestamps[d], s)' = InWindow(times, s)
      <4>1. timestamps'[d] = times
        BY <1>4, <2>5
      <4>. HIDE DEF times
      <4>. QED  BY <4>1 DEF InWindow
    <3>. QED  BY <2>1, <2>5, <3>1, <3>2, <3>3 DEF RateAt
  <2>6. d = e => c > s + Minute \/ c <= s + Minute
    BY <1>1, <1>2, <1>5
  <2>. QED  BY <1>6, <2>2, <2>3, <2>4, <2>5, <2>6 DEF RateAt
<1>. QED  BY <1>9, <1>10

\* No step lets a class take more slots than its windows allow.
LEMMA RateStep == Inv /\ RateInv /\ [Next]_vars => RateInv'
<1>. SUFFICES ASSUME Inv, RateInv, [Next]_vars PROVE RateInv'
  OBVIOUS
<1>1. Inv' /\ now \in Nat /\ requests \in Seq(Request)
  BY Stepwise, Numbered
<1>2. ASSUME NEW t \in Threads, NEW e \in Events, NEW p \in Principals, Refuse(t, e, p) \/ Ask(t, e, p)
      PROVE  RateInv'
  <2>1. PICK fate \in Fates :
            requests' = Append(requests, [event |-> e, principal |-> p, stamp |-> now, slot |-> FALSE,
                                          fate |-> fate])
    BY <1>2 DEF Refuse, Ask, Fates
  <2>. DEFINE r == [event |-> e, principal |-> p, stamp |-> now, slot |-> FALSE, fate |-> fate]
              new == Len(requests) + 1
  <2>2. r \in Request /\ r.slot = FALSE /\ r.stamp = now
    BY DEF TypeOK
  <2>. HIDE DEF r
  <2>3. /\ DOMAIN requests' = DOMAIN requests \cup {new}
        /\ requests'[new] = r
        /\ \A n \in DOMAIN requests : requests'[n] = requests[n]
    BY <1>1, <2>1, <2>2, Asked DEF r
  <2>4. /\ timestamps' = timestamps /\ now' = now
        /\ \/ pc' = pc /\ job' = job
           \/ pc' = [pc EXCEPT ![t] = "asked"] /\ job' = [job EXCEPT ![t] = new]
    BY <1>2 DEF Refuse, Ask, Go, threadVars
  <2>. HIDE DEF new
  <2>5. ASSUME NEW u \in Threads, pc'[u] = "asked"
        PROVE  \/ requests'[job'[u]].stamp >= now
               \/ /\ pc[u] = "asked" /\ job'[u] = job[u]
                  /\ requests'[job[u]].event = requests[job[u]].event
                  /\ requests'[job[u]].stamp = requests[job[u]].stamp
    <3>1. CASE job'[u] = new
      <4>1. requests'[job'[u]].stamp = now
        BY <2>2, <2>3, <3>1
      <4>. QED  BY <1>1, <4>1
    <3>2. CASE job'[u] # new
      <4>1. pc[u] = "asked" /\ job'[u] = job[u]
        BY <2>4, <2>5, <3>2 DEF TypeOK
      <4>2. job[u] \in DOMAIN requests
        BY <4>1 DEF JobInv, Working
      <4>. QED  BY <2>3, <4>1, <4>2
    <3>. QED  BY <3>1, <3>2
  <2>6. ASSUME NEW n \in DOMAIN requests', requests'[n].slot
        PROVE  /\ n \in DOMAIN requests /\ requests[n].slot
               /\ requests'[n].event = requests[n].event /\ requests'[n].stamp = requests[n].stamp
    BY <2>2, <2>3, <2>6
  <2>. QED  BY <1>1, <2>4, <2>5, <2>6, RateKept
<1>3. ASSUME NEW t \in Threads, TakeSlot(t) PROVE RateInv'
  <2>0. PICK k, e, c : k = job[t] /\ e = Event(k) /\ c = Clock(t)
    OBVIOUS
  <2>1. /\ now' = now /\ job' = job /\ pc[t] = "asked" /\ pc' = [pc EXCEPT ![t] = "limited"]
        /\ requests' = [requests EXCEPT ![k].slot = TRUE]
        /\ Len(Purge(timestamps[e], Minute, c)) < Limit[e]
        /\ timestamps' = [timestamps EXCEPT ![e] = Append(Purge(timestamps[e], Minute, c), c)]
    BY <1>3, <2>0 DEF TakeSlot, Go
  <2>2. k \in DOMAIN requests
    BY <2>0, <2>1 DEF JobInv, Working
  <2>3. /\ DOMAIN requests' = DOMAIN requests
        /\ \A n \in DOMAIN requests :
              /\ requests'[n].event = requests[n].event /\ requests'[n].stamp = requests[n].stamp
              /\ requests'[n].slot = IF n = k THEN TRUE ELSE requests[n].slot
    <3>1. requests[k] \in Request /\ requests' = [requests EXCEPT ![k] = [requests[k] EXCEPT !.slot = TRUE]]
      BY <2>1, <2>2, Numbered
    <3>. QED  BY <1>1, <2>2, <3>1
  <2>4. \A u \in Threads : pc'[u] = "asked" => u # t /\ pc[u] = "asked" /\ job'[u] = job[u]
    BY <2>1 DEF TypeOK
  <2>5. PICK took \in BOOLEAN : took = TRUE
    OBVIOUS
  <2>6. /\ took => Len(Purge(timestamps[e], Minute, c)) < Limit[e]
        /\ timestamps' = [timestamps EXCEPT ![e] = IF took THEN Append(Purge(timestamps[e], Minute, c), c)
                                                          ELSE Purge(timestamps[e], Minute, c)]
    BY <2>1, <2>5
  <2>7. \A n \in DOMAIN requests :
            /\ requests'[n].event = requests[n].event /\ requests'[n].stamp = requests[n].stamp
            /\ requests'[n].slot = IF took /\ n = k THEN TRUE ELSE requests[n].slot
    BY <2>3, <2>5
  <2>8. AtLimit(t, k, e, c, took)
    BY <2>0, <2>1, <2>3, <2>4, <2>6, <2>7 DEF AtLimit
  <2>. QED  BY <2>8, LimitRate
<1>4. ASSUME NEW t \in Threads, JoinBatch(t) PROVE RateInv'
  <2>0. PICK k, e, c : k = job[t] /\ e = Event(k) /\ c = Clock(t)
    OBVIOUS
  <2>1. /\ now' = now /\ job' = [job EXCEPT ![t] = 0] /\ pc[t] = "asked" /\ pc' = [pc EXCEPT ![t] = "idle"]
        /\ SetFate({k}, "batched")
        /\ timestamps' = [timestamps EXCEPT ![e] = Purge(timestamps[e], Minute, c)]
    BY <1>4, <2>0 DEF JoinBatch, Leave, Go
  <2>2. /\ DOMAIN requests' = DOMAIN requests
        /\ \A n \in DOMAIN requests :
              /\ requests'[n].event = requests[n].event /\ requests'[n].stamp = requests[n].stamp
              /\ requests'[n].slot = requests[n].slot
    BY <1>1, <2>1, FateOnly, "batched" \in Fates DEF Fates
  <2>3. \A u \in Threads : pc'[u] = "asked" => u # t /\ pc[u] = "asked" /\ job'[u] = job[u]
    BY <2>1 DEF TypeOK
  <2>4. PICK took \in BOOLEAN : took = FALSE
    OBVIOUS
  <2>5. /\ took => Len(Purge(timestamps[e], Minute, c)) < Limit[e]
        /\ timestamps' = [timestamps EXCEPT ![e] = IF took THEN Append(Purge(timestamps[e], Minute, c), c)
                                                          ELSE Purge(timestamps[e], Minute, c)]
    BY <2>1, <2>4
  <2>6. \A n \in DOMAIN requests :
            /\ requests'[n].event = requests[n].event /\ requests'[n].stamp = requests[n].stamp
            /\ requests'[n].slot = IF took /\ n = k THEN TRUE ELSE requests[n].slot
    BY <2>2, <2>4
  <2>7. AtLimit(t, k, e, c, took)
    BY <2>0, <2>1, <2>2, <2>3, <2>5, <2>6 DEF AtLimit
  <2>. QED  BY <2>7, LimitRate
<1>5. ASSUME timestamps' = timestamps, now' \in {now, now + 1}, NEW S, NEW fate \in Fates,
             requests' = requests \/ SetFate(S, fate),
             \A t \in Threads : pc'[t] = "asked" => pc[t] = "asked" /\ job'[t] = job[t]
      PROVE  RateInv'
  <2>1. /\ DOMAIN requests' = DOMAIN requests
        /\ \A n \in DOMAIN requests :
              /\ requests'[n].event = requests[n].event /\ requests'[n].stamp = requests[n].stamp
              /\ requests'[n].slot = requests[n].slot
    BY <1>1, <1>5, FateOnly
  <2>2. \A t \in Threads : pc[t] = "asked" => job[t] \in DOMAIN requests
    BY DEF JobInv, Working
  <2>. QED  BY <1>1, <1>5, <2>1, <2>2, RateKept
<1>6. "minted" \in Fates /\ "unheard" \in Fates
  BY DEF Fates
<1>7. ASSUME NEW t \in Threads, CountPrincipal(t) PROVE RateInv'
  BY <1>5, <1>6, <1>7 DEF CountPrincipal, Go, TypeOK
<1>8. ASSUME NEW t \in Threads, NEW issued \in BOOLEAN, NEW heard \in BOOLEAN, Post(t, issued, heard)
      PROVE  RateInv'
  <2>1. SetFate({job[t]}, IF heard THEN "minted" ELSE "unheard") /\ timestamps' = timestamps /\ now' = now
    BY <1>8 DEF Post, Delivered
  <2>2. \A u \in Threads : pc'[u] = "asked" => pc[u] = "asked" /\ job'[u] = job[u]
    BY <1>8 DEF Post, Leave, Go, TypeOK
  <2>3. PICK fate \in Fates : fate = IF heard THEN "minted" ELSE "unheard"
    BY <1>6
  <2>. QED  BY <1>5, <2>1, <2>2, <2>3
<1>9. ASSUME NEW t \in Threads, NEW e \in AllowedEvents, TakeBatch(t, e) PROVE RateInv'
  BY <1>5, <1>6, <1>9 DEF TakeBatch, Go, TypeOK
<1>10. ASSUME NEW t \in Threads, NEW issued \in BOOLEAN, NEW heard \in BOOLEAN, PostBatch(t, issued, heard)
       PROVE  RateInv'
  <2>1. /\ SetFate(ToSet(batch[t]), IF heard THEN "minted" ELSE "unheard")
        /\ timestamps' = timestamps /\ now' = now
    BY <1>10 DEF PostBatch, Delivered
  <2>2. \A u \in Threads : pc'[u] = "asked" => pc[u] = "asked" /\ job'[u] = job[u]
    BY <1>10 DEF PostBatch, Go, TypeOK
  <2>3. PICK fate \in Fates : fate = IF heard THEN "minted" ELSE "unheard"
    BY <1>6
  <2>. QED  BY <1>5, <2>1, <2>2, <2>3
<1>11. CASE Tick
  BY <1>5, <1>6, <1>11 DEF Tick, threadVars
<1>12. CASE UNCHANGED vars
  BY <1>5, <1>6, <1>12 DEF vars, threadVars
<1>. QED  BY <1>2, <1>3, <1>4, <1>7, <1>8, <1>9, <1>10, <1>11, <1>12 DEF Next, Step, Idle

\* The minute of a class really slides, over every minute and not only the last: at
\* most its limit of slots was taken with a reading of the clock in it, and one more
\* for each other thread that may have read the clock before the window was purged.
THEOREM RatesAreBounded == Spec => []RateBound
<1>1. Init => RateInv
  <2>1. ASSUME Init, NEW e \in AllowedEvents PROVE Len(timestamps[e]) <= Limit[e]
    <3>1. Limit[e] \in Nat /\ Len(<<>>) = 0
      BY LimitAssumption, TaxonomyAssumption
    <3>. QED  BY <2>1, <3>1 DEF Init
  <2>2. ASSUME Init, NEW e \in AllowedEvents, NEW s \in 0..MaxTime PROVE RateAt(e, s)
    <3>1. timestamps[e] = <<>> /\ SlotsFrom(e, s) = {} /\ InWindow(timestamps[e], s) = {}
      BY <2>2 DEF Init, SlotsFrom, InWindow
    <3>2. Cardinality({}) = 0
      BY FS_EmptySet
    <3>3. Cardinality(SlotsFrom(e, s)) = 0 /\ Cardinality(InWindow(timestamps[e], s)) = 0
      BY <3>1, <3>2
    <3>. QED  BY <3>3 DEF RateAt
  <2>. QED  BY <2>1, <2>2 DEF RateInv
<1>2. Inv /\ RateInv => RateBound
  <2>. SUFFICES ASSUME Inv, RateInv, NEW e \in AllowedEvents, NEW s \in 0..now
                PROVE  Cardinality(SlotsFrom(e, s)) <= Limit[e] + Cardinality(Threads) - 1
    BY DEF RateBound
  <2>1. s \in 0..MaxTime
    BY Numbered DEF TypeOK
  <2>2. RateAt(e, s) /\ Len(timestamps[e]) <= Limit[e]
    BY <2>1 DEF RateInv
  <2>3. /\ Cardinality(SlotsFrom(e, s)) \in Nat /\ Cardinality(Late(e, s)) \in Nat /\ Limit[e] \in Nat
        /\ Cardinality(Threads) \in Nat /\ Cardinality(Threads) >= 1 /\ timestamps[e] \in Seq(0..MaxTime)
    BY Countable
  <2>4. /\ Cardinality(InWindow(timestamps[e], s)) \in Nat
        /\ Cardinality(InWindow(timestamps[e], s)) <= Len(timestamps[e]) /\ Len(timestamps[e]) \in Nat
    BY <2>3, WindowFinite
  <2>. QED  BY <2>2, <2>3, <2>4 DEF RateAt
<1>. QED  BY <1>1, <1>2, RateStep, Invariance, PTL DEF Spec
=============================================================================
