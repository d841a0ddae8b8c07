------------------------------- MODULE Collector -------------------------------
(***************************************************************************)
(* cpp/collector: every URL a VM serves is collected, in batches, in a map *)
(* in storage, and the request ":report:" answers with a copy of the map.  *)
(* As in cpp/minimal the VMs keep their memory and call into storage       *)
(* directly; collection_mtx orders them.  The mutex lives in storage, so a *)
(* request that is terminated while it holds it leaves it locked.          *)
(***************************************************************************)
EXTENDS Handlers, Naturals, Sequences, FiniteSets, Functions

CONSTANTS
  Urls,
  MaxLocalUrls,   \* MAX_LOCAL_URLS, 8 in the code
  MaxVisits,      \* bound: the requests for a URL in a behaviour
  Nobody          \* the owner of an unlocked mutex

ASSUME CollectorAssumption ==
  /\ IsFiniteSet(VMs)
  /\ MaxLocalUrls \in Nat \ {0}
  /\ MaxVisits \in Nat
  /\ Nobody \notin VMs

VARIABLES
  urls,        \* the batch of each VM
  next,        \* how much of its batch the VM that collects has added
  collection,  \* in storage: how often each URL was collected, 0 if never
  mtx,         \* the owner of collection_mtx
  copy,        \* what each VM's report shows, NoReport outside a report
  visits,      \* requests per URL so far
  lost,        \* of these, the ones that went with a terminated request
  whole        \* of these, the ones in batches that were collected completely

collectVars == <<pc, urls, next, collection, mtx, copy, visits, lost, whole>>

Tally == [Urls -> Nat]
Zero == [u \in Urls |-> 0]
NoReport == Zero

Plus(f, g) == [u \in Urls |-> f[u] + g[u]]

(* How often each URL occurs in a batch.                                   *)
Counts(batch) ==
  [u \in Urls |-> Cardinality({i \in 1..Len(batch) : batch[i] = u})]

CollectTypeOK ==
  /\ pc \in [VMs -> {"waiting", "lock", "collect", "clear", "lockReport", "copy", "respond"}]
  /\ urls \in [VMs -> Seq(Urls)] /\ \A v \in VMs : Len(urls[v]) <= MaxLocalUrls
  /\ next \in [VMs -> 1..(MaxLocalUrls + 1)]
  /\ collection \in Tally /\ visits \in Tally /\ lost \in Tally /\ whole \in Tally
  /\ mtx \in VMs \cup {Nobody}
  /\ copy \in [VMs -> Tally]

CollectInit ==
  /\ pc = [v \in VMs |-> "waiting"]
  /\ urls = [v \in VMs |-> <<>>]
  /\ next = [v \in VMs |-> 1]
  /\ collection = Zero
  /\ mtx = Nobody
  /\ copy = [v \in VMs |-> NoReport]
  /\ visits = Zero /\ lost = Zero /\ whole = Zero

(* Variant: one URL too many before a batch is collected.                  *)
VisitLate(v, u) ==
  /\ SumFunction(visits) < MaxVisits
  /\ Go(v, "waiting", IF Len(urls[v]) + 1 > MaxLocalUrls THEN "lock" ELSE "respond")
  /\ urls' = [urls EXCEPT ![v] = Append(@, u)]
  /\ visits' = [visits EXCEPT ![u] = @ + 1]
  /\ UNCHANGED <<next, collection, mtx, copy, lost, whole>>

(* A request for a URL: it joins the batch, a full batch is collected.     *)
Visit(v, u) ==
  /\ SumFunction(visits) < MaxVisits
  /\ Go(v, "waiting", IF Len(urls[v]) + 1 >= MaxLocalUrls THEN "lock" ELSE "respond")
  /\ urls' = [urls EXCEPT ![v] = Append(@, u)]
  /\ visits' = [visits EXCEPT ![u] = @ + 1]
  /\ UNCHANGED <<next, collection, mtx, copy, lost, whole>>

(* storage_collect: under the mutex, URL by URL; then the batch is cleared.*)
LockCollect(v) ==
  /\ mtx = Nobody
  /\ Go(v, "lock", "collect")
  /\ mtx' = v
  /\ next' = [next EXCEPT ![v] = 1]
  /\ UNCHANGED <<urls, collection, copy, visits, lost, whole>>

CollectOne(v) ==
  /\ pc[v] = "collect"
  /\ next[v] <= Len(urls[v])
  /\ collection' = [collection EXCEPT ![urls[v][next[v]]] = @ + 1]
  /\ next' = [next EXCEPT ![v] = @ + 1]
  /\ UNCHANGED <<pc, urls, mtx, copy, visits, lost, whole>>

UnlockCollect(v) ==
  /\ next[v] > Len(urls[v])
  /\ Go(v, "collect", "clear")
  /\ mtx' = Nobody
  /\ whole' = Plus(whole, Counts(urls[v]))
  /\ UNCHANGED <<urls, next, collection, copy, visits, lost>>

(* Variant: the batch is not cleared.                                      *)
ClearNoUrls(v) ==
  /\ Go(v, "clear", "respond")
  /\ UNCHANGED <<urls, next, collection, mtx, copy, visits, lost, whole>>

ClearUrls(v) ==
  /\ Go(v, "clear", "respond")
  /\ urls' = [urls EXCEPT ![v] = <<>>]
  /\ UNCHANGED <<next, collection, mtx, copy, visits, lost, whole>>

(* ":report:" copies the map under the mutex, sorts the copy and responds, *)
(* which concludes the request: the URL is not collected.                  *)
AskReport(v) ==
  /\ Go(v, "waiting", "lockReport")
  /\ UNCHANGED <<urls, next, collection, mtx, copy, visits, lost, whole>>

(* Variant: storage_report does not lock.                                  *)
ReportUnlocked(v) ==
  /\ Go(v, "lockReport", "copy")
  /\ UNCHANGED <<urls, next, collection, mtx, copy, visits, lost, whole>>

LockReport(v) ==
  /\ mtx = Nobody
  /\ Go(v, "lockReport", "copy")
  /\ mtx' = v
  /\ UNCHANGED <<urls, next, collection, copy, visits, lost, whole>>

CopyReport(v) ==
  /\ Go(v, "copy", "respond")
  /\ copy' = [copy EXCEPT ![v] = collection]
  /\ mtx' = Nobody
  /\ UNCHANGED <<urls, next, collection, visits, lost, whole>>

CollectRespond(v) ==
  /\ Go(v, "respond", "waiting")
  /\ copy' = [copy EXCEPT ![v] = NoReport]
  /\ UNCHANGED <<urls, next, collection, mtx, visits, lost, whole>>

(* What of a VM's batch is in no storage yet.                              *)
Uncollected(v) ==
  CASE pc[v] = "clear"   -> <<>>
    [] pc[v] = "collect" -> SubSeq(urls[v], next[v], Len(urls[v]))
    [] OTHER             -> urls[v]

(* The request is terminated and its VM reset to what main left.           *)
CollectTerminate(v) ==
  /\ pc[v] # "waiting"
  /\ pc' = [pc EXCEPT ![v] = "waiting"]
  /\ lost' = Plus(lost, Counts(Uncollected(v)))
  /\ urls' = [urls EXCEPT ![v] = <<>>]
  /\ copy' = [copy EXCEPT ![v] = NoReport]
  /\ UNCHANGED <<next, collection, mtx, visits, whole>>

CollectNext ==
  \E v \in VMs :
    \/ \E u \in Urls : Visit(v, u)
    \/ LockCollect(v) \/ CollectOne(v) \/ UnlockCollect(v) \/ ClearUrls(v)
    \/ AskReport(v) \/ LockReport(v) \/ CopyReport(v)
    \/ CollectRespond(v)
    \/ CollectTerminate(v)

CollectSpec == CollectInit /\ [][CollectNext]_collectVars

-----------------------------------------------------------------------------

(* Every request for a URL is in exactly one place: in storage, in the     *)
(* batch of one VM, or lost with a terminated request.  Nothing is         *)
(* collected twice (storage_collect and urls.clear()).                     *)
EveryVisitOnce ==
  \A u \in Urls :
    visits[u] = collection[u] + lost[u]
                + SumFunction([v \in VMs |-> Counts(Uncollected(v))[u]])

(* A report shows whole batches only, although batches are added URL by    *)
(* URL and requests may be terminated half way through one (the scoped     *)
(* locks of storage_collect and storage_report).                           *)
ReportsWholeBatches ==
  \A v \in VMs : pc[v] = "copy" => collection = whole

===============================================================================
