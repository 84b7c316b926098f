-------------------------- MODULE BidDistribution ---------------------------
(***************************************************************************)
(* How a mutation reaches the servers that run auctions: BidCache of       *)
(* internal/ads/cache.go on top of the registry of RedisStore, started by  *)
(* cmd/adserver/main.go.                                                   *)
(*                                                                         *)
(* A server warms its cache before it serves, then refreshes placements    *)
(* for three reasons: an invalidation from Pub/Sub or from one of its own  *)
(* mutation handlers, an auction that finds no snapshot or a stale one,    *)
(* and the timer, which reconciles every indexed placement in order.       *)
(* Pub/Sub may lose any message; reads of Redis may fail.                  *)
(***************************************************************************)
EXTENDS RedisStore, Sequences

CONSTANTS
  Servers,      \* processes whose caches are modelled
  Elsewhere,    \* some other process
  Home,         \* Home[h]: the process that runs handler h
  Traffic,      \* placements that auctions ask for
  Unreachable,  \* placements on a shard that never answers
  Flaky,        \* whether reads of Redis may fail
  MaxCrashes,   \* bound on the crashes of all servers together
  NoSnapshot    \* a placement without an entry in the cache

(* What a read of Redis may return, and what a cache may hold for it.      *)
Lists == [bids : [BidIDs -> Payloads \cup {Absent}], asof : [BidIDs -> Nat]]
Snapshots == [list : Lists, stale : BOOLEAN]

(* Placements are numbered in the order sort.Strings puts their names.     *)
ASSUME DistributionAssumption ==
  /\ Placements \subseteq Nat
  /\ Traffic \subseteq Placements
  /\ Unreachable \subseteq Placements
  /\ Home \in [Handlers -> Servers \cup {Elsewhere}]
  /\ Elsewhere \notin Servers
  /\ Flaky \in BOOLEAN
  /\ MaxCrashes \in Nat
  /\ NoSnapshot \notin Snapshots

VARIABLES
  mode,      \* mode[s]: "down", "warming" (before Start), "up"
  entries,   \* entries[s][p]: the snapshot auctions read
  inflight,  \* inflight[s]: placements with an asynchronous refresh
  task,      \* task[s][p]: the goroutine of that refresh
  rec,       \* rec[s]: the reconciliation of the timer, or of Warm
  sub,       \* sub[s]: the subscription to invalidations is open
  queue,     \* queue[s]: invalidations received and not handled yet
  crashes,   \* crashes so far
  base       \* auxiliary, base[s]: the revisions in Redis when s started

cacheVars == <<mode, entries, inflight, task, rec, sub, queue, crashes, base>>
vars == <<storeVars, cacheVars>>

(***************************************************************************)
(* The result of Fetch(p): every active bid of the placement.  The part    *)
(* asof is auxiliary: the revisions, tombstones included, at that moment.  *)
(***************************************************************************)
Fetch(p) == [bids |-> [b \in BidIDs |-> active[<<p, b>>]],
             asof |-> [b \in BidIDs |-> version[<<p, b>>]]]

NoList == [bids |-> [b \in BidIDs |-> Absent], asof |-> [b \in BidIDs |-> 0]]

IdleTask == [at |-> "idle", list |-> NoList]
IdleRec == [at |-> "idle", todo |-> {}, list |-> NoList]

DistInit ==
  /\ Init
  /\ mode = [s \in Servers |-> "down"]
  /\ entries = [s \in Servers |-> [p \in Placements |-> NoSnapshot]]
  /\ inflight = [s \in Servers |-> {}]
  /\ task = [s \in Servers |-> [p \in Placements |-> IdleTask]]
  /\ rec = [s \in Servers |-> IdleRec]
  /\ sub = [s \in Servers |-> FALSE]
  /\ queue = [s \in Servers |-> <<>>]
  /\ crashes = 0
  /\ base = [s \in Servers |-> [k \in Keys |-> 0]]

-----------------------------------------------------------------------------
(* A process ends: everything it held in memory is gone.                   *)
Lost(s) ==
  /\ mode' = [mode EXCEPT ![s] = "down"]
  /\ entries' = [entries EXCEPT ![s] = [p \in Placements |-> NoSnapshot]]
  /\ inflight' = [inflight EXCEPT ![s] = {}]
  /\ task' = [task EXCEPT ![s] = [p \in Placements |-> IdleTask]]
  /\ rec' = [rec EXCEPT ![s] = IdleRec]
  /\ sub' = [sub EXCEPT ![s] = FALSE]
  /\ queue' = [queue EXCEPT ![s] = <<>>]

(* main: Ping has answered, Warm begins with the list of placements.       *)
Boot(s) ==
  /\ mode[s] = "down"
  /\ mode' = [mode EXCEPT ![s] = "warming"]
  /\ rec' = [rec EXCEPT ![s].at = "list"]
  /\ base' = [base EXCEPT ![s] = version]
  /\ UNCHANGED <<storeVars, entries, inflight, task, sub, queue, crashes>>

CrashServer(s) ==
  /\ mode[s] = "up"
  /\ crashes < MaxCrashes
  /\ crashes' = crashes + 1
  /\ Crash({h \in Running : Home[h] = s})
  /\ Lost(s)
  /\ UNCHANGED base

-----------------------------------------------------------------------------
(* Reconcile                                                               *)

(* The ticker of refreshLoop.                                              *)
Tick(s) ==
  /\ mode[s] = "up"
  /\ rec[s].at = "idle"
  /\ rec' = [rec EXCEPT ![s].at = "list"]
  /\ UNCHANGED <<storeVars, mode, entries, inflight, task, sub, queue, crashes, base>>

(* The placements that are left; after the last one Warm returns to main.  *)
Continue(s, todo) ==
  IF todo = {}
    THEN /\ rec' = [rec EXCEPT ![s] = IdleRec]
         /\ mode' = [mode EXCEPT ![s] = "up"]
    ELSE /\ rec' = [rec EXCEPT ![s] = [at |-> "fetch", todo |-> todo, list |-> NoList]]
         /\ UNCHANGED mode

(* Slip: only placements that are cached already are reconciled.           *)
ListOKKnownOnly(s) ==
  /\ rec[s].at = "list"
  /\ Continue(s, {p \in index : entries[s][p] # NoSnapshot})
  /\ UNCHANGED <<storeVars, entries, inflight, task, sub, queue, crashes, base>>

ListOK(s) ==
  /\ rec[s].at = "list"
  /\ Continue(s, index)
  /\ UNCHANGED <<storeVars, entries, inflight, task, sub, queue, crashes, base>>

RecFetchOK(s, p) ==
  /\ rec[s].at = "fetch"
  /\ p = Min(rec[s].todo)
  /\ p \notin Unreachable
  /\ rec' = [rec EXCEPT ![s].at = "store", ![s].list = Fetch(p)]
  /\ UNCHANGED <<storeVars, mode, entries, inflight, task, sub, queue, crashes, base>>

RecStore(s) ==
  /\ rec[s].at = "store"
  /\ LET p == Min(rec[s].todo) IN
       /\ entries' = [entries EXCEPT ![s][p] = [list |-> rec[s].list, stale |-> FALSE]]
       /\ Continue(s, rec[s].todo \ {p})
  /\ UNCHANGED <<storeVars, inflight, task, sub, queue, crashes, base>>

(* Slip: an error of Warm is logged and the server starts all the same.    *)
RecFailServes(s) ==
  /\ rec[s].at \in {"list", "fetch"} /\ Flaky
  /\ rec' = [rec EXCEPT ![s] = IdleRec]
  /\ mode' = [mode EXCEPT ![s] = "up"]
  /\ UNCHANGED <<storeVars, entries, inflight, task, sub, queue, crashes, base>>

(* The first error ends the reconciliation; during Warm it ends main.      *)
RecFail(s) ==
  /\ \/ rec[s].at = "list" /\ Flaky
     \/ rec[s].at = "fetch" /\ (Flaky \/ Min(rec[s].todo) \in Unreachable)
  /\ IF mode[s] = "warming"
       THEN Lost(s)
       ELSE /\ rec' = [rec EXCEPT ![s] = IdleRec]
            /\ UNCHANGED <<mode, entries, inflight, task, sub, queue>>
  /\ UNCHANGED <<storeVars, crashes, base>>

-----------------------------------------------------------------------------
(* Asynchronous refreshes                                                  *)

(* LoadOrStore on inflight: a refresh under way swallows the new one.      *)
RefreshAsync(s, p) ==
  IF p \in inflight[s]
    THEN UNCHANGED <<inflight, task>>
    ELSE /\ inflight' = [inflight EXCEPT ![s] = @ \cup {p}]
         /\ task' = [task EXCEPT ![s][p].at = "fetch"]

FetchOK(s, p) ==
  /\ task[s][p].at = "fetch"
  /\ p \notin Unreachable
  /\ task' = [task EXCEPT ![s][p] = [at |-> "store", list |-> Fetch(p)]]
  /\ UNCHANGED <<storeVars, mode, entries, inflight, rec, sub, queue, crashes, base>>

(* Slip: the error of Fetch is ignored and the nil list is stored.         *)
FetchFailStored(s, p) ==
  /\ task[s][p].at = "fetch" /\ Flaky
  /\ task' = [task EXCEPT ![s][p] = [at |-> "release", list |-> NoSnapshot]]
  /\ entries' = [entries EXCEPT ![s][p] = [list |-> NoSnapshot, stale |-> FALSE]]
  /\ UNCHANGED <<storeVars, mode, inflight, rec, sub, queue, crashes, base>>

(* Slip: inflight.Delete is not deferred, an early return skips it.        *)
FetchFailKeepsMark(s, p) ==
  /\ task[s][p].at = "fetch" /\ Flaky
  /\ task' = [task EXCEPT ![s][p] = IdleTask]
  /\ UNCHANGED <<storeVars, mode, entries, inflight, rec, sub, queue, crashes, base>>

FetchFail(s, p) ==
  /\ task[s][p].at = "fetch"
  /\ Flaky \/ p \in Unreachable
  /\ task' = [task EXCEPT ![s][p].at = "release"]
  /\ UNCHANGED <<storeVars, mode, entries, inflight, rec, sub, queue, crashes, base>>

(* Slip: the refresh merges into the old snapshot and forgets deletes.     *)
StoreMerged(s, p) ==
  /\ task[s][p].at = "store"
  /\ LET new == task[s][p].list
         old == IF entries[s][p] = NoSnapshot THEN NoList ELSE entries[s][p].list
         kept == [b \in BidIDs |-> IF new.bids[b] = Absent THEN old.bids[b] ELSE new.bids[b]]
     IN  entries' = [entries EXCEPT ![s][p] =
                       [list |-> [new EXCEPT !.bids = kept], stale |-> FALSE]]
  /\ task' = [task EXCEPT ![s][p] = [at |-> "release", list |-> NoList]]
  /\ UNCHANGED <<storeVars, mode, inflight, rec, sub, queue, crashes, base>>

Store(s, p) ==
  /\ task[s][p].at = "store"
  /\ entries' = [entries EXCEPT ![s][p] = [list |-> task[s][p].list, stale |-> FALSE]]
  /\ task' = [task EXCEPT ![s][p] = [at |-> "release", list |-> NoList]]
  /\ UNCHANGED <<storeVars, mode, inflight, rec, sub, queue, crashes, base>>

(* The deferred inflight.Delete, the last thing the goroutine does.        *)
Release(s, p) ==
  /\ task[s][p].at = "release"
  /\ inflight' = [inflight EXCEPT ![s] = @ \ {p}]
  /\ task' = [task EXCEPT ![s][p] = IdleTask]
  /\ UNCHANGED <<storeVars, mode, entries, rec, sub, queue, crashes, base>>

-----------------------------------------------------------------------------
(* Reasons for a refresh                                                   *)

Subscribe(s) ==
  /\ mode[s] = "up"
  /\ ~sub[s]
  /\ sub' = [sub EXCEPT ![s] = TRUE]
  /\ UNCHANGED <<storeVars, mode, entries, inflight, task, rec, queue, crashes, base>>

HandleMessage(s) ==
  /\ queue[s] # <<>>
  /\ RefreshAsync(s, Head(queue[s]))
  /\ queue' = [queue EXCEPT ![s] = Tail(@)]
  /\ UNCHANGED <<storeVars, mode, entries, rec, sub, crashes, base>>

(* An auction without a snapshot, or with a stale one.                     *)
Auction(s, p) ==
  /\ p \in Traffic
  /\ mode[s] = "up"
  /\ entries[s][p] # NoSnapshot => entries[s][p].stale
  /\ RefreshAsync(s, p)
  /\ UNCHANGED <<storeVars, mode, entries, rec, sub, queue, crashes, base>>

(* A snapshot becomes older than MaxSnapshotAge; only auctions can tell.   *)
Age(s, p) ==
  /\ p \in Traffic
  /\ entries[s][p] # NoSnapshot
  /\ ~entries[s][p].stale
  /\ entries' = [entries EXCEPT ![s][p].stale = TRUE]
  /\ UNCHANGED <<storeVars, mode, inflight, task, rec, sub, queue, crashes, base>>

-----------------------------------------------------------------------------
(* The mutation handlers on their servers.  A handler runs only while its  *)
(* process serves; the script needs the shard of its placement.            *)

Serving(h) == Home[h] \in Servers => mode[Home[h]] = "up"

(* PUBLISH reaches any subset of the open subscriptions.                   *)
Deliver(p) ==
  \E R \in SUBSET {s \in Servers : sub[s]} :
    queue' = [s \in Servers |-> IF s \in R THEN Append(queue[s], p) ELSE queue[s]]

HandlerCommand(h) ==
  /\ Serving(h)
  /\ \/ Receive(h) \/ SAdd(h)
     \/ Eval(h) /\ req[h].placement \notin Unreachable
     \/ Lose(h)
  /\ UNCHANGED cacheVars

PublishInvalidation(h) ==
  /\ Serving(h)
  /\ Publish(h)
  /\ Deliver(req[h].placement)
  /\ UNCHANGED <<mode, entries, inflight, task, rec, sub, crashes, base>>

(* The handler refreshes its own cache and answers.                        *)
Answer(h) ==
  /\ Serving(h)
  /\ Respond(h)
  /\ IF Home[h] \in Servers THEN RefreshAsync(Home[h], req[h].placement)
                            ELSE UNCHANGED <<inflight, task>>
  /\ UNCHANGED <<mode, entries, rec, sub, queue, crashes, base>>

Arrive(h, command) ==
  /\ ExecuteLate(h, command)
  /\ command = "eval" => req[h].placement \notin Unreachable
  /\ IF command = "publish" THEN Deliver(req[h].placement) ELSE UNCHANGED queue
  /\ UNCHANGED <<mode, entries, inflight, task, rec, sub, crashes, base>>

-----------------------------------------------------------------------------
ReconcileStep(s) ==
  \/ ListOK(s) \/ RecStore(s) \/ RecFail(s)
  \/ \E p \in Placements : RecFetchOK(s, p)

RefreshStep(s, p) ==
  FetchOK(s, p) \/ FetchFail(s, p) \/ Store(s, p) \/ Release(s, p)

DistNext ==
  \/ \E s \in Servers :
       \/ Boot(s) \/ CrashServer(s) \/ Tick(s) \/ Subscribe(s) \/ HandleMessage(s)
       \/ ReconcileStep(s)
       \/ \E p \in Placements : RefreshStep(s, p) \/ Auction(s, p) \/ Age(s, p)
  \/ \E h \in Handlers :
       \/ HandlerCommand(h) \/ PublishInvalidation(h) \/ Answer(h)
       \/ \E command \in Commands : Arrive(h, command)

DistSpec == DistInit /\ [][DistNext]_vars

(***************************************************************************)
(* Goroutines run and reads end by their deadlines (weak fairness); a read *)
(* of a reachable shard that is tried again and again succeeds again and   *)
(* again (strong fairness); a process that ended is started again; a       *)
(* message on the subscription is handled.                                 *)
(***************************************************************************)
Fairness ==
  /\ \A s \in Servers :
       /\ WF_vars(Boot(s)) /\ WF_vars(Tick(s)) /\ WF_vars(HandleMessage(s))
       /\ WF_vars(ReconcileStep(s))
       /\ SF_vars(ListOK(s))
       /\ \A p \in Placements :
            /\ SF_vars(RecFetchOK(s, p))
            /\ WF_vars(RefreshStep(s, p))
  /\ \A h \in Handlers :
       /\ WF_vars(HandlerCommand(h) \/ PublishInvalidation(h) \/ Answer(h))
       /\ \A command \in Commands : WF_vars(Arrive(h, command))

FairSpec == DistSpec /\ Fairness

-----------------------------------------------------------------------------
DistTypeOK ==
  /\ TypeOK
  /\ mode \in [Servers -> {"down", "warming", "up"}]
  /\ entries \in [Servers -> [Placements -> Snapshots \cup {NoSnapshot}]]
  /\ inflight \in [Servers -> SUBSET Placements]
  /\ task \in [Servers -> [Placements ->
       [at : {"idle", "fetch", "store", "release"}, list : Lists]]]
  /\ rec \in [Servers -> [at : {"idle", "list", "fetch", "store"},
                          todo : SUBSET Placements, list : Lists]]
  /\ sub \in [Servers -> BOOLEAN]
  /\ queue \in [Servers -> Seq(Placements)]
  /\ crashes \in 0..MaxCrashes
  /\ base \in [Servers -> [Keys -> Nat]]

(***************************************************************************)
(* A list of bids of placement p agrees with Redis, now or in the past: no *)
(* revision is newer than the stored one, where the revisions are equal    *)
(* the bid is the stored bid, and a bid carries the revision it came with. *)
(***************************************************************************)
Sound(list, p) ==
  \A b \in BidIDs :
    /\ list.asof[b] <= version[<<p, b>>]
    /\ list.asof[b] = version[<<p, b>>] => list.bids[b] = active[<<p, b>>]
    /\ list.bids[b] # Absent => list.bids[b].rev = list.asof[b]

(***************************************************************************)
(* Auctions never see a revision that Redis did not reach, nor another bid *)
(* at the stored revision: whatever refreshes of one placement overlap     *)
(* with mutations, deletes and each other, every snapshot is sound.        *)
(***************************************************************************)
SnapshotsSound ==
  \A s \in Servers, p \in Placements :
    entries[s][p] # NoSnapshot => Sound(entries[s][p].list, p)

(***************************************************************************)
(* The lists of placement p in the memory of server s: the snapshot, and   *)
(* what a refresh or the reconciliation has read and will store.           *)
(***************************************************************************)
Held(s, p) ==
  (IF entries[s][p] # NoSnapshot THEN {entries[s][p].list} ELSE {})
  \cup (IF task[s][p].at = "store" THEN {task[s][p].list} ELSE {})
  \cup (IF rec[s].at = "store" /\ p = Min(rec[s].todo) THEN {rec[s].list} ELSE {})

(***************************************************************************)
(* Servers that have seen the same revision of a bid have the same bid:    *)
(* lists that were read at different times, by different goroutines of     *)
(* different servers, disagree on a bid only where one read is older, and  *)
(* a deleted bid does not live on beside its tombstone's revision.         *)
(***************************************************************************)
SameRevisionSameBid ==
  \A s, t \in Servers, p \in Placements, b \in BidIDs :
    \A l \in Held(s, p), m \in Held(t, p) :
      l.asof[b] = m.asof[b] => l.bids[b] = m.bids[b]

(***************************************************************************)
(* A server that serves has loaded everything that was in Redis when it    *)
(* started, and never falls back behind that: Warm covers the placements   *)
(* whose writers got as far as the script, and no refresh that started     *)
(* before a crash survives it.                                             *)
(***************************************************************************)
NotOlderThanStart ==
  \A s \in Servers, p \in Placements, b \in BidIDs :
    (mode[s] = "up" /\ base[s][<<p, b>>] # 0) =>
      /\ entries[s][p] # NoSnapshot
      /\ entries[s][p].list.asof[b] >= base[s][<<p, b>>]

(***************************************************************************)
(* The inflight mark of RefreshAsync is always given back, also after a    *)
(* failed read: otherwise the placement would never again be refreshed by  *)
(* an invalidation or by an auction.                                       *)
(***************************************************************************)
RefreshesEnd ==
  \A s \in Servers, p \in Placements : []<>(p \notin inflight[s])

Current(s, p) ==
  /\ entries[s][p] # NoSnapshot
  /\ entries[s][p].list.bids = Fetch(p).bids

(***************************************************************************)
(* When the mutations stop, every server ends up with what Redis holds for *)
(* every indexed placement, and stays there: lost invalidations, swallowed *)
(* refreshes, refreshes that overtake each other, failed writes that were  *)
(* applied late and restarts are all repaired by the timer.                *)
(***************************************************************************)
Converges ==
  \A s \in Servers, p \in Placements :
    <>[](mode[s] = "up" /\ p \in index /\ p \notin Unreachable => Current(s, p))

(***************************************************************************)
(* Every server that receives an invalidation refreshes the placement: the *)
(* message leads to a read of Redis that is still to come when the message *)
(* is handled (docs/architecture.md: "Each server refreshes its local      *)
(* placement snapshot").                                                   *)
(***************************************************************************)
MessageStartsRead ==
  [][\A s \in Servers :
       HandleMessage(s) => task'[s][Head(queue[s])].at = "fetch"]_vars
=============================================================================
