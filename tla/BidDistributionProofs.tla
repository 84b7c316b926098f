----------------------- MODULE BidDistributionProofs ------------------------
(***************************************************************************)
(* What auctions read from a server's snapshots is sound and never older   *)
(* than the start of the server, for any number of servers, handlers,      *)
(* placements and bids, and for any failures.                              *)
(***************************************************************************)
EXTENDS BidDistribution, RedisStoreProofs, WellFoundedInduction

(* A list that a server may show to auctions of placement p: it agrees     *)
(* with Redis, and was not read before the server started.                 *)
Recent(list, s, p) ==
  /\ Sound(list, p)
  /\ \A b \in BidIDs : list.asof[b] >= base[s][<<p, b>>]

(* The members of Held(s, p).                                              *)
Holds(s, p, list) ==
  \/ entries[s][p] # NoSnapshot /\ entries[s][p].list = list
  \/ task[s][p].at = "store" /\ task[s][p].list = list
  \/ rec[s].at = "store" /\ p = Min(rec[s].todo) /\ rec[s].list = list

ListsRecent(s) ==
  \A p \in Placements, list \in Lists : Holds(s, p, list) => Recent(list, s, p)

(* A process that is down holds nothing; refreshes and invalidations exist *)
(* only after Warm.                                                        *)
Lifecycle(s) ==
  /\ mode[s] = "down" =>
       rec[s].at = "idle" /\ \A p \in Placements : entries[s][p] = NoSnapshot
  /\ mode[s] # "up" =>
       ~sub[s] /\ queue[s] = <<>> /\ \A p \in Placements : task[s][p].at = "idle"
  /\ mode[s] = "warming" => rec[s].at # "idle"
  /\ rec[s].at \in {"fetch", "store"} => rec[s].todo # {}

BasePast(s) == \A k \in Keys : base[s][k] <= version[k]

(* What was in Redis at the start is loaded, or Warm will still come to it.*)
Ahead(s, p) ==
  /\ mode[s] = "warming"
  /\ rec[s].at = "list" \/ (rec[s].at \in {"fetch", "store"} /\ p \in rec[s].todo)

WarmCovers(s) ==
  \A p \in Placements, b \in BidIDs :
    mode[s] # "down" /\ base[s][<<p, b>>] # 0 =>
      entries[s][p] # NoSnapshot \/ Ahead(s, p)

(* Every list that s holds after a step it held before, or has just read.  *)
ListsFrom(s) ==
  \A p \in Placements, list \in Lists :
    Holds(s, p, list)' => Holds(s, p, list) \/ list = Fetch(p)

ServerInv(s) == Lifecycle(s) /\ ListsRecent(s) /\ BasePast(s) /\ WarmCovers(s)

DistInv ==
  /\ StoreInv
  /\ DistTypeOK
  /\ \A s \in Servers : ServerInv(s)

-----------------------------------------------------------------------------
(* The placement whose turn it is in Reconcile is one of those left.       *)
LEMMA MinLeft ==
  ASSUME NEW T \in SUBSET Nat, T # {}
  PROVE  Min(T) \in T
<1>. DEFINE R == OpToRel(<, Nat)
<1>1. IsWellFoundedOn(R, Nat)
  BY NatLessThanWellFounded
<1>2. R = {ss \in Nat \X Nat : ss[1] < ss[2]}
  BY DEF OpToRel
<1>. HIDE DEF R
<1>3. PICK x \in T : \A y \in T : ~(<<y, x>> \in R)
  BY <1>1, WFMin
<1>4. \A y \in T : x <= y
  <2>. SUFFICES ASSUME NEW y \in T PROVE x <= y
    OBVIOUS
  <2>1. x \in Nat /\ y \in Nat
    OBVIOUS
  <2>2. y < x => <<y, x>> \in R
    BY <1>2, <2>1
  <2>3. ~(y < x)
    BY <1>3, <2>2
  <2>. QED  BY <2>1, <2>3
<1>. QED  BY <1>4 DEF Min

(* Every step of the servers is a step of the registry, or leaves it alone.*)
LEMMA StoreStep == [DistNext]_vars => [Next]_storeVars
<1>. SUFFICES ASSUME [DistNext]_vars PROVE [Next]_storeVars
  OBVIOUS
<1>1. ASSUME NEW s \in Servers, CrashServer(s) PROVE Next
  <2>1. {h \in Running : Home[h] = s} \in SUBSET Running
    OBVIOUS
  <2>. QED  BY <1>1, <2>1 DEF CrashServer, Next
<1>2. ASSUME NEW h \in Handlers,
             \/ HandlerCommand(h) \/ PublishInvalidation(h) \/ Answer(h)
             \/ \E command \in Commands : Arrive(h, command)
      PROVE  Next
  BY <1>2 DEF HandlerCommand, PublishInvalidation, Answer, Arrive, Next, HandlerStep
<1>3. ASSUME NEW s \in Servers,
             Boot(s) \/ Tick(s) \/ Subscribe(s) \/ HandleMessage(s) \/ ReconcileStep(s)
      PROVE  UNCHANGED storeVars
  BY <1>3 DEF Boot, Tick, Subscribe, HandleMessage, ReconcileStep, ListOK, RecStore, RecFail,
              RecFetchOK
<1>4. ASSUME NEW s \in Servers, NEW p \in Placements,
             RefreshStep(s, p) \/ Auction(s, p) \/ Age(s, p)
      PROVE  UNCHANGED storeVars
  BY <1>4 DEF RefreshStep, FetchOK, FetchFail, Store, Release, Auction, Age
<1>. QED  BY <1>1, <1>2, <1>3, <1>4 DEF DistNext, vars

LEMMA StoreTypes ==
  ASSUME StoreInv
  PROVE  /\ active \in [Keys -> Payloads \cup {Absent}]
         /\ version \in [Keys -> Nat]
         /\ index \subseteq Placements
         /\ \A h \in Handlers : req[h].placement \in Placements
<1>1. TypeOK
  BY DEF StoreInv
<1>2. version \in [Keys -> Nat]
  BY <1>1, StoreAssumption DEF TypeOK
<1>. QED  BY <1>1, <1>2, RequestType DEF TypeOK

(* What a read returns is sound at that moment.                            *)
LEMMA FetchRecent ==
  ASSUME DistInv, NEW s \in Servers, NEW p \in Placements
  PROVE  Fetch(p) \in Lists /\ Recent(Fetch(p), s, p)
<1>1. active \in [Keys -> Payloads \cup {Absent}] /\ version \in [Keys -> Nat]
  BY StoreTypes DEF DistInv
<1>2. \A b \in BidIDs : <<p, b>> \in Keys
  BY DEF Keys
<1>3. Fetch(p) \in Lists
  BY <1>1, <1>2 DEF Fetch, Lists
<1>4. Sound(Fetch(p), p)
  BY <1>1, <1>2 DEF Fetch, Sound, DistInv, StoreInv, HashesAgree
<1>5. \A b \in BidIDs : base[s][<<p, b>>] <= version[<<p, b>>]
        /\ base[s][<<p, b>>] \in Nat /\ Fetch(p).asof[b] = version[<<p, b>>]
  BY <1>2 DEF DistInv, ServerInv, BasePast, Fetch, DistTypeOK
<1>. QED  BY <1>1, <1>2, <1>3, <1>4, <1>5 DEF Recent

(* A list stays sound whatever is written: revisions only grow, and a bid  *)
(* only changes with its revision.                                         *)
LEMMA RecentStable ==
  ASSUME DistInv, [Next]_storeVars, NEW s \in Servers, base'[s] = base[s],
         NEW p \in Placements, NEW list \in Lists, Recent(list, s, p)
  PROVE  Recent(list, s, p)'
<1>1. \A b \in BidIDs : <<p, b>> \in Keys /\ list.asof[b] \in Nat
  BY DEF Keys, Lists
<1>2. version \in [Keys -> Nat] /\ version' \in [Keys -> Nat]
  <2>1. StoreInv /\ StoreInv'
    BY StoreInvStep DEF DistInv
  <2>. QED  BY <2>1, StoreTypes, StoreAssumption DEF StoreInv, TypeOK
<1>3. \A b \in BidIDs : Governed(<<p, b>>)
  BY <1>1, StepGoverned DEF DistInv
<1>4. Sound(list, p)'
  BY <1>1, <1>2, <1>3 DEF Recent, Sound, Governed
<1>. QED  BY <1>4 DEF Recent

-----------------------------------------------------------------------------
(* The part of the type invariant that is about the caches.                *)
Tasks == [at : {"idle", "fetch", "store", "release"}, list : Lists]
Recs == [at : {"idle", "list", "fetch", "store"}, todo : SUBSET Placements, list : Lists]

CacheType ==
  /\ mode \in [Servers -> {"down", "warming", "up"}]
  /\ entries \in [Servers -> [Placements -> Snapshots \cup {NoSnapshot}]]
  /\ inflight \in [Servers -> SUBSET Placements]
  /\ task \in [Servers -> [Placements -> Tasks]]
  /\ rec \in [Servers -> Recs]
  /\ sub \in [Servers -> BOOLEAN]
  /\ queue \in [Servers -> Seq(Placements)]
  /\ crashes \in 0..MaxCrashes
  /\ base \in [Servers -> [Keys -> Nat]]

LEMMA TypeParts == DistTypeOK <=> TypeOK /\ CacheType
BY DEF DistTypeOK, CacheType, Tasks, Recs

LEMMA IdleTypes == NoList \in Lists /\ IdleTask \in Tasks /\ IdleRec \in Recs
<1>1. NoList \in Lists
  BY DEF NoList, Lists
<1>. QED  BY <1>1 DEF IdleTask, IdleRec, Tasks, Recs

LEMMA TaskMoves ==
  ASSUME NEW x \in Tasks, NEW at \in {"fetch", "release"}
  PROVE  [x EXCEPT !.at = at] \in Tasks
BY DEF Tasks

LEMMA TaskPut ==
  ASSUME CacheType, NEW s \in Servers, NEW p \in Placements, NEW x \in Tasks
  PROVE  /\ task \in [Servers -> [Placements -> Tasks]]
         /\ [task EXCEPT ![s][p] = x] \in [Servers -> [Placements -> Tasks]]
<1>1. task \in [Servers -> [Placements -> Tasks]]
  BY DEF CacheType
<1>2. [task[s] EXCEPT ![p] = x] \in [Placements -> Tasks]
  BY <1>1
<1>. QED  BY <1>1, <1>2

LEMMA EntryPut ==
  ASSUME CacheType, NEW s \in Servers, NEW p \in Placements, NEW x \in Snapshots
  PROVE  /\ [entries EXCEPT ![s][p] = x] \in
              [Servers -> [Placements -> Snapshots \cup {NoSnapshot}]]
         /\ x # NoSnapshot
<1>1. entries \in [Servers -> [Placements -> Snapshots \cup {NoSnapshot}]]
  BY DEF CacheType
<1>2. [entries[s] EXCEPT ![p] = x] \in [Placements -> Snapshots \cup {NoSnapshot}]
  BY <1>1
<1>. QED  BY <1>1, <1>2, DistributionAssumption

LEMMA RecMoves ==
  ASSUME NEW x \in Recs
  PROVE  [x EXCEPT !.at = "list"] \in Recs
BY DEF Recs

(* A server keeps its invariant when it starts with the same revisions,    *)
(* gets its lists from those it had or from Redis, and loses none of the   *)
(* indexed placements.                                                     *)
LEMMA ServerKept ==
  ASSUME DistInv, [Next]_storeVars, NEW s \in Servers, base'[s] = base[s], Lifecycle(s)',
         ListsFrom(s),
         \A p \in Placements :
           mode'[s] # "down" =>
             /\ mode[s] # "down"
             /\ entries[s][p] # NoSnapshot \/ Ahead(s, p) =>
                  entries'[s][p] # NoSnapshot \/ Ahead(s, p)' \/ p \notin index
  PROVE  ServerInv(s)'
<1>0. ServerInv(s)
  BY DEF DistInv
<1>1. ListsRecent(s)'
  <2>1. ASSUME NEW p \in Placements, NEW list \in Lists, Holds(s, p, list)'
        PROVE  Recent(list, s, p)'
    <3>1. Recent(list, s, p)
      BY <1>0, <2>1, FetchRecent DEF ServerInv, ListsRecent, ListsFrom
    <3>. QED  BY <3>1, RecentStable
  <2>. QED  BY <2>1 DEF ListsRecent
<1>2. BasePast(s)'
  <2>1. version \in [Keys -> Nat] /\ version' \in [Keys -> Nat]
    <3>1. StoreInv /\ StoreInv'
      BY StoreInvStep DEF DistInv
    <3>. QED  BY <3>1, StoreTypes, StoreAssumption DEF StoreInv, TypeOK
  <2>2. \A k \in Keys : version'[k] >= version[k]
    BY StepGoverned DEF DistInv, Governed
  <2>3. \A k \in Keys : base[s][k] \in Nat
    BY DEF DistInv, DistTypeOK
  <2>. QED  BY <1>0, <2>1, <2>2, <2>3 DEF ServerInv, BasePast
<1>3. WarmCovers(s)'
  <2>1. ASSUME NEW p \in Placements, NEW b \in BidIDs, mode'[s] # "down",
               base'[s][<<p, b>>] # 0
        PROVE  entries'[s][p] # NoSnapshot \/ Ahead(s, p)'
    <3>1. <<p, b>> \in Keys /\ <<p, b>>[1] = p
      BY DEF Keys
    <3>2. version[<<p, b>>] # 0
      <4>1. version[<<p, b>>] \in Nat /\ base[s][<<p, b>>] \in Nat
            /\ base[s][<<p, b>>] <= version[<<p, b>>]
        BY <1>0, <3>1, StoreTypes DEF ServerInv, BasePast, DistInv, DistTypeOK
      <4>. QED  BY <2>1, <4>1
    <3>3. p \in index
      BY <3>1, <3>2 DEF DistInv, StoreInv, IndexedBeforeWritten
    <3>4. entries[s][p] # NoSnapshot \/ Ahead(s, p)
      BY <1>0, <2>1 DEF ServerInv, WarmCovers
    <3>. QED  BY <2>1, <3>3, <3>4
  <2>. QED  BY <2>1 DEF WarmCovers
<1>. QED  BY <1>1, <1>2, <1>3 DEF ServerInv

(* A step elsewhere: at most an invalidation arrives.                      *)
Undisturbed(s) ==
  /\ mode'[s] = mode[s] /\ entries'[s] = entries[s] /\ task'[s] = task[s]
  /\ rec'[s] = rec[s] /\ sub'[s] = sub[s] /\ base'[s] = base[s]
  /\ queue'[s] = queue[s] \/ sub[s]

LEMMA UndisturbedKept ==
  ASSUME DistInv, [Next]_storeVars, NEW s \in Servers, Undisturbed(s)
  PROVE  ServerInv(s)' /\ ListsFrom(s)
<1>1. Lifecycle(s)'
  BY DEF DistInv, ServerInv, Lifecycle, Undisturbed
<1>2. ListsFrom(s)
  BY DEF ListsFrom, Holds, Undisturbed
<1>3. \A p \in Placements : Ahead(s, p)' <=> Ahead(s, p)
  BY DEF Ahead, Undisturbed
<1>. QED  BY <1>1, <1>2, <1>3, ServerKept DEF Undisturbed

-----------------------------------------------------------------------------
(* One lemma per kind of step; what it shows, for a step of server s:      *)
Others(s) == \A t \in Servers : t # s => Undisturbed(t)
Kept(s) == CacheType' /\ Others(s) /\ ServerInv(s)' /\ ListsFrom(s)

LEMMA LostKept ==
  ASSUME DistInv, [Next]_storeVars, NEW s \in Servers, Lost(s), UNCHANGED base,
         crashes' \in 0..MaxCrashes
  PROVE  Kept(s)
<1>0. CacheType
  BY TypeParts DEF DistInv
<1>1. CacheType'
  BY <1>0, IdleTypes DEF CacheType, Lost
<1>2. Others(s)
  BY <1>0 DEF CacheType, Lost, Others, Undisturbed
<1>3. /\ mode'[s] = "down" /\ rec'[s] = IdleRec /\ ~sub'[s] /\ queue'[s] = <<>>
      /\ \A p \in Placements : entries'[s][p] = NoSnapshot /\ task'[s][p] = IdleTask
  BY <1>0 DEF CacheType, Lost
<1>4. Lifecycle(s)'
  BY <1>3 DEF Lifecycle, IdleRec, IdleTask
<1>5. ListsFrom(s)
  BY <1>3 DEF ListsFrom, Holds, IdleRec, IdleTask
<1>6. ServerInv(s)'
  BY <1>3, <1>4, <1>5, ServerKept
<1>. QED  BY <1>1, <1>2, <1>6, <1>5 DEF Kept

LEMMA BootKept ==
  ASSUME DistInv, NEW s \in Servers, Boot(s)
  PROVE  Kept(s)
<1>0. CacheType /\ ServerInv(s) /\ version \in [Keys -> Nat]
  BY TypeParts, StoreTypes DEF DistInv
<1>1. CacheType'
  <2>1. [rec[s] EXCEPT !.at = "list"] \in Recs
    BY <1>0, RecMoves DEF CacheType
  <2>. QED  BY <1>0, <2>1 DEF CacheType, Boot
<1>2. Others(s)
  BY <1>0 DEF CacheType, Boot, Others, Undisturbed
<1>3. /\ mode[s] = "down" /\ mode'[s] = "warming" /\ rec'[s].at = "list"
      /\ base'[s] = version /\ UNCHANGED <<entries, task, sub, queue, version>>
  BY <1>0 DEF Boot, CacheType, Recs, storeVars
<1>4. \A p \in Placements : entries[s][p] = NoSnapshot /\ task[s][p].at = "idle"
  BY <1>0, <1>3 DEF ServerInv, Lifecycle
<1>5. Lifecycle(s)'
  BY <1>0, <1>3 DEF ServerInv, Lifecycle
<1>6. ListsRecent(s)'
  BY <1>3, <1>4 DEF ListsRecent, Holds
<1>7. BasePast(s)'
  BY <1>0, <1>3 DEF BasePast
<1>8. WarmCovers(s)'
  BY <1>3 DEF WarmCovers, Ahead
<1>9. ListsFrom(s)
  BY <1>3, <1>4 DEF ListsFrom, Holds
<1>. QED  BY <1>1, <1>2, <1>5, <1>6, <1>7, <1>8, <1>9 DEF Kept, ServerInv

(* RefreshAsync on a server that serves.                                   *)
LEMMA AsyncKept ==
  ASSUME DistInv, [Next]_storeVars, NEW s \in Servers, NEW p \in Placements,
         mode[s] = "up", RefreshAsync(s, p), queue' \in [Servers -> Seq(Placements)],
         UNCHANGED <<mode, entries, rec, sub, crashes, base>>,
         \A t \in Servers : t # s => queue'[t] = queue[t]
  PROVE  Kept(s)
<1>0. CacheType /\ ServerInv(s)
  BY TypeParts DEF DistInv
<1>1. [task[s][p] EXCEPT !.at = "fetch"] \in Tasks
  BY <1>0, TaskMoves DEF CacheType
<1>2. CacheType'
  <2>1. inflight' \in [Servers -> SUBSET Placements]
    <3>1. UNCHANGED inflight \/ inflight' = [inflight EXCEPT ![s] = @ \cup {p}]
      BY DEF RefreshAsync
    <3>2. inflight[s] \cup {p} \in SUBSET Placements
      BY <1>0 DEF CacheType
    <3>. QED  BY <1>0, <3>1, <3>2 DEF CacheType
  <2>2. task' \in [Servers -> [Placements -> Tasks]]
    <3>1. UNCHANGED task
          \/ task' = [task EXCEPT ![s][p] = [task[s][p] EXCEPT !.at = "fetch"]]
      BY DEF RefreshAsync
    <3>2. [task EXCEPT ![s][p] = [task[s][p] EXCEPT !.at = "fetch"]]
            \in [Servers -> [Placements -> Tasks]]
      BY <1>0, <1>1, TaskPut
    <3>. QED  BY <1>0, <3>1, <3>2 DEF CacheType
  <2>. QED  BY <1>0, <2>1, <2>2 DEF CacheType
<1>3. Others(s)
  BY <1>0 DEF CacheType, RefreshAsync, Others, Undisturbed
<1>4. \A q \in Placements : task'[s][q] = task[s][q] \/ task'[s][q].at = "fetch"
  BY <1>0 DEF CacheType, RefreshAsync, Tasks
<1>5. Lifecycle(s)'
  BY <1>0 DEF ServerInv, Lifecycle
<1>6. ListsFrom(s)
  BY <1>4 DEF ListsFrom, Holds
<1>7. \A q \in Placements : Ahead(s, q)' <=> Ahead(s, q)
  BY DEF Ahead
<1>8. ServerInv(s)'
  BY <1>5, <1>6, <1>7, ServerKept
<1>. QED  BY <1>2, <1>3, <1>8, <1>6 DEF Kept

LEMMA TickKept ==
  ASSUME DistInv, NEW s \in Servers, Tick(s)
  PROVE  Kept(s)
<1>0. CacheType /\ ServerInv(s) /\ [Next]_storeVars
  BY TypeParts DEF DistInv, Tick
<1>1. [rec[s] EXCEPT !.at = "list"] \in Recs
  BY <1>0, RecMoves DEF CacheType
<1>2. CacheType'
  BY <1>0, <1>1 DEF CacheType, Tick
<1>3. Others(s)
  BY <1>0 DEF CacheType, Tick, Others, Undisturbed
<1>4. mode[s] = "up" /\ rec'[s].at = "list"
      /\ UNCHANGED <<mode, entries, task, sub, queue, base>>
  BY <1>0 DEF Tick, CacheType, Recs
<1>5. Lifecycle(s)'
  BY <1>0, <1>4 DEF ServerInv, Lifecycle
<1>6. ListsFrom(s)
  BY <1>4 DEF ListsFrom, Holds
<1>7. \A p \in Placements : ~Ahead(s, p)
  BY <1>4 DEF Ahead
<1>8. ServerInv(s)'
  BY <1>0, <1>4, <1>5, <1>6, <1>7, ServerKept
<1>. QED  BY <1>2, <1>3, <1>8, <1>6 DEF Kept

LEMMA SubscribeKept ==
  ASSUME DistInv, NEW s \in Servers, Subscribe(s)
  PROVE  Kept(s)
<1>0. CacheType /\ ServerInv(s) /\ [Next]_storeVars
  BY TypeParts DEF DistInv, Subscribe
<1>1. CacheType'
  BY <1>0 DEF CacheType, Subscribe
<1>2. Others(s)
  BY <1>0 DEF CacheType, Subscribe, Others, Undisturbed
<1>3. mode[s] = "up" /\ UNCHANGED <<mode, entries, task, rec, queue, base>>
  BY DEF Subscribe
<1>4. Lifecycle(s)'
  BY <1>0, <1>3 DEF ServerInv, Lifecycle
<1>5. ListsFrom(s)
  BY <1>3 DEF ListsFrom, Holds
<1>6. \A p \in Placements : ~Ahead(s, p)
  BY <1>3 DEF Ahead
<1>7. ServerInv(s)'
  BY <1>0, <1>3, <1>4, <1>5, <1>6, ServerKept
<1>. QED  BY <1>1, <1>2, <1>7, <1>5 DEF Kept

LEMMA MessageKept ==
  ASSUME DistInv, NEW s \in Servers, HandleMessage(s)
  PROVE  Kept(s)
<1>0. CacheType /\ ServerInv(s) /\ [Next]_storeVars
  BY TypeParts DEF DistInv, HandleMessage
<1>1. queue[s] \in Seq(Placements) /\ queue[s] # <<>>
  BY <1>0 DEF CacheType, HandleMessage
<1>2. Head(queue[s]) \in Placements /\ Tail(queue[s]) \in Seq(Placements)
  BY <1>1
<1>3. mode[s] = "up"
  BY <1>0, <1>1 DEF ServerInv, Lifecycle, CacheType
<1>4. queue' \in [Servers -> Seq(Placements)] /\ \A t \in Servers : t # s => queue'[t] = queue[t]
  BY <1>0, <1>2 DEF CacheType, HandleMessage
<1>. QED  BY <1>0, <1>2, <1>3, <1>4, AsyncKept DEF HandleMessage

LEMMA AuctionKept ==
  ASSUME DistInv, NEW s \in Servers, NEW p \in Placements, Auction(s, p)
  PROVE  Kept(s)
<1>0. CacheType /\ [Next]_storeVars
  BY TypeParts DEF DistInv, Auction
<1>1. queue' \in [Servers -> Seq(Placements)] /\ \A t \in Servers : queue'[t] = queue[t]
  BY <1>0 DEF CacheType, Auction
<1>. QED  BY <1>0, <1>1, AsyncKept DEF Auction

-----------------------------------------------------------------------------
(* Reconcile goes on with the placements that are left.                    *)
LEMMA ContinueEffect ==
  ASSUME CacheType, NEW s \in Servers, NEW todo \in SUBSET Placements, Continue(s, todo)
  PROVE  /\ rec' \in [Servers -> Recs] /\ mode' \in [Servers -> {"down", "warming", "up"}]
         /\ \A t \in Servers : t # s => rec'[t] = rec[t] /\ mode'[t] = mode[t]
         /\ \/ todo = {} /\ rec'[s].at = "idle" /\ mode'[s] = "up"
            \/ /\ todo # {} /\ rec'[s].at = "fetch" /\ rec'[s].todo = todo
               /\ mode'[s] = mode[s]
<1>1. CASE todo = {}
  <2>1. rec' = [rec EXCEPT ![s] = IdleRec] /\ mode' = [mode EXCEPT ![s] = "up"]
    BY <1>1 DEF Continue
  <2>2. IdleRec \in Recs /\ IdleRec.at = "idle"
    BY IdleTypes DEF IdleRec
  <2>. QED  BY <1>1, <2>1, <2>2 DEF CacheType
<1>2. CASE todo # {}
  <2>1. [at |-> "fetch", todo |-> todo, list |-> NoList] \in Recs
    BY IdleTypes DEF Recs
  <2>. QED  BY <1>2, <2>1 DEF Continue, CacheType
<1>. QED  BY <1>1, <1>2

LEMMA ListKept ==
  ASSUME DistInv, NEW s \in Servers, ListOK(s)
  PROVE  Kept(s)
<1>0. CacheType /\ ServerInv(s) /\ [Next]_storeVars /\ index \in SUBSET Placements
  BY TypeParts, StoreTypes DEF DistInv, ListOK
<1>1. /\ rec' \in [Servers -> Recs] /\ mode' \in [Servers -> {"down", "warming", "up"}]
      /\ \A t \in Servers : t # s => rec'[t] = rec[t] /\ mode'[t] = mode[t]
      /\ \/ index = {} /\ rec'[s].at = "idle" /\ mode'[s] = "up"
         \/ /\ index # {} /\ rec'[s].at = "fetch" /\ rec'[s].todo = index
            /\ mode'[s] = mode[s]
  BY <1>0, ContinueEffect DEF ListOK
<1>2. rec[s].at = "list" /\ UNCHANGED <<entries, inflight, task, sub, queue, crashes, base>>
  BY DEF ListOK
<1>3. mode[s] \in {"warming", "up"}
  BY <1>0, <1>2 DEF ServerInv, Lifecycle, CacheType
<1>4. CacheType'
  BY <1>0, <1>1, <1>2 DEF CacheType
<1>5. Others(s)
  BY <1>1, <1>2 DEF Others, Undisturbed
<1>6. Lifecycle(s)'
  BY <1>0, <1>1, <1>2, <1>3 DEF ServerInv, Lifecycle
<1>7. ListsFrom(s)
  BY <1>1, <1>2 DEF ListsFrom, Holds
<1>8. \A p \in Placements : entries[s][p] # NoSnapshot \/ Ahead(s, p) =>
        entries'[s][p] # NoSnapshot \/ Ahead(s, p)' \/ p \notin index
  BY <1>1, <1>2, <1>3 DEF Ahead
<1>9. ServerInv(s)'
  BY <1>0, <1>2, <1>3, <1>6, <1>7, <1>8, ServerKept
<1>. QED  BY <1>4, <1>5, <1>9, <1>7 DEF Kept

LEMMA RecFetchKept ==
  ASSUME DistInv, NEW s \in Servers, NEW p \in Placements, RecFetchOK(s, p)
  PROVE  Kept(s)
<1>0. CacheType /\ ServerInv(s) /\ [Next]_storeVars /\ Fetch(p) \in Lists
  BY TypeParts, FetchRecent DEF DistInv, RecFetchOK
<1>1. PICK l \in Lists : l = Fetch(p)
  BY <1>0
<1>2. rec[s] \in Recs /\ rec \in [Servers -> Recs]
  BY <1>0 DEF CacheType
<1>3. /\ rec[s].at = "fetch" /\ p = Min(rec[s].todo)
      /\ rec' = [rec EXCEPT ![s].at = "store", ![s].list = l]
      /\ UNCHANGED <<mode, entries, inflight, task, sub, queue, crashes, base>>
  BY <1>1 DEF RecFetchOK
<1>4. rec'[s] = [at |-> "store", todo |-> rec[s].todo, list |-> l]
  BY <1>2, <1>3 DEF Recs
<1>5. rec' \in [Servers -> Recs] /\ \A t \in Servers : t # s => rec'[t] = rec[t]
  <2>1. rec'[s] \in Recs
    BY <1>2, <1>4 DEF Recs
  <2>2. rec' = [t \in Servers |-> rec'[t]] /\ \A t \in Servers : t # s => rec'[t] = rec[t]
    BY <1>2, <1>3
  <2>. QED  BY <1>2, <2>1, <2>2
<1>6. rec'[s].at = "store" /\ rec'[s].todo = rec[s].todo /\ rec'[s].list = l
  BY <1>4
<1>7. CacheType'
  BY <1>0, <1>3, <1>5 DEF CacheType
<1>8. Others(s)
  BY <1>3, <1>5 DEF Others, Undisturbed
<1>9. Lifecycle(s)'
  BY <1>0, <1>3, <1>6 DEF ServerInv, Lifecycle
<1>10. ListsFrom(s)
  BY <1>1, <1>3, <1>6 DEF ListsFrom, Holds
<1>11. \A q \in Placements : Ahead(s, q) => Ahead(s, q)'
  BY <1>3, <1>6 DEF Ahead
<1>12. mode[s] # "down"
  BY <1>0, <1>3 DEF ServerInv, Lifecycle
<1>13. ServerInv(s)'
  BY <1>0, <1>3, <1>9, <1>10, <1>11, <1>12, ServerKept
<1>. QED  BY <1>7, <1>8, <1>13, <1>10 DEF Kept

LEMMA RecStoreKept ==
  ASSUME DistInv, NEW s \in Servers, RecStore(s)
  PROVE  Kept(s)
<1>0. CacheType /\ ServerInv(s) /\ [Next]_storeVars
  BY TypeParts DEF DistInv, RecStore
<1>1. rec[s].at = "store" /\ rec[s].todo \in SUBSET Placements /\ rec[s].todo # {}
      /\ rec[s].list \in Lists /\ mode[s] \in {"warming", "up"}
  BY <1>0 DEF RecStore, CacheType, Recs, ServerInv, Lifecycle
<1>2. PICK p \in rec[s].todo : p = Min(rec[s].todo)
  BY <1>1, MinLeft, DistributionAssumption
<1>3. p \in Placements /\ rec[s].todo \ {p} \in SUBSET Placements
  BY <1>1
<1>. PICK x : x = [list |-> rec[s].list, stale |-> FALSE]
  OBVIOUS
<1>4. x \in Snapshots /\ x.list = rec[s].list
  BY <1>1 DEF Snapshots
<1>5. /\ entries' = [entries EXCEPT ![s][p] = x]
      /\ Continue(s, rec[s].todo \ {p})
      /\ UNCHANGED <<inflight, task, sub, queue, crashes, base>>
  BY <1>2 DEF RecStore
<1>6. /\ rec' \in [Servers -> Recs] /\ mode' \in [Servers -> {"down", "warming", "up"}]
      /\ \A t \in Servers : t # s => rec'[t] = rec[t] /\ mode'[t] = mode[t]
      /\ \/ rec[s].todo \ {p} = {} /\ rec'[s].at = "idle" /\ mode'[s] = "up"
         \/ /\ rec[s].todo \ {p} # {} /\ rec'[s].at = "fetch"
            /\ rec'[s].todo = rec[s].todo \ {p} /\ mode'[s] = mode[s]
  BY <1>0, <1>3, <1>5, ContinueEffect
<1>7. /\ entries' \in [Servers -> [Placements -> Snapshots \cup {NoSnapshot}]]
      /\ x # NoSnapshot
  BY <1>0, <1>3, <1>4, <1>5, EntryPut
<1>8. /\ entries'[s][p] = x
      /\ \A q \in Placements : q # p => entries'[s][q] = entries[s][q]
      /\ \A t \in Servers : t # s => entries'[t] = entries[t]
  BY <1>0, <1>3, <1>5 DEF CacheType
<1>9. CacheType'
  BY <1>0, <1>5, <1>6, <1>7 DEF CacheType
<1>10. Others(s)
  BY <1>5, <1>6, <1>8 DEF Others, Undisturbed
<1>11. Lifecycle(s)'
  BY <1>0, <1>1, <1>5, <1>6 DEF ServerInv, Lifecycle
<1>12. ListsFrom(s)
  BY <1>1, <1>2, <1>4, <1>5, <1>6, <1>8 DEF ListsFrom, Holds
<1>13. \A q \in Placements : entries[s][q] # NoSnapshot \/ Ahead(s, q) =>
         entries'[s][q] # NoSnapshot \/ Ahead(s, q)'
  BY <1>1, <1>6, <1>7, <1>8 DEF Ahead
<1>14. ServerInv(s)'
  BY <1>0, <1>1, <1>5, <1>11, <1>12, <1>13, ServerKept
<1>. QED  BY <1>9, <1>10, <1>14, <1>12 DEF Kept

LEMMA RecFailKept ==
  ASSUME DistInv, NEW s \in Servers, RecFail(s)
  PROVE  Kept(s)
<1>0. CacheType /\ ServerInv(s) /\ [Next]_storeVars
  BY TypeParts DEF DistInv, RecFail
<1>1. CASE mode[s] = "warming"
  <2>1. Lost(s) /\ UNCHANGED <<crashes, base>>
    BY <1>1 DEF RecFail
  <2>2. crashes' \in 0..MaxCrashes
    BY <1>0, <2>1 DEF CacheType
  <2>. QED  BY <1>0, <2>1, <2>2, LostKept
<1>2. CASE mode[s] # "warming"
  <2>1. /\ rec' = [rec EXCEPT ![s] = IdleRec] /\ rec[s].at # "idle"
        /\ UNCHANGED <<mode, entries, inflight, task, sub, queue, crashes, base>>
    BY <1>2 DEF RecFail
  <2>2. mode[s] = "up"
    BY <1>0, <1>2, <2>1 DEF ServerInv, Lifecycle, CacheType
  <2>3. CacheType'
    BY <1>0, <2>1, IdleTypes DEF CacheType
  <2>4. Others(s)
    BY <1>0, <2>1 DEF CacheType, Others, Undisturbed
  <2>5. rec'[s] = IdleRec
    BY <1>0, <2>1 DEF CacheType
  <2>6. Lifecycle(s)'
    BY <2>1, <2>2, <2>5 DEF Lifecycle, IdleRec
  <2>7. ListsFrom(s)
    BY <2>1, <2>5 DEF ListsFrom, Holds, IdleRec
  <2>8. \A p \in Placements : ~Ahead(s, p)
    BY <2>2 DEF Ahead
  <2>9. ServerInv(s)'
    BY <1>0, <2>1, <2>2, <2>6, <2>7, <2>8, ServerKept
  <2>. QED  BY <2>3, <2>4, <2>9, <2>7 DEF Kept
<1>. QED  BY <1>1, <1>2

-----------------------------------------------------------------------------
(* An asynchronous refresh that does not touch the snapshot.               *)
LEMMA TaskKept ==
  ASSUME DistInv, NEW s \in Servers, NEW p \in Placements, NEW x \in Tasks,
         [Next]_storeVars, task' = [task EXCEPT ![s][p] = x], task[s][p].at # "idle",
         x.at = "store" => x.list = Fetch(p), inflight' \in [Servers -> SUBSET Placements],
         UNCHANGED <<mode, entries, rec, sub, queue, crashes, base>>
  PROVE  Kept(s)
<1>0. CacheType /\ ServerInv(s)
  BY TypeParts DEF DistInv
<1>1. task' \in [Servers -> [Placements -> Tasks]]
  BY <1>0, TaskPut
<1>2. task'[s][p] = x /\ (\A q \in Placements : q # p => task'[s][q] = task[s][q])
      /\ \A t \in Servers : t # s => task'[t] = task[t]
  BY <1>0 DEF CacheType
<1>3. CacheType'
  BY <1>0, <1>1 DEF CacheType
<1>4. Others(s)
  BY <1>2 DEF Others, Undisturbed
<1>5. mode[s] = "up"
  BY <1>0 DEF ServerInv, Lifecycle
<1>6. Lifecycle(s)'
  BY <1>0, <1>5 DEF ServerInv, Lifecycle
<1>7. ListsFrom(s)
  BY <1>2 DEF ListsFrom, Holds
<1>8. \A q \in Placements : ~Ahead(s, q)
  BY <1>5 DEF Ahead
<1>9. ServerInv(s)'
  BY <1>5, <1>6, <1>7, <1>8, ServerKept
<1>. QED  BY <1>3, <1>4, <1>9, <1>7 DEF Kept

LEMMA RefreshKept ==
  ASSUME DistInv, NEW s \in Servers, NEW p \in Placements,
         FetchOK(s, p) \/ FetchFail(s, p) \/ Release(s, p)
  PROVE  Kept(s)
<1>0. CacheType /\ [Next]_storeVars /\ Fetch(p) \in Lists
      /\ inflight \in [Servers -> SUBSET Placements] /\ task[s][p] \in Tasks
  BY TypeParts, FetchRecent DEF DistInv, FetchOK, FetchFail, Release, CacheType
<1>1. CASE FetchOK(s, p)
  <2>1. PICK x \in Tasks : x = [at |-> "store", list |-> Fetch(p)]
    BY <1>0 DEF Tasks
  <2>. QED  BY <1>0, <1>1, <2>1, TaskKept DEF FetchOK
<1>2. CASE FetchFail(s, p)
  <2>1. PICK x \in Tasks : x = [task[s][p] EXCEPT !.at = "release"]
    BY <1>0, TaskMoves
  <2>2. x.at = "release"
    BY <1>0, <2>1 DEF Tasks
  <2>. QED  BY <1>0, <1>2, <2>1, <2>2, TaskKept DEF FetchFail
<1>3. CASE Release(s, p)
  <2>1. inflight' \in [Servers -> SUBSET Placements]
    <3>1. inflight[s] \ {p} \in SUBSET Placements
      BY <1>0
    <3>. QED  BY <1>0, <1>3, <3>1 DEF Release
  <2>2. IdleTask \in Tasks /\ IdleTask.at = "idle"
    BY IdleTypes DEF IdleTask
  <2>. QED  BY <1>0, <1>3, <2>1, <2>2, TaskKept DEF Release
<1>. QED  BY <1>1, <1>2, <1>3

(* The snapshot of one placement is replaced, or becomes stale.            *)
LEMMA EntryKept ==
  ASSUME DistInv, NEW s \in Servers, NEW p \in Placements, NEW x \in Snapshots,
         [Next]_storeVars, entries' = [entries EXCEPT ![s][p] = x], Holds(s, p, x.list),
         task' \in [Servers -> [Placements -> Tasks]],
         \A t \in Servers : t # s => task'[t] = task[t],
         \A q \in Placements : task'[s][q] = task[s][q]
           \/ (task[s][q].at # "idle" /\ task'[s][q].at = "release"),
         UNCHANGED <<mode, inflight, rec, sub, queue, crashes, base>>
  PROVE  Kept(s)
<1>0. CacheType /\ ServerInv(s)
  BY TypeParts DEF DistInv
<1>1. entries' \in [Servers -> [Placements -> Snapshots \cup {NoSnapshot}]] /\ x # NoSnapshot
  BY <1>0, EntryPut
<1>2. entries'[s][p] = x /\ (\A q \in Placements : q # p => entries'[s][q] = entries[s][q])
      /\ \A t \in Servers : t # s => entries'[t] = entries[t]
  BY <1>0 DEF CacheType
<1>3. CacheType'
  BY <1>0, <1>1 DEF CacheType
<1>4. Others(s)
  BY <1>2 DEF Others, Undisturbed
<1>5. mode[s] # "down"
  BY <1>0 DEF ServerInv, Lifecycle, Holds
<1>6. Lifecycle(s)'
  BY <1>0, <1>5 DEF ServerInv, Lifecycle
<1>7. ListsFrom(s)
  BY <1>2 DEF ListsFrom, Holds
<1>8. \A q \in Placements : entries[s][q] # NoSnapshot \/ Ahead(s, q) =>
        entries'[s][q] # NoSnapshot \/ Ahead(s, q)'
  BY <1>1, <1>2 DEF Ahead
<1>9. ServerInv(s)'
  BY <1>5, <1>6, <1>7, <1>8, ServerKept
<1>. QED  BY <1>3, <1>4, <1>9, <1>7 DEF Kept

LEMMA StoreKept ==
  ASSUME DistInv, NEW s \in Servers, NEW p \in Placements, Store(s, p)
  PROVE  Kept(s)
<1>0. CacheType /\ [Next]_storeVars
  BY TypeParts DEF DistInv, Store
<1>1. task[s][p].list \in Lists /\ task[s][p].at = "store"
  BY <1>0 DEF CacheType, Tasks, Store
<1>2. PICK x \in Snapshots : x = [list |-> task[s][p].list, stale |-> FALSE]
  BY <1>1 DEF Snapshots
<1>3. Holds(s, p, x.list)
  BY <1>1, <1>2 DEF Holds
<1>4. PICK y \in Tasks : y = [at |-> "release", list |-> NoList]
  BY IdleTypes DEF Tasks
<1>5. task' = [task EXCEPT ![s][p] = y]
  BY <1>4 DEF Store
<1>6. task' \in [Servers -> [Placements -> Tasks]]
  BY <1>0, <1>4, <1>5, TaskPut
<1>7. task'[s][p] = y /\ (\A q \in Placements : q # p => task'[s][q] = task[s][q])
      /\ \A t \in Servers : t # s => task'[t] = task[t]
  BY <1>0, <1>5 DEF CacheType
<1>8. \A q \in Placements : task'[s][q] = task[s][q]
        \/ (task[s][q].at # "idle" /\ task'[s][q].at = "release")
  BY <1>1, <1>4, <1>7
<1>. QED  BY <1>0, <1>2, <1>3, <1>6, <1>7, <1>8, EntryKept DEF Store

LEMMA AgeKept ==
  ASSUME DistInv, NEW s \in Servers, NEW p \in Placements, Age(s, p)
  PROVE  Kept(s)
<1>0. CacheType /\ [Next]_storeVars /\ entries[s][p] # NoSnapshot
      /\ UNCHANGED <<mode, inflight, task, rec, sub, queue, crashes, base>>
  BY TypeParts DEF DistInv, Age
<1>1. entries[s][p] \in Snapshots /\ task \in [Servers -> [Placements -> Tasks]]
  BY <1>0 DEF CacheType
<1>2. PICK x \in Snapshots : x = [entries[s][p] EXCEPT !.stale = TRUE]
  BY <1>1 DEF Snapshots
<1>3. x.list = entries[s][p].list
  BY <1>1, <1>2 DEF Snapshots
<1>4. Holds(s, p, x.list)
  BY <1>0, <1>3 DEF Holds
<1>5. entries' = [entries EXCEPT ![s][p] = x]
  BY <1>2 DEF Age
<1>. QED  BY <1>0, <1>1, <1>4, <1>5, EntryKept

(* An invalidation reaches some of the open subscriptions.                 *)
LEMMA DeliverKept ==
  ASSUME DistInv, NEW p \in Placements, Deliver(p),
         UNCHANGED <<mode, entries, inflight, task, rec, sub, crashes, base>>
  PROVE  CacheType' /\ \A s \in Servers : Undisturbed(s)
<1>0. CacheType
  BY TypeParts DEF DistInv
<1>1. PICK R \in SUBSET {s \in Servers : sub[s]} :
        queue' = [s \in Servers |-> IF s \in R THEN Append(queue[s], p) ELSE queue[s]]
  BY DEF Deliver
<1>2. \A s \in Servers : queue[s] \in Seq(Placements) /\ Append(queue[s], p) \in Seq(Placements)
  BY <1>0 DEF CacheType
<1>3. queue' \in [Servers -> Seq(Placements)]
  BY <1>1, <1>2
<1>4. CacheType'
  BY <1>0, <1>3 DEF CacheType
<1>5. \A s \in Servers : Undisturbed(s)
  BY <1>1 DEF Undisturbed
<1>. QED  BY <1>4, <1>5

LEMMA AnswerKept ==
  ASSUME DistInv, NEW h \in Handlers, Answer(h)
  PROVE  CacheType' /\ (Home[h] \in Servers => Kept(Home[h]))
         /\ (Home[h] \notin Servers => \A s \in Servers : Undisturbed(s))
<1>0. CacheType /\ req[h].placement \in Placements
  BY TypeParts, StoreTypes DEF DistInv
<1>1. [Next]_storeVars
  BY DEF Answer, Next, HandlerStep
<1>2. CASE Home[h] \in Servers
  <2>1. mode[Home[h]] = "up" /\ RefreshAsync(Home[h], req[h].placement)
        /\ UNCHANGED <<mode, entries, rec, sub, queue, crashes, base>>
    BY <1>2 DEF Answer, Serving
  <2>2. queue' \in [Servers -> Seq(Placements)] /\ \A t \in Servers : queue'[t] = queue[t]
    BY <1>0, <2>1 DEF CacheType
  <2>3. PICK s \in Servers : s = Home[h]
    BY <1>2
  <2>4. PICK p \in Placements : p = req[h].placement
    BY <1>0
  <2>5. Kept(s)
    BY <1>1, <2>1, <2>2, <2>3, <2>4, AsyncKept
  <2>. QED  BY <1>2, <2>3, <2>5 DEF Kept
<1>3. CASE Home[h] \notin Servers
  <2>1. UNCHANGED cacheVars
    BY <1>3 DEF Answer, cacheVars
  <2>. QED  BY <1>0, <1>3, <2>1 DEF CacheType, cacheVars, Undisturbed
<1>. QED  BY <1>2, <1>3

-----------------------------------------------------------------------------
LEMMA DistInvInit == DistInit => DistInv
<1>. SUFFICES ASSUME DistInit PROVE DistInv
  OBVIOUS
<1>1. StoreInv
  BY StoreInvInit DEF DistInit
<1>2. CacheType
  BY IdleTypes, DistributionAssumption DEF DistInit, CacheType
<1>3. DistTypeOK
  BY <1>1, <1>2, TypeParts DEF StoreInv
<1>4. ASSUME NEW s \in Servers PROVE ServerInv(s)
  <2>1. Lifecycle(s)
    BY DEF DistInit, Lifecycle, IdleRec, IdleTask
  <2>2. ListsRecent(s)
    BY DEF DistInit, ListsRecent, Holds, IdleRec, IdleTask
  <2>3. BasePast(s)
    BY DEF DistInit, Init, BasePast
  <2>4. WarmCovers(s)
    BY DEF DistInit, WarmCovers
  <2>. QED  BY <2>1, <2>2, <2>3, <2>4 DEF ServerInv
<1>. QED  BY <1>1, <1>3, <1>4 DEF DistInv

LEMMA DistInvStep ==
  ASSUME DistInv, [DistNext]_vars
  PROVE  DistInv' /\ \A s \in Servers : ListsFrom(s)
<1>. DEFINE Done == DistInv' /\ \A s \in Servers : ListsFrom(s)
<1>. SUFFICES Done
  OBVIOUS
<1>0. CacheType /\ [Next]_storeVars /\ StoreInv'
  BY TypeParts, StoreStep, StoreInvStep DEF DistInv
<1>a. ASSUME CacheType', \A s \in Servers : ServerInv(s)' /\ ListsFrom(s) PROVE Done
  <2>1. DistTypeOK' <=> TypeOK' /\ CacheType'
    BY DEF DistTypeOK, CacheType, Tasks, Recs
  <2>. QED  BY <1>0, <1>a, <2>1 DEF DistInv, StoreInv
<1>b. ASSUME NEW s \in Servers, Kept(s) PROVE Done
  <2>1. \A t \in Servers : t # s => ServerInv(t)' /\ ListsFrom(t)
    BY <1>0, <1>b, UndisturbedKept DEF Kept, Others
  <2>. QED  BY <1>a, <1>b, <2>1 DEF Kept
<1>c. ASSUME CacheType', \A s \in Servers : Undisturbed(s) PROVE Done
  <2>1. \A s \in Servers : ServerInv(s)' /\ ListsFrom(s)
    BY <1>0, <1>c, UndisturbedKept
  <2>. QED  BY <1>a, <1>c, <2>1
<1>d. CASE UNCHANGED cacheVars
  BY <1>0, <1>c, <1>d DEF CacheType, cacheVars, Undisturbed
<1>1. ASSUME NEW s \in Servers, CrashServer(s) PROVE Kept(s)
  <2>1. Lost(s) /\ UNCHANGED base /\ crashes < MaxCrashes /\ crashes' = crashes + 1
    BY <1>1 DEF CrashServer
  <2>2. crashes' \in 0..MaxCrashes
    BY <1>0, <2>1, DistributionAssumption DEF CacheType
  <2>. QED  BY <1>0, <2>1, <2>2, LostKept
<1>2. ASSUME NEW s \in Servers, Boot(s) \/ Tick(s) \/ Subscribe(s) \/ HandleMessage(s)
      PROVE  Kept(s)
  BY <1>2, BootKept, TickKept, SubscribeKept, MessageKept
<1>3. ASSUME NEW s \in Servers, ReconcileStep(s) PROVE Kept(s)
  BY <1>3, ListKept, RecStoreKept, RecFailKept, RecFetchKept DEF ReconcileStep
<1>4. ASSUME NEW s \in Servers, NEW p \in Placements,
             RefreshStep(s, p) \/ Auction(s, p) \/ Age(s, p)
      PROVE  Kept(s)
  BY <1>4, RefreshKept, StoreKept, AuctionKept, AgeKept DEF RefreshStep
<1>5. ASSUME NEW h \in Handlers, HandlerCommand(h) PROVE Done
  BY <1>5, <1>d DEF HandlerCommand
<1>6. ASSUME NEW h \in Handlers,
             PublishInvalidation(h) \/ \E command \in Commands : Arrive(h, command)
      PROVE  Done
  <2>1. UNCHANGED <<mode, entries, inflight, task, rec, sub, crashes, base>>
        /\ (Deliver(req[h].placement) \/ UNCHANGED queue)
    BY <1>6 DEF PublishInvalidation, Arrive
  <2>2. CASE UNCHANGED queue
    BY <1>d, <2>1, <2>2 DEF cacheVars
  <2>3. CASE Deliver(req[h].placement)
    <3>1. PICK p \in Placements : p = req[h].placement
      BY StoreTypes DEF DistInv
    <3>. QED  BY <1>c, <2>1, <2>3, <3>1, DeliverKept
  <2>. QED  BY <2>1, <2>2, <2>3
<1>7. ASSUME NEW h \in Handlers, Answer(h) PROVE Done
  BY <1>7, <1>b, <1>c, AnswerKept
<1>8. CASE UNCHANGED vars
  BY <1>8, <1>d DEF vars
<1>. QED
  BY <1>b, <1>1, <1>2, <1>3, <1>4, <1>5, <1>6, <1>7, <1>8 DEF DistNext

(***************************************************************************)
(* The inductive invariant of the servers and the registry together: the   *)
(* lists that a server holds are sound and recent, and Warm leaves out no  *)
(* placement that had something when the server started.                   *)
(***************************************************************************)
THEOREM DistSafety == DistSpec => []DistInv
<1>1. DistInit => DistInv
  BY DistInvInit
<1>2. DistInv /\ [DistNext]_vars => DistInv'
  BY DistInvStep
<1>. QED  BY <1>1, <1>2, PTL DEF DistSpec

(* The caches, refreshes, subscriptions and queues of all servers keep     *)
(* their types.                                                            *)
THEOREM DistributionTypeOK == DistSpec => []DistTypeOK
<1>1. DistInv => DistTypeOK
  BY DEF DistInv
<1>. QED  BY <1>1, DistSafety, PTL

(***************************************************************************)
(* No snapshot that BidCache shows to an auction is ahead of Redis, or     *)
(* differs from it at the stored revision, whatever refreshes overlap.     *)
(***************************************************************************)
THEOREM SnapshotsAreSound == DistSpec => []SnapshotsSound
<1>1. DistInv => SnapshotsSound
  <2>. SUFFICES ASSUME DistInv, NEW s \in Servers, NEW p \in Placements,
                       entries[s][p] # NoSnapshot
                PROVE  Sound(entries[s][p].list, p)
    BY DEF SnapshotsSound
  <2>1. entries[s][p].list \in Lists
    BY DEF DistInv, DistTypeOK, Snapshots
  <2>2. Holds(s, p, entries[s][p].list)
    BY DEF Holds
  <2>3. Recent(entries[s][p].list, s, p)
    BY <2>1, <2>2 DEF DistInv, ServerInv, ListsRecent
  <2>. QED  BY <2>3 DEF Recent
<1>. QED  BY <1>1, DistSafety, PTL

(***************************************************************************)
(* A server that serves has loaded what was in Redis when its Warm began,  *)
(* and no later refresh brings back anything older.                        *)
(***************************************************************************)
THEOREM ServersNeverFallBehind == DistSpec => []NotOlderThanStart
<1>1. DistInv => NotOlderThanStart
  <2>. SUFFICES ASSUME DistInv, NEW s \in Servers, NEW p \in Placements, NEW b \in BidIDs,
                       mode[s] = "up", base[s][<<p, b>>] # 0
                PROVE  /\ entries[s][p] # NoSnapshot
                       /\ entries[s][p].list.asof[b] >= base[s][<<p, b>>]
    BY DEF NotOlderThanStart
  <2>1. entries[s][p] # NoSnapshot
    BY DEF DistInv, ServerInv, WarmCovers, Ahead
  <2>2. entries[s][p].list \in Lists
    BY <2>1 DEF DistInv, DistTypeOK, Snapshots
  <2>3. Holds(s, p, entries[s][p].list)
    BY <2>1 DEF Holds
  <2>4. Recent(entries[s][p].list, s, p)
    BY <2>2, <2>3 DEF DistInv, ServerInv, ListsRecent
  <2>. QED  BY <2>1, <2>4 DEF Recent
<1>. QED  BY <1>1, DistSafety, PTL

(***************************************************************************)
(* The servers use the registry only through its commands: whatever the    *)
(* caches, Pub/Sub and crashes of servers do, the registry behaves as      *)
(* RedisStore says, so that all that is proved about it holds here too.    *)
(***************************************************************************)
THEOREM DistributionRefinesStore == DistSpec => Spec
<1>1. DistInit => Init
  BY DEF DistInit
<1>2. [DistNext]_vars => [Next]_storeVars
  BY StoreStep
<1>. QED  BY <1>1, <1>2, PTL DEF DistSpec, Spec

(***************************************************************************)
(* Through any number of servers, with their crashes and restarts, clients *)
(* see the versioned register, while no two revisions in use are the same  *)
(* Lua number.                                                             *)
(***************************************************************************)
THEOREM ServersImplementRegister ==
  ASSUME ExactRevisions
  PROVE  DistSpec => ImplementsRegister
BY DistributionRefinesStore, StoreImplementsRegister, PTL

-----------------------------------------------------------------------------
LEMMA HeldMembers ==
  ASSUME NEW s \in Servers, NEW p \in Placements
  PROVE  \A list : list \in Held(s, p) <=> Holds(s, p, list)
BY DEF Held, Holds

(* Any two lists of a placement, of any servers, agree where their         *)
(* revisions do.                                                           *)
Alike(l, m) == \A b \in BidIDs : l.asof[b] = m.asof[b] => l.bids[b] = m.bids[b]

ListsAgree ==
  \A s, t \in Servers, p \in Placements, l, m \in Lists :
    Holds(s, p, l) /\ Holds(t, p, m) => Alike(l, m)

(* A list that was read before agrees with one that is read now.           *)
LEMMA FetchAgrees ==
  ASSUME DistInv, NEW s \in Servers, NEW p \in Placements, NEW l \in Lists, Holds(s, p, l)
  PROVE  Alike(l, Fetch(p)) /\ Alike(Fetch(p), l)
<1>1. Sound(l, p)
  BY DEF DistInv, ServerInv, ListsRecent, Recent
<1>. QED  BY <1>1 DEF Sound, Fetch, Alike

(***************************************************************************)
(* The caches of all servers, and the reads under way in them, show the    *)
(* same bid at the same revision.  A read agrees with every list that was  *)
(* read before because those are sound (DistInv), and from then on no step *)
(* changes a list: Store and Reconcile replace the whole snapshot.         *)
(***************************************************************************)
THEOREM SameRevisionIsSameBid == DistSpec => []SameRevisionSameBid
<1>1. DistInit => ListsAgree
  BY DEF DistInit, ListsAgree, Holds, IdleRec, IdleTask
<1>2. DistInv /\ ListsAgree /\ [DistNext]_vars => ListsAgree'
  <2>. SUFFICES ASSUME DistInv, ListsAgree, [DistNext]_vars,
                       NEW s \in Servers, NEW t \in Servers, NEW p \in Placements,
                       NEW l \in Lists, NEW m \in Lists,
                       Holds(s, p, l)', Holds(t, p, m)'
                PROVE  Alike(l, m)
    BY DEF ListsAgree, Alike
  <2>1. /\ Holds(s, p, l) \/ l = Fetch(p)
        /\ Holds(t, p, m) \/ m = Fetch(p)
    BY DistInvStep DEF ListsFrom
  <2>2. CASE Holds(s, p, l) /\ Holds(t, p, m)
    BY <2>2 DEF ListsAgree
  <2>3. CASE l = Fetch(p) /\ m = Fetch(p)
    BY <2>3 DEF Alike
  <2>4. CASE Holds(s, p, l) /\ m = Fetch(p)
    BY <2>4, FetchAgrees
  <2>5. CASE l = Fetch(p) /\ Holds(t, p, m)
    BY <2>5, FetchAgrees
  <2>. QED  BY <2>1, <2>2, <2>3, <2>4, <2>5
<1>3. DistInv /\ ListsAgree => SameRevisionSameBid
  <2>. SUFFICES ASSUME DistInv, ListsAgree, NEW s \in Servers, NEW t \in Servers,
                       NEW p \in Placements, NEW l \in Held(s, p), NEW m \in Held(t, p)
                PROVE  Alike(l, m)
    BY DEF SameRevisionSameBid, Alike
  <2>1. Holds(s, p, l) /\ Holds(t, p, m)
    BY HeldMembers
  <2>2. l \in Lists /\ m \in Lists
    BY <2>1 DEF DistInv, DistTypeOK, Holds, Snapshots
  <2>. QED  BY <2>1, <2>2 DEF ListsAgree
<1>. QED  BY <1>1, <1>2, <1>3, DistSafety, PTL DEF DistSpec
=============================================================================
