----------------------------- MODULE RedisStore -----------------------------
(***************************************************************************)
(* The versioned bid registry in Redis (internal/ads/store.go) and the two *)
(* HTTP handlers that mutate it (upsertBid and deleteBid of server.go).    *)
(*                                                                         *)
(* Redis keeps, for every placement, a hash of active bids and a hash of   *)
(* revisions, plus one set that indexes the placements.  A handler runs    *)
(* three commands in order: SADD on the index, the Lua script, PUBLISH.    *)
(* A command whose reply is lost is sent again, a bounded number of times; *)
(* the lost one may still reach Redis at any later moment, also after the  *)
(* handler has given up.                                                   *)
(***************************************************************************)
EXTENDS Naturals, FiniteSetsExt

CONSTANTS
  Placements,   \* placement IDs
  BidIDs,       \* bid IDs within a placement
  Contents,     \* what a bid says besides its ID and its revision
  Absent,       \* no bid: the content of a delete
  Revisions,    \* the revisions clients send, valid or not
  MaxRevision,  \* the largest revision validation accepts (MaxInt64)
  Precision,    \* bits in the significand of a Lua number (53)
  Handlers,     \* HTTP mutation requests
  Requests,     \* the mutations they may carry
  MaxRetries,   \* retries the Redis client makes by itself
  Cluster       \* whether the client talks to a Redis Cluster

Keys == Placements \X BidIDs

(***************************************************************************)
(* A mutation of one bid; a delete is the mutation to Absent.              *)
(***************************************************************************)
Mutations == [placement : Placements, id : BidIDs, rev : Revisions,
              content : Contents \cup {Absent}]

KeyOf(m) == <<m.placement, m.id>>

ASSUME StoreAssumption ==
  /\ Revisions \subseteq Nat
  /\ MaxRevision \in Nat
  /\ Requests \subseteq Mutations
  /\ Absent \notin Contents
  /\ Absent \notin [rev : Nat, content : Contents]
  /\ MaxRetries \in Nat
  /\ Cluster \in BOOLEAN

-----------------------------------------------------------------------------
(* Lua's tonumber: the nearest number with Precision significant bits, the *)
(* even one of two that are equally near.                                  *)

Ulp(r) == Min({2^k : k \in {j \in 0..r : r < 2^(Precision + j)}})

ToNumber(r) ==
  LET u == Ulp(r)
      q == r \div u
      rest == 2 * (r % u)
  IN  IF rest > u \/ (rest = u /\ q % 2 = 1) THEN (q + 1) * u ELSE q * u

ASSUME ToNumberAssumption ==
  \A r, s \in Revisions :
    /\ ToNumber(r) \in Nat
    /\ ToNumber(r) > ToNumber(s) => r > s

(***************************************************************************)
(* No two of the revisions in use are the same Lua number.                 *)
(***************************************************************************)
ExactRevisions == \A r, s \in Revisions : ToNumber(r) = ToNumber(s) => r = s

-----------------------------------------------------------------------------
VARIABLES
  active,   \* active[k]: the stored payload of key k, or Absent
  version,  \* version[k]: the stored revision of key k, 0 if there is none
  index,    \* the indexed placements
  req,      \* req[h]: the mutation of handler h
  pc,       \* pc[h]: where handler h is
  tries,    \* tries[h]: attempts handler h has spent on its current command
  late      \* <<h, command>>: given up by the client, may still be executed

redisVars == <<active, version, index>>
storeVars == <<active, version, index, req, pc, tries, late>>

Commands == {"sadd", "eval", "publish"}
PCs == Commands \cup
       {"new", "rejected", "stored", "acked", "stale", "failed"}

(* retryTopology runs an operation of the client twice on a cluster.       *)
MaxAttempts == (MaxRetries + 1) * (IF Cluster THEN 2 ELSE 1)

Payloads == [rev : Nat, content : Contents]

(* The JSON document of a bid holds its revision.                          *)
Payload(m) == [rev |-> m.rev, content |-> m.content]

(* What the active hash holds for a key once m is applied.                 *)
(* Slip: the delete writes an empty bid instead of removing the field.     *)
WrittenNotRemoved(m) == Payload(m)

Written(m) == IF m.content = Absent THEN Absent ELSE Payload(m)

(* Slip: a missing revision, decoded as 0, is not refused.                 *)
ValidateZero(m) == m.rev <= MaxRevision

Validate(m) == m.rev # 0 /\ m.rev <= MaxRevision

Init ==
  /\ active = [k \in Keys |-> Absent]
  /\ version = [k \in Keys |-> 0]
  /\ index = {}
  /\ req \in [Handlers -> Requests]
  /\ pc = [h \in Handlers |-> "new"]
  /\ tries = [h \in Handlers |-> 0]
  /\ late = {}

-----------------------------------------------------------------------------
(* The Lua scripts.  Upsert and delete differ in what they write and in    *)
(* how they recognise an exact retry; Written(m) covers both.              *)

(* Slip: an equal revision counts as newer.                                *)
EvalResultNotStrict(m) ==
  IF ToNumber(m.rev) >= ToNumber(version[KeyOf(m)]) THEN 1 ELSE 0

(* Slip: an equal revision counts as a retry, whatever its payload.        *)
EvalResultAnyRetry(m) ==
  LET existing == version[KeyOf(m)]
  IN  IF existing = 0 \/ ToNumber(m.rev) > ToNumber(existing) THEN 1
      ELSE IF ToNumber(m.rev) = ToNumber(existing) THEN 2 ELSE 0

(* Slip: an exact retry is refused like an old revision.                   *)
EvalResultNoRetry(m) ==
  LET existing == version[KeyOf(m)]
  IN  IF existing = 0 \/ ToNumber(m.rev) > ToNumber(existing) THEN 1 ELSE 0

EvalResult(m) ==
  LET k == KeyOf(m)
      revision == ToNumber(m.rev)
      existing == ToNumber(version[k])
  IN  IF version[k] = 0 \/ revision > existing THEN 1
      ELSE IF revision = existing /\ active[k] = Written(m) THEN 2
      ELSE 0

(* Slip: the script forgets to write the revision hash.                    *)
RunScriptActiveOnly(m) ==
  /\ active' = IF EvalResult(m) = 1
                 THEN [active EXCEPT ![KeyOf(m)] = Written(m)] ELSE active
  /\ UNCHANGED <<version, index>>

RunScript(m) ==
  /\ IF EvalResult(m) = 1
       THEN /\ active' = [active EXCEPT ![KeyOf(m)] = Written(m)]
            /\ version' = [version EXCEPT ![KeyOf(m)] = m.rev]
       ELSE UNCHANGED <<active, version>>
  /\ UNCHANGED index

RunSAdd(m) ==
  /\ index' = index \cup {m.placement}
  /\ UNCHANGED <<active, version>>

(* What a command does in Redis; PUBLISH stores nothing.                   *)
Execute(m, command) ==
  \/ command = "sadd" /\ RunSAdd(m)
  \/ command = "eval" /\ RunScript(m)
  \/ command = "publish" /\ UNCHANGED redisVars

-----------------------------------------------------------------------------
(* The handlers                                                            *)

Goto(h, label) ==
  /\ pc' = [pc EXCEPT ![h] = label]
  /\ tries' = [tries EXCEPT ![h] = 0]

(* Slip: the script runs without indexing the placement first.             *)
ReceiveUnindexed(h) ==
  /\ pc[h] = "new"
  /\ Goto(h, IF Validate(req[h]) THEN "eval" ELSE "rejected")
  /\ UNCHANGED <<redisVars, req, late>>

Receive(h) ==
  /\ pc[h] = "new"
  /\ Goto(h, IF Validate(req[h]) THEN "sadd" ELSE "rejected")
  /\ UNCHANGED <<redisVars, req, late>>

SAdd(h) ==
  /\ pc[h] = "sadd"
  /\ Execute(req[h], "sadd")
  /\ Goto(h, "eval")
  /\ UNCHANGED <<req, late>>

Eval(h) ==
  /\ pc[h] = "eval"
  /\ Execute(req[h], "eval")
  /\ Goto(h, IF EvalResult(req[h]) = 0 THEN "stale" ELSE "publish")
  /\ UNCHANGED <<req, late>>

Publish(h) ==
  /\ pc[h] = "publish"
  /\ Execute(req[h], "publish")
  /\ Goto(h, "stored")
  /\ UNCHANGED <<req, late>>

(***************************************************************************)
(* An attempt ends without a reply.  The command was lost, or it is on its *)
(* way.  The client tries again while attempts are left, unless its        *)
(* context has ended or the error is one it does not retry.                *)
(***************************************************************************)
Lose(h) ==
  /\ pc[h] \in Commands
  /\ late' \in {late, late \cup {<<h, pc[h]>>}}
  /\ \/ /\ tries[h] + 1 < MaxAttempts
        /\ tries' = [tries EXCEPT ![h] = @ + 1]
        /\ UNCHANGED pc
     \/ Goto(h, "failed")
  /\ UNCHANGED <<redisVars, req>>

ExecuteLate(h, command) ==
  /\ <<h, command>> \in late
  /\ Execute(req[h], command)
  /\ late' = late \ {<<h, command>>}
  /\ UNCHANGED <<req, pc, tries>>

(***************************************************************************)
(* The process of the handlers in H dies.  Their clients see a broken      *)
(* connection; commands they had sent may still arrive.                    *)
(***************************************************************************)
Running == {h \in Handlers : pc[h] \in Commands \cup {"stored"}}

Crash(H) ==
  /\ \E sent \in SUBSET {h \in H : pc[h] \in Commands} :
       late' = late \cup {<<h, pc[h]>> : h \in sent}
  /\ pc' = [h \in Handlers |-> IF h \in H THEN "failed" ELSE pc[h]]
  /\ tries' = [h \in Handlers |-> IF h \in H THEN 0 ELSE tries[h]]
  /\ UNCHANGED <<redisVars, req>>

(* The handler answers the client: 200 or 204.                             *)
Respond(h) ==
  /\ pc[h] = "stored"
  /\ Goto(h, "acked")
  /\ UNCHANGED <<redisVars, req, late>>

HandlerStep(h) ==
  Receive(h) \/ SAdd(h) \/ Eval(h) \/ Publish(h) \/ Lose(h) \/ Respond(h)

Next ==
  \/ \E h \in Handlers :
       HandlerStep(h) \/ \E command \in Commands : ExecuteLate(h, command)
  \/ \E H \in SUBSET Running : Crash(H)

Spec == Init /\ [][Next]_storeVars

-----------------------------------------------------------------------------
TypeOK ==
  /\ active \in [Keys -> Payloads \cup {Absent}]
  /\ version \in [Keys -> Revisions \cup {0}]
  /\ index \subseteq Placements
  /\ req \in [Handlers -> Requests]
  /\ pc \in [Handlers -> PCs]
  /\ tries \in [Handlers -> Nat]
  /\ late \subseteq Handlers \X Commands

(***************************************************************************)
(* The two hashes of a placement tell one story: a stored bid carries the  *)
(* revision the version hash holds for it, whatever commands were lost,    *)
(* repeated or executed late.  The scripts write both hashes or neither.   *)
(***************************************************************************)
HashesAgree ==
  \A k \in Keys : active[k] # Absent => active[k].rev = version[k]

(***************************************************************************)
(* A placement that holds a bid or a tombstone is in the index, so that    *)
(* Reconcile finds what an invalidation failed to announce: SADD comes     *)
(* before the script in Upsert and Delete, also when attempts are lost.    *)
(***************************************************************************)
IndexedBeforeWritten ==
  \A k \in Keys : version[k] # 0 => k[1] \in index

(***************************************************************************)
(* Redis never goes back: no command, first or late, lowers a stored       *)
(* revision, and none touches a bid without raising its revision.  This is *)
(* what keeps a delayed upsert from restoring a deleted bid.               *)
(***************************************************************************)
Governed(k) ==
  /\ version'[k] >= version[k]
  /\ active'[k] # active[k] => version'[k] > version[k]

RevisionGoverns == [][\A k \in Keys : Governed(k)]_storeVars

(* Key k holds m, or something newer.                                      *)
Covers(m) ==
  \/ version[KeyOf(m)] > m.rev
  \/ version[KeyOf(m)] = m.rev /\ active[KeyOf(m)] = Written(m)

(* Key k holds something newer than m, or another m with its revision.     *)
Outdates(m) ==
  \/ version[KeyOf(m)] > m.rev
  \/ version[KeyOf(m)] = m.rev /\ active[KeyOf(m)] # Written(m)

(***************************************************************************)
(* A mutation that was answered with success is in Redis, and stays there  *)
(* until a newer one replaces it: the success answer of upsertBid and      *)
(* deleteBid is never taken back by a retry or by a late command.          *)
(***************************************************************************)
AckMeansApplied ==
  \A h \in Handlers :
    pc[h] \in {"publish", "stored", "acked"} => Covers(req[h])

(***************************************************************************)
(* HTTP 409 is the answer to an old mutation only: Redis holds a newer     *)
(* revision, or the same revision with another content.  In particular the *)
(* retry of a script that was applied, its reply lost, is not refused      *)
(* unless a newer mutation came in between.                                *)
(***************************************************************************)
ConflictMeansOld ==
  \A h \in Handlers : pc[h] = "stale" => Outdates(req[h])

-----------------------------------------------------------------------------
(* The store implements the register of BidRegister: the revision hash and *)
(* the active hash together are the register.                              *)

Register ==
  [k \in Keys |->
     [rev |-> version[k],
      content |-> IF active[k] = Absent THEN Absent ELSE active[k].content]]

Outcome ==
  [h \in Handlers |->
     IF pc[h] \in {"new", "sadd", "eval"} THEN "pending"
     ELSE IF pc[h] \in {"publish", "stored", "acked"} THEN "confirmed"
     ELSE IF pc[h] = "stale" THEN "refused"
     ELSE "error"]

Reg == INSTANCE BidRegister WITH reg <- Register, ask <- req,
                                 outcome <- Outcome

(***************************************************************************)
(* Every step of the handlers and of Redis is a step of the register: a    *)
(* mutation takes effect in one step, is confirmed at a moment when the    *)
(* register holds it, and is refused only when the register outdates it.   *)
(***************************************************************************)
ImplementsRegister == Reg!Spec
=============================================================================
