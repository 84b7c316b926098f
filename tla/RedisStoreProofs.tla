-------------------------- MODULE RedisStoreProofs --------------------------
(***************************************************************************)
(* The versioned bid registry is correct for every number of requests,     *)
(* keys, retries and late commands.                                        *)
(***************************************************************************)
EXTENDS RedisStore, TLAPS

(***************************************************************************)
(* What the position of a handler, or a command of it that is still under  *)
(* way, says about the request: it passed validation, and its placement is *)
(* indexed once the script may run.                                        *)
(***************************************************************************)
Validated ==
  \A h \in Handlers :
    (pc[h] \notin {"new", "rejected"} \/ \E c \in Commands : <<h, c>> \in late)
      => Validate(req[h])
Indexed ==
  \A h \in Handlers :
    (pc[h] \in {"eval", "publish", "stored", "acked", "stale"}
      \/ <<h, "eval">> \in late)
      => req[h].placement \in index

(* The inductive invariant; the last two parts need exact revisions.       *)
StoreInv ==
  /\ TypeOK
  /\ Validated
  /\ Indexed
  /\ HashesAgree
  /\ IndexedBeforeWritten

AnswerInv == AckMeansApplied /\ ConflictMeansOld

-----------------------------------------------------------------------------
LEMMA RequestType ==
  ASSUME TypeOK, NEW h \in Handlers
  PROVE  /\ req[h] \in Mutations
         /\ KeyOf(req[h]) \in Keys
         /\ req[h].rev \in Revisions
         /\ req[h].rev \in Nat
         /\ req[h].placement \in Placements
         /\ Written(req[h]) \in Payloads \cup {Absent}
         /\ Written(req[h]) # Absent => Written(req[h]).rev = req[h].rev
         /\ Written(req[h]) = Absent <=> req[h].content = Absent
<1>1. req[h] \in Mutations
  BY StoreAssumption DEF TypeOK
<1>2. KeyOf(req[h]) \in Keys /\ req[h].rev \in Revisions /\ req[h].rev \in Nat
      /\ req[h].placement \in Placements
  BY <1>1, StoreAssumption DEF Mutations, KeyOf, Keys
<1>3. Written(req[h]) \in Payloads \cup {Absent}
  BY <1>1, <1>2 DEF Mutations, Written, Payload, Payloads
<1>4. Written(req[h]) # Absent => Written(req[h]).rev = req[h].rev
  BY DEF Written, Payload
<1>5. Written(req[h]) = Absent <=> req[h].content = Absent
  <2>1. CASE req[h].content = Absent
    BY <2>1 DEF Written
  <2>2. CASE req[h].content # Absent
    BY <1>1, <1>2, <2>2, StoreAssumption DEF Written, Payload, Mutations
  <2>. QED  BY <2>1, <2>2
<1>. QED  BY <1>1, <1>2, <1>3, <1>4, <1>5

(* What the script does to the two hashes: nothing, or the whole mutation, *)
(* and then with a larger revision.                                        *)
LEMMA ScriptEffect ==
  ASSUME TypeOK, NEW h \in Handlers, RunScript(req[h]), Validate(req[h])
  PROVE  \/ UNCHANGED <<active, version>> /\ EvalResult(req[h]) # 1
         \/ /\ EvalResult(req[h]) = 1
            /\ active' = [active EXCEPT ![KeyOf(req[h])] = Written(req[h])]
            /\ version' = [version EXCEPT ![KeyOf(req[h])] = req[h].rev]
            /\ req[h].rev > version[KeyOf(req[h])]
<1>. DEFINE k == KeyOf(req[h])
<1>1. k \in Keys /\ req[h].rev \in Revisions /\ req[h].rev \in Nat /\ req[h].rev # 0
  BY RequestType DEF Validate
<1>2. version[k] \in Revisions \cup {0}
  BY <1>1 DEF TypeOK
<1>3. CASE EvalResult(req[h]) = 1
  <2>1. version[k] = 0 \/ ToNumber(req[h].rev) > ToNumber(version[k])
    BY <1>3 DEF EvalResult
  <2>2. req[h].rev > version[k]
    BY <2>1, <1>1, <1>2, ToNumberAssumption
  <2>. QED  BY <1>3, <2>2 DEF RunScript
<1>4. CASE EvalResult(req[h]) # 1
  BY <1>4 DEF RunScript
<1>. QED  BY <1>3, <1>4

(* The commands a step may execute, and for whom.                          *)
LEMMA ExecuteEffect ==
  ASSUME StoreInv, NEW h \in Handlers, NEW c \in Commands,
         Execute(req[h], c),
         pc[h] = c \/ <<h, c>> \in late
  PROVE  \/ /\ UNCHANGED <<active, version>>
            /\ index' = index \/ index' = index \cup {req[h].placement}
         \/ /\ c = "eval"
            /\ UNCHANGED index
            /\ active' = [active EXCEPT ![KeyOf(req[h])] = Written(req[h])]
            /\ version' = [version EXCEPT ![KeyOf(req[h])] = req[h].rev]
            /\ req[h].rev > version[KeyOf(req[h])]
<1>1. Validate(req[h])
  BY DEF StoreInv, Validated, Commands
<1>2. CASE c = "sadd"
  BY <1>2 DEF Execute, RunSAdd
<1>3. CASE c = "publish"
  BY <1>3 DEF Execute, redisVars
<1>4. CASE c = "eval"
  <2>1. RunScript(req[h])
    BY <1>4 DEF Execute
  <2>. QED  BY <2>1, <1>1, <1>4, ScriptEffect DEF RunScript, StoreInv
<1>. QED  BY <1>2, <1>3, <1>4 DEF Commands

-----------------------------------------------------------------------------
(* A step executes at most one command, of one handler.                    *)
Quiet == UNCHANGED <<active, version, index>>

LEMMA StepExecutes ==
  ASSUME StoreInv, [Next]_storeVars
  PROVE  \/ Quiet
         \/ \E h \in Handlers, c \in Commands :
              Execute(req[h], c) /\ (pc[h] = c \/ <<h, c>> \in late)
<1>1. CASE UNCHANGED storeVars
  BY <1>1 DEF storeVars, Quiet
<1>2. ASSUME NEW h \in Handlers, HandlerStep(h)
      PROVE  \/ Quiet
             \/ \E c \in Commands : Execute(req[h], c) /\ pc[h] = c
  BY <1>2 DEF HandlerStep, Receive, SAdd, Eval, Publish, Lose, Respond,
              Quiet, redisVars, Commands
<1>3. ASSUME NEW h \in Handlers, NEW c \in Commands, ExecuteLate(h, c)
      PROVE  Execute(req[h], c) /\ <<h, c>> \in late
  BY <1>3 DEF ExecuteLate
<1>4. ASSUME NEW H \in SUBSET Running, Crash(H)
      PROVE  Quiet
  BY <1>4 DEF Crash, Quiet, redisVars
<1>. QED  BY <1>1, <1>2, <1>3, <1>4 DEF Next

(* How the three pieces of Redis state may change in a step.               *)
LEMMA RedisEffect ==
  ASSUME StoreInv, [Next]_storeVars
  PROVE  \/ /\ UNCHANGED <<active, version>>
            /\ \/ index' = index
               \/ \E h \in Handlers : index' = index \cup {req[h].placement}
         \/ \E h \in Handlers :
              /\ pc[h] = "eval" \/ <<h, "eval">> \in late
              /\ UNCHANGED index
              /\ active' = [active EXCEPT ![KeyOf(req[h])] = Written(req[h])]
              /\ version' = [version EXCEPT ![KeyOf(req[h])] = req[h].rev]
              /\ req[h].rev > version[KeyOf(req[h])]
<1>1. CASE Quiet
  BY <1>1 DEF Quiet
<1>2. ASSUME NEW h \in Handlers, NEW c \in Commands, Execute(req[h], c),
             pc[h] = c \/ <<h, c>> \in late
      PROVE  \/ /\ UNCHANGED <<active, version>>
                /\ index' = index \/ index' = index \cup {req[h].placement}
             \/ /\ pc[h] = "eval" \/ <<h, "eval">> \in late
                /\ UNCHANGED index
                /\ active' = [active EXCEPT ![KeyOf(req[h])] = Written(req[h])]
                /\ version' = [version EXCEPT ![KeyOf(req[h])] = req[h].rev]
                /\ req[h].rev > version[KeyOf(req[h])]
  BY <1>2, ExecuteEffect
<1>. QED  BY <1>1, <1>2, StepExecutes

(* How the handlers may move, apart from Redis.                            *)
LEMMA HandlerMoves ==
  ASSUME TypeOK, [Next]_storeVars
  PROVE  /\ req' = req
         /\ pc' \in [Handlers -> PCs]
         /\ tries' \in [Handlers -> Nat]
         /\ late' \subseteq Handlers \X Commands
<1>1. CASE UNCHANGED storeVars
  BY <1>1 DEF storeVars, TypeOK
<1>2. ASSUME NEW h \in Handlers, HandlerStep(h)
      PROVE  /\ req' = req
             /\ pc' \in [Handlers -> PCs]
             /\ tries' \in [Handlers -> Nat]
             /\ late' \subseteq Handlers \X Commands
  <2>1. ASSUME NEW l \in PCs, Goto(h, l)
        PROVE  pc' \in [Handlers -> PCs] /\ tries' \in [Handlers -> Nat]
    BY <2>1 DEF Goto, TypeOK
  <2>2. CASE Receive(h)
    BY <2>1, <2>2 DEF Receive, TypeOK, PCs, Commands
  <2>3. CASE SAdd(h)
    BY <2>1, <2>3 DEF SAdd, TypeOK, PCs, Commands
  <2>4. CASE Eval(h)
    BY <2>1, <2>4 DEF Eval, TypeOK, PCs, Commands
  <2>5. CASE Publish(h)
    BY <2>1, <2>5 DEF Publish, TypeOK, PCs, Commands
  <2>6. CASE Lose(h)
    BY <2>1, <2>6 DEF Lose, TypeOK, PCs
  <2>7. CASE Respond(h)
    BY <2>1, <2>7 DEF Respond, TypeOK, PCs, Commands
  <2>. QED  BY <1>2, <2>2, <2>3, <2>4, <2>5, <2>6, <2>7 DEF HandlerStep
<1>3. ASSUME NEW h \in Handlers, NEW c \in Commands, ExecuteLate(h, c)
      PROVE  /\ req' = req
             /\ pc' \in [Handlers -> PCs]
             /\ tries' \in [Handlers -> Nat]
             /\ late' \subseteq Handlers \X Commands
  BY <1>3 DEF ExecuteLate, TypeOK
<1>4. ASSUME NEW H \in SUBSET Running, Crash(H)
      PROVE  /\ req' = req
             /\ pc' \in [Handlers -> PCs]
             /\ tries' \in [Handlers -> Nat]
             /\ late' \subseteq Handlers \X Commands
  BY <1>4 DEF Crash, Running, TypeOK, PCs
<1>. QED  BY <1>1, <1>2, <1>3, <1>4 DEF Next

LEMMA StoreInvInit == Init => StoreInv
<1>. SUFFICES ASSUME Init PROVE StoreInv
  OBVIOUS
<1>1. TypeOK
  BY StoreAssumption DEF Init, TypeOK, PCs
<1>2. Validated /\ Indexed
  BY DEF Init, Validated, Indexed
<1>3. HashesAgree /\ IndexedBeforeWritten
  BY DEF Init, HashesAgree, IndexedBeforeWritten
<1>. QED  BY <1>1, <1>2, <1>3 DEF StoreInv

LEMMA StoreInvStep == StoreInv /\ [Next]_storeVars => StoreInv'
<1>. SUFFICES ASSUME StoreInv, [Next]_storeVars PROVE StoreInv'
  OBVIOUS
<1>0. TypeOK
  BY DEF StoreInv
<1>1. TypeOK'
  <2>1. active' \in [Keys -> Payloads \cup {Absent}]
    BY <1>0, RedisEffect, RequestType DEF TypeOK
  <2>2. version' \in [Keys -> Revisions \cup {0}]
    BY <1>0, RedisEffect, RequestType DEF TypeOK
  <2>3. index' \subseteq Placements
    BY <1>0, RedisEffect, RequestType DEF TypeOK
  <2>. QED  BY <1>0, <2>1, <2>2, <2>3, HandlerMoves DEF TypeOK
<1>2. Validated'
  <2>1. CASE UNCHANGED storeVars
    BY <2>1 DEF storeVars, StoreInv, Validated, Validate
  <2>2. ASSUME NEW h \in Handlers, HandlerStep(h)
        PROVE  Validated'
    BY <2>2, <1>0 DEF HandlerStep, Receive, SAdd, Eval, Publish, Lose, Respond, Goto,
                StoreInv, Validated, Validate, TypeOK, Commands
  <2>3. ASSUME NEW h \in Handlers, NEW c \in Commands, ExecuteLate(h, c)
        PROVE  Validated'
    BY <2>3 DEF ExecuteLate, StoreInv, Validated, Validate
  <2>4. ASSUME NEW H \in SUBSET Running, Crash(H)
        PROVE  Validated'
    BY <2>4 DEF Crash, Running, StoreInv, Validated, Validate, Commands
  <2>. QED  BY <2>1, <2>2, <2>3, <2>4 DEF Next
<1>3. Indexed'
  <2>1. CASE UNCHANGED storeVars
    BY <2>1 DEF storeVars, StoreInv, Indexed
  <2>2. index \subseteq index'
    BY RedisEffect
  <2>3. ASSUME NEW h \in Handlers, HandlerStep(h)
        PROVE  Indexed'
    <3>1. CASE SAdd(h)
      BY <3>1, <1>0, <2>2 DEF SAdd, Execute, RunSAdd, Goto, StoreInv, Indexed, TypeOK
    <3>2. CASE Lose(h)
      BY <3>2, <1>0, <2>2 DEF Lose, Goto, StoreInv, Indexed, TypeOK, redisVars, Commands
    <3>3. CASE Receive(h) \/ Eval(h) \/ Publish(h) \/ Respond(h)
      BY <3>3, <1>0, <2>2 DEF Receive, Eval, Publish, Respond, Goto, StoreInv, Indexed, TypeOK
    <3>. QED  BY <2>3, <3>1, <3>2, <3>3 DEF HandlerStep
  <2>4. ASSUME NEW h \in Handlers, NEW c \in Commands, ExecuteLate(h, c)
        PROVE  Indexed'
    BY <2>4, <2>2 DEF ExecuteLate, StoreInv, Indexed
  <2>5. ASSUME NEW H \in SUBSET Running, Crash(H)
        PROVE  Indexed'
    BY <2>5 DEF Crash, StoreInv, Indexed, redisVars, Commands
  <2>. QED  BY <2>1, <2>3, <2>4, <2>5 DEF Next
<1>4. HashesAgree'
  <2>1. CASE UNCHANGED <<active, version>>
    BY <2>1 DEF StoreInv, HashesAgree
  <2>2. ASSUME NEW h \in Handlers,
               active' = [active EXCEPT ![KeyOf(req[h])] = Written(req[h])],
               version' = [version EXCEPT ![KeyOf(req[h])] = req[h].rev]
        PROVE  HashesAgree'
    BY <1>0, <2>2, RequestType DEF StoreInv, HashesAgree, TypeOK
  <2>. QED  BY <2>1, <2>2, RedisEffect
<1>5. IndexedBeforeWritten'
  <2>1. CASE UNCHANGED version
    BY <2>1, RedisEffect DEF StoreInv, IndexedBeforeWritten
  <2>2. ASSUME NEW h \in Handlers, UNCHANGED index,
               pc[h] = "eval" \/ <<h, "eval">> \in late,
               version' = [version EXCEPT ![KeyOf(req[h])] = req[h].rev]
        PROVE  IndexedBeforeWritten'
    <3>1. req[h].placement \in index
      BY <2>2 DEF StoreInv, Indexed
    <3>2. KeyOf(req[h])[1] = req[h].placement
      BY DEF KeyOf
    <3>. QED  BY <1>0, <2>2, <3>1, <3>2 DEF StoreInv, IndexedBeforeWritten, TypeOK
  <2>. QED  BY <2>1, <2>2, RedisEffect
<1>. QED  BY <1>1, <1>2, <1>3, <1>4, <1>5 DEF StoreInv

(***************************************************************************)
(* In every reachable state of the store the variables have their types,   *)
(* the hashes of store.go agree, and what is written is indexed; and the   *)
(* auxiliary parts of StoreInv that make this inductive hold.              *)
(***************************************************************************)
THEOREM StoreSafety == Spec => []StoreInv
<1>. QED  BY StoreInvInit, StoreInvStep, PTL DEF Spec

(***************************************************************************)
(* Type correctness of the registry.                                       *)
(***************************************************************************)
THEOREM StoreTypeOK == Spec => []TypeOK
<1>1. StoreInv => TypeOK
  BY DEF StoreInv
<1>. QED  BY <1>1, StoreSafety, PTL

(***************************************************************************)
(* The scripts write both hashes or neither, so a stored bid carries the   *)
(* stored revision, for all numbers of requests, retries and late scripts. *)
(***************************************************************************)
THEOREM HashesAlwaysAgree == Spec => []HashesAgree
<1>1. StoreInv => HashesAgree
  BY DEF StoreInv
<1>. QED  BY <1>1, StoreSafety, PTL

(***************************************************************************)
(* SADD before the script: Reconcile can find every written placement.     *)
(***************************************************************************)
THEOREM WrittenIsIndexed == Spec => []IndexedBeforeWritten
<1>1. StoreInv => IndexedBeforeWritten
  BY DEF StoreInv
<1>. QED  BY <1>1, StoreSafety, PTL

LEMMA StepGoverned ==
  StoreInv /\ [Next]_storeVars => \A k \in Keys : Governed(k)
<1>. SUFFICES ASSUME StoreInv, [Next]_storeVars, NEW k \in Keys
              PROVE  Governed(k)
  OBVIOUS
<1>0. TypeOK /\ version[k] \in Nat
  BY StoreAssumption DEF StoreInv, TypeOK
<1>1. CASE UNCHANGED <<active, version>>
  BY <1>0, <1>1 DEF Governed
<1>2. ASSUME NEW h \in Handlers,
             active' = [active EXCEPT ![KeyOf(req[h])] = Written(req[h])],
             version' = [version EXCEPT ![KeyOf(req[h])] = req[h].rev],
             req[h].rev > version[KeyOf(req[h])]
      PROVE  Governed(k)
  <2>1. CASE k = KeyOf(req[h])
    BY <1>0, <1>2, <2>1, RequestType DEF Governed, TypeOK
  <2>2. CASE k # KeyOf(req[h])
    BY <1>0, <1>2, <2>2, RequestType DEF Governed, TypeOK
  <2>. QED  BY <2>1, <2>2
<1>. QED  BY <1>1, <1>2, RedisEffect

(***************************************************************************)
(* Redis never goes back, also for revisions that are equal as Lua numbers:*)
(* the proof only uses that tonumber is monotone.                          *)
(***************************************************************************)
THEOREM RevisionsGovern == Spec => RevisionGoverns
<1>1. StoreInv /\ [Next]_storeVars => [\A k \in Keys : Governed(k)]_storeVars
  BY StepGoverned
<1>. QED  BY <1>1, StoreSafety, PTL DEF Spec, RevisionGoverns

-----------------------------------------------------------------------------
(* The answers.  From here on revisions are exact.                         *)

LEMMA SuccessCovers ==
  ASSUME ExactRevisions, StoreInv, NEW h \in Handlers, Validate(req[h]),
         RunScript(req[h]), EvalResult(req[h]) # 0
  PROVE  /\ version'[KeyOf(req[h])] = req[h].rev
         /\ active'[KeyOf(req[h])] = Written(req[h])
<1>. DEFINE k == KeyOf(req[h])
<1>0. TypeOK
  BY DEF StoreInv
<1>1. k \in Keys /\ req[h].rev \in Revisions
  BY <1>0, RequestType
<1>2. CASE EvalResult(req[h]) = 1
  BY <1>0, <1>1, <1>2 DEF RunScript, TypeOK
<1>3. CASE EvalResult(req[h]) # 1
  <2>1. /\ version[k] # 0
        /\ ToNumber(req[h].rev) = ToNumber(version[k])
        /\ active[k] = Written(req[h])
    BY <1>3 DEF EvalResult
  <2>2. version[k] = req[h].rev
    BY <1>0, <1>1, <2>1 DEF ExactRevisions, TypeOK
  <2>. QED  BY <1>3, <2>1, <2>2 DEF RunScript
<1>. QED  BY <1>2, <1>3

LEMMA RefusalOutdates ==
  ASSUME ExactRevisions, StoreInv, NEW h \in Handlers,
         RunScript(req[h]), EvalResult(req[h]) = 0
  PROVE  /\ Outdates(req[h])
         /\ UNCHANGED <<active, version>>
<1>. DEFINE k == KeyOf(req[h])
<1>0. TypeOK
  BY DEF StoreInv
<1>1. k \in Keys /\ req[h].rev \in Revisions /\ req[h].rev \in Nat
  BY <1>0, RequestType
<1>2. /\ version[k] # 0
      /\ ~(ToNumber(req[h].rev) > ToNumber(version[k]))
      /\ ~(ToNumber(req[h].rev) = ToNumber(version[k]) /\ active[k] = Written(req[h]))
  BY DEF EvalResult
<1>3. version[k] \in Revisions /\ version[k] \in Nat
  BY <1>0, <1>1, <1>2, StoreAssumption DEF TypeOK
<1>4. version[k] > req[h].rev \/ version[k] = req[h].rev
  <2>1. ToNumber(req[h].rev) \in Nat /\ ToNumber(version[k]) \in Nat
    BY <1>1, <1>3, ToNumberAssumption
  <2>2. CASE ToNumber(version[k]) > ToNumber(req[h].rev)
    BY <1>1, <1>3, <2>2, ToNumberAssumption
  <2>3. CASE ToNumber(version[k]) = ToNumber(req[h].rev)
    BY <1>1, <1>3, <2>3 DEF ExactRevisions
  <2>. QED  BY <1>2, <2>1, <2>2, <2>3
<1>5. Outdates(req[h])
  BY <1>2, <1>4 DEF Outdates
<1>. QED  BY <1>5 DEF RunScript

(* Both answers stay true: the step that could take one back would have to *)
(* lower a revision.                                                       *)
LEMMA AnswersStable ==
  ASSUME StoreInv, [Next]_storeVars, NEW h \in Handlers
  PROVE  /\ Covers(req[h]) => Covers(req[h])'
         /\ Outdates(req[h]) => Outdates(req[h])'
<1>. DEFINE k == KeyOf(req[h])
<1>1. k \in Keys /\ req[h].rev \in Nat /\ req' = req
  BY RequestType, HandlerMoves DEF StoreInv
<1>2. Governed(k)
  BY <1>1, StepGoverned
<1>3. version[k] \in Nat /\ version'[k] \in Nat
  BY <1>1, StoreInvStep, StoreAssumption DEF StoreInv, TypeOK
<1>. QED  BY <1>1, <1>2, <1>3 DEF Covers, Outdates, Governed, Written, Payload, KeyOf

LEMMA AnswerStep ==
  ASSUME ExactRevisions
  PROVE  StoreInv /\ AnswerInv /\ [Next]_storeVars => AnswerInv'
<1>. SUFFICES ASSUME StoreInv, AnswerInv, [Next]_storeVars, NEW h \in Handlers
              PROVE  /\ pc'[h] \in {"publish", "stored", "acked"} => Covers(req[h])'
                     /\ pc'[h] = "stale" => Outdates(req[h])'
  BY DEF AnswerInv, AckMeansApplied, ConflictMeansOld
<1>0. req' = req
  BY HandlerMoves DEF StoreInv
<1>1. CASE Eval(h)
  <2>1. Validate(req[h]) /\ RunScript(req[h])
    BY <1>1 DEF Eval, Execute, StoreInv, Validated
  <2>2. CASE EvalResult(req[h]) = 0
    <3>1. pc'[h] = "stale"
      BY <1>1, <2>2 DEF Eval, Goto, StoreInv, TypeOK
    <3>. QED  BY <2>1, <2>2, <3>1, RefusalOutdates, AnswersStable
  <2>3. CASE EvalResult(req[h]) # 0
    <3>1. pc'[h] = "publish"
      BY <1>1, <2>3 DEF Eval, Goto, StoreInv, TypeOK
    <3>2. Covers(req[h])'
      BY <1>0, <2>1, <2>3, SuccessCovers DEF Covers, Written, Payload, KeyOf
    <3>. QED  BY <3>1, <3>2
  <2>. QED  BY <2>2, <2>3
<1>2. CASE ~Eval(h)
  <2>1. /\ pc'[h] \in {"publish", "stored", "acked"} => pc[h] \in {"publish", "stored", "acked"}
        /\ pc'[h] = "stale" => pc[h] = "stale"
    <3>1. CASE UNCHANGED storeVars
      BY <3>1 DEF storeVars
    <3>2. ASSUME NEW g \in Handlers, HandlerStep(g)
          PROVE  <2>1!1 /\ <2>1!2
      <4>1. CASE g = h
        BY <1>2, <3>2, <4>1 DEF HandlerStep, Receive, SAdd, Publish, Lose, Respond, Goto,
                                StoreInv, TypeOK, Commands
      <4>2. CASE g # h
        BY <3>2, <4>2 DEF HandlerStep, Receive, SAdd, Eval, Publish, Lose, Respond, Goto,
                          StoreInv, TypeOK
      <4>. QED  BY <4>1, <4>2
    <3>3. ASSUME NEW g \in Handlers, NEW c \in Commands, ExecuteLate(g, c)
          PROVE  <2>1!1 /\ <2>1!2
      BY <3>3 DEF ExecuteLate
    <3>4. ASSUME NEW H \in SUBSET Running, Crash(H)
          PROVE  <2>1!1 /\ <2>1!2
      BY <3>4 DEF Crash
    <3>. QED  BY <3>1, <3>2, <3>3, <3>4 DEF Next
  <2>. QED  BY <2>1, AnswersStable DEF AnswerInv, AckMeansApplied, ConflictMeansOld
<1>. QED  BY <1>1, <1>2

(***************************************************************************)
(* While no two revisions in use are the same Lua number, a success answer *)
(* means that the mutation is in Redis or was replaced by a newer one.     *)
(***************************************************************************)
THEOREM AnswersAreTrue ==
  ASSUME ExactRevisions
  PROVE  Spec => [](AckMeansApplied /\ ConflictMeansOld)
<1>1. Init => AnswerInv
  BY DEF Init, AnswerInv, AckMeansApplied, ConflictMeansOld
<1>2. StoreInv /\ AnswerInv /\ [Next]_storeVars => AnswerInv'
  BY AnswerStep
<1>3. AnswerInv <=> AckMeansApplied /\ ConflictMeansOld
  BY DEF AnswerInv
<1>. QED  BY <1>1, <1>2, <1>3, StoreSafety, PTL DEF Spec

-----------------------------------------------------------------------------
(* The store implements the register.                                      *)

LEMMA OutcomeOf ==
  ASSUME NEW h \in Handlers
  PROVE  /\ pc[h] \in {"new", "sadd", "eval"} => Outcome[h] = "pending"
         /\ pc[h] \in {"publish", "stored", "acked"} => Outcome[h] = "confirmed"
         /\ pc[h] = "stale" => Outcome[h] = "refused"
         /\ pc[h] \in {"rejected", "failed"} => Outcome[h] = "error"
BY DEF Outcome

(* Moving one handler changes one outcome.                                 *)
LEMMA OutcomeMoves ==
  ASSUME TypeOK, NEW h \in Handlers, NEW l \in PCs,
         pc' = [pc EXCEPT ![h] = l]
  PROVE  Outcome' = [Outcome EXCEPT ![h] = Outcome'[h]]
<1>1. \A g \in Handlers : g # h => pc'[g] = pc[g]
  BY DEF TypeOK
<1>2. \A g \in Handlers : g # h => Outcome'[g] = Outcome[g]
  BY <1>1 DEF Outcome
<1>. QED  BY <1>2 DEF Outcome

(* Writing a mutation to both hashes writes its value to the register.     *)
LEMMA RegisterWritten ==
  ASSUME TypeOK, NEW h \in Handlers,
         active' = [active EXCEPT ![KeyOf(req[h])] = Written(req[h])],
         version' = [version EXCEPT ![KeyOf(req[h])] = req[h].rev]
  PROVE  Register' = [Register EXCEPT ![KeyOf(req[h])] = Reg!Value(req[h])]
<1>. DEFINE k == KeyOf(req[h])
<1>1. k \in Keys /\ req[h] \in Mutations
  BY RequestType
<1>2. \A j \in Keys : j # k => Register'[j] = Register[j]
  BY DEF Register, TypeOK
<1>3. Written(req[h]) = Absent <=> req[h].content = Absent
  BY RequestType
<1>4. Written(req[h]) # Absent => Written(req[h]).content = req[h].content
  BY DEF Written, Payload
<1>5. active'[k] = Written(req[h]) /\ version'[k] = req[h].rev
  BY <1>1 DEF TypeOK
<1>6. Register'[k] = Reg!Value(req[h])
  BY <1>1, <1>3, <1>4, <1>5 DEF Register, Reg!Value
<1>. QED  BY <1>1, <1>2, <1>6 DEF Register

(* The register holds m exactly when both hashes do.                       *)
LEMMA RegisterHolds ==
  ASSUME StoreInv, NEW h \in Handlers
  PROVE  /\ Register[KeyOf(req[h])].rev = version[KeyOf(req[h])]
         /\ version[KeyOf(req[h])] = req[h].rev =>
              (Register[KeyOf(req[h])] = Reg!Value(req[h])
                <=> active[KeyOf(req[h])] = Written(req[h]))
<1>. DEFINE k == KeyOf(req[h])
<1>1. TypeOK /\ k \in Keys /\ req[h] \in Mutations
  BY RequestType DEF StoreInv
<1>2. /\ Register[k].rev = version[k]
      /\ Register[k].content = IF active[k] = Absent THEN Absent ELSE active[k].content
      /\ Register[k] = [rev |-> version[k],
                        content |-> IF active[k] = Absent THEN Absent ELSE active[k].content]
  BY <1>1 DEF Register
<1>3. active[k] # Absent =>
        /\ active[k] \in Payloads
        /\ active[k].content # Absent
        /\ active[k].rev = version[k]
  BY <1>1, StoreAssumption DEF StoreInv, HashesAgree, TypeOK, Payloads
<1>4. ASSUME version[k] = req[h].rev
      PROVE  Register[k] = Reg!Value(req[h]) <=> active[k] = Written(req[h])
  <2>1. CASE active[k] = Absent
    <3>1. Register[k] = Reg!Value(req[h]) <=> req[h].content = Absent
      BY <1>2, <1>4, <2>1 DEF Reg!Value
    <3>2. Written(req[h]) = Absent <=> req[h].content = Absent
      BY <1>1, RequestType
    <3>. QED  BY <2>1, <3>1, <3>2
  <2>2. CASE active[k] # Absent
    <3>1. Register[k] = Reg!Value(req[h]) <=> req[h].content = active[k].content
      BY <1>2, <1>4, <2>2 DEF Reg!Value
    <3>2. active[k] = [rev |-> active[k].rev, content |-> active[k].content]
      BY <1>3, <2>2 DEF Payloads
    <3>3. active[k] = Written(req[h]) <=> req[h].content = active[k].content
      BY <1>3, <1>4, <2>2, <3>2 DEF Written, Payload
    <3>. QED  BY <3>1, <3>3
  <2>. QED  BY <2>1, <2>2
<1>. QED  BY <1>2, <1>4

LEMMA RegisterQuiet ==
  ASSUME UNCHANGED <<active, version>>
  PROVE  UNCHANGED Register
BY DEF Register

LEMMA OutcomeQuiet ==
  ASSUME UNCHANGED pc
  PROVE  UNCHANGED Outcome
BY DEF Outcome

LEMMA OtherCommandsQuiet ==
  ASSUME StoreInv, NEW h \in Handlers, NEW c \in Commands, c # "eval",
         Execute(req[h], c)
  PROVE  UNCHANGED <<active, version>>
BY DEF Execute, RunSAdd, redisVars

LEMMA EvalImplements ==
  ASSUME ExactRevisions, StoreInv, NEW h \in Handlers, Eval(h)
  PROVE  Reg!Confirm(h) \/ Reg!Refuse(h)
<1>. DEFINE m == req[h]
            k == KeyOf(m)
<1>0. /\ TypeOK /\ m \in Mutations /\ k \in Keys /\ m.rev \in Nat
      /\ Reg!KeyOf(m) = k /\ RunScript(m) /\ Validate(m) /\ req' = req
      /\ version[k] \in Nat
  <2>1. TypeOK
    BY DEF StoreInv
  <2>2. m \in Mutations /\ k \in Keys /\ m.rev \in Nat
    BY <2>1, RequestType
  <2>3. Reg!KeyOf(m) = k
    BY DEF KeyOf, Reg!KeyOf
  <2>4. RunScript(m) /\ req' = req
    BY DEF Eval, Execute
  <2>5. Validate(m)
    BY DEF Eval, StoreInv, Validated
  <2>6. version[k] \in Nat
    BY <2>1, <2>2, StoreAssumption DEF TypeOK
  <2>. QED  BY <2>1, <2>2, <2>3, <2>4, <2>5, <2>6
<1>1. Outcome[h] = "pending"
  BY OutcomeOf DEF Eval
<1>2. CASE EvalResult(m) = 0
  <2>1. pc' = [pc EXCEPT ![h] = "stale"] /\ pc'[h] = "stale"
    BY <1>0, <1>2 DEF Eval, Goto, TypeOK
  <2>2. Outcome' = [Outcome EXCEPT ![h] = "refused"]
    BY <1>0, <2>1, OutcomeMoves DEF Outcome, PCs
  <2>3. Outdates(m) /\ UNCHANGED <<active, version>>
    BY <1>0, <1>2, RefusalOutdates
  <2>4. UNCHANGED Register
    BY <2>3, RegisterQuiet
  <2>5. \/ m.rev < Register[k].rev
        \/ m.rev = Register[k].rev /\ Register[k] # Reg!Value(m)
    BY <1>0, <2>3, RegisterHolds DEF Outdates
  <2>. QED  BY <1>0, <1>1, <2>2, <2>4, <2>5 DEF Reg!Refuse
<1>3. CASE EvalResult(m) # 0
  <2>1. pc' = [pc EXCEPT ![h] = "publish"] /\ pc'[h] = "publish"
    BY <1>0, <1>3 DEF Eval, Goto, TypeOK
  <2>2. Outcome' = [Outcome EXCEPT ![h] = "confirmed"]
    BY <1>0, <2>1, OutcomeMoves DEF Outcome, PCs, Commands
  <2>3. CASE EvalResult(m) = 1
    <3>1. /\ active' = [active EXCEPT ![k] = Written(m)]
          /\ version' = [version EXCEPT ![k] = m.rev]
          /\ m.rev > version[k]
      BY <1>0, <2>3, ScriptEffect
    <3>2. Register' = [Register EXCEPT ![k] = Reg!Value(m)]
      BY <1>0, <3>1, RegisterWritten
    <3>3. m.rev > Register[k].rev
      BY <3>1, RegisterHolds
    <3>. QED  BY <1>0, <1>1, <2>2, <3>2, <3>3 DEF Reg!Confirm
  <2>4. CASE EvalResult(m) # 1
    <3>1. UNCHANGED <<active, version>>
      BY <1>0, <2>4 DEF RunScript
    <3>2. version[k] = m.rev /\ active[k] = Written(m)
      BY <1>0, <1>3, <3>1, SuccessCovers
    <3>3. Register[k] = Reg!Value(m)
      BY <3>2, RegisterHolds
    <3>4. Register' = [Register EXCEPT ![k] = Reg!Value(m)]
      BY <1>0, <3>1, <3>3, RegisterQuiet DEF Register
    <3>. QED  BY <1>0, <1>1, <2>2, <3>3, <3>4 DEF Reg!Confirm
  <2>. QED  BY <2>3, <2>4
<1>. QED  BY <1>2, <1>3

LEMMA LateImplements ==
  ASSUME StoreInv, NEW h \in Handlers, NEW c \in Commands, ExecuteLate(h, c)
  PROVE  Reg!Apply(h) \/ UNCHANGED Reg!vars
<1>. DEFINE m == req[h]
            k == KeyOf(m)
<1>1. UNCHANGED <<req, Outcome>>
  BY OutcomeQuiet DEF ExecuteLate
<1>2. CASE UNCHANGED <<active, version>>
  BY <1>1, <1>2, RegisterQuiet DEF Reg!vars
<1>3. CASE ~ UNCHANGED <<active, version>>
  <2>1. /\ active' = [active EXCEPT ![k] = Written(m)]
        /\ version' = [version EXCEPT ![k] = m.rev]
        /\ m.rev > version[k]
    BY <1>3, ExecuteEffect DEF ExecuteLate
  <2>2. Register' = [Register EXCEPT ![k] = Reg!Value(m)]
    BY <2>1, RegisterWritten DEF StoreInv
  <2>3. Reg!KeyOf(m) = k /\ m.rev > Register[k].rev
    BY <2>1, RegisterHolds DEF KeyOf, Reg!KeyOf
  <2>. QED  BY <1>1, <2>2, <2>3 DEF Reg!Apply
<1>. QED  BY <1>2, <1>3

LEMMA HandlerImplements ==
  ASSUME StoreInv, NEW h \in Handlers, HandlerStep(h), ~Eval(h)
  PROVE  Reg!GiveUp({h}) \/ UNCHANGED Reg!vars
<1>0. TypeOK /\ req' = req /\ UNCHANGED <<active, version>>
  BY OtherCommandsQuiet
  DEF StoreInv, HandlerStep, Receive, SAdd, Publish, Lose, Respond, redisVars, Commands
<1>1. UNCHANGED Register
  BY <1>0, RegisterQuiet
<1>2. ASSUME NEW l \in PCs, pc' = [pc EXCEPT ![h] = l],
             l \in {"rejected", "failed"}, pc[h] \in {"new", "sadd", "eval", "publish"}
      PROVE  Reg!GiveUp({h})
  <2>1. pc'[h] = l
    BY <1>0, <1>2 DEF TypeOK
  <2>2. Outcome' = [g \in Handlers |-> IF g \in {h} THEN "error" ELSE Outcome[g]]
    BY <1>0, <1>2, <2>1, OutcomeMoves DEF Outcome
  <2>3. Outcome[h] \in {"pending", "confirmed"}
    BY <1>2, OutcomeOf
  <2>. QED  BY <1>0, <1>1, <2>2, <2>3 DEF Reg!GiveUp
<1>3. ASSUME NEW l \in PCs, pc' = [pc EXCEPT ![h] = l],
             \/ l \in {"sadd", "eval"} /\ pc[h] \in {"new", "sadd"}
             \/ l \in {"stored", "acked"} /\ pc[h] \in {"publish", "stored"}
      PROVE  UNCHANGED Reg!vars
  <2>1. pc'[h] = l
    BY <1>0, <1>3 DEF TypeOK
  <2>2. Outcome'[h] = Outcome[h]
    BY <1>3, <2>1 DEF Outcome
  <2>3. Outcome' = Outcome
    BY <1>0, <1>3, <2>2, OutcomeMoves DEF Outcome
  <2>. QED  BY <1>0, <1>1, <2>3 DEF Reg!vars
<1>4. CASE Receive(h)
  BY <1>2, <1>3, <1>4 DEF Receive, Goto, PCs, Commands
<1>5. CASE SAdd(h)
  BY <1>3, <1>5 DEF SAdd, Goto, PCs, Commands
<1>6. CASE Publish(h)
  BY <1>3, <1>6 DEF Publish, Goto, PCs, Commands
<1>7. CASE Respond(h)
  BY <1>3, <1>7 DEF Respond, Goto, PCs, Commands
<1>8. CASE Lose(h)
  <2>1. CASE UNCHANGED pc
    BY <1>0, <1>1, <2>1, OutcomeQuiet DEF Reg!vars
  <2>2. CASE Goto(h, "failed")
    BY <1>2, <1>8, <2>2 DEF Lose, Goto, PCs, Commands
  <2>. QED  BY <1>8, <2>1, <2>2 DEF Lose
<1>. QED  BY <1>4, <1>5, <1>6, <1>7, <1>8 DEF HandlerStep

LEMMA CrashImplements ==
  ASSUME StoreInv, NEW H \in SUBSET Running, Crash(H)
  PROVE  Reg!GiveUp(H) /\ H \in SUBSET Handlers
<1>1. UNCHANGED <<req, Register>>
  BY RegisterQuiet DEF Crash, redisVars
<1>2. \A h \in H : Outcome[h] \in {"pending", "confirmed"}
  BY DEF Running, Commands, Outcome
<1>3. Outcome' = [h \in Handlers |-> IF h \in H THEN "error" ELSE Outcome[h]]
  BY DEF Crash, Outcome
<1>4. H \in SUBSET Handlers
  BY DEF Running
<1>. QED  BY <1>1, <1>2, <1>3, <1>4 DEF Reg!GiveUp

(***************************************************************************)
(* The registry of store.go implements the versioned register while no two *)
(* revisions in use are the same Lua number: a mutation takes effect in    *)
(* one step, success is reported at a moment when the register holds the   *)
(* mutation, and a conflict only when it holds something that outdates it. *)
(***************************************************************************)
THEOREM StoreImplementsRegister ==
  ASSUME ExactRevisions
  PROVE  Spec => ImplementsRegister
<1>1. Init => Reg!Init
  <2>1. ASSUME Init PROVE Register = [k \in Keys |-> [rev |-> 0, content |-> Absent]]
    BY <2>1 DEF Init, Register
  <2>2. ASSUME Init PROVE Outcome = [h \in Handlers |-> "pending"]
    BY <2>2 DEF Init, Outcome
  <2>. QED  BY <2>1, <2>2 DEF Reg!Init
<1>2. StoreInv /\ [Next]_storeVars => [Reg!Next]_(Reg!vars)
  <2>. SUFFICES ASSUME StoreInv, [Next]_storeVars
                PROVE  [Reg!Next]_(Reg!vars)
    OBVIOUS
  <2>1. CASE UNCHANGED storeVars
    BY <2>1, RegisterQuiet, OutcomeQuiet DEF storeVars, Reg!vars
  <2>2. ASSUME NEW h \in Handlers, HandlerStep(h)
        PROVE  [Reg!Next]_(Reg!vars)
    <3>1. CASE Eval(h)
      BY <3>1, EvalImplements DEF Reg!Next
    <3>2. CASE ~Eval(h)
      <4>1. {h} \in SUBSET Handlers
        OBVIOUS
      <4>. QED  BY <2>2, <3>2, <4>1, HandlerImplements DEF Reg!Next
    <3>. QED  BY <3>1, <3>2
  <2>3. ASSUME NEW h \in Handlers, NEW c \in Commands, ExecuteLate(h, c)
        PROVE  [Reg!Next]_(Reg!vars)
    BY <2>3, LateImplements DEF Reg!Next
  <2>4. ASSUME NEW H \in SUBSET Running, Crash(H)
        PROVE  [Reg!Next]_(Reg!vars)
    BY <2>4, CrashImplements DEF Reg!Next
  <2>. QED  BY <2>1, <2>2, <2>3, <2>4 DEF Next
<1>. QED  BY <1>1, <1>2, StoreSafety, PTL DEF Spec, ImplementsRegister, Reg!Spec

=============================================================================
