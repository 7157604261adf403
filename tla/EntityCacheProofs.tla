------------------------- MODULE EntityCacheProofs -------------------------
(***************************************************************************)
(* EntityCache implements LaggingCopies for every set of requests, columns *)
(* and values: whatever races with the invalidation, a cache key shows a   *)
(* row that was saved once, and no foreign organization's key is filled.   *)
(***************************************************************************)
EXTENDS EntityCache, TLAPS

\* A step that finishes a request, or leaves it where it was, keeps what is
\* said of the requests; the remaining cases say where the entity came from.
LEMMA NoLocalType == NoLocal \in Local /\ NoLocal.entity = None
                     /\ NoLocal.ctx # "other" /\ NoLocal.op # "findAll"
  BY DEF NoLocal, Local, Operations, Contexts

LEMMA KeyType ==
  ASSUME NEW op \in Operations, NEW ctx \in Contexts
  PROVE  Key(op, ctx) \in Keys /\ Key(op, ctx)[2] = ctx
  BY DEF Key, Keys, Operations, Contexts

LEMMA LocalFields ==
  ASSUME NEW l \in Local
  PROVE  l.op \in Operations /\ l.ctx \in Contexts /\ l.entity \in Row \cup {None}
  BY DEF Local

LEMMA LocalMade ==
  ASSUME NEW op \in Operations, NEW ctx \in Contexts, NEW e \in Row \cup {None}
  PROVE  [op |-> op, ctx |-> ctx, entity |-> e] \in Local
  BY DEF Local

LEMMA UpdatedRow ==
  ASSUME NEW e \in Row, NEW c \in Columns, NEW v \in Values
  PROVE  [e EXCEPT !.col[c] = v] \in Row
  BY Zenon DEF Row

LEMMA RemovedRow ==
  ASSUME NEW e \in Row
  PROVE  [e EXCEPT !.deleted = TRUE] \in Row
  BY DEF Row

-----------------------------------------------------------------------------
\* Initially only the row itself was ever saved and nothing is cached.
LEMMA InitProvenance == Init => CacheInv
  <1> SUFFICES ASSUME Init PROVE CacheInv
    OBVIOUS
  <1>1. StateOK
    BY ConstantsAssumption, NoLocalType DEF Init, StateOK, Labels
  <1>2. Provenance
    BY NoLocalType DEF Init, Provenance
  <1> QED  BY <1>1, <1>2 DEF CacheInv

\* What a request does next with an entity it may hold.
LEMMA ProceedKeeps ==
  ASSUME CacheInv, NEW r \in Requests, NEW op \in Operations, NEW ctx \in Contexts,
         NEW e \in past, ctx # "other", Proceed(r, op, ctx, e)
  PROVE  /\ pc' \in [Requests -> Labels] /\ local' \in [Requests -> Local]
         /\ \A q \in Requests :
              /\ local'[q].entity \in past \cup {None}
              /\ pc'[q] \in {"fill", "save"} => local'[q].entity # None /\ local'[q].ctx # "other"
              /\ local'[q].op = "findAll" => local'[q].ctx # "other"
  <1> USE DEF CacheInv, StateOK, Provenance, Labels
  <1>1. e \in Row /\ e # None
    BY ConstantsAssumption
  <1>2. CASE op \in {"findOne", "findAll"} /\ Finish(r)
    BY <1>2, NoLocalType DEF Finish, Goto
  <1>3. CASE op \in {"update", "remove"} /\ Goto(r, "save") /\ Remember(r, op, ctx, e)
    <2>1. [op |-> op, ctx |-> ctx, entity |-> e] \in Local
      BY <1>1, LocalMade
    <2> QED  BY <1>1, <1>3, <2>1 DEF Goto, Remember
  <1> QED  BY <1>2, <1>3 DEF Proceed

\* The same for a request that finishes.
LEMMA FinishKeeps ==
  ASSUME CacheInv, NEW r \in Requests, Finish(r)
  PROVE  /\ pc' \in [Requests -> Labels] /\ local' \in [Requests -> Local]
         /\ \A q \in Requests :
              /\ local'[q].entity \in past \cup {None}
              /\ pc'[q] \in {"fill", "save"} => local'[q].entity # None /\ local'[q].ctx # "other"
              /\ local'[q].op = "findAll" => local'[q].ctx # "other"
  BY NoLocalType DEF CacheInv, StateOK, Provenance, Labels, Finish, Goto

\* Removing a key keeps what is said of the cache.
LEMMA ClearKeeps ==
  ASSUME CacheInv, NEW k \in Keys, cache' = [cache EXCEPT ![k] = None]
  PROVE  /\ cache' \in [Keys -> Row \cup {None}]
         /\ \A q \in Keys : cache'[q] \in past \cup {None} /\ (q[2] = "other" => cache'[q] = None)
  BY DEF CacheInv, StateOK, Provenance

\* Every step keeps the provenance of the copies and of the entities in hand.
LEMMA NextProvenance == CacheInv /\ [Next]_vars => CacheInv'
  <1> SUFFICES ASSUME CacheInv, [Next]_vars PROVE CacheInv'
    OBVIOUS
  <1>i. StateOK /\ Provenance
    BY DEF CacheInv
  <1>w. ASSUME NEW op \in Operations, Begin(op) PROVE writes' \in 0 .. MaxWrites
    BY <1>i, <1>w, ConstantsAssumption DEF Begin, StateOK
  <1>1. ASSUME NEW key \in Keys, Expire(key) PROVE CacheInv'
    BY <1>1, <1>i, ClearKeeps DEF Expire, CacheInv, StateOK, Provenance
  <1>2. ASSUME NEW r \in Requests, NEW op \in Operations, NEW ctx \in Contexts, Lookup(r, op, ctx)
        PROVE  CacheInv'
    <2>1. writes' \in 0 .. MaxWrites
      BY <1>2, <1>w DEF Lookup
    <2>2. CASE cache[Key(op, ctx)] # None /\ Proceed(r, op, ctx, cache[Key(op, ctx)])
      <3>1. ctx # "other" /\ cache[Key(op, ctx)] \in past
        BY <1>i, <2>2, KeyType DEF Provenance
      <3>2. /\ pc' \in [Requests -> Labels] /\ local' \in [Requests -> Local]
            /\ \A q \in Requests :
                 /\ local'[q].entity \in past \cup {None}
                 /\ pc'[q] \in {"fill", "save"} => local'[q].entity # None /\ local'[q].ctx # "other"
                 /\ local'[q].op = "findAll" => local'[q].ctx # "other"
        BY <2>2, <3>1, ProceedKeeps
      <3> QED  BY <1>2, <1>i, <2>1, <3>2 DEF Lookup, CacheInv, StateOK, Provenance
    <2>3. CASE Goto(r, "load") /\ Remember(r, op, ctx, None)
      <3>1. [op |-> op, ctx |-> ctx, entity |-> None] \in Local
        BY LocalMade
      <3>2. pc' \in [Requests -> Labels] /\ local' \in [Requests -> Local]
        BY <1>i, <2>3, <3>1 DEF StateOK, Goto, Remember, Labels
      <3>3. \A q \in Requests :
               /\ local'[q].entity \in past \cup {None}
               /\ pc'[q] \in {"fill", "save"} => local'[q].entity # None /\ local'[q].ctx # "other"
               /\ local'[q].op = "findAll" => local'[q].ctx # "other"
        BY <1>2, <1>i, <2>3 DEF StateOK, Provenance, Goto, Remember, Lookup
      <3> QED  BY <1>2, <1>i, <2>1, <3>2, <3>3 DEF Lookup, CacheInv, StateOK, Provenance
    <2> QED  BY <1>2, <2>2, <2>3 DEF Lookup
  <1>3. ASSUME NEW r \in Requests, NEW op \in Operations, NEW ctx \in Contexts,
               LoadDirectly(r, op, ctx)
        PROVE  CacheInv'
    <2>1. writes' \in 0 .. MaxWrites
      BY <1>3, <1>w DEF LoadDirectly
    <2>2. ctx # "other" /\ row \in past /\ Proceed(r, op, ctx, row)
      BY <1>3, <1>i DEF LoadDirectly, Found, Provenance, Proceed
    <2>3. /\ pc' \in [Requests -> Labels] /\ local' \in [Requests -> Local]
          /\ \A q \in Requests :
               /\ local'[q].entity \in past \cup {None}
               /\ pc'[q] \in {"fill", "save"} => local'[q].entity # None /\ local'[q].ctx # "other"
               /\ local'[q].op = "findAll" => local'[q].ctx # "other"
      BY <2>2, ProceedKeeps
    <2> QED  BY <1>3, <1>i, <2>1, <2>3 DEF LoadDirectly, CacheInv, StateOK, Provenance
  <1>4. ASSUME NEW r \in Requests, Load(r) PROVE CacheInv'
    <2>1. CASE Finish(r)
      BY <1>4, <1>i, <2>1, FinishKeeps DEF Load, CacheInv, StateOK, Provenance
    <2>2. CASE /\ local[r].op = "findAll" \/ Found(local[r].ctx)
               /\ Goto(r, "fill") /\ Remember(r, local[r].op, local[r].ctx, row)
      <3>1. local[r] \in Local /\ local[r].ctx # "other"
        BY <1>i, <2>2 DEF StateOK, Provenance, Found
      <3>2. [op |-> local[r].op, ctx |-> local[r].ctx, entity |-> row] \in Local
        BY <1>i, <3>1, LocalFields, LocalMade DEF StateOK
      <3>3. pc' \in [Requests -> Labels] /\ local' \in [Requests -> Local]
        BY <1>i, <2>2, <3>2 DEF StateOK, Goto, Remember, Labels
      <3>4. \A q \in Requests :
               /\ local'[q].entity \in past \cup {None}
               /\ pc'[q] \in {"fill", "save"} => local'[q].entity # None /\ local'[q].ctx # "other"
               /\ local'[q].op = "findAll" => local'[q].ctx # "other"
        BY <1>i, <2>2, <3>1, ConstantsAssumption DEF StateOK, Provenance, Goto, Remember
      <3> QED  BY <1>4, <1>i, <3>3, <3>4 DEF Load, CacheInv, StateOK, Provenance
    <2> QED  BY <1>4, <2>1, <2>2 DEF Load
  <1>5. ASSUME NEW r \in Requests, Fill(r) PROVE CacheInv'
    <2>1. local[r].op \in Operations /\ local[r].ctx \in Contexts
      BY <1>i, LocalFields DEF StateOK
    <2>2. local[r].entity \in past /\ local[r].ctx # "other"
      BY <1>5, <1>i DEF Fill, Provenance
    <2>3. /\ pc' \in [Requests -> Labels] /\ local' \in [Requests -> Local]
          /\ \A q \in Requests :
               /\ local'[q].entity \in past \cup {None}
               /\ pc'[q] \in {"fill", "save"} => local'[q].entity # None /\ local'[q].ctx # "other"
               /\ local'[q].op = "findAll" => local'[q].ctx # "other"
      BY <1>5, <2>1, <2>2, ProceedKeeps DEF Fill
    <2>4. /\ cache' \in [Keys -> Row \cup {None}]
          /\ \A k \in Keys : cache'[k] \in past \cup {None} /\ (k[2] = "other" => cache'[k] = None)
      <3>1. /\ Key(local[r].op, local[r].ctx) \in Keys
            /\ Key(local[r].op, local[r].ctx)[2] # "other"
        BY <2>1, <2>2, KeyType
      <3> QED  BY <1>5, <1>i, <2>2, <3>1 DEF Fill, StateOK, Provenance
    <2> QED  BY <1>5, <1>i, <2>3, <2>4 DEF Fill, CacheInv, StateOK, Provenance
  <1>6. ASSUME NEW r \in Requests, Reject(r) PROVE CacheInv'
    BY <1>6, <1>i, FinishKeeps DEF Reject, CacheInv, StateOK, Provenance
  <1>7. ASSUME NEW r \in Requests, NEW new \in Row, SaveRow(r, new) PROVE CacheInv'
    BY <1>7, <1>i DEF SaveRow, Goto, CacheInv, StateOK, Provenance, Labels
  <1>8. ASSUME NEW r \in Requests, SaveUpdate(r) \/ SaveRemove(r) PROVE CacheInv'
    <2>1. SUFFICES ASSUME pc[r] = "save" PROVE CacheInv'
      BY <1>8 DEF SaveUpdate, SaveRemove, SaveRow
    <2>2. local[r].entity \in Row
      BY <1>i, <2>1 DEF Provenance, StateOK
    <2>3. CASE SaveUpdate(r)
      BY <1>7, <2>2, <2>3, UpdatedRow DEF SaveUpdate
    <2>4. CASE SaveRemove(r)
      BY <1>7, <2>2, <2>4, RemovedRow DEF SaveRemove
    <2> QED  BY <1>8, <2>3, <2>4
  <1>9. ASSUME NEW r \in Requests, DelEntity(r) \/ DelEntityAll(r) \/ DelLists(r)
        PROVE  CacheInv'
    <2>1. PICK k \in Keys : cache' = [cache EXCEPT ![k] = None]
      BY <1>9 DEF DelEntity, DelEntityAll, DelLists, Clear, Keys, Contexts
    <2> QED  BY <1>9, <1>i, <2>1, ClearKeeps
        DEF DelEntity, DelEntityAll, DelLists, Goto, CacheInv, StateOK, Provenance, Labels
  <1>10. ASSUME NEW r \in Requests, DelListsAll(r) PROVE CacheInv'
    <2>1. PICK k \in Keys : cache' = [cache EXCEPT ![k] = None]
      BY <1>10 DEF DelListsAll, Clear, Keys, Contexts
    <2> QED  BY <1>10, <1>i, <2>1, ClearKeeps, FinishKeeps
        DEF DelListsAll, CacheInv, StateOK, Provenance
  <1>11. ASSUME NEW r \in Requests, Abort(r) PROVE CacheInv'
    <2>1. aborts' \in 0 .. MaxAborts
      BY <1>11, <1>i, ConstantsAssumption DEF Abort, StateOK
    <2> QED  BY <1>11, <1>i, <2>1, FinishKeeps DEF Abort, CacheInv, StateOK, Provenance
  <1>12. CASE UNCHANGED vars
    BY <1>12, <1>i DEF vars, CacheInv, StateOK, Provenance
  <1> QED  BY <1>1, <1>2, <1>3, <1>4, <1>5, <1>6, <1>8, <1>9, <1>10, <1>11, <1>12 DEF Next

\* The types of the history of overlaps and of the kind of service.
HistoryOK == overlapped \in BOOLEAN
ServiceOK == throughCache \in BOOLEAN

\* The history of overlaps is a truth value.
LEMMA OverlappedType == HistoryOK /\ [Next]_vars => HistoryOK'
  <1> SUFFICES ASSUME HistoryOK, [Next]_vars PROVE HistoryOK'
    OBVIOUS
  <1>1. ASSUME NEW r, NEW label, Goto(r, label) PROVE HistoryOK'
    BY <1>1, Zenon DEF Goto, HistoryOK
  <1>2. ASSUME NEW r, Finish(r) PROVE HistoryOK'
    BY <1>1, <1>2, Zenon DEF Finish
  <1>3. ASSUME NEW r, NEW op, NEW ctx, NEW e, Proceed(r, op, ctx, e)
        PROVE  HistoryOK'
    BY <1>1, <1>2, <1>3, Zenon DEF Proceed
  <1>4. ASSUME NEW r, NEW new, SaveRow(r, new) PROVE HistoryOK'
    BY <1>1, <1>4, Zenon DEF SaveRow, HistoryOK
  <1>5. ASSUME NEW r \in Requests, NEW op \in Operations, NEW ctx \in Contexts,
               Lookup(r, op, ctx) \/ LoadDirectly(r, op, ctx)
        PROVE  HistoryOK'
    BY <1>1, <1>3, <1>5, Zenon DEF Lookup, LoadDirectly
  <1>6. ASSUME NEW r \in Requests,
               \/ Load(r) \/ Fill(r) \/ Reject(r) \/ SaveUpdate(r) \/ SaveRemove(r)
               \/ DelEntity(r) \/ DelEntityAll(r) \/ DelLists(r) \/ DelListsAll(r) \/ Abort(r)
        PROVE  HistoryOK'
    BY <1>1, <1>2, <1>3, <1>4, <1>6, Zenon
       DEF Load, Fill, Reject, SaveUpdate, SaveRemove, DelEntity, DelEntityAll, DelLists,
           DelListsAll, Abort
  <1>7. ASSUME NEW key \in Keys, Expire(key) PROVE HistoryOK'
    BY <1>7, Zenon DEF Expire, HistoryOK
  <1>8. CASE UNCHANGED vars
    BY <1>8, Zenon DEF vars, HistoryOK
  <1> QED
    BY <1>5, <1>6, <1>7, <1>8 DEF Next

\* A service stays of its kind.
LEMMA ServiceType == ServiceOK /\ [Next]_vars => ServiceOK'
  <1> SUFFICES ASSUME ServiceOK, [Next]_vars PROVE UNCHANGED throughCache
    BY Zenon DEF ServiceOK
  <1>1. ASSUME NEW key \in Keys, Expire(key) PROVE UNCHANGED throughCache
    BY <1>1 DEF Expire
  <1>2. CASE UNCHANGED vars
    BY <1>2 DEF vars
  <1> QED  BY <1>1, <1>2 DEF Next

\* The state of the cache and of every request has the declared shape.
THEOREM TypeCorrect == Spec => []TypeOK
  <1>1. Init => HistoryOK
    BY DEF Init, HistoryOK
  <1>2. CacheInv /\ HistoryOK /\ ServiceOK => TypeOK
    BY DEF CacheInv, TypeOK, HistoryOK, ServiceOK
  <1>3. Init => ServiceOK
    BY DEF Init, ServiceOK
  <1> QED
    BY InitProvenance, NextProvenance, OverlappedType, ServiceType, <1>1, <1>2, <1>3, PTL DEF Spec

-----------------------------------------------------------------------------
\* One step of the service is a write of the store, a change of one copy, or
\* neither, as seen by LaggingCopies.
LEMMA StepIsLagging ==
  ASSUME CacheInv, [Next]_vars
  PROVE  [Lagging!Next]_<<row, past, cache>>
  <1>i. StateOK /\ Provenance
    BY DEF CacheInv
  <1>k. ASSUME NEW k \in Keys, k[2] # "other", NEW v \in past \cup {None},
               cache' = [cache EXCEPT ![k] = v], UNCHANGED <<row, past>>
        PROVE  Lagging!Next
    <2>1. k \notin {<<"entity", "other">>, <<"list", "other">>}
      BY <1>k
    <2> QED  BY <1>k, <2>1 DEF Lagging!Next, Lagging!Keep
  <1>1. ASSUME NEW key \in Keys, Expire(key) PROVE Lagging!Next
    <2>1. key[2] # "other"
      BY <1>1, <1>i DEF Expire, Expires, Provenance
    <2> QED  BY <1>1, <1>k, <2>1 DEF Expire
  <1>2. ASSUME NEW r \in Requests, Fill(r) PROVE Lagging!Next
    <2>1. local[r].op \in Operations /\ local[r].ctx \in Contexts
      BY <1>i, LocalFields DEF StateOK
    <2>2. local[r].entity \in past /\ local[r].ctx # "other"
      BY <1>2, <1>i DEF Fill, Provenance
    <2>3. /\ Key(local[r].op, local[r].ctx) \in Keys
          /\ Key(local[r].op, local[r].ctx)[2] # "other"
      BY <2>1, <2>2, KeyType
    <2> QED  BY <1>2, <1>k, <2>2, <2>3 DEF Fill
  <1>3. ASSUME NEW r \in Requests, SaveUpdate(r) \/ SaveRemove(r) PROVE Lagging!Next
    <2>1. local[r].entity \in Row
      BY <1>3, <1>i DEF SaveUpdate, SaveRemove, SaveRow, Provenance, StateOK
    <2>2. ASSUME NEW new \in Row, SaveRow(r, new) PROVE Lagging!Next
      BY <2>2 DEF SaveRow, Lagging!Next, Lagging!Write
    <2>3. CASE SaveUpdate(r)
      BY <2>1, <2>2, <2>3, UpdatedRow DEF SaveUpdate
    <2>4. CASE SaveRemove(r)
      BY <2>1, <2>2, <2>4, RemovedRow DEF SaveRemove
    <2> QED  BY <1>3, <2>3, <2>4
  <1>4. ASSUME NEW r \in Requests,
               DelEntity(r) \/ DelEntityAll(r) \/ DelLists(r) \/ DelListsAll(r)
        PROVE  Lagging!Next
    <2>1. PICK k \in Keys : k[2] # "other" /\ cache' = [cache EXCEPT ![k] = None]
      BY <1>4 DEF DelEntity, DelEntityAll, DelLists, DelListsAll, Clear, Keys, Contexts
    <2> QED  BY <1>4, <1>k, <2>1 DEF DelEntity, DelEntityAll, DelLists, DelListsAll
  <1>5. ASSUME NEW r \in Requests, NEW op \in Operations, NEW ctx \in Contexts,
               Lookup(r, op, ctx) \/ LoadDirectly(r, op, ctx)
        PROVE  UNCHANGED <<row, past, cache>>
    BY <1>5 DEF Lookup, LoadDirectly
  <1>6. ASSUME NEW r \in Requests, Load(r) \/ Reject(r) \/ Abort(r)
        PROVE  UNCHANGED <<row, past, cache>>
    BY <1>6 DEF Load, Reject, Abort
  <1>7. CASE UNCHANGED vars
    BY <1>7 DEF vars
  <1> QED  BY <1>1, <1>2, <1>3, <1>4, <1>5, <1>6, <1>7 DEF Next

\* The cache implements LaggingCopies, in whichever order the requests of any
\* number of instances interleave, crash, or find their keys expired.
THEOREM CacheLagsOnly == Spec => ImplementsLagging
  <1>1. Init => Lagging!Init
    BY DEF Init, Lagging!Init
  <1>2. CacheInv /\ [Next]_vars => [Lagging!Next]_<<row, past, cache>>
    BY StepIsLagging
  <1> QED  BY <1>1, <1>2, InitProvenance, NextProvenance, PTL
      DEF Spec, ImplementsLagging, Lagging!Spec

-----------------------------------------------------------------------------
(* One request at a time                                                   *)

\* The keys that a write has yet to delete.
Doomed(label) ==
    CASE label = "delEntity" -> {key \in Keys : key[2] # "other"}
      [] label = "delEntityAll" -> {key \in Keys : key[2] # "other" /\ key # <<"entity", "own">>}
      [] label = "delLists" -> {<<"list", "own">>, <<"list", "all">>}
      [] label = "delListsAll" -> {<<"list", "all">>}
      [] OTHER -> {}

\* Without overlaps every key shows the row or is about to be deleted, and what
\* a request has in hand is the row; a service that loads directly saves the
\* row even after handlers have died.
Calm ==
    /\ ~overlapped => \A r, q \in Requests : r # q => pc[r] = "idle" \/ pc[q] = "idle"
    /\ ~overlapped /\ aborts = 0 =>
          /\ \A key \in Keys : Fresh(key) \/ \E r \in Requests : key \in Doomed(pc[r])
          /\ \A r \in Requests : pc[r] \in {"fill", "save"} => local[r].entity = row
    /\ ~overlapped /\ ~throughCache =>
          \A r \in Requests : pc[r] = "save" => local[r].entity = row
    /\ ~throughCache =>
          \A r \in Requests : pc[r] \in {"load", "fill"} => local[r].op \in {"findOne", "findAll"}

\* A request that moves without overlaps moves alone.
LEMMA MovesAlone ==
  ASSUME CacheInv, Calm, NEW r \in Requests, NEW label, Goto(r, label), ~overlapped',
         pc[r] # "idle" \/ label # "idle"
  PROVE  ~overlapped /\ \A q \in Requests \ {r} : pc[q] = "idle" /\ pc'[q] = "idle"
  <1>1. ~overlapped /\ (label = "idle" \/ \A q \in Requests \ {r} : pc[q] = "idle")
    BY Zenon DEF Goto, Overlaps
  <1>2. \A q \in Requests \ {r} : pc[q] = "idle"
    BY <1>1 DEF Calm
  <1> QED
    BY <1>1, <1>2 DEF Goto, CacheInv, StateOK

\* What a move has to show to stay calm.
LEMMA MovesCalmly ==
  ASSUME CacheInv, Calm, NEW r \in Requests, NEW label, NEW l, Goto(r, label),
         local' = [local EXCEPT ![r] = l], throughCache' = throughCache,
         pc[r] # "idle" \/ label # "idle",
         ~overlapped' /\ aborts' = 0 =>
             /\ \A key \in Keys : Fresh(key)' \/ key \in Doomed(label)
             /\ label \in {"fill", "save"} => l.entity = row',
         ~overlapped' /\ ~throughCache /\ label = "save" => l.entity = row',
         ~throughCache /\ label \in {"load", "fill"} => l.op \in {"findOne", "findAll"}
  PROVE  Calm'
  <1>1. /\ pc'[r] = label /\ local'[r] = l
        /\ \A q \in Requests \ {r} : pc'[q] = pc[q] /\ local'[q] = local[q]
    BY DEF Goto, CacheInv, StateOK
  <1>2. ~overlapped' => \A q \in Requests \ {r} : pc'[q] = "idle"
    BY MovesAlone
  <1>3. (~overlapped => \A p, q \in Requests : p # q => pc[p] = "idle" \/ pc[q] = "idle")'
    BY <1>2
  <1>4. (~overlapped /\ aborts = 0 =>
          /\ \A key \in Keys : Fresh(key) \/ \E q \in Requests : key \in Doomed(pc[q])
          /\ \A q \in Requests : pc[q] \in {"fill", "save"} => local[q].entity = row)'
    <2> SUFFICES ASSUME ~overlapped', aborts' = 0
                 PROVE  /\ \A key \in Keys : Fresh(key)' \/ \E q \in Requests : key \in Doomed(pc[q])'
                        /\ \A q \in Requests : pc'[q] \in {"fill", "save"} => local'[q].entity = row'
      OBVIOUS
    <2>1. \A key : (key \in Doomed(pc[r]))' <=> key \in Doomed(label)
      BY <1>1 DEF Doomed
    <2> QED
      BY <1>1, <1>2, <2>1
  <1>5. (~overlapped /\ ~throughCache =>
          \A q \in Requests : pc[q] = "save" => local[q].entity = row)'
    BY <1>1, <1>2
  <1>6. (~throughCache =>
          \A q \in Requests : pc[q] \in {"load", "fill"} => local[q].op \in {"findOne", "findAll"})'
    BY <1>1 DEF Calm
  <1> QED
    BY <1>3, <1>4, <1>5, <1>6 DEF Calm

\* Before a move the keys are fresh but for those that the request deletes.
LEMMA FreshBut ==
  ASSUME CacheInv, Calm, NEW r \in Requests, NEW label, Goto(r, label), ~overlapped', aborts = 0,
         pc[r] # "idle" \/ label # "idle"
  PROVE  /\ \A key \in Keys : Fresh(key) \/ key \in Doomed(pc[r])
         /\ pc[r] \in {"fill", "save"} => local[r].entity = row
  <1>1. ~overlapped /\ \A q \in Requests \ {r} : pc[q] = "idle"
    BY MovesAlone
  <1>2. Doomed("idle") = {}
    BY DEF Doomed
  <1> QED
    BY <1>1, <1>2 DEF Calm

\* A request that reads a copy, from the cache or from the database.
LEMMA ProceedsCalmly ==
  ASSUME CacheInv, Calm, NEW r \in Requests, NEW op \in Operations, NEW ctx \in Contexts,
         NEW e, Proceed(r, op, ctx, e), throughCache' = throughCache, row' = row,
         pc[r] # "idle" \/ op \in {"update", "remove"}, pc[r] \in {"idle", "fill"},
         aborts' = aborts,
         ~overlapped' /\ aborts = 0 =>
             /\ \A key \in Keys : Fresh(key)'
             /\ op \in {"update", "remove"} => e = row,
         ~throughCache /\ op \in {"update", "remove"} => e = row
  PROVE  Calm'
  <1>1. CASE op \in {"findOne", "findAll"} /\ Finish(r)
    <2>1. pc[r] # "idle"
      BY <1>1
    <2> QED
      BY <1>1, <2>1, MovesCalmly DEF Finish
  <1>2. CASE op \in {"update", "remove"} /\ Goto(r, "save") /\ Remember(r, op, ctx, e)
    <2> DEFINE l == [op |-> op, ctx |-> ctx, entity |-> e]
    <2>1. l.entity = e
      OBVIOUS
    <2>2. local' = [local EXCEPT ![r] = l]
      BY <1>2 DEF Remember
    <2> HIDE DEF l
    <2> QED
      BY <1>2, <2>1, <2>2, MovesCalmly
  <1> QED
    BY <1>1, <1>2 DEF Proceed

LEMMA CalmInit == Init => Calm
  BY DEF Init, Calm, Fresh

LEMMA CalmStep == CacheInv /\ Calm /\ [Next]_vars => Calm'
  <1> SUFFICES ASSUME CacheInv, Calm, [Next]_vars PROVE Calm'
    OBVIOUS
  <1>i. StateOK /\ Provenance
    BY DEF CacheInv
  <1>0. Doomed("idle") = {} /\ Doomed("load") = {} /\ Doomed("fill") = {} /\ Doomed("save") = {}
    BY DEF Doomed
  <1>1. ASSUME NEW key \in Keys, Expire(key) PROVE Calm'
    <2>1. /\ cache' = [cache EXCEPT ![key] = None]
          /\ UNCHANGED <<throughCache, row, pc, local, aborts, overlapped>>
      BY <1>1 DEF Expire
    <2>2. \A k \in Keys : Fresh(k) => Fresh(k)'
      BY <1>i, <2>1 DEF Fresh, StateOK
    <2>3. \A k, q : (k \in Doomed(pc[q]))' <=> k \in Doomed(pc[q])
      BY <2>1 DEF Doomed
    <2> QED
      BY <2>1, <2>2, <2>3 DEF Calm
  <1>2. CASE UNCHANGED vars
    BY <1>2 DEF vars, Calm, Fresh, Doomed
  <1> SUFFICES ASSUME throughCache' = throughCache,
                      NEW r \in Requests,
                      \/ \E op \in Operations, ctx \in Contexts :
                            Lookup(r, op, ctx) \/ LoadDirectly(r, op, ctx)
                      \/ Load(r) \/ Fill(r) \/ Reject(r) \/ SaveUpdate(r) \/ SaveRemove(r)
                      \/ DelEntity(r) \/ DelEntityAll(r) \/ DelLists(r) \/ DelListsAll(r)
                      \/ Abort(r)
               PROVE  Calm'
    BY <1>1, <1>2 DEF Next
  <1>3. ASSUME NEW op \in Operations, NEW ctx \in Contexts, Lookup(r, op, ctx) PROVE Calm'
    <2>1. /\ pc[r] = "idle" /\ row' = row /\ cache' = cache /\ aborts' = aborts
          /\ op \in {"update", "remove"} => throughCache
          /\ ctx = "other" => cache[Key(op, ctx)] = None
      BY <1>3, <1>i, KeyType DEF Lookup, Provenance
    <2>2. CASE cache[Key(op, ctx)] # None /\ op \in {"update", "remove"}
               /\ Proceed(r, op, ctx, cache[Key(op, ctx)])
      <3>1. Goto(r, "save")
        BY <2>2 DEF Proceed
      <3>2. ~overlapped' /\ aborts = 0 => \A k \in Keys : Fresh(k)
        BY <1>0, <2>1, <3>1, FreshBut
      <3>3. ~overlapped' /\ aborts = 0 =>
              (\A k \in Keys : Fresh(k)') /\ cache[Key(op, ctx)] = row
        BY <2>1, <2>2, <3>2, KeyType DEF Fresh
      <3> QED
        BY <2>1, <2>2, <3>3, ProceedsCalmly
    <2>3. CASE op \in {"findOne", "findAll"} /\ Finish(r)
      <3>1. /\ pc' = pc
            /\ \A q \in Requests : q # r => local'[q] = local[q]
        BY <1>i, <2>1, <2>3 DEF Finish, Goto, StateOK
      <3>2. overlapped' <=> overlapped
        BY <2>3, Zenon DEF Finish, Goto
      <3>3. \A k, q : (k \in Doomed(pc[q]))' <=> k \in Doomed(pc[q])
        BY <3>1 DEF Doomed
      <3> QED
        BY <1>i, <2>1, <3>1, <3>2, <3>3 DEF Calm, Fresh
    <2>4. CASE Goto(r, "load") /\ Remember(r, op, ctx, None)
      <3> DEFINE l == [op |-> op, ctx |-> ctx, entity |-> None]
      <3>1. l.op = op /\ local' = [local EXCEPT ![r] = l]
        BY <2>4 DEF Remember
      <3>2. ~overlapped' /\ aborts = 0 => \A k \in Keys : Fresh(k)
        BY <1>0, <2>1, <2>4, FreshBut
      <3>3. \A k \in Keys : Fresh(k) => Fresh(k)'
        BY <2>1 DEF Fresh
      <3> HIDE DEF l
      <3> QED
        BY <2>1, <2>4, <3>1, <3>2, <3>3, MovesCalmly DEF Operations
    <2>5. CASE cache[Key(op, ctx)] # None /\ Proceed(r, op, ctx, cache[Key(op, ctx)])
      BY <2>2, <2>3, <2>5 DEF Proceed
    <2> QED
      BY <1>3, <2>4, <2>5 DEF Lookup
  <1>4. ASSUME NEW op \in Operations, NEW ctx \in Contexts, LoadDirectly(r, op, ctx) PROVE Calm'
    <2>1. /\ pc[r] = "idle" /\ row' = row /\ cache' = cache /\ aborts' = aborts
          /\ op \in {"update", "remove"} /\ Goto(r, "save") /\ Remember(r, op, ctx, row)
      BY <1>4 DEF LoadDirectly
    <2>2. ~overlapped' /\ aborts = 0 => \A k \in Keys : Fresh(k)
      BY <1>0, <2>1, FreshBut
    <2>3. ~overlapped' /\ aborts = 0 => \A k \in Keys : Fresh(k)'
      BY <2>1, <2>2 DEF Fresh
    <2>4. Proceed(r, op, ctx, row)
      BY <2>1 DEF Proceed
    <2> QED
      BY <2>1, <2>3, <2>4, ProceedsCalmly
  <1>5. ASSUME Load(r) PROVE Calm'
    <2>1. /\ pc[r] = "load" /\ row' = row /\ cache' = cache /\ aborts' = aborts
          /\ local[r] \in Local
      BY <1>5, <1>i DEF Load, StateOK
    <2>2. ASSUME NEW label, Goto(r, label), ~overlapped', aborts = 0
          PROVE  \A k \in Keys : Fresh(k)'
      <3>1. \A k \in Keys : Fresh(k)
        BY <1>0, <2>1, <2>2, FreshBut
      <3> QED
        BY <2>1, <3>1 DEF Fresh
    <2>3. CASE Goto(r, "fill") /\ Remember(r, local[r].op, local[r].ctx, row)
      <3> DEFINE l == [op |-> local[r].op, ctx |-> local[r].ctx, entity |-> row]
      <3>1. l.op = local[r].op /\ l.entity = row /\ local' = [local EXCEPT ![r] = l]
        BY <2>3 DEF Remember
      <3>2. ~throughCache => l.op \in {"findOne", "findAll"}
        BY <2>1, <3>1 DEF Calm
      <3> HIDE DEF l
      <3> QED
        BY <2>1, <2>2, <2>3, <3>1, <3>2, MovesCalmly
    <2>4. CASE Finish(r)
      BY <2>1, <2>2, <2>4, MovesCalmly DEF Finish
    <2> QED
      BY <1>5, <2>3, <2>4 DEF Load
  <1>6. ASSUME Fill(r) PROVE Calm'
    <2>1. /\ pc[r] = "fill" /\ row' = row /\ aborts' = aborts
          /\ cache' = [cache EXCEPT ![Key(local[r].op, local[r].ctx)] = local[r].entity]
          /\ Proceed(r, local[r].op, local[r].ctx, local[r].entity)
      BY <1>6 DEF Fill
    <2>2. local[r].op \in Operations /\ local[r].ctx \in Contexts
      BY <1>i, LocalFields DEF StateOK
    <2>3. ASSUME ~overlapped', aborts = 0
          PROVE  (\A k \in Keys : Fresh(k)') /\ local[r].entity = row
      <3>1. (\A k \in Keys : Fresh(k)) /\ local[r].entity = row
        BY <1>0, <2>1, <2>3, FreshBut DEF Proceed, Finish
      <3> QED
        BY <1>i, <2>1, <3>1 DEF Fresh, StateOK
    <2>4. ~throughCache => local[r].op \in {"findOne", "findAll"}
      BY <2>1 DEF Calm
    <2> QED
      BY <2>1, <2>2, <2>3, <2>4, ProceedsCalmly
  <1>7. ASSUME Reject(r) \/ Abort(r) PROVE Calm'
    <2>1. /\ pc[r] # "idle" /\ row' = row /\ cache' = cache /\ Finish(r)
          /\ (pc[r] = "save" /\ aborts' = aborts) \/ aborts' = aborts + 1
      BY <1>7 DEF Reject, Abort
    <2>2. ~overlapped' /\ aborts' = 0 => \A k \in Keys : Fresh(k)'
      <3>1. aborts' = 0 => aborts = 0 /\ pc[r] = "save"
        BY <1>i, <2>1 DEF StateOK
      <3>2. ~overlapped' /\ aborts' = 0 => \A k \in Keys : Fresh(k)
        BY <1>0, <2>1, <3>1, FreshBut DEF Finish
      <3> QED
        BY <2>1, <3>2 DEF Fresh
    <2> QED
      BY <2>1, <2>2, MovesCalmly DEF Finish
  <1>8. ASSUME SaveUpdate(r) \/ SaveRemove(r) PROVE Calm'
    <2>1. /\ pc[r] = "save" /\ cache' = cache /\ local' = local /\ Goto(r, "delEntity")
      BY <1>8 DEF SaveUpdate, SaveRemove, SaveRow
    <2>2. \A k \in Keys : Fresh(k)' \/ k \in Doomed("delEntity")
      BY <1>i, <2>1 DEF Fresh, Provenance, Doomed
    <2>3. local' = [local EXCEPT ![r] = local[r]]
      BY <1>i, <2>1 DEF StateOK
    <2> QED
      BY <2>1, <2>2, <2>3, MovesCalmly
  <1>9. ASSUME DelEntity(r) \/ DelEntityAll(r) \/ DelLists(r) \/ DelListsAll(r) PROVE Calm'
    <2>1. PICK k \in Keys, label \in {"delEntityAll", "delLists", "delListsAll", "idle"} :
             /\ cache' = [cache EXCEPT ![k] = None] /\ row' = row /\ aborts' = aborts
             /\ pc[r] # "idle" /\ Goto(r, label) /\ \E l : local' = [local EXCEPT ![r] = l]
             /\ Doomed(pc[r]) \subseteq Doomed(label) \cup {k}
      <3>1. local' = local => local' = [local EXCEPT ![r] = local[r]]
        BY <1>i DEF StateOK
      <3>2. CASE DelEntity(r)
        <4>1. /\ pc[r] = "delEntity" /\ cache' = [cache EXCEPT ![<<"entity", "own">>] = None]
              /\ row' = row /\ aborts' = aborts /\ Goto(r, "delEntityAll") /\ local' = local
          BY <3>2 DEF DelEntity, Clear
        <4>2. <<"entity", "own">> \in Keys
          BY DEF Keys, Contexts
        <4>3. Doomed("delEntity") \subseteq Doomed("delEntityAll") \cup {<<"entity", "own">>}
          BY DEF Doomed
        <4> QED
          BY <3>1, <4>1, <4>2, <4>3
      <3>3. CASE DelEntityAll(r)
        <4>1. /\ pc[r] = "delEntityAll" /\ cache' = [cache EXCEPT ![<<"entity", "all">>] = None]
              /\ row' = row /\ aborts' = aborts /\ Goto(r, "delLists") /\ local' = local
          BY <3>3 DEF DelEntityAll, Clear
        <4>2. <<"entity", "all">> \in Keys
          BY DEF Keys, Contexts
        <4>3. Doomed("delEntityAll") \subseteq Doomed("delLists") \cup {<<"entity", "all">>}
          BY DEF Doomed, Keys, Contexts
        <4> QED
          BY <3>1, <4>1, <4>2, <4>3
      <3>4. CASE DelLists(r)
        <4>1. /\ pc[r] = "delLists" /\ cache' = [cache EXCEPT ![<<"list", "own">>] = None]
              /\ row' = row /\ aborts' = aborts /\ Goto(r, "delListsAll") /\ local' = local
          BY <3>4 DEF DelLists, Clear
        <4>2. <<"list", "own">> \in Keys
          BY DEF Keys, Contexts
        <4>3. Doomed("delLists") \subseteq Doomed("delListsAll") \cup {<<"list", "own">>}
          BY DEF Doomed
        <4> QED
          BY <3>1, <4>1, <4>2, <4>3
      <3>5. CASE DelListsAll(r)
        <4>1. /\ pc[r] = "delListsAll" /\ cache' = [cache EXCEPT ![<<"list", "all">>] = None]
              /\ row' = row /\ aborts' = aborts /\ Goto(r, "idle")
              /\ local' = [local EXCEPT ![r] = NoLocal]
          BY <3>5 DEF DelListsAll, Clear, Finish
        <4>2. <<"list", "all">> \in Keys
          BY DEF Keys, Contexts
        <4>3. Doomed("delListsAll") \subseteq Doomed("idle") \cup {<<"list", "all">>}
          BY DEF Doomed
        <4> QED
          BY <4>1, <4>2, <4>3
      <3> QED
        BY <1>9, <3>2, <3>3, <3>4, <3>5
    <2>2. PICK l : local' = [local EXCEPT ![r] = l]
      BY <2>1
    <2>3. ~overlapped' /\ aborts = 0 => \A x \in Keys : Fresh(x) \/ x \in Doomed(pc[r])
      BY <2>1, FreshBut
    <2>4. \A x \in Keys : (Fresh(x) => Fresh(x)') /\ (x = k => Fresh(x)')
      BY <1>i, <2>1 DEF Fresh, StateOK
    <2> QED
      BY <2>1, <2>2, <2>3, <2>4, MovesCalmly
  <1> QED
    BY <1>3, <1>4, <1>5, <1>6, <1>7, <1>8, <1>9

LEMMA CalmAlways == Spec => [](CacheInv /\ Calm)
  BY InitProvenance, NextProvenance, CalmInit, CalmStep, PTL DEF Spec

\* For any number of requests, columns and organizations: as long as requests have
\* not overlapped and no handler has died, every key shows the row whenever no
\* handler is at work.  While one is, the keys that are stale are those it has yet
\* to delete (Doomed), whichever of its DELs come first.
THEOREM CoherentKeys == Spec => []CoherentAtRest
  <1>1. Doomed("idle") = {}
    BY DEF Doomed
  <1>2. Calm => CoherentAtRest
    BY <1>1 DEF Calm, CoherentAtRest, Resting
  <1> QED
    BY CalmAlways, <1>2, PTL

\* For any number of requests: update saves isDeleted with the rest of the entity
\* and never brings a deleted row back, as long as requests have not overlapped
\* and, where it loads from the cache, no handler has died before its DELs.
THEOREM RemovedForGood == Spec => DeletedStaysDeleted
  <1>1. CacheInv /\ Calm /\ [Next]_vars => [Undisturbed /\ row.deleted => row'.deleted]_vars
    <2> SUFFICES ASSUME CacheInv, Calm, [Next]_vars, Undisturbed, row.deleted PROVE row'.deleted
      OBVIOUS
    <2>1. ASSUME NEW r \in Requests, pc[r] = "save" PROVE local[r].entity = row
      BY <2>1 DEF Calm, Undisturbed
    <2>2. row \in Row
      BY DEF CacheInv, StateOK
    <2>3. ASSUME NEW r \in Requests, NEW c \in Columns, NEW v \in Values,
                 SaveRow(r, [local[r].entity EXCEPT !.col[c] = v])
          PROVE  row'.deleted
      BY <2>1, <2>2, <2>3 DEF SaveRow, Row
    <2>4. ASSUME NEW r \in Requests, SaveRow(r, [local[r].entity EXCEPT !.deleted = TRUE])
          PROVE  row'.deleted
      BY <2>1, <2>2, <2>4 DEF SaveRow, Row
    <2>5. ASSUME NEW r \in Requests, SaveUpdate(r) \/ SaveRemove(r) PROVE row'.deleted
      BY <2>3, <2>4, <2>5 DEF SaveUpdate, SaveRemove
    <2>6. CASE row' = row
      BY <2>6
    <2>7. ASSUME NEW r \in Requests, NEW op \in Operations, NEW ctx \in Contexts,
                 Lookup(r, op, ctx) \/ LoadDirectly(r, op, ctx)
          PROVE  row' = row
      BY <2>7 DEF Lookup, LoadDirectly
    <2>8. ASSUME NEW r \in Requests,
                 \/ Load(r) \/ Fill(r) \/ Reject(r) \/ Abort(r)
                 \/ DelEntity(r) \/ DelEntityAll(r) \/ DelLists(r) \/ DelListsAll(r)
          PROVE  row' = row
      BY <2>8 DEF Load, Fill, Reject, Abort, DelEntity, DelEntityAll, DelLists, DelListsAll
    <2>9. ASSUME NEW key \in Keys, Expire(key) PROVE row' = row
      BY <2>9 DEF Expire
    <2>10. CASE UNCHANGED vars
      BY <2>6, <2>10 DEF vars
    <2> QED
      BY <2>5, <2>6, <2>7, <2>8, <2>9, <2>10 DEF Next
  <1> QED
    BY CalmAlways, <1>1, PTL DEF Spec, DeletedStaysDeleted
=============================================================================
