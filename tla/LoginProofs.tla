---------------------------- MODULE LoginProofs ----------------------------
(* Theorems about Session, for any number of users, organizations, roles   *)
(* and overlapping requests; about OtpLogin, for every set of requests and *)
(* every bound; and about Lists, for every page size and any number of     *)
(* rows and of writes.                                                     *)
EXTENDS OtpLogin, Session, Lists, FiniteSetTheorems, WellFoundedInduction, TLAPS

-----------------------------------------------------------------------------
(* Session                                                                 *)

\* Some row of u, now or earlier, was a super administrator's.
WasSuper(u) == \E g \in granted[u] : g.role = SuperAdmin

\* What request r may have in hand:
\*   - the payload it is about to sign has been in the row;
\*   - a switch was begun by a super administrator, and what it will save is
\*     what it will sign;
\*   - an update will write back an organization that the row has had.
InHand(r) ==
    /\ at[r] \in {"resetUser", "storeLogin", "storeRefresh", "storeSwitch"}
          => ClaimsOf(local[r]) \in granted[local[r].user]
    /\ at[r] = "saveSwitch"
          => /\ ClaimsOf(local[r]) = ClaimsOf(local[r].entity)
             /\ WasSuper(local[r].user)
    /\ at[r] \in {"saveUpdate", "saveUpdateRole"}
          => \E g \in granted[local[r].user] : g.org = local[r].entity.org

RowsGranted == \A u \in Users : ClaimsOf(account[u]) \in granted[u]

SessionInv ==
    /\ StateOK
    /\ IsFiniteSet(held)
    /\ RowsGranted
    /\ \A r \in Handlers : InHand(r)
    /\ ClaimsWereGranted
    /\ ForeignOrgNeedsSuper

-----------------------------------------------------------------------------
LEMMA NoLocalType == NoLocal \in Local
<1>1. PICK u \in Users, o \in Orgs : TRUE
  BY SessionAssumption
<1> DEFINE e == [active |-> TRUE, locked |-> FALSE, role |-> SuperAdmin, org |-> o,
                 session |-> FALSE]
           l == [user |-> u, entity |-> e, role |-> SuperAdmin, org |-> o, presented |-> 0,
                 asks |-> FALSE]
<1>2. l \in Local
  BY SessionAssumption DEF Local, Row
<1> QED
  BY <1>2 DEF NoLocal

\* A well-formed entity and payload make a well-formed request.
LEMMA LocalType ==
  ASSUME NEW u \in Users, NEW e \in Row, NEW role \in Roles, NEW org \in Orgs,
         NEW asks \in BOOLEAN
  PROVE  [user |-> u, entity |-> e, role |-> role, org |-> org, presented |-> 0,
          asks |-> asks] \in Local
  BY SessionAssumption DEF Local

LEMMA RowFields ==
  ASSUME NEW e \in Row
  PROVE  e.role \in Roles /\ e.org \in Orgs /\ e.active \in BOOLEAN
  BY DEF Row

LEMMA RowWithActive ==
  ASSUME NEW e \in Row, NEW a \in BOOLEAN
  PROVE  [e EXCEPT !.active = a] \in Row /\ [e EXCEPT !.active = a].org = e.org
  BY DEF Row

LEMMA RowWithOrg ==
  ASSUME NEW e \in Row, NEW o \in Orgs
  PROVE  /\ [e EXCEPT !.org = o] \in Row
         /\ [e EXCEPT !.org = o].org = o /\ [e EXCEPT !.org = o].role = e.role
  BY DEF Row

LEMMA InitialRowType == \A u \in Users : InitialRow(u) \in Row
  BY SessionAssumption DEF InitialRow, Row

LEMMA SessionInit == InitSessions => SessionInv
<1> SUFFICES ASSUME InitSessions
             PROVE  SessionInv
    OBVIOUS
<1> USE SessionAssumption, NoLocalType, InitialRowType DEF InitSessions
<1>1. StateOK /\ IsFiniteSet(held)
  BY FS_EmptySet DEF StateOK, Awaits, Claims, ClaimsOf, InitialRow
<1>2. RowsGranted /\ ClaimsWereGranted /\ ForeignOrgNeedsSuper
  BY DEF RowsGranted, ClaimsWereGranted, ForeignOrgNeedsSuper, ClaimsOf, InitialRow
<1>3. \A r \in Handlers : InHand(r)
  BY DEF InHand
<1> QED
  BY <1>1, <1>2, <1>3 DEF SessionInv

\* The history only grows.
Grows == \A u \in Users : granted[u] \subseteq granted'[u]

\* A write that keeps the organization among those the user may have.
LEMMA RowWrite ==
  ASSUME SessionInv, NEW u \in Users, NEW new \in Row, SetRow(u, new),
         new.org # HomeOrg[u] => WasSuper(u)
  PROVE  /\ account' \in [Users -> Row]
         /\ granted' \in [Users -> SUBSET Claims]
         /\ Grows
         /\ ClaimsOf(new) \in granted'[u]
         /\ RowsGranted'
         /\ ForeignOrgNeedsSuper'
<1> USE DEF SessionInv, StateOK, SetRow
<1>1. ClaimsOf(new) \in Claims
  BY DEF ClaimsOf, Claims, Row
<1>2. account' \in [Users -> Row] /\ granted' \in [Users -> SUBSET Claims]
  BY <1>1
<1>3. Grows /\ ClaimsOf(new) \in granted'[u]
  BY DEF Grows
<1>4. RowsGranted'
  BY <1>3 DEF RowsGranted, Grows
<1>5. ASSUME NEW v \in Users, NEW c \in granted'[v], c.org # HomeOrg[v]
      PROVE  \E g \in granted'[v] : g.role = SuperAdmin
  <2>1. CASE c \in granted[v]
    BY <1>3, <1>5, <2>1 DEF Grows, ForeignOrgNeedsSuper
  <2>2. CASE c \notin granted[v]
    <3>1. v = u /\ c = ClaimsOf(new)
      BY <1>5, <2>2
    <3>2. WasSuper(u)
      BY <1>5, <3>1 DEF ClaimsOf
    <3> QED
      BY <1>3, <3>1, <3>2 DEF Grows, WasSuper
  <2> QED
    BY <2>1, <2>2
<1>6. ForeignOrgNeedsSuper'
  BY <1>5 DEF ForeignOrgNeedsSuper
<1> QED
  BY <1>2, <1>3, <1>4, <1>6

\* The organization in the row is one the user may have.
LEMMA OwnOrg ==
  ASSUME SessionInv, NEW u \in Users, NEW c \in granted[u], c.org # HomeOrg[u]
  PROVE  WasSuper(u)
  BY DEF SessionInv, ForeignOrgNeedsSuper, WasSuper

LEMMA RowOrg ==
  ASSUME SessionInv, NEW u \in Users, account[u].org # HomeOrg[u]
  PROVE  WasSuper(u)
  BY OwnOrg DEF SessionInv, RowsGranted, ClaimsOf

\* A request that does not move keeps what it has in hand, whatever the others write.
LEMMA OthersKeep ==
  ASSUME SessionInv, Grows, NEW s \in Handlers, at'[s] = at[s], local'[s] = local[s]
  PROVE  InHand(s)'
<1>1. local[s] \in Local
  BY DEF SessionInv, StateOK
<1>2. local[s].user \in Users
  BY <1>1 DEF Local
<1>3. InHand(s)
  BY DEF SessionInv
<1> QED
  BY <1>2, <1>3 DEF Grows, InHand, WasSuper

LEMMA TokensKeep ==
  ASSUME SessionInv, Grows, held' = held
  PROVE  ClaimsWereGranted'
  BY DEF SessionInv, StateOK, Token, ClaimsWereGranted, Grows

-----------------------------------------------------------------------------
(* The three kinds of steps: a request that only reads, one that saves a   *)
(* row, one that signs.                                                    *)

\* Request r reads the row and goes on with l in hand.
LEMMA ReadStep ==
  ASSUME SessionInv, NEW r \in Handlers, NEW l \in Local, NEW label \in Awaits,
         Remember(r, l), Proceed(r, label),
         UNCHANGED <<account, held, deaths, signed, signedIn, granted>>,
         label \in {"resetUser", "storeRefresh"} => ClaimsOf(l) \in granted[l.user],
         label \notin {"storeLogin", "storeSwitch"},
         label = "saveSwitch" => ClaimsOf(l) = ClaimsOf(l.entity) /\ WasSuper(l.user),
         label \in {"saveUpdate", "saveUpdateRole"}
            => \E g \in granted[l.user] : g.org = l.entity.org
  PROVE  SessionInv'
<1> USE DEF Remember, Proceed
<1>1. StateOK' /\ IsFiniteSet(held)' /\ Grows /\ RowsGranted' /\ ForeignOrgNeedsSuper'
  BY DEF SessionInv, StateOK, Grows, RowsGranted, ForeignOrgNeedsSuper
<1>2. ASSUME NEW s \in Handlers, s # r
      PROVE  InHand(s)'
  BY <1>1, <1>2, OthersKeep DEF SessionInv, StateOK
<1>3. InHand(r)'
  BY DEF SessionInv, StateOK, InHand, WasSuper
<1> QED
  BY <1>1, <1>2, <1>3, TokensKeep DEF SessionInv

\* Request r writes its user's row and goes on to label.
LEMMA WriteStep ==
  ASSUME SessionInv, NEW r \in Handlers, NEW new \in Row, NEW label \in Awaits,
         NEW l \in Local, Remember(r, l),
         SetRow(local[r].user, new), Proceed(r, label),
         UNCHANGED <<held, deaths, signed>>, signedIn' \in [Users -> BOOLEAN],
         new.org # HomeOrg[local[r].user] => WasSuper(local[r].user),
         label \notin {"resetUser", "storeRefresh", "saveSwitch", "saveUpdate", "saveUpdateRole"},
         label \in {"storeLogin", "storeSwitch"} =>
            ClaimsOf(l) \in granted[l.user] \cup {ClaimsOf(new)} /\ l.user = local[r].user
  PROVE  SessionInv'
<1> DEFINE u == local[r].user
<1> USE DEF Remember, Proceed
<1>1. u \in Users
  BY DEF SessionInv, StateOK, Local
<1>2. /\ account' \in [Users -> Row] /\ granted' \in [Users -> SUBSET Claims] /\ Grows
      /\ ClaimsOf(new) \in granted'[u] /\ RowsGranted' /\ ForeignOrgNeedsSuper'
  BY <1>1, RowWrite
<1>3. StateOK' /\ IsFiniteSet(held)'
  BY <1>2 DEF SessionInv, StateOK
<1>4. ASSUME NEW s \in Handlers, s # r
      PROVE  InHand(s)'
  BY <1>2, <1>4, OthersKeep DEF SessionInv, StateOK
<1>5. InHand(r)'
  BY <1>1, <1>2 DEF SessionInv, StateOK, InHand, Grows
<1> QED
  BY <1>2, <1>3, <1>4, <1>5, TokensKeep DEF SessionInv

LEMMA SignStep ==
  ASSUME SessionInv, NEW r \in Handlers, SignAndStore(r), signedIn' \in [Users -> BOOLEAN],
         ClaimsOf(local[r]) \in granted[local[r].user]
  PROVE  SessionInv'
<1> DEFINE u == local[r].user
           serial == Cardinality(held) + 1
           t == [user |-> u, role |-> local[r].role, org |-> local[r].org, serial |-> serial]
           new == [account[u] EXCEPT !.session = TRUE]
<1>1. u \in Users /\ local[r].role \in Roles /\ local[r].org \in Orgs /\ new \in Row
  BY DEF SessionInv, StateOK, Local, Row
<1>2. serial \in 1 .. MaxTokens
  BY FS_CardinalityType, SessionAssumption DEF SessionInv, SignAndStore
<1>3. SetRow(u, new)
  BY DEF SignAndStore
<1>4. new.org # HomeOrg[u] => WasSuper(u)
  BY <1>1, RowOrg DEF SessionInv, StateOK, Row
<1>5. /\ account' \in [Users -> Row] /\ granted' \in [Users -> SUBSET Claims] /\ Grows
      /\ ClaimsOf(new) \in granted'[u] /\ RowsGranted' /\ ForeignOrgNeedsSuper'
  BY <1>1, <1>3, <1>4, RowWrite
<1>6. held' = held \cup {t} /\ t \in Token
  BY <1>1, <1>2 DEF SignAndStore, Token
<1>7. at' \in [Handlers -> Awaits] /\ local' \in [Handlers -> Local]
  BY NoLocalType DEF SessionInv, StateOK, SignAndStore, Return, Proceed, Remember, Awaits
<1>8. StateOK' /\ IsFiniteSet(held)'
  <2>1. IsFiniteSet(held')
    BY <1>6, FS_AddElement DEF SessionInv
  <2>2. held' \subseteq Token
    BY <1>6 DEF SessionInv, StateOK
  <2>3. signed' \in [Users -> 0 .. MaxTokens] /\ deaths' \in 0 .. MaxDeaths
    <3>1. signed' = [signed EXCEPT ![u] = serial] /\ deaths' = deaths
      BY DEF SignAndStore
    <3>2. serial \in 0 .. MaxTokens
      BY <1>2
    <3> HIDE DEF u, serial
    <3> QED
      BY <1>1, <3>1, <3>2 DEF SessionInv, StateOK
  <2> QED
    BY <1>5, <1>7, <2>1, <2>2, <2>3 DEF StateOK
<1>9. ASSUME NEW s \in Handlers
      PROVE  InHand(s)'
  <2>1. CASE s = r
    BY <2>1 DEF SessionInv, StateOK, SignAndStore, Return, Proceed, InHand
  <2>2. CASE s # r
    BY <1>5, <2>2, OthersKeep DEF SessionInv, StateOK, SignAndStore, Return, Proceed, Remember
  <2> QED
    BY <2>1, <2>2
<1>10. ClaimsWereGranted'
  <2>1. ClaimsOf(t) = ClaimsOf(local[r])
    BY DEF ClaimsOf
  <2> QED
    BY <1>1, <1>5, <1>6, <2>1 DEF SessionInv, StateOK, Token, ClaimsWereGranted, Grows
<1> QED
  BY <1>5, <1>8, <1>9, <1>10 DEF SessionInv

-----------------------------------------------------------------------------
LEMMA SessionNext == SessionInv /\ [NextSession]_sessionVars => SessionInv'
<1> SUFFICES ASSUME SessionInv, [NextSession]_sessionVars
             PROVE  SessionInv'
    OBVIOUS
<1>1. ASSUME NEW r \in Handlers, NEW u \in Users, BeginLogin(r, u)
      PROVE  SessionInv'
  <2> DEFINE l == [user |-> u, entity |-> InitialRow(u), role |-> account[u].role,
                   org |-> account[u].org, presented |-> 0, asks |-> FALSE]
  <2>1. l \in Local
    BY InitialRowType, SessionAssumption DEF SessionInv, StateOK, Local, Row
  <2>2. ClaimsOf(l) \in granted[u]
    BY DEF SessionInv, RowsGranted, ClaimsOf
  <2> QED
    BY <1>1, <2>1, <2>2, ReadStep DEF BeginLogin, Awaits
<1>2. ASSUME NEW r \in Handlers, NEW t \in held, BeginRefresh(r, t)
      PROVE  SessionInv'
  <2> DEFINE l == [user |-> t.user, entity |-> InitialRow(t.user), role |-> t.role,
                   org |-> t.org, presented |-> t.serial, asks |-> FALSE]
  <2>1. t \in Token
    BY DEF SessionInv, StateOK
  <2>2. l \in Local
    BY <2>1, InitialRowType, SessionAssumption DEF Local, Token
  <2>3. ClaimsOf(l) \in granted[t.user]
    BY DEF SessionInv, ClaimsWereGranted, ClaimsOf
  <2> QED
    BY <1>2, <2>2, <2>3, ReadStep DEF BeginRefresh, Awaits
<1>3. ASSUME NEW r \in Handlers, NEW t \in held, NEW org \in Orgs, BeginSwitch(r, t, org)
      PROVE  SessionInv'
  <2> DEFINE l == [user |-> t.user, entity |-> [account[t.user] EXCEPT !.org = org],
                   role |-> account[t.user].role, org |-> org, presented |-> 0, asks |-> FALSE]
  <2>1. t.user \in Users
    BY DEF SessionInv, StateOK, Token
  <2>2. account[t.user] \in Row
    BY <2>1 DEF SessionInv, StateOK
  <2>3. l \in Local
    BY <2>1, <2>2, RowFields, RowWithOrg, LocalType
  <2>4. ClaimsOf(l) = ClaimsOf(l.entity)
    BY <2>2, RowWithOrg DEF ClaimsOf
  <2>5. WasSuper(t.user)
    BY <1>3, <2>1 DEF SessionInv, BeginSwitch, SwitchAllowed, RowsGranted, ClaimsOf, WasSuper
  <2> QED
    BY <1>3, <2>3, <2>4, <2>5, ReadStep DEF BeginSwitch, Awaits
<1>4. ASSUME NEW r \in Handlers, NEW u \in Users, BeginUpdate(r, u)
      PROVE  SessionInv'
  <2>1. PICK asks \in BOOLEAN, act \in BOOLEAN, role \in Roles,
             label \in {"saveUpdate", "saveUpdateRole"} :
             /\ Remember(r, [user |-> u,
                             entity |-> [account[u] EXCEPT !.active = UpdatedActive(u, asks, act)],
                             role |-> role, org |-> account[u].org, presented |-> 0, asks |-> asks])
             /\ Proceed(r, label)
             /\ UNCHANGED <<account, held, deaths, signed, signedIn, granted>>
    BY <1>4 DEF BeginUpdate
  <2> DEFINE l == [user |-> u,
                   entity |-> [account[u] EXCEPT !.active = UpdatedActive(u, asks, act)],
                   role |-> role, org |-> account[u].org, presented |-> 0, asks |-> asks]
  <2>2. account[u] \in Row /\ UpdatedActive(u, asks, act) \in BOOLEAN
    <3>1. account[u] \in Row
      BY DEF SessionInv, StateOK
    <3>2. account[u].active \in BOOLEAN
      BY <3>1, RowFields
    <3> QED
      BY <3>1, <3>2, Zenon DEF UpdatedActive
  <2>3. l \in Local
    BY <2>2, RowFields, RowWithActive, LocalType
  <2>4. ClaimsOf(account[u]) \in granted[u] /\ ClaimsOf(account[u]).org = l.entity.org
    BY <2>2, RowWithActive DEF SessionInv, RowsGranted, ClaimsOf
  <2> QED
    BY <2>1, <2>3, <2>4, ReadStep DEF Awaits
<1>5. ASSUME NEW r \in Handlers, NEW u \in Users, BeginRemove(r, u)
      PROVE  SessionInv'
  <2> DEFINE l == [user |-> u, entity |-> [account[u] EXCEPT !.active = FALSE],
                   role |-> account[u].role, org |-> account[u].org, presented |-> 0, asks |-> FALSE]
  <2>1. account[u] \in Row
    BY DEF SessionInv, StateOK
  <2>2. l \in Local
    <3>1. FALSE \in BOOLEAN
      OBVIOUS
    <3> QED
      BY <2>1, <3>1, RowFields, RowWithActive, LocalType
  <2> QED
    BY <1>5, <2>2, ReadStep DEF BeginRemove, Awaits
<1>6. ASSUME NEW r \in Handlers, ClearLock(r)
      PROVE  SessionInv'
  <2> DEFINE u == local[r].user
             new == [account[u] EXCEPT !.locked = FALSE]
  <2>1. u \in Users /\ local[r] \in Local
    BY DEF SessionInv, StateOK, Local
  <2>2. new \in Row /\ new.org = account[u].org
    BY <2>1 DEF SessionInv, StateOK, Row
  <2>3. Remember(r, local[r])
    BY <1>6 DEF ClearLock, Remember, SessionInv, StateOK
  <2>4. ClaimsOf(local[r]) \in granted[u]
    BY <1>6 DEF ClearLock, SessionInv, InHand
  <2>5. new.org # HomeOrg[u] => WasSuper(u)
    BY <2>1, <2>2, RowOrg
  <2> QED
    BY <1>6, <2>1, <2>2, <2>3, <2>4, <2>5, WriteStep DEF ClearLock, Awaits, SessionInv, StateOK
<1>7. ASSUME NEW r \in Handlers, StoreLogin(r) \/ StoreRefresh(r) \/ StoreSwitch(r)
      PROVE  SessionInv'
  <2>1. ClaimsOf(local[r]) \in granted[local[r].user]
    BY <1>7 DEF StoreLogin, StoreRefresh, StoreSwitch, SessionInv, InHand
  <2> QED
    BY <1>7, <2>1, SignStep DEF StoreLogin, StoreRefresh, StoreSwitch, SessionInv, StateOK
<1>8. ASSUME NEW r \in Handlers, SaveSwitch(r)
      PROVE  SessionInv'
  <2> DEFINE u == local[r].user
             new == [local[r].entity EXCEPT !.session = account[u].session]
  <2>1. u \in Users /\ local[r] \in Local /\ new \in Row
    BY DEF SessionInv, StateOK, Local, Row
  <2>2. ClaimsOf(local[r]) = ClaimsOf(new) /\ WasSuper(u)
    BY <1>8, <2>1 DEF SaveSwitch, SessionInv, InHand, ClaimsOf, Local, Row
  <2>3. Remember(r, local[r])
    BY <1>8 DEF SaveSwitch, Remember, SessionInv, StateOK
  <2> QED
    BY <1>8, <2>1, <2>2, <2>3, WriteStep DEF SaveSwitch, Awaits, SessionInv, StateOK
<1>9. ASSUME NEW r \in Handlers, SaveUpdate(r)
      PROVE  SessionInv'
  <2> DEFINE u == local[r].user
             role == IF at[r] = "saveUpdateRole" THEN local[r].role ELSE account[u].role
             new == [local[r].entity EXCEPT !.role = role, !.session = account[u].session]
  <2>1. u \in Users /\ new \in Row /\ new.org = local[r].entity.org
    BY DEF SessionInv, StateOK, Local, Row
  <2>2. PICK g \in granted[u] : g.org = local[r].entity.org
    BY <1>9 DEF SaveUpdate, SessionInv, InHand
  <2>3. new.org # HomeOrg[u] => WasSuper(u)
    BY <2>1, <2>2, OwnOrg
  <2> QED
    BY <1>9, <2>1, <2>3, NoLocalType, WriteStep DEF SaveUpdate, Return, Awaits, SessionInv, StateOK
<1>10. ASSUME NEW r \in Handlers, SaveRemove(r)
       PROVE  SessionInv'
  <2> DEFINE u == local[r].user
             e == local[r].entity
             new == [account[u] EXCEPT !.active = e.active, !.locked = e.locked]
  <2>1. u \in Users /\ new \in Row /\ new.org = account[u].org
    BY DEF SessionInv, StateOK, Local, Row
  <2>2. new.org # HomeOrg[u] => WasSuper(u)
    BY <2>1, RowOrg
  <2> QED
    BY <1>10, <2>1, <2>2, NoLocalType, WriteStep DEF SaveRemove, Return, Awaits, SessionInv, StateOK
\* Steps of no request: every request keeps what it has in hand.
<1>11. ASSUME NEW u \in Users, NEW new \in Row, SetRow(u, new), new.org = account[u].org,
              UNCHANGED <<held, at, local, deaths, signed>>,
              signedIn' \in [Users -> BOOLEAN]
       PROVE  SessionInv'
  <2>1. new.org # HomeOrg[u] => WasSuper(u)
    BY <1>11, RowOrg
  <2>2. /\ account' \in [Users -> Row] /\ granted' \in [Users -> SUBSET Claims] /\ Grows
        /\ RowsGranted' /\ ForeignOrgNeedsSuper'
    BY <1>11, <2>1, RowWrite
  <2> QED
    BY <1>11, <2>2, OthersKeep, TokensKeep DEF SessionInv, StateOK
<1>12. ASSUME NEW r \in Handlers, NEW t \in held, Logout(r, t)
       PROVE  SessionInv'
  <2> DEFINE new == [account[t.user] EXCEPT !.session = FALSE]
  <2>1. t.user \in Users
    BY DEF SessionInv, StateOK, Token
  <2>2. new \in Row /\ new.org = account[t.user].org
    BY <2>1 DEF SessionInv, StateOK, Row
  <2> QED
    BY <1>11, <1>12, <2>1, <2>2 DEF Logout, SessionInv, StateOK
<1>13. ASSUME NEW u \in Users, SetLocked(u)
       PROVE  SessionInv'
  <2> DEFINE new == [account[u] EXCEPT !.locked = ~@]
  <2>1. new \in Row /\ new.org = account[u].org
    BY DEF SessionInv, StateOK, Row
  <2> QED
    BY <1>11, <1>13, <2>1 DEF SetLocked, SessionInv, StateOK
<1>14. ASSUME NEW r \in Handlers, HandlerDies(r)
       PROVE  SessionInv'
  <2>1. StateOK' /\ Grows
    BY <1>14, NoLocalType, SessionAssumption
       DEF HandlerDies, Return, Proceed, Remember, SessionInv, StateOK, Awaits, Grows
  <2>2. InHand(r)'
    BY <1>14 DEF HandlerDies, Return, Proceed, SessionInv, StateOK, InHand
  <2>3. ASSUME NEW s \in Handlers, s # r
        PROVE  InHand(s)'
    BY <1>14, <2>1, <2>3, OthersKeep DEF HandlerDies, Return, Proceed, Remember, SessionInv, StateOK
  <2> QED
    BY <1>14, <2>1, <2>2, <2>3, TokensKeep
       DEF HandlerDies, SessionInv, RowsGranted, ForeignOrgNeedsSuper
<1>15. CASE UNCHANGED sessionVars
  BY <1>15 DEF sessionVars, SessionInv, StateOK, RowsGranted, InHand, WasSuper, ClaimsWereGranted,
               ForeignOrgNeedsSuper
<1> QED
  BY <1>1, <1>2, <1>3, <1>4, <1>5, <1>6, <1>7, <1>8, <1>9, <1>10, <1>12, <1>13, <1>14, <1>15
     DEF NextSession

\* The type of the history of overlaps.
HistoryOK == overlapped \in BOOLEAN

\* The history of overlaps is a truth value: where a request moves on, it is a
\* disjunction, and elsewhere unchanged.
LEMMA OverlappedType == HistoryOK /\ [NextSession]_sessionVars => HistoryOK'
<1> SUFFICES ASSUME HistoryOK, [NextSession]_sessionVars PROVE HistoryOK'
  OBVIOUS
<1>1. ASSUME NEW r, NEW label, Proceed(r, label)
      PROVE  HistoryOK'
  BY <1>1, Zenon DEF Proceed, HistoryOK
<1>2. ASSUME NEW r, Return(r) \/ SignAndStore(r)
      PROVE  HistoryOK'
  BY <1>1, <1>2, Zenon DEF Return, SignAndStore
<1>3. ASSUME NEW r \in Handlers,
             \/ ClearLock(r) \/ StoreLogin(r) \/ StoreRefresh(r)
             \/ SaveSwitch(r) \/ StoreSwitch(r)
             \/ SaveUpdate(r) \/ SaveRemove(r) \/ HandlerDies(r)
      PROVE  HistoryOK'
  BY <1>1, <1>2, <1>3, Zenon DEF ClearLock, StoreLogin, StoreRefresh, SaveSwitch, StoreSwitch,
                                 SaveUpdate, SaveRemove, HandlerDies
<1>4. ASSUME NEW r \in Handlers, NEW u \in Users,
             BeginLogin(r, u) \/ BeginUpdate(r, u) \/ BeginRemove(r, u)
      PROVE  HistoryOK'
  BY <1>1, <1>4, Zenon DEF BeginLogin, BeginUpdate, BeginRemove
<1>5. ASSUME NEW r \in Handlers, NEW t \in held,
             BeginRefresh(r, t) \/ Logout(r, t) \/ \E org \in Orgs : BeginSwitch(r, t, org)
      PROVE  HistoryOK'
  BY <1>1, <1>5, Zenon DEF BeginRefresh, BeginSwitch, Logout, HistoryOK
<1>6. ASSUME NEW u \in Users, SetLocked(u)
      PROVE  HistoryOK'
  BY <1>6, Zenon DEF SetLocked, HistoryOK
<1>7. CASE UNCHANGED sessionVars
  BY <1>7, Zenon DEF sessionVars, HistoryOK
<1> QED
  BY <1>3, <1>4, <1>5, <1>6, <1>7 DEF NextSession

\* Every variable keeps its type.
THEOREM SessionTypeCorrect == SpecSessions => []SessionsOK
<1>1. InitSessions => HistoryOK
  BY DEF InitSessions, HistoryOK
<1>2. SessionInv /\ HistoryOK => SessionsOK
  BY DEF SessionInv, SessionsOK, HistoryOK
<1> QED
  BY SessionInit, SessionNext, OverlappedType, <1>1, <1>2, PTL DEF SpecSessions

\* The payload of every token was the row of its user at some time, whatever
\* handlers overlap and however stale the entities they save.
THEOREM TokensCarryGrantedClaims == SpecSessions => []ClaimsWereGranted
  BY SessionInit, SessionNext, PTL DEF SpecSessions, SessionInv

\* Nobody who has never been a SUPER_ADMIN leaves the home organization, in the
\* row or in a token.
THEOREM HomeUnlessSuper == SpecSessions => []ForeignOrgNeedsSuper
  BY SessionInit, SessionNext, PTL DEF SpecSessions, SessionInv

-----------------------------------------------------------------------------
(* Requests that have not overlapped: logout and deactivation last.        *)

Saves == {"saveSwitch", "saveUpdate", "saveUpdateRole", "saveRemove"}

\* Until requests overlap a stored session has been signed in to, a refresh is
\* of such a session, and a save activates nobody unless it was asked to.
Apart ==
  ~overlapped =>
    /\ \A r, q \in Handlers : r # q => at[r] = "idle" \/ at[q] = "idle"
    /\ \A u \in Users : account[u].session => signedIn[u]
    /\ \A r \in Handlers : at[r] = "storeRefresh" => signedIn[local[r].user]
    /\ \A r \in Handlers : at[r] \in Saves /\ local[r].entity.active
          => local[r].asks \/ account[local[r].user].active

LEMMA MovesApart ==
  ASSUME StateOK, Apart, NEW r \in Handlers, NEW label, Proceed(r, label), ~overlapped',
         at[r] # "idle" \/ label # "idle"
  PROVE  /\ ~overlapped /\ at'[r] = label
         /\ \A q \in Handlers \ {r} : at[q] = "idle" /\ at'[q] = "idle"
<1>1. ~overlapped /\ (label = "idle" \/ \A q \in Handlers \ {r} : at[q] = "idle")
  BY Zenon DEF Proceed, Overlaps
<1>2. \A q \in Handlers \ {r} : at[q] = "idle"
  BY <1>1 DEF Apart
<1> QED
  BY <1>1, <1>2 DEF Proceed, StateOK

\* What a step of a request has to show.
LEMMA ApartMove ==
  ASSUME StateOK, Apart, NEW r \in Handlers, NEW label, NEW l, Proceed(r, label), Remember(r, l),
         at[r] # "idle" \/ label # "idle",
         ~overlapped' => \A u \in Users : account'[u].session => signedIn'[u],
         ~overlapped' /\ label = "storeRefresh" => signedIn'[l.user],
         ~overlapped' /\ label \in Saves /\ l.entity.active => l.asks \/ account'[l.user].active
  PROVE  Apart'
<1> SUFFICES ASSUME ~overlapped'
             PROVE  (/\ \A p, q \in Handlers : p # q => at[p] = "idle" \/ at[q] = "idle"
                     /\ \A u \in Users : account[u].session => signedIn[u]
                     /\ \A q \in Handlers : at[q] = "storeRefresh" => signedIn[local[q].user]
                     /\ \A q \in Handlers : at[q] \in Saves /\ local[q].entity.active
                           => local[q].asks \/ account[local[q].user].active)'
    BY DEF Apart
<1>1. at'[r] = label /\ \A q \in Handlers \ {r} : at'[q] = "idle"
  BY MovesApart
<1>2. local'[r] = l
  BY DEF Remember, StateOK
<1>3. "idle" \notin Saves
  BY DEF Saves
<1>4. \A p, q \in Handlers : p # q => at'[p] = "idle" \/ at'[q] = "idle"
  BY <1>1
<1>5. \A q \in Handlers : at'[q] = "storeRefresh" => signedIn'[local'[q].user]
  BY <1>1, <1>2
<1>6. \A q \in Handlers : at'[q] \in Saves /\ local'[q].entity.active
                           => local'[q].asks \/ account'[local'[q].user].active
  BY <1>1, <1>2, <1>3
<1> QED
  BY <1>4, <1>5, <1>6

\* What a step finds in the row and in the hands of the request that takes it.
LEMMA FoundApart ==
  ASSUME StateOK, Apart, NEW r \in Handlers, NEW label, Proceed(r, label), ~overlapped',
         at[r] # "idle" \/ label # "idle"
  PROVE  /\ \A u \in Users : account[u].session => signedIn[u]
         /\ at[r] = "storeRefresh" => signedIn[local[r].user]
  BY MovesApart DEF Apart

LEMMA ApartInit == InitSessions => Apart
  BY DEF InitSessions, Apart, Saves, InitialRow

\* The steps of logins and of what they sign.
LEMMA SignApart ==
  ASSUME SessionInv, Apart, NEW r \in Handlers, at[r] # "idle", SignAndStore(r),
         \/ signedIn' = [signedIn EXCEPT ![local[r].user] = TRUE]
         \/ at[r] = "storeRefresh" /\ signedIn' = signedIn
  PROVE  Apart'
<1> DEFINE u == local[r].user
<1>1. u \in Users /\ StateOK
  BY DEF SessionInv, StateOK, Local
<1>2. Proceed(r, "idle") /\ Remember(r, NoLocal) /\ account' = [account EXCEPT ![u] = [account[u] EXCEPT !.session = TRUE]]
  BY DEF SignAndStore, Return, SetRow
<1> HIDE DEF u
<1>3. \A v \in Users \ {u} : account'[v] = account[v]
  BY <1>1, <1>2 DEF StateOK
<1>4. \A v \in Users : signedIn[v] => signedIn'[v]
  BY <1>1 DEF StateOK, u
<1>5. ~overlapped' => signedIn'[u]
  <2>1. CASE signedIn' = [signedIn EXCEPT ![u] = TRUE]
    BY <1>1, <2>1 DEF StateOK
  <2>2. CASE at[r] = "storeRefresh" /\ signedIn' = signedIn
    BY <1>1, <1>2, <2>2, FoundApart DEF u
  <2> QED
    BY <2>1, <2>2 DEF u
<1>6. ~overlapped' => \A v \in Users : account'[v].session => signedIn'[v]
  BY <1>1, <1>2, <1>3, <1>4, <1>5, FoundApart
<1> QED
  BY <1>1, <1>2, <1>6, ApartMove DEF Saves

\* A step that writes the row of its user and leaves the session as it was.
LEMMA WriteApart ==
  ASSUME SessionInv, Apart, NEW r \in Handlers, at[r] # "idle", NEW new, NEW label,
         SetRow(local[r].user, new), new.session => account[local[r].user].session,
         UNCHANGED signedIn, Proceed(r, label), label \notin Saves, label # "storeRefresh",
         Remember(r, NoLocal) \/ UNCHANGED local
  PROVE  Apart'
<1> DEFINE u == local[r].user
<1>1. u \in Users /\ StateOK
  BY DEF SessionInv, StateOK, Local
<1>2. account'[u] = new /\ \A v \in Users \ {u} : account'[v] = account[v]
  BY <1>1 DEF SetRow, StateOK
<1>3. PICK l : Remember(r, l)
  <2>1. UNCHANGED local => Remember(r, local[r])
    BY <1>1 DEF Remember, StateOK
  <2> QED
    BY <2>1
<1> HIDE DEF u
<1>4. ~overlapped' => \A v \in Users : account'[v].session => signedIn'[v]
  BY <1>1, <1>2, FoundApart DEF u
<1> QED
  BY <1>1, <1>3, <1>4, ApartMove

\* A request that begins, with l in hand.
LEMMA ReadApart ==
  ASSUME SessionInv, Apart, NEW r \in Handlers, NEW label, NEW l, Proceed(r, label), Remember(r, l),
         at[r] # "idle" \/ label # "idle", UNCHANGED <<account, signedIn>>,
         label = "storeRefresh" => account[l.user].session /\ l.user \in Users,
         label \in Saves /\ l.entity.active => l.asks \/ account[l.user].active
  PROVE  Apart'
<1>1. StateOK
  BY DEF SessionInv
<1>2. ~overlapped' => \A v \in Users : account[v].session => signedIn[v]
  BY <1>1, FoundApart
<1> QED
  BY <1>1, <1>2, ApartMove

LEMMA ApartStep == SessionInv /\ Apart /\ [NextSession]_sessionVars => Apart'
<1> SUFFICES ASSUME SessionInv, Apart, [NextSession]_sessionVars
             PROVE  Apart'
    OBVIOUS
<1>i. StateOK
  BY DEF SessionInv
<1>a. \A u \in Users : account[u] \in Row
  BY <1>i DEF StateOK
<1>t. \A t \in held : t.user \in Users
  BY <1>i DEF StateOK, Token
<1>1. ASSUME NEW u \in Users, SetLocked(u)
      PROVE  Apart'
  <2> DEFINE new == [account[u] EXCEPT !.locked = ~@]
  <2>1. new.session = account[u].session /\ new.active = account[u].active
    BY <1>a DEF Row
  <2>2. /\ account' = [account EXCEPT ![u] = new]
        /\ UNCHANGED <<at, local, signedIn, overlapped>>
    BY <1>1 DEF SetLocked, SetRow
  <2> HIDE DEF new
  <2>3. \A v \in Users : account'[v].session = account[v].session /\ account'[v].active = account[v].active
    BY <1>i, <2>1, <2>2 DEF StateOK
  <2>4. \A r \in Handlers : local[r].user \in Users
    BY <1>i DEF StateOK, Local
  <2> QED
    BY <2>2, <2>3, <2>4 DEF Apart
<1>2. ASSUME NEW r \in Handlers, NEW t \in held, Logout(r, t)
      PROVE  Apart'
  <2> DEFINE u == t.user
             new == [account[u] EXCEPT !.session = FALSE]
  <2>1. /\ at[r] = "idle" /\ account' = [account EXCEPT ![u] = new] /\ UNCHANGED <<at, local>>
        /\ signedIn' = [signedIn EXCEPT ![u] = FALSE]
    BY <1>2 DEF Logout, SetRow
  <2>2. ~overlapped' => ~overlapped /\ \A q \in Handlers \ {r} : at[q] = "idle"
    BY <1>2, Zenon DEF Logout, Overlaps
  <2>3. ~overlapped' => \A q \in Handlers : at[q] = "idle"
    BY <2>1, <2>2
  <2>4. u \in Users /\ ~new.session
    BY <1>a, <1>t DEF Row
  <2> HIDE DEF u, new
  <2>5. ~overlapped' => \A v \in Users : account'[v].session => signedIn'[v]
    BY <1>i, <2>1, <2>2, <2>4 DEF Apart, StateOK
  <2>6. "idle" \notin Saves
    BY DEF Saves
  <2> QED
    BY <2>1, <2>3, <2>5, <2>6 DEF Apart
<1>3. ASSUME NEW r \in Handlers, ClearLock(r)
      PROVE  Apart'
  <2> DEFINE new == [account[local[r].user] EXCEPT !.locked = FALSE]
  <2>1. new.session = account[local[r].user].session
    BY <1>a, <1>i DEF Row, StateOK, Local
  <2> HIDE DEF new
  <2>2. /\ at[r] # "idle" /\ SetRow(local[r].user, new) /\ Proceed(r, "storeLogin")
        /\ UNCHANGED <<signedIn, local>>
    BY <1>3 DEF ClearLock, new
  <2> QED
    BY <2>1, <2>2, WriteApart DEF Saves
<1>4. ASSUME NEW r \in Handlers, SaveSwitch(r)
      PROVE  Apart'
  <2> DEFINE new == [local[r].entity EXCEPT !.session = account[local[r].user].session]
  <2>1. new.session = account[local[r].user].session
    BY <1>i DEF Row, StateOK, Local
  <2> HIDE DEF new
  <2>2. /\ at[r] # "idle" /\ SetRow(local[r].user, new) /\ Proceed(r, "storeSwitch")
        /\ UNCHANGED <<signedIn, local>>
    BY <1>4 DEF SaveSwitch, new
  <2> QED
    BY <2>1, <2>2, WriteApart DEF Saves
<1>5. ASSUME NEW r \in Handlers, SaveUpdate(r)
      PROVE  Apart'
  <2> DEFINE u == local[r].user
             role == IF at[r] = "saveUpdateRole" THEN local[r].role ELSE account[u].role
             new == [local[r].entity EXCEPT !.role = role, !.session = account[u].session]
  <2>1. new.session = account[local[r].user].session
    BY <1>i DEF Row, StateOK, Local
  <2>2. SetRow(local[r].user, new)
    BY <1>5 DEF SaveUpdate
  <2> HIDE DEF new
  <2>3. /\ at[r] # "idle" /\ Proceed(r, "idle") /\ UNCHANGED signedIn /\ Remember(r, NoLocal)
    BY <1>5 DEF SaveUpdate, Return
  <2> QED
    BY <2>1, <2>2, <2>3, WriteApart DEF Saves
<1>6. ASSUME NEW r \in Handlers, SaveRemove(r)
      PROVE  Apart'
  <2> DEFINE u == local[r].user
             e == local[r].entity
             new == [account[u] EXCEPT !.active = e.active, !.locked = e.locked]
  <2>1. new.session = account[local[r].user].session
    BY <1>a, <1>i DEF Row, StateOK, Local
  <2>2. SetRow(local[r].user, new)
    BY <1>6 DEF SaveRemove
  <2> HIDE DEF new
  <2>3. /\ at[r] # "idle" /\ Proceed(r, "idle") /\ UNCHANGED signedIn /\ Remember(r, NoLocal)
    BY <1>6 DEF SaveRemove, Return
  <2> QED
    BY <2>1, <2>2, <2>3, WriteApart DEF Saves
<1>7. ASSUME NEW r \in Handlers, StoreLogin(r) \/ StoreRefresh(r) \/ StoreSwitch(r)
      PROVE  Apart'
  BY <1>7, SignApart DEF StoreLogin, StoreRefresh, StoreSwitch
<1>8. ASSUME NEW r \in Handlers, HandlerDies(r)
      PROVE  Apart'
  BY <1>8, ReadApart DEF HandlerDies, Return, Saves
<1>9. ASSUME NEW r \in Handlers, NEW u \in Users, BeginLogin(r, u)
      PROVE  Apart'
  <2>1. /\ \E l : Remember(r, l)
        /\ Proceed(r, "resetUser") /\ UNCHANGED <<account, signedIn>>
    BY <1>9 DEF BeginLogin
  <2> QED
    BY <2>1, ReadApart DEF Saves
<1>10. ASSUME NEW r \in Handlers, NEW t \in held, BeginRefresh(r, t)
       PROVE  Apart'
  <2> DEFINE l == [user |-> t.user, entity |-> InitialRow(t.user), role |-> t.role,
                   org |-> t.org, presented |-> t.serial, asks |-> FALSE]
  <2>1. l.user \in Users /\ account[l.user].session
    BY <1>10, <1>t DEF BeginRefresh
  <2>2. Remember(r, l) /\ Proceed(r, "storeRefresh") /\ UNCHANGED <<account, signedIn>>
    BY <1>10 DEF BeginRefresh
  <2> HIDE DEF l
  <2> QED
    BY <2>1, <2>2, ReadApart DEF Saves
<1>11. ASSUME NEW r \in Handlers, NEW t \in held, NEW org \in Orgs, BeginSwitch(r, t, org)
       PROVE  Apart'
  <2> DEFINE l == [user |-> t.user, entity |-> [account[t.user] EXCEPT !.org = org],
                   role |-> account[t.user].role, org |-> org, presented |-> 0, asks |-> FALSE]
  <2>1. account[l.user].active
    BY <1>11 DEF BeginSwitch, Validated
  <2>2. Remember(r, l) /\ Proceed(r, "saveSwitch") /\ UNCHANGED <<account, signedIn>>
    BY <1>11 DEF BeginSwitch
  <2> HIDE DEF l
  <2> QED
    BY <2>1, <2>2, ReadApart
<1>12. ASSUME NEW r \in Handlers, NEW u \in Users, BeginUpdate(r, u)
       PROVE  Apart'
  <2>1. PICK asks \in BOOLEAN, act \in BOOLEAN, role \in Roles,
             label \in {"saveUpdate", "saveUpdateRole"} :
             /\ Remember(r, [user |-> u,
                             entity |-> [account[u] EXCEPT !.active = UpdatedActive(u, asks, act)],
                             role |-> role, org |-> account[u].org, presented |-> 0, asks |-> asks])
             /\ Proceed(r, label)
             /\ UNCHANGED <<account, held, deaths, signed, signedIn, granted>>
    BY <1>12 DEF BeginUpdate
  <2> DEFINE e == [account[u] EXCEPT !.active = UpdatedActive(u, asks, act)]
             l == [user |-> u, entity |-> e,
                   role |-> role, org |-> account[u].org, presented |-> 0, asks |-> asks]
  <2>2. e.active => asks \/ account[u].active
    <3>1. e.active = UpdatedActive(u, asks, act)
      BY <1>a DEF Row
    <3>2. UpdatedActive(u, asks, act) => asks \/ account[u].active
      BY Zenon DEF UpdatedActive
    <3> QED
      BY <3>1, <3>2
  <2>3. l.entity.active => l.asks \/ account[l.user].active
    BY <2>2
  <2> HIDE DEF l
  <2>4. Remember(r, l)
    BY <2>1 DEF l
  <2> QED
    BY <2>1, <2>3, <2>4, ReadApart
<1>13. ASSUME NEW r \in Handlers, NEW u \in Users, BeginRemove(r, u)
       PROVE  Apart'
  <2> DEFINE e == [account[u] EXCEPT !.active = FALSE]
             l == [user |-> u, entity |-> e, role |-> account[u].role, org |-> account[u].org,
                   presented |-> 0, asks |-> FALSE]
  <2>1. ~l.entity.active
    BY <1>a DEF Row
  <2>2. Remember(r, l) /\ Proceed(r, "saveRemove") /\ UNCHANGED <<account, signedIn>>
    BY <1>13 DEF BeginRemove
  <2> HIDE DEF l
  <2> QED
    BY <2>1, <2>2, ReadApart
<1>14. CASE UNCHANGED sessionVars
  BY <1>14 DEF sessionVars, Apart
<1> QED
  BY <1>1, <1>2, <1>3, <1>4, <1>5, <1>6, <1>7, <1>8, <1>9, <1>10, <1>11, <1>12, <1>13, <1>14
     DEF NextSession

LEMMA SessionsApart == SpecSessions => [](SessionInv /\ Apart)
  BY SessionInit, SessionNext, ApartInit, ApartStep, PTL DEF SpecSessions

\* For any number of users and requests: until requests overlap, a session is
\* stored only after a login or a switch that no logout has followed.
THEOREM SessionAfterSignIn == SpecSessions => []SessionFollowsSignIn
<1>1. Apart => SessionFollowsSignIn
  BY Zenon DEF Apart, SessionFollowsSignIn
<1> QED
  BY SessionsApart, <1>1, PTL

\* A save of the row of its user by a request that activates nobody unasked.
LEMMA SavesSticking ==
  ASSUME StateOK, NEW r \in Handlers, NEW new, SetRow(local[r].user, new),
         new.active => account[local[r].user].active \/ local[r].asks
  PROVE  \A u \in Users : ~account[u].active /\ account'[u].active
            => \E q \in Handlers : local[q].user = u /\ local[q].asks
BY DEF SetRow, StateOK

LEMMA StickingStep ==
  ASSUME StateOK, Apart, [NextSession]_sessionVars, ~overlapped,
         NEW u \in Users, ~account[u].active, account'[u].active
  PROVE  \E r \in Handlers : local[r].user = u /\ local[r].asks
<1>a. \A v \in Users : account[v] \in Row
  BY DEF StateOK
<1>b. \A r \in Handlers : local[r].user \in Users /\ local[r].entity \in Row
  BY DEF StateOK, Local
<1>c. \A r \in Handlers : at[r] \in Saves /\ local[r].entity.active
        => local[r].asks \/ account[local[r].user].active
  BY DEF Apart
<1>1. ASSUME NEW r \in Handlers, ClearLock(r) \/ SignAndStore(r)
      PROVE  FALSE
  <2>1. PICK new : SetRow(local[r].user, new) /\ new.active = account[local[r].user].active
    <3>1. [account[local[r].user] EXCEPT !.locked = FALSE].active = account[local[r].user].active
      BY <1>a, <1>b DEF Row
    <3>2. [account[local[r].user] EXCEPT !.session = TRUE].active = account[local[r].user].active
      BY <1>a, <1>b DEF Row
    <3> QED
      BY <1>1, <3>1, <3>2 DEF ClearLock, SignAndStore
  <2> QED
    BY <2>1, <1>b DEF SetRow, StateOK
<1>2. ASSUME NEW r \in Handlers, SaveSwitch(r)
      PROVE  \E q \in Handlers : local[q].user = u /\ local[q].asks
  <2> DEFINE new == [local[r].entity EXCEPT !.session = account[local[r].user].session]
  <2>1. new.active = local[r].entity.active
    BY <1>b DEF Row
  <2> HIDE DEF new
  <2>2. SetRow(local[r].user, new) /\ at[r] \in Saves
    BY <1>2 DEF SaveSwitch, Saves, new
  <2> QED
    BY <1>c, <2>1, <2>2, SavesSticking
<1>3. ASSUME NEW r \in Handlers, SaveUpdate(r)
      PROVE  \E q \in Handlers : local[q].user = u /\ local[q].asks
  <2> DEFINE role == IF at[r] = "saveUpdateRole" THEN local[r].role ELSE account[local[r].user].role
             new == [local[r].entity EXCEPT !.role = role, !.session = account[local[r].user].session]
  <2>1. new.active = local[r].entity.active
    BY <1>b DEF Row
  <2>2. SetRow(local[r].user, new) /\ at[r] \in Saves
    BY <1>3 DEF SaveUpdate, Saves
  <2> HIDE DEF new
  <2> QED
    BY <1>c, <2>1, <2>2, SavesSticking
<1>4. ASSUME NEW r \in Handlers, SaveRemove(r)
      PROVE  \E q \in Handlers : local[q].user = u /\ local[q].asks
  <2> DEFINE e == local[r].entity
             new == [account[local[r].user] EXCEPT !.active = e.active, !.locked = e.locked]
  <2>1. new.active = local[r].entity.active
    BY <1>a, <1>b DEF Row
  <2>2. SetRow(local[r].user, new) /\ at[r] \in Saves
    BY <1>4 DEF SaveRemove, Saves
  <2> HIDE DEF new
  <2> QED
    BY <1>c, <2>1, <2>2, SavesSticking
<1>5. ASSUME NEW r \in Handlers, NEW t \in held, Logout(r, t)
      PROVE  FALSE
  <2>1. [account[t.user] EXCEPT !.session = FALSE].active = account[t.user].active
    BY <1>a DEF Row, StateOK, Token
  <2> QED
    BY <1>5, <2>1 DEF Logout, SetRow, StateOK, Token
<1>6. ASSUME NEW v \in Users, SetLocked(v)
      PROVE  FALSE
  <2> DEFINE new == [account[v] EXCEPT !.locked = ~@]
  <2>1. new.active = account[v].active
    BY <1>a DEF Row
  <2>2. account' = [account EXCEPT ![v] = new]
    BY <1>6 DEF SetLocked, SetRow
  <2> HIDE DEF new
  <2> QED
    BY <2>1, <2>2 DEF StateOK
<1>7. account' # account
  OBVIOUS
<1>8. ASSUME NEW r \in Handlers, NEW v \in Users,
             BeginLogin(r, v) \/ BeginUpdate(r, v) \/ BeginRemove(r, v)
      PROVE  FALSE
  BY <1>7, <1>8 DEF BeginLogin, BeginUpdate, BeginRemove
<1>9. ASSUME NEW r \in Handlers, NEW t \in held,
             BeginRefresh(r, t) \/ \E org \in Orgs : BeginSwitch(r, t, org)
      PROVE  FALSE
  BY <1>7, <1>9 DEF BeginRefresh, BeginSwitch
<1>10. ASSUME NEW r \in Handlers, HandlerDies(r)
       PROVE  FALSE
  BY <1>7, <1>10 DEF HandlerDies
<1>11. CASE UNCHANGED sessionVars
  BY <1>7, <1>11 DEF sessionVars
<1>12. ASSUME NEW r \in Handlers, StoreLogin(r) \/ StoreRefresh(r) \/ StoreSwitch(r)
       PROVE  FALSE
  BY <1>1, <1>12 DEF StoreLogin, StoreRefresh, StoreSwitch
<1> QED
  BY <1>1, <1>2, <1>3, <1>4, <1>5, <1>6, <1>8, <1>9, <1>10, <1>11, <1>12 DEF NextSession

\* For any number of users and requests: until requests overlap, only an update
\* that asks for it activates a deactivated user.
THEOREM InactiveUntilAsked == SpecSessions => DeactivationSticks
<1>1. SessionInv /\ Apart /\ [NextSession]_sessionVars
        => [~overlapped => \A u \in Users : ~account[u].active /\ account'[u].active
              => \E r \in Handlers : local[r].user = u /\ local[r].asks]_sessionVars
  BY StickingStep DEF SessionInv
<1> QED
  BY SessionsApart, <1>1, PTL DEF SpecSessions, DeactivationSticks

-----------------------------------------------------------------------------
(* OtpLogin                                                                *)

USE DEF row, redis, locals, budget, history, vars

\* TypeOK alone is not inductive: a handler writes seenFailures + 1, so a
\* verification past its limit check must have seen less than the limit.
SeenBelowLimit ==
    \A r \in Requests :
        pc[r] \in {"readHash", "writeFailure"} => seenFailures[r] < MaxVerifyAttempts

OtpInv == TypeOK /\ SeenBelowLimit

LEMMA OtpInit == Init => OtpInv
  BY ConstantsAssumption DEF Init, OtpInv, SeenBelowLimit, TypeOK, Labels, HistoryCap

LEMMA OtpStep == OtpInv /\ [Next]_vars => OtpInv'
<1> SUFFICES ASSUME OtpInv, [Next]_vars
             PROVE  OtpInv'
    OBVIOUS
<1> USE ConstantsAssumption DEF OtpInv, SeenBelowLimit, TypeOK, Goto, Finish, DelOtp, KeepOtp, DelFailures,
        KeepFailures, Labels, VerifyLabels, IssueLabels, ConsumeLabels, HistoryCap, More
<1>1. ASSUME NEW r \in Requests, Issue(r)
      PROVE  OtpInv'
  <2>1. CASE BeginRequest(r) \/ BeginResend(r)
    BY <2>1 DEF BeginRequest, BeginResend
  <2>2. CASE ReadExisting(r)
    BY <2>2 DEF ReadExisting, SafeRedisGet
  <2>3. CASE ResendDelOtp(r) \/ ResendDelFailures(r) \/ ClearFailures(r)
    BY <2>3 DEF ResendDelOtp, ResendDelFailures, ClearFailures
  <2>4. CASE StoreOtp(r)
    BY <2>4 DEF StoreOtp, SetOtp
  <2>5. CASE SendEmail(r)
    BY <2>5 DEF SendEmail
  <2> QED
    BY <1>1, <2>1, <2>2, <2>3, <2>4, <2>5 DEF Issue
<1>2. ASSUME NEW r \in Requests, Verify(r)
      PROVE  OtpInv'
  <2>1. CASE BeginVerify(r)
    BY <2>1 DEF BeginVerify
  <2>2. CASE ReadFailures(r)
    BY <2>2 DEF ReadFailures, SafeRedisGet, TooMany
  <2>3. CASE LockAccount(r)
    BY <2>3 DEF LockAccount
  <2>4. CASE LockDelOtp(r) \/ LockDelFailures(r)
    BY <2>4 DEF LockDelOtp, LockDelFailures
  <2>5. CASE ReadHash(r)
    BY <2>5 DEF ReadHash, SafeRedisGet
  <2>6. CASE WriteFailure(r)
    BY <2>6 DEF WriteFailure, SetFailures
  <2>7. CASE ConsumeOtp(r) \/ ConsumeFailures(r) \/ ResetUser(r) \/ IssueTokens(r)
    BY <2>7 DEF ConsumeOtp, ConsumeFailures, ResetUser, IssueTokens
  <2> QED
    BY <1>2, <2>1, <2>2, <2>3, <2>4, <2>5, <2>6, <2>7 DEF Verify
<1>3. CASE Tick
  BY <1>3 DEF Tick, Dec
<1>4. CASE SetActive
  BY <1>4 DEF SetActive
<1>5. ASSUME NEW r \in Requests, Abort(r)
      PROVE  OtpInv'
  BY <1>5 DEF Abort
<1>6. CASE UNCHANGED vars
  BY <1>6
<1> QED
  BY <1>1, <1>2, <1>3, <1>4, <1>5, <1>6 DEF Next

\* Every variable keeps its type; in particular the counter never passes
\* MaxVerifyAttempts, however verifications interleave.
THEOREM OtpTypeCorrect == Spec => []TypeOK
<1>1. OtpInv => TypeOK
  BY DEF OtpInv
<1> QED
  BY OtpInit, OtpStep, <1>1, PTL DEF Spec

-----------------------------------------------------------------------------
LEMMA ConsumedStep == OtpInv /\ AcceptedOtpIsConsumed /\ [Next]_vars => AcceptedOtpIsConsumed'
<1> SUFFICES ASSUME OtpInv, AcceptedOtpIsConsumed, [Next]_vars,
                    aborts' = 0, accepted' > 0, otpCode' # None
             PROVE  \E r \in Requests : pc'[r] = "consumeOtp"
    BY DEF AcceptedOtpIsConsumed
<1> USE ConstantsAssumption DEF OtpInv, TypeOK, Goto, Finish, DelOtp, KeepOtp, DelFailures,
        KeepFailures
\* Somebody stood at "consumeOtp" already, and whoever moves is somebody else.
<1>1. ASSUME aborts = 0, accepted > 0, otpCode # None
      PROVE  \E s \in Requests : pc[s] = "consumeOtp"
  BY <1>1 DEF AcceptedOtpIsConsumed
<1>2. ASSUME NEW r \in Requests, Issue(r)
      PROVE  \E s \in Requests : pc'[s] = "consumeOtp"
  BY <1>1, <1>2 DEF Issue, BeginRequest, ReadExisting, BeginResend, ResendDelOtp,
        ResendDelFailures, StoreOtp, ClearFailures, SendEmail
<1>3. ASSUME NEW r \in Requests, Verify(r)
      PROVE  \E s \in Requests : pc'[s] = "consumeOtp"
  <2>1. CASE ReadHash(r)
    BY <1>1, <2>1 DEF ReadHash, More, HistoryCap
  <2>2. CASE ConsumeOtp(r)
    BY <2>2 DEF ConsumeOtp
  <2>3. CASE ~ReadHash(r) /\ ~ConsumeOtp(r)
    BY <1>1, <1>3, <2>3 DEF Verify, BeginVerify, ReadFailures, LockAccount, LockDelOtp,
        LockDelFailures, WriteFailure, ConsumeFailures, ResetUser, IssueTokens
  <2> QED
    BY <2>1, <2>2, <2>3
<1>4. CASE Tick
  BY <1>1, <1>4 DEF Tick
<1>5. CASE SetActive \/ UNCHANGED vars
  BY <1>1, <1>5 DEF SetActive
<1>6. ASSUME NEW r \in Requests, Abort(r)
      PROVE  FALSE
  BY <1>6 DEF Abort
<1> QED
  BY <1>2, <1>3, <1>4, <1>5, <1>6 DEF Next

\* A password that was accepted stays in Redis only until the DEL of the handler
\* that accepted it, for any number of overlapping requests.
THEOREM AcceptedConsumed == Spec => []AcceptedOtpIsConsumed
<1>1. Init => AcceptedOtpIsConsumed
  BY DEF Init, AcceptedOtpIsConsumed
<1> QED
  BY OtpInit, OtpStep, ConsumedStep, <1>1, PTL DEF Spec

-----------------------------------------------------------------------------
(***************************************************************************)
(* Handlers that do not overlap, until one dies.  What the counter misses  *)
(* when a read of it fails does not matter to the password.                *)
(***************************************************************************)

KeysExpire ==
    /\ otpCode # None <=> otpTtl > 0
    /\ failures > 0 <=> failuresTtl > 0

\* Between the DELs of request one and its next write the keys stay absent.
KeysStayDeleted(one) ==
    /\ pc[one] \in {"resendDelFailures", "storeResent", "lockDelFailures",
                    "consumeFailures"} => otpCode = None
    /\ pc[one] = "storeResent" => failures = 0

\* The counter, with the guess about to be written, accounts for every wrong
\* guess, and it lives as long as the password.
CounterComplete(one) ==
    aborts = 0 /\ otpCode # None =>
        /\ pc[one] = "clearFailures" => rejected = 0
        /\ pc[one] = "readHash" => seenFailures[one] = failures
        /\ pc[one] = "writeFailure" => rejected <= seenFailures[one] + 1
        /\ pc[one] \notin {"clearFailures", "writeFailure"} => rejected <= failures
        /\ pc[one] # "clearFailures" /\ failures > 0 => failuresTtl >= otpTtl

\* A password that was accepted is still there only for its handler to delete.
AcceptedGoes(one) ==
    aborts = 0 /\ otpCode # None /\ accepted > 0 => pc[one] = "consumeOtp"

SequentialInv(one) ==
    /\ KeysExpire /\ KeysStayDeleted(one)
    /\ AcceptedGoes(one) /\ OneTimeUse
    /\ redisFaults = 0 => CounterComplete(one) /\ GuessBudget

LEMMA SequentialStep ==
  ASSUME NEW one, Requests = {one},
         OtpInv, SequentialInv(one), [Next]_vars
  PROVE  SequentialInv(one)'
<1> USE ConstantsAssumption DEF OtpInv, TypeOK, SeenBelowLimit, SequentialInv, KeysExpire,
        KeysStayDeleted, CounterComplete, AcceptedGoes, OneTimeUse, GuessBudget, Goto, Finish, DelOtp,
        KeepOtp, DelFailures, KeepFailures
<1>1. CASE Issue(one)
  <2>1. CASE BeginRequest(one) \/ BeginResend(one) \/ SendEmail(one)
    BY <2>1 DEF BeginRequest, BeginResend, SendEmail
  <2>2. CASE ReadExisting(one)
    BY <2>2 DEF ReadExisting, SafeRedisGet
  <2>3. CASE ResendDelOtp(one) \/ ResendDelFailures(one) \/ ClearFailures(one)
    BY <2>3 DEF ResendDelOtp, ResendDelFailures, ClearFailures
  <2>4. CASE StoreOtp(one)
    BY <2>4 DEF StoreOtp, SetOtp
  <2> QED
    BY <1>1, <2>1, <2>2, <2>3, <2>4 DEF Issue
<1>2. CASE Verify(one)
  <2>1. CASE BeginVerify(one)
    BY <2>1 DEF BeginVerify
  <2>2. CASE ReadFailures(one)
    BY <2>2 DEF ReadFailures, SafeRedisGet, TooMany
  <2>3. CASE LockAccount(one) \/ LockDelOtp(one) \/ LockDelFailures(one)
    BY <2>3 DEF LockAccount, LockDelOtp, LockDelFailures
  <2>4. CASE ReadHash(one)
    BY <2>4 DEF ReadHash, SafeRedisGet, More, HistoryCap
  <2>5. CASE WriteFailure(one)
    BY <2>5 DEF WriteFailure, SetFailures
  <2>6. CASE ConsumeOtp(one) \/ ConsumeFailures(one) \/ ResetUser(one) \/ IssueTokens(one)
    BY <2>6 DEF ConsumeOtp, ConsumeFailures, ResetUser, IssueTokens
  <2> QED
    BY <1>2, <2>1, <2>2, <2>3, <2>4, <2>5, <2>6 DEF Verify
<1>3. CASE Tick
  BY <1>3 DEF Tick, Dec
<1>4. CASE SetActive \/ UNCHANGED vars
  BY <1>4 DEF SetActive
<1>5. CASE Abort(one)
  BY <1>5 DEF Abort
<1> QED
  BY <1>1, <1>2, <1>3, <1>4, <1>5 DEF Next

LEMMA Sequential ==
  ASSUME NEW one, Requests = {one}
  PROVE  Spec => [](OtpInv /\ SequentialInv(one))
<1>1. Init => SequentialInv(one)
  BY ConstantsAssumption DEF Init, SequentialInv, KeysExpire, KeysStayDeleted, CounterComplete,
        AcceptedGoes, OneTimeUse, GuessBudget
<1>2. OtpInv /\ SequentialInv(one) /\ [Next]_vars => SequentialInv(one)'
  BY SequentialStep
<1> QED
  BY OtpInit, OtpStep, <1>1, <1>2, PTL DEF Spec

\* A client that sends one request at a time logs in at most once with a password,
\* for any limits and times to live and whichever reads of Redis fail: until a
\* handler dies, the next handler starts after the DEL of the one that accepted it.
THEOREM LoginOnce ==
  ASSUME NEW one, Requests = {one}
  PROVE  Spec => []OneTimeUse
<1>1. OtpInv /\ SequentialInv(one) => OneTimeUse
  BY DEF SequentialInv
<1> QED
  BY Sequential, <1>1, PTL

\* One guess after the other, a password takes at most MaxVerifyAttempts wrong
\* ones, whatever the limit, and its counter does not expire before it; until a
\* handler dies or a read of the counter fails, which counts as no wrong guess.
THEOREM GuessesBounded ==
  ASSUME NEW one, Requests = {one}
  PROVE  Spec => [](redisFaults = 0 => GuessBudget /\ (aborts = 0 => CounterOutlivesOtp))
<1>1. OtpInv /\ SequentialInv(one)
        => (redisFaults = 0 => GuessBudget /\ (aborts = 0 => CounterOutlivesOtp))
  BY DEF SequentialInv, CounterComplete, CounterOutlivesOtp, OtpInv, TypeOK
<1> QED
  BY Sequential, <1>1, PTL

-----------------------------------------------------------------------------
(* The lock, of handlers that do not overlap: they may die, and reads of   *)
(* Redis may fail.                                                         *)

\* A locked account has no handler but the one that locked it; keys that expire
\* no later than a lock are gone before it ends.
LockAlone(one) ==
    lockLeft > 0 =>
        /\ pc[one] \in {"idle", "lockDelOtp", "lockDelFailures"}
        /\ OtpExpiry <= LockDuration => otpTtl <= lockLeft /\ failuresTtl <= lockLeft

\* Until a handler dies, the counter counts no more than the wrong guesses
\* against the password that is stored or was last.
CounterEarned(one) ==
    /\ pc[one] = "storeResent" => failures = 0
    /\ aborts = 0 =>
          /\ pc[one] # "clearFailures" => failures <= rejected
          /\ pc[one] = "readHash" => seenFailures[one] <= rejected
          /\ pc[one] = "writeFailure" => seenFailures[one] + 1 <= rejected
          /\ pc[one] = "lockUser" => MaxVerifyAttempts <= rejected

LockInv(one) == KeysExpire /\ LockAlone(one) /\ CounterEarned(one)

LEMMA LockStep ==
  ASSUME NEW one, Requests = {one}, OtpInv, LockInv(one), [Next]_vars
  PROVE  LockInv(one)'
<1> USE ConstantsAssumption DEF OtpInv, TypeOK, SeenBelowLimit, LockInv, KeysExpire, LockAlone,
        CounterEarned, Goto, Finish, DelOtp, KeepOtp, DelFailures, KeepFailures
<1>1. CASE Issue(one)
  <2>1. CASE BeginRequest(one) \/ BeginResend(one) \/ SendEmail(one)
    BY <2>1 DEF BeginRequest, BeginResend, SendEmail, Admitted, Locked
  <2>2. CASE ReadExisting(one)
    BY <2>2 DEF ReadExisting
  <2>3. CASE ResendDelOtp(one) \/ ResendDelFailures(one) \/ ClearFailures(one)
    BY <2>3 DEF ResendDelOtp, ResendDelFailures, ClearFailures
  <2>4. CASE StoreOtp(one)
    BY <2>4 DEF StoreOtp, SetOtp
  <2> QED
    BY <1>1, <2>1, <2>2, <2>3, <2>4 DEF Issue
<1>2. CASE Verify(one)
  <2>1. CASE BeginVerify(one)
    BY <2>1 DEF BeginVerify, Admitted, Locked
  <2>2. CASE ReadFailures(one)
    BY <2>2 DEF ReadFailures, SafeRedisGet, TooMany
  <2>3. CASE LockAccount(one) \/ LockDelOtp(one) \/ LockDelFailures(one)
    BY <2>3 DEF LockAccount, LockDelOtp, LockDelFailures
  <2>4. CASE ReadHash(one)
    BY <2>4 DEF ReadHash, SafeRedisGet, More, HistoryCap
  <2>5. CASE WriteFailure(one)
    BY <2>5 DEF WriteFailure, SetFailures
  <2>6. CASE ConsumeOtp(one) \/ ConsumeFailures(one) \/ ResetUser(one) \/ IssueTokens(one)
    BY <2>6 DEF ConsumeOtp, ConsumeFailures, ResetUser, IssueTokens
  <2> QED
    BY <1>2, <2>1, <2>2, <2>3, <2>4, <2>5, <2>6 DEF Verify
<1>3. CASE Tick
  BY <1>3 DEF Tick, Dec
<1>4. CASE SetActive \/ UNCHANGED vars
  BY <1>4 DEF SetActive
<1>5. CASE Abort(one)
  BY <1>5 DEF Abort
<1> QED
  BY <1>1, <1>2, <1>3, <1>4, <1>5 DEF Next

LEMMA LocksAlone ==
  ASSUME NEW one, Requests = {one}
  PROVE  Spec => [](OtpInv /\ LockInv(one))
<1>1. Init => LockInv(one)
  BY ConstantsAssumption DEF Init, LockInv, KeysExpire, LockAlone, CounterEarned
<1>2. OtpInv /\ LockInv(one) /\ [Next]_vars => LockInv(one)'
  BY LockStep
<1> QED
  BY OtpInit, OtpStep, <1>1, <1>2, PTL DEF Spec

\* The only steps that change the lock.
LEMMA LockChanges ==
  ASSUME NEW one, Requests = {one}, [Next]_vars, lockLeft' # lockLeft
  PROVE  \/ pc[one] = "lockUser" /\ lockLeft' = LockDuration
         \/ pc[one] = "resetUser" /\ lockLeft' = 0
         \/ Tick
<1>1. ASSUME Issue(one) PROVE FALSE
  BY <1>1 DEF Issue, BeginRequest, BeginResend, SendEmail, ReadExisting, ResendDelOtp,
     ResendDelFailures, ClearFailures, StoreOtp
<1>2. ASSUME Verify(one), ~LockAccount(one), ~ResetUser(one) PROVE FALSE
  BY <1>2 DEF Verify, BeginVerify, ReadFailures, LockDelOtp, LockDelFailures, ReadHash,
     WriteFailure, ConsumeOtp, ConsumeFailures, IssueTokens
<1>3. CASE LockAccount(one) \/ ResetUser(one)
  BY <1>3 DEF LockAccount, ResetUser
<1>4. ASSUME SetActive \/ Abort(one) PROVE FALSE
  BY <1>4 DEF SetActive, Abort
<1> QED
  BY <1>1, <1>2, <1>3, <1>4 DEF Next

\* One request after the other, with any limits and with reads of Redis that fail:
\* verifyOTP locks the account only after MaxVerifyAttempts wrong guesses against
\* the present password, unless the handler that stored it died before it deleted
\* the counter of the one before.
THEOREM LocksAreEarned ==
  ASSUME NEW one, Requests = {one}
  PROVE  Spec => LockJustified
<1>1. OtpInv /\ LockInv(one) /\ [Next]_vars
        => [aborts = 0 /\ lockLeft' > lockLeft => rejected >= MaxVerifyAttempts]_vars
  BY LockChanges, ConstantsAssumption DEF OtpInv, TypeOK, LockInv, CounterEarned, Tick, Dec
<1> QED
  BY LocksAlone, <1>1, PTL DEF Spec, LockJustified

\* One request after the other, with handlers that die and any limits: nothing but
\* the passing of time shortens a lock.  The save of a login that started before
\* the lock is the step that could, and there is none such.
THEOREM LocksRunOut ==
  ASSUME NEW one, Requests = {one}
  PROVE  Spec => LockRunsItsTerm
<1>1. OtpInv /\ LockInv(one) /\ [Next]_vars
        => [lockLeft' < lockLeft => lockLeft' = lockLeft - 1]_vars
  BY LockChanges, ConstantsAssumption DEF OtpInv, TypeOK, LockInv, LockAlone, Tick, Dec
<1> QED
  BY LocksAlone, <1>1, PTL DEF Spec, LockRunsItsTerm

\* One request after the other, with handlers that die before the DELs: when the
\* lock ends the password and its counter are gone, for all times to live up to
\* the length of the lock (10 minutes and 15 in the code).
THEOREM LocksCleanUp ==
  ASSUME NEW one, Requests = {one}, OtpExpiry <= LockDuration
  PROVE  Spec => CleanSlateAfterLock
<1>1. OtpInv /\ LockInv(one) /\ [Next]_vars
        => [lockLeft > 0 /\ lockLeft' = 0 => otpCode' = None /\ failures' = 0]_vars
  BY LockChanges, ConstantsAssumption
     DEF OtpInv, TypeOK, LockInv, LockAlone, KeysExpire, Tick, Dec
<1> QED
  BY LocksAlone, <1>1, PTL DEF Spec, CleanSlateAfterLock

-----------------------------------------------------------------------------
(* Lists: what Among takes from a sequence, and in which order             *)

\* Every set of numbers that is not empty has a least element: what the facts about
\* the recursive function in Among are proved with.
LEMMA LeastNumber ==
  ASSUME NEW T, T \subseteq Nat, T # {}
  PROVE  \E x \in T : \A y \in T : x <= y
  <1>1. PICK R : R = OpToRel(<, Nat)
    OBVIOUS
  <1>2. R = {ss \in Nat \X Nat : ss[1] < ss[2]}
    BY <1>1 DEF OpToRel
  <1>3. IsWellFoundedOn(R, Nat)
    BY <1>1, NatLessThanWellFounded
  <1>4. PICK x \in T : \A y \in T : ~(<<y, x>> \in R)
    BY <1>3, WFMin
  <1>5. ASSUME NEW y \in T PROVE x <= y
    <2>1. ~(y < x)
      BY <1>2, <1>4
    <2> QED
      BY <2>1
  <1> QED
    BY <1>5

\* Among takes the elements of the set one after the other.
Chosen(f, s, set) ==
  f = [n \in 0 .. Len(s) |->
         IF n = 0 THEN <<>>
         ELSE IF s[n] \in set THEN Append(f[n - 1], s[n]) ELSE f[n - 1]]

\* The function exists, however long the sequence is.
LEMMA ChosenExists ==
  ASSUME NEW S, NEW s \in Seq(S), NEW set
  PROVE  \E f : Chosen(f, s, set)
  <1> DEFINE Upto(f, n) ==
               f = [k \in 0 .. n |->
                      IF k = 0 THEN <<>>
                      ELSE IF s[k] \in set THEN Append(f[k - 1], s[k]) ELSE f[k - 1]]
             T == {n \in Nat : ~ \E f : Upto(f, n)}
  <1>1. T = {}
    <2> SUFFICES ASSUME T # {} PROVE FALSE
      OBVIOUS
    <2>1. PICK n \in T : \A k \in T : n <= k
      BY LeastNumber
    <2>2. CASE n = 0
      <3> DEFINE f == [k \in 0 .. 0 |-> <<>>]
      <3>1. Upto(f, 0)
        OBVIOUS
      <3> QED
        BY <2>1, <2>2, <3>1
    <2>3. CASE n # 0
      <3>0. n \in Nat /\ n > 0
        BY <2>1, <2>3
      <3>1. n - 1 \in Nat /\ n - 1 \notin T
        <4> HIDE DEF T
        <4> QED
          BY <2>1, <3>0
      <3>2. PICK f : Upto(f, n - 1)
        BY <3>1
      <3>3. PICK g : g = [k \in 0 .. n |->
                            IF k = n THEN IF s[n] \in set THEN Append(f[n - 1], s[n]) ELSE f[n - 1]
                            ELSE f[k]]
        OBVIOUS
      <3>4. \A k \in 0 .. n - 1 :
              f[k] = IF k = 0 THEN <<>>
                     ELSE IF s[k] \in set THEN Append(f[k - 1], s[k]) ELSE f[k - 1]
        BY <3>2
      <3>5. \A k \in 0 .. n : k # n => k \in 0 .. n - 1 /\ g[k] = f[k]
        BY <3>0, <3>3
      <3>6. /\ g[n] = IF s[n] \in set THEN Append(f[n - 1], s[n]) ELSE f[n - 1]
            /\ g[n - 1] = f[n - 1]
        BY <3>0, <3>3
      <3>7. ASSUME NEW k \in 0 .. n
            PROVE  g[k] = IF k = 0 THEN <<>>
                          ELSE IF s[k] \in set THEN Append(g[k - 1], s[k]) ELSE g[k - 1]
        <4>1. CASE k = n
          BY <2>3, <3>6, <4>1
        <4>2. CASE k # n /\ k # 0
          <5>1. k - 1 \in 0 .. n /\ k - 1 # n
            BY <3>0, <4>2
          <5> QED
            BY <3>4, <3>5, <4>2, <5>1
        <4>3. CASE k # n /\ k = 0
          BY <3>4, <3>5, <4>3
        <4> QED
          BY <4>1, <4>2, <4>3
      <3>8. Upto(g, n)
        BY <3>3, <3>7
      <3> QED
        BY <2>1, <3>8
    <2> QED
      BY <2>2, <2>3
  <1>2. Len(s) \in Nat
    OBVIOUS
  <1>3. \E f : Upto(f, Len(s))
    BY <1>1, <1>2
  <1> HIDE DEF T
  <1> QED
    BY <1>3 DEF Chosen

\* Among is the last of its values.
LEMMA AmongIsBuilt ==
  ASSUME NEW S, NEW s \in Seq(S), NEW set
  PROVE  \E f : /\ Among(s, set) = f[Len(s)]
                /\ f[0] = <<>>
                /\ \A n \in 1 .. Len(s) :
                     f[n] = IF s[n] \in set THEN Append(f[n - 1], s[n]) ELSE f[n - 1]
  <1>1. PICK f : f = CHOOSE g : Chosen(g, s, set)
    OBVIOUS
  <1>2. Chosen(f, s, set)
    BY <1>1, ChosenExists
  <1>3. Among(s, set) = f[Len(s)]
    BY <1>1 DEF Among, Chosen
  <1>4. Len(s) \in Nat
    OBVIOUS
  <1>5. \A n \in 0 .. Len(s) :
           f[n] = IF n = 0 THEN <<>>
                  ELSE IF s[n] \in set THEN Append(f[n - 1], s[n]) ELSE f[n - 1]
    BY <1>2, Zenon DEF Chosen
  <1>6. f[0] = <<>>
    BY <1>4, <1>5
  <1>7. ASSUME NEW n \in 1 .. Len(s)
        PROVE  f[n] = IF s[n] \in set THEN Append(f[n - 1], s[n]) ELSE f[n - 1]
    <2>1. n \in 0 .. Len(s) /\ n # 0
      BY <1>4
    <2> QED
      BY <1>5, <2>1, Zenon
  <1> QED
    BY <1>3, <1>6, <1>7

\* What it has taken from the first n elements.
Took(c, s, set, n) ==
  /\ c \in Seq(set)
  /\ \A i \in 1 .. Len(c) : \E m \in 1 .. n : c[i] = s[m]
  /\ \A m \in 1 .. n : s[m] \in set => \E i \in 1 .. Len(c) : c[i] = s[m]

\* One more element is taken, or passed over.
LEMMA TookAnother ==
  ASSUME NEW S, NEW s \in Seq(S), NEW set, NEW n \in 1 .. Len(s), NEW c,
         Took(c, s, set, n - 1)
  PROVE  Took(IF s[n] \in set THEN Append(c, s[n]) ELSE c, s, set, n)
  <1>0. Len(s) \in Nat /\ n \in Nat /\ c \in Seq(set) /\ Len(c) \in Nat
    BY DEF Took
  <1>1. \A m \in 1 .. n : m # n => m \in 1 .. n - 1
    BY <1>0
  <1>2. \A m \in 1 .. n - 1 : m \in 1 .. n
    BY <1>0
  <1>3. CASE s[n] \notin set
    <2>1. \A i \in 1 .. Len(c) : \E m \in 1 .. n : c[i] = s[m]
      BY <1>2 DEF Took
    <2>2. \A m \in 1 .. n : s[m] \in set => \E i \in 1 .. Len(c) : c[i] = s[m]
      BY <1>1, <1>3 DEF Took
    <2> QED
      BY <1>0, <1>3, <2>1, <2>2 DEF Took
  <1>4. CASE s[n] \in set
    <2> DEFINE d == Append(c, s[n])
    <2>1. /\ d \in Seq(set) /\ Len(d) = Len(c) + 1
          /\ \A i \in 1 .. Len(c) : d[i] = c[i]
          /\ d[Len(c) + 1] = s[n]
      BY <1>0, <1>4
    <2> HIDE DEF d
    <2>2. ASSUME NEW i \in 1 .. Len(d) PROVE \E m \in 1 .. n : d[i] = s[m]
      <3>1. CASE i = Len(c) + 1
        BY <1>0, <2>1, <3>1
      <3>2. CASE i # Len(c) + 1
        <4>1. i \in 1 .. Len(c)
          BY <1>0, <2>1, <3>2
        <4> QED
          BY <1>2, <2>1, <4>1 DEF Took
      <3> QED
        BY <3>1, <3>2
    <2>3. ASSUME NEW m \in 1 .. n, s[m] \in set PROVE \E i \in 1 .. Len(d) : d[i] = s[m]
      <3>1. CASE m = n
        <4>1. Len(c) + 1 \in 1 .. Len(d)
          BY <1>0, <2>1
        <4> QED
          BY <2>1, <3>1, <4>1
      <3>2. CASE m # n
        <4>1. PICK i \in 1 .. Len(c) : c[i] = s[m]
          BY <1>1, <2>3, <3>2 DEF Took
        <4>2. i \in 1 .. Len(d)
          BY <1>0, <2>1
        <4> QED
          BY <2>1, <4>1, <4>2
      <3> QED
        BY <3>1, <3>2
    <2>4. Took(d, s, set, n)
      BY <2>1, <2>2, <2>3 DEF Took
    <2> QED
      BY <1>4, <2>4 DEF d
  <1> QED
    BY <1>3, <1>4

\* The elements of a sequence that are in the set, and nothing else.
LEMMA AmongTakes ==
  ASSUME NEW S, NEW s \in Seq(S), NEW set
  PROVE  \E f : /\ Among(s, set) = f[Len(s)]
                /\ f[0] = <<>>
                /\ \A n \in 1 .. Len(s) :
                     f[n] = IF s[n] \in set THEN Append(f[n - 1], s[n]) ELSE f[n - 1]
                /\ \A n \in 0 .. Len(s) : Took(f[n], s, set, n)
  <1>0. Len(s) \in Nat
    OBVIOUS
  <1>1. PICK f : /\ Among(s, set) = f[Len(s)]
                 /\ f[0] = <<>>
                 /\ \A n \in 1 .. Len(s) :
                      f[n] = IF s[n] \in set THEN Append(f[n - 1], s[n]) ELSE f[n - 1]
    BY AmongIsBuilt
  <1> DEFINE T == {n \in 0 .. Len(s) : ~Took(f[n], s, set, n)}
  <1>2. T = {}
    <2> SUFFICES ASSUME T # {} PROVE FALSE
      OBVIOUS
    <2>0. T \subseteq Nat
      BY <1>0
    <2>1. PICK n \in T : \A k \in T : n <= k
      BY <2>0, LeastNumber
    <2>2. n \in 0 .. Len(s) /\ ~Took(f[n], s, set, n)
      BY <2>1
    <2>3. CASE n = 0
      <3>1. Took(<<>>, s, set, 0)
        BY DEF Took
      <3> QED
        BY <1>1, <2>2, <2>3, <3>1
    <2>4. CASE n # 0
      <3>1. n \in 1 .. Len(s) /\ n - 1 \in 0 .. Len(s) /\ n - 1 \notin T
        <4> HIDE DEF T
        <4> QED
          BY <1>0, <2>1, <2>2, <2>4
      <3>2. Took(f[n - 1], s, set, n - 1)
        BY <3>1
      <3> QED
        BY <1>1, <2>2, <3>1, <3>2, TookAnother
    <2> QED
      BY <2>3, <2>4
  <1>3. \A n \in 0 .. Len(s) : Took(f[n], s, set, n)
    BY <1>2
  <1> HIDE DEF T
  <1> QED
    BY <1>1, <1>3

Ascends(c) == \A i, j \in 1 .. Len(c) : i < j => c[i] < c[j]

CountsTo(s, N) == s \in Seq(1 .. N) /\ Len(s) = N /\ \A n \in 1 .. N : s[n] = n
AreAll(c, set, N) ==
  /\ c \in Seq(set \cap 1 .. N) /\ Ascends(c)
  /\ \A m \in set \cap 1 .. N : \E i \in 1 .. Len(c) : c[i] = m

\* Of the numbers up to N it takes those in the set, in their order.
LEMMA NumbersAscend ==
  ASSUME NEW N \in Nat, NEW set,
         NEW s, CountsTo(s, N), NEW c, c = Among(s, set)
  PROVE  AreAll(c, set, N)
  <1>2. s \in Seq(1 .. N) /\ Len(s) = N /\ \A n \in 1 .. N : s[n] = n
    BY DEF CountsTo
  <1>3. PICK f : /\ Among(s, set) = f[Len(s)]
                 /\ f[0] = <<>>
                 /\ \A n \in 1 .. Len(s) :
                      f[n] = IF s[n] \in set THEN Append(f[n - 1], s[n]) ELSE f[n - 1]
                 /\ \A n \in 0 .. Len(s) : Took(f[n], s, set, n)
    BY <1>2, AmongTakes
  <1> DEFINE T == {n \in 0 .. N : ~Ascends(f[n])}
  <1>4. T = {}
    <2> SUFFICES ASSUME T # {} PROVE FALSE
      OBVIOUS
    <2>0. T \subseteq Nat
      OBVIOUS
    <2>1. PICK n \in T : \A k \in T : n <= k
      BY <2>0, LeastNumber
    <2>2. n \in 0 .. N /\ ~Ascends(f[n])
      BY <2>1
    <2>3. CASE n = 0
      <3>1. Ascends(<<>>)
        BY DEF Ascends
      <3> QED
        BY <1>3, <2>2, <2>3, <3>1
    <2>4. CASE n # 0
      <3>1. n \in 1 .. N /\ n - 1 \in 0 .. N /\ n - 1 \notin T
        <4> HIDE DEF T
        <4> QED
          BY <2>1, <2>2, <2>4
      <3>2. Ascends(f[n - 1]) /\ Took(f[n - 1], s, set, n - 1)
        BY <1>2, <1>3, <3>1
      <3>3. f[n] = IF n \in set THEN Append(f[n - 1], n) ELSE f[n - 1]
        BY <1>2, <1>3, <3>1
      <3>4. PICK d : d = f[n - 1]
        OBVIOUS
      <3>5. /\ d \in Seq(set) /\ Len(d) \in Nat /\ Ascends(d)
            /\ \A i \in 1 .. Len(d) : d[i] \in Nat /\ d[i] < n
        <4>1. ASSUME NEW i \in 1 .. Len(d) PROVE d[i] \in Nat /\ d[i] < n
          <5>1. PICK m \in 1 .. n - 1 : d[i] = s[m]
            BY <3>2, <3>4 DEF Took
          <5>2. m \in 1 .. N /\ m < n /\ m \in Nat
            BY <3>1
          <5> QED
            BY <1>2, <5>1, <5>2
        <4> QED
          BY <3>2, <3>4, <4>1 DEF Took
      <3>6. CASE n \in set
        <4>1. /\ Len(f[n]) = Len(d) + 1 /\ f[n][Len(d) + 1] = n
              /\ \A i \in 1 .. Len(d) : f[n][i] = d[i]
          BY <3>3, <3>4, <3>5, <3>6
        <4>2. ASSUME NEW i \in 1 .. Len(d) + 1, NEW j \in 1 .. Len(d) + 1, i < j
              PROVE  f[n][i] < f[n][j]
          <5>1. i \in 1 .. Len(d)
            BY <3>5, <4>2
          <5>2. CASE j = Len(d) + 1
            BY <3>5, <4>1, <5>1, <5>2
          <5>3. CASE j # Len(d) + 1
            <6>1. j \in 1 .. Len(d)
              BY <3>5, <5>3
            <6>2. d[i] < d[j]
              BY <3>5, <4>2, <5>1, <6>1 DEF Ascends
            <6> QED
              BY <4>1, <5>1, <6>1, <6>2
          <5> QED
            BY <5>2, <5>3
        <4>3. Ascends(f[n])
          BY <4>1, <4>2 DEF Ascends
        <4> QED
          BY <2>2, <4>3
      <3>7. CASE n \notin set
        BY <2>2, <3>2, <3>3, <3>7
      <3> QED
        BY <3>6, <3>7
    <2> QED
      BY <2>3, <2>4
  <1> HIDE DEF T
  <1>6. Ascends(c) /\ Took(c, s, set, N)
    <2>1. N \in 0 .. N /\ c = f[N]
      BY <1>2, <1>3
    <2>2. Ascends(f[N])
      BY <1>4, <2>1 DEF T
    <2> QED
      BY <1>2, <1>3, <2>1, <2>2
  <1>7. /\ c \in Seq(set)
        /\ \A i \in 1 .. Len(c) : c[i] \in set \cap 1 .. N
        /\ \A m \in set \cap 1 .. N : \E i \in 1 .. Len(c) : c[i] = m
    <2>1. c \in Seq(set) /\ \A i \in 1 .. Len(c) : \E m \in 1 .. N : c[i] = s[m]
      BY <1>6 DEF Took
    <2>2. \A m \in 1 .. N : s[m] \in set => \E i \in 1 .. Len(c) : c[i] = s[m]
      BY <1>6 DEF Took
    <2>3. \A i \in 1 .. Len(c) : c[i] \in set
      BY <2>1
    <2>4. ASSUME NEW i \in 1 .. Len(c) PROVE c[i] \in set \cap 1 .. N
      BY <1>2, <2>1, <2>3
    <2>5. ASSUME NEW m \in set \cap 1 .. N PROVE \E i \in 1 .. Len(c) : c[i] = m
      BY <1>2, <2>2
    <2> QED
      BY <2>1, <2>4, <2>5
  <1>8. c \in Seq(set \cap 1 .. N)
    BY <1>7
  <1> QED
    BY <1>6, <1>7, <1>8 DEF AreAll

\* The rows that the query finds, and those of them that come before row x.
Shown(t) == {n \in 1 .. Len(t) : Selected(t[n])}
Ahead(t, x) == {k \in Shown(t) : k > x}

\* A list is all of these rows, the newest first.
LEMMA ListingIs ==
  ASSUME NEW S, NEW t \in Seq(S)
  PROVE  LET rows == Listing(t)
         IN  /\ rows \in Seq(Shown(t))
             /\ \A i, j \in 1 .. Len(rows) : i < j => rows[i] > rows[j]
             /\ \A x \in Shown(t) : \E j \in 1 .. Len(rows) : rows[j] = x
  <1>0. Len(t) \in Nat
    OBVIOUS
  <1>1. PICK s, c : s = [n \in 1 .. Len(t) |-> n] /\ c = Among(s, Shown(t))
    OBVIOUS
  <1>2. Shown(t) \cap 1 .. Len(t) = Shown(t) /\ Shown(t) \subseteq Nat
    BY <1>0 DEF Shown
  <1>3. /\ c \in Seq(Shown(t)) /\ Ascends(c)
        /\ \A m \in Shown(t) : \E i \in 1 .. Len(c) : c[i] = m
    <2>1. PICK N, set : N = Len(t) /\ set = Shown(t)
      OBVIOUS
    <2>2. N \in Nat /\ CountsTo(s, N) /\ c = Among(s, set)
      BY <1>0, <1>1, <2>1 DEF CountsTo
    <2>3. AreAll(c, set, N)
      BY <2>2, NumbersAscend, Zenon
    <2>4. set \cap 1 .. N = Shown(t)
      BY <1>2, <2>1
    <2> QED
      BY <2>3, <2>4 DEF AreAll
  <1>4. Len(c) \in Nat /\ \A i \in 1 .. Len(c) : c[i] \in Shown(t) /\ c[i] \in Nat
    BY <1>2, <1>3
  <1>5. PICK rows : rows = Listing(t)
    OBVIOUS
  <1>6. rows = [i \in 1 .. Len(c) |-> c[(Len(c) - i) + 1]]
    BY <1>1, <1>5 DEF Listing, Reverse, Shown
  <1>7. \A i \in 1 .. Len(c) : (Len(c) - i) + 1 \in 1 .. Len(c)
    BY <1>4
  <1>8. rows \in Seq(Shown(t)) /\ Len(rows) = Len(c)
    BY <1>4, <1>6, <1>7
  <1>9. ASSUME NEW i \in 1 .. Len(rows), NEW j \in 1 .. Len(rows), i < j
        PROVE  rows[i] > rows[j]
    <2>1. /\ (Len(c) - i) + 1 \in 1 .. Len(c) /\ (Len(c) - j) + 1 \in 1 .. Len(c)
          /\ (Len(c) - j) + 1 < (Len(c) - i) + 1
      BY <1>4, <1>8, <1>9
    <2>2. c[(Len(c) - j) + 1] < c[(Len(c) - i) + 1]
      BY <1>3, <2>1 DEF Ascends
    <2> QED
      BY <1>4, <1>6, <1>8, <2>1, <2>2
  <1>10. ASSUME NEW x \in Shown(t) PROVE \E j \in 1 .. Len(rows) : rows[j] = x
    <2>1. PICK i \in 1 .. Len(c) : c[i] = x
      BY <1>3
    <2>2. (Len(c) - i) + 1 \in 1 .. Len(rows) /\ (Len(c) - ((Len(c) - i) + 1)) + 1 = i
      BY <1>4, <1>8
    <2>3. rows[(Len(c) - i) + 1] = x
      BY <1>6, <1>8, <2>1, <2>2
    <2> QED
      BY <2>2, <2>3
  <1> QED
    BY <1>5, <1>8, <1>9, <1>10

\* The place of a row is how many come before it; the total is how many there are.
LEMMA Places ==
  ASSUME NEW S, NEW t \in Seq(S)
  PROVE  /\ Len(Listing(t)) \in Nat
         /\ IsFiniteSet(Shown(t)) /\ Cardinality(Shown(t)) = Len(Listing(t))
         /\ \A j \in 1 .. Len(Listing(t)) :
              /\ Listing(t)[j] \in Shown(t) /\ Listing(t)[j] \in Nat
              /\ Cardinality(Ahead(t, Listing(t)[j])) = j - 1
  <1>1. PICK rows : rows = Listing(t)
    OBVIOUS
  <1>2. /\ rows \in Seq(Shown(t))
        /\ \A i, j \in 1 .. Len(rows) : i < j => rows[i] > rows[j]
        /\ \A x \in Shown(t) : \E j \in 1 .. Len(rows) : rows[j] = x
    BY <1>1, ListingIs
  <1>3. Len(rows) \in Nat /\ Shown(t) \subseteq Nat /\ IsFiniteSet(1 .. Len(t))
    BY <1>2, FS_Interval DEF Shown
  <1>4. IsFiniteSet(Shown(t))
    BY <1>3, FS_Subset DEF Shown
  <1>5. \A j \in 1 .. Len(rows) : rows[j] \in Shown(t) /\ rows[j] \in Nat
    BY <1>2, <1>3
  <1>6. ASSUME NEW i \in 1 .. Len(rows), NEW j \in 1 .. Len(rows), rows[i] = rows[j]
        PROVE  i = j
    <2>1. i \in Int /\ j \in Int /\ rows[i] \in Nat /\ ~(rows[i] > rows[i])
      BY <1>3, <1>5
    <2>2. ~(i < j) /\ ~(j < i)
      BY <1>2, <1>6, <2>1
    <2> QED
      BY <2>1, <2>2
  <1>7. ASSUME NEW n \in 0 .. Len(rows), NEW T,
               \A i \in 1 .. n : rows[i] \in T,
               \A x \in T : \E i \in 1 .. n : rows[i] = x
        PROVE  Cardinality(T) = n
    <2>1. PICK f : f = [i \in 1 .. n |-> rows[i]]
      OBVIOUS
    <2>2. n \in Nat /\ \A i \in 1 .. n : i \in 1 .. Len(rows)
      BY <1>3
    <2>3. f \in [1 .. n -> T] /\ \A x \in T : \E i \in 1 .. n : f[i] = x
      BY <1>7, <2>1
    <2>4. IsInjective(f)
      BY <1>6, <2>1, <2>2 DEF IsInjective
    <2>5. f \in Bijection(1 .. n, T)
      BY <2>3, <2>4 DEF Bijection, Injection, Surjection
    <2> QED
      <3>1. ExistsBijection(1 .. n, T)
        BY <2>5, Zenon DEF ExistsBijection
      <3> QED
        BY <2>2, <3>1, FS_CountingElements, Zenon
  <1>8. Cardinality(Shown(t)) = Len(rows)
    <2>1. Len(rows) \in 0 .. Len(rows) /\ \A i \in 1 .. Len(rows) : rows[i] \in Shown(t)
      BY <1>3, <1>5
    <2>2. \A x \in Shown(t) : \E i \in 1 .. Len(rows) : rows[i] = x
      BY <1>2
    <2> QED
      BY <1>7, <2>1, <2>2
  <1>9. ASSUME NEW j \in 1 .. Len(rows) PROVE Cardinality(Ahead(t, rows[j])) = j - 1
    <2>1. j - 1 \in 0 .. Len(rows) /\ \A i \in 1 .. j - 1 : i \in 1 .. Len(rows) /\ i < j
      BY <1>3
    <2>2. \A i \in 1 .. j - 1 : rows[i] \in Ahead(t, rows[j])
      BY <1>2, <1>5, <2>1 DEF Ahead
    <2>3. ASSUME NEW x \in Ahead(t, rows[j]) PROVE \E i \in 1 .. j - 1 : rows[i] = x
      <3>1. x \in Shown(t) /\ x > rows[j]
        BY DEF Ahead
      <3>2. PICK i \in 1 .. Len(rows) : rows[i] = x
        BY <1>2, <3>1
      <3>3. rows[j] \in Nat /\ rows[i] \in Nat /\ rows[i] > rows[j] /\ i \in Int /\ j \in Int
        BY <1>3, <1>5, <3>1, <3>2
      <3>4. j < i => rows[j] > rows[i]
        BY <1>2
      <3>5. ~(i = j) /\ ~(j < i)
        BY <3>3, <3>4
      <3>6. i \in 1 .. j - 1
        BY <1>3, <3>3, <3>5
      <3> QED
        BY <3>2, <3>6
    <2> QED
      BY <1>7, <2>1, <2>2, <2>3
  <1> QED
    BY <1>1, <1>3, <1>4, <1>5, <1>8, <1>9

\* Every row that is shown has a place.
LEMMA HasPlace ==
  ASSUME NEW S, NEW t \in Seq(S), NEW x \in Shown(t)
  PROVE  /\ Cardinality(Ahead(t, x)) \in 0 .. Len(Listing(t)) - 1
         /\ Listing(t)[Cardinality(Ahead(t, x)) + 1] = x
  <1>1. PICK j \in 1 .. Len(Listing(t)) : Listing(t)[j] = x
    BY ListingIs
  <1>2. Cardinality(Ahead(t, x)) = j - 1 /\ Len(Listing(t)) \in Nat
    BY <1>1, Places
  <1> QED
    BY <1>1, <1>2

\* The rows of a list are those that the query finds.
LEMMA ListIsShown ==
  ASSUME NEW S, NEW t \in Seq(S)
  PROVE  ToSet(Listing(t)) = Shown(t)
  <1>1. PICK rows : rows = Listing(t)
    OBVIOUS
  <1>2. /\ rows \in Seq(Shown(t))
        /\ \A x \in Shown(t) : \E j \in 1 .. Len(rows) : rows[j] = x
    BY <1>1, ListingIs
  <1>3. DOMAIN rows = 1 .. Len(rows) /\ \A j \in 1 .. Len(rows) : rows[j] \in Shown(t)
    BY <1>2
  <1> QED
    BY <1>1, <1>2, <1>3 DEF ToSet

\* The first n rows of a list, and one page of it.
LEMMA RowsBetween ==
  ASSUME NEW S, NEW t \in Seq(S), NEW a \in Nat, NEW b \in Nat
  PROVE  ToSet(SubSeq(Listing(t), a + 1, Min({b, Len(Listing(t))})))
           = {x \in Shown(t) : a <= Cardinality(Ahead(t, x)) /\ Cardinality(Ahead(t, x)) < b}
  <1>1. PICK rows : rows = Listing(t)
    OBVIOUS
  <1>2. PICK m : m = Min({b, Len(rows)})
    OBVIOUS
  <1>3. Len(rows) \in Nat /\ rows \in Seq(Shown(t))
    BY <1>1, Places, ListingIs
  <1>4. m = IF b <= Len(rows) THEN b ELSE Len(rows)
    BY <1>2, <1>3 DEF Min
  <1>5. SubSeq(rows, a + 1, m) = [i \in 1 .. (m - a) |-> rows[i + a]]
    BY <1>3, <1>4
  <1>6. ToSet(SubSeq(rows, a + 1, m)) = {rows[j] : j \in a + 1 .. m}
    <2>1. PICK s : s = SubSeq(rows, a + 1, m)
      OBVIOUS
    <2>2. DOMAIN s = 1 .. (m - a) /\ \A i \in 1 .. (m - a) : s[i] = rows[i + a]
      BY <1>5, <2>1
    <2>3. ASSUME NEW i \in 1 .. (m - a) PROVE i + a \in a + 1 .. m
      BY <1>3, <1>4
    <2>4. ASSUME NEW j \in a + 1 .. m PROVE j - a \in 1 .. (m - a) /\ (j - a) + a = j
      BY <1>3, <1>4
    <2>5. {s[i] : i \in DOMAIN s} = {rows[j] : j \in a + 1 .. m}
      BY <2>2, <2>3, <2>4
    <2> QED
      BY <2>1, <2>5 DEF ToSet
  <1>7. ASSUME NEW j \in a + 1 .. m
        PROVE  /\ rows[j] \in Shown(t)
               /\ a <= Cardinality(Ahead(t, rows[j])) /\ Cardinality(Ahead(t, rows[j])) < b
    <2>1. j \in 1 .. Len(rows) /\ a <= j - 1 /\ j - 1 < b
      BY <1>3, <1>4
    <2> QED
      BY <1>1, <2>1, Places
  <1>8. ASSUME NEW x \in Shown(t), a <= Cardinality(Ahead(t, x)), Cardinality(Ahead(t, x)) < b
        PROVE  \E j \in a + 1 .. m : rows[j] = x
    <2>1. PICK j : j = Cardinality(Ahead(t, x)) + 1
      OBVIOUS
    <2>2. /\ j \in Int /\ rows[j] = x /\ j - 1 \in 0 .. Len(rows) - 1
          /\ a <= j - 1 /\ j - 1 < b
      <3>1. Cardinality(Ahead(t, x)) \in 0 .. Len(rows) - 1 /\ rows[j] = x
        BY <1>1, <2>1, HasPlace
      <3>2. j - 1 = Cardinality(Ahead(t, x)) /\ j \in Int
        BY <1>3, <2>1, <3>1
      <3> QED
        BY <1>8, <3>1, <3>2
    <2>3. j \in a + 1 .. m
      BY <1>3, <1>4, <2>2
    <2> QED
      BY <2>2, <2>3
  <1> QED
    BY <1>1, <1>2, <1>6, <1>7, <1>8

-----------------------------------------------------------------------------
\* The pages of a list lie side by side.
LEMMA PagesAdjoin ==
  ASSUME NEW p \in Nat \ {0}
  PROVE  /\ Skip(p) \in Nat /\ Skip(p + 1) = Skip(p) + Limit /\ Skip(1) = 0
         /\ Skip(p) + Limit \in Nat
  <1>1. Limit \in Nat /\ p - 1 \in Nat
    BY ListsAssumption
  <1>2. ((p + 1) - 1) * Limit = (p - 1) * Limit + Limit
    BY <1>1
  <1>3. (p - 1) * Limit \in Nat /\ 0 * Limit = 0
    BY <1>1
  <1> QED
    BY <1>1, <1>2, <1>3 DEF Skip

\* The rows of a page.
LEMMA PageRows ==
  ASSUME NEW S, NEW t \in Seq(S), NEW p \in Nat \ {0}
  PROVE  ToSet(PageOf(Listing(t), p))
           = {x \in Shown(t) : /\ Skip(p) <= Cardinality(Ahead(t, x))
                               /\ Cardinality(Ahead(t, x)) < Skip(p) + Limit}
  <1>1. PICK a, b : a = Skip(p) /\ b = Skip(p) + Limit
    OBVIOUS
  <1>2. a \in Nat /\ b \in Nat
    BY <1>1, PagesAdjoin
  <1>3. PageOf(Listing(t), p) = SubSeq(Listing(t), a + 1, Min({b, Len(Listing(t))}))
    BY <1>1 DEF PageOf
  <1>4. ToSet(SubSeq(Listing(t), a + 1, Min({b, Len(Listing(t))})))
          = {x \in Shown(t) : a <= Cardinality(Ahead(t, x)) /\ Cardinality(Ahead(t, x)) < b}
    BY <1>2, RowsBetween
  <1> QED
    BY <1>1, <1>3, <1>4

\* Division by what is not zero.
LEMMA Quotient ==
  ASSUME NEW a \in Nat, NEW b \in Nat \ {0}
  PROVE  a \div b \in Nat /\ b * (a \div b) <= a /\ a < b * (a \div b) + b
  OBVIOUS

\* A row is on the page whose number its place yields.
LEMMA OnPage ==
  ASSUME NEW a \in Nat, NEW p \in Nat \ {0}
  PROVE  a \div Limit = p - 1 <=> Skip(p) <= a /\ a < Skip(p) + Limit
  <1>1. Limit \in Nat \ {0} /\ p - 1 \in Nat
    BY ListsAssumption
  <1>2. PICK q : q = a \div Limit
    OBVIOUS
  <1>3. q \in Nat /\ Limit * q <= a /\ a < Limit * q + Limit
    BY <1>1, <1>2, Quotient
  <1>4. PICK r : r = p - 1
    OBVIOUS
  <1>5. ASSUME r < q PROVE Limit * r + Limit <= Limit * q
    <2>1. q - r - 1 \in Nat
      BY <1>1, <1>3, <1>4, <1>5
    <2>2. Limit * (q - r - 1) \in Nat
      BY <1>1, <2>1
    <2> QED
      BY <1>1, <1>3, <1>4, <2>2
  <1>6. ASSUME q < r PROVE Limit * q + Limit <= Limit * r
    <2>1. r - q - 1 \in Nat
      BY <1>1, <1>3, <1>4, <1>6
    <2>2. Limit * (r - q - 1) \in Nat
      BY <1>1, <2>1
    <2> QED
      BY <1>1, <1>3, <1>4, <2>2
  <1>7. Limit * q \in Nat /\ Limit * r \in Nat
    BY <1>1, <1>3, <1>4
  <1>8. q = r <=> Limit * r <= a /\ a < Limit * r + Limit
    <2>1. CASE q = r
      BY <1>3, <2>1
    <2>2. CASE r < q
      BY <1>1, <1>3, <1>5, <1>7, <2>2
    <2>3. CASE q < r
      BY <1>1, <1>3, <1>6, <1>7, <2>3
    <2> QED
      BY <1>1, <1>3, <1>4, <2>1, <2>2, <2>3
  <1>9. Skip(p) = Limit * r
    BY <1>1, <1>4 DEF Skip
  <1> QED
    BY <1>2, <1>4, <1>8, <1>9

\* There are as many pages as it takes, and places for all of them.
LEMMA EnoughPages ==
  ASSUME NEW total \in 0 .. MaxChanges
  PROVE  /\ TotalPages(total) \in Nat /\ TotalPages(total) <= PageCount
         /\ PageCount \in Nat /\ 1 \in Pages
         /\ \A p \in Nat : p >= TotalPages(total) => total <= Skip(p + 1)
  <1>1. Limit \in Nat \ {0} /\ MaxChanges \in Nat \ {0} /\ total \in Nat /\ total <= MaxChanges
    BY ListsAssumption
  <1>2. PICK a, b : a = total + Limit - 1 /\ b = MaxChanges + Limit - 1
    OBVIOUS
  <1>3. a \in Nat /\ b \in Nat /\ a <= b /\ b >= Limit
    BY <1>1, <1>2
  <1>4. PICK q, r : q = a \div Limit /\ r = b \div Limit
    OBVIOUS
  <1>5. /\ q \in Nat /\ Limit * q <= a /\ a < Limit * q + Limit
        /\ r \in Nat /\ Limit * r <= b /\ b < Limit * r + Limit
    BY <1>1, <1>3, <1>4, Quotient
  <1>6. Limit * q \in Nat /\ Limit * r \in Nat
    BY <1>1, <1>5
  <1>7. q <= r
    <2> SUFFICES ASSUME r < q PROVE FALSE
      BY <1>5
    <2>1. q - r - 1 \in Nat
      BY <1>5
    <2>2. Limit * (q - r - 1) \in Nat
      BY <1>1, <2>1
    <2>3. Limit * r + Limit <= Limit * q
      BY <1>1, <1>5, <2>2
    <2> QED
      BY <1>1, <1>3, <1>5, <1>6, <2>3
  <1>8. r # 0
    BY <1>1, <1>3, <1>5
  <1>9. ASSUME NEW p \in Nat, p >= q PROVE total <= Skip(p + 1)
    <2>1. p - q \in Nat
      BY <1>5, <1>9
    <2>2. Limit * (p - q) \in Nat /\ Limit * p \in Nat
      BY <1>1, <2>1
    <2>3. Limit * q <= Limit * p
      BY <1>1, <1>5, <2>2
    <2>4. total <= Limit * q
      BY <1>1, <1>2, <1>5, <1>6
    <2>5. Skip(p + 1) = Limit * p
      BY <1>1 DEF Skip
    <2> QED
      BY <1>1, <1>6, <2>2, <2>3, <2>4, <2>5
  <1>10. TotalPages(total) = q /\ PageCount = r
    BY <1>2, <1>4 DEF TotalPages, PageCount
  <1> QED
    BY <1>5, <1>7, <1>8, <1>9, <1>10 DEF Pages

-----------------------------------------------------------------------------
\* What a list is made from does not change but for the table.
LEMMA SameQuery ==
  ASSUME service' = service, ctx' = ctx, NEW t, table' = t
  PROVE  /\ Shown(table)' = Shown(t) /\ Listing(table)' = Listing(t)
         /\ \A x : Ahead(table, x)' = Ahead(t, x)
         /\ Terms' = Terms /\ Conditions' = Conditions
  <1>1. Terms' = Terms /\ Base' = Base
    BY DEF Terms, Base
  <1>2. Chain' = Chain
    BY DEF Chain, Base
  <1>3. Parenthesized' <=> Parenthesized
    BY DEF Parenthesized
  <1>4. ASSUME NEW r, NEW terms PROVE FitsAll(r, terms)' <=> FitsAll(r, terms)
    BY DEF FitsAll, Fits
  <1>5. ASSUME NEW r PROVE Selected(r)' <=> Selected(r)
    BY <1>1, <1>2, <1>3, <1>4 DEF Selected
  <1>6. Shown(table)' = Shown(t)
    BY <1>5 DEF Shown
  <1>7. Listing(table)' = Listing(t)
    BY <1>5 DEF Listing
  <1>8. ASSUME NEW x PROVE Ahead(table, x)' = Ahead(t, x)
    BY <1>6 DEF Ahead
  <1>9. Conditions' = Conditions
    BY <1>1 DEF Conditions
  <1> QED
    BY <1>1, <1>6, <1>7, <1>8, <1>9

Rows == [org : Tenants, fits : SUBSET Conditions]
Totals == 0 .. MaxChanges
Stages == {"ask", "items", "count", "fill", "done"}

TableShape ==
  /\ service \in Services
  /\ table \in Seq(Rows)
  /\ changes \in Nat /\ Len(table) <= changes /\ changes <= MaxChanges

PagesShape ==
  /\ pages = [p \in Pages |-> pages[p]]
  /\ \A p \in Pages : pages[p] # Absent => pages[p].total \in Totals

ClientShape ==
  client # Absent =>
    /\ client = [page |-> client.page, stage |-> client.stage, seen |-> client.seen,
                 items |-> client.items, total |-> client.total]
    /\ client.page \in Nat \ {0} /\ client.stage \in Stages /\ client.total \in Totals
    /\ client.stage # "done" => client.page \in Pages

\* Until a list and a write overlap, what is cached, and what is about to be, is
\* what the table says, except between a write and its delByPattern; and no list
\* is being read there.
Current ==
  ~mixed =>
    /\ InFlight => writer = "idle"
    /\ writer = "idle" =>
         \A p \in Pages : pages[p] # Absent =>
            /\ pages[p].items = PageOf(Listing(table), p)
            /\ pages[p].total = Len(Listing(table))
    /\ client # Absent /\ client.stage \in {"count", "fill"} =>
         client.items = PageOf(Listing(table), client.page)
    /\ client # Absent /\ client.stage = "fill" => client.total = Len(Listing(table))

\* What has stayed in the list is there, and the client has seen what comes before
\* the page it is about to read.
Followed ==
  client # Absent =>
    /\ kept \subseteq Shown(table)
    /\ ~mixed /\ ~slipped =>
         IF client.stage = "done" THEN kept \subseteq client.seen
         ELSE \A x \in kept :
                Cardinality(Ahead(table, x)) < Skip(client.page) => x \in client.seen

ListsInv == TableShape /\ PagesShape /\ ClientShape /\ Current /\ Followed

\* A total is at most the number of rows.
LEMMA TotalOfTable ==
  ASSUME TableShape
  PROVE  Len(Listing(table)) \in Totals
  <1>1. PICK t, n : t = table /\ n = Len(table)
    OBVIOUS
  <1>2. t \in Seq(Rows) /\ n \in Nat /\ n <= MaxChanges
    BY <1>1, ListsAssumption DEF TableShape
  <1>3. Cardinality(Shown(t)) = Len(Listing(t)) /\ Len(Listing(t)) \in Nat
    BY <1>2, Places
  <1>4. Shown(t) \in SUBSET (1 .. n)
    BY <1>1 DEF Shown
  <1>5. IsFiniteSet(1 .. n) /\ Cardinality(1 .. n) = n
    BY <1>2, FS_Interval
  <1>6. Cardinality(Shown(t)) <= n
    BY <1>4, <1>5, FS_Subset
  <1> QED
    BY <1>1, <1>2, <1>3, <1>6, ListsAssumption DEF Totals

\* The fields of a client that has received a page.
LEMMA Received ==
  ASSUME ClientShape, client # Absent, client.stage # "done",
         NEW items, NEW total \in Totals, Receive(items, total)
  PROVE  /\ ClientShape'
         /\ client'.page = client.page + 1 /\ client'.seen = client.seen \cup ToSet(items)
         /\ client'.stage = IF client.page < TotalPages(total) THEN "ask" ELSE "done"
  <1>1. PICK stage : stage = IF client.page < TotalPages(total) THEN "ask" ELSE "done"
    OBVIOUS
  <1>2. client' = [page |-> client.page + 1, stage |-> stage,
                   seen |-> client.seen \cup ToSet(items), items |-> <<>>, total |-> 0]
    BY <1>1 DEF ClientShape, Receive
  <1>3. client.page \in Nat \ {0} /\ client.page \in Pages
    BY DEF ClientShape
  <1>4. stage # "done" => client.page + 1 \in Pages
    BY <1>1, <1>3, EnoughPages DEF Pages, Totals
  <1>5. 0 \in Totals
    BY ListsAssumption DEF Totals
  <1>6. stage \in Stages
    BY <1>1 DEF Stages
  <1>7. ClientShape'
    BY <1>2, <1>3, <1>4, <1>5, <1>6 DEF ClientShape, Pages, PageCount
  <1> QED
    BY <1>1, <1>2, <1>7

\* A client that receives a page as it is now has seen all that comes before the
\* next one; and all there is when it reads no further.
LEMMA SeesOn ==
  ASSUME TableShape, ClientShape, Followed, client # Absent, client.stage # "done", ~mixed, ~slipped,
         Receive(PageOf(Listing(table), client.page), Len(Listing(table))),
         UNCHANGED <<service, ctx, table, kept>>
  PROVE  /\ kept' \subseteq Shown(table)'
         /\ IF client'.stage = "done" THEN kept' \subseteq client'.seen
            ELSE \A x \in kept' :
                   Cardinality(Ahead(table, x)') < Skip(client'.page) => x \in client'.seen
  <1>1. PICK t : t = table
    OBVIOUS
  <1>2. t \in Seq(Rows)
    BY <1>1 DEF TableShape
  <1>3. PICK page, total : page = client.page /\ total = Len(Listing(t))
    OBVIOUS
  <1>4. page \in Nat \ {0} /\ page + 1 \in Nat
    BY <1>3 DEF ClientShape
  <1>5. total \in Totals
    BY <1>1, <1>3, TotalOfTable
  <1>6. /\ client'.page = page + 1 /\ client'.seen = client.seen \cup ToSet(PageOf(Listing(t), page))
        /\ client'.stage = IF page < TotalPages(total) THEN "ask" ELSE "done"
    BY <1>1, <1>3, <1>5, Received
  <1>7. ToSet(PageOf(Listing(t), page))
          = {x \in Shown(t) : /\ Skip(page) <= Cardinality(Ahead(t, x))
                              /\ Cardinality(Ahead(t, x)) < Skip(page) + Limit}
    BY <1>2, <1>4, PageRows
  <1>8. Skip(page) \in Nat /\ Skip(page + 1) = Skip(page) + Limit
    BY <1>4, PagesAdjoin
  <1>9. kept \subseteq Shown(t) /\ \A x \in kept : Cardinality(Ahead(t, x)) < Skip(page) => x \in client.seen
    BY <1>1, <1>3 DEF Followed
  <1>10. ASSUME NEW x \in kept PROVE Cardinality(Ahead(t, x)) \in Nat /\ Cardinality(Ahead(t, x)) < total
    BY <1>2, <1>3, <1>5, <1>9, HasPlace DEF Totals
  <1>11. ASSUME NEW x \in kept, Cardinality(Ahead(t, x)) < Skip(page + 1) PROVE x \in client'.seen
    BY <1>6, <1>7, <1>8, <1>9, <1>10, <1>11
  <1>12. ASSUME client'.stage = "done", NEW x \in kept PROVE x \in client'.seen
    <2>1. ~(page < TotalPages(total))
      BY <1>6, <1>12
    <2>2. total <= Skip(page + 1) /\ total \in Nat
      BY <1>4, <1>5, <2>1, EnoughPages DEF Totals
    <2>3. Cardinality(Ahead(t, x)) < Skip(page + 1)
      BY <1>4, <1>8, <1>10, <2>2, ListsAssumption
    <2> QED
      BY <1>11, <2>3
  <1>13. Shown(table)' = Shown(t) /\ \A x : Ahead(table, x)' = Ahead(t, x)
    BY <1>1, SameQuery
  <1> QED
    BY <1>6, <1>9, <1>11, <1>12, <1>13

\* A row is not moved up by a write that takes none of the first n rows away.
LEMMA NotMovedUp ==
  ASSUME NEW S, NEW t \in Seq(S), NEW u \in Seq(S), NEW n \in Nat,
         NEW x, x \in Shown(t), x \in Shown(u), n <= Cardinality(Ahead(t, x)),
         \A y \in Shown(t) : Cardinality(Ahead(t, y)) < n => y \in Shown(u)
  PROVE  n <= Cardinality(Ahead(u, x))
  <1>1. PICK rows, k : rows = Listing(t) /\ k = Cardinality(Ahead(t, x)) + 1
    OBVIOUS
  <1>2. /\ Len(rows) \in Nat /\ k \in 1 .. Len(rows) /\ rows[k] = x /\ n < k
    <2>1. /\ Cardinality(Ahead(t, x)) \in 0 .. Len(Listing(t)) - 1
          /\ Listing(t)[Cardinality(Ahead(t, x)) + 1] = x
      BY HasPlace
    <2>2. Len(Listing(t)) \in Nat
      BY Places
    <2> QED
      BY <1>1, <2>1, <2>2
  <1>3. \A i, j \in 1 .. Len(rows) : i < j => rows[i] > rows[j]
    BY <1>1, ListingIs
  <1>4. \A i \in 1 .. Len(rows) :
           rows[i] \in Shown(t) /\ rows[i] \in Nat /\ Cardinality(Ahead(t, rows[i])) = i - 1
    BY <1>1, Places
  <1>5. ASSUME NEW i \in 1 .. n PROVE i \in 1 .. Len(rows) /\ rows[i] \in Ahead(u, x)
    <2>1. i \in 1 .. Len(rows) /\ i < k /\ i - 1 < n
      BY <1>2
    <2>2. rows[i] > x
      BY <1>2, <1>3, <2>1
    <2>3. rows[i] \in Shown(u)
      BY <1>4, <2>1
    <2> QED
      BY <2>1, <2>2, <2>3 DEF Ahead
  <1>6. PICK f : f = [i \in 1 .. n |-> rows[i]]
    OBVIOUS
  <1>7. f \in [1 .. n -> Ahead(u, x)]
    BY <1>5, <1>6
  <1>8. ASSUME NEW i \in 1 .. n, NEW j \in 1 .. n, f[i] = f[j] PROVE i = j
    <2>1. i \in 1 .. Len(rows) /\ j \in 1 .. Len(rows) /\ rows[i] = rows[j]
      BY <1>5, <1>6, <1>8
    <2>2. i - 1 = j - 1
      BY <1>4, <2>1
    <2> QED
      BY <2>2
  <1>9. f \in Injection(1 .. n, Ahead(u, x))
    BY <1>7, <1>8 DEF Injection, IsInjective
  <1>10. IsFiniteSet(Ahead(u, x))
    <2>1. Ahead(u, x) \in SUBSET Shown(u) /\ IsFiniteSet(Shown(u))
      BY Places DEF Ahead
    <2> QED
      BY <2>1, FS_Subset
  <1>11. Cardinality(1 .. n) <= Cardinality(Ahead(u, x))
    BY <1>9, <1>10, FS_Injection
  <1>12. Cardinality(1 .. n) = n
    BY FS_Interval
  <1> QED
    BY <1>11, <1>12

\* Who has seen everything before a page has seen everything that is before it
\* after a write that takes none of that away, and of what has stayed.
LEMMA SeenStaysSeen ==
  ASSUME TableShape, ClientShape, Followed, client # Absent,
         NEW t \in Seq(Rows), Write(t)
  PROVE  /\ kept' \subseteq Shown(t)
         /\ ~mixed' /\ ~slipped' =>
              IF client.stage = "done" THEN kept' \subseteq client.seen
              ELSE \A x \in kept' :
                     Cardinality(Ahead(t, x)) < Skip(client.page) => x \in client.seen
  <1>1. PICK o : o = table
    OBVIOUS
  <1>2. o \in Seq(Rows)
    BY <1>1 DEF TableShape
  <1>3. PICK n : n = Skip(client.page)
    OBVIOUS
  <1>4. n \in Nat
    BY <1>3, PagesAdjoin DEF ClientShape
  <1>5. ToSet(Listing(o)) = Shown(o) /\ ToSet(Listing(t)) = Shown(t)
    BY <1>2, ListIsShown
  <1>6. kept \subseteq Shown(o)
    BY <1>1 DEF Followed
  <1>7. kept' = kept \ (Shown(o) \ Shown(t))
    BY <1>1, <1>5 DEF Write, Leaving
  <1>8. kept' \subseteq kept /\ kept' \subseteq Shown(t)
    BY <1>6, <1>7
  <1>9. ASSUME ~mixed', ~slipped'
        PROVE  /\ ~mixed /\ ~slipped
               /\ \A y \in Shown(o) : Cardinality(Ahead(o, y)) < n => y \in Shown(t)
    <2>1. PICK passed : passed = SubSeq(Listing(o), 0 + 1, Min({n, Len(Listing(o))}))
      OBVIOUS
    <2>2. ~slipped /\ ToSet(passed) \cap (Shown(o) \ Shown(t)) = {}
      <3>1. passed = SubSeq(Listing(table), 1, Min({Skip(client.page), Len(Listing(table))}))
        BY <1>1, <1>3, <2>1
      <3>2. slipped' = (slipped \/ ToSet(passed) \cap Leaving(t) # {})
        BY <3>1, Zenon DEF Write
      <3> QED
        BY <1>1, <1>5, <1>9, <3>2 DEF Leaving
    <2>3. ToSet(passed)
            = {y \in Shown(o) : 0 <= Cardinality(Ahead(o, y)) /\ Cardinality(Ahead(o, y)) < n}
      BY <1>2, <1>4, <2>1, RowsBetween
    <2>4. ASSUME NEW y \in Shown(o) PROVE 0 <= Cardinality(Ahead(o, y))
      <3>1. Len(Listing(o)) \in Nat /\ Cardinality(Ahead(o, y)) \in 0 .. Len(Listing(o)) - 1
        BY <1>2, HasPlace, Places
      <3> QED
        BY <3>1
    <2>5. ~mixed
      BY <1>9 DEF Write
    <2> QED
      BY <2>2, <2>3, <2>4, <2>5
  <1>10. ASSUME ~mixed', ~slipped', client.stage # "done", NEW x \in kept',
                Cardinality(Ahead(t, x)) < n
         PROVE  x \in client.seen
    <2>1. x \in Shown(o) /\ x \in Shown(t)
      BY <1>6, <1>8
    <2>2. Cardinality(Ahead(o, x)) \in Nat /\ Cardinality(Ahead(t, x)) \in Nat
      <3>1. /\ Len(Listing(o)) \in Nat /\ Cardinality(Ahead(o, x)) \in 0 .. Len(Listing(o)) - 1
            /\ Len(Listing(t)) \in Nat /\ Cardinality(Ahead(t, x)) \in 0 .. Len(Listing(t)) - 1
        BY <1>2, <2>1, HasPlace, Places
      <3> QED
        BY <3>1
    <2>3. n <= Cardinality(Ahead(o, x)) => n <= Cardinality(Ahead(t, x))
      BY <1>2, <1>4, <1>9, <1>10, <2>1, NotMovedUp
    <2>4. Cardinality(Ahead(o, x)) < n
      BY <1>4, <1>10, <2>2, <2>3
    <2> QED
      BY <1>1, <1>3, <1>8, <1>9, <1>10, <2>4 DEF Followed
  <1>11. ASSUME ~mixed', ~slipped', client.stage = "done" PROVE kept' \subseteq client.seen
    BY <1>8, <1>9, <1>11 DEF Followed
  <1> QED
    BY <1>3, <1>8, <1>10, <1>11

-----------------------------------------------------------------------------
\* The shape of the table is that of its rows, whose conditions do not change.
LEMMA TableKept ==
  ASSUME TableShape, UNCHANGED <<service, ctx, table, changes>>
  PROVE  TableShape'
  <1>1. Conditions' = Conditions
    BY SameQuery
  <1> QED
    BY <1>1 DEF TableShape, Rows

\* A change of one page.
LEMMA PageShape ==
  ASSUME PagesShape, NEW p \in Pages, NEW page, page # Absent => page.total \in Totals,
         pages' = [pages EXCEPT ![p] = page]
  PROVE  /\ PagesShape'
         /\ pages'[p] = page /\ \A q \in Pages : q # p => pages'[q] = pages[q]
  <1>1. /\ pages'[p] = page /\ \A q \in Pages : q # p => pages'[q] = pages[q]
        /\ pages' = [q \in Pages |-> pages'[q]]
    BY DEF PagesShape
  <1> QED
    BY <1>1 DEF PagesShape, Pages, PageCount, Totals

\* Nothing has been cached or read at first.
LEMMA ListsInit == InitLists => ListsInv
  <1> SUFFICES ASSUME InitLists PROVE ListsInv
    OBVIOUS
  <1>1. table = <<>> /\ client = Absent /\ writer = "idle" /\ changes = 0
        /\ pages = [p \in Pages |-> Absent] /\ service \in Services
    BY DEF InitLists
  <1>2. TableShape
    BY <1>1, ListsAssumption DEF TableShape
  <1>3. \A p \in Pages : pages[p] = Absent
    BY <1>1
  <1>4. PagesShape
    BY <1>1, <1>3 DEF PagesShape
  <1>5. ClientShape /\ Followed
    BY <1>1 DEF ClientShape, Followed
  <1>6. Current
    BY <1>1, <1>3 DEF Current, InFlight
  <1> QED
    BY <1>2, <1>4, <1>5, <1>6 DEF ListsInv

\* A client starts before the first page.
LEMMA WalkStep == ListsInv /\ Walk => ListsInv'
  <1> SUFFICES ASSUME ListsInv, Walk PROVE ListsInv'
    OBVIOUS
  <1>1. PICK t : t = table
    OBVIOUS
  <1>2. t \in Seq(Rows)
    BY <1>1 DEF ListsInv, TableShape
  <1>3. UNCHANGED <<service, ctx, table, pages, writer, changes, mixed>> /\ client = Absent
    BY DEF Walk
  <1>4. Shown(table)' = Shown(t) /\ \A x : Ahead(table, x)' = Ahead(t, x)
        /\ Listing(table)' = Listing(t)
    BY <1>1, <1>3, SameQuery
  <1>5. client' = [page |-> 1, stage |-> "ask", seen |-> {}, items |-> <<>>, total |-> 0]
    BY DEF Walk
  <1>6. kept' = Shown(t)
    BY <1>1, <1>2, ListIsShown DEF Walk
  <1>7. TableShape' /\ PagesShape'
    BY <1>3, TableKept DEF ListsInv, PagesShape, Pages, PageCount, Totals
  <1>8. ClientShape'
    <2>1. 1 \in Pages /\ 0 \in Totals
      BY EnoughPages, ListsAssumption DEF Totals
    <2> QED
      BY <1>5, <2>1 DEF ClientShape, Stages, Pages, PageCount
  <1>9. Current'
    BY <1>1, <1>3, <1>4, <1>5 DEF ListsInv, Current, InFlight, Pages, PageCount, PageOf, Skip
  <1>10. Followed'
    <2>1. ASSUME NEW x \in Shown(t) PROVE ~(Cardinality(Ahead(t, x)) < Skip(1))
      <3>1. /\ Len(Listing(t)) \in Nat /\ Cardinality(Ahead(t, x)) \in 0 .. Len(Listing(t)) - 1
            /\ Skip(1) = 0
        BY <1>2, HasPlace, Places, PagesAdjoin
      <3> QED
        BY <3>1
    <2>2. client'.stage = "ask" /\ client'.page = 1
      BY <1>5
    <2> QED
      BY <1>4, <1>6, <2>1, <2>2 DEF Followed, Skip
  <1> QED
    BY <1>7, <1>8, <1>9, <1>10 DEF ListsInv

\* A page that is received as it is in the cache, or as it has been read.
LEMMA ReceiveStep ==
  ASSUME ListsInv, client # Absent, client.stage # "done", NEW items, NEW total \in Totals,
         Receive(items, total), UNCHANGED <<service, ctx, table, changes, kept, slipped>>,
         ~mixed' => /\ ~mixed /\ items = PageOf(Listing(table), client.page)
                    /\ total = Len(Listing(table))
  PROVE  /\ TableShape' /\ ClientShape' /\ Followed'
         /\ client' # Absent => client'.stage \in {"ask", "done"}
  <1>1. TableShape' /\ ClientShape'
    BY TableKept, Received DEF ListsInv
  <1>2. kept \subseteq Shown(table) /\ Shown(table)' = Shown(table)
    BY SameQuery DEF ListsInv, Followed
  <1>3. client'.stage = IF client.page < TotalPages(total) THEN "ask" ELSE "done"
    BY Received DEF ListsInv
  <1>4. ASSUME ~mixed', ~slipped'
        PROVE  IF client'.stage = "done" THEN kept' \subseteq client'.seen
               ELSE \A x \in kept' :
                      Cardinality(Ahead(table, x)') < Skip(client'.page) => x \in client'.seen
    BY <1>4, SeesOn DEF ListsInv
  <1>5. Followed'
    BY <1>2, <1>4 DEF Followed, Skip
  <1> QED
    BY <1>1, <1>3, <1>5

\* A page comes from the cache, or will be read.
LEMMA AskStep == ListsInv /\ Ask => ListsInv'
  <1> SUFFICES ASSUME ListsInv, Ask PROVE ListsInv'
    OBVIOUS
  <1>1. /\ client # Absent /\ client.stage = "ask" /\ client.page \in Pages
        /\ UNCHANGED <<service, ctx, table, writer, changes, kept, slipped>>
        /\ mixed' = (mixed \/ writer # "idle")
    BY DEF ListsInv, ClientShape, Ask, Reading
  <1>2. ~mixed' => ~mixed /\ writer = "idle"
    BY <1>1
  <1>3. Listing(table)' = Listing(table) /\ Shown(table)' = Shown(table)
        /\ \A x : Ahead(table, x)' = Ahead(table, x)
    BY <1>1, SameQuery
  <1>4. CASE /\ pages[client.page] # Absent
             /\ Receive(pages[client.page].items, pages[client.page].total)
             /\ UNCHANGED pages
    <2>1. pages[client.page].total \in Totals
      BY <1>1, <1>4 DEF ListsInv, PagesShape
    <2>2. ~mixed' => /\ ~mixed /\ pages[client.page].items = PageOf(Listing(table), client.page)
                     /\ pages[client.page].total = Len(Listing(table))
      BY <1>1, <1>2, <1>4 DEF ListsInv, Current
    <2>3. /\ TableShape' /\ ClientShape' /\ Followed'
          /\ client' # Absent => client'.stage \in {"ask", "done"}
      BY <1>1, <1>4, <2>1, <2>2, ReceiveStep
    <2>4. PagesShape'
      BY <1>4 DEF ListsInv, PagesShape, Pages, PageCount, Totals
    <2>5. Current'
      BY <1>1, <1>2, <1>3, <1>4, <2>3 DEF ListsInv, Current, InFlight, Pages, PageCount, PageOf, Skip
    <2> QED
      BY <2>3, <2>4, <2>5 DEF ListsInv
  <1>5. CASE /\ client' = [client EXCEPT !.stage = "items"]
             /\ pages' = [pages EXCEPT ![client.page] = Absent]
    <2>1. /\ client'.stage = "items" /\ client'.page = client.page /\ client'.seen = client.seen
          /\ ClientShape'
      BY <1>1, <1>5 DEF ListsInv, ClientShape, Stages, Totals, Pages, PageCount
    <2>2. /\ PagesShape' /\ pages'[client.page] = Absent
          /\ \A q \in Pages : q # client.page => pages'[q] = pages[q]
      BY <1>1, <1>5, PageShape DEF ListsInv
    <2>3. TableShape'
      BY <1>1, TableKept DEF ListsInv
    <2>4. Current'
      BY <1>1, <1>2, <1>3, <2>1, <2>2 DEF ListsInv, Current, InFlight, Pages, PageCount, PageOf, Skip
    <2>5. Followed'
      BY <1>1, <1>2, <1>3, <2>1 DEF ListsInv, Followed, Skip
    <2> QED
      BY <2>1, <2>2, <2>3, <2>4, <2>5 DEF ListsInv
  <1> QED
    BY <1>4, <1>5 DEF Ask

\* The two statements of getManyAndCount.
LEMMA FindItemsStep == ListsInv /\ FindItems => ListsInv'
  <1> SUFFICES ASSUME ListsInv, FindItems PROVE ListsInv'
    OBVIOUS
  <1>1. /\ client # Absent /\ client.stage = "items"
        /\ client' = [client EXCEPT !.stage = "count",
                                    !.items = PageOf(Listing(table), client.page)]
        /\ UNCHANGED <<service, ctx, table, pages, writer, changes, kept, slipped, mixed>>
    BY DEF FindItems
  <1>2. Listing(table)' = Listing(table) /\ Shown(table)' = Shown(table)
        /\ \A x : Ahead(table, x)' = Ahead(table, x)
    BY <1>1, SameQuery
  <1>3. /\ client'.stage = "count" /\ client'.page = client.page /\ client'.seen = client.seen
        /\ client'.items = PageOf(Listing(table), client.page) /\ ClientShape'
    <2>1. client' = [page |-> client.page, stage |-> "count", seen |-> client.seen,
                     items |-> PageOf(Listing(table), client.page), total |-> client.total]
      BY <1>1 DEF ListsInv, ClientShape
    <2> QED
      BY <1>1, <2>1 DEF ListsInv, ClientShape, Stages, Totals, Pages, PageCount
  <1>4. TableShape' /\ PagesShape'
    BY <1>1, TableKept DEF ListsInv, PagesShape, Pages, PageCount, Totals
  <1>5. Current'
    BY <1>1, <1>2, <1>3 DEF ListsInv, Current, InFlight, Pages, PageCount, PageOf, Skip
  <1>6. Followed'
    BY <1>1, <1>2, <1>3 DEF ListsInv, Followed, Skip
  <1> QED
    BY <1>3, <1>4, <1>5, <1>6 DEF ListsInv

LEMMA CountItemsStep == ListsInv /\ CountItems => ListsInv'
  <1> SUFFICES ASSUME ListsInv, CountItems PROVE ListsInv'
    OBVIOUS
  <1>1. /\ client # Absent /\ client.stage = "count"
        /\ client' = [client EXCEPT !.stage = "fill", !.total = Len(Listing(table))]
        /\ UNCHANGED <<service, ctx, table, pages, writer, changes, kept, slipped, mixed>>
    BY DEF CountItems
  <1>2. Listing(table)' = Listing(table) /\ Shown(table)' = Shown(table)
        /\ \A x : Ahead(table, x)' = Ahead(table, x)
    BY <1>1, SameQuery
  <1>3. /\ client'.stage = "fill" /\ client'.page = client.page /\ client'.seen = client.seen
        /\ client'.items = client.items /\ client'.total = Len(Listing(table)) /\ ClientShape'
    <2>1. client' = [page |-> client.page, stage |-> "fill", seen |-> client.seen,
                     items |-> client.items, total |-> Len(Listing(table))]
      BY <1>1 DEF ListsInv, ClientShape
    <2>2. Len(Listing(table)) \in Totals
      BY TotalOfTable DEF ListsInv
    <2> QED
      BY <1>1, <2>1, <2>2 DEF ListsInv, ClientShape, Stages, Totals, Pages, PageCount
  <1>4. TableShape' /\ PagesShape'
    BY <1>1, TableKept DEF ListsInv, PagesShape, Pages, PageCount, Totals
  <1>5. Current'
    BY <1>1, <1>2, <1>3 DEF ListsInv, Current, InFlight, Pages, PageCount, PageOf, Skip
  <1>6. Followed'
    BY <1>1, <1>2, <1>3 DEF ListsInv, Followed, Skip
  <1> QED
    BY <1>3, <1>4, <1>5, <1>6 DEF ListsInv

\* What has been read becomes the cached page, and the client's.
LEMMA FillPageStep == ListsInv /\ FillPage => ListsInv'
  <1> SUFFICES ASSUME ListsInv, FillPage PROVE ListsInv'
    OBVIOUS
  <1>1. /\ client # Absent /\ client.stage = "fill" /\ client.page \in Pages
        /\ client.total \in Totals
        /\ pages' = [pages EXCEPT ![client.page] = [items |-> client.items, total |-> client.total]]
        /\ Receive(client.items, client.total)
        /\ UNCHANGED <<service, ctx, table, writer, changes, kept, slipped, mixed>>
    BY DEF ListsInv, ClientShape, FillPage
  <1>2. Listing(table)' = Listing(table)
    BY <1>1, SameQuery
  <1>3. ~mixed => /\ client.items = PageOf(Listing(table), client.page)
                  /\ client.total = Len(Listing(table))
    BY <1>1 DEF ListsInv, Current
  <1>4. /\ TableShape' /\ ClientShape' /\ Followed'
        /\ client' # Absent => client'.stage \in {"ask", "done"}
    BY <1>1, <1>3, ReceiveStep
  <1>5. PICK page : page = [items |-> client.items, total |-> client.total]
    OBVIOUS
  <1>6. page.items = client.items /\ page.total = client.total
    BY <1>5
  <1>7. /\ PagesShape' /\ pages'[client.page] = page
        /\ \A q \in Pages : q # client.page => pages'[q] = pages[q]
    BY <1>1, <1>5, <1>6, PageShape DEF ListsInv
  <1>8. Current'
    BY <1>1, <1>2, <1>3, <1>4, <1>6, <1>7
       DEF ListsInv, Current, InFlight, Pages, PageCount, PageOf, Skip
  <1> QED
    BY <1>4, <1>7, <1>8 DEF ListsInv

\* Nothing is known of a client that has left.
LEMMA LeaveStep == ListsInv /\ Leave => ListsInv'
  <1> SUFFICES ASSUME ListsInv, Leave PROVE ListsInv'
    OBVIOUS
  <1>1. /\ client' = Absent
        /\ UNCHANGED <<service, ctx, table, pages, writer, changes, mixed>>
    BY DEF Leave
  <1>2. Listing(table)' = Listing(table)
    BY <1>1, SameQuery
  <1>3. TableShape' /\ PagesShape' /\ ClientShape' /\ Followed'
    BY <1>1, TableKept DEF ListsInv, PagesShape, ClientShape, Followed, Pages, PageCount, Totals
  <1>4. Current'
    BY <1>1, <1>2 DEF ListsInv, Current, InFlight, Pages, PageCount, PageOf, Skip
  <1> QED
    BY <1>3, <1>4 DEF ListsInv

\* A write leaves the cached pages behind until they are cleared.
LEMMA TableStep ==
  ASSUME ListsInv, NEW t \in Seq(Rows), Len(t) <= Len(table) + 1, Write(t)
  PROVE  ListsInv'
  <1>1. /\ table' = t /\ writer' = "clear" /\ changes' = changes + 1 /\ changes < MaxChanges
        /\ mixed' = (mixed \/ InFlight)
        /\ UNCHANGED <<service, ctx, pages, client>>
    BY DEF Write
  <1>2. /\ Shown(table)' = Shown(t) /\ \A x : Ahead(table, x)' = Ahead(t, x)
        /\ Conditions' = Conditions
    BY <1>1, SameQuery
  <1>3. TableShape'
    <2>1. changes + 1 \in Nat /\ changes + 1 <= MaxChanges /\ Len(t) <= changes + 1
      BY <1>1, ListsAssumption DEF ListsInv, TableShape
    <2> QED
      BY <1>1, <1>2, <2>1 DEF ListsInv, TableShape, Rows
  <1>4. PagesShape' /\ ClientShape'
    BY <1>1 DEF ListsInv, PagesShape, ClientShape, Pages, PageCount, Totals, Stages
  <1>5. Current'
    BY <1>1 DEF Current, InFlight
  <1>6. Followed'
    <2>1. client # Absent =>
            /\ kept' \subseteq Shown(t)
            /\ ~mixed' /\ ~slipped' =>
                 IF client.stage = "done" THEN kept' \subseteq client.seen
                 ELSE \A x \in kept' :
                        Cardinality(Ahead(t, x)) < Skip(client.page) => x \in client.seen
      BY SeenStaysSeen DEF ListsInv
    <2> QED
      BY <1>1, <1>2, <2>1 DEF Followed, Skip
  <1> QED
    BY <1>3, <1>4, <1>5, <1>6 DEF ListsInv

\* No page is left.
LEMMA ClearListsStep == ListsInv /\ ClearLists => ListsInv'
  <1> SUFFICES ASSUME ListsInv, ClearLists PROVE ListsInv'
    OBVIOUS
  <1>1. /\ writer' = "idle" /\ pages' = [p \in Pages |-> Absent]
        /\ mixed' = (client # Absent /\ (mixed \/ InFlight))
        /\ UNCHANGED <<service, ctx, table, client, changes, kept, slipped>>
    BY DEF ClearLists, ClearPages
  <1>2. Listing(table)' = Listing(table) /\ Shown(table)' = Shown(table)
        /\ \A x : Ahead(table, x)' = Ahead(table, x)
    BY <1>1, SameQuery
  <1>3. \A p \in Pages : pages'[p] = Absent
    BY <1>1
  <1>4. TableShape' /\ PagesShape' /\ ClientShape'
    BY <1>1, <1>3, TableKept DEF ListsInv, PagesShape, ClientShape, Pages, PageCount, Totals, Stages
  <1>5. client # Absent /\ ~mixed' => ~mixed /\ ~InFlight
    BY <1>1
  <1>6. Current'
    BY <1>1, <1>3, <1>5 DEF Current, InFlight, Pages, PageCount
  <1>7. Followed'
    BY <1>1, <1>2, <1>5 DEF ListsInv, Followed, Skip
  <1> QED
    BY <1>4, <1>6, <1>7 DEF ListsInv

\* Pages that nobody clears are mixed up with the write.
LEMMA WriterDiesStep == ListsInv /\ WriterDies => ListsInv'
  <1> SUFFICES ASSUME ListsInv, WriterDies PROVE ListsInv'
    OBVIOUS
  <1>1. /\ mixed' = TRUE
        /\ UNCHANGED <<service, ctx, table, pages, client, changes, kept, slipped>>
    BY DEF WriterDies
  <1>2. Shown(table)' = Shown(table)
    BY <1>1, SameQuery
  <1>3. TableShape' /\ PagesShape' /\ ClientShape'
    BY <1>1, TableKept DEF ListsInv, PagesShape, ClientShape, Pages, PageCount, Totals, Stages
  <1>4. Current'
    BY <1>1 DEF Current
  <1>5. Followed'
    BY <1>1, <1>2 DEF ListsInv, Followed
  <1> QED
    BY <1>3, <1>4, <1>5 DEF ListsInv

\* Every write is of a row, or changes one.
LEMMA RowWritten ==
  ASSUME ListsInv,
         \/ \E org \in Tenants, fits \in SUBSET Conditions : CreateRow([org |-> org, fits |-> fits])
         \/ \E n \in DOMAIN table, fits \in SUBSET Conditions : UpdateRow(n, fits)
         \/ \E n \in DOMAIN table : RemoveRow(n)
  PROVE  \E t \in Seq(Rows) : Len(t) <= Len(table) + 1 /\ Write(t)
  <1>1. table \in Seq(Rows) /\ Len(table) \in Nat /\ DOMAIN table = 1 .. Len(table)
    BY DEF ListsInv, TableShape
  <1>2. ASSUME NEW n \in DOMAIN table, NEW fits \in SUBSET Conditions
        PROVE  LET t == [table EXCEPT ![n].fits = fits] IN t \in Seq(Rows) /\ Len(t) = Len(table)
    <2>1. table[n] \in Rows
      BY <1>1
    <2>2. [table[n] EXCEPT !.fits = fits] \in Rows
      BY <2>1 DEF Rows
    <2>3. PICK t, r : r = [table[n] EXCEPT !.fits = fits] /\ t = [table EXCEPT ![n] = r]
      OBVIOUS
    <2>4. t \in Seq(Rows) /\ Len(t) = Len(table)
      BY <1>1, <2>2, <2>3
    <2> QED
      BY <2>3, <2>4
  <1>3. ASSUME NEW org \in Tenants, NEW fits \in SUBSET Conditions,
               CreateRow([org |-> org, fits |-> fits])
        PROVE  \E t \in Seq(Rows) : Len(t) <= Len(table) + 1 /\ Write(t)
    <2>1. PICK r : r = [org |-> org, fits |-> fits]
      OBVIOUS
    <2>2. r \in Rows
      BY <2>1 DEF Rows
    <2>3. Append(table, r) \in Seq(Rows) /\ Len(Append(table, r)) = Len(table) + 1
      BY <1>1, <2>2
    <2>4. PICK t : t = Append(table, r)
      OBVIOUS
    <2>5. Write(t)
      BY <1>3, <2>1, <2>4 DEF CreateRow
    <2> QED
      <3>1. t \in Seq(Rows) /\ Len(t) <= Len(table) + 1
        BY <1>1, <2>3, <2>4
      <3> QED
        BY <2>5, <3>1
  <1>4. ASSUME NEW n \in DOMAIN table, NEW fits \in SUBSET Conditions, UpdateRow(n, fits)
        PROVE  \E t \in Seq(Rows) : Len(t) <= Len(table) + 1 /\ Write(t)
    <2>1. PICK t : t = [table EXCEPT ![n].fits = fits]
      OBVIOUS
    <2>2. t \in Seq(Rows) /\ Len(t) = Len(table)
      BY <1>2, <2>1
    <2>3. Write(t)
      BY <1>4, <2>1 DEF UpdateRow
    <2> QED
      BY <1>1, <2>2, <2>3
  <1>5. ASSUME NEW n \in DOMAIN table, RemoveRow(n)
        PROVE  \E t \in Seq(Rows) : Len(t) <= Len(table) + 1 /\ Write(t)
    <2>1. PICK fits : fits = table[n].fits \ {Existing}
      OBVIOUS
    <2>2. table[n] \in Rows
      BY <1>1
    <2>3. fits \in SUBSET Conditions
      BY <2>1, <2>2 DEF Rows
    <2>4. PICK t : t = [table EXCEPT ![n].fits = fits]
      OBVIOUS
    <2>5. t \in Seq(Rows) /\ Len(t) = Len(table)
      BY <1>2, <2>3, <2>4
    <2>6. Write([table EXCEPT ![n].fits = @ \ {Existing}])
      BY <1>5 DEF RemoveRow
    <2>7. Write(t)
      BY <2>1, <2>4, <2>6
    <2> QED
      BY <1>1, <2>5, <2>7
  <1> QED
    BY <1>3, <1>4, <1>5

\* One step of the lists keeps the invariant, and so does every behaviour.
LEMMA ListsStep == ListsInv /\ [NextLists]_listVars => ListsInv'
  <1> SUFFICES ASSUME ListsInv, [NextLists]_listVars PROVE ListsInv'
    OBVIOUS
  <1>1. CASE UNCHANGED listVars
    <2>1. UNCHANGED <<service, ctx, table, pages, client, writer, changes, kept, slipped, mixed>>
      BY <1>1 DEF listVars
    <2>2. Listing(table)' = Listing(table) /\ Shown(table)' = Shown(table)
          /\ \A x : Ahead(table, x)' = Ahead(table, x)
      BY <2>1, SameQuery
    <2>3. TableShape' /\ PagesShape' /\ ClientShape'
      BY <2>1, TableKept DEF ListsInv, PagesShape, ClientShape, Pages, PageCount, Totals, Stages
    <2>4. Current'
      BY <2>1, <2>2 DEF ListsInv, Current, InFlight, Pages, PageCount, PageOf, Skip
    <2>5. Followed'
      BY <2>1, <2>2 DEF ListsInv, Followed, Skip
    <2> QED
      BY <2>3, <2>4, <2>5 DEF ListsInv
  <1>2. CASE \/ \E org \in Tenants, fits \in SUBSET Conditions : CreateRow([org |-> org, fits |-> fits])
             \/ \E n \in DOMAIN table, fits \in SUBSET Conditions : UpdateRow(n, fits)
             \/ \E n \in DOMAIN table : RemoveRow(n)
    BY <1>2, RowWritten, TableStep
  <1>3. CASE Walk \/ Ask \/ FindItems \/ CountItems \/ FillPage \/ Leave \/ ClearLists \/ WriterDies
    BY <1>3, WalkStep, AskStep, FindItemsStep, CountItemsStep, FillPageStep, LeaveStep,
       ClearListsStep, WriterDiesStep
  <1> QED
    BY <1>1, <1>2, <1>3 DEF NextLists

LEMMA ListsAlways == SpecLists => []ListsInv
  BY ListsInit, ListsStep, PTL DEF SpecLists

\* For every page size, any number of rows and writes, and every service: who reads
\* a list from its first page to its last misses none of the rows that have been in
\* it all the time.
THEOREM WalksMissNothing == SpecLists => []NothingMissed
  <1>1. ListsInv => NothingMissed
    BY DEF ListsInv, Followed, NothingMissed
  <1> QED
    BY <1>1, ListsAlways, PTL

-----------------------------------------------------------------------------
\* The names of the filters, and those of the other conditions.
Words == {"search", "isActive", "departmentId", "roleId", "teamId", "subscriptionType",
          "isSubscriptionTaken", "status", "memberId", "projectId", "priority",
          "ownerId", "featureId", "assignedToId", "taskId", "subTaskId", "type",
          "severity", "targetType", "targetId", "createdById", "issueId", "userId",
          "fromDate", "toDate", "organization", "notDeleted", "notSuperAdmin"}

\* No filter has the name of the condition on the organization.
LEMMA FilterNames ==
  ASSUME NEW s \in DOMAIN Filters
  PROVE  Filters[s] \in Seq(Words) /\ \A n \in 1 .. Len(Filters[s]) : Filters[s][n] # "organization"
  <1> DEFINE Fine(f) == f \in Seq(Words) /\ \A n \in 1 .. Len(f) : f[n] # "organization"
  <1>1. Fine(DepartmentFilters)
    <2>1. DepartmentFilters \in Seq(Words) /\ Len(DepartmentFilters) = 2
      BY DEF DepartmentFilters, Words
    <2>2. \A n \in 1 .. 2 : DepartmentFilters[n] # "organization"
      BY DEF DepartmentFilters
    <2> QED
      BY <2>1, <2>2
  <1>2. Fine(TeamFilters)
    <2>1. TeamFilters \in Seq(Words) /\ Len(TeamFilters) = 3
      BY DEF TeamFilters, Words
    <2>2. \A n \in 1 .. 3 : TeamFilters[n] # "organization"
      BY DEF TeamFilters
    <2> QED
      BY <2>1, <2>2
  <1>3. Fine(UserFilters)
    <2>1. UserFilters \in Seq(Words) /\ Len(UserFilters) = 5
      BY DEF UserFilters, Words
    <2>2. \A n \in 1 .. 5 : UserFilters[n] # "organization"
      BY DEF UserFilters
    <2> QED
      BY <2>1, <2>2
  <1>4. Fine(OrganizationFilters)
    <2>1. OrganizationFilters \in Seq(Words) /\ Len(OrganizationFilters) = 4
      BY DEF OrganizationFilters, Words
    <2>2. \A n \in 1 .. 4 : OrganizationFilters[n] # "organization"
      BY DEF OrganizationFilters
    <2> QED
      BY <2>1, <2>2
  <1>5. Fine(ProjectFilters)
    <2>1. ProjectFilters \in Seq(Words) /\ Len(ProjectFilters) = 6
      BY DEF ProjectFilters, Words
    <2>2. \A n \in 1 .. 6 : ProjectFilters[n] # "organization"
      BY DEF ProjectFilters
    <2> QED
      BY <2>1, <2>2
  <1>6. Fine(FeatureFilters)
    <2>1. FeatureFilters \in Seq(Words) /\ Len(FeatureFilters) = 6
      BY DEF FeatureFilters, Words
    <2>2. \A n \in 1 .. 6 : FeatureFilters[n] # "organization"
      BY DEF FeatureFilters
    <2> QED
      BY <2>1, <2>2
  <1>7. Fine(TaskFilters)
    <2>1. TaskFilters \in Seq(Words) /\ Len(TaskFilters) = 7
      BY DEF TaskFilters, Words
    <2>2. \A n \in 1 .. 7 : TaskFilters[n] # "organization"
      BY DEF TaskFilters
    <2> QED
      BY <2>1, <2>2
  <1>8. Fine(SubTaskFilters)
    <2>1. SubTaskFilters \in Seq(Words) /\ Len(SubTaskFilters) = 8
      BY DEF SubTaskFilters, Words
    <2>2. \A n \in 1 .. 8 : SubTaskFilters[n] # "organization"
      BY DEF SubTaskFilters
    <2> QED
      BY <2>1, <2>2
  <1>9. Fine(IssueFilters)
    <2>1. IssueFilters \in Seq(Words) /\ Len(IssueFilters) = 11
      BY DEF IssueFilters, Words
    <2>2. \A n \in 1 .. 11 : IssueFilters[n] # "organization"
      BY DEF IssueFilters
    <2> QED
      BY <2>1, <2>2
  <1>10. Fine(CommentFilters)
    <2>1. CommentFilters \in Seq(Words) /\ Len(CommentFilters) = 4
      BY DEF CommentFilters, Words
    <2>2. \A n \in 1 .. 4 : CommentFilters[n] # "organization"
      BY DEF CommentFilters
    <2> QED
      BY <2>1, <2>2
  <1>11. Fine(WorkLogFilters)
    <2>1. WorkLogFilters \in Seq(Words) /\ Len(WorkLogFilters) = 10
      BY DEF WorkLogFilters, Words
    <2>2. \A n \in 1 .. 10 : WorkLogFilters[n] # "organization"
      BY DEF WorkLogFilters
    <2> QED
      BY <2>1, <2>2
  <1> HIDE DEF Fine
  <1>12. Fine(Filters[s])
    BY <1>1, <1>2, <1>3, <1>4, <1>5, <1>6, <1>7, <1>8, <1>9, <1>10, <1>11 DEF Filters
  <1> QED
    BY <1>12 DEF Fine

\* What the query is made of.
LEMMA ChainIs ==
  ASSUME service \in Services
  PROVE  /\ "organization" \notin Terms
         /\ \A r : FitsAll(r, Chain) <=>
               /\ \A term \in ToSet(Base) : Fits(r, term)
               /\ ctx # All => Fits(r, "organization")
               /\ \A term \in Terms : Fits(r, term)
  <1>1. PICK f : f = Filters[service]
    OBVIOUS
  <1>2. f \in Seq(Words) /\ \A n \in 1 .. Len(f) : f[n] # "organization"
    BY <1>1, FilterNames, ListsAssumption
  <1>3. Terms = ToSet(f) \cap Asked /\ DOMAIN f = 1 .. Len(f)
    BY <1>1, <1>2 DEF Terms
  <1>4. "organization" \notin Terms
    BY <1>2, <1>3 DEF ToSet
  <1>5. PICK c : c = Among(f, Asked)
    OBVIOUS
  <1>6. Took(c, f, Asked, Len(f))
    <2>1. PICK g : /\ c = g[Len(f)]
                   /\ \A n \in 0 .. Len(f) : Took(g[n], f, Asked, n)
      BY <1>2, <1>5, AmongTakes
    <2>2. Len(f) \in 0 .. Len(f)
      BY <1>2
    <2> QED
      BY <2>1, <2>2
  <1>7. /\ c \in Seq(Words)
        /\ \A n \in 1 .. Len(c) : c[n] \in Terms
        /\ \A term \in Terms : \E n \in 1 .. Len(c) : c[n] = term
    <2>1. c \in Seq(Asked) /\ \A n \in 1 .. Len(c) : \E m \in 1 .. Len(f) : c[n] = f[m]
      BY <1>6 DEF Took
    <2>2. \A m \in 1 .. Len(f) : f[m] \in Asked => \E n \in 1 .. Len(c) : c[n] = f[m]
      BY <1>6 DEF Took
    <2>3. \A n \in 1 .. Len(c) : c[n] \in Asked /\ c[n] \in Words
      BY <1>2, <2>1
    <2>4. c \in Seq(Words)
      BY <2>1, <2>3
    <2>5. \A n \in 1 .. Len(c) : c[n] \in Terms
      BY <1>3, <2>1, <2>3 DEF ToSet
    <2>6. \A term \in Terms : \E n \in 1 .. Len(c) : c[n] = term
      BY <1>3, <2>2 DEF ToSet
    <2> QED
      BY <2>4, <2>5, <2>6
  <1>8. PICK b, o : b = Base /\ o = IF ctx = All THEN <<>> ELSE <<"organization">>
    OBVIOUS
  <1>9. /\ b \in Seq(Words) /\ o \in Seq(Words)
        /\ Len(o) = IF ctx = All THEN 0 ELSE 1
        /\ ctx # All => o[1] = "organization"
    <2>1. b \in Seq(Words)
      <3>1. b = <<"isActive", "notSuperAdmin">> \/ b = <<"notDeleted">>
        BY <1>8 DEF Base
      <3>2. "isActive" \in Words /\ "notSuperAdmin" \in Words /\ "notDeleted" \in Words
        BY DEF Words
      <3>3. CASE b = <<"isActive", "notSuperAdmin">>
        BY <3>2, <3>3
      <3>4. CASE b = <<"notDeleted">>
        BY <3>2, <3>4
      <3> QED
        BY <3>1, <3>3, <3>4
    <2>2. CASE ctx = All
      BY <1>8, <2>1, <2>2
    <2>3. CASE ctx # All
      BY <1>8, <2>1, <2>3 DEF Words
    <2> QED
      BY <2>2, <2>3
  <1>10. Chain = (b \o o) \o c
    BY <1>1, <1>5, <1>8 DEF Chain
  <1>11. ASSUME NEW r
         PROVE  FitsAll(r, Chain) <=>
                  /\ \A term \in ToSet(Base) : Fits(r, term)
                  /\ ctx # All => Fits(r, "organization")
                  /\ \A term \in Terms : Fits(r, term)
    <2>1. PICK bo : bo = b \o o
      OBVIOUS
    <2>2. /\ bo \in Seq(Words) /\ Len(bo) = Len(b) + Len(o) /\ Len(b) \in Nat /\ Len(o) \in Nat
          /\ \A n \in 1 .. Len(bo) : bo[n] = IF n <= Len(b) THEN b[n] ELSE o[n - Len(b)]
      BY <1>9, <2>1
    <2>3. PICK all : all = bo \o c
      OBVIOUS
    <2>c. c \in Seq(Words) /\ bo \in Seq(Words)
      BY <1>7, <2>2
    <2>4. /\ all \in Seq(Words) /\ Len(all) = Len(bo) + Len(c) /\ Len(bo) \in Nat /\ Len(c) \in Nat
          /\ \A n \in 1 .. Len(all) : all[n] = IF n <= Len(bo) THEN bo[n] ELSE c[n - Len(bo)]
      BY <2>c, <2>3
    <2>5. FitsAll(r, Chain) <=> \A n \in 1 .. Len(all) : Fits(r, all[n])
      <3>1. Chain = all /\ DOMAIN all = 1 .. Len(all)
        BY <1>10, <2>1, <2>3, <2>4
      <3> QED
        BY <3>1 DEF FitsAll
    <2>6. (\A n \in 1 .. Len(all) : Fits(r, all[n])) <=>
            /\ \A n \in 1 .. Len(bo) : Fits(r, bo[n])
            /\ \A n \in 1 .. Len(c) : Fits(r, c[n])
      <3>1. \A n \in 1 .. Len(bo) : n \in 1 .. Len(all) /\ all[n] = bo[n]
        BY <2>4
      <3>2. \A n \in 1 .. Len(c) : n + Len(bo) \in 1 .. Len(all) /\ all[n + Len(bo)] = c[n]
        BY <2>4
      <3>3. \A n \in 1 .. Len(all) :
               \/ n \in 1 .. Len(bo) /\ all[n] = bo[n]
               \/ n - Len(bo) \in 1 .. Len(c) /\ all[n] = c[n - Len(bo)]
        BY <2>4
      <3> QED
        BY <3>1, <3>2, <3>3
    <2>7. (\A n \in 1 .. Len(bo) : Fits(r, bo[n])) <=>
            /\ \A n \in 1 .. Len(b) : Fits(r, b[n])
            /\ ctx # All => Fits(r, "organization")
      <3>1. \A n \in 1 .. Len(b) : n \in 1 .. Len(bo) /\ bo[n] = b[n]
        BY <2>2
      <3>2. ctx # All => Len(b) + 1 \in 1 .. Len(bo) /\ bo[Len(b) + 1] = "organization"
        BY <1>9, <2>2
      <3>3. \A n \in 1 .. Len(bo) :
               \/ n \in 1 .. Len(b) /\ bo[n] = b[n]
               \/ ctx # All /\ bo[n] = "organization"
        BY <1>9, <2>2
      <3> QED
        BY <3>1, <3>2, <3>3
    <2>8. (\A n \in 1 .. Len(b) : Fits(r, b[n])) <=> \A term \in ToSet(Base) : Fits(r, term)
      BY <1>8, <1>9 DEF ToSet
    <2>9. (\A n \in 1 .. Len(c) : Fits(r, c[n])) <=> \A term \in Terms : Fits(r, term)
      BY <1>7
    <2> QED
      BY <2>5, <2>6, <2>7, <2>8, <2>9
  <1> QED
    BY <1>4, <1>11

\* Where no bare OR spoils it, the query selects what was asked for.
LEMMA SelectedIsWanted ==
  ASSUME service \in Services, service = "departments" => "search" \notin Terms, NEW r
  PROVE  Selected(r) <=> Wanted(r)
  <1>1. Selected(r) <=> FitsAll(r, Chain)
    BY DEF Selected, Parenthesized
  <1>2. ToSet(Base) = IF service = "users" THEN {"isActive", "notSuperAdmin"} ELSE {"notDeleted"}
    BY DEF Base, ToSet
  <1>3. \A term \in ToSet(Base) : Fits(r, term) <=> term \in r.fits
    BY <1>2 DEF Fits
  <1>4. \A term \in Terms \ {"search"} : Fits(r, term) <=> term \in r.fits
    BY ChainIs DEF Fits
  <1>5. /\ Fits(r, "organization") <=> r.org = ctx
        /\ Fits(r, "search") <=> "name" \in r.fits \/ "text" \in r.fits
    BY DEF Fits
  <1> QED
    BY <1>1, <1>3, <1>4, <1>5, ChainIs DEF Wanted

\* For every page size, any number of rows and writes, every service and every
\* query but a search for departments: until a list and a write overlap, each
\* cached page holds the rows that were asked for in their places, and the total.
THEOREM PagesFitTheQuery == SpecLists => []ListsFitTheQuery
  <1>1. ASSUME ListsInv, ~mixed, writer = "idle", service = "departments" => "search" \notin Terms,
               NEW p \in Pages, pages[p] # Absent
        PROVE  LET wanted == {n \in DOMAIN table : Wanted(table[n])}
                   newer(n) == Cardinality({k \in wanted : k > n})
               IN  /\ pages[p].total = Cardinality(wanted)
                   /\ ToSet(pages[p].items) = {n \in wanted : newer(n) \div Limit = p - 1}
    <2>1. PICK t : t = table
      OBVIOUS
    <2>2. t \in Seq(Rows) /\ DOMAIN t = 1 .. Len(t) /\ service \in Services /\ p \in Nat \ {0}
      <3>1. PageCount \in Nat
        <4>1. 0 \in 0 .. MaxChanges
          BY ListsAssumption
        <4> QED
          BY <4>1, EnoughPages
      <3> QED
        <4>1. p \in Nat \ {0}
          BY <3>1 DEF Pages
        <4>2. table \in Seq(Rows) /\ service \in Services
          BY <1>1 DEF ListsInv, TableShape
        <4> QED
          BY <2>1, <4>1, <4>2
    <2>3. PICK wanted : wanted = {n \in DOMAIN table : Wanted(table[n])}
      OBVIOUS
    <2>4. wanted = Shown(t)
      BY <1>1, <2>1, <2>2, <2>3, SelectedIsWanted DEF Shown
    <2>5. pages[p].items = PageOf(Listing(t), p) /\ pages[p].total = Len(Listing(t))
      BY <1>1, <2>1 DEF ListsInv, Current
    <2>6. pages[p].total = Cardinality(wanted)
      BY <2>2, <2>4, <2>5, Places
    <2>7. ASSUME NEW n \in wanted
          PROVE  Cardinality({k \in wanted : k > n}) \div Limit = p - 1
                   <=> /\ Skip(p) <= Cardinality(Ahead(t, n))
                       /\ Cardinality(Ahead(t, n)) < Skip(p) + Limit
      <3>1. {k \in wanted : k > n} = Ahead(t, n)
        BY <2>4 DEF Ahead
      <3>2. Cardinality(Ahead(t, n)) \in Nat
        <4>1. Len(Listing(t)) \in Nat /\ Cardinality(Ahead(t, n)) \in 0 .. Len(Listing(t)) - 1
          BY <2>2, <2>4, HasPlace, Places
        <4> QED
          BY <4>1
      <3> QED
        BY <2>2, <3>1, <3>2, OnPage
    <2>8. ToSet(PageOf(Listing(t), p))
            = {x \in Shown(t) : /\ Skip(p) <= Cardinality(Ahead(t, x))
                                /\ Cardinality(Ahead(t, x)) < Skip(p) + Limit}
      BY <2>2, PageRows
    <2> QED
      BY <2>3, <2>4, <2>5, <2>6, <2>7, <2>8
  <1>2. ListsInv => ListsFitTheQuery
    BY <1>1 DEF ListsFitTheQuery
  <1> QED
    BY <1>2, ListsAlways, PTL
=============================================================================
