------------------------------ MODULE Session ------------------------------
(***************************************************************************)
(* Sessions after the password is accepted: the end of AuthService         *)
(* .verifyOTP, refreshTokens, switchOrganization and logout, with the two  *)
(* operations of UsersService that rewrite the same row, update and        *)
(* remove.  Requests overlap; at[r] names the await that the handler of    *)
(* request r stands at, and local[r] is what it has read.                  *)
(*                                                                         *)
(* repository.save(entity) compares the loaded entity with the row and     *)
(* writes every loaded column that differs: modelled as one step that      *)
(* makes those columns equal to the entity's.  Token expiry is left out:   *)
(* a token that is held may be presented at any time.                      *)
(***************************************************************************)
EXTENDS Integers, FiniteSets

CONSTANTS
    Handlers, Users, Orgs, Roles,
    SuperAdmin,            \* UserRole.SUPER_ADMIN
    HomeOrg, HomeRole,     \* the row of each user before the first step
    MaxTokens,             \* bound: token pairs signed
    MaxDeaths              \* bound: handlers that die between two awaits

ASSUME SessionAssumption ==
    /\ Users # {} /\ Orgs # {}
    /\ SuperAdmin \in Roles
    /\ HomeOrg \in [Users -> Orgs]
    /\ HomeRole \in [Users -> Roles]
    /\ MaxTokens \in Nat
    /\ MaxDeaths \in Nat

VARIABLES
    account,         \* the users table; session: hashed_refresh_token IS NOT NULL
    held,        \* the token pairs that clients have received
    at, local,
    deaths,
    \* History
    signed,      \* signed[u]: serial of the token pair stored last, 0 for none
    signedIn,    \* signedIn[u]: u has logged in or switched since the last logout
    granted,     \* granted[u]: every role and organization that u's row has had
    overlapped   \* two requests have been in progress at the same time

sessionVars == <<account, held, at, local, deaths, signed, signedIn, granted, overlapped>>

Row == [active : BOOLEAN, locked : BOOLEAN, role : Roles, org : Orgs, session : BOOLEAN]
Claims == [role : Roles, org : Orgs]

\* An access and a refresh token share their payload.  The serial stands for
\* the iat and exp claims, which make every signed pair different.
Token == [user : Users, role : Roles, org : Orgs, serial : 1 .. MaxTokens]

\* entity: the loaded user that will be saved, if any; role and org: the payload, or the values, to write;
\* presented: the serial of the refreshed token, 0 for none;
\* asks: the DTO of an update carries isActive.
Local == [user : Users, entity : Row, role : Roles, org : Orgs,
          presented : 0 .. MaxTokens, asks : BOOLEAN]

Awaits == {"idle", "resetUser", "storeLogin", "storeRefresh", "saveSwitch", "storeSwitch",
           "saveUpdate", "saveUpdateRole", "saveRemove"}

StateOK ==
    /\ account \in [Users -> Row]
    /\ held \subseteq Token
    /\ at \in [Handlers -> Awaits]
    /\ local \in [Handlers -> Local]
    /\ deaths \in 0 .. MaxDeaths
    /\ signed \in [Users -> 0 .. MaxTokens]
    /\ signedIn \in [Users -> BOOLEAN]
    /\ granted \in [Users -> SUBSET Claims]

SessionsOK == StateOK /\ overlapped \in BOOLEAN

ClaimsOf(x) == [role |-> x.role, org |-> x.org]

InitialRow(u) == [active |-> TRUE, locked |-> FALSE, role |-> HomeRole[u],
                  org |-> HomeOrg[u], session |-> FALSE]

NoLocal == CHOOSE l \in Local : TRUE

InitSessions ==
    /\ account = [u \in Users |-> InitialRow(u)]
    /\ held = {}
    /\ at = [r \in Handlers |-> "idle"]
    /\ local = [r \in Handlers |-> NoLocal]
    /\ deaths = 0
    /\ signed = [u \in Users |-> 0]
    /\ signedIn = [u \in Users |-> FALSE]
    /\ granted = [u \in Users |-> {ClaimsOf(InitialRow(u))}]
    /\ overlapped = FALSE

\* Another request is in progress.
Overlaps(r) == \E q \in Handlers \ {r} : at[q] # "idle"
Proceed(r, label) ==
    /\ at' = [at EXCEPT ![r] = label]
    /\ overlapped' = (overlapped \/ (label # "idle" /\ Overlaps(r)))
Remember(r, l) == local' = [local EXCEPT ![r] = l]
Return(r) == Proceed(r, "idle") /\ Remember(r, NoLocal)

\* A write of u's row.
SetRow(u, new) ==
    /\ account' = [account EXCEPT ![u] = new]
    /\ granted' = [granted EXCEPT ![u] = @ \cup {ClaimsOf(new)}]

\* bcrypt reads 72 bytes.  A refresh token begins with the JWT header (37
\* characters) and the payload with its sub claim, so these bytes hold nothing
\* but the user: all refresh tokens of one user have the same digest.
Digest(t) == t.user

\* bcrypt.compare(refreshToken, user.hashedRefreshToken): the stored digest is
\* that of some refresh token of the row's user.
Compare(t, u) == Digest(t) = u

\* JwtAccessStrategy.validate, and the guards on its result.
Validated(t) == account[t.user].active /\ ~account[t.user].locked

\* generateTokens or jwt.sign, then the UPDATE of hashed_refresh_token; the
\* client receives the pair when the UPDATE returns.
SignAndStore(r) ==
    LET u == local[r].user
        serial == Cardinality(held) + 1
    IN  /\ serial <= MaxTokens
        /\ SetRow(u, [account[u] EXCEPT !.session = TRUE])
        /\ held' = held \cup {[user |-> u, role |-> local[r].role,
                               org |-> local[r].org, serial |-> serial]}
        /\ signed' = [signed EXCEPT ![u] = serial]
        /\ Return(r)
        /\ UNCHANGED deaths

-----------------------------------------------------------------------------
(* verifyOTP, from the accepted password on.  The user and its role and    *)
(* organization were read at its start.                                    *)

BeginLogin(r, u) ==
    /\ at[r] = "idle"
    /\ account[u].active /\ ~account[u].locked
    /\ Remember(r, [user |-> u, entity |-> InitialRow(u), role |-> account[u].role,
                    org |-> account[u].org, presented |-> 0, asks |-> FALSE])
    /\ Proceed(r, "resetUser")
    /\ UNCHANGED <<account, held, deaths, signed, signedIn, granted>>

ClearLock(r) ==
    /\ at[r] = "resetUser"
    /\ LET u == local[r].user IN SetRow(u, [account[u] EXCEPT !.locked = FALSE])
    /\ Proceed(r, "storeLogin")
    /\ UNCHANGED <<held, local, deaths, signed, signedIn>>

StoreLogin(r) ==
    /\ at[r] = "storeLogin"
    /\ SignAndStore(r)
    /\ signedIn' = [signedIn EXCEPT ![local[r].user] = TRUE]

-----------------------------------------------------------------------------
(* refreshTokens                                                           *)

\* Any held token whose user is active and has a stored digest that matches.
BeginRefresh(r, t) ==
    /\ at[r] = "idle"
    /\ account[t.user].active /\ account[t.user].session
    /\ Compare(t, t.user)
    /\ Remember(r, [user |-> t.user, entity |-> InitialRow(t.user), role |-> t.role,
                    org |-> t.org, presented |-> t.serial, asks |-> FALSE])
    /\ Proceed(r, "storeRefresh")
    /\ UNCHANGED <<account, held, deaths, signed, signedIn, granted>>

\* The payload of the presented token is signed again; the UPDATE is not
\* conditional on the digest that was compared.
StoreRefresh(r) ==
    /\ at[r] = "storeRefresh"
    /\ SignAndStore(r)
    /\ UNCHANGED signedIn

-----------------------------------------------------------------------------
(* switchOrganization and logout                                           *)

SwitchByAnyone(t) == TRUE
SwitchAllowed(t) == t.role = SuperAdmin /\ account[t.user].role = SuperAdmin

BeginSwitch(r, t, org) ==
    /\ at[r] = "idle"
    /\ Validated(t) /\ SwitchAllowed(t)
    /\ Remember(r, [user |-> t.user, entity |-> [account[t.user] EXCEPT !.org = org],
                    role |-> account[t.user].role, org |-> org, presented |-> 0, asks |-> FALSE])
    /\ Proceed(r, "saveSwitch")
    /\ UNCHANGED <<account, held, deaths, signed, signedIn, granted>>

SaveSwitchWithoutOrg(r) ==
    /\ at[r] = "saveSwitch"
    /\ LET u == local[r].user
       IN  SetRow(u, [local[r].entity EXCEPT !.session = account[u].session, !.org = account[u].org])
    /\ Proceed(r, "storeSwitch")
    /\ UNCHANGED <<held, local, deaths, signed, signedIn>>

\* save(user): every loaded column; the digest is not selected, so not written.
SaveSwitch(r) ==
    /\ at[r] = "saveSwitch"
    /\ LET u == local[r].user
       IN  SetRow(u, [local[r].entity EXCEPT !.session = account[u].session])
    /\ Proceed(r, "storeSwitch")
    /\ UNCHANGED <<held, local, deaths, signed, signedIn>>

StoreSwitch(r) ==
    /\ at[r] = "storeSwitch"
    /\ SignAndStore(r)
    /\ signedIn' = [signedIn EXCEPT ![local[r].user] = TRUE]

LogoutForgetsUpdate(r, t) ==
    /\ at[r] = "idle" /\ Validated(t)
    /\ signedIn' = [signedIn EXCEPT ![t.user] = FALSE]
    /\ overlapped' = (overlapped \/ Overlaps(r))
    /\ UNCHANGED <<account, held, at, local, deaths, signed, granted>>

\* One UPDATE, whatever other handlers are in flight.
Logout(r, t) ==
    /\ at[r] = "idle" /\ Validated(t)
    /\ SetRow(t.user, [account[t.user] EXCEPT !.session = FALSE])
    /\ signedIn' = [signedIn EXCEPT ![t.user] = FALSE]
    /\ overlapped' = (overlapped \/ Overlaps(r))
    /\ UNCHANGED <<held, at, local, deaths, signed>>

-----------------------------------------------------------------------------
(* UsersService: an administrator changes the user.                        *)

UpdateDefaultsToActive(u, asks, active) == IF asks THEN active ELSE TRUE
UpdatedActive(u, asks, active) == IF asks THEN active ELSE account[u].active

\* update loads the columns and the organization, and the role only to replace it.
BeginUpdate(r, u) ==
    /\ at[r] = "idle"
    /\ \E asks, active \in BOOLEAN, role \in Roles, label \in {"saveUpdate", "saveUpdateRole"} :
          /\ label = "saveUpdate" => role = account[u].role
          /\ Remember(r, [user |-> u,
                          entity |-> [account[u] EXCEPT !.active = UpdatedActive(u, asks, active)],
                          role |-> role, org |-> account[u].org, presented |-> 0, asks |-> asks])
          /\ Proceed(r, label)
    /\ UNCHANGED <<account, held, deaths, signed, signedIn, granted>>

SaveUpdate(r) ==
    /\ at[r] \in {"saveUpdate", "saveUpdateRole"}
    /\ LET u == local[r].user
           role == IF at[r] = "saveUpdateRole" THEN local[r].role ELSE account[u].role
       IN  SetRow(u, [local[r].entity EXCEPT !.role = role, !.session = account[u].session])
    /\ Return(r)
    /\ UNCHANGED <<held, deaths, signed, signedIn>>

BeginRemove(r, u) ==
    /\ at[r] = "idle"
    /\ Remember(r, [user |-> u, entity |-> [account[u] EXCEPT !.active = FALSE],
                    role |-> account[u].role, org |-> account[u].org, presented |-> 0, asks |-> FALSE])
    /\ Proceed(r, "saveRemove")
    /\ UNCHANGED <<account, held, deaths, signed, signedIn, granted>>

\* remove loads the columns without relations: role and organization stay.
SaveRemove(r) ==
    /\ at[r] = "saveRemove"
    /\ LET u == local[r].user
           e == local[r].entity
       IN  SetRow(u, [account[u] EXCEPT !.active = e.active, !.locked = e.locked])
    /\ Return(r)
    /\ UNCHANGED <<held, deaths, signed, signedIn>>

-----------------------------------------------------------------------------
\* OtpLogin locks the account, and time unlocks it.
SetLocked(u) ==
    /\ SetRow(u, [account[u] EXCEPT !.locked = ~@])
    /\ UNCHANGED <<held, at, local, deaths, signed, signedIn, overlapped>>

\* The process dies, or the awaited statement throws.
HandlerDies(r) ==
    /\ at[r] # "idle" /\ deaths < MaxDeaths
    /\ deaths' = deaths + 1
    /\ Return(r)
    /\ UNCHANGED <<account, held, signed, signedIn, granted>>

NextSession ==
    \/ \E u \in Users : SetLocked(u)
    \/ \E r \in Handlers :
          \/ ClearLock(r) \/ StoreLogin(r)
          \/ StoreRefresh(r)
          \/ SaveSwitch(r) \/ StoreSwitch(r)
          \/ SaveUpdate(r) \/ SaveRemove(r)
          \/ HandlerDies(r)
          \/ \E u \in Users : BeginLogin(r, u) \/ BeginUpdate(r, u) \/ BeginRemove(r, u)
          \/ \E t \in held :
                \/ BeginRefresh(r, t) \/ Logout(r, t)
                \/ \E org \in Orgs : BeginSwitch(r, t, org)

SpecSessions == InitSessions /\ [][NextSession]_sessionVars

-----------------------------------------------------------------------------
(* Properties                                                              *)

\* No token, however handlers interleave, mixes the role of one moment with
\* the organization of another: its payload is what the row was at some time.
ClaimsWereGranted == \A t \in held : ClaimsOf(t) \in granted[t.user]

\* A user has a row or a token for an organization other than the home one only
\* after having been a SUPER_ADMIN: no race of saves moves anybody else.
ForeignOrgNeedsSuper ==
    \A u \in Users :
        (\E c \in granted[u] : c.org # HomeOrg[u])
            => \E c \in granted[u] : c.role = SuperAdmin

\* "Clears the stored refresh token hash, ending the session": as long as
\* requests have not overlapped, a session is stored only when a login or a
\* switch has followed the last logout.  (A refresh in flight outlives a logout.)
SessionFollowsSignIn ==
    overlapped \/ \A u \in Users : account[u].session => signedIn[u]

\* A deactivated user becomes active only through an update that asks for it,
\* again unless a save has begun before the deactivation.
DeactivationSticks ==
    [][~overlapped => \A u \in Users : ~account[u].active /\ account'[u].active
          => \E r \in Handlers : local[r].user = u /\ local[r].asks]_sessionVars

\* "Refresh rotation + reuse detection" (project.md:82): whoever presents a pair
\* that another has replaced is refused.
ReplacedTokensAreRefused ==
    [][\A r \in Handlers : at[r] = "idle" /\ at'[r] = "storeRefresh"
          => local'[r].presented = signed[local'[r].user]]_sessionVars
=============================================================================
