------------------------------ MODULE OtpLogin ------------------------------
(***************************************************************************)
(* The one-time-password login of one account: AuthService.requestOTP,     *)
(* resendOTP and verifyOTP (src/src/modules/auth/auth.service.ts).         *)
(*                                                                         *)
(* Every key and row these handlers touch belongs to one e-mail address,   *)
(* so one account is modelled, with several HTTP requests in flight for it.*)
(* A handler runs without interruption from one await to the next; each    *)
(* action below is one such section, and pc[r] names the await that        *)
(* request r stands at.  A handler that throws or returns without having   *)
(* changed anything is a stuttering step and has no action.                *)
(*                                                                         *)
(* Time is counted in ticks: a Redis key and a lock carry the ticks they   *)
(* have left, and 0 (or None) is an absent key or an expired lock.         *)
(***************************************************************************)
EXTENDS Integers, FiniteSets

CONSTANTS
    Requests,              \* in-flight HTTP requests for the account
    Codes,                 \* one-time passwords
    None,                  \* "no code"
    MaxVerifyAttempts,     \* MAX_OTP_VERIFY_ATTEMPTS
    OtpExpiry,             \* OTP_EXPIRY_SECONDS, in ticks
    LockDuration,          \* LOCK_DURATION_MINUTES, in ticks
    MaxAborts,             \* bound: handlers that die between two awaits
    MaxRedisFaults         \* bound: Redis reads that fail

ASSUME ConstantsAssumption ==
    /\ None \notin Codes
    /\ MaxVerifyAttempts \in Nat \ {0}
    /\ OtpExpiry \in Nat \ {0}
    /\ LockDuration \in Nat \ {0}
    /\ MaxAborts \in Nat
    /\ MaxRedisFaults \in Nat

VARIABLES
    active,         \* users.is_active
    lockLeft,       \* ticks until users.locked_until, 0 when not locked
    otpCode,        \* otp:<email>, None when the key is absent
    otpTtl,
    failures,       \* otp_attempts:<email>, 0 when the key is absent
    failuresTtl,
    pc,             \* pc[r]: the await that request r stands at
    code,           \* code[r]: the code r presented or generated
    seenFailures,   \* seenFailures[r]: the local variable attempts of r
    aborts, redisFaults,
    \* History: what happened to the password now, or last, in Redis.
    accepted,       \* guesses that matched it
    rejected        \* guesses that did not

row == <<active, lockLeft>>
redis == <<otpCode, otpTtl, failures, failuresTtl>>
locals == <<code, seenFailures>>
budget == <<aborts, redisFaults>>
history == <<accepted, rejected>>
vars == <<row, redis, pc, locals, budget, history>>

\* Where a verification stands once its guess has matched.
ConsumeLabels == {"consumeOtp", "consumeFailures", "resetUser", "issueTokens"}
VerifyLabels == {"readFailures", "readHash", "writeFailure",
                 "lockUser", "lockDelOtp", "lockDelFailures"} \cup ConsumeLabels
IssueLabels == {"readExisting", "storeRequested", "clearFailures", "resendDelOtp",
                "resendDelFailures", "storeResent", "sendEmail"}
Labels == {"idle"} \cup VerifyLabels \cup IssueLabels

\* Histories saturate: more than this many events are not told apart.
HistoryCap == MaxVerifyAttempts + 1
More(n) == IF n < HistoryCap THEN n + 1 ELSE n

TypeOK ==
    /\ active \in BOOLEAN
    /\ lockLeft \in 0 .. LockDuration
    /\ otpCode \in Codes \cup {None}
    /\ otpTtl \in 0 .. OtpExpiry
    /\ failures \in 0 .. MaxVerifyAttempts
    /\ failuresTtl \in 0 .. OtpExpiry
    /\ pc \in [Requests -> Labels]
    /\ code \in [Requests -> Codes \cup {None}]
    /\ seenFailures \in [Requests -> 0 .. MaxVerifyAttempts]
    /\ aborts \in 0 .. MaxAborts
    /\ redisFaults \in 0 .. MaxRedisFaults
    /\ accepted \in 0 .. HistoryCap
    /\ rejected \in 0 .. HistoryCap

Init ==
    /\ active = TRUE
    /\ lockLeft = 0
    /\ otpCode = None /\ otpTtl = 0
    /\ failures = 0 /\ failuresTtl = 0
    /\ pc = [r \in Requests |-> "idle"]
    /\ code = [r \in Requests |-> None]
    /\ seenFailures = [r \in Requests |-> 0]
    /\ aborts = 0 /\ redisFaults = 0
    /\ accepted = 0 /\ rejected = 0

Goto(r, label) == pc' = [pc EXCEPT ![r] = label]

\* The end of a handler: its local variables are gone.
Finish(r) ==
    /\ Goto(r, "idle")
    /\ code' = [code EXCEPT ![r] = None]
    /\ seenFailures' = [seenFailures EXCEPT ![r] = 0]

\* user.lockedUntil && user.lockedUntil > new Date()
NeverLocked == FALSE
Locked == lockLeft > 0

\* The findOne of the user and the two checks that open all three handlers.
Admitted == active /\ ~Locked

-----------------------------------------------------------------------------
(* Redis commands and the update of the user row.                          *)

SetOtp(c) == otpCode' = c /\ otpTtl' = OtpExpiry
KeepOtp == UNCHANGED <<otpCode, otpTtl>>
DelNothing == KeepOtp
DelOtp == otpCode' = None /\ otpTtl' = 0

SetFailures(n) == failures' = n /\ failuresTtl' = OtpExpiry
KeepFailures == UNCHANGED <<failures, failuresTtl>>
DelFailures == failures' = 0 /\ failuresTtl' = 0

\* safeRedisGet: the value of the key, or the absent value when Redis fails.
SafeRedisGet(value, absent, result) ==
    \/ result = value /\ UNCHANGED redisFaults
    \/ /\ redisFaults < MaxRedisFaults
       /\ redisFaults' = redisFaults + 1
       /\ result = absent

-----------------------------------------------------------------------------
(* requestOTP and resendOTP                                                *)

BeginRequest(r) ==
    /\ pc[r] = "idle" /\ Admitted
    /\ Goto(r, "readExisting")
    /\ UNCHANGED <<row, redis, locals, budget, history>>

\* An OTP that is still stored refuses the request.
ReadExisting(r) ==
    /\ pc[r] = "readExisting"
    /\ \E existing \in {otpCode, None} :
          /\ SafeRedisGet(otpCode, None, existing)
          /\ Goto(r, IF existing = None THEN "storeRequested" ELSE "idle")
    /\ UNCHANGED <<row, redis, locals, aborts, history>>

BeginResend(r) ==
    /\ pc[r] = "idle" /\ Admitted
    /\ Goto(r, "resendDelOtp")
    /\ UNCHANGED <<row, redis, locals, budget, history>>

\* Promise.all of two DELs: sent in this order, other commands may fall between.
ResendDelOtp(r) ==
    /\ pc[r] = "resendDelOtp"
    /\ DelOtp /\ KeepFailures
    /\ Goto(r, "resendDelFailures")
    /\ UNCHANGED <<row, locals, budget, history>>

ResendDelFailures(r) ==
    /\ pc[r] = "resendDelFailures"
    /\ DelFailures /\ KeepOtp
    /\ Goto(r, "storeResent")
    /\ UNCHANGED <<row, locals, budget, history>>

StoreOtp(r) ==
    /\ pc[r] \in {"storeRequested", "storeResent"}
    /\ \E c \in Codes : SetOtp(c) /\ code' = [code EXCEPT ![r] = c]
    /\ KeepFailures
    /\ Goto(r, IF pc[r] = "storeRequested" THEN "clearFailures" ELSE "sendEmail")
    /\ accepted' = 0 /\ rejected' = 0
    /\ UNCHANGED <<row, seenFailures, budget>>

ClearFailures(r) ==
    /\ pc[r] = "clearFailures"
    /\ DelFailures /\ KeepOtp
    /\ Goto(r, "sendEmail")
    /\ UNCHANGED <<row, locals, budget, history>>

\* Delivered or not, nothing is undone: a failed e-mail leaves the OTP stored.
SendEmail(r) ==
    /\ pc[r] = "sendEmail"
    /\ Finish(r)
    /\ UNCHANGED <<row, redis, budget, history>>

-----------------------------------------------------------------------------
(* verifyOTP                                                               *)

BeginVerify(r) ==
    /\ pc[r] = "idle" /\ Admitted
    /\ \E c \in Codes : code' = [code EXCEPT ![r] = c]
    /\ Goto(r, "readFailures")
    /\ UNCHANGED <<row, redis, seenFailures, budget, history>>

TooManyOffByOne(n) == n > MaxVerifyAttempts
TooMany(n) == n >= MaxVerifyAttempts

ReadFailures(r) ==
    /\ pc[r] = "readFailures"
    /\ \E n \in {failures, 0} :
          /\ SafeRedisGet(failures, 0, n)
          /\ seenFailures' = [seenFailures EXCEPT ![r] = n]
          /\ Goto(r, IF TooMany(n) THEN "lockUser" ELSE "readHash")
    /\ UNCHANGED <<row, redis, code, aborts, history>>

LockTooShort(r) ==
    /\ pc[r] = "lockUser"
    /\ lockLeft' = 1
    /\ Goto(r, "lockDelOtp")
    /\ UNCHANGED <<active, redis, locals, budget, history>>

LockAccount(r) ==
    /\ pc[r] = "lockUser"
    /\ lockLeft' = LockDuration
    /\ Goto(r, "lockDelOtp")
    /\ UNCHANGED <<active, redis, locals, budget, history>>

LockDelOtp(r) ==
    /\ pc[r] = "lockDelOtp"
    /\ DelOtp /\ KeepFailures
    /\ Goto(r, "lockDelFailures")
    /\ UNCHANGED <<row, locals, budget, history>>

LockDelFailures(r) ==
    /\ pc[r] = "lockDelFailures"
    /\ DelFailures /\ KeepOtp
    /\ Finish(r)
    /\ UNCHANGED <<row, budget, history>>

\* No stored hash refuses the guess; bcrypt.compare then tells right from wrong.
ReadHash(r) ==
    /\ pc[r] = "readHash"
    /\ \E stored \in {otpCode, None} :
          /\ SafeRedisGet(otpCode, None, stored)
          /\ \/ stored = None /\ Finish(r) /\ UNCHANGED history
             \/ /\ stored # None /\ stored = code[r]
                /\ Goto(r, "consumeOtp") /\ UNCHANGED locals
                /\ accepted' = More(accepted) /\ UNCHANGED rejected
             \/ /\ stored # None /\ stored # code[r]
                /\ Goto(r, "writeFailure") /\ UNCHANGED locals
                /\ rejected' = More(rejected) /\ UNCHANGED accepted
    /\ UNCHANGED <<row, redis, aborts>>

WriteFailure(r) ==
    /\ pc[r] = "writeFailure"
    /\ SetFailures(seenFailures[r] + 1) /\ KeepOtp
    /\ Finish(r)
    /\ UNCHANGED <<row, budget, history>>

ConsumeOtp(r) ==
    /\ pc[r] = "consumeOtp"
    /\ DelOtp /\ KeepFailures
    /\ Goto(r, "consumeFailures")
    /\ UNCHANGED <<row, locals, budget, history>>

ConsumeFailures(r) ==
    /\ pc[r] = "consumeFailures"
    /\ DelFailures /\ KeepOtp
    /\ Goto(r, "resetUser")
    /\ UNCHANGED <<row, locals, budget, history>>

\* failedLoginAttempts: 0, lockedUntil: null, whatever the row holds by now.
ResetUser(r) ==
    /\ pc[r] = "resetUser"
    /\ lockLeft' = 0
    /\ Goto(r, "issueTokens")
    /\ UNCHANGED <<active, redis, locals, budget, history>>

\* generateTokens and storeRefreshToken; the stored session is module Session.
IssueTokens(r) ==
    /\ pc[r] = "issueTokens"
    /\ Finish(r)
    /\ UNCHANGED <<row, redis, budget, history>>

-----------------------------------------------------------------------------
(* The environment: time, administrators, failures.                        *)

Dec(n) == IF n > 0 THEN n - 1 ELSE 0

\* A tick ages the lock and both keys; a key whose time is over disappears.
Tick ==
    /\ lockLeft + otpTtl + failuresTtl > 0
    /\ lockLeft' = Dec(lockLeft)
    /\ otpTtl' = Dec(otpTtl)
    /\ otpCode' = IF otpTtl <= 1 THEN None ELSE otpCode
    /\ failuresTtl' = Dec(failuresTtl)
    /\ failures' = IF failuresTtl <= 1 THEN 0 ELSE failures
    /\ UNCHANGED <<active, pc, locals, budget, history>>

\* UsersService.update and remove switch isActive.
SetActive ==
    /\ active' = ~active
    /\ UNCHANGED <<lockLeft, redis, pc, locals, budget, history>>

\* The process dies, or a Redis or SQL call outside safeRedisGet throws.
Abort(r) ==
    /\ pc[r] # "idle" /\ aborts < MaxAborts
    /\ aborts' = aborts + 1
    /\ Finish(r)
    /\ UNCHANGED <<row, redis, redisFaults, history>>

Issue(r) ==
    \/ BeginRequest(r) \/ ReadExisting(r)
    \/ BeginResend(r) \/ ResendDelOtp(r) \/ ResendDelFailures(r)
    \/ StoreOtp(r) \/ ClearFailures(r) \/ SendEmail(r)

Verify(r) ==
    \/ BeginVerify(r) \/ ReadFailures(r)
    \/ LockAccount(r) \/ LockDelOtp(r) \/ LockDelFailures(r)
    \/ ReadHash(r) \/ WriteFailure(r)
    \/ ConsumeOtp(r) \/ ConsumeFailures(r) \/ ResetUser(r) \/ IssueTokens(r)

Next ==
    \/ Tick
    \/ SetActive
    \/ \E r \in Requests : Issue(r) \/ Verify(r) \/ Abort(r)

Spec == Init /\ [][Next]_vars

\* Time passes, whatever the requests do.
FairSpec == Spec /\ WF_vars(Tick)

-----------------------------------------------------------------------------
(* Properties                                                              *)

\* A password that was accepted stays in Redis only until the accepting
\* handler's DEL: nobody else has to clean up after a login, and a password is
\* accepted twice only by handlers that overlap.  (A handler that dies before
\* its DEL leaves the accepted password behind, hence aborts = 0.)
AcceptedOtpIsConsumed ==
    aborts = 0 /\ accepted > 0 /\ otpCode # None
        => \E r \in Requests : pc[r] = "consumeOtp"

\* A lock cannot be prolonged for ever: once locked no handler starts, those in
\* flight are finitely many, so the account is unlocked again and again.
LockEnds == []<>(lockLeft = 0)

\* "One-time password": a stored password logs in at most once.  (For requests
\* that do not overlap, and unless a handler dies before its DEL.)
OneTimeUse == aborts = 0 => accepted <= 1

\* A stored password is compared with at most MaxVerifyAttempts wrong guesses:
\* the counter that the handlers read, add to and write back misses none,
\* unless one of them overlaps with another or dies before it writes.
GuessBudget == aborts = 0 => rejected <= MaxVerifyAttempts

\* The counter of a stored password expires no earlier than the password, so
\* waiting does not win a second set of guesses.
CounterOutlivesOtp ==
    otpCode # None /\ failures > 0 => \/ failuresTtl >= otpTtl
                                     \/ \E r \in Requests : pc[r] = "clearFailures"

\* An account is locked only after MaxVerifyAttempts wrong guesses against one
\* password: guesses against an older one do not count, unless the handler that
\* stored the new one died before it deleted the counter.
LockJustified ==
    [][aborts = 0 /\ lockLeft' > lockLeft => rejected >= MaxVerifyAttempts]_vars

\* A lock is left to run out: no step but the passing of time shortens it.
LockRunsItsTerm ==
    [][lockLeft' < lockLeft => lockLeft' = lockLeft - 1]_vars

\* The lock outlasts both Redis keys, so an account comes out of its lock with
\* neither a password nor a counter, even if the handler died before its DELs.
CleanSlateAfterLock ==
    [][lockLeft > 0 /\ lockLeft' = 0 => otpCode' = None /\ failures' = 0]_vars
=============================================================================
