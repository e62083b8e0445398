-------------------------------- MODULE SignIn --------------------------------
(***************************************************************************)
(* One account: sign-in attempts with their lockout, its sessions, step-up *)
(* and the second factor (auth/routes.ts, auth/guards.ts).  A sign-in is   *)
(* two steps, the count of failures and the transaction's end; a signed-in *)
(* request is the guard, which admits it, and its handler, which may run   *)
(* when the session is no longer what the guard saw.                       *)
(***************************************************************************)
EXTENDS Integers, FiniteSets

CONSTANTS
  Attempt,            \* sign-ins that may run at a time
  Token,              \* auth_sessions rows
  Secret,             \* TOTP secrets that may be provisioned
  LOCKOUT_THRESHOLD,  \* 5 in the code
  SlidingTtl,         \* hours a session lives on without use
  AbsoluteTtl,        \* hours after which it ends whatever its use
  MaxHour             \* bound on the clock

ASSUME SignInAssumption ==
  /\ IsFiniteSet(Attempt)
  /\ LOCKOUT_THRESHOLD \in Nat \ {0}
  /\ SlidingTtl \in Nat /\ AbsoluteTtl \in Nat /\ MaxHour \in Nat

VARIABLES
  hour,      \* the clock
  wrong,     \* failures of the window whose password was looked at
  turned,    \* failures of the window that the lockout turned away
  signing,   \* attempt -> "idle" or "counted"
  auth,      \* token -> its session
  request,   \* token -> the handler a guarded request is about to run
  factor     \* users.totp_secret, mfa_enrolled and codes confirmed of it

signvars == <<hour, wrong, turned, signing, auth, request, factor>>

Handler == {"logout", "revoke-all", "step-up", "enroll", "verify", "export"}
NoSecret == [secret |-> {}, enrolled |-> FALSE]
NoSession == [state |-> "none", expires |-> 0, absolute |-> 0, fresh |-> FALSE]

SignInTypeOK ==
  /\ hour \in 0..MaxHour
  /\ wrong \in Nat /\ turned \in Nat
  /\ signing \in [Attempt -> {"idle", "counted"}]
  /\ auth \in [Token -> [state : {"none", "live", "revoked"}, expires : Nat,
                         absolute : Nat, fresh : BOOLEAN]]
  /\ request \in [Token -> {"none"} \cup Handler \cup {"verify:write"}]
  /\ factor \in [secret : SUBSET Secret, enrolled : BOOLEAN]

SignInInit ==
  /\ hour = 0 /\ wrong = 0 /\ turned = 0
  /\ signing = [a \in Attempt |-> "idle"]
  /\ auth = [t \in Token |-> NoSession]
  /\ request = [t \in Token |-> "none"]
  /\ factor = NoSecret

(* An hour passes: sessions age and, with it, the window and the freshness *)
(* of every step-up are over.                                              *)
Hour ==
  /\ hour < MaxHour /\ hour' = hour + 1
  /\ wrong' = 0 /\ turned' = 0
  /\ auth' = [t \in Token |-> [auth[t] EXCEPT !.fresh = FALSE]]
  /\ UNCHANGED <<signing, request, factor>>

(* A failure leaves the window of 15 minutes. *)
FailureAges ==
  /\ \/ wrong > 0 /\ wrong' = wrong - 1 /\ UNCHANGED turned
     \/ turned > 0 /\ turned' = turned - 1 /\ UNCHANGED wrong
  /\ UNCHANGED <<hour, signing, auth, request, factor>>

LockedOut == wrong + turned >= LOCKOUT_THRESHOLD

(* Wrong on purpose: only the attempts turned away are counted. *)
CountFailuresTurned(a) ==
  /\ signing[a] = "idle"
  /\ turned < LOCKOUT_THRESHOLD
  /\ signing' = [signing EXCEPT ![a] = "counted"]
  /\ UNCHANGED <<hour, wrong, turned, auth, request, factor>>

CountFailures(a) ==
  /\ signing[a] = "idle" /\ ~LockedOut
  /\ signing' = [signing EXCEPT ![a] = "counted"]
  /\ UNCHANGED <<hour, wrong, turned, auth, request, factor>>

(* A locked attempt is recorded as a failure too. *)
TurnAway(a) ==
  /\ signing[a] = "idle" /\ LockedOut
  /\ turned <= LOCKOUT_THRESHOLD   \* bound of the model
  /\ turned' = turned + 1
  /\ UNCHANGED <<hour, wrong, signing, auth, request, factor>>

RejectPassword(a) ==
  /\ signing[a] = "counted"
  /\ wrong' = wrong + 1
  /\ signing' = [signing EXCEPT ![a] = "idle"]
  /\ UNCHANGED <<hour, turned, auth, request, factor>>

(* The session is inserted as the attempt is recorded: expiry by use and   *)
(* for good, freshly authenticated.                                        *)
AcceptPassword(a, t) ==
  /\ signing[a] = "counted" /\ auth[t].state = "none"
  /\ auth' = [auth EXCEPT ![t] = [state |-> "live", expires |-> hour + SlidingTtl,
                                  absolute |-> hour + AbsoluteTtl, fresh |-> TRUE]]
  /\ signing' = [signing EXCEPT ![a] = "idle"]
  /\ UNCHANGED <<hour, wrong, turned, request, factor>>

(* requireAuth: the session is looked up and its expiry moved, never past  *)
(* its cap.                                                                *)
Admits(t) == auth[t].state = "live" /\ auth[t].expires > hour

(* Exporting the organisation's data asks for a recent proof of identity.  *)
RequireFreshAuth(t, h) == h = "export" => auth[t].fresh

RequireAuth(t, h) ==
  /\ request[t] = "none" /\ Admits(t) /\ RequireFreshAuth(t, h)
  /\ request' = [request EXCEPT ![t] = h]
  /\ auth' = [auth EXCEPT ![t].expires =
       IF hour + SlidingTtl < auth[t].absolute THEN hour + SlidingTtl ELSE auth[t].absolute]
  /\ UNCHANGED <<hour, wrong, turned, signing, factor>>

Done(t) == request' = [request EXCEPT ![t] = "none"]

Logout(t) ==
  /\ request[t] = "logout" /\ Done(t)
  /\ auth' = [auth EXCEPT ![t].state = "revoked"]
  /\ UNCHANGED <<hour, wrong, turned, signing, factor>>

RevokeAll(t) ==
  /\ request[t] = "revoke-all" /\ Done(t)
  /\ auth' = [u \in Token |-> IF auth[u].state = "live"
                                THEN [auth[u] EXCEPT !.state = "revoked"] ELSE auth[u]]
  /\ UNCHANGED <<hour, wrong, turned, signing, factor>>

Export(t) ==
  /\ request[t] = "export" /\ Done(t)
  /\ UNCHANGED <<hour, wrong, turned, signing, auth, factor>>

(* A failure is not counted as a failed sign-in. *)
StepUp(t) ==
  /\ request[t] = "step-up" /\ Done(t)
  /\ \E right \in BOOLEAN :
       auth' = [auth EXCEPT ![t].fresh = @ \/ right]
  /\ UNCHANGED <<hour, wrong, turned, signing, factor>>

EnrollTotp(t) ==
  /\ request[t] = "enroll" /\ Done(t)
  /\ \E s \in Secret : factor' = [secret |-> {s}, enrolled |-> FALSE]
  /\ UNCHANGED <<hour, wrong, turned, signing, auth>>

(* The secret is read and the code checked against it in one statement,    *)
(* and the account marked in the next, whatever its secret is by then.     *)
VerifyTotpRead(t) ==
  /\ request[t] = "verify"
  /\ \E right \in BOOLEAN :
       request' = [request EXCEPT ![t] =
         IF right /\ factor.secret # {} THEN "verify:write" ELSE "none"]
  /\ UNCHANGED <<hour, wrong, turned, signing, auth, factor>>

VerifyTotpWrite(t) ==
  /\ request[t] = "verify:write" /\ Done(t)
  /\ factor' = [factor EXCEPT !.enrolled = TRUE]
  /\ UNCHANGED <<hour, wrong, turned, signing, auth>>

SignInNext ==
  \/ Hour \/ FailureAges
  \/ \E a \in Attempt :
       \/ CountFailures(a) \/ TurnAway(a) \/ RejectPassword(a)
       \/ \E t \in Token : AcceptPassword(a, t)
  \/ \E t \in Token :
       \/ \E h \in Handler : RequireAuth(t, h)
       \/ Logout(t) \/ RevokeAll(t) \/ Export(t) \/ StepUp(t) \/ EnrollTotp(t)
       \/ VerifyTotpRead(t) \/ VerifyTotpWrite(t)

SignInSpec == SignInInit /\ [][SignInNext]_signvars

-------------------------------------------------------------------------------
(* However many sign-ins run at once, the passwords looked at in a window  *)
(* overrun the threshold by no more than the attempts in the air: the      *)
(* failures are counted without a lock and recorded later                  *)
(* (auth/routes.ts:57, :92).                                               *)
GuessesBounded == wrong <= LOCKOUT_THRESHOLD - 1 + Cardinality(Attempt)
===============================================================================
