------------------------------ MODULE Accounts -------------------------------
(***************************************************************************)
(* The registration server's account (crates/failsafe-server): password,  *)
(* two-factor login, refresh tokens, pairing codes.  One account, many     *)
(* requests at a time.  A handler is several database statements; what is  *)
(* in one transaction is one step (the database is SQLite, where a         *)
(* transaction that read before another one wrote fails to write), the     *)
(* rest interleaves: rows are loaded and checked first and written later.  *)
(* Passwords and codes themselves are not modelled: the callers are the    *)
(* account's owner and give the right ones.                                *)
(***************************************************************************)
EXTENDS Naturals, FiniteSets

CONSTANTS
    Requests,   \* requests that may be handled at the same time
    Tokens,     \* refresh tokens: each is issued once
    Codes,      \* pairing codes
    Secrets,    \* TOTP secrets setup may generate
    Recovery,   \* the recovery codes one enable hands out
    None        \* an empty Option

ASSUME AccountsAssumption ==
    /\ None \notin Secrets
    /\ None \notin Tokens

VARIABLES
    account,    \* the account row exists
    secret,     \* totp_secret
    enabled,    \* totp_enabled
    recovery,   \* the unused recovery codes
    token,      \* token[t]: "free", "valid" or "revoked" (or expired)
    code,       \* code[c]: "free", "open" or "closed" (used or expired)
    pc,         \* where the handling of a request is
    row,        \* totp_secret and totp_enabled as the request loaded them
    arg,        \* the token a logout found
    \* Not in the program: what the properties need to remember.
    ended,      \* ended[t]: all sessions were ended since the login t goes back to
    confirmed,  \* the secret whose code the last enable checked
    raced       \* that enable wrote over columns it had not seen

vars == <<account, secret, enabled, recovery, token, code, pc, row, arg, ended,
          confirmed, raced>>

totpVars == <<secret, enabled, recovery, confirmed, raced>>
tokenVars == <<token, ended>>

Rows == [secret : Secrets \cup {None}, enabled : BOOLEAN]

TypeOK ==
    /\ account \in BOOLEAN
    /\ secret \in Secrets \cup {None}
    /\ enabled \in BOOLEAN
    /\ recovery \in SUBSET Recovery
    /\ token \in [Tokens -> {"free", "valid", "revoked"}]
    /\ code \in [Codes -> {"free", "open", "closed"}]
    /\ pc \in [Requests -> {"idle", "register", "mfa", "mfaLoaded", "issue",
                            "logout", "password", "setup", "enable",
                            "disableLoaded", "disable"}]
    /\ row \in [Requests -> Rows \cup {None}]
    /\ arg \in [Requests -> Tokens \cup {None}]
    /\ ended \in [Tokens -> BOOLEAN]
    /\ confirmed \in Secrets \cup {None}
    /\ raced \in BOOLEAN

Init ==
    /\ account = FALSE
    /\ secret = None
    /\ enabled = FALSE
    /\ recovery = {}
    /\ token = [t \in Tokens |-> "free"]
    /\ code = [c \in Codes |-> "free"]
    /\ pc = [r \in Requests |-> "idle"]
    /\ row = [r \in Requests |-> None]
    /\ arg = [r \in Requests |-> None]
    /\ ended = [t \in Tokens |-> FALSE]
    /\ confirmed = None
    /\ raced = FALSE

-----------------------------------------------------------------------------
(* Handling a request. *)

\* The next statement of r, which needs nothing of what was loaded before.
Goto(r, next) ==
    /\ pc' = [pc EXCEPT ![r] = next]
    /\ row' = [row EXCEPT ![r] = None]
    /\ arg' = [arg EXCEPT ![r] = None]

Columns == [secret |-> secret, enabled |-> enabled]

\* load_account
Load(r, next) ==
    /\ account
    /\ pc' = [pc EXCEPT ![r] = next]
    /\ row' = [row EXCEPT ![r] = Columns]
    /\ UNCHANGED arg

\* The stored columns are no longer the ones r decided on.
Outdated(r) == row[r] # Columns

\* Any statement may fail; what its transaction did is rolled back.
Fail(r) ==
    /\ pc[r] # "idle"
    /\ Goto(r, "idle")
    /\ UNCHANGED <<account, code>>
    /\ UNCHANGED totpVars
    /\ UNCHANGED tokenVars

-----------------------------------------------------------------------------
(* Refresh tokens. *)

\* Neither revoked nor expired is asked of the token.
AcceptsAny(t) == token[t] # "free"

\* find_valid_in_conn
Valid(t) == token[t] = "valid"

\* issue_auth_response: a statement of its own, after whatever admitted the
\* caller.
Issue(r, t) ==
    /\ pc[r] = "issue"
    /\ token[t] = "free"
    /\ token' = [token EXCEPT ![t] = "valid"]
    /\ ended' = [ended EXCEPT ![t] = FALSE]
    /\ Goto(r, "idle")
    /\ UNCHANGED <<account, code>>
    /\ UNCHANGED totpVars

\* rotate: the old token is revoked and the new one issued in one transaction.
Rotate(t, n) ==
    /\ Valid(t)
    /\ token[n] = "free"
    /\ token' = [token EXCEPT ![t] = "revoked", ![n] = "valid"]
    /\ ended' = [ended EXCEPT ![n] = ended[t]]
    /\ UNCHANGED <<account, code, pc, row, arg>>
    /\ UNCHANGED totpVars

\* expires_at passes.
Expire(t) ==
    /\ token[t] = "valid"
    /\ token' = [token EXCEPT ![t] = "revoked"]
    /\ UNCHANGED <<account, code, pc, row, arg, ended>>
    /\ UNCHANGED totpVars

\* logout: find and revoke are two statements; a rotation may come between.
LogoutFind(r, t) ==
    /\ pc[r] = "idle"
    /\ token[t] = "valid"
    /\ pc' = [pc EXCEPT ![r] = "logout"]
    /\ arg' = [arg EXCEPT ![r] = t]
    /\ UNCHANGED <<account, code, row>>
    /\ UNCHANGED totpVars
    /\ UNCHANGED tokenVars

LogoutRevoke(r) ==
    /\ pc[r] = "logout"
    /\ token' = [token EXCEPT ![arg[r]] = "revoked"]
    /\ Goto(r, "idle")
    /\ UNCHANGED <<account, code, ended>>
    /\ UNCHANGED totpVars

\* revoke_all_for_account, in the transaction of its caller.
RevokeAll ==
    /\ token' = [t \in Tokens |-> IF token[t] = "valid" THEN "revoked"
                                                       ELSE token[t]]
    /\ ended' = [t \in Tokens |-> token[t] # "free"]

-----------------------------------------------------------------------------
(* Registration, login, password. *)

\* The email is looked up first; the column is unique, so of two concurrent
\* registrations the second insert fails.
RegisterCheck(r) ==
    /\ pc[r] = "idle"
    /\ ~account
    /\ Goto(r, "register")
    /\ UNCHANGED <<account, code>>
    /\ UNCHANGED totpVars
    /\ UNCHANGED tokenVars

RegisterInsert(r) ==
    /\ pc[r] = "register"
    /\ ~account
    /\ account' = TRUE
    /\ Goto(r, "issue")
    /\ UNCHANGED code
    /\ UNCHANGED totpVars
    /\ UNCHANGED tokenVars

\* The password is checked; with two-factor login the answer is a token that
\* only login_mfa takes.
Login(r) ==
    /\ pc[r] = "idle"
    /\ account
    /\ Goto(r, IF enabled THEN "mfa" ELSE "issue")
    /\ UNCHANGED <<account, code>>
    /\ UNCHANGED totpVars
    /\ UNCHANGED tokenVars

LoginMfa(r) ==
    /\ pc[r] = "mfa"
    /\ enabled
    /\ Load(r, "mfaLoaded")
    /\ UNCHANGED <<account, secret, enabled, recovery, confirmed, raced, code>>
    /\ UNCHANGED tokenVars

\* One conditional update uses a recovery code up.
ConsumeRecoveryCode == \E c \in recovery : recovery' = recovery \ {c}

\* verify_totp_or_recovery: a code of the secret that was loaded, or a recovery
\* code.
Verify(r) ==
    /\ pc[r] \in {"mfaLoaded", "disableLoaded"}
    /\ \/ row[r].secret # None /\ UNCHANGED recovery
       \/ ConsumeRecoveryCode
    /\ Goto(r, IF pc[r] = "mfaLoaded" THEN "issue" ELSE "disable")
    /\ UNCHANGED <<account, secret, enabled, confirmed, raced, code>>
    /\ UNCHANGED tokenVars

ChangePassword(r) ==
    /\ pc[r] = "idle"
    /\ account
    /\ Goto(r, "password")
    /\ UNCHANGED <<account, secret, enabled, recovery, confirmed, raced, code>>
    /\ UNCHANGED tokenVars

ChangePasswordCommit(r) ==
    /\ pc[r] = "password"
    /\ RevokeAll
    /\ Goto(r, "idle")
    /\ UNCHANGED <<account, code>>
    /\ UNCHANGED totpVars

-----------------------------------------------------------------------------
(* Two-factor settings: each request loads the row, checks it and writes    *)
(* the columns it sets later, whatever they are by then.                    *)

\* setup does not ask whether two-factor login is on.
SetupAnyTime(r) ==
    /\ pc[r] = "idle"
    /\ Load(r, "setup")
    /\ UNCHANGED <<account, secret, enabled, recovery, confirmed, raced, code>>
    /\ UNCHANGED tokenVars

TotpSetup(r) ==
    /\ pc[r] = "idle"
    /\ ~enabled
    /\ Load(r, "setup")
    /\ UNCHANGED <<account, secret, enabled, recovery, confirmed, raced, code>>
    /\ UNCHANGED tokenVars

\* The new secret is stored without totp_enabled = false.
SetupKeepsEnabled(r, s) ==
    /\ pc[r] = "setup"
    /\ secret' = s
    /\ Goto(r, "idle")
    /\ UNCHANGED <<account, enabled, recovery, confirmed, raced, code>>
    /\ UNCHANGED tokenVars

TotpSetupWrite(r, s) ==
    /\ pc[r] = "setup"
    /\ secret' = s
    /\ enabled' = FALSE
    /\ Goto(r, "idle")
    /\ UNCHANGED <<account, recovery, confirmed, raced, code>>
    /\ UNCHANGED tokenVars

\* The code is checked against the secret that was loaded.
TotpEnable(r) ==
    /\ pc[r] = "idle"
    /\ ~enabled
    /\ secret # None
    /\ Load(r, "enable")
    /\ UNCHANGED <<account, secret, enabled, recovery, confirmed, raced, code>>
    /\ UNCHANGED tokenVars

\* One transaction: new recovery codes, totp_enabled.  totp_secret is not set,
\* so whatever is stored by now stays.
TotpEnableCommit(r) ==
    /\ pc[r] = "enable"
    /\ recovery' = Recovery
    /\ enabled' = TRUE
    /\ confirmed' = row[r].secret
    /\ raced' = Outdated(r)
    /\ Goto(r, "idle")
    /\ UNCHANGED <<account, secret, code>>
    /\ UNCHANGED tokenVars

TotpDisable(r) ==
    /\ pc[r] = "idle"
    /\ enabled
    /\ Load(r, "disableLoaded")
    /\ UNCHANGED <<account, secret, enabled, recovery, confirmed, raced, code>>
    /\ UNCHANGED tokenVars

\* The secret is cleared to an empty text.
DisableToEmpty(r) ==
    /\ pc[r] = "disable"
    /\ recovery' = {}
    /\ secret' = ""
    /\ enabled' = FALSE
    /\ RevokeAll
    /\ Goto(r, "idle")
    /\ UNCHANGED <<account, confirmed, raced, code>>

TotpDisableCommit(r) ==
    /\ pc[r] = "disable"
    /\ recovery' = {}
    /\ secret' = None
    /\ enabled' = FALSE
    /\ RevokeAll
    /\ Goto(r, "idle")
    /\ UNCHANGED <<account, confirmed, raced, code>>

-----------------------------------------------------------------------------
(* Pairing codes. *)

\* A code that is taken is generated again; the caller gets one that was free.
CreatePairingCode(c) ==
    /\ account
    /\ code[c] = "free"
    /\ code' = [code EXCEPT ![c] = "open"]
    /\ UNCHANGED <<account, pc, row, arg>>
    /\ UNCHANGED totpVars
    /\ UNCHANGED tokenVars

ExpireCode(c) ==
    /\ code[c] = "open"
    /\ code' = [code EXCEPT ![c] = "closed"]
    /\ UNCHANGED <<account, pc, row, arg>>
    /\ UNCHANGED totpVars
    /\ UNCHANGED tokenVars

\* One transaction registers the device and uses the code up; the session is
\* issued after it.
RedeemPairingCode(r, c) ==
    /\ pc[r] = "idle"
    /\ code[c] = "open"
    /\ code' = [code EXCEPT ![c] = "closed"]
    /\ Goto(r, "issue")
    /\ UNCHANGED account
    /\ UNCHANGED totpVars
    /\ UNCHANGED tokenVars

-----------------------------------------------------------------------------

Next ==
    \/ \E r \in Requests :
          \/ Fail(r) \/ LogoutRevoke(r)
          \/ RegisterCheck(r) \/ RegisterInsert(r)
          \/ Login(r) \/ LoginMfa(r) \/ Verify(r)
          \/ ChangePassword(r) \/ ChangePasswordCommit(r)
          \/ TotpSetup(r) \/ TotpEnable(r) \/ TotpEnableCommit(r)
          \/ TotpDisable(r) \/ TotpDisableCommit(r)
          \/ \E s \in Secrets : TotpSetupWrite(r, s)
          \/ \E t \in Tokens : Issue(r, t) \/ LogoutFind(r, t)
          \/ \E c \in Codes : RedeemPairingCode(r, c)
    \/ \E t \in Tokens : Expire(t) \/ \E n \in Tokens : Rotate(t, n)
    \/ \E c \in Codes : CreatePairingCode(c) \/ ExpireCode(c)

Spec == Init /\ [][Next]_vars

-----------------------------------------------------------------------------

\* A password change or the end of two-factor login (revoke_all_for_account)
\* ends every session for good: a refresh token that works afterwards goes back
\* to a token issued since, never to one of before by way of a rotation or a
\* logout that raced.  (A login checked before the change may still be issued
\* its token after it: auth.rs 98-112 and 184-189 do not exclude each other.)
EndedSessionsStayEnded ==
    \A t \in Tokens : token[t] = "valid" => ~ended[t]

\* Two-factor login that is on asks for codes of the secret its owner
\* confirmed, unless the enable that turned it on wrote over a change it had
\* not seen: nobody is locked out by requests that do not overlap.
EnabledIsConfirmed ==
    enabled /\ ~raced => secret # None /\ secret = confirmed

\* Two-factor login is turned off by the request for it, or by a setup that
\* had loaded the account before it was turned on (auth.rs 198-211).
OffOnlyByDisable ==
    [][enabled /\ ~enabled' =>
          \E r \in Requests :
              /\ pc'[r] = "idle"
              /\ pc[r] = "disable" \/ (pc[r] = "setup" /\ Outdated(r))]_vars

=============================================================================
