--------------------------- MODULE AccountsProofs ----------------------------
(***************************************************************************)
(* Proofs about Accounts, for any number of concurrent requests, tokens,   *)
(* codes and secrets.                                                      *)
(***************************************************************************)
EXTENDS Accounts, TLAPS

\* What a request has loaded by the time it writes: setup and enable have seen
\* two-factor login off, and an enable has checked a secret that was there.
LoadedOK(r) ==
    /\ pc[r] \in {"mfaLoaded", "setup", "enable", "disableLoaded"} => row[r] \in Rows
    /\ pc[r] \in {"setup", "enable"} => row[r].enabled = FALSE
    /\ pc[r] = "enable" => row[r].secret # None
    /\ pc[r] = "logout" => arg[r] \in Tokens

\* TypeOK is not inductive alone: an enable stores what it loaded.
TypeInv ==
    /\ TypeOK
    /\ \A r \in Requests : LoadedOK(r)

\* The two invariants the runs check need no more than that.
AccountsInv ==
    /\ TypeInv
    /\ EndedSessionsStayEnded
    /\ EnabledIsConfirmed

\* The invariant holds initially.
LEMMA AccountsInit == Init => AccountsInv
<1> SUFFICES ASSUME Init PROVE AccountsInv
  OBVIOUS
<1>1. TypeOK
  BY DEF Init, TypeOK
<1>2. ASSUME NEW r \in Requests PROVE LoadedOK(r)
  BY DEF Init, LoadedOK
<1>3. EndedSessionsStayEnded
  BY DEF Init, EndedSessionsStayEnded
<1>4. EnabledIsConfirmed
  BY DEF Init, EnabledIsConfirmed
<1> QED
  BY <1>1, <1>2, <1>3, <1>4 DEF AccountsInv, TypeInv

\* Going to a statement that needs nothing loaded.
LEMMA GotoKeeps ==
    ASSUME TypeInv, NEW r \in Requests,
           NEW next \in {"idle", "register", "mfa", "issue", "password", "disable"},
           Goto(r, next)
    PROVE  /\ pc' \in [Requests -> {"idle", "register", "mfa", "mfaLoaded", "issue",
                                    "logout", "password", "setup", "enable",
                                    "disableLoaded", "disable"}]
           /\ row' \in [Requests -> Rows \cup {None}]
           /\ arg' \in [Requests -> Tokens \cup {None}]
           /\ \A x \in Requests : LoadedOK(x)'
<1> USE DEF TypeInv, TypeOK, Goto
<1>1. /\ pc' \in [Requests -> {"idle", "register", "mfa", "mfaLoaded", "issue",
                               "logout", "password", "setup", "enable",
                               "disableLoaded", "disable"}]
      /\ row' \in [Requests -> Rows \cup {None}]
      /\ arg' \in [Requests -> Tokens \cup {None}]
  OBVIOUS
<1>2. ASSUME NEW x \in Requests PROVE LoadedOK(x)'
  <2>1. CASE x = r
    BY <2>1 DEF LoadedOK
  <2>2. CASE x # r
    BY <2>2 DEF LoadedOK
  <2> QED
    BY <2>1, <2>2
<1> QED
  BY <1>1, <1>2

\* Loading the row, for a statement that may rely on what was loaded.
LEMMA LoadKeeps ==
    ASSUME TypeInv, NEW r \in Requests,
           NEW next \in {"mfaLoaded", "setup", "enable", "disableLoaded"},
           Load(r, next),
           next \in {"setup", "enable"} => ~enabled,
           next = "enable" => secret # None
    PROVE  /\ pc' \in [Requests -> {"idle", "register", "mfa", "mfaLoaded", "issue",
                                    "logout", "password", "setup", "enable",
                                    "disableLoaded", "disable"}]
           /\ row' \in [Requests -> Rows \cup {None}]
           /\ arg' \in [Requests -> Tokens \cup {None}]
           /\ \A x \in Requests : LoadedOK(x)'
<1> USE DEF TypeInv, TypeOK, Load
<1>1. Columns \in Rows /\ Columns.enabled = enabled /\ Columns.secret = secret
  BY DEF Columns, Rows
<1>2. /\ pc' \in [Requests -> {"idle", "register", "mfa", "mfaLoaded", "issue",
                               "logout", "password", "setup", "enable",
                               "disableLoaded", "disable"}]
      /\ row' \in [Requests -> Rows \cup {None}]
      /\ arg' \in [Requests -> Tokens \cup {None}]
  BY <1>1
<1>3. ASSUME NEW x \in Requests PROVE LoadedOK(x)'
  <2>1. CASE x = r
    BY <1>1, <2>1 DEF LoadedOK
  <2>2. CASE x # r
    BY <2>2 DEF LoadedOK
  <2> QED
    BY <2>1, <2>2
<1> QED
  BY <1>2, <1>3

\* Ending all sessions leaves no token that works.
LEMMA RevokeAllKeeps ==
    ASSUME TypeOK, RevokeAll
    PROVE  /\ token' \in [Tokens -> {"free", "valid", "revoked"}]
           /\ ended' \in [Tokens -> BOOLEAN]
           /\ EndedSessionsStayEnded'
  BY DEF TypeOK, RevokeAll, EndedSessionsStayEnded

\* Every step keeps the invariant.
LEMMA AccountsInductive == AccountsInv /\ [Next]_vars => AccountsInv'
<1> SUFFICES ASSUME AccountsInv, [Next]_vars PROVE AccountsInv'
  OBVIOUS
<1>0. TypeInv /\ TypeOK /\ EndedSessionsStayEnded /\ EnabledIsConfirmed
  BY DEF AccountsInv, TypeInv
<1> USE DEF totpVars, tokenVars
<1>1. CASE UNCHANGED vars
  BY <1>0, <1>1 DEF vars, AccountsInv, TypeInv, TypeOK, LoadedOK,
     EndedSessionsStayEnded, EnabledIsConfirmed
<1>2. ASSUME NEW r \in Requests, Fail(r) PROVE AccountsInv'
  <2> USE <1>2 DEF Fail
  <2>1. TypeInv'
    BY <1>0, GotoKeeps DEF TypeInv, TypeOK
  <2> QED
    BY <1>0, <2>1 DEF AccountsInv, EndedSessionsStayEnded, EnabledIsConfirmed
<1>3. ASSUME NEW r \in Requests, LogoutRevoke(r) PROVE AccountsInv'
  <2> USE <1>3 DEF LogoutRevoke
  <2>1. TypeInv'
    BY <1>0, GotoKeeps DEF TypeInv, TypeOK
  <2>2. EndedSessionsStayEnded'
    BY <1>0 DEF TypeOK, EndedSessionsStayEnded
  <2> QED
    BY <1>0, <2>1, <2>2 DEF AccountsInv, EnabledIsConfirmed
<1>4. ASSUME NEW r \in Requests, RegisterCheck(r) PROVE AccountsInv'
  <2> USE <1>4 DEF RegisterCheck
  <2>1. TypeInv'
    BY <1>0, GotoKeeps DEF TypeInv, TypeOK
  <2> QED
    BY <1>0, <2>1 DEF AccountsInv, EndedSessionsStayEnded, EnabledIsConfirmed
<1>5. ASSUME NEW r \in Requests, RegisterInsert(r) PROVE AccountsInv'
  <2> USE <1>5 DEF RegisterInsert
  <2>1. TypeInv'
    BY <1>0, GotoKeeps DEF TypeInv, TypeOK
  <2> QED
    BY <1>0, <2>1 DEF AccountsInv, EndedSessionsStayEnded, EnabledIsConfirmed
<1>6. ASSUME NEW r \in Requests, Login(r) PROVE AccountsInv'
  <2> USE <1>6 DEF Login
  <2>1. TypeInv'
    <3> DEFINE next == IF enabled THEN "mfa" ELSE "issue"
    <3>1. next \in {"mfa", "issue"} /\ Goto(r, next)
      OBVIOUS
    <3> HIDE DEF next
    <3> QED
      BY <1>0, <3>1, GotoKeeps DEF TypeInv, TypeOK
  <2> QED
    BY <1>0, <2>1 DEF AccountsInv, EndedSessionsStayEnded, EnabledIsConfirmed
<1>7. ASSUME NEW r \in Requests, LoginMfa(r) PROVE AccountsInv'
  <2> USE <1>7 DEF LoginMfa
  <2>1. TypeInv'
    BY <1>0, LoadKeeps DEF TypeInv, TypeOK
  <2> QED
    BY <1>0, <2>1 DEF AccountsInv, EndedSessionsStayEnded, EnabledIsConfirmed
<1>8. ASSUME NEW r \in Requests, Verify(r) PROVE AccountsInv'
  <2> USE <1>8 DEF Verify, ConsumeRecoveryCode
  <2>1. TypeInv'
    <3> DEFINE next == IF pc[r] = "mfaLoaded" THEN "issue" ELSE "disable"
    <3>1. next \in {"issue", "disable"} /\ Goto(r, next)
      OBVIOUS
    <3> HIDE DEF next
    <3>2. recovery' \in SUBSET Recovery
      BY <1>0 DEF TypeOK
    <3> QED
      BY <1>0, <3>1, <3>2, GotoKeeps DEF TypeInv, TypeOK
  <2> QED
    BY <1>0, <2>1 DEF AccountsInv, EndedSessionsStayEnded, EnabledIsConfirmed
<1>9. ASSUME NEW r \in Requests, ChangePassword(r) PROVE AccountsInv'
  <2> USE <1>9 DEF ChangePassword
  <2>1. TypeInv'
    BY <1>0, GotoKeeps DEF TypeInv, TypeOK
  <2> QED
    BY <1>0, <2>1 DEF AccountsInv, EndedSessionsStayEnded, EnabledIsConfirmed
<1>10. ASSUME NEW r \in Requests, ChangePasswordCommit(r) PROVE AccountsInv'
  <2> USE <1>10 DEF ChangePasswordCommit
  <2>1. TypeInv' /\ EndedSessionsStayEnded'
    BY <1>0, GotoKeeps, RevokeAllKeeps DEF TypeInv, TypeOK
  <2> QED
    BY <1>0, <2>1 DEF AccountsInv, EnabledIsConfirmed
<1>11. ASSUME NEW r \in Requests, TotpSetup(r) PROVE AccountsInv'
  <2> USE <1>11 DEF TotpSetup
  <2>1. TypeInv'
    BY <1>0, LoadKeeps DEF TypeInv, TypeOK
  <2> QED
    BY <1>0, <2>1 DEF AccountsInv, EndedSessionsStayEnded, EnabledIsConfirmed
<1>12. ASSUME NEW r \in Requests, NEW s \in Secrets, TotpSetupWrite(r, s)
       PROVE AccountsInv'
  <2> USE <1>12 DEF TotpSetupWrite
  <2>1. TypeInv'
    BY <1>0, GotoKeeps DEF TypeInv, TypeOK
  <2> QED
    BY <1>0, <2>1 DEF AccountsInv, EndedSessionsStayEnded, EnabledIsConfirmed
<1>13. ASSUME NEW r \in Requests, TotpEnable(r) PROVE AccountsInv'
  <2> USE <1>13 DEF TotpEnable
  <2>1. TypeInv'
    BY <1>0, LoadKeeps DEF TypeInv, TypeOK
  <2> QED
    BY <1>0, <2>1 DEF AccountsInv, EndedSessionsStayEnded, EnabledIsConfirmed
<1>14. ASSUME NEW r \in Requests, TotpEnableCommit(r) PROVE AccountsInv'
  <2> USE <1>14 DEF TotpEnableCommit
  <2>1. row[r] \in Rows /\ row[r].secret # None
    BY <1>0 DEF TypeInv, LoadedOK
  <2>2. raced' \in BOOLEAN
    BY DEF Outdated
  <2>3. confirmed' \in Secrets \cup {None}
    BY <2>1 DEF Rows
  <2>4. TypeInv'
    BY <1>0, <2>2, <2>3, GotoKeeps DEF TypeInv, TypeOK
  <2>5. EnabledIsConfirmed'
    <3>1. CASE row[r] = Columns
      <4>1. row[r].secret = secret
        BY <3>1 DEF Columns
      <4>2. secret' = secret /\ confirmed' = row[r].secret
        OBVIOUS
      <4> QED
        BY <2>1, <4>1, <4>2 DEF EnabledIsConfirmed
    <3>2. CASE row[r] # Columns
      <4>1. raced' = TRUE
        BY <3>2 DEF Outdated
      <4> QED
        BY <4>1 DEF EnabledIsConfirmed
    <3> QED
      BY <3>1, <3>2
  <2> QED
    BY <1>0, <2>4, <2>5 DEF AccountsInv, EndedSessionsStayEnded
<1>15. ASSUME NEW r \in Requests, TotpDisable(r) PROVE AccountsInv'
  <2> USE <1>15 DEF TotpDisable
  <2>1. TypeInv'
    BY <1>0, LoadKeeps DEF TypeInv, TypeOK
  <2> QED
    BY <1>0, <2>1 DEF AccountsInv, EndedSessionsStayEnded, EnabledIsConfirmed
<1>16. ASSUME NEW r \in Requests, TotpDisableCommit(r) PROVE AccountsInv'
  <2> USE <1>16 DEF TotpDisableCommit
  <2>1. TypeInv' /\ EndedSessionsStayEnded'
    BY <1>0, GotoKeeps, RevokeAllKeeps DEF TypeInv, TypeOK
  <2> QED
    BY <1>0, <2>1 DEF AccountsInv, EnabledIsConfirmed
<1>17. ASSUME NEW r \in Requests, NEW t \in Tokens, Issue(r, t) PROVE AccountsInv'
  <2> USE <1>17 DEF Issue
  <2>1. TypeInv'
    BY <1>0, GotoKeeps DEF TypeInv, TypeOK
  <2>2. EndedSessionsStayEnded'
    BY <1>0 DEF TypeOK, EndedSessionsStayEnded
  <2> QED
    BY <1>0, <2>1, <2>2 DEF AccountsInv, EnabledIsConfirmed
<1>18. ASSUME NEW r \in Requests, NEW t \in Tokens, LogoutFind(r, t)
       PROVE AccountsInv'
  <2> USE <1>18 DEF LogoutFind
  <2>1. TypeOK'
    BY <1>0 DEF TypeOK
  <2>2. ASSUME NEW x \in Requests PROVE LoadedOK(x)'
    BY <1>0 DEF TypeInv, TypeOK, LoadedOK
  <2> QED
    BY <1>0, <2>1, <2>2
    DEF AccountsInv, TypeInv, EndedSessionsStayEnded, EnabledIsConfirmed
<1>19. ASSUME NEW r \in Requests, NEW c \in Codes, RedeemPairingCode(r, c)
       PROVE AccountsInv'
  <2> USE <1>19 DEF RedeemPairingCode
  <2>1. TypeInv'
    BY <1>0, GotoKeeps DEF TypeInv, TypeOK
  <2> QED
    BY <1>0, <2>1 DEF AccountsInv, EndedSessionsStayEnded, EnabledIsConfirmed
<1>20. ASSUME NEW t \in Tokens, Expire(t) PROVE AccountsInv'
  <2> USE <1>20 DEF Expire
  <2>1. TypeInv'
    BY <1>0 DEF TypeInv, TypeOK, LoadedOK
  <2>2. EndedSessionsStayEnded'
    BY <1>0 DEF TypeOK, EndedSessionsStayEnded
  <2> QED
    BY <1>0, <2>1, <2>2 DEF AccountsInv, EnabledIsConfirmed
<1>21. ASSUME NEW t \in Tokens, NEW n \in Tokens, Rotate(t, n) PROVE AccountsInv'
  <2> USE <1>21 DEF Rotate, Valid
  <2>1. TypeInv'
    BY <1>0 DEF TypeInv, TypeOK, LoadedOK
  <2>2. EndedSessionsStayEnded'
    BY <1>0 DEF TypeOK, EndedSessionsStayEnded
  <2> QED
    BY <1>0, <2>1, <2>2 DEF AccountsInv, EnabledIsConfirmed
<1>22. ASSUME NEW c \in Codes, CreatePairingCode(c) \/ ExpireCode(c)
       PROVE AccountsInv'
  <2> USE <1>22 DEF CreatePairingCode, ExpireCode
  <2>1. TypeInv'
    BY <1>0 DEF TypeInv, TypeOK, LoadedOK
  <2> QED
    BY <1>0, <2>1 DEF AccountsInv, EndedSessionsStayEnded, EnabledIsConfirmed
<1> QED
  BY <1>1, <1>2, <1>3, <1>4, <1>5, <1>6, <1>7, <1>8, <1>9, <1>10, <1>11, <1>12,
     <1>13, <1>14, <1>15, <1>16, <1>17, <1>18, <1>19, <1>20, <1>21, <1>22 DEF Next

\* The server's rows and what its requests hold keep their types.
THEOREM TypeCorrect == Spec => []TypeOK
<1>1. AccountsInv => TypeOK
  BY DEF AccountsInv, TypeInv
<1> QED
  BY <1>1, AccountsInit, AccountsInductive, PTL DEF Spec

\* A password change or the end of two-factor login ends every session for
\* good, however rotations and logouts race it.
THEOREM SessionsStayEnded == Spec => []EndedSessionsStayEnded
<1>1. AccountsInv => EndedSessionsStayEnded
  BY DEF AccountsInv
<1> QED
  BY <1>1, AccountsInit, AccountsInductive, PTL DEF Spec

\* Two-factor login asks for codes of the secret that was confirmed, unless an
\* enable wrote over a change it had not seen.
THEOREM ConfirmedSecret == Spec => []EnabledIsConfirmed
<1>1. AccountsInv => EnabledIsConfirmed
  BY DEF AccountsInv
<1> QED
  BY <1>1, AccountsInit, AccountsInductive, PTL DEF Spec

\* Only a disable, or a setup that was overtaken by an enable, turns two-factor
\* login off: a setup that saw it off and is not outdated finds it off.
THEOREM TurnedOffByDisable == Spec => OffOnlyByDisable
<1> DEFINE Off == enabled /\ ~enabled' =>
              \E r \in Requests :
                  /\ pc'[r] = "idle"
                  /\ pc[r] = "disable" \/ (pc[r] = "setup" /\ Outdated(r))
<1>1. ASSUME AccountsInv, [Next]_vars PROVE [Off]_vars
  <2> SUFFICES ASSUME Next, enabled, ~enabled' PROVE Off
    BY <1>1
  <2>1. TypeInv
    BY <1>1 DEF AccountsInv
  <2>2. ASSUME NEW r \in Requests, NEW s \in Secrets, TotpSetupWrite(r, s)
        PROVE Off
    <3>1. row[r].enabled = FALSE /\ pc[r] = "setup" /\ pc'[r] = "idle"
      BY <2>1, <2>2 DEF TotpSetupWrite, Goto, TypeInv, TypeOK, LoadedOK
    <3>2. Outdated(r)
      BY <3>1 DEF Outdated, Columns
    <3> QED
      BY <3>1, <3>2
  <2>3. ASSUME NEW r \in Requests, TotpDisableCommit(r) PROVE Off
    BY <2>1, <2>3 DEF TotpDisableCommit, Goto, TypeInv, TypeOK
  <2> QED
    BY <2>2, <2>3 DEF Next, Fail, LogoutRevoke, RegisterCheck, RegisterInsert, Login,
       LoginMfa, Verify, ChangePassword, ChangePasswordCommit, TotpSetup, TotpEnable,
       TotpEnableCommit, TotpDisable, Issue, LogoutFind, RedeemPairingCode, Expire,
       Rotate, CreatePairingCode, ExpireCode, totpVars
<1> QED
  BY <1>1, AccountsInit, AccountsInductive, PTL DEF Spec, OffOnlyByDisable

=============================================================================
