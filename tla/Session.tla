------------------------------- MODULE Session -------------------------------
(***************************************************************************)
(* The clients' side of a session: the daemon and the commands of the      *)
(* command line (crates/failsafe: server.rs, credentials.rs), which share  *)
(* the credentials file, and the requests of the web interface             *)
(* (failsafe-web-ui: api.ts, auth.ts), which share the browser's storage.  *)
(* Every one of them may find its access token expired and trade its       *)
(* refresh token, which works once, for a new pair.  A pair of tokens is   *)
(* one element of Tokens.  The server is the one of module Accounts, with  *)
(* one step per request.                                                   *)
(***************************************************************************)
EXTENDS Naturals, FiniteSets

CONSTANTS
    Procs,      \* processes: the daemon, commands
    Pages,      \* requests of the web interface that may overlap
    Tokens,     \* pairs of tokens, each issued once
    None,       \* no credentials
    Broken      \* a credentials file that does not parse

Clients == Procs \cup Pages

ASSUME SessionAssumption ==
    /\ Procs \cap Pages = {}
    /\ None \notin Tokens \cup Clients
    /\ Broken \notin Tokens \cup {None}

VARIABLES
    status,     \* the refresh token of a pair: "free", "valid" or "revoked"
    live,       \* live[n]: the access token of the pair has not expired
    file,       \* the credentials file
    store,      \* the browser's storage
    mem,        \* mem[p]: the credentials of a running process
    path,       \* path[p]: it has a credentials_path to save them to
    pc,         \* where the current request of a client is
    sent,       \* the credentials of the last message it sent
    got,        \* the pair an answer carries
    \* Not in the program: what the properties need to remember.
    login,      \* login[n]: the pair that the login n goes back to issued
    heir,       \* heir[n]: the client that traded n in
    lost,       \* pairs that were traded in for one that was not saved
    latest      \* the pair the last login from the command line saved

serverVars == <<status, live, login, heir>>
vars == <<serverVars, file, store, mem, path, pc, sent, got, lost, latest>>

TypeOK ==
    /\ status \in [Tokens -> {"free", "valid", "revoked"}]
    /\ live \in [Tokens -> BOOLEAN]
    /\ file \in Tokens \cup {None, Broken}
    /\ store \in Tokens \cup {None}
    /\ mem \in [Procs -> Tokens \cup {None}]
    /\ path \in [Procs -> BOOLEAN]
    /\ pc \in [Clients -> {"idle", "login", "sent", "unauthorized", "refresh",
                           "granted", "denied", "retry", "logout"}]
    /\ sent \in [Clients -> Tokens \cup {None}]
    /\ got \in [Clients -> Tokens \cup {None}]
    /\ login \in [Tokens -> Tokens \cup {None}]
    /\ heir \in [Tokens -> Clients \cup {None}]
    /\ lost \in SUBSET Tokens
    /\ latest \in Tokens \cup {None}

Init ==
    /\ status = [n \in Tokens |-> "free"]
    /\ live = [n \in Tokens |-> FALSE]
    /\ file = None
    /\ store = None
    /\ mem = [p \in Procs |-> None]
    /\ path = [p \in Procs |-> FALSE]
    /\ pc = [c \in Clients |-> "idle"]
    /\ sent = [c \in Clients |-> None]
    /\ got = [c \in Clients |-> None]
    /\ login = [n \in Tokens |-> None]
    /\ heir = [n \in Tokens |-> None]
    /\ lost = {}
    /\ latest = None

-----------------------------------------------------------------------------

\* The credentials a client reads now: the daemon and a command have their own
\* copy, a page looks into the storage.
Own(c) == IF c \in Pages THEN store ELSE mem[c]

\* c goes on to `next` with the credentials t sent and the pair n received.
Goto(c, next, t, n) ==
    /\ pc' = [pc EXCEPT ![c] = next]
    /\ sent' = [sent EXCEPT ![c] = t]
    /\ got' = [got EXCEPT ![c] = n]

Finish(c) == Goto(c, "idle", None, None)

\* A pair that was granted and that nobody will save.
Forget(c) ==
    lost' = IF pc[c] = "granted" THEN lost \cup {sent[c]} ELSE lost

-----------------------------------------------------------------------------
(* Processes. *)

\* run, or a command of the command line: the credentials are read once.
Start(p) ==
    /\ mem[p] = None
    /\ pc[p] = "idle"
    /\ file \in Tokens
    /\ mem' = [mem EXCEPT ![p] = file]
    /\ path' = [path EXCEPT ![p] = TRUE]
    /\ UNCHANGED <<serverVars, file, store, pc, sent, got, lost, latest>>

\* The process ends or is killed, wherever its request is.
Exit(p) ==
    /\ mem[p] # None
    /\ mem' = [mem EXCEPT ![p] = None]
    /\ path' = [path EXCEPT ![p] = FALSE]
    /\ Finish(p)
    /\ Forget(p)
    /\ UNCHANGED <<serverVars, file, store, latest>>

-----------------------------------------------------------------------------
(* The server. *)

\* The new pair is issued and the old one stays valid.
RotateKeepsOld(t, n) ==
    /\ status[n] = "free"
    /\ status' = [status EXCEPT ![n] = "valid"]
    /\ live' = [live EXCEPT ![n] = TRUE]
    /\ login' = [login EXCEPT ![n] = login[t]]

\* rotate: one transaction.
Rotate(t, n) ==
    /\ status[n] = "free"
    /\ status' = [status EXCEPT ![n] = "valid", ![t] = "revoked"]
    /\ live' = [live EXCEPT ![n] = TRUE]
    /\ login' = [login EXCEPT ![n] = login[t]]

\* The answer to the first login, register or redeem request.
Admit(c, n) ==
    /\ pc[c] = "idle"
    /\ Own(c) = None
    /\ status[n] = "free"
    /\ status' = [status EXCEPT ![n] = "valid"]
    /\ live' = [live EXCEPT ![n] = TRUE]
    /\ login' = [login EXCEPT ![n] = n]
    /\ Goto(c, "login", None, n)
    /\ UNCHANGED <<heir, file, store, mem, path, lost, latest>>

\* auth_middleware: the access token decides, whatever became of its pair.
Serve(c) ==
    /\ pc[c] = "sent"
    /\ IF sent[c] # None /\ live[sent[c]]
         THEN Finish(c)
         ELSE Goto(c, "unauthorized", None, None)
    /\ UNCHANGED <<serverVars, file, store, mem, path, lost, latest>>

Grant(c, n) ==
    /\ pc[c] = "refresh"
    /\ status[sent[c]] = "valid"
    /\ Rotate(sent[c], n)
    /\ heir' = [heir EXCEPT ![sent[c]] = c]
    /\ Goto(c, "granted", sent[c], n)
    /\ UNCHANGED <<file, store, mem, path, lost, latest>>

Deny(c) ==
    /\ pc[c] = "refresh"
    /\ status[sent[c]] # "valid"
    /\ Goto(c, "denied", sent[c], None)
    /\ UNCHANGED <<serverVars, file, store, mem, path, lost, latest>>

\* The access token expires.
Expire(n) ==
    /\ live[n]
    /\ live' = [live EXCEPT ![n] = FALSE]
    /\ UNCHANGED <<status, login, heir, file, store, mem, path, pc, sent, got,
                   lost, latest>>

\* A password change or the end of two-factor login, from anywhere.
RevokeAll ==
    /\ \E n \in Tokens : status[n] = "valid"
    /\ status' = [n \in Tokens |-> IF status[n] = "valid" THEN "revoked"
                                                          ELSE status[n]]
    /\ UNCHANGED <<live, login, heir, file, store, mem, path, pc, sent, got,
                   lost, latest>>

-----------------------------------------------------------------------------
(* send_authenticated and authFetch. *)

Send(c) ==
    /\ pc[c] = "idle"
    /\ Own(c) # None
    /\ Goto(c, "sent", Own(c), None)
    /\ UNCHANGED <<serverVars, file, store, mem, path, lost, latest>>

\* After a 401 the refresh token is read, which by now another request of the
\* pages may have replaced; refresh_tokens, refreshTokens.
Refresh(c) ==
    /\ pc[c] = "unauthorized"
    /\ Own(c) # None
    /\ Goto(c, "refresh", Own(c), None)
    /\ UNCHANGED <<serverVars, file, store, mem, path, lost, latest>>

\* The new pair is saved and not kept in memory.
KeepOnDisk(p, n) == UNCHANGED mem

\* refresh_tokens: the process goes on with the new pair.
Keep(p, n) == mem' = [mem EXCEPT ![p] = n]

\* The file is left as it is.
SkipSave(p, n) == UNCHANGED file

\* credentials.save, for a client that has a path.
Save(p, n) == file' = IF path[p] THEN n ELSE file

\* The new pair is kept, saved, and the request is sent again.
Store(p) ==
    /\ p \in Procs
    /\ pc[p] = "granted"
    /\ Keep(p, got[p])
    /\ Save(p, got[p])
    /\ lost' = IF path[p] THEN lost ELSE lost \cup {sent[p]}
    /\ Goto(p, "retry", got[p], None)
    /\ UNCHANGED <<serverVars, store, path, latest>>

\* What a save that fails leaves: the old pair, a file that fs::write truncated, or
\* the new pair when only the permissions could not be set.
SavedInPart(p) == {file, Broken, got[p]}

\* The request is given up, the copy in memory is the new one.
SaveFails(p) ==
    /\ p \in Procs
    /\ pc[p] = "granted"
    /\ path[p]
    /\ mem' = [mem EXCEPT ![p] = got[p]]
    /\ file' \in SavedInPart(p)
    /\ Forget(p)
    /\ Finish(p)
    /\ UNCHANGED <<serverVars, store, path, latest>>

PageStore(w) ==
    /\ w \in Pages
    /\ pc[w] = "granted"
    /\ store' = got[w]
    /\ Goto(w, "retry", got[w], None)
    /\ UNCHANGED <<serverVars, file, mem, path, lost, latest>>

\* A process hands on the 401, or whatever the second attempt brought.
Answered(p) ==
    /\ p \in Procs
    /\ pc[p] \in {"denied", "retry"}
    /\ Finish(p)
    /\ UNCHANGED <<serverVars, file, store, mem, path, lost, latest>>

\* A page that is still unauthorized signs out: clearToken, emitUnauthorized.
SignOut(w) ==
    /\ w \in Pages
    /\ \/ pc[w] = "denied"
       \/ pc[w] = "unauthorized" /\ store = None
       \/ pc[w] = "retry" /\ ~live[sent[w]]
    /\ store' = None
    /\ Finish(w)
    /\ UNCHANGED <<serverVars, file, mem, path, lost, latest>>

PageRetry(w) ==
    /\ w \in Pages
    /\ pc[w] = "retry"
    /\ live[sent[w]]
    /\ Finish(w)
    /\ UNCHANGED <<serverVars, file, store, mem, path, lost, latest>>

\* The message or its answer is lost, or the page is closed.
Lose(c) ==
    /\ pc[c] \in {"login", "sent", "refresh", "granted", "denied", "retry"}
    /\ Finish(c)
    /\ Forget(c)
    /\ UNCHANGED <<serverVars, file, store, mem, path, latest>>

-----------------------------------------------------------------------------
(* Signing in and out. *)

\* authenticate and pair_join save the credentials, then register the device
\* with a client that has no credentials_path.
LoginSave(p) ==
    /\ p \in Procs
    /\ pc[p] = "login"
    /\ file' = got[p]
    /\ mem' = [mem EXCEPT ![p] = got[p]]
    /\ latest' = got[p]
    /\ Goto(p, "sent", got[p], None)
    /\ UNCHANGED <<serverVars, store, path, lost>>

PageLogin(w) ==
    /\ w \in Pages
    /\ pc[w] = "login"
    /\ store' = got[w]
    /\ Finish(w)
    /\ UNCHANGED <<serverVars, file, mem, path, lost, latest>>

Logout(w) ==
    /\ w \in Pages
    /\ pc[w] = "idle"
    /\ store # None
    /\ Goto(w, "logout", store, None)
    /\ UNCHANGED <<serverVars, file, store, mem, path, lost, latest>>

\* The server revokes the token it is given, or is never asked: the storage is
\* cleared either way.
LogoutDone(w) ==
    /\ w \in Pages
    /\ pc[w] = "logout"
    /\ \/ status' = [status EXCEPT ![sent[w]] = "revoked"]
       \/ UNCHANGED status
    /\ store' = None
    /\ Finish(w)
    /\ UNCHANGED <<live, login, heir, file, mem, path, lost, latest>>

-----------------------------------------------------------------------------

Next ==
    \/ \E p \in Procs : Start(p) \/ Exit(p)
    \/ \E c \in Clients :
          \/ Send(c) \/ Serve(c) \/ Refresh(c) \/ Deny(c) \/ Lose(c)
          \/ Store(c) \/ SaveFails(c) \/ Answered(c) \/ LoginSave(c)
          \/ PageStore(c) \/ PageRetry(c) \/ SignOut(c) \/ PageLogin(c)
          \/ Logout(c) \/ LogoutDone(c)
          \/ \E n \in Tokens : Admit(c, n) \/ Grant(c, n)
    \/ \E n \in Tokens : Expire(n)
    \/ RevokeAll

Spec == Init /\ [][Next]_vars

-----------------------------------------------------------------------------

\* However many clients trade in copies of a refresh token at the same time, a
\* login has one refresh token that works: the session is never forked
\* (refresh_token.rs 91-123).
OneTokenPerLogin ==
    \A m, n \in Tokens :
        status[m] = "valid" /\ status[n] = "valid" /\ login[m] = login[n] => m = n

\* The credentials file holds a token that has been traded in only while the
\* process that did it is about to save the new pair, or after that pair was
\* lost: its answer did not arrive, its process ended or could not save it, or
\* had nowhere to save it to.  No process puts an old pair back over a newer
\* one of the same login (server.rs 236-279).
FileIsNewest ==
    file \in Tokens /\ heir[file] # None =>
        \/ file \in lost
        \/ pc[heir[file]] = "granted" /\ sent[heir[file]] = file

\* A process is refused only for a token that somebody else traded in or that
\* was revoked, or after it lost an answer: on its own it keeps its session
\* through any number of refreshes, file or no file (server.rs 215-279).
RefusedOnlyWhenOvertaken ==
    \A p \in Procs :
        pc[p] = "denied" /\ heir[sent[p]] = p => sent[p] \in lost

\* The web interface says that the session expired (LoginPage.tsx 159) only
\* when the tokens in its storage no longer work.
SignsOutOnlyDead ==
    [][\A w \in Pages :
          SignOut(w) /\ store \in Tokens =>
              ~(live[store] /\ status[store] = "valid")]_vars

\* After `failsafe login` has saved its credentials, the file holds those of
\* that login (auth.rs 87 tells the user so).
LoginSticks ==
    file \in Tokens /\ latest # None => login[file] = latest

=============================================================================
