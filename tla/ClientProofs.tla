---------------------------- MODULE ClientProofs ----------------------------
(***************************************************************************)
(* Proofs about the clients of the server.  Session, the logins they hold,  *)
(* for any processes, pages and pairs of tokens.  PolicySync, the daemon    *)
(* that follows the server's device table, for any peers and features.      *)
(***************************************************************************)
EXTENDS Session, PolicySync, TLAPS

----------------------------------------------------------------------------
(* Session.                                                                 *)

\* A request that has something to trade in, or a pair to save.
HoldsOK(c) ==
    /\ pc[c] \in {"refresh", "granted", "denied", "retry", "logout"} =>
          sent[c] \in Tokens
    /\ pc[c] \in {"granted", "login"} => got[c] \in Tokens
    /\ pc[c] \notin {"granted", "login"} => got[c] = None

\* TypeOK is not inductive alone: what was sent and received is stored.
TypeInv ==
    /\ TypeOK
    /\ \A c \in Clients : HoldsOK(c)

\* A pair that was issued goes back to a login that was, and one that still
\* works has not been traded in.
IssuedOK(n) ==
    /\ status[n] = "free" => heir[n] = None
    /\ status[n] = "valid" => heir[n] = None
    /\ status[n] # "free" => login[n] \in Tokens /\ status[login[n]] # "free"

\* Whatever a client or a file holds was issued.
HeldOK ==
    /\ file \in Tokens => status[file] # "free"
    /\ store \in Tokens => status[store] # "free"
    /\ \A p \in Procs : mem[p] \in Tokens => status[mem[p]] # "free"
    /\ \A c \in Clients :
          /\ sent[c] \in Tokens => status[sent[c]] # "free"
          /\ got[c] \in Tokens => status[got[c]] # "free"

\* An answer on its way is the only copy of its pair.
FreshOK(c) ==
    got[c] \in Tokens =>
        /\ heir[got[c]] = None
        /\ file # got[c] /\ store # got[c]
        /\ \A p \in Procs : mem[p] # got[c]
        /\ \A a \in Clients : sent[a] # got[c]
        /\ \A a \in Clients \ {c} : got[a] # got[c]

\* Processes and pages have no pair in common.
ApartOK ==
    /\ store \in Tokens =>
          /\ file # store
          /\ \A p \in Procs : mem[p] # store /\ sent[p] # store
    /\ \A w \in Pages : sent[w] \in Tokens =>
          /\ file # sent[w]
          /\ \A p \in Procs : mem[p] # sent[w] /\ sent[p] # sent[w]

\* A process that traded its own copy in has the new pair or lost it.
OwnOK(p) ==
    /\ mem[p] \in Tokens /\ heir[mem[p]] = p =>
          mem[p] \in lost \/ (pc[p] = "granted" /\ sent[p] = mem[p])
    /\ pc[p] \in {"refresh", "denied"} /\ heir[sent[p]] = p => sent[p] \in lost
    /\ pc[p] = "refresh" => sent[p] = mem[p]

\* None of the three invariants is inductive alone.  A fork is excluded because
\* a pair in use goes back to a login whose token is no longer free; the file
\* stays newest because an answer on its way is the only copy of its pair and
\* pages never hold a pair of the file.
SessionInv ==
    /\ TypeInv
    /\ \A n \in Tokens : IssuedOK(n)
    /\ HeldOK
    /\ \A c \in Clients : FreshOK(c)
    /\ ApartOK
    /\ \A p \in Procs : OwnOK(p)
    /\ OneTokenPerLogin
    /\ FileIsNewest

\* The invariant holds initially.
LEMMA SessionInit == Init => SessionInv
<1> SUFFICES ASSUME Init PROVE SessionInv
  OBVIOUS
<1> USE SessionAssumption DEF Init, Clients
<1>1. TypeInv
  BY DEF TypeInv, TypeOK, HoldsOK
<1>2. (\A n \in Tokens : IssuedOK(n)) /\ HeldOK
  BY DEF IssuedOK, HeldOK
<1>3. (\A c \in Clients : FreshOK(c)) /\ ApartOK /\ \A p \in Procs : OwnOK(p)
  BY DEF FreshOK, ApartOK, OwnOK
<1>4. OneTokenPerLogin /\ FileIsNewest
  BY DEF OneTokenPerLogin, FileIsNewest
<1> QED
  BY <1>1, <1>2, <1>3, <1>4 DEF SessionInv
\* Every step keeps the invariant.
LEMMA SessionInductive == SessionInv /\ [Next]_vars => SessionInv'
<1> SUFFICES ASSUME SessionInv, [Next]_vars PROVE SessionInv'
  OBVIOUS
<1> USE SessionAssumption
    DEF Clients, serverVars, SessionInv, TypeInv, TypeOK, HoldsOK
<1>1. CASE UNCHANGED vars
  BY <1>1 DEF vars, IssuedOK, HeldOK, FreshOK, ApartOK, OwnOK, OneTokenPerLogin,
     FileIsNewest
<1>2. ASSUME NEW p \in Procs, Start(p) PROVE SessionInv'
  <2> USE <1>2 DEF Start
  <2>1. TypeInv'
    OBVIOUS
  <2>2. HeldOK'
    BY DEF HeldOK
  <2>3. (\A x \in Clients : FreshOK(x))'
    BY DEF FreshOK
  <2>4. ApartOK'
    BY DEF ApartOK
  <2>5. (\A x \in Procs : OwnOK(x))'
    BY DEF OwnOK, FileIsNewest, FreshOK
  <2> QED
    BY <2>1, <2>2, <2>3, <2>4, <2>5 DEF IssuedOK, OneTokenPerLogin, FileIsNewest
<1>3. ASSUME NEW p \in Procs, Exit(p) PROVE SessionInv'
  <2> USE <1>3 DEF Exit, Goto, Finish, Forget
  <2>1. TypeInv'
    OBVIOUS
  <2>2. HeldOK'
    BY DEF HeldOK
  <2>3. (\A x \in Clients : FreshOK(x))'
    BY DEF FreshOK
  <2>4. ApartOK'
    BY DEF ApartOK
  <2>5. (\A x \in Procs : OwnOK(x))'
    BY DEF OwnOK
  <2>6. FileIsNewest'
    BY DEF FileIsNewest
  <2> QED
    BY <2>1, <2>2, <2>3, <2>4, <2>5, <2>6 DEF IssuedOK, OneTokenPerLogin
<1>4. ASSUME NEW c \in Clients, Send(c) PROVE SessionInv'
  <2> USE <1>4 DEF Send, Goto, Own
  <2>1. TypeInv'
    OBVIOUS
  <2>2. HeldOK'
    BY DEF HeldOK
  <2>3. (\A x \in Clients : FreshOK(x))'
    BY DEF FreshOK
  <2>4. ApartOK'
    BY DEF ApartOK
  <2>5. (\A x \in Procs : OwnOK(x))'
    BY DEF OwnOK
  <2> QED
    BY <2>1, <2>2, <2>3, <2>4, <2>5 DEF IssuedOK, OneTokenPerLogin, FileIsNewest
<1>5. ASSUME NEW c \in Clients, Serve(c) PROVE SessionInv'
  <2> USE <1>5 DEF Serve, Goto, Finish
  <2>1. TypeInv'
    OBVIOUS
  <2>2. HeldOK'
    BY DEF HeldOK
  <2>3. (\A x \in Clients : FreshOK(x))'
    BY DEF FreshOK
  <2>4. ApartOK'
    BY DEF ApartOK
  <2>5. (\A x \in Procs : OwnOK(x))'
    BY DEF OwnOK
  <2> QED
    BY <2>1, <2>2, <2>3, <2>4, <2>5 DEF IssuedOK, OneTokenPerLogin, FileIsNewest
<1>6. ASSUME NEW c \in Clients, Refresh(c) PROVE SessionInv'
  <2> USE <1>6 DEF Refresh, Goto, Own
  <2>1. TypeInv'
    OBVIOUS
  <2>2. HeldOK'
    BY DEF HeldOK
  <2>3. (\A x \in Clients : FreshOK(x))'
    BY DEF FreshOK
  <2>4. ApartOK'
    BY DEF ApartOK
  <2>5. (\A x \in Procs : OwnOK(x))'
    BY DEF OwnOK
  <2>6. FileIsNewest'
    BY DEF FileIsNewest
  <2> QED
    BY <2>1, <2>2, <2>3, <2>4, <2>5, <2>6 DEF IssuedOK, OneTokenPerLogin
<1>7. ASSUME NEW c \in Clients, Deny(c) PROVE SessionInv'
  <2> USE <1>7 DEF Deny, Goto
  <2>1. TypeInv'
    OBVIOUS
  <2>2. (\A x \in Clients : FreshOK(x))'
    BY DEF FreshOK
  <2>3. (\A x \in Procs : OwnOK(x))'
    BY DEF OwnOK
  <2> QED
    BY <2>1, <2>2, <2>3 DEF IssuedOK, HeldOK, ApartOK, OneTokenPerLogin,
       FileIsNewest
<1>8. ASSUME NEW c \in Clients, Lose(c) PROVE SessionInv'
  <2> USE <1>8 DEF Lose, Goto, Finish, Forget
  <2>1. TypeInv'
    OBVIOUS
  <2>2. (\A x \in Clients : FreshOK(x))'
    BY DEF FreshOK
  <2>3. ApartOK'
    BY DEF ApartOK
  <2>4. (\A x \in Procs : OwnOK(x))'
    BY DEF OwnOK
  <2>5. FileIsNewest'
    BY DEF FileIsNewest
  <2> QED
    BY <2>1, <2>2, <2>3, <2>4, <2>5 DEF IssuedOK, HeldOK, OneTokenPerLogin
<1>9. ASSUME NEW p \in Clients, Store(p) PROVE SessionInv'
  <2> USE <1>9 DEF Store, Goto, Keep, Save
  <2>1. TypeInv'
    OBVIOUS
  <2>2. HeldOK'
    BY DEF HeldOK
  <2>3. (\A x \in Clients : FreshOK(x))'
    BY DEF FreshOK
  <2>4. ApartOK'
    BY DEF ApartOK, FreshOK
  <2>5. (\A x \in Procs : OwnOK(x))'
    BY DEF OwnOK, FreshOK, HeldOK
  <2>6. FileIsNewest'
    BY DEF FileIsNewest, FreshOK
  <2> QED
    BY <2>1, <2>2, <2>3, <2>4, <2>5, <2>6 DEF IssuedOK, OneTokenPerLogin
<1>10. ASSUME NEW p \in Clients, SaveFails(p) PROVE SessionInv'
  <2> USE <1>10 DEF SaveFails, Goto, Finish, Forget, SavedInPart
  <2>1. TypeInv'
    OBVIOUS
  <2>2. HeldOK'
    BY DEF HeldOK
  <2>3. (\A x \in Clients : FreshOK(x))'
    BY DEF FreshOK
  <2>4. ApartOK'
    BY DEF ApartOK, FreshOK
  <2>5. (\A x \in Procs : OwnOK(x))'
    BY DEF OwnOK, FreshOK
  <2>6. FileIsNewest'
    BY DEF FileIsNewest, FreshOK
  <2> QED
    BY <2>1, <2>2, <2>3, <2>4, <2>5, <2>6 DEF IssuedOK, OneTokenPerLogin
<1>11. ASSUME NEW p \in Clients, Answered(p) PROVE SessionInv'
  <2> USE <1>11 DEF Answered, Goto, Finish
  <2>1. TypeInv'
    OBVIOUS
  <2>2. (\A x \in Clients : FreshOK(x))'
    BY DEF FreshOK
  <2>3. ApartOK'
    BY DEF ApartOK
  <2>4. (\A x \in Procs : OwnOK(x))'
    BY DEF OwnOK
  <2> QED
    BY <2>1, <2>2, <2>3, <2>4 DEF IssuedOK, HeldOK, OneTokenPerLogin,
       FileIsNewest
<1>12. ASSUME NEW p \in Clients, LoginSave(p) PROVE SessionInv'
  <2> USE <1>12 DEF LoginSave, Goto
  <2>1. TypeInv'
    OBVIOUS
  <2>2. HeldOK'
    BY DEF HeldOK
  <2>3. (\A x \in Clients : FreshOK(x))'
    BY DEF FreshOK
  <2>4. ApartOK'
    BY DEF ApartOK, FreshOK
  <2>5. (\A x \in Procs : OwnOK(x))'
    BY DEF OwnOK, FreshOK
  <2>6. FileIsNewest'
    BY DEF FileIsNewest, FreshOK
  <2> QED
    BY <2>1, <2>2, <2>3, <2>4, <2>5, <2>6 DEF IssuedOK, OneTokenPerLogin
<1>13. ASSUME NEW w \in Clients, PageStore(w) PROVE SessionInv'
  <2> USE <1>13 DEF PageStore, Goto
  <2>1. TypeInv'
    OBVIOUS
  <2>2. HeldOK'
    BY DEF HeldOK
  <2>3. (\A x \in Clients : FreshOK(x))'
    BY DEF FreshOK
  <2>4. ApartOK'
    BY DEF ApartOK, FreshOK
  <2>5. FileIsNewest'
    BY DEF FileIsNewest, ApartOK
  <2> QED
    BY <2>1, <2>2, <2>3, <2>4, <2>5 DEF IssuedOK, OwnOK, OneTokenPerLogin
<1>14. ASSUME NEW w \in Clients, PageRetry(w) PROVE SessionInv'
  <2> USE <1>14 DEF PageRetry, Goto, Finish
  <2>1. TypeInv'
    OBVIOUS
  <2>2. (\A x \in Clients : FreshOK(x))'
    BY DEF FreshOK
  <2>3. ApartOK'
    BY DEF ApartOK
  <2> QED
    BY <2>1, <2>2, <2>3 DEF IssuedOK, HeldOK, OwnOK, OneTokenPerLogin,
       FileIsNewest
<1>15. ASSUME NEW w \in Clients, SignOut(w) PROVE SessionInv'
  <2> USE <1>15 DEF SignOut, Goto, Finish
  <2>1. TypeInv'
    OBVIOUS
  <2>2. (\A x \in Clients : FreshOK(x))'
    BY DEF FreshOK
  <2>3. ApartOK'
    BY DEF ApartOK
  <2> QED
    BY <2>1, <2>2, <2>3 DEF IssuedOK, HeldOK, OwnOK, OneTokenPerLogin,
       FileIsNewest
<1>16. ASSUME NEW w \in Clients, PageLogin(w) PROVE SessionInv'
  <2> USE <1>16 DEF PageLogin, Goto, Finish
  <2>1. TypeInv'
    OBVIOUS
  <2>2. HeldOK'
    BY DEF HeldOK
  <2>3. (\A x \in Clients : FreshOK(x))'
    BY DEF FreshOK
  <2>4. ApartOK'
    BY DEF ApartOK, FreshOK
  <2> QED
    BY <2>1, <2>2, <2>3, <2>4 DEF IssuedOK, OwnOK, OneTokenPerLogin,
       FileIsNewest
<1>17. ASSUME NEW w \in Clients, Logout(w) PROVE SessionInv'
  <2> USE <1>17 DEF Logout, Goto
  <2>1. TypeInv'
    OBVIOUS
  <2>2. HeldOK'
    BY DEF HeldOK
  <2>3. (\A x \in Clients : FreshOK(x))'
    BY DEF FreshOK
  <2>4. ApartOK'
    BY DEF ApartOK
  <2> QED
    BY <2>1, <2>2, <2>3, <2>4 DEF IssuedOK, OwnOK, OneTokenPerLogin,
       FileIsNewest
<1>18. ASSUME NEW w \in Clients, LogoutDone(w) PROVE SessionInv'
  <2> USE <1>18 DEF LogoutDone, Goto, Finish
  <2>1. TypeInv'
    OBVIOUS
  <2>2. (\A m \in Tokens : IssuedOK(m))'
    BY DEF IssuedOK, HeldOK
  <2>3. HeldOK'
    BY DEF HeldOK
  <2>4. (\A x \in Clients : FreshOK(x))'
    BY DEF FreshOK
  <2>5. ApartOK'
    BY DEF ApartOK
  <2> QED
    BY <2>1, <2>2, <2>3, <2>4, <2>5 DEF OwnOK, OneTokenPerLogin, FileIsNewest
<1>19. ASSUME NEW c \in Clients, NEW n \in Tokens, Admit(c, n) PROVE SessionInv'
  <2> USE <1>19 DEF Admit, Goto, Own
  <2>1. TypeInv'
    OBVIOUS
  <2>2. (\A m \in Tokens : IssuedOK(m))'
    BY DEF IssuedOK
  <2>3. HeldOK'
    BY DEF HeldOK
  <2>4. (\A x \in Clients : FreshOK(x))'
    BY DEF FreshOK, HeldOK, IssuedOK
  <2>5. ApartOK'
    BY DEF ApartOK
  <2>6. OneTokenPerLogin'
    BY DEF OneTokenPerLogin, IssuedOK
  <2> QED
    BY <2>1, <2>2, <2>3, <2>4, <2>5, <2>6 DEF OwnOK, FileIsNewest
<1>20. ASSUME NEW c \in Clients, NEW n \in Tokens, Grant(c, n) PROVE SessionInv'
  <2> USE <1>20 DEF Grant, Goto, Rotate
  <2>1. TypeInv'
    OBVIOUS
  <2>2. (\A m \in Tokens : IssuedOK(m))'
    BY DEF IssuedOK
  <2>3. HeldOK'
    BY DEF HeldOK
  <2>4. (\A x \in Clients : FreshOK(x))'
    BY DEF FreshOK, HeldOK, IssuedOK
  <2>5. (\A x \in Procs : OwnOK(x))'
    BY DEF OwnOK
  <2>6. OneTokenPerLogin'
    BY DEF OneTokenPerLogin, IssuedOK
  <2>7. FileIsNewest'
    BY DEF FileIsNewest, IssuedOK
  <2> QED
    BY <2>1, <2>2, <2>3, <2>4, <2>5, <2>6, <2>7 DEF ApartOK
<1>21. ASSUME NEW n \in Tokens, Expire(n) PROVE SessionInv'
  <2> USE <1>21 DEF Expire
  <2>1. TypeInv'
    OBVIOUS
  <2> QED
    BY <2>1 DEF IssuedOK, HeldOK, FreshOK, ApartOK, OwnOK, OneTokenPerLogin,
       FileIsNewest
<1>22. ASSUME RevokeAll PROVE SessionInv'
  <2> USE <1>22 DEF RevokeAll
  <2>1. TypeInv'
    OBVIOUS
  <2>2. (\A m \in Tokens : IssuedOK(m))'
    BY DEF IssuedOK
  <2>3. HeldOK'
    BY DEF HeldOK
  <2>4. OneTokenPerLogin'
    BY DEF OneTokenPerLogin
  <2> QED
    BY <2>1, <2>2, <2>3, <2>4 DEF FreshOK, ApartOK, OwnOK, FileIsNewest
<1> QED
  BY <1>1, <1>2, <1>3, <1>4, <1>5, <1>6, <1>7, <1>8, <1>9, <1>10, <1>11, <1>12,
     <1>13, <1>14, <1>15, <1>16, <1>17, <1>18, <1>19, <1>20, <1>21, <1>22 DEF
     Next

\* However many clients trade in copies of a refresh token, a login has one
\* refresh token that works.
THEOREM NeverForked == Spec => []OneTokenPerLogin
<1>1. SessionInv => OneTokenPerLogin
  BY DEF SessionInv
<1> QED
  BY <1>1, SessionInit, SessionInductive, PTL DEF Spec

\* No process puts an old pair of a login back over a newer one in the file.
THEOREM NewestInFile == Spec => []FileIsNewest
<1>1. SessionInv => FileIsNewest
  BY DEF SessionInv
<1> QED
  BY <1>1, SessionInit, SessionInductive, PTL DEF Spec

\* A process that is refused was overtaken by another, revoked, or lost an
\* answer.
THEOREM RefusedWhenOvertaken == Spec => []RefusedOnlyWhenOvertaken
<1>1. SessionInv => RefusedOnlyWhenOvertaken
  BY DEF SessionInv, OwnOK, RefusedOnlyWhenOvertaken
<1> QED
  BY <1>1, SessionInit, SessionInductive, PTL DEF Spec

----------------------------------------------------------------------------
(* PolicySync.                                                              *)

\* A list is at hand while it is applied.
HasList == step \in {"self", "peers"} => list \in DeviceList

\* SyncTypeOK is inductive together with HasList.
SyncTypeInv == SyncTypeOK /\ HasList

\* The policy under which peers are set is a policy.
LEMMA CurrentType ==
    ASSUME SyncTypeInv, step = "peers"
    PROVE  Current \in Policy
  BY DEF SyncTypeInv, SyncTypeOK, HasList, Current, Policy, DeviceList

\* Every step of server and daemon keeps the types.
LEMMA SyncTypeInductive == SyncTypeInv /\ [SyncNext]_syncVars => SyncTypeInv'
<1> SUFFICES ASSUME SyncTypeInv, [SyncNext]_syncVars PROVE SyncTypeInv'
  OBVIOUS
<1> USE PolicyConstants DEF SyncTypeInv, SyncTypeOK, HasList, Row
<1>1. CASE UNCHANGED syncVars
  BY <1>1 DEF syncVars, rowVars, daemonVars
<1>2. CASE ServerStep
  BY <1>2 DEF ServerStep, PatchSelf, DeleteSelf, PairSelf, ChangePeer, daemonVars, Active
<1>3. CASE StartDaemon
  BY <1>3 DEF StartDaemon, rowVars
<1>4. CASE Failure
  <2>1. CASE Stop
    BY <2>1 DEF Stop, Shutdown, rowVars
  <2>2. CASE FetchFails
    BY <2>2 DEF FetchFails, Shutdown, rowVars
  <2>3. CASE SavePolicyFails
    <3>1. list.self \subseteq Feature
      BY <2>3 DEF SavePolicyFails, DeviceList
    <3>2. QED
      BY <2>3, <3>1 DEF SavePolicyFails, Shutdown, FollowRow, RunningAfter, rowVars
  <2>4. QED
    BY <1>4, <2>1, <2>2, <2>3 DEF Failure
<1>5. CASE Register
  BY <1>5 DEF Register, Shutdown
<1>6. CASE Tick
  BY <1>6 DEF Tick, rowVars
<1>7. CASE FetchList
  <2>1. list' \in DeviceList
    BY <1>7 DEF FetchList, DeviceList, Active
  <2>2. QED
    BY <1>7, <2>1 DEF FetchList, rowVars
<1>8. CASE ApplySelf
  <2>1. list.self = Absent \/ list.self \subseteq Feature
    BY <1>8 DEF ApplySelf, DeviceList
  <2>2. todo' \subseteq Peer \X Feature
    BY <1>8 DEF ApplySelf, Listed
  <2>3. QED
    BY <1>8, <2>1, <2>2 DEF ApplySelf, FollowRow, RunningAfter, rowVars
<1>9. CASE \E p \in Peer, f \in Feature : SetFeatureEnabled(p, f)
  BY <1>9 DEF SetFeatureEnabled, rowVars
<1>10. CASE ReplacePeers
  <2>1. applied' \in Policy
    BY <1>10, CurrentType DEF ReplacePeers
  <2>2. QED
    BY <1>10, <2>1 DEF ReplacePeers, Listed, rowVars
<1>11. CASE Share
  BY <1>11 DEF Share, rowVars
<1>12. QED
  BY <1>1, <1>2, <1>3, <1>4, <1>5, <1>6, <1>7, <1>8, <1>9, <1>10, <1>11 DEF SyncNext, SyncStep

\* Every reachable state of server table, daemon and directory is well typed, and
\* sync_from_server is only ever at a step that its phase of run allows.
THEOREM TypeCorrect == SyncSpec => []SyncTypeOK
<1>1. SyncInit => SyncTypeInv
  BY PolicyConstants DEF SyncInit, SyncTypeInv, SyncTypeOK, HasList, Row
<1>2. QED
  BY <1>1, SyncTypeInductive, PTL DEF SyncSpec, SyncTypeInv

----------------------------------------------------------------------------
(* The directory.                                                           *)

\* OnlySharedRecipients is not inductive alone: when the peers are replaced, the
\* entries of the new ones must have been set, each as the list says.
SetAsListed ==
    step = "peers" =>
        \A p \in Listed(list), f \in Feature :
            <<p, f>> \notin todo \cup disabled => Shared(Current, p, f)

DirectoryInv == SetAsListed /\ OnlySharedRecipients

\* Steps that leave the directory and the list alone, outside apply_server_devices.
LEMMA DirectoryFrame ==
    ASSUME DirectoryInv, step # "peers", step' # "peers",
           UNCHANGED <<peers, disabled, applied>>
    PROVE  DirectoryInv'
  BY DEF DirectoryInv, SetAsListed, OnlySharedRecipients, Recipient, Shared

\* A daemon without peers has no recipients.
LEMMA NoPeers ==
    ASSUME peers' = {}, step' # "peers"
    PROVE  DirectoryInv'
  BY DEF DirectoryInv, SetAsListed, OnlySharedRecipients, Recipient

\* Every step keeps the directory within the policies.
LEMMA DirectoryInductive == SyncTypeInv /\ DirectoryInv /\ [SyncNext]_syncVars => DirectoryInv'
<1> SUFFICES ASSUME SyncTypeInv, DirectoryInv, [SyncNext]_syncVars PROVE DirectoryInv'
  OBVIOUS
<1>0. SyncTypeOK /\ HasList
  BY DEF SyncTypeInv
<1>1. CASE UNCHANGED syncVars \/ ServerStep
  <2>1. UNCHANGED daemonVars
    BY <1>1 DEF syncVars, ServerStep, PatchSelf, DeleteSelf, PairSelf, ChangePeer
  <2>2. QED
    BY <2>1 DEF daemonVars, DirectoryInv, SetAsListed, OnlySharedRecipients, Recipient,
                Shared, Current, Listed
<1>2. CASE StartDaemon
  BY <1>0, <1>2, DirectoryFrame DEF StartDaemon, SyncTypeOK
<1>3. CASE Stop
  BY <1>3, NoPeers DEF Stop, Shutdown
<1>4. CASE FetchFails \/ SavePolicyFails
  BY <1>4, NoPeers, DirectoryFrame DEF FetchFails, SavePolicyFails, Shutdown
<1>5. CASE Register
  BY <1>0, <1>5, NoPeers, DirectoryFrame DEF Register, Shutdown, SyncTypeOK
<1>6. CASE Tick \/ FetchList \/ Share
  BY <1>6, DirectoryFrame DEF Tick, FetchList, Share
<1>7. CASE ApplySelf
  <2>1. SetAsListed'
    BY <1>7 DEF ApplySelf, SetAsListed, Listed
  <2>2. OnlySharedRecipients'
    BY <1>7 DEF ApplySelf, DirectoryInv, OnlySharedRecipients, Recipient, Shared
  <2>3. QED
    BY <2>1, <2>2 DEF DirectoryInv
<1>8. ASSUME NEW p \in Peer, NEW f \in Feature, SetFeatureEnabled(p, f)
     PROVE  DirectoryInv'
  <2>1. step = "peers" /\ UNCHANGED <<step, local, peers, list, applied>>
    BY <1>8 DEF SetFeatureEnabled
  <2>2. Current' = Current
    BY <2>1 DEF Current
  <2>3. SetAsListed'
    BY <1>8, <2>1, <2>2 DEF SetFeatureEnabled, DirectoryInv, SetAsListed, Listed, Shared
  <2>4. OnlySharedRecipients'
    BY <1>8, <2>1, <2>2 DEF SetFeatureEnabled, DirectoryInv, OnlySharedRecipients,
                            Recipient, Shared
  <2>5. QED
    BY <2>3, <2>4 DEF DirectoryInv
<1>9. CASE ReplacePeers
  <2>1. Current \in Policy /\ applied' = Current /\ step = "peers" /\ step' # "peers"
    BY <1>9, CurrentType DEF ReplacePeers
  <2>2. applied' # Absent
    BY <2>1, PolicyConstants
  <2>3. \A q \in Peer, g \in Feature : Recipient(q, g)' => Shared(Current, q, g)
    BY <1>9, <2>1 DEF ReplacePeers, AllSet, DirectoryInv, SetAsListed, Recipient
  <2>4. QED
    BY <2>1, <2>2, <2>3 DEF DirectoryInv, SetAsListed, OnlySharedRecipients, Shared
<1>10. QED
  BY <1>1, <1>2, <1>3, <1>4, <1>5, <1>6, <1>7, <1>8, <1>9
  DEF SyncNext, SyncStep, Failure

\* Also in the middle of a synchronisation, and after one that failed, a peer receives
\* only features that it shares under an applied policy or the one being applied.
THEOREM OnlyShared == SyncSpec => []OnlySharedRecipients
<1>1. SyncInit => SyncTypeInv /\ DirectoryInv
  BY PolicyConstants DEF SyncInit, SyncTypeInv, SyncTypeOK, HasList, Row, DirectoryInv,
                         SetAsListed, OnlySharedRecipients, Recipient
<1>2. SyncTypeInv /\ DirectoryInv /\ [SyncNext]_syncVars => (SyncTypeInv /\ DirectoryInv)'
  BY SyncTypeInductive, DirectoryInductive
<1>3. QED
  BY <1>1, <1>2, PTL DEF SyncSpec, DirectoryInv

\* In a running daemon the features that run are those the registry has enabled.
THEOREM EnabledRuns == SyncSpec => []EnabledIsRunning
<1>1. SyncInit => EnabledIsRunning
  BY DEF SyncInit, EnabledIsRunning
<1>2. EnabledIsRunning /\ [SyncNext]_syncVars => EnabledIsRunning'
  <2> SUFFICES ASSUME EnabledIsRunning, [SyncNext]_syncVars PROVE EnabledIsRunning'
    OBVIOUS
  <2> USE DEF EnabledIsRunning
  <2>1. CASE UNCHANGED syncVars \/ ServerStep
    BY <2>1 DEF syncVars, daemonVars, ServerStep, PatchSelf, DeleteSelf, PairSelf, ChangePeer
  <2>2. CASE StartDaemon \/ Failure
    BY <2>2 DEF StartDaemon, Failure, Stop, FetchFails, SavePolicyFails, Shutdown, FollowRow,
                RunningAfter
  <2>3. CASE Register \/ Tick \/ FetchList \/ Share
    BY <2>3 DEF Register, Shutdown, Tick, FetchList, Share
  <2>4. CASE ApplySelf
    BY <2>4 DEF ApplySelf, FollowRow, RunningAfter
  <2>5. CASE \E p \in Peer, f \in Feature : SetFeatureEnabled(p, f)
    BY <2>5 DEF SetFeatureEnabled
  <2>6. CASE ReplacePeers
    BY <2>6 DEF ReplacePeers
  <2>7. QED
    BY <2>1, <2>2, <2>3, <2>4, <2>5, <2>6 DEF SyncNext, SyncStep
<1>3. QED
  BY <1>1, <1>2, PTL DEF SyncSpec
=============================================================================
