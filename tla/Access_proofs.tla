---------------------------- MODULE Access_proofs -----------------------------
(***************************************************************************)
(* Access for any number of people, keys, workspaces and requests.  What   *)
(* is promised is of single steps, so types are the whole invariant; the   *)
(* work is in what a resolved credential must have been (Reached).         *)
(***************************************************************************)
EXTENDS Access, TLAPS

LEMMA IdleHandler == Idle \in Handler
BY DEF Handler

LEMMA Going ==
  ASSUME TypeOK, NEW s \in Request, NEW h \in Handler, Goes(s, h)
  PROVE  request' \in [Request -> Handler] /\ request'[s] = h
         /\ \A t \in Request \ {s} : request'[t] = request[t]
BY DEF TypeOK, Goes

LEMMA AtClaiming ==
  ASSUME TypeOK, NEW s \in Request, IsAt(s, "claiming")
  PROVE  request[s].by \in User
<1>1. request[s] \in Handler
  BY DEF TypeOK
<1> QED BY <1>1 DEF IsAt, Handler, Idle

LEMMA AtGranted ==
  ASSUME TypeOK, NEW s \in Request, IsAt(s, "granted")
  PROVE  request[s].by \in Principal /\ request[s].in \in Workspace
<1>1. request[s] \in Handler
  BY DEF TypeOK
<1> QED BY <1>1 DEF IsAt, Handler, Idle

LEMMA AtIdle ==
  ASSUME TypeOK, NEW s \in Request, IsAt(s, "idle")
  PROVE  request[s] = Idle
<1>1. request[s] \in Handler
  BY DEF TypeOK
<1> QED BY <1>1 DEF IsAt, Handler, Idle

LEMMA KeyMinted ==
  ASSUME TypeOK, NEW k \in Key, key[k].state # "none"
  PROVE  key[k] \in Minted
<1>1. key[k] \in {NoKey} \cup Minted
  BY DEF TypeOK, AccountsOK
<1> QED BY <1>1 DEF NoKey

\* A credential that was resolved is a live key, somebody signed in, or the
\* owner token.
LEMMA Reached ==
  ASSUME NEW c \in Principal, NEW slug, NEW w \in Resolved(c, slug)
  PROVE  /\ w \in workspaces
         /\ c \in Key => KeyLive(c)
         /\ c \in User => SignedIn(c)
<1>1. w \in Reach(c)
  BY DEF Resolved, Implied
<1>2. CASE c \in Key
  BY <1>1, <1>2, AccessAssumption DEF Reach
<1>3. CASE c \in User
  BY <1>1, <1>3, AccessAssumption DEF Reach
<1>4. CASE c = OwnerToken
  BY <1>1, <1>4, AccessAssumption DEF Reach
<1> QED BY <1>2, <1>3, <1>4 DEF Principal

-----------------------------------------------------------------------------
(* Types.                                                                  *)

LEMMA TypeKept == TypeOK /\ [Next]_vars => TypeOK'
<1> SUFFICES ASSUME TypeOK, [Next]_vars PROVE TypeOK'
  OBVIOUS
<1>1. CASE UNCHANGED vars
  BY <1>1 DEF TypeOK, AccountsOK, vars, accounts
<1>2. ASSUME NEW u \in User, Login(u) \/ Logout(u) PROVE TypeOK'
  BY <1>2 DEF TypeOK, AccountsOK, Login, Logout
<1>3. ASSUME NEW s \in Request, NEW u \in User, LoadBootstrap(s, u) PROVE TypeOK'
  <2>1. [at |-> "claiming", by |-> u] \in Handler
    BY DEF Handler
  <2> QED BY <1>3, <2>1, Going DEF TypeOK, AccountsOK, LoadBootstrap, accounts
<1>4. ASSUME NEW s \in Request, CommitBootstrap(s) PROVE TypeOK'
  <2>1. request[s].by \in User
    BY <1>4, AtClaiming DEF CommitBootstrap
  <2>2. member' \in [Workspace -> [User -> {"none"} \cup Role]]
    BY <1>4, <2>1, AccessAssumption DEF TypeOK, AccountsOK, CommitBootstrap, Role
  <2>3. request' \in [Request -> Handler]
    BY <1>4, Going, IdleHandler DEF CommitBootstrap
  <2> QED BY <1>4, <2>2, <2>3 DEF TypeOK, AccountsOK, CommitBootstrap
<1>5. ASSUME NEW s \in Request, NEW c \in Principal, NEW slug, Grant(s, c, slug) PROVE TypeOK'
  <2>1. PICK w \in Resolved(c, slug) : Goes(s, [at |-> "granted", by |-> c, in |-> w])
    BY <1>5 DEF Grant
  <2>2. w \in Workspace
    BY <2>1, Reached DEF TypeOK, AccountsOK
  <2>3. [at |-> "granted", by |-> c, in |-> w] \in Handler
    BY <2>2 DEF Handler
  <2> QED BY <1>5, <2>1, <2>3, Going DEF TypeOK, AccountsOK, Grant, accounts
<1>6. ASSUME NEW s \in Request, NEW k \in Key, NEW w \in workspaces, NEW role \in Role,
             NEW scopes \in Scopes, MintKey(s, k, w, role, scopes)
      PROVE  TypeOK'
  <2>1. [state |-> "live", workspace |-> w, role |-> role, scopes |-> scopes] \in Minted
    BY DEF Minted, TypeOK, AccountsOK
  <2>2. key' \in [Key -> {NoKey} \cup Minted]
    BY <1>6, <2>1 DEF TypeOK, AccountsOK, MintKey
  <2> QED BY <1>6, <2>2, Going, IdleHandler DEF TypeOK, AccountsOK, MintKey, people
<1>7. ASSUME NEW s \in Request, NEW k \in Key, RevokeKey(s, k) PROVE TypeOK'
  <2>1. key[k] \in Minted
    BY <1>7, KeyMinted DEF RevokeKey
  <2>2. [key[k] EXCEPT !.state = Revoked] \in Minted
    BY <2>1 DEF Minted, Revoked
  <2>3. key' \in [Key -> {NoKey} \cup Minted]
    BY <1>7, <2>2 DEF TypeOK, AccountsOK, RevokeKey
  <2> QED BY <1>7, <2>3, Going, IdleHandler DEF TypeOK, AccountsOK, RevokeKey, people
<1>8. ASSUME NEW s \in Request, NEW w \in Workspace, NEW c \in Principal, RevokeGrant(s, w, c)
      PROVE  TypeOK'
  BY <1>8, Going, IdleHandler DEF TypeOK, AccountsOK, RevokeGrant, people
<1>9. ASSUME NEW s \in Request, NEW w \in Workspace, CreateWorkspace(s, w) PROVE TypeOK'
  <2>1. request[s].by \in Principal
    BY <1>9, AtGranted DEF CreateWorkspace
  <2> QED BY <1>9, <2>1, Going, IdleHandler DEF TypeOK, AccountsOK, CreateWorkspace, people
<1>10. ASSUME NEW s \in Request, Dies(s) PROVE TypeOK'
  BY <1>10, Going, IdleHandler DEF TypeOK, AccountsOK, Dies, accounts
<1>11. CASE World
  <2> USE AccessAssumption
  <2>1. CASE Restart
    <3>1. grants' \subseteq Workspace \X Principal
      BY <2>1 DEF Restart, StartUp, TypeOK, AccountsOK, Principal
    <3>2. request' \in [Request -> Handler]
      BY <2>1, IdleHandler DEF Restart
    <3> QED BY <2>1, <3>1, <3>2 DEF TypeOK, AccountsOK, Restart, Event, people
  <2>2. ASSUME NEW u \in User, SessionExpires(u) \/ Deactivate(u) PROVE TypeOK'
    BY <2>2 DEF TypeOK, AccountsOK, SessionExpires, Deactivate, Event
  <2>3. ASSUME NEW u \in User, NEW w \in Workspace, NEW role \in Role, Invite(u, w, role)
        PROVE  TypeOK'
    <3>1. member' \in [Workspace -> [User -> {"none"} \cup Role]]
      BY <2>3 DEF TypeOK, AccountsOK, Invite
    <3> QED BY <2>3, <3>1 DEF TypeOK, AccountsOK, Invite, Event
  <2>4. ASSUME NEW k \in Key, KeyExpires(k) PROVE TypeOK'
    <3>1. key[k] \in Minted
      BY <2>4, KeyMinted DEF KeyExpires
    <3>2. [key[k] EXCEPT !.state = "expired"] \in Minted
      BY <3>1 DEF Minted
    <3>3. key' \in [Key -> {NoKey} \cup Minted]
      BY <2>4, <3>2 DEF TypeOK, AccountsOK, KeyExpires
    <3> QED BY <2>4, <3>3 DEF TypeOK, AccountsOK, KeyExpires, Event, people
  <2> QED BY <1>11, <2>1, <2>2, <2>3, <2>4 DEF World
<1> QED BY <1>1, <1>2, <1>3, <1>4, <1>5, <1>6, <1>7, <1>8, <1>9, <1>10, <1>11
        DEF Next, People, Administers

LEMMA Invariance == Spec => []TypeOK
<1>1. Init => TypeOK
  <2> SUFFICES ASSUME Init PROVE TypeOK
    OBVIOUS
  <2>1. grants \subseteq Workspace \X Principal
    BY AccessAssumption DEF Init, Principal
  <2> QED BY <2>1, AccessAssumption, IdleHandler DEF Init, TypeOK, AccountsOK
<1> QED BY <1>1, TypeKept, PTL DEF Spec

-----------------------------------------------------------------------------
(* What has ended.                                                         *)

\* Only a credential that resolves now, or somebody signed in now, opens a
\* request.
LEMMA OnlyLiveOpen ==
  ASSUME TypeOK, Next, NEW c \in User \cup Key, Opened(c)
  PROVE  (c \in Key => KeyLive(c)) /\ (c \in User => SignedIn(c))
<1> USE AccessAssumption
<1>1. PICK s \in Request : IsAt(s, "idle") /\ request'[s] # request[s] /\ request'[s].by = c
  BY DEF Opened
<1>2. request[s] = Idle
  BY <1>1, AtIdle
<1>3. ASSUME NEW t \in Request, Goes(t, Idle) PROVE FALSE
  <2>1. request'[s] = Idle \/ request'[s] = request[s]
    BY <1>3, Going, IdleHandler
  <2> QED BY <1>1, <1>2, <2>1
<1>4. request' # request
  BY <1>1
<1>5. CASE \E t \in Request, u \in User : LoadBootstrap(t, u)
  <2>1. PICK t \in Request, u \in User : LoadBootstrap(t, u)
    BY <1>5
  <2>2. [at |-> "claiming", by |-> u] \in Handler
    BY DEF Handler
  <2>3. t = s /\ request'[s] = [at |-> "claiming", by |-> u]
    BY <1>1, <2>1, <2>2, Going DEF LoadBootstrap
  <2>4. c = u
    BY <1>1, <2>3
  <2> QED BY <2>1, <2>4 DEF LoadBootstrap
<1>6. CASE \E t \in Request, d \in Principal, slug \in Workspace \cup {NoSlug} : Grant(t, d, slug)
  <2>1. PICK t \in Request, d \in Principal, slug \in Workspace \cup {NoSlug} : Grant(t, d, slug)
    BY <1>6
  <2>2. PICK w \in Resolved(d, slug) : Goes(t, [at |-> "granted", by |-> d, in |-> w])
    BY <2>1 DEF Grant
  <2>3. w \in Workspace
    BY <2>2, Reached DEF TypeOK, AccountsOK
  <2>4. [at |-> "granted", by |-> d, in |-> w] \in Handler
    BY <2>3 DEF Handler
  <2>5. t = s /\ request'[s] = [at |-> "granted", by |-> d, in |-> w]
    BY <1>1, <2>2, <2>4, Going
  <2>6. c = d
    BY <1>1, <2>5
  <2> QED BY <2>2, <2>6, Reached
<1>7. ~Restart
  <2>1. Restart => request'[s] = Idle
    BY DEF Restart
  <2> QED BY <1>1, <1>2, <2>1
<1>8. CASE People \/ World
  BY <1>3, <1>4, <1>5, <1>7, <1>8 DEF People, World, Login, Logout, CommitBootstrap,
     SessionExpires, Deactivate, Invite, KeyExpires
<1>9. CASE \E t \in Request : Administers(t) \/ Dies(t)
  BY <1>3, <1>6, <1>9 DEF Administers, MintKey, RevokeKey, RevokeGrant, CreateWorkspace, Dies
<1> QED BY <1>8, <1>9 DEF Next

\* Members only become more, and a claim begins only without any.
LEMMA ClaimKept == TypeOK /\ Next => ClaimedOnce
<1> SUFFICES ASSUME TypeOK, Next, HasMembers(Default), ~Claiming
             PROVE  HasMembers(Default)' /\ ~Claiming'
  BY DEF ClaimedOnce
<1> USE AccessAssumption
<1>1. ASSUME NEW s \in Request, Goes(s, Idle) PROVE ~Claiming'
  <2>1. \A t \in Request : request'[t] = Idle \/ request'[t] = request[t]
    BY <1>1, Going, IdleHandler
  <2> QED BY <2>1 DEF Claiming, IsAt, Idle
<1>2. ASSUME member' = member PROVE HasMembers(Default)'
  BY <1>2 DEF HasMembers
<1>3. ASSUME request' = request PROVE ~Claiming'
  BY <1>3 DEF Claiming, IsAt
<1>4. CASE People
  <2>1. ASSUME NEW s \in Request, CommitBootstrap(s) PROVE FALSE
    BY <2>1 DEF CommitBootstrap, Claiming
  <2>2. ASSUME NEW s \in Request, NEW u \in User, LoadBootstrap(s, u) PROVE FALSE
    BY <2>2 DEF LoadBootstrap, Unclaimed
  <2> QED BY <1>2, <1>3, <1>4, <2>1, <2>2 DEF People, Login, Logout
<1>5. CASE World
  <2>1. ASSUME NEW u \in User, NEW w \in Workspace, NEW role \in Role, Invite(u, w, role)
        PROVE  HasMembers(Default)'
    <3>1. PICK v \in User : member[Default][v] # "none"
      BY DEF HasMembers
    <3>2. member'[Default][v] # "none"
      BY <2>1, <3>1 DEF Invite, TypeOK, AccountsOK, Role
    <3> QED BY <3>2 DEF HasMembers
  <2>2. ASSUME Restart PROVE ~Claiming'
    BY <2>2 DEF Restart, Claiming, IsAt, Idle
  <2> QED BY <1>2, <1>3, <1>5, <2>1, <2>2 DEF World, Invite, Restart, SessionExpires, Deactivate,
             KeyExpires, people
<1>6. ASSUME NEW s \in Request, Administers(s) \/ Dies(s) PROVE HasMembers(Default)' /\ ~Claiming'
  <2>1. ASSUME NEW c \in Principal, NEW slug, Grant(s, c, slug) PROVE ~Claiming'
    <3>1. PICK w \in Resolved(c, slug) : Goes(s, [at |-> "granted", by |-> c, in |-> w])
      BY <2>1 DEF Grant
    <3>2. [at |-> "granted", by |-> c, in |-> w] \in Handler
      BY <3>1, Reached DEF Handler, TypeOK, AccountsOK
    <3>3. \A t \in Request : request'[t].at = "granted" \/ request'[t] = request[t]
      BY <3>1, <3>2, Going
    <3> QED BY <3>3 DEF Claiming, IsAt
  <2>2. member' = member
    BY <1>6 DEF Administers, Grant, MintKey, RevokeKey, RevokeGrant, CreateWorkspace, Dies,
                people, accounts
  <2> QED BY <1>1, <1>2, <1>6, <2>1, <2>2 DEF Administers, MintKey, RevokeKey, RevokeGrant,
             CreateWorkspace, Dies
<1> QED BY <1>4, <1>5, <1>6 DEF Next

\* The states of a key have one direction.
LEMMA KeysKept ==
  ASSUME TypeOK, Next, NEW k \in Key, key[k].state \in {"expired", "revoked"}
  PROVE  key'[k].state \in {key[k].state, "revoked"}
<1>1. ASSUME NEW s \in Request, NEW j \in Key, RevokeKey(s, j)
      PROVE  key'[k].state \in {key[k].state, "revoked"}
  <2>1. CASE j = k
    <3>1. key[k] \in Minted
      BY KeyMinted
    <3> QED BY <1>1, <2>1, <3>1 DEF RevokeKey, Revoked, TypeOK, AccountsOK, Minted
  <2>2. CASE j # k
    BY <1>1, <2>2 DEF RevokeKey, TypeOK, AccountsOK
  <2> QED BY <2>1, <2>2
<1>2. ASSUME NEW s \in Request, NEW j \in Key, NEW w \in workspaces, NEW role \in Role,
             NEW scopes \in Scopes, MintKey(s, j, w, role, scopes)
      PROVE  key'[k] = key[k]
  BY <1>2 DEF MintKey, NoKey, TypeOK, AccountsOK
<1>3. ASSUME NEW j \in Key, KeyExpires(j) PROVE key'[k] = key[k]
  BY <1>3 DEF KeyExpires, TypeOK, AccountsOK
<1>4. CASE People
  BY <1>4 DEF People, Login, Logout, CommitBootstrap, LoadBootstrap, accounts
<1>5. CASE World
  BY <1>3, <1>5 DEF World, Restart, SessionExpires, Deactivate, Invite, people
<1>6. ASSUME NEW s \in Request, Administers(s) \/ Dies(s)
      PROVE  key'[k].state \in {key[k].state, "revoked"}
  BY <1>1, <1>2, <1>6 DEF Administers, Grant, RevokeGrant, CreateWorkspace, Dies, accounts, people
<1> QED BY <1>4, <1>5, <1>6 DEF Next

-----------------------------------------------------------------------------
(* A workspace's own affairs.                                              *)

LEMMA OwnKept == TypeOK /\ Next => OwnHand
<1> SUFFICES ASSUME TypeOK, Next, NEW w \in Workspace,
                    KeysOf(w)' # KeysOf(w) \/ GrantsOf(w)' # GrantsOf(w)
             PROVE  events' = events + 1 \/ w \in workspaces' \ workspaces \/ LetInTo(w)
  BY DEF OwnHand
<1>1. key' # key \/ grants' # grants
  BY DEF KeysOf, GrantsOf
<1>2. CASE People
  BY <1>1, <1>2 DEF People, Login, Logout, CommitBootstrap, LoadBootstrap, accounts
<1>3. CASE World
  BY <1>3 DEF World, Restart, SessionExpires, Deactivate, Invite, KeyExpires, Event
<1>4. ASSUME NEW s \in Request, NEW k \in Key, NEW v \in workspaces, NEW role \in Role,
             NEW scopes \in Scopes, MintKey(s, k, v, role, scopes)
      PROVE  LetInTo(w)
  <2>1. request'[s] = Idle
    BY <1>4, Going, IdleHandler DEF MintKey
  <2>2. v = w
    <3> SUFFICES ASSUME v # w PROVE FALSE
      OBVIOUS
    <3>1. \A j \in Key : j # k => key'[j] = key[j]
      BY <1>4 DEF MintKey, TypeOK, AccountsOK
    <3>2. key[k] = NoKey /\ key'[k].workspace = v
      BY <1>4 DEF MintKey, TypeOK, AccountsOK
    <3>3. KeysOf(w)' = KeysOf(w)
      BY <3>1, <3>2 DEF KeysOf
    <3>4. GrantsOf(w)' = GrantsOf(w)
      BY <1>4 DEF GrantsOf, MintKey
    <3> QED BY <3>3, <3>4
  <2> QED BY <1>4, <2>1, <2>2 DEF LetInTo, MintKey, Its
<1>5. ASSUME NEW s \in Request, NEW k \in Key, RevokeKey(s, k) PROVE LetInTo(w)
  <2>1. request'[s] = Idle
    BY <1>5, Going, IdleHandler DEF RevokeKey
  <2>2. key[k].workspace = w
    <3> SUFFICES ASSUME key[k].workspace # w PROVE FALSE
      OBVIOUS
    <3>1. \A j \in Key : j # k => key'[j] = key[j]
      BY <1>5 DEF RevokeKey, TypeOK, AccountsOK
    <3>2. key[k] \in Minted
      BY <1>5, KeyMinted DEF RevokeKey
    <3>3. key'[k].workspace = key[k].workspace
      BY <1>5, <3>2 DEF RevokeKey, TypeOK, AccountsOK, Minted
    <3>4. KeysOf(w)' = KeysOf(w)
      BY <3>1, <3>3 DEF KeysOf
    <3>5. GrantsOf(w)' = GrantsOf(w)
      BY <1>5 DEF GrantsOf, RevokeKey
    <3> QED BY <3>4, <3>5
  <2> QED BY <1>5, <2>1, <2>2 DEF LetInTo, RevokeKey, Its
<1>6. ASSUME NEW s \in Request, NEW v \in Workspace, NEW c \in Principal, RevokeGrant(s, v, c)
      PROVE  LetInTo(w)
  <2>1. request'[s] = Idle
    BY <1>6, Going, IdleHandler DEF RevokeGrant
  <2>2. KeysOf(w)' = KeysOf(w)
    BY <1>6 DEF RevokeGrant, KeysOf
  <2>3. v = w
    BY <1>6, <2>2 DEF RevokeGrant, GrantsOf
  <2> QED BY <1>6, <2>1, <2>3 DEF LetInTo, RevokeGrant, Its
<1>7. ASSUME NEW s \in Request, NEW v \in Workspace, CreateWorkspace(s, v)
      PROVE  w \in workspaces' \ workspaces
  <2>1. KeysOf(w)' = KeysOf(w)
    BY <1>7 DEF CreateWorkspace, KeysOf
  <2>2. v = w
    BY <1>7, <2>1 DEF CreateWorkspace, GrantsOf
  <2> QED BY <1>7, <2>2 DEF CreateWorkspace
<1>8. ASSUME NEW s \in Request, Administers(s) \/ Dies(s)
      PROVE  w \in workspaces' \ workspaces \/ LetInTo(w)
  BY <1>1, <1>4, <1>5, <1>6, <1>7, <1>8 DEF Administers, Grant, Dies, accounts
<1> QED BY <1>2, <1>3, <1>8 DEF Next

-----------------------------------------------------------------------------
(* The theorems.                                                           *)

\* Accounts, credentials, grants and requests in flight keep their types
\* (access.py, identity.py, sessions.py, credentials.py).
THEOREM AccessTypeCorrect == Spec => []TypeOK
BY Invariance

\* Whoever acts in whatever order, a claimed workspace is not claimed again, a
\* key that ended is not live again, and neither it nor a deactivated person
\* is let in (bootstrap, authenticate_key, resolve_session).
THEOREM EndsForGood == Spec => EndedStaysEnded
<1>1. TypeOK /\ [Next]_vars => [ClaimedOnce /\ KeysEnd /\ PeopleEnd]_vars
  <2> SUFFICES ASSUME TypeOK, Next PROVE ClaimedOnce /\ KeysEnd /\ PeopleEnd
    OBVIOUS
  <2>1. ClaimedOnce
    BY ClaimKept
  <2>2. KeysEnd
    BY KeysKept, OnlyLiveOpen DEF KeysEnd, KeyLive
  <2>3. PeopleEnd
    BY OnlyLiveOpen DEF PeopleEnd, SignedIn
  <2> QED BY <2>1, <2>2, <2>3
<1> QED BY <1>1, Invariance, PTL DEF Spec, EndedStaysEnded

\* No request that was let in to one workspace touches the keys or grants of
\* another (credentials_api.py, main.py).
THEOREM Enclosed == Spec => OwnAffairs
<1>1. TypeOK /\ [Next]_vars => [OwnHand]_vars
  BY OwnKept
<1> QED BY <1>1, Invariance, PTL DEF Spec, OwnAffairs
=============================================================================
