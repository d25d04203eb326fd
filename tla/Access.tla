-------------------------------- MODULE Access --------------------------------
(***************************************************************************)
(* Who may act where (api/brain/access.py, identity.py, sessions.py,       *)
(* credentials.py, auth_api.py, main.py): people with sessions and         *)
(* memberships, hashed machine keys, and the owner token with its grants.  *)
(*                                                                         *)
(* A request is resolved to a workspace and a role first and commits what  *)
(* it does later; claiming a workspace that has no members reads them      *)
(* first and adds the owner later.  A credential is named by whom or what  *)
(* it identifies; the sessions of one person are not told apart.           *)
(***************************************************************************)
EXTENDS Naturals, FiniteSets

CONSTANTS User, Key,
          OwnerToken,  \* the configured owner token
          Workspace,
          Default,     \* the workspace every deployment starts with
          NoSlug,      \* a request that names no workspace
          Scopes,      \* the scope lists that keys are minted with
          Request,     \* bound: requests in flight
          MaxEvents    \* bound: expiries, restarts and acts of the operator

ASSUME AccessAssumption ==
  /\ Default \in Workspace /\ NoSlug \notin Workspace
  /\ User \cap Key = {} /\ OwnerToken \notin User \cup Key
  /\ \A scopes \in Scopes : scopes \subseteq {"admin", "brain:read"}
  /\ MaxEvents \in Nat

VARIABLES user,        \* users.is_active
          session,     \* user_sessions
          member,      \* workspace_members.role
          key,         \* api_credentials and their scopes
          grants,      \* workspace_grants: all are of owners and none expires
          workspaces,
          request,     \* per request: where its handler is and what it has read
          events

people == <<user, session, member>>
accounts == <<user, session, member, key, grants, workspaces>>
vars == <<accounts, request, events>>

Role       == {"owner", "admin", "member"}
Principal  == User \cup Key \cup {OwnerToken}
NoKey      == [state |-> "none"]
Minted     == [state : {"live", "expired", "revoked"}, workspace : Workspace,
               role : Role, scopes : Scopes]
Idle       == [at |-> "idle"]
IsAt(s, stage) == request[s].at = stage
Goes(s, to)    == request' = [request EXCEPT ![s] = to]

Handler ==
  {Idle}
  \cup [at : {"granted"}, by : Principal, in : Workspace]
  \cup [at : {"claiming"}, by : User]

AccountsOK ==
  /\ user \in [User -> {"unknown", "active", "inactive"}]
  /\ session \in [User -> {"none", "live", "expired"}]
  /\ member \in [Workspace -> [User -> {"none"} \cup Role]]
  /\ key \in [Key -> {NoKey} \cup Minted]
  /\ grants \subseteq Workspace \X Principal
  /\ workspaces \subseteq Workspace /\ Default \in workspaces
  /\ events \in 0..MaxEvents

TypeOK == AccountsOK /\ request \in [Request -> Handler]

Init ==
  /\ user = [u \in User |-> "unknown"]
  /\ session = [u \in User |-> "none"]
  /\ member = [w \in Workspace |-> [u \in User |-> "none"]]
  /\ key = [k \in Key |-> NoKey]
  /\ grants = {<<Default, OwnerToken>>}
  /\ workspaces = {Default}
  /\ request = [s \in Request |-> Idle]
  /\ events = 0

-----------------------------------------------------------------------------
(* Resolving a credential.  Every set of workspaces here has at most one   *)
(* element: a request is resolved to one workspace or refused.             *)

SignedIn(u) == session[u] = "live" /\ user[u] = "active"

KeyLiveIfUnrevoked(k) == key[k].state \in {"live", "expired"}   \* slip: expiry is not looked at
KeyLive(k) == key[k].state = "live"

\* With one workspace in reach it is implied, with several it must be named.
Implied(reach, slug) ==
  IF slug = NoSlug THEN IF Cardinality(reach) = 1 THEN reach ELSE {}
  ELSE reach \cap {slug}

Reach(c) ==
  CASE c \in Key  -> {w \in workspaces : KeyLive(c) /\ key[c].workspace = w}
    [] c \in User -> {w \in workspaces : SignedIn(c) /\ member[w][c] # "none"}
    [] OTHER      -> {w \in workspaces : <<w, c>> \in grants}

Resolved(c, slug) == Implied(Reach(c), slug)

RoleIn(c, w) ==
  CASE c \in Key  -> key[c].role
    [] c \in User -> member[w][c]
    [] OTHER      -> "owner"

\* The empty list stands for no restriction.
ScopesOf(c) == IF c \in Key THEN key[c].scopes ELSE {}
HasScope(c, needed) == ScopesOf(c) = {} \/ ScopesOf(c) \cap {"admin", needed} # {}

CanAdminister(c, w) ==
  /\ RoleIn(c, w) \in {"owner", "admin"}
  /\ ScopesOf(c) = {} \/ "admin" \in ScopesOf(c)

-----------------------------------------------------------------------------
(* People.                                                                 *)

\* Signing in grants no reach: a member is made by a claim or an invitation.
Login(u) ==
  /\ user' = [user EXCEPT ![u] = IF @ = "unknown" THEN "active" ELSE @]
  /\ session' = [session EXCEPT ![u] = "live"]
  /\ UNCHANGED <<member, key, grants, workspaces, request, events>>

Logout(u) ==
  /\ session[u] # "none"
  /\ session' = [session EXCEPT ![u] = "none"]
  /\ UNCHANGED <<user, member, key, grants, workspaces, request, events>>

HasMembers(w) == \E u \in User : member[w][u] # "none"
UnclaimedByActive(w) ==                    \* slip: members who cannot sign in do not count
  \A u \in User : member[w][u] = "none" \/ user[u] # "active"
Unclaimed(w) == ~HasMembers(w)

LoadBootstrap(s, u) ==
  /\ IsAt(s, "idle") /\ SignedIn(u) /\ Unclaimed(Default)
  /\ Goes(s, [at |-> "claiming", by |-> u])
  /\ UNCHANGED <<accounts, events>>

CommitBootstrap(s) ==
  /\ IsAt(s, "claiming")
  /\ member' = [member EXCEPT ![Default][request[s].by] = "owner"]
  /\ Goes(s, Idle)
  /\ UNCHANGED <<user, session, key, grants, workspaces, events>>

-----------------------------------------------------------------------------
(* Administering a workspace.                                              *)

\* The credential is resolved when the request arrives, and not again.
Grant(s, c, slug) ==
  /\ IsAt(s, "idle")
  /\ \E w \in Resolved(c, slug) :
       /\ CanAdminister(c, w) /\ HasScope(c, "admin")
       /\ Goes(s, [at |-> "granted", by |-> c, in |-> w])
  /\ UNCHANGED <<accounts, events>>

\* A credential of another workspace is reported as not there.
Anywhere(s, w) == TRUE                     \* slip: the workspace is not compared
Its(s, w) == request[s].in = w

MintKey(s, k, w, role, scopes) ==
  /\ IsAt(s, "granted") /\ Its(s, w) /\ key[k] = NoKey
  /\ key' = [key EXCEPT ![k] = [state |-> "live", workspace |-> w,
                                role |-> role, scopes |-> scopes]]
  /\ Goes(s, Idle)
  /\ UNCHANGED <<people, grants, workspaces, events>>

RevokedMisspelt == "ended"                 \* slip: a word no test knows
Revoked == "revoked"

RevokeKey(s, k) ==
  /\ IsAt(s, "granted") /\ key[k].state \in {"live", "expired"} /\ Its(s, key[k].workspace)
  /\ key' = [key EXCEPT ![k].state = Revoked]
  /\ Goes(s, Idle)
  /\ UNCHANGED <<people, grants, workspaces, events>>

RevokeGrant(s, w, c) ==
  /\ IsAt(s, "granted") /\ Its(s, w) /\ <<w, c>> \in grants
  /\ grants' = grants \ {<<w, c>>}
  /\ Goes(s, Idle)
  /\ UNCHANGED <<people, key, workspaces, events>>

\* The grant is of the caller's principal, which only for the owner token is
\* also the credential.
CreateWorkspace(s, w) ==
  /\ IsAt(s, "granted") /\ w \notin workspaces
  /\ workspaces' = workspaces \cup {w}
  /\ grants' = grants \cup {<<w, request[s].by>>}
  /\ Goes(s, Idle)
  /\ UNCHANGED <<people, key, events>>

\* Refused, or the client or the process is gone.
Dies(s) ==
  /\ ~IsAt(s, "idle")
  /\ Goes(s, Idle)
  /\ UNCHANGED <<accounts, events>>

-----------------------------------------------------------------------------
(* Time, restarts and the operator.                                        *)

Event == events < MaxEvents /\ events' = events + 1

SessionExpires(u) ==
  /\ Event /\ session[u] = "live"
  /\ session' = [session EXCEPT ![u] = "expired"]
  /\ UNCHANGED <<user, member, key, grants, workspaces, request>>

KeyExpires(k) ==
  /\ Event /\ key[k].state = "live"
  /\ key' = [key EXCEPT ![k].state = "expired"]
  /\ UNCHANGED <<people, grants, workspaces, request>>

\* Every start gives the configured token its grant.
StartUp == grants' = grants \cup {<<Default, OwnerToken>>}

Restart ==
  /\ Event /\ StartUp
  /\ request' = [s \in Request |-> Idle]
  /\ UNCHANGED <<people, key, workspaces>>

\* No route invites or deactivates a person yet.
Invite(u, w, role) ==
  /\ Event /\ user[u] # "unknown" /\ w \in workspaces
  /\ member' = [member EXCEPT ![w][u] = role]
  /\ UNCHANGED <<user, session, key, grants, workspaces, request>>

Deactivate(u) ==
  /\ Event /\ user[u] = "active"
  /\ user' = [user EXCEPT ![u] = "inactive"]
  /\ UNCHANGED <<session, member, key, grants, workspaces, request>>

People ==
  \/ \E u \in User : Login(u) \/ Logout(u)
  \/ \E s \in Request : CommitBootstrap(s) \/ \E u \in User : LoadBootstrap(s, u)

Administers(s) ==
  \/ \E c \in Principal, slug \in Workspace \cup {NoSlug} : Grant(s, c, slug)
  \/ \E k \in Key :
       RevokeKey(s, k) \/ \E w \in workspaces, role \in Role, scopes \in Scopes :
                            MintKey(s, k, w, role, scopes)
  \/ \E w \in Workspace, c \in Principal : RevokeGrant(s, w, c)
  \/ \E w \in Workspace : CreateWorkspace(s, w)

World ==
  \/ Restart
  \/ \E u \in User : SessionExpires(u) \/ Deactivate(u)
  \/ \E u \in User, w \in Workspace, role \in Role : Invite(u, w, role)
  \/ \E k \in Key : KeyExpires(k)

Next == People \/ World \/ \E s \in Request : Administers(s) \/ Dies(s)

Spec == Init /\ [][Next]_vars

-----------------------------------------------------------------------------
(* Properties.                                                             *)

Claiming == \E s \in Request : IsAt(s, "claiming")

ClaimedOnce == HasMembers(Default) /\ ~Claiming => HasMembers(Default)' /\ ~Claiming'

\* A request is let in for credential c.
Opened(c) == \E s \in Request : IsAt(s, "idle") /\ request'[s] # request[s] /\ request'[s].by = c

KeysEnd ==
  \A k \in Key : key[k].state \in {"expired", "revoked"} =>
                  key'[k].state \in {key[k].state, "revoked"} /\ ~Opened(k)

PeopleEnd == \A u \in User : user[u] = "inactive" => ~Opened(u)

\* What has ended stays ended.  A workspace is claimed "only once": with a
\* member and no claim under way, whoever left or was shut out since, nobody
\* can begin a claim again.  A key that expired or was revoked is never live
\* again and opens no request, and a person who was deactivated opens none.
EndedStaysEnded == [][ClaimedOnce /\ KeysEnd /\ PeopleEnd]_vars

KeysOf(w)   == {<<k, key[k]>> : k \in {j \in Key : key[j] # NoKey /\ key[j].workspace = w}}
GrantsOf(w) == {c \in Principal : <<w, c>> \in grants}

LetInTo(w) == \E s \in Request : IsAt(s, "granted") /\ request[s].in = w /\ request'[s] = Idle

OwnHand ==
  \A w \in Workspace : KeysOf(w)' # KeysOf(w) \/ GrantsOf(w)' # GrantsOf(w) =>
    events' = events + 1 \/ w \in workspaces' \ workspaces \/ LetInTo(w)

\* The keys and grants of a workspace change only at the hand of a request
\* that was let in to administer that very workspace, or by time or a start.
OwnAffairs == [][OwnHand]_vars
=============================================================================
