-------------------------------- MODULE OAuth ---------------------------------
(***************************************************************************)
(* The OAuth provider of the hosted MCP server (api/brain/mcp_oauth.py):   *)
(* a client asks, a person approves with a Brain token, the client gets a  *)
(* code, exchanges it for a token and refreshes that.                      *)
(*                                                                         *)
(* Its handlers suspend nowhere, so each is one step of the server's event *)
(* loop.  The MCP library loads a code or a refresh token in one call and  *)
(* exchanges it in another, and other requests run in between.  Which      *)
(* Brain tokens resolve, and to which workspace, is Access.                *)
(***************************************************************************)
EXTENDS Naturals, FiniteSets

CONSTANTS Client,
          BrainToken,  \* Brain tokens
          Workspace, HomeOf,  \* the workspace a Brain token resolves to
          Consent,     \* bound: authorization requests, each made once
          Request,     \* bound: calls of the library in flight
          MaxTokens,   \* bound: tokens minted from one consent
          MaxLapses    \* bound: expiries and withdrawn Brain tokens

Nobody == "nobody"

ASSUME OAuthAssumption ==
  /\ Nobody \notin Client \cup BrainToken
  /\ HomeOf \in [BrainToken -> Workspace]
  /\ MaxTokens \in Nat \ {0} /\ MaxLapses \in Nat

VARIABLES clients,      \* mcp_oauth_clients
          resolvable,   \* the Brain tokens that resolve
          pending,      \* mcp_oauth_pending
          codes,        \* mcp_oauth_codes
          tokens,       \* mcp_oauth_tokens
          connections,  \* mcp_connections
          asked,        \* history: the client of each consent
          approved,     \* history: the Brain token that approved it
          request,      \* per call: what the library has loaded
          lapses

tables  == <<clients, resolvable, pending, codes, tokens, connections>>
history == <<asked, approved>>
vars == <<tables, history, request, lapses>>

Idle   == [at |-> "idle"]
IsAt(s, stage) == request[s].at = stage
Goes(s, to)    == request' = [request EXCEPT ![s] = to]

Pending == [of : Consent, client : Client, fresh : BOOLEAN]
Code    == [of : Consent, client : Client, holder : BrainToken, fresh : BOOLEAN]
Token   == [of : Consent, n : 1..MaxTokens, client : Client, holder : BrainToken,
            fresh : BOOLEAN, renewable : BOOLEAN]
Handler == {Idle} \cup [at : {"exchanging"}, row : Code] \cup [at : {"refreshing"}, row : Token]

TypeOK ==
  /\ clients \subseteq Client /\ resolvable \subseteq BrainToken
  /\ pending \subseteq Pending /\ codes \subseteq Code /\ tokens \subseteq Token
  /\ connections \subseteq
       [workspace : Workspace, holder : BrainToken, client : Client \cup {Nobody}]
  /\ asked \in [Consent -> Client \cup {Nobody}]
  /\ approved \in [Consent -> BrainToken \cup {Nobody}]
  /\ request \in [Request -> Handler]
  /\ lapses \in 0..MaxLapses

Init ==
  /\ clients = {} /\ resolvable = BrainToken
  /\ pending = {} /\ codes = {} /\ tokens = {} /\ connections = {}
  /\ asked = [r \in Consent |-> Nobody]
  /\ approved = [r \in Consent |-> Nobody]
  /\ request = [s \in Request |-> Idle]
  /\ lapses = 0

-----------------------------------------------------------------------------
(* Asking and approving.                                                   *)

RegisterClient(c) ==
  /\ clients' = clients \cup {c}
  /\ UNCHANGED <<resolvable, pending, codes, tokens, connections, history, request, lapses>>

Authorize(r, c) ==
  /\ c \in clients /\ asked[r] = Nobody
  /\ pending' = pending \cup {[of |-> r, client |-> c, fresh |-> TRUE]}
  /\ asked' = [asked EXCEPT ![r] = c]
  /\ UNCHANGED <<clients, resolvable, codes, tokens, connections, approved, request, lapses>>

\* A Brain token that does not resolve leaves the request for another try.
StillPending(p) == pending                 \* slip: the request is not deleted
Answered(p) == pending \ {p}

CompleteConsent(p, b) ==
  /\ p \in pending /\ p.fresh /\ b \in resolvable
  /\ codes' = codes \cup {[of |-> p.of, client |-> p.client, holder |-> b, fresh |-> TRUE]}
  /\ pending' = Answered(p)
  /\ approved' = [approved EXCEPT ![p.of] = b]
  /\ UNCHANGED <<clients, resolvable, tokens, connections, asked, request, lapses>>

ConsentTooLate(p) ==
  /\ p \in pending /\ ~p.fresh
  /\ pending' = pending \ {p}
  /\ UNCHANGED <<clients, resolvable, codes, tokens, connections, history, request, lapses>>

-----------------------------------------------------------------------------
(* Codes and tokens.                                                       *)

\* slip: the secret is minted for the client, not for whoever approved
NumberedByClient(row, n, holder) ==
  [of |-> row.of, n |-> n, client |-> row.client, holder |-> row.client,
   fresh |-> TRUE, renewable |-> TRUE]

Numbered(row, n, holder) ==
  [of |-> row.of, n |-> n, client |-> row.client, holder |-> holder,
   fresh |-> TRUE, renewable |-> TRUE]

LoadCode(s, row) ==
  /\ IsAt(s, "idle") /\ row \in codes /\ row.fresh
  /\ Goes(s, [at |-> "exchanging", row |-> row])
  /\ UNCHANGED <<tables, history, lapses>>

CodeTooLate(row) ==
  /\ row \in codes /\ ~row.fresh
  /\ codes' = codes \ {row}
  /\ UNCHANGED <<clients, resolvable, pending, tokens, connections, history, request, lapses>>

\* The exchange looks the code up again, but not at its expiry.
CodeIsLoaded(row) == {row}                 \* slip: the code that was loaded is trusted
CodeRows(row) == {c \in codes : c.of = row.of /\ c.client = row.client}

ExchangeCode(s) ==
  /\ IsAt(s, "exchanging")
  /\ \E row \in CodeRows(request[s].row) :
       /\ codes' = codes \ {row}
       /\ tokens' = tokens \cup {Numbered(row, 1, row.holder)}
  /\ Goes(s, Idle)
  /\ UNCHANGED <<clients, resolvable, pending, connections, history, lapses>>

LoadRefresh(s, row) ==
  /\ IsAt(s, "idle") /\ row \in tokens /\ row.renewable
  /\ Goes(s, [at |-> "refreshing", row |-> row])
  /\ UNCHANGED <<tables, history, lapses>>

TokenIsLoaded(row) == {row}                \* slip: the token that was loaded is trusted
TokenRows(row) == {t \in tokens : t.of = row.of /\ t.n = row.n /\ t.client = row.client}

\* Both secrets are new, and the old row is deleted in the same commit.
ExchangeRefresh(s) ==
  /\ IsAt(s, "refreshing")
  /\ \E row \in TokenRows(request[s].row) :
       /\ row.n < MaxTokens
       /\ tokens' = (tokens \ {row}) \cup {Numbered(row, row.n + 1, row.holder)}
  /\ Goes(s, Idle)
  /\ UNCHANGED <<clients, resolvable, pending, codes, connections, history, lapses>>

\* invalid_grant: what was loaded has been exchanged or revoked meanwhile.
ExchangeFails(s) ==
  /\ \/ IsAt(s, "exchanging") /\ CodeRows(request[s].row) = {}
     \/ IsAt(s, "refreshing") /\ TokenRows(request[s].row) = {}
  /\ Goes(s, Idle)
  /\ UNCHANGED <<tables, history, lapses>>

\* Either secret of the row revokes both, after it has been verified or loaded.
RevokeToken(row) ==
  /\ row \in tokens /\ row.renewable
  /\ tokens' = tokens \ {row}
  /\ UNCHANGED <<clients, resolvable, pending, codes, connections, history, request, lapses>>

-----------------------------------------------------------------------------
(* Using a token, or a Brain token itself.                                 *)

Connection(b, c) == [workspace |-> HomeOf[b], holder |-> b, client |-> c]

\* What is noted is best effort.
NoteConnection(b, c) ==
  /\ connections' = connections \cup {Connection(b, c)}
  /\ UNCHANGED <<clients, resolvable, pending, codes, tokens, history, request, lapses>>

VerifyToken(row) == row \in tokens /\ row.fresh /\ NoteConnection(row.holder, row.client)

VerifyBrainToken(b) == b \in resolvable /\ NoteConnection(b, Nobody)

-----------------------------------------------------------------------------
(* Time and restarts.                                                      *)

Lapse == lapses < MaxLapses /\ lapses' = lapses + 1

PendingExpires(p) ==
  /\ Lapse /\ p \in pending /\ p.fresh
  /\ pending' = (pending \ {p}) \cup {[p EXCEPT !.fresh = FALSE]}
  /\ UNCHANGED <<clients, resolvable, codes, tokens, connections, history, request>>

CodeExpires(row) ==
  /\ Lapse /\ row \in codes /\ row.fresh
  /\ codes' = (codes \ {row}) \cup {[row EXCEPT !.fresh = FALSE]}
  /\ UNCHANGED <<clients, resolvable, pending, tokens, connections, history, request>>

\* Eight hours for the access token, thirty days for the refresh token.
TokenExpires(row) ==
  /\ Lapse /\ row \in tokens /\ row.renewable
  /\ tokens' = (tokens \ {row}) \cup
       {IF row.fresh THEN [row EXCEPT !.fresh = FALSE] ELSE [row EXCEPT !.renewable = FALSE]}
  /\ UNCHANGED <<clients, resolvable, pending, codes, connections, history, request>>

\* Revoked or expired, in Access; the tokens it approved do not look back.
BrainTokenEnds(b) ==
  /\ Lapse /\ b \in resolvable
  /\ resolvable' = resolvable \ {b}
  /\ UNCHANGED <<clients, pending, codes, tokens, connections, history, request>>

\* The owner token has its grant again after a restart.
BrainTokenReturns(b) ==
  /\ Lapse /\ b \notin resolvable
  /\ resolvable' = resolvable \cup {b}
  /\ UNCHANGED <<clients, pending, codes, tokens, connections, history, request>>

\* The server restarts, or the connection of one call is lost.
Dies(s) ==
  /\ ~IsAt(s, "idle")
  /\ Goes(s, Idle)
  /\ UNCHANGED <<tables, history, lapses>>

Exchanges(s) ==
  \/ \E row \in codes : LoadCode(s, row)
  \/ \E row \in tokens : LoadRefresh(s, row)
  \/ ExchangeCode(s) \/ ExchangeRefresh(s) \/ ExchangeFails(s) \/ Dies(s)

Consents ==
  \/ \E c \in Client : RegisterClient(c) \/ \E r \in Consent : Authorize(r, c)
  \/ \E p \in pending : ConsentTooLate(p) \/ \E b \in BrainToken : CompleteConsent(p, b)

Rows ==
  \/ \E row \in codes : CodeTooLate(row) \/ CodeExpires(row)
  \/ \E row \in tokens : RevokeToken(row) \/ VerifyToken(row) \/ TokenExpires(row)
  \/ \E p \in pending : PendingExpires(p)
  \/ \E b \in BrainToken : VerifyBrainToken(b) \/ BrainTokenEnds(b) \/ BrainTokenReturns(b)

Next == Consents \/ Rows \/ \E s \in Request : Exchanges(s)

Spec == Init /\ [][Next]_vars

-----------------------------------------------------------------------------
(* Properties.                                                             *)

PendingOf(r) == {p \in pending : p.of = r}
CodesOf(r)   == {c \in codes : c.of = r}
TokensOf(r)  == {t \in tokens : t.of = r}
RowsOf(r)    == PendingOf(r) \cup CodesOf(r) \cup TokensOf(r)

OneRow ==
  \A r \in Consent :
    /\ Cardinality(RowsOf(r)) <= 1
    /\ \A row \in RowsOf(r) : row.client = asked[r]
    /\ \A row \in CodesOf(r) \cup TokensOf(r) : row.holder = approved[r]
    /\ PendingOf(r) # {} => approved[r] = Nobody

LetIn ==
  \A c \in connections :
    /\ c.workspace = HomeOf[c.holder]
    /\ c.client # Nobody =>
         \E r \in Consent : asked[r] = c.client /\ approved[r] = c.holder

\* A consent is in one place at a time - asked for, approved, or exchanged for
\* one token - however its exchanges and refreshes overlap; it is the client's
\* that asked, in the name of the Brain token that approved.  And every
\* connected app was let in by such a consent or by a Brain token itself.
ConsentHolds == OneRow /\ LetIn

\* A consent that is used up - too late, revoked, or its code expired - gives
\* nobody a code or a token again, whatever call was under way.
SpentStaysSpent ==
  [][\A r \in Consent : asked[r] # Nobody /\ RowsOf(r) = {} => RowsOf(r)' = {}]_vars
=============================================================================
