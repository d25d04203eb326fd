----------------------------- MODULE OAuth_proofs -----------------------------
(***************************************************************************)
(* The OAuth provider for any number of clients, tokens, consents and      *)
(* calls in flight.  A consent's row changes its table and never becomes   *)
(* two: Alone says so of each table and of each pair of them, which is     *)
(* what a step on one row needs to know of the others.                     *)
(***************************************************************************)
EXTENDS OAuth, FiniteSetTheorems, TLAPS

Single(rows) == \A x, y \in rows : x = y

Alone(r) ==
  /\ Single(PendingOf(r)) /\ Single(CodesOf(r)) /\ Single(TokensOf(r))
  /\ PendingOf(r) # {} => CodesOf(r) = {} /\ TokensOf(r) = {}
  /\ CodesOf(r) # {} => TokensOf(r) = {}

\* A row is its consent's: of the client that asked, for whoever approved.
Owned(r) ==
  /\ \A p \in PendingOf(r) : p.client = asked[r] /\ approved[r] = Nobody
  /\ \A row \in CodesOf(r) : row.client = asked[r] /\ row.holder = approved[r]
  /\ \A row \in TokensOf(r) : row.client = asked[r] /\ row.holder = approved[r]
  /\ asked[r] = Nobody => approved[r] = Nobody

ConsentOK(r) == Alone(r) /\ Owned(r)

IInv == TypeOK /\ (\A r \in Consent : ConsentOK(r)) /\ LetIn

-----------------------------------------------------------------------------
(* Types.                                                                  *)

\* What the library loads, and the rows that handlers write, are rows.
LEMMA TypeKept == TypeOK /\ [Next]_vars => TypeOK'
<1> SUFFICES ASSUME TypeOK, [Next]_vars PROVE TypeOK'
  OBVIOUS
<1> USE OAuthAssumption
<1>1. CASE UNCHANGED vars
  BY <1>1 DEF TypeOK, vars, tables, history
<1>2. CASE Consents
  <2>1. CASE \E c \in Client : RegisterClient(c)
    BY <2>1 DEF TypeOK, RegisterClient, history
  <2>2. ASSUME NEW c \in Client, NEW r \in Consent, Authorize(r, c) PROVE TypeOK'
    <3>1. [of |-> r, client |-> c, fresh |-> TRUE] \in Pending
      BY DEF Pending
    <3> QED BY <2>2, <3>1 DEF TypeOK, Authorize
  <2>3. ASSUME NEW p \in pending, ConsentTooLate(p) PROVE TypeOK'
    BY <2>3 DEF TypeOK, ConsentTooLate, history
  <2>4. ASSUME NEW p \in pending, NEW b \in BrainToken, CompleteConsent(p, b) PROVE TypeOK'
    <3>1. p \in Pending /\ p.of \in Consent /\ p.client \in Client
      BY DEF TypeOK, Pending
    <3>2. [of |-> p.of, client |-> p.client, holder |-> b, fresh |-> TRUE] \in Code
      BY <3>1 DEF Code
    <3> QED BY <2>4, <3>1, <3>2 DEF TypeOK, CompleteConsent, Answered
  <2> QED BY <1>2, <2>1, <2>2, <2>3, <2>4 DEF Consents
<1>3. CASE Rows
  <2>1. ASSUME NEW row \in codes, CodeTooLate(row) \/ CodeExpires(row) PROVE TypeOK'
    <3>1. row \in Code /\ [row EXCEPT !.fresh = FALSE] \in Code
      BY DEF TypeOK, Code
    <3>2. codes' \subseteq Code
      BY <2>1, <3>1 DEF TypeOK, CodeTooLate, CodeExpires
    <3>3. lapses' \in 0..MaxLapses
      BY <2>1 DEF TypeOK, CodeTooLate, CodeExpires, Lapse
    <3> QED BY <2>1, <3>2, <3>3 DEF TypeOK, CodeTooLate, CodeExpires, history
  <2>2. ASSUME NEW row \in tokens, RevokeToken(row) \/ TokenExpires(row) PROVE TypeOK'
    <3>1. row \in Token /\ [row EXCEPT !.fresh = FALSE] \in Token
          /\ [row EXCEPT !.renewable = FALSE] \in Token
      BY DEF TypeOK, Token
    <3>2. tokens' \subseteq Token
      BY <2>2, <3>1 DEF TypeOK, RevokeToken, TokenExpires
    <3>3. lapses' \in 0..MaxLapses
      BY <2>2 DEF TypeOK, RevokeToken, TokenExpires, Lapse
    <3> QED BY <2>2, <3>2, <3>3 DEF TypeOK, RevokeToken, TokenExpires, history
  <2>3. ASSUME NEW row \in tokens, VerifyToken(row) PROVE TypeOK'
    <3>1. row.holder \in BrainToken /\ row.client \in Client
      BY DEF TypeOK, Token
    <3> QED BY <2>3, <3>1 DEF TypeOK, VerifyToken, NoteConnection, Connection, history
  <2>4. ASSUME NEW p \in pending, PendingExpires(p) PROVE TypeOK'
    <3>1. p \in Pending /\ [p EXCEPT !.fresh = FALSE] \in Pending
      BY DEF TypeOK, Pending
    <3>2. pending' \subseteq Pending
      BY <2>4, <3>1 DEF TypeOK, PendingExpires
    <3>3. lapses' \in 0..MaxLapses
      BY <2>4 DEF TypeOK, PendingExpires, Lapse
    <3> QED BY <2>4, <3>2, <3>3 DEF TypeOK, PendingExpires, history
  <2>5. ASSUME NEW b \in BrainToken, VerifyBrainToken(b) PROVE TypeOK'
    BY <2>5 DEF TypeOK, VerifyBrainToken, NoteConnection, Connection, history
  <2>6. ASSUME NEW b \in BrainToken, BrainTokenEnds(b) \/ BrainTokenReturns(b) PROVE TypeOK'
    BY <2>6 DEF TypeOK, BrainTokenEnds, BrainTokenReturns, Lapse, history
  <2> QED BY <1>3, <2>1, <2>2, <2>3, <2>4, <2>5, <2>6 DEF Rows
<1>4. ASSUME NEW s \in Request, Exchanges(s) PROVE TypeOK'
  <2>0. ASSUME NEW h \in Handler, Goes(s, h) PROVE request' \in [Request -> Handler]
    BY <2>0 DEF TypeOK, Goes
  <2>a. Idle \in Handler
    BY DEF Handler
  <2>1. ASSUME NEW row \in codes, LoadCode(s, row) PROVE TypeOK'
    <3>1. [at |-> "exchanging", row |-> row] \in Handler
      BY DEF TypeOK, Handler
    <3> QED BY <2>0, <2>1, <3>1 DEF TypeOK, LoadCode, tables, history
  <2>2. ASSUME NEW row \in tokens, LoadRefresh(s, row) PROVE TypeOK'
    <3>1. [at |-> "refreshing", row |-> row] \in Handler
      BY DEF TypeOK, Handler
    <3> QED BY <2>0, <2>2, <3>1 DEF TypeOK, LoadRefresh, tables, history
  <2>3. CASE ExchangeCode(s)
    <3>1. PICK row \in CodeRows(request[s].row) :
            /\ codes' = codes \ {row}
            /\ tokens' = tokens \cup {Numbered(row, 1, row.holder)}
      BY <2>3 DEF ExchangeCode
    <3>2. row \in Code
      BY <3>1 DEF CodeRows, TypeOK
    <3>3. Numbered(row, 1, row.holder) \in Token
      BY <3>2 DEF Numbered, Code, Token
    <3> QED BY <2>0, <2>a, <2>3, <3>1, <3>3 DEF TypeOK, ExchangeCode, history
  <2>4. CASE ExchangeRefresh(s)
    <3>1. PICK row \in TokenRows(request[s].row) :
            /\ row.n < MaxTokens
            /\ tokens' = (tokens \ {row}) \cup {Numbered(row, row.n + 1, row.holder)}
      BY <2>4 DEF ExchangeRefresh
    <3>2. row \in Token
      BY <3>1 DEF TokenRows, TypeOK
    <3>3. Numbered(row, row.n + 1, row.holder) \in Token
      BY <3>1, <3>2 DEF Numbered, Token
    <3>4. tokens' \subseteq Token
      BY <3>1, <3>3 DEF TypeOK
    <3> QED BY <2>0, <2>a, <2>4, <3>4 DEF TypeOK, ExchangeRefresh, history
  <2>5. CASE ExchangeFails(s) \/ Dies(s)
    BY <2>0, <2>a, <2>5 DEF TypeOK, ExchangeFails, Dies, tables, history
  <2> QED BY <1>4, <2>1, <2>2, <2>3, <2>4, <2>5 DEF Exchanges
<1> QED BY <1>1, <1>2, <1>3, <1>4 DEF Next

-----------------------------------------------------------------------------
(* A row that goes, or gives its place to another of the same consent.     *)

AllOK == \A r \in Consent : ConsentOK(r)

LEMMA RowsGo ==
  ASSUME AllOK, pending' \subseteq pending, codes' \subseteq codes, tokens' \subseteq tokens,
         UNCHANGED history
  PROVE  AllOK'
<1> SUFFICES ASSUME NEW r \in Consent PROVE ConsentOK(r)'
  BY DEF AllOK
<1>1. ConsentOK(r)
  BY DEF AllOK
<1>2. PendingOf(r)' \subseteq PendingOf(r) /\ CodesOf(r)' \subseteq CodesOf(r)
      /\ TokensOf(r)' \subseteq TokensOf(r)
  BY DEF PendingOf, CodesOf, TokensOf
<1>3. asked' = asked /\ approved' = approved
  BY DEF history
<1> QED BY <1>1, <1>2, <1>3 DEF ConsentOK, Alone, Owned, Single

\* The rows of other consents are not touched by a step on row x.
LEMMA PendingMoves ==
  ASSUME AllOK, NEW p \in pending, NEW q, q.of = p.of, q.client = p.client,
         pending' = (pending \ {p}) \cup {q}, UNCHANGED <<codes, tokens, history>>
  PROVE  AllOK'
<1> SUFFICES ASSUME NEW r \in Consent PROVE ConsentOK(r)'
  BY DEF AllOK
<1>1. ConsentOK(r)
  BY DEF AllOK
<1>2. CodesOf(r)' = CodesOf(r) /\ TokensOf(r)' = TokensOf(r)
      /\ asked' = asked /\ approved' = approved
  BY DEF CodesOf, TokensOf, history
<1>3. CASE p.of # r
  <2>1. PendingOf(r)' = PendingOf(r)
    BY <1>3 DEF PendingOf
  <2> QED BY <1>1, <1>2, <2>1 DEF ConsentOK, Alone, Owned, Single
<1>4. CASE p.of = r
  <2>1. p \in PendingOf(r) /\ PendingOf(r)' = {q}
    BY <1>1, <1>4 DEF PendingOf, ConsentOK, Alone, Single
  <2> QED BY <1>1, <1>2, <2>1 DEF ConsentOK, Alone, Owned, Single
<1> QED BY <1>3, <1>4

LEMMA CodeMoves ==
  ASSUME AllOK, NEW p \in codes, NEW q, q.of = p.of, q.client = p.client, q.holder = p.holder,
         codes' = (codes \ {p}) \cup {q}, UNCHANGED <<pending, tokens, history>>
  PROVE  AllOK'
<1> SUFFICES ASSUME NEW r \in Consent PROVE ConsentOK(r)'
  BY DEF AllOK
<1>1. ConsentOK(r)
  BY DEF AllOK
<1>2. PendingOf(r)' = PendingOf(r) /\ TokensOf(r)' = TokensOf(r)
      /\ asked' = asked /\ approved' = approved
  BY DEF PendingOf, TokensOf, history
<1>3. CASE p.of # r
  <2>1. CodesOf(r)' = CodesOf(r)
    BY <1>3 DEF CodesOf
  <2> QED BY <1>1, <1>2, <2>1 DEF ConsentOK, Alone, Owned, Single
<1>4. CASE p.of = r
  <2>1. p \in CodesOf(r) /\ CodesOf(r)' = {q}
    BY <1>1, <1>4 DEF CodesOf, ConsentOK, Alone, Single
  <2> QED BY <1>1, <1>2, <2>1 DEF ConsentOK, Alone, Owned, Single
<1> QED BY <1>3, <1>4

LEMMA TokenMoves ==
  ASSUME AllOK, NEW p \in tokens, NEW q, q.of = p.of, q.client = p.client, q.holder = p.holder,
         tokens' = (tokens \ {p}) \cup {q}, UNCHANGED <<pending, codes, history>>
  PROVE  AllOK'
<1> SUFFICES ASSUME NEW r \in Consent PROVE ConsentOK(r)'
  BY DEF AllOK
<1>1. ConsentOK(r)
  BY DEF AllOK
<1>2. PendingOf(r)' = PendingOf(r) /\ CodesOf(r)' = CodesOf(r)
      /\ asked' = asked /\ approved' = approved
  BY DEF PendingOf, CodesOf, history
<1>3. CASE p.of # r
  <2>1. TokensOf(r)' = TokensOf(r)
    BY <1>3 DEF TokensOf
  <2> QED BY <1>1, <1>2, <2>1 DEF ConsentOK, Alone, Owned, Single
<1>4. CASE p.of = r
  <2>1. p \in TokensOf(r) /\ TokensOf(r)' = {q}
    BY <1>1, <1>4 DEF TokensOf, ConsentOK, Alone, Single
  <2> QED BY <1>1, <1>2, <2>1 DEF ConsentOK, Alone, Owned, Single
<1> QED BY <1>3, <1>4

LEMMA CodeBecomesToken ==
  ASSUME AllOK, NEW p \in codes, NEW q, q.of = p.of, q.client = p.client, q.holder = p.holder,
         codes' = codes \ {p}, tokens' = tokens \cup {q}, UNCHANGED <<pending, history>>
  PROVE  AllOK'
<1> SUFFICES ASSUME NEW r \in Consent PROVE ConsentOK(r)'
  BY DEF AllOK
<1>1. ConsentOK(r)
  BY DEF AllOK
<1>2. PendingOf(r)' = PendingOf(r) /\ asked' = asked /\ approved' = approved
  BY DEF PendingOf, history
<1>3. CASE p.of # r
  <2>1. CodesOf(r)' = CodesOf(r) /\ TokensOf(r)' = TokensOf(r)
    BY <1>3 DEF CodesOf, TokensOf
  <2> QED BY <1>1, <1>2, <2>1 DEF ConsentOK, Alone, Owned, Single
<1>4. CASE p.of = r
  <2>1. p \in CodesOf(r)
    BY <1>4 DEF CodesOf
  <2>2. PendingOf(r) = {} /\ TokensOf(r) = {}
    BY <1>1, <2>1 DEF ConsentOK, Alone
  <2>3. CodesOf(r)' = {}
    BY <1>1, <1>4 DEF CodesOf, ConsentOK, Alone, Single
  <2>4. TokensOf(r)' = {q}
    BY <1>4, <2>2 DEF TokensOf
  <2> QED BY <1>1, <1>2, <2>1, <2>2, <2>3, <2>4 DEF ConsentOK, Alone, Owned, Single
<1> QED BY <1>3, <1>4

\* Nothing of a consent that nobody asked for is in a table.
LEMMA NothingUnasked ==
  ASSUME TypeOK, AllOK, NEW r \in Consent, asked[r] = Nobody
  PROVE  PendingOf(r) = {} /\ CodesOf(r) = {} /\ TokensOf(r) = {}
<1> USE OAuthAssumption
<1>1. ConsentOK(r)
  BY DEF AllOK
<1>2. \A p \in PendingOf(r) : p.client \in Client
  BY DEF TypeOK, PendingOf, Pending
<1>3. \A p \in CodesOf(r) : p.client \in Client
  BY DEF TypeOK, CodesOf, Code
<1>4. \A p \in TokensOf(r) : p.client \in Client
  BY DEF TypeOK, TokensOf, Token
<1> QED BY <1>1, <1>2, <1>3, <1>4 DEF ConsentOK, Owned

-----------------------------------------------------------------------------
(* One step per handler.                                                   *)

LEMMA ConsentsKept == TypeOK /\ AllOK /\ Consents => AllOK'
<1> SUFFICES ASSUME TypeOK, AllOK, Consents PROVE AllOK'
  OBVIOUS
<1> USE OAuthAssumption
<1>1. ASSUME NEW c \in Client, RegisterClient(c) PROVE AllOK'
  BY <1>1, RowsGo DEF RegisterClient
<1>2. ASSUME NEW c \in Client, NEW k \in Consent, Authorize(k, c) PROVE AllOK'
  <2> DEFINE q == [of |-> k, client |-> c, fresh |-> TRUE]
  <2>1. PendingOf(k) = {} /\ CodesOf(k) = {} /\ TokensOf(k) = {}
    BY <1>2, NothingUnasked DEF Authorize
  <2>2. approved' = approved /\ asked' = [asked EXCEPT ![k] = c]
        /\ pending' = pending \cup {q} /\ codes' = codes /\ tokens' = tokens
    BY <1>2 DEF Authorize
  <2> SUFFICES ASSUME NEW r \in Consent PROVE ConsentOK(r)'
    BY DEF AllOK
  <2>3. ConsentOK(r) /\ CodesOf(r)' = CodesOf(r) /\ TokensOf(r)' = TokensOf(r)
    BY <2>2 DEF AllOK, CodesOf, TokensOf
  <2>4. CASE r = k
    <3>1. PendingOf(r)' = {q}
      BY <2>1, <2>2, <2>4 DEF PendingOf
    <3>2. asked[r] = Nobody /\ approved[r] = Nobody /\ asked'[r] = c
      BY <1>2, <2>2, <2>3, <2>4 DEF TypeOK, Authorize, ConsentOK, Owned
    <3> QED BY <2>1, <2>2, <2>3, <2>4, <3>1, <3>2 DEF ConsentOK, Alone, Owned, Single
  <2>5. CASE r # k
    <3>1. PendingOf(r)' = PendingOf(r)
      BY <2>2, <2>5 DEF PendingOf
    <3>2. asked'[r] = asked[r]
      BY <2>2, <2>5 DEF TypeOK
    <3> QED BY <2>2, <2>3, <3>1, <3>2 DEF ConsentOK, Alone, Owned, Single
  <2> QED BY <2>4, <2>5
<1>3. ASSUME NEW p \in pending, ConsentTooLate(p) PROVE AllOK'
  BY <1>3, RowsGo DEF ConsentTooLate
<1>4. ASSUME NEW p \in pending, NEW b \in BrainToken, CompleteConsent(p, b) PROVE AllOK'
  <2> DEFINE q == [of |-> p.of, client |-> p.client, holder |-> b, fresh |-> TRUE]
  <2>1. /\ codes' = codes \cup {q} /\ pending' = pending \ {p}
        /\ approved' = [approved EXCEPT ![p.of] = b] /\ asked' = asked /\ tokens' = tokens
    BY <1>4 DEF CompleteConsent, Answered
  <2> SUFFICES ASSUME NEW r \in Consent PROVE ConsentOK(r)'
    BY DEF AllOK
  <2>2. ConsentOK(r) /\ TokensOf(r)' = TokensOf(r)
    BY <2>1 DEF AllOK, TokensOf
  <2>3. CASE r = p.of
    <3>1. p \in PendingOf(r)
      BY <2>3 DEF PendingOf
    <3>2. CodesOf(r) = {} /\ TokensOf(r) = {}
      BY <2>2, <3>1 DEF ConsentOK, Alone
    <3>3. CodesOf(r)' = {q} /\ PendingOf(r)' = {}
      BY <2>1, <2>2, <2>3, <3>1, <3>2 DEF CodesOf, PendingOf, ConsentOK, Alone, Single
    <3>4. p.client = asked[r] /\ p.client \in Client /\ approved'[r] = b
      BY <2>1, <2>2, <2>3, <3>1 DEF TypeOK, Pending, ConsentOK, Owned
    <3> QED BY <2>1, <2>2, <3>2, <3>3, <3>4 DEF ConsentOK, Alone, Owned, Single
  <2>4. CASE r # p.of
    <3>1. CodesOf(r)' = CodesOf(r) /\ PendingOf(r)' = PendingOf(r)
      BY <2>1, <2>4 DEF CodesOf, PendingOf
    <3>2. approved'[r] = approved[r]
      BY <2>1, <2>4 DEF TypeOK
    <3> QED BY <2>1, <2>2, <3>1, <3>2 DEF ConsentOK, Alone, Owned, Single
  <2> QED BY <2>3, <2>4
<1> QED BY <1>1, <1>2, <1>3, <1>4 DEF Consents

LEMMA RowsKept == TypeOK /\ AllOK /\ Rows => AllOK'
<1> SUFFICES ASSUME TypeOK, AllOK, Rows PROVE AllOK'
  OBVIOUS
<1>1. ASSUME NEW row \in codes, CodeTooLate(row) PROVE AllOK'
  BY <1>1, RowsGo DEF CodeTooLate
<1>2. ASSUME NEW row \in codes, CodeExpires(row) PROVE AllOK'
  <2> DEFINE q == [row EXCEPT !.fresh = FALSE]
  <2>1. q.of = row.of /\ q.client = row.client /\ q.holder = row.holder
    BY DEF TypeOK, Code
  <2> QED BY <1>2, <2>1, CodeMoves DEF CodeExpires
<1>3. ASSUME NEW row \in tokens, RevokeToken(row) PROVE AllOK'
  BY <1>3, RowsGo DEF RevokeToken
<1>4. ASSUME NEW row \in tokens, VerifyToken(row) PROVE AllOK'
  BY <1>4, RowsGo DEF VerifyToken, NoteConnection
<1>5. ASSUME NEW row \in tokens, TokenExpires(row) PROVE AllOK'
  <2> DEFINE q == IF row.fresh THEN [row EXCEPT !.fresh = FALSE]
                               ELSE [row EXCEPT !.renewable = FALSE]
  <2>1. q.of = row.of /\ q.client = row.client /\ q.holder = row.holder
    BY DEF TypeOK, Token
  <2>2. tokens' = (tokens \ {row}) \cup {q} /\ UNCHANGED <<pending, codes, history>>
    BY <1>5 DEF TokenExpires
  <2> HIDE DEF q
  <2> QED BY <2>1, <2>2, TokenMoves
<1>6. ASSUME NEW p \in pending, PendingExpires(p) PROVE AllOK'
  <2> DEFINE q == [p EXCEPT !.fresh = FALSE]
  <2>1. q.of = p.of /\ q.client = p.client
    BY DEF TypeOK, Pending
  <2> QED BY <1>6, <2>1, PendingMoves DEF PendingExpires
<1>7. ASSUME NEW b \in BrainToken, VerifyBrainToken(b) PROVE AllOK'
  BY <1>7, RowsGo DEF VerifyBrainToken, NoteConnection
<1>8. ASSUME NEW b \in BrainToken, BrainTokenEnds(b) \/ BrainTokenReturns(b) PROVE AllOK'
  BY <1>8, RowsGo DEF BrainTokenEnds, BrainTokenReturns
<1> QED BY <1>1, <1>2, <1>3, <1>4, <1>5, <1>6, <1>7, <1>8 DEF Rows

LEMMA ExchangesKept == TypeOK /\ AllOK /\ (\E s \in Request : Exchanges(s)) => AllOK'
<1> SUFFICES ASSUME TypeOK, AllOK, NEW s \in Request, Exchanges(s) PROVE AllOK'
  OBVIOUS
<1>1. ASSUME NEW row \in codes, LoadCode(s, row) PROVE AllOK'
  BY <1>1, RowsGo DEF LoadCode, tables
<1>2. ASSUME NEW row \in tokens, LoadRefresh(s, row) PROVE AllOK'
  BY <1>2, RowsGo DEF LoadRefresh, tables
<1>3. CASE ExchangeCode(s)
  <2>1. PICK row \in CodeRows(request[s].row) :
          codes' = codes \ {row} /\ tokens' = tokens \cup {Numbered(row, 1, row.holder)}
    BY <1>3 DEF ExchangeCode
  <2>2. row \in codes
    BY DEF CodeRows
  <2>3. UNCHANGED <<pending, history>>
    BY <1>3 DEF ExchangeCode
  <2> QED BY <2>1, <2>2, <2>3, CodeBecomesToken DEF Numbered
<1>4. CASE ExchangeRefresh(s)
  <2>1. PICK row \in TokenRows(request[s].row) :
          tokens' = (tokens \ {row}) \cup {Numbered(row, row.n + 1, row.holder)}
    BY <1>4 DEF ExchangeRefresh
  <2>2. row \in tokens
    BY DEF TokenRows
  <2>3. UNCHANGED <<pending, codes, history>>
    BY <1>4 DEF ExchangeRefresh
  <2> QED BY <2>1, <2>2, <2>3, TokenMoves DEF Numbered
<1>5. CASE ExchangeFails(s) \/ Dies(s)
  BY <1>5, RowsGo DEF ExchangeFails, Dies, tables
<1> QED BY <1>1, <1>2, <1>3, <1>4, <1>5 DEF Exchanges

\* Who asked and who approved is settled once.
LEMMA HistoryStays ==
  ASSUME TypeOK, AllOK, [Next]_vars, NEW r \in Consent
  PROVE  /\ asked[r] # Nobody => asked'[r] = asked[r]
         /\ approved[r] # Nobody => approved'[r] = approved[r]
<1>1. ASSUME NEW c \in Client, NEW k \in Consent, Authorize(k, c)
      PROVE  (asked[r] # Nobody => asked'[r] = asked[r]) /\ approved' = approved
  BY <1>1 DEF Authorize, TypeOK
<1>2. ASSUME NEW p \in pending, NEW b \in BrainToken, CompleteConsent(p, b)
      PROVE  asked' = asked /\ (approved[r] # Nobody => approved'[r] = approved[r])
  <2>1. CASE p.of = r
    BY <1>2, <2>1 DEF CompleteConsent, AllOK, ConsentOK, Owned, PendingOf
  <2>2. CASE p.of # r
    BY <1>2, <2>2 DEF CompleteConsent, TypeOK
  <2> QED BY <1>2, <2>1, <2>2 DEF CompleteConsent
<1>3. CASE UNCHANGED vars
  BY <1>3 DEF vars, history
<1>4. CASE Consents
  BY <1>1, <1>2, <1>4 DEF Consents, RegisterClient, ConsentTooLate, history
<1>5. CASE Rows
  BY <1>5 DEF Rows, CodeTooLate, CodeExpires, RevokeToken, VerifyToken, TokenExpires,
              PendingExpires, VerifyBrainToken, NoteConnection, BrainTokenEnds,
              BrainTokenReturns, history
<1>6. CASE \E s \in Request : Exchanges(s)
  BY <1>6 DEF Exchanges, LoadCode, LoadRefresh, ExchangeCode, ExchangeRefresh,
              ExchangeFails, Dies, history
<1> QED BY <1>1, <1>2, <1>3, <1>4, <1>5, <1>6 DEF Next

LEMMA LetInKept == TypeOK /\ AllOK /\ LetIn /\ [Next]_vars => LetIn'
<1> SUFFICES ASSUME TypeOK, AllOK, LetIn, [Next]_vars, NEW c \in connections'
             PROVE  /\ c.workspace = HomeOf[c.holder]
                    /\ c.client # Nobody =>
                         \E r \in Consent : asked'[r] = c.client /\ approved'[r] = c.holder
  BY DEF LetIn
<1> USE OAuthAssumption
<1>1. CASE c \in connections
  <2>1. c.holder \in BrainToken
    BY <1>1 DEF TypeOK
  <2> QED BY <1>1, <2>1, HistoryStays DEF LetIn
<1>2. CASE c \notin connections
  <2>1. \/ \E row \in tokens : VerifyToken(row)
        \/ \E b \in BrainToken : VerifyBrainToken(b)
    <3>1. CASE Consents
      BY <1>2, <3>1 DEF Consents, RegisterClient, Authorize, ConsentTooLate, CompleteConsent
    <3>2. CASE Rows
      BY <1>2, <3>2 DEF Rows, CodeTooLate, CodeExpires, RevokeToken, TokenExpires,
                        PendingExpires, BrainTokenEnds, BrainTokenReturns
    <3>3. CASE \E s \in Request : Exchanges(s)
      BY <1>2, <3>3 DEF Exchanges, LoadCode, LoadRefresh, ExchangeCode, ExchangeRefresh,
                        ExchangeFails, Dies, tables
    <3>4. CASE UNCHANGED vars
      BY <1>2, <3>4 DEF vars, tables
    <3> QED BY <3>1, <3>2, <3>3, <3>4 DEF Next
  <2>2. ASSUME NEW row \in tokens, VerifyToken(row)
        PROVE  /\ c.workspace = HomeOf[c.holder]
               /\ \E r \in Consent : asked'[r] = c.client /\ approved'[r] = c.holder
    <3>1. c = Connection(row.holder, row.client)
      BY <1>2, <2>2 DEF VerifyToken, NoteConnection
    <3>2. row.of \in Consent /\ row \in TokensOf(row.of)
      BY DEF TypeOK, Token, TokensOf
    <3>3. row.client = asked[row.of] /\ row.holder = approved[row.of]
      BY <3>2 DEF AllOK, ConsentOK, Owned
    <3>4. asked' = asked /\ approved' = approved
      BY <2>2 DEF VerifyToken, NoteConnection, history
    <3> QED BY <3>1, <3>2, <3>3, <3>4 DEF Connection
  <2>3. ASSUME NEW b \in BrainToken, VerifyBrainToken(b)
        PROVE  c.workspace = HomeOf[c.holder] /\ c.client = Nobody
    BY <1>2, <2>3 DEF VerifyBrainToken, NoteConnection, Connection
  <2> QED BY <2>1, <2>2, <2>3
<1> QED BY <1>1, <1>2

LEMMA Invariance == Spec => []IInv
<1>1. Init => IInv
  <2> SUFFICES ASSUME Init PROVE IInv
    OBVIOUS
  <2>1. TypeOK
    BY OAuthAssumption DEF Init, TypeOK, Handler
  <2>2. \A r \in Consent : ConsentOK(r)
    BY DEF Init, ConsentOK, Alone, Owned, Single, PendingOf, CodesOf, TokensOf
  <2> QED BY <2>1, <2>2 DEF Init, IInv, LetIn
<1>2. IInv /\ [Next]_vars => IInv'
  <2> SUFFICES ASSUME TypeOK, AllOK, LetIn, [Next]_vars PROVE TypeOK' /\ AllOK' /\ LetIn'
    BY DEF IInv, AllOK
  <2>1. UNCHANGED vars => AllOK'
    BY RowsGo DEF vars, tables
  <2> QED BY <2>1, TypeKept, ConsentsKept, RowsKept, ExchangesKept, LetInKept DEF Next
<1> QED BY <1>1, <1>2, PTL DEF Spec

-----------------------------------------------------------------------------
(* The theorems.                                                           *)

\* Every row and what every call has loaded keep their types (mcp_oauth.py).
THEOREM OAuthTypeCorrect == Spec => []TypeOK
<1>1. IInv => TypeOK
  BY DEF IInv
<1> QED BY <1>1, Invariance, PTL

\* However many exchanges and refreshes overlap, a consent has one code or one
\* token, for the client that asked and whoever approved, and no connection is
\* noted without one (exchange_authorization_code, exchange_refresh_token).
THEOREM Consented == Spec => []ConsentHolds
<1>1. IInv => ConsentHolds
  <2> SUFFICES ASSUME IInv PROVE OneRow
    BY DEF ConsentHolds, IInv
  <2> SUFFICES ASSUME NEW r \in Consent
               PROVE  /\ Cardinality(RowsOf(r)) <= 1
                      /\ \A row \in RowsOf(r) : row.client = asked[r]
                      /\ \A row \in CodesOf(r) \cup TokensOf(r) : row.holder = approved[r]
                      /\ PendingOf(r) # {} => approved[r] = Nobody
    BY DEF OneRow
  <2>1. Alone(r) /\ Owned(r)
    BY DEF IInv, ConsentOK
  <2>2. Single(RowsOf(r))
    BY <2>1 DEF Alone, Single, RowsOf
  <2>3. RowsOf(r) = {} \/ \E x : RowsOf(r) = {x}
    BY <2>2 DEF Single
  <2>4. Cardinality(RowsOf(r)) <= 1
    <3>1. CASE RowsOf(r) = {}
      BY <3>1, FS_EmptySet
    <3>2. ASSUME NEW x, RowsOf(r) = {x} PROVE Cardinality(RowsOf(r)) <= 1
      <4>1. Cardinality({x}) = 1
        BY FS_Singleton
      <4> QED BY <3>2, <4>1
    <3> QED BY <2>3, <3>1, <3>2
  <2> QED BY <2>1, <2>4 DEF Owned, RowsOf
<1> QED BY <1>1, Invariance, PTL

\* A consent that is used up gives nobody a code or a token again: what a call
\* has loaded is looked up once more before it is exchanged.
THEOREM Spent == Spec => SpentStaysSpent
<1>1. IInv /\ [Next]_vars =>
        [\A r \in Consent : asked[r] # Nobody /\ RowsOf(r) = {} => RowsOf(r)' = {}]_vars
  <2> SUFFICES ASSUME TypeOK, Next, NEW r \in Consent, asked[r] # Nobody, RowsOf(r) = {}
               PROVE  RowsOf(r)' = {}
    BY DEF IInv
  <2>1. /\ \A p \in pending : p.of # r
        /\ \A p \in codes : p.of # r
        /\ \A p \in tokens : p.of # r
    BY DEF RowsOf, PendingOf, CodesOf, TokensOf
  <2> SUFFICES /\ \A p \in pending' : p.of # r
               /\ \A p \in codes' : p.of # r
               /\ \A p \in tokens' : p.of # r
    BY DEF RowsOf, PendingOf, CodesOf, TokensOf
  <2>2. CASE Consents
    BY <2>1, <2>2 DEF Consents, RegisterClient, Authorize, ConsentTooLate, CompleteConsent, Answered
  <2>3. CASE \E row \in codes : CodeTooLate(row) \/ CodeExpires(row)
    <3>1. \A row \in codes : [row EXCEPT !.fresh = FALSE].of = row.of
      BY DEF TypeOK, Code
    <3>2. PICK row \in codes : CodeTooLate(row) \/ CodeExpires(row)
      BY <2>3
    <3> QED BY <2>1, <3>1, <3>2 DEF CodeTooLate, CodeExpires
  <2>4. ASSUME NEW row \in tokens, TokenExpires(row)
        PROVE  /\ \A p \in pending' : p.of # r
               /\ \A p \in codes' : p.of # r
               /\ \A p \in tokens' : p.of # r
    <3> DEFINE q == IF row.fresh THEN [row EXCEPT !.fresh = FALSE]
                                 ELSE [row EXCEPT !.renewable = FALSE]
    <3>1. q.of = row.of
      BY DEF TypeOK, Token
    <3>2. tokens' = (tokens \ {row}) \cup {q} /\ UNCHANGED <<pending, codes>>
      BY <2>4 DEF TokenExpires
    <3> HIDE DEF q
    <3> QED BY <2>1, <3>1, <3>2
  <2>5. CASE \E p \in pending : PendingExpires(p)
    <3>1. \A p \in pending : [p EXCEPT !.fresh = FALSE].of = p.of
      BY DEF TypeOK, Pending
    <3> QED BY <2>1, <2>5, <3>1 DEF PendingExpires
  <2>6. CASE \/ \E row \in tokens : RevokeToken(row) \/ VerifyToken(row)
             \/ \E b \in BrainToken : VerifyBrainToken(b) \/ BrainTokenEnds(b) \/ BrainTokenReturns(b)
    BY <2>1, <2>6 DEF RevokeToken, VerifyToken, VerifyBrainToken, NoteConnection, BrainTokenEnds, BrainTokenReturns
  <2>7. ASSUME NEW s \in Request, ExchangeCode(s) \/ ExchangeRefresh(s)
        PROVE  /\ \A p \in pending' : p.of # r
               /\ \A p \in codes' : p.of # r
               /\ \A p \in tokens' : p.of # r
    <3>1. CASE ExchangeCode(s)
      BY <2>1, <3>1 DEF ExchangeCode, CodeRows, Numbered
    <3>2. CASE ExchangeRefresh(s)
      BY <2>1, <3>2 DEF ExchangeRefresh, TokenRows, Numbered
    <3> QED BY <2>7, <3>1, <3>2
  <2>8. CASE \E s \in Request :
               \/ \E row \in codes : LoadCode(s, row)
               \/ \E row \in tokens : LoadRefresh(s, row)
               \/ ExchangeFails(s) \/ Dies(s)
    BY <2>1, <2>8 DEF LoadCode, LoadRefresh, ExchangeFails, Dies, tables
  <2> QED BY <2>2, <2>3, <2>4, <2>5, <2>6, <2>7, <2>8 DEF Next, Rows, Exchanges
<1> QED BY <1>1, Invariance, PTL DEF Spec, SpentStaysSpent
=============================================================================
