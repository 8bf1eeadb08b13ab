---------------------------- MODULE RefreshTokens ----------------------------
(***************************************************************************)
(* Accounts and refresh-token sessions: register, login, refresh, logout   *)
(* (src/app/services/auth/service.py over the refresh_tokens table).       *)
(*                                                                         *)
(* Every HTTP request runs in a thread of its own with its own database    *)
(* session.  PostgreSQL runs at READ COMMITTED, no row is read FOR UPDATE, *)
(* and a service decides on the row it read before its first write.  A     *)
(* request is therefore a slot r with a program counter: it begins with    *)
(* the SELECT and the checks, and its writes take effect together when it  *)
(* commits; between the two steps any other slot may commit.  An UPDATE    *)
(* holds its row lock from the statement to the commit, which delays       *)
(* another UPDATE of the row but changes no outcome, so the statements and *)
(* the commit of one transaction are one step.                             *)
(***************************************************************************)
CONSTANTS
  User,      \* normalised email addresses
  Family,    \* family_id values, one per login
  Token,     \* token_jti values
  Request,   \* request slots: how many requests can be in flight at once
  None       \* NULL

ASSUME NoneAssumption == None \notin User \cup Family \cup Token

VARIABLES
  \* table users
  accounts,    \* users with a committed row
  blocked,     \* users with account_status BLOCKED
  \* table refresh_tokens, one row per token
  family,      \* family[t]: family_id, None when there is no row
  revoked,     \* rows with revoked_at set
  replacedBy,  \* replacedBy[t]: replaced_by_jti
  expired,     \* rows whose expires_at has passed
  \* requests in flight
  pc,          \* pc[r]: what slot r is doing
  tok,         \* tok[r]: the token it presented, or the one it answers with
  usr,         \* usr[r]: the user it registers or logs in
  sweep,       \* sweep[r]: the rows revoke_family has selected
  \* what clients know, and history the properties need
  client,      \* client[f]: the last token of session f a client received
  parent,      \* parent[t]: the token t was issued in exchange for
  reported,    \* sessions answered "reuse detected; the family was revoked"
  closed,      \* sessions ended by a logout or by an expiry
  overlapped,  \* sessions on which two transactions were open at once
  spoiled      \* sessions whose client lost an answer, did not wait for
               \* one, presented a token it had exchanged, or logged out

users   == <<accounts, blocked>>
rows    == <<family, revoked, replacedBy, expired>>
slots   == <<pc, tok, usr, sweep>>
history == <<client, parent, reported, closed, overlapped, spoiled>>
vars    == <<users, rows, slots, history>>

InTransaction == {"rotating", "expiring", "detecting", "sweeping", "leaving"}
States == InTransaction \cup {"idle", "registering", "opening", "answering"}

Issued  == {t \in Token : family[t] # None}
Opened  == {family[t] : t \in Issued}
Live(f) == {t \in Issued \ revoked : family[t] = f}

\* The slots working on session f, and those whose transaction is open.
Busy(f) == {r \in Request : tok[r] # None /\ family[tok[r]] = f}
Open(f) == {r \in Busy(f) : pc[r] \in InTransaction}

-----------------------------------------------------------------------------
Init ==
  /\ accounts = {} /\ blocked = {}
  /\ family = [t \in Token |-> None]
  /\ revoked = {} /\ expired = {}
  /\ replacedBy = [t \in Token |-> None]
  /\ pc = [r \in Request |-> "idle"]
  /\ tok = [r \in Request |-> None]
  /\ usr = [r \in Request |-> None]
  /\ sweep = [r \in Request |-> {}]
  /\ client = [f \in Family |-> None]
  /\ parent = [t \in Token |-> None]
  /\ reported = {} /\ closed = {} /\ overlapped = {} /\ spoiled = {}

\* Slot r becomes what it was before its request: the answer, if any, is an
\* error or carries no token.
Finish(r) ==
  /\ pc' = [pc EXCEPT ![r] = "idle"]
  /\ tok' = [tok EXCEPT ![r] = None]
  /\ usr' = [usr EXCEPT ![r] = None]
  /\ sweep' = [sweep EXCEPT ![r] = {}]

\* The row of a new token of session f, inserted by the transaction of r.
Insert(r, t, f) ==
  /\ t \notin Issued
  /\ family' = [family EXCEPT ![t] = f]
  /\ pc' = [pc EXCEPT ![r] = "answering"]
  /\ tok' = [tok EXCEPT ![r] = t]
  /\ UNCHANGED <<usr, sweep>>

-----------------------------------------------------------------------------
(* register: the account and its first session are two transactions.       *)

RegisterBegin(r, u) ==
  /\ pc[r] = "idle"
  /\ u \notin accounts
  /\ pc' = [pc EXCEPT ![r] = "registering"]
  /\ usr' = [usr EXCEPT ![r] = u]
  /\ UNCHANGED <<users, rows, tok, sweep, history>>

RegisterCommit(r) ==
  /\ pc[r] = "registering"
  /\ usr[r] \notin accounts
  /\ accounts' = accounts \cup {usr[r]}
  /\ pc' = [pc EXCEPT ![r] = "opening"]
  /\ UNCHANGED <<blocked, rows, tok, usr, sweep, history>>

\* The email was registered meanwhile: the unique constraint refuses the row.
RegisterConflict(r) ==
  /\ pc[r] = "registering"
  /\ usr[r] \in accounts
  /\ Finish(r)
  /\ UNCHANGED <<users, rows, history>>

LoginBegin(r, u) ==
  /\ pc[r] = "idle"
  /\ u \in accounts \ blocked
  /\ pc' = [pc EXCEPT ![r] = "opening"]
  /\ usr' = [usr EXCEPT ![r] = u]
  /\ UNCHANGED <<users, rows, tok, sweep, history>>

\* _build_token_response without a token: a first token in a new family.
OpenSession(r) ==
  /\ pc[r] = "opening"
  /\ \E t \in Token, f \in Family \ Opened : Insert(r, t, f)
  /\ UNCHANGED <<users, revoked, replacedBy, expired, history>>

-----------------------------------------------------------------------------
(* refresh and logout                                                      *)

\* Slot r reads the row of t and goes on to do what s names.
Begin(r, t, s) ==
  /\ pc[r] = "idle"
  /\ t \in Issued
  /\ pc' = [pc EXCEPT ![r] = s]
  /\ tok' = [tok EXCEPT ![r] = t]
  /\ overlapped' = IF Open(family[t]) = {} THEN overlapped
                                           ELSE overlapped \cup {family[t]}
  /\ UNCHANGED <<users, rows, usr, sweep, client, parent, reported, closed>>

\* A patient client presents the last token it received, and only once it
\* has the answer to its previous request.
Present(r, t, s) ==
  /\ Begin(r, t, s)
  /\ spoiled' = IF t = client[family[t]] /\ Busy(family[t]) = {}
                THEN spoiled ELSE spoiled \cup {family[t]}

\* Faulty variant: a logged-out token is taken for a live one.
RefreshLiveOrLoggedOut(r, t) ==
  /\ t \notin revoked \/ replacedBy[t] = None
  /\ t \notin expired
  /\ Present(r, t, "rotating")

RefreshLive(r, t) ==
  /\ t \notin revoked
  /\ t \notin expired
  /\ Present(r, t, "rotating")

RefreshExpired(r, t) ==
  /\ t \notin revoked
  /\ t \in expired
  /\ Present(r, t, "expiring")

\* A revoked token without a replacement is refused and nothing changes.
RefreshReplaced(r, t) ==
  /\ t \in revoked
  /\ replacedBy[t] # None
  /\ Present(r, t, "detecting")

\* Faulty variants: the child's row is never added; the parent stays usable;
\* the child gets a family of its own.
RotateWithoutRow(r) ==
  /\ pc[r] = "rotating"
  /\ \E t \in Token \ Issued :
       /\ replacedBy' = [replacedBy EXCEPT ![tok[r]] = t]
       /\ parent' = [parent EXCEPT ![t] = tok[r]]
       /\ tok' = [tok EXCEPT ![r] = t]
  /\ pc' = [pc EXCEPT ![r] = "answering"]
  /\ revoked' = revoked \cup {tok[r]}
  /\ UNCHANGED <<users, family, expired, usr, sweep,
                 client, reported, closed, overlapped, spoiled>>

RotateKeepingParent(r) ==
  /\ pc[r] = "rotating"
  /\ \E t \in Token :
       /\ Insert(r, t, family[tok[r]])
       /\ replacedBy' = [replacedBy EXCEPT ![tok[r]] = t]
       /\ parent' = [parent EXCEPT ![t] = tok[r]]
  /\ UNCHANGED <<users, revoked, expired, client, reported, closed, overlapped, spoiled>>

RotateIntoNewFamily(r) ==
  /\ pc[r] = "rotating"
  /\ \E t \in Token, f \in Family \ Opened :
       /\ Insert(r, t, f)
       /\ replacedBy' = [replacedBy EXCEPT ![tok[r]] = t]
       /\ parent' = [parent EXCEPT ![t] = tok[r]]
  /\ revoked' = revoked \cup {tok[r]}
  /\ UNCHANGED <<users, expired, client, reported, closed, overlapped, spoiled>>

RotateCommit(r) ==
  /\ pc[r] = "rotating"
  /\ \E t \in Token :
       /\ Insert(r, t, family[tok[r]])
       /\ replacedBy' = [replacedBy EXCEPT ![tok[r]] = t]
       /\ parent' = [parent EXCEPT ![t] = tok[r]]
  /\ revoked' = revoked \cup {tok[r]}
  /\ UNCHANGED <<users, expired, client, reported, closed, overlapped, spoiled>>

\* Faulty variant: the UPDATE writes every column of the row that was read.
RevokeWholeRow(r) ==
  /\ revoked' = revoked \cup {tok[r]}
  /\ replacedBy' = [replacedBy EXCEPT ![tok[r]] = None]
  /\ closed' = closed \cup {family[tok[r]]}
  /\ Finish(r)
  /\ UNCHANGED <<users, family, expired, client, parent, reported, overlapped>>

\* Only revoked_at is written: replaced_by_jti was read as None and is set
\* to None, so the session emits no change of it.
Revoke(r) ==
  /\ revoked' = revoked \cup {tok[r]}
  /\ closed' = closed \cup {family[tok[r]]}
  /\ Finish(r)
  /\ UNCHANGED <<users, family, replacedBy, expired,
                 client, parent, reported, overlapped>>

ExpireCommit(r) ==
  /\ pc[r] = "expiring"
  /\ Revoke(r)
  /\ UNCHANGED spoiled

\* Faulty variants: only the direct successor is revoked; the family is not
\* in the WHERE clause.
SweepSelectSuccessor(r) ==
  /\ pc[r] = "detecting"
  /\ pc' = [pc EXCEPT ![r] = "sweeping"]
  /\ sweep' = [sweep EXCEPT ![r] = {replacedBy[tok[r]]} \ revoked]
  /\ UNCHANGED <<users, rows, tok, usr, history>>

SweepSelectEveryFamily(r) ==
  /\ pc[r] = "detecting"
  /\ pc' = [pc EXCEPT ![r] = "sweeping"]
  /\ sweep' = [sweep EXCEPT ![r] = Issued \ revoked]
  /\ UNCHANGED <<users, rows, tok, usr, history>>

\* revoke_family: SELECT the family's active rows, then UPDATE those.
SweepSelect(r) ==
  /\ pc[r] = "detecting"
  /\ pc' = [pc EXCEPT ![r] = "sweeping"]
  /\ sweep' = [sweep EXCEPT ![r] = Live(family[tok[r]])]
  /\ UNCHANGED <<users, rows, tok, usr, history>>

SweepCommit(r) ==
  /\ pc[r] = "sweeping"
  /\ revoked' = revoked \cup sweep[r]
  /\ reported' = reported \cup {family[tok[r]]}
  /\ Finish(r)
  /\ UNCHANGED <<users, family, replacedBy, expired,
                 client, parent, closed, overlapped, spoiled>>

\* A logout with a revoked token answers at once and changes nothing.
LogoutBegin(r, t) ==
  /\ t \notin revoked
  /\ Begin(r, t, "leaving")
  /\ spoiled' = spoiled \cup {family[t]}

LogoutCommit(r) ==
  /\ pc[r] = "leaving"
  /\ Revoke(r)
  /\ UNCHANGED spoiled

-----------------------------------------------------------------------------
(* The network, the process, the clock and the operator.                   *)

Deliver(r) ==
  /\ pc[r] = "answering"
  /\ client' = [client EXCEPT ![family[tok[r]]] = tok[r]]
  /\ Finish(r)
  /\ UNCHANGED <<users, rows, parent, reported, closed, overlapped, spoiled>>

\* The worker dies or the statement fails: an open transaction is rolled
\* back; an answer of a committed one is lost.
Crash(r) ==
  /\ pc[r] # "idle"
  /\ spoiled' = IF pc[r] = "answering" THEN spoiled \cup {family[tok[r]]}
                                       ELSE spoiled
  /\ Finish(r)
  /\ UNCHANGED <<users, rows, client, parent, reported, closed, overlapped>>

\* Every token lives equally long, so a token outlives the one it replaced.
Expire(t) ==
  /\ t \in Issued \ expired
  /\ parent[t] # None => parent[t] \in expired
  /\ expired' = expired \cup {t}
  /\ UNCHANGED <<users, family, revoked, replacedBy, slots, history>>

\* No code under src/ sets or clears BLOCKED; an operator does.
SetBlocked(u) ==
  /\ u \in accounts
  /\ blocked' = IF u \in blocked THEN blocked \ {u} ELSE blocked \cup {u}
  /\ UNCHANGED <<accounts, rows, slots, history>>

Next ==
  \/ \E r \in Request :
       \/ \E u \in User : RegisterBegin(r, u) \/ LoginBegin(r, u)
       \/ \E t \in Token :
            \/ RefreshLive(r, t)
            \/ RefreshExpired(r, t)
            \/ RefreshReplaced(r, t)
            \/ LogoutBegin(r, t)
       \/ RegisterCommit(r)
       \/ RegisterConflict(r)
       \/ OpenSession(r)
       \/ RotateCommit(r)
       \/ ExpireCommit(r)
       \/ SweepSelect(r)
       \/ SweepCommit(r)
       \/ LogoutCommit(r)
       \/ Deliver(r)
       \/ Crash(r)
  \/ \E t \in Token : Expire(t)
  \/ \E u \in User : SetBlocked(u)

Spec == Init /\ [][Next]_vars

-----------------------------------------------------------------------------
(* Properties                                                              *)

\* Type invariant: a row's family, its replacement and what each slot holds.
TypeOK ==
  /\ accounts \subseteq User /\ blocked \subseteq accounts
  /\ family \in [Token -> Family \cup {None}]
  /\ revoked \subseteq Issued /\ expired \subseteq Issued
  /\ replacedBy \in [Token -> Token \cup {None}]
  /\ pc \in [Request -> States]
  /\ tok \in [Request -> Token \cup {None}]
  /\ usr \in [Request -> User \cup {None}]
  /\ sweep \in [Request -> SUBSET Token]
  /\ client \in [Family -> Token \cup {None}]
  /\ parent \in [Token -> Token \cup {None}]
  /\ reported \subseteq Family /\ closed \subseteq Family
  /\ overlapped \subseteq Family /\ spoiled \subseteq Family
  /\ \A r \in Request :
       /\ pc[r] \in InTransaction \cup {"answering"} => tok[r] \in Issued
       /\ pc[r] = "registering" => usr[r] \in User
       /\ sweep[r] \subseteq Issued

\* Whatever the interleaving of rotations, logouts and sweeps: a token that
\* was exchanged is revoked and still carries its replaced_by_jti, so that
\* presenting it again is detected as reuse and not taken for a logout
\* (service.py:87-103); the replacement is a row issued in exchange for it
\* in the same family.
ExchangedTokensStayDetectable ==
  /\ \A t \in Issued : parent[t] # None =>
       /\ parent[t] \in revoked
       /\ replacedBy[parent[t]] # None
  /\ \A t \in Token : replacedBy[t] # None =>
       /\ t \in revoked
       /\ parent[replacedBy[t]] = t
       /\ family[replacedBy[t]] = family[t]

\* A session without a usable token and without a rotation under way is over
\* for good: no request that starts later revives it, however logouts,
\* sweeps and expiries interleave (service.py:87-103, 121-126).
Over(f) ==
  /\ f \in Opened
  /\ Live(f) = {}
  /\ \A r \in Request : pc[r] = "rotating" => family[tok[r]] # f

DeathIsFinal == [][\A f \in Family : Over(f) => Over(f)']_vars

\* Rotation leaves one usable token per session as long as no two
\* transactions of the session overlap (service.py:114-117).
OneLiveToken ==
  \A f \in Family \ overlapped : \A t, u \in Live(f) : t = u

\* A session that was reported as revoked, or ended by a logout or an expiry,
\* has no usable token, unless transactions of the session overlapped
\* (service.py:87-99, 105-112, 121-126).
EndedSessionsAreDead ==
  \A f \in (reported \cup closed) \ overlapped : Live(f) = {}

\* A client that waits for each answer, presents the last token it received
\* and loses no answer keeps its session, even when requests of its own
\* crash before they commit: nobody else's requests can end it.
PatientClientKeepsSession ==
  \A f \in Family \ spoiled :
    /\ client[f] # None
    /\ client[f] \notin expired
    /\ Busy(f) = {}
    => client[f] \in Live(f)

\* The store implements one chain of tokens per session: see SessionChain.
Chain == INSTANCE SessionChain WITH
  current  <- [f \in Family |->
                 IF f \in overlapped \/ Live(f) = {} THEN None
                 ELSE CHOOSE t \in Live(f) : TRUE],
  opened   <- Opened,
  used     <- Issued,
  branched <- overlapped

ImplementsSessionChain == Chain!Spec

\* service.py:95 answers "Refresh token reuse detected; the session family
\* was revoked.": after that answer no token of the family is usable.
ReportedFamilyIsRevoked == \A f \in reported : Live(f) = {}
=============================================================================
