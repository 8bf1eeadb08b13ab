------------------------- MODULE RefreshTokensProofs -------------------------
(***************************************************************************)
(* Proofs about RefreshTokens for any number of users, sessions, tokens    *)
(* and concurrent requests.                                                *)
(***************************************************************************)
EXTENDS RefreshTokens, TLAPS

\* Every variable keeps its type, revoked and expired tokens are rows, and a
\* request that has read a row still names a row (service.py:76-179).
THEOREM TypeCorrect == Spec => []TypeOK
<1>1. Init => TypeOK
  BY DEF Init, TypeOK, Issued, States, InTransaction
<1>2. TypeOK /\ [Next]_vars => TypeOK'
  <2> SUFFICES ASSUME TypeOK, [Next]_vars PROVE TypeOK'
    OBVIOUS
  <2> USE NoneAssumption DEF TypeOK, Issued, States, InTransaction,
                             users, rows, slots, history
  <2>1. ASSUME NEW r \in Request, NEW u \in User, RegisterBegin(r, u) \/ LoginBegin(r, u)
        PROVE  TypeOK'
    BY <2>1 DEF RegisterBegin, LoginBegin
  <2>2. ASSUME NEW r \in Request, NEW t \in Token,
               RefreshLive(r, t) \/ RefreshExpired(r, t) \/ RefreshReplaced(r, t)
                 \/ LogoutBegin(r, t)
        PROVE  TypeOK'
    <3>1. /\ family[t] \in Family
          /\ overlapped' \in {overlapped, overlapped \cup {family[t]}}
          /\ spoiled' \in {spoiled, spoiled \cup {family[t]}}
          /\ \E s \in InTransaction : pc' = [pc EXCEPT ![r] = s]
          /\ t \in Issued
          /\ tok' = [tok EXCEPT ![r] = t]
          /\ UNCHANGED <<users, rows, usr, sweep, client, parent, reported, closed>>
      BY <2>2 DEF RefreshLive, RefreshExpired, RefreshReplaced, LogoutBegin, Present, Begin
    <3>2. QED
      BY <3>1
  <2>3. ASSUME NEW r \in Request, RegisterCommit(r) \/ RegisterConflict(r)
        PROVE  TypeOK'
    <3>1. CASE RegisterCommit(r)
      BY <3>1 DEF RegisterCommit
    <3>2. CASE RegisterConflict(r)
      BY <3>2 DEF RegisterConflict, Finish
    <3>3. QED
      BY <2>3, <3>1, <3>2
  <2>4. ASSUME NEW r \in Request, OpenSession(r)
        PROVE  TypeOK'
    BY <2>4 DEF OpenSession, Insert, Opened
  <2>5. ASSUME NEW r \in Request, RotateCommit(r)
        PROVE  TypeOK'
    BY <2>5 DEF RotateCommit, Insert
  <2>6. ASSUME NEW r \in Request, ExpireCommit(r) \/ LogoutCommit(r)
        PROVE  TypeOK'
    BY <2>6 DEF ExpireCommit, LogoutCommit, Revoke, Finish
  <2>7. ASSUME NEW r \in Request, SweepSelect(r)
        PROVE  TypeOK'
    BY <2>7 DEF SweepSelect, Live
  <2>8. ASSUME NEW r \in Request, SweepCommit(r)
        PROVE  TypeOK'
    BY <2>8 DEF SweepCommit, Finish
  <2>9. ASSUME NEW r \in Request, Deliver(r) \/ Crash(r)
        PROVE  TypeOK'
    <3>1. CASE Deliver(r)
      BY <3>1 DEF Deliver, Finish
    <3>2. CASE Crash(r)
      BY <3>2 DEF Crash, Finish
    <3>3. QED
      BY <2>9, <3>1, <3>2
  <2>10. ASSUME NEW t \in Token, Expire(t)
         PROVE  TypeOK'
    BY <2>10 DEF Expire
  <2>11. ASSUME NEW u \in User, SetBlocked(u)
         PROVE  TypeOK'
    BY <2>11 DEF SetBlocked
  <2>12. CASE UNCHANGED vars
    BY <2>12 DEF vars
  <2>13. QED
    BY <2>1, <2>2, <2>3, <2>4, <2>5, <2>6, <2>7, <2>8, <2>9, <2>10, <2>11, <2>12 DEF Next
<1>3. QED
  BY <1>1, <1>2, PTL DEF Spec

-----------------------------------------------------------------------------
(* Exchanged tokens stay detectable.                                       *)

\* The strengthening: a token that is not a row yet was exchanged for nothing.
DetectInv ==
  /\ ExchangedTokensStayDetectable
  /\ \A t \in Token \ Issued : parent[t] = None

\* A step that writes no row and no parent keeps DetectInv.
LEMMA DetectInvFrame ==
  ASSUME DetectInv, UNCHANGED <<family, revoked, replacedBy, parent>>
  PROVE  DetectInv'
BY DEF DetectInv, ExchangedTokensStayDetectable, Issued

\* Whatever races with what, a token that was exchanged is revoked and
\* names its replacement (service.py:87-117, refresh_token_repository.py:26-45).
THEOREM ExchangeCorrect == Spec => []ExchangedTokensStayDetectable
<1>1. Init => DetectInv
  BY DEF Init, DetectInv, ExchangedTokensStayDetectable, Issued
<1>2. TypeOK /\ DetectInv /\ [Next]_vars => DetectInv'
  <2> SUFFICES ASSUME TypeOK, DetectInv, [Next]_vars PROVE DetectInv'
    OBVIOUS
  <2>1. ASSUME NEW r \in Request, OpenSession(r)
        PROVE  DetectInv'
    BY <2>1, NoneAssumption DEF OpenSession, Insert, Opened, TypeOK, DetectInv,
       ExchangedTokensStayDetectable, Issued, history
  <2>2. ASSUME NEW r \in Request, RotateCommit(r)
        PROVE  DetectInv'
    <3>1. tok[r] \in Issued
      BY <2>2 DEF RotateCommit, TypeOK, InTransaction
    <3>2. PICK t \in Token \ Issued :
            /\ family' = [family EXCEPT ![t] = family[tok[r]]]
            /\ replacedBy' = [replacedBy EXCEPT ![tok[r]] = t]
            /\ parent' = [parent EXCEPT ![t] = tok[r]]
            /\ revoked' = revoked \cup {tok[r]}
      BY <2>2 DEF RotateCommit, Insert
    <3>3. t \notin revoked /\ t # tok[r] /\ parent[t] = None
      BY <3>1, <3>2 DEF TypeOK, DetectInv
    <3>4. Issued' = Issued \cup {t}
      BY <3>1, <3>2, NoneAssumption DEF Issued, TypeOK
    <3>5. ASSUME NEW u \in Issued', parent'[u] # None
          PROVE  parent'[u] \in revoked' /\ replacedBy'[parent'[u]] # None
      <4>1. CASE u = t
        BY <3>1, <3>2, <4>1, NoneAssumption DEF TypeOK, Issued
      <4>2. CASE u # t
        BY <3>1, <3>2, <3>4, <3>5, <4>2, NoneAssumption
           DEF TypeOK, Issued, DetectInv, ExchangedTokensStayDetectable
      <4>3. QED
        BY <4>1, <4>2
    <3>6. ASSUME NEW u \in Token, replacedBy'[u] # None
          PROVE  /\ u \in revoked'
                 /\ parent'[replacedBy'[u]] = u
                 /\ family'[replacedBy'[u]] = family'[u]
      <4>1. CASE u = tok[r]
        BY <3>1, <3>2, <3>3, <4>1 DEF TypeOK, Issued
      <4>2. CASE u # tok[r]
        <5>1. /\ replacedBy'[u] = replacedBy[u]
              /\ u \in revoked
              /\ parent[replacedBy[u]] = u
              /\ family[replacedBy[u]] = family[u]
              /\ replacedBy[u] \in Token
          BY <3>2, <3>6, <4>2 DEF TypeOK, DetectInv, ExchangedTokensStayDetectable
        <5>2. u # t /\ replacedBy[u] # t
          BY <3>3, <5>1, NoneAssumption
        <5>3. QED
          BY <3>2, <5>1, <5>2 DEF TypeOK
      <4>3. QED
        BY <4>1, <4>2
    <3>7. \A u \in Token \ Issued' : parent'[u] = None
      BY <3>2, <3>4 DEF TypeOK, DetectInv
    <3>8. QED
      BY <3>5, <3>6, <3>7 DEF DetectInv, ExchangedTokensStayDetectable
  <2>3. ASSUME NEW r \in Request, ExpireCommit(r) \/ LogoutCommit(r) \/ SweepCommit(r)
        PROVE  DetectInv'
    BY <2>3 DEF ExpireCommit, LogoutCommit, SweepCommit, Revoke, DetectInv,
       ExchangedTokensStayDetectable, Issued
  <2>4. ASSUME NEW r \in Request, NEW t \in Token,
               RefreshLive(r, t) \/ RefreshExpired(r, t) \/ RefreshReplaced(r, t)
                 \/ LogoutBegin(r, t)
        PROVE  DetectInv'
    BY <2>4, DetectInvFrame DEF RefreshLive, RefreshExpired, RefreshReplaced,
       LogoutBegin, Present, Begin, rows
  <2>5. ASSUME NEW r \in Request, NEW u \in User,
               RegisterBegin(r, u) \/ LoginBegin(r, u)
        PROVE  DetectInv'
    BY <2>5, DetectInvFrame DEF RegisterBegin, LoginBegin, rows, history
  <2>6. ASSUME NEW r \in Request,
               RegisterCommit(r) \/ RegisterConflict(r) \/ SweepSelect(r)
                 \/ Deliver(r) \/ Crash(r)
        PROVE  DetectInv'
    BY <2>6, DetectInvFrame DEF RegisterCommit, RegisterConflict, SweepSelect,
       Deliver, Crash, rows, history
  <2>7. ASSUME NEW u \in User, SetBlocked(u)
        PROVE  DetectInv'
    BY <2>7, DetectInvFrame DEF SetBlocked, rows, history
  <2>8. ASSUME NEW t \in Token, Expire(t)
        PROVE  DetectInv'
    BY <2>8, DetectInvFrame DEF Expire, history
  <2>9. CASE UNCHANGED vars
    BY <2>9, DetectInvFrame DEF vars, rows, history
  <2>10. QED
    BY <2>1, <2>2, <2>3, <2>4, <2>5, <2>6, <2>7, <2>8, <2>9 DEF Next
<1>3. DetectInv => ExchangedTokensStayDetectable
  BY DEF DetectInv
<1>4. QED
  BY <1>1, <1>2, <1>3, TypeCorrect, PTL DEF Spec

-----------------------------------------------------------------------------
(* Sessions on which no two transactions overlapped.                       *)

\* What the open transaction of r knows about its session: it is the only
\* one, the row it will revoke is still live, and the rows it selected are
\* all the live ones.
Alone(r) ==
  LET f == family[tok[r]]
  IN  /\ \A q \in Request : pc[q] \in InTransaction /\ family[tok[q]] = f => q = r
      /\ pc[r] \in {"rotating", "expiring", "leaving"} => tok[r] \notin revoked
      /\ pc[r] = "sweeping" => Live(f) \subseteq sweep[r]

\* revoke_family selects rows of the presented token's family only.
SweepsOwnFamily ==
  \A r \in Request :
    pc[r] = "sweeping" => \A t \in sweep[r] : family[t] = family[tok[r]]

SequentialInv ==
  /\ SweepsOwnFamily
  /\ reported \cup closed \subseteq Opened
  /\ OneLiveToken
  /\ EndedSessionsAreDead
  /\ \A r \in Request :
       pc[r] \in InTransaction /\ family[tok[r]] \notin overlapped => Alone(r)

\* A step that writes no row and opens no transaction keeps SequentialInv;
\* it may close the transaction of one slot.
LEMMA SequentialFrame ==
  ASSUME TypeOK, SequentialInv,
         UNCHANGED <<family, revoked, reported, closed, overlapped>>,
         \A q \in Request : pc'[q] \in InTransaction =>
           pc'[q] = pc[q] /\ tok'[q] = tok[q] /\ sweep'[q] = sweep[q]
  PROVE  SequentialInv'
<1>1. (SweepsOwnFamily /\ OneLiveToken /\ EndedSessionsAreDead /\ reported \cup closed \subseteq Opened)'
  BY DEF SequentialInv, SweepsOwnFamily, OneLiveToken, EndedSessionsAreDead,
         InTransaction, TypeOK, Live, Issued, Opened
<1>2. ASSUME NEW r \in Request, pc'[r] \in InTransaction, family'[tok'[r]] \notin overlapped'
      PROVE  Alone(r)'
  <2>1. Alone(r)
    BY <1>2 DEF SequentialInv
  <2>2. QED
    BY <1>2, <2>1 DEF Alone, Live, Issued
<1>3. QED
  BY <1>1, <1>2 DEF SequentialInv

\* A request that begins on session f: either no transaction of f is open,
\* or f counts as overlapped from now on.
LEMMA SequentialBegin ==
  ASSUME TypeOK, SequentialInv,
         NEW r \in Request, NEW t \in Token, NEW s \in InTransaction \ {"sweeping"},
         Begin(r, t, s), s # "detecting" => t \notin revoked
  PROVE  SequentialInv'
<1> USE DEF InTransaction
<1>1. /\ pc[r] = "idle" /\ t \in Issued
      /\ pc' = [pc EXCEPT ![r] = s] /\ tok' = [tok EXCEPT ![r] = t]
      /\ UNCHANGED <<family, revoked, reported, closed, sweep>>
      /\ overlapped \subseteq overlapped'
      /\ family[t] \notin overlapped' => Open(family[t]) = {}
  BY DEF Begin, rows
<1>2. (SweepsOwnFamily /\ OneLiveToken /\ EndedSessionsAreDead /\ reported \cup closed \subseteq Opened)'
  BY <1>1 DEF SequentialInv, SweepsOwnFamily, OneLiveToken, EndedSessionsAreDead,
         InTransaction, TypeOK, Live, Issued, Opened
<1>3. ASSUME NEW q \in Request, pc'[q] \in InTransaction, family'[tok'[q]] \notin overlapped'
      PROVE  Alone(q)'
  <2>1. \A p \in Request : pc[p] \in InTransaction => tok[p] \in Issued
    BY DEF TypeOK
  <2>2. ASSUME NEW p \in Request \ {r}, pc[p] \in InTransaction,
               family[t] \notin overlapped'
        PROVE  family[tok[p]] # family[t]
    BY <1>1, <2>1, <2>2, NoneAssumption DEF Open, Busy, Issued
  <2>3. CASE q = r
    BY <1>1, <1>3, <2>2, <2>3 DEF Alone, TypeOK
  <2>4. CASE q # r
    <3>1. Alone(q) /\ tok'[q] = tok[q] /\ pc'[q] = pc[q] /\ pc'[r] = s /\ tok'[r] = t
      BY <1>1, <1>3, <2>4 DEF SequentialInv, TypeOK
    <3>2. family[tok[q]] # family[t]
      BY <1>1, <1>3, <2>2, <2>4, <3>1
    <3>3. Live(family[tok[q]])' = Live(family[tok[q]])
      BY <1>1, <3>1 DEF Live, Issued
    <3>4. ASSUME NEW p \in Request, pc'[p] \in InTransaction, family'[tok'[p]] = family'[tok'[q]]
          PROVE  p = q
      BY <1>1, <3>1, <3>2, <3>4 DEF Alone, TypeOK
    <3>5. QED
      BY <1>1, <3>1, <3>3, <3>4 DEF Alone
  <2>5. QED
    BY <2>3, <2>4
<1>4. QED
  BY <1>2, <1>3 DEF SequentialInv

\* A new session has one live token and no transaction.
LEMMA SequentialOpen ==
  ASSUME TypeOK, SequentialInv, NEW r \in Request, OpenSession(r)
  PROVE  SequentialInv'
<1>1. PICK t \in Token \ Issued, f \in Family \ Opened :
        /\ family' = [family EXCEPT ![t] = f]
        /\ pc' = [pc EXCEPT ![r] = "answering"]
        /\ tok' = [tok EXCEPT ![r] = t]
        /\ UNCHANGED <<revoked, sweep, reported, closed, overlapped>>
  BY DEF OpenSession, Insert, history
<1>2. /\ Opened' = Opened \cup {f} /\ Live(f)' = {t}
      /\ \A g \in Family \ {f} : Live(g)' = Live(g)
  BY <1>1, NoneAssumption DEF Opened, Issued, Live, TypeOK
<1>3. f \notin reported \cup closed
  BY <1>1 DEF SequentialInv
<1>4. (SweepsOwnFamily /\ OneLiveToken /\ EndedSessionsAreDead /\ reported \cup closed \subseteq Opened)'
  BY <1>1, <1>2, <1>3 DEF SequentialInv, SweepsOwnFamily, OneLiveToken, EndedSessionsAreDead,
         InTransaction, TypeOK, Issued
<1>5. ASSUME NEW q \in Request, pc'[q] \in InTransaction, family'[tok'[q]] \notin overlapped'
      PROVE  Alone(q)'
  <2>1. \A p \in Request : pc'[p] \in InTransaction =>
          /\ pc'[p] = pc[p] /\ tok'[p] = tok[p] /\ tok[p] \in Issued
          /\ family'[tok[p]] = family[tok[p]] /\ family[tok[p]] \in Family \ {f}
    BY <1>1 DEF TypeOK, InTransaction, Issued, Opened
  <2>2. Alone(q)
    BY <1>1, <1>5, <2>1 DEF SequentialInv
  <2>3. QED
    BY <1>1, <1>2, <1>5, <2>1, <2>2 DEF Alone
<1>6. QED
  BY <1>4, <1>5 DEF SequentialInv

\* A rotation moves the live token of its session from tok[r] to the child.
LEMMA SequentialRotate ==
  ASSUME TypeOK, SequentialInv, NEW r \in Request, RotateCommit(r)
  PROVE  SequentialInv'
<1>1. PICK f \in Family : pc[r] = "rotating" /\ tok[r] \in Issued /\ f = family[tok[r]]
  BY DEF RotateCommit, TypeOK, InTransaction, Issued
<1>2. PICK t \in Token \ Issued :
        /\ family' = [family EXCEPT ![t] = f]
        /\ pc' = [pc EXCEPT ![r] = "answering"]
        /\ tok' = [tok EXCEPT ![r] = t]
        /\ revoked' = revoked \cup {tok[r]}
        /\ UNCHANGED <<sweep, reported, closed, overlapped>>
  BY <1>1 DEF RotateCommit, Insert
<1>3. /\ Opened' = Opened
      /\ Live(f)' = (Live(f) \ {tok[r]}) \cup {t}
      /\ \A g \in Family \ {f} : Live(g)' = Live(g)
  BY <1>1, <1>2, NoneAssumption DEF Opened, Issued, Live, TypeOK
<1>4. f \notin overlapped =>
        /\ Live(f) = {tok[r]} /\ f \notin reported \cup closed
        /\ \A q \in Request : pc[q] \in InTransaction /\ family[tok[q]] = f => q = r
  BY <1>1 DEF SequentialInv, Alone, OneLiveToken, EndedSessionsAreDead, Live, InTransaction
<1>5. (SweepsOwnFamily /\ OneLiveToken /\ EndedSessionsAreDead /\ reported \cup closed \subseteq Opened)'
  BY <1>2, <1>3, <1>4 DEF SequentialInv, SweepsOwnFamily, OneLiveToken, EndedSessionsAreDead,
         InTransaction, TypeOK, Issued
<1>6. ASSUME NEW q \in Request, pc'[q] \in InTransaction, family'[tok'[q]] \notin overlapped'
      PROVE  Alone(q)'
  <2>1. \A p \in Request : pc'[p] \in InTransaction =>
          /\ p # r /\ pc'[p] = pc[p] /\ tok'[p] = tok[p] /\ tok[p] \in Issued
          /\ family'[tok[p]] = family[tok[p]] /\ family[tok[p]] \in Family
    BY <1>2 DEF TypeOK, InTransaction, Issued
  <2>2. Alone(q) /\ family[tok[q]] # f
    BY <1>2, <1>4, <1>6, <2>1 DEF SequentialInv
  <2>3. tok[q] # tok[r]
    BY <1>1, <2>2
  <2>4. QED
    BY <1>2, <1>3, <1>6, <2>1, <2>2, <2>3 DEF Alone
<1>7. QED
  BY <1>5, <1>6 DEF SequentialInv

\* A logout, an expiry or a sweep revokes rows of its own session only where
\* that session may have overlapped; otherwise it revokes all live ones.
LEMMA SequentialRevoke ==
  ASSUME TypeOK, SequentialInv, NEW r \in Request,
         ExpireCommit(r) \/ LogoutCommit(r) \/ SweepCommit(r)
  PROVE  SequentialInv'
<1>1. PICK f \in Family : tok[r] \in Issued /\ f \in Opened /\ f = family[tok[r]]
  BY DEF ExpireCommit, LogoutCommit, SweepCommit, TypeOK, InTransaction, Issued, Opened
<1>2. PICK S \in SUBSET Token :
        /\ pc[r] \in {"expiring", "leaving"} => S = {tok[r]}
        /\ pc[r] = "sweeping" => S = sweep[r]
        /\ revoked' = revoked \cup S
  BY <1>1 DEF ExpireCommit, LogoutCommit, SweepCommit, Revoke, TypeOK, Issued
<1>3. /\ pc[r] \in {"expiring", "leaving", "sweeping"} /\ pc[r] \in InTransaction
      /\ pc' = [pc EXCEPT ![r] = "idle"] /\ tok' = [tok EXCEPT ![r] = None]
      /\ sweep' = [sweep EXCEPT ![r] = {}]
      /\ reported \cup closed \cup {f} = (reported \cup closed)'
      /\ UNCHANGED <<family, overlapped>>
  BY <1>1 DEF ExpireCommit, LogoutCommit, SweepCommit, Revoke, Finish, InTransaction
<1>4. Opened' = Opened /\ \A g \in Family : Live(g)' = Live(g) \ S
  BY <1>2, <1>3 DEF Opened, Live, Issued
<1>5. f \notin overlapped =>
        /\ Live(f)' = {}
        /\ \A q \in Request : pc[q] \in InTransaction /\ family[tok[q]] = f => q = r
  <2>1. SUFFICES ASSUME f \notin overlapped
        PROVE  /\ Live(f) \subseteq S
               /\ \A q \in Request : pc[q] \in InTransaction /\ family[tok[q]] = f => q = r
    BY <1>1, <1>4
  <2>2. Alone(r) /\ \A t, u \in Live(f) : t = u
    <3>1. Alone(r)
      BY <1>1, <1>3, <2>1 DEF SequentialInv
    <3>2. f \in Family \ overlapped
      BY <1>1, <2>1
    <3>3. QED
      BY <3>1, <3>2 DEF SequentialInv, OneLiveToken
  <2>3. CASE pc[r] = "sweeping"
    BY <1>1, <1>2, <2>2, <2>3 DEF Alone
  <2>4. CASE pc[r] \in {"expiring", "leaving"}
    <3>1. tok[r] \in Live(f)
      BY <1>1, <2>2, <2>4 DEF Alone, Live
    <3>2. QED
      BY <1>1, <1>2, <2>2, <2>4, <3>1 DEF Alone
  <2>5. QED
    BY <1>3, <2>3, <2>4
<1>6. (SweepsOwnFamily /\ OneLiveToken /\ EndedSessionsAreDead /\ reported \cup closed \subseteq Opened)'
  <2>1. SweepsOwnFamily'
    BY <1>3 DEF SequentialInv, SweepsOwnFamily, TypeOK
  <2>2. OneLiveToken'
    BY <1>3, <1>4 DEF SequentialInv, OneLiveToken
  <2>3. EndedSessionsAreDead'
    <3>1. ASSUME NEW g \in (reported \cup closed)' \ overlapped'
          PROVE  Live(g)' = {}
      <4>1. CASE g = f
        BY <1>3, <1>5, <3>1, <4>1
      <4>2. CASE g # f
        <5>1. g \in Family /\ Live(g) = {}
          BY <1>3, <3>1, <4>2 DEF SequentialInv, EndedSessionsAreDead, TypeOK
        <5>2. QED
          BY <1>4, <5>1
      <4>3. QED
        BY <4>1, <4>2
    <3>2. QED
      BY <3>1 DEF EndedSessionsAreDead
  <2>4. QED
    BY <1>1, <1>3, <1>4, <2>1, <2>2, <2>3 DEF SequentialInv
<1>7. ASSUME NEW q \in Request, pc'[q] \in InTransaction, family'[tok'[q]] \notin overlapped'
      PROVE  Alone(q)'
  <2>1. \A p \in Request : pc'[p] \in InTransaction =>
          /\ p # r /\ pc'[p] = pc[p] /\ tok'[p] = tok[p] /\ tok[p] \in Issued
          /\ sweep'[p] = sweep[p] /\ family[tok[p]] \in Family
    BY <1>3 DEF TypeOK, InTransaction, Issued
  <2>2. Alone(q) /\ family[tok[q]] # f
    <3>1. Alone(q) /\ q # r /\ tok'[q] = tok[q]
      BY <1>3, <1>7, <2>1 DEF SequentialInv
    <3>2. QED
      BY <1>1, <1>3, <3>1 DEF Alone
  <2>3. tok[q] \notin S
    BY <1>1, <1>2, <1>3, <2>2 DEF SequentialInv, SweepsOwnFamily
  <2>4. QED
    BY <1>2, <1>3, <1>4, <1>7, <2>1, <2>2, <2>3 DEF Alone
<1>8. QED
  BY <1>6, <1>7 DEF SequentialInv

\* Every execution keeps SequentialInv.
LEMMA SequentialInvariant == Spec => []SequentialInv
<1>1. Init => SequentialInv
  BY DEF Init, SequentialInv, SweepsOwnFamily, OneLiveToken, EndedSessionsAreDead,
     Live, Issued, InTransaction
<1>2. TypeOK /\ SequentialInv /\ [Next]_vars => SequentialInv'
  <2> SUFFICES ASSUME TypeOK, SequentialInv, [Next]_vars PROVE SequentialInv'
    OBVIOUS
  <2>1. ASSUME NEW r \in Request, NEW t \in Token,
               RefreshLive(r, t) \/ RefreshExpired(r, t) \/ RefreshReplaced(r, t)
                 \/ LogoutBegin(r, t)
        PROVE  SequentialInv'
    <3>1. \E s \in InTransaction \ {"sweeping"} :
            Begin(r, t, s) /\ (s # "detecting" => t \notin revoked)
      BY <2>1 DEF RefreshLive, RefreshExpired, RefreshReplaced, LogoutBegin,
         Present, InTransaction
    <3>2. QED
      BY <3>1, SequentialBegin
  <2>2. ASSUME NEW r \in Request, NEW u \in User, RegisterBegin(r, u) \/ LoginBegin(r, u)
        PROVE  SequentialInv'
    BY <2>2, SequentialFrame DEF RegisterBegin, LoginBegin, rows, history, InTransaction, TypeOK
  <2>3. ASSUME NEW r \in Request,
               RegisterCommit(r) \/ RegisterConflict(r) \/ Deliver(r) \/ Crash(r)
        PROVE  SequentialInv'
    BY <2>3, SequentialFrame DEF RegisterCommit, RegisterConflict, Deliver, Crash,
       Finish, rows, history, InTransaction, TypeOK
  <2>4. ASSUME NEW r \in Request, OpenSession(r)
        PROVE  SequentialInv'
    BY <2>4, SequentialOpen
  <2>5. ASSUME NEW r \in Request, RotateCommit(r)
        PROVE  SequentialInv'
    BY <2>5, SequentialRotate
  <2>6. ASSUME NEW r \in Request, ExpireCommit(r) \/ LogoutCommit(r) \/ SweepCommit(r)
        PROVE  SequentialInv'
    BY <2>6, SequentialRevoke
  <2>7. ASSUME NEW r \in Request, SweepSelect(r)
        PROVE  SequentialInv'
    <3>1. /\ pc[r] = "detecting"
          /\ pc' = [pc EXCEPT ![r] = "sweeping"]
          /\ sweep' = [sweep EXCEPT ![r] = Live(family[tok[r]])]
          /\ UNCHANGED <<family, revoked, tok, reported, closed, overlapped>>
      BY <2>7 DEF SweepSelect, rows, history
    <3>2. (SweepsOwnFamily /\ OneLiveToken /\ EndedSessionsAreDead
             /\ reported \cup closed \subseteq Opened)'
      BY <3>1 DEF SequentialInv, SweepsOwnFamily, OneLiveToken, EndedSessionsAreDead,
         Live, Issued, Opened, TypeOK
    <3>3. ASSUME NEW q \in Request, pc'[q] \in InTransaction,
                 family'[tok'[q]] \notin overlapped'
          PROVE  Alone(q)'
      <4>1. \A p \in Request : pc'[p] \in InTransaction => pc[p] \in InTransaction
        BY <3>1 DEF InTransaction, TypeOK
      <4>2. Alone(q)
        BY <3>1, <3>3, <4>1 DEF SequentialInv
      <4>3. QED
        BY <3>1, <3>3, <4>1, <4>2 DEF Alone, TypeOK, Live, Issued
    <3>4. QED
      BY <3>2, <3>3 DEF SequentialInv
  <2>8. ASSUME NEW t \in Token, Expire(t)
        PROVE  SequentialInv'
    BY <2>8, SequentialFrame DEF Expire, slots, history
  <2>9. ASSUME NEW u \in User, SetBlocked(u)
        PROVE  SequentialInv'
    BY <2>9, SequentialFrame DEF SetBlocked, rows, slots, history
  <2>10. CASE UNCHANGED vars
    BY <2>10, SequentialFrame DEF vars, rows, slots, history
  <2>11. QED
    BY <2>1, <2>2, <2>3, <2>4, <2>5, <2>6, <2>7, <2>8, <2>9, <2>10 DEF Next
<1>3. QED
  BY <1>1, <1>2, TypeCorrect, PTL DEF Spec

\* A session whose transactions never overlapped has one usable token, and
\* none once it is reported as revoked, logged out or expired
\* (service.py:76-126).
THEOREM SequentialCorrect == Spec => [](OneLiveToken /\ EndedSessionsAreDead)
<1>1. SequentialInv => OneLiveToken /\ EndedSessionsAreDead
  BY DEF SequentialInv
<1>2. QED
  BY <1>1, SequentialInvariant, PTL

-----------------------------------------------------------------------------
(* The end of a session is final.                                          *)

\* No step of any request revives a session without a usable token and
\* without a rotation under way (service.py:87-103, 121-126).
THEOREM DeathCorrect == Spec => DeathIsFinal
<1>1. ASSUME TypeOK, [Next]_vars, NEW f \in Family, Over(f)
      PROVE  Over(f)'
  <2>1. ASSUME NEW r \in Request, OpenSession(r)
        PROVE  Over(f)'
    BY <1>1, <2>1, NoneAssumption DEF OpenSession, Insert, Over, Opened, Issued, Live,
       TypeOK, States, InTransaction
  <2>2. ASSUME NEW r \in Request, RotateCommit(r)
        PROVE  Over(f)'
    <3>1. family[tok[r]] # f /\ tok[r] \in Issued
      BY <1>1, <2>2 DEF RotateCommit, Over, TypeOK, InTransaction
    <3>2. QED
      BY <1>1, <2>2, <3>1, NoneAssumption DEF RotateCommit, Insert, Over, Opened, Issued,
         Live, TypeOK, States, InTransaction
  <2>3. ASSUME NEW r \in Request, ExpireCommit(r) \/ LogoutCommit(r) \/ SweepCommit(r)
        PROVE  Over(f)'
    BY <1>1, <2>3 DEF ExpireCommit, LogoutCommit, SweepCommit, Revoke, Finish, Over,
       Opened, Issued, Live, TypeOK
  <2>4. ASSUME NEW r \in Request, NEW t \in Token, RefreshLive(r, t)
        PROVE  Over(f)'
    BY <1>1, <2>4 DEF RefreshLive, Present, Begin, rows, Over, Opened, Issued, Live, TypeOK
  <2>5. ASSUME NEW r \in Request, NEW t \in Token,
               RefreshExpired(r, t) \/ RefreshReplaced(r, t) \/ LogoutBegin(r, t)
        PROVE  Over(f)'
    BY <1>1, <2>5 DEF RefreshExpired, RefreshReplaced, LogoutBegin, Present, Begin, rows,
       Over, Opened, Issued, Live, TypeOK
  <2>6. ASSUME UNCHANGED <<family, revoked>>,
               \A q \in Request : pc'[q] = "rotating" => pc[q] = "rotating" /\ tok'[q] = tok[q]
        PROVE  Over(f)'
    BY <1>1, <2>6 DEF Over, Opened, Issued, Live
  <2>7. ASSUME NEW r \in Request, NEW u \in User, RegisterBegin(r, u) \/ LoginBegin(r, u)
        PROVE  Over(f)'
    BY <1>1, <2>6, <2>7 DEF RegisterBegin, LoginBegin, rows, TypeOK
  <2>8. ASSUME NEW r \in Request,
               RegisterCommit(r) \/ RegisterConflict(r) \/ SweepSelect(r)
                 \/ Deliver(r) \/ Crash(r)
        PROVE  Over(f)'
    BY <1>1, <2>6, <2>8 DEF RegisterCommit, RegisterConflict, SweepSelect, Deliver, Crash,
       Finish, rows, TypeOK
  <2>9. ASSUME NEW t \in Token, Expire(t)
        PROVE  Over(f)'
    BY <2>6, <2>9 DEF Expire, slots
  <2>10. ASSUME NEW u \in User, SetBlocked(u)
         PROVE  Over(f)'
    BY <2>6, <2>10 DEF SetBlocked, rows, slots
  <2>11. CASE UNCHANGED vars
    BY <2>6, <2>11 DEF vars, rows, slots
  <2>12. QED
    BY <1>1, <2>1, <2>2, <2>3, <2>4, <2>5, <2>7, <2>8, <2>9, <2>10, <2>11 DEF Next
<1>2. TypeOK /\ [Next]_vars => [\A f \in Family : Over(f) => Over(f)']_vars
  BY <1>1
<1>3. QED
  BY <1>2, TypeCorrect, PTL DEF Spec, DeathIsFinal

-----------------------------------------------------------------------------
(* A patient client keeps its session.                                     *)

\* Where a session stands whose client waits for its answers: one slot at most
\* works on it, a token on its way to the client is live, and the client's own
\* token is live until it is exchanged or expires.
Kept(f) ==
  /\ \A q, r \in Busy(f) : q = r
  /\ \A r \in Busy(f) :
       \/ pc[r] = "rotating" /\ tok[r] = client[f] /\ tok[r] \in Live(f)
       \/ pc[r] = "answering" /\ tok[r] \in Live(f)
       \/ pc[r] \in {"expiring", "detecting", "sweeping"} /\ client[f] \in expired
  /\ Busy(f) = {} /\ client[f] # None /\ client[f] \notin expired => client[f] \in Live(f)

\* Only a slot that has read or issued a token holds one; a sweep revokes rows
\* of its own session.
PatientInv ==
  /\ SweepsOwnFamily
  /\ \A r \in Request : tok[r] # None => pc[r] \in InTransaction \cup {"answering"}
  /\ \A f \in Family \ spoiled : Kept(f)

\* A session none of whose rows, slots and answers a step touches stays kept.
LEMMA KeptFrame ==
  ASSUME TypeOK, PatientInv, NEW f \in Family, Kept(f),
         Busy(f)' = Busy(f), Live(f)' = Live(f), client'[f] = client[f],
         expired \subseteq expired',
         \A r \in Busy(f) : tok'[r] = tok[r] /\ pc'[r] = pc[r]
  PROVE  Kept(f)'
  BY DEF Kept

\* Steps that write no row, give no token to a slot and take none from it.
LEMMA PatientFrame ==
  ASSUME TypeOK, PatientInv,
         UNCHANGED <<family, revoked, tok, client, spoiled>>, expired \subseteq expired',
         \A r \in Request : tok[r] # None => pc'[r] = pc[r] /\ sweep'[r] = sweep[r],
         \A r \in Request : pc'[r] = "sweeping" => pc[r] = "sweeping" /\ sweep'[r] = sweep[r]
  PROVE  PatientInv'
<1>1. ASSUME NEW f \in Family \ spoiled
      PROVE  Kept(f)'
  <2>1. Kept(f) /\ Busy(f)' = Busy(f) /\ Live(f)' = Live(f) /\ client'[f] = client[f]
    BY DEF PatientInv, Busy, Live, Issued
  <2>2. \A r \in Busy(f) : tok'[r] = tok[r] /\ pc'[r] = pc[r]
    BY DEF Busy
  <2>3. QED
    BY <2>1, <2>2, KeptFrame
<1>2. SweepsOwnFamily'
  BY DEF PatientInv, SweepsOwnFamily
<1>3. QED
  BY <1>1, <1>2 DEF PatientInv, InTransaction

\* A request is presented: by a patient client with its own token and nothing
\* else under way, or the session is spoiled.
LEMMA PatientPresent ==
  ASSUME TypeOK, PatientInv, NEW r \in Request, NEW t \in Token,
         RefreshLive(r, t) \/ RefreshExpired(r, t) \/ RefreshReplaced(r, t)
           \/ LogoutBegin(r, t)
  PROVE  PatientInv'
<1> DEFINE f == family[t]
<1>1. PICK s \in InTransaction \ {"sweeping"} :
        /\ pc[r] = "idle" /\ t \in Issued
        /\ pc' = [pc EXCEPT ![r] = s] /\ tok' = [tok EXCEPT ![r] = t]
        /\ UNCHANGED <<family, revoked, expired, sweep, client>>
        /\ spoiled \subseteq spoiled'
        /\ f \notin spoiled' =>
             /\ t = client[f] /\ Busy(f) = {}
             /\ \/ s = "rotating" /\ t \notin revoked
                \/ s = "expiring" /\ t \in expired
                \/ s = "detecting" /\ t \in revoked
  BY DEF RefreshLive, RefreshExpired, RefreshReplaced, LogoutBegin, Present, Begin, rows,
         InTransaction
<1>2. tok[r] = None /\ f \in Family
  BY <1>1 DEF PatientInv, TypeOK, InTransaction, Issued
<1>3. (\A q \in Request : tok[q] # None => pc[q] \in InTransaction \cup {"answering"})'
  BY <1>1 DEF PatientInv, TypeOK
<1>4. SweepsOwnFamily'
  BY <1>1 DEF PatientInv, SweepsOwnFamily, TypeOK
<1>5. \A g \in Family : Live(g)' = Live(g)
  BY <1>1 DEF Live, Issued
<1>6. ASSUME NEW g \in Family \ spoiled'
      PROVE  Kept(g)'
  <2>1. Kept(g)
    BY <1>1 DEF PatientInv
  <2>2. CASE g = f
    <3>1. Busy(g)' = {r}
      BY <1>1, <1>2, <2>2, NoneAssumption DEF Busy, TypeOK, Issued
    <3>2. pc'[r] = s /\ tok'[r] = t /\ t = client[g] /\ client'[g] = client[g]
      BY <1>1, <2>2 DEF TypeOK
    <3>3. s = "rotating" => t \in Live(g)'
      BY <1>1, <1>5, <2>2 DEF Live
    <3>4. s = "detecting" => t \in expired'
      BY <1>1, <2>1, <2>2, NoneAssumption DEF Kept, Live, Issued
    <3>5. s \in {"rotating", "expiring", "detecting"} /\ (s = "expiring" => t \in expired')
      BY <1>1, <2>2
    <3>6. QED
      BY <3>1, <3>2, <3>3, <3>4, <3>5 DEF Kept
  <2>3. CASE g # f
    <3>1. Busy(g)' = Busy(g) /\ r \notin Busy(g)
      BY <1>1, <1>2, <2>3 DEF Busy, TypeOK
    <3>2. \A q \in Busy(g) : tok'[q] = tok[q] /\ pc'[q] = pc[q]
      BY <1>1, <3>1 DEF Busy, TypeOK
    <3>3. QED
      BY <1>1, <1>5, <2>1, <3>1, <3>2, KeptFrame
  <2>4. QED
    BY <2>2, <2>3
<1>7. QED
  BY <1>3, <1>4, <1>6 DEF PatientInv

\* A new token, of a new session or by a rotation, is on its way to the client.
LEMMA PatientIssue ==
  ASSUME TypeOK, PatientInv, NEW r \in Request, OpenSession(r) \/ RotateCommit(r)
  PROVE  PatientInv'
<1>1. PICK t \in Token \ Issued, f \in Family :
        /\ family' = [family EXCEPT ![t] = f]
        /\ pc' = [pc EXCEPT ![r] = "answering"] /\ tok' = [tok EXCEPT ![r] = t]
        /\ UNCHANGED <<expired, sweep, client, spoiled>>
        /\ \/ f \notin Opened /\ tok[r] = None /\ revoked' = revoked
           \/ tok[r] \in Issued /\ family[tok[r]] = f /\ revoked' = revoked \cup {tok[r]}
  <2>1. CASE OpenSession(r)
    <3>1. tok[r] = None
      BY <2>1 DEF OpenSession, PatientInv, TypeOK, InTransaction
    <3>2. QED
      BY <2>1, <3>1 DEF OpenSession, Insert, history
  <2>2. CASE RotateCommit(r)
    <3>1. tok[r] \in Issued /\ family[tok[r]] \in Family
      BY <2>2 DEF RotateCommit, TypeOK, InTransaction, Issued
    <3>2. QED
      BY <2>2, <3>1 DEF RotateCommit, Insert
  <2>3. QED
    BY <2>1, <2>2
<1>2. t \notin revoked' /\ t \in Issued' /\ Live(f)' \subseteq Live(f) \cup {t} /\ t \in Live(f)'
  BY <1>1, NoneAssumption DEF TypeOK, Issued, Live
<1>3. \A g \in Family \ {f} : Live(g)' = Live(g)
  BY <1>1, NoneAssumption DEF TypeOK, Issued, Live
<1>4. (\A q \in Request : tok[q] # None => pc[q] \in InTransaction \cup {"answering"})'
  BY <1>1 DEF PatientInv, TypeOK
<1>5. \A q \in Request : tok[q] # None => tok[q] \in Issued
  BY DEF PatientInv, TypeOK
<1>6. SweepsOwnFamily'
  <2> SUFFICES ASSUME NEW q \in Request, pc'[q] = "sweeping", NEW u \in sweep'[q]
               PROVE  family'[u] = family'[tok'[q]]
    BY DEF SweepsOwnFamily
  <2>1. q # r /\ pc[q] = "sweeping" /\ tok'[q] = tok[q] /\ sweep'[q] = sweep[q]
    BY <1>1 DEF TypeOK
  <2>2. u \in Issued /\ tok[q] \in Issued /\ family[u] = family[tok[q]]
    BY <2>1 DEF TypeOK, PatientInv, SweepsOwnFamily, InTransaction
  <2>3. QED
    BY <1>1, <2>1, <2>2 DEF TypeOK
<1>7. ASSUME NEW g \in Family \ spoiled'
      PROVE  Kept(g)'
  <2>1. Kept(g)
    BY <1>1 DEF PatientInv
  <2>2. \A q \in Request \ {r} : q \in Busy(g)' <=> q \in Busy(g)
    BY <1>1, <1>5, NoneAssumption DEF Busy, TypeOK, Issued
  <2>3. CASE g = f
    <3>1. Busy(g) \subseteq {r}
      <4>1. CASE tok[r] = None
        BY <1>1, <1>5, <2>3, <4>1, NoneAssumption DEF Busy, Opened, Issued
      <4>2. CASE tok[r] # None
        <5>1. r \in Busy(g)
          BY <1>1, <2>3, <4>2 DEF Busy
        <5>2. QED
          BY <2>1, <5>1 DEF Kept
      <4>3. QED
        BY <4>1, <4>2
    <3>2. Busy(g)' = {r}
      BY <1>1, <2>2, <2>3, <3>1, NoneAssumption DEF Busy, TypeOK
    <3>3. pc'[r] = "answering" /\ tok'[r] \in Live(g)'
      BY <1>1, <1>2, <2>3 DEF TypeOK
    <3>4. QED
      BY <3>2, <3>3 DEF Kept
  <2>4. CASE g # f
    <3>1. r \notin Busy(g) /\ r \notin Busy(g)'
      BY <1>1, <2>4, NoneAssumption DEF Busy, TypeOK
    <3>2. Busy(g)' = Busy(g)
      BY <2>2, <3>1 DEF Busy
    <3>3. \A q \in Busy(g) : tok'[q] = tok[q] /\ pc'[q] = pc[q]
      BY <1>1, <3>1 DEF Busy, TypeOK
    <3>4. QED
      BY <1>1, <1>3, <2>1, <2>4, <3>2, <3>3, KeptFrame
  <2>5. QED
    BY <2>3, <2>4
<1>8. QED
  BY <1>4, <1>6, <1>7 DEF PatientInv

\* A slot that ends: an expiry or a logout commits, a sweep commits, an answer
\* arrives, or the worker dies.
LEMMA PatientEnd ==
  ASSUME TypeOK, PatientInv, NEW r \in Request,
         ExpireCommit(r) \/ LogoutCommit(r) \/ SweepCommit(r) \/ Deliver(r) \/ Crash(r)
            \/ RegisterConflict(r)
  PROVE  PatientInv'
<1>1. /\ Finish(r)
      /\ UNCHANGED <<family, expired>>
      /\ spoiled \subseteq spoiled'
  BY DEF ExpireCommit, LogoutCommit, SweepCommit, Revoke, Deliver, Crash, RegisterConflict,
         rows, history
<1>2. pc'[r] = "idle" /\ tok'[r] = None
      /\ \A q \in Request \ {r} : pc'[q] = pc[q] /\ tok'[q] = tok[q] /\ sweep'[q] = sweep[q]
  BY <1>1 DEF Finish, TypeOK
<1>3. (\A q \in Request : tok[q] # None => pc[q] \in InTransaction \cup {"answering"})'
  BY <1>2 DEF PatientInv
<1>4. SweepsOwnFamily'
  BY <1>1, <1>2 DEF PatientInv, SweepsOwnFamily
<1>5. \A g \in Family : Busy(g)' = Busy(g) \ {r}
  BY <1>1, <1>2 DEF Busy
<1>6. ASSUME NEW g \in Family \ spoiled'
      PROVE  Kept(g)'
  <2>1. Kept(g)
    BY <1>1 DEF PatientInv
  <2>2. CASE r \notin Busy(g)
    <3>1. Busy(g)' = Busy(g) /\ \A q \in Busy(g) : tok'[q] = tok[q] /\ pc'[q] = pc[q]
      BY <1>2, <1>5, <2>2 DEF Busy
    <3>2. client'[g] = client[g] /\ Live(g)' = Live(g)
      <4>1. ASSUME pc[r] \in InTransaction \cup {"answering"}
            PROVE  tok[r] \in Issued /\ tok[r] # None /\ family[tok[r]] \in Family \ {g}
        BY <2>2, <4>1, NoneAssumption DEF TypeOK, Busy, Issued
      <4>2. CASE ExpireCommit(r) \/ LogoutCommit(r)
        BY <1>1, <4>1, <4>2
           DEF ExpireCommit, LogoutCommit, Revoke, InTransaction, Live, Issued
      <4>3. CASE SweepCommit(r)
        BY <1>1, <4>1, <4>3
           DEF SweepCommit, InTransaction, Live, Issued, PatientInv, SweepsOwnFamily
      <4>4. CASE Deliver(r)
        BY <4>1, <4>4 DEF Deliver, InTransaction, Live, Issued, rows, TypeOK
      <4>5. CASE Crash(r) \/ RegisterConflict(r)
        BY <4>5 DEF Crash, RegisterConflict, Live, Issued, rows, history
      <4>6. QED
        BY <4>2, <4>3, <4>4, <4>5
    <3>3. QED
      BY <1>1, <2>1, <3>1, <3>2, KeptFrame
  <2>3. CASE r \in Busy(g)
    <3>1. Busy(g)' = {} /\ family[tok[r]] = g
      BY <1>5, <2>1, <2>3 DEF Kept, Busy
    <3>2. client'[g] \in expired' \/ client'[g] \in Live(g)'
      <4>1. \/ pc[r] = "rotating" /\ tok[r] = client[g] /\ tok[r] \in Live(g)
            \/ pc[r] = "answering" /\ tok[r] \in Live(g)
            \/ pc[r] \in {"expiring", "detecting", "sweeping"} /\ client[g] \in expired
        BY <2>1, <2>3 DEF Kept
      <4>2. CASE ExpireCommit(r) \/ SweepCommit(r) \/ LogoutCommit(r)
        BY <4>1, <4>2 DEF ExpireCommit, SweepCommit, LogoutCommit, Revoke
      <4>3. CASE Deliver(r)
        BY <3>1, <4>1, <4>3 DEF Deliver, rows, Live, Issued, TypeOK
      <4>4. CASE Crash(r)
        BY <3>1, <4>1, <4>4 DEF Crash, rows, Live, Issued
      <4>5. CASE RegisterConflict(r)
        BY <4>1, <4>5 DEF RegisterConflict
      <4>6. QED
        BY <4>2, <4>3, <4>4, <4>5
    <3>3. QED
      BY <3>1, <3>2 DEF Kept
  <2>4. QED
    BY <2>2, <2>3
<1>7. QED
  BY <1>3, <1>4, <1>6 DEF PatientInv

\* A client that waits for each answer, presents the last token it received and
\* loses no answer keeps its session, for any number of other requests
\* (service.py:76-126).
THEOREM PatientCorrect == Spec => []PatientClientKeepsSession
<1>1. Init => PatientInv
  BY DEF Init, PatientInv, SweepsOwnFamily, Kept, Busy
<1>2. TypeOK /\ PatientInv /\ [Next]_vars => PatientInv'
  <2> SUFFICES ASSUME TypeOK, PatientInv, [Next]_vars PROVE PatientInv'
    OBVIOUS
  <2>1. ASSUME NEW r \in Request, NEW t \in Token,
               RefreshLive(r, t) \/ RefreshExpired(r, t) \/ RefreshReplaced(r, t)
                 \/ LogoutBegin(r, t)
        PROVE  PatientInv'
    BY <2>1, PatientPresent
  <2>2. ASSUME NEW r \in Request, NEW u \in User, RegisterBegin(r, u) \/ LoginBegin(r, u)
        PROVE  PatientInv'
    BY <2>2, PatientFrame
       DEF RegisterBegin, LoginBegin, rows, history, InTransaction, PatientInv, TypeOK
  <2>3. ASSUME NEW r \in Request, RegisterCommit(r)
        PROVE  PatientInv'
    BY <2>3, PatientFrame DEF RegisterCommit, rows, history, InTransaction, PatientInv, TypeOK
  <2>4. ASSUME NEW r \in Request, OpenSession(r) \/ RotateCommit(r)
        PROVE  PatientInv'
    BY <2>4, PatientIssue
  <2>5. ASSUME NEW r \in Request,
               ExpireCommit(r) \/ LogoutCommit(r) \/ SweepCommit(r) \/ Deliver(r) \/ Crash(r)
                 \/ RegisterConflict(r)
        PROVE  PatientInv'
    BY <2>5, PatientEnd
  <2>6. ASSUME NEW r \in Request, SweepSelect(r)
        PROVE  PatientInv'
    <3>1. /\ pc[r] = "detecting" /\ pc' = [pc EXCEPT ![r] = "sweeping"]
          /\ sweep' = [sweep EXCEPT ![r] = Live(family[tok[r]])]
          /\ UNCHANGED <<family, revoked, expired, tok, client, spoiled>>
      BY <2>6 DEF SweepSelect, rows, history
    <3>2. SweepsOwnFamily'
      BY <3>1 DEF PatientInv, SweepsOwnFamily, TypeOK, Live
    <3>3. (\A q \in Request : tok[q] # None => pc[q] \in InTransaction \cup {"answering"})'
      BY <3>1 DEF PatientInv, TypeOK, InTransaction
    <3>4. ASSUME NEW f \in Family \ spoiled'
          PROVE  Kept(f)'
      <4>1. Kept(f) /\ Busy(f)' = Busy(f) /\ Live(f)' = Live(f) /\ client' = client
        BY <3>1 DEF PatientInv, Busy, Live, Issued
      <4>2. \A q \in Busy(f) : pc'[q] = IF q = r THEN "sweeping" ELSE pc[q]
        BY <3>1 DEF Busy, TypeOK
      <4>3. QED
        BY <3>1, <4>1, <4>2 DEF Kept
    <3>5. QED
      BY <3>2, <3>3, <3>4 DEF PatientInv
  <2>7. ASSUME NEW t \in Token, Expire(t)
        PROVE  PatientInv'
    BY <2>7, PatientFrame DEF Expire, slots, history
  <2>8. ASSUME NEW u \in User, SetBlocked(u)
        PROVE  PatientInv'
    BY <2>8, PatientFrame DEF SetBlocked, rows, slots, history
  <2>9. CASE UNCHANGED vars
    BY <2>9, PatientFrame DEF vars, rows, slots, history
  <2>10. QED
    BY <2>1, <2>2, <2>3, <2>4, <2>5, <2>6, <2>7, <2>8, <2>9 DEF Next
<1>3. PatientInv => PatientClientKeepsSession
  BY DEF PatientInv, PatientClientKeepsSession, Kept
<1>4. QED
  BY <1>1, <1>2, <1>3, TypeCorrect, PTL DEF Spec
=============================================================================
