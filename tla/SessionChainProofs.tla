-------------------------- MODULE SessionChainProofs --------------------------
(***************************************************************************)
(* RefreshTokens implements SessionChain: under the mapping of             *)
(* RefreshTokens (current, opened, used, branched) every step of the token *)
(* store is a step of the chain or leaves it as it is.                     *)
(***************************************************************************)
EXTENDS RefreshTokensProofs

\* What the mapping needs: sessions that did not branch have one live token,
\* and only a session that exists can branch.
ChainInv ==
  /\ TypeOK
  /\ SequentialInv
  /\ overlapped \subseteq Opened

\* The usable token the mapping shows for session f.
Any(S) == CHOOSE t \in S : TRUE
Shown(f) == IF f \in overlapped \/ Live(f) = {} THEN None ELSE Any(Live(f))
Current == [f \in Family |-> Shown(f)]

\* A live token is a token, so the chain shows it as not None.
LEMMA ShownLive ==
  ASSUME TypeOK, NEW f \in Family \ overlapped, Live(f) # {}
  PROVE  Shown(f) \in Live(f) /\ Shown(f) # None
<1>1. Shown(f) \in Live(f)
  BY DEF Shown, Any
<1>2. QED
  BY <1>1, NoneAssumption DEF Live, Issued

\* A session with one live token shows that one.
LEMMA AnyOfOne ==
  ASSUME NEW t
  PROVE  Any({t}) = t
  BY DEF Any

\* The variables of the chain under the mapping.
LEMMA Mapped ==
  /\ UNCHANGED <<Current, Opened, Issued, overlapped>> => UNCHANGED Chain!vars
  /\ Chain!Init <=> /\ Current = [f \in Family |-> None]
                    /\ Opened = {} /\ Issued = {} /\ overlapped = {}
  BY DEF Chain!vars, Chain!Init, Current, Shown, Any

\* The steps of the chain under the mapping.
LEMMA MappedSteps ==
  ASSUME NEW f \in Family, NEW t \in Token
  PROVE  /\ /\ f \notin Opened /\ t \notin Issued
            /\ Current' = [Current EXCEPT ![f] = t]
            /\ Opened' = Opened \cup {f} /\ Issued' = Issued \cup {t}
            /\ UNCHANGED overlapped
            => Chain!Open(f, t)
         /\ /\ Current[f] # None /\ t \notin Issued
            /\ Current' = [Current EXCEPT ![f] = t]
            /\ Issued' = Issued \cup {t}
            /\ UNCHANGED <<Opened, overlapped>>
            => Chain!Rotate(f, t)
         /\ /\ f \in overlapped /\ t \notin Issued
            /\ Issued' = Issued \cup {t}
            /\ UNCHANGED <<Current, Opened, overlapped>>
            => Chain!RotateBranched(f, t)
         /\ /\ Current[f] # None
            /\ Current' = [Current EXCEPT ![f] = None]
            /\ UNCHANGED <<Opened, Issued, overlapped>>
            => Chain!End(f)
         /\ /\ f \in Opened \ overlapped
            /\ overlapped' = overlapped \cup {f}
            /\ Current' = [Current EXCEPT ![f] = None]
            /\ UNCHANGED <<Opened, Issued>>
            => Chain!Branch(f)
  BY DEF Chain!Open, Chain!Rotate, Chain!RotateBranched, Chain!End, Chain!Branch,
         Current, Shown, Any

\* A session whose live tokens stay, and that does not branch, is shown as it was.
LEMMA ShownKept ==
  ASSUME NEW f \in Family, Live(f)' = Live(f), f \in overlapped' <=> f \in overlapped
  PROVE  Shown(f)' = Shown(f)
  BY DEF Shown

\* Only the session a step works on is shown anew.
LEMMA CurrentChange ==
  ASSUME NEW f \in Family, NEW x, Shown(f)' = x,
         \A g \in Family \ {f} : Shown(g)' = Shown(g)
  PROVE  /\ Current' = [Current EXCEPT ![f] = x]
         /\ x = Shown(f) => Current' = Current
  BY DEF Current

\* A login or a registration opens a session with a token never used before.
LEMMA ChainOpen ==
  ASSUME ChainInv, NEW r \in Request, OpenSession(r)
  PROVE  \E f \in Family, t \in Token : Chain!Open(f, t)
<1>1. PICK t \in Token \ Issued, f \in Family \ Opened :
        family' = [family EXCEPT ![t] = f] /\ UNCHANGED <<revoked, overlapped>>
  BY DEF OpenSession, Insert, history
<1>2. /\ Opened' = Opened \cup {f} /\ Issued' = Issued \cup {t} /\ Live(f)' = {t}
      /\ \A g \in Family \ {f} : Live(g)' = Live(g)
  BY <1>1, NoneAssumption DEF ChainInv, TypeOK, Opened, Issued, Live
<1>3. f \notin overlapped'
  BY <1>1 DEF ChainInv
<1>4. Shown(f)' = t
  BY <1>2, <1>3, AnyOfOne DEF Shown
<1>5. \A g \in Family \ {f} : Shown(g)' = Shown(g)
  BY <1>1, <1>2, ShownKept
<1>6. Current' = [Current EXCEPT ![f] = t]
  BY <1>4, <1>5, CurrentChange
<1>7. Chain!Open(f, t)
  BY <1>1, <1>2, <1>6, MappedSteps
<1>8. QED
  BY <1>1, <1>7

\* A rotation exchanges the token the chain shows, or adds a token to a session
\* that has branched.
LEMMA ChainRotate ==
  ASSUME ChainInv, NEW r \in Request, RotateCommit(r)
  PROVE  \E f \in Family, t \in Token : Chain!Rotate(f, t) \/ Chain!RotateBranched(f, t)
<1>1. PICK f \in Family : pc[r] = "rotating" /\ tok[r] \in Issued /\ f = family[tok[r]]
  BY DEF RotateCommit, ChainInv, TypeOK, InTransaction, Issued
<1>2. PICK t \in Token \ Issued :
        /\ family' = [family EXCEPT ![t] = f]
        /\ revoked' = revoked \cup {tok[r]} /\ overlapped' = overlapped
  BY <1>1 DEF RotateCommit, Insert
<1>3. /\ Opened' = Opened /\ Issued' = Issued \cup {t}
      /\ Live(f)' = (Live(f) \ {tok[r]}) \cup {t}
      /\ \A g \in Family \ {f} : Live(g)' = Live(g)
  BY <1>1, <1>2, NoneAssumption DEF Opened, Issued, Live, ChainInv, TypeOK
<1>4. \A g \in Family \ {f} : Shown(g)' = Shown(g)
  BY <1>2, <1>3, ShownKept
<1>5. CASE f \in overlapped
  <2>1. Shown(f)' = Shown(f)
    BY <1>2, <1>5 DEF Shown
  <2>2. Current' = Current
    BY <1>4, <2>1, CurrentChange
  <2>3. Chain!RotateBranched(f, t)
    BY <1>2, <1>3, <1>5, <2>2, MappedSteps
  <2>4. QED
    BY <1>1, <1>2, <2>3
<1>6. CASE f \notin overlapped
  <2>1. Live(f) = {tok[r]}
    BY <1>1, <1>6 DEF ChainInv, SequentialInv, Alone, OneLiveToken, Live, InTransaction
  <2>2. Current[f] # None
    BY <1>6, <2>1, ShownLive DEF ChainInv, Current
  <2>3. Live(f)' = {t}
    BY <1>3, <2>1
  <2>4. Shown(f)' = t
    BY <1>2, <1>6, <2>3, AnyOfOne DEF Shown
  <2>5. Current' = [Current EXCEPT ![f] = t]
    BY <1>4, <2>4, CurrentChange
  <2>6. Chain!Rotate(f, t)
    BY <1>2, <1>3, <2>2, <2>5, MappedSteps
  <2>7. QED
    BY <1>1, <1>2, <2>6
<1>7. QED
  BY <1>5, <1>6

\* A logout, an expiry or a sweep ends the session, or finds it ended.
LEMMA ChainRevoke ==
  ASSUME ChainInv, NEW r \in Request,
         ExpireCommit(r) \/ LogoutCommit(r) \/ SweepCommit(r)
  PROVE  (\E f \in Family : Chain!End(f)) \/ UNCHANGED Chain!vars
<1>1. PICK f \in Family : tok[r] \in Issued /\ f = family[tok[r]]
  BY DEF ExpireCommit, LogoutCommit, SweepCommit, ChainInv, TypeOK, InTransaction, Issued
<1>2. PICK S \in SUBSET Token :
        /\ revoked' = revoked \cup S /\ UNCHANGED <<family, overlapped>>
        /\ \A t \in S : family[t] = f
        /\ f \in (reported \cup closed)'
  <2>1. CASE ExpireCommit(r) \/ LogoutCommit(r)
    <3>1. /\ {tok[r]} \in SUBSET Token /\ family[tok[r]] = f /\ f \in closed'
          /\ revoked' = revoked \cup {tok[r]} /\ UNCHANGED <<family, overlapped>>
      BY <1>1, <2>1 DEF ExpireCommit, LogoutCommit, Revoke, Issued
    <3>2. QED
      BY <3>1
  <2>2. CASE SweepCommit(r)
    BY <1>1, <2>2 DEF SweepCommit, ChainInv, TypeOK, SequentialInv, SweepsOwnFamily
  <2>3. QED
    BY <2>1, <2>2
<1>3. /\ Opened' = Opened /\ Issued' = Issued
      /\ \A g \in Family \ {f} : Live(g)' = Live(g)
  BY <1>2 DEF Opened, Live, Issued
<1>4. \A g \in Family \ {f} : Shown(g)' = Shown(g)
  BY <1>2, <1>3, ShownKept
<1>5. f \notin overlapped => Live(f)' = {}
  <2>1. SequentialInv'
    BY SequentialRevoke DEF ChainInv
  <2>2. QED
    BY <1>2, <2>1 DEF SequentialInv, EndedSessionsAreDead
<1>6. Shown(f)' = None
  BY <1>2, <1>5 DEF Shown
<1>7. CASE Shown(f) = None
  BY <1>2, <1>3, <1>4, <1>6, <1>7, CurrentChange, Mapped
<1>8. CASE Shown(f) # None
  <2>1. Current' = [Current EXCEPT ![f] = None] /\ Current[f] # None
    BY <1>4, <1>6, <1>8, CurrentChange DEF Current
  <2>2. \A t \in Token : Chain!End(f)
    BY <1>2, <1>3, <2>1, MappedSteps
  <2>3. QED
    BY <1>1, <2>2 DEF Issued
<1>9. QED
  BY <1>7, <1>8

\* A request that begins while another is open on its session branches it.
LEMMA ChainBegin ==
  ASSUME ChainInv, NEW r \in Request, NEW t \in Token, NEW s, Begin(r, t, s)
  PROVE  (\E f \in Family : Chain!Branch(f)) \/ UNCHANGED Chain!vars
<1>1. PICK f \in Family :
        /\ f = family[t] /\ f \in Opened
        /\ overlapped' \in {overlapped, overlapped \cup {f}}
        /\ UNCHANGED <<family, revoked>>
  BY DEF Begin, rows, ChainInv, TypeOK, Issued, Opened
<1>2. Opened' = Opened /\ Issued' = Issued /\ \A g \in Family : Live(g)' = Live(g)
  BY <1>1 DEF Opened, Live, Issued
<1>3. \A g \in Family \ {f} : Shown(g)' = Shown(g)
  BY <1>1, <1>2, ShownKept
<1>4. CASE overlapped' = overlapped
  <2>1. Shown(f)' = Shown(f)
    BY <1>2, <1>4, ShownKept
  <2>2. QED
    BY <1>2, <1>3, <1>4, <2>1, CurrentChange, Mapped
<1>5. CASE overlapped' # overlapped
  <2>1. f \notin overlapped /\ overlapped' = overlapped \cup {f}
    BY <1>1, <1>5
  <2>2. Shown(f)' = None
    BY <2>1 DEF Shown
  <2>3. Current' = [Current EXCEPT ![f] = None]
    BY <1>3, <2>2, CurrentChange
  <2>4. Chain!Branch(f)
    BY <1>1, <1>2, <2>1, <2>3, MappedSteps
  <2>5. QED
    BY <2>4
<1>6. QED
  BY <1>4, <1>5

\* A step that writes no row and opens no transaction is not seen by the chain.
LEMMA ChainFrame ==
  ASSUME UNCHANGED <<family, revoked, overlapped>>
  PROVE  UNCHANGED Chain!vars
<1>1. \A f \in Family : Live(f)' = Live(f)
  BY DEF Live, Issued
<1>2. \A f \in Family : Shown(f)' = Shown(f)
  BY <1>1, ShownKept
<1>3. Current' = Current /\ Opened' = Opened /\ Issued' = Issued
  BY <1>2 DEF Current, Opened, Issued
<1>4. QED
  BY <1>3, Mapped

\* A session that branches exists: it has the row that was presented.
LEMMA BranchedIsOpened == TypeOK /\ overlapped \subseteq Opened /\ [Next]_vars
                            => (overlapped \subseteq Opened)'
<1> SUFFICES ASSUME TypeOK, overlapped \subseteq Opened, [Next]_vars
             PROVE  (overlapped \subseteq Opened)'
  OBVIOUS
<1>1. ASSUME Opened \subseteq Opened', overlapped' \subseteq overlapped \cup Opened
      PROVE  (overlapped \subseteq Opened)'
  BY <1>1
<1>2. ASSUME UNCHANGED <<family, overlapped>>
      PROVE  (overlapped \subseteq Opened)'
  BY <1>2 DEF Opened, Issued
<1>3. ASSUME NEW r \in Request, NEW t \in Token,
             RefreshLive(r, t) \/ RefreshExpired(r, t) \/ RefreshReplaced(r, t)
               \/ LogoutBegin(r, t)
      PROVE  (overlapped \subseteq Opened)'
  <2>1. /\ t \in Issued /\ family' = family
        /\ overlapped' \in {overlapped, overlapped \cup {family[t]}}
    BY <1>3 DEF RefreshLive, RefreshExpired, RefreshReplaced, LogoutBegin, Present, Begin, rows
  <2>2. QED
    BY <1>1, <2>1 DEF Opened, Issued
<1>4. ASSUME NEW r \in Request, OpenSession(r) \/ RotateCommit(r)
      PROVE  (overlapped \subseteq Opened)'
  <2>1. PICK t \in Token \ Issued, f \in Family :
          family' = [family EXCEPT ![t] = f] /\ overlapped' = overlapped
    BY <1>4 DEF OpenSession, RotateCommit, Insert, history, TypeOK, InTransaction, Issued
  <2>2. Opened \subseteq Opened'
    BY <2>1, NoneAssumption DEF Opened, Issued, TypeOK
  <2>3. QED
    BY <1>1, <2>1, <2>2
<1>5. ASSUME NEW r \in Request, NEW u \in User, RegisterBegin(r, u) \/ LoginBegin(r, u)
      PROVE  (overlapped \subseteq Opened)'
  BY <1>2, <1>5 DEF RegisterBegin, LoginBegin, rows, history
<1>6. ASSUME NEW r \in Request,
             RegisterCommit(r) \/ RegisterConflict(r) \/ SweepSelect(r)
               \/ ExpireCommit(r) \/ LogoutCommit(r) \/ SweepCommit(r)
               \/ Deliver(r) \/ Crash(r)
      PROVE  (overlapped \subseteq Opened)'
  BY <1>2, <1>6 DEF RegisterCommit, RegisterConflict, SweepSelect, ExpireCommit, LogoutCommit,
     SweepCommit, Revoke, Deliver, Crash, rows, history
<1>7. ASSUME NEW t \in Token, Expire(t)
      PROVE  (overlapped \subseteq Opened)'
  BY <1>2, <1>7 DEF Expire, history
<1>8. ASSUME NEW u \in User, SetBlocked(u)
      PROVE  (overlapped \subseteq Opened)'
  BY <1>2, <1>8 DEF SetBlocked, rows, history
<1>9. CASE UNCHANGED vars
  BY <1>2, <1>9 DEF vars, rows, history
<1>10. QED
  BY <1>3, <1>4, <1>5, <1>6, <1>7, <1>8, <1>9 DEF Next

\* The token store implements one chain of tokens per session: whatever
\* registrations, logins, rotations, logouts, expiries, sweeps and crashes do,
\* a session that sees one request at a time has one usable token, which is
\* exchanged for a fresh one or ended for good (service.py:76-179).
THEOREM ChainCorrect == Spec => ImplementsSessionChain
<1>1. Init => Chain!Init /\ overlapped \subseteq Opened
  <2> SUFFICES ASSUME Init PROVE Chain!Init /\ overlapped \subseteq Opened
    OBVIOUS
  <2>1. Issued = {} /\ Opened = {} /\ overlapped = {}
    BY DEF Init, Issued, Opened
  <2>2. \A f \in Family : Live(f) = {}
    BY <2>1 DEF Live
  <2>3. Current = [f \in Family |-> None]
    BY <2>2 DEF Current, Shown
  <2>4. QED
    BY <2>1, <2>3, Mapped
<1>2. ChainInv /\ [Next]_vars => [Chain!Next]_(Chain!vars)
  <2> SUFFICES ASSUME ChainInv, [Next]_vars PROVE [Chain!Next]_(Chain!vars)
    OBVIOUS
  <2>1. ASSUME NEW r \in Request, NEW t \in Token,
               RefreshLive(r, t) \/ RefreshExpired(r, t) \/ RefreshReplaced(r, t)
                 \/ LogoutBegin(r, t)
        PROVE  [Chain!Next]_(Chain!vars)
    <3>1. \E s \in InTransaction : Begin(r, t, s)
      BY <2>1 DEF RefreshLive, RefreshExpired, RefreshReplaced, LogoutBegin, Present,
         InTransaction
    <3>2. QED
      BY <3>1, ChainBegin DEF Chain!Next
  <2>2. ASSUME NEW r \in Request, OpenSession(r)
        PROVE  [Chain!Next]_(Chain!vars)
    BY <2>2, ChainOpen DEF Chain!Next
  <2>3. ASSUME NEW r \in Request, RotateCommit(r)
        PROVE  [Chain!Next]_(Chain!vars)
    BY <2>3, ChainRotate DEF Chain!Next
  <2>4. ASSUME NEW r \in Request, ExpireCommit(r) \/ LogoutCommit(r) \/ SweepCommit(r)
        PROVE  [Chain!Next]_(Chain!vars)
    BY <2>4, ChainRevoke DEF Chain!Next
  <2>5. ASSUME NEW r \in Request, NEW u \in User, RegisterBegin(r, u) \/ LoginBegin(r, u)
        PROVE  [Chain!Next]_(Chain!vars)
    BY <2>5, ChainFrame DEF RegisterBegin, LoginBegin, rows, history
  <2>6. ASSUME NEW r \in Request,
               RegisterCommit(r) \/ RegisterConflict(r) \/ SweepSelect(r)
                 \/ Deliver(r) \/ Crash(r)
        PROVE  [Chain!Next]_(Chain!vars)
    BY <2>6, ChainFrame DEF RegisterCommit, RegisterConflict, SweepSelect, Deliver, Crash,
       rows, history
  <2>7. ASSUME NEW t \in Token, Expire(t)
        PROVE  [Chain!Next]_(Chain!vars)
    BY <2>7, ChainFrame DEF Expire, history
  <2>8. ASSUME NEW u \in User, SetBlocked(u)
        PROVE  [Chain!Next]_(Chain!vars)
    BY <2>8, ChainFrame DEF SetBlocked, rows, history
  <2>9. CASE UNCHANGED vars
    BY <2>9, ChainFrame DEF vars, rows, history
  <2>10. QED
    BY <2>1, <2>2, <2>3, <2>4, <2>5, <2>6, <2>7, <2>8, <2>9 DEF Next
<1>3. ChainInv <=> TypeOK /\ SequentialInv /\ overlapped \subseteq Opened
  BY DEF ChainInv
<1>4. Spec => []SequentialInv
  BY SequentialInvariant
<1>5. QED
  BY <1>1, <1>2, <1>3, <1>4, TypeCorrect, BranchedIsOpened, PTL
     DEF Spec, ImplementsSessionChain, Chain!Spec
=============================================================================
